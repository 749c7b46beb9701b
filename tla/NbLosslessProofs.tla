-------------------------- MODULE NbLosslessProofs ---------------------------
(***************************************************************************)
(* What TLAPS proves about NbSystem over links that lose, reorder and      *)
(* duplicate nothing, for every number of clients, packets and attempts,   *)
(* with failing calls, Ctrl+C and timeouts at any time.                    *)
(***************************************************************************)
EXTENDS NbSystemProofs

USE StatsAssumption, NetworkAssumption, ServerAssumption
    DEF StatsAssumption, NetworkAssumption, ServerAssumption
USE DEF processVars, testVars, resultVars, threadVars, flagVars, answerVars,
        countVars

\* The link of NoPhantomLoss.
LosslessLink == Fifo /\ MaxDup = 0

\* The data of a client in flight.
DataOf(c) == {m \in net : m.type = "DATA" /\ m.from = c}

\* All of its data but the first k packets is in flight.
Queued(c, k) == DataOf(c) = {DataMsg(c, i) : i \in (k + 1)..packets_sent[c]}

\* A client sends data only after its Start.
NothingBeforeStart ==
  \A c \in Clients : main[c] = "start" => packets_sent[c] = 0

\* As long as the Start is under way, so is all data.
StartComesFirst == \A c \in Clients : StartMsg(c) \in net => Queued(c, 0)

\* A collector that has seen the packets 1, 2, ... in this order and nothing
\* else.
InOrder(st) ==
  LET k == st.packets_received
  IN  /\ st.seen_ids = 1..k
      /\ st.first_packet <=> k = 0
      /\ k > 0 => st.last_packet_id = k
      /\ st.out_of_order = 0
      /\ st.duplicate = 0

\* During RECEIVING the collector has seen the first packets of its client, and
\* the others are under way.
PrefixCounted ==
  spc \in {"receive", "receive_recv"} =>
    /\ InOrder(stats)
    /\ stats.packets_received <= packets_sent[client_addr]
    /\ Queued(client_addr, stats.packets_received)

\* What a collector or a summary says of a test of c, if it knows the total.
WholeTest(s, c) ==
  s.total_packets > 0 => /\ s.packets_received = packets_sent[c]
                         /\ s.out_of_order = 0
                         /\ s.duplicate = 0

\* So does whatever comes after RECEIVING.
SummariesAreWhole ==
  /\ spc = "report" => WholeTest(stats, client_addr)
  /\ spc \in {"send_result", "await_ack", "idle"}
       => WholeTest(summary, client_addr)
  /\ \A m \in net : m.type = "RESULT" => WholeTest(m.body, m.to)
  /\ \A c \in Clients : result_received[c] => WholeTest(server_summary[c], c)

\* The inductive invariant of NoPhantomLoss: the link keeps the order in which
\* a client sends, so that the Finish finds no data behind it.
LosslessInv ==
  /\ NothingBeforeStart
  /\ StartComesFirst
  /\ PrefixCounted
  /\ SummariesAreWhole

\* What is known already.
KnownInv == TypeInv /\ ExactnessInv /\ TotalInv

-----------------------------------------------------------------------------
(* The queue of a client *)

\* A data packet is determined by its client and its id.
LEMMA DataFields ==
  ASSUME NetTypeOK, NEW c \in Clients, NEW m \in DataOf(c)
  PROVE  m = DataMsg(c, m.packet_id) /\ m.packet_id \in 1..MaxPackets
BY DEF DataOf, NetTypeOK, Datagrams, DataMsg

\* Two data packets of one client with different ids are different.
LEMMA DataDiffer ==
  ASSUME NEW c, NEW i, NEW j, DataMsg(c, i) = DataMsg(c, j)
  PROVE  i = j
<1>1. DataMsg(c, i).packet_id = i /\ DataMsg(c, j).packet_id = j
  BY DEF DataMsg
<1> QED
  BY <1>1

\* Over this link a received datagram is out of flight.
LEMMA ReceiveRemoves ==
  ASSUME NetTypeOK, LosslessLink, NEW m, Receive(m)
  PROVE  net' = net \ {m}
BY DEF NetTypeOK, LosslessLink, Receive

\* It was the oldest of its sender.
LEMMA OldestFirst ==
  ASSUME LosslessLink, NEW m \in Deliverable(Server),
         NEW k \in net, k.from = m.from, k.to = Server
  PROVE  Rank(m) <= Rank(k)
BY DEF LosslessLink, Deliverable

\* The ranks of what a client sends to the server.
LEMMA Ranks ==
  ASSUME NEW c \in Clients
  PROVE  /\ Rank(StartMsg(c)) = 0
         /\ \A i : Rank(DataMsg(c, i)) = i
         /\ \A m \in Datagrams : m.type = "DATA" => Rank(m) = m.packet_id
         /\ \A m \in Datagrams : m.type = "FINISH" => Rank(m) > MaxPackets
<1>1. Rank(StartMsg(c)) = 0
  <2>1. StartMsg(c).type = "START"
    BY DEF StartMsg
  <2> QED
    BY <2>1 DEF Rank
<1>2. ASSUME NEW i PROVE Rank(DataMsg(c, i)) = i
  <2>1. DataMsg(c, i).type = "DATA" /\ DataMsg(c, i).packet_id = i
    BY DEF DataMsg
  <2> QED
    BY <2>1 DEF Rank
<1>3. ASSUME NEW m \in Datagrams, m.type = "DATA" PROVE Rank(m) = m.packet_id
  BY <1>3 DEF Rank
<1>4. ASSUME NEW m \in Datagrams, m.type = "FINISH" PROVE Rank(m) > MaxPackets
  <2>1. m.try \in Nat
    BY <1>4 DEF Datagrams
  <2>2. Rank(m) = MaxPackets + 1 + m.try
    BY <1>4 DEF Rank
  <2> QED
    BY <2>1, <2>2
<1> QED
  BY <1>1, <1>2, <1>3, <1>4

\* A step that touches neither the data nor the counter of c.
LEMMA QueueKept ==
  ASSUME NEW c, NEW k, Queued(c, k), packets_sent'[c] = packets_sent[c],
         DataOf(c)' = DataOf(c)
  PROVE  Queued(c, k)'
BY DEF Queued

\* Receiving something else keeps the queue of c.
LEMMA QueueSkips ==
  ASSUME NetTypeOK, NEW c \in Clients, NEW k, Queued(c, k),
         packets_sent' = packets_sent,
         NEW m, net' = net \ {m}, m \notin DataOf(c)
  PROVE  Queued(c, k)'
<1>1. DataOf(c)' = DataOf(c)
  BY DEF DataOf
<1> QED
  BY <1>1 DEF Queued

\* Receiving the first of the queue shortens it by one.
LEMMA QueueMoves ==
  ASSUME NetTypeOK, NEW c \in Clients, NEW k \in Nat, Queued(c, k),
         packets_sent' = packets_sent, packets_sent[c] \in Nat,
         net' = net \ {DataMsg(c, k + 1)}
  PROVE  Queued(c, k + 1)'
<1> DEFINE first == DataMsg(c, k + 1)
           n     == packets_sent[c]
<1>1. DataOf(c)' = DataOf(c) \ {first}
  BY DEF DataOf
<1>2. DataOf(c) = {DataMsg(c, i) : i \in (k + 1)..n}
  BY DEF Queued
<1>3. \A i \in (k + 1)..n : DataMsg(c, i) = first <=> i = k + 1
  BY DataDiffer
<1>4. \A i : i \in (k + 1 + 1)..n <=> i \in (k + 1)..n /\ i # k + 1
  BY SMT
<1> HIDE DEF first, n
<1>5. DataOf(c)' = {DataMsg(c, i) : i \in (k + 1 + 1)..n}
  BY <1>1, <1>2, <1>3, <1>4
<1> QED
  BY <1>5 DEF Queued, n

\* Sending a data packet lengthens it by one.
LEMMA QueueGrows ==
  ASSUME NEW c \in Clients, NEW k \in Nat, Queued(c, k),
         packets_sent[c] \in Nat, k <= packets_sent[c],
         packets_sent'[c] = packets_sent[c] + 1,
         net' = net \cup {DataMsg(c, packets_sent[c] + 1)}
  PROVE  Queued(c, k)'
<1> DEFINE n == packets_sent[c]
<1>1. DataOf(c)' = DataOf(c) \cup {DataMsg(c, n + 1)}
  <2>1. DataMsg(c, n + 1).type = "DATA" /\ DataMsg(c, n + 1).from = c
    BY DEF DataMsg
  <2> HIDE DEF n
  <2> QED
    BY <2>1 DEF DataOf, n
<1>2. DataOf(c) = {DataMsg(c, i) : i \in (k + 1)..n}
  BY DEF Queued
<1>3. \A i : i \in (k + 1)..(n + 1) <=> i \in (k + 1)..n \/ i = n + 1
  BY SMT
<1>4. packets_sent'[c] = n + 1
  OBVIOUS
<1> HIDE DEF n
<1>5. DataOf(c)' = {DataMsg(c, i) : i \in (k + 1)..(n + 1)}
  BY <1>1, <1>2, <1>3
<1> QED
  BY <1>4, <1>5 DEF Queued

-----------------------------------------------------------------------------
(* The collector *)

\* record_packet() of the next packet in order.
LEMMA RecordNext ==
  ASSUME NEW st \in Collectors, InOrder(st), st.packets_received + 1 < PruneAt,
         NEW hdr \in Headers, hdr.packet_id = st.packets_received + 1,
         NEW now \in Int
  PROVE  LET r == RecordPacket(st, hdr, now)
         IN  /\ InOrder(r)
             /\ r.packets_received = st.packets_received + 1
             /\ r.total_packets = st.total_packets
<1> DEFINE k    == st.packets_received
           r    == RecordPacket(st, hdr, now)
           last == IF st.first_packet THEN hdr.packet_id ELSE st.last_packet_id
<1>1. /\ k \in Nat /\ k + 1 < PruneAt
      /\ st.seen_ids = 1..k /\ hdr.packet_id \notin st.seen_ids
  BY DEF InOrder, Collectors
<1>2. /\ r.seen_ids = Pruned(st.seen_ids \cup {hdr.packet_id}, last)
      /\ r.packets_received = st.packets_received + 1
      /\ r.total_packets = st.total_packets
      /\ r.last_packet_id = hdr.packet_id
      /\ r.first_packet = FALSE
      /\ r.duplicate = st.duplicate
      /\ r.out_of_order = IF hdr.packet_id < last
                          THEN st.out_of_order + 1 ELSE st.out_of_order
  <2> HIDE DEF k
  <2>1. st \in Collectors /\ hdr \in Headers /\ now \in Int
        /\ hdr.packet_id \notin st.seen_ids
    BY <1>1
  <2>2. LET transit == now - hdr.timestamp
            before  == IF st.first_packet THEN transit ELSE st.prev_transit
        IN  /\ r.seen_ids = Pruned(st.seen_ids \cup {hdr.packet_id}, last)
            /\ r.packets_received = st.packets_received + 1
            /\ r.total_packets = st.total_packets
            /\ r.last_packet_id = hdr.packet_id
            /\ r.first_packet = FALSE
            /\ r.duplicate = st.duplicate
            /\ r.prev_transit = transit
            /\ r.jitter_max
                 = LargerOf(st.jitter_max, Distance(transit, before))
            /\ r.jitter_min
                 = SmallerOf(st.jitter_min, Distance(transit, before))
            /\ r.out_of_order = IF hdr.packet_id < last
                                THEN st.out_of_order + 1 ELSE st.out_of_order
    BY <2>1, RecordFresh
  <2> QED
    BY <2>2
<1>3. Pruned(1..(k + 1), last) = 1..(k + 1)
  <2> HIDE DEF k
  <2>1. k + 1 \in Int /\ 1 \in Int /\ ~(1 > k + 1) /\ (k + 1) - 1 + 1 = k + 1
    BY <1>1
  <2>2. Cardinality(1..(k + 1)) = k + 1
    BY <2>1, FS_Interval
  <2> QED
    BY <1>1, <2>2 DEF Pruned
<1>4. st.seen_ids \cup {hdr.packet_id} = 1..(k + 1)
  BY <1>1
<1>5. ~(hdr.packet_id < last)
  BY <1>1 DEF InOrder
<1>6. st.out_of_order = 0 /\ st.duplicate = 0 /\ hdr.packet_id = k + 1
  BY DEF InOrder
<1> HIDE DEF r, last
<1>7. InOrder(r)
  <2>1. r.packets_received = k + 1 /\ r.seen_ids = 1..(k + 1)
    BY <1>2, <1>3, <1>4
  <2>2. r.out_of_order = 0 /\ r.duplicate = 0 /\ r.last_packet_id = k + 1
    BY <1>2, <1>5, <1>6
  <2>3. r.first_packet <=> r.packets_received = 0
    <3>1. ~r.first_packet
      BY <1>2
    <3>2. r.packets_received # 0
      BY <1>1, <2>1
    <3> QED
      BY <3>1, <3>2
  <2> HIDE DEF k
  <2> QED
    BY <2>1, <2>2, <2>3 DEF InOrder
<1> QED
  BY <1>2, <1>7 DEF r

-----------------------------------------------------------------------------
(* The steps of a client *)

\* A client that has not begun has sent nothing, and goes on doing so.
LEMMA BeforeStartStep ==
  ASSUME TypeInv, NothingBeforeStart, NEW c \in Clients, ClientStep(c)
  PROVE  NothingBeforeStart'
<1> USE DEF TypeInv, TypeOK, ClientTypeOK
<1>1. main' \in [Clients -> {"start", "run", "done", "fatal", "terminated"}]
  BY ClientTypeStep
<1>2. CASE main[c] = "start"
  <2>1. packets_sent' = packets_sent /\ \A k \in Clients : main'[k] = "start"
                                                       => main[k] = "start"
    BY <1>2 DEF ClientStep, SenderThread, ReceiverThread, ClientStart,
       ClientStartFails, ClientReport, SenderLoop, SenderSend,
       SenderSendFails, SenderExit, SenderFinish, SenderFinishFails,
       SenderWait, ReceiverCheck, ReceiverTimeout, ReceiverRecv,
       ReceiverFails, TestTimePasses, ReceiverDeadlinePasses, ClientCtrlC
  <2> QED
    BY <2>1 DEF NothingBeforeStart
<1>3. CASE main[c] # "start"
  <2>1. /\ main'[c] # "start"
        /\ \A k \in Clients \ {c} : /\ main'[k] = main[k]
                                   /\ packets_sent'[k] = packets_sent[k]
    BY <1>3 DEF ClientStep, SenderThread, ReceiverThread, ClientStart,
       ClientStartFails, ClientReport, SenderLoop, SenderSend,
       SenderSendFails, SenderExit, SenderFinish, SenderFinishFails,
       SenderWait, ReceiverCheck, ReceiverTimeout, ReceiverRecv,
       ReceiverFails, TestTimePasses, ReceiverDeadlinePasses, ClientCtrlC
  <2> QED
    BY <2>1 DEF NothingBeforeStart
<1> QED
  BY <1>2, <1>3

\* What a step of a client does to the flight and to its counter.
LEMMA ClientTraffic ==
  ASSUME TypeInv, LosslessLink, NEW c \in Clients, ClientStep(c)
  PROVE  \/ /\ packets_sent' = packets_sent
            /\ \/ net' = net
               \/ main[c] = "start" /\ net' = net \cup {StartMsg(c)}
               \/ \E m : m.type = "FINISH" /\ net' = net \cup {m}
               \/ \E m \in net : m.type = "RESULT" /\ net' = net \ {m}
         \/ /\ main[c] = "run"
            /\ packets_sent' = [packets_sent EXCEPT ![c] = @ + 1]
            /\ net' = net \cup {DataMsg(c, packets_sent[c] + 1)}
<1> USE DEF TypeInv, TypeOK, ClientTypeOK
<1>1. CASE ClientStart(c)
  BY <1>1 DEF ClientStart, Send
<1>2. CASE SenderSend(c)
  BY <1>2 DEF SenderSend, Send
<1>3. CASE SenderFinish(c)
  <2>1. FinishMsg(c, packets_sent[c], finish_try[c]).type = "FINISH"
    BY DEF FinishMsg
  <2> QED
    BY <1>3, <2>1 DEF SenderFinish, Send
<1>4. CASE ReceiverRecv(c)
  <2>1. PICK m \in Deliverable(c) : m.type = "RESULT" /\ Receive(m)
    BY <1>4 DEF ReceiverRecv
  <2>2. net' = net \ {m} /\ m \in net
    BY <2>1, ReceiveRemoves, DeliverableType
  <2> QED
    BY <1>4, <2>1, <2>2 DEF ReceiverRecv
<1>5. CASE UNCHANGED <<net, packets_sent>>
  BY <1>5
<1>6. \/ ClientStart(c) \/ SenderSend(c) \/ SenderFinish(c) \/ ReceiverRecv(c)
      \/ UNCHANGED <<net, packets_sent>>
  BY DEF ClientStep, SenderThread, ReceiverThread, netVars, ClientStartFails,
         ClientReport, SenderLoop, SenderSendFails, SenderExit,
         SenderFinishFails, SenderWait, ReceiverCheck, ReceiverTimeout,
         ReceiverFails, TestTimePasses, ReceiverDeadlinePasses, ClientCtrlC
<1> QED
  BY <1>1, <1>2, <1>3, <1>4, <1>5, <1>6

\* A step of a client keeps every queue.
LEMMA QueueClientStep ==
  ASSUME TypeInv, LosslessLink, NEW c \in Clients, ClientStep(c),
         NEW d \in Clients, NEW k \in Nat, Queued(d, k), k <= packets_sent[d]
  PROVE  Queued(d, k)'
<1> USE DEF TypeInv, TypeOK
<1>1. \A m : (m.type # "DATA" \/ m.from # d) =>
          /\ net' = net \cup {m} => DataOf(d)' = DataOf(d)
          /\ net' = net \ {m} => DataOf(d)' = DataOf(d)
  BY DEF DataOf
<1>2. StartMsg(c).type = "START" /\ \A i : DataMsg(c, i).from = c
  BY DEF StartMsg, DataMsg
<1>3. CASE packets_sent' = packets_sent
  <2>1. DataOf(d)' = DataOf(d)
    <3>1. CASE net' = net
      BY <3>1 DEF DataOf
    <3>2. CASE \E m : m.type # "DATA" /\ (net' = net \cup {m} \/ net' = net \ {m})
      BY <1>1, <3>2
    <3>3. packets_sent[c] \in Nat
      BY DEF ClientTypeOK
    <3>4. packets_sent' # [packets_sent EXCEPT ![c] = @ + 1]
      BY <1>3, <3>3 DEF ClientTypeOK
    <3> QED
      BY <1>2, <3>1, <3>2, <3>4, ClientTraffic
  <2> QED
    BY <1>3, <2>1, QueueKept
<1>4. CASE /\ packets_sent' = [packets_sent EXCEPT ![c] = @ + 1]
           /\ net' = net \cup {DataMsg(c, packets_sent[c] + 1)}
  <2>1. packets_sent[d] \in Nat /\ DOMAIN packets_sent = Clients
    BY DEF ClientTypeOK
  <2>2. CASE d = c
    BY <1>4, <2>1, <2>2, QueueGrows
  <2>3. CASE d # c
    <3>1. DataOf(d)' = DataOf(d) /\ packets_sent'[d] = packets_sent[d]
      BY <1>1, <1>2, <1>4, <2>1, <2>3
    <3> QED
      BY <3>1, QueueKept
  <2> QED
    BY <2>2, <2>3
<1> QED
  BY <1>3, <1>4, ClientTraffic

\* A client keeps what was said of it.
LEMMA LosslessClientStep ==
  ASSUME KnownInv, LosslessLink, LosslessInv, NEW c \in Clients, ClientStep(c)
  PROVE  LosslessInv'
<1> USE DEF KnownInv, TypeInv, TypeOK, LosslessInv
<1>1. \A k \in Clients :
        /\ packets_sent[k] \in Nat /\ packets_sent'[k] \in Nat
        /\ packets_sent[k] <= packets_sent'[k]
        /\ PastDataLoop(k) => packets_sent'[k] = packets_sent[k]
  BY ClientMonotone, ClientTypeStep DEF ClientTypeOK
<1>2. /\ client_addr' = client_addr /\ stats' = stats
      /\ spc' = spc /\ summary' = summary
      /\ client_addr \in Clients \cup {NoClient}
  BY DEF ClientStep, serverVars, ServerTypeOK
<1>3. NothingBeforeStart'
  BY BeforeStartStep
<1>4. StartComesFirst'
  <2> SUFFICES ASSUME NEW d \in Clients, StartMsg(d) \in net'
               PROVE  Queued(d, 0)'
    BY DEF StartComesFirst
  <2>1. CASE StartMsg(d) \in net
    <3>1. Queued(d, 0) /\ 0 <= packets_sent[d]
      BY <1>1, <2>1 DEF StartComesFirst
    <3> QED
      BY <3>1, QueueClientStep
  <2>2. CASE StartMsg(d) \notin net
    <3>1. StartMsg(d).type = "START" /\ StartMsg(d).from = d
      BY DEF StartMsg
    <3>2. \A i : DataMsg(c, i).type = "DATA"
      BY DEF DataMsg
    <3>3. /\ main[c] = "start" /\ packets_sent' = packets_sent
          /\ net' = net \cup {StartMsg(c)} /\ StartMsg(d) = StartMsg(c)
      BY <2>2, <3>1, <3>2, ClientTraffic
    <3>4. d = c /\ StartMsg(c).type = "START"
      BY <3>1, <3>3 DEF StartMsg
    <3>5. packets_sent[c] = 0 /\ packets_sent'[c] = 0
      BY <3>3 DEF NothingBeforeStart
    <3>6. DataOf(c) = {}
      <4> SUFFICES ASSUME NEW m \in DataOf(c) PROVE FALSE
        OBVIOUS
      <4>1. m.packet_id \in 1..MaxPackets
        BY DataFields
      <4>2. m.packet_id <= packets_sent[c]
        BY DEF DataOf, ExactnessInv, FlightIsSent
      <4> QED
        BY <3>5, <4>1, <4>2
    <3>7. DataOf(c)' = {}
      BY <3>3, <3>4, <3>6 DEF DataOf
    <3> QED
      BY <3>4, <3>5, <3>7 DEF Queued
  <2> QED
    BY <2>1, <2>2
<1>5. PrefixCounted'
  <2> SUFFICES ASSUME spc \in {"receive", "receive_recv"}
               PROVE  /\ InOrder(stats)
                      /\ stats.packets_received <= packets_sent'[client_addr]
                      /\ Queued(client_addr, stats.packets_received)'
    BY <1>2 DEF PrefixCounted
  <2>1. /\ InOrder(stats)
        /\ stats.packets_received <= packets_sent[client_addr]
        /\ Queued(client_addr, stats.packets_received)
    BY DEF PrefixCounted
  <2>2. client_addr \in Clients /\ stats.packets_received \in Nat
    BY <1>2 DEF Serving, ServerTypeOK, Collectors
  <2>3. stats.packets_received <= packets_sent'[client_addr]
    BY <1>1, <2>1, <2>2
  <2>4. \A d \in Clients, k \in Nat :
          Queued(d, k) /\ k <= packets_sent[d] =>
            {m \in net' : m.type = "DATA" /\ m.from = d}
              = {DataMsg(d, i) : i \in (k + 1)..packets_sent'[d]}
    BY QueueClientStep DEF Queued, DataOf
  <2> QED
    BY <1>2, <2>1, <2>2, <2>3, <2>4 DEF Queued, DataOf
<1>6. SummariesAreWhole'
  <2>1. \A s : \A k \in Clients :
          WholeTest(s, k) /\ (s.total_packets > 0 => PastDataLoop(k)) =>
            (s.total_packets > 0 =>
               /\ s.packets_received = packets_sent'[k]
               /\ s.out_of_order = 0
               /\ s.duplicate = 0)
    BY <1>1 DEF WholeTest
  <2>2. (spc = "report" => WholeTest(stats, client_addr))'
    <3> SUFFICES ASSUME spc = "report" PROVE WholeTest(stats, client_addr)'
      BY <1>2
    <3>1. client_addr \in Clients /\ WholeTest(stats, client_addr)
      BY <1>2 DEF Serving, SummariesAreWhole
    <3>2. stats.total_packets > 0 => PastDataLoop(client_addr)
      BY <3>1 DEF ExactnessInv, TotalIsFinal
    <3> QED
      BY <1>2, <2>1, <3>1, <3>2 DEF WholeTest
  <2>3. (spc \in {"send_result", "await_ack", "idle"}
           => WholeTest(summary, client_addr))'
    <3> SUFFICES ASSUME spc \in {"send_result", "await_ack", "idle"}
                 PROVE  WholeTest(summary, client_addr)'
      BY <1>2
    <3>1. client_addr \in Clients /\ WholeTest(summary, client_addr)
      BY <1>2 DEF Serving, SummariesAreWhole
    <3>2. summary.total_packets > 0 => PastDataLoop(client_addr)
      BY <3>1 DEF ExactnessInv, SummariesAreFinal, FinalFor
    <3> QED
      BY <1>2, <2>1, <3>1, <3>2 DEF WholeTest
  <2>4. (\A m \in net : m.type = "RESULT" => WholeTest(m.body, m.to))'
    <3>1. \A m \in net' : m.type = "RESULT" =>
            /\ m.to \in Clients /\ WholeTest(m.body, m.to)
            /\ m.body.total_packets > 0 => PastDataLoop(m.to)
      BY ClientFlight, DatagramFields
         DEF NetTypeOK, SummariesAreWhole, ExactnessInv, SummariesAreFinal,
             FinalFor
    <3> QED
      BY <2>1, <3>1 DEF WholeTest
  <2>5. (\A k \in Clients : result_received[k]
                            => WholeTest(server_summary[k], k))'
    <3>1. ASSUME NEW k \in Clients, result_received'[k]
          PROVE  /\ WholeTest(server_summary'[k], k)
                 /\ server_summary'[k].total_packets > 0 => PastDataLoop(k)
      <4>1. CASE ReceiverRecv(c)
        <5>1. PICK m \in Deliverable(c) :
                /\ m.type = "RESULT"
                /\ server_summary' = [server_summary EXCEPT ![c] = m.body]
          BY <4>1 DEF ReceiverRecv
        <5>2. WholeTest(m.body, c) /\ FinalFor(m.body, c)
          BY <5>1, DeliverableType
             DEF SummariesAreWhole, ExactnessInv, SummariesAreFinal
        <5>3. k # c => result_received[k]
          BY <3>1, <4>1 DEF ReceiverRecv, ClientTypeOK
        <5> QED
          BY <5>1, <5>2, <5>3
             DEF SummariesAreWhole, ExactnessInv, SummariesAreFinal, FinalFor,
                 ClientTypeOK
      <4>2. CASE UNCHANGED <<result_received, server_summary>>
        BY <3>1, <4>2
           DEF SummariesAreWhole, ExactnessInv, SummariesAreFinal, FinalFor
      <4>3. ReceiverRecv(c) \/ UNCHANGED <<result_received, server_summary>>
        BY DEF ClientStep, SenderThread, ReceiverThread, ClientStart,
               ClientStartFails, ClientReport, SenderLoop, SenderSend,
               SenderSendFails, SenderExit, SenderFinish, SenderFinishFails,
               SenderWait, ReceiverCheck, ReceiverTimeout, ReceiverFails,
               TestTimePasses, ReceiverDeadlinePasses, ClientCtrlC
      <4> QED
        BY <4>1, <4>2, <4>3
    <3> QED
      BY <2>1, <3>1 DEF WholeTest
  <2> QED
    BY <2>2, <2>3, <2>4, <2>5 DEF SummariesAreWhole
<1> QED
  BY <1>3, <1>4, <1>5, <1>6

-----------------------------------------------------------------------------
(* The steps of the server *)

\* What a step of the server does to the flight.
LEMMA ServerTraffic ==
  ASSUME TypeInv, LosslessLink, ServerStep
  PROVE  \/ net' = net
         \/ \E m \in Deliverable(Server) : net' = net \ {m}
         \/ spc = "send_result"
              /\ net' = net \cup {ResultMsg(client_addr, summary, attempt)}
<1> USE DEF TypeInv, TypeOK
<1>1. ASSUME NEW m \in Deliverable(Server), Receive(m)
      PROVE  net' = net \ {m}
  BY <1>1, ReceiveRemoves
<1>2. CASE ServerListenRecv
  BY <1>1, <1>2 DEF ServerListenRecv
<1>3. CASE ServerReceiveRecv
  BY <1>1, <1>3 DEF ServerReceiveRecv
<1>4. CASE ServerAck
  BY <1>1, <1>4 DEF ServerAck
<1>5. CASE ServerSendResult
  BY <1>5 DEF ServerSendResult, Send
<1>6. \/ net' = net \/ ServerListenRecv \/ ServerReceiveRecv \/ ServerAck
      \/ ServerSendResult
  BY DEF ServerStep, ServerThread, netVars, ServerListen, ServerListenTimeout,
         ServerDeadlinePasses, ServerReceive, ServerReceiveTimeout,
         ServerReport, ServerAckTimeout, ServerIdle, ServerSocketFails,
         ServerCtrlC
<1> QED
  BY <1>2, <1>3, <1>4, <1>5, <1>6

\* While a Start is under way, the server cannot take data of its client.
LEMMA StartServerStep ==
  ASSUME TypeInv, LosslessLink, StartComesFirst, ServerStep
  PROVE  StartComesFirst'
<1> USE DEF TypeInv, TypeOK
<1> SUFFICES ASSUME NEW d \in Clients, StartMsg(d) \in net'
             PROVE  Queued(d, 0)'
  BY DEF StartComesFirst
<1>1. packets_sent' = packets_sent
  BY DEF ServerStep, clientVars
<1>2. /\ StartMsg(d).type = "START" /\ StartMsg(d).from = d
      /\ StartMsg(d).to = Server
  BY DEF StartMsg
<1>3. CASE net' = net
  <2>1. DataOf(d)' = DataOf(d) /\ Queued(d, 0)
    BY <1>3 DEF DataOf, StartComesFirst
  <2> QED
    BY <1>1, <2>1, QueueKept
<1>4. CASE \E m \in Deliverable(Server) : net' = net \ {m}
  <2>1. PICK m \in Deliverable(Server) : net' = net \ {m}
    BY <1>4
  <2>2. StartMsg(d) \in net /\ Queued(d, 0)
    BY <2>1 DEF StartComesFirst
  <2>3. m \notin DataOf(d)
    <3> SUFFICES ASSUME m \in DataOf(d) PROVE FALSE
      OBVIOUS
    <3>1. m \in Datagrams /\ m.type = "DATA" /\ m.from = d
      BY DeliverableType DEF DataOf
    <3>2. Rank(m) <= Rank(StartMsg(d))
      BY <1>2, <2>2, <3>1, OldestFirst
    <3>3. Rank(StartMsg(d)) = 0 /\ Rank(m) = m.packet_id
      BY <3>1, Ranks
    <3>4. m.packet_id \in 1..MaxPackets
      BY <3>1, DatagramFields
    <3> QED
      BY <3>2, <3>3, <3>4
  <2> QED
    BY <1>1, <2>1, <2>2, <2>3, QueueSkips
<1>5. CASE net' = net \cup {ResultMsg(client_addr, summary, attempt)}
  <2>1. ResultMsg(client_addr, summary, attempt).type = "RESULT"
    BY DEF ResultMsg
  <2>2. StartMsg(d) \in net /\ DataOf(d)' = DataOf(d)
    BY <1>2, <1>5, <2>1 DEF DataOf
  <2> QED
    BY <1>1, <2>2, QueueKept DEF StartComesFirst
<1> QED
  BY <1>3, <1>4, <1>5, ServerTraffic

\* What recv_from() returns of the client being served: the next packet, or a
\* Finish when all have come.
LEMMA NextOfClient ==
  ASSUME TypeInv, ExactnessInv, LosslessLink, NEW c \in Clients, NEW k \in Nat,
         Queued(c, k), k <= packets_sent[c],
         NEW m \in Deliverable(Server), m.from = c
  PROVE  /\ m.type = "DATA" => m = DataMsg(c, k + 1) /\ k < packets_sent[c]
         /\ m.type = "FINISH" => k = packets_sent[c]
<1> USE DEF TypeInv, TypeOK
<1> DEFINE n == packets_sent[c]
<1>1. m \in net /\ m \in Datagrams /\ n \in 0..MaxPackets
  BY DeliverableType DEF ClientTypeOK
<1>2. ASSUME k < n
      PROVE  DataMsg(c, k + 1) \in net /\ Rank(m) <= k + 1
  <2>1. k + 1 \in (k + 1)..n
    BY <1>1, <1>2
  <2>2. DataMsg(c, k + 1) \in net
    BY <2>1 DEF Queued, DataOf
  <2>3. DataMsg(c, k + 1).from = c /\ DataMsg(c, k + 1).to = Server
    BY DEF DataMsg
  <2>4. Rank(m) <= Rank(DataMsg(c, k + 1))
    BY <2>2, <2>3, OldestFirst
  <2> QED
    BY <2>2, <2>4, Ranks
<1>3. ASSUME m.type = "DATA"
      PROVE  m = DataMsg(c, k + 1) /\ k < n
  <2>1. PICK i \in (k + 1)..n : m = DataMsg(c, i)
    BY <1>1, <1>3 DEF DataOf, Queued
  <2>2. k < n /\ i \in Nat /\ i >= k + 1
    BY <1>1, <2>1
  <2>3. Rank(m) = i
    BY <2>1, Ranks
  <2>4. i = k + 1
    BY <1>2, <2>2, <2>3
  <2> QED
    BY <2>1, <2>2, <2>4
<1>4. ASSUME m.type = "FINISH"
      PROVE  k = n
  <2>1. Rank(m) > MaxPackets
    BY <1>1, <1>4, Ranks
  <2>2. Rank(m) \in Int
    <3>1. m.try \in Nat
      BY <1>1, <1>4 DEF Datagrams
    <3> QED
      BY <1>4, <3>1 DEF Rank
  <2>3. ~(k < n)
    BY <1>1, <1>2, <2>1, <2>2
  <2> QED
    BY <1>1, <2>3
<1> QED
  BY <1>3, <1>4

\* During RECEIVING the collector sees one packet after the other.
LEMMA PrefixServerStep ==
  ASSUME KnownInv, LosslessLink, LosslessInv, ServerStep
  PROVE  PrefixCounted'
<1> USE DEF KnownInv, TypeInv, TypeOK, LosslessInv
<1>1. packets_sent' = packets_sent
  BY DEF ServerStep, clientVars
<1>2. CASE spc' \notin {"receive", "receive_recv"}
  BY <1>2 DEF PrefixCounted
<1>3. CASE /\ spc \in {"receive", "receive_recv"}
           /\ UNCHANGED <<client_addr, stats, net>>
  BY <1>1, <1>3 DEF PrefixCounted, Queued, DataOf
<1>4. CASE ServerListenRecv /\ spc' \in {"receive", "receive_recv"}
  <2>1. PICK m \in Deliverable(Server) :
          /\ Receive(m) /\ m.type = "START" /\ client_addr' = m.from
          /\ stats' = StartTest(stats, 0)
    BY <1>4 DEF ServerListenRecv
  <2>2. m \in net /\ m \in Datagrams /\ m.from \in Clients
    BY <2>1, DeliverableType, DatagramFields
  <2>3. m = StartMsg(m.from) /\ m \notin DataOf(m.from)
    BY <2>1, <2>2 DEF Datagrams, StartMsg, DataOf
  <2>4. net' = net \ {m}
    BY <2>1, ReceiveRemoves
  <2>5. Queued(m.from, 0)
    BY <2>2, <2>3 DEF StartComesFirst
  <2>6. /\ InOrder(stats') /\ stats'.packets_received = 0
    <3>1. /\ stats'.seen_ids = {} /\ stats'.packets_received = 0
          /\ stats'.first_packet = TRUE /\ stats'.out_of_order = 0
          /\ stats'.duplicate = 0
      BY <2>1 DEF StartTest, NewCollector
    <3> QED
      BY <3>1 DEF InOrder
  <2>7. packets_sent[m.from] \in Nat
    BY <2>2 DEF ClientTypeOK
  <2>8. {k \in net' : k.type = "DATA" /\ k.from = m.from}
          = {DataMsg(m.from, i) : i \in (0 + 1)..packets_sent'[m.from]}
    BY <1>1, <2>2, <2>3, <2>4, <2>5, QueueSkips DEF Queued, DataOf
  <2> QED
    BY <1>1, <2>1, <2>6, <2>7, <2>8 DEF PrefixCounted, Queued, DataOf
<1>5. CASE ServerReceiveRecv /\ spc' \in {"receive", "receive_recv"}
  <2> DEFINE c == client_addr
             k == stats.packets_received
  <2>1. PICK m \in Deliverable(Server) :
          /\ Receive(m)
          /\ \/ /\ ~FromClient(m) \/ m.type \notin {"FINISH", "DATA"}
                /\ UNCHANGED stats
             \/ /\ FromClient(m) /\ m.type = "DATA"
                /\ stats' = RecordPacket(stats, HeaderOf(m), 0)
    BY <1>5 DEF ServerReceiveRecv
  <2>2. /\ m \in net /\ m \in Datagrams /\ net' = net \ {m}
        /\ client_addr' = client_addr /\ client_addr \in Clients
    BY <1>5, <2>1, DeliverableType, ReceiveRemoves
       DEF ServerReceiveRecv, Serving, ServerTypeOK
  <2>3. /\ InOrder(stats) /\ stats \in Collectors /\ k \in Nat
        /\ k <= packets_sent[c] /\ Queued(c, k)
        /\ packets_sent[c] \in 0..MaxPackets
    BY <1>5, <2>2
       DEF ServerReceiveRecv, PrefixCounted, ServerTypeOK, ClientTypeOK,
           Collectors
  <2>4. CASE UNCHANGED stats /\ m \notin DataOf(c)
    <3>1. DataOf(c)' = DataOf(c)
      BY <2>2, <2>4 DEF DataOf
    <3> QED
      BY <1>1, <2>2, <2>3, <2>4, <3>1 DEF PrefixCounted, Queued
  <2>5. CASE /\ FromClient(m) /\ m.type = "DATA"
             /\ stats' = RecordPacket(stats, HeaderOf(m), 0)
    <3>1. m = DataMsg(c, k + 1) /\ k < packets_sent[c]
      BY <2>2, <2>3, <2>5, NextOfClient DEF FromClient
    <3>2. /\ HeaderOf(m) \in Headers
          /\ HeaderOf(m).packet_id = k + 1
      <4>1. m.packet_id = k + 1
        BY <3>1 DEF DataMsg
      <4> QED
        BY <2>3, <4>1 DEF HeaderOf, Headers, PacketHeaders
    <3>3. k + 1 < PruneAt
      BY <2>3, <3>1, NoPruning
    <3>4. InOrder(stats') /\ stats'.packets_received = k + 1
      BY <2>3, <2>5, <3>2, <3>3, RecordNext
    <3>5. \A d \in Clients, j \in Nat :
            Queued(d, j) /\ net' = net \ {DataMsg(d, j + 1)} =>
              {i \in net' : i.type = "DATA" /\ i.from = d}
                = {DataMsg(d, i) : i \in (j + 1 + 1)..packets_sent'[d]}
      <4>1. \A d \in Clients : packets_sent[d] \in Nat
        BY DEF ClientTypeOK
      <4> QED
        BY <1>1, <4>1, QueueMoves DEF Queued, DataOf
    <3>6. {i \in net' : i.type = "DATA" /\ i.from = c}
            = {DataMsg(c, i) : i \in (k + 1 + 1)..packets_sent'[c]}
      BY <2>2, <2>3, <3>1, <3>5
    <3> QED
      BY <1>1, <2>2, <2>3, <3>1, <3>4, <3>6 DEF PrefixCounted, Queued, DataOf
  <2>6. ~FromClient(m) \/ m.type # "DATA" => m \notin DataOf(c)
    BY DEF FromClient, DataOf
  <2> QED
    BY <2>1, <2>4, <2>5, <2>6
<1>6. \/ spc' \notin {"receive", "receive_recv"}
      \/ /\ spc \in {"receive", "receive_recv"}
         /\ UNCHANGED <<client_addr, stats, net>>
      \/ ServerListenRecv \/ ServerReceiveRecv
  BY DEF ServerStep, ServerThread, netVars, ServerListen, ServerListenTimeout,
         ServerDeadlinePasses, ServerReceive, ServerReceiveTimeout,
         ServerReport, ServerSendResult, ServerAck, ServerAckTimeout,
         ServerIdle, AfterTest, ServerSocketFails, ServerCtrlC
<1> QED
  BY <1>2, <1>3, <1>4, <1>5, <1>6

\* The Finish ends RECEIVING when all data has come, and the summary is made of
\* what was counted until then.
LEMMA WholeServerStep ==
  ASSUME KnownInv, LosslessLink, LosslessInv, ServerStep
  PROVE  SummariesAreWhole'
<1> USE DEF KnownInv, TypeInv, TypeOK, LosslessInv
<1>1. /\ packets_sent' = packets_sent /\ result_received' = result_received
      /\ server_summary' = server_summary
  BY DEF ServerStep, clientVars
<1>2. (\A c \in Clients : result_received[c]
                          => WholeTest(server_summary[c], c))'
  BY <1>1 DEF SummariesAreWhole, WholeTest
<1>3. (\A m \in net : m.type = "RESULT" => WholeTest(m.body, m.to))'
  <2>1. CASE net' \subseteq net
    BY <1>1, <2>1 DEF SummariesAreWhole, WholeTest
  <2>2. CASE /\ spc = "send_result"
             /\ net' = net \cup {ResultMsg(client_addr, summary, attempt)}
    <3> DEFINE r == ResultMsg(client_addr, summary, attempt)
    <3>1. WholeTest(summary, client_addr)
      BY <2>2 DEF SummariesAreWhole
    <3>2. r.type = "RESULT" /\ r.body = summary /\ r.to = client_addr
      BY DEF ResultMsg
    <3> HIDE DEF r
    <3> QED
      BY <1>1, <2>2, <3>1, <3>2 DEF SummariesAreWhole, WholeTest, r
  <2> QED
    BY <2>1, <2>2, ServerTraffic
<1>4. (spc = "report" => WholeTest(stats, client_addr))'
  <2>1. CASE spc' # "report"
    BY <2>1
  <2>2. CASE spc = "report" /\ UNCHANGED <<stats, client_addr>>
    BY <1>1, <2>2 DEF SummariesAreWhole, WholeTest
  <2>3. CASE ServerReceive /\ spc' = "report"
    BY <2>3 DEF ServerReceive, TotalInv, WholeTest, ServerTypeOK, Collectors
  <2>4. CASE ServerReceiveRecv /\ spc' = "report"
    <3>1. PICK m \in Deliverable(Server) :
            /\ FromClient(m) /\ m.type = "FINISH"
            /\ stats' = WithSenderTotal(stats, m.total)
      BY <2>4 DEF ServerReceiveRecv
    <3>2. /\ client_addr' = client_addr /\ client_addr \in Clients
          /\ stats \in Collectors /\ stats.packets_received \in Nat
      BY <2>4 DEF ServerReceiveRecv, Serving, ServerTypeOK, Collectors
    <3>3. /\ InOrder(stats) /\ Queued(client_addr, stats.packets_received)
          /\ stats.packets_received <= packets_sent[client_addr]
      BY <2>4 DEF ServerReceiveRecv, PrefixCounted
    <3>4. stats.packets_received = packets_sent[client_addr]
      BY <3>1, <3>2, <3>3, NextOfClient DEF FromClient
    <3>5. /\ stats'.packets_received = stats.packets_received
          /\ stats'.out_of_order = stats.out_of_order
          /\ stats'.duplicate = stats.duplicate
      BY <3>1, <3>2 DEF WithSenderTotal, SetSenderPackets, Collectors
    <3> QED
      BY <1>1, <3>2, <3>3, <3>4, <3>5 DEF WholeTest, InOrder
  <2>5. \/ spc' # "report"
        \/ spc = "report" /\ UNCHANGED <<stats, client_addr>>
        \/ ServerReceive \/ ServerReceiveRecv
    BY DEF ServerStep, ServerThread, ServerListen, ServerListenTimeout,
       ServerListenRecv, ServerDeadlinePasses, ServerReceiveTimeout,
       ServerReport, ServerSendResult, ServerAck, ServerAckTimeout, ServerIdle,
       AfterTest, ServerSocketFails, ServerCtrlC
  <2> QED
    BY <2>1, <2>2, <2>3, <2>4, <2>5
<1>5. (spc \in {"send_result", "await_ack", "idle"}
         => WholeTest(summary, client_addr))'
  <2>1. CASE spc' \notin {"send_result", "await_ack", "idle"}
    BY <2>1
  <2>2. CASE /\ spc \in {"send_result", "await_ack", "idle"}
             /\ UNCHANGED <<client_addr, summary>>
    BY <1>1, <2>2 DEF SummariesAreWhole, WholeTest
  <2>3. CASE ServerReport /\ spc' = "send_result"
    <3> DEFINE s == Finalize(stats)
    <3>1. stats \in Collectors /\ client_addr' = client_addr
          /\ WholeTest(stats, client_addr)
      BY <2>3 DEF ServerReport, ServerTypeOK, SummariesAreWhole
    <3>2. /\ s \in Summaries
          /\ s.total_packets = stats.total_packets
          /\ s.packets_received = stats.packets_received
          /\ s.out_of_order = stats.out_of_order
          /\ s.duplicate = stats.duplicate
      BY <3>1, FinalizeType DEF Finalize
    <3>3. summary' = [s EXCEPT !.packets_sent = s.total_packets]
      BY <2>3 DEF ServerReport
    <3> HIDE DEF s
    <3>4. /\ summary'.total_packets = s.total_packets
          /\ summary'.packets_received = s.packets_received
          /\ summary'.out_of_order = s.out_of_order
          /\ summary'.duplicate = s.duplicate
      BY <3>2, <3>3 DEF Summaries
    <3> QED
      BY <1>1, <3>1, <3>2, <3>4 DEF WholeTest
  <2>4. \/ spc' \notin {"send_result", "await_ack", "idle"}
        \/ /\ spc \in {"send_result", "await_ack", "idle"}
           /\ UNCHANGED <<client_addr, summary>>
        \/ ServerReport /\ spc' = "send_result"
    BY DEF ServerStep, ServerThread, ServerListen, ServerListenTimeout,
       ServerListenRecv, ServerReceive, ServerDeadlinePasses,
       ServerReceiveTimeout, ServerReceiveRecv, ServerReport,
       ServerSendResult, ServerAck, ServerAckTimeout, ServerIdle, AfterTest,
       ServerSocketFails, ServerCtrlC
  <2> QED
    BY <2>1, <2>2, <2>3, <2>4
<1> QED
  BY <1>2, <1>3, <1>4, <1>5 DEF SummariesAreWhole

-----------------------------------------------------------------------------
(* No phantom loss *)

\* Nothing is said in the initial state.
LEMMA LosslessInit == Init => LosslessInv
<1> SUFFICES ASSUME Init PROVE LosslessInv
  OBVIOUS
<1>1. net = {} /\ spc = "listen"
  BY DEF Init, NetInit, ServerInit
<1>2. \A c \in Clients : ~result_received[c] /\ packets_sent[c] = 0
  BY DEF Init, ClientInit
<1> QED
  BY <1>1, <1>2 DEF LosslessInv, NothingBeforeStart, StartComesFirst,
     PrefixCounted, SummariesAreWhole

\* LosslessInv is inductive over a link that loses and reorders nothing.
LEMMA LosslessStep ==
  ASSUME LosslessLink, KnownInv, LosslessInv, [Next]_vars
  PROVE  LosslessInv'
<1>1. CASE ServerStep
  <2>1. NothingBeforeStart'
    BY <1>1 DEF ServerStep, clientVars, LosslessInv, NothingBeforeStart
  <2>2. StartComesFirst'
    BY <1>1, StartServerStep DEF KnownInv, LosslessInv
  <2> QED
    BY <1>1, <2>1, <2>2, PrefixServerStep, WholeServerStep DEF LosslessInv
<1>2. CASE \E c \in Clients : ClientStep(c)
  BY <1>2, LosslessClientStep
<1>3. CASE UNCHANGED vars
  BY <1>3 DEF vars, netVars, serverVars, clientVars, LosslessInv,
     NothingBeforeStart, StartComesFirst, PrefixCounted, SummariesAreWhole,
     Queued, DataOf, WholeTest
<1> QED
  BY <1>1, <1>2, <1>3 DEF Next

\* Over a link that loses, reorders and duplicates nothing, a client that is
\* told a total is told that all its packets came, in order and once: whatever
\* else the server dropped or was doing, whoever was interrupted, whichever
\* call failed and whenever the deadlines passed.
THEOREM NoPhantoms == ASSUME LosslessLink PROVE Spec => []NoPhantomLoss
<1>1. KnownInv /\ LosslessInv => NoPhantomLoss
  <2> SUFFICES ASSUME KnownInv, LosslessInv, NEW c \in Clients,
                      result_received[c], server_summary[c].total_packets > 0
               PROVE  /\ server_summary[c].packets_received = packets_sent[c]
                      /\ server_summary[c].lost_packets = 0
                      /\ server_summary[c].out_of_order = 0
                      /\ server_summary[c].duplicate = 0
    BY DEF NoPhantomLoss
  <2>1. WholeTest(server_summary[c], c) /\ ExactFor(server_summary[c], c)
    BY DEF KnownInv, LosslessInv, SummariesAreWhole, ExactnessInv,
           SummariesAreFinal, FinalFor
  <2>2. packets_sent[c] \in Nat
    BY DEF KnownInv, TypeInv, TypeOK, ClientTypeOK
  <2> QED
    BY <2>1, <2>2 DEF WholeTest, ExactFor
<1>2. Init => KnownInv /\ LosslessInv
  <2>1. Init => TotalInv
    BY DEF Init, ServerInit, NewCollector, TotalInv, NoFinishNoTotal
  <2> QED
    BY <2>1, TypeInit, ExactInit, LosslessInit DEF KnownInv
<1>3. KnownInv /\ LosslessInv /\ [Next]_vars => KnownInv' /\ LosslessInv'
  BY TypeStep, ExactStep, TotalStep, LosslessStep DEF KnownInv
<1> QED
  BY <1>1, <1>2, <1>3, PTL DEF Spec
=============================================================================
