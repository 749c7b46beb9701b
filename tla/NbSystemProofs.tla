--------------------------- MODULE NbSystemProofs ---------------------------
(***************************************************************************)
(* What TLAPS proves about NbSystem for every number of clients, packets,  *)
(* attempts and duplicated datagrams.                                      *)
(***************************************************************************)
EXTENDS NbSystem, StatsCollectorProofs

USE StatsAssumption, NetworkAssumption, ServerAssumption
    DEF StatsAssumption, NetworkAssumption, ServerAssumption
USE DEF processVars, testVars, resultVars, threadVars, flagVars, answerVars, countVars

-----------------------------------------------------------------------------
(* Datagrams *)

\* Every datagram the processes build is one of Datagrams.
LEMMA MessageTypes ==
  ASSUME NEW c \in Clients
  PROVE  /\ StartMsg(c) \in Datagrams
         /\ \A id \in 1..MaxPackets : DataMsg(c, id) \in Datagrams
         /\ \A total \in 0..MaxPackets, i \in 0..(MaxFinish - 1) :
              FinishMsg(c, total, i) \in Datagrams
         /\ \A s \in Summaries, i \in 0..(MaxAttempts - 1) :
              ResultMsg(c, s, i) \in Datagrams
BY DEF StartMsg, DataMsg, FinishMsg, ResultMsg, Datagrams

\* What the type of a datagram says about its other fields.
LEMMA DatagramFields ==
  ASSUME NEW m \in Datagrams
  PROVE  /\ m.type \in {"DATA", "START", "FINISH", "RESULT"}
         /\ m.type = "DATA" => m.from \in Clients /\ m.packet_id \in 1..MaxPackets
         /\ m.type = "START" => m.from \in Clients
         /\ m.type = "FINISH" => m.from \in Clients /\ m.total \in 0..MaxPackets
         /\ m.type = "RESULT" => m.to \in Clients /\ m.body \in Summaries
BY DEF Datagrams

\* Sending a datagram keeps the type of the network.
LEMMA SendType ==
  ASSUME NetTypeOK, NEW m \in Datagrams, Send(m)
  PROVE  NetTypeOK'
BY DEF NetTypeOK, Send

\* Receiving removes a datagram or leaves all as they are.
LEMMA ReceiveShrinks ==
  ASSUME NEW m, Receive(m)
  PROVE  net' \subseteq net
BY DEF Receive

\* Receiving keeps the type of the network.
LEMMA ReceiveType ==
  ASSUME NetTypeOK, NEW m, Receive(m)
  PROVE  NetTypeOK'
BY DEF NetTypeOK, Receive

\* A deliverable datagram is in flight and has its type.
LEMMA DeliverableType ==
  ASSUME NetTypeOK, NEW peer, NEW m \in Deliverable(peer)
  PROVE  m \in net /\ m \in Datagrams /\ m.to = peer
BY DEF NetTypeOK, Deliverable

-----------------------------------------------------------------------------
(* Type correctness *)

TypeInv == TypeOK /\ WithinBounds /\ Serving

\* The initial state has its types.
LEMMA TypeInit == Init => TypeInv
<1> SUFFICES ASSUME Init PROVE TypeInv
  OBVIOUS
<1> USE DEF Init
<1>1. NetTypeOK
  BY DEF NetInit, NetTypeOK
<1>2. ServerTypeOK
  <2>1. 0 \in 0..(MaxAttempts - 1) /\ 0 \in 0..MaxAttempts
    OBVIOUS
  <2>2. {single_shot, g_shutdown} \subseteq BOOLEAN
    BY DEF ServerInit
  <2> QED
    BY <2>1, <2>2, NewCollectorType, NoSummaryType, Zenon
       DEF ServerInit, ServerTypeOK
<1>3. ClientTypeOK
  BY NoSummaryType DEF ClientInit, ClientTypeOK
<1>4. WithinBounds
  BY DEF ClientInit, WithinBounds
<1>5. Serving
  BY DEF ServerInit, Serving
<1> QED
  BY <1>1, <1>2, <1>3, <1>4, <1>5 DEF TypeInv, TypeOK

\* Every step of the server keeps the types.
LEMMA ServerTypeStep ==
  ASSUME NetTypeOK, ServerTypeOK, Serving, ServerStep
  PROVE  NetTypeOK' /\ ServerTypeOK'
<1>1. CASE ServerListen \/ ServerListenTimeout \/ ServerDeadlinePasses
             \/ ServerReceive \/ ServerReceiveTimeout
             \/ ServerSocketFails \/ ServerCtrlC
  BY <1>1 DEF ServerListen, ServerListenTimeout, ServerDeadlinePasses,
              ServerReceive, ServerReceiveTimeout, ServerSocketFails,
              ServerCtrlC, netVars, NetTypeOK, ServerTypeOK
<1>2. CASE ServerListenRecv
  <2>1. PICK m \in Deliverable(Server) :
          /\ Receive(m)
          /\ \/ /\ m.type # "START"
                /\ spc' = "listen"
                /\ UNCHANGED <<client_addr, stats, late, ended_by, unreported>>
             \/ /\ m.type = "START"
                /\ spc' = "receive"
                /\ client_addr' = m.from
                /\ stats' = StartTest(stats, 0)
                /\ late' = FALSE
                /\ ended_by' = "none"
                /\ unreported' = TRUE
    BY <1>2 DEF ServerListenRecv
  <2>2. NetTypeOK'
    BY <2>1, ReceiveType
  <2>3. m.type = "START" => m.from \in Clients
    BY DeliverableType, DatagramFields
  <2>4. StartTest(stats, 0) \in Collectors
    BY StartTestType
  <2>5. ServerTypeOK'
    BY <1>2, <2>1, <2>3, <2>4 DEF ServerListenRecv, ServerTypeOK
  <2> QED
    BY <2>2, <2>5
<1>3. CASE ServerReceiveRecv
  <2>1. PICK m \in Deliverable(Server) :
          /\ Receive(m)
          /\ \/ /\ ~FromClient(m) \/ m.type \notin {"FINISH", "DATA"}
                /\ spc' = "receive"
                /\ UNCHANGED <<stats, ended_by>>
             \/ /\ FromClient(m) /\ m.type = "FINISH"
                /\ spc' = "report"
                /\ ended_by' = "finish"
                /\ stats' = WithSenderTotal(stats, m.total)
             \/ /\ FromClient(m) /\ m.type = "DATA"
                /\ spc' = "receive"
                /\ stats' = RecordPacket(stats, HeaderOf(m), 0)
                /\ UNCHANGED ended_by
    BY <1>3 DEF ServerReceiveRecv
  <2>2. NetTypeOK'
    BY <2>1, ReceiveType
  <2>3. m \in Datagrams /\ stats \in Collectors
    BY DeliverableType DEF ServerTypeOK
  <2>4. m.type = "FINISH" => WithSenderTotal(stats, m.total) \in Collectors
    BY <2>3, DatagramFields, SetSenderPacketsType DEF WithSenderTotal
  <2>5. m.type = "DATA" => RecordPacket(stats, HeaderOf(m), 0) \in Collectors
    <3> SUFFICES ASSUME m.type = "DATA"
                 PROVE  RecordPacket(stats, HeaderOf(m), 0) \in Collectors
      OBVIOUS
    <3>1. HeaderOf(m) \in Headers
      BY <2>3, DatagramFields DEF HeaderOf, Headers, PacketHeaders
    <3> QED
      BY <2>3, <3>1, RecordPacketType
  <2>6. ServerTypeOK'
    BY <1>3, <2>1, <2>4, <2>5 DEF ServerReceiveRecv, ServerTypeOK
  <2> QED
    BY <2>2, <2>6
<1>4. CASE ServerReport
  <2>1. Finalize(stats) \in Summaries
    BY FinalizeType DEF ServerTypeOK
  <2>2. [Finalize(stats) EXCEPT !.packets_sent = Finalize(stats).total_packets]
          \in Summaries
    BY <2>1 DEF Summaries
  <2> QED
    BY <1>4, <2>2 DEF ServerReport, ServerTypeOK, NetTypeOK, netVars
<1>5. CASE ServerSendResult
  <2>1. client_addr \in Clients
    BY <1>5 DEF ServerSendResult, Serving, ServerTypeOK
  <2>2. ResultMsg(client_addr, summary, attempt) \in Datagrams
    BY <2>1, MessageTypes DEF ServerTypeOK
  <2>3. NetTypeOK'
    BY <1>5, <2>2, SendType DEF ServerSendResult
  <2> QED
    BY <1>5, <2>3 DEF ServerSendResult, ServerTypeOK
<1>6. CASE ServerAck
  <2>1. NetTypeOK'
    BY <1>6, ReceiveType DEF ServerAck
  <2> QED
    BY <1>6, <2>1 DEF ServerAck, ServerTypeOK
<1>7. CASE ServerAckTimeout
  BY <1>7 DEF ServerAckTimeout, LastAttempt, ServerTypeOK, NetTypeOK, netVars
<1>8. CASE ServerIdle
  <2>1. 0 \in 0..(MaxAttempts - 1) /\ 0 \in 0..MaxAttempts
    OBVIOUS
  <2> QED
    BY <1>8, <2>1, NoSummaryType, Zenon
       DEF ServerIdle, RestoreTimeout, AfterTest, ServerTypeOK, NetTypeOK,
           netVars
<1> QED
  BY <1>1, <1>2, <1>3, <1>4, <1>5, <1>6, <1>7, <1>8 DEF ServerStep, ServerThread

\* Every step of a client keeps the types and the bounds of its loops.
LEMMA ClientTypeStep ==
  ASSUME NetTypeOK, ClientTypeOK, WithinBounds, NEW c \in Clients, ClientStep(c)
  PROVE  NetTypeOK' /\ ClientTypeOK' /\ WithinBounds'
<1>1. CASE ClientStart(c)
  <2>1. NetTypeOK'
    BY <1>1, MessageTypes, SendType DEF ClientStart
  <2> QED
    BY <1>1, <2>1 DEF ClientStart, ClientTypeOK, WithinBounds
<1>2. CASE ClientStartFails(c) \/ ClientReport(c) \/ SenderFinishFails(c)
             \/ TestTimePasses(c) \/ ReceiverDeadlinePasses(c) \/ ClientCtrlC(c)
  <2>1. ASSUME NEW time \in {"end", "deadline"}, Pass(c, time)
        PROVE  clock' \in [Clients -> SUBSET {"end", "deadline"}]
    BY <2>1 DEF Pass, ClientTypeOK
  <2>2. CASE TestTimePasses(c) \/ ReceiverDeadlinePasses(c)
    BY <2>1, <2>2 DEF TestTimePasses, ReceiverDeadlinePasses, threadVars,
       answerVars, countVars, netVars, NetTypeOK, ClientTypeOK, WithinBounds
  <2> QED
    BY <1>2, <2>2 DEF ClientStartFails, ClientReport, SenderFinishFails,
       ClientCtrlC, netVars, NetTypeOK, ClientTypeOK, WithinBounds
<1>3. CASE SenderLoop(c)
  BY <1>3 DEF SenderLoop, netVars, NetTypeOK, ClientTypeOK, WithinBounds
<1>4. CASE SenderSend(c)
  <2>1. packets_sent[c] + 1 \in 1..MaxPackets
    BY <1>4 DEF SenderSend, ClientTypeOK, WithinBounds
  <2>2. NetTypeOK'
    BY <1>4, <2>1, MessageTypes, SendType DEF SenderSend
  <2>3. packets_sent' \in [Clients -> 0..MaxPackets]
    BY <1>4, <2>1 DEF SenderSend, ClientTypeOK
  <2>4. sender' \in [Clients -> {"loop", "send", "finish", "wait", "exit"}]
    BY <1>4 DEF SenderSend, ClientTypeOK
  <2>5. ClientTypeOK'
    BY <1>4, <2>3, <2>4 DEF SenderSend, ClientTypeOK
  <2>6. WithinBounds'
    BY <1>4 DEF SenderSend, ClientTypeOK, WithinBounds
  <2> QED
    BY <2>2, <2>5, <2>6
<1>5. CASE SenderSendFails(c) \/ SenderExit(c)
  BY <1>5 DEF SenderSendFails, SenderExit, netVars, NetTypeOK, ClientTypeOK,
              WithinBounds
<1>6. CASE SenderFinish(c)
  <2>1. finish_try[c] \in 0..(MaxFinish - 1) /\ packets_sent[c] \in 0..MaxPackets
    BY <1>6 DEF SenderFinish, StopsFinishing, ClientTypeOK
  <2>2. NetTypeOK'
    BY <1>6, <2>1, MessageTypes, SendType DEF SenderFinish
  <2> QED
    BY <1>6, <2>1, <2>2 DEF SenderFinish, ClientTypeOK, WithinBounds
<1>7. CASE SenderWait(c)
  BY <1>7 DEF SenderWait, NextTry, netVars, NetTypeOK, ClientTypeOK, WithinBounds
<1>8. CASE ReceiverCheck(c) \/ ReceiverTimeout(c) \/ ReceiverFails(c)
  BY <1>8 DEF ReceiverCheck, ReceiverTimeout, ReceiverFails, netVars, NetTypeOK,
              ClientTypeOK, WithinBounds
<1>9. CASE ReceiverRecv(c)
  <2>1. PICK m \in Deliverable(c) :
          /\ m.type = "RESULT"
          /\ Receive(m)
          /\ server_summary' = [server_summary EXCEPT ![c] = m.body]
    BY <1>9 DEF ReceiverRecv
  <2>2. NetTypeOK'
    BY <2>1, ReceiveType
  <2>3. m.body \in Summaries
    BY <2>1, DeliverableType, DatagramFields
  <2> QED
    BY <1>9, <2>1, <2>2, <2>3 DEF ReceiverRecv, ClientTypeOK, WithinBounds
<1> QED
  BY <1>1, <1>2, <1>3, <1>4, <1>5, <1>6, <1>7, <1>8, <1>9
     DEF ClientStep, SenderThread, ReceiverThread

\* A server past the Start has a client, until it is ready for the next.
LEMMA ServingStep ==
  ASSUME NetTypeOK, Serving, ServerStep
  PROVE  Serving'
<1>1. CASE ServerListenRecv
  <2>1. \A m \in Deliverable(Server) : m.type = "START" => m.from # NoClient
    BY DeliverableType, DatagramFields
  <2> QED
    BY <1>1, <2>1 DEF ServerListenRecv, Serving
<1>2. CASE ServerListen \/ ServerListenTimeout \/ ServerDeadlinePasses
             \/ ServerReceive \/ ServerReceiveTimeout
             \/ ServerSocketFails \/ ServerCtrlC
  BY <1>2 DEF ServerListen, ServerListenTimeout, ServerDeadlinePasses,
              ServerReceive, ServerReceiveTimeout, ServerSocketFails,
              ServerCtrlC, Serving
<1>3. CASE ServerReceiveRecv \/ ServerReport \/ ServerSendResult \/ ServerAck
             \/ ServerAckTimeout
  BY <1>3 DEF ServerReceiveRecv, ServerReport, ServerSendResult, ServerAck,
              ServerAckTimeout, Serving
<1>4. CASE ServerIdle
  BY <1>4 DEF ServerIdle, AfterTest, Serving
<1> QED
  BY <1>1, <1>2, <1>3, <1>4 DEF ServerStep, ServerThread

\* Every step of the system keeps the types.
LEMMA TypeStep == TypeInv /\ [Next]_vars => TypeInv'
<1> SUFFICES ASSUME TypeInv, [Next]_vars PROVE TypeInv'
  OBVIOUS
<1> USE DEF TypeInv, TypeOK
<1>1. CASE ServerStep
  <2>1. NetTypeOK' /\ ServerTypeOK' /\ Serving'
    BY <1>1, ServerTypeStep, ServingStep
  <2>2. ClientTypeOK' /\ WithinBounds'
    BY <1>1 DEF ServerStep, clientVars, ClientTypeOK, WithinBounds
  <2> QED
    BY <2>1, <2>2
<1>2. CASE \E c \in Clients : ClientStep(c)
  <2>1. NetTypeOK' /\ ClientTypeOK' /\ WithinBounds'
    BY <1>2, ClientTypeStep
  <2>2. ServerTypeOK' /\ Serving'
    BY <1>2 DEF ClientStep, serverVars, ServerTypeOK, Serving
  <2> QED
    BY <2>1, <2>2
<1>3. CASE UNCHANGED vars
  BY <1>3 DEF vars, netVars, serverVars, clientVars, NetTypeOK, ServerTypeOK,
              ClientTypeOK, WithinBounds, Serving
<1> QED
  BY <1>1, <1>2, <1>3 DEF Next

\* Every variable keeps its type, the loop variables of the retry loops their
\* bounds, and nothing but datagrams of the protocol is ever in flight.
THEOREM TypeCorrect == Spec => []TypeOK
<1>1. TypeInv => TypeOK
  BY DEF TypeInv
<1> QED
  BY <1>1, TypeInit, TypeStep, PTL DEF Spec

-----------------------------------------------------------------------------
(* What the collector counts *)

\* As long as the test fits into the set without pruning, record_packet()
\* counts every id of 1..n once: the counter is the size of the set.
LEMMA RecordCountsOnce ==
  ASSUME NEW n \in Nat, n < PruneAt,
         NEW st \in Collectors,
         st.seen_ids \subseteq 1..n,
         st.packets_received = Cardinality(st.seen_ids),
         NEW hdr \in Headers, hdr.packet_id \in 1..n,
         NEW now \in Int
  PROVE  LET r == RecordPacket(st, hdr, now)
         IN  /\ r.seen_ids \subseteq 1..n
             /\ r.packets_received = Cardinality(r.seen_ids)
             /\ r.total_packets = st.total_packets
<1> DEFINE tr  == Tracking(st, hdr, now)
           ids == st.seen_ids \cup {hdr.packet_id}
<1>1. /\ tr \in Collectors
      /\ tr.seen_ids = st.seen_ids
      /\ tr.packets_received = st.packets_received
      /\ tr.total_packets = st.total_packets
  BY TrackingType DEF Tracking, Collectors
<1> HIDE DEF tr
<1>2. CASE hdr.packet_id \in tr.seen_ids
  <2>1. RecordPacket(st, hdr, now) = [tr EXCEPT !.duplicate = @ + 1]
    BY <1>2 DEF RecordPacket, tr
  <2> QED
    BY <1>1, <2>1 DEF Collectors
<1>3. CASE hdr.packet_id \notin tr.seen_ids
  <2>1. IsFiniteSet(1..n) /\ Cardinality(1..n) = n
    BY FS_Interval
  <2>2. IsFiniteSet(st.seen_ids)
    BY <2>1, FS_Subset
  <2>3. ids \subseteq 1..n /\ Cardinality(ids) \in Nat /\ Cardinality(ids) <= n
    BY <2>1, FS_Subset, FS_CardinalityType
  <2>4. Pruned(ids, tr.last_packet_id) = ids
    BY <2>3 DEF Pruned
  <2>5. Cardinality(ids) = Cardinality(st.seen_ids) + 1
    BY <1>1, <1>3, <2>2, FS_AddElement
  <2>6. RecordPacket(st, hdr, now) = CountPacket(tr, hdr, now)
    BY <1>3 DEF RecordPacket, tr
  <2>7. /\ CountPacket(tr, hdr, now).seen_ids = ids
        /\ CountPacket(tr, hdr, now).packets_received = st.packets_received + 1
        /\ CountPacket(tr, hdr, now).total_packets = st.total_packets
    BY <1>1, <2>4 DEF CountPacket
  <2> QED
    BY <2>3, <2>5, <2>6, <2>7
<1> QED
  BY <1>2, <1>3

\* record_packet() never touches the sender's total.
LEMMA RecordKeepsTotal ==
  ASSUME NEW st \in Collectors, NEW hdr \in Headers, NEW now \in Int
  PROVE  RecordPacket(st, hdr, now).total_packets = st.total_packets
<1> DEFINE tr == Tracking(st, hdr, now)
<1>1. tr \in Collectors /\ tr.total_packets = st.total_packets
  BY TrackingType DEF Tracking, Collectors
<1>2. RecordPacket(st, hdr, now)
        \in {[tr EXCEPT !.duplicate = @ + 1], CountPacket(tr, hdr, now)}
  BY DEF RecordPacket
<1> HIDE DEF tr
<1>3. CountPacket(tr, hdr, now).total_packets = tr.total_packets
  BY DEF CountPacket
<1>4. [tr EXCEPT !.duplicate = @ + 1].total_packets = tr.total_packets
  BY <1>1 DEF Collectors
<1> QED
  BY <1>1, <1>2, <1>3, <1>4

\* finalize() of a collector that counted at most n of n packets: the loss is
\* the difference, the clamp at 0 never acts.
LEMMA FinalizeIsExact ==
  ASSUME NEW n \in Nat, NEW st \in Collectors,
         st.packets_received <= n,
         st.total_packets > 0 => st.total_packets = n
  PROVE  LET s == Finalize(st)
         IN  /\ s.total_packets = st.total_packets
             /\ s.total_packets > 0 =>
                  /\ s.total_packets = n
                  /\ s.packets_received <= s.total_packets
                  /\ s.lost_packets = s.total_packets - s.packets_received
<1>1. /\ Finalize(st).total_packets = st.total_packets
      /\ Finalize(st).packets_received = st.packets_received
      /\ Finalize(st).lost_packets
           = LossOf(st.total_packets, st.packets_received)
  BY DEF Finalize
<1>2. st.total_packets \in Nat /\ st.packets_received \in Nat
  BY DEF Collectors
<1> QED
  BY <1>1, <1>2 DEF LossOf

\* What is counted of a set of ids of 1..n is at most n.
LEMMA CountIsBounded ==
  ASSUME NEW n \in Nat, NEW ids, ids \subseteq 1..n
  PROVE  Cardinality(ids) \in Nat /\ Cardinality(ids) <= n
<1>1. IsFiniteSet(1..n) /\ Cardinality(1..n) = n
  BY FS_Interval
<1>2. IsFiniteSet(ids) /\ Cardinality(ids) <= Cardinality(1..n)
  BY <1>1, FS_Subset
<1> QED
  BY <1>1, <1>2, FS_CardinalityType

-----------------------------------------------------------------------------
(* The loss is exact *)

\* The initial state is exact: nothing has been sent or counted.
LEMMA ExactInit == Init => ExactnessInv
<1> SUFFICES ASSUME Init PROVE ExactnessInv
  OBVIOUS
<1>1. net = {} /\ client_addr = NoClient /\ spc = "listen"
  BY DEF Init, NetInit, ServerInit
<1>2. \A c \in Clients : ~result_received[c] /\ sender[c] = "exit"
  BY DEF Init, ClientInit
<1> QED
  BY <1>1, <1>2 DEF ExactnessInv, WithinBounds, FlightIsSent, Serving,
     CountsOnlyItsClient, TotalIsFinal, SummariesAreFinal

\* A step of a client never takes a packet back, and a client past its data
\* loop stays there and sends no more.
LEMMA ClientMonotone ==
  ASSUME ClientTypeOK, NEW c \in Clients, ClientStep(c), NEW k \in Clients
  PROVE  /\ packets_sent[k] <= packets_sent'[k]
         /\ PastDataLoop(k) =>
              PastDataLoop(k)' /\ packets_sent'[k] = packets_sent[k]
<1>1. CASE ClientStart(c) \/ ClientStartFails(c) \/ ClientReport(c)
             \/ SenderFinishFails(c) \/ TestTimePasses(c)
             \/ ReceiverDeadlinePasses(c) \/ ClientCtrlC(c)
  BY <1>1 DEF ClientStart, ClientStartFails, ClientReport, SenderFinishFails,
              TestTimePasses, ReceiverDeadlinePasses, ClientCtrlC,
              ClientTypeOK, PastDataLoop
<1>2. CASE SenderLoop(c) \/ SenderSendFails(c) \/ SenderExit(c)
             \/ SenderFinish(c) \/ SenderWait(c)
  BY <1>2 DEF SenderLoop, SenderSendFails, SenderExit, SenderFinish, SenderWait,
              ClientTypeOK, PastDataLoop
<1>3. CASE SenderSend(c)
  BY <1>3 DEF SenderSend, ClientTypeOK, PastDataLoop
<1>4. CASE ReceiverCheck(c) \/ ReceiverTimeout(c) \/ ReceiverFails(c)
             \/ ReceiverRecv(c)
  BY <1>4 DEF ReceiverCheck, ReceiverTimeout, ReceiverFails, ReceiverRecv,
              ClientTypeOK, PastDataLoop
<1> QED
  BY <1>1, <1>2, <1>3, <1>4 DEF ClientStep, SenderThread, ReceiverThread

\* What a client puts in flight is true of it after the step.
LEMMA ClientFlight ==
  ASSUME TypeInv, FlightIsSent, NEW c \in Clients, ClientStep(c)
  PROVE  /\ FlightIsSent'
         /\ \A m \in net' : m.type = "RESULT" => m \in net
<1> USE DEF TypeInv, TypeOK
<1>1. \A k \in Clients :
        /\ packets_sent[k] <= packets_sent'[k]
        /\ PastDataLoop(k) =>
              PastDataLoop(k)' /\ packets_sent'[k] = packets_sent[k]
  BY ClientMonotone
<1>2. ASSUME NEW m \in net
      PROVE  /\ m.type = "DATA" => m.packet_id <= packets_sent'[m.from]
             /\ m.type = "FINISH" => /\ PastDataLoop(m.from)'
                                     /\ m.total = packets_sent'[m.from]
  <2>1. m \in Datagrams
    BY DEF NetTypeOK
  <2>2. CASE m.type = "DATA"
    <3>1. m.from \in Clients /\ m.packet_id \in Nat
      BY <2>1, <2>2, DatagramFields
    <3>2. m.packet_id <= packets_sent[m.from]
      BY <2>2 DEF FlightIsSent
    <3>3. packets_sent[m.from] \in Nat /\ packets_sent'[m.from] \in Nat
      BY <3>1, ClientTypeStep DEF ClientTypeOK
    <3> QED
      BY <1>1, <2>2, <3>1, <3>2, <3>3
  <2>3. CASE m.type = "FINISH"
    BY <1>1, <2>1, <2>3, DatagramFields DEF FlightIsSent
  <2> QED
    BY <2>2, <2>3
<1>3. CASE net' \subseteq net
  BY <1>2, <1>3 DEF FlightIsSent
<1>4. CASE ClientStart(c)
  <2>1. net' = net \cup {StartMsg(c)} /\ StartMsg(c).type = "START"
    BY <1>4 DEF ClientStart, Send, StartMsg
  <2> QED
    BY <1>2, <2>1 DEF FlightIsSent
<1>5. CASE SenderSend(c)
  <2> DEFINE m == DataMsg(c, packets_sent[c] + 1)
  <2>1. net' = net \cup {m} /\ m.type = "DATA"
    BY <1>5 DEF SenderSend, Send, DataMsg
  <2>2. m.from = c /\ m.packet_id = packets_sent[c] + 1
    BY DEF DataMsg
  <2>3. packets_sent'[c] = packets_sent[c] + 1 /\ packets_sent[c] \in Nat
    BY <1>5 DEF SenderSend, ClientTypeOK
  <2>4. m.packet_id <= packets_sent'[m.from]
    BY <2>2, <2>3
  <2> HIDE DEF m
  <2> QED
    BY <1>2, <2>1, <2>4 DEF FlightIsSent
<1>6. CASE SenderFinish(c)
  <2> DEFINE m == FinishMsg(c, packets_sent[c], finish_try[c])
  <2>1. net' = net \cup {m} /\ m.type = "FINISH"
    BY <1>6 DEF SenderFinish, Send, FinishMsg
  <2>2. m.from = c /\ m.total = packets_sent[c]
    BY DEF FinishMsg
  <2>3. packets_sent' = packets_sent /\ PastDataLoop(c)'
    BY <1>6 DEF SenderFinish, ClientTypeOK, PastDataLoop
  <2> HIDE DEF m
  <2>4. m.total = packets_sent'[m.from] /\ m.from = c
    BY <2>2, <2>3
  <2> QED
    BY <1>2, <2>1, <2>3, <2>4 DEF FlightIsSent
<1>7. net' \subseteq net \/ ClientStart(c) \/ SenderSend(c) \/ SenderFinish(c)
  BY ReceiveShrinks
     DEF ClientStep, SenderThread, ReceiverThread, netVars, ClientStartFails,
         ClientReport, SenderLoop, SenderSendFails, SenderExit,
         SenderFinishFails, SenderWait, ReceiverCheck, ReceiverTimeout,
         ReceiverRecv, ReceiverFails, TestTimePasses, ReceiverDeadlinePasses,
         ClientCtrlC
<1> QED
  BY <1>3, <1>4, <1>5, <1>6, <1>7

\* A step of a client leaves what the server and the Results say of it true.
LEMMA ExactClientStep ==
  ASSUME TypeInv, ExactnessInv, NEW c \in Clients, ClientStep(c)
  PROVE  FlightIsSent' /\ CountsOnlyItsClient' /\ TotalIsFinal'
           /\ SummariesAreFinal'
<1> USE DEF TypeInv, TypeOK, ExactnessInv
<1>1. \A k \in Clients :
        /\ packets_sent[k] <= packets_sent'[k]
        /\ PastDataLoop(k) =>
              PastDataLoop(k)' /\ packets_sent'[k] = packets_sent[k]
  BY ClientMonotone
<1>2. \A k \in Clients : packets_sent[k] \in Nat /\ packets_sent'[k] \in Nat
  BY ClientTypeStep DEF ClientTypeOK
<1>3. /\ client_addr' = client_addr /\ stats' = stats
      /\ spc' = spc /\ summary' = summary
  BY DEF ClientStep, serverVars
<1>4. client_addr \in Clients \cup {NoClient}
  BY DEF ServerTypeOK
<1>5. CountsOnlyItsClient'
  BY <1>1, <1>2, <1>3, <1>4 DEF CountsOnlyItsClient
<1>6. TotalIsFinal'
  BY <1>1, <1>3, <1>4 DEF TotalIsFinal
<1>7. \A k \in Clients : \A s : FinalFor(s, k) =>
        (s.total_packets > 0 =>
          /\ sender'[k] \in {"finish", "wait", "exit"} /\ main'[k] # "start"
          /\ s.total_packets = packets_sent'[k]
          /\ s.packets_received <= s.total_packets
          /\ s.lost_packets = s.total_packets - s.packets_received)
  BY <1>1 DEF FinalFor, ExactFor, PastDataLoop
<1>8. SummariesAreFinal'
  <2>1. (spc \in {"send_result", "await_ack", "idle"}
           => FinalFor(summary, client_addr))'
    <3>1. SUFFICES ASSUME spc \in {"send_result", "await_ack", "idle"}
                   PROVE  FinalFor(summary, client_addr)'
      BY <1>3
    <3>2. FinalFor(summary, client_addr) /\ client_addr \in Clients
      BY <1>4, <3>1 DEF SummariesAreFinal, Serving
    <3> QED
      BY <1>3, <1>7, <3>2 DEF FinalFor, ExactFor, PastDataLoop
  <2>2. (\A m \in net : m.type = "RESULT" => FinalFor(m.body, m.to))'
    <3>1. \A m \in net' : m.type = "RESULT" =>
            m \in net /\ m.to \in Clients /\ FinalFor(m.body, m.to)
      BY ClientFlight, DatagramFields DEF NetTypeOK, SummariesAreFinal
    <3> QED
      BY <1>7, <3>1 DEF FinalFor, ExactFor, PastDataLoop
  <2>3. (\A k \in Clients : result_received[k]
                            => FinalFor(server_summary[k], k))'
    <3>1. ASSUME NEW k \in Clients, result_received'[k]
          PROVE  FinalFor(server_summary'[k], k)
      <4>1. CASE ReceiverRecv(c)
        <5>1. PICK m \in Deliverable(c) :
                /\ m.type = "RESULT"
                /\ server_summary' = [server_summary EXCEPT ![c] = m.body]
          BY <4>1 DEF ReceiverRecv
        <5>2. FinalFor(m.body, c)
          BY <5>1, DeliverableType DEF SummariesAreFinal
        <5> QED
          BY <3>1, <4>1, <5>1, <5>2
             DEF ReceiverRecv, SummariesAreFinal, ClientTypeOK
      <4>2. CASE UNCHANGED <<result_received, server_summary>>
        BY <3>1, <4>2 DEF SummariesAreFinal
      <4>3. ReceiverRecv(c) \/ UNCHANGED <<result_received, server_summary>>
        BY DEF ClientStep, SenderThread, ReceiverThread, ClientStart,
               ClientStartFails, ClientReport, SenderLoop, SenderSend,
               SenderSendFails, SenderExit, SenderFinish, SenderFinishFails,
               SenderWait, ReceiverCheck, ReceiverTimeout, ReceiverFails,
               TestTimePasses, ReceiverDeadlinePasses, ClientCtrlC
      <4> QED
        BY <4>1, <4>2, <4>3
    <3> QED
      BY <1>7, <3>1 DEF FinalFor, ExactFor, PastDataLoop
  <2> QED
    BY <2>1, <2>2, <2>3 DEF SummariesAreFinal
<1> QED
  BY <1>5, <1>6, <1>8, ClientFlight

\* What the server puts in flight is exact, and what it takes out is not missed.
LEMMA ServerFlight ==
  ASSUME TypeInv, ExactnessInv, ServerStep
  PROVE  /\ FlightIsSent'
         /\ (\A m \in net : m.type = "RESULT" => FinalFor(m.body, m.to))'
<1> USE DEF TypeInv, TypeOK, ExactnessInv
<1>1. /\ packets_sent' = packets_sent /\ sender' = sender /\ main' = main
  BY DEF ServerStep, clientVars
<1>2. CASE net' \subseteq net
  BY <1>1, <1>2 DEF FlightIsSent, SummariesAreFinal, FinalFor, ExactFor,
                    PastDataLoop
<1>3. CASE ServerSendResult
  <2> DEFINE r == ResultMsg(client_addr, summary, attempt)
  <2>1. net' = net \cup {r} /\ FinalFor(summary, client_addr)
    BY <1>3 DEF ServerSendResult, Send, SummariesAreFinal
  <2>2. r.type = "RESULT" /\ r.body = summary /\ r.to = client_addr
    BY DEF ResultMsg
  <2> HIDE DEF r
  <2> QED
    BY <1>1, <2>1, <2>2 DEF FlightIsSent, SummariesAreFinal, FinalFor,
                            ExactFor, PastDataLoop
<1>4. net' \subseteq net \/ ServerSendResult
  BY ReceiveShrinks
     DEF ServerStep, ServerThread, netVars, ServerListen, ServerListenTimeout,
         ServerListenRecv, ServerDeadlinePasses, ServerReceive,
         ServerReceiveTimeout, ServerReceiveRecv, ServerReport, ServerAck,
         ServerAckTimeout, ServerIdle, ServerSocketFails, ServerCtrlC
<1> QED
  BY <1>2, <1>3, <1>4

\* What the collector of the server has counted stays exact.
LEMMA ServerCounts ==
  ASSUME TypeInv, ExactnessInv, ServerStep
  PROVE  CountsOnlyItsClient' /\ TotalIsFinal'
<1> USE DEF TypeInv, TypeOK, ExactnessInv
<1>1. /\ packets_sent' = packets_sent /\ sender' = sender /\ main' = main
  BY DEF ServerStep, clientVars
<1>2. CASE UNCHANGED <<client_addr, stats>>
  BY <1>1, <1>2 DEF CountsOnlyItsClient, TotalIsFinal, PastDataLoop
<1>3. CASE client_addr' = NoClient
  BY <1>3 DEF CountsOnlyItsClient, TotalIsFinal
<1>4. CASE ServerListenRecv
  <2>1. CASE UNCHANGED <<client_addr, stats>>
    BY <1>2, <2>1
  <2>2. CASE stats' = StartTest(stats, 0)
    <3>1. /\ stats'.seen_ids = {} /\ stats'.packets_received = 0
          /\ stats'.total_packets = 0
      BY <2>2 DEF StartTest, NewCollector
    <3>2. Cardinality({}) = 0
      BY FS_EmptySet
    <3> QED
      BY <3>1, <3>2 DEF CountsOnlyItsClient, TotalIsFinal
  <2> QED
    BY <1>4, <2>1, <2>2 DEF ServerListenRecv
<1>5. CASE ServerReceiveRecv
  <2>1. client_addr \in Clients /\ client_addr # NoClient /\ client_addr' = client_addr
    BY <1>5 DEF ServerReceiveRecv, Serving, ServerTypeOK
  <2>2. PICK m \in Deliverable(Server) :
          \/ UNCHANGED stats
          \/ /\ FromClient(m) /\ m.type = "FINISH"
             /\ stats' = WithSenderTotal(stats, m.total)
          \/ /\ FromClient(m) /\ m.type = "DATA"
             /\ stats' = RecordPacket(stats, HeaderOf(m), 0)
    BY <1>5 DEF ServerReceiveRecv
  <2>3. m \in net /\ m \in Datagrams /\ stats \in Collectors
    BY DeliverableType DEF ServerTypeOK
  <2>4. CASE UNCHANGED stats
    BY <1>2, <2>1, <2>4
  <2>5. CASE /\ FromClient(m) /\ m.type = "FINISH"
             /\ stats' = WithSenderTotal(stats, m.total)
    <3>1. m.total = packets_sent[client_addr] /\ PastDataLoop(client_addr)
      BY <2>3, <2>5 DEF FromClient, FlightIsSent
    <3>2. /\ stats'.seen_ids = stats.seen_ids
          /\ stats'.packets_received = stats.packets_received
          /\ stats'.total_packets \in {stats.total_packets, m.total}
      BY <2>3, <2>5 DEF WithSenderTotal, SetSenderPackets, Collectors
    <3> QED
      BY <1>1, <2>1, <3>1, <3>2
         DEF CountsOnlyItsClient, TotalIsFinal, PastDataLoop
  <2>6. CASE /\ FromClient(m) /\ m.type = "DATA"
             /\ stats' = RecordPacket(stats, HeaderOf(m), 0)
    <3> DEFINE n == packets_sent[client_addr]
    <3>1. n \in 0..MaxPackets
      BY <2>1 DEF ClientTypeOK
    <3>2. n \in Nat /\ n < PruneAt
      BY <3>1, NoPruning
    <3>3. /\ HeaderOf(m) \in Headers
          /\ HeaderOf(m).packet_id = m.packet_id
      BY <2>3, <2>6, DatagramFields DEF HeaderOf, Headers, PacketHeaders
    <3>4. m.packet_id \in 1..n
      <4>1. m.packet_id \in 1..MaxPackets /\ m.packet_id <= n
        BY <2>3, <2>6, DatagramFields DEF FromClient, FlightIsSent
      <4> QED
        BY <3>2, <4>1
    <3>5. /\ stats.seen_ids \subseteq 1..n
          /\ stats.packets_received = Cardinality(stats.seen_ids)
      BY <2>1 DEF CountsOnlyItsClient
    <3> HIDE DEF n
    <3>6. /\ stats'.seen_ids \subseteq 1..n
          /\ stats'.packets_received = Cardinality(stats'.seen_ids)
          /\ stats'.total_packets = stats.total_packets
      BY <2>3, <2>6, <3>2, <3>3, <3>4, <3>5, RecordCountsOnce
    <3> QED
      BY <1>1, <2>1, <3>6 DEF n, CountsOnlyItsClient, TotalIsFinal, PastDataLoop
  <2> QED
    BY <2>2, <2>4, <2>5, <2>6
<1>6. \/ UNCHANGED <<client_addr, stats>> \/ client_addr' = NoClient
      \/ ServerListenRecv \/ ServerReceiveRecv
  BY DEF ServerStep, ServerThread, ServerListen, ServerListenTimeout,
         ServerDeadlinePasses, ServerReceive, ServerReceiveTimeout,
         ServerReport, ServerSendResult, ServerAck, ServerAckTimeout,
         ServerIdle, AfterTest, ServerSocketFails, ServerCtrlC
<1> QED
  BY <1>2, <1>3, <1>4, <1>5, <1>6

\* The summary the server is about to send is exact.
LEMMA ServerSummarises ==
  ASSUME TypeInv, ExactnessInv, ServerStep
  PROVE  /\ (spc \in {"send_result", "await_ack", "idle"}
               => FinalFor(summary, client_addr))'
         /\ (\A c \in Clients : result_received[c]
                                => FinalFor(server_summary[c], c))'
<1> USE DEF TypeInv, TypeOK, ExactnessInv
<1>1. /\ packets_sent' = packets_sent /\ sender' = sender /\ main' = main
      /\ result_received' = result_received /\ server_summary' = server_summary
  BY DEF ServerStep, clientVars
<1>2. (\A c \in Clients : result_received[c]
                         => FinalFor(server_summary[c], c))'
  BY <1>1 DEF SummariesAreFinal, FinalFor, ExactFor, PastDataLoop
<1>3. CASE spc' \notin {"send_result", "await_ack", "idle"}
  BY <1>2, <1>3
<1>4. CASE /\ spc \in {"send_result", "await_ack", "idle"}
           /\ UNCHANGED <<client_addr, summary>>
  BY <1>1, <1>2, <1>4 DEF SummariesAreFinal, FinalFor, ExactFor, PastDataLoop
<1>5. CASE ServerReport /\ spc' = "send_result"
  <2> DEFINE n == packets_sent[client_addr]
  <2>1. client_addr \in Clients /\ client_addr # NoClient /\ client_addr' = client_addr
    BY <1>5 DEF ServerReport, Serving, ServerTypeOK
  <2>2. stats \in Collectors /\ n \in Nat
    BY <2>1 DEF ServerTypeOK, ClientTypeOK
  <2>3. stats.packets_received <= n
    BY <2>1, <2>2, CountIsBounded DEF CountsOnlyItsClient
  <2>4. stats.total_packets > 0 =>
          stats.total_packets = n /\ PastDataLoop(client_addr)
    BY <2>1 DEF TotalIsFinal
  <2> HIDE DEF n
  <2> DEFINE s == Finalize(stats)
  <2>5. /\ s.total_packets = stats.total_packets
        /\ s.total_packets > 0 =>
             /\ s.total_packets = n
             /\ s.packets_received <= s.total_packets
             /\ s.lost_packets = s.total_packets - s.packets_received
    BY <2>2, <2>3, <2>4, FinalizeIsExact
  <2>6. s \in Summaries
    BY <2>2, FinalizeType
  <2>7. summary' = [s EXCEPT !.packets_sent = s.total_packets]
    BY <1>5 DEF ServerReport
  <2> HIDE DEF s
  <2>8. /\ summary'.total_packets = s.total_packets
        /\ summary'.packets_received = s.packets_received
        /\ summary'.lost_packets = s.lost_packets
    BY <2>6, <2>7 DEF Summaries
  <2> QED
    BY <1>1, <1>2, <2>1, <2>4, <2>5, <2>8 DEF n, FinalFor, ExactFor, PastDataLoop
<1>6. \/ spc' \notin {"send_result", "await_ack", "idle"}
      \/ /\ spc \in {"send_result", "await_ack", "idle"}
         /\ UNCHANGED <<client_addr, summary>>
      \/ ServerReport /\ spc' = "send_result"
  <2>1. CASE ServerListen \/ ServerListenTimeout \/ ServerListenRecv
               \/ ServerReceive \/ ServerReceiveTimeout \/ ServerReceiveRecv
               \/ ServerSocketFails \/ ServerIdle
    BY <2>1 DEF ServerListen, ServerListenTimeout, ServerListenRecv,
                ServerReceive, ServerReceiveTimeout, ServerReceiveRecv,
                ServerSocketFails, ServerIdle, AfterTest
  <2>2. CASE ServerDeadlinePasses \/ ServerCtrlC
    BY <2>2 DEF ServerDeadlinePasses, ServerCtrlC
  <2>3. CASE ServerSendResult \/ ServerAck \/ ServerAckTimeout
    BY <2>3 DEF ServerSendResult, ServerAck, ServerAckTimeout
  <2>4. CASE ServerReport
    BY <2>4 DEF ServerReport
  <2> QED
    BY <2>1, <2>2, <2>3, <2>4 DEF ServerStep, ServerThread
<1> QED
  BY <1>3, <1>4, <1>5, <1>6

\* ExactnessInv is inductive.
LEMMA ExactStep == TypeInv /\ ExactnessInv /\ [Next]_vars => ExactnessInv'
<1> SUFFICES ASSUME TypeInv, ExactnessInv, [Next]_vars PROVE ExactnessInv'
  OBVIOUS
<1>1. WithinBounds' /\ Serving'
  BY TypeStep DEF TypeInv
<1>2. CASE ServerStep
  <2>1. SummariesAreFinal'
    BY <1>2, ServerFlight, ServerSummarises DEF SummariesAreFinal
  <2> QED
    BY <1>1, <1>2, <2>1, ServerFlight, ServerCounts DEF ExactnessInv
<1>3. CASE \E c \in Clients : ClientStep(c)
  BY <1>1, <1>3, ExactClientStep DEF ExactnessInv
<1>4. CASE UNCHANGED vars
  BY <1>4 DEF vars, netVars, serverVars, clientVars, ExactnessInv, WithinBounds,
              FlightIsSent, Serving, CountsOnlyItsClient, TotalIsFinal,
              SummariesAreFinal, FinalFor, ExactFor, PastDataLoop
<1> QED
  BY <1>2, <1>3, <1>4 DEF Next

\* Both invariants hold in every reachable state.
LEMMA Exactness == Spec => [](TypeInv /\ ExactnessInv)
BY TypeInit, TypeStep, ExactInit, ExactStep, PTL DEF Spec

\* For every number of clients, packets and retries and every loss, reordering
\* and duplication: a Result in flight or taken over that knows the total
\* reports exactly the packets that were sent and not received, as long as a
\* test fits into the duplicate-detection set (assumption NoPruning).
THEOREM LossExact == Spec => []LossIsExact
<1>1. ExactnessInv => LossIsExact
  BY DEF ExactnessInv, SummariesAreFinal, FinalFor, ExactFor, LossIsExact
<1> QED
  BY <1>1, Exactness, PTL

\* Under the same assumption no packet of another client, of an earlier test or
\* received twice is ever counted.
THEOREM OnlyItsClient == Spec => []CountsOnlyItsClient
<1>1. ExactnessInv => CountsOnlyItsClient
  BY DEF ExactnessInv
<1> QED
  BY <1>1, Exactness, PTL

-----------------------------------------------------------------------------
(* The unknown total *)

\* The two parts of TotalInv survive every step.
LEMMA TotalStep == TypeInv /\ TotalInv /\ [Next]_vars => TotalInv'
<1> SUFFICES ASSUME TypeInv, TotalInv, [Next]_vars PROVE TotalInv'
  OBVIOUS
<1> USE DEF TypeInv, TypeOK, TotalInv, NoFinishNoTotal
<1>1. CASE UNCHANGED <<spc, stats, ended_by>>
  BY <1>1
<1>2. CASE UNCHANGED <<stats, ended_by>> /\ spc' \notin {"receive", "receive_recv"}
  BY <1>2
<1>3. CASE ServerReceive
  BY <1>3 DEF ServerReceive, ServerTypeOK, Collectors
<1>4. CASE ServerReceiveTimeout
  BY <1>4 DEF ServerReceiveTimeout
<1>5. CASE ServerListenRecv
  BY <1>5 DEF ServerListenRecv, StartTest, NewCollector
<1>6. CASE ServerReceiveRecv
  <2>1. stats.total_packets = 0
    BY <1>6 DEF ServerReceiveRecv
  <2>2. ASSUME NEW m \in Deliverable(Server), m.type = "DATA"
        PROVE  RecordPacket(stats, HeaderOf(m), 0).total_packets = 0
    <3>1. HeaderOf(m) \in Headers /\ stats \in Collectors
      BY <2>2, DeliverableType, DatagramFields
         DEF HeaderOf, Headers, PacketHeaders, ServerTypeOK
    <3> QED
      BY <2>1, <3>1, RecordKeepsTotal
  <2> QED
    BY <1>6, <2>1, <2>2 DEF ServerReceiveRecv
<1>7. \/ UNCHANGED <<spc, stats, ended_by>>
      \/ UNCHANGED <<stats, ended_by>> /\ spc' \notin {"receive", "receive_recv"}
      \/ ServerReceive \/ ServerReceiveTimeout
      \/ ServerListenRecv \/ ServerReceiveRecv
  <2>1. CASE ServerStep
    BY <2>1 DEF ServerStep, ServerThread, ServerListen, ServerListenTimeout,
       ServerDeadlinePasses, ServerReport, ServerSendResult, ServerAck,
       ServerAckTimeout, ServerIdle, AfterTest, ServerSocketFails, ServerCtrlC
  <2>2. CASE \E c \in Clients : ClientStep(c)
    BY <2>2 DEF ClientStep, serverVars
  <2>3. CASE UNCHANGED vars
    BY <2>3 DEF vars, serverVars
  <2> QED
    BY <2>1, <2>2, <2>3 DEF Next
<1> QED
  BY <1>1, <1>2, <1>3, <1>4, <1>5, <1>6, <1>7

\* A loss is reported only for a test whose Finish arrived; the loss of every
\* other test is unknown, whatever the test before left behind.
THEOREM UnknownWithoutFinish == Spec => []NoFinishNoTotal
<1>1. Init => TotalInv
  BY DEF Init, ServerInit, NewCollector, TotalInv, NoFinishNoTotal
<1>2. TotalInv => NoFinishNoTotal
  BY DEF TotalInv
<1> QED
  BY <1>1, <1>2, TypeInit, TypeStep, TotalStep, PTL DEF Spec

-----------------------------------------------------------------------------
(* The receive timeout *)

\* Neither loop that waits for a client or for its data ever runs with the
\* 200 ms of the ACK wait: send_result() is entered from REPORTING only, and
\* run_server() restores the idle timeout before it listens again.
THEOREM TimeoutRestored == Spec => []AckTimeoutConfined
<1>1. Init => TimeoutInv
  BY DEF Init, ServerInit, TimeoutInv
<1>2. TimeoutInv /\ [Next]_vars => TimeoutInv'
  <2> SUFFICES ASSUME TimeoutInv, [Next]_vars PROVE TimeoutInv'
    OBVIOUS
  <2>1. CASE ServerStep
    <3>1. CASE ServerSendResult \/ ServerAck \/ ServerAckTimeout \/ ServerReport
      BY <3>1 DEF ServerSendResult, ServerAck, ServerAckTimeout, ServerReport,
                  TimeoutInv
    <3>2. CASE ServerIdle
      BY <3>2 DEF ServerIdle, RestoreTimeout, TimeoutInv
    <3>3. CASE ServerListen \/ ServerListenTimeout \/ ServerListenRecv
                 \/ ServerReceive \/ ServerReceiveTimeout \/ ServerReceiveRecv
                 \/ ServerDeadlinePasses \/ ServerSocketFails \/ ServerCtrlC
      BY <3>3 DEF ServerListen, ServerListenTimeout, ServerListenRecv,
                  ServerReceive, ServerReceiveTimeout, ServerReceiveRecv,
                  ServerDeadlinePasses, ServerSocketFails, ServerCtrlC,
                  TimeoutInv
    <3> QED
      BY <2>1, <3>1, <3>2, <3>3 DEF ServerStep, ServerThread
  <2>2. CASE \E c \in Clients : ClientStep(c)
    BY <2>2 DEF ClientStep, serverVars, TimeoutInv
  <2>3. CASE UNCHANGED vars
    BY <2>3 DEF vars, serverVars, TimeoutInv
  <2> QED
    BY <2>1, <2>2, <2>3 DEF Next
<1>3. TimeoutInv => AckTimeoutConfined
  BY DEF TimeoutInv, AckTimeoutConfined
<1> QED
  BY <1>1, <1>2, <1>3, PTL DEF Spec

=============================================================================
