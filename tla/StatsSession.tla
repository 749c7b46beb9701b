---------------------------- MODULE StatsSession -----------------------------
(***************************************************************************)
(* One test as the statistics collector sees it: the calls server_handler  *)
(* makes on a StatsCollector, with every arrival order, loss, duplication  *)
(* and delay a network may produce within the bounds.  This module looks   *)
(* at what NbSystem abstracts from: the pruning of the duplicate-detection *)
(* set, and the transit times jitter is made of.                           *)
(*                                                                         *)
(* Packets are numbered without bound by seq; packet_id is what is left of *)
(* seq in IdMax ids.  A packet stays in flight until Window younger ones   *)
(* have been sent: it may be overtaken by fewer than Window packets.  The  *)
(* properties are about tests of at most IdMax packets, in which no id is  *)
(* used again: past the wrap most of them do not hold of the code.         *)
(***************************************************************************)
EXTENDS StatsCollector

CONSTANTS IdMax,      \* the largest packet_id (2^32 - 1)
          MaxSeq,     \* bound on the packets of the test
          Window,     \* how long a packet may be under way
          MaxCopies,  \* bound on the duplicated deliveries
          MaxTime     \* bound on the clock

ASSUME SessionAssumption ==
  /\ {IdMax, MaxSeq, Window} \subseteq Nat \ {0}
  /\ {MaxCopies, MaxTime} \subseteq Nat

VARIABLES st,         \* the collector
          now,        \* the time, the same at both ends
          next,       \* the number of the next packet
          flight,     \* the packets under way, with the time they were sent
          copies,     \* duplicated deliveries so far
          finished,   \* Finish has been received
          arrivals,   \* deliveries so far
          delivered,  \* numbers of the packets the server received
          overtaken,  \* those of them that came after a younger one
          transit,    \* transit time of the last packet received first time
          variations  \* |D(i-1,i)| of all those packets but the first

vars == <<st, now, next, flight, copies, finished, arrivals, delivered,
          overtaken, transit, variations>>

IdFromZero(seq) == (seq - 1) % IdMax

\* packet_id of the packet seq: 1, 2, ..., IdMax, 1, 2, ...
IdOf(seq) == ((seq - 1) % IdMax) + 1

HeaderFor(p) ==
  [packet_id |-> IdOf(p.seq), total_length |-> 1, timestamp |-> p.stamp]

Init ==
  /\ st = StartTest(NewCollector, 1)
  /\ now = 0
  /\ next = 1
  /\ flight = {}
  /\ copies = 0
  /\ finished = FALSE
  /\ arrivals = 0
  /\ delivered = {}
  /\ overtaken = {}
  /\ transit = 0
  /\ variations = {}

Tick ==
  /\ now < MaxTime /\ ~finished
  /\ now' = now + 1
  /\ UNCHANGED <<st, next, flight, copies, finished, arrivals, delivered,
                 overtaken, transit, variations>>

Emit ==
  /\ next <= MaxSeq /\ ~finished
  /\ flight' = {p \in flight : p.seq + Window > next}
                 \cup {[seq |-> next, stamp |-> now]}
  /\ next' = next + 1
  /\ UNCHANGED <<st, now, copies, finished, arrivals, delivered, overtaken,
                 transit, variations>>

\* What the network knows of the arrival of p, whatever the server makes of it.
Observe(p) ==
  LET t == now - p.stamp
  IN  /\ arrivals' = arrivals + 1
      /\ delivered' = delivered \cup {p.seq}
      /\ IF p.seq \in delivered
         THEN UNCHANGED <<overtaken, transit, variations>>
         ELSE /\ overtaken' = IF \E k \in delivered : k > p.seq
                              THEN overtaken \cup {p.seq} ELSE overtaken
              /\ transit' = t
              /\ variations' = IF delivered = {} THEN variations
                               ELSE variations \cup {Distance(t, transit)}

Arrive ==
  /\ ~finished
  /\ \E p \in flight :
       /\ st' = RecordPacket(st, HeaderFor(p), now)
       /\ Observe(p)
       /\ \/ flight' = flight \ {p} /\ UNCHANGED copies
          \/ copies < MaxCopies /\ copies' = copies + 1 /\ UNCHANGED flight
  /\ UNCHANGED <<now, next, finished>>

\* The Finish carries the number of packets sent; 0 is not stored.
FinishArrives ==
  /\ ~finished
  /\ finished' = TRUE
  /\ st' = IF next > 1 THEN SetSenderPackets(st, next - 1) ELSE st
  /\ UNCHANGED <<now, next, flight, copies, arrivals, delivered, overtaken,
                 transit, variations>>

Next == Tick \/ Emit \/ Arrive \/ FinishArrives

Spec == Init /\ [][Next]_vars

-----------------------------------------------------------------------------
(* Properties *)

\* Every variable has its type, and no data packet carries the id 0, which is
\* reserved for control messages.
TypeOK ==
  /\ st \in Collectors
  /\ st.seen_ids \subseteq 1..IdMax
  /\ now \in 0..MaxTime
  /\ next \in 1..(MaxSeq + 1)
  /\ flight \subseteq [seq : 1..MaxSeq, stamp : 0..MaxTime]
  /\ copies \in 0..MaxCopies
  /\ finished \in BOOLEAN
  /\ arrivals \in Nat
  /\ delivered \subseteq 1..MaxSeq
  /\ overtaken \subseteq delivered
  /\ transit \in 0..MaxTime
  /\ variations \subseteq 0..MaxTime

\* finalize() "computes the loss precisely" from the total of the Finish
\* (developer-guide.md:261): the lost packets it reports are the packets sent
\* that never reached the server, in whatever order the packets and their
\* copies came, and whatever was pruned before.  This is so as long as packet_id
\* does not wrap: an id left in the set makes the packet that has it next a
\* duplicate, which is reported lost.
LossIsPrecise ==
  st.total_packets > 0 =>
    Finalize(st).lost_packets = (next - 1) - Cardinality(delivered)

\* Pruning keeps the set below its threshold ("Bounded memory",
\* stats_collector.cpp:57): after every call there is room left, although it
\* prunes behind last_packet_id_, which reordering moves backwards.  This is so
\* as long as packet_id does not wrap: the ids of the round before are above
\* last_packet_id_ and stay.
MemoryIsBounded == Cardinality(st.seen_ids) < PruneAt

\* A packet counts as out of order only if a younger one really came first.
\* At a wrap, which no checked test reaches, the packet with id 1 would count.
DisorderIsReal == st.out_of_order <= Cardinality(overtaken)

\* The largest jitter is the largest variation of the transit time between
\* two packets received one after the other; duplicates are no sample, and
\* the first packet is measured against nothing.
JitterMaxIsObserved ==
  /\ \A d \in variations : d <= st.jitter_max
  /\ st.jitter_max # 0 => st.jitter_max \in variations

\* The smallest jitter is the smallest such variation ("raw delta for min",
\* CR-010; D(i,j) of developer-guide.md:246).
JitterMinIsObserved ==
  variations # {} =>
    /\ \A d \in variations : Finalize(st).jitter_min <= d
    /\ Finalize(st).jitter_min \in variations

\* The numbers of packets in the summary.
ReportOf(collector) ==
  LET s == Finalize(collector)
  IN  [ received     |-> s.packets_received, duplicate |-> s.duplicate,
        out_of_order |-> s.out_of_order,     lost      |-> s.lost_packets ]

Ideal == INSTANCE IdealCollector
           WITH sent <- next - 1, counted <- delivered, closed <- finished,
                latest <- st.last_packet_id, report <- ReportOf(st)

\* record_packet() forgets ids ("Bounded memory", stats_collector.cpp:57), yet
\* nobody can tell from the numbers, as long as no id is used again: each call
\* does what the collector that never forgets a packet does, counting a delivery
\* or noting a duplicate.
ImplementsIdealCollector == Ideal!Spec
=============================================================================
