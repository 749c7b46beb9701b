------------------------- MODULE StatsSessionProofs -------------------------
(***************************************************************************)
(* What TLAPS proves about StatsSession for every threshold of the pruning *)
(* and every window of the network: the loss is precise, the memory        *)
(* bounded, disorder and jitter are real.  All but the types and           *)
(* JitterMinIsZero are limited to tests in which packet_id does not come   *)
(* around (IdsSuffice): pruning does not work across a wrap.               *)
(***************************************************************************)
EXTENDS StatsSession, StatsCollectorProofs

USE StatsAssumption, SessionAssumption DEF StatsAssumption, SessionAssumption

\* No packet_id is used twice in the test.
IdsSuffice == MaxSeq <= IdMax

\* Pruning keeps more ids than the network can overtake, and its threshold
\* leaves room for them.
WindowFits == Window <= KeepBehind /\ KeepBehind + Window + 1 < PruneAt

-----------------------------------------------------------------------------
(* The invariant *)

\* A packet under way has been sent, in the past, and fewer than Window
\* packets after it.
FlightInv ==
  \A p \in flight : p.seq < next /\ p.stamp <= now /\ p.seq + Window >= next

\* The collector remembers every packet whose copy may still arrive, and only
\* packets it has received; none of them is far ahead of the last one.
SeenInv ==
  /\ delivered \subseteq 1..(next - 1)
  /\ st.seen_ids \subseteq delivered
  /\ \A d \in delivered : d + Window >= next => d \in st.seen_ids
  /\ st.first_packet <=> delivered = {}
  /\ st.first_packet => st.last_packet_id = 0
  /\ ~st.first_packet => st.last_packet_id \in delivered
  /\ \A d \in delivered : d < st.last_packet_id + Window
  /\ MemoryIsBounded

\* Each packet is counted once, and the total is that of the whole test.
CountInv ==
  /\ st.packets_received = Cardinality(delivered)
  /\ st.total_packets > 0 => finished /\ st.total_packets = next - 1
  /\ DisorderIsReal

\* The transit time the next packet is compared with is that of the last.
JitterInv ==
  /\ ~st.first_packet => st.prev_transit = transit
  /\ JitterMaxIsObserved

-----------------------------------------------------------------------------
(* Types *)

\* The ids of a test without wrap are the numbers of its packets.
LEMMA IdIsSeq ==
  ASSUME IdsSuffice, NEW seq \in 1..MaxSeq
  PROVE  IdOf(seq) = seq
<1>1. \A a \in Nat, n \in Nat \ {0} : a < n => a % n = a
  OBVIOUS
<1>2. seq - 1 \in Nat /\ seq - 1 < IdMax
  BY DEF IdsSuffice
<1> QED
  BY <1>1, <1>2 DEF IdOf

\* An id is never 0.
LEMMA IdType ==
  ASSUME NEW seq \in 1..MaxSeq
  PROVE  IdOf(seq) \in 1..IdMax
<1>1. \A a \in Nat, n \in Nat \ {0} : a % n \in 0..(n - 1)
  OBVIOUS
<1>2. seq - 1 \in Nat /\ IdMax \in Nat \ {0}
  OBVIOUS
<1> DEFINE rest == (seq - 1) % IdMax
<1>3. rest \in 0..(IdMax - 1)
  BY <1>1, <1>2
<1>4. IdOf(seq) = rest + 1
  BY DEF IdOf
<1> HIDE DEF rest
<1> QED
  BY <1>2, <1>3, <1>4

\* A packet under way has a proper header.
LEMMA HeaderType ==
  ASSUME TypeOK, NEW p \in flight
  PROVE  /\ HeaderFor(p) \in Headers
         /\ HeaderFor(p).packet_id = IdOf(p.seq)
         /\ HeaderFor(p).timestamp = p.stamp
         /\ IdOf(p.seq) \in 1..IdMax
         /\ p.seq \in 1..MaxSeq /\ p.stamp \in 0..MaxTime
<1>1. p.seq \in 1..MaxSeq /\ p.stamp \in 0..MaxTime
  BY DEF TypeOK
<1>2. IdOf(p.seq) \in 1..IdMax
  BY <1>1, IdType
<1> QED
  BY <1>1, <1>2 DEF HeaderFor, Headers, PacketHeaders

\* TypeOK holds at first.
LEMMA TypeInit == Init => TypeOK /\ FlightInv
<1> SUFFICES ASSUME Init PROVE TypeOK /\ FlightInv
  OBVIOUS
<1>1. st \in Collectors
  BY StartTestType DEF Init
<1>2. st.seen_ids = {}
  BY DEF Init, StartTest, NewCollector
<1>3. /\ now = 0 /\ next = 1 /\ copies = 0 /\ transit = 0 /\ finished = FALSE
      /\ arrivals = 0 /\ flight = {} /\ delivered = {}
      /\ overtaken = {} /\ variations = {}
  BY DEF Init
<1>4. next \in 1..(MaxSeq + 1) /\ now \in 0..MaxTime /\ copies \in 0..MaxCopies
  BY <1>3
<1>5. FlightInv
  BY <1>3 DEF FlightInv
<1>6. TypeOK
  BY <1>1, <1>2, <1>3, <1>4 DEF TypeOK
<1> QED
  BY <1>5, <1>6

\* What an arrival does to the collector's type, duplicate or not.
LEMMA ArrivalType ==
  ASSUME TypeOK, NEW p \in flight
  PROVE  /\ RecordPacket(st, HeaderFor(p), now) \in Collectors
         /\ RecordPacket(st, HeaderFor(p), now).seen_ids \subseteq 1..IdMax
<1> DEFINE r == RecordPacket(st, HeaderFor(p), now)
           id == HeaderFor(p).packet_id
<1>1. st \in Collectors /\ now \in Int /\ st.seen_ids \subseteq 1..IdMax
  BY DEF TypeOK
<1>2. HeaderFor(p) \in Headers /\ id \in 1..IdMax
  BY HeaderType
<1>3. r \in Collectors
  BY <1>1, <1>2, RecordPacketType
<1>4. CASE id \notin st.seen_ids
  <2> DEFINE last == IF st.first_packet THEN id ELSE st.last_packet_id
  <2>1. r.seen_ids = Pruned(st.seen_ids \cup {id}, last)
    BY <1>1, <1>2, <1>4, RecordFresh
  <2>2. r.seen_ids \subseteq st.seen_ids \cup {id}
    BY <2>1, PrunedSubset
  <2> QED
    BY <1>1, <1>2, <1>3, <2>2
<1>5. CASE id \in st.seen_ids
  <2>1. r.seen_ids = st.seen_ids
    BY <1>1, <1>5 DEF RecordPacket, Tracking, Collectors
  <2> QED
    BY <1>1, <1>3, <2>1
<1> QED
  BY <1>4, <1>5

\* What the network observes keeps its type.
LEMMA ObserveType ==
  ASSUME TypeOK, FlightInv, NEW p \in flight, Observe(p)
  PROVE  /\ arrivals' \in Nat
         /\ delivered' \subseteq 1..MaxSeq
         /\ overtaken' \subseteq delivered'
         /\ transit' \in 0..MaxTime
         /\ variations' \subseteq 0..MaxTime
<1> DEFINE t == now - p.stamp
<1>1. p.seq \in 1..MaxSeq /\ p.stamp \in 0..MaxTime
  BY HeaderType
<1>2. t \in 0..MaxTime
  BY <1>1 DEF TypeOK, FlightInv
<1>3. transit \in 0..MaxTime /\ arrivals' \in Nat
  BY DEF TypeOK, Observe
<1> HIDE DEF t
<1>4. Distance(t, transit) \in 0..MaxTime
  BY <1>2, <1>3 DEF Distance
<1>5. CASE p.seq \in delivered
  BY <1>1, <1>3, <1>5 DEF Observe, TypeOK
<1>6. CASE p.seq \notin delivered
  <2>1. /\ delivered' = delivered \cup {p.seq}
        /\ overtaken' \subseteq overtaken \cup {p.seq}
        /\ transit' = t
        /\ variations' \subseteq variations \cup {Distance(t, transit)}
    BY <1>6 DEF Observe, t
  <2> QED
    BY <1>1, <1>2, <1>3, <1>4, <2>1 DEF TypeOK
<1> QED
  BY <1>5, <1>6

\* Every step keeps the types.
LEMMA TypeStep == TypeOK /\ FlightInv /\ [Next]_vars => TypeOK' /\ FlightInv'
<1> SUFFICES ASSUME TypeOK, FlightInv, [Next]_vars PROVE TypeOK' /\ FlightInv'
  OBVIOUS
<1>1. CASE Tick
  BY <1>1 DEF Tick, TypeOK, FlightInv
<1>2. CASE Emit
  <2>1. next \in 1..MaxSeq /\ now \in 0..MaxTime
    BY <1>2 DEF Emit, TypeOK
  <2>2. flight' \subseteq [seq : 1..MaxSeq, stamp : 0..MaxTime]
    BY <1>2, <2>1 DEF Emit, TypeOK
  <2>3. \A q \in flight : q.seq \in Nat
    BY DEF TypeOK
  <2>4. FlightInv'
    BY <1>2, <2>1, <2>3 DEF Emit, FlightInv
  <2> QED
    BY <1>2, <2>1, <2>2, <2>4 DEF Emit, TypeOK
<1>3. CASE Arrive
  <2>1. PICK p \in flight :
          /\ st' = RecordPacket(st, HeaderFor(p), now)
          /\ Observe(p)
          /\ \/ flight' = flight \ {p} /\ UNCHANGED copies
             \/ copies < MaxCopies /\ copies' = copies + 1 /\ UNCHANGED flight
    BY <1>3 DEF Arrive
  <2>2. st' \in Collectors /\ st'.seen_ids \subseteq 1..IdMax
    BY <2>1, ArrivalType
  <2>3. /\ arrivals' \in Nat
        /\ delivered' \subseteq 1..MaxSeq
        /\ overtaken' \subseteq delivered'
        /\ transit' \in 0..MaxTime
        /\ variations' \subseteq 0..MaxTime
    BY <2>1, ObserveType
  <2>4. UNCHANGED <<now, next, finished>> /\ flight' \subseteq flight
    BY <1>3, <2>1 DEF Arrive
  <2>5. copies' \in 0..MaxCopies
    BY <2>1 DEF TypeOK
  <2> QED
    BY <2>2, <2>3, <2>4, <2>5 DEF TypeOK, FlightInv
<1>4. CASE FinishArrives
  <2>1. st' \in {SetSenderPackets(st, next - 1), st}
    BY <1>4 DEF FinishArrives
  <2>2. SetSenderPackets(st, next - 1) \in Collectors
    BY SetSenderPacketsType DEF TypeOK
  <2>3. SetSenderPackets(st, next - 1).seen_ids = st.seen_ids
    BY DEF SetSenderPackets, TypeOK, Collectors
  <2>4. st' \in Collectors /\ st'.seen_ids \subseteq 1..IdMax
    BY <2>1, <2>2, <2>3 DEF TypeOK
  <2> QED
    BY <1>4, <2>4 DEF FinishArrives, TypeOK, FlightInv
<1>5. CASE UNCHANGED vars
  BY <1>5 DEF vars, TypeOK, FlightInv
<1> QED
  BY <1>1, <1>2, <1>3, <1>4, <1>5 DEF Next

LEMMA TypeInvariant == Spec => [](TypeOK /\ FlightInv)
BY TypeInit, TypeStep, PTL DEF Spec

\* Every variable keeps its type, and no data packet carries the id 0,
\* whatever the range of the ids.
THEOREM SessionTypes == Spec => []TypeOK
BY TypeInvariant, PTL

-----------------------------------------------------------------------------
(* What the collector remembers *)

\* Finiteness of what was delivered.
LEMMA DeliveredFinite ==
  ASSUME TypeOK
  PROVE  /\ IsFiniteSet(delivered) /\ Cardinality(delivered) \in Nat
         /\ IsFiniteSet(overtaken) /\ Cardinality(overtaken) \in Nat
<1>1. IsFiniteSet(1..MaxSeq)
  BY FS_Interval
<1>2. delivered \subseteq 1..MaxSeq /\ overtaken \subseteq 1..MaxSeq
  BY DEF TypeOK
<1>3. IsFiniteSet(delivered) /\ IsFiniteSet(overtaken)
  BY <1>1, <1>2, FS_Subset
<1> QED
  BY <1>3, FS_CardinalityType

\* A packet that arrives is taken for a duplicate only if it is one.
LEMMA DuplicateIsOne ==
  ASSUME TypeOK, FlightInv, SeenInv, IdsSuffice, NEW p \in flight
  PROVE  /\ HeaderFor(p).packet_id = p.seq
         /\ p.seq \in st.seen_ids <=> p.seq \in delivered
         /\ p.seq \in st.seen_ids => ~st.first_packet
<1>1. HeaderFor(p).packet_id = p.seq
  BY HeaderType, IdIsSeq
<1>2. p.seq + Window >= next
  BY DEF FlightInv
<1> QED
  BY <1>1, <1>2 DEF SeenInv

\* A duplicate leaves everything but its counter alone.
LEMMA DuplicateArrival ==
  ASSUME TypeOK, FlightInv, SeenInv, IdsSuffice,
         NEW p \in flight, p.seq \in delivered
  PROVE  LET r == RecordPacket(st, HeaderFor(p), now)
         IN  /\ r.seen_ids = st.seen_ids
             /\ r.first_packet = st.first_packet
             /\ r.last_packet_id = st.last_packet_id
             /\ r.packets_received = st.packets_received
             /\ r.total_packets = st.total_packets
             /\ r.out_of_order = st.out_of_order
             /\ r.prev_transit = st.prev_transit
             /\ r.jitter_max = st.jitter_max
             /\ r.duplicate = st.duplicate + 1
<1>1. st \in Collectors /\ now \in Int
  BY DEF TypeOK
<1>2. HeaderFor(p) \in Headers
  BY HeaderType
<1>3. HeaderFor(p).packet_id \in st.seen_ids /\ ~st.first_packet
  BY DuplicateIsOne
<1>4. RecordPacket(st, HeaderFor(p), now) = [st EXCEPT !.duplicate = @ + 1]
  BY <1>1, <1>2, <1>3, RecordDuplicate
<1> QED
  BY <1>1, <1>4 DEF Collectors

\* A packet that arrives for the first time is counted.
LEMMA FreshArrival ==
  ASSUME TypeOK, FlightInv, SeenInv, IdsSuffice,
         NEW p \in flight, p.seq \notin delivered
  PROVE  LET r       == RecordPacket(st, HeaderFor(p), now)
             transit0 == now - p.stamp
             last    == IF st.first_packet THEN p.seq ELSE st.last_packet_id
             before  == IF st.first_packet THEN transit0 ELSE st.prev_transit
         IN  /\ r.seen_ids = Pruned(st.seen_ids \cup {p.seq}, last)
             /\ r.packets_received = st.packets_received + 1
             /\ r.total_packets = st.total_packets
             /\ r.last_packet_id = p.seq
             /\ r.first_packet = FALSE
             /\ r.duplicate = st.duplicate
             /\ r.prev_transit = transit0
             /\ r.jitter_max
                  = LargerOf(st.jitter_max, Distance(transit0, before))
             /\ r.out_of_order = IF p.seq < last THEN st.out_of_order + 1
                                                 ELSE st.out_of_order
<1>1. st \in Collectors /\ now \in Int
  BY DEF TypeOK
<1>2. HeaderFor(p) \in Headers /\ HeaderFor(p).timestamp = p.stamp
  BY HeaderType
<1>3. HeaderFor(p).packet_id = p.seq /\ p.seq \notin st.seen_ids
  BY DuplicateIsOne
<1> DEFINE h == HeaderFor(p)
<1>4. /\ h \in Headers /\ h.timestamp = p.stamp
      /\ h.packet_id = p.seq /\ h.packet_id \notin st.seen_ids
  BY <1>2, <1>3
<1> HIDE DEF h
<1>5. LET r       == RecordPacket(st, h, now)
          transit0 == now - h.timestamp
          last    == IF st.first_packet THEN h.packet_id ELSE st.last_packet_id
          before  == IF st.first_packet THEN transit0 ELSE st.prev_transit
      IN  /\ r.seen_ids = Pruned(st.seen_ids \cup {h.packet_id}, last)
          /\ r.packets_received = st.packets_received + 1
          /\ r.total_packets = st.total_packets
          /\ r.last_packet_id = h.packet_id
          /\ r.first_packet = FALSE
          /\ r.duplicate = st.duplicate
          /\ r.prev_transit = transit0
          /\ r.jitter_max
               = LargerOf(st.jitter_max, Distance(transit0, before))
          /\ r.out_of_order = IF h.packet_id < last THEN st.out_of_order + 1
                                                    ELSE st.out_of_order
  BY <1>1, <1>4, RecordFresh
<1> QED
  BY <1>4, <1>5 DEF h

\* An arrival keeps what the collector remembers in step with the network.
LEMMA SeenArrival ==
  ASSUME TypeOK, FlightInv, SeenInv, IdsSuffice, WindowFits,
         NEW p \in flight,
         st' = RecordPacket(st, HeaderFor(p), now), Observe(p),
         next' = next
  PROVE  SeenInv'
<1>1. p.seq \in 1..MaxSeq /\ p.seq < next /\ p.seq + Window >= next
  BY HeaderType DEF FlightInv
<1>2. next \in Nat /\ next \in 1..(MaxSeq + 1)
  BY DEF TypeOK
<1>3. delivered' = delivered \cup {p.seq}
  BY DEF Observe
<1>4. CASE p.seq \in delivered
  <2>1. delivered' = delivered
    BY <1>3, <1>4
  <2>2. /\ st'.seen_ids = st.seen_ids
        /\ st'.first_packet = st.first_packet
        /\ st'.last_packet_id = st.last_packet_id
    BY <1>4, DuplicateArrival
  <2> QED
    BY <2>1, <2>2 DEF SeenInv, MemoryIsBounded
<1>5. CASE p.seq \notin delivered
  <2> DEFINE last == IF st.first_packet THEN p.seq ELSE st.last_packet_id
             ids  == st.seen_ids \cup {p.seq}
  <2>1. /\ st'.seen_ids = Pruned(ids, last)
        /\ st'.first_packet = FALSE
        /\ st'.last_packet_id = p.seq
    BY <1>5, FreshArrival
  <2>2. /\ last \in 1..(next - 1)
        /\ \A d \in delivered : d < last + Window
    <3>1. delivered \subseteq 1..(next - 1)
      BY DEF SeenInv
    <3>2. CASE st.first_packet
      <4>1. delivered = {} /\ last = p.seq
        BY <3>2 DEF SeenInv
      <4> QED
        BY <1>1, <1>2, <4>1
    <3>3. CASE ~st.first_packet
      <4>1. last \in delivered /\ last = st.last_packet_id
        BY <3>3 DEF SeenInv
      <4> QED
        BY <3>1, <4>1 DEF SeenInv
    <3> QED
      BY <3>2, <3>3
  <2>3. /\ ids \subseteq delivered' /\ delivered' \subseteq 1..(next - 1)
        /\ ids \subseteq 1..(next - 1)
    <3>1. delivered \subseteq 1..(next - 1) /\ st.seen_ids \subseteq delivered
      BY DEF SeenInv
    <3>2. p.seq \in 1..(next - 1)
      BY <1>1, <1>2
    <3> QED
      BY <1>3, <3>1, <3>2
  <2>4. st'.seen_ids \subseteq delivered'
    BY <2>1, <2>3, PrunedSubset
  <2>5. ASSUME NEW d \in delivered', d + Window >= next
        PROVE  d \in st'.seen_ids
    <3>1. d \in ids /\ d \in Nat
      BY <1>3, <2>3, <2>5 DEF SeenInv
    <3>2. d >= IF last > KeepBehind THEN last - KeepBehind ELSE 0
      BY <1>2, <2>2, <2>5, <3>1 DEF WindowFits
    <3> HIDE DEF ids, last
    <3> QED
      BY <2>1, <3>1, <3>2 DEF Pruned
  <2>6. \A d \in delivered' : d < p.seq + Window
    BY <1>1, <1>2, <2>3
  <2>7. Cardinality(st'.seen_ids) < PruneAt
    <3>1. IsFiniteSet(1..(next - 1))
      BY <1>2, FS_Interval
    <3>2. IsFiniteSet(ids)
      BY <2>3, <3>1, FS_Subset
    <3>3. \A i \in ids : i = p.seq \/ i < last + Window
      BY <2>2 DEF SeenInv
    <3>4. last \in Nat /\ p.seq \in Nat
      BY <1>1, <1>2, <2>2
    <3> HIDE DEF ids, last
    <3>5. ids \subseteq Nat
      BY <2>3
    <3> QED
      BY <2>1, <3>2, <3>3, <3>4, <3>5, PrunedSize DEF WindowFits
  <2> QED
    BY <1>3, <2>1, <2>3, <2>4, <2>5, <2>6, <2>7 DEF SeenInv, MemoryIsBounded
<1> QED
  BY <1>4, <1>5

\* At first nothing was received and nothing is remembered.
LEMMA SeenInit == Init /\ WindowFits => SeenInv
<1> SUFFICES ASSUME Init, WindowFits PROVE SeenInv
  OBVIOUS
<1>1. st.seen_ids = {} /\ st.first_packet = TRUE /\ st.last_packet_id = 0
  BY DEF Init, StartTest, NewCollector
<1>2. delivered = {}
  BY DEF Init
<1>3. Cardinality({}) = 0
  BY FS_EmptySet
<1>4. 0 < PruneAt
  OBVIOUS
<1> QED
  BY <1>1, <1>2, <1>3, <1>4 DEF SeenInv, MemoryIsBounded

\* Every step keeps it.
LEMMA SeenStep ==
  ASSUME IdsSuffice, WindowFits
  PROVE  TypeOK /\ FlightInv /\ SeenInv /\ [Next]_vars => SeenInv'
<1> SUFFICES ASSUME TypeOK, FlightInv, SeenInv, [Next]_vars PROVE SeenInv'
  OBVIOUS
<1>1. CASE Tick \/ UNCHANGED vars
  BY <1>1 DEF Tick, vars, SeenInv, MemoryIsBounded
<1>2. CASE Emit
  <2>1. next \in Nat
    BY DEF TypeOK
  <2>2. next' = next + 1 /\ st' = st /\ delivered' = delivered
    BY <1>2 DEF Emit
  <2>3. delivered' \subseteq 1..(next' - 1)
    BY <2>1, <2>2 DEF SeenInv
  <2>4. \A d \in delivered' : d + Window >= next' => d \in st'.seen_ids
    BY <2>1, <2>2 DEF SeenInv
  <2> QED
    BY <2>2, <2>3, <2>4 DEF SeenInv, MemoryIsBounded
<1>3. CASE Arrive
  BY <1>3, SeenArrival DEF Arrive
<1>4. CASE FinishArrives
  <2>1. st' \in {SetSenderPackets(st, next - 1), st}
    BY <1>4 DEF FinishArrives
  <2>2. /\ st'.seen_ids = st.seen_ids
        /\ st'.first_packet = st.first_packet
        /\ st'.last_packet_id = st.last_packet_id
    BY <2>1 DEF SetSenderPackets, TypeOK, Collectors
  <2>3. next' = next /\ delivered' = delivered
    BY <1>4 DEF FinishArrives
  <2> QED
    BY <2>2, <2>3 DEF SeenInv, MemoryIsBounded
<1> QED
  BY <1>1, <1>2, <1>3, <1>4 DEF Next

LEMMA SeenInvariant ==
  ASSUME IdsSuffice, WindowFits
  PROVE  Spec => [](TypeOK /\ FlightInv /\ SeenInv)
<1>1. Init => SeenInv
  BY SeenInit
<1>2. TypeOK /\ FlightInv /\ SeenInv /\ [Next]_vars => SeenInv'
  BY SeenStep
<1> QED
  BY <1>1, <1>2, TypeInvariant, PTL DEF Spec

\* As long as no packet_id is used twice, the duplicate-detection set is below
\* its threshold after every call, whatever is lost or reordered.  From the
\* first wrap on nothing is pruned until the ids are past KeepBehind again, and
\* the set does pass its threshold.
THEOREM MemoryBounded ==
  ASSUME IdsSuffice, WindowFits
  PROVE  Spec => []MemoryIsBounded
<1>1. SeenInv => MemoryIsBounded
  BY DEF SeenInv
<1> QED
  BY <1>1, SeenInvariant, PTL

-----------------------------------------------------------------------------
(* What the collector counts *)

\* What an arrival adds to the counters.
LEMMA CountArrival ==
  ASSUME TypeOK, FlightInv, SeenInv, CountInv, IdsSuffice,
         NEW p \in flight, ~finished,
         st' = RecordPacket(st, HeaderFor(p), now), Observe(p),
         next' = next, finished' = finished
  PROVE  CountInv'
<1>1. /\ IsFiniteSet(delivered) /\ Cardinality(delivered) \in Nat
      /\ IsFiniteSet(overtaken) /\ Cardinality(overtaken) \in Nat
  BY DeliveredFinite
<1>2. CASE p.seq \in delivered
  <2>1. /\ st'.packets_received = st.packets_received
        /\ st'.total_packets = st.total_packets
        /\ st'.out_of_order = st.out_of_order
    BY <1>2, DuplicateArrival
  <2>2. delivered' = delivered /\ overtaken' = overtaken
    BY <1>2 DEF Observe
  <2> QED
    BY <2>1, <2>2 DEF CountInv, DisorderIsReal
<1>3. CASE p.seq \notin delivered
  <2> DEFINE last == IF st.first_packet THEN p.seq ELSE st.last_packet_id
  <2>1. /\ st'.packets_received = st.packets_received + 1
        /\ st'.total_packets = st.total_packets
        /\ st'.out_of_order = IF p.seq < last THEN st.out_of_order + 1
                                              ELSE st.out_of_order
    BY <1>3, FreshArrival
  <2>2. /\ delivered' = delivered \cup {p.seq}
        /\ overtaken' = IF \E k \in delivered : k > p.seq
                        THEN overtaken \cup {p.seq} ELSE overtaken
    BY <1>3 DEF Observe
  <2>3. Cardinality(delivered') = Cardinality(delivered) + 1
    BY <1>1, <1>3, <2>2, FS_AddElement
  <2>4. st'.out_of_order <= Cardinality(overtaken')
    <3>1. p.seq \notin overtaken
      BY <1>3 DEF TypeOK
    <3>2. Cardinality(overtaken \cup {p.seq}) = Cardinality(overtaken) + 1
      BY <1>1, <3>1, FS_AddElement
    <3>3. st.out_of_order \in Nat /\ st.out_of_order <= Cardinality(overtaken)
      BY DEF CountInv, DisorderIsReal, TypeOK, Collectors
    <3>4. p.seq \in Nat
      BY HeaderType
    <3>5. CASE p.seq < last
      <4>1. ~st.first_packet
        BY <3>4, <3>5
      <4>2. last \in delivered /\ last > p.seq
        BY <3>5, <4>1 DEF SeenInv, TypeOK
      <4>3. overtaken' = overtaken \cup {p.seq}
        BY <2>2, <4>2
      <4>4. st'.out_of_order = st.out_of_order + 1
        BY <2>1, <3>5
      <4> QED
        BY <1>1, <3>2, <3>3, <4>3, <4>4
    <3>6. CASE ~(p.seq < last)
      <4>1. st'.out_of_order = st.out_of_order
        BY <2>1, <3>6
      <4>2. overtaken' \in {overtaken, overtaken \cup {p.seq}}
        BY <2>2
      <4> QED
        BY <1>1, <3>2, <3>3, <4>1, <4>2
    <3> QED
      BY <3>5, <3>6
  <2> QED
    BY <2>1, <2>3, <2>4 DEF CountInv, DisorderIsReal
<1> QED
  BY <1>2, <1>3

\* Every step keeps the counters in step with the network.
LEMMA CountStep ==
  ASSUME IdsSuffice
  PROVE  TypeOK /\ FlightInv /\ SeenInv /\ CountInv /\ [Next]_vars => CountInv'
<1> SUFFICES ASSUME TypeOK, FlightInv, SeenInv, CountInv, [Next]_vars
             PROVE  CountInv'
  OBVIOUS
<1>1. CASE Tick \/ UNCHANGED vars
  BY <1>1 DEF Tick, vars, CountInv, DisorderIsReal
<1>2. CASE Emit
  BY <1>2 DEF Emit, CountInv, DisorderIsReal
<1>3. CASE Arrive
  BY <1>3, CountArrival DEF Arrive
<1>4. CASE FinishArrives
  <2>1. next \in Nat
    BY DEF TypeOK
  <2>2. st' = IF next > 1 THEN SetSenderPackets(st, next - 1) ELSE st
    BY <1>4 DEF FinishArrives
  <2>3. /\ st'.packets_received = st.packets_received
        /\ st'.out_of_order = st.out_of_order
        /\ st'.total_packets \in {st.total_packets, next - 1}
    BY <2>2 DEF SetSenderPackets, TypeOK, Collectors
  <2>4. /\ ~finished /\ finished' = TRUE /\ next' = next
        /\ delivered' = delivered /\ overtaken' = overtaken
    BY <1>4 DEF FinishArrives
  <2> QED
    BY <2>3, <2>4 DEF CountInv, DisorderIsReal
<1> QED
  BY <1>1, <1>2, <1>3, <1>4 DEF Next

\* At first nothing is counted.
LEMMA CountInit == Init => CountInv
<1> SUFFICES ASSUME Init PROVE CountInv
  OBVIOUS
<1>1. /\ st.packets_received = 0 /\ st.total_packets = 0
      /\ st.out_of_order = 0
  BY DEF Init, StartTest, NewCollector
<1>2. delivered = {} /\ overtaken = {}
  BY DEF Init
<1>3. Cardinality({}) = 0
  BY FS_EmptySet
<1> QED
  BY <1>1, <1>2, <1>3 DEF CountInv, DisorderIsReal

LEMMA CountInvariant ==
  ASSUME IdsSuffice, WindowFits
  PROVE  Spec => [](TypeOK /\ SeenInv /\ CountInv)
<1>1. TypeOK /\ FlightInv /\ SeenInv /\ CountInv /\ [Next]_vars => CountInv'
  BY CountStep
<1> QED
  BY <1>1, CountInit, SeenInvariant, PTL DEF Spec

\* The loss reported at the end of a test in which no packet_id is used twice
\* is the number of packets that never reached the server, for every order of
\* the packets, number of copies and threshold of the pruning.
THEOREM LossPrecise ==
  ASSUME IdsSuffice, WindowFits
  PROVE  Spec => []LossIsPrecise
<1>1. TypeOK /\ SeenInv /\ CountInv => LossIsPrecise
  <2> SUFFICES ASSUME TypeOK, SeenInv, CountInv, st.total_packets > 0
               PROVE  Finalize(st).lost_packets
                        = (next - 1) - Cardinality(delivered)
    BY DEF LossIsPrecise
  <2>1. next - 1 \in Nat /\ delivered \subseteq 1..(next - 1)
    BY DEF TypeOK, SeenInv
  <2>2. /\ IsFiniteSet(1..(next - 1))
        /\ Cardinality(1..(next - 1)) = next - 1
    BY <2>1, FS_Interval
  <2>3. Cardinality(delivered) <= next - 1
    BY <2>1, <2>2, FS_Subset
  <2>4. Cardinality(delivered) \in Nat
    BY DeliveredFinite
  <2>5. Finalize(st).lost_packets
          = LossOf(st.total_packets, st.packets_received)
    BY DEF Finalize
  <2>6. /\ st.total_packets = next - 1
        /\ st.packets_received = Cardinality(delivered)
    BY DEF CountInv
  <2> QED
    BY <2>1, <2>3, <2>4, <2>5, <2>6 DEF LossOf
<1> QED
  BY <1>1, CountInvariant, PTL

\* As long as no packet_id is used twice, no packet counts as out of order that
\* no younger one overtook.
THEOREM DisorderReal ==
  ASSUME IdsSuffice, WindowFits
  PROVE  Spec => []DisorderIsReal
<1>1. CountInv => DisorderIsReal
  BY DEF CountInv
<1> QED
  BY <1>1, CountInvariant, PTL

-----------------------------------------------------------------------------
(* Jitter *)

\* What an arrival adds to the largest jitter is a variation of the transit
\* time.
LEMMA JitterArrival ==
  ASSUME TypeOK, FlightInv, SeenInv, JitterInv, IdsSuffice,
         NEW p \in flight,
         st' = RecordPacket(st, HeaderFor(p), now), Observe(p)
  PROVE  JitterInv'
<1> DEFINE t == now - p.stamp
<1>1. CASE p.seq \in delivered
  <2>1. /\ st'.first_packet = st.first_packet
        /\ st'.prev_transit = st.prev_transit
        /\ st'.jitter_max = st.jitter_max
    BY <1>1, DuplicateArrival
  <2>2. transit' = transit /\ variations' = variations
    BY <1>1 DEF Observe
  <2> QED
    BY <2>1, <2>2 DEF JitterInv, JitterMaxIsObserved
<1>2. CASE p.seq \notin delivered
  <2> DEFINE before == IF st.first_packet THEN t ELSE st.prev_transit
  <2>1. /\ st'.prev_transit = t
        /\ st'.jitter_max = LargerOf(st.jitter_max, Distance(t, before))
    BY <1>2, FreshArrival
  <2>2. transit' = t
    BY <1>2 DEF Observe
  <2>3. variations' = IF delivered = {} THEN variations
                      ELSE variations \cup {Distance(t, transit)}
    BY <1>2 DEF Observe
  <2>4. t \in Int /\ transit \in Int /\ st.jitter_max \in Nat
    BY HeaderType DEF TypeOK, Collectors
  <2>5. \A d \in variations : d \in Nat
    BY DEF TypeOK
  <2> HIDE DEF t
  <2>6. CASE st.first_packet
    <3>1. variations' = variations
      BY <2>3, <2>6 DEF SeenInv
    <3>2. Distance(t, before) = 0
      BY <2>4, <2>6 DEF Distance
    <3>3. st'.jitter_max = st.jitter_max
      BY <2>1, <2>4, <3>2 DEF LargerOf
    <3> QED
      BY <2>1, <2>2, <3>1, <3>3 DEF JitterInv, JitterMaxIsObserved
  <2>7. CASE ~st.first_packet
    <3> DEFINE delta == Distance(t, transit)
    <3>1. variations' = variations \cup {delta}
      BY <2>3, <2>7 DEF SeenInv
    <3>2. before = transit
      BY <2>7 DEF JitterInv
    <3>3. delta \in Nat
      BY <2>4, DistanceType
    <3>4. st'.jitter_max = LargerOf(st.jitter_max, delta)
      BY <2>1, <3>2
    <3> HIDE DEF delta
    <3>5. JitterMaxIsObserved'
      BY <2>4, <2>5, <3>1, <3>3, <3>4
         DEF JitterInv, JitterMaxIsObserved, LargerOf
    <3> QED
      BY <2>1, <2>2, <3>5 DEF JitterInv
  <2> QED
    BY <2>6, <2>7
<1> QED
  BY <1>1, <1>2

\* Every step keeps the largest jitter in step with the network.
LEMMA JitterStep ==
  ASSUME IdsSuffice
  PROVE  TypeOK /\ FlightInv /\ SeenInv /\ JitterInv /\ [Next]_vars => JitterInv'
<1> SUFFICES ASSUME TypeOK, FlightInv, SeenInv, JitterInv, [Next]_vars
             PROVE  JitterInv'
  OBVIOUS
<1>1. CASE Tick \/ Emit \/ UNCHANGED vars
  BY <1>1 DEF Tick, Emit, vars, JitterInv, JitterMaxIsObserved
<1>2. CASE Arrive
  BY <1>2, JitterArrival DEF Arrive
<1>3. CASE FinishArrives
  <2>1. st' \in {SetSenderPackets(st, next - 1), st}
    BY <1>3 DEF FinishArrives
  <2>2. /\ st'.first_packet = st.first_packet
        /\ st'.prev_transit = st.prev_transit
        /\ st'.jitter_max = st.jitter_max
    BY <2>1 DEF SetSenderPackets, TypeOK, Collectors
  <2>3. transit' = transit /\ variations' = variations
    BY <1>3 DEF FinishArrives
  <2> QED
    BY <2>2, <2>3 DEF JitterInv, JitterMaxIsObserved
<1> QED
  BY <1>1, <1>2, <1>3 DEF Next

\* At first there is no jitter.
LEMMA JitterInit == Init => JitterInv
<1> SUFFICES ASSUME Init PROVE JitterInv
  OBVIOUS
<1>1. st.first_packet = TRUE /\ st.jitter_max = 0
  BY DEF Init, StartTest, NewCollector
<1>2. variations = {}
  BY DEF Init
<1> QED
  BY <1>1, <1>2 DEF JitterInv, JitterMaxIsObserved

\* As long as no packet_id is used twice, so that a duplicate is known for one,
\* the largest jitter of a test is the largest variation of the transit time
\* between two packets received one after the other.
THEOREM JitterMaxObserved ==
  ASSUME IdsSuffice, WindowFits
  PROVE  Spec => []JitterMaxIsObserved
<1>1. TypeOK /\ FlightInv /\ SeenInv /\ JitterInv /\ [Next]_vars => JitterInv'
  BY JitterStep
<1>2. JitterInv => JitterMaxIsObserved
  BY DEF JitterInv
<1> QED
  BY <1>1, <1>2, JitterInit, SeenInvariant, PTL DEF Spec
\* The tracking of a test starts with the first packet, which is a sample of
\* the distance 0.
MinInv ==
  IF st.first_packet THEN st.seen_ids = {} ELSE st.jitter_min = 0

\* After an arrival tracking has started and the minimum is 0.
LEMMA MinArrival ==
  ASSUME TypeOK, MinInv, NEW p \in flight,
         st' = RecordPacket(st, HeaderFor(p), now)
  PROVE  MinInv' /\ st'.first_packet = FALSE
<1> DEFINE h == HeaderFor(p)
<1>1. /\ st \in Collectors /\ now \in Int /\ h \in Headers
      /\ st' = RecordPacket(st, h, now)
  BY HeaderType DEF TypeOK
<1>2. /\ st.jitter_min \in Nat /\ st.prev_transit \in Int
      /\ st.first_packet \in BOOLEAN /\ now - h.timestamp \in Int
  BY <1>1 DEF Collectors, Headers, PacketHeaders
<1> HIDE DEF h
<1>3. CASE h.packet_id \in st.seen_ids
  <2>1. ~st.first_packet
    BY <1>3 DEF MinInv
  <2>2. st' = [st EXCEPT !.duplicate = @ + 1]
    BY <1>1, <1>3, <2>1, RecordDuplicate
  <2> QED
    BY <1>1, <2>1, <2>2 DEF MinInv, Collectors
<1>4. CASE h.packet_id \notin st.seen_ids
  <2> DEFINE transit0 == now - h.timestamp
             before   == IF st.first_packet THEN transit0 ELSE st.prev_transit
             delta    == Distance(transit0, before)
  <2>1. /\ st'.first_packet = FALSE
        /\ st'.jitter_min = SmallerOf(st.jitter_min, delta)
    <3>1. LET r == RecordPacket(st, h, now)
          IN  /\ r.first_packet = FALSE
              /\ r.jitter_min = SmallerOf(st.jitter_min, delta)
      BY <1>1, <1>4, RecordFresh
    <3> HIDE DEF delta
    <3> QED
      BY <1>1, <3>1
  <2>2. delta \in Nat
    BY <1>2, DistanceType
  <2>3. st.first_packet => delta = 0
    BY <1>2 DEF Distance
  <2> HIDE DEF delta
  <2>4. SmallerOf(st.jitter_min, delta) = 0
    BY <1>2, <2>2, <2>3 DEF MinInv, SmallerOf
  <2> QED
    BY <2>1, <2>4 DEF MinInv
<1> QED
  BY <1>3, <1>4

\* The jitter_min of every test with a packet is 0, whatever the transit times
\* were, the range of the ids and the thresholds: record_packet() measures the
\* first packet against itself (stats_collector.cpp:48, :79).
THEOREM JitterMinIsZero ==
  Spec => [](delivered # {} => Finalize(st).jitter_min = 0)
<1> DEFINE Started == delivered # {} => ~st.first_packet
<1>1. Init => MinInv /\ Started
  BY DEF Init, StartTest, NewCollector, MinInv
<1>2. TypeOK /\ MinInv /\ Started /\ [Next]_vars => MinInv' /\ Started'
  <2> SUFFICES ASSUME TypeOK, MinInv, Started, [Next]_vars
               PROVE  MinInv' /\ Started'
    OBVIOUS
  <2>1. CASE Tick \/ Emit \/ UNCHANGED vars
    BY <2>1 DEF Tick, Emit, vars, MinInv
  <2>2. CASE Arrive
    <3>1. PICK p \in flight : st' = RecordPacket(st, HeaderFor(p), now)
      BY <2>2 DEF Arrive
    <3> QED
      BY <3>1, MinArrival
  <2>3. CASE FinishArrives
    <3>1. st' \in {SetSenderPackets(st, next - 1), st}
      BY <2>3 DEF FinishArrives
    <3>2. /\ st'.first_packet = st.first_packet
          /\ st'.seen_ids = st.seen_ids /\ st'.jitter_min = st.jitter_min
      BY <3>1 DEF SetSenderPackets, TypeOK, Collectors
    <3> QED
      BY <2>3, <3>2 DEF MinInv, FinishArrives
  <2> QED
    BY <2>1, <2>2, <2>3 DEF Next
<1>3. MinInv /\ Started => (delivered # {} => Finalize(st).jitter_min = 0)
  BY DEF MinInv, Finalize, UnsetJitter
<1> QED
  BY <1>1, <1>2, <1>3, TypeInvariant, PTL DEF Spec

-----------------------------------------------------------------------------
(* The collector implements one that never forgets a packet *)

\* What the summary of a collector says about packets.
LEMMA ReportFields ==
  ASSUME NEW c \in Collectors
  PROVE  ReportOf(c) =
           [ received     |-> c.packets_received,
             duplicate    |-> c.duplicate,
             out_of_order |-> c.out_of_order,
             lost         |-> LossOf(c.total_packets, c.packets_received) ]
BY DEF ReportOf, Finalize

\* The first state of a test maps to a report of nothing.
LEMMA IdealInit == Init => Ideal!Init
<1> SUFFICES ASSUME Init PROVE Ideal!Init
  OBVIOUS
<1>1. st = StartTest(NewCollector, 1) /\ st \in Collectors
  BY StartTestType DEF Init
<1>2. /\ st.packets_received = 0 /\ st.total_packets = 0
      /\ st.out_of_order = 0 /\ st.duplicate = 0 /\ st.last_packet_id = 0
  BY <1>1 DEF StartTest, NewCollector
<1>3. ReportOf(st) =
        [received |-> 0, duplicate |-> 0, out_of_order |-> 0, lost |-> 0]
  BY <1>1, <1>2, ReportFields DEF LossOf
<1> QED
  BY <1>2, <1>3 DEF Init, Ideal!Init

\* An arrival counts the packet, or notes a duplicate.
LEMMA IdealArrival ==
  ASSUME TypeOK, FlightInv, SeenInv, CountInv, IdsSuffice, TypeOK', Arrive
  PROVE  Ideal!Count \/ Ideal!Repeat
<1>1. PICK p \in flight :
        /\ st' = RecordPacket(st, HeaderFor(p), now)
        /\ Observe(p)
  BY DEF Arrive
<1>2. /\ ~finished /\ finished' = finished /\ next' = next
      /\ arrivals' = arrivals + 1 /\ delivered' = delivered \cup {p.seq}
  BY <1>1 DEF Arrive, Observe
<1>3. st \in Collectors /\ st' \in Collectors
  BY DEF TypeOK
<1>4. st.total_packets = 0
  BY <1>2, <1>3 DEF CountInv, Collectors
<1>5. CASE p.seq \in delivered
  <2>1. delivered' = delivered /\ delivered # {}
    BY <1>2, <1>5
  <2>2. /\ st'.packets_received = st.packets_received
        /\ st'.total_packets = st.total_packets
        /\ st'.out_of_order = st.out_of_order
        /\ st'.duplicate = st.duplicate + 1
        /\ st'.last_packet_id = st.last_packet_id
    BY <1>1, <1>5, DuplicateArrival
  <2>3. ReportOf(st)' = [ReportOf(st) EXCEPT !.duplicate = @ + 1]
    BY <1>3, <2>2, ReportFields
  <2> QED
    BY <1>2, <2>1, <2>2, <2>3 DEF Ideal!Repeat
<1>6. CASE p.seq \notin delivered
  <2> DEFINE last == IF st.first_packet THEN p.seq ELSE st.last_packet_id
  <2>1. /\ st'.packets_received = st.packets_received + 1
        /\ st'.total_packets = st.total_packets
        /\ st'.out_of_order = IF p.seq < last THEN st.out_of_order + 1
                                              ELSE st.out_of_order
        /\ st'.duplicate = st.duplicate
        /\ st'.last_packet_id = p.seq
    BY <1>1, <1>6, FreshArrival
  <2>2. p.seq \in 1..(next - 1)
    BY HeaderType DEF FlightInv, TypeOK
  <2>3. p.seq < last <=> p.seq < st.last_packet_id
    BY <2>2 DEF SeenInv, TypeOK
  <2>4. /\ LossOf(st.total_packets, st.packets_received) = 0
        /\ LossOf(st'.total_packets, st'.packets_received) = 0
    BY <1>3, <1>4, <2>1 DEF LossOf, Collectors
  <2>5. ReportOf(st)' =
          [ReportOf(st) EXCEPT
             !.received     = @ + 1,
             !.out_of_order = IF p.seq < st.last_packet_id
                              THEN @ + 1 ELSE @]
    <3> DEFINE disorder == IF p.seq < st.last_packet_id
                           THEN st.out_of_order + 1 ELSE st.out_of_order
    <3>1. ReportOf(st) =
            [ received |-> st.packets_received, duplicate |-> st.duplicate,
              out_of_order |-> st.out_of_order, lost |-> 0 ]
      BY <1>3, <2>4, ReportFields
    <3>2. st'.out_of_order = disorder
      BY <2>1, <2>3
    <3>3. ReportOf(st)' = ReportOf(st')
      OBVIOUS
    <3> HIDE DEF last, disorder
    <3>4. ReportOf(st)' =
            [ received |-> st.packets_received + 1, duplicate |-> st.duplicate,
              out_of_order |-> disorder, lost |-> 0 ]
      BY <1>3, <2>1, <2>4, <3>2, <3>3, ReportFields
    <3>5. [ReportOf(st) EXCEPT !.received     = st.packets_received + 1,
                               !.out_of_order = disorder] =
            [ received |-> st.packets_received + 1, duplicate |-> st.duplicate,
              out_of_order |-> disorder, lost |-> 0 ]
      <4> DEFINE one == [ received |-> st.packets_received + 1,
                          duplicate |-> st.duplicate,
                          out_of_order |-> st.out_of_order, lost |-> 0 ]
      <4>1. [ReportOf(st) EXCEPT !.received = st.packets_received + 1] = one
        BY <3>1
      <4>2. [one EXCEPT !.out_of_order = disorder] =
              [ received |-> st.packets_received + 1,
                duplicate |-> st.duplicate,
                out_of_order |-> disorder, lost |-> 0 ]
        OBVIOUS
      <4> HIDE DEF one
      <4>3. [ReportOf(st) EXCEPT !.received     = st.packets_received + 1,
                                 !.out_of_order = disorder] =
              [[ReportOf(st) EXCEPT !.received = st.packets_received + 1]
                 EXCEPT !.out_of_order = disorder]
        OBVIOUS
      <4> QED
        BY <4>1, <4>2, <4>3
    <3> QED
      BY <3>1, <3>4, <3>5 DEF disorder
  <2> QED
    BY <1>2, <1>6, <2>1, <2>2, <2>5 DEF Ideal!Count
<1> QED
  BY <1>5, <1>6
\* The Finish closes the test, and its total yields the loss.
LEMMA IdealFinish ==
  ASSUME TypeOK, SeenInv, CountInv, TypeOK', FinishArrives
  PROVE  Ideal!Close
<1>1. /\ ~finished /\ finished' = TRUE /\ next' = next
      /\ arrivals' = arrivals /\ delivered' = delivered
  BY DEF FinishArrives
<1>2. /\ st \in Collectors /\ st' \in Collectors
      /\ next - 1 \in Nat /\ delivered \subseteq 1..(next - 1)
  BY DEF TypeOK, SeenInv
<1>3. /\ st'.packets_received = st.packets_received
      /\ st'.out_of_order = st.out_of_order
      /\ st'.duplicate = st.duplicate
      /\ st'.last_packet_id = st.last_packet_id
      /\ st'.total_packets = IF next > 1 THEN next - 1 ELSE st.total_packets
  BY <1>2 DEF FinishArrives, SetSenderPackets, Collectors
<1>4. st'.total_packets = next - 1
  BY <1>1, <1>2, <1>3 DEF CountInv, Collectors, TypeOK
<1>5. LossOf(st'.total_packets, st'.packets_received)
        = (next - 1) - Cardinality(delivered)
  <2>1. /\ IsFiniteSet(1..(next - 1))
        /\ Cardinality(1..(next - 1)) = next - 1
    BY <1>2, FS_Interval
  <2>2. Cardinality(delivered) <= next - 1 /\ Cardinality(delivered) \in Nat
    BY <1>2, <2>1, FS_Subset, DeliveredFinite
  <2>3. st'.packets_received = Cardinality(delivered)
    BY <1>3 DEF CountInv
  <2> QED
    BY <1>2, <1>4, <2>2, <2>3 DEF LossOf
<1>6. ReportOf(st)' =
        [ReportOf(st) EXCEPT !.lost = (next - 1) - ReportOf(st).received]
  <2>1. ReportOf(st).received = Cardinality(delivered)
    BY <1>2, ReportFields DEF CountInv
  <2> QED
    BY <1>2, <1>3, <1>5, <2>1, ReportFields
<1> QED
  BY <1>1, <1>3, <1>6 DEF Ideal!Close

\* Every step of the session is a step of the ideal collector or none at all.
LEMMA IdealStep ==
  ASSUME IdsSuffice, TypeOK, FlightInv, SeenInv, CountInv, TypeOK', [Next]_vars
  PROVE  [Ideal!Next]_Ideal!idealVars
<1>1. CASE Tick \/ UNCHANGED vars
  BY <1>1 DEF Tick, vars, Ideal!idealVars, ReportOf
<1>2. CASE Emit
  <2>1. next' - 1 = (next - 1) + 1
    BY <1>2 DEF Emit, TypeOK
  <2>2. ReportOf(st)' = ReportOf(st) /\ st' = st
    BY <1>2 DEF Emit, ReportOf
  <2> QED
    BY <1>2, <2>1, <2>2 DEF Emit, Ideal!Next, Ideal!Send
<1>3. CASE Arrive
  BY <1>3, IdealArrival DEF Ideal!Next
<1>4. CASE FinishArrives
  BY <1>4, IdealFinish DEF Ideal!Next
<1> QED
  BY <1>1, <1>2, <1>3, <1>4 DEF Next

\* Pruning, the ids and the special case of the first packet are not to be
\* seen in the numbers: the collector implements one that knows the packets
\* and never forgets any, for every test in which no packet_id is used twice,
\* every threshold of the pruning and window of the network that fits.
THEOREM IdealNumbers ==
  ASSUME IdsSuffice, WindowFits
  PROVE  Spec => ImplementsIdealCollector
<1>1. /\ TypeOK /\ FlightInv /\ SeenInv /\ CountInv /\ TypeOK' /\ [Next]_vars
      => [Ideal!Next]_Ideal!idealVars
  BY IdealStep
<1> QED
  BY <1>1, IdealInit, CountInvariant, TypeInvariant, PTL
     DEF Spec, ImplementsIdealCollector, Ideal!Spec
=============================================================================
