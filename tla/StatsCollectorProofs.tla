------------------------ MODULE StatsCollectorProofs ------------------------
(***************************************************************************)
(* What TLAPS proves about the operators of the collector: their types,    *)
(* and what record_packet() does to each field.                            *)
(***************************************************************************)
EXTENDS StatsCollector, FiniteSetTheorems, TLAPS

USE StatsAssumption DEF StatsAssumption

-----------------------------------------------------------------------------
(* Types of the operators *)

Headers == PacketHeaders(Nat, Nat, Int)

\* The initial minimum of the jitter is a natural number.
LEMMA NoJitterYetType == NoJitterYet \in Nat
BY SMT DEF NoJitterYet

\* The collector of a server that has not started a test.
LEMMA NewCollectorType == NewCollector \in Collectors
BY NoJitterYetType DEF NewCollector, Collectors

\* start_test() yields a collector, whatever duration it is given.
LEMMA StartTestType ==
  ASSUME NEW st, NEW duration \in Nat
  PROVE  StartTest(st, duration) \in Collectors
BY NewCollectorType DEF StartTest, Collectors

\* set_sender_packets() yields a collector.
LEMMA SetSenderPacketsType ==
  ASSUME NEW st \in Collectors, NEW sent \in Nat
  PROVE  SetSenderPackets(st, sent) \in Collectors
BY DEF SetSenderPackets, Collectors

\* Pruning only removes ids.
LEMMA PrunedSubset ==
  ASSUME NEW ids, NEW last
  PROVE  Pruned(ids, last) \subseteq ids
BY DEF Pruned

\* The variation of the transit time is a natural number.
LEMMA DistanceType ==
  ASSUME NEW a \in Int, NEW b \in Int
  PROVE  Distance(a, b) \in Nat
BY DEF Distance

\* Initialising the tracking of the first packet keeps the collector's type.
LEMMA TrackingType ==
  ASSUME NEW st \in Collectors, NEW hdr \in Headers, NEW now \in Int
  PROVE  Tracking(st, hdr, now) \in Collectors
<1> DEFINE transit == now - hdr.timestamp
<1>0. transit \in Int
  BY DEF Headers, PacketHeaders
<1> DEFINE timed == [st EXCEPT !.first_packet_time = now]
           placed == [timed EXCEPT !.last_packet_id = hdr.packet_id]
           paced  == [placed EXCEPT !.prev_transit = transit]
           begun  == [paced EXCEPT !.first_packet = FALSE]
<1>1. timed \in Collectors
  BY DEF Collectors
<1>2. placed \in Collectors
  BY <1>1 DEF Collectors, Headers, PacketHeaders
<1> HIDE DEF transit
<1>3. paced \in Collectors
  BY <1>0, <1>2 DEF Collectors
<1>4. begun \in Collectors
  BY <1>3 DEF Collectors
<1>5. Tracking(st, hdr, now) \in {begun, st}
  BY DEF Tracking, transit
<1> QED
  BY <1>4, <1>5

\* Counting a packet keeps the collector's type.
LEMMA CountPacketType ==
  ASSUME NEW st \in Collectors, NEW hdr \in Headers, NEW now \in Int
  PROVE  CountPacket(st, hdr, now) \in Collectors
<1> DEFINE transit == now - hdr.timestamp
           ids     == Pruned(st.seen_ids \cup {hdr.packet_id}, st.last_packet_id)
<1>1. transit \in Int /\ st.prev_transit \in Int
  BY DEF Headers, PacketHeaders, Collectors
<1>2. Distance(transit, st.prev_transit) \in Nat
  BY <1>1, DistanceType
<1>3. ids \in SUBSET Nat
  BY PrunedSubset DEF Headers, PacketHeaders, Collectors
<1>4. SmallerOf(st.jitter_min, Distance(transit, st.prev_transit)) \in Nat
  BY <1>2 DEF SmallerOf, Collectors
<1>5. LargerOf(st.jitter_max, Distance(transit, st.prev_transit)) \in Nat
  BY <1>2 DEF LargerOf, Collectors
<1>6. /\ st.first_packet_time \in Int /\ st.duplicate \in Nat
      /\ st.total_packets \in Nat /\ st.test_duration \in Nat
      /\ st.first_packet \in BOOLEAN
      /\ st.bytes_received + hdr.total_length \in Nat
      /\ st.packets_received + 1 \in Nat
      /\ hdr.packet_id \in Nat
      /\ (IF BeforeLast(st, hdr) THEN st.out_of_order + 1
                                 ELSE st.out_of_order) \in Nat
  BY DEF Collectors, Headers, PacketHeaders
<1> HIDE DEF transit, ids
<1>7. CountPacket(st, hdr, now) =
        [ first_packet_time |-> st.first_packet_time,
          last_packet_time  |-> now,
          bytes_received    |-> st.bytes_received + hdr.total_length,
          packets_received  |-> st.packets_received + 1,
          last_packet_id    |-> hdr.packet_id,
          out_of_order      |-> IF BeforeLast(st, hdr)
                                THEN st.out_of_order + 1
                                ELSE st.out_of_order,
          duplicate         |-> st.duplicate,
          total_packets     |-> st.total_packets,
          test_duration     |-> st.test_duration,
          jitter_min        |-> SmallerOf(st.jitter_min,
                                          Distance(transit, st.prev_transit)),
          jitter_max        |-> LargerOf(st.jitter_max,
                                         Distance(transit, st.prev_transit)),
          prev_transit      |-> transit,
          first_packet      |-> st.first_packet,
          seen_ids          |-> ids ]
  BY DEF CountPacket, transit, ids
<1> QED
  BY <1>1, <1>3, <1>4, <1>5, <1>6, <1>7 DEF Collectors

\* record_packet() keeps the collector's type.
LEMMA RecordPacketType ==
  ASSUME NEW st \in Collectors, NEW hdr \in Headers, NEW now \in Int
  PROVE  RecordPacket(st, hdr, now) \in Collectors
<1>1. Tracking(st, hdr, now) \in Collectors
  BY TrackingType
<1>2. CountPacket(Tracking(st, hdr, now), hdr, now) \in Collectors
  BY <1>1, CountPacketType
<1>3. [Tracking(st, hdr, now) EXCEPT !.duplicate = @ + 1] \in Collectors
  BY <1>1 DEF Collectors
<1> QED
  BY <1>2, <1>3 DEF RecordPacket

\* finalize() yields a summary.
LEMMA FinalizeType ==
  ASSUME NEW st \in Collectors
  PROVE  Finalize(st) \in Summaries
BY DEF Finalize, Collectors, Summaries, LargerOf, LossOf, MinDuration

\* The value-initialised summary is one.
LEMMA NoSummaryType == NoSummary \in Summaries
BY DEF NoSummary, Summaries

-----------------------------------------------------------------------------
(* What record_packet() does *)

\* A duplicate changes nothing but its counter.
LEMMA RecordDuplicate ==
  ASSUME NEW st \in Collectors, NEW hdr \in Headers, NEW now \in Int,
         ~st.first_packet, hdr.packet_id \in st.seen_ids
  PROVE  RecordPacket(st, hdr, now) = [st EXCEPT !.duplicate = @ + 1]
BY DEF RecordPacket, Tracking

\* A new packet is counted and remembered; the first of a test is measured
\* against itself.
LEMMA RecordFresh ==
  ASSUME NEW st \in Collectors, NEW hdr \in Headers, NEW now \in Int,
         hdr.packet_id \notin st.seen_ids
  PROVE  LET r       == RecordPacket(st, hdr, now)
             transit == now - hdr.timestamp
             last    == IF st.first_packet THEN hdr.packet_id
                                           ELSE st.last_packet_id
             before  == IF st.first_packet THEN transit ELSE st.prev_transit
         IN  /\ r.seen_ids = Pruned(st.seen_ids \cup {hdr.packet_id}, last)
             /\ r.packets_received = st.packets_received + 1
             /\ r.total_packets = st.total_packets
             /\ r.last_packet_id = hdr.packet_id
             /\ r.first_packet = FALSE
             /\ r.duplicate = st.duplicate
             /\ r.prev_transit = transit
             /\ r.jitter_max = LargerOf(st.jitter_max, Distance(transit, before))
             /\ r.jitter_min = SmallerOf(st.jitter_min, Distance(transit, before))
             /\ r.out_of_order = IF hdr.packet_id < last
                                 THEN st.out_of_order + 1 ELSE st.out_of_order
<1> DEFINE tr      == Tracking(st, hdr, now)
           transit == now - hdr.timestamp
           last    == IF st.first_packet THEN hdr.packet_id
                                         ELSE st.last_packet_id
           before  == IF st.first_packet THEN transit ELSE st.prev_transit
<1>1. /\ tr.seen_ids = st.seen_ids
      /\ tr.packets_received = st.packets_received
      /\ tr.total_packets = st.total_packets
      /\ tr.out_of_order = st.out_of_order
      /\ tr.duplicate = st.duplicate
      /\ tr.jitter_max = st.jitter_max
      /\ tr.jitter_min = st.jitter_min
      /\ tr.last_packet_id = last
      /\ tr.prev_transit = before
      /\ tr.first_packet = FALSE
  BY DEF Tracking, Collectors
<1>2. RecordPacket(st, hdr, now) = CountPacket(tr, hdr, now)
  BY <1>1 DEF RecordPacket
<1> HIDE DEF tr
<1>3. LET r == CountPacket(tr, hdr, now)
      IN  /\ r.seen_ids = Pruned(tr.seen_ids \cup {hdr.packet_id},
                                 tr.last_packet_id)
          /\ r.packets_received = tr.packets_received + 1
          /\ r.total_packets = tr.total_packets
          /\ r.last_packet_id = hdr.packet_id
          /\ r.first_packet = tr.first_packet
          /\ r.duplicate = tr.duplicate
          /\ r.prev_transit = transit
          /\ r.jitter_max = LargerOf(tr.jitter_max,
                                     Distance(transit, tr.prev_transit))
          /\ r.jitter_min = SmallerOf(tr.jitter_min,
                                      Distance(transit, tr.prev_transit))
          /\ r.out_of_order = IF hdr.packet_id < tr.last_packet_id
                              THEN tr.out_of_order + 1 ELSE tr.out_of_order
  BY DEF CountPacket, BeforeLast
<1> QED
  BY <1>1, <1>2, <1>3

\* What is left after pruning is below the threshold again, if nothing but the
\* new id lies far above the last one.
LEMMA PrunedSize ==
  ASSUME NEW w \in Nat \ {0}, KeepBehind + w + 1 < PruneAt,
         NEW new \in Nat, NEW last \in Nat,
         NEW ids, ids \subseteq Nat, IsFiniteSet(ids),
         \A i \in ids : i = new \/ i < last + w
  PROVE  Cardinality(Pruned(ids, last)) < PruneAt
<1>1. CASE Cardinality(ids) < PruneAt
  <2>1. ~(Cardinality(ids) >= PruneAt)
    BY <1>1, FS_CardinalityType
  <2> QED
    BY <1>1, <2>1 DEF Pruned
<1>2. CASE ~(Cardinality(ids) < PruneAt)
  <2> DEFINE low  == last - KeepBehind
             high == last + w - 1
             near == low..high
  <2>1. Cardinality(ids) >= PruneAt
    BY <1>2, FS_CardinalityType
  <2>2. Pruned(ids, last) \subseteq near \cup {new}
    <3> SUFFICES ASSUME NEW i \in Pruned(ids, last), i # new
                 PROVE  i \in near
      OBVIOUS
    <3>1. i \in ids /\ i \in Nat /\ i < last + w
      BY PrunedSubset
    <3>2. i >= IF last > KeepBehind THEN last - KeepBehind ELSE 0
      BY <2>1 DEF Pruned
    <3> QED
      BY <3>1, <3>2
  <2>3. low \in Int /\ high \in Int /\ low <= high
    OBVIOUS
  <2>4. IsFiniteSet(near) /\ Cardinality(near) = high - low + 1
    <3> HIDE DEF low, high
    <3> QED
      BY <2>3, FS_Interval
  <2>5. /\ IsFiniteSet(near \cup {new})
        /\ Cardinality(near \cup {new}) \in {high - low + 1, high - low + 2}
    <3>1. Cardinality(near \cup {new})
            \in {Cardinality(near), Cardinality(near) + 1}
      BY <2>4, FS_AddElement
    <3>2. IsFiniteSet(near \cup {new})
      BY <2>4, FS_AddElement
    <3> HIDE DEF near, low, high
    <3> QED
      BY <2>3, <2>4, <3>1, <3>2
  <2>6. Cardinality(Pruned(ids, last)) <= Cardinality(near \cup {new})
    BY <2>2, <2>5, FS_Subset
  <2>7. Cardinality(Pruned(ids, last)) \in Nat
    BY <2>2, <2>5, FS_Subset, FS_CardinalityType
  <2> QED
    BY <2>5, <2>6, <2>7
<1> QED
  BY <1>1, <1>2
=============================================================================
