--------------------------- MODULE StatsCollector ---------------------------
(***************************************************************************)
(* The statistics collector of the server (src/stats_collector.cpp), as    *)
(* operators on a record that stands for one StatsCollector object.  Every *)
(* public method of the class is one operator that maps the object before  *)
(* the call to the object after it.  The class takes its mutex for the     *)
(* whole of each method, so each operator is one atomic step.              *)
(*                                                                         *)
(* Abstractions.  A time is an integer number of milliseconds (the code    *)
(* keeps nanoseconds).  The smoothed jitter, the loss percentage and the   *)
(* bit rate are arithmetic on the fields kept here and are left out.       *)
(* Counters do not wrap.                                                   *)
(***************************************************************************)
EXTENDS Integers, FiniteSets

CONSTANTS PruneAt,     \* size of seen_ids_ that triggers pruning (100'000)
          KeepBehind   \* ids kept below last_packet_id_ (50'000)

ASSUME StatsAssumption == /\ PruneAt \in Nat \ {0}
                          /\ KeepBehind \in Nat \ {0}

NoJitterYet  == 1000000000   \* jitter_min_ before the first sample
UnsetJitter  == 100000000    \* finalize() shows a minimum this large as 0
MinDuration  == 1            \* 0.001 s

\* The part of a ProtocolHeader that record_packet() reads.
PacketHeaders(Ids, Lengths, Times) ==
  [packet_id : Ids, total_length : Lengths, timestamp : Times]

SmallerOf(a, b) == IF a <= b THEN a ELSE b
LargerOf(a, b)  == IF a >= b THEN a ELSE b
Distance(a, b)  == IF a >= b THEN a - b ELSE b - a

-----------------------------------------------------------------------------

\* A collector nobody has started: the member initialisers of the class.
NewCollector ==
  [ first_packet_time |-> 0,
    last_packet_time  |-> 0,
    bytes_received    |-> 0,
    packets_received  |-> 0,
    last_packet_id    |-> 0,
    out_of_order      |-> 0,
    duplicate         |-> 0,
    total_packets     |-> 0,
    test_duration     |-> 0,
    jitter_min        |-> NoJitterYet,
    jitter_max        |-> 0,
    prev_transit      |-> 0,
    first_packet      |-> TRUE,
    seen_ids          |-> {} ]

\* A start_test() that keeps the sender's total of the test before.
StartTestKeepingTotal(st, duration) ==
  [NewCollector EXCEPT !.test_duration = duration,
                       !.total_packets = st.total_packets]

\* A start_test() that keeps the ids seen in the test before.
StartTestKeepingIds(st, duration) ==
  [NewCollector EXCEPT !.test_duration = duration,
                       !.seen_ids      = st.seen_ids]

\* start_test(): nothing of the test before is left in any field.
StartTest(st, duration) == [NewCollector EXCEPT !.test_duration = duration]

\* set_sender_packets()
SetSenderPackets(st, sent) == [st EXCEPT !.total_packets = sent]

-----------------------------------------------------------------------------

NeverPruned(ids, last) == ids

\* A pruning that keeps no ids below the last one.
PrunedToLast(ids, last) ==
  IF Cardinality(ids) >= PruneAt THEN {i \in ids : i >= last} ELSE ids

\* The duplicate-detection set after pruning; last is last_packet_id_ of the
\* packet before, since the code prunes before it updates that field.
Pruned(ids, last) ==
  IF Cardinality(ids) >= PruneAt
  THEN LET prune_before == IF last > KeepBehind THEN last - KeepBehind ELSE 0
       IN  {i \in ids : i >= prune_before}
  ELSE ids

TrackingWithoutTransit(st, hdr, now) ==
  IF st.first_packet
  THEN [st EXCEPT !.first_packet_time = now,
                  !.last_packet_id    = hdr.packet_id,
                  !.first_packet      = FALSE]
  ELSE st

\* The first packet of a test initialises tracking, whatever its id.
Tracking(st, hdr, now) ==
  IF st.first_packet
  THEN [st EXCEPT !.first_packet_time = now,
                  !.last_packet_id    = hdr.packet_id,
                  !.prev_transit      = now - hdr.timestamp,
                  !.first_packet      = FALSE]
  ELSE st

NotAfterLast(st, hdr) == hdr.packet_id <= st.last_packet_id

\* Out-of-order detection compares with the packet counted before.
BeforeLast(st, hdr) == hdr.packet_id < st.last_packet_id

\* A packet whose id is new: everything record_packet() does with it.
CountPacket(st, hdr, now) ==
  LET transit == now - hdr.timestamp
      delta   == Distance(transit, st.prev_transit)
  IN  [ first_packet_time |-> st.first_packet_time,
        last_packet_time  |-> now,
        bytes_received    |-> st.bytes_received + hdr.total_length,
        packets_received  |-> st.packets_received + 1,
        last_packet_id    |-> hdr.packet_id,
        out_of_order      |-> IF BeforeLast(st, hdr)
                              THEN st.out_of_order + 1 ELSE st.out_of_order,
        duplicate         |-> st.duplicate,
        total_packets     |-> st.total_packets,
        test_duration     |-> st.test_duration,
        jitter_min        |-> SmallerOf(st.jitter_min, delta),
        jitter_max        |-> LargerOf(st.jitter_max, delta),
        prev_transit      |-> transit,
        first_packet      |-> st.first_packet,
        seen_ids          |-> Pruned(st.seen_ids \cup {hdr.packet_id},
                                     st.last_packet_id) ]

\* A record_packet() that trusts the network not to duplicate.
RecordWithoutDedup(st, hdr, now) ==
  CountPacket(Tracking(st, hdr, now), hdr, now)

\* record_packet(): a duplicate only bumps its counter and returns early.
RecordPacket(st, hdr, now) ==
  LET tracked == Tracking(st, hdr, now)
  IN  IF hdr.packet_id \in tracked.seen_ids
      THEN [tracked EXCEPT !.duplicate = @ + 1]
      ELSE CountPacket(tracked, hdr, now)

-----------------------------------------------------------------------------

LossOf(total, received) == IF total > received THEN total - received ELSE 0

\* finalize(): the summary.  A total of 0 leaves the loss fields at 0, which
\* the reporter shows as unknown.
Finalize(st) ==
  LET measured == IF st.packets_received > 0
                  THEN st.last_packet_time - st.first_packet_time
                  ELSE st.test_duration
  IN  [ duration         |-> LargerOf(measured, MinDuration),
        bytes_received   |-> st.bytes_received,
        packets_received |-> st.packets_received,
        packets_sent     |-> st.total_packets,
        jitter_min       |-> IF st.jitter_min >= UnsetJitter
                             THEN 0 ELSE st.jitter_min,
        jitter_max       |-> st.jitter_max,
        lost_packets     |-> LossOf(st.total_packets, st.packets_received),
        total_packets    |-> st.total_packets,
        out_of_order     |-> st.out_of_order,
        duplicate        |-> st.duplicate ]

\* The value-initialised StatsSummary{} of the C++ code.
NoSummary ==
  [ duration |-> 0, bytes_received |-> 0, packets_received |-> 0,
    packets_sent |-> 0, jitter_min |-> 0, jitter_max |-> 0,
    lost_packets |-> 0, total_packets |-> 0, out_of_order |-> 0,
    duplicate |-> 0 ]

-----------------------------------------------------------------------------

Collectors ==
  [ first_packet_time : Int, last_packet_time : Int,
    bytes_received : Nat, packets_received : Nat, last_packet_id : Nat,
    out_of_order : Nat, duplicate : Nat, total_packets : Nat,
    test_duration : Nat, jitter_min : Nat, jitter_max : Nat,
    prev_transit : Int, first_packet : BOOLEAN, seen_ids : SUBSET Nat ]

Summaries ==
  [ duration : Int, bytes_received : Nat, packets_received : Nat,
    packets_sent : Nat, jitter_min : Nat, jitter_max : Nat,
    lost_packets : Nat, total_packets : Nat, out_of_order : Nat,
    duplicate : Nat ]
=============================================================================
