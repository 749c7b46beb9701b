---------------------------- MODULE PacedSender -----------------------------
(***************************************************************************)
(* The data loop of the sender thread of src/client_handler.cpp in real    *)
(* time, with the pacer of src/pacer.cpp: when packets are stamped and     *)
(* sent, and which intervals are reported.  ClientHandler has the same     *)
(* loop without time, and what follows it.                                 *)
(*                                                                         *)
(* pc is where the thread is:                                              *)
(*    loop       head of the loop, about to read g_shutdown                *)
(*    wait       packet stamped, in wait_until() or about to send          *)
(*    trailing   loop left, last interval not reported yet                 *)
(*    done       about to send the Finish                                  *)
(*                                                                         *)
(* now is the client's clock in ticks; it advances between any two steps,  *)
(* so the thread may be delayed anywhere.  Bytes are counted in packets,   *)
(* which all have the length packet_len.  The interval of the pacer is a   *)
(* whole number of ticks: rounding of the code's floating-point interval   *)
(* to nanoseconds is left out.                                             *)
(***************************************************************************)
EXTENDS Integers

CONSTANTS Second,       \* ticks of one second
          DurationSec,  \* cfg.duration_sec
          IntervalSec,  \* cfg.interval_sec
          IntervalTicks,\* interval_ns(): time between two packets at the rate
          BurstTicks,   \* burst_threshold_ns (2 ms)
          IdMax,        \* the largest packet_id (2^32 - 1)
          SocketFaults, \* TRUE: send_to() and check_error() may report errors
          MaxTime       \* bound on the clock

\* parse_args() limits the interval to the duration; that may be 0.
ASSUME PacingAssumption ==
  /\ {Second, DurationSec, IntervalTicks, BurstTicks, IdMax} \subseteq Nat \ {0}
  /\ IntervalSec \in 0..DurationSec
  /\ SocketFaults \in BOOLEAN
  /\ MaxTime \in Nat

VARIABLES now, pc, interrupted, packet_id, next_send, stamp,
          prev_interval_time, interval_num, interval_bytes, packets_sent,
          reported,   \* sum of the bytes of all interval reports
          last,       \* stamp and due time of the last packet sent
          overtime    \* packets sent after Ctrl+C or the end of the test

intervalVars == <<prev_interval_time, interval_num, interval_bytes, reported>>
packetVars   == <<packet_id, next_send, packets_sent, last, overtime>>
vars == <<now, pc, interrupted, stamp, intervalVars, packetVars>>

BurstSize ==
  IF IntervalTicks < BurstTicks
  THEN (BurstTicks + IntervalTicks - 1) \div IntervalTicks ELSE 1

TestEnd == DurationSec * Second

\* The clock reaches every send time of the test.
ASSUME TimeAssumption == MaxTime >= TestEnd + IntervalTicks * BurstSize

Init ==
  /\ now = 0
  /\ pc = "loop"
  /\ interrupted = FALSE
  /\ packet_id = 1
  /\ next_send = 0
  /\ stamp = 0
  /\ prev_interval_time = 0
  /\ interval_num = 0
  /\ interval_bytes = 0
  /\ packets_sent = 0
  /\ reported = 0
  /\ last = [stamp |-> 0, due |-> 0]
  /\ overtime = 0

Tick ==
  /\ now < MaxTime /\ pc # "done"
  /\ now' = now + 1
  /\ UNCHANGED <<pc, interrupted, stamp, intervalVars, packetVars>>

CtrlC ==
  /\ ~interrupted /\ pc # "done"
  /\ interrupted' = TRUE
  /\ UNCHANGED <<now, pc, stamp, intervalVars, packetVars>>

-----------------------------------------------------------------------------

\* An interval report that forgets when the interval began.
ReportIntervalUndated ==
  IF (now - prev_interval_time) \div Second >= IntervalSec
  THEN /\ reported' = reported + interval_bytes
       /\ interval_num' = interval_num + 1
       /\ interval_bytes' = 0
       /\ UNCHANGED prev_interval_time
  ELSE UNCHANGED intervalVars

\* A full interval is reported once whole seconds enough have passed.
ReportInterval ==
  IF (now - prev_interval_time) \div Second >= IntervalSec
  THEN /\ reported' = reported + interval_bytes
       /\ interval_num' = interval_num + 1
       /\ interval_bytes' = 0
       /\ prev_interval_time' = now
  ELSE UNCHANGED intervalVars

TestOverLate == now > TestEnd

\* now >= test_end_time
TestOver == now >= TestEnd

LoopHead ==
  /\ pc = "loop"
  /\ \/ /\ interrupted
        /\ pc' = "trailing"
        /\ UNCHANGED <<stamp, intervalVars>>
     \/ /\ ~interrupted
        /\ ReportInterval
        /\ \/ TestOver /\ pc' = "trailing" /\ UNCHANGED stamp
           \/ ~TestOver /\ pc' = "wait" /\ stamp' = now
  /\ UNCHANGED <<now, interrupted, packetVars>>

SleepOver == now + BurstTicks >= next_send

OnTime == now = next_send

\* wait_until(next_send) has returned.
WaitOver == now >= next_send

IdAfter0(id) == (id + 1) % (IdMax + 1)

\* packet_id++, skipping 0.
IdAfter(id) ==
  LET incremented == (id + 1) % (IdMax + 1)
  IN  IF incremented = 0 THEN 1 ELSE incremented

AdvancePerPacket(id) == next_send + IntervalTicks * BurstSize

\* The send time of the packet id: it moves once per burst.
Advance(id) ==
  IF id % BurstSize = 0 THEN next_send + IntervalTicks * BurstSize
                        ELSE next_send

\* The packet is sent and counted; an ICMP error then ends the test.
SendPacket ==
  /\ pc = "wait" /\ WaitOver
  /\ packets_sent' = packets_sent + 1
  /\ interval_bytes' = interval_bytes + 1
  /\ last' = [stamp |-> stamp, due |-> next_send]
  /\ overtime' = IF interrupted \/ now >= TestEnd THEN overtime + 1
                                                  ELSE overtime
  /\ \/ /\ pc' = "loop"
        /\ packet_id' = IdAfter(packet_id)
        /\ next_send' = Advance(IdAfter(packet_id))
     \/ /\ SocketFaults
        /\ pc' = "trailing"
        /\ UNCHANGED <<packet_id, next_send>>
  /\ UNCHANGED <<now, interrupted, stamp, prev_interval_time, interval_num,
                 reported>>

\* send_to() throws: the packet is not counted.
SendFails ==
  /\ SocketFaults
  /\ pc = "wait" /\ WaitOver
  /\ pc' = "trailing"
  /\ UNCHANGED <<now, interrupted, stamp, intervalVars, packetVars>>

TrailingWhole == interval_bytes > 0 /\ now - prev_interval_time >= Second

TrailingLeft == interval_bytes > 0

\* What is left of the last interval is reported with its real length.
ReportTrailing ==
  /\ pc = "trailing"
  /\ pc' = "done"
  /\ IF TrailingLeft
     THEN reported' = reported + interval_bytes /\ interval_bytes' = 0
     ELSE UNCHANGED <<reported, interval_bytes>>
  /\ UNCHANGED <<now, interrupted, stamp, prev_interval_time, interval_num,
                 packetVars>>

SenderStep == LoopHead \/ SendPacket \/ SendFails \/ ReportTrailing

Next == SenderStep \/ Tick \/ CtrlC

Spec == Init /\ [][Next]_vars

\* The thread is scheduled, its socket calls return, and time passes.
FairSpec == Spec /\ WF_vars(LoopHead \/ SendPacket \/ ReportTrailing)
                 /\ WF_vars(Tick)

-----------------------------------------------------------------------------
(* Properties *)

\* Every variable has its type; packet ids are never 0, the id of control
\* messages (CR-009), also after the counter wrapped.
TypeOK ==
  /\ now \in 0..MaxTime
  /\ pc \in {"loop", "wait", "trailing", "done"}
  /\ interrupted \in BOOLEAN
  /\ packet_id \in 1..IdMax
  /\ {next_send, stamp, prev_interval_time, interval_num, interval_bytes,
      packets_sent, reported, overtime} \subseteq Nat
  /\ last \in [stamp : Nat, due : Nat]

\* The reported intervals add up to all bytes sent, however the test ends
\* ("interval_bytes sum matches local_bytes exactly", client_handler.cpp:173).
IntervalsSumUp ==
  /\ reported + interval_bytes = packets_sent
  /\ pc = "done" => reported = packets_sent

\* An interval never starts, on the clock, before the time printed as its
\* start: labels count whole intervals, while real ones may take longer.
LabelsNotAhead == interval_num * IntervalSec * Second <= prev_interval_time

\* Why IntervalsSumUp and OnePacketAfterStop hold: a trailing report leaves
\* nothing over, and a loop that has overtime will not stamp a packet again.
StopInv ==
  /\ reported + interval_bytes = packets_sent
  /\ pc = "done" => interval_bytes = 0
  /\ overtime <= 1
  /\ pc = "wait" => overtime = 0
  /\ pc = "loop" /\ overtime > 0 => interrupted \/ now >= TestEnd

\* What the wraps of packet_id have added to the bit rate: a wrap in the middle
\* of a burst forgets the packets of that burst so far, and they are sent
\* without being scheduled.
WrapDrift == (packets_sent \div IdMax) * (IdMax % BurstSize)

\* The send time follows the bit rate to within one burst, however late single
\* packets are sent, until packet_id wraps.  From then on the schedule is ahead
\* by the packets each wrap has added, by all of them and by nothing else.
ScheduleKeepsRate ==
  pc \in {"loop", "wait"} =>
    (packets_sent + 1 - WrapDrift) * IntervalTicks - next_send
      \in 0..(IntervalTicks * BurstSize)

\* The packets that were scheduled.
Scheduled == packets_sent - WrapDrift

\* The place of a packet in its burst.
InBurst(id) == IF BurstSize = 1 THEN 1 ELSE id % BurstSize

\* Why: within a burst the schedule lags behind by the packets of the burst.
ScheduleInv ==
  pc \in {"loop", "wait"} =>
    /\ packet_id = (packets_sent % IdMax) + 1
    /\ (Scheduled + 1) * IntervalTicks
         = next_send + InBurst(packet_id) * IntervalTicks

\* The sender catches up after a delay, but what it has sent is never ahead of
\* the bit rate by more than one burst and, once packet_id has wrapped, fewer
\* packets than a burst for each wrap.
RateIsBounded ==
  packets_sent * IntervalTicks
    <= now + IntervalTicks * (BurstSize + WrapDrift)

\* After Ctrl+C or the end of the test at most the packet that was already
\* waiting for its time is sent.
OnePacketAfterStop == overtime <= 1

\* The data loop comes to its end, however late the thread gets to run.
SenderFinishes == <>(pc = "done")

\* S_i is the time stamp of the sending of packet i (developer-guide.md:248),
\* but it is taken before the pacer waits: what the wait adds to the transit
\* time, and so to the jitter, is never more than the gap between two bursts.
StampIsRecent == last.due <= last.stamp + IntervalTicks * BurstSize

\* Why: the send time was at most one gap ahead when the thread came back.
StampInv ==
  /\ pc = "loop" => next_send <= now + IntervalTicks * BurstSize
  /\ pc = "wait" => next_send <= stamp + IntervalTicks * BurstSize
  /\ StampIsRecent
=============================================================================
