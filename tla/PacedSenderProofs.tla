------------------------- MODULE PacedSenderProofs --------------------------
(***************************************************************************)
(* What TLAPS proves about PacedSender for every bit rate, duration,       *)
(* interval and clock resolution.                                          *)
(***************************************************************************)
EXTENDS PacedSender, TLAPS

USE PacingAssumption DEF PacingAssumption, intervalVars, packetVars

\* A burst has at least one packet.
LEMMA BurstSizeType == BurstSize \in Nat \ {0}
<1>1. CASE IntervalTicks < BurstTicks
  <2>1. BurstTicks + IntervalTicks - 1 \in Nat
    OBVIOUS
  <2>2. BurstTicks + IntervalTicks - 1 >= IntervalTicks
    OBVIOUS
  <2>3. \A a \in Nat, b \in Nat \ {0} :
          a >= b => a \div b \in Nat /\ a \div b >= 1
    BY SMT
  <2> QED
    BY <1>1, <2>1, <2>2, <2>3 DEF BurstSize
<1>2. CASE ~(IntervalTicks < BurstTicks)
  BY <1>2 DEF BurstSize
<1> QED
  BY <1>1, <1>2

\* One burst takes a positive number of ticks.
LEMMA GapType == IntervalTicks * BurstSize \in Nat
BY BurstSizeType, SMT

\* The id after an id is an id.
LEMMA IdAfterType ==
  ASSUME NEW id \in 1..IdMax
  PROVE  IdAfter(id) \in 1..IdMax
BY SMT DEF IdAfter

-----------------------------------------------------------------------------

\* PacedSender keeps its types: no data packet ever gets the id 0.
THEOREM PacedTypes == Spec => []TypeOK
<1>1. Init => TypeOK
  <2> SUFFICES ASSUME Init
               PROVE  TypeOK
    OBVIOUS
  <2>1. last \in [stamp : Nat, due : Nat]
    BY DEF Init
  <2>2. now \in 0..MaxTime /\ packet_id \in 1..IdMax
    BY DEF Init
  <2> QED
    BY <2>1, <2>2 DEF Init, TypeOK
<1>2. TypeOK /\ [Next]_vars => TypeOK'
  <2> SUFFICES ASSUME TypeOK, [Next]_vars
               PROVE  TypeOK'
    OBVIOUS
  <2> USE DEF TypeOK
  <2>1. CASE LoopHead
    <3>1. {prev_interval_time', interval_num', interval_bytes', reported'}
            \subseteq Nat
      BY <2>1 DEF LoopHead, ReportInterval
    <3>2. pc' \in {"loop", "wait", "trailing", "done"} /\ stamp' \in Nat
      BY <2>1 DEF LoopHead
    <3> QED
      BY <2>1, <3>1, <3>2 DEF LoopHead
  <2>2. CASE SendPacket
    <3>1. IdAfter(packet_id) \in 1..IdMax
      BY IdAfterType
    <3>2. Advance(IdAfter(packet_id)) \in Nat
      BY GapType DEF Advance
    <3>3. packet_id' \in 1..IdMax /\ next_send' \in Nat
      BY <2>2, <3>1, <3>2 DEF SendPacket
    <3>4. overtime' \in Nat
      BY <2>2 DEF SendPacket
    <3> QED
      BY <2>2, <3>3, <3>4 DEF SendPacket
  <2>3. CASE SendFails
    BY <2>3 DEF SendFails
  <2>4. CASE ReportTrailing
    <3>1. reported' \in Nat /\ interval_bytes' \in Nat
      BY <2>4 DEF ReportTrailing
    <3> QED
      BY <2>4, <3>1 DEF ReportTrailing
  <2>5. CASE Tick
    BY <2>5 DEF Tick
  <2>6. CASE CtrlC
    BY <2>6 DEF CtrlC
  <2>7. CASE UNCHANGED vars
    BY <2>7 DEF vars
  <2> QED
    BY <2>1, <2>2, <2>3, <2>4, <2>5, <2>6, <2>7 DEF Next, SenderStep
<1> QED
  BY <1>1, <1>2, PTL DEF Spec

\* StopInv is an invariant.
LEMMA StopInvariant == Spec => []StopInv
<1>1. Init => StopInv
  BY DEF Init, StopInv
<1>2. TypeOK /\ StopInv /\ [Next]_vars => StopInv'
  <2> SUFFICES ASSUME TypeOK, StopInv, [Next]_vars
               PROVE  StopInv'
    OBVIOUS
  <2>0. TestEnd \in Nat
    BY SMT DEF TestEnd
  <2> USE <2>0 DEF TypeOK, StopInv
  <2>1. CASE LoopHead
    <3>1. reported' + interval_bytes' = packets_sent'
      BY <2>1 DEF LoopHead, ReportInterval
    <3>2. pc' = "wait" => overtime' = 0
      BY <2>1 DEF LoopHead, TestOver
    <3> QED
      BY <2>1, <3>1, <3>2 DEF LoopHead
  <2>2. CASE SendPacket
    <3>1. overtime' <= 1
      BY <2>2 DEF SendPacket
    <3>2. overtime' > 0 => interrupted' \/ now' >= TestEnd
      BY <2>2 DEF SendPacket
    <3> QED
      BY <2>2, <3>1, <3>2 DEF SendPacket
  <2>3. CASE SendFails
    BY <2>3 DEF SendFails
  <2>4. CASE ReportTrailing
    BY <2>4 DEF ReportTrailing, TrailingLeft
  <2>5. CASE Tick
    BY <2>5 DEF Tick
  <2>6. CASE CtrlC
    BY <2>6 DEF CtrlC
  <2>7. CASE UNCHANGED vars
    BY <2>7 DEF vars
  <2> QED
    BY <2>1, <2>2, <2>3, <2>4, <2>5, <2>6, <2>7 DEF Next, SenderStep
<1> QED
  BY <1>1, <1>2, PacedTypes, PTL DEF Spec

-----------------------------------------------------------------------------
(* The schedule *)

\* How quotient and remainder change from a number to the next.
LEMMA DivModNext ==
  ASSUME NEW n \in Nat \ {0}, NEW x \in Nat
  PROVE  /\ x \div n \in Nat /\ x % n \in 0..(n - 1)
         /\ x % n = n - 1 => /\ (x + 1) % n = 0
                             /\ (x + 1) \div n = (x \div n) + 1
         /\ x % n # n - 1 => /\ (x + 1) % n = (x % n) + 1
                             /\ (x + 1) \div n = x \div n
BY SMT

\* The number of scheduled packets grows by one with each packet, less the
\* unfinished burst where packet_id wraps.
LEMMA ScheduledNext ==
  ASSUME TypeOK, packets_sent' = packets_sent + 1
  PROVE  /\ Scheduled \in Int
         /\ packets_sent % IdMax # IdMax - 1 => Scheduled' = Scheduled + 1
         /\ packets_sent % IdMax = IdMax - 1
              => Scheduled' = Scheduled + 1 - (IdMax % BurstSize)
<1> DEFINE q == packets_sent \div IdMax
           q1 == (packets_sent + 1) \div IdMax
           left == IdMax % BurstSize
<1>1. packets_sent \in Nat
  BY DEF TypeOK
<1>2. left \in Nat
  BY BurstSizeType, DivModNext
<1>3. q \in Nat
  BY <1>1, DivModNext
<1>4. /\ packets_sent % IdMax = IdMax - 1 => q1 = q + 1
      /\ packets_sent % IdMax # IdMax - 1 => q1 = q
  BY <1>1, DivModNext
<1>5. Scheduled = packets_sent - q * left
  BY DEF Scheduled, WrapDrift
<1>6. Scheduled' = (packets_sent + 1) - q1 * left
  <2>1. BurstSize' = BurstSize
    BY DEF BurstSize
  <2>2. Scheduled' = packets_sent'
                      - (packets_sent' \div IdMax) * (IdMax % BurstSize')
    BY Zenon DEF Scheduled, WrapDrift
  <2> QED
    BY <2>1, <2>2, Zenon
<1> HIDE DEF q, q1, left
<1>7. (q + 1) * left = q * left + left /\ q * left \in Nat
  BY <1>2, <1>3, SMT
<1>8. CASE packets_sent % IdMax = IdMax - 1
  BY <1>1, <1>2, <1>4, <1>5, <1>6, <1>7, <1>8 DEF left
<1>9. CASE packets_sent % IdMax # IdMax - 1
  BY <1>1, <1>4, <1>5, <1>6, <1>7, <1>9
<1> QED
  BY <1>8, <1>9

\* A packet that keeps the sender in its loop keeps the schedule.
LEMMA SendKeepsSchedule ==
  ASSUME TypeOK, ScheduleInv, SendPacket, pc' = "loop"
  PROVE  ScheduleInv'
<1> DEFINE B == BurstSize
           G == IntervalTicks
           r == packet_id % B
           id == packet_id'
<1>1. /\ packets_sent \in Nat /\ packet_id \in 1..IdMax /\ next_send \in Nat
      /\ B \in Nat \ {0} /\ G \in Nat \ {0} /\ IdMax \in Nat \ {0}
  BY BurstSizeType DEF TypeOK
<1>2. /\ packet_id = (packets_sent % IdMax) + 1
      /\ (Scheduled + 1) * G = next_send + InBurst(packet_id) * G
  BY DEF ScheduleInv, SendPacket
<1>3. /\ packets_sent' = packets_sent + 1
      /\ id = IdAfter(packet_id)
      /\ next_send' = IF id % B = 0 THEN next_send + G * B ELSE next_send
  BY DEF SendPacket, Advance
<1>4. r \in 0..(B - 1) /\ Scheduled \in Int
  BY <1>1, <1>3, DivModNext, ScheduledNext
<1>5. id = IF packet_id = IdMax THEN 1 ELSE packet_id + 1
  BY <1>1, <1>3, SMT DEF IdAfter
<1>6. id = (packets_sent' % IdMax) + 1
  <2> DEFINE m == packets_sent % IdMax
             m1 == packets_sent' % IdMax
  <2>1. /\ m \in 0..(IdMax - 1)
        /\ m = IdMax - 1 => m1 = 0
        /\ m # IdMax - 1 => m1 = m + 1
    BY <1>1, <1>3, DivModNext
  <2>2. packet_id = m + 1
    BY <1>2
  <2> HIDE DEF m, m1, id
  <2>3. id = m1 + 1
    BY <1>1, <1>5, <2>1, <2>2
  <2> QED
    BY <2>3 DEF m1, id
<1>7. (Scheduled' + 1) * G = next_send' + InBurst(id) * G
  <2>1. CASE B = 1
    <3>1. \A k \in Nat : k % 1 = 0
      BY SMT
    <3>2. Scheduled' = Scheduled + 1
      BY <1>1, <1>3, <1>4, <2>1, <3>1, ScheduledNext
    <3>3. next_send' = next_send + G
      BY <1>1, <1>3, <1>5, <2>1, <3>1
    <3>4. InBurst(packet_id) = 1 /\ InBurst(id) = 1
      BY <2>1 DEF InBurst
    <3> QED
      BY <1>1, <1>2, <1>4, <3>2, <3>3, <3>4, SMT
  <2>2. CASE B # 1 /\ packet_id # IdMax
    <3>1. Scheduled' = Scheduled + 1
      BY <1>1, <1>2, <1>3, <2>2, ScheduledNext
    <3>2. (Scheduled' + 1) * G = next_send + r * G + G
      <4>1. InBurst(packet_id) = r
        BY <2>2 DEF InBurst
      <4> QED
        BY <1>1, <1>2, <1>4, <3>1, <4>1, SMT
    <3>3. InBurst(id) = id % B
      BY <2>2 DEF InBurst
    <3>4. /\ r = B - 1 => (packet_id + 1) % B = 0
          /\ r # B - 1 => (packet_id + 1) % B = r + 1
      <4>1. packet_id \in Nat /\ B \in Nat \ {0}
        BY <1>1
      <4> HIDE DEF B
      <4> QED
        BY <4>1, DivModNext
    <3>5. CASE r = B - 1
      <4>1. id % B = 0
        BY <1>5, <2>2, <3>4, <3>5, Zenon
      <4>2. next_send' = next_send + G * B /\ (id % B) * G = 0
        BY <1>1, <1>3, <4>1
      <4>3. r * G + G = G * B
        BY <1>1, <3>5, SMT
      <4> HIDE DEF r, id, B
      <4> QED
        BY <1>1, <1>4, <3>2, <3>3, <4>2, <4>3, SMT
    <3>6. CASE r # B - 1
      <4>1. id % B = r + 1
        BY <1>5, <2>2, <3>4, <3>6, Zenon
      <4>2. next_send' = next_send
        BY <1>1, <1>3, <1>4, <4>1
      <4>3. (id % B) * G = r * G + G
        BY <1>1, <1>4, <4>1, SMT
      <4> HIDE DEF r, id, B
      <4> QED
        BY <1>1, <1>4, <3>2, <3>3, <4>2, <4>3, SMT
    <3> QED
      BY <3>5, <3>6
  <2>3. CASE B # 1 /\ packet_id = IdMax
    <3>1. Scheduled' = Scheduled + 1 - r
      BY <1>1, <1>2, <1>3, <2>3, ScheduledNext
    <3>2. InBurst(packet_id) = r
      BY <2>3 DEF InBurst
    <3>3. (Scheduled' + 1) * G = next_send + G
      <4>1. \A a, k, g \in Int :
              ((a + 1 - k) + 1) * g = ((a + 1) * g + g) - k * g
        BY SMT
      <4>2. (Scheduled + 1) * G = next_send + r * G
        BY <1>2, <3>2
      <4>3. r * G \in Int /\ r \in Int
        BY <1>1, <1>4, SMT
      <4> HIDE DEF r
      <4>4. (Scheduled' + 1) * G = ((Scheduled + 1) * G + G) - r * G
        BY <1>1, <1>4, <3>1, <4>1, <4>3
      <4> QED
        BY <1>1, <4>2, <4>3, <4>4
    <3>4. id = 1 /\ id % B = 1
      BY <1>1, <1>5, <2>3, SMT
    <3>5. InBurst(id) = 1 /\ next_send' = next_send
      BY <1>3, <2>3, <3>4 DEF InBurst
    <3> QED
      BY <1>1, <3>3, <3>5
  <2> QED
    BY <2>1, <2>2, <2>3
<1> QED
  BY <1>6, <1>7 DEF ScheduleInv, InBurst, BurstSize

\* ScheduleInv is an invariant.
LEMMA ScheduleInvariant == Spec => []ScheduleInv
<1>1. Init => ScheduleInv
  <2> SUFFICES ASSUME Init
               PROVE  ScheduleInv
    OBVIOUS
  <2>1. packets_sent % IdMax = 0 /\ packets_sent \div IdMax = 0
    BY SMT DEF Init
  <2>2. Scheduled = 0
    <3>1. IdMax % BurstSize \in Nat
      BY BurstSizeType, DivModNext
    <3> QED
      BY <2>1, <3>1 DEF Scheduled, WrapDrift, Init
  <2>3. next_send = 0 /\ packet_id = 1
    BY DEF Init
  <2>4. InBurst(1) = 1
    BY BurstSizeType, SMT DEF InBurst
  <2> QED
    BY <2>1, <2>2, <2>3, <2>4 DEF ScheduleInv
<1>2. TypeOK /\ ScheduleInv /\ [Next]_vars => ScheduleInv'
  <2> SUFFICES ASSUME TypeOK, ScheduleInv, [Next]_vars
               PROVE  ScheduleInv'
    OBVIOUS
  <2>1. CASE SendPacket /\ pc' = "loop"
    BY <2>1, SendKeepsSchedule
  <2>2. CASE SendPacket /\ pc' # "loop"
    BY <2>2 DEF SendPacket, ScheduleInv
  <2>3. ASSUME UNCHANGED packetVars,
               pc' \in {"loop", "wait"} => pc \in {"loop", "wait"}
        PROVE  ScheduleInv'
    BY <2>3 DEF ScheduleInv, Scheduled, WrapDrift, InBurst, BurstSize
  <2>4. CASE LoopHead
    BY <2>3, <2>4 DEF LoopHead
  <2>5. CASE SendFails \/ ReportTrailing
    BY <2>3, <2>5 DEF SendFails, ReportTrailing
  <2>6. CASE Tick \/ CtrlC
    BY <2>3, <2>6 DEF Tick, CtrlC
  <2>7. CASE UNCHANGED vars
    BY <2>3, <2>7 DEF vars
  <2> QED
    BY <2>1, <2>2, <2>4, <2>5, <2>6, <2>7 DEF Next, SenderStep
<1> QED
  BY <1>1, <1>2, PacedTypes, PTL DEF Spec

\* What the wraps have added is a number of packets, and it is still nothing
\* as long as packet_id has not wrapped.
LEMMA WrapDriftType ==
  ASSUME TypeOK
  PROVE  /\ WrapDrift \in Nat
         /\ packets_sent < IdMax => WrapDrift = 0
<1>1. packets_sent \div IdMax \in Nat /\ IdMax % BurstSize \in Nat
  <2>1. packets_sent \in Nat
    BY DEF TypeOK
  <2>2. packets_sent \div IdMax \in Nat
    BY <2>1, DivModNext
  <2>3. IdMax % BurstSize \in Nat
    BY BurstSizeType, DivModNext
  <2> QED
    BY <2>2, <2>3
<1>2. packets_sent < IdMax => packets_sent \div IdMax = 0
  <2>1. \A p \in Nat, n \in Nat \ {0} : p < n => p \div n = 0
    BY SMT
  <2> QED
    BY <2>1 DEF TypeOK
<1>3. \A a, b \in Nat : a * b \in Nat /\ (a = 0 => a * b = 0)
  BY SMT
<1> QED
  BY <1>1, <1>2, <1>3 DEF WrapDrift

\* The send time keeps to the bit rate, to within one burst, but for the
\* packets that wraps of packet_id have added.
THEOREM RateIsKept == Spec => []ScheduleKeepsRate
<1>1. TypeOK /\ ScheduleInv => ScheduleKeepsRate
  <2> SUFFICES ASSUME TypeOK, ScheduleInv, pc \in {"loop", "wait"}
               PROVE  (packets_sent + 1 - WrapDrift) * IntervalTicks - next_send
                        \in 0..(IntervalTicks * BurstSize)
    BY DEF ScheduleKeepsRate
  <2> DEFINE b == InBurst(packet_id)
             due == (Scheduled + 1) * IntervalTicks
             ahead == b * IntervalTicks
  <2>1. b \in Nat /\ b <= BurstSize
    <3>1. packet_id % BurstSize \in 0..(BurstSize - 1)
      BY BurstSizeType, DivModNext DEF TypeOK
    <3> QED
      BY BurstSizeType, <3>1 DEF InBurst
  <2>2. due = next_send + ahead
    BY DEF ScheduleInv
  <2>3. packets_sent + 1 - WrapDrift = Scheduled + 1
    BY WrapDriftType DEF Scheduled, TypeOK
  <2> HIDE DEF b
  <2>4. ahead \in Nat
    BY <2>1, SMT
  <2>5. ahead <= IntervalTicks * BurstSize
    BY <2>1, BurstSizeType, SMT
  <2> HIDE DEF ahead
  <2>6. due - next_send \in 0..(IntervalTicks * BurstSize)
    BY <2>2, <2>4, <2>5, GapType DEF TypeOK
  <2> QED
    BY <2>3, <2>6
<1> QED
  BY <1>1, PacedTypes, ScheduleInvariant, PTL

\* What is left of RateIsBounded without the packets that wraps have added.
ScheduleIsBounded ==
  Scheduled * IntervalTicks <= now + IntervalTicks * BurstSize

LEMMA ScheduleBounded == Spec => []ScheduleIsBounded
<1>1. Init => ScheduleIsBounded
  <2> SUFFICES ASSUME Init
               PROVE  ScheduleIsBounded
    OBVIOUS
  <2>1. packets_sent \div IdMax = 0 /\ packets_sent = 0
    BY SMT DEF Init
  <2>2. IdMax % BurstSize \in Nat
    BY BurstSizeType, DivModNext
  <2>3. Scheduled = 0
    BY <2>1, <2>2 DEF Scheduled, WrapDrift
  <2> QED
    BY <2>3, GapType DEF ScheduleIsBounded, Init
<1>2. TypeOK /\ ScheduleKeepsRate /\ ScheduleIsBounded /\ [Next]_vars
        => ScheduleIsBounded'
  <2> SUFFICES ASSUME TypeOK, ScheduleKeepsRate, ScheduleIsBounded,
                      [Next]_vars
               PROVE  ScheduleIsBounded'
    OBVIOUS
  <2>1. now \in Int
    BY DEF TypeOK
  <2>0. Scheduled \in Int
    BY WrapDriftType DEF Scheduled, TypeOK
  <2>2. CASE SendPacket
    <3>1. packets_sent' = packets_sent + 1 /\ now' = now /\ now >= next_send
      BY <2>2 DEF SendPacket, WaitOver
    <3>2. IdMax % BurstSize \in Nat
      BY BurstSizeType, DivModNext
    <3>3. Scheduled' \in Int /\ Scheduled' <= Scheduled + 1
      BY <2>0, <3>1, <3>2, ScheduledNext
    <3> DEFINE due == (Scheduled + 1) * IntervalTicks
    <3>4. due - next_send <= IntervalTicks * BurstSize
      <4>1. packets_sent + 1 - WrapDrift = Scheduled + 1
        BY WrapDriftType DEF Scheduled, TypeOK
      <4> QED
        BY <2>2, <4>1, GapType DEF SendPacket, ScheduleKeepsRate
    <3>5. /\ Scheduled' * IntervalTicks <= due
          /\ Scheduled' * IntervalTicks \in Int /\ due \in Int
      BY <2>0, <3>3, SMT
    <3> HIDE DEF due
    <3>6. Scheduled' * IntervalTicks <= now + IntervalTicks * BurstSize
      BY <2>1, <3>1, <3>4, <3>5, GapType DEF TypeOK
    <3> QED
      BY <3>1, <3>6 DEF ScheduleIsBounded, BurstSize
  <2>3. ASSUME packets_sent' = packets_sent, now' \in Int, now' >= now
        PROVE  ScheduleIsBounded'
    <3>1. Scheduled' = Scheduled
      BY <2>3, Zenon DEF Scheduled, WrapDrift, BurstSize
    <3> DEFINE due == Scheduled * IntervalTicks
               gap == IntervalTicks * BurstSize
    <3>2. due <= now + gap
      BY DEF ScheduleIsBounded
    <3>3. due \in Int /\ gap \in Int
      BY <2>0, GapType, SMT
    <3>4. due <= now' + gap
      <4>1. \A a, g, t, u \in Int : a <= t + g /\ u >= t => a <= u + g
        BY SMT
      <4>2. now' \in Int /\ now' >= now
        BY <2>3
      <4> HIDE DEF due, gap
      <4> QED
        BY <2>1, <3>2, <3>3, <4>1, <4>2, Zenon
    <3> QED
      BY <3>1, <3>4, Zenon DEF ScheduleIsBounded, BurstSize
  <2>4. CASE Tick
    BY <2>1, <2>3, <2>4 DEF Tick
  <2>5. CASE LoopHead \/ SendFails \/ ReportTrailing \/ CtrlC
    BY <2>1, <2>3, <2>5 DEF LoopHead, SendFails, ReportTrailing, CtrlC
  <2>6. CASE UNCHANGED vars
    BY <2>1, <2>3, <2>6 DEF vars
  <2> QED
    BY <2>2, <2>4, <2>5, <2>6 DEF Next, SenderStep
<1> QED
  BY <1>1, <1>2, PacedTypes, RateIsKept, PTL DEF Spec

\* What was sent is never ahead of the bit rate by more than one burst and the
\* packets that wraps of packet_id have added.
THEOREM RateBounded == Spec => []RateIsBounded
<1>1. TypeOK /\ ScheduleIsBounded => RateIsBounded
  <2> SUFFICES ASSUME TypeOK, ScheduleIsBounded
               PROVE  packets_sent * IntervalTicks
                        <= now + IntervalTicks * (BurstSize + WrapDrift)
    BY DEF RateIsBounded
  <2>1. packets_sent \in Int /\ WrapDrift \in Int /\ now \in Int
    BY WrapDriftType DEF TypeOK
  <2>2. \A p, w, n, i, s \in Int :
          (p - w) * i <= n + i * s => p * i <= n + i * (s + w)
    BY SMT
  <2>3. (packets_sent - WrapDrift) * IntervalTicks
          <= now + IntervalTicks * BurstSize
    BY DEF ScheduleIsBounded, Scheduled
  <2> QED
    BY <2>1, <2>2, <2>3, BurstSizeType
<1>2. Spec => []ScheduleIsBounded
  BY ScheduleBounded
<1> QED
  BY <1>1, <1>2, PacedTypes, PTL

\* Until packet_id wraps, what was sent is never ahead of the bit rate by more
\* than one burst.
THEOREM RateBoundedInFirstRound ==
  Spec => [](packets_sent < IdMax =>
               packets_sent * IntervalTicks <= now + IntervalTicks * BurstSize)
<1>1. TypeOK /\ RateIsBounded =>
        (packets_sent < IdMax =>
           packets_sent * IntervalTicks <= now + IntervalTicks * BurstSize)
  <2> SUFFICES ASSUME TypeOK, RateIsBounded, packets_sent < IdMax
               PROVE  packets_sent * IntervalTicks
                        <= now + IntervalTicks * BurstSize
    OBVIOUS
  <2>1. WrapDrift = 0 /\ BurstSize + 0 = BurstSize
    BY WrapDriftType, BurstSizeType
  <2> QED
    BY <2>1 DEF RateIsBounded
<1> QED
  BY <1>1, PacedTypes, RateBounded, PTL

-----------------------------------------------------------------------------

\* The reported intervals add up to the bytes sent, however the test ends.
THEOREM IntervalsComplete == Spec => []IntervalsSumUp
<1>1. TypeOK /\ StopInv => IntervalsSumUp
  BY DEF TypeOK, StopInv, IntervalsSumUp
<1> QED
  BY <1>1, PacedTypes, StopInvariant, PTL

\* Ctrl+C and the end of the test let at most one more packet go.
THEOREM StopsInTime == Spec => []OnePacketAfterStop
<1>1. StopInv => OnePacketAfterStop
  BY DEF StopInv, OnePacketAfterStop
<1> QED
  BY <1>1, StopInvariant, PTL

\* The printed start of an interval is never ahead of its real start.
THEOREM LabelsBehindClock == Spec => []LabelsNotAhead
<1> DEFINE Inv == LabelsNotAhead /\ prev_interval_time <= now
           len == IntervalSec * Second
<1>1. len \in Nat
  BY SMT
<1>3. \A n \in Nat : /\ n * IntervalSec * Second = n * len
                     /\ (n + 1) * IntervalSec * Second = n * len + len
                     /\ n * len \in Nat
  BY SMT
<1>4. Init => Inv
  BY DEF Init, LabelsNotAhead
<1>5. TypeOK /\ Inv /\ [Next]_vars => Inv'
  <2> SUFFICES ASSUME TypeOK, Inv, [Next]_vars
               PROVE  Inv'
    OBVIOUS
  <2> USE DEF TypeOK
  <2>1. ASSUME UNCHANGED <<interval_num, prev_interval_time>>,
               now' \in Int, now' >= now
        PROVE  Inv'
    BY <2>1 DEF LabelsNotAhead
  <2>2. CASE LoopHead
    <3>1. CASE UNCHANGED intervalVars
      BY <2>1, <2>2, <3>1 DEF LoopHead
    <3>2. CASE ~UNCHANGED intervalVars
      <4>1. /\ (now - prev_interval_time) \div Second >= IntervalSec
            /\ interval_num' = interval_num + 1
            /\ prev_interval_time' = now
            /\ now' = now
        BY <2>2, <3>2 DEF LoopHead, ReportInterval
      <4>2. \A e, i \in Nat : e \div Second >= i => i * Second <= e
        BY SMT
      <4>3. now - prev_interval_time \in Nat
        OBVIOUS
      <4>4. prev_interval_time + len <= now
        BY <1>1, <4>1, <4>2, <4>3
      <4>5. interval_num * len <= prev_interval_time
        BY <1>3 DEF LabelsNotAhead
      <4>6. interval_num * len + len <= now
        <5> HIDE DEF len
        <5> QED
          BY <1>1, <1>3, <4>4, <4>5
      <4>7. interval_num' * IntervalSec * Second <= prev_interval_time'
        BY <1>3, <4>1, <4>6
      <4> QED
        BY <4>1, <4>7 DEF LabelsNotAhead
    <3> QED
      BY <3>1, <3>2
  <2>3. CASE SendPacket \/ SendFails \/ ReportTrailing
    BY <2>1, <2>3 DEF SendPacket, SendFails, ReportTrailing
  <2>4. CASE Tick \/ CtrlC
    BY <2>1, <2>4 DEF Tick, CtrlC
  <2>5. CASE UNCHANGED vars
    BY <2>1, <2>5 DEF vars
  <2> QED
    BY <2>2, <2>3, <2>4, <2>5 DEF Next, SenderStep
<1> QED
  BY <1>4, <1>5, PacedTypes, PTL DEF Spec

\* The time stamp of a packet is at most one burst gap older than the time the
\* packet was due.
THEOREM StampsAreRecent == Spec => []StampIsRecent
<1> DEFINE gap == IntervalTicks * BurstSize
<1>0. gap \in Nat
  BY GapType
<1>1. Init => StampInv
  BY <1>0 DEF Init, StampInv, StampIsRecent
<1>2. TypeOK /\ StampInv /\ [Next]_vars => StampInv'
  <2> SUFFICES ASSUME TypeOK, StampInv, [Next]_vars
               PROVE  StampInv'
    OBVIOUS
  <2>0. /\ {now, next_send, stamp, last.stamp, last.due} \subseteq Int
        /\ BurstSize' = BurstSize
    BY DEF TypeOK, BurstSize
  <2>1. CASE LoopHead
    BY <2>0, <2>1, <1>0 DEF LoopHead, packetVars, StampInv, StampIsRecent
  <2>2. CASE SendPacket
    <3>1. next_send' <= now' + gap
      BY <2>0, <2>2, <1>0 DEF SendPacket, WaitOver, Advance
    <3>2. last' = [stamp |-> stamp, due |-> next_send] /\ pc' # "wait"
      BY <2>2 DEF SendPacket
    <3> QED
      BY <2>0, <2>2, <3>1, <3>2 DEF SendPacket, StampInv, StampIsRecent
  <2>3. CASE SendFails \/ ReportTrailing
    BY <2>0, <2>3 DEF SendFails, ReportTrailing, packetVars, StampInv,
                      StampIsRecent
  <2>4. CASE Tick \/ CtrlC
    BY <2>0, <2>4, <1>0 DEF Tick, CtrlC, packetVars, StampInv, StampIsRecent
  <2>5. CASE UNCHANGED vars
    BY <2>0, <2>5 DEF vars, packetVars, StampInv, StampIsRecent
  <2> QED
    BY <2>1, <2>2, <2>3, <2>4, <2>5 DEF Next, SenderStep
<1>3. StampInv => StampIsRecent
  BY DEF StampInv
<1> QED
  BY <1>1, <1>2, <1>3, PacedTypes, PTL DEF Spec
=============================================================================
