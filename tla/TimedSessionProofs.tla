------------------------- MODULE TimedSessionProofs -------------------------
(***************************************************************************)
(* What TLAPS proves about TimedSession for every timeout, duration and    *)
(* latency.                                                                *)
(***************************************************************************)
EXTENDS TimedSession, FiniteSetTheorems, TLAPS

USE DEF worldVars, serverVars, senderVars, receiverVars, flagVars

\* When the server wakes, against the deadline of the test.
ServerInv ==
  /\ server # "listen" => now <= server_wake
  /\ server = "receive" => server_wake <= deadline + Idle
  /\ server = "await_ack" =>
       server_wake <= deadline + Idle + (attempt + 1) * AckWait

\* When the sender's threads wake, against the end of the test.
SenderInv ==
  /\ leave_by <= TestEnd + Lag
  /\ sender = "loop" => now <= leave_by
  /\ sender # "loop" => stop_at <= TestEnd + Lag /\ stop_at <= now
  /\ sender = "wait" =>
       /\ now <= sender_wake
       /\ sender_wake <= TestEnd + Lag + (finish_try + 1) * FinishWait

\* When the receiver wakes, against the first of the flags.
ReceiverInv ==
  /\ ~Flags => stop_at = Never
  /\ receiver = "select" =>
       /\ now <= receiver_wake
       /\ receiver_wake <= now + SelectWait
       /\ receiver_wake <= stop_at + SelectWait

\* What has happened before a datagram is sent: a flag was set before a
\* Finish, and a latency passed since then before a Result.
CausalInv ==
  /\ \A m \in flight : m.type = "FINISH" => stop_at <= m.sent
  /\ NoWrap /\ GraceIsEnough =>
       /\ server = "receive" =>
            TestEnd + Graces * Second + latency <= deadline
       /\ server = "await_ack" => stop_at + latency <= now
       /\ \A m \in flight : m.type = "RESULT" => stop_at + latency <= m.sent
       /\ result_received => 2 * latency <= SelectWait

\* The Finish datagrams in flight, and how many were ever sent.
Finishes == {m \in flight : m.type = "FINISH"}

SentTries == IF sender = "loop" THEN 0 ELSE finish_try + 1

\* The server has still to end the test.
Pending == server = "receive" \/ \E m \in flight : m.type = "START"

\* What is in flight: the Start, and each Finish attempt, with their copies,
\* from its time on for as long as a datagram may take.
FlightInv ==
  /\ IsFiniteSet(flight)
  /\ \A m \in flight :
       /\ m.type = "START" => m.sent = 0
       /\ m.type # "RESULT" => now <= m.sent + MaxDelay
       /\ m.type = "FINISH" =>
            /\ sender # "loop" /\ m.try <= finish_try
            /\ m.sent <= TestEnd + Lag + m.try * FinishWait

\* The Start cannot come after the end of its test.
InTime == NoWrap /\ GraceIsEnough /\ ~StoppedEarly

\* Before the server has ended the test there is no Result.
PendingInv ==
  InTime /\ Pending =>
    /\ server # "await_ack" /\ ~result_received
    /\ \A m \in flight : m.type # "RESULT"

\* The sender leaves for one of its three reasons.
ExitInv ==
  sender = "exit" =>
    finish_try = FinishTries - 1 \/ interrupted \/ result_received

\* Each Finish attempt is under way or lost, as long as the server waits.
AttemptsInv ==
  InTime /\ Pending /\ ~interrupted /\ sender # "aborted"
    => SentTries <= lost + Cardinality(Finishes)

-----------------------------------------------------------------------------
(* Types *)

LEMMA ConstantsType ==
  /\ Second \in Nat \ {0} /\ Wrap \in Nat \ {0} /\ Idle \in Nat \ {0}
  /\ SelectWait \in Nat \ {0} /\ FinishWait \in Nat \ {0}
  /\ FinishTries \in Nat \ {0} /\ AckWait \in Nat \ {0}
  /\ AckTries \in Nat \ {0}
  /\ Graces \in Nat /\ Lag \in Nat /\ MaxDelay \in Nat /\ MaxLoss \in Nat
  /\ MaxDup \in Nat
  /\ MaxTime \in Nat
  /\ \A d \in Durations : d \in Nat \ {0} /\ d < Wrap
BY TimingAssumption DEF TimingAssumption

USE ConstantsType

\* The deadline of a test is a number of ticks, and when the sum does not wrap
\* it is the test and the grace.
LEMMA AllowedType ==
  ASSUME NEW d \in Durations
  PROVE  /\ Allowed(d) \in Nat /\ d * Second \in Nat
         /\ d + Graces < Wrap =>
              Allowed(d) = d * Second + Graces * Second /\ Allowed(d) > 0
<1>1. \A k \in Nat : k % Wrap \in Nat /\ (k < Wrap => k % Wrap = k)
  BY SMT
<1>2. \A k \in Nat : k * Second \in Nat /\ (k > 0 => k * Second > 0)
  BY SMT
<1>3. (d + Graces) * Second = d * Second + Graces * Second
  BY SMT
<1>4. d + Graces \in Nat /\ d \in Nat /\ d > 0
  OBVIOUS
<1> QED
  BY <1>1, <1>2, <1>3, <1>4 DEF Allowed

LEMMA EarlierType ==
  ASSUME NEW a \in Nat, NEW b \in Nat
  PROVE  Earlier(a, b) \in Nat /\ Earlier(a, b) <= a /\ Earlier(a, b) <= b
BY DEF Earlier

LEMMA MsgType ==
  ASSUME TypeOK, NEW type \in {"START", "FINISH", "RESULT"}, NEW i \in Nat
  PROVE  Msg(type, i) \in Datagrams(now)
BY DEF Msg, Datagrams, TypeOK

\* A copy has the type, the time and the attempt of its original.
LEMMA CopyType ==
  ASSUME TypeOK
  PROVE  \A m \in flight :
           /\ CopyOf(m) \in Datagrams(now)
           /\ CopyOf(m).type = m.type /\ CopyOf(m).sent = m.sent
           /\ CopyOf(m).try = m.try
BY DEF Datagrams, TypeOK, CopyOf

\* TimedSession keeps its types.
THEOREM TimedTypes == Spec => []TypeOK
<1>1. Init => TypeOK
  <2> SUFFICES ASSUME Init PROVE TypeOK
    OBVIOUS
  <2>1. leave_by \in Nat /\ flight \subseteq Datagrams(now)
    BY AllowedType DEF Init, TestEnd, Datagrams
  <2>2. stop_at \in Nat
    BY DEF Init, Never
  <2>3. receiver \in {"select", "exit"}
    BY DEF Init
  <2>4. /\ duration \in Durations /\ latency \in 0..MaxDelay
        /\ now \in 0..MaxTime /\ lost \in 0..MaxLoss /\ copied \in 0..MaxDup
        /\ attempt \in 0..(AckTries - 1) /\ finish_try \in 0..(FinishTries - 1)
        /\ deadline \in Nat /\ server_wake \in Nat /\ sender_wake \in Nat
        /\ receiver_wake \in Nat
    BY DEF Init
  <2> QED
    BY <2>1, <2>2, <2>3, <2>4 DEF Init, TypeOK
<1>2. TypeOK /\ [Next]_vars => TypeOK'
  <2> SUFFICES ASSUME TypeOK, [Next]_vars PROVE TypeOK'
    OBVIOUS
  <2> USE DEF TypeOK
  <2>1. CASE ServerStart \/ ServerOther
    <3>1. /\ deadline' \in Nat /\ now' = now
          /\ \E rest \in SUBSET flight, d \in Nat : Continue(rest, d)
      <4>1. CASE ServerOther
        BY <4>1 DEF ServerOther
      <4>2. CASE ServerStart
        <5>1. PICK m \in Arriving("START") :
                /\ deadline' = now + Allowed(duration)
                /\ Continue(flight \ {m}, deadline')
          BY <4>2 DEF ServerStart
        <5>2. deadline' \in Nat /\ flight \ {m} \in SUBSET flight
          BY <5>1, AllowedType
        <5> QED
          BY <4>2, <5>1, <5>2 DEF ServerStart
      <4> QED
        BY <2>1, <4>1, <4>2
    <3>2. PICK rest \in SUBSET flight, d \in Nat : Continue(rest, d)
      BY <3>1
    <3>3. /\ flight' \subseteq Datagrams(now)
          /\ server' \in {"receive", "await_ack"}
          /\ server_wake' \in Nat /\ attempt' \in 0..(AckTries - 1)
          /\ ended_by' \in {"none", "finish", "timeout"}
      BY <3>2, MsgType DEF Continue, SendResult
    <3> QED
      BY <2>1, <3>1, <3>3 DEF ServerStart, ServerOther
  <2>2. CASE ServerFinish
    <3>1. /\ flight' \subseteq Datagrams(now) /\ attempt' = 0
          /\ server' = "await_ack" /\ server_wake' \in Nat
      BY <2>2, MsgType DEF ServerFinish, SendResult, Arriving
    <3> QED
      BY <2>2, <3>1 DEF ServerFinish
  <2>3. CASE ServerAck \/ ServerDrop
    BY <2>3 DEF ServerAck, ServerDrop
  <2>4. CASE ServerAckTimeout
    <3>1. /\ flight' \subseteq Datagrams(now)
          /\ attempt' \in 0..(AckTries - 1)
          /\ server' \in {"listen", "await_ack"} /\ server_wake' \in Nat
      BY <2>4, MsgType
         DEF ServerAckTimeout, SendResult, LastAckWait
    <3> QED
      BY <2>4, <3>1 DEF ServerAckTimeout
  <2>5. CASE SenderLeaves \/ SenderAgain
    <3>1. PICK i \in 0..FinishTries : FinishLoop(i)
      BY <2>5 DEF SenderLeaves, SenderAgain
    <3>2. /\ flight' \subseteq Datagrams(now) /\ test_completed' = TRUE
          /\ sender' \in {"wait", "exit", "aborted"} /\ sender_wake' \in Nat
          /\ receiver' \in {"select", "exit"}
          /\ finish_try' \in 0..(FinishTries - 1)
      BY <3>1, MsgType DEF FinishLoop, NoMoreFinish
    <3>3. stop_at' \in Nat
      BY <2>5 DEF SenderLeaves, SenderAgain, Earlier
    <3> QED
      BY <2>5, <3>2, <3>3 DEF SenderLeaves, SenderAgain
  <2>6. CASE ReceiverLooks
    BY <2>6 DEF ReceiverLooks
  <2>7. CASE ReceiverRecv
    BY <2>7, EarlierType DEF ReceiverRecv
  <2>8. CASE ClientCtrlC
    BY <2>8 DEF ClientCtrlC, Earlier
  <2>9. CASE Lose
    <3>1. lost' \in 0..MaxLoss /\ flight' \subseteq flight
      BY <2>9 DEF Lose
    <3> QED
      BY <2>9, <3>1 DEF Lose
  <2>10. CASE Tick
    <3>1. now' \in 0..MaxTime /\ Datagrams(now) \subseteq Datagrams(now')
      BY <2>10 DEF Tick, Datagrams
    <3> QED
      BY <2>10, <3>1 DEF Tick
  <2>11. CASE Duplicate
    <3>1. copied' \in 0..MaxDup /\ flight' \subseteq Datagrams(now)
      BY <2>11, CopyType DEF Duplicate
    <3> QED
      BY <2>11, <3>1 DEF Duplicate
  <2>12. CASE UNCHANGED vars
    BY <2>12 DEF vars
  <2> QED
    BY <2>1, <2>2, <2>3, <2>4, <2>5, <2>6, <2>7, <2>8, <2>9, <2>10, <2>11,
       <2>12 DEF Next
<1> QED
  BY <1>1, <1>2, PTL DEF Spec

-----------------------------------------------------------------------------
(* The server *)

\* ServerInv is an invariant.
LEMMA ServerInvariant == Spec => []ServerInv
<1>1. Init => ServerInv
  BY DEF Init, ServerInv
<1>2. TypeOK /\ ServerInv /\ [Next]_vars => ServerInv'
  <2> SUFFICES ASSUME TypeOK, ServerInv, [Next]_vars PROVE ServerInv'
    OBVIOUS
  <2> USE DEF TypeOK, ServerInv
  <2>1. ASSUME NEW rest, NEW d \in Nat, Continue(rest, d), deadline' = d,
               now <= d + Idle, now' = now
        PROVE  ServerInv'
    BY <2>1 DEF Continue, SendResult, Overdue
  <2>2. CASE ServerStart
    <3>1. PICK m \in Arriving("START") :
            /\ deadline' = now + Allowed(duration)
            /\ Continue(flight \ {m}, deadline')
      BY <2>2 DEF ServerStart
    <3>2. Allowed(duration) \in Nat
      BY AllowedType
    <3> QED
      BY <2>1, <2>2, <3>1, <3>2 DEF ServerStart
  <2>3. CASE ServerOther
    BY <2>1, <2>3 DEF ServerOther
  <2>4. CASE ServerFinish
    <3>1. now <= deadline + Idle
      BY <2>4 DEF ServerFinish
    <3> QED
      BY <2>4, <3>1 DEF ServerFinish, SendResult
  <2>5. CASE ServerAck \/ ServerDrop
    BY <2>5 DEF ServerAck, ServerDrop
  <2>6. CASE ServerAckTimeout
    <3>1. now <= deadline + Idle + (attempt + 1) * AckWait
      BY <2>6, SMT DEF ServerAckTimeout
    <3>2. (attempt + 1 + 1) * AckWait = (attempt + 1) * AckWait + AckWait
      BY SMT
    <3>3. (attempt + 1) * AckWait \in Nat
      BY SMT
    <3>4. CASE LastAckWait
      BY <2>6, <3>4 DEF ServerAckTimeout
    <3>5. CASE ~LastAckWait
      <4>1. /\ server' = "await_ack" /\ server_wake' = now + AckWait
            /\ attempt' = attempt + 1 /\ now' = now /\ deadline' = deadline
        BY <2>6, <3>5 DEF ServerAckTimeout, SendResult
      <4> DEFINE waits == (attempt + 1) * AckWait
      <4>2. (attempt' + 1) * AckWait = waits + AckWait
        BY <3>2, <4>1
      <4>3. waits \in Nat /\ now <= deadline + Idle + waits
        BY <3>1, <3>3
      <4> HIDE DEF waits
      <4> QED
        BY <4>1, <4>2, <4>3
    <3> QED
      BY <3>4, <3>5
  <2>7. CASE SenderLeaves \/ SenderAgain
    BY <2>7 DEF SenderLeaves, SenderAgain
  <2>8. CASE ReceiverLooks \/ ReceiverRecv
    BY <2>8 DEF ReceiverLooks, ReceiverRecv
  <2>9. CASE ClientCtrlC \/ Lose \/ Duplicate
    BY <2>9 DEF ClientCtrlC, Lose, Duplicate
  <2>10. CASE Tick
    BY <2>10 DEF Tick, Quiet
  <2>11. CASE UNCHANGED vars
    BY <2>11 DEF vars
  <2> QED
    BY <2>2, <2>3, <2>4, <2>5, <2>6, <2>7, <2>8, <2>9, <2>10, <2>11 DEF Next
<1> QED
  BY <1>1, <1>2, TimedTypes, PTL DEF Spec

\* No client keeps the server longer than its deadline, one idle timeout and
\* the ACK waits.
THEOREM BusyBounded == Spec => []ServerBusyBound
<1>1. TypeOK /\ ServerInv => ServerBusyBound
  <2> SUFFICES ASSUME TypeOK, ServerInv, server # "listen"
               PROVE  now <= deadline + Idle + AckTries * AckWait
    BY DEF ServerBusyBound
  <2> USE DEF TypeOK
  <2>1. AckTries * AckWait \in Nat /\ (attempt + 1) * AckWait \in Nat
    BY SMT
  <2>2. (attempt + 1) * AckWait <= AckTries * AckWait
    <3>1. \A a, b, k \in Nat : a <= b => a * k <= b * k
      BY SMT
    <3>2. attempt + 1 <= AckTries /\ attempt + 1 \in Nat
      OBVIOUS
    <3> QED
      BY <3>1, <3>2
  <2>3. CASE server = "receive"
    BY <2>1, <2>3 DEF ServerInv
  <2>4. CASE server = "await_ack"
    <3> DEFINE waits == (attempt + 1) * AckWait
    <3>1. now <= deadline + Idle + waits
      BY <2>4 DEF ServerInv
    <3> HIDE DEF waits
    <3> QED
      BY <2>1, <2>2, <3>1 DEF waits
  <2> QED
    BY <2>3, <2>4
<1> QED
  BY <1>1, TimedTypes, ServerInvariant, PTL

-----------------------------------------------------------------------------
(* The client *)

\* SenderInv is an invariant.
LEMMA SenderInvariant == Spec => []SenderInv
<1>1. Init => SenderInv
  BY AllowedType DEF Init, SenderInv, TestEnd
<1>2. TypeOK /\ SenderInv /\ [Next]_vars => SenderInv'
  <2> SUFFICES ASSUME TypeOK, SenderInv, [Next]_vars PROVE SenderInv'
    OBVIOUS
  <2> USE DEF TypeOK, SenderInv
  <2>1. TestEnd \in Nat /\ (duration' = duration => TestEnd' = TestEnd)
    BY AllowedType DEF TestEnd
  <2>2. \A i \in Nat : i * FinishWait \in Nat
                       /\ (i + 1) * FinishWait = i * FinishWait + FinishWait
    BY SMT
  <2>3. CASE SenderLeaves
    <3>1. /\ stop_at' <= stop_at /\ stop_at' <= now
          /\ leave_by' = leave_by /\ duration' = duration /\ now' = now
      BY <2>3 DEF SenderLeaves, Earlier
    <3>2. now <= leave_by
      BY <2>3 DEF SenderLeaves
    <3>3. \/ sender' \in {"exit", "aborted"}
          \/ /\ sender' = "wait" /\ sender_wake' = now + FinishWait
             /\ finish_try' = 0
      BY <2>3 DEF SenderLeaves, FinishLoop
    <3>4. stop_at' \in Nat
      BY <2>3 DEF SenderLeaves, Earlier
    <3> QED
      BY <2>1, <2>2, <3>1, <3>2, <3>3, <3>4
  <2>4. CASE SenderAgain
    <3>1. UNCHANGED <<leave_by, stop_at, duration, now>>
      BY <2>4 DEF SenderAgain
    <3>2. CASE sender' \in {"exit", "aborted"}
      BY <2>1, <2>4, <3>1, <3>2 DEF SenderAgain
    <3>3. CASE sender' \notin {"exit", "aborted"}
      <4>1. /\ sender = "wait" /\ sender' = "wait" /\ ~result_received
            /\ now >= sender_wake /\ sender_wake' = now + FinishWait
            /\ finish_try' = finish_try + 1
        BY <2>4, <3>3 DEF SenderAgain, FinishLoop, NoMoreFinish
      <4> DEFINE waits == (finish_try + 1) * FinishWait
      <4>2. waits \in Nat /\ (finish_try' + 1) * FinishWait = waits + FinishWait
        <5>1. finish_try + 1 \in Nat
          OBVIOUS
        <5> QED
          BY <2>2, <4>1, <5>1
      <4>3. now <= TestEnd + Lag + waits
        BY <2>1, <4>1, <4>2
      <4> HIDE DEF waits
      <4> QED
        BY <2>1, <3>1, <4>1, <4>2, <4>3
    <3> QED
      BY <3>2, <3>3
  <2>5. CASE ClientCtrlC
    BY <2>1, <2>5 DEF ClientCtrlC, Earlier
  <2>6. CASE ReceiverRecv
    <3>1. stop_at' <= stop_at
      BY <2>6 DEF ReceiverRecv, Earlier
    <3>2. stop_at' \in Nat
      BY <2>6 DEF ReceiverRecv, Earlier
    <3> QED
      BY <2>1, <2>6, <3>1, <3>2 DEF ReceiverRecv
  <2>7. CASE Tick
    BY <2>1, <2>7 DEF Tick, Quiet
  <2>8. ASSUME UNCHANGED <<now, duration, senderVars, stop_at>>
        PROVE  SenderInv'
    BY <2>1, <2>8
  <2>9. CASE ServerStart \/ ServerOther \/ ServerFinish
    BY <2>8, <2>9 DEF ServerStart, ServerOther, ServerFinish
  <2>10. CASE ServerAck \/ ServerAckTimeout \/ ServerDrop
    BY <2>8, <2>10 DEF ServerAck, ServerAckTimeout, ServerDrop
  <2>11. CASE ReceiverLooks \/ Lose \/ Duplicate \/ UNCHANGED vars
    BY <2>8, <2>11 DEF ReceiverLooks, Lose, Duplicate, vars
  <2> QED
    BY <2>3, <2>4, <2>5, <2>6, <2>7, <2>9, <2>10, <2>11 DEF Next
<1> QED
  BY <1>1, <1>2, TimedTypes, PTL DEF Spec

\* ReceiverInv is an invariant.
LEMMA ReceiverInvariant == Spec => []ReceiverInv
<1>1. Init => ReceiverInv
  BY DEF Init, ReceiverInv, Never, Flags
<1>2. TypeOK /\ ReceiverInv /\ [Next]_vars => ReceiverInv'
  <2> SUFFICES ASSUME TypeOK, ReceiverInv, [Next]_vars PROVE ReceiverInv'
    OBVIOUS
  <2> USE DEF TypeOK, ReceiverInv
  <2>1. Never' = Never
    BY DEF Never
  <2>2. CASE SenderLeaves
    <3>1. test_completed' = TRUE /\ receiver' \in {receiver, "exit"}
      BY <2>2 DEF SenderLeaves, FinishLoop
    <3> QED
      BY <2>2, <3>1 DEF SenderLeaves, Flags, Earlier
  <2>3. CASE SenderAgain
    <3>1. test_completed' = TRUE /\ receiver' \in {receiver, "exit"}
      BY <2>3 DEF SenderAgain, FinishLoop
    <3> QED
      BY <2>3, <3>1 DEF SenderAgain, Flags
  <2>4. CASE ReceiverLooks
    <3>1. CASE receiver' = "select"
      <4>1. ~Flags /\ receiver_wake' = now + SelectWait
        BY <2>4, <3>1 DEF ReceiverLooks
      <4>2. stop_at = Never /\ Never \in Nat /\ now <= Never
        BY <4>1 DEF Never
      <4> QED
        BY <2>4, <4>1, <4>2 DEF ReceiverLooks
    <3>2. CASE receiver' # "select"
      BY <2>1, <2>4, <3>2 DEF ReceiverLooks, Flags
    <3> QED
      BY <3>1, <3>2
  <2>5. CASE ReceiverRecv
    BY <2>5 DEF ReceiverRecv, Flags
  <2>6. CASE ClientCtrlC
    BY <2>6 DEF ClientCtrlC, Flags, Earlier
  <2>7. CASE Tick
    BY <2>1, <2>7 DEF Tick, Quiet, Flags
  <2>8. ASSUME UNCHANGED <<now, receiverVars, flagVars>>
        PROVE  ReceiverInv'
    BY <2>1, <2>8 DEF Flags
  <2>9. CASE ServerStart \/ ServerOther \/ ServerFinish
    BY <2>8, <2>9 DEF ServerStart, ServerOther, ServerFinish
  <2>10. CASE ServerAck \/ ServerAckTimeout \/ ServerDrop
    BY <2>8, <2>10 DEF ServerAck, ServerAckTimeout, ServerDrop
  <2>11. CASE Lose \/ Duplicate \/ UNCHANGED vars
    BY <2>8, <2>11 DEF Lose, Duplicate, vars
  <2> QED
    BY <2>2, <2>3, <2>4, <2>5, <2>6, <2>7, <2>9, <2>10, <2>11 DEF Next
<1> QED
  BY <1>1, <1>2, TimedTypes, PTL DEF Spec

\* The receiver leaves within one select() of the flag that ends it.
THEOREM ReceiverExits == Spec => []ReceiverExitsPromptly
<1>1. TypeOK /\ ReceiverInv => ReceiverExitsPromptly
  BY DEF TypeOK, ReceiverInv, ReceiverExitsPromptly
<1> QED
  BY <1>1, TimedTypes, ReceiverInvariant, PTL

\* A sender that is not done is within the test time, the longest wait for its
\* last packet and the waits of its Finish attempts.
LEMMA SenderTime ==
  ASSUME TypeOK, SenderInv, AtWork
  PROVE  now <= TestEnd + Lag + FinishTries * FinishWait
<1> USE DEF TypeOK
<1> DEFINE all == FinishTries * FinishWait
           waits == (finish_try + 1) * FinishWait
<1>1. TestEnd \in Nat /\ all \in Nat /\ waits \in Nat
  <2>1. \A a, b \in Nat : a * b \in Nat
    BY SMT
  <2> QED
    BY <2>1, AllowedType DEF TestEnd
<1>2. waits <= all
  <2>1. \A a, b, k \in Nat : a <= b => a * k <= b * k
    BY SMT
  <2>2. finish_try + 1 <= FinishTries /\ finish_try + 1 \in Nat
    OBVIOUS
  <2> QED
    BY <2>1, <2>2
<1> HIDE DEF all
<1>3. now <= TestEnd + Lag + all
  <2>1. CASE sender = "loop"
    BY <1>1, <2>1 DEF SenderInv
  <2>2. CASE sender = "wait"
    <3>1. now <= TestEnd + Lag + waits
      BY <1>1, <2>2 DEF SenderInv
    <3> HIDE DEF waits
    <3> QED
      BY <1>1, <1>2, <3>1
  <2> QED
    BY <2>1, <2>2 DEF AtWork
<1> QED
  BY <1>3, Zenon DEF all

\* run_client() returns within the pacing lag, the Finish attempts and one
\* select() of the end of its test, whatever the server and the network do.
THEOREM ClientReturns == Spec => []ClientEndsInTime
<1>1. TypeOK /\ SenderInv /\ ReceiverInv => ClientEndsInTime
  <2> SUFFICES ASSUME TypeOK, SenderInv, ReceiverInv,
                      AtWork \/ receiver # "exit"
               PROVE  now <= TestEnd + Lag + FinishTries * FinishWait
                               + SelectWait
    BY DEF ClientEndsInTime
  <2> USE DEF TypeOK
  <2> DEFINE all == FinishTries * FinishWait
  <2>1. TestEnd \in Nat /\ all \in Nat
    <3>1. \A a, b \in Nat : a * b \in Nat
      BY SMT
    <3> QED
      BY <3>1, AllowedType DEF TestEnd
  <2>2. CASE AtWork
    <3>1. now <= TestEnd + Lag + all
      BY <2>2, SenderTime
    <3> HIDE DEF all
    <3>2. now <= TestEnd + Lag + all + SelectWait
      BY <2>1, <3>1
    <3> QED
      BY <3>2, Zenon DEF all
  <2>3. CASE ~AtWork
    <3>1. now <= stop_at + SelectWait /\ stop_at <= TestEnd + Lag
      BY <2>3 DEF SenderInv, ReceiverInv, AtWork
    <3> HIDE DEF all
    <3>2. now <= TestEnd + Lag + all + SelectWait
      BY <2>1, <3>1
    <3> QED
      BY <3>2, Zenon DEF all
  <2> QED
    BY <2>2, <2>3
<1> QED
  BY <1>1, TimedTypes, SenderInvariant, ReceiverInvariant, PTL

-----------------------------------------------------------------------------
(* What a Result says of the link *)

TimingInv == TypeOK /\ ServerInv /\ SenderInv /\ ReceiverInv

LEMMA TimingInvariant == Spec => []TimingInv
BY TimedTypes, ServerInvariant, SenderInvariant, ReceiverInvariant, PTL
   DEF TimingInv

\* When the deadline of a test has passed, the flag that ends its receiver was
\* set at least a latency ago.
LEMMA DeadlineIsLate ==
  ASSUME TypeOK, SenderInv, CausalInv, NoWrap, GraceIsEnough,
         server = "receive", deadline <= now
  PROVE  stop_at + latency <= now
<1> USE DEF TypeOK
<1>1. Lag < Graces * Second
  <2>1. \A a, b \in Nat : a * b \in Nat
    BY SMT
  <2>2. (FinishTries - 1) * FinishWait \in Nat /\ Graces * Second \in Nat
    BY <2>1
  <2> QED
    BY <2>2 DEF GraceIsEnough
<1> DEFINE grace == Graces * Second
<1>2. TestEnd \in Nat /\ grace \in Nat
  <2>1. \A a, b \in Nat : a * b \in Nat
    BY SMT
  <2> QED
    BY <2>1 DEF TestEnd
<1>3. TestEnd + grace + latency <= now
  BY <1>2 DEF CausalInv
<1> HIDE DEF grace
<1>4. Lag < grace
  BY <1>1 DEF grace
<1>5. sender # "loop"
  BY <1>2, <1>3, <1>4 DEF SenderInv
<1>6. stop_at <= TestEnd + Lag
  BY <1>5 DEF SenderInv
<1> QED
  BY <1>2, <1>3, <1>4, <1>6

\* CausalInv is an invariant.
LEMMA CausalInvariant == Spec => []CausalInv
<1>1. Init => CausalInv
  BY DEF Init, CausalInv
<1>2. TimingInv /\ CausalInv /\ [Next]_vars => CausalInv'
  <2> SUFFICES ASSUME TimingInv, CausalInv, [Next]_vars PROVE CausalInv'
    OBVIOUS
  <2> USE DEF TimingInv, TypeOK, CausalInv
  <2>1. duration' = duration /\ latency' = latency /\ latency \in Nat
    BY DEF Next, ServerStart, ServerOther, ServerFinish, ServerAck,
           ServerAckTimeout, ServerDrop, SenderLeaves, SenderAgain,
           ReceiverLooks, ReceiverRecv, ClientCtrlC, Lose, Duplicate, Tick, vars
  <2>2. UNCHANGED <<NoWrap, GraceIsEnough, TestEnd>>
    BY <2>1 DEF NoWrap, GraceIsEnough, TestEnd
  <2>3. stop_at' <= stop_at /\ stop_at' \in Nat
    BY DEF Next, ServerStart, ServerOther, ServerFinish, ServerAck,
           ServerAckTimeout, ServerDrop, SenderLeaves, SenderAgain, Earlier,
           ReceiverLooks, ReceiverRecv, ClientCtrlC, Lose, Duplicate, Tick, vars
  <2>4. \A m \in flight : m.type \in {"START", "FINISH", "RESULT"}
                          /\ m.sent \in Nat
    BY DEF Datagrams
  \* Nothing is sent: what is said of the rest still holds.
  <2>5. ASSUME flight' \subseteq flight, now' \in Nat, now <= now',
               server' = "listen" \/ UNCHANGED <<server, deadline>>,
               result_received' = result_received
        PROVE  CausalInv'
    <3>1. \A m \in flight' : m.type = "FINISH" => stop_at' <= m.sent
      BY <2>3, <2>4, <2>5
    <3>2. ASSUME NoWrap, GraceIsEnough
          PROVE  /\ server' = "await_ack" => stop_at' + latency <= now'
                 /\ \A m \in flight' :
                      m.type = "RESULT" => stop_at' + latency <= m.sent
      BY <2>1, <2>3, <2>4, <2>5, <3>2
    <3> QED
      BY <2>1, <2>2, <2>5, <3>1, <3>2
  \* The server sends a Result.
  <2>6. ASSUME NEW rest \in SUBSET flight, NEW i \in Nat, SendResult(rest, i),
               UNCHANGED <<now, stop_at, result_received>>,
               NoWrap /\ GraceIsEnough => stop_at + latency <= now
        PROVE  CausalInv'
    <3>1. /\ flight' = rest \cup {Msg("RESULT", i)}
          /\ server' = "await_ack"
      BY <2>6 DEF SendResult
    <3>2. Msg("RESULT", i).type = "RESULT" /\ Msg("RESULT", i).sent = now
      BY DEF Msg
    <3> QED
      BY <2>1, <2>2, <2>4, <2>6, <3>1, <3>2
  \* The sender sends a Finish, or leaves.
  <2>7. ASSUME NEW i \in Nat, FinishLoop(i), stop_at' <= now,
               UNCHANGED <<now, server, deadline, result_received>>
        PROVE  CausalInv'
    <3>1. CASE flight' = flight
      BY <2>5, <2>7, <3>1
    <3>2. CASE flight' = flight \cup {Msg("FINISH", i)}
      <4>1. Msg("FINISH", i).type = "FINISH" /\ Msg("FINISH", i).sent = now
        BY DEF Msg
      <4>2. \A m \in flight' : m.type = "FINISH" => stop_at' <= m.sent
        BY <2>3, <2>4, <2>7, <3>2, <4>1
      <4>3. \A m \in flight' : m.type = "RESULT" => m \in flight
        BY <3>2, <4>1
      <4>4. NoWrap /\ GraceIsEnough =>
              /\ server = "await_ack" => stop_at' + latency <= now
              /\ \A m \in flight' :
                   m.type = "RESULT" => stop_at' + latency <= m.sent
        <5>1. ASSUME NEW m \in flight', m.type = "RESULT", NoWrap,
                     GraceIsEnough
              PROVE  stop_at' + latency <= m.sent
          <6>1. m \in flight /\ stop_at + latency <= m.sent
            BY <4>3, <5>1
          <6> QED
            BY <2>1, <2>3, <2>4, <6>1
        <5>2. ASSUME NoWrap, GraceIsEnough, server = "await_ack"
              PROVE  stop_at' + latency <= now
          <6>1. \A a, b, c, d \in Nat : a <= b /\ b + c <= d => a + c <= d
            OBVIOUS
          <6>2. stop_at + latency <= now /\ stop_at \in Nat /\ now \in Nat
            BY <5>2
          <6> QED
            BY <2>1, <2>3, <6>1, <6>2, Zenon
        <5> QED
          BY <5>1, <5>2, Zenon
      <4>5. UNCHANGED <<now, server, deadline, result_received, latency>>
        BY <2>1, <2>7
      <4> QED
        BY <2>2, <4>2, <4>4, <4>5
    <3> QED
      BY <2>7, <3>1, <3>2 DEF FinishLoop
  <2>8. CASE ServerStart
    <3>1. PICK m \in Arriving("START") :
            /\ deadline' = now + Allowed(duration)
            /\ Continue(flight \ {m}, deadline')
      BY <2>8 DEF ServerStart
    <3>2. m \in flight /\ latency <= now
      BY <2>1, <2>4, <3>1 DEF Arriving
    <3>3. UNCHANGED <<now, stop_at, result_received>>
      BY <2>8 DEF ServerStart
    <3> DEFINE grace == Graces * Second
    <3>4. TestEnd \in Nat /\ grace \in Nat /\ Allowed(duration) \in Nat
      <4>1. \A a, b \in Nat : a * b \in Nat
        BY SMT
      <4> QED
        BY <4>1, AllowedType DEF TestEnd
    <3>5. NoWrap => Allowed(duration) = TestEnd + grace /\ Allowed(duration) > 0
      BY AllowedType DEF NoWrap, TestEnd
    <3>6. CASE Overdue(deadline')
      <4>1. SendResult(flight \ {m}, 0) /\ ~NoWrap
        BY <3>1, <3>4, <3>5, <3>6 DEF Continue, Overdue
      <4> QED
        BY <2>6, <3>3, <4>1
    <3>7. CASE ~Overdue(deadline')
      <4>1. flight' = flight \ {m} /\ server' = "receive"
        BY <3>1, <3>7 DEF Continue
      <4>2. NoWrap => TestEnd + grace + latency <= deadline'
        <5> HIDE DEF grace
        <5> QED
          BY <3>1, <3>2, <3>4, <3>5
      <4> QED
        BY <2>1, <2>2, <2>3, <2>4, <3>3, <4>1, <4>2
    <3> QED
      BY <3>6, <3>7
  <2>9. CASE ServerOther
    <3>1. /\ deadline' = deadline /\ server = "receive"
          /\ UNCHANGED <<now, stop_at, result_received>>
      BY <2>9 DEF ServerOther
    <3> PICK rest \in SUBSET flight : Continue(rest, deadline)
      BY <2>9 DEF ServerOther
    <3>2. CASE Overdue(deadline)
      <4>1. NoWrap /\ GraceIsEnough => stop_at + latency <= now
        BY <3>1, <3>2, DeadlineIsLate DEF Overdue
      <4>2. SendResult(rest, 0)
        BY <3>1, <3>2 DEF Continue
      <4> QED
        BY <2>6, <3>1, <4>1, <4>2
    <3>3. CASE ~Overdue(deadline)
      <4>1. flight' = rest /\ server' = server
        BY <3>1, <3>3 DEF Continue
      <4> QED
        BY <2>5, <3>1, <4>1
    <3> QED
      BY <3>2, <3>3
  <2>10. CASE ServerFinish
    <3>1. PICK m \in Arriving("FINISH") : SendResult(flight \ {m}, 0)
      BY <2>10 DEF ServerFinish
    <3>2. m \in flight /\ m.type = "FINISH" /\ m.sent + latency <= now
      BY <2>1, <2>4, <3>1 DEF Arriving
    <3>3. stop_at + latency <= now
      BY <2>1, <2>4, <3>2
    <3> QED
      BY <2>6, <2>10, <3>1, <3>3 DEF ServerFinish
  <2>11. CASE ServerAckTimeout
    <3>1. CASE server' = "listen"
      <4>1. flight' = flight /\ UNCHANGED <<now, result_received>>
        BY <2>11, <3>1 DEF ServerAckTimeout, SendResult
      <4> QED
        BY <2>5, <3>1, <4>1
    <3>2. CASE server' # "listen"
      <4>1. /\ SendResult(flight, attempt + 1) /\ server = "await_ack"
            /\ UNCHANGED <<now, stop_at, result_received>>
        BY <2>11, <3>2 DEF ServerAckTimeout
      <4> QED
        BY <2>6, <4>1
    <3> QED
      BY <3>1, <3>2
  <2>12. CASE ServerAck \/ ServerDrop
    BY <2>5, <2>12 DEF ServerAck, ServerDrop
  <2>13. CASE SenderLeaves
    <3>1. stop_at' <= now
      BY <2>13 DEF SenderLeaves, Earlier
    <3> QED
      BY <2>7, <2>13, <3>1 DEF SenderLeaves
  <2>14. CASE SenderAgain
    <3>1. stop_at' <= now /\ FinishLoop(finish_try + 1) /\ finish_try + 1 \in Nat
      BY <2>14 DEF SenderAgain, SenderInv
    <3> QED
      BY <2>7, <2>14, <3>1 DEF SenderAgain
  <2>15. CASE ReceiverRecv
    <3>1. PICK m \in Arriving("RESULT") : flight' = flight \ {m}
      BY <2>15 DEF ReceiverRecv
    <3>2. m \in flight /\ m.type = "RESULT" /\ m.sent + latency <= now
      BY <2>1, <2>4, <3>1 DEF Arriving
    <3>3. now <= stop_at + SelectWait
      BY <2>15 DEF ReceiverRecv, ReceiverInv
    <3>4. NoWrap /\ GraceIsEnough => 2 * latency <= SelectWait
      BY <2>1, <2>4, <3>2, <3>3
    <3>5. UNCHANGED <<now, server, deadline>>
      BY <2>15 DEF ReceiverRecv
    <3>6. /\ \A k \in flight' : k.type = "FINISH" => stop_at' <= k.sent
          /\ NoWrap /\ GraceIsEnough =>
               /\ server = "await_ack" => stop_at' + latency <= now
               /\ \A k \in flight' :
                    k.type = "RESULT" => stop_at' + latency <= k.sent
      BY <2>1, <2>3, <2>4, <3>1
    <3> QED
      BY <2>1, <2>2, <3>4, <3>5, <3>6
  <2>16. CASE ReceiverLooks \/ ClientCtrlC
    BY <2>5, <2>16 DEF ReceiverLooks, ClientCtrlC
  <2>17. CASE Lose
    BY <2>5, <2>17 DEF Lose
  <2>18. CASE Tick
    BY <2>5, <2>18 DEF Tick
  <2>19. CASE Duplicate
    <3>1. PICK m \in flight : flight' = flight \cup {CopyOf(m)}
      BY <2>19 DEF Duplicate
    <3>2. \A k \in flight' : \E l \in flight : l.type = k.type /\ l.sent = k.sent
      BY <3>1, CopyType
    <3>3. UNCHANGED <<now, stop_at, server, deadline, result_received>>
      BY <2>19 DEF Duplicate
    <3> QED
      BY <2>1, <2>2, <3>2, <3>3
  <2>20. CASE UNCHANGED vars
    BY <2>5, <2>20 DEF vars
  <2> QED
    BY <2>8, <2>9, <2>10, <2>11, <2>12, <2>13, <2>14, <2>15, <2>16, <2>17,
       <2>18, <2>19, <2>20 DEF Next
<1> QED
  BY <1>1, <1>2, TimingInvariant, PTL DEF Spec

\* Whatever the timeouts and the network: the server's numbers only reach a
\* client whose round trip is shorter than its select().
THEOREM ShortLink == Spec => []ResultNeedsShortLink
<1>1. CausalInv => ResultNeedsShortLink
  BY DEF CausalInv, ResultNeedsShortLink
<1> QED
  BY <1>1, CausalInvariant, PTL

-----------------------------------------------------------------------------
(* What a timeout says of the client *)

\* What no step changes, and what only moves in one direction.
LEMMA WorldStep ==
  ASSUME TypeOK, [Next]_vars
  PROVE  /\ duration' = duration /\ latency' = latency
         /\ stop_at' <= stop_at /\ lost <= lost' /\ now <= now'
         /\ interrupted => interrupted'
<1> USE DEF TypeOK
<1>1. CASE ServerStart \/ ServerOther \/ ServerFinish \/ ServerAck
             \/ ServerAckTimeout \/ ServerDrop
  BY <1>1 DEF ServerStart, ServerOther, ServerFinish, ServerAck,
              ServerAckTimeout, ServerDrop
<1>2. CASE SenderLeaves \/ SenderAgain
  BY <1>2 DEF SenderLeaves, SenderAgain, Earlier
<1>3. CASE ReceiverLooks \/ ReceiverRecv \/ ClientCtrlC
  BY <1>3 DEF ReceiverLooks, ReceiverRecv, ClientCtrlC, Earlier
<1>4. CASE Lose \/ Duplicate \/ Tick \/ UNCHANGED vars
  BY <1>4 DEF Lose, Duplicate, Tick, vars
<1> QED
  BY <1>1, <1>2, <1>3, <1>4 DEF Next

\* The ways a step changes what is in flight.
LEMMA Traffic ==
  ASSUME TypeOK, [Next]_vars
  PROVE  \/ flight' \subseteq flight
         \/ /\ server' = "await_ack"
            /\ \E rest \in SUBSET flight, i \in Nat :
                 flight' = rest \cup {Msg("RESULT", i)}
         \/ /\ SenderLeaves \/ SenderAgain
            /\ sender' = "wait"
            /\ flight' = flight \cup {Msg("FINISH", finish_try')}
         \/ /\ Duplicate
            /\ \E m \in flight :
                 flight' = flight \cup {CopyOf(m)}
<1> USE DEF TypeOK
<1>1. ASSUME NEW rest \in SUBSET flight, NEW d, Continue(rest, d)
      PROVE  \/ flight' \subseteq flight
             \/ /\ server' = "await_ack"
                /\ flight' = rest \cup {Msg("RESULT", 0)}
  BY <1>1 DEF Continue, SendResult
<1>2. CASE ServerStart
  <2>1. PICK m \in Arriving("START") : Continue(flight \ {m}, deadline')
    BY <1>2 DEF ServerStart
  <2> QED
    BY <1>1, <2>1
<1>3. CASE ServerOther
  <2>1. PICK rest \in SUBSET flight : Continue(rest, deadline)
    BY <1>3 DEF ServerOther
  <2> QED
    BY <1>1, <2>1
<1>4. CASE ServerFinish
  BY <1>4 DEF ServerFinish, SendResult
<1>5. CASE ServerAck \/ ServerDrop
  BY <1>5 DEF ServerAck, ServerDrop
<1>6. CASE ServerAckTimeout
  BY <1>6 DEF ServerAckTimeout, SendResult
<1>7. CASE SenderLeaves
  BY <1>7 DEF SenderLeaves, FinishLoop
<1>8. CASE SenderAgain
  BY <1>8 DEF SenderAgain, FinishLoop
<1>9. CASE ReceiverLooks \/ ReceiverRecv \/ ClientCtrlC
  BY <1>9 DEF ReceiverLooks, ReceiverRecv, ClientCtrlC
<1>10. CASE Lose \/ Duplicate \/ Tick \/ UNCHANGED vars
  BY <1>10 DEF Lose, Duplicate, Tick, vars
<1> QED
  BY <1>2, <1>3, <1>4, <1>5, <1>6, <1>7, <1>8, <1>9, <1>10 DEF Next

\* A test that is still to be ended was so before.
LEMMA PendingStep ==
  ASSUME TypeOK, [Next]_vars, Pending'
  PROVE  Pending
<1>1. CASE \E m \in flight' : m.type = "START"
  <2>1. PICK m \in flight' : m.type = "START"
    BY <1>1
  <2>2. \A i : Msg("RESULT", i).type # "START" /\ Msg("FINISH", i).type # "START"
    BY DEF Msg
  <2>3. \E k \in flight : k.type = "START"
    BY <2>1, <2>2, CopyType, Traffic
  <2> QED
    BY <2>3 DEF Pending
<1>2. CASE server' = "receive" /\ server # "receive"
  <2>1. ServerStart
    BY <1>2 DEF Next, ServerOther, ServerFinish, SendResult, ServerAck,
       ServerAckTimeout, ServerDrop, SenderLeaves, SenderAgain, ReceiverLooks,
       ReceiverRecv, ClientCtrlC, Lose, Duplicate, Tick, vars
  <2> QED
    BY <2>1 DEF ServerStart, Arriving, Pending
<1> QED
  BY <1>1, <1>2 DEF Pending

\* The sender's clock at a new attempt.
LEMMA AttemptTime ==
  ASSUME TypeOK, SenderInv, SenderLeaves \/ SenderAgain, sender' = "wait"
  PROVE  /\ sender = "loop" => finish_try' = 0
         /\ sender = "wait" => finish_try' = finish_try + 1
         /\ sender \in {"loop", "wait"}
         /\ now <= TestEnd + Lag + finish_try' * FinishWait
<1> USE DEF TypeOK
<1>1. TestEnd \in Nat
  BY AllowedType DEF TestEnd
<1>2. CASE SenderLeaves
  <2>1. sender = "loop" /\ finish_try' = 0
    BY <1>2 DEF SenderLeaves, FinishLoop
  <2>2. now <= TestEnd + Lag /\ 0 * FinishWait = 0
    BY <1>1, <2>1 DEF SenderInv
  <2> QED
    BY <1>1, <2>1, <2>2
<1>3. CASE SenderAgain
  <2>1. /\ sender = "wait" /\ finish_try' = finish_try + 1
        /\ ~result_received
    BY <1>3 DEF SenderAgain, FinishLoop, NoMoreFinish
  <2> DEFINE waits == (finish_try + 1) * FinishWait
  <2>2. waits \in Nat
    BY SMT
  <2>3. now <= sender_wake /\ sender_wake <= TestEnd + Lag + waits
    BY <2>1 DEF SenderInv
  <2> HIDE DEF waits
  <2>4. now <= TestEnd + Lag + waits
    BY <1>1, <2>2, <2>3
  <2> QED
    BY <2>1, <2>4 DEF waits
<1> QED
  BY <1>2, <1>3

\* FlightInv is an invariant.
LEMMA FlightInvariant == Spec => []FlightInv
<1>1. Init => FlightInv
  <2> SUFFICES ASSUME Init PROVE FlightInv
    OBVIOUS
  <2> DEFINE start == [type |-> "START", try |-> 0, sent |-> 0, copy |-> 0]
  <2>1. flight = {start} /\ now = 0 /\ server = "listen"
    BY DEF Init
  <2>2. IsFiniteSet({start})
    BY FS_Singleton
  <2> QED
    BY <2>1, <2>2 DEF FlightInv
<1>2. TimingInv /\ FlightInv /\ [Next]_vars => FlightInv'
  <2> SUFFICES ASSUME TimingInv, FlightInv, [Next]_vars PROVE FlightInv'
    OBVIOUS
  <2> USE DEF TimingInv, TypeOK
  <2>1. duration' = duration /\ TestEnd' = TestEnd
    BY WorldStep DEF TestEnd
  <2>2. \A type, i : /\ Msg(type, i).type = type /\ Msg(type, i).sent = now
                     /\ Msg(type, i).try = i
    BY DEF Msg
  <2>3. IsFiniteSet(flight')
    <3>1. \A rest \in SUBSET flight : IsFiniteSet(rest)
      BY FS_Subset DEF FlightInv
    <3>2. \A rest \in SUBSET flight : \A m : IsFiniteSet(rest \cup {m})
      BY <3>1, FS_AddElement
    <3> QED
      BY <3>1, <3>2, Traffic
  <2>4. CASE Duplicate
    <3>1. PICK m \in flight : flight' = flight \cup {CopyOf(m)}
      BY <2>4 DEF Duplicate
    <3>2. \A k \in flight' : \E l \in flight :
            l.type = k.type /\ l.sent = k.sent /\ l.try = k.try
      BY <3>1, CopyType
    <3>3. UNCHANGED <<now, sender, finish_try>>
      BY <2>4 DEF Duplicate
    <3> QED
      BY <2>1, <2>3, <3>2, <3>3 DEF FlightInv
  <2>5. CASE ~Duplicate
    <3>1. ASSUME NEW m \in flight', m.type = "START"
          PROVE  m.sent = 0
      <4>1. m \in flight
        BY <2>2, <2>5, <3>1, Traffic
      <4> QED
        BY <3>1, <4>1 DEF FlightInv
    <3>2. ASSUME NEW m \in flight', m.type # "RESULT"
          PROVE  now' <= m.sent + MaxDelay
      <4>1. CASE m \in flight
        <5>1. m.sent \in Nat /\ now <= m.sent + MaxDelay
          BY <3>2, <4>1 DEF FlightInv, Datagrams
        <5>2. CASE Tick
          BY <3>2, <4>1, <5>1, <5>2 DEF Tick, Quiet
        <5>3. CASE ~Tick
          <6>1. now' = now
            BY <5>3 DEF Next, ServerStart, ServerOther, ServerFinish, ServerAck,
               ServerAckTimeout, ServerDrop, SenderLeaves, SenderAgain,
               ReceiverLooks, ReceiverRecv, ClientCtrlC, Lose, Duplicate, vars
          <6> QED
            BY <5>1, <6>1
        <5> QED
          BY <5>2, <5>3
      <4>2. CASE m \notin flight
        <5>1. m.sent = now /\ now' = now
          BY <2>2, <2>5, <3>2, <4>2, Traffic DEF SenderLeaves, SenderAgain
        <5> QED
          BY <5>1
      <4> QED
        BY <4>1, <4>2
    <3>3. ASSUME NEW m \in flight', m.type = "FINISH"
          PROVE  /\ sender' # "loop" /\ m.try <= finish_try'
                 /\ m.sent <= TestEnd + Lag + m.try * FinishWait
      <4>1. CASE m \in flight
        <5>1. /\ sender # "loop" /\ m.try <= finish_try /\ m.try \in Nat
              /\ m.sent <= TestEnd + Lag + m.try * FinishWait
          BY <3>3, <4>1 DEF FlightInv, Datagrams
        <5>2. /\ sender' # "loop"
              /\ finish_try' = finish_try \/ finish_try' = finish_try + 1
          BY <5>1 DEF Next, ServerStart, ServerOther, ServerFinish, ServerAck,
             ServerAckTimeout, ServerDrop, SenderLeaves, SenderAgain, FinishLoop,
             ReceiverLooks, ReceiverRecv, ClientCtrlC, Lose, Duplicate, Tick, vars
        <5> QED
          BY <5>1, <5>2
      <4>2. CASE m \notin flight
        <5>1. /\ SenderLeaves \/ SenderAgain
              /\ sender' = "wait" /\ m = Msg("FINISH", finish_try')
          BY <2>2, <2>5, <3>3, <4>2, Traffic
        <5>2. m.sent = now /\ m.try = finish_try'
          BY <2>2, <5>1
        <5>3. now <= TestEnd + Lag + finish_try' * FinishWait
          BY <5>1, AttemptTime
        <5>4. m.try <= finish_try'
          <6>1. finish_try' \in Nat
            BY <5>1, AttemptTime
          <6> QED
            BY <5>2, <6>1
        <5> QED
          BY <5>1, <5>2, <5>3, <5>4
      <4> QED
        BY <4>1, <4>2
    <3> QED
      BY <2>1, <2>3, <3>1, <3>2, <3>3 DEF FlightInv
  <2> QED
    BY <2>4, <2>5
<1> QED
  BY <1>1, <1>2, TimingInvariant, PTL DEF Spec

\* A Start in flight is no older than the longest delay, and the deadline of a
\* test is later than that.
LEMMA StartIsFirst ==
  ASSUME TimingInv, CausalInv, FlightInv, InTime,
         NEW m \in flight, m.type = "START"
  PROVE  /\ now < stop_at
         /\ server = "receive" => now < deadline
<1> USE DEF TimingInv, TypeOK
<1>1. now <= MaxDelay
  BY DEF FlightInv
<1> DEFINE grace == Graces * Second
           waits == (FinishTries - 1) * FinishWait
<1>2. TestEnd \in Nat /\ grace \in Nat /\ waits \in Nat
  <2>1. \A a, b \in Nat : a * b \in Nat
    BY SMT
  <2>2. FinishTries - 1 \in Nat
    OBVIOUS
  <2> QED
    BY <2>1, <2>2 DEF TestEnd
<1>3. Lag + waits + MaxDelay < grace
  BY DEF InTime, GraceIsEnough
<1>4. server = "receive" => TestEnd + grace + latency <= deadline
  BY DEF InTime, CausalInv
<1> HIDE DEF grace, waits
<1>5. server = "receive" => now < deadline
  BY <1>1, <1>2, <1>3, <1>4
<1> QED
  BY <1>1, <1>5 DEF InTime, StoppedEarly

\* The hypotheses of InTime do not come true late.
LEMMA InTimeStep ==
  ASSUME TypeOK, [Next]_vars, InTime'
  PROVE  InTime /\ stop_at' \in Nat
<1> USE DEF TypeOK
<1>1. stop_at' \in Nat
  BY DEF Next, ServerStart, ServerOther, ServerFinish, ServerAck,
         ServerAckTimeout, ServerDrop, SenderLeaves, SenderAgain, Earlier,
         ReceiverLooks, ReceiverRecv, ClientCtrlC, Lose, Duplicate, Tick, vars
<1> QED
  BY <1>1, WorldStep DEF InTime, NoWrap, GraceIsEnough, StoppedEarly

\* PendingInv is an invariant.
LEMMA PendingInvariant == Spec => []PendingInv
<1> DEFINE Known == TimingInv /\ CausalInv /\ FlightInv
<1>1. Init => PendingInv
  BY DEF Init, PendingInv
<1>2. Known /\ PendingInv /\ [Next]_vars => PendingInv'
  <2> SUFFICES ASSUME Known, PendingInv, [Next]_vars, InTime', Pending'
               PROVE  /\ server' # "await_ack" /\ ~result_received'
                      /\ \A m \in flight' : m.type # "RESULT"
    BY DEF PendingInv
  <2> USE DEF TimingInv, TypeOK
  <2>1. /\ InTime /\ Pending
        /\ server # "await_ack" /\ ~result_received
        /\ \A m \in flight : m.type # "RESULT"
    BY PendingStep, InTimeStep DEF PendingInv
  <2>2. ~result_received'
    BY <2>1 DEF Next, ServerStart, ServerOther, ServerFinish, ServerAck,
       ServerAckTimeout, ServerDrop, SenderLeaves, SenderAgain, ReceiverLooks,
       ReceiverRecv, Arriving, ClientCtrlC, Lose, Duplicate, Tick, vars
  <2>3. \A type, i : Msg(type, i).type = type
    BY DEF Msg
  \* The test cannot end now, with a Start still in flight.
  <2>4. CASE server' = "await_ack"
    <3>1. PICK m \in flight' : m.type = "START"
      BY <2>4 DEF Pending
    <3>2. CASE ServerStart
      <4>1. PICK k \in Arriving("START") :
              /\ deadline' = now + Allowed(duration)
              /\ Continue(flight \ {k}, deadline')
        BY <3>2 DEF ServerStart
      <4>2. Allowed(duration) \in Nat /\ Allowed(duration) > 0
        BY <2>1, AllowedType DEF InTime, NoWrap
      <4> QED
        BY <2>4, <4>1, <4>2 DEF Continue, Overdue
    <3>3. CASE ServerOther
      <4>1. PICK rest \in SUBSET flight : Continue(rest, deadline)
        BY <3>3 DEF ServerOther
      <4>2. server = "receive" /\ deadline <= now
            /\ flight' = rest \cup {Msg("RESULT", 0)}
        BY <2>4, <3>3, <4>1 DEF ServerOther, Continue, SendResult, Overdue
      <4>3. m \in flight
        BY <2>3, <3>1, <4>2
      <4> QED
        BY <2>1, <3>1, <4>2, <4>3, StartIsFirst
    <3>4. CASE ServerFinish
      <4>1. PICK k \in Arriving("FINISH") : SendResult(flight \ {k}, 0)
        BY <3>4 DEF ServerFinish
      <4>2. k \in flight /\ k.type = "FINISH" /\ k.sent \in 0..now
        BY <4>1 DEF Arriving, Datagrams
      <4>3. stop_at <= now
        BY <4>2 DEF CausalInv
      <4>4. m \in flight
        BY <2>3, <3>1, <4>1 DEF SendResult
      <4> QED
        BY <2>1, <3>1, <4>3, <4>4, StartIsFirst
    <3> QED
      BY <2>1, <2>4, <3>2, <3>3, <3>4
         DEF Next, ServerAck, ServerAckTimeout, ServerDrop, SenderLeaves,
             SenderAgain, ReceiverLooks, ReceiverRecv, ClientCtrlC, Lose,
             Duplicate, Tick, vars
  <2>5. \A m \in flight : CopyOf(m).type # "RESULT"
    BY <2>1, CopyType
  <2> QED
    BY <2>1, <2>2, <2>3, <2>4, <2>5, Traffic
<1> QED
  BY <1>1, <1>2, TimingInvariant, CausalInvariant, FlightInvariant, PTL
     DEF Spec

\* ExitInv is an invariant.
LEMMA ExitInvariant == Spec => []ExitInv
<1>1. Init => ExitInv
  BY DEF Init, ExitInv
<1>2. TypeOK /\ ExitInv /\ [Next]_vars => ExitInv'
  <2> SUFFICES ASSUME TypeOK, ExitInv, [Next]_vars PROVE ExitInv'
    OBVIOUS
  <2> USE DEF TypeOK, ExitInv
  <2>1. CASE SenderLeaves
    BY <2>1 DEF SenderLeaves, FinishLoop, NoMoreFinish
  <2>2. CASE SenderAgain
    BY <2>2 DEF SenderAgain, FinishLoop, NoMoreFinish
  <2>3. CASE ~SenderLeaves /\ ~SenderAgain
    BY <2>3 DEF Next, ServerStart, ServerOther, ServerFinish, ServerAck,
       ServerAckTimeout, ServerDrop, ReceiverLooks, ReceiverRecv, ClientCtrlC,
       Lose, Duplicate, Tick, vars
  <2> QED
    BY <2>1, <2>2, <2>3
<1> QED
  BY <1>1, <1>2, TimedTypes, PTL DEF Spec

\* Nothing but SenderLeaves and SenderAgain sends a Finish, and a Finish is
\* taken by the server or lost.
LEMMA FinishesKept ==
  ASSUME TypeOK, [Next]_vars, ~ServerFinish, ~ServerAck, ~ServerDrop,
         ~SenderLeaves, ~SenderAgain, ~Lose, ~Duplicate
  PROVE  Finishes' = Finishes /\ lost' = lost /\ SentTries' = SentTries
<1>1. lost' = lost /\ SentTries' = SentTries
  BY DEF Next, ServerStart, ServerOther, ServerAckTimeout, ReceiverLooks,
     ReceiverRecv, ClientCtrlC, Tick, vars, SentTries
<1>2. \A i : Msg("RESULT", i).type = "RESULT"
  BY DEF Msg
<1>3. ServerStart => Finishes' = Finishes
  <2> SUFFICES ASSUME ServerStart PROVE Finishes' = Finishes
    OBVIOUS
  <2>1. PICK k \in Arriving("START") : Continue(flight \ {k}, deadline')
    BY DEF ServerStart
  <2> QED
    BY <1>2, <2>1 DEF Continue, SendResult, Arriving, Finishes
<1>4. ServerOther => Finishes' = Finishes
  <2> SUFFICES ASSUME ServerOther PROVE Finishes' = Finishes
    OBVIOUS
  <2>1. PICK rest \in {flight} \cup {flight \ {m} : m \in Arriving("START")} :
          Continue(rest, deadline)
    BY DEF ServerOther
  <2>2. {m \in rest : m.type = "FINISH"} = Finishes
    BY <2>1 DEF Arriving, Finishes
  <2> QED
    BY <1>2, <2>1, <2>2 DEF Continue, SendResult, Finishes
<1>5. ServerAckTimeout => Finishes' = Finishes
  BY <1>2 DEF ServerAckTimeout, SendResult, Finishes
<1>6. ReceiverRecv => Finishes' = Finishes
  BY DEF ReceiverRecv, Arriving, Finishes
<1>7. UNCHANGED flight => Finishes' = Finishes
  BY DEF Finishes
<1> QED
  BY <1>1, <1>3, <1>4, <1>5, <1>6, <1>7
     DEF Next, ReceiverLooks, ClientCtrlC, Tick, vars

AllInv == TimingInv /\ CausalInv /\ FlightInv /\ PendingInv /\ ExitInv

LEMMA AllInvariant == Spec => []AllInv
BY TimingInvariant, CausalInvariant, FlightInvariant, PendingInvariant,
   ExitInvariant, PTL DEF AllInv

\* AttemptsInv is an invariant.
LEMMA AttemptsInvariant == Spec => []AttemptsInv
<1>1. Init => AttemptsInv
  <2> SUFFICES ASSUME Init PROVE 0 <= lost + Cardinality(Finishes)
    BY DEF Init, AttemptsInv, SentTries
  <2>1. Finishes = {} /\ lost = 0
    BY DEF Init, Finishes
  <2> QED
    BY <2>1, FS_EmptySet
<1>2. AllInv /\ AllInv' /\ AttemptsInv /\ [Next]_vars => AttemptsInv'
  <2> SUFFICES ASSUME AllInv, PendingInv', AttemptsInv, [Next]_vars, InTime',
                      Pending', ~interrupted', sender' # "aborted"
               PROVE  SentTries' <= lost' + Cardinality(Finishes)'
    BY DEF AttemptsInv, AllInv
  <2> USE DEF AllInv, TimingInv, TypeOK
  <2>1. sender # "aborted"
    BY DEF Next, ServerStart, ServerOther, ServerFinish, ServerAck,
           ServerAckTimeout, ServerDrop, SenderLeaves, SenderAgain,
           ReceiverLooks, ReceiverRecv, ClientCtrlC, Lose, Duplicate, Tick, vars
  <2>2. InTime /\ Pending /\ ~interrupted
    BY PendingStep, InTimeStep, WorldStep
  <2> DEFINE count == Cardinality(Finishes)
  <2>3. SentTries <= lost + count
    BY <2>1, <2>2 DEF AttemptsInv
  <2>4. IsFiniteSet(Finishes) /\ count \in Nat
    <3>1. IsFiniteSet(Finishes)
      BY FS_Subset DEF FlightInv, Finishes
    <3> QED
      BY <3>1, FS_CardinalityType
  <2>5. SentTries \in Nat
    BY DEF SentTries
  <2>6. CASE ServerFinish \/ ServerAck
    <3>1. server # "await_ack" /\ server' # "await_ack"
      BY <2>2 DEF PendingInv
    <3> QED
      BY <2>6, <3>1 DEF ServerFinish, ServerAck, SendResult
  <2>7. CASE ServerDrop
    <3>1. PICK m \in Arriving("FINISH") : flight' = flight \ {m}
      BY <2>7 DEF ServerDrop
    <3>2. PICK k \in flight : k.type = "START"
      BY <2>2, <2>7 DEF ServerDrop, Pending
    <3>3. m \in flight /\ m.type = "FINISH" /\ m.sent \in 0..now
      BY <3>1 DEF Arriving, Datagrams
    <3>4. stop_at <= m.sent
      BY <3>3 DEF CausalInv
    <3>5. now < stop_at
      BY <2>2, <3>2, StartIsFirst
    <3> QED
      BY <3>3, <3>4, <3>5
  <2>8. CASE SenderLeaves \/ SenderAgain
    <3>1. lost' = lost
      BY <2>8 DEF SenderLeaves, SenderAgain
    <3>2. CASE sender' = "exit"
      <4>1. sender = "wait"
        BY <2>2, <2>8, <3>2
           DEF SenderLeaves, SenderAgain, FinishLoop, NoMoreFinish, PendingInv
      <4>2. flight' = flight /\ finish_try' = finish_try
        BY <2>8, <3>2 DEF SenderLeaves, SenderAgain, FinishLoop
      <4>3. Finishes' = Finishes /\ SentTries' = SentTries
        BY <3>2, <4>1, <4>2 DEF Finishes, SentTries
      <4> QED
        BY <2>3, <3>1, <4>3
    <3>3. CASE sender' # "exit"
      <4> DEFINE new == Msg("FINISH", finish_try')
      <4>1. sender' = "wait" /\ flight' = flight \cup {new}
        BY <2>8, <3>3 DEF SenderLeaves, SenderAgain, FinishLoop
      <4>2. /\ sender = "loop" => finish_try' = 0
            /\ sender = "wait" => finish_try' = finish_try + 1
            /\ sender \in {"loop", "wait"}
        BY <2>8, <4>1, AttemptTime
      <4>3. SentTries' = SentTries + 1
        BY <4>1, <4>2 DEF SentTries
      <4>4. new.type = "FINISH" /\ new.try = finish_try'
        BY DEF Msg
      <4>5. new \notin Finishes
        BY <4>2, <4>4 DEF Finishes, FlightInv
      <4>6. Finishes' = Finishes \cup {new}
        BY <4>1, <4>4 DEF Finishes
      <4>7. Cardinality(Finishes') = count + 1
        BY <2>4, <4>5, <4>6, FS_AddElement
      <4> HIDE DEF count
      <4> QED
        BY <2>3, <2>4, <2>5, <3>1, <4>3, <4>7
    <3> QED
      BY <3>2, <3>3
  <2>9. CASE Lose
    <3>1. PICK m \in flight : flight' = flight \ {m}
      BY <2>9 DEF Lose
    <3>2. Finishes' = Finishes \ {m}
      BY <3>1 DEF Finishes
    <3>3. lost' = lost + 1 /\ SentTries' = SentTries
      BY <2>9 DEF Lose, SentTries
    <3>4. CASE m \in Finishes
      <4>1. Cardinality(Finishes') = count - 1
        BY <2>4, <3>2, <3>4, FS_RemoveElement
      <4> HIDE DEF count
      <4> QED
        BY <2>3, <2>4, <2>5, <3>3, <4>1
    <3>5. CASE m \notin Finishes
      <4>1. Finishes' = Finishes
        BY <3>2, <3>5
      <4> HIDE DEF count
      <4> QED
        BY <2>3, <2>4, <2>5, <3>3, <4>1 DEF count
    <3> QED
      BY <3>4, <3>5
  <2>10. CASE Duplicate
    <3>1. PICK m \in flight : flight' = flight \cup {CopyOf(m)}
      BY <2>10 DEF Duplicate
    <3> DEFINE new == CopyOf(m)
    <3>2. Finishes \subseteq Finishes' /\ Finishes' \subseteq Finishes \cup {new}
      BY <3>1 DEF Finishes
    <3>3. IsFiniteSet(Finishes')
      BY <2>4, <3>2, FS_AddElement, FS_Subset
    <3>4. count <= Cardinality(Finishes') /\ Cardinality(Finishes') \in Nat
      BY <3>2, <3>3, FS_Subset, FS_CardinalityType
    <3>5. lost' = lost /\ SentTries' = SentTries
      BY <2>10 DEF Duplicate, SentTries
    <3> HIDE DEF count
    <3> QED
      BY <2>3, <2>4, <2>5, <3>4, <3>5
  <2>11. CASE ~(ServerFinish \/ ServerAck \/ ServerDrop \/ SenderLeaves
                \/ SenderAgain \/ Lose \/ Duplicate)
    <3>1. Finishes' = Finishes /\ lost' = lost /\ SentTries' = SentTries
      BY <2>11, FinishesKept
    <3> QED
      BY <2>3, <3>1
  <2> QED
    BY <2>6, <2>7, <2>8, <2>9, <2>10, <2>11
<1> QED
  BY <1>1, <1>2, AllInvariant, PTL DEF Spec

\* When the deadline of a test has passed, its Finish attempts are over and
\* none of them is under way.
LEMMA DeadlineIsLast ==
  ASSUME AllInv, InTime, server = "receive", deadline <= now,
         ~interrupted, sender # "aborted"
  PROVE  SentTries = FinishTries /\ Finishes = {}
<1> USE DEF AllInv, TimingInv, TypeOK
<1> DEFINE grace == Graces * Second
           waits == (FinishTries - 1) * FinishWait
<1>1. \A a, b \in Nat : a * b \in Nat
  BY SMT
<1>2. \A a, b, k \in Nat : a <= b => a * k <= b * k
  BY SMT
<1>3. /\ TestEnd \in Nat /\ grace \in Nat /\ waits \in Nat
      /\ FinishTries - 1 \in Nat
  BY <1>1 DEF TestEnd
<1>4. TestEnd + grace + latency <= now /\ Lag + waits + MaxDelay < grace
  <2>1. TestEnd + grace + latency <= deadline
    BY DEF CausalInv, InTime
  <2>2. Lag + waits + MaxDelay < grace
    BY DEF GraceIsEnough, InTime
  <2> HIDE DEF grace, waits
  <2> QED
    BY <1>3, <2>1, <2>2
<1>5. \A i \in 0..(FinishTries - 1) :
        i * FinishWait \in Nat /\ i * FinishWait <= waits
  BY <1>1, <1>2, <1>3
<1> HIDE DEF grace, waits
<1>6. TestEnd + Lag + waits + MaxDelay < now
  BY <1>3, <1>4
<1>7. SentTries = FinishTries
  <2>1. CASE sender = "loop"
    <3>1. now <= TestEnd + Lag
      BY <1>3, <2>1 DEF SenderInv
    <3> QED
      BY <1>3, <1>6, <3>1
  <2>2. CASE sender = "wait"
    <3>1. CASE finish_try + 1 <= FinishTries - 1
      <4> DEFINE spent == (finish_try + 1) * FinishWait
      <4>1. finish_try + 1 \in 0..(FinishTries - 1)
        BY <3>1
      <4>2. spent \in Nat /\ spent <= waits
        BY <1>5, <4>1
      <4>3. now <= sender_wake /\ sender_wake <= TestEnd + Lag + spent
        BY <2>2 DEF SenderInv
      <4> HIDE DEF spent
      <4> QED
        BY <1>3, <1>6, <4>2, <4>3
    <3> QED
      BY <2>2, <3>1 DEF SentTries
  <2>3. CASE sender = "exit"
    <3>1. ~result_received
      BY DEF PendingInv, Pending
    <3> QED
      BY <2>3, <3>1 DEF ExitInv, SentTries
  <2> QED
    BY <2>1, <2>2, <2>3
<1>8. ASSUME NEW m \in Finishes PROVE FALSE
  <2> DEFINE spent == m.try * FinishWait
  <2>1. /\ m \in flight /\ m.type = "FINISH" /\ m.sent \in Nat /\ m.try \in Nat
    BY DEF Finishes, Datagrams
  <2>2. m.try <= finish_try /\ m.sent <= TestEnd + Lag + spent
        /\ now <= m.sent + MaxDelay
    BY <2>1 DEF FlightInv
  <2>3. spent \in Nat /\ spent <= waits
    <3>1. m.try \in 0..(FinishTries - 1)
      BY <2>1, <2>2
    <3> QED
      BY <1>5, <3>1
  <2> HIDE DEF spent
  <2> QED
    BY <1>3, <1>6, <2>1, <2>2, <2>3
<1> QED
  BY <1>7, <1>8

\* The server only speaks of a timeout when the client was interrupted or ended
\* by a throwing send_finish(), when as many datagrams were lost as it has Finish
\* attempts, when it gave up so early that the Start or a copy may have come after
\* the Finish, or when the sum of the deadline wrapped.
THEOREM TimeoutIsFault == Spec => []TimeoutNeedsFault
<1> DEFINE Inv == AllInv /\ AttemptsInv
<1>1. Init => TimeoutNeedsFault
  BY DEF Init, TimeoutNeedsFault
<1>2. Inv /\ TimeoutNeedsFault /\ [Next]_vars => TimeoutNeedsFault'
  <2> SUFFICES ASSUME AllInv, AttemptsInv, TimeoutNeedsFault, [Next]_vars,
                      ended_by' = "timeout", GraceIsEnough, NoWrap
               PROVE  \/ interrupted' \/ sender' = "aborted"
                      \/ lost' >= FinishTries
                      \/ StoppedEarly'
    BY WorldStep DEF AllInv, TimingInv, TimeoutNeedsFault, NoWrap, GraceIsEnough
  <2> USE DEF AllInv, TimingInv, TypeOK
  <2>1. /\ StoppedEarly => StoppedEarly'
        /\ interrupted => interrupted'
        /\ sender = "aborted" => sender' = "aborted"
        /\ lost >= FinishTries => lost' >= FinishTries
    <3>1. stop_at' \in Nat /\ lost' \in Nat
      BY DEF Next, ServerStart, ServerOther, ServerFinish, ServerAck,
             ServerAckTimeout, ServerDrop, SenderLeaves, SenderAgain, Earlier,
             ReceiverLooks, ReceiverRecv, ClientCtrlC, Lose, Duplicate, Tick,
             vars
    <3>2. sender = "aborted" => sender' = "aborted"
      BY DEF Next, ServerStart, ServerOther, ServerFinish, ServerAck,
             ServerAckTimeout, ServerDrop, SenderLeaves, SenderAgain,
             ReceiverLooks, ReceiverRecv, ClientCtrlC, Lose, Duplicate, Tick,
             vars
    <3> QED
      BY <3>1, <3>2, WorldStep DEF StoppedEarly
  <2>2. CASE ended_by = "timeout"
    BY <2>1, <2>2 DEF TimeoutNeedsFault
  <2>3. CASE ServerOther /\ Overdue(deadline)
    <3>1. server = "receive" /\ deadline <= now
      BY <2>3 DEF ServerOther, Overdue
    <3>2. CASE ~interrupted /\ sender # "aborted" /\ ~StoppedEarly
      <4>1. InTime /\ Pending
        BY <3>1, <3>2 DEF InTime, Pending
      <4>2. SentTries = FinishTries /\ Finishes = {}
        BY <3>1, <3>2, <4>1, DeadlineIsLast
      <4>3. FinishTries <= lost + Cardinality({})
        BY <3>2, <4>1, <4>2 DEF AttemptsInv
      <4> QED
        BY <2>1, <4>3, FS_EmptySet
    <3> QED
      BY <2>1, <3>2
  <2>4. CASE ServerStart /\ Overdue(deadline')
    <3>1. deadline' = now + Allowed(duration)
      BY <2>4 DEF ServerStart
    <3>2. Allowed(duration) \in Nat /\ Allowed(duration) > 0
      BY AllowedType DEF NoWrap
    <3> QED
      BY <2>4, <3>1, <3>2 DEF Overdue
  <2>5. \/ ended_by = "timeout"
        \/ ServerOther /\ Overdue(deadline)
        \/ ServerStart /\ Overdue(deadline')
    BY DEF Next, ServerStart, ServerOther, Continue, ServerFinish, ServerAck,
       ServerAckTimeout, ServerDrop, SenderLeaves, SenderAgain, ReceiverLooks,
       ReceiverRecv, ClientCtrlC, Lose, Duplicate, Tick, vars
  <2> QED
    BY <2>2, <2>3, <2>4, <2>5
<1> QED
  BY <1>1, <1>2, AllInvariant, AttemptsInvariant, PTL DEF Spec
-----------------------------------------------------------------------------
(* The deadlines of both sides and the sender *)

\* The grace covers the wait after the last attempt too.
GraceCoversWaits == Lag + FinishTries * FinishWait < Graces * Second

\* Neither the server's deadline (server_handler.cpp:101) nor the receiver's
\* (client_handler.cpp:215) passes while the sender is still at work: the
\* assumption that NbSystem calls Punctual follows from the timeouts.
DeadlinesOutlastSender ==
  NoWrap /\ GraceIsEnough /\ GraceCoversWaits /\ AtWork =>
    /\ server = "receive" => now < deadline
    /\ receiver = "select" => now < Allowed(duration)

\* For every setting of the timeouts whose grace covers the sender's last
\* packet and all its waits, no deadline passes while the sender is at work.
THEOREM Punctuality == Spec => []DeadlinesOutlastSender
<1>1. TimingInv /\ CausalInv => DeadlinesOutlastSender
  <2> SUFFICES ASSUME TimingInv, CausalInv, NoWrap, GraceIsEnough,
                      GraceCoversWaits, AtWork
               PROVE  /\ server = "receive" => now < deadline
                      /\ receiver = "select" => now < Allowed(duration)
    BY DEF DeadlinesOutlastSender
  <2> USE DEF TimingInv, TypeOK
  <2> DEFINE all == FinishTries * FinishWait
             grace == Graces * Second
  <2>1. TestEnd \in Nat /\ all \in Nat /\ grace \in Nat
    <3>1. \A a, b \in Nat : a * b \in Nat
      BY SMT
    <3> QED
      BY <3>1, AllowedType DEF TestEnd
  <2>2. now <= TestEnd + Lag + all
    BY SenderTime
  <2>3. Lag + all < grace
    BY DEF GraceCoversWaits
  <2>4. server = "receive" => TestEnd + grace + latency <= deadline
    BY DEF CausalInv
  <2>5. Allowed(duration) = TestEnd + grace
    BY AllowedType DEF NoWrap, TestEnd
  <2> HIDE DEF all, grace
  <2> QED
    BY <2>1, <2>2, <2>3, <2>4, <2>5
<1> QED
  BY <1>1, TimingInvariant, CausalInvariant, PTL
=============================================================================
