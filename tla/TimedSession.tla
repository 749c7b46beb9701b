---------------------------- MODULE TimedSession ----------------------------
(***************************************************************************)
(* One test in real time: the timeouts of the server, of the client's      *)
(* sender and of its receiver against each other.  NbSystem lets every     *)
(* timeout come whenever it likes; here it comes when its time is over, on *)
(* machines that never delay a thread: Tick waits for every step that is   *)
(* due.  A step may come earlier where the code allows it.                 *)
(*                                                                         *)
(* Data packets and what other clients send only matter because they wake  *)
(* the server (ServerOther) and end its wait for the ACK (ServerAck), so   *)
(* they come at any time and are not in flight.  Ctrl+C at the server, and *)
(* its idle loop before the Start, are in NbSystem.                        *)
(*                                                                         *)
(* server     listen, receive (in recv_from() of RECEIVING), await_ack     *)
(* sender     loop, wait (between two Finish attempts), exit; aborted when *)
(*            send_finish() threw, which ends the whole process            *)
(* receiver   select, exit                                                 *)
(***************************************************************************)
EXTENDS Integers, FiniteSets

CONSTANTS Second,       \* ticks per second
          Durations,    \* values of -t, in seconds
          Graces,       \* seconds added to it for the deadlines (5)
          Wrap,         \* 2^32: the sum is one of uint32_t
          Idle,         \* idle timeout, in ticks
          SelectWait,   \* the receiver's select() (100 ms)
          FinishWait,   \* between two Finish attempts (100 ms)
          FinishTries,  \* attempts (5)
          AckWait,      \* the server's wait for an ACK (200 ms)
          AckTries,     \* attempts (3)
          Lag,          \* longest wait of the pacer for the next packet
          MaxDelay,     \* the longest a datagram may take
          MaxLoss,      \* bound on the lost datagrams
          MaxDup,       \* bound on the copies the network makes
          MaxTime       \* bound on the clock

ASSUME TimingAssumption ==
  /\ {Second, Wrap, Idle, SelectWait, FinishWait, FinishTries, AckWait,
      AckTries} \subseteq Nat \ {0}
  /\ {Graces, Lag, MaxDelay, MaxLoss, MaxDup, MaxTime} \subseteq Nat
  /\ Durations \subseteq (1..(Wrap - 1))

VARIABLES now,
          duration,         \* cfg.duration_sec
          latency,          \* the least a datagram takes on this link
          flight,           \* datagrams in flight with the time they were sent
          lost, copied,     \* how many were lost, and duplicated
          server, deadline, server_wake, attempt, ended_by,
          sender, leave_by, sender_wake, finish_try,
          receiver, receiver_wake,
          test_completed, result_received,
          interrupted,      \* g_shutdown of the client
          stop_at           \* when the first of those three was set

worldVars    == <<duration, latency, lost, copied>>
serverVars   == <<server, deadline, server_wake, attempt, ended_by>>
senderVars   == <<sender, leave_by, sender_wake, finish_try>>
receiverVars == <<receiver, receiver_wake>>
flagVars     == <<test_completed, result_received, interrupted, stop_at>>
vars == <<now, worldVars, flight, serverVars, senderVars, receiverVars,
          flagVars>>

Msg(type, i) == [type |-> type, try |-> i, sent |-> now, copy |-> 0]

Never == MaxTime + SelectWait + 1

AllowedWithoutGrace(d) == d * Second

\* test_duration_sec + 5, in ticks.
Allowed(d) == ((d + Graces) % Wrap) * Second

TestEnd == duration * Second

\* send_start() has returned, both threads run.
Init ==
  /\ now = 0
  /\ duration \in Durations
  /\ latency \in 0..MaxDelay
  /\ flight = {[type |-> "START", try |-> 0, sent |-> 0, copy |-> 0]}
  /\ lost = 0 /\ copied = 0
  /\ server = "listen"
  /\ deadline = 0 /\ server_wake = 0 /\ attempt = 0 /\ ended_by = "none"
  /\ sender = "loop"
  /\ leave_by = TestEnd + Lag
  /\ sender_wake = 0 /\ finish_try = 0
  /\ receiver = IF Allowed(duration) > 0 THEN "select" ELSE "exit"
  /\ receiver_wake = SelectWait
  /\ test_completed = FALSE /\ result_received = FALSE /\ interrupted = FALSE
  /\ stop_at = Never

\* The datagrams of a type that may arrive now.
Arriving(type) ==
  {m \in flight : m.type = type /\ now >= m.sent + latency}

-----------------------------------------------------------------------------
(* The server *)

\* send_result(), its attempt i; rest is what else is in flight.
SendResult(rest, i) ==
  /\ flight' = rest \cup {Msg("RESULT", i)}
  /\ server' = "await_ack"
  /\ server_wake' = now + AckWait
  /\ attempt' = i

DeadlineForgotten(d) == FALSE

Overdue(d) == now >= d

\* The head of the RECEIVING loop, with the deadline d.
Continue(rest, d) ==
  \/ /\ Overdue(d)
     /\ ended_by' = "timeout"
     /\ SendResult(rest, 0)
  \/ /\ ~Overdue(d)
     /\ server' = "receive"
     /\ server_wake' = now + Idle
     /\ flight' = rest
     /\ UNCHANGED <<attempt, ended_by>>

\* A copy of the Start that comes when its test is over begins another one.
ServerStart ==
  /\ server = "listen"
  /\ \E m \in Arriving("START") :
       /\ deadline' = now + Allowed(duration)
       /\ Continue(flight \ {m}, deadline')
  /\ UNCHANGED <<now, worldVars, senderVars, receiverVars, flagVars>>

\* A data packet or a datagram of another client, or recv_from() timed out; or
\* a copy of the Start, which is dropped.
ServerOther ==
  /\ server = "receive"
  /\ \E rest \in {flight} \cup {flight \ {m} : m \in Arriving("START")} :
       Continue(rest, deadline)
  /\ UNCHANGED <<now, worldVars, deadline, senderVars, receiverVars, flagVars>>

ServerFinish ==
  /\ server = "receive"
  /\ \E m \in Arriving("FINISH") : SendResult(flight \ {m}, 0)
  /\ ended_by' = "finish"
  /\ UNCHANGED <<now, worldVars, deadline, senderVars, receiverVars, flagVars>>

\* Any datagram is the ACK: a repeated Finish, a copy of the Start, or one of
\* another client.
ServerAck ==
  /\ server = "await_ack"
  /\ \/ \E m \in Arriving("FINISH") \cup Arriving("START") :
          flight' = flight \ {m}
     \/ UNCHANGED flight
  /\ server' = "listen"
  /\ UNCHANGED <<now, worldVars, deadline, server_wake, attempt, ended_by,
                 senderVars, receiverVars, flagVars>>

OneAckMore == attempt = AckTries

LastAckWait == attempt + 1 = AckTries

ServerAckTimeout ==
  /\ server = "await_ack"
  /\ now >= server_wake
  /\ \/ /\ ~LastAckWait
        /\ SendResult(flight, attempt + 1)
     \/ /\ LastAckWait
        /\ server' = "listen"
        /\ UNCHANGED <<flight, server_wake, attempt>>
  /\ UNCHANGED <<now, worldVars, deadline, ended_by, senderVars, receiverVars,
                 flagVars>>

\* A Finish nobody waits for is dropped in LISTENING.
ServerDrop ==
  /\ server = "listen"
  /\ \E m \in Arriving("FINISH") : flight' = flight \ {m}
  /\ UNCHANGED <<now, worldVars, serverVars, senderVars, receiverVars, flagVars>>

-----------------------------------------------------------------------------
(* The client *)

Earlier(a, b) == IF a <= b THEN a ELSE b

FinishForEver(i) == interrupted \/ result_received

NoMoreFinish(i) == i = FinishTries \/ interrupted \/ result_received

\* The head of the Finish loop, in attempt i.  When send_finish() throws, no
\* handler of the thread catches it, and the process ends with its receiver.
FinishLoop(i) ==
  /\ test_completed' = TRUE
  /\ \/ /\ NoMoreFinish(i)
        /\ sender' = "exit"
        /\ UNCHANGED <<flight, sender_wake, finish_try, receiver>>
     \/ /\ ~NoMoreFinish(i)
        /\ sender' = "wait"
        /\ sender_wake' = now + FinishWait
        /\ finish_try' = i
        /\ flight' = flight \cup {Msg("FINISH", i)}
        /\ UNCHANGED receiver
     \/ /\ ~NoMoreFinish(i)
        /\ sender' = "aborted" /\ receiver' = "exit"
        /\ UNCHANGED <<flight, sender_wake, finish_try>>

\* The data loop ends: the test time is over, Ctrl+C, or a send failed.
SenderLeaves ==
  /\ sender = "loop"
  /\ FinishLoop(0)
  /\ stop_at' = Earlier(stop_at, now)
  /\ UNCHANGED <<now, worldVars, serverVars, leave_by, receiver_wake,
                 result_received, interrupted>>

SenderAgain ==
  /\ sender = "wait"
  /\ now >= sender_wake \/ result_received
  /\ FinishLoop(finish_try + 1)
  /\ UNCHANGED <<now, worldVars, serverVars, leave_by, receiver_wake,
                 result_received, interrupted, stop_at>>

\* Receive loops that the end of the test, or Ctrl+C, does not end.
FlagsWithoutCompleted == interrupted \/ result_received
FlagsWithoutShutdown == result_received \/ test_completed

Flags == interrupted \/ result_received \/ test_completed

\* select() timed out, and the loop condition is evaluated.
ReceiverLooks ==
  /\ receiver = "select"
  /\ now >= receiver_wake
  /\ \/ /\ Flags \/ now >= Allowed(duration)
        /\ receiver' = "exit"
        /\ UNCHANGED receiver_wake
     \/ /\ ~(Flags \/ now >= Allowed(duration))
        /\ receiver_wake' = now + SelectWait
        /\ UNCHANGED receiver
  /\ UNCHANGED <<now, worldVars, flight, serverVars, senderVars, flagVars>>

ReceiverRecv ==
  /\ receiver = "select"
  /\ \E m \in Arriving("RESULT") : flight' = flight \ {m}
  /\ result_received' = TRUE
  /\ stop_at' = Earlier(stop_at, now)
  /\ receiver' = "exit"
  /\ UNCHANGED <<now, worldVars, serverVars, senderVars, receiver_wake,
                 test_completed, interrupted>>

AtWork == sender \in {"loop", "wait"}

\* The sender's loop condition is read again at the next packet.
ClientCtrlC ==
  /\ ~interrupted /\ AtWork
  /\ interrupted' = TRUE
  /\ stop_at' = Earlier(stop_at, now)
  /\ leave_by' = Earlier(leave_by, now + Lag)
  /\ UNCHANGED <<now, worldVars, flight, serverVars, sender, sender_wake,
                 finish_try, receiverVars, test_completed, result_received>>

-----------------------------------------------------------------------------
(* The network and the clock *)

Lose ==
  /\ lost < MaxLoss
  /\ lost' = lost + 1
  /\ \E m \in flight : flight' = flight \ {m}
  /\ UNCHANGED <<now, duration, latency, copied, serverVars, senderVars,
                 receiverVars, flagVars>>

CopyOf(m) == [m EXCEPT !.copy = copied + 1]

\* A copy travels on its own, and takes no longer than a datagram may.
Duplicate ==
  /\ copied < MaxDup
  /\ copied' = copied + 1
  /\ \E m \in flight : flight' = flight \cup {CopyOf(m)}
  /\ UNCHANGED <<now, duration, latency, lost, serverVars, senderVars,
                 receiverVars, flagVars>>

\* Nothing is due.
Quiet ==
  /\ server # "listen" => now < server_wake
  /\ sender = "loop" => now < leave_by
  /\ sender = "wait" => now < sender_wake /\ ~result_received
  /\ receiver = "select" => now < receiver_wake
  /\ \A m \in flight :
       \/ now < m.sent + MaxDelay
       \/ m.type = "RESULT" /\ receiver = "exit"

Tick ==
  /\ now < MaxTime
  /\ Quiet
  /\ now' = now + 1
  /\ UNCHANGED <<worldVars, flight, serverVars, senderVars, receiverVars,
                 flagVars>>

Next ==
  \/ ServerStart \/ ServerOther \/ ServerFinish \/ ServerAck
  \/ ServerAckTimeout \/ ServerDrop
  \/ SenderLeaves \/ SenderAgain \/ ReceiverLooks \/ ReceiverRecv \/ ClientCtrlC
  \/ Lose \/ Duplicate \/ Tick

Spec == Init /\ [][Next]_vars

-----------------------------------------------------------------------------
(* Properties *)

\* What can have been sent by time t.
Datagrams(t) ==
  [type : {"START", "FINISH", "RESULT"}, try : Nat, sent : 0..t, copy : Nat]

\* Every variable has its type.
TypeOK ==
  /\ now \in 0..MaxTime /\ duration \in Durations /\ latency \in 0..MaxDelay
  /\ flight \subseteq Datagrams(now)
  /\ lost \in 0..MaxLoss /\ copied \in 0..MaxDup
  /\ server \in {"listen", "receive", "await_ack"}
  /\ {deadline, server_wake, leave_by, sender_wake, receiver_wake, stop_at}
       \subseteq Nat
  /\ attempt \in 0..(AckTries - 1)
  /\ ended_by \in {"none", "finish", "timeout"}
  /\ sender \in {"loop", "wait", "exit", "aborted"}
  /\ finish_try \in 0..(FinishTries - 1)
  /\ receiver \in {"select", "exit"}
  /\ test_completed \in BOOLEAN /\ result_received \in BOOLEAN
  /\ interrupted \in BOOLEAN

\* How long one client, alive or silent, may keep the server from the next
\* one: the deadline is only looked at between two calls of recv_from()
\* (server_handler.cpp:105, :111), so one idle timeout comes on top of it, and
\* the ACK waits on top of both.
ServerBusyBound ==
  server # "listen" => now <= deadline + Idle + AckTries * AckWait

\* "Receiver will exit within 100ms (select timeout) once test_completed,
\* result_received, or g_shutdown is set" (client_handler.cpp:260).
ReceiverExitsPromptly == receiver = "select" => now <= stop_at + SelectWait

\* The deadline fits the test: the 32-bit sum does not wrap.
NoWrap == duration + Graces < Wrap

\* The grace covers the longest wait for the last packet and all attempts.
GraceIsEnough == Lag + (FinishTries - 1) * FinishWait + MaxDelay < Graces * Second

\* A client only ever takes a Result over a link whose round trip is shorter
\* than the select() of its receiver: the Result answers a Finish, which is
\* sent when test_completed is already set.  On a longer link the server's
\* numbers never arrive, however often they are sent.
ResultNeedsShortLink ==
  result_received /\ NoWrap /\ GraceIsEnough => 2 * latency <= SelectWait

\* The client ended its test while a Start of it, late or copied, may still
\* come: the test it begins has no Finish left to end it.
StoppedEarly == stop_at <= MaxDelay

\* "Test timeout - no Finish received" (server_handler.cpp:106) is only ever
\* said when the client was interrupted, when a send_finish() threw and ended
\* it (client_handler.cpp:198), when as many datagrams were lost as there are
\* attempts, when the Start may have come after the Finish, or when the 32-bit
\* sum of the deadline wrapped (server_handler.cpp:102).
TimeoutNeedsFault ==
  ended_by = "timeout" /\ GraceIsEnough =>
    \/ interrupted \/ sender = "aborted"
    \/ lost >= FinishTries
    \/ StoppedEarly
    \/ ~NoWrap

\* run_client() returns soon after the test, whatever the server does.
ClientEndsInTime ==
  AtWork \/ receiver # "exit"
    => now <= TestEnd + Lag + FinishTries * FinishWait + SelectWait
=============================================================================
