------------------------------ MODULE NbSystem ------------------------------
(***************************************************************************)
(* nb at work: one server and several clients, each running one test, over *)
(* a UDP network.  Server, clients and the threads of each client take     *)
(* their steps in any order; Ctrl+C may come to any process of             *)
(* Interruptible at any time.                                              *)
(*                                                                         *)
(* With Punctual no thread is starved for seconds: neither the server's    *)
(* deadline (duration + 5 s after the Start) nor the receiver's passes     *)
(* while the sender of that client is still at work, which without pacing  *)
(* delays takes less than a second more than the duration.                 *)
(***************************************************************************)
EXTENDS ServerHandler, ClientHandler

CONSTANTS Interruptible,   \* the processes whose user may press Ctrl+C
          Punctual         \* TRUE: the grace of 5 s is always enough

ASSUME SystemAssumption == /\ Interruptible \subseteq Clients \cup {Server}
                           /\ Punctual \in BOOLEAN

\* The whole test fits into the duplicate-detection set without pruning.
ASSUME NoPruning == MaxPackets < PruneAt

vars == <<netVars, serverVars, clientVars>>

Init == NetInit /\ ServerInit /\ ClientInit

\* Peer c will not use the network any more, or no peer is being served.
AtRest(c) == c \in Clients => main[c] # "run" \/ sender[c] = "exit"

ServerStep ==
  /\ \/ ServerThread
     \/ ServerSocketFails
     \/ ServerDeadlinePasses /\ (Punctual => AtRest(client_addr))
     \/ ServerCtrlC /\ Server \in Interruptible
  /\ UNCHANGED clientVars

ClientStep(c) ==
  /\ \/ ClientStart(c) \/ ClientStartFails(c) \/ ClientReport(c)
     \/ SenderThread(c) \/ SenderSendFails(c) \/ SenderFinishFails(c)
     \/ ReceiverThread(c) \/ ReceiverFails(c)
     \/ TestTimePasses(c)
     \/ ReceiverDeadlinePasses(c) /\ (Punctual => AtRest(c))
     \/ ClientCtrlC(c) /\ c \in Interruptible
  /\ UNCHANGED serverVars

Next == ServerStep \/ \E c \in Clients : ClientStep(c)

Spec == Init /\ [][Next]_vars

(***************************************************************************)
(* Fairness.  The operating system schedules every thread, blocked calls   *)
(* return at the latest with their timeout, and time passes.  Nothing is   *)
(* promised about datagrams, failing calls or Ctrl+C.                      *)
(***************************************************************************)
Fairness ==
  /\ WF_vars(ServerThread /\ UNCHANGED clientVars)
  /\ WF_vars(ServerDeadlinePasses /\ (Punctual => AtRest(client_addr))
               /\ UNCHANGED clientVars)
  /\ \A c \in Clients :
       /\ WF_vars(ClientReport(c) /\ UNCHANGED serverVars)
       /\ WF_vars(SenderThread(c) /\ UNCHANGED serverVars)
       /\ WF_vars(ReceiverThread(c) /\ UNCHANGED serverVars)
       /\ WF_vars(TestTimePasses(c) /\ UNCHANGED serverVars)

FairSpec == Spec /\ Fairness

-----------------------------------------------------------------------------
(* Type invariant *)

\* Every variable has its type.
TypeOK == NetTypeOK /\ ServerTypeOK /\ ClientTypeOK

-----------------------------------------------------------------------------
(* What the numbers mean *)

\* A summary about the test of c that knows the total is exact: the total
\* is what c sent, no more than that was counted, and the rest is the loss.
ExactFor(s, c) ==
  s.total_packets > 0 =>
    /\ s.total_packets = packets_sent[c]
    /\ s.packets_received <= s.total_packets
    /\ s.lost_packets = s.total_packets - s.packets_received

\* Every Result in flight and every summary a client took over is exact: the
\* clamp of the loss at 0 in finalize() hides nothing, although datagrams are
\* lost, reordered and duplicated, Finish is sent before the server has seen
\* the last data, and the retries of several clients overlap.
LossIsExact ==
  /\ \A m \in net : m.type = "RESULT" => ExactFor(m.body, m.to)
  /\ \A c \in Clients : result_received[c] => ExactFor(server_summary[c], c)

\* While a client is being served, the collector has counted only ids that
\* this client has sent, each of them once: neither what other clients send
\* meanwhile nor what is left of the test before is counted.
CountsOnlyItsClient ==
  client_addr # NoClient =>
    /\ stats.seen_ids \subseteq 1..packets_sent[client_addr]
    /\ stats.packets_received = Cardinality(stats.seen_ids)

\* A test whose Finish never came has an unknown total, so that its loss is
\* shown as "--" (comment in finalize()) and never as the last client's.
NoFinishNoTotal == stats.total_packets > 0 => ended_by = "finish"

\* A client keeps the first Result it got: a retry or the Result of a second
\* test the server ran on a duplicated Start never replaces its numbers.
FirstResultIsKept ==
  [][\A c \in Clients :
       result_received[c] => server_summary'[c] = server_summary[c]]_vars

\* On a link that loses and reorders nothing, the server measures a client
\* whole or not at all: whenever it knows the total it saw all packets, in
\* order and once, even if other clients knock or it was busy with the ACK
\* of the client before.
NoPhantomLoss ==
  \A c \in Clients :
    result_received[c] /\ server_summary[c].total_packets > 0 =>
      /\ server_summary[c].packets_received = packets_sent[c]
      /\ server_summary[c].lost_packets = 0
      /\ server_summary[c].out_of_order = 0
      /\ server_summary[c].duplicate = 0

\* The short timeout of the ACK wait never leaks into the loops that wait
\* for the next client or for its data (comment at server_handler.cpp:162).
AckTimeoutConfined ==
  spc \in {"listen_recv", "receive_recv"} => recv_timeout = "idle"

-----------------------------------------------------------------------------
(* Why the numbers are exact: the invariant the proofs rest on *)

\* The loop variables are below their bounds where they are used.
WithinBounds ==
  \A c \in Clients : /\ sender[c] = "send" => packets_sent[c] < MaxPackets
                     /\ sender[c] = "wait" => finish_try[c] < MaxFinish

\* What is in flight was sent, and a Finish is younger than all data.
FlightIsSent ==
  \A m \in net :
    /\ m.type = "DATA" => m.packet_id <= packets_sent[m.from]
    /\ m.type = "FINISH" => /\ PastDataLoop(m.from)
                            /\ m.total = packets_sent[m.from]

\* The total the collector knows is final.
TotalIsFinal ==
  client_addr # NoClient /\ stats.total_packets > 0 =>
    /\ PastDataLoop(client_addr)
    /\ stats.total_packets = packets_sent[client_addr]

Serving == spc \in {"receive", "receive_recv", "report", "send_result",
                    "await_ack", "idle"} => client_addr # NoClient

\* A summary is exact for good: no data packet of its client will follow.
FinalFor(s, c) == s.total_packets > 0 => PastDataLoop(c) /\ ExactFor(s, c)

\* So is the summary at every stage of its way to the client.
SummariesAreFinal ==
  /\ spc \in {"send_result", "await_ack", "idle"}
       => FinalFor(summary, client_addr)
  /\ \A m \in net : m.type = "RESULT" => FinalFor(m.body, m.to)
  /\ \A c \in Clients : result_received[c] => FinalFor(server_summary[c], c)

\* The inductive invariant of LossIsExact: exactness travels from the counter
\* of the sender through the Finish into the collector, and from there in the
\* summary through the Result back to the client, while the sender stands
\* still.
ExactnessInv ==
  /\ WithinBounds
  /\ FlightIsSent
  /\ Serving
  /\ CountsOnlyItsClient
  /\ TotalIsFinal
  /\ SummariesAreFinal

\* The total is stored only by the step that ends RECEIVING with the Finish.
TotalInv ==
  /\ NoFinishNoTotal
  /\ spc \in {"receive", "receive_recv"} => stats.total_packets = 0

\* The short timeout is set from the first Result to the end of the test.
TimeoutInv ==
  spc \in {"listen", "listen_recv", "receive", "receive_recv", "report"}
    => recv_timeout = "idle"

-----------------------------------------------------------------------------
(* The abstract specification *)

\* What a summary tells about a test: the part of it that can be right or
\* wrong.
Report(s) == [total    |-> s.total_packets,
              received |-> s.packets_received,
              lost     |-> s.lost_packets]

Results == {m \in net : m.type = "RESULT"}

Measured == IF ServerOver THEN NoClient ELSE client_addr

ClosedTests == {c \in Clients : PastDataLoop(c)}

Verdict == IF spc \in {"send_result", "await_ack", "idle"}
           THEN {Report(summary)} ELSE {}

Published ==
  {[client |-> m.to, report |-> Report(m.body)] : m \in Results}

Shown == [c \in Clients |-> IF result_received[c]
                            THEN {Report(server_summary[c])} ELSE {}]

Abstract == INSTANCE MeasurementSession WITH
  measured <- Measured, sent <- packets_sent, closed <- ClosedTests,
  verdict <- Verdict, published <- Published, shown <- Shown

\* nb implements the abstract specification: seen from outside, with every
\* loss, copy, retry, crash and interrupt, it measures one client at a time,
\* decides on one honest report for each test, and shows each client at most
\* one report, of its own test.
ImplementsMeasurementSession == Abstract!Spec

\* What the steps of the refinement rest on beside ExactnessInv: a server that
\* listens has no client, and a receiver that waits has no Result.
NoneTwice ==
  /\ spc \in {"listen", "listen_recv"} => client_addr = NoClient
  /\ \A c \in Clients : receiver[c] = "select" => ~result_received[c]

-----------------------------------------------------------------------------
(* Progress *)

\* Every client that starts comes to an end, whatever the server and the
\* network do: both threads end and main reports, or a fault ends it.
ClientTerminates ==
  \A c \in Clients :
    main[c] = "run" ~> main[c] \in {"done", "terminated"}

\* A client that goes silent does not keep the server for ever: RECEIVING
\* always ends, at the latest with the deadline.
ServerIsReleased == client_addr # NoClient ~> (spc = "listen" \/ ServerOver)

\* The server of the option -1 stops once it has taken a client, even if it
\* never hears of that client again and even if its Result is never answered.
SingleShotStops == single_shot /\ client_addr # NoClient ~> ServerOver

\* After Ctrl+C the server stops, wherever it is.
CtrlCStopsServer == g_shutdown ~> ServerOver

-----------------------------------------------------------------------------
(* What comments and documents say and the code does not do *)

\* The wait between two Finish attempts "gives Result a chance to arrive"
\* (client_handler.cpp:200): while the sender waits for a Result, the thread
\* that could receive it is still there.
ReceiverOutlivesFinish ==
  \A c \in Clients :
    /\ main[c] = "run" /\ sender[c] = "wait"
    /\ ~interrupted[c] /\ ~result_received[c]
    => receiver[c] # "exit"

\* send_result() returns a positive count when the "ACK [was] received" from
\* a client that "receives Result" (control_protocol.hpp:40,
\* control_protocol.cpp:124, developer-guide.md:110): an acknowledged Result has
\* arrived.
AckMeansArrived ==
  spc = "idle" /\ ack_count > 0 => result_received[client_addr]

\* "Ctrl+C produces partial results" (README.md:12): a server stopped in the
\* middle of a test has shown what it measured.
CtrlCShowsPartialResult ==
  spc = "stopped" /\ stats.packets_received > 0 => ~unreported
=============================================================================
