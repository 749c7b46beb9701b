--------------------------- MODULE ClientHandler ----------------------------
(***************************************************************************)
(* run_client() of src/client_handler.cpp for every client: the main       *)
(* thread that sends the Start, spawns the sender and the receiver thread, *)
(* joins both and reports, and the two threads with the flags they share.  *)
(*                                                                         *)
(* main[c]      start       nothing sent yet                               *)
(*              run         threads spawned, main is joining them          *)
(*              done        the summary was reported, run_client() is over *)
(*              fatal       send_start() threw, main() printed FATAL       *)
(*              terminated  an exception left a thread: std::terminate()   *)
(* sender[c]    loop        head of the data loop                           *)
(*              send        header built, waiting for the paced time       *)
(*              finish      head of the Finish loop                        *)
(*              wait        sleeping between two Finish attempts           *)
(*              exit        returned (or not spawned yet)                  *)
(* receiver[c]  check       head of the receive loop                       *)
(*              select      blocked in select()                            *)
(*              exit        returned (or not spawned yet)                  *)
(*                                                                         *)
(* Time is present as what the threads compare it with: clock[c] holds     *)
(* which times have passed, the end of the test (test_end_time) and the    *)
(* deadline of the receiver.  The deadline may pass first: duration + 5 is *)
(* a sum of 32 bits.  Pacing, intervals and time stamps are not modelled   *)
(* here.  packet_id is packets_sent + 1: it does not wrap within           *)
(* MaxPackets.                                                             *)
(***************************************************************************)
EXTENDS UdpNetwork

CONSTANT ClientFaults   \* TRUE: the client's socket calls may fail

ASSUME ClientAssumption == ClientFaults \in BOOLEAN

VARIABLES main,
          sender,
          receiver,
          interrupted,      \* g_shutdown of the client's process
          clock,
          test_completed,
          result_received,
          server_summary,
          packets_sent,
          finish_try        \* the loop variable i of the Finish loop

threadVars == <<main, sender, receiver>>
flagVars   == <<interrupted, clock, test_completed>>
answerVars == <<result_received, server_summary>>
countVars  == <<packets_sent, finish_try>>
clientVars == <<main, sender, receiver, interrupted, clock, test_completed,
                result_received, server_summary, packets_sent, finish_try>>

ClientInit ==
  /\ main = [c \in Clients |-> "start"]
  /\ sender = [c \in Clients |-> "exit"]
  /\ receiver = [c \in Clients |-> "exit"]
  /\ interrupted = [c \in Clients |-> FALSE]
  /\ clock = [c \in Clients |-> {}]
  /\ test_completed = [c \in Clients |-> FALSE]
  /\ result_received = [c \in Clients |-> FALSE]
  /\ server_summary = [c \in Clients |-> NoSummary]
  /\ packets_sent = [c \in Clients |-> 0]
  /\ finish_try = [c \in Clients |-> 0]

-----------------------------------------------------------------------------
(* The main thread *)

\* send_start(), then both threads are spawned.
ClientStart(c) ==
  /\ main[c] = "start"
  /\ Send(StartMsg(c))
  /\ main' = [main EXCEPT ![c] = "run"]
  /\ sender' = [sender EXCEPT ![c] = "loop"]
  /\ receiver' = [receiver EXCEPT ![c] = "check"]
  /\ UNCHANGED <<flagVars, answerVars, countVars>>

ClientStartFails(c) ==
  /\ ClientFaults
  /\ main[c] = "start"
  /\ main' = [main EXCEPT ![c] = "fatal"]
  /\ UNCHANGED <<sender, receiver, flagVars, answerVars, countVars, netVars>>

\* Both joins have returned: report_summary(), with the server's summary
\* when result_received is set.
ClientReport(c) ==
  /\ main[c] = "run"
  /\ sender[c] = "exit"
  /\ receiver[c] = "exit"
  /\ main' = [main EXCEPT ![c] = "done"]
  /\ UNCHANGED <<sender, receiver, flagVars, answerVars, countVars, netVars>>

-----------------------------------------------------------------------------
(* The sender thread *)

\* now >= test_end_time
TestOver(c) == "end" \in clock[c]

\* One evaluation of the loop condition and of the test-time check.  A
\* sender whose next packet would exceed MaxPackets stays in the loop.
SenderLoop(c) ==
  /\ main[c] = "run"
  /\ sender[c] = "loop"
  /\ \/ /\ interrupted[c]
        /\ sender' = [sender EXCEPT ![c] = "finish"]
        /\ UNCHANGED test_completed
     \/ /\ ~interrupted[c] /\ TestOver(c)
        /\ sender' = [sender EXCEPT ![c] = "finish"]
        /\ test_completed' = [test_completed EXCEPT ![c] = TRUE]
     \/ /\ ~interrupted[c] /\ ~TestOver(c)
        /\ packets_sent[c] < MaxPackets
        /\ sender' = [sender EXCEPT ![c] = "send"]
        /\ UNCHANGED test_completed
  /\ UNCHANGED <<main, receiver, interrupted, clock, answerVars, countVars,
                 netVars>>

\* send_to() succeeded; check_error() may still end the test.
SenderSend(c) ==
  /\ main[c] = "run"
  /\ sender[c] = "send"
  /\ Send(DataMsg(c, packets_sent[c] + 1))
  /\ packets_sent' = [packets_sent EXCEPT ![c] = @ + 1]
  /\ \/ /\ sender' = [sender EXCEPT ![c] = "loop"]
        /\ UNCHANGED test_completed
     \/ /\ ClientFaults
        /\ sender' = [sender EXCEPT ![c] = "finish"]
        /\ test_completed' = [test_completed EXCEPT ![c] = TRUE]
  /\ UNCHANGED <<main, receiver, interrupted, clock, answerVars, finish_try>>

\* send_to() threw: the test is over, nothing was sent or counted.
SenderSendFails(c) ==
  /\ ClientFaults
  /\ main[c] = "run"
  /\ sender[c] = "send"
  /\ sender' = [sender EXCEPT ![c] = "finish"]
  /\ test_completed' = [test_completed EXCEPT ![c] = TRUE]
  /\ UNCHANGED <<main, receiver, interrupted, clock, answerVars, countVars,
                 netVars>>

StopsFinishing(c) ==
  \/ finish_try[c] = MaxFinish
  \/ interrupted[c]
  \/ result_received[c]

\* The Finish loop is left for one of its three reasons.
SenderExit(c) ==
  /\ main[c] = "run"
  /\ sender[c] = "finish"
  /\ StopsFinishing(c)
  /\ sender' = [sender EXCEPT ![c] = "exit"]
  /\ test_completed' = [test_completed EXCEPT ![c] = TRUE]
  /\ UNCHANGED <<main, receiver, interrupted, clock, answerVars, countVars,
                 netVars>>

SenderFinish(c) ==
  /\ main[c] = "run"
  /\ sender[c] = "finish"
  /\ ~StopsFinishing(c)
  /\ Send(FinishMsg(c, packets_sent[c], finish_try[c]))
  /\ sender' = [sender EXCEPT ![c] = "wait"]
  /\ UNCHANGED <<main, receiver, flagVars, answerVars, countVars>>

\* send_finish() is not inside a try block of the thread.
SenderFinishFails(c) ==
  /\ ClientFaults
  /\ main[c] = "run"
  /\ sender[c] = "finish"
  /\ ~StopsFinishing(c)
  /\ main' = [main EXCEPT ![c] = "terminated"]
  /\ UNCHANGED <<sender, receiver, flagVars, answerVars, countVars, netVars>>

SameTry(c) == UNCHANGED finish_try

NextTry(c) == finish_try' = [finish_try EXCEPT ![c] = @ + 1]

\* The inner loop of ten naps ends: its time is over or the Result is there.
SenderWait(c) ==
  /\ main[c] = "run"
  /\ sender[c] = "wait"
  /\ sender' = [sender EXCEPT ![c] = "finish"]
  /\ NextTry(c)
  /\ UNCHANGED <<main, receiver, flagVars, answerVars, packets_sent, netVars>>

-----------------------------------------------------------------------------
(* The receiver thread *)

\* A receive loop that goes on after the Result.
ReceiverStopsLate(c) ==
  \/ interrupted[c]
  \/ test_completed[c]
  \/ "deadline" \in clock[c]

ReceiverStops(c) ==
  \/ interrupted[c]
  \/ result_received[c]
  \/ test_completed[c]
  \/ "deadline" \in clock[c]

ReceiverCheck(c) ==
  /\ main[c] = "run"
  /\ receiver[c] = "check"
  /\ receiver' = [receiver EXCEPT ![c] =
                    IF ReceiverStops(c) THEN "exit" ELSE "select"]
  /\ UNCHANGED <<main, sender, flagVars, answerVars, countVars, netVars>>

\* select() timed out, or recv_from() returned -1 for an ICMP error.
ReceiverTimeout(c) ==
  /\ main[c] = "run"
  /\ receiver[c] = "select"
  /\ receiver' = [receiver EXCEPT ![c] = "check"]
  /\ UNCHANGED <<main, sender, flagVars, answerVars, countVars, netVars>>

\* A Result is parsed into server_summary and then announced.  Nothing else
\* of the protocol is ever addressed to a client.
ReceiverRecv(c) ==
  /\ main[c] = "run"
  /\ receiver[c] = "select"
  /\ \E m \in Deliverable(c) :
       /\ m.type = "RESULT"
       /\ Receive(m)
       /\ server_summary' = [server_summary EXCEPT ![c] = m.body]
  /\ result_received' = [result_received EXCEPT ![c] = TRUE]
  /\ receiver' = [receiver EXCEPT ![c] = "check"]
  /\ UNCHANGED <<main, sender, flagVars, countVars>>

\* recv_from() threw: the catch block of the thread reports, and it returns.
ReceiverFails(c) ==
  /\ ClientFaults
  /\ main[c] = "run"
  /\ receiver[c] = "select"
  /\ receiver' = [receiver EXCEPT ![c] = "exit"]
  /\ UNCHANGED <<main, sender, flagVars, answerVars, countVars, netVars>>

-----------------------------------------------------------------------------
(* The environment of the process.  Time passes as long as a thread is left *)
(* that will compare it.                                                    *)

Pass(c, time) ==
  /\ time \notin clock[c]
  /\ clock' = [clock EXCEPT ![c] = @ \cup {time}]

TestTimePasses(c) ==
  /\ main[c] = "run"
  /\ sender[c] \in {"loop", "send"}
  /\ Pass(c, "end")
  /\ UNCHANGED <<threadVars, interrupted, test_completed, answerVars,
                 countVars, netVars>>

ReceiverDeadlinePasses(c) ==
  /\ main[c] = "run"
  /\ receiver[c] # "exit"
  /\ Pass(c, "deadline")
  /\ UNCHANGED <<threadVars, interrupted, test_completed, answerVars,
                 countVars, netVars>>

ClientCtrlC(c) ==
  /\ main[c] \in {"start", "run"}
  /\ ~interrupted[c]
  /\ interrupted' = [interrupted EXCEPT ![c] = TRUE]
  /\ UNCHANGED <<threadVars, clock, test_completed, answerVars, countVars,
                 netVars>>

-----------------------------------------------------------------------------

SenderThread(c) ==
  SenderLoop(c) \/ SenderSend(c) \/ SenderExit(c) \/ SenderFinish(c)
    \/ SenderWait(c)

ReceiverThread(c) == ReceiverCheck(c) \/ ReceiverTimeout(c) \/ ReceiverRecv(c)

\* The client will send no data packet any more.
PastDataLoop(c) == sender[c] \in {"finish", "wait", "exit"} /\ main[c] # "start"

ClientTypeOK ==
  /\ main \in [Clients -> {"start", "run", "done", "fatal", "terminated"}]
  /\ sender \in [Clients -> {"loop", "send", "finish", "wait", "exit"}]
  /\ receiver \in [Clients -> {"check", "select", "exit"}]
  /\ interrupted \in [Clients -> BOOLEAN]
  /\ clock \in [Clients -> SUBSET {"end", "deadline"}]
  /\ test_completed \in [Clients -> BOOLEAN]
  /\ result_received \in [Clients -> BOOLEAN]
  /\ server_summary \in [Clients -> Summaries]
  /\ packets_sent \in [Clients -> 0..MaxPackets]
  /\ finish_try \in [Clients -> 0..MaxFinish]
=============================================================================
