--------------------------- MODULE ServerHandler ----------------------------
(***************************************************************************)
(* run_server() of src/server_handler.cpp with the send_result() of        *)
(* src/control_protocol.cpp it calls: the single thread of the server,     *)
(* which listens for a Start, collects the data of that client until its   *)
(* Finish or the deadline, and sends the Result until something answers.   *)
(*                                                                         *)
(* spc is where the thread is:                                             *)
(*    listen        head of the LISTENING loop, about to read g_shutdown   *)
(*    listen_recv   blocked in recv_from() of that loop                    *)
(*    receive       head of the RECEIVING loop                             *)
(*    receive_recv  blocked in recv_from() of that loop                    *)
(*    report        RECEIVING left, about to read g_shutdown               *)
(*    send_result   head of the retry loop of send_result()                *)
(*    await_ack     blocked in recv_from() of that loop                    *)
(*    idle          send_result() has returned                             *)
(*    stopped       run_server() has returned                              *)
(*    fatal         a socket error went up to the handler of main()        *)
(*                                                                         *)
(* g_shutdown is written by the Ctrl+C handler, which runs on a thread of  *)
(* its own, so it can become TRUE between any two steps.  Time is only     *)
(* present as what the loops compare: whether the deadline has passed.     *)
(***************************************************************************)
EXTENDS UdpNetwork

CONSTANTS ShotModes,    \* the values cfg.single_shot (-1) may have
          ServerFaults, \* TRUE: socket calls may fail
          NoClient      \* the client_addr of a server without one

ASSUME ServerAssumption == /\ ShotModes \subseteq BOOLEAN
                           /\ ServerFaults \in BOOLEAN
                           /\ NoClient \notin Clients

VARIABLES spc,
          single_shot,   \* cfg.single_shot
          g_shutdown,    \* the server process's flag
          client_addr,   \* NoClient while client_addr_valid is FALSE
          stats,         \* *server_stats
          late,          \* steady_clock::now() >= deadline
          ended_by,      \* how RECEIVING ended: the info line it printed
          summary,       \* the summary being sent
          attempt,       \* the loop variable of send_result()
          ack_count,     \* what send_result() returned
          recv_timeout,  \* the receive timeout set on the socket
          unreported     \* a test was started that no summary has shown

processVars == <<single_shot, g_shutdown>>
testVars   == <<client_addr, stats, late, ended_by, unreported>>
resultVars == <<summary, attempt, ack_count, recv_timeout>>
serverVars == <<spc, single_shot, g_shutdown, client_addr, stats, late,
                ended_by, summary, attempt, ack_count, recv_timeout, unreported>>

ServerInit ==
  /\ spc = "listen"
  /\ single_shot \in ShotModes
  /\ g_shutdown = FALSE
  /\ client_addr = NoClient
  /\ stats = NewCollector
  /\ late = FALSE
  /\ ended_by = "none"
  /\ summary = NoSummary
  /\ attempt = 0
  /\ ack_count = 0
  /\ recv_timeout = "idle"
  /\ unreported = FALSE

-----------------------------------------------------------------------------
(* LISTENING *)

\* A loop head that forgets to look at g_shutdown.
ServerListenDeaf ==
  /\ spc = "listen"
  /\ spc' = "listen_recv"
  /\ UNCHANGED <<processVars, testVars, resultVars, netVars>>

ServerListen ==
  /\ spc = "listen"
  /\ spc' = IF g_shutdown THEN "stopped" ELSE "listen_recv"
  /\ UNCHANGED <<processVars, testVars, resultVars, netVars>>

ServerListenTimeout ==
  /\ spc = "listen_recv"
  /\ spc' = "listen"
  /\ UNCHANGED <<processVars, testVars, resultVars, netVars>>

\* A Start begins a test for its sender, anything else is dropped.
ServerListenRecv ==
  /\ spc = "listen_recv"
  /\ \E m \in Deliverable(Server) :
       /\ Receive(m)
       /\ \/ /\ m.type # "START"
             /\ spc' = "listen"
             /\ UNCHANGED testVars
          \/ /\ m.type = "START"
             /\ spc' = "receive"
             /\ client_addr' = m.from
             /\ stats' = StartTest(stats, 0)
             /\ late' = FALSE
             /\ ended_by' = "none"
             /\ unreported' = TRUE
  /\ UNCHANGED <<processVars, resultVars>>

-----------------------------------------------------------------------------
(* RECEIVING *)

\* The deadline, duration + 5 seconds after the Start, passes.
ServerDeadlinePasses ==
  /\ spc \in {"receive", "receive_recv"}
  /\ ~late
  /\ late' = TRUE
  /\ UNCHANGED <<spc, processVars, client_addr, stats, ended_by, resultVars,
                 unreported, netVars>>

DeadlineIgnored == FALSE

\* steady_clock::now() >= deadline, compared at the head of the loop only
DeadlinePassed == late

ServerReceive ==
  /\ spc = "receive"
  /\ \/ /\ g_shutdown
        /\ spc' = "stopped"
        /\ UNCHANGED ended_by
     \/ /\ ~g_shutdown /\ DeadlinePassed
        /\ spc' = "report"
        /\ ended_by' = "timeout"
     \/ /\ ~g_shutdown /\ ~DeadlinePassed
        /\ spc' = "receive_recv"
        /\ UNCHANGED ended_by
  /\ UNCHANGED <<processVars, client_addr, stats, late, resultVars, unreported,
                 netVars>>

ServerReceiveTimeout ==
  /\ spc = "receive_recv"
  /\ spc' = "receive"
  /\ UNCHANGED <<processVars, testVars, resultVars, netVars>>

AnySource(m) == TRUE

\* sockaddr_equal(from, client_addr)
FromClient(m) == m.from = client_addr

\* The header record_packet() gets: time is abstracted to a constant here.
HeaderOf(m) == [packet_id |-> m.packet_id, total_length |-> 1, timestamp |-> 0]

\* parse_finish_total_packets(), stored only when it is positive.
WithSenderTotal(st, total) ==
  IF total > 0 THEN SetSenderPackets(st, total) ELSE st

ServerReceiveRecv ==
  /\ spc = "receive_recv"
  /\ \E m \in Deliverable(Server) :
       /\ Receive(m)
       /\ \/ /\ ~FromClient(m) \/ m.type \notin {"FINISH", "DATA"}
             /\ spc' = "receive"
             /\ UNCHANGED <<stats, ended_by>>
          \/ /\ FromClient(m) /\ m.type = "FINISH"
             /\ spc' = "report"
             /\ ended_by' = "finish"
             /\ stats' = WithSenderTotal(stats, m.total)
          \/ /\ FromClient(m) /\ m.type = "DATA"
             /\ spc' = "receive"
             /\ stats' = RecordPacket(stats, HeaderOf(m), 0)
             /\ UNCHANGED ended_by
  /\ UNCHANGED <<processVars, client_addr, late, resultVars, unreported>>

-----------------------------------------------------------------------------
(* REPORTING *)

\* finalize() and the overwrite of packets_sent, unless Ctrl+C came first.
ServerReport ==
  /\ spc = "report"
  /\ \/ /\ g_shutdown
        /\ spc' = "stopped"
        /\ UNCHANGED <<summary, attempt>>
     \/ /\ ~g_shutdown
        /\ spc' = "send_result"
        /\ summary' = LET s == Finalize(stats)
                      IN  [s EXCEPT !.packets_sent = s.total_packets]
        /\ attempt' = 0
  /\ UNCHANGED <<processVars, testVars, ack_count, recv_timeout, netVars>>

ServerSendResult ==
  /\ spc = "send_result"
  /\ Send(ResultMsg(client_addr, summary, attempt))
  /\ recv_timeout' = "ack"
  /\ spc' = "await_ack"
  /\ UNCHANGED <<processVars, testVars, summary, attempt, ack_count>>

\* Any datagram of anyone is taken for the ACK.
ServerAck ==
  /\ spc = "await_ack"
  /\ \E m \in Deliverable(Server) : Receive(m)
  /\ spc' = "idle"
  /\ ack_count' = attempt + 1
  /\ UNCHANGED <<processVars, testVars, summary, attempt, recv_timeout>>

OneAttemptMore == attempt = MaxAttempts

LastAttempt == attempt + 1 = MaxAttempts

\* The 200 ms are over, or an ICMP error made recv_from() return at once.
ServerAckTimeout ==
  /\ spc = "await_ack"
  /\ \/ /\ ~LastAttempt
        /\ attempt' = attempt + 1
        /\ spc' = "send_result"
     \/ /\ LastAttempt
        /\ spc' = "idle"
        /\ UNCHANGED attempt
  /\ UNCHANGED <<processVars, testVars, summary, ack_count, recv_timeout,
                 netVars>>

KeepTimeout == UNCHANGED recv_timeout

RestoreTimeout == recv_timeout' = "idle"

ReadyAgain == spc' = "listen" /\ client_addr' = NoClient

AfterTest ==
  IF single_shot THEN spc' = "stopped" /\ UNCHANGED client_addr
                ELSE spc' = "listen" /\ client_addr' = NoClient

\* The summary is shown, the idle timeout restored, and the locals of the
\* block go out of scope.
ServerIdle ==
  /\ spc = "idle"
  /\ RestoreTimeout
  /\ unreported' = FALSE
  /\ summary' = NoSummary
  /\ attempt' = 0
  /\ ack_count' = 0
  /\ AfterTest
  /\ UNCHANGED <<processVars, stats, late, ended_by, netVars>>

-----------------------------------------------------------------------------

\* send_to() or recv_from() throws; nothing below main() catches it.
ServerSocketFails ==
  /\ ServerFaults
  /\ spc \in {"listen_recv", "receive_recv", "send_result", "await_ack"}
  /\ spc' = "fatal"
  /\ UNCHANGED <<processVars, testVars, resultVars, netVars>>

ServerCtrlC ==
  /\ ~g_shutdown
  /\ g_shutdown' = TRUE
  /\ UNCHANGED <<spc, single_shot, testVars, resultVars, netVars>>

\* The steps of the server's thread that do not depend on a failing call.
ServerThread ==
  \/ ServerListen \/ ServerListenTimeout \/ ServerListenRecv
  \/ ServerReceive \/ ServerReceiveTimeout \/ ServerReceiveRecv
  \/ ServerReport \/ ServerSendResult \/ ServerAck \/ ServerAckTimeout
  \/ ServerIdle

ServerOver == spc \in {"stopped", "fatal"}

ServerTypeOK ==
  /\ spc \in {"listen", "listen_recv", "receive", "receive_recv", "report",
              "send_result", "await_ack", "idle", "stopped", "fatal"}
  /\ {single_shot, g_shutdown} \subseteq BOOLEAN
  /\ client_addr \in Clients \cup {NoClient}
  /\ stats \in Collectors
  /\ late \in BOOLEAN
  /\ ended_by \in {"none", "finish", "timeout"}
  /\ summary \in Summaries
  /\ attempt \in 0..(MaxAttempts - 1)
  /\ ack_count \in 0..MaxAttempts
  /\ recv_timeout \in {"idle", "ack"}
  /\ unreported \in BOOLEAN
=============================================================================
