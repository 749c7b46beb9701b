----------------------------- MODULE NbProcess ------------------------------
(***************************************************************************)
(* One run of nb from main() to the exit: Winsock, the command line, the   *)
(* socket, the threads and the Reporter, with every call that may fail and *)
(* the unwinding that follows.  What the threads and the server do in      *)
(* between is in ClientHandler and ServerHandler; here they send, report   *)
(* and end whenever they like.                                             *)
(*                                                                         *)
(* pc is where main() is:                                                  *)
(*    startup, parse, resolve, socket, bind, connect, header,              *)
(*    send_start, spawn_sender, spawn_receiver, join_sender, join_receiver *)
(*    serve              in the loop of run_server()                       *)
(*    summary, notice    in report_summary(), in the last report_info()    *)
(*    close_socket, close_reporter, catch, cleanup    unwinding            *)
(*    exited, aborted    the process is gone; aborted by std::terminate()  *)
(*                                                                         *)
(* The Reporter has no lock: inside is the set of threads in one of its    *)
(* functions, besides main().  Ctrl+C before the handler is registered     *)
(* just ends the process and is left out.                                  *)
(***************************************************************************)
EXTENDS Arguments, Sequences

CONSTANTS Givens,       \* the command lines considered
          MaxPackets,   \* bounds on the packets sent,
          MaxIntervals, \* the intervals reported
          MaxReports    \* and the tests of a server

ASSUME ProcessAssumption == {MaxPackets, MaxIntervals, MaxReports} \subseteq Nat

VARIABLES pc, given,
          cfg,          \* the Config, or {}: a std::optional
          wsa, sock,
          interrupted,  \* g_shutdown
          threads, inside,
          packets_sent, result_received,
          json,         \* json_: started, its intervals and its end
          printed,      \* the JSON documents printed
          loss_shown,   \* the loss column of the sender's summary line
          reports,      \* calls of report_summary()
          intervals,    \* calls of report_interval()
          failed,       \* an exception is being handled
          exit_code

controlVars == <<pc, failed, exit_code>>
configVars  == <<given, cfg, interrupted>>
socketVars  == <<wsa, sock>>
threadVars  == <<threads, inside, packets_sent, result_received, intervals>>
outputVars  == <<json, printed, loss_shown, reports>>
mainVars    == <<controlVars, configVars, socketVars>>
vars == <<mainVars, threadVars, outputVars>>

Init ==
  /\ pc = "startup"
  /\ given \in Givens
  /\ cfg = {}
  /\ wsa = "none" /\ sock = "none"
  /\ interrupted = FALSE
  /\ threads = [t \in {"sender", "receiver"} |-> "none"]
  /\ inside = {}
  /\ packets_sent = 0 /\ result_received = FALSE
  /\ json = [started |-> FALSE, intervals |-> 0, end |-> "missing"]
  /\ printed = <<>>
  /\ loss_shown = "nothing"
  /\ reports = 0 /\ intervals = 0
  /\ failed = FALSE /\ exit_code = 0

Config == CHOOSE c \in cfg : TRUE
IsClient == Config.mode = "CLIENT"

Goto(p) == pc' = p /\ UNCHANGED failed

\* An exception leaves run_server() or run_client(), which have a UdpSocket
\* or do not have it yet.
Throw == pc' = "close_socket" /\ failed' = TRUE
ThrowEarly == pc' = "close_reporter" /\ failed' = TRUE

-----------------------------------------------------------------------------
(* main() up to the dispatch *)

\* WsaContext: WSAStartup() fails, or it is not Winsock 2.2, or all is well.
Startup ==
  /\ pc = "startup"
  /\ \/ wsa' = "none"    /\ Goto("exited") /\ exit_code' = 1
     \/ wsa' = "cleaned" /\ Goto("exited") /\ exit_code' = 1
     \/ wsa' = "started" /\ Goto("parse")  /\ UNCHANGED exit_code
  /\ UNCHANGED <<configVars, sock, threadVars, outputVars>>

\* std::exit() after --version does not destroy the WsaContext of main().
Parse ==
  /\ pc = "parse"
  /\ \/ /\ ShowsVersion(given)
        /\ Goto("exited")
        /\ UNCHANGED <<cfg, exit_code>>
     \/ \E bitrate \in ParseBitrate(given.bitrate) :
          \/ /\ Accepts(given, bitrate)
             /\ cfg' = {ConfigOf(given, bitrate)}
             /\ Goto(IF given.server_mode THEN "socket" ELSE "resolve")
             /\ UNCHANGED exit_code
          \/ /\ ~Accepts(given, bitrate) /\ ~ShowsVersion(given)
             /\ Goto("cleanup")
             /\ exit_code' = 1
             /\ UNCHANGED cfg
  /\ UNCHANGED <<given, interrupted, socketVars, threadVars, outputVars>>

-----------------------------------------------------------------------------
(* The socket *)

Resolve ==
  /\ pc = "resolve"
  /\ ThrowEarly \/ Goto("socket")
  /\ UNCHANGED <<exit_code, configVars, socketVars, threadVars, outputVars>>

CreateSocket ==
  /\ pc = "socket"
  /\ \/ ThrowEarly /\ UNCHANGED sock
     \/ sock' = "open" /\ Goto(IF IsClient THEN "connect" ELSE "bind")
  /\ UNCHANGED <<exit_code, configVars, wsa, threadVars, outputVars>>

CloseSocket == sock' = IF sock = "open" THEN "closed" ELSE sock

\* bind() only ever asks for the any-address: of IPv4 unless an address is
\* given, and then of IPv6, which an IPv4 socket refuses.
CanBind == Config.ipv6 \/ Config.bind_addr = "any"

\* A constructor that throws without closing (CR-004).
BindLeaks == ThrowEarly /\ UNCHANGED sock

\* The destructor does not run when the constructor throws, which closes the
\* socket itself.
BindFails == ThrowEarly /\ CloseSocket

Bind ==
  /\ pc = "bind"
  /\ \/ CanBind /\ Goto("header") /\ UNCHANGED sock
     \/ BindFails
  /\ UNCHANGED <<exit_code, configVars, wsa, threadVars, outputVars>>

Connect ==
  /\ pc = "connect"
  /\ Throw \/ Goto("header")
  /\ UNCHANGED <<exit_code, configVars, socketVars, threadVars, outputVars>>

-----------------------------------------------------------------------------
(* The Reporter, as main() uses it *)

ReportStart ==
  /\ pc = "header"
  /\ json' = [json EXCEPT !.started = Config.json_output]
  /\ Goto(IF IsClient THEN "send_start" ELSE "serve")
  /\ UNCHANGED <<exit_code, configVars, socketVars, threadVars, printed,
                 loss_shown, reports>>

LossColumn(total) == IF total > 0 THEN "number" ELSE "--"

\* report_summary() of a summary with this total.
ReportSummary(total) ==
  /\ reports' = reports + 1
  /\ \/ /\ Config.json_output
        /\ json' = [json EXCEPT !.end = "summary"]
        /\ printed' = Append(printed, json')
        /\ UNCHANGED loss_shown
     \/ /\ ~Config.json_output
        /\ loss_shown' = LossColumn(total)
        /\ UNCHANGED <<json, printed>>

\* The end of the JSON document is not looked at.
Unfinished == json.started

\* A document was begun that report_summary() has not printed.
Incomplete == json.started /\ json.end = "missing"

\* ~Reporter()
CloseReporter ==
  /\ pc = "close_reporter"
  /\ \/ /\ Incomplete
        /\ json' = [json EXCEPT !.end = "null"]
        /\ printed' = Append(printed, json')
     \/ /\ ~Incomplete
        /\ UNCHANGED <<json, printed>>
  /\ Goto("catch")
  /\ UNCHANGED <<exit_code, configVars, socketVars, threadVars, loss_shown,
                 reports>>

-----------------------------------------------------------------------------
(* run_client() *)

SendStart ==
  /\ pc = "send_start"
  /\ Throw \/ Goto("spawn_sender")
  /\ UNCHANGED <<exit_code, configVars, socketVars, threadVars, outputVars>>

Spawn(t) == threads' = [threads EXCEPT ![t] = "running"]

\* A std::thread that cannot be started throws.
SpawnSender ==
  /\ pc = "spawn_sender"
  /\ \/ Throw /\ UNCHANGED threads
     \/ Spawn("sender") /\ Goto("spawn_receiver")
  /\ UNCHANGED <<exit_code, configVars, socketVars, inside, packets_sent,
                 result_received, intervals, outputVars>>

\* The destructor of a sender nobody joined would let it run on.
Detached == Throw

\* The destructor of a sender nobody joined ends the process.
Terminated == Goto("aborted")

SpawnReceiver ==
  /\ pc = "spawn_receiver"
  /\ \/ Terminated /\ UNCHANGED threads
     \/ Spawn("receiver") /\ Goto("join_sender")
  /\ UNCHANGED <<exit_code, configVars, socketVars, inside, packets_sent,
                 result_received, intervals, outputVars>>

NotWaited(t) == threads[t] # "none"

Joined(t) == threads[t] = "ended"

Join ==
  /\ \/ pc = "join_sender" /\ Joined("sender") /\ Goto("join_receiver")
     \/ pc = "join_receiver" /\ Joined("receiver") /\ Goto("summary")
  /\ UNCHANGED <<exit_code, configVars, socketVars, threadVars, outputVars>>

\* The total of the local summary is the number of packets sent.
ClientSummary ==
  /\ pc = "summary" /\ IsClient
  /\ ReportSummary(packets_sent)
  /\ Goto(IF result_received THEN "close_socket" ELSE "notice")
  /\ UNCHANGED <<exit_code, configVars, socketVars, threadVars>>

-----------------------------------------------------------------------------
(* run_server() *)

\* A test ends and is reported; Ctrl+C ends the loop; recv_from() throws.
Serve ==
  /\ pc = "serve"
  /\ \/ ~interrupted /\ reports < MaxReports /\ Goto("summary")
     \/ interrupted /\ Goto("notice")
     \/ Throw
  /\ UNCHANGED <<exit_code, configVars, socketVars, threadVars, outputVars>>

ServerSummary ==
  /\ pc = "summary" /\ ~IsClient
  /\ \E total \in {0, 1} : ReportSummary(total)
  /\ Goto(IF Config.single_shot THEN "notice" ELSE "serve")
  /\ UNCHANGED <<exit_code, configVars, socketVars, threadVars>>

Notice ==
  /\ pc = "notice"
  /\ Goto("close_socket")
  /\ UNCHANGED <<exit_code, configVars, socketVars, threadVars, outputVars>>

-----------------------------------------------------------------------------
(* The end of main() *)

Unwind ==
  /\ pc = "close_socket"
  /\ CloseSocket
  /\ Goto("close_reporter")
  /\ UNCHANGED <<exit_code, configVars, wsa, threadVars, outputVars>>

NoFailure == 0

CodeOf == IF failed THEN 1 ELSE 0

Catch ==
  /\ pc = "catch"
  /\ exit_code' = CodeOf
  /\ Goto("cleanup")
  /\ UNCHANGED <<configVars, socketVars, threadVars, outputVars>>

Cleanup ==
  /\ pc = "cleanup"
  /\ wsa' = "cleaned"
  /\ Goto("exited")
  /\ UNCHANGED <<exit_code, configVars, sock, threadVars, outputVars>>

-----------------------------------------------------------------------------
(* The threads of the client, and Ctrl+C *)

Gone == pc \in {"exited", "aborted"}

Runs(t) == threads[t] = "running" /\ ~Gone

SenderSends ==
  /\ Runs("sender") /\ "sender" \notin inside
  /\ packets_sent < MaxPackets
  /\ packets_sent' = packets_sent + 1
  /\ UNCHANGED <<mainVars, outputVars, threads, inside, result_received,
                 intervals>>

\* The Result comes, and its message is written.
ReceiverResult ==
  /\ Runs("receiver") /\ "receiver" \notin inside
  /\ result_received' = TRUE
  /\ inside' = inside \cup {"receiver"}
  /\ UNCHANGED <<mainVars, outputVars, threads, packets_sent, intervals>>

\* An interval or an error of the sender, an error of the receiver.
EnterReporter(t) ==
  /\ Runs(t) /\ t \notin inside
  /\ inside' = inside \cup {t}
  /\ UNCHANGED <<mainVars, outputVars, threads, packets_sent, result_received,
                 intervals>>

\* report_interval() ends; in JSON mode it has appended the interval.
SenderReported ==
  /\ Runs("sender") /\ "sender" \in inside
  /\ intervals < MaxIntervals
  /\ inside' = inside \ {"sender"}
  /\ intervals' = intervals + 1
  /\ json' = IF json.started THEN [json EXCEPT !.intervals = @ + 1] ELSE json
  /\ UNCHANGED <<mainVars, threads, packets_sent, result_received, printed,
                 loss_shown, reports>>

\* report_error() or report_info() ends; it was the receiver's last call.
MessageWritten(t) ==
  /\ Runs(t) /\ t \in inside
  /\ inside' = inside \ {t}
  /\ threads' = [threads EXCEPT ![t] = IF t = "receiver" THEN "ended" ELSE @]
  /\ UNCHANGED <<mainVars, outputVars, packets_sent, result_received,
                 intervals>>

ThreadEnds(t) ==
  /\ Runs(t) /\ t \notin inside
  /\ threads' = [threads EXCEPT ![t] = "ended"]
  /\ UNCHANGED <<mainVars, outputVars, inside, packets_sent, result_received,
                 intervals>>

\* send_finish() throws in a thread that does not catch.
SenderThrows ==
  /\ Runs("sender") /\ "sender" \notin inside
  /\ Goto("aborted")
  /\ UNCHANGED <<exit_code, configVars, socketVars, threadVars, outputVars>>

CtrlC ==
  /\ ~interrupted /\ ~Gone /\ pc # "startup"
  /\ interrupted' = TRUE
  /\ UNCHANGED <<controlVars, given, cfg, socketVars, threadVars, outputVars>>

Main ==
  \/ Startup \/ Parse \/ Resolve \/ CreateSocket \/ Bind \/ Connect
  \/ ReportStart \/ SendStart \/ SpawnSender \/ SpawnReceiver \/ Join
  \/ ClientSummary \/ Serve \/ ServerSummary \/ Notice
  \/ Unwind \/ CloseReporter \/ Catch \/ Cleanup

Thread(t) == EnterReporter(t) \/ MessageWritten(t) \/ ThreadEnds(t)

Next ==
  \/ Main
  \/ SenderSends \/ SenderReported \/ SenderThrows \/ ReceiverResult
  \/ \E t \in {"sender", "receiver"} : Thread(t)
  \/ CtrlC

Spec == Init /\ [][Next]_vars

-----------------------------------------------------------------------------
(* Properties *)

\* Every variable has its type.
TypeOK ==
  /\ given \in Givens
  /\ \A c \in cfg : c.bitrate_bps \in AnyBitrate
  /\ wsa \in {"none", "started", "cleaned"}
  /\ sock \in {"none", "open", "closed"}
  /\ threads \in [{"sender", "receiver"} -> {"none", "running", "ended"}]
  /\ inside \subseteq {"sender", "receiver"}
  /\ packets_sent \in 0..MaxPackets /\ intervals \in 0..MaxIntervals
  /\ json \in [started : BOOLEAN, intervals : 0..MaxIntervals,
               end : {"missing", "summary", "null"}]
  /\ loss_shown \in {"nothing", "number", "--"}
  /\ reports \in Nat /\ exit_code \in {0, 1}
  /\ {interrupted, result_received, failed} \subseteq BOOLEAN

\* Whatever the command line, even one whose bit rate is not a number: past
\* parse_args() the pacer has a burst of at least one packet and a time between
\* bursts, the sender room for its header and an interval within the test, and
\* the server an idle timeout that ends, unless the burst or the timeout passes
\* the 32 bits of its type (pacer.cpp:18, udp_socket.cpp:100).
AcceptedConfigIsUsable == \A c \in cfg : Usable(c)

\* The threads hold references to the socket, the Reporter and the locals of
\* run_client(): as long as one runs, none of these is destroyed.
LocalsOutliveThreads ==
  (\E t \in DOMAIN threads : Runs(t)) =>
    pc \in {"spawn_receiver", "join_sender", "join_receiver"}

\* The Reporter has no lock (CR-016): main() is in it alone, so that neither
\* the summary nor a JSON document is torn by a line of a thread.
MainReportsAlone ==
  pc \in {"header", "summary", "notice", "close_reporter"} => inside = {}

\* Whatever fails, WSACleanup() comes after the socket is closed, and an
\* ordinary exit leaves neither behind.
CleanupInOrder ==
  /\ wsa = "cleaned" => sock # "open"
  /\ pc = "exited" /\ ~given.version_flag => wsa # "started" /\ sock # "open"

\* In JSON mode a process that got as far as its header prints, for every
\* summary, one document with its end and all intervals reported before it, or
\* if there was none, exactly one document that is marked incomplete.
DocumentPerReport ==
  pc = "exited" /\ json.started =>
    /\ Len(printed) = IF reports = 0 THEN 1 ELSE reports
    /\ \A i \in 1..Len(printed) :
         printed[i].end = IF reports = 0 THEN "null" ELSE "summary"
    /\ printed[Len(printed)].intervals = intervals

\* An exit code of 0 means that the test of the client was reported, or that
\* the server was stopped or served its single test.
ZeroMeansDone ==
  pc = "exited" /\ exit_code = 0 /\ cfg # {} =>
    IF IsClient THEN reports = 1
    ELSE interrupted \/ (Config.single_shot /\ reports = 1)

\* "Without a Result of the server, `--/--` is shown" (developer-guide.md:365).
UnknownLossShownUnknown ==
  cfg # {} /\ IsClient /\ ~result_received => loss_shown # "number"
=============================================================================
