-------------------------- MODULE NbProcessProofs ---------------------------
(***************************************************************************)
(* Proofs about one run of the program, for every set of command lines and *)
(* any number of packets, intervals and tests.  The invariants say, for    *)
(* each place of main(), what is open, which threads run and what has been *)
(* reported.                                                               *)
(***************************************************************************)
EXTENDS NbProcess, SequenceTheorems, TLAPS

USE ArgumentsAssumption, ProcessAssumption
    DEF ArgumentsAssumption, ProcessAssumption

BitrateStrings ==
  [kind : {"number"}, tenths : Int, suffix : {"b", "k", "m", "g"}]
    \cup [kind : {"malformed", "not_finite"}]

\* What CLI11 reads has these types.
GivensTyped ==
  \A g \in Givens :
    /\ g.bitrate \in BitrateStrings
    /\ g.duration_sec \in Nat /\ g.interval_sec \in Nat
    /\ g.idle_timeout_sec \in Nat
    /\ {g.server_mode, g.json_output} \subseteq BOOLEAN

-----------------------------------------------------------------------------
(* The invariant *)

Threads == {"sender", "receiver"}

BeforeHeader ==
  {"startup", "parse", "resolve", "socket", "bind", "connect", "header"}

ThreadsRun == {"spawn_receiver", "join_sender", "join_receiver"}

ClientPlaces ==
  {"resolve", "connect", "send_start", "spawn_sender"} \cup ThreadsRun

Unwinding == {"close_socket", "close_reporter", "catch", "cleanup", "exited"}

\* There is a Config from parse_args() on, and each place belongs to its mode.
PlaceInv ==
  /\ pc \in {"startup", "parse"} => cfg = {} /\ exit_code = 0
  /\ pc \notin {"startup", "parse", "cleanup", "exited"} => cfg # {}
  /\ cfg # {} => Config.json_output \in BOOLEAN
  /\ pc \in ClientPlaces => IsClient
  /\ pc \in {"bind", "serve"} => ~IsClient
  /\ failed => pc \in Unwinding

\* What is open at each place.
SocketInv ==
  /\ pc = "startup" => wsa = "none"
  /\ pc \notin {"startup", "exited"} => wsa = "started"
  /\ pc \in {"startup", "parse", "resolve", "socket"} => sock = "none"
  /\ pc \in {"close_reporter", "catch", "cleanup", "exited"} => sock # "open"
  /\ CleanupInOrder

\* Threads run between their start and their join; the Reporter is entered
\* by threads that run.
ThreadInv ==
  /\ pc \notin ThreadsRun \cup {"aborted"} =>
       \A t \in Threads : threads[t] # "running"
  /\ pc = "join_receiver" => threads["sender"] = "ended"
  /\ inside \subseteq Threads
  /\ \A t \in inside : threads[t] = "running"

Done ==
  IF IsClient THEN reports = 1
  ELSE interrupted \/ (Config.single_shot /\ reports = 1)

\* A client reports once, after its threads, a single-shot server once; whoever
\* leaves without an exception has done so or was interrupted.
DoneInv ==
  /\ pc \in BeforeHeader \cup ClientPlaces => reports = 0
  /\ pc = "summary" /\ IsClient => reports = 0
  /\ pc \in {"serve", "summary"} /\ ~IsClient /\ Config.single_shot =>
       reports = 0
  /\ pc \in {"notice", "close_socket", "close_reporter", "catch"} /\ ~failed =>
       Done
  /\ pc \in {"cleanup", "exited"} /\ exit_code = 0 /\ cfg # {} => Done

Documents ==
  [started : BOOLEAN, intervals : 0..MaxIntervals,
   end : {"missing", "summary", "null"}]

\* What was printed while the Reporter exists ...
PrintedSoFar ==
  /\ json.end = IF reports = 0 THEN "missing" ELSE "summary"
  /\ Len(printed) = reports
  /\ \A i \in 1..Len(printed) : printed[i].end = "summary"
  /\ reports > 0 => printed[Len(printed)].intervals = intervals

\* ... and when it is gone.
PrintedInTheEnd ==
  /\ Len(printed) = IF reports = 0 THEN 1 ELSE reports
  /\ \A i \in 1..Len(printed) :
       printed[i].end = IF reports = 0 THEN "null" ELSE "summary"
  /\ printed[Len(printed)].intervals = intervals

DocumentInv ==
  /\ printed \in Seq(Documents) /\ json \in Documents
  /\ intervals \in 0..MaxIntervals /\ reports \in Nat
  /\ json.started => Config.json_output /\ json.intervals = intervals
  /\ pc \in BeforeHeader =>
       /\ ~json.started /\ json.end = "missing" /\ json.intervals = intervals
       /\ printed = <<>>
  /\ json.started => IF pc \in {"catch", "cleanup", "exited"}
                     THEN PrintedInTheEnd ELSE PrintedSoFar

-----------------------------------------------------------------------------
(* The Config *)

\* As long as main() keeps its Config, it is the same one.
LEMMA SameConfig == cfg' = cfg => Config' = Config
BY DEF Config

\* parse_bitrate() returns a uint64_t.
LEMMA BitrateType ==
  ASSUME NEW s \in BitrateStrings, NEW b \in ParseBitrate(s)
  PROVE  b \in AnyBitrate
<1>1. CASE s.kind # "number"
  BY <1>1 DEF ParseBitrate, BitrateStrings, AnyBitrate
<1>2. CASE s.kind = "number"
  <2> DEFINE v == (s.tenths * Multiplier[s.suffix]) \div 10
  <2>1. s.tenths \in Int /\ s.suffix \in {"b", "k", "m", "g"}
    BY <1>2 DEF BitrateStrings
  <2>2. Multiplier[s.suffix] \in Nat
    <3>1. Kilo * Kilo \in Nat
      OBVIOUS
    <3>2. Kilo * Kilo * Kilo \in Nat
      BY <3>1
    <3> QED
      BY <2>1, <3>1, <3>2 DEF Multiplier
  <2>3. CASE s.tenths <= 0
    BY <1>2, <2>3 DEF ParseBitrate, AnyBitrate
  <2>4. CASE s.tenths > 0
    <3>1. \A m \in Nat : s.tenths * m \in Nat
      BY <2>1, <2>4
    <3>2. s.tenths * Multiplier[s.suffix] \in Nat
      BY <2>2, <3>1
    <3>3. \A n \in Nat : n \div 10 \in Nat
      OBVIOUS
    <3>4. v \in Nat
      BY <3>2, <3>3
    <3>5. b \in ToUint64(v)
      BY <1>2, <2>1, <2>4 DEF ParseBitrate
    <3> HIDE DEF v
    <3> QED
      BY <3>4, <3>5 DEF ToUint64, AnyBitrate
  <2> QED
    BY <2>1, <2>3, <2>4
<1> QED
  BY <1>1, <1>2

LEMMA WidthsType ==
  /\ WordMax \in Nat \ {0} /\ SecondNs \in Nat \ {0} /\ BurstNs \in Nat \ {0}
  /\ MsPerSecond \in Nat \ {0}
OBVIOUS

\* A burst of more than one packet, rounded up, is one that fits its type as
\* long as the packets of its time do.
LEMMA RoundedUp ==
  ASSUME NEW n \in Nat, NEW d \in Nat \ {0}, NEW w \in Nat, d < n, ~(n > w * d)
  PROVE  (n + d - 1) \div d \in 1..w
<1> DEFINE q == (n + d - 1) \div d
           r == (n + d - 1) % d
<1>1. n + d - 1 \in Nat /\ n + d - 1 >= d
  OBVIOUS
<1>2. /\ \A a \in Nat, b \in Nat \ {0} :
           a \div b \in Nat /\ a = b * (a \div b) + (a % b) /\ a % b \in Nat
      /\ \A a \in Nat, b \in Nat \ {0} : a >= b => a \div b >= 1
  <2>1. \A a \in Nat, b \in Nat \ {0} :
          a \div b \in Nat /\ a = b * (a \div b) + (a % b) /\ a % b \in Nat
    BY SMT
  <2>2. \A a \in Nat, b \in Nat \ {0} : a >= b => a \div b >= 1
    BY SMT
  <2> QED
    BY <2>1, <2>2
<1>3. q \in Nat /\ q >= 1 /\ n + d - 1 = d * q + r /\ r \in Nat
  BY <1>1, <1>2
<1> HIDE DEF q, r
<1>4. q <= w
  <2> SUFFICES ASSUME q > w PROVE FALSE
    BY <1>3
  <2>1. \A a, b, c \in Nat : a >= b => c * a >= c * b
    BY SMT
  <2>2. d * q >= d * (w + 1)
    BY <1>3, <2>1
  <2>3. d * (w + 1) = w * d + d /\ w * d \in Nat /\ d * q \in Nat
    BY <1>3, SMT
  <2> QED
    BY <1>3, <2>2, <2>3
<1> QED
  BY <1>3, <1>4 DEF q

\* The bursts of an accepted Config are at least one packet, within the limit.
LEMMA BurstsFit ==
  ASSUME NEW c, c.bitrate_bps \in Nat, c.packet_len \in Nat \ {0},
         ~BurstOverflows(c)
  PROVE  BurstSizes(c) \subseteq 1..WordMax
<1> USE WidthsType
<1> DEFINE n == BurstNs * c.bitrate_bps
           d == PacketNs(c)
<1>1. n \in Nat /\ d \in Nat \ {0}
  <2>1. \A a, b \in Nat : a * b \in Nat /\ (a # 0 /\ b # 0 => a * b # 0)
    BY SMT
  <2>2. c.packet_len * 8 \in Nat \ {0}
    OBVIOUS
  <2> QED
    BY <2>1, <2>2 DEF PacketNs
<1>2. ~(n > WordMax * d)
  BY DEF BurstOverflows
<1>3. BurstSizes(c) = IF d < n THEN {(n + d - 1) \div d} ELSE {1}
  BY DEF BurstSizes
<1> HIDE DEF n, d
<1>4. CASE d < n
  BY <1>1, <1>2, <1>3, <1>4, RoundedUp
<1>5. CASE ~(d < n)
  BY <1>3, <1>5
<1> QED
  BY <1>4, <1>5

\* The idle timeout of an accepted Config is the one asked for, within the
\* limit.
LEMMA TimeoutFits ==
  ASSUME NEW c, c.idle_timeout_sec \in Nat \ {0}, ~TimeoutOverflows(c)
  PROVE  /\ RecvTimeout(c) = c.idle_timeout_sec * MsPerSecond
         /\ RecvTimeout(c) > 0
<1> USE WidthsType
<1> DEFINE ms == c.idle_timeout_sec * MsPerSecond
<1>1. ms \in Nat \ {0}
  <2>1. \A a, b \in Nat \ {0} : a * b \in Nat \ {0}
    BY SMT
  <2> QED
    BY <2>1
<1>2. ms < WordMax + 1
  <2>1. ~(ms > WordMax)
    BY DEF TimeoutOverflows
  <2> HIDE DEF ms
  <2> QED
    BY <1>1, <2>1
<1>3. \A a \in Nat, b \in Nat \ {0} : a < b => a % b = a
  BY SMT
<1>4. RecvTimeout(c) = ms % (WordMax + 1)
  BY DEF RecvTimeout
<1> HIDE DEF ms
<1>5. RecvTimeout(c) = ms /\ ms > 0
  BY <1>1, <1>2, <1>3, <1>4
<1> QED
  BY <1>5 DEF ms

\* A Config of parse_args() is one the sender and the server can work with.
LEMMA AcceptedIsUsable ==
  ASSUME GivensTyped, NEW g \in Givens, NEW b \in ParseBitrate(g.bitrate),
         Accepts(g, b)
  PROVE  /\ Usable(ConfigOf(g, b))
         /\ ConfigOf(g, b).bitrate_bps \in AnyBitrate
         /\ ConfigOf(g, b).json_output \in BOOLEAN
         /\ ConfigOf(g, b).mode = IF g.server_mode THEN "SERVER" ELSE "CLIENT"
<1>1. b \in AnyBitrate
  BY BitrateType DEF GivensTyped
<1>2. /\ g.duration_sec \in Nat /\ g.interval_sec \in Nat
      /\ g.idle_timeout_sec \in Nat
      /\ g.server_mode \in BOOLEAN /\ g.json_output \in BOOLEAN
  BY DEF GivensTyped
<1>3. Interval(g) \in 0..g.duration_sec /\ IdleTimeout(g) \in Nat \ {0}
  BY <1>2 DEF Interval, IdleTimeout
<1> DEFINE c == ConfigOf(g, b)
<1>5. /\ c.mode = IF g.server_mode THEN "SERVER" ELSE "CLIENT"
      /\ c.bitrate_bps = b
      /\ c.packet_len = g.packet_len /\ c.duration_sec = g.duration_sec
      /\ c.interval_sec = Interval(g) /\ c.idle_timeout_sec = IdleTimeout(g)
      /\ c.json_output = g.json_output
  BY DEF ConfigOf
<1>6. /\ b # 0 /\ g.duration_sec >= 1
      /\ g.packet_len \in MIN_PACKET_LEN..MAX_UDP_PAYLOAD
  BY Zenon DEF Accepts
<1> HIDE DEF c
<1>7. /\ c.bitrate_bps \in Nat /\ c.bitrate_bps > 0
      /\ c.packet_len \in Nat \ {0} /\ c.packet_len >= HEADER_SIZE
      /\ c.idle_timeout_sec \in Nat \ {0}
      /\ c.duration_sec >= 1 /\ c.interval_sec \in 0..c.duration_sec
  BY <1>1, <1>3, <1>5, <1>6
     DEF AnyBitrate, MIN_PACKET_LEN, HEADER_SIZE, MAX_UDP_PAYLOAD
<1>8. Usable(c)
  BY <1>7, BurstsFit, TimeoutFits DEF Usable
<1> QED
  BY <1>1, <1>2, <1>5, <1>8 DEF c, AnyBitrate

\* What Parse leaves behind.
LEMMA ParseConfig ==
  ASSUME GivensTyped, given \in Givens, Parse
  PROVE  \/ cfg' = cfg /\ pc' \in {"exited", "cleanup"}
         \/ /\ cfg' # {} /\ Config'.json_output \in BOOLEAN
            /\ \A c \in cfg' : Usable(c) /\ c.bitrate_bps \in AnyBitrate
            /\ pc' \in {"socket", "resolve"}
            /\ pc' = "resolve" => IsClient'
<1>1. CASE cfg' = cfg /\ pc' \in {"exited", "cleanup"}
  BY <1>1
<1>2. ASSUME NEW b \in ParseBitrate(given.bitrate), Accepts(given, b),
             cfg' = {ConfigOf(given, b)},
             pc' = IF given.server_mode THEN "socket" ELSE "resolve"
      PROVE  /\ cfg' # {} /\ Config'.json_output \in BOOLEAN
             /\ \A c \in cfg' : Usable(c) /\ c.bitrate_bps \in AnyBitrate
             /\ pc' \in {"socket", "resolve"}
             /\ pc' = "resolve" => IsClient'
  <2>1. Config' = ConfigOf(given, b)
    BY <1>2 DEF Config
  <2>2. /\ Usable(ConfigOf(given, b))
        /\ ConfigOf(given, b).bitrate_bps \in AnyBitrate
        /\ ConfigOf(given, b).json_output \in BOOLEAN
        /\ ConfigOf(given, b).mode =
             IF given.server_mode THEN "SERVER" ELSE "CLIENT"
    BY <1>2, AcceptedIsUsable
  <2>3. given.server_mode \in BOOLEAN
    BY DEF GivensTyped
  <2> QED
    BY <1>2, <2>1, <2>2, <2>3 DEF IsClient
<1> QED
  BY <1>1, <1>2 DEF Parse, Goto

-----------------------------------------------------------------------------
(* Places *)

LEMMA PlaceInit == Init => PlaceInv
BY DEF Init, PlaceInv, ClientPlaces, ThreadsRun, Unwinding

\* The places of main() follow each other as run_server() and run_client()
\* say, and an exception only leads out of them.
LEMMA PlaceStep ==
  ASSUME GivensTyped
  PROVE  given \in Givens /\ PlaceInv /\ ThreadInv /\ [Next]_vars => PlaceInv'
<1> SUFFICES ASSUME given \in Givens, PlaceInv, ThreadInv, [Next]_vars
             PROVE  PlaceInv'
  OBVIOUS
<1> USE DEF PlaceInv, ClientPlaces, ThreadsRun, Unwinding, Goto
<1>1. CASE Startup
  BY <1>1, SameConfig DEF Startup, configVars
<1>2. CASE Parse
  BY <1>2, ParseConfig, SameConfig DEF Parse
<1>3. CASE Resolve \/ CreateSocket \/ Bind \/ Connect
  BY <1>3, SameConfig
     DEF Resolve, CreateSocket, Bind, Connect, configVars, ThrowEarly, Throw,
         BindFails, IsClient
<1>4. CASE ReportStart \/ SendStart \/ SpawnSender \/ SpawnReceiver \/ Join
  BY <1>4, SameConfig
     DEF ReportStart, SendStart, SpawnSender, SpawnReceiver, Join, configVars,
         Throw, Terminated, IsClient
<1>5. CASE ClientSummary \/ Serve \/ ServerSummary \/ Notice
  BY <1>5, SameConfig
     DEF ClientSummary, Serve, ServerSummary, Notice, configVars, Throw,
         IsClient
<1>6. CASE Unwind \/ CloseReporter \/ Catch \/ Cleanup
  BY <1>6, SameConfig
     DEF Unwind, CloseReporter, Catch, Cleanup, configVars
<1>7. CASE SenderThrows
  BY <1>7, SameConfig DEF SenderThrows, Runs, Gone, ThreadInv, Threads,
                          configVars
<1>8. CASE SenderSends \/ SenderReported \/ ReceiverResult
  BY <1>8, SameConfig
     DEF SenderSends, SenderReported, ReceiverResult, mainVars, controlVars,
         configVars, IsClient
<1>9. CASE \E t \in {"sender", "receiver"} : Thread(t)
  BY <1>9, SameConfig
     DEF Thread, EnterReporter, MessageWritten, ThreadEnds, mainVars,
         controlVars, configVars, IsClient
<1>10. CASE CtrlC
  BY <1>10, SameConfig DEF CtrlC, controlVars, IsClient
<1>11. CASE UNCHANGED vars
  BY <1>11, SameConfig DEF vars, mainVars, controlVars, configVars, IsClient
<1> QED
  BY <1>1, <1>2, <1>3, <1>4, <1>5, <1>6, <1>7, <1>8, <1>9, <1>10, <1>11
     DEF Next, Main

-----------------------------------------------------------------------------
(* Sockets and Winsock *)

LEMMA SocketInit == Init => SocketInv
BY DEF Init, SocketInv, CleanupInOrder

\* Each way out of the program passes the destructor of what it opened.
LEMMA SocketStep == SocketInv /\ ThreadInv /\ [Next]_vars => SocketInv'
<1> SUFFICES ASSUME SocketInv, ThreadInv, [Next]_vars PROVE SocketInv'
  OBVIOUS
<1> USE DEF SocketInv, CleanupInOrder, Goto
<1>1. CASE Startup
  BY <1>1 DEF Startup, configVars
<1>2. CASE Parse
  BY <1>2 DEF Parse, socketVars, ShowsVersion, Accepts
<1>3. CASE Resolve \/ CreateSocket \/ Bind \/ Connect
  BY <1>3 DEF Resolve, CreateSocket, Bind, Connect, socketVars, ThrowEarly,
              Throw, BindFails, CloseSocket
<1>4. CASE ReportStart \/ SendStart \/ SpawnSender \/ SpawnReceiver \/ Join
  BY <1>4 DEF ReportStart, SendStart, SpawnSender, SpawnReceiver, Join,
              socketVars, Throw, Terminated
<1>5. CASE ClientSummary \/ Serve \/ ServerSummary \/ Notice
  BY <1>5 DEF ClientSummary, Serve, ServerSummary, Notice, socketVars, Throw
<1>6. CASE Unwind \/ CloseReporter \/ Catch \/ Cleanup
  BY <1>6 DEF Unwind, CloseReporter, Catch, Cleanup, socketVars, configVars,
              CloseSocket
<1>7. CASE SenderThrows
  BY <1>7 DEF SenderThrows, Runs, Gone, ThreadInv, ThreadsRun, Threads,
              socketVars
<1>8. CASE SenderSends \/ SenderReported \/ ReceiverResult
  BY <1>8 DEF SenderSends, SenderReported, ReceiverResult, mainVars,
              controlVars, configVars, socketVars
<1>9. CASE \E t \in {"sender", "receiver"} : Thread(t)
  BY <1>9 DEF Thread, EnterReporter, MessageWritten, ThreadEnds, mainVars,
              controlVars, configVars, socketVars
<1>10. CASE CtrlC
  BY <1>10 DEF CtrlC, controlVars, socketVars
<1>11. CASE UNCHANGED vars
  BY <1>11 DEF vars, mainVars, controlVars, configVars, socketVars
<1> QED
  BY <1>1, <1>2, <1>3, <1>4, <1>5, <1>6, <1>7, <1>8, <1>9, <1>10, <1>11
     DEF Next, Main

-----------------------------------------------------------------------------
(* Threads *)

ThreadStates == [Threads -> {"none", "running", "ended"}]

LEMMA ThreadInit == Init => ThreadInv /\ threads \in ThreadStates
BY DEF Init, ThreadInv, ThreadStates, Threads

\* main() leaves the places where threads run only through the joins, or with
\* the whole process.
LEMMA ThreadStep ==
  ThreadInv /\ threads \in ThreadStates /\ [Next]_vars =>
    ThreadInv' /\ threads' \in ThreadStates
<1> SUFFICES ASSUME ThreadInv, threads \in ThreadStates, [Next]_vars
             PROVE  ThreadInv' /\ threads' \in ThreadStates
  OBVIOUS
<1> USE DEF ThreadInv, ThreadsRun, ThreadStates, Threads, Goto
<1>1. CASE Startup \/ Parse
  BY <1>1 DEF Startup, Parse, threadVars
<1>2. CASE Resolve \/ CreateSocket \/ Bind \/ Connect
  BY <1>2 DEF Resolve, CreateSocket, Bind, Connect, threadVars, ThrowEarly,
              Throw, BindFails
<1>3. CASE ReportStart \/ SendStart
  BY <1>3 DEF ReportStart, SendStart, threadVars, Throw
<1>4. CASE SpawnSender \/ SpawnReceiver
  <2>1. ASSUME NEW t \in Threads, Spawn(t), inside' = inside,
               pc' \in {"spawn_receiver", "join_sender"}
        PROVE  ThreadInv' /\ threads' \in ThreadStates
    <3>1. threads' \in ThreadStates
      BY <2>1 DEF Spawn
    <3>2. \A u \in Threads : threads[u] = "running" => threads'[u] = "running"
      BY <2>1 DEF Spawn
    <3> QED
      BY <2>1, <3>1, <3>2
  <2>2. ASSUME UNCHANGED <<threads, inside>>,
               pc' \in {"close_socket", "aborted"},
               pc = "spawn_sender" \/ pc' = "aborted"
        PROVE  ThreadInv' /\ threads' \in ThreadStates
    BY <2>2
  <2> QED
    BY <1>4, <2>1, <2>2 DEF SpawnSender, SpawnReceiver, Throw, Terminated
<1>5. CASE Join
  BY <1>5 DEF Join, Joined, threadVars
<1>6. CASE ClientSummary \/ Serve \/ ServerSummary \/ Notice
  BY <1>6 DEF ClientSummary, Serve, ServerSummary, Notice, threadVars, Throw
<1>7. CASE Unwind \/ CloseReporter \/ Catch \/ Cleanup
  BY <1>7 DEF Unwind, CloseReporter, Catch, Cleanup, threadVars
<1>8. CASE SenderThrows
  BY <1>8 DEF SenderThrows, threadVars
<1>9. CASE SenderSends \/ SenderReported \/ ReceiverResult
  BY <1>9 DEF SenderSends, SenderReported, ReceiverResult, mainVars,
              controlVars, Runs
<1>10. ASSUME NEW t \in Threads, Thread(t)
       PROVE  ThreadInv' /\ threads' \in ThreadStates
  <2>1. pc' = pc /\ threads[t] = "running" /\ pc \in ThreadsRun
    BY <1>10 DEF Thread, EnterReporter, MessageWritten, ThreadEnds, mainVars,
                 controlVars, Runs, Gone
  <2>2. CASE EnterReporter(t)
    BY <2>1, <2>2 DEF EnterReporter
  <2>3. ASSUME NEW v \in {"running", "ended"},
               v = "running" \/ t \notin inside',
               inside' \subseteq inside, threads' = [threads EXCEPT ![t] = v]
        PROVE  ThreadInv' /\ threads' \in ThreadStates
    <3>1. threads' \in ThreadStates
      BY <2>3
    <3>2. \A u \in inside' : threads'[u] = "running"
      BY <2>1, <2>3
    <3>3. pc = "join_receiver" => threads'["sender"] = "ended"
      BY <2>1, <2>3
    <3> QED
      BY <2>1, <2>3, <3>1, <3>2, <3>3
  <2>4. CASE MessageWritten(t)
    BY <2>1, <2>3, <2>4 DEF MessageWritten
  <2>5. CASE ThreadEnds(t)
    BY <2>3, <2>5 DEF ThreadEnds
  <2> QED
    BY <1>10, <2>2, <2>4, <2>5 DEF Thread
<1>11. CASE CtrlC
  BY <1>11 DEF CtrlC, controlVars, threadVars
<1>12. CASE UNCHANGED vars
  BY <1>12 DEF vars, mainVars, controlVars, threadVars
<1> QED
  BY <1>1, <1>2, <1>3, <1>4, <1>5, <1>6, <1>7, <1>8, <1>9, <1>10, <1>11,
     <1>12 DEF Next, Main

-----------------------------------------------------------------------------
(* The theorems about sockets and threads *)

ProcessInv ==
  /\ given \in Givens
  /\ PlaceInv /\ SocketInv /\ ThreadInv /\ threads \in ThreadStates

\* What is open and what runs fits the place of main(), at any time.
LEMMA ProcessInvariant == ASSUME GivensTyped PROVE Spec => []ProcessInv
<1>1. Init => ProcessInv
  BY PlaceInit, SocketInit, ThreadInit DEF ProcessInv, Init
<1>2. given \in Givens /\ [Next]_vars => given' \in Givens
  BY DEF Next, Main, Startup, Parse, Resolve, CreateSocket, Bind, Connect,
         ReportStart, SendStart, SpawnSender, SpawnReceiver, Join,
         ClientSummary, Serve, ServerSummary, Notice, Unwind, CloseReporter,
         Catch, Cleanup, SenderSends, SenderReported, SenderThrows,
         ReceiverResult, Thread, EnterReporter, MessageWritten, ThreadEnds,
         CtrlC, vars, mainVars, configVars
<1>3. ProcessInv /\ [Next]_vars => ProcessInv'
  BY <1>2, PlaceStep, SocketStep, ThreadStep DEF ProcessInv
<1> QED
  BY <1>1, <1>3, PTL DEF Spec

\* For every command line: no thread outlives the objects it refers to.
THEOREM LocalsOutlive ==
  ASSUME GivensTyped PROVE Spec => []LocalsOutliveThreads
<1>1. ProcessInv => LocalsOutliveThreads
  BY DEF ProcessInv, ThreadInv, ThreadStates, Threads, ThreadsRun,
         LocalsOutliveThreads, Runs, Gone
<1> QED
  BY <1>1, ProcessInvariant, PTL

\* For every command line: main() never meets a thread in the Reporter.
THEOREM ReportsAlone ==
  ASSUME GivensTyped PROVE Spec => []MainReportsAlone
<1>1. ProcessInv => MainReportsAlone
  <2> SUFFICES ASSUME ProcessInv, NEW t \in inside,
                      pc \in {"header", "summary", "notice", "close_reporter"}
               PROVE  FALSE
    BY DEF MainReportsAlone
  <2>1. threads[t] = "running"
    BY DEF ProcessInv, ThreadInv
  <2> QED
    BY <2>1 DEF ProcessInv, ThreadInv, ThreadsRun
<1> QED
  BY <1>1, ProcessInvariant, PTL

\* Whatever fails, sockets are closed before Winsock is left, and both are
\* when the program exits.
THEOREM CleanupOrdered ==
  ASSUME GivensTyped PROVE Spec => []CleanupInOrder
<1>1. ProcessInv => CleanupInOrder
  BY DEF ProcessInv, SocketInv
<1> QED
  BY <1>1, ProcessInvariant, PTL

-----------------------------------------------------------------------------
(* Config and types *)

ConfigInv ==
  /\ \A c \in cfg : Usable(c) /\ c.bitrate_bps \in AnyBitrate
  /\ wsa \in {"none", "started", "cleaned"}
  /\ sock \in {"none", "open", "closed"}
  /\ packets_sent \in 0..MaxPackets
  /\ loss_shown \in {"nothing", "number", "--"}
  /\ exit_code \in {0, 1}
  /\ {interrupted, result_received, failed} \subseteq BOOLEAN

LEMMA ConfigStep ==
  ASSUME GivensTyped
  PROVE  given \in Givens /\ ConfigInv /\ [Next]_vars => ConfigInv'
<1> SUFFICES ASSUME given \in Givens, ConfigInv, [Next]_vars PROVE ConfigInv'
  OBVIOUS
<1> USE DEF ConfigInv, Goto, configVars, socketVars, outputVars, threadVars
<1>1. CASE Startup
  BY <1>1 DEF Startup
<1>2. CASE Parse
  <2>1. \A c \in cfg' : Usable(c) /\ c.bitrate_bps \in AnyBitrate
    BY <1>2, ParseConfig
  <2> QED
    BY <1>2, <2>1 DEF Parse
<1>3. CASE Resolve \/ CreateSocket \/ Bind \/ Connect
  BY <1>3 DEF Resolve, CreateSocket, Bind, Connect, ThrowEarly, Throw,
              BindFails, CloseSocket
<1>4. CASE ReportStart \/ SendStart \/ SpawnSender \/ SpawnReceiver \/ Join
  BY <1>4 DEF ReportStart, SendStart, SpawnSender, SpawnReceiver, Join, Throw,
              Terminated
<1>5. CASE ClientSummary \/ Serve \/ ServerSummary \/ Notice
  BY <1>5 DEF ClientSummary, Serve, ServerSummary, Notice, Throw,
              ReportSummary, LossColumn
<1>6. CASE Unwind \/ CloseReporter \/ Catch \/ Cleanup
  BY <1>6 DEF Unwind, CloseReporter, Catch, Cleanup, CloseSocket, CodeOf
<1>7. CASE SenderThrows
  BY <1>7 DEF SenderThrows
<1>8. CASE SenderSends
  BY <1>8 DEF SenderSends, mainVars, controlVars
<1>9. CASE SenderReported \/ ReceiverResult
  BY <1>9 DEF SenderReported, ReceiverResult, mainVars, controlVars
<1>10. CASE \E t \in {"sender", "receiver"} : Thread(t)
  BY <1>10 DEF Thread, EnterReporter, MessageWritten, ThreadEnds, mainVars,
               controlVars
<1>11. CASE CtrlC
  BY <1>11 DEF CtrlC, controlVars
<1>12. CASE UNCHANGED vars
  BY <1>12 DEF vars, mainVars, controlVars
<1> QED
  BY <1>1, <1>2, <1>3, <1>4, <1>5, <1>6, <1>7, <1>8, <1>9, <1>10, <1>11,
     <1>12 DEF Next, Main

LEMMA ConfigInvariant ==
  ASSUME GivensTyped PROVE Spec => [](ProcessInv /\ ConfigInv)
<1>1. ASSUME Init PROVE ConfigInv
  <2>1. 0 \in 0..MaxPackets
    OBVIOUS
  <2>2. {interrupted, result_received, failed} \subseteq BOOLEAN
    BY <1>1 DEF Init
  <2> QED
    BY <1>1, <2>1, <2>2 DEF Init, ConfigInv
<1>2. ProcessInv /\ ConfigInv /\ [Next]_vars => ConfigInv'
  BY ConfigStep DEF ProcessInv
<1> QED
  BY <1>1, <1>2, ProcessInvariant, PTL DEF Spec

\* Whatever command line is given, whatever the widths and the multipliers: a
\* Config that passes parse_args() is one the pacer, the sender and the server's
\* socket can work with, or one whose burst or idle timeout passes 32 bits.
THEOREM AcceptedUsable ==
  ASSUME GivensTyped PROVE Spec => []AcceptedConfigIsUsable
<1>1. ConfigInv => AcceptedConfigIsUsable
  BY DEF ConfigInv, AcceptedConfigIsUsable
<1> QED
  BY <1>1, ConfigInvariant, PTL

-----------------------------------------------------------------------------
(* The exit code *)

LEMMA DoneInit == Init => DoneInv
BY DEF Init, DoneInv, BeforeHeader, ClientPlaces, ThreadsRun

LEMMA DoneStep == PlaceInv /\ ThreadInv /\ DoneInv /\ [Next]_vars => DoneInv'
<1> SUFFICES ASSUME PlaceInv, ThreadInv, DoneInv, [Next]_vars PROVE DoneInv'
  OBVIOUS
<1> USE DEF DoneInv, Done, BeforeHeader, ClientPlaces, ThreadsRun, Goto
<1>1. CASE Startup
  BY <1>1 DEF Startup, configVars, outputVars, PlaceInv
<1>2. CASE Parse
  BY <1>2 DEF Parse, outputVars, PlaceInv
<1>3. CASE Resolve \/ CreateSocket \/ Bind \/ Connect
  BY <1>3, SameConfig
     DEF Resolve, CreateSocket, Bind, Connect, configVars, outputVars,
         ThrowEarly, Throw, BindFails
<1>4. CASE ReportStart \/ SendStart \/ SpawnSender \/ SpawnReceiver \/ Join
  BY <1>4, SameConfig
     DEF ReportStart, SendStart, SpawnSender, SpawnReceiver, Join, configVars,
         outputVars, Throw, Terminated, IsClient, PlaceInv
<1>5. CASE ClientSummary
  BY <1>5, SameConfig DEF ClientSummary, ReportSummary, configVars, IsClient,
                          PlaceInv, Unwinding
<1>6. CASE ServerSummary
  BY <1>6, SameConfig DEF ServerSummary, ReportSummary, configVars, IsClient,
                          PlaceInv, Unwinding
<1>7. CASE Serve \/ Notice
  BY <1>7, SameConfig
     DEF Serve, Notice, Throw, configVars, outputVars, IsClient, PlaceInv,
         Unwinding
<1>8. CASE Unwind \/ CloseReporter
  BY <1>8, SameConfig
     DEF Unwind, CloseReporter, configVars, outputVars, IsClient
<1>9. CASE Catch \/ Cleanup
  BY <1>9, SameConfig
     DEF Catch, Cleanup, CodeOf, configVars, outputVars, IsClient
<1>10. CASE SenderThrows
  BY <1>10 DEF SenderThrows
<1>11. CASE SenderSends \/ SenderReported \/ ReceiverResult
  BY <1>11, SameConfig
     DEF SenderSends, SenderReported, ReceiverResult, mainVars, controlVars,
         configVars, outputVars, IsClient
<1>12. CASE \E t \in {"sender", "receiver"} : Thread(t)
  BY <1>12, SameConfig
     DEF Thread, EnterReporter, MessageWritten, ThreadEnds, mainVars,
         controlVars, configVars, outputVars, IsClient
<1>13. CASE CtrlC
  BY <1>13, SameConfig DEF CtrlC, controlVars, outputVars, IsClient
<1>14. CASE UNCHANGED vars
  BY <1>14, SameConfig
     DEF vars, mainVars, controlVars, configVars, outputVars, IsClient
<1> QED
  BY <1>1, <1>2, <1>3, <1>4, <1>5, <1>6, <1>7, <1>8, <1>9, <1>10, <1>11,
     <1>12, <1>13, <1>14 DEF Next, Main

LEMMA DoneInvariant ==
  ASSUME GivensTyped PROVE Spec => [](ProcessInv /\ DoneInv)
<1>1. ProcessInv /\ DoneInv /\ [Next]_vars => DoneInv'
  BY DoneStep DEF ProcessInv
<1> QED
  BY <1>1, DoneInit, ProcessInvariant, PTL DEF Spec

\* An exit code of 0 is never that of a test that was not done.
THEOREM ZeroDone == ASSUME GivensTyped PROVE Spec => []ZeroMeansDone
<1>1. DoneInv => ZeroMeansDone
  BY DEF DoneInv, Done, ZeroMeansDone
<1> QED
  BY <1>1, DoneInvariant, PTL

-----------------------------------------------------------------------------
(* The JSON document *)

LEMMA DocumentInit == Init => DocumentInv
<1> SUFFICES ASSUME Init PROVE DocumentInv
  OBVIOUS
<1>1. 0 \in 0..MaxIntervals
  OBVIOUS
<1>2. json \in Documents /\ json.started = FALSE /\ json.intervals = 0
      /\ json.end = "missing"
  BY <1>1 DEF Init, Documents
<1>3. printed \in Seq(Documents)
  BY DEF Init
<1> QED
  BY <1>1, <1>2, <1>3 DEF Init, DocumentInv

\* One more document is printed.
LEMMA PrintOne ==
  ASSUME printed \in Seq(Documents), json' \in Documents,
         printed' = Append(printed, json')
  PROVE  /\ printed' \in Seq(Documents)
         /\ Len(printed) \in Nat /\ Len(printed') = Len(printed) + 1
         /\ printed'[Len(printed')] = json'
         /\ \A i \in 1..Len(printed) : printed'[i] = printed[i]
<1>1. /\ Len(printed) \in Nat
      /\ Append(printed, json') \in Seq(Documents)
      /\ Len(Append(printed, json')) = Len(printed) + 1
      /\ \A i \in 1..Len(printed) : Append(printed, json')[i] = printed[i]
      /\ Append(printed, json')[Len(printed) + 1] = json'
  BY AppendProperties, LenProperties
<1> QED
  BY <1>1

\* A summary closes the document and prints it.
LEMMA SummaryPrints ==
  ASSUME DocumentInv, pc = "summary", NEW total, ReportSummary(total),
         pc' \notin BeforeHeader \cup {"catch", "cleanup", "exited"},
         intervals' = intervals, Config' = Config
  PROVE  DocumentInv'
<1> USE DEF DocumentInv, BeforeHeader
<1>1. reports' = reports + 1 /\ reports' \in Nat /\ reports' # 0
  BY DEF ReportSummary
<1>2. CASE Config.json_output
  <2>1. json' = [json EXCEPT !.end = "summary"]
        /\ printed' = Append(printed, json')
    BY <1>2 DEF ReportSummary
  <2>2. json' \in Documents /\ json'.end = "summary"
        /\ json'.started = json.started /\ json'.intervals = json.intervals
    BY <2>1 DEF Documents
  <2>3. /\ printed' \in Seq(Documents)
        /\ Len(printed) \in Nat /\ Len(printed') = Len(printed) + 1
        /\ printed'[Len(printed')] = json'
        /\ \A i \in 1..Len(printed) : printed'[i] = printed[i]
    BY <2>1, <2>2, PrintOne
  <2>4. ASSUME json.started PROVE PrintedSoFar'
    <3>1. PrintedSoFar /\ json.intervals = intervals
      BY <2>4
    <3>2. \A i \in 1..Len(printed') :
            i \in 1..Len(printed) \/ i = Len(printed')
      BY <2>3
    <3>3. \A i \in 1..Len(printed') : printed'[i].end = "summary"
      BY <2>2, <2>3, <3>1, <3>2 DEF PrintedSoFar
    <3> QED
      BY <1>1, <2>2, <2>3, <3>1, <3>3 DEF PrintedSoFar
  <2> QED
    BY <1>1, <1>2, <2>2, <2>3, <2>4
<1>3. CASE ~Config.json_output
  BY <1>1, <1>3 DEF ReportSummary
<1> QED
  BY <1>2, <1>3

\* The destructor prints the document that no summary has closed.
LEMMA ClosePrints ==
  ASSUME DocumentInv, CloseReporter, Config' = Config
  PROVE  DocumentInv'
<1> USE DEF DocumentInv, BeforeHeader, CloseReporter, Goto, threadVars
<1>1. CASE Incomplete
  <2>1. json.started /\ PrintedSoFar /\ reports = 0 /\ Len(printed) = 0
    BY <1>1 DEF Incomplete, PrintedSoFar
  <2>2. json' = [json EXCEPT !.end = "null"]
        /\ printed' = Append(printed, json')
    BY <1>1
  <2>3. json' \in Documents /\ json'.end = "null"
        /\ json'.started = json.started /\ json'.intervals = json.intervals
    BY <2>2 DEF Documents
  <2>4. printed' \in Seq(Documents) /\ Len(printed') = 1 /\ printed'[1] = json'
    BY <2>1, <2>2, <2>3, PrintOne
  <2>5. PrintedInTheEnd'
    BY <2>1, <2>3, <2>4 DEF PrintedInTheEnd
  <2> QED
    BY <2>1, <2>3, <2>4, <2>5
<1>2. CASE ~Incomplete
  <2>1. ASSUME json.started PROVE PrintedInTheEnd
    <3>1. PrintedSoFar /\ reports # 0
      BY <1>2, <2>1 DEF Incomplete, PrintedSoFar
    <3> QED
      BY <3>1 DEF PrintedSoFar, PrintedInTheEnd
  <2>2. json.started => PrintedInTheEnd'
    BY <1>2, <2>1 DEF PrintedInTheEnd
  <2> QED
    BY <1>2, <2>2
<1> QED
  BY <1>1, <1>2

\* An interval goes into a document that nobody has printed yet.
LEMMA IntervalAppended ==
  ASSUME DocumentInv, DoneInv, ThreadInv, SenderReported, Config' = Config
  PROVE  DocumentInv'
<1> USE DEF DocumentInv, SenderReported, mainVars, controlVars
<1>1. pc' = pc /\ pc \in ThreadsRun /\ reports = 0 /\ reports' = reports
  BY DEF ThreadInv, Threads, Runs, Gone, DoneInv, ClientPlaces
<1>2. intervals' = intervals + 1 /\ intervals' \in 0..MaxIntervals
  OBVIOUS
<1>3. /\ json' \in Documents /\ json'.started = json.started
      /\ json'.end = json.end
      /\ json.started => json'.intervals = intervals'
  <2>1. CASE json.started
    <3>1. json' = [json EXCEPT !.intervals = @ + 1]
      BY <2>1
    <3>2. json'.intervals = json.intervals + 1 /\ json.intervals = intervals
      BY <2>1, <3>1 DEF Documents
    <3> QED
      BY <1>2, <3>1, <3>2 DEF Documents
  <2>2. CASE ~json.started
    BY <2>2
  <2> QED
    BY <2>1, <2>2
<1>4. json.started => PrintedSoFar'
  BY <1>1, <1>3 DEF PrintedSoFar, ThreadsRun
<1> QED
  BY <1>1, <1>2, <1>3, <1>4 DEF ThreadsRun, BeforeHeader

\* What is left of the steps does not touch the document.
LEMMA DocumentStep ==
  PlaceInv /\ ThreadInv /\ DoneInv /\ DocumentInv /\ [Next]_vars => DocumentInv'
<1> SUFFICES ASSUME PlaceInv, ThreadInv, DoneInv, DocumentInv, [Next]_vars
             PROVE  DocumentInv'
  OBVIOUS
<1> USE DEF BeforeHeader, Goto
<1>1. ASSUME UNCHANGED <<json, printed, reports, intervals>>, ~json.started,
             pc' \in BeforeHeader => pc \in BeforeHeader
      PROVE  DocumentInv'
  BY <1>1 DEF DocumentInv
<1>2. ASSUME UNCHANGED <<json, printed, reports, intervals>>, Config' = Config,
             pc \notin {"catch", "cleanup", "exited"} =>
               pc' \notin {"catch", "cleanup", "exited"},
             pc \in {"catch", "cleanup"} =>
               pc' \in {"catch", "cleanup", "exited"},
             pc \notin {"exited"} \/ pc' = pc,
             pc' \in BeforeHeader => pc \in BeforeHeader
      PROVE  DocumentInv'
  <2>1. (PrintedSoFar => PrintedSoFar') /\ (PrintedInTheEnd => PrintedInTheEnd')
    BY <1>2 DEF PrintedSoFar, PrintedInTheEnd
  <2> QED
    BY <1>2, <2>1 DEF DocumentInv
<1> USE DEF configVars, outputVars, threadVars
<1>3. CASE Startup \/ Parse
  BY <1>1, <1>3 DEF Startup, Parse, DocumentInv
<1>4. CASE Resolve \/ CreateSocket \/ Bind \/ Connect
  <2>1. ~json.started /\ pc \in BeforeHeader
    BY <1>4 DEF DocumentInv, Resolve, CreateSocket, Bind, Connect
  <2> QED
    BY <1>1, <1>4, <2>1 DEF Resolve, CreateSocket, Bind, Connect
<1>5. CASE ReportStart
  <2>1. Config' = Config /\ Config.json_output \in BOOLEAN
    BY <1>5, SameConfig DEF ReportStart, PlaceInv
  <2>2. /\ json' = [json EXCEPT !.started = Config.json_output]
        /\ pc' \in {"send_start", "serve"} /\ reports = 0
        /\ UNCHANGED <<printed, reports, intervals>>
        /\ printed = <<>> /\ json \in Documents /\ json.end = "missing"
        /\ json.intervals = intervals
    BY <1>5 DEF ReportStart, DocumentInv, DoneInv
  <2>3. /\ json' \in Documents /\ json'.end = "missing"
        /\ json'.intervals = intervals /\ json'.started = Config.json_output
    BY <2>1, <2>2 DEF Documents
  <2>4. PrintedSoFar'
    BY <2>2, <2>3 DEF PrintedSoFar
  <2> QED
    BY <2>1, <2>2, <2>3, <2>4 DEF DocumentInv
<1>6. CASE SendStart \/ SpawnSender \/ SpawnReceiver \/ Join
  BY <1>2, <1>6, SameConfig
     DEF SendStart, SpawnSender, SpawnReceiver, Join, Throw, Terminated
<1>7. CASE ClientSummary
  BY <1>7, SummaryPrints, SameConfig DEF ClientSummary
<1>8. CASE ServerSummary
  BY <1>8, SummaryPrints, SameConfig DEF ServerSummary
<1>9. CASE Serve \/ Notice \/ Unwind
  BY <1>2, <1>9, SameConfig DEF Serve, Notice, Unwind, Throw
<1>10. CASE CloseReporter
  BY <1>10, ClosePrints, SameConfig DEF CloseReporter
<1>11. CASE Catch \/ Cleanup
  BY <1>2, <1>11, SameConfig DEF Catch, Cleanup
<1>12. CASE SenderThrows
  BY <1>2, <1>12, SameConfig
     DEF SenderThrows, Runs, Gone, ThreadInv, ThreadsRun, Threads
<1>13. CASE SenderReported
  BY <1>13, IntervalAppended, SameConfig DEF SenderReported, mainVars
<1>14. CASE SenderSends \/ ReceiverResult
  BY <1>2, <1>14, SameConfig
     DEF SenderSends, ReceiverResult, mainVars, controlVars
<1>15. CASE \E t \in {"sender", "receiver"} : Thread(t)
  BY <1>2, <1>15, SameConfig
     DEF Thread, EnterReporter, MessageWritten, ThreadEnds, mainVars,
         controlVars
<1>16. CASE CtrlC
  BY <1>2, <1>16, SameConfig DEF CtrlC, controlVars
<1>17. CASE UNCHANGED vars
  BY <1>2, <1>17, SameConfig DEF vars, mainVars, controlVars
<1> QED
  BY <1>3, <1>4, <1>5, <1>6, <1>7, <1>8, <1>9, <1>10, <1>11, <1>12, <1>13,
     <1>14, <1>15, <1>16, <1>17 DEF Next, Main

LEMMA DocumentInvariant ==
  ASSUME GivensTyped PROVE Spec => [](ProcessInv /\ DocumentInv)
<1>1. ProcessInv /\ DoneInv /\ DocumentInv /\ [Next]_vars => DocumentInv'
  BY DocumentStep DEF ProcessInv
<1> QED
  BY <1>1, DocumentInit, DoneInvariant, PTL DEF Spec

\* For any number of intervals and tests: each summary is one complete
\* document, and a program that had none leaves exactly one that says so.
THEOREM DocumentComplete ==
  ASSUME GivensTyped PROVE Spec => []DocumentPerReport
<1>1. DocumentInv => DocumentPerReport
  BY DEF DocumentInv, DocumentPerReport, PrintedInTheEnd
<1> QED
  BY <1>1, DocumentInvariant, PTL

\* Every variable of the process keeps its type.
THEOREM ProcessTypes == ASSUME GivensTyped PROVE Spec => []TypeOK
<1>1. ProcessInv /\ ConfigInv /\ DocumentInv => TypeOK
  BY DEF ProcessInv, ConfigInv, DocumentInv, TypeOK, Documents, ThreadInv,
         ThreadStates, Threads
<1> QED
  BY <1>1, ConfigInvariant, DocumentInvariant, PTL
=============================================================================
