------------------------- MODULE NbRefinementProofs -------------------------
(***************************************************************************)
(* NbSystem implements MeasurementSession, for every value of the          *)
(* constants: each step of the server, of a client's thread or of the      *)
(* environment is one abstract step or leaves the abstract state alone.    *)
(***************************************************************************)
EXTENDS NbSystemProofs

USE StatsAssumption, NetworkAssumption, ServerAssumption
    DEF StatsAssumption, NetworkAssumption, ServerAssumption
USE DEF processVars, testVars, resultVars, threadVars, flagVars, answerVars,
        countVars

-----------------------------------------------------------------------------
(* The invariant of the refinement *)

\* NoneTwice holds at first.
LEMMA NoneTwiceInit == Init => NoneTwice
BY DEF Init, ServerInit, ClientInit, NoneTwice

\* NoneTwice survives every step of the server.
LEMMA NoneTwiceServer ==
  ASSUME NoneTwice, ServerStep
  PROVE  NoneTwice'
<1>1. UNCHANGED <<receiver, result_received>>
  BY DEF ServerStep, clientVars
<1>2. CASE ServerListen \/ ServerListenTimeout \/ ServerListenRecv
  BY <1>1, <1>2 DEF ServerListen, ServerListenTimeout, ServerListenRecv,
                    NoneTwice
<1>3. CASE ServerReceive \/ ServerReceiveTimeout \/ ServerReceiveRecv
             \/ ServerReport \/ ServerSendResult \/ ServerAck
             \/ ServerAckTimeout
  BY <1>1, <1>3 DEF ServerReceive, ServerReceiveTimeout, ServerReceiveRecv,
       ServerReport, ServerSendResult, ServerAck, ServerAckTimeout, NoneTwice
<1>4. CASE ServerIdle
  BY <1>1, <1>4 DEF ServerIdle, AfterTest, NoneTwice
<1>5. CASE ServerDeadlinePasses \/ ServerSocketFails \/ ServerCtrlC
  BY <1>1, <1>5 DEF ServerDeadlinePasses, ServerSocketFails, ServerCtrlC,
                    NoneTwice
<1> QED
  BY <1>2, <1>3, <1>4, <1>5 DEF ServerStep, ServerThread

\* NoneTwice survives every step of a client: only the receiver announces a
\* Result, and it looks at that flag each time before it waits.
LEMMA NoneTwiceClient ==
  ASSUME TypeInv, NoneTwice, NEW c \in Clients, ClientStep(c)
  PROVE  NoneTwice'
<1> USE DEF TypeInv, TypeOK, ClientTypeOK
<1>1. UNCHANGED <<spc, client_addr>>
  BY DEF ClientStep, serverVars
<1>2. CASE UNCHANGED <<receiver, result_received>>
  BY <1>1, <1>2 DEF NoneTwice
<1>3. CASE \/ ClientStart(c) \/ ReceiverCheck(c) \/ ReceiverTimeout(c)
           \/ ReceiverRecv(c) \/ ReceiverFails(c)
  BY <1>1, <1>3 DEF ClientStart, ReceiverCheck, ReceiverStops, ReceiverTimeout,
                    ReceiverRecv, ReceiverFails, NoneTwice
<1>4. \/ UNCHANGED <<receiver, result_received>>
      \/ ClientStart(c) \/ ReceiverCheck(c) \/ ReceiverTimeout(c)
      \/ ReceiverRecv(c) \/ ReceiverFails(c)
  BY DEF ClientStep, SenderThread, ReceiverThread, ClientStartFails,
         ClientReport, SenderLoop, SenderSend, SenderSendFails, SenderExit,
         SenderFinish, SenderFinishFails, SenderWait, TestTimePasses,
         ReceiverDeadlinePasses, ClientCtrlC
<1> QED
  BY <1>2, <1>3, <1>4

RefinementInv == TypeInv /\ ExactnessInv /\ NoneTwice

\* The whole invariant is inductive.
LEMMA RefinementInvariant == Spec => []RefinementInv
<1>1. TypeInv /\ NoneTwice /\ [Next]_vars => NoneTwice'
  <2> SUFFICES ASSUME TypeInv, NoneTwice, [Next]_vars PROVE NoneTwice'
    OBVIOUS
  <2>1. CASE UNCHANGED vars
    BY <2>1 DEF vars, serverVars, clientVars, NoneTwice
  <2> QED
    BY <2>1, NoneTwiceServer, NoneTwiceClient DEF Next
<1> QED
  BY <1>1, NoneTwiceInit, TypeInit, TypeStep, ExactInit, ExactStep, PTL
     DEF Spec, RefinementInv

\* A client keeps the first Result it got, whatever retries, copies and second
\* tests follow.
THEOREM FirstResultKept == Spec => FirstResultIsKept
<1> DEFINE Kept == \A c \in Clients :
                     result_received[c] => server_summary'[c] = server_summary[c]
<1>1. RefinementInv /\ [Next]_vars => [Kept]_vars
  <2> SUFFICES ASSUME RefinementInv, [Next]_vars PROVE Kept
    OBVIOUS
  <2>1. CASE UNCHANGED server_summary
    BY <2>1
  <2>2. ASSUME NEW c \in Clients, ReceiverRecv(c)
        PROVE  Kept
    <3>1. ~result_received[c]
      BY <2>2 DEF ReceiverRecv, RefinementInv, NoneTwice
    <3> QED
      BY <2>2, <3>1
         DEF ReceiverRecv, RefinementInv, TypeInv, TypeOK, ClientTypeOK
  <2>3. UNCHANGED server_summary \/ \E c \in Clients : ReceiverRecv(c)
    BY DEF Next, ServerStep, ClientStep, vars, clientVars, SenderThread,
           ReceiverThread, ClientStart, ClientStartFails, ClientReport,
           SenderLoop, SenderSend, SenderSendFails, SenderExit, SenderFinish,
           SenderFinishFails, SenderWait, ReceiverCheck, ReceiverTimeout,
           ReceiverFails, TestTimePasses, ReceiverDeadlinePasses, ClientCtrlC
  <2> QED
    BY <2>1, <2>2, <2>3
<1> QED
  BY <1>1, RefinementInvariant, PTL DEF Spec, FirstResultIsKept

-----------------------------------------------------------------------------
(* What the abstract state depends on *)

\* The abstract state of the clients.
LEMMA ClientStateKept ==
  /\ UNCHANGED <<sender, main>> => ClosedTests' = ClosedTests
  /\ UNCHANGED <<result_received, server_summary>> => Shown' = Shown
BY DEF ClosedTests, PastDataLoop, Shown

\* The abstract state of the server.
LEMMA ServerStateKept ==
  UNCHANGED <<spc, client_addr, summary>>
    => Measured' = Measured /\ Verdict' = Verdict
BY DEF Measured, Verdict, ServerOver

\* What the server takes off the network is no Result.
LEMMA ServerTakesNoResult ==
  ASSUME NetTypeOK, NEW m \in Deliverable(Server), Receive(m)
  PROVE  Results' = Results
<1>1. m.type # "RESULT"
  BY DeliverableType, DatagramFields
<1> QED
  BY <1>1 DEF Results, Receive

\* Only sending a Result publishes a report.
LEMMA ResultsKept ==
  ASSUME Results' = Results
  PROVE  Published' = Published
BY DEF Published

\* A datagram of another type publishes nothing.
LEMMA SendsNoResult ==
  ASSUME NEW m, m.type # "RESULT", Send(m)
  PROVE  Published' = Published
<1>1. Results' = Results
  BY DEF Send, Results
<1> QED
  BY <1>1, ResultsKept

\* Whatever leaves the network alone leaves the reports alone.
LEMMA NetKept == UNCHANGED net => Published' = Published
<1>1. UNCHANGED net => Results' = Results
  BY DEF Results
<1> QED
  BY <1>1, ResultsKept

\* Sending a Result publishes its report.
LEMMA SendPublishes ==
  ASSUME NEW c, NEW s, NEW i, Send(ResultMsg(c, s, i))
  PROVE  Published' = Published \cup {[client |-> c, report |-> Report(s)]}
<1> DEFINE m == ResultMsg(c, s, i)
<1>1. m.type = "RESULT" /\ m.to = c /\ m.body = s
  BY DEF ResultMsg
<1>2. net' = net \cup {m}
  BY DEF Send
<1> HIDE DEF m
<1>3. Results' = Results \cup {m}
  BY <1>1, <1>2 DEF Results
<1> QED
  BY <1>1, <1>3 DEF Published

\* Receiving a Result removes its report, unless it is still under way.
LEMMA ReceiveShows ==
  ASSUME NEW m \in net, m.type = "RESULT", Receive(m)
  PROVE  LET p == [client |-> m.to, report |-> Report(m.body)]
         IN  p \in Published /\ Published' \in {Published, Published \ {p}}
<1> DEFINE Of(r) == [client |-> r.to, report |-> Report(r.body)]
<1>1. m \in Results /\ Results' \in {Results, Results \ {m}}
  BY DEF Results, Receive
<1>2. Published = {Of(r) : r \in Results} /\ Published' = {Of(r) : r \in Results'}
  BY DEF Published
<1> HIDE DEF Of
<1>3. CASE Results' = Results
  BY <1>1, <1>2, <1>3 DEF Of
<1>4. CASE Results' = Results \ {m} /\ \E k \in Results' : Of(k) = Of(m)
  BY <1>1, <1>2, <1>4 DEF Of
<1>5. CASE Results' = Results \ {m} /\ \A k \in Results' : Of(k) # Of(m)
  <2>1. Published' = Published \ {Of(m)}
    BY <1>1, <1>2, <1>5
  <2> QED
    BY <1>1, <1>2, <2>1 DEF Of
<1> QED
  BY <1>1, <1>3, <1>4, <1>5

-----------------------------------------------------------------------------
(* The steps of the server *)

AbstractStep == [Abstract!Next]_(Abstract!sessionVars)

\* What the server decides to report is honest.
LEMMA ReportIsHonest ==
  ASSUME RefinementInv, ServerReport, spc' = "send_result"
  PROVE  Report(summary') \in Abstract!HonestReports(client_addr)
<1> USE DEF RefinementInv, TypeInv, TypeOK, ExactnessInv
<1> DEFINE n == packets_sent[client_addr]
           s == Finalize(stats)
<1>1. client_addr \in Clients /\ client_addr # NoClient
  BY DEF ServerReport, Serving, ServerTypeOK
<1>2. stats \in Collectors /\ n \in Nat
  BY <1>1 DEF ServerTypeOK, ClientTypeOK
<1>3. stats.packets_received <= n
  BY <1>1, <1>2, CountIsBounded DEF CountsOnlyItsClient
<1>4. stats.total_packets > 0 =>
        stats.total_packets = n /\ client_addr \in ClosedTests
  BY <1>1 DEF TotalIsFinal, ClosedTests
<1>5. /\ s.total_packets = stats.total_packets
      /\ s.packets_received = stats.packets_received
      /\ s.lost_packets = LossOf(stats.total_packets, stats.packets_received)
  BY DEF Finalize
<1>6. s \in Summaries /\ summary' = [s EXCEPT !.packets_sent = s.total_packets]
  BY <1>2, FinalizeType DEF ServerReport
<1> HIDE DEF s
<1>7. Report(summary') = [total    |-> stats.total_packets,
                          received |-> stats.packets_received,
                          lost     |-> LossOf(stats.total_packets,
                                              stats.packets_received)]
  BY <1>5, <1>6 DEF Report, Summaries
<1>8. stats.total_packets \in Nat /\ stats.packets_received \in Nat
  BY <1>2 DEF Collectors
<1> HIDE DEF n
<1>9. /\ stats.total_packets \in {0, n}
      /\ stats.packets_received \in 0..n
      /\ LossOf(stats.total_packets, stats.packets_received) \in 0..n
      /\ stats.total_packets = 0 =>
           LossOf(stats.total_packets, stats.packets_received) = 0
      /\ stats.total_packets # 0 =>
           /\ LossOf(stats.total_packets, stats.packets_received)
                = stats.total_packets - stats.packets_received
           /\ client_addr \in ClosedTests
  BY <1>2, <1>3, <1>4, <1>8 DEF LossOf
<1> QED
  BY <1>7, <1>9 DEF Abstract!HonestReports, n

\* Every step of the server implements an abstract one.
LEMMA ServerImplements ==
  ASSUME RefinementInv, ServerStep
  PROVE  AbstractStep
<1> USE DEF RefinementInv, TypeInv, TypeOK, ExactnessInv
<1>1. /\ packets_sent' = packets_sent
      /\ ClosedTests' = ClosedTests /\ Shown' = Shown
  BY ClientStateKept DEF ServerStep, clientVars
<1>2. CASE Measured' = Measured /\ Verdict' = Verdict /\ Published' = Published
  BY <1>1, <1>2 DEF AbstractStep, Abstract!sessionVars
<1>3. CASE Measured' = NoClient /\ Verdict' = {} /\ Published' = Published
  BY <1>1, <1>3 DEF AbstractStep, Abstract!Next, Abstract!Release
<1>4. CASE \/ ServerListen \/ ServerListenTimeout \/ ServerReceive
           \/ ServerReceiveTimeout \/ ServerDeadlinePasses \/ ServerCtrlC
           \/ ServerAckTimeout \/ ServerSocketFails
  <2>1. Published' = Published
    BY <1>4, NetKept
       DEF ServerListen, ServerListenTimeout, ServerReceive,
           ServerReceiveTimeout, ServerDeadlinePasses, ServerCtrlC,
           ServerAckTimeout, ServerSocketFails, netVars
  <2>2. UNCHANGED <<client_addr, summary>>
    BY <1>4
       DEF ServerListen, ServerListenTimeout, ServerReceive,
           ServerReceiveTimeout, ServerDeadlinePasses, ServerCtrlC,
           ServerAckTimeout, ServerSocketFails
  <2>3. \/ Measured' = Measured /\ Verdict' = Verdict
        \/ Measured' = NoClient /\ Verdict' = {}
    <3>1. CASE ServerListen \/ ServerListenTimeout \/ ServerReceive
                 \/ ServerReceiveTimeout \/ ServerSocketFails
      BY <2>2, <3>1
         DEF ServerListen, ServerListenTimeout, ServerReceive,
             ServerReceiveTimeout, ServerSocketFails, Measured, Verdict,
             ServerOver
    <3>2. CASE ServerAckTimeout
      BY <2>2, <3>2 DEF ServerAckTimeout, Measured, Verdict, ServerOver
    <3>3. CASE ServerDeadlinePasses \/ ServerCtrlC
      BY <2>2, <3>3, ServerStateKept DEF ServerDeadlinePasses, ServerCtrlC
    <3> QED
      BY <1>4, <3>1, <3>2, <3>3
  <2> QED
    BY <1>2, <1>3, <2>1, <2>3
<1>5. CASE ServerListenRecv
  <2>1. PICK m \in Deliverable(Server) :
          /\ Receive(m)
          /\ \/ spc' = "listen" /\ UNCHANGED client_addr
             \/ m.type = "START" /\ spc' = "receive" /\ client_addr' = m.from
    BY <1>5 DEF ServerListenRecv
  <2>2. Published' = Published
    BY <2>1, ServerTakesNoResult, ResultsKept
  <2>3. Measured = NoClient /\ Verdict = {} /\ Verdict' = {}
    BY <1>5, <2>1
       DEF ServerListenRecv, NoneTwice, Measured, Verdict, ServerOver
  <2>4. CASE UNCHANGED client_addr /\ spc' = "listen"
    BY <1>2, <1>5, <2>2, <2>3, <2>4
       DEF ServerListenRecv, Measured, NoneTwice, ServerOver
  <2>5. CASE m.type = "START" /\ spc' = "receive" /\ client_addr' = m.from
    <3>1. m.from \in Clients
      BY <2>5, DeliverableType, DatagramFields
    <3>2. Measured' = m.from
      BY <2>5 DEF Measured, ServerOver
    <3>3. Abstract!Take(m.from)
      BY <1>1, <2>2, <2>3, <3>2 DEF Abstract!Take
    <3> QED
      BY <3>1, <3>3 DEF AbstractStep, Abstract!Next
  <2> QED
    BY <2>1, <2>4, <2>5
<1>6. CASE ServerReceiveRecv
  <2>1. Published' = Published
    BY <1>6, ServerTakesNoResult, ResultsKept DEF ServerReceiveRecv
  <2>2. Measured' = Measured /\ Verdict' = Verdict
    BY <1>6 DEF ServerReceiveRecv, Measured, Verdict, ServerOver
  <2> QED
    BY <1>2, <2>1, <2>2
<1>7. CASE ServerReport
  <2>1. Published' = Published
    BY <1>7, NetKept DEF ServerReport, netVars
  <2>2. CASE spc' = "stopped"
    <3>1. Measured' = NoClient /\ Verdict' = {}
      BY <2>2 DEF Measured, Verdict, ServerOver
    <3> QED
      BY <1>3, <2>1, <3>1
  <2>3. CASE spc' = "send_result"
    <3>1. /\ Measured = client_addr /\ Measured' = Measured
          /\ Measured # NoClient
          /\ Verdict = {} /\ Verdict' = {Report(summary')}
      BY <1>7, <2>3
         DEF ServerReport, Serving, ServerTypeOK, Measured, Verdict, ServerOver,
             Report
    <3>2. Report(summary') \in Abstract!HonestReports(Measured)
      BY <1>7, <2>3, <3>1, ReportIsHonest
    <3>3. Abstract!Decide
      BY <1>1, <2>1, <3>1, <3>2 DEF Abstract!Decide
    <3> QED
      BY <3>3 DEF AbstractStep, Abstract!Next
  <2> QED
    BY <1>7, <2>2, <2>3 DEF ServerReport
<1>8. CASE ServerSendResult
  <2>1. Published' = Published
          \cup {[client |-> client_addr, report |-> Report(summary)]}
    BY <1>8, SendPublishes DEF ServerSendResult
  <2>2. /\ Measured = client_addr /\ Measured' = Measured
        /\ Verdict = {Report(summary)} /\ Verdict' = Verdict
    BY <1>8 DEF ServerSendResult, Measured, Verdict, ServerOver, Report
  <2>3. Abstract!Publish
    BY <1>1, <2>1, <2>2 DEF Abstract!Publish
  <2> QED
    BY <2>3 DEF AbstractStep, Abstract!Next
<1>9. CASE ServerAck
  <2>1. Published' = Published
    BY <1>9, ServerTakesNoResult, ResultsKept DEF ServerAck
  <2>2. Measured' = Measured /\ Verdict' = Verdict
    BY <1>9 DEF ServerAck, Measured, Verdict, ServerOver, Report
  <2> QED
    BY <1>2, <2>1, <2>2
<1>10. CASE ServerIdle
  <2>1. Published' = Published
    BY <1>10, NetKept DEF ServerIdle, netVars
  <2>2. Measured' = NoClient /\ Verdict' = {}
    BY <1>10 DEF ServerIdle, AfterTest, Measured, Verdict, ServerOver
  <2> QED
    BY <1>3, <2>1, <2>2
<1> QED
  BY <1>4, <1>5, <1>6, <1>7, <1>8, <1>9, <1>10 DEF ServerStep, ServerThread

-----------------------------------------------------------------------------
(* The steps of the clients *)

\* What a client does to its threads shows as a Close or not at all.
LEMMA ClosingStep ==
  ASSUME RefinementInv, NEW c \in Clients, UNCHANGED packets_sent,
         Measured' = Measured, Verdict' = Verdict, Published' = Published,
         Shown' = Shown, ClosedTests' \in {ClosedTests, ClosedTests \cup {c}}
  PROVE  AbstractStep
<1>1. CASE ClosedTests' = ClosedTests
  BY <1>1 DEF AbstractStep, Abstract!sessionVars
<1>2. CASE ClosedTests' = ClosedTests \cup {c}
  BY <1>2 DEF AbstractStep, Abstract!Next, Abstract!Close
<1> QED
  BY <1>1, <1>2

\* No client opens its test again, and none closes that of another.
LEMMA ClosedByOne ==
  ASSUME RefinementInv, NEW c \in Clients, ClientStep(c)
  PROVE  ClosedTests' \in {ClosedTests, ClosedTests \cup {c}}
<1> USE DEF RefinementInv, TypeInv, TypeOK, ClientTypeOK
<1>1. /\ \A d \in Clients \ {c} : sender'[d] = sender[d] /\ main'[d] = main[d]
      /\ PastDataLoop(c) => PastDataLoop(c)'
  <2>1. CASE ClientStart(c) \/ ClientStartFails(c) \/ ClientReport(c)
               \/ SenderFinishFails(c)
    BY <2>1 DEF ClientStart, ClientStartFails, ClientReport, SenderFinishFails,
                PastDataLoop
  <2>2. CASE SenderLoop(c) \/ SenderSend(c) \/ SenderSendFails(c)
               \/ SenderExit(c) \/ SenderFinish(c) \/ SenderWait(c)
    BY <2>2 DEF SenderLoop, SenderSend, SenderSendFails, SenderExit,
                SenderFinish, SenderWait, PastDataLoop
  <2>3. CASE \/ ReceiverCheck(c) \/ ReceiverTimeout(c) \/ ReceiverRecv(c)
             \/ ReceiverFails(c) \/ TestTimePasses(c)
             \/ ReceiverDeadlinePasses(c) \/ ClientCtrlC(c)
    BY <2>3 DEF ReceiverCheck, ReceiverTimeout, ReceiverRecv, ReceiverFails,
                TestTimePasses, ReceiverDeadlinePasses, ClientCtrlC,
                PastDataLoop
  <2> QED
    BY <2>1, <2>2, <2>3 DEF ClientStep, SenderThread, ReceiverThread
<1>2. \A d \in Clients \ {c} : PastDataLoop(d)' = PastDataLoop(d)
  BY <1>1 DEF PastDataLoop
<1> QED
  BY <1>1, <1>2 DEF ClosedTests

\* Every step of a client implements an abstract one.
LEMMA ClientImplements ==
  ASSUME RefinementInv, NEW c \in Clients, ClientStep(c)
  PROVE  AbstractStep
<1> USE DEF RefinementInv, TypeInv, TypeOK
<1>1. Measured' = Measured /\ Verdict' = Verdict
  BY ServerStateKept DEF ClientStep, serverVars
<1>2. CASE \/ ClientStart(c) \/ ClientStartFails(c) \/ ClientReport(c)
           \/ SenderLoop(c) \/ SenderSendFails(c) \/ SenderExit(c)
           \/ SenderFinish(c) \/ SenderFinishFails(c) \/ SenderWait(c)
           \/ ReceiverCheck(c) \/ ReceiverTimeout(c) \/ ReceiverFails(c)
           \/ TestTimePasses(c) \/ ReceiverDeadlinePasses(c) \/ ClientCtrlC(c)
  <2>1. UNCHANGED <<packets_sent, result_received, server_summary>>
    BY <1>2 DEF ClientStart, ClientStartFails, ClientReport, SenderLoop,
         SenderSendFails, SenderExit, SenderFinish, SenderFinishFails,
         SenderWait, ReceiverCheck, ReceiverTimeout, ReceiverFails,
         TestTimePasses, ReceiverDeadlinePasses, ClientCtrlC
  <2>2. Published' = Published
    <3>1. CASE ClientStart(c)
      <4>1. StartMsg(c).type # "RESULT" /\ Send(StartMsg(c))
        BY <3>1 DEF ClientStart, StartMsg
      <4> QED
        BY <4>1, SendsNoResult
    <3>2. CASE SenderFinish(c)
      <4> DEFINE m == FinishMsg(c, packets_sent[c], finish_try[c])
      <4>1. m.type # "RESULT" /\ Send(m)
        BY <3>2 DEF SenderFinish, FinishMsg
      <4> QED
        BY <4>1, SendsNoResult
    <3>3. UNCHANGED net \/ ClientStart(c) \/ SenderFinish(c)
      BY <1>2 DEF ClientStartFails, ClientReport, SenderLoop, SenderSendFails,
           SenderExit, SenderFinishFails, SenderWait, ReceiverCheck,
           ReceiverTimeout, ReceiverFails, TestTimePasses,
           ReceiverDeadlinePasses, ClientCtrlC, netVars
    <3> QED
      BY <3>1, <3>2, <3>3, NetKept
  <2> QED
    BY <1>1, <2>1, <2>2, ClientStateKept, ClosedByOne, ClosingStep
<1>3. CASE SenderSend(c)
  <2>1. /\ packets_sent' = [packets_sent EXCEPT ![c] = @ + 1]
        /\ UNCHANGED <<result_received, server_summary>>
        /\ c \notin ClosedTests
    BY <1>3 DEF SenderSend, ClosedTests, PastDataLoop
  <2>2. Published' = Published
    <3>1. /\ DataMsg(c, packets_sent[c] + 1).type # "RESULT"
          /\ Send(DataMsg(c, packets_sent[c] + 1))
      BY <1>3 DEF SenderSend, DataMsg
    <3> QED
      BY <3>1, SendsNoResult
  <2>3. Abstract!Transmit(c)
    BY <1>1, <2>1, <2>2, ClientStateKept, ClosedByOne DEF Abstract!Transmit
  <2> QED
    BY <2>3 DEF AbstractStep, Abstract!Next
<1>4. CASE ReceiverRecv(c)
  <2>1. PICK m \in Deliverable(c) :
          /\ m.type = "RESULT"
          /\ Receive(m)
          /\ server_summary' = [server_summary EXCEPT ![c] = m.body]
    BY <1>4 DEF ReceiverRecv
  <2> DEFINE p == [client |-> m.to, report |-> Report(m.body)]
  <2>2. m \in net /\ m.to = c
    BY DeliverableType
  <2>3. p \in Published /\ Published' \in {Published, Published \ {p}}
    BY <2>1, <2>2, ReceiveShows
  <2>4. p.client = c /\ p.report = Report(m.body)
    BY <2>2
  <2>5. /\ UNCHANGED <<packets_sent, sender, main>>
        /\ result_received' = [result_received EXCEPT ![c] = TRUE]
        /\ ~result_received[c]
    BY <1>4 DEF ReceiverRecv, NoneTwice
  <2>6. Shown[c] = {} /\ Shown' = [Shown EXCEPT ![c] = {Report(m.body)}]
    BY <2>1, <2>5 DEF Shown, ClientTypeOK, Report
  <2> HIDE DEF p
  <2>7. Abstract!Show(c)
    BY <1>1, <2>3, <2>4, <2>5, <2>6, ClientStateKept DEF Abstract!Show
  <2> QED
    BY <2>7 DEF AbstractStep, Abstract!Next
<1> QED
  BY <1>2, <1>3, <1>4 DEF ClientStep, SenderThread, ReceiverThread

\* For any number of clients, packets, retries and copies, with every loss,
\* failing call and interrupt: nb measures one client at a time, decides on
\* one honest report for each test, and shows each client at most one report,
\* of its own test.
THEOREM Refinement == Spec => ImplementsMeasurementSession
<1>1. Init => Abstract!Init
  BY DEF Init, NetInit, ServerInit, ClientInit, Abstract!Init, Measured,
         ClosedTests, PastDataLoop, Verdict, Published, Results, Shown
<1>2. RefinementInv /\ [Next]_vars => AbstractStep
  <2> SUFFICES ASSUME RefinementInv, [Next]_vars PROVE AbstractStep
    OBVIOUS
  <2>1. CASE UNCHANGED vars
    BY <2>1, ClientStateKept, ServerStateKept, NetKept
       DEF vars, netVars, serverVars, clientVars, AbstractStep,
           Abstract!sessionVars
  <2> QED
    BY <2>1, ServerImplements, ClientImplements DEF Next
<1> QED
  BY <1>1, <1>2, RefinementInvariant, PTL
     DEF Spec, ImplementsMeasurementSession, Abstract!Spec, AbstractStep
=============================================================================
