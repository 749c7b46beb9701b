------------------------- MODULE MeasurementSession -------------------------
(***************************************************************************)
(* What nb promises about its numbers, with none of the protocol that      *)
(* keeps the promise: no messages, retries, timeouts, threads or faults.   *)
(*                                                                         *)
(* One client at a time is measured.  A client sends packets until it      *)
(* closes its test.  The server decides on at most one report per          *)
(* measurement, which is honest: it never counts more packets than were    *)
(* sent, and its loss is either unknown (total 0) or exactly the packets   *)
(* sent and not received.  A report that was decided may be published any  *)
(* number of times; a client shows at most one, and one of its own.        *)
(***************************************************************************)
EXTENDS Naturals

CONSTANTS Clients, NoClient

VARIABLES measured,    \* the client being measured, or NoClient
          sent,        \* how many packets each client has sent
          closed,      \* the clients that will send no more
          verdict,     \* the report on the measured client: none or one
          published,   \* the reports under way, with their clients
          shown        \* the report each client has: none or one

sessionVars == <<measured, sent, closed, verdict, published, shown>>

Init ==
  /\ measured = NoClient
  /\ sent = [c \in Clients |-> 0]
  /\ closed = {}
  /\ verdict = {}
  /\ published = {}
  /\ shown = [c \in Clients |-> {}]

\* The reports on client c that say nothing wrong.
HonestReports(c) ==
  {r \in [total : {0, sent[c]}, received : 0..sent[c], lost : 0..sent[c]] :
     IF r.total = 0 THEN r.lost = 0
                    ELSE c \in closed /\ r.lost = r.total - r.received}

\* A packet is sent; the error it returns may be the end of the test.
Transmit(c) ==
  /\ c \notin closed
  /\ sent' = [sent EXCEPT ![c] = @ + 1]
  /\ closed' \in {closed, closed \cup {c}}
  /\ UNCHANGED <<measured, verdict, published, shown>>

Close(c) ==
  /\ closed' = closed \cup {c}
  /\ UNCHANGED <<measured, sent, verdict, published, shown>>

Take(c) ==
  /\ measured = NoClient
  /\ measured' = c
  /\ UNCHANGED <<sent, closed, verdict, published, shown>>

Decide ==
  /\ measured # NoClient /\ verdict = {}
  /\ \E r \in HonestReports(measured) : verdict' = {r}
  /\ UNCHANGED <<measured, sent, closed, published, shown>>

Publish ==
  /\ \E r \in verdict :
       published' = published \cup {[client |-> measured, report |-> r]}
  /\ UNCHANGED <<measured, sent, closed, verdict, shown>>

\* The report a client shows may have been copied, and comes again later.
Show(c) ==
  /\ shown[c] = {}
  /\ \E p \in published :
       /\ p.client = c
       /\ shown' = [shown EXCEPT ![c] = {p.report}]
       /\ published' \in {published, published \ {p}}
  /\ UNCHANGED <<measured, sent, closed, verdict>>

\* The measurement is over, with or without a report.
Release ==
  /\ measured' = NoClient
  /\ verdict' = {}
  /\ UNCHANGED <<sent, closed, published, shown>>

Next ==
  \/ Decide \/ Publish \/ Release
  \/ \E c \in Clients : Transmit(c) \/ Close(c) \/ Take(c) \/ Show(c)

Spec == Init /\ [][Next]_sessionVars
=============================================================================
