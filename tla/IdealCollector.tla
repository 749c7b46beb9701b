--------------------------- MODULE IdealCollector ---------------------------
(***************************************************************************)
(* What the numbers of a test promise, kept by a collector that knows the  *)
(* packets themselves and never forgets one: there is no packet_id that    *)
(* may wrap, no set that is pruned and no first packet to be treated       *)
(* apart.  Every delivery is either counted, the first time a packet       *)
(* comes, or is a duplicate, and the loss is what is missing at the end.   *)
(***************************************************************************)
EXTENDS Naturals

VARIABLES sent,      \* how many packets the client has sent
          arrivals,  \* how many deliveries there were, copies included
          counted,   \* the packets that came
          latest,    \* the one of them that came last, 0 before the first
          closed,    \* the test is over
          report     \* the numbers of the server

idealVars == <<sent, arrivals, counted, latest, closed, report>>

Init ==
  /\ sent = 0
  /\ arrivals = 0
  /\ counted = {}
  /\ latest = 0
  /\ closed = FALSE
  /\ report = [received |-> 0, duplicate |-> 0, out_of_order |-> 0, lost |-> 0]

Send ==
  /\ ~closed
  /\ sent' = sent + 1
  /\ UNCHANGED <<arrivals, counted, latest, closed, report>>

\* A packet comes for the first time.
Count ==
  /\ ~closed
  /\ \E p \in 1..sent \ counted :
       /\ counted' = counted \cup {p}
       /\ latest' = p
       /\ report' = [report EXCEPT
                       !.received     = @ + 1,
                       !.out_of_order = IF p < latest THEN @ + 1 ELSE @]
  /\ arrivals' = arrivals + 1
  /\ UNCHANGED <<sent, closed>>

\* A packet comes again.
Repeat ==
  /\ ~closed
  /\ counted # {}
  /\ report' = [report EXCEPT !.duplicate = @ + 1]
  /\ arrivals' = arrivals + 1
  /\ UNCHANGED <<sent, counted, latest, closed>>

Close ==
  /\ ~closed
  /\ closed' = TRUE
  /\ report' = [report EXCEPT !.lost = sent - report.received]
  /\ UNCHANGED <<sent, arrivals, counted, latest>>

Next == Send \/ Count \/ Repeat \/ Close

Spec == Init /\ [][Next]_idealVars
=============================================================================
