----------------------------- MODULE UdpNetwork -----------------------------
(***************************************************************************)
(* The datagrams of the nb protocol (src/protocol_header.hpp and           *)
(* src/control_protocol.cpp) and the UDP network that carries them.        *)
(*                                                                         *)
(* The network is external to the repository and is modelled from how      *)
(* src/udp_socket.cpp uses it: send_to() hands one datagram over and       *)
(* recv_from() takes one that is addressed to the socket.  A datagram that *)
(* is never received is a lost one, any datagram in flight may be received *)
(* next, and at most MaxDup deliveries leave a copy behind.  With Fifo the *)
(* datagrams between two peers arrive in the order they were sent and      *)
(* none is skipped: the link that loses and reorders nothing.              *)
(*                                                                         *)
(* Every datagram of the code that carries other content is another        *)
(* record.  Retries of one message would be equal, so they carry the index *)
(* of the attempt; nobody but Rank reads it.                               *)
(***************************************************************************)
EXTENDS StatsCollector

CONSTANTS Clients,      \* the clients, one test each, by their UDP address
          Server,       \* the server's address
          MaxPackets,   \* bound on the data packets of one test
          MaxFinish,    \* Finish attempts of a client (5)
          MaxAttempts,  \* Result attempts of the server (3)
          MaxDup,       \* bound on the datagrams the network duplicates
          Fifo          \* TRUE: the network neither loses nor reorders

ASSUME NetworkAssumption ==
  /\ Server \notin Clients
  /\ MaxPackets \in Nat
  /\ MaxFinish \in Nat \ {0}
  /\ MaxAttempts \in Nat \ {0}
  /\ MaxDup \in Nat
  /\ Fifo \in BOOLEAN

VARIABLES net,    \* the datagrams in flight
          dups    \* how many deliveries left a copy behind

netVars == <<net, dups>>

-----------------------------------------------------------------------------

DataMsg(c, id) ==
  [type |-> "DATA", from |-> c, to |-> Server, packet_id |-> id]

StartMsg(c) == [type |-> "START", from |-> c, to |-> Server]

\* A Finish that takes the id of the next packet for the number sent.
FinishMsgNextId(c, total, i) ==
  [type |-> "FINISH", from |-> c, to |-> Server, total |-> total + 1, try |-> i]

FinishMsg(c, total, i) ==
  [type |-> "FINISH", from |-> c, to |-> Server, total |-> total, try |-> i]

ResultMsg(c, summary, i) ==
  [type |-> "RESULT", from |-> Server, to |-> c, body |-> summary, try |-> i]

Datagrams ==
       [type : {"DATA"}, from : Clients, to : {Server}, packet_id : 1..MaxPackets]
  \cup [type : {"START"}, from : Clients, to : {Server}]
  \cup [type : {"FINISH"}, from : Clients, to : {Server},
        total : 0..MaxPackets, try : 0..(MaxFinish - 1)]
  \cup [type : {"RESULT"}, from : {Server}, to : Clients,
        body : Summaries, try : 0..(MaxAttempts - 1)]

\* The place of a datagram among those its sender sends to one receiver.
Rank(m) ==
  CASE m.type = "START"  -> 0
    [] m.type = "DATA"   -> m.packet_id
    [] m.type = "FINISH" -> MaxPackets + 1 + m.try
    [] m.type = "RESULT" -> m.try

-----------------------------------------------------------------------------

NetInit == net = {} /\ dups = 0

Send(m) == net' = net \cup {m} /\ UNCHANGED dups

\* A datagram a recv_from() on the socket of peer may return next.
Deliverable(peer) ==
  {m \in net : /\ m.to = peer
               /\ Fifo => \A k \in net : k.from = m.from /\ k.to = m.to
                                           => Rank(m) <= Rank(k)}

\* Delivery takes the datagram out of flight, unless the network copied it.
Receive(m) ==
  \/ net' = net \ {m} /\ UNCHANGED dups
  \/ dups < MaxDup /\ dups' = dups + 1 /\ UNCHANGED net

NetTypeOK == net \subseteq Datagrams /\ dups \in 0..MaxDup
=============================================================================
