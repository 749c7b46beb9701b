---------------------------- MODULE MCNbProcess -----------------------------
(* Command lines that differ from "-c host" or "-s" in one or two options. *)
EXTENDS NbProcess

Plain ==
  [cli_error |-> FALSE, version_flag |-> FALSE, server_mode |-> FALSE,
   client_host |-> "host", port |-> 1, ipv6 |-> FALSE, bind_addr |-> "any",
   bitrate |-> [kind |-> "number", tenths |-> 10, suffix |-> "m"],
   packet_len |-> 1470, duration_sec |-> 2, interval_sec |-> 1,
   idle_timeout_sec |-> 5, json_output |-> FALSE, single_shot |-> FALSE]

PlainServer == [Plain EXCEPT !.server_mode = TRUE, !.client_host = ""]

Bitrates ==
  [kind : {"number"}, tenths : {-10, 0, 5, 15}, suffix : {"b", "k", "m", "g"}]
    \cup [kind : {"malformed", "not_finite"}]

MCGivens ==
  {[p EXCEPT !.json_output = j, !.single_shot = s, !.ipv6 = v,
             !.bind_addr = a] :
     p \in {Plain, PlainServer}, j \in BOOLEAN, s \in BOOLEAN, v \in BOOLEAN,
     a \in {"any", "given"}}
  \cup {[Plain EXCEPT !.bitrate = b, !.packet_len = n] :
          b \in Bitrates, n \in {24, 1470}}
  \cup {[Plain EXCEPT !.packet_len = n] : n \in {0, 23, 24, 1472, 1473}}
  \cup {[Plain EXCEPT !.duration_sec = t, !.interval_sec = i] :
          t \in 0..2, i \in 0..3}
  \cup {[PlainServer EXCEPT !.idle_timeout_sec = t] : t \in {0, 1, 7, 8}}
  \cup {[Plain EXCEPT !.port = 0], [Plain EXCEPT !.server_mode = TRUE],
        [Plain EXCEPT !.client_host = ""], [Plain EXCEPT !.cli_error = TRUE],
        [Plain EXCEPT !.version_flag = TRUE]}
=============================================================================
