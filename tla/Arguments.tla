----------------------------- MODULE Arguments ------------------------------
(***************************************************************************)
(* parse_args() of src/argument_parser.cpp: which command lines nb         *)
(* accepts, the Config it makes of them, and what the pacer and the        *)
(* server's socket make of that Config in their own, narrower types.       *)
(*                                                                         *)
(* Given is what CLI11 has read: the flags and the option values, numbers  *)
(* already in their unsigned types, with the defaults filled in.  cli_error*)
(* is a command line it refuses.  The bit rate is still a string: a number *)
(* in tenths with a suffix, a string strtod() does not read to its end, or *)
(* one it reads as infinite or not a number.                               *)
(***************************************************************************)
EXTENDS Integers

CONSTANTS Kilo,        \* 1000
          BitrateMax,  \* 2^64 - 1
          WordMax,     \* 2^32 - 1: the largest uint32_t, and DWORD
          SecondNs,    \* nanoseconds of a second
          BurstNs,     \* burst_threshold_ns (2 ms)
          MsPerSecond  \* 1000

ASSUME ArgumentsAssumption ==
  {Kilo, BitrateMax, WordMax, SecondNs, BurstNs, MsPerSecond}
    \subseteq Nat \ {0}

HEADER_SIZE == 24
MIN_PACKET_LEN == HEADER_SIZE
MAX_UDP_PAYLOAD == 1472

Multiplier ==
  [b |-> 1, k |-> Kilo, m |-> Kilo * Kilo, g |-> Kilo * Kilo * Kilo]

AnyBitrate == 0..BitrateMax

\* A conversion to uint64_t that keeps what does not fit.
Unchecked(value) == {value}

\* The conversion of a double to uint64_t is undefined if it does not fit.
ToUint64(value) == IF value <= BitrateMax THEN {value} ELSE AnyBitrate

\* parse_bitrate(): the values it may return, 0 for an error.
ParseBitrate(s) ==
  CASE s.kind = "malformed"  -> {0}
    [] s.kind = "not_finite" -> AnyBitrate
    [] s.kind = "number"     ->
         IF s.tenths <= 0 THEN {0}
         ELSE ToUint64((s.tenths * Multiplier[s.suffix]) \div 10)

Interval(g) ==
  IF g.interval_sec > g.duration_sec THEN g.duration_sec ELSE g.interval_sec

\* An idle timeout is used as it is given.
IdleTimeoutAsGiven(g) == g.idle_timeout_sec

IdleTimeout(g) == IF g.idle_timeout_sec < 1 THEN 5 ELSE g.idle_timeout_sec

ShowsVersion(g) == ~g.cli_error /\ g.version_flag

\* The validations, with the bit rate parse_bitrate() returned.
Accepts(g, bitrate) ==
  /\ ~g.cli_error
  /\ ~g.version_flag
  /\ g.server_mode # (g.client_host # "")
  /\ g.port >= 1
  /\ bitrate # 0
  /\ g.packet_len \in MIN_PACKET_LEN..MAX_UDP_PAYLOAD
  /\ g.duration_sec >= 1

ConfigOf(g, bitrate) ==
  [mode             |-> IF g.server_mode THEN "SERVER" ELSE "CLIENT",
   server_host      |-> g.client_host,
   port             |-> g.port,
   ipv6             |-> g.ipv6,
   bind_addr        |-> g.bind_addr,
   bitrate_bps      |-> bitrate,
   packet_len       |-> g.packet_len,
   duration_sec     |-> g.duration_sec,
   interval_sec     |-> Interval(g),
   idle_timeout_sec |-> IdleTimeout(g),
   json_output      |-> g.json_output,
   single_shot      |-> g.single_shot]

-----------------------------------------------------------------------------
(* The users of a Config *)

\* A packet takes PacketNs(c) / c.bitrate_bps nanoseconds at the rate.
PacketNs(c) == c.packet_len * 8 * SecondNs

\* The packets of burst_threshold_ns do not fit burst_size_.
BurstOverflows(c) == BurstNs * c.bitrate_bps > WordMax * PacketNs(c)

\* Pacer::Pacer(): the values burst_size_ may have.  The conversion of a double
\* to uint32_t is undefined if it does not fit.
BurstSizes(c) ==
  IF PacketNs(c) < BurstNs * c.bitrate_bps
  THEN IF BurstOverflows(c) THEN 0..WordMax
       ELSE {(BurstNs * c.bitrate_bps + PacketNs(c) - 1) \div PacketNs(c)}
  ELSE {1}

\* set_recv_timeout(): the milliseconds as a DWORD, where 0 is for ever.
RecvTimeout(c) == (c.idle_timeout_sec * MsPerSecond) % (WordMax + 1)

TimeoutOverflows(c) == c.idle_timeout_sec * MsPerSecond > WordMax

\* What the sender and the server do with c is defined: there is a time between
\* packets, the header fits the packet, packet_id is divided by a burst of one
\* packet or more (client_handler.cpp:161), the interval is one the loop of
\* PacedSender is written for, and an idle server wakes after the time that was
\* asked for.  Two limits are checked nowhere: a burst (pacer.cpp:18) and a
\* timeout (udp_socket.cpp:100) that do not fit 32 bits.
Usable(c) ==
  /\ c.bitrate_bps > 0
  /\ c.packet_len >= HEADER_SIZE
  /\ BurstOverflows(c) \/ BurstSizes(c) \subseteq 1..WordMax
  /\ c.duration_sec >= 1 /\ c.interval_sec \in 0..c.duration_sec
  /\ \/ TimeoutOverflows(c)
     \/ RecvTimeout(c) = c.idle_timeout_sec * MsPerSecond /\ RecvTimeout(c) > 0
=============================================================================
