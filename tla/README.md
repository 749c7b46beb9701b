# A TLA+ model of nb

`nb` is a UDP throughput tester: a server (`nb -s`) waits for a client
(`nb -c HOST`), the client sends paced data packets for some seconds, says how
many it sent (Finish), and the server answers with what it received (Result).
There are no acknowledgements, sessions or sequence checks below this: the
numbers both sides print are only right if the handlers cope with lost,
reordered and duplicated datagrams, with other clients, with Ctrl+C and with
errors, on a server of one thread and a client of three. That is what this
project models.

Paths are relative to the repository; `src/*.cpp` are the program's sources.

## 1. Inventory

| Component (sources) | State | Operations | Modelled in |
|---|---|---|---|
| Statistics collector (`stats_collector`) | counters, `seen_ids_`, `last_packet_id_`, jitter, total from the Finish | `start_test`, `record_packet`, `set_sender_packets`, `finalize` | `StatsCollector`, driven by `StatsSession` and `NbSystem` |
| Server state machine (`server_handler`) | place of its thread, `client_addr`, deadline, `g_shutdown` | LISTENING, RECEIVING, REPORTING, IDLE/EXIT | `ServerHandler`; with a clock `TimedSession` |
| Client (`client_handler`) | main, sender and receiver thread; `test_completed`, `result_received`, `server_summary`, `packets_sent` | Start, data loop, Finish loop, receive loop, report | `ClientHandler`; with a clock `PacedSender` and `TimedSession` |
| Control protocol (`control_protocol`) | retry counters | messages; `send_result` with its wait for an ACK | messages in `UdpNetwork`, `send_result` in `ServerHandler` and `TimedSession` |
| Wire header (`protocol_header.hpp`) | none | build and parse | `UdpNetwork` (as records) |
| UDP socket (`udp_socket`) | open or closed, receive timeout | create, bind, connect, close; send, receive, timeout, error | `NbProcess`; `UdpNetwork` and the handlers |
| Ctrl+C handler (`console_handler`) | `g_shutdown` | set the flag, on a thread of its own | `ServerCtrlC`, `ClientCtrlC`, `CtrlC` |
| Pacer (`pacer`) and the timed side of the data loop (`client_handler`) | interval, burst size, `next_send`, interval counters | `wait_until`; stamp, send, advance; interval reports | `PacedSender` |
| Reporter (`reporter`) | the JSON document; no lock | header, interval, summary, messages, destructor | `NbProcess` |
| Argument parser (`argument_parser`) | none | parse, validate, clamp | `Arguments`, used by `NbProcess` |
| Entry (`main.cpp`, `platform.hpp`) | Winsock, exit code | start-up, dispatch, handler of exceptions, clean-up | `NbProcess` |
| `third_party` | | | no: vendored libraries |

**Interactions.** Client and server share nothing but datagrams. In the client
the sender writes `packets_sent` and `test_completed`, the receiver writes
`server_summary` and then `result_received`, each reads the other's flag, and
main reads everything after joining both. `g_shutdown` of a process is written
by the console thread and polled by all loops. The server reuses one collector
and one socket for all its clients, one after the other.

**What is hard here.** The Finish may overtake data. The Start may be
duplicated, so that a client is "measured" a second time when it is over. Other
clients' datagrams arrive in every phase, and the wait for the ACK swallows
whatever comes. The client's receiver leaves on the flag its sender sets. The
timeout of the ACK wait stays on the socket that the next loop uses. Ctrl+C and
errors may come anywhere. The sender may be delayed between any two readings of
the clock and must keep the rate. Five timeouts run against each other, on two
machines. Any call of start-up may throw while some of socket, threads and
document exist. The Reporter has no lock. The duplicate-detection set is pruned
behind an id that reordering moves back and forth. The full list, with lines,
is in `PROJECT.json` under `hazards`.

**What makes it correct.** The loss is exact or unknown, never wrong; one
client's packets never show in another's numbers; a link without loss shows no
loss; the first Result stays; every client ends, the server is always free
again, and Ctrl+C stops it; the memory of the collector is bounded as long as
its packet ids do not come around; what a process opened or started is closed
and joined in order, whatever fails, and the exit code and the printed document
tell whether there was a result.

## 2. Modules

```
StatsCollector  <-- UdpNetwork <-- ServerHandler --\
   ^     ^                ^------- ClientHandler ---+-- NbSystem <-- MCNbSystem
   |     |                                               |  ^  ^
   |  StatsSession     MeasurementSession <--implements--+  |  |
   |   |     ^                                              |  NbSystemProofs
   |   |  StatsSessionProofs                                |   ^   ^      |
   |   +--implements--> IdealCollector    NbRefinementProofs ---/   |      |
   |                                      NbLosslessProofs ---------/      |
   +-- StatsCollectorProofs <----------------------------------------------+
             (StatsSessionProofs uses it as well)
PacedSender  <-- PacedSenderProofs
TimedSession <-- TimedSessionProofs
Arguments <-- NbProcess <-- MCNbProcess
                  ^------ NbProcessProofs
```

* **StatsCollector** has no variables: an object of the class is a record, each
  public method an operator from the object before to the object after. The
  class holds its mutex for the whole of each method. Times are integers;
  smoothed jitter, percentages and bit rate are left out because they are
  arithmetic on fields that are kept. Two details are kept on purpose: pruning
  uses the `last_packet_id_` of the packet before, and the first packet sets
  `prev_transit_` before it is measured against it.
* **UdpNetwork** holds the datagrams in flight (`net`) as a set of records.
  `Send` is `send_to()`, `Deliverable`/`Receive` is what `recv_from()` may
  return. The network is not part of the repository: a datagram that is never
  taken is lost, any one may be taken next (reordering), and `MaxDup`
  deliveries leave a copy. `Fifo` gives the well-behaved link: nothing
  overtakes or is skipped. Retries carry their number so that two equal Finish
  datagrams are two elements of the set; no handler reads it.
* **ServerHandler**: one action for each way through each piece of
  `run_server()` between two blocking calls or two reads of shared data. `spc`
  says where the thread is; the header of the module explains its values. Every
  loop head reads `g_shutdown` in a step of its own, so Ctrl+C can fall between
  that check and the `recv_from()`. `late` is the comparison with the deadline.
* **ClientHandler**: for every client its three threads. The sender's loop
  condition, its send, its Finish and its wait are separate steps, and so are
  the receiver's check and its `recv_from()`, so that the races on
  `test_completed` and `result_received` are all there. In the code the
  receiver writes `server_summary` and then `result_received` with release
  order, and no one reads the summary before acquiring the flag: one step. The
  exceptions are `ClientStartFails` (caught by `main()`), `SenderSendFails`
  (caught in the loop), `ReceiverFails` (caught by the thread) and
  `SenderFinishFails` (caught by nobody).
* **NbSystem** composes them: interleaving of all threads of all processes and
  the fairness of the system, and it states the system's properties.
* **StatsSession** is one test as the collector sees it, with what `NbSystem`
  abstracts from: pruning and time. Its packet ids are what is left of the
  packet numbers in `IdMax` ids, but the run and the theorems are about tests
  of at most `IdMax` packets (section 4 says what happens past it). It keeps,
  beside the collector, what the network really did (`delivered`, `overtaken`,
  `variations`) so that the collector's numbers can be compared with the truth.
* **IdealCollector** is what those numbers promise: a collector that knows the
  packets themselves and never forgets one, without ids, pruning or a special
  first packet. `StatsSession` maps its summary to the report (`ReportOf`), the
  packets delivered to those counted; `arrivals` makes every delivery visible,
  so that one which is neither counted nor a duplicate is no step of it.
* **PacedSender** is the data loop of one sender in real time, which
  `ClientHandler` has without time: the send time that moves once per burst,
  the stamp taken before the wait, the interval reports and the trailing one,
  the wrap of `packet_id`, Ctrl+C and errors. The clock may advance between any
  two steps. Only its `packets_sent` meets the rest of the system, so it is a
  module on its own and not composed with `NbSystem`.
* **MeasurementSession** is what `nb` promises about its numbers, without
  messages, threads, retries or faults: one client at a time is measured, at
  most one honest report is decided for each measurement, published any number
  of times, and shown at most once, by its own client. `NbSystem` maps its
  variables to it (`Abstract`): the client address to the measured client, the
  summary during REPORTING to the verdict, the Results in flight to what is
  published. A server that stopped measures nobody.
* **TimedSession** is one test on the clock: the server's deadline, idle
  timeout and ACK waits, the sender's Finish waits, the receiver's `select()`
  and the delay of the network. `NbSystem` lets each of them end when it likes;
  here it ends when its time is over. Data packets and other clients only count
  as what wakes the server. The network may lose `MaxLoss` datagrams and copy
  `MaxDup`; a copy of the Start that comes when its test is over begins another
  one (`ServerStart`). A `send_finish()` that throws ends the process (`sender`
  is `aborted`).
* **Arguments** holds `parse_args()` and `parse_bitrate()` as operators on what
  CLI11 has read, and what the pacer and the socket make of the `Config` in
  their 32-bit types (`BurstSizes`, `RecvTimeout`). A conversion the language
  leaves undefined may return anything.
* **NbProcess** is one run of the program: `pc` follows `main()`,
  `run_server()` and `run_client()` through start-up, threads, joins and the
  unwinding of every exception, with the Reporter's document and the set of
  threads that are `inside` it. What threads do between two calls of the
  Reporter is in the other modules; here they may do it at any time.
* **NbSystemProofs**, **NbRefinementProofs**, **NbLosslessProofs**,
  **StatsSessionProofs**, **PacedSenderProofs**, **TimedSessionProofs** and
  **NbProcessProofs** hold the theorems, **StatsCollectorProofs** the lemmas
  about the collector that they use. **MCNbSystem** adds the symmetry set,
  **MCNbProcess** the command lines.

Operators whose comment describes what a wrong program would do
(`StartTestKeepingTotal`, `AnySource`, ...) stand before the definition they
are a variant of. They are used in no specification: replacing the definition
by its variant must break the property named in `PROJECT.json` under `mutants`,
which shows that the property depends on that piece of code.

## 3. What is checked

All bounds are CONSTANTS given in the `.cfg` files: `MaxPackets` data packets
per test, `MaxFinish` Finish attempts (5 in the code), `MaxAttempts` Result
attempts (3 in the code), `MaxDup` duplicated deliveries.

| Run | Instance | Shows |
|---|---|---|
| `one_client` | 1 client whose send calls may fail, 2 packets, 2+2 attempts, 1 duplicate; no promise on time | `LossIsExact`, `NoFinishNoTotal`, `FirstResultIsKept`, `ImplementsMeasurementSession`. A duplicated Start leads to a second test of the same client, and the server may still report the first one's late data: both numbers are exact, and the client keeps the first. A send error in the middle of a test leaves them exact too. |
| `lossless_link` | 2 clients, 2 packets, 2 Finish attempts, `Fifo`, `Punctual` | `NoPhantomLoss`: the server then sees all of a client's packets in order or says nothing about its loss; a client whose Start was swallowed is never half measured. `CountsOnlyItsClient` and `ImplementsMeasurementSession` with two clients that compete. |
| `faults_and_interrupts` | 1 client, 1 packet, 1+2 attempts, with and without `-1`, failing calls, Ctrl+C on both sides, fairness | `AckTimeoutConfined` survives failures; `ClientTerminates`, `ServerIsReleased`, `CtrlCStopsServer`, `SingleShotStops`. |
| `stats_session` | 8 packets with 8 ids (no wrap), pruning at 7 behind 3, window 2, 1 copy, 3 instants | `LossIsPrecise`, `MemoryIsBounded`, `DisorderIsReal`, `JitterMaxIsObserved`, `ImplementsIdealCollector`, for tests in which `packet_id` does not wrap. |
| `paced_sender` | seconds of 4 ticks, 2 seconds, a packet per tick in bursts of 3, ids wrap at 4, errors, Ctrl+C, fairness | `IntervalsSumUp`, `LabelsNotAhead`, `OnePacketAfterStop`, `StampIsRecent`, `SenderFinishes`. `ScheduleKeepsRate` and `RateIsBounded`: the rate is kept to within one burst, plus the packets each wrap of `packet_id` adds (`WrapDrift`). |
| `timed_session` | seconds of 4 ticks, tests of 1 and 4 seconds, grace 3, sums wrap at 6; 3 Finish and 2 Result attempts; delays up to 2 ticks, 3 losses, 1 copy, Ctrl+C, a throwing `send_finish()` | `ServerBusyBound`, `ReceiverExitsPromptly`, `ResultNeedsShortLink`, `TimeoutNeedsFault`, `ClientEndsInTime`. |
| `nb_process` | 93 command lines, client and server, text and JSON; 1 packet, 2 intervals, 2 tests | `AcceptedConfigIsUsable`, with the two limits it names; `LocalsOutliveThreads`, `MainReportsAlone`, `CleanupInOrder`, `DocumentPerReport`, `ZeroMeansDone`. |

Five runs show where comments and documents say something else than the code
does (section 4): `receiver_leaves`, `any_datagram_acks`, `no_partial_result`,
`stats_jitter_min`, `unknown_loss_shown`.

**Why the bounds are enough.** The exactness argument is about the difference
between two counters: one packet that is received and one that is not is what
tells wrong from right, and the second packet adds order. Two attempts are
enough to have a retry race a late answer; more attempts repeat the same race.
One duplicate is enough to make a Start, a data packet or a Finish come twice.
With two clients there is one served and one that disturbs; a third would
disturb in the same way. For the safety properties the theorems of section 5
remove all of these bounds. In `stats_session` the set is pruned up to twice
within eight packets, with reordering and a copy before and after.
`KeepBehind` exceeds the window there, as 50,000 exceeds any real one. No id
is used twice there: what breaks when one is, is in section 4.

In `paced_sender` a burst of 3 and a wrap at 4 do not divide each other, so ids
wrap at every place of a burst, and the 8 packets of the test wrap twice; each
wrap adds one packet to the rate, so that `WrapDrift` shows. Two
intervals fit into the test. `MaxTime` stops the clock one burst after the end
of the test, when the last waiting packet is due (`TimeAssumption`); nothing
happens later but the thread's own steps. The formulas also hold in TLC with
bursts of 1 and 2, and the theorems cover every value.

In `timed_session` the test of 4 seconds is one whose deadline wraps, and the
test of 1 second is one with time to spare; the losses are as many as there are
Finish attempts, so that all of them can be lost. One copy is enough for a
second test. Two Result attempts have one that is repeated and one that is the
last. `MaxTime` is past the last deadline, idle timeout and ACK wait together.
Each of the causes `TimeoutNeedsFault` names is reached on its own. In
`nb_process` the multipliers are powers of 4 and the largest bit rate is 20, so
that a suffix can make the product too large. A 32-bit word holds up to 2047
there, a second 256 ms and 1 ns, and the burst threshold is 20,000 ns: a bit
rate of 20 with packets of 24 bytes passes the burst's limit, with 1470 bytes
it does not, and an idle timeout of 8 s becomes 0. The command lines differ
from `-c host` and from `-s` in one or two options each, at the edges of every
check of `parse_args()`.

**Deadlock** is checked in `one_client`, `lossless_link` and the violation runs
in which nothing ends; in the others the program, or the one test they show,
really stops.

**Time and `Punctual`.** Time is what the loops compare it with: the test is
over, the deadline has passed. With `Punctual = FALSE` the deadline may come
at any moment after the Start, which is what a stalled process would see, and
the receiver's deadline even before the end of the test (`clock` holds the times
that have passed), as it does when its 32-bit sum wraps. With
`TRUE` it comes only after the client's sender has ended, since the deadline
leaves 5 seconds for Finish attempts that take at most half a second: the
theorem `Punctuality` about `TimedSession` derives that assumption from the
timeouts. No property needs it, the theorems have none of it; it keeps
the instance of `lossless_link` small, and the counterexamples of the violation
runs free of starved threads.

**Fairness** (`FairSpec`). Weak fairness for the server thread, for the sender,
the receiver and main of each client: the operating system schedules them, and
each blocking call returns by its own timeout (`ServerListenTimeout`,
`ReceiverTimeout`, ...). Weak fairness for the passing of the test time and of
the server's deadline. No fairness for a single way through a thread's step:
each thread may take any enabled one for ever. No fairness for a datagram to
arrive, for a call to fail, or for Ctrl+C. `ReceiverDeadlinePasses` needs none:
the sender sets `test_completed` in the end. `PacedSender` assumes the same of
its thread, and that the clock goes on (`Tick`); none for Ctrl+C or errors.
`TimedSession` and `NbProcess` need no fairness: their bounds are on clock
values and on the states at the exit.

## 4. Where the code and its documents disagree

* **The receiver may leave before the Result** (`client_handler.cpp:123`,
  `:218-221`). The end of the test time sets `test_completed`, on which the
  receiver ends, before the first Finish is sent. The wait between Finish
  attempts is meant to give the Result a chance to arrive
  (`client_handler.cpp:200`), but the thread that would take it is gone if it
  looked at the flag in between. It survives only as long as it is inside a
  `select()` of at most 100 ms. The client then shows local numbers.
* **Any datagram is the ACK** (`control_protocol.cpp:129`). No client sends
  one; the Finish retries that cross the first Result are taken for it. The
  Result is then not repeated, although nobody received it.
* **Ctrl+C on the server shows no partial result** (`server_handler.cpp:150`).
* **The minimal jitter is always 0** (`stats_collector.cpp:79`): the first
  packet is compared with itself. `JitterMinIsZero` proves it for every test.
* **An unknown loss is shown as 0** (`client_handler.cpp:274`). Without a
  Result the sender's line reads `0/N  0.00%`, where `developer-guide.md:365`
  promises `--/--`: the local summary has a total, the packets sent.

What else the reader of the code should know, found while modelling it:

* Packets are stamped before the pacer's wait (`client_handler.cpp:130`,
  `:134`), so the transit times behind the jitter contain the wait.
  `StampIsRecent` bounds it by the gap between two bursts.
* A Result is only taken over links with a round trip of at most 100 ms, the
  receiver's `select()` timeout (`ResultNeedsShortLink`), because of the first
  point above.
* The 5 seconds of grace cover the end of a test only if no packet is due
  later than that: at `-b 1k` and the default length the gap is 11.8 seconds,
  and the server gives up before the Finish. `GraceIsEnough` says when the
  timed properties hold. The same sum wraps for a duration near 2^32
  (`NoWrap`), at the server and in the client's receiver.
* "Test timeout - no Finish received" (`server_handler.cpp:106`) is not always
  the client's fault: a second copy of its Start, taken when its test is over,
  begins a test that can only time out, and so does a wrapped deadline
  (`TimeoutNeedsFault` lists every cause).
* An exception of `send_finish()` (`client_handler.cpp:198`) is caught nowhere:
  the process ends without a report.
* `--idle-timeout` ends nothing: it is the timeout of one `recv_from()`, after
  which the loop goes on until the deadline (`ServerBusyBound`). Its value in
  milliseconds is cut to 32 bits (`udp_socket.cpp:100`), so that one of 2^32 ms
  or more is another than was asked for, and a multiple of 2^29 seconds is 0,
  for ever. `AcceptedConfigIsUsable` names it (`TimeoutOverflows`).
* `--bind` is a client option in `src/README.md:45` but only the server uses
  it, and never the address: with an address, `bind()` asks for the any-address
  of IPv6 (`udp_socket.cpp:62-88`), which fails on an IPv4 socket (`CanBind`).
* In JSON mode a server keeps one document: each later test prints it again
  with its own end, and Ctrl+C during a later test prints nothing, because the
  document has an end already. Messages (`[Info] ...`) are mixed with it.
* A send error ends a test with exit code 0, after a report
  (`ZeroMeansDone`); `-h` ends with 1.
* `finalize()` treats a total of 0 as "no Finish" (`stats_collector.cpp:110`),
  so an empty test has unknown loss.
* Where `packet_id` wraps, the packet with id 1 counts as out of order, as
  `developer-guide.md:263` defines it. `DisorderIsReal` does not hold there,
  nor does `MemoryIsBounded`: nothing is pruned until the ids are past 50,000
  again, while the set keeps what it had and grows. Pruning erases the smaller
  ids, but after a wrap the ids of the round before are the larger ones: they
  stay, and when the next round reaches them each fresh packet is taken for a
  duplicate. The window of the last 100K ids (`:264`) is then none, and the
  "precise" loss (`:261`) is wrong. This takes almost two rounds of 2^32 - 1
  packets in one test, and lies beyond the bounds of `stats_session`; with
  `IdMax = 9`, `PruneAt = 4`, `KeepBehind = 1`, `Window = 1`, and
  `LossIsPrecise` asked only of tests whose packets all arrived, TLC finds 17
  packets that arrive in order, one of which is reported lost, and no such test
  of 16. `MemoryIsBounded` fails there after packet 11: the set holds the ids
  8, 9, 1 and 2.
* Bursts are counted by `packet_id` (`client_handler.cpp:161`). Where it wraps
  in the middle of a burst, the `(2^32 - 1) % burst` packets of that burst so
  far are sent without being scheduled, and the rate is ahead by them from then
  on: with ids that wrap at 4 and bursts of 3, at one packet per tick, TLC
  finds 10 packets sent at time 6. In `nb` it is less than 2 ms of packets for
  each 2^32.
* A bit rate beyond about 4e14 (with packets of 24 bytes) makes the burst size
  overflow (`pacer.cpp:18`); the conversion is then undefined, and a burst size
  of 0 would be divided by (`client_handler.cpp:161`). Nothing refuses such a
  rate; `AcceptedConfigIsUsable` names it (`BurstOverflows`).

## 5. What is proved

`NbSystemProofs` proves, for any finite or infinite set of clients and any
values of the constants that satisfy the named assumptions of the modules:

| Theorem | Statement |
|---|---|
| `TypeCorrect` | `Spec => []TypeOK` |
| `LossExact` | `Spec => []LossIsExact` |
| `OnlyItsClient` | `Spec => []CountsOnlyItsClient` |
| `UnknownWithoutFinish` | `Spec => []NoFinishNoTotal` |
| `TimeoutRestored` | `Spec => []AckTimeoutConfined` |

`NbRefinementProofs` proves under the same assumptions:

| Theorem | Statement |
|---|---|
| `FirstResultKept` | `Spec => FirstResultIsKept` |
| `Refinement` | `Spec => ImplementsMeasurementSession` |

`NbLosslessProofs` proves, under `LosslessLink` (`Fifo`, and no duplicates) and
the same assumptions:

| Theorem | Statement |
|---|---|
| `NoPhantoms` | `Spec => []NoPhantomLoss` |

`StatsSessionProofs` proves, for any clock; all but `SessionTypes` and
`JitterMinIsZero` assume `IdsSuffice`, that no packet id is used twice in the
test, and `WindowFits`:

| Theorem | Statement |
|---|---|
| `SessionTypes` | `Spec => []TypeOK` |
| `MemoryBounded` | `Spec => []MemoryIsBounded` |
| `LossPrecise` | `Spec => []LossIsPrecise` |
| `DisorderReal` | `Spec => []DisorderIsReal` |
| `JitterMaxObserved` | `Spec => []JitterMaxIsObserved` |
| `JitterMinIsZero` | `Spec => [](delivered # {} => Finalize(st).jitter_min = 0)` |
| `IdealNumbers` | `Spec => ImplementsIdealCollector` |

`PacedSenderProofs` proves, for every clock, rate, burst size and id range:

| Theorem | Statement |
|---|---|
| `PacedTypes` | `Spec => []TypeOK` |
| `IntervalsComplete` | `Spec => []IntervalsSumUp` |
| `StopsInTime` | `Spec => []OnePacketAfterStop` |
| `LabelsBehindClock` | `Spec => []LabelsNotAhead` |
| `RateIsKept` | `Spec => []ScheduleKeepsRate` |
| `RateBounded` | `Spec => []RateIsBounded` |
| `RateBoundedInFirstRound` | `Spec => [](packets_sent < IdMax => packets_sent * IntervalTicks <= now + IntervalTicks * BurstSize)` |
| `StampsAreRecent` | `Spec => []StampIsRecent` |

`TimedSessionProofs` proves, for all durations, timeouts, delays and numbers of
attempts, losses and copies:

| Theorem | Statement |
|---|---|
| `TimedTypes` | `Spec => []TypeOK` |
| `BusyBounded` | `Spec => []ServerBusyBound` |
| `ReceiverExits` | `Spec => []ReceiverExitsPromptly` |
| `ClientReturns` | `Spec => []ClientEndsInTime` |
| `ShortLink` | `Spec => []ResultNeedsShortLink` |
| `TimeoutIsFault` | `Spec => []TimeoutNeedsFault` |
| `Punctuality` | `Spec => []DeadlinesOutlastSender` |

`NbProcessProofs` proves, for every set of command lines and any number of
packets, intervals and tests, under `GivensTyped`:

| Theorem | Statement |
|---|---|
| `ProcessTypes` | `Spec => []TypeOK` |
| `AcceptedUsable` | `Spec => []AcceptedConfigIsUsable` |
| `LocalsOutlive` | `Spec => []LocalsOutliveThreads` |
| `ReportsAlone` | `Spec => []MainReportsAlone` |
| `CleanupOrdered` | `Spec => []CleanupInOrder` |
| `ZeroDone` | `Spec => []ZeroMeansDone` |
| `DocumentComplete` | `Spec => []DocumentPerReport` |

**Assumptions.** Those of the constants' types, and in `NbSystem`
`NoPruning`: the packets of a test fit into the duplicate-detection set. Beyond
that the uniqueness of counted ids depends on how far the network reorders,
which `NbSystem` does not limit. `StatsSession` limits it, and there
`WindowFits` takes the place of `NoPruning`: the network overtakes by less than
the 50,000 ids that pruning keeps, and twice that fits below the threshold of
100,000. `IdsSuffice` says that no packet id is used twice in the test (2^32 of
them); section 4 has what happens to a longer test. `GivensTyped`
says that CLI11 returns numbers in their unsigned types, and that a bit rate is
a number with one of the four suffixes or something `parse_bitrate()` refuses
or cannot represent.

**Argument.** `LossIsExact` is not inductive: when a Result is sent nothing in
it says that the summary matches what the client sent. `ExactnessInv` follows
the number on its way. What is in flight was sent, and a Finish exists only
when its sender has left the data loop, with the final `packets_sent`
(`FlightIsSent`). So the total in the collector is final (`TotalIsFinal`); the
ids counted are among those sent, each once (`CountsOnlyItsClient`), so that at
most the total was received and the clamp of the loss at 0 hides nothing
(`FinalizeIsExact`, which needs that a subset of `1..n` has at most `n`
elements). From there the summary stays exact through the retries and in the
client, because `packets_sent` does not change any more
(`SummariesAreFinal`). Each action has a step of its own; the handlers that
receive need `RecordCountsOnce` about `record_packet()`.
`TotalInv` adds to `NoFinishNoTotal` that the total is 0 during RECEIVING,
`TimeoutInv` adds to `AckTimeoutConfined` where the timeout is known.

The refinement uses `ExactnessInv` and `NoneTwice`, two facts about where a
server without a client and a receiver with a Result can be. Every action is a
step of `MeasurementSession` or a stutter: `SenderSend` is a `Transmit`, a
Start a `Take`, `ServerReport` a `Decide` (honest by `FinalizeIsExact`), each
attempt of `send_result()` a `Publish`, the receiver's Result a `Show`; the end
of a test, and every way the server stops, is a `Release`. `FirstResultIsKept`
follows from `NoneTwice` alone: only a receiver that waits takes a Result.

`NoPhantomLoss` needs to know everything the link carries. `LosslessInv` says
that a client has sent no data before its Start (`NothingBeforeStart`); that as
long as its Start is under way all of its data is (`StartComesFirst`); that
while a client is served the collector has counted exactly the packets `1..k`,
in order, and the others are under way (`PrefixCounted`), so that when the
Finish is taken, which the link puts behind all data, `k` is all; and that a
summary with a total is whole from there to the client (`SummariesAreWhole`). A
server that comes late to a client whose Start was swallowed drops its data in
LISTENING and never has a total for it. All this holds with failing calls,
interrupts and deadlines that come too early.

In `StatsSession` the collector is compared with what really arrived. `SeenInv`
says that every packet whose copy may still come is remembered, although
pruning forgets older ones behind an id that reordering moves backwards:
`last_packet_id_` is always within `Window` of the youngest packet received, so
that what pruning drops is older than anything under way (`SeenArrival`). The
set then holds at most `KeepBehind + Window + 1` ids after it was pruned
(`PrunedSize`). With that `record_packet()` takes a packet for a duplicate
exactly if it is one, and `CountInv` and `JitterInv` count along. The same
invariants make every arrival a `Count` or a `Repeat` of `IdealCollector`
(`IdealArrival`), and the Finish a `Close` with the right loss (`IdealFinish`):
pruning is not to be seen in the numbers. `JitterMinIsZero` needs no more than
that the first packet of a test finds the set of ids empty.

For the pacer, `ScheduleKeepsRate` bounds a difference that moves by one packet
per step on one side and by a burst at a time on the other. `ScheduleInv` says
what the difference is: the place of the next packet within its burst. It needs
that `packet_id` is the number of packets modulo the id range, and it has to
say what a wrap does: the id starts again at 1 in the middle of a burst, so
`IdMax % BurstSize` packets of that burst are never counted by the schedule.
The rate is not kept across a wrap, and `WrapDrift`, all such packets so far,
is part of both properties: the sender is ahead by one burst and these packets,
and by nothing else. `RateBoundedInFirstRound` is the bound without them. With
a burst of one packet the place is always 1, which is why `InBurst` has two
cases. `DivModNext` says how quotient and remainder move when a number grows by
one. `RateIsBounded` follows the same sum, with the clock at or after the send
time. `StopInv` strengthens `IntervalsSumUp` and `OnePacketAfterStop`,
`StampInv` adds to `StampIsRecent` how far the send time may be ahead when the
loop begins.

In `TimedSession` a bound on the clock is kept because `Tick` waits for what is
due. The invariant of the server says that each wait of it ends within its
budget, counted from the deadline (`attempt` ACK waits are behind it, the rest
ahead); the one of the sender does the same from the end of the test. The one
of the receiver says that it looks again within one `select()` and that
`stop_at` is set once a flag is. For `ResultNeedsShortLink` the argument is
causal: every Result in flight answers a Finish or a deadline, so it was sent
no earlier than one latency after `test_completed` was set, and at its arrival
two latencies have passed within what is left of the receiver.

`TimeoutNeedsFault` is a matter of counting. The client's first stop is at
`stop_at`. If it comes when no Start, nor a copy of it, can arrive any more
(`~StoppedEarly`), then no test begins after it (`StartIsFirst`). As long as the
server waits, no Finish was taken, so each attempt is under way or lost
(`AttemptsInv`; a copy only adds to what is under way), if the client was
neither interrupted nor ended by an exception. With `GraceIsEnough` the deadline
comes after the last attempt and after whatever was under way has arrived
(`DeadlineIsLast`, from `FlightInv`: an attempt is sent at its time, and is not
under way for longer than `MaxDelay`), and the sender has not left early,
because there is no Result yet (`PendingInv`, `ExitInv`). So all are lost.
`Punctuality` follows from when the sender is done at the latest (`SenderTime`).

The invariants of `NbProcess` are indexed by the place of `main()`: which Config
it has (`PlaceInv`), what is open (`SocketInv`), which threads run
(`ThreadInv`), whether what was asked for is done (`DoneInv`), what was printed
(`DocumentInv`). `LocalsOutliveThreads` and `MainReportsAlone` rest on the same
fact: threads run only between their start and their join, and the one way out
in between is `std::terminate()`, which ends them too. An interval is appended
only while no summary has been printed, since the sender is joined before; that
is why the last document has all of them.

**Only model-checked.** The liveness properties `ClientTerminates`,
`ServerIsReleased`, `CtrlCStopsServer`, `SingleShotStops` and `SenderFinishes`:
fairness speaks of ENABLED, which is out of the prover's reach. The violation
runs, of course. Every other property of a run is a theorem.

## 6. Not modelled

* The payload of the Result as JSON text, byte order, magic number and version
  of headers: only `nb` peers are modelled, and they write what they read.
* The layout of text output and the log file, which is a copy of it.
* Moving of sockets and `bound_port()`, which nothing calls.
* Smoothed jitter, percentages and bit rates, which are arithmetic on fields
  that are kept.
* `CLI11` and the JSON library. What CLI11 refuses is one flag of a command
  line.
