# Formal model of quic.cr

TLA+ modules, TLC configurations and TLAPS proofs for the QUIC and HTTP/3
library in `src/src` and for the Go programs in `src/bench/go_client` that test
and measure it. Every definition names, in `PROJECT.json` under `map`,
the lines it is translated from; line numbers below refer to those files, and
to `quic/connection.cr` where no file is named.

## 1. The system and its parts

| part | source | state | operations | hard behaviours |
|---|---|---|---|---|
| streams | `quic/stream.cr` | send buffer, `tx_offset`, `rx_offset`, `ooo_buffer`, `fin_offset`, limits, state | write, poll_send_data, receive_data, set_fin_offset, close_local/remote, reset!, fully_done? | FIN before data, overlapping segments, a stream that is removed too early |
| 1-RTT transfer | `quic/connection.cr` | stream table, `data_sent`/`data_received`, `max_data_*`, `received_pns`, `lost_frames`, pending flags | send, recv_packet, handle_frame, tick, cleanup_done_streams, stream_write | loss, duplication, reordering, premature timeouts, credit that is lost on the way |
| handshake | `quic/connection.cr`, `quic/tls.cr` | three packet number spaces with keys, CRYPTO buffers, `handshake_complete` | send, recv_packet, handle_crypto_frame, handle_secret, discard keys, Retry | one retransmission queue for three spaces, keys that go while packets are under way |
| key update | `quic/connection.cr` | secrets, `old_aead_rx`, `key_phase`, `peer_key_phase` | trigger_key_update, handle_peer_key_update | updates that cross, late packets |
| recovery | `quic/recovery.cr` | `sent_packets`, `bytes_in_flight`, windows, `loss_time`, `pto_count` | on_packet_sent, on_ack_received, detect_lost_packets, on_pto_timeout | timers against late acknowledgements, arithmetic |
| connection actor | `h3/connection_actor.cr`, `h3/actor_stream_socket.cr`, `h3/response_ring.cr`, `h3/server.cr` | `packet_chan`, `stream_channels`, `stream_eof_sent`, `handled_streams`, response ring, `wake_chan` | deliver, shutdown, run, recv_packet, forward_stream_data, drain_responses, push_response | one fiber per connection and one per request, bounded channels |
| router | `h3/server.cr` | map from connection id and address to actor | router loop, RouterReg, RouterClean, drain | entries of dead actors, messages dropped at a full channel |
| HTTP/3 and QPACK | `h3/connection.cr`, `h3/qpack*.cr` | control streams, dynamic table | frames, encoder and decoder instructions | eviction while references are under way |
| client, plain server | `h3/client.cr`, `quic/server.cr` | one connection, pending requests | request, receive_loop, pump_send | the client has no timer |
| codecs | `quic/frame.cr`, `packet*.cr`, `varint.cr`, `h3/qpack.cr`, ...; the Go programs' own | none | parse, write | boundaries; two independent implementations that must agree |
| test servers | `examples/e2e_server.cr`, `h3/router.cr`, the quic-go servers in the Go programs | none | routes: a request to an answer | none |
| Go test programs | `bench/go_client/main.go`, `cross_test` | list of failures, results channel, a started server process | suites run by goroutines, tests on raw connections, report, exit code | events on several streams, servers that are missing or die, `os.Exit` against deferred calls |
| Go benchmarks | `bench/go_client/stress_test`, `bench_h3`, `bench_3way`, `bench_concurrent`, `bench_qpack` | latencies, counters, semaphore, deadline, servers in and out of the process | phases run by goroutines, statistics, comparison | shared counters, limits, percentiles of few samples |
| cryptography, UDP | `quic/crypto.cr`, `tls.cr`, `batch_*.cr` | handles | calls into OpenSSL and the kernel | external |

How they interact: `H3::Server` runs a receiver fiber, the router fiber and one
`ConnectionActor` fiber per connection. The router hands a datagram to the
actor's `packet_chan`. The actor alone touches its `QUIC::Connection`: it calls
`recv` for each packet, spawns a handler fiber for each new request stream,
copies stream data into that request's `data_chan`, takes responses from the
ring when it is woken, calls `tick` when its timeout fires, and sends what
`send_coalesced` returns. `QUIC::Connection` owns the streams, the packet number
spaces and a `Recovery` per path; frames of packets that `Recovery` declares
lost come back through `queue_lost_frames` and are sent again by `send`. The Go
programs talk to `e2e_server`, a `H3::Server` with an `H3::Router`, over quic-go,
and below HTTP with encoders and decoders of their own; the benchmarks put a
quic-go server next to it, in the same process or started by hand.

What makes each part correct: the peer's application sees exactly the bytes that
were written and the end after all of them (streams, transfer); a byte is never
forgotten while it is needed (retransmission); a limit the sender sees is one
the receiver enforces (flow control); the ACK says what was received (ACK
ranges); the bytes in flight are exact and the window stays open (recovery); no
flight is forgotten and keys outlive their use (handshake); every packet finds
its key (key update); no wake-up is lost, requests are answered, and an actor
ends when its connection does (actor); a packet reaches the live actor that it
names, and a shutdown reaches every actor (router); the two implementations read
what the other writes (codecs); counters read after `wg.Wait()` are exact, limits
on concurrency hold, the exit code tells the truth, no process is left behind and
every program ends (Go programs); a percentile is what it claims and one side is
declared the winner (reports).

## 2. The modules

| module | models | proofs |
|---|---|---|
| `ByteStream` | what a stream promises its two applications (abstract) | |
| `Stream` | `QUIC::Stream`, with lengths and offsets for bytes: pure operators on a record | |
| `Transfer` | two `QUIC::Connection`s in the 1-RTT space and the network between them; uses `Stream`, implements `ByteStream` | `TransferProofs` |
| `Reassembly` | the receiving half of a stream with its bytes; its loop meets the definition in `Stream` | `AlgorithmProofs` |
| `AckRanges` | how an ACK frame is built and read: pure operators | `AlgorithmProofs` |
| `Recovery` | loss detection, probe timeout, NewReno and BBR windows, and `tick` | `RecoveryProofs` |
| `Handshake` | the three spaces, CRYPTO flights, keys and their discard, HANDSHAKE_DONE, the client's Retry | `HandshakeProofs` |
| `KeyUpdate` | 1-RTT key updates of both endpoints | `KeyUpdateProofs` |
| `Router` | the router and receiver fibers of `H3::Server`, shutdown and drain, and what actors exchange with the router | `RouterProofs` |
| `ConnectionActor` | the actor's run loop, its channels and the request handlers; uses `Stream` | `ActorProofs` |
| `Codecs` | VarInt, SETTINGS, QPACK integers and truncated packet numbers of the Crystal side, the Go programs' codecs, and how they meet: pure operators | `AlgorithmProofs` |
| `E2EServer` | `H3::Router`, the routes of `e2e_server`, the checks of `handle_request`, and the benchmarks' quic-go servers: functions from a request to an answer | |
| `E2ETests` | the requests of the suites, tests and scenarios, and what each wants of the answer | |
| `WorkerPool` | a function that spawns goroutines, waits for them and reads shared counters | `ClientProofs` |
| `GoPrograms` | the eight ways to run the Go programs, as scripts of instructions; uses `E2ETests`, `E2EServer`, `WorkerPool` | |
| `BenchClient` | a program, given its script, from `main` to its exit code against servers that may fail; extends `WorkerPool`, implements `PoolSpec` | `ClientProofs` |
| `Report` | the benchmarks' percentiles, means, rates and winners: pure operators | `AlgorithmProofs` |

`MC*` modules extend these for TLC. Operators called "faulty variant" are the
mistakes that the properties are tested against; no specification uses them.

**Transfer.** `strm[e]` is endpoint e's stream table, `sent[e]` the packets its
recovery tracks, `lost[e]` its `@lost_frames`, `net` the packets under way,
`acks[e]` the ACK frames on the way to e. Each packet carries one frame. `send`
is split by the frame that it emits, in the code's order of precedence: a
MAX_DATA or MAX_STREAM_DATA that is due (1121-1143) goes before stream data
(1180-1204), and that before the retransmission queue (1207). Each receive
action is the whole of `recv_packet` and `handle_frame` for one frame, with the
server's `cleanup_done_streams` that follows it. `LossAlarm` gives up one packet
that was sent before an acknowledged one, `ProbeTimeout` all of them; either may
come although the packet was not lost. `written`, `finished`, `delivered` are
histories of what the applications did and got. Bytes to write, window, first
limit and packet numbers are constants of each endpoint. An endpoint outside
`Timed` has an owner that never calls `tick`, as `H3::Client` has: it neither
declares a packet lost nor probes.

**Handshake.** A flight of CRYPTO data is one frame. TLS (external) produces
the server's flights on the ClientHello and the client's Finished on the
server's. A space's keys are absent, right, or wrong (derived afresh after they
had been discarded, 379). `Send` selects a space as lines 937-991 do and takes
from the retransmission queue only the head. `Timed` is as in `Transfer`.

**Recovery.** Times are ages, capped at `MaxAge`. A timer that is due may be
served late. `busy` says whether packets and wake-ups keep coming: the actor
reaches its timeout arm, and so `tick`, only in a pause (`connection_actor.cr:117`).
What the RTT estimator computes is any member of `LossDelays` and
`PtoBases`; the backoff is computed as the code does, in 32 bits.

**KeyUpdate.** A key is its generation. `TriggerKeyUpdate` may come at any time:
`trigger_key_update` does not wait until the peer has answered with the current
keys, as RFC 9001 6.1 demands. The histories `confirmed`, `hasty`, `updated` and
`overtaken` say what the peer has answered with, whether an update has not waited
for that, who has updated, and whether the network has reordered packets of
different generations.

**Router.** `connections` maps ids and addresses to actors; `router_chan` is one
FIFO of packets, registrations and clean-ups. An actor is known by its SCID, and
clients may use the SCID, from any address, once the actor has queued its
registration: the reply that carries it is flushed afterwards
(`connection_actor.cr:156-164`, then 106). A blocking send is a guard; `deliver`,
`shutdown` and the clean-up are dropped when they find no room. Each actor is
reduced to where its fiber is; that its connection may close at any time stands
for the peer, errors and the idle timeout. The check of the flag after `receive`
and the handling of the message are one step, as with one thread.

**ConnectionActor.** `pc` is the place of the actor in its loop: the select,
the drain of `packet_chan`, the visit of the streams, the responses. A blocking
`chan.send` is a guard, a non-blocking one an IF. Fibers interleave at every
step, which is more than Crystal's cooperative scheduler does.

**WorkerPool.** The functions of the Go programs that use goroutines differ in
their *shape*: how many goroutines; whether they wait for `close(ready)`; the
slots of a semaphore channel; the room of a results channel; one request, a
number of them or as many as a deadline allows; whether the first failure ends
the goroutine; and which counters an outcome is added to, in two atomic steps
since `metrics` appends a latency under a mutex and then adds to `total`. Sending
on a full channel is a guard, and the deferred `<-sem` and `wg.Done()` are steps
of their own. `done` is a history of how requests ended.

**GoPrograms and BenchClient.** `main` is a script, of which `todo` is what is
left: run a function, probe a server and exit when it is not there, serve in the
same process, start a server process, kill it, run a test on a raw connection,
exit with 1 if a fact holds of the results. What a request can come back as is not chosen freely:
`Verdicts(srv, tests)` applies the test's checks to what `E2EServer` answers, so
that a suite whose wishes differ from the server's routes shows up as a failure
no fault explains. In addition a request may end in an error, or with a body that
breaks off, which each function takes as its code does. A raw test is a sequence
of stages: sending makes the server send events, which arrive in any order as
they come on different streams, and a stage awaits one of them until its deadline.
Servers may be there from the start, may be missing, may come up late and may
crash at any moment. Loops and pools are cut to `Workers` and `MaxReqs`. The
histories `broken` and `flawed` say whether the environment failed and whether a
request or test did. `ScriptAssumption` is what the proofs use of the scripts: a
process that is started is killed before anything can end the program, or by a
deferred call (`Watched`); in a test program every outcome goes to one counter,
a stage awaits only what was asked for, a server that is started is awaited, and
the results decide at the end (`Verdict`). TLC evaluates it on the real scripts
in the run `clients`.

**Codecs.** Bytes are numbers; the operators are the loops and branches of the
encoders and decoders on both sides. Values stay below 2^31, where TLC can
compute, so the eight-byte form is exercised by its smallest members only.

**Report.** Durations are integers, and a share `p` is in thousandths, so that
`int(float64(len) * p)` is an integer division.

## 3. The runs

| run | checks | bounds, and why they are enough |
|---|---|---|
| `transfer_limits` | `TypeOK`, `EofMeansAll`, `NothingForgotten`, `WithinCredit`, `ImplementsByteStream` | two bytes, credit that starts at one and grows to two per stream and three per connection: the sender is blocked by either limit, and every frame of the exchange can be lost, given up early and sent again. One packet number, which is free again once its packet is acknowledged or given up |
| `transfer_duplex` | `NothingForgotten`, `AgainOnlyWhenDone` | both sides write a byte and end the stream, packets may be duplicated; the server drops the stream while copies are under way |
| `transfer_live` | `EndIsSeen` | the server, which has a timer, writes a byte and ends the stream; the client, which has none, may send a byte of its own, which may be lost for good. The server starts without connection credit: it must report that it is blocked, and the report, the announced limit, the data, the FIN or their ACKs may be lost. The client has two packet numbers and a window of two packets, so that a lost packet of its own need not keep it from announcing a limit |
| `recovery` | `InFlightExact`, `WindowFloor`, `HalvedAtMost` | three packets of two sizes in the 1-RTT space; loss delays of one and three units, a probe timeout of three with its backoffs and ages up to twelve, so that the loss alarm finds packets old enough both before and after the probe timeout is due; a window of seven can be halved twice above the floor |
| `recovery_spaces` | `EverySettled` | two packets in each of the Handshake and 1-RTT spaces, acknowledgements that arm the loss alarm for one of them, the handshake's completion at any time, and traffic that comes and goes |
| `key_update` | `PhaseIsParity`, `InStep`, `StaysOpen`, `UpdateIsFollowed` | both sides update, up to generation two, over a network that loses and reorders: both phases recur, updates cross or follow each other without waiting, and a connection may close where `StaysOpen` allows it (section 6) |
| `handshake` | `FlightsKept`, `DiscardedInTime`, `Completes` | two packets each way under way, so that the two flights of the server can pass each other and an acknowledgement of the client need not drive out its flight; a timer at the server only; with or without a Retry |
| `handshake_late` | `LateIgnored`, violated | see section 6 |
| `actor` | `NoLostWakeup`, `EndAfterAll`, `NoResponseDropped`, `Answered`, `CloseEndsActor` | a request of two packets, channels of one and two places, resets, late copies, early returns, steady traffic and shutdown together |
| `router` | `TypeOK`, `Reachable`, `NoneForgotten`, `DrainEnds` | two actors, two clients of which one moves, two addresses, one place in every channel: addresses are shared, every send meets a full channel, and an actor's entries outlive it |
| `algorithms` | `InSequence`, `NoNewByteIgnored`, `FlushMeetsDefinition`, `RaisesOnRepeat`, `RoundTrip`, `CodecsAgree`, `ReportSound` | every segment of a stream of six bytes, empty ones too, in every order, so that several overlapping segments are buffered at a time; every list of up to four packet numbers up to 6, so that ranges with gaps and repeated numbers occur; every value at which an integer changes its form, with its neighbours; every truncated packet number around the windows of one and two bytes; sorted latencies of up to five samples, and of 19 to 1001 around the points where a percentile's index moves; pairs of results with and without samples, errors and bytes |
| `clients` | `Counted`, `Bounded`, `ExitTells`, `LeftBehind`, `ProgramEnds` | each program in turn, two goroutines with up to two requests each and one slot, so that goroutines overtake each other, a semaphore is contended and a deadline falls between two requests. Three connections divide into pools of different sizes (`Conns`, `Conns / 2`) |

Deadlock is checked in `clients`, where a stuck program would be one.
`CHECK_DEADLOCK FALSE` stands where the system may really stop: all is sent, a
connection has closed, an actor has ended.

**Fairness.** `Transfer`, for a sender whose owner calls `tick`: `flush_outgoing` runs
after every event and sends until nothing is left, hence WF or SF of its send
actions. The timeout arm of the actor starts over with every packet
(`connection_actor.cr:117`), so the probe timer is only sure to fire while
packets are unacknowledged and nothing of the peer is under way
(`QuietTimeout`). Of the peer, which may be an `H3::Client`, only what `pump_send`
does after a `recv` is assumed: it acknowledges, and announces the limits that it
was asked for (1121-1143). The network keeps nothing for ever, and of frames that
are sent again and again one arrives. `EndIsSeen` assumes on top that the client
can send again and again (`CanSend`): without a timer it never gives up a lost
packet, and a full window would silence it. `Handshake`: the same, with
`QuietTick` for the timer; `Completes` assumes that no flight is lost of an
endpoint without one, and that no Retry makes the client start over, after which
it closes (section 6). `Recovery`: time passes, and due timers are served in a
pause (no fairness of `Traffic`; `EverySettled` speaks of runs in which traffic
stops). `KeyUpdate`: both sides send, and not every packet of a generation is lost. `ConnectionActor`: every fiber
that can run does (WF); the drain loop ends because its `select` does not yield
(SF of `DrainDone`); a client with
a timer, such as quic-go, repeats a packet that `deliver` dropped (SF). `Router`: the
router and the actors run if they can, `drain` goes on once it has set the flag,
and a connection that hears nothing meets its idle timeout (30 s by default).
`BenchClient`: the Go scheduler runs `main` and every goroutine, clocks go on, and
a request ends, if not with an answer then with the error of its context, of the
client's `Timeout` or of quic-go's idle timeout; servers need not boot, answer or
stay. No fairness is assumed of `TimerExpires`, of the client's other packets, or
of the network's losses.

## 4. What is proved

The proofs hold for every value of the constants that satisfies the modules'
`ASSUME`s.

* `TransferProofs!TypeCorrect`: `Spec => []TypeOK`, action by action.
* `TransferProofs!EofCorrect`: `Spec => []EofMeansAll`. Not inductive: a FIN in
  flight, in a tracked packet, in the retransmission queue or remembered as
  `fin_offset` must already say where the writer stopped, and the receiver's
  offset and buffered segments must lie below what was written. The inductive
  invariant states both for every place where a frame can be.
* `TransferProofs!TransferImplementsByteStream`: the refinement, action by action.
  Receiving a packet is a `Deliver` or a stutter; what is dropped is over at both
  ends.
* `TransferProofs`: `NothingIsForgotten` and `AgainOnlyAfterTheEnd`. The invariant
  of `EofCorrect` says what a frame may claim, not that `receive_data` makes
  use of it. `DeliveryInv` adds that a stream is cut into parts once: two parts that
  are under way, tracked, queued or buffered are the same or apart, and what the
  reader has in sequence ends where a part does. So a segment that is ignored for
  its offset alone brings nothing new, and its ACK may take it out of the sender's
  hands: a tracked packet whose number is, or will be, acknowledged has reached
  the reader with all its bytes. `NothingForgotten` speaks of ends, too, for which
  `EndInv` adds that `fin_sent` is set only on a side that has ended (`FinOnce`), and
  that a tracked packet with a FIN whose number is, or will be, acknowledged has
  told the reader where the stream ends (`AckedEnds`).
* `TransferProofs!CreditIsRespected`: a limit in any frame, under way, tracked or
  queued, was granted by its sender; a STREAM frame lies within what its reader
  enforces; and a sender within what it believes. Streams that the server may have
  dropped, and their limits with them, are exempt.
* `AlgorithmProofs`: `BytesInSequence`, `NothingNewIsIgnored` and
  `LoopMeetsDefinition`, for streams of any length, cut in any way. The loop of
  `flush_ooo_buffer` is a recursive function of the number of turns; that it is well
  defined, and what it has done after any number of turns (`Shifted`), is shown by
  taking the first turn after which it is not so, as a well-founded set of numbers
  has a smallest. The invariant says that `ooo_buffer` is sorted, has no offset
  twice, holds the peer's bytes and starts beyond `@rx_offset` (`Assembled`), and,
  while the peer has cut its bytes in one way only, that `@rx_offset` lies inside no
  segment that came and that those below it cover all bytes up to it (`OneCut`): a
  segment that starts below `@rx_offset` is then one that came before, or empty.
* `AlgorithmProofs!AckRoundTrips` and `AckRaisesOnRepeat`, for lists of packet
  numbers of any length. Each loop is a recursive function of the number of turns;
  `Iterates` gives its sequence of states and `Induct` proves what holds of each.
  Sorting by insertion gives a rising list with the same numbers (`SortedOk`). After
  any number of turns the builder has either raised, and two neighbours are equal,
  or what is left lies below what is done, no two numbers done are equal, and the
  reader, given the blocks so far, has taken exactly the numbers done and stands at
  the smallest of them (`Done`, `ReadDown`); a turn adds the numbers of one run
  (`DoneGrows`) and shortens what is left, so that nothing is left at the end. A
  list holds a number twice if and only if the sorted one has equal neighbours
  (`RepeatIsTwin`).
* `AlgorithmProofs!CodecsMeet`, from four results that are stated for all values
  and not only for the inputs of the run. `PacketNumbersComplete`: of two numbers
  that agree modulo the window and are less than a window apart, one is the other
  (`CloseMultiple`), so the candidate that `decode_packet_number` moves by a window
  is the number sent; the window may have any size. `VarIntsRoundTrip`: a value
  below 2^31 is four bytes (`HasBytes`), each form is those bytes under a tag
  (`FormOne` to `FormEight`), and a reader sees the size in the first byte and the
  value in the rest (`GoodIs`). `FramesReadBack`, for payloads of any length: two
  integers and as many bytes as the second says, wherever the frame ends
  (`ReadsFrame`), and the loop over SETTINGS rests once nothing is left
  (`ParsesThree`). `LiteralLengthsAgree`: after any turn of the loop that writes seven
  bits a byte, what the decoder's loop would make of the bytes so far, with the
  rest shifted above them, is the value (`Encoded`, kept by `OneByteKeeps`); five
  bytes are enough below 2^31 (`LeftIs`), and the last byte alone is below 128. It
  also shows where `minimalQPACKHeaders` goes wrong: a name's length is understood
  if and only if it is below 70.
* `AlgorithmProofs!ReportIsSound`, from `OrderedHolds`, for sorted samples of any
  number, and `ComparedHolds`, for any two results. The index of a percentile rises
  with its share and stays within the list (`PctOrder`), and in a rising list the
  samples up to the one at an index are at least as many as the index says. The
  mean is a sum over halves of the list, which lies between the number of samples
  times the least and times the largest for every length at which the halves'
  sums do. `IsResult` is all that the comparison needs of a result; `FinalizeIs`
  shows that `finalize` gives it.
* `RecoveryProofs!WindowFloorHolds`: the window and `ssthresh` keep their floor.
* `RecoveryProofs!HalvedAtMostHolds`: `Spec => [][...]_vars`. It needs the fact
  that packets are at most one probe timeout old when the loss alarm looks at
  them, because `tick` has served the probe timeout first: the collapse for
  persistent congestion is dead code.
* `RecoveryProofs!InFlightIsExact`: `bytes_in_flight` is the sum over the tracked
  packets. The invariant adds that there are finitely many, and that two packets
  of one space differ in their numbers (`packet_number` is beyond all of them), so
  that removing a packet by its number removes its bytes once. The sum is a fold;
  it is shown to be the number of elements of a set of (packet, byte) pairs, by
  taking a smallest set of packets for which it is not.
* `KeyUpdateProofs`: `TypeCorrect`, `PhaseCorrect`, `InStepCorrect`, and
  `StaysOpenCorrect`. The invariant relates the generations of both sides, of
  the packets under way, the old key and the peer's phase; for `StaysOpen` it
  says, while one side alone has updated, that the other follows it and that
  packets under way are at most one generation behind the key they will meet.
  Both theorems speak of behaviours without a hasty update; that the code allows
  others is in section 6. What carries them is that an answer with generation g,
  under way or noted in `confirmed`, means that the peer has reached g.
* `RouterProofs`: `TypeCorrect`, `ReachableHolds`, `NoneForgottenHolds`. The
  invariant: an actor keeps the two entries it was made with until its clean-up
  is handled; a clean-up in the channel is the only one of a dead actor and names
  its own entries; a registration is always ahead of the packets that use its
  SCID, so that no actor is ever made for the SCID of another.
* `ActorProofs!NoLostWakeupHolds`: for any streams, capacities and handlers. The
  strengthening says of each place of the loop that the ring is empty or a token
  exists or a handler is between its push and its wake-up, or the actor is about
  to drain.
* `ActorProofs`: `EndComesLast` and `ResponsesFindTheirStream`. The invariant says
  that chunks in a channel lie one behind the other, from what the handler has got
  up to what the actor has forwarded; that an end is the last chunk, at the end of
  the request, and closes the channel; that `handled_streams` and the stream table
  agree, but between a visit of `forward_stream_data` and `cleanup_done_streams`;
  and that a stream whose response is being made or waits in the ring has its
  sending half open, so that the clean-up leaves it alone unless it is reset.
* `HandshakeProofs`: `NoFlightForgotten` and `KeysGoInTime`. The invariant orders
  the flights (a flight is read after it was produced, those of the Handshake space
  after those of the Initial space), says that no keys go before the server has
  read the client's Finished, and that an endpoint acknowledges a space only when it
  has read all of the peer's flights there, so that an ACK takes no flight from the
  queues that the peer lacks.
* `ClientProofs`: `PoolCounted` and `PoolBounded` for functions of any shape
  (`PoolSpec`), `ClientImplementsPool`: whatever `main`, the servers and the clock
  do, every step of a program is a step of the pool or leaves it alone, and from
  the three `ClientCounted` and `ClientBounded`, for any scripts and any number of
  goroutines and requests. Counting is not inductive. The invariant says
  where goroutines can be in each phase of the function; that `wg` is the number
  of goroutines that have not called `Done`, and `sem` of those that still hold a
  slot; that none is past a closed gate; and, for every counter, that it falls
  short of what the outcomes call for by exactly the goroutines between the end
  of their request and the step that counts it.

* `ClientProofs!ClientLeavesNothing`: a server process that runs is in the list
  of deferred kills, or its kill is ahead of everything in the script that can end
  the program. With the first disjunct only `cross_test_start` is left.
* `ClientProofs!ClientExitTells`. The exit code is decided at the end from what
  the counters said, so the invariant follows the truth through the program: a
  goroutine has made all of its requests when it leaves, unless its function stops
  early (`MadeInv`, by counting the requests as pairs of goroutine and number), so
  that passed # total means that one failed; the results so far, with the requests
  of the function that is running, are the failures there were, each of which has
  its cause in the environment; on a raw connection, while nothing is broken, what
  earlier stages awaited has come and what they asked for has come or is due, so
  that a wait only expires when something is broken; and a server that has been
  started and does not listen is being awaited, so that none comes up in the middle
  of a test.

Model-checked only: the liveness properties (`EndIsSeen`, `EverySettled`,
`UpdateIsFollowed`, `Completes`, `Answered`, `CloseEndsActor`, `DrainEnds`,
`ProgramEnds`), as the prover has no rule for fairness. Every other invariant and
action property of the runs is a theorem.

## 5. What is not modelled

* Paths, migration, PMTUD and connection ids: active migration needs addresses,
  three timers and the anti-amplification limit together with the transfer, which
  is past what `Transfer` can be checked with.
* MAX_STREAMS: a credit of the same form as MAX_DATA. STOP_SENDING, DATAGRAM
  (beyond the echo that the Go client tests), 0-RTT (beyond what that client
  observes), version negotiation; the idle timeout as a time.
* HTTP/3 control streams and the QPACK dynamic table, on both sides.
* `H3::Client` and `QUIC::Server`: loops of `recv` and `send` around a connection.
  That the client has no timer is the constant `Timed`: in `transfer_live`
  and `handshake` only the server has one. The safety runs of `Transfer` have one on
  both sides, which allows more; the theorems hold for either.
* Cryptography and system calls, which are external.
* In the Go programs: the flags that select phases and servers, the mode of
  `bench_h3` that only serves, layout, and sorting and hashing, which are
  library calls. The stand-alone servers (`bench/go_server`,
  `bench/go_server_3way`) are stateless handlers for Python scripts.

## 6. What the models showed about the code

`handshake_late` is a run. The others were found by checking the stated
property on the modules here with the constants mentioned, and are recorded so
that the properties above are read with them in mind.

* Late Initial packets (run `handshake_late`): a long-header packet that comes
  after the Initial keys were discarded makes `recv_packet` derive them anew
  (379), since `aead_rx` is nil again; decryption fails and `recv` closes the
  connection, though the comment at 1511 says such packets are ignored.
* A stream that is done starts over: `cleanup_done_streams` forgets it, and a
  late copy of its first frame makes a new one (669); the request is delivered,
  and in `ConnectionActor` handled, a second time. `AgainOnlyWhenDone` states
  the limits of this.
* `data_received` counts every STREAM frame (682), so retransmitted bytes use up
  the connection's limit and a peer within its limits may be closed.
* A packet that is delivered twice leaves its number twice in `received_pns`
  (606); building the ACK then underflows (1104), and every later `send` raises.
* `receive_data` ignores a segment that starts below `rx_offset` even when it
  ends above it (`stream.cr:90`), and the second of two buffered segments with
  one offset (84). Harmless while the sender repeats its frames unchanged.
* Key updates by both sides in turn: after its own update an endpoint's
  `peer_key_phase` is stale, so it does not recognise the peer's next update
  (571), decryption fails and the connection closes.
* Two key updates in a row, before the peer has answered the first:
  `trigger_key_update` (1415) does not look, `handle_peer_key_update` derives only the
  next key and one old key is kept, so that a packet two generations ahead or
  behind finds no key and closes the connection. `InStep` and `StaysOpen` without
  `~hasty` are violated.
* HANDSHAKE_DONE is not among the frames that are sent again (298).
* After a Retry the client replaces `@space_initial` (447), while `crypto_bufs`
  is keyed by the old object: the first CRYPTO frame raises (792).
* An ACK may be due in a space whose keys were discarded; `send` then fails at
  `aead_tx.not_nil!` (1250).
* `1 << pto_count` overflows at 31 (`recovery.cr:253`): the probe timeout becomes
  negative, then zero.
* `H3::Client` never calls `tick`: its loop waits for a packet (`client.cr:169`), so
  that what it loses is not sent again. A ClientHello that is dropped leaves both
  sides waiting (`Completes` without `Underway`), though `guides/actormodel.md:78-80` says
  of a dropped datagram that "QUIC handles retransmission". In `Transfer` such a
  client's window, once full of lost packets, stays full, and a server that waits
  for credit waits for good (`EndIsSeen` without `CanSend`).
* The router: since registrations and packets share one FIFO, the race for which
  the address fallback was written (`server.cr:149-155`) cannot happen
  (`Reachable`). The fallback does harm: a second client at the address of a
  live or dead actor has its id cached for that actor (183), and no clean-up ever
  removes that entry, nor the SCID's alias, although `guides/actormodel.md:85`
  says "the Router removes all entries"; nor any entry, if the clean-up found the
  channel full. Packets under such an id go to the dead actor for good.
* `drain` closes the socket (`server.cr:51`) before the router tells the actors to
  send GOAWAY, and forces nothing closed after its time-out, though its comment
  (46-48) says both.
* The actor: a reset request's handler is never woken (`connection_actor.cr:225`);
  the end offered at exit is refused by a full channel (128); `chan.send` blocks
  the whole actor when a handler has returned and its channel is full (221);
  steady traffic keeps the timer arm from firing (117), so that nothing is
  declared lost (`EverySettled` without the pause); `shutdown` on a full
  `packet_chan` never reaches the GOAWAY (74).
* A STREAM_DATA_BLOCKED for a stream the receiver has not seen yet is ignored
  (721); the blocked sender repeats it with each later `send` (1202).
* The Go programs. `portListening` of `stress_test` dials UDP, which succeeds
  whether or not anyone listens: the Crystal server is never started by it, though
  the flag says "Auto-start Crystal server if not listening"
  (`stress_test/main.go:668`), and never found missing. `cross_test -start-server`
  leaves its server running when it exits with 1, since `os.Exit` skips the
  deferred `Kill` (683, 799), and as the Crystal servers bind with SO_REUSEPORT
  (`h3/server.cr:86`) a later run may be answered by that one. The errors of
  `ListenAndServe` are ignored by the servers in the benchmarks' own process.
* The benchmarks. `bench_3way` counts a scenario that Crystal does not serve as won
  by it, its p50 being 0 (387); `stress_test` shows a latency of 0, of a side without
  answers, in green, beside its warning, and counts ties for Go;
  `bench_concurrent` averages the latencies of failed requests too; `-c 0` or
  `-conc-c 0` waits for ever on a semaphore without slots (the run has at least
  one), and `bench_qpack -batch 0` never ends.
* `minimalQPACKHeaders` (`cross_test/main.go:568`) leaves a stray byte before the length
  of a name of 70 bytes or more, of whose VarInt it overwrites only the last byte;
  the names it is given are shorter.

## 7. Plan

1. `Router` with the flag's check and the handling apart (`preview_mt`), and with
   what actors send at shutdown.
2. Stream limits (MAX_STREAMS and its loss), connection ids and path validation.
3. The QPACK dynamic table of encoder and decoder; H3 control streams.
