----------------------------- MODULE GoPrograms -----------------------------
(***************************************************************************)
(* The Go clients of src/bench/go_client as scripts: what each main() does *)
(* in order, and the shape of each function that sends requests.  Module   *)
(* BenchClient runs them.                                                  *)
(***************************************************************************)
EXTENDS E2ETests, WorkerPool

CONSTANTS
  Conns,     \* the flag -conns of stress_test
  Slots      \* the flags -c and -conc-c: the capacity of the semaphores

ASSUME GoProgramsAssumption == Conns \in Nat /\ Slots \in Nat

(* The servers the clients talk to: the Crystal e2e_server, the Crystal    *)
(* binaries of bench_qpack, and each benchmark's quic-go server.           *)
GoServers == {"crystal", "routed", "stress-go", "h3-go", "3way-go"}

Serve(srv, req) ==
  CASE srv = "crystal"   -> CrystalServer(req)
    [] srv = "stress-go" -> StressGoServer(req)
    [] srv = "h3-go"     -> BenchH3GoServer(req)
    [] srv = "3way-go"   -> ThreeWayGoServer(req)

-----------------------------------------------------------------------------
(* The instructions of a script. *)

Larger(a, b) == IF a > b THEN a ELSE b
AtMost(n) == IF n > Workers THEN Workers ELSE n

Tally(ok, bad, none) ==
  [o \in Outcome |-> CASE o = "ok" -> ok [] o = "bad" -> bad [] o = "none" -> none]

Verdicts(srv, tests) ==
  {IF Passes(t, Serve(srv, t.req)) THEN "ok" ELSE "bad" : t \in tests}

(* Run the function fn: verdicts is what an answer in full can be, short   *)
(* what the function takes an answer for whose body breaks off, judge how  *)
(* its counters enter the result.                                          *)
Run(fn, srv, verdicts, short, judge) ==
  [op |-> "run", fn |-> fn, srv |-> srv, verdicts |-> verdicts,
   short |-> short, judge |-> judge]

(* A check of the server that exits when it is not there. *)
Probe(srv) == [op |-> "probe", srv |-> srv]

(* A server in the client's own process. *)
Inline(srv) == [op |-> "inline", srv |-> srv]

(* A server process the client starts; if that fails, it exits (skip = 0)  *)
(* or goes on after the next skip instructions.  deferred: is it killed    *)
(* by a deferred call?                                                     *)
Exec(srv, skip, deferred) ==
  [op |-> "exec", srv |-> srv, skip |-> skip, deferred |-> deferred]

Kill(srv) == [op |-> "kill", srv |-> srv]

(* A test on a connection of its own, in stages: what the client sends     *)
(* makes the server send events (if it has sent the event needed), and the *)
(* client awaits one of them, or goes on without it when it is optional.   *)
Stage(needs, sends, await, optional) ==
  [needs |-> needs, sends |-> sends, await |-> await, optional |-> optional]

Raw(srv, stages) == [op |-> "raw", srv |-> srv, stages |-> stages]

(* Exit with 1 when the named fact holds of the results. *)
ExitIf(fact) == [op |-> "exitIf", fact |-> fact]

-----------------------------------------------------------------------------
(* main.go: the runners. *)

SuiteTally == Tally({"passed"}, {"failures"}, {"failures"})

(* A goroutine per test and repetition, and a channel with room for all    *)
(* their results.                                                          *)
runParallel(tests) ==
  Run([NoPool EXCEPT !.spawn = Workers, !.channel = TRUE, !.room = Workers,
                     !.first = SuiteTally],
      "crystal", Verdicts("crystal", tests), {"none"}, "suite")

runSerial(tests) ==
  Run([NoPool EXCEPT !.spawn = 1, !.loop = "count", !.first = SuiteTally],
      "crystal", Verdicts("crystal", tests), {"none"}, "suite")

(* Suite 16: a goroutine and a connection per request. *)
connectionChurn ==
  Run([NoPool EXCEPT !.spawn = Workers, !.first = SuiteTally],
      "crystal", Verdicts("crystal", Suite16), {"none"}, "suite")

-----------------------------------------------------------------------------
(* main.go: the tests below HTTP. *)

testDatagramEcho ==
  Raw("crystal", << Stage({}, {"handshake"}, "handshake", FALSE),
                    Stage({}, {"datagram"}, "datagram", FALSE) >>)

(* What SettingsFrame announces and what the client wants of it. *)
ServerSettings == {<<1, 4096>>, <<6, 16384>>, <<7, 16>>}
WantedSettings == {<<1, 4096>>, <<6, 16384>>, <<7, 16>>}

(* The SETTINGS are checked once they are there.  A goroutine reads the    *)
(* control stream into channels with room for one: GOAWAY may come before  *)
(* the response is read.                                                   *)
testGoawayAndControlStream ==
  Raw("crystal",
      << Stage({}, {"handshake"}, "handshake", FALSE),
         Stage({}, IF WantedSettings \subseteq ServerSettings
                     THEN {"settings"} ELSE {}, "settings", FALSE),
         Stage({}, {"headers", "goaway"}, "headers", FALSE),
         Stage({}, {}, "goaway", FALSE) >>)

(* The first connection brings the ticket, or the 800 ms are over without  *)
(* it; the second uses 0-RTT if it has one.                                *)
testZeroRTT ==
  Raw("crystal",
      << Stage({}, {"handshake"}, "handshake", FALSE),
         Stage({}, {"answer", "ticket"}, "answer", TRUE),
         Stage({}, {}, "ticket", TRUE),
         Stage({}, {"answer2", "handshake2"}, "answer2", TRUE),
         Stage({}, {}, "handshake2", FALSE),
         Stage({"ticket"}, {"early"}, "early", FALSE) >>)

(* main *)
GoClient ==
  << runParallel(Suite1), runParallel(Suite2), runParallel(Suite3),
     runParallel(Suite4), runParallel(Suite5), runParallel(Suite6),
     runParallel(Suite7), runSerial(Suite8), runSerial(Suite9),
     runParallel(Suite10), runParallel(Suite11), runParallel(Suite12),
     runParallel(Suite13), runSerial(Suite14), runParallel(Suite15),
     connectionChurn, runSerial(Suite17), runParallel(Suite18),
     runParallel(Suite19), runParallel(Suite20), runParallel(Suite21),
     runSerial(Suite22), runParallel(Suite22), testDatagramEcho,
     testDatagramEcho, testDatagramEcho, testDatagramEcho,
     runParallel(Suite24), runSerial(Suite25), testGoawayAndControlStream,
     runSerial(Suite27), testZeroRTT, ExitIf("failures") >>

-----------------------------------------------------------------------------
(* cross_test/main.go *)

(* The body's read error is ignored: a body that breaks off is checked as  *)
(* it is, by the tests that look at it.                                    *)
LooksAtBody(test) ==
  test.want.has # {} \/ test.want.is # {} \/ test.want.len # {}

CrossShape(n, loop) ==
  [NoPool EXCEPT !.spawn = n, !.loop = loop,
                 !.first = Tally({}, {"failures"}, {"failures"})]

Cross(test, shape) ==
  Run(shape, "crystal", Verdicts("crystal", {test}),
      IF LooksAtBody(test) THEN {"ok", "bad"} ELSE {"ok"}, "test")

Once(test) == Cross(test, CrossShape(1, "once"))

(* testConcurrentPing, testMultipleConnections: goroutines and errCount. *)
Together(test) == Cross(test, CrossShape(Workers, "once"))

(* testSequentialRequests, testDynamicQPACK return at the first failure. *)
InTurn(test) == Cross(test, [CrossShape(1, "count") EXCEPT !.stops = TRUE])

(* sendRawH3, after the setup of the control, encoder and decoder streams. *)
sendRawH3(frame) ==
  Raw("crystal",
      << Stage({}, {"handshake"}, "handshake", FALSE),
         Stage({}, IF ClosedAsWanted(frame) THEN {"closed"} ELSE {},
               "closed", FALSE) >>)

CrossPhases ==
  << Once(testGetPing), Once(testPostEcho), Once(testPutEcho),
     Once(testPatchEcho), Once(testDeleteResource), Once(testGetHealthz),
     Once(testGetMethod), Once(testStatus200), Once(testStatus404),
     Once(testStatus201), Once(testEchoHeaders), Once(testGet100k),
     Once(testGetLarge), Once(testPostEchoLarge), Once(testDigest),
     Once(testRepeat), Together(testConcurrentPing), Once(testSlowEndpoint),
     Once(testUpload), Once(testGetLarge64k), Together(testMultipleConnections),
     InTurn(testSequentialRequests), Once(testNotFound),
     InTurn(testDynamicQPACK),
     sendRawH3(testDataBeforeHeaders), sendRawH3(testSettingsOnRequestStream),
     sendRawH3(testMissingMethod), sendRawH3(testStatusInRequest),
     sendRawH3(testPushPromiseOnRequestStream), ExitIf("missing") >>

(* main, without and with -start-server. *)
CrossTest == <<Probe("crystal")>> \o CrossPhases
CrossTestStart ==
  <<Exec("crystal", 0, TRUE), Probe("crystal")>> \o CrossPhases

-----------------------------------------------------------------------------
(* stress_test/main.go *)

(* metrics: record appends under the mutex, fail adds to errors; both then *)
(* add to total.                                                           *)
StressShape(n, loop) ==
  [NoPool EXCEPT !.spawn = AtMost(n), !.loop = loop,
                 !.first  = Tally({"lats"}, {"lats"}, {"errors"}),
                 !.second = Tally({"total"}, {"total"}, {"total"})]

(* A body that breaks off is recorded (io.Copy's error is ignored), and so *)
(* is every status.                                                        *)
Phase(shape, srv, tests) == Run(shape, srv, Verdicts(srv, tests), {"ok"}, "bench")

phaseFlood(srv) ==
  Phase([StressShape(Conns, "once") EXCEPT !.gate = TRUE], srv, {BenchGet(<<"ping">>)})
phaseRPS(srv) ==
  Phase(StressShape(Conns, "deadline"), srv, {BenchGet(<<"ping">>)})
phaseThroughput(srv) ==
  Phase(StressShape(Larger(10, Conns \div 4), "count"), srv, {BenchGet(<<"100k">>)})
phaseChurn(srv) ==
  Phase(StressShape(Larger(1, Conns \div 2), "deadline"), srv, {BenchGet(<<"ping">>)})
phaseMixed(srv) ==
  Phase(StressShape(Conns, "deadline"), srv, {MixedPick(i) : i \in 0 .. 9})
phaseLongLived(srv) ==
  Phase(StressShape(10, "count"), srv, {BenchGet(<<"ping">>)})

(* One request after the other, whatever comes of it. *)
warmup(srv) ==
  Run([NoPool EXCEPT !.spawn = 1, !.loop = "count"], srv, {"ok"}, {"ok"}, "bench")

(* portListening dials UDP, which succeeds whether or not anyone listens:  *)
(* the Crystal server is never started and never found missing.            *)
portListening == TRUE

StressTest ==
  (IF portListening THEN <<>> ELSE <<Exec("crystal", 0, FALSE), Probe("crystal")>>)
  \o << Inline("stress-go"), warmup("crystal"), warmup("stress-go"),
        phaseFlood("crystal"), phaseFlood("stress-go"),
        warmup("crystal"), phaseRPS("crystal"),
        warmup("stress-go"), phaseRPS("stress-go"),
        phaseThroughput("crystal"), phaseThroughput("stress-go"),
        phaseChurn("crystal"), phaseChurn("stress-go"),
        warmup("crystal"), phaseMixed("crystal"),
        warmup("stress-go"), phaseMixed("stress-go"),
        phaseLongLived("crystal"), phaseLongLived("stress-go") >>
  \o (IF portListening THEN <<>> ELSE <<Kill("crystal")>>)

-----------------------------------------------------------------------------
(* bench_h3/main.go *)

H3Shape(n, loop) ==
  [NoPool EXCEPT !.spawn = n, !.loop = loop,
                 !.first = Tally({"lats"}, {"lats"}, {"errors"})]

runSeq(srv) == Phase(H3Shape(1, "count"), srv, {BenchGet(<<"ping">>)})
runConc(srv) ==
  Phase([H3Shape(Workers, "once") EXCEPT !.limited = TRUE, !.slots = Slots],
        srv, {BenchGet(<<"ping">>)})
(* No latencies here: total adds up the bytes that io.Copy has read. *)
runThroughput(srv) ==
  Phase([H3Shape(1, "count") EXCEPT !.first = Tally({"total"}, {"total"}, {"errors"})],
        srv, {BenchGet(<<"100k">>)})

bench(srv) == <<warmup(srv), runSeq(srv), runConc(srv), runThroughput(srv)>>

BenchH3 == <<Probe("crystal"), Probe("h3-go")>> \o bench("crystal") \o bench("h3-go")

-----------------------------------------------------------------------------
(* bench_3way/main.go: only a status of 200 is a sample. *)

runScenario3Way(srv, i) ==
  Phase([NoPool EXCEPT !.spawn = Workers, !.limited = TRUE, !.slots = Slots,
                       !.first = Tally({"lats"}, {}, {})],
        srv, {ThreeWayScenarios[i]})

BothServers(i) == <<runScenario3Way("crystal", i), runScenario3Way("3way-go", i)>>

Bench3Way ==
  << Inline("3way-go"), Probe("crystal"), warmup("crystal"), warmup("3way-go") >>
  \o BothServers(1) \o BothServers(2) \o BothServers(3) \o BothServers(4)
  \o BothServers(5)

-----------------------------------------------------------------------------
(* bench_concurrent/main.go: the latency is appended whatever the status,  *)
(* and a 200 counted, under one lock.                                      *)

runScenario(i) ==
  Phase([NoPool EXCEPT !.spawn = Workers,
                       !.first = Tally({"lats", "passed"}, {"lats"}, {"lats"})],
        "crystal", {ConcurrentScenarios[i]})

BenchConcurrent == <<Probe("crystal"), runScenario(1), runScenario(2), runScenario(3)>>

-----------------------------------------------------------------------------
(* bench_qpack/main.go: one server binary after the other. *)

runBatch ==
  Run([NoPool EXCEPT !.spawn = 1, !.loop = "count",
                     !.first = Tally({"lats"}, {"lats"}, {})],
      "routed", {"ok", "bad"}, {"ok", "bad"}, "result")

(* A batch to warm up, then one connection per batch: two of them (bound). *)
benchScenario == <<runBatch, runBatch, runBatch>>

(* stopServer is deferred to the end of the function. *)
benchBinary ==
  LET scenarios == benchScenario \o benchScenario \o benchScenario \o benchScenario
  IN <<Exec("routed", Len(scenarios) + 1, FALSE)>> \o scenarios \o <<Kill("routed")>>

BenchQpack == benchBinary \o benchBinary \o <<ExitIf("nothing")>>

-----------------------------------------------------------------------------
GoScripts ==
  [go_client |-> GoClient, cross_test |-> CrossTest,
   cross_test_start |-> CrossTestStart, stress_test |-> StressTest,
   bench_h3 |-> BenchH3, bench_3way |-> Bench3Way,
   bench_concurrent |-> BenchConcurrent, bench_qpack |-> BenchQpack]

(* The programs whose exit code is a verdict. *)
GoTests == {"go_client", "cross_test", "cross_test_start"}
=============================================================================
