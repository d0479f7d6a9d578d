------------------------------ MODULE E2ETests ------------------------------
(***************************************************************************)
(* The requests the Go clients send and what they check of the answer:     *)
(* the suites of src/bench/go_client/main.go, the tests of cross_test and  *)
(* the requests of the benchmarks.  A test is a request and what is wanted *)
(* of its answer; Accepts is the check.  How the suites are run, and by    *)
(* how many goroutines, is in modules WorkerPool and BenchClient.          *)
(***************************************************************************)
EXTENDS E2EServer

(* The checks: a status, tokens the body contains, the bodies and the      *)
(* lengths it may have (any if the set is empty), its least length, the    *)
(* content types, the headers and the least time the request took.         *)
Want(status) ==
  [status |-> status, has |-> {}, is |-> {}, len |-> {}, atLeast |-> 0,
   type |-> {}, headers |-> {}, slower |-> 0]

Accepts(want, ans) ==
  /\ ans.status = want.status
  /\ want.has \subseteq ans.body.parts
  /\ want.is # {} => ans.body \in want.is
  /\ want.len # {} => ans.body.len \in want.len
  /\ ans.body.len >= want.atLeast
  /\ want.type # {} => ans.type \in want.type
  /\ want.headers \subseteq ans.headers
  /\ ans.delay >= want.slower

expectStatus(s) == Want(s)
expectStatusBody(s, w) == [Want(s) EXCEPT !.has = {<<"word", w>>}]
expectBodyLen(s, n) == [Want(s) EXCEPT !.atLeast = n]
expectBody(body) == [Want(200) EXCEPT !.is = {body}]
expectLen(n) == [Want(200) EXCEPT !.len = {n}]
expectSha(body) == [Want(200) EXCEPT !.has = {Sha256(body)}]
expectDigest(body) == [Want(200) EXCEPT !.has = {Sha256(body), Size(body)}]
expectType(t) == [Want(200) EXCEPT !.type = {t}]

Test(req, want) == [req |-> req, want |-> want]
Word(w) == Text({w}, 1)
GetPing == Get(<<"ping">>)
Pinged == Test(GetPing, expectBody(Text({"pong"}, 4)))
EchoOf(method, w) ==
  Test(Send(method, <<"echo">>, Word(w)), expectStatusBody(200, w))
StatusIs(path, s) == Test(Get(path), expectStatus(s))
DigestOf(body) == Test(Send("POST", <<"digest">>, body), expectDigest(body))
ShaOf(body) == Test(Send("POST", <<"digest">>, body), expectSha(body))
HeadersEchoed(hs) ==
  Test([Get(<<"echo-headers">>) EXCEPT !.headers = hs],
       [Want(200) EXCEPT !.has = {<<"word", h[2]>> : h \in hs}])
LargeOf(n, least) ==
  Test(Query(<<"large">>, [x \in {"n"} |-> n]), expectBodyLen(200, least))
RepeatOf(n, c) ==
  Test(Query(<<"repeat">>, [x \in {"n", "c"} |-> IF x = "n" THEN n ELSE c]),
       expectBody(Fill(c, n)))
SlowFor(ms, least) ==
  Test(Query(<<"slow">>, [x \in {"ms"} |-> ms]),
       [expectStatusBody(200, "ok") EXCEPT !.slower = least])

-----------------------------------------------------------------------------
(* The suites of main.go, in its order. *)

Suite1 ==
  { Test(Get(<<>>), expectStatusBody(200, "quic.cr")),
    Test(Get(<<"healthz">>),
         [Want(200) EXCEPT !.has = {<<"word", "status">>, <<"word", "ok">>}]),
    Pinged,
    Test(Get(<<"method">>), expectBody(Text({"GET"}, 3))),
    EchoOf("POST", "hello from quic-go"),
    EchoOf("PUT", "put-payload"),
    EchoOf("PATCH", "patch-payload"),
    Test(Send("DELETE", <<"resource">>, Empty), expectStatus(204)),
    Test(Send("HEAD", <<>>, Empty),
         [expectBody(Empty) EXCEPT !.headers = {<<"x-server", "quic.cr">>}]) }

Suite2 ==
  { StatusIs(<<"status", "200">>, 200), StatusIs(<<"status", "201">>, 201),
    StatusIs(<<"status", "400">>, 400), StatusIs(<<"not-found-xyz">>, 404),
    StatusIs(<<"status", "500">>, 500) }

Suite3 ==
  { LargeOf(1048576, 1048570),
    Test(Send("POST", <<"echo">>, Fill("x", 65536)), expectBodyLen(200, 65530)),
    Test(Send("POST", <<"echo">>, Fill("y", 262144)), expectBodyLen(200, 262130)),
    Test(Send("POST", <<"upload">>, Fill("z", 131072)),
         [Want(200) EXCEPT !.has = {<<"size", 131072>>}]) }

Suite4 ==
  { Test(Get(<<"echo-headers">>), expectStatusBody(200, ":")),
    Test(GetPing, expectType("text/plain")),
    Test(Get(<<"healthz">>), expectType("application/json")) }

Suite5 == {Pinged}
Suite6 == {Test(Send("POST", <<"echo">>, Fill("a", 4096)),
                [Want(200) EXCEPT !.has = {<<"fill", "a">>}])}
Suite7 == {LargeOf(65536, 65530)}
Suite8 == {Pinged}

Suite9 ==
  { Test(Get(<<>>), expectStatusBody(200, "quic.cr")),
    StatusIs(<<"healthz">>, 200), EchoOf("POST", "conn-hello"),
    Test(GetPing, expectStatusBody(200, "pong")) }

Suite10 ==
  { Test(Get(<<>>), expectStatusBody(200, "quic.cr")),
    StatusIs(<<"healthz">>, 200), EchoOf("POST", "quicv2-test"), Pinged }

Suite11 ==
  { Test(Send("POST", <<"echo">>, Fill("abcdefghij", 1000)),
         expectBody(Fill("abcdefghij", 1000))),
    DigestOf(Text({"hello world"}, 11)),
    RepeatOf(100, "A") }

Suite12 == {LargeOf(10485760, 10485750)}

Suite13 ==
  { HeadersEchoed({<<"x-request-id", "test-abc-123">>}),
    HeadersEchoed({<<"x-trace-id", "trace-xyz-789">>}),
    HeadersEchoed({<<"x-client-version", "v1.2.3">>, <<"x-region", "eu-west-1">>}) }

Suite14 == {EchoOf("POST", "pipeline-test")}
Suite15 == {LargeOf(65536, 65530), Pinged}
Suite16 == {Pinged}
Suite17 == {SlowFor(200, 150)}
Suite18 == {ShaOf(Text({"hello world"}, 11)), DigestOf(Fill("a", 64)),
            DigestOf(Fill("x", 1024))}
Suite19 == {Test(GetPing, expectStatusBody(200, "pong"))}
Suite20 == {DigestOf(Fill("Z", 1048576)), ShaOf(Empty)}

Suite21 ==
  { StatusIs(<<"nonexistent-path-xyz">>, 404), StatusIs(<<"status", "404">>, 404),
    StatusIs(<<"status", "500">>, 500), StatusIs(<<"status", "503">>, 503),
    StatusIs(<<"status", "201">>, 201), StatusIs(<<"status", "302">>, 302),
    Test(Send("POST", <<"echo">>, Empty), expectStatus(200)),
    RepeatOf(0, "x"), RepeatOf(1, "Z"),
    Test(SlowFor(0, 0).req, expectStatus(200)) }

Suite22 ==
  { Test(Get(<<"push-demo">>), expectStatusBody(200, "main response")),
    StatusIs(<<"push-demo">>, 200) }

Suite24 ==
  {Test(Send("POST", <<"echo">>, Fill("M", size)), expectLen(size)) :
     size \in {1000, 1200, 1300, 1400, 1450, 1472, 1500, 2048, 4096, 8192}}

(* testStreamsBlockedFlow *)
Suite25 == {Pinged}

(* testDynamicQpack *)
Suite27 ==
  {HeadersEchoed({<<"x-dyn-qpack-test", "dynamic-qpack-verifier-abc123">>})}

-----------------------------------------------------------------------------
(* The tests of cross_test/main.go. *)

testGetPing    == Pinged
testPostEcho   == EchoOf("POST", "hello quic.cr")
testPutEcho    == EchoOf("PUT", "put-body")
testPatchEcho  == EchoOf("PATCH", "patch-body")
testDeleteResource == Test(Send("DELETE", <<"resource">>, Empty), expectStatus(204))
testGetHealthz == Test(Get(<<"healthz">>), expectStatusBody(200, "ok"))
testGetMethod  == Test(Get(<<"method">>), expectStatusBody(200, "GET"))
testStatus200  == StatusIs(<<"status", "200">>, 200)
testStatus404  == StatusIs(<<"status", "404">>, 404)
testStatus201  == StatusIs(<<"status", "201">>, 201)
testEchoHeaders == HeadersEchoed({<<"x-test-id", "cross-validation">>})
testGet100k    == Test(Get(<<"100k">>), expectLen(102400))
testGetLarge   == Test(LargeOf(4096, 0).req, expectLen(4096))
testPostEchoLarge ==
  Test(Send("POST", <<"echo">>, Fill("A", 1000000)), expectLen(1000000))
testDigest ==
  ShaOf(Text({"cross-test-digest-payload"}, 25))
testRepeat     == RepeatOf(30, "z")
testConcurrentPing == Test(GetPing, expectStatus(200))
testSlowEndpoint == Test(SlowFor(80, 80).req, [Want(200) EXCEPT !.slower = 80])
testUpload ==
  Test(Send("POST", <<"upload">>, Fill("X", 5000)),
       [Want(200) EXCEPT !.has = {<<"size", 5000>>}])
testGetLarge64k == Test(LargeOf(65536, 0).req, expectLen(65536))
testMultipleConnections == Test(GetPing, expectStatus(200))
testSequentialRequests == Pinged
testNotFound == StatusIs(<<"definitely_nonexistent_xyzzy">>, 404)
testDynamicQPACK == Pinged

(* The five tests that inject a frame: each wants the connection closed,   *)
(* with one of the codes in want (sendRawH3 reports 0 when the cause is    *)
(* not an application error).                                              *)
Inject(type, names, codes) == [type |-> type, names |-> names, want |-> codes \cup {0}]

testDataBeforeHeaders == Inject("DATA", {}, {261})
testSettingsOnRequestStream == Inject("SETTINGS", {}, {261})
testMissingMethod == Inject("HEADERS", {":path", ":scheme", ":authority"}, {270})
testStatusInRequest ==
  Inject("HEADERS", {":method", ":path", ":scheme", ":status"}, {270})
testPushPromiseOnRequestStream == Inject("PUSH_PROMISE", {}, 0 .. 272)

-----------------------------------------------------------------------------
(* The requests of the benchmarks: wanted is the status their doRequest    *)
(* counts as served.                                                       *)

BenchGet(path) == Test(Get(path), expectStatus(200))
BenchPost(body) == Test(Send("POST", <<"echo">>, body), expectStatus(200))

(* bench_3way: scenarios *)
ThreeWayScenarios ==
  << BenchGet(<<>>),
     Test(Query(<<"greet">>, [x \in {"name"} |-> "Bench"]), expectStatus(200)),
     BenchGet(<<"users", "42">>),
     BenchPost(Fill("v", 520)),
     BenchPost(Fill("x", 65536)) >>

(* bench_concurrent: scenarios *)
ConcurrentScenarios ==
  << BenchGet(<<>>), BenchPost(Text({"msg"}, 15)), BenchPost(Fill("x", 1048576)) >>

(* phaseMixed picks by a rotating index. *)
MixedPick(idx) ==
  LET pick == idx % 10 IN
  IF pick <= 6 THEN BenchGet(<<"ping">>)
  ELSE IF pick <= 8 THEN BenchPost(Fill("y", 65536))
  ELSE BenchGet(<<"100k">>)

-----------------------------------------------------------------------------
(* Does the server's answer pass the test? *)
Passes(test, ans) == Accepts(test.want, ans)

ClosedAsWanted(frame) == Rejects(frame) # {} /\ Rejects(frame) \subseteq frame.want
=============================================================================
