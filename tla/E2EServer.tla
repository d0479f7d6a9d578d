----------------------------- MODULE E2EServer ------------------------------
(***************************************************************************)
(* What the HTTP/3 servers of the test bed answer: the routes of           *)
(* src/examples/e2e_server.cr behind H3::Router (src/src/h3/router.cr) and *)
(* H3::Server#handle_request, and the quic-go servers the benchmarks       *)
(* compare it with.  A body is the set of the tokens that can be looked    *)
(* for in it, and its length; a path is its segments; a query maps names   *)
(* to values.                                                              *)
(***************************************************************************)
EXTENDS Integers, Sequences

Fill(c, n) == [parts |-> IF n = 0 THEN {} ELSE {<<"fill", c>>}, len |-> n]
Text(words, n) == [parts |-> {<<"word", w>> : w \in words}, len |-> n]
Empty == Fill("", 0)
Sha256(body) == <<"sha256", body.parts, body.len>>
Size(body) == <<"size", body.len>>
Json(tokens) == [parts |-> tokens \cup {<<"word", ":">>}, len |-> 1]

Request(method, path, query, body, headers) ==
  [method |-> method, path |-> path, query |-> query, body |-> body,
   headers |-> headers]

Get(path) == Request("GET", path, [x \in {} |-> 0], Empty, {})
Query(path, query) == Request("GET", path, query, Empty, {})
Send(method, path, body) == Request(method, path, [x \in {} |-> 0], body, {})

Answer(status, type, body) ==
  [status |-> status, type |-> type, body |-> body, headers |-> {},
   delay |-> 0]

Param(req, name, default) ==
  IF name \in DOMAIN req.query THEN req.query[name] ELSE default

Clamp(n, low, high) == IF n < low THEN low ELSE IF n > high THEN high ELSE n

-----------------------------------------------------------------------------
(* H3::Router *)

(* A pattern's segment that starts with a colon captures any segment. *)
Captures(seg) == seg \in {":code"}

(* match_route *)
Matches(pattern, segs) ==
  /\ Len(pattern) = Len(segs)
  /\ \A i \in DOMAIN pattern : Captures(pattern[i]) \/ pattern[i] = segs[i]

(* The routes in the order e2e_server.cr registers them. *)
Routes ==
  << [method |-> "GET",    pattern |-> <<>>],
     [method |-> "GET",    pattern |-> <<"healthz">>],
     [method |-> "GET",    pattern |-> <<"ping">>],
     [method |-> "GET",    pattern |-> <<"method">>],
     [method |-> "POST",   pattern |-> <<"echo">>],
     [method |-> "PUT",    pattern |-> <<"echo">>],
     [method |-> "PATCH",  pattern |-> <<"echo">>],
     [method |-> "DELETE", pattern |-> <<"resource">>],
     [method |-> "HEAD",   pattern |-> <<>>],
     [method |-> "GET",    pattern |-> <<"status", ":code">>],
     [method |-> "GET",    pattern |-> <<"large">>],
     [method |-> "GET",    pattern |-> <<"echo-headers">>],
     [method |-> "POST",   pattern |-> <<"upload">>],
     [method |-> "GET",    pattern |-> <<"slow">>],
     [method |-> "POST",   pattern |-> <<"digest">>],
     [method |-> "GET",    pattern |-> <<"100k">>],
     [method |-> "GET",    pattern |-> <<"repeat">>],
     [method |-> "GET",    pattern |-> <<"send-goaway">>],
     [method |-> "GET",    pattern |-> <<"push-demo">>] >>

(* dispatch takes the first route that matches. *)
Matching(req) ==
  {i \in DOMAIN Routes : Routes[i].method = req.method
                         /\ Matches(Routes[i].pattern, req.path)}

(* The number a path segment reads as; to_i raises on others (rescue 200). *)
Numeral == [s \in {"200", "201", "302", "400", "404", "500", "503"} |->
              CASE s = "200" -> 200 [] s = "201" -> 201 [] s = "302" -> 302
                [] s = "400" -> 400 [] s = "404" -> 404 [] s = "500" -> 500
                [] s = "503" -> 503]

StatusCode(seg) == IF seg \in DOMAIN Numeral THEN Numeral[seg] ELSE 200

(* The handlers, by the route's first segment. *)
Handled(route, req) ==
  LET text(words, n) == Answer(200, "text/plain", Text(words, n))
      name == IF route.pattern = <<>> THEN "" ELSE route.pattern[1]
  IN CASE name = "" /\ req.method = "GET" -> text({"quic.cr"}, 19)
       [] name = "" /\ req.method = "HEAD" ->
            [Answer(200, "text/plain", Empty) EXCEPT
               !.headers = {<<"x-server", "quic.cr">>}]
       [] name = "healthz" ->
            Answer(200, "application/json", Text({"status", "ok"}, 15))
       [] name = "ping"   -> text({"pong"}, 4)
       [] name = "method" -> text({req.method}, 3)
       [] name = "echo"   -> Answer(200, "text/plain", req.body)
       [] name = "resource" -> Answer(204, "none", Empty)
       [] name = "status" -> 
            Answer(StatusCode(req.path[2]), "text/plain", Text({"Status"}, 10))
       [] name = "large"  ->
            Answer(200, "text/plain",
                   Fill("x", Clamp(Param(req, "n", 65536), 0, 10485760)))
       [] name = "echo-headers" ->
            Answer(200, "application/json",
                   Json({<<"word", h[2]>> : h \in req.headers}))
       [] name = "upload" -> Answer(200, "application/json", Json({Size(req.body)}))
       [] name = "slow"   ->
            [text({"ok"}, 2) EXCEPT !.delay = Clamp(Param(req, "ms", 0), 0, 5000)]
       [] name = "digest" ->
            Answer(200, "application/json", Json({Sha256(req.body), Size(req.body)}))
       [] name = "100k"   -> Answer(200, "text/plain", Fill("x", 102400))
       [] name = "repeat" ->
            Answer(200, "text/plain",
                   Fill(Param(req, "c", "x"), Clamp(Param(req, "n", 0), 0, 10000000)))
       [] name = "send-goaway" -> text({"ok"}, 2)
       [] name = "push-demo"   -> text({"main response"}, 13)

(* handle_request: the first route's handler, or ctx.not_found. *)
CrystalServer(req) ==
  IF Matching(req) = {}
    THEN Answer(404, "text/plain", Text({"Not Found"}, 9))
    ELSE Handled(Routes[CHOOSE i \in Matching(req) :
                          \A j \in Matching(req) : i <= j], req)

(* handle_request on the first frame of a request stream: the application  *)
(* error code the connection is closed with, {} if the request is served.  *)
FrameUnexpected == 261
IdError == 264
MessageError == 270

Rejects(frame) ==
  CASE frame.type \in {"DATA", "SETTINGS"} -> {FrameUnexpected}
    [] frame.type = "PUSH_PROMISE" -> {IdError}
    [] frame.type = "HEADERS" ->
         IF {":method", ":path", ":scheme"} \subseteq frame.names
            /\ ":status" \notin frame.names
           THEN {} ELSE {MessageError}

-----------------------------------------------------------------------------
(* The quic-go servers.  http.ServeMux picks the exact pattern, else the   *)
(* longest subtree: every pattern here has at most one segment.            *)

Mux(exact, tree, path) ==
  CASE Len(path) = 1 /\ path[1] \in exact -> path[1]
    [] Len(path) > 1 /\ path[1] \in tree -> path[1]
    [] OTHER -> "/"

Pong == Answer(200, "text/plain", Text({"pong"}, 4))
Hundred == Answer(200, "application/octet-stream", Fill("x", 102400))
Echoed(req) == Answer(200, "application/octet-stream", req.body)
Welcome == Answer(200, "application/json", Text({"Welcome"}, 48))
NotFound == Answer(404, "text/plain", Text({"404 page not found"}, 19))

(* stress_test/main.go: startGoServer *)
StressGoServer(req) ==
  LET p == Mux({"ping", "100k", "echo"}, {}, req.path) IN
  CASE p = "ping" -> Pong [] p = "100k" -> Hundred
    [] p = "echo" -> Echoed(req) [] p = "/" -> Welcome

(* bench_h3/main.go: startGoServer *)
BenchH3GoServer(req) ==
  LET p == Mux({"ping", "100k"}, {}, req.path) IN
  CASE p = "ping" -> Pong [] p = "100k" -> Hundred [] p = "/" -> NotFound

(* bench_3way/main.go: startGoServer *)
ThreeWayGoServer(req) ==
  LET p == Mux({"greet", "echo", "ping"}, {"users"}, req.path) IN
  CASE p = "greet" ->
         Answer(200, "application/json", Text({Param(req, "name", "World")}, 27))
    [] p = "users" -> Answer(200, "application/json", Text({req.path[2]}, 28))
    [] p = "echo" -> Echoed(req)
    [] p = "ping" -> Pong
    [] p = "/" -> IF req.path = <<>> THEN Welcome ELSE NotFound
=============================================================================
