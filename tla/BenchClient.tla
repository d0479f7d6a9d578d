----------------------------- MODULE BenchClient ----------------------------
(***************************************************************************)
(* One of the Go clients of src/bench/go_client, from main() to its exit   *)
(* code, against servers that may be missing, crash, or leave a request    *)
(* unanswered.  What main() does is a script, a sequence of instructions   *)
(* (module GoPrograms has them all); module WorkerPool has the goroutines  *)
(* of the function that is running.                                        *)
(***************************************************************************)
EXTENDS WorkerPool, Sequences

CONSTANTS
  Programs,      \* the script of each program
  TestPrograms,  \* the programs whose exit code is a verdict
  Servers        \* the servers they talk to

(* The instructions that a process does not end at, nor a server starts. *)
Harmless == {"run", "raw"}

(* A server process that a script starts is killed on the way, before the  *)
(* program can exit, or by a deferred call, which only cross_test_start    *)
(* has.  A failed start skips the kill too.                                *)
Watched(p, script) ==
  \A i \in DOMAIN script : script[i].op = "exec" =>
    LET k == i + script[i].skip IN
    IF script[i].deferred THEN p = "cross_test_start" /\ script[i].skip = 0
    ELSE /\ script[i].skip \in Nat \ {0} /\ k \in DOMAIN script
         /\ script[k].op = "kill" /\ script[k].srv = script[i].srv
         /\ \A j \in (i + 1) .. (k - 1) : script[j].op \in Harmless

(* The suites and tests: every request has an outcome in one counter, and  *)
(* an answer in full is the one that was wanted.                           *)
Truthful(instr) ==
  LET fn == instr.fn IN
  /\ instr.verdicts \subseteq {"ok"}
  /\ \A o \in Outcome : /\ "failures" \in fn.first[o] <=> o # "ok"
                        /\ {"passed", "failures"} \cap fn.second[o] = {}
  /\ \/ instr.judge = "test"
     \/ /\ instr.judge = "suite"
        /\ fn.loop \in {"once", "count"} /\ ~fn.stops
        /\ \A o \in Outcome : "passed" \in fn.first[o] <=> o = "ok"

(* The tests on a connection: what a stage awaits has been sent, if what   *)
(* the earlier ones awaited has come.                                      *)
Answered(stages) ==
  /\ Len(stages) \in Nat
  /\ \A k \in 1 .. Len(stages) :
       /\ stages[k].await \in UNION {stages[j].sends : j \in 1 .. k}
       /\ stages[k].needs \subseteq {stages[j].await : j \in 1 .. (k - 1)}

(* The scripts of the test programs: a server that is started is awaited,  *)
(* and the results decide at the end.                                      *)
Verdict(script) ==
  \A i \in DOMAIN script :
    LET instr == script[i] IN
    /\ instr.op \in {"run", "raw", "probe", "exec", "exitIf"}
    /\ instr.op = "run" => Truthful(instr)
    /\ instr.op = "raw" => Answered(instr.stages)
    /\ instr.op = "exitIf" => instr.fact \in {"failures", "missing"}
    /\ instr.op # "exitIf" => instr.srv \in Servers /\ i # Len(script)
    /\ instr.op = "exec" =>
         /\ instr.skip = 0
         /\ script[i + 1].op = "probe" /\ script[i + 1].srv = instr.srv

ASSUME ScriptAssumption ==
  \A p \in DOMAIN Programs :
    LET script == Programs[p] IN
    /\ script \in Seq({script[i] : i \in DOMAIN script})
    /\ Watched(p, script)
    /\ p \in TestPrograms => script # <<>> /\ Verdict(script)

VARIABLES
  prog,     \* the program
  todo,     \* what is left of its script
  called,   \* is the function of the next instruction running?
  exit,     \* "running", or the exit code
  ext,      \* which servers somebody else has started
  proc,     \* the servers the program started
  defers,   \* the processes its deferred calls kill
  acc,      \* what the results say so far
  stage,    \* where a test on a connection of its own is
  due,      \* what the server has sent on that connection
  arrived,  \* what has come in
  broken,   \* did the environment fail? (history)
  flawed    \* did a request or a test fail? (history)

mainVars == <<prog, todo, called, exit, ext, proc, defers, acc, stage, due,
              arrived, broken, flawed>>

vars == <<mainVars, poolVars>>

(* The main goroutine is at the head of what is left. *)
Instr == Head(todo)
At(op) == exit = "running" /\ todo # <<>> /\ Instr.op = op

(* The Crystal servers bind with SO_REUSEPORT: two of them share a port. *)
Up(srv) == ext[srv] \/ proc[srv] \in {"alive", "inline"}

Init ==
  /\ PoolInit
  /\ prog \in DOMAIN Programs /\ todo = Programs[prog] /\ called = FALSE
  /\ exit = "running"
  /\ ext \in [Servers -> BOOLEAN]
  /\ \A s \in Servers : ext[s] => \E i \in DOMAIN todo :
       todo[i].op # "exitIf" /\ todo[i].srv = s
  /\ proc = [s \in Servers |-> "none"] /\ defers = {}
  /\ acc = [missing |-> FALSE, failures |-> FALSE, results |-> FALSE]
  /\ stage = 0 /\ due = {} /\ arrived = {}
  /\ broken = FALSE /\ flawed = FALSE

-----------------------------------------------------------------------------
(* A function with goroutines. *)

Call ==
  /\ At("run") /\ ~called
  /\ Start(Instr.fn)
  /\ called' = TRUE
  /\ UNCHANGED <<prog, todo, exit, ext, proc, defers, acc, stage, due, arrived,
                 broken, flawed>>

(* The steps of the function and its goroutines. *)
InPool ==
  /\ At("run") /\ called
  /\ PoolStep
  /\ UNCHANGED mainVars

(* A request ends: with what the server answers, with an answer whose body *)
(* breaks off, or with an error.                                           *)
Reached(w) ==
  /\ At("run") /\ called
  /\ \E o \in Outcome :
       /\ \/ Up(Instr.srv) /\ o \in Instr.verdicts /\ broken' = broken
          \/ Up(Instr.srv) /\ o \in Instr.short /\ broken' = TRUE
          \/ o = "none" /\ broken' = TRUE
       /\ Reply(w, o)
       /\ flawed' = (flawed \/ o # "ok")
  /\ UNCHANGED <<prog, todo, called, exit, ext, proc, defers, acc, stage, due,
                 arrived>>

Requested(fn) == fn.spawn * (IF fn.loop = "once" THEN 1 ELSE MaxReqs)

(* Faulty variant: only the last suite's total is compared. *)
JudgedLast(judge) ==
  CASE judge = "suite"  -> [acc EXCEPT !.missing = count["passed"] # Requested(pool),
                                       !.failures = @ \/ count["failures"] > 0]
    [] judge = "test"   -> [acc EXCEPT !.missing = @ \/ count["failures"] > 0,
                                       !.failures = @ \/ count["failures"] > 0]
    [] judge = "result" -> [acc EXCEPT !.results = TRUE]
    [] judge = "bench"  -> acc

(* What the counters of a function add to the results: a suite of main.go  *)
(* reports passed of total, a test of cross_test passes or fails.          *)
Judged(judge) ==
  CASE judge = "suite"  -> [acc EXCEPT !.missing = @ \/ count["passed"] # Requested(pool),
                                       !.failures = @ \/ count["failures"] > 0]
    [] judge = "test"   -> [acc EXCEPT !.missing = @ \/ count["failures"] > 0,
                                       !.failures = @ \/ count["failures"] > 0]
    [] judge = "result" -> [acc EXCEPT !.results = TRUE]
    [] judge = "bench"  -> acc

Collect ==
  /\ At("run") /\ called /\ main = "over"
  /\ acc' = Judged(Instr.judge)
  /\ todo' = Tail(todo) /\ called' = FALSE
  /\ UNCHANGED <<prog, exit, ext, proc, defers, stage, due, arrived, broken,
                 flawed, poolVars>>

-----------------------------------------------------------------------------
(* A test on a connection of its own. *)

NoRaw == stage' = 0 /\ due' = {} /\ arrived' = {}

(* The client sends what belongs to stage k, or the test is over. *)
Enter(k) ==
  IF k > Len(Instr.stages)
    THEN NoRaw /\ todo' = Tail(todo)
    ELSE /\ stage' = k
         /\ due' = IF Up(Instr.srv) /\ Instr.stages[k].needs \subseteq arrived
                     THEN due \cup Instr.stages[k].sends ELSE due
         /\ UNCHANGED <<todo, arrived>>

Dial ==
  /\ At("raw") /\ stage = 0
  /\ Enter(1)
  /\ UNCHANGED <<prog, called, exit, ext, proc, defers, acc, broken, flawed,
                 poolVars>>

(* Streams are independent: what was sent arrives in any order. *)
Arrive(e) ==
  /\ At("raw") /\ stage > 0 /\ e \in due
  /\ due' = due \ {e} /\ arrived' = arrived \cup {e}
  /\ UNCHANGED <<prog, todo, called, exit, ext, proc, defers, acc, stage, broken,
                 flawed, poolVars>>

Awaited ==
  /\ At("raw") /\ stage > 0 /\ Instr.stages[stage].await \in arrived
  /\ Enter(stage + 1)
  /\ UNCHANGED <<prog, called, exit, ext, proc, defers, acc, broken, flawed,
                 poolVars>>

(* The context or the read deadline expires.  The test goes on if it only  *)
(* gave the server time, and has failed otherwise.                         *)
Expire ==
  /\ At("raw") /\ stage > 0 /\ Instr.stages[stage].await \notin arrived
  /\ broken' = (broken \/ ~Up(Instr.srv) \/ Instr.stages[stage].await \in due)
  /\ IF Instr.stages[stage].optional
       THEN Enter(stage + 1) /\ UNCHANGED <<acc, flawed>>
       ELSE /\ NoRaw /\ todo' = Tail(todo)
            /\ acc' = [acc EXCEPT !.missing = TRUE, !.failures = TRUE]
            /\ flawed' = TRUE
  /\ UNCHANGED <<prog, called, exit, ext, proc, defers, poolVars>>

-----------------------------------------------------------------------------
(* Servers, checks and the exit. *)

(* Faulty variant: main leaves by os.Exit(0) and skips its deferred calls. *)
LeaveAtOnce(code) ==
  /\ exit' = code
  /\ proc' = [s \in Servers |-> IF proc[s] = "inline" THEN "none" ELSE proc[s]]

(* The process ends: its own goroutines and servers with it.  The deferred *)
(* calls run when main returns, and not on os.Exit.                        *)
Leave(code) ==
  /\ exit' = code
  /\ proc' = [s \in Servers |->
                IF proc[s] = "inline" \/ (code = "0" /\ s \in defers)
                  THEN "none" ELSE proc[s]]

osExit == Leave("1") /\ UNCHANGED todo

Pass == todo' = Tail(todo) /\ UNCHANGED <<exit, proc>>

(* Faulty variant: the loop that dials does not look at its deadline. *)
CheckForever ==
  /\ At("probe")
  /\ \/ Up(Instr.srv) /\ Pass
     \/ ~Up(Instr.srv) /\ UNCHANGED <<todo, exit, proc>>
  /\ UNCHANGED <<prog, called, ext, defers, acc, stage, due, arrived, broken,
                 flawed, poolVars>>

(* waitForServer, and the probes of the benchmarks. *)
Check ==
  /\ At("probe")
  /\ \/ Up(Instr.srv) /\ Pass /\ UNCHANGED broken
     \/ osExit /\ broken' = TRUE
  /\ UNCHANGED <<prog, called, ext, defers, acc, stage, due, arrived, flawed,
                 poolVars>>

(* go srv.ListenAndServe(): its error, when the port is taken, is ignored. *)
ListenAndServe ==
  /\ At("inline")
  /\ proc' = [proc EXCEPT ![Instr.srv] = IF ext[Instr.srv] THEN "none" ELSE "inline"]
  /\ todo' = Tail(todo)
  /\ UNCHANGED <<prog, called, exit, ext, defers, acc, stage, due, arrived,
                 broken, flawed, poolVars>>

(* exec.Command and Start, or no such binary. *)
StartServer ==
  /\ At("exec")
  /\ \/ /\ proc' = [proc EXCEPT ![Instr.srv] = "starting"]
        /\ defers' = IF Instr.deferred THEN defers \cup {Instr.srv} ELSE defers
        /\ todo' = Tail(todo)
        /\ UNCHANGED <<exit, broken>>
     \/ /\ broken' = TRUE
        /\ IF Instr.skip = 0 THEN osExit
           ELSE /\ todo' = SubSeq(todo, Instr.skip + 2, Len(todo))
                /\ UNCHANGED <<exit, proc>>
        /\ UNCHANGED defers
  /\ UNCHANGED <<prog, called, ext, acc, stage, due, arrived, flawed, poolVars>>

(* Process.Kill and Wait. *)
StopServer ==
  /\ At("kill")
  /\ proc' = [proc EXCEPT ![Instr.srv] = "none"]
  /\ todo' = Tail(todo)
  /\ UNCHANGED <<prog, called, exit, ext, defers, acc, stage, due, arrived,
                 broken, flawed, poolVars>>

Holds(fact) ==
  CASE fact = "failures" -> acc.failures
    [] fact = "missing"  -> acc.missing
    [] fact = "nothing"  -> ~acc.results

(* The final report. *)
Decide ==
  /\ At("exitIf")
  /\ IF Holds(Instr.fact) THEN osExit ELSE Pass
  /\ UNCHANGED <<prog, called, ext, defers, acc, stage, due, arrived, broken,
                 flawed, poolVars>>

Return ==
  /\ exit = "running" /\ todo = <<>>
  /\ Leave("0")
  /\ UNCHANGED <<prog, todo, called, ext, defers, acc, stage, due, arrived,
                 broken, flawed, poolVars>>

-----------------------------------------------------------------------------
(* The environment. *)

(* A server process has bound its port. *)
Boot(srv) ==
  /\ exit = "running" /\ proc[srv] = "starting"
  /\ proc' = [proc EXCEPT ![srv] = "alive"]
  /\ UNCHANGED <<prog, todo, called, exit, ext, defers, acc, stage, due, arrived,
                 broken, flawed, poolVars>>

(* A server in another process dies. *)
Crash(srv) ==
  /\ exit = "running"
  /\ \/ ext[srv] /\ ext' = [ext EXCEPT ![srv] = FALSE] /\ UNCHANGED proc
     \/ /\ proc[srv] \in {"starting", "alive"}
        /\ proc' = [proc EXCEPT ![srv] = "none"] /\ UNCHANGED ext
  /\ broken' = TRUE
  /\ UNCHANGED <<prog, todo, called, exit, defers, acc, stage, due, arrived,
                 flawed, poolVars>>

MainStep ==
  \/ Call \/ Collect \/ Dial \/ Awaited \/ Check \/ ListenAndServe
  \/ StartServer \/ StopServer \/ Decide \/ Return

Terminated == exit # "running" /\ UNCHANGED vars

Next ==
  \/ MainStep \/ InPool \/ Expire
  \/ \E w \in Worker : Reached(w)
  \/ \E e \in due : Arrive(e)
  \/ \E srv \in Servers : Boot(srv) \/ Crash(srv)
  \/ Terminated

(* The Go scheduler runs every goroutine; a request ends, if not with an   *)
(* answer then with the error of its context's deadline, of the client's   *)
(* Timeout or of quic-go's idle timeout; clocks go on.                     *)
Fairness ==
  /\ WF_vars(MainStep) /\ WF_vars(Expire)
  /\ WF_vars(InPool)
  /\ \A w \in Worker : WF_vars(Reached(w))

Spec == Init /\ [][Next]_vars /\ Fairness

-----------------------------------------------------------------------------
(* The exit code of a test program tells the truth: it is 0 only if no     *)
(* request and no test failed, it is 1 only if a server or the network     *)
(* failed it (against e2e_server every check of every test passes), and    *)
(* the two ways to decide, main.go's list of failures and cross_test's     *)
(* passed # total, agree.                                                  *)
ExitTells ==
  prog \in TestPrograms /\ exit # "running" =>
    /\ exit = "0" => ~flawed
    /\ exit = "1" => broken
    /\ acc.missing = acc.failures

(* A server process the program started outlives it only when cross_test   *)
(* leaves by os.Exit, which skips the deferred Kill.                       *)
LeftBehind ==
  exit # "running" /\ (\E s \in Servers : proc[s] # "none")
    => prog = "cross_test_start" /\ exit = "1"

(* The program ends, whatever the servers do: no goroutine waits forever   *)
(* for the gate, a slot, room in the results channel or an answer, and     *)
(* wg.Wait() and every wait for an event returns.                          *)
ProgramEnds == <>(exit # "running")
=============================================================================
