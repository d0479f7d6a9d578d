----------------------------- MODULE WorkerPool -----------------------------
(***************************************************************************)
(* The goroutine pools of the Go clients (src/bench/go_client): a function *)
(* spawns goroutines that send requests, count what came of them in shared *)
(* counters, and end; it waits for all of them (sync.WaitGroup) and reads  *)
(* the counters.  The functions differ in their shape: a start gate, a     *)
(* semaphore channel, how long a goroutine goes on, the capacity of a      *)
(* results channel, and which counters an outcome is added to, in up to    *)
(* two atomic steps.                                                       *)
(***************************************************************************)
EXTENDS Integers, FiniteSets

CONSTANTS
  Workers,   \* the most goroutines of a pool (bound)
  MaxReqs    \* the most requests of one goroutine (bound)

ASSUME WorkerPoolAssumption == Workers \in Nat /\ MaxReqs \in Nat

Worker == 1 .. Workers

(* What came of a request: an answer as wanted, another answer, none. *)
Outcome == {"ok", "bad", "none"}

(* The shared variables: latencies appended, atomic counters, results sent *)
(* on a channel, failures appended.                                        *)
Counter == {"lats", "errors", "total", "passed", "failures"}

VARIABLES
  pool,     \* the shape of the running function
  main,     \* where it is: "idle", "spawn", "wait", "over"
  spawned,  \* how many goroutines it has started
  open,     \* close(ready)
  sem,      \* the length of the semaphore channel
  wg,       \* the WaitGroup's counter
  late,     \* has the deadline passed?
  pc,       \* where each goroutine is
  got,      \* the outcome of its last request
  made,     \* how many requests it has made
  count,    \* the shared counters
  done      \* how many requests ended in each outcome (history)

poolVars == <<pool, main, spawned, open, sem, wg, late, pc, got, made, count,
              done>>

(* How many goroutines; a gate; a semaphore and its slots; a results       *)
(* channel and its room; how long a goroutine goes on, and whether it      *)
(* stops at the first failure; the counters an outcome is added to in the  *)
(* first and in the second atomic step.                                    *)
Shape ==
  [spawn : Nat, gate : BOOLEAN, limited : BOOLEAN, slots : Nat,
   channel : BOOLEAN, room : Nat, loop : {"once", "count", "deadline"},
   stops : BOOLEAN, first : [Outcome -> SUBSET Counter],
   second : [Outcome -> SUBSET Counter]]

(* No pool has run yet. *)
NoPool ==
  [spawn |-> 0, gate |-> FALSE, limited |-> FALSE, slots |-> 0,
   channel |-> FALSE, room |-> 0, loop |-> "once", stops |-> FALSE,
   first  |-> [o \in Outcome |-> {}],
   second |-> [o \in Outcome |-> {}]]

PoolInit ==
  /\ pool = NoPool /\ main = "idle"
  /\ spawned = 0 /\ open = FALSE /\ sem = 0 /\ wg = 0 /\ late = FALSE
  /\ pc = [w \in Worker |-> "none"] /\ got = [w \in Worker |-> "ok"]
  /\ made = [w \in Worker |-> 0]
  /\ count = [x \in Counter |-> 0] /\ done = [o \in Outcome |-> 0]

-----------------------------------------------------------------------------
(* The function is called: its variables are new.  (A channel of negative  *)
(* capacity is no Shape: make panics.)                                     *)
Start(p) ==
  /\ main \in {"idle", "over"}
  /\ p \in Shape
  /\ pool' = p /\ main' = "spawn"
  /\ spawned' = 0 /\ open' = FALSE /\ sem' = 0 /\ wg' = 0 /\ late' = FALSE
  /\ pc' = [w \in Worker |-> "none"] /\ got' = [w \in Worker |-> "ok"]
  /\ made' = [w \in Worker |-> 0]
  /\ count' = [x \in Counter |-> 0] /\ done' = [o \in Outcome |-> 0]

(* Faulty variant: the slot is taken inside the goroutine, unchecked. *)
SpawnUnlimited ==
  /\ main = "spawn" /\ spawned < pool.spawn /\ spawned + 1 \in Worker
  /\ sem' = IF pool.limited THEN sem + 1 ELSE sem
  /\ wg' = wg + 1
  /\ spawned' = spawned + 1
  /\ pc' = [pc EXCEPT ![spawned + 1] = "begin"]
  /\ UNCHANGED <<pool, main, open, late, got, made, count, done>>

(* The loop that starts the goroutines: sem <- struct{}{} blocks while the *)
(* channel is full, then wg.Add(1) and go func().                          *)
Spawn ==
  /\ main = "spawn" /\ spawned < pool.spawn /\ spawned + 1 \in Worker
  /\ pool.limited => sem < pool.slots
  /\ sem' = IF pool.limited THEN sem + 1 ELSE sem
  /\ wg' = wg + 1
  /\ spawned' = spawned + 1
  /\ pc' = [pc EXCEPT ![spawned + 1] = "begin"]
  /\ UNCHANGED <<pool, main, open, late, got, made, count, done>>

(* All are started: close(ready), if there is a gate, and wg.Wait(). *)
AllSpawned ==
  /\ main = "spawn" /\ spawned = pool.spawn
  /\ open' = TRUE /\ main' = "wait"
  /\ UNCHANGED <<pool, spawned, sem, wg, late, pc, got, made, count, done>>

(* wg.Wait() returns. *)
Waited ==
  /\ main = "wait" /\ wg = 0
  /\ main' = "over"
  /\ UNCHANGED <<pool, spawned, open, sem, wg, late, pc, got, made, count, done>>

(* time.Now() is no longer before the deadline. *)
DeadlinePasses ==
  /\ pool.loop = "deadline" /\ main \in {"spawn", "wait"} /\ ~late
  /\ late' = TRUE
  /\ UNCHANGED <<pool, main, spawned, open, sem, wg, pc, got, made, count, done>>

-----------------------------------------------------------------------------
(* A goroutine. *)

(* <-ready *)
PastGate == pool.gate => open

Begin(w) ==
  /\ pc[w] = "begin" /\ PastGate
  /\ pc' = [pc EXCEPT ![w] = "loop"]
  /\ UNCHANGED <<pool, main, spawned, open, sem, wg, late, got, made, count, done>>

(* Is there another request to make?  A function that returns at the first *)
(* failure stops.                                                          *)
Stopped(w) == pool.stops /\ made[w] > 0 /\ got[w] # "ok"

More(w) ==
  /\ ~Stopped(w)
  /\ CASE pool.loop = "once"  -> made[w] = 0
       [] pool.loop = "count" -> made[w] < MaxReqs
       [] pool.loop = "deadline" -> ~late /\ made[w] < MaxReqs

NoMore(w) ==
  \/ Stopped(w)
  \/ CASE pool.loop = "once"  -> made[w] > 0
       [] pool.loop = "count" -> made[w] >= MaxReqs
       [] pool.loop = "deadline" -> late

Ask(w) ==
  /\ pc[w] = "loop" /\ More(w)
  /\ pc' = [pc EXCEPT ![w] = "asking"]
  /\ UNCHANGED <<pool, main, spawned, open, sem, wg, late, got, made, count, done>>

(* The request ends. *)
Reply(w, o) ==
  /\ pc[w] = "asking"
  /\ got' = [got EXCEPT ![w] = o]
  /\ made' = [made EXCEPT ![w] = @ + 1]
  /\ done' = [done EXCEPT ![o] = @ + 1]
  /\ pc' = [pc EXCEPT ![w] = "tally1"]
  /\ UNCHANGED <<pool, main, spawned, open, sem, wg, late, count>>

Bumped(S) == [x \in Counter |-> IF x \in S THEN count[x] + 1 ELSE count[x]]

(* Faulty variant: the first atomic step is forgotten after a failure. *)
Tally1Skipped(w) ==
  /\ pc[w] = "tally1"
  /\ pool.channel => count["passed"] + count["failures"] < pool.room
  /\ count' = IF got[w] = "none" THEN count ELSE Bumped(pool.first[got[w]])
  /\ pc' = [pc EXCEPT ![w] = "tally2"]
  /\ UNCHANGED <<pool, main, spawned, open, sem, wg, late, got, made, done>>

(* The first atomic step: an append under the mutex, an atomic add or a    *)
(* send on the results channel, which blocks while the channel is full.    *)
Tally1(w) ==
  /\ pc[w] = "tally1"
  /\ pool.channel => count["passed"] + count["failures"] < pool.room
  /\ count' = Bumped(pool.first[got[w]])
  /\ pc' = [pc EXCEPT ![w] = "tally2"]
  /\ UNCHANGED <<pool, main, spawned, open, sem, wg, late, got, made, done>>

(* The second one, of metrics#record and metrics#fail. *)
Tally2(w) ==
  /\ pc[w] = "tally2"
  /\ count' = Bumped(pool.second[got[w]])
  /\ pc' = [pc EXCEPT ![w] = "loop"]
  /\ UNCHANGED <<pool, main, spawned, open, sem, wg, late, got, made, done>>

(* The deferred calls: <-sem, then wg.Done(). *)
Release(w) ==
  /\ pc[w] = "loop" /\ NoMore(w)
  /\ sem' = IF pool.limited THEN sem - 1 ELSE sem
  /\ pc' = [pc EXCEPT ![w] = "leaving"]
  /\ UNCHANGED <<pool, main, spawned, open, wg, late, got, made, count, done>>

Done(w) ==
  /\ pc[w] = "leaving"
  /\ wg' = wg - 1
  /\ pc' = [pc EXCEPT ![w] = "done"]
  /\ UNCHANGED <<pool, main, spawned, open, sem, late, got, made, count, done>>

Goroutine(w) ==
  \/ Begin(w) \/ Ask(w) \/ Tally1(w) \/ Tally2(w) \/ Release(w) \/ Done(w)

PoolStep ==
  \/ Spawn \/ AllSpawned \/ Waited \/ DeadlinePasses
  \/ \E w \in Worker : Goroutine(w)

PoolNext ==
  \/ PoolStep
  \/ \E p : Start(p)
  \/ \E w \in Worker, o \in Outcome : Reply(w, o)

(* Functions of any shape, called one after the other. *)
PoolSpec == PoolInit /\ [][PoolNext]_poolVars

-----------------------------------------------------------------------------
Running == {w \in Worker : pc[w] \notin {"none", "done"}}

InFlight == {w \in Worker : pc[w] = "asking"}

(* The requests whose outcome is counted in x. *)
Due(x) ==
  LET of(o) == (IF x \in pool.first[o] THEN done[o] ELSE 0)
               + (IF x \in pool.second[o] THEN done[o] ELSE 0)
  IN of("ok") + of("bad") + of("none")

(* When wg.Wait() has returned no goroutine of the function still runs,    *)
(* and every counter it now reads holds exactly the requests that ended    *)
(* in an outcome it stands for: the atomic adds and the appends under the  *)
(* mutex of several goroutines lose nothing and count nothing twice.       *)
Counted ==
  main = "over" => Running = {} /\ \A x \in Counter : count[x] = Due(x)

(* A function with a semaphore never has more requests in flight than the  *)
(* channel has slots, and behind a gate no request is made before every    *)
(* goroutine has been started.                                             *)
Bounded ==
  /\ pool.limited => Cardinality(InFlight) <= pool.slots
  /\ pool.gate /\ InFlight # {} => spawned = pool.spawn
=============================================================================
