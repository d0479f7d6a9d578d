---------------------------- MODULE ClientProofs ----------------------------
(***************************************************************************)
(* Proofs about the goroutine pools of module WorkerPool, for pools of any *)
(* shape and size called one after the other, and about module             *)
(* BenchClient, whose every step is a step of such a pool or leaves it     *)
(* alone: what the pools promise holds of every Go client.  Then about     *)
(* what its script makes of it: the processes it leaves behind, and what   *)
(* its exit code tells.                                                    *)
(***************************************************************************)
EXTENDS BenchClient, FiniteSetTheorems, TLAPS

-----------------------------------------------------------------------------
(* The inductive invariant. *)

PoolTypeOK ==
  /\ pool \in Shape /\ main \in {"idle", "spawn", "wait", "over"}
  /\ spawned \in Nat /\ open \in BOOLEAN /\ late \in BOOLEAN
  /\ sem \in Int /\ wg \in Int
  /\ pc \in [Worker -> {"none", "begin", "loop", "asking", "tally1", "tally2",
                        "leaving", "done"}]
  /\ got \in [Worker -> Outcome] /\ made \in [Worker -> Nat]
  /\ count \in [Counter -> Nat] /\ done \in [Outcome -> Nat]

(* The goroutines that have a slot, and those that have still to add the   *)
(* outcome of a request to counter x, in the first or the second step.     *)
Holding == {w \in Worker : pc[w] \in {"begin", "loop", "asking", "tally1", "tally2"}}
Owing1(x) == {w \in Worker : pc[w] = "tally1" /\ x \in pool.first[got[w]]}
Owing2(x) == {w \in Worker : pc[w] \in {"tally1", "tally2"} /\ x \in pool.second[got[w]]}

Spread == \A w \in Worker : pc[w] = "none" <=> w > spawned
Awaiting == wg = Cardinality(Running)
Slotted == pool.limited => sem = Cardinality(Holding) /\ sem <= pool.slots
Gated ==
  /\ open => spawned = pool.spawn
  /\ main = "spawn" => ~open
  /\ pool.gate => \A w \in Worker : pc[w] \notin {"none", "begin"} => open
Ended == main \in {"idle", "over"} => Running = {}
Accounts ==
  \A x \in Counter :
    count[x] + Cardinality(Owing1(x)) + Cardinality(Owing2(x)) = Due(x)

PoolInv ==
  /\ PoolTypeOK /\ Spread /\ Awaiting /\ Slotted /\ Gated /\ Ended /\ Accounts

-----------------------------------------------------------------------------
(* Sets of goroutines are finite. *)
LEMMA Countable ==
  ASSUME NEW S \in SUBSET Worker
  PROVE  IsFiniteSet(S) /\ Cardinality(S) \in Nat
<1>1. IsFiniteSet(Worker)
  BY WorkerPoolAssumption, FS_Interval DEF Worker
<1> QED
  BY <1>1, FS_Subset, FS_CardinalityType

(* One goroutine joins a set. *)
LEMMA Joins ==
  ASSUME NEW S \in SUBSET Worker, NEW w \in Worker, w \notin S
  PROVE  Cardinality(S \cup {w}) = Cardinality(S) + 1
BY Countable, FS_AddElement

(* One goroutine leaves a set. *)
LEMMA Leaves ==
  ASSUME NEW S \in SUBSET Worker, NEW w \in S
  PROVE  Cardinality(S \ {w}) = Cardinality(S) - 1
BY Countable, FS_RemoveElement

(* The sets the invariant counts. *)
LEMMA CountedSets ==
  ASSUME NEW x
  PROVE  /\ Running \in SUBSET Worker /\ Holding \in SUBSET Worker
         /\ InFlight \in SUBSET Worker
         /\ Owing1(x) \in SUBSET Worker /\ Owing2(x) \in SUBSET Worker
BY DEF Running, Holding, InFlight, Owing1, Owing2

-----------------------------------------------------------------------------
(* A pool that has no goroutines and has counted nothing. *)
LEMMA Fresh ==
  ASSUME pool \in Shape, main \in {"idle", "spawn"},
         spawned = 0, open = FALSE, sem = 0, wg = 0, late = FALSE,
         pc = [w \in Worker |-> "none"], got = [w \in Worker |-> "ok"],
         made = [w \in Worker |-> 0],
         count = [x \in Counter |-> 0], done = [o \in Outcome |-> 0]
  PROVE  PoolInv
<1>1. PoolTypeOK
  <2>1. /\ pc \in [Worker -> {"none", "begin", "loop", "asking", "tally1",
                               "tally2", "leaving", "done"}]
        /\ got \in [Worker -> Outcome]
    BY Zenon DEF Outcome
  <2>2. /\ made \in [Worker -> Nat] /\ count \in [Counter -> Nat]
        /\ done \in [Outcome -> Nat]
    OBVIOUS
  <2>3. open \in BOOLEAN /\ late \in BOOLEAN
    OBVIOUS
  <2> QED
    BY <2>1, <2>2, <2>3 DEF PoolTypeOK
<1>2. Running = {} /\ Holding = {}
  BY DEF Running, Holding
<1>3. Spread
  BY WorkerPoolAssumption DEF Spread, Worker
<1>4. Awaiting /\ Slotted
  BY <1>1, <1>2, FS_EmptySet DEF Awaiting, Slotted, PoolTypeOK, Shape
<1>5. Gated /\ Ended
  BY <1>2 DEF Gated, Ended
<1>6. ASSUME NEW x \in Counter
      PROVE  count[x] + Cardinality(Owing1(x)) + Cardinality(Owing2(x)) = Due(x)
  <2>1. Owing1(x) = {} /\ Owing2(x) = {}
    BY DEF Owing1, Owing2
  <2>2. Due(x) = 0
    BY DEF Due, Outcome
  <2> QED
    BY <2>1, <2>2, FS_EmptySet
<1> QED
  BY <1>1, <1>3, <1>4, <1>5, <1>6 DEF PoolInv, Accounts

LEMMA PoolStarts == PoolInit => PoolInv
<1> SUFFICES ASSUME PoolInit PROVE PoolInv
  OBVIOUS
<1>1. NoPool \in Shape
  BY DEF NoPool, Shape, Outcome, Counter
<1> QED
  BY <1>1, Fresh DEF PoolInit

(* A call starts afresh. *)
LEMMA FreshAgain ==
  ASSUME NEW p, Start(p)
  PROVE  PoolInv'
<1>1. /\ pool' \in Shape /\ main' \in {"idle", "spawn"}
      /\ spawned' = 0 /\ open' = FALSE /\ sem' = 0 /\ wg' = 0 /\ late' = FALSE
      /\ pc' = [w \in Worker |-> "none"] /\ got' = [w \in Worker |-> "ok"]
      /\ made' = [w \in Worker |-> 0]
      /\ count' = [x \in Counter |-> 0] /\ done' = [o \in Outcome |-> 0]
  BY DEF Start
<1>2. PoolTypeOK'
  <2>1. /\ pc' \in [Worker -> {"none", "begin", "loop", "asking", "tally1",
                                "tally2", "leaving", "done"}]
        /\ got' \in [Worker -> Outcome]
    BY <1>1, Zenon DEF Outcome
  <2>2. /\ made' \in [Worker -> Nat] /\ count' \in [Counter -> Nat]
        /\ done' \in [Outcome -> Nat]
    BY <1>1
  <2>3. open' \in BOOLEAN /\ late' \in BOOLEAN
    BY <1>1
  <2> QED
    BY <1>1, <2>1, <2>2, <2>3 DEF PoolTypeOK
<1>3. Running' = {} /\ Holding' = {}
  BY <1>1 DEF Running, Holding
<1>4. Spread'
  BY <1>1, WorkerPoolAssumption DEF Spread, Worker
<1>5. Awaiting' /\ Slotted'
  BY <1>1, <1>2, <1>3, FS_EmptySet DEF Awaiting, Slotted, PoolTypeOK, Shape
<1>6. Gated' /\ Ended'
  BY <1>1, <1>3 DEF Gated, Ended
<1>7. ASSUME NEW x \in Counter
      PROVE  (count[x] + Cardinality(Owing1(x)) + Cardinality(Owing2(x)) = Due(x))'
  <2>1. Owing1(x)' = {} /\ Owing2(x)' = {}
    BY <1>1 DEF Owing1, Owing2
  <2>2. Due(x)' = 0
    BY <1>1 DEF Due, Outcome
  <2> QED
    BY <1>1, <2>1, <2>2, FS_EmptySet
<1> QED
  BY <1>2, <1>4, <1>5, <1>6, <1>7 DEF PoolInv, Accounts

-----------------------------------------------------------------------------
(* A step of goroutine w that changes neither a counter nor a set the      *)
(* invariant counts.                                                       *)
LEMMA QuietStep ==
  ASSUME PoolInv, NEW w \in Worker, Begin(w) \/ Ask(w)
  PROVE  PoolInv'
<1> USE DEF PoolInv
<1>1. PICK from \in {"begin", "loop"}, to \in {"loop", "asking"} :
        pc[w] = from /\ pc' = [pc EXCEPT ![w] = to]
  BY DEF Begin, Ask
<1>2. /\ UNCHANGED <<pool, main, spawned, open, sem, wg, late, got, made, count, done>>
      /\ pc[w] = "begin" => PastGate
  BY DEF Begin, Ask
<1>3. PoolTypeOK'
  BY <1>1, <1>2 DEF PoolTypeOK
<1>4. Running' = Running /\ Holding' = Holding
  BY <1>1, <1>2 DEF Running, Holding, PoolTypeOK
<1>5. \A x \in Counter : Owing1(x)' = Owing1(x) /\ Owing2(x)' = Owing2(x)
  BY <1>1, <1>2 DEF Owing1, Owing2, PoolTypeOK
<1>6. Spread'
  BY <1>1, <1>2 DEF Spread, PoolTypeOK
<1>7. Awaiting' /\ Slotted' /\ Ended'
  BY <1>2, <1>4 DEF Awaiting, Slotted, Ended
<1>8. Gated'
  BY <1>1, <1>2 DEF Gated, PastGate, PoolTypeOK
<1>9. Accounts'
  BY <1>2, <1>5 DEF Accounts, Due
<1> QED
  BY <1>3, <1>6, <1>7, <1>8, <1>9

(* The steps of the function that spawns and waits. *)
LEMMA MainSteps ==
  ASSUME PoolInv, AllSpawned \/ Waited \/ DeadlinePasses
  PROVE  PoolInv'
<1> USE DEF PoolInv
<1>1. /\ UNCHANGED <<pool, spawned, sem, wg, pc, got, made, count, done>>
      /\ main' \in {main, "wait", "over"}
      /\ open' \in BOOLEAN /\ late' \in BOOLEAN
  BY DEF AllSpawned, Waited, DeadlinePasses, PoolTypeOK
<1>2. PoolTypeOK'
  BY <1>1 DEF PoolTypeOK
<1>3. Running' = Running /\ Holding' = Holding
  BY <1>1 DEF Running, Holding
<1>4. \A x \in Counter : Owing1(x)' = Owing1(x) /\ Owing2(x)' = Owing2(x)
  BY <1>1 DEF Owing1, Owing2
<1>5. Spread' /\ Awaiting' /\ Slotted'
  BY <1>1, <1>3 DEF Spread, Awaiting, Slotted
<1>6. Accounts'
  BY <1>1, <1>4 DEF Accounts, Due
<1>7. Gated'
  BY DEF Gated, AllSpawned, Waited, DeadlinePasses
<1>8. wg = 0 => Running = {}
  BY Countable, CountedSets, FS_EmptySet DEF Awaiting
<1>9. Ended'
  BY <1>3, <1>8 DEF Ended, AllSpawned, Waited, DeadlinePasses
<1> QED
  BY <1>2, <1>5, <1>6, <1>7, <1>9

(* A goroutine is started. *)
LEMMA SpawnStep ==
  ASSUME PoolInv, Spawn
  PROVE  PoolInv'
<1> USE DEF PoolInv
<1> DEFINE w == spawned + 1
<1>1. /\ w \in Worker /\ pc[w] = "none" /\ main = "spawn"
      /\ spawned < pool.spawn
  BY DEF Spawn, Spread, PoolTypeOK
<1>2. /\ pc' = [pc EXCEPT ![w] = "begin"] /\ spawned' = w /\ wg' = wg + 1
      /\ UNCHANGED <<pool, main, open, late, got, made, count, done>>
  BY DEF Spawn
<1>3. sem' \in Int
  BY DEF Spawn, PoolTypeOK
<1>4. PoolTypeOK'
  BY <1>1, <1>2, <1>3 DEF PoolTypeOK
<1>5. /\ Running' = Running \cup {w} /\ Holding' = Holding \cup {w}
      /\ w \notin Running /\ w \notin Holding
  BY <1>1, <1>2 DEF Running, Holding, PoolTypeOK
<1>6. \A x \in Counter : Owing1(x)' = Owing1(x) /\ Owing2(x)' = Owing2(x)
  BY <1>1, <1>2 DEF Owing1, Owing2, PoolTypeOK
<1>7. Spread'
  BY <1>1, <1>2 DEF Spread, PoolTypeOK, Worker
<1>8. Awaiting'
  BY <1>1, <1>2, <1>5, Joins, CountedSets DEF Awaiting
<1>9. Slotted'
  <2> SUFFICES ASSUME pool.limited
               PROVE  sem' = Cardinality(Holding') /\ sem' <= pool.slots
    BY <1>2 DEF Slotted
  <2>1. sem' = sem + 1 /\ sem < pool.slots
    BY DEF Spawn
  <2>2. Cardinality(Holding') = Cardinality(Holding) + 1
    BY <1>1, <1>5, Joins, CountedSets
  <2> QED
    BY <2>1, <2>2 DEF Slotted, PoolTypeOK, Shape
<1>10. Gated'
  BY <1>1, <1>2 DEF Gated, PoolTypeOK
<1>11. Ended'
  BY <1>1, <1>2 DEF Ended
<1>12. Accounts'
  BY <1>2, <1>6 DEF Accounts, Due
<1> QED
  BY <1>4, <1>7, <1>8, <1>9, <1>10, <1>11, <1>12

(* A goroutine gives its slot back, and tells the WaitGroup. *)
LEMMA LeavingStep ==
  ASSUME PoolInv, NEW w \in Worker, Release(w) \/ Done(w)
  PROVE  PoolInv'
<1> USE DEF PoolInv
<1>1. /\ UNCHANGED <<pool, main, spawned, open, late, got, made, count, done>>
      /\ pc[w] \in {"loop", "leaving"}
      /\ \E to \in {"leaving", "done"} : pc' = [pc EXCEPT ![w] = to]
  BY DEF Release, Done
<1>2. sem' \in Int /\ wg' \in Int
  BY DEF Release, Done, PoolTypeOK
<1>3. PoolTypeOK'
  BY <1>1, <1>2 DEF PoolTypeOK
<1>4. \A x \in Counter : Owing1(x)' = Owing1(x) /\ Owing2(x)' = Owing2(x)
  BY <1>1 DEF Owing1, Owing2, PoolTypeOK
<1>5. Accounts'
  BY <1>1, <1>4 DEF Accounts, Due
<1>6. Spread' /\ Gated'
  BY <1>1 DEF Spread, Gated, PoolTypeOK
<1>7. Ended'
  BY <1>1 DEF Ended, Running, PoolTypeOK
<1>8. CASE Release(w)
  <2>1. /\ Running' = Running /\ wg' = wg
        /\ w \in Holding /\ Holding' = Holding \ {w}
    BY <1>8 DEF Running, Holding, Release, PoolTypeOK
  <2>2. Cardinality(Holding') = Cardinality(Holding) - 1
    BY <2>1, Leaves, CountedSets
  <2>3. pool.limited => sem' = sem - 1
    BY <1>8 DEF Release
  <2>4. Slotted'
    BY <1>1, <2>2, <2>3 DEF Slotted, PoolTypeOK, Shape
  <2> QED
    BY <1>3, <1>5, <1>6, <1>7, <2>1, <2>4 DEF Awaiting
<1>9. CASE Done(w)
  <2>1. /\ Holding' = Holding /\ sem' = sem
        /\ w \in Running /\ Running' = Running \ {w}
    BY <1>9 DEF Running, Holding, Done, PoolTypeOK
  <2>2. Cardinality(Running') = Cardinality(Running) - 1
    BY <2>1, Leaves, CountedSets
  <2>3. Awaiting'
    BY <1>9, <2>2 DEF Awaiting, Done
  <2> QED
    BY <1>1, <1>3, <1>5, <1>6, <1>7, <2>1, <2>3 DEF Slotted
<1> QED
  BY <1>8, <1>9

(* One for a member, nothing for the others. *)
One(b) == IF b THEN 1 ELSE 0

(* A request has ended: what it owes is owed. *)
LEMMA ReplyStep ==
  ASSUME PoolInv, NEW w \in Worker, NEW o \in Outcome, Reply(w, o)
  PROVE  PoolInv'
<1> USE DEF PoolInv
<1>1. /\ pc[w] = "asking" /\ pc' = [pc EXCEPT ![w] = "tally1"]
      /\ got' = [got EXCEPT ![w] = o]
      /\ made' = [made EXCEPT ![w] = @ + 1]
      /\ done' = [done EXCEPT ![o] = @ + 1]
      /\ UNCHANGED <<pool, main, spawned, open, sem, wg, late, count>>
  BY DEF Reply
<1>2. PoolTypeOK'
  BY <1>1 DEF PoolTypeOK
<1>3. Running' = Running /\ Holding' = Holding
  BY <1>1 DEF Running, Holding, PoolTypeOK
<1>4. Spread' /\ Gated'
  BY <1>1 DEF Spread, Gated, PoolTypeOK
<1>5. Awaiting' /\ Slotted' /\ Ended'
  BY <1>1, <1>3 DEF Awaiting, Slotted, Ended
<1>6. ASSUME NEW x \in Counter
      PROVE  (count[x] + Cardinality(Owing1(x)) + Cardinality(Owing2(x)) = Due(x))'
  <2>1. w \notin Owing1(x) /\ w \notin Owing2(x)
    BY <1>1 DEF Owing1, Owing2
  <2>2. Owing1(x)' = IF x \in pool.first[o] THEN Owing1(x) \cup {w} ELSE Owing1(x)
    BY <1>1 DEF Owing1, PoolTypeOK
  <2>3. Owing2(x)' = IF x \in pool.second[o] THEN Owing2(x) \cup {w} ELSE Owing2(x)
    BY <1>1 DEF Owing2, PoolTypeOK
  <2>4. Cardinality(Owing1(x)') = Cardinality(Owing1(x)) + One(x \in pool.first[o])
    BY <2>1, <2>2, Joins, CountedSets, Countable DEF One
  <2>5. Cardinality(Owing2(x)') = Cardinality(Owing2(x)) + One(x \in pool.second[o])
    BY <2>1, <2>3, Joins, CountedSets, Countable DEF One
  <2>6. Due(x)' = Due(x) + One(x \in pool.first[o]) + One(x \in pool.second[o])
    BY <1>1 DEF Due, One, Outcome, PoolTypeOK
  <2>7. /\ Cardinality(Owing1(x)) \in Nat /\ Cardinality(Owing2(x)) \in Nat
        /\ One(x \in pool.first[o]) \in Nat /\ One(x \in pool.second[o]) \in Nat
        /\ count[x] \in Nat /\ count'[x] = count[x]
    BY <1>1, Countable, CountedSets DEF One, PoolTypeOK
  <2>8. count[x] + Cardinality(Owing1(x)) + Cardinality(Owing2(x)) = Due(x)
    BY DEF Accounts
  <2> QED
    BY <2>4, <2>5, <2>6, <2>7, <2>8
<1> QED
  BY <1>2, <1>4, <1>5, <1>6 DEF Accounts

(* The first atomic step pays the first debt, and only that. *)
LEMMA Tally1Step ==
  ASSUME PoolInv, NEW w \in Worker, Tally1(w)
  PROVE  PoolInv'
<1> USE DEF PoolInv
<1>1. /\ pc[w] = "tally1" /\ pc' = [pc EXCEPT ![w] = "tally2"]
      /\ count' = Bumped(pool.first[got[w]])
      /\ UNCHANGED <<pool, main, spawned, open, sem, wg, late, got, made, done>>
  BY DEF Tally1
<1>2. PoolTypeOK'
  BY <1>1 DEF PoolTypeOK, Bumped
<1>3. Running' = Running /\ Holding' = Holding
  BY <1>1 DEF Running, Holding, PoolTypeOK
<1>4. Spread' /\ Gated'
  BY <1>1 DEF Spread, Gated, PoolTypeOK
<1>5. Awaiting' /\ Slotted' /\ Ended'
  BY <1>1, <1>3 DEF Awaiting, Slotted, Ended
<1>6. ASSUME NEW x \in Counter
      PROVE  (count[x] + Cardinality(Owing1(x)) + Cardinality(Owing2(x)) = Due(x))'
  <2> DEFINE F == pool.first[got[w]]
  <2>1. x \in F <=> w \in Owing1(x)
    BY <1>1 DEF Owing1
  <2>2. Owing1(x)' = Owing1(x) \ {w} /\ Owing2(x)' = Owing2(x)
    BY <1>1 DEF Owing1, Owing2, PoolTypeOK
  <2>3. x \in F => Cardinality(Owing1(x)') = Cardinality(Owing1(x)) - 1
    BY <2>1, <2>2, Leaves, CountedSets
  <2>4. x \notin F => Cardinality(Owing1(x)') = Cardinality(Owing1(x))
    BY <2>1, <2>2
  <2>5. count'[x] = IF x \in F THEN count[x] + 1 ELSE count[x]
    BY <1>1 DEF Bumped
  <2>6. Due(x)' = Due(x)
    BY <1>1 DEF Due
  <2>7. /\ Cardinality(Owing1(x)) \in Nat /\ Cardinality(Owing2(x)) \in Nat
        /\ count[x] \in Nat
    BY Countable, CountedSets DEF PoolTypeOK
  <2>8. count[x] + Cardinality(Owing1(x)) + Cardinality(Owing2(x)) = Due(x)
    BY DEF Accounts
  <2> HIDE DEF F
  <2> QED
    BY <2>2, <2>3, <2>4, <2>5, <2>6, <2>7, <2>8
<1> QED
  BY <1>2, <1>4, <1>5, <1>6 DEF Accounts

(* The second one pays the second. *)
LEMMA Tally2Step ==
  ASSUME PoolInv, NEW w \in Worker, Tally2(w)
  PROVE  PoolInv'
<1> USE DEF PoolInv
<1>1. /\ pc[w] = "tally2" /\ pc' = [pc EXCEPT ![w] = "loop"]
      /\ count' = Bumped(pool.second[got[w]])
      /\ UNCHANGED <<pool, main, spawned, open, sem, wg, late, got, made, done>>
  BY DEF Tally2
<1>2. PoolTypeOK'
  BY <1>1 DEF PoolTypeOK, Bumped
<1>3. Running' = Running /\ Holding' = Holding
  BY <1>1 DEF Running, Holding, PoolTypeOK
<1>4. Spread' /\ Gated'
  BY <1>1 DEF Spread, Gated, PoolTypeOK
<1>5. Awaiting' /\ Slotted' /\ Ended'
  BY <1>1, <1>3 DEF Awaiting, Slotted, Ended
<1>6. ASSUME NEW x \in Counter
      PROVE  (count[x] + Cardinality(Owing1(x)) + Cardinality(Owing2(x)) = Due(x))'
  <2> DEFINE F == pool.second[got[w]]
  <2>1. x \in F <=> w \in Owing2(x)
    BY <1>1 DEF Owing2
  <2>2. Owing2(x)' = Owing2(x) \ {w} /\ Owing1(x)' = Owing1(x)
    BY <1>1 DEF Owing1, Owing2, PoolTypeOK
  <2>3. x \in F => Cardinality(Owing2(x)') = Cardinality(Owing2(x)) - 1
    BY <2>1, <2>2, Leaves, CountedSets
  <2>4. x \notin F => Cardinality(Owing2(x)') = Cardinality(Owing2(x))
    BY <2>1, <2>2
  <2>5. count'[x] = IF x \in F THEN count[x] + 1 ELSE count[x]
    BY <1>1 DEF Bumped
  <2>6. Due(x)' = Due(x)
    BY <1>1 DEF Due
  <2>7. /\ Cardinality(Owing1(x)) \in Nat /\ Cardinality(Owing2(x)) \in Nat
        /\ count[x] \in Nat
    BY Countable, CountedSets DEF PoolTypeOK
  <2>8. count[x] + Cardinality(Owing1(x)) + Cardinality(Owing2(x)) = Due(x)
    BY DEF Accounts
  <2> HIDE DEF F
  <2> QED
    BY <2>2, <2>3, <2>4, <2>5, <2>6, <2>7, <2>8
<1> QED
  BY <1>2, <1>4, <1>5, <1>6 DEF Accounts

-----------------------------------------------------------------------------
LEMMA PoolKeeps == PoolInv /\ [PoolNext]_poolVars => PoolInv'
<1> SUFFICES ASSUME PoolInv, [PoolNext]_poolVars PROVE PoolInv'
  OBVIOUS
<1>1. CASE Spawn
  BY <1>1, SpawnStep
<1>2. CASE AllSpawned \/ Waited \/ DeadlinePasses
  BY <1>2, MainSteps
<1>3. ASSUME NEW w \in Worker, Goroutine(w)
      PROVE  PoolInv'
  BY <1>3, QuietStep, LeavingStep, Tally1Step, Tally2Step DEF Goroutine
<1>4. ASSUME NEW p, Start(p)
      PROVE  PoolInv'
  BY <1>4, FreshAgain
<1>5. ASSUME NEW w \in Worker, NEW o \in Outcome, Reply(w, o)
      PROVE  PoolInv'
  BY <1>5, ReplyStep
<1>6. CASE UNCHANGED poolVars
  BY <1>6 DEF poolVars, PoolInv, PoolTypeOK, Spread, Awaiting, Slotted, Gated,
              Ended, Accounts, Running, Holding, Owing1, Owing2, Due
<1> QED
  BY <1>1, <1>2, <1>3, <1>4, <1>5, <1>6 DEF PoolNext, PoolStep

(* What the invariant says when everything is paid and everyone has left. *)
LEMMA InvCounts == PoolInv => Counted
<1> SUFFICES ASSUME PoolInv, main = "over" 
             PROVE  Running = {} /\ \A x \in Counter : count[x] = Due(x)
  BY DEF Counted
<1> USE DEF PoolInv
<1>1. Running = {}
  BY DEF Ended
<1>2. ASSUME NEW x \in Counter
      PROVE  count[x] = Due(x)
  <2>1. Owing1(x) = {} /\ Owing2(x) = {}
    BY <1>1 DEF Running, Owing1, Owing2
  <2>2. Cardinality(Owing1(x)) = 0 /\ Cardinality(Owing2(x)) = 0
    BY <2>1, FS_EmptySet
  <2>3. count[x] + Cardinality(Owing1(x)) + Cardinality(Owing2(x)) = Due(x)
    BY DEF Accounts
  <2>4. count[x] \in Nat
    BY DEF PoolTypeOK
  <2> QED
    BY <2>2, <2>3, <2>4
<1> QED
  BY <1>1, <1>2

LEMMA InvBounds == PoolInv => Bounded
<1> SUFFICES ASSUME PoolInv PROVE Bounded
  OBVIOUS
<1> USE DEF PoolInv
<1>1. InFlight \in SUBSET Holding
  BY DEF InFlight, Holding
<1>2. IsFiniteSet(Holding) /\ Cardinality(Holding) \in Nat
  BY Countable, CountedSets
<1>3. Cardinality(InFlight) <= Cardinality(Holding)
  BY <1>1, <1>2, FS_Subset
<1>4. Cardinality(InFlight) \in Nat
  BY Countable, CountedSets
<1>5. pool.limited => Cardinality(InFlight) <= pool.slots
  BY <1>2, <1>3, <1>4 DEF Slotted, PoolTypeOK, Shape
<1>6. pool.gate /\ InFlight # {} => spawned = pool.spawn
  BY DEF Gated, InFlight
<1> QED
  BY <1>5, <1>6 DEF Bounded

(* Pools of any shape, any number of goroutines: when wg.Wait() returns    *)
(* no goroutine runs and every shared counter is exact.                    *)
THEOREM PoolCounted == PoolSpec => []Counted
<1>1. PoolSpec => []PoolInv
  BY PoolStarts, PoolKeeps, PTL DEF PoolSpec
<1> QED
  BY <1>1, InvCounts, PTL

(* ... and a semaphore and a gate bound what is in flight. *)
THEOREM PoolBounded == PoolSpec => []Bounded
<1>1. PoolSpec => []PoolInv
  BY PoolStarts, PoolKeeps, PTL DEF PoolSpec
<1> QED
  BY <1>1, InvBounds, PTL

-----------------------------------------------------------------------------
(* A client's step is a step of its pool or leaves it alone. *)
LEMMA ClientStep == [Next]_vars => [PoolNext]_poolVars
<1> SUFFICES ASSUME [Next]_vars PROVE [PoolNext]_poolVars
  OBVIOUS
<1>1. CASE Call
  BY <1>1 DEF Call, PoolNext
<1>2. CASE InPool
  BY <1>2 DEF InPool, PoolNext
<1>3. ASSUME NEW w \in Worker, Reached(w)
      PROVE  PoolNext
  BY <1>3 DEF Reached, PoolNext
<1>4. CASE Collect \/ Dial \/ Awaited \/ Expire
  BY <1>4 DEF Collect, Dial, Awaited, Expire
<1>5. CASE Check \/ ListenAndServe \/ StartServer \/ StopServer \/ Decide \/ Return
  BY <1>5 DEF Check, ListenAndServe, StartServer, StopServer, Decide, Return
<1>6. ASSUME NEW e \in due, Arrive(e)
      PROVE  UNCHANGED poolVars
  BY <1>6 DEF Arrive
<1>7. ASSUME NEW srv \in Servers, Boot(srv) \/ Crash(srv)
      PROVE  UNCHANGED poolVars
  BY <1>7 DEF Boot, Crash
<1>8. CASE Terminated \/ UNCHANGED vars
  BY <1>8 DEF Terminated, vars
<1> QED
  BY <1>1, <1>2, <1>3, <1>4, <1>5, <1>6, <1>7, <1>8 DEF Next, MainStep

(* Every Go client implements the pools: its functions run one after the   *)
(* other, each on counters of its own.                                     *)
THEOREM ClientImplementsPool == Spec => PoolSpec
<1>1. Init => PoolInit
  BY DEF Init
<1> QED
  BY <1>1, ClientStep, PTL DEF Spec, PoolSpec

(* So the counts every client reports are exact. *)
THEOREM ClientCounted == Spec => []Counted
BY ClientImplementsPool, PoolCounted, PTL

(* ... and its load stays within the flags it was given. *)
THEOREM ClientBounded == Spec => []Bounded
BY ClientImplementsPool, PoolBounded, PTL

-----------------------------------------------------------------------------
(* What is left of a script. *)

LEMMA TailOf ==
  ASSUME NEW X, NEW s \in Seq(X), s # <<>>
  PROVE  /\ Tail(s) \in Seq(X) /\ Len(s) \in Nat \ {0}
         /\ Len(Tail(s)) = Len(s) - 1
         /\ \A i \in 1 .. (Len(s) - 1) : Tail(s)[i] = s[i + 1]
         /\ Head(s) = s[1]
OBVIOUS

LEMMA RestOf ==
  ASSUME NEW X, NEW s \in Seq(X), NEW k \in 1 .. Len(s)
  PROVE  /\ SubSeq(s, k + 1, Len(s)) \in Seq(X)
         /\ Len(SubSeq(s, k + 1, Len(s))) = Len(s) - k
         /\ \A i \in 1 .. (Len(s) - k) :
              SubSeq(s, k + 1, Len(s))[i] = s[i + k]
<1>1. Len(s) \in Nat /\ k \in Nat
  OBVIOUS
<1>2. \A i \in (k + 1) .. Len(s) : s[i] \in X
  OBVIOUS
<1> QED
  BY <1>1, <1>2

(* The processes of a script are watched in what is left of it. *)
LEMMA WatchedRest ==
  ASSUME NEW X, NEW s \in Seq(X), NEW t \in Seq(X), NEW k \in 0 .. Len(s),
         Len(t) = Len(s) - k, \A i \in 1 .. (Len(s) - k) : t[i] = s[i + k],
         NEW p, Watched(p, s)
  PROVE  Watched(p, t)
<1> SUFFICES ASSUME NEW i \in DOMAIN t, t[i].op = "exec"
             PROVE  IF t[i].deferred
                    THEN p = "cross_test_start" /\ t[i].skip = 0
                    ELSE LET m == i + t[i].skip IN
                         /\ t[i].skip \in Nat \ {0} /\ m \in DOMAIN t
                         /\ t[m].op = "kill" /\ t[m].srv = t[i].srv
                         /\ \A j \in (i + 1) .. (m - 1) : t[j].op \in Harmless
  BY DEF Watched
<1>1. Len(s) \in Nat /\ Len(t) \in Nat /\ k \in Nat /\ i \in 1 .. Len(t)
  OBVIOUS
<1>2. i + k \in 1 .. Len(s) /\ t[i] = s[i + k]
  BY <1>1
<1>3. DOMAIN s = 1 .. Len(s) /\ DOMAIN t = 1 .. Len(t)
  OBVIOUS
<1>4. CASE t[i].deferred
  BY <1>2, <1>3, <1>4 DEF Watched
<1>5. CASE ~t[i].deferred
  <2> DEFINE n == t[i].skip
  <2>1. /\ n \in Nat \ {0} /\ (i + k) + n \in 1 .. Len(s)
        /\ s[(i + k) + n].op = "kill" /\ s[(i + k) + n].srv = s[i + k].srv
        /\ \A j \in ((i + k) + 1) .. (((i + k) + n) - 1) : s[j].op \in Harmless
    BY <1>2, <1>3, <1>5 DEF Watched
  <2> HIDE DEF n
  <2>2. i + n \in 1 .. Len(t) /\ t[i + n] = s[(i + k) + n]
    <3>1. i + n \in 1 .. Len(t) /\ (i + n) + k = (i + k) + n
      BY <1>1, <2>1, SMTT(40)
    <3> QED
      BY <1>1, <3>1
  <2>3. ASSUME NEW j \in (i + 1) .. ((i + n) - 1)
        PROVE  t[j].op \in Harmless
    <3> DEFINE m == Len(s) - k
    <3>0. /\ n \in Int /\ i \in Int /\ k \in Int /\ m \in Int /\ 1 <= i
          /\ i + n <= m
      BY <1>1, <2>1, <2>2
    <3> HIDE DEF m
    <3>1. /\ j \in 1 .. m
          /\ j + k \in ((i + k) + 1) .. (((i + k) + n) - 1)
      BY <3>0, SMTT(40)
    <3> USE DEF m
    <3>2. t[j] = s[j + k]
      BY <3>1
    <3> QED
      BY <2>1, <3>1, <3>2
  <2> QED
    BY <1>2, <1>3, <1>5, <2>1, <2>2, <2>3 DEF n
<1> QED
  BY <1>4, <1>5

-----------------------------------------------------------------------------
(* The processes that a program has started. *)

Steps == {Programs[prog][i] : i \in DOMAIN Programs[prog]}

ScriptInv ==
  /\ prog \in DOMAIN Programs
  /\ todo \in Seq(Steps) /\ Watched(prog, todo)
  /\ exit \in {"running", "0", "1"}

(* The process is killed before anything else can end the program. *)
Doomed(s) ==
  \E j \in DOMAIN todo :
    /\ todo[j].op = "kill" /\ todo[j].srv = s
    /\ \A i \in 1 .. (j - 1) : todo[i].op \in Harmless

ProcInv ==
  /\ proc \in [Servers -> {"none", "starting", "alive", "inline"}]
  /\ defers # {} => prog = "cross_test_start"
  /\ \A s \in Servers :
       /\ exit = "running" /\ proc[s] \in {"starting", "alive"} =>
            s \in defers \/ Doomed(s)
       /\ exit = "0" => proc[s] = "none"
       /\ exit = "1" /\ proc[s] # "none" => s \in defers

ProgramInv == ScriptInv /\ ProcInv

(* A program starts with its script, and without processes. *)
LEMMA ProgramStarts == Init => ProgramInv
<1> SUFFICES ASSUME Init
             PROVE  ProgramInv
  OBVIOUS
<1>1. /\ prog \in DOMAIN Programs /\ todo = Programs[prog]
      /\ exit = "running" /\ defers = {}
      /\ proc = [s \in Servers |-> "none"]
  BY DEF Init
<1>2. ScriptInv
  BY <1>1, ScriptAssumption DEF ScriptInv, Steps
<1>3. ProcInv
  BY <1>1 DEF ProcInv
<1> QED
  BY <1>2, <1>3 DEF ProgramInv

(* At an instruction that is neither harmless nor a kill every process is  *)
(* left to a deferred call.                                                *)
LEMMA NoneDoomed ==
  ASSUME ProgramInv, exit = "running", todo # <<>> => Head(todo).op \notin
           {"run", "raw", "kill"}
  PROVE  \A s \in Servers : proc[s] \in {"starting", "alive"} => s \in defers
<1> SUFFICES ASSUME NEW s \in Servers, Doomed(s)
             PROVE  FALSE
  BY DEF ProgramInv, ProcInv
<1>1. PICK j \in DOMAIN todo :
         /\ todo[j].op = "kill"
         /\ \A i \in 1 .. (j - 1) : todo[i].op \in Harmless
  BY DEF Doomed
<1>2. /\ todo \in Seq(Steps) /\ todo # <<>>
      /\ j \in 1 .. Len(todo) /\ Head(todo) = todo[1]
  BY <1>1 DEF ProgramInv, ScriptInv
<1>3. j # 1 => 1 \in 1 .. (j - 1)
  BY <1>2
<1> QED
  BY <1>1, <1>2, <1>3 DEF Harmless

(* The program goes on to its next instruction: the kill comes nearer. *)
LEMMA DoomedTail ==
  ASSUME ScriptInv, todo # <<>>, NEW s, Doomed(s),
         Head(todo).op = "kill" => Head(todo).srv # s,
         todo' = Tail(todo)
  PROVE  Doomed(s)'
<1>1. PICK j \in DOMAIN todo :
         /\ todo[j].op = "kill" /\ todo[j].srv = s
         /\ \A i \in 1 .. (j - 1) : todo[i].op \in Harmless
  BY DEF Doomed
<1>2. /\ todo' \in Seq(Steps) /\ Len(todo) \in Nat \ {0}
      /\ Len(todo') = Len(todo) - 1
      /\ \A i \in 1 .. (Len(todo) - 1) : todo'[i] = todo[i + 1]
      /\ Head(todo) = todo[1]
  BY TailOf DEF ScriptInv
<1>3. j \in 1 .. Len(todo) /\ j # 1
  BY <1>1, <1>2 DEF ScriptInv
<1>4. DOMAIN todo' = 1 .. Len(todo')
  BY <1>2
<1>5. j - 1 \in DOMAIN todo' /\ todo'[j - 1] = todo[j]
  BY <1>2, <1>3, <1>4
<1>6. ASSUME NEW i \in 1 .. ((j - 1) - 1)
      PROVE  todo'[i].op \in Harmless
  <2>1. i + 1 \in 1 .. (j - 1) /\ i \in 1 .. (Len(todo) - 1)
    BY <1>2, <1>3
  <2> QED
    BY <1>1, <1>2, <2>1
<1> QED
  BY <1>1, <1>5, <1>6 DEF Doomed

(* The script after an instruction. *)
LEMMA ScriptTail ==
  ASSUME ScriptInv, todo # <<>>, todo' = Tail(todo), UNCHANGED prog,
         exit' \in {"running", "0", "1"}
  PROVE  ScriptInv'
<1>1. /\ todo' \in Seq(Steps) /\ Len(todo) \in Nat \ {0}
      /\ Len(todo') = Len(todo) - 1
      /\ \A i \in 1 .. (Len(todo) - 1) : todo'[i] = todo[i + 1]
  BY TailOf DEF ScriptInv
<1>2. Steps' = Steps
  BY DEF Steps
<1>3. 1 \in 0 .. Len(todo)
  BY <1>1
<1>4. Watched(prog, todo')
  <2> DEFINE t == todo'
  <2>1. t \in Seq(Steps) /\ Len(t) = Len(todo) - 1
        /\ \A i \in 1 .. (Len(todo) - 1) : t[i] = todo[i + 1]
    BY <1>1
  <2> HIDE DEF t
  <2>2. Watched(prog, t)
    BY <1>3, <2>1, WatchedRest DEF ScriptInv
  <2> QED
    BY <2>2 DEF t
<1> QED
  BY <1>1, <1>2, <1>4 DEF ScriptInv

LEMMA ScriptSame ==
  ASSUME ScriptInv, UNCHANGED <<prog, todo>>, exit' \in {"running", "0", "1"}
  PROVE  ScriptInv'
BY DEF ScriptInv, Steps

(* An instruction that concerns no process is over, or goes on. *)
LEMMA ProgramGoesOn ==
  ASSUME ProgramInv, UNCHANGED <<prog, exit, proc, defers>>,
         todo' = todo \/ (todo' = Tail(todo) /\ todo # <<>>
                            /\ Head(todo).op # "kill")
  PROVE  ProgramInv'
<1>1. CASE todo' = todo
  BY <1>1 DEF ProgramInv, ScriptInv, ProcInv, Steps, Doomed
<1>2. CASE todo' = Tail(todo) /\ todo # <<>> /\ Head(todo).op # "kill"
  <2>1. ScriptInv'
    BY <1>2, ScriptTail DEF ProgramInv, ScriptInv
  <2>2. \A s \in Servers : Doomed(s) => Doomed(s)'
    BY <1>2, DoomedTail DEF ProgramInv
  <2>3. ProcInv'
    BY <2>2 DEF ProgramInv, ProcInv
  <2> QED
    BY <2>1, <2>3 DEF ProgramInv
<1> QED
  BY <1>1, <1>2

(* The program exits: with 0 its deferred calls run. *)
LEMMA ProgramLeaves ==
  ASSUME ProgramInv, exit = "running", NEW code \in {"0", "1"}, Leave(code),
         UNCHANGED <<prog, todo, defers>>,
         todo # <<>> => Head(todo).op \notin {"run", "raw", "kill"}
  PROVE  ProgramInv'
<1>1. ScriptInv'
  BY ScriptSame DEF ProgramInv, Leave
<1>2. \A s \in Servers : proc[s] \in {"starting", "alive"} => s \in defers
  BY NoneDoomed
<1>3. ProcInv'
  BY <1>2 DEF ProgramInv, ProcInv, Leave
<1> QED
  BY <1>1, <1>3 DEF ProgramInv

(* A server process is started: a deferred call or the script kills it. *)
LEMMA ProgramStartsServer ==
  ASSUME ProgramInv, StartServer
  PROVE  ProgramInv'
<1>1. /\ exit = "running" /\ todo # <<>> /\ Head(todo).op = "exec"
      /\ UNCHANGED prog
  BY DEF StartServer, At, Instr
<1> DEFINE e == Head(todo)
<1>2. \A s \in Servers : proc[s] \in {"starting", "alive"} => s \in defers
  BY <1>1, NoneDoomed
<1>3. /\ todo \in Seq(Steps) /\ Len(todo) \in Nat \ {0}
      /\ DOMAIN todo = 1 .. Len(todo) /\ 1 \in DOMAIN todo /\ e = todo[1]
      /\ Tail(todo) \in Seq(Steps) /\ Len(Tail(todo)) = Len(todo) - 1
      /\ \A i \in 1 .. (Len(todo) - 1) : Tail(todo)[i] = todo[i + 1]
  BY <1>1, TailOf DEF ProgramInv, ScriptInv
<1>4. IF e.deferred THEN prog = "cross_test_start" /\ e.skip = 0
      ELSE /\ e.skip \in Nat \ {0} /\ 1 + e.skip \in 1 .. Len(todo)
           /\ todo[1 + e.skip].op = "kill" /\ todo[1 + e.skip].srv = e.srv
           /\ \A j \in 2 .. e.skip : todo[j].op \in Harmless
  <2>1. Watched(prog, todo)
    BY DEF ProgramInv, ScriptInv
  <2>2. CASE e.deferred
    BY <1>1, <1>3, <2>1, <2>2 DEF Watched
  <2>3. CASE ~e.deferred
    <3>1. /\ e.skip \in Nat \ {0} /\ 1 + e.skip \in 1 .. Len(todo)
          /\ todo[1 + e.skip].op = "kill" /\ todo[1 + e.skip].srv = e.srv
          /\ \A j \in (1 + 1) .. ((1 + e.skip) - 1) : todo[j].op \in Harmless
      BY <1>1, <1>3, <2>1, <2>3 DEF Watched
    <3>2. (1 + 1) .. ((1 + e.skip) - 1) = 2 .. e.skip
      BY <3>1
    <3> QED
      BY <2>3, <3>1, <3>2
  <2> QED
    BY <2>2, <2>3
<1>5. ASSUME proc' = [proc EXCEPT ![e.srv] = "starting"],
             defers' = IF e.deferred THEN defers \cup {e.srv} ELSE defers,
             todo' = Tail(todo), UNCHANGED exit
      PROVE  ProgramInv'
  <2>1. ScriptInv'
    BY <1>1, <1>5, ScriptTail DEF ProgramInv
  <2>2. ASSUME NEW v, v = e.srv, ~e.deferred
        PROVE  Doomed(v)'
    <3> DEFINE n == e.skip
    <3>1. /\ n \in Nat \ {0} /\ 1 + n \in 1 .. Len(todo)
          /\ todo[1 + n].op = "kill" /\ todo[1 + n].srv = v
          /\ \A j \in 2 .. n : todo[j].op \in Harmless
      BY <1>4, <2>2
    <3> HIDE DEF e, n
    <3>2. /\ n \in 1 .. (Len(todo) - 1) /\ Tail(todo)[n] = todo[1 + n]
          /\ n \in DOMAIN todo'
      <4>1. n \in 1 .. (Len(todo) - 1) /\ n + 1 = 1 + n
        BY <1>3, <3>1
      <4>2. DOMAIN todo' = 1 .. (Len(todo) - 1)
        BY <1>3, <1>5
      <4> QED
        BY <1>3, <4>1, <4>2
    <3>3. ASSUME NEW i \in 1 .. (n - 1)
          PROVE  Tail(todo)[i].op \in Harmless
      <4>1. i + 1 \in 2 .. n /\ i \in 1 .. (Len(todo) - 1)
        BY <1>3, <3>1, <3>2
      <4> QED
        BY <1>3, <3>1, <4>1
    <3>4. /\ todo'[n].op = "kill" /\ todo'[n].srv = v
          /\ \A i \in 1 .. (n - 1) : todo'[i].op \in Harmless
      BY <1>5, <3>1, <3>2, <3>3
    <3> QED
      BY <3>2, <3>4 DEF Doomed
  <2>3. ProcInv'
    <3>1. proc' \in [Servers -> {"none", "starting", "alive", "inline"}]
      BY <1>5 DEF ProgramInv, ProcInv
    <3>2. defers' # {} => prog = "cross_test_start"
      BY <1>4, <1>5 DEF ProgramInv, ProcInv
    <3>3. ASSUME NEW s \in Servers, proc'[s] \in {"starting", "alive"}
          PROVE  s \in defers' \/ Doomed(s)'
      <4>1. CASE s = e.srv
        BY <1>5, <2>2, <4>1
      <4>2. CASE s # e.srv
        BY <1>2, <1>5, <3>3, <4>2 DEF ProgramInv, ProcInv
      <4> QED
        BY <4>1, <4>2
    <3> QED
      BY <1>1, <1>5, <3>1, <3>2, <3>3 DEF ProcInv
  <2> QED
    BY <2>1, <2>3 DEF ProgramInv
<1>6. ASSUME e.skip = 0, osExit, UNCHANGED defers
      PROVE  ProgramInv'
  BY <1>1, <1>6, ProgramLeaves DEF osExit
<1>7. ASSUME e.skip # 0, todo' = SubSeq(todo, e.skip + 2, Len(todo)),
             UNCHANGED <<exit, proc, defers>>
      PROVE  ProgramInv'
  <2> DEFINE k == e.skip + 1
             t == SubSeq(todo, k + 1, Len(todo))
  <2>1. k \in 1 .. Len(todo) /\ k + 1 = e.skip + 2
    BY <1>4, <1>7
  <2>2. /\ t \in Seq(Steps) /\ Len(t) = Len(todo) - k
        /\ \A i \in 1 .. (Len(todo) - k) : t[i] = todo[i + k]
    BY <1>3, <2>1, RestOf
  <2>3. todo' = t
    BY <1>7, <2>1
  <2>4. k \in 0 .. Len(todo)
    BY <1>3, <2>1
  <2> HIDE DEF k, t
  <2>5. Watched(prog, t)
    BY <1>3, <2>2, <2>4, WatchedRest DEF ProgramInv, ScriptInv
  <2>6. ScriptInv'
    BY <1>1, <1>7, <2>2, <2>3, <2>5 DEF ProgramInv, ScriptInv, Steps
  <2>7. ProcInv'
    BY <1>1, <1>2, <1>7 DEF ProgramInv, ProcInv
  <2> QED
    BY <2>6, <2>7 DEF ProgramInv
<1> QED
  BY <1>5, <1>6, <1>7 DEF StartServer, Instr

(* A server process is killed. *)
LEMMA ProgramStopsServer ==
  ASSUME ProgramInv, StopServer
  PROVE  ProgramInv'
<1>1. /\ exit = "running" /\ todo # <<>> /\ Head(todo).op = "kill"
      /\ proc' = [proc EXCEPT ![Head(todo).srv] = "none"]
      /\ todo' = Tail(todo) /\ UNCHANGED <<prog, exit, defers>>
  BY DEF StopServer, At, Instr
<1>2. ScriptInv'
  BY <1>1, ScriptTail DEF ProgramInv
<1>3. ASSUME NEW s \in Servers, proc'[s] \in {"starting", "alive"}
      PROVE  s \in defers \/ Doomed(s)'
  <2>1. s # Head(todo).srv /\ proc'[s] = proc[s]
    BY <1>1, <1>3 DEF ProgramInv, ProcInv
  <2>2. Doomed(s) => Doomed(s)'
    BY <1>1, <2>1, DoomedTail DEF ProgramInv
  <2> QED
    BY <1>1, <1>3, <2>1, <2>2 DEF ProgramInv, ProcInv
<1>4. ProcInv'
  BY <1>1, <1>3 DEF ProgramInv, ProcInv
<1> QED
  BY <1>2, <1>4 DEF ProgramInv

(* Every step keeps track of the processes. *)
LEMMA ProgramStep ==
  ASSUME ProgramInv, [Next]_vars
  PROVE  ProgramInv'
<1>1. CASE Call \/ InPool
  BY <1>1, ProgramGoesOn DEF Call, InPool, mainVars
<1>2. ASSUME NEW w \in Worker, Reached(w)
      PROVE  ProgramInv'
  BY <1>2, ProgramGoesOn DEF Reached
<1>3. CASE Collect
  BY <1>3, ProgramGoesOn DEF Collect, At, Instr
<1>4. ASSUME NEW k, Enter(k), At("raw"), UNCHANGED <<prog, exit, proc, defers>>
      PROVE  ProgramInv'
  <2>1. todo' = todo \/ todo' = Tail(todo)
    BY <1>4 DEF Enter
  <2> QED
    BY <1>4, <2>1, ProgramGoesOn DEF At, Instr
<1>5. CASE Dial \/ Awaited
  BY <1>4, <1>5 DEF Dial, Awaited
<1>6. CASE Expire
  <2>1. CASE todo' = Tail(todo)
    BY <1>6, <2>1, ProgramGoesOn DEF Expire, At, Instr
  <2>2. CASE Enter(stage + 1)
    BY <1>4, <1>6, <2>2 DEF Expire
  <2> QED
    BY <1>6, <2>1, <2>2 DEF Expire
<1>7. ASSUME NEW e \in due, Arrive(e)
      PROVE  ProgramInv'
  BY <1>7, ProgramGoesOn DEF Arrive
<1>8. CASE Check
  <2>1. CASE Pass
    BY <1>8, <2>1, ProgramGoesOn DEF Check, Pass, At, Instr
  <2>2. CASE osExit
    BY <1>8, <2>2, ProgramLeaves DEF Check, osExit, At, Instr
  <2> QED
    BY <1>8, <2>1, <2>2 DEF Check
<1>9. CASE Decide
  <2>1. CASE Pass
    BY <1>9, <2>1, ProgramGoesOn DEF Decide, Pass, At, Instr
  <2>2. CASE osExit
    BY <1>9, <2>2, ProgramLeaves DEF Decide, osExit, At, Instr
  <2> QED
    BY <1>9, <2>1, <2>2 DEF Decide
<1>10. CASE ListenAndServe
  <2>1. /\ exit = "running" /\ todo # <<>> /\ Head(todo).op = "inline"
        /\ proc' \in {[proc EXCEPT ![Head(todo).srv] = "none"],
                      [proc EXCEPT ![Head(todo).srv] = "inline"]}
        /\ todo' = Tail(todo) /\ UNCHANGED <<prog, exit, defers>>
    BY <1>10 DEF ListenAndServe, At, Instr
  <2>2. ScriptInv'
    BY <2>1, ScriptTail DEF ProgramInv
  <2>3. \A s \in Servers : proc[s] \in {"starting", "alive"} => s \in defers
    BY <2>1, NoneDoomed
  <2>4. ProcInv'
    BY <2>1, <2>3 DEF ProgramInv, ProcInv
  <2> QED
    BY <2>2, <2>4 DEF ProgramInv
<1>11. CASE StartServer
  BY <1>11, ProgramStartsServer
<1>12. CASE StopServer
  BY <1>12, ProgramStopsServer
<1>13. CASE Return
  BY <1>13, ProgramLeaves DEF Return
<1>14. ASSUME NEW srv \in Servers, Boot(srv) \/ Crash(srv)
       PROVE  ProgramInv'
  <2>1. /\ exit = "running" /\ UNCHANGED <<prog, todo, exit, defers>>
    BY <1>14 DEF Boot, Crash
  <2>2. /\ proc' \in [Servers -> {"none", "starting", "alive", "inline"}]
        /\ \A s \in Servers : proc'[s] \in {"starting", "alive"} =>
             proc[s] \in {"starting", "alive"}
    BY <1>14 DEF Boot, Crash, ProgramInv, ProcInv
  <2>3. \A s \in Servers : Doomed(s) => Doomed(s)'
    BY <2>1 DEF Doomed
  <2>4. ProcInv'
    BY <2>1, <2>2, <2>3 DEF ProgramInv, ProcInv
  <2> QED
    BY <2>1, <2>4, ScriptSame DEF ProgramInv, ScriptInv
<1>15. CASE Terminated \/ UNCHANGED vars
  BY <1>15, ProgramGoesOn DEF Terminated, vars, mainVars
<1> QED
  BY <1>1, <1>2, <1>3, <1>5, <1>6, <1>7, <1>8, <1>9, <1>10, <1>11, <1>12,
     <1>13, <1>14, <1>15 DEF Next, MainStep

(* A server process that a program has started outlives it only when       *)
(* cross_test leaves by os.Exit: with scripts that kill what they start    *)
(* before anything can end the program, or defer the kill.                 *)
THEOREM ClientLeavesNothing == Spec => []LeftBehind
<1>1. Init => ProgramInv
  BY ProgramStarts
<1>2. ProgramInv /\ [Next]_vars => ProgramInv'
  BY ProgramStep
<1>3. ProgramInv => LeftBehind
  BY DEF ProgramInv, ScriptInv, ProcInv, LeftBehind
<1> QED
  BY <1>1, <1>2, <1>3, PTL DEF Spec

-----------------------------------------------------------------------------
(* A function that stops at nothing makes all of its requests. *)

Quota == IF pool.loop = "once" THEN 1 ELSE MaxReqs
Requests == {r \in Worker \X Nat : r[2] < made[r[1]]}

Made(w) ==
  /\ made[w] <= Quota
  /\ pc[w] \in {"none", "begin"} => made[w] = 0
  /\ pc[w] = "asking" => made[w] < Quota
  /\ pc[w] \in {"leaving", "done"} /\ ~pool.stops /\ pool.loop # "deadline" =>
       made[w] = Quota

MadeInv ==
  /\ spawned <= Workers
  /\ main \in {"wait", "over"} => open
  /\ \A w \in Worker : Made(w)
  /\ done["ok"] + done["bad"] + done["none"] = Cardinality(Requests)

LEMMA QuotaNat == Quota \in Nat
BY WorkerPoolAssumption DEF Quota

(* The requests that were made are finitely many. *)
LEMMA RequestsFinite ==
  ASSUME PoolInv, MadeInv
  PROVE  IsFiniteSet(Requests)
<1>1. IsFiniteSet(Worker) /\ IsFiniteSet(0 .. Quota)
  BY WorkerPoolAssumption, QuotaNat, FS_Interval DEF Worker
<1>2. IsFiniteSet(Worker \X (0 .. Quota))
  BY <1>1, FS_Product
<1>3. Requests \in SUBSET (Worker \X (0 .. Quota))
  <2> SUFFICES ASSUME NEW r \in Requests
               PROVE  r \in Worker \X (0 .. Quota)
    OBVIOUS
  <2>1. /\ r \in Worker \X Nat /\ r[1] \in Worker /\ r[2] \in Nat
        /\ r[2] < made[r[1]]
    BY DEF Requests
  <2>2. made[r[1]] \in Nat /\ made[r[1]] <= Quota
    BY <2>1 DEF PoolInv, PoolTypeOK, MadeInv, Made
  <2>3. r[2] \in 0 .. Quota
    BY <2>1, <2>2, QuotaNat
  <2> QED
    BY <2>1, <2>3
<1> QED
  BY <1>2, <1>3, FS_Subset

(* Nothing has been asked. *)
LEMMA MadeFresh ==
  ASSUME spawned = 0, main \in {"idle", "spawn"},
         pc = [w \in Worker |-> "none"], made = [w \in Worker |-> 0],
         done = [o \in Outcome |-> 0]
  PROVE  MadeInv
<1>1. Requests = {}
  BY DEF Requests
<1>2. done["ok"] + done["bad"] + done["none"] = 0
  BY DEF Outcome
<1>3. \A w \in Worker : Made(w)
  BY QuotaNat DEF Made
<1> QED
  BY <1>1, <1>2, <1>3, FS_EmptySet, WorkerPoolAssumption DEF MadeInv

(* A step of the function or of a goroutine that ends no request. *)
LEMMA MadeGoesOn ==
  ASSUME PoolInv, MadeInv, PoolStep
  PROVE  MadeInv'
<1>1. made' = made /\ done' = done /\ pool' = pool
  BY DEF PoolStep, Spawn, AllSpawned, Waited, DeadlinePasses, Goroutine,
         Begin, Ask, Tally1, Tally2, Release, Done
<1>2. Quota' = Quota /\ Requests' = Requests
  BY <1>1 DEF Quota, Requests
<1>3. /\ spawned \in Nat /\ main \in {"idle", "spawn", "wait", "over"}
      /\ pc \in [Worker -> {"none", "begin", "loop", "asking", "tally1",
                            "tally2", "leaving", "done"}]
      /\ made \in [Worker -> Nat] /\ pool \in Shape
  BY DEF PoolInv, PoolTypeOK
<1>4. ASSUME NEW v \in Worker, pc'[v] = pc[v]
      PROVE  Made(v)'
  BY <1>1, <1>2, <1>4 DEF MadeInv, Made
<1>5. CASE Spawn
  <2>1. /\ spawned + 1 \in Worker /\ spawned' = spawned + 1
        /\ pc' = [pc EXCEPT ![spawned + 1] = "begin"] /\ main = "spawn"
        /\ UNCHANGED <<main, open>>
    BY <1>5 DEF Spawn
  <2>2. pc[spawned + 1] = "none"
    BY <1>3, <2>1 DEF PoolInv, Spread
  <2>3. ASSUME NEW v \in Worker
        PROVE  Made(v)'
    <3>1. CASE v = spawned + 1
      BY <1>1, <1>2, <1>3, <2>1, <2>2, <3>1 DEF MadeInv, Made
    <3>2. CASE v # spawned + 1
      BY <1>3, <1>4, <2>1, <3>2
    <3> QED
      BY <3>1, <3>2
  <2>4. spawned' <= Workers
    BY <1>3, <2>1, WorkerPoolAssumption DEF Worker
  <2> QED
    BY <1>1, <1>2, <2>1, <2>3, <2>4 DEF MadeInv
<1>6. CASE AllSpawned \/ Waited \/ DeadlinePasses
  <2>1. UNCHANGED <<spawned, pc>>
    BY <1>6 DEF AllSpawned, Waited, DeadlinePasses
  <2>2. (main \in {"wait", "over"} => open)'
    BY <1>6 DEF AllSpawned, Waited, DeadlinePasses, MadeInv
  <2>3. \A v \in Worker : Made(v)'
    BY <1>4, <2>1
  <2> QED
    BY <1>1, <1>2, <2>1, <2>2, <2>3 DEF MadeInv
<1>7. ASSUME NEW w \in Worker, Goroutine(w)
      PROVE  MadeInv'
  <2>1. UNCHANGED <<spawned, main, open>>
    BY <1>7 DEF Goroutine, Begin, Ask, Tally1, Tally2, Release, Done
  <2>2. \A v \in Worker : v # w => pc'[v] = pc[v]
    BY <1>3, <1>7 DEF Goroutine, Begin, Ask, Tally1, Tally2, Release, Done
  <2>3. Made(w)'
    <3>1. made[w] \in Nat /\ Made(w) /\ pool.loop \in {"once", "count", "deadline"}
      BY <1>3 DEF MadeInv, Shape
    <3>2. CASE Begin(w) \/ Tally1(w) \/ Tally2(w)
      <4>1. pc'[w] \in {"loop", "tally2"}
        BY <1>3, <3>2 DEF Begin, Tally1, Tally2
      <4> QED
        BY <1>1, <1>2, <3>1, <4>1 DEF Made
    <3>3. CASE Ask(w)
      <4>1. pc'[w] = "asking"
        BY <1>3, <3>3 DEF Ask
      <4>2. made[w] < Quota
        <5>1. More(w)
          BY <3>3 DEF Ask
        <5>2. CASE pool.loop = "once"
          BY <3>1, <5>1, <5>2 DEF More, Quota
        <5>3. CASE pool.loop = "count"
          BY <3>1, <5>1, <5>3 DEF More, Quota
        <5>4. CASE pool.loop = "deadline"
          BY <3>1, <5>1, <5>4 DEF More, Quota
        <5> QED
          BY <3>1, <5>2, <5>3, <5>4
      <4> QED
        BY <1>1, <1>2, <3>1, <4>1, <4>2 DEF Made
    <3>4. CASE Release(w)
      <4>1. pc'[w] = "leaving"
        BY <1>3, <3>4 DEF Release
      <4>2. ~pool.stops /\ pool.loop # "deadline" => made[w] >= Quota
        <5>1. NoMore(w)
          BY <3>4 DEF Release
        <5>2. CASE pool.loop = "once"
          BY <3>1, <5>1, <5>2 DEF NoMore, Stopped, Quota
        <5>3. CASE pool.loop = "count"
          BY <3>1, <5>1, <5>3 DEF NoMore, Stopped, Quota
        <5> QED
          BY <3>1, <5>2, <5>3
      <4>3. ~pool.stops /\ pool.loop # "deadline" => made[w] = Quota
        BY <3>1, <4>2, QuotaNat DEF Made
      <4> QED
        BY <1>1, <1>2, <3>1, <4>1, <4>3 DEF Made
    <3>5. CASE Done(w)
      <4>1. pc[w] = "leaving" /\ pc'[w] = "done"
        BY <1>3, <3>5 DEF Done
      <4> QED
        BY <1>1, <1>2, <3>1, <4>1 DEF Made
    <3> QED
      BY <1>7, <3>2, <3>3, <3>4, <3>5 DEF Goroutine
  <2>4. \A v \in Worker : Made(v)'
    BY <1>4, <2>2, <2>3
  <2> QED
    BY <1>1, <1>2, <2>1, <2>4 DEF MadeInv
<1> QED
  BY <1>5, <1>6, <1>7 DEF PoolStep

(* A request ends: there is one more. *)
LEMMA MadeReply ==
  ASSUME PoolInv, MadeInv, NEW w \in Worker, NEW o \in Outcome, Reply(w, o)
  PROVE  MadeInv'
<1> DEFINE n == made[w]
           r == <<w, n>>
<1>1. /\ pc[w] = "asking" /\ pc' = [pc EXCEPT ![w] = "tally1"]
      /\ made' = [made EXCEPT ![w] = n + 1]
      /\ done' = [done EXCEPT ![o] = @ + 1]
      /\ UNCHANGED <<pool, main, spawned, open>>
  BY DEF Reply
<1>2. /\ pc \in [Worker -> {"none", "begin", "loop", "asking", "tally1",
                            "tally2", "leaving", "done"}]
      /\ made \in [Worker -> Nat] /\ done \in [Outcome -> Nat] /\ n \in Nat
  BY DEF PoolInv, PoolTypeOK
<1>3. Quota' = Quota
  BY <1>1 DEF Quota
<1>4. ASSUME NEW v \in Worker
      PROVE  Made(v)'
  <2>1. CASE v = w
    <3>1. n < Quota
      BY <1>1 DEF MadeInv, Made
    <3>2. n + 1 <= Quota
      BY <1>2, <3>1, QuotaNat
    <3>3. made'[v] = n + 1 /\ pc'[v] = "tally1"
      BY <1>1, <1>2, <2>1
    <3> QED
      BY <1>3, <3>2, <3>3 DEF Made
  <2>2. CASE v # w
    <3>1. made'[v] = made[v] /\ pc'[v] = pc[v]
      BY <1>1, <1>2, <2>2
    <3> QED
      BY <1>1, <1>3, <3>1 DEF MadeInv, Made
  <2> QED
    BY <2>1, <2>2
<1>5. Requests' = Requests \cup {r} /\ r \notin Requests
  <2>1. r \notin Requests
    BY <1>2 DEF Requests
  <2>2. ASSUME NEW q \in Worker \X Nat
        PROVE  q[2] < made'[q[1]] <=> q[2] < made[q[1]] \/ q = r
    <3>1. q[1] \in Worker /\ q[2] \in Nat /\ q = <<q[1], q[2]>>
      OBVIOUS
    <3>2. CASE q[1] = w
      <4>1. made'[q[1]] = n + 1 /\ made[q[1]] = n
        BY <1>1, <1>2, <3>2
      <4>2. q[2] < n + 1 <=> q[2] < n \/ q[2] = n
        BY <1>2, <3>1
      <4>3. q = r <=> q[2] = n
        BY <3>1, <3>2
      <4> QED
        BY <4>1, <4>2, <4>3
    <3>3. CASE q[1] # w
      <4>1. made'[q[1]] = made[q[1]]
        BY <1>1, <1>2, <3>1, <3>3
      <4>2. q # r
        BY <3>3
      <4> QED
        BY <4>1, <4>2
    <3> QED
      BY <3>2, <3>3
  <2>3. r \in Worker \X Nat
    BY <1>2
  <2> HIDE DEF r
  <2> QED
    BY <2>1, <2>2, <2>3 DEF Requests
<1>6. Cardinality(Requests') = Cardinality(Requests) + 1
  <2> HIDE DEF r
  <2> QED
    BY <1>5, RequestsFinite, FS_AddElement
<1>7. (done["ok"] + done["bad"] + done["none"])'
        = done["ok"] + done["bad"] + done["none"] + 1
  BY <1>1, <1>2 DEF Outcome
<1> QED
  BY <1>1, <1>4, <1>6, <1>7 DEF MadeInv

LEMMA MadeStep ==
  ASSUME PoolInv, MadeInv, [PoolNext]_poolVars
  PROVE  MadeInv'
<1>1. CASE PoolStep
  BY <1>1, MadeGoesOn
<1>2. ASSUME NEW p, Start(p)
      PROVE  MadeInv'
  <2>1. /\ spawned' = 0 /\ main' = "spawn"
        /\ pc' = [w \in Worker |-> "none"] /\ made' = [w \in Worker |-> 0]
        /\ done' = [o \in Outcome |-> 0]
    BY <1>2 DEF Start
  <2>2. Requests' = {}
    BY <2>1 DEF Requests
  <2>3. (done["ok"] + done["bad"] + done["none"])' = 0
    BY <2>1 DEF Outcome
  <2>4. Quota' \in Nat
    BY WorkerPoolAssumption DEF Quota
  <2>5. \A w \in Worker : Made(w)'
    BY <2>1, <2>4 DEF Made
  <2> QED
    BY <2>1, <2>2, <2>3, <2>5, FS_EmptySet, WorkerPoolAssumption DEF MadeInv
<1>3. ASSUME NEW w \in Worker, NEW o \in Outcome, Reply(w, o)
      PROVE  MadeInv'
  BY <1>3, MadeReply
<1>4. CASE UNCHANGED poolVars
  BY <1>4 DEF poolVars, MadeInv, Made, Quota, Requests
<1> QED
  BY <1>1, <1>2, <1>3, <1>4 DEF PoolNext

(* When wg.Wait() has returned, every request was made. *)
LEMMA AllMade ==
  ASSUME PoolInv, MadeInv, main = "over", pool.loop \in {"once", "count"},
         ~pool.stops
  PROVE  done["ok"] + done["bad"] + done["none"] = Requested(pool)
<1>1. /\ spawned = pool.spawn /\ spawned \in Nat /\ spawned <= Workers
      /\ made \in [Worker -> Nat]
  BY DEF PoolInv, PoolTypeOK, Gated, MadeInv
<1>2. \A w \in Worker : pc[w] \in {"none", "done"}
  BY DEF PoolInv, Ended, Running
<1>3. ASSUME NEW w \in Worker
      PROVE  made[w] = IF w <= spawned THEN Quota ELSE 0
  <2>1. pc[w] = "none" <=> w > spawned
    BY DEF PoolInv, Spread
  <2>2. w \in Int
    BY DEF Worker
  <2>3. Made(w)
    BY DEF MadeInv
  <2>4. CASE pc[w] = "none"
    BY <1>1, <2>1, <2>2, <2>3, <2>4 DEF Made
  <2>5. CASE pc[w] = "done"
    BY <1>1, <2>1, <2>2, <2>3, <2>5 DEF Made
  <2> QED
    BY <1>2, <2>4, <2>5
<1> DEFINE K == 0 .. (Quota - 1)
<1>4. Requests = (1 .. spawned) \X K
  <2>1. \A r \in Requests : r \in (1 .. spawned) \X K
    <3> SUFFICES ASSUME NEW r \in Requests
                 PROVE  r \in (1 .. spawned) \X K
      OBVIOUS
    <3>1. /\ r[1] \in Worker /\ r[2] \in Nat /\ r[2] < made[r[1]]
          /\ r = <<r[1], r[2]>>
      BY DEF Requests
    <3>2. r[1] \in 1 .. Workers
      BY <3>1 DEF Worker
    <3>3. r[1] <= spawned /\ r[2] < Quota
      BY <1>3, <3>1, QuotaNat
    <3>4. r[1] \in 1 .. spawned /\ r[2] \in K
      BY <1>1, <3>1, <3>2, <3>3, QuotaNat, WorkerPoolAssumption
    <3> QED
      BY <3>1, <3>4
  <2>2. \A r \in (1 .. spawned) \X K : r \in Requests
    <3> SUFFICES ASSUME NEW r \in (1 .. spawned) \X K
                 PROVE  r \in Requests
      OBVIOUS
    <3>1. r[1] \in 1 .. spawned /\ r[2] \in K /\ r = <<r[1], r[2]>>
      OBVIOUS
    <3>2. r[1] \in Worker /\ r[1] <= spawned
      BY <1>1, <3>1, WorkerPoolAssumption DEF Worker
    <3>3. r[2] \in Nat /\ r[2] < Quota
      BY <3>1, QuotaNat
    <3>4. r[2] < made[r[1]]
      BY <1>3, <3>2, <3>3
    <3> QED
      BY <3>2, <3>3, <3>4 DEF Requests
  <2> QED
    BY <2>1, <2>2
<1>5. /\ IsFiniteSet(1 .. spawned) /\ Cardinality(1 .. spawned) = spawned
      /\ IsFiniteSet(K) /\ Cardinality(K) = Quota
  <2>0. 1 \in Int /\ spawned \in Int
    BY <1>1
  <2>1. /\ IsFiniteSet(1 .. spawned)
        /\ Cardinality(1 .. spawned) = IF 1 > spawned THEN 0 ELSE spawned - 1 + 1
    BY <2>0, FS_Interval
  <2> DEFINE q == Quota - 1
  <2>2. q \in Int /\ Quota = q + 1 /\ (0 > q => q + 1 = 0)
    BY QuotaNat
  <2> HIDE DEF q
  <2>3. /\ IsFiniteSet(0 .. q)
        /\ Cardinality(0 .. q) = IF 0 > q THEN 0 ELSE q - 0 + 1
    BY <2>2, FS_Interval
  <2>4. Cardinality(0 .. q) = q + 1
    BY <2>2, <2>3
  <2>5. Cardinality(1 .. spawned) = spawned
    BY <1>1, <2>1
  <2> QED
    BY <2>1, <2>2, <2>3, <2>4, <2>5 DEF q
<1> HIDE DEF K
<1>6. Cardinality((1 .. spawned) \X K) = spawned * Quota
  BY <1>5, FS_Product
<1>7. Requested(pool) = spawned * Quota
  BY <1>1 DEF Requested, Quota
<1> QED
  BY <1>4, <1>6, <1>7 DEF MadeInv

-----------------------------------------------------------------------------
(* What the exit code of a test program rests on. *)

Failed == done["bad"] + done["none"] > 0

(* The results say what the requests and tests came to, and nothing failed *)
(* but for a server or the network.                                        *)
Facts ==
  /\ acc \in [missing : BOOLEAN, failures : BOOLEAN, results : BOOLEAN]
  /\ called \in BOOLEAN /\ broken \in BOOLEAN /\ flawed \in BOOLEAN
  /\ acc.missing = acc.failures
  /\ flawed <=> acc.failures \/ (called /\ Failed)
  /\ flawed => broken
  /\ called => /\ exit = "running" /\ todo # <<>>
               /\ Head(todo).op = "run" /\ pool = Head(todo).fn
  /\ exit = "running" /\ todo = <<>> => ~acc.failures
  /\ exit = "0" => ~flawed
  /\ exit = "1" => broken

(* A test on a connection: as long as nothing is broken, what the stages   *)
(* before this one awaited has come, and what was sent is there or due.    *)
Heard(stages) ==
  /\ \A j \in 1 .. (stage - 1) : stages[j].await \in arrived
  /\ \A j \in 1 .. stage : stages[j].sends \subseteq due \cup arrived

Conversation ==
  /\ stage \in Nat
  /\ stage > 0 =>
       /\ exit = "running" /\ todo # <<>> /\ Head(todo).op = "raw"
       /\ stage <= Len(Head(todo).stages)
       /\ ~broken /\ Up(Head(todo).srv) => Heard(Head(todo).stages)

(* A server that has been started and does not listen yet is being awaited. *)
Steady ==
  /\ ext \in [Servers -> BOOLEAN]
  /\ \A s \in Servers : ~broken /\ proc[s] = "starting" /\ ~ext[s] =>
       todo # <<>> /\ Head(todo).op = "probe" /\ Head(todo).srv = s

TestInv == Verdict(todo) /\ Facts /\ Conversation /\ Steady

TruthInv == prog \in TestPrograms => TestInv

(* The next instruction of a test program. *)
LEMMA VerdictHead ==
  ASSUME ScriptInv, Verdict(todo), todo # <<>>
  PROVE  /\ Head(todo).op \in {"run", "raw", "probe", "exec", "exitIf"}
         /\ Head(todo).op = "run" => Truthful(Head(todo))
         /\ Head(todo).op = "raw" => Answered(Head(todo).stages)
         /\ Head(todo).op = "exitIf" =>
              Head(todo).fact \in {"failures", "missing"}
         /\ Head(todo).op # "exitIf" =>
              Head(todo).srv \in Servers /\ Tail(todo) # <<>>
         /\ Head(todo).op = "exec" =>
              /\ Head(todo).skip = 0 /\ Head(Tail(todo)).op = "probe"
              /\ Head(Tail(todo)).srv = Head(todo).srv
<1>1. /\ todo \in Seq(Steps) /\ Tail(todo) \in Seq(Steps)
      /\ Len(todo) \in Nat \ {0} /\ Head(todo) = todo[1]
      /\ Len(Tail(todo)) = Len(todo) - 1
      /\ \A i \in 1 .. (Len(todo) - 1) : Tail(todo)[i] = todo[i + 1]
  BY TailOf DEF ScriptInv
<1>2. 1 \in DOMAIN todo
  BY <1>1
<1> DEFINE e == Head(todo)
<1>3. /\ e.op \in {"run", "raw", "probe", "exec", "exitIf"}
      /\ e.op = "run" => Truthful(e)
      /\ e.op = "raw" => Answered(e.stages)
      /\ e.op = "exitIf" => e.fact \in {"failures", "missing"}
      /\ e.op # "exitIf" => e.srv \in Servers /\ 1 # Len(todo)
      /\ e.op = "exec" => /\ e.skip = 0
                          /\ todo[1 + 1].op = "probe"
                          /\ todo[1 + 1].srv = e.srv
  BY <1>1, <1>2 DEF Verdict
<1>4. 1 # Len(todo) => Tail(todo) # <<>>
  BY <1>1
<1>5. 1 # Len(todo) => Head(Tail(todo)) = todo[1 + 1]
  <2> SUFFICES ASSUME 1 # Len(todo)
               PROVE  Head(Tail(todo)) = todo[1 + 1]
    OBVIOUS
  <2>1. 1 \in 1 .. (Len(todo) - 1)
    BY <1>1
  <2>2. Tail(todo)[1] = todo[1 + 1]
    BY <1>1, <2>1
  <2>3. Head(Tail(todo)) = Tail(todo)[1]
    BY <1>1, <1>4, TailOf
  <2> QED
    BY <2>2, <2>3
<1> HIDE DEF e
<1>6. e.op = "exec" => e.op # "exitIf"
  OBVIOUS
<1> QED
  BY <1>3, <1>4, <1>5, <1>6 DEF e

(* The rest of a test program decides as well. *)
LEMMA VerdictTail ==
  ASSUME ScriptInv, Verdict(todo), todo # <<>>
  PROVE  Verdict(Tail(todo))
<1> DEFINE t == Tail(todo)
<1>1. /\ todo \in Seq(Steps) /\ t \in Seq(Steps)
      /\ Len(todo) \in Nat \ {0} /\ Len(t) = Len(todo) - 1
      /\ \A i \in 1 .. (Len(todo) - 1) : t[i] = todo[i + 1]
  BY TailOf DEF ScriptInv
<1> HIDE DEF t
<1>2. DOMAIN t = 1 .. (Len(todo) - 1) /\ DOMAIN todo = 1 .. Len(todo)
  BY <1>1
<1> SUFFICES ASSUME NEW i \in DOMAIN t
             PROVE  /\ t[i].op \in {"run", "raw", "probe", "exec", "exitIf"}
                    /\ t[i].op = "run" => Truthful(t[i])
                    /\ t[i].op = "raw" => Answered(t[i].stages)
                    /\ t[i].op = "exitIf" => t[i].fact \in {"failures", "missing"}
                    /\ t[i].op # "exitIf" => t[i].srv \in Servers /\ i # Len(t)
                    /\ t[i].op = "exec" => /\ t[i].skip = 0
                                           /\ t[i + 1].op = "probe"
                                           /\ t[i + 1].srv = t[i].srv
  BY DEF Verdict, t
<1>3. i + 1 \in DOMAIN todo /\ t[i] = todo[i + 1]
  BY <1>1, <1>2
<1> DEFINE e == todo[i + 1]
<1>4. /\ e.op \in {"run", "raw", "probe", "exec", "exitIf"}
      /\ e.op = "run" => Truthful(e)
      /\ e.op = "raw" => Answered(e.stages)
      /\ e.op = "exitIf" => e.fact \in {"failures", "missing"}
      /\ e.op # "exitIf" => e.srv \in Servers /\ i + 1 # Len(todo)
      /\ e.op = "exec" => /\ e.skip = 0
                          /\ todo[(i + 1) + 1].op = "probe"
                          /\ todo[(i + 1) + 1].srv = e.srv
  BY <1>3 DEF Verdict
<1>5. i + 1 # Len(todo) => i # Len(t) /\ t[i + 1] = todo[(i + 1) + 1]
  <2> SUFFICES ASSUME i + 1 # Len(todo)
               PROVE  i # Len(t) /\ t[i + 1] = todo[(i + 1) + 1]
    OBVIOUS
  <2>1. i \in 1 .. (Len(todo) - 1)
    BY <1>2
  <2>2. i + 1 \in 1 .. (Len(todo) - 1) /\ i # Len(t)
    BY <1>1, <2>1
  <2> QED
    BY <1>1, <2>2
<1>6. t[i] = e
  BY <1>3
<1> HIDE DEF e
<1>7. e.op = "exec" => e.op # "exitIf"
  OBVIOUS
<1> QED
  BY <1>4, <1>5, <1>6, <1>7

(* A test program starts. *)
LEMMA TruthStarts == Init => TruthInv
<1> SUFFICES ASSUME Init, prog \in TestPrograms
             PROVE  TestInv
  BY DEF TruthInv
<1>1. /\ prog \in DOMAIN Programs /\ todo = Programs[prog] /\ called = FALSE
      /\ exit = "running" /\ stage = 0 /\ broken = FALSE /\ flawed = FALSE
      /\ acc = [missing |-> FALSE, failures |-> FALSE, results |-> FALSE]
      /\ ext \in [Servers -> BOOLEAN]
      /\ proc = [s \in Servers |-> "none"]
  BY DEF Init
<1>2. todo # <<>> /\ Verdict(todo)
  BY <1>1, ScriptAssumption
<1>3. Facts
  BY <1>1, <1>2 DEF Facts
<1>4. Conversation /\ Steady
  BY <1>1 DEF Conversation, Steady
<1> QED
  BY <1>2, <1>3, <1>4 DEF TestInv

(* When a suite or test is over, its counters tell what failed. *)
LEMMA FailuresCounted ==
  ASSUME PoolInv, main = "over", NEW instr, Truthful(instr), pool = instr.fn
  PROVE  /\ count["failures"] = done["bad"] + done["none"]
         /\ instr.judge = "suite" => count["passed"] = done["ok"]
         /\ done["ok"] \in Nat /\ done["bad"] \in Nat /\ done["none"] \in Nat
<1>1. done["ok"] \in Nat /\ done["bad"] \in Nat /\ done["none"] \in Nat
  BY DEF PoolInv, PoolTypeOK, Outcome
<1>2. count["failures"] = Due("failures") /\ count["passed"] = Due("passed")
  BY InvCounts DEF Counted, Counter
<1>3. \A o \in Outcome : /\ "failures" \in pool.first[o] <=> o # "ok"
                         /\ "failures" \notin pool.second[o]
                         /\ "passed" \notin pool.second[o]
  <2>1. \A o \in Outcome :
          /\ "failures" \in pool.first[o] <=> o # "ok"
          /\ {"passed", "failures"} \cap pool.second[o] = {}
    BY DEF Truthful
  <2>2. \A S : {"passed", "failures"} \cap S = {} =>
                "failures" \notin S /\ "passed" \notin S
    OBVIOUS
  <2> QED
    BY <2>1, <2>2
<1>4. Due("failures") = done["bad"] + done["none"]
  BY <1>1, <1>3 DEF Due, Outcome
<1>5. ASSUME instr.judge = "suite"
      PROVE  Due("passed") = done["ok"]
  <2>1. \A o \in Outcome : "passed" \in pool.first[o] <=> o = "ok"
    BY <1>5 DEF Truthful
  <2> QED
    BY <1>1, <1>3, <2>1 DEF Due, Outcome
<1> QED
  BY <1>1, <1>2, <1>4, <1>5

(* Nothing happens that the results depend on. *)
LEMMA FactsSame ==
  ASSUME Facts, broken' = broken \/ broken' = TRUE,
         UNCHANGED <<acc, called, flawed, exit, todo, pool, done>>
  PROVE  Facts'
<1>1. Failed' = Failed
  BY DEF Failed
<1> QED
  BY <1>1 DEF Facts

(* An instruction that is no function is over. *)
LEMMA FactsPass ==
  ASSUME Facts, exit = "running", todo # <<>>, Head(todo).op # "run",
         Tail(todo) # <<>> \/ ~acc.failures,
         broken' = broken \/ broken' = TRUE, todo' = Tail(todo),
         UNCHANGED <<acc, called, flawed, exit>>
  PROVE  Facts'
<1>1. ~called
  BY DEF Facts
<1> QED
  BY <1>1 DEF Facts

(* The program leaves by os.Exit(1). *)
LEMMA FactsExit ==
  ASSUME Facts, exit = "running", todo # <<>>, Head(todo).op # "run",
         broken' = TRUE, exit' = "1", UNCHANGED <<acc, called, flawed, todo>>
  PROVE  Facts'
<1>1. ~called
  BY DEF Facts
<1> QED
  BY <1>1 DEF Facts

(* What the counters add to the results. *)
LEMMA FactsCollect ==
  ASSUME PoolInv, MadeInv, ScriptInv, TestInv, Collect
  PROVE  Facts'
<1> DEFINE e == Head(todo)
<1>1. /\ exit = "running" /\ todo # <<>> /\ e.op = "run" /\ called
      /\ main = "over" /\ acc' = Judged(e.judge)
      /\ todo' = Tail(todo) /\ called' = FALSE
      /\ UNCHANGED <<exit, broken, flawed>>
  BY DEF Collect, At, Instr
<1>2. Facts /\ Truthful(e) /\ Tail(todo) # <<>> /\ pool = e.fn
  BY <1>1, VerdictHead DEF TestInv, Facts
<1>3. /\ count["failures"] = done["bad"] + done["none"]
      /\ e.judge = "suite" => count["passed"] = done["ok"]
      /\ done["ok"] \in Nat /\ done["bad"] \in Nat /\ done["none"] \in Nat
  <2> HIDE DEF e
  <2> QED
    BY <1>1, <1>2, FailuresCounted
<1>4. count["failures"] > 0 <=> Failed
  BY <1>3 DEF Failed
<1>5. /\ acc \in [missing : BOOLEAN, failures : BOOLEAN, results : BOOLEAN]
      /\ acc.missing = acc.failures
      /\ flawed <=> acc.failures \/ Failed
  BY <1>1, <1>2 DEF Facts
<1>6. /\ acc' \in [missing : BOOLEAN, failures : BOOLEAN, results : BOOLEAN]
      /\ acc'.missing = acc'.failures
      /\ acc'.failures <=> acc.failures \/ Failed
  <2>1. CASE e.judge = "test"
    <3>1. acc' = [acc EXCEPT !.missing = @ \/ count["failures"] > 0,
                             !.failures = @ \/ count["failures"] > 0]
      BY <1>1, <2>1 DEF Judged
    <3> QED
      BY <1>4, <1>5, <3>1
  <2>2. CASE e.judge = "suite"
    <3>1. acc' = [acc EXCEPT !.missing = @ \/ count["passed"] # Requested(pool),
                             !.failures = @ \/ count["failures"] > 0]
      BY <1>1, <2>2 DEF Judged
    <3>2. pool.loop \in {"once", "count"} /\ ~pool.stops
      BY <1>2, <2>2 DEF Truthful
    <3>3. done["ok"] + done["bad"] + done["none"] = Requested(pool)
      BY <1>1, <3>2, AllMade
    <3>4. count["passed"] # Requested(pool) <=> Failed
      BY <1>3, <2>2, <3>3 DEF Failed
    <3> QED
      BY <1>4, <1>5, <3>1, <3>4
  <2> QED
    BY <1>2, <2>1, <2>2 DEF Truthful
<1> QED
  BY <1>1, <1>2, <1>5, <1>6 DEF Facts

(* A request ends, and only the server or the network fails it. *)
LEMMA FactsReached ==
  ASSUME PoolInv, ScriptInv, TestInv, NEW w \in Worker, Reached(w)
  PROVE  Facts'
<1>1. /\ todo # <<>> /\ Head(todo).op = "run" /\ called
      /\ UNCHANGED <<acc, called, exit, todo>>
  BY DEF Reached, At, Instr
<1>2. PICK o \in Outcome :
        /\ \/ o \in Head(todo).verdicts /\ broken' = broken
           \/ broken' = TRUE
        /\ Reply(w, o) /\ flawed' = (flawed \/ o # "ok")
  BY DEF Reached, Instr
<1>3. Facts /\ Truthful(Head(todo))
  BY <1>1, VerdictHead DEF TestInv
<1>4. done' = [done EXCEPT ![o] = @ + 1] /\ pool' = pool
  BY <1>2 DEF Reply
<1>5. done \in [Outcome -> Nat]
  BY DEF PoolInv, PoolTypeOK
<1>6. Failed' <=> Failed \/ o # "ok"
  BY <1>4, <1>5 DEF Failed, Outcome
<1>7. o # "ok" => broken' = TRUE
  BY <1>2, <1>3 DEF Truthful
<1> QED
  BY <1>1, <1>2, <1>3, <1>4, <1>6, <1>7 DEF Facts

(* Stage k of a test on a connection begins, and everything it depends on  *)
(* has come; or the test is over.                                          *)
LEMMA EnterStage ==
  ASSUME ScriptInv, TestInv, At("raw"), NEW k, k = stage + 1, Enter(k),
         UNCHANGED <<exit, ext, proc>>, broken' = broken \/ broken' = TRUE,
         ~broken' => stage = 0 \/ Head(todo).stages[stage].await \in arrived
  PROVE  Conversation'
<1> DEFINE st == Head(todo).stages
<1>1. /\ exit = "running" /\ todo # <<>> /\ Head(todo).op = "raw"
  BY DEF At, Instr
<1>2. Answered(st)
  BY <1>1, VerdictHead DEF TestInv
<1>3. CASE k > Len(st)
  BY <1>3 DEF Enter, Instr, NoRaw, Conversation
<1>4. CASE ~(k > Len(st))
  <2>1. /\ stage' = k /\ UNCHANGED <<todo, arrived>>
        /\ due' = IF Up(Head(todo).srv) /\ st[k].needs \subseteq arrived
                    THEN due \cup st[k].sends ELSE due
    BY <1>4 DEF Enter, Instr
  <2>2. stage \in Nat /\ Len(st) \in Nat /\ k \in 1 .. Len(st)
    BY <1>2, <1>4 DEF TestInv, Conversation, Answered
  <2> HIDE DEF st
  <2>3. ASSUME ~broken', Up(Head(todo).srv)'
        PROVE  Heard(st)'
    <3>0. ~broken /\ Up(Head(todo).srv)
      BY <2>1, <2>3 DEF Up
    <3>1. stage > 0 => Heard(st)
      BY <3>0 DEF TestInv, Conversation, st
    <3>2. ASSUME NEW j \in 1 .. (k - 1)
          PROVE  st[j].await \in arrived
      <4>1. stage > 0 /\ j \in 1 .. stage
        BY <2>2
      <4>2. CASE j = stage
        BY <2>3, <4>1, <4>2 DEF st
      <4>3. CASE j # stage
        <5>1. j \in 1 .. (stage - 1)
          BY <2>2, <4>1, <4>3
        <5> QED
          BY <3>1, <4>1, <5>1 DEF Heard
      <4> QED
        BY <4>2, <4>3
    <3>3. st[k].needs \subseteq arrived
      <4>1. st[k].needs \subseteq {st[j].await : j \in 1 .. (k - 1)}
        BY <1>2, <2>2 DEF Answered
      <4> QED
        BY <3>2, <4>1
    <3>4. due' = due \cup st[k].sends
      BY <2>1, <3>0, <3>3
    <3>5. ASSUME NEW j \in 1 .. k
          PROVE  st[j].sends \subseteq due' \cup arrived
      <4>1. CASE j = k
        BY <3>4, <4>1
      <4>2. CASE j # k
        <5>1. stage > 0 /\ j \in 1 .. stage
          BY <2>2, <4>2
        <5> QED
          BY <3>1, <3>4, <5>1 DEF Heard
      <4> QED
        BY <4>1, <4>2
    <3>6. st' = st
      BY <2>1 DEF st
    <3> QED
      BY <2>1, <3>2, <3>5, <3>6 DEF Heard
  <2>4. stage' \in Nat /\ stage' <= Len(st)
    BY <2>1, <2>2
  <2> QED
    BY <1>1, <2>1, <2>3, <2>4 DEF Conversation, st
<1> QED
  BY <1>3, <1>4

(* A wait on a connection ends without what it waited for only when a      *)
(* server or the network fails.                                            *)
LEMMA ExpiryBreaks ==
  ASSUME ScriptInv, TestInv, Expire
  PROVE  broken' = TRUE
<1> DEFINE st == Head(todo).stages
<1>1. /\ todo # <<>> /\ Head(todo).op = "raw" /\ stage > 0
      /\ st[stage].await \notin arrived
      /\ broken' = (broken \/ ~Up(Head(todo).srv) \/ st[stage].await \in due)
  BY DEF Expire, At, Instr
<1>2. Answered(st)
  BY <1>1, VerdictHead DEF TestInv
<1>3. /\ stage \in 1 .. Len(st)
      /\ ~broken /\ Up(Head(todo).srv) => Heard(st)
  BY <1>1, <1>2 DEF TestInv, Conversation, Answered
<1> HIDE DEF st
<1>4. ASSUME ~broken, Up(Head(todo).srv)
      PROVE  st[stage].await \in due
  <2>1. st[stage].await \in UNION {st[j].sends : j \in 1 .. stage}
    BY <1>2, <1>3 DEF Answered
  <2>2. PICK j \in 1 .. stage : st[stage].await \in st[j].sends
    BY <2>1
  <2>3. st[j].sends \subseteq due \cup arrived
    BY <1>3, <1>4 DEF Heard
  <2> QED
    BY <1>1, <2>2, <2>3
<1> QED
  BY <1>1, <1>4

(* The test on a connection is left alone, or none is running. *)
LEMMA ConversationSame ==
  ASSUME Conversation, broken' = broken \/ broken' = TRUE,
         UNCHANGED <<todo, exit, stage, due, arrived>>,
         stage > 0 /\ ~broken' /\ Up(Head(todo).srv)' => Up(Head(todo).srv)
  PROVE  Conversation'
BY DEF Conversation, Heard

LEMMA ConversationNone ==
  ASSUME Conversation, exit = "running" => todo = <<>> \/ Head(todo).op # "raw",
         UNCHANGED stage
  PROVE  Conversation'
BY DEF Conversation

(* No server is started, and none that is awaited is given up. *)
LEMMA SteadySame ==
  ASSUME Steady, broken' = broken \/ broken' = TRUE, UNCHANGED ext,
         \A s \in Servers : proc'[s] = "starting" => proc[s] = "starting",
         \/ todo' = todo
         \/ todo # <<>> /\ Head(todo).op # "probe"
         \/ \A s \in Servers : ~ext[s] /\ Head(todo).srv = s => proc[s] # "starting"
  PROVE  Steady'
<1>1. CASE todo' = todo
  BY <1>1 DEF Steady
<1>2. CASE todo # <<>> /\ Head(todo).op # "probe"
  BY <1>2 DEF Steady
<1>3. CASE \A s \in Servers : ~ext[s] /\ Head(todo).srv = s => proc[s] # "starting"
  BY <1>3 DEF Steady
<1> QED
  BY <1>1, <1>2, <1>3

(* A step of a function or of its goroutines. *)
LEMMA TestRuns ==
  ASSUME PoolInv, MadeInv, ScriptInv, TestInv,
         Call \/ InPool \/ Collect \/ \E w \in Worker : Reached(w)
  PROVE  TestInv'
<1>1. /\ exit = "running" /\ todo # <<>> /\ Head(todo).op = "run"
      /\ UNCHANGED <<exit, ext, proc, stage, due, arrived>>
  BY DEF Call, InPool, Collect, Reached, At, Instr, mainVars
<1>2. broken' = broken \/ broken' = TRUE
  BY DEF Call, InPool, Collect, Reached, mainVars
<1>3. todo' = todo \/ todo' = Tail(todo)
  BY DEF Call, InPool, Collect, Reached, mainVars
<1>4. Verdict(todo)'
  BY <1>1, <1>3, VerdictTail DEF TestInv
<1>5. Conversation'
  BY <1>1, ConversationNone DEF TestInv
<1>6. Steady'
  BY <1>1, <1>2, SteadySame DEF TestInv
<1>7. Facts'
  <2>1. CASE Call
    <3>1. /\ Start(Head(todo).fn) /\ ~called /\ called' = TRUE
          /\ UNCHANGED <<acc, broken, flawed, todo>>
      BY <2>1 DEF Call, Instr
    <3>2. pool' = Head(todo).fn /\ done' = [o \in Outcome |-> 0]
      BY <3>1 DEF Start
    <3>3. ~Failed'
      BY <3>2 DEF Failed, Outcome
    <3> QED
      BY <1>1, <3>1, <3>2, <3>3 DEF TestInv, Facts
  <2>2. CASE InPool
    <3>1. pool' = pool /\ done' = done
      BY <2>2 DEF InPool, PoolStep, Spawn, AllSpawned, Waited, DeadlinePasses,
                  Goroutine, Begin, Ask, Tally1, Tally2, Release, Done
    <3> QED
      BY <2>2, <3>1, FactsSame DEF InPool, mainVars, TestInv
  <2>3. CASE Collect
    BY <2>3, FactsCollect
  <2>4. ASSUME NEW w \in Worker, Reached(w)
        PROVE  Facts'
    BY <2>4, FactsReached
  <2> QED
    BY <2>1, <2>2, <2>3, <2>4
<1> QED
  BY <1>4, <1>5, <1>6, <1>7 DEF TestInv

(* A step of a test on a connection. *)
LEMMA TestTalks ==
  ASSUME PoolInv, ScriptInv, TestInv,
         Dial \/ Awaited \/ Expire \/ \E e \in due : Arrive(e)
  PROVE  TestInv'
<1>1. /\ At("raw") /\ exit = "running" /\ todo # <<>> /\ Head(todo).op = "raw"
      /\ UNCHANGED <<called, exit, ext, proc, pool, done>>
  BY DEF Dial, Awaited, Expire, Arrive, At, Instr, poolVars
<1>2. Tail(todo) # <<>>
  BY <1>1, VerdictHead DEF TestInv
<1>3. broken' = broken \/ broken' = TRUE
  BY ExpiryBreaks DEF Dial, Awaited, Arrive
<1>4. todo' = todo \/ todo' = Tail(todo)
  BY DEF Dial, Awaited, Expire, Arrive, Enter
<1>5. Verdict(todo)'
  BY <1>1, <1>4, VerdictTail DEF TestInv
<1>6. Steady'
  BY <1>1, <1>3, SteadySame DEF TestInv
<1>7. Facts'
  <2>1. CASE UNCHANGED <<acc, flawed>>
    <3>1. CASE todo' = todo
      BY <1>1, <1>3, <2>1, <3>1, FactsSame DEF TestInv
    <3>2. CASE todo' = Tail(todo)
      BY <1>1, <1>2, <1>3, <2>1, <3>2, FactsPass DEF TestInv
    <3> QED
      BY <1>4, <3>1, <3>2
  <2>2. CASE ~UNCHANGED <<acc, flawed>>
    <3>1. Expire
      BY <2>2 DEF Dial, Awaited, Arrive
    <3>2. /\ acc' = [acc EXCEPT !.missing = TRUE, !.failures = TRUE]
          /\ flawed' = TRUE /\ todo' = Tail(todo)
      BY <2>2, <3>1 DEF Expire
    <3>3. broken' = TRUE
      BY <3>1, ExpiryBreaks
    <3>4. ~called
      BY <1>1 DEF TestInv, Facts
    <3> QED
      BY <1>1, <1>2, <3>2, <3>3, <3>4 DEF TestInv, Facts
  <2> QED
    BY <2>1, <2>2
<1>8. Conversation'
  <2>1. CASE Dial
    <3>1. stage = 0 /\ Enter(1) /\ 1 = stage + 1
      BY <2>1 DEF Dial
    <3> QED
      BY <1>1, <1>3, <3>1, EnterStage
  <2>2. CASE Awaited
    <3>1. Enter(stage + 1) /\ Head(todo).stages[stage].await \in arrived
      BY <2>2 DEF Awaited, Instr
    <3> QED
      BY <1>1, <1>3, <3>1, EnterStage
  <2>3. CASE Expire
    <3>1. broken' = TRUE
      BY <2>3, ExpiryBreaks
    <3>2. CASE Enter(stage + 1)
      BY <1>1, <3>1, <3>2, EnterStage
    <3>3. CASE NoRaw
      BY <3>3 DEF NoRaw, Conversation
    <3> QED
      BY <2>3, <3>2, <3>3 DEF Expire
  <2>4. ASSUME NEW e \in due, Arrive(e)
        PROVE  Conversation'
    <3>1. /\ due' = due \ {e} /\ arrived' = arrived \cup {e}
          /\ UNCHANGED <<todo, stage, broken>>
      BY <2>4 DEF Arrive
    <3>2. arrived \subseteq arrived' /\ due' \cup arrived' = due \cup arrived
      BY <2>4, <3>1
    <3>3. Up(Head(todo).srv)' = Up(Head(todo).srv)
      BY <1>1, <3>1 DEF Up
    <3> QED
      BY <1>1, <3>1, <3>2, <3>3 DEF TestInv, Conversation, Heard
  <2> QED
    BY <2>1, <2>2, <2>3, <2>4
<1> QED
  BY <1>5, <1>6, <1>7, <1>8 DEF TestInv

(* A server is started or awaited, or the results decide. *)
LEMMA TestDecides ==
  ASSUME ProgramInv, TestInv, Check \/ StartServer \/ Decide \/ Return
  PROVE  TestInv'
<1> DEFINE e == Head(todo)
<1>1. /\ exit = "running" /\ Facts /\ Conversation /\ Steady /\ ScriptInv
      /\ Verdict(todo)
      /\ UNCHANGED <<called, ext, acc, stage, due, arrived, flawed, pool, done>>
  BY DEF Check, StartServer, Decide, Return, At, poolVars, TestInv, ProgramInv
<1>2. broken' = broken \/ broken' = TRUE
  BY DEF Check, StartServer, Decide, Return
<1>3. ASSUME Leave("1") \/ Leave("0")
      PROVE  \A s \in Servers : proc'[s] = "starting" => proc[s] = "starting"
  BY <1>3 DEF Leave
<1>4. ASSUME todo # <<>>, e.op \in {"probe", "exec", "exitIf"}, osExit,
             broken' = TRUE
      PROVE  TestInv'
  <2>1. exit' = "1" /\ todo' = todo /\ Leave("1")
    BY <1>4 DEF osExit, Leave
  <2>2. Facts'
    BY <1>1, <1>4, <2>1, FactsExit
  <2>3. Conversation'
    BY <1>1, <1>4, ConversationNone
  <2>4. Steady'
    BY <1>1, <1>2, <1>3, <2>1, SteadySame
  <2> QED
    BY <1>1, <2>1, <2>2, <2>3, <2>4 DEF TestInv
<1>5. ASSUME todo # <<>>, e.op \in {"probe", "exec", "exitIf"},
             todo' = Tail(todo), UNCHANGED exit, Steady',
             e.op = "exitIf" => ~acc.failures
      PROVE  TestInv'
  <2>1. Tail(todo) # <<>> \/ ~acc.failures
    BY <1>1, <1>5, VerdictHead
  <2>2. Facts'
    BY <1>1, <1>2, <1>5, <2>1, FactsPass
  <2>3. Conversation'
    BY <1>1, <1>5, ConversationNone
  <2>4. Verdict(todo)'
    BY <1>1, <1>5, VerdictTail
  <2> QED
    BY <1>5, <2>2, <2>3, <2>4 DEF TestInv
<1>6. CASE Check
  <2>1. todo # <<>> /\ e.op = "probe"
    BY <1>6 DEF Check, At, Instr
  <2>2. CASE osExit /\ broken' = TRUE
    BY <1>4, <2>1, <2>2
  <2>3. CASE Up(e.srv) /\ Pass
    <3>1. todo' = Tail(todo) /\ UNCHANGED <<exit, proc>>
      BY <2>3 DEF Pass
    <3>2. \A s \in Servers : ~ext[s] /\ e.srv = s => proc[s] # "starting"
      BY <2>3 DEF Up
    <3>3. Steady'
      BY <1>1, <1>2, <3>1, <3>2, SteadySame
    <3> QED
      BY <1>5, <2>1, <3>1, <3>3
  <2> QED
    BY <1>6, <2>2, <2>3 DEF Check, Instr
<1>7. CASE StartServer
  <2>1. todo # <<>> /\ e.op = "exec"
    BY <1>7 DEF StartServer, At, Instr
  <2>2. /\ e.skip = 0 /\ e.srv \in Servers /\ Tail(todo) # <<>>
        /\ Head(Tail(todo)).op = "probe" /\ Head(Tail(todo)).srv = e.srv
    BY <1>1, <2>1, VerdictHead
  <2>3. CASE osExit /\ broken' = TRUE
    BY <1>4, <2>1, <2>3
  <2>4. CASE /\ proc' = [proc EXCEPT ![e.srv] = "starting"]
             /\ todo' = Tail(todo) /\ UNCHANGED <<exit, broken>>
    <3>1. \A s \in Servers : ~broken /\ ~ext[s] => proc[s] # "starting"
      BY <1>1, <2>1 DEF Steady
    <3>2. \A s \in Servers : s # e.srv => proc'[s] = proc[s]
      BY <2>4 DEF ProgramInv, ProcInv
    <3>3. Steady'
      BY <1>1, <2>2, <2>4, <3>1, <3>2 DEF Steady
    <3> QED
      BY <1>5, <2>1, <2>4, <3>3
  <2> QED
    BY <1>7, <2>2, <2>3, <2>4 DEF StartServer, Instr
<1>8. CASE Decide
  <2>1. todo # <<>> /\ e.op = "exitIf" /\ UNCHANGED broken
    BY <1>8 DEF Decide, At, Instr
  <2>2. e.fact \in {"failures", "missing"}
    BY <1>1, <2>1, VerdictHead
  <2>3. Holds(e.fact) = acc.failures
    BY <1>1, <2>2 DEF Holds, Facts
  <2>4. CASE acc.failures
    <3>1. osExit
      BY <1>8, <2>3, <2>4 DEF Decide, Instr
    <3>2. broken' = TRUE
      BY <1>1, <2>1, <2>4 DEF Facts
    <3> QED
      BY <1>4, <2>1, <3>1, <3>2
  <2>5. CASE ~acc.failures
    <3>1. todo' = Tail(todo) /\ UNCHANGED <<exit, proc>>
      BY <1>8, <2>3, <2>5 DEF Decide, Instr, Pass
    <3>2. Steady'
      BY <1>1, <1>2, <2>1, <3>1, SteadySame
    <3> QED
      BY <1>5, <2>1, <2>5, <3>1, <3>2
  <2> QED
    BY <2>4, <2>5
<1>9. CASE Return
  <2>1. todo = <<>> /\ Leave("0") /\ exit' = "0" /\ UNCHANGED <<todo, broken>>
    BY <1>9 DEF Return, Leave
  <2>2. ~called /\ ~flawed
    BY <1>1, <2>1 DEF Facts
  <2>3. Facts'
    BY <1>1, <2>1, <2>2 DEF Facts
  <2>4. Conversation'
    BY <1>1, <2>1, ConversationNone
  <2>5. Steady'
    BY <1>1, <1>2, <1>3, <2>1, SteadySame
  <2> QED
    BY <1>1, <2>1, <2>3, <2>4, <2>5 DEF TestInv
<1> QED
  BY <1>6, <1>7, <1>8, <1>9

(* The environment's step: a server listens at last, or dies. *)
LEMMA TestWorld ==
  ASSUME ProgramInv, TestInv, NEW srv \in Servers, Boot(srv) \/ Crash(srv)
  PROVE  TestInv'
<1>1. /\ exit = "running" /\ Facts /\ Conversation /\ Steady /\ ScriptInv
      /\ UNCHANGED <<todo, exit, called, acc, stage, due, arrived, flawed, pool,
                     done>>
  BY DEF Boot, Crash, poolVars, TestInv, ProgramInv
<1>2. broken' = broken \/ broken' = TRUE
  BY DEF Boot, Crash
<1>3. Facts'
  BY <1>1, <1>2, FactsSame
<1>4. Verdict(todo)'
  BY <1>1 DEF TestInv
<1>5. CASE Boot(srv)
  <2>1. /\ proc[srv] = "starting" /\ proc' = [proc EXCEPT ![srv] = "alive"]
        /\ UNCHANGED <<ext, broken>>
    BY <1>5 DEF Boot
  <2>2. /\ \A s \in Servers : s # srv => proc'[s] = proc[s]
        /\ proc'[srv] = "alive"
    BY <2>1 DEF ProgramInv, ProcInv
  <2>3. Steady'
    BY <1>1, <1>2, <2>1, <2>2, SteadySame
  <2>4. ASSUME stage > 0, ~broken', Up(Head(todo).srv)'
        PROVE  Up(Head(todo).srv)
    <3>1. todo # <<>> /\ Head(todo).op = "raw"
      BY <1>1, <2>4 DEF Conversation
    <3>2. Head(todo).srv \in Servers
      BY <1>1, <3>1, VerdictHead DEF TestInv
    <3>3. CASE Head(todo).srv = srv
      BY <1>1, <2>1, <2>4, <3>1, <3>3 DEF Steady, Up
    <3>4. CASE Head(todo).srv # srv
      BY <1>1, <2>1, <2>2, <2>4, <3>2, <3>4 DEF Up
    <3> QED
      BY <3>3, <3>4
  <2>5. Conversation'
    BY <1>1, <1>2, <2>4, ConversationSame
  <2> QED
    BY <1>3, <1>4, <2>3, <2>5 DEF TestInv
<1>6. CASE Crash(srv)
  <2>1. broken' = TRUE /\ ext' \in [Servers -> BOOLEAN]
    BY <1>1, <1>6 DEF Crash, Steady
  <2>2. Conversation' /\ Steady'
    BY <1>1, <2>1 DEF Conversation, Steady
  <2> QED
    BY <1>3, <1>4, <2>2 DEF TestInv
<1> QED
  BY <1>5, <1>6

LEMMA TruthStep ==
  ASSUME PoolInv, MadeInv, ProgramInv, TruthInv, [Next]_vars
  PROVE  TruthInv'
<1>1. prog' = prog
  BY DEF Next, MainStep, Call, InPool, Collect, Dial, Awaited, Check,
         ListenAndServe, StartServer, StopServer, Decide, Return, Expire,
         Reached, Arrive, Boot, Crash, Terminated, vars, mainVars
<1> SUFFICES ASSUME TestInv
             PROVE  TestInv'
  BY <1>1 DEF TruthInv
<1>2. ScriptInv
  BY DEF ProgramInv
<1>3. CASE Call \/ InPool \/ Collect \/ \E w \in Worker : Reached(w)
  BY <1>2, <1>3, TestRuns
<1>4. CASE Dial \/ Awaited \/ Expire \/ \E e \in due : Arrive(e)
  BY <1>2, <1>4, TestTalks
<1>5. CASE Check \/ StartServer \/ Decide \/ Return
  BY <1>5, TestDecides
<1>6. CASE ListenAndServe \/ StopServer
  <2>1. todo # <<>> /\ Head(todo).op \in {"inline", "kill"}
    BY <1>6 DEF ListenAndServe, StopServer, At, Instr
  <2> QED
    BY <1>2, <2>1, VerdictHead DEF TestInv
<1>7. ASSUME NEW srv \in Servers, Boot(srv) \/ Crash(srv)
      PROVE  TestInv'
  BY <1>7, TestWorld
<1>8. CASE Terminated \/ UNCHANGED vars
  <2>1. UNCHANGED <<todo, exit, called, acc, stage, due, arrived, flawed, pool,
                    done, ext, proc, broken>>
    BY <1>8 DEF Terminated, vars, mainVars, poolVars
  <2>2. Facts'
    BY <2>1, FactsSame DEF TestInv
  <2>3. Conversation'
    BY <2>1, ConversationSame DEF TestInv, Up
  <2>4. Steady'
    BY <2>1, SteadySame DEF TestInv
  <2> QED
    BY <2>1, <2>2, <2>3, <2>4 DEF TestInv
<1> QED
  BY <1>3, <1>4, <1>5, <1>6, <1>7, <1>8 DEF Next, MainStep

(* The exit code of a test program tells the truth, whatever the servers   *)
(* and the network do: 0 only if no request and no test failed, 1 only if  *)
(* a server or the network failed it, and the list of failures of main.go  *)
(* agrees with cross_test's passed # total.                                *)
THEOREM ClientExitTells == Spec => []ExitTells
<1> DEFINE Inv == PoolInv /\ MadeInv /\ ProgramInv /\ TruthInv
<1>1. Init => Inv
  <2> SUFFICES ASSUME Init
               PROVE  Inv
    OBVIOUS
  <2>1. PoolInit
    BY DEF Init
  <2>2. MadeInv
    BY <2>1, MadeFresh DEF PoolInit
  <2> QED
    BY <2>1, <2>2, PoolStarts, ProgramStarts, TruthStarts
<1>2. Inv /\ [Next]_vars => Inv'
  BY ClientStep, PoolKeeps, MadeStep, ProgramStep, TruthStep
<1>3. Inv => ExitTells
  BY DEF TruthInv, TestInv, Facts, ExitTells
<1> HIDE DEF Inv
<1> QED
  BY <1>1, <1>2, <1>3, PTL DEF Spec
=============================================================================
