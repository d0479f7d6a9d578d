--------------------------- MODULE RecoveryProofs ---------------------------
(***************************************************************************)
(* What holds of the congestion window for every number of packets, every  *)
(* packet size and every value of the round-trip estimator.                *)
(***************************************************************************)
EXTENDS Recovery, FiniteSetTheorems, WellFoundedInduction, TLAPS

(* What the window depends on.  The bytes in flight are a sum over a set,  *)
(* which plays no part in it.                                              *)
WindowType ==
  /\ congestion_window \in Nat
  /\ ssthresh \in Nat \cup {Infinity}
  /\ pto_count \in Nat
  /\ pto_base \in PtoBases
  /\ \A p \in sent_packets : p.age \in Nat

(* The inductive invariant: the floor, with the types it needs. *)
WindowInv == WindowType /\ WindowFloor

-----------------------------------------------------------------------------
(* Whatever the backoff has come to, the probe timeout is an integer. *)
LEMMA PtoTimeoutInt ==
  ASSUME WindowType
  PROVE  PtoTimeout \in Int
<1>1. pto_base \in Int
  BY RecoveryAssumption DEF WindowType
<1>2. Backoff(pto_count) \in Int
  <2>1. pto_count \in Nat
    BY DEF WindowType
  <2>2. CASE pto_count < 3
    <3>1. pto_count = 0 \/ pto_count = 1 \/ pto_count = 2
      BY <2>1, <2>2
    <3>2. <<1, 2, 4>>[pto_count + 1] \in Int
      BY <3>1
    <3> QED
      BY <2>1, <2>2, <3>2 DEF Backoff
  <2>3. CASE ~(pto_count < 3)
    BY <2>1, <2>3 DEF Backoff
  <2> QED
    BY <2>2, <2>3
<1> QED
  BY <1>1, <1>2 DEF PtoTimeout

(* An acknowledgement leaves NewReno's window as it is or grows it, and    *)
(* BBR's at least at its floor.                                            *)
LEMMA AckedWindow ==
  ASSUME WindowInv, NEW packets, NEW cwnd \in WindowsAfterAck(packets)
  PROVE  /\ cwnd \in Nat
         /\ cwnd >= MinWindow
         /\ ~Bbr => cwnd >= congestion_window
<1>1. congestion_window \in Nat /\ congestion_window >= MinWindow
  BY DEF WindowInv, WindowType, WindowFloor
<1>2. CASE packets = {}
  BY <1>1, <1>2 DEF WindowsAfterAck
<1>3. CASE packets # {} /\ Bbr
  <2> DEFINE bytes == SumBytes({p \in packets : AfterRecovery(p)})
  <2>1. cwnd \in {congestion_window} \cup
                   (BbrMinWindow .. (BbrMinWindow + bytes))
    BY <1>3 DEF WindowsAfterAck
  <2> HIDE DEF bytes
  <2> QED
    BY <1>1, <1>3, <2>1, RecoveryAssumption
<1>4. CASE packets # {} /\ ~Bbr
  <2> DEFINE grown == congestion_window
                        + SumBytes({p \in packets : AfterRecovery(p)})
  <2>1. cwnd \in congestion_window .. grown
    BY <1>4 DEF WindowsAfterAck
  <2> HIDE DEF grown
  <2> QED
    BY <1>1, <1>4, <2>1, RecoveryAssumption
<1> QED
  BY <1>2, <1>3, <1>4

(* An ECN mark halves the window, but not below the floor. *)
LEMMA EcnWindow ==
  ASSUME NEW cwnd \in Nat
  PROVE  /\ EcnReduced(cwnd) \in Nat
         /\ EcnReduced(cwnd) >= MinWindow
         /\ EcnReduced(cwnd) >= cwnd \div 2
BY RecoveryAssumption DEF EcnReduced, Larger

(* The packets that the loss alarm finds were all sent within one probe    *)
(* timeout, for otherwise tick would have served the probe timeout first.  *)
LEMMA NoPersistentLoss ==
  ASSUME WindowType, ~PtoDue, NEW p \in LostPackets, NEW q \in LostPackets
  PROVE  ~(p.age - q.age >= 3 * PtoTimeout)
<1>1. PtoTimeout \in Int
  BY PtoTimeoutInt
<1>2. p.age \in Nat /\ q.age \in Nat
  BY DEF LostPackets, WindowType
<1>3. ~(p.age >= PtoTimeout) /\ ~(q.age >= PtoTimeout)
  BY DEF LostPackets, PtoDue
<1> QED
  BY <1>1, <1>2, <1>3

(* The loss alarm leaves the window alone or halves it, but not below the  *)
(* floor.                                                                  *)
LEMMA LostWindow ==
  ASSUME WindowInv, TickLoss
  PROVE  /\ congestion_window' \in Nat
         /\ congestion_window' >= MinWindow
         /\ congestion_window' >= congestion_window \div 2
         /\ ssthresh' \in Nat \cup {Infinity}
         /\ ssthresh' # Infinity => ssthresh' >= MinWindow
<1>1. /\ congestion_window \in Nat
      /\ congestion_window >= MinWindow
      /\ ssthresh \in Nat \cup {Infinity}
      /\ ssthresh # Infinity => ssthresh >= MinWindow
  BY DEF WindowInv, WindowType, WindowFloor
<1>2. CASE LostPackets = {}
  <2>1. UNCHANGED cwndVars
    BY <1>2 DEF TickLoss, LossAlarm
  <2> QED
    BY <1>1, <2>1 DEF cwndVars
<1>3. CASE LostPackets # {}
  <2> DEFINE half == Larger(congestion_window \div 2, MinWindow)
  <2>1. OnLoss(LostPackets)
    BY <1>3 DEF TickLoss, LossAlarm
  <2>2. ~(\E p, q \in LostPackets : p.age - q.age >= 3 * PtoTimeout)
    BY NoPersistentLoss DEF TickLoss, WindowInv
  <2>3. /\ congestion_window' = half \/ congestion_window' = congestion_window
        /\ ssthresh' = half \/ ssthresh' = ssthresh
    BY <2>1, <2>2 DEF OnLoss
  <2>4. half \in Nat /\ half >= MinWindow /\ half >= congestion_window \div 2
    BY <1>1, RecoveryAssumption DEF Larger
  <2> HIDE DEF half
  <2> QED
    BY <1>1, <2>3, <2>4, RecoveryAssumption DEF Infinity
<1> QED
  BY <1>2, <1>3

(* The same for an acknowledgement: it grows the window, or halves it for  *)
(* an ECN mark.                                                            *)
LEMMA AnsweredWindow ==
  ASSUME WindowInv,
         NEW sp, NEW lo, NEW hi, NEW ce \in BOOLEAN,
         OnAckReceived(sp, lo, hi, ce)
  PROVE  /\ congestion_window' \in Nat
         /\ congestion_window' >= MinWindow
         /\ ~Bbr => congestion_window' >= congestion_window \div 2
         /\ ssthresh' \in Nat \cup {Infinity}
         /\ ssthresh' # Infinity => ssthresh' >= MinWindow
<1> DEFINE acked ==
      {p \in sent_packets : p.sp = sp /\ lo <= p.pn /\ p.pn <= hi}
<1>1. PICK cwnd \in WindowsAfterAck(acked) :
         IF ce THEN /\ congestion_window' = EcnReduced(cwnd)
                    /\ ssthresh' = EcnReduced(cwnd)
                    /\ recovery_age' = 0
               ELSE /\ congestion_window' = cwnd
                    /\ UNCHANGED <<ssthresh, recovery_age>>
  BY DEF OnAckReceived
<1> HIDE DEF acked
<1>2. cwnd \in Nat /\ cwnd >= MinWindow /\ (~Bbr => cwnd >= congestion_window)
  BY AckedWindow
<1>3. /\ EcnReduced(cwnd) \in Nat
      /\ EcnReduced(cwnd) >= MinWindow
      /\ EcnReduced(cwnd) >= cwnd \div 2
  BY <1>2, EcnWindow
<1>4. /\ congestion_window \in Nat
      /\ ssthresh \in Nat \cup {Infinity}
      /\ ssthresh # Infinity => ssthresh >= MinWindow
  BY DEF WindowInv, WindowType, WindowFloor
<1>5. CASE ce
  BY <1>1, <1>2, <1>3, <1>4, <1>5, RecoveryAssumption
<1>6. CASE ~ce
  BY <1>1, <1>2, <1>4, <1>6, RecoveryAssumption
<1> QED
  BY <1>5, <1>6

-----------------------------------------------------------------------------
(* The window starts above its floor. *)
LEMMA InitWindow == Init => WindowInv
BY RecoveryAssumption DEF Init, WindowInv, WindowType, WindowFloor, Infinity

(* Every step keeps the window above its floor. *)
LEMMA StepWindow ==
  ASSUME WindowInv, [Next]_vars
  PROVE  WindowInv'
<1> USE DEF WindowInv
<1>1. ASSUME NEW sp \in Spaces, NEW bytes \in Sizes, OnPacketSent(sp, bytes)
      PROVE  WindowInv'
  <2>1. UNCHANGED <<congestion_window, ssthresh, pto_count, pto_base>>
    BY <1>1 DEF OnPacketSent, cwndVars, rttVars
  <2>2. \A p \in sent_packets' : p.age \in Nat
    BY <1>1 DEF OnPacketSent, WindowType
  <2> QED
    BY <2>1, <2>2 DEF WindowType, WindowFloor
<1>2. ASSUME NEW sp \in Spaces, NEW lo \in 0 .. MaxPn, NEW hi \in 0 .. MaxPn,
             NEW ce \in BOOLEAN, OnAckReceived(sp, lo, hi, ce)
      PROVE  WindowInv'
  <2>1. /\ congestion_window' \in Nat
        /\ congestion_window' >= MinWindow
        /\ ssthresh' \in Nat \cup {Infinity}
        /\ ssthresh' # Infinity => ssthresh' >= MinWindow
    BY <1>2, AnsweredWindow
  <2>2. pto_count' = 0
    BY <1>2 DEF OnAckReceived
  <2>3. pto_base' \in PtoBases
    BY <1>2 DEF OnAckReceived, rttVars, WindowType
  <2>4. \A p \in sent_packets' : p.age \in Nat
    BY <1>2 DEF OnAckReceived, WindowType
  <2> QED
    BY <2>1, <2>2, <2>3, <2>4 DEF WindowType, WindowFloor
<1>3. CASE CompleteHandshake
  BY <1>3 DEF CompleteHandshake, cwndVars, rttVars, WindowType, WindowFloor
<1>4. CASE TickPto
  <2>1. UNCHANGED <<congestion_window, ssthresh, pto_base>>
    BY <1>4 DEF TickPto, cwndVars, rttVars
  <2>2. pto_count' = pto_count + 1 /\ sent_packets' = {}
    BY <1>4 DEF TickPto
  <2> QED
    BY <2>1, <2>2 DEF WindowType, WindowFloor
<1>5. CASE TickLoss
  <2>1. /\ congestion_window' \in Nat
        /\ congestion_window' >= MinWindow
        /\ ssthresh' \in Nat \cup {Infinity}
        /\ ssthresh' # Infinity => ssthresh' >= MinWindow
    BY <1>5, LostWindow
  <2>2. UNCHANGED <<pto_count, pto_base>>
    BY <1>5 DEF TickLoss, LossAlarm, rttVars
  <2>3. \A p \in sent_packets' : p.age \in Nat
    BY <1>5 DEF TickLoss, LossAlarm, WindowType
  <2> QED
    BY <2>1, <2>2, <2>3 DEF WindowType, WindowFloor
<1>6. CASE Wait
  <2>1. UNCHANGED <<congestion_window, ssthresh, pto_count, pto_base>>
    BY <1>6 DEF Wait, rttVars
  <2>2. \A p \in sent_packets : Older(p.age) \in Nat
    BY RecoveryAssumption DEF WindowType, Older, Smaller, Never
  <2>3. \A p \in sent_packets' : p.age \in Nat
    <3>1. SUFFICES ASSUME NEW p \in sent_packets
                   PROVE  [p EXCEPT !.age = Older(@)].age \in Nat
      BY <1>6 DEF Wait
    <3> QED
      BY <2>2
  <2> QED
    BY <2>1, <2>3 DEF WindowType, WindowFloor
<1>7. CASE UNCHANGED vars
  BY <1>7 DEF vars, WindowType, WindowFloor
<1>8. CASE Traffic
  BY <1>8 DEF Traffic, cwndVars, rttVars, WindowType, WindowFloor
<1> QED
  BY <1>1, <1>2, <1>3, <1>4, <1>5, <1>6, <1>7, <1>8 DEF Next

(* For every run of the recovery code, the congestion window and the slow  *)
(* start threshold stay at MIN_WINDOW or above.                            *)
THEOREM WindowFloorHolds == Spec => []WindowFloor
<1>1. Init => WindowInv
  BY InitWindow
<1>2. WindowInv /\ [Next]_vars => WindowInv'
  BY StepWindow
<1>3. WindowInv => WindowFloor
  BY DEF WindowInv
<1> QED
  BY <1>1, <1>2, <1>3, PTL DEF Spec

(* No step of NewReno takes more than half of the window: the collapse on  *)
(* persistent congestion cannot be reached through tick.                   *)
THEOREM HalvedAtMostHolds == Spec => HalvedAtMost
<1>1. Init => WindowInv
  BY InitWindow
<1>2. WindowInv /\ [Next]_vars => WindowInv'
  BY StepWindow
<1>3. WindowInv /\ [Next]_vars =>
        [~Bbr => congestion_window' >= congestion_window \div 2]_vars
  <2> SUFFICES ASSUME WindowInv, Next, ~Bbr
               PROVE  congestion_window' >= congestion_window \div 2
    OBVIOUS
  <2>1. congestion_window \in Nat
    BY DEF WindowInv, WindowType
  <2>2. CASE UNCHANGED congestion_window
    BY <2>1, <2>2
  <2>3. ASSUME NEW sp \in Spaces, NEW lo \in 0 .. MaxPn, NEW hi \in 0 .. MaxPn,
               NEW ce \in BOOLEAN, OnAckReceived(sp, lo, hi, ce)
        PROVE  congestion_window' >= congestion_window \div 2
    BY <2>3, AnsweredWindow
  <2>4. CASE TickLoss
    BY <2>4, LostWindow
  <2>5. ASSUME \/ \E sp \in Spaces : \E bytes \in Sizes : OnPacketSent(sp, bytes)
               \/ CompleteHandshake \/ Traffic \/ TickPto \/ Wait
        PROVE  UNCHANGED congestion_window
    BY <2>5 DEF OnPacketSent, CompleteHandshake, Traffic, TickPto, Wait,
                cwndVars
  <2> QED
    BY <2>2, <2>3, <2>4, <2>5 DEF Next
<1> QED
  BY <1>1, <1>2, <1>3, PTL DEF Spec, HalvedAtMost

-----------------------------------------------------------------------------
(* The sum of the packets' bytes is the number of their bytes, so that what *)
(* is known of cardinalities carries over to sums and folds.                *)
Pick(S) == CHOOSE x \in S : TRUE
Weighed(S) == IsFiniteSet(S) /\ \A p \in S : p.bytes \in Nat
BytesOf(S) == {b \in S \X Nat : b[2] < b[1].bytes}

(* The recursions behind SumBytes and Without, each over the subsets of the *)
(* set it is applied to.                                                    *)
SumRule(g, S) ==
  g = [T \in SUBSET S |->
         IF T = {} THEN 0 ELSE Pick(T).bytes + g[T \ {Pick(T)}]]

TakeRule(g, flight, S) ==
  g = [T \in SUBSET S |->
         IF T = {} THEN flight
         ELSE IF g[T \ {Pick(T)}] >= Pick(T).bytes
              THEN g[T \ {Pick(T)}] - Pick(T).bytes
              ELSE g[T \ {Pick(T)}]]

(* SumBytes and Without are what their recursions say. *)
LEMMA SumIsRule ==
  ASSUME NEW S
  PROVE  SumBytes(S) = (CHOOSE g : SumRule(g, S))[S]
BY DEF SumBytes, MapThenSumSet, MapThenFoldSet, SumRule, Pick

LEMMA WithoutIsRule ==
  ASSUME NEW flight, NEW S
  PROVE  Without(flight, S) = (CHOOSE g : TakeRule(g, flight, S))[S]
BY DEF Without, FoldSet, MapThenFoldSet, TakeRule, Pick

(* Of any subsets of a finite set, one has no other below it. *)
LEMMA SmallestSet ==
  ASSUME NEW S, IsFiniteSet(S), NEW F, F \subseteq SUBSET S, F # {}
  PROVE  \E T \in F : \A U \in F : U \subseteq T => U = T
<1>1. FiniteSubsetsOf(S) = SUBSET S
  BY FS_FiniteSubsetsOfFinite
<1>2. IsWellFoundedOn(StrictSubsetOrdering(S), SUBSET S)
  BY <1>1, FS_StrictSubsetOrderingWellFounded
<1>3. PICK T \in F : \A U \in F : ~(<<U, T>> \in StrictSubsetOrdering(S))
  BY <1>2, WFMin
<1> QED
  BY <1>3 DEF StrictSubsetOrdering

(* The bytes of one packet. *)
LEMMA BytesOfOne ==
  ASSUME NEW p, p.bytes \in Nat
  PROVE  /\ IsFiniteSet(BytesOf({p}))
         /\ Cardinality(BytesOf({p})) = p.bytes
<1> DEFINE f == [i \in 0 .. (p.bytes - 1) |-> <<p, i>>]
<1>1. f \in Bijection(0 .. (p.bytes - 1), BytesOf({p}))
  <2>1. f \in [0 .. (p.bytes - 1) -> BytesOf({p})]
    BY DEF BytesOf
  <2>2. \A i, j \in 0 .. (p.bytes - 1) : f[i] = f[j] => i = j
    OBVIOUS
  <2>3. \A b \in BytesOf({p}) : \E i \in 0 .. (p.bytes - 1) : f[i] = b
    <3> SUFFICES ASSUME NEW b \in BytesOf({p})
                 PROVE  \E i \in 0 .. (p.bytes - 1) : f[i] = b
      OBVIOUS
    <3>1. b = <<p, b[2]>> /\ b[2] \in 0 .. (p.bytes - 1)
      BY DEF BytesOf
    <3> QED
      BY <3>1
  <2> QED
    BY <2>1, <2>2, <2>3 DEF Bijection, Injection, Surjection, IsInjective
<1>2. ExistsBijection(0 .. (p.bytes - 1), BytesOf({p}))
  BY <1>1 DEF ExistsBijection
<1>3. /\ IsFiniteSet(0 .. (p.bytes - 1))
      /\ Cardinality(0 .. (p.bytes - 1)) = p.bytes
  <2> DEFINE n == p.bytes - 1
  <2>1. n \in Int /\ p.bytes = n + 1 /\ (0 > n => n + 1 = 0)
    OBVIOUS
  <2> HIDE DEF n
  <2>2. /\ IsFiniteSet(0 .. n)
        /\ Cardinality(0 .. n) = IF 0 > n THEN 0 ELSE n - 0 + 1
    BY <2>1, FS_Interval
  <2>3. Cardinality(0 .. n) = n + 1
    BY <2>1, <2>2
  <2> QED
    BY <2>1, <2>2, <2>3 DEF n
<1> QED
  BY <1>2, <1>3, FS_Bijection

(* The bytes of two sets of packets that share none. *)
LEMMA BytesOfBoth ==
  ASSUME NEW S, NEW T, S \cap T = {},
         IsFiniteSet(BytesOf(S)), IsFiniteSet(BytesOf(T))
  PROVE  /\ IsFiniteSet(BytesOf(S \cup T))
         /\ Cardinality(BytesOf(S \cup T))
              = Cardinality(BytesOf(S)) + Cardinality(BytesOf(T))
<1>1. BytesOf(S \cup T) = BytesOf(S) \cup BytesOf(T)
  BY DEF BytesOf
<1>2. BytesOf(S) \cap BytesOf(T) = {}
  BY DEF BytesOf
<1>3. Cardinality(BytesOf(S)) \in Nat /\ Cardinality(BytesOf(T)) \in Nat
  BY FS_CardinalityType
<1>4. /\ IsFiniteSet(BytesOf(S) \cup BytesOf(T))
      /\ Cardinality(BytesOf(S) \cup BytesOf(T))
           = Cardinality(BytesOf(S)) + Cardinality(BytesOf(T))
               - Cardinality(BytesOf(S) \cap BytesOf(T))
  BY FS_Union
<1>5. Cardinality(BytesOf(S) \cap BytesOf(T)) = 0
  BY <1>2, FS_EmptySet
<1>6. Cardinality(BytesOf(S) \cup BytesOf(T))
        = Cardinality(BytesOf(S)) + Cardinality(BytesOf(T))
  <2> DEFINE m == Cardinality(BytesOf(S))
             n == Cardinality(BytesOf(T))
             c == Cardinality(BytesOf(S) \cup BytesOf(T))
  <2>1. m \in Nat /\ n \in Nat /\ c = m + n - 0
    BY <1>3, <1>4, <1>5, Zenon
  <2> HIDE DEF m, n, c
  <2>2. c = m + n
    BY <2>1
  <2> QED
    BY <2>2 DEF m, n, c
<1> QED
  BY <1>1, <1>4, <1>6, Zenon

(* A packet more. *)
LEMMA BytesOfMore ==
  ASSUME NEW S, IsFiniteSet(BytesOf(S)), NEW p, p.bytes \in Nat, p \notin S
  PROVE  /\ IsFiniteSet(BytesOf(S \cup {p}))
         /\ Cardinality(BytesOf(S \cup {p}))
              = Cardinality(BytesOf(S)) + p.bytes
<1>1. S \cap {p} = {}
  OBVIOUS
<1> QED
  BY <1>1, BytesOfOne, BytesOfBoth

LEMMA BytesOfNone ==
  /\ IsFiniteSet(BytesOf({}))
  /\ Cardinality(BytesOf({})) = 0
<1>1. BytesOf({}) = {}
  BY DEF BytesOf
<1> QED
  BY <1>1, FS_EmptySet

(* Finitely many packets have finitely many bytes. *)
LEMMA BytesFinite ==
  ASSUME NEW S, Weighed(S)
  PROVE  IsFiniteSet(BytesOf(S))
<1> SUFFICES ASSUME ~IsFiniteSet(BytesOf(S))
             PROVE  FALSE
  OBVIOUS
<1> DEFINE F == {T \in SUBSET S : ~IsFiniteSet(BytesOf(T))}
<1>1. PICK T \in F : \A U \in F : U \subseteq T => U = T
  <2>1. F # {} /\ F \subseteq SUBSET S /\ IsFiniteSet(S)
    BY DEF Weighed
  <2> HIDE DEF F
  <2> QED
    BY <2>1, SmallestSet
<1>2. T # {}
  BY <1>1, BytesOfNone
<1>3. PICK p \in T : TRUE
  BY <1>2
<1>4. IsFiniteSet(BytesOf(T \ {p}))
  BY <1>1, <1>3
<1>5. p.bytes \in Nat
  BY <1>1, <1>3 DEF Weighed
<1>6. IsFiniteSet(BytesOf((T \ {p}) \cup {p}))
  BY <1>4, <1>5, BytesOfMore
<1>7. (T \ {p}) \cup {p} = T
  BY <1>3
<1> QED
  BY <1>1, <1>6, <1>7

(* What is weighed stays so in part. *)
LEMMA WeighedPart ==
  ASSUME NEW S, Weighed(S), NEW T \in SUBSET S
  PROVE  /\ Weighed(T)
         /\ IsFiniteSet(BytesOf(T))
         /\ Cardinality(BytesOf(T)) \in Nat
<1>1. Weighed(T)
  BY FS_Subset DEF Weighed
<1> QED
  BY <1>1, BytesFinite, FS_CardinalityType

(* The recursions take one packet off a set. *)
LEMMA PickStep ==
  ASSUME NEW S, Weighed(S), NEW T \in SUBSET S, T # {}
  PROVE  /\ Pick(T) \in T
         /\ Pick(T).bytes \in Nat
         /\ T \ {Pick(T)} \in SUBSET S
         /\ T \ {Pick(T)} # T
         /\ Cardinality(BytesOf(T))
              = Pick(T).bytes + Cardinality(BytesOf(T \ {Pick(T)}))
<1> DEFINE p == Pick(T)
<1>1. p \in T
  BY DEF Pick
<1> HIDE DEF p
<1>2. p.bytes \in Nat
  BY <1>1 DEF Weighed
<1>3. T \ {p} \in SUBSET S /\ p \notin T \ {p}
  OBVIOUS
<1>4. /\ IsFiniteSet(BytesOf(T \ {p}))
      /\ Cardinality(BytesOf(T \ {p})) \in Nat
  BY <1>3, WeighedPart
<1>5. Cardinality(BytesOf((T \ {p}) \cup {p}))
        = Cardinality(BytesOf(T \ {p})) + p.bytes
  BY <1>2, <1>3, <1>4, BytesOfMore
<1>6. (T \ {p}) \cup {p} = T
  BY <1>1
<1>7. Cardinality(BytesOf(T \ {p})) + p.bytes
        = p.bytes + Cardinality(BytesOf(T \ {p}))
  BY <1>2, <1>4
<1>8. Cardinality(BytesOf(T)) = p.bytes + Cardinality(BytesOf(T \ {p}))
  BY <1>5, <1>6, <1>7, Zenon
<1> QED
  BY <1>1, <1>2, <1>3, <1>8 DEF p

(* The sum of the packets' bytes is their number. *)
LEMMA SumCounts ==
  ASSUME NEW S, Weighed(S)
  PROVE  SumBytes(S) = Cardinality(BytesOf(S))
<1> DEFINE g == [T \in SUBSET S |-> Cardinality(BytesOf(T))]
           h == CHOOSE f : SumRule(f, S)
<1>1. SumRule(g, S)
  <2>1. \A T \in SUBSET S :
          g[T] = IF T = {} THEN 0 ELSE Pick(T).bytes + g[T \ {Pick(T)}]
    <3> SUFFICES ASSUME NEW T \in SUBSET S
                 PROVE  g[T] = IF T = {} THEN 0
                               ELSE Pick(T).bytes + g[T \ {Pick(T)}]
      OBVIOUS
    <3>1. CASE T = {}
      BY <3>1, BytesOfNone
    <3>2. CASE T # {}
      BY <3>2, PickStep
    <3> QED
      BY <3>1, <3>2
  <2>2. g = [T \in SUBSET S |-> g[T]]
    OBVIOUS
  <2> HIDE DEF g
  <2> QED
    BY <2>1, <2>2 DEF SumRule
<1>2. SumRule(h, S)
  BY <1>1
<1> HIDE DEF g, h
<1> DEFINE F == {T \in SUBSET S : h[T] # Cardinality(BytesOf(T))}
<1>3. F = {}
  <2> SUFFICES ASSUME F # {}
               PROVE  FALSE
    OBVIOUS
  <2>1. PICK T \in F : \A U \in F : U \subseteq T => U = T
    <3>1. F \subseteq SUBSET S /\ IsFiniteSet(S)
      BY DEF Weighed
    <3> HIDE DEF F
    <3> QED
      BY <3>1, SmallestSet
  <2>2. h[T] = IF T = {} THEN 0 ELSE Pick(T).bytes + h[T \ {Pick(T)}]
    BY <1>2, <2>1 DEF SumRule
  <2>3. T # {}
    BY <2>1, <2>2, BytesOfNone
  <2>4. /\ Pick(T) \in T
        /\ T \ {Pick(T)} \in SUBSET S
        /\ T \ {Pick(T)} # T
        /\ Cardinality(BytesOf(T))
             = Pick(T).bytes + Cardinality(BytesOf(T \ {Pick(T)}))
    BY <2>1, <2>3, PickStep
  <2>5. T \ {Pick(T)} \notin F
    <3> HIDE DEF F
    <3> QED
      BY <2>1, <2>4
  <2>6. h[T \ {Pick(T)}] = Cardinality(BytesOf(T \ {Pick(T)}))
    BY <2>4, <2>5
  <2> QED
    BY <2>1, <2>2, <2>3, <2>4, <2>6
<1>4. h[S] = Cardinality(BytesOf(S))
  BY <1>3
<1> QED
  BY <1>4, SumIsRule DEF h

(* What is taken off the bytes in flight, packet by packet, is the number   *)
(* of the packets' bytes: the guard of each subtraction holds if they are   *)
(* all in flight.                                                           *)
LEMMA WithoutCounts ==
  ASSUME NEW S, Weighed(S), NEW flight \in Nat,
         flight >= Cardinality(BytesOf(S))
  PROVE  Without(flight, S) = flight - Cardinality(BytesOf(S))
<1> DEFINE g == [T \in SUBSET S |-> flight - Cardinality(BytesOf(T))]
           h == CHOOSE f : TakeRule(f, flight, S)
<1>0. \A T \in SUBSET S : /\ Cardinality(BytesOf(T)) \in Nat
                          /\ flight >= Cardinality(BytesOf(T))
  <2> SUFFICES ASSUME NEW T \in SUBSET S
               PROVE  /\ Cardinality(BytesOf(T)) \in Nat
                      /\ flight >= Cardinality(BytesOf(T))
    OBVIOUS
  <2>1. /\ IsFiniteSet(BytesOf(S))
        /\ Cardinality(BytesOf(S)) \in Nat
        /\ Cardinality(BytesOf(T)) \in Nat
    BY WeighedPart
  <2>2. BytesOf(T) \in SUBSET BytesOf(S)
    BY DEF BytesOf
  <2>3. Cardinality(BytesOf(T)) <= Cardinality(BytesOf(S))
    BY <2>1, <2>2, FS_Subset
  <2> QED
    BY <2>1, <2>3
<1>1. TakeRule(g, flight, S)
  <2>1. \A T \in SUBSET S :
          g[T] = IF T = {} THEN flight
                 ELSE IF g[T \ {Pick(T)}] >= Pick(T).bytes
                      THEN g[T \ {Pick(T)}] - Pick(T).bytes
                      ELSE g[T \ {Pick(T)}]
    <3> SUFFICES ASSUME NEW T \in SUBSET S
                 PROVE  g[T] = IF T = {} THEN flight
                               ELSE IF g[T \ {Pick(T)}] >= Pick(T).bytes
                                    THEN g[T \ {Pick(T)}] - Pick(T).bytes
                                    ELSE g[T \ {Pick(T)}]
      OBVIOUS
    <3>1. CASE T = {}
      BY <3>1, BytesOfNone
    <3>2. CASE T # {}
      <4>1. /\ Pick(T).bytes \in Nat
            /\ T \ {Pick(T)} \in SUBSET S
            /\ Cardinality(BytesOf(T))
                 = Pick(T).bytes + Cardinality(BytesOf(T \ {Pick(T)}))
        BY <3>2, PickStep
      <4>2. /\ g[T] = flight - Cardinality(BytesOf(T))
            /\ g[T \ {Pick(T)}]
                 = flight - Cardinality(BytesOf(T \ {Pick(T)}))
        BY <4>1
      <4>3. /\ Cardinality(BytesOf(T \ {Pick(T)})) \in Nat
            /\ Cardinality(BytesOf(T)) \in Nat
            /\ flight >= Cardinality(BytesOf(T))
        BY <1>0, <4>1
      <4> HIDE DEF g
      <4> QED
        BY <3>2, <4>1, <4>2, <4>3
    <3> QED
      BY <3>1, <3>2
  <2>2. g = [T \in SUBSET S |-> g[T]]
    OBVIOUS
  <2> HIDE DEF g
  <2> QED
    BY <2>1, <2>2 DEF TakeRule
<1>2. TakeRule(h, flight, S)
  BY <1>1
<1> HIDE DEF g, h
<1> DEFINE F == {T \in SUBSET S : h[T] # flight - Cardinality(BytesOf(T))}
<1>3. F = {}
  <2> SUFFICES ASSUME F # {}
               PROVE  FALSE
    OBVIOUS
  <2>1. PICK T \in F : \A U \in F : U \subseteq T => U = T
    <3>1. F \subseteq SUBSET S /\ IsFiniteSet(S)
      BY DEF Weighed
    <3> HIDE DEF F
    <3> QED
      BY <3>1, SmallestSet
  <2>2. h[T] = IF T = {} THEN flight
               ELSE IF h[T \ {Pick(T)}] >= Pick(T).bytes
                    THEN h[T \ {Pick(T)}] - Pick(T).bytes
                    ELSE h[T \ {Pick(T)}]
    BY <1>2, <2>1 DEF TakeRule
  <2>3. T # {}
    <3>1. flight - Cardinality(BytesOf({})) = flight
      BY BytesOfNone
    <3>2. T = {} => h[T] = flight
      BY <2>2
    <3> QED
      BY <2>1, <3>1, <3>2
  <2>4. /\ Pick(T) \in T
        /\ Pick(T).bytes \in Nat
        /\ T \ {Pick(T)} \in SUBSET S
        /\ T \ {Pick(T)} # T
        /\ Cardinality(BytesOf(T))
             = Pick(T).bytes + Cardinality(BytesOf(T \ {Pick(T)}))
    BY <2>1, <2>3, PickStep
  <2>5. T \ {Pick(T)} \notin F
    <3> HIDE DEF F
    <3> QED
      BY <2>1, <2>4
  <2>6. h[T \ {Pick(T)}] = flight - Cardinality(BytesOf(T \ {Pick(T)}))
    BY <2>4, <2>5
  <2>7. /\ Cardinality(BytesOf(T \ {Pick(T)})) \in Nat
        /\ Cardinality(BytesOf(T)) \in Nat
        /\ flight >= Cardinality(BytesOf(T))
    BY <1>0, <2>1, <2>4
  <2>8. h[T] = flight - Cardinality(BytesOf(T))
    BY <2>2, <2>3, <2>4, <2>6, <2>7
  <2> QED
    BY <2>1, <2>8
<1>4. h[S] = flight - Cardinality(BytesOf(S))
  BY <1>3
<1> QED
  BY <1>4, WithoutIsRule DEF h

(* What is left in flight when some of the packets are taken away. *)
LEMMA BytesOfRest ==
  ASSUME NEW S, Weighed(S), NEW T \in SUBSET S
  PROVE  /\ Weighed(S \ T)
         /\ SumBytes(S) \in Nat
         /\ Without(SumBytes(S), T) = SumBytes(S \ T)
<1>1. /\ Weighed(T) /\ Weighed(S \ T)
      /\ IsFiniteSet(BytesOf(T)) /\ IsFiniteSet(BytesOf(S \ T))
      /\ Cardinality(BytesOf(T)) \in Nat
      /\ Cardinality(BytesOf(S \ T)) \in Nat
      /\ Cardinality(BytesOf(S)) \in Nat
  <2>1. S \ T \in SUBSET S /\ S \in SUBSET S
    OBVIOUS
  <2> QED
    BY <2>1, WeighedPart
<1>2. T \cap (S \ T) = {} /\ T \cup (S \ T) = S
  OBVIOUS
<1>3. Cardinality(BytesOf(T \cup (S \ T)))
        = Cardinality(BytesOf(T)) + Cardinality(BytesOf(S \ T))
  BY <1>1, <1>2, BytesOfBoth
<1>4. Cardinality(BytesOf(S))
        = Cardinality(BytesOf(T)) + Cardinality(BytesOf(S \ T))
  BY <1>2, <1>3
<1>5. /\ SumBytes(S) = Cardinality(BytesOf(S))
      /\ SumBytes(S \ T) = Cardinality(BytesOf(S \ T))
  BY <1>1, SumCounts
<1>6. SumBytes(S) \in Nat /\ SumBytes(S) >= Cardinality(BytesOf(T))
  BY <1>1, <1>4, <1>5
<1>7. Without(SumBytes(S), T) = SumBytes(S) - Cardinality(BytesOf(T))
  BY <1>1, <1>6, WithoutCounts
<1> QED
  BY <1>1, <1>4, <1>5, <1>6, <1>7

-----------------------------------------------------------------------------
(* The packets that are tracked: each has a number of its space to itself,  *)
(* which has been given out.  Without this, two packets of one age and size *)
(* could become one, and their bytes be counted once.                       *)
Tracked == [sp : Spaces, pn : Nat, age : Nat, bytes : Nat]

PacketsInv ==
  /\ IsFiniteSet(sent_packets)
  /\ sent_packets \subseteq Tracked
  /\ packet_number \in [Spaces -> Nat]
  /\ \A p \in sent_packets : p.pn < packet_number[p.sp]
  /\ \A p, q \in sent_packets : p.sp = q.sp /\ p.pn = q.pn => p = q

(* The inductive invariant. *)
FlightInv == PacketsInv /\ InFlightExact

(* A packet a moment later. *)
Aged(p) == [p EXCEPT !.age = Older(@)]

(* The tracked packets can be summed. *)
LEMMA TrackedWeighed ==
  ASSUME PacketsInv
  PROVE  Weighed(sent_packets)
BY DEF PacketsInv, Weighed, Tracked

(* A packet ages and stays the same otherwise. *)
LEMMA AgedPacket ==
  ASSUME NEW p \in Tracked
  PROVE  /\ Aged(p) \in Tracked
         /\ Aged(p).sp = p.sp /\ Aged(p).pn = p.pn
         /\ Aged(p).bytes = p.bytes
<1>1. p.age \in Nat
  BY DEF Tracked
<1>2. Older(p.age) \in Nat
  BY <1>1, RecoveryAssumption DEF Older, Never, Smaller
<1> QED
  BY <1>2 DEF Aged, Tracked

(* Time takes no bytes away. *)
LEMMA AgedBytes ==
  ASSUME PacketsInv
  PROVE  LET aged == {Aged(p) : p \in sent_packets}
         IN  Weighed(aged) /\ SumBytes(aged) = SumBytes(sent_packets)
<1> DEFINE aged == {Aged(p) : p \in sent_packets}
           f == [p \in sent_packets |-> Aged(p)]
           g == [b \in BytesOf(sent_packets) |-> <<Aged(b[1]), b[2]>>]
<1>1. \A p \in sent_packets : /\ p \in Tracked /\ Aged(p) \in Tracked
                              /\ Aged(p).sp = p.sp /\ Aged(p).pn = p.pn
                              /\ Aged(p).bytes = p.bytes
  BY AgedPacket DEF PacketsInv
<1>2. \A p, q \in sent_packets : Aged(p) = Aged(q) => p = q
  BY <1>1 DEF PacketsInv
<1>3. IsFiniteSet(aged)
  <2>1. f \in [sent_packets -> aged]
    OBVIOUS
  <2>2. \A t \in aged : \E s \in sent_packets : f[s] = t
    OBVIOUS
  <2>3. f \in Surjection(sent_packets, aged)
    BY <2>1, <2>2 DEF Surjection
  <2> HIDE DEF f, aged
  <2> QED
    BY <2>3, FS_Surjection DEF PacketsInv
<1>4. Weighed(aged)
  <2>1. \A t \in aged : t.bytes \in Nat
    BY <1>1 DEF Tracked
  <2> QED
    BY <1>3, <2>1 DEF Weighed
<1>5. ExistsBijection(BytesOf(sent_packets), BytesOf(aged))
  <2>1. g \in [BytesOf(sent_packets) -> BytesOf(aged)]
    <3> SUFFICES ASSUME NEW b \in BytesOf(sent_packets)
                 PROVE  <<Aged(b[1]), b[2]>> \in BytesOf(aged)
      OBVIOUS
    <3>1. b[1] \in sent_packets /\ b[2] \in Nat /\ b[2] < b[1].bytes
      BY DEF BytesOf
    <3>2. Aged(b[1]) \in aged /\ b[2] < Aged(b[1]).bytes
      BY <1>1, <3>1
    <3> HIDE DEF aged
    <3> QED
      BY <3>1, <3>2 DEF BytesOf
  <2>2. \A b, c \in BytesOf(sent_packets) : g[b] = g[c] => b = c
    <3> SUFFICES ASSUME NEW b \in BytesOf(sent_packets),
                        NEW c \in BytesOf(sent_packets), g[b] = g[c]
                 PROVE  b = c
      OBVIOUS
    <3>1. /\ b[1] \in sent_packets /\ c[1] \in sent_packets
          /\ b = <<b[1], b[2]>> /\ c = <<c[1], c[2]>>
      BY DEF BytesOf
    <3>2. <<Aged(b[1]), b[2]>> = <<Aged(c[1]), c[2]>>
      OBVIOUS
    <3>3. Aged(b[1]) = Aged(c[1]) /\ b[2] = c[2]
      BY <3>2
    <3> HIDE DEF g
    <3>4. b[1] = c[1]
      BY <1>2, <3>1, <3>3
    <3> QED
      BY <3>1, <3>3, <3>4, Zenon
  <2>3. \A d \in BytesOf(aged) : \E b \in BytesOf(sent_packets) : g[b] = d
    <3> SUFFICES ASSUME NEW d \in BytesOf(aged)
                 PROVE  \E b \in BytesOf(sent_packets) : g[b] = d
      OBVIOUS
    <3>1. /\ d[1] \in aged /\ d[2] \in Nat /\ d[2] < d[1].bytes
          /\ d = <<d[1], d[2]>>
      BY DEF BytesOf
    <3>2. PICK p \in sent_packets : d[1] = Aged(p)
      BY <3>1
    <3>3. d[2] < p.bytes
      BY <1>1, <3>1, <3>2
    <3>4. <<p, d[2]>> \in BytesOf(sent_packets)
      BY <3>1, <3>2, <3>3 DEF BytesOf
    <3>5. g[<<p, d[2]>>] = <<Aged(p), d[2]>>
      BY <3>4
    <3> QED
      BY <3>1, <3>2, <3>4, <3>5
  <2> HIDE DEF g, aged
  <2>4. g \in Bijection(BytesOf(sent_packets), BytesOf(aged))
    BY <2>1, <2>2, <2>3 DEF Bijection, Injection, Surjection, IsInjective
  <2> QED
    BY <2>4 DEF ExistsBijection
<1>6. IsFiniteSet(BytesOf(sent_packets))
  BY TrackedWeighed, BytesFinite
<1> HIDE DEF aged
<1>7. Cardinality(BytesOf(aged)) = Cardinality(BytesOf(sent_packets))
  BY <1>5, <1>6, FS_Bijection
<1>8. /\ SumBytes(aged) = Cardinality(BytesOf(aged))
      /\ SumBytes(sent_packets) = Cardinality(BytesOf(sent_packets))
  BY <1>4, TrackedWeighed, SumCounts
<1> QED
  BY <1>4, <1>7, <1>8 DEF aged

(* Taking packets out of the table, with their bytes, keeps the invariant. *)
LEMMA FlightTaken ==
  ASSUME FlightInv, NEW T \in SUBSET sent_packets,
         sent_packets' = sent_packets \ T,
         bytes_in_flight' = Without(bytes_in_flight, T),
         UNCHANGED packet_number
  PROVE  FlightInv'
<1>1. PacketsInv'
  <2>1. IsFiniteSet(sent_packets \ T)
    BY FS_Difference DEF FlightInv, PacketsInv
  <2> QED
    BY <2>1 DEF FlightInv, PacketsInv
<1>2. bytes_in_flight' = SumBytes(sent_packets \ T)
  BY TrackedWeighed, BytesOfRest DEF FlightInv, InFlightExact
<1> QED
  BY <1>1, <1>2 DEF FlightInv, InFlightExact

LEMMA FlightSame ==
  ASSUME FlightInv, UNCHANGED <<sent_packets, packet_number, bytes_in_flight>>
  PROVE  FlightInv'
BY DEF FlightInv, PacketsInv, InFlightExact

(* No packets, no bytes. *)
LEMMA SumOfNone == SumBytes({}) = 0
<1>1. Weighed({})
  BY FS_EmptySet DEF Weighed
<1> QED
  BY <1>1, SumCounts, BytesOfNone

LEMMA InitFlight == Init => FlightInv
<1> SUFFICES ASSUME Init
             PROVE  FlightInv
  OBVIOUS
<1>1. sent_packets = {} /\ bytes_in_flight = 0
  BY DEF Init
<1>2. packet_number \in [Spaces -> Nat]
  BY DEF Init
<1> QED
  BY <1>1, <1>2, SumOfNone, FS_EmptySet
     DEF FlightInv, PacketsInv, InFlightExact

(* A packet is sent: it has a new number, and adds its bytes. *)
LEMMA SentFlight ==
  ASSUME FlightInv, NEW sp \in Spaces, NEW bytes \in Sizes,
         OnPacketSent(sp, bytes)
  PROVE  FlightInv'
<1> DEFINE n == packet_number[sp]
           p == [sp |-> sp, pn |-> n, age |-> 0, bytes |-> bytes]
<1>1. /\ sent_packets' = sent_packets \cup {p}
      /\ packet_number' = [packet_number EXCEPT ![sp] = n + 1]
      /\ bytes_in_flight' = bytes_in_flight + bytes
  BY DEF OnPacketSent
<1>2. n \in Nat /\ bytes \in Nat
  BY RecoveryAssumption DEF FlightInv, PacketsInv
<1>3. p \in Tracked /\ p.sp = sp /\ p.pn = n /\ p.bytes = bytes
  BY <1>2 DEF Tracked
<1> HIDE DEF p
<1>4. \A q \in sent_packets : q.sp = sp => q.pn < n
  BY DEF FlightInv, PacketsInv
<1>5. \A q \in sent_packets : q.sp \in Spaces /\ q.pn \in Nat
  BY DEF FlightInv, PacketsInv, Tracked
<1>6. p \notin sent_packets
  BY <1>2, <1>3, <1>4
<1>7. PacketsInv'
  <2>1. IsFiniteSet(sent_packets')
    BY <1>1, FS_AddElement DEF FlightInv, PacketsInv
  <2>2. sent_packets' \subseteq Tracked
    BY <1>1, <1>3 DEF FlightInv, PacketsInv
  <2>3. packet_number' \in [Spaces -> Nat]
    BY <1>1, <1>2 DEF FlightInv, PacketsInv
  <2>4. \A q \in sent_packets' : q.pn < packet_number'[q.sp]
    <3>1. packet_number'[sp] = n + 1
      BY <1>1 DEF FlightInv, PacketsInv
    <3>2. \A s \in Spaces : s # sp => packet_number'[s] = packet_number[s]
      BY <1>1 DEF FlightInv, PacketsInv
    <3>3. p.pn < packet_number'[p.sp]
      BY <1>2, <1>3, <3>1
    <3>4. ASSUME NEW q \in sent_packets
          PROVE  q.pn < packet_number'[q.sp]
      <4>1. q.pn < packet_number[q.sp]
        BY DEF FlightInv, PacketsInv
      <4>2. CASE q.sp = sp
        BY <1>2, <1>4, <1>5, <3>1, <4>2
      <4>3. CASE q.sp # sp
        BY <1>5, <3>2, <4>1, <4>3
      <4> QED
        BY <4>2, <4>3
    <3> QED
      BY <1>1, <3>3, <3>4
  <2>5. \A q, r \in sent_packets' : q.sp = r.sp /\ q.pn = r.pn => q = r
    <3>1. \A q \in sent_packets : ~(q.sp = p.sp /\ q.pn = p.pn)
      BY <1>2, <1>3, <1>4, <1>5
    <3> QED
      BY <1>1, <3>1 DEF FlightInv, PacketsInv
  <2> QED
    BY <2>1, <2>2, <2>3, <2>4, <2>5 DEF PacketsInv
<1>8. bytes_in_flight' = SumBytes(sent_packets')
  <2>1. Weighed(sent_packets)
    BY TrackedWeighed DEF FlightInv
  <2>2. Weighed(sent_packets')
    BY <1>7 DEF PacketsInv, Weighed, Tracked
  <2>3. IsFiniteSet(BytesOf(sent_packets))
    BY <2>1, BytesFinite
  <2>4. Cardinality(BytesOf(sent_packets \cup {p}))
          = Cardinality(BytesOf(sent_packets)) + bytes
    BY <1>2, <1>3, <1>6, <2>3, BytesOfMore
  <2>5. /\ SumBytes(sent_packets) = Cardinality(BytesOf(sent_packets))
        /\ SumBytes(sent_packets') = Cardinality(BytesOf(sent_packets'))
    BY <2>1, <2>2, SumCounts
  <2>6. bytes_in_flight = SumBytes(sent_packets)
    BY DEF FlightInv, InFlightExact
  <2> QED
    BY <1>1, <2>4, <2>5, <2>6, Zenon
<1> QED
  BY <1>7, <1>8 DEF FlightInv, InFlightExact

(* Every step keeps the bytes in flight exact. *)
LEMMA StepFlight ==
  ASSUME FlightInv, [Next]_vars
  PROVE  FlightInv'
<1>1. ASSUME NEW sp \in Spaces, NEW bytes \in Sizes, OnPacketSent(sp, bytes)
      PROVE  FlightInv'
  BY <1>1, SentFlight
<1>2. ASSUME NEW sp \in Spaces, NEW lo \in 0 .. MaxPn, NEW hi \in 0 .. MaxPn,
             NEW ce \in BOOLEAN, OnAckReceived(sp, lo, hi, ce)
      PROVE  FlightInv'
  <2> DEFINE acked ==
        {p \in sent_packets : p.sp = sp /\ lo <= p.pn /\ p.pn <= hi}
  <2>1. /\ sent_packets' = sent_packets \ acked
        /\ bytes_in_flight' = Without(bytes_in_flight, acked)
        /\ UNCHANGED packet_number
    BY <1>2 DEF OnAckReceived
  <2>2. acked \in SUBSET sent_packets
    OBVIOUS
  <2> HIDE DEF acked
  <2> QED
    BY <2>1, <2>2, FlightTaken
<1>3. CASE CompleteHandshake
  BY <1>3, FlightSame DEF CompleteHandshake
<1>4. CASE TickPto
  <2>1. /\ sent_packets' = {} /\ bytes_in_flight' = 0
        /\ UNCHANGED packet_number
    BY <1>4 DEF TickPto
  <2> QED
    BY <2>1, SumOfNone, FS_EmptySet DEF FlightInv, PacketsInv, InFlightExact
<1>5. CASE TickLoss
  <2>1. /\ sent_packets' = sent_packets \ LostPackets
        /\ bytes_in_flight' = Without(bytes_in_flight, LostPackets)
        /\ UNCHANGED packet_number
    BY <1>5 DEF TickLoss, LossAlarm
  <2>2. LostPackets \in SUBSET sent_packets
    BY DEF LostPackets
  <2> QED
    BY <2>1, <2>2, FlightTaken
<1>6. CASE Wait
  <2> DEFINE aged == {Aged(p) : p \in sent_packets}
  <2>1. /\ sent_packets' = aged
        /\ UNCHANGED <<packet_number, bytes_in_flight>>
    BY <1>6 DEF Wait, Aged
  <2>2. Weighed(aged) /\ SumBytes(aged) = SumBytes(sent_packets)
    BY AgedBytes DEF FlightInv
  <2>3. \A p \in sent_packets :
          /\ Aged(p) \in Tracked
          /\ Aged(p).sp = p.sp /\ Aged(p).pn = p.pn
    BY AgedPacket DEF FlightInv, PacketsInv
  <2>4. PacketsInv'
    <3>1. IsFiniteSet(aged)
      BY <2>2 DEF Weighed
    <3>2. aged \subseteq Tracked
      BY <2>3
    <3>3. \A t \in aged : t.pn < packet_number[t.sp]
      BY <2>3 DEF FlightInv, PacketsInv
    <3>4. \A t, u \in aged : t.sp = u.sp /\ t.pn = u.pn => t = u
      BY <2>3 DEF FlightInv, PacketsInv
    <3> HIDE DEF aged
    <3> QED
      BY <2>1, <3>1, <3>2, <3>3, <3>4 DEF FlightInv, PacketsInv
  <2> HIDE DEF aged
  <2> QED
    BY <2>1, <2>2, <2>4 DEF FlightInv, InFlightExact
<1>7. CASE UNCHANGED vars
  BY <1>7, FlightSame DEF vars
<1>8. CASE Traffic
  BY <1>8, FlightSame DEF Traffic
<1> QED
  BY <1>1, <1>2, <1>3, <1>4, <1>5, <1>6, <1>7, <1>8 DEF Next

(* bytes_in_flight is the sum of the bytes of the tracked packets, for any  *)
(* number of packets of any sizes, acknowledged, lost or given up in any    *)
(* order: no subtraction is ever refused, so that none leaks.               *)
THEOREM InFlightIsExact == Spec => []InFlightExact
<1>1. Init => FlightInv
  BY InitFlight
<1>2. FlightInv /\ [Next]_vars => FlightInv'
  BY StepFlight
<1>3. FlightInv => InFlightExact
  BY DEF FlightInv
<1> QED
  BY <1>1, <1>2, <1>3, PTL DEF Spec
=============================================================================
