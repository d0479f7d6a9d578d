-------------------------- MODULE HandshakeProofs ---------------------------
(***************************************************************************)
(* Proofs about Handshake, with any number of packets under way, with and  *)
(* without a Retry and whichever endpoints have timers: no flight of the   *)
(* handshake is forgotten, and keys are discarded only when both sides     *)
(* have completed it.                                                      *)
(***************************************************************************)
EXTENDS Handshake, FiniteSetTheorems, TLAPS

(* The flights an endpoint sends in a space, and what it may send so far.  *)
Own(e, sp) ==
  {f \in (IF e = "client" THEN {"CH", "CF"} ELSE {"SH", "SF"}) :
     SpaceOf(f) = sp}

Emitted(e) ==
  Produced(e) \cup
    (IF e = "server" /\ "CF" \in consumed["server"] THEN {"DONE"} ELSE {})

Types ==
  /\ keys \in [Endpoint -> [Space -> {"none", "good", "wrong"}]]
  /\ complete \in [Endpoint -> BOOLEAN]
  /\ consumed \in [Endpoint -> SUBSET Flight]
  /\ pending_tls \in [Endpoint -> SUBSET Flight]
  /\ lost \in [Endpoint -> Seq(Flight)]
  /\ sent \in [Endpoint -> SUBSET Frame]
  /\ pending_ack \in [Endpoint -> [Space -> BOOLEAN]]
  /\ received_pns \in [Endpoint -> [Space -> BOOLEAN]]
  /\ net \subseteq Packet

(* A flight is read after it has been produced, and the flights of the     *)
(* Handshake space after those of the Initial space, as their keys come    *)
(* with them.                                                              *)
Causal ==
  /\ \A e \in Endpoint : consumed[e] \subseteq Produced(Peer(e))
  /\ "SF" \in consumed["client"] => "SH" \in consumed["client"]
  /\ "CF" \in consumed["server"] => "CH" \in consumed["server"]
  /\ complete["client"] <=> "SF" \in consumed["client"]
  /\ complete["server"] <=> "CF" \in consumed["server"]

(* Handshake keys come with the first flight that is read, and no keys go  *)
(* before the server has read the client's Finished.                       *)
KeysOK ==
  /\ keys["client"]["handshake"] # "none" => "SH" \in consumed["client"]
  /\ keys["server"]["handshake"] # "none" => "CH" \in consumed["server"]
  /\ "CF" \notin consumed["server"] =>
       /\ keys["client"]["initial"] # "none"
       /\ "SH" \in consumed["client"] =>
            keys["client"]["handshake"] # "none"
       /\ "CH" \in consumed["server"] =>
            /\ keys["server"]["initial"] # "none"
            /\ keys["server"]["handshake"] # "none"

(* The queues of an endpoint hold what it has produced, and it acknowledges *)
(* what it has read.                                                        *)
Queues ==
  /\ pending_done => "CF" \in consumed["server"]
  /\ \A e \in Endpoint :
       pending_tls[e] \cup Range(lost[e]) \cup sent[e] \subseteq Emitted(e)
  /\ \A e \in Endpoint, sp \in Space :
       received_pns[e][sp] => Own(Peer(e), sp) \subseteq consumed[e]

GoodPacket(p) ==
  /\ p.frames \subseteq Emitted(p.src)
  /\ \A f \in p.frames : SpaceOf(f) = p.sp
  /\ p.live => p.frames # {}
  /\ p.acks => Own(Peer(p.src), p.sp) \subseteq consumed[p.src]

Traffic == \A p \in net : GoodPacket(p)

HandshakeInv ==
  Types /\ Causal /\ KeysOK /\ Queues /\ Traffic /\ FlightsKept

-----------------------------------------------------------------------------
(* The queue of lost flights. *)

(* Every position of a finite set has a rank, and every rank a position. *)
LEMMA NthFacts ==
  ASSUME NEW S \in SUBSET Nat, IsFiniteSet(S)
  PROVE  /\ Cardinality(S) \in Nat
         /\ \A j \in 1 .. Cardinality(S) : Nth(S, j) \in S
         /\ \A i \in S : \E j \in 1 .. Cardinality(S) : Nth(S, j) = i
<1> DEFINE upto(i) == {k \in S : k <= i}
           rank    == [i \in S |-> Cardinality(upto(i))]
           D       == 1 .. Cardinality(S)
<1>1. Cardinality(S) \in Nat
  BY FS_CardinalityType
<1>2. ASSUME NEW i \in S
      PROVE  /\ IsFiniteSet(upto(i)) /\ Cardinality(upto(i)) \in D
             /\ rank[i] = Cardinality(upto(i))
  <2>1. upto(i) \subseteq S /\ i \in upto(i)
    OBVIOUS
  <2>2. IsFiniteSet(upto(i)) /\ Cardinality(upto(i)) <= Cardinality(S)
    BY <2>1, FS_Subset
  <2>3. Cardinality(upto(i)) \in Nat /\ Cardinality(upto(i)) # 0
    BY <2>1, <2>2, FS_CardinalityType, FS_EmptySet
  <2> QED BY <1>1, <2>2, <2>3
<1>3. ASSUME NEW i \in S, NEW k \in S, rank[i] = rank[k], i < k
      PROVE  FALSE
  <2>1. upto(i) \subseteq upto(k) /\ k \in upto(k) /\ k \notin upto(i)
    <3>1. i \in Nat /\ k \in Nat /\ i < k
      BY <1>3
    <3>2. ASSUME NEW x \in S, x <= i PROVE x <= k
      <4>1. x \in Nat
        OBVIOUS
      <4> QED BY <3>1, <3>2, <4>1
    <3>3. k <= k /\ ~(k <= i)
      BY <3>1
    <3> QED BY <3>2, <3>3
  <2>2. IsFiniteSet(upto(k)) /\ Cardinality(upto(i)) = Cardinality(upto(k))
    BY <1>2, <1>3
  <2> HIDE DEF upto
  <2> QED BY <2>1, <2>2, FS_Subset
<1>4. rank \in Injection(S, D)
  <2>1. rank \in [S -> D]
    BY <1>2
  <2>2. ASSUME NEW i \in S, NEW k \in S, rank[i] = rank[k] PROVE i = k
    <3>1. i \in Nat /\ k \in Nat
      OBVIOUS
    <3>2. ~(i < k) /\ ~(k < i)
      BY <1>3, <2>2
    <3> QED BY <3>1, <3>2
  <2> HIDE DEF rank, D
  <2> QED BY <2>1, <2>2 DEF Injection, IsInjective
<1>5. IsFiniteSet(D) /\ Cardinality(D) = Cardinality(S)
  BY <1>1, FS_Interval
<1>6. rank \in Surjection(S, D)
  <2> HIDE DEF rank, D
  <2> QED BY <1>4, <1>5, FS_Injection
<1>7. ASSUME NEW j \in D
      PROVE  \E i \in S : Cardinality(upto(i)) = j
  <2>1. \E i \in S : rank[i] = j
    BY <1>6 DEF Surjection
  <2> QED BY <1>2, <2>1
<1>8. ASSUME NEW j \in D
      PROVE  Nth(S, j) \in S /\ rank[Nth(S, j)] = j
  <2>1. Nth(S, j) \in S /\ Cardinality(upto(Nth(S, j))) = j
    BY <1>7 DEF Nth
  <2> QED BY <1>2, <2>1
<1>9. ASSUME NEW i \in S
      PROVE  \E j \in D : Nth(S, j) = i
  <2>1. rank[i] \in D
    BY <1>2
  <2>2. Nth(S, rank[i]) \in S /\ rank[Nth(S, rank[i])] = rank[i]
    BY <1>8, <2>1
  <2>3. Nth(S, rank[i]) = i
    BY <1>4, <2>2 DEF Injection, IsInjective
  <2> QED BY <2>1, <2>3
<1> QED BY <1>1, <1>8, <1>9

(* A purge keeps the flights whose keys are there, and adds none. *)
LEMMA PurgedFacts ==
  ASSUME Types, NEW e \in Endpoint
  PROVE  /\ Purged(e) \in Seq(Flight)
         /\ Range(Purged(e)) \subseteq Range(lost[e])
         /\ \A f \in Range(lost[e]) :
              keys[e][SpaceOf(f)] # "none" => f \in Range(Purged(e))
<1> DEFINE q    == lost[e]
           kept == {i \in DOMAIN q : keys[e][SpaceOf(q[i])] # "none"}
           n    == Cardinality(kept)
<1>1. q \in Seq(Flight) /\ Len(q) \in Nat /\ DOMAIN q = 1 .. Len(q)
      /\ \A i \in DOMAIN q : q[i] \in Flight
  BY DEF Types
<1> HIDE DEF q
<1>2. IsFiniteSet(DOMAIN q)
  BY <1>1, FS_Interval
<1>3. kept \in SUBSET Nat /\ IsFiniteSet(kept)
  BY <1>1, <1>2, FS_Subset
<1>4. /\ n \in Nat /\ \A j \in 1 .. n : Nth(kept, j) \in kept
      /\ \A i \in kept : \E j \in 1 .. n : Nth(kept, j) = i
  <2> HIDE DEF kept
  <2> QED BY <1>3, NthFacts
<1>5. Purged(e) = [j \in 1 .. n |-> q[Nth(kept, j)]]
  BY DEF Purged, q
<1> HIDE DEF n
<1>6. \A j \in 1 .. n : Nth(kept, j) \in DOMAIN q
  BY <1>4
<1>7. Purged(e) \in Seq(Flight)
  <2>1. \A j \in 1 .. n : q[Nth(kept, j)] \in Flight
    BY <1>1, <1>6
  <2> HIDE DEF kept
  <2>2. [j \in 1 .. n |-> q[Nth(kept, j)]] \in Seq(Flight)
    BY <1>4, <2>1
  <2> QED BY <1>5, <2>2
<1>8. Range(Purged(e)) \subseteq Range(q)
  BY <1>5, <1>6 DEF Range
<1>9. ASSUME NEW f \in Range(q), keys[e][SpaceOf(f)] # "none"
      PROVE  f \in Range(Purged(e))
  <2>1. PICK i \in DOMAIN q : q[i] = f
    BY DEF Range
  <2>2. i \in kept
    BY <1>9, <2>1
  <2>3. PICK j \in 1 .. n : Nth(kept, j) = i
    BY <1>4, <2>2
  <2> HIDE DEF kept
  <2> QED BY <1>5, <2>1, <2>3 DEF Range
<1> QED BY <1>7, <1>8, <1>9 DEF q

(* The head goes out in its own space, and nothing else leaves the queue. *)
LEMMA QueueFacts ==
  ASSUME NEW q \in Seq(Flight), NEW sp \in Space
  PROVE  /\ QueueAfter(q, sp) \in Seq(Flight)
         /\ Range(q) \subseteq Range(QueueAfter(q, sp)) \cup LostFrames(q, sp)
         /\ Range(QueueAfter(q, sp)) \subseteq Range(q)
         /\ LostFrames(q, sp) \subseteq Range(q)
         /\ \A f \in LostFrames(q, sp) : SpaceOf(f) = sp
<1>1. CASE LostFrames(q, sp) = {}
  BY <1>1 DEF QueueAfter
<1>2. CASE LostFrames(q, sp) # {}
  <2>1. q # <<>> /\ LostFrames(q, sp) = {Head(q)} /\ SpaceOf(Head(q)) = sp
        /\ QueueAfter(q, sp) = Tail(q)
    BY <1>2 DEF LostFrames, QueueAfter
  <2>2. /\ Tail(q) \in Seq(Flight) /\ Head(q) = q[1] /\ 1 \in DOMAIN q
        /\ \A i \in DOMAIN Tail(q) : i + 1 \in DOMAIN q /\ Tail(q)[i] = q[i + 1]
        /\ \A i \in DOMAIN q : i # 1 =>
             i - 1 \in DOMAIN Tail(q) /\ Tail(q)[i - 1] = q[i]
    BY <2>1
  <2>3. Range(Tail(q)) \subseteq Range(q) /\ Head(q) \in Range(q)
    BY <2>2 DEF Range
  <2>4. Range(q) \subseteq Range(Tail(q)) \cup {Head(q)}
    <3>1. SUFFICES ASSUME NEW i \in DOMAIN q
                   PROVE  q[i] \in Range(Tail(q)) \cup {Head(q)}
      BY DEF Range
    <3>2. CASE i = 1
      BY <2>2, <3>2
    <3>3. CASE i # 1
      BY <2>2, <3>3 DEF Range
    <3> QED BY <3>2, <3>3
  <2> QED BY <2>1, <2>2, <2>3, <2>4
<1> QED BY <1>1, <1>2

(* What a probe timeout queues again. *)
LEMMA RequeuedFacts ==
  ASSUME NEW frames \in SUBSET Frame, NEW q \in Seq(Flight),
         NEW order \in SetToSeqs(Requeued(frames))
  PROVE  /\ q \o order \in Seq(Flight)
         /\ Range(q \o order) = Range(q) \cup (frames \cap Flight)
<1> DEFINE S == Requeued(frames)
           D == 1 .. Cardinality(S)
<1>1. S = frames \cap Flight /\ S \subseteq Flight
  BY DEF Requeued
<1>2. IsFiniteSet(S) /\ Cardinality(S) \in Nat
  <2>1. IsFiniteSet(Flight)
    <3>1. IsFiniteSet({"CH"}) /\ IsFiniteSet({"SH"}) /\ IsFiniteSet({"SF"})
          /\ IsFiniteSet({"CF"})
      BY FS_Singleton
    <3>2. IsFiniteSet({"CH"} \cup {"SH"}) /\ IsFiniteSet({"SF"} \cup {"CF"})
      BY <3>1, FS_Union
    <3>3. Flight = ({"CH"} \cup {"SH"}) \cup ({"SF"} \cup {"CF"})
      BY DEF Flight
    <3> QED BY <3>2, <3>3, FS_Union
  <2> QED BY <1>1, <2>1, FS_Subset, FS_CardinalityType
<1>3. order \in [D -> S] /\ \A i, j \in D : i # j => order[i] # order[j]
  BY DEF SetToSeqs
<1> HIDE DEF S
<1>4. IsFiniteSet(D) /\ Cardinality(D) = Cardinality(S)
  BY <1>2, FS_Interval
<1>5. order \in Surjection(D, S)
  <2>1. order \in Injection(D, S)
    BY <1>3 DEF Injection, IsInjective
  <2> QED BY <1>2, <1>4, <2>1, FS_Injection
<1>6. order \in Seq(Flight) /\ DOMAIN order = D
  <2>1. order \in [D -> Flight] /\ Cardinality(S) \in Nat
    BY <1>1, <1>2, <1>3
  <2> QED BY <2>1
<1>7. Range(order) = S
  BY <1>3, <1>5 DEF Surjection, Range
<1>8. /\ q \o order \in Seq(Flight)
      /\ Range(q \o order) = Range(q) \cup Range(order)
  <2>1. /\ q \o order \in Seq(Flight)
        /\ DOMAIN q = 1 .. Len(q) /\ Len(q) \in Nat
        /\ DOMAIN order = 1 .. Len(order) /\ Len(order) \in Nat
        /\ DOMAIN (q \o order) = 1 .. (Len(q) + Len(order))
    BY <1>6
  <2>2. /\ \A i \in DOMAIN q :
             i \in DOMAIN (q \o order) /\ (q \o order)[i] = q[i]
        /\ \A i \in DOMAIN order :
             /\ Len(q) + i \in DOMAIN (q \o order)
             /\ (q \o order)[Len(q) + i] = order[i]
    <3>1. ASSUME NEW i \in DOMAIN q
          PROVE  i \in DOMAIN (q \o order) /\ (q \o order)[i] = q[i]
      BY <1>6, <2>1
    <3>2. ASSUME NEW i \in DOMAIN order
          PROVE  /\ Len(q) + i \in DOMAIN (q \o order)
                 /\ (q \o order)[Len(q) + i] = order[i]
      <4>1. i \in 1 .. Len(order) /\ Len(order) \in Nat /\ Len(q) \in Nat
            /\ Len(q) + i \in 1 .. (Len(q) + Len(order))
            /\ Len(q) + i - Len(q) = i
        BY <2>1
      <4> QED BY <1>6, <2>1, <4>1
    <3> QED BY <3>1, <3>2
  <2>3. ASSUME NEW i \in DOMAIN (q \o order)
        PROVE  (q \o order)[i] \in Range(q) \cup Range(order)
    <3>1. CASE i \in DOMAIN q
      BY <2>2, <3>1 DEF Range
    <3>2. CASE i \notin DOMAIN q
      <4>1. PICK j \in DOMAIN order : i = Len(q) + j
        <5>1. i - Len(q) \in DOMAIN order /\ i = Len(q) + (i - Len(q))
          BY <2>1, <3>2
        <5> QED BY <5>1
      <4> QED BY <2>2, <4>1 DEF Range
    <3> QED BY <3>1, <3>2
  <2> QED BY <2>1, <2>2, <2>3, ZenonT(60) DEF Range
<1> QED BY <1>1, <1>7, <1>8

-----------------------------------------------------------------------------
(* What follows from the invariant, and what keeps its parts. *)

(* The replies to a set of flights. *)
LEMMA ReplyFacts ==
  ASSUME NEW S
  PROVE  \A f : f \in UNION {TlsReply(g) : g \in S} <=>
           \/ f \in {"SH", "SF"} /\ "CH" \in S
           \/ f = "CF" /\ "SF" \in S
<1>1. ASSUME NEW f
      PROVE  f \in UNION {TlsReply(g) : g \in S} <=>
               \E g \in S : f \in TlsReply(g)
  OBVIOUS
<1>2. ASSUME NEW f, NEW g
      PROVE  f \in TlsReply(g) <=> \/ g = "CH" /\ f \in {"SH", "SF"}
                                   \/ g = "SF" /\ f = "CF"
  BY DEF TlsReply
<1> QED BY <1>1, <1>2

(* What each side has produced, in the terms of what it has read. *)
LEMMA ProducedFacts ==
  ASSUME Types, Causal
  PROVE  /\ consumed["client"] \subseteq {"SH", "SF"}
         /\ consumed["server"] \subseteq {"CH", "CF"}
         /\ \A f : f \in Produced("client") <=>
              f = "CH" \/ (f = "CF" /\ "SF" \in consumed["client"])
         /\ \A f : f \in Produced("server") <=>
              f \in {"SH", "SF"} /\ "CH" \in consumed["server"]
         /\ "CF" \in consumed["server"] => "SF" \in consumed["client"]
         /\ consumed["client"] # {} => "CH" \in consumed["server"]
<1>1. /\ consumed["client"] \subseteq Produced("server")
      /\ consumed["server"] \subseteq Produced("client")
  BY DEF Causal, Endpoint, Peer
<1>2. \A f : f \in Produced("client") <=>
        \/ f = "CH"
        \/ f \in {"SH", "SF"} /\ "CH" \in consumed["client"]
        \/ f = "CF" /\ "SF" \in consumed["client"]
  BY ReplyFacts DEF Produced
<1>3. \A f : f \in Produced("server") <=>
        \/ f \in {"SH", "SF"} /\ "CH" \in consumed["server"]
        \/ f = "CF" /\ "SF" \in consumed["server"]
  BY ReplyFacts DEF Produced
<1> QED BY <1>1, <1>2, <1>3

(* Keys that are gone are not missed. *)
LEMMA KeysGone ==
  ASSUME HandshakeInv, NEW e \in Endpoint, NEW f \in Produced(e),
         keys[e][SpaceOf(f)] = "none"
  PROVE  f \in consumed[Peer(e)]
<1>1. Types /\ Causal /\ KeysOK
  BY DEF HandshakeInv
<1>2. CASE e = "client"
  <2>1. f \in {"CH", "CF"} /\ (f = "CF" => "SF" \in consumed["client"])
    BY <1>1, <1>2, ProducedFacts
  <2>2. "CF" \in consumed["server"]
    BY <1>1, <1>2, <2>1 DEF KeysOK, Causal, SpaceOf
  <2> QED BY <1>1, <1>2, <2>1, <2>2 DEF Causal, Peer
<1>3. CASE e = "server"
  <2>1. f \in {"SH", "SF"} /\ "CH" \in consumed["server"]
    BY <1>1, <1>3, ProducedFacts
  <2>2. "CF" \in consumed["server"]
    BY <1>1, <1>3, <2>1 DEF KeysOK, SpaceOf
  <2>3. "SF" \in consumed["client"] /\ "SH" \in consumed["client"]
    BY <1>1, <2>2, ProducedFacts DEF Causal
  <2> QED BY <1>3, <2>1, <2>3 DEF Peer
<1> QED BY <1>2, <1>3 DEF Endpoint

(* What is read stays read, so what has been produced stays so. *)
Grows == \A e \in Endpoint : consumed[e] \subseteq consumed'[e]

LEMMA ProducedGrows ==
  ASSUME Grows
  PROVE  \A e \in Endpoint : /\ Produced(e) \subseteq Produced(e)'
                             /\ Emitted(e) \subseteq Emitted(e)'
<1>1. ASSUME NEW e \in Endpoint, NEW f \in Produced(e)
      PROVE  f \in Produced(e)'
  <2>1. consumed[e] \subseteq consumed'[e]
    BY DEF Grows
  <2>2. \/ e = "client" /\ f = "CH"
        \/ f \in {"SH", "SF"} /\ "CH" \in consumed[e]
        \/ f = "CF" /\ "SF" \in consumed[e]
    BY ReplyFacts DEF Produced
  <2> DEFINE now == consumed'[e]
  <2>3. \/ e = "client" /\ f = "CH"
        \/ f \in UNION {TlsReply(g) : g \in now}
    BY <2>1, <2>2, ReplyFacts
  <2> QED BY <2>3 DEF Produced
<1>2. consumed["server"] \subseteq consumed'["server"]
  BY DEF Grows, Endpoint
<1> QED BY <1>1, <1>2 DEF Emitted

LEMMA PacketGrows ==
  ASSUME Grows, NEW p \in Packet, GoodPacket(p)
  PROVE  GoodPacket(p)'
<1>1. p.src \in Endpoint
  BY DEF Packet
<1>2. Emitted(p.src) \subseteq Emitted(p.src)'
      /\ consumed[p.src] \subseteq consumed'[p.src]
  BY <1>1, ProducedGrows DEF Grows
<1> QED BY <1>2 DEF GoodPacket

(* A step that reads nothing leaves what has been produced as it is. *)
LEMMA ProducedSame ==
  ASSUME consumed' = consumed
  PROVE  /\ Grows
         /\ \A e \in Endpoint : Produced(e)' = Produced(e)
         /\ \A e \in Endpoint : Emitted(e)' = Emitted(e)
BY DEF Grows, Produced, Emitted

LEMMA CausalSame ==
  ASSUME Causal, consumed' = consumed, complete' = complete
  PROVE  Causal'
BY DEF Causal, Produced

-----------------------------------------------------------------------------
(* One lemma per action. *)

(* What a packet is made of. *)
LEMMA SendFacts ==
  ASSUME HandshakeInv, NEW e \in Endpoint
  PROVE  LET sp     == SelectedSpace(e)
             queue  == LostAfterSelect(e)
             frames == TlsFrames(e, sp) \cup DoneFrames(e, sp)
                         \cup LostFrames(queue, sp)
         IN /\ sp \in Space
            /\ QueueAfter(queue, sp) \in Seq(Flight)
            /\ Range(QueueAfter(queue, sp)) \subseteq Range(lost[e])
            /\ \A f \in Range(lost[e]) :
                 \/ f \in Range(QueueAfter(queue, sp)) \/ f \in frames
                 \/ keys[e][SpaceOf(f)] = "none"
            /\ frames \in SUBSET Frame /\ frames \subseteq Emitted(e)
            /\ \A f \in frames : SpaceOf(f) = sp
            /\ DoneFrames(e, sp) # {} => e = "server" /\ pending_done
<1> DEFINE sp     == SelectedSpace(e)
           queue  == LostAfterSelect(e)
           after  == QueueAfter(queue, sp)
           out    == LostFrames(queue, sp)
<1>1. Types /\ Causal /\ Queues
  BY DEF HandshakeInv
<1>2. sp \in Space
  <2>1. \A f : SpaceOf(f) \in Space
    BY DEF SpaceOf, Space
  <2> QED BY <2>1 DEF SelectedSpace, Space
<1>3. /\ queue \in Seq(Flight) /\ Range(queue) \subseteq Range(lost[e])
      /\ \A f \in Range(lost[e]) :
           f \in Range(queue) \/ keys[e][SpaceOf(f)] = "none"
  <2>1. queue = lost[e] \/ queue = Purged(e)
    BY DEF LostAfterSelect
  <2>2. lost[e] \in Seq(Flight)
    BY <1>1 DEF Types
  <2> QED BY <1>1, <2>1, <2>2, PurgedFacts
<1> HIDE DEF sp, queue
<1>4. /\ after \in Seq(Flight) /\ Range(after) \subseteq Range(queue)
      /\ Range(queue) \subseteq Range(after) \cup out
      /\ out \subseteq Range(queue)
      /\ \A f \in out : SpaceOf(f) = sp
  BY <1>2, <1>3, QueueFacts
<1>5. out \subseteq Flight
  BY <1>3 DEF LostFrames
<1>6. /\ TlsFrames(e, sp) \subseteq pending_tls[e]
      /\ \A f \in TlsFrames(e, sp) : SpaceOf(f) = sp
      /\ pending_tls[e] \in SUBSET Flight
  BY <1>1 DEF TlsFrames, Types
<1>7. /\ DoneFrames(e, sp) \subseteq {"DONE"}
      /\ DoneFrames(e, sp) # {} => e = "server" /\ pending_done /\ sp = "app"
  BY DEF DoneFrames
<1>8. /\ "DONE" \in DoneFrames(e, sp) => "DONE" \in Emitted(e)
      /\ SpaceOf("DONE") = "app"
  BY <1>1, <1>7 DEF Queues, Emitted, SpaceOf
<1>9. pending_tls[e] \cup Range(lost[e]) \subseteq Emitted(e)
  BY <1>1 DEF Queues
<1> DEFINE frames == TlsFrames(e, sp) \cup DoneFrames(e, sp) \cup out
<1> HIDE DEF after, out
<1>10. frames \in SUBSET Frame /\ frames \subseteq Emitted(e)
  BY <1>3, <1>4, <1>5, <1>6, <1>7, <1>8, <1>9 DEF Frame
<1>11. \A f \in frames : SpaceOf(f) = sp
  BY <1>4, <1>6, <1>7, <1>8
<1>12. \A f \in Range(lost[e]) :
         \/ f \in Range(after) \/ f \in frames
         \/ keys[e][SpaceOf(f)] = "none"
  BY <1>3, <1>4
<1>13. Range(after) \subseteq Range(lost[e])
  BY <1>3, <1>4
<1> QED BY <1>2, <1>4, <1>7, <1>10, <1>11, <1>12, <1>13
        DEF sp, queue, after, out

LEMMA SendKeeps ==
  ASSUME HandshakeInv, NEW e \in Endpoint, Send(e)
  PROVE  HandshakeInv'
<1> DEFINE sp     == SelectedSpace(e)
           queue  == LostAfterSelect(e)
           after  == QueueAfter(queue, sp)
           frames == TlsFrames(e, sp) \cup DoneFrames(e, sp)
                       \cup LostFrames(queue, sp)
           ack    == pending_ack[e][sp]
           done   == DoneFrames(e, sp) # {}
           pkt    == [src |-> e, sp |-> sp, frames |-> frames,
                      live |-> frames # {}, acks |-> ack /\ received_pns[e][sp],
                      key |-> keys[e][sp],
                      first_dcid |-> e = "client" /\ (replaced \/ ~dcid_locked)]
<1>1. Types /\ Causal /\ KeysOK /\ Queues /\ Traffic /\ FlightsKept
  BY DEF HandshakeInv
<1>2. /\ sp \in Space /\ after \in Seq(Flight)
      /\ Range(after) \subseteq Range(lost[e])
      /\ \A f \in Range(lost[e]) :
           \/ f \in Range(after) \/ f \in frames
           \/ keys[e][SpaceOf(f)] = "none"
      /\ frames \in SUBSET Frame /\ frames \subseteq Emitted(e)
      /\ \A f \in frames : SpaceOf(f) = sp
      /\ done => e = "server" /\ pending_done
  BY SendFacts
<1>3. /\ pending_tls' = [pending_tls EXCEPT ![e] = @ \ frames]
      /\ pending_done' => pending_done
      /\ pending_ack' = [pending_ack EXCEPT ![e][sp] = FALSE]
      /\ received_pns' = [received_pns EXCEPT ![e][sp] = @ /\ ~ack]
      /\ lost' = [lost EXCEPT ![e] = after]
      /\ keys' = IF done THEN [keys EXCEPT ![e] = Discarded(@)] ELSE keys
      /\ consumed' = consumed /\ complete' = complete
  BY DEF Send
<1>4. \/ keys[e][sp] = "none" /\ net' = net /\ sent' = sent
      \/ /\ keys[e][sp] # "none"
         /\ net' \subseteq net \cup {pkt}
         /\ sent' = [sent EXCEPT ![e] = @ \cup frames]
  <2>1. CASE keys[e][sp] = "none"
    BY <2>1 DEF Send
  <2>2. CASE keys[e][sp] # "none"
    <3>1. \E others \in Room(e) : net' = others \cup {pkt}
      BY <2>2 DEF Send
    <3>2. \A others \in Room(e) : others \subseteq net
      BY DEF Room
    <3>3. sent' = [sent EXCEPT ![e] = @ \cup frames]
      BY <2>2 DEF Send
    <3> HIDE DEF pkt
    <3> QED BY <2>2, <3>1, <3>2, <3>3
  <2> QED BY <2>1, <2>2
<1>5. /\ pkt \in [src: Endpoint, sp: Space, frames: SUBSET Frame,
                  live: BOOLEAN, acks: BOOLEAN,
                  key: {"none", "good", "wrong"}, first_dcid: BOOLEAN]
      /\ pkt.src = e /\ pkt.sp = sp /\ pkt.frames = frames
      /\ pkt.key = keys[e][sp]
      /\ pkt.live => frames # {}
      /\ pkt.acks => received_pns[e][sp]
  <2>1. /\ ack \in BOOLEAN /\ received_pns[e][sp] \in BOOLEAN
        /\ keys[e][sp] \in {"none", "good", "wrong"}
    BY <1>1, <1>2 DEF Types
  <2> HIDE DEF sp, frames, ack
  <2> QED BY <1>2, <2>1
<1> HIDE DEF sp, queue, after, frames, done, ack, pkt
<1>6. keys[e][sp] # "none" => pkt \in Packet
  BY <1>5 DEF Packet
<1>7. GoodPacket(pkt)
  <2>1. received_pns[e][sp] => Own(Peer(e), sp) \subseteq consumed[e]
    BY <1>1, <1>2 DEF Queues
  <2> QED BY <1>2, <1>5, <2>1 DEF GoodPacket
<1>8. Grows /\ \A x \in Endpoint : /\ Produced(x)' = Produced(x)
                                   /\ Emitted(x)' = Emitted(x)
  BY <1>3, ProducedSame
<1>9. Types'
  <2>1. net' \subseteq Packet
    BY <1>1, <1>4, <1>6 DEF Types
  <2>2. sent' \in [Endpoint -> SUBSET Frame]
    BY <1>1, <1>2, <1>4, ZenonT(60) DEF Types
  <2>3. keys' \in [Endpoint -> [Space -> {"none", "good", "wrong"}]]
    <3>1. \A t \in [Space -> {"none", "good", "wrong"}] :
            Discarded(t) \in [Space -> {"none", "good", "wrong"}]
      BY DEF Discarded
    <3> QED BY <1>1, <1>3, <3>1 DEF Types
  <2>4. received_pns' \in [Endpoint -> [Space -> BOOLEAN]]
    <3>1. (received_pns[e][sp] /\ ~ack) \in BOOLEAN
      OBVIOUS
    <3> QED BY <1>1, <1>2, <1>3, <3>1 DEF Types
  <2>5. pending_ack' \in [Endpoint -> [Space -> BOOLEAN]]
    BY <1>1, <1>2, <1>3 DEF Types
  <2>6. pending_tls' \in [Endpoint -> SUBSET Flight]
        /\ lost' \in [Endpoint -> Seq(Flight)]
    BY <1>1, <1>2, <1>3 DEF Types
  <2> QED BY <1>1, <1>3, <2>1, <2>2, <2>3, <2>4, <2>5, <2>6 DEF Types
<1>10. Causal'
  BY <1>1, <1>3, CausalSame
<1>11. KeysOK'
  <2>1. CASE done
    <3>1. e = "server" /\ "CF" \in consumed["server"]
      BY <1>1, <1>2, <2>1 DEF Queues
    <3>2. /\ keys'["client"] = keys["client"]
          /\ keys'["server"]["handshake"] = "none"
      BY <1>1, <1>3, <2>1, <3>1 DEF Types, Endpoint, Space, Discarded
    <3> QED BY <1>1, <1>3, <3>1, <3>2 DEF KeysOK
  <2>2. CASE ~done
    BY <1>1, <1>3, <2>2 DEF KeysOK
  <2> QED BY <2>1, <2>2
<1>12. /\ \A x \in Endpoint : pending_tls'[x] \subseteq pending_tls[x]
       /\ \A x \in Endpoint : Range(lost'[x]) \subseteq Range(lost[x])
       /\ \A x \in Endpoint : sent'[x] \subseteq sent[x] \cup Emitted(x)
       /\ \A x \in Endpoint, y \in Space :
            received_pns'[x][y] => received_pns[x][y]
  <2>1. \A x \in Endpoint : pending_tls'[x] \subseteq pending_tls[x]
    BY <1>1, <1>3 DEF Types
  <2>2. \A x \in Endpoint : Range(lost'[x]) \subseteq Range(lost[x])
    BY <1>1, <1>2, <1>3 DEF Types
  <2>3. \A x \in Endpoint : sent'[x] \subseteq sent[x] \cup Emitted(x)
    BY <1>1, <1>2, <1>4 DEF Types
  <2>4. ASSUME NEW x \in Endpoint, NEW y \in Space, received_pns'[x][y]
        PROVE  received_pns[x][y]
    <3>1. CASE x = e /\ y = sp
      BY <1>1, <1>2, <1>3, <2>4, <3>1 DEF Types
    <3>2. CASE ~(x = e /\ y = sp)
      BY <1>1, <1>2, <1>3, <2>4, <3>2 DEF Types
    <3> QED BY <3>1, <3>2
  <2> QED BY <2>1, <2>2, <2>3, <2>4
<1>13. Queues'
  BY <1>1, <1>3, <1>8, <1>12 DEF Queues
<1>14. Traffic'
  <2>1. ASSUME NEW p \in net' PROVE GoodPacket(p)'
    <3>1. p = pkt \/ p \in net
      BY <1>4
    <3>2. GoodPacket(p)
      BY <1>1, <1>7, <3>1 DEF Traffic
    <3>3. p \in Packet
      BY <1>9 DEF Types
    <3> QED BY <1>8, <3>2, <3>3, PacketGrows
  <2> QED BY <2>1 DEF Traffic
<1>15. FlightsKept'
  <2>1. SUFFICES ASSUME NEW x \in Endpoint, NEW f \in Produced(x),
                        f \notin consumed[Peer(x)]
                 PROVE  f \in pending_tls'[x] \cup Range(lost'[x]) \cup sent'[x]
    BY <1>3, <1>8 DEF FlightsKept
  <2>2. f \in pending_tls[x] \cup Range(lost[x]) \cup sent[x]
    BY <1>1, <2>1 DEF FlightsKept
  <2>3. CASE x # e
    <3>1. /\ pending_tls'[x] = pending_tls[x] /\ lost'[x] = lost[x]
          /\ sent'[x] = sent[x]
      BY <1>1, <1>3, <1>4, <2>3 DEF Types
    <3> QED BY <2>2, <3>1
  <2>4. CASE x = e
    <3>1. keys[e][SpaceOf(f)] # "none"
      BY <2>1, <2>4, KeysGone
    <3>2. /\ pending_tls'[e] = pending_tls[e] \ frames /\ lost'[e] = after
          /\ sent[e] \subseteq sent'[e]
      BY <1>1, <1>3, <1>4 DEF Types
    <3>3. f \in frames => f \in sent'[e]
      BY <1>1, <1>2, <1>4, <3>1 DEF Types
    <3> QED BY <1>2, <2>2, <2>4, <3>1, <3>2, <3>3
  <2> QED BY <2>3, <2>4
<1> QED BY <1>9, <1>10, <1>11, <1>13, <1>14, <1>15 DEF HandshakeInv

(* A probe timeout: what was tracked is queued, and nothing is tracked. *)
LEMMA TickKeeps ==
  ASSUME HandshakeInv, NEW e \in Endpoint, Tick(e)
  PROVE  HandshakeInv'
<1>1. Types /\ Causal /\ KeysOK /\ Queues /\ Traffic /\ FlightsKept
  BY DEF HandshakeInv
<1>2. PICK order \in SetToSeqs(Requeued(sent[e])) :
        lost' = [lost EXCEPT ![e] = @ \o order]
  BY DEF Tick
<1>3. /\ sent' = [sent EXCEPT ![e] = {}]
      /\ net' = Stale(e)
      /\ received_pns' = [received_pns EXCEPT ![Peer(e)] =
                            [sp \in Space |-> FALSE]]
      /\ UNCHANGED <<keys, complete, consumed, pending_tls, pending_done,
                     pending_ack>>
  BY DEF Tick, tlsVars
<1>4. /\ lost[e] \in Seq(Flight) /\ sent[e] \in SUBSET Frame
      /\ Peer(e) \in Endpoint
  BY <1>1 DEF Types, Peer, Endpoint
<1>5. /\ lost[e] \o order \in Seq(Flight)
      /\ Range(lost[e] \o order) = Range(lost[e]) \cup (sent[e] \cap Flight)
  BY <1>4, RequeuedFacts
<1> DEFINE queue == lost[e] \o order
<1> HIDE DEF queue
<1>6. /\ lost' \in [Endpoint -> Seq(Flight)] /\ lost'[e] = queue
      /\ \A x \in Endpoint \ {e} : lost'[x] = lost[x]
      /\ sent' \in [Endpoint -> SUBSET Frame] /\ sent'[e] = {}
      /\ \A x \in Endpoint \ {e} : sent'[x] = sent[x]
  <2>1. lost' = [lost EXCEPT ![e] = queue] /\ queue \in Seq(Flight)
    BY <1>2, <1>5 DEF queue
  <2> QED BY <1>1, <1>3, <2>1 DEF Types
<1>7. Range(queue) = Range(lost[e]) \cup (sent[e] \cap Flight)
  BY <1>5 DEF queue
<1>8. Grows /\ \A x \in Endpoint : /\ Produced(x)' = Produced(x)
                                   /\ Emitted(x)' = Emitted(x)
  BY <1>3, ProducedSame
<1>9. ASSUME NEW p \in net'
      PROVE  p \in Packet /\ GoodPacket(p)
  <2>1. PICK q \in net : \/ p = [q EXCEPT !.live = FALSE]
                         \/ p = [q EXCEPT !.acks = FALSE]
    BY <1>3 DEF Stale
  <2>2. q \in Packet /\ GoodPacket(q)
    BY <1>1 DEF Types, Traffic
  <2>3. /\ p \in Packet /\ p.src = q.src /\ p.sp = q.sp
        /\ p.frames = q.frames /\ (p.live => q.live) /\ (p.acks => q.acks)
    BY <2>1, <2>2 DEF Packet
  <2> QED BY <2>2, <2>3 DEF GoodPacket
<1>10. /\ received_pns' \in [Endpoint -> [Space -> BOOLEAN]]
       /\ \A x \in Endpoint, y \in Space :
            received_pns'[x][y] => received_pns[x][y]
  <2>1. [sp \in Space |-> FALSE] \in [Space -> BOOLEAN]
    OBVIOUS
  <2> QED BY <1>1, <1>3, <1>4, <2>1 DEF Types
<1>11. Types'
  <2>1. net' \subseteq Packet
    BY <1>9
  <2> QED BY <1>1, <1>3, <1>6, <1>10, <2>1 DEF Types
<1>12. Causal' /\ KeysOK'
  BY <1>1, <1>3, CausalSame DEF KeysOK
<1>13. Queues'
  <2>1. ASSUME NEW x \in Endpoint
        PROVE  pending_tls'[x] \cup Range(lost'[x]) \cup sent'[x]
                 \subseteq Emitted(x)'
    <3>1. pending_tls[x] \cup Range(lost[x]) \cup sent[x] \subseteq Emitted(x)
      BY <1>1 DEF Queues
    <3>2. CASE x = e
      BY <1>3, <1>6, <1>7, <1>8, <3>1, <3>2
    <3>3. CASE x # e
      BY <1>3, <1>6, <1>8, <3>1, <3>3
    <3> QED BY <3>2, <3>3
  <2>2. pending_done' => "CF" \in consumed'["server"]
    BY <1>1, <1>3 DEF Queues
  <2>3. \A x \in Endpoint, y \in Space :
          received_pns'[x][y] => Own(Peer(x), y) \subseteq consumed'[x]
    BY <1>1, <1>3, <1>10 DEF Queues
  <2> QED BY <2>1, <2>2, <2>3 DEF Queues
<1>14. Traffic'
  BY <1>8, <1>9, PacketGrows DEF Traffic
<1>15. FlightsKept'
  <2>1. SUFFICES ASSUME NEW x \in Endpoint, NEW f \in Produced(x),
                        f \notin consumed[Peer(x)]
                 PROVE  f \in pending_tls[x] \cup Range(lost'[x]) \cup sent'[x]
    BY <1>3, <1>8 DEF FlightsKept
  <2>2. f \in pending_tls[x] \cup Range(lost[x]) \cup sent[x]
    BY <1>1, <2>1 DEF FlightsKept
  <2>3. f \in Flight
    BY <1>1, <2>1, ProducedFacts DEF Endpoint, Flight
  <2>4. CASE x = e
    BY <1>6, <1>7, <2>2, <2>3, <2>4
  <2>5. CASE x # e
    BY <1>6, <2>2, <2>5
  <2> QED BY <2>4, <2>5
<1> QED BY <1>11, <1>12, <1>13, <1>14, <1>15 DEF HandshakeInv

(* Steps that leave the queues alone, read nothing, and at most derive     *)
(* Initial keys again: the packets that stay are as good as before.        *)
LEMMA QuietKeeps ==
  ASSUME HandshakeInv, Types', net' \subseteq net,
         UNCHANGED <<complete, consumed, pending_tls, pending_done, sent,
                     lost, received_pns>>,
         \A e \in Endpoint :
           /\ keys'[e]["handshake"] = keys[e]["handshake"]
           /\ keys[e]["initial"] # "none" => keys'[e]["initial"] # "none"
  PROVE  HandshakeInv'
<1>1. Types /\ Causal /\ KeysOK /\ Queues /\ Traffic /\ FlightsKept
  BY DEF HandshakeInv
<1>2. Grows /\ \A x \in Endpoint : /\ Produced(x)' = Produced(x)
                                   /\ Emitted(x)' = Emitted(x)
  BY ProducedSame
<1>3. KeysOK'
  BY <1>1 DEF KeysOK, Endpoint
<1>4. Queues'
  BY <1>1, <1>2 DEF Queues
<1>5. Traffic'
  BY <1>1, <1>2, PacketGrows DEF Traffic, Types
<1>6. FlightsKept'
  BY <1>1, <1>2 DEF FlightsKept
<1> QED BY <1>1, <1>3, <1>4, <1>5, <1>6, CausalSame DEF HandshakeInv

(* The keys a long-header packet finds. *)
LEMMA InitialKeysFacts ==
  ASSUME Types, NEW e \in Endpoint, NEW p \in Packet
  PROVE  LET table == InitialKeys(e, p)
         IN /\ table \in [Space -> {"none", "good", "wrong"}]
            /\ table["handshake"] = keys[e]["handshake"]
            /\ table["app"] = keys[e]["app"]
            /\ keys[e]["initial"] # "none" => table["initial"] # "none"
<1>1. keys[e] \in [Space -> {"none", "good", "wrong"}]
  BY DEF Types
<1> QED BY <1>1 DEF InitialKeys, Space

(* A packet that is ignored, or closes the connection. *)
LEMMA RefuseKeeps ==
  ASSUME HandshakeInv, NEW e \in Endpoint, NEW p \in net, Receive(e, p),
         \/ Ignore(e, InitialKeys(e, p))
         \/ Fail(e, InitialKeys(e, p))
  PROVE  HandshakeInv'
<1> DEFINE table == InitialKeys(e, p)
<1>1. Types /\ p \in Packet
  BY DEF HandshakeInv, Types
<1>2. /\ table \in [Space -> {"none", "good", "wrong"}]
      /\ table["handshake"] = keys[e]["handshake"]
      /\ keys[e]["initial"] # "none" => table["initial"] # "none"
  BY <1>1, InitialKeysFacts
<1> HIDE DEF table
<1>3. /\ keys' = [keys EXCEPT ![e] = table]
      /\ UNCHANGED <<complete, consumed, pending_tls, pending_done,
                     pending_ack, received_pns, sent>>
  BY DEF Ignore, Fail, tlsVars, ackVars, table
<1>4. net' = net \ {p} /\ lost' = lost
  BY DEF Receive
<1>5. /\ keys' \in [Endpoint -> [Space -> {"none", "good", "wrong"}]]
      /\ \A x \in Endpoint :
           keys'[x] = IF x = e THEN table ELSE keys[x]
  BY <1>1, <1>2, <1>3 DEF Types
<1>6. Types'
  BY <1>1, <1>3, <1>4, <1>5 DEF Types
<1>7. \A x \in Endpoint :
        /\ keys'[x]["handshake"] = keys[x]["handshake"]
        /\ keys[x]["initial"] # "none" => keys'[x]["initial"] # "none"
  BY <1>2, <1>5
<1> QED BY <1>3, <1>4, <1>6, <1>7, QuietKeeps

(* The flights a packet brings: the peer has produced them, and those of   *)
(* the Handshake space need its keys.                                      *)
LEMMA NewFacts ==
  ASSUME HandshakeInv, NEW e \in Endpoint, NEW p \in Packet, GoodPacket(p),
         p.src = Peer(e), InitialKeys(e, p)[p.sp] # "none"
  PROVE  LET new == NewFlights(e, p)
         IN /\ new \subseteq Flight /\ new \subseteq Produced(Peer(e))
            /\ new \subseteq (IF e = "client" THEN {"SH", "SF"}
                                              ELSE {"CH", "CF"})
            /\ \A f \in new : SpaceOf(f) = p.sp
            /\ "SF" \in new => "SH" \in consumed["client"]
            /\ "CF" \in new => "CH" \in consumed["server"]
            /\ Confirms(e, p) => "CF" \in consumed["server"]
            /\ p.frames # {} =>
                 Own(Peer(e), p.sp) \subseteq consumed[e] \cup new
<1> DEFINE new == NewFlights(e, p)
<1>1. Types /\ Causal /\ KeysOK
  BY DEF HandshakeInv
<1>2. /\ new \subseteq Flight /\ new \subseteq p.frames
      /\ p.frames \cap Flight \subseteq consumed[e] \cup new
  BY DEF NewFlights
<1>3. p.frames \subseteq Emitted(Peer(e)) /\ \A f \in p.frames : SpaceOf(f) = p.sp
  BY DEF GoodPacket
<1>4. new \subseteq Produced(Peer(e))
  BY <1>2, <1>3 DEF Emitted, Flight
<1>5. new \subseteq (IF e = "client" THEN {"SH", "SF"} ELSE {"CH", "CF"})
  BY <1>1, <1>4, ProducedFacts DEF Peer, Endpoint
<1> HIDE DEF new
<1>6. "SF" \in new => "SH" \in consumed["client"]
  <2>1. SUFFICES ASSUME "SF" \in new PROVE "SH" \in consumed["client"]
    OBVIOUS
  <2>2. e = "client" /\ p.sp = "handshake"
    BY <1>2, <1>3, <1>5, <2>1 DEF SpaceOf, Endpoint
  <2>3. keys["client"]["handshake"] # "none"
    BY <1>1, <2>2, InitialKeysFacts
  <2> QED BY <1>1, <2>3 DEF KeysOK
<1>7. "CF" \in new => "CH" \in consumed["server"]
  <2>1. SUFFICES ASSUME "CF" \in new PROVE "CH" \in consumed["server"]
    OBVIOUS
  <2>2. e = "server" /\ p.sp = "handshake"
    BY <1>2, <1>3, <1>5, <2>1 DEF SpaceOf, Endpoint
  <2>3. keys["server"]["handshake"] # "none"
    BY <1>1, <2>2, InitialKeysFacts
  <2> QED BY <1>1, <2>3 DEF KeysOK
<1>8. Confirms(e, p) => "CF" \in consumed["server"]
  <2>1. SUFFICES ASSUME Confirms(e, p) PROVE "CF" \in consumed["server"]
    OBVIOUS
  <2>2. Peer(e) = "server" /\ "DONE" \in Emitted("server")
    BY <1>3, <2>1 DEF Confirms, Peer
  <2>3. "DONE" \notin Produced("server")
    BY <1>1, ProducedFacts
  <2> QED BY <2>2, <2>3 DEF Emitted
<1>9. ASSUME NEW f \in p.frames, NEW g \in Own(Peer(e), p.sp)
      PROVE  g \in consumed[e] \cup new
  <2>1. SpaceOf(f) = p.sp /\ SpaceOf(g) = p.sp
    BY <1>3 DEF Own
  <2>2. f \in (IF Peer(e) = "client" THEN {"CH", "CF"}
                                     ELSE {"SH", "SF", "DONE"})
    <3>1. f \in Produced(Peer(e)) \/ (Peer(e) = "server" /\ f = "DONE")
      BY <1>3 DEF Emitted
    <3>2. Peer(e) \in {"client", "server"}
      BY DEF Peer
    <3> QED BY <1>1, <3>1, <3>2, ProducedFacts
  <2>3. g \in (IF Peer(e) = "client" THEN {"CH", "CF"} ELSE {"SH", "SF"})
    BY DEF Own
  <2>4. f = g
    BY <2>1, <2>2, <2>3 DEF SpaceOf
  <2>5. f \in Flight
    BY <2>3, <2>4 DEF Flight
  <2> QED BY <1>2, <2>4, <2>5
<1> QED BY <1>2, <1>3, <1>4, <1>5, <1>6, <1>7, <1>8, <1>9 DEF new

(* A packet that is decrypted. *)
LEMMA ProcessKeeps ==
  ASSUME HandshakeInv, NEW e \in Endpoint, NEW p \in net, Receive(e, p),
         InitialKeys(e, p)[p.sp] # "none", Process(e, p, InitialKeys(e, p))
  PROVE  HandshakeInv'
<1> DEFINE table == InitialKeys(e, p)
           new   == NewFlights(e, p)
           got   == UNION {TlsKeys(e, f) : f \in new}
           more  == [sp \in Space |-> IF sp \in got THEN "good" ELSE table[sp]]
           reply == UNION {TlsReply(f) : f \in new}
           done  == Confirms(e, p)
<1>1. Types /\ Causal /\ KeysOK /\ Queues /\ Traffic /\ FlightsKept
  BY DEF HandshakeInv
<1>2. /\ p \in Packet /\ GoodPacket(p) /\ p.src = Peer(e) /\ p.sp \in Space
      /\ net' = net \ {p} /\ lost' = lost
  BY <1>1 DEF Types, Traffic, Receive, Packet
<1>3. /\ new \subseteq Flight /\ new \subseteq Produced(Peer(e))
      /\ new \subseteq (IF e = "client" THEN {"SH", "SF"} ELSE {"CH", "CF"})
      /\ \A f \in new : SpaceOf(f) = p.sp
      /\ "SF" \in new => "SH" \in consumed["client"]
      /\ "CF" \in new => "CH" \in consumed["server"]
      /\ done => "CF" \in consumed["server"]
      /\ p.frames # {} => Own(Peer(e), p.sp) \subseteq consumed[e] \cup new
  BY <1>2, NewFacts
<1>4. /\ table \in [Space -> {"none", "good", "wrong"}]
      /\ table["handshake"] = keys[e]["handshake"]
      /\ keys[e]["initial"] # "none" => table["initial"] # "none"
      /\ table[p.sp] # "none"
  BY <1>1, <1>2, InitialKeysFacts
<1>5. /\ keys' = [keys EXCEPT ![e] = IF done THEN Discarded(more) ELSE more]
      /\ consumed' = [consumed EXCEPT ![e] = @ \cup new]
      /\ complete' = [complete EXCEPT ![e] = @ \/ "app" \in got]
      /\ pending_tls' = [pending_tls EXCEPT ![e] = @ \cup reply]
      /\ pending_done' = (pending_done \/ "CF" \in new)
      /\ received_pns' = [received_pns EXCEPT ![e][p.sp] = @ \/ p.live]
      /\ pending_ack' = [pending_ack EXCEPT ![e][p.sp] = @ \/ p.frames # {}]
      /\ sent' = [sent EXCEPT ![e] =
                    {f \in @ : ~(p.acks /\ SpaceOf(f) = p.sp)}]
  BY DEF Process
<1>6. /\ "handshake" \in got <=> new \cap {"CH", "SH"} # {}
      /\ "app" \in got <=> new \cap {"SF", "CF"} # {}
  <2>1. \A f \in new : /\ "handshake" \in TlsKeys(e, f) <=> f \in {"CH", "SH"}
                       /\ "app" \in TlsKeys(e, f) <=> f \in {"SF", "CF"}
    BY DEF TlsKeys
  <2> HIDE DEF new
  <2> QED BY <2>1
<1>7. \A f : f \in reply <=> \/ f \in {"SH", "SF"} /\ "CH" \in new
                             \/ f = "CF" /\ "SF" \in new
  <2> HIDE DEF new
  <2> QED BY ReplyFacts
<1>8. more \in [Space -> {"none", "good", "wrong"}]
      /\ \A sp \in Space : more[sp] = IF sp \in got THEN "good" ELSE table[sp]
  <2> HIDE DEF got, table
  <2> QED BY <1>4
<1> HIDE DEF table, new, got, more, reply, done
<1>9. /\ consumed' \in [Endpoint -> SUBSET Flight]
      /\ consumed'[e] = consumed[e] \cup new
      /\ consumed'[Peer(e)] = consumed[Peer(e)]
      /\ \A x \in Endpoint \ {e} : consumed'[x] = consumed[x]
      /\ Peer(e) \in Endpoint /\ Peer(e) # e /\ Peer(Peer(e)) = e
      /\ \A x \in Endpoint : x = e \/ x = Peer(e)
  BY <1>1, <1>3, <1>5 DEF Types, Peer, Endpoint
<1>10. Grows /\ \A x \in Endpoint : /\ Produced(x) \subseteq Produced(x)'
                                    /\ Emitted(x) \subseteq Emitted(x)'
  <2>1. Grows
    BY <1>9 DEF Grows
  <2> QED BY <2>1, ProducedGrows
<1>11. ASSUME NEW f
       PROVE  f \in Produced(e)' <=> f \in Produced(e) \/ f \in reply
  <2> DEFINE now == consumed'[e]
  <2>1. f \in UNION {TlsReply(g) : g \in now} <=>
          f \in UNION {TlsReply(g) : g \in consumed[e]} \/ f \in reply
    BY <1>7, <1>9, ReplyFacts
  <2> QED BY <2>1 DEF Produced
<1>12. Causal'
  <2>1. \A x \in Endpoint : consumed'[x] \subseteq Produced(Peer(x))'
    BY <1>1, <1>3, <1>9, <1>10 DEF Causal
  <2>2. /\ "SF" \in consumed'["client"] => "SH" \in consumed'["client"]
        /\ "CF" \in consumed'["server"] => "CH" \in consumed'["server"]
    BY <1>1, <1>3, <1>9 DEF Causal, Endpoint
  <2>3. \A x \in Endpoint : complete'[x] \in BOOLEAN /\
          (complete'[x] <=> complete[x] \/ (x = e /\ "app" \in got))
    BY <1>1, <1>5 DEF Types
  <2>4. /\ complete'["client"] <=> "SF" \in consumed'["client"]
        /\ complete'["server"] <=> "CF" \in consumed'["server"]
    <3>1. CASE e = "client"
      BY <1>1, <1>3, <1>6, <1>9, <2>3, <3>1 DEF Causal, Endpoint
    <3>2. CASE e = "server"
      BY <1>1, <1>3, <1>6, <1>9, <2>3, <3>2 DEF Causal, Endpoint
    <3> QED BY <3>1, <3>2 DEF Endpoint
  <2> QED BY <2>1, <2>2, <2>4 DEF Causal
<1>13. /\ keys' \in [Endpoint -> [Space -> {"none", "good", "wrong"}]]
       /\ \A x \in Endpoint \ {e} : keys'[x] = keys[x]
       /\ ~done => keys'[e] = more
       /\ done => keys'[e]["handshake"] = "none"
  <2>1. Discarded(more) \in [Space -> {"none", "good", "wrong"}]
        /\ Discarded(more)["handshake"] = "none"
    BY <1>8 DEF Discarded, Space
  <2> QED BY <1>1, <1>5, <1>8, <2>1 DEF Types
<1>14. KeysOK'
  <2>1. CASE e = "client"
    <3>1. keys'["server"] = keys["server"]
          /\ consumed'["server"] = consumed["server"]
      BY <1>9, <1>13, <2>1 DEF Endpoint
    <3>2. keys'["client"]["handshake"] # "none" =>
            "SH" \in new \/ keys["client"]["handshake"] # "none"
      BY <1>3, <1>4, <1>6, <1>8, <1>13, <2>1 DEF Space
    <3>3. "CF" \notin consumed["server"] =>
            /\ keys'["client"]["initial"] # "none"
            /\ "SH" \in consumed'["client"] =>
                 keys'["client"]["handshake"] # "none"
      BY <1>1, <1>3, <1>4, <1>6, <1>8, <1>9, <1>13, <2>1 DEF Space, KeysOK
    <3> QED BY <1>1, <1>9, <2>1, <3>1, <3>2, <3>3 DEF KeysOK
  <2>2. CASE e = "server"
    <3>1. keys'["client"] = keys["client"]
          /\ consumed'["client"] = consumed["client"] /\ ~done
      BY <1>9, <1>13, <2>2 DEF Endpoint, Confirms, done
    <3>2. keys'["server"]["handshake"] # "none" =>
            "CH" \in new \/ keys["server"]["handshake"] # "none"
      BY <1>3, <1>4, <1>6, <1>8, <1>13, <2>2, <3>1 DEF Space
    <3>3. ASSUME "CF" \notin consumed'["server"], "CH" \in consumed'["server"]
          PROVE  /\ keys'["server"]["initial"] # "none"
                 /\ keys'["server"]["handshake"] # "none"
      <4>1. CASE "CH" \in new
        <5>1. p.sp = "initial" /\ "handshake" \in got
          BY <1>3, <1>6, <4>1 DEF SpaceOf
        <5> QED BY <1>4, <1>8, <1>13, <2>2, <3>1, <5>1 DEF Space
      <4>2. CASE "CH" \notin new
        <5>1. "CH" \in consumed["server"] /\ "CF" \notin consumed["server"]
          BY <1>9, <2>2, <3>3, <4>2
        <5> QED BY <1>1, <1>4, <1>8, <1>13, <2>2, <3>1, <5>1 DEF Space, KeysOK
      <4> QED BY <4>1, <4>2
    <3>4. "CF" \notin consumed'["server"] => "CF" \notin consumed["server"]
      BY <1>9, <2>2
    <3> QED BY <1>1, <1>9, <2>2, <3>1, <3>2, <3>3, <3>4 DEF KeysOK
  <2> QED BY <2>1, <2>2 DEF Endpoint
<1>15. /\ pending_tls' \in [Endpoint -> SUBSET Flight]
       /\ pending_tls'[e] = pending_tls[e] \cup reply
       /\ \A x \in Endpoint \ {e} : pending_tls'[x] = pending_tls[x]
       /\ reply \subseteq Produced(e)'
  <2>1. reply \subseteq Flight
    BY <1>7 DEF Flight
  <2> QED BY <1>1, <1>5, <1>11, <2>1 DEF Types
<1>16. /\ sent' \in [Endpoint -> SUBSET Frame]
       /\ sent'[e] = {f \in sent[e] : ~(p.acks /\ SpaceOf(f) = p.sp)}
       /\ \A x \in Endpoint \ {e} : sent'[x] = sent[x]
  BY <1>1, <1>5 DEF Types
<1>17. /\ received_pns' \in [Endpoint -> [Space -> BOOLEAN]]
       /\ \A x \in Endpoint, y \in Space :
            received_pns'[x][y] =>
              received_pns[x][y] \/ (x = e /\ y = p.sp /\ p.live)
  <2>1. (received_pns[e][p.sp] \/ p.live) \in BOOLEAN
    OBVIOUS
  <2>2. received_pns' \in [Endpoint -> [Space -> BOOLEAN]]
    BY <1>1, <1>2, <1>5, <2>1 DEF Types
  <2>3. ASSUME NEW x \in Endpoint, NEW y \in Space, received_pns'[x][y],
               ~(x = e /\ y = p.sp)
        PROVE  received_pns[x][y]
    BY <1>1, <1>2, <1>5, <2>3 DEF Types
  <2>4. ASSUME received_pns'[e][p.sp]
        PROVE  received_pns[e][p.sp] \/ p.live
    BY <1>1, <1>2, <1>5, <2>4 DEF Types
  <2> QED BY <2>2, <2>3, <2>4
<1>18. Types'
  <2>1. pending_ack' \in [Endpoint -> [Space -> BOOLEAN]]
    <3>1. (pending_ack[e][p.sp] \/ p.frames # {}) \in BOOLEAN
      OBVIOUS
    <3> QED BY <1>1, <1>2, <1>5, <3>1 DEF Types
  <2>2. complete' \in [Endpoint -> BOOLEAN]
    <3>1. (complete[e] \/ "app" \in got) \in BOOLEAN
      OBVIOUS
    <3> QED BY <1>1, <1>5, <3>1 DEF Types
  <2> QED BY <1>1, <1>2, <1>9, <1>13, <1>15, <1>16, <1>17, <2>1, <2>2 DEF Types
<1>19. Queues'
  <2>1. pending_done' => "CF" \in consumed'["server"]
    <3>1. "CF" \in new => e = "server"
      BY <1>3 DEF Endpoint
    <3>2. consumed["server"] \subseteq consumed'["server"]
      BY <1>10 DEF Grows, Endpoint
    <3> QED BY <1>1, <1>5, <1>9, <3>1, <3>2 DEF Queues
  <2>2. ASSUME NEW x \in Endpoint
        PROVE  pending_tls'[x] \cup Range(lost'[x]) \cup sent'[x]
                 \subseteq Emitted(x)'
    <3>1. pending_tls[x] \cup Range(lost[x]) \cup sent[x] \subseteq Emitted(x)'
      BY <1>1, <1>10 DEF Queues
    <3>2. Produced(x)' \subseteq Emitted(x)'
      BY DEF Emitted
    <3>3. pending_tls'[x] \subseteq pending_tls[x] \cup Produced(x)'
          /\ sent'[x] \subseteq sent[x]
      BY <1>15, <1>16
    <3> QED BY <1>2, <3>1, <3>2, <3>3
  <2>3. ASSUME NEW x \in Endpoint, NEW y \in Space, received_pns'[x][y]
        PROVE  Own(Peer(x), y) \subseteq consumed'[x]
    <3>1. CASE received_pns[x][y]
      BY <1>1, <1>10, <3>1 DEF Queues, Grows
    <3>2. CASE x = e /\ y = p.sp /\ p.live
      <4>1. p.frames # {}
        BY <1>2, <3>2 DEF GoodPacket
      <4> QED BY <1>3, <1>9, <3>2, <4>1
    <3> QED BY <1>17, <2>3, <3>1, <3>2
  <2> QED BY <2>1, <2>2, <2>3 DEF Queues
<1>20. Traffic'
  BY <1>1, <1>2, <1>10, PacketGrows DEF Traffic, Types
<1>21. FlightsKept'
  <2>1. SUFFICES ASSUME NEW x \in Endpoint, NEW f, f \in Produced(x)',
                        f \notin consumed'[Peer(x)]
                 PROVE  f \in pending_tls'[x] \cup Range(lost[x]) \cup sent'[x]
    BY <1>2 DEF FlightsKept
  <2>2. CASE x = e
    <3>1. CASE f \in reply
      BY <1>15, <2>2, <3>1
    <3>2. CASE f \in Produced(e)
      <4>1. f \notin consumed[Peer(e)]
        BY <1>9, <2>1, <2>2
      <4>2. f \in pending_tls[e] \cup Range(lost[e]) \cup sent[e]
        BY <1>1, <3>2, <4>1 DEF FlightsKept
      <4>3. ASSUME p.acks, SpaceOf(f) = p.sp PROVE FALSE
        <5>1. Own(e, p.sp) \subseteq consumed[Peer(e)]
          BY <1>2, <1>9, <4>3 DEF GoodPacket
        <5>2. f \in (IF e = "client" THEN {"CH", "CF"} ELSE {"SH", "SF"})
          BY <1>1, <3>2, ProducedFacts DEF Endpoint
        <5> QED BY <4>1, <4>3, <5>1, <5>2 DEF Own
      <4> QED BY <1>15, <1>16, <2>2, <4>2, <4>3
    <3> QED BY <1>11, <2>1, <2>2, <3>1, <3>2
  <2>3. CASE x = Peer(e)
    <3>1. f \in Produced(x)
      BY <1>9, <2>1, <2>3 DEF Produced
    <3>2. f \notin consumed[Peer(x)]
      BY <1>9, <2>1, <2>3
    <3>3. f \in pending_tls[x] \cup Range(lost[x]) \cup sent[x]
      BY <1>1, <3>1, <3>2 DEF FlightsKept
    <3> QED BY <1>9, <1>15, <1>16, <2>3, <3>3
  <2> QED BY <1>9, <2>2, <2>3
<1> QED BY <1>12, <1>14, <1>18, <1>19, <1>20, <1>21 DEF HandshakeInv

(* recv_packet *)
LEMMA ReceiveKeeps ==
  ASSUME HandshakeInv, NEW e \in Endpoint, NEW p \in net, Receive(e, p)
  PROVE  HandshakeInv'
<1> DEFINE table == InitialKeys(e, p)
<1>1. Recv(e, p, table)
  BY DEF Receive
<1>2. \/ Ignore(e, table) \/ Fail(e, table)
      \/ table[p.sp] # "none" /\ Process(e, p, table)
  <2> HIDE DEF table
  <2> QED BY <1>1 DEF Recv
<1> QED BY <1>2, RefuseKeeps, ProcessKeeps

(* A Retry comes before anything has been read: the client starts over. *)
LEMMA RetryKeeps ==
  ASSUME HandshakeInv, NEW p \in net, ReceiveRetry(p)
  PROVE  HandshakeInv'
<1>1. Types /\ Causal /\ KeysOK /\ Queues /\ FlightsKept
  BY DEF HandshakeInv
<1>2. /\ consumed["server"] = {} /\ net' = {}
      /\ keys' = [keys EXCEPT !["client"]["initial"] = "good"]
      /\ pending_tls' = [pending_tls EXCEPT !["client"] = {"CH"}]
      /\ pending_ack' = [pending_ack EXCEPT !["client"]["initial"] = FALSE]
      /\ received_pns' = [received_pns EXCEPT !["client"]["initial"] = FALSE]
      /\ UNCHANGED <<complete, consumed, pending_done, sent, lost>>
  BY DEF ReceiveRetry
<1>3. "client" \in Endpoint /\ "initial" \in Space /\ "handshake" \in Space
  BY DEF Endpoint, Space
<1>4. consumed["client"] = {}
  BY <1>1, <1>2, ProducedFacts
<1>5. \A f : /\ f \in Produced("client") <=> f = "CH"
             /\ f \notin Produced("server")
  BY <1>1, <1>2, <1>4, ProducedFacts
<1>6. Grows /\ \A x \in Endpoint : /\ Produced(x)' = Produced(x)
                                   /\ Emitted(x)' = Emitted(x)
  BY <1>2, ProducedSame
<1>7. /\ keys' \in [Endpoint -> [Space -> {"none", "good", "wrong"}]]
      /\ keys'["client"]["initial"] = "good"
      /\ \A x \in Endpoint : keys'[x]["handshake"] = keys[x]["handshake"]
      /\ keys'["server"] = keys["server"]
  BY <1>1, <1>2, <1>3 DEF Types, Endpoint, Space
<1>8. /\ received_pns' \in [Endpoint -> [Space -> BOOLEAN]]
      /\ \A x \in Endpoint, y \in Space :
           received_pns'[x][y] => received_pns[x][y]
  BY <1>1, <1>2, <1>3 DEF Types
<1>9. /\ pending_tls' \in [Endpoint -> SUBSET Flight]
      /\ pending_tls'["client"] = {"CH"}
      /\ \A x \in Endpoint \ {"client"} : pending_tls'[x] = pending_tls[x]
  BY <1>1, <1>2, <1>3 DEF Types, Flight
<1>10. Types'
  <2>1. pending_ack' \in [Endpoint -> [Space -> BOOLEAN]]
    BY <1>1, <1>2, <1>3 DEF Types
  <2> QED BY <1>1, <1>2, <1>7, <1>8, <1>9, <2>1 DEF Types
<1>11. KeysOK'
  BY <1>1, <1>2, <1>3, <1>4, <1>7 DEF KeysOK
<1>12. Queues'
  <2>1. ASSUME NEW x \in Endpoint
        PROVE  pending_tls'[x] \cup Range(lost'[x]) \cup sent'[x]
                 \subseteq Emitted(x)'
    <3>1. pending_tls[x] \cup Range(lost[x]) \cup sent[x] \subseteq Emitted(x)
      BY <1>1 DEF Queues
    <3>2. "CH" \in Emitted("client")
      BY <1>5 DEF Emitted
    <3> QED BY <1>2, <1>6, <1>9, <3>1, <3>2
  <2> QED BY <1>1, <1>2, <1>8, <2>1 DEF Queues
<1>13. FlightsKept'
  <2>1. SUFFICES ASSUME NEW x \in Endpoint, NEW f \in Produced(x)
                 PROVE  f \in pending_tls'[x]
    BY <1>6 DEF FlightsKept
  <2> QED BY <1>5, <1>9 DEF Endpoint
<1>14. Traffic'
  BY <1>2 DEF Traffic
<1>15. Causal'
  BY <1>1, <1>2, CausalSame
<1> QED BY <1>10, <1>11, <1>12, <1>13, <1>14, <1>15 DEF HandshakeInv

(* A packet is lost, or nothing happens. *)
LEMMA StutterKeeps ==
  ASSUME HandshakeInv, UNCHANGED vars \/ \E p \in net : Drop(p)
  PROVE  HandshakeInv'
<1>1. /\ net' \subseteq net
      /\ UNCHANGED <<keys, complete, consumed, pending_tls, pending_done,
                     sent, lost, received_pns, pending_ack>>
  BY DEF vars, Drop, tlsVars, ackVars
<1>2. Types'
  BY <1>1 DEF HandshakeInv, Types
<1> QED BY <1>1, <1>2, QuietKeeps

LEMMA InitHandshake ==
  ASSUME Init
  PROVE  HandshakeInv
<1>1. Types
  BY DEF Init, Types, Endpoint, Space, Flight, Frame
<1>2. /\ consumed["client"] = {} /\ consumed["server"] = {}
      /\ complete["client"] = FALSE /\ complete["server"] = FALSE
      /\ keys["client"]["initial"] = "good"
      /\ keys["client"]["handshake"] = "none"
      /\ keys["server"]["handshake"] = "none"
      /\ pending_tls["client"] = {"CH"} /\ pending_tls["server"] = {}
      /\ \A e \in Endpoint : lost[e] = <<>> /\ sent[e] = {}
      /\ \A e \in Endpoint, sp \in Space : ~received_pns[e][sp]
      /\ ~pending_done /\ net = {}
  BY DEF Init, Endpoint, Space
<1>3. Causal /\ KeysOK /\ Traffic
  BY <1>2 DEF Causal, KeysOK, Traffic, Peer, Endpoint
<1>4. \A f : /\ f \in Produced("client") <=> f = "CH"
             /\ f \notin Produced("server")
  BY <1>1, <1>2, <1>3, ProducedFacts
<1>5. \A e \in Endpoint : Range(lost[e]) = {}
  BY <1>2 DEF Range
<1>6. Queues /\ FlightsKept
  <2>1. pending_tls["client"] \subseteq Emitted("client")
    BY <1>2, <1>4 DEF Emitted
  <2> QED BY <1>2, <1>4, <1>5, <2>1 DEF Queues, FlightsKept, Endpoint
<1> QED BY <1>1, <1>3, <1>6 DEF HandshakeInv

LEMMA HandshakeInvHolds == Spec => []HandshakeInv
<1>1. Init => HandshakeInv
  BY InitHandshake
<1>2. HandshakeInv /\ [Next]_vars => HandshakeInv'
  <2>1. SUFFICES ASSUME HandshakeInv, [Next]_vars PROVE HandshakeInv'
    OBVIOUS
  <2>2. CASE UNCHANGED vars
    BY <2>1, <2>2, StutterKeeps
  <2>3. CASE Next
    BY <2>1, <2>3, SendKeeps, TickKeeps, ReceiveKeeps, RetryKeeps,
       StutterKeeps DEF Next
  <2> QED BY <2>1, <2>2, <2>3
<1> QED BY <1>1, <1>2, PTL DEF Spec

(* send, queue_lost_frames and discard_initial_handshake_keys              *)
(* (connection.cr:937-991, 1207-1217, 296-304, 1509-1523): a flight that   *)
(* TLS has produced is read by the peer, or is in one of the endpoint's    *)
(* queues, whatever the network loses, delays and reorders.                *)
THEOREM NoFlightForgotten == Spec => []FlightsKept
<1>1. HandshakeInv => FlightsKept
  BY DEF HandshakeInv
<1> QED BY <1>1, HandshakeInvHolds, PTL

(* discard_initial_handshake_keys (connection.cr:757-759, 1162-1166,       *)
(* 1509-1523): an endpoint that has completed the handshake and has no     *)
(* Handshake keys any more has a peer that has completed it too and has    *)
(* read every flight.                                                      *)
THEOREM KeysGoInTime == Spec => []DiscardedInTime
<1>1. ASSUME HandshakeInv, NEW e \in Endpoint, complete[e],
             keys[e]["handshake"] = "none"
      PROVE  complete[Peer(e)] /\ Produced(e) \subseteq consumed[Peer(e)]
  <2>1. Types /\ Causal /\ KeysOK
    BY <1>1 DEF HandshakeInv
  <2>2. CASE e = "client"
    <3>1. "SF" \in consumed["client"] /\ "SH" \in consumed["client"]
      BY <1>1, <2>1, <2>2 DEF Causal
    <3>2. "CF" \in consumed["server"] /\ "CH" \in consumed["server"]
      BY <1>1, <2>1, <2>2, <3>1 DEF KeysOK, Causal
    <3> QED BY <2>1, <2>2, <3>2, ProducedFacts DEF Causal, Peer
  <2>3. CASE e = "server"
    <3>1. "CF" \in consumed["server"]
      BY <1>1, <2>1, <2>3 DEF Causal
    <3>2. "SF" \in consumed["client"] /\ "SH" \in consumed["client"]
      BY <2>1, <3>1, ProducedFacts DEF Causal
    <3> QED BY <2>1, <2>3, <3>2, ProducedFacts DEF Causal, Peer
  <2> QED BY <2>2, <2>3 DEF Endpoint
<1>2. HandshakeInv => DiscardedInTime
  BY <1>1 DEF DiscardedInTime
<1> QED BY <1>2, HandshakeInvHolds, PTL
=============================================================================
