-------------------------- MODULE KeyUpdateProofs --------------------------
(***************************************************************************)
(* Key updates for any number of generations.                              *)
(***************************************************************************)
EXTENDS KeyUpdate, TLAPS

(* Nobody is ahead of what the other side has sent: a packet, and what it  *)
(* confirms, is of a generation that its sender has reached.               *)
Reached ==
  /\ \A p \in net : p.gen <= gen[p.src]
  /\ \A e \in Endpoint : confirmed[e] <= gen[Peer(e)]

(* The inductive invariant of every network. *)
Inv == TypeOK /\ PhaseIsParity /\ InStep /\ Reached

(* What one-sided updates x keep in place: the peer follows with its       *)
(* phase, x keeps the key before its own, what is under way is not older   *)
(* than what was received, and nobody has closed.                          *)
Follows(x) ==
  /\ gen[Peer(x)] <= gen[x]
  /\ gen[x] <= confirmed[x] + 1
  /\ peer_key_phase[Peer(x)] = gen[Peer(x)] % 2
  /\ gen[x] > 0 => old[x] = gen[x] - 1
  /\ \A p \in net : p.src = x => p.gen >= gen[Peer(x)]
  /\ \A p \in net : p.src = Peer(x) => p.gen >= confirmed[x]
  /\ \A e \in Endpoint : ~closed[e]

(* Before a packet overtakes another, or an update the answer to the last, *)
(* whoever alone has updated is followed.                                  *)
OneWay ==
  ~hasty /\ ~overtaken =>
    \A x \in Endpoint : updated \subseteq {x} => Follows(x)

-----------------------------------------------------------------------------
(* The other endpoint's peer is this one. *)
LEMMA PeerPeer ==
  ASSUME NEW e \in Endpoint
  PROVE  Peer(e) \in Endpoint /\ Peer(e) # e /\ Peer(Peer(e)) = e
BY DEF Endpoint, Peer

(* The invariant holds at first. *)
LEMMA InitInv == Init => Inv
<1> SUFFICES ASSUME Init PROVE Inv
  OBVIOUS
<1>1. hasty \in BOOLEAN /\ overtaken \in BOOLEAN
  BY Zenon DEF Init
<1>2. TypeOK
  <2>1. /\ gen = [e \in Endpoint |-> 0] /\ old = [e \in Endpoint |-> None]
        /\ key_phase = [e \in Endpoint |-> 0]
        /\ peer_key_phase = [e \in Endpoint |-> 0]
        /\ confirmed = [e \in Endpoint |-> 0] /\ net = {} /\ updated = {}
    BY DEF Init
  <2>2. closed \in [Endpoint -> BOOLEAN]
    BY Zenon DEF Init
  <2> QED
    BY <1>1, <2>1, <2>2, KeyUpdateAssumption DEF TypeOK, None
<1>3. PhaseIsParity /\ InStep /\ Reached
  <2>1. /\ gen = [e \in Endpoint |-> 0] /\ key_phase = [e \in Endpoint |-> 0]
        /\ confirmed = [e \in Endpoint |-> 0] /\ net = {}
    BY DEF Init
  <2> QED
    BY <2>1, PeerPeer DEF PhaseIsParity, InStep, Reached
<1> QED
  BY <1>1, <1>2, <1>3 DEF Inv

(* A self-initiated update: if the peer has answered with the current      *)
(* generation, it is at most one behind afterwards.                        *)
LEMMA TriggerInv ==
  ASSUME Inv, NEW e \in Endpoint, TriggerKeyUpdate(e)
  PROVE  Inv'
<1> USE PeerPeer, KeyUpdateAssumption
<1>0. /\ gen' = [gen EXCEPT ![e] = @ + 1] /\ gen[e] < MaxGen
      /\ UNCHANGED <<closed, net, confirmed, overtaken>>
  BY DEF TriggerKeyUpdate
<1>1. TypeOK'
  <2>1. hasty' \in BOOLEAN
    BY Zenon DEF TriggerKeyUpdate
  <2> QED
    BY <2>1 DEF Inv, TypeOK, TriggerKeyUpdate
<1>2. PhaseIsParity'
  <2>1. /\ gen' = [gen EXCEPT ![e] = @ + 1]
        /\ key_phase' = [key_phase EXCEPT ![e] = 1 - @]
        /\ net' = net
    BY DEF TriggerKeyUpdate
  <2>2. gen[e] \in Nat /\ key_phase[e] = gen[e] % 2
    BY DEF Inv, TypeOK, PhaseIsParity
  <2>3. 1 - (gen[e] % 2) = (gen[e] + 1) % 2
    BY <2>2
  <2>4. \A x \in Endpoint : key_phase'[x] = gen'[x] % 2
    <3>1. key_phase'[e] = 1 - key_phase[e] /\ gen'[e] = gen[e] + 1
      BY <2>1 DEF Inv, TypeOK
    <3>2. \A x \in Endpoint \ {e} :
            key_phase'[x] = key_phase[x] /\ gen'[x] = gen[x]
      BY <2>1 DEF Inv, TypeOK
    <3>3. \A x \in Endpoint : key_phase[x] = gen[x] % 2
      BY DEF Inv, PhaseIsParity
    <3>4. key_phase'[e] = gen'[e] % 2
      BY <2>2, <2>3, <3>1
    <3> QED
      BY <3>2, <3>3, <3>4
  <2> QED
    BY <2>1, <2>4 DEF Inv, PhaseIsParity
<1>3. InStep'
  <2> SUFFICES ASSUME ~hasty'
               PROVE  \A x \in Endpoint : gen'[x] <= gen'[Peer(x)] + 1
    BY Zenon DEF InStep
  <2>1. ~hasty /\ confirmed[e] = gen[e]
    BY Zenon DEF TriggerKeyUpdate
  <2>2. \A x \in Endpoint : gen[x] <= gen[Peer(x)] + 1
    BY <2>1, Zenon DEF Inv, InStep
  <2> QED
    BY <1>0, <2>1, <2>2 DEF Inv, TypeOK, Reached
<1>4. Reached'
  BY DEF Inv, TypeOK, Reached, TriggerKeyUpdate, Packet
<1> QED
  BY <1>1, <1>2, <1>3, <1>4 DEF Inv

(* A packet that is sent carries the sender's generation and its parity. *)
LEMMA SendInv ==
  ASSUME Inv, NEW e \in Endpoint, Send(e)
  PROVE  Inv'
<1> USE PeerPeer, KeyUpdateAssumption
<1>1. TypeOK'
  BY DEF Inv, TypeOK, Send, keyVars, Packet
<1>2. PhaseIsParity'
  BY DEF Inv, TypeOK, PhaseIsParity, Send, keyVars
<1>3. InStep'
  BY DEF Inv, InStep, Send, keyVars
<1>4. Reached'
  BY DEF Inv, TypeOK, Reached, Send, keyVars
<1> QED
  BY <1>1, <1>2, <1>3, <1>4 DEF Inv

(* A packet of the peer confirms only a generation the peer has reached. *)
LEMMA NotedInv ==
  ASSUME Inv, NEW e \in Endpoint, NEW p \in net, p.src = Peer(e), Noted(e, p)
  PROVE  /\ confirmed' \in [Endpoint -> 0 .. MaxGen]
         /\ \A x \in Endpoint : confirmed'[x] <= gen[Peer(x)]
<1>1. p.gen \in 0 .. MaxGen /\ p.gen <= gen[Peer(e)]
  BY DEF Inv, TypeOK, Reached, Packet
<1> QED
  BY <1>1 DEF Inv, TypeOK, Reached, Noted

(* The peer's update is committed: it was one ahead, and no longer is. *)
LEMMA ReceiveUpdateInv ==
  ASSUME Inv, NEW e \in Endpoint, NEW p \in net, ReceiveUpdate(e, p)
  PROVE  Inv'
<1> USE PeerPeer, KeyUpdateAssumption
<1>0. /\ p.src = Peer(e) /\ p.gen = gen[e] + 1
      /\ Noted(e, p) /\ net' = net \ {p} /\ UNCHANGED closed
      /\ old' = [old EXCEPT ![e] = gen[e]]
      /\ gen' = [gen EXCEPT ![e] = @ + 1]
      /\ peer_key_phase' = [peer_key_phase EXCEPT ![e] = p.phase]
      /\ key_phase' = [key_phase EXCEPT ![e] = p.phase]
  BY DEF ReceiveUpdate, Arrives, Flipped, Commit
<1>1. /\ p.gen \in 0 .. MaxGen /\ p.gen <= gen[Peer(e)]
      /\ p.phase \in 0 .. 1 /\ p.phase = p.gen % 2
  BY <1>0 DEF Inv, TypeOK, PhaseIsParity, Reached, Packet
<1>2. /\ confirmed' \in [Endpoint -> 0 .. MaxGen]
      /\ \A x \in Endpoint : confirmed'[x] <= gen[Peer(x)]
  BY <1>0, NotedInv
<1>7. /\ updated' \subseteq Endpoint
      /\ hasty' = hasty /\ hasty' \in BOOLEAN /\ overtaken' \in BOOLEAN
  BY DEF Inv, TypeOK, ReceiveUpdate, Arrives
<1>3. TypeOK'
  BY <1>0, <1>1, <1>2, <1>7 DEF Inv, TypeOK
<1>4. PhaseIsParity'
  BY <1>0, <1>1 DEF Inv, TypeOK, PhaseIsParity
<1>5. InStep'
  <2> SUFFICES ASSUME ~hasty'
               PROVE  \A x \in Endpoint : gen'[x] <= gen'[Peer(x)] + 1
    BY Zenon DEF InStep
  <2>1. \A x \in Endpoint : gen[x] <= gen[Peer(x)] + 1
    BY <1>7, Zenon DEF Inv, InStep
  <2> QED
    BY <1>0, <1>1, <2>1 DEF Inv, TypeOK
<1>6. Reached'
  <2>1. \A x \in Endpoint :
          gen[x] <= gen'[x] /\ gen[x] \in Nat /\ gen'[x] \in Nat
    BY <1>0 DEF Inv, TypeOK
  <2>2. \A x \in Endpoint : confirmed'[x] \in Nat
    BY <1>2
  <2>3. \A x \in Endpoint : confirmed'[x] <= gen'[Peer(x)]
    BY <1>2, <2>1, <2>2
  <2>4. \A q \in net :
          q.gen \in Nat /\ q.src \in Endpoint /\ q.gen <= gen[q.src]
    BY DEF Inv, TypeOK, Reached, Packet
  <2>5. \A q \in net' : q.gen <= gen'[q.src]
    BY <1>0, <2>1, <2>4
  <2> QED
    BY <2>3, <2>5 DEF Reached
<1> QED
  BY <1>3, <1>4, <1>5, <1>6 DEF Inv

(* A packet of a known generation, an unknown one or a lost one: the keys  *)
(* stay as they are.                                                       *)
LEMMA OtherInv ==
  ASSUME Inv, NEW p \in net,
         \/ \E e \in Endpoint : ReceiveKnown(e, p) \/ ReceiveUnknown(e, p)
         \/ Drop(p)
  PROVE  Inv'
<1> USE PeerPeer
<1>1. UNCHANGED <<gen, old, key_phase, peer_key_phase>> /\ net' = net \ {p}
  BY DEF ReceiveKnown, ReceiveUnknown, Arrives, Drop, keyVars
<1>2. /\ confirmed' \in [Endpoint -> 0 .. MaxGen]
      /\ \A x \in Endpoint : confirmed'[x] <= gen[Peer(x)]
  <2>1. ASSUME NEW e \in Endpoint, ReceiveKnown(e, p)
        PROVE  p.src = Peer(e) /\ Noted(e, p)
    BY <2>1 DEF ReceiveKnown, Arrives
  <2>2. CASE \E e \in Endpoint : ReceiveKnown(e, p)
    BY <2>1, <2>2, NotedInv
  <2>3. CASE ~(\E e \in Endpoint : ReceiveKnown(e, p))
    <3>1. confirmed' = confirmed
      BY <2>3 DEF ReceiveUnknown, Drop
    <3> QED
      BY <3>1 DEF Inv, TypeOK, Reached
  <2> QED
    BY <2>2, <2>3
<1>3. closed' \in [Endpoint -> BOOLEAN]
  BY DEF Inv, TypeOK, ReceiveKnown, ReceiveUnknown, Drop
<1>4. /\ updated' \subseteq Endpoint
      /\ hasty' = hasty /\ hasty' \in BOOLEAN /\ overtaken' \in BOOLEAN
  BY DEF Inv, TypeOK, ReceiveKnown, ReceiveUnknown, Arrives, Drop
<1> QED
  BY <1>1, <1>2, <1>3, <1>4
     DEF Inv, TypeOK, PhaseIsParity, InStep, Reached

(* Every step keeps the invariant. *)
LEMMA StepInv ==
  ASSUME Inv, [Next]_vars
  PROVE  Inv'
<1>1. CASE UNCHANGED vars
  BY <1>1 DEF vars, keyVars, Inv, TypeOK, PhaseIsParity, InStep, Reached
<1>2. CASE Next
  BY <1>2, TriggerInv, SendInv, ReceiveUpdateInv, OtherInv DEF Next
<1> QED
  BY <1>1, <1>2

(* Type correctness, for every network and every number of generations. *)
THEOREM TypeCorrect == Spec => []TypeOK
<1>1. Inv => TypeOK
  BY DEF Inv
<1> QED
  BY <1>1, InitInv, StepInv, PTL DEF Spec

(* The KEY_PHASE bit is always the parity of the key it announces, even    *)
(* where both sides update and packets are lost and reordered.             *)
THEOREM PhaseCorrect == Spec => []PhaseIsParity
<1>1. Inv => PhaseIsParity
  BY DEF Inv
<1> QED
  BY <1>1, InitInv, StepInv, PTL DEF Spec

(* The endpoints stay within one generation of each other, for any number  *)
(* of updates by either side, until one is triggered before the last was   *)
(* answered.                                                               *)
THEOREM InStepCorrect == Spec => []InStep
<1>1. Inv => InStep
  BY DEF Inv
<1> QED
  BY <1>1, InitInv, StepInv, PTL DEF Spec

-----------------------------------------------------------------------------
(* The follower knows the key of whatever arrives, or flips to it. *)
LEMMA FollowerReads ==
  ASSUME Inv, ~hasty, NEW x \in Endpoint, Follows(x), NEW p \in net, p.src = x
  PROVE  p.gen = gen[Peer(x)] \/ Flipped(Peer(x), p)
<1>0. gen[x] <= gen[Peer(x)] + 1
  BY Zenon DEF Inv, InStep
<1>1. /\ p.gen \in Nat /\ gen[Peer(x)] \in Nat /\ gen[x] \in Nat
      /\ p.gen <= gen[x] /\ gen[x] <= gen[Peer(x)] + 1
      /\ p.gen >= gen[Peer(x)] /\ p.phase = p.gen % 2
      /\ peer_key_phase[Peer(x)] = gen[Peer(x)] % 2
  BY <1>0, PeerPeer DEF Inv, TypeOK, PhaseIsParity, Reached, Follows, Packet
<1>2. (gen[Peer(x)] + 1) % 2 # gen[Peer(x)] % 2
  BY <1>1
<1> QED
  BY <1>1, <1>2 DEF Flipped

(* The one that updates knows the key of whatever arrives. *)
LEMMA LeaderReads ==
  ASSUME Inv, NEW x \in Endpoint, Follows(x), NEW p \in net, p.src = Peer(x)
  PROVE  Known(x, p) /\ ~Flipped(x, p)
<1>1. /\ p.gen \in Nat /\ gen[Peer(x)] \in Nat /\ gen[x] \in Nat
      /\ confirmed[x] \in Nat
      /\ p.gen <= gen[Peer(x)] /\ gen[Peer(x)] <= gen[x]
      /\ p.gen >= confirmed[x]
      /\ gen[x] <= confirmed[x] + 1
      /\ gen[x] > 0 => old[x] = gen[x] - 1
  BY PeerPeer DEF Inv, TypeOK, Reached, Follows, Packet
<1> QED
  BY <1>1 DEF Known, Flipped

(* At first nothing has been sent. *)
LEMMA InitOneWay == Init => OneWay
BY PeerPeer DEF Init, OneWay, Follows

(* The histories only grow. *)
LEMMA HistoryGrows ==
  ASSUME Inv, [Next]_vars
  PROVE  /\ updated \subseteq updated'
         /\ hasty => hasty'
         /\ overtaken => overtaken'
<1>1. CASE UNCHANGED vars
  BY <1>1, Zenon DEF vars
<1>2. ASSUME NEW e \in Endpoint, TriggerKeyUpdate(e)
      PROVE  /\ updated' = updated \cup {e}
             /\ hasty => hasty'
             /\ overtaken' = overtaken
  BY <1>2, Zenon DEF TriggerKeyUpdate
<1>3. ASSUME NEW e \in Endpoint, Send(e)
      PROVE  UNCHANGED <<updated, hasty, overtaken>>
  BY <1>3 DEF Send
<1>4. ASSUME NEW e \in Endpoint, NEW p \in net,
             ReceiveUpdate(e, p) \/ ReceiveKnown(e, p) \/ ReceiveUnknown(e, p)
      PROVE  UNCHANGED <<updated, hasty>> /\ (overtaken => overtaken')
  <2>1. Arrives(e, p)
    BY <1>4, Zenon DEF ReceiveUpdate, ReceiveKnown, ReceiveUnknown
  <2> QED
    BY <2>1, Zenon DEF Arrives
<1>5. ASSUME NEW p \in net, Drop(p)
      PROVE  UNCHANGED <<updated, hasty, overtaken>>
  BY <1>5 DEF Drop
<1>6. CASE Next
  <2>1. /\ updated' = updated \/ \E e \in Endpoint : updated' = updated \cup {e}
        /\ hasty => hasty'
        /\ overtaken => overtaken'
    BY <1>2, <1>3, <1>4, <1>5, <1>6, Zenon DEF Next
  <2>2. updated \subseteq updated'
    BY <2>1
  <2> QED
    BY <2>1, <2>2, Zenon
<1> QED
  BY <1>1, <1>6

(* Every step of one-sided updates in order is followed. *)
LEMMA StepOneWay ==
  ASSUME Inv, OneWay, [Next]_vars
  PROVE  OneWay'
<1> SUFFICES ASSUME ~hasty', ~overtaken',
                    NEW x \in Endpoint, updated' \subseteq {x}
             PROVE  Follows(x)'
  BY DEF OneWay
<1> DEFINE y == Peer(x)
<1>1. ~hasty /\ Follows(x)
  <2>1. ~hasty /\ ~overtaken /\ updated \subseteq {x}
    BY HistoryGrows
  <2> QED
    BY <2>1, Zenon DEF OneWay
<1>2. /\ gen \in [Endpoint -> 0 .. MaxGen]
      /\ confirmed \in [Endpoint -> 0 .. MaxGen]
      /\ old \in [Endpoint -> 0 .. MaxGen \cup {None}]
      /\ peer_key_phase \in [Endpoint -> 0 .. 1]
      /\ closed \in [Endpoint -> BOOLEAN]
      /\ \A p \in net : p.src \in Endpoint /\ p.gen \in Nat
  BY DEF Inv, TypeOK, Packet
<1>0. y \in Endpoint /\ y # x /\ Peer(y) = x /\ Endpoint = {x, y}
  BY PeerPeer DEF Endpoint
<1>3. CASE UNCHANGED vars
  BY <1>1, <1>3 DEF vars, keyVars, Follows
<1>4. ASSUME NEW e \in Endpoint, TriggerKeyUpdate(e)
      PROVE  Follows(x)'
  <2>1. e = x
    BY <1>4 DEF TriggerKeyUpdate
  <2>3. confirmed[x] = gen[x]
    BY <1>4, <2>1, Zenon DEF TriggerKeyUpdate
  <2>2. /\ old' = [old EXCEPT ![x] = gen[x]]
        /\ gen' = [gen EXCEPT ![x] = @ + 1]
        /\ UNCHANGED <<peer_key_phase, confirmed, closed, net>>
    BY <1>4, <2>1 DEF TriggerKeyUpdate
  <2> QED
    BY <1>0, <1>1, <1>2, <2>2, <2>3 DEF Follows
<1>5. ASSUME NEW e \in Endpoint, Send(e)
      PROVE  Follows(x)'
  <2>1. /\ net' = net \cup
             {[src |-> e, gen |-> gen[e], phase |-> key_phase[e]]}
        /\ UNCHANGED <<gen, old, peer_key_phase, confirmed, closed>>
    BY <1>5 DEF Send, keyVars
  <2>2. confirmed[x] <= gen[y]
    BY DEF Inv, Reached
  <2> QED
    BY <1>0, <1>1, <1>2, <2>1, <2>2 DEF Follows
<1>6. ASSUME NEW e \in Endpoint, NEW p \in net, ReceiveUpdate(e, p)
      PROVE  Follows(x)'
  <2>1. p.src = Peer(e) /\ Flipped(e, p) /\ net' = net \ {p}
    BY <1>6 DEF ReceiveUpdate, Arrives
  <2>2. e = y /\ p.src = x
    BY <1>0, <1>1, <2>1, LeaderReads
  <2>3. /\ p.gen = gen[y] + 1
        /\ gen' = [gen EXCEPT ![y] = @ + 1]
        /\ peer_key_phase' = [peer_key_phase EXCEPT ![y] = p.phase]
        /\ old' = [old EXCEPT ![y] = gen[y]]
        /\ closed' = closed
    BY <1>6, <2>2 DEF ReceiveUpdate, Flipped, Commit
  <2>4. confirmed'[x] = confirmed[x]
    BY <1>0, <1>2, <1>6, <2>2 DEF ReceiveUpdate, Noted
  <2>5. \A q \in net : q.src = x => ~(q.gen < p.gen)
    BY <1>6, <2>2 DEF ReceiveUpdate, Arrives
  <2>6. p.phase = p.gen % 2 /\ p.gen <= gen[x]
    BY <2>2 DEF Inv, PhaseIsParity, Reached
  <2>7. \A q \in net : q.src = x => q.gen >= gen[y] + 1
    BY <1>2, <2>3, <2>5
  <2> QED
    BY <1>0, <1>1, <1>2, <2>1, <2>3, <2>4, <2>6, <2>7 DEF Follows
<1>7. ASSUME NEW e \in Endpoint, NEW p \in net, ReceiveKnown(e, p)
      PROVE  Follows(x)'
  <2>1. /\ net' = net \ {p} /\ p.src = Peer(e)
        /\ UNCHANGED <<gen, old, peer_key_phase, closed>>
        /\ confirmed' =
             [confirmed EXCEPT ![e] = IF p.gen > @ THEN p.gen ELSE @]
        /\ \A q \in net : q.src = p.src => ~(q.gen < p.gen)
    BY <1>7 DEF ReceiveKnown, Arrives, Noted, keyVars
  <2>2. CASE e = x
    <3>1. \A q \in net : q.src = y => q.gen >= p.gen
      BY <1>2, <2>1, <2>2
    <3> QED
      BY <1>0, <1>1, <1>2, <2>1, <2>2, <3>1 DEF Follows
  <2>3. CASE e = y
    BY <1>0, <1>1, <1>2, <2>1, <2>3 DEF Follows
  <2> QED
    BY <1>0, <2>2, <2>3
<1>8. ASSUME NEW e \in Endpoint, NEW p \in net, ReceiveUnknown(e, p)
      PROVE  FALSE
  <2>1. p.src = Peer(e) /\ ~Flipped(e, p) /\ ~Known(e, p)
    BY <1>8 DEF ReceiveUnknown, Arrives
  <2>2. CASE e = x
    BY <1>1, <2>1, <2>2, LeaderReads
  <2>3. CASE e = y
    BY <1>0, <1>1, <2>1, <2>3, FollowerReads DEF Known
  <2> QED
    BY <1>0, <2>2, <2>3
<1>9. ASSUME NEW p \in net, Drop(p)
      PROVE  Follows(x)'
  BY <1>1, <1>9 DEF Drop, Follows, keyVars
<1> QED
  BY <1>3, <1>4, <1>5, <1>6, <1>7, <1>8, <1>9 DEF Next

(* While one side alone updates the keys, however often, each time after   *)
(* the peer's answer, and packets may be lost but do not overtake each     *)
(* other, no update closes a connection.                                   *)
THEOREM StaysOpenCorrect == Spec => []StaysOpen
<1>1. OneWay => StaysOpen
  BY DEF OneWay, StaysOpen, Follows
<1>2. Init => Inv /\ OneWay
  BY InitInv, InitOneWay
<1>3. Inv /\ OneWay /\ [Next]_vars => (Inv /\ OneWay)'
  BY StepInv, StepOneWay
<1> QED
  BY <1>1, <1>2, <1>3, PTL DEF Spec
=============================================================================
