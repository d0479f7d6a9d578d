----------------------------- MODULE KeyUpdate -----------------------------
(***************************************************************************)
(* Key updates of the 1-RTT space (src/src/quic/connection.cr:             *)
(* trigger_key_update, handle_peer_key_update and the decryption of short  *)
(* header packets in recv_packet).                                         *)
(*                                                                         *)
(* A key is known by its generation: the secret it was derived from by so  *)
(* many updates.  Decryption works exactly if the generations agree.  Both *)
(* directions are always updated together, so an endpoint has one          *)
(* generation.  A packet is known by the key that sealed it and the        *)
(* KEY_PHASE bit it carries.                                               *)
(***************************************************************************)
EXTENDS Integers

CONSTANT MaxGen  \* generations (bound)

Endpoint == {"client", "server"}

Peer(e) == IF e = "client" THEN "server" ELSE "client"

ASSUME KeyUpdateAssumption == MaxGen \in Nat

VARIABLES
  gen,            \* generation of @client_app_secret and @server_app_secret
  old,            \* generation of @old_aead_rx, or None
  key_phase,      \* @key_phase
  peer_key_phase, \* @peer_key_phase
  closed,         \* @closed
  net,            \* packets under way
  confirmed,      \* the newest generation the peer has answered with (history)
  updated,        \* the endpoints that have triggered an update (history)
  hasty,          \* has one done so before the last was answered? (history)
  overtaken       \* has a packet overtaken one of an older key? (history)

keyVars == <<gen, old, key_phase, peer_key_phase>>
vars == <<keyVars, closed, net, confirmed, updated, hasty, overtaken>>

None == -1

Packet == [src: Endpoint, gen: 0 .. MaxGen, phase: 0 .. 1]

Init ==
  /\ gen = [e \in Endpoint |-> 0]
  /\ old = [e \in Endpoint |-> None]
  /\ key_phase = [e \in Endpoint |-> 0]
  /\ peer_key_phase = [e \in Endpoint |-> 0]
  /\ closed = [e \in Endpoint |-> FALSE]
  /\ net = {}
  /\ confirmed = [e \in Endpoint |-> 0]
  /\ updated = {} /\ hasty = FALSE /\ overtaken = FALSE

-----------------------------------------------------------------------------
(* The application updates the keys, at any time: the code does not wait   *)
(* for the peer to answer with the ones in use (RFC 9001, 6.1), nor look   *)
(* whether the connection is closed.                                       *)
TriggerKeyUpdate(e) ==
  /\ gen[e] < MaxGen
  /\ old' = [old EXCEPT ![e] = gen[e]]
  /\ gen' = [gen EXCEPT ![e] = @ + 1]
  /\ key_phase' = [key_phase EXCEPT ![e] = 1 - @]
  /\ updated' = updated \cup {e}
  /\ hasty' = (hasty \/ confirmed[e] # gen[e])
  /\ UNCHANGED <<peer_key_phase, closed, net, confirmed, overtaken>>

(* send: a packet is sealed with the key of this generation. *)
Send(e) ==
  /\ ~closed[e]
  /\ net' = net \cup {[src |-> e, gen |-> gen[e], phase |-> key_phase[e]]}
  /\ UNCHANGED <<keyVars, closed, confirmed, updated, hasty, overtaken>>

(* A packet reaches e, before or after those that were sent earlier. *)
Arrives(e, p) ==
  /\ p.src = Peer(e) /\ ~closed[e]
  /\ overtaken' = (overtaken \/ \E q \in net : q.src = p.src /\ q.gen < p.gen)
  /\ net' = net \ {p}
  /\ UNCHANGED <<updated, hasty>>

(* Faulty variant: an update keeps no old key. *)
KnownCurrent(e, p) == p.gen = gen[e]

(* The keys at hand: the current one and the one before. *)
Known(e, p) == p.gen = gen[e] \/ p.gen = old[e]

(* Faulty variant: the update is committed whether or not it decrypts. *)
FlippedUntried(e, p) == p.phase # peer_key_phase[e]

(* The peer flipped its phase: the next key is tried before the others. *)
Flipped(e, p) == p.phase # peer_key_phase[e] /\ p.gen = gen[e] + 1

Noted(e, p) ==
  confirmed' = [confirmed EXCEPT ![e] = IF p.gen > @ THEN p.gen ELSE @]

(* Faulty variant: the peer's phase is not mirrored on outgoing packets. *)
CommitUnmirrored(e, p) ==
  /\ old' = [old EXCEPT ![e] = gen[e]]
  /\ gen' = [gen EXCEPT ![e] = @ + 1]
  /\ peer_key_phase' = [peer_key_phase EXCEPT ![e] = p.phase]
  /\ UNCHANGED key_phase

(* Faulty variant: the new keys open this packet and are not kept. *)
CommitNothing(e, p) == UNCHANGED <<old, gen, key_phase, peer_key_phase>>

(* handle_peer_key_update: the new generation is committed. *)
Commit(e, p) ==
  /\ old' = [old EXCEPT ![e] = gen[e]]
  /\ gen' = [gen EXCEPT ![e] = @ + 1]
  /\ peer_key_phase' = [peer_key_phase EXCEPT ![e] = p.phase]
  /\ key_phase' = [key_phase EXCEPT ![e] = p.phase]

ReceiveUpdate(e, p) ==
  /\ Arrives(e, p) /\ Flipped(e, p)
  /\ Commit(e, p)
  /\ Noted(e, p)
  /\ UNCHANGED closed

ReceiveKnown(e, p) ==
  /\ Arrives(e, p) /\ ~Flipped(e, p) /\ Known(e, p)
  /\ Noted(e, p)
  /\ UNCHANGED <<keyVars, closed>>

(* No key fits: decryption raises, and recv closes the connection. *)
ReceiveUnknown(e, p) ==
  /\ Arrives(e, p) /\ ~Flipped(e, p) /\ ~Known(e, p)
  /\ closed' = [closed EXCEPT ![e] = TRUE]
  /\ UNCHANGED <<keyVars, confirmed>>

Drop(p) ==
  /\ net' = net \ {p}
  /\ UNCHANGED <<keyVars, closed, confirmed, updated, hasty, overtaken>>

Next ==
  \/ \E e \in Endpoint : TriggerKeyUpdate(e) \/ Send(e)
  \/ \E e \in Endpoint : \E p \in net :
       ReceiveUpdate(e, p) \/ ReceiveKnown(e, p) \/ ReceiveUnknown(e, p)
  \/ \E p \in net : Drop(p)

Spec == Init /\ [][Next]_vars

(* Both endpoints keep sending, and not everything is lost. *)
FairSpec ==
  /\ Spec
  /\ \A e \in Endpoint :
       /\ WF_vars(Send(e))
       /\ \A g \in 0 .. MaxGen :
            SF_vars(\E p \in net :
                      /\ p.gen = g
                      /\ \/ ReceiveUpdate(e, p)
                         \/ ReceiveKnown(e, p)
                         \/ ReceiveUnknown(e, p))

-----------------------------------------------------------------------------
(* Type invariant. *)
TypeOK ==
  /\ gen \in [Endpoint -> 0 .. MaxGen]
  /\ old \in [Endpoint -> 0 .. MaxGen \cup {None}]
  /\ key_phase \in [Endpoint -> 0 .. 1]
  /\ peer_key_phase \in [Endpoint -> 0 .. 1]
  /\ closed \in [Endpoint -> BOOLEAN]
  /\ net \subseteq Packet
  /\ confirmed \in [Endpoint -> 0 .. MaxGen]
  /\ updated \subseteq Endpoint
  /\ hasty \in BOOLEAN /\ overtaken \in BOOLEAN

(* The KEY_PHASE bit an endpoint sends is the parity of its generation,    *)
(* whichever side updated the keys: a receiver that knows the generation   *)
(* can trust the bit.                                                      *)
PhaseIsParity ==
  /\ \A e \in Endpoint : key_phase[e] = gen[e] % 2
  /\ \A p \in net : p.phase = p.gen % 2

(* As long as every update has waited for the answer to the one before, on *)
(* whichever side, the endpoints are never more than one generation apart, *)
(* so that the next key that handle_peer_key_update derives is the one it  *)
(* needs.                                                                  *)
InStep == ~hasty => \A e \in Endpoint : gen[e] <= gen[Peer(e)] + 1

(* As long as one side alone has updated its keys, however often, each     *)
(* time after the peer's answer, and no packet has overtaken an older one, *)
(* every packet finds its key and the connection stays open.  When both    *)
(* sides update, the phase one of them expects is stale, and it may close; *)
(* when an update does not wait, the peer may meet a key two ahead, or the *)
(* updater a packet two behind, and close.                                 *)
StaysOpen ==
  ~hasty /\ ~overtaken /\ (\E x \in Endpoint : updated \subseteq {x}) =>
    \A e \in Endpoint : ~closed[e]

(* An update reaches the peer, unless a connection closes. *)
UpdateIsFollowed ==
  \A e \in Endpoint : \A g \in 0 .. MaxGen :
    gen[e] = g ~> gen[Peer(e)] >= g \/ \E x \in Endpoint : closed[x]
=============================================================================
