----------------------------- MODULE Handshake -----------------------------
(***************************************************************************)
(* The handshake of two QUIC::Connection objects (src/src/quic/            *)
(* connection.cr): the keys of the three packet number spaces, the CRYPTO  *)
(* flights, their retransmission, HANDSHAKE_DONE, the discarding of keys   *)
(* and the client's answer to a Retry, over a network that loses and       *)
(* reorders packets.                                                       *)
(*                                                                         *)
(* A flight is one CRYPTO frame: the client's CH and CF, the server's SH   *)
(* (Initial) and SF (Handshake).  OpenSSL is external: known by the keys   *)
(* and the flights it produces.  A key is good, or wrong when it was       *)
(* derived from a connection id other than the client's first.             *)
(*                                                                         *)
(* An endpoint has one flight in each space and tracks at most one copy of *)
(* it, so that a packet number only says whether a packet is the tracked   *)
(* copy (live) or an earlier one; and a packet of acknowledgements alone   *)
(* is not tracked at all.  The network holds at most one earlier copy.     *)
(***************************************************************************)
EXTENDS Integers, Sequences, SequencesExt, FiniteSets

CONSTANTS
  Timed,   \* the endpoints whose owner calls tick
  Retry,   \* may the server be one that validates addresses with a Retry?
  MaxNet   \* bound on the packets of each endpoint under way

Endpoint == {"client", "server"}
Space    == {"initial", "handshake", "app"}
Flight   == {"CH", "SH", "SF", "CF"}
Frame    == Flight \cup {"DONE"}

Peer(e) == IF e = "client" THEN "server" ELSE "client"

SpaceOf(f) == IF f \in {"CH", "SH"} THEN "initial"
              ELSE IF f \in {"SF", "CF"} THEN "handshake" ELSE "app"

ASSUME HandshakeAssumption ==
  /\ Timed \subseteq Endpoint
  /\ Retry \in BOOLEAN
  /\ MaxNet \in [Endpoint -> Nat \ {0}]

VARIABLES
  keys,         \* aead_* and hp_* of each space: "none", "good" or "wrong"
  complete,     \* @tls.handshake_complete?
  consumed,     \* flights fed to TLS, in order of arrival
  pending_tls,  \* @pending_initial_tls and @pending_handshake_tls
  pending_done, \* @pending_handshake_done of the server
  dcid_locked,  \* the client addresses the server by the server's own id
  replaced,     \* @space_initial is not the one in @crypto_bufs any more
  pending_ack,  \* pending_ack of each space
  received_pns, \* per space: is the peer's live copy in received_pns?
  sent,         \* @sent_packets: the frames of the tracked packets
  lost,         \* @lost_frames
  closed,       \* @closed
  net           \* packets under way

vars == <<keys, complete, consumed, pending_tls, pending_done,
          dcid_locked, replaced, pending_ack, received_pns, sent, lost,
          closed, net>>

tlsVars == <<complete, consumed, pending_tls, pending_done>>
ackVars == <<pending_ack, received_pns>>

(* acks: there is an ACK frame that covers the peer's live copy. *)
Packet == [src: Endpoint, sp: Space, frames: SUBSET Frame, live: BOOLEAN,
           acks: BOOLEAN, key: {"good", "wrong"}, first_dcid: BOOLEAN]

(* The client starts with the Initial keys of the id it chose, and a       *)
(* ClientHello to send; a server that validates addresses answers it with  *)
(* a Retry before a connection exists (QUIC::Server#listen).               *)
Init ==
  /\ keys = [e \in Endpoint |-> [sp \in Space |->
              IF e = "client" /\ sp = "initial" THEN "good" ELSE "none"]]
  /\ complete = [e \in Endpoint |-> FALSE]
  /\ consumed = [e \in Endpoint |-> {}]
  /\ pending_tls = [e \in Endpoint |-> IF e = "client" THEN {"CH"} ELSE {}]
  /\ pending_done = FALSE
  /\ dcid_locked = FALSE
  /\ replaced = FALSE
  /\ pending_ack = [e \in Endpoint |-> [sp \in Space |-> FALSE]]
  /\ received_pns = [e \in Endpoint |-> [sp \in Space |-> FALSE]]
  /\ sent = [e \in Endpoint |-> {}]
  /\ lost = [e \in Endpoint |-> <<>>]
  /\ closed = [e \in Endpoint |-> FALSE]
  /\ net = {}

-----------------------------------------------------------------------------
(* Sending *)

(* The j-th of a set of positions. *)
Nth(S, j) == CHOOSE i \in S : Cardinality({k \in S : k <= i}) = j

(* reject!: the frames that are still worth keeping, those whose keys are  *)
(* there, in their order.                                                  *)
Purged(e) ==
  LET kept == {i \in DOMAIN lost[e] : keys[e][SpaceOf(lost[e][i])] # "none"}
  IN [j \in 1 .. Cardinality(kept) |-> lost[e][Nth(kept, j)]]

(* The space that send selects: TLS data first, then ACKs, then what was   *)
(* lost.                                                                   *)
SelectedSpace(e) ==
  LET purged == Purged(e) IN
  IF \E f \in pending_tls[e] : SpaceOf(f) = "initial" THEN "initial"
  ELSE IF pending_tls[e] # {} THEN "handshake"
  ELSE IF pending_ack[e]["initial"] THEN "initial"
  ELSE IF pending_ack[e]["handshake"] THEN "handshake"
  ELSE IF purged # <<>> THEN SpaceOf(Head(purged))
  ELSE IF keys[e]["app"] # "none" THEN "app" ELSE "initial"

(* Only the last branch of the selection purges the queue. *)
LostAfterSelect(e) ==
  IF \/ pending_tls[e] # {}
     \/ pending_ack[e]["initial"] \/ pending_ack[e]["handshake"]
  THEN lost[e] ELSE Purged(e)

TlsFrames(e, sp) == {f \in pending_tls[e] : SpaceOf(f) = sp}

DoneFrames(e, sp) ==
  IF e = "server" /\ pending_done /\ sp = "app" THEN {"DONE"} ELSE {}

(* The head of the retransmission queue goes out in its own space only. *)
LostFrames(queue, sp) ==
  IF queue # <<>> /\ SpaceOf(Head(queue)) = sp THEN {Head(queue)} ELSE {}

(* Faulty variant: the head is taken before its space is looked at. *)
QueueShifted(queue, sp) == IF queue = <<>> THEN queue ELSE Tail(queue)

(* The queue after the drain. *)
QueueAfter(queue, sp) ==
  IF LostFrames(queue, sp) = {} THEN queue ELSE Tail(queue)

(* discard_initial_handshake_keys *)
Discarded(table) ==
  [table EXCEPT !["initial"] = "none", !["handshake"] = "none"]

(* The bound: a packet of e that finds the network full drives one out. *)
Room(e) ==
  LET mine == {p \in net : p.src = e}
  IN IF Cardinality(mine) < MaxNet[e] THEN {net} ELSE {net \ {p} : p \in mine}

(* send: one packet, with whatever is due in the selected space.  What is  *)
(* taken from the queues is taken before the packet is sealed: where the   *)
(* keys are gone, aead_tx.not_nil! raises and it is lost.                  *)
Send(e) ==
  LET sp     == SelectedSpace(e)
      queue  == LostAfterSelect(e)
      frames == TlsFrames(e, sp) \cup DoneFrames(e, sp)
                  \cup LostFrames(queue, sp)
      ack    == pending_ack[e][sp]
      done   == DoneFrames(e, sp) # {}
      pkt    == [src |-> e, sp |-> sp, frames |-> frames, live |-> frames # {},
                 acks |-> ack /\ received_pns[e][sp],
                 key |-> keys[e][sp],
                 first_dcid |-> e = "client" /\ (replaced \/ ~dcid_locked)]
  IN /\ ~closed[e]
     /\ frames # {} \/ ack
     /\ pending_tls' = [pending_tls EXCEPT ![e] = @ \ frames]
     /\ pending_done' = (pending_done /\ ~done)
     /\ pending_ack' = [pending_ack EXCEPT ![e][sp] = FALSE]
     /\ received_pns' = [received_pns EXCEPT ![e][sp] = @ /\ ~ack]
     /\ lost' = [lost EXCEPT ![e] = QueueAfter(queue, sp)]
     /\ keys' = IF done THEN [keys EXCEPT ![e] = Discarded(@)] ELSE keys
     /\ IF keys[e][sp] = "none"
        THEN UNCHANGED <<net, sent>>
        ELSE /\ \E others \in Room(e) : net' = others \cup {pkt}
             /\ sent' = [sent EXCEPT ![e] = @ \cup frames]
     /\ UNCHANGED <<complete, consumed, dcid_locked, replaced, closed>>

(* What e has sent, or acknowledgements of it, once e tracks it no more. *)
Stale(e) ==
  {IF p.src = e THEN [p EXCEPT !.live = FALSE] ELSE [p EXCEPT !.acks = FALSE] :
     p \in net}

(* queue_lost_frames: of these frames, CRYPTO only. *)
Requeued(frames) == frames \cap Flight

(* tick: after a probe timeout the CRYPTO frames are queued again, but     *)
(* HANDSHAKE_DONE is not, and no packet is tracked any more.               *)
Tick(e) ==
  /\ e \in Timed /\ ~closed[e] /\ sent[e] # {}
  /\ \E order \in SetToSeqs(Requeued(sent[e])) :
       lost' = [lost EXCEPT ![e] = @ \o order]
  /\ sent' = [sent EXCEPT ![e] = {}]
  /\ net' = Stale(e)
  /\ received_pns' = [received_pns EXCEPT ![Peer(e)] =
                        [sp \in Space |-> FALSE]]
  /\ UNCHANGED <<keys, tlsVars, dcid_locked, replaced, pending_ack, closed>>

-----------------------------------------------------------------------------
(* Receiving *)

(* Any long-header packet derives Initial keys where there are none, from  *)
(* the connection id it is addressed to.                                   *)
InitialKeys(e, p) ==
  IF keys[e]["initial"] # "none" \/ p.sp = "app" THEN keys[e]
  ELSE [keys[e] EXCEPT !["initial"] =
          IF p.first_dcid THEN "good" ELSE "wrong"]

(* TLS takes a flight that is new to it and yields keys and flights; that  *)
(* the server has its 1-RTT write key before the client's Finished is left *)
(* out, as it sends nothing with it.                                       *)
TlsKeys(e, f) ==
  IF f \in {"CH", "SH"} THEN {"handshake"}
  ELSE IF f \in {"SF", "CF"} THEN {"app"} ELSE {}

TlsReply(f) ==
  IF f = "CH" THEN {"SH", "SF"} ELSE IF f = "SF" THEN {"CF"} ELSE {}

(* A CRYPTO frame whose offset has been read already is ignored. *)
NewFlights(e, p) == (p.frames \cap Flight) \ consumed[e]

(* The Initial CRYPTO buffer is found by the space object it was made for. *)
CryptoRaises(p) ==
  p.src = "server" /\ replaced /\ p.sp = "initial" /\ p.frames # {}

(* Faulty variant: the client is content with the server's Finished. *)
ConfirmsEarly(e, p) == e = "client" /\ p.frames \cap {"SF", "DONE"} # {}

(* HANDSHAKE_DONE tells the client, and nobody else, to discard keys. *)
Confirms(e, p) == e = "client" /\ "DONE" \in p.frames

(* A packet that is decrypted: acknowledgements, then its frames. *)
Process(e, p, table) ==
  LET new == NewFlights(e, p)
      got == UNION {TlsKeys(e, f) : f \in new}
      more == [sp \in Space |-> IF sp \in got THEN "good" ELSE table[sp]]
      done == Confirms(e, p)
  IN /\ keys' = [keys EXCEPT ![e] = IF done THEN Discarded(more) ELSE more]
     /\ consumed' = [consumed EXCEPT ![e] = @ \cup new]
     /\ complete' = [complete EXCEPT ![e] = @ \/ "app" \in got]
     /\ pending_tls' = [pending_tls EXCEPT ![e] =
                          @ \cup UNION {TlsReply(f) : f \in new}]
     /\ pending_done' = (pending_done \/ "CF" \in new)
     /\ received_pns' = [received_pns EXCEPT ![e][p.sp] = @ \/ p.live]
     /\ pending_ack' = [pending_ack EXCEPT ![e][p.sp] = @ \/ p.frames # {}]
     /\ sent' = [sent EXCEPT ![e] =
                   {f \in @ : ~(p.acks /\ SpaceOf(f) = p.sp)}]
     /\ UNCHANGED closed

(* Decryption or a CRYPTO frame raises: recv closes the connection. *)
Fail(e, table) ==
  /\ closed' = [closed EXCEPT ![e] = TRUE]
  /\ keys' = [keys EXCEPT ![e] = table]
  /\ UNCHANGED <<tlsVars, ackVars, sent>>

(* No keys: the packet is ignored. *)
Ignore(e, table) ==
  /\ keys' = [keys EXCEPT ![e] = table]
  /\ UNCHANGED <<tlsVars, ackVars, sent, closed>>

Recv(e, p, table) ==
  IF table[p.sp] = "none" THEN Ignore(e, table)
  ELSE IF table[p.sp] # p.key \/ p.key = "wrong" \/ CryptoRaises(p)
  THEN Fail(e, table)
  ELSE Process(e, p, table)

(* recv_packet *)
Receive(e, p) ==
  /\ p.src = Peer(e) /\ ~closed[e]
  /\ dcid_locked' = (dcid_locked \/ (e = "client" /\ p.sp # "app"))
  /\ Recv(e, p, InitialKeys(e, p))
  /\ net' = net \ {p}
  /\ UNCHANGED <<replaced, lost>>

(* The server's Retry reaches the client: it starts over with a new        *)
(* Initial space and a new TLS object, and addresses the server by the id  *)
(* of the Retry from then on, from which the Initial keys now derive.  The *)
(* server has no connection before that, and what was sent without the     *)
(* token is answered with a Retry at best.                                 *)
ReceiveRetry(p) ==
  /\ Retry /\ ~replaced /\ ~closed["client"]
  /\ keys["server"]["initial"] = "none" /\ consumed["server"] = {}
  /\ p.src = "client" /\ "CH" \in p.frames
  /\ replaced' = TRUE /\ dcid_locked' = TRUE
  /\ net' = {}
  /\ keys' = [keys EXCEPT !["client"]["initial"] = "good"]
  /\ pending_tls' = [pending_tls EXCEPT !["client"] = {"CH"}]
  /\ pending_ack' = [pending_ack EXCEPT !["client"]["initial"] = FALSE]
  /\ received_pns' = [received_pns EXCEPT !["client"]["initial"] = FALSE]
  /\ UNCHANGED <<complete, consumed, pending_done, sent, lost, closed>>

Drop(p) ==
  /\ net' = net \ {p}
  /\ UNCHANGED <<keys, tlsVars, dcid_locked, replaced, ackVars, sent, lost,
                 closed>>

Next ==
  \/ \E e \in Endpoint : Send(e) \/ Tick(e)
  \/ \E e \in Endpoint, p \in net : Receive(e, p)
  \/ \E p \in net : ReceiveRetry(p) \/ Drop(p)

Spec == Init /\ [][Next]_vars

(* flush_outgoing (the server) and pump_send (the client) call send after  *)
(* every event until it has nothing more to say, so that what is queued is *)
(* not overtaken for ever.  The timeout arm of the actor starts over with  *)
(* every packet, so the probe timer is sure to fire only while the peer is *)
(* quiet; an endpoint that is not Timed has none.  Every packet arrives or *)
(* is lost, and the network does not lose a frame for ever.                *)
SendAgain(e) == Send(e) /\ Len(lost'[e]) < Len(lost[e])

QuietTick(e) == (\A p \in net : p.src = e) /\ Tick(e)

FairSpec ==
  /\ Spec
  /\ \A e \in Endpoint :
       /\ WF_vars(Send(e)) /\ SF_vars(SendAgain(e))
       /\ WF_vars(QuietTick(e))
       /\ WF_vars(\E p \in net :
                    p.src = e /\ (Receive(Peer(e), p) \/ Drop(p)))
       /\ \A f \in Frame :
            SF_vars(\E p \in net : f \in p.frames /\ Receive(e, p))

-----------------------------------------------------------------------------
(* A CRYPTO flight that TLS has produced and the peer has not read is      *)
(* waiting to be sent, tracked or queued again: choosing a space, purging  *)
(* the queue, draining it in its own space only and discarding keys never  *)
(* forget the handshake.                                                   *)
Produced(e) ==
  IF e = "client" THEN {"CH"} \cup UNION {TlsReply(f) : f \in consumed[e]}
  ELSE UNION {TlsReply(f) : f \in consumed[e]}

FlightsKept ==
  \A e \in Endpoint : \A f \in Produced(e) :
    \/ f \in consumed[Peer(e)]
    \/ f \in pending_tls[e]
    \/ f \in Range(lost[e])
    \/ f \in sent[e]

(* Handshake keys are discarded only when the peer can do without: both    *)
(* sides have completed the handshake, and no flight is missing anywhere.  *)
DiscardedInTime ==
  \A e \in Endpoint :
    complete[e] /\ keys[e]["handshake"] = "none" =>
      complete[Peer(e)] /\ Produced(e) \subseteq consumed[Peer(e)]

(* connection.cr:1511: packets arriving in a discarded space are ignored.  *)
(* So nothing that the peer sends, however late, closes the connection.    *)
LateIgnored == \A e \in Endpoint : ~closed[e]

(* The handshake completes on both sides, whatever flights of an endpoint  *)
(* that has a timer are lost.  H3::Client never calls tick, so a lost      *)
(* flight of its own stays tracked for ever: it has to arrive.  A client   *)
(* that a Retry makes start over fails at the first CRYPTO frame.          *)
Underway(e) ==
  \A f \in Produced(e) :
    \/ f \in pending_tls[e] \cup consumed[Peer(e)]
    \/ \E p \in net : p.src = e /\ f \in p.frames

Completes ==
  [](~replaced /\ \A e \in Endpoint \ Timed : Underway(e)) =>
    <>(\A e \in Endpoint : complete[e])
=============================================================================
