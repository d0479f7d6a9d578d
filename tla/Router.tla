------------------------------- MODULE Router -------------------------------
(***************************************************************************)
(* The router of H3::Server (src/src/h3/server.cr: the fibers of listen,   *)
(* shutdown and drain) and what the connection actors do with it           *)
(* (src/src/h3/connection_actor.cr).                                       *)
(*                                                                         *)
(* The router alone owns the map from connection ids and addresses to      *)
(* actors.  Packets, registrations and clean-ups reach it through one      *)
(* channel.  An actor is known by the connection id it gives itself, its   *)
(* SCID; a client chooses an id of Dcids for its first packets and uses    *)
(* the SCID once it has learnt it, from any address.  Unknown is what      *)
(* extract_dcid makes of a packet too short to hold an id.                 *)
(***************************************************************************)
EXTENDS Integers, Sequences, FiniteSets

CONSTANTS
  Actors,    \* the actors that can be made (bound); also their SCIDs
  Dcids,     \* ids that clients choose
  Addrs,     \* addresses of clients
  Unknown,   \* the key "unknown"
  Openers,   \* packets that clients send before they know an actor's SCID,
             \* or too short to hold it: <<id, address, long header?>>
  None,      \* no entry in the map
  RouterCap, \* capacity of router_chan (4096 + 512 in the code)
  PacketCap  \* capacity of a packet_chan (512 in the code)

Key == Actors \cup Dcids \cup Addrs \cup {Unknown}

ASSUME RouterAssumption ==
  /\ Actors \cap (Dcids \cup Addrs \cup {Unknown}) = {}
  /\ Addrs \cap (Dcids \cup {Unknown}) = {}
  /\ Openers \subseteq (Dcids \cup {Unknown}) \X Addrs \X BOOLEAN
  /\ None \notin Key /\ Addrs # {}
  /\ RouterCap \in Nat \ {0} /\ PacketCap \in Nat \ {0}

VARIABLES
  connections,        \* the router's map
  router_chan,        \* the channel to the router
  msg,                \* the message the router has received
  pc,                 \* where the router's loop is
  shutdown_flag,      \* @shutdown_flag
  chans_closed,       \* have router_chan and the socket been closed?
  active_actor_count, \* @active_actor_count
  status,             \* where each actor is
  initial_key,        \* @initial_key of each actor
  peer_addr,          \* @peer_addr of each actor
  scid_registered,    \* the actors whose @scid_registered is set
  goaway_pending,     \* the actors whose @goaway_pending is set
  packet_chan,        \* @packet_chan of each actor
  cleaned             \* the actors whose RouterClean was handled (history)

serverVars == <<shutdown_flag, chans_closed>>
mapVars    == <<connections, active_actor_count, initial_key, peer_addr,
                cleaned>>
vars == <<mapVars, router_chan, msg, pc, serverVars, status,
          scid_registered, goaway_pending, packet_chan>>

(* The actor of a clean-up is a history: the code sends the two keys. *)
RouterPacket == [kind: {"packet"}, key: Key \ Addrs, addr: Addrs,
                 long: BOOLEAN]
RouterReg == [kind: {"reg"}, key: Actors, actor: Actors]
RouterClean == [kind: {"clean"}, key: Key \ Addrs, addr_key: Addrs,
                actor: Actors]
RouterMsg == RouterPacket \cup RouterReg \cup RouterClean

(* The actors whose fiber runs. *)
Live == {a \in Actors : status[a] \in {"running", "registering", "exiting"}}

Init ==
  /\ connections = [k \in Key |-> None]
  /\ router_chan = <<>> /\ msg = None /\ pc = "receive"
  /\ shutdown_flag = FALSE /\ chans_closed = FALSE
  /\ active_actor_count = 0
  /\ status = [a \in Actors |-> "unborn"]
  /\ initial_key = [a \in Actors |-> Unknown]
  /\ peer_addr = [a \in Actors |-> CHOOSE d \in Addrs : TRUE]
  /\ scid_registered = {} /\ goaway_pending = {} /\ cleaned = {}
  /\ packet_chan = [a \in Actors |-> <<>>]

-----------------------------------------------------------------------------
(* The receiver fiber. *)

(* A packet from a client: under an id of its own, or under the SCID of an *)
(* actor, which it learns from what the actor flushes after it has         *)
(* registered.  The fiber waits while the channel is full.                 *)
Receiver ==
  /\ ~chans_closed /\ Len(router_chan) < RouterCap
  /\ \E p \in Openers \cup (scid_registered \X Addrs \X BOOLEAN) :
       router_chan' = Append(router_chan,
         [kind |-> "packet", key |-> p[1], addr |-> p[2], long |-> p[3]])
  /\ UNCHANGED <<mapVars, msg, pc, serverVars, status, scid_registered,
                 goaway_pending, packet_chan>>

-----------------------------------------------------------------------------
(* The router loop. *)

(* The flag is looked at before a message is received, and again before it *)
(* is handled.                                                             *)
RouterReceives ==
  /\ pc = "receive" /\ ~shutdown_flag /\ router_chan # <<>>
  /\ msg' = Head(router_chan)
  /\ router_chan' = Tail(router_chan)
  /\ pc' = "handle"
  /\ UNCHANGED <<mapVars, serverVars, status, scid_registered,
                 goaway_pending, packet_chan>>

Handling == pc = "handle" /\ ~shutdown_flag

(* By the id, or else by the address. *)
Routed(m) ==
  IF connections[m.key] # None THEN connections[m.key]
                               ELSE connections[m.addr]

(* Faulty variant: the channel takes every packet. *)
DeliveredAlways(a, p) ==
  IF status[a] # "dead" THEN Append(packet_chan[a], p) ELSE packet_chan[a]

(* deliver and shutdown: what finds no room is dropped, and nobody reads   *)
(* what a dead actor is sent.                                              *)
Delivered(a, p) ==
  IF Len(packet_chan[a]) < PacketCap /\ status[a] # "dead"
    THEN Append(packet_chan[a], p) ELSE packet_chan[a]

(* The next actor to be made. *)
Spare == CHOOSE a \in Actors : status[a] = "unborn"

(* A short header that nobody knows: a stateless reset is sent.  (Bound:   *)
(* a connection for which no actor is left is ignored, too.)               *)
StatelessReset ==
  /\ Handling /\ msg.kind = "packet" /\ Routed(msg) = None
  /\ ~msg.long \/ \A a \in Actors : status[a] # "unborn"
  /\ pc' = "receive" /\ msg' = None
  /\ UNCHANGED <<mapVars, router_chan, serverVars, status,
                 scid_registered, goaway_pending, packet_chan>>

(* A long header that nobody knows: a new actor. *)
NewActor(a) ==
  /\ Handling /\ msg.kind = "packet" /\ Routed(msg) = None
  /\ msg.long /\ status[a] = "unborn" /\ a = Spare
  /\ active_actor_count' = active_actor_count + 1
  /\ status' = [status EXCEPT ![a] = "running"]
  /\ initial_key' = [initial_key EXCEPT ![a] = msg.key]
  /\ peer_addr' = [peer_addr EXCEPT ![a] = msg.addr]
  /\ connections' = [connections EXCEPT ![msg.key] = a, ![msg.addr] = a]
  /\ packet_chan' = [packet_chan EXCEPT ![a] = Delivered(a, "data")]
  /\ pc' = "receive" /\ msg' = None
  /\ UNCHANGED <<router_chan, serverVars, scid_registered,
                 goaway_pending, cleaned>>

(* Making the connection raises: listen ends, and nobody is told. *)
RouterFails ==
  /\ Handling /\ msg.kind = "packet" /\ Routed(msg) = None /\ msg.long
  /\ pc' = "failed" /\ msg' = None
  /\ UNCHANGED <<mapVars, router_chan, serverVars, status, scid_registered,
                 goaway_pending, packet_chan>>

(* A packet for an actor: its id is cached, if the address led there. *)
RouteKnown ==
  LET a == Routed(msg) IN
  /\ Handling /\ msg.kind = "packet" /\ a # None
  /\ connections' = [connections EXCEPT ![msg.key] = a]
  /\ packet_chan' = [packet_chan EXCEPT ![a] = Delivered(a, "data")]
  /\ pc' = "receive" /\ msg' = None
  /\ UNCHANGED <<active_actor_count, initial_key, peer_addr, cleaned,
                 router_chan, serverVars, status, scid_registered,
                 goaway_pending>>

HandleReg ==
  /\ Handling /\ msg.kind = "reg"
  /\ connections' = [connections EXCEPT ![msg.key] = msg.actor]
  /\ pc' = "receive" /\ msg' = None
  /\ UNCHANGED <<active_actor_count, initial_key, peer_addr, cleaned,
                 router_chan, serverVars, status, scid_registered,
                 goaway_pending, packet_chan>>

HandleClean ==
  /\ Handling /\ msg.kind = "clean"
  /\ connections' = [connections EXCEPT ![msg.key] = None,
                                        ![msg.addr_key] = None]
  /\ cleaned' = cleaned \cup {msg.actor}
  /\ pc' = "receive" /\ msg' = None
  /\ UNCHANGED <<active_actor_count, initial_key, peer_addr, router_chan,
                 serverVars, status, scid_registered, goaway_pending,
                 packet_chan>>

(* Faulty variant: the loop is left without a word to the actors. *)
RouterStopsSilently ==
  /\ \/ pc \in {"receive", "handle"} /\ shutdown_flag
     \/ pc = "receive" /\ router_chan = <<>> /\ chans_closed
  /\ pc' = "done" /\ msg' = None
  /\ UNCHANGED <<mapVars, router_chan, serverVars, status,
                 scid_registered, goaway_pending, packet_chan>>

(* The loop is left, and every actor of the map is shut down.  (An actor   *)
(* with several entries is told several times.)                            *)
RouterStops ==
  LET told == {connections[k] : k \in Key} \ {None} IN
  /\ \/ pc \in {"receive", "handle"} /\ shutdown_flag
     \/ pc = "receive" /\ router_chan = <<>> /\ chans_closed
  /\ goaway_pending' = goaway_pending \cup {a \in told : status[a] # "dead"}
  /\ packet_chan' = [a \in Actors |->
       IF a \in told THEN Delivered(a, "empty")
                     ELSE packet_chan[a]]
  /\ pc' = "done" /\ msg' = None
  /\ UNCHANGED <<mapVars, router_chan, serverVars, status,
                 scid_registered>>

(* shutdown and drain: the flag, then the channel and the socket. *)
SetFlag ==
  /\ ~shutdown_flag
  /\ shutdown_flag' = TRUE
  /\ UNCHANGED <<mapVars, router_chan, msg, pc, chans_closed, status,
                 scid_registered, goaway_pending, packet_chan>>

CloseChans ==
  /\ shutdown_flag /\ ~chans_closed
  /\ chans_closed' = TRUE
  /\ UNCHANGED <<mapVars, router_chan, msg, pc, shutdown_flag, status,
                 scid_registered, goaway_pending, packet_chan>>

-----------------------------------------------------------------------------
(* The actors. *)

(* A packet: once it has made the connection choose its SCID, the actor    *)
(* registers it.  An empty one after shutdown closes the connection.       *)
ActorReceives(a) ==
  LET p == Head(packet_chan[a]) IN
  /\ status[a] = "running" /\ packet_chan[a] # <<>>
  /\ packet_chan' = [packet_chan EXCEPT ![a] = Tail(@)]
  /\ \/ /\ p = "data"
        /\ \/ UNCHANGED status
           \/ a \notin scid_registered
              /\ status' = [status EXCEPT ![a] = "registering"]
        /\ UNCHANGED goaway_pending
     \/ /\ p = "empty"
        /\ status' = IF a \in goaway_pending
                       THEN [status EXCEPT ![a] = "exiting"] ELSE status
        /\ goaway_pending' = goaway_pending \ {a}
  /\ UNCHANGED <<mapVars, router_chan, msg, pc, serverVars, scid_registered>>

(* Faulty variant: the registration is not waited for. *)
ActorRegistersIfRoom(a) ==
  /\ status[a] = "registering" /\ ~chans_closed
  /\ router_chan' = IF Len(router_chan) < RouterCap
                      THEN Append(router_chan, [kind |-> "reg", key |-> a,
                                                actor |-> a])
                      ELSE router_chan
  /\ scid_registered' = scid_registered \cup {a}
  /\ status' = [status EXCEPT ![a] = "running"]
  /\ UNCHANGED <<mapVars, msg, pc, serverVars, goaway_pending, packet_chan>>

(* The actor waits until there is room for its registration. *)
ActorRegisters(a) ==
  /\ status[a] = "registering" /\ ~chans_closed
  /\ Len(router_chan) < RouterCap
  /\ router_chan' = Append(router_chan, [kind |-> "reg", key |-> a,
                                         actor |-> a])
  /\ scid_registered' = scid_registered \cup {a}
  /\ status' = [status EXCEPT ![a] = "running"]
  /\ UNCHANGED <<mapVars, msg, pc, serverVars, goaway_pending, packet_chan>>

(* Sending to a closed channel raises. *)
ActorCrashes(a) ==
  /\ status[a] = "registering" /\ chans_closed
  /\ status' = [status EXCEPT ![a] = "exiting"]
  /\ UNCHANGED <<mapVars, router_chan, msg, pc, serverVars, scid_registered,
                 goaway_pending, packet_chan>>

(* The connection closes: the peer, an error, or the idle timeout. *)
ActorCloses(a) ==
  /\ status[a] = "running"
  /\ status' = [status EXCEPT ![a] = "exiting"]
  /\ UNCHANGED <<mapVars, router_chan, msg, pc, serverVars, scid_registered,
                 goaway_pending, packet_chan>>

Clean(a) == [kind |-> "clean", key |-> initial_key[a],
             addr_key |-> peer_addr[a], actor |-> a]

(* Faulty variant: on_close is called when the clean-up has been sent. *)
ActorExitsUncounted(a) ==
  /\ status[a] = "exiting"
  /\ \/ /\ ~chans_closed /\ Len(router_chan) < RouterCap
        /\ router_chan' = Append(router_chan, Clean(a))
        /\ active_actor_count' = active_actor_count - 1
     \/ /\ chans_closed \/ Len(router_chan) >= RouterCap
        /\ UNCHANGED <<router_chan, active_actor_count>>
  /\ status' = [status EXCEPT ![a] = "dead"]
  /\ packet_chan' = [packet_chan EXCEPT ![a] = <<>>]
  /\ goaway_pending' = goaway_pending \ {a}
  /\ UNCHANGED <<connections, initial_key, peer_addr, cleaned, msg, pc,
                 serverVars, scid_registered>>

(* The ensure clause: on_close, then the clean-up, which is dropped when   *)
(* the channel is full, and raises when it is closed.                      *)
ActorExits(a) ==
  /\ status[a] = "exiting"
  /\ active_actor_count' = active_actor_count - 1
  /\ router_chan' = IF ~chans_closed /\ Len(router_chan) < RouterCap
                      THEN Append(router_chan, Clean(a)) ELSE router_chan
  /\ status' = [status EXCEPT ![a] = "dead"]
  /\ packet_chan' = [packet_chan EXCEPT ![a] = <<>>]
  /\ goaway_pending' = goaway_pending \ {a}
  /\ UNCHANGED <<connections, initial_key, peer_addr, cleaned, msg, pc,
                 serverVars, scid_registered>>

Next ==
  \/ Receiver
  \/ RouterReceives \/ StatelessReset \/ RouteKnown
  \/ RouterFails \/ HandleReg \/ HandleClean \/ RouterStops
  \/ SetFlag \/ CloseChans
  \/ \E a \in Actors :
       \/ NewActor(a) \/ ActorReceives(a) \/ ActorRegisters(a)
       \/ ActorCrashes(a) \/ ActorCloses(a) \/ ActorExits(a)

Spec == Init /\ [][Next]_vars

(* The router's fiber runs if it can, and so do the actors'; drain goes on *)
(* once it has set the flag; and a connection that hears nothing any more  *)
(* meets its idle timeout.                                                 *)
RouterStep ==
  \/ RouterReceives \/ StatelessReset \/ RouteKnown \/ HandleReg
  \/ HandleClean \/ RouterStops \/ \E a \in Actors : NewActor(a)

ActorStep(a) ==
  ActorReceives(a) \/ ActorRegisters(a) \/ ActorCrashes(a) \/ ActorExits(a)

IdleTimeout(a) == chans_closed /\ packet_chan[a] = <<>> /\ ActorCloses(a)

FairSpec ==
  /\ Spec
  /\ WF_vars(RouterStep) /\ WF_vars(CloseChans)
  /\ \A a \in Actors : WF_vars(ActorStep(a)) /\ WF_vars(IdleTimeout(a))

-----------------------------------------------------------------------------
(* Type invariant. *)
TypeOK ==
  /\ connections \in [Key -> Actors \cup {None}]
  /\ router_chan \in Seq(RouterMsg) /\ Len(router_chan) <= RouterCap
  /\ pc \in {"receive", "handle", "done", "failed"}
  /\ IF pc = "handle" THEN msg \in RouterMsg ELSE msg = None
  /\ shutdown_flag \in BOOLEAN /\ chans_closed \in BOOLEAN
  /\ active_actor_count \in Int
  /\ status \in [Actors ->
       {"unborn", "running", "registering", "exiting", "dead"}]
  /\ initial_key \in [Actors -> Key \ Addrs]
  /\ peer_addr \in [Actors -> Addrs]
  /\ scid_registered \subseteq Actors /\ goaway_pending \subseteq Actors
  /\ cleaned \subseteq Actors
  /\ packet_chan \in [Actors -> Seq({"data", "empty"})]
  /\ \A a \in Actors : Len(packet_chan[a]) <= PacketCap

(* A packet that carries an id of an actor whose fiber runs, the one the   *)
(* client chose or the actor's SCID, is delivered to that actor, whatever  *)
(* address it comes from and whatever clean-ups of other actors, fallbacks *)
(* and cached ids came before.  In particular a live connection is never   *)
(* answered by a stateless reset, and the registration of a SCID is always *)
(* handled before the first packet that uses it.                           *)
Reachable ==
  pc = "handle" /\ msg.kind = "packet" =>
    \A a \in Live : msg.key \in {initial_key[a], a} => Routed(msg) = a

(* When the router has left its loop, every actor that still runs has been *)
(* told to shut down, or is on its way out: no clean-up or overwritten     *)
(* entry has made the router forget a live actor.                          *)
NoneForgotten ==
  pc = "done" =>
    \A a \in Live : a \in goaway_pending \/ status[a] = "exiting"

(* What drain waits for comes: the count of actors goes down to zero, and  *)
(* then no actor runs.                                                     *)
DrainEnds == shutdown_flag ~> active_actor_count = 0 /\ Live = {}
=============================================================================
