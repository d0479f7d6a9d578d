---------------------------- MODULE RouterProofs ----------------------------
(***************************************************************************)
(* Proofs about module Router, for any actors, ids, addresses and          *)
(* capacities.                                                             *)
(***************************************************************************)
EXTENDS Router, TLAPS

(* What a message is, by its kind. *)
LEMMA MessageKinds ==
  ASSUME NEW m \in RouterMsg
  PROVE  /\ m.kind \in {"packet", "reg", "clean"}
         /\ m.kind = "packet" => m.key \in Key \ Addrs /\ m.addr \in Addrs
         /\ m.kind = "reg" => m.key \in Actors /\ m.actor \in Actors
         /\ m.kind = "clean" => /\ m.key \in Key \ Addrs
                                /\ m.addr_key \in Addrs /\ m.actor \in Actors
BY DEF RouterMsg, RouterPacket, RouterReg, RouterClean

(* Where a packet is routed. *)
LEMMA RoutedType ==
  ASSUME TypeOK, NEW m \in RouterMsg, m.kind = "packet"
  PROVE  Routed(m) \in Actors \cup {None}
BY MessageKinds DEF TypeOK, Routed, Key

(* What is delivered fits into the channel. *)
LEMMA DeliveredType ==
  ASSUME TypeOK, NEW a \in Actors, NEW p \in {"data", "empty"}
  PROVE  /\ Delivered(a, p) \in Seq({"data", "empty"})
         /\ Len(Delivered(a, p)) <= PacketCap
BY RouterAssumption DEF TypeOK, Delivered

(* The packet that arrives, by its parts. *)
LEMMA ReceiverPacket ==
  ASSUME Receiver
  PROVE  \E k \in Dcids \cup {Unknown} \cup scid_registered, d \in Addrs,
            long \in BOOLEAN :
           router_chan' = Append(router_chan,
             [kind |-> "packet", key |-> k, addr |-> d, long |-> long])
<1>1. PICK p \in Openers \cup (scid_registered \X Addrs \X BOOLEAN) :
        router_chan' = Append(router_chan,
          [kind |-> "packet", key |-> p[1], addr |-> p[2], long |-> p[3]])
  BY DEF Receiver
<1>2. /\ p[1] \in Dcids \cup {Unknown} \cup scid_registered
      /\ p[2] \in Addrs /\ p[3] \in BOOLEAN
  BY RouterAssumption
<1> QED
  BY <1>1, <1>2

LEMMA InitTyped == Init => TypeOK
<1> SUFFICES ASSUME Init PROVE TypeOK
  OBVIOUS
<1>1. (CHOOSE d \in Addrs : TRUE) \in Addrs
  BY RouterAssumption, Zenon
<1>2. peer_addr \in [Actors -> Addrs]
  BY <1>1 DEF Init
<1>3. Unknown \in Key \ Addrs
  BY RouterAssumption DEF Key
<1>4. /\ packet_chan \in [Actors -> Seq({"data", "empty"})]
      /\ \A a \in Actors : Len(packet_chan[a]) <= PacketCap
  BY RouterAssumption DEF Init
<1>5. router_chan \in Seq(RouterMsg) /\ Len(router_chan) <= RouterCap
  BY RouterAssumption DEF Init
<1>6. initial_key \in [Actors -> Key \ Addrs]
  BY <1>3 DEF Init
<1>7. /\ connections \in [Key -> Actors \cup {None}]
      /\ status \in [Actors ->
           {"unborn", "running", "registering", "exiting", "dead"}]
      /\ active_actor_count \in Int
  BY DEF Init
<1>8. /\ pc = "receive" /\ msg = None
      /\ shutdown_flag \in BOOLEAN /\ chans_closed \in BOOLEAN
      /\ scid_registered \subseteq Actors /\ goaway_pending \subseteq Actors
      /\ cleaned \subseteq Actors
  BY DEF Init
<1> QED
  BY <1>2, <1>4, <1>5, <1>6, <1>7, <1>8 DEF TypeOK

LEMMA StepTyped == TypeOK /\ [Next]_vars => TypeOK'
<1> SUFFICES ASSUME TypeOK, [Next]_vars PROVE TypeOK'
  OBVIOUS
<1>1. CASE Receiver
  <2>1. PICK k \in Dcids \cup {Unknown} \cup scid_registered, d \in Addrs,
             long \in BOOLEAN :
          router_chan' = Append(router_chan,
            [kind |-> "packet", key |-> k, addr |-> d, long |-> long])
    BY <1>1, ReceiverPacket
  <2>2. [kind |-> "packet", key |-> k, addr |-> d, long |-> long]
          \in RouterMsg
    BY RouterAssumption DEF TypeOK, RouterMsg, RouterPacket, Key
  <2>3. /\ router_chan' \in Seq(RouterMsg)
        /\ Len(router_chan') <= RouterCap
    BY <1>1, <2>1, <2>2, RouterAssumption DEF Receiver, TypeOK
  <2> QED
    BY <1>1, <2>3 DEF Receiver, TypeOK, mapVars, serverVars
<1>2. CASE RouterReceives
  <2>1. /\ msg' \in RouterMsg
        /\ router_chan' \in Seq(RouterMsg) /\ Len(router_chan') <= RouterCap
    BY <1>2, RouterAssumption DEF RouterReceives, TypeOK
  <2> QED
    BY <1>2, <2>1 DEF RouterReceives, TypeOK, mapVars, serverVars
<1>3. CASE StatelessReset \/ RouterFails
  BY <1>3 DEF StatelessReset, RouterFails, Handling, TypeOK, mapVars,
     serverVars
<1>4. ASSUME NEW a \in Actors, NewActor(a) PROVE TypeOK'
  <2>1. msg.key \in Key \ Addrs /\ msg.addr \in Addrs
    BY <1>4, MessageKinds DEF NewActor, Handling, TypeOK
  <2>2. /\ initial_key' \in [Actors -> Key \ Addrs]
        /\ peer_addr' \in [Actors -> Addrs]
        /\ active_actor_count' \in Int
    BY <1>4, <2>1 DEF NewActor, TypeOK
  <2>4. connections' \in [Key -> Actors \cup {None}]
    <3>1. msg.addr \in Key /\ msg.key \in Key
      BY <2>1 DEF Key
    <3> QED
      BY <1>4, <3>1 DEF NewActor, TypeOK
  <2>3. /\ packet_chan' \in [Actors -> Seq({"data", "empty"})]
        /\ \A b \in Actors : Len(packet_chan'[b]) <= PacketCap
    BY <1>4, DeliveredType DEF NewActor, TypeOK
  <2> QED
    BY <1>4, <2>2, <2>3, <2>4 DEF NewActor, TypeOK, mapVars, serverVars
<1>5. CASE RouteKnown
  <2> DEFINE a == Routed(msg)
  <2>1. a \in Actors /\ msg.key \in Key
    BY <1>5, RoutedType, MessageKinds DEF RouteKnown, Handling, TypeOK
  <2>2. connections' \in [Key -> Actors \cup {None}]
    BY <1>5, <2>1 DEF RouteKnown, TypeOK
  <2>3. /\ packet_chan' \in [Actors -> Seq({"data", "empty"})]
        /\ \A b \in Actors : Len(packet_chan'[b]) <= PacketCap
    <3>1. packet_chan' = [packet_chan EXCEPT ![a] = Delivered(a, "data")]
      BY <1>5 DEF RouteKnown
    <3> HIDE DEF a
    <3> QED
      BY <2>1, <3>1, DeliveredType DEF TypeOK
  <2> QED
    BY <1>5, <2>2, <2>3 DEF RouteKnown, TypeOK, serverVars
<1>6. CASE HandleReg
  <2>1. msg.key \in Key /\ msg.actor \in Actors
    BY <1>6, MessageKinds DEF HandleReg, Handling, TypeOK, Key
  <2> QED
    BY <1>6, <2>1 DEF HandleReg, TypeOK, serverVars
<1>7. CASE HandleClean
  <2>1. /\ msg.key \in Key /\ msg.addr_key \in Key
        /\ msg.actor \in Actors
    BY <1>7, MessageKinds DEF HandleClean, Handling, TypeOK, Key
  <2> QED
    BY <1>7, <2>1 DEF HandleClean, TypeOK, serverVars
<1>8. CASE RouterStops
  <2>1. {connections[k] : k \in Key} \ {None} \subseteq Actors
    BY DEF TypeOK
  <2>2. goaway_pending' \subseteq Actors
    BY <1>8, <2>1 DEF RouterStops, TypeOK
  <2>3. /\ packet_chan' \in [Actors -> Seq({"data", "empty"})]
        /\ \A b \in Actors : Len(packet_chan'[b]) <= PacketCap
    BY <1>8, DeliveredType DEF RouterStops, TypeOK
  <2> QED
    BY <1>8, <2>2, <2>3 DEF RouterStops, TypeOK, mapVars, serverVars
<1>9. CASE SetFlag \/ CloseChans
  BY <1>9 DEF SetFlag, CloseChans, TypeOK, mapVars, serverVars
<1>10. ASSUME NEW a \in Actors, ActorReceives(a) PROVE TypeOK'
  <2>1. /\ status' \in [Actors ->
             {"unborn", "running", "registering", "exiting", "dead"}]
        /\ goaway_pending' \subseteq Actors
    BY <1>10 DEF ActorReceives, TypeOK
  <2>2. /\ packet_chan' \in [Actors -> Seq({"data", "empty"})]
        /\ \A b \in Actors : Len(packet_chan'[b]) <= PacketCap
    BY <1>10, RouterAssumption DEF ActorReceives, TypeOK
  <2> QED
    BY <1>10, <2>1, <2>2 DEF ActorReceives, TypeOK, mapVars, serverVars
<1>11. ASSUME NEW a \in Actors, ActorRegisters(a) PROVE TypeOK'
  <2>1. [kind |-> "reg", key |-> a, actor |-> a] \in RouterMsg
    BY DEF RouterMsg, RouterReg
  <2>2. /\ router_chan' \in Seq(RouterMsg)
        /\ Len(router_chan') <= RouterCap
    BY <1>11, <2>1, RouterAssumption DEF ActorRegisters, TypeOK
  <2> QED
    BY <1>11, <2>2 DEF ActorRegisters, TypeOK, mapVars, serverVars
<1>12. ASSUME NEW a \in Actors, ActorCrashes(a) \/ ActorCloses(a)
       PROVE  TypeOK'
  BY <1>12 DEF ActorCrashes, ActorCloses, TypeOK, mapVars, serverVars
<1>13. ASSUME NEW a \in Actors, ActorExits(a) PROVE TypeOK'
  <2>1. Clean(a) \in RouterMsg
    BY DEF Clean, TypeOK, RouterMsg, RouterClean
  <2>2. /\ router_chan' \in Seq(RouterMsg)
        /\ Len(router_chan') <= RouterCap
    BY <1>13, <2>1, RouterAssumption DEF ActorExits, TypeOK
  <2>3. /\ packet_chan' \in [Actors -> Seq({"data", "empty"})]
        /\ \A b \in Actors : Len(packet_chan'[b]) <= PacketCap
    BY <1>13, RouterAssumption DEF ActorExits, TypeOK
  <2> QED
    BY <1>13, <2>2, <2>3 DEF ActorExits, TypeOK, serverVars
<1>14. CASE UNCHANGED vars
  BY <1>14 DEF vars, TypeOK, mapVars, serverVars
<1> QED
  BY <1>1, <1>2, <1>3, <1>4, <1>5, <1>6, <1>7, <1>8, <1>9, <1>10, <1>11,
     <1>12, <1>13, <1>14 DEF Next

(* The router's state and its channels keep their types, whatever clients  *)
(* send and however actors come and go.                                    *)
THEOREM TypeCorrect == Spec => []TypeOK
BY InitTyped, StepTyped, PTL DEF Spec

-----------------------------------------------------------------------------
(* The inductive invariant. *)

(* An actor keeps the entries it was made with until its clean-up is       *)
(* handled.                                                                *)
Owned ==
  \A a \in Actors : status[a] # "unborn" /\ a \notin cleaned =>
    connections[initial_key[a]] = a /\ connections[peer_addr[a]] = a

(* A clean-up comes from a dead actor, names its entries, and is the only  *)
(* one of that actor.                                                      *)
CleanOf(m) ==
  /\ status[m.actor] = "dead" /\ m.actor \notin cleaned
  /\ m.key = initial_key[m.actor] /\ m.addr_key = peer_addr[m.actor]

Cleans ==
  /\ \A i \in 1 .. Len(router_chan) :
       router_chan[i].kind = "clean" => CleanOf(router_chan[i])
  /\ pc = "handle" /\ msg.kind = "clean" => CleanOf(msg)

CleanOnce ==
  /\ \A i, j \in 1 .. Len(router_chan) :
       router_chan[i].kind = "clean" /\ router_chan[j].kind = "clean"
         /\ i # j => router_chan[i].actor # router_chan[j].actor
  /\ pc = "handle" /\ msg.kind = "clean" =>
       \A i \in 1 .. Len(router_chan) :
         router_chan[i].kind = "clean" => router_chan[i].actor # msg.actor

CleanedDead == \A a \in cleaned : status[a] = "dead"

(* No actor was made for the SCID of another. *)
OwnIds == \A a \in Actors : initial_key[a] \notin Actors

(* A registration is of the actor's own SCID. *)
Regs ==
  /\ \A i \in 1 .. Len(router_chan) :
       router_chan[i].kind = "reg" => router_chan[i].key = router_chan[i].actor
  /\ pc = "handle" /\ msg.kind = "reg" => msg.key = msg.actor

(* The alias of a is in the map, or its registration comes before the      *)
(* i-th message of the channel.                                            *)
Ahead(a, i) ==
  \/ connections[a] = a
  \/ pc = "handle" /\ msg.kind = "reg" /\ msg.key = a
  \/ \E j \in 1 .. Len(router_chan) :
       j < i /\ router_chan[j].kind = "reg" /\ router_chan[j].key = a

(* The alias of a is in the map, or its registration is under way. *)
Coming(a) ==
  \/ connections[a] = a
  \/ pc = "handle" /\ msg.kind = "reg" /\ msg.key = a
  \/ \E j \in 1 .. Len(router_chan) :
       router_chan[j].kind = "reg" /\ router_chan[j].key = a

Aliases ==
  pc \in {"receive", "handle"} =>
    /\ \A i \in 1 .. Len(router_chan), a \in Actors :
         router_chan[i].kind = "packet" /\ router_chan[i].key = a =>
           Ahead(a, i)
    /\ \A a \in scid_registered : Coming(a)
    /\ pc = "handle" /\ msg.kind = "packet" /\ msg.key \in Actors =>
         connections[msg.key] = msg.key

Inv ==
  /\ TypeOK /\ Owned /\ Cleans /\ CleanOnce /\ CleanedDead /\ OwnIds
  /\ Regs /\ Aliases /\ NoneForgotten

(* What the channel holds after a message was appended or received. *)
LEMMA Appended ==
  ASSUME TypeOK, NEW m \in RouterMsg, router_chan' = Append(router_chan, m)
  PROVE  /\ Len(router_chan') = Len(router_chan) + 1
         /\ Len(router_chan) \in Nat
         /\ \A i \in 1 .. Len(router_chan) : router_chan'[i] = router_chan[i]
         /\ router_chan'[Len(router_chan) + 1] = m
         /\ \A i \in 1 .. Len(router_chan') :
              i \in 1 .. Len(router_chan) \/ i = Len(router_chan) + 1
         /\ \A i \in 1 .. Len(router_chan) : router_chan[i] \in RouterMsg
BY DEF TypeOK

LEMMA Received ==
  ASSUME TypeOK, router_chan # <<>>, router_chan' = Tail(router_chan)
  PROVE  /\ Len(router_chan) \in Nat /\ Len(router_chan) > 0
         /\ Len(router_chan') = Len(router_chan) - 1
         /\ Head(router_chan) = router_chan[1]
         /\ \A i \in 1 .. Len(router_chan') :
              i + 1 \in 1 .. Len(router_chan)
              /\ router_chan'[i] = router_chan[i + 1]
         /\ \A i \in 1 .. Len(router_chan) : router_chan[i] \in RouterMsg
BY DEF TypeOK

LEMMA InitInv == Init => Inv
<1> SUFFICES ASSUME Init PROVE Inv
  OBVIOUS
<1>1. TypeOK
  BY InitTyped
<1>2. Owned /\ CleanedDead /\ NoneForgotten
  BY DEF Init, Owned, CleanedDead, NoneForgotten
<1>3. OwnIds
  BY RouterAssumption DEF Init, OwnIds
<1>4. Cleans /\ CleanOnce /\ Regs /\ Aliases
  BY DEF Init, Cleans, CleanOnce, Regs, Aliases
<1> QED
  BY <1>1, <1>2, <1>3, <1>4 DEF Inv

(* A packet arrives. *)
LEMMA ReceiverInv ==
  ASSUME Inv, TypeOK', Receiver
  PROVE  Inv'
<1> USE DEF Inv
<1>1. PICK k \in Dcids \cup {Unknown} \cup scid_registered, d \in Addrs,
           long \in BOOLEAN :
        router_chan' = Append(router_chan,
          [kind |-> "packet", key |-> k, addr |-> d, long |-> long])
  BY ReceiverPacket
<1> DEFINE m == [kind |-> "packet", key |-> k, addr |-> d, long |-> long]
<1>2. m \in RouterMsg /\ m.kind = "packet" /\ m.key = k
  BY RouterAssumption DEF TypeOK, RouterMsg, RouterPacket, Key
<1>3. router_chan' = Append(router_chan, m)
  BY <1>1
<1> HIDE DEF m
<1>4. UNCHANGED <<mapVars, msg, pc, status, scid_registered, goaway_pending>>
  BY DEF Receiver
<1>5. Owned' /\ CleanedDead' /\ OwnIds' /\ NoneForgotten'
  BY <1>4 DEF Owned, CleanedDead, OwnIds, NoneForgotten, Live, mapVars
<1>6. Cleans' /\ CleanOnce' /\ Regs'
  BY <1>2, <1>3, <1>4, Appended
  DEF Cleans, CleanOf, CleanOnce, Regs, mapVars
<1>7. Aliases'
  <2> SUFFICES ASSUME pc \in {"receive", "handle"} PROVE Aliases'
    BY <1>4 DEF Aliases
  <2>1. \A a \in Actors, i \in 1 .. Len(router_chan) :
          Ahead(a, i) => Ahead(a, i)'
    BY <1>2, <1>3, <1>4, Appended DEF Ahead, mapVars
  <2>2. \A a \in Actors : Coming(a) => Coming(a)'
    BY <1>2, <1>3, <1>4, Appended DEF Coming, mapVars
  <2>3. \A i \in 1 .. Len(router_chan'), a \in Actors :
          Coming(a) /\ i = Len(router_chan) + 1 => Ahead(a, i)'
    BY <1>2, <1>3, <1>4, Appended DEF Coming, Ahead, mapVars
  <2>4. k \in Actors => Coming(k)
    BY RouterAssumption DEF Aliases
  <2>5. \A i \in 1 .. Len(router_chan'), a \in Actors :
          router_chan'[i].kind = "packet" /\ router_chan'[i].key = a
            => Ahead(a, i)'
    BY <1>2, <1>3, <2>1, <2>3, <2>4, Appended DEF Aliases
  <2> QED
    BY <1>4, <2>2, <2>5 DEF Aliases, TypeOK, mapVars
<1> QED
  BY <1>5, <1>6, <1>7

(* The router receives the head of the channel. *)
LEMMA ReceivesInv ==
  ASSUME Inv, TypeOK', RouterReceives
  PROVE  Inv'
<1> USE DEF Inv
<1>1. /\ router_chan # <<>> /\ router_chan' = Tail(router_chan)
      /\ msg' = Head(router_chan) /\ pc = "receive" /\ pc' = "handle"
      /\ UNCHANGED <<mapVars, status, scid_registered, goaway_pending>>
  BY DEF RouterReceives
<1>2. Owned' /\ CleanedDead' /\ OwnIds' /\ NoneForgotten'
  BY <1>1 DEF Owned, CleanedDead, OwnIds, NoneForgotten, Live, mapVars
<1>3. 1 \in 1 .. Len(router_chan) /\ msg' = router_chan[1]
  BY <1>1, Received
<1>4. Cleans' /\ Regs'
  BY <1>1, <1>3, Received DEF Cleans, CleanOf, Regs, mapVars
<1>5. CleanOnce'
  BY <1>1, <1>3, Received DEF CleanOnce
<1>6. Aliases'
  <2>1. \A a \in Actors, i \in 1 .. Len(router_chan') :
          Ahead(a, i + 1) => Ahead(a, i)'
    <3> SUFFICES ASSUME NEW a \in Actors, NEW i \in 1 .. Len(router_chan'),
                        Ahead(a, i + 1), connections[a] # a
                 PROVE  Ahead(a, i)'
      BY <1>1 DEF Ahead, mapVars
    <3>1. PICK j \in 1 .. Len(router_chan) :
            j < i + 1 /\ router_chan[j].kind = "reg" /\ router_chan[j].key = a
      BY <1>1 DEF Ahead
    <3>2. CASE j = 1
      BY <1>1, <1>3, <3>1, <3>2 DEF Ahead
    <3>3. CASE j # 1
      <4>1. /\ j - 1 \in 1 .. Len(router_chan') /\ j - 1 < i
            /\ router_chan'[j - 1] = router_chan[j]
        BY <1>1, <3>1, <3>3, Received
      <4> QED
        BY <3>1, <4>1 DEF Ahead
    <3> QED
      BY <3>2, <3>3
  <2>2. \A a \in Actors : Coming(a) => Coming(a)'
    <3> SUFFICES ASSUME NEW a \in Actors, Coming(a), connections[a] # a
                 PROVE  Coming(a)'
      BY <1>1 DEF Coming, mapVars
    <3>1. PICK j \in 1 .. Len(router_chan) :
            router_chan[j].kind = "reg" /\ router_chan[j].key = a
      BY <1>1 DEF Coming
    <3>2. CASE j = 1
      BY <1>1, <1>3, <3>1, <3>2 DEF Coming
    <3>3. CASE j # 1
      <4>1. /\ j - 1 \in 1 .. Len(router_chan')
            /\ router_chan'[j - 1] = router_chan[j]
        BY <1>1, <3>1, <3>3, Received
      <4> QED
        BY <3>1, <4>1 DEF Coming
    <3> QED
      BY <3>2, <3>3
  <2>3. \A i \in 1 .. Len(router_chan'), a \in Actors :
          router_chan'[i].kind = "packet" /\ router_chan'[i].key = a
            => Ahead(a, i)'
    BY <1>1, <2>1, Received DEF Aliases
  <2>4. msg'.kind = "packet" /\ msg'.key \in Actors =>
          connections'[msg'.key] = msg'.key
    BY <1>1, <1>3 DEF Aliases, Ahead, mapVars
  <2> QED
    BY <1>1, <2>2, <2>3, <2>4 DEF Aliases, TypeOK
<1> QED
  BY <1>2, <1>4, <1>5, <1>6

(* Handling a message that is not a clean-up: the channel and the actors'  *)
(* clean-ups stay, and no alias is lost.                                   *)
LEMMA HandledChannel ==
  ASSUME Inv, TypeOK', pc = "handle", pc' = "receive", UNCHANGED router_chan,
         UNCHANGED scid_registered,
         \A a \in Actors : connections[a] = a => connections'[a] = a,
         msg.kind = "reg" => connections'[msg.key] = msg.key
  PROVE  Regs' /\ Aliases' /\ NoneForgotten'
<1> USE DEF Inv
<1>1. Regs' /\ NoneForgotten'
  BY DEF Regs, NoneForgotten
<1>2. \A a \in Actors, i \in 1 .. Len(router_chan) :
        Ahead(a, i) => Ahead(a, i)'
  BY DEF Ahead
<1>3. \A a \in Actors : Coming(a) => Coming(a)'
  BY DEF Coming
<1>4. Aliases'
  BY <1>2, <1>3 DEF Aliases, TypeOK
<1> QED
  BY <1>1, <1>4

(* A packet that makes an actor is not under an actor's SCID. *)
LEMMA NewActorInv ==
  ASSUME Inv, TypeOK', NEW x \in Actors, NewActor(x)
  PROVE  Inv'
<1> USE DEF Inv
<1>1. /\ pc = "handle" /\ msg \in RouterMsg /\ msg.kind = "packet"
      /\ msg.key \in Key \ Addrs /\ msg.addr \in Addrs
      /\ pc' = "receive" /\ UNCHANGED <<router_chan, scid_registered, cleaned>>
      /\ status[x] = "unborn"
  BY MessageKinds DEF NewActor, Handling, TypeOK
<1>2. /\ status' = [status EXCEPT ![x] = "running"]
      /\ initial_key' = [initial_key EXCEPT ![x] = msg.key]
      /\ peer_addr' = [peer_addr EXCEPT ![x] = msg.addr]
      /\ connections' = [connections EXCEPT ![msg.key] = x, ![msg.addr] = x]
  BY DEF NewActor
<1>3. connections[msg.key] = None /\ connections[msg.addr] = None
  BY <1>1 DEF NewActor, Routed
<1>4. msg.key \notin Actors
  BY <1>1, <1>3, RouterAssumption DEF Aliases, Key
<1>5. \A k \in Key : k # msg.key /\ k # msg.addr =>
        connections'[k] = connections[k]
  BY <1>1, <1>2 DEF TypeOK
<1>6. connections'[msg.key] = x /\ connections'[msg.addr] = x
  BY <1>1, <1>2 DEF TypeOK, Key
<1>7. Owned'
  <2> SUFFICES ASSUME NEW a \in Actors, status'[a] # "unborn",
                      a \notin cleaned
               PROVE  connections'[initial_key'[a]] = a
                      /\ connections'[peer_addr'[a]] = a
    BY <1>1 DEF Owned
  <2>1. CASE a = x
    BY <1>2, <1>6, <2>1 DEF TypeOK
  <2>2. CASE a # x
    <3>1. /\ initial_key'[a] = initial_key[a] /\ peer_addr'[a] = peer_addr[a]
          /\ status[a] # "unborn"
      BY <1>2, <2>2 DEF TypeOK
    <3>2. connections[initial_key[a]] = a /\ connections[peer_addr[a]] = a
      BY <3>1 DEF Owned
    <3>3. /\ initial_key[a] \in Key /\ peer_addr[a] \in Key
          /\ initial_key[a] \notin {msg.key, msg.addr}
          /\ peer_addr[a] \notin {msg.key, msg.addr}
      BY <1>3, <3>2, RouterAssumption, SMTT(40) DEF TypeOK, Key
    <3> QED
      BY <1>5, <3>1, <3>2, <3>3
  <2> QED
    BY <2>1, <2>2
<1>8. OwnIds' /\ CleanedDead'
  BY <1>1, <1>2, <1>4 DEF OwnIds, CleanedDead, TypeOK
<1>9. \A m \in RouterMsg : m.kind = "clean" /\ CleanOf(m) =>
        m.actor # x /\ m.actor \in Actors
  BY <1>1, MessageKinds DEF CleanOf
<1>10. Cleans' /\ CleanOnce'
  BY <1>1, <1>2, <1>9 DEF Cleans, CleanOf, CleanOnce, TypeOK
<1>11. \A a \in Actors : connections[a] = a => connections'[a] = a
  BY <1>1, <1>4, <1>5, RouterAssumption DEF Key
<1> QED
  BY <1>1, <1>7, <1>8, <1>10, <1>11, HandledChannel

(* A packet for a known actor changes the map only where it was empty. *)
LEMMA RouteKnownInv ==
  ASSUME Inv, TypeOK', RouteKnown
  PROVE  Inv'
<1> USE DEF Inv
<1> DEFINE x == Routed(msg)
<1>1. /\ pc = "handle" /\ msg \in RouterMsg /\ msg.kind = "packet"
      /\ msg.key \in Key \ Addrs /\ msg.addr \in Addrs
      /\ pc' = "receive" /\ x # None
      /\ UNCHANGED <<router_chan, scid_registered, cleaned, status,
                     initial_key, peer_addr>>
      /\ connections' = [connections EXCEPT ![msg.key] = x]
  BY MessageKinds DEF RouteKnown, Handling, TypeOK
<1>2. connections[msg.key] # None => x = connections[msg.key]
  BY DEF Routed
<1> HIDE DEF x
<1>3. \A k \in Key : connections[k] # None => connections'[k] = connections[k]
  BY <1>1, <1>2 DEF TypeOK
<1>4. Owned'
  <2>1. \A a \in Actors : /\ a # None
                          /\ initial_key[a] \in Key /\ peer_addr[a] \in Key
    BY RouterAssumption DEF TypeOK, Key
  <2> QED
    BY <1>1, <1>3, <2>1 DEF Owned
<1>5. OwnIds' /\ CleanedDead'
  BY <1>1 DEF OwnIds, CleanedDead
<1>6. Cleans' /\ CleanOnce'
  BY <1>1 DEF Cleans, CleanOf, CleanOnce
<1>7. \A a \in Actors : connections[a] = a => connections'[a] = a
  BY <1>3, RouterAssumption DEF Key
<1> QED
  BY <1>1, <1>4, <1>5, <1>6, <1>7, HandledChannel

(* A stateless reset changes nothing. *)
LEMMA StatelessResetInv ==
  ASSUME Inv, TypeOK', StatelessReset
  PROVE  Inv'
<1> USE DEF Inv
<1>1. /\ pc = "handle" /\ msg.kind = "packet" /\ pc' = "receive"
      /\ UNCHANGED <<router_chan, scid_registered, mapVars, status>>
  BY DEF StatelessReset, Handling
<1>2. Owned' /\ OwnIds' /\ CleanedDead'
  BY <1>1 DEF Owned, OwnIds, CleanedDead, mapVars
<1>3. Cleans' /\ CleanOnce'
  BY <1>1 DEF Cleans, CleanOf, CleanOnce, mapVars
<1> QED
  BY <1>1, <1>2, <1>3, HandledChannel DEF mapVars

(* A registration touches no entry that an actor was made with. *)
LEMMA HandleRegInv ==
  ASSUME Inv, TypeOK', HandleReg
  PROVE  Inv'
<1> USE DEF Inv
<1>1. /\ pc = "handle" /\ msg \in RouterMsg /\ msg.kind = "reg"
      /\ msg.key \in Actors /\ msg.actor = msg.key
      /\ pc' = "receive"
      /\ UNCHANGED <<router_chan, scid_registered, cleaned, status,
                     initial_key, peer_addr>>
      /\ connections' = [connections EXCEPT ![msg.key] = msg.actor]
  BY MessageKinds DEF HandleReg, Handling, TypeOK, Regs
<1>2. /\ \A k \in Key \ Actors : connections'[k] = connections[k]
      /\ \A a \in Actors : connections[a] = a => connections'[a] = a
      /\ connections'[msg.key] = msg.key
  BY <1>1 DEF TypeOK, Key
<1>3. Owned'
  BY <1>1, <1>2, RouterAssumption DEF Owned, OwnIds, TypeOK, Key
<1>4. OwnIds' /\ CleanedDead'
  BY <1>1 DEF OwnIds, CleanedDead
<1>5. Cleans' /\ CleanOnce'
  BY <1>1 DEF Cleans, CleanOf, CleanOnce
<1> QED
  BY <1>1, <1>2, <1>3, <1>4, <1>5, HandledChannel

(* A clean-up removes entries of its sender only. *)
LEMMA HandleCleanInv ==
  ASSUME Inv, TypeOK', HandleClean
  PROVE  Inv'
<1> USE DEF Inv
<1>1. /\ pc = "handle" /\ msg \in RouterMsg /\ msg.kind = "clean"
      /\ msg.key \in Key \ Addrs /\ msg.addr_key \in Addrs
      /\ msg.actor \in Actors
      /\ pc' = "receive"
      /\ UNCHANGED <<router_chan, scid_registered, status, initial_key,
                     peer_addr>>
      /\ connections' = [connections EXCEPT ![msg.key] = None,
                                            ![msg.addr_key] = None]
      /\ cleaned' = cleaned \cup {msg.actor}
  BY MessageKinds DEF HandleClean, Handling, TypeOK
<1>2. /\ CleanOf(msg)
      /\ msg.key = initial_key[msg.actor]
      /\ msg.addr_key = peer_addr[msg.actor]
      /\ status[msg.actor] = "dead"
  BY <1>1 DEF Cleans, CleanOf
<1>3. connections[msg.key] = msg.actor /\ connections[msg.addr_key] = msg.actor
  BY <1>1, <1>2 DEF Owned, CleanOf
<1>4. \A k \in Key : k # msg.key /\ k # msg.addr_key =>
        connections'[k] = connections[k]
  BY <1>1 DEF TypeOK
<1>5. Owned'
  <2> SUFFICES ASSUME NEW a \in Actors, status[a] # "unborn",
                      a \notin cleaned'
               PROVE  connections'[initial_key[a]] = a
                      /\ connections'[peer_addr[a]] = a
    BY <1>1 DEF Owned
  <2>1. /\ connections[initial_key[a]] = a /\ connections[peer_addr[a]] = a
        /\ a # msg.actor
    BY <1>1 DEF Owned
  <2>2. /\ initial_key[a] \in Key /\ peer_addr[a] \in Key
        /\ initial_key[a] \notin {msg.key, msg.addr_key}
        /\ peer_addr[a] \notin {msg.key, msg.addr_key}
    BY <1>1, <1>3, <2>1 DEF TypeOK, Key
  <2> QED
    BY <1>4, <2>1, <2>2
<1>6. OwnIds' /\ CleanedDead'
  BY <1>1, <1>2 DEF OwnIds, CleanedDead
<1>7. Cleans' /\ CleanOnce'
  BY <1>1 DEF Cleans, CleanOf, CleanOnce
<1>8. \A a \in Actors : connections[a] = a => connections'[a] = a
  BY <1>1, <1>2, <1>4, RouterAssumption DEF OwnIds, Key
<1> QED
  BY <1>1, <1>5, <1>6, <1>7, <1>8, HandledChannel

(* The router fails: nothing else changes. *)
LEMMA RouterFailsInv ==
  ASSUME Inv, TypeOK', RouterFails
  PROVE  Inv'
<1> USE DEF Inv
<1>1. /\ pc' = "failed"
      /\ UNCHANGED <<router_chan, scid_registered, mapVars, status>>
  BY DEF RouterFails
<1>2. Owned' /\ OwnIds' /\ CleanedDead' /\ NoneForgotten'
  BY <1>1 DEF Owned, OwnIds, CleanedDead, NoneForgotten, mapVars
<1>3. Cleans' /\ CleanOnce' /\ Regs' /\ Aliases'
  BY <1>1 DEF Cleans, CleanOf, CleanOnce, Regs, Aliases, mapVars
<1> QED
  BY <1>2, <1>3

(* The router leaves its loop: a live actor owns an entry, so it is told. *)
LEMMA RouterStopsInv ==
  ASSUME Inv, TypeOK', RouterStops
  PROVE  Inv'
<1> USE DEF Inv
<1>1. /\ pc' = "done"
      /\ UNCHANGED <<router_chan, scid_registered, mapVars, status>>
      /\ goaway_pending' = goaway_pending \cup
           {a \in {connections[k] : k \in Key} \ {None} : status[a] # "dead"}
  BY DEF RouterStops
<1>2. Owned' /\ OwnIds' /\ CleanedDead'
  BY <1>1 DEF Owned, OwnIds, CleanedDead, mapVars
<1>3. Cleans' /\ CleanOnce' /\ Regs' /\ Aliases'
  BY <1>1 DEF Cleans, CleanOf, CleanOnce, Regs, Aliases, mapVars
<1>4. NoneForgotten'
  <2> SUFFICES ASSUME NEW a \in Actors, a \in Live
               PROVE  a \in goaway_pending'
    BY <1>1 DEF NoneForgotten, Live
  <2>1. status[a] \notin {"unborn", "dead"} /\ a \notin cleaned
    BY DEF Live, CleanedDead
  <2>2. connections[peer_addr[a]] = a /\ peer_addr[a] \in Key
    BY <2>1 DEF Owned, TypeOK, Key
  <2> QED
    BY <1>1, <2>1, <2>2, RouterAssumption DEF Key
<1> QED
  BY <1>2, <1>3, <1>4

(* A step of an actor that sends nothing. *)
LEMMA QuietInv ==
  ASSUME Inv, TypeOK', NEW x \in Actors,
         UNCHANGED <<mapVars, router_chan, msg, pc, scid_registered>>,
         status[x] \in {"running", "registering"},
         status' \in {status, [status EXCEPT ![x] = "registering"],
                      [status EXCEPT ![x] = "exiting"]},
         \A a \in goaway_pending :
           a \in goaway_pending' \/ status'[a] = "exiting"
  PROVE  Inv'
<1> USE DEF Inv
<1>1. /\ \A a \in Actors : (status'[a] = "unborn") = (status[a] = "unborn")
      /\ \A a \in Actors : status[a] = "dead" => status'[a] = "dead"
      /\ \A a \in Actors : a \in Live' => a \in Live
  BY DEF TypeOK, Live
<1>2. Owned' /\ OwnIds' /\ CleanedDead'
  BY <1>1 DEF Owned, OwnIds, CleanedDead, mapVars, TypeOK
<1>3. \A i \in 1 .. Len(router_chan) : router_chan[i] \in RouterMsg
  BY DEF TypeOK
<1>4. Cleans'
  <2>1. \A i \in 1 .. Len(router_chan) :
          router_chan[i].kind = "clean" => CleanOf(router_chan[i])'
    BY <1>1, <1>3, MessageKinds DEF Cleans, CleanOf, mapVars
  <2>2. pc = "handle" /\ msg.kind = "clean" => CleanOf(msg)'
    BY <1>1, MessageKinds DEF Cleans, CleanOf, TypeOK, mapVars
  <2> QED
    BY <2>1, <2>2 DEF Cleans
<1>5. CleanOnce' /\ Regs'
  BY DEF CleanOnce, Regs
<1>6. Aliases'
  BY DEF Aliases, Ahead, Coming, mapVars
<1>7. NoneForgotten'
  BY <1>1 DEF NoneForgotten, Live, TypeOK
<1> QED
  BY <1>2, <1>4, <1>5, <1>6, <1>7

(* An actor's message joins the channel: its registration ... *)
LEMMA RegistersInv ==
  ASSUME Inv, TypeOK', NEW x \in Actors, ActorRegisters(x)
  PROVE  Inv'
<1> USE DEF Inv
<1> DEFINE m == [kind |-> "reg", key |-> x, actor |-> x]
<1>1. /\ m \in RouterMsg /\ m.kind = "reg" /\ m.key = x /\ m.actor = x
      /\ router_chan' = Append(router_chan, m)
  BY DEF ActorRegisters, RouterMsg, RouterReg
<1> HIDE DEF m
<1>2. /\ UNCHANGED <<mapVars, msg, pc, goaway_pending>>
      /\ status[x] = "registering"
      /\ status' = [status EXCEPT ![x] = "running"]
      /\ scid_registered' = scid_registered \cup {x}
  BY DEF ActorRegisters
<1>3. /\ \A a \in Actors : (status'[a] = "unborn") = (status[a] = "unborn")
      /\ \A a \in Actors : status[a] = "dead" => status'[a] = "dead"
      /\ \A a \in Actors : a \in Live' => a \in Live
  BY <1>2 DEF TypeOK, Live
<1>4. Owned' /\ OwnIds' /\ CleanedDead'
  BY <1>2, <1>3 DEF Owned, OwnIds, CleanedDead, mapVars, TypeOK
<1>5. Cleans'
  <2>1. \A i \in 1 .. Len(router_chan) :
          router_chan[i].kind = "clean" =>
            /\ router_chan[i].actor \in Actors
            /\ status'[router_chan[i].actor] = "dead"
    BY <1>1, <1>3, Appended, MessageKinds DEF Cleans, CleanOf
  <2>2. pc = "handle" /\ msg.kind = "clean" =>
          msg.actor \in Actors /\ status'[msg.actor] = "dead"
    BY <1>3, MessageKinds DEF Cleans, CleanOf, TypeOK
  <2> QED
    BY <1>1, <1>2, <2>1, <2>2, Appended DEF Cleans, CleanOf, mapVars
<1>6. CleanOnce' /\ Regs'
  BY <1>1, <1>2, Appended DEF CleanOnce, Regs
<1>7. Aliases'
  <2>1. \A a \in Actors, i \in 1 .. Len(router_chan) :
          Ahead(a, i) => Ahead(a, i)'
    BY <1>1, <1>2, Appended DEF Ahead, mapVars
  <2>2. \A a \in Actors : Coming(a) => Coming(a)'
    BY <1>1, <1>2, Appended DEF Coming, mapVars
  <2>3. Coming(x)'
    <3>1. Len(router_chan) + 1 \in 1 .. Len(router_chan')
      BY <1>1, Appended
    <3> QED
      BY <1>1, <3>1, Appended DEF Coming
  <2>4. \A i \in 1 .. Len(router_chan'), a \in Actors :
          pc \in {"receive", "handle"} /\ router_chan'[i].kind = "packet"
            /\ router_chan'[i].key = a => Ahead(a, i)'
    BY <1>1, <2>1, Appended DEF Aliases
  <2> QED
    BY <1>2, <2>2, <2>3, <2>4 DEF Aliases, TypeOK, mapVars
<1>8. NoneForgotten'
  BY <1>2, <1>3 DEF NoneForgotten, Live, TypeOK
<1> QED
  BY <1>4, <1>5, <1>6, <1>7, <1>8

(* ... and its clean-up, if there is room. *)
LEMMA ExitsInv ==
  ASSUME Inv, TypeOK', NEW x \in Actors, ActorExits(x)
  PROVE  Inv'
<1> USE DEF Inv
<1>1. /\ UNCHANGED <<connections, initial_key, peer_addr, cleaned, msg, pc,
                     scid_registered>>
      /\ status[x] = "exiting"
      /\ status' = [status EXCEPT ![x] = "dead"]
      /\ goaway_pending' = goaway_pending \ {x}
  BY DEF ActorExits
<1>2. /\ \A a \in Actors : (status'[a] = "unborn") = (status[a] = "unborn")
      /\ \A a \in Actors : status[a] = "dead" => status'[a] = "dead"
      /\ \A a \in Actors : a \in Live' => a \in Live /\ a # x
      /\ status'[x] = "dead" /\ x \notin cleaned
  BY <1>1 DEF TypeOK, Live, CleanedDead
<1>3. Owned' /\ OwnIds' /\ CleanedDead'
  BY <1>1, <1>2 DEF Owned, OwnIds, CleanedDead, TypeOK
<1>4. NoneForgotten'
  BY <1>1, <1>2 DEF NoneForgotten, Live, TypeOK
<1>5. pc = "handle" /\ msg.kind = "clean" =>
        /\ msg.actor \in Actors /\ msg.actor # x
        /\ CleanOf(msg) /\ status'[msg.actor] = "dead"
  BY <1>1, <1>2, MessageKinds DEF Cleans, CleanOf, TypeOK
<1>6. \A i \in 1 .. Len(router_chan) :
        router_chan[i].kind = "clean" =>
          /\ router_chan[i].actor \in Actors /\ router_chan[i].actor # x
          /\ CleanOf(router_chan[i]) /\ status'[router_chan[i].actor] = "dead"
  <2>1. \A i \in 1 .. Len(router_chan) : router_chan[i] \in RouterMsg
    BY DEF TypeOK
  <2> QED
    BY <1>1, <1>2, <2>1, MessageKinds DEF Cleans, CleanOf
<1>7. CASE router_chan' = router_chan
  <2>1. Cleans' /\ CleanOnce' /\ Regs'
    BY <1>1, <1>5, <1>6, <1>7 DEF Cleans, CleanOf, CleanOnce, Regs
  <2>2. Aliases'
    BY <1>1, <1>7 DEF Aliases, Ahead, Coming
  <2> QED
    BY <1>3, <1>4, <2>1, <2>2
<1>8. CASE router_chan' = Append(router_chan, Clean(x))
  <2> DEFINE m == Clean(x)
  <2>1. /\ m \in RouterMsg /\ m.kind = "clean" /\ m.actor = x
        /\ m.key = initial_key[x] /\ m.addr_key = peer_addr[x]
    BY DEF Clean, TypeOK, RouterMsg, RouterClean
  <2>2. router_chan' = Append(router_chan, m)
    BY <1>8
  <2> HIDE DEF m
  <2>3. Cleans'
    BY <1>1, <1>2, <1>5, <1>6, <2>1, <2>2, Appended DEF Cleans, CleanOf
  <2>4. CleanOnce'
    BY <1>1, <1>5, <1>6, <2>1, <2>2, Appended DEF CleanOnce
  <2>5. Regs'
    BY <1>1, <2>1, <2>2, Appended DEF Regs
  <2>6. Aliases'
    <3>1. \A a \in Actors, i \in 1 .. Len(router_chan) :
            Ahead(a, i) => Ahead(a, i)'
      BY <1>1, <2>1, <2>2, Appended DEF Ahead
    <3>2. \A a \in Actors : Coming(a) => Coming(a)'
      BY <1>1, <2>1, <2>2, Appended DEF Coming
    <3>3. \A i \in 1 .. Len(router_chan'), a \in Actors :
            pc \in {"receive", "handle"} /\ router_chan'[i].kind = "packet"
              /\ router_chan'[i].key = a => Ahead(a, i)'
      BY <2>1, <2>2, <3>1, Appended DEF Aliases
    <3> QED
      BY <1>1, <3>2, <3>3 DEF Aliases, TypeOK
  <2> QED
    BY <1>3, <1>4, <2>3, <2>4, <2>5, <2>6
<1> QED
  BY <1>7, <1>8 DEF ActorExits

LEMMA StepInv == Inv /\ [Next]_vars => Inv'
<1> SUFFICES ASSUME Inv, [Next]_vars PROVE Inv'
  OBVIOUS
<1>1. TypeOK /\ TypeOK'
  BY StepTyped DEF Inv
<1>2. CASE Receiver \/ RouterReceives
  BY <1>1, <1>2, ReceiverInv, ReceivesInv
<1>3. CASE StatelessReset \/ RouteKnown \/ HandleReg \/ HandleClean
  BY <1>1, <1>3, StatelessResetInv, RouteKnownInv, HandleRegInv,
     HandleCleanInv
<1>4. CASE RouterStops \/ RouterFails
  BY <1>1, <1>4, RouterStopsInv, RouterFailsInv
<1>5. CASE SetFlag \/ CloseChans \/ UNCHANGED vars
  <2>1. UNCHANGED <<mapVars, router_chan, msg, pc, status, scid_registered,
                    goaway_pending>>
    BY <1>5 DEF SetFlag, CloseChans, vars
  <2>2. Owned' /\ OwnIds' /\ CleanedDead' /\ NoneForgotten'
    BY <2>1 DEF Inv, Owned, OwnIds, CleanedDead, NoneForgotten, Live, mapVars
  <2>3. Cleans' /\ CleanOnce' /\ Regs' /\ Aliases'
    BY <2>1 DEF Inv, Cleans, CleanOf, CleanOnce, Regs, Aliases, Ahead,
       Coming, mapVars
  <2> QED
    BY <1>1, <2>2, <2>3 DEF Inv
<1>6. ASSUME NEW a \in Actors, NewActor(a) PROVE Inv'
  BY <1>1, <1>6, NewActorInv
<1>7. ASSUME NEW a \in Actors, ActorReceives(a) PROVE Inv'
  <2>1. UNCHANGED <<mapVars, router_chan, msg, pc, scid_registered>>
    BY <1>7 DEF ActorReceives
  <2>2. /\ status[a] = "running"
        /\ status' \in {status, [status EXCEPT ![a] = "registering"],
                        [status EXCEPT ![a] = "exiting"]}
        /\ \A b \in goaway_pending :
             b \in goaway_pending' \/ status'[b] = "exiting"
    BY <1>1, <1>7 DEF ActorReceives, TypeOK
  <2> QED
    BY <1>1, <2>1, <2>2, QuietInv
<1>8. ASSUME NEW a \in Actors, ActorCrashes(a) \/ ActorCloses(a)
      PROVE  Inv'
  <2>1. UNCHANGED <<mapVars, router_chan, msg, pc, scid_registered,
                    goaway_pending>>
    BY <1>8 DEF ActorCrashes, ActorCloses
  <2>2. /\ status[a] \in {"running", "registering"}
        /\ status' = [status EXCEPT ![a] = "exiting"]
    BY <1>8 DEF ActorCrashes, ActorCloses
  <2> QED
    BY <1>1, <2>1, <2>2, QuietInv
<1>9. ASSUME NEW a \in Actors, ActorRegisters(a) PROVE Inv'
  BY <1>1, <1>9, RegistersInv
<1>10. ASSUME NEW a \in Actors, ActorExits(a) PROVE Inv'
  BY <1>1, <1>10, ExitsInv
<1> QED
  BY <1>2, <1>3, <1>4, <1>5, <1>6, <1>7, <1>8, <1>9, <1>10 DEF Next

LEMMA InvReachable == Inv => Reachable
<1> SUFFICES ASSUME Inv, pc = "handle", msg.kind = "packet",
                    NEW a \in Live, msg.key \in {initial_key[a], a}
             PROVE  Routed(msg) = a
  BY DEF Reachable
<1>1. a \in Actors /\ a # None /\ a \notin cleaned /\ status[a] # "unborn"
  BY RouterAssumption DEF Inv, Live, CleanedDead, Key
<1>2. connections[msg.key] = a
  BY <1>1 DEF Inv, Owned, Aliases
<1> QED
  BY <1>1, <1>2 DEF Routed

(* A packet under an id of a live actor is delivered to that actor, for    *)
(* any number of actors, ids and addresses and whatever the capacities:    *)
(* listen's map and the order of router_chan never mislead it.             *)
THEOREM ReachableHolds == Spec => []Reachable
BY InitInv, StepInv, InvReachable, PTL DEF Spec

(* When the router has left its loop, every live actor has been told or is *)
(* on its way out.                                                         *)
THEOREM NoneForgottenHolds == Spec => []NoneForgotten
<1>1. Inv => NoneForgotten
  BY DEF Inv
<1> QED
  BY <1>1, InitInv, StepInv, PTL DEF Spec
=============================================================================
