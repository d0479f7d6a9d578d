---------------------------- MODULE ActorProofs ----------------------------
(***************************************************************************)
(* Proofs about ConnectionActor, for any finite number of streams, any     *)
(* size of request and any capacity of the channels: no wake-up of the     *)
(* actor is lost, the end of a request comes after all of it, and no       *)
(* response finds its stream gone.                                         *)
(***************************************************************************)
EXTENDS ConnectionActor, FiniteSetTheorems, TLAPS

(* NoLostWakeup is not inductive: it says nothing of the steps that lead   *)
(* back to the select.  Only between a wake-up, or a packet, and the end   *)
(* of drain_responses may the ring hold a response nobody will signal.     *)
WakeInv ==
  pc # "responses" /\ ring # <<>> => wake \/ waking # {}

(* What the step of the run loop that the handlers share does not touch:   *)
(* a step that leaves pc, the ring and the signals alone keeps WakeInv.    *)
LEMMA WakeFrame ==
  ASSUME WakeInv, UNCHANGED <<pc, ring, wake, waking>>
  PROVE  WakeInv'
  BY DEF WakeInv

(* Steps of the actor that leave the ring and the signals alone, between   *)
(* places of the loop where WakeInv holds.                                 *)
LEMMA WakeMove ==
  ASSUME WakeInv, pc # "responses", UNCHANGED <<ring, wake, waking>>
  PROVE  WakeInv'
  BY DEF WakeInv

(* The steps of the client, the router and the timer. *)
LEMMA WakeOutside ==
  ASSUME WakeInv,
         \/ \E s \in Streams : ClientSends(s) \/ ClientResets(s)
         \/ OtherArrives \/ ShutdownActor \/ TimerExpires
  PROVE  WakeInv'
<1>1. UNCHANGED <<pc, ring, wake, waking>>
  BY DEF ClientSends, ClientResets, OtherArrives, ShutdownActor,
         TimerExpires, wakeVars
<1>2. QED
  BY <1>1, WakeFrame

(* The steps of the run loop before drain_responses. *)
LEMMA WakeLoop ==
  ASSUME WakeInv,
         \/ RecvPacket \/ DrainDone \/ ForwardDone \/ Timeout \/ Exit
         \/ \E s \in Streams :
              ForwardData(s) \/ ForwardEof(s) \/ ForwardNext(s)
  PROVE  WakeInv'
<1>1. UNCHANGED <<ring, wake, waking>>
  BY DEF RecvPacket, DrainDone, ForwardDone, Timeout, Exit, ForwardData,
         ForwardEof, ForwardNext, wakeVars
<1>2. pc # "responses"
  BY DEF RecvPacket, DrainDone, ForwardDone, Timeout, Exit, ForwardData,
         ForwardEof, ForwardNext, Feeding
<1>3. QED
  BY <1>1, <1>2, WakeMove

(* drain_responses, and the wake-up that leads to it. *)
LEMMA WakeDrain ==
  ASSUME WakeInv, WakeUp \/ DrainResponse \/ ResponsesDone
  PROVE  WakeInv'
<1>1. CASE WakeUp
  <2>1. pc' = "responses"
    BY <1>1 DEF WakeUp
  <2>2. QED
    BY <2>1 DEF WakeInv
<1>2. CASE DrainResponse
  <2>1. pc' = "responses"
    BY <1>2 DEF DrainResponse
  <2>2. QED
    BY <2>1 DEF WakeInv
<1>3. CASE ResponsesDone
  <2>1. ring' = <<>>
    BY <1>3 DEF ResponsesDone, wakeVars
  <2>2. QED
    BY <2>1 DEF WakeInv
<1>4. QED
  BY <1>1, <1>2, <1>3

(* The handlers: one that pushes is waking, and one that wakes leaves a    *)
(* token whether or not there was one.                                     *)
LEMMA WakeHandlers ==
  ASSUME WakeInv, NEW s \in Streams,
         HandlerReads(s) \/ HandlerPushes(s) \/ HandlerWakes(s)
  PROVE  WakeInv'
<1>1. CASE HandlerReads(s)
  <2>1. UNCHANGED <<pc, ring, wake, waking>>
    BY <1>1 DEF HandlerReads, wakeVars
  <2>2. QED
    BY <2>1, WakeFrame
<1>2. CASE HandlerPushes(s)
  <2>1. s \in waking'
    BY <1>2 DEF HandlerPushes
  <2>2. QED
    BY <2>1 DEF WakeInv
<1>3. CASE HandlerWakes(s)
  <2>1. wake'
    BY <1>3 DEF HandlerWakes
  <2>2. QED
    BY <2>1 DEF WakeInv
<1>4. QED
  BY <1>1, <1>2, <1>3

(* push_response and drain_responses (connection_actor.cr:175-201): a      *)
(* response that is in the ring when the actor waits in its select will    *)
(* be signalled, however pushes, wake-ups and packets interleave.          *)
THEOREM NoLostWakeupHolds == Spec => []NoLostWakeup
<1>1. Init => WakeInv
  BY DEF Init, WakeInv
<1>2. WakeInv /\ [Next]_vars => WakeInv'
  <2>1. SUFFICES ASSUME WakeInv, [Next]_vars PROVE WakeInv'
    OBVIOUS
  <2>2. CASE UNCHANGED vars
    <3>1. UNCHANGED <<pc, ring, wake, waking>>
      BY <2>2 DEF vars, wakeVars
    <3>2. QED
      BY <2>1, <3>1, WakeFrame
  <2>3. CASE Next
    BY <2>1, <2>3, WakeOutside, WakeLoop, WakeDrain, WakeHandlers DEF Next
  <2>4. QED
    BY <2>1, <2>2, <2>3
<1>3. WakeInv => NoLostWakeup
  BY DEF WakeInv, NoLostWakeup
<1>4. QED
  BY <1>1, <1>2, <1>3, PTL DEF Spec

-----------------------------------------------------------------------------
(* The inductive invariant behind EndAfterAll and NoResponseDropped. *)

Handling == {"reading", "push"}

Types ==
  /\ strm \in [Streams -> StreamRecord]
  /\ read \in [Streams -> Nat] /\ got \in [Streams -> Nat]
  /\ sent \in [Streams -> Nat]
  /\ chan \in [Streams -> Seq(Chunk)]
  /\ ring \in Seq(Streams) /\ todo \in Seq(Streams)
  /\ packet_chan \in Seq(Packet)
  /\ handled \subseteq Streams
  /\ handler \in [Streams -> Handling \cup {"none", "done"}]

(* A RESET_STREAM comes from the client's reset, a FIN from the last byte. *)
GoodPacket(p, resets) ==
  /\ p.kind = "reset" => p.id \in resets
  /\ p.kind = "stream" /\ p.fin => p.off + 1 = Size

PacketsOK == \A i \in DOMAIN packet_chan : GoodPacket(packet_chan[i], reset)

(* A receiving half that is over has the whole request. *)
GoodRecord(st) ==
  /\ st \in StreamRecord
  /\ st.max_local = Size /\ st.rx <= Size
  /\ st.fin \in {NoFin, Size}
  /\ ReceiveClosed(st) => st.rx = Size

StreamOK(s) ==
  /\ GoodRecord(strm[s])
  /\ strm[s].state = "Reset" => s \in reset
  /\ strm[s].state = "Idle" => read[s] = 0

(* The maps and the table of streams go together, except between a visit   *)
(* of forward_stream_data and cleanup_done_streams: what the latter will   *)
(* drop the former has dropped, or will.                                   *)
TableOK(s) ==
  /\ s \in handled => strm[s].state # "Idle"
  /\ strm[s].state # "Idle" /\ s \notin handled =>
       pc = "forward" /\ FullyDone(strm[s])
  /\ pc = "forward" /\ FullyDone(strm[s]) /\ s \in handled =>
       \E i \in DOMAIN todo : todo[i] = s

(* A response is being made, or waits in the ring. *)
Answering(s) == handler[s] \in Handling \/ \E i \in DOMAIN ring : ring[i] = s

(* Until then the stream's sending half is open, so that it is not dropped *)
(* unless it is reset, and there is one response at a time.                *)
RingOK(s) ==
  s \notin reset =>
    /\ Answering(s) => strm[s].state \in {"Open", "HalfClosedRemote"}
    /\ handler[s] \in Handling => \A i \in DOMAIN ring : ring[i] # s
    /\ \A i, j \in DOMAIN ring : ring[i] = s /\ ring[j] = s => i = j

(* Where the next chunk starts. *)
Fed(n, chunks) ==
  IF chunks = <<>> THEN n
  ELSE chunks[Len(chunks)].off + chunks[Len(chunks)].len

(* The bytes of a channel are in order, behind those the handler has and   *)
(* before those that are to be forwarded, and the end is where it belongs. *)
GoodChan(s, n, chunks, fed, open) ==
  /\ Contiguous(n, chunks)
  /\ \A i \in DOMAIN chunks : chunks[i].len = 0 =>
       i = Len(chunks) /\ chunks[i].off = Size /\ ~open
  /\ fed => read[s] = Fed(n, chunks)

ChanOK(s) ==
  pc # "done" =>
    GoodChan(s, got[s], chan[s], s \in stream_channels,
             s \in stream_channels \ eof_sent)

ActorInv ==
  /\ Types /\ PacketsOK
  /\ handled = stream_channels
  /\ dropped \subseteq reset
  /\ \A s \in Streams : StreamOK(s) /\ TableOK(s) /\ RingOK(s) /\ ChanOK(s)

-----------------------------------------------------------------------------
(* What the operations of a stream do to it. *)

(* The stream has been opened, and no half of it has been closed by this   *)
(* side, nor has it been reset.                                            *)
Moves(st, y) ==
  /\ y.state # "Idle"
  /\ y.state = "Reset" => st.state = "Reset"
  /\ st.state \in {"Idle", "Open", "HalfClosedRemote"} =>
       y.state \in {"Open", "HalfClosedRemote"}

(* check_fin_ready *)
LEMMA CheckFinFacts ==
  ASSUME NEW st, GoodRecord(st), st.state # "Idle"
  PROVE  GoodRecord(CheckFinReady(st)) /\ Moves(st, CheckFinReady(st))
<1>1. CASE st.fin # NoFin /\ st.rx >= st.fin
  <2> DEFINE y == [CloseRemote(st) EXCEPT !.fin = NoFin]
  <2>1. /\ y \in StreamRecord /\ y.fin = NoFin
        /\ y.rx = st.rx /\ y.max_local = st.max_local
        /\ y.state = CloseRemote(st).state
    BY DEF GoodRecord, CloseRemote, StreamRecord, StreamState
  <2>2. Moves(st, y)
    BY <2>1 DEF Moves, CloseRemote, StreamRecord, StreamState, GoodRecord
  <2>3. st.rx = Size
    BY <1>1, ActorAssumption DEF GoodRecord, StreamRecord
  <2>4. GoodRecord(y)
    BY <2>1, <2>3, ActorAssumption DEF GoodRecord
  <2> QED BY <1>1, <2>2, <2>4 DEF CheckFinReady
<1>2. CASE ~(st.fin # NoFin /\ st.rx >= st.fin)
  BY <1>2 DEF CheckFinReady, Moves, GoodRecord, StreamRecord
<1> QED BY <1>1, <1>2

(* receive_data with one byte, and set_fin_offset if it is the last. *)
LEMMA ReceiveFacts ==
  ASSUME NEW st, GoodRecord(st), NEW off \in Nat, NEW fin \in BOOLEAN,
         fin => off + 1 = Size,
         NEW x \in ReceiveData(st, off, 1)
  PROVE  LET y == IF fin THEN SetFinOffset(x, off + 1) ELSE x
         IN GoodRecord(y) /\ Moves(st, y)
<1>1. /\ GoodRecord(Opened(st)) /\ Moves(st, Opened(st))
      /\ Opened(st) \in StreamRecord
      /\ ReceiveClosed(Opened(st)) <=> ReceiveClosed(st)
  BY DEF GoodRecord, Moves, Opened, StreamRecord, StreamState, ReceiveClosed
<1>2. GoodRecord(x) /\ Moves(st, x)
  <2>1. CASE ReceiveClosed(st) \/ off < st.rx
    BY <1>1, <2>1 DEF ReceiveData
  <2>2. CASE ~ReceiveClosed(st) /\ off = st.rx
    <3>1. PICK r \in (st.rx + 1) .. st.max_local :
            x = CheckFinReady([Opened(st) EXCEPT !.rx = r,
                                 !.ooo = {g \in @ : g.off > r}])
      <4>1. x \in InOrder(st, 1)
        BY <2>2 DEF ReceiveData
      <4> QED BY <4>1 DEF InOrder
    <3> DEFINE z == [Opened(st) EXCEPT !.rx = r, !.ooo = {g \in @ : g.off > r}]
    <3>2. r \in Nat /\ r <= Size
      BY ActorAssumption DEF GoodRecord, StreamRecord
    <3>3. /\ z \in StreamRecord /\ z.rx = r /\ z.fin = Opened(st).fin
          /\ z.max_local = Opened(st).max_local /\ z.state = Opened(st).state
      BY <1>1, <3>2 DEF StreamRecord
    <3> HIDE DEF z
    <3>4. GoodRecord(z) /\ z.state # "Idle" /\ Moves(st, z)
      BY <1>1, <2>2, <3>2, <3>3 DEF GoodRecord, Moves, ReceiveClosed
    <3>5. GoodRecord(CheckFinReady(z)) /\ Moves(z, CheckFinReady(z))
      BY <3>4, CheckFinFacts
    <3> QED BY <3>1, <3>4, <3>5 DEF Moves, z
  <2>3. CASE ~ReceiveClosed(st) /\ ~(off < st.rx) /\ off # st.rx
    <3> DEFINE z == [Opened(st) EXCEPT !.ooo =
                       @ \cup {[off |-> off, len |-> 1]}]
    <3>1. x = Opened(st) \/ x = z
      BY <2>3 DEF ReceiveData, OutOfOrder
    <3>2. /\ z \in StreamRecord /\ z.rx = Opened(st).rx
          /\ z.fin = Opened(st).fin
          /\ z.max_local = Opened(st).max_local /\ z.state = Opened(st).state
      BY <1>1 DEF StreamRecord, Segment
    <3>3. GoodRecord(z) /\ Moves(st, z)
      <4> HIDE DEF z
      <4> QED BY <1>1, <3>2 DEF GoodRecord, Moves, ReceiveClosed
    <3> QED BY <1>1, <3>1, <3>3
  <2> QED BY <2>1, <2>2, <2>3
<1>3. ASSUME fin
      PROVE  GoodRecord(SetFinOffset(x, off + 1)) /\
             Moves(st, SetFinOffset(x, off + 1))
  <2> DEFINE z == [x EXCEPT !.fin = IF @ = NoFin \/ off + 1 < @
                                      THEN off + 1 ELSE @]
  <2>1. /\ z \in StreamRecord /\ z.rx = x.rx /\ z.fin \in {x.fin, Size}
        /\ z.max_local = x.max_local /\ z.state = x.state
    BY <1>2, <1>3 DEF GoodRecord, StreamRecord
  <2>2. SetFinOffset(x, off + 1) = CheckFinReady(z)
    BY DEF SetFinOffset
  <2> HIDE DEF z
  <2>3. GoodRecord(z) /\ Moves(st, z)
    BY <1>2, <2>1 DEF GoodRecord, Moves, ReceiveClosed
  <2>4. GoodRecord(CheckFinReady(z)) /\ Moves(z, CheckFinReady(z))
    BY <2>3, CheckFinFacts DEF Moves
  <2> QED BY <2>2, <2>3, <2>4 DEF Moves
<1> QED BY <1>2, <1>3

(* flush_outgoing changes what has been sent, and nothing else. *)
LEMMA FlushedFacts ==
  ASSUME NEW table \in [Streams -> StreamRecord], NEW t2 \in Flushed(table)
  PROVE  /\ t2 \in [Streams -> StreamRecord]
         /\ \A s \in Streams :
              /\ t2[s].state = table[s].state /\ t2[s].rx = table[s].rx
              /\ t2[s].fin = table[s].fin
              /\ t2[s].max_local = table[s].max_local
<1>1. PICK some \in SUBSET Streams :
        t2 = [s \in Streams |->
                IF s \in some /\ HasSendData(table[s])
                  THEN AfterPoll(table[s], table[s].size - table[s].tx)
                  ELSE table[s]]
  BY DEF Flushed
<1>2. ASSUME NEW st \in StreamRecord
      PROVE  LET y == AfterPoll(st, st.size - st.tx)
             IN /\ y \in StreamRecord
                /\ y.state = st.state /\ y.rx = st.rx /\ y.fin = st.fin
                /\ y.max_local = st.max_local
  <2>1. st.tx + (st.size - st.tx) \in Nat
    BY DEF StreamRecord
  <2> QED BY <2>1 DEF AfterPoll, StreamRecord
<1>3. ASSUME NEW s \in Streams
      PROVE  /\ t2[s] \in StreamRecord
             /\ t2[s].state = table[s].state /\ t2[s].rx = table[s].rx
             /\ t2[s].fin = table[s].fin
             /\ t2[s].max_local = table[s].max_local
  <2>1. CASE s \in some /\ HasSendData(table[s])
    BY <1>1, <1>2, <2>1
  <2>2. CASE ~(s \in some /\ HasSendData(table[s]))
    BY <1>1, <2>2
  <2> QED BY <2>1, <2>2
<1>4. t2 = [s \in Streams |-> t2[s]]
  BY <1>1
<1> QED BY <1>3, <1>4

(* The order in which forward_stream_data visits the table leaves no       *)
(* stream out.                                                             *)
LEMMA OrderFacts ==
  ASSUME NEW S \in SUBSET Streams, NEW order \in SetToSeqs(S)
  PROVE  /\ order \in Seq(Streams)
         /\ \A s \in S : \E i \in DOMAIN order : order[i] = s
<1> DEFINE D == 1 .. Cardinality(S)
<1>1. IsFiniteSet(S) /\ Cardinality(S) \in Nat
  BY ActorAssumption, FS_Subset, FS_CardinalityType
<1>2. order \in [D -> S] /\ \A i, j \in D : i # j => order[i] # order[j]
  BY DEF SetToSeqs
<1>3. order \in Seq(Streams)
  BY <1>1, <1>2
<1>4. IsFiniteSet(D) /\ Cardinality(D) = Cardinality(S)
  BY <1>1, FS_Interval
<1>5. order \in Injection(D, S)
  BY <1>2 DEF Injection, IsInjective
<1>6. order \in Surjection(D, S)
  BY <1>1, <1>4, <1>5, FS_Injection
<1> QED BY <1>2, <1>3, <1>6 DEF Surjection

-----------------------------------------------------------------------------
(* The parts of the invariant under steps that leave their variables alone, *)
(* or change them in the simple ways.                                       *)

(* More resets, the same stream. *)
LEMMA StreamFrame ==
  ASSUME NEW s \in Streams, StreamOK(s), reset \subseteq reset',
         strm'[s] = strm[s], read'[s] = read[s]
  PROVE  StreamOK(s)'
BY DEF StreamOK, GoodRecord, ReceiveClosed

(* The stream, the maps and the visit stay as they are. *)
LEMMA TableFrame ==
  ASSUME NEW s \in Streams, TableOK(s), strm'[s] = strm[s],
         UNCHANGED <<handled, todo, pc>>
  PROVE  TableOK(s)'
BY DEF TableOK

(* Between the loop's places outside forward_stream_data. *)
LEMMA TableMove ==
  ASSUME NEW s \in Streams, TableOK(s), pc # "forward", pc' # "forward",
         s \in handled' <=> s \in handled, strm'[s].state = strm[s].state
  PROVE  TableOK(s)'
BY DEF TableOK

(* More resets; the handler, the ring and the state as they were. *)
LEMMA RingFrame ==
  ASSUME NEW s \in Streams, RingOK(s), reset \subseteq reset',
         strm'[s].state = strm[s].state, ring' = ring,
         handler'[s] = handler[s]
  PROVE  RingOK(s)'
BY DEF RingOK, Answering

(* The channel of s, its handler and what is to be forwarded as they were. *)
LEMMA ChanFrame ==
  ASSUME NEW s \in Streams, ChanOK(s), pc' = "done" <=> pc = "done",
         UNCHANGED <<got[s], chan[s]>>,
         s \in stream_channels' => s \in stream_channels /\ read'[s] = read[s],
         s \in stream_channels' \ eof_sent' => s \in stream_channels \ eof_sent
  PROVE  ChanOK(s)'
BY DEF ChanOK, GoodChan, Fed

(* A packet the router delivers is appended. *)
LEMMA DeliverFacts ==
  ASSUME Types, PacketsOK, reset \subseteq reset', NEW p \in Packet,
         GoodPacket(p, reset'), packet_chan' = Append(packet_chan, p)
  PROVE  packet_chan' \in Seq(Packet) /\ PacketsOK'
<1>1. packet_chan' \in Seq(Packet)
  BY DEF Types
<1>2. ASSUME NEW i \in DOMAIN packet_chan'
      PROVE  GoodPacket(packet_chan'[i], reset')
  <2>1. \/ i \in DOMAIN packet_chan /\ packet_chan'[i] = packet_chan[i]
        \/ packet_chan'[i] = p
    BY DEF Types
  <2>2. CASE i \in DOMAIN packet_chan /\ packet_chan'[i] = packet_chan[i]
    BY <2>2 DEF PacketsOK, GoodPacket
  <2> QED BY <2>1, <2>2
<1> QED BY <1>1, <1>2 DEF PacketsOK

(* The packets of the client. *)
LEMMA PacketKinds ==
  /\ \A s \in Streams, off \in 0 .. (Size - 1) :
       /\ StreamData(s, off) \in Packet /\ StreamData(s, off).kind = "stream"
       /\ StreamData(s, off).fin => StreamData(s, off).off + 1 = Size
  /\ \A s \in Streams : [kind |-> "reset", id |-> s] \in Packet
  /\ \A k \in {"close", "other", "empty"} : [kind |-> k] \in Packet
<1>1. ASSUME NEW s \in Streams, NEW off \in 0 .. (Size - 1)
      PROVE  /\ StreamData(s, off) \in Packet
             /\ StreamData(s, off).kind = "stream"
             /\ StreamData(s, off).fin => StreamData(s, off).off + 1 = Size
  <2>1. StreamData(s, off).off = off /\ (StreamData(s, off).fin <=> off = Size - 1)
    BY DEF StreamData
  <2>2. StreamData(s, off) \in StreamPacket
    BY DEF StreamData, StreamPacket
  <2>3. StreamData(s, off).kind = "stream"
    BY DEF StreamData
  <2> QED BY <2>1, <2>2, <2>3, ActorAssumption DEF Packet
<1>2. /\ \A s \in Streams : [kind |-> "reset", id |-> s] \in Packet
      /\ \A k \in {"close", "other", "empty"} : [kind |-> k] \in Packet
  BY DEF Packet, ResetPacket, OtherPacket
<1> QED BY <1>1, <1>2

-----------------------------------------------------------------------------
(* One lemma per part of the system: its steps keep the invariant. *)

(* The client, the router and the timers. *)
LEMMA OutsideKeeps ==
  ASSUME ActorInv,
         \/ \E s \in Streams : ClientSends(s) \/ ClientResets(s)
         \/ OtherArrives \/ ShutdownActor \/ TimerExpires
  PROVE  ActorInv'
<1>1. /\ UNCHANGED <<pc, todo, strm, read, chan, stream_channels, eof_sent,
                     handled, ring, handler, got, dropped>>
      /\ reset \subseteq reset'
  BY DEF ClientSends, ClientResets, OtherArrives, ShutdownActor, TimerExpires,
         connVars, mapVars, wakeVars, handlerVars, historyVars
<1>2. sent' \in [Streams -> Nat] /\ packet_chan' \in Seq(Packet) /\ PacketsOK'
  <2>1. ASSUME NEW s \in Streams, ClientSends(s)
        PROVE  /\ sent' \in [Streams -> Nat]
               /\ packet_chan' \in Seq(Packet) /\ PacketsOK'
    <3>1. sent[s] \in 0 .. (Size - 1)
      BY <2>1, ActorAssumption DEF ClientSends, ActorInv, Types
    <3>2. GoodPacket(StreamData(s, sent[s]), reset')
      <4> DEFINE p == StreamData(s, sent[s])
      <4>1. p.kind = "stream" /\ (p.fin => p.off + 1 = Size)
        BY <3>1, PacketKinds
      <4> HIDE DEF p
      <4>2. GoodPacket(p, reset')
        BY <4>1 DEF GoodPacket
      <4> QED BY <4>2 DEF p
    <3>3. packet_chan' = Append(packet_chan, StreamData(s, sent[s]))
      BY <2>1 DEF ClientSends, Deliver
    <3>4. sent' \in [Streams -> Nat]
      BY <2>1 DEF ClientSends, ActorInv, Types
    <3> QED BY <1>1, <3>1, <3>2, <3>3, <3>4, PacketKinds, DeliverFacts
            DEF ActorInv
  <2>2. ASSUME NEW p \in Packet, GoodPacket(p, reset'),
               packet_chan' = Append(packet_chan, p), sent' = sent
        PROVE  /\ sent' \in [Streams -> Nat]
               /\ packet_chan' \in Seq(Packet) /\ PacketsOK'
    BY <1>1, <2>2, DeliverFacts DEF ActorInv, Types
  <2>3. ASSUME NEW s \in Streams, ClientResets(s)
        PROVE  /\ sent' \in [Streams -> Nat]
               /\ packet_chan' \in Seq(Packet) /\ PacketsOK'
    <3> DEFINE p == [kind |-> "reset", id |-> s]
    <3>1. packet_chan' = Append(packet_chan, p) /\ sent' = sent /\ s \in reset'
      BY <2>3 DEF ClientResets, Deliver
    <3>2. GoodPacket(p, reset')
      BY <3>1 DEF GoodPacket
    <3> QED BY <2>2, <3>1, <3>2, PacketKinds
  <2>4. ASSUME UNCHANGED <<packet_chan, sent>>
        PROVE  /\ sent' \in [Streams -> Nat]
               /\ packet_chan' \in Seq(Packet) /\ PacketsOK'
    BY <1>1, <2>4 DEF ActorInv, Types, PacketsOK, GoodPacket
  <2>5. ASSUME OtherArrives \/ ShutdownActor \/ TimerExpires
        PROVE  /\ sent' \in [Streams -> Nat]
               /\ packet_chan' \in Seq(Packet) /\ PacketsOK'
    <3>1. /\ sent' = sent
          /\ \/ packet_chan' = packet_chan
             \/ \E k \in {"close", "other", "empty"} :
                  packet_chan' = Append(packet_chan, [kind |-> k])
             \/ \E s \in Streams :
                  packet_chan' = Append(packet_chan, StreamData(s, 0))
      BY <2>5 DEF OtherArrives, ShutdownActor, TimerExpires, Deliver, historyVars
    <3>2. \A k \in {"close", "other", "empty"} : GoodPacket([kind |-> k], reset')
      BY DEF GoodPacket
    <3>3. \A s \in Streams : /\ GoodPacket(StreamData(s, 0), reset')
                             /\ StreamData(s, 0) \in Packet
      <4>1. 0 \in 0 .. (Size - 1)
        BY ActorAssumption
      <4> QED BY <4>1, PacketKinds DEF GoodPacket
    <3> QED BY <2>2, <2>4, <3>1, <3>2, <3>3, PacketKinds
  <2> QED BY <2>1, <2>3, <2>5
<1>3. Types'
  BY <1>1, <1>2 DEF ActorInv, Types
<1>4. ASSUME NEW s \in Streams
      PROVE  (StreamOK(s) /\ TableOK(s) /\ RingOK(s) /\ ChanOK(s))'
  <2>1. StreamOK(s) /\ TableOK(s) /\ RingOK(s) /\ ChanOK(s)
    BY DEF ActorInv
  <2> QED BY <1>1, <2>1, StreamFrame, TableFrame, RingFrame, ChanFrame
<1> QED BY <1>1, <1>2, <1>3, <1>4 DEF ActorInv

(* What a STREAM or a RESET_STREAM frame makes of its stream. *)
LEMMA FrameFacts ==
  ASSUME ActorInv, NEW p \in Packet, GoodPacket(p, reset),
         p.kind \in {"stream", "reset"}, NEW y \in AfterFrame(p)
  PROVE  /\ p.id \in Streams /\ GoodRecord(y) /\ y.state # "Idle"
         /\ y.state = "Reset" => p.id \in reset
         /\ p.id \notin reset => Moves(strm[p.id], y)
<1> DEFINE st == strm[p.id]
<1>1. CASE p.kind = "reset"
  <2>1. p.id \in Streams
    BY <1>1 DEF Packet, StreamPacket, ResetPacket, OtherPacket
  <2>2. p.id \in reset
    BY <1>1 DEF GoodPacket
  <2>3. GoodRecord(st)
    BY <2>1 DEF ActorInv, StreamOK
  <2>4. y = Reset(st)
    BY <1>1 DEF AfterFrame
  <2> HIDE DEF st
  <2>5. GoodRecord(Reset(st)) /\ Reset(st).state = "Reset"
    BY <2>3 DEF GoodRecord, Reset, StreamRecord, StreamState, ReceiveClosed
  <2> QED BY <2>1, <2>2, <2>4, <2>5
<1>2. CASE p.kind = "stream"
  <2>1. p \in StreamPacket
    BY <1>2 DEF Packet, ResetPacket, OtherPacket
  <2>2. p.id \in Streams /\ p.off \in Nat /\ p.fin \in BOOLEAN
    BY <2>1, ActorAssumption DEF StreamPacket
  <2>3. p.fin => p.off + 1 = Size
    BY <1>2 DEF GoodPacket
  <2>4. GoodRecord(st) /\ (st.state = "Reset" => p.id \in reset)
    BY <2>2 DEF ActorInv, StreamOK
  <2>5. PICK x \in ReceiveData(st, p.off, 1) :
          y = IF p.fin THEN SetFinOffset(x, p.off + 1) ELSE x
    BY <1>2 DEF AfterFrame
  <2>6. GoodRecord(y) /\ Moves(st, y)
    <3> HIDE DEF st
    <3> QED BY <2>2, <2>3, <2>4, <2>5, ReceiveFacts
  <2> QED BY <2>2, <2>4, <2>6 DEF Moves
<1> QED BY <1>1, <1>2

(* A frame of a stream: a new handler, or one that has been spawned. *)
LEMMA RecvStreamKeeps ==
  ASSUME ActorInv, RecvPacket, NEW p \in Packet, GoodPacket(p, reset),
         RecvStream(p), NEW s \in Streams
  PROVE  /\ strm' \in [Streams -> StreamRecord]
         /\ got' \in [Streams -> Nat] /\ chan' \in [Streams -> Seq(Chunk)]
         /\ handled' \subseteq Streams /\ handled' = stream_channels'
         /\ handler' \in [Streams -> Handling \cup {"none", "done"}]
         /\ (StreamOK(s) /\ TableOK(s) /\ RingOK(s) /\ ChanOK(s))'
<1>1. /\ pc \in {"select", "drain"} /\ pc' = "drain"
      /\ UNCHANGED <<read, eof_sent, ring, reset, todo>>
  BY DEF RecvPacket, wakeVars
<1>2. PICK y \in AfterFrame(p) : strm' = [strm EXCEPT ![p.id] = y]
  BY DEF RecvStream
<1>3. /\ p.id \in Streams /\ GoodRecord(y) /\ y.state # "Idle"
      /\ y.state = "Reset" => p.id \in reset
      /\ p.id \notin reset => Moves(strm[p.id], y)
  BY FrameFacts DEF RecvStream
<1>4. /\ strm \in [Streams -> StreamRecord] /\ got \in [Streams -> Nat]
      /\ chan \in [Streams -> Seq(Chunk)] /\ read \in [Streams -> Nat]
      /\ handler \in [Streams -> Handling \cup {"none", "done"}]
      /\ handled \subseteq Streams /\ handled = stream_channels
  BY DEF ActorInv, Types
<1>5. /\ strm' \in [Streams -> StreamRecord] /\ strm'[p.id] = y
      /\ \A t \in Streams : t # p.id => strm'[t] = strm[t]
  <2>1. y \in StreamRecord
    BY <1>3 DEF GoodRecord
  <2> QED BY <1>2, <1>3, <1>4, <2>1
<1>6. StreamOK(s) /\ TableOK(s) /\ RingOK(s) /\ ChanOK(s)
  BY DEF ActorInv
<1>7. StreamOK(s)'
  <2>1. CASE s = p.id
    BY <1>1, <1>3, <1>5, <2>1 DEF StreamOK
  <2>2. CASE s # p.id
    BY <1>1, <1>5, <1>6, <2>2, StreamFrame
  <2> QED BY <2>1, <2>2
<1>8. CASE p.id \in handled
  <2>1. UNCHANGED <<handled, stream_channels, chan, handler, got>>
    BY <1>8 DEF RecvStream, Dispatch, handlerVars
  <2>2. TableOK(s)'
    <3>1. CASE s = p.id
      BY <1>1, <1>3, <1>5, <1>8, <2>1, <3>1 DEF TableOK
    <3>2. CASE s # p.id
      BY <1>1, <1>5, <1>6, <2>1, <3>2, TableMove
    <3> QED BY <3>1, <3>2
  <2>3. RingOK(s)'
    <3>1. CASE s = p.id
      BY <1>1, <1>3, <1>5, <1>6, <2>1, <3>1 DEF RingOK, Answering, Moves
    <3>2. CASE s # p.id
      BY <1>1, <1>5, <1>6, <2>1, <3>2, RingFrame
    <3> QED BY <3>1, <3>2
  <2>4. ChanOK(s)'
    BY <1>1, <1>6, <2>1, ChanFrame
  <2> QED BY <1>4, <1>5, <1>7, <2>1, <2>2, <2>3, <2>4
<1>9. CASE p.id \notin handled
  <2>1. /\ handled' = handled \cup {p.id}
        /\ stream_channels' = stream_channels \cup {p.id}
        /\ chan' = [chan EXCEPT ![p.id] = <<>>]
        /\ handler' = [handler EXCEPT ![p.id] = "reading"]
        /\ got' = [got EXCEPT ![p.id] = 0]
    BY <1>9 DEF RecvStream, Dispatch
  <2>2. strm[p.id].state = "Idle" /\ read[p.id] = 0
    BY <1>1, <1>3, <1>9 DEF ActorInv, TableOK, StreamOK
  <2>3. chan' \in [Streams -> Seq(Chunk)] /\ got' \in [Streams -> Nat]
    BY <1>3, <1>4, <2>1
  <2>4. handler' \in [Streams -> Handling \cup {"none", "done"}]
    BY <1>3, <1>4, <2>1 DEF Handling
  <2>5. TableOK(s)'
    <3>1. CASE s = p.id
      BY <1>1, <1>3, <1>5, <2>1, <3>1 DEF TableOK
    <3>2. CASE s # p.id
      BY <1>1, <1>5, <1>6, <2>1, <3>2, TableMove
    <3> QED BY <3>1, <3>2
  <2>6. RingOK(s)'
    <3>1. CASE s = p.id
      <4>1. s \notin reset => \A i \in DOMAIN ring : ring[i] # s
        BY <1>6, <2>2, <3>1 DEF RingOK, Answering
      <4>2. s \notin reset => strm'[s].state \in {"Open", "HalfClosedRemote"}
        BY <1>3, <1>5, <2>2, <3>1 DEF Moves
      <4> QED BY <1>1, <4>1, <4>2 DEF RingOK
    <3>2. CASE s # p.id
      BY <1>1, <1>4, <1>5, <1>6, <2>1, <3>2, RingFrame
    <3> QED BY <3>1, <3>2
  <2>7. ChanOK(s)'
    <3>1. CASE s = p.id
      <4>1. chan'[s] = <<>> /\ got'[s] = 0 /\ read'[s] = 0
        BY <1>1, <1>4, <2>1, <2>2, <3>1
      <4> QED BY <4>1 DEF ChanOK, GoodChan, Contiguous, Fed
    <3>2. CASE s # p.id
      BY <1>1, <1>4, <1>6, <2>1, <3>2, ChanFrame
    <3> QED BY <3>1, <3>2
  <2> QED BY <1>3, <1>4, <1>5, <1>7, <2>1, <2>3, <2>4, <2>5, <2>6, <2>7
<1> QED BY <1>8, <1>9

(* recv_packet *)
LEMMA RecvKeeps ==
  ASSUME ActorInv, RecvPacket
  PROVE  ActorInv'
<1> DEFINE p == Head(packet_chan)
<1>1. /\ pc \in {"select", "drain"} /\ pc' = "drain" /\ packet_chan # <<>>
      /\ packet_chan' = Tail(packet_chan)
      /\ RecvStream(p) \/ RecvEmpty(p) \/ RecvOther(p)
      /\ UNCHANGED <<read, eof_sent, ring, reset, todo, sent, dropped>>
  BY DEF RecvPacket, wakeVars
<1>2. packet_chan \in Seq(Packet)
  BY DEF ActorInv, Types
<1>3. p \in Packet /\ GoodPacket(p, reset)
  <2>1. 1 \in DOMAIN packet_chan /\ packet_chan[1] = p
    BY <1>1, <1>2
  <2> QED BY <1>2, <2>1 DEF ActorInv, PacketsOK
<1>4. packet_chan' \in Seq(Packet) /\ PacketsOK'
  <2>1. packet_chan' \in Seq(Packet)
    BY <1>1, <1>2
  <2>2. ASSUME NEW i \in DOMAIN packet_chan'
        PROVE  GoodPacket(packet_chan'[i], reset')
    <3>1. i + 1 \in DOMAIN packet_chan /\ packet_chan'[i] = packet_chan[i + 1]
      BY <1>1, <1>2
    <3> QED BY <1>1, <3>1 DEF ActorInv, PacketsOK
  <2> QED BY <2>1, <2>2 DEF PacketsOK
<1> HIDE DEF p
<1>5. /\ strm' \in [Streams -> StreamRecord]
      /\ got' \in [Streams -> Nat] /\ chan' \in [Streams -> Seq(Chunk)]
      /\ handled' \subseteq Streams /\ handled' = stream_channels'
      /\ handler' \in [Streams -> Handling \cup {"none", "done"}]
      /\ \A s \in Streams :
           (StreamOK(s) /\ TableOK(s) /\ RingOK(s) /\ ChanOK(s))'
  <2>1. CASE RecvStream(p)
    <3>1. CASE Streams = {}
      <4>1. PICK y \in AfterFrame(p) : strm' = [strm EXCEPT ![p.id] = y]
        BY <2>1 DEF RecvStream
      <4>2. p.id \in Streams
        BY <1>3, <2>1, <4>1, FrameFacts DEF RecvStream
      <4> QED BY <3>1, <4>2
    <3>2. CASE Streams # {}
      BY <1>3, <2>1, <3>2, RecvStreamKeeps
    <3> QED BY <3>1, <3>2
  <2>2. CASE RecvEmpty(p) \/ RecvOther(p)
    <3>1. UNCHANGED <<strm, handled, stream_channels, chan, handler, got>>
      BY <2>2 DEF RecvEmpty, RecvOther, handlerVars
    <3>2. ASSUME NEW s \in Streams
          PROVE  (StreamOK(s) /\ TableOK(s) /\ RingOK(s) /\ ChanOK(s))'
      <4>1. StreamOK(s) /\ TableOK(s) /\ RingOK(s) /\ ChanOK(s)
        BY DEF ActorInv
      <4> QED BY <1>1, <3>1, <4>1, StreamFrame, TableMove, RingFrame, ChanFrame
    <3> QED BY <3>1, <3>2 DEF ActorInv, Types
  <2> QED BY <1>1, <2>1, <2>2
<1>6. Types'
  BY <1>1, <1>4, <1>5 DEF ActorInv, Types
<1> QED BY <1>1, <1>4, <1>5, <1>6 DEF ActorInv

(* The visit of the table begins. *)
LEMMA DrainDoneKeeps ==
  ASSUME ActorInv, DrainDone
  PROVE  ActorInv'
<1> DEFINE S == {s \in Streams : strm[s].state # "Idle"}
<1>1. /\ pc = "drain" /\ pc' = "forward"
      /\ UNCHANGED <<packet_chan, strm, read, handled, stream_channels,
                     eof_sent, chan, ring, handler, got, sent, reset, dropped>>
  BY DEF DrainDone, connVars, mapVars, wakeVars, handlerVars, historyVars
<1>2. todo' \in SetToSeqs(S)
  BY DEF DrainDone
<1>3. todo' \in Seq(Streams) /\ \A s \in S : \E i \in DOMAIN todo' : todo'[i] = s
  <2>1. S \in SUBSET Streams
    OBVIOUS
  <2> HIDE DEF S
  <2> QED BY <1>2, <2>1, OrderFacts
<1>4. ASSUME NEW s \in Streams
      PROVE  (StreamOK(s) /\ TableOK(s) /\ RingOK(s) /\ ChanOK(s))'
  <2>1. StreamOK(s) /\ TableOK(s) /\ RingOK(s) /\ ChanOK(s)
    BY DEF ActorInv
  <2>2. TableOK(s)'
    BY <1>1, <1>3, <2>1 DEF TableOK
  <2> QED BY <1>1, <2>1, <2>2, StreamFrame, RingFrame, ChanFrame
<1>5. Types' /\ PacketsOK'
  BY <1>1, <1>3 DEF ActorInv, Types, PacketsOK
<1> QED BY <1>1, <1>4, <1>5 DEF ActorInv

(* A chunk that starts where the next one is due is appended. *)
LEMMA AppendChunk ==
  ASSUME NEW n \in Nat, NEW chunks \in Seq(Chunk), NEW c \in Chunk,
         Contiguous(n, chunks), c.off = Fed(n, chunks)
  PROVE  LET after == Append(chunks, c) IN
         /\ after \in Seq(Chunk) /\ Len(after) = Len(chunks) + 1
         /\ Contiguous(n, after) /\ Fed(n, after) = c.off + c.len
         /\ after[Len(after)] = c
         /\ \A i \in DOMAIN after :
              i # Len(after) => i \in DOMAIN chunks /\ after[i] = chunks[i]
<1> DEFINE after == Append(chunks, c)
<1>1. /\ after \in Seq(Chunk) /\ Len(after) = Len(chunks) + 1
      /\ DOMAIN after = 1 .. Len(chunks) + 1
      /\ DOMAIN chunks = 1 .. Len(chunks) /\ Len(chunks) \in Nat
      /\ after[Len(chunks) + 1] = c
      /\ \A i \in DOMAIN chunks : after[i] = chunks[i]
  OBVIOUS
<1> HIDE DEF after
<1>2. Contiguous(n, after)
  <2>1. SUFFICES ASSUME NEW i \in DOMAIN after
                 PROVE  after[i].off = IF i = 1 THEN n
                                       ELSE after[i - 1].off + after[i - 1].len
    BY DEF Contiguous
  <2>2. CASE i \in DOMAIN chunks
    <3>1. i # 1 => i - 1 \in DOMAIN chunks
      BY <1>1, <2>2
    <3> QED BY <1>1, <2>2, <3>1 DEF Contiguous
  <2>3. CASE i = Len(chunks) + 1
    <3>1. CASE chunks = <<>>
      <4>1. i = 1
        BY <2>3, <3>1
      <4> QED BY <1>1, <2>3, <3>1, <4>1 DEF Fed
    <3>2. CASE chunks # <<>>
      <4>1. i # 1 /\ i - 1 = Len(chunks) /\ Len(chunks) \in DOMAIN chunks
        BY <1>1, <2>3, <3>2
      <4> QED BY <1>1, <2>3, <3>2, <4>1 DEF Fed
    <3> QED BY <3>1, <3>2
  <2> QED BY <1>1, <2>2, <2>3
<1>3. Fed(n, after) = c.off + c.len
  <2>1. after # <<>>
    BY <1>1
  <2> QED BY <1>1, <2>1 DEF Fed
<1> QED BY <1>1, <1>2, <1>3 DEF after

(* What the two steps that feed a channel have in common. *)
LEMMA FeedFacts ==
  ASSUME ActorInv, NEW s \in Streams, Feeding(s), NEW n \in Nat
  PROVE  LET after == Append(chan[s], NextChunk(s, n)) IN
         /\ pc = "forward" /\ s \in handled /\ strm[s].state # "Idle"
         /\ after \in Seq(Chunk) /\ Contiguous(got[s], after)
         /\ Fed(got[s], after) = read[s] + n
         /\ \A i \in DOMAIN after : after[i].len = 0 =>
              i = Len(after) /\ n = 0 /\ after[i].off = read[s]
<1>1. /\ pc = "forward" /\ s \in stream_channels \ eof_sent /\ s \in handled
      /\ chan[s] \in Seq(Chunk) /\ got[s] \in Nat /\ read[s] \in Nat
      /\ strm[s].state # "Idle"
  BY DEF Feeding, ActorInv, Types, TableOK
<1>2. GoodChan(s, got[s], chan[s], s \in stream_channels,
               s \in stream_channels \ eof_sent)
  BY <1>1 DEF ActorInv, ChanOK
<1>3. NextChunk(s, n) \in Chunk /\ NextChunk(s, n).off = read[s]
      /\ NextChunk(s, n).len = n
  BY <1>1 DEF NextChunk, Chunk
<1>4. Contiguous(got[s], chan[s]) /\ read[s] = Fed(got[s], chan[s])
      /\ \A i \in DOMAIN chan[s] : chan[s][i].len # 0
  BY <1>1, <1>2 DEF GoodChan
<1> HIDE DEF NextChunk
<1> QED BY <1>1, <1>3, <1>4, AppendChunk

(* forward_stream_data sends what there is, or the end. *)
LEMMA FeedKeeps ==
  ASSUME ActorInv, NEW s \in Streams, ForwardData(s) \/ ForwardEof(s)
  PROVE  ActorInv'
<1> DEFINE n == IF ForwardData(s) THEN Unread(s) ELSE 0
<1>1. /\ Feeding(s)
      /\ UNCHANGED <<pc, todo, packet_chan, strm, handled, stream_channels,
                     ring, handler, got, sent, reset, dropped>>
      /\ \A t \in Streams \ {s} : t \in eof_sent' <=> t \in eof_sent
  BY DEF ForwardData, ForwardEof, connVars, mapVars, wakeVars, handlerVars,
         historyVars
<1>2. /\ strm \in [Streams -> StreamRecord] /\ read \in [Streams -> Nat]
      /\ chan \in [Streams -> Seq(Chunk)]
      /\ GoodRecord(strm[s]) /\ strm[s] \in StreamRecord /\ strm[s].rx \in Nat
      /\ read[s] \in Nat
  BY DEF ActorInv, Types, StreamOK, StreamRecord
<1>3. n \in Nat /\ chan' = [chan EXCEPT ![s] = Append(@, NextChunk(s, n))]
      /\ \/ n > 0 /\ s \notin eof_sent /\ eof_sent' = eof_sent
            /\ read' = [read EXCEPT ![s] = read[s] + n]
         \/ n = 0 /\ s \in eof_sent' /\ read[s] = Size /\ read' = read
  <2>1. CASE ForwardData(s)
    <3>1. Unread(s) > 0
      BY <2>1 DEF ForwardData
    <3>2. Unread(s) \in Nat /\ read[s] + Unread(s) = strm[s].rx
      BY <1>2, <3>1 DEF Unread
    <3>3. s \notin eof_sent /\ eof_sent' = eof_sent
      BY <2>1 DEF ForwardData, Feeding, mapVars
    <3> QED BY <2>1, <3>1, <3>2, <3>3 DEF ForwardData
  <2>2. CASE ~ForwardData(s)
    <3>1. ForwardEof(s) /\ n = 0
      BY <2>2
    <3>2. strm[s].state \in {"HalfClosedRemote", "Closed"}
          /\ strm[s].rx - read[s] = 0
      BY <3>1 DEF ForwardEof, Ended, Unread
    <3>3. strm[s].rx = Size
      BY <1>2, <3>2 DEF GoodRecord, ReceiveClosed
    <3> QED BY <1>2, <3>1, <3>2, <3>3, ActorAssumption DEF ForwardEof, connVars
  <2> QED BY <2>1, <2>2
<1> HIDE DEF n
<1> DEFINE after == Append(chan[s], NextChunk(s, n))
<1>4. /\ pc = "forward" /\ s \in handled /\ strm[s].state # "Idle"
      /\ after \in Seq(Chunk) /\ Contiguous(got[s], after)
      /\ Fed(got[s], after) = read[s] + n
      /\ \A i \in DOMAIN after : after[i].len = 0 =>
           i = Len(after) /\ n = 0 /\ after[i].off = read[s]
  BY <1>1, <1>3, FeedFacts
<1> HIDE DEF after
<1>5. /\ chan' \in [Streams -> Seq(Chunk)] /\ read' \in [Streams -> Nat]
      /\ chan'[s] = after /\ read'[s] = read[s] + n
      /\ \A t \in Streams \ {s} : chan'[t] = chan[t] /\ read'[t] = read[t]
  <2>1. /\ chan' \in [Streams -> Seq(Chunk)] /\ chan'[s] = after
        /\ \A t \in Streams \ {s} : chan'[t] = chan[t]
    BY <1>2, <1>3, <1>4 DEF after
  <2>2. /\ read' \in [Streams -> Nat] /\ read'[s] = read[s] + n
        /\ \A t \in Streams \ {s} : read'[t] = read[t]
    <3>1. CASE read' = [read EXCEPT ![s] = read[s] + n]
      BY <1>2, <1>3, <3>1
    <3>2. CASE n = 0 /\ read' = read
      BY <1>2, <3>2
    <3> QED BY <1>3, <3>1, <3>2
  <2> QED BY <2>1, <2>2
<1>6. ASSUME NEW t \in Streams
      PROVE  (StreamOK(t) /\ TableOK(t) /\ RingOK(t) /\ ChanOK(t))'
  <2>1. StreamOK(t) /\ TableOK(t) /\ RingOK(t) /\ ChanOK(t)
    BY DEF ActorInv
  <2>2. TableOK(t)' /\ RingOK(t)'
    BY <1>1, <2>1, TableFrame, RingFrame
  <2>3. CASE t # s
    BY <1>1, <1>5, <2>1, <2>2, <2>3, StreamFrame, ChanFrame
  <2>4. CASE t = s
    <3>1. StreamOK(t)'
      BY <1>1, <1>4, <2>1, <2>4 DEF StreamOK, GoodRecord, ReceiveClosed
    <3>2. GoodChan(s, got[s], chan[s], s \in stream_channels,
                   s \in stream_channels \ eof_sent)'
      <4>1. \A i \in DOMAIN chan'[s] : chan'[s][i].len = 0 =>
              i = Len(chan'[s]) /\ chan'[s][i].off = Size /\ s \in eof_sent'
        BY <1>3, <1>4, <1>5
      <4>2. Contiguous(got'[s], chan'[s]) /\ read'[s] = Fed(got'[s], chan'[s])
        BY <1>1, <1>4, <1>5
      <4> QED BY <4>1, <4>2 DEF GoodChan
    <3> QED BY <2>2, <2>4, <3>1, <3>2 DEF ChanOK
  <2> QED BY <2>3, <2>4
<1>7. Types' /\ PacketsOK'
  BY <1>1, <1>5 DEF ActorInv, Types, PacketsOK
<1> QED BY <1>1, <1>6, <1>7 DEF ActorInv

(* The next stream of the visit: one that is done leaves the maps. *)
LEMMA ForwardNextKeeps ==
  ASSUME ActorInv, NEW s \in Streams, ForwardNext(s)
  PROVE  ActorInv'
<1>1. /\ pc = "forward" /\ todo # <<>> /\ s = Head(todo) /\ todo' = Tail(todo)
      /\ UNCHANGED <<pc, packet_chan, strm, read, chan, ring, handler, got,
                     sent, reset, dropped>>
  BY DEF ForwardNext, connVars, wakeVars, handlerVars, historyVars
<1>2. /\ \/ s \in stream_channels /\ FullyDone(strm[s])
            /\ stream_channels' = stream_channels \ {s}
            /\ eof_sent' = eof_sent \ {s} /\ handled' = handled \ {s}
         \/ ~(s \in stream_channels /\ FullyDone(strm[s]))
            /\ UNCHANGED <<stream_channels, eof_sent, handled>>
  BY DEF ForwardNext, mapVars
<1>3. todo \in Seq(Streams) /\ handled \subseteq Streams
      /\ handled = stream_channels
  BY DEF ActorInv, Types
<1>4. todo' \in Seq(Streams) /\ handled' \subseteq Streams
      /\ handled' = stream_channels'
  <2>1. todo' \in Seq(Streams)
    BY <1>1, <1>3
  <2>2. handled' \subseteq Streams /\ handled' = stream_channels'
    BY <1>2, <1>3
  <2> QED BY <2>1, <2>2
<1>5. ASSUME NEW t \in Streams, t # s, NEW i \in DOMAIN todo, todo[i] = t
      PROVE  \E j \in DOMAIN todo' : todo'[j] = t
  <2>1. i - 1 \in DOMAIN todo' /\ todo'[i - 1] = todo[i]
    BY <1>1, <1>3, <1>5
  <2> QED BY <1>5, <2>1
<1>6. ASSUME NEW t \in Streams
      PROVE  (StreamOK(t) /\ TableOK(t) /\ RingOK(t) /\ ChanOK(t))'
  <2>1. StreamOK(t) /\ TableOK(t) /\ RingOK(t) /\ ChanOK(t)
    BY DEF ActorInv
  <2>2. TableOK(t)'
    <3>1. CASE t = s
      BY <1>1, <1>2, <1>3, <2>1, <3>1 DEF TableOK
    <3>2. CASE t # s
      BY <1>1, <1>2, <1>5, <2>1, <3>2 DEF TableOK
    <3> QED BY <3>1, <3>2
  <2>3. /\ t \in stream_channels' => t \in stream_channels
        /\ t \in stream_channels' \ eof_sent' =>
             t \in stream_channels \ eof_sent
    BY <1>2
  <2> QED BY <1>1, <2>1, <2>2, <2>3, StreamFrame, RingFrame, ChanFrame
<1>7. Types' /\ PacketsOK'
  BY <1>1, <1>4 DEF ActorInv, Types, PacketsOK
<1> QED BY <1>1, <1>4, <1>6, <1>7 DEF ActorInv

(* flush_outgoing keeps a record good. *)
LEMMA FlushedGood ==
  ASSUME NEW table \in [Streams -> StreamRecord], NEW t2 \in Flushed(table),
         NEW s \in Streams, GoodRecord(table[s])
  PROVE  GoodRecord(t2[s])
BY FlushedFacts DEF GoodRecord, ReceiveClosed

(* cleanup_done_streams: what goes has left the maps before. *)
LEMMA ForwardDoneKeeps ==
  ASSUME ActorInv, ForwardDone
  PROVE  ActorInv'
<1> DEFINE table == Cleaned(strm)
<1>1. /\ pc = "forward" /\ pc' = "responses" /\ todo = <<>>
      /\ strm' \in Flushed(table)
      /\ read' = [s \in Streams |->
                    IF strm'[s].state = "Idle" THEN 0 ELSE read[s]]
      /\ UNCHANGED <<todo, packet_chan, handled, stream_channels, eof_sent,
                     chan, ring, handler, got, sent, reset, dropped>>
  BY DEF ForwardDone, connVars, mapVars, wakeVars, handlerVars, historyVars
<1>2. /\ strm \in [Streams -> StreamRecord] /\ read \in [Streams -> Nat]
  BY DEF ActorInv, Types
<1>3. /\ Fresh \in StreamRecord /\ GoodRecord(Fresh) /\ Fresh.state = "Idle"
  <2>1. Size \in Nat /\ NoFin \notin Nat
    BY ActorAssumption DEF NoFin
  <2>2. Fresh \in StreamRecord
    BY <2>1 DEF Fresh, NewStream, StreamRecord, StreamState
  <2>3. Fresh.state = "Idle" /\ Fresh.rx = 0 /\ Fresh.fin = NoFin
        /\ Fresh.max_local = Size
    BY DEF Fresh, NewStream
  <2> QED BY <2>1, <2>2, <2>3 DEF GoodRecord, ReceiveClosed
<1>4. /\ table \in [Streams -> StreamRecord]
      /\ \A s \in Streams :
           table[s] = IF FullyDone(strm[s]) THEN Fresh ELSE strm[s]
  BY <1>2, <1>3 DEF Cleaned
<1> HIDE DEF table
<1>5. /\ strm' \in [Streams -> StreamRecord]
      /\ \A s \in Streams : strm'[s].state = table[s].state
  BY <1>1, <1>4, FlushedFacts
<1>6. read' \in [Streams -> Nat]
  BY <1>1, <1>2
<1>7. ASSUME NEW s \in Streams
      PROVE  (StreamOK(s) /\ TableOK(s) /\ RingOK(s) /\ ChanOK(s))'
  <2>1. StreamOK(s) /\ TableOK(s) /\ RingOK(s) /\ ChanOK(s)
    BY DEF ActorInv
  <2>2. FullyDone(strm[s]) => s \notin handled
    BY <1>1, <2>1 DEF TableOK
  <2>3. GoodRecord(strm'[s])
    BY <1>1, <1>3, <1>4, <2>1, FlushedGood DEF StreamOK
  <2>4. strm'[s].state = IF FullyDone(strm[s]) THEN "Idle" ELSE strm[s].state
    BY <1>3, <1>4, <1>5
  <2>5. read'[s] = IF strm'[s].state = "Idle" THEN 0 ELSE read[s]
    BY <1>1
  <2>6. StreamOK(s)'
    BY <1>1, <2>1, <2>3, <2>4, <2>5 DEF StreamOK
  <2>7. TableOK(s)'
    BY <1>1, <2>1, <2>2, <2>4 DEF TableOK
  <2>8. RingOK(s)'
    <3>1. strm[s].state \in {"Open", "HalfClosedRemote"} => ~FullyDone(strm[s])
      BY DEF FullyDone
    <3> QED BY <1>1, <2>1, <2>4, <3>1 DEF RingOK, Answering
  <2>9. ChanOK(s)'
    <3>1. s \in handled => read'[s] = read[s]
      BY <2>1, <2>2, <2>4, <2>5 DEF TableOK
    <3>2. handled = stream_channels
      BY DEF ActorInv
    <3> QED BY <1>1, <2>1, <3>1, <3>2, ChanFrame
  <2> QED BY <2>6, <2>7, <2>8, <2>9
<1>8. Types' /\ PacketsOK'
  BY <1>1, <1>5, <1>6 DEF ActorInv, Types, PacketsOK
<1> QED BY <1>1, <1>7, <1>8 DEF ActorInv

(* flush_outgoing at the end of a turn of the loop, and the other steps    *)
(* that only move the loop.                                                *)
LEMMA TurnKeeps ==
  ASSUME ActorInv, ResponsesDone \/ Timeout \/ WakeUp
  PROVE  ActorInv'
<1>1. /\ pc \in {"responses", "select"}
      /\ pc' \in {"responses", "select", "exit"}
      /\ strm' = strm \/ strm' \in Flushed(strm)
      /\ UNCHANGED <<todo, packet_chan, read, handled, stream_channels,
                     eof_sent, chan, ring, handler, got, sent, reset, dropped>>
  BY DEF ResponsesDone, Timeout, WakeUp, connVars, mapVars, wakeVars,
         handlerVars, historyVars
<1>2. strm \in [Streams -> StreamRecord]
  BY DEF ActorInv, Types
<1>3. /\ strm' \in [Streams -> StreamRecord]
      /\ \A s \in Streams : strm'[s].state = strm[s].state
  BY <1>1, <1>2, FlushedFacts
<1>4. ASSUME NEW s \in Streams
      PROVE  (StreamOK(s) /\ TableOK(s) /\ RingOK(s) /\ ChanOK(s))'
  <2>1. StreamOK(s) /\ TableOK(s) /\ RingOK(s) /\ ChanOK(s)
    BY DEF ActorInv
  <2>2. GoodRecord(strm'[s])
    BY <1>1, <1>2, <2>1, FlushedGood DEF StreamOK
  <2>3. StreamOK(s)'
    BY <1>1, <1>3, <2>1, <2>2 DEF StreamOK
  <2> QED BY <1>1, <1>3, <2>1, <2>3, TableMove, RingFrame, ChanFrame
<1>5. Types' /\ PacketsOK'
  BY <1>1, <1>3 DEF ActorInv, Types, PacketsOK
<1> QED BY <1>1, <1>4, <1>5 DEF ActorInv

(* A response is written and this side of the stream closed. *)
LEMMA AnswerFacts ==
  ASSUME NEW st, GoodRecord(st), st.state # "Idle"
  PROVE  LET y == CloseLocal(Write(st, 1))
         IN GoodRecord(y) /\ y.state # "Idle" /\
            (y.state = "Reset" => st.state = "Reset")
<1>1. st \in StreamRecord
  BY DEF GoodRecord
<1>2. GoodRecord(Write(st, 1)) /\ Write(st, 1).state = st.state
  <2>1. CASE st.state \in {"Closed", "HalfClosedLocal"}
    BY <2>1 DEF Write
  <2>2. CASE st.state \notin {"Closed", "HalfClosedLocal"}
    <3> DEFINE z == [Opened(st) EXCEPT !.size = @ + 1]
    <3>1. /\ z \in StreamRecord /\ z.state = st.state /\ z.rx = st.rx
          /\ z.fin = st.fin /\ z.max_local = st.max_local
      <4>1. /\ Opened(st) \in StreamRecord /\ Opened(st).state = st.state
            /\ Opened(st).rx = st.rx /\ Opened(st).fin = st.fin
            /\ Opened(st).max_local = st.max_local
        BY <1>1 DEF Opened, StreamRecord
      <4>2. Opened(st).size \in Nat
        BY <4>1 DEF StreamRecord
      <4> QED BY <4>1, <4>2 DEF StreamRecord
    <3>2. Write(st, 1) = z
      BY <2>2 DEF Write
    <3> HIDE DEF z
    <3> QED BY <3>1, <3>2 DEF GoodRecord, ReceiveClosed
  <2> QED BY <2>1, <2>2
<1> DEFINE w == Write(st, 1)
<1> HIDE DEF w
<1>3. GoodRecord(w) /\ w.state = st.state /\ w \in StreamRecord
  BY <1>2 DEF w, GoodRecord
<1>4. /\ CloseLocal(w) \in StreamRecord
      /\ CloseLocal(w).rx = w.rx /\ CloseLocal(w).fin = w.fin
      /\ CloseLocal(w).max_local = w.max_local
      /\ CloseLocal(w).state =
           CASE w.state = "Open"             -> "HalfClosedLocal"
             [] w.state = "HalfClosedRemote" -> "Closed"
             [] OTHER                        -> w.state
  BY <1>3 DEF CloseLocal, StreamRecord, StreamState
<1> DEFINE y == CloseLocal(w)
<1> HIDE DEF y
<1>5. GoodRecord(y) /\ y.state # "Idle" /\ (y.state = "Reset" => st.state = "Reset")
  BY <1>3, <1>4 DEF y, GoodRecord, ReceiveClosed
<1> QED BY <1>5 DEF y, w

(* drain_responses: the stream of the response is in the table, unless it  *)
(* has been reset.                                                         *)
LEMMA DrainKeeps ==
  ASSUME ActorInv, DrainResponse
  PROVE  ActorInv'
<1> DEFINE s == Head(ring)
<1>1. /\ pc = "responses" /\ pc' = "responses" /\ ring # <<>>
      /\ ring' = Tail(ring)
      /\ UNCHANGED <<todo, packet_chan, read, handled, stream_channels,
                     eof_sent, chan, handler, got, sent, reset>>
      /\ \/ /\ strm[s].state # "Idle" /\ dropped' = dropped
            /\ strm' = [strm EXCEPT ![s] = CloseLocal(Write(strm[s], 1))]
         \/ /\ strm[s].state = "Idle" /\ dropped' = dropped \cup {s}
            /\ strm' = strm
  BY DEF DrainResponse, mapVars, handlerVars
<1>2. /\ strm \in [Streams -> StreamRecord] /\ ring \in Seq(Streams)
      /\ read \in [Streams -> Nat]
  BY DEF ActorInv, Types
<1>3. /\ s \in Streams /\ 1 \in DOMAIN ring /\ ring[1] = s
      /\ ring' \in Seq(Streams)
      /\ \A i \in DOMAIN ring' : i + 1 \in DOMAIN ring /\ ring'[i] = ring[i + 1]
      /\ \A i \in DOMAIN ring' : i \in Nat \ {0}
  BY <1>1, <1>2
<1> HIDE DEF s
<1>4. StreamOK(s) /\ TableOK(s) /\ RingOK(s) /\ ChanOK(s)
  BY <1>3 DEF ActorInv
<1>5. dropped' \subseteq reset'
  <2>1. strm[s].state = "Idle" => s \in reset
    BY <1>3, <1>4 DEF RingOK, Answering
  <2>2. dropped \subseteq reset
    BY DEF ActorInv
  <2> QED BY <1>1, <2>1, <2>2
<1>6. /\ strm' \in [Streams -> StreamRecord]
      /\ \A t \in Streams \ {s} : strm'[t] = strm[t]
      /\ GoodRecord(strm'[s])
      /\ strm'[s].state = "Idle" <=> strm[s].state = "Idle"
      /\ strm'[s].state = "Reset" => strm[s].state = "Reset"
  <2>1. CASE strm[s].state = "Idle"
    BY <1>1, <1>2, <1>4, <2>1 DEF StreamOK
  <2>2. CASE strm[s].state # "Idle"
    <3> DEFINE y == CloseLocal(Write(strm[s], 1))
    <3>1. GoodRecord(y) /\ y.state # "Idle"
          /\ (y.state = "Reset" => strm[s].state = "Reset")
      BY <1>4, <2>2, AnswerFacts DEF StreamOK
    <3>2. strm' = [strm EXCEPT ![s] = y] /\ y \in StreamRecord
      BY <1>1, <2>2, <3>1 DEF GoodRecord
    <3> HIDE DEF y
    <3> QED BY <1>2, <1>3, <2>2, <3>1, <3>2
  <2> QED BY <2>1, <2>2
<1>7. ASSUME NEW t \in Streams
      PROVE  (StreamOK(t) /\ TableOK(t) /\ RingOK(t) /\ ChanOK(t))'
  <2>1. StreamOK(t) /\ TableOK(t) /\ RingOK(t) /\ ChanOK(t)
    BY DEF ActorInv
  <2>2. ChanOK(t)'
    BY <1>1, <2>1, ChanFrame
  <2>3. StreamOK(t)'
    <3>1. CASE t = s
      BY <1>1, <1>4, <1>6, <3>1 DEF StreamOK
    <3>2. CASE t # s
      BY <1>1, <1>6, <2>1, <3>2, StreamFrame
    <3> QED BY <3>1, <3>2
  <2>4. TableOK(t)'
    <3>1. strm'[t].state = "Idle" <=> strm[t].state = "Idle"
      BY <1>6
    <3> QED BY <1>1, <2>1, <3>1 DEF TableOK
  <2>5. RingOK(t)'
    <3>1. SUFFICES ASSUME t \notin reset PROVE RingOK(t)'
      BY <1>1 DEF RingOK
    <3>2. CASE t = s
      <4>1. ~Answering(t)'
        <5>1. handler[t] \notin Handling
          BY <1>3, <2>1, <3>1, <3>2 DEF RingOK
        <5>2. ASSUME NEW i \in DOMAIN ring', ring'[i] = t PROVE FALSE
          <6>1. i + 1 \in DOMAIN ring /\ ring[i + 1] = ring[1] /\ i + 1 # 1
            BY <1>3, <3>2, <5>2
          <6> QED BY <1>3, <2>1, <3>1, <3>2, <6>1 DEF RingOK
        <5> QED BY <1>1, <5>1, <5>2 DEF Answering
      <4> QED BY <4>1 DEF RingOK, Answering
    <3>3. CASE t # s
      <4>1. Answering(t)' => Answering(t)
        BY <1>1, <1>3 DEF Answering
      <4>2. strm'[t] = strm[t]
        BY <1>6, <3>3
      <4>3. handler'[t] \in Handling => \A i \in DOMAIN ring' : ring'[i] # t
        BY <1>1, <1>3, <2>1, <3>1 DEF RingOK
      <4>4. ASSUME NEW i \in DOMAIN ring', NEW j \in DOMAIN ring',
                   ring'[i] = t, ring'[j] = t
            PROVE  i = j
        <5>1. i + 1 = j + 1
          BY <1>3, <2>1, <3>1, <4>4 DEF RingOK
        <5>2. i \in Nat /\ j \in Nat
          BY <1>3
        <5> QED BY <5>1, <5>2
      <4> QED BY <2>1, <3>1, <4>1, <4>2, <4>3, <4>4 DEF RingOK
    <3> QED BY <3>2, <3>3
  <2> QED BY <2>2, <2>3, <2>4, <2>5
<1>8. Types' /\ PacketsOK'
  BY <1>1, <1>3, <1>6 DEF ActorInv, Types, PacketsOK
<1> QED BY <1>1, <1>5, <1>7, <1>8 DEF ActorInv

(* The ensure clause of the actor. *)
LEMMA ExitKeeps ==
  ASSUME ActorInv, Exit
  PROVE  ActorInv'
<1>1. /\ pc = "exit" /\ pc' = "done"
      /\ chan' = [s \in Streams |->
                    IF s \in stream_channels /\ Len(chan[s]) < ChanCap
                      THEN Append(chan[s], NextChunk(s, 0)) ELSE chan[s]]
      /\ UNCHANGED <<todo, packet_chan, strm, read, handled, stream_channels,
                     eof_sent, ring, handler, got, sent, reset, dropped>>
  BY DEF Exit, connVars, mapVars, wakeVars, handlerVars, historyVars
<1>2. chan' \in [Streams -> Seq(Chunk)]
  <2>1. ASSUME NEW s \in Streams
        PROVE  /\ chan[s] \in Seq(Chunk)
               /\ Append(chan[s], NextChunk(s, 0)) \in Seq(Chunk)
    <3>1. chan[s] \in Seq(Chunk) /\ read[s] \in Nat
      BY DEF ActorInv, Types
    <3>2. NextChunk(s, 0) \in Chunk
      BY <3>1 DEF NextChunk, Chunk
    <3> QED BY <3>1, <3>2
  <2> QED BY <1>1, <2>1
<1>3. ASSUME NEW s \in Streams
      PROVE  (StreamOK(s) /\ TableOK(s) /\ RingOK(s) /\ ChanOK(s))'
  <2>1. StreamOK(s) /\ TableOK(s) /\ RingOK(s) /\ ChanOK(s)
    BY DEF ActorInv
  <2>2. ChanOK(s)'
    BY <1>1 DEF ChanOK
  <2> QED BY <1>1, <2>1, <2>2, StreamFrame, TableMove, RingFrame
<1>4. Types' /\ PacketsOK'
  BY <1>1, <1>2 DEF ActorInv, Types, PacketsOK
<1> QED BY <1>1, <1>3, <1>4 DEF ActorInv

(* The first chunk is taken: the rest starts where it ends. *)
LEMMA TailChunk ==
  ASSUME NEW n \in Nat, NEW chunks \in Seq(Chunk), chunks # <<>>,
         Contiguous(n, chunks)
  PROVE  LET after == Tail(chunks)
             m     == n + Head(chunks).len IN
         /\ after \in Seq(Chunk) /\ m \in Nat
         /\ Contiguous(m, after) /\ Fed(m, after) = Fed(n, chunks)
         /\ \A i \in DOMAIN after :
              /\ i + 1 \in DOMAIN chunks /\ after[i] = chunks[i + 1]
              /\ i + 1 = Len(chunks) => i = Len(after)
<1> DEFINE after == Tail(chunks)
           m     == n + Head(chunks).len
<1>1. /\ after \in Seq(Chunk) /\ Len(after) = Len(chunks) - 1
      /\ DOMAIN after = 1 .. (Len(chunks) - 1)
      /\ DOMAIN chunks = 1 .. Len(chunks) /\ Len(chunks) \in Nat
      /\ Len(chunks) # 0 /\ Head(chunks) = chunks[1]
      /\ \A i \in DOMAIN after : after[i] = chunks[i + 1]
  OBVIOUS
<1> HIDE DEF after
<1>2. chunks[1].len \in Nat /\ m \in Nat
  <2>1. 1 \in DOMAIN chunks
    BY <1>1
  <2>2. chunks[1] \in Chunk
    BY <2>1
  <2> QED BY <1>1, <2>2 DEF Chunk
<1>3. m = n + chunks[1].len /\ chunks[1].off = n
  <2>1. 1 \in DOMAIN chunks
    BY <1>1
  <2> QED BY <1>1, <2>1 DEF Contiguous
<1> HIDE DEF m
<1>4. Contiguous(m, after)
  <2>1. SUFFICES ASSUME NEW i \in DOMAIN after
                 PROVE  after[i].off = IF i = 1 THEN m
                                       ELSE after[i - 1].off + after[i - 1].len
    BY DEF Contiguous
  <2>2. PICK k \in DOMAIN chunks : k = i + 1 /\ k # 1 /\ k - 1 = i
    BY <1>1
  <2>3. after[i] = chunks[k]
    BY <1>1, <2>2
  <2>4. chunks[k].off = chunks[i].off + chunks[i].len
    <3>1. chunks[k].off = chunks[k - 1].off + chunks[k - 1].len
      BY <2>2 DEF Contiguous
    <3> QED BY <2>2, <3>1
  <2>5. i # 1 => i - 1 \in DOMAIN after /\ i - 1 + 1 = i
    BY <1>1
  <2>6. i # 1 => after[i - 1] = chunks[i]
    BY <1>1, <2>5
  <2> QED BY <1>3, <2>3, <2>4, <2>6
<1>5. Fed(m, after) = Fed(n, chunks)
  <2>1. CASE after = <<>>
    <3>1. Len(chunks) = 1
      BY <1>1, <2>1
    <3> QED BY <1>1, <1>3, <2>1, <3>1 DEF Fed
  <2>2. CASE after # <<>>
    <3>1. Len(after) \in DOMAIN after /\ Len(after) + 1 = Len(chunks)
      BY <1>1, <2>2
    <3>2. after[Len(after)] = chunks[Len(chunks)]
      BY <1>1, <3>1
    <3> QED BY <1>1, <2>2, <3>2 DEF Fed
  <2> QED BY <2>1, <2>2
<1>6. \A i \in DOMAIN after :
        /\ i + 1 \in DOMAIN chunks /\ after[i] = chunks[i + 1]
        /\ i + 1 = Len(chunks) => i = Len(after)
  BY <1>1
<1> QED BY <1>1, <1>2, <1>4, <1>5, <1>6 DEF after, m

(* A handler reads, to the end or until it has seen enough. *)
LEMMA HandlerReadsKeeps ==
  ASSUME ActorInv, NEW s \in Streams, HandlerReads(s)
  PROVE  ActorInv'
<1> DEFINE after == Tail(chan[s])
           m     == got[s] + Head(chan[s]).len
<1>1. /\ handler[s] = "reading" /\ chan[s] # <<>>
      /\ chan' = [chan EXCEPT ![s] = after] /\ got' = [got EXCEPT ![s] = m]
      /\ UNCHANGED <<pc, todo, packet_chan, strm, read, handled,
                     stream_channels, eof_sent, ring, sent, reset, dropped>>
  BY DEF HandlerReads, mapVars, wakeVars, historyVars
<1>2. \E h \in Handling : handler' = [handler EXCEPT ![s] = h]
  BY DEF HandlerReads, Handling
<1>3. /\ got \in [Streams -> Nat] /\ chan \in [Streams -> Seq(Chunk)]
      /\ handler \in [Streams -> Handling \cup {"none", "done"}]
  BY DEF ActorInv, Types
<1>4. /\ handler' \in [Streams -> Handling \cup {"none", "done"}]
      /\ handler[s] \in Handling /\ handler'[s] \in Handling
      /\ \A t \in Streams \ {s} : handler'[t] = handler[t]
  BY <1>1, <1>2, <1>3 DEF Handling
<1>5. StreamOK(s) /\ TableOK(s) /\ RingOK(s) /\ ChanOK(s)
  BY DEF ActorInv
<1>6. pc # "done" =>
        GoodChan(s, m, after, s \in stream_channels,
                 s \in stream_channels \ eof_sent)
  <2>1. SUFFICES ASSUME pc # "done"
                 PROVE  GoodChan(s, m, after, s \in stream_channels,
                                 s \in stream_channels \ eof_sent)
    OBVIOUS
  <2>2. GoodChan(s, got[s], chan[s], s \in stream_channels,
                 s \in stream_channels \ eof_sent)
    BY <1>5, <2>1 DEF ChanOK
  <2>3. Contiguous(got[s], chan[s])
    BY <2>2 DEF GoodChan
  <2>4. /\ Contiguous(m, after) /\ Fed(m, after) = Fed(got[s], chan[s])
        /\ \A i \in DOMAIN after :
             /\ i + 1 \in DOMAIN chan[s] /\ after[i] = chan[s][i + 1]
             /\ i + 1 = Len(chan[s]) => i = Len(after)
    BY <1>1, <1>3, <2>3, TailChunk
  <2> HIDE DEF after, m
  <2> QED BY <2>2, <2>4 DEF GoodChan
<1>7. after \in Seq(Chunk) /\ m \in Nat
  <2>1. /\ chan[s] \in Seq(Chunk) /\ chan[s] # <<>> /\ got[s] \in Nat
    BY <1>1, <1>3
  <2>2. Head(chan[s]) \in Chunk /\ Tail(chan[s]) \in Seq(Chunk)
    BY <2>1
  <2> QED BY <2>1, <2>2 DEF Chunk
<1> HIDE DEF after, m
<1>8. /\ chan' \in [Streams -> Seq(Chunk)] /\ got' \in [Streams -> Nat]
      /\ chan'[s] = after /\ got'[s] = m
      /\ \A t \in Streams \ {s} : chan'[t] = chan[t] /\ got'[t] = got[t]
  BY <1>1, <1>3, <1>7
<1>9. ASSUME NEW t \in Streams
      PROVE  (StreamOK(t) /\ TableOK(t) /\ RingOK(t) /\ ChanOK(t))'
  <2>1. StreamOK(t) /\ TableOK(t) /\ RingOK(t) /\ ChanOK(t)
    BY DEF ActorInv
  <2>2. StreamOK(t)' /\ TableOK(t)'
    BY <1>1, <2>1, StreamFrame, TableFrame
  <2>3. CASE t # s
    BY <1>1, <1>4, <1>8, <2>1, <2>2, <2>3, RingFrame, ChanFrame
  <2>4. CASE t = s
    <3>1. RingOK(t)'
      BY <1>1, <1>4, <2>1, <2>4 DEF RingOK, Answering
    <3>2. ChanOK(t)'
      BY <1>1, <1>6, <1>8, <2>4 DEF ChanOK, GoodChan
    <3> QED BY <2>2, <3>1, <3>2
  <2> QED BY <2>3, <2>4
<1>10. Types' /\ PacketsOK'
  BY <1>1, <1>4, <1>8 DEF ActorInv, Types, PacketsOK
<1> QED BY <1>1, <1>9, <1>10 DEF ActorInv

(* push_response: the only response of the stream. *)
LEMMA HandlerPushesKeeps ==
  ASSUME ActorInv, NEW s \in Streams, HandlerPushes(s)
  PROVE  ActorInv'
<1>1. /\ handler[s] = "push" /\ ring' = Append(ring, s)
      /\ handler' = [handler EXCEPT ![s] = "done"]
      /\ UNCHANGED <<pc, todo, packet_chan, strm, read, chan, handled,
                     stream_channels, eof_sent, got, sent, reset, dropped>>
  BY DEF HandlerPushes, connVars, mapVars, historyVars
<1>2. /\ ring \in Seq(Streams)
      /\ handler \in [Streams -> Handling \cup {"none", "done"}]
  BY DEF ActorInv, Types
<1>3. /\ ring' \in Seq(Streams)
      /\ DOMAIN ring' = 1 .. (Len(ring) + 1) /\ ring'[Len(ring) + 1] = s
      /\ DOMAIN ring = 1 .. Len(ring) /\ Len(ring) \in Nat
      /\ \A i \in DOMAIN ring : ring'[i] = ring[i]
  BY <1>1, <1>2
<1>4. /\ handler' \in [Streams -> Handling \cup {"none", "done"}]
      /\ handler'[s] = "done"
      /\ \A t \in Streams \ {s} : handler'[t] = handler[t]
  BY <1>1, <1>2
<1>5. ASSUME NEW t \in Streams
      PROVE  (StreamOK(t) /\ TableOK(t) /\ RingOK(t) /\ ChanOK(t))'
  <2>1. StreamOK(t) /\ TableOK(t) /\ RingOK(t) /\ ChanOK(t)
    BY DEF ActorInv
  <2>2. RingOK(t)'
    <3>1. SUFFICES ASSUME t \notin reset PROVE RingOK(t)'
      BY <1>1 DEF RingOK
    <3>2. CASE t = s
      <4>1. Answering(t) /\ \A i \in DOMAIN ring : ring[i] # t
        BY <1>1, <2>1, <3>1, <3>2 DEF RingOK, Answering, Handling
      <4>2. \A i \in DOMAIN ring' : ring'[i] = t => i = Len(ring) + 1
        BY <1>3, <4>1
      <4>3. handler'[t] \notin Handling
        BY <1>4, <3>2 DEF Handling
      <4> QED BY <1>1, <2>1, <3>1, <4>1, <4>2, <4>3 DEF RingOK
    <3>3. CASE t # s
      <4>1. \A i \in DOMAIN ring' : ring'[i] = t =>
              i \in DOMAIN ring /\ ring[i] = t
        BY <1>3, <3>3
      <4>2. handler'[t] = handler[t]
        BY <1>4, <3>3
      <4> QED BY <1>1, <2>1, <3>1, <4>1, <4>2 DEF RingOK, Answering
    <3> QED BY <3>2, <3>3
  <2> QED BY <1>1, <2>1, <2>2, StreamFrame, TableFrame, ChanFrame
<1>6. Types' /\ PacketsOK'
  BY <1>1, <1>3, <1>4 DEF ActorInv, Types, PacketsOK
<1> QED BY <1>1, <1>5, <1>6 DEF ActorInv

(* What the invariant speaks of does not change. *)
LEMMA IdleKeeps ==
  ASSUME ActorInv,
         UNCHANGED vars \/ \E s \in Streams : HandlerWakes(s)
  PROVE  ActorInv'
<1>1. UNCHANGED <<pc, todo, packet_chan, strm, read, chan, handled,
                  stream_channels, eof_sent, ring, handler, got, sent, reset,
                  dropped>>
  BY DEF vars, HandlerWakes, connVars, mapVars, wakeVars, handlerVars,
         historyVars
<1>2. ASSUME NEW s \in Streams
      PROVE  (StreamOK(s) /\ TableOK(s) /\ RingOK(s) /\ ChanOK(s))'
  <2>1. StreamOK(s) /\ TableOK(s) /\ RingOK(s) /\ ChanOK(s)
    BY DEF ActorInv
  <2> QED BY <1>1, <2>1, StreamFrame, TableFrame, RingFrame, ChanFrame
<1>3. Types' /\ PacketsOK'
  BY <1>1 DEF ActorInv, Types, PacketsOK
<1> QED BY <1>1, <1>2, <1>3 DEF ActorInv

-----------------------------------------------------------------------------

(* The invariant holds to begin with. *)
LEMMA InitActor ==
  ASSUME Init
  PROVE  ActorInv
<1>1. /\ Fresh \in StreamRecord /\ GoodRecord(Fresh) /\ Fresh.state = "Idle"
  <2>1. Size \in Nat /\ NoFin \notin Nat
    BY ActorAssumption DEF NoFin
  <2>2. Fresh \in StreamRecord
    BY <2>1 DEF Fresh, NewStream, StreamRecord, StreamState
  <2>3. Fresh.state = "Idle" /\ Fresh.rx = 0 /\ Fresh.fin = NoFin
        /\ Fresh.max_local = Size
    BY DEF Fresh, NewStream
  <2> QED BY <2>1, <2>2, <2>3 DEF GoodRecord, ReceiveClosed
<1>2. Types
  BY <1>1 DEF Init, Types
<1>3. ASSUME NEW s \in Streams
      PROVE  StreamOK(s) /\ TableOK(s) /\ RingOK(s) /\ ChanOK(s)
  <2>1. /\ strm[s] = Fresh /\ read[s] = 0 /\ got[s] = 0 /\ chan[s] = <<>>
        /\ handler[s] = "none" /\ handled = {} /\ stream_channels = {}
        /\ eof_sent = {} /\ ring = <<>> /\ pc = "select"
    BY DEF Init
  <2>2. StreamOK(s)
    BY <1>1, <2>1 DEF StreamOK
  <2>3. TableOK(s)
    BY <1>1, <2>1 DEF TableOK
  <2>4. RingOK(s)
    BY <2>1 DEF RingOK, Answering, Handling
  <2>5. ChanOK(s)
    BY <2>1 DEF ChanOK, GoodChan, Contiguous, Fed
  <2> QED BY <2>2, <2>3, <2>4, <2>5
<1>4. PacketsOK /\ handled = stream_channels /\ dropped \subseteq reset
  BY DEF Init, PacketsOK
<1> QED BY <1>2, <1>3, <1>4 DEF ActorInv

LEMMA ActorInvHolds == Spec => []ActorInv
<1>1. Init => ActorInv
  BY InitActor
<1>2. ActorInv /\ [Next]_vars => ActorInv'
  <2>1. SUFFICES ASSUME ActorInv, [Next]_vars PROVE ActorInv'
    OBVIOUS
  <2>2. CASE UNCHANGED vars
    BY <2>1, <2>2, IdleKeeps
  <2>3. CASE Next
    BY <2>1, <2>3, OutsideKeeps, RecvKeeps, DrainDoneKeeps, FeedKeeps,
       ForwardNextKeeps, ForwardDoneKeeps, TurnKeeps, DrainKeeps, ExitKeeps,
       HandlerReadsKeeps, HandlerPushesKeeps, IdleKeeps DEF Next
  <2> QED BY <2>1, <2>2, <2>3
<1> QED BY <1>1, <1>2, PTL DEF Spec

(* forward_stream_data and the ensure clause (connection_actor.cr:205-250, *)
(* 120-130): while the actor runs, the end marker of a request is in its   *)
(* channel only behind every byte that the handler has not read, whatever  *)
(* the order of packets, copies, resets, responses and visits.             *)
THEOREM EndComesLast == Spec => []EndAfterAll
<1>1. ActorInv => EndAfterAll
  BY DEF ActorInv, ChanOK, GoodChan, EndAfterAll
<1> QED BY <1>1, ActorInvHolds, PTL

(* drain_responses and cleanup_done_streams (connection_actor.cr:186-201): *)
(* a response is thrown away only if the client has reset its stream.      *)
THEOREM ResponsesFindTheirStream == Spec => []NoResponseDropped
<1>1. ActorInv => NoResponseDropped
  BY DEF ActorInv, NoResponseDropped
<1> QED BY <1>1, ActorInvHolds, PTL
=============================================================================
