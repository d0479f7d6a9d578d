-------------------------- MODULE ConnectionActor --------------------------
(***************************************************************************)
(* H3::ConnectionActor (src/src/h3/connection_actor.cr): the fiber that    *)
(* owns one connection of the server, the fibers that handle its requests, *)
(* and the channels between them: packet_chan from the router, one         *)
(* data_chan per request, the response ring and the wake channel back.     *)
(*                                                                         *)
(* The connection is known by its streams (module Stream).  A packet holds *)
(* one byte of a request, the last one its FIN; packets of a stream come   *)
(* in order, as losing and reordering them is module Transfer's concern.   *)
(* A chunk of a data_chan is known by where it is in the request and by    *)
(* its size: size 0 is Bytes.empty, the end.                               *)
(***************************************************************************)
EXTENDS Stream, Sequences, SequencesExt, FiniteSets

CONSTANTS
  Streams,     \* the client's request streams
  Size,        \* bytes of a request
  PacketCap,   \* capacity of packet_chan (512 in the code)
  ChanCap,     \* capacity of a data_chan (512 in the code)
  Resets,      \* the streams the client may reset
  EarlyReturn, \* how a handler may leave before the end of its request:
               \* "return" (trailers, a frame that is not HEADERS) or
               \* "close" (an invalid request closes the connection)
  Late,        \* may a copy of a packet come when the stream is done?
  Steady,      \* does the client send other packets all the time?
  Shutdown     \* may the server be shut down?

ASSUME ActorAssumption ==
  /\ IsFiniteSet(Streams)
  /\ Size \in Nat \ {0} /\ PacketCap \in Nat \ {0} /\ ChanCap \in Nat \ {0}
  /\ Resets \subseteq Streams /\ EarlyReturn \subseteq {"return", "close"}
  /\ Late \in BOOLEAN /\ Steady \in BOOLEAN /\ Shutdown \in BOOLEAN

VARIABLES
  pc,              \* where the actor's run loop is
  todo,            \* the streams forward_stream_data has yet to visit
  packet_chan,     \* @packet_chan
  strm,            \* @quic_conn.streams; Idle is not in the table
  read,            \* recv_read_pos of each stream
  closed,          \* @quic_conn.closed?
  stream_channels, \* the keys of @stream_channels
  chan,            \* the last data_chan made for each stream
  eof_sent,        \* @stream_eof_sent
  handled,         \* @handled_streams
  ring,            \* @response_ring: the streams of the responses
  wake,            \* is there a token in @wake_chan?
  waking,          \* the handlers between their push and their wake-up
  goaway_pending,  \* @goaway_pending
  timer_due,       \* a loss or probe timer has expired since the last tick
  handler,         \* where the handler of each stream is
  got,             \* bytes the handler has read
  sent,            \* bytes the client has sent (history)
  reset,           \* the streams the client has reset (history)
  handlings,       \* how often a handler was spawned (history)
  answered,        \* the streams whose response was written (history)
  dropped          \* the streams whose response was thrown away (history)

connVars    == <<strm, read, closed>>
mapVars     == <<stream_channels, eof_sent, handled>>
wakeVars    == <<ring, wake, waking>>
handlerVars == <<handler, got>>
historyVars == <<sent, reset, handlings, answered, dropped>>
vars == <<pc, todo, packet_chan, connVars, mapVars, chan, wakeVars,
          goaway_pending, timer_due, handlerVars, historyVars>>

StreamPacket ==
  [kind: {"stream"}, id: Streams, off: 0 .. (Size - 1), fin: BOOLEAN]
ResetPacket == [kind: {"reset"}, id: Streams]
OtherPacket == [kind: {"close", "other", "empty"}]
Packet      == StreamPacket \cup ResetPacket \cup OtherPacket

Chunk == [off: Nat, len: Nat]

Fresh == NewStream(1, Size)

Init ==
  /\ pc = "select" /\ todo = <<>>
  /\ packet_chan = <<>>
  /\ strm = [s \in Streams |-> Fresh]
  /\ read = [s \in Streams |-> 0]
  /\ closed = FALSE
  /\ stream_channels = {} /\ eof_sent = {} /\ handled = {}
  /\ chan = [s \in Streams |-> <<>>]
  /\ ring = <<>> /\ wake = FALSE /\ waking = {}
  /\ goaway_pending = FALSE /\ timer_due = FALSE
  /\ handler = [s \in Streams |-> "none"]
  /\ got = [s \in Streams |-> 0]
  /\ sent = [s \in Streams |-> 0]
  /\ reset = {} /\ answered = {} /\ dropped = {}
  /\ handlings = [s \in Streams |-> 0]

-----------------------------------------------------------------------------
(* The client and the router.  deliver drops a packet that finds the       *)
(* channel full, and the client sends it again.                            *)

Deliver(p) ==
  /\ Len(packet_chan) < PacketCap
  /\ packet_chan' = Append(packet_chan, p)

StreamData(s, off) ==
  [kind |-> "stream", id |-> s, off |-> off, fin |-> off = Size - 1]

ClientSends(s) ==
  /\ sent[s] < Size /\ s \notin reset
  /\ Deliver(StreamData(s, sent[s]))
  /\ sent' = [sent EXCEPT ![s] = @ + 1]
  /\ UNCHANGED <<pc, todo, connVars, mapVars, chan, wakeVars, goaway_pending,
                 timer_due, handlerVars, reset, handlings, answered, dropped>>

ClientResets(s) ==
  /\ s \in Resets \ reset /\ sent[s] > 0
  /\ Deliver([kind |-> "reset", id |-> s])
  /\ reset' = reset \cup {s}
  /\ UNCHANGED <<pc, todo, connVars, mapVars, chan, wakeVars, goaway_pending,
                 timer_due, handlerVars, sent, handlings, answered, dropped>>

(* Acknowledgements and the like, a CONNECTION_CLOSE, or a late copy of    *)
(* the first byte of a request that has been served.                       *)
OtherArrives ==
  /\ \/ Steady /\ Deliver([kind |-> "other"])
     \/ Deliver([kind |-> "close"])
     \/ \E s \in Streams : /\ Late /\ handlings[s] = 1
                           /\ handler[s] = "done" /\ strm[s].state = "Idle"
                           /\ Deliver(StreamData(s, 0))
  /\ UNCHANGED <<pc, todo, connVars, mapVars, chan, wakeVars, goaway_pending,
                 timer_due, handlerVars, historyVars>>

(* shutdown, called by the router when it has left its loop. *)
ShutdownActor ==
  /\ Shutdown /\ ~goaway_pending /\ ~closed
  /\ goaway_pending' = TRUE
  /\ packet_chan' = IF Len(packet_chan) < PacketCap
                      THEN Append(packet_chan, [kind |-> "empty"])
                      ELSE packet_chan
  /\ UNCHANGED <<pc, todo, connVars, mapVars, chan, wakeVars, timer_due,
                 handlerVars, historyVars>>

(* A timer of the connection expires (bound: only while nothing else is    *)
(* due, so that the timers do not multiply the other behaviours).          *)
TimerExpires ==
  /\ ~timer_due /\ pc = "select"
  /\ timer_due' = TRUE
  /\ UNCHANGED <<pc, todo, packet_chan, connVars, mapVars, chan, wakeVars,
                 goaway_pending, handlerVars, historyVars>>

-----------------------------------------------------------------------------
(* recv_packet *)

(* dispatch_new_streams: a handler is spawned for a stream that is not in  *)
(* @handled_streams.                                                       *)
Dispatch(s) ==
  IF s \in handled
    THEN UNCHANGED <<handled, stream_channels, chan, handlerVars, handlings>>
    ELSE /\ handled' = handled \cup {s}
         /\ stream_channels' = stream_channels \cup {s}
         /\ chan' = [chan EXCEPT ![s] = <<>>]
         /\ handler' = [handler EXCEPT ![s] = "reading"]
         /\ got' = [got EXCEPT ![s] = 0]
         /\ handlings' = [handlings EXCEPT ![s] = @ + 1]

(* handle_frame: what a STREAM or a RESET_STREAM frame makes of a stream. *)
AfterFrame(p) ==
  IF p.kind = "reset" THEN {Reset(strm[p.id])}
  ELSE {IF p.fin THEN SetFinOffset(x, p.off + 1) ELSE x :
          x \in ReceiveData(strm[p.id], p.off, 1)}

RecvStream(p) ==
  /\ p.kind \in {"stream", "reset"} /\ ~closed
  /\ \E st \in AfterFrame(p) : strm' = [strm EXCEPT ![p.id] = st]
  /\ Dispatch(p.id)
  /\ UNCHANGED <<closed, goaway_pending>>

(* The GOAWAY is sent, and the connection closed. *)
RecvEmpty(p) ==
  /\ p.kind = "empty"
  /\ closed' = (closed \/ goaway_pending)
  /\ goaway_pending' = FALSE
  /\ UNCHANGED <<strm, handled, stream_channels, chan, handlerVars,
                 handlings>>

(* Anything else, and everything once the connection is closed. *)
RecvOther(p) ==
  /\ p.kind # "empty"
  /\ closed \/ p.kind \in {"close", "other"}
  /\ closed' = (closed \/ p.kind = "close")
  /\ UNCHANGED <<strm, goaway_pending, handled, stream_channels, chan,
                 handlerVars, handlings>>

(* The packet arm of the select, and the drain that follows it. *)
RecvPacket ==
  LET p == Head(packet_chan) IN
  /\ pc \in {"select", "drain"} /\ packet_chan # <<>>
  /\ packet_chan' = Tail(packet_chan)
  /\ pc' = "drain"
  /\ RecvStream(p) \/ RecvEmpty(p) \/ RecvOther(p)
  /\ UNCHANGED <<todo, read, eof_sent, wakeVars, timer_due, sent, reset,
                 answered, dropped>>

(* The channel is empty: forward_stream_data visits the table. *)
DrainDone ==
  /\ pc = "drain" /\ packet_chan = <<>>
  /\ \E order \in SetToSeqs({s \in Streams : strm[s].state # "Idle"}) :
       todo' = order
  /\ pc' = "forward"
  /\ UNCHANGED <<packet_chan, connVars, mapVars, chan, wakeVars,
                 goaway_pending, timer_due, handlerVars, historyVars>>

-----------------------------------------------------------------------------
(* forward_stream_data *)

Unread(s) == IF strm[s].state = "Reset" THEN 0 ELSE strm[s].rx - read[s]

(* What is sent to a data_chan: the next n bytes, or Bytes.empty. *)
NextChunk(s, n) == [off |-> read[s], len |-> n]

(* Is there a channel to be fed? *)
Feeding(s) ==
  /\ pc = "forward" /\ todo # <<>> /\ s = Head(todo)
  /\ s \in stream_channels \ eof_sent

(* chan.send(chunk): the actor waits while the channel is full. *)
ForwardData(s) ==
  /\ Feeding(s) /\ Unread(s) > 0
  /\ Len(chan[s]) < ChanCap
  /\ chan' = [chan EXCEPT ![s] = Append(@, NextChunk(s, Unread(s)))]
  /\ read' = [read EXCEPT ![s] = strm[s].rx]
  /\ UNCHANGED <<pc, todo, packet_chan, strm, closed, mapVars, wakeVars,
                 goaway_pending, timer_due, handlerVars, historyVars>>

(* Faulty variant: a request ends with its response. *)
EndedBothWays(s) == strm[s].state = "Closed"

Ended(s) == strm[s].state \in {"HalfClosedRemote", "Closed"}

(* Faulty variant: the end is announced before the rest is forwarded. *)
ForwardEofEarly(s) ==
  /\ Feeding(s) /\ Ended(s)
  /\ Len(chan[s]) < ChanCap
  /\ chan' = [chan EXCEPT ![s] = Append(@, NextChunk(s, 0))]
  /\ eof_sent' = eof_sent \cup {s}
  /\ UNCHANGED <<pc, todo, packet_chan, connVars, stream_channels, handled,
                 wakeVars, goaway_pending, timer_due, handlerVars,
                 historyVars>>

ForwardEof(s) ==
  /\ Feeding(s) /\ Unread(s) = 0 /\ Ended(s)
  /\ Len(chan[s]) < ChanCap
  /\ chan' = [chan EXCEPT ![s] = Append(@, NextChunk(s, 0))]
  /\ eof_sent' = eof_sent \cup {s}
  /\ UNCHANGED <<pc, todo, packet_chan, connVars, stream_channels, handled,
                 wakeVars, goaway_pending, timer_due, handlerVars,
                 historyVars>>

(* Nothing is left to forward: the maps forget a stream that is done. *)
ForwardNext(s) ==
  /\ pc = "forward" /\ todo # <<>> /\ s = Head(todo)
  /\ s \in stream_channels \ eof_sent => Unread(s) = 0 /\ ~Ended(s)
  /\ todo' = Tail(todo)
  /\ IF s \in stream_channels /\ FullyDone(strm[s])
       THEN /\ stream_channels' = stream_channels \ {s}
            /\ eof_sent' = eof_sent \ {s}
            /\ handled' = handled \ {s}
       ELSE UNCHANGED mapVars
  /\ UNCHANGED <<pc, packet_chan, connVars, chan, wakeVars, goaway_pending,
                 timer_due, handlerVars, historyVars>>

-----------------------------------------------------------------------------
(* flush_outgoing sends what the congestion window and the pacing allow:   *)
(* any of the streams may have emptied its buffer.                         *)
Flushed(table) ==
  {[s \in Streams |-> IF s \in some /\ HasSendData(table[s])
                        THEN AfterPoll(table[s], table[s].size - table[s].tx)
                        ELSE table[s]] : some \in SUBSET Streams}

(* Faulty variant: a stream goes when its request has been read. *)
CleanedEarly(table) ==
  [s \in Streams |-> IF Ended(s) THEN Fresh ELSE table[s]]

(* cleanup_done_streams *)
Cleaned(table) ==
  [s \in Streams |-> IF FullyDone(table[s]) THEN Fresh ELSE table[s]]

(* cleanup_done_streams and flush_outgoing; then the fiber yields. *)
ForwardDone ==
  /\ pc = "forward" /\ todo = <<>>
  /\ strm' \in Flushed(Cleaned(strm))
  /\ read' = [s \in Streams |->
                IF strm'[s].state = "Idle" THEN 0 ELSE read[s]]
  /\ pc' = "responses"
  /\ UNCHANGED <<todo, packet_chan, closed, mapVars, chan, wakeVars,
                 goaway_pending, timer_due, handlerVars, historyVars>>

(* The wake arm of the select. *)
WakeUp ==
  /\ pc = "select" /\ wake
  /\ wake' = FALSE
  /\ pc' = "responses"
  /\ UNCHANGED <<todo, packet_chan, connVars, mapVars, chan, ring, waking,
                 goaway_pending, timer_due, handlerVars, historyVars>>

(* drain_responses: a response is written if its stream is in the table. *)
DrainResponse ==
  LET s == Head(ring) IN
  /\ pc = "responses" /\ ring # <<>>
  /\ ring' = Tail(ring)
  /\ IF strm[s].state # "Idle"
       THEN /\ strm' = [strm EXCEPT ![s] = CloseLocal(Write(@, 1))]
            /\ answered' = answered \cup {s}
            /\ UNCHANGED dropped
       ELSE /\ dropped' = dropped \cup {s}
            /\ UNCHANGED <<strm, answered>>
  /\ UNCHANGED <<pc, todo, packet_chan, read, closed, mapVars, chan, wake,
                 waking, goaway_pending, timer_due, handlerVars, sent,
                 reset, handlings>>

(* Faulty variant: one response is taken per wake-up. *)
ResponsesDoneAfterOne ==
  /\ pc = "responses"
  /\ strm' \in Flushed(strm)
  /\ pc' = IF closed THEN "exit" ELSE "select"
  /\ UNCHANGED <<todo, packet_chan, read, closed, mapVars, chan, wakeVars,
                 goaway_pending, timer_due, handlerVars, historyVars>>

(* Faulty variant: closed? is only looked at after a tick. *)
ResponsesDoneOpen ==
  /\ pc = "responses" /\ ring = <<>>
  /\ strm' \in Flushed(strm)
  /\ pc' = "select"
  /\ UNCHANGED <<todo, packet_chan, read, closed, mapVars, chan, wakeVars,
                 goaway_pending, timer_due, handlerVars, historyVars>>

(* The ring is empty: flush, and around the loop unless closed. *)
ResponsesDone ==
  /\ pc = "responses" /\ ring = <<>>
  /\ strm' \in Flushed(strm)
  /\ pc' = IF closed THEN "exit" ELSE "select"
  /\ UNCHANGED <<todo, packet_chan, read, closed, mapVars, chan, wakeVars,
                 goaway_pending, timer_due, handlerVars, historyVars>>

(* The timeout arm: it needs a quiet period, as every other arm starts the *)
(* timer over.  tick may find the connection idle for too long.            *)
Timeout ==
  /\ pc = "select" /\ packet_chan = <<>> /\ ~wake /\ timer_due
  /\ timer_due' = FALSE
  /\ closed' \in {closed, TRUE}
  /\ strm' \in Flushed(strm)
  /\ pc' = IF closed' THEN "exit" ELSE "select"
  /\ UNCHANGED <<todo, packet_chan, read, mapVars, chan, wakeVars,
                 goaway_pending, handlerVars, historyVars>>

(* The ensure clause: the end is offered to every channel, once. *)
Exit ==
  /\ pc = "exit"
  /\ pc' = "done"
  /\ chan' = [s \in Streams |->
                IF s \in stream_channels /\ Len(chan[s]) < ChanCap
                  THEN Append(chan[s], NextChunk(s, 0)) ELSE chan[s]]
  /\ UNCHANGED <<todo, packet_chan, connVars, mapVars, wakeVars,
                 goaway_pending, timer_due, handlerVars, historyVars>>

-----------------------------------------------------------------------------
(* handle_request through an ActorStreamSocket: it reads to the end, or    *)
(* has seen enough, or finds the request invalid.                          *)

HandlerReads(s) ==
  LET chunk == Head(chan[s]) IN
  /\ handler[s] = "reading" /\ chan[s] # <<>>
  /\ chan' = [chan EXCEPT ![s] = Tail(@)]
  /\ got' = [got EXCEPT ![s] = @ + chunk.len]
  /\ \/ /\ handler' = [handler EXCEPT ![s] =
                         IF chunk.len = 0 THEN "push" ELSE "reading"]
        /\ UNCHANGED closed
     \/ \E how \in EarlyReturn :
          /\ handler' = [handler EXCEPT ![s] = "push"]
          /\ closed' = (closed \/ how = "close")
  /\ UNCHANGED <<pc, todo, packet_chan, strm, read, mapVars, wakeVars,
                 goaway_pending, timer_due, historyVars>>

(* push_response: the ring first ... *)
HandlerPushes(s) ==
  /\ handler[s] = "push"
  /\ ring' = Append(ring, s)
  /\ handler' = [handler EXCEPT ![s] = "done"]
  /\ waking' = waking \cup {s}
  /\ UNCHANGED <<pc, todo, packet_chan, connVars, mapVars, chan, wake,
                 goaway_pending, timer_due, got, historyVars>>

(* ... then the wake-up, which is not sent if there is one already. *)
HandlerWakes(s) ==
  /\ s \in waking
  /\ wake' = TRUE
  /\ waking' = waking \ {s}
  /\ UNCHANGED <<pc, todo, packet_chan, connVars, mapVars, chan, ring,
                 goaway_pending, timer_due, handlerVars, historyVars>>

Forward(s) == ForwardData(s) \/ ForwardEof(s) \/ ForwardNext(s)

Next ==
  \/ \E s \in Streams : ClientSends(s) \/ ClientResets(s)
  \/ OtherArrives \/ ShutdownActor \/ TimerExpires
  \/ RecvPacket \/ DrainDone
  \/ \E s \in Streams : ForwardData(s) \/ ForwardEof(s) \/ ForwardNext(s)
  \/ ForwardDone \/ WakeUp \/ DrainResponse \/ ResponsesDone \/ Timeout
  \/ Exit
  \/ \E s \in Streams :
       HandlerReads(s) \/ HandlerPushes(s) \/ HandlerWakes(s)

Spec == Init /\ [][Next]_vars

(* The scheduler runs every fiber that can run.  The drain loop ends: its  *)
(* select never yields, so it sees the packets that were there, and the    *)
(* client repeats what found no room (both SF).  The timeout arm only      *)
(* fires when nothing has come for a while.                                *)
FairSpec ==
  /\ Spec
  /\ WF_vars(RecvPacket) /\ SF_vars(DrainDone)
  /\ WF_vars(\E s \in Streams : Forward(s))
  /\ WF_vars(ForwardDone) /\ WF_vars(WakeUp)
  /\ WF_vars(DrainResponse) /\ WF_vars(ResponsesDone)
  /\ WF_vars(Timeout) /\ WF_vars(Exit)
  /\ \A s \in Streams : /\ SF_vars(ClientSends(s))
                        /\ WF_vars(HandlerReads(s))
                        /\ WF_vars(HandlerPushes(s))
                        /\ WF_vars(HandlerWakes(s))

-----------------------------------------------------------------------------
(* No wake-up is lost: when the actor is at its select and a response is   *)
(* in the ring, there is a token in wake_chan or a handler that has pushed *)
(* a response is about to put one there.                                   *)
NoLostWakeup ==
  pc = "select" /\ ring # <<>> =>
    wake \/ waking # {}

(* A handler that meets the end of its channel has the whole request: as   *)
(* long as the actor runs, the end comes last, once, and at the end of the *)
(* request, behind every byte the handler has not read yet, in order.      *)
Contiguous(n, chunks) ==
  \A i \in DOMAIN chunks :
    chunks[i].off = IF i = 1 THEN n ELSE chunks[i - 1].off + chunks[i - 1].len

EndAfterAll ==
  \A s \in Streams : \A i \in DOMAIN chan[s] :
    pc # "done" /\ chan[s][i].len = 0 =>
      /\ i = Len(chan[s])
      /\ chan[s][i].off = Size
      /\ Contiguous(got[s], chan[s])

(* The response of a stream that the client has not reset finds the stream *)
(* still in the table: cleaning up never overtakes a handler.              *)
NoResponseDropped == dropped \subseteq reset

(* A request that has been sent is answered, unless the client resets it   *)
(* or the connection closes.                                               *)
Answered ==
  \A s \in Streams : sent[s] = Size ~> s \in answered \cup reset \/ closed

(* A connection that closes, whoever closed it, ends its actor. *)
CloseEndsActor == closed ~> pc = "done"
=============================================================================
