------------------------------ MODULE Transfer ------------------------------
(***************************************************************************)
(* Two QUIC::Connection objects exchanging stream data in the 1-RTT space  *)
(* (src/src/quic/connection.cr: stream_write, send, recv, handle_frame,    *)
(* tick, queue_lost_frames, cleanup_done_streams) over a network that      *)
(* loses, reorders and, where Duplicates holds, duplicates packets.        *)
(*                                                                         *)
(* A packet of the model carries one frame; a packet of the code with      *)
(* several frames is several packets here, whose losses are independent.   *)
(* A packet number is a name: ACKs and the table of sent packets use it    *)
(* for equality only, so a number nobody holds any more is used again.     *)
(* ACKs travel on their own, one per acknowledged number (acks); their     *)
(* packets are never acknowledged, and their numbers are left out.  Timers *)
(* fire at any time: a loss may be declared of a packet that is still      *)
(* under way.                                                              *)
(***************************************************************************)
EXTENDS Stream, FiniteSets

CONSTANTS
  Streams,          \* the stream ids: bidirectional, opened by the client
  Writers,          \* the endpoints whose application writes
  Closers,          \* the endpoints whose application ends its side
  Timed,            \* the endpoints whose owner calls tick: the server's
                    \* ConnectionActor does, H3::Client does not
  MaxWrite,         \* bytes each application writes to a stream (bound)
  Budget,           \* stream_budget: bytes of stream data in a packet
  Cwnd,             \* congestion_window of each endpoint, in packets
  InitialMaxData,   \* initial_max_data of each endpoint
  InitialMaxStream, \* initial_max_stream_data_* of both endpoints
  Increment,        \* 1 MiB in the code: what a *_BLOCKED frame is worth
  MaxCredit,        \* bound on the connection limit an endpoint grants
  MaxStreamCredit,  \* bound on the limit it grants a stream
  Pn,               \* packet numbers of each endpoint (bounds the packets
                    \* of it that are held anywhere)
  Duplicates        \* may the network deliver a packet twice?

Endpoint == {"client", "server"}

Peer(e) == IF e = "client" THEN "server" ELSE "client"

ASSUME TransferAssumption ==
  /\ MaxWrite \in [Endpoint -> Nat] /\ Cwnd \in [Endpoint -> Nat]
  /\ InitialMaxData \in [Endpoint -> Nat]
  /\ Budget \in Nat /\ InitialMaxStream \in Nat
  /\ Increment \in Nat /\ MaxCredit \in Nat /\ MaxStreamCredit \in Nat
  /\ \A e \in Endpoint : InitialMaxData[e] <= MaxCredit
  /\ InitialMaxStream <= MaxStreamCredit
  /\ Writers \subseteq Endpoint /\ Closers \subseteq Endpoint
  /\ Timed \subseteq Endpoint
  /\ Duplicates \in BOOLEAN

VARIABLES
  strm,             \* @streams; a stream that is not in the table is Idle
  data_sent,        \* @data_sent
  data_received,    \* @data_received
  max_data_remote,  \* @max_data_remote
  max_data_local,   \* @max_data_local
  pending_max_data, \* @pending_max_data
  pending_max_stream_data, \* @pending_max_stream_data
  pending_ack,      \* @space_app.pending_ack
  received_pns,     \* @space_app.received_pns, as a set ...
  pn_twice,         \* ... and whether it holds some number twice
  sent,             \* @recovery.@sent_packets
  lost,             \* @lost_frames
  closed,           \* @closed, and why
  net,              \* packets under way
  acks,             \* acknowledged numbers under way to each endpoint
  written,          \* bytes the application has written (history)
  finished,         \* has the application ended its side? (history)
  delivered         \* bytes handed to the application (history)

connVars == <<data_sent, data_received, max_data_remote, max_data_local>>
pendVars == <<pending_max_data, pending_max_stream_data>>
ackVars  == <<pending_ack, received_pns, pn_twice>>
appVars  == <<written, finished, delivered>>
vars == <<strm, connVars, pendVars, ackVars, sent, lost, closed, net, acks,
          appVars>>

-----------------------------------------------------------------------------
StreamFrame ==
  [kind: {"stream"}, id: Streams, off: Nat, len: Nat, fin: BOOLEAN]
MaxDataFrame           == [kind: {"max_data"}, max: Nat]
MaxStreamDataFrame     == [kind: {"max_stream_data"}, id: Streams, max: Nat]
DataBlockedFrame       == [kind: {"data_blocked"}]
StreamDataBlockedFrame == [kind: {"stream_data_blocked"}, id: Streams]

(* What queue_lost_frames keeps of a lost packet. *)
Requeued == StreamFrame \cup MaxDataFrame \cup MaxStreamDataFrame

Frame == Requeued \cup DataBlockedFrame \cup StreamDataBlockedFrame

Numbers == UNION {Pn[e] : e \in Endpoint}

Packet == [src: Endpoint, pn: Numbers, frame: Frame]

CloseReason == {"open", "flow_control", "protocol_violation", "peer"}

Fresh == NewStream(InitialMaxStream, InitialMaxStream)

Init ==
  /\ strm = [e \in Endpoint |-> [s \in Streams |-> Fresh]]
  /\ data_sent       = [e \in Endpoint |-> 0]
  /\ data_received   = [e \in Endpoint |-> 0]
  /\ max_data_remote = [e \in Endpoint |-> InitialMaxData[Peer(e)]]
  /\ max_data_local  = InitialMaxData
  /\ pending_max_data        = [e \in Endpoint |-> FALSE]
  /\ pending_max_stream_data = [e \in Endpoint |-> {}]
  /\ pending_ack  = [e \in Endpoint |-> FALSE]
  /\ received_pns = [e \in Endpoint |-> {}]
  /\ pn_twice     = [e \in Endpoint |-> FALSE]
  /\ sent   = [e \in Endpoint |-> {}]
  /\ lost   = [e \in Endpoint |-> {}]
  /\ closed = [e \in Endpoint |-> "open"]
  /\ net    = {}
  /\ acks   = [e \in Endpoint |-> {}]
  /\ written   = [e \in Endpoint |-> [s \in Streams |-> 0]]
  /\ finished  = [e \in Endpoint |-> [s \in Streams |-> FALSE]]
  /\ delivered = [e \in Endpoint |-> [s \in Streams |-> 0]]

-----------------------------------------------------------------------------
(* The application.  The server knows a stream once the client has used it. *)

Usable(e, s) ==
  /\ closed[e] = "open"
  /\ ~finished[e][s]
  /\ e = "client" \/ strm[e][s].state # "Idle"

StreamWrite(e, s) ==
  /\ Usable(e, s)
  /\ e \in Writers
  /\ \E n \in 1 .. (MaxWrite[e] - written[e][s]) :
       /\ strm' = [strm EXCEPT ![e][s] = Write(@, n)]
       /\ written' = [written EXCEPT ![e][s] = @ + n]
  /\ UNCHANGED <<connVars, pendVars, ackVars, sent, lost, closed, net, acks,
                 finished, delivered>>

(* close_local has no effect on an Idle stream: applications write first   *)
(* (the client) or were handed the stream (the server).                    *)
StreamClose(e, s) ==
  /\ Usable(e, s)
  /\ e \in Closers
  /\ strm[e][s].state # "Idle"
  /\ strm' = [strm EXCEPT ![e][s] = CloseLocal(@)]
  /\ finished' = [finished EXCEPT ![e][s] = TRUE]
  /\ UNCHANGED <<connVars, pendVars, ackVars, sent, lost, closed, net, acks,
                 written, delivered>>

-----------------------------------------------------------------------------
(* Sending: one call of send is a series of these steps. *)

CanSend(e) == Cardinality(sent[e]) < Cwnd[e]

(* Packet numbers of e that nobody holds. *)
FreePn(e) ==
  {n \in Pn[e] : /\ \A p \in sent[e] : p.pn # n
                 /\ \A p \in net : p.src = e => p.pn # n
                 /\ n \notin received_pns[Peer(e)]
                 /\ n \notin acks[e]}

(* The ACK builder subtracts 2 from a difference that is 0 when a packet   *)
(* number was received twice: UInt64 underflow.  send raises, and leaves   *)
(* the numbers for the next call to trip over.                             *)
AckRaises(e) == pending_ack[e] /\ pn_twice[e]

(* Every frame but an ACK is ack-eliciting: its packet is remembered. *)
Emit(e, frame) ==
  LET pkt == [src |-> e, pn |-> CHOOSE n \in FreePn(e) : TRUE,
              frame |-> frame]
  IN /\ closed[e] = "open"
     /\ ~AckRaises(e)
     /\ FreePn(e) # {}
     /\ net' = net \cup {pkt}
     /\ sent' = [sent EXCEPT ![e] = @ \cup {pkt}]

(* send builds a packet only if one of these is due; limits to announce    *)
(* are not among them and ride on it, if the window is open.               *)
SendDue(e) ==
  \/ pending_ack[e]
  \/ lost[e] # {}
  \/ \E s \in Streams : HasSendData(strm[e][s])

LimitsDue(e) ==
  CanSend(e) /\ (pending_max_data[e] \/ pending_max_stream_data[e] # {})

(* Faulty variant: announces a limit that is not granted yet. *)
SendMaxDataAhead(e) ==
  /\ SendDue(e) /\ CanSend(e)
  /\ pending_max_data[e]
  /\ Emit(e, [kind |-> "max_data", max |-> max_data_local[e] + Increment])
  /\ pending_max_data' = [pending_max_data EXCEPT ![e] = FALSE]
  /\ UNCHANGED <<strm, connVars, pending_max_stream_data, ackVars, lost,
                 closed, acks, appVars>>

SendMaxData(e) ==
  /\ SendDue(e) /\ CanSend(e)
  /\ pending_max_data[e]
  /\ Emit(e, [kind |-> "max_data", max |-> max_data_local[e]])
  /\ pending_max_data' = [pending_max_data EXCEPT ![e] = FALSE]
  /\ UNCHANGED <<strm, connVars, pending_max_stream_data, ackVars, lost,
                 closed, acks, appVars>>

SendMaxStreamData(e, s) ==
  /\ SendDue(e) /\ CanSend(e)
  /\ s \in pending_max_stream_data[e]
  /\ pending_max_stream_data' =
       [pending_max_stream_data EXCEPT ![e] = @ \ {s}]
  /\ \/ /\ strm[e][s].state # "Idle"
        /\ Emit(e, [kind |-> "max_stream_data", id |-> s,
                    max |-> strm[e][s].max_local])
     \/ /\ strm[e][s].state = "Idle"
        /\ UNCHANGED <<net, sent>>
  /\ UNCHANGED <<strm, connVars, pending_max_data, ackVars, lost, closed,
                 acks, appVars>>

ConnAvailable(e) ==
  IF max_data_remote[e] > data_sent[e]
    THEN max_data_remote[e] - data_sent[e] ELSE 0

(* New data of one stream. *)
SendStream(e, s) ==
  LET st  == strm[e][s]
      len == PollLen(st, Budget, ConnAvailable(e))
      fin == PollFin(st, len)
  IN /\ CanSend(e) /\ ~LimitsDue(e)
     /\ HasSendData(st)
     /\ len > 0 \/ fin
     /\ Emit(e, [kind |-> "stream", id |-> s, off |-> st.tx, len |-> len,
                 fin |-> fin])
     /\ strm' = [strm EXCEPT ![e][s] = AfterPoll(@, len)]
     /\ data_sent' = [data_sent EXCEPT ![e] = @ + len]
     /\ UNCHANGED <<data_received, max_data_remote, max_data_local, pendVars,
                    ackVars, lost, closed, acks, appVars>>

(* A limit, or only the packet budget, holds back bytes of the stream. *)
SendBlocked(e, s) ==
  LET st     == strm[e][s]
      reason == BlockedReason(st, PollLen(st, Budget, ConnAvailable(e)),
                              ConnAvailable(e))
  IN /\ CanSend(e) /\ ~LimitsDue(e)
     /\ HasSendData(st)
     /\ \/ reason = "connection" /\ Emit(e, [kind |-> "data_blocked"])
        \/ reason = "stream" /\ Emit(e, [kind |-> "stream_data_blocked",
                                         id |-> s])
     /\ UNCHANGED <<strm, connVars, pendVars, ackVars, lost, closed, acks,
                    appVars>>

(* Faulty variant: the frame is sent but its packet not remembered. *)
SendLostOnce(e, f) ==
  /\ ~LimitsDue(e)
  /\ closed[e] = "open" /\ ~AckRaises(e) /\ FreePn(e) # {}
  /\ net' = net \cup {[src |-> e, pn |-> CHOOSE n \in FreePn(e) : TRUE,
                       frame |-> f]}
  /\ lost' = [lost EXCEPT ![e] = @ \ {f}]
  /\ UNCHANGED <<strm, connVars, pendVars, ackVars, sent, closed, acks,
                 appVars>>

(* A frame of the retransmission queue; the congestion window is bypassed. *)
SendLost(e, f) ==
  /\ ~LimitsDue(e)
  /\ Emit(e, f)
  /\ lost' = [lost EXCEPT ![e] = @ \ {f}]
  /\ UNCHANGED <<strm, connVars, pendVars, ackVars, closed, acks, appVars>>

SendAck(e) ==
  /\ closed[e] = "open"
  /\ pending_ack[e] /\ ~AckRaises(e)
  /\ ~LimitsDue(e)
  /\ acks' = [acks EXCEPT ![Peer(e)] = @ \cup received_pns[e]]
  /\ pending_ack'  = [pending_ack EXCEPT ![e] = FALSE]
  /\ received_pns' = [received_pns EXCEPT ![e] = {}]
  /\ UNCHANGED <<strm, connVars, pendVars, pn_twice, sent, lost, closed, net,
                 appVars>>

-----------------------------------------------------------------------------
(* Receiving: recv_packet notes the number, handle_frame does the rest. *)

NotePacket(e, p) ==
  /\ p \in net /\ p.src = Peer(e)
  /\ closed[e] = "open"
  /\ \/ net' = net \ {p}
     \/ Duplicates /\ net' = net
  /\ received_pns' = [received_pns EXCEPT ![e] = @ \cup {p.pn}]
  /\ pn_twice' = [pn_twice EXCEPT ![e] = @ \/ p.pn \in received_pns[e]]

(* The bytes of the frame are counted against the connection's limit even  *)
(* if the stream has them already.                                         *)
TooMuchData(e, f) == data_received[e] + f.len > max_data_local[e]

(* What the stream may be after receive_data and set_fin_offset. *)
StreamOutcomes(st, f) ==
  { IF f.fin THEN SetFinOffset(x, f.off + f.len) ELSE x :
        x \in ReceiveData(st, f.off, f.len) }

(* After every packet the server's actor, having handed the bytes to the   *)
(* application (forward_stream_data), drops the streams that are done      *)
(* (cleanup_done_streams); the client keeps its table.                     *)
Cleanup(e, table) ==
  [s \in Streams |->
     IF e = "server" /\ FullyDone(table[s]) THEN Fresh ELSE table[s]]

(* e's stream s has become st. *)
StreamUpdate(e, s, st) ==
  strm' = [strm EXCEPT ![e] = Cleanup(e, [strm[e] EXCEPT ![s] = st])]

NoStreamUpdate(e) == strm' = [strm EXCEPT ![e] = Cleanup(e, strm[e])]

ReceiveStream(e, p) ==
  LET f == p.frame IN
  /\ f.kind = "stream"
  /\ NotePacket(e, p)
  /\ ~TooMuchData(e, f)
  /\ ~ExceedsLimit(strm[e][f.id], f.off, f.len)
  /\ \E st \in StreamOutcomes(strm[e][f.id], f) :
       /\ StreamUpdate(e, f.id, st)
       /\ delivered' = [delivered EXCEPT ![e][f.id] =
                          @ + (st.rx - strm[e][f.id].rx)]
  /\ data_received' = [data_received EXCEPT ![e] = @ + f.len]
  /\ pending_ack' = [pending_ack EXCEPT ![e] = TRUE]
  /\ UNCHANGED <<data_sent, max_data_remote, max_data_local, pendVars, sent,
                 lost, closed, acks, written, finished>>

(* The frame makes handle_frame close the connection: before its bytes are *)
(* counted, or after (receive_data raises, and recv closes).               *)
RefuseStream(e, p) ==
  LET f == p.frame IN
  /\ f.kind = "stream"
  /\ NotePacket(e, p)
  /\ \/ /\ TooMuchData(e, f)
        /\ closed' = [closed EXCEPT ![e] = "flow_control"]
        /\ pending_ack' = [pending_ack EXCEPT ![e] = TRUE]
        /\ UNCHANGED <<strm, data_received>>
     \/ /\ ~TooMuchData(e, f)
        /\ ExceedsLimit(strm[e][f.id], f.off, f.len)
        /\ closed' = [closed EXCEPT ![e] = "protocol_violation"]
        /\ strm' = [strm EXCEPT ![e][f.id] = Opened(@)]
        /\ data_received' = [data_received EXCEPT ![e] = @ + f.len]
        /\ UNCHANGED pending_ack
  /\ UNCHANGED <<data_sent, max_data_remote, max_data_local, pendVars,
                 sent, lost, acks, appVars>>

(* A connection that closed itself says so once (send, with @closed and    *)
(* not @close_sent); the frame may be lost.                                *)
ReceiveConnectionClose(e) ==
  /\ closed[e] = "open"
  /\ closed[Peer(e)] \in {"flow_control", "protocol_violation"}
  /\ closed' = [closed EXCEPT ![e] = "peer"]
  /\ UNCHANGED <<strm, connVars, pendVars, ackVars, sent, lost, net, acks,
                 appVars>>

ReceiveMaxData(e, p) ==
  /\ p.frame.kind = "max_data"
  /\ NotePacket(e, p)
  /\ max_data_remote' = [max_data_remote EXCEPT ![e] =
                           IF p.frame.max > @ THEN p.frame.max ELSE @]
  /\ NoStreamUpdate(e)
  /\ pending_ack' = [pending_ack EXCEPT ![e] = TRUE]
  /\ UNCHANGED <<data_sent, data_received, max_data_local, pendVars,
                 sent, lost, closed, acks, appVars>>

(* Only a stream of the table takes notice. *)
Announced(st, max) ==
  IF st.state = "Idle" THEN st ELSE UpdateMaxStreamData(st, max)

ReceiveMaxStreamData(e, p) ==
  LET f == p.frame IN
  /\ f.kind = "max_stream_data"
  /\ NotePacket(e, p)
  /\ StreamUpdate(e, f.id, Announced(strm[e][f.id], f.max))
  /\ pending_ack' = [pending_ack EXCEPT ![e] = TRUE]
  /\ UNCHANGED <<connVars, pendVars, sent, lost, closed, acks, appVars>>

(* A report of being blocked raises the limit by a fixed amount (the model *)
(* stops at a bound) and has it announced.                                 *)
Raised(max, bound) == Smaller(max + Increment, bound)

ReceiveDataBlocked(e, p) ==
  /\ p.frame.kind = "data_blocked"
  /\ NotePacket(e, p)
  /\ max_data_local' = [max_data_local EXCEPT ![e] = Raised(@, MaxCredit)]
  /\ pending_max_data' = [pending_max_data EXCEPT ![e] = TRUE]
  /\ pending_ack' = [pending_ack EXCEPT ![e] = TRUE]
  /\ NoStreamUpdate(e)
  /\ UNCHANGED <<data_sent, data_received, max_data_remote,
                 pending_max_stream_data, sent, lost, closed, acks, appVars>>

Extended(st) ==
  UpdateMaxStreamDataLocal(st, Raised(st.max_local, MaxStreamCredit))

ReceiveStreamDataBlocked(e, p) ==
  LET s == p.frame.id IN
  /\ p.frame.kind = "stream_data_blocked"
  /\ NotePacket(e, p)
  /\ \/ /\ strm[e][s].state # "Idle"
        /\ StreamUpdate(e, s, Extended(strm[e][s]))
        /\ pending_max_stream_data' =
             [pending_max_stream_data EXCEPT ![e] = @ \cup {s}]
     \/ /\ strm[e][s].state = "Idle"
        /\ NoStreamUpdate(e)
        /\ UNCHANGED pending_max_stream_data
  /\ pending_ack' = [pending_ack EXCEPT ![e] = TRUE]
  /\ UNCHANGED <<connVars, pending_max_data, sent, lost, closed, acks,
                 appVars>>

ReceiveAck(e, n) ==
  /\ n \in acks[e]
  /\ closed[e] = "open"
  /\ \/ acks' = [acks EXCEPT ![e] = @ \ {n}]
     \/ Duplicates /\ acks' = acks
  /\ sent' = [sent EXCEPT ![e] = {p \in @ : p.pn # n}]
  /\ NoStreamUpdate(e)
  /\ UNCHANGED <<connVars, pendVars, ackVars, lost, closed, net,
                 appVars>>

-----------------------------------------------------------------------------
(* tick.  The loss alarm gives up one packet that was sent before one that *)
(* is acknowledged; the probe timeout gives up all of them.                *)

(* Faulty variant: every frame is queued. *)
RequeuedAll(ps) == {p.frame : p \in ps}

RequeuedFrames(ps) == {p.frame : p \in ps} \cap Requeued

DeclareLost(e, ps) ==
  /\ closed[e] = "open"
  /\ ps # {}
  /\ sent' = [sent EXCEPT ![e] = @ \ ps]
  /\ lost' = [lost EXCEPT ![e] = @ \cup RequeuedFrames(ps)]
  /\ UNCHANGED <<strm, connVars, pendVars, ackVars, closed, net, acks,
                 appVars>>

LossAlarm(e) == e \in Timed /\ \E p \in sent[e] : DeclareLost(e, {p})

ProbeTimeout(e) == e \in Timed /\ DeclareLost(e, sent[e])

(* The network. *)
DropPacket(p) ==
  /\ net' = net \ {p}
  /\ UNCHANGED <<strm, connVars, pendVars, ackVars, sent, lost, closed, acks,
                 appVars>>

DropAck(e, n) ==
  /\ acks' = [acks EXCEPT ![e] = @ \ {n}]
  /\ UNCHANGED <<strm, connVars, pendVars, ackVars, sent, lost, closed, net,
                 appVars>>

Receive(e, p) ==
  \/ ReceiveStream(e, p)
  \/ RefuseStream(e, p)
  \/ ReceiveMaxData(e, p)
  \/ ReceiveMaxStreamData(e, p)
  \/ ReceiveDataBlocked(e, p)
  \/ ReceiveStreamDataBlocked(e, p)

Next ==
  \E e \in Endpoint :
    \/ \E s \in Streams : \/ StreamWrite(e, s)
                          \/ StreamClose(e, s)
                          \/ SendStream(e, s)
                          \/ SendBlocked(e, s)
                          \/ SendMaxStreamData(e, s)
    \/ SendMaxData(e)
    \/ \E f \in lost[e] : SendLost(e, f)
    \/ SendAck(e)
    \/ \E p \in net : Receive(e, p)
    \/ ReceiveConnectionClose(e)
    \/ \E n \in acks[e] : ReceiveAck(e, n)
    \/ LossAlarm(e)
    \/ ProbeTimeout(e)
    \/ \E p \in net : DropPacket(p)
    \/ \E n \in acks[e] : DropAck(e, n)

Spec == Init /\ [][Next]_vars

(* Fairness, for the senders whose owner calls tick.  flush_outgoing runs  *)
(* after every event and every tick and calls send until nothing is left   *)
(* to send, so what can be sent again and again is sent, and the           *)
(* retransmission queue is first in, first out, so each of its frames gets *)
(* its turn.  The timeout arm of the actor starts over with every packet,  *)
(* so the probe timer is sure to fire only while the peer is quiet.  Of    *)
(* the peer, which may have no timer at all (H3::Client), only the sends   *)
(* that follow a recv are assumed.                                         *)
StreamFrameAt(f, s, off) == f.kind = "stream" /\ f.id = s /\ f.off = off

SendStreamAt(e, s, off) ==
  \/ strm[e][s].tx = off /\ SendStream(e, s)
  \/ \E f \in lost[e] : StreamFrameAt(f, s, off) /\ SendLost(e, f)

SendLimits(e) == SendMaxData(e) \/ \E s \in Streams : SendMaxStreamData(e, s)

QuietTimeout(e) ==
  /\ acks[e] = {}
  /\ \A p \in net : p.src = e
  /\ ProbeTimeout(e)

EndpointFairness ==
  \A e \in Writers \cap Timed :
    /\ WF_vars(QuietTimeout(e))
    /\ WF_vars(SendAck(Peer(e)))
    /\ WF_vars(SendLimits(Peer(e)))
    /\ \A s \in Streams :
         /\ WF_vars(SendBlocked(e, s))
         /\ \A off \in 0 .. MaxWrite[e] : SF_vars(SendStreamAt(e, s, off))

(* The network keeps nothing for ever, and does not lose every copy of a   *)
(* frame that is sent again and again.                                     *)
ReceiveStreamAt(e, s, off) ==
  \E p \in net : StreamFrameAt(p.frame, s, off) /\ Receive(e, p)

ReceiveKind(e, kinds) == \E p \in net : p.frame.kind \in kinds /\ Receive(e, p)

LeaveNet(e, n) ==
  \E p \in net : p.src = e /\ p.pn = n /\ (Receive(Peer(e), p) \/ DropPacket(p))

LeaveAcks(e) == \E n \in acks[e] : ReceiveAck(e, n) \/ DropAck(e, n)

NetworkFairness ==
  \A e \in Writers \cap Timed :
    /\ WF_vars(LeaveAcks(e))
    /\ \A n \in Pn[Peer(e)] : WF_vars(LeaveNet(Peer(e), n))
    /\ SF_vars(ReceiveKind(Peer(e), {"data_blocked", "stream_data_blocked"}))
    /\ SF_vars(ReceiveKind(e, {"max_data", "max_stream_data"}))
    /\ \A s \in Streams, off \in 0 .. MaxWrite[e] :
         SF_vars(ReceiveStreamAt(Peer(e), s, off))

FairSpec == Spec /\ EndpointFairness /\ NetworkFairness

-----------------------------------------------------------------------------
(* Type invariant. *)
TypeOK ==
  /\ strm \in [Endpoint -> [Streams -> StreamRecord]]
  /\ data_sent \in [Endpoint -> Nat]
  /\ data_received \in [Endpoint -> Nat]
  /\ max_data_remote \in [Endpoint -> Nat]
  /\ max_data_local \in [Endpoint -> Nat]
  /\ pending_max_data \in [Endpoint -> BOOLEAN]
  /\ pending_max_stream_data \in [Endpoint -> SUBSET Streams]
  /\ pending_ack \in [Endpoint -> BOOLEAN]
  /\ received_pns \in [Endpoint -> SUBSET Numbers]
  /\ pn_twice \in [Endpoint -> BOOLEAN]
  /\ sent \in [Endpoint -> SUBSET Packet]
  /\ lost \in [Endpoint -> SUBSET Requeued]
  /\ closed \in [Endpoint -> CloseReason]
  /\ net \in SUBSET Packet
  /\ acks \in [Endpoint -> SUBSET Numbers]
  /\ written \in [Endpoint -> [Streams -> Nat]]
  /\ finished \in [Endpoint -> [Streams -> BOOLEAN]]
  /\ delivered \in [Endpoint -> [Streams -> Nat]]

(* The receiving half of a stream is over. *)
AtEnd(st) == st.state \in {"HalfClosedRemote", "Closed"}

(* A stream reports the end of the peer's data (check_fin_ready) only when *)
(* the peer has ended its side and every byte it wrote has been received,  *)
(* whatever was lost, reordered, repeated or given up too early.           *)
EofMeansAll ==
  \A e \in Endpoint, s \in Streams :
    AtEnd(strm[e][s]) =>
      /\ finished[Peer(e)][s]
      /\ strm[e][s].rx = written[Peer(e)][s]

(* May the server have dropped the stream (cleanup_done_streams), and its  *)
(* limits with it?                                                         *)
MayForget(e, s) ==
  e = "server" /\ finished["client"][s] /\ finished["server"][s]

(* No byte and no end is forgotten: as long as the reader's connection is  *)
(* open, every byte an application wrote is waiting in the send buffer, in *)
(* a packet the recovery still tracks, in the retransmission queue,        *)
(* buffered out of order at the peer, or handed over; and the end of a     *)
(* stream is still to be sent, in a tracked packet, in the retransmission  *)
(* queue, or known to the peer.  An acknowledgement, a loss alarm or a     *)
(* probe timeout that drops the last copy would break it.                  *)
Carries(f, s, b) ==
  f.kind = "stream" /\ f.id = s /\ f.off <= b /\ b < f.off + f.len

CarriesEnd(f, s) == f.kind = "stream" /\ f.id = s /\ f.fin

EndKnown(e, s) ==
  strm[e][s].fin # NoFin \/ AtEnd(strm[e][s]) \/ MayForget(e, s)

BytesKept(e, s) ==
  \A b \in 0 .. (written[e][s] - 1) :
    \/ strm[e][s].tx <= b /\ b < strm[e][s].size
    \/ \E p \in sent[e] : Carries(p.frame, s, b)
    \/ \E f \in lost[e] : Carries(f, s, b)
    \/ Covered(strm[Peer(e)][s].ooo, b)
    \/ b < delivered[Peer(e)][s]

EndKept(e, s) ==
  finished[e][s] =>
    \/ ShouldSendFin(strm[e][s]) /\ ~strm[e][s].fin_sent
    \/ \E p \in sent[e] : CarriesEnd(p.frame, s)
    \/ \E f \in lost[e] : CarriesEnd(f, s)
    \/ EndKnown(Peer(e), s)

NothingForgotten ==
  \A e \in Endpoint, s \in Streams :
    closed[Peer(e)] = "open" => BytesKept(e, s) /\ EndKept(e, s)

(* A sender's view of its credit, however late the announcements arrive,   *)
(* never exceeds what the receiver enforces, so that a stream's limit is   *)
(* never exceeded (receive_data raises ProtocolViolation otherwise): but   *)
(* for a late frame of a stream that the server has dropped, and that      *)
(* starts again with the limits of a new one.                              *)
WithinCredit ==
  \A e \in Endpoint :
    /\ max_data_remote[e] <= max_data_local[Peer(e)]
    /\ \A s \in Streams :
         \/ strm[e][s].max_remote <= strm[Peer(e)][s].max_local
         \/ MayForget(Peer(e), s)
    /\ closed[e] = "protocol_violation" =>
         \E s \in Streams : MayForget(e, s)

(* A byte is handed to an application a second time, by a repeated or      *)
(* spuriously retransmitted STREAM frame that starts the stream over, only *)
(* after both sides have ended the stream and the server has dropped it    *)
(* (cleanup_done_streams); the client never drops one.                     *)
AgainOnlyWhenDone ==
  \A e \in Endpoint, s \in Streams :
    delivered[e][s] > written[Peer(e)][s] => MayForget(e, s)

(* The endpoints implement the abstract byte stream: what a reader has of  *)
(* a stream is what the stream's buffer holds in sequence, and the server  *)
(* is the one that drops streams.                                          *)
Bytes == INSTANCE ByteStream WITH
  End <- Endpoint, Id <- Streams, Other <- Peer, Droppers <- {"server"},
  delivered <- [e \in Endpoint |-> [s \in Streams |-> strm[e][s].rx]],
  eof <- [e \in Endpoint |-> [s \in Streams |->
            strm[e][s].state \in {"HalfClosedRemote", "Closed"}]]

ImplementsByteStream == Bytes!Spec

(* Once an application whose connection has a timer has ended its side,    *)
(* the peer sees the end of the stream (having all of it, by EofMeansAll), *)
(* or a connection closes: a sender out of credit and a receiver whose     *)
(* announcement or whose peer's report was lost do not wait for each       *)
(* other.  The peer must not have filled its own window with packets that  *)
(* are never acknowledged: without a timer (H3::Client) it gives none of   *)
(* them up, and announces no limits once can_send? is false.               *)
EndIsSeen ==
  \A e \in Closers \cap Timed, s \in Streams :
    []<>CanSend(Peer(e)) =>
      (finished[e][s] ~>
         \/ AtEnd(strm[Peer(e)][s])
         \/ \E x \in Endpoint : closed[x] # "open")
=============================================================================
