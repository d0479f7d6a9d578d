--------------------------- MODULE TransferProofs ---------------------------
(***************************************************************************)
(* Proofs about module Transfer, for every number of streams, every limit, *)
(* window and budget, and any set of packet numbers.                       *)
(* First the types and the end of the data; then, from the same inductive  *)
(* invariant, that the two connections implement the abstract byte stream, *)
(* that no byte is forgotten, that none is handed over twice before both   *)
(* sides are over, and that no sender exceeds its credit.                  *)
(***************************************************************************)
EXTENDS Transfer, TLAPS

-----------------------------------------------------------------------------
(* Types of what the actions are built from. *)

(* The other endpoint is an endpoint, and its other endpoint is this one. *)
LEMMA PeerType ==
  \A e \in Endpoint : Peer(e) \in Endpoint /\ Peer(Peer(e)) = e /\ Peer(e) # e
BY DEF Endpoint, Peer

(* The kind of a frame tells which record it is. *)
LEMMA FrameKinds ==
  \A f \in Frame :
    /\ f.kind = "stream" => f \in StreamFrame
    /\ f.kind = "max_data" => f \in MaxDataFrame
    /\ f.kind = "max_stream_data" => f \in MaxStreamDataFrame
    /\ f.kind = "stream_data_blocked" => f \in StreamDataBlockedFrame
BY DEF Frame, Requeued, StreamFrame, MaxDataFrame, MaxStreamDataFrame,
       DataBlockedFrame, StreamDataBlockedFrame

(* Stream.new *)
LEMMA FreshType == Fresh \in StreamRecord
BY TransferAssumption
   DEF Fresh, NewStream, StreamRecord, StreamState, NoFin

(* The operations of a stream keep its type. *)
LEMMA StreamTypes ==
  ASSUME NEW st \in StreamRecord
  PROVE  /\ Opened(st) \in StreamRecord
         /\ CloseLocal(st) \in StreamRecord
         /\ CloseRemote(st) \in StreamRecord
         /\ CheckFinReady(st) \in StreamRecord
         /\ \A n \in Nat : /\ Write(st, n) \in StreamRecord
                           /\ AfterPoll(st, n) \in StreamRecord
                           /\ UpdateMaxStreamData(st, n) \in StreamRecord
                           /\ UpdateMaxStreamDataLocal(st, n) \in StreamRecord
                           /\ SetFinOffset(st, n) \in StreamRecord
<1>1. Opened(st) \in StreamRecord
  BY DEF Opened, StreamRecord, StreamState
<1>2. CloseLocal(st) \in StreamRecord
  BY DEF CloseLocal, StreamRecord, StreamState
<1>3. ASSUME NEW x \in StreamRecord
      PROVE  CloseRemote(x) \in StreamRecord
  BY DEF CloseRemote, StreamRecord, StreamState
<1>4. ASSUME NEW x \in StreamRecord
      PROVE  CheckFinReady(x) \in StreamRecord
  BY <1>3 DEF CheckFinReady, StreamRecord, NoFin
<1>5. ASSUME NEW n \in Nat
      PROVE  /\ Write(st, n) \in StreamRecord
             /\ AfterPoll(st, n) \in StreamRecord
             /\ UpdateMaxStreamData(st, n) \in StreamRecord
             /\ UpdateMaxStreamDataLocal(st, n) \in StreamRecord
             /\ SetFinOffset(st, n) \in StreamRecord
  <2>1. Write(st, n) \in StreamRecord
    BY <1>1 DEF Write, StreamRecord
  <2>2. [st EXCEPT !.tx = @ + n] \in StreamRecord
    BY DEF StreamRecord
  <2>3. AfterPoll(st, n) \in StreamRecord
    <3> DEFINE taken == [st EXCEPT !.tx = @ + n]
    <3> HIDE DEF taken
    <3>1. taken \in StreamRecord
      BY <2>2 DEF taken
    <3>2. [taken EXCEPT !.fin_sent = TRUE] \in StreamRecord
      BY <3>1 DEF StreamRecord
    <3> QED BY <3>1, <3>2 DEF AfterPoll, taken
  <2>4. UpdateMaxStreamData(st, n) \in StreamRecord
    BY DEF UpdateMaxStreamData, StreamRecord
  <2>5. UpdateMaxStreamDataLocal(st, n) \in StreamRecord
    BY DEF UpdateMaxStreamDataLocal, StreamRecord
  <2>6. [st EXCEPT !.fin = IF @ = NoFin \/ n < @ THEN n ELSE @]
          \in StreamRecord
    BY DEF StreamRecord, NoFin
  <2>7. SetFinOffset(st, n) \in StreamRecord
    BY <2>6, <1>4 DEF SetFinOffset
  <2> QED BY <2>1, <2>3, <2>4, <2>5, <2>7
<1> QED BY <1>1, <1>2, <1>3, <1>4, <1>5

(* Whatever receive_data and set_fin_offset make of a stream is a stream   *)
(* that has received no less, and whose sending half is as it was.         *)
LEMMA OutcomeType ==
  ASSUME NEW st \in StreamRecord, NEW f \in StreamFrame,
         NEW x \in StreamOutcomes(st, f)
  PROVE  /\ x \in StreamRecord
         /\ x.rx >= st.rx
         /\ x.tx = st.tx /\ x.size = st.size
<1> DEFINE Good(y) == /\ y \in StreamRecord
                      /\ y.rx >= st.rx
                      /\ y.tx = st.tx /\ y.size = st.size
<1>0. /\ Good(Opened(st))
      /\ f.off \in Nat /\ f.len \in Nat /\ f.off + f.len \in Nat
  BY StreamTypes DEF StreamFrame, Opened, StreamRecord
<1>1. ASSUME NEW y, Good(y)
      PROVE  Good(CheckFinReady(y))
  BY <1>1, StreamTypes, ZenonT(60) DEF CheckFinReady, CloseRemote, StreamRecord
<1>2. ASSUME NEW y, Good(y), NEW n \in Nat
      PROVE  Good(SetFinOffset(y, n))
  <2> DEFINE z == [y EXCEPT !.fin = IF @ = NoFin \/ n < @ THEN n ELSE @]
  <2>1. Good(z)
    BY <1>2 DEF StreamRecord, NoFin
  <2> HIDE DEF z
  <2>2. Good(CheckFinReady(z))
    BY <2>1, <1>1
  <2> QED BY <2>2 DEF SetFinOffset, z
<1>3. ASSUME NEW y \in InOrder(st, f.len)
      PROVE  Good(y)
  <2>1. PICK r \in (st.rx + f.len) .. st.max_local :
          y = CheckFinReady([Opened(st) EXCEPT
                !.rx = r, !.ooo = {g \in @ : g.off > r}])
    BY <1>3 DEF InOrder
  <2>2. r \in Nat /\ r >= st.rx
    BY <1>0 DEF StreamRecord
  <2>3. Good([Opened(st) EXCEPT !.rx = r, !.ooo = {g \in @ : g.off > r}])
    BY <1>0, <2>2 DEF StreamRecord
  <2> QED BY <2>1, <2>3, <1>1
<1>4. Good(OutOfOrder(st, f.off, f.len))
  <2>1. [off |-> f.off, len |-> f.len] \in Segment
    BY <1>0 DEF Segment
  <2> QED BY <1>0, <2>1 DEF OutOfOrder, StreamRecord
<1>5. PICK y \in ReceiveData(st, f.off, f.len) :
        x = IF f.fin THEN SetFinOffset(y, f.off + f.len) ELSE y
  BY DEF StreamOutcomes
<1>6. Good(y)
  BY <1>0, <1>3, <1>4, <1>5 DEF ReceiveData
<1>7. Good(x)
  BY <1>0, <1>2, <1>5, <1>6
<1> QED BY <1>7

(* cleanup_done_streams leaves a table of streams. *)
LEMMA CleanupType ==
  ASSUME NEW e \in Endpoint, NEW table \in [Streams -> StreamRecord]
  PROVE  Cleanup(e, table) \in [Streams -> StreamRecord]
BY FreshType DEF Cleanup

(* A packet that send emits is a packet, and takes a number nobody holds. *)
LEMMA EmitType ==
  ASSUME TypeOK, NEW e \in Endpoint, NEW frame \in Frame, Emit(e, frame)
  PROVE  \E n \in FreePn(e) :
           LET pkt == [src |-> e, pn |-> n, frame |-> frame]
           IN /\ pkt \in Packet
              /\ net' = net \cup {pkt}
              /\ sent' = [sent EXCEPT ![e] = @ \cup {pkt}]
              /\ net' \in SUBSET Packet
              /\ sent' \in [Endpoint -> SUBSET Packet]
<1> DEFINE n == CHOOSE m \in FreePn(e) : TRUE
<1>1. n \in FreePn(e)
  BY DEF Emit
<1> DEFINE pkt == [src |-> e, pn |-> n, frame |-> frame]
<1>2. net' = net \cup {pkt} /\ sent' = [sent EXCEPT ![e] = @ \cup {pkt}]
  BY DEF Emit
<1> HIDE DEF n
<1>3. pkt \in Packet
  <2>1. n \in Pn[e]
    BY <1>1 DEF FreePn
  <2>2. n \in Numbers
    BY <2>1 DEF Numbers
  <2> QED BY <2>2 DEF Packet
<1>4. net' \in SUBSET Packet /\ sent' \in [Endpoint -> SUBSET Packet]
  BY <1>2, <1>3 DEF TypeOK
<1> QED BY <1>1, <1>2, <1>3, <1>4

(* What recv_packet notes of a packet. *)
LEMMA NoteType ==
  ASSUME TypeOK, NEW e \in Endpoint, NEW p \in net, NotePacket(e, p)
  PROVE  /\ net' \in SUBSET Packet
         /\ received_pns' \in [Endpoint -> SUBSET Numbers]
         /\ pn_twice' \in [Endpoint -> BOOLEAN]
         /\ p \in Packet /\ p.frame \in Frame
<1>1. p \in Packet /\ p.frame \in Frame /\ p.pn \in Numbers
  BY DEF TypeOK, Packet
<1>2. net' \in SUBSET Packet /\ received_pns' \in [Endpoint -> SUBSET Numbers]
  BY <1>1 DEF TypeOK, NotePacket
<1>3. ASSUME NEW b \in BOOLEAN
      PROVE  [pn_twice EXCEPT ![e] = b] \in [Endpoint -> BOOLEAN]
  BY DEF TypeOK
<1>4. (pn_twice[e] \/ p.pn \in received_pns[e]) \in BOOLEAN
  OBVIOUS
<1>5. pn_twice' \in [Endpoint -> BOOLEAN]
  BY <1>3, <1>4, Zenon DEF NotePacket
<1> QED BY <1>1, <1>2, <1>5

(* Frames that queue_lost_frames keeps may be queued again. *)
LEMMA LostType ==
  ASSUME TypeOK, NEW e \in Endpoint, NEW ps \in SUBSET sent[e],
         DeclareLost(e, ps)
  PROVE  TypeOK'
<1>1. RequeuedFrames(ps) \subseteq Requeued
  BY DEF RequeuedFrames
<1> QED
  BY <1>1 DEF TypeOK, DeclareLost, connVars, pendVars, ackVars, appVars

-----------------------------------------------------------------------------
(* The inductive invariant behind EofMeansAll.  A stream at endpoint e:    *)
(* what was taken from the send buffer was in it, what is in it was        *)
(* written, and until the stream is dropped it is all that was written;    *)
(* what was received, buffered or announced as the end was written by the  *)
(* peer, and a receiving half that is over has all of it.                  *)
GoodStream(e, s, st) ==
  LET mine == written[e][s]
      theirs == written[Peer(e)][s]
      ended == finished[Peer(e)][s]
  IN /\ st.tx <= st.size
     /\ st.size <= mine
     /\ ~finished[e][s] => st.size = mine
     /\ ShouldSendFin(st) => finished[e][s] /\ st.size = mine
     /\ st.state # "Reset"
     /\ st.rx <= theirs
     /\ \A g \in st.ooo : g.off + g.len <= theirs
     /\ st.fin # NoFin => ended /\ st.fin = theirs
     /\ st.state \in {"HalfClosedRemote", "Closed"} =>
          ended /\ st.rx = theirs

(* A frame of e carries bytes that e has written, and a FIN only the last. *)
GoodFrame(e, f) ==
  f.kind = "stream" =>
    /\ f.off + f.len <= written[e][f.id]
    /\ f.fin => finished[e][f.id] /\ f.off + f.len = written[e][f.id]

StreamsOK == \A e \in Endpoint, s \in Streams : GoodStream(e, s, strm[e][s])

FramesOK ==
  /\ \A p \in net : GoodFrame(p.src, p.frame)
  /\ \A e \in Endpoint : /\ \A p \in sent[e] : GoodFrame(e, p.frame)
                         /\ \A f \in lost[e] : GoodFrame(e, f)

Content == StreamsOK /\ FramesOK

(* A higher limit leaves the rest of a stream alone. *)
LEMMA AnnouncedKeeps ==
  ASSUME NEW st \in StreamRecord, NEW max \in Nat
  PROVE  LET y == Announced(st, max)
         IN /\ y \in StreamRecord /\ y.state = st.state
            /\ y.size = st.size /\ y.tx = st.tx /\ y.fin_sent = st.fin_sent
            /\ y.rx = st.rx /\ y.ooo = st.ooo /\ y.fin = st.fin
            /\ y.max_local = st.max_local
BY DEF Announced, UpdateMaxStreamData, StreamRecord

LEMMA AnnouncedGood ==
  ASSUME NEW st \in StreamRecord, NEW max \in Nat, NEW e, NEW s,
         GoodStream(e, s, st)
  PROVE  GoodStream(e, s, Announced(st, max))
<1> DEFINE y == Announced(st, max)
<1>1. /\ y.state = st.state /\ y.size = st.size /\ y.tx = st.tx
      /\ y.rx = st.rx /\ y.ooo = st.ooo /\ y.fin = st.fin
  BY AnnouncedKeeps
<1> HIDE DEF y
<1>2. GoodStream(e, s, y)
  BY <1>1 DEF GoodStream, ShouldSendFin
<1> QED BY <1>2 DEF y

-----------------------------------------------------------------------------
(* One lemma per action: it preserves the type invariant. *)

(* stream_write keeps the types: a stream takes the bytes written to it. *)
LEMMA StreamWriteType ==
  ASSUME TypeOK, NEW e \in Endpoint, NEW s \in Streams, StreamWrite(e, s)
  PROVE  TypeOK'
<1>1. PICK n \in 1 .. (MaxWrite[e] - written[e][s]) :
        /\ strm' = [strm EXCEPT ![e][s] = Write(@, n)]
        /\ written' = [written EXCEPT ![e][s] = @ + n]
  BY DEF StreamWrite
<1>2. Write(strm[e][s], n) \in StreamRecord
  <2>1. n \in Nat
    BY TransferAssumption DEF TypeOK
  <2> QED BY <2>1, StreamTypes DEF TypeOK
<1> QED BY <1>1, <1>2, TransferAssumption
        DEF TypeOK, StreamWrite, connVars, pendVars, ackVars, appVars

(* Ending a side keeps the types. *)
LEMMA StreamCloseType ==
  ASSUME TypeOK, NEW e \in Endpoint, NEW s \in Streams, StreamClose(e, s)
  PROVE  TypeOK'
<1>1. CloseLocal(strm[e][s]) \in StreamRecord
  BY StreamTypes DEF TypeOK
<1> QED BY <1>1 DEF TypeOK, StreamClose, connVars, pendVars, ackVars, appVars

(* Announcing the connection's limit keeps the types. *)
LEMMA SendMaxDataType ==
  ASSUME TypeOK, NEW e \in Endpoint, SendMaxData(e)
  PROVE  TypeOK'
<1> DEFINE f == [kind |-> "max_data", max |-> max_data_local[e]]
<1>1. f \in Frame
  BY DEF TypeOK, Frame, Requeued, MaxDataFrame
<1>2. net' \in SUBSET Packet /\ sent' \in [Endpoint -> SUBSET Packet]
  BY <1>1, EmitType DEF SendMaxData
<1> QED BY <1>2 DEF TypeOK, SendMaxData, connVars, pendVars, ackVars, appVars

(* Announcing a stream's limit keeps the types. *)
LEMMA SendMaxStreamDataType ==
  ASSUME TypeOK, NEW e \in Endpoint, NEW s \in Streams, SendMaxStreamData(e, s)
  PROVE  TypeOK'
<1> DEFINE f == [kind |-> "max_stream_data", id |-> s,
                 max |-> strm[e][s].max_local]
<1>1. f \in Frame
  BY DEF TypeOK, Frame, Requeued, MaxStreamDataFrame, StreamRecord
<1>2. net' \in SUBSET Packet /\ sent' \in [Endpoint -> SUBSET Packet]
  <2>1. CASE Emit(e, f)
    BY <1>1, <2>1, EmitType
  <2>2. CASE UNCHANGED <<net, sent>>
    BY <2>2 DEF TypeOK
  <2> QED BY <2>1, <2>2 DEF SendMaxStreamData
<1> QED BY <1>2
        DEF TypeOK, SendMaxStreamData, connVars, pendVars, ackVars, appVars

(* What poll_send_data takes is a number of bytes. *)
LEMMA PollType ==
  ASSUME TypeOK, NEW e \in Endpoint, NEW s \in Streams,
         StreamsOK
  PROVE  PollLen(strm[e][s], Budget, ConnAvailable(e)) \in Nat
BY TransferAssumption
   DEF TypeOK, StreamRecord, PollLen, Smaller, StreamAvailable, ConnAvailable,
       StreamsOK, GoodStream

(* Sending new data keeps the types: the frame starts at tx. *)
LEMMA SendStreamType ==
  ASSUME TypeOK, NEW e \in Endpoint, NEW s \in Streams, StreamsOK,
         SendStream(e, s)
  PROVE  TypeOK'
<1> DEFINE len == PollLen(strm[e][s], Budget, ConnAvailable(e))
           fin == PollFin(strm[e][s], len)
           f == [kind |-> "stream", id |-> s, off |-> strm[e][s].tx,
                 len |-> len, fin |-> fin]
<1>1. len \in Nat
  BY PollType
<1>2. fin \in BOOLEAN
  BY DEF PollFin
<1>3. AfterPoll(strm[e][s], len) \in StreamRecord
  BY <1>1, StreamTypes, ZenonT(60) DEF TypeOK
<1> HIDE DEF len, fin
<1>4. f \in Frame
  BY <1>1, <1>2 DEF TypeOK, Frame, Requeued, StreamFrame, StreamRecord
<1>5. net' \in SUBSET Packet /\ sent' \in [Endpoint -> SUBSET Packet]
  BY <1>4, EmitType DEF SendStream, len, fin
<1>6. /\ strm' = [strm EXCEPT ![e][s] = AfterPoll(@, len)]
      /\ data_sent' = [data_sent EXCEPT ![e] = @ + len]
  BY DEF SendStream, len
<1>7. /\ strm' \in [Endpoint -> [Streams -> StreamRecord]]
      /\ data_sent' \in [Endpoint -> Nat]
  BY <1>1, <1>3, <1>6 DEF TypeOK
<1>8. UNCHANGED <<data_received, max_data_remote, max_data_local, pendVars,
                  ackVars, lost, closed, acks, appVars>>
  BY DEF SendStream
<1> QED BY <1>5, <1>7, <1>8 DEF TypeOK, pendVars, ackVars, appVars

(* Reporting a limit keeps the types. *)
LEMMA SendBlockedType ==
  ASSUME TypeOK, NEW e \in Endpoint, NEW s \in Streams, SendBlocked(e, s)
  PROVE  TypeOK'
<1>1. /\ [kind |-> "data_blocked"] \in Frame
      /\ [kind |-> "stream_data_blocked", id |-> s] \in Frame
  BY DEF Frame, DataBlockedFrame, StreamDataBlockedFrame
<1>2. net' \in SUBSET Packet /\ sent' \in [Endpoint -> SUBSET Packet]
  BY <1>1, EmitType DEF SendBlocked
<1> QED BY <1>2 DEF TypeOK, SendBlocked, connVars, pendVars, ackVars, appVars

(* Draining the retransmission queue keeps the types. *)
LEMMA SendLostType ==
  ASSUME TypeOK, NEW e \in Endpoint, NEW f \in lost[e], SendLost(e, f)
  PROVE  TypeOK'
<1>1. f \in Frame
  BY DEF TypeOK, Frame
<1>2. net' \in SUBSET Packet /\ sent' \in [Endpoint -> SUBSET Packet]
  BY <1>1, EmitType DEF SendLost
<1> QED BY <1>2 DEF TypeOK, SendLost, connVars, pendVars, ackVars, appVars

(* Sending an ACK keeps the types. *)
LEMMA SendAckType ==
  ASSUME TypeOK, NEW e \in Endpoint, SendAck(e)
  PROVE  TypeOK'
<1> QED BY PeerType DEF TypeOK, SendAck, connVars, pendVars, ackVars, appVars

(* A stream update, or none, leaves a table of streams at both ends. *)
LEMMA UpdateType ==
  ASSUME TypeOK, NEW e \in Endpoint
  PROVE  /\ NoStreamUpdate(e) =>
              strm' \in [Endpoint -> [Streams -> StreamRecord]]
         /\ \A s \in Streams, st \in StreamRecord :
              StreamUpdate(e, s, st) =>
                strm' \in [Endpoint -> [Streams -> StreamRecord]]
<1>1. Cleanup(e, strm[e]) \in [Streams -> StreamRecord]
  BY CleanupType DEF TypeOK
<1>2. ASSUME NEW s \in Streams, NEW st \in StreamRecord
      PROVE  Cleanup(e, [strm[e] EXCEPT ![s] = st])
               \in [Streams -> StreamRecord]
  <2>1. [strm[e] EXCEPT ![s] = st] \in [Streams -> StreamRecord]
    BY DEF TypeOK
  <2> QED BY <2>1, CleanupType
<1>3. ASSUME NEW t \in [Streams -> StreamRecord]
      PROVE  [strm EXCEPT ![e] = t] \in [Endpoint -> [Streams -> StreamRecord]]
  BY DEF TypeOK
<1>4. ASSUME NoStreamUpdate(e)
      PROVE  strm' \in [Endpoint -> [Streams -> StreamRecord]]
  BY <1>1, <1>3, <1>4, Zenon DEF NoStreamUpdate
<1>5. ASSUME NEW s \in Streams, NEW st \in StreamRecord,
             StreamUpdate(e, s, st)
      PROVE  strm' \in [Endpoint -> [Streams -> StreamRecord]]
  BY <1>2, <1>3, <1>5, Zenon DEF StreamUpdate
<1> QED BY <1>4, <1>5

(* A STREAM frame that is accepted keeps the types. *)
LEMMA ReceiveStreamType ==
  ASSUME TypeOK, NEW e \in Endpoint, NEW p \in net, ReceiveStream(e, p)
  PROVE  TypeOK'
<1> DEFINE f == p.frame
<1>1. f \in StreamFrame
  BY NoteType, FrameKinds DEF ReceiveStream
<1>2. PICK st \in StreamOutcomes(strm[e][f.id], f) :
        /\ StreamUpdate(e, f.id, st)
        /\ delivered' = [delivered EXCEPT ![e][f.id] =
                           @ + (st.rx - strm[e][f.id].rx)]
  BY DEF ReceiveStream
<1>3. strm[e][f.id] \in StreamRecord /\ f.id \in Streams /\ f.len \in Nat
  BY <1>1 DEF TypeOK, StreamFrame
<1>4. st \in StreamRecord /\ st.rx >= strm[e][f.id].rx
  BY <1>1, <1>3, OutcomeType
<1>5. strm' \in [Endpoint -> [Streams -> StreamRecord]]
  BY <1>2, <1>3, <1>4, UpdateType
<1>6. st.rx - strm[e][f.id].rx \in Nat
  BY <1>3, <1>4 DEF StreamRecord
<1>7. delivered' \in [Endpoint -> [Streams -> Nat]]
  BY <1>2, <1>3, <1>6 DEF TypeOK
<1>8. /\ data_received' = [data_received EXCEPT ![e] = @ + f.len]
      /\ pending_ack' = [pending_ack EXCEPT ![e] = TRUE]
      /\ NotePacket(e, p)
      /\ UNCHANGED <<data_sent, max_data_remote, max_data_local, pendVars,
                     sent, lost, closed, acks, written, finished>>
  BY DEF ReceiveStream
<1>9. /\ data_received' \in [Endpoint -> Nat]
      /\ pending_ack' \in [Endpoint -> BOOLEAN]
  BY <1>3, <1>8 DEF TypeOK
<1>10. /\ net' \in SUBSET Packet
       /\ received_pns' \in [Endpoint -> SUBSET Numbers]
       /\ pn_twice' \in [Endpoint -> BOOLEAN]
  BY <1>8, NoteType
<1> QED BY <1>5, <1>7, <1>8, <1>9, <1>10 DEF TypeOK, pendVars

(* A STREAM frame that closes the connection keeps the types. *)
LEMMA RefuseStreamType ==
  ASSUME TypeOK, NEW e \in Endpoint, NEW p \in net, RefuseStream(e, p)
  PROVE  TypeOK'
<1> DEFINE f == p.frame
<1>1. f \in StreamFrame
  BY NoteType, FrameKinds DEF RefuseStream
<1>2. /\ Opened(strm[e][f.id]) \in StreamRecord
      /\ f.id \in Streams /\ f.len \in Nat
  BY <1>1, StreamTypes DEF TypeOK, StreamFrame
<1>3. /\ net' \in SUBSET Packet
      /\ received_pns' \in [Endpoint -> SUBSET Numbers]
      /\ pn_twice' \in [Endpoint -> BOOLEAN]
  BY NoteType DEF RefuseStream
<1>4. /\ strm' \in [Endpoint -> [Streams -> StreamRecord]]
      /\ data_received' \in [Endpoint -> Nat]
      /\ pending_ack' \in [Endpoint -> BOOLEAN]
      /\ closed' \in [Endpoint -> CloseReason]
  <2>1. CASE TooMuchData(e, f)
    BY <2>1 DEF RefuseStream, TypeOK, CloseReason
  <2>2. CASE ~TooMuchData(e, f)
    <3>1. /\ strm' = [strm EXCEPT ![e][f.id] = Opened(strm[e][f.id])]
          /\ data_received' = [data_received EXCEPT ![e] = @ + f.len]
          /\ closed' = [closed EXCEPT ![e] = "protocol_violation"]
          /\ pending_ack' = pending_ack
      BY <2>2 DEF RefuseStream
    <3>2. strm' \in [Endpoint -> [Streams -> StreamRecord]]
      BY <3>1, <1>2 DEF TypeOK
    <3> QED BY <3>1, <3>2, <1>2 DEF TypeOK, CloseReason
  <2> QED BY <2>1, <2>2
<1>5. UNCHANGED <<data_sent, max_data_remote, max_data_local, pendVars,
                  sent, lost, acks, appVars>>
  BY DEF RefuseStream
<1> QED BY <1>3, <1>4, <1>5 DEF TypeOK, pendVars, appVars

(* MAX_DATA keeps the types. *)
LEMMA ReceiveMaxDataType ==
  ASSUME TypeOK, NEW e \in Endpoint, NEW p \in net, ReceiveMaxData(e, p)
  PROVE  TypeOK'
<1>1. p.frame.max \in Nat
  BY NoteType, FrameKinds DEF ReceiveMaxData, MaxDataFrame
<1>2. /\ net' \in SUBSET Packet
      /\ received_pns' \in [Endpoint -> SUBSET Numbers]
      /\ pn_twice' \in [Endpoint -> BOOLEAN]
  BY NoteType DEF ReceiveMaxData
<1>3. strm' \in [Endpoint -> [Streams -> StreamRecord]]
  BY UpdateType DEF ReceiveMaxData
<1> QED BY <1>1, <1>2, <1>3 DEF TypeOK, ReceiveMaxData, pendVars, appVars

(* MAX_STREAM_DATA keeps the types. *)
LEMMA ReceiveMaxStreamDataType ==
  ASSUME TypeOK, NEW e \in Endpoint, NEW p \in net, ReceiveMaxStreamData(e, p)
  PROVE  TypeOK'
<1> DEFINE f == p.frame
<1>1. f.id \in Streams /\ f.max \in Nat
  BY NoteType, FrameKinds DEF ReceiveMaxStreamData, MaxStreamDataFrame
<1>2. Announced(strm[e][f.id], f.max) \in StreamRecord
  <2>1. strm[e][f.id] \in StreamRecord
    BY <1>1 DEF TypeOK
  <2>2. UpdateMaxStreamData(strm[e][f.id], f.max) \in StreamRecord
    BY <1>1, <2>1, StreamTypes
  <2> QED BY <2>1, <2>2 DEF Announced
<1>3. strm' \in [Endpoint -> [Streams -> StreamRecord]]
  BY <1>1, <1>2, UpdateType DEF ReceiveMaxStreamData
<1>4. /\ net' \in SUBSET Packet
      /\ received_pns' \in [Endpoint -> SUBSET Numbers]
      /\ pn_twice' \in [Endpoint -> BOOLEAN]
  BY NoteType DEF ReceiveMaxStreamData
<1> QED BY <1>3, <1>4
        DEF TypeOK, ReceiveMaxStreamData, connVars, pendVars, appVars

(* DATA_BLOCKED keeps the types. *)
LEMMA ReceiveDataBlockedType ==
  ASSUME TypeOK, NEW e \in Endpoint, NEW p \in net, ReceiveDataBlocked(e, p)
  PROVE  TypeOK'
<1>1. strm' \in [Endpoint -> [Streams -> StreamRecord]]
  BY UpdateType DEF ReceiveDataBlocked
<1>2. Raised(max_data_local[e], MaxCredit) \in Nat
  BY TransferAssumption DEF TypeOK, Raised, Smaller
<1>3. /\ net' \in SUBSET Packet
      /\ received_pns' \in [Endpoint -> SUBSET Numbers]
      /\ pn_twice' \in [Endpoint -> BOOLEAN]
  BY NoteType DEF ReceiveDataBlocked
<1> QED BY <1>1, <1>2, <1>3 DEF TypeOK, ReceiveDataBlocked, appVars

(* STREAM_DATA_BLOCKED keeps the types. *)
LEMMA ReceiveStreamDataBlockedType ==
  ASSUME TypeOK, NEW e \in Endpoint, NEW p \in net,
         ReceiveStreamDataBlocked(e, p)
  PROVE  TypeOK'
<1> DEFINE s == p.frame.id
<1>1. s \in Streams
  BY NoteType, FrameKinds
     DEF ReceiveStreamDataBlocked, StreamDataBlockedFrame
<1>2. Raised(strm[e][s].max_local, MaxStreamCredit) \in Nat
  BY <1>1, TransferAssumption DEF TypeOK, Raised, Smaller, StreamRecord
<1>3. Extended(strm[e][s]) \in StreamRecord
  BY <1>1, <1>2, StreamTypes, ZenonT(60) DEF TypeOK, Extended
<1>4. strm' \in [Endpoint -> [Streams -> StreamRecord]]
  BY <1>1, <1>3, UpdateType DEF ReceiveStreamDataBlocked
<1>5. /\ net' \in SUBSET Packet
      /\ received_pns' \in [Endpoint -> SUBSET Numbers]
      /\ pn_twice' \in [Endpoint -> BOOLEAN]
  BY NoteType DEF ReceiveStreamDataBlocked
<1>6. pending_max_stream_data' \in [Endpoint -> SUBSET Streams]
  <2>1. \/ pending_max_stream_data' =
              [pending_max_stream_data EXCEPT ![e] = @ \cup {s}]
        \/ pending_max_stream_data' = pending_max_stream_data
    BY DEF ReceiveStreamDataBlocked
  <2>2. pending_max_stream_data[e] \cup {s} \in SUBSET Streams
    BY <1>1 DEF TypeOK
  <2> HIDE DEF s
  <2> QED BY <2>1, <2>2, ZenonT(60) DEF TypeOK
<1>7. /\ pending_ack' = [pending_ack EXCEPT ![e] = TRUE]
      /\ UNCHANGED <<connVars, pending_max_data, sent, lost, closed, acks,
                     appVars>>
  BY DEF ReceiveStreamDataBlocked
<1> QED BY <1>4, <1>5, <1>6, <1>7 DEF TypeOK, connVars, appVars

(* CONNECTION_CLOSE keeps the types. *)
LEMMA ReceiveConnectionCloseType ==
  ASSUME TypeOK, NEW e \in Endpoint, ReceiveConnectionClose(e)
  PROVE  TypeOK'
BY DEF TypeOK, ReceiveConnectionClose, CloseReason, connVars, pendVars,
       ackVars, appVars

(* An ACK keeps the types. *)
LEMMA ReceiveAckType ==
  ASSUME TypeOK, NEW e \in Endpoint, NEW n \in acks[e], ReceiveAck(e, n)
  PROVE  TypeOK'
<1>1. strm' \in [Endpoint -> [Streams -> StreamRecord]]
  BY UpdateType DEF ReceiveAck
<1>2. /\ acks' \in [Endpoint -> SUBSET Numbers]
      /\ sent' \in [Endpoint -> SUBSET Packet]
  <2>1. acks' \in [Endpoint -> SUBSET Numbers]
    BY DEF ReceiveAck, TypeOK
  <2>2. {p \in sent[e] : p.pn # n} \in SUBSET Packet
    BY DEF TypeOK
  <2>3. sent' = [sent EXCEPT ![e] = {p \in sent[e] : p.pn # n}]
    BY DEF ReceiveAck
  <2>4. sent' \in [Endpoint -> SUBSET Packet]
    BY <2>2, <2>3 DEF TypeOK
  <2> QED BY <2>1, <2>4
<1> QED BY <1>1, <1>2
        DEF TypeOK, ReceiveAck, connVars, pendVars, ackVars, appVars

-----------------------------------------------------------------------------
(* The content invariant. *)

(* A new stream is good where nothing was written or the side is over. *)
LEMMA FreshGood ==
  ASSUME TypeOK, NEW e \in Endpoint, NEW s \in Streams,
         finished[e][s] \/ written[e][s] = 0
  PROVE  GoodStream(e, s, Fresh)
BY PeerType DEF TypeOK, GoodStream, Fresh, NewStream, ShouldSendFin, NoFin

(* If nothing new was written, a table that is good at e and kept at the   *)
(* peer is good.                                                           *)
LEMMA UpdateGood ==
  ASSUME TypeOK, StreamsOK, NEW e \in Endpoint, UNCHANGED <<written, finished>>
  PROVE  /\ NoStreamUpdate(e) => StreamsOK'
         /\ \A s \in Streams, st \in StreamRecord :
              GoodStream(e, s, st) /\ StreamUpdate(e, s, st) => StreamsOK'
<1>1. ASSUME NEW table \in [Streams -> StreamRecord],
             \A s \in Streams : GoodStream(e, s, table[s]),
             strm' = [strm EXCEPT ![e] = Cleanup(e, table)]
      PROVE  StreamsOK'
  <2>1. ASSUME NEW x \in Endpoint, NEW s \in Streams
        PROVE  GoodStream(x, s, strm'[x][s])
    <3>1. CASE x # e
      BY <1>1, <3>1 DEF StreamsOK, TypeOK
    <3>2. CASE x = e
      <4>1. strm'[x][s] = IF e = "server" /\ FullyDone(table[s])
                            THEN Fresh ELSE table[s]
        BY <1>1, <3>2 DEF Cleanup, TypeOK
      <4>2. FullyDone(table[s]) => finished[e][s]
        BY <1>1 DEF FullyDone, GoodStream, ShouldSendFin
      <4> QED BY <4>1, <4>2, <3>2, <1>1, FreshGood
    <3> QED BY <3>1, <3>2
  <2>2. ASSUME NEW x \in Endpoint, NEW s \in Streams
        PROVE  GoodStream(x, s, strm[x][s])'
    BY <2>1 DEF GoodStream
  <2> QED BY <2>2 DEF StreamsOK
<1>2. ASSUME NoStreamUpdate(e)
      PROVE  StreamsOK'
  BY <1>1, <1>2 DEF NoStreamUpdate, StreamsOK, TypeOK
<1>3. ASSUME NEW s \in Streams, NEW st \in StreamRecord,
             GoodStream(e, s, st), StreamUpdate(e, s, st)
      PROVE  StreamsOK'
  <2> DEFINE table == [strm[e] EXCEPT ![s] = st]
  <2>1. table \in [Streams -> StreamRecord]
    BY DEF TypeOK
  <2>2. \A x \in Streams : GoodStream(e, x, table[x])
    BY <1>3 DEF StreamsOK, TypeOK
  <2>3. strm' = [strm EXCEPT ![e] = Cleanup(e, table)]
    BY <1>3 DEF StreamUpdate
  <2> HIDE DEF table
  <2> QED BY <2>1, <2>2, <2>3, <1>1
<1> QED BY <1>2, <1>3

(* If nothing new was written, the frames that stay are good. *)
LEMMA KeptGood ==
  ASSUME TypeOK, FramesOK, UNCHANGED <<written, finished>>,
         net' \subseteq net,
         \A e \in Endpoint : sent'[e] \subseteq sent[e],
         \A e \in Endpoint : \A f \in lost'[e] : GoodFrame(e, f)
  PROVE  FramesOK'
BY DEF FramesOK, GoodFrame

(* send puts a good frame into a packet. *)
LEMMA EmitGood ==
  ASSUME TypeOK, FramesOK, UNCHANGED <<written, finished>>,
         NEW e \in Endpoint, NEW frame \in Frame, Emit(e, frame),
         GoodFrame(e, frame),
         \A x \in Endpoint : lost'[x] \subseteq lost[x]
  PROVE  FramesOK'
<1>1. PICK n \in FreePn(e) :
        LET pkt == [src |-> e, pn |-> n, frame |-> frame]
        IN /\ net' = net \cup {pkt}
           /\ sent' = [sent EXCEPT ![e] = @ \cup {pkt}]
  BY EmitType
<1> DEFINE pkt == [src |-> e, pn |-> n, frame |-> frame]
<1>2. pkt.src = e /\ pkt.frame = frame
  OBVIOUS
<1>3. net' = net \cup {pkt} /\ sent' = [sent EXCEPT ![e] = @ \cup {pkt}]
  BY <1>1
<1> HIDE DEF pkt
<1>4. /\ \A p \in net' : GoodFrame(p.src, p.frame)
      /\ \A x \in Endpoint : /\ \A p \in sent'[x] : GoodFrame(x, p.frame)
                             /\ \A f \in lost'[x] : GoodFrame(x, f)
  BY <1>2, <1>3 DEF FramesOK, TypeOK
<1>5. \A x, f : GoodFrame(x, f) => GoodFrame(x, f)'
  BY DEF GoodFrame
<1> QED BY <1>4, <1>5 DEF FramesOK

(* What receive_data and set_fin_offset make of a good stream and a good   *)
(* frame of the peer is a good stream: bytes that become contiguous were   *)
(* each written, and the end is reported when the last of them is there.   *)
LEMMA OutcomeGood ==
  ASSUME TypeOK, NEW e \in Endpoint, NEW f \in StreamFrame,
         NEW st \in StreamRecord, GoodStream(e, f.id, st),
         GoodFrame(Peer(e), f), NEW x \in StreamOutcomes(st, f)
  PROVE  GoodStream(e, f.id, x)
<1> DEFINE all == written[Peer(e)][f.id]
           ended == finished[Peer(e)][f.id]
           Good(y) == y \in StreamRecord /\ GoodStream(e, f.id, y)
<1>0. /\ f.off \in Nat /\ f.len \in Nat /\ all \in Nat
      /\ f.off + f.len \in Nat /\ f.off + f.len <= all
      /\ f.fin => ended /\ f.off + f.len = all
      /\ st.rx \in Nat /\ st.max_local \in Nat
      /\ \A g \in st.ooo : g.off \in Nat /\ g.len \in Nat
  BY PeerType DEF TypeOK, StreamFrame, GoodFrame, StreamRecord, Segment
<1>1. Good(Opened(st))
  BY StreamTypes DEF Opened, GoodStream, ShouldSendFin, StreamRecord
<1>2. ASSUME NEW y, Good(y)
      PROVE  Good(CheckFinReady(y))
  <2>0. CheckFinReady(y) \in StreamRecord
    BY <1>2, StreamTypes
  <2>1. CASE y.fin # NoFin /\ y.rx >= y.fin
    <3>1. ended /\ y.rx = all /\ y.fin = all
      BY <1>2, <2>1, <1>0 DEF GoodStream, StreamRecord
    <3> QED
      BY <1>2, <2>0, <2>1, <3>1
         DEF CheckFinReady, CloseRemote, GoodStream, ShouldSendFin,
             StreamRecord
  <2>2. CASE ~(y.fin # NoFin /\ y.rx >= y.fin)
    BY <1>2, <2>2 DEF CheckFinReady
  <2> QED BY <2>1, <2>2
<1>3. ASSUME NEW y, Good(y), f.fin
      PROVE  Good(SetFinOffset(y, f.off + f.len))
  <2> DEFINE n == f.off + f.len
             z == [y EXCEPT !.fin = IF @ = NoFin \/ n < @ THEN n ELSE @]
  <2>1. z \in StreamRecord
    BY <1>0, <1>3 DEF StreamRecord, NoFin
  <2>2. z.fin = all /\ ended
    BY <1>0, <1>3 DEF GoodStream, StreamRecord, NoFin
  <2>3. /\ z.tx = y.tx /\ z.size = y.size /\ z.state = y.state
        /\ z.rx = y.rx /\ z.ooo = y.ooo
    BY <1>3 DEF StreamRecord
  <2> HIDE DEF z
  <2>4. Good(z)
    BY <1>3, <2>1, <2>2, <2>3 DEF GoodStream, ShouldSendFin
  <2>5. Good(CheckFinReady(z))
    BY <2>4, <1>2
  <2> QED BY <2>5 DEF SetFinOffset, z
<1>4. ASSUME NEW y \in InOrder(st, f.len), f.off = st.rx, ~ReceiveClosed(st)
      PROVE  Good(y)
  <2>1. PICK r \in (st.rx + f.len) .. st.max_local :
          /\ FirstGap(st.ooo, st.rx + f.len, r)
          /\ y = CheckFinReady([Opened(st) EXCEPT
                  !.rx = r, !.ooo = {g \in @ : g.off > r}])
    BY <1>4 DEF InOrder
  <2>2. r \in Nat /\ r >= st.rx + f.len
    BY <1>0
  <2>3. r <= all
    <3>1. CASE r = st.rx + f.len
      BY <3>1, <1>0, <1>4
    <3>2. CASE r # st.rx + f.len
      <4>1. r - 1 \in (st.rx + f.len) .. (r - 1)
        <5>1. st.rx + f.len \in Nat
          BY <1>0
        <5> QED BY <3>2, <2>2, <5>1
      <4>2. PICK g \in st.ooo : g.off <= r - 1 /\ r - 1 < g.off + g.len
        BY <4>1, <2>1 DEF FirstGap, Covered
      <4>3. g.off + g.len <= all
        BY <1>1 DEF GoodStream
      <4> QED BY <4>2, <4>3, <2>2, <1>0
    <3> QED BY <3>1, <3>2
  <2> DEFINE z == [Opened(st) EXCEPT !.rx = r, !.ooo = {g \in @ : g.off > r}]
  <2>4. z \in StreamRecord
    BY <1>1, <2>2 DEF StreamRecord
  <2>5. /\ z.tx = Opened(st).tx /\ z.size = Opened(st).size
        /\ z.state = Opened(st).state /\ z.rx = r /\ z.fin = Opened(st).fin
        /\ z.ooo \subseteq Opened(st).ooo
    BY <1>1 DEF StreamRecord
  <2>6. z.state \notin {"HalfClosedRemote", "Closed"}
    BY <2>5, <1>4 DEF ReceiveClosed, Opened, StreamRecord
  <2>7. y = CheckFinReady(z)
    BY <2>1
  <2> HIDE DEF z
  <2>8. Good(z)
    BY <1>1, <2>3, <2>4, <2>5, <2>6 DEF GoodStream, ShouldSendFin
  <2> QED BY <2>7, <2>8, <1>2
<1>5. Good(OutOfOrder(st, f.off, f.len))
  <2> DEFINE seg == [off |-> f.off, len |-> f.len]
             z == [Opened(st) EXCEPT !.ooo = @ \cup {seg}]
  <2>1. seg \in Segment /\ seg.off + seg.len <= all
    BY <1>0 DEF Segment
  <2> HIDE DEF seg
  <2>2. z \in StreamRecord
    BY <1>1, <2>1 DEF StreamRecord
  <2>3. /\ z.tx = Opened(st).tx /\ z.size = Opened(st).size
        /\ z.state = Opened(st).state /\ z.rx = Opened(st).rx
        /\ z.fin = Opened(st).fin /\ z.ooo = Opened(st).ooo \cup {seg}
    BY <1>1 DEF StreamRecord
  <2> HIDE DEF z
  <2>4. Good(z)
    BY <1>1, <2>1, <2>2, <2>3 DEF GoodStream, ShouldSendFin
  <2> QED BY <2>4, <1>1 DEF OutOfOrder, z, seg
<1>6. PICK y \in ReceiveData(st, f.off, f.len) :
        x = IF f.fin THEN SetFinOffset(y, f.off + f.len) ELSE y
  BY DEF StreamOutcomes
<1>7. Good(y)
  BY <1>1, <1>4, <1>5, <1>6 DEF ReceiveData
<1>8. Good(x)
  BY <1>3, <1>6, <1>7
<1> QED BY <1>8

(* stream_write: more is written, on a side that is not over. *)
LEMMA StreamWriteGood ==
  ASSUME TypeOK, Content, NEW e \in Endpoint, NEW s \in Streams,
         StreamWrite(e, s)
  PROVE  Content'
<1>1. PICK n \in 1 .. (MaxWrite[e] - written[e][s]) :
        /\ strm' = [strm EXCEPT ![e][s] = Write(strm[e][s], n)]
        /\ written' = [written EXCEPT ![e][s] = @ + n]
  BY DEF StreamWrite
<1>2. n \in Nat
  BY TransferAssumption DEF TypeOK
<1>3. /\ ~finished[e][s] /\ finished' = finished
      /\ UNCHANGED <<net, sent, lost>>
  BY DEF StreamWrite, Usable
<1>4. \A x \in Endpoint, t \in Streams :
        /\ written[x][t] \in Nat /\ written'[x][t] \in Nat
        /\ written[x][t] <= written'[x][t]
        /\ finished[x][t] => written'[x][t] = written[x][t]
  BY <1>1, <1>2, <1>3 DEF TypeOK
<1>5. FramesOK'
  <2>1. ASSUME NEW x \in Endpoint, NEW f \in Frame, GoodFrame(x, f)
        PROVE  GoodFrame(x, f)'
    <3>1. CASE f.kind = "stream"
      <4>1. f \in StreamFrame
        BY <3>1, FrameKinds
      <4> QED BY <2>1, <4>1, <1>3, <1>4 DEF GoodFrame, StreamFrame
    <3> QED BY <3>1 DEF GoodFrame
  <2>2. /\ \A p \in net : p.src \in Endpoint /\ p.frame \in Frame
        /\ \A x \in Endpoint : /\ \A p \in sent[x] : p.frame \in Frame
                               /\ \A f \in lost[x] : f \in Frame
    BY DEF TypeOK, Packet, Frame
  <2> QED BY <2>1, <2>2, <1>3 DEF Content, FramesOK
<1>6. ASSUME NEW x \in Endpoint, NEW t \in Streams
      PROVE  GoodStream(x, t, strm[x][t])'
  <2> DEFINE st == strm[x][t]
             y  == strm'[x][t]
  <2>0. st \in StreamRecord /\ GoodStream(x, t, st) /\ Peer(x) \in Endpoint
    BY PeerType DEF TypeOK, Content, StreamsOK
  <2>1. y = IF x = e /\ t = s THEN Write(st, n) ELSE st
    BY <1>1 DEF TypeOK
  <2>2. CASE y = st /\ ~(x = e /\ t = s)
    <3>1. written'[x][t] = written[x][t]
      BY <2>2, <1>1 DEF TypeOK
    <3>2. /\ written[Peer(x)][t] <= written'[Peer(x)][t]
          /\ finished[Peer(x)][t] =>
               written'[Peer(x)][t] = written[Peer(x)][t]
      BY <2>0, <1>4
    <3> QED
      BY <2>0, <2>2, <3>1, <3>2, <1>3, <1>4
         DEF GoodStream, StreamRecord, Segment
  <2>3. CASE x = e /\ t = s
    <3>1. ~ShouldSendFin(st)
      BY <2>0, <2>3, <1>3 DEF GoodStream
    <3>2. /\ y = [Opened(st) EXCEPT !.size = @ + n]
      BY <2>1, <2>3, <3>1 DEF Write, ShouldSendFin
    <3>3. /\ y.size = st.size + n /\ y.tx = st.tx /\ y.rx = st.rx
          /\ y.ooo = st.ooo /\ y.fin = st.fin
          /\ y.state = st.state \/ (st.state = "Idle" /\ y.state = "Open")
      BY <2>0, <3>2 DEF Opened, StreamRecord
    <3>4. written'[x][t] = written[x][t] + n
      BY <2>3, <1>1 DEF TypeOK
    <3>5. written'[Peer(x)][t] = written[Peer(x)][t]
      BY <2>0, <2>3, <1>1, PeerType DEF TypeOK
    <3> QED
      BY <2>0, <2>3, <3>1, <3>3, <3>4, <3>5, <1>2, <1>3, <1>4
         DEF GoodStream, ShouldSendFin, StreamRecord
  <2> QED BY <2>1, <2>2, <2>3
<1> QED BY <1>5, <1>6 DEF Content, StreamsOK

(* close_local: the sending half is over with all that was written. *)
LEMMA StreamCloseGood ==
  ASSUME TypeOK, Content, NEW e \in Endpoint, NEW s \in Streams,
         StreamClose(e, s)
  PROVE  Content'
<1>1. /\ ~finished[e][s] /\ written' = written
      /\ UNCHANGED <<net, sent, lost>>
      /\ strm' = [strm EXCEPT ![e][s] = CloseLocal(strm[e][s])]
      /\ finished' = [finished EXCEPT ![e][s] = TRUE]
      /\ strm[e][s].state # "Idle"
  BY DEF StreamClose, Usable
<1>2. \A x \in Endpoint, t \in Streams : finished[x][t] => finished'[x][t]
  BY <1>1 DEF TypeOK
<1>3. FramesOK'
  <2>1. ASSUME NEW x \in Endpoint, NEW f \in Frame, GoodFrame(x, f)
        PROVE  GoodFrame(x, f)'
    <3>1. CASE f.kind = "stream"
      <4>1. f \in StreamFrame
        BY <3>1, FrameKinds
      <4> QED BY <2>1, <4>1, <1>1, <1>2 DEF GoodFrame, StreamFrame
    <3> QED BY <3>1 DEF GoodFrame
  <2>2. /\ \A p \in net : p.src \in Endpoint /\ p.frame \in Frame
        /\ \A x \in Endpoint : /\ \A p \in sent[x] : p.frame \in Frame
                               /\ \A f \in lost[x] : f \in Frame
    BY DEF TypeOK, Packet, Frame
  <2> QED BY <2>1, <2>2, <1>1 DEF Content, FramesOK
<1>4. ASSUME NEW x \in Endpoint, NEW t \in Streams
      PROVE  GoodStream(x, t, strm[x][t])'
  <2> DEFINE st == strm[x][t]
             y  == strm'[x][t]
  <2>0. st \in StreamRecord /\ GoodStream(x, t, st) /\ Peer(x) \in Endpoint
    BY PeerType DEF TypeOK, Content, StreamsOK
  <2>1. y = IF x = e /\ t = s THEN CloseLocal(st) ELSE st
    BY <1>1 DEF TypeOK
  <2>2. CASE ~(x = e /\ t = s)
    BY <2>0, <2>1, <2>2, <1>1, <1>2 DEF GoodStream
  <2>3. CASE x = e /\ t = s
    <3>1. ~ShouldSendFin(st)
      BY <2>0, <2>3, <1>1 DEF GoodStream
    <3>2. /\ y.size = st.size /\ y.tx = st.tx /\ y.rx = st.rx
          /\ y.ooo = st.ooo /\ y.fin = st.fin
          /\ y.state # "Reset"
          /\ y.state \in {"HalfClosedRemote", "Closed"} =>
               st.state \in {"HalfClosedRemote", "Closed"}
      BY <2>0, <2>1, <2>3, <1>1 DEF CloseLocal, StreamRecord, GoodStream
    <3>3. st.size = written[x][t] /\ finished'[x][t]
      BY <2>0, <2>3, <1>1 DEF TypeOK, GoodStream
    <3>4. finished[Peer(x)][t] => finished'[Peer(x)][t]
      BY <2>0, <1>2
    <3> QED
      BY <2>0, <3>2, <3>3, <3>4, <1>1 DEF GoodStream, StreamRecord
  <2> QED BY <2>2, <2>3
<1> QED BY <1>3, <1>4 DEF Content, StreamsOK

(* poll_send_data and the packet that carries what it took. *)
LEMMA SendStreamGood ==
  ASSUME TypeOK, Content, NEW e \in Endpoint, NEW s \in Streams,
         SendStream(e, s)
  PROVE  Content'
<1> DEFINE st  == strm[e][s]
           len == PollLen(st, Budget, ConnAvailable(e))
           fin == PollFin(st, len)
           f == [kind |-> "stream", id |-> s, off |-> st.tx,
                 len |-> len, fin |-> fin]
<1>0. st \in StreamRecord /\ GoodStream(e, s, st)
  BY DEF TypeOK, Content, StreamsOK
<1>1. len \in Nat /\ st.tx + len <= st.size
  <2>1. len \in Nat
    BY PollType DEF Content
  <2>2. len <= st.size - st.tx
    BY <1>0, TransferAssumption
       DEF PollLen, Smaller, StreamAvailable, ConnAvailable, StreamRecord,
           TypeOK, GoodStream
  <2> QED BY <2>1, <2>2, <1>0 DEF StreamRecord
<1>2. fin \in BOOLEAN
  BY DEF PollFin
<1>3. fin => ShouldSendFin(st) /\ st.tx + len = st.size
  BY <1>0, <1>1 DEF PollFin, StreamRecord
<1>4. /\ Emit(e, f)
      /\ strm' = [strm EXCEPT ![e][s] = AfterPoll(st, len)]
      /\ UNCHANGED <<lost, written, finished>>
  BY DEF SendStream, appVars
<1>5. /\ AfterPoll(st, len).tx = st.tx + len
      /\ AfterPoll(st, len).size = st.size
      /\ AfterPoll(st, len).state = st.state
      /\ AfterPoll(st, len).rx = st.rx
      /\ AfterPoll(st, len).ooo = st.ooo
      /\ AfterPoll(st, len).fin = st.fin
  BY <1>0 DEF AfterPoll, StreamRecord
<1> HIDE DEF len, fin
<1>6. f \in Frame
  BY <1>0, <1>1, <1>2 DEF Frame, Requeued, StreamFrame, StreamRecord
<1>7. GoodFrame(e, f)
  BY <1>0, <1>1, <1>3 DEF GoodFrame, GoodStream, StreamRecord, TypeOK
<1>8. FramesOK'
  BY <1>4, <1>6, <1>7, EmitGood DEF Content
<1>9. GoodStream(e, s, AfterPoll(st, len))
  BY <1>0, <1>1, <1>5 DEF GoodStream, ShouldSendFin
<1>10. ASSUME NEW x \in Endpoint, NEW t \in Streams
       PROVE  GoodStream(x, t, strm[x][t])'
  <2>1. GoodStream(x, t, strm'[x][t])
    BY <1>4, <1>9 DEF Content, StreamsOK, TypeOK
  <2> QED BY <2>1, <1>4 DEF GoodStream
<1> QED BY <1>8, <1>10 DEF Content, StreamsOK

(* The frames that carry no stream data are good whatever they say. *)
LEMMA ControlGood ==
  ASSUME NEW e, NEW f, f.kind # "stream"
  PROVE  GoodFrame(e, f)
BY DEF GoodFrame

(* Sending anything but new data leaves the streams as they are. *)
LEMMA SendOtherGood ==
  ASSUME TypeOK, Content, NEW e \in Endpoint,
         \/ SendMaxData(e) \/ SendAck(e)
         \/ \E s \in Streams : SendMaxStreamData(e, s) \/ SendBlocked(e, s)
         \/ \E f \in lost[e] : SendLost(e, f)
  PROVE  Content'
<1>1. UNCHANGED <<strm, written, finished>>
  BY DEF SendMaxData, SendMaxStreamData, SendBlocked, SendAck, SendLost,
         appVars
<1>2. StreamsOK'
  BY <1>1 DEF Content, StreamsOK, GoodStream
<1>3. CASE SendMaxData(e)
  <2> DEFINE f == [kind |-> "max_data", max |-> max_data_local[e]]
  <2>1. f \in Frame /\ GoodFrame(e, f)
    BY ControlGood DEF TypeOK, Frame, Requeued, MaxDataFrame
  <2> QED BY <1>1, <1>2, <1>3, <2>1, EmitGood DEF SendMaxData, Content
<1>4. ASSUME NEW s \in Streams, SendMaxStreamData(e, s)
      PROVE  Content'
  <2> DEFINE f == [kind |-> "max_stream_data", id |-> s,
                   max |-> strm[e][s].max_local]
  <2>1. f \in Frame /\ GoodFrame(e, f)
    BY ControlGood
       DEF TypeOK, Frame, Requeued, MaxStreamDataFrame, StreamRecord
  <2>2. lost' = lost
    BY <1>4 DEF SendMaxStreamData
  <2>3. CASE Emit(e, f)
    BY <1>1, <1>2, <2>1, <2>2, <2>3, EmitGood DEF Content
  <2>4. CASE UNCHANGED <<net, sent>>
    BY <1>1, <1>2, <2>2, <2>4 DEF Content, FramesOK, GoodFrame
  <2> QED BY <1>4, <2>3, <2>4 DEF SendMaxStreamData
<1>5. ASSUME NEW s \in Streams, SendBlocked(e, s)
      PROVE  Content'
  <2>1. \E f \in Frame : GoodFrame(e, f) /\ Emit(e, f)
    <3> DEFINE f == [kind |-> "data_blocked"]
               g == [kind |-> "stream_data_blocked", id |-> s]
    <3>1. f \in Frame /\ g \in Frame /\ GoodFrame(e, f) /\ GoodFrame(e, g)
      BY ControlGood DEF Frame, DataBlockedFrame, StreamDataBlockedFrame
    <3>2. Emit(e, f) \/ Emit(e, g)
      BY <1>5 DEF SendBlocked
    <3> QED BY <3>1, <3>2
  <2>2. lost' = lost
    BY <1>5 DEF SendBlocked
  <2> QED BY <1>1, <1>2, <2>1, <2>2, EmitGood DEF Content
<1>6. CASE SendAck(e)
  <2>1. UNCHANGED <<net, sent, lost>>
    BY <1>6 DEF SendAck
  <2> QED BY <1>1, <1>2, <2>1 DEF Content, FramesOK, GoodFrame
<1>7. ASSUME NEW f \in lost[e], SendLost(e, f)
      PROVE  Content'
  <2>1. f \in Frame /\ GoodFrame(e, f)
    BY DEF TypeOK, Frame, Content, FramesOK
  <2>2. Emit(e, f) /\ \A x \in Endpoint : lost'[x] \subseteq lost[x]
    BY <1>7 DEF SendLost, TypeOK
  <2> QED BY <1>1, <1>2, <2>1, <2>2, EmitGood DEF Content
<1> QED BY <1>3, <1>4, <1>5, <1>6, <1>7

(* Receiving, losing and acknowledging only take packets away. *)
LEMMA ReceiveGood ==
  ASSUME TypeOK, Content, NEW e \in Endpoint, NEW p \in net, Receive(e, p)
  PROVE  Content'
<1> DEFINE f == p.frame
<1>1. NotePacket(e, p) /\ UNCHANGED <<sent, lost, written, finished>>
  BY DEF Receive, ReceiveStream, RefuseStream, ReceiveMaxData,
         ReceiveMaxStreamData, ReceiveDataBlocked, ReceiveStreamDataBlocked,
         appVars
<1>2. net' \subseteq net /\ p.src = Peer(e)
  BY <1>1 DEF NotePacket
<1>3. FramesOK'
  BY <1>1, <1>2, KeptGood DEF Content, FramesOK
<1>4. \A s \in Streams : /\ strm[e][s] \in StreamRecord
                         /\ GoodStream(e, s, strm[e][s])
  BY DEF TypeOK, Content, StreamsOK
<1>5. f \in Frame
  BY <1>1, NoteType
<1>6. CASE ReceiveStream(e, p)
  <2>1. f \in StreamFrame /\ f.id \in Streams
    BY <1>5, <1>6, FrameKinds DEF ReceiveStream, StreamFrame
  <2>2. PICK st \in StreamOutcomes(strm[e][f.id], f) :
          StreamUpdate(e, f.id, st)
    BY <1>6 DEF ReceiveStream
  <2>3. GoodFrame(Peer(e), f)
    BY <1>2 DEF Content, FramesOK
  <2>4. st \in StreamRecord /\ GoodStream(e, f.id, st)
    BY <1>4, <2>1, <2>3, OutcomeGood, OutcomeType
  <2> QED BY <1>1, <1>3, <2>1, <2>2, <2>4, UpdateGood DEF Content
<1>7. CASE RefuseStream(e, p)
  <2>1. f \in StreamFrame /\ f.id \in Streams
    BY <1>5, <1>7, FrameKinds DEF RefuseStream, StreamFrame
  <2> DEFINE st == strm[e][f.id]
  <2>2. \/ strm' = strm
        \/ strm' = [strm EXCEPT ![e][f.id] = Opened(st)]
    BY <1>7 DEF RefuseStream
  <2>3. GoodStream(e, f.id, Opened(st))
    BY <1>4, <2>1 DEF Opened, GoodStream, ShouldSendFin, StreamRecord
  <2>4. ASSUME NEW x \in Endpoint, NEW t \in Streams
        PROVE  GoodStream(x, t, strm[x][t])'
    <3>1. GoodStream(x, t, strm'[x][t])
      <4>1. \/ strm'[x][t] = strm[x][t]
            \/ x = e /\ t = f.id /\ strm'[x][t] = Opened(st)
        BY <2>1, <2>2 DEF TypeOK
      <4> QED BY <4>1, <2>3 DEF Content, StreamsOK
    <3> QED BY <3>1, <1>1 DEF GoodStream
  <2> QED BY <1>3, <2>4 DEF Content, StreamsOK
<1>8. CASE ReceiveMaxData(e, p) \/ ReceiveDataBlocked(e, p)
  <2>1. NoStreamUpdate(e)
    BY <1>8 DEF ReceiveMaxData, ReceiveDataBlocked
  <2> QED BY <1>1, <1>3, <2>1, UpdateGood DEF Content
<1>9. CASE ReceiveMaxStreamData(e, p)
  <2> DEFINE st == strm[e][f.id]
  <2>1. f \in MaxStreamDataFrame /\ f.id \in Streams /\ f.max \in Nat
    BY <1>5, <1>9, FrameKinds DEF ReceiveMaxStreamData, MaxStreamDataFrame
  <2>2. Announced(st, f.max) \in StreamRecord
    BY <1>4, <2>1, AnnouncedKeeps
  <2>3. GoodStream(e, f.id, Announced(st, f.max))
    BY <1>4, <2>1, AnnouncedGood
  <2>4. StreamUpdate(e, f.id, Announced(st, f.max))
    BY <1>9 DEF ReceiveMaxStreamData
  <2> QED BY <1>1, <1>3, <2>1, <2>2, <2>3, <2>4, UpdateGood DEF Content
<1>10. CASE ReceiveStreamDataBlocked(e, p)
  <2> DEFINE st == strm[e][f.id]
  <2>1. f.id \in Streams
    BY <1>5, <1>10, FrameKinds, SMTT(40)
       DEF ReceiveStreamDataBlocked, StreamDataBlockedFrame
  <2>2. Extended(st) \in StreamRecord
    BY <1>4, <2>1, TransferAssumption
       DEF Extended, Raised, Smaller, UpdateMaxStreamDataLocal, StreamRecord
  <2>3. GoodStream(e, f.id, Extended(st))
    BY <1>4, <2>1 DEF Extended, UpdateMaxStreamDataLocal, GoodStream,
                      ShouldSendFin, StreamRecord
  <2>4. StreamUpdate(e, f.id, Extended(st)) \/ NoStreamUpdate(e)
    BY <1>10 DEF ReceiveStreamDataBlocked
  <2> QED BY <1>1, <1>3, <2>1, <2>2, <2>3, <2>4, UpdateGood DEF Content
<1> QED BY <1>6, <1>7, <1>8, <1>9, <1>10 DEF Receive

(* The steps that touch neither a stream nor a frame keep Content. *)
LEMMA OtherGood ==
  ASSUME TypeOK, Content, NEW e \in Endpoint,
         \/ ReceiveConnectionClose(e)
         \/ \E n \in acks[e] : ReceiveAck(e, n) \/ DropAck(e, n)
         \/ LossAlarm(e) \/ ProbeTimeout(e)
         \/ \E p \in net : DropPacket(p)
  PROVE  Content'
<1>1. UNCHANGED <<written, finished>>
  BY DEF ReceiveConnectionClose, ReceiveAck, DropAck, LossAlarm,
         ProbeTimeout, DeclareLost, DropPacket, appVars
<1>2. CASE ReceiveConnectionClose(e) \/ \E n \in acks[e] : DropAck(e, n)
  <2>1. UNCHANGED <<strm, net, sent, lost>>
    BY <1>2 DEF ReceiveConnectionClose, DropAck
  <2> QED BY <1>1, <2>1
          DEF Content, StreamsOK, FramesOK, GoodStream, GoodFrame
<1>3. ASSUME NEW n \in acks[e], ReceiveAck(e, n)
      PROVE  Content'
  <2>1. NoStreamUpdate(e) /\ UNCHANGED <<net, lost>>
    BY <1>3 DEF ReceiveAck
  <2>2. \A x \in Endpoint : sent'[x] \subseteq sent[x]
    BY <1>3 DEF ReceiveAck, TypeOK
  <2>3. FramesOK'
    BY <1>1, <2>1, <2>2, KeptGood DEF Content, FramesOK
  <2> QED BY <1>1, <2>1, <2>3, UpdateGood DEF Content
<1>4. ASSUME NEW ps \in SUBSET sent[e], DeclareLost(e, ps)
      PROVE  Content'
  <2>1. /\ UNCHANGED <<strm, net>>
        /\ sent' = [sent EXCEPT ![e] = @ \ ps]
        /\ lost' = [lost EXCEPT ![e] = @ \cup RequeuedFrames(ps)]
    BY <1>4 DEF DeclareLost
  <2>2. \A f \in RequeuedFrames(ps) : GoodFrame(e, f)
    BY DEF RequeuedFrames, Content, FramesOK
  <2>3. \A x \in Endpoint : \A f \in lost'[x] : GoodFrame(x, f)
    BY <2>1, <2>2 DEF TypeOK, Content, FramesOK
  <2>4. \A x \in Endpoint : sent'[x] \subseteq sent[x]
    BY <2>1 DEF TypeOK
  <2>5. FramesOK'
    BY <1>1, <2>1, <2>3, <2>4, KeptGood DEF Content
  <2> QED BY <1>1, <2>1, <2>5 DEF Content, StreamsOK, GoodStream
<1>5. CASE \E p \in net : DropPacket(p)
  <2>1. net' \subseteq net /\ UNCHANGED <<strm, sent, lost>>
    BY <1>5 DEF DropPacket
  <2>2. FramesOK'
    BY <1>1, <2>1, KeptGood DEF Content, FramesOK
  <2> QED BY <1>1, <2>1, <2>2 DEF Content, StreamsOK, GoodStream
<1> QED BY <1>2, <1>3, <1>4, <1>5 DEF LossAlarm, ProbeTimeout

-----------------------------------------------------------------------------
Inv == TypeOK /\ Content

(* The inductive invariant holds at the start. *)
LEMMA InitInv == Init => Inv
<1> SUFFICES ASSUME Init PROVE Inv
  OBVIOUS
<1>1. TypeOK
  <2>1. /\ max_data_remote \in [Endpoint -> Nat]
        /\ max_data_local \in [Endpoint -> Nat]
    BY PeerType, TransferAssumption DEF Init
  <2> QED BY <2>1, FreshType, TransferAssumption DEF Init, TypeOK, CloseReason
<1>2. FramesOK
  BY DEF Init, FramesOK
<1>3. StreamsOK
  BY <1>1, FreshGood DEF Init, StreamsOK
<1> QED BY <1>1, <1>2, <1>3 DEF Inv, Content

(* Every step keeps the inductive invariant, one action at a time. *)
LEMMA StepInv == Inv /\ [Next]_vars => Inv'
<1> SUFFICES ASSUME Inv, [Next]_vars PROVE Inv'
  OBVIOUS
<1> USE DEF Inv
<1>1. CASE UNCHANGED vars
  BY <1>1 DEF vars, connVars, pendVars, ackVars, appVars, TypeOK, Content,
              StreamsOK, FramesOK, GoodStream, GoodFrame
<1>2. ASSUME NEW e \in Endpoint, NEW s \in Streams,
             \/ StreamWrite(e, s) \/ StreamClose(e, s) \/ SendStream(e, s)
      PROVE  Inv'
  BY <1>2, StreamWriteType, StreamCloseType, SendStreamType,
     StreamWriteGood, StreamCloseGood, SendStreamGood DEF Content
<1>3. ASSUME NEW e \in Endpoint, NEW s \in Streams,
             SendBlocked(e, s) \/ SendMaxStreamData(e, s)
      PROVE  Inv'
  BY <1>3, SendBlockedType, SendMaxStreamDataType, SendOtherGood
<1>4. ASSUME NEW e \in Endpoint, SendMaxData(e) \/ SendAck(e)
      PROVE  Inv'
  <2>1. TypeOK'
    BY <1>4, SendMaxDataType, SendAckType
  <2> QED
    BY <1>4, <2>1, SendOtherGood
<1>5. ASSUME NEW e \in Endpoint, NEW f \in lost[e], SendLost(e, f)
      PROVE  Inv'
  BY <1>5, SendLostType, SendOtherGood
<1>6. ASSUME NEW e \in Endpoint, NEW p \in net, Receive(e, p)
      PROVE  Inv'
  <2>1. TypeOK'
    BY <1>6, ReceiveStreamType, RefuseStreamType, ReceiveMaxDataType,
       ReceiveMaxStreamDataType, ReceiveDataBlockedType,
       ReceiveStreamDataBlockedType DEF Receive
  <2> QED BY <1>6, <2>1, ReceiveGood
<1>7. ASSUME NEW e \in Endpoint, ReceiveConnectionClose(e)
      PROVE  Inv'
  BY <1>7, ReceiveConnectionCloseType, OtherGood
<1>8. ASSUME NEW e \in Endpoint, NEW n \in acks[e],
             ReceiveAck(e, n) \/ DropAck(e, n)
      PROVE  Inv'
  <2>1. TypeOK'
    <3>1. CASE ReceiveAck(e, n)
      BY <3>1, ReceiveAckType
    <3>2. CASE DropAck(e, n)
      BY <3>2 DEF DropAck, TypeOK, connVars, pendVars, ackVars, appVars
    <3> QED BY <1>8, <3>1, <3>2
  <2> QED BY <1>8, <2>1, OtherGood
<1>9. ASSUME NEW e \in Endpoint, LossAlarm(e) \/ ProbeTimeout(e)
      PROVE  Inv'
  <2>1. TypeOK'
    BY <1>9, LostType DEF LossAlarm, ProbeTimeout
  <2> QED BY <1>9, <2>1, OtherGood
<1>10. ASSUME NEW e \in Endpoint, NEW p \in net, DropPacket(p)
       PROVE  Inv'
  <2>1. TypeOK'
    BY <1>10 DEF DropPacket, TypeOK, connVars, pendVars, ackVars, appVars
  <2> QED BY <1>10, <2>1, OtherGood
<1> QED
  BY <1>1, <1>2, <1>3, <1>4, <1>5, <1>6, <1>7, <1>8, <1>9, <1>10 DEF Next

(* Every variable of the two connections keeps its type: in particular no  *)
(* STREAM frame has a negative length and no offset moves backwards.       *)
THEOREM TypeCorrect == Spec => []TypeOK
<1>1. Inv => TypeOK
  BY DEF Inv
<1> QED BY <1>1, InitInv, StepInv, PTL DEF Spec

(* check_fin_ready reports the end of the peer's data only when the peer   *)
(* has ended its side and every byte it wrote has been received: for any   *)
(* streams, limits, windows and packet sizes, with packets lost, repeated, *)
(* reordered and retransmitted in any way.                                 *)
THEOREM EofCorrect == Spec => []EofMeansAll
<1>1. Inv => EofMeansAll
  BY DEF Inv, Content, StreamsOK, GoodStream, EofMeansAll, AtEnd
<1> QED BY <1>1, InitInv, StepInv, PTL DEF Spec

-----------------------------------------------------------------------------
(* What receive_data makes of a stream, in detail. *)

(* The stream has byte b: in sequence, or buffered. *)
HasByte(st, b) == b < st.rx \/ Covered(st.ooo, b)

(* The part of the stream a frame carries, as a segment. *)
Span(f) == [off |-> f.off, len |-> f.len]

(* An offset that is in a segment but not where it starts. *)
Inside(a, b) == a.off < b /\ b < a.off + a.len

(* Two records that differ, if at all, in the fin offset and in the end of *)
(* the receiving half, which may have been reached.                        *)
SameBytes(st, y) ==
  /\ y \in StreamRecord
  /\ y.rx = st.rx /\ y.ooo = st.ooo /\ y.tx = st.tx /\ y.size = st.size
  /\ y.max_local = st.max_local /\ y.max_remote = st.max_remote
  /\ ShouldSendFin(y) <=> ShouldSendFin(st)
  /\ ReceiveClosed(st) => ReceiveClosed(y)

(* check_fin_ready and set_fin_offset move no byte. *)
LEMMA FinSameBytes ==
  ASSUME NEW st \in StreamRecord
  PROVE  /\ SameBytes(st, Opened(st))
         /\ SameBytes(st, CheckFinReady(st))
         /\ \A n \in Nat : SameBytes(st, SetFinOffset(st, n))
<1>1. SameBytes(st, Opened(st))
  BY StreamTypes
     DEF SameBytes, Opened, ShouldSendFin, ReceiveClosed, StreamRecord
<1>2. ASSUME NEW x \in StreamRecord
      PROVE  SameBytes(x, CheckFinReady(x))
  <2>1. CheckFinReady(x) \in StreamRecord
    BY StreamTypes
  <2> QED
    BY <2>1 DEF SameBytes, CheckFinReady, CloseRemote, ShouldSendFin,
                ReceiveClosed, StreamRecord
<1>3. ASSUME NEW n \in Nat
      PROVE  SameBytes(st, SetFinOffset(st, n))
  <2> DEFINE z == [st EXCEPT !.fin = IF @ = NoFin \/ n < @ THEN n ELSE @]
  <2>1. z \in StreamRecord
    BY DEF StreamRecord, NoFin
  <2>2. SameBytes(st, z)
    BY <2>1 DEF SameBytes, ShouldSendFin, ReceiveClosed, StreamRecord
  <2>3. SetFinOffset(st, n) = CheckFinReady(z)
    BY DEF SetFinOffset
  <2> HIDE DEF z
  <2> QED BY <1>2, <2>1, <2>2, <2>3 DEF SameBytes
<1> QED BY <1>1, <1>2, <1>3

(* The flush ends at the end of a segment or where it started, and takes   *)
(* every buffered byte before it.                                          *)
LEMMA FlushFacts ==
  ASSUME NEW st \in StreamRecord, NEW len \in Nat,
         NEW y \in InOrder(st, len), ~ReceiveClosed(st)
  PROVE  /\ SameBytes([st EXCEPT !.rx = y.rx, !.ooo = y.ooo], y)
         /\ y.rx >= st.rx + len
         /\ y.ooo \subseteq st.ooo
         /\ \/ y.rx = st.rx + len
            \/ \E a \in st.ooo : a.len > 0 /\ y.rx = a.off + a.len
         /\ \A b \in Nat : HasByte(st, b) => HasByte(y, b)
<1>0. /\ st.rx \in Nat /\ st.rx + len \in Nat
      /\ \A g \in st.ooo : g.off \in Nat /\ g.len \in Nat
  BY DEF StreamRecord, Segment
<1>1. PICK r \in (st.rx + len) .. st.max_local :
        /\ FirstGap(st.ooo, st.rx + len, r)
        /\ y = CheckFinReady([Opened(st) EXCEPT
                !.rx = r, !.ooo = {g \in @ : g.off > r}])
  BY DEF InOrder
<1>2. r \in Nat /\ r >= st.rx + len
  BY <1>0
<1> DEFINE z == [Opened(st) EXCEPT !.rx = r, !.ooo = {g \in @ : g.off > r}]
<1>3. /\ z \in StreamRecord /\ z.rx = r
      /\ z.ooo = {g \in st.ooo : g.off > r}
      /\ z.tx = st.tx /\ z.size = st.size
      /\ z.max_local = st.max_local /\ z.max_remote = st.max_remote
      /\ ShouldSendFin(z) <=> ShouldSendFin(st)
  BY <1>2, StreamTypes, ZenonT(60) DEF Opened, StreamRecord, ShouldSendFin
<1> HIDE DEF z
<1>4. SameBytes(z, y)
  BY <1>1, <1>3, FinSameBytes DEF z
<1>5. y.rx = r /\ y.ooo = {g \in st.ooo : g.off > r}
  BY <1>3, <1>4 DEF SameBytes
<1>6. SameBytes([st EXCEPT !.rx = y.rx, !.ooo = y.ooo], y)
  BY <1>3, <1>4, <1>5 DEF SameBytes, StreamRecord, ShouldSendFin, ReceiveClosed
<1>7. \/ r = st.rx + len
      \/ \E a \in st.ooo : a.len > 0 /\ r = a.off + a.len
  <2>1. CASE r # st.rx + len
    <3>1. r - 1 \in (st.rx + len) .. (r - 1)
      BY <2>1, <1>0, <1>2
    <3>2. PICK g \in st.ooo : g.off <= r - 1 /\ r - 1 < g.off + g.len
      BY <3>1, <1>1 DEF FirstGap, Covered
    <3>3. ~(g.off <= r /\ r < g.off + g.len)
      BY <1>1 DEF FirstGap, Covered
    <3> QED BY <3>2, <3>3, <1>0, <1>2
  <2> QED BY <2>1
<1>8. ASSUME NEW b \in Nat, HasByte(st, b)
      PROVE  HasByte(y, b)
  <2>1. CASE b < st.rx
    BY <2>1, <1>0, <1>2, <1>5 DEF HasByte
  <2>2. CASE Covered(st.ooo, b)
    <3>1. PICK g \in st.ooo : g.off <= b /\ b < g.off + g.len
      BY <2>2 DEF Covered
    <3>2. CASE g.off > r
      BY <3>1, <3>2, <1>5 DEF HasByte, Covered
    <3>3. CASE ~(g.off > r)
      <4>1. ~(g.off <= r /\ r < g.off + g.len)
        BY <1>1 DEF FirstGap, Covered
      <4> QED BY <3>1, <3>3, <4>1, <1>0, <1>2, <1>5 DEF HasByte
    <3> QED BY <3>2, <3>3
  <2> QED BY <1>8, <2>1, <2>2 DEF HasByte
<1> QED BY <1>2, <1>5, <1>6, <1>7, <1>8

(* receive_data and set_fin_offset: nothing is given up that the stream    *)
(* has, and a frame that does not straddle what is there leaves all its    *)
(* bytes.                                                                  *)
LEMMA OutcomeFacts ==
  ASSUME NEW st \in StreamRecord, NEW f \in StreamFrame,
         NEW y \in StreamOutcomes(st, f)
  PROVE  /\ SameBytes([st EXCEPT !.rx = y.rx, !.ooo = y.ooo], y)
         /\ y.rx >= st.rx
         /\ ReceiveClosed(st) => y.rx = st.rx
         /\ y.ooo \subseteq st.ooo \cup {Span(f)}
         /\ \/ y.rx = st.rx
            \/ \E a \in st.ooo \cup {Span(f)} :
                 a.len > 0 /\ y.rx = a.off + a.len
         /\ \A b \in Nat : HasByte(st, b) => HasByte(y, b)
         /\ (/\ ~ReceiveClosed(st) /\ ~Inside(Span(f), st.rx)
             /\ \A g \in st.ooo : g.off = f.off => g.len = f.len)
            => \A b \in f.off .. (f.off + f.len - 1) : HasByte(y, b)
<1> DEFINE Good(z) ==
      /\ SameBytes([st EXCEPT !.rx = z.rx, !.ooo = z.ooo], z)
      /\ z.rx >= st.rx
      /\ ReceiveClosed(st) => z.rx = st.rx
      /\ z.ooo \subseteq st.ooo \cup {Span(f)}
      /\ \/ z.rx = st.rx
         \/ \E a \in st.ooo \cup {Span(f)} : a.len > 0 /\ z.rx = a.off + a.len
      /\ \A b \in Nat : HasByte(st, b) => HasByte(z, b)
      /\ (/\ ~ReceiveClosed(st) /\ ~Inside(Span(f), st.rx)
          /\ \A g \in st.ooo : g.off = f.off => g.len = f.len)
         => \A b \in f.off .. (f.off + f.len - 1) : HasByte(z, b)
<1>0. /\ f.off \in Nat /\ f.len \in Nat /\ f.off + f.len \in Nat
      /\ st.rx \in Nat /\ Span(f) \in Segment
      /\ Span(f).off = f.off /\ Span(f).len = f.len
  BY DEF StreamFrame, StreamRecord, Span, Segment
<1>1. PICK x \in ReceiveData(st, f.off, f.len) :
        y = IF f.fin THEN SetFinOffset(x, f.off + f.len) ELSE x
  BY DEF StreamOutcomes
<1>2. ASSUME ReceiveClosed(st) \/ f.off < st.rx
      PROVE  Good(x)
  <2>1. x = Opened(st)
    BY <1>1, <1>2 DEF ReceiveData
  <2>2. SameBytes(st, x)
    BY <2>1, FinSameBytes
  <2>3. x.rx = st.rx /\ x.ooo = st.ooo
    BY <2>2 DEF SameBytes
  <2>4. [st EXCEPT !.rx = x.rx, !.ooo = x.ooo] = st
    BY <2>3 DEF StreamRecord
  <2>5. ASSUME ~ReceiveClosed(st), ~Inside(Span(f), st.rx),
               NEW b \in f.off .. (f.off + f.len - 1)
        PROVE  HasByte(x, b)
    BY <1>0, <1>2, <2>3, <2>5 DEF HasByte, Inside
  <2> QED BY <1>0, <2>2, <2>3, <2>4, <2>5 DEF HasByte
<1>3. ASSUME ~ReceiveClosed(st), f.off = st.rx
      PROVE  Good(x)
  <2>1. x \in InOrder(st, f.len)
    BY <1>0, <1>1, <1>3 DEF ReceiveData
  <2>2. /\ SameBytes([st EXCEPT !.rx = x.rx, !.ooo = x.ooo], x)
        /\ x.rx >= st.rx + f.len
        /\ x.ooo \subseteq st.ooo
        /\ \/ x.rx = st.rx + f.len
           \/ \E a \in st.ooo : a.len > 0 /\ x.rx = a.off + a.len
        /\ \A b \in Nat : HasByte(st, b) => HasByte(x, b)
    BY <2>1, <1>0, <1>3, FlushFacts
  <2>3. x.rx \in Nat
    BY <2>2 DEF SameBytes, StreamRecord
  <2>4. \/ x.rx = st.rx
        \/ \E a \in st.ooo \cup {Span(f)} : a.len > 0 /\ x.rx = a.off + a.len
    <3>1. CASE x.rx = st.rx + f.len
      BY <3>1, <1>0, <1>3
    <3> QED BY <3>1, <2>2
  <2>5. \A b \in f.off .. (f.off + f.len - 1) : HasByte(x, b)
    BY <1>0, <1>3, <2>2, <2>3 DEF HasByte
  <2> QED BY <1>0, <1>3, <2>2, <2>3, <2>4, <2>5
<1>4. ASSUME ~ReceiveClosed(st), f.off > st.rx
      PROVE  Good(x)
  <2>1. x = OutOfOrder(st, f.off, f.len)
    BY <1>0, <1>1, <1>4 DEF ReceiveData
  <2>2. SameBytes(st, Opened(st))
    BY FinSameBytes
  <2>3. CASE \E g \in st.ooo : g.off = f.off
    <3>1. x = Opened(st)
      BY <2>1, <2>3 DEF OutOfOrder
    <3>2. x.rx = st.rx /\ x.ooo = st.ooo
      BY <3>1, <2>2 DEF SameBytes
    <3>3. [st EXCEPT !.rx = x.rx, !.ooo = x.ooo] = st
      BY <3>2 DEF StreamRecord
    <3>4. ASSUME \A g \in st.ooo : g.off = f.off => g.len = f.len,
                 NEW b \in f.off .. (f.off + f.len - 1)
          PROVE  HasByte(x, b)
      BY <1>0, <2>3, <3>2, <3>4 DEF HasByte, Covered
    <3> QED BY <1>0, <2>2, <3>1, <3>2, <3>3, <3>4 DEF HasByte
  <2>4. CASE ~\E g \in st.ooo : g.off = f.off
    <3>1. x = [Opened(st) EXCEPT !.ooo = @ \cup {Span(f)}]
      BY <2>1, <2>4 DEF OutOfOrder, Span
    <3>2. /\ x \in StreamRecord
          /\ x.rx = st.rx /\ x.ooo = st.ooo \cup {Span(f)}
          /\ x.tx = st.tx /\ x.size = st.size
          /\ x.max_local = st.max_local /\ x.max_remote = st.max_remote
          /\ x.state = Opened(st).state
      BY <3>1, <2>2, <1>0 DEF SameBytes, StreamRecord
    <3>3. SameBytes([st EXCEPT !.rx = x.rx, !.ooo = x.ooo], x)
      BY <3>2, <2>2 DEF SameBytes, StreamRecord, ShouldSendFin, ReceiveClosed
    <3>4. \A b \in f.off .. (f.off + f.len - 1) : HasByte(x, b)
      BY <1>0, <3>2 DEF HasByte, Covered
    <3>5. \A b \in Nat : HasByte(st, b) => HasByte(x, b)
      BY <3>2 DEF HasByte, Covered
    <3> QED BY <1>0, <3>2, <3>3, <3>4, <3>5
  <2> QED BY <2>3, <2>4
<1>5. Good(x)
  BY <1>0, <1>2, <1>3, <1>4
<1>6. x \in StreamRecord
  BY <1>5 DEF SameBytes
<1>7. SameBytes(x, y)
  <2>1. CASE f.fin
    BY <1>0, <1>1, <1>6, <2>1, FinSameBytes
  <2>2. CASE ~f.fin
    BY <1>1, <1>6, <2>2 DEF SameBytes
  <2> QED BY <2>1, <2>2
<1>8. y.rx = x.rx /\ y.ooo = x.ooo
  BY <1>7 DEF SameBytes
<1>9. SameBytes([st EXCEPT !.rx = y.rx, !.ooo = y.ooo], y)
  BY <1>5, <1>7, <1>8 DEF SameBytes
<1>10. \A b \in Nat : HasByte(y, b) <=> HasByte(x, b)
  BY <1>8 DEF HasByte
<1>11. \A b \in f.off .. (f.off + f.len - 1) : HasByte(y, b) <=> HasByte(x, b)
  BY <1>8 DEF HasByte
<1> HIDE DEF Good
<1>12. Good(y)
  BY <1>5, <1>8, <1>9, <1>10, <1>11 DEF Good
<1> QED BY <1>12 DEF Good

-----------------------------------------------------------------------------
(* The refinement of ByteStream. *)

(* What a step of e that only touches its stream s may make of it, before  *)
(* cleanup_done_streams: the reader has no less, and an end stays an end.  *)
Advances(e, s, st) ==
  /\ st \in StreamRecord /\ GoodStream(e, s, st)
  /\ st.rx >= strm[e][s].rx
  /\ AtEnd(strm[e][s]) => AtEnd(st) /\ st.rx = strm[e][s].rx

(* Such a step, with the cleaning up that follows, is a Deliver.           *)
LEMMA AdvanceDelivers ==
  ASSUME Inv, NEW e \in Endpoint, NEW s \in Streams, NEW st,
         Advances(e, s, st), StreamUpdate(e, s, st),
         UNCHANGED <<written, finished>>
  PROVE  Bytes!Deliver(e, s)
<1> DEFINE rx == [x \in Endpoint |-> [t \in Streams |-> strm[x][t].rx]]
           eof == [x \in Endpoint |-> [t \in Streams |->
                     strm[x][t].state \in {"HalfClosedRemote", "Closed"}]]
           table == [strm[e] EXCEPT ![s] = st]
           gone == {t \in Streams : e = "server" /\ FullyDone(table[t])}
           end == st.state \in {"HalfClosedRemote", "Closed"}
           got  == [rx[e] EXCEPT ![s] = st.rx]
           seen == [eof[e] EXCEPT ![s] = end]
<1>1. /\ table \in [Streams -> StreamRecord]
      /\ st.rx \in Nat /\ end \in BOOLEAN /\ gone \in SUBSET Streams
      /\ strm[e][s] \in StreamRecord
  BY DEF Inv, TypeOK, Advances, StreamRecord
<1>2. \A x \in Endpoint, t \in Streams :
        strm'[x][t] = IF x = e THEN IF t \in gone THEN Fresh ELSE table[t]
                      ELSE strm[x][t]
  BY DEF StreamUpdate, Cleanup, Inv, TypeOK
<1>3. \A t \in Streams : /\ got[t] = table[t].rx
                         /\ seen[t] = (table[t].state \in {"HalfClosedRemote", "Closed"})
  BY DEF Inv, TypeOK
<1>4. st.rx \in rx[e][s] .. written[Peer(e)][s]
  BY <1>1, PeerType DEF Advances, GoodStream, StreamRecord, Inv, TypeOK
<1>5. /\ eof[e][s] => end /\ st.rx = rx[e][s]
      /\ end => finished[Peer(e)][s] /\ st.rx = written[Peer(e)][s]
  BY DEF Advances, GoodStream, AtEnd
<1>6. ASSUME NEW t \in gone
      PROVE  e \in {"server"} /\ finished[e][t] /\ seen[t]
  <2>1. GoodStream(e, t, table[t])
    BY DEF Advances, Inv, Content, StreamsOK, TypeOK
  <2> QED BY <2>1, <1>3 DEF FullyDone, GoodStream, ShouldSendFin
<1>7. rx' = [rx EXCEPT ![e] =
               [t \in Streams |-> IF t \in gone THEN 0 ELSE got[t]]]
  <2>1. Fresh.rx = 0
    BY DEF Fresh, NewStream
  <2> HIDE DEF gone, got, table
  <2>2. ASSUME NEW x \in Endpoint, NEW t \in Streams
        PROVE  strm'[x][t].rx = IF x = e THEN IF t \in gone THEN 0 ELSE got[t]
                                ELSE strm[x][t].rx
    BY <1>2, <1>3, <2>1
  <2> QED BY <2>2, Zenon
<1>8. eof' = [eof EXCEPT ![e] = [t \in Streams |-> t \notin gone /\ seen[t]]]
  <2>1. Fresh.state \notin {"HalfClosedRemote", "Closed"}
    BY DEF Fresh, NewStream
  <2> HIDE DEF gone, seen, table
  <2>2. ASSUME NEW x \in Endpoint, NEW t \in Streams
        PROVE  (strm'[x][t].state \in {"HalfClosedRemote", "Closed"})
                 = IF x = e THEN t \notin gone /\ seen[t]
                   ELSE strm[x][t].state \in {"HalfClosedRemote", "Closed"}
    <3>1. CASE x # e
      BY <1>2, <3>1, Zenon
    <3>2. CASE x = e /\ t \in gone
      <4>1. strm'[x][t] = Fresh
        BY <1>2, <3>2
      <4>2. (strm'[x][t].state \in {"HalfClosedRemote", "Closed"}) <=> FALSE
        BY <4>1, <2>1, Zenon
      <4>3. (t \notin gone /\ seen[t]) <=> FALSE
        BY <3>2, Zenon
      <4> QED BY <3>2, <4>2, <4>3
    <3>3. CASE x = e /\ t \notin gone
      <4>1. strm'[x][t] = table[t]
        BY <1>2, <3>3
      <4>2. (t \notin gone /\ seen[t])
              <=> table[t].state \in {"HalfClosedRemote", "Closed"}
        BY <1>3, <3>3, Zenon
      <4> QED BY <3>3, <4>1, <4>2
    <3> QED BY <3>1, <3>2, <3>3
  <2> QED BY <2>2, Zenon
<1> HIDE DEF rx, eof, gone, end, got, seen
<1>9. Bytes!Readable(e, s, st.rx, end)
  BY <1>5 DEF Bytes!Readable, rx, eof
<1>10. \E d \in rx[e][s] .. written[Peer(e)][s], en \in BOOLEAN,
          go \in SUBSET Streams :
         LET gt == [rx[e] EXCEPT ![s] = d]
             sn == [eof[e] EXCEPT ![s] = en]
         IN /\ Bytes!Readable(e, s, d, en)
            /\ \A t \in go : e \in {"server"} /\ finished[e][t] /\ sn[t]
            /\ rx' = [rx EXCEPT ![e] =
                       [t \in Streams |-> IF t \in go THEN 0 ELSE gt[t]]]
            /\ eof' = [eof EXCEPT ![e] = [t \in Streams |-> t \notin go /\ sn[t]]]
  BY <1>1, <1>4, <1>6, <1>7, <1>8, <1>9, Zenon DEF got, seen
<1> QED
  BY <1>10, Zenon DEF Bytes!Deliver, rx, eof

(* A step that leaves what the readers have and what the writers wrote is  *)
(* a stutter of the abstract stream.                                       *)
LEMMA BytesStutter ==
  ASSUME UNCHANGED <<written, finished>>,
         \A x \in Endpoint, t \in Streams :
           /\ strm'[x][t].rx = strm[x][t].rx
           /\ AtEnd(strm'[x][t]) <=> AtEnd(strm[x][t])
  PROVE  UNCHANGED Bytes!bsVars
<1> DEFINE Reads(tab) == [x \in Endpoint |-> [t \in Streams |-> tab[x][t].rx]]
           Ends(tab) == [x \in Endpoint |-> [t \in Streams |->
                     tab[x][t].state \in {"HalfClosedRemote", "Closed"}]]
<1>1. Reads(strm') = Reads(strm)
  OBVIOUS
<1>2. ASSUME NEW x \in Endpoint, NEW t \in Streams
      PROVE  (strm'[x][t].state \in {"HalfClosedRemote", "Closed"})
               = (strm[x][t].state \in {"HalfClosedRemote", "Closed"})
  BY DEF AtEnd
<1>3. Ends(strm') = Ends(strm)
  BY <1>2, Zenon
<1> QED BY <1>1, <1>3, Zenon DEF Bytes!bsVars

(* A step that leaves a stream as it is at e, but for cleaning up. *)
LEMMA StayDelivers ==
  ASSUME Inv, NEW e \in Endpoint, NoStreamUpdate(e),
         UNCHANGED <<written, finished>>
  PROVE  [Bytes!Next]_(Bytes!bsVars)
<1>1. CASE Streams = {}
  BY <1>1, BytesStutter
<1>2. CASE Streams # {}
  <2>1. PICK s \in Streams : TRUE
    BY <1>2
  <2>2. [strm[e] EXCEPT ![s] = strm[e][s]] = strm[e]
    BY DEF Inv, TypeOK
  <2>3. StreamUpdate(e, s, strm[e][s])
    BY <2>2 DEF StreamUpdate, NoStreamUpdate
  <2>4. Advances(e, s, strm[e][s])
    BY DEF Advances, Inv, TypeOK, Content, StreamsOK, StreamRecord
  <2>5. Bytes!Deliver(e, s)
    BY <2>3, <2>4, AdvanceDelivers
  <2> QED BY <2>5 DEF Bytes!Next
<1> QED BY <1>1, <1>2

(* The applications' steps. *)
LEMMA AppBytes ==
  ASSUME Inv, NEW e \in Endpoint, NEW s \in Streams,
         StreamWrite(e, s) \/ StreamClose(e, s)
  PROVE  Bytes!Next
<1> DEFINE st == strm[e][s]
<1>0. st \in StreamRecord /\ GoodStream(e, s, st) /\ ~finished[e][s]
  BY DEF Inv, TypeOK, Content, StreamsOK, StreamWrite, StreamClose, Usable
<1>1. CASE StreamWrite(e, s)
  <2>1. PICK n \in 1 .. (MaxWrite[e] - written[e][s]) :
          /\ strm' = [strm EXCEPT ![e][s] = Write(st, n)]
          /\ written' = [written EXCEPT ![e][s] = @ + n]
          /\ finished' = finished
    BY <1>1 DEF StreamWrite
  <2>2. /\ Write(st, n).rx = st.rx
        /\ AtEnd(Write(st, n)) <=> AtEnd(st)
    BY <1>0 DEF Write, Opened, AtEnd, StreamRecord
  <2>3. \A x \in Endpoint, t \in Streams :
          /\ strm'[x][t].rx = strm[x][t].rx
          /\ AtEnd(strm'[x][t]) <=> AtEnd(strm[x][t])
    BY <2>1, <2>2 DEF Inv, TypeOK
  <2>4. written'[e][s] >= written[e][s]
    BY <2>1, TransferAssumption DEF Inv, TypeOK
  <2>5. written' = [written EXCEPT ![e][s] = written'[e][s]]
    BY <2>1 DEF Inv, TypeOK
  <2>6. Bytes!Write(e, s)
    BY <1>0, <2>1, <2>3, <2>4, <2>5 DEF Bytes!Write, AtEnd
  <2> QED BY <2>6 DEF Bytes!Next
<1>2. CASE StreamClose(e, s)
  <2>1. /\ strm' = [strm EXCEPT ![e][s] = CloseLocal(st)]
        /\ finished' = [finished EXCEPT ![e][s] = TRUE]
        /\ written' = written
    BY <1>2 DEF StreamClose
  <2>2. /\ CloseLocal(st).rx = st.rx
        /\ AtEnd(CloseLocal(st)) <=> AtEnd(st)
    BY <1>0 DEF CloseLocal, AtEnd, StreamRecord, GoodStream, ShouldSendFin
  <2>3. \A x \in Endpoint, t \in Streams :
          /\ strm'[x][t].rx = strm[x][t].rx
          /\ AtEnd(strm'[x][t]) <=> AtEnd(strm[x][t])
    BY <2>1, <2>2 DEF Inv, TypeOK
  <2>4. Bytes!Finish(e, s)
    BY <2>1, <2>3 DEF Bytes!Finish, AtEnd
  <2> QED BY <2>4 DEF Bytes!Next
<1> QED BY <1>1, <1>2

(* Sending and losing: the readers' side of every stream stays as it is. *)
LEMMA SendBytes ==
  ASSUME Inv, NEW e \in Endpoint,
         \/ \E s \in Streams : \/ SendStream(e, s) \/ SendBlocked(e, s)
                               \/ SendMaxStreamData(e, s)
         \/ SendMaxData(e) \/ SendAck(e)
         \/ \E f \in lost[e] : SendLost(e, f)
         \/ ReceiveConnectionClose(e) \/ LossAlarm(e) \/ ProbeTimeout(e)
         \/ \E p \in net : DropPacket(p)
         \/ \E n \in acks[e] : DropAck(e, n)
  PROVE  UNCHANGED Bytes!bsVars
<1>1. UNCHANGED <<written, finished>>
  BY DEF SendStream, SendBlocked, SendMaxStreamData, SendMaxData, SendAck,
         SendLost, ReceiveConnectionClose, LossAlarm, ProbeTimeout,
         DeclareLost, DropPacket, DropAck, appVars
<1>2. CASE strm' = strm
  BY <1>1, <1>2, BytesStutter
<1>3. ASSUME NEW s \in Streams, SendStream(e, s)
      PROVE  UNCHANGED Bytes!bsVars
  <2>1. PICK len : strm' = [strm EXCEPT ![e][s] = AfterPoll(strm[e][s], len)]
    BY <1>3 DEF SendStream
  <2>2. /\ AfterPoll(strm[e][s], len).rx = strm[e][s].rx
        /\ AfterPoll(strm[e][s], len).state = strm[e][s].state
    BY DEF AfterPoll, StreamRecord, Inv, TypeOK
  <2>3. \A x \in Endpoint, t \in Streams :
          /\ strm'[x][t].rx = strm[x][t].rx
          /\ AtEnd(strm'[x][t]) <=> AtEnd(strm[x][t])
    BY <2>1, <2>2 DEF Inv, TypeOK, AtEnd
  <2> QED BY <1>1, <2>3, BytesStutter
<1> QED
  BY <1>2, <1>3 DEF SendBlocked, SendMaxStreamData, SendMaxData, SendAck,
     SendLost, ReceiveConnectionClose, LossAlarm, ProbeTimeout, DeclareLost,
     DropPacket, DropAck

(* Receiving a packet, or an acknowledgement, is a Deliver or a stutter. *)
LEMMA ReceiveBytes ==
  ASSUME Inv, NEW e \in Endpoint,
         \/ \E p \in net : Receive(e, p)
         \/ \E n \in acks[e] : ReceiveAck(e, n)
  PROVE  [Bytes!Next]_(Bytes!bsVars)
<1>0. \A s \in Streams : strm[e][s] \in StreamRecord
                         /\ GoodStream(e, s, strm[e][s])
  BY DEF Inv, TypeOK, Content, StreamsOK
<1>1. ASSUME NEW n \in acks[e], ReceiveAck(e, n)
      PROVE  [Bytes!Next]_(Bytes!bsVars)
  BY <1>1, StayDelivers DEF ReceiveAck, appVars
<1>2. ASSUME NEW p \in net, ReceiveStream(e, p)
      PROVE  [Bytes!Next]_(Bytes!bsVars)
  <2> DEFINE f == p.frame
             st == strm[e][f.id]
  <2>1. f \in StreamFrame /\ f.id \in Streams /\ p.src = Peer(e)
    BY <1>2, NoteType, FrameKinds
       DEF ReceiveStream, StreamFrame, Inv, NotePacket
  <2>2. PICK y \in StreamOutcomes(st, f) : StreamUpdate(e, f.id, y)
    BY <1>2 DEF ReceiveStream
  <2>3. UNCHANGED <<written, finished>>
    BY <1>2 DEF ReceiveStream
  <2>4. GoodFrame(Peer(e), f)
    BY <2>1 DEF Inv, Content, FramesOK
  <2>5. y \in StreamRecord /\ y.rx >= st.rx /\ GoodStream(e, f.id, y)
    BY <1>0, <2>1, <2>4, OutcomeType, OutcomeGood DEF Inv
  <2>6. AtEnd(st) => AtEnd(y) /\ y.rx = st.rx
    <3>1. /\ SameBytes([st EXCEPT !.rx = y.rx, !.ooo = y.ooo], y)
          /\ ReceiveClosed(st) => y.rx = st.rx
      BY <1>0, <2>1, OutcomeFacts, ZenonT(60)
    <3> QED BY <1>0, <2>1, <3>1 DEF SameBytes, ReceiveClosed, AtEnd, StreamRecord
  <2>7. Advances(e, f.id, y)
    BY <2>5, <2>6 DEF Advances
  <2>8. Bytes!Deliver(e, f.id)
    BY <2>1, <2>2, <2>3, <2>7, AdvanceDelivers
  <2> QED BY <2>1, <2>8 DEF Bytes!Next
<1>3. ASSUME NEW p \in net, RefuseStream(e, p)
      PROVE  [Bytes!Next]_(Bytes!bsVars)
  <2> DEFINE f == p.frame
             st == strm[e][f.id]
  <2>1. f.id \in Streams
    BY <1>3, NoteType, FrameKinds DEF RefuseStream, StreamFrame, Inv
  <2>2. strm' = strm \/ strm' = [strm EXCEPT ![e][f.id] = Opened(st)]
    BY <1>3 DEF RefuseStream
  <2>3. Opened(st).rx = st.rx /\ (AtEnd(Opened(st)) <=> AtEnd(st))
    BY <1>0, <2>1 DEF Opened, AtEnd, StreamRecord
  <2>4. \A x \in Endpoint, t \in Streams :
          /\ strm'[x][t].rx = strm[x][t].rx
          /\ AtEnd(strm'[x][t]) <=> AtEnd(strm[x][t])
    <3>1. CASE strm' = strm
      BY <3>1
    <3>2. CASE strm' = [strm EXCEPT ![e][f.id] = Opened(st)]
      <4>1. \A x \in Endpoint, t \in Streams :
              \/ strm'[x][t] = strm[x][t]
              \/ x = e /\ t = f.id /\ strm'[x][t] = Opened(st)
        BY <3>2, <2>1 DEF Inv, TypeOK
      <4> QED BY <4>1, <2>3
    <3> QED BY <2>2, <3>1, <3>2
  <2>5. UNCHANGED <<written, finished>>
    BY <1>3 DEF RefuseStream, appVars
  <2> QED BY <2>4, <2>5, BytesStutter
<1>4. ASSUME NEW p \in net, ReceiveMaxData(e, p) \/ ReceiveDataBlocked(e, p)
      PROVE  [Bytes!Next]_(Bytes!bsVars)
  <2>1. NoStreamUpdate(e) /\ UNCHANGED <<written, finished>>
    BY <1>4 DEF ReceiveMaxData, ReceiveDataBlocked, appVars
  <2> QED BY <2>1, StayDelivers
<1>5. ASSUME NEW p \in net, ReceiveMaxStreamData(e, p)
      PROVE  [Bytes!Next]_(Bytes!bsVars)
  <2> DEFINE f == p.frame
             st == strm[e][f.id]
             y == Announced(st, f.max)
  <2>1. f.id \in Streams /\ f.max \in Nat
    BY <1>5, NoteType, FrameKinds
       DEF ReceiveMaxStreamData, MaxStreamDataFrame, Inv
  <2>2. /\ y \in StreamRecord /\ y.rx = st.rx /\ y.state = st.state
        /\ GoodStream(e, f.id, y)
    BY <1>0, <2>1, AnnouncedKeeps, AnnouncedGood
  <2>3. Advances(e, f.id, y)
    BY <2>2, <1>0, <2>1 DEF Advances, AtEnd, StreamRecord
  <2>4. StreamUpdate(e, f.id, y) /\ UNCHANGED <<written, finished>>
    BY <1>5 DEF ReceiveMaxStreamData, appVars
  <2>5. Bytes!Deliver(e, f.id)
    BY <2>1, <2>3, <2>4, AdvanceDelivers
  <2> QED BY <2>1, <2>5 DEF Bytes!Next
<1>6. ASSUME NEW p \in net, ReceiveStreamDataBlocked(e, p)
      PROVE  [Bytes!Next]_(Bytes!bsVars)
  <2> DEFINE s == p.frame.id
             st == strm[e][s]
             y == Extended(st)
  <2>1. s \in Streams
    BY <1>6, NoteType, FrameKinds, SMTT(40)
       DEF ReceiveStreamDataBlocked, StreamDataBlockedFrame, Inv
  <2>2. /\ y \in StreamRecord /\ y.rx = st.rx /\ y.state = st.state
        /\ GoodStream(e, s, y)
    <3>1. Raised(st.max_local, MaxStreamCredit) \in Nat
      BY <1>0, <2>1, TransferAssumption DEF Raised, Smaller, StreamRecord
    <3>2. y \in StreamRecord
      BY <1>0, <2>1, <3>1, StreamTypes DEF Extended
    <3>3. /\ y.rx = st.rx /\ y.state = st.state /\ y.tx = st.tx
          /\ y.size = st.size /\ y.ooo = st.ooo /\ y.fin = st.fin
      BY <1>0, <2>1 DEF Extended, UpdateMaxStreamDataLocal, StreamRecord
    <3> HIDE DEF y
    <3> QED BY <1>0, <2>1, <3>2, <3>3 DEF GoodStream, ShouldSendFin
  <2>3. Advances(e, s, y)
    BY <2>2, <1>0, <2>1 DEF Advances, AtEnd, StreamRecord
  <2>4. /\ StreamUpdate(e, s, y) \/ NoStreamUpdate(e)
        /\ UNCHANGED <<written, finished>>
    BY <1>6 DEF ReceiveStreamDataBlocked, appVars
  <2>5. CASE StreamUpdate(e, s, y)
    <3>1. Bytes!Deliver(e, s)
      BY <2>1, <2>3, <2>4, <2>5, AdvanceDelivers
    <3> QED BY <2>1, <3>1 DEF Bytes!Next
  <2>6. CASE NoStreamUpdate(e)
    BY <2>4, <2>6, StayDelivers
  <2> QED BY <2>4, <2>5, <2>6
<1> QED BY <1>1, <1>2, <1>3, <1>4, <1>5, <1>6 DEF Receive

(* Every step of the two connections is a step of the abstract stream, or  *)
(* a stutter of it.                                                        *)
LEMMA BytesStep == Inv /\ [Next]_vars => [Bytes!Next]_(Bytes!bsVars)
<1> SUFFICES ASSUME Inv, [Next]_vars PROVE [Bytes!Next]_(Bytes!bsVars)
  OBVIOUS
<1>1. CASE UNCHANGED vars
  BY <1>1, BytesStutter DEF vars, appVars
<1>2. CASE Next
  <2>1. PICK e \in Endpoint :
    \/ \E s \in Streams : StreamWrite(e, s) \/ StreamClose(e, s)
    \/ \/ \E s \in Streams : \/ SendStream(e, s) \/ SendBlocked(e, s)
                             \/ SendMaxStreamData(e, s)
       \/ SendMaxData(e) \/ SendAck(e)
       \/ \E f \in lost[e] : SendLost(e, f)
       \/ ReceiveConnectionClose(e) \/ LossAlarm(e) \/ ProbeTimeout(e)
       \/ \E p \in net : DropPacket(p)
       \/ \E n \in acks[e] : DropAck(e, n)
    \/ \/ \E p \in net : Receive(e, p)
       \/ \E n \in acks[e] : ReceiveAck(e, n)
    BY <1>2 DEF Next
  <2> QED BY <2>1, AppBytes, SendBytes, ReceiveBytes
<1> QED BY <1>1, <1>2

(* The two connections implement the abstract byte stream: with packets    *)
(* lost, repeated, reordered and retransmitted in any way, a reader has a  *)
(* prefix of what was written, it grows, and its end is announced once and *)
(* at the right place, until the server drops a stream that is over at     *)
(* both ends.                                                              *)
THEOREM TransferImplementsByteStream == Spec => ImplementsByteStream
<1>1. Init => Bytes!Init
  <2> SUFFICES ASSUME Init PROVE Bytes!Init
    OBVIOUS
  <2>1. \A e \in Endpoint, s \in Streams :
          strm[e][s].rx = 0 /\ ~AtEnd(strm[e][s])
    BY DEF Init, Fresh, NewStream, AtEnd
  <2>2. [e \in Endpoint |-> [s \in Streams |-> strm[e][s].rx]]
          = [e \in Endpoint |-> [s \in Streams |-> 0]]
    BY <2>1
  <2>3. [e \in Endpoint |-> [s \in Streams |->
           strm[e][s].state \in {"HalfClosedRemote", "Closed"}]]
          = [e \in Endpoint |-> [s \in Streams |-> FALSE]]
    <3>1. ASSUME NEW e \in Endpoint, NEW s \in Streams
          PROVE  (strm[e][s].state \in {"HalfClosedRemote", "Closed"}) = FALSE
      BY <2>1 DEF AtEnd
    <3> QED BY <3>1, Zenon
  <2> QED BY <2>2, <2>3, Zenon DEF Init, Bytes!Init
<1> QED
  BY <1>1, InitInv, StepInv, BytesStep, PTL
     DEF Spec, ImplementsByteStream, Bytes!Spec

-----------------------------------------------------------------------------
(* No byte is forgotten.  The inductive invariant. *)

(* The frames of e that somebody holds, and the parts of its stream s that *)
(* they carry or that the reader has buffered.                             *)
Underway(e) ==
  {p.frame : p \in sent[e] \cup {q \in net : q.src = e}} \cup lost[e]

Spans(e, s) ==
  {Span(f) : f \in {g \in Underway(e) : g.kind = "stream" /\ g.id = s}}
    \cup strm[Peer(e)][s].ooo

(* e's stream has not been dropped: it may have something left to send. *)
Sending(e, s) == ~finished[e][s] \/ ShouldSendFin(strm[e][s])

(* The parts of a stream are cut once: two of them are the same or apart,  *)
(* an empty one is at the end, what the reader has in sequence ends where  *)
(* a part does, and new data is cut behind all of them.  So receive_data,  *)
(* which ignores a segment that starts before rx or where one is buffered, *)
(* ignores nothing it does not have.                                       *)
Placed(e, s) ==
  LET rx == strm[Peer(e)][s].rx
      st == strm[e][s]
  IN /\ \A a, b \in Spans(e, s) : /\ a.off = b.off => a.len = b.len
                                  /\ ~Inside(a, b.off)
     /\ \A a \in Spans(e, s) : /\ ~Inside(a, rx)
                               /\ a.len = 0 =>
                                    finished[e][s] /\ a.off = written[e][s]
     /\ Sending(e, s) => /\ rx <= st.tx
                         /\ \A a \in Spans(e, s) : a.off + a.len <= st.tx
     /\ ~Sending(e, s) => st.tx = st.size

(* What the application was handed is what the stream has in sequence, and *)
(* all of it once the server may have dropped the stream.                  *)
Tally(e, s) ==
  \/ delivered[e][s] = strm[e][s].rx
  \/ MayForget(e, s) /\ delivered[e][s] >= written[Peer(e)][s]

(* The reader's side has byte b, or had it. *)
Reached(e, s, b) == Covered(strm[e][s].ooo, b) \/ b < delivered[e][s]

(* A packet number names one frame. *)
OneFrame ==
  \A e \in Endpoint : \A p \in net, q \in sent[e] :
    p.src = e /\ p.pn = q.pn => p.frame = q.frame

(* A tracked packet that is, or will be, acknowledged has reached the peer *)
(* with all its bytes.                                                     *)
AckedReached ==
  \A e \in Endpoint, s \in Streams :
    closed[Peer(e)] = "open" =>
      \A p \in sent[e], b \in Nat :
        /\ p.pn \in acks[e] \cup received_pns[Peer(e)]
        /\ Carries(p.frame, s, b)
        => Reached(Peer(e), s, b)

(* The half of NothingForgotten that is about bytes. *)
AllBytesKept ==
  \A e \in Endpoint, s \in Streams :
    closed[Peer(e)] = "open" => BytesKept(e, s)

DeliveryInv ==
  /\ Inv
  /\ \A e \in Endpoint, s \in Streams : Placed(e, s) /\ Tally(e, s)
  /\ OneFrame /\ AckedReached /\ AllBytesKept

-----------------------------------------------------------------------------
(* What a step does to the receiving half of a stream: o is the stream     *)
(* before cleanup_done_streams.                                            *)
Reads(e, s, o) ==
  LET st == strm[e][s]
      parts == Spans(Peer(e), s)
  IN /\ o \in StreamRecord /\ GoodStream(e, s, o)
     /\ o.rx >= st.rx
     /\ o.ooo \subseteq parts
     /\ \/ o.rx = st.rx
        \/ \E a \in parts : a.len > 0 /\ o.rx = a.off + a.len
     /\ \A b \in Nat : HasByte(st, b) => HasByte(o, b)

ReadsTo(e, s, o) ==
  /\ Reads(e, s, o)
  /\ delivered'[e][s] = delivered[e][s] + (o.rx - strm[e][s].rx)
  /\ \/ strm'[e][s].rx = o.rx /\ strm'[e][s].ooo = o.ooo
     \/ strm'[e][s] = Fresh /\ MayForget(e, s) /\ o.rx = written[Peer(e)][s]

ReaderStep(e, s) == \E o \in StreamRecord : ReadsTo(e, s, o)

(* The frames and the parts of streams have their types. *)
LEMMA SpansType ==
  ASSUME TypeOK, NEW e \in Endpoint, NEW s \in Streams
  PROVE  /\ Underway(e) \subseteq Frame
         /\ Spans(e, s) \subseteq Segment
         /\ \A f \in Underway(e) :
              f.kind = "stream" /\ f.id = s => Span(f) \in Spans(e, s)
         /\ strm[Peer(e)][s].ooo \subseteq Spans(e, s)
<1>1. Underway(e) \subseteq Frame
  BY DEF TypeOK, Underway, Packet, Frame
<1>2. ASSUME NEW f \in Underway(e), f.kind = "stream"
      PROVE  Span(f) \in Segment
  <2>1. f \in StreamFrame
    BY <1>1, <1>2, FrameKinds
  <2> QED BY <2>1 DEF StreamFrame, Span, Segment
<1>3. strm[Peer(e)][s].ooo \subseteq Segment
  BY PeerType DEF TypeOK, StreamRecord
<1> QED BY <1>1, <1>2, <1>3 DEF Spans

(* A step that leaves the bytes of a stream alone. *)
LEMMA ReaderSame ==
  ASSUME Inv, NEW e \in Endpoint, NEW s \in Streams, NEW st \in StreamRecord,
         GoodStream(e, s, st),
         st.rx = strm[e][s].rx, st.ooo = strm[e][s].ooo,
         delivered'[e][s] = delivered[e][s],
         \/ strm'[e][s] = st
         \/ strm'[e][s] = Fresh /\ e = "server" /\ FullyDone(st)
  PROVE  ReaderStep(e, s)
<1>1. FullyDone(st) /\ e = "server" =>
        MayForget(e, s) /\ st.rx = written[Peer(e)][s]
  BY DEF FullyDone, GoodStream, ShouldSendFin, MayForget, Peer
<1>2. Reads(e, s, st)
  <2>1. strm[e][s].ooo \subseteq Spans(Peer(e), s)
    BY SpansType, PeerType DEF Inv
  <2> QED BY <2>1 DEF Reads, HasByte, StreamRecord, Inv, TypeOK
<1>3. delivered'[e][s] = delivered[e][s] + (st.rx - strm[e][s].rx)
  BY DEF Inv, TypeOK, StreamRecord
<1> QED BY <1>1, <1>2, <1>3 DEF ReaderStep, ReadsTo

(* What a step of e that touches stream s0, or none, makes of the others. *)
LEMMA ReaderUpdate ==
  ASSUME Inv, NEW e \in Endpoint, NEW s0 \in Streams, NEW st0,
         StreamUpdate(e, s0, st0),
         \A x \in Endpoint, s \in Streams :
           x # e \/ s # s0 => delivered'[x][s] = delivered[x][s]
  PROVE  /\ \A x \in Endpoint, s \in Streams :
              x # e \/ s # s0 => ReaderStep(x, s)
         /\ \/ strm'[e][s0] = st0
            \/ strm'[e][s0] = Fresh /\ e = "server" /\ FullyDone(st0)
<1>1. \A x \in Endpoint, s \in Streams :
        /\ x # e => strm'[x][s] = strm[x][s]
        /\ x = e /\ s # s0 =>
             \/ strm'[x][s] = strm[x][s]
             \/ strm'[x][s] = Fresh /\ e = "server" /\ FullyDone(strm[x][s])
        /\ x = e /\ s = s0 =>
             \/ strm'[x][s] = st0
             \/ strm'[x][s] = Fresh /\ e = "server" /\ FullyDone(st0)
  BY DEF StreamUpdate, Cleanup, Inv, TypeOK
<1>2. \A x \in Endpoint, s \in Streams : /\ strm[x][s] \in StreamRecord
                                         /\ GoodStream(x, s, strm[x][s])
  BY DEF Inv, TypeOK, Content, StreamsOK
<1>3. ASSUME NEW x \in Endpoint, NEW s \in Streams, x # e \/ s # s0
      PROVE  ReaderStep(x, s)
  BY <1>1, <1>2, <1>3, ReaderSame
<1> QED BY <1>1, <1>3

(* The same for a step that touches no stream. *)
LEMMA ReaderStay ==
  ASSUME Inv, NEW e \in Endpoint, NoStreamUpdate(e), delivered' = delivered
  PROVE  \A x \in Endpoint, s \in Streams : ReaderStep(x, s)
<1>1. ASSUME NEW x \in Endpoint, NEW s \in Streams
      PROVE  ReaderStep(x, s)
  <2>1. strm[x][s] \in StreamRecord /\ GoodStream(x, s, strm[x][s])
    BY DEF Inv, TypeOK, Content, StreamsOK
  <2>2. \/ strm'[x][s] = strm[x][s]
        \/ strm'[x][s] = Fresh /\ x = "server" /\ FullyDone(strm[x][s])
    BY DEF NoStreamUpdate, Cleanup, Inv, TypeOK
  <2> QED BY <2>1, <2>2, ReaderSame
<1> QED BY <1>1

(* The applications' steps and the sending ones leave the readers alone. *)
LEMMA ReaderAlone ==
  ASSUME Inv, delivered' = delivered,
         \A x \in Endpoint, s \in Streams :
           /\ strm'[x][s].rx = strm[x][s].rx
           /\ strm'[x][s].ooo = strm[x][s].ooo
  PROVE  \A x \in Endpoint, s \in Streams : ReaderStep(x, s)
<1>1. ASSUME NEW x \in Endpoint, NEW s \in Streams
      PROVE  ReaderStep(x, s)
  <2>1. strm[x][s] \in StreamRecord /\ GoodStream(x, s, strm[x][s])
    BY DEF Inv, TypeOK, Content, StreamsOK
  <2>2. Reads(x, s, strm[x][s])
    BY <2>1, SpansType, PeerType DEF Reads, Inv, StreamRecord
  <2>3. delivered'[x][s] = delivered[x][s] + (strm[x][s].rx - strm[x][s].rx)
    BY <2>1 DEF Inv, TypeOK, StreamRecord
  <2> QED BY <2>1, <2>2, <2>3 DEF ReaderStep, ReadsTo
<1> QED BY <1>1

(* A STREAM frame, with the cleaning up that follows: what was in the      *)
(* stream stays there, and where the stream is cut once all of the frame   *)
(* gets there.                                                             *)
LEMMA ReaderReceives ==
  ASSUME Inv, NEW e \in Endpoint, NEW p \in net, ReceiveStream(e, p)
  PROVE  /\ \A x \in Endpoint, s \in Streams : ReaderStep(x, s)
         /\ p.frame.id \in Streams
         /\ Placed(Peer(e), p.frame.id) =>
              \E o \in StreamRecord :
                /\ ReadsTo(e, p.frame.id, o)
                /\ \A b \in Nat : Carries(p.frame, p.frame.id, b) =>
                     HasByte(o, b) /\ b < written[Peer(e)][p.frame.id]
<1> DEFINE f == p.frame
           st == strm[e][f.id]
<1>1. f \in StreamFrame /\ f.id \in Streams /\ p.src = Peer(e)
  BY NoteType, FrameKinds DEF ReceiveStream, StreamFrame, Inv, NotePacket
<1>2. PICK o \in StreamOutcomes(st, f) :
        /\ StreamUpdate(e, f.id, o)
        /\ delivered' = [delivered EXCEPT ![e][f.id] = @ + (o.rx - st.rx)]
  BY DEF ReceiveStream
<1>3. st \in StreamRecord /\ GoodStream(e, f.id, st)
  BY <1>1 DEF Inv, TypeOK, Content, StreamsOK
<1>4. GoodFrame(Peer(e), f)
  BY <1>1 DEF Inv, Content, FramesOK
<1>5. o \in StreamRecord /\ GoodStream(e, f.id, o)
  BY <1>1, <1>3, <1>4, OutcomeType, OutcomeGood DEF Inv
<1>6. f \in Underway(Peer(e))
  BY <1>1 DEF Underway
<1>7. st.ooo \cup {Span(f)} \subseteq Spans(Peer(e), f.id)
  BY <1>1, <1>6, SpansType, PeerType DEF Inv, StreamFrame
<1>8. Reads(e, f.id, o)
  <2>1. /\ o.rx >= st.rx
        /\ o.ooo \subseteq st.ooo \cup {Span(f)}
        /\ \/ o.rx = st.rx
           \/ \E a \in st.ooo \cup {Span(f)} :
                a.len > 0 /\ o.rx = a.off + a.len
        /\ \A b \in Nat : HasByte(st, b) => HasByte(o, b)
    <3> HIDE DEF st, f
    <3> QED BY <1>1, <1>3, OutcomeFacts, Zenon
  <2> QED BY <1>5, <1>7, <2>1 DEF Reads
<1>9. \A x \in Endpoint, s \in Streams :
        x # e \/ s # f.id => delivered'[x][s] = delivered[x][s]
  BY <1>1, <1>2 DEF Inv, TypeOK
<1>10. /\ \A x \in Endpoint, s \in Streams :
            x # e \/ s # f.id => ReaderStep(x, s)
       /\ \/ strm'[e][f.id] = o
          \/ strm'[e][f.id] = Fresh /\ e = "server" /\ FullyDone(o)
  BY <1>1, <1>2, <1>9, ReaderUpdate
<1>11. FullyDone(o) /\ e = "server" =>
         MayForget(e, f.id) /\ o.rx = written[Peer(e)][f.id]
  BY <1>5 DEF FullyDone, GoodStream, ShouldSendFin, MayForget, Peer
<1>12. delivered'[e][f.id] = delivered[e][f.id] + (o.rx - st.rx)
  BY <1>1, <1>2 DEF Inv, TypeOK
<1>13. ReadsTo(e, f.id, o)
  BY <1>5, <1>8, <1>10, <1>11, <1>12 DEF ReadsTo
<1>14. ASSUME Placed(Peer(e), f.id), NEW b \in Nat, Carries(f, f.id, b)
       PROVE  HasByte(o, b) /\ b < written[Peer(e)][f.id]
  <2>1. /\ f.off \in Nat /\ f.len \in Nat /\ st.rx \in Nat /\ o.rx \in Nat
        /\ written[Peer(e)][f.id] \in Nat
    BY <1>1, <1>3, <1>5, PeerType DEF StreamFrame, StreamRecord, Inv, TypeOK
  <2>2. f.off <= b /\ b < f.off + f.len /\ b < written[Peer(e)][f.id]
    BY <1>1, <1>4, <1>14, <2>1 DEF Carries, GoodFrame, StreamFrame
  <2>3. CASE ReceiveClosed(st)
    <3>1. st.rx = written[Peer(e)][f.id]
      BY <1>3, <2>3 DEF ReceiveClosed, GoodStream
    <3> QED BY <1>8, <2>1, <2>2, <3>1 DEF HasByte, Reads
  <2>4. CASE ~ReceiveClosed(st)
    <3>1. /\ ~Inside(Span(f), st.rx)
          /\ \A g \in st.ooo : g.off = f.off => g.len = f.len
      BY <1>7, <1>14, PeerType DEF Placed, Span
    <3>2. b \in f.off .. (f.off + f.len - 1)
      BY <2>1, <2>2
    <3>3. \A c \in f.off .. (f.off + f.len - 1) : HasByte(o, c)
      <4> HIDE DEF st, f
      <4> QED BY <1>1, <1>3, <2>4, <3>1, OutcomeFacts, Zenon
    <3> QED BY <2>2, <3>2, <3>3
  <2> QED BY <2>3, <2>4
<1>15. ReaderStep(e, f.id)
  BY <1>5, <1>13 DEF ReaderStep
<1> QED BY <1>1, <1>5, <1>10, <1>13, <1>14, <1>15

(* The steps that touch no stream. *)
Quiet(e) ==
  \/ \E s \in Streams : SendBlocked(e, s) \/ SendMaxStreamData(e, s)
  \/ SendMaxData(e) \/ SendAck(e)
  \/ \E f \in lost[e] : SendLost(e, f)
  \/ ReceiveConnectionClose(e) \/ LossAlarm(e) \/ ProbeTimeout(e)
  \/ \E p \in net : DropPacket(p)
  \/ \E n \in acks[e] : DropAck(e, n)

(* The steps of Next, in four classes. *)
LEMMA NextCases ==
  ASSUME Next
  PROVE  \E e \in Endpoint :
           \/ \E s \in Streams : \/ StreamWrite(e, s) \/ StreamClose(e, s)
                                 \/ SendStream(e, s)
           \/ Quiet(e)
           \/ \E p \in net : Receive(e, p)
           \/ \E n \in acks[e] : ReceiveAck(e, n)
BY DEF Next, Quiet

(* A quiet step changes no stream and nothing of the applications. *)
LEMMA QuietSteps ==
  ASSUME NEW e \in Endpoint, Quiet(e)
  PROVE  UNCHANGED <<strm, appVars>>
BY DEF Quiet, SendBlocked, SendMaxStreamData, SendMaxData, SendAck,
   SendLost, ReceiveConnectionClose, LossAlarm, ProbeTimeout, DeclareLost,
   DropPacket, DropAck

(* Every step is a ReaderStep of every stream. *)
LEMMA ReaderSteps ==
  ASSUME Inv, Next
  PROVE  \A x \in Endpoint, s \in Streams : ReaderStep(x, s)
<1> DEFINE Goal == \A x \in Endpoint, s \in Streams : ReaderStep(x, s)
<1>0. \A x \in Endpoint, s \in Streams : /\ strm[x][s] \in StreamRecord
                                         /\ GoodStream(x, s, strm[x][s])
  BY DEF Inv, TypeOK, Content, StreamsOK
<1>1. ASSUME NEW e \in Endpoint, NEW s \in Streams,
             StreamWrite(e, s) \/ StreamClose(e, s) \/ SendStream(e, s)
      PROVE  Goal
  <2>1. PICK st : /\ strm' = [strm EXCEPT ![e][s] = st]
                  /\ st.rx = strm[e][s].rx /\ st.ooo = strm[e][s].ooo
    <3>1. \A n : /\ Write(strm[e][s], n).rx = strm[e][s].rx
                 /\ Write(strm[e][s], n).ooo = strm[e][s].ooo
      BY <1>0 DEF Write, Opened, StreamRecord
    <3>2. /\ CloseLocal(strm[e][s]).rx = strm[e][s].rx
          /\ CloseLocal(strm[e][s]).ooo = strm[e][s].ooo
      BY <1>0 DEF CloseLocal, StreamRecord
    <3>3. \A n : /\ AfterPoll(strm[e][s], n).rx = strm[e][s].rx
                 /\ AfterPoll(strm[e][s], n).ooo = strm[e][s].ooo
      BY <1>0 DEF AfterPoll, StreamRecord
    <3>4. \/ \E n : strm' = [strm EXCEPT ![e][s] = Write(strm[e][s], n)]
          \/ strm' = [strm EXCEPT ![e][s] = CloseLocal(strm[e][s])]
          \/ \E n : strm' = [strm EXCEPT ![e][s] = AfterPoll(strm[e][s], n)]
      BY <1>1 DEF StreamWrite, StreamClose, SendStream
    <3> QED BY <3>1, <3>2, <3>3, <3>4
  <2>2. \A x \in Endpoint, t \in Streams :
          /\ strm'[x][t].rx = strm[x][t].rx
          /\ strm'[x][t].ooo = strm[x][t].ooo
    BY <2>1 DEF Inv, TypeOK
  <2>3. delivered' = delivered
    BY <1>1 DEF StreamWrite, StreamClose, SendStream, appVars
  <2> QED BY <2>2, <2>3, ReaderAlone
<1>2. ASSUME UNCHANGED <<strm, appVars>>
      PROVE  Goal
  BY <1>2, ReaderAlone DEF appVars
<1>3. ASSUME NEW e \in Endpoint, NEW n \in acks[e], ReceiveAck(e, n)
      PROVE  Goal
  BY <1>3, ReaderStay DEF ReceiveAck, appVars
<1>4. ASSUME NEW e \in Endpoint, NEW p \in net, RefuseStream(e, p)
      PROVE  Goal
  <2> DEFINE f == p.frame
             st == strm[e][f.id]
  <2>1. f.id \in Streams
    BY <1>4, NoteType, FrameKinds DEF RefuseStream, StreamFrame, Inv
  <2>2. strm' = strm \/ strm' = [strm EXCEPT ![e][f.id] = Opened(st)]
    BY <1>4 DEF RefuseStream
  <2>3. Opened(st).rx = st.rx /\ Opened(st).ooo = st.ooo
    BY <1>0, <2>1 DEF Opened, StreamRecord
  <2>4. \A x \in Endpoint, t \in Streams :
          \/ strm'[x][t] = strm[x][t]
          \/ x = e /\ t = f.id /\ strm'[x][t] = Opened(st)
    BY <2>1, <2>2 DEF Inv, TypeOK
  <2>5. delivered' = delivered
    BY <1>4 DEF RefuseStream, appVars
  <2> QED BY <2>3, <2>4, <2>5, ReaderAlone
<1>5. ASSUME NEW e \in Endpoint, NEW p \in net,
             ReceiveMaxData(e, p) \/ ReceiveDataBlocked(e, p)
      PROVE  Goal
  BY <1>5, ReaderStay DEF ReceiveMaxData, ReceiveDataBlocked, appVars
<1>6. ASSUME NEW e \in Endpoint, NEW s \in Streams, NEW st \in StreamRecord,
             StreamUpdate(e, s, st), delivered' = delivered,
             GoodStream(e, s, st),
             st.rx = strm[e][s].rx, st.ooo = strm[e][s].ooo
      PROVE  Goal
  BY <1>6, ReaderUpdate, ReaderSame
<1>7. ASSUME NEW e \in Endpoint, NEW p \in net, ReceiveMaxStreamData(e, p)
      PROVE  Goal
  <2> DEFINE f == p.frame
             st == strm[e][f.id]
             y == Announced(st, f.max)
  <2>1. f.id \in Streams /\ f.max \in Nat
    BY <1>7, NoteType, FrameKinds
       DEF ReceiveMaxStreamData, MaxStreamDataFrame, Inv
  <2>2. /\ y \in StreamRecord /\ y.rx = st.rx /\ y.ooo = st.ooo
        /\ GoodStream(e, f.id, y)
    BY <1>0, <2>1, AnnouncedKeeps, AnnouncedGood
  <2>3. StreamUpdate(e, f.id, y) /\ delivered' = delivered
    BY <1>7 DEF ReceiveMaxStreamData, appVars
  <2> QED BY <2>1, <2>2, <2>3, <1>6
<1>8. ASSUME NEW e \in Endpoint, NEW p \in net, ReceiveStreamDataBlocked(e, p)
      PROVE  Goal
  <2> DEFINE s == p.frame.id
             st == strm[e][s]
             y == Extended(st)
  <2>1. s \in Streams
    BY <1>8, NoteType, FrameKinds
       DEF ReceiveStreamDataBlocked, StreamDataBlockedFrame, Inv
  <2>2. Raised(st.max_local, MaxStreamCredit) \in Nat
    BY <1>0, <2>1, TransferAssumption DEF Raised, Smaller, StreamRecord
  <2>3. y \in StreamRecord
    BY <1>0, <2>1, <2>2, StreamTypes DEF Extended
  <2>4. /\ y.rx = st.rx /\ y.state = st.state /\ y.tx = st.tx
        /\ y.size = st.size /\ y.ooo = st.ooo /\ y.fin = st.fin
    BY <1>0, <2>1 DEF Extended, UpdateMaxStreamDataLocal, StreamRecord
  <2>5. /\ StreamUpdate(e, s, y) \/ NoStreamUpdate(e)
        /\ delivered' = delivered
    BY <1>8 DEF ReceiveStreamDataBlocked, appVars
  <2> HIDE DEF y
  <2>6. GoodStream(e, s, y)
    BY <1>0, <2>1, <2>4 DEF GoodStream, ShouldSendFin
  <2> QED BY <2>1, <2>3, <2>4, <2>5, <2>6, <1>6, ReaderStay
<1>9. PICK e \in Endpoint :
        \/ \E s \in Streams : \/ StreamWrite(e, s) \/ StreamClose(e, s)
                              \/ SendStream(e, s)
        \/ Quiet(e)
        \/ \E p \in net : Receive(e, p)
        \/ \E n \in acks[e] : ReceiveAck(e, n)
  BY NextCases
<1> HIDE DEF Goal
<1>10. ASSUME NEW p \in net, Receive(e, p)
       PROVE  Goal
  <2>1. CASE ReceiveStream(e, p)
    BY <2>1, ReaderReceives DEF Goal
  <2> QED BY <1>10, <2>1, <1>4, <1>5, <1>7, <1>8 DEF Receive
<1>11. Goal
  BY <1>1, <1>2, <1>3, <1>9, <1>10, QuietSteps
<1> QED BY <1>11 DEF Goal

-----------------------------------------------------------------------------
(* A stream that has heard of the end of what it receives. *)
Heard(st) == st.fin # NoFin \/ AtEnd(st)

(* check_fin_ready does not lose the end. *)
LEMMA FinReadyHeard ==
  ASSUME NEW z \in StreamRecord, z.state \notin {"Idle", "Reset"}
  PROVE  LET y == CheckFinReady(z)
         IN /\ y.fin_sent = z.fin_sent /\ y.state \notin {"Idle", "Reset"}
            /\ Heard(z) => Heard(y)
<1>1. z.state \in {"Open", "HalfClosedLocal", "HalfClosedRemote", "Closed"}
  BY DEF StreamRecord, StreamState
<1> QED BY <1>1 DEF CheckFinReady, CloseRemote, Heard, AtEnd, StreamRecord

(* Nor does receive_data, and the end that a frame carries is heard of. *)
LEMMA OutcomeHeard ==
  ASSUME NEW st \in StreamRecord, st.state # "Reset", NEW f \in StreamFrame,
         NEW y \in StreamOutcomes(st, f)
  PROVE  /\ y.fin_sent = st.fin_sent
         /\ Heard(st) \/ f.fin => Heard(y)
<1>0. /\ f.off \in Nat /\ f.len \in Nat /\ f.off + f.len \in Nat
      /\ [off |-> f.off, len |-> f.len] \in Segment
  BY DEF StreamFrame, Segment
<1>1. PICK x \in ReceiveData(st, f.off, f.len) :
        y = IF f.fin THEN SetFinOffset(x, f.off + f.len) ELSE x
  BY DEF StreamOutcomes
<1> DEFINE Kept(z) == /\ z \in StreamRecord /\ z.fin_sent = st.fin_sent
                      /\ z.state \notin {"Idle", "Reset"}
                      /\ Heard(st) => Heard(z)
<1>2. Kept(Opened(st))
  BY DEF Opened, Heard, AtEnd, StreamRecord, StreamState
<1>3. ASSUME NEW r \in Nat, NEW o \in SUBSET Segment
      PROVE  Kept([Opened(st) EXCEPT !.rx = r, !.ooo = o])
  BY <1>2 DEF Heard, AtEnd, StreamRecord
<1>4. ASSUME x \in InOrder(st, f.len)
      PROVE  Kept(x)
  <2>1. PICK r \in (st.rx + f.len) .. st.max_local :
          x = CheckFinReady([Opened(st) EXCEPT !.rx = r,
                                               !.ooo = {g \in @ : g.off > r}])
    BY <1>4 DEF InOrder
  <2> DEFINE z == [Opened(st) EXCEPT !.rx = r, !.ooo = {g \in @ : g.off > r}]
  <2>2. r \in Nat /\ {g \in Opened(st).ooo : g.off > r} \in SUBSET Segment
    BY <1>0, <1>2, <2>1 DEF StreamRecord
  <2>3. Kept(z)
    BY <1>3, <2>2
  <2> HIDE DEF z
  <2>4. x \in StreamRecord
    BY <2>1, <2>3, FinSameBytes DEF SameBytes, z
  <2> QED BY <2>1, <2>3, <2>4, FinReadyHeard DEF z
<1>5. ASSUME x = OutOfOrder(st, f.off, f.len)
      PROVE  Kept(x)
  <2>1. /\ Opened(st).rx \in Nat /\ Opened(st).ooo \in SUBSET Segment
        /\ [Opened(st) EXCEPT !.ooo = @ \cup {[off |-> f.off, len |-> f.len]}]
             = [Opened(st) EXCEPT !.rx = Opened(st).rx,
                  !.ooo = Opened(st).ooo \cup {[off |-> f.off, len |-> f.len]}]
    BY <1>2 DEF StreamRecord
  <2>2. Kept([Opened(st) EXCEPT !.ooo = @ \cup {[off |-> f.off, len |-> f.len]}])
    BY <1>0, <1>3, <2>1
  <2> QED BY <1>2, <1>5, <2>2 DEF OutOfOrder
<1>6. Kept(x)
  BY <1>1, <1>2, <1>4, <1>5 DEF ReceiveData
<1>7. CASE ~f.fin
  BY <1>1, <1>6, <1>7
<1>8. CASE f.fin
  <2> DEFINE off == f.off + f.len
             z == [x EXCEPT !.fin = IF @ = NoFin \/ off < @ THEN off ELSE @]
  <2>1. /\ z \in StreamRecord /\ z.fin_sent = st.fin_sent /\ z.fin # NoFin
        /\ z.state \notin {"Idle", "Reset"}
    BY <1>0, <1>6 DEF StreamRecord, NoFin
  <2>2. y = CheckFinReady(z)
    BY <1>1, <1>8 DEF SetFinOffset
  <2> HIDE DEF z
  <2> QED BY <2>1, <2>2, FinReadyHeard DEF Heard
<1> QED BY <1>7, <1>8

(* What a step does to a stream, but for its bytes and limits. *)

SendSame(st, y) ==
  /\ y.tx = st.tx /\ y.size = st.size /\ y.fin_sent = st.fin_sent
  /\ ShouldSendFin(y) <=> ShouldSendFin(st)
  /\ Heard(st) => Heard(y)

SenderKept(e, s) ==
  \/ SendSame(strm[e][s], strm'[e][s])
  \/ /\ strm'[e][s] = Fresh /\ MayForget(e, s)
     /\ strm[e][s].tx = strm[e][s].size /\ strm[e][s].fin_sent

(* What is received leaves the sending halves alone, but for the streams   *)
(* that cleanup_done_streams drops: they have nothing left to send.        *)
LEMMA ReceiveKeepsSender ==
  ASSUME Inv, NEW e \in Endpoint,
         \/ \E p \in net : Receive(e, p)
         \/ \E n \in acks[e] : ReceiveAck(e, n)
  PROVE  /\ UNCHANGED <<written, finished>>
         /\ \A x \in Endpoint, s \in Streams : SenderKept(x, s)
<1> DEFINE Goal == \A x \in Endpoint, s \in Streams : SenderKept(x, s)
<1>0. \A x \in Endpoint, s \in Streams : /\ strm[x][s] \in StreamRecord
                                         /\ GoodStream(x, s, strm[x][s])
  BY DEF Inv, TypeOK, Content, StreamsOK
<1>1. ASSUME NEW x \in Endpoint, NEW s \in Streams, NEW y \in StreamRecord,
             GoodStream(x, s, y), SendSame(strm[x][s], y),
             \/ strm'[x][s] = y
             \/ strm'[x][s] = Fresh /\ x = "server" /\ FullyDone(y)
      PROVE  SenderKept(x, s)
  <2>1. FullyDone(y) /\ x = "server" =>
          MayForget(x, s) /\ y.tx = y.size /\ y.fin_sent
    BY <1>1 DEF FullyDone, GoodStream, ShouldSendFin, MayForget, Peer,
                StreamRecord
  <2> QED BY <1>1, <2>1 DEF SenderKept, SendSame
<1>2. \A x \in Endpoint, s \in Streams : SendSame(strm[x][s], strm[x][s])
  BY DEF SendSame
<1>3. ASSUME NoStreamUpdate(e)
      PROVE  Goal
  <2>1. ASSUME NEW x \in Endpoint, NEW s \in Streams
        PROVE  SenderKept(x, s)
    <3>1. \/ strm'[x][s] = strm[x][s]
          \/ strm'[x][s] = Fresh /\ x = "server" /\ FullyDone(strm[x][s])
      BY <1>3 DEF NoStreamUpdate, Cleanup, Inv, TypeOK
    <3> QED BY <1>0, <1>1, <1>2, <3>1
  <2> QED BY <2>1
<1>4. ASSUME NEW s0 \in Streams, NEW y \in StreamRecord,
             StreamUpdate(e, s0, y),
             GoodStream(e, s0, y), SendSame(strm[e][s0], y)
      PROVE  Goal
  <2>1. ASSUME NEW x \in Endpoint, NEW s \in Streams
        PROVE  SenderKept(x, s)
    <3>1. /\ x # e \/ s # s0 =>
               \/ strm'[x][s] = strm[x][s]
               \/ strm'[x][s] = Fresh /\ x = "server" /\ FullyDone(strm[x][s])
          /\ x = e /\ s = s0 =>
               \/ strm'[x][s] = y
               \/ strm'[x][s] = Fresh /\ x = "server" /\ FullyDone(y)
      BY <1>4 DEF StreamUpdate, Cleanup, Inv, TypeOK
    <3> QED BY <1>0, <1>1, <1>2, <1>4, <3>1
  <2> QED BY <2>1
<1>5. ASSUME NEW p \in net, ReceiveStream(e, p)
      PROVE  Goal
  <2> DEFINE f == p.frame
             st == strm[e][f.id]
  <2>1. f \in StreamFrame /\ f.id \in Streams /\ p.src = Peer(e)
    BY <1>5, NoteType, FrameKinds DEF ReceiveStream, StreamFrame, Inv, NotePacket
  <2>2. PICK o \in StreamOutcomes(st, f) : StreamUpdate(e, f.id, o)
    BY <1>5 DEF ReceiveStream
  <2>3. GoodFrame(Peer(e), f)
    BY <2>1 DEF Inv, Content, FramesOK
  <2>4. o \in StreamRecord /\ GoodStream(e, f.id, o)
    BY <1>0, <2>1, <2>3, OutcomeType, OutcomeGood DEF Inv
  <2>5. SameBytes([st EXCEPT !.rx = o.rx, !.ooo = o.ooo], o)
    <3>1. st \in StreamRecord
      BY <1>0, <2>1
    <3> HIDE DEF st, f
    <3> QED BY <2>1, <3>1, OutcomeFacts, Zenon
  <2>6. SendSame(st, o)
    <3>1. o.fin_sent = st.fin_sent /\ (Heard(st) => Heard(o))
      <4>1. st \in StreamRecord /\ st.state # "Reset"
        BY <1>0, <2>1 DEF GoodStream
      <4> HIDE DEF st, f
      <4> QED BY <2>1, <4>1, OutcomeHeard
    <3> QED BY <1>0, <2>1, <2>5, <3>1
            DEF SendSame, SameBytes, ShouldSendFin, StreamRecord
  <2> QED BY <1>4, <2>1, <2>2, <2>4, <2>6
<1>6. ASSUME NEW p \in net, RefuseStream(e, p)
      PROVE  Goal
  <2> DEFINE f == p.frame
             st == strm[e][f.id]
  <2>1. f.id \in Streams
    BY <1>6, NoteType, FrameKinds DEF RefuseStream, StreamFrame, Inv
  <2>2. strm' = strm \/ strm' = [strm EXCEPT ![e][f.id] = Opened(st)]
    BY <1>6 DEF RefuseStream
  <2>3. SendSame(st, Opened(st))
    BY <1>0, <2>1 DEF Opened, StreamRecord, SendSame, ShouldSendFin, Heard, AtEnd
  <2>4. \A x \in Endpoint, t \in Streams :
          \/ strm'[x][t] = strm[x][t]
          \/ x = e /\ t = f.id /\ strm'[x][t] = Opened(st)
    BY <2>1, <2>2 DEF Inv, TypeOK
  <2> QED BY <1>2, <2>3, <2>4 DEF SenderKept
<1>7. ASSUME NEW p \in net, ReceiveMaxStreamData(e, p)
      PROVE  Goal
  <2> DEFINE f == p.frame
             st == strm[e][f.id]
             y == Announced(st, f.max)
  <2>1. f.id \in Streams /\ f.max \in Nat
    BY <1>7, NoteType, FrameKinds
       DEF ReceiveMaxStreamData, MaxStreamDataFrame, Inv
  <2>2. y \in StreamRecord /\ SendSame(st, y) /\ GoodStream(e, f.id, y)
    BY <1>0, <2>1, AnnouncedKeeps, AnnouncedGood
       DEF SendSame, ShouldSendFin, Heard, AtEnd
  <2>3. StreamUpdate(e, f.id, y)
    BY <1>7 DEF ReceiveMaxStreamData
  <2> QED BY <2>1, <2>2, <2>3, <1>4
<1>8. ASSUME NEW p \in net, ReceiveStreamDataBlocked(e, p)
      PROVE  Goal
  <2> DEFINE s == p.frame.id
             st == strm[e][s]
             y == Extended(st)
  <2>1. s \in Streams
    BY <1>8, NoteType, FrameKinds
       DEF ReceiveStreamDataBlocked, StreamDataBlockedFrame, Inv
  <2>2. Raised(st.max_local, MaxStreamCredit) \in Nat
    BY <1>0, <2>1, TransferAssumption DEF Raised, Smaller, StreamRecord
  <2>3. y \in StreamRecord
    BY <1>0, <2>1, <2>2, StreamTypes DEF Extended
  <2>4. /\ y.rx = st.rx /\ y.state = st.state /\ y.tx = st.tx
        /\ y.size = st.size /\ y.ooo = st.ooo /\ y.fin = st.fin
        /\ y.fin_sent = st.fin_sent
    BY <1>0, <2>1 DEF Extended, UpdateMaxStreamDataLocal, StreamRecord
  <2>5. StreamUpdate(e, s, y) \/ NoStreamUpdate(e)
    BY <1>8 DEF ReceiveStreamDataBlocked
  <2> HIDE DEF y
  <2>6. GoodStream(e, s, y) /\ SendSame(st, y)
    BY <1>0, <2>1, <2>4 DEF GoodStream, ShouldSendFin, SendSame, Heard, AtEnd
  <2> QED BY <2>1, <2>3, <2>5, <2>6, <1>3, <1>4
<1>9. Goal
  <2> HIDE DEF Goal
  <2>1. ASSUME NEW p \in net, Receive(e, p)
        PROVE  Goal
    <3>1. CASE ReceiveMaxData(e, p) \/ ReceiveDataBlocked(e, p)
      BY <3>1, <1>3 DEF ReceiveMaxData, ReceiveDataBlocked
    <3> QED BY <2>1, <3>1, <1>5, <1>6, <1>7, <1>8 DEF Receive
  <2>2. ASSUME NEW n \in acks[e], ReceiveAck(e, n)
        PROVE  Goal
    BY <2>2, <1>3, SMTT(40) DEF ReceiveAck
  <2> QED BY <2>1, <2>2
<1>10. UNCHANGED <<written, finished>>
  BY DEF Receive, ReceiveStream, RefuseStream, ReceiveMaxData,
         ReceiveMaxStreamData, ReceiveDataBlocked, ReceiveStreamDataBlocked,
         ReceiveAck, appVars
<1> QED BY <1>9, <1>10

(* What becomes of the sending half of stream s at e: an application that  *)
(* has ended its side writes no more, a stream that still sends has cut no *)
(* fewer bytes, one that does not has an empty buffer, and a byte that     *)
(* leaves the buffer is in a packet that is tracked.                       *)
WriterStep(e, s) ==
  LET st == strm[e][s]
      new == strm'[e][s]
  IN /\ finished[e][s] => finished'[e][s] /\ written'[e][s] = written[e][s]
     /\ written[e][s] <= written'[e][s]
     /\ Sending(e, s)' => Sending(e, s) /\ st.tx <= new.tx
     /\ ~Sending(e, s)' => new.tx = new.size
     /\ \A b \in Nat :
          \/ st.tx <= b /\ b < st.size
          \/ written[e][s] <= b /\ b < written'[e][s]
          => \/ new.tx <= b /\ b < new.size
             \/ \E p \in sent'[e] : Carries(p.frame, s, b)

(* What send does to the packets: one more is under way and tracked. *)
LEMMA EmitFacts ==
  ASSUME TypeOK, NEW e \in Endpoint, NEW f \in Frame, Emit(e, f)
  PROVE  \E pkt \in Packet :
           /\ pkt.src = e /\ pkt.frame = f /\ pkt.pn \in FreePn(e)
           /\ net' = net \cup {pkt}
           /\ sent'[e] = sent[e] \cup {pkt}
           /\ \A x \in Endpoint : x # e => sent'[x] = sent[x]
<1>1. PICK n \in FreePn(e) :
        LET pkt == [src |-> e, pn |-> n, frame |-> f]
        IN /\ pkt \in Packet
           /\ net' = net \cup {pkt}
           /\ sent' = [sent EXCEPT ![e] = @ \cup {pkt}]
  BY EmitType
<1> DEFINE pkt == [src |-> e, pn |-> n, frame |-> f]
<1>2. pkt \in Packet /\ pkt.src = e /\ pkt.frame = f /\ pkt.pn \in FreePn(e)
  BY <1>1
<1>3. net' = net \cup {pkt} /\ sent' = [sent EXCEPT ![e] = @ \cup {pkt}]
  BY <1>1
<1> HIDE DEF pkt
<1>4. /\ sent'[e] = sent[e] \cup {pkt}
      /\ \A x \in Endpoint : x # e => sent'[x] = sent[x]
  BY <1>3 DEF TypeOK
<1> QED BY <1>2, <1>3, <1>4

(* The frame that SendStream makes, and the stream it leaves. *)
LEMMA NewFrame ==
  ASSUME Inv, NEW e \in Endpoint, NEW s \in Streams, SendStream(e, s)
  PROVE  \E f \in StreamFrame :
           /\ f.id = s /\ f.off = strm[e][s].tx
           /\ f.off + f.len <= strm[e][s].size
           /\ f.len = 0 => ShouldSendFin(strm[e][s]) /\ f.off >= strm[e][s].size
           /\ f.len = 0 \/ f.off + f.len <= strm[e][s].max_remote
           /\ Emit(e, f)
           /\ strm' = [strm EXCEPT ![e][s] = AfterPoll(strm[e][s], f.len)]
           /\ AfterPoll(strm[e][s], f.len).tx = f.off + f.len
           /\ AfterPoll(strm[e][s], f.len).size = strm[e][s].size
           /\ AfterPoll(strm[e][s], f.len).state = strm[e][s].state
<1> DEFINE st == strm[e][s]
           len == PollLen(st, Budget, ConnAvailable(e))
           fin == PollFin(st, len)
           f == [kind |-> "stream", id |-> s, off |-> st.tx, len |-> len,
                 fin |-> fin]
<1>1. st \in StreamRecord /\ GoodStream(e, s, st)
  BY DEF Inv, TypeOK, Content, StreamsOK
<1>2. len \in Nat
  BY PollType DEF Inv, Content
<1>3. fin \in BOOLEAN
  BY DEF PollFin
<1>4. st.tx + len <= st.size
  BY <1>1, TransferAssumption
     DEF PollLen, Smaller, StreamAvailable, ConnAvailable, GoodStream,
         StreamRecord, Inv, TypeOK
<1>5. len = 0 \/ st.tx + len <= st.max_remote
  <2>1. /\ st.tx \in Nat /\ st.max_remote \in Nat
        /\ ConnAvailable(e) \in Nat /\ Budget \in Nat /\ st.size - st.tx \in Int
    BY <1>1, TransferAssumption DEF StreamRecord, ConnAvailable, Inv, TypeOK
  <2>2. StreamAvailable(st) \in Nat
    BY <2>1 DEF StreamAvailable
  <2>3. len <= StreamAvailable(st)
    BY <2>1, <2>2 DEF PollLen, Smaller
  <2> QED BY <1>2, <2>1, <2>2, <2>3 DEF StreamAvailable
<1>6. Emit(e, f) /\ strm' = [strm EXCEPT ![e][s] = AfterPoll(st, len)]
  BY DEF SendStream
<1>7. len > 0 \/ fin
  BY DEF SendStream
<1>8. len = 0 => ShouldSendFin(st) /\ st.tx >= st.size
  BY <1>1, <1>7 DEF PollFin, StreamRecord
<1> HIDE DEF len, fin
<1>9. /\ AfterPoll(st, len).tx = st.tx + len
      /\ AfterPoll(st, len).size = st.size
      /\ AfterPoll(st, len).state = st.state
  BY <1>1, <1>2 DEF AfterPoll, StreamRecord
<1>10. /\ f \in StreamFrame /\ f.id = s /\ f.off = st.tx /\ f.len = len
  BY <1>1, <1>2, <1>3 DEF StreamFrame, StreamRecord
<1> HIDE DEF f
<1> QED BY <1>4, <1>6, <1>8, <1>9, <1>10, <1>5

(* Every step is a WriterStep of every stream. *)
LEMMA WriterSteps ==
  ASSUME Inv, Next, NEW x \in Endpoint, NEW t \in Streams, Placed(x, t)
  PROVE  WriterStep(x, t)
<1>0. /\ strm[x][t] \in StreamRecord /\ GoodStream(x, t, strm[x][t])
      /\ written[x][t] \in Nat /\ finished[x][t] \in BOOLEAN
      /\ ~Sending(x, t) => strm[x][t].tx = strm[x][t].size
  BY DEF Inv, TypeOK, Content, StreamsOK, Placed
<1>1. ASSUME UNCHANGED <<strm[x][t], written[x][t], finished[x][t]>>
      PROVE  WriterStep(x, t)
  BY <1>0, <1>1 DEF WriterStep, Sending, StreamRecord
<1>2. ASSUME NEW e \in Endpoint, Quiet(e)
      PROVE  WriterStep(x, t)
  BY <1>1, <1>2, QuietSteps DEF appVars
<1>3. ASSUME SenderKept(x, t), UNCHANGED <<written, finished>>
      PROVE  WriterStep(x, t)
  <2>1. CASE SendSame(strm[x][t], strm'[x][t])
    BY <1>0, <1>3, <2>1 DEF WriterStep, Sending, SendSame, StreamRecord
  <2>2. CASE /\ strm'[x][t] = Fresh /\ MayForget(x, t)
             /\ strm[x][t].tx = strm[x][t].size
    <3>1. finished[x][t] /\ ~ShouldSendFin(Fresh) /\ Fresh.tx = Fresh.size
      BY <2>2 DEF MayForget, Fresh, NewStream, ShouldSendFin
    <3> QED BY <1>0, <1>3, <2>2, <3>1 DEF WriterStep, Sending, StreamRecord
  <2> QED BY <1>3, <2>1, <2>2 DEF SenderKept
<1>4. ASSUME NEW e \in Endpoint,
             \/ \E p \in net : Receive(e, p)
             \/ \E n \in acks[e] : ReceiveAck(e, n)
      PROVE  WriterStep(x, t)
  BY <1>3, <1>4, ReceiveKeepsSender
<1>5. ASSUME NEW e \in Endpoint, NEW s \in Streams, StreamWrite(e, s)
      PROVE  WriterStep(x, t)
  <2>1. PICK n \in 1 .. (MaxWrite[e] - written[e][s]) :
          /\ strm' = [strm EXCEPT ![e][s] = Write(strm[e][s], n)]
          /\ written' = [written EXCEPT ![e][s] = @ + n]
    BY <1>5 DEF StreamWrite
  <2>2. n \in Nat /\ ~finished[e][s] /\ finished' = finished
    BY <1>5, TransferAssumption DEF StreamWrite, Usable, Inv, TypeOK
  <2>3. CASE x = e /\ t = s
    <3>1. ~ShouldSendFin(strm[x][t]) /\ strm[x][t].size = written[x][t]
      BY <1>0, <2>2, <2>3 DEF GoodStream
    <3>2. /\ strm'[x][t] = Write(strm[x][t], n)
          /\ written'[x][t] = written[x][t] + n
          /\ finished'[x][t] = finished[x][t]
      BY <2>1, <2>2, <2>3 DEF Inv, TypeOK
    <3>3. /\ Write(strm[x][t], n).tx = strm[x][t].tx
          /\ Write(strm[x][t], n).size = strm[x][t].size + n
      BY <1>0, <3>1 DEF Write, Opened, ShouldSendFin, StreamRecord
    <3>4. strm[x][t].tx <= strm[x][t].size
      BY <1>0 DEF GoodStream
    <3> QED BY <1>0, <2>2, <2>3, <3>1, <3>2, <3>3, <3>4
            DEF WriterStep, Sending, StreamRecord
  <2>4. CASE ~(x = e /\ t = s)
    BY <1>1, <2>1, <2>2, <2>4 DEF Inv, TypeOK
  <2> QED BY <2>3, <2>4
<1>6. ASSUME NEW e \in Endpoint, NEW s \in Streams, StreamClose(e, s)
      PROVE  WriterStep(x, t)
  <2>1. /\ strm' = [strm EXCEPT ![e][s] = CloseLocal(strm[e][s])]
        /\ ~finished[e][s] /\ written' = written
        /\ finished' = [finished EXCEPT ![e][s] = TRUE]
        /\ strm[e][s].state # "Idle"
    BY <1>6 DEF StreamClose, Usable
  <2>2. CASE x = e /\ t = s
    <3>1. /\ strm'[x][t] = CloseLocal(strm[x][t])
          /\ finished'[x][t]
          /\ written'[x][t] = written[x][t]
      BY <2>1, <2>2 DEF Inv, TypeOK
    <3>2. strm[x][t].state \in StreamState \ {"Idle", "Reset"}
      BY <1>0, <2>1, <2>2 DEF GoodStream, StreamRecord
    <3>3. /\ CloseLocal(strm[x][t]).tx = strm[x][t].tx
          /\ CloseLocal(strm[x][t]).size = strm[x][t].size
          /\ ShouldSendFin(CloseLocal(strm[x][t]))
      BY <1>0, <3>2 DEF CloseLocal, ShouldSendFin, StreamRecord, StreamState
    <3> QED BY <1>0, <2>1, <2>2, <3>1, <3>3 DEF WriterStep, Sending, StreamRecord
  <2>3. CASE ~(x = e /\ t = s)
    BY <1>1, <2>1, <2>3 DEF Inv, TypeOK
  <2> QED BY <2>2, <2>3
<1>7. ASSUME NEW e \in Endpoint, NEW s \in Streams, SendStream(e, s)
      PROVE  WriterStep(x, t)
  <2>1. PICK f \in StreamFrame :
          /\ f.id = s /\ f.off = strm[e][s].tx
          /\ f.off + f.len <= strm[e][s].size
          /\ Emit(e, f)
          /\ strm' = [strm EXCEPT ![e][s] = AfterPoll(strm[e][s], f.len)]
          /\ AfterPoll(strm[e][s], f.len).tx = f.off + f.len
          /\ AfterPoll(strm[e][s], f.len).size = strm[e][s].size
          /\ AfterPoll(strm[e][s], f.len).state = strm[e][s].state
    BY <1>7, NewFrame
  <2>2. written' = written /\ finished' = finished
    BY <1>7 DEF SendStream, appVars
  <2>3. CASE x = e /\ t = s
    <3>1. strm'[x][t] = AfterPoll(strm[x][t], f.len)
      BY <2>1, <2>3 DEF Inv, TypeOK
    <3>2. \E p \in sent'[x] : p.frame = f
      <4>1. f \in Frame
        BY DEF Frame, Requeued
      <4> QED BY <2>1, <2>3, <4>1, EmitFacts DEF Inv
    <3>3. f.off \in Nat /\ f.len \in Nat /\ f.kind = "stream"
      BY DEF StreamFrame
    <3>4. \A b \in Nat : f.off <= b /\ b < f.off + f.len => Carries(f, t, b)
      BY <2>1, <2>3, <3>3 DEF Carries
    <3>5. /\ strm'[x][t].tx = f.off + f.len
          /\ strm'[x][t].size = strm[x][t].size
          /\ f.off = strm[x][t].tx
          /\ ShouldSendFin(strm'[x][t]) <=> ShouldSendFin(strm[x][t])
      BY <2>1, <2>3, <3>1 DEF ShouldSendFin
    <3>6. Sending(x, t)' <=> Sending(x, t)
      BY <2>2, <3>5 DEF Sending
    <3>7. ~Sending(x, t) => strm'[x][t].tx = strm'[x][t].size
      BY <1>0, <2>1, <2>3, <3>3, <3>5 DEF StreamRecord
    <3> QED BY <1>0, <2>2, <3>2, <3>3, <3>4, <3>5, <3>6, <3>7
            DEF WriterStep, StreamRecord
  <2>4. CASE ~(x = e /\ t = s)
    BY <1>1, <2>1, <2>2, <2>4 DEF Inv, TypeOK
  <2> QED BY <2>3, <2>4
<1> QED BY <1>2, <1>4, <1>5, <1>6, <1>7, NextCases

-----------------------------------------------------------------------------
(* What a step does to the packets, the retransmission queue and the       *)
(* acknowledgements.                                                       *)

(* The numbers of e's packets that have arrived and whose ACK is due or    *)
(* under way.                                                              *)
Marks(e) == acks[e] \cup received_pns[Peer(e)]

PacketStep(e) ==
  LET new == sent'[e] \ sent[e]
  IN /\ closed'[e] = "open" => closed[e] = "open"
     /\ \A p \in new : p.pn \in FreePn(e)
     /\ \A p, q \in new : p = q
     /\ \A p \in net' \ net : p.src = e => p \in new
     /\ \A n \in Marks(e)' \ Marks(e) :
          \E p \in net : /\ p.src = e /\ p.pn = n
                         /\ \/ p.frame.kind # "stream"
                            \/ closed'[Peer(e)] # "open"
                            \/ ReceiveStream(Peer(e), p)
     /\ \A p \in sent[e] : \/ p \in sent'[e] \/ p.frame \in lost'[e]
                           \/ p.frame.kind # "stream" \/ p.pn \in acks[e]
     /\ \A f \in lost[e] : f \in lost'[e] \/ \E p \in sent'[e] : p.frame = f

(* The frames that e may send, other than those of the retransmission      *)
(* queue.                                                                  *)
Issued(e, f) ==
  \/ f.kind \in {"data_blocked", "stream_data_blocked"}
  \/ f.kind = "max_data" /\ f.max = max_data_local[e]
  \/ /\ f.kind = "max_stream_data" /\ f.id \in Streams
     /\ f.max = strm[e][f.id].max_local
  \/ /\ f.kind = "stream" /\ SendStream(e, f.id)
     /\ f.off = strm[e][f.id].tx
     /\ f.len = 0 \/ f.off + f.len <= strm[e][f.id].max_remote

(* A step that emits the frame f. *)
LEMMA EmitStep ==
  ASSUME Inv, NEW e \in Endpoint, NEW f \in Frame, Emit(e, f),
         UNCHANGED <<closed, acks, received_pns>>,
         \A x \in Endpoint : /\ lost'[x] \subseteq lost[x]
                             /\ \A g \in lost[x] :
                                  g \in lost'[x] \/ (x = e /\ g = f)
  PROVE  \A x \in Endpoint :
           /\ PacketStep(x)
           /\ x # e => Underway(x)' \subseteq Underway(x)
           /\ Underway(x)' \subseteq Underway(x) \cup {f}
<1>1. PICK pkt \in Packet :
        /\ pkt.src = e /\ pkt.frame = f /\ pkt.pn \in FreePn(e)
        /\ net' = net \cup {pkt}
        /\ sent'[e] = sent[e] \cup {pkt}
        /\ \A x \in Endpoint : x # e => sent'[x] = sent[x]
  BY EmitFacts DEF Inv
<1>2. pkt \notin sent[e] /\ pkt \notin net
  BY <1>1 DEF FreePn
<1>3. ASSUME NEW x \in Endpoint
      PROVE  PacketStep(x)
  <2>1. Marks(x)' = Marks(x)
    BY DEF Marks
  <2>2. CASE x = e
    BY <1>1, <1>2, <2>1, <2>2 DEF PacketStep
  <2>3. CASE x # e
    BY <1>1, <1>2, <2>1, <2>3 DEF PacketStep
  <2> QED BY <2>2, <2>3
<1>4. ASSUME NEW x \in Endpoint
      PROVE  /\ x # e => Underway(x)' \subseteq Underway(x)
             /\ Underway(x)' \subseteq Underway(x) \cup {f}
  BY <1>1, <1>2 DEF Underway
<1> QED BY <1>3, <1>4

(* A step that emits nothing and acknowledges nothing new. *)
LEMMA KeptStep ==
  ASSUME Inv, net' \subseteq net,
         \A x \in Endpoint :
           /\ closed'[x] = "open" => closed[x] = "open"
           /\ sent'[x] \subseteq sent[x]
           /\ lost[x] \subseteq lost'[x]
           /\ \A g \in lost'[x] :
                g \in lost[x] \/ \E p \in sent[x] : g = p.frame
           /\ Marks(x)' \subseteq Marks(x)
           /\ \A p \in sent[x] : \/ p \in sent'[x] \/ p.frame \in lost'[x]
                                 \/ p.frame.kind # "stream" \/ p.pn \in acks[x]
  PROVE  \A x \in Endpoint :
           PacketStep(x) /\ Underway(x)' \subseteq Underway(x)
BY DEF PacketStep, Underway

(* A packet that e receives: its number is marked. *)
LEMMA NoteStep ==
  ASSUME Inv, NEW e \in Endpoint, NEW p \in net, NotePacket(e, p),
         UNCHANGED <<sent, lost, acks>>,
         \A x \in Endpoint : closed'[x] = "open" => closed[x] = "open",
         \/ p.frame.kind # "stream"
         \/ closed'[e] # "open"
         \/ ReceiveStream(e, p)
  PROVE  \A x \in Endpoint :
           PacketStep(x) /\ Underway(x)' \subseteq Underway(x)
<1>1. /\ p.src = Peer(e) /\ net' \subseteq net
      /\ received_pns' = [received_pns EXCEPT ![e] = @ \cup {p.pn}]
  BY DEF NotePacket
<1>2. \A x \in Endpoint : \A n \in Marks(x)' \ Marks(x) :
        x = Peer(e) /\ n = p.pn
  BY <1>1, PeerType DEF Marks, Inv, TypeOK
<1>3. \A x \in Endpoint : Underway(x)' \subseteq Underway(x)
  BY <1>1 DEF Underway
<1>4. ASSUME NEW x \in Endpoint
      PROVE  PacketStep(x)
  <2>1. \A n \in Marks(x)' \ Marks(x) :
          \E q \in net : /\ q.src = x /\ q.pn = n
                         /\ \/ q.frame.kind # "stream"
                            \/ closed'[Peer(x)] # "open"
                            \/ ReceiveStream(Peer(x), q)
    BY <1>1, <1>2, PeerType
  <2> QED BY <1>1, <2>1 DEF PacketStep
<1> QED BY <1>3, <1>4

(* What every step does to the packets: a frame that nobody held is one    *)
(* that the sender may issue.                                              *)
LEMMA PacketSteps ==
  ASSUME Inv, Next
  PROVE  \A x \in Endpoint :
           /\ PacketStep(x)
           /\ \A g \in Underway(x)' : g \in Underway(x) \/ Issued(x, g)
<1> DEFINE Goal == \A x \in Endpoint :
             /\ PacketStep(x)
             /\ \A g \in Underway(x)' : g \in Underway(x) \/ Issued(x, g)
<1>0. \A x \in Endpoint : lost[x] \subseteq Frame
  BY DEF Inv, TypeOK, Frame
<1>1. ASSUME NEW e \in Endpoint, NEW s \in Streams,
             StreamWrite(e, s) \/ StreamClose(e, s)
      PROVE  Goal
  <2>1. UNCHANGED <<sent, lost, closed, net, acks, received_pns>>
    BY <1>1 DEF StreamWrite, StreamClose, ackVars
  <2> QED BY <2>1, KeptStep DEF Marks
<1>2. ASSUME NEW e \in Endpoint, NEW s \in Streams, SendStream(e, s)
      PROVE  Goal
  <2>1. PICK f \in StreamFrame :
          /\ f.id = s /\ Emit(e, f) /\ f.off = strm[e][s].tx
          /\ f.len = 0 \/ f.off + f.len <= strm[e][s].max_remote
    BY <1>2, NewFrame
  <2>2. f \in Frame /\ Issued(e, f)
    BY <1>2, <2>1 DEF Frame, Requeued, Issued, StreamFrame
  <2>3. UNCHANGED <<closed, acks, received_pns, lost>>
    BY <1>2 DEF SendStream, ackVars
  <2> QED BY <1>2, <2>1, <2>2, <2>3, EmitStep
<1>3. ASSUME NEW e \in Endpoint, NEW f \in Frame, Emit(e, f),
             Issued(e, f), UNCHANGED <<closed, acks, received_pns, lost>>
      PROVE  Goal
  BY <1>3, EmitStep
<1>4. ASSUME NEW e \in Endpoint, NEW s \in Streams, SendBlocked(e, s)
      PROVE  Goal
  <2>1. /\ [kind |-> "data_blocked"] \in Frame
        /\ Issued(e, [kind |-> "data_blocked"])
        /\ [kind |-> "stream_data_blocked", id |-> s] \in Frame
        /\ Issued(e, [kind |-> "stream_data_blocked", id |-> s])
    BY DEF Frame, DataBlockedFrame, StreamDataBlockedFrame, Issued
  <2>2. PICK f \in Frame : Issued(e, f) /\ Emit(e, f)
    BY <1>4, <2>1 DEF SendBlocked
  <2>3. UNCHANGED <<closed, acks, received_pns, lost>>
    BY <1>4 DEF SendBlocked, ackVars
  <2> QED BY <1>3, <2>2, <2>3
<1>5. ASSUME NEW e \in Endpoint, SendMaxData(e)
      PROVE  Goal
  <2>1. /\ [kind |-> "max_data", max |-> max_data_local[e]] \in Frame
        /\ Issued(e, [kind |-> "max_data", max |-> max_data_local[e]])
    BY DEF Frame, Requeued, MaxDataFrame, Inv, TypeOK, Issued
  <2>2. PICK f \in Frame : Issued(e, f) /\ Emit(e, f)
    BY <1>5, <2>1 DEF SendMaxData
  <2>3. UNCHANGED <<closed, acks, received_pns, lost>>
    BY <1>5 DEF SendMaxData, ackVars
  <2> QED BY <1>3, <2>2, <2>3
<1>6. ASSUME NEW e \in Endpoint, NEW s \in Streams, SendMaxStreamData(e, s)
      PROVE  Goal
  <2> DEFINE h == [kind |-> "max_stream_data", id |-> s,
                   max |-> strm[e][s].max_local]
  <2>1. h \in Frame /\ Issued(e, h)
    BY DEF Frame, Requeued, MaxStreamDataFrame, StreamRecord, Inv, TypeOK,
           Issued
  <2>2. Emit(e, h) \/ UNCHANGED <<net, sent>>
    BY <1>6 DEF SendMaxStreamData
  <2>3. UNCHANGED <<closed, acks, received_pns, lost>>
    BY <1>6 DEF SendMaxStreamData, ackVars
  <2> HIDE DEF h
  <2>4. CASE UNCHANGED <<net, sent>>
    BY <2>3, <2>4, KeptStep DEF Marks
  <2> QED BY <1>3, <2>1, <2>2, <2>3, <2>4
<1>7. ASSUME NEW e \in Endpoint, NEW f \in lost[e], SendLost(e, f)
      PROVE  Goal
  <2>1. f \in Frame /\ Emit(e, f) /\ UNCHANGED <<closed, acks, received_pns>>
    BY <1>0, <1>7 DEF SendLost, ackVars
  <2>2. \A x \in Endpoint :
          /\ lost'[x] \subseteq lost[x]
          /\ \A g \in lost[x] : g \in lost'[x] \/ (x = e /\ g = f)
    BY <1>7 DEF SendLost, Inv, TypeOK
  <2>3. f \in Underway(e)
    BY DEF Underway
  <2> QED BY <2>1, <2>2, <2>3, EmitStep
<1>8. ASSUME NEW e \in Endpoint, SendAck(e)
      PROVE  Goal
  <2>1. /\ UNCHANGED <<sent, lost, closed, net>>
        /\ acks' = [acks EXCEPT ![Peer(e)] = @ \cup received_pns[e]]
        /\ received_pns' = [received_pns EXCEPT ![e] = {}]
    BY <1>8 DEF SendAck
  <2>2. \A x \in Endpoint : Marks(x)' \subseteq Marks(x)
    BY <2>1, PeerType DEF Marks, Inv, TypeOK
  <2> QED BY <2>1, <2>2, KeptStep
<1>9. ASSUME NEW e \in Endpoint, ReceiveConnectionClose(e)
      PROVE  Goal
  <2>1. /\ UNCHANGED <<sent, lost, net, acks, received_pns>>
        /\ closed' = [closed EXCEPT ![e] = "peer"]
    BY <1>9 DEF ReceiveConnectionClose, ackVars
  <2>2. \A x \in Endpoint : closed'[x] = "open" => closed[x] = "open"
    BY <2>1 DEF Inv, TypeOK
  <2> QED BY <2>1, <2>2, KeptStep DEF Marks
<1>10. ASSUME NEW e \in Endpoint, NEW ps \in SUBSET sent[e], DeclareLost(e, ps)
       PROVE  Goal
  <2>1. /\ UNCHANGED <<closed, net, acks, received_pns>>
        /\ sent' = [sent EXCEPT ![e] = @ \ ps]
        /\ lost' = [lost EXCEPT ![e] = @ \cup RequeuedFrames(ps)]
    BY <1>10 DEF DeclareLost, ackVars
  <2>2. \A p \in sent[e] : p.frame \in Frame
    BY DEF Inv, TypeOK, Packet
  <2>3. \A p \in ps : p.frame \in RequeuedFrames(ps) \/ p.frame.kind # "stream"
    BY <2>2, FrameKinds DEF RequeuedFrames, Requeued
  <2>4. \A g \in RequeuedFrames(ps) : \E p \in sent[e] : g = p.frame
    BY DEF RequeuedFrames
  <2>5. \A x \in Endpoint :
          /\ sent'[x] \subseteq sent[x]
          /\ lost[x] \subseteq lost'[x]
          /\ \A g \in lost'[x] :
               g \in lost[x] \/ \E p \in sent[x] : g = p.frame
          /\ \A p \in sent[x] : \/ p \in sent'[x] \/ p.frame \in lost'[x]
                                \/ p.frame.kind # "stream"
    BY <2>1, <2>3, <2>4 DEF Inv, TypeOK
  <2> QED BY <2>1, <2>5, KeptStep DEF Marks
<1>11. ASSUME NEW e \in Endpoint,
              \/ \E p \in net : DropPacket(p)
              \/ \E n \in acks[e] : DropAck(e, n)
       PROVE  Goal
  <2>1. /\ UNCHANGED <<closed, sent, lost, received_pns>> /\ net' \subseteq net
        /\ acks' = acks \/ \E n \in acks[e] : acks' = [acks EXCEPT ![e] = @ \ {n}]
    BY <1>11 DEF DropPacket, DropAck, ackVars
  <2>2. \A x \in Endpoint : Marks(x)' \subseteq Marks(x)
    <3>1. acks \in [Endpoint -> SUBSET Numbers]
      BY DEF Inv, TypeOK
    <3>2. \A x \in Endpoint : acks'[x] \subseteq acks[x]
      BY <2>1, <3>1
    <3> QED BY <2>1, <3>2 DEF Marks
  <2> QED BY <2>1, <2>2, KeptStep
<1>12. ASSUME NEW e \in Endpoint, NEW n \in acks[e], ReceiveAck(e, n)
       PROVE  Goal
  <2>1. /\ UNCHANGED <<closed, lost, net, received_pns>>
        /\ sent' = [sent EXCEPT ![e] = {p \in @ : p.pn # n}]
        /\ acks' = acks \/ acks' = [acks EXCEPT ![e] = @ \ {n}]
    BY <1>12 DEF ReceiveAck, ackVars
  <2>2. \A x \in Endpoint : Marks(x)' \subseteq Marks(x)
    <3>1. acks \in [Endpoint -> SUBSET Numbers]
      BY DEF Inv, TypeOK
    <3>2. \A x \in Endpoint : acks'[x] \subseteq acks[x]
      BY <2>1, <3>1
    <3> QED BY <2>1, <3>2 DEF Marks
  <2>3. \A x \in Endpoint : sent'[x] \subseteq sent[x]
    BY <2>1 DEF Inv, TypeOK
  <2>4. \A x \in Endpoint : \A p \in sent[x] :
          p \in sent'[x] \/ p.pn \in acks[x]
    BY <2>1 DEF Inv, TypeOK
  <2> QED BY <2>1, <2>2, <2>3, <2>4, KeptStep
<1>13. ASSUME NEW e \in Endpoint, NEW p \in net, Receive(e, p)
       PROVE  Goal
  <2>1. NotePacket(e, p) /\ UNCHANGED <<sent, lost, acks>>
    BY <1>13 DEF Receive, ReceiveStream, RefuseStream, ReceiveMaxData,
       ReceiveMaxStreamData, ReceiveDataBlocked, ReceiveStreamDataBlocked
  <2>2. \/ closed' = closed
        \/ /\ RefuseStream(e, p)
           /\ \E r \in {"flow_control", "protocol_violation"} :
                closed' = [closed EXCEPT ![e] = r]
    BY <1>13 DEF Receive, ReceiveStream, RefuseStream, ReceiveMaxData,
       ReceiveMaxStreamData, ReceiveDataBlocked, ReceiveStreamDataBlocked
  <2>3. \A x \in Endpoint : closed'[x] = "open" => closed[x] = "open"
    BY <2>2 DEF Inv, TypeOK
  <2>4. RefuseStream(e, p) => closed'[e] # "open"
    <3>1. RefuseStream(e, p) =>
            \E r \in {"flow_control", "protocol_violation"} :
                closed' = [closed EXCEPT ![e] = r]
      BY DEF RefuseStream
    <3> QED BY <3>1 DEF Inv, TypeOK
  <2>5. \/ p.frame.kind # "stream"
        \/ closed'[e] # "open"
        \/ ReceiveStream(e, p)
    BY <1>13, <2>4 DEF Receive, ReceiveMaxData,
       ReceiveMaxStreamData, ReceiveDataBlocked, ReceiveStreamDataBlocked
  <2> QED BY <2>1, <2>3, <2>5, NoteStep
<1>14. PICK e \in Endpoint :
         \/ \E s \in Streams : \/ StreamWrite(e, s) \/ StreamClose(e, s)
                               \/ SendStream(e, s)
         \/ Quiet(e)
         \/ \E p \in net : Receive(e, p)
         \/ \E n \in acks[e] : ReceiveAck(e, n)
  BY NextCases
<1>15. Quiet(e) => Goal
  <2> HIDE DEF Goal
  <2>1. LossAlarm(e) \/ ProbeTimeout(e) => Goal
    BY <1>10 DEF LossAlarm, ProbeTimeout
  <2> QED BY <1>4, <1>5, <1>6, <1>7, <1>8, <1>9, <1>11, <2>1 DEF Quiet
<1>16. Goal
  BY <1>1, <1>2, <1>12, <1>13, <1>14, <1>15
<1> QED BY <1>16

-----------------------------------------------------------------------------
(* The inductive invariant is kept, one conjunct at a time. *)

(* No new part of a stream: the parts stay cut once, wherever the reader   *)
(* gets to.                                                                *)
LEMMA PlacedKept ==
  ASSUME Inv, Inv', NEW x \in Endpoint, NEW s \in Streams,
         Placed(x, s), WriterStep(x, s), ReaderStep(Peer(x), s),
         \A g \in Underway(x)' :
           g.kind = "stream" /\ g.id = s => g \in Underway(x)
  PROVE  Placed(x, s)'
<1> DEFINE e == Peer(x)
           rx == strm[e][s].rx
           rx2 == strm'[e][s].rx
           st == strm[x][s]
           new == strm'[x][s]
           parts == Spans(x, s)
<1>0. e \in Endpoint /\ Peer(e) = x
  BY PeerType
<1>1. PICK o \in StreamRecord : ReadsTo(e, s, o)
  BY DEF ReaderStep
<1>2. /\ strm'[e][s].ooo \subseteq parts
      /\ rx2 \in Nat
      /\ \/ rx2 = rx \/ rx2 = 0
         \/ \E a \in parts : a.len > 0 /\ rx2 = a.off + a.len
  BY <1>0, <1>1 DEF ReadsTo, Reads, Fresh, NewStream, StreamRecord
<1>3. Spans(x, s)' \subseteq parts
  <2>1. ASSUME NEW a \in Spans(x, s)'
        PROVE  a \in Spans(x, s)
    <3>1. CASE a \in strm'[e][s].ooo
      BY <1>2, <3>1
    <3>2. CASE \E g \in Underway(x)' :
                 g.kind = "stream" /\ g.id = s /\ a = Span(g)
      BY <3>2, SpansType DEF Inv
    <3> QED BY <2>1, <3>1, <3>2 DEF Spans
  <2> QED BY <2>1
<1>4. /\ rx \in Nat /\ st.tx \in Nat /\ new.tx \in Nat
      /\ \A a \in parts : a.off \in Nat /\ a.len \in Nat
  BY <1>0, SpansType DEF Inv, TypeOK, StreamRecord, Segment
<1>5. /\ \A a, b \in parts : /\ a.off = b.off => a.len = b.len
                             /\ ~Inside(a, b.off)
      /\ \A a \in parts : /\ ~Inside(a, rx)
                          /\ a.len = 0 =>
                               finished[x][s] /\ a.off = written[x][s]
      /\ Sending(x, s) => /\ rx <= st.tx
                          /\ \A a \in parts : a.off + a.len <= st.tx
  BY DEF Placed
<1>6. /\ finished[x][s] => finished'[x][s] /\ written'[x][s] = written[x][s]
      /\ Sending(x, s)' => Sending(x, s) /\ st.tx <= new.tx
      /\ ~Sending(x, s)' => new.tx = new.size
  BY DEF WriterStep
<1> HIDE DEF parts, rx, rx2, st, new, e
<1>7. ASSUME NEW a \in parts
      PROVE  ~Inside(a, rx2)
  <2>1. CASE \E c \in parts : c.len > 0 /\ rx2 = c.off + c.len
    <3>1. PICK c \in parts : c.len > 0 /\ rx2 = c.off + c.len
      BY <2>1
    <3>2. /\ ~Inside(a, c.off) /\ ~Inside(c, a.off)
          /\ a.off = c.off => a.len = c.len
      BY <1>5
    <3> QED BY <1>4, <3>1, <3>2 DEF Inside
  <2> QED BY <1>2, <1>4, <1>5, <2>1 DEF Inside
<1>8. Sending(x, s)' => /\ rx2 <= new.tx
                        /\ \A a \in parts : a.off + a.len <= new.tx
  BY <1>2, <1>4, <1>5, <1>6
<1>9. \A a \in parts : a.len = 0 => finished'[x][s] /\ a.off = written'[x][s]
  BY <1>5, <1>6
<1> QED BY <1>3, <1>5, <1>6, <1>7, <1>8, <1>9 DEF Placed, rx2, new, e

(* SendStream cuts one more part, behind all others. *)
LEMMA PlacedSent ==
  ASSUME Inv, Inv', NEW x \in Endpoint, NEW s \in Streams,
         Placed(x, s), WriterStep(x, s), SendStream(x, s)
  PROVE  Placed(x, s)'
<1> DEFINE e == Peer(x)
           rx == strm[e][s].rx
           st == strm[x][s]
           new == strm'[x][s]
           parts == Spans(x, s)
<1>0. e \in Endpoint /\ Peer(e) = x /\ e # x
  BY PeerType
<1>1. PICK f \in StreamFrame :
           /\ f.id = s /\ f.off = st.tx
           /\ f.off + f.len <= st.size
           /\ f.len = 0 => ShouldSendFin(st) /\ f.off >= st.size
           /\ Emit(x, f)
           /\ strm' = [strm EXCEPT ![x][s] = AfterPoll(st, f.len)]
           /\ AfterPoll(st, f.len).tx = f.off + f.len
           /\ AfterPoll(st, f.len).size = st.size
           /\ AfterPoll(st, f.len).state = st.state
  BY NewFrame
<1>2. /\ UNCHANGED <<closed, acks, received_pns, lost>>
      /\ UNCHANGED <<written, finished>>
      /\ HasSendData(st)
  BY DEF SendStream, ackVars, appVars
<1>3. /\ new.tx = f.off + f.len /\ new.size = st.size /\ new.state = st.state
      /\ strm'[e][s] = strm[e][s]
  BY <1>0, <1>1 DEF Inv, TypeOK
<1>4. Underway(x)' \subseteq Underway(x) \cup {f}
  <2>1. f \in Frame
    BY DEF Frame, Requeued
  <2> QED BY <1>1, <1>2, <2>1, EmitStep
<1>5. Spans(x, s)' \subseteq parts \cup {Span(f)}
  <2>1. ASSUME NEW a \in Spans(x, s)'
        PROVE  a \in Spans(x, s) \cup {Span(f)}
    <3>1. CASE a \in strm'[e][s].ooo
      BY <1>3, <3>1 DEF Spans
    <3>2. CASE \E g \in Underway(x)' :
                 g.kind = "stream" /\ g.id = s /\ a = Span(g)
      BY <1>4, <3>2, SpansType DEF Inv
    <3> QED BY <2>1, <3>1, <3>2 DEF Spans
  <2> QED BY <2>1
<1>6. /\ rx \in Nat /\ st.tx \in Nat /\ new.tx \in Nat /\ st.size \in Nat
      /\ f.off \in Nat /\ f.len \in Nat /\ written[x][s] \in Nat
      /\ Span(f).off = f.off /\ Span(f).len = f.len
      /\ \A a \in parts : a.off \in Nat /\ a.len \in Nat
  BY <1>0, SpansType, SMTT(40)
     DEF Inv, TypeOK, StreamRecord, Segment, StreamFrame, Span
<1>7. /\ st.size <= written[x][s]
      /\ ShouldSendFin(st) => finished[x][s] /\ st.size = written[x][s]
  BY DEF Inv, Content, StreamsOK, GoodStream
<1>8. /\ \A a, b \in parts : /\ a.off = b.off => a.len = b.len
                             /\ ~Inside(a, b.off)
      /\ \A a \in parts : /\ ~Inside(a, rx)
                          /\ a.len = 0 =>
                               finished[x][s] /\ a.off = written[x][s]
      /\ rx <= st.tx
      /\ \A a \in parts : a.off + a.len <= st.tx
  BY <1>2, <1>6 DEF Placed, HasSendData, Sending
<1>9. ~Sending(x, s)' => new.tx = new.size
  BY DEF WriterStep
<1> HIDE DEF parts, rx, st, new, e
<1> DEFINE c == Span(f)
<1> HIDE DEF c
<1>10. /\ c.off = st.tx /\ c.len = f.len /\ c.off \in Nat /\ c.len \in Nat
       /\ c.off + c.len <= st.size /\ new.tx = c.off + c.len
       /\ c.len = 0 => finished[x][s] /\ c.off = written[x][s]
  BY <1>1, <1>3, <1>6, <1>7 DEF c
<1>11. \A a \in parts : /\ a.off = c.off => a.len = c.len
                        /\ ~Inside(a, c.off) /\ ~Inside(c, a.off)
  BY <1>6, <1>7, <1>8, <1>10 DEF Inside
<1>12. \A a, b \in parts \cup {c} : /\ a.off = b.off => a.len = b.len
                                    /\ ~Inside(a, b.off)
  BY <1>6, <1>8, <1>10, <1>11 DEF Inside
<1>13. \A a \in parts \cup {c} :
         /\ ~Inside(a, rx)
         /\ a.len = 0 => finished[x][s] /\ a.off = written[x][s]
         /\ a.off + a.len <= new.tx
  BY <1>6, <1>8, <1>10 DEF Inside
<1>14. rx <= new.tx
  BY <1>6, <1>8, <1>10
<1>15. Spans(x, s)' \subseteq parts \cup {c}
  BY <1>5 DEF c
<1> QED BY <1>2, <1>3, <1>9, <1>12, <1>13, <1>14, <1>15 DEF Placed, rx, new, e

(* What the application was handed stays what the stream has in sequence,  *)
(* or all there is; and a byte the reader has, or gets, it does not lose.  *)
LEMMA TallyKept ==
  ASSUME Inv, Inv', NEW e \in Endpoint, NEW s \in Streams, Tally(e, s),
         WriterStep(Peer(e), s), WriterStep(e, s),
         NEW o \in StreamRecord, ReadsTo(e, s, o)
  PROVE  /\ Tally(e, s)'
         /\ \A b \in Nat : /\ b < written[Peer(e)][s]
                           /\ HasByte(o, b) \/ b < delivered[e][s]
                           => Reached(e, s, b)'
<1> DEFINE all == written[Peer(e)][s]
<1>1. /\ strm[e][s].rx \in Nat /\ o.rx \in Nat /\ delivered[e][s] \in Nat
      /\ delivered'[e][s] \in Nat /\ all \in Nat
      /\ o.rx >= strm[e][s].rx
      /\ delivered'[e][s] = delivered[e][s] + (o.rx - strm[e][s].rx)
  BY PeerType DEF Inv, TypeOK, StreamRecord, ReadsTo, Reads
<1>2. \/ strm'[e][s].rx = o.rx /\ strm'[e][s].ooo = o.ooo
      \/ MayForget(e, s) /\ o.rx = all
  BY DEF ReadsTo
<1>3. MayForget(e, s) => MayForget(e, s)' /\ written'[Peer(e)][s] = all
  BY DEF MayForget, WriterStep, Peer
<1>4. \/ delivered[e][s] = strm[e][s].rx
      \/ MayForget(e, s) /\ delivered[e][s] >= all
  BY DEF Tally
<1>5. Tally(e, s)'
  <2>1. CASE delivered[e][s] = strm[e][s].rx /\ strm'[e][s].rx = o.rx
    BY <1>1, <2>1 DEF Tally
  <2>2. CASE MayForget(e, s) /\ delivered'[e][s] >= all
    BY <1>3, <2>2 DEF Tally
  <2> QED BY <1>1, <1>2, <1>4, <2>1, <2>2
<1>6. ASSUME NEW b \in Nat, b < all, HasByte(o, b) \/ b < delivered[e][s]
      PROVE  Reached(e, s, b)'
  <2>1. CASE b < delivered'[e][s]
    BY <2>1 DEF Reached
  <2>2. CASE Covered(o.ooo, b) /\ strm'[e][s].ooo = o.ooo
    BY <2>2 DEF Reached
  <2>3. b < delivered[e][s] => b < delivered'[e][s]
    BY <1>1
  <2>4. b < o.rx => b < delivered'[e][s]
    BY <1>1, <1>4, <1>6
  <2>5. MayForget(e, s) /\ o.rx = all => b < delivered'[e][s]
    BY <1>1, <1>4, <1>6
  <2> QED BY <1>2, <1>6, <2>1, <2>2, <2>3, <2>4, <2>5 DEF HasByte
<1> QED BY <1>5, <1>6

(* A byte that has reached the reader's side stays reached. *)
LEMMA ReachedKept ==
  ASSUME Inv, Inv', NEW e \in Endpoint, NEW s \in Streams, Tally(e, s),
         WriterStep(Peer(e), s), WriterStep(e, s), ReaderStep(e, s),
         NEW b \in Nat, b < written[Peer(e)][s], Reached(e, s, b)
  PROVE  Reached(e, s, b)'
<1>1. PICK o \in StreamRecord : ReadsTo(e, s, o)
  BY DEF ReaderStep
<1>2. HasByte(o, b) \/ b < delivered[e][s]
  BY <1>1 DEF Reached, HasByte, ReadsTo, Reads
<1> QED BY <1>1, <1>2, TallyKept

(* A packet number keeps naming one frame: send takes a free one. *)
LEMMA OneFrameKept ==
  ASSUME OneFrame, \A x \in Endpoint : PacketStep(x)
  PROVE  OneFrame'
<1>1. ASSUME NEW e \in Endpoint, NEW p \in net', NEW q \in sent'[e],
             p.src = e, p.pn = q.pn
      PROVE  p.frame = q.frame
  <2> DEFINE new == sent'[e] \ sent[e]
  <2>1. /\ \A r \in new : r.pn \in FreePn(e)
        /\ \A r, t \in new : r = t
        /\ p \notin net => p \in new
    BY <1>1 DEF PacketStep
  <2>2. CASE p \in net /\ q \in sent[e]
    BY <1>1, <2>2 DEF OneFrame
  <2>3. CASE p \in net /\ q \in new
    BY <1>1, <2>1, <2>3 DEF FreePn
  <2>4. CASE p \notin net /\ q \in sent[e]
    BY <1>1, <2>1, <2>4 DEF FreePn
  <2>5. CASE p \notin net /\ q \in new
    BY <2>1, <2>5
  <2> QED BY <2>2, <2>3, <2>4, <2>5
<1> QED BY <1>1 DEF OneFrame

(* The bytes a frame of e carries were written. *)
LEMMA CarriedWritten ==
  ASSUME Inv, NEW e \in Endpoint, NEW f \in Underway(e), NEW s \in Streams,
         NEW b \in Nat, Carries(f, s, b)
  PROVE  b < written[e][s]
<1>1. f \in StreamFrame /\ f.id = s
  BY SpansType, FrameKinds DEF Carries, Inv
<1>2. GoodFrame(e, f)
  BY DEF Underway, Inv, Content, FramesOK
<1> QED BY <1>1, <1>2 DEF Carries, GoodFrame, StreamFrame, Inv, TypeOK

(* A tracked packet whose number gets marked has arrived whole. *)
LEMMA AckedReachedKept ==
  ASSUME Inv, Inv', OneFrame, AckedReached,
         \A x \in Endpoint : PacketStep(x),
         \A x \in Endpoint, s \in Streams :
           /\ Placed(x, s) /\ Tally(x, s)
           /\ WriterStep(x, s) /\ ReaderStep(x, s)
  PROVE  AckedReached'
<1>1. ASSUME NEW x \in Endpoint, NEW s \in Streams,
             closed'[Peer(x)] = "open", NEW p \in sent'[x], NEW b \in Nat,
             p.pn \in Marks(x)', Carries(p.frame, s, b)
      PROVE  Reached(Peer(x), s, b)'
  <2> DEFINE e == Peer(x)
  <2>0. e \in Endpoint /\ Peer(e) = x /\ closed[e] = "open"
    BY <1>1, PeerType DEF PacketStep
  <2>1. CASE p \notin sent[x]
    <3>1. p.pn \in FreePn(x)
      BY <2>1 DEF PacketStep
    <3>2. p.pn \notin Marks(x) /\ \A q \in net : q.src = x => q.pn # p.pn
      BY <3>1 DEF FreePn, Marks
    <3> QED BY <1>1, <3>2 DEF PacketStep
  <2>2. CASE p \in sent[x]
    <3>1. b < written[x][s]
      <4>1. p.frame \in Underway(x)
        BY <2>2 DEF Underway
      <4> QED BY <1>1, <4>1, CarriedWritten
    <3>2. CASE p.pn \in Marks(x)
      <4>1. Reached(e, s, b)
        BY <1>1, <2>0, <2>2, <3>2 DEF AckedReached, Marks
      <4> QED BY <2>0, <3>1, <4>1, ReachedKept
    <3>3. CASE p.pn \notin Marks(x)
      <4>1. PICK q \in net : /\ q.src = x /\ q.pn = p.pn
                             /\ \/ q.frame.kind # "stream"
                                \/ closed'[Peer(x)] # "open"
                                \/ ReceiveStream(Peer(x), q)
        BY <1>1, <3>3 DEF PacketStep
      <4>2. q.frame = p.frame
        BY <2>2, <4>1 DEF OneFrame
      <4>3. q.frame.id = s /\ ReceiveStream(e, q) /\ Carries(q.frame, s, b)
        BY <1>1, <4>1, <4>2 DEF Carries
      <4>4. PICK o \in StreamRecord : ReadsTo(e, s, o) /\ HasByte(o, b)
        BY <2>0, <4>3, ReaderReceives
      <4> QED BY <2>0, <3>1, <4>4, TallyKept
    <3> QED BY <3>2, <3>3
  <2> QED BY <2>1, <2>2
<1> QED BY <1>1 DEF AckedReached, Marks

(* A byte is still somewhere after every step. *)
LEMMA ForgottenKept ==
  ASSUME Inv, Inv', AckedReached, AllBytesKept,
         \A x \in Endpoint : PacketStep(x),
         \A x \in Endpoint, s \in Streams :
           Tally(x, s) /\ WriterStep(x, s) /\ ReaderStep(x, s)
  PROVE  AllBytesKept'
<1>1. ASSUME NEW x \in Endpoint, NEW s \in Streams,
             closed'[Peer(x)] = "open", NEW b \in 0 .. (written'[x][s] - 1)
      PROVE  \/ strm'[x][s].tx <= b /\ b < strm'[x][s].size
             \/ \E p \in sent'[x] : Carries(p.frame, s, b)
             \/ \E f \in lost'[x] : Carries(f, s, b)
             \/ Reached(Peer(x), s, b)'
  <2> DEFINE e == Peer(x)
  <2>0. /\ e \in Endpoint /\ Peer(e) = x /\ closed[e] = "open"
        /\ b \in Nat /\ written[x][s] \in Nat /\ written'[x][s] \in Nat
        /\ b < written'[x][s]
    BY <1>1, PeerType DEF PacketStep, Inv, TypeOK
  <2>1. CASE b < written[x][s]
    <3>0. b \in 0 .. (written[x][s] - 1)
      BY <2>0, <2>1
    <3>1. CASE strm[x][s].tx <= b /\ b < strm[x][s].size
      BY <2>0, <3>1 DEF WriterStep
    <3>2. CASE Reached(e, s, b)
      BY <2>0, <2>1, <3>2, ReachedKept
    <3>3. ASSUME NEW p \in sent[x], Carries(p.frame, s, b)
          PROVE  \/ \E q \in sent'[x] : Carries(q.frame, s, b)
                 \/ \E f \in lost'[x] : Carries(f, s, b)
                 \/ Reached(Peer(x), s, b)'
      <4>1. \/ p \in sent'[x] \/ p.frame \in lost'[x]
            \/ p.frame.kind # "stream" \/ p.pn \in acks[x]
        BY DEF PacketStep
      <4>2. CASE p.pn \in acks[x]
        <5>1. Reached(e, s, b)
          BY <2>0, <3>3, <4>2 DEF AckedReached
        <5> QED BY <2>0, <2>1, <5>1, ReachedKept
      <4> QED BY <3>3, <4>1, <4>2 DEF Carries
    <3>4. ASSUME NEW f \in lost[x], Carries(f, s, b)
          PROVE  \/ \E q \in sent'[x] : Carries(q.frame, s, b)
                 \/ \E g \in lost'[x] : Carries(g, s, b)
      BY <3>4 DEF PacketStep
    <3> QED BY <2>0, <3>0, <3>1, <3>2, <3>3, <3>4 DEF AllBytesKept, BytesKept, Reached
  <2>2. CASE written[x][s] <= b
    BY <2>0, <2>2 DEF WriterStep
  <2> QED BY <2>0, <2>1, <2>2
<1> QED BY <1>1 DEF AllBytesKept, BytesKept, Reached

(* The inductive invariant holds at the start. *)
LEMMA InitDelivery == Init => DeliveryInv
<1> SUFFICES ASSUME Init PROVE DeliveryInv
  OBVIOUS
<1>1. Inv
  BY InitInv
<1>2. /\ net = {} /\ \A e \in Endpoint : sent[e] = {} /\ lost[e] = {}
      /\ \A e \in Endpoint, s \in Streams :
           /\ strm[e][s] = Fresh /\ ~finished[e][s]
           /\ written[e][s] = 0 /\ delivered[e][s] = 0
  BY DEF Init
<1>3. Fresh.rx = 0 /\ Fresh.tx = 0 /\ Fresh.ooo = {}
  BY DEF Fresh, NewStream
<1>4. \A e \in Endpoint, s \in Streams : Spans(e, s) = {}
  BY <1>2, <1>3, PeerType DEF Spans, Underway
<1>5. \A e \in Endpoint, s \in Streams : Placed(e, s) /\ Tally(e, s)
  BY <1>2, <1>3, <1>4, PeerType DEF Placed, Tally, Sending
<1>6. AllBytesKept
  BY <1>2 DEF AllBytesKept, BytesKept
<1> QED BY <1>1, <1>2, <1>5, <1>6 DEF DeliveryInv, OneFrame, AckedReached

(* Every step keeps the inductive invariant. *)
LEMMA StepDelivery == DeliveryInv /\ [Next]_vars => DeliveryInv'
<1> SUFFICES ASSUME DeliveryInv, [Next]_vars PROVE DeliveryInv'
  OBVIOUS
<1>1. CASE UNCHANGED vars
  BY <1>1 DEF vars, connVars, pendVars, ackVars, appVars, DeliveryInv, Inv,
     TypeOK, Content, StreamsOK, FramesOK, GoodStream, GoodFrame, Placed,
     Spans, Underway, Sending, Tally, MayForget, OneFrame, AckedReached,
     Reached, AllBytesKept, BytesKept
<1>2. CASE Next
  <2>1. Inv /\ Inv'
    BY StepInv DEF DeliveryInv
  <2>2. \A x \in Endpoint, s \in Streams :
          /\ Placed(x, s) /\ Tally(x, s)
          /\ WriterStep(x, s) /\ ReaderStep(x, s)
    BY <1>2, <2>1, WriterSteps, ReaderSteps DEF DeliveryInv
  <2>3. \A x \in Endpoint :
          /\ PacketStep(x)
          /\ \A g \in Underway(x)' : g \in Underway(x) \/ Issued(x, g)
    BY <1>2, <2>1, PacketSteps
  <2>4. ASSUME NEW x \in Endpoint, NEW s \in Streams
        PROVE  Placed(x, s)'
    <3>1. CASE SendStream(x, s)
      BY <2>1, <2>2, <3>1, PlacedSent
    <3>2. CASE ~SendStream(x, s)
      BY <2>1, <2>2, <2>3, <3>2, PeerType, PlacedKept DEF Issued
    <3> QED BY <3>1, <3>2
  <2>5. ASSUME NEW e \in Endpoint, NEW s \in Streams
        PROVE  Tally(e, s)'
    <3>1. PICK o \in StreamRecord : ReadsTo(e, s, o)
      BY <2>2 DEF ReaderStep
    <3> QED BY <2>1, <2>2, <3>1, PeerType, TallyKept
  <2>6. OneFrame'
    BY <2>3, OneFrameKept DEF DeliveryInv
  <2>7. AckedReached'
    BY <2>1, <2>2, <2>3, AckedReachedKept DEF DeliveryInv
  <2>8. AllBytesKept'
    BY <2>1, <2>2, <2>3, ForgottenKept DEF DeliveryInv
  <2> QED BY <2>1, <2>4, <2>5, <2>6, <2>7, <2>8 DEF DeliveryInv
<1> QED BY <1>1, <1>2, SMTT(40)

-----------------------------------------------------------------------------
(* The ends of the streams. *)

(* The FIN is sent by a stream that has been closed, once. *)
FinOnce(e, s) == strm[e][s].fin_sent => ShouldSendFin(strm[e][s])

(* A tracked packet that is, or will be, acknowledged has told the peer of *)
(* the end it carries.                                                     *)
AckedEnds ==
  \A e \in Endpoint, s \in Streams :
    closed[Peer(e)] = "open" =>
      \A p \in sent[e] :
        p.pn \in Marks(e) /\ CarriesEnd(p.frame, s) => EndKnown(Peer(e), s)

(* The half of NothingForgotten that is about ends. *)
AllEndsKept ==
  \A e \in Endpoint, s \in Streams :
    closed[Peer(e)] = "open" => EndKept(e, s)

EndInv ==
  /\ DeliveryInv
  /\ \A e \in Endpoint, s \in Streams : FinOnce(e, s)
  /\ AckedEnds /\ AllEndsKept

(* What becomes of the ends of stream s at e: what is known of the peer's  *)
(* end stays known, and its own is still to be sent or in a packet that is *)
(* tracked.                                                                *)
EndStep(e, s) ==
  /\ finished[e][s] => finished'[e][s]
  /\ FinOnce(e, s)'
  /\ Heard(strm[e][s]) => EndKnown(e, s)'
  /\ /\ finished'[e][s]
     /\ finished[e][s] => ShouldSendFin(strm[e][s]) /\ ~strm[e][s].fin_sent
     => \/ ShouldSendFin(strm'[e][s]) /\ ~strm'[e][s].fin_sent
        \/ \E p \in sent'[e] : CarriesEnd(p.frame, s)

(* Every step is an EndStep of every stream. *)
LEMMA EndSteps ==
  ASSUME Inv, Next, NEW x \in Endpoint, NEW t \in Streams, FinOnce(x, t)
  PROVE  EndStep(x, t)
<1>0. /\ strm[x][t] \in StreamRecord /\ GoodStream(x, t, strm[x][t])
      /\ finished[x][t] \in BOOLEAN
  BY DEF Inv, TypeOK, Content, StreamsOK
<1>1. ASSUME SenderKept(x, t), UNCHANGED finished
      PROVE  EndStep(x, t)
  <2>1. CASE SendSame(strm[x][t], strm'[x][t])
    BY <1>1, <2>1 DEF EndStep, FinOnce, SendSame, EndKnown, Heard
  <2>2. CASE /\ strm'[x][t] = Fresh /\ MayForget(x, t)
             /\ strm[x][t].fin_sent
    <3>1. ~Fresh.fin_sent
      BY DEF Fresh, NewStream
    <3>2. finished[x][t] /\ MayForget(x, t)'
      BY <1>1, <2>2 DEF MayForget
    <3> QED BY <1>1, <2>2, <3>1, <3>2 DEF EndStep, FinOnce, EndKnown
  <2> QED BY <1>1, <2>1, <2>2 DEF SenderKept
<1>2. ASSUME UNCHANGED <<strm[x][t], finished[x][t]>>
      PROVE  EndStep(x, t)
  BY <1>2 DEF EndStep, FinOnce, EndKnown, Heard
<1>3. ASSUME NEW e \in Endpoint, Quiet(e)
      PROVE  EndStep(x, t)
  BY <1>2, <1>3, QuietSteps DEF appVars
<1>4. ASSUME NEW e \in Endpoint,
             \/ \E p \in net : Receive(e, p)
             \/ \E n \in acks[e] : ReceiveAck(e, n)
      PROVE  EndStep(x, t)
  BY <1>1, <1>4, ReceiveKeepsSender
<1>5. ASSUME NEW e \in Endpoint, NEW s \in Streams, StreamWrite(e, s)
      PROVE  EndStep(x, t)
  <2>1. PICK n \in 1 .. (MaxWrite[e] - written[e][s]) :
          strm' = [strm EXCEPT ![e][s] = Write(strm[e][s], n)]
    BY <1>5 DEF StreamWrite
  <2>2. ~finished[e][s] /\ finished' = finished
    BY <1>5 DEF StreamWrite, Usable
  <2>3. CASE x = e /\ t = s
    <3>1. strm'[x][t] = Write(strm[x][t], n)
      BY <2>1, <2>3 DEF Inv, TypeOK
    <3>2. /\ ~ShouldSendFin(strm[x][t])
      BY <1>0, <2>2, <2>3 DEF GoodStream
    <3>3. /\ Write(strm[x][t], n).fin_sent = strm[x][t].fin_sent
          /\ Heard(strm[x][t]) => Heard(Write(strm[x][t], n))
      BY <1>0 DEF Write, Opened, Heard, AtEnd, StreamRecord
    <3> QED BY <2>2, <2>3, <3>1, <3>2, <3>3 DEF EndStep, FinOnce, EndKnown, Heard
  <2>4. CASE ~(x = e /\ t = s)
    BY <1>2, <2>1, <2>2, <2>4 DEF Inv, TypeOK
  <2> QED BY <2>3, <2>4
<1>6. ASSUME NEW e \in Endpoint, NEW s \in Streams, StreamClose(e, s)
      PROVE  EndStep(x, t)
  <2>1. /\ strm' = [strm EXCEPT ![e][s] = CloseLocal(strm[e][s])]
        /\ ~finished[e][s] /\ strm[e][s].state # "Idle"
        /\ finished' = [finished EXCEPT ![e][s] = TRUE]
    BY <1>6 DEF StreamClose, Usable
  <2>2. CASE x = e /\ t = s
    <3>1. strm'[x][t] = CloseLocal(strm[x][t]) /\ finished'[x][t]
      BY <2>1, <2>2 DEF Inv, TypeOK
    <3>2. /\ strm[x][t].state \in StreamState \ {"Idle", "Reset"}
          /\ ~ShouldSendFin(strm[x][t])
      BY <1>0, <2>1, <2>2 DEF GoodStream, StreamRecord
    <3>3. /\ CloseLocal(strm[x][t]).fin_sent = strm[x][t].fin_sent
          /\ ShouldSendFin(CloseLocal(strm[x][t]))
          /\ Heard(strm[x][t]) => Heard(CloseLocal(strm[x][t]))
      BY <1>0, <3>2
         DEF CloseLocal, ShouldSendFin, Heard, AtEnd, StreamRecord, StreamState
    <3> QED BY <3>1, <3>2, <3>3 DEF EndStep, FinOnce, EndKnown, Heard
  <2>3. CASE ~(x = e /\ t = s)
    BY <1>2, <2>1, <2>3 DEF Inv, TypeOK
  <2> QED BY <2>2, <2>3
<1>7. ASSUME NEW e \in Endpoint, NEW s \in Streams, SendStream(e, s)
      PROVE  EndStep(x, t)
  <2> DEFINE st == strm[e][s]
             len == PollLen(st, Budget, ConnAvailable(e))
             fin == PollFin(st, len)
             f == [kind |-> "stream", id |-> s, off |-> st.tx, len |-> len,
                   fin |-> fin]
  <2>1. /\ Emit(e, f) /\ strm' = [strm EXCEPT ![e][s] = AfterPoll(st, len)]
        /\ finished' = finished
    BY <1>7 DEF SendStream, appVars
  <2>2. CASE x = e /\ t = s
    <3>1. strm'[x][t] = AfterPoll(st, len)
      BY <2>1, <2>2 DEF Inv, TypeOK
    <3>2. /\ AfterPoll(st, len).state = st.state
          /\ AfterPoll(st, len).fin = st.fin
          /\ AfterPoll(st, len).fin_sent = (fin \/ st.fin_sent)
      BY <1>0, <2>2 DEF AfterPoll, StreamRecord
    <3>3. fin => ShouldSendFin(st)
      BY DEF PollFin
    <3>4. fin => \E p \in sent'[x] : CarriesEnd(p.frame, t)
      <4>1. len \in Nat /\ st.tx \in Nat /\ fin \in BOOLEAN
        BY <1>0, <2>2, PollType DEF Inv, Content, StreamRecord, PollFin
      <4>2. f \in Frame
        BY <4>1 DEF Frame, Requeued, StreamFrame
      <4>3. \E p \in sent'[e] : p.frame = f
        <5> HIDE DEF f
        <5> QED BY <2>1, <4>2, EmitFacts DEF Inv
      <4> QED BY <2>2, <4>3 DEF CarriesEnd
    <3> HIDE DEF len, fin
    <3> QED BY <2>1, <2>2, <3>1, <3>2, <3>3, <3>4
            DEF EndStep, FinOnce, EndKnown, Heard, AtEnd, ShouldSendFin
  <2>3. CASE ~(x = e /\ t = s)
    BY <1>2, <2>1, <2>3 DEF Inv, TypeOK
  <2> QED BY <2>2, <2>3
<1> QED BY <1>3, <1>4, <1>5, <1>6, <1>7, NextCases

(* A FIN that arrives is heard of. *)
LEMMA EndReceived ==
  ASSUME Inv, NEW e \in Endpoint, NEW p \in net, ReceiveStream(e, p),
         p.frame.fin
  PROVE  EndKnown(e, p.frame.id)'
<1> DEFINE f == p.frame
           st == strm[e][f.id]
<1>1. f \in StreamFrame /\ f.id \in Streams /\ p.src = Peer(e)
  BY NoteType, FrameKinds DEF ReceiveStream, StreamFrame, Inv, NotePacket
<1>2. PICK o \in StreamOutcomes(st, f) : StreamUpdate(e, f.id, o)
  BY DEF ReceiveStream
<1>3. /\ st \in StreamRecord /\ st.state # "Reset" /\ GoodStream(e, f.id, st)
      /\ GoodFrame(Peer(e), f)
  BY <1>1 DEF Inv, TypeOK, Content, StreamsOK, FramesOK, GoodStream
<1>4. Heard(o)
  <2> HIDE DEF st, f
  <2>1. f.fin
    BY DEF f
  <2> QED BY <1>1, <1>3, <2>1, OutcomeHeard
<1>5. GoodStream(e, f.id, o)
  BY <1>1, <1>3, OutcomeGood DEF Inv
<1>6. \/ strm'[e][f.id] = o
      \/ strm'[e][f.id] = Fresh /\ e = "server" /\ FullyDone(o)
  BY <1>1, <1>2 DEF StreamUpdate, Cleanup, Inv, TypeOK
<1>7. FullyDone(o) /\ e = "server" => MayForget(e, f.id)
  BY <1>5 DEF FullyDone, GoodStream, ShouldSendFin, MayForget, Peer
<1>8. MayForget(e, f.id) => MayForget(e, f.id)'
  BY DEF ReceiveStream, MayForget
<1> QED BY <1>4, <1>6, <1>7, <1>8 DEF EndKnown, Heard

(* What is known of an end stays known. *)
LEMMA EndKnownKept ==
  ASSUME NEW e \in Endpoint, NEW s \in Streams, EndKnown(e, s),
         EndStep(e, s), EndStep(Peer(e), s)
  PROVE  EndKnown(e, s)'
<1>1. MayForget(e, s) => MayForget(e, s)'
  BY DEF MayForget, EndStep, Peer
<1> QED BY <1>1 DEF EndKnown, EndStep, Heard

(* A tracked packet whose number gets marked has told of its end. *)
LEMMA AckedEndsKept ==
  ASSUME Inv, OneFrame, AckedEnds,
         \A x \in Endpoint : PacketStep(x),
         \A x \in Endpoint, s \in Streams : EndStep(x, s)
  PROVE  AckedEnds'
<1>1. ASSUME NEW x \in Endpoint, NEW s \in Streams,
             closed'[Peer(x)] = "open", NEW p \in sent'[x],
             p.pn \in Marks(x)', CarriesEnd(p.frame, s)
      PROVE  EndKnown(Peer(x), s)'
  <2> DEFINE e == Peer(x)
  <2>0. e \in Endpoint /\ Peer(e) = x /\ closed[e] = "open"
    BY <1>1, PeerType DEF PacketStep
  <2>1. CASE p \notin sent[x]
    <3>1. p.pn \in FreePn(x)
      BY <2>1 DEF PacketStep
    <3>2. p.pn \notin Marks(x) /\ \A q \in net : q.src = x => q.pn # p.pn
      BY <3>1 DEF FreePn, Marks
    <3> QED BY <1>1, <3>2 DEF PacketStep
  <2>2. CASE p \in sent[x] /\ p.pn \in Marks(x)
    <3>1. EndKnown(e, s)
      BY <1>1, <2>0, <2>2 DEF AckedEnds
    <3> QED BY <2>0, <3>1, EndKnownKept
  <2>3. CASE p \in sent[x] /\ p.pn \notin Marks(x)
    <3>1. PICK q \in net : /\ q.src = x /\ q.pn = p.pn
                           /\ \/ q.frame.kind # "stream"
                              \/ closed'[Peer(x)] # "open"
                              \/ ReceiveStream(Peer(x), q)
      BY <1>1, <2>3 DEF PacketStep
    <3>2. q.frame = p.frame
      BY <2>3, <3>1 DEF OneFrame
    <3>3. q.frame.id = s /\ ReceiveStream(e, q) /\ q.frame.fin
      BY <1>1, <3>1, <3>2 DEF CarriesEnd
    <3> QED BY <2>0, <3>3, EndReceived
  <2> QED BY <2>1, <2>2, <2>3
<1> QED BY <1>1 DEF AckedEnds

(* An end is still somewhere after every step. *)
LEMMA EndsKeptStep ==
  ASSUME AckedEnds, AllEndsKept,
         \A x \in Endpoint : PacketStep(x),
         \A x \in Endpoint, s \in Streams : EndStep(x, s)
  PROVE  AllEndsKept'
<1>1. ASSUME NEW x \in Endpoint, NEW s \in Streams,
             closed'[Peer(x)] = "open", finished'[x][s]
      PROVE  \/ ShouldSendFin(strm'[x][s]) /\ ~strm'[x][s].fin_sent
             \/ \E p \in sent'[x] : CarriesEnd(p.frame, s)
             \/ \E f \in lost'[x] : CarriesEnd(f, s)
             \/ EndKnown(Peer(x), s)'
  <2> DEFINE e == Peer(x)
  <2>0. e \in Endpoint /\ Peer(e) = x /\ closed[e] = "open"
    BY <1>1, PeerType DEF PacketStep
  <2>1. CASE finished[x][s] =>
               ShouldSendFin(strm[x][s]) /\ ~strm[x][s].fin_sent
    BY <1>1, <2>1 DEF EndStep
  <2>2. CASE EndKnown(e, s)
    BY <2>0, <2>2, EndKnownKept
  <2>3. ASSUME NEW p \in sent[x], CarriesEnd(p.frame, s)
        PROVE  \/ \E q \in sent'[x] : CarriesEnd(q.frame, s)
               \/ \E f \in lost'[x] : CarriesEnd(f, s)
               \/ EndKnown(Peer(x), s)'
    <3>1. \/ p \in sent'[x] \/ p.frame \in lost'[x]
          \/ p.frame.kind # "stream" \/ p.pn \in acks[x]
      BY DEF PacketStep
    <3>2. CASE p.pn \in acks[x]
      <4>1. EndKnown(e, s)
        BY <2>0, <2>3, <3>2 DEF AckedEnds, Marks
      <4> QED BY <2>0, <4>1, EndKnownKept
    <3> QED BY <2>3, <3>1, <3>2 DEF CarriesEnd
  <2>4. ASSUME NEW f \in lost[x], CarriesEnd(f, s)
        PROVE  \/ \E q \in sent'[x] : CarriesEnd(q.frame, s)
               \/ \E g \in lost'[x] : CarriesEnd(g, s)
    BY <2>4 DEF PacketStep
  <2> QED BY <2>0, <2>1, <2>2, <2>3, <2>4 DEF AllEndsKept, EndKept
<1> QED BY <1>1 DEF AllEndsKept, EndKept

(* The ends are kept from the start ... *)
LEMMA InitEnds == Init => EndInv
<1> SUFFICES ASSUME Init PROVE EndInv
  OBVIOUS
<1>1. \A e \in Endpoint, s \in Streams :
        ~strm[e][s].fin_sent /\ ~finished[e][s] /\ sent[e] = {}
  BY DEF Init, Fresh, NewStream
<1> QED BY <1>1, InitDelivery
        DEF EndInv, FinOnce, AckedEnds, AllEndsKept, EndKept

(* ... and by every step. *)
LEMMA StepEnds == EndInv /\ [Next]_vars => EndInv'
<1> SUFFICES ASSUME EndInv, [Next]_vars PROVE EndInv'
  OBVIOUS
<1>0. DeliveryInv'
  BY StepDelivery DEF EndInv
<1>1. CASE UNCHANGED vars
  BY <1>0, <1>1 DEF vars, ackVars, appVars, EndInv, FinOnce, AckedEnds, Marks,
     AllEndsKept, EndKept, EndKnown, MayForget
<1>2. CASE Next
  <2>1. Inv /\ OneFrame
    BY DEF EndInv, DeliveryInv
  <2>2. \A x \in Endpoint, s \in Streams : EndStep(x, s)
    BY <1>2, <2>1, EndSteps DEF EndInv
  <2>3. \A x \in Endpoint : PacketStep(x)
    BY <1>2, <2>1, PacketSteps
  <2>4. \A x \in Endpoint, s \in Streams : FinOnce(x, s)'
    BY <2>2 DEF EndStep
  <2>5. AckedEnds'
    BY <2>1, <2>2, <2>3, AckedEndsKept DEF EndInv
  <2>6. AllEndsKept'
    BY <2>2, <2>3, EndsKeptStep DEF EndInv
  <2> QED BY <1>0, <2>4, <2>5, <2>6 DEF EndInv
<1> QED BY <1>1, <1>2

(* No byte and no end is forgotten: while the reader's connection is open, *)
(* a byte that was written waits in the send buffer, in a tracked packet,  *)
(* in the retransmission queue or out of order at the peer, or was handed  *)
(* over; and the end of a stream is still to be sent, tracked, queued or   *)
(* known to the peer.  It rests on the cutting of a stream into parts      *)
(* once: receive_data ignores a segment by its offset alone, and           *)
(* acknowledges it.                                                        *)
THEOREM NothingIsForgotten == Spec => []NothingForgotten
<1>1. EndInv => NothingForgotten
  BY DEF EndInv, DeliveryInv, AllBytesKept, AllEndsKept, NothingForgotten
<1> QED BY <1>1, InitEnds, StepEnds, PTL DEF Spec

(* A byte is handed over a second time only once both sides have ended the *)
(* stream and the server may have dropped it (cleanup_done_streams).       *)
THEOREM AgainOnlyAfterTheEnd == Spec => []AgainOnlyWhenDone
<1>1. DeliveryInv => AgainOnlyWhenDone
  <2> SUFFICES ASSUME DeliveryInv, NEW e \in Endpoint, NEW s \in Streams,
                      delivered[e][s] > written[Peer(e)][s]
               PROVE  MayForget(e, s)
    BY DEF AgainOnlyWhenDone
  <2>1. /\ strm[e][s].rx <= written[Peer(e)][s] /\ strm[e][s].rx \in Nat
        /\ delivered[e][s] \in Nat /\ written[Peer(e)][s] \in Nat
    BY PeerType DEF DeliveryInv, Inv, TypeOK, StreamRecord, Content,
                    StreamsOK, GoodStream
  <2>2. Tally(e, s)
    BY DEF DeliveryInv
  <2> QED BY <2>1, <2>2 DEF Tally
<1> QED BY <1>1, InitDelivery, StepDelivery, PTL DEF Spec

-----------------------------------------------------------------------------
(* Credit.  The inductive invariant: a limit that is announced was         *)
(* granted, a STREAM frame stays within what its reader enforces, and a    *)
(* sender within what it believes, but for the streams that the server may *)
(* have dropped, and their limits with them.                               *)
FrameCredit(e, f) ==
  /\ f.kind = "max_data" => f.max <= max_data_local[e]
  /\ f.kind = "max_stream_data" =>
       f.max <= strm[e][f.id].max_local \/ MayForget(e, f.id)
  /\ f.kind = "stream" =>
       \/ f.off + f.len <= strm[Peer(e)][f.id].max_local
       \/ MayForget(Peer(e), f.id)

StreamCredit(e, s) ==
  LET st == strm[e][s]
  IN /\ InitialMaxStream <= st.max_local
     /\ st.tx <= st.max_remote
     /\ \/ st.max_remote <= strm[Peer(e)][s].max_local
        \/ MayForget(Peer(e), s)

ConnCredit(e) ==
  /\ max_data_remote[e] <= max_data_local[Peer(e)]
  /\ max_data_local[e] <= MaxCredit
  /\ closed[e] = "protocol_violation" => \E s \in Streams : MayForget(e, s)

CreditInv ==
  /\ Inv
  /\ \A e \in Endpoint : /\ \A f \in Underway(e) : FrameCredit(e, f)
                         /\ \A s \in Streams : StreamCredit(e, s)
                         /\ ConnCredit(e)

(* What a step does to the limits of a stream: y is the stream before      *)
(* cleanup_done_streams.                                                   *)
CreditTo(e, s, y) ==
  LET st == strm[e][s]
  IN /\ st.max_local <= y.max_local
     /\ y.tx = st.tx \/ y.tx <= y.max_remote
     /\ \/ y.max_remote = st.max_remote
        \/ /\ y.max_remote >= st.max_remote
           /\ \E f \in Underway(Peer(e)) :
                f.kind = "max_stream_data" /\ f.id = s /\ f.max = y.max_remote

CreditStep(e, s) ==
  \/ CreditTo(e, s, strm'[e][s])
  \/ strm'[e][s] = Fresh /\ MayForget(e, s)

(* What a step does to the limits of the connection. *)
LimitStep(e) ==
  /\ max_data_local[e] <= max_data_local'[e] /\ max_data_local'[e] <= MaxCredit
  /\ \/ max_data_remote'[e] = max_data_remote[e]
     \/ \E f \in Underway(Peer(e)) :
          f.kind = "max_data" /\ f.max = max_data_remote'[e]
  /\ closed'[e] = "protocol_violation" =>
       \/ closed[e] = "protocol_violation"
       \/ \E f \in Underway(Peer(e)) :
            /\ f.kind = "stream" /\ f.id \in Streams
            /\ f.off + f.len > strm[e][f.id].max_local

(* After an update of stream s0 at e to y the streams are as they were, or *)
(* dropped at the server when both sides were over.                        *)
LEMMA TableStep ==
  ASSUME Inv, NEW e \in Endpoint, NEW s0 \in Streams, NEW y \in StreamRecord,
         GoodStream(e, s0, y),
         StreamUpdate(e, s0, y) \/ (NoStreamUpdate(e) /\ y = strm[e][s0]),
         NEW x \in Endpoint, NEW s \in Streams
  PROVE  \/ strm'[x][s] = IF x = e /\ s = s0 THEN y ELSE strm[x][s]
         \/ strm'[x][s] = Fresh /\ MayForget(x, s)
<1> DEFINE z == IF x = e /\ s = s0 THEN y ELSE strm[x][s]
<1>1. z \in StreamRecord /\ GoodStream(x, s, z)
  BY DEF Inv, TypeOK, Content, StreamsOK
<1>2. \/ strm'[x][s] = z
      \/ strm'[x][s] = Fresh /\ x = "server" /\ FullyDone(z)
  BY DEF StreamUpdate, NoStreamUpdate, Cleanup, Inv, TypeOK
<1>3. FullyDone(z) /\ x = "server" => MayForget(x, s)
  <2> HIDE DEF z
  <2> QED BY <1>1 DEF FullyDone, GoodStream, ShouldSendFin, MayForget, Peer,
                      StreamRecord
<1> QED BY <1>2, <1>3

(* Every step is a CreditStep of every stream. *)
LEMMA CreditSteps ==
  ASSUME Inv, Next, NEW x \in Endpoint, NEW t \in Streams
  PROVE  CreditStep(x, t)
<1>0. \A e \in Endpoint, s \in Streams : /\ strm[e][s] \in StreamRecord
                                         /\ GoodStream(e, s, strm[e][s])
  BY DEF Inv, TypeOK, Content, StreamsOK
<1>1. CreditTo(x, t, strm[x][t])
  BY <1>0 DEF CreditTo, StreamRecord
<1>2. ASSUME NEW e \in Endpoint, NEW s0 \in Streams, NEW y \in StreamRecord,
             GoodStream(e, s0, y), CreditTo(e, s0, y),
             StreamUpdate(e, s0, y) \/ (NoStreamUpdate(e) /\ y = strm[e][s0])
      PROVE  CreditStep(x, t)
  BY <1>1, <1>2, TableStep DEF CreditStep
<1>3. ASSUME NEW e \in Endpoint, NoStreamUpdate(e)
      PROVE  CreditStep(x, t)
  <2>1. \/ strm'[x][t] = strm[x][t]
        \/ strm'[x][t] = Fresh /\ MayForget(x, t)
    BY <1>0, <1>3, TableStep
  <2> QED BY <1>1, <2>1 DEF CreditStep
<1>4. ASSUME NEW e \in Endpoint, NEW s \in Streams, NEW y,
             strm' = [strm EXCEPT ![e][s] = y], CreditTo(e, s, y)
      PROVE  CreditStep(x, t)
  <2>1. strm'[x][t] = IF x = e /\ t = s THEN y ELSE strm[x][t]
    BY <1>4 DEF Inv, TypeOK
  <2> QED BY <1>1, <1>4, <2>1 DEF CreditStep
<1>5. ASSUME NEW e \in Endpoint, NEW s \in Streams,
             StreamWrite(e, s) \/ StreamClose(e, s)
      PROVE  CreditStep(x, t)
  <2>1. \A n : CreditTo(e, s, Write(strm[e][s], n))
    BY <1>0 DEF Write, Opened, StreamRecord, CreditTo
  <2>2. CreditTo(e, s, CloseLocal(strm[e][s]))
    BY <1>0 DEF CloseLocal, StreamRecord, CreditTo
  <2>3. \/ \E n : strm' = [strm EXCEPT ![e][s] = Write(strm[e][s], n)]
        \/ strm' = [strm EXCEPT ![e][s] = CloseLocal(strm[e][s])]
    BY <1>5 DEF StreamWrite, StreamClose
  <2> QED BY <1>4, <2>1, <2>2, <2>3
<1>6. ASSUME NEW e \in Endpoint, NEW s \in Streams, SendStream(e, s)
      PROVE  CreditStep(x, t)
  <2> DEFINE st == strm[e][s]
  <2>1. PICK f \in StreamFrame :
          /\ f.off = st.tx
          /\ f.len = 0 \/ f.off + f.len <= st.max_remote
          /\ strm' = [strm EXCEPT ![e][s] = AfterPoll(st, f.len)]
          /\ AfterPoll(st, f.len).tx = f.off + f.len
    BY <1>6, NewFrame
  <2>2. /\ AfterPoll(st, f.len).max_remote = st.max_remote
        /\ AfterPoll(st, f.len).max_local = st.max_local
    BY <1>0 DEF AfterPoll, StreamRecord
  <2>3. CreditTo(e, s, AfterPoll(st, f.len))
    BY <1>0, <2>1, <2>2 DEF CreditTo, StreamRecord, StreamFrame
  <2> QED BY <1>4, <2>1, <2>3
<1>7. ASSUME NEW e \in Endpoint, NEW p \in net, ReceiveStream(e, p)
      PROVE  CreditStep(x, t)
  <2> DEFINE f == p.frame
             st == strm[e][f.id]
  <2>1. f \in StreamFrame /\ f.id \in Streams /\ p.src = Peer(e)
    BY <1>7, NoteType, FrameKinds DEF ReceiveStream, StreamFrame, Inv, NotePacket
  <2>2. PICK o \in StreamOutcomes(st, f) : StreamUpdate(e, f.id, o)
    BY <1>7 DEF ReceiveStream
  <2>3. GoodFrame(Peer(e), f)
    BY <2>1 DEF Inv, Content, FramesOK
  <2>4. o \in StreamRecord /\ GoodStream(e, f.id, o)
    BY <1>0, <2>1, <2>3, OutcomeType, OutcomeGood DEF Inv
  <2>5. SameBytes([st EXCEPT !.rx = o.rx, !.ooo = o.ooo], o)
    <3>1. st \in StreamRecord
      BY <1>0, <2>1
    <3> HIDE DEF st, f
    <3> QED BY <2>1, <3>1, OutcomeFacts, Zenon
  <2>6. CreditTo(e, f.id, o)
    BY <1>0, <2>1, <2>5 DEF CreditTo, SameBytes, StreamRecord
  <2> QED BY <1>2, <2>1, <2>2, <2>4, <2>6
<1>8. ASSUME NEW e \in Endpoint, NEW p \in net, RefuseStream(e, p)
      PROVE  CreditStep(x, t)
  <2> DEFINE f == p.frame
             st == strm[e][f.id]
  <2>1. f.id \in Streams
    BY <1>8, NoteType, FrameKinds DEF RefuseStream, StreamFrame, Inv
  <2>2. strm' = strm \/ strm' = [strm EXCEPT ![e][f.id] = Opened(st)]
    BY <1>8 DEF RefuseStream
  <2>3. CreditTo(e, f.id, Opened(st))
    BY <1>0, <2>1 DEF Opened, StreamRecord, CreditTo
  <2> QED BY <1>1, <1>4, <2>1, <2>2, <2>3 DEF CreditStep
<1>9. ASSUME NEW e \in Endpoint, NEW p \in net, ReceiveMaxStreamData(e, p)
      PROVE  CreditStep(x, t)
  <2> DEFINE f == p.frame
             st == strm[e][f.id]
             y == Announced(st, f.max)
  <2>1. /\ f.id \in Streams /\ f.max \in Nat /\ f.kind = "max_stream_data"
        /\ p.src = Peer(e)
    BY <1>9, NoteType, FrameKinds
       DEF ReceiveMaxStreamData, MaxStreamDataFrame, Inv, NotePacket
  <2>2. y \in StreamRecord /\ GoodStream(e, f.id, y)
    BY <1>0, <2>1, AnnouncedKeeps, AnnouncedGood
  <2>3. StreamUpdate(e, f.id, y)
    BY <1>9 DEF ReceiveMaxStreamData
  <2>4. f \in Underway(Peer(e))
    BY <2>1 DEF Underway
  <2>5. /\ y.max_local = st.max_local /\ y.tx = st.tx
        /\ \/ y.max_remote = st.max_remote
           \/ y.max_remote = f.max /\ f.max >= st.max_remote
    BY <1>0, <2>1, SMTT(40) DEF Announced, UpdateMaxStreamData, StreamRecord
  <2>6. CreditTo(e, f.id, y)
    BY <1>0, <2>1, <2>4, <2>5 DEF CreditTo, StreamRecord
  <2> QED BY <1>2, <2>1, <2>2, <2>3, <2>6
<1>10. ASSUME NEW e \in Endpoint, NEW p \in net, ReceiveStreamDataBlocked(e, p)
       PROVE  CreditStep(x, t)
  <2> DEFINE s == p.frame.id
             st == strm[e][s]
             y == Extended(st)
  <2>1. s \in Streams
    BY <1>10, NoteType, FrameKinds
       DEF ReceiveStreamDataBlocked, StreamDataBlockedFrame, Inv
  <2>2. Raised(st.max_local, MaxStreamCredit) \in Nat
    BY <1>0, <2>1, TransferAssumption DEF Raised, Smaller, StreamRecord
  <2>3. y \in StreamRecord
    BY <1>0, <2>1, <2>2, StreamTypes DEF Extended
  <2>4. /\ y.rx = st.rx /\ y.state = st.state /\ y.tx = st.tx
        /\ y.size = st.size /\ y.ooo = st.ooo /\ y.fin = st.fin
        /\ y.max_remote = st.max_remote /\ y.max_local >= st.max_local
    BY <1>0, <2>1, <2>2 DEF Extended, UpdateMaxStreamDataLocal, StreamRecord
  <2>5. StreamUpdate(e, s, y) \/ NoStreamUpdate(e)
    BY <1>10, SMTT(40) DEF ReceiveStreamDataBlocked
  <2> HIDE DEF y
  <2>6. GoodStream(e, s, y) /\ CreditTo(e, s, y)
    BY <1>0, <2>1, <2>3, <2>4 DEF GoodStream, ShouldSendFin, CreditTo, StreamRecord
  <2> QED BY <2>1, <2>3, <2>5, <2>6, <1>2, <1>3
<1>11. ASSUME NEW e \in Endpoint, NEW p \in net, Receive(e, p)
       PROVE  CreditStep(x, t)
  <2>1. CASE ReceiveMaxData(e, p) \/ ReceiveDataBlocked(e, p)
    BY <2>1, <1>3 DEF ReceiveMaxData, ReceiveDataBlocked
  <2> QED BY <1>11, <2>1, <1>7, <1>8, <1>9, <1>10 DEF Receive
<1>12. ASSUME NEW e \in Endpoint, NEW n \in acks[e], ReceiveAck(e, n)
       PROVE  CreditStep(x, t)
  BY <1>3, <1>12 DEF ReceiveAck
<1>13. ASSUME NEW e \in Endpoint, Quiet(e)
       PROVE  CreditStep(x, t)
  BY <1>1, <1>13, QuietSteps DEF CreditStep
<1> QED BY <1>5, <1>6, <1>11, <1>12, <1>13, NextCases

(* Every step is a LimitStep of both connections. *)
LEMMA LimitSteps ==
  ASSUME Inv, Next, \A e \in Endpoint : max_data_local[e] <= MaxCredit
  PROVE  \A x \in Endpoint : LimitStep(x)
<1> DEFINE Goal == \A x \in Endpoint : LimitStep(x)
<1>0. \A x \in Endpoint : max_data_local[x] \in Nat /\ max_data_remote[x] \in Nat
  BY DEF Inv, TypeOK
<1>1. ASSUME UNCHANGED <<max_data_local, max_data_remote>>,
             \/ closed' = closed
             \/ \E e \in Endpoint, r \in {"flow_control", "peer"} :
                  closed' = [closed EXCEPT ![e] = r]
      PROVE  Goal
  <2>1. \A x \in Endpoint : closed'[x] = "protocol_violation" =>
          closed[x] = "protocol_violation"
    BY <1>1 DEF Inv, TypeOK
  <2> QED BY <1>0, <1>1, <2>1 DEF LimitStep
<1>2. ASSUME NEW e \in Endpoint, NEW p \in net, ReceiveMaxData(e, p)
      PROVE  Goal
  <2>1. /\ p.frame.kind = "max_data" /\ p.src = Peer(e)
        /\ UNCHANGED <<max_data_local, closed>>
        /\ max_data_remote' = [max_data_remote EXCEPT ![e] =
                           IF p.frame.max > @ THEN p.frame.max ELSE @]
    BY <1>2 DEF ReceiveMaxData, NotePacket
  <2>2. p.frame \in Underway(Peer(e))
    BY <2>1 DEF Underway
  <2>3. \A x \in Endpoint :
          \/ max_data_remote'[x] = max_data_remote[x]
          \/ x = e /\ max_data_remote'[x] = p.frame.max
    BY <2>1 DEF Inv, TypeOK
  <2> QED BY <1>0, <2>1, <2>2, <2>3 DEF LimitStep
<1>3. ASSUME NEW e \in Endpoint, NEW p \in net, ReceiveDataBlocked(e, p)
      PROVE  Goal
  <2>1. /\ UNCHANGED <<max_data_remote, closed>>
        /\ max_data_local' =
             [max_data_local EXCEPT ![e] = Raised(@, MaxCredit)]
    BY <1>3 DEF ReceiveDataBlocked
  <2>2. /\ max_data_local[e] <= Raised(max_data_local[e], MaxCredit)
        /\ Raised(max_data_local[e], MaxCredit) <= MaxCredit
    BY <1>0, TransferAssumption DEF Raised, Smaller
  <2>3. \A x \in Endpoint : /\ max_data_local[x] <= max_data_local'[x]
                            /\ max_data_local'[x] <= MaxCredit
    BY <1>0, <2>1, <2>2 DEF Inv, TypeOK
  <2> QED BY <2>1, <2>3 DEF LimitStep
<1>4. ASSUME NEW e \in Endpoint, NEW p \in net, RefuseStream(e, p)
      PROVE  Goal
  <2> DEFINE f == p.frame
  <2>1. /\ UNCHANGED <<max_data_local, max_data_remote>>
        /\ f.kind = "stream" /\ p.src = Peer(e)
        /\ \/ closed' = [closed EXCEPT ![e] = "flow_control"]
           \/ /\ closed' = [closed EXCEPT ![e] = "protocol_violation"]
              /\ ExceedsLimit(strm[e][f.id], f.off, f.len)
    BY <1>4 DEF RefuseStream, NotePacket
  <2>2. CASE closed' = [closed EXCEPT ![e] = "flow_control"]
    BY <1>1, <2>1, <2>2
  <2>3. CASE /\ closed' = [closed EXCEPT ![e] = "protocol_violation"]
             /\ ExceedsLimit(strm[e][f.id], f.off, f.len)
    <3>1. f \in Underway(Peer(e)) /\ f.id \in Streams
      BY <1>4, <2>1, NoteType, FrameKinds
         DEF Underway, RefuseStream, StreamFrame, Inv
    <3>2. f.off + f.len > strm[e][f.id].max_local
      BY <2>3 DEF ExceedsLimit
    <3>3. \A x \in Endpoint : x # e => closed'[x] = closed[x]
      BY <2>3 DEF Inv, TypeOK
    <3> QED BY <1>0, <2>1, <3>1, <3>2, <3>3 DEF LimitStep
  <2> QED BY <2>1, <2>2, <2>3
<1>5. ASSUME NEW e \in Endpoint, NEW p \in net,
             \/ ReceiveStream(e, p) \/ ReceiveMaxStreamData(e, p)
             \/ ReceiveStreamDataBlocked(e, p)
      PROVE  Goal
  BY <1>1, <1>5 DEF ReceiveStream, ReceiveMaxStreamData,
                    ReceiveStreamDataBlocked, connVars
<1>6. ASSUME NEW e \in Endpoint,
             \/ \E s \in Streams : \/ StreamWrite(e, s) \/ StreamClose(e, s)
                                   \/ SendStream(e, s)
             \/ \E n \in acks[e] : ReceiveAck(e, n)
      PROVE  Goal
  BY <1>1, <1>6 DEF StreamWrite, StreamClose, SendStream, ReceiveAck, connVars
<1>7. ASSUME NEW e \in Endpoint, Quiet(e)
      PROVE  Goal
  <2>1. UNCHANGED <<max_data_local, max_data_remote>>
    BY <1>7 DEF Quiet, SendBlocked, SendMaxStreamData, SendMaxData, SendAck,
       SendLost, ReceiveConnectionClose, LossAlarm, ProbeTimeout, DeclareLost,
       DropPacket, DropAck, connVars
  <2>2. closed' = closed \/ closed' = [closed EXCEPT ![e] = "peer"]
    BY <1>7 DEF Quiet, SendBlocked, SendMaxStreamData, SendMaxData, SendAck,
       SendLost, ReceiveConnectionClose, LossAlarm, ProbeTimeout, DeclareLost,
       DropPacket, DropAck
  <2> QED BY <1>1, <2>1, <2>2
<1> HIDE DEF Goal
<1>8. Goal
  BY <1>2, <1>3, <1>4, <1>5, <1>6, <1>7, NextCases DEF Receive
<1> QED BY <1>8 DEF Goal

(* Both applications' decisions to end a stream are final. *)
LEMMA ForgetStays ==
  ASSUME Inv, Next
  PROVE  \A e \in Endpoint, s \in Streams :
           MayForget(e, s) => MayForget(e, s)'
<1>1. \A x \in Endpoint, t \in Streams : finished[x][t] => finished'[x][t]
  <2>1. ASSUME NEW e \in Endpoint, NEW s \in Streams, StreamClose(e, s)
        PROVE  \A x \in Endpoint, t \in Streams : finished[x][t] => finished'[x][t]
    BY <2>1 DEF StreamClose, Inv, TypeOK
  <2>2. ASSUME NEW e \in Endpoint, NEW s \in Streams,
               StreamWrite(e, s) \/ SendStream(e, s)
        PROVE  finished' = finished
    BY <2>2 DEF StreamWrite, SendStream, appVars
  <2>3. ASSUME NEW e \in Endpoint, Quiet(e)
        PROVE  finished' = finished
    BY <2>3, QuietSteps DEF appVars
  <2> QED BY <2>1, <2>2, <2>3, ReceiveKeepsSender, NextCases
<1> QED BY <1>1 DEF MayForget, Endpoint

(* The credit invariant holds at the start. *)
LEMMA InitCredit == Init => CreditInv
<1> SUFFICES ASSUME Init PROVE CreditInv
  OBVIOUS
<1>1. Inv
  BY InitInv
<1>2. /\ \A e \in Endpoint, s \in Streams : strm[e][s] = Fresh
      /\ \A e \in Endpoint : closed[e] = "open" /\ Underway(e) = {}
  BY DEF Init, Underway
<1>3. /\ Fresh.tx = 0 /\ Fresh.max_local = InitialMaxStream
      /\ Fresh.max_remote = InitialMaxStream
  BY DEF Fresh, NewStream
<1>4. \A e \in Endpoint, s \in Streams : StreamCredit(e, s)
  BY <1>2, <1>3, PeerType, TransferAssumption DEF StreamCredit
<1>5. \A e \in Endpoint : /\ max_data_remote[e] = InitialMaxData[Peer(e)]
                          /\ max_data_local[e] = InitialMaxData[e]
  BY DEF Init
<1>6. \A e \in Endpoint : /\ max_data_remote[e] <= max_data_local[Peer(e)]
                          /\ max_data_local[e] <= MaxCredit
  BY <1>5, PeerType, TransferAssumption
<1>7. \A e \in Endpoint : ConnCredit(e)
  BY <1>2, <1>6 DEF ConnCredit
<1> QED BY <1>1, <1>2, <1>4, <1>7 DEF CreditInv

(* Every step keeps the credit invariant. *)
LEMMA StepCredit == CreditInv /\ [Next]_vars => CreditInv'
<1> SUFFICES ASSUME CreditInv, [Next]_vars PROVE CreditInv'
  OBVIOUS
<1>1. CASE UNCHANGED vars
  <2>1. Inv'
    BY StepInv DEF CreditInv
  <2> QED
    BY <1>1, <2>1 DEF vars, connVars, pendVars, ackVars, appVars, CreditInv,
       FrameCredit, StreamCredit, ConnCredit, Underway, MayForget
<1>2. CASE Next
  <2>1. Inv /\ Inv'
    BY StepInv DEF CreditInv
  <2>2. \A x \in Endpoint, s \in Streams : CreditStep(x, s)
    BY <1>2, <2>1, CreditSteps
  <2>3. \A x \in Endpoint : LimitStep(x)
    BY <1>2, <2>1, LimitSteps DEF CreditInv, ConnCredit
  <2>4. \A x \in Endpoint :
          \A g \in Underway(x)' : g \in Underway(x) \/ Issued(x, g)
    BY <1>2, <2>1, PacketSteps
  <2>5. \A e \in Endpoint, s \in Streams :
          MayForget(e, s) => MayForget(e, s)'
    BY <1>2, <2>1, ForgetStays
  <2>6. \A x \in Endpoint, s \in Streams :
          /\ strm[x][s] \in StreamRecord /\ strm'[x][s] \in StreamRecord
          /\ strm[x][s].max_local \in Nat /\ strm'[x][s].max_local \in Nat
          /\ strm[x][s].max_remote \in Nat /\ strm'[x][s].max_remote \in Nat
          /\ strm[x][s].tx \in Nat /\ strm'[x][s].tx \in Nat
    BY <2>1 DEF Inv, TypeOK, StreamRecord
  <2>7. \A x \in Endpoint : /\ max_data_local[x] \in Nat
                            /\ max_data_local'[x] \in Nat
                            /\ max_data_remote[x] \in Nat
                            /\ max_data_remote'[x] \in Nat
    BY <2>1 DEF Inv, TypeOK
  <2>8. \A x \in Endpoint, s \in Streams :
          strm[x][s].max_local <= strm'[x][s].max_local \/ MayForget(x, s)
    BY <2>2 DEF CreditStep, CreditTo
  <2>9. ASSUME NEW x \in Endpoint, NEW f \in Underway(x)'
        PROVE  FrameCredit(x, f)'
    <3>0. f \in Frame /\ f \in Underway(x)'
      BY <2>1, SpansType, SMTT(40) DEF Inv, TypeOK, Underway, Packet, Frame
    <3>1. FrameCredit(x, f)
      <4>1. CASE f \in Underway(x)
        BY <4>1 DEF CreditInv
      <4>2. CASE Issued(x, f)
        <5>1. CASE f.kind = "stream"
          <6>1. /\ f.id \in Streams /\ f.off \in Nat /\ f.len \in Nat
            BY <3>0, <5>1, FrameKinds DEF StreamFrame
          <6>2. f.off + f.len <= strm[x][f.id].max_remote
            BY <4>2, <5>1, <6>1, <2>6 DEF Issued, CreditInv, StreamCredit
          <6>3. \/ strm[x][f.id].max_remote <= strm[Peer(x)][f.id].max_local
                \/ MayForget(Peer(x), f.id)
            BY <6>1 DEF CreditInv, StreamCredit
          <6> QED BY <2>6, <5>1, <6>1, <6>2, <6>3, PeerType DEF FrameCredit
        <5>2. CASE f.kind # "stream"
          BY <2>6, <2>7, <4>2, <5>2 DEF Issued, FrameCredit
        <5> QED BY <5>1, <5>2
      <4> QED BY <2>4, <4>1, <4>2
    <3>2. f.kind = "max_data" => f.max <= max_data_local'[x]
      <4>1. f.kind = "max_data" => f.max \in Nat
        BY <3>0, FrameKinds DEF MaxDataFrame
      <4>2. max_data_local[x] <= max_data_local'[x]
        BY <2>3 DEF LimitStep
      <4>3. f.kind = "max_data" => f.max <= max_data_local[x]
        BY <3>1 DEF FrameCredit
      <4> QED BY <2>7, <4>1, <4>2, <4>3
    <3>3. f.kind = "max_stream_data" =>
            f.max <= strm'[x][f.id].max_local \/ MayForget(x, f.id)'
      <4>1. f.kind = "max_stream_data" => f.max \in Nat /\ f.id \in Streams
        BY <3>0, FrameKinds DEF MaxStreamDataFrame
      <4> QED BY <2>5, <2>6, <2>8, <3>1, <4>1 DEF FrameCredit
    <3>4. f.kind = "stream" =>
            \/ f.off + f.len <= strm'[Peer(x)][f.id].max_local
            \/ MayForget(Peer(x), f.id)'
      <4>1. f.kind = "stream" =>
              f.off \in Nat /\ f.len \in Nat /\ f.id \in Streams
        BY <3>0, FrameKinds DEF StreamFrame
      <4> QED BY <2>5, <2>6, <2>8, <3>1, <4>1, PeerType DEF FrameCredit
    <3> QED BY <3>2, <3>3, <3>4 DEF FrameCredit
  <2>10. ASSUME NEW x \in Endpoint, NEW s \in Streams
         PROVE  StreamCredit(x, s)'
    <3>1. /\ StreamCredit(x, s) /\ StreamCredit(Peer(x), s)
          /\ Peer(x) \in Endpoint
      BY PeerType DEF CreditInv
    <3>2. CASE CreditTo(x, s, strm'[x][s])
      <4>1. /\ InitialMaxStream <= strm'[x][s].max_local
            /\ strm'[x][s].tx <= strm'[x][s].max_remote
        BY <2>6, <3>1, <3>2, TransferAssumption DEF StreamCredit, CreditTo
      <4>2. \/ strm'[x][s].max_remote <= strm[Peer(x)][s].max_local
            \/ MayForget(Peer(x), s)
        <5>1. ASSUME NEW f \in Underway(Peer(x)), f.kind = "max_stream_data",
                     f.id = s, f.max = strm'[x][s].max_remote
              PROVE  \/ strm'[x][s].max_remote <= strm[Peer(x)][s].max_local
                     \/ MayForget(Peer(x), s)
          <6>1. FrameCredit(Peer(x), f)
            BY <3>1 DEF CreditInv
          <6> QED BY <5>1, <6>1 DEF FrameCredit
        <5> QED BY <3>1, <3>2, <5>1 DEF StreamCredit, CreditTo
      <4>3. \/ strm'[x][s].max_remote <= strm'[Peer(x)][s].max_local
            \/ MayForget(Peer(x), s)'
        BY <2>5, <2>6, <2>8, <3>1, <4>2
      <4> QED BY <4>1, <4>3 DEF StreamCredit
    <3>3. CASE strm'[x][s] = Fresh /\ MayForget(x, s)
      <4>1. /\ Fresh.tx = 0 /\ Fresh.max_local = InitialMaxStream
            /\ Fresh.max_remote = InitialMaxStream
        BY DEF Fresh, NewStream
      <4>2. \/ InitialMaxStream <= strm'[Peer(x)][s].max_local
            \/ MayForget(Peer(x), s)'
        BY <2>5, <2>6, <2>8, <3>1, TransferAssumption DEF StreamCredit
      <4> QED BY <3>3, <4>1, <4>2, TransferAssumption DEF StreamCredit
    <3> QED BY <2>2, <3>2, <3>3 DEF CreditStep
  <2>11. ASSUME NEW x \in Endpoint
         PROVE  ConnCredit(x)'
    <3>1. /\ ConnCredit(x) /\ LimitStep(x) /\ LimitStep(Peer(x))
          /\ Peer(x) \in Endpoint
      BY <2>3, PeerType DEF CreditInv
    <3>2. \A f \in Underway(Peer(x)) : FrameCredit(Peer(x), f)
      BY <3>1 DEF CreditInv
    <3>3. max_data_remote'[x] <= max_data_local[Peer(x)]
      BY <3>1, <3>2 DEF LimitStep, ConnCredit, FrameCredit
    <3>4. max_data_remote'[x] <= max_data_local'[Peer(x)]
      <4>1. max_data_local[Peer(x)] <= max_data_local'[Peer(x)]
        BY <3>1 DEF LimitStep
      <4> QED BY <2>7, <3>1, <3>3, <4>1
    <3>5. ASSUME closed'[x] = "protocol_violation"
          PROVE  \E s \in Streams : MayForget(x, s)'
      <4>1. CASE closed[x] = "protocol_violation"
        BY <2>5, <3>1, <4>1 DEF ConnCredit
      <4>2. CASE \E f \in Underway(Peer(x)) :
                   /\ f.kind = "stream" /\ f.id \in Streams
                   /\ f.off + f.len > strm[x][f.id].max_local
        <5>1. PICK f \in Underway(Peer(x)) :
                /\ f.kind = "stream" /\ f.id \in Streams
                /\ f.off + f.len > strm[x][f.id].max_local
          BY <4>2
        <5>2. f \in StreamFrame
          BY <2>1, <3>1, <5>1, SpansType, FrameKinds DEF Inv
        <5>3. MayForget(x, f.id)
          <6>1. FrameCredit(Peer(x), f) /\ Peer(Peer(x)) = x
            BY <3>2, PeerType
          <6>2. ~(f.off + f.len <= strm[x][f.id].max_local)
            BY <2>6, <5>1, <5>2 DEF StreamFrame
          <6> QED BY <5>1, <6>1, <6>2 DEF FrameCredit
        <5> QED BY <2>5, <5>1, <5>3
      <4> QED BY <3>1, <3>5, <4>1, <4>2 DEF LimitStep
    <3> QED BY <3>1, <3>4, <3>5 DEF ConnCredit, LimitStep
  <2> QED BY <2>1, <2>9, <2>10, <2>11 DEF CreditInv
<1> QED BY <1>1, <1>2

(* A sender's view of its credit never exceeds what the receiver enforces, *)
(* and no stream limit is ever exceeded, however late announcements and    *)
(* frames arrive, but for the streams the server may have dropped.         *)
THEOREM CreditIsRespected == Spec => []WithinCredit
<1>1. CreditInv => WithinCredit
  BY DEF CreditInv, ConnCredit, StreamCredit, WithinCredit
<1> QED BY <1>1, InitCredit, StepCredit, PTL DEF Spec
=============================================================================
