------------------------------- MODULE Stream -------------------------------
(***************************************************************************)
(* One QUIC::Stream object (src/src/quic/stream.cr): both halves of one    *)
(* stream at one endpoint, as a record, and one operator per method.       *)
(*                                                                         *)
(* The bytes of a stream are named by their offsets, so a buffer is known  *)
(* by its length: send_buffer by size, what poll_send_data has taken from  *)
(* it by tx (@send_read_pos and @tx_offset move together), recv_buffer by  *)
(* rx.  Module Reassembly keeps the bytes themselves.                      *)
(***************************************************************************)
EXTENDS Integers

StreamState == {"Idle", "Open", "HalfClosedLocal", "HalfClosedRemote",
                "Closed", "Reset"}

(* @fin_offset is nil until a FIN has been seen. *)
NoFin == -1

(* A buffered out-of-order segment: {offset, data}. *)
Segment == [off: Nat, len: Nat]

StreamRecord ==
  [state: StreamState, size: Nat, tx: Nat, fin_sent: BOOLEAN,
   rx: Nat, ooo: SUBSET Segment, fin: Nat \cup {NoFin},
   max_remote: Nat, max_local: Nat]

(* A stream as Stream.new leaves it. *)
NewStream(max_remote, max_local) ==
  [state |-> "Idle", size |-> 0, tx |-> 0, fin_sent |-> FALSE,
   rx |-> 0, ooo |-> {}, fin |-> NoFin,
   max_remote |-> max_remote, max_local |-> max_local]

-----------------------------------------------------------------------------
(* The state machine. *)

Opened(st) == [st EXCEPT !.state = IF @ = "Idle" THEN "Open" ELSE @]

CloseLocal(st) ==
  [st EXCEPT !.state = CASE @ = "Open"             -> "HalfClosedLocal"
                         [] @ = "HalfClosedRemote" -> "Closed"
                         [] OTHER                  -> @]

CloseRemote(st) ==
  [st EXCEPT !.state = CASE @ = "Open"            -> "HalfClosedRemote"
                         [] @ = "HalfClosedLocal" -> "Closed"
                         [] OTHER                 -> @]

Reset(st) == [st EXCEPT !.state = "Reset"]

-----------------------------------------------------------------------------
(* The sending half. *)

(* write buffers everything: flow control is poll_send_data's business.    *)
(* A stream that was reset by the peer still accepts data.                 *)
Write(st, n) ==
  IF st.state \in {"Closed", "HalfClosedLocal"}
    THEN st
    ELSE [Opened(st) EXCEPT !.size = @ + n]

ShouldSendFin(st) == st.state \in {"HalfClosedLocal", "Closed"}

HasSendData(st) ==
  \/ st.tx < st.size
  \/ ShouldSendFin(st) /\ ~st.fin_sent

Smaller(a, b) == IF a <= b THEN a ELSE b

StreamAvailable(st) ==
  IF st.max_remote > st.tx THEN st.max_remote - st.tx ELSE 0

(* How many bytes one call of poll_send_data takes from the buffer. *)
PollLen(st, max_len, conn_available) ==
  Smaller(Smaller(max_len, st.size - st.tx),
          Smaller(StreamAvailable(st), conn_available))

(* Faulty variant: the FIN does not wait for the buffer to be empty. *)
PollFinAnyTime(st, len) == ShouldSendFin(st) /\ ~st.fin_sent

(* The FIN rides on the call that empties the buffer, once. *)
PollFin(st, len) ==
  ShouldSendFin(st) /\ st.tx + len >= st.size /\ ~st.fin_sent

(* Which limit is reported when bytes stay behind (also when only the     *)
(* packet budget held them back).                                          *)
BlockedReason(st, len, conn_available) ==
  IF len >= st.size - st.tx THEN "no"
  ELSE IF StreamAvailable(st) <= conn_available THEN "stream"
  ELSE "connection"

AfterPoll(st, len) ==
  LET taken == [st EXCEPT !.tx = @ + len]
  IN IF PollFin(st, len) THEN [taken EXCEPT !.fin_sent = TRUE] ELSE taken

UpdateMaxStreamData(st, max) ==
  [st EXCEPT !.max_remote = IF max > @ THEN max ELSE @]

UpdateMaxStreamDataLocal(st, max) ==
  [st EXCEPT !.max_local = IF max > @ THEN max ELSE @]

-----------------------------------------------------------------------------
(* The receiving half. *)

(* receive_data returns before it looks at the data. *)
ReceiveClosed(st) == st.state \in {"Closed", "HalfClosedRemote"}

(* receive_data raises ProtocolViolation. *)
ExceedsLimit(st, off, len) ==
  ~ReceiveClosed(st) /\ off + len > st.max_local

CheckFinReady(st) ==
  IF st.fin # NoFin /\ st.rx >= st.fin
    THEN [CloseRemote(st) EXCEPT !.fin = NoFin]
    ELSE st

SetFinOffset(st, off) ==
  CheckFinReady([st EXCEPT !.fin = IF @ = NoFin \/ off < @ THEN off ELSE @])

Covered(ooo, b) == \E g \in ooo : g.off <= b /\ b < g.off + g.len

(* r is the first offset at or after from that no buffered segment covers: *)
(* where the loop of flush_ooo_buffer stops (module Reassembly checks the  *)
(* loop against this).                                                     *)
FirstGap(ooo, from, r) ==
  /\ r >= from
  /\ ~Covered(ooo, r)
  /\ \A b \in from .. (r - 1) : Covered(ooo, b)

(* A segment at rx: it is appended, and what is buffered behind it flushed. *)
InOrder(st, len) ==
  { CheckFinReady([Opened(st) EXCEPT !.rx  = r,
                                     !.ooo = {g \in @ : g.off > r}]) :
    r \in {q \in (st.rx + len) .. st.max_local :
               FirstGap(st.ooo, st.rx + len, q)} }

(* A segment beyond rx is buffered, unless one at its offset is. *)
OutOfOrder(st, off, len) ==
  IF \E g \in st.ooo : g.off = off
    THEN Opened(st)
    ELSE [Opened(st) EXCEPT !.ooo = @ \cup {[off |-> off, len |-> len]}]

(* Faulty variant: an old segment is appended again. *)
ReceiveDataAgain(st, off, len) ==
  IF ReceiveClosed(st) THEN {Opened(st)}
  ELSE IF off < st.rx THEN {CheckFinReady([Opened(st) EXCEPT !.rx = @ + len])}
  ELSE IF off = st.rx THEN InOrder(st, len)
  ELSE {OutOfOrder(st, off, len)}

(* What receive_data makes of an acceptable segment: the set of its        *)
(* outcomes, which has one element.                                        *)
ReceiveData(st, off, len) ==
  IF ReceiveClosed(st) \/ off < st.rx THEN {Opened(st)}
  ELSE IF off = st.rx THEN InOrder(st, len)
  ELSE {OutOfOrder(st, off, len)}

-----------------------------------------------------------------------------
(* Faulty variant: a stream is done though data is left to send. *)
FullyDoneTooSoon(st) == st.state \in {"Reset", "Closed"}

(* May cleanup_done_streams drop the stream from the table? *)
FullyDone(st) ==
  \/ st.state = "Reset"
  \/ st.state = "Closed" /\ st.fin_sent /\ st.tx >= st.size
=============================================================================
