----------------------------- MODULE Reassembly -----------------------------
(***************************************************************************)
(* The receiving half of QUIC::Stream with its bytes (src/src/quic/        *)
(* stream.cr: receive_data, flush_ooo_buffer, set_fin_offset, read), for   *)
(* every order in which segments may arrive.  The byte at offset b of the  *)
(* peer's stream is the number b.  Module Stream keeps only lengths; the   *)
(* loop of flush_ooo_buffer is checked here against the definition that    *)
(* module uses.                                                            *)
(***************************************************************************)
EXTENDS Integers, Sequences

CONSTANTS
  Segments,  \* the segments <<offset, length>> the peer may send
  Size       \* the length of the peer's stream

ASSUME ReassemblyAssumption ==
  Size \in Nat /\ \A g \in Segments : g[1] \in Nat /\ g[2] \in Nat
                                      /\ g[1] + g[2] <= Size

VARIABLES
  recv_buffer,   \* @recv_buffer
  recv_read_pos, \* @recv_read_pos
  rx_offset,     \* @rx_offset
  ooo_buffer,    \* @ooo_buffer: a sequence of [off, data]
  fin_offset,    \* @fin_offset
  remote_closed, \* close_remote was called
  resplit,       \* has the peer cut its bytes in two ways? (history)
  arrived        \* the segments that came, as long as it has not (history)

vars == <<recv_buffer, recv_read_pos, rx_offset, ooo_buffer, fin_offset,
          remote_closed, resplit, arrived>>

S == INSTANCE Stream

Bytes(from, to) == [i \in 1 .. (to - from) |-> from + i - 1]

Init ==
  /\ recv_buffer = <<>> /\ recv_read_pos = 0
  /\ rx_offset = 0 /\ ooo_buffer = <<>>
  /\ fin_offset = S!NoFin /\ remote_closed = FALSE
  /\ resplit = FALSE /\ arrived = {}

-----------------------------------------------------------------------------
(* flush_ooo_buffer on [buf, rx, ooo]. *)

(* Faulty variant: a segment that reaches back before rx is appended whole. *)
FlushOneUntrimmed(x) ==
  IF x.ooo = <<>> \/ Head(x.ooo).off > x.rx
    THEN x
    ELSE [buf |-> x.buf \o Head(x.ooo).data,
          rx  |-> x.rx + Len(Head(x.ooo).data),
          ooo |-> Tail(x.ooo)]

(* One turn of its loop: the first segment is shifted and what it has      *)
(* beyond rx appended, unless a gap remains.                               *)
FlushOne(x) ==
  IF x.ooo = <<>> \/ Head(x.ooo).off > x.rx
    THEN x
    ELSE LET seg  == Head(x.ooo)
             tail == SubSeq(seg.data, x.rx - seg.off + 1, Len(seg.data))
         IN [buf |-> x.buf \o tail,
             rx  |-> x.rx + Len(tail),
             ooo |-> Tail(x.ooo)]

(* Faulty variant: only the first segment is flushed. *)
FlushFirst(x) == FlushOne(x)

(* There are as many turns as segments, or the rest change nothing. *)
FlushOooBuffer(x) ==
  LET after[n \in 0 .. Len(x.ooo)] ==
        IF n = 0 THEN x ELSE FlushOne(after[n - 1])
  IN after[Len(x.ooo)]

(* check_fin_ready *)
FinReady(fin, rx) == fin # S!NoFin /\ rx >= fin

(* Faulty variant: one segment is kept. *)
InsertOnly(ooo, seg) == <<seg>>

(* The new segment is appended and the array sorted by offset.  As it was  *)
(* sorted, and has none at that offset, the segment comes to lie between   *)
(* the smaller and the larger ones.                                        *)
Insert(ooo, seg) ==
  LET k == CHOOSE k \in 0 .. Len(ooo) :
             /\ \A i \in 1 .. k : ooo[i].off < seg.off
             /\ \A i \in (k + 1) .. Len(ooo) : ooo[i].off > seg.off
  IN SubSeq(ooo, 1, k) \o <<seg>> \o SubSeq(ooo, k + 1, Len(ooo))

(* The history of how the peer cuts its bytes into segments. *)
Overlap(g, h) ==
  \/ g[1] = h[1]
  \/ g[1] < h[1] + h[2] /\ h[1] < g[1] + g[2]

NoteSegment(g) ==
  /\ resplit' = (resplit \/ \E h \in arrived : h # g /\ Overlap(g, h))
  /\ arrived' = IF resplit' \/ remote_closed THEN {} ELSE arrived \cup {g}

(* receive_data, then set_fin_offset if the frame has the FIN. *)
Receive(g, fin) ==
  LET off  == g[1]
      data == Bytes(off, off + g[2])
      flushed == FlushOooBuffer([buf |-> recv_buffer \o data,
                                 rx  |-> rx_offset + g[2],
                                 ooo |-> ooo_buffer])
      end == off + g[2]
      fin1 == IF ~fin THEN fin_offset
              ELSE IF fin_offset = S!NoFin \/ end < fin_offset THEN end
              ELSE fin_offset
  IN /\ NoteSegment(g)
     /\ \/ /\ ~remote_closed /\ off = rx_offset
           /\ recv_buffer' = flushed.buf
           /\ rx_offset'   = flushed.rx
           /\ ooo_buffer'  = flushed.ooo
        \/ /\ ~remote_closed /\ off > rx_offset
           /\ ooo_buffer' = IF \E i \in DOMAIN ooo_buffer :
                                 ooo_buffer[i].off = off
                              THEN ooo_buffer
                              ELSE Insert(ooo_buffer,
                                          [off |-> off, data |-> data])
           /\ UNCHANGED <<recv_buffer, rx_offset>>
        \/ /\ remote_closed \/ off < rx_offset
           /\ UNCHANGED <<recv_buffer, rx_offset, ooo_buffer>>
     /\ remote_closed' = (remote_closed \/ FinReady(fin1, rx_offset'))
     /\ fin_offset' = IF FinReady(fin1, rx_offset') THEN S!NoFin ELSE fin1
     /\ UNCHANGED recv_read_pos

(* read copies at most n of the unread bytes. *)
Read(n) ==
  /\ recv_read_pos < Len(recv_buffer)
  /\ recv_read_pos' = recv_read_pos +
       S!Smaller(n, Len(recv_buffer) - recv_read_pos)
  /\ UNCHANGED <<recv_buffer, rx_offset, ooo_buffer, fin_offset,
                 remote_closed, resplit, arrived>>

Next ==
  \/ \E g \in Segments : Receive(g, g[1] + g[2] = Size)
  \/ \E n \in 1 .. Size : Read(n)

Spec == Init /\ [][Next]_vars

-----------------------------------------------------------------------------
Pending == {[off |-> ooo_buffer[i].off, len |-> Len(ooo_buffer[i].data)] :
              i \in DOMAIN ooo_buffer}

(* recv_buffer holds the peer's bytes from 0 to @rx_offset, each once and  *)
(* in order, however the segments overlapped and were flushed.             *)
InSequence == recv_buffer = Bytes(0, rx_offset)

(* What a segment that arrives in order makes of the stream is what module *)
(* Stream says: @rx_offset moves to the first offset that is in no buffer, *)
(* and the segments up to there are gone.                                  *)
FlushMeetsDefinition ==
  [][ recv_buffer' # recv_buffer =>
        \E g \in Segments :
          /\ g[1] = rx_offset
          /\ S!FirstGap(Pending, rx_offset + g[2], rx_offset')
          /\ Pending' = {p \in Pending : p.off > rx_offset'} ]_vars

(* While the peer repeats its segments as it first cut them, as this       *)
(* implementation does, every byte that has arrived is in recv_buffer or   *)
(* waits in ooo_buffer: a segment that receive_data ignores brings nothing *)
(* new.  Its packet is acknowledged, so the peer would not send an ignored *)
(* byte again.                                                             *)
NoNewByteIgnored ==
  \A g \in arrived : \A b \in g[1] .. (g[1] + g[2] - 1) :
    b < rx_offset \/ S!Covered(Pending, b)
=============================================================================
