----------------------------- MODULE ByteStream -----------------------------
(***************************************************************************)
(* What a QUIC stream promises its two applications, whatever happens on   *)
(* the wire: the reader is handed the written bytes in order, each once,   *)
(* and sees the end only when it has been handed all of them and the       *)
(* writer has finished.  An endpoint that drops streams may do so once     *)
(* both sides are over, and then knows nothing of the stream any more: a   *)
(* reader of it would start again.  written, finished and delivered, eof   *)
(* are indexed by direction: an endpoint and a stream.                     *)
(***************************************************************************)
EXTENDS Integers

CONSTANTS End,      \* the two endpoints
          Id,       \* the streams
          Other(_), \* the other endpoint
          Droppers  \* the endpoints that drop streams that are over

VARIABLES written,   \* written[e][s]: bytes e has written to s
          finished,  \* has e ended its side of s?
          delivered, \* bytes of s handed to e's reader since e knows s
          eof        \* has e's reader of s seen the end?

bsVars == <<written, finished, delivered, eof>>

Init ==
  /\ written   = [e \in End |-> [s \in Id |-> 0]]
  /\ finished  = [e \in End |-> [s \in Id |-> FALSE]]
  /\ delivered = [e \in End |-> [s \in Id |-> 0]]
  /\ eof       = [e \in End |-> [s \in Id |-> FALSE]]

Write(e, s) ==
  /\ ~finished[e][s]
  /\ written'[e][s] >= written[e][s]
  /\ written' = [written EXCEPT ![e][s] = written'[e][s]]
  /\ UNCHANGED <<finished, delivered, eof>>

Finish(e, s) ==
  /\ finished' = [finished EXCEPT ![e][s] = TRUE]
  /\ UNCHANGED <<written, delivered, eof>>

(* May the reader of s, handed d bytes, be told that they are all? *)
Readable(e, s, d, end) ==
  /\ eof[e][s] => end /\ d = delivered[e][s]
  /\ end => finished[Other(e)][s] /\ d = written[Other(e)][s]

(* The next bytes of s reach the reader, with the end if they are the      *)
(* last; streams that are over at both ends are dropped.                   *)
Deliver(e, s) ==
  /\ \E d \in delivered[e][s] .. written[Other(e)][s],
        end \in BOOLEAN, gone \in SUBSET Id :
       LET got  == [delivered[e] EXCEPT ![s] = d]
           seen == [eof[e] EXCEPT ![s] = end]
       IN /\ Readable(e, s, d, end)
          /\ \A t \in gone : e \in Droppers /\ finished[e][t] /\ seen[t]
          /\ delivered' = [delivered EXCEPT ![e] =
                             [t \in Id |-> IF t \in gone THEN 0 ELSE got[t]]]
          /\ eof' = [eof EXCEPT ![e] = [t \in Id |-> t \notin gone /\ seen[t]]]
  /\ UNCHANGED <<written, finished>>

Next == \E e \in End, s \in Id : Write(e, s) \/ Finish(e, s) \/ Deliver(e, s)

Spec == Init /\ [][Next]_bsVars
=============================================================================
