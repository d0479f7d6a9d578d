---------------------------- MODULE MCHandshake -----------------------------
EXTENDS Handshake

(* A flight of the client is not driven out by an acknowledgement of its *)
(* own.                                                                    *)
TwoEach == [client |-> 2, server |-> 2]

(* The server's flights SH and SF may be under way together. *)
TwoFromServer == [client |-> 1, server |-> 2]

(* reject! leaves what SelectSeq does. *)
ASSUME RejectAssumption ==
  \A q \in UNION {[1 .. n -> {1, 2, 3}] : n \in 0 .. 4}, K \in SUBSET {1, 2, 3} :
    LET kept == {i \in DOMAIN q : q[i] \in K}
    IN [j \in 1 .. Cardinality(kept) |-> q[Nth(kept, j)]] =
         SelectSeq(q, LAMBDA x : x \in K)
=============================================================================
