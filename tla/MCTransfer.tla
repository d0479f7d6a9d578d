----------------------------- MODULE MCTransfer -----------------------------
(***************************************************************************)
(* Instances of Transfer: the values of the constants that each endpoint   *)
(* has of its own.                                                         *)
(***************************************************************************)
EXTENDS Transfer

Each(client, server) ==
  [e \in Endpoint |-> IF e = "client" THEN client ELSE server]

One == Each(1, 1)
Two == Each(2, 2)
OneNumber == Each({1}, {1})

(* A request of one byte and an answer of one byte; the client lets the    *)
(* server send none at first, and has room for two packets of its own.     *)
LiveCwnd == Each(2, 1)
LiveMaxData == Each(0, 1)
LivePn == Each({1, 2}, {1})
=============================================================================
