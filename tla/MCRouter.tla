------------------------------ MODULE MCRouter ------------------------------
EXTENDS Router

CONSTANTS c1, c2, d1, d2

(* A client at the first address, another that moves from the first to the *)
(* second, and a packet that is too short to hold an id.                   *)
SomeOpeners ==
  {<<c1, d1, TRUE>>, <<c2, d1, TRUE>>, <<c2, d2, TRUE>>,
   <<Unknown, d2, FALSE>>}
=============================================================================
