-------------------------- MODULE MCServerRegistry --------------------------
(***************************************************************************)
(* Model checking of ServerRegistry with two connections: their addresses  *)
(* hash alike, or not.                                                     *)
(***************************************************************************)
EXTENDS ServerRegistry

CONSTANTS c1, c2, h1, h2

Distinct == [c \in Conns |-> IF c = c1 THEN h1 ELSE h2]
Colliding == [c \in Conns |-> h1]

Any == {Distinct, Colliding}
NoCollision == {Distinct}
=============================================================================
