------------------------------ MODULE MCConnect ------------------------------
(***************************************************************************)
(* An instance of Connect for TLC: two clients behind one address.         *)
(***************************************************************************)
EXTENDS Connect

CONSTANTS c1, c2

MCClient == {c1, c2}
MCBase == [c \in Client |-> 1]
MCPort == [c \in Client |-> IF c = c1 THEN 1 ELSE 2]
=============================================================================
