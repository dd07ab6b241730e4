------------------------------ MODULE MCSignon ------------------------------
(***************************************************************************)
(* An instance of Signon for TLC: levels of one or two models, and one of  *)
(* so many that a file may be there before the list is.                    *)
(***************************************************************************)
EXTENDS Signon

CONSTANTS a, b

MCModels ==
    [l \in 1..MaxLevel |-> CASE l = 1 -> <<a>>
                             [] l = 2 -> <<b, a>>
                             [] OTHER -> <<b, b, b, b, a, b>>]
=============================================================================
