--------------------------- MODULE MCClientReliable ---------------------------
(***************************************************************************)
(* Instances of ClientReliable for TLC.  A buffer holds four units: a      *)
(* block of three leaves one free, the least the code leaves.              *)
(***************************************************************************)
EXTENDS ClientReliable

CONSTANTS
    a, b, c         \* units: of a short block, a long one, a direct write

MCUnit == {a, b, c, Disconnect, Stale}
MCBlocks == {<<a>>, <<b, b, b>>}
MCDirect == {<<c>>}
=============================================================================
