---------------------------- MODULE MCNetChanFair ----------------------------
(***************************************************************************)
(* An instance of NetChanFair for TLC.                                     *)
(***************************************************************************)
EXTENDS NetChanFair

CONSTANTS a, b

MCData == {a, b}
MCUnits == {<<a>>, <<b>>}
MCMaxSize == [e \in Endpoint |-> 3]
MCWritten == [e \in Endpoint |-> IF e = "server" THEN 2 ELSE 0]
MCSequence == [e \in Endpoint |-> 18]
=============================================================================
