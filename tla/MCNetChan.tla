------------------------------ MODULE MCNetChan ------------------------------
(***************************************************************************)
(* Instances of NetChan for TLC.  A block is one or two units; the sizes   *)
(* are scaled down so that a few writes fill or overflow a buffer.         *)
(***************************************************************************)
EXTENDS NetChan

CONSTANTS
    a, b            \* units of data

MCData == {a, b}
MCBlocks == {<<a>>, <<b, b>>, <<a, a, a>>}
MCUnits == {<<a>>, <<b>>}

\* Both ends hold two units; the qport leaves a client's packet less room.
MCMaxSize == [e \in Endpoint |-> 2]

\* Both directions carry data.
MCBothWrite == [e \in Endpoint |-> 2]
\* Only one direction does, more than one reliable message of it.
MCServerWrites == [e \in Endpoint |-> IF e = "server" THEN 2 ELSE 0]

\* The endpoint that writes sends more packets than the one that only acks.
MCServerSequence == [e \in Endpoint |-> IF e = "server" THEN 6 ELSE 3]
\* A few packets of each.
MCShortSequence == [e \in Endpoint |-> IF e = "client" THEN 3 ELSE 2]
=============================================================================
