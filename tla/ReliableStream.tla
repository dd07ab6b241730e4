--------------------------- MODULE ReliableStream ---------------------------
(***************************************************************************)
(* What a netchan promises its users: one lossless, ordered stream of      *)
(* reliable data per direction.  A user may append to the stream at any    *)
(* time (MSG_Write* on netchan.message); the other end is handed it in     *)
(* pieces, each exactly once and in the order written.  A stream whose     *)
(* buffer overflows accepts nothing more.                                  *)
(*                                                                         *)
(* The contract is the header comment of src/src/net_chan.c and the use    *)
(* that cl_parse.c and sv_user.c make of the payload handed to them.       *)
(***************************************************************************)
EXTENDS Sequences, Naturals

CONSTANTS
    Endpoint,       \* the two ends of a connection
    Data            \* the units the streams are made of

VARIABLES
    written,        \* written[e]: what e has written to its stream
    delivered,      \* delivered[e]: how much of it the other end was handed
    stopped         \* stopped[e]: the stream of e overflowed

vars == <<written, delivered, stopped>>

Init ==
    /\ written = [e \in Endpoint |-> <<>>]
    /\ delivered = [e \in Endpoint |-> <<>>]
    /\ stopped = [e \in Endpoint |-> FALSE]

\* t continues s.
Continues(s, t) == Len(s) < Len(t) /\ SubSeq(t, 1, Len(s)) = s

\* e appends to its stream.
Write(e) ==
    /\ ~stopped[e]
    /\ written' = [written EXCEPT ![e] = written'[e]]
    /\ written'[e] \in Seq(Data)
    /\ Continues(written[e], written'[e])
    /\ UNCHANGED <<delivered, stopped>>

\* The stream of e overflows.
Stop(e) ==
    /\ ~stopped[e]
    /\ stopped' = [stopped EXCEPT ![e] = TRUE]
    /\ UNCHANGED <<written, delivered>>

\* The other end is handed the next piece of e's stream.
Deliver(e) ==
    /\ \E n \in 1 .. Len(written[e]) :
          delivered' = [delivered EXCEPT ![e] = SubSeq(written[e], 1, n)]
    /\ Continues(delivered[e], delivered'[e])
    /\ UNCHANGED <<written, stopped>>

Next == \E e \in Endpoint : Write(e) \/ Stop(e) \/ Deliver(e)

Spec == Init /\ [][Next]_vars
=============================================================================
