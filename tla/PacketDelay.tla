----------------------------- MODULE PacketDelay -----------------------------
(***************************************************************************)
(* What the delaying of packets (sv_minping) promises: of the packets that *)
(* arrive on a connection, all that are not refused are executed, once and *)
(* in the order in which they arrived, whatever the delay is lowered or    *)
(* raised to in the meantime.                                              *)
(***************************************************************************)
EXTENDS Naturals, Sequences

CONSTANT Slots

VARIABLES
    arrived,    \* arrived[s]: the packets of the connection so far
    line,       \* line[s]: the ones that wait, by number
    executed    \* executed[s]: the last one executed

vars == <<arrived, line, executed>>

Init ==
    /\ arrived = [s \in Slots |-> 0]
    /\ line = [s \in Slots |-> <<>>]
    /\ executed = [s \in Slots |-> 0]

\* A packet arrives: it is executed if none waits, or waits, or is refused.
Arrive(s) ==
    /\ arrived' = [arrived EXCEPT ![s] = @ + 1]
    /\ \/ /\ line[s] = <<>>
          /\ executed' = [executed EXCEPT ![s] = arrived'[s]]
          /\ UNCHANGED line
       \/ /\ line' = [line EXCEPT ![s] = Append(@, arrived'[s])]
          /\ UNCHANGED executed
       \/ UNCHANGED <<line, executed>>

Execute(s) ==
    /\ line[s] # <<>>
    /\ executed' = [executed EXCEPT ![s] = Head(line[s])]
    /\ line' = [line EXCEPT ![s] = Tail(@)]
    /\ UNCHANGED arrived

\* Another connection gets the slot.
Connect(s) ==
    /\ arrived' = [arrived EXCEPT ![s] = 0]
    /\ line' = [line EXCEPT ![s] = <<>>]
    /\ executed' = [executed EXCEPT ![s] = 0]

Next == \E s \in Slots : Arrive(s) \/ Execute(s) \/ Connect(s)

Spec == Init /\ [][Next]_vars
=============================================================================
