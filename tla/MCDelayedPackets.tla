-------------------------- MODULE MCDelayedPackets --------------------------
(***************************************************************************)
(* An instance of DelayedPackets for TLC, small enough for the packets     *)
(* that two clients send at once to take every packet_t.                   *)
(***************************************************************************)
EXTENDS DelayedPackets

ASSUME MCAssumption == MAX_DELAYED_PACKETS < MAX_CLIENTS * MaxArrived
=============================================================================
