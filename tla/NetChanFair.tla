----------------------------- MODULE NetChanFair -----------------------------
(***************************************************************************)
(* NetChan under its two owners, over a network that loses a bounded       *)
(* number of packets: the setting in which a reliable message must arrive. *)
(*                                                                         *)
(* The client sends a packet every frame (CL_SendCmd).  The server answers *)
(* one packet of the client with one of its own: SV_ExecuteClientMessage   *)
(* (sv_user.c) asks for the answer and gives it the client's sequence      *)
(* number, SV_SendClientMessages (sv_send.c) sends it, unless the          *)
(* bandwidth is choked.  SV_SendMessagesToAll also sends to a client that  *)
(* sent nothing.                                                           *)
(***************************************************************************)
EXTENDS NetChan, FiniteSets

CONSTANTS
    Window,         \* bound: packets the client runs ahead of the answers
    MaxLost,        \* packets of an endpoint the network may lose
    MaxChoked,      \* bound: answers the bandwidth estimator holds back
    MaxToAll,       \* bound: calls of SV_SendMessagesToAll
    LastWrite       \* bound: no write after this many packets, so that the
                    \* sequence numbers left are enough to deliver it

ASSUME FairAssumption ==
    {Window, MaxLost, MaxChoked, MaxToAll, LastWrite} \subseteq Nat

VARIABLES
    send_message,   \* the server is to answer at the end of its frame
    chokecount,     \* answers choked so far
    to_all,         \* calls of SV_SendMessagesToAll so far
    lost            \* lost[e]: packets of e its peer can never accept now

owners == <<send_message, chokecount, to_all, lost>>
fairvars == <<vars, owners>>

FairInit ==
    /\ Init
    /\ send_message = FALSE
    /\ chokecount = 0
    /\ to_all = 0
    /\ lost = [e \in Endpoint |-> 0]

FairWrite(e) ==
    /\ outgoing_sequence[e] <= LastWrite
    /\ \E d \in Blocks : WriteMessage(e, d)
    /\ UNCHANGED owners

\* No packet is on its way that can be accepted, and no answer is due.
Quiet ==
    /\ ~send_message
    /\ \A e \in Endpoint : \A p \in network[e] :
          p.sequence <= incoming_sequence[Peer(e)]

\* CL_SendCmd, every frame.  Window is a bound on the pace: at most so many
\* packets are sent ahead of the answers, until nothing is under way any more.
ClientTransmit ==
    /\ \/ outgoing_sequence["client"] <= incoming_sequence["client"] + Window
       \/ Quiet
    /\ \E n \in DatagramSizes : Transmit("client", n)
    /\ UNCHANGED owners

\* SV_SendClientMessages for a client that is to be answered.  Mutant: the
\* request for an answer stays.
TransmitAgain ==
    /\ send_message
    /\ \E n \in DatagramSizes : Transmit("server", n)
    /\ UNCHANGED owners
ServerTransmit ==
    /\ send_message
    /\ send_message' = FALSE
    /\ \E n \in DatagramSizes : Transmit("server", n)
    /\ UNCHANGED <<chokecount, to_all, lost>>

\* The same with the bandwidth choked: the answer is not sent.
ServerChoke ==
    /\ send_message
    /\ chokecount < MaxChoked
    /\ send_message' = FALSE
    /\ chokecount' = chokecount + 1
    /\ UNCHANGED <<vars, to_all, lost>>

\* SV_SendMessagesToAll, before a level change: a packet that answers none.
SendMessagesToAll ==
    /\ to_all < MaxToAll
    /\ to_all' = to_all + 1
    /\ send_message' = FALSE
    /\ \E n \in DatagramSizes : Transmit("server", n)
    /\ UNCHANGED <<chokecount, lost>>

\* Mutant: a packet is answered even when the sequences have slipped.
AnswersSlipped(e, p) == TRUE
Answers(e, p) == p.sequence >= outgoing_sequence[e]

\* e processes a packet; the ones it would discard from now on are forgotten.
FairProcess(e) ==
    \E p \in network[Peer(e)] :
        LET skipped == Cardinality({q \in network[Peer(e)] :
              incoming_sequence[e] < q.sequence /\ q.sequence < p.sequence})
        IN
        /\ Receive(e, p)
        /\ network' = [network EXCEPT
              ![Peer(e)] = {q \in @ : q.sequence > p.sequence}]
        /\ lost[Peer(e)] + skipped <= MaxLost
        /\ lost' = [lost EXCEPT ![Peer(e)] = @ + skipped]
        /\ send_message' = IF e = "server" THEN Answers(e, p) ELSE send_message
        /\ UNCHANGED <<chokecount, to_all>>

FairNext ==
    \/ \E e \in Endpoint : FairWrite(e) \/ FairProcess(e)
    \/ ClientTransmit
    \/ ServerTransmit
    \/ ServerChoke
    \/ SendMessagesToAll

FairSpec ==
    /\ FairInit
    /\ [][FairNext]_fairvars
    /\ WF_fairvars(ClientTransmit)
    /\ WF_fairvars(ServerTransmit)
    /\ \A e \in Endpoint : WF_fairvars(FairProcess(e))

-----------------------------------------------------------------------------

\* Everything written reliably is delivered, and the transmit buffer is free
\* again: after a loss the reliable message is resent until its bit comes back
\* (Netchan_Transmit 304-308, Netchan_Process 483-492), and neither choked
\* answers nor slipped sequence numbers stop that.
AllDelivered ==
    \A e \in Endpoint :
        <>[](delivered[e] = written[e] /\ reliable_length[e] = 0)

\* The answer to a packet has the packet's sequence number (sv_user.c 4431-4438;
\* the client looks its own frame up by it): a packet of the server that the
\* client has not seen acknowledges the packet of its own number, except for
\* those SV_SendMessagesToAll sent.
AnswersMatch ==
    Cardinality({p \in network["server"] : p.sequence # p.ack}) <= to_all

\* Sequences that slipped catch up: the server's is ahead of the client's last
\* packet by the answer and one for every SV_SendMessagesToAll at most, so that
\* it falls silent for no more packets than that.
SlipBounded ==
    outgoing_sequence["server"] <= incoming_sequence["server"] + 1 + to_all
=============================================================================
