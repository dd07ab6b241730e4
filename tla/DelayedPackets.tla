--------------------------- MODULE DelayedPackets ---------------------------
(***************************************************************************)
(* sv_minping: the packets of a client that is too near are kept on a list *)
(* of its slot until they are old enough.  All lists are linked from the   *)
(* MAX_DELAYED_PACKETS packets of one block; those not in use are on       *)
(* svs.free_packets.  Source: sv_main.c (SV_ReadPackets,                   *)
(* SV_FreeHeadDelayedPacket, CheckReConnect, SVC_DirectConnect,            *)
(* SV_CheckTimeouts), sv_user.c (SV_ExecuteClientMessage).                 *)
(*                                                                         *)
(* Time is realtime, counted in frames of the server: it stands still      *)
(* while the game is paused.  A packet's number is the place in which it   *)
(* arrived on its connection.                                              *)
(***************************************************************************)
EXTENDS Naturals, Sequences, FiniteSets

CONSTANTS
    MAX_CLIENTS,
    MAX_DELAYED_PACKETS,
    MaxDelay,       \* the longest delay, in frames (one second in the code)
    MaxArrived,     \* bound: packets of one connection
    MaxInputs       \* bound: packets, connections and timeouts in all

ASSUME DelayAssumption ==
    {MAX_CLIENTS, MAX_DELAYED_PACKETS, MaxDelay, MaxArrived,
     MaxInputs} \subseteq Nat \ {0}

VARIABLES
    packet,         \* the block: packet[p] is a packet_t
    free_packets,   \* svs.free_packets
    clients,        \* svs.clients
    paused,         \* sv.paused
    at,             \* where in the frame the server is
    arrived,        \* arrived[s]: packets of the connection of s so far
    executed,       \* executed[s]: the number of the last one executed
    inputs,         \* packets, connections and timeouts so far
    abandoned       \* packets on the lists of slots that were cleared

vars == <<packet, free_packets, clients, paused, at, arrived, executed,
          inputs, abandoned>>

Slots == 1..MAX_CLIENTS
NULL == 0
Packets == 1..MAX_DELAYED_PACKETS

Unused(next) == [next |-> next, age |-> 0, number |-> 0]
Cleared == [state |-> "used", delay |-> 0, packets |-> NULL,
            last_packet |-> NULL]

\* The places of a frame: the delayed packets of each slot, the socket.
Socket == MAX_CLIENTS + 1

\* SV_InitLocal: all packets on the free list.
Init ==
    /\ packet = [p \in Packets |->
                   Unused(IF p = MAX_DELAYED_PACKETS THEN NULL ELSE p + 1)]
    /\ free_packets = 1
    /\ clients = [s \in Slots |-> [Cleared EXCEPT !.state = "free"]]
    /\ paused = FALSE
    /\ at = 1
    /\ arrived = [s \in Slots |-> 0]
    /\ executed = [s \in Slots |-> 0]
    /\ inputs = 0
    /\ abandoned = 0

\* The packets of a linked list, in order.
List(first) ==
    LET node[i \in Packets] ==
            IF i = 1 THEN first
            ELSE LET p == node[i - 1]
                 IN  IF p = NULL THEN NULL ELSE packet[p].next
        length == Cardinality({i \in Packets : node[i] # NULL})
    IN  [i \in 1..length |-> node[i]]
Members(first) == LET list == List(first) IN {list[i] : i \in DOMAIN list}
Queue(s) == List(clients[s].packets)

InUse(s) == clients[s].state # "free"

\* SV_ExecuteClientMessage: the delay follows the ping (by a millisecond, which
\* is less than a frame; here by any number of frames), and a command may pause
\* the game.  Mutant: the delay is not bounded.
Unbounded == 0..(MaxDelay + 1)
Delays == 0..MaxDelay
ExecuteClientMessage(s, client, number) ==
    /\ \E delay \in IF paused THEN {client.delay} ELSE Delays :
          clients' = [clients EXCEPT ![s] = [client EXCEPT !.delay = delay]]
    /\ paused' \in BOOLEAN
    /\ executed' = [executed EXCEPT ![s] = number]

\* SV_FreeHeadDelayedPacket, for the client it leaves.  Mutant: the packet is
\* not given back.
Forgets(p) == UNCHANGED <<packet, free_packets>>
FreeHead(p) ==
    /\ packet' = [packet EXCEPT ![p] = Unused(free_packets)]
    /\ free_packets' = p

\* The first packet of the slot's list has waited long enough.  Mutants: packets
\* wait while the game is paused, and only those of this very age are taken.
UnlessPaused(client, p) == packet[p].age >= client.delay /\ ~paused
JustThen(client, p) == packet[p].age = client.delay
Due(client, p) == packet[p].age >= client.delay \/ paused

Drains(s) ==
    InUse(s) /\ clients[s].packets # NULL /\ Due(clients[s], clients[s].packets)

\* SV_ReadPackets, first the delayed packets of each slot in turn.
ExecuteDelayed ==
    /\ at \in Slots /\ Drains(at)
    /\ LET p == clients[at].packets
       IN  /\ ExecuteClientMessage(at,
                 [clients[at] EXCEPT !.packets = packet[p].next],
                 packet[p].number)
           /\ FreeHead(p)
    /\ UNCHANGED <<at, arrived, inputs, abandoned>>

NextSlot ==
    /\ at \in Slots /\ ~Drains(at)
    /\ at' = at + 1
    /\ UNCHANGED <<packet, free_packets, clients, paused, arrived, executed,
                   inputs, abandoned>>

\* MaxInputs: what comes from outside is counted.
Input(n) == inputs + n <= MaxInputs /\ inputs' = inputs + n

\* Then the packets in the socket, as many of each client as there are.
Arrives(s) ==
    /\ at = Socket
    /\ InUse(s) /\ arrived[s] < MaxArrived
    /\ arrived' = [arrived EXCEPT ![s] = @ + 1]

ExecuteNew(s) ==
    /\ Arrives(s) /\ clients[s].delay = 0
    /\ ExecuteClientMessage(s, clients[s], arrived[s] + 1)
    /\ Input(1)
    /\ UNCHANGED <<packet, free_packets, at, abandoned>>

\* svs.free_packets->next, read before it is overwritten.  Mutant: read after it.
Overwritten(p) == NULL
NextFree(p) == packet[p].next

\* The first free packet is linked to the end of the slot's list.
DelayNew(s) ==
    /\ Arrives(s) /\ clients[s].delay > 0 /\ free_packets # NULL
    /\ LET p == free_packets
           last == clients[s].last_packet
           empty == clients[s].packets = NULL
           new == [next |-> NULL, age |-> 0, number |-> arrived'[s]]
       IN  /\ packet' = [q \in Packets |->
                           IF q = p THEN new
                           ELSE IF q = last /\ ~empty
                           THEN [packet[q] EXCEPT !.next = p] ELSE packet[q]]
           /\ clients' = [clients EXCEPT ![s].packets = IF empty THEN p ELSE @,
                                         ![s].last_packet = p]
           /\ free_packets' = NextFree(p)
    /\ Input(1)
    /\ UNCHANGED <<paused, at, executed, abandoned>>

\* SV_Frame: realtime advances if the game is not paused.  MaxDelay: what is
\* older is as good as of this age.
Older(p) ==
    IF p.number > 0 /\ p.age < MaxDelay /\ ~paused THEN p.age + 1 ELSE p.age

\* Then SV_CheckTimeouts frees the slots of zombies and of silent clients (here:
\* any), and a pause ends when no player is left (here: at any time, as a slot
\* does not say who only watches).
NextFrame(n) ==
    /\ packet' = [p \in Packets |-> [packet[p] EXCEPT !.age = Older(packet[p])]]
    /\ \E gone \in SUBSET Slots :
          /\ clients' = [s \in Slots |->
                           IF s \in gone
                           THEN [clients[s] EXCEPT !.state = "free"]
                           ELSE clients[s]]
          /\ Input(n + Cardinality(gone))
    /\ paused' \in {paused, FALSE}
    /\ at' = 1
    /\ UNCHANGED <<free_packets, executed, abandoned>>

\* No packet is free: the new one is lost, and the rest of the socket waits.
RefuseNew(s) ==
    /\ Arrives(s) /\ clients[s].delay > 0 /\ free_packets = NULL
    /\ NextFrame(1)

\* The socket is empty.
EndFrame ==
    /\ at = Socket
    /\ NextFrame(0)
    /\ UNCHANGED arrived

\* CheckReConnect, SVC_DirectConnect: the old slot of the address, if it has one,
\* is free at once, and the first free slot is cleared.  No list is given back;
\* what the packets of the one that is cleared hold is not looked at again.
Connect(old) ==
    LET free == {s \in Slots : ~InUse(s)} \cup (old \cap Slots)
    IN
    \E new \in free :
        /\ at = Socket
        /\ \A s \in free : new <= s
        /\ Input(1)
        /\ clients' = [s \in Slots |->
                         IF s = new THEN Cleared
                         ELSE IF s \in old
                         THEN [clients[s] EXCEPT !.state = "free"]
                         ELSE clients[s]]
        /\ abandoned' = abandoned + Len(Queue(new))
        /\ arrived' = [arrived EXCEPT ![new] = 0]
        /\ executed' = [executed EXCEPT ![new] = 0]
        /\ LET list == Members(clients[new].packets)
           IN  packet' = [p \in Packets |->
                            IF p \in list THEN Unused(NULL) ELSE packet[p]]
        /\ UNCHANGED <<free_packets, paused, at>>

\* What the server does by itself.
SV_ReadPackets == ExecuteDelayed \/ NextSlot \/ EndFrame

Next ==
    \/ SV_ReadPackets
    \/ \E s \in Slots : ExecuteNew(s) \/ DelayNew(s) \/ RefuseNew(s)
    \/ \E old \in {{s} : s \in Slots} \cup {{}} : Connect(old)

\* The server runs frame after frame; what arrives and when is not up to it.
Spec == Init /\ [][Next]_vars /\ WF_vars(SV_ReadPackets)

-----------------------------------------------------------------------------

\* The variables have their types.
TypeOK ==
    /\ packet \in [Packets -> [next : Packets \cup {NULL}, age : 0..MaxDelay,
                               number : 0..MaxArrived]]
    /\ free_packets \in Packets \cup {NULL}
    /\ clients \in [Slots ->
          [state : {"free", "used"}, delay : 0..MaxDelay,
           packets : Packets \cup {NULL}, last_packet : Packets \cup {NULL}]]
    /\ paused \in BOOLEAN
    /\ at \in 1..Socket
    /\ arrived \in [Slots -> 0..MaxArrived]
    /\ executed \in [Slots -> 0..MaxArrived]
    /\ inputs \in 0..MaxInputs
    /\ abandoned \in Nat

\* No two pointers (the heads of the lists, and next) are to the same packet, so
\* that no list joins another or runs in a circle, although SV_ReadPackets links
\* and unlinks packets through svs.free_packets, packets and last_packet.
Apart(p, q) == p = q => p = NULL
OnePointer ==
    /\ \A p, q \in Packets : p # q => Apart(packet[p].next, packet[q].next)
    /\ \A s, t \in Slots : s # t => Apart(clients[s].packets, clients[t].packets)
    /\ \A s \in Slots, p \in Packets : Apart(clients[s].packets, packet[p].next)
    /\ \A p \in Packets : Apart(free_packets, packet[p].next)
    /\ \A s \in Slots : Apart(free_packets, clients[s].packets)

\* Each slot's list ends at its last_packet, and every packet is on a list but
\* those of the slots that SVC_DirectConnect cleared (SV_FreeDelayedPackets is
\* never called).
Conserved ==
    /\ \A s \in Slots : Queue(s) # <<>> =>
          Queue(s)[Len(Queue(s))] = clients[s].last_packet
    /\ LET listed == Members(free_packets)
                        \cup UNION {Members(clients[s].packets) : s \in Slots}
       IN  Cardinality(listed) + abandoned = MAX_DELAYED_PACKETS

\* No packet_t is held longer than it must be: when none is free as the server
\* reads the socket, so that what arrives for a delayed client is dropped, each
\* holds a packet that is not yet as old as the delay of its client now is, or it
\* is left on the list of a slot that was freed or cleared.  This is so however
\* the delays change and however often the game is paused in between, whatever
\* bursts arrive and whatever the size of the block (server.h 60 reckons it for
\* 0.3 s, the delay of a client may be 1 s).
Waiting(s) ==
    {p \in Members(clients[s].packets) :
        InUse(s) => packet[p].age < clients[s].delay}
Exhausted ==
    at = Socket /\ free_packets = NULL =>
        Cardinality(UNION {Waiting(s) : s \in Slots}) + abandoned
            = MAX_DELAYED_PACKETS

\* A packet that waits is executed in the end, unless its slot is freed, although
\* the delay is lowered and raised and the game paused and resumed: when no more
\* arrive, none waits.
Executes == \A s \in Slots : <>[](Queue(s) = <<>> \/ ~InUse(s))

\* Packets are executed in the order of their arrival: none overtakes one that
\* waits, although a packet that arrives when the delay is 0 does not look at
\* the list.
Delay ==
    INSTANCE PacketDelay WITH
        line <- [s \in Slots |->
                   LET list == Queue(s)
                   IN  [i \in DOMAIN list |-> packet[list[i]].number]]
InOrder == Delay!Spec
=============================================================================
