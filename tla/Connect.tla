------------------------------- MODULE Connect -------------------------------
(***************************************************************************)
(* How a client gets one of the server's slots and loses it: challenges    *)
(* and connection requests, reconnects, packets matched to slots by        *)
(* address and qport, routers that change a client's port, timeouts on     *)
(* both sides and zombies.                                                 *)
(*                                                                         *)
(* Server: sv_main.c (SV_ReadPackets, SVC_GetChallenge, SVC_DirectConnect, *)
(* SV_CheckTimeouts).  Client: cl_main.c (CL_CheckForResend,               *)
(* CL_ConnectionlessPacket, CL_Disconnect).  The channel is reduced to its *)
(* sequence numbers and to the command "new", the client's first reliable  *)
(* message: that it is sent until it is acknowledged is NetChan's.         *)
(***************************************************************************)
EXTENDS Naturals, Sequences, FiniteSets

CONSTANTS
    Client,
    Base,           \* Base[c]: the base address of c; clients may share one
    Slots,          \* svs.clients: 1..MAX_CLIENTS
    maxclients,
    MAX_CHALLENGES,
    Ports, Qports,
    Port, Qport,    \* of each client's first process
    PathLength,     \* bound: packets under way; more are lost
    MaxSequence,    \* bound: packets of one connection of a client
    MaxFaults       \* bound: faults of the network, restarts and quits

ASSUME ConnectAssumption ==
    /\ Base \in [Client -> Nat]
    /\ Slots \subseteq Nat \ {0}
    /\ Ports \subseteq Nat /\ Qports \subseteq Nat
    /\ Port \in [Client -> Ports] /\ Qport \in [Client -> Qports]
    /\ \A c, d \in Client : c # d /\ Base[c] = Base[d]
                             => Port[c] # Port[d] /\ Qport[c] # Qport[d]
    /\ {maxclients, MAX_CHALLENGES, PathLength, MaxSequence, MaxFaults}
          \subseteq Nat
    /\ MAX_CHALLENGES > 0

VARIABLES
    cls,            \* cls[c]: the client's side of its connection
    path,           \* path[c]: packets of c under way to the server, in order
    stray,          \* stray[c]: packets of c that are late
    back,           \* back[c]: packets under way to c
    challenges,     \* svs.challenges, the oldest first
    issued,         \* challenge numbers given out: rand() repeats none
    slot,           \* svs.clients
    faults,         \* faults so far
    late,           \* a packet has been late
    hasty           \* hasty[c]: c asked anew while packets of the connection
                    \* it had given up were under way

server == <<challenges, issued, slot>>
vars == <<cls, path, stray, back, server, faults, late, hasty>>

Free ==
    [state |-> "free", base |-> 0, port |-> 0, qport |-> 0, incoming |-> 0]

\* svs.clients[i] and the part of its netchan that matters here.
SlotState == {"free", "zombie", "preconnected", "connected"}

\* The process of a client as it starts: the cvar qport is a random number.
Process(p, q) ==
    [state |-> "disconnected", server_adr |-> FALSE, port |-> p, qport |-> q,
     outgoing |-> 0, incoming |-> 0, pending |-> FALSE]

Connected(c) == cls[c].state = "connected"

\* A packet that finds the path full is lost.
Push(q, m) == IF Len(q) < PathLength THEN Append(q, m) ELSE q

\* A server's packet reaches the client that has the address now.
Sent(base, port, m) ==
    [c \in Client |->
        IF Base[c] = base /\ cls[c].port = port THEN Push(back[c], m)
                                                ELSE back[c]]

\* Nothing is under way between the server and c.
Idle(c) == path[c] = <<>> /\ back[c] = <<>>

Init ==
    /\ cls = [c \in Client |-> Process(Port[c], Qport[c])]
    /\ path = [c \in Client |-> <<>>]
    /\ stray = [c \in Client |-> {}]
    /\ back = [c \in Client |-> <<>>]
    /\ challenges = <<>>
    /\ issued = 0
    /\ slot = [s \in Slots |-> Free]
    /\ faults = 0
    /\ late = FALSE
    /\ hasty = [c \in Client |-> FALSE]

-----------------------------------------------------------------------------
(* The server *)

First(S) == CHOOSE s \in S : \A t \in S : s <= t

\* SVC_GetChallenge: an address that has a number keeps it; a new one takes the
\* place of the oldest.
NewChallenge(base) ==
    IF \E i \in DOMAIN challenges : challenges[i].base = base
    THEN challenges
    ELSE Append(IF Len(challenges) < MAX_CHALLENGES THEN challenges
                                                    ELSE Tail(challenges),
                [base |-> base, challenge |-> issued + 1])

GetChallenge(base, p) ==
    /\ challenges' = NewChallenge(base)
    /\ issued' = IF challenges' = challenges THEN issued ELSE issued + 1
    /\ LET entry == CHOOSE e \in {challenges'[i] : i \in DOMAIN challenges'} :
                       e.base = base
       IN back' = Sent(base, p.port,
                       [type |-> "challenge", challenge |-> entry.challenge])
    /\ UNCHANGED slot

\* CheckChallange: the number is the one in the table for this base address.
CheckChallange(base, n) ==
    \E i \in DOMAIN challenges :
        challenges[i].base = base /\ challenges[i].challenge = n

\* CheckReConnect: an old slot of the address is the one with its qport, or
\* with its port.  Mutants: only the port counts, and any slot of the base.
SamePort(base, port, qport, s) ==
    slot[s].state # "free" /\ slot[s].base = base /\ slot[s].port = port
SameBase(base, port, qport, s) ==
    slot[s].state # "free" /\ slot[s].base = base
Reconnects(base, port, qport, s) ==
    /\ slot[s].state # "free"
    /\ slot[s].base = base
    /\ slot[s].qport = qport \/ slot[s].port = port

\* The first old slot, zombie or not, is freed at once.
CheckReConnect(base, port, qport) ==
    LET old == {s \in Slots : Reconnects(base, port, qport, s)}
    IN  IF old = {} THEN slot ELSE [slot EXCEPT ![First(old)] = Free]

\* SVC_DirectConnect: a client_t is initialised only here.
DirectConnect(base, p) ==
    LET slots == CheckReConnect(base, p.port, p.qport)
        free == {s \in Slots : slots[s].state = "free"}
    IN
    /\ IF CheckChallange(base, p.challenge)
       THEN IF free # {} /\ Cardinality(Slots \ free) < maxclients
            THEN /\ slot' = [slots EXCEPT ![First(free)] =
                       [state |-> "preconnected", base |-> base,
                        port |-> p.port, qport |-> p.qport, incoming |-> 0]]
                 /\ back' = Sent(base, p.port, [type |-> "connection"])
            ELSE slot' = slots /\ UNCHANGED back
       ELSE UNCHANGED <<slot, back>>
    /\ UNCHANGED <<challenges, issued>>

\* SV_ReadPackets: the slot a packet of a connection belongs to.
Matching(base, qport) ==
    {s \in Slots : /\ slot[s].state # "free"
                   /\ slot[s].base = base
                   /\ slot[s].qport = qport}

\* What the client's command does (Cmd_New_f, Cmd_Drop_f).  A zombie is still
\* served.
Executed(sl, p) ==
    CASE p.command = "new" ->
           [sl EXCEPT !.state = IF @ = "preconnected" THEN "connected" ELSE @]
      [] p.command = "drop" -> [sl EXCEPT !.state = "zombie"]
      [] OTHER -> sl

\* Netchan_Process.  Mutant: the sequence number is not recorded.
NotRecorded(sl, p) == sl
Accepted(sl, p) == [sl EXCEPT !.incoming = p.sequence]

\* SV_ReadPackets, SV_ExecuteClientMessage and the answer at the end of the
\* frame.  The port is corrected before the packet is found to be stale.
\* Mutant: a translated port is not corrected.
KeepPort(s, p) == slot[s]
FixPort(s, p) == [slot[s] EXCEPT !.port = p.port]
ExecuteMessage(base, p) ==
    LET s == First(Matching(base, p.qport))
        sl == FixPort(s, p)
        done == Executed(Accepted(sl, p), p)
    IN
    /\ IF Matching(base, p.qport) = {} THEN UNCHANGED <<slot, back>>
       ELSE IF p.sequence <= sl.incoming
       THEN slot' = [slot EXCEPT ![s] = sl] /\ UNCHANGED back
       ELSE /\ slot' = [slot EXCEPT ![s] = done]
            /\ back' = Sent(base, p.port,
                  [type |-> "data", sequence |-> p.sequence,
                   new |-> done.state = "connected",
                   disconnect |-> done.state = "zombie"])
    /\ UNCHANGED <<challenges, issued>>

ServerHandles(base, p) ==
    CASE p.type = "getchallenge" -> GetChallenge(base, p)
      [] p.type = "connect" -> DirectConnect(base, p)
      [] p.type = "data" -> ExecuteMessage(base, p)

ServerReceive(c) ==
    /\ path[c] # <<>>
    /\ ServerHandles(Base[c], Head(path[c]))
    /\ path' = [path EXCEPT ![c] = Tail(@)]
    /\ UNCHANGED <<cls, stray, faults, late, hasty>>

ServerReceiveLate(c) ==
    \E p \in stray[c] :
        /\ ServerHandles(Base[c], p)
        /\ stray' = [stray EXCEPT ![c] = @ \ {p}]
        /\ late' = TRUE
        /\ UNCHANGED <<cls, path, faults, hasty>>

\* The last packet of the connection was answered: the exchange goes on.
Answered(c, s) ==
    /\ cls[c].outgoing = slot[s].incoming
    /\ cls[c].incoming = slot[s].incoming
    /\ ~cls[c].pending

\* No client feeds the slot, and nothing of it is under way.  MaxSequence: at
\* the bound, a connection whose last packet went unanswered has fallen silent.
Feeds(c, s) ==
    /\ Connected(c)
    /\ s = First(Matching(Base[c], cls[c].qport))
    /\ cls[c].outgoing = MaxSequence => Answered(c, s)
Silent(s) ==
    \A c \in Client : s \in Matching(Base[c], cls[c].qport)
                       => Idle(c) /\ ~Feeds(c, s)

\* SV_CheckTimeouts: a slot whose client is silent is free at once, without
\* being a zombie first.
CheckTimeouts(s) ==
    /\ \/ slot[s].state \in {"preconnected", "connected"} /\ Silent(s)
       \/ slot[s].state = "zombie"
    /\ slot' = [slot EXCEPT ![s] = Free]
    /\ UNCHANGED <<cls, path, stray, back, challenges, issued, faults, late,
                   hasty>>

-----------------------------------------------------------------------------
(* A client *)

ToServer(c, m) == path' = [path EXCEPT ![c] = Push(@, m)]

\* CL_Connect_f and CL_BeginServerConnect, by a user who asks again until it
\* works; then CL_CheckForResend every five seconds.  Nothing is under way by
\* then: a request made earlier counts as a fault (Impatient).
SendGetChallenge(c) ==
    /\ ~Connected(c)
    /\ cls' = [cls EXCEPT ![c].server_adr = TRUE]
    /\ hasty' = [hasty EXCEPT ![c] = IF cls[c].server_adr THEN @ ELSE ~Idle(c)]
    /\ ToServer(c, [type |-> "getchallenge", port |-> cls[c].port])
    /\ UNCHANGED <<stray, back, server, late>>

CheckForResend(c) == Idle(c) /\ SendGetChallenge(c) /\ UNCHANGED faults

\* CL_Disconnect: the command drop, three times (here: once), and the address
\* of the server is forgotten.
Disconnect(c) ==
    /\ ToServer(c, [type |-> "data", port |-> cls[c].port,
                    qport |-> cls[c].qport,
                    sequence |-> cls[c].outgoing + 1, command |-> "drop"])
    /\ cls' = [cls EXCEPT ![c] = Process(@.port, @.qport)]

\* CL_ConnectionlessPacket, S2C_CHALLENGE: CL_SendConnectPacket, which does
\* nothing for a client that is connected.  Mutant: it does.
AlwaysConnects(c) == cls[c].server_adr
SendsConnect(c) == cls[c].server_adr /\ ~Connected(c)
ReceiveChallenge(c, m) ==
    /\ IF SendsConnect(c)
       THEN ToServer(c, [type |-> "connect", port |-> cls[c].port,
                         qport |-> cls[c].qport, challenge |-> m.challenge])
       ELSE UNCHANGED path
    /\ UNCHANGED cls

\* S2C_CONNECTION: Netchan_Setup, and the command new is to be sent; a second
\* answer is ignored.
ReceiveConnection(c) ==
    /\ cls' = IF cls[c].server_adr /\ ~Connected(c)
              THEN [cls EXCEPT ![c] = [@ EXCEPT !.state = "connected",
                      !.outgoing = 0, !.incoming = 0, !.pending = TRUE]]
              ELSE cls
    /\ UNCHANGED path

\* A packet of the connection (CL_ReadPackets, svc_disconnect).
ReceiveData(c, m) ==
    IF Connected(c) /\ m.sequence > cls[c].incoming
    THEN IF m.disconnect
         THEN Disconnect(c)
         ELSE /\ cls' = [cls EXCEPT ![c].incoming = m.sequence,
                                    ![c].pending = @ /\ ~m.new]
              /\ UNCHANGED path
    ELSE UNCHANGED <<cls, path>>

ClientReceive(c) ==
    /\ back[c] # <<>>
    /\ back' = [back EXCEPT ![c] = Tail(@)]
    /\ LET m == Head(back[c]) IN
       CASE m.type = "challenge" -> ReceiveChallenge(c, m)
         [] m.type = "connection" -> ReceiveConnection(c)
         [] m.type = "data" -> ReceiveData(c, m)
    /\ UNCHANGED <<stray, server, faults, late, hasty>>

\* The slot whose packets are the client's, if there is one.
HasSlot(c) == Matching(Base[c], cls[c].qport) # {}
SlotOf(c) == First(Matching(Base[c], cls[c].qport))

\* The client is connected and the server has executed its "new".
InGame(c) == Connected(c) /\ HasSlot(c) /\ slot[SlotOf(c)].state = "connected"

\* CL_SendCmd, every frame; here not before the last packet is through, and not
\* while another would change no more than its number.
DataIn(q) == \E i \in DOMAIN q : q[i].type = "data"
Settled(c) ==
    InGame(c) /\ slot[SlotOf(c)].port = cls[c].port /\ Answered(c, SlotOf(c))
ClientSend(c) ==
    /\ Connected(c) /\ ~Settled(c)
    /\ ~DataIn(path[c]) /\ ~DataIn(back[c])
    /\ cls[c].outgoing < MaxSequence
    /\ cls' = [cls EXCEPT ![c].outgoing = @ + 1]
    /\ ToServer(c, [type |-> "data", port |-> cls[c].port,
                    qport |-> cls[c].qport, sequence |-> cls'[c].outgoing,
                    command |-> IF cls[c].pending THEN "new" ELSE "none"])
    /\ UNCHANGED <<stray, back, server, faults, late, hasty>>

\* CL_ReadPackets: no packet was accepted for cl_timeout seconds.
ClientTimeout(c) ==
    /\ Connected(c) /\ Idle(c)
    /\ \A s \in Matching(Base[c], cls[c].qport) : ~Feeds(c, s)
    /\ Disconnect(c)
    /\ UNCHANGED <<stray, back, server, faults, late, hasty>>

-----------------------------------------------------------------------------
(* Faults: what the network, the router, users and crashes do, MaxFaults of
   it in all. *)

Impatient(c) == ~Idle(c) /\ SendGetChallenge(c)

Quit(c) ==
    /\ Connected(c) /\ Disconnect(c)
    /\ UNCHANGED <<stray, back, server, late, hasty>>

Lose(c) ==
    /\ \/ path[c] # <<>> /\ path' = [path EXCEPT ![c] = Tail(@)]
          /\ UNCHANGED back
       \/ back[c] # <<>> /\ back' = [back EXCEPT ![c] = Tail(@)]
          /\ UNCHANGED path
    /\ UNCHANGED <<cls, stray, server, late, hasty>>

\* A copy of a packet is late; that the packet is late itself is this and Lose.
Delay(c) ==
    /\ path[c] # <<>>
    /\ stray' = [stray EXCEPT ![c] = @ \cup {Head(path[c])}]
    /\ UNCHANGED <<cls, path, back, server, late, hasty>>

\* All packets of clients on the network.
Underway ==
    UNION {{path[c][i] : i \in DOMAIN path[c]} \cup stray[c] : c \in Client}

\* The router gives c another port, one no packet or slot has.
Translate(c) ==
    LET new == Ports \ ({p.port : p \in Underway}
                           \cup {cls[d].port : d \in Client}
                           \cup {slot[s].port : s \in Slots})
    IN
    /\ new # {}
    /\ cls' = [cls EXCEPT ![c].port = First(new)]
    /\ UNCHANGED <<path, stray, back, server, late, hasty>>

\* The client's process dies and is started again, with a new random qport.
Restart(c) ==
    LET OfPacket(p) == IF p.type = "getchallenge" THEN 0 ELSE p.qport
        new == Qports \ ({OfPacket(p) : p \in Underway}
                            \cup {cls[d].qport : d \in Client}
                            \cup {slot[s].qport : s \in Slots})
    IN
    /\ new # {}
    /\ cls' = [cls EXCEPT ![c] = Process(@.port, First(new))]
    /\ UNCHANGED <<path, stray, back, server, late, hasty>>

\* The server's process dies and is started again.
ServerRestart ==
    /\ slot' = [s \in Slots |-> Free]
    /\ challenges' = <<>>
    /\ UNCHANGED <<cls, path, stray, back, issued, late, hasty>>

\* Another address asks for a challenge, and the oldest may have to go.
OtherChallenge ==
    /\ challenges' = NewChallenge(0)
    /\ issued' = IF challenges' = challenges THEN issued ELSE issued + 1
    /\ UNCHANGED <<cls, path, stray, back, slot, late, hasty>>

Fault ==
    /\ faults < MaxFaults
    /\ faults' = faults + 1
    /\ \/ \E c \in Client :
            \/ Impatient(c) \/ Quit(c) \/ Lose(c) \/ Delay(c)
            \/ Translate(c) \/ Restart(c)
       \/ ServerRestart
       \/ OtherChallenge

Next ==
    \/ \E c \in Client :
          \/ CheckForResend(c) \/ ClientReceive(c) \/ ClientSend(c)
          \/ ClientTimeout(c)
          \/ ServerReceive(c) \/ ServerReceiveLate(c)
    \/ \E s \in Slots : CheckTimeouts(s)
    \/ Fault

\* Both programs run every frame, and a silent slot is found in the end.
Spec ==
    /\ Init
    /\ [][Next]_vars
    /\ \A c \in Client :
          /\ WF_vars(CheckForResend(c)) /\ WF_vars(ClientReceive(c))
          /\ WF_vars(ClientSend(c)) /\ WF_vars(ClientTimeout(c))
          /\ WF_vars(ServerReceive(c))
    /\ \A s \in Slots : WF_vars(CheckTimeouts(s))

-----------------------------------------------------------------------------

\* The client waits for what its "new" brings; the server waits for the "new".
Wedged(c) ==
    /\ Connected(c) /\ ~cls[c].pending
    /\ HasSlot(c) /\ slot[SlotOf(c)].state = "preconnected"

\* The variables have their types, and a slot is connected only by a packet.
Packet ==
    [type : {"getchallenge"}, port : Ports]
      \cup [type : {"connect"}, port : Ports, qport : Qports,
            challenge : 1..issued]
      \cup [type : {"data"}, port : Ports, qport : Qports,
            sequence : 1..(MaxSequence + 1), command : {"new", "none", "drop"}]
Answer ==
    [type : {"challenge"}, challenge : 1..issued]
      \cup [type : {"connection"}]
      \cup [type : {"data"}, sequence : 1..(MaxSequence + 1), new : BOOLEAN,
            disconnect : BOOLEAN]
TypeOK ==
    /\ cls \in [Client ->
          [state : {"disconnected", "connected"}, server_adr : BOOLEAN,
           port : Ports, qport : Qports, outgoing : 0..MaxSequence,
           incoming : 0..(MaxSequence + 1), pending : BOOLEAN]]
    /\ path \in [Client -> Seq(Packet)]
    /\ stray \in [Client -> SUBSET Packet]
    /\ back \in [Client -> Seq(Answer)]
    /\ challenges \in Seq([base : Nat, challenge : 1..issued])
    /\ issued \in Nat
    /\ slot \in [Slots ->
          [state : SlotState, base : Nat, port : Ports \cup {0},
           qport : Qports \cup {0}, incoming : 0..(MaxSequence + 1)]]
    /\ \A s \in Slots : slot[s].state = "connected" => slot[s].incoming > 0
    /\ faults \in 0..MaxFaults
    /\ late \in BOOLEAN
    /\ hasty \in [Client -> BOOLEAN]

\* "If there is already a slot for this ip, reuse it" (sv_main.c 1273): no two
\* slots in use have the same address and qport, zombies included; a packet
\* belongs to one slot.  Only a packet that comes late can make a second one.
OneSlot ==
    \A s, t \in Slots :
        /\ s # t
        /\ slot[s].state # "free" /\ slot[t].state # "free"
        /\ slot[s].base = slot[t].base /\ slot[s].qport = slot[t].qport
        => late

\* A connect the client repeats never takes away the slot in which its "new" was
\* executed, without the client knowing (cl_main.c 1484 ignores the second
\* answer): client and server wait for each other only after a late packet, or
\* when the client gave up a connection and asked anew before its packets were
\* through: what answers the old requests is taken for the new ones'.
InStep == \A c \in Client : Wedged(c) => late \/ hasty[c]

\* A client in the game loses its slot by its own packets, or because it fell
\* silent, and never by what another client behind the same address sends.
NotStolen ==
    [][\A c \in Client :
          InGame(c) /\ path'[c] = path[c] /\ stray'[c] = stray[c]
             /\ cls'[c] = cls[c] /\ faults' = faults /\ ~Silent(SlotOf(c))
          => InGame(c)']_vars

\* In the end every client whose user keeps asking is in the game for good, and
\* the server answers to its port of the moment, whatever was lost, translated
\* or restarted; a late packet can leave it waiting, or answered at an old port.
Settles ==
    \A c \in Client :
        <>[](\/ InGame(c) /\ (slot[SlotOf(c)].port = cls[c].port \/ late)
             \/ Wedged(c))
=============================================================================
