---------------------------- MODULE FrameExchange ----------------------------
(***************************************************************************)
(* The unreliable half of a connection: the client's commands, each sent   *)
(* in three packets, and the server's frames, each sent as the difference  *)
(* from a frame the client has.  Both ends keep their last UPDATE_BACKUP   *)
(* frames in a ring and address them by sequence number.                   *)
(*                                                                         *)
(* Client: cl_input.c (CL_SendCmd), cl_parse.c, cl_ents.c                  *)
(* (CL_ParsePacketEntities), cl_pred.c (CL_PredictMove).  Server:          *)
(* sv_user.c (SV_ExecuteClientMessage), sv_ents.c, sv_send.c.              *)
(*                                                                         *)
(* A command is its sequence number; 0 is a cleared usercmd_t.  A list of  *)
(* entities is the number of the server's frame it is the list of; 0 is    *)
(* the empty list.  A player's state is the number of the last command     *)
(* that went into it.  Torn is what comes of a delta on another list than  *)
(* it was made from, or of a command out of turn.                          *)
(*                                                                         *)
(* The reliable messages of NetChan and the signon are here no more than   *)
(* the level an endpoint knows of: once a server's packet of a newer level *)
(* has come, any such packet may be the one the serverdata came in, and    *)
(* any packet of a client that has it the one with "begin".  A packet may  *)
(* be lost or overtaken; one that cl_c2spps drops is one that is lost.     *)
(***************************************************************************)
EXTENDS Integers, Sequences, FiniteSets

CONSTANTS
    UPDATE_BACKUP,  \* frames in a ring
    BYTE,           \* values of the byte a sequence number is sent in
    DropLimit,      \* a gap as long as this is not filled with lastcmd
    SERVERONLY,     \* the server is built without a client
    Nodelta,        \* the values of cl_nodelta
    MaxSequence,    \* bound: packets of the client
    MaxLevel        \* bound: levels played

ASSUME RingAssumption ==
    /\ UPDATE_BACKUP \in Nat /\ UPDATE_BACKUP >= 4
    /\ BYTE \in Nat /\ BYTE >= UPDATE_BACKUP /\ BYTE % UPDATE_BACKUP = 0
    /\ {DropLimit, MaxSequence} \subseteq Nat /\ MaxLevel \in Nat \ {0}
    /\ SERVERONLY \in BOOLEAN /\ Nodelta \subseteq BOOLEAN

VARIABLES
    cl,             \* the client
    client,         \* its slot on the server
    toServer,       \* the client's packets that may still be accepted
    toClient,       \* the server's
    received,       \* the packets the server has taken since "begin"
    ran             \* the commands it has run since then

vars == <<cl, client, toServer, toClient, received, ran>>

Slot(sequence) == sequence % UPDATE_BACKUP      \* & UPDATE_MASK
Slots == 0 .. UPDATE_BACKUP - 1
None == -1                                      \* no delta
Torn == -2
\* A packet without entities.
NoUpdate == [from |-> None, base |-> 0, entities |-> None]

(***************************************************************************)
(* The client.                                                             *)
(***************************************************************************)
NoFrame == [cmd |-> 0, delta_sequence |-> 0, entities |-> 0,
            playerstate |-> 0, invalid |-> FALSE]

CL_ClearState(c, level) ==
    [c EXCEPT !.state = "onserver", !.level = level,
              !.validsequence = 0, !.delta_sequence = 0,
              !.frames = [s \in Slots |-> NoFrame]]

\* nodelta: the user's cl_nodelta.
CL_SendCmd(c, nodelta) ==
    LET n == c.outgoing
        expired == n - c.validsequence >= UPDATE_BACKUP - 1
        delta == IF expired THEN 0 ELSE c.delta_sequence
        asks == delta # 0 /\ ~nodelta /\ c.state = "active"
    IN [c EXCEPT !.outgoing = n + 1,
                 !.validsequence = IF expired THEN 0 ELSE @,
                 !.delta_sequence = delta,
                 !.frames[Slot(n)] =
                     [@ EXCEPT !.cmd = n,
                               !.delta_sequence = IF asks THEN delta
                                                  ELSE None]]

\* Mutant: the byte is not truncated.
MoveLong(c) ==
    LET n == c.outgoing - 1
    IN [seq |-> n, level |-> c.level,
        oldest |-> c.frames[Slot(n - 2)].cmd,
        oldcmd |-> c.frames[Slot(n - 1)].cmd,
        newcmd |-> c.frames[Slot(n)].cmd,
        delta |-> c.frames[Slot(n)].delta_sequence]
\* The packet CL_SendCmd has built: command n and the two before it.
Move(c) ==
    LET n == c.outgoing - 1
        delta == c.frames[Slot(n)].delta_sequence
    IN [seq |-> n, level |-> c.level,
        oldest |-> c.frames[Slot(n - 2)].cmd,
        oldcmd |-> c.frames[Slot(n - 1)].cmd,
        newcmd |-> c.frames[Slot(n)].cmd,
        delta |-> IF delta = None THEN None ELSE delta % BYTE]

\* The player's state after command n, replayed from the last valid frame.
Replayed(c, n) ==
    IF /\ c.frames[Slot(c.validsequence)].playerstate = c.validsequence
       /\ \A m \in c.validsequence + 1 .. n : c.frames[Slot(m)].cmd = m
    THEN n ELSE Torn

Predicts(c) ==
    /\ c.validsequence # 0
    /\ c.outgoing - c.validsequence < UPDATE_BACKUP - 1

CL_PredictMove(c) ==
    LET ahead == c.validsequence + 1 .. c.outgoing - 1
    IN IF ~Predicts(c) THEN c
       ELSE [c EXCEPT !.frames = [s \in Slots |->
                IF \E n \in ahead : Slot(n) = s
                THEN [@[s] EXCEPT !.playerstate =
                          Replayed(c, CHOOSE n \in ahead : Slot(n) = s)]
                ELSE @[s]]]

\* Mutant: the sequence numbers are set before the checks.
FlushAfterShow(c) ==
    [c EXCEPT !.delta_sequence = c.incoming,
              !.frames[Slot(c.incoming)].invalid = TRUE]
FlushEntityPacket(c) ==
    [c EXCEPT !.delta_sequence = 0, !.frames[Slot(c.incoming)].invalid = TRUE]

\* The entities of the packet just taken become the frame to show.
Shows(c, entities) ==
    [c EXCEPT !.state = "active",
              !.validsequence = c.incoming, !.delta_sequence = c.incoming,
              !.frames[Slot(c.incoming)] =
                  [@ EXCEPT !.entities = entities, !.invalid = FALSE]]

CL_ParsePacketEntities(c, update) ==
    LET oldpacket == c.frames[Slot(c.incoming)].delta_sequence
        NoneLeft == c.outgoing - c.incoming >= UPDATE_BACKUP - 1
        Mismatch == Slot(update.from) # Slot(oldpacket)
        TooOld == c.outgoing - oldpacket >= UPDATE_BACKUP - 1
    IN CASE update.from = None -> Shows(c, update.entities)
         [] update.from # None /\ (NoneLeft \/ Mismatch) ->
                [FlushEntityPacket(c) EXCEPT !.validsequence = 0]
         [] update.from # None /\ ~NoneLeft /\ ~Mismatch /\ TooOld ->
                FlushEntityPacket(c)
         [] OTHER ->
                Shows(c, IF c.frames[Slot(oldpacket)].entities = update.base
                         THEN update.entities ELSE Torn)

\* CL_ParsePlayerinfo files the player's state under what the packet
\* acknowledges, CL_ParsePacketEntities the entities under its own number.
CL_ParseServerMessage(c, p) ==
    LET taken == [c EXCEPT !.incoming = p.seq]
    IN IF p.update = NoUpdate THEN taken
       ELSE CL_ParsePacketEntities(
                [taken EXCEPT !.frames[Slot(p.ack)].playerstate = p.player],
                p.update)

(***************************************************************************)
(* The server.                                                             *)
(***************************************************************************)
Repeat(cmd, n) == [i \in 1..n |-> cmd]

\* Mutant: two lost packets are taken for one.
MoveOffByOne(c, p, dropped) ==
    (IF dropped > 2 /\ dropped < DropLimit
     THEN Repeat(c.lastcmd, dropped - 2) ELSE <<>>)
    \o (IF dropped > 2 THEN <<p.oldest>> ELSE <<>>)
    \o (IF dropped > 0 THEN <<p.oldcmd>> ELSE <<>>)
    \o <<p.newcmd>>
\* Mutant: the newest command is run first.
MoveSwapped(c, p, dropped) ==
    <<p.newcmd>> \o (IF dropped > 0 THEN <<p.oldcmd>> ELSE <<>>)
SV_ExecuteClientMove(c, p, dropped) ==
    (IF dropped > 2 /\ dropped < DropLimit
     THEN Repeat(c.lastcmd, dropped - 2) ELSE <<>>)
    \o (IF dropped > 1 THEN <<p.oldest>> ELSE <<>>)
    \o (IF dropped > 0 THEN <<p.oldcmd>> ELSE <<>>)
    \o <<p.newcmd>>

\* "No delta unless requested": -1, then what a clc_delta says.
\* Mutant: without the -1.
DeltaKept(c, p) == IF p.delta = None THEN c.delta_sequence ELSE p.delta
DeltaRequested(c, p) == p.delta

\* begins: the packet has the "begin" of the level.
SV_ExecuteClientMessage(p, begins) ==
    LET dropped == p.seq - (client.incoming + 1)
        replies == p.seq >= client.outgoing
        spawned == begins \/ client.state = "spawned"
    IN
    /\ client' = [client EXCEPT
           !.incoming = p.seq,
           !.outgoing = IF replies THEN p.seq ELSE @,
           !.send_message = replies,
           !.delta_sequence = DeltaRequested(client, p),
           !.state = IF begins THEN "spawned" ELSE @,
           !.lastcmd = IF spawned THEN p.newcmd ELSE @]
    /\ ran' = (IF begins THEN <<>> ELSE ran) \o
              (IF spawned THEN SV_ExecuteClientMove(client, p, dropped)
                          ELSE <<>>)
    /\ received' = IF begins THEN {p.seq}
                   ELSE IF spawned THEN received \cup {p.seq} ELSE received

\* The frame of a client is the ring's entry of its last packet; it is
\* filled before the delta is made.
SV_WriteEntitiesToClient(c) ==
    [c EXCEPT !.frames[Slot(c.incoming)] = c.outgoing]

SV_EmitPacketEntities(c) ==
    [from |-> c.delta_sequence,
     base |-> IF c.delta_sequence = None THEN 0
              ELSE c.frames[Slot(c.delta_sequence)],
     entities |-> c.frames[Slot(c.incoming)]]

Packet(c, update) ==
    [seq |-> c.outgoing, ack |-> c.incoming, level |-> c.level,
     player |-> IF ran = <<>> THEN 0 ELSE ran[Len(ran)], update |-> update]

Sent(c) == [c EXCEPT !.outgoing = @ + 1, !.send_message = FALSE]

(***************************************************************************)
(* Steps.                                                                  *)
(***************************************************************************)
Init ==
    /\ cl = [state |-> "onserver", level |-> 1, outgoing |-> 1,
             incoming |-> 0, validsequence |-> 0, delta_sequence |-> 0,
             frames |-> [s \in Slots |-> NoFrame]]
    /\ client = [state |-> "connected", level |-> 1, outgoing |-> 1,
                 incoming |-> 0, delta_sequence |-> None,
                 send_message |-> FALSE, lastcmd |-> 0,
                 frames |-> [s \in Slots |-> 0]]
    /\ toServer = {} /\ toClient = {}
    /\ received = {} /\ ran = <<>>

\* A frame of the client: CL_SendCmd, then CL_LinkEntities predicts.
ClientFrame(nodelta) ==
    LET sent == CL_SendCmd(cl, nodelta)
    IN
    /\ cl.outgoing <= MaxSequence
    /\ cl' = CL_PredictMove(sent)
    /\ toServer' = toServer \cup {Move(sent)}
    /\ UNCHANGED <<client, toClient, received, ran>>

\* Packets at and below the sequence number just taken are stale.
ClientReads(p) ==
    /\ cl' = CL_ParseServerMessage(cl, p)
    /\ toClient' = {q \in toClient : q.seq > p.seq}
    /\ UNCHANGED <<client, toServer, received, ran>>

\* The packet has the serverdata of a level the client did not know of.
ClientHears(p) ==
    /\ p.level > cl.level
    /\ cl' = CL_ClearState([cl EXCEPT !.incoming = p.seq], p.level)
    /\ toClient' = {q \in toClient : q.seq > p.seq}
    /\ UNCHANGED <<client, toServer, received, ran>>

ServerReads(p) ==
    /\ \E begins \in BOOLEAN :
          /\ begins => client.state = "connected" /\ p.level = client.level
          /\ SV_ExecuteClientMessage(p, begins)
    /\ toServer' = {q \in toServer : q.seq > p.seq}
    /\ UNCHANGED <<cl, toClient>>

\* SV_SendClientMessages answers, unless the channel is choked.  A message
\* that overflowed, or does not fit with the reliable one, is left out.
ServerAnswers ==
    LET filled == IF client.state = "spawned"
                  THEN SV_WriteEntitiesToClient(client) ELSE client
    IN
    /\ client.send_message
    /\ client' = Sent(filled)
    /\ \E update \in {NoUpdate} \cup
            (IF client.state = "spawned" THEN {SV_EmitPacketEntities(filled)}
                                         ELSE {}) :
          toClient' = toClient \cup {Packet(client, update)}
    /\ UNCHANGED <<cl, toServer, received, ran>>

ServerChokes ==
    /\ client.send_message
    /\ client' = [client EXCEPT !.send_message = FALSE]
    /\ UNCHANGED <<cl, toServer, toClient, received, ran>>

\* SV_Map_f; a server without a client sends all clients a packet unasked.
LevelChange ==
    LET moved == [client EXCEPT !.state = "connected", !.level = @ + 1]
    IN
    /\ client.level < MaxLevel
    /\ IF SERVERONLY
       THEN /\ client' = Sent(moved)
            /\ toClient' = toClient \cup {Packet(moved, NoUpdate)}
       ELSE client' = moved /\ UNCHANGED toClient
    /\ UNCHANGED <<cl, toServer, received, ran>>

Next ==
    \/ \E nodelta \in Nodelta : ClientFrame(nodelta)
    \/ \E p \in toClient : ClientReads(p) \/ ClientHears(p)
    \/ \E p \in toServer : ServerReads(p)
    \/ ServerAnswers
    \/ ServerChokes
    \/ LevelChange

Spec == Init /\ [][Next]_vars

-----------------------------------------------------------------------------
Sequence == 0..MaxSequence
Frame == [cmd : Sequence, delta_sequence : None..MaxSequence,
          entities : Torn..MaxSequence, playerstate : Torn..MaxSequence,
          invalid : BOOLEAN]
Update == [from : None..BYTE - 1, base : Sequence, entities : None..MaxSequence]
\* The server's numbers are those of the packets it answers, and one more for
\* each packet it sends unasked.
Client == [state : {"onserver", "active"}, level : 1..MaxLevel,
           outgoing : 1..MaxSequence + 1,
           incoming : 0..MaxSequence + MaxLevel - 1,
           validsequence : Sequence, delta_sequence : Sequence,
           frames : [Slots -> Frame]]

TypeOK ==
    /\ cl \in Client
    /\ client \in [state : {"connected", "spawned"}, level : 1..MaxLevel,
                   outgoing : 1..MaxSequence + MaxLevel, incoming : Sequence,
                   delta_sequence : None..BYTE - 1, send_message : BOOLEAN,
                   lastcmd : Sequence, frames : [Slots -> Sequence]]
    /\ toServer \subseteq [seq : 1..MaxSequence, level : 1..MaxLevel,
                           oldest : Sequence, oldcmd : Sequence,
                           newcmd : 1..MaxSequence, delta : None..BYTE - 1]
    /\ toClient \subseteq [seq : 1..MaxSequence + MaxLevel - 1, ack : Sequence,
                           level : 1..MaxLevel, player : Sequence,
                           update : Update]
    /\ received \subseteq 1..MaxSequence
    /\ ran \in Seq(Sequence)

\* The entities the client shows are the server's of that frame, through
\* any losses: every delta was put on the list it was made from.
Shown ==
    cl.validsequence # 0 =>
        cl.frames[Slot(cl.validsequence)].entities = cl.validsequence

\* Prediction goes on from what the server ran: the state it starts from
\* has every command up to that frame, and the commands replayed are those
\* after it, each once and in order.
Predicted ==
    Predicts(cl) => Replayed(cl, cl.outgoing - 1) = cl.outgoing - 1

\* A delta that answers a recent packet is from the frame that packet asked
\* for, so "from mismatch" (cl_ents.c:661) is never seen.
AsAsked ==
    \A p \in toClient :
        /\ p.update.from # None
        /\ cl.outgoing - p.seq < UPDATE_BACKUP - 1
        => Slot(cl.frames[Slot(p.seq)].delta_sequence) = Slot(p.update.from)

\* A move carries the two commands before it "so if the last packet was
\* dropped, it can be recovered".  What the server has run for command k is
\* k itself, once and in order, if its packet or one of the next two came;
\* else the last command again, and nothing if too many packets are missing.
\* Before the commands due since "begin" there are only earlier ones.
Before(k) == CHOOSE n \in received :
                 n < k /\ \A m \in received : m < k => m <= n
After(k) == CHOOSE n \in received :
                 n > k /\ \A m \in received : m > k => m >= n
Kept(k) == {k, k + 1, k + 2} \cap received # {}
Filled(k) == Kept(k) \/ After(k) - Before(k) <= DropLimit

RunsEach ==
    client.state = "spawned" =>
        LET first == CHOOSE n \in received : \A m \in received : n <= m
            due == {k \in first .. client.incoming : Filled(k)}
            earlier == Len(ran) - Cardinality(due)
            place(k) == earlier + Cardinality({j \in due : j <= k})
        IN /\ earlier >= 0 /\ \A i \in 1 .. earlier : ran[i] < first
           /\ \A k \in due :
                 ran[place(k)] = IF Kept(k) THEN k ELSE Before(k)
=============================================================================
