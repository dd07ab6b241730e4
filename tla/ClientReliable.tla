---------------------------- MODULE ClientReliable ----------------------------
(***************************************************************************)
(* The server's reliable stream to one client (sv_nchan.c, sv_send.c).     *)
(* Blocks are appended to netchan.message; when the next one might not fit *)
(* it goes to a queue of back buffers, and each server frame moves the     *)
(* first back buffer to netchan.message if there is room.  A packet to the *)
(* client carries netchan.message when the one before is acknowledged: the *)
(* channel itself is module NetChan, of which this one keeps whether a     *)
(* reliable message is in flight.                                          *)
(*                                                                         *)
(* The server is one thread.  It reads packets and runs commands and game  *)
(* code, which write blocks, in any order; SV_SendClientMessages ends its  *)
(* frame.  client_t is the record cl, and every function that changes it   *)
(* is an operator from a client to a client.  A block is one SZ_Write here *)
(* and several in the code: they all go to the same buffer, for only       *)
(* ClientReliableCheckBlock changes which one that is.                     *)
(***************************************************************************)
EXTENDS Integers, Sequences, SequencesExt

CONSTANTS
    Unit,           \* units of data (bytes)
    Blocks,         \* what is written through ClientReliableWrite_*
    Direct,         \* what the signon handlers write to netchan.message
    Disconnect,     \* svc_disconnect
    Stale,          \* a byte of a back buffer that was not written to it
    Slack,          \* by how much a writer overestimates its block
    MaxSize,        \* netchan.message.maxsize
    MaxBackBuffers, \* MAX_BACK_BUFFERS
    Handlers,       \* the signon handlers the client calls
    MaxWrites       \* bound: writes, commands and drops of a connection

ASSUME UnitAssumption == {Disconnect, Stale} \subseteq Unit
ASSUME BlockAssumption ==
    Blocks \subseteq Seq(Unit) \ {<<>>} /\ Direct \subseteq Seq(Unit) \ {<<>>}
\* Nothing is written that alone would fill a buffer.
ASSUME LengthAssumption ==
    /\ \A d \in Blocks : Len(d) < MaxSize
    /\ \A d \in Direct : Len(d) <= MaxSize
ASSUME SizeAssumption ==
    /\ MaxSize \in Nat \ {0}
    /\ MaxBackBuffers \in Nat \ {0}
    /\ Slack \subseteq Nat
    /\ MaxWrites \in Nat

VARIABLES
    cl,             \* the client_t
    sent,           \* history: everything put in reliable messages
    writes          \* bound: writes made

vars == <<cl, sent, writes>>

Buffer == 1 .. MaxBackBuffers

\* client_t.backbuf; its data is the number of the back buffer it points to.
SizeBuf == [data : Buffer, cursize : Nat,
            allowoverflow : BOOLEAN, overflowed : BOOLEAN]

Client ==
    [state : {"connected", "spawned", "zombie"},
     message : Seq(Unit), overflowed : BOOLEAN,
     num_backbuf : 0 .. MaxBackBuffers,
     backbuf_data : [Buffer -> Seq(Unit)], backbuf_size : [Buffer -> Nat],
     backbuf : SizeBuf,
     drop : BOOLEAN, send_message : BOOLEAN,
     unacked : BOOLEAN,         \* netchan.reliable_length is not 0
     halted : BOOLEAN]          \* Sys_Error

\* SVC_DirectConnect clears the client and sets its channel up.
Init ==
    /\ cl = [state |-> "connected", message |-> <<>>, overflowed |-> FALSE,
             num_backbuf |-> 0,
             backbuf_data |-> [i \in Buffer |-> <<>>],
             backbuf_size |-> [i \in Buffer |-> 0],
             backbuf |-> [data |-> 1, cursize |-> 0,
                          allowoverflow |-> FALSE, overflowed |-> FALSE],
             drop |-> FALSE, send_message |-> FALSE, unacked |-> FALSE,
             halted |-> FALSE]
    /\ sent = <<>>
    /\ writes = 0

-----------------------------------------------------------------------------
(* Buffers: SZ_Write and SZ_Clear.                                         *)

SZ_ClearMessage(c) == [c EXCEPT !.message = <<>>, !.overflowed = FALSE]

WriteMessage(c, d) ==
    CASE Len(d) > MaxSize -> [c EXCEPT !.halted = TRUE]
      [] Len(c.message) + Len(d) <= MaxSize -> [c EXCEPT !.message = @ \o d]
      [] OTHER -> [c EXCEPT !.message = d, !.overflowed = TRUE]

\* d is copied to offset at of the back buffer.
PutBackbuf(c, at, d) ==
    [c EXCEPT !.backbuf_data =
                 [c.backbuf_data EXCEPT
                    ![c.backbuf.data] = SubSeq(@, 1, at) \o d],
              !.backbuf = [c.backbuf EXCEPT !.cursize = at + Len(d)]]

WriteBackbuf(c, d) ==
    IF c.backbuf.cursize + Len(d) <= MaxSize
    THEN PutBackbuf(c, c.backbuf.cursize, d)
    ELSE IF ~c.backbuf.allowoverflow \/ Len(d) > MaxSize
    THEN [c EXCEPT !.halted = TRUE]
    ELSE PutBackbuf([c EXCEPT !.backbuf = [c.backbuf EXCEPT
                                              !.overflowed = TRUE]],
                    0, d)

\* What is read from back buffer i: what was written to it, and whatever is
\* behind that when its size says more.
Contents(c, i) ==
    [k \in 1 .. c.backbuf_size[i] |->
        IF k <= Len(c.backbuf_data[i]) THEN c.backbuf_data[i][k] ELSE Stale]

-----------------------------------------------------------------------------
(* sv_nchan.c.                                                             *)

\* backbuf is opened for the next back buffer.
NewBackbuf(c) ==
    LET n == c.num_backbuf + 1 IN
    [c EXCEPT !.num_backbuf = n,
              !.backbuf = [data |-> n, cursize |-> 0,
                           allowoverflow |-> TRUE, overflowed |-> FALSE],
              !.backbuf_data = [c.backbuf_data EXCEPT ![n] = <<>>],
              !.backbuf_size = [c.backbuf_size EXCEPT ![n] = 0]]

\* A block of at most maxsize might not fit behind cursize units.  Mutant: the
\* estimate is not looked at.
IsFull(cursize, maxsize) == cursize > MaxSize - 1
MightOverflow(cursize, maxsize) == cursize > MaxSize - maxsize - 1

ClientReliableCheckBlock(c, maxsize) ==
    IF IF c.num_backbuf = 0 THEN ~MightOverflow(Len(c.message), maxsize)
       ELSE ~MightOverflow(c.backbuf.cursize, maxsize)
    THEN c
    ELSE IF c.num_backbuf = MaxBackBuffers
    THEN [c EXCEPT !.backbuf = [c.backbuf EXCEPT !.cursize = 0],
                    !.overflowed = TRUE]
    ELSE NewBackbuf(c)

ClientReliable_FinishWrite(c) ==
    [c EXCEPT !.backbuf_size =
                 [c.backbuf_size EXCEPT ![c.num_backbuf] = c.backbuf.cursize],
              !.overflowed = @ \/ c.backbuf.overflowed]

\* Mutant: it looks for room in the message before it looks for back buffers.
WriteWhereRoom(c, d) ==
    IF c.num_backbuf > 0 /\ Len(c.message) + Len(d) > MaxSize
    THEN ClientReliable_FinishWrite(WriteBackbuf(c, d))
    ELSE WriteMessage(c, d)
ClientReliableWrite(c, d) ==
    IF c.num_backbuf > 0 THEN ClientReliable_FinishWrite(WriteBackbuf(c, d))
    ELSE WriteMessage(c, d)

\* A block, with what its writer adds to its length in the estimate.
WriteBlock(c, d, slack) ==
    ClientReliableWrite(ClientReliableCheckBlock(c, Len(d) + slack), d)

SV_ClearReliable(c) == [SZ_ClearMessage(c) EXCEPT !.num_backbuf = 0]

SV_DropClient(c) == [WriteMessage(c, <<Disconnect>>) EXCEPT !.state = "zombie"]

-----------------------------------------------------------------------------
(* SV_SendClientMessages, for this client.                                 *)

\* SV_UpdateToReliableMessages appends sv.reliable_datagram, empty or not.
Broadcast(c, d) == IF c.state = "zombie" THEN c ELSE WriteBlock(c, d, 0)

\* The first back buffer fits the message.  Mutant: one unit more is kept free.
FitsWithRoom(c) == Len(c.message) + c.backbuf_size[1] < MaxSize - 1
FitsMessage(c) == Len(c.message) + c.backbuf_size[1] < MaxSize

\* The back buffers after the first move down by one.
ShiftBackbufs(c) ==
    LET moved == 1 .. c.num_backbuf - 1 IN
    [c EXCEPT
        !.backbuf_data = [i \in Buffer |->
            IF i \in moved THEN Contents(c, i + 1) ELSE @[i]],
        !.backbuf_size = [i \in Buffer |->
            IF i \in moved THEN @[i + 1] ELSE @[i]],
        !.num_backbuf = @ - 1]

\* backbuf is the last back buffer there is; allowoverflow is not set again.
\* Mutant: it is written from its front.
ReopenEmpty(c) ==
    [c EXCEPT !.backbuf =
        [data |-> c.num_backbuf, cursize |-> 0,
         allowoverflow |-> FALSE, overflowed |-> FALSE]]
ReopenBackbuf(c) ==
    [c EXCEPT !.backbuf =
        [data |-> c.num_backbuf, cursize |-> c.backbuf_size[c.num_backbuf],
         allowoverflow |-> FALSE, overflowed |-> FALSE]]

MoveBackbuf(c) ==
    IF c.num_backbuf = 0 \/ ~FitsMessage(c) THEN c
    ELSE LET s == ShiftBackbufs(WriteMessage(c, Contents(c, 1))) IN
         IF s.num_backbuf = 0 THEN s ELSE ReopenBackbuf(s)

\* An overflow drops the client: SV_BroadcastPrintf writes to it too, if it
\* wants such prints, and send_message is set to have the disconnect go out.
DropOverflowed(c, notice) ==
    IF ~c.overflowed THEN c
    ELSE LET s == SZ_ClearMessage(c)
             n == IF c.state = "zombie" \/ notice = <<>> THEN s
                  ELSE WriteBlock(s, notice, 0)
         IN [SV_DropClient(n) EXCEPT !.send_message = TRUE]

\* SV_UpdateClientStats: deltas go to the reliable stream when it is free.
UpdateStats(c, d) ==
    IF d = <<>> \/ c.state # "spawned" \/ c.unacked THEN c
    ELSE WriteBlock(c, d, 0)

\* Netchan_Transmit takes the message if none is in flight.
Takes(c) == ~c.overflowed /\ ~c.unacked /\ c.message # <<>>
Transmit(c) ==
    IF Takes(c) THEN [c EXCEPT !.message = <<>>, !.unacked = TRUE] ELSE c

-----------------------------------------------------------------------------
(* The server's steps.                                                     *)

Optional == Blocks \cup {<<>>}

Spent(d) == IF d = <<>> THEN 0 ELSE 1
Counting(n) == writes' = writes + n /\ writes' <= MaxWrites

\* A command or the game code writes a block to the client; even a zombie's
\* command does, when SV_EndRedirect prints what it said.
Write ==
    /\ ~cl.halted
    /\ \E d \in Blocks, slack \in Slack :
          Counting(1) /\ cl' = WriteBlock(cl, d, slack)
    /\ UNCHANGED sent

\* Something is written to the message itself (Cmd_Begin_f for a saved game,
\* Cmd_New_f to ask for protocol extensions, SV_SuccessfulLogin).
WriteDirect ==
    /\ ~cl.halted
    /\ \E d \in Direct : Counting(1) /\ cl' = WriteMessage(cl, d)
    /\ UNCHANGED sent

\* Cmd_New_f, Cmd_Soundlist_f and Cmd_PreSpawn_f: anything in back buffers is
\* from before; it is cleared, and the message with it.
Signon ==
    /\ "signon" \in Handlers
    /\ ~cl.halted
    /\ cl.state # "spawned"
    /\ \E d \in Direct :
          /\ Counting(1)
          /\ cl' = WriteMessage(
                IF cl.num_backbuf > 0 THEN SV_ClearReliable(cl) ELSE cl, d)
    /\ UNCHANGED sent

\* A signon command for another level: SV_ClearReliable, then Cmd_New_f, which
\* writes nothing to a client that has to log in first.
LevelChanged ==
    /\ "signon" \in Handlers
    /\ ~cl.halted
    /\ cl.state # "spawned"
    /\ \E d \in Direct \cup {<<>>} :
          /\ Counting(1)
          /\ cl' = WriteMessage(SV_ClearReliable(cl), d)
    /\ UNCHANGED sent

\* Cmd_Soundlist_f and Cmd_Modellist_f asked for an entry there cannot be:
\* everything is cleared, the client is told so and dropped (two writes).
InvalidIndex ==
    /\ "signon" \in Handlers
    /\ ~cl.halted
    /\ cl.state = "connected"
    /\ \E d \in Blocks :
          /\ Counting(2)
          /\ cl' = SV_DropClient(WriteBlock(SV_ClearReliable(cl), d, 0))
    /\ UNCHANGED sent

\* Cmd_Modellist_f may write the list of weapon models first.  It does not
\* clear the number of back buffers: it sets it to 1.
Modellist ==
    /\ "modellist" \in Handlers
    /\ ~cl.halted
    /\ cl.state = "connected"
    /\ \E vwep \in Optional, d \in Direct :
       \E c \in {IF vwep = <<>> THEN cl ELSE WriteBlock(cl, vwep, 0)} :
          /\ Counting(1 + Spent(vwep))
          /\ cl' = WriteMessage(
                IF c.num_backbuf > 0
                THEN [SZ_ClearMessage(c) EXCEPT !.num_backbuf = 1]
                ELSE c, d)
    /\ UNCHANGED sent

\* Cmd_Spawn_f clears the message, but no back buffer, and writes the players.
Spawn ==
    /\ "spawn" \in Handlers
    /\ ~cl.halted
    /\ cl.state = "connected"
    /\ \E d \in Blocks, slack \in Slack :
          Counting(1) /\ cl' = WriteBlock(SZ_ClearMessage(cl), d, slack)
    /\ UNCHANGED sent

\* Cmd_Begin_f turns away only those who have begun already.
Begin ==
    /\ ~cl.halted
    /\ cl.state # "spawned"
    /\ cl' = [cl EXCEPT !.state = "spawned"]
    /\ UNCHANGED <<sent, writes>>

\* SV_SaveSpawnparms, before a new level: the client "needs to reconnect".
\* (SV_SendMessagesToAll, which comes first, is Reads(FALSE) and a frame.)
NewLevel ==
    /\ ~cl.halted
    /\ cl.state = "spawned"
    /\ cl' = [cl EXCEPT !.state = "connected"]
    /\ UNCHANGED <<sent, writes>>

\* The client is dropped for what its packet says: it asks for it (Cmd_Drop_f)
\* or cannot be understood, and that a zombie's packet may be as well.
Drop ==
    /\ ~cl.halted
    /\ Counting(1)
    /\ cl' = SV_DropClient(cl)
    /\ UNCHANGED sent

\* Something asks for it to be dropped at the end of the frame (Cmd_SetInfo_f,
\* for too many changes; game code, with a disconnect command).
AskDrop ==
    /\ ~cl.halted
    /\ ~cl.drop
    /\ Counting(1)
    /\ cl' = [cl EXCEPT !.drop = TRUE]
    /\ UNCHANGED sent

\* SV_ExecuteClientMessage; the packet may acknowledge the reliable message.
Reads(acked) ==
    /\ ~cl.halted
    /\ cl' = [cl EXCEPT !.send_message = TRUE, !.unacked = @ /\ ~acked]
    /\ UNCHANGED <<sent, writes>>
ReadPacket == \E acked \in BOOLEAN : Reads(acked)

\* The end of a frame for a client that is to be dropped,
FrameDrop ==
    /\ ~cl.halted
    /\ cl.drop
    /\ \E d \in Optional :
          /\ Counting(Spent(d))
          /\ cl' = [SV_DropClient(Broadcast(cl, d)) EXCEPT !.drop = FALSE]
    /\ UNCHANGED sent

\* for one not sent to: it sent nothing, or its bandwidth is choked, which it
\* is not after an overflow,
FrameSilent ==
    /\ ~cl.halted
    /\ ~cl.drop
    /\ \E d \in Optional : \E b \in {Broadcast(cl, d)} :
       \E moved \in {MoveBackbuf(b)} :
          /\ Counting(Spent(d))
          /\ ~moved.overflowed
          /\ cl' = [moved EXCEPT !.send_message = FALSE]
    /\ UNCHANGED sent

\* and for one that is sent a packet.
Sends(d, notice, stats) ==
    /\ ~cl.halted
    /\ ~cl.drop
    /\ Counting(Spent(d) + Spent(notice) + Spent(stats))
    /\ \E b \in {Broadcast(cl, d)} : \E moved \in {MoveBackbuf(b)} :
       \E c \in {DropOverflowed(moved, notice)} :
       \E u \in {UpdateStats([c EXCEPT !.send_message = FALSE], stats)} :
          /\ c.send_message
          /\ notice # <<>> => moved.overflowed
          /\ cl' = Transmit(u)
          /\ sent' = IF Takes(u) THEN sent \o u.message ELSE sent
FrameSend ==
    \E d \in Optional, notice \in Optional, stats \in Optional :
        Sends(d, notice, stats)

Next ==
    \/ Write
    \/ WriteDirect
    \/ Signon
    \/ LevelChanged
    \/ InvalidIndex
    \/ Modellist
    \/ Spawn
    \/ Begin
    \/ NewLevel
    \/ Drop
    \/ AskDrop
    \/ ReadPacket
    \/ FrameDrop
    \/ FrameSilent
    \/ FrameSend

Spec == Init /\ [][Next]_vars

\* A client keeps sending packets, which acknowledge what it was sent, and is
\* not choked for ever; there are frames in which nothing new is written to it,
\* for writes are bounded.
FairSpec ==
    /\ Spec
    /\ WF_vars(Reads(TRUE))
    /\ WF_vars(FrameDrop)
    /\ SF_vars(Sends(<<>>, <<>>, <<>>))
-----------------------------------------------------------------------------
(* Properties.                                                             *)

\* The back buffers and the one open for writing: backbuf is a copy that is
\* closed, moved and opened again at other places than backbuf_size,
\* backbuf_data and num_backbuf.  It never claims more than was written to the
\* buffer it points to.  No back buffer is full, so that the strict comparison
\* of SV_SendClientMessages (sv_send.c 1120) cannot keep one back for ever;
\* none overflows, though one that was opened again may not; and no write ends
\* the program.
ClientGood(c) ==
    /\ c \in Client
    /\ ~c.halted
    /\ Len(c.message) <= MaxSize
    /\ \A i \in 1 .. c.num_backbuf : c.backbuf_size[i] < MaxSize
    /\ ~c.backbuf.overflowed
    /\ c.backbuf.cursize < MaxSize
    /\ c.num_backbuf > 0 =>
          c.backbuf.cursize <= Len(c.backbuf_data[c.backbuf.data])
ClientOK == ClientGood(cl) /\ sent \in Seq(Unit)

\* m, and behind it the members of t in their order.
Joined(m, t) ==
    LET q[i \in 0 .. Len(t)] == IF i = 0 THEN m ELSE q[i - 1] \o t[i]
    IN  q[Len(t)]

\* What of s was not written to the message itself.
InOrder(u) == \A d \in Direct : \A k \in 1 .. Len(d) : d[k] # u
InBlocks(s) ==
    Joined(<<>>, [k \in 1 .. Len(s) |-> IF InOrder(s[k]) THEN <<s[k]>> ELSE <<>>])

\* The stream that was written through ClientReliableWrite_* and not cleared.
Queued(c) ==
    Joined(c.message, [i \in 1 .. c.num_backbuf |-> Contents(c, i)])
Stream(c, s) == InBlocks(s \o Queued(c))

\* To a client in the game, what was written stays written: a step only
\* appends to the stream made of what was sent, the message and the back
\* buffers in their order.  Moving, shifting and reopening them loses no byte
\* and lets no block overtake another (sv_nchan.c 27-71, sv_send.c 1117-1148).
\* It is not claimed where backbuf is not the last back buffer, which only a
\* modellist command can bring about.
LastOpen(c) == c.num_backbuf > 0 => c.backbuf.data = c.num_backbuf
NothingLost ==
    [][(cl.state = "spawned" /\ cl'.state = "spawned"
        /\ ~cl'.overflowed /\ LastOpen(cl))
          => IsPrefix(Stream(cl, sent), Stream(cl', sent'))]_vars

\* Back buffers drain: a client that acknowledges gets what is in them, unless
\* it is dropped (sv_send.c 1116-1148).
Drained ==
    cl.num_backbuf > 0 ~> cl.num_backbuf = 0 \/ cl.state = "zombie"

\* sv_user.c 591-596 says of a modellist command that finds back buffers
\* "Back buffered, clearing", as its siblings do: nothing of a buffer that was
\* cleared, or of what was in its memory before, is sent afterwards.
NothingStale == \A k \in 1 .. Len(sent) : sent[k] # Stale

\* sv_main.c 407 says of a client made a zombie that it will "become free in a
\* few seconds": SV_DropClient is for a player who is "totally leaving".
DropIsFinal == [][cl.state = "zombie" => cl'.state = "zombie"]_vars
=============================================================================
