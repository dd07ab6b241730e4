-------------------------------- MODULE Signon --------------------------------
(***************************************************************************)
(* How a connected client enters a level: the signon commands, the files   *)
(* it has to download first, and levels that change in the middle of it.   *)
(*                                                                         *)
(* Server: sv_user.c (Cmd_New_f ... Cmd_Begin_f, Cmd_Download_f), sv_init.c *)
(* (SV_SpawnServer), sv_ccmds.c (SV_Map).  Client: cl_parse.c, cl_cmd.c     *)
(* (CL_Changing_f), cl_main.c (CL_Reconnect_f), skin.c.  Both directions    *)
(* are the reliable streams of NetChan: what is sent arrives once and in    *)
(* order.  A client that a level change makes connect anew gets its         *)
(* connection as in Connect.                                                *)
(***************************************************************************)
EXTENDS Naturals, Sequences

CONSTANTS
    File,           \* models; a level's first one is its map
    None,           \* no file
    Bad,            \* the checksum of a map that is not the server's
    Models,         \* Models[l]: sv.model_precache of level l
    Blocks,         \* blocks a file is sent in
    SERVERONLY,     \* the server is built without a client
    MaxLevel,       \* bound: levels played
    MaxUser         \* bound: downloads the user asks for or stops

ASSUME SignonAssumption ==
    /\ None # Bad /\ {None, Bad} \cap File = {}
    /\ SERVERONLY \in BOOLEAN
    /\ MaxLevel \in Nat \ {0} /\ Blocks \in Nat \ {0} /\ MaxUser \in Nat
    /\ Models \in [1..MaxLevel -> Seq(File) \ {<<>>}]

VARIABLES
    spawncount,     \* svs.spawncount
    broadcast,      \* sv.reliable_datagram: "reconnect" is to be sent to all
    sv_client,      \* the client's slot
    flight,         \* the server's reliable message under way
    parsing,        \* the client has read a part of it
    cls,            \* the client's cls and cl, and its disk
    user            \* commands of the user so far

vars == <<spawncount, broadcast, sv_client, flight, parsing, cls, user>>

Level == 1..MaxLevel
NoModels == <<>>
Whole(f) == [i \in 1..Blocks |-> <<f, i>>]

\* The client has a connection (cls.netchan).
Linked(c) == c.state \notin {"disconnected", "halted"}

\* SVC_DirectConnect: the slot of a new connection.
NewSlot == [state |-> "connected", spawncount |-> 0, message |-> <<>>,
            download |-> None, count |-> 0]

\* S2C_CONNECTION: the client of a new connection.  Its cl is wiped with the next
\* serverdata (CL_ClearState), and not read before.
Connected(c) ==
    [c EXCEPT !.state = "connected", !.connecting = FALSE, !.servercount = 0,
              !.sounds = 0, !.models = NoModels, !.precache = None,
              !.message = <<[cmd |-> "new"]>>, !.sent = 0]

Init ==
    /\ spawncount = 1 /\ broadcast = FALSE
    /\ sv_client = NewSlot
    /\ flight = <<>> /\ parsing = FALSE
    /\ \E present \in SUBSET File :
          cls = Connected(
                [state |-> "disconnected", connecting |-> TRUE,
                 servercount |-> 0, sounds |-> 0,
                 models |-> NoModels, precache |-> None,
                 type |-> "none", number |-> 0, method |-> "none",
                 name |-> None, download |-> None,
                 tmp |-> [f \in File |-> <<>>],
                 disk |-> [f \in File |-> IF f \in present THEN Whole(f)
                                                           ELSE <<>>],
                 message |-> <<>>, sent |-> 0, cbuf |-> <<>>,
                 waiting |-> 0, overlap |-> FALSE, crossed |-> FALSE,
                 stopped |-> FALSE])
    /\ user = 0

-----------------------------------------------------------------------------
(* The server.  An operator on s, the client's slot, returns what becomes of
   it; items are written to its message. *)

Write(s, item) == [s EXCEPT !.message = Append(@, item)]
ClearReliable(s) == [s EXCEPT !.message = <<>>]
DropClient(s) == [Write(s, [svc |-> "disconnect"]) EXCEPT
                    !.state = "zombie", !.download = None]

\* Cmd_New_f
New(s) ==
    IF s.state = "spawned" THEN s
    ELSE Write([s EXCEPT !.spawncount = spawncount],
               [svc |-> "serverdata", level |-> spawncount])

\* "handle the case of a level changing while a client was connecting".  Mutant:
\* it is not.
NotChecked(s, level, next) == next
Checked(s, level, next) ==
    IF level = spawncount THEN next ELSE New(ClearReliable(s))

\* Cmd_Soundlist_f, Cmd_Modellist_f: the client is not in the game.
Soundlist(s, c) ==
    IF s.state # "connected" THEN s
    ELSE Checked(s, c.level,
           Write(s, [svc |-> "soundlist", level |-> spawncount]))

\* One model in a message: the client asks for the next, until a 0 says that it
\* has them all.  Mutant: the last one is not sent.
EndsEarly(n) == n + 2 >= Len(Models[spawncount])
IsLast(n) == n + 1 = Len(Models[spawncount])
Modellist(s, c) ==
    IF s.state # "connected" THEN s
    ELSE Checked(s, c.level,
           Write(s, [svc |-> "modellist", level |-> spawncount, n |-> c.n,
                     model |-> Models[spawncount][c.n + 1],
                     next |-> IF IsLast(c.n) THEN 0 ELSE c.n + 1]))

\* Cmd_PreSpawn_f: the client's map must be the server's.  Mutant: any map will
\* do.
AnyMap(check) == FALSE
MapDiffers(check) == check # Models[spawncount][1]
PreSpawn(s, c) ==
    IF s.state # "connected" THEN s
    ELSE Checked(s, c.level,
           IF MapDiffers(c.check) THEN DropClient(s)
           ELSE Write(s, [svc |-> "spawn", level |-> spawncount]))

\* Cmd_Spawn_f: what was not sent yet is cleared.
Spawn(s, c) ==
    IF s.state # "connected" THEN s
    ELSE Checked(s, c.level, Write(ClearReliable(s), [svc |-> "skins"]))

\* Cmd_Begin_f.  Mutant: the level is not compared.
AlwaysBegins(s, c) ==
    IF s.state = "spawned" THEN s ELSE [s EXCEPT !.state = "spawned"]
Begin(s, c) ==
    IF s.state = "spawned" THEN s
    ELSE Checked(s, c.level, [s EXCEPT !.state = "spawned"])

\* SV_CompleteDownoload: a client that missed the change of level is told.
\* Mutant: it is not.
Completes(s) == [s EXCEPT !.download = None]
CompleteDownload(s) ==
    LET done == [s EXCEPT !.download = None]
    IN  IF s.spawncount # spawncount THEN Write(done, [svc |-> "changing"])
                                     ELSE done

\* Cmd_NextDownload_f.  100 percent is said of the last block only.  Mutant:
\* the percentage is rounded up.
MostSent(count) == count * 2 >= Blocks
AllSent(count) == count = Blocks
NextDownload(s) ==
    LET block == Write([s EXCEPT !.count = @ + 1],
                       [svc |-> "download", block |-> <<s.download, s.count + 1>>,
                        done |-> AllSent(s.count + 1)])
    IN  IF s.download = None THEN s
        ELSE IF block.count = Blocks THEN CompleteDownload(block) ELSE block

\* Cmd_Download_f: a download under way is given up.
Download(s, c) == NextDownload([s EXCEPT !.download = c.file, !.count = 0])

\* Cmd_StopDownload_f: an empty block that is the last.
StopDownload(s) ==
    IF s.download = None THEN s
    ELSE Write([s EXCEPT !.download = None],
               [svc |-> "download", block |-> <<None, 0>>, done |-> TRUE])

Executed(s, c) ==
    CASE c.cmd = "new" -> New(s)
      [] c.cmd = "soundlist" -> Soundlist(s, c)
      [] c.cmd = "modellist" -> Modellist(s, c)
      [] c.cmd = "prespawn" -> PreSpawn(s, c)
      [] c.cmd = "spawn" -> Spawn(s, c)
      [] c.cmd = "begin" -> Begin(s, c)
      [] c.cmd = "download" -> Download(s, c)
      [] c.cmd = "nextdl" -> NextDownload(s)
      [] c.cmd = "stopdl" -> StopDownload(s)
      [] c.cmd = "drop" -> [s EXCEPT !.state = "zombie", !.download = None]

\* SV_ExecuteUserCommand
ExecuteUserCommand ==
    /\ cls.sent > 0
    /\ sv_client' = Executed(sv_client, Head(cls.message))
    /\ cls' = [cls EXCEPT !.message = Tail(@), !.sent = @ - 1]
    /\ UNCHANGED <<spawncount, broadcast, flight, parsing, user>>

\* Netchan_Transmit: one reliable message at a time.
Transmit ==
    /\ flight = <<>> /\ cls.cbuf = <<>> /\ Linked(cls)
    /\ sv_client.message # <<>> /\ ~broadcast
    /\ flight' = sv_client.message
    /\ sv_client' = ClearReliable(sv_client)
    /\ UNCHANGED <<spawncount, broadcast, parsing, cls, user>>

\* SV_BroadcastCommand and SV_UpdateToReliableMessages
Broadcast(s, svc) == IF s.state = "zombie" THEN s ELSE Write(s, [svc |-> svc])

\* SV_Map: SV_SaveSpawnparms, SV_SpawnServer, and the broadcast.  A server without
\* a client sends it at once (SV_SendMessagesToAll), and "changing" before it.
Map ==
    /\ spawncount < MaxLevel
    /\ spawncount' = spawncount + 1
    /\ LET s == [sv_client EXCEPT !.state = IF @ = "spawned" THEN "connected"
                                                            ELSE @]
       IN  /\ sv_client' = IF SERVERONLY THEN Broadcast(s, "changing") ELSE s
           /\ broadcast' = ~SERVERONLY
    /\ UNCHANGED <<flight, parsing, cls, user>>

\* SV_UpdateToReliableMessages, at the end of the frame.
UpdateToReliableMessages ==
    /\ broadcast
    /\ broadcast' = FALSE
    /\ sv_client' = Broadcast(sv_client, "reconnect")
    /\ UNCHANGED <<spawncount, flight, parsing, cls, user>>

-----------------------------------------------------------------------------
(* The client.  An operator on c, its state, returns what becomes of it;
   commands are added to its reliable message. *)

Send(c, command) == [c EXCEPT !.message = Append(@, command)]
Sent(c) == SubSeq(c.message, 1, c.sent)

\* The end of a download.  Mutant: the file stays open.
StaysOpen(c) == [c EXCEPT !.method = "none"]
Closed(c) == [c EXCEPT !.download = None, !.method = "none"]

\* CL_Disconnect (Host_Error, Host_EndGame, svc_disconnect): an unfinished file
\* is removed.  Commands under way may arrive before the drop, and what was not
\* sent goes with it if nothing is.  Text the server stuffed stays in cbuf_svc.
Disconnect(c) ==
    LET last == Append(IF c.sent = 0 THEN c.message ELSE Sent(c),
                       [cmd |-> "drop"])
        d == [Closed(c) EXCEPT !.state = "disconnected", !.connecting = FALSE,
                               !.message = last, !.sent = Len(last),
                               !.waiting = 0]
    IN  IF c.download # None THEN [d EXCEPT !.tmp[c.name] = <<>>]
        ELSE [d EXCEPT !.type = "none", !.number = 0]

\* Without a connection cls.netchan is zero, and a write to it ends the program
\* (SZ_GetSpace).
Halted(c) == [c EXCEPT !.state = "halted"]

\* CL_CheckOrDownloadFile, CL_Download_f
Request(c, f) ==
    Send([c EXCEPT !.name = f, !.method = "QW", !.number = @ + 1,
                   !.waiting = @ + 1, !.overlap = @ \/ c.waiting > 0],
         [cmd |-> "download", file |-> f])

\* CL_Prespawn
Prespawn(c) ==
    IF c.precache = None THEN Disconnect(c)
    ELSE Send(c, [cmd |-> "prespawn", level |-> c.servercount,
                  check |-> c.precache])

\* Model_NextDownload: the first model on the list that is missing is asked for;
\* then all are loaded, the map with its checksum, and prespawn is sent.
ModelNextDownload(c) ==
    LET missing == {i \in DOMAIN c.models :
                       i >= c.number /\ c.disk[c.models[i]] = <<>>}
        first == CHOOSE i \in missing : \A j \in missing : i <= j
        map == c.models[1]
    IN
    IF missing # {}
    THEN Request([c EXCEPT !.type = "model", !.number = first], c.models[first])
    ELSE IF \E i \in DOMAIN c.models : c.disk[c.models[i]] = <<>>
    THEN Disconnect(c)
    ELSE Prespawn([c EXCEPT !.type = "vwep_model",
                     !.precache = IF c.models = NoModels THEN @
                                  ELSE IF c.disk[map] = Whole(map) THEN map
                                                                   ELSE Bad])

\* Skin_NextDownload: the skins are there.
SkinNextDownload(c) ==
    LET d == [c EXCEPT !.type = "none"]
    IN  IF c.state = "onserver"
        THEN Send(d, [cmd |-> "begin", level |-> c.servercount]) ELSE d

\* CL_RequestNextDownload
RequestNextDownload(c) ==
    CASE c.type = "model" -> ModelNextDownload(c)
      [] c.type = "vwep_model" -> Prespawn(c)
      [] OTHER -> c

\* CL_FinishDownload: the temporary file gets its name, if there is one.
FinishDownload(c) ==
    LET renamed == IF c.tmp[c.name] = <<>> THEN c
                   ELSE [c EXCEPT !.disk[c.name] = c.tmp[c.name],
                                  !.tmp[c.name] = <<>>]
    IN  RequestNextDownload([Closed(renamed) EXCEPT
                               !.waiting = IF @ = 0 THEN 0 ELSE @ - 1])

\* CL_ParseDownload: the temporary file is opened with the first block.
ParseDownload(c, m) ==
    LET opened == IF c.download = None
                  THEN [c EXCEPT !.download = c.name, !.tmp[c.name] = <<>>]
                  ELSE c
        written == IF m.block[1] = None THEN opened
                   ELSE [opened EXCEPT !.tmp[opened.download] =
                                         Append(@, m.block)]
    IN  IF c.method # "QW" THEN Disconnect(c)
        ELSE IF m.done THEN FinishDownload(written)
        ELSE Send(written, [cmd |-> "nextdl"])

\* A file was asked for, and its first block is not there yet.
Awaits(c) == c.waiting > 0 /\ c.download = None

\* CL_ParseServerData, CL_ClearState: commands that were not sent are lost.
ParseServerData(c, m) ==
    IF ~Linked(c) THEN Halted(c)
    ELSE Send([c EXCEPT !.message = Sent(c), !.servercount = m.level, !.sounds = 0,
                        !.models = NoModels, !.precache = None,
                        !.state = "onserver", !.crossed = @ \/ Awaits(c)],
              [cmd |-> "soundlist", level |-> m.level])

\* CL_ParseSoundlist
ParseSoundlist(c, m) ==
    Send([c EXCEPT !.sounds = m.level, !.precache = None],
         [cmd |-> "modellist", level |-> c.servercount, n |-> 0])

\* CL_ParseModellist
ParseModellist(c, m) ==
    LET d == [c EXCEPT
                !.models = [i \in 1..(IF m.n + 1 > Len(@) THEN m.n + 1
                                                         ELSE Len(@)) |->
                              IF i = m.n + 1 THEN m.model ELSE @[i]]]
    IN  IF m.next # 0
        THEN Send(d, [cmd |-> "modellist", level |-> c.servercount,
                      n |-> m.next])
        ELSE ModelNextDownload([d EXCEPT !.number = 1])

\* CL_Reconnect_f.  A client that knows the level changes asks for the new one;
\* else it gives up its connection and begins another (CL_BeginServerConnect).
\* "Don't change when downloading."
Change(c) ==
    IF ~Linked(c) THEN Halted(c)
    ELSE Send([c EXCEPT !.state = "connected", !.crossed = @ \/ Awaits(c)],
              [cmd |-> "new"])
Reconnect(c) ==
    IF c.download # None THEN c
    ELSE IF c.state = "connected" THEN Change(c)
    ELSE [Disconnect(c) EXCEPT !.connecting = TRUE]

\* "changing\nreconnect": CL_Changing_f, then CL_Reconnect_f.
Changing(c) ==
    IF c.download # None
    THEN [c EXCEPT !.state = IF @ = "active" THEN "connected" ELSE @]
    ELSE Change(c)

\* CL_ParseServerMessage: what the server stuffs is executed later.
Text == {"changing", "reconnect", "spawn", "skins"}
Parsed(c, m) ==
    CASE m.svc \in Text -> [c EXCEPT !.cbuf = Append(@, m)]
      [] m.svc = "serverdata" -> ParseServerData(c, m)
      [] m.svc = "soundlist" -> ParseSoundlist(c, m)
      [] m.svc = "modellist" -> ParseModellist(c, m)
      [] m.svc = "download" -> ParseDownload(c, m)
      [] m.svc = "disconnect" -> Disconnect(c)

\* Stuffed text waits for the end of the frame, or for the next serverdata.
FlushText ==
    /\ cls.cbuf # <<>> /\ cls.state # "halted"
    /\ flight # <<>> => Head(flight).svc = "serverdata"

\* One item of the reliable message.  An error gives up the rest (Host_Abort).
ParseServerMessage ==
    /\ flight # <<>> /\ ~FlushText /\ cls.state # "halted"
    /\ cls' = Parsed(cls, Head(flight))
    /\ flight' = IF Linked(cls') THEN Tail(flight) ELSE <<>>
    /\ parsing' = (flight' # <<>>)
    /\ UNCHANGED <<spawncount, broadcast, sv_client, user>>

\* Cbuf_ExecuteEx(&cbuf_svc).  Without a connection no command is forwarded
\* (CL_ForwardToServer_f).
Stuffed(c, m) ==
    CASE m.svc = "changing" -> Changing(c)
      [] m.svc = "reconnect" -> Reconnect(c)
      [] m.svc = "spawn" ->
            IF Linked(c) THEN Send(c, [cmd |-> "spawn", level |-> m.level])
                         ELSE c
      [] m.svc = "skins" -> SkinNextDownload([c EXCEPT !.number = 1])
ExecuteText ==
    /\ FlushText
    /\ cls' = Stuffed([cls EXCEPT !.cbuf = Tail(@)], Head(cls.cbuf))
    /\ UNCHANGED <<spawncount, broadcast, sv_client, flight, parsing, user>>

\* CL_SendCmd, at the end of the frame: one reliable message at a time.
SendCmd ==
    /\ cls.sent = 0 /\ cls.message # <<>>
    /\ Linked(cls) /\ ~parsing /\ cls.cbuf = <<>>
    /\ cls' = [cls EXCEPT !.sent = Len(cls.message)]
    /\ UNCHANGED <<spawncount, broadcast, sv_client, flight, parsing, user>>

\* The new connection.  Connect has the packets of it: a client that asks gets it,
\* and its slot is made anew (CheckReConnect, SVC_DirectConnect).
ConnectAnew ==
    /\ cls.connecting /\ cls.state = "disconnected"
    /\ cls.cbuf = <<>> /\ flight = <<>>
    /\ sv_client' = NewSlot
    /\ cls' = Connected(cls)
    /\ UNCHANGED <<spawncount, broadcast, flight, parsing, user>>

\* CL_MakeActive: the first entities arrive, which only a spawned client is sent.
MakeActive ==
    /\ cls.state = "onserver" /\ sv_client.state = "spawned"
    /\ cls' = [cls EXCEPT !.state = "active"]
    /\ UNCHANGED <<spawncount, broadcast, sv_client, flight, parsing, user>>

\* CL_Download_f: the user asks for a file that is missing.
UserDownload(f) ==
    /\ user < MaxUser
    /\ user' = user + 1
    /\ Linked(cls) /\ cls.disk[f] = <<>>
    /\ cls' = [Request(cls, f) EXCEPT !.type = "single", !.number = cls.number,
                                    !.overlap = @ \/ cls.state # "active"]
    /\ UNCHANGED <<spawncount, broadcast, sv_client, flight, parsing>>

\* The user has "cmd stopdl" sent.
UserStop ==
    /\ user < MaxUser
    /\ user' = user + 1
    /\ Linked(cls) /\ cls.waiting > 0
    /\ cls' = [Send(cls, [cmd |-> "stopdl"]) EXCEPT !.stopped = TRUE]
    /\ UNCHANGED <<spawncount, broadcast, sv_client, flight, parsing>>

Next ==
    \/ ExecuteUserCommand \/ Transmit \/ Map \/ UpdateToReliableMessages
    \/ ParseServerMessage \/ ExecuteText \/ MakeActive \/ SendCmd
    \/ ConnectAnew \/ UserStop
    \/ \E f \in File : UserDownload(f)

\* Both programs run every frame, and a client that connects gets its connection
\* (Settles of Connect); levels change and users act when they like.
Spec ==
    /\ Init /\ [][Next]_vars
    /\ WF_vars(ExecuteUserCommand) /\ WF_vars(Transmit)
    /\ WF_vars(UpdateToReliableMessages)
    /\ WF_vars(ParseServerMessage) /\ WF_vars(ExecuteText)
    /\ WF_vars(MakeActive) /\ WF_vars(SendCmd) /\ WF_vars(ConnectAnew)

-----------------------------------------------------------------------------
\* A file got in the way: one was asked for before the last was there, or by the
\* user in the middle of a signon (overlap); a level's data came between the
\* request for a file and its first block, when cls.download does not tell that
\* there is one (crossed); the user stopped a file (stopped).
Upset == cls.overlap \/ cls.crossed \/ cls.stopped

InGame ==
    /\ cls.state = "active" /\ sv_client.state = "spawned"
    /\ cls.servercount = spawncount

\* The variables have their types, and an open file has a download method.
Command ==
    [cmd : {"new", "nextdl", "stopdl", "drop"}]
      \cup [cmd : {"soundlist", "spawn", "begin"}, level : Level]
      \cup [cmd : {"modellist"}, level : Level, n : Nat]
      \cup [cmd : {"prespawn"}, level : Level, check : File \cup {Bad}]
      \cup [cmd : {"download"}, file : File]
Block == (File \X (1..Blocks)) \cup {<<None, 0>>}
Item ==
    [svc : {"changing", "reconnect", "skins", "disconnect"}]
      \cup [svc : {"serverdata", "soundlist", "spawn"}, level : Level]
      \cup [svc : {"modellist"}, level : Level, n : Nat, model : File, next : Nat]
      \cup [svc : {"download"}, block : Block, done : BOOLEAN]
TypeOK ==
    /\ spawncount \in Level /\ broadcast \in BOOLEAN
    /\ sv_client \in
          [state : {"connected", "spawned", "zombie"}, spawncount : Level \cup {0},
           message : Seq(Item), download : File \cup {None}, count : 0..Blocks]
    /\ flight \in Seq(Item) /\ parsing \in BOOLEAN
    /\ cls \in
          [state : {"disconnected", "connected", "onserver", "active", "halted"},
           connecting : BOOLEAN, servercount : Level \cup {0}, sounds : Level \cup {0},
           models : Seq(File), precache : File \cup {None, Bad},
           type : {"none", "single", "model", "vwep_model"}, number : Nat,
           method : {"none", "QW"}, name : File \cup {None},
           download : File \cup {None},
           tmp : [File -> Seq(Block)], disk : [File -> Seq(Block)],
           message : Seq(Command), sent : Nat, cbuf : Seq(Item), waiting : Nat,
           overlap : BOOLEAN, crossed : BOOLEAN, stopped : BOOLEAN]
    /\ cls.download # None => cls.method = "QW"
    /\ cls.sent <= Len(cls.message)
    /\ user \in 0..MaxUser

\* Whatever files do and however often the level changes, a client that has begun
\* is on the server's level (Cmd_Begin_f).
OnLevel == sv_client.state = "spawned" => cls.servercount = spawncount

\* It holds this level's lists and no part of another's, however its signon was
\* restarted, and has loaded the server's map (Cmd_PreSpawn_f).
HasLevel ==
    sv_client.state = "spawned" =>
        /\ cls.sounds = spawncount
        /\ \A i \in DOMAIN cls.models : cls.models[i] = Models[spawncount][i]
        /\ cls.precache = Models[spawncount][1]

\* It holds all of the models, unless a file got in the way: one that is there in
\* the middle of a long list ends the list early (Model_NextDownload).
ListsWhole ==
    sv_client.state = "spawned" => Upset \/ cls.models = Models[spawncount]

\* "Only rename to the real name when done" (cl_parse.c 512): a file under its
\* real name has all of its blocks, each once and in order.
NoRunt == \A f \in File : cls.disk[f] \in {<<>>, Whole(f)}

\* That holds, whenever levels change, unless a file got in the way of another.
FilesWhole == Upset \/ NoRunt

\* A client that a level change makes leave its connection is about to begin
\* another: it is never left without one by an error, or for a map that is not
\* the server's, because the level changed while it downloads (CL_Reconnect_f).
StaysConnected == cls.state = "disconnected" => Upset \/ cls.connecting

\* When levels no longer change, the client is in the end in the game for good,
\* on its connection or on another one.
Enters ==
    <>[](\/ InGame
         \/ cls.state = "halted"
         \/ Upset /\ cls.state = "disconnected"
         \/ Upset /\ user > 0)
=============================================================================
