--------------------------- MODULE SignonFilesProof ---------------------------
(***************************************************************************)
(* What Signon promises when no file got in the way of another (~Upset),   *)
(* for all levels, lists of models, files, numbers of blocks and levels    *)
(* played: a file under its real name is whole (FilesWhole), a client that *)
(* has begun has all the models (ListsWhole), and it leaves its connection *)
(* only to begin another one (StaysConnected), whenever the level changes. *)
(*                                                                         *)
(* The argument.  SignonProof says what the commands and answers on their  *)
(* way tell; here it is in which order they are on their way, and how many.*)
(*   - The signon on a level is a row of stages: the sounds, its models    *)
(*     one by one, spawn, skins, begin.  There may be several chains at    *)
(*     the same time, but what is on its way never goes back and never     *)
(*     leaves a stage out (Turn): so a model on the list is not followed   *)
(*     by one before it, a list is not ended when it has begun again, and  *)
(*     a client in the game has the last stages at most on its way (Late). *)
(*   - Either no file is asked for (Idle), or one is (Fetches): its block, *)
(*     or the command for it, is alone on its way, the blocks the client   *)
(*     has are those the slot has sent (AskOK, BlockOK), none of the       *)
(*     signon is behind it (Quiet), and it is the model of the list that   *)
(*     is the first to be missing, or one the user asked for in the game   *)
(*     (Purpose).  So files are closed only with their last block, and the *)
(*     list is loaded when all its models are there.                       *)
(*   - Then a checksum is the map's (DiskWhole), and nothing makes the     *)
(*     server or the client end the connection (NoDrop) but a "reconnect"  *)
(*     that finds no file open: what is left of the old connection changes *)
(*     nothing on the disk (Left), and on the new one all of this holds as *)
(*     at the start (FreshCalm).                                           *)
(* That a file got in the way is not forgotten (Marks).                    *)
(*                                                                         *)
(* Calm is the invariant, of a client, a slot and a queue: there is a      *)
(* lemma for each operator of Signon that it is kept or a file got in the  *)
(* way.                                                                    *)
(***************************************************************************)
EXTENDS SignonProof

-----------------------------------------------------------------------------
(* When no file got in the way *)

\* The stages of the signon on level l, in order: the sounds, its models one by
\* one, spawn, skins, begin.  An answer has the stage of its command, and one that
\* is of no stage has 0.
Listed(l) == IF l \in Level THEN Len(Models[l]) ELSE 0
ItemStage(l, x) ==
    CASE x.svc = "soundlist" -> 1
      [] x.svc = "modellist" -> x.n + 2
      [] x.svc = "spawn" -> Listed(l) + 2
      [] x.svc = "skins" -> Listed(l) + 3
      [] OTHER -> 0
CommandStage(l, y) ==
    IF ~(y.cmd \in Leveled /\ y.level = l) THEN 0
    ELSE CASE y.cmd = "soundlist" -> 1
           [] y.cmd = "modellist" -> y.n + 2
           [] y.cmd = "prespawn" -> Listed(l) + 2
           [] y.cmd = "spawn" -> Listed(l) + 3
           [] y.cmd = "begin" -> Listed(l) + 4

\* What is on its way, in the order in which it is read: the text b, the items q,
\* the commands m.  Chains are in turn when what is behind is of the same stage or
\* one further.
Follows(j, k) == j # 0 /\ k # 0 => j <= k /\ k <= j + 1
Stages(l, b, q, m) ==
    {ItemStage(l, b[i]) : i \in DOMAIN b} \cup {ItemStage(l, q[i]) : i \in DOMAIN q}
      \cup {CommandStage(l, m[i]) : i \in DOMAIN m}
Turn(l, b, q, m) ==
    /\ \A i, j \in DOMAIN b : i < j => Follows(ItemStage(l, b[i]), ItemStage(l, b[j]))
    /\ \A i \in DOMAIN b, j \in DOMAIN q :
          Follows(ItemStage(l, b[i]), ItemStage(l, q[j]))
    /\ \A i \in DOMAIN b, j \in DOMAIN m :
          Follows(ItemStage(l, b[i]), CommandStage(l, m[j]))
    /\ \A i, j \in DOMAIN q : i < j => Follows(ItemStage(l, q[i]), ItemStage(l, q[j]))
    /\ \A i \in DOMAIN q, j \in DOMAIN m :
          Follows(ItemStage(l, q[i]), CommandStage(l, m[j]))
    /\ \A i, j \in DOMAIN m :
          i < j => Follows(CommandStage(l, m[i]), CommandStage(l, m[j]))
StagesOf(c, q) == Stages(c.servercount, c.cbuf, q, c.message)
TurnOf(c, q) == Turn(c.servercount, c.cbuf, q, c.message)
\* The last stages, of which a client in the game has the rest.
From(k, S) == \A j \in S : j = 0 \/ j >= k

\* What is on the disk is whole, and a client that has loaded its map has all the
\* models, which it loads with it.
DiskWhole(c) ==
    /\ \A f \in File : c.disk[f] \in {<<>>, Whole(f)}
    /\ c.precache # Bad
    /\ Loaded(c) => /\ Len(c.models) = Listed(c.servercount)
                    /\ \A i \in DOMAIN c.models : c.disk[c.models[i]] # <<>>
    /\ \A i \in DOMAIN c.message :
          c.message[i].cmd = "prespawn"
          => c.message[i].check = Models[c.message[i].level][1]

Late(c, s, q) ==
    /\ c.state = "active" => Loaded(c)
    /\ c.state = "active" \/ s.state = "spawned"
       => From(Listed(c.servercount) + 3, StagesOf(c, q))

NoDrop(c, q) ==
    /\ Linked(c)
    /\ \A i \in DOMAIN q : q[i].svc # "disconnect"
    /\ \A i \in DOMAIN c.message : c.message[i].cmd \notin {"drop", "stopdl"}

Ready(c, s, q) == TurnOf(c, q) /\ DiskWhole(c) /\ Late(c, s, q) /\ NoDrop(c, q)

\* No file is asked for, or one is: its block, or the command for it, is alone on
\* the way, and none of the signon is behind it.
IsBlock(y) == y.cmd \in {"download", "nextdl"}
Idle(c, q) ==
    /\ c.waiting = 0 /\ c.method = "none" /\ c.download = None
    /\ \A i \in DOMAIN c.message : ~IsBlock(c.message[i])
    /\ \A i \in DOMAIN q : q[i].svc # "download"

Part(f, k) == [i \in 1..k |-> <<f, i>>]
Alone(c, q) ==
    /\ \A i, j \in DOMAIN c.message :
          IsBlock(c.message[i]) /\ IsBlock(c.message[j]) => i = j
    /\ \A i, j \in DOMAIN q : q[i].svc = "download" /\ q[j].svc = "download" => i = j
    /\ \A i \in DOMAIN c.message, j \in DOMAIN q :
          ~(IsBlock(c.message[i]) /\ q[j].svc = "download")
AskOK(c, s, y) ==
    /\ y.cmd = "download" => y.file = c.name /\ c.download = None
    /\ y.cmd = "nextdl" =>
          /\ c.download # None
          /\ s.download # None =>
                s.download = c.name /\ c.tmp[c.name] = Part(c.name, s.count)
BlockOK(c, s, x) ==
    x.svc = "download" =>
        /\ x.block = <<c.name, s.count>> /\ s.count \in 1..Blocks
        /\ x.done <=> s.count = Blocks
        /\ ~x.done /\ s.download # None => s.download = c.name
        /\ IF c.download = None THEN s.count = 1
           ELSE c.tmp[c.name] = Part(c.name, s.count - 1)

IsSignon(y) == y.cmd = "new" \/ y.cmd \in Leveled
Signal(x) == x.svc = "serverdata" \/ x.svc \in Answer
Quiet(c, q) ==
    /\ \A i, j \in DOMAIN c.message :
          i < j /\ c.message[i].cmd = "download" => ~IsSignon(c.message[j])
    /\ \A i, j \in DOMAIN q : i < j /\ q[i].svc = "download" => ~Signal(q[j])
    /\ c.download # None \/ (\E i \in DOMAIN q : q[i].svc = "download")
       => \A j \in DOMAIN c.message : ~IsSignon(c.message[j])
    /\ c.download # None => \A j \in DOMAIN q : ~Signal(q[j])
\* The file is a model of the level, and those before it are there, or one that
\* the user asked for in the game.
Purpose(c, q) ==
    /\ c.type = "model" =>
          /\ c.number - 1 \in DOMAIN c.models /\ c.name = c.models[c.number - 1]
          /\ Len(c.models) = Listed(c.servercount)
          /\ \A i \in DOMAIN c.models :
                i < c.number - 1 => c.disk[c.models[i]] # <<>>
          /\ From(Listed(c.servercount) + 1, StagesOf(c, q))
    /\ c.type # "model" =>
          /\ c.type \in {"single", "none"} /\ c.state \in {"active", "connected"}
          /\ From(Listed(c.servercount) + 3, StagesOf(c, q))
Fetches(c, s, q) ==
    /\ c.waiting = 1 /\ c.method = "QW" /\ c.download \in {None, c.name}
    /\ Alone(c, q)
    /\ \A i \in DOMAIN c.message : AskOK(c, s, c.message[i])
    /\ \A i \in DOMAIN q : BlockOK(c, s, q[i])
    /\ Quiet(c, q) /\ Purpose(c, q)

Calm(c, s, q) == Ready(c, s, q) /\ (Idle(c, q) \/ Fetches(c, s, q))
UpsetOf(c) == c.overlap \/ c.crossed \/ c.stopped
\* A client without a connection has no file open, and is about to begin another
\* connection; of the old one it can only read another level's data.
Left(c) ==
    /\ ~Linked(c) /\ DiskWhole(c)
    /\ c.state = "disconnected" => c.connecting
    /\ c.waiting = 0 /\ c.method = "none" /\ c.download = None
CalmInv ==
    \/ Upset \/ Calm(cls, sv_client, Queue)
    \/ Left(cls) /\ (flight # <<>> => Head(flight).svc = "serverdata")

-----------------------------------------------------------------------------
(* Stages *)

LEMMA StageIs ==
    ASSUME NEW l
    PROVE  /\ Listed(l) \in Nat
           /\ l \in Level => Listed(l) = Len(Models[l]) /\ Listed(l) >= 1
           /\ \A x \in Item : ItemStage(l, x) \in Nat
           /\ \A y \in Command : CommandStage(l, y) \in Nat
<1>1. /\ Listed(l) \in Nat
      /\ l \in Level => Listed(l) = Len(Models[l]) /\ Listed(l) >= 1
  BY LevelIs DEF Listed
<1>2. ASSUME NEW x \in Item PROVE ItemStage(l, x) \in Nat
  <2>1. x.svc = "modellist" => x.n \in Nat
    BY ItemIs
  <2>2. QED BY <1>1, <2>1 DEF ItemStage
<1>3. ASSUME NEW y \in Command PROVE CommandStage(l, y) \in Nat
  <2>1. y.cmd = "modellist" => y.n \in Nat
    BY CommandIs
  <2>2. y.cmd \in Leveled => y.cmd \in {"soundlist", "modellist", "prespawn", "spawn",
                                        "begin"}
    BY DEF Leveled
  <2>3. QED BY <1>1, <2>1, <2>2 DEF CommandStage
<1>4. QED BY <1>1, <1>2, <1>3

\* What is left of the text, the items and the commands is in turn.
LEMMA TurnSub ==
    ASSUME NEW l, NEW b, NEW q, NEW m, Turn(l, b, q, m),
           NEW e, NEW p, NEW o, Sub(e, b), Sub(p, q), Sub(o, m)
    PROVE  Turn(l, e, p, o) /\ Stages(l, e, p, o) \subseteq Stages(l, b, q, m)
<1>1. PICK f \in [DOMAIN e -> DOMAIN b] :
        /\ \A i \in DOMAIN e : e[i] = b[f[i]]
        /\ \A i, j \in DOMAIN e : i < j => f[i] < f[j]
  BY DEF Sub
<1>2. PICK g \in [DOMAIN p -> DOMAIN q] :
        /\ \A i \in DOMAIN p : p[i] = q[g[i]]
        /\ \A i, j \in DOMAIN p : i < j => g[i] < g[j]
  BY DEF Sub
<1>3. PICK h \in [DOMAIN o -> DOMAIN m] :
        /\ \A i \in DOMAIN o : o[i] = m[h[i]]
        /\ \A i, j \in DOMAIN o : i < j => h[i] < h[j]
  BY DEF Sub
<1>4. /\ \A i \in DOMAIN e : f[i] \in DOMAIN b
      /\ \A i \in DOMAIN p : g[i] \in DOMAIN q
      /\ \A i \in DOMAIN o : h[i] \in DOMAIN m
  OBVIOUS
<1>5. Turn(l, e, p, o)
  <2>1. \A i, j \in DOMAIN e : i < j => Follows(ItemStage(l, e[i]), ItemStage(l, e[j]))
    BY <1>1, <1>4 DEF Turn
  <2>2. \A i \in DOMAIN e, j \in DOMAIN p :
           Follows(ItemStage(l, e[i]), ItemStage(l, p[j]))
    BY <1>1, <1>2, <1>4 DEF Turn
  <2>3. \A i \in DOMAIN e, j \in DOMAIN o :
           Follows(ItemStage(l, e[i]), CommandStage(l, o[j]))
    BY <1>1, <1>3, <1>4 DEF Turn
  <2>4. \A i, j \in DOMAIN p : i < j => Follows(ItemStage(l, p[i]), ItemStage(l, p[j]))
    BY <1>2, <1>4 DEF Turn
  <2>5. \A i \in DOMAIN p, j \in DOMAIN o :
           Follows(ItemStage(l, p[i]), CommandStage(l, o[j]))
    BY <1>2, <1>3, <1>4 DEF Turn
  <2>6. \A i, j \in DOMAIN o :
           i < j => Follows(CommandStage(l, o[i]), CommandStage(l, o[j]))
    BY <1>3, <1>4 DEF Turn
  <2>7. QED BY <2>1, <2>2, <2>3, <2>4, <2>5, <2>6 DEF Turn
<1>6. ASSUME NEW k \in Stages(l, e, p, o) PROVE k \in Stages(l, b, q, m)
  <2>1. CASE \E i \in DOMAIN e : k = ItemStage(l, e[i])
    BY <1>1, <1>4, <2>1 DEF Stages
  <2>2. CASE \E i \in DOMAIN p : k = ItemStage(l, p[i])
    BY <1>2, <1>4, <2>2 DEF Stages
  <2>3. CASE \E i \in DOMAIN o : k = CommandStage(l, o[i])
    BY <1>3, <1>4, <2>3 DEF Stages
  <2>4. QED BY <2>1, <2>2, <2>3 DEF Stages
<1>7. QED BY <1>5, <1>6

\* The stages are those of the elements.
LEMMA StagesAre ==
    ASSUME NEW l, NEW b, NEW q, NEW m
    PROVE  /\ \A i \in DOMAIN b : ItemStage(l, b[i]) \in Stages(l, b, q, m)
           /\ \A i \in DOMAIN q : ItemStage(l, q[i]) \in Stages(l, b, q, m)
           /\ \A i \in DOMAIN m : CommandStage(l, m[i]) \in Stages(l, b, q, m)
BY DEF Stages

\* A command of which all is followed is sent.
LEMMA TurnSend ==
    ASSUME NEW l, NEW b, NEW q, NEW m \in Seq(Command), Turn(l, b, q, m),
           NEW y \in Command,
           \A k \in Stages(l, b, q, m) : Follows(k, CommandStage(l, y))
    PROVE  /\ Turn(l, b, q, Append(m, y))
           /\ Stages(l, b, q, Append(m, y))
                 \subseteq Stages(l, b, q, m) \cup {CommandStage(l, y)}
<1>1. PICK o : o = Append(m, y)
  OBVIOUS
<1>2. PICK k \in DOMAIN o :
        /\ o[k] = y
        /\ \A i \in DOMAIN o : (i \in DOMAIN m /\ i < k /\ o[i] = m[i]) \/ i = k
  BY <1>1, AppendIs
<1>3. o \in Seq(Command) /\ k \in Int /\ \A i \in DOMAIN o : i \in Int
  <2>1. o \in Seq(Command)
    BY <1>1, AppendIs
  <2>2. QED BY <1>2, <2>1
<1>4. Turn(l, b, q, o)
  <2>1. \A i \in DOMAIN b, j \in DOMAIN o :
           Follows(ItemStage(l, b[i]), CommandStage(l, o[j]))
    BY <1>2, StagesAre DEF Turn
  <2>2. \A i \in DOMAIN q, j \in DOMAIN o :
           Follows(ItemStage(l, q[i]), CommandStage(l, o[j]))
    BY <1>2, StagesAre DEF Turn
  <2>3. ASSUME NEW i \in DOMAIN o, NEW j \in DOMAIN o, i < j
        PROVE  Follows(CommandStage(l, o[i]), CommandStage(l, o[j]))
    <3>1. i \in DOMAIN m /\ o[i] = m[i]
      <4>1. i \in Int /\ j \in Int /\ (j < k \/ j = k)
        BY <1>2, <1>3
      <4>2. i # k
        BY <1>3, <2>3, <4>1
      <4>3. QED BY <1>2, <4>2
    <3>2. CASE j = k
      BY <1>2, <3>1, <3>2, StagesAre
    <3>3. CASE j # k
      BY <1>2, <2>3, <3>1, <3>3 DEF Turn
    <3>4. QED BY <3>2, <3>3
  <2>4. QED BY <2>1, <2>2, <2>3 DEF Turn
<1>5. ASSUME NEW t \in Stages(l, b, q, o)
      PROVE  t \in Stages(l, b, q, m) \cup {CommandStage(l, y)}
  <2>1. CASE \E i \in DOMAIN o : t = CommandStage(l, o[i])
    BY <1>2, <2>1 DEF Stages
  <2>2. QED BY <2>1 DEF Stages
<1>6. QED BY <1>1, <1>4, <1>5

\* An item is written that answers the command at the head, or is of no stage.
LEMMA TurnWrite ==
    ASSUME NEW l, NEW b, NEW q \in Seq(Item), NEW m, Turn(l, b, q, m),
           NEW x \in Item,
           \A k \in Stages(l, b, q, <<>>) : Follows(k, ItemStage(l, x)),
           \A i \in DOMAIN m : Follows(ItemStage(l, x), CommandStage(l, m[i]))
    PROVE  /\ Turn(l, b, Append(q, x), m)
           /\ Stages(l, b, Append(q, x), m)
                 \subseteq Stages(l, b, q, m) \cup {ItemStage(l, x)}
<1>1. PICK o : o = Append(q, x)
  OBVIOUS
<1>2. PICK k \in DOMAIN o :
        /\ o[k] = x
        /\ \A i \in DOMAIN o : (i \in DOMAIN q /\ i < k /\ o[i] = q[i]) \/ i = k
  BY <1>1, AppendIs
<1>3. o \in Seq(Item) /\ k \in Int /\ \A i \in DOMAIN o : i \in Int
  <2>1. o \in Seq(Item)
    BY <1>1, AppendIs
  <2>2. QED BY <1>2, <2>1
<1>4. Turn(l, b, o, m)
  <2>1. \A i \in DOMAIN b, j \in DOMAIN o :
           Follows(ItemStage(l, b[i]), ItemStage(l, o[j]))
    BY <1>2, StagesAre DEF Turn
  <2>2. \A i \in DOMAIN o, j \in DOMAIN m :
           Follows(ItemStage(l, o[i]), CommandStage(l, m[j]))
    BY <1>2 DEF Turn
  <2>3. ASSUME NEW i \in DOMAIN o, NEW j \in DOMAIN o, i < j
        PROVE  Follows(ItemStage(l, o[i]), ItemStage(l, o[j]))
    <3>1. i \in DOMAIN q /\ o[i] = q[i]
      <4>1. i \in Int /\ j \in Int /\ (j < k \/ j = k)
        BY <1>2, <1>3
      <4>2. i # k
        BY <1>3, <2>3, <4>1
      <4>3. QED BY <1>2, <4>2
    <3>2. CASE j = k
      BY <1>2, <3>1, <3>2, StagesAre
    <3>3. CASE j # k
      BY <1>2, <2>3, <3>1, <3>3 DEF Turn
    <3>4. QED BY <3>2, <3>3
  <2>4. QED BY <2>1, <2>2, <2>3 DEF Turn
<1>5. ASSUME NEW t \in Stages(l, b, o, m)
      PROVE  t \in Stages(l, b, q, m) \cup {ItemStage(l, x)}
  <2>1. CASE \E i \in DOMAIN o : t = ItemStage(l, o[i])
    BY <1>2, <2>1 DEF Stages
  <2>2. QED BY <2>1 DEF Stages
<1>6. QED BY <1>1, <1>4, <1>5

LEMMA TurnPlain ==
    ASSUME NEW l, NEW b, NEW q \in Seq(Item), NEW m, Turn(l, b, q, m),
           NEW x \in Item, ItemStage(l, x) = 0
    PROVE  /\ Turn(l, b, Append(q, x), m)
           /\ Stages(l, b, Append(q, x), m) \subseteq Stages(l, b, q, m) \cup {0}
BY TurnWrite DEF Follows

\* The command at the head is answered.
LEMMA TurnAnswer ==
    ASSUME NEW l, NEW b \in Seq(Item), NEW q, NEW m \in Seq(Command),
           Turn(l, b, q, m), m # <<>>,
           NEW p \in Seq(Item), Sub(p, q),
           NEW x \in Item, ItemStage(l, x) = CommandStage(l, Head(m))
    PROVE  /\ Turn(l, b, Append(p, x), Tail(m))
           /\ Stages(l, b, Append(p, x), Tail(m)) \subseteq Stages(l, b, q, m)
<1>1. PICK o : o = Tail(m)
  OBVIOUS
<1>2. /\ o \in Seq(Command) /\ Sub(o, m) /\ 1 \in DOMAIN m /\ Head(m) = m[1]
      /\ \A i \in DOMAIN o : i + 1 \in DOMAIN m /\ 1 < i + 1 /\ o[i] = m[i + 1]
  BY <1>1, TailIs
<1>3. Sub(b, b)
  BY AllIs
<1>4. Turn(l, b, p, o) /\ Stages(l, b, p, o) \subseteq Stages(l, b, q, m)
  BY <1>2, <1>3, TurnSub
<1>5. Turn(l, b, p, m)
  <2>1. Sub(m, m)
    BY AllIs
  <2>2. QED BY <1>3, <2>1, TurnSub
<1>6. \A k \in Stages(l, b, p, <<>>) : Follows(k, ItemStage(l, x))
  BY <1>2, <1>5 DEF Stages, Turn
<1>7. \A i \in DOMAIN o : Follows(ItemStage(l, x), CommandStage(l, o[i]))
  BY <1>2 DEF Turn
<1>8. /\ Turn(l, b, Append(p, x), o)
      /\ Stages(l, b, Append(p, x), o) \subseteq Stages(l, b, p, o) \cup {ItemStage(l, x)}
  BY <1>4, <1>6, <1>7, TurnWrite
<1>9. ItemStage(l, x) \in Stages(l, b, q, m)
  BY <1>2, StagesAre
<1>10. QED BY <1>1, <1>4, <1>8, <1>9

\* Text at the head of the items is stuffed: it stays in front of what it was in
\* front of.
LEMMA TurnText ==
    ASSUME NEW l, NEW b \in Seq(Item), NEW q \in Seq(Item), NEW m,
           Turn(l, b, q, m), q # <<>>
    PROVE  /\ Turn(l, Append(b, Head(q)), Tail(q), m)
           /\ Stages(l, Append(b, Head(q)), Tail(q), m) \subseteq Stages(l, b, q, m)
<1>1. PICK x : x = Head(q)
  OBVIOUS
<1>2. PICK p : p = Tail(q)
  OBVIOUS
<1>3. /\ p \in Seq(Item) /\ x \in Item /\ 1 \in DOMAIN q /\ x = q[1]
      /\ \A i \in DOMAIN p : /\ i + 1 \in DOMAIN q /\ 1 < i + 1 /\ p[i] = q[i + 1]
                             /\ i \in Int
  <2>1. /\ p \in Seq(Item) /\ x \in Item /\ 1 \in DOMAIN q /\ x = q[1]
        /\ \A i \in DOMAIN p : i + 1 \in DOMAIN q /\ 1 < i + 1 /\ p[i] = q[i + 1]
    BY <1>1, <1>2, TailIs
  <2>2. QED BY <2>1
<1>4. PICK e : e = Append(b, x)
  OBVIOUS
<1>5. PICK k \in DOMAIN e :
        /\ e[k] = x
        /\ \A i \in DOMAIN e : (i \in DOMAIN b /\ i < k /\ e[i] = b[i]) \/ i = k
  <2>1. x \in Item
    BY <1>3
  <2>2. QED BY <1>4, <2>1, AppendIs
<1>6. e \in Seq(Item) /\ k \in Int /\ \A i \in DOMAIN e : i \in Int
  <2>1. e \in Seq(Item)
    BY <1>3, <1>4, AppendIs
  <2>2. QED BY <1>5, <2>1
<1>7. Turn(l, e, p, m)
  <2>1. ASSUME NEW i \in DOMAIN e, NEW j \in DOMAIN e, i < j
        PROVE  Follows(ItemStage(l, e[i]), ItemStage(l, e[j]))
    <3>1. i \in DOMAIN b /\ e[i] = b[i]
      <4>1. i \in Int /\ j \in Int /\ (j < k \/ j = k)
        BY <1>5, <1>6
      <4>2. i # k
        BY <1>6, <2>1, <4>1
      <4>3. QED BY <1>5, <4>2
    <3>2. CASE j = k
      BY <1>3, <1>5, <3>1, <3>2 DEF Turn
    <3>3. CASE j # k
      BY <1>5, <2>1, <3>1, <3>3 DEF Turn
    <3>4. QED BY <3>2, <3>3
  <2>2. ASSUME NEW i \in DOMAIN e, NEW j \in DOMAIN p
        PROVE  Follows(ItemStage(l, e[i]), ItemStage(l, p[j]))
    <3>1. CASE e[i] = x
      BY <1>3, <3>1 DEF Turn
    <3>2. CASE i \in DOMAIN b /\ e[i] = b[i]
      BY <1>3, <3>2 DEF Turn
    <3>3. QED BY <1>5, <3>1, <3>2
  <2>3. ASSUME NEW i \in DOMAIN e, NEW j \in DOMAIN m
        PROVE  Follows(ItemStage(l, e[i]), CommandStage(l, m[j]))
    <3>1. CASE e[i] = x
      BY <1>3, <3>1 DEF Turn
    <3>2. CASE i \in DOMAIN b /\ e[i] = b[i]
      BY <3>2 DEF Turn
    <3>3. QED BY <1>5, <3>1, <3>2
  <2>4. \A i, j \in DOMAIN p : i < j => Follows(ItemStage(l, p[i]), ItemStage(l, p[j]))
    <3>1. \A i, j \in DOMAIN p : i < j => i + 1 < j + 1
      BY <1>3
    <3>2. QED BY <1>3, <3>1 DEF Turn
  <2>5. \A i \in DOMAIN p, j \in DOMAIN m :
           Follows(ItemStage(l, p[i]), CommandStage(l, m[j]))
    BY <1>3 DEF Turn
  <2>6. \A i, j \in DOMAIN m :
           i < j => Follows(CommandStage(l, m[i]), CommandStage(l, m[j]))
    BY DEF Turn
  <2>7. QED BY <2>1, <2>2, <2>3, <2>4, <2>5, <2>6 DEF Turn
<1>8. ASSUME NEW t \in Stages(l, e, p, m) PROVE t \in Stages(l, b, q, m)
  <2>1. CASE \E i \in DOMAIN e : t = ItemStage(l, e[i])
    BY <1>3, <1>5, <2>1 DEF Stages
  <2>2. CASE \E i \in DOMAIN p : t = ItemStage(l, p[i])
    BY <1>3, <2>2 DEF Stages
  <2>3. CASE \E i \in DOMAIN m : t = CommandStage(l, m[i])
    BY <2>3 DEF Stages
  <2>4. QED BY <2>1, <2>2, <2>3 DEF Stages
<1>9. QED BY <1>1, <1>2, <1>4, <1>7, <1>8

\* What is behind an item that is read, and what is behind text that is executed.
LEMMA TurnHead ==
    ASSUME NEW l, NEW b, NEW q \in Seq(Item), NEW m, Turn(l, b, q, m), q # <<>>,
           \A i \in DOMAIN b : ItemStage(l, b[i]) = 0
    PROVE  \A k \in Stages(l, b, Tail(q), m) : Follows(ItemStage(l, Head(q)), k)
<1>1. /\ 1 \in DOMAIN q /\ Head(q) = q[1]
      /\ \A i \in DOMAIN Tail(q) : /\ i + 1 \in DOMAIN q /\ 1 < i + 1
                                   /\ Tail(q)[i] = q[i + 1]
  BY TailIs
<1>2. \A i \in DOMAIN b : Follows(ItemStage(l, Head(q)), ItemStage(l, b[i]))
  BY DEF Follows
<1>3. \A i \in DOMAIN Tail(q) : Follows(ItemStage(l, Head(q)), ItemStage(l, Tail(q)[i]))
  BY <1>1 DEF Turn
<1>4. \A i \in DOMAIN m : Follows(ItemStage(l, Head(q)), CommandStage(l, m[i]))
  BY <1>1 DEF Turn
<1>5. QED BY <1>2, <1>3, <1>4 DEF Stages

LEMMA TurnFirst ==
    ASSUME NEW l, NEW b \in Seq(Item), NEW q, NEW m, Turn(l, b, q, m), b # <<>>
    PROVE  \A k \in Stages(l, Tail(b), q, m) : Follows(ItemStage(l, Head(b)), k)
<1>1. /\ 1 \in DOMAIN b /\ Head(b) = b[1]
      /\ \A i \in DOMAIN Tail(b) : /\ i + 1 \in DOMAIN b /\ 1 < i + 1
                                   /\ Tail(b)[i] = b[i + 1]
  BY TailIs
<1>2. \A i \in DOMAIN Tail(b) : Follows(ItemStage(l, Head(b)), ItemStage(l, Tail(b)[i]))
  BY <1>1 DEF Turn
<1>3. \A i \in DOMAIN q : Follows(ItemStage(l, Head(b)), ItemStage(l, q[i]))
  BY <1>1 DEF Turn
<1>4. \A i \in DOMAIN m : Follows(ItemStage(l, Head(b)), CommandStage(l, m[i]))
  BY <1>1 DEF Turn
<1>5. QED BY <1>2, <1>3, <1>4 DEF Stages

\* When all that is left follows stage t, a command of the next stage is in turn.
LEMMA FollowsNext ==
    ASSUME NEW S \in SUBSET Nat, NEW t \in Nat \ {0}, \A k \in S : Follows(t, k)
    PROVE  /\ \A k \in S : Follows(k, t + 1)
           /\ From(t, S \cup {t + 1})
BY DEF Follows, From

LEMMA StagesNat ==
    ASSUME NEW l, NEW b \in Seq(Item), NEW q \in Seq(Item), NEW m \in Seq(Command)
    PROVE  Stages(l, b, q, m) \in SUBSET Nat
<1>1. /\ \A i \in DOMAIN b : b[i] \in Item
      /\ \A i \in DOMAIN q : q[i] \in Item
      /\ \A i \in DOMAIN m : m[i] \in Command
  OBVIOUS
<1>2. QED BY <1>1, StageIs DEF Stages

\* Before its map is loaded nothing is on its way for a client that comes after it.
LEMMA UnloadedIs ==
    ASSUME NEW c, NEW s, NEW n, NEW q, Good(c, s, n, q), DiskWhole(c), ~Loaded(c)
    PROVE  \A k \in StagesOf(c, q) : k <= Listed(c.servercount) + 1
<1>1. PICK l : l = c.servercount
  OBVIOUS
<1>2. /\ c.cbuf \in Seq(Item) /\ q \in Seq(Item) /\ c.message \in Seq(Command)
      /\ Listed(l) \in Nat
  BY StageIs DEF Good, ClientRecord, ItemsOK
<1>3. ASSUME NEW i \in DOMAIN c.cbuf PROVE ItemStage(l, c.cbuf[i]) <= Listed(l) + 1
  <2>1. c.cbuf[i].svc \in Text /\ c.cbuf[i].svc \notin {"spawn", "skins"}
    BY DEF Good, TextOK
  <2>2. ItemStage(l, c.cbuf[i]) = 0
    BY <2>1 DEF ItemStage, Text
  <2>3. QED BY <1>2, <2>2
<1>4. ASSUME NEW i \in DOMAIN q PROVE ItemStage(l, q[i]) <= Listed(l) + 1
  <2>1. PICK x : x = q[i]
    OBVIOUS
  <2>2. x \in Item /\ ItemOK(c, s, n, x)
    BY <1>2, <2>1 DEF Good, ItemsOK
  <2>3. x.svc \notin {"spawn", "skins"}
    BY <2>2 DEF ItemOK
  <2>4. CASE x.svc = "modellist"
    <3>1. x.n \in Nat /\ x.level = l /\ x.n < Len(Models[x.level]) /\ x.level \in Level
      BY <1>1, <2>2, <2>4, ItemIs DEF ItemOK, Reply, Tells
    <3>2. x.n + 2 <= Listed(l) + 1
      <4>1. Listed(l) = Len(Models[l])
        BY <3>1, StageIs
      <4>2. QED BY <1>2, <3>1, <4>1
    <3>3. QED BY <2>1, <2>4, <3>2 DEF ItemStage
  <2>5. CASE x.svc = "soundlist"
    <3>1. ItemStage(l, x) = 1
      BY <2>5 DEF ItemStage
    <3>2. QED BY <1>2, <2>1, <3>1
  <2>6. CASE x.svc \notin {"modellist", "soundlist"}
    <3>1. ItemStage(l, x) = 0
      BY <2>3, <2>6 DEF ItemStage
    <3>2. QED BY <1>2, <2>1, <3>1
  <2>7. QED BY <2>4, <2>5, <2>6
<1>5. ASSUME NEW i \in DOMAIN c.message
      PROVE  CommandStage(l, c.message[i]) <= Listed(l) + 1
  <2>1. PICK y : y = c.message[i]
    OBVIOUS
  <2>2. y \in Command /\ CommandOK(c, y)
    BY <1>2, <2>1 DEF Good, CommandsOK
  <2>3. CASE ~(y.cmd \in Leveled /\ y.level = l)
    <3>1. CommandStage(l, y) = 0
      BY <2>3 DEF CommandStage
    <3>2. QED BY <1>2, <2>1, <3>1
  <2>4. CASE y.cmd \in Leveled /\ y.level = l
    <3>1. y.level \in Level /\ (y.cmd = "modellist" => y.n \in Nat)
      BY <2>2, <2>4, CommandIs
    <3>2. y.cmd \notin {"spawn", "begin"}
      BY <1>1, <2>2, <2>4 DEF CommandOK
    <3>3. y.cmd # "prespawn"
      <4>1. ASSUME y.cmd = "prespawn" PROVE FALSE
        <5>1. y.check = Models[l][1]
          BY <2>1, <2>4, <4>1 DEF DiskWhole
        <5>2. Models[l][1] \in File
          BY <2>4, <3>1, LevelIs
        <5>3. y.check # Bad
          BY <5>1, <5>2, LevelIs
        <5>4. QED BY <1>1, <2>2, <2>4, <4>1, <5>3 DEF CommandOK
      <4>2. QED BY <4>1
    <3>4. CASE y.cmd = "modellist"
      <4>1. y.n < Len(Models[l])
        BY <2>2, <2>4, <3>4 DEF CommandOK
      <4>2. y.n + 2 <= Listed(l) + 1
        BY <1>2, <2>4, <3>1, <3>4, <4>1, StageIs
      <4>3. QED BY <2>1, <2>4, <3>4, <4>2 DEF CommandStage
    <3>5. CASE y.cmd = "soundlist"
      <4>1. CommandStage(l, y) = 1
        BY <2>4, <3>5 DEF CommandStage
      <4>2. QED BY <1>2, <2>1, <4>1
    <3>6. QED BY <2>4, <3>2, <3>3, <3>4, <3>5 DEF Leveled
  <2>5. QED BY <2>3, <2>4
<1>6. QED BY <1>1, <1>3, <1>4, <1>5 DEF StagesOf, Stages

-----------------------------------------------------------------------------
(* What keeps the calm, whoever does it *)

LEMMA FromSub ==
    ASSUME NEW k \in Nat, NEW S, NEW R, From(k, S), R \subseteq S \cup {0}
    PROVE  From(k, R)
BY DEF From

\* The client and the slot change in what Ready does not tell, or the client leaves
\* the game.
LEMMA SameReady ==
    ASSUME NEW c, NEW s, NEW q, Ready(c, s, q), NEW d, NEW r,
           d.servercount = c.servercount, d.models = c.models,
           d.precache = c.precache, d.disk = c.disk, d.message = c.message,
           d.cbuf = c.cbuf, Linked(d),
           d.state = "active" => c.state = "active",
           r.state = "spawned" => s.state = "spawned"
    PROVE  Ready(d, r, q) /\ StagesOf(d, q) = StagesOf(c, q)
<1>1. StagesOf(d, q) = StagesOf(c, q) /\ TurnOf(d, q)
  BY DEF Ready, StagesOf, TurnOf
<1>2. DiskWhole(d) /\ (Loaded(d) <=> Loaded(c))
  BY DEF Ready, DiskWhole, Loaded
<1>3. Late(d, r, q)
  BY <1>1, <1>2 DEF Ready, Late
<1>4. NoDrop(d, q)
  BY DEF Ready, NoDrop
<1>5. QED BY <1>1, <1>2, <1>3, <1>4 DEF Ready

\* What Calm tells of the slot.
LEMMA SlotCalm ==
    ASSUME NEW c, NEW s, NEW q, Calm(c, s, q), NEW r,
           r.state = "spawned" => s.state = "spawned",
           Fetches(c, s, q) => r.download = s.download /\ r.count = s.count
    PROVE  Calm(c, r, q)
<1>1. Ready(c, r, q)
  BY DEF Calm, Ready, Late
<1>2. ASSUME Fetches(c, s, q) PROVE Fetches(c, r, q)
  <2>1. \A y : AskOK(c, s, y) => AskOK(c, r, y)
    BY <1>2 DEF AskOK
  <2>2. \A x : BlockOK(c, s, x) => BlockOK(c, r, x)
    BY <1>2 DEF BlockOK
  <2>3. QED BY <1>2, <2>1, <2>2 DEF Fetches
<1>3. QED BY <1>1, <1>2 DEF Calm

\* Of the items and the commands something is taken away.
LEMMA SubReady ==
    ASSUME NEW c \in ClientRecord, NEW s, NEW q, Ready(c, s, q),
           NEW p, Sub(p, q), NEW m \in Seq(Command), Sub(m, c.message),
           NEW d, d = [c EXCEPT !.message = m]
    PROVE  /\ Ready(d, s, p) /\ StagesOf(d, p) \subseteq StagesOf(c, q)
<1>1. /\ d.servercount = c.servercount /\ d.models = c.models
      /\ d.precache = c.precache /\ d.disk = c.disk /\ d.message = m
      /\ d.cbuf = c.cbuf /\ d.state = c.state /\ c.cbuf \in Seq(Item)
  BY DEF ClientRecord
<1>2. PICK f \in [DOMAIN p -> DOMAIN q] : \A i \in DOMAIN p : p[i] = q[f[i]]
  BY DEF Sub
<1>3. PICK g \in [DOMAIN m -> DOMAIN c.message] :
         \A i \in DOMAIN m : m[i] = c.message[g[i]]
  BY DEF Sub
<1>4. TurnOf(d, p) /\ StagesOf(d, p) \subseteq StagesOf(c, q)
  <2>1. Sub(c.cbuf, c.cbuf)
    BY <1>1, AllIs
  <2>2. Turn(c.servercount, c.cbuf, q, c.message)
    BY DEF Ready, TurnOf
  <2>3. /\ Turn(c.servercount, c.cbuf, p, m)
        /\ Stages(c.servercount, c.cbuf, p, m)
              \subseteq Stages(c.servercount, c.cbuf, q, c.message)
    BY <2>1, <2>2, TurnSub
  <2>4. QED BY <1>1, <2>3 DEF TurnOf, StagesOf
<1>5. Loaded(d) <=> Loaded(c)
  BY <1>1 DEF Loaded
<1>6. DiskWhole(d)
  <2>1. \A i \in DOMAIN m : m[i].cmd = "prespawn" => m[i].check = Models[m[i].level][1]
    BY <1>3 DEF Ready, DiskWhole
  <2>2. QED BY <1>1, <1>5, <2>1 DEF Ready, DiskWhole
<1>7. Late(d, s, p)
  BY <1>1, <1>4, <1>5 DEF Ready, Late, From
<1>8. NoDrop(d, p)
  BY <1>1, <1>2, <1>3 DEF Ready, NoDrop, Linked
<1>9. QED BY <1>4, <1>6, <1>7, <1>8 DEF Ready

LEMMA SubCalm ==
    ASSUME NEW c \in ClientRecord, NEW s, NEW q \in Seq(Item), Calm(c, s, q),
           NEW p \in Seq(Item), Sub(p, q), NEW m \in Seq(Command), Sub(m, c.message),
           NEW d, d = [c EXCEPT !.message = m]
    PROVE  Calm(d, s, p)
<1>1. /\ Ready(d, s, p) /\ StagesOf(d, p) \subseteq StagesOf(c, q)
      /\ c.message \in Seq(Command)
  BY SubReady DEF Calm, ClientRecord
<1>2. PICK f \in [DOMAIN p -> DOMAIN q] :
        /\ \A i \in DOMAIN p : p[i] = q[f[i]]
        /\ \A i, j \in DOMAIN p : i < j => f[i] < f[j]
  BY DEF Sub
<1>3. PICK g \in [DOMAIN m -> DOMAIN c.message] :
        /\ \A i \in DOMAIN m : m[i] = c.message[g[i]]
        /\ \A i, j \in DOMAIN m : i < j => g[i] < g[j]
  BY DEF Sub
<1>4. /\ \A i \in DOMAIN p : f[i] \in DOMAIN q
      /\ \A i \in DOMAIN m : g[i] \in DOMAIN c.message
  OBVIOUS
<1>5. /\ \A i, j \in DOMAIN p : f[i] = f[j] => i = j
      /\ \A i, j \in DOMAIN m : g[i] = g[j] => i = j
  <2>1. /\ \A i \in DOMAIN p : i \in Int /\ f[i] \in Int
        /\ \A i \in DOMAIN m : i \in Int /\ g[i] \in Int
    <3>1. /\ \A i \in DOMAIN q : i \in Int
          /\ \A i \in DOMAIN p : i \in Int
          /\ \A i \in DOMAIN m : i \in Int
          /\ \A i \in DOMAIN c.message : i \in Int
      BY <1>1
    <3>2. QED BY <1>4, <3>1
  <2>2. ASSUME NEW i \in DOMAIN p, NEW j \in DOMAIN p, f[i] = f[j] PROVE i = j
    <3>1. i \in Int /\ j \in Int /\ f[i] \in Int /\ f[j] \in Int
      BY <2>1
    <3>2. ~(i < j) /\ ~(j < i)
      BY <1>2, <2>2, <3>1
    <3>3. QED BY <3>1, <3>2
  <2>3. ASSUME NEW i \in DOMAIN m, NEW j \in DOMAIN m, g[i] = g[j] PROVE i = j
    <3>1. i \in Int /\ j \in Int /\ g[i] \in Int /\ g[j] \in Int
      BY <2>1
    <3>2. ~(i < j) /\ ~(j < i)
      BY <1>3, <2>3, <3>1
    <3>3. QED BY <3>1, <3>2
  <2>4. QED BY <2>2, <2>3
<1>6. /\ d.waiting = c.waiting /\ d.method = c.method /\ d.download = c.download
      /\ d.name = c.name /\ d.tmp = c.tmp /\ d.type = c.type /\ d.number = c.number
      /\ d.models = c.models /\ d.disk = c.disk /\ d.servercount = c.servercount
      /\ d.state = c.state /\ d.message = m
  BY DEF ClientRecord
<1>7. CASE Idle(c, q)
  BY <1>1, <1>2, <1>3, <1>4, <1>6, <1>7 DEF Calm, Idle
<1>8. CASE Fetches(c, s, q)
  <2>1. Alone(d, p)
    <3>1. \A i, j \in DOMAIN m : IsBlock(m[i]) /\ IsBlock(m[j]) => i = j
      BY <1>3, <1>4, <1>5, <1>8 DEF Fetches, Alone
    <3>2. \A i, j \in DOMAIN p : p[i].svc = "download" /\ p[j].svc = "download" => i = j
      BY <1>2, <1>4, <1>5, <1>8 DEF Fetches, Alone
    <3>3. \A i \in DOMAIN m, j \in DOMAIN p : ~(IsBlock(m[i]) /\ p[j].svc = "download")
      BY <1>2, <1>3, <1>4, <1>8 DEF Fetches, Alone
    <3>4. QED BY <1>6, <3>1, <3>2, <3>3 DEF Alone
  <2>2. \A y : AskOK(c, s, y) => AskOK(d, s, y)
    BY <1>6 DEF AskOK
  <2>3. \A x : BlockOK(c, s, x) => BlockOK(d, s, x)
    BY <1>6 DEF BlockOK
  <2>4. /\ \A i \in DOMAIN m : AskOK(d, s, m[i])
        /\ \A i \in DOMAIN p : BlockOK(d, s, p[i])
    BY <1>2, <1>3, <1>4, <1>8, <2>2, <2>3 DEF Fetches
  <2>5. Quiet(d, p)
    <3>1. \A i, j \in DOMAIN m : i < j /\ m[i].cmd = "download" => ~IsSignon(m[j])
      BY <1>3, <1>4, <1>8 DEF Fetches, Quiet
    <3>2. \A i, j \in DOMAIN p : i < j /\ p[i].svc = "download" => ~Signal(p[j])
      BY <1>2, <1>4, <1>8 DEF Fetches, Quiet
    <3>3. d.download # None \/ (\E i \in DOMAIN p : p[i].svc = "download")
          => \A j \in DOMAIN m : ~IsSignon(m[j])
      BY <1>2, <1>3, <1>4, <1>6, <1>8 DEF Fetches, Quiet
    <3>4. d.download # None => \A j \in DOMAIN p : ~Signal(p[j])
      BY <1>2, <1>4, <1>6, <1>8 DEF Fetches, Quiet
    <3>5. QED BY <1>6, <3>1, <3>2, <3>3, <3>4 DEF Quiet
  <2>6. Purpose(d, p)
    BY <1>1, <1>6, <1>8 DEF Fetches, Purpose, From
  <2>7. QED BY <1>1, <1>6, <1>8, <2>1, <2>4, <2>5, <2>6 DEF Calm, Fetches
<1>9. QED BY <1>7, <1>8 DEF Calm

\* A file that is a model of the level is missing, so the map is not loaded.
LEMMA FetchIs ==
    ASSUME NEW c, NEW s, NEW n, NEW q, Good(c, s, n, q), Calm(c, s, q),
           Fetches(c, s, q)
    PROVE  /\ c.type = "model" =>
                 ~Loaded(c) /\ c.state # "active" /\ s.state # "spawned"
           /\ From(Listed(c.servercount) + 1, StagesOf(c, q))
           /\ c.name \in File /\ c.disk[c.name] = <<>>
<1>1. c.name \in File /\ c.disk[c.name] = <<>>
  BY DEF Good, FilesOK, Fetches
<1>2. c.type = "model" => ~Loaded(c)
  BY <1>1 DEF Calm, Ready, DiskWhole, Fetches, Purpose
<1>3. c.type = "model" => c.state # "active" /\ s.state # "spawned"
  BY <1>2 DEF Calm, Ready, Late, Good, SlotOK
<1>4. From(Listed(c.servercount) + 1, StagesOf(c, q))
  <2>1. Listed(c.servercount) \in Nat
    BY StageIs
  <2>2. StagesOf(c, q) \in SUBSET Nat
    BY StagesNat DEF StagesOf, Good, ClientRecord, ItemsOK
  <2>3. CASE c.type = "model"
    BY <2>3 DEF Fetches, Purpose
  <2>4. CASE c.type # "model"
    <3>1. From(Listed(c.servercount) + 3, StagesOf(c, q))
      BY <2>4 DEF Fetches, Purpose
    <3>2. QED BY <2>1, <2>2, <3>1 DEF From
  <2>5. QED BY <2>3, <2>4
<1>5. QED BY <1>1, <1>2, <1>3, <1>4

LEMMA AddedIs ==
    ASSUME NEW S, NEW q \in Seq(S), NEW x \in S
    PROVE  \A i \in DOMAIN Append(q, x) :
              (i \in DOMAIN q /\ Append(q, x)[i] = q[i]) \/ Append(q, x)[i] = x
<1>1. PICK k \in DOMAIN Append(q, x) :
        /\ Append(q, x)[k] = x
        /\ \A i \in DOMAIN Append(q, x) :
              (i \in DOMAIN q /\ i < k /\ Append(q, x)[i] = q[i]) \/ i = k
  BY AppendIs
<1>2. QED BY <1>1

LEMMA CommandAdded ==
    ASSUME NEW m \in Seq(Command), NEW y \in Command
    PROVE  \E k \in DOMAIN Append(m, y) :
              /\ Append(m, y)[k] = y
              /\ \A i \in DOMAIN Append(m, y) :
                    (i \in DOMAIN m /\ i < k /\ Append(m, y)[i] = m[i]) \/ i = k
BY AppendIs

\* A command is sent that all that is on its way is followed by.
LEMMA SendReady ==
    ASSUME NEW c \in ClientRecord, NEW s, NEW q \in Seq(Item), Ready(c, s, q),
           NEW y \in Command, y.cmd \notin {"drop", "stopdl"},
           y.cmd = "prespawn" => y.check = Models[y.level][1],
           \A k \in StagesOf(c, q) : Follows(k, CommandStage(c.servercount, y)),
           c.state = "active" \/ s.state = "spawned"
              => From(Listed(c.servercount) + 3, {CommandStage(c.servercount, y)})
    PROVE  /\ Ready(Send(c, y), s, q)
           /\ StagesOf(Send(c, y), q)
                 \subseteq StagesOf(c, q) \cup {CommandStage(c.servercount, y)}
<1>1. PICK m : m = Append(c.message, y)
  OBVIOUS
<1>2. PICK d : d = Send(c, y)
  OBVIOUS
<1>3. c.message \in Seq(Command)
  BY DEF ClientRecord
<1>4. /\ d.servercount = c.servercount /\ d.models = c.models
      /\ d.precache = c.precache /\ d.disk = c.disk /\ d.message = m
      /\ d.cbuf = c.cbuf /\ d.state = c.state
  BY <1>1, <1>2 DEF Send, ClientRecord
<1>5. \A i \in DOMAIN m : (i \in DOMAIN c.message /\ m[i] = c.message[i]) \/ m[i] = y
  BY <1>1, <1>3, AddedIs
<1>6. /\ TurnOf(d, q)
      /\ StagesOf(d, q) \subseteq StagesOf(c, q) \cup {CommandStage(c.servercount, y)}
  <2>1. Turn(c.servercount, c.cbuf, q, c.message)
    BY DEF Ready, TurnOf
  <2>2. \A k \in Stages(c.servercount, c.cbuf, q, c.message) :
           Follows(k, CommandStage(c.servercount, y))
    BY DEF StagesOf
  <2>3. /\ Turn(c.servercount, c.cbuf, q, m)
        /\ Stages(c.servercount, c.cbuf, q, m)
              \subseteq Stages(c.servercount, c.cbuf, q, c.message)
                          \cup {CommandStage(c.servercount, y)}
    BY <1>1, <1>3, <2>1, <2>2, TurnSend
  <2>4. QED BY <1>4, <2>3 DEF TurnOf, StagesOf
<1>7. Loaded(d) <=> Loaded(c)
  BY <1>4 DEF Loaded
<1>8. DiskWhole(d)
  <2>1. \A i \in DOMAIN m : m[i].cmd = "prespawn" => m[i].check = Models[m[i].level][1]
    BY <1>5 DEF Ready, DiskWhole
  <2>2. QED BY <1>4, <1>7, <2>1 DEF Ready, DiskWhole
<1>9. Late(d, s, q)
  BY <1>4, <1>6, <1>7 DEF Ready, Late, From
<1>10. NoDrop(d, q)
  BY <1>4, <1>5 DEF Ready, NoDrop, Linked
<1>11. QED BY <1>2, <1>6, <1>8, <1>9, <1>10 DEF Ready

LEMMA SendIdle ==
    ASSUME NEW c \in ClientRecord, NEW q, Idle(c, q), NEW y \in Command, ~IsBlock(y)
    PROVE  Idle(Send(c, y), q)
<1>1. PICK m : m = Append(c.message, y)
  OBVIOUS
<1>2. PICK d : d = Send(c, y)
  OBVIOUS
<1>3. c.message \in Seq(Command)
  BY DEF ClientRecord
<1>4. /\ d.waiting = c.waiting /\ d.method = c.method /\ d.download = c.download
      /\ d.message = m
  BY <1>1, <1>2 DEF Send, ClientRecord
<1>5. \A i \in DOMAIN m : (i \in DOMAIN c.message /\ m[i] = c.message[i]) \/ m[i] = y
  BY <1>1, <1>3, AddedIs
<1>6. QED BY <1>2, <1>4, <1>5 DEF Idle

\* All that is on its way follows stage t: the command of the next one is sent.
LEMMA NextReady ==
    ASSUME NEW c \in ClientRecord, NEW s, NEW q \in Seq(Item), Ready(c, s, q),
           NEW t \in Nat \ {0}, \A k \in StagesOf(c, q) : Follows(t, k),
           NEW y \in Command, y.cmd \notin {"drop", "stopdl"},
           CommandStage(c.servercount, y) = t + 1,
           y.cmd = "prespawn" => y.check = Models[y.level][1],
           c.state = "active" \/ s.state = "spawned"
              => t + 1 >= Listed(c.servercount) + 3
    PROVE  Ready(Send(c, y), s, q)
<1>1. StagesOf(c, q) \in SUBSET Nat
  BY StagesNat DEF StagesOf, ClientRecord
<1>2. \A k \in StagesOf(c, q) : Follows(k, CommandStage(c.servercount, y))
  BY <1>1, FollowsNext
<1>3. QED BY <1>2, SendReady DEF From

\* A file is asked for when there is none under way.
LEMMA AskCalm ==
    ASSUME NEW c \in ClientRecord, NEW s, NEW q \in Seq(Item), Ready(c, s, q),
           Idle(c, q), NEW f \in File,
           NEW d, d.servercount = c.servercount, d.models = c.models,
           d.precache = c.precache, d.disk = c.disk, d.cbuf = c.cbuf,
           d.state = c.state, d.download = c.download,
           d.message = Append(c.message, [cmd |-> "download", file |-> f]),
           d.name = f, d.method = "QW", d.waiting = 1
    PROVE  /\ Ready(d, s, q) /\ StagesOf(d, q) \subseteq StagesOf(c, q) \cup {0}
           /\ Purpose(d, q) => Calm(d, s, q)
<1>1. PICK y : y = [cmd |-> "download", file |-> f]
  OBVIOUS
<1>2. y \in Command /\ y.cmd = "download" /\ y.file = f
  BY <1>1 DEF Command
<1>3. CommandStage(c.servercount, y) = 0
  BY <1>2 DEF CommandStage, Leveled
<1>4. PICK e : e = Send(c, y)
  OBVIOUS
<1>5. Ready(e, s, q) /\ StagesOf(e, q) \subseteq StagesOf(c, q) \cup {0}
  BY <1>2, <1>3, <1>4, SendReady DEF Follows, From
<1>6. /\ e.servercount = c.servercount /\ e.models = c.models
      /\ e.precache = c.precache /\ e.disk = c.disk /\ e.cbuf = c.cbuf
      /\ e.state = c.state /\ e.message = Append(c.message, y)
  BY <1>4 DEF Send, ClientRecord
<1>7. Linked(c)
  BY DEF Ready, NoDrop
<1>8. Ready(d, s, q) /\ StagesOf(d, q) = StagesOf(e, q)
  <2>1. /\ d.servercount = e.servercount /\ d.models = e.models
        /\ d.precache = e.precache /\ d.disk = e.disk /\ d.message = e.message
        /\ d.cbuf = e.cbuf /\ d.state = e.state /\ Linked(d)
    BY <1>1, <1>6, <1>7 DEF Linked
  <2>2. Ready(e, s, q)
    BY <1>5
  <2>3. QED BY <2>1, <2>2, SameReady
<1>9. PICK m : m = d.message
  OBVIOUS
<1>10. PICK k \in DOMAIN m :
         /\ m[k] = y
         /\ \A i \in DOMAIN m : (i \in DOMAIN c.message /\ i < k /\ m[i] = c.message[i])
                                \/ i = k
  <2>1. c.message \in Seq(Command)
    BY DEF ClientRecord
  <2>2. m = Append(c.message, y)
    BY <1>1, <1>9
  <2>3. QED BY <1>2, <2>1, <2>2, CommandAdded
<1>11. \A i \in DOMAIN m :
          i = k \/ (/\ i < k /\ m[i] \in {c.message[j] : j \in DOMAIN c.message}
                    /\ ~IsBlock(m[i]))
  BY <1>10 DEF Idle
<1>12. k \in Int /\ \A i \in DOMAIN m : i \in Int
  <2>1. m \in Seq(Command)
    <3>1. c.message \in Seq(Command)
      BY DEF ClientRecord
    <3>2. QED BY <1>1, <1>2, <1>9, <3>1, AppendIs
  <2>2. QED BY <1>10, <2>1
<1>13. Alone(d, q)
  <2>1. \A i, j \in DOMAIN m : IsBlock(m[i]) /\ IsBlock(m[j]) => i = j
    BY <1>11
  <2>2. QED BY <1>9, <2>1 DEF Alone, Idle
<1>14. \A i \in DOMAIN m : AskOK(d, s, m[i])
  <2>1. AskOK(d, s, y)
    BY <1>2 DEF AskOK, Idle
  <2>2. QED BY <1>10, <1>11, <2>1 DEF AskOK, IsBlock
<1>15. \A i \in DOMAIN q : BlockOK(d, s, q[i])
  BY DEF BlockOK, Idle
<1>16. Quiet(d, q)
  <2>1. \A i, j \in DOMAIN m : i < j /\ m[i].cmd = "download" => ~IsSignon(m[j])
    <3>1. \A i, j \in DOMAIN m : i < j => i # k
      BY <1>11, <1>12
    <3>2. QED BY <1>11, <3>1 DEF IsBlock
  <2>2. QED BY <1>9, <2>1 DEF Quiet, Idle
<1>17. d.download \in {None, d.name}
  BY DEF Idle
<1>18. QED
  BY <1>5, <1>8, <1>9, <1>13, <1>14, <1>15, <1>16, <1>17 DEF Calm, Fetches

\* The map is loaded: the client goes on with the signon.
LEMMA PrespawnCalm ==
    ASSUME NEW c \in ClientRecord, NEW s, NEW q \in Seq(Item), Ready(c, s, q),
           Idle(c, q), c.servercount \in Level,
           c.precache = Models[c.servercount][1],
           \A k \in StagesOf(c, q) : Follows(Listed(c.servercount) + 1, k),
           c.state # "active", s.state # "spawned"
    PROVE  Calm(Prespawn(c), s, q)
<1>1. PICK y : y = [cmd |-> "prespawn", level |-> c.servercount,
                    check |-> c.precache]
  OBVIOUS
<1>2. c.precache \in File /\ c.precache # None
  BY LevelIs
<1>3. /\ y \in Command /\ y.cmd = "prespawn" /\ y.level = c.servercount
      /\ y.check = Models[y.level][1]
  BY <1>1, <1>2 DEF Command
<1>4. Listed(c.servercount) \in Nat
  BY StageIs
<1>5. PICK t : t = Listed(c.servercount) + 1
  OBVIOUS
<1>6. t \in Nat \ {0} /\ t + 1 = Listed(c.servercount) + 2
  BY <1>4, <1>5
<1>7. CommandStage(c.servercount, y) = t + 1
  BY <1>3, <1>6 DEF CommandStage, Leveled
<1>8. Ready(Send(c, y), s, q)
  BY <1>3, <1>5, <1>6, <1>7, NextReady
<1>9. Idle(Send(c, y), q)
  BY <1>3, SendIdle DEF IsBlock
<1>10. QED BY <1>1, <1>2, <1>8, <1>9 DEF Prespawn, Calm

-----------------------------------------------------------------------------
(* The client, when no file got in the way *)

\* The models before this one are there: the next that is missing is asked for, or
\* the map is loaded.
LEMMA ModelNextDownloadCalm ==
    ASSUME NEW c \in ClientRecord, NEW s, NEW q \in Seq(Item), Ready(c, s, q),
           Idle(c, q), NEW l \in Level, l = c.servercount,
           Len(c.models) = Listed(l), c.models[1] = Models[l][1],
           \A i \in DOMAIN c.models : i < c.number => c.disk[c.models[i]] # <<>>,
           \A k \in StagesOf(c, q) : Follows(Listed(l) + 1, k),
           c.state # "active", s.state # "spawned"
    PROVE  Calm(ModelNextDownload(c), s, q)
<1>1. /\ c.models \in Seq(File) /\ c.number \in Nat /\ Linked(c)
      /\ Listed(l) \in Nat /\ Listed(l) >= 1
      /\ StagesOf(c, q) \in SUBSET Nat
  <2>1. c.models \in Seq(File) /\ c.number \in Nat /\ c.cbuf \in Seq(Item)
        /\ c.message \in Seq(Command)
    BY DEF ClientRecord
  <2>2. StagesOf(c, q) \in SUBSET Nat
    BY <2>1, StagesNat DEF StagesOf
  <2>3. Linked(c)
    BY DEF Ready, NoDrop
  <2>4. QED BY <2>1, <2>2, <2>3, StageIs
<1>2. PICK missing : missing = {i \in DOMAIN c.models :
                                   i >= c.number /\ c.disk[c.models[i]] = <<>>}
  OBVIOUS
<1>3. PICK first : first = CHOOSE i \in missing : \A j \in missing : i <= j
  OBVIOUS
<1>4. CASE missing # {}
  <2>1. missing \in SUBSET Nat
    BY <1>1, <1>2
  <2>2. first \in missing /\ \A j \in missing : first <= j
    <3>1. first \in missing
      BY <1>3, <1>4, <2>1, LeastIs
    <3>2. \E i \in missing : \A j \in missing : i <= j
      BY <1>4, <2>1, SomeLeast
    <3>3. QED BY <1>3, <3>1, <3>2
  <2>3. PICK f : f = c.models[first]
    OBVIOUS
  <2>4. first \in Nat /\ first \in DOMAIN c.models /\ f \in File
    BY <1>1, <1>2, <2>1, <2>2, <2>3
  <2>5. PICK e : e = [c EXCEPT !.type = "model", !.number = first]
    OBVIOUS
  <2>6. PICK d : d = Request(e, f)
    OBVIOUS
  <2>7. e \in ClientRecord
    BY <2>4, <2>5 DEF ClientRecord
  <2>8. /\ e.servercount = l /\ e.models = c.models
        /\ e.precache = c.precache /\ e.disk = c.disk /\ e.cbuf = c.cbuf
        /\ e.state = c.state /\ e.message = c.message /\ e.waiting = c.waiting
        /\ e.download = c.download /\ e.method = c.method
        /\ e.type = "model" /\ e.number = first
    BY <2>4, <2>5 DEF ClientRecord
  <2>9. Ready(e, s, q) /\ StagesOf(e, q) = StagesOf(c, q)
    <3>1. /\ e.servercount = c.servercount /\ e.state = c.state
          /\ Linked(e)
      BY <1>1, <2>8 DEF Ready, NoDrop, Linked
    <3>2. QED BY <2>8, <3>1, SameReady
  <2>10. Idle(e, q)
    BY <2>8 DEF Idle
  <2>11. /\ d.servercount = e.servercount /\ d.models = e.models
         /\ d.precache = e.precache /\ d.disk = e.disk /\ d.cbuf = e.cbuf
         /\ d.state = e.state /\ d.download = e.download
         /\ d.message = Append(e.message, [cmd |-> "download", file |-> f])
         /\ d.name = f /\ d.method = "QW" /\ d.waiting = e.waiting + 1
         /\ d.type = "model" /\ d.number = first + 1
    BY <2>6, <2>7, <2>8 DEF Request, Send, ClientRecord
  <2>12. d.waiting = 1
    BY <2>10, <2>11 DEF Idle
  <2>13. /\ StagesOf(d, q) \subseteq StagesOf(e, q) \cup {0}
         /\ Purpose(d, q) => Calm(d, s, q)
    BY <2>4, <2>7, <2>9, <2>10, <2>11, <2>12, AskCalm
  <2>14. From(Listed(l) + 1, StagesOf(d, q))
    BY <1>1, <2>9, <2>13 DEF From, Follows
  <2>15. ASSUME NEW i \in DOMAIN c.models, i < first PROVE c.disk[c.models[i]] # <<>>
    <3>1. i \in Nat
      BY <1>1
    <3>2. CASE i < c.number
      BY <3>2
    <3>3. CASE i >= c.number
      <4>1. i \notin missing
        BY <2>2, <2>4, <2>15, <3>1
      <4>2. QED BY <1>2, <3>3, <4>1
    <3>4. QED BY <1>1, <3>1, <3>2, <3>3
  <2>16. Purpose(d, q)
    <3>1. d.number - 1 = first
      BY <2>4, <2>11
    <3>2. QED BY <2>3, <2>4, <2>8, <2>11, <2>14, <2>15, <3>1 DEF Purpose
  <2>17. ModelNextDownload(c) = d
    BY <1>2, <1>3, <1>4, <2>3, <2>5, <2>6 DEF ModelNextDownload
  <2>18. QED BY <2>13, <2>16, <2>17
<1>5. CASE missing = {}
  <2>1. \A i \in DOMAIN c.models : c.disk[c.models[i]] # <<>>
    <3> SUFFICES ASSUME NEW i \in DOMAIN c.models PROVE c.disk[c.models[i]] # <<>>
      OBVIOUS
    <3>1. i \in Nat
      BY <1>1
    <3>2. QED BY <1>1, <1>2, <1>5, <3>1
  <2>2. 1 \in DOMAIN c.models /\ c.models # <<>>
    <3>1. Len(c.models) >= 1 /\ DOMAIN c.models = 1..Len(c.models)
      BY <1>1
    <3>2. QED BY <1>1, <3>1, EmptyIs
  <2>3. PICK map : map = c.models[1]
    OBVIOUS
  <2>4. map \in File /\ c.disk[map] = Whole(map) /\ map = Models[l][1]
    <3>1. map \in File
      BY <2>3, LevelIs
    <3>2. QED BY <2>1, <2>2, <2>3, <3>1 DEF Ready, DiskWhole
  <2>5. PICK d : d = [c EXCEPT !.type = "vwep_model", !.precache = map]
    OBVIOUS
  <2>6. ModelNextDownload(c) = Prespawn(d)
    <3>1. (IF c.models = NoModels THEN c.precache
           ELSE IF c.disk[map] = Whole(map) THEN map ELSE Bad) = map
      BY <2>2, <2>4 DEF NoModels
    <3>2. d = [c EXCEPT !.type = "vwep_model",
                 !.precache = IF c.models = NoModels THEN @
                              ELSE IF c.disk[map] = Whole(map) THEN map ELSE Bad]
      BY <2>5, <3>1 DEF ClientRecord
    <3>3. ~\E i \in DOMAIN c.models : c.disk[c.models[i]] = <<>>
      BY <2>1
    <3>4. QED BY <1>2, <1>5, <2>3, <3>2, <3>3 DEF ModelNextDownload
  <2>7. d \in ClientRecord
    <3>1. map \in File \cup {None, Bad}
      BY <2>4
    <3>2. QED BY <2>5, <3>1 DEF ClientRecord
  <2>8. /\ d.servercount = l /\ d.models = c.models
        /\ d.precache = map /\ d.disk = c.disk /\ d.cbuf = c.cbuf
        /\ d.state = c.state /\ d.message = c.message /\ d.waiting = c.waiting
        /\ d.download = c.download /\ d.method = c.method
    BY <2>5 DEF ClientRecord
  <2>9. StagesOf(d, q) = StagesOf(c, q) /\ TurnOf(d, q)
    BY <2>8 DEF Ready, StagesOf, TurnOf
  <2>10. DiskWhole(d)
    <3>1. d.precache # Bad
      BY <2>4, <2>8, LevelIs
    <3>2. QED BY <2>1, <2>8, <3>1 DEF Ready, DiskWhole
  <2>11. Late(d, s, q) /\ NoDrop(d, q) /\ Idle(d, q)
    BY <2>8 DEF Ready, Late, NoDrop, Idle, Linked
  <2>12. Ready(d, s, q)
    BY <2>9, <2>10, <2>11 DEF Ready
  <2>13. QED BY <2>4, <2>6, <2>7, <2>8, <2>9, <2>11, <2>12, PrespawnCalm
<1>6. QED BY <1>4, <1>5

LEMMA PartIs ==
    ASSUME NEW f \in File
    PROVE  /\ Part(f, 0) = <<>> /\ Part(f, Blocks) = Whole(f)
           /\ \A k \in 1..Blocks : Append(Part(f, k - 1), <<f, k>>) = Part(f, k)
<1>1. Part(f, Blocks) = Whole(f)
  BY DEF Part, Whole
<1>2. Part(f, 0) = <<>>
  <2>1. Part(f, 0) = [i \in 1..0 |-> <<f, i>>]
    BY DEF Part
  <2>2. QED BY <2>1
<1>3. ASSUME NEW k \in 1..Blocks
      PROVE  Append(Part(f, k - 1), <<f, k>>) = Part(f, k)
  <2>1. k \in Nat /\ k - 1 \in Nat /\ (k - 1) + 1 = k
    BY LevelIs
  <2>2. PICK S : S = {<<f, i>> : i \in Nat}
    OBVIOUS
  <2>3. PICK q : q = Part(f, k - 1)
    OBVIOUS
  <2>4. PICK x : x = <<f, k>>
    OBVIOUS
  <2>5. x \in S
    BY <2>1, <2>2, <2>4
  <2>6. q \in Seq(S) /\ Len(q) = k - 1 /\ \A i \in 1..k - 1 : q[i] = <<f, i>>
    <3>1. \A i \in 1..k - 1 : <<f, i>> \in S
      BY <2>2
    <3>2. q = [i \in 1..k - 1 |-> <<f, i>>]
      BY <2>3 DEF Part
    <3>3. QED BY <2>1, <3>1, <3>2
  <2>7. PICK r : r = Append(q, x)
    OBVIOUS
  <2>8. /\ r \in Seq(S) /\ Len(r) = k /\ r[k] = x
        /\ \A i \in 1..k - 1 : r[i] = q[i]
    BY <2>1, <2>5, <2>6, <2>7, AppendProperties
  <2>9. \A i \in 1..k : r[i] = <<f, i>>
    <3> SUFFICES ASSUME NEW i \in 1..k PROVE r[i] = <<f, i>>
      OBVIOUS
    <3>1. i = k \/ i \in 1..k - 1
      BY <2>1
    <3>2. QED BY <2>4, <2>6, <2>8, <3>1
  <2>10. r = [i \in 1..k |-> <<f, i>>]
    <3>1. r = [i \in 1..Len(r) |-> r[i]]
      BY <2>8
    <3>2. QED BY <2>8, <2>9, <3>1
  <2>11. QED BY <2>3, <2>4, <2>7, <2>10 DEF Part
<1>4. QED BY <1>1, <1>2, <1>3

\* The file is whole when it gets its name; the signon goes on if it waited.
LEMMA FinishDownloadCalm ==
    ASSUME NEW c, NEW s, NEW n, NEW q, Good(c, s, n, q), Ready(c, s, q),
           c.waiting = 1, c.method = "QW", c.tmp[c.name] = Whole(c.name),
           \A i \in DOMAIN c.message : ~IsBlock(c.message[i]),
           \A i \in DOMAIN q : q[i].svc # "download",
           Purpose(c, q),
           c.type = "model" => ~Loaded(c) /\ c.state # "active" /\ s.state # "spawned"
    PROVE  Calm(FinishDownload(c), s, q)
<1>1. /\ c \in ClientRecord /\ c.tmp \in [File -> Seq(Block)]
      /\ c.disk \in [File -> Seq(Block)] /\ c.name \in File /\ c.disk[c.name] = <<>>
      /\ Whole(c.name) # <<>> /\ Whole(c.name) \in Seq(Block)
      /\ c.number \in Nat /\ q \in Seq(Item) /\ c.models \in Seq(File)
  <2>1. /\ c \in ClientRecord /\ c.tmp \in [File -> Seq(Block)]
        /\ c.disk \in [File -> Seq(Block)] /\ c.name \in File /\ c.disk[c.name] = <<>>
        /\ c.number \in Nat /\ q \in Seq(Item) /\ c.models \in Seq(File)
    BY DEF Good, ClientRecord, FilesOK, ItemsOK
  <2>2. Whole(c.name) # <<>>
    BY <2>1, LoadedIs
  <2>3. c.tmp[c.name] \in Seq(Block)
    BY <2>1
  <2>4. QED BY <2>1, <2>2, <2>3
<1>2. PICK t : t = [c.tmp EXCEPT ![c.name] = <<>>]
  OBVIOUS
<1>3. PICK k : k = [c.disk EXCEPT ![c.name] = Whole(c.name)]
  OBVIOUS
<1>4. /\ t \in [File -> Seq(Block)] /\ k \in [File -> Seq(Block)]
      /\ k[c.name] = Whole(c.name)
      /\ \A f \in File : k[f] = IF f = c.name THEN Whole(c.name) ELSE c.disk[f]
  BY <1>1, <1>2, <1>3, EmptyIs
<1>5. PICK d : d = [c EXCEPT !.disk = k, !.tmp = t, !.download = None,
                             !.method = "none", !.waiting = 0]
  OBVIOUS
<1>6. d \in ClientRecord
  BY <1>1, <1>4, <1>5 DEF ClientRecord
<1>7. /\ d.servercount = c.servercount /\ d.models = c.models
      /\ d.precache = c.precache /\ d.disk = k /\ d.message = c.message
      /\ d.cbuf = c.cbuf /\ d.state = c.state /\ d.type = c.type
      /\ d.number = c.number /\ d.waiting = 0 /\ d.method = "none"
      /\ d.download = None
  BY <1>1, <1>5 DEF ClientRecord
<1>8. FinishDownload(c) = RequestNextDownload(d)
  <2>1. PICK r : r = [c EXCEPT !.disk[c.name] = c.tmp[c.name], !.tmp[c.name] = <<>>]
    OBVIOUS
  <2>2. r = [c EXCEPT !.disk = k, !.tmp = t]
    BY <1>1, <1>2, <1>3, <2>1 DEF ClientRecord
  <2>3. PICK e : e = [Closed(r) EXCEPT !.waiting = IF @ = 0 THEN 0 ELSE @ - 1]
    OBVIOUS
  <2>4. e = d
    <3>1. PICK u : u = Closed(r)
      OBVIOUS
    <3>2. u = [c EXCEPT !.disk = k, !.tmp = t, !.download = None, !.method = "none"]
      BY <2>2, <3>1 DEF Closed
    <3>3. u.waiting = 1
      BY <1>1, <3>2 DEF ClientRecord
    <3>4. e = [u EXCEPT !.waiting = 0]
      BY <2>3, <3>1, <3>3
    <3>5. QED BY <1>5, <3>2, <3>4
  <2>5. c.tmp[c.name] # <<>>
    BY <1>1
  <2>6. QED BY <2>1, <2>3, <2>4, <2>5 DEF FinishDownload
<1>9. Idle(d, q)
  BY <1>7 DEF Idle
<1>10. Loaded(d) <=> Loaded(c)
  BY <1>7 DEF Loaded
<1>11. /\ \A f \in File : k[f] \in {<<>>, Whole(f)}
       /\ \A f \in File : c.disk[f] # <<>> => k[f] # <<>>
  BY <1>1, <1>4 DEF Ready, DiskWhole
<1>12. \A i \in DOMAIN c.models : c.models[i] \in File
  BY <1>1
<1>13. DiskWhole(d)
  BY <1>7, <1>10, <1>11, <1>12 DEF Ready, DiskWhole
<1>14. TurnOf(d, q) /\ StagesOf(d, q) = StagesOf(c, q) /\ NoDrop(d, q)
  BY <1>7 DEF Ready, StagesOf, TurnOf, NoDrop, Linked
<1>15. Late(d, s, q)
  BY <1>7, <1>10, <1>14 DEF Ready, Late
<1>16. Ready(d, s, q)
  BY <1>13, <1>14, <1>15 DEF Ready
<1>17. CASE c.type = "model"
  <2>1. FinishDownload(c) = ModelNextDownload(d)
    BY <1>7, <1>8, <1>17 DEF RequestNextDownload
  <2>2. PICK l : l = c.servercount
    OBVIOUS
  <2>3. /\ c.number - 1 \in DOMAIN c.models /\ c.name = c.models[c.number - 1]
        /\ Len(c.models) = Listed(l)
        /\ \A i \in DOMAIN c.models : i < c.number - 1 => c.disk[c.models[i]] # <<>>
        /\ From(Listed(l) + 1, StagesOf(c, q))
    BY <1>17, <2>2 DEF Purpose
  <2>4. c.models # <<>>
    BY <2>3, EmptyIs
  <2>5. l \in Level
    BY <2>2, <2>4, LoadedIs
  <2>6. c.models[1] = Models[l][1]
    <3>1. 1 \in DOMAIN c.models
      BY <1>1, <2>4, TailIs
    <3>2. QED BY <2>2, <2>4, <3>1 DEF Good, ListsOK
  <2>7. ASSUME NEW i \in DOMAIN c.models, i < c.number PROVE k[c.models[i]] # <<>>
    <3>1. i = c.number - 1 \/ i < c.number - 1
      <4>1. c.models \in Seq(File) /\ c.number \in Nat
        BY <1>1
      <4>2. i \in Nat
        BY <4>1
      <4>3. QED BY <2>7, <4>1, <4>2
    <3>2. CASE i = c.number - 1
      BY <1>1, <1>4, <2>3, <3>2
    <3>3. CASE i < c.number - 1
      BY <1>11, <1>12, <2>3, <3>3
    <3>4. QED BY <3>1, <3>2, <3>3
  <2>8. \A j \in StagesOf(d, q) : Follows(Listed(l) + 1, j)
    <3>1. \A j \in StagesOf(c, q) : j <= Listed(l) + 1
      BY <1>17, <2>2, UnloadedIs DEF Ready
    <3>2. StagesOf(c, q) \in SUBSET Nat /\ Listed(l) \in Nat
      BY <1>1, StageIs, StagesNat DEF StagesOf, ClientRecord
    <3>3. QED BY <1>14, <2>3, <3>1, <3>2 DEF Follows, From
  <2>9. Calm(ModelNextDownload(d), s, q)
    BY <1>1, <1>6, <1>7, <1>9, <1>16, <1>17, <2>2, <2>3, <2>5, <2>6, <2>7, <2>8,
       ModelNextDownloadCalm
  <2>10. QED BY <2>1, <2>9
<1>18. CASE c.type # "model"
  <2>1. c.type \in {"single", "none"}
    BY <1>18 DEF Purpose
  <2>2. FinishDownload(c) = d
    BY <1>7, <1>8, <2>1 DEF RequestNextDownload
  <2>3. QED BY <1>9, <1>16, <2>2 DEF Calm
<1>19. QED BY <1>17, <1>18

\* Without the item at the head.
LEMMA TailCalm ==
    ASSUME NEW c \in ClientRecord, NEW s, NEW q \in Seq(Item), q # <<>>, Calm(c, s, q)
    PROVE  /\ Calm(c, s, Tail(q))
           /\ StagesOf(c, Tail(q)) \subseteq StagesOf(c, q)
<1>1. Tail(q) \in Seq(Item) /\ Sub(Tail(q), q)
  BY TailIs
<1>2. c.message \in Seq(Command) /\ Sub(c.message, c.message)
  BY AllIs DEF ClientRecord
<1>3. c = [c EXCEPT !.message = c.message]
  BY DEF ClientRecord
<1>4. Calm(c, s, Tail(q))
  BY <1>1, <1>2, <1>3, SubCalm
<1>5. StagesOf(c, Tail(q)) \subseteq StagesOf(c, q)
  BY <1>1, <1>2, <1>3, SubReady DEF Calm
<1>6. QED BY <1>4, <1>5

\* The next block of the file, or the last one.
LEMMA ParseDownloadCalm ==
    ASSUME NEW c, NEW s, NEW n, NEW q \in Seq(Item), q # <<>>, Calm(c, s, q),
           Good(c, s, n, q), NEW m, m = Head(q), m.svc = "download"
    PROVE  Calm(ParseDownload(c, m), s, Tail(q))
<1>1. PICK p : p = Tail(q)
  OBVIOUS
<1>2. /\ p \in Seq(Item) /\ 1 \in DOMAIN q /\ m = q[1] /\ m \in Item /\ Sub(p, q)
      /\ \A i \in DOMAIN p : i + 1 \in DOMAIN q /\ 1 < i + 1 /\ p[i] = q[i + 1]
  BY <1>1, TailIs
<1>3. Fetches(c, s, q)
  BY <1>2 DEF Calm, Idle
<1>4. /\ c \in ClientRecord /\ c.tmp \in [File -> Seq(Block)]
      /\ c.name \in File /\ c.disk[c.name] = <<>> /\ c.name # None
      /\ c.waiting = 1 /\ c.method = "QW" /\ c.download \in {None, c.name}
  <2>1. c \in ClientRecord /\ c.tmp \in [File -> Seq(Block)]
    BY DEF Good, ClientRecord
  <2>2. c.name \in File /\ c.disk[c.name] = <<>>
    BY <1>3, FetchIs
  <2>3. QED BY <1>3, <2>1, <2>2, LevelIs DEF Fetches
<1>5. Good(c, s, n, p)
  BY <1>2, SubGood
<1>6. Calm(c, s, p) /\ StagesOf(c, p) \subseteq StagesOf(c, q)
  BY <1>1, <1>4, TailCalm
<1>7. Fetches(c, s, p)
  BY <1>4, <1>6 DEF Calm, Idle
<1>8. PICK k : k = s.count
  OBVIOUS
<1>9. /\ m.block = <<c.name, k>> /\ k \in 1..Blocks
      /\ m.done <=> k = Blocks
      /\ ~m.done /\ s.download # None => s.download = c.name
      /\ IF c.download = None THEN k = 1 ELSE c.tmp[c.name] = Part(c.name, k - 1)
  BY <1>2, <1>3, <1>8 DEF Fetches, BlockOK
<1>10. /\ \A i \in DOMAIN c.message : ~IsBlock(c.message[i])
       /\ \A i \in DOMAIN p : p[i].svc # "download"
       /\ \A i \in DOMAIN c.message : ~IsSignon(c.message[i])
       /\ \A i \in DOMAIN p : ~Signal(p[i])
  <2>1. \A i \in DOMAIN c.message : ~IsBlock(c.message[i])
    BY <1>2, <1>3 DEF Fetches, Alone
  <2>2. \A i \in DOMAIN p : p[i].svc # "download"
    <3> SUFFICES ASSUME NEW i \in DOMAIN p, p[i].svc = "download" PROVE FALSE
      OBVIOUS
    <3>1. i + 1 = 1
      BY <1>2, <1>3 DEF Fetches, Alone
    <3>2. 1 < i + 1
      BY <1>2
    <3>3. QED BY <3>1, <3>2
  <2>3. \A i \in DOMAIN c.message : ~IsSignon(c.message[i])
    BY <1>2, <1>3 DEF Fetches, Quiet
  <2>4. \A i \in DOMAIN p : ~Signal(p[i])
    BY <1>2, <1>3 DEF Fetches, Quiet
  <2>5. QED BY <2>1, <2>2, <2>3, <2>4
<1>11. PICK part : part = Part(c.name, k)
  OBVIOUS
<1>12. PICK t : t = [c.tmp EXCEPT ![c.name] = part]
  OBVIOUS
<1>13. PICK d : d = [c EXCEPT !.download = c.name, !.tmp = t]
  OBVIOUS
<1>14. PICK o : o = IF c.download = None THEN Part(c.name, 0) ELSE c.tmp[c.name]
  OBVIOUS
<1>15. o = Part(c.name, k - 1) /\ Append(o, m.block) = part
  <2>1. o = Part(c.name, k - 1)
    BY <1>9, <1>14
  <2>2. QED BY <1>4, <1>9, <1>11, <2>1, PartIs
<1>16. part \in Seq(Block)
  <2>1. m.block \in Block
    BY <1>2, ItemIs
  <2>2. o \in Seq(Block)
    BY <1>4, <1>14, PartIs, EmptyIs
  <2>3. QED BY <1>15, <2>1, <2>2, AppendIs
<1>17. t \in [File -> Seq(Block)] /\ t[c.name] = part
  BY <1>4, <1>12, <1>16
<1>18. d \in ClientRecord
  BY <1>4, <1>13, <1>17 DEF ClientRecord
<1>19. /\ d.servercount = c.servercount /\ d.sounds = c.sounds
       /\ d.models = c.models /\ d.precache = c.precache /\ d.disk = c.disk
       /\ d.message = c.message /\ d.cbuf = c.cbuf /\ d.method = "QW"
       /\ d.name = c.name /\ d.download = c.name /\ d.tmp = t
       /\ d.waiting = 1 /\ d.type = c.type /\ d.number = c.number
       /\ d.state = c.state
  BY <1>4, <1>13 DEF ClientRecord
<1>20. ParseDownload(c, m) = IF m.done THEN FinishDownload(d)
                             ELSE Send(d, [cmd |-> "nextdl"])
  <2>1. PICK opened : opened = IF c.download = None
                               THEN [c EXCEPT !.download = c.name,
                                              !.tmp[c.name] = <<>>]
                               ELSE c
    OBVIOUS
  <2>2. opened.download = c.name /\ opened.tmp = [c.tmp EXCEPT ![c.name] = o]
        /\ opened = [c EXCEPT !.download = c.name, !.tmp = opened.tmp]
    <3>1. CASE c.download = None
      <4>1. o = <<>>
        BY <1>4, <1>14, <3>1, PartIs
      <4>2. PICK v : v = [c.tmp EXCEPT ![c.name] = o]
        OBVIOUS
      <4>3. opened = [c EXCEPT !.download = c.name, !.tmp = v]
        BY <1>4, <2>1, <3>1, <4>1, <4>2 DEF ClientRecord
      <4>4. QED BY <1>4, <4>2, <4>3 DEF ClientRecord
    <3>2. CASE c.download # None
      <4>1. c.download = c.name /\ opened = c /\ o = c.tmp[c.name]
        BY <1>4, <1>14, <2>1, <3>2
      <4>2. c.tmp = [c.tmp EXCEPT ![c.name] = o]
        BY <1>4, <4>1
      <4>3. QED BY <1>4, <4>1, <4>2 DEF ClientRecord
    <3>3. QED BY <3>1, <3>2
  <2>3. PICK written : written = IF m.block[1] = None THEN opened
                                 ELSE [opened EXCEPT !.tmp[opened.download] =
                                                       Append(@, m.block)]
    OBVIOUS
  <2>4. m.block[1] # None
    BY <1>4, <1>9
  <2>5. PICK v : v = opened.tmp
    OBVIOUS
  <2>6. v = [c.tmp EXCEPT ![c.name] = o] /\ v[c.name] = o
    BY <1>4, <2>2, <2>5
  <2>7. t = [v EXCEPT ![c.name] = part]
    BY <1>4, <1>12, <2>6
  <2>8. written = [opened EXCEPT !.tmp = t]
    <3>1. Append(v[c.name], m.block) = part
      BY <1>15, <2>6
    <3>2. opened = [c EXCEPT !.download = c.name, !.tmp = v] /\ opened.download = c.name
      BY <2>2, <2>5
    <3>3. QED BY <1>4, <2>3, <2>4, <2>7, <3>1, <3>2 DEF ClientRecord
  <2>9. written = d
    BY <1>4, <1>13, <2>2, <2>8 DEF ClientRecord
  <2>10. CASE m.done
    <3>1. ParseDownload(c, m) = FinishDownload(written)
      BY <1>4, <2>1, <2>3, <2>10 DEF ParseDownload
    <3>2. QED BY <2>9, <2>10, <3>1
  <2>11. CASE ~m.done
    <3>1. ParseDownload(c, m) = Send(written, [cmd |-> "nextdl"])
      BY <1>4, <2>1, <2>3, <2>11 DEF ParseDownload
    <3>2. QED BY <2>9, <2>11, <3>1
  <2>12. QED BY <2>10, <2>11
<1>21. Linked(c)
  BY <1>6 DEF Calm, Ready, NoDrop
<1>22. Ready(d, s, p) /\ StagesOf(d, p) = StagesOf(c, p)
  BY <1>6, <1>19, <1>21, SameReady DEF Calm, Linked
<1>23. Purpose(d, p)
  BY <1>7, <1>19, <1>22 DEF Fetches, Purpose
<1>24. CASE m.done
  <2>1. Good(d, s, n, p)
    <3>1. FilesOK(d)
      BY <1>4, <1>19 DEF FilesOK
    <3>2. d.sent = c.sent
      BY <1>4, <1>13 DEF ClientRecord
    <3>3. QED BY <1>5, <1>18, <1>19, <3>1, <3>2, SameGood
  <2>2. d.type = "model" => ~Loaded(d) /\ d.state # "active" /\ s.state # "spawned"
    <3>1. c.type = "model" => ~Loaded(c) /\ c.state # "active" /\ s.state # "spawned"
      BY <1>3, FetchIs
    <3>2. QED BY <1>19, <3>1 DEF Loaded
  <2>3. d.tmp[d.name] = Whole(d.name)
    BY <1>4, <1>9, <1>11, <1>17, <1>19, <1>24, PartIs
  <2>4. Calm(FinishDownload(d), s, p)
    BY <1>10, <1>19, <1>22, <1>23, <2>1, <2>2, <2>3, FinishDownloadCalm
  <2>5. QED BY <1>1, <1>20, <1>24, <2>4
<1>25. CASE ~m.done
  <2>1. PICK y : y = [cmd |-> "nextdl"]
    OBVIOUS
  <2>2. y \in Command /\ y.cmd = "nextdl"
    BY <2>1 DEF Command
  <2>3. PICK e : e = Send(d, y)
    OBVIOUS
  <2>4. CommandStage(d.servercount, y) = 0
    BY <2>2 DEF CommandStage, Leveled
  <2>5. Ready(e, s, p) /\ StagesOf(e, p) \subseteq StagesOf(d, p) \cup {0}
    BY <1>2, <1>18, <1>22, <2>2, <2>3, <2>4, SendReady DEF Follows, From
  <2>6. /\ e.waiting = 1 /\ e.method = "QW" /\ e.download = c.name /\ e.name = c.name
        /\ e.tmp = t /\ e.type = d.type /\ e.number = d.number /\ e.models = d.models
        /\ e.disk = d.disk /\ e.servercount = d.servercount /\ e.state = d.state
        /\ e.message = Append(c.message, y)
    BY <1>18, <1>19, <2>3 DEF Send, ClientRecord
  <2>7. PICK l : l = e.message
    OBVIOUS
  <2>8. c.message \in Seq(Command)
    BY <1>4 DEF ClientRecord
  <2>9. PICK j \in DOMAIN l :
          /\ l[j] = y
          /\ \A i \in DOMAIN l : (i \in DOMAIN c.message /\ i < j /\ l[i] = c.message[i])
                                 \/ i = j
    <3>1. l = Append(c.message, y)
      BY <2>6, <2>7
    <3>2. QED BY <2>2, <2>8, <3>1, CommandAdded
  <2>10. \A i \in DOMAIN l : i = j \/ (~IsBlock(l[i]) /\ ~IsSignon(l[i]))
    BY <1>10, <2>9
  <2>11. ~IsSignon(y)
    BY <2>2 DEF IsSignon, Leveled
  <2>12. Alone(e, p)
    <3>1. \A i, h \in DOMAIN l : IsBlock(l[i]) /\ IsBlock(l[h]) => i = h
      BY <2>10
    <3>2. QED BY <1>10, <2>7, <3>1 DEF Alone
  <2>13. \A i \in DOMAIN l : AskOK(e, s, l[i])
    <3>1. AskOK(e, s, y)
      <4>1. e.download # None
        BY <1>4, <2>6
      <4>2. s.download # None
            => s.download = e.name /\ e.tmp[e.name] = Part(e.name, s.count)
        BY <1>8, <1>9, <1>11, <1>17, <1>25, <2>6
      <4>3. QED BY <2>2, <4>1, <4>2 DEF AskOK
    <3>2. QED BY <2>9, <2>10, <3>1 DEF AskOK, IsBlock
  <2>14. \A i \in DOMAIN p : BlockOK(e, s, p[i])
    BY <1>10 DEF BlockOK
  <2>15. Quiet(e, p)
    BY <1>10, <2>7, <2>9, <2>10, <2>11 DEF Quiet
  <2>16. Purpose(e, p)
    <3>1. \A i : From(i, StagesOf(d, p)) => From(i, StagesOf(e, p))
      BY <2>5 DEF From
    <3>2. QED BY <1>19, <1>23, <2>6, <3>1 DEF Purpose
  <2>17. e.download \in {None, e.name}
    BY <2>6
  <2>18. Fetches(e, s, p)
    BY <2>6, <2>7, <2>12, <2>13, <2>14, <2>15, <2>16, <2>17 DEF Fetches
  <2>19. Calm(e, s, p)
    BY <2>5, <2>18 DEF Calm
  <2>20. QED BY <1>1, <1>20, <1>25, <2>1, <2>3, <2>19
<1>26. m.done \in BOOLEAN
  BY <1>2, ItemIs
<1>27. QED BY <1>24, <1>25, <1>26

\* The sounds or a model of the list are read: what is behind follows, and no file
\* is under way but one that the end of the list may ask for.
LEMMA HeadIs ==
    ASSUME NEW c, NEW s, NEW n, NEW q \in Seq(Item), q # <<>>, Good(c, s, n, q),
           Calm(c, s, q), NEW t, t = ItemStage(c.servercount, Head(q)),
           t \in Nat \ {0}, t <= Listed(c.servercount) + 1
    PROVE  /\ \A k \in StagesOf(c, Tail(q)) : Follows(t, k)
           /\ c.state # "active" /\ s.state # "spawned"
           /\ t <= Listed(c.servercount) => Idle(c, q)
           /\ Idle(c, q) \/ c.type = "model"
<1>1. PICK l : l = c.servercount
  OBVIOUS
<1>2. /\ Listed(l) \in Nat /\ c.cbuf \in Seq(Item) /\ c.message \in Seq(Command)
      /\ 1 \in DOMAIN q /\ Head(q) = q[1]
  BY StageIs, TailIs DEF Good, ClientRecord
<1>3. t \in StagesOf(c, q)
  BY <1>2, StagesAre DEF StagesOf
<1>4. c.state # "active" /\ s.state # "spawned"
  BY <1>1, <1>2, <1>3 DEF Calm, Ready, Late, From
<1>5. Fetches(c, s, q) => t > Listed(l)
  BY <1>1, <1>2, <1>3, FetchIs DEF From
<1>6. Fetches(c, s, q) => c.type = "model"
  <2>1. ~From(Listed(l) + 3, StagesOf(c, q))
    BY <1>1, <1>2, <1>3 DEF From
  <2>2. QED BY <1>1, <2>1 DEF Fetches, Purpose
<1>7. ASSUME NEW i \in DOMAIN c.cbuf PROVE ItemStage(l, c.cbuf[i]) = 0
  <2>1. c.cbuf[i].svc \in Text
    BY DEF Good, TextOK
  <2>2. ItemStage(l, c.cbuf[i]) \in {0, Listed(l) + 2, Listed(l) + 3}
    BY <2>1 DEF ItemStage, Text
  <2>3. Follows(ItemStage(l, c.cbuf[i]), t)
    BY <1>1, <1>2 DEF Calm, Ready, TurnOf, Turn
  <2>4. QED BY <1>1, <1>2, <2>2, <2>3 DEF Follows
<1>8. \A k \in StagesOf(c, Tail(q)) : Follows(t, k)
  <2>1. Turn(l, c.cbuf, q, c.message)
    BY <1>1 DEF Calm, Ready, TurnOf
  <2>2. \A k \in Stages(l, c.cbuf, Tail(q), c.message) : Follows(t, k)
    BY <1>1, <1>2, <1>7, <2>1, TurnHead
  <2>3. QED BY <1>1, <2>2 DEF StagesOf
<1>9. t <= Listed(l) => ~Fetches(c, s, q)
  BY <1>2, <1>5
<1>10. QED BY <1>1, <1>4, <1>6, <1>8, <1>9 DEF Calm

LEMMA ParseSoundlistCalm ==
    ASSUME NEW c, NEW s, NEW n, NEW q \in Seq(Item), q # <<>>, Good(c, s, n, q),
           Calm(c, s, q), NEW m, m = Head(q), m.svc = "soundlist"
    PROVE  Calm(ParseSoundlist(c, m), s, Tail(q))
<1>1. PICK l : l = c.servercount
  OBVIOUS
<1>2. PICK p : p = Tail(q)
  OBVIOUS
<1>3. /\ c \in ClientRecord /\ p \in Seq(Item) /\ m \in Item /\ ItemOK(c, s, n, m)
  <2>1. 1 \in DOMAIN q /\ m = q[1] /\ p \in Seq(Item) /\ m \in Item
    BY <1>2, TailIs
  <2>2. QED BY <2>1 DEF Good, ItemsOK
<1>4. m.level = l /\ l \in Level
  BY <1>1, <1>3, ItemIs DEF ItemOK, Reply, Tells
<1>5. ItemStage(l, m) = 1 /\ Listed(l) \in Nat /\ Listed(l) >= 1
  BY <1>4, StageIs DEF ItemStage
<1>6. /\ \A k \in StagesOf(c, p) : Follows(1, k)
      /\ c.state # "active" /\ s.state # "spawned" /\ Idle(c, q)
  <2>1. PICK t : t = ItemStage(l, m)
    OBVIOUS
  <2>2. t = 1 /\ t \in Nat \ {0} /\ t <= Listed(l) /\ t <= Listed(l) + 1
    BY <1>5, <2>1
  <2>3. QED BY <1>1, <1>2, <2>1, <2>2, HeadIs
<1>7. Calm(c, s, p)
  BY <1>2, <1>3, TailCalm
<1>8. PICK d : d = [c EXCEPT !.sounds = m.level, !.precache = None]
  OBVIOUS
<1>9. d \in ClientRecord
  BY <1>3, <1>4, <1>8 DEF ClientRecord
<1>10. /\ d.servercount = l /\ d.models = c.models /\ d.precache = None
       /\ d.disk = c.disk /\ d.message = c.message /\ d.cbuf = c.cbuf
       /\ d.state = c.state /\ d.waiting = c.waiting /\ d.method = c.method
       /\ d.download = c.download
  BY <1>1, <1>3, <1>8 DEF ClientRecord
<1>11. StagesOf(d, p) = StagesOf(c, p) /\ TurnOf(d, p)
  BY <1>1, <1>7, <1>10 DEF Calm, Ready, StagesOf, TurnOf
<1>12. ~Loaded(d) /\ d.precache # Bad
  BY <1>10, LevelIs DEF Loaded
<1>13. Ready(d, s, p)
  BY <1>6, <1>7, <1>10, <1>11, <1>12 DEF Calm, Ready, DiskWhole, Late, NoDrop, Linked
<1>14. Idle(d, p)
  BY <1>6, <1>7, <1>10 DEF Calm, Idle, Fetches
<1>15. PICK y : y = [cmd |-> "modellist", level |-> l, n |-> 0]
  OBVIOUS
<1>16. y \in Command /\ y.cmd = "modellist" /\ y.level = l /\ y.n = 0
  BY <1>4, <1>15 DEF Command
<1>17. CommandStage(l, y) = 1 + 1
  BY <1>16 DEF CommandStage, Leveled
<1>18. Ready(Send(d, y), s, p)
  BY <1>3, <1>6, <1>9, <1>10, <1>11, <1>13, <1>16, <1>17, NextReady
<1>19. Idle(Send(d, y), p)
  BY <1>9, <1>14, <1>16, SendIdle DEF IsBlock
<1>20. ParseSoundlist(c, m) = Send(d, y)
  BY <1>1, <1>3, <1>8, <1>10, <1>15 DEF ParseSoundlist
<1>21. QED BY <1>2, <1>18, <1>19, <1>20 DEF Calm

\* The list with one more model.
LEMMA ListIs ==
    ASSUME NEW q \in Seq(File), NEW k \in Nat, k <= Len(q), NEW x \in File,
           NEW w, w = [i \in 1..(IF k + 1 > Len(q) THEN k + 1 ELSE Len(q)) |->
                         IF i = k + 1 THEN x ELSE q[i]]
    PROVE  /\ w \in Seq(File) /\ w[k + 1] = x
           /\ k < Len(q) => Len(w) = Len(q) /\ (x = q[k + 1] => w = q)
           /\ k = Len(q) => Len(w) = k + 1
           /\ \A i \in DOMAIN q : i \in DOMAIN w /\ (i # k + 1 => w[i] = q[i])
<1>1. PICK z : z = Len(q)
  OBVIOUS
<1>2. z \in Nat /\ DOMAIN q = 1..z /\ (\A i \in 1..z : q[i] \in File) /\ k <= z
  BY <1>1
<1>3. PICK h : h = IF k + 1 > z THEN k + 1 ELSE z
  OBVIOUS
<1>4. h \in Nat /\ k + 1 \in 1..h /\ (k < z => h = z) /\ (k = z => h = k + 1)
      /\ z <= h
  <2>1. CASE k < z
    <3>1. h = z
      BY <1>2, <1>3, <2>1
    <3>2. QED BY <1>2, <2>1, <3>1
  <2>2. CASE k = z
    <3>1. h = k + 1
      BY <1>2, <1>3, <2>2
    <3>2. QED BY <1>2, <2>2, <3>1
  <2>3. QED BY <1>2, <2>1, <2>2
<1>5. w = [i \in 1..h |-> IF i = k + 1 THEN x ELSE q[i]]
  BY <1>1, <1>3
<1>6. ASSUME NEW i \in 1..h PROVE i = k + 1 \/ i \in 1..z
  <2>1. CASE k < z
    BY <1>4, <2>1
  <2>2. CASE k = z
    <3>1. h = z + 1 /\ i \in Nat /\ i <= h /\ i >= 1
      BY <1>4, <2>2
    <3>2. QED BY <1>2, <2>2, <3>1
  <2>3. QED BY <1>2, <2>1, <2>2
<1>7. \A i \in 1..h : (IF i = k + 1 THEN x ELSE q[i]) \in File
  BY <1>2, <1>6
<1>8. w \in Seq(File) /\ Len(w) = h /\ DOMAIN w = 1..h
  BY <1>4, <1>5, <1>7
<1>9. w[k + 1] = x /\ \A i \in 1..h : i # k + 1 => w[i] = q[i]
  BY <1>4, <1>5
<1>10. \A i \in DOMAIN q : i \in 1..h
  BY <1>2, <1>4
<1>11. k < z /\ x = q[k + 1] => w = q
  <2> SUFFICES ASSUME k < z, x = q[k + 1] PROVE w = q
    OBVIOUS
  <2>1. Len(w) = z
    BY <1>4, <1>8
  <2>2. \A i \in 1..z : w[i] = q[i]
    BY <1>4, <1>9
  <2>3. QED BY <1>1, <1>8, <2>1, <2>2
<1>12. k < z => Len(w) = z
  BY <1>4, <1>8
<1>13. k = z => Len(w) = k + 1
  BY <1>4, <1>8
<1>14. \A i \in DOMAIN q : i \in DOMAIN w /\ (i # k + 1 => w[i] = q[i])
  BY <1>8, <1>9, <1>10
<1>15. QED BY <1>1, <1>8, <1>9, <1>11, <1>12, <1>13, <1>14

LEMMA RequestUpset ==
    ASSUME NEW c \in ClientRecord, NEW f, c.overlap \/ c.waiting > 0
    PROVE  Request(c, f).overlap
BY DEF Request, Send, ClientRecord

\* A model of the list, and the end of it: a file that is under way then is in the
\* way of another.
LEMMA ParseModellistCalm ==
    ASSUME NEW c, NEW s, NEW n, NEW q \in Seq(Item), q # <<>>, Good(c, s, n, q),
           Calm(c, s, q), NEW m, m = Head(q), m.svc = "modellist"
    PROVE  UpsetOf(ParseModellist(c, m)) \/ Calm(ParseModellist(c, m), s, Tail(q))
<1>1. PICK l : l = c.servercount
  OBVIOUS
<1>2. PICK p : p = Tail(q)
  OBVIOUS
<1>3. /\ c \in ClientRecord /\ p \in Seq(Item) /\ m \in Item /\ ItemOK(c, s, n, m)
      /\ c.models \in Seq(File)
  <2>1. 1 \in DOMAIN q /\ m = q[1] /\ p \in Seq(Item) /\ m \in Item
    BY <1>2, TailIs
  <2>2. QED BY <2>1 DEF Good, ItemsOK, ClientRecord
<1>4. /\ m.level = l /\ l \in Level /\ m.n \in Nat /\ m.model \in File
      /\ m.n <= Len(c.models) /\ m.n < Len(Models[l]) /\ m.model = Models[l][m.n + 1]
      /\ m.next = IF m.n + 1 = Len(Models[l]) THEN 0 ELSE m.n + 1
  BY <1>1, <1>3, ItemIs DEF ItemOK, Reply, Tells
<1>5. /\ Listed(l) = Len(Models[l]) /\ Listed(l) \in Nat
      /\ Len(c.models) \in Nat
  BY <1>3, <1>4, StageIs
<1>6. PICK t : t = m.n + 2
  OBVIOUS
<1>7. t = ItemStage(l, m) /\ t \in Nat \ {0} /\ t <= Listed(l) + 1
  BY <1>4, <1>5, <1>6 DEF ItemStage
<1>8. /\ \A k \in StagesOf(c, p) : Follows(t, k)
      /\ c.state # "active" /\ s.state # "spawned"
      /\ t <= Listed(l) => Idle(c, q)
      /\ Idle(c, q) \/ c.type = "model"
  BY <1>1, <1>2, <1>7, HeadIs
<1>9. Calm(c, s, p)
  BY <1>2, <1>3, TailCalm
<1>10. PICK w : w = [i \in 1..(IF m.n + 1 > Len(c.models) THEN m.n + 1
                                                          ELSE Len(c.models)) |->
                       IF i = m.n + 1 THEN m.model ELSE c.models[i]]
  OBVIOUS
<1>11. /\ w \in Seq(File) /\ w[m.n + 1] = m.model
       /\ m.n < Len(c.models) => Len(w) = Len(c.models)
       /\ m.n < Len(c.models) /\ m.model = c.models[m.n + 1] => w = c.models
       /\ m.n = Len(c.models) => Len(w) = m.n + 1
       /\ \A i \in DOMAIN c.models : i # m.n + 1 => w[i] = c.models[i]
  <2>1. PICK k : k = m.n
    OBVIOUS
  <2>2. PICK ms : ms = c.models
    OBVIOUS
  <2>3. PICK x : x = m.model
    OBVIOUS
  <2>4. ms \in Seq(File) /\ k \in Nat /\ k <= Len(ms) /\ x \in File
    BY <1>3, <1>4, <2>1, <2>2, <2>3
  <2>5. w = [i \in 1..(IF k + 1 > Len(ms) THEN k + 1 ELSE Len(ms)) |->
               IF i = k + 1 THEN x ELSE ms[i]]
    BY <1>10, <2>1, <2>2, <2>3
  <2>6. /\ w \in Seq(File) /\ w[k + 1] = x
        /\ k < Len(ms) => Len(w) = Len(ms) /\ (x = ms[k + 1] => w = ms)
        /\ k = Len(ms) => Len(w) = k + 1
        /\ \A i \in DOMAIN ms : i \in DOMAIN w /\ (i # k + 1 => w[i] = ms[i])
    BY <2>4, <2>5, ListIs
  <2>7. QED BY <2>1, <2>2, <2>3, <2>6
<1>12. /\ c.models # <<>> => Len(c.models) <= Listed(l)
       /\ \A i \in DOMAIN c.models : c.models[i] = Models[l][i]
  <2>1. /\ c.models # <<>> => Len(c.models) <= Len(Models[l])
        /\ c.models # <<>> => \A i \in DOMAIN c.models : c.models[i] = Models[l][i]
    BY <1>1 DEF Good, ListsOK
  <2>2. QED BY <1>5, <2>1, EmptyIs
<1>13. Len(c.models) = Listed(l) => w = c.models
  <2> SUFFICES ASSUME Len(c.models) = Listed(l) PROVE w = c.models
    OBVIOUS
  <2>1. m.n < Len(c.models) /\ m.n + 1 \in DOMAIN c.models
    BY <1>3, <1>4, <1>5
  <2>2. QED BY <1>4, <1>11, <1>12, <2>1
<1>14. PICK d : d = [c EXCEPT !.models = w]
  OBVIOUS
<1>15. d \in ClientRecord
  BY <1>3, <1>11, <1>14 DEF ClientRecord
<1>16. /\ d.servercount = l /\ d.models = w /\ d.precache = c.precache
       /\ d.disk = c.disk /\ d.message = c.message /\ d.cbuf = c.cbuf
       /\ d.state = c.state /\ d.waiting = c.waiting /\ d.method = c.method
       /\ d.download = c.download /\ d.number = c.number /\ d.type = c.type
       /\ d.name = c.name
  BY <1>1, <1>3, <1>14 DEF ClientRecord
<1>17. StagesOf(d, p) = StagesOf(c, p) /\ TurnOf(d, p)
  BY <1>1, <1>9, <1>16 DEF Calm, Ready, StagesOf, TurnOf
<1>18. Ready(d, s, p)
  <2>1. Loaded(d) <=> Loaded(c)
    BY <1>16 DEF Loaded
  <2>2. Loaded(c) => w = c.models
    BY <1>1, <1>9, <1>13 DEF Calm, Ready, DiskWhole
  <2>3. DiskWhole(d)
    BY <1>1, <1>9, <1>16, <2>1, <2>2 DEF Calm, Ready, DiskWhole
  <2>4. Late(d, s, p) /\ NoDrop(d, p)
    BY <1>8, <1>9, <1>16 DEF Calm, Ready, Late, NoDrop, Linked
  <2>5. QED BY <1>17, <2>3, <2>4 DEF Ready
<1>19. ParseModellist(c, m) =
          IF m.next # 0
          THEN Send(d, [cmd |-> "modellist", level |-> c.servercount, n |-> m.next])
          ELSE ModelNextDownload([d EXCEPT !.number = 1])
  <2>1. [c EXCEPT !.models = [i \in 1..(IF m.n + 1 > Len(@) THEN m.n + 1
                                                            ELSE Len(@)) |->
                                IF i = m.n + 1 THEN m.model ELSE @[i]]] = d
    BY <1>10, <1>14
  <2>2. QED BY <2>1, Zenon DEF ParseModellist
<1>20. CASE m.next # 0
  <2>1. m.n + 1 # Len(Models[l]) /\ m.next = m.n + 1 /\ t <= Listed(l)
    BY <1>4, <1>5, <1>6, <1>20
  <2>2. PICK y : y = [cmd |-> "modellist", level |-> l, n |-> m.next]
    OBVIOUS
  <2>3. y \in Command /\ y.cmd = "modellist" /\ y.level = l /\ y.n = m.n + 1
    BY <1>4, <2>1, <2>2 DEF Command
  <2>4. CommandStage(l, y) = t + 1
    BY <1>4, <1>6, <2>3 DEF CommandStage, Leveled
  <2>5. Idle(d, p)
    BY <1>8, <1>9, <1>16, <2>1 DEF Calm, Idle, Fetches
  <2>6. Ready(Send(d, y), s, p)
    BY <1>3, <1>7, <1>8, <1>15, <1>16, <1>17, <1>18, <2>3, <2>4, NextReady
  <2>7. Idle(Send(d, y), p)
    BY <1>15, <2>3, <2>5, SendIdle DEF IsBlock
  <2>8. ParseModellist(c, m) = Send(d, y)
    BY <1>1, <1>20, <1>19, <2>2
  <2>9. QED BY <1>2, <2>6, <2>7, <2>8 DEF Calm
<1>21. CASE m.next = 0
  <2>1. m.n + 1 = Listed(l) /\ t = Listed(l) + 1
    BY <1>4, <1>5, <1>6, <1>21
  <2>2. PICK e : e = [d EXCEPT !.number = 1]
    OBVIOUS
  <2>3. e \in ClientRecord
    BY <1>15, <2>2 DEF ClientRecord
  <2>4. /\ e.servercount = l /\ e.models = w /\ e.precache = d.precache
        /\ e.disk = d.disk /\ e.message = d.message /\ e.cbuf = d.cbuf
        /\ e.state = d.state /\ e.waiting = d.waiting /\ e.method = d.method
        /\ e.download = d.download /\ e.number = 1 /\ e.type = d.type
        /\ e.name = d.name
    BY <1>15, <1>16, <2>2 DEF ClientRecord
  <2>5. ParseModellist(c, m) = ModelNextDownload(e)
    BY <1>21, <1>19, <2>2
  <2>6. Linked(d)
    BY <1>18 DEF Ready, NoDrop
  <2>7. Ready(e, s, p) /\ StagesOf(e, p) = StagesOf(d, p)
    <3>1. /\ e.servercount = d.servercount /\ e.models = d.models
          /\ e.precache = d.precache /\ e.disk = d.disk /\ e.message = d.message
          /\ e.cbuf = d.cbuf /\ e.state = d.state /\ Linked(e)
      BY <1>16, <2>4, <2>6 DEF Linked
    <3>2. QED BY <1>18, <3>1, SameReady
  <2>8. CASE Idle(c, q)
    <3>1. Idle(e, p)
      BY <1>9, <1>16, <2>4, <2>8 DEF Calm, Idle, Fetches
    <3>2. Len(w) = Listed(l) /\ w[1] = Models[l][1]
      <4>1. CASE c.models = <<>>
        <5>1. Len(c.models) = 0 /\ m.n = 0
          BY <1>4, <4>1, EmptyIs
        <5>2. QED BY <1>4, <1>11, <2>1, <5>1
      <4>2. CASE c.models # <<>>
        <5>1. Len(c.models) <= Listed(l) /\ 1 \in DOMAIN c.models
          BY <1>3, <1>12, <4>2, TailIs
        <5>2. m.n < Len(c.models) \/ m.n = Len(c.models)
          BY <1>4, <1>5
        <5>3. Len(w) = Listed(l)
          BY <1>4, <1>5, <1>11, <2>1, <5>1, <5>2
        <5>4. w[1] = Models[l][1]
          <6>1. 1 = m.n + 1 => w[1] = Models[l][1]
            BY <1>4, <1>11
          <6>2. QED BY <1>11, <1>12, <5>1, <6>1
        <5>5. QED BY <5>3, <5>4
      <4>3. QED BY <4>1, <4>2
    <3>3. \A i \in DOMAIN w : ~(i < 1)
      BY <1>11
    <3>4. \A k \in StagesOf(e, p) : Follows(Listed(l) + 1, k)
      BY <1>8, <1>17, <2>1, <2>7
    <3>5. \A i \in DOMAIN e.models : i < e.number => e.disk[e.models[i]] # <<>>
      BY <2>4, <3>3
    <3>6. Calm(ModelNextDownload(e), s, p)
      BY <1>3, <1>4, <1>8, <1>16, <2>3, <2>4, <2>7, <3>1, <3>2, <3>4, <3>5,
         ModelNextDownloadCalm
    <3>7. QED BY <1>2, <2>5, <3>6
  <2>9. CASE ~Idle(c, q)
    <3>1. Fetches(c, s, q) /\ c.type = "model"
      BY <1>8, <2>9 DEF Calm
    <3>2. /\ c.waiting = 1 /\ c.disk[c.name] = <<>> /\ c.number \in Nat
          /\ c.number - 1 \in DOMAIN c.models /\ c.name = c.models[c.number - 1]
          /\ Len(c.models) = Listed(l)
      <4>1. c.disk[c.name] = <<>>
        BY <3>1, FetchIs
      <4>2. c.number \in Nat
        BY <1>3 DEF ClientRecord
      <4>3. QED BY <1>1, <3>1, <4>1, <4>2 DEF Fetches, Purpose
    <3>3. w = c.models
      BY <1>13, <3>2
    <3>4. PICK missing : missing = {i \in DOMAIN e.models :
                                      i >= e.number /\ e.disk[e.models[i]] = <<>>}
      OBVIOUS
    <3>5. missing # {}
      <4>1. c.number - 1 >= 1
        BY <1>3, <3>2
      <4>2. c.number - 1 \in missing
        BY <1>16, <2>4, <3>2, <3>3, <3>4, <4>1
      <4>3. QED BY <4>2
    <3>6. PICK first : first = CHOOSE i \in missing : \A j \in missing : i <= j
      OBVIOUS
    <3>7. PICK g : g = [e EXCEPT !.type = "model", !.number = first]
      OBVIOUS
    <3>8. g.waiting = 1 /\ ModelNextDownload(e) = Request(g, e.models[first])
      <4>1. ModelNextDownload(e) = Request(g, e.models[first])
        BY <3>4, <3>5, <3>6, <3>7 DEF ModelNextDownload
      <4>2. g.waiting = e.waiting
        BY <2>3, <3>7 DEF ClientRecord
      <4>3. QED BY <1>16, <2>4, <3>2, <4>1, <4>2
    <3>9. Request(g, e.models[first]).overlap
      <4>1. first \in Nat
        <5>1. missing \in SUBSET Nat
          <6>1. e.models \in Seq(File)
            BY <2>3 DEF ClientRecord
          <6>2. QED BY <3>4, <6>1
        <5>2. QED BY <3>5, <3>6, <5>1, LeastIs
      <4>2. g \in ClientRecord
        BY <2>3, <3>7, <4>1 DEF ClientRecord
      <4>3. QED BY <3>8, <4>2, RequestUpset
    <3>10. QED BY <2>5, <3>8, <3>9 DEF UpsetOf
  <2>10. QED BY <2>8, <2>9
<1>22. QED BY <1>20, <1>21

LEMMA FirstIs ==
    ASSUME NEW c, NEW s, NEW n, NEW q \in Seq(Item), q # <<>>, Good(c, s, n, q)
    PROVE  /\ First(c, s, n, Head(q), Tail(q)) /\ Good(c, s, n, Tail(q))
           /\ Tail(q) \in Seq(Item)
<1>1. /\ Tail(q) \in Seq(Item) /\ Head(q) \in Item /\ 1 \in DOMAIN q
      /\ Head(q) = q[1] /\ Sub(Tail(q), q)
      /\ \A i \in DOMAIN Tail(q) : /\ i + 1 \in DOMAIN q /\ 1 < i + 1
                                   /\ Tail(q)[i] = q[i + 1]
  BY TailIs
<1>2. Good(c, s, n, Tail(q))
  BY <1>1, SubGood
<1>3. ItemsOK(c, s, n, q)
  BY DEF Good
<1>4. First(c, s, n, Head(q), Tail(q))
  BY <1>1, <1>3 DEF First, ItemsOK
<1>5. QED BY <1>1, <1>2, <1>4

\* The client has no sounds: of its level nothing is on its way but what is of the
\* sounds.
LEMMA FreshIs ==
    ASSUME NEW c, NEW s, NEW n, NEW q, Good(c, s, n, q), DiskWhole(c),
           c.sounds = 0, c.servercount \in Level
    PROVE  StagesOf(c, q) \subseteq {0, 1} /\ TurnOf(c, q) /\ ~Loaded(c)
<1>1. PICK l : l = c.servercount
  OBVIOUS
<1>2. /\ c.cbuf \in Seq(Item) /\ q \in Seq(Item) /\ c.message \in Seq(Command)
      /\ l # 0 /\ ~Loaded(c)
  BY <1>1, LevelIs, LoadedIs DEF Good, ClientRecord, ItemsOK
<1>3. ASSUME NEW i \in DOMAIN c.cbuf PROVE ItemStage(l, c.cbuf[i]) \in {0, 1}
  <2>1. c.cbuf[i].svc \in Text /\ c.cbuf[i].svc \notin {"spawn", "skins"}
    BY <1>2 DEF Good, TextOK
  <2>2. QED BY <2>1 DEF ItemStage, Text
<1>4. ASSUME NEW i \in DOMAIN q PROVE ItemStage(l, q[i]) \in {0, 1}
  <2>1. PICK x : x = q[i]
    OBVIOUS
  <2>2. ItemOK(c, s, n, x)
    BY <2>1 DEF Good, ItemsOK
  <2>3. x.svc \notin {"modellist", "spawn", "skins"}
    BY <1>1, <1>2, <2>2 DEF ItemOK
  <2>4. QED BY <2>1, <2>3 DEF ItemStage
<1>5. ASSUME NEW i \in DOMAIN c.message PROVE CommandStage(l, c.message[i]) \in {0, 1}
  <2>1. PICK y : y = c.message[i]
    OBVIOUS
  <2>2. y \in Command /\ CommandOK(c, y)
    BY <1>2, <2>1 DEF Good, CommandsOK
  <2>3. CASE ~(y.cmd \in Leveled /\ y.level = l)
    BY <2>1, <2>3 DEF CommandStage
  <2>4. CASE y.cmd \in Leveled /\ y.level = l
    <3>1. y.cmd \notin {"modellist", "spawn", "begin"}
      BY <1>1, <1>2, <2>2, <2>4 DEF CommandOK
    <3>2. y.cmd # "prespawn"
      <4>1. ASSUME y.cmd = "prespawn" PROVE FALSE
        <5>1. y.check = Models[l][1]
          BY <2>1, <2>4, <4>1 DEF DiskWhole
        <5>2. y.check # Bad
          BY <1>1, <5>1, LevelIs
        <5>3. QED BY <1>1, <1>2, <2>2, <2>4, <4>1, <5>2 DEF CommandOK
      <4>2. QED BY <4>1
    <3>3. QED BY <2>1, <2>4, <3>1, <3>2 DEF CommandStage, Leveled
  <2>5. QED BY <2>3, <2>4
<1>6. Turn(l, c.cbuf, q, c.message)
  <2>1. \A j, k \in {0, 1} : Follows(j, k)
    BY DEF Follows
  <2>2. QED BY <1>3, <1>4, <1>5, <2>1 DEF Turn
<1>7. QED BY <1>1, <1>2, <1>3, <1>4, <1>5, <1>6 DEF StagesOf, Stages, TurnOf

\* The data of a level: a file that was asked for is crossed by it, and one that
\* is open has nothing of a signon behind it.
LEMMA ParseServerDataCalm ==
    ASSUME NEW c, NEW s, NEW n, NEW q \in Seq(Item), q # <<>>, Good(c, s, n, q),
           Calm(c, s, q), NEW m, m = Head(q), m.svc = "serverdata", c.cbuf = <<>>
    PROVE  UpsetOf(ParseServerData(c, m)) \/ Calm(ParseServerData(c, m), s, Tail(q))
<1>1. PICK p : p = Tail(q)
  OBVIOUS
<1>2. /\ p \in Seq(Item) /\ First(c, s, n, m, p) /\ Good(c, s, n, p)
      /\ 1 \in DOMAIN q /\ m = q[1] /\ m \in Item
  BY <1>1, FirstIs, TailIs
<1>3. PICK d : d = ParseServerData(c, m)
  OBVIOUS
<1>4. Good(d, s, n, p)
  BY <1>2, <1>3, ParseServerDataGood
<1>5. /\ c \in ClientRecord /\ c.message \in Seq(Command) /\ m.level \in Level
      /\ c.sent \in Nat /\ c.sent <= Len(c.message)
  BY <1>2, ItemIs DEF Good, StateOK, ClientRecord, Tells
<1>6. PICK y : y = [cmd |-> "soundlist", level |-> m.level]
  OBVIOUS
<1>7. y \in Command /\ y.cmd = "soundlist"
  BY <1>5, <1>6 DEF Command
<1>8. PICK w : w = Append(Sent(c), y)
  OBVIOUS
<1>9. /\ d.servercount = m.level /\ d.sounds = 0 /\ d.precache = None
      /\ d.disk = c.disk /\ d.message = w /\ d.state = "onserver"
      /\ d.download = c.download /\ d.method = c.method /\ d.waiting = c.waiting
      /\ Awaits(c) => d.crossed
  <2>1. Linked(c)
    BY DEF Calm, Ready, NoDrop
  <2>2. QED BY <1>3, <1>5, <1>6, <1>8, <2>1 DEF ParseServerData, Send, ClientRecord
<1>10. \A i \in DOMAIN w : (i \in DOMAIN c.message /\ w[i] = c.message[i]) \/ w[i] = y
  <2>1. /\ Sent(c) \in Seq(Command)
        /\ \A i \in DOMAIN Sent(c) : i \in DOMAIN c.message /\ Sent(c)[i] = c.message[i]
    BY <1>5, PrefixIs DEF Sent
  <2>2. QED BY <1>7, <1>8, <2>1, AddedIs
<1>11. Calm(c, s, p)
  BY <1>1, <1>5, TailCalm
<1>12. DiskWhole(d)
  <2>1. ~Loaded(d) /\ d.precache # Bad
    BY <1>9, LevelIs DEF Loaded
  <2>2. \A i \in DOMAIN w : w[i].cmd = "prespawn" => w[i].check = Models[w[i].level][1]
    BY <1>7, <1>10, <1>11 DEF Calm, Ready, DiskWhole
  <2>3. \A f \in File : c.disk[f] \in {<<>>, Whole(f)}
    BY <1>11 DEF Calm, Ready, DiskWhole
  <2>4. QED BY <1>9, <2>1, <2>2, <2>3 DEF DiskWhole
<1>13. TurnOf(d, p) /\ ~Loaded(d)
  BY <1>4, <1>5, <1>9, <1>12, FreshIs
<1>14. s.state # "spawned"
  BY <1>4, <1>13 DEF Good, SlotOK
<1>15. Late(d, s, p)
  BY <1>9, <1>14 DEF Late
<1>16. NoDrop(d, p)
  BY <1>7, <1>9, <1>10, <1>11 DEF Calm, Ready, NoDrop, Linked
<1>17. Ready(d, s, p)
  BY <1>12, <1>13, <1>15, <1>16 DEF Ready
<1>18. CASE Idle(c, p)
  <2>1. Idle(d, p)
    BY <1>7, <1>9, <1>10, <1>18 DEF Idle, IsBlock
  <2>2. QED BY <1>1, <1>3, <1>17, <2>1 DEF Calm
<1>19. CASE ~Idle(c, p)
  <2>1. Fetches(c, s, q)
    BY <1>11, <1>19 DEF Calm, Idle, Fetches
  <2>2. c.download = None
    BY <1>2, <2>1 DEF Fetches, Quiet, Signal
  <2>3. Awaits(c)
    BY <2>1, <2>2 DEF Fetches, Awaits
  <2>4. QED BY <1>3, <1>9, <2>3 DEF UpsetOf
<1>20. QED BY <1>18, <1>19

-----------------------------------------------------------------------------
(* Text that is stuffed and executed, when no file got in the way *)

LEMMA TextCalm ==
    ASSUME NEW c \in ClientRecord, NEW s, NEW q \in Seq(Item), Calm(c, s, q),
           NEW p \in Seq(Item), Sub(p, q), NEW b \in Seq(Item),
           NEW d, d = [c EXCEPT !.cbuf = b],
           TurnOf(d, p), StagesOf(d, p) \subseteq StagesOf(c, q)
    PROVE  Calm(d, s, p)
<1>1. PICK e : e = [c EXCEPT !.message = c.message]
  OBVIOUS
<1>2. e = c /\ c.message \in Seq(Command) /\ Sub(c.message, c.message)
  BY <1>1, AllIs DEF ClientRecord
<1>3. Calm(c, s, p)
  BY <1>1, <1>2, SubCalm
<1>4. /\ d.servercount = c.servercount /\ d.models = c.models
      /\ d.precache = c.precache /\ d.disk = c.disk /\ d.message = c.message
      /\ d.state = c.state /\ d.download = c.download /\ d.method = c.method
      /\ d.waiting = c.waiting /\ d.type = c.type /\ d.number = c.number
      /\ d.name = c.name /\ d.tmp = c.tmp
  BY DEF ClientRecord
<1>5. Loaded(d) <=> Loaded(c)
  BY <1>4 DEF Loaded
<1>6. DiskWhole(d) /\ NoDrop(d, p)
  BY <1>3, <1>4, <1>5 DEF Calm, Ready, DiskWhole, NoDrop, Linked
<1>7. \A k : From(k, StagesOf(c, q)) => From(k, StagesOf(d, p))
  BY DEF From
<1>8. Late(d, s, p)
  BY <1>4, <1>5, <1>7 DEF Calm, Ready, Late
<1>9. Idle(c, p) => Idle(d, p)
  BY <1>4 DEF Idle
<1>10. ASSUME Fetches(c, s, q), Fetches(c, s, p) PROVE Fetches(d, s, p)
  <2>1. \A y : AskOK(c, s, y) => AskOK(d, s, y)
    BY <1>4 DEF AskOK
  <2>2. \A x : BlockOK(c, s, x) => BlockOK(d, s, x)
    BY <1>4 DEF BlockOK
  <2>3. Alone(d, p) /\ Quiet(d, p)
    BY <1>4, <1>10 DEF Fetches, Alone, Quiet
  <2>4. Purpose(d, p)
    BY <1>4, <1>7, <1>10 DEF Fetches, Purpose
  <2>5. QED BY <1>4, <1>10, <2>1, <2>2, <2>3, <2>4 DEF Fetches
<1>11. Idle(c, q) => Idle(c, p)
  BY <1>3 DEF Idle, Calm, Fetches
<1>12. QED BY <1>3, <1>6, <1>8, <1>9, <1>10, <1>11 DEF Calm, Ready

LEMMA StuffCalm ==
    ASSUME NEW c, NEW s, NEW n, NEW q \in Seq(Item), q # <<>>, Good(c, s, n, q),
           Calm(c, s, q), Head(q).svc \in Text
    PROVE  Calm([c EXCEPT !.cbuf = Append(@, Head(q))], s, Tail(q))
<1>1. PICK b : b = Append(c.cbuf, Head(q))
  OBVIOUS
<1>2. PICK p : p = Tail(q)
  OBVIOUS
<1>3. PICK d : d = [c EXCEPT !.cbuf = b]
  OBVIOUS
<1>4. /\ c \in ClientRecord /\ c.cbuf \in Seq(Item) /\ Head(q) \in Item
      /\ p \in Seq(Item) /\ Sub(p, q)
  BY <1>2, TailIs DEF Good, ClientRecord
<1>5. b \in Seq(Item)
  BY <1>1, <1>4, AppendIs
<1>6. d.servercount = c.servercount /\ d.cbuf = b /\ d.message = c.message
  BY <1>3, <1>4, <1>5 DEF ClientRecord
<1>7. TurnOf(d, p) /\ StagesOf(d, p) \subseteq StagesOf(c, q)
  <2>1. Turn(c.servercount, c.cbuf, q, c.message)
    BY DEF Calm, Ready, TurnOf
  <2>2. /\ Turn(c.servercount, b, p, c.message)
        /\ Stages(c.servercount, b, p, c.message)
              \subseteq Stages(c.servercount, c.cbuf, q, c.message)
    BY <1>1, <1>2, <1>4, <2>1, TurnText
  <2>3. QED BY <1>6, <2>2 DEF TurnOf, StagesOf
<1>8. Calm(d, s, p)
  BY <1>3, <1>4, <1>5, <1>7, TextCalm
<1>9. [c EXCEPT !.cbuf = Append(@, Head(q))] = d
  BY <1>1, <1>3
<1>10. QED BY <1>2, <1>8, <1>9

\* Without the text at the head: what is left follows it.
LEMMA FlushCalm ==
    ASSUME NEW c, NEW s, NEW n, NEW q, Good(c, s, n, q), Calm(c, s, q),
           c.cbuf # <<>>, NEW d, d = [c EXCEPT !.cbuf = Tail(c.cbuf)]
    PROVE  /\ Calm(d, s, q)
           /\ \A k \in StagesOf(d, q) :
                 Follows(ItemStage(d.servercount, Head(c.cbuf)), k)
<1>1. PICK b : b = Tail(c.cbuf)
  OBVIOUS
<1>2. /\ c \in ClientRecord /\ c.cbuf \in Seq(Item) /\ q \in Seq(Item)
      /\ c.message \in Seq(Command)
  BY DEF Good, ClientRecord, ItemsOK
<1>3. b \in Seq(Item) /\ Sub(b, c.cbuf)
  BY <1>1, <1>2, TailIs
<1>4. d.servercount = c.servercount /\ d.cbuf = b /\ d.message = c.message
  BY <1>1, <1>2, <1>3 DEF ClientRecord
<1>5. Turn(c.servercount, c.cbuf, q, c.message)
  BY DEF Calm, Ready, TurnOf
<1>6. Sub(q, q) /\ Sub(c.message, c.message)
  BY <1>2, AllIs
<1>7. TurnOf(d, q) /\ StagesOf(d, q) \subseteq StagesOf(c, q)
  <2>1. /\ Turn(c.servercount, b, q, c.message)
        /\ Stages(c.servercount, b, q, c.message)
              \subseteq Stages(c.servercount, c.cbuf, q, c.message)
    BY <1>3, <1>5, <1>6, TurnSub
  <2>2. QED BY <1>4, <2>1 DEF TurnOf, StagesOf
<1>8. Calm(d, s, q)
  BY <1>1, <1>2, <1>3, <1>6, <1>7, TextCalm
<1>9. \A k \in Stages(c.servercount, b, q, c.message) :
         Follows(ItemStage(c.servercount, Head(c.cbuf)), k)
  BY <1>1, <1>2, <1>5, TurnFirst
<1>10. QED BY <1>4, <1>8, <1>9 DEF StagesOf

LEMMA SpawnTextCalm ==
    ASSUME NEW c, NEW s, NEW n, NEW q, Good(c, s, n, q), Calm(c, s, q),
           c.cbuf # <<>>, NEW m, m = Head(c.cbuf), m.svc = "spawn",
           NEW d, d = [c EXCEPT !.cbuf = Tail(c.cbuf)]
    PROVE  Calm(Stuffed(d, m), s, q)
<1>1. PICK l : l = c.servercount
  OBVIOUS
<1>2. /\ c \in ClientRecord /\ c.cbuf \in Seq(Item) /\ q \in Seq(Item)
      /\ 1 \in DOMAIN c.cbuf /\ m = c.cbuf[1] /\ m \in Item /\ Tail(c.cbuf) \in Seq(Item)
  BY TailIs DEF Good, ClientRecord, ItemsOK
<1>3. m.level = l /\ l \in Level /\ Listed(l) \in Nat
  <2>1. m.level = l
    BY <1>1, <1>2 DEF Good, TextOK
  <2>2. m.level \in Level
    BY <1>2, ItemIs DEF Tells, Reply
  <2>3. QED BY <2>1, <2>2, StageIs
<1>4. PICK t : t = Listed(l) + 2
  OBVIOUS
<1>5. t \in Nat \ {0} /\ t + 1 = Listed(l) + 3 /\ ItemStage(l, m) = t
  BY <1>3, <1>4 DEF ItemStage
<1>6. t \in StagesOf(c, q) /\ ~From(Listed(l) + 3, StagesOf(c, q))
  <2>1. t \in StagesOf(c, q)
    BY <1>1, <1>2, <1>5, StagesAre DEF StagesOf
  <2>2. QED BY <1>3, <1>4, <1>5, <2>1 DEF From
<1>7. Idle(c, q) /\ c.state # "active" /\ s.state # "spawned"
  <2>1. c.state # "active" /\ s.state # "spawned"
    BY <1>1, <1>6 DEF Calm, Ready, Late
  <2>2. Loaded(c)
    BY <1>2 DEF Good, TextOK
  <2>3. ~Fetches(c, s, q)
    <3>1. Fetches(c, s, q) => c.type # "model"
      BY <2>2, FetchIs
    <3>2. QED BY <1>1, <1>6, <3>1 DEF Fetches, Purpose
  <2>4. QED BY <2>1, <2>3 DEF Calm
<1>8. /\ Calm(d, s, q) /\ \A k \in StagesOf(d, q) : Follows(t, k)
  <2>1. d.servercount = l
    BY <1>1, <1>2 DEF ClientRecord
  <2>2. /\ Calm(d, s, q)
        /\ \A k \in StagesOf(d, q) : Follows(ItemStage(d.servercount, m), k)
    BY FlushCalm
  <2>3. QED BY <1>5, <2>1, <2>2
<1>9. /\ d \in ClientRecord /\ d.servercount = l /\ d.state = c.state
      /\ d.waiting = c.waiting /\ d.method = c.method /\ d.download = c.download
      /\ d.message = c.message
  BY <1>1, <1>2 DEF ClientRecord
<1>10. PICK y : y = [cmd |-> "spawn", level |-> m.level]
  OBVIOUS
<1>11. y \in Command /\ y.cmd = "spawn" /\ y.level = l
  BY <1>3, <1>10 DEF Command
<1>12. CommandStage(l, y) = t + 1
  BY <1>5, <1>11 DEF CommandStage, Leveled
<1>13. Ready(Send(d, y), s, q)
  BY <1>2, <1>5, <1>7, <1>8, <1>9, <1>11, <1>12, NextReady DEF Calm
<1>14. Idle(d, q)
  BY <1>7, <1>9 DEF Idle
<1>15. Idle(Send(d, y), q)
  BY <1>9, <1>11, <1>14, SendIdle DEF IsBlock
<1>16. Linked(d)
  BY <1>8 DEF Calm, Ready, NoDrop
<1>17. QED BY <1>10, <1>13, <1>15, <1>16 DEF Stuffed, Calm

\* The type of the last download is forgotten.
LEMMA TypeCalm ==
    ASSUME NEW c \in ClientRecord, NEW s, NEW q, Calm(c, s, q),
           Fetches(c, s, q) => c.type # "model",
           NEW d, d = [c EXCEPT !.number = 1, !.type = "none"]
    PROVE  d \in ClientRecord /\ Calm(d, s, q) /\ StagesOf(d, q) = StagesOf(c, q)
<1>1. PICK e : e = d
  OBVIOUS
<1>2. /\ e.servercount = c.servercount /\ e.models = c.models
      /\ e.precache = c.precache /\ e.disk = c.disk /\ e.message = c.message
      /\ e.state = c.state /\ e.download = c.download /\ e.method = c.method
      /\ e.waiting = c.waiting /\ e.type = "none" /\ e.cbuf = c.cbuf
      /\ e.name = c.name /\ e.tmp = c.tmp /\ e \in ClientRecord
  BY <1>1 DEF ClientRecord
<1>3. Ready(e, s, q) /\ StagesOf(e, q) = StagesOf(c, q)
  <2>1. Ready(c, s, q) /\ Linked(c)
    BY DEF Calm, Ready, NoDrop
  <2>2. Linked(e) /\ (e.state = "active" => c.state = "active")
    BY <1>2, <2>1 DEF Linked
  <2>3. /\ e.servercount = c.servercount /\ e.models = c.models
        /\ e.precache = c.precache /\ e.disk = c.disk /\ e.message = c.message
        /\ e.cbuf = c.cbuf
    BY <1>2
  <2>4. QED BY <2>1, <2>2, <2>3, SameReady
<1>4. Idle(c, q) => Idle(e, q)
  BY <1>2 DEF Idle
<1>5. ASSUME Fetches(c, s, q) PROVE Fetches(e, s, q)
  <2>1. \A y : AskOK(c, s, y) => AskOK(e, s, y)
    BY <1>2 DEF AskOK
  <2>2. \A x : BlockOK(c, s, x) => BlockOK(e, s, x)
    BY <1>2 DEF BlockOK
  <2>3. Alone(e, q) /\ Quiet(e, q)
    BY <1>2, <1>5 DEF Fetches, Alone, Quiet
  <2>4. Purpose(e, q)
    BY <1>2, <1>3, <1>5 DEF Fetches, Purpose
  <2>5. QED BY <1>2, <1>5, <2>1, <2>2, <2>3, <2>4 DEF Fetches
<1>6. QED BY <1>1, <1>2, <1>3, <1>4, <1>5 DEF Calm

LEMMA SkinsTextCalm ==
    ASSUME NEW c, NEW s, NEW n, NEW q, Good(c, s, n, q), Calm(c, s, q),
           c.cbuf # <<>>, NEW m, m = Head(c.cbuf), m.svc = "skins",
           NEW d, d = [c EXCEPT !.cbuf = Tail(c.cbuf)]
    PROVE  Calm(Stuffed(d, m), s, q)
<1>1. PICK l : l = c.servercount
  OBVIOUS
<1>2. /\ c \in ClientRecord /\ c.cbuf \in Seq(Item) /\ q \in Seq(Item)
      /\ 1 \in DOMAIN c.cbuf /\ m = c.cbuf[1] /\ Tail(c.cbuf) \in Seq(Item)
  BY TailIs DEF Good, ClientRecord, ItemsOK
<1>3. Loaded(c) /\ l \in Level /\ Listed(l) \in Nat
  <2>1. Loaded(c)
    BY <1>2 DEF Good, TextOK
  <2>2. QED BY <1>1, <2>1, LoadedIs, StageIs
<1>4. PICK t : t = Listed(l) + 3
  OBVIOUS
<1>5. t \in Nat \ {0} /\ t + 1 >= Listed(l) + 3 /\ t + 1 = Listed(l) + 4
      /\ ItemStage(l, m) = t
  BY <1>3, <1>4 DEF ItemStage
<1>6. /\ d \in ClientRecord /\ d.servercount = l /\ d.state = c.state
      /\ d.waiting = c.waiting /\ d.method = c.method /\ d.download = c.download
      /\ d.message = c.message /\ d.precache = c.precache
  BY <1>1, <1>2 DEF ClientRecord
<1>7. /\ Calm(d, s, q) /\ \A k \in StagesOf(d, q) : Follows(t, k)
  <2>1. /\ Calm(d, s, q)
        /\ \A k \in StagesOf(d, q) : Follows(ItemStage(d.servercount, m), k)
    BY FlushCalm
  <2>2. QED BY <1>5, <1>6, <2>1
<1>8. Fetches(d, s, q) => d.type # "model"
  <2>1. Good(d, s, n, q)
    <3>1. Loaded(d) <=> Loaded(c)
      BY <1>6 DEF Loaded
    <3>2. \A i \in DOMAIN Tail(c.cbuf) : i + 1 \in DOMAIN c.cbuf
                                          /\ Tail(c.cbuf)[i] = c.cbuf[i + 1]
      BY <1>2, TailIs
    <3>3. d.cbuf = Tail(c.cbuf)
      BY <1>2 DEF ClientRecord
    <3>4. TextOK(d, n)
      BY <1>1, <1>6, <3>1, <3>2, <3>3 DEF Good, TextOK
    <3>5. QED BY <1>2, <3>4, TextGood
  <2>2. Loaded(d)
    BY <1>3, <1>6 DEF Loaded
  <2>3. QED BY <1>7, <2>1, <2>2, FetchIs
<1>9. PICK e : e = [d EXCEPT !.number = 1, !.type = "none"]
  OBVIOUS
<1>10. e \in ClientRecord /\ Calm(e, s, q) /\ StagesOf(e, q) = StagesOf(d, q)
  <2>1. PICK g : g = d
    OBVIOUS
  <2>2. g \in ClientRecord /\ Calm(g, s, q) /\ (Fetches(g, s, q) => g.type # "model")
    BY <1>6, <1>7, <1>8, <2>1
  <2>3. e = [g EXCEPT !.number = 1, !.type = "none"]
    BY <1>9, <2>1
  <2>4. e \in ClientRecord /\ Calm(e, s, q) /\ StagesOf(e, q) = StagesOf(g, q)
    BY <2>2, <2>3, TypeCalm
  <2>5. QED BY <2>1, <2>4
<1>11. e.servercount = l /\ e.state = d.state /\ e.type = "none"
  BY <1>6, <1>9 DEF ClientRecord
<1>12. PICK y : y = [cmd |-> "begin", level |-> l]
  OBVIOUS
<1>13. y \in Command /\ y.cmd = "begin" /\ y.level = l
  BY <1>3, <1>12 DEF Command
<1>14. Stuffed(d, m) = IF e.state = "onserver" THEN Send(e, y) ELSE e
  <2>1. Stuffed(d, m) = SkinNextDownload([d EXCEPT !.number = 1])
    BY DEF Stuffed
  <2>2. PICK g : g = [d EXCEPT !.number = 1]
    OBVIOUS
  <2>3. e = [g EXCEPT !.type = "none"] /\ g.state = e.state
    BY <1>6, <1>9, <2>2 DEF ClientRecord
  <2>4. QED BY <1>11, <1>12, <2>1, <2>2, <2>3 DEF SkinNextDownload
<1>15. CASE e.state # "onserver"
  BY <1>10, <1>14, <1>15
<1>16. CASE e.state = "onserver"
  <2>1. Idle(e, q)
    BY <1>10, <1>11, <1>16 DEF Calm, Fetches, Purpose
  <2>2. CommandStage(l, y) = t + 1
    BY <1>5, <1>13 DEF CommandStage, Leveled
  <2>3. Ready(Send(e, y), s, q)
    BY <1>2, <1>5, <1>7, <1>10, <1>11, <1>13, <2>2, NextReady DEF Calm
  <2>4. Idle(Send(e, y), q)
    BY <1>10, <1>13, <2>1, SendIdle DEF IsBlock
  <2>5. QED BY <1>14, <1>16, <2>3, <2>4 DEF Calm
<1>17. QED BY <1>15, <1>16

\* The client asks for another level: a file that it has asked for is crossed.
LEMMA ChangeCalm ==
    ASSUME NEW c \in ClientRecord, NEW s, NEW q \in Seq(Item), Calm(c, s, q),
           c.download = None
    PROVE  UpsetOf(Change(c)) \/ Calm(Change(c), s, q)
<1>1. Ready(c, s, q) /\ Linked(c)
  BY DEF Calm, Ready, NoDrop
<1>2. PICK crossed : crossed = (c.crossed \/ Awaits(c))
  OBVIOUS
<1>3. PICK e : e = [c EXCEPT !.state = "connected", !.crossed = crossed]
  OBVIOUS
<1>4. /\ e.servercount = c.servercount /\ e.models = c.models
      /\ e.precache = c.precache /\ e.disk = c.disk /\ e.message = c.message
      /\ e.state = "connected" /\ e.download = c.download /\ e.method = c.method
      /\ e.waiting = c.waiting /\ e.cbuf = c.cbuf /\ e.crossed = crossed
      /\ e \in ClientRecord
  <2>1. crossed \in BOOLEAN
    BY <1>2
  <2>2. e \in ClientRecord
    BY <1>3, <2>1 DEF ClientRecord
  <2>3. /\ e.servercount = c.servercount /\ e.models = c.models
        /\ e.precache = c.precache /\ e.disk = c.disk /\ e.message = c.message
        /\ e.state = "connected"
    BY <1>3 DEF ClientRecord
  <2>4. /\ e.download = c.download /\ e.method = c.method
        /\ e.waiting = c.waiting /\ e.cbuf = c.cbuf /\ e.crossed = crossed
    BY <1>3 DEF ClientRecord
  <2>5. QED BY <2>2, <2>3, <2>4
<1>5. PICK y : y = [cmd |-> "new"]
  OBVIOUS
<1>6. y \in Command /\ y.cmd = "new"
  BY <1>5 DEF Command
<1>7. Change(c) = Send(e, y)
  BY <1>1, <1>2, <1>3, <1>5 DEF Change
<1>8. CASE Idle(c, q)
  <2>1. Ready(e, s, q)
    BY <1>1, <1>4, SameReady DEF Linked
  <2>2. Idle(e, q)
    BY <1>4, <1>8 DEF Idle
  <2>3. CommandStage(e.servercount, y) = 0
    BY <1>6 DEF CommandStage, Leveled
  <2>4. Ready(Send(e, y), s, q)
    BY <1>4, <1>6, <2>1, <2>3, SendReady DEF Follows, From
  <2>5. Idle(Send(e, y), q)
    BY <1>4, <1>6, <2>2, SendIdle DEF IsBlock
  <2>6. QED BY <1>7, <2>4, <2>5 DEF Calm
<1>9. CASE Fetches(c, s, q)
  <2>1. crossed = TRUE
    <3>1. Awaits(c)
      BY <1>9 DEF Fetches, Awaits
    <3>2. (c.crossed \/ Awaits(c)) = TRUE
      BY <3>1
    <3>3. QED BY <1>2, <3>2
  <2>2. e.crossed = TRUE
    BY <1>4, <2>1
  <2>3. Send(e, y).crossed = TRUE
    BY <1>4, <2>2 DEF Send, ClientRecord
  <2>4. QED BY <1>7, <2>3 DEF UpsetOf
<1>10. QED BY <1>8, <1>9 DEF Calm

\* A file that is open goes on.
LEMMA ChangingCalm ==
    ASSUME NEW c \in ClientRecord, NEW s, NEW q \in Seq(Item), Calm(c, s, q)
    PROVE  UpsetOf(Changing(c)) \/ Calm(Changing(c), s, q)
<1>1. Ready(c, s, q) /\ Linked(c)
  BY DEF Calm, Ready, NoDrop
<1>2. CASE c.download # None
  <2>1. Fetches(c, s, q)
    BY <1>2 DEF Calm, Idle
  <2>2. PICK state : state = IF c.state = "active" THEN "connected" ELSE c.state
    OBVIOUS
  <2>3. PICK d : d = [c EXCEPT !.state = state]
    OBVIOUS
  <2>4. /\ d.servercount = c.servercount /\ d.models = c.models
        /\ d.precache = c.precache /\ d.disk = c.disk /\ d.message = c.message
        /\ d.state = state /\ d.download = c.download /\ d.method = c.method
        /\ d.waiting = c.waiting /\ d.type = c.type /\ d.number = c.number
        /\ d.name = c.name /\ d.tmp = c.tmp /\ d.cbuf = c.cbuf
    BY <2>3 DEF ClientRecord
  <2>5. Ready(d, s, q) /\ StagesOf(d, q) = StagesOf(c, q)
    <3>1. Linked(d) /\ d.state # "active"
      BY <1>1, <2>2, <2>4 DEF Linked
    <3>2. QED BY <1>1, <2>4, <3>1, SameReady
  <2>6. \A y : AskOK(c, s, y) => AskOK(d, s, y)
    BY <2>4 DEF AskOK
  <2>7. \A x : BlockOK(c, s, x) => BlockOK(d, s, x)
    BY <2>4 DEF BlockOK
  <2>8. Alone(d, q) /\ Quiet(d, q)
    BY <2>1, <2>4 DEF Fetches, Alone, Quiet
  <2>9. Purpose(d, q)
    BY <2>1, <2>2, <2>4, <2>5 DEF Fetches, Purpose
  <2>10. Fetches(d, s, q)
    BY <2>1, <2>4, <2>6, <2>7, <2>8, <2>9 DEF Fetches
  <2>11. Changing(c) = d
    BY <1>2, <2>2, <2>3 DEF Changing
  <2>12. QED BY <2>5, <2>10, <2>11 DEF Calm
<1>3. CASE c.download = None
  BY <1>3, ChangeCalm DEF Changing
<1>4. QED BY <1>2, <1>3

\* A client without a file gives up its connection.
LEMMA DisconnectLeft ==
    ASSUME NEW c \in ClientRecord, DiskWhole(c), c.download = None,
           c.sent <= Len(c.message),
           NEW d, d = [Disconnect(c) EXCEPT !.connecting = TRUE]
    PROVE  Left(d)
<1>1. /\ c.message \in Seq(Command) /\ c.sent \in Nat
  BY DEF ClientRecord
<1>2. PICK m : m = IF c.sent = 0 THEN c.message ELSE Sent(c)
  OBVIOUS
<1>3. /\ m \in Seq(Command)
      /\ \A i \in DOMAIN m : i \in DOMAIN c.message /\ m[i] = c.message[i]
  BY <1>1, <1>2, PrefixIs DEF Sent
<1>4. PICK y : y = [cmd |-> "drop"]
  OBVIOUS
<1>5. y \in Command /\ y.cmd = "drop"
  BY <1>4 DEF Command
<1>6. PICK last : last = Append(m, y)
  OBVIOUS
<1>7. \A i \in DOMAIN last : (i \in DOMAIN c.message /\ last[i] = c.message[i])
                              \/ last[i] = y
  BY <1>3, <1>5, <1>6, AddedIs
<1>8. /\ d.state = "disconnected" /\ d.connecting = TRUE /\ d.waiting = 0
      /\ d.method = "none" /\ d.download = None /\ d.message = last
      /\ d.disk = c.disk /\ d.precache = c.precache /\ d.models = c.models
      /\ d.servercount = c.servercount
  <2>1. PICK b : b = [Closed(c) EXCEPT !.state = "disconnected", !.connecting = FALSE,
                        !.message = last, !.sent = Len(last), !.waiting = 0]
    OBVIOUS
  <2>2. Disconnect(c) = [b EXCEPT !.type = "none", !.number = 0]
    BY <1>2, <1>4, <1>6, <2>1 DEF Disconnect
  <2>3. /\ b.state = "disconnected" /\ b.waiting = 0 /\ b.method = "none"
        /\ b.download = None /\ b.message = last /\ b.disk = c.disk
        /\ b.precache = c.precache /\ b.models = c.models
        /\ b.servercount = c.servercount /\ "connecting" \in DOMAIN b
    BY <2>1 DEF Closed, ClientRecord
  <2>4. QED BY <2>2, <2>3
<1>9. Loaded(d) <=> Loaded(c)
  BY <1>8 DEF Loaded
<1>10. \A i \in DOMAIN last :
          last[i].cmd = "prespawn" => last[i].check = Models[last[i].level][1]
  BY <1>5, <1>7 DEF DiskWhole
<1>11. DiskWhole(d)
  BY <1>8, <1>9, <1>10 DEF DiskWhole
<1>12. QED BY <1>8, <1>11 DEF Left, Linked

LEMMA ReconnectCalm ==
    ASSUME NEW c \in ClientRecord, NEW s, NEW q \in Seq(Item), Calm(c, s, q),
           c.sent <= Len(c.message)
    PROVE  \/ UpsetOf(Reconnect(c)) \/ Calm(Reconnect(c), s, q)
           \/ Left(Reconnect(c))
<1>1. CASE c.download # None
  BY <1>1 DEF Reconnect
<1>2. CASE c.download = None /\ c.state = "connected"
  BY <1>2, ChangeCalm DEF Reconnect
<1>3. CASE c.download = None /\ c.state # "connected"
  <2>1. DiskWhole(c)
    BY DEF Calm, Ready
  <2>2. QED BY <1>3, <2>1, DisconnectLeft DEF Reconnect
<1>4. QED BY <1>1, <1>2, <1>3

-----------------------------------------------------------------------------
(* Without a connection *)

LEMMA HaltedLeft ==
    ASSUME NEW c \in ClientRecord, Left(c)
    PROVE  Left(Halted(c))
<1>1. PICK d : d = Halted(c)
  OBVIOUS
<1>2. /\ d.state = "halted" /\ d.waiting = c.waiting /\ d.method = c.method
      /\ d.download = c.download /\ d.message = c.message /\ d.disk = c.disk
      /\ d.precache = c.precache /\ d.models = c.models
      /\ d.servercount = c.servercount
  BY <1>1 DEF Halted, ClientRecord
<1>3. DiskWhole(d)
  BY <1>2 DEF Left, DiskWhole, Loaded
<1>4. QED BY <1>1, <1>2, <1>3 DEF Left, Linked

\* Text that is left is executed.
LEMMA StuffedLeft ==
    ASSUME NEW c, NEW s, NEW n, NEW q, Good(c, s, n, q), Left(c), c.cbuf # <<>>,
           NEW m, m = Head(c.cbuf), NEW d, d = [c EXCEPT !.cbuf = Tail(c.cbuf)]
    PROVE  Left(Stuffed(d, m))
<1>1. c \in ClientRecord /\ c.cbuf \in Seq(Item) /\ c.sent <= Len(c.message)
  BY DEF Good, StateOK, ClientRecord
<1>2. m.svc \in Text /\ Tail(c.cbuf) \in Seq(Item)
  BY <1>1, TailIs DEF Good, TextOK
<1>3. /\ d \in ClientRecord /\ d.state = c.state /\ d.connecting = c.connecting
      /\ d.waiting = c.waiting /\ d.method = c.method /\ d.download = c.download
      /\ d.message = c.message /\ d.disk = c.disk /\ d.precache = c.precache
      /\ d.models = c.models /\ d.servercount = c.servercount /\ d.sent = c.sent
  BY <1>1, <1>2 DEF ClientRecord
<1>4. DiskWhole(d)
  BY <1>3 DEF Left, DiskWhole, Loaded
<1>5. Left(d)
  BY <1>3, <1>4 DEF Left, Linked
<1>6. ~Linked(d) /\ d.download = None
  BY <1>5 DEF Left
<1>7. CASE m.svc = "changing"
  <2>1. Stuffed(d, m) = Halted(d)
    BY <1>6, <1>7 DEF Stuffed, Changing, Change
  <2>2. QED BY <1>3, <1>5, <2>1, HaltedLeft
<1>8. CASE m.svc = "reconnect"
  <2>1. Stuffed(d, m) = [Disconnect(d) EXCEPT !.connecting = TRUE]
    BY <1>6, <1>8 DEF Stuffed, Reconnect, Linked
  <2>2. QED BY <1>1, <1>3, <1>4, <1>6, <2>1, DisconnectLeft
<1>9. CASE m.svc = "spawn"
  BY <1>5, <1>6, <1>9 DEF Stuffed
<1>10. CASE m.svc = "skins"
  <2>1. PICK e : e = [d EXCEPT !.number = 1, !.type = "none"]
    OBVIOUS
  <2>2. e.state = d.state
    BY <1>3, <2>1 DEF ClientRecord
  <2>3. Stuffed(d, m) = e
    BY <1>6, <1>10, <2>1, <2>2 DEF Stuffed, SkinNextDownload, Linked
  <2>4. /\ e.state = d.state /\ e.connecting = d.connecting
        /\ e.waiting = d.waiting /\ e.method = d.method /\ e.download = d.download
        /\ e.message = d.message /\ e.disk = d.disk /\ e.precache = d.precache
        /\ e.models = d.models /\ e.servercount = d.servercount
    BY <1>3, <2>1 DEF ClientRecord
  <2>5. DiskWhole(e)
    BY <1>4, <2>4 DEF DiskWhole, Loaded
  <2>6. QED BY <1>5, <2>3, <2>4, <2>5 DEF Left, Linked
<1>11. QED BY <1>2, <1>7, <1>8, <1>9, <1>10 DEF Text

\* The new connection: nothing is on its way but "new".
LEMMA FreshCalm ==
    ASSUME NEW b \in ClientRecord, b.cbuf = <<>>, b.waiting = 0, b.method = "none",
           b.download = None, \A f \in File : b.disk[f] \in {<<>>, Whole(f)},
           NEW s, s.state = "connected", NEW e, e = <<>>
    PROVE  Calm(Connected(b), s, e)
<1>1. PICK y : y = [cmd |-> "new"]
  OBVIOUS
<1>2. y \in Command /\ y.cmd = "new"
  BY <1>1 DEF Command
<1>3. PICK m : m = <<y>>
  OBVIOUS
<1>4. DOMAIN m = {1} /\ m[1] = y /\ DOMAIN e = {}
  BY <1>2, <1>3, OneIs, EmptyIs
<1>5. PICK c : c = Connected(b)
  OBVIOUS
<1>6. c = [b EXCEPT !.state = "connected", !.connecting = FALSE,
                    !.servercount = 0, !.sounds = 0, !.models = NoModels,
                    !.precache = None, !.message = m, !.sent = 0]
  BY <1>1, <1>3, <1>5 DEF Connected
<1>7. /\ c.state = "connected" /\ c.precache = None /\ c.method = "none"
      /\ c.download = None /\ c.message = m /\ c.cbuf = e /\ c.waiting = 0
      /\ c.disk = b.disk
  BY <1>6 DEF ClientRecord
<1>8. \A i, j \in DOMAIN m : ~(i < j)
  BY <1>4
<1>9. TurnOf(c, e)
  BY <1>4, <1>7, <1>8 DEF TurnOf, Turn
<1>10. c.precache # Bad /\ ~Loaded(c)
  BY <1>7, LevelIs DEF Loaded
<1>11. DiskWhole(c)
  BY <1>2, <1>4, <1>7, <1>10 DEF DiskWhole
<1>12. Late(c, s, e)
  BY <1>7 DEF Late
<1>13. NoDrop(c, e)
  BY <1>2, <1>4, <1>7 DEF NoDrop, Linked
<1>14. Idle(c, e)
  BY <1>2, <1>4, <1>7 DEF Idle, IsBlock
<1>15. QED BY <1>5, <1>9, <1>11, <1>12, <1>13, <1>14 DEF Calm, Ready

\* What was sent does not matter.
LEMMA UnsentCalm ==
    ASSUME NEW c \in ClientRecord, NEW s, NEW q \in Seq(Item), Calm(c, s, q), NEW k
    PROVE  Calm([c EXCEPT !.sent = k], s, q)
<1>1. PICK d : d = [c EXCEPT !.sent = k]
  OBVIOUS
<1>2. /\ d.servercount = c.servercount /\ d.models = c.models
      /\ d.precache = c.precache /\ d.disk = c.disk /\ d.message = c.message
      /\ d.state = c.state /\ d.download = c.download /\ d.method = c.method
      /\ d.waiting = c.waiting /\ d.type = c.type /\ d.number = c.number
      /\ d.name = c.name /\ d.tmp = c.tmp /\ d.cbuf = c.cbuf
  BY <1>1 DEF ClientRecord
<1>3. Ready(d, s, q) /\ StagesOf(d, q) = StagesOf(c, q)
  <2>1. Ready(c, s, q)
    BY DEF Calm
  <2>2. Linked(d)
    BY <1>2, <2>1 DEF Ready, NoDrop, Linked
  <2>3. QED BY <1>2, <2>1, <2>2, SameReady
<1>4. CASE Idle(c, q)
  <2>1. Idle(d, q)
    BY <1>2, <1>4 DEF Idle
  <2>2. QED BY <1>1, <1>3, <2>1 DEF Calm
<1>5. CASE Fetches(c, s, q)
  <2>1. \A y : AskOK(c, s, y) => AskOK(d, s, y)
    BY <1>2 DEF AskOK
  <2>2. \A x : BlockOK(c, s, x) => BlockOK(d, s, x)
    BY <1>2 DEF BlockOK
  <2>3. Alone(d, q) /\ Quiet(d, q)
    BY <1>2, <1>5 DEF Fetches, Alone, Quiet
  <2>4. Purpose(d, q)
    BY <1>2, <1>3, <1>5 DEF Fetches, Purpose
  <2>5. Fetches(d, s, q)
    BY <1>2, <1>5, <2>1, <2>2, <2>3, <2>4 DEF Fetches
  <2>6. QED BY <1>1, <1>3, <2>5 DEF Calm
<1>6. QED BY <1>4, <1>5 DEF Calm

-----------------------------------------------------------------------------
(* That a file got in the way is not forgotten *)

Flag == {"overlap", "crossed", "stopped"}
Marks(c, d) ==
    Flag \subseteq DOMAIN c => DOMAIN d = DOMAIN c /\ (UpsetOf(c) => UpsetOf(d))

LEMMA MarksSend ==
    ASSUME NEW c
    PROVE  /\ \A y : Marks(c, Send(c, y))
           /\ Marks(c, Closed(c)) /\ Marks(c, Disconnect(c)) /\ Marks(c, Prespawn(c))
           /\ \A f : Marks(c, Request(c, f))
           /\ Marks(c, Halted(c)) /\ Marks(c, Change(c)) /\ Marks(c, Changing(c))
           /\ Marks(c, Reconnect(c)) /\ Marks(c, Connected(c))
<1>1. \A y : Marks(c, Send(c, y))
  BY DEF Send, Marks, Flag, UpsetOf
<1>2. Marks(c, Closed(c))
  BY DEF Closed, Marks, Flag, UpsetOf
<1>3. Marks(c, Disconnect(c))
  BY DEF Disconnect, Closed, Marks, Flag, UpsetOf
<1>4. Marks(c, Prespawn(c))
  BY <1>1, <1>3 DEF Prespawn
<1>5. \A f : Marks(c, Request(c, f))
  BY DEF Request, Send, Marks, Flag, UpsetOf
<1>6. Marks(c, Halted(c))
  BY DEF Halted, Marks, Flag, UpsetOf
<1>7. Marks(c, Change(c))
  <2>1. PICK d : d = [c EXCEPT !.state = "connected", !.crossed = @ \/ Awaits(c)]
    OBVIOUS
  <2>2. Marks(c, Send(d, [cmd |-> "new"]))
    BY <2>1 DEF Send, Marks, Flag, UpsetOf
  <2>3. QED BY <1>6, <2>1, <2>2 DEF Change
<1>8. Marks(c, Changing(c))
  BY <1>7 DEF Changing, Marks, Flag, UpsetOf
<1>9. Marks(c, Reconnect(c))
  <2>1. PICK d : d = Disconnect(c)
    OBVIOUS
  <2>2. Marks(c, [d EXCEPT !.connecting = TRUE])
    BY <1>3, <2>1 DEF Marks, Flag, UpsetOf
  <2>3. Marks(c, c)
    BY DEF Marks
  <2>4. QED BY <1>7, <2>1, <2>2, <2>3 DEF Reconnect
<1>10. Marks(c, Connected(c))
  BY DEF Connected, Marks, Flag, UpsetOf
<1>11. QED BY <1>1, <1>2, <1>3, <1>4, <1>5, <1>6, <1>7, <1>8, <1>9, <1>10

LEMMA MarksThen ==
    ASSUME NEW c, NEW d, NEW e, Marks(c, d), Marks(d, e)
    PROVE  Marks(c, e)
BY DEF Marks

LEMMA MarksModels ==
    ASSUME NEW c
    PROVE  Marks(c, ModelNextDownload(c)) /\ Marks(c, RequestNextDownload(c))
<1>1. Marks(c, ModelNextDownload(c))
  <2>1. PICK missing : missing = {i \in DOMAIN c.models :
                                     i >= c.number /\ c.disk[c.models[i]] = <<>>}
    OBVIOUS
  <2>2. PICK first : first = CHOOSE i \in missing : \A j \in missing : i <= j
    OBVIOUS
  <2>3. CASE missing # {}
    <3>1. PICK d : d = [c EXCEPT !.type = "model", !.number = first]
      OBVIOUS
    <3>2. ModelNextDownload(c) = Request(d, c.models[first])
      BY <2>1, <2>2, <2>3, <3>1 DEF ModelNextDownload
    <3>3. Marks(c, d)
      BY <3>1 DEF Marks, Flag, UpsetOf
    <3>4. QED BY <3>2, <3>3, MarksSend, MarksThen
  <2>4. CASE missing = {} /\ \E i \in DOMAIN c.models : c.disk[c.models[i]] = <<>>
    <3>1. ModelNextDownload(c) = Disconnect(c)
      BY <2>1, <2>4 DEF ModelNextDownload
    <3>2. QED BY <3>1, MarksSend
  <2>5. CASE /\ missing = {}
             /\ ~\E i \in DOMAIN c.models : c.disk[c.models[i]] = <<>>
    <3>1. PICK check : check = IF c.models = NoModels THEN c.precache
                               ELSE IF c.disk[c.models[1]] = Whole(c.models[1])
                                    THEN c.models[1] ELSE Bad
      OBVIOUS
    <3>2. PICK d : d = [c EXCEPT !.type = "vwep_model", !.precache = check]
      OBVIOUS
    <3>3. ModelNextDownload(c) = Prespawn(d)
      BY <2>1, <2>5, <3>1, <3>2 DEF ModelNextDownload
    <3>4. Marks(c, d)
      BY <3>2 DEF Marks, Flag, UpsetOf
    <3>5. QED BY <3>3, <3>4, MarksSend, MarksThen
  <2>6. QED BY <2>3, <2>4, <2>5
<1>2. Marks(c, Prespawn(c)) /\ Marks(c, c)
  BY MarksSend DEF Marks
<1>3. RequestNextDownload(c) \in {ModelNextDownload(c), Prespawn(c), c}
  BY DEF RequestNextDownload
<1>4. QED BY <1>1, <1>2, <1>3

LEMMA MarksFinish ==
    ASSUME NEW c
    PROVE  Marks(c, FinishDownload(c))
<1>1. PICK r : r = IF c.tmp[c.name] = <<>> THEN c
                   ELSE [c EXCEPT !.disk[c.name] = c.tmp[c.name],
                                  !.tmp[c.name] = <<>>]
  OBVIOUS
<1>2. Marks(c, r)
  BY <1>1 DEF Marks, Flag, UpsetOf
<1>3. PICK e : e = Closed(r)
  OBVIOUS
<1>4. Marks(r, e)
  BY <1>3, MarksSend
<1>5. PICK d : d = [e EXCEPT !.waiting = IF @ = 0 THEN 0 ELSE @ - 1]
  OBVIOUS
<1>6. Marks(e, d)
  BY <1>5 DEF Marks, Flag, UpsetOf
<1>7. FinishDownload(c) = RequestNextDownload(d)
  <2>1. CASE c.tmp[c.name] = <<>>
    BY <1>1, <1>3, <1>5, <2>1 DEF FinishDownload
  <2>2. CASE c.tmp[c.name] # <<>>
    BY <1>1, <1>3, <1>5, <2>2 DEF FinishDownload
  <2>3. QED BY <2>1, <2>2
<1>8. Marks(d, RequestNextDownload(d))
  BY MarksModels
<1>9. QED BY <1>2, <1>4, <1>6, <1>7, <1>8, MarksThen

LEMMA MarksDownload ==
    ASSUME NEW c, NEW m
    PROVE  Marks(c, ParseDownload(c, m))
<1>1. PICK opened : opened = IF c.download = None
                             THEN [c EXCEPT !.download = c.name, !.tmp[c.name] = <<>>]
                             ELSE c
  OBVIOUS
<1>2. Marks(c, opened)
  BY <1>1 DEF Marks, Flag, UpsetOf
<1>3. PICK written : written = IF m.block[1] = None THEN opened
                               ELSE [opened EXCEPT !.tmp[opened.download] =
                                                     Append(@, m.block)]
  OBVIOUS
<1>4. Marks(opened, written)
  BY <1>3 DEF Marks, Flag, UpsetOf
<1>5. Marks(c, written)
  BY <1>2, <1>4, MarksThen
<1>6. PICK y : y = [cmd |-> "nextdl"]
  OBVIOUS
<1>7. ParseDownload(c, m) = IF c.method # "QW" THEN Disconnect(c)
                            ELSE IF m.done THEN FinishDownload(written)
                            ELSE Send(written, y)
  <2>1. CASE c.method # "QW"
    BY <2>1 DEF ParseDownload
  <2>2. CASE c.method = "QW" /\ m.done
    BY <1>1, <1>3, <2>2 DEF ParseDownload
  <2>3. CASE c.method = "QW" /\ ~m.done
    BY <1>1, <1>3, <1>6, <2>3 DEF ParseDownload
  <2>4. QED BY <2>1, <2>2, <2>3
<1>8. /\ Marks(c, Disconnect(c)) /\ Marks(c, FinishDownload(written))
      /\ Marks(c, Send(written, y))
  <2>1. Marks(written, FinishDownload(written)) /\ Marks(written, Send(written, y))
    BY MarksFinish, MarksSend
  <2>2. QED BY <1>5, <2>1, MarksSend, MarksThen
<1>9. QED BY <1>7, <1>8

LEMMA MarksParsed ==
    ASSUME NEW c, NEW m, m \in Item
    PROVE  Marks(c, Parsed(c, m))
<1>1. CASE m.svc \in Text
  <2>1. Parsed(c, m) = [c EXCEPT !.cbuf = Append(@, m)]
    BY <1>1 DEF Parsed, Text
  <2>2. QED BY <2>1 DEF Marks, Flag, UpsetOf
<1>2. CASE m.svc = "serverdata"
  <2>1. PICK d : d = [c EXCEPT !.message = Sent(c), !.servercount = m.level,
                        !.sounds = 0, !.models = NoModels, !.precache = None,
                        !.state = "onserver", !.crossed = @ \/ Awaits(c)]
    OBVIOUS
  <2>2. Marks(c, d)
    BY <2>1 DEF Marks, Flag, UpsetOf
  <2>3. PICK e : e = Send(d, [cmd |-> "soundlist", level |-> m.level])
    OBVIOUS
  <2>4. Parsed(c, m) \in {e, Halted(c)}
    BY <1>2, <2>1, <2>3 DEF Parsed, Text, ParseServerData
  <2>5. Marks(c, e)
    BY <2>2, <2>3, MarksSend, MarksThen
  <2>6. QED BY <2>4, <2>5, MarksSend
<1>3. CASE m.svc = "soundlist"
  <2>1. PICK d : d = [c EXCEPT !.sounds = m.level, !.precache = None]
    OBVIOUS
  <2>2. Marks(c, d)
    BY <2>1 DEF Marks, Flag, UpsetOf
  <2>3. Parsed(c, m) = Send(d, [cmd |-> "modellist", level |-> c.servercount, n |-> 0])
    BY <1>3, <2>1 DEF Parsed, Text, ParseSoundlist
  <2>4. QED BY <2>2, <2>3, MarksSend, MarksThen
<1>4. CASE m.svc = "modellist"
  <2>1. PICK w : w = [i \in 1..(IF m.n + 1 > Len(c.models) THEN m.n + 1
                                                           ELSE Len(c.models)) |->
                        IF i = m.n + 1 THEN m.model ELSE c.models[i]]
    OBVIOUS
  <2>2. PICK d : d = [c EXCEPT !.models = w]
    OBVIOUS
  <2>3. PICK e : e = [d EXCEPT !.number = 1]
    OBVIOUS
  <2>4. Marks(c, d)
    BY <2>2 DEF Marks, Flag, UpsetOf
  <2>5. Marks(d, e)
    BY <2>3 DEF Marks, Flag, UpsetOf
  <2>6. PICK y : y = [cmd |-> "modellist", level |-> c.servercount, n |-> m.next]
    OBVIOUS
  <2>7. [c EXCEPT !.models = [i \in 1..(IF m.n + 1 > Len(@) THEN m.n + 1
                                                            ELSE Len(@)) |->
                                IF i = m.n + 1 THEN m.model ELSE @[i]]] = d
    BY <2>1, <2>2
  <2>8. ParseModellist(c, m) = IF m.next # 0 THEN Send(d, y) ELSE ModelNextDownload(e)
    BY <2>3, <2>6, <2>7, Zenon DEF ParseModellist
  <2>9. Parsed(c, m) = ParseModellist(c, m)
    BY <1>4 DEF Parsed, Text
  <2>10. Marks(c, Send(d, y)) /\ Marks(c, ModelNextDownload(e))
    BY <2>4, <2>5, MarksSend, MarksModels, MarksThen
  <2>11. QED BY <2>8, <2>9, <2>10
<1>5. CASE m.svc = "download"
  BY <1>5, MarksDownload DEF Parsed, Text
<1>6. CASE m.svc = "disconnect"
  BY <1>6, MarksSend DEF Parsed, Text
<1>7. QED BY <1>1, <1>2, <1>3, <1>4, <1>5, <1>6, ItemIs

LEMMA MarksStuffed ==
    ASSUME NEW c, NEW m, m.svc \in Text
    PROVE  Marks(c, Stuffed(c, m))
<1>1. CASE m.svc = "changing"
  BY <1>1, MarksSend DEF Stuffed
<1>2. CASE m.svc = "spawn"
  <2>1. Stuffed(c, m) \in {Send(c, [cmd |-> "spawn", level |-> m.level]), c}
    BY <1>2 DEF Stuffed
  <2>2. Marks(c, c)
    BY DEF Marks
  <2>3. QED BY <2>1, <2>2, MarksSend
<1>3. CASE m.svc = "skins"
  <2>1. PICK d : d = [c EXCEPT !.number = 1]
    OBVIOUS
  <2>2. PICK e : e = [d EXCEPT !.type = "none"]
    OBVIOUS
  <2>3. Marks(c, d)
    BY <2>1 DEF Marks, Flag, UpsetOf
  <2>4. Marks(d, e)
    BY <2>2 DEF Marks, Flag, UpsetOf
  <2>5. PICK y : y = [cmd |-> "begin", level |-> e.servercount]
    OBVIOUS
  <2>6. Stuffed(c, m) = IF e.state = "onserver" THEN Send(e, y) ELSE e
    <3>1. Stuffed(c, m) = SkinNextDownload(d)
      BY <1>3, <2>1 DEF Stuffed
    <3>2. d.state = e.state /\ d.servercount = e.servercount
      BY <2>2
    <3>3. QED BY <2>2, <2>5, <3>1, <3>2 DEF SkinNextDownload
  <2>7. Marks(c, e) /\ Marks(c, Send(e, y))
    BY <2>3, <2>4, MarksSend, MarksThen
  <2>8. QED BY <2>6, <2>7
<1>4. CASE m.svc = "reconnect"
  BY <1>4, MarksSend DEF Stuffed
<1>5. QED BY <1>1, <1>2, <1>3, <1>4 DEF Text

-----------------------------------------------------------------------------
(* The client's steps, when no file got in the way *)

LEMMA UpsetStays ==
    ASSUME NEW c \in ClientRecord, UpsetOf(c), NEW d, Marks(c, d)
    PROVE  UpsetOf(d)
<1>1. Flag \subseteq DOMAIN c
  BY DEF ClientRecord, Flag
<1>2. QED BY <1>1 DEF Marks

LEMMA ParsedCalm ==
    ASSUME NEW c, NEW s, NEW n, NEW q \in Seq(Item), q # <<>>, Good(c, s, n, q),
           UpsetOf(c) \/ Calm(c, s, q), NEW m, m = Head(q),
           m.svc = "serverdata" => c.cbuf = <<>>
    PROVE  UpsetOf(Parsed(c, m)) \/ Calm(Parsed(c, m), s, Tail(q))
<1>1. m \in Item /\ c \in ClientRecord /\ 1 \in DOMAIN q /\ m = q[1]
  BY TailIs DEF Good
<1>2. CASE UpsetOf(c)
  BY <1>1, <1>2, MarksParsed, UpsetStays
<1>3. CASE Calm(c, s, q)
  <2>1. CASE m.svc \in Text
    <3>1. Parsed(c, m) = [c EXCEPT !.cbuf = Append(@, m)]
      BY <2>1 DEF Parsed, Text
    <3>2. QED BY <1>3, <2>1, <3>1, StuffCalm
  <2>2. CASE m.svc = "serverdata"
    BY <1>3, <2>2, ParseServerDataCalm DEF Parsed, Text
  <2>3. CASE m.svc = "soundlist"
    BY <1>3, <2>3, ParseSoundlistCalm DEF Parsed, Text
  <2>4. CASE m.svc = "modellist"
    BY <1>3, <2>4, ParseModellistCalm DEF Parsed, Text
  <2>5. CASE m.svc = "download"
    BY <1>3, <2>5, ParseDownloadCalm DEF Parsed, Text
  <2>6. m.svc # "disconnect"
    BY <1>1, <1>3 DEF Calm, Ready, NoDrop
  <2>7. QED BY <1>1, <2>1, <2>2, <2>3, <2>4, <2>5, <2>6, ItemIs
<1>4. QED BY <1>2, <1>3

LEMMA StuffedCalm ==
    ASSUME NEW c, NEW s, NEW n, NEW q, Good(c, s, n, q), c.cbuf # <<>>,
           UpsetOf(c) \/ Calm(c, s, q), NEW m, m = Head(c.cbuf),
           NEW d, d = [c EXCEPT !.cbuf = Tail(@)]
    PROVE  \/ UpsetOf(Stuffed(d, m)) \/ Calm(Stuffed(d, m), s, q)
           \/ Left(Stuffed(d, m))
<1>1. /\ c \in ClientRecord /\ c.cbuf \in Seq(Item) /\ q \in Seq(Item)
      /\ m.svc \in Text
  <2>1. /\ c \in ClientRecord /\ c.cbuf \in Seq(Item) /\ q \in Seq(Item)
    BY DEF Good, ClientRecord, ItemsOK
  <2>2. 1 \in DOMAIN c.cbuf /\ m = c.cbuf[1]
    BY <2>1, TailIs
  <2>3. QED BY <2>1, <2>2 DEF Good, TextOK
<1>2. PICK e : e = [c EXCEPT !.cbuf = Tail(c.cbuf)]
  OBVIOUS
<1>3. d = e /\ e \in ClientRecord
  <2>1. Tail(c.cbuf) \in Seq(Item)
    BY <1>1, TailIs
  <2>2. QED BY <1>1, <1>2, <2>1 DEF ClientRecord
<1>4. CASE UpsetOf(c)
  <2>1. Marks(c, e)
    BY <1>2 DEF Marks, Flag, UpsetOf
  <2>2. Marks(c, Stuffed(e, m))
    BY <1>1, <2>1, MarksStuffed, MarksThen
  <2>3. QED BY <1>1, <1>3, <1>4, <2>2, UpsetStays
<1>5. CASE Calm(c, s, q)
  <2>1. CASE m.svc = "changing"
    <3>1. Calm(e, s, q)
      BY <1>2, <1>5, FlushCalm
    <3>2. UpsetOf(Changing(e)) \/ Calm(Changing(e), s, q)
      BY <1>1, <1>3, <3>1, ChangingCalm
    <3>3. QED BY <1>3, <2>1, <3>2 DEF Stuffed
  <2>2. CASE m.svc = "spawn"
    BY <1>2, <1>3, <1>5, <2>2, SpawnTextCalm
  <2>3. CASE m.svc = "skins"
    BY <1>2, <1>3, <1>5, <2>3, SkinsTextCalm
  <2>4. CASE m.svc = "reconnect"
    <3>1. Calm(e, s, q)
      BY <1>2, <1>5, FlushCalm
    <3>2. e.sent <= Len(e.message)
      BY <1>1, <1>2 DEF Good, StateOK, ClientRecord
    <3>3. \/ UpsetOf(Reconnect(e)) \/ Calm(Reconnect(e), s, q)
          \/ Left(Reconnect(e))
      BY <1>1, <1>3, <3>1, <3>2, ReconnectCalm
    <3>4. QED BY <1>3, <2>4, <3>3 DEF Stuffed
  <2>5. QED BY <1>1, <2>1, <2>2, <2>3, <2>4 DEF Text
<1>6. QED BY <1>4, <1>5

LEMMA ActiveCalm ==
    ASSUME NEW c, NEW s, NEW n, NEW q, Good(c, s, n, q),
           UpsetOf(c) \/ Calm(c, s, q), c.state = "onserver", s.state = "spawned",
           NEW d, d = [c EXCEPT !.state = "active"]
    PROVE  UpsetOf(d) \/ Calm(d, s, q)
<1>1. PICK e : e = d
  OBVIOUS
<1>2. /\ e.servercount = c.servercount /\ e.models = c.models
      /\ e.precache = c.precache /\ e.disk = c.disk /\ e.message = c.message
      /\ e.state = "active" /\ e.download = c.download /\ e.method = c.method
      /\ e.waiting = c.waiting /\ e.cbuf = c.cbuf /\ c \in ClientRecord
  BY <1>1 DEF Good, ClientRecord
<1>3. CASE UpsetOf(c)
  <2>1. Marks(c, d)
    BY DEF Marks, Flag, UpsetOf
  <2>2. QED BY <1>2, <1>3, <2>1, UpsetStays
<1>4. CASE Calm(c, s, q)
  <2>1. StagesOf(e, q) = StagesOf(c, q) /\ TurnOf(e, q) /\ (Loaded(e) <=> Loaded(c))
    BY <1>2, <1>4 DEF Calm, Ready, StagesOf, TurnOf, Loaded
  <2>2. DiskWhole(e) /\ NoDrop(e, q)
    BY <1>2, <1>4, <2>1 DEF Calm, Ready, DiskWhole, NoDrop, Linked
  <2>3. Late(e, s, q)
    <3>1. Loaded(c)
      BY DEF Good, SlotOK
    <3>2. From(Listed(c.servercount) + 3, StagesOf(c, q))
      BY <1>4 DEF Calm, Ready, Late
    <3>3. QED BY <1>2, <2>1, <3>1, <3>2 DEF Late
  <2>4. Idle(c, q)
    <3>1. Fetches(c, s, q) => c.type # "model"
      BY <1>4, FetchIs
    <3>2. QED BY <1>4, <3>1 DEF Calm, Fetches, Purpose
  <2>5. Idle(e, q)
    BY <1>2, <2>4 DEF Idle
  <2>6. QED BY <1>1, <2>1, <2>2, <2>3, <2>5 DEF Calm, Ready
<1>5. QED BY <1>3, <1>4

\* A file that the user asks for while there is none, in the game.
LEMMA UserCalm ==
    ASSUME NEW c, NEW s, NEW n, NEW q, Good(c, s, n, q),
           UpsetOf(c) \/ Calm(c, s, q), NEW f \in File,
           NEW d, d = [Request(c, f) EXCEPT !.type = "single", !.number = c.number,
                         !.overlap = @ \/ c.state # "active"]
    PROVE  UpsetOf(d) \/ Calm(d, s, q)
<1>1. PICK e : e = d
  OBVIOUS
<1>2. c \in ClientRecord /\ q \in Seq(Item)
  BY DEF Good, ItemsOK
<1>3. PICK r : r = Request(c, f)
  OBVIOUS
<1>4. Marks(c, d)
  <2>1. Marks(c, r)
    BY <1>3, MarksSend
  <2>2. Marks(r, d)
    BY <1>3 DEF Marks, Flag, UpsetOf
  <2>3. QED BY <2>1, <2>2, MarksThen
<1>5. CASE UpsetOf(c)
  BY <1>2, <1>4, <1>5, UpsetStays
<1>6. CASE c.waiting > 0
  <2>1. r.overlap
    BY <1>2, <1>3, <1>6, RequestUpset
  <2>2. UpsetOf(r) /\ Flag \subseteq DOMAIN r
    BY <1>2, <1>3, <2>1 DEF UpsetOf, Request, Send, ClientRecord, Flag
  <2>3. Marks(r, d)
    BY <1>3 DEF Marks, Flag, UpsetOf
  <2>4. QED BY <2>2, <2>3 DEF Marks
<1>7. CASE c.state # "active"
  BY <1>2, <1>7 DEF UpsetOf, Request, Send, ClientRecord
<1>8. CASE Calm(c, s, q) /\ ~(c.waiting > 0) /\ c.state = "active"
  <2>1. Idle(c, q) /\ c.waiting = 0
    BY <1>8 DEF Calm, Idle, Fetches
  <2>2. /\ e.servercount = c.servercount /\ e.models = c.models
        /\ e.precache = c.precache /\ e.disk = c.disk /\ e.cbuf = c.cbuf
        /\ e.state = c.state /\ e.download = c.download
        /\ e.message = Append(c.message, [cmd |-> "download", file |-> f])
        /\ e.name = f /\ e.method = "QW" /\ e.waiting = c.waiting + 1
        /\ e.type = "single"
    BY <1>1, <1>2 DEF Request, Send, ClientRecord
  <2>3. e.waiting = 1
    BY <2>1, <2>2
  <2>4. /\ StagesOf(e, q) \subseteq StagesOf(c, q) \cup {0}
        /\ Purpose(e, q) => Calm(e, s, q)
    BY <1>2, <1>8, <2>1, <2>2, <2>3, AskCalm DEF Calm
  <2>5. From(Listed(c.servercount) + 3, StagesOf(c, q))
    BY <1>8 DEF Calm, Ready, Late
  <2>6. From(Listed(c.servercount) + 3, StagesOf(e, q))
    BY <2>4, <2>5 DEF From
  <2>7. Purpose(e, q)
    BY <1>8, <2>2, <2>6 DEF Purpose
  <2>8. QED BY <1>1, <2>4, <2>7
<1>9. QED BY <1>5, <1>6, <1>7, <1>8

-----------------------------------------------------------------------------
(* The server's steps, when no file got in the way *)

LEMMA ItemAdded ==
    ASSUME NEW q \in Seq(Item), NEW x \in Item
    PROVE  \E k \in DOMAIN Append(q, x) :
              /\ Append(q, x)[k] = x
              /\ \A i \in DOMAIN Append(q, x) :
                    (i \in DOMAIN q /\ i < k /\ Append(q, x)[i] = q[i]) \/ i = k
BY AppendIs

LEMMA QueueAdded ==
    ASSUME NEW p \in Seq(Item), NEW q \in Seq(Item), NEW x \in Item
    PROVE  p \o q \in Seq(Item) /\ p \o Append(q, x) = Append(p \o q, x)
BY QueueIs

\* The server has executed commands of c, and d is what is left; it writes an item.
LEMMA AppendReady ==
    ASSUME NEW c \in ClientRecord, NEW s, NEW q \in Seq(Item), Ready(c, s, q),
           NEW o \in Seq(Command), Sub(o, c.message), NEW d, d = [c EXCEPT !.message = o],
           NEW p \in Seq(Item), Sub(p, q), NEW x \in Item, x.svc # "disconnect",
           NEW r, r.state = "spawned" => s.state = "spawned",
           TurnOf(d, Append(p, x)),
           StagesOf(d, Append(p, x)) \subseteq StagesOf(c, q) \cup {0}
    PROVE  Ready(d, r, Append(p, x))
<1>1. PICK P : P = Append(p, x)
  OBVIOUS
<1>2. PICK e : e = d
  OBVIOUS
<1>3. /\ e.servercount = c.servercount /\ e.precache = c.precache /\ e.message = o
      /\ e.state = c.state
  BY <1>2 DEF ClientRecord
<1>4. Ready(e, s, p)
  BY <1>2, SubReady
<1>5. \A i \in DOMAIN P : (i \in DOMAIN p /\ P[i] = p[i]) \/ P[i] = x
  BY <1>1, AddedIs
<1>6. /\ TurnOf(e, P) /\ \A j : From(j, StagesOf(c, q)) => From(j, StagesOf(e, P))
  BY <1>1, <1>2 DEF From
<1>7. Loaded(e) <=> Loaded(c)
  BY <1>3 DEF Loaded
<1>8. Late(e, r, P)
  BY <1>3, <1>6, <1>7 DEF Ready, Late
<1>9. NoDrop(e, P)
  BY <1>4, <1>5 DEF Ready, NoDrop
<1>10. QED BY <1>1, <1>2, <1>4, <1>6, <1>8, <1>9 DEF Ready

\* The server has executed commands of c, and d is what is left; it writes an item
\* that is no block: one that calls for a signon only when no file is open or on
\* its way.
LEMMA AppendCalm ==
    ASSUME NEW c \in ClientRecord, NEW s, NEW q \in Seq(Item), Calm(c, s, q),
           NEW o \in Seq(Command), Sub(o, c.message), NEW d, d = [c EXCEPT !.message = o],
           NEW p \in Seq(Item), Sub(p, q),
           NEW x \in Item, x.svc \notin {"download", "disconnect"},
           TurnOf(d, Append(p, x)),
           StagesOf(d, Append(p, x)) \subseteq StagesOf(c, q) \cup {0},
           Signal(x) /\ Fetches(c, s, q) =>
              c.download = None /\ \A i \in DOMAIN q : q[i].svc # "download"
    PROVE  Calm(d, s, Append(p, x))
<1>1. PICK P : P = Append(p, x)
  OBVIOUS
<1>2. PICK e : e = d
  OBVIOUS
<1>3. /\ e.servercount = c.servercount /\ e.models = c.models
      /\ e.precache = c.precache /\ e.disk = c.disk /\ e.message = o
      /\ e.state = c.state /\ e.download = c.download /\ e.method = c.method
      /\ e.waiting = c.waiting /\ e.type = c.type /\ e.number = c.number
      /\ e.name = c.name /\ e.tmp = c.tmp
  BY <1>2 DEF ClientRecord
<1>4. Calm(e, s, p)
  BY <1>2, SubCalm
<1>5. PICK k \in DOMAIN P :
        /\ P[k] = x
        /\ \A i \in DOMAIN P : (i \in DOMAIN p /\ i < k /\ P[i] = p[i]) \/ i = k
  BY <1>1, ItemAdded
<1>6. k \in Int /\ \A i \in DOMAIN P : i \in Int
  <2>1. P \in Seq(Item)
    BY <1>1, AppendIs
  <2>2. QED BY <1>5, <2>1
<1>7. \A j : From(j, StagesOf(c, q)) => From(j, StagesOf(e, P))
  BY <1>1, <1>2 DEF From
<1>11. Ready(e, s, P)
  BY <1>1, <1>2, AppendReady DEF Calm
<1>12. CASE Idle(c, q)
  <2>1. Idle(e, p)
    BY <1>3, <1>4, <1>12 DEF Calm, Idle, Fetches
  <2>2. Idle(e, P)
    BY <1>5, <2>1 DEF Idle
  <2>3. QED BY <1>1, <1>2, <1>11, <2>2 DEF Calm
<1>13. CASE Fetches(c, s, q)
  <2>1. Fetches(e, s, p)
    BY <1>3, <1>4, <1>13 DEF Calm, Idle, Fetches
  <2>2. \A i \in DOMAIN P : (i \in DOMAIN p /\ P[i] = p[i]) \/ P[i].svc # "download"
    BY <1>5
  <2>3. Alone(e, P)
    <3>1. \A i, j \in DOMAIN P : P[i].svc = "download" /\ P[j].svc = "download" => i = j
      BY <2>1, <2>2 DEF Fetches, Alone
    <3>2. \A i \in DOMAIN o, j \in DOMAIN P : ~(IsBlock(o[i]) /\ P[j].svc = "download")
      BY <1>3, <2>1, <2>2 DEF Fetches, Alone
    <3>3. QED BY <2>1, <3>1, <3>2, <1>3 DEF Fetches, Alone
  <2>4. \A i \in DOMAIN P : BlockOK(e, s, P[i])
    BY <2>1, <2>2 DEF Fetches, BlockOK
  <2>5. Signal(x) => e.download = None /\ \A i \in DOMAIN p : p[i].svc # "download"
    <3>1. PICK f \in [DOMAIN p -> DOMAIN q] : \A i \in DOMAIN p : p[i] = q[f[i]]
      BY DEF Sub
    <3>2. QED BY <1>3, <1>13, <3>1
  <2>6. Quiet(e, P)
    <3>1. ASSUME NEW i \in DOMAIN P, NEW j \in DOMAIN P, i < j, P[i].svc = "download"
          PROVE  ~Signal(P[j])
      <4>1. i \in DOMAIN p /\ P[i] = p[i]
        BY <2>2, <3>1
      <4>2. CASE j = k
        BY <1>5, <2>5, <3>1, <4>1, <4>2
      <4>3. CASE j # k
        BY <1>5, <2>1, <3>1, <4>1, <4>3 DEF Fetches, Quiet
      <4>4. QED BY <4>2, <4>3
    <3>2. e.download # None => \A j \in DOMAIN P : ~Signal(P[j])
      BY <1>5, <2>1, <2>5 DEF Fetches, Quiet
    <3>3. e.download # None \/ (\E i \in DOMAIN P : P[i].svc = "download")
          => \A j \in DOMAIN e.message : ~IsSignon(e.message[j])
      BY <2>1, <2>2 DEF Fetches, Quiet
    <3>4. \A i, j \in DOMAIN e.message :
             i < j /\ e.message[i].cmd = "download" => ~IsSignon(e.message[j])
      BY <2>1 DEF Fetches, Quiet
    <3>5. QED BY <3>1, <3>2, <3>3, <3>4 DEF Quiet
  <2>7. Purpose(e, P)
    BY <1>3, <1>7, <1>13 DEF Fetches, Purpose
  <2>8. Fetches(e, s, P)
    BY <2>1, <2>3, <2>4, <2>6, <2>7 DEF Fetches
  <2>9. QED BY <1>1, <1>2, <1>11, <2>8 DEF Calm
<1>14. QED BY <1>12, <1>13 DEF Calm

\* The same with the slot: r is what the server has done to it before it writes.
LEMMA WriteCalm ==
    ASSUME NEW c \in ClientRecord, NEW s, NEW q \in Seq(Item), Calm(c, s, q),
           NEW o \in Seq(Command), Sub(o, c.message), NEW d, d = [c EXCEPT !.message = o],
           NEW p \in Seq(Item), NEW r \in ServerRecord, Sub(p \o r.message, q),
           r.state = "spawned" => s.state = "spawned",
           r.download = s.download, r.count = s.count,
           NEW x \in Item, x.svc \notin {"download", "disconnect"},
           TurnOf(d, Append(p \o r.message, x)),
           StagesOf(d, Append(p \o r.message, x)) \subseteq StagesOf(c, q) \cup {0},
           Signal(x) /\ Fetches(c, s, q) =>
              c.download = None /\ \A i \in DOMAIN q : q[i].svc # "download"
    PROVE  Calm(d, Write(r, x), p \o Write(r, x).message)
<1>1. PICK t : t = p \o r.message
  OBVIOUS
<1>2. r.message \in Seq(Item)
  BY DEF ServerRecord
<1>3. t \in Seq(Item) /\ p \o Append(r.message, x) = Append(t, x)
  <2>1. PICK m : m = r.message
    OBVIOUS
  <2>2. m \in Seq(Item)
    BY <1>2, <2>1
  <2>3. p \o m \in Seq(Item) /\ p \o Append(m, x) = Append(p \o m, x)
    BY <2>2, QueueAdded
  <2>4. QED BY <1>1, <2>1, <2>3
<1>4. Calm(d, s, Append(t, x))
  BY <1>1, <1>3, AppendCalm
<1>5. PICK w : w = Write(r, x)
  OBVIOUS
<1>6. /\ w.message = Append(r.message, x) /\ w.state = r.state
      /\ w.download = r.download /\ w.count = r.count
  BY <1>5 DEF Write, ServerRecord
<1>7. Calm(d, w, Append(t, x))
  BY <1>4, <1>6, SlotCalm
<1>8. QED BY <1>1, <1>3, <1>5, <1>6, <1>7

\* The items left and the commands left are in turn.
LEMMA LeftTurn ==
    ASSUME NEW c \in ClientRecord, NEW q, TurnOf(c, q),
           NEW o \in Seq(Command), Sub(o, c.message), NEW d, d = [c EXCEPT !.message = o],
           NEW p, Sub(p, q), NEW x \in Item, p \in Seq(Item),
           ItemStage(c.servercount, x) = 0
    PROVE  /\ TurnOf(d, Append(p, x))
           /\ StagesOf(d, Append(p, x)) \subseteq StagesOf(c, q) \cup {0}
<1>1. PICK l : l = c.servercount
  OBVIOUS
<1>2. /\ d.servercount = l /\ d.message = o /\ d.cbuf = c.cbuf /\ c.cbuf \in Seq(Item)
  BY <1>1 DEF ClientRecord
<1>3. Sub(c.cbuf, c.cbuf)
  BY <1>2, AllIs
<1>4. Turn(l, c.cbuf, p, o) /\ Stages(l, c.cbuf, p, o) \subseteq StagesOf(c, q)
  <2>1. Turn(l, c.cbuf, q, c.message)
    BY <1>1 DEF TurnOf
  <2>2. /\ Turn(l, c.cbuf, p, o)
        /\ Stages(l, c.cbuf, p, o) \subseteq Stages(l, c.cbuf, q, c.message)
    BY <1>3, <2>1, TurnSub
  <2>3. QED BY <1>1, <2>2 DEF StagesOf
<1>5. /\ Turn(l, c.cbuf, Append(p, x), o)
      /\ Stages(l, c.cbuf, Append(p, x), o) \subseteq Stages(l, c.cbuf, p, o) \cup {0}
  BY <1>1, <1>4, TurnPlain
<1>6. QED BY <1>2, <1>4, <1>5 DEF TurnOf, StagesOf

LEMMA PlainCalm ==
    ASSUME NEW c \in ClientRecord, NEW s, NEW q \in Seq(Item), Calm(c, s, q),
           NEW o \in Seq(Command), Sub(o, c.message), NEW d, d = [c EXCEPT !.message = o],
           NEW p \in Seq(Item), NEW r \in ServerRecord, Sub(p \o r.message, q),
           r.state = "spawned" => s.state = "spawned",
           r.download = s.download, r.count = s.count,
           NEW x \in Item, x.svc \notin {"download", "disconnect"},
           ItemStage(c.servercount, x) = 0,
           Signal(x) /\ Fetches(c, s, q) =>
              c.download = None /\ \A i \in DOMAIN q : q[i].svc # "download"
    PROVE  Calm(d, Write(r, x), p \o Write(r, x).message)
<1>1. PICK t : t = p \o r.message
  OBVIOUS
<1>2. r.message \in Seq(Item)
  BY DEF ServerRecord
<1>3. t \in Seq(Item) /\ Sub(t, q)
  BY <1>1, <1>2, QueueIs
<1>4. TurnOf(c, q)
  BY DEF Calm, Ready
<1>5. /\ TurnOf(d, Append(t, x))
      /\ StagesOf(d, Append(t, x)) \subseteq StagesOf(c, q) \cup {0}
  BY <1>3, <1>4, LeftTurn
<1>6. QED BY <1>1, <1>5, WriteCalm

\* A command of the signon is executed only when no file is open or on its way.
LEMMA SignonIs ==
    ASSUME NEW c \in ClientRecord, NEW s, NEW q, Calm(c, s, q),
           c.message # <<>>, NEW y, y = Head(c.message), IsSignon(y)
    PROVE  c.download = None /\ \A i \in DOMAIN q : q[i].svc # "download"
<1>1. 1 \in DOMAIN c.message /\ y = c.message[1]
  BY TailIs DEF ClientRecord
<1>2. QED BY <1>1 DEF Calm, Idle, Fetches, Quiet

\* The answer to the command at the head; what was not sent may be cleared.
LEMMA AnswerCalm ==
    ASSUME NEW c \in ClientRecord, NEW s, NEW q \in Seq(Item), Calm(c, s, q),
           c.message # <<>>, NEW y, y = Head(c.message), IsSignon(y),
           NEW d, d = [c EXCEPT !.message = Tail(c.message)],
           NEW p \in Seq(Item), NEW r \in ServerRecord, Sub(p \o r.message, q),
           r.state = s.state, r.download = s.download, r.count = s.count,
           NEW x \in Item, x.svc \notin {"download", "disconnect"},
           ItemStage(c.servercount, x) = CommandStage(c.servercount, y)
    PROVE  Calm(d, Write(r, x), p \o Write(r, x).message)
<1>1. PICK o : o = Tail(c.message)
  OBVIOUS
<1>2. PICK t : t = p \o r.message
  OBVIOUS
<1>3. /\ o \in Seq(Command) /\ Sub(o, c.message) /\ c.message \in Seq(Command)
      /\ c.cbuf \in Seq(Item)
  BY <1>1, TailIs DEF ClientRecord
<1>4. t \in Seq(Item) /\ Sub(t, q)
  <2>1. r.message \in Seq(Item)
    BY DEF ServerRecord
  <2>2. QED BY <1>2, <2>1, QueueIs
<1>5. d.servercount = c.servercount /\ d.message = o /\ d.cbuf = c.cbuf
  BY <1>1, <1>3 DEF ClientRecord
<1>6. /\ Turn(c.servercount, c.cbuf, Append(t, x), o)
      /\ Stages(c.servercount, c.cbuf, Append(t, x), o)
            \subseteq Stages(c.servercount, c.cbuf, q, c.message)
  <2>1. Turn(c.servercount, c.cbuf, q, c.message)
    BY DEF Calm, Ready, TurnOf
  <2>2. QED BY <1>1, <1>3, <1>4, <2>1, TurnAnswer
<1>7. /\ TurnOf(d, Append(t, x))
      /\ StagesOf(d, Append(t, x)) \subseteq StagesOf(c, q) \cup {0}
  BY <1>5, <1>6 DEF TurnOf, StagesOf
<1>8. c.download = None /\ \A i \in DOMAIN q : q[i].svc # "download"
  BY SignonIs
<1>9. PICK e : e = d
  OBVIOUS
<1>10. /\ e = [c EXCEPT !.message = o] /\ o \in Seq(Command) /\ Sub(o, c.message)
       /\ TurnOf(e, Append(p \o r.message, x))
       /\ StagesOf(e, Append(p \o r.message, x)) \subseteq StagesOf(c, q) \cup {0}
  BY <1>1, <1>2, <1>3, <1>7, <1>9
<1>11. /\ r.state = "spawned" => s.state = "spawned"
       /\ Signal(x) /\ Fetches(c, s, q) =>
             c.download = None /\ \A i \in DOMAIN q : q[i].svc # "download"
  BY <1>8
<1>12. Calm(e, Write(r, x), p \o Write(r, x).message)
  BY <1>10, <1>11, WriteCalm
<1>13. QED BY <1>9, <1>12

\* The client is told the level anew.
LEMMA NewCalm ==
    ASSUME NEW c, NEW s, NEW p, Serves(c, s, p), NEW q, q = p \o s.message,
           Calm(c, s, q), c.message # <<>>, IsSignon(Head(c.message)),
           NEW d, d = [c EXCEPT !.message = Tail(c.message)],
           NEW r \in ServerRecord, Sub(p \o r.message, q),
           r.state = s.state, r.download = s.download, r.count = s.count
    PROVE  Calm(d, New(r), p \o New(r).message)
<1>1. PICK o : o = Tail(c.message)
  OBVIOUS
<1>2. /\ c \in ClientRecord /\ q \in Seq(Item) /\ p \in Seq(Item)
      /\ spawncount \in Level /\ r.message \in Seq(Item)
  BY DEF Serves, Good, ItemsOK, ServerRecord
<1>3. o \in Seq(Command) /\ Sub(o, c.message)
  BY <1>1, <1>2, TailIs DEF ClientRecord
<1>4. CASE r.state = "spawned"
  <2>1. p \o r.message \in Seq(Item)
    BY <1>2, QueueIs
  <2>2. Calm(d, s, p \o r.message)
    BY <1>1, <1>2, <1>3, <2>1, SubCalm
  <2>3. Calm(d, r, p \o r.message)
    BY <2>2, SlotCalm
  <2>4. QED BY <1>4, <2>3 DEF New
<1>5. CASE r.state # "spawned"
  <2>1. PICK g : g = [r EXCEPT !.spawncount = spawncount]
    OBVIOUS
  <2>2. /\ g \in ServerRecord /\ g.message = r.message /\ g.state = s.state
        /\ g.download = s.download /\ g.count = s.count
    BY <1>2, <2>1 DEF ServerRecord
  <2>3. PICK x : x = [svc |-> "serverdata", level |-> spawncount]
    OBVIOUS
  <2>4. x \in Item /\ x.svc = "serverdata"
    BY <1>2, <2>3 DEF Item
  <2>5. ItemStage(c.servercount, x) = 0
    BY <2>4 DEF ItemStage
  <2>6. c.download = None /\ \A i \in DOMAIN q : q[i].svc # "download"
    BY <1>2, SignonIs
  <2>7. Sub(p \o g.message, q)
    BY <2>2
  <2>8. Calm(d, Write(g, x), p \o Write(g, x).message)
    <3>0. PICK e : e = d
      OBVIOUS
    <3>1. e = [c EXCEPT !.message = o] /\ x.svc \notin {"download", "disconnect"}
      BY <1>1, <2>4, <3>0
    <3>2. g.state = "spawned" => s.state = "spawned"
      BY <2>2
    <3>3. Signal(x) /\ Fetches(c, s, q) =>
             c.download = None /\ \A i \in DOMAIN q : q[i].svc # "download"
      BY <2>6
    <3>4. g.download = s.download /\ g.count = s.count
      BY <2>2
    <3>5. Calm(e, Write(g, x), p \o Write(g, x).message)
      BY <1>2, <1>3, <2>2, <2>4, <2>5, <2>7, <3>1, <3>2, <3>3, <3>4, PlainCalm
    <3>6. QED BY <3>0, <3>5
  <2>9. New(r) = Write(g, x)
    BY <1>5, <2>1, <2>3 DEF New
  <2>10. QED BY <2>8, <2>9
<1>6. QED BY <1>4, <1>5

\* What the server does not answer.
LEMMA SkipCalm ==
    ASSUME NEW c, NEW s, NEW p, Serves(c, s, p), NEW q, q = p \o s.message,
           Calm(c, s, q), c.message # <<>>,
           NEW d, d = [c EXCEPT !.message = Tail(c.message)]
    PROVE  Calm(d, s, q)
<1>1. PICK o : o = Tail(c.message)
  OBVIOUS
<1>2. c \in ClientRecord /\ q \in Seq(Item)
  BY DEF Serves, Good, ItemsOK
<1>3. o \in Seq(Command) /\ Sub(o, c.message) /\ Sub(q, q)
  BY <1>1, <1>2, TailIs, AllIs DEF ClientRecord
<1>4. QED BY <1>1, <1>2, <1>3, SubCalm

LEMMA ClearedIs ==
    ASSUME NEW s \in ServerRecord, NEW p \in Seq(Item), NEW r, r = ClearReliable(s)
    PROVE  /\ r \in ServerRecord /\ r.state = s.state /\ r.download = s.download
           /\ r.count = s.count /\ Sub(p \o r.message, p \o s.message)
<1>1. PICK e : e = <<>>
  OBVIOUS
<1>2. e \in Seq(Item) /\ r = [s EXCEPT !.message = e]
  BY <1>1, EmptyIs DEF ClearReliable
<1>3. /\ r \in ServerRecord /\ r.message = e /\ r.state = s.state
      /\ r.download = s.download /\ r.count = s.count
  BY <1>2 DEF ServerRecord
<1>4. p \o r.message = p
  BY <1>1, <1>3, ConcatEmptySeq
<1>5. s.message \in Seq(Item)
  BY DEF ServerRecord
<1>6. Sub(p, p \o s.message)
  BY <1>5, QueueIs
<1>7. QED BY <1>3, <1>4, <1>6

\* A command for another level is answered with the data of the server's.
LEMMA CheckedCalm ==
    ASSUME NEW c, NEW s, NEW p, Serves(c, s, p), NEW q, q = p \o s.message,
           Calm(c, s, q), c.message # <<>>, IsSignon(Head(c.message)),
           NEW d, d = [c EXCEPT !.message = Tail(c.message)],
           NEW level, NEW next, level = spawncount => Calm(d, next, p \o next.message),
           NEW w, w = Checked(s, level, next)
    PROVE  Calm(d, w, p \o w.message)
<1>1. CASE level = spawncount
  BY <1>1 DEF Checked
<1>2. CASE level # spawncount
  <2>1. PICK r : r = ClearReliable(s)
    OBVIOUS
  <2>2. s \in ServerRecord /\ p \in Seq(Item)
    BY DEF Serves, Good, SlotOK
  <2>3. /\ r \in ServerRecord /\ r.state = s.state /\ r.download = s.download
        /\ r.count = s.count /\ Sub(p \o r.message, p \o s.message)
    BY <2>1, <2>2, ClearedIs
  <2>4. Calm(d, New(r), p \o New(r).message)
    BY <2>3, NewCalm
  <2>5. QED BY <1>2, <2>1, <2>4 DEF Checked
<1>3. QED BY <1>1, <1>2

LEMMA NearIs ==
    ASSUME NEW k \in Nat, NEW t \in Nat, Follows(t, k + 1) \/ Follows(k + 1, t)
    PROVE  t = 0 \/ t >= k
BY DEF Follows

\* The client begins: what is left of the signon are its last stages.
LEMMA BegunCalm ==
    ASSUME NEW c, NEW s, NEW n, NEW q, Good(c, s, n, q), Calm(c, s, q),
           c.message # <<>>, NEW y, y = Head(c.message), y.cmd = "begin",
           y.level = c.servercount,
           NEW r, r.state = "spawned", r.download = s.download, r.count = s.count
    PROVE  Calm(c, r, q)
<1>1. PICK l : l = c.servercount
  OBVIOUS
<1>2. PICK m : m = c.message
  OBVIOUS
<1>3. PICK b : b = c.cbuf
  OBVIOUS
<1>4. /\ m \in Seq(Command) /\ b \in Seq(Item) /\ q \in Seq(Item)
  BY <1>2, <1>3 DEF Good, ClientRecord, ItemsOK
<1>5. 1 \in DOMAIN m /\ y = m[1] /\ y \in Command
  BY <1>2, <1>4, TailIs
<1>6. l \in Level /\ Listed(l) \in Nat
  BY <1>1, <1>5, CommandIs, StageIs DEF Leveled
<1>7. PICK k : k = Listed(l) + 3
  OBVIOUS
<1>8. CommandStage(l, y) = k + 1 /\ k \in Nat
  BY <1>1, <1>6, <1>7 DEF CommandStage, Leveled
<1>9. Turn(l, b, q, m)
  BY <1>1, <1>2, <1>3 DEF Calm, Ready, TurnOf
<1>10. ASSUME NEW i \in DOMAIN b PROVE ItemStage(l, b[i]) = 0 \/ ItemStage(l, b[i]) >= k
  <2>1. ItemStage(l, b[i]) \in Nat
    <3>1. PICK x : x = b[i]
      OBVIOUS
    <3>2. x \in Item
      BY <1>4, <3>1
    <3>3. QED BY <3>1, <3>2, StageIs
  <2>2. Follows(ItemStage(l, b[i]), k + 1)
    BY <1>5, <1>8, <1>9 DEF Turn
  <2>3. QED BY <1>8, <2>1, <2>2, NearIs
<1>11. ASSUME NEW i \in DOMAIN q PROVE ItemStage(l, q[i]) = 0 \/ ItemStage(l, q[i]) >= k
  <2>1. ItemStage(l, q[i]) \in Nat
    <3>1. PICK x : x = q[i]
      OBVIOUS
    <3>2. x \in Item
      BY <1>4, <3>1
    <3>3. QED BY <3>1, <3>2, StageIs
  <2>2. Follows(ItemStage(l, q[i]), k + 1)
    BY <1>5, <1>8, <1>9 DEF Turn
  <2>3. QED BY <1>8, <2>1, <2>2, NearIs
<1>12. ASSUME NEW i \in DOMAIN m
       PROVE  CommandStage(l, m[i]) = 0 \/ CommandStage(l, m[i]) >= k
  <2>1. CommandStage(l, m[i]) \in Nat
    <3>1. PICK x : x = m[i]
      OBVIOUS
    <3>2. x \in Command
      BY <1>4, <3>1
    <3>3. QED BY <3>1, <3>2, StageIs
  <2>2. CASE i = 1
    BY <1>5, <1>8, <2>2
  <2>3. CASE i # 1
    <3>1. 1 < i
      BY <1>4, <2>3
    <3>2. Follows(k + 1, CommandStage(l, m[i]))
      BY <1>5, <1>8, <1>9, <3>1 DEF Turn
    <3>3. QED BY <1>8, <2>1, <3>2, NearIs
  <2>4. QED BY <2>2, <2>3
<1>13. From(k, StagesOf(c, q))
  BY <1>1, <1>2, <1>3, <1>10, <1>11, <1>12 DEF From, StagesOf, Stages
<1>14. Ready(c, r, q)
  BY <1>1, <1>7, <1>13 DEF Calm, Ready, Late
<1>15. Idle(c, q) \/ Fetches(c, r, q)
  <2>1. Fetches(c, s, q) => Fetches(c, r, q)
    BY DEF Fetches, AskOK, BlockOK
  <2>2. QED BY <2>1 DEF Calm
<1>16. QED BY <1>14, <1>15 DEF Calm

\* The signon commands: the client is not dropped for its map.
LEMMA SignonCalm ==
    ASSUME NEW c, NEW s, NEW p, Serves(c, s, p), NEW q, q = p \o s.message,
           Calm(c, s, q), c.message # <<>>, NEW y, y = Head(c.message),
           y.cmd \in Leveled,
           NEW d, d = [c EXCEPT !.message = Tail(c.message)],
           NEW w, w = Executed(s, y)
    PROVE  Calm(d, w, p \o w.message)
<1>1. PICK n : n = spawncount
  OBVIOUS
<1>2. /\ Good(c, s, n, q) /\ c \in ClientRecord /\ s \in ServerRecord
      /\ p \in Seq(Item) /\ q \in Seq(Item) /\ n \in Level /\ s.message \in Seq(Item)
  BY <1>1 DEF Serves, Good, SlotOK, ItemsOK, ServerRecord
<1>3. /\ y \in Command /\ CommandOK(c, y) /\ 1 \in DOMAIN c.message
      /\ y = c.message[1]
      /\ y.level = n => c.servercount = n
  <2>1. /\ y \in Command /\ CommandOK(c, y)
        /\ y.cmd \in Leveled => (y.level = n => c.servercount = n)
    BY <1>2, AskedIs
  <2>2. PICK m : m = c.message
    OBVIOUS
  <2>3. m \in Seq(Command)
    BY <1>2, <2>2 DEF ClientRecord
  <2>4. 1 \in DOMAIN m /\ y = m[1]
    BY <2>2, <2>3, TailIs
  <2>5. QED BY <2>1, <2>2, <2>4
<1>4. IsSignon(y)
  BY DEF IsSignon
<1>5. Sub(p \o s.message, q)
  <2>1. Sub(q, q)
    BY <1>2, AllIs
  <2>2. QED BY <2>1
<1>6. Calm(d, s, p \o s.message)
  BY SkipCalm
<1>7. ASSUME NEW next, y.level = n => Calm(d, next, p \o next.message),
             NEW v, v = Checked(s, y.level, next)
      PROVE  Calm(d, v, p \o v.message)
  BY <1>1, <1>4, <1>7, CheckedCalm
<1>8. ASSUME NEW r \in ServerRecord, Sub(p \o r.message, q), r.state = s.state,
             r.download = s.download, r.count = s.count,
             NEW x \in Item, x.svc \in Answer,
             ItemStage(n, x) = CommandStage(n, y), y.level = n
      PROVE  Calm(d, Write(r, x), p \o Write(r, x).message)
  <2>1. x.svc \notin {"download", "disconnect"}
    BY <1>8 DEF Answer, Reply
  <2>2. ItemStage(c.servercount, x) = CommandStage(c.servercount, y)
    BY <1>3, <1>8
  <2>3. QED BY <1>2, <1>4, <1>8, <2>1, <2>2, AnswerCalm
<1>9. CASE y.cmd = "soundlist"
  <2>1. PICK x : x = [svc |-> "soundlist", level |-> n]
    OBVIOUS
  <2>2. x \in Item /\ x.svc = "soundlist"
    BY <1>2, <2>1 DEF Item
  <2>3. ASSUME y.level = n PROVE Calm(d, Write(s, x), p \o Write(s, x).message)
    <3>1. ItemStage(n, x) = CommandStage(n, y)
      BY <1>9, <2>2, <2>3 DEF ItemStage, CommandStage, Leveled
    <3>2. QED BY <1>2, <1>5, <1>8, <2>2, <2>3, <3>1 DEF Answer, Reply
  <2>4. w = IF s.state # "connected" THEN s ELSE Checked(s, y.level, Write(s, x))
    BY <1>1, <1>9, <2>1 DEF Executed, Soundlist
  <2>5. QED BY <1>6, <1>7, <2>3, <2>4
<1>10. CASE y.cmd = "modellist"
  <2>1. PICK x : x = [svc |-> "modellist", level |-> n, n |-> y.n,
                      model |-> Models[n][y.n + 1],
                      next |-> IF IsLast(y.n) THEN 0 ELSE y.n + 1]
    OBVIOUS
  <2>2. ASSUME y.level = n PROVE Calm(d, Write(s, x), p \o Write(s, x).message)
    <3>1. y.n < Len(Models[n]) /\ y.n \in Nat
      BY <1>3, <1>10, <2>2, CommandIs DEF CommandOK
    <3>2. Len(Models[n]) \in Nat /\ \A i \in 1..Len(Models[n]) : Models[n][i] \in File
      BY <1>2, LevelIs
    <3>3. PICK f : f = Models[n][y.n + 1]
      OBVIOUS
    <3>4. f \in File
      <4>1. PICK j : j = y.n + 1
        OBVIOUS
      <4>2. j \in 1..Len(Models[n])
        BY <3>1, <3>2, <4>1
      <4>3. QED BY <3>2, <3>3, <4>1, <4>2
    <3>5. PICK k : k = IF IsLast(y.n) THEN 0 ELSE y.n + 1
      OBVIOUS
    <3>6. k \in Nat
      BY <3>1, <3>5
    <3>7. x = [svc |-> "modellist", level |-> n, n |-> y.n, model |-> f, next |-> k]
      BY <2>1, <3>3, <3>5
    <3>8. x \in Item /\ x.svc = "modellist" /\ x.n = y.n
      BY <1>2, <3>1, <3>4, <3>6, <3>7 DEF Item
    <3>9. ItemStage(n, x) = CommandStage(n, y)
      BY <1>10, <2>2, <3>8 DEF ItemStage, CommandStage, Leveled
    <3>10. QED BY <1>2, <1>5, <1>8, <2>2, <3>8, <3>9 DEF Answer, Reply
  <2>3. w = IF s.state # "connected" THEN s ELSE Checked(s, y.level, Write(s, x))
    BY <1>1, <1>10, <2>1 DEF Executed, Modellist
  <2>4. QED BY <1>6, <1>7, <2>2, <2>3
<1>11. CASE y.cmd = "prespawn"
  <2>1. PICK x : x = [svc |-> "spawn", level |-> n]
    OBVIOUS
  <2>2. x \in Item /\ x.svc = "spawn"
    BY <1>2, <2>1 DEF Item
  <2>3. PICK next : next = IF MapDiffers(y.check) THEN DropClient(s) ELSE Write(s, x)
    OBVIOUS
  <2>4. ASSUME y.level = n PROVE Calm(d, next, p \o next.message)
    <3>1. y.check = Models[n][1]
      <4>1. \A i \in DOMAIN c.message :
               c.message[i].cmd = "prespawn"
               => c.message[i].check = Models[c.message[i].level][1]
        BY DEF Calm, Ready, DiskWhole
      <4>2. y.check = Models[y.level][1]
        BY <1>3, <1>11, <4>1
      <4>3. QED BY <2>4, <4>2
    <3>2. next = Write(s, x)
      BY <1>1, <2>3, <3>1 DEF MapDiffers
    <3>3. ItemStage(n, x) = CommandStage(n, y)
      BY <1>11, <2>2, <2>4 DEF ItemStage, CommandStage, Leveled
    <3>4. QED BY <1>2, <1>5, <1>8, <2>2, <2>4, <3>2, <3>3 DEF Answer, Reply
  <2>5. w = IF s.state # "connected" THEN s ELSE Checked(s, y.level, next)
    BY <1>1, <1>11, <2>1, <2>3 DEF Executed, PreSpawn
  <2>6. QED BY <1>6, <1>7, <2>4, <2>5
<1>12. CASE y.cmd = "spawn"
  <2>1. PICK x : x = [svc |-> "skins"]
    OBVIOUS
  <2>2. x \in Item /\ x.svc = "skins"
    BY <2>1 DEF Item
  <2>3. PICK r : r = ClearReliable(s)
    OBVIOUS
  <2>4. /\ r \in ServerRecord /\ r.state = s.state /\ r.download = s.download
        /\ r.count = s.count /\ Sub(p \o r.message, q)
    BY <1>2, <2>3, ClearedIs
  <2>5. ASSUME y.level = n PROVE Calm(d, Write(r, x), p \o Write(r, x).message)
    <3>1. ItemStage(n, x) = CommandStage(n, y)
      BY <1>12, <2>2, <2>5 DEF ItemStage, CommandStage, Leveled
    <3>2. QED BY <1>8, <2>2, <2>4, <2>5, <3>1 DEF Answer
  <2>6. w = IF s.state # "connected" THEN s ELSE Checked(s, y.level, Write(r, x))
    BY <1>12, <2>1, <2>3 DEF Executed, Spawn
  <2>7. QED BY <1>6, <1>7, <2>5, <2>6
<1>13. CASE y.cmd = "begin"
  <2>1. PICK r : r = [s EXCEPT !.state = "spawned"]
    OBVIOUS
  <2>2. /\ r.state = "spawned" /\ r.message = s.message /\ r.download = s.download
        /\ r.count = s.count
    BY <1>2, <2>1 DEF ServerRecord
  <2>3. ASSUME y.level = n PROVE Calm(d, r, p \o r.message)
    <3>1. Calm(c, r, q)
      BY <1>2, <1>3, <1>13, <2>2, <2>3, BegunCalm
    <3>2. PICK o : o = Tail(c.message)
      OBVIOUS
    <3>3. o \in Seq(Command) /\ Sub(o, c.message)
      BY <1>2, <3>2, TailIs DEF ClientRecord
    <3>4. Sub(q, q)
      BY <1>5
    <3>5. Calm(d, r, q)
      BY <1>2, <3>1, <3>2, <3>3, <3>4, SubCalm
    <3>6. QED BY <2>2, <3>5
  <2>4. w = IF s.state = "spawned" THEN s ELSE Checked(s, y.level, r)
    BY <1>13, <2>1 DEF Executed, Begin
  <2>5. QED BY <1>6, <1>7, <2>3, <2>4
<1>14. QED BY <1>9, <1>10, <1>11, <1>12, <1>13 DEF Leveled

\* A block of a file is asked for: it is the only one, and none of the signon is
\* behind it.
LEMMA AskIs ==
    ASSUME NEW c \in ClientRecord, NEW s, NEW q, Calm(c, s, q), c.message # <<>>,
           NEW y, y = Head(c.message), IsBlock(y), NEW o, o = Tail(c.message)
    PROVE  /\ Fetches(c, s, q) /\ AskOK(c, s, y)
           /\ \A i \in DOMAIN o : ~IsBlock(o[i]) /\ ~IsSignon(o[i])
           /\ \A i \in DOMAIN q : q[i].svc # "download"
<1>1. PICK m : m = c.message
  OBVIOUS
<1>2. m \in Seq(Command)
  BY <1>1 DEF ClientRecord
<1>3. /\ 1 \in DOMAIN m /\ y = m[1] /\ o \in Seq(Command)
      /\ \A i \in DOMAIN o : i + 1 \in DOMAIN m /\ 1 < i + 1 /\ o[i] = m[i + 1]
  BY <1>1, <1>2, TailIs
<1>4. Fetches(c, s, q)
  BY <1>1, <1>3 DEF Calm, Idle
<1>5. AskOK(c, s, y)
  BY <1>1, <1>3, <1>4 DEF Fetches
<1>6. \A i \in DOMAIN q : q[i].svc # "download"
  BY <1>1, <1>3, <1>4 DEF Fetches, Alone
<1>7. ASSUME NEW i \in DOMAIN o PROVE ~IsBlock(o[i]) /\ ~IsSignon(o[i])
  <2>1. PICK j : j = i + 1
    OBVIOUS
  <2>2. j \in DOMAIN m /\ 1 < j /\ o[i] = m[j]
    BY <1>3, <2>1
  <2>3. ~IsBlock(m[j])
    <3>1. IsBlock(m[j]) => 1 = j
      BY <1>1, <1>3, <1>4, <2>2 DEF Fetches, Alone
    <3>2. j \in Int
      BY <1>2, <2>2
    <3>3. QED BY <2>2, <3>1, <3>2
  <2>4. ~IsSignon(m[j])
    <3>1. CASE y.cmd = "download"
      BY <1>1, <1>3, <1>4, <2>2, <3>1 DEF Fetches, Quiet
    <3>2. CASE y.cmd = "nextdl"
      BY <1>1, <1>4, <1>5, <2>2, <3>2 DEF Fetches, Quiet, AskOK
    <3>3. QED BY <3>1, <3>2 DEF IsBlock
  <2>5. QED BY <2>2, <2>3, <2>4
<1>8. QED BY <1>4, <1>5, <1>6, <1>7

\* The block is written: g is what becomes of the slot.
LEMMA SentCalm ==
    ASSUME NEW c \in ClientRecord, NEW s, NEW q \in Seq(Item), Calm(c, s, q),
           c.message # <<>>, IsBlock(Head(c.message)),
           NEW d, d = [c EXCEPT !.message = Tail(c.message)],
           NEW k \in Nat, k < Blocks,
           IF c.download = None THEN k = 0 ELSE c.tmp[c.name] = Part(c.name, k),
           NEW x \in Item, x.svc = "download", x.block = <<c.name, k + 1>>,
           x.done <=> k + 1 = Blocks,
           NEW g, g.state = s.state, g.count = k + 1, g.download \in {None, c.name}
    PROVE  Calm(d, g, Append(q, x))
<1>1. PICK o : o = Tail(c.message)
  OBVIOUS
<1>2. /\ Fetches(c, s, q)
      /\ \A i \in DOMAIN o : ~IsBlock(o[i]) /\ ~IsSignon(o[i])
      /\ \A i \in DOMAIN q : q[i].svc # "download"
  BY <1>1, AskIs
<1>3. o \in Seq(Command) /\ Sub(o, c.message) /\ Sub(q, q)
  <2>1. o \in Seq(Command) /\ Sub(o, c.message)
    BY <1>1, TailIs DEF ClientRecord
  <2>2. Sub(q, q)
    BY AllIs
  <2>3. QED BY <2>1, <2>2
<1>4. PICK e : e = d
  OBVIOUS
<1>5. /\ e.servercount = c.servercount /\ e.models = c.models
      /\ e.precache = c.precache /\ e.disk = c.disk /\ e.message = o
      /\ e.state = c.state /\ e.download = c.download /\ e.method = c.method
      /\ e.waiting = c.waiting /\ e.type = c.type /\ e.number = c.number
      /\ e.name = c.name /\ e.tmp = c.tmp
  BY <1>1, <1>4 DEF ClientRecord
<1>6. PICK P : P = Append(q, x)
  OBVIOUS
<1>7. ItemStage(c.servercount, x) = 0
  BY DEF ItemStage
<1>8. TurnOf(e, P) /\ StagesOf(e, P) \subseteq StagesOf(c, q) \cup {0}
  <2>1. TurnOf(c, q) /\ d = [c EXCEPT !.message = o]
    BY <1>1 DEF Calm, Ready
  <2>2. /\ TurnOf(d, Append(q, x))
        /\ StagesOf(d, Append(q, x)) \subseteq StagesOf(c, q) \cup {0}
    BY <1>3, <1>7, <2>1, LeftTurn
  <2>3. QED BY <1>4, <1>6, <2>2
<1>9. Ready(e, g, P)
  BY <1>1, <1>3, <1>4, <1>6, <1>8, AppendReady DEF Calm
<1>10. PICK t \in DOMAIN P :
        /\ P[t] = x
        /\ \A i \in DOMAIN P : (i \in DOMAIN q /\ i < t /\ P[i] = q[i]) \/ i = t
  BY <1>6, ItemAdded
<1>11. P \in Seq(Item) /\ t \in Int /\ \A i \in DOMAIN P : i \in Int
  <2>1. P \in Seq(Item)
    BY <1>6
  <2>2. QED BY <1>10, <2>1
<1>12. \A i \in DOMAIN P : P[i].svc = "download" => i = t
  BY <1>2, <1>10
<1>13. Alone(e, P)
  BY <1>2, <1>5, <1>12 DEF Alone
<1>14. \A i \in DOMAIN e.message : AskOK(e, g, e.message[i])
  BY <1>2, <1>5 DEF AskOK, IsBlock
<1>15. \A i \in DOMAIN P : BlockOK(e, g, P[i])
  <2>1. k + 1 \in 1..Blocks /\ (k + 1) - 1 = k
    <3>1. Blocks \in Nat
      BY LevelIs
    <3>2. QED BY <3>1
  <2>2. BlockOK(e, g, x)
    <3>1. IF e.download = None THEN k + 1 = 1
          ELSE e.tmp[e.name] = Part(e.name, (k + 1) - 1)
      BY <1>5, <2>1
    <3>2. QED BY <1>5, <2>1, <3>1 DEF BlockOK
  <2>3. QED BY <1>10, <1>12, <2>2 DEF BlockOK
<1>16. Quiet(e, P)
  <2>1. ~Signal(x)
    BY DEF Signal, Answer, Reply
  <2>2. \A i, j \in DOMAIN P : i < j /\ P[i].svc = "download" => ~Signal(P[j])
    BY <1>10, <1>11, <1>12
  <2>3. e.download # None => \A j \in DOMAIN P : ~Signal(P[j])
    BY <1>2, <1>5, <1>10, <2>1 DEF Fetches, Quiet
  <2>4. QED BY <1>2, <1>5, <2>2, <2>3 DEF Quiet
<1>17. Purpose(e, P)
  <2>1. \A j : From(j, StagesOf(c, q)) => From(j, StagesOf(e, P))
    BY <1>8 DEF From
  <2>2. QED BY <1>2, <1>5, <2>1 DEF Fetches, Purpose
<1>18. Fetches(e, g, P)
  BY <1>2, <1>5, <1>13, <1>14, <1>15, <1>16, <1>17 DEF Fetches
<1>19. QED BY <1>4, <1>6, <1>9, <1>18 DEF Calm

\* Cmd_NextDownload_f, for a slot that sends the file from where the client is.
LEMMA BlockCalm ==
    ASSUME NEW c \in ClientRecord, NEW s, NEW p \in Seq(Item), NEW q \in Seq(Item),
           q = p \o s.message, Calm(c, s, q), c.message # <<>>,
           IsBlock(Head(c.message)), c.name \in File,
           NEW d, d = [c EXCEPT !.message = Tail(c.message)],
           NEW r \in ServerRecord, r.message = s.message, r.state = s.state,
           r.download = c.name, r.count < Blocks,
           IF c.download = None THEN r.count = 0
           ELSE c.tmp[c.name] = Part(c.name, r.count),
           NEW w, w = NextDownload(r)
    PROVE  Calm(d, w, p \o w.message)
<1>1. PICK k : k = r.count
  OBVIOUS
<1>2. /\ k \in Nat /\ k + 1 \in 1..Blocks /\ k + 1 \in 0..Blocks /\ k < Blocks
      /\ r.message \in Seq(Item) /\ c.name # None
  <2>1. Blocks \in Nat /\ None \notin File
    BY LevelIs
  <2>2. k \in 0..Blocks /\ r.message \in Seq(Item)
    BY <1>1 DEF ServerRecord
  <2>3. QED BY <1>1, <2>1, <2>2
<1>3. PICK x : x = [svc |-> "download", block |-> <<c.name, k + 1>>,
                    done |-> AllSent(k + 1)]
  OBVIOUS
<1>4. /\ x \in Item /\ x.svc = "download" /\ x.block = <<c.name, k + 1>>
      /\ x.done <=> k + 1 = Blocks
  <2>1. <<c.name, k + 1>> \in Block
    BY <1>2 DEF Block
  <2>2. AllSent(k + 1) \in BOOLEAN /\ (AllSent(k + 1) <=> k + 1 = Blocks)
    BY DEF AllSent
  <2>3. QED BY <1>3, <2>1, <2>2 DEF Item
<1>5. PICK m : m = Append(r.message, x)
  OBVIOUS
<1>6. m \in Seq(Item) /\ p \o m = Append(q, x)
  <2>1. PICK t : t = r.message
    OBVIOUS
  <2>2. t \in Seq(Item)
    BY <1>2, <2>1
  <2>3. p \o Append(t, x) = Append(p \o t, x)
    BY <1>4, <2>2, QueueAdded
  <2>4. Append(t, x) \in Seq(Item)
    BY <1>4, <2>2
  <2>5. QED BY <1>5, <2>1, <2>3, <2>4
<1>7. PICK b : b = [r EXCEPT !.count = k + 1, !.message = m]
  OBVIOUS
<1>8. /\ b \in ServerRecord /\ b.message = m /\ b.state = s.state
      /\ b.download = c.name /\ b.count = k + 1 /\ b.spawncount = r.spawncount
  BY <1>2, <1>6, <1>7 DEF ServerRecord
<1>9. NextDownload(r) = IF b.count = Blocks THEN CompleteDownload(b) ELSE b
  <2>1. b = Write([r EXCEPT !.count = @ + 1],
                  [svc |-> "download", block |-> <<r.download, r.count + 1>>,
                   done |-> AllSent(r.count + 1)])
    BY <1>1, <1>3, <1>5, <1>7 DEF Write, ServerRecord
  <2>2. r.download # None
    BY <1>2
  <2>3. QED BY <2>1, <2>2 DEF NextDownload
<1>10. ASSUME NEW g, g.state = s.state, g.count = k + 1, g.download \in {None, c.name}
       PROVE  Calm(d, g, Append(q, x))
  <2>1. IF c.download = None THEN k = 0 ELSE c.tmp[c.name] = Part(c.name, k)
    BY <1>1
  <2>2. QED BY <1>2, <1>4, <1>10, <2>1, SentCalm
<1>11. CASE k + 1 # Blocks
  <2>1. Calm(d, b, Append(q, x))
    BY <1>8, <1>10
  <2>2. w = b
    BY <1>8, <1>9, <1>11
  <2>3. QED BY <1>6, <1>8, <2>1, <2>2
<1>12. CASE k + 1 = Blocks
  <2>1. PICK g : g = [b EXCEPT !.download = None]
    OBVIOUS
  <2>2. /\ g \in ServerRecord /\ g.message = m /\ g.state = s.state
        /\ g.download = None /\ g.count = k + 1
    BY <1>8, <2>1 DEF ServerRecord
  <2>3. Calm(d, g, Append(q, x))
    BY <1>10, <2>2
  <2>4. w = CompleteDownload(b)
    BY <1>8, <1>9, <1>12
  <2>5. CASE b.spawncount = spawncount
    <3>1. w = g
      BY <2>1, <2>4, <2>5 DEF CompleteDownload
    <3>2. QED BY <1>6, <2>2, <2>3, <3>1
  <2>6. CASE b.spawncount # spawncount
    <3>1. PICK z : z = [svc |-> "changing"]
      OBVIOUS
    <3>2. z \in Item /\ z.svc = "changing"
      BY <3>1 DEF Item
    <3>3. w = Write(g, z)
      BY <2>1, <2>4, <2>6, <3>1 DEF CompleteDownload
    <3>4. PICK o : o = Tail(c.message)
      OBVIOUS
    <3>5. PICK e : e = d
      OBVIOUS
    <3>6. o \in Seq(Command) /\ Sub(o, o)
      <4>1. o \in Seq(Command)
        BY <3>4, TailIs DEF ClientRecord
      <4>2. QED BY <4>1, AllIs
    <3>7. e \in ClientRecord /\ e.message = o /\ e = [e EXCEPT !.message = o]
      BY <3>4, <3>5, <3>6 DEF ClientRecord
    <3>8. PICK P : P = Append(q, x)
      OBVIOUS
    <3>9. P \in Seq(Item) /\ Sub(P, P)
      <4>1. P \in Seq(Item)
        BY <1>4, <3>8
      <4>2. QED BY <4>1, AllIs
    <3>10. Sub(p \o g.message, P)
      BY <1>6, <2>2, <3>8, <3>9
    <3>11. ItemStage(e.servercount, z) = 0 /\ ~Signal(z)
      BY <3>2 DEF ItemStage, Signal, Answer, Reply
    <3>12. z.svc \notin {"download", "disconnect"}
      BY <3>2
    <3>13. Calm(e, g, P)
      BY <2>3, <3>5, <3>8
    <3>14. Calm(e, Write(g, z), p \o Write(g, z).message)
      BY <2>2, <3>2, <3>6, <3>7, <3>9, <3>10, <3>11, <3>12, <3>13, PlainCalm
    <3>15. QED BY <3>3, <3>5, <3>14
  <2>7. QED BY <2>5, <2>6
<1>13. QED BY <1>11, <1>12

\* Cmd_Download_f and Cmd_NextDownload_f.
LEMMA AskedCalm ==
    ASSUME NEW c, NEW s, NEW p, Serves(c, s, p), NEW q, q = p \o s.message,
           Calm(c, s, q), c.message # <<>>, NEW y, y = Head(c.message), IsBlock(y),
           NEW d, d = [c EXCEPT !.message = Tail(c.message)],
           NEW w, w = Executed(s, y)
    PROVE  Calm(d, w, p \o w.message)
<1>1. /\ Good(c, s, spawncount, q) /\ c \in ClientRecord /\ s \in ServerRecord
      /\ p \in Seq(Item) /\ q \in Seq(Item)
      /\ s.download # None => s.count < Blocks
  BY DEF Serves, Good, SlotOK, ItemsOK
<1>2. PICK o : o = Tail(c.message)
  OBVIOUS
<1>3. Fetches(c, s, q) /\ AskOK(c, s, y)
  BY <1>1, <1>2, AskIs
<1>4. c.name \in File
  BY <1>1, <1>3, FetchIs
<1>5. CASE y.cmd = "download"
  <2>1. y.file = c.name /\ c.download = None
    BY <1>3, <1>5 DEF AskOK
  <2>2. PICK r : r = [s EXCEPT !.download = c.name, !.count = 0]
    OBVIOUS
  <2>3. 0 \in 0..Blocks /\ 0 < Blocks
    BY LevelIs
  <2>4. /\ r \in ServerRecord /\ r.message = s.message /\ r.state = s.state
        /\ r.download = c.name /\ r.count = 0
    BY <1>1, <1>4, <2>2, <2>3 DEF ServerRecord
  <2>5. w = NextDownload(r)
    BY <1>5, <2>1, <2>2 DEF Executed, Download
  <2>6. r.count < Blocks /\ (IF c.download = None THEN r.count = 0
                             ELSE c.tmp[c.name] = Part(c.name, r.count))
    BY <2>1, <2>3, <2>4
  <2>7. QED BY <1>1, <1>4, <2>4, <2>5, <2>6, BlockCalm
<1>6. CASE y.cmd = "nextdl"
  <2>1. w = NextDownload(s)
    BY <1>6 DEF Executed
  <2>2. CASE s.download = None
    <3>1. w = s
      BY <2>1, <2>2 DEF NextDownload
    <3>2. Calm(d, s, q)
      BY SkipCalm
    <3>3. QED BY <3>1, <3>2
  <2>3. CASE s.download # None
    <3>1. /\ s.download = c.name /\ c.download # None
          /\ c.tmp[c.name] = Part(c.name, s.count)
      BY <1>3, <1>6, <2>3 DEF AskOK
    <3>2. IF c.download = None THEN s.count = 0
          ELSE c.tmp[c.name] = Part(c.name, s.count)
      BY <3>1
    <3>3. s.count < Blocks
      BY <1>1, <2>3
    <3>4. QED BY <1>1, <1>4, <2>1, <3>1, <3>2, <3>3, BlockCalm
  <2>4. QED BY <2>2, <2>3
<1>7. QED BY <1>5, <1>6 DEF IsBlock

\* The server has executed the next command.
LEMMA ExecutedCalm ==
    ASSUME NEW c, NEW s, NEW p, Serves(c, s, p), NEW q, q = p \o s.message,
           UpsetOf(c) \/ Calm(c, s, q), c.message # <<>>, NEW y, y = Head(c.message),
           NEW d, d = [c EXCEPT !.message = Tail(c.message)],
           NEW w, w = Executed(s, y)
    PROVE  UpsetOf(d) \/ Calm(d, w, p \o w.message)
<1>1. c \in ClientRecord /\ s \in ServerRecord /\ p \in Seq(Item)
  BY DEF Serves, Good, SlotOK
<1>2. y \in Command /\ 1 \in DOMAIN c.message /\ y = c.message[1]
  <2>1. PICK m : m = c.message
    OBVIOUS
  <2>2. m \in Seq(Command)
    BY <1>1, <2>1 DEF ClientRecord
  <2>3. QED BY <2>1, <2>2, TailIs
<1>3. CASE UpsetOf(c)
  BY <1>1, <1>3 DEF UpsetOf, ClientRecord
<1>4. CASE Calm(c, s, q)
  <2>1. CASE y.cmd = "new"
    <3>1. IsSignon(Head(c.message))
      BY <2>1 DEF IsSignon
    <3>2. Sub(p \o s.message, q)
      <4>1. q \in Seq(Item)
        BY DEF Serves, Good, ItemsOK
      <4>2. Sub(q, q)
        BY <4>1, AllIs
      <4>3. QED BY <4>2
    <3>3. Calm(d, New(s), p \o New(s).message)
      BY <1>1, <1>4, <3>1, <3>2, NewCalm
    <3>4. QED BY <2>1, <3>3 DEF Executed
  <2>2. CASE y.cmd \in Leveled
    BY <1>4, <2>2, SignonCalm
  <2>3. CASE IsBlock(y)
    BY <1>4, <2>3, AskedCalm
  <2>4. y.cmd \notin {"drop", "stopdl"}
    BY <1>2, <1>4 DEF Calm, Ready, NoDrop
  <2>5. QED BY <1>2, <2>1, <2>2, <2>3, <2>4, CommandIs DEF IsBlock
<1>5. QED BY <1>3, <1>4

-----------------------------------------------------------------------------
(* Every step keeps the calm *)

LEMMA InitCalm == Init => CalmInv
<1> SUFFICES ASSUME Init PROVE CalmInv
  OBVIOUS
<1>1. PICK present \in SUBSET File :
        cls = Connected(
                [state |-> "disconnected", connecting |-> TRUE,
                 servercount |-> 0, sounds |-> 0,
                 models |-> NoModels, precache |-> None,
                 type |-> "none", number |-> 0, method |-> "none",
                 name |-> None, download |-> None,
                 tmp |-> [f \in File |-> <<>>],
                 disk |-> [f \in File |-> IF f \in present THEN Whole(f)
                                                           ELSE <<>>],
                 message |-> <<>>, sent |-> 0, cbuf |-> <<>>,
                 waiting |-> 0, overlap |-> FALSE, crossed |-> FALSE,
                 stopped |-> FALSE])
  BY DEF Init
<1>2. PICK e : e = <<>>
  OBVIOUS
<1>3. e \in Seq(Block) /\ e \in Seq(Item) /\ e \in Seq(Command) /\ e \in Seq(File)
  BY <1>2, EmptyIs
<1>4. PICK tmp : tmp = [f \in File |-> e]
  OBVIOUS
<1>5. PICK disk : disk = [f \in File |-> IF f \in present THEN Whole(f) ELSE e]
  OBVIOUS
<1>6. tmp \in [File -> Seq(Block)] /\ disk \in [File -> Seq(Block)]
  BY <1>3, <1>4, <1>5, WholeIs
<1>7. PICK b : b = [state |-> "disconnected", connecting |-> TRUE,
                    servercount |-> 0, sounds |-> 0, models |-> e, precache |-> None,
                    type |-> "none", number |-> 0, method |-> "none",
                    name |-> None, download |-> None, tmp |-> tmp, disk |-> disk,
                    message |-> e, sent |-> 0, cbuf |-> e, waiting |-> 0,
                    overlap |-> FALSE, crossed |-> FALSE, stopped |-> FALSE]
  OBVIOUS
<1>8. cls = Connected(b)
  BY <1>1, <1>2, <1>4, <1>5, <1>7 DEF NoModels
<1>9. b \in ClientRecord
  BY <1>3, <1>6, <1>7 DEF ClientRecord
<1>10. /\ b.cbuf = <<>> /\ b.waiting = 0 /\ b.method = "none" /\ b.download = None
       /\ b.disk = disk
  BY <1>2, <1>7
<1>11. \A f \in File : b.disk[f] \in {<<>>, Whole(f)}
  BY <1>2, <1>5, <1>10
<1>12. Queue = e /\ sv_client.state = "connected"
  BY <1>2 DEF Init, Queue, NewSlot
<1>13. Calm(cls, sv_client, Queue)
  BY <1>2, <1>8, <1>9, <1>10, <1>11, <1>12, FreshCalm
<1>14. QED BY <1>13 DEF CalmInv

LEMMA ExecuteCalm == IInv /\ CalmInv /\ ExecuteUserCommand => CalmInv'
<1> SUFFICES ASSUME IInv, CalmInv, ExecuteUserCommand PROVE CalmInv'
  OBVIOUS
<1>1. Serves(cls, sv_client, flight)
  BY IInvIs
<1>2. PICK q : q = flight \o sv_client.message
  OBVIOUS
<1>3. PICK w : w = Executed(sv_client, Head(cls.message))
  OBVIOUS
<1>4. PICK m : m = Tail(cls.message)
  OBVIOUS
<1>5. PICK d : d = [cls EXCEPT !.message = m]
  OBVIOUS
<1>6. PICK k : k = cls.sent - 1
  OBVIOUS
<1>7. /\ cls \in ClientRecord /\ cls.message \in Seq(Command) /\ cls.sent \in Nat
      /\ cls.sent > 0 /\ cls.sent <= Len(cls.message)
  BY <1>1 DEF Serves, Good, StateOK, ClientRecord, ExecuteUserCommand
<1>8. cls.message # <<>>
  BY <1>7, EmptyIs
<1>9. /\ m \in Seq(Command)
      /\ \A i \in DOMAIN m : i + 1 \in DOMAIN cls.message /\ m[i] = cls.message[i + 1]
  BY <1>4, <1>7, <1>8, TailIs
<1>10. /\ d \in ClientRecord /\ [d EXCEPT !.sent = k]
                                  = [cls EXCEPT !.message = m, !.sent = k]
  BY <1>5, <1>7, <1>9 DEF ClientRecord
<1>11. /\ sv_client' = w /\ cls' = [d EXCEPT !.sent = k] /\ flight' = flight
  BY <1>3, <1>4, <1>6, <1>10 DEF ExecuteUserCommand
<1>12. CASE UpsetOf(cls) \/ Calm(cls, sv_client, q)
  <2>1. UpsetOf(d) \/ Calm(d, w, flight \o w.message)
    BY <1>1, <1>2, <1>3, <1>4, <1>5, <1>8, <1>12, ExecutedCalm
  <2>2. CASE UpsetOf(d)
    <3>1. UpsetOf(cls')
      BY <1>10, <1>11, <2>2 DEF UpsetOf, ClientRecord
    <3>2. QED BY <3>1 DEF CalmInv, Upset, UpsetOf
  <2>3. CASE Calm(d, w, flight \o w.message)
    <3>1. Serves(cls, w, flight)
      BY <1>1, <1>3, <1>8, ExecutedServes
    <3>2. flight \o w.message \in Seq(Item)
      BY <3>1 DEF Serves, Good, ItemsOK
    <3>3. Calm(cls', w, flight \o w.message)
      BY <1>10, <1>11, <2>3, <3>2, UnsentCalm
    <3>4. Calm(cls', sv_client', (flight \o sv_client.message)')
      BY <1>11, <3>3
    <3>5. QED BY <3>4 DEF CalmInv, Queue
  <2>4. QED BY <2>1, <2>2, <2>3
<1>13. CASE Left(cls) /\ (flight # <<>> => Head(flight).svc = "serverdata")
  <2>1. PICK e : e = cls'
    OBVIOUS
  <2>2. /\ e.state = cls.state /\ e.connecting = cls.connecting
        /\ e.waiting = cls.waiting /\ e.method = cls.method
        /\ e.download = cls.download /\ e.message = m /\ e.disk = cls.disk
        /\ e.precache = cls.precache /\ e.models = cls.models
        /\ e.servercount = cls.servercount
    BY <1>7, <1>10, <1>11, <2>1 DEF ClientRecord
  <2>3. DiskWhole(e)
    BY <1>9, <1>13, <2>2 DEF Left, DiskWhole, Loaded
  <2>4. Left(e)
    BY <1>13, <2>2, <2>3 DEF Left, Linked
  <2>5. QED BY <1>11, <1>13, <2>1, <2>4 DEF CalmInv
<1>14. QED BY <1>2, <1>12, <1>13 DEF CalmInv, Upset, UpsetOf, Queue

LEMMA TransmitCalm == IInv /\ CalmInv /\ Transmit => CalmInv'
<1> SUFFICES ASSUME IInv, CalmInv, Transmit PROVE CalmInv'
  OBVIOUS
<1>1. PICK s : s = sv_client
  OBVIOUS
<1>2. PICK q : q = s.message
  OBVIOUS
<1>3. PICK r : r = ClearReliable(s)
  OBVIOUS
<1>4. /\ s \in ServerRecord /\ (UpsetOf(cls) \/ Calm(cls, s, flight \o q))
      /\ flight = <<>> /\ cls' = cls /\ flight' = q /\ sv_client' = r
  BY <1>1, <1>2, <1>3
     DEF IInv, Good, SlotOK, CalmInv, Upset, UpsetOf, Queue, Transmit, Left
<1>5. q \in Seq(Item)
  BY <1>2, <1>4 DEF ServerRecord
<1>6. flight \o q = q /\ q \o <<>> = q
  BY <1>4, <1>5, ConcatEmptySeq
<1>7. /\ r.message = <<>> /\ r.state = s.state /\ r.download = s.download
      /\ r.count = s.count
  BY <1>3, <1>4 DEF ClearReliable, ServerRecord
<1>8. q \o r.message = q
  BY <1>6, <1>7
<1>9. UpsetOf(cls) \/ Calm(cls, r, q)
  BY <1>4, <1>6, <1>7, SlotCalm
<1>10. UpsetOf(cls') \/ Calm(cls', sv_client', (flight \o sv_client.message)')
  BY <1>4, <1>8, <1>9
<1>11. QED BY <1>10 DEF CalmInv, Upset, UpsetOf, Queue

\* Text of no stage is written.
LEMMA TextWritten ==
    ASSUME NEW c \in ClientRecord, NEW s \in ServerRecord, NEW p \in Seq(Item),
           Calm(c, s, p \o s.message), NEW svc \in {"changing", "reconnect"},
           NEW r, r = Broadcast(s, svc)
    PROVE  Calm(c, r, p \o r.message)
<1>1. PICK q : q = p \o s.message
  OBVIOUS
<1>2. q \in Seq(Item) /\ Sub(q, q)
  <2>1. q \in Seq(Item)
    BY <1>1, QueueIs DEF ServerRecord
  <2>2. QED BY <2>1, AllIs
<1>3. CASE s.state = "zombie"
  BY <1>3 DEF Broadcast
<1>4. CASE s.state # "zombie"
  <2>1. PICK x : x = [svc |-> svc]
    OBVIOUS
  <2>2. x \in Item /\ x.svc \in {"changing", "reconnect"}
    BY <2>1 DEF Item
  <2>3. ItemStage(c.servercount, x) = 0 /\ ~Signal(x)
    BY <2>2 DEF ItemStage, Signal, Answer, Reply
  <2>4. PICK o : o = c.message
    OBVIOUS
  <2>5. o \in Seq(Command) /\ c = [c EXCEPT !.message = o]
    BY <2>4 DEF ClientRecord
  <2>6. Sub(o, c.message)
    BY <2>4, <2>5, AllIs
  <2>7. x.svc \notin {"download", "disconnect"}
    BY <2>2
  <2>8. Calm(c, Write(s, x), p \o Write(s, x).message)
    BY <1>1, <1>2, <2>2, <2>3, <2>5, <2>6, <2>7, PlainCalm
  <2>9. r = Write(s, x)
    BY <1>4, <2>1 DEF Broadcast
  <2>10. QED BY <2>8, <2>9
<1>5. QED BY <1>3, <1>4

LEMMA MapCalm == IInv /\ CalmInv /\ Map => CalmInv'
<1> SUFFICES ASSUME IInv, CalmInv, Map PROVE CalmInv'
  OBVIOUS
<1>1. PICK r : r = [sv_client EXCEPT !.state = IF @ = "spawned" THEN "connected"
                                                                ELSE @]
  OBVIOUS
<1>2. PICK c : c = cls
  OBVIOUS
<1>3. /\ cls' = c /\ flight' = flight
      /\ sv_client' \in {Broadcast(r, "changing"), r}
  BY <1>1, <1>2 DEF Map
<1>4. PICK q : q = flight \o sv_client.message
  OBVIOUS
<1>5. /\ sv_client \in ServerRecord /\ c \in ClientRecord /\ flight \in Seq(Item)
      /\ \/ UpsetOf(c) \/ Calm(c, sv_client, q)
         \/ Left(c) /\ (flight # <<>> => Head(flight).svc = "serverdata")
  BY <1>2, <1>4 DEF IInv, Queue, Good, SlotOK, CalmInv, Upset, UpsetOf
<1>6. PICK state : state = IF sv_client.state = "spawned" THEN "connected"
                           ELSE sv_client.state
  OBVIOUS
<1>7. state \in {"connected", "zombie"}
  BY <1>5, <1>6 DEF ServerRecord
<1>8. r = [sv_client EXCEPT !.state = state]
  BY <1>1, <1>5, <1>6 DEF ServerRecord
<1>9. /\ r \in ServerRecord /\ r.message = sv_client.message /\ r.state = state
      /\ r.download = sv_client.download /\ r.count = sv_client.count
  BY <1>5, <1>7, <1>8 DEF ServerRecord
<1>10. CASE UpsetOf(c)
  BY <1>2, <1>3, <1>10 DEF CalmInv, Upset, UpsetOf
<1>11. CASE Calm(c, sv_client, q)
  <2>1. Calm(c, r, flight \o r.message)
    <3>1. Calm(c, r, q)
      BY <1>7, <1>9, <1>11, SlotCalm
    <3>2. QED BY <1>4, <1>9, <3>1
  <2>2. Calm(c, sv_client', flight \o (sv_client').message)
    BY <1>3, <1>5, <1>9, <2>1, TextWritten
  <2>3. Calm(cls', sv_client', (flight \o sv_client.message)')
    BY <1>3, <2>2
  <2>4. QED BY <2>3 DEF CalmInv, Queue
<1>12. CASE Left(c) /\ (flight # <<>> => Head(flight).svc = "serverdata")
  BY <1>3, <1>12 DEF CalmInv
<1>13. QED BY <1>5, <1>10, <1>11, <1>12

LEMMA BroadcastCalm == IInv /\ CalmInv /\ UpdateToReliableMessages => CalmInv'
<1> SUFFICES ASSUME IInv, CalmInv, UpdateToReliableMessages PROVE CalmInv'
  OBVIOUS
<1>1. /\ sv_client' = Broadcast(sv_client, "reconnect") /\ cls' = cls
      /\ flight' = flight
  BY DEF UpdateToReliableMessages
<1>2. PICK q : q = flight \o sv_client.message
  OBVIOUS
<1>3. /\ sv_client \in ServerRecord /\ cls \in ClientRecord /\ flight \in Seq(Item)
      /\ \/ Upset \/ Calm(cls, sv_client, q)
         \/ Left(cls) /\ (flight # <<>> => Head(flight).svc = "serverdata")
  BY <1>2 DEF IInv, Queue, Good, SlotOK, CalmInv
<1>4. CASE Upset
  BY <1>1, <1>4 DEF CalmInv, Upset
<1>5. CASE Calm(cls, sv_client, q)
  <2>1. Calm(cls, sv_client', flight \o (sv_client').message)
    BY <1>1, <1>2, <1>3, <1>5, TextWritten
  <2>2. Calm(cls', sv_client', (flight \o sv_client.message)')
    BY <1>1, <2>1
  <2>3. QED BY <2>2 DEF CalmInv, Queue
<1>6. CASE Left(cls) /\ (flight # <<>> => Head(flight).svc = "serverdata")
  BY <1>1, <1>6 DEF CalmInv
<1>7. QED BY <1>3, <1>4, <1>5, <1>6

\* The new connection.
LEMMA ConnectCalm == IInv /\ CalmInv /\ ConnectAnew => CalmInv'
<1> SUFFICES ASSUME IInv, CalmInv, ConnectAnew PROVE CalmInv'
  OBVIOUS
<1>1. PICK e : e = <<>>
  OBVIOUS
<1>2. /\ cls \in ClientRecord /\ cls' = Connected(cls) /\ sv_client' = NewSlot
      /\ flight' = e /\ cls.cbuf = <<>> /\ cls.state = "disconnected"
  BY <1>1 DEF ConnectAnew, IInv, Good
<1>3. CASE UpsetOf(cls)
  <2>1. UpsetOf(cls')
    BY <1>2, <1>3, MarksSend, UpsetStays
  <2>2. QED BY <2>1 DEF CalmInv, Upset, UpsetOf
<1>4. CASE Left(cls)
  <2>1. /\ cls.waiting = 0 /\ cls.method = "none" /\ cls.download = None
        /\ \A f \in File : cls.disk[f] \in {<<>>, Whole(f)}
    BY <1>4 DEF Left, DiskWhole
  <2>2. NewSlot.state = "connected" /\ NewSlot.message = e
    BY <1>1 DEF NewSlot
  <2>3. Calm(cls', NewSlot, e)
    BY <1>1, <1>2, <2>1, <2>2, FreshCalm
  <2>4. e \o e = e
    BY <1>1, EmptyIs, QueueIs
  <2>5. (flight \o sv_client.message)' = e
    BY <1>2, <2>2, <2>4
  <2>6. Calm(cls', sv_client', (flight \o sv_client.message)')
    BY <1>2, <2>3, <2>5
  <2>7. QED BY <2>6 DEF CalmInv, Queue
<1>5. UpsetOf(cls) \/ Left(cls)
  BY <1>2 DEF CalmInv, Upset, UpsetOf, Calm, Ready, NoDrop, Linked
<1>6. QED BY <1>3, <1>4, <1>5

LEMMA ParseCalm == IInv /\ CalmInv /\ ParseServerMessage => CalmInv'
<1> SUFFICES ASSUME IInv, CalmInv, ParseServerMessage PROVE CalmInv'
  OBVIOUS
<1>1. PICK t : t = sv_client.message
  OBVIOUS
<1>2. PICK m : m = Head(flight)
  OBVIOUS
<1>3. PICK q : q = flight \o t
  OBVIOUS
<1>4. /\ Good(cls, sv_client, spawncount, q)
      /\ flight \in Seq(Item) /\ flight # <<>>
      /\ sv_client' = sv_client /\ cls' = Parsed(cls, m)
      /\ Linked(cls') => flight' = Tail(flight)
      /\ m.svc = "serverdata" => cls.cbuf = <<>>
      /\ ~Linked(cls') => flight' = <<>>
      /\ UpsetOf(cls) \/ Calm(cls, sv_client, q) \/ (Left(cls) /\ m.svc = "serverdata")
  BY <1>1, <1>2, <1>3
     DEF IInv, Queue, ParseServerMessage, FlushText, CalmInv, Upset, UpsetOf
<1>5. t \in Seq(Item)
  BY <1>1, <1>4 DEF Good, SlotOK, ServerRecord
<1>6. q \in Seq(Item) /\ q # <<>> /\ Tail(q) = Tail(flight) \o t /\ Head(q) = m
  BY <1>2, <1>3, <1>4, <1>5, QueueIs
<1>7. UpsetOf(cls) \/ Calm(cls, sv_client, q)
      => UpsetOf(cls') \/ Calm(cls', sv_client, Tail(flight) \o t)
  BY <1>4, <1>6, ParsedCalm
<1>8. CASE UpsetOf(cls')
  BY <1>8 DEF CalmInv, Upset, UpsetOf
<1>9. CASE Calm(cls', sv_client, Tail(flight) \o t)
  <2>1. Linked(cls')
    BY <1>9 DEF Calm, Ready, NoDrop
  <2>2. Calm(cls', sv_client', (flight \o sv_client.message)')
    BY <1>1, <1>4, <1>9, <2>1
  <2>3. QED BY <2>2 DEF CalmInv, Queue
<1>10. CASE Left(cls) /\ m.svc = "serverdata"
  <2>1. cls' = Halted(cls)
    BY <1>4, <1>10 DEF Parsed, Text, ParseServerData, Left
  <2>2. Left(cls')
    BY <1>4, <1>10, <2>1, HaltedLeft DEF Good
  <2>3. flight' = <<>>
    BY <1>4, <2>2 DEF Left
  <2>4. QED BY <2>2, <2>3 DEF CalmInv
<1>11. QED BY <1>4, <1>7, <1>8, <1>9, <1>10

\* A step of the client that leaves what is on its way to it.
LEMMA ClientCalm ==
    ASSUME UpsetOf(cls') \/ Calm(cls', sv_client, Queue),
           UNCHANGED <<sv_client, flight>>
    PROVE  CalmInv'
<1>1. Queue' = Queue /\ sv_client' = sv_client
  BY DEF Queue
<1>2. QED BY <1>1 DEF CalmInv, Upset, UpsetOf

LEMMA ClientStepsCalm ==
    /\ IInv /\ CalmInv /\ ExecuteText => CalmInv'
    /\ IInv /\ CalmInv /\ MakeActive => CalmInv'
    /\ IInv /\ CalmInv /\ SendCmd => CalmInv'
    /\ IInv /\ CalmInv /\ UserStop => CalmInv'
    /\ \A f \in File : IInv /\ CalmInv /\ UserDownload(f) => CalmInv'
<1> SUFFICES ASSUME IInv, CalmInv
             PROVE  /\ ExecuteText => CalmInv'
                    /\ MakeActive => CalmInv'
                    /\ SendCmd => CalmInv'
                    /\ UserStop => CalmInv'
                    /\ \A f \in File : UserDownload(f) => CalmInv'
  OBVIOUS
<1>1. /\ Good(cls, sv_client, spawncount, Queue) /\ cls \in ClientRecord
      /\ \/ UpsetOf(cls) \/ Calm(cls, sv_client, Queue)
         \/ Left(cls) /\ (flight # <<>> => Head(flight).svc = "serverdata")
      /\ Linked(cls) => UpsetOf(cls) \/ Calm(cls, sv_client, Queue)
  BY DEF IInv, Good, CalmInv, Upset, UpsetOf, Left
<1>2. ASSUME ExecuteText PROVE CalmInv'
  <2>1. PICK d : d = [cls EXCEPT !.cbuf = Tail(@)]
    OBVIOUS
  <2>2. PICK m : m = Head(cls.cbuf)
    OBVIOUS
  <2>3. /\ cls.cbuf # <<>> /\ cls' = Stuffed(d, m)
        /\ UNCHANGED <<sv_client, flight>>
        /\ flight # <<>> => Head(flight).svc = "serverdata"
    BY <1>2, <2>1, <2>2 DEF ExecuteText, FlushText
  <2>4. CASE UpsetOf(cls) \/ Calm(cls, sv_client, Queue)
    <3>1. \/ UpsetOf(cls') \/ Calm(cls', sv_client, Queue) \/ Left(cls')
      BY <1>1, <2>1, <2>2, <2>3, <2>4, StuffedCalm
    <3>2. CASE Left(cls')
      BY <2>3, <3>2 DEF CalmInv
    <3>3. QED BY <2>3, <3>1, <3>2, ClientCalm
  <2>5. CASE Left(cls)
    <3>1. d = [cls EXCEPT !.cbuf = Tail(cls.cbuf)]
      BY <2>1
    <3>2. Left(cls')
      BY <1>1, <2>2, <2>3, <2>5, <3>1, StuffedLeft
    <3>3. QED BY <2>3, <3>2 DEF CalmInv
  <2>6. QED BY <1>1, <2>4, <2>5
<1>3. ASSUME MakeActive PROVE CalmInv'
  <2>1. PICK d : d = [cls EXCEPT !.state = "active"]
    OBVIOUS
  <2>2. /\ cls.state = "onserver" /\ sv_client.state = "spawned" /\ cls' = d
        /\ UNCHANGED <<sv_client, flight>>
    BY <1>3, <2>1 DEF MakeActive
  <2>3. Linked(cls)
    BY <2>2 DEF Linked
  <2>4. UpsetOf(d) \/ Calm(d, sv_client, Queue)
    BY <1>1, <2>1, <2>2, <2>3, ActiveCalm
  <2>5. QED BY <2>2, <2>4, ClientCalm
<1>4. ASSUME UserStop PROVE CalmInv'
  <2>1. PICK c : c = Send(cls, [cmd |-> "stopdl"])
    OBVIOUS
  <2>2. cls' = [c EXCEPT !.stopped = TRUE] /\ UNCHANGED <<sv_client, flight>>
    BY <1>4, <2>1 DEF UserStop
  <2>3. "stopped" \in DOMAIN c
    BY <1>1, <2>1 DEF Send, ClientRecord
  <2>4. UpsetOf(cls')
    BY <2>2, <2>3 DEF UpsetOf
  <2>5. QED BY <2>2, <2>4, ClientCalm
<1>5. ASSUME NEW f \in File, UserDownload(f) PROVE CalmInv'
  <2>1. PICK d : d = [Request(cls, f) EXCEPT !.type = "single",
                        !.number = cls.number, !.overlap = @ \/ cls.state # "active"]
    OBVIOUS
  <2>2. cls' = d /\ Linked(cls) /\ UNCHANGED <<sv_client, flight>>
    BY <1>5, <2>1 DEF UserDownload
  <2>3. UpsetOf(d) \/ Calm(d, sv_client, Queue)
    BY <1>1, <2>1, <2>2, UserCalm
  <2>4. QED BY <2>2, <2>3, ClientCalm
<1>6. ASSUME SendCmd PROVE CalmInv'
  <2>1. PICK k : k = Len(cls.message)
    OBVIOUS
  <2>2. PICK d : d = [cls EXCEPT !.sent = k]
    OBVIOUS
  <2>3. cls' = d /\ Linked(cls) /\ UNCHANGED <<sv_client, flight>>
    BY <1>6, <2>1, <2>2 DEF SendCmd
  <2>4. UpsetOf(cls) => UpsetOf(d)
    BY <1>1, <2>2 DEF UpsetOf, ClientRecord
  <2>5. Calm(cls, sv_client, Queue) => Calm(d, sv_client, Queue)
    <3>1. Queue \in Seq(Item)
      BY <1>1 DEF Good, ItemsOK
    <3>2. QED BY <1>1, <2>2, <3>1, UnsentCalm
  <2>6. QED BY <1>1, <2>3, <2>4, <2>5, ClientCalm
<1>7. QED BY <1>2, <1>3, <1>4, <1>5, <1>6

-----------------------------------------------------------------------------
(* The theorems about a signon that no file got in the way of *)

\* While no file got in the way, what is on its way is in the order of the signon,
\* at most one block of a file is, and every file is what the server sent.
THEOREM StaysCalm == Spec => []CalmInv
<1>1. IInv /\ CalmInv /\ [Next]_vars => CalmInv'
  <2> SUFFICES ASSUME IInv, CalmInv, [Next]_vars PROVE CalmInv'
    OBVIOUS
  <2>1. CASE ExecuteUserCommand
    BY <2>1, ExecuteCalm
  <2>2. CASE Transmit
    BY <2>2, TransmitCalm
  <2>3. CASE Map
    BY <2>3, MapCalm
  <2>4. CASE ParseServerMessage
    BY <2>4, ParseCalm
  <2>5. CASE ExecuteText \/ MakeActive \/ SendCmd \/ UserStop
    BY <2>5, ClientStepsCalm
  <2>6. CASE \E f \in File : UserDownload(f)
    BY <2>6, ClientStepsCalm
  <2>7. CASE UNCHANGED vars
    BY <2>7 DEF vars, CalmInv, Upset, Queue
  <2>8. CASE UpdateToReliableMessages
    BY <2>8, BroadcastCalm
  <2>9. CASE ConnectAnew
    BY <2>9, ConnectCalm
  <2>10. QED
    BY <2>1, <2>2, <2>3, <2>4, <2>5, <2>6, <2>7, <2>8, <2>9 DEF Next
<1>2. QED BY <1>1, InitCalm, Inductive, PTL DEF Spec

\* FilesWhole: a file under its real name has all of its blocks, each once and in
\* order ("Only rename to the real name when done"), whenever levels change and
\* the download is asked for anew, unless a file got in the way of another.
THEOREM FilesAreWhole == Spec => []FilesWhole
<1>1. CalmInv => FilesWhole
  BY DEF CalmInv, Calm, Ready, Left, DiskWhole, FilesWhole, NoRunt
<1>2. QED BY <1>1, StaysCalm, PTL

\* StaysConnected: a change of level in the middle of a download neither drops the
\* client for its map (Cmd_PreSpawn_f) nor has it give up for a file (Host_Error);
\* when it leaves its connection for the new level it begins another (CL_Reconnect_f).
THEOREM LeavesToConnectAgain == Spec => []StaysConnected
<1>1. CalmInv => StaysConnected
  BY DEF CalmInv, Calm, Ready, NoDrop, Left, Linked, StaysConnected
<1>2. QED BY <1>1, StaysCalm, PTL

\* ListsWhole: a client that has begun has all the models of the level, in order,
\* however often its signon was restarted.
THEOREM ListsAreWhole == Spec => []ListsWhole
<1>1. IInv /\ CalmInv => ListsWhole
  <2> SUFFICES ASSUME IInv, CalmInv, sv_client.state = "spawned", ~Upset
               PROVE  cls.models = Models[spawncount]
    BY DEF ListsWhole
  <2>1. PICK c : c = cls
    OBVIOUS
  <2>2. /\ Good(c, sv_client, spawncount, Queue) /\ DiskWhole(c)
        /\ c.models \in Seq(File)
    BY <2>1 DEF IInv, CalmInv, Calm, Ready, Left, Good, ClientRecord
  <2>3. c.servercount = spawncount /\ Loaded(c) /\ spawncount \in Level
    BY <2>2 DEF Good, SlotOK
  <2>4. c.models # <<>>
    BY <2>2, <2>3, LoadedIs
  <2>5. \A i \in DOMAIN c.models : c.models[i] = Models[spawncount][i]
    BY <2>2, <2>3, <2>4 DEF Good, ListsOK
  <2>6. Len(c.models) = Len(Models[spawncount])
    BY <2>2, <2>3, StageIs DEF DiskWhole
  <2>7. Models[spawncount] \in Seq(File)
    BY <2>3, LevelIs
  <2>8. c.models = Models[spawncount]
    BY <2>2, <2>5, <2>6, <2>7, SeqEqual
  <2>9. QED BY <2>1, <2>8
<1>2. QED BY <1>1, Inductive, StaysCalm, PTL
=============================================================================
