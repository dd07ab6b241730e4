----------------------------- MODULE SignonProof -----------------------------
(***************************************************************************)
(* What Signon promises of a client that has begun, for all levels, lists  *)
(* of models, files, numbers of blocks and levels played: it is on the     *)
(* server's level (OnLevel), has its sounds and none but its models and    *)
(* has loaded its map (HasLevel); the variables have their types; and a    *)
(* file that has its name is not written again.                            *)
(*                                                                         *)
(* The argument.  The signon is a chain of commands and answers, each      *)
(* telling the level it is for; the server answers a command for its own   *)
(* level n only, and one for another level with its data (serverdata),     *)
(* from which the client starts anew.  There may be several chains at the  *)
(* same time.  Queue, the items in flight and then those in the message of *)
(* the slot, and the client's message are read in the order in which they  *)
(* will be:                                                                *)
(*   - levels told only rise, and none is above n (ItemPair, ItemOK), so   *)
(*     an answer is for the level the client is on;                        *)
(*   - behind a command for level n there is none that starts anew         *)
(*     (CommandPair), and data of level n still to come find a client with *)
(*     no sounds of that level (ItemOK): once it has some, all it has sent *)
(*     is for level n (ListsOK), and nothing takes its lists away;         *)
(*   - so lists grow in order, and a model's place on the list is the one  *)
(*     the server had in mind (ItemOK, ListsOK);                           *)
(*   - a new connection begins with nothing on its way but "new", and a    *)
(*     client that asks for a level is not on the server's (StateOK);      *)
(*   - a prespawn with the right checksum, a spawn, a begin and the        *)
(*     answers to them say that the map is loaded (CommandOK, ItemOK,      *)
(*     TextOK), and it stays loaded until data of another level come.      *)
(* Messages are cleared (Cmd_Spawn_f, a command for another level), so the *)
(* invariant is about what is left of a queue (Sub): it never says that    *)
(* something is on its way.                                                *)
(*                                                                         *)
(* Good is the invariant, of a client, a slot, a level and a queue: there  *)
(* is a lemma for each operator of Signon that it is kept.                 *)
(***************************************************************************)
EXTENDS Signon, Integers, WellFoundedInduction, SequenceTheorems, TLAPS

-----------------------------------------------------------------------------
(* The invariant.  c is the client, s the slot, q the items on their way from
   the server to the client, in flight and then in the message of the slot, and
   n the server's level. *)

ServerRecord ==
    [state : {"connected", "spawned", "zombie"}, spawncount : Level \cup {0},
     message : Seq(Item), download : File \cup {None}, count : 0..Blocks]
ClientRecord ==
    [state : {"disconnected", "connected", "onserver", "active", "halted"},
     connecting : BOOLEAN, servercount : Level \cup {0}, sounds : Level \cup {0},
     models : Seq(File), precache : File \cup {None, Bad},
     type : {"none", "single", "model", "vwep_model"}, number : Nat,
     method : {"none", "QW"}, name : File \cup {None},
     download : File \cup {None},
     tmp : [File -> Seq(Block)], disk : [File -> Seq(Block)],
     message : Seq(Command), sent : Nat, cbuf : Seq(Item), waiting : Nat,
     overlap : BOOLEAN, crossed : BOOLEAN, stopped : BOOLEAN]

\* Commands that tell a level, and items that do; what answers such a command.
Leveled == {"soundlist", "modellist", "prespawn", "spawn", "begin"}
Reply == {"soundlist", "modellist", "spawn"}
Answer == Reply \cup {"skins"}
Tells(x) == x.svc \in Reply \cup {"serverdata"}

\* A command that does not begin the signon anew on level n.
Fine(y, n) == y.cmd # "new" /\ (y.cmd \in Leveled => y.level = n)
AllFine(c, n) == \A i \in DOMAIN c.message : Fine(c.message[i], n)
\* No request for the sounds of the client's level is on its way.
NoSound(c) ==
    \A i \in DOMAIN c.message :
        c.message[i].cmd = "soundlist" => c.message[i].level # c.servercount
\* The client has loaded its map, and it is the right one.
Loaded(c) == c.precache \in File

\* What an item on its way says of the client, and of the server's level.
ItemOK(c, s, n, x) ==
    /\ x.svc = "serverdata" =>
          /\ c.servercount <= x.level /\ x.level <= n
          /\ c.sounds # 0 => c.servercount < x.level
          /\ x.level = n => s.spawncount = n
    /\ x.svc \in Reply => x.level = c.servercount
    /\ x.svc \in Answer /\ c.servercount = n => AllFine(c, n)
    /\ x.svc = "soundlist" => c.models = <<>>
    /\ x.svc = "modellist" =>
          /\ c.sounds = c.servercount /\ NoSound(c)
          /\ x.n <= Len(c.models) /\ x.n < Len(Models[x.level])
          /\ x.model = Models[x.level][x.n + 1]
          /\ x.next = IF x.n + 1 = Len(Models[x.level]) THEN 0 ELSE x.n + 1
    /\ x.svc \in {"spawn", "skins"} => Loaded(c)
    /\ x.svc = "changing" => c.servercount # n
\* Of two items on their way, x the earlier one.
ItemPair(c, n, x, y) ==
    /\ Tells(x) /\ Tells(y) => x.level <= y.level
    /\ x.svc \in Answer /\ y.svc = "serverdata" => c.servercount < y.level
    /\ x.svc = "serverdata" /\ y.svc \in Answer => x.level <= c.servercount
    /\ x.svc = "serverdata" /\ x.level = n => y.svc # "changing"
    /\ x.svc = "modellist" => y.svc # "soundlist"
ItemsOK(c, s, n, q) ==
    /\ q \in Seq(Item)
    /\ \A i \in DOMAIN q : ItemOK(c, s, n, q[i])
    /\ \A i, j \in DOMAIN q : i < j => ItemPair(c, n, q[i], q[j])

\* What a command on its way says of the client.
CommandOK(c, y) ==
    /\ y.cmd \in Leveled => y.level <= c.servercount
    /\ y.cmd = "modellist" => y.n < Len(Models[y.level])
    /\ y.cmd \in Leveled /\ y.level = c.servercount =>
          /\ y.cmd = "soundlist" => c.models = <<>>
          /\ y.cmd = "modellist" =>
                y.n <= Len(c.models) /\ c.sounds = c.servercount
          /\ y.cmd = "prespawn" /\ y.check # Bad => Loaded(c)
          /\ y.cmd \in {"spawn", "begin"} => Loaded(c)
\* Of two commands on their way, x the earlier one.
CommandPair(c, n, x, y) ==
    /\ x.cmd \in Leveled /\ x.level = n => Fine(y, n)
    /\ x.cmd = "modellist" /\ x.level = c.servercount /\ y.cmd = "soundlist"
       => y.level # c.servercount
CommandsOK(c, n) ==
    /\ \A i \in DOMAIN c.message : CommandOK(c, c.message[i])
    /\ \A i, j \in DOMAIN c.message :
          i < j => CommandPair(c, n, c.message[i], c.message[j])

\* Text that is stuffed but not executed.
TextOK(c, n) ==
    \A i \in DOMAIN c.cbuf :
        LET x == c.cbuf[i] IN
        /\ x.svc \in Text
        /\ x.svc = "changing" => c.servercount # n
        /\ x.svc = "spawn" => x.level = c.servercount
        /\ x.svc \in {"spawn", "skins"} => Loaded(c)

\* The lists the client has are of its level, one after the other: the models
\* after the sounds, and its map is the first of the models.
ListsOK(c, n) ==
    /\ c.servercount <= n
    /\ c.sounds # 0 => c.sounds = c.servercount
    /\ c.sounds # 0 /\ c.servercount = n => AllFine(c, n)
    /\ c.models # <<>> => c.sounds # 0 /\ NoSound(c)
    /\ c.models # <<>> =>
          /\ Len(c.models) <= Len(Models[c.servercount])
          /\ \A i \in DOMAIN c.models : c.models[i] = Models[c.servercount][i]
    /\ c.precache # None => c.models # <<>>
    /\ Loaded(c) => /\ c.precache = c.models[1]
                    /\ c.disk[c.precache] = Whole(c.precache)
\* A client that asks for a level is not on the server's.
StateOK(c, n) ==
    /\ c.state = "connected" => c.servercount # n
    /\ c.sent <= Len(c.message)
\* A file is asked for only while it is missing.
FilesOK(c) ==
    /\ c.method = "QW" => c.name \in File /\ c.disk[c.name] = <<>>
    /\ c.download # None => c.method = "QW"

SlotOK(c, s, n) ==
    /\ s \in ServerRecord
    /\ s.download # None => s.count < Blocks
    /\ c.servercount = n => s.spawncount = n
    /\ s.state = "spawned" => c.servercount = n /\ Loaded(c)

Good(c, s, n, q) ==
    /\ c \in ClientRecord /\ n \in Level
    /\ ItemsOK(c, s, n, q) /\ CommandsOK(c, n) /\ TextOK(c, n)
    /\ ListsOK(c, n) /\ StateOK(c, n) /\ FilesOK(c) /\ SlotOK(c, s, n)

Queue == flight \o sv_client.message
IInv ==
    /\ flight \in Seq(Item) /\ user \in 0..MaxUser
    /\ broadcast \in BOOLEAN /\ parsing \in BOOLEAN
    /\ Good(cls, sv_client, spawncount, Queue)
-----------------------------------------------------------------------------
(* Sequences *)

\* p is what is left of q when some of its elements are gone.
Sub(p, q) ==
    \E f \in [DOMAIN p -> DOMAIN q] :
        /\ \A i \in DOMAIN p : p[i] = q[f[i]]
        /\ \A i, j \in DOMAIN p : i < j => f[i] < f[j]

LEMMA TailIs ==
    ASSUME NEW S, NEW q \in Seq(S), q # <<>>
    PROVE  /\ Tail(q) \in Seq(S) /\ Head(q) \in S /\ 1 \in DOMAIN q /\ Head(q) = q[1]
           /\ \A i \in DOMAIN Tail(q) : /\ i + 1 \in DOMAIN q /\ 1 < i + 1
                                        /\ Tail(q)[i] = q[i + 1]
           /\ Sub(Tail(q), q)
<1>1. /\ Tail(q) \in Seq(S) /\ Len(Tail(q)) = Len(q) - 1 /\ Len(q) \in Nat \ {0}
      /\ DOMAIN q = 1..Len(q) /\ DOMAIN Tail(q) = 1..Len(q) - 1
      /\ \A i \in 1..Len(q) - 1 : Tail(q)[i] = q[i + 1]
  BY HeadTailProperties, LenProperties, EmptySeq
<1>2. \A i \in DOMAIN Tail(q) : /\ i + 1 \in DOMAIN q /\ 1 < i + 1
                                /\ Tail(q)[i] = q[i + 1]
  BY <1>1
<1>3. Head(q) \in S /\ 1 \in DOMAIN q /\ Head(q) = q[1]
  BY <1>1, HeadTailProperties
<1>4. Sub(Tail(q), q)
  <2>1. PICK r : r = Tail(q)
    OBVIOUS
  <2>2. \A i \in DOMAIN r : i + 1 \in DOMAIN q /\ r[i] = q[i + 1] /\ i \in Int
    BY <1>1, <2>1
  <2>3. PICK f : f = [i \in DOMAIN r |-> i + 1]
    OBVIOUS
  <2>4. /\ f \in [DOMAIN r -> DOMAIN q]
        /\ \A i \in DOMAIN r : r[i] = q[f[i]]
        /\ \A i, j \in DOMAIN r : i < j => f[i] < f[j]
    BY <2>2, <2>3
  <2>5. QED BY <2>1, <2>4 DEF Sub
<1>5. QED BY <1>1, <1>2, <1>3, <1>4

LEMMA AppendIs ==
    ASSUME NEW S, NEW q \in Seq(S), NEW x \in S
    PROVE  /\ Append(q, x) \in Seq(S)
           /\ \A i \in DOMAIN q : i \in DOMAIN Append(q, x) /\ Append(q, x)[i] = q[i]
           /\ \E k \in DOMAIN Append(q, x) :
                 /\ Append(q, x)[k] = x
                 /\ \A i \in DOMAIN Append(q, x) :
                       (i \in DOMAIN q /\ i < k /\ Append(q, x)[i] = q[i]) \/ i = k
<1>1. PICK r : r = Append(q, x)
  OBVIOUS
<1>2. /\ r \in Seq(S) /\ Len(q) \in Nat /\ DOMAIN q = 1..Len(q)
      /\ DOMAIN r = 1..Len(q) + 1
      /\ \A i \in 1..Len(q) : r[i] = q[i]
      /\ r[Len(q) + 1] = x
  BY <1>1, AppendProperties, LenProperties
<1>3. PICK k : k = Len(q) + 1
  OBVIOUS
<1>4. /\ k \in DOMAIN r /\ r[k] = x
      /\ \A i \in DOMAIN r : (i \in DOMAIN q /\ i < k /\ r[i] = q[i]) \/ i = k
      /\ \A i \in DOMAIN q : i \in DOMAIN r /\ r[i] = q[i]
  BY <1>2, <1>3
<1>5. QED BY <1>1, <1>2, <1>4

LEMMA PrefixIs ==
    ASSUME NEW S, NEW q \in Seq(S), NEW k \in Nat, k <= Len(q)
    PROVE  /\ SubSeq(q, 1, k) \in Seq(S) /\ Len(SubSeq(q, 1, k)) = k
           /\ \A i \in DOMAIN SubSeq(q, 1, k) : /\ i \in DOMAIN q
                                                 /\ SubSeq(q, 1, k)[i] = q[i]
           /\ Sub(SubSeq(q, 1, k), q)
<1>1. PICK r : r = SubSeq(q, 1, k)
  OBVIOUS
<1>2. /\ Len(q) \in Nat /\ DOMAIN q = 1..Len(q)
      /\ r \in Seq(S) /\ Len(r) = k /\ DOMAIN r = 1..k
      /\ \A i \in 1..k : r[i] = q[i]
  BY <1>1, LenProperties, SubSeqProperties
<1>3. \A i \in DOMAIN r : i \in DOMAIN q /\ r[i] = q[i]
  BY <1>2
<1>4. PICK f : f = [i \in DOMAIN r |-> i]
  OBVIOUS
<1>5. /\ f \in [DOMAIN r -> DOMAIN q]
      /\ \A i \in DOMAIN r : r[i] = q[f[i]]
      /\ \A i, j \in DOMAIN r : i < j => f[i] < f[j]
  BY <1>3, <1>4
<1>6. Sub(r, q)
  BY <1>5 DEF Sub
<1>7. QED BY <1>1, <1>2, <1>3, <1>6

LEMMA AllIs ==
    ASSUME NEW S, NEW q \in Seq(S)
    PROVE  Sub(q, q)
<1>1. PICK f : f = [i \in DOMAIN q |-> i]
  OBVIOUS
<1>2. /\ f \in [DOMAIN q -> DOMAIN q]
      /\ \A i \in DOMAIN q : q[i] = q[f[i]]
      /\ \A i, j \in DOMAIN q : i < j => f[i] < f[j]
  BY <1>1
<1>3. QED BY <1>2 DEF Sub

\* The items on their way when the message of the slot changes.
LEMMA QueueIs ==
    ASSUME NEW p \in Seq(Item), NEW q \in Seq(Item)
    PROVE  /\ p \o q \in Seq(Item)
           /\ \A x \in Item : p \o Append(q, x) = Append(p \o q, x)
           /\ p \o <<>> = p
           /\ Sub(p, p \o q) /\ Sub(q, p \o q)
           /\ p # <<>> => p \o q # <<>> /\ Tail(p \o q) = Tail(p) \o q
                          /\ Head(p \o q) = Head(p)
<1>1. PICK r : r = p \o q
  OBVIOUS
<1>2. /\ r \in Seq(Item) /\ Len(r) = Len(p) + Len(q)
      /\ Len(p) \in Nat /\ Len(q) \in Nat
      /\ DOMAIN p = 1..Len(p) /\ DOMAIN q = 1..Len(q) /\ DOMAIN r = 1..Len(p) + Len(q)
      /\ \A i \in 1..Len(p) : r[i] = p[i]
      /\ \A i \in 1..Len(q) : r[Len(p) + i] = q[i]
  BY <1>1, ConcatProperties, LenProperties
<1>3. \A x \in Item : p \o Append(q, x) = Append(r, x)
  BY <1>1
<1>4. p \o <<>> = p
  BY ConcatEmptySeq
<1>5. Sub(p, r)
  <2>1. PICK f : f = [i \in DOMAIN p |-> i]
    OBVIOUS
  <2>2. /\ f \in [DOMAIN p -> DOMAIN r]
        /\ \A i \in DOMAIN p : p[i] = r[f[i]]
        /\ \A i, j \in DOMAIN p : i < j => f[i] < f[j]
    BY <1>2, <2>1
  <2>3. QED BY <2>2 DEF Sub
<1>6. Sub(q, r)
  <2>1. PICK f : f = [i \in DOMAIN q |-> Len(p) + i]
    OBVIOUS
  <2>2. /\ f \in [DOMAIN q -> DOMAIN r]
        /\ \A i \in DOMAIN q : q[i] = r[f[i]]
        /\ \A i, j \in DOMAIN q : i < j => f[i] < f[j]
    BY <1>2, <2>1
  <2>3. QED BY <2>2 DEF Sub
<1>7. p # <<>> => r # <<>> /\ Tail(r) = Tail(p) \o q /\ Head(r) = Head(p)
  BY <1>1
<1>8. QED BY <1>1, <1>2, <1>3, <1>4, <1>5, <1>6, <1>7

LEMMA EmptyIs ==
    ASSUME NEW S
    PROVE  <<>> \in Seq(S) /\ DOMAIN <<>> = {} /\ Len(<<>>) = 0
BY EmptySeq

LEMMA OneIs ==
    ASSUME NEW S, NEW x \in S
    PROVE  <<x>> \in Seq(S) /\ DOMAIN <<x>> = {1} /\ <<x>>[1] = x
OBVIOUS

LEMMA LevelIs ==
    /\ MaxLevel \in Nat \ {0} /\ Blocks \in Nat \ {0} /\ MaxUser \in Nat
    /\ SERVERONLY \in BOOLEAN
    /\ None # Bad /\ None \notin File /\ Bad \notin File
    /\ \A l \in Level : l \in Nat \ {0}
    /\ \A l \in Level : /\ Models[l] \in Seq(File) /\ Len(Models[l]) \in Nat \ {0}
                         /\ \A i \in 1..Len(Models[l]) : Models[l][i] \in File
<1>1. /\ MaxLevel \in Nat \ {0} /\ Blocks \in Nat \ {0} /\ MaxUser \in Nat
      /\ SERVERONLY \in BOOLEAN
      /\ None # Bad /\ None \notin File /\ Bad \notin File
  BY SignonAssumption
<1>2. \A l \in Level : l \in Nat \ {0}
  BY <1>1 DEF Level
<1>3. ASSUME NEW l \in Level
      PROVE  /\ Models[l] \in Seq(File) /\ Len(Models[l]) \in Nat \ {0}
             /\ \A i \in 1..Len(Models[l]) : Models[l][i] \in File
  <2>1. PICK q : q = Models[l]
    OBVIOUS
  <2>2. q \in Seq(File) /\ q # <<>>
    BY <2>1, SignonAssumption DEF Level
  <2>3. Len(q) \in Nat /\ Len(q) # 0 /\ \A i \in 1..Len(q) : q[i] \in File
    BY <2>2, EmptySeq
  <2>4. QED BY <2>1, <2>2, <2>3
<1>4. QED BY <1>1, <1>2, <1>3

-----------------------------------------------------------------------------
(* What keeps the invariant, whoever does it *)

\* Items are taken away.
LEMMA SubItems ==
    ASSUME NEW c, NEW s, NEW n, NEW q, ItemsOK(c, s, n, q),
           NEW p \in Seq(Item), Sub(p, q)
    PROVE  ItemsOK(c, s, n, p)
<1>1. PICK f \in [DOMAIN p -> DOMAIN q] :
        /\ \A i \in DOMAIN p : p[i] = q[f[i]]
        /\ \A i, j \in DOMAIN p : i < j => f[i] < f[j]
  BY DEF Sub
<1>2. \A i \in DOMAIN p : f[i] \in DOMAIN q
  OBVIOUS
<1>3. \A i \in DOMAIN p : ItemOK(c, s, n, p[i])
  BY <1>1, <1>2 DEF ItemsOK
<1>4. \A i, j \in DOMAIN p : i < j => ItemPair(c, n, p[i], p[j])
  BY <1>1, <1>2 DEF ItemsOK
<1>5. QED BY <1>3, <1>4 DEF ItemsOK

LEMMA SubGood ==
    ASSUME NEW c, NEW s, NEW n, NEW q, Good(c, s, n, q),
           NEW p \in Seq(Item), Sub(p, q)
    PROVE  Good(c, s, n, p)
BY SubItems DEF Good

\* An item is added.
LEMMA AppendItems ==
    ASSUME NEW c, NEW s, NEW n, NEW q, ItemsOK(c, s, n, q),
           NEW x \in Item, ItemOK(c, s, n, x),
           \A i \in DOMAIN q : ItemPair(c, n, q[i], x)
    PROVE  ItemsOK(c, s, n, Append(q, x))
<1>1. q \in Seq(Item)
  BY DEF ItemsOK
<1>2. PICK r : r = Append(q, x)
  OBVIOUS
<1>3. r \in Seq(Item)
  BY <1>1, <1>2, AppendIs
<1>4. PICK k \in DOMAIN r :
        /\ r[k] = x
        /\ \A i \in DOMAIN r : (i \in DOMAIN q /\ i < k /\ r[i] = q[i]) \/ i = k
  BY <1>1, <1>2, AppendIs
<1>5. \A i \in DOMAIN r : ItemOK(c, s, n, r[i])
  BY <1>4 DEF ItemsOK
<1>6. \A i, j \in DOMAIN r : i < j => ItemPair(c, n, r[i], r[j])
  <2> SUFFICES ASSUME NEW i \in DOMAIN r, NEW j \in DOMAIN r, i < j
               PROVE  ItemPair(c, n, r[i], r[j])
    OBVIOUS
  <2>1. i \in Int /\ j \in Int /\ k \in Int
    BY <1>3
  <2>2. i # k /\ i \in DOMAIN q /\ r[i] = q[i]
    BY <1>4, <2>1
  <2>3. CASE j = k
    BY <1>4, <2>2, <2>3
  <2>4. CASE j # k
    BY <1>4, <2>2, <2>4 DEF ItemsOK
  <2>5. QED BY <2>3, <2>4
<1>7. QED BY <1>2, <1>3, <1>5, <1>6 DEF ItemsOK

\* The client changes in what the invariant does not depend on.
LEMMA SameGood ==
    ASSUME NEW c, NEW s, NEW n, NEW q, Good(c, s, n, q), NEW d \in ClientRecord,
           d.servercount = c.servercount, d.sounds = c.sounds,
           d.models = c.models, d.precache = c.precache, d.disk = c.disk,
           d.message = c.message, d.cbuf = c.cbuf,
           d.sent \in {c.sent, Len(c.message)},
           d.state = "connected" => c.state = "connected" \/ d.servercount # n,
           FilesOK(d)
    PROVE  Good(d, s, n, q)
<1>1. \A x : ItemOK(c, s, n, x) => ItemOK(d, s, n, x)
  BY DEF ItemOK, AllFine, NoSound, Loaded
<1>2. \A x, y : ItemPair(c, n, x, y) => ItemPair(d, n, x, y)
  BY DEF ItemPair
<1>3. ItemsOK(d, s, n, q)
  BY <1>1, <1>2 DEF Good, ItemsOK
<1>4. \A y : CommandOK(c, y) => CommandOK(d, y)
  BY DEF CommandOK, Loaded
<1>5. \A x, y : CommandPair(c, n, x, y) => CommandPair(d, n, x, y)
  BY DEF CommandPair
<1>6. CommandsOK(d, n)
  BY <1>4, <1>5 DEF Good, CommandsOK
<1>7. TextOK(d, n)
  BY DEF Good, TextOK, Loaded
<1>8. ListsOK(d, n)
  BY DEF Good, ListsOK, Loaded, AllFine, NoSound
<1>9. SlotOK(d, s, n)
  BY DEF Good, SlotOK, Loaded
<1>10. StateOK(d, n)
  <2>1. c.message \in Seq(Command)
    BY DEF Good, ClientRecord
  <2>2. Len(c.message) \in Nat
    BY <2>1, LenProperties
  <2>3. QED BY <2>2 DEF Good, StateOK
<1>11. QED BY <1>3, <1>6, <1>7, <1>8, <1>9, <1>10 DEF Good

\* Fewer commands are on their way.
LEMMA FewerGood ==
    ASSUME NEW c, NEW s, NEW n, NEW q, Good(c, s, n, q),
           NEW m \in Seq(Command), Sub(m, c.message),
           NEW k \in Nat, k <= Len(m),
           NEW d, d = [c EXCEPT !.message = m, !.sent = k]
    PROVE  Good(d, s, n, q)
<1>0. c \in ClientRecord
  BY DEF Good
<1>1. d \in ClientRecord
  BY <1>0 DEF ClientRecord
<1>2. /\ d.servercount = c.servercount /\ d.sounds = c.sounds /\ d.models = c.models
      /\ d.precache = c.precache /\ d.disk = c.disk /\ d.cbuf = c.cbuf
      /\ d.method = c.method /\ d.name = c.name /\ d.download = c.download
      /\ d.message = m /\ d.state = c.state /\ d.sent = k
  BY <1>0 DEF ClientRecord
<1>3. PICK f \in [DOMAIN m -> DOMAIN c.message] :
        /\ \A i \in DOMAIN m : m[i] = c.message[f[i]]
        /\ \A i, j \in DOMAIN m : i < j => f[i] < f[j]
  BY DEF Sub
<1>4. \A i \in DOMAIN m : f[i] \in DOMAIN c.message
  OBVIOUS
<1>5. (AllFine(c, n) => AllFine(d, n)) /\ (NoSound(c) => NoSound(d))
  BY <1>2, <1>3, <1>4 DEF AllFine, NoSound
<1>6. \A x : ItemOK(c, s, n, x) => ItemOK(d, s, n, x)
  BY <1>2, <1>5 DEF ItemOK, Loaded
<1>7. \A x, y : ItemPair(c, n, x, y) => ItemPair(d, n, x, y)
  BY <1>2 DEF ItemPair
<1>8. ItemsOK(d, s, n, q)
  BY <1>6, <1>7 DEF Good, ItemsOK
<1>9. \A y : CommandOK(c, y) => CommandOK(d, y)
  BY <1>2 DEF CommandOK, Loaded
<1>10. \A x, y : CommandPair(c, n, x, y) => CommandPair(d, n, x, y)
  BY <1>2 DEF CommandPair
<1>11. CommandsOK(d, n)
  <2>1. \A i \in DOMAIN m : CommandOK(d, m[i])
    BY <1>3, <1>4, <1>9 DEF Good, CommandsOK
  <2>2. \A i, j \in DOMAIN m : i < j => CommandPair(d, n, m[i], m[j])
    BY <1>3, <1>4, <1>10 DEF Good, CommandsOK
  <2>3. QED BY <1>2, <2>1, <2>2 DEF CommandsOK
<1>12. TextOK(d, n)
  BY <1>2 DEF Good, TextOK, Loaded
<1>13. ListsOK(d, n)
  BY <1>2, <1>5 DEF Good, ListsOK, Loaded
<1>14. SlotOK(d, s, n)
  BY <1>2 DEF Good, SlotOK, Loaded
<1>15. FilesOK(d)
  BY <1>2 DEF Good, FilesOK
<1>16. StateOK(d, n)
  BY <1>2 DEF Good, StateOK
<1>17. QED BY <1>1, <1>8, <1>11, <1>12, <1>13, <1>14, <1>15, <1>16 DEF Good

\* A command the client may send.
Sendable(c, n, q, y) ==
    /\ y \in Command /\ CommandOK(c, y)
    /\ c.servercount = n => Fine(y, n)
    /\ y.cmd = "soundlist" /\ y.level = c.servercount =>
          /\ \A i \in DOMAIN q : q[i].svc # "modellist"
          /\ \A i \in DOMAIN c.message :
                c.message[i].cmd = "modellist" => c.message[i].level # c.servercount

LEMMA SendGood ==
    ASSUME NEW c, NEW s, NEW n, NEW q, Good(c, s, n, q), NEW y, Sendable(c, n, q, y)
    PROVE  Good(Send(c, y), s, n, q)
<1>0. c \in ClientRecord /\ c.message \in Seq(Command)
  BY DEF Good, ClientRecord
<1>1. PICK m : m = Append(c.message, y)
  OBVIOUS
<1>2. m \in Seq(Command)
  BY <1>0, <1>1, AppendIs DEF Sendable
<1>3. PICK k \in DOMAIN m :
        /\ m[k] = y
        /\ \A i \in DOMAIN m :
              (i \in DOMAIN c.message /\ i < k /\ m[i] = c.message[i]) \/ i = k
  BY <1>0, <1>1, AppendIs DEF Sendable
<1>4. PICK d : d = Send(c, y)
  OBVIOUS
<1>5. d = [c EXCEPT !.message = m]
  BY <1>1, <1>4 DEF Send
<1>6. d \in ClientRecord
  BY <1>0, <1>2, <1>5 DEF ClientRecord
<1>7. /\ d.servercount = c.servercount /\ d.sounds = c.sounds /\ d.models = c.models
      /\ d.precache = c.precache /\ d.disk = c.disk /\ d.cbuf = c.cbuf
      /\ d.method = c.method /\ d.name = c.name /\ d.download = c.download
      /\ d.message = m /\ d.state = c.state /\ d.sent = c.sent
  BY <1>0, <1>5 DEF ClientRecord
<1>8. c.servercount = n /\ AllFine(c, n) => AllFine(d, n)
  BY <1>3, <1>7 DEF AllFine, Sendable
<1>9. NoSound(c) => NoSound(d) \/ (y.cmd = "soundlist" /\ y.level = c.servercount)
  BY <1>3, <1>7 DEF NoSound
<1>10. \A i \in DOMAIN q : ItemOK(c, s, n, q[i]) => ItemOK(d, s, n, q[i])
  BY <1>7, <1>8, <1>9 DEF ItemOK, Loaded, Sendable
<1>11. \A x, z : ItemPair(c, n, x, z) => ItemPair(d, n, x, z)
  BY <1>7 DEF ItemPair
<1>12. ItemsOK(d, s, n, q)
  BY <1>10, <1>11 DEF Good, ItemsOK
<1>13. \A x : CommandOK(c, x) => CommandOK(d, x)
  BY <1>7 DEF CommandOK, Loaded
<1>14. \A x, z : CommandPair(c, n, x, z) => CommandPair(d, n, x, z)
  BY <1>7 DEF CommandPair
<1>15. \A i \in DOMAIN m : CommandOK(d, m[i])
  BY <1>3, <1>13 DEF Good, CommandsOK, Sendable
<1>16. c.servercount <= n /\ c.servercount \in Nat /\ n \in Nat
  <2>1. c.servercount <= n /\ n \in Level
    BY DEF Good, ListsOK
  <2>2. c.servercount \in Level \cup {0}
    BY <1>0 DEF ClientRecord
  <2>3. QED BY <2>1, <2>2, LevelIs
<1>17. \A i \in DOMAIN c.message : CommandPair(d, n, c.message[i], y)
  <2> SUFFICES ASSUME NEW i \in DOMAIN c.message
               PROVE  CommandPair(d, n, c.message[i], y)
    OBVIOUS
  <2>1. PICK x : x = c.message[i]
    OBVIOUS
  <2>2. x \in Command /\ CommandOK(c, x)
    BY <1>0, <2>1 DEF Good, CommandsOK
  <2>3. x.cmd \in Leveled /\ x.level = n => c.servercount = n
    BY <1>16, <2>2 DEF CommandOK
  <2>4. x.cmd = "modellist" /\ x.level = c.servercount /\ y.cmd = "soundlist"
        => y.level # c.servercount
    BY <2>1 DEF Sendable
  <2>5. QED BY <1>7, <2>1, <2>3, <2>4 DEF CommandPair, Sendable
<1>18. \A i, j \in DOMAIN m : i < j => CommandPair(d, n, m[i], m[j])
  <2> SUFFICES ASSUME NEW i \in DOMAIN m, NEW j \in DOMAIN m, i < j
               PROVE  CommandPair(d, n, m[i], m[j])
    OBVIOUS
  <2>1. i \in Int /\ j \in Int /\ k \in Int
    BY <1>2
  <2>2. i \in DOMAIN c.message /\ m[i] = c.message[i]
    BY <1>3, <2>1
  <2>3. CASE j = k
    BY <1>3, <1>17, <2>2, <2>3
  <2>4. CASE j # k
    BY <1>3, <1>14, <2>2, <2>4 DEF Good, CommandsOK
  <2>5. QED BY <2>3, <2>4
<1>19. CommandsOK(d, n)
  BY <1>7, <1>15, <1>18 DEF CommandsOK
<1>20. TextOK(d, n)
  BY <1>7 DEF Good, TextOK, Loaded
<1>21. ListsOK(d, n)
  <2>1. c.models # <<>> => ~(y.cmd = "soundlist" /\ y.level = c.servercount)
    BY DEF Sendable, CommandOK, Leveled
  <2>2. QED BY <1>7, <1>8, <1>9, <2>1 DEF Good, ListsOK, Loaded
<1>22. SlotOK(d, s, n)
  BY <1>7 DEF Good, SlotOK, Loaded
<1>23. FilesOK(d)
  BY <1>7 DEF Good, FilesOK
<1>24. StateOK(d, n)
  <2>1. Len(m) = Len(c.message) + 1 /\ Len(c.message) \in Nat
    BY <1>0, <1>1, AppendProperties, LenProperties DEF Sendable
  <2>2. c.sent \in Nat /\ c.sent <= Len(c.message)
    BY <1>0 DEF Good, StateOK, ClientRecord
  <2>3. QED BY <1>7, <2>1, <2>2 DEF Good, StateOK
<1>25. QED
  BY <1>4, <1>6, <1>12, <1>19, <1>20, <1>21, <1>22, <1>23, <1>24 DEF Good

-----------------------------------------------------------------------------
(* Items and commands have the fields of their kind *)

LEMMA ItemIs ==
    \A x \in Item :
        /\ x.svc \in Text \cup {"disconnect", "serverdata", "soundlist",
                                "modellist", "download"}
        /\ Tells(x) => x.level \in Level
        /\ x.svc = "modellist" => x.n \in Nat /\ x.model \in File /\ x.next \in Nat
        /\ x.svc = "download" => x.block \in Block /\ x.done \in BOOLEAN
<1> SUFFICES ASSUME NEW x \in Item
             PROVE  /\ x.svc \in Text \cup {"disconnect", "serverdata", "soundlist",
                                            "modellist", "download"}
                    /\ Tells(x) => x.level \in Level
                    /\ x.svc = "modellist" =>
                          x.n \in Nat /\ x.model \in File /\ x.next \in Nat
                    /\ x.svc = "download" => x.block \in Block /\ x.done \in BOOLEAN
  OBVIOUS
<1>1. CASE x \in [svc : {"changing", "reconnect", "skins", "disconnect"}]
  BY <1>1 DEF Text, Tells, Reply
<1>2. CASE x \in [svc : {"serverdata", "soundlist", "spawn"}, level : Level]
  BY <1>2 DEF Text, Tells, Reply
<1>3. CASE x \in [svc : {"modellist"}, level : Level, n : Nat, model : File,
                  next : Nat]
  BY <1>3 DEF Text, Tells, Reply
<1>4. CASE x \in [svc : {"download"}, block : Block, done : BOOLEAN]
  BY <1>4 DEF Text, Tells, Reply
<1>5. QED BY <1>1, <1>2, <1>3, <1>4 DEF Item

LEMMA CommandIs ==
    \A y \in Command :
        /\ y.cmd \in Leveled \cup {"new", "nextdl", "stopdl", "drop", "download"}
        /\ y.cmd \in Leveled => y.level \in Level
        /\ y.cmd = "modellist" => y.n \in Nat
        /\ y.cmd = "prespawn" => y.check \in File \cup {Bad}
        /\ y.cmd = "download" => y.file \in File
<1> SUFFICES ASSUME NEW y \in Command
             PROVE  /\ y.cmd \in Leveled \cup {"new", "nextdl", "stopdl", "drop",
                                               "download"}
                    /\ y.cmd \in Leveled => y.level \in Level
                    /\ y.cmd = "modellist" => y.n \in Nat
                    /\ y.cmd = "prespawn" => y.check \in File \cup {Bad}
                    /\ y.cmd = "download" => y.file \in File
  OBVIOUS
<1>1. CASE y \in [cmd : {"new", "nextdl", "stopdl", "drop"}]
  BY <1>1 DEF Leveled
<1>2. CASE y \in [cmd : {"soundlist", "spawn", "begin"}, level : Level]
  BY <1>2 DEF Leveled
<1>3. CASE y \in [cmd : {"modellist"}, level : Level, n : Nat]
  BY <1>3 DEF Leveled
<1>4. CASE y \in [cmd : {"prespawn"}, level : Level, check : File \cup {Bad}]
  BY <1>4 DEF Leveled
<1>5. CASE y \in [cmd : {"download"}, file : File]
  BY <1>5 DEF Leveled
<1>6. QED BY <1>1, <1>2, <1>3, <1>4, <1>5 DEF Command

\* The client changes in its text, its files or the checksum of its map.
LEMMA LoadGood ==
    ASSUME NEW c, NEW s, NEW n, NEW q, Good(c, s, n, q), NEW d \in ClientRecord,
           d.servercount = c.servercount, d.sounds = c.sounds,
           d.models = c.models, d.message = c.message,
           d.state = c.state, d.sent = c.sent,
           Loaded(c) => Loaded(d), d.precache # None => d.models # <<>>,
           Loaded(d) => /\ d.precache = d.models[1]
                        /\ d.disk[d.precache] = Whole(d.precache),
           TextOK(d, n), FilesOK(d)
    PROVE  Good(d, s, n, q)
<1>1. (AllFine(c, n) <=> AllFine(d, n)) /\ (NoSound(c) <=> NoSound(d))
  BY DEF AllFine, NoSound
<1>2. \A x : ItemOK(c, s, n, x) => ItemOK(d, s, n, x)
  BY <1>1 DEF ItemOK
<1>3. \A x, y : ItemPair(c, n, x, y) => ItemPair(d, n, x, y)
  BY DEF ItemPair
<1>4. ItemsOK(d, s, n, q)
  BY <1>2, <1>3 DEF Good, ItemsOK
<1>5. \A y : CommandOK(c, y) => CommandOK(d, y)
  BY DEF CommandOK
<1>6. \A x, y : CommandPair(c, n, x, y) => CommandPair(d, n, x, y)
  BY DEF CommandPair
<1>7. CommandsOK(d, n)
  BY <1>5, <1>6 DEF Good, CommandsOK
<1>8. ListsOK(d, n)
  BY <1>1 DEF Good, ListsOK
<1>9. SlotOK(d, s, n)
  BY DEF Good, SlotOK
<1>10. StateOK(d, n)
  BY DEF Good, StateOK
<1>11. QED BY <1>4, <1>7, <1>8, <1>9, <1>10 DEF Good

\* What a client that has loaded its map has: the lists of a level.
LEMMA LoadedIs ==
    ASSUME NEW c, NEW s, NEW n, NEW q, Good(c, s, n, q)
    PROVE  /\ c.precache # None => c.models # <<>>
           /\ Loaded(c) => c.precache # None
           /\ c.models # <<>> => c.sounds # 0
           /\ c.sounds # 0 => c.servercount \in Level
           /\ c.servercount \in Nat /\ n \in Nat /\ n \in Level /\ c.servercount <= n
           /\ \A i \in DOMAIN c.models : c.models[i] \in File
           /\ \A f \in File : Whole(f) # <<>>
<1>1. c \in ClientRecord /\ ListsOK(c, n) /\ n \in Level
  BY DEF Good
<1>2. /\ c.precache # None => c.models # <<>>
      /\ c.models # <<>> => c.sounds # 0
      /\ c.servercount <= n
  BY <1>1 DEF ListsOK
<1>3. Loaded(c) => c.precache # None
  BY LevelIs DEF Loaded
<1>4. c.servercount \in Level \cup {0}
  BY <1>1 DEF ClientRecord
<1>5. c.sounds \in Level \cup {0}
  BY <1>1 DEF ClientRecord
<1>6. c.sounds # 0 => c.servercount \in Level
  BY <1>1, <1>5 DEF ListsOK
<1>7. c.servercount \in Nat /\ n \in Nat
  BY <1>1, <1>4, LevelIs
<1>8. \A i \in DOMAIN c.models : c.models[i] \in File
  <2>1. c.models \in Seq(File)
    BY <1>1 DEF ClientRecord
  <2>2. QED BY <2>1
<1>9. \A f \in File : Whole(f) # <<>>
  <2> SUFFICES ASSUME NEW f \in File PROVE Whole(f) # <<>>
    OBVIOUS
  <2>1. 1 \in DOMAIN Whole(f)
    BY LevelIs DEF Whole
  <2>2. QED BY <2>1, EmptyIs
<1>10. QED BY <1>1, <1>2, <1>3, <1>6, <1>7, <1>8, <1>9

-----------------------------------------------------------------------------
(* The client *)

LEMMA ClosedGood ==
    ASSUME NEW c, NEW s, NEW n, NEW q, Good(c, s, n, q)
    PROVE  Good(Closed(c), s, n, q)
<1>1. c \in ClientRecord
  BY DEF Good
<1>2. PICK d : d = Closed(c)
  OBVIOUS
<1>3. d \in ClientRecord
  BY <1>1, <1>2 DEF Closed, ClientRecord
<1>4. /\ d.servercount = c.servercount /\ d.sounds = c.sounds
      /\ d.models = c.models /\ d.precache = c.precache /\ d.disk = c.disk
      /\ d.message = c.message /\ d.cbuf = c.cbuf
      /\ d.state = c.state /\ d.sent = c.sent
      /\ d.method = "none" /\ d.download = None
  BY <1>1, <1>2 DEF Closed, ClientRecord
<1>5. FilesOK(d)
  BY <1>4 DEF FilesOK
<1>6. QED BY <1>2, <1>3, <1>4, <1>5, SameGood

\* A command that tells no level may be sent at any time, but a "new" by a client
\* that is on the server's level.
LEMMA PlainSendable ==
    ASSUME NEW c, NEW n, NEW q, NEW y \in Command, y.cmd \notin Leveled,
           y.cmd = "new" => c.servercount # n
    PROVE  Sendable(c, n, q, y)
BY DEF Sendable, CommandOK, Fine, Leveled

\* An error leaves the client its lists; it drops its connection.
LEMMA DisconnectGood ==
    ASSUME NEW c, NEW s, NEW n, NEW q, Good(c, s, n, q)
    PROVE  Good(Disconnect(c), s, n, q)
<1>1. PICK e : e = Closed(c)
  OBVIOUS
<1>2. c \in ClientRecord /\ Good(e, s, n, q) /\ e \in ClientRecord
  BY <1>1, ClosedGood DEF Good
<1>3. /\ e.message = c.message /\ e.sent = c.sent /\ e.method = "none"
      /\ e.download = None /\ e.tmp = c.tmp
  BY <1>1, <1>2 DEF Closed, ClientRecord
<1>4. PICK m : m = IF c.sent = 0 THEN c.message ELSE Sent(c)
  OBVIOUS
<1>5. /\ c.message \in Seq(Command) /\ c.sent \in Nat /\ c.sent <= Len(c.message)
      /\ c.tmp \in [File -> Seq(Block)]
  BY <1>2 DEF Good, StateOK, ClientRecord
<1>6. m \in Seq(Command) /\ Sub(m, c.message) /\ c.sent <= Len(m)
  <2>1. CASE c.sent = 0
    BY <1>4, <1>5, <2>1, AllIs, LenProperties
  <2>2. CASE c.sent # 0
    BY <1>4, <1>5, <2>2, PrefixIs DEF Sent
  <2>3. QED BY <2>1, <2>2
<1>7. PICK f : f = [e EXCEPT !.message = m, !.sent = c.sent]
  OBVIOUS
<1>8. Good(f, s, n, q)
  BY <1>2, <1>3, <1>5, <1>6, <1>7, FewerGood
<1>9. f \in ClientRecord
  BY <1>8 DEF Good
<1>10. PICK y : y = [cmd |-> "drop"]
  OBVIOUS
<1>11. y \in Command /\ y.cmd = "drop"
  BY <1>10 DEF Command
<1>12. PICK g : g = Send(f, y)
  OBVIOUS
<1>13. Good(g, s, n, q) /\ g \in ClientRecord
  <2>1. Sendable(f, n, q, y)
    BY <1>11, PlainSendable DEF Leveled
  <2>2. Good(g, s, n, q)
    BY <1>8, <1>12, <2>1, SendGood
  <2>3. QED BY <2>2 DEF Good
<1>14. PICK last : last = Append(m, y)
  OBVIOUS
<1>15. last \in Seq(Command) /\ Len(last) \in Nat
  BY <1>6, <1>11, <1>14, AppendIs, LenProperties
<1>16. /\ g = [e EXCEPT !.message = last, !.sent = c.sent]
       /\ e \in ClientRecord
  <2>1. e \in ClientRecord
    BY <1>2
  <2>2. f.message = m
    BY <1>7, <2>1 DEF ClientRecord
  <2>3. g = [f EXCEPT !.message = last]
    BY <1>12, <1>14, <2>2 DEF Send
  <2>4. QED BY <1>7, <2>1, <2>3 DEF ClientRecord
<1>17. /\ g.message = last /\ g.method = "none" /\ g.download = None
       /\ g.tmp = c.tmp
  BY <1>3, <1>16 DEF ClientRecord
<1>18. ASSUME NEW tmp \in [File -> Seq(Block)],
              NEW type \in {"none", "single", "model", "vwep_model"},
              NEW number \in Nat,
              NEW d, d = [g EXCEPT !.state = "disconnected", !.connecting = FALSE,
                                   !.sent = Len(last), !.waiting = 0,
                                   !.tmp = tmp, !.type = type, !.number = number]
       PROVE  Good(d, s, n, q)
  <2>1. d \in ClientRecord
    BY <1>13, <1>15, <1>18 DEF ClientRecord
  <2>2. /\ d.servercount = g.servercount /\ d.sounds = g.sounds
        /\ d.models = g.models /\ d.precache = g.precache /\ d.disk = g.disk
        /\ d.message = g.message /\ d.cbuf = g.cbuf
        /\ d.state = "disconnected" /\ d.sent = Len(g.message)
        /\ d.method = g.method /\ d.download = g.download
    BY <1>13, <1>17, <1>18 DEF ClientRecord
  <2>3. FilesOK(d)
    BY <1>17, <2>2 DEF FilesOK
  <2>4. QED BY <1>13, <2>1, <2>2, <2>3, SameGood
<1>19. PICK b : b = [e EXCEPT !.state = "disconnected", !.connecting = FALSE,
                              !.message = last, !.sent = Len(last), !.waiting = 0]
  OBVIOUS
<1>20. Disconnect(c) = IF c.download # None THEN [b EXCEPT !.tmp[c.name] = <<>>]
                       ELSE [b EXCEPT !.type = "none", !.number = 0]
  BY <1>1, <1>4, <1>10, <1>14, <1>19 DEF Disconnect
<1>21. /\ g \in ClientRecord
       /\ b = [g EXCEPT !.state = "disconnected", !.connecting = FALSE,
                        !.sent = Len(last), !.waiting = 0]
       /\ b.tmp = c.tmp
  <2>1. g \in ClientRecord
    BY <1>13
  <2>2. b = [g EXCEPT !.state = "disconnected", !.connecting = FALSE,
                      !.sent = Len(last), !.waiting = 0]
    BY <1>16, <1>19 DEF ClientRecord
  <2>3. QED BY <1>17, <2>1, <2>2 DEF ClientRecord
<1>22. CASE c.download # None
  <2>1. PICK tmp : tmp = [c.tmp EXCEPT ![c.name] = <<>>]
    OBVIOUS
  <2>2. tmp \in [File -> Seq(Block)]
    BY <1>5, <2>1, EmptyIs
  <2>3. Disconnect(c) = [b EXCEPT !.tmp = tmp]
    BY <1>20, <1>21, <1>22, <2>1 DEF ClientRecord
  <2>4. g.type \in {"none", "single", "model", "vwep_model"} /\ g.number \in Nat
    BY <1>13 DEF ClientRecord
  <2>5. [b EXCEPT !.tmp = tmp]
        = [g EXCEPT !.state = "disconnected", !.connecting = FALSE,
                    !.sent = Len(last), !.waiting = 0,
                    !.tmp = tmp, !.type = g.type, !.number = g.number]
    BY <1>21 DEF ClientRecord
  <2>6. QED BY <1>18, <2>2, <2>3, <2>4, <2>5
<1>23. CASE c.download = None
  <2>1. Disconnect(c) = [b EXCEPT !.type = "none", !.number = 0]
    BY <1>20, <1>23
  <2>2. [b EXCEPT !.type = "none", !.number = 0]
        = [g EXCEPT !.state = "disconnected", !.connecting = FALSE,
                    !.sent = Len(last), !.waiting = 0,
                    !.tmp = c.tmp, !.type = "none", !.number = 0]
    <3>1. c.tmp = g.tmp /\ g \in ClientRecord
      BY <1>17, <1>21
    <3>2. g = [g EXCEPT !.tmp = c.tmp]
      BY <3>1 DEF ClientRecord
    <3>3. b = [g EXCEPT !.state = "disconnected", !.connecting = FALSE,
                        !.sent = Len(last), !.waiting = 0, !.tmp = c.tmp]
      BY <1>21, <3>1, <3>2 DEF ClientRecord
    <3>4. QED BY <3>1, <3>3 DEF ClientRecord
  <2>3. QED BY <1>5, <1>18, <2>1, <2>2
<1>24. QED BY <1>22, <1>23

\* So does a write without a connection.
LEMMA HaltedGood ==
    ASSUME NEW c, NEW s, NEW n, NEW q, Good(c, s, n, q)
    PROVE  Good(Halted(c), s, n, q)
<1>1. c \in ClientRecord
  BY DEF Good
<1>2. PICK d : d = Halted(c)
  OBVIOUS
<1>3. d \in ClientRecord
  BY <1>1, <1>2 DEF Halted, ClientRecord
<1>4. /\ d.servercount = c.servercount /\ d.sounds = c.sounds
      /\ d.models = c.models /\ d.precache = c.precache /\ d.disk = c.disk
      /\ d.message = c.message /\ d.cbuf = c.cbuf
      /\ d.state = "halted" /\ d.sent = c.sent
      /\ d.method = c.method /\ d.name = c.name /\ d.download = c.download
  BY <1>1, <1>2 DEF Halted, ClientRecord
<1>5. FilesOK(d)
  BY <1>4 DEF Good, FilesOK
<1>6. QED BY <1>2, <1>3, <1>4, <1>5, SameGood

LEMMA RequestGood ==
    ASSUME NEW c, NEW s, NEW n, NEW q, Good(c, s, n, q),
           NEW f \in File, c.disk[f] = <<>>
    PROVE  Good(Request(c, f), s, n, q)
<1>1. c \in ClientRecord
  BY DEF Good
<1>2. PICK d : d = [c EXCEPT !.name = f, !.method = "QW", !.number = @ + 1,
                             !.waiting = @ + 1, !.overlap = @ \/ c.waiting > 0]
  OBVIOUS
<1>3. d \in ClientRecord
  <2>1. PICK number : number = c.number + 1
    OBVIOUS
  <2>2. PICK waiting : waiting = c.waiting + 1
    OBVIOUS
  <2>3. PICK overlap : overlap = (c.overlap \/ c.waiting > 0)
    OBVIOUS
  <2>4. c.number \in Nat /\ c.waiting \in Nat
    BY <1>1 DEF ClientRecord
  <2>5. number \in Nat /\ waiting \in Nat
    BY <2>1, <2>2, <2>4
  <2>6. overlap \in BOOLEAN
    BY <2>3
  <2>7. d = [c EXCEPT !.name = f, !.method = "QW", !.number = number,
                      !.waiting = waiting, !.overlap = overlap]
    BY <1>2, <2>1, <2>2, <2>3
  <2>8. QED BY <1>1, <2>5, <2>6, <2>7 DEF ClientRecord
<1>4. /\ d.servercount = c.servercount /\ d.sounds = c.sounds
      /\ d.models = c.models /\ d.precache = c.precache /\ d.disk = c.disk
      /\ d.message = c.message /\ d.cbuf = c.cbuf
      /\ d.state = c.state /\ d.sent = c.sent
      /\ d.method = "QW" /\ d.name = f
  BY <1>1, <1>2 DEF ClientRecord
<1>5. FilesOK(d)
  BY <1>4 DEF FilesOK
<1>6. Good(d, s, n, q)
  BY <1>3, <1>4, <1>5, SameGood
<1>7. PICK y : y = [cmd |-> "download", file |-> f]
  OBVIOUS
<1>8. y \in Command /\ y.cmd = "download"
  BY <1>7 DEF Command
<1>9. Sendable(d, n, q, y)
  BY <1>8, PlainSendable DEF Leveled
<1>10. Request(c, f) = Send(d, y)
  BY <1>2, <1>7 DEF Request
<1>11. QED BY <1>6, <1>9, <1>10, SendGood

LEMMA PrespawnGood ==
    ASSUME NEW c, NEW s, NEW n, NEW q, Good(c, s, n, q)
    PROVE  Good(Prespawn(c), s, n, q)
<1>1. CASE c.precache = None
  BY <1>1, DisconnectGood DEF Prespawn
<1>2. CASE c.precache # None
  <2>1. PICK y : y = [cmd |-> "prespawn", level |-> c.servercount,
                      check |-> c.precache]
    OBVIOUS
  <2>2. /\ y.cmd = "prespawn" /\ y.level = c.servercount /\ y.check = c.precache
    BY <2>1
  <2>3. c.servercount \in Level /\ c.servercount \in Nat
    BY <1>2, LoadedIs
  <2>4. c.precache \in File \cup {Bad}
    BY <1>2 DEF Good, ClientRecord
  <2>5. y \in Command
    BY <2>1, <2>3, <2>4 DEF Command
  <2>6. CommandOK(c, y)
    BY <2>2, <2>3, <2>4 DEF CommandOK, Loaded
  <2>7. Sendable(c, n, q, y)
    BY <2>2, <2>5, <2>6 DEF Sendable, Fine
  <2>8. QED BY <1>2, <2>1, <2>7, SendGood DEF Prespawn
<1>3. QED BY <1>1, <1>2

LEMMA SomeLeast ==
    ASSUME NEW S \in SUBSET Nat, S # {}
    PROVE  \E i \in S : \A j \in S : i <= j
<1> DEFINE Less == {m \in Nat \X Nat : m[1] < m[2]}
<1>1. IsWellFoundedOn(Less, Nat)
  BY NatLessThanWellFounded, Zenon DEF OpToRel
<1>2. PICK i \in S : \A j \in S : ~(<<j, i>> \in Less)
  <2> HIDE DEF Less
  <2>1. QED BY <1>1, WFMin
<1>3. ASSUME NEW j \in S PROVE i <= j
  <2>1. ~(j < i)
    BY <1>2
  <2>2. QED BY <2>1
<1>4. QED BY <1>3

LEMMA LeastIs ==
    ASSUME NEW S \in SUBSET Nat, S # {}
    PROVE  (CHOOSE i \in S : \A j \in S : i <= j) \in S
<1>1. \E i \in S : \A j \in S : i <= j
  BY SomeLeast
<1>2. QED BY <1>1

\* A missing model is asked for, or the map is loaded: it is the first on the
\* list, and on the disk, unless the checksum is of another file.
LEMMA ModelNextDownloadGood ==
    ASSUME NEW c, NEW s, NEW n, NEW q, Good(c, s, n, q)
    PROVE  Good(ModelNextDownload(c), s, n, q)
<1>1. c \in ClientRecord /\ c.models \in Seq(File)
  BY DEF Good, ClientRecord
<1>2. PICK missing : missing = {i \in DOMAIN c.models :
                                   i >= c.number /\ c.disk[c.models[i]] = <<>>}
  OBVIOUS
<1>3. PICK first : first = CHOOSE i \in missing : \A j \in missing : i <= j
  OBVIOUS
<1>4. CASE missing # {}
  <2>1. first \in missing
    <3>1. missing \in SUBSET Nat
      BY <1>1, <1>2
    <3>2. QED BY <1>3, <1>4, <3>1, LeastIs
  <2>2. /\ first \in Nat /\ c.models[first] \in File
        /\ c.disk[c.models[first]] = <<>>
    BY <1>1, <1>2, <2>1
  <2>3. PICK d : d = [c EXCEPT !.type = "model", !.number = first]
    OBVIOUS
  <2>4. d \in ClientRecord
    BY <1>1, <2>2, <2>3 DEF ClientRecord
  <2>5. /\ d.servercount = c.servercount /\ d.sounds = c.sounds
        /\ d.models = c.models /\ d.precache = c.precache /\ d.disk = c.disk
        /\ d.message = c.message /\ d.cbuf = c.cbuf
        /\ d.state = c.state /\ d.sent = c.sent
        /\ d.method = c.method /\ d.name = c.name /\ d.download = c.download
    BY <1>1, <2>3 DEF ClientRecord
  <2>6. FilesOK(d)
    BY <2>5 DEF Good, FilesOK
  <2>7. Good(d, s, n, q)
    BY <2>4, <2>5, <2>6, SameGood
  <2>8. ModelNextDownload(c) = Request(d, c.models[first])
    BY <1>2, <1>3, <1>4, <2>3 DEF ModelNextDownload
  <2>9. QED BY <2>2, <2>5, <2>7, <2>8, RequestGood
<1>5. CASE missing = {} /\ \E i \in DOMAIN c.models : c.disk[c.models[i]] = <<>>
  <2>1. ModelNextDownload(c) = Disconnect(c)
    BY <1>2, <1>5 DEF ModelNextDownload
  <2>2. QED BY <2>1, DisconnectGood
<1>6. CASE /\ missing = {}
           /\ ~\E i \in DOMAIN c.models : c.disk[c.models[i]] = <<>>
  <2>1. PICK map : map = c.models[1]
    OBVIOUS
  <2>2. PICK check : check = IF c.models = NoModels THEN c.precache
                             ELSE IF c.disk[map] = Whole(map) THEN map ELSE Bad
    OBVIOUS
  <2>3. PICK d : d = [c EXCEPT !.type = "vwep_model", !.precache = check]
    OBVIOUS
  <2>4. ModelNextDownload(c) = Prespawn(d)
    BY <1>2, <1>6, <2>1, <2>2, <2>3 DEF ModelNextDownload
  <2>5. c.models # <<>> => map \in File
    <3>1. c.models # <<>> => 1 \in DOMAIN c.models
      BY <1>1, TailIs
    <3>2. QED BY <2>1, <3>1, LoadedIs
  <2>6. c.models = <<>> => check = c.precache /\ check = None
    BY <2>2, LoadedIs DEF NoModels
  <2>7. c.models # <<>> => check = (IF c.disk[map] = Whole(map) THEN map ELSE Bad)
    BY <2>2 DEF NoModels
  <2>8. check \in File \cup {None, Bad}
    BY <2>5, <2>6, <2>7
  <2>9. d \in ClientRecord
    BY <1>1, <2>3, <2>8 DEF ClientRecord
  <2>10. /\ d.servercount = c.servercount /\ d.sounds = c.sounds
         /\ d.models = c.models /\ d.precache = check /\ d.disk = c.disk
         /\ d.message = c.message /\ d.cbuf = c.cbuf
         /\ d.state = c.state /\ d.sent = c.sent
         /\ d.method = c.method /\ d.name = c.name /\ d.download = c.download
    BY <1>1, <2>3 DEF ClientRecord
  <2>11. Loaded(c) => Loaded(d)
    <3>1. Loaded(c) => c.precache = map /\ c.disk[map] = Whole(map) /\ c.models # <<>>
      BY <2>1, LoadedIs DEF Good, ListsOK
    <3>2. QED BY <2>5, <2>7, <2>10, <3>1 DEF Loaded
  <2>12. d.precache # None => d.models # <<>>
    BY <2>6, <2>10
  <2>13. Loaded(d) => /\ d.precache = d.models[1]
                      /\ d.disk[d.precache] = Whole(d.precache)
    BY <2>1, <2>6, <2>7, <2>10, LevelIs DEF Loaded
  <2>14. TextOK(d, n)
    BY <2>10, <2>11 DEF Good, TextOK
  <2>15. FilesOK(d)
    BY <2>10 DEF Good, FilesOK
  <2>16. Good(d, s, n, q)
    BY <2>9, <2>10, <2>11, <2>12, <2>13, <2>14, <2>15, LoadGood
  <2>17. QED BY <2>4, <2>16, PrespawnGood
<1>7. QED BY <1>4, <1>5, <1>6

LEMMA SkinNextDownloadGood ==
    ASSUME NEW c, NEW s, NEW n, NEW q, Good(c, s, n, q), Loaded(c)
    PROVE  Good(SkinNextDownload(c), s, n, q)
<1>1. c \in ClientRecord
  BY DEF Good
<1>2. PICK d : d = [c EXCEPT !.type = "none"]
  OBVIOUS
<1>3. d \in ClientRecord
  BY <1>1, <1>2 DEF ClientRecord
<1>4. /\ d.servercount = c.servercount /\ d.sounds = c.sounds
      /\ d.models = c.models /\ d.precache = c.precache /\ d.disk = c.disk
      /\ d.message = c.message /\ d.cbuf = c.cbuf
      /\ d.state = c.state /\ d.sent = c.sent
      /\ d.method = c.method /\ d.name = c.name /\ d.download = c.download
  BY <1>1, <1>2 DEF ClientRecord
<1>5. FilesOK(d)
  BY <1>4 DEF Good, FilesOK
<1>6. Good(d, s, n, q)
  BY <1>3, <1>4, <1>5, SameGood
<1>7. PICK y : y = [cmd |-> "begin", level |-> c.servercount]
  OBVIOUS
<1>8. y.cmd = "begin" /\ y.level = c.servercount
  BY <1>7
<1>9. c.servercount \in Level /\ c.servercount \in Nat
  BY LoadedIs
<1>10. y \in Command
  BY <1>7, <1>9 DEF Command
<1>11. CommandOK(d, y)
  BY <1>4, <1>8, <1>9 DEF CommandOK, Loaded
<1>12. Sendable(d, n, q, y)
  BY <1>4, <1>8, <1>10, <1>11 DEF Sendable, Fine
<1>13. Good(Send(d, y), s, n, q)
  BY <1>6, <1>12, SendGood
<1>14. SkinNextDownload(c) = Send(d, y) \/ SkinNextDownload(c) = d
  BY <1>2, <1>7 DEF SkinNextDownload
<1>15. QED BY <1>6, <1>13, <1>14

LEMMA RequestNextDownloadGood ==
    ASSUME NEW c, NEW s, NEW n, NEW q, Good(c, s, n, q)
    PROVE  Good(RequestNextDownload(c), s, n, q)
<1>1. RequestNextDownload(c) \in {ModelNextDownload(c), Prespawn(c), c}
  <2>1. CASE c.type = "model"
    BY <2>1 DEF RequestNextDownload
  <2>2. CASE c.type = "vwep_model"
    BY <2>2 DEF RequestNextDownload
  <2>3. CASE c.type # "model" /\ c.type # "vwep_model"
    BY <2>3 DEF RequestNextDownload
  <2>4. QED BY <2>1, <2>2, <2>3
<1>2. QED BY <1>1, ModelNextDownloadGood, PrespawnGood

\* What is on the disk stays as it is.
Kept(c, d) == \A f \in File : c.disk[f] # <<>> => d.disk[f] = c.disk[f]

LEMMA SameDisk ==
    ASSUME NEW c \in ClientRecord
    PROVE  /\ \A y : Send(c, y).disk = c.disk
           /\ Disconnect(c).disk = c.disk
           /\ \A f : Request(c, f).disk = c.disk
           /\ Prespawn(c).disk = c.disk
           /\ SkinNextDownload(c).disk = c.disk
           /\ Halted(c).disk = c.disk
           /\ Changing(c).disk = c.disk /\ Reconnect(c).disk = c.disk
<1>1. \A y : Send(c, y).disk = c.disk
  BY DEF Send, ClientRecord
<1>2. Disconnect(c).disk = c.disk
  BY DEF Disconnect, Closed, ClientRecord
<1>3. \A f : Request(c, f).disk = c.disk
  BY DEF Request, Send, ClientRecord
<1>4. Prespawn(c).disk = c.disk
  BY <1>1, <1>2 DEF Prespawn
<1>5. SkinNextDownload(c).disk = c.disk
  BY DEF SkinNextDownload, Send, ClientRecord
<1>6. Halted(c).disk = c.disk
  BY DEF Halted, ClientRecord
<1>7. Change(c).disk = c.disk
  BY <1>6 DEF Change, Send, ClientRecord
<1>8. Changing(c).disk = c.disk
  BY <1>7 DEF Changing, ClientRecord
<1>9. Reconnect(c).disk = c.disk
  <2>1. PICK d : d = Disconnect(c)
    OBVIOUS
  <2>2. [d EXCEPT !.connecting = TRUE].disk = d.disk
    BY <2>1 DEF Disconnect, Closed, ClientRecord
  <2>3. QED BY <1>2, <1>7, <2>1, <2>2 DEF Reconnect
<1>10. QED BY <1>1, <1>2, <1>3, <1>4, <1>5, <1>6, <1>8, <1>9

LEMMA ModelsKept ==
    ASSUME NEW c \in ClientRecord
    PROVE  /\ ModelNextDownload(c).disk = c.disk
           /\ RequestNextDownload(c).disk = c.disk
<1>1. ModelNextDownload(c).disk = c.disk
  <2>1. PICK missing : missing = {i \in DOMAIN c.models :
                                     i >= c.number /\ c.disk[c.models[i]] = <<>>}
    OBVIOUS
  <2>2. PICK first : first = CHOOSE i \in missing : \A j \in missing : i <= j
    OBVIOUS
  <2>3. CASE missing # {}
    <3>1. ModelNextDownload(c) =
             Request([c EXCEPT !.type = "model", !.number = first], c.models[first])
      BY <2>1, <2>2, <2>3 DEF ModelNextDownload
    <3>2. QED BY <3>1 DEF Request, Send, ClientRecord
  <2>4. CASE missing = {} /\ \E i \in DOMAIN c.models : c.disk[c.models[i]] = <<>>
    <3>1. ModelNextDownload(c) = Disconnect(c)
      BY <2>1, <2>4 DEF ModelNextDownload
    <3>2. QED BY <3>1, SameDisk
  <2>5. CASE /\ missing = {}
             /\ ~\E i \in DOMAIN c.models : c.disk[c.models[i]] = <<>>
    <3>1. PICK check : check = IF c.models = NoModels THEN c.precache
                               ELSE IF c.disk[c.models[1]] = Whole(c.models[1])
                                    THEN c.models[1] ELSE Bad
      OBVIOUS
    <3>2. ModelNextDownload(c) =
             Prespawn([c EXCEPT !.type = "vwep_model", !.precache = check])
      BY <2>1, <2>5, <3>1 DEF ModelNextDownload
    <3>3. PICK d : d = [c EXCEPT !.type = "vwep_model", !.precache = check]
      OBVIOUS
    <3>4. Prespawn(d).disk = d.disk
      BY <3>3 DEF Prespawn, Disconnect, Closed, Send, ClientRecord
    <3>5. d.disk = c.disk
      BY <3>3 DEF ClientRecord
    <3>6. QED BY <3>2, <3>3, <3>4, <3>5
  <2>6. QED BY <2>3, <2>4, <2>5
<1>2. CASE c.type = "model"
  BY <1>1, <1>2 DEF RequestNextDownload
<1>3. CASE c.type = "vwep_model"
  BY <1>1, <1>3, SameDisk DEF RequestNextDownload
<1>4. CASE c.type # "model" /\ c.type # "vwep_model"
  BY <1>1, <1>4 DEF RequestNextDownload
<1>5. QED BY <1>1, <1>2, <1>3, <1>4

\* The file that gets its name was missing, so it is not the map that is loaded.
LEMMA FinishDownloadGood ==
    ASSUME NEW c, NEW s, NEW n, NEW q, Good(c, s, n, q),
           c.name \in File, c.disk[c.name] = <<>>
    PROVE  Good(FinishDownload(c), s, n, q) /\ Kept(c, FinishDownload(c))
<1>1. /\ c \in ClientRecord /\ c.tmp \in [File -> Seq(Block)]
      /\ c.disk \in [File -> Seq(Block)]
  BY DEF Good, ClientRecord
<1>2. PICK renamed : renamed = IF c.tmp[c.name] = <<>> THEN c
                               ELSE [c EXCEPT !.disk[c.name] = c.tmp[c.name],
                                              !.tmp[c.name] = <<>>]
  OBVIOUS
<1>3. /\ renamed \in ClientRecord
      /\ renamed.servercount = c.servercount /\ renamed.sounds = c.sounds
      /\ renamed.models = c.models /\ renamed.precache = c.precache
      /\ renamed.message = c.message /\ renamed.cbuf = c.cbuf
      /\ renamed.state = c.state /\ renamed.sent = c.sent
      /\ renamed.waiting \in Nat
      /\ \A f \in File : f # c.name => renamed.disk[f] = c.disk[f]
  <2>1. CASE c.tmp[c.name] = <<>>
    BY <1>1, <1>2, <2>1 DEF ClientRecord
  <2>2. CASE c.tmp[c.name] # <<>>
    <3>1. PICK t : t = [c.tmp EXCEPT ![c.name] = <<>>]
      OBVIOUS
    <3>2. PICK k : k = [c.disk EXCEPT ![c.name] = c.tmp[c.name]]
      OBVIOUS
    <3>3. t \in [File -> Seq(Block)]
      BY <1>1, <3>1, EmptyIs
    <3>4. /\ k \in [File -> Seq(Block)]
          /\ \A f \in File : f # c.name => k[f] = c.disk[f]
      BY <1>1, <3>2
    <3>5. renamed = [c EXCEPT !.disk = k, !.tmp = t]
      BY <1>1, <1>2, <2>2, <3>1, <3>2 DEF ClientRecord
    <3>6. QED BY <1>1, <3>3, <3>4, <3>5 DEF ClientRecord
  <2>3. QED BY <2>1, <2>2
<1>4. PICK w : w = IF renamed.waiting = 0 THEN 0 ELSE renamed.waiting - 1
  OBVIOUS
<1>5. w \in Nat
  BY <1>3, <1>4
<1>6. PICK d : d = [Closed(renamed) EXCEPT !.waiting = w]
  OBVIOUS
<1>7. PICK e : e = Closed(renamed)
  OBVIOUS
<1>8. /\ e \in ClientRecord /\ e.waiting = renamed.waiting
      /\ e.servercount = renamed.servercount /\ e.sounds = renamed.sounds
      /\ e.models = renamed.models /\ e.precache = renamed.precache
      /\ e.disk = renamed.disk /\ e.message = renamed.message
      /\ e.state = renamed.state /\ e.sent = renamed.sent
      /\ e.cbuf = renamed.cbuf /\ e.method = "none" /\ e.download = None
  <2>1. renamed \in ClientRecord /\ e = [renamed EXCEPT !.download = None,
                                                        !.method = "none"]
    BY <1>3, <1>7 DEF Closed
  <2>2. e \in ClientRecord
    BY <2>1 DEF ClientRecord
  <2>3. /\ e.waiting = renamed.waiting
        /\ e.servercount = renamed.servercount /\ e.sounds = renamed.sounds
        /\ e.models = renamed.models /\ e.precache = renamed.precache
        /\ e.disk = renamed.disk /\ e.message = renamed.message
        /\ e.state = renamed.state /\ e.sent = renamed.sent
        /\ e.cbuf = renamed.cbuf /\ e.method = "none" /\ e.download = None
    BY <2>1 DEF ClientRecord
  <2>4. QED BY <2>2, <2>3
<1>9. FinishDownload(c) = RequestNextDownload(d)
  <2>1. FinishDownload(c) =
           RequestNextDownload([Closed(renamed) EXCEPT
                                  !.waiting = IF @ = 0 THEN 0 ELSE @ - 1])
    BY <1>2 DEF FinishDownload
  <2>2. w = IF Closed(renamed).waiting = 0 THEN 0 ELSE Closed(renamed).waiting - 1
    BY <1>4, <1>7, <1>8
  <2>3. QED BY <1>6, <2>1, <2>2
<1>10. d = [e EXCEPT !.waiting = w]
  BY <1>6, <1>7
<1>11. d \in ClientRecord
  <2>1. e \in ClientRecord
    BY <1>8
  <2>2. QED BY <1>5, <1>10, <2>1 DEF ClientRecord
<1>12. /\ d.servercount = c.servercount /\ d.sounds = c.sounds
       /\ d.models = c.models /\ d.precache = c.precache
       /\ d.disk = renamed.disk /\ d.message = c.message
       /\ d.state = c.state /\ d.sent = c.sent
       /\ d.cbuf = c.cbuf /\ d.method = "none" /\ d.download = None
  BY <1>3, <1>8, <1>10 DEF ClientRecord
<1>13. Loaded(c) <=> Loaded(d)
  BY <1>12 DEF Loaded
<1>14. d.precache # None => d.models # <<>>
  BY <1>12, LoadedIs
<1>15. Loaded(d) => /\ d.precache = d.models[1]
                    /\ d.disk[d.precache] = Whole(d.precache)
  <2>1. Loaded(c) => /\ c.precache = c.models[1] /\ c.precache \in File
                     /\ c.disk[c.precache] = Whole(c.precache)
    BY DEF Good, ListsOK, Loaded
  <2>2. Loaded(c) => c.precache # c.name
    BY <2>1, LoadedIs
  <2>3. QED BY <1>3, <1>12, <1>13, <2>1, <2>2
<1>16. TextOK(d, n)
  BY <1>12, <1>13 DEF Good, TextOK
<1>17. FilesOK(d)
  BY <1>12 DEF FilesOK
<1>18. Good(d, s, n, q)
  BY <1>11, <1>12, <1>13, <1>14, <1>15, <1>16, <1>17, LoadGood
<1>19. FinishDownload(c).disk = renamed.disk
  BY <1>9, <1>11, <1>12, ModelsKept
<1>20. Kept(c, FinishDownload(c))
  BY <1>3, <1>19 DEF Kept
<1>21. QED BY <1>9, <1>18, <1>20, RequestNextDownloadGood

LEMMA ParseDownloadGood ==
    ASSUME NEW c, NEW s, NEW n, NEW q, Good(c, s, n, q),
           NEW m \in Item, m.svc = "download"
    PROVE  Good(ParseDownload(c, m), s, n, q) /\ Kept(c, ParseDownload(c, m))
<1>1. CASE c.method # "QW"
  <2>1. ParseDownload(c, m) = Disconnect(c)
    BY <1>1 DEF ParseDownload
  <2>2. c \in ClientRecord
    BY DEF Good
  <2>3. QED BY <2>1, <2>2, DisconnectGood, SameDisk DEF Kept
<1>2. CASE c.method = "QW"
  <2>1. /\ c \in ClientRecord /\ c.tmp \in [File -> Seq(Block)]
        /\ c.name \in File /\ c.disk[c.name] = <<>>
        /\ c.download \in File \cup {None}
    BY <1>2 DEF Good, ClientRecord, FilesOK
  <2>2. PICK opened : opened = IF c.download = None
                               THEN [c EXCEPT !.download = c.name,
                                              !.tmp[c.name] = <<>>]
                               ELSE c
    OBVIOUS
  <2>3. /\ opened \in ClientRecord /\ opened.download \in File
        /\ opened.servercount = c.servercount /\ opened.sounds = c.sounds
        /\ opened.models = c.models /\ opened.precache = c.precache
        /\ opened.disk = c.disk /\ opened.message = c.message
        /\ opened.state = c.state /\ opened.sent = c.sent
        /\ opened.cbuf = c.cbuf /\ opened.method = c.method
        /\ opened.name = c.name
    <3>1. CASE c.download = None
      <4>1. PICK t : t = [c.tmp EXCEPT ![c.name] = <<>>]
        OBVIOUS
      <4>2. t \in [File -> Seq(Block)]
        BY <2>1, <4>1, EmptyIs
      <4>3. opened = [c EXCEPT !.download = c.name, !.tmp = t]
        BY <2>1, <2>2, <3>1, <4>1 DEF ClientRecord
      <4>4. QED BY <2>1, <4>2, <4>3 DEF ClientRecord
    <3>2. CASE c.download # None
      BY <2>1, <2>2, <3>2
    <3>3. QED BY <3>1, <3>2
  <2>4. PICK written : written = IF m.block[1] = None THEN opened
                                 ELSE [opened EXCEPT !.tmp[opened.download] =
                                                       Append(@, m.block)]
    OBVIOUS
  <2>5. /\ written \in ClientRecord
        /\ written.servercount = c.servercount /\ written.sounds = c.sounds
        /\ written.models = c.models /\ written.precache = c.precache
        /\ written.disk = c.disk /\ written.message = c.message
        /\ written.state = c.state /\ written.sent = c.sent
        /\ written.cbuf = c.cbuf /\ written.method = "QW"
        /\ written.name = c.name
    <3>1. CASE m.block[1] = None
      BY <1>2, <2>3, <2>4, <3>1
    <3>2. CASE m.block[1] # None
      <4>1. opened.tmp \in [File -> Seq(Block)]
        BY <2>3 DEF ClientRecord
      <4>2. PICK a : a = Append(opened.tmp[opened.download], m.block)
        OBVIOUS
      <4>3. a \in Seq(Block)
        <5>1. m.block \in Block
          BY ItemIs
        <5>2. opened.tmp[opened.download] \in Seq(Block)
          BY <2>3, <4>1
        <5>3. QED BY <4>2, <5>1, <5>2, AppendIs
      <4>4. PICK t : t = [opened.tmp EXCEPT ![opened.download] = a]
        OBVIOUS
      <4>5. t \in [File -> Seq(Block)]
        BY <4>1, <4>3, <4>4
      <4>6. written = [opened EXCEPT !.tmp = t]
        BY <2>3, <2>4, <3>2, <4>1, <4>2, <4>4 DEF ClientRecord
      <4>7. QED BY <1>2, <2>3, <4>5, <4>6 DEF ClientRecord
    <3>3. QED BY <3>1, <3>2
  <2>6. FilesOK(written)
    BY <2>1, <2>5 DEF FilesOK
  <2>7. Good(written, s, n, q)
    BY <2>5, <2>6, SameGood
  <2>8. CASE m.done
    <3>1. ParseDownload(c, m) = FinishDownload(written)
      BY <1>2, <2>2, <2>4, <2>8 DEF ParseDownload
    <3>2. Good(FinishDownload(written), s, n, q) /\ Kept(written, FinishDownload(written))
      BY <2>1, <2>5, <2>7, FinishDownloadGood
    <3>3. QED BY <2>5, <3>1, <3>2 DEF Kept
  <2>9. CASE ~m.done
    <3>1. PICK y : y = [cmd |-> "nextdl"]
      OBVIOUS
    <3>2. y \in Command /\ y.cmd = "nextdl"
      BY <3>1 DEF Command
    <3>3. ParseDownload(c, m) = Send(written, y)
      BY <1>2, <2>2, <2>4, <2>9, <3>1 DEF ParseDownload
    <3>4. Sendable(written, n, q, y)
      BY <3>2, PlainSendable DEF Leveled
    <3>5. Kept(c, Send(written, y))
      BY <2>5, SameDisk DEF Kept
    <3>6. QED BY <2>7, <3>3, <3>4, <3>5, SendGood
  <2>10. QED BY <2>8, <2>9
<1>3. QED BY <1>1, <1>2

\* m is the item the client takes, p those behind it.
First(c, s, n, m, p) ==
    /\ m \in Item /\ ItemOK(c, s, n, m)
    /\ \A i \in DOMAIN p : ItemPair(c, n, m, p[i])

\* The data of a level finds the client with no sounds, or of a level below it.
Restarted(c, m) ==
    Send([c EXCEPT !.servercount = m.level, !.sounds = 0, !.models = NoModels,
                   !.precache = None, !.state = "onserver",
                   !.crossed = @ \/ Awaits(c)],
         [cmd |-> "soundlist", level |-> m.level])
LEMMA RestartedGood ==
    ASSUME NEW c, NEW s, NEW n, NEW p, Good(c, s, n, p),
           NEW m, First(c, s, n, m, p), m.svc = "serverdata", c.cbuf = <<>>
    PROVE  Good(Restarted(c, m), s, n, p) /\ Kept(c, Restarted(c, m))
<1>1. c \in ClientRecord /\ p \in Seq(Item) /\ c.message \in Seq(Command)
  BY DEF Good, ClientRecord, ItemsOK
<1>2. PICK M : M = m.level
  OBVIOUS
<1>3. PICK L : L = c.servercount
  OBVIOUS
<1>4. M \in Level /\ M \in Nat /\ M # 0 /\ L \in Nat /\ n \in Nat
  <2>1. m \in Item /\ Tells(m)
    BY DEF First, Tells
  <2>2. QED BY <1>2, <1>3, <2>1, ItemIs, LevelIs, LoadedIs
<1>5. /\ L <= M /\ M <= n
      /\ c.sounds # 0 => L < M
      /\ M = n => s.spawncount = n
  BY <1>2, <1>3 DEF First, ItemOK
<1>6. PICK e : e = <<>>
  OBVIOUS
<1>7. e \in Seq(File) /\ e = <<>> /\ c.cbuf = e /\ DOMAIN e = {} /\ Len(e) = 0
  BY <1>6, EmptyIs
<1>8. PICK d : d = [c EXCEPT !.servercount = M, !.sounds = 0, !.models = e,
                             !.precache = None, !.state = "onserver",
                             !.crossed = @ \/ Awaits(c)]
  OBVIOUS
<1>9. d \in ClientRecord
  <2>1. PICK crossed : crossed = (c.crossed \/ Awaits(c))
    OBVIOUS
  <2>2. crossed \in BOOLEAN
    BY <2>1
  <2>3. d = [c EXCEPT !.servercount = M, !.sounds = 0, !.models = e,
                      !.precache = None, !.state = "onserver",
                      !.crossed = crossed]
    BY <1>8, <2>1
  <2>4. c \in ClientRecord /\ M \in Level /\ e \in Seq(File)
    BY <1>1, <1>4, <1>7
  <2>5. QED BY <2>2, <2>3, <2>4 DEF ClientRecord
<1>10. /\ d.servercount = M /\ d.sounds = 0 /\ d.models = e /\ d.precache = None
       /\ d.disk = c.disk /\ d.message = c.message /\ d.cbuf = e
       /\ d.state = "onserver" /\ d.sent = c.sent
       /\ d.method = c.method /\ d.name = c.name /\ d.download = c.download
  BY <1>1, <1>7, <1>8 DEF ClientRecord
<1>11. Loaded(c) => c.sounds # 0
  BY LoadedIs
<1>12. ~Loaded(d)
  BY <1>10, LevelIs DEF Loaded
<1>13. AllFine(c, n) <=> AllFine(d, n)
  BY <1>10 DEF AllFine
<1>14. \A i \in DOMAIN p : /\ p[i] \in Item /\ ItemOK(c, s, n, p[i])
                           /\ ItemPair(c, n, m, p[i])
  BY <1>1 DEF Good, ItemsOK, First
<1>15. ASSUME NEW x \in Item, ItemOK(c, s, n, x), ItemPair(c, n, m, x)
       PROVE  ItemOK(d, s, n, x) /\ x.svc # "modellist" /\ x.svc # "spawn"
  <2>1. x.svc \in Answer => M = L
    <3>1. x.svc \in Answer => M <= L
      BY <1>2, <1>3, <1>15 DEF ItemPair
    <3>2. QED BY <1>4, <1>5, <3>1
  <2>2. x.svc \in Answer => c.sounds = 0 /\ ~Loaded(c)
    BY <1>4, <1>5, <1>11, <2>1
  <2>3. x.svc \in Reply => x.level = M
    BY <1>3, <1>15, <2>1 DEF ItemOK, Answer
  <2>4. x.svc # "modellist"
    <3>1. x.svc = "modellist" => x.svc \in Reply /\ c.sounds = L
      BY <1>3, <1>15 DEF ItemOK, Reply
    <3>2. x.svc = "modellist" => x.level = L /\ x.level \in Level
      BY <1>3, <1>15, <3>1, ItemIs DEF ItemOK, Tells
    <3>3. QED BY <2>2, <3>1, <3>2, LevelIs DEF Answer
  <2>5. x.svc \notin {"spawn", "skins"}
    BY <1>15, <2>2 DEF ItemOK, Answer, Reply
  <2>6. x.svc \in Answer /\ M = n => AllFine(d, n)
    BY <1>3, <1>13, <1>15, <2>1 DEF ItemOK
  <2>7. x.svc = "changing" => M # n
    BY <1>2, <1>15 DEF ItemPair, First
  <2>8. x.svc = "serverdata" => (x.level = n => s.spawncount = n)
    BY <1>15 DEF ItemOK
  <2>9. x.svc = "serverdata" => M <= x.level /\ x.level <= n
    BY <1>2, <1>15 DEF ItemOK, ItemPair, Tells
  <2>10. QED
    BY <1>7, <1>10, <2>3, <2>4, <2>5, <2>6, <2>7, <2>8, <2>9 DEF ItemOK
<1>16. \A i \in DOMAIN p : ItemOK(d, s, n, p[i])
  BY <1>14, <1>15
<1>17. ASSUME NEW x \in Item, ItemOK(c, s, n, x), ItemPair(c, n, m, x),
              NEW y \in Item, ItemPair(c, n, x, y)
       PROVE  ItemPair(d, n, x, y)
  <2>1. x.svc \in Answer => M = L
    <3>1. x.svc \in Answer => M <= L
      BY <1>2, <1>3, <1>17 DEF ItemPair
    <3>2. QED BY <1>4, <1>5, <3>1
  <2>2. x.svc \in Answer /\ y.svc = "serverdata" => M < y.level
    BY <1>3, <1>17, <2>1 DEF ItemPair
  <2>3. x.svc = "serverdata" /\ y.svc \in Answer => x.level <= M
    <3>1. x.svc = "serverdata" /\ y.svc \in Answer => x.level <= L
      BY <1>3, <1>17 DEF ItemPair
    <3>2. x.svc = "serverdata" => x.level \in Nat
      BY ItemIs, LevelIs DEF Tells
    <3>3. QED BY <1>4, <1>5, <3>1, <3>2
  <2>4. /\ Tells(x) /\ Tells(y) => x.level <= y.level
        /\ x.svc = "serverdata" /\ x.level = n => y.svc # "changing"
        /\ x.svc = "modellist" => y.svc # "soundlist"
    BY <1>17 DEF ItemPair
  <2>5. QED BY <1>10, <2>2, <2>3, <2>4 DEF ItemPair
<1>18. \A i, j \in DOMAIN p : i < j => ItemPair(d, n, p[i], p[j])
  BY <1>14, <1>17 DEF Good, ItemsOK
<1>19. ItemsOK(d, s, n, p)
  BY <1>1, <1>16, <1>18 DEF ItemsOK
<1>20. ASSUME NEW y \in Command, CommandOK(c, y)
       PROVE  CommandOK(d, y) /\ (y.cmd = "modellist" => y.level # M)
  <2>1. y.cmd \in Leveled => /\ y.level <= L /\ y.level <= M /\ y.level # 0
                             /\ (y.level = M => M = L)
    <3>1. y.cmd \in Leveled => y.level <= L
      BY <1>3, <1>20 DEF CommandOK
    <3>2. y.cmd \in Leveled => y.level \in Nat /\ y.level # 0
      BY CommandIs, LevelIs
    <3>3. QED BY <1>4, <1>5, <3>1, <3>2
  <2>2. y.cmd \in Leveled /\ y.level = M => c.sounds = 0 /\ ~Loaded(c)
    BY <1>4, <1>5, <1>11, <2>1
  <2>3. y.cmd = "modellist" => y.level # M
    <3>1. y.cmd = "modellist" /\ y.level = L => c.sounds = L
      BY <1>3, <1>20 DEF CommandOK, Leveled
    <3>2. QED BY <2>1, <2>2, <3>1 DEF Leveled
  <2>4. /\ y.cmd = "modellist" => y.n < Len(Models[y.level])
        /\ y.cmd \in Leveled /\ y.level = L =>
              /\ y.cmd = "prespawn" /\ y.check # Bad => Loaded(c)
              /\ y.cmd \in {"spawn", "begin"} => Loaded(c)
    BY <1>3, <1>20 DEF CommandOK
  <2>5. QED BY <1>7, <1>10, <2>1, <2>2, <2>3, <2>4 DEF CommandOK
<1>21. \A i \in DOMAIN c.message :
          c.message[i] \in Command /\ CommandOK(c, c.message[i])
  BY <1>1 DEF Good, CommandsOK
<1>22. CommandsOK(d, n)
  <2>1. \A i \in DOMAIN c.message : CommandOK(d, c.message[i])
    BY <1>20, <1>21
  <2>2. ASSUME NEW x \in Command, CommandOK(c, x), NEW y, CommandPair(c, n, x, y)
        PROVE  CommandPair(d, n, x, y)
    BY <1>10, <1>20, <2>2 DEF CommandPair
  <2>3. \A i, j \in DOMAIN c.message :
           i < j => CommandPair(d, n, c.message[i], c.message[j])
    BY <1>21, <2>2 DEF Good, CommandsOK
  <2>4. QED BY <1>10, <2>1, <2>3 DEF CommandsOK
<1>23. TextOK(d, n)
  BY <1>7, <1>10 DEF TextOK
<1>24. ListsOK(d, n)
  BY <1>5, <1>6, <1>10, <1>12 DEF ListsOK
<1>25. FilesOK(d)
  BY <1>10 DEF Good, FilesOK
<1>26. SlotOK(d, s, n)
  <2>1. s.state # "spawned"
    <3>1. s.state = "spawned" => L = n /\ Loaded(c)
      BY <1>3 DEF Good, SlotOK
    <3>2. QED BY <1>4, <1>5, <1>11, <3>1
  <2>2. d.servercount = n => s.spawncount = n
    BY <1>5, <1>10
  <2>3. QED BY <2>1, <2>2 DEF Good, SlotOK
<1>27. Good(d, s, n, p)
  <2>1. StateOK(d, n)
    BY <1>10 DEF Good, StateOK
  <2>2. QED BY <1>9, <1>19, <1>22, <1>23, <1>24, <1>25, <1>26, <2>1 DEF Good
<1>28. PICK y : y = [cmd |-> "soundlist", level |-> M]
  OBVIOUS
<1>29. y \in Command /\ y.cmd = "soundlist" /\ y.level = M
  BY <1>4, <1>28 DEF Command
<1>30. CommandOK(d, y)
  BY <1>4, <1>6, <1>10, <1>29 DEF CommandOK
<1>31. Sendable(d, n, p, y)
  <2>1. \A i \in DOMAIN p : p[i].svc # "modellist"
    BY <1>14, <1>15
  <2>2. \A i \in DOMAIN d.message :
           d.message[i].cmd = "modellist" => d.message[i].level # M
    BY <1>10, <1>20, <1>21
  <2>3. QED BY <1>10, <1>29, <1>30, <2>1, <2>2 DEF Sendable, Fine
<1>32. Restarted(c, m) = Send(d, y)
  BY <1>2, <1>6, <1>8, <1>28 DEF Restarted, NoModels
<1>33. Kept(c, Send(d, y))
  BY <1>9, <1>10, SameDisk DEF Kept
<1>34. QED BY <1>27, <1>31, <1>32, <1>33, SendGood

\* What was not sent is lost.
LEMMA ParseServerDataGood ==
    ASSUME NEW c, NEW s, NEW n, NEW p, Good(c, s, n, p),
           NEW m, First(c, s, n, m, p), m.svc = "serverdata", c.cbuf = <<>>
    PROVE  Good(ParseServerData(c, m), s, n, p) /\ Kept(c, ParseServerData(c, m))
<1>1. c \in ClientRecord
  BY DEF Good
<1>2. CASE ~Linked(c)
  <2>1. ParseServerData(c, m) = Halted(c)
    BY <1>2 DEF ParseServerData
  <2>2. QED BY <1>1, <2>1, HaltedGood, SameDisk DEF Kept
<1>3. CASE Linked(c)
  <2>1. PICK sent : sent = Sent(c)
    OBVIOUS
  <2>2. /\ sent \in Seq(Command) /\ Sub(sent, c.message) /\ Len(sent) = c.sent
        /\ c.sent \in Nat
    <3>1. /\ c.message \in Seq(Command) /\ c.sent \in Nat
          /\ c.sent <= Len(c.message)
      BY <1>1 DEF Good, StateOK, ClientRecord
    <3>2. QED BY <2>1, <3>1, PrefixIs DEF Sent
  <2>3. PICK e : e = [c EXCEPT !.message = sent, !.sent = c.sent]
    OBVIOUS
  <2>4. Good(e, s, n, p)
    <3>1. c.sent <= Len(sent)
      BY <2>2
    <3>2. QED BY <2>2, <2>3, <3>1, FewerGood
  <2>5. /\ e.servercount = c.servercount /\ e.sounds = c.sounds
        /\ e.cbuf = c.cbuf /\ e.disk = c.disk
        /\ e.waiting = c.waiting /\ e.download = c.download
        /\ e = [c EXCEPT !.message = sent]
    BY <1>1, <2>3 DEF ClientRecord
  <2>6. First(e, s, n, m, p)
    BY <2>5 DEF First, ItemOK, ItemPair, Reply, Answer
  <2>7. Good(Restarted(e, m), s, n, p) /\ Kept(e, Restarted(e, m))
    BY <2>4, <2>5, <2>6, RestartedGood
  <2>8. ParseServerData(c, m) = Restarted(e, m)
    <3>1. Awaits(e) <=> Awaits(c)
      BY <2>5 DEF Awaits
    <3>2. e.crossed = c.crossed
      BY <1>1, <2>3 DEF ClientRecord
    <3>3. PICK crossed : crossed = (c.crossed \/ Awaits(c))
      OBVIOUS
    <3>4. (e.crossed \/ Awaits(e)) = crossed
      BY <3>1, <3>2, <3>3
    <3>5. PICK d : d = [e EXCEPT !.servercount = m.level, !.sounds = 0,
                                 !.models = NoModels, !.precache = None,
                                 !.state = "onserver", !.crossed = crossed]
      OBVIOUS
    <3>6. d = [c EXCEPT !.message = sent, !.servercount = m.level, !.sounds = 0,
                        !.models = NoModels, !.precache = None,
                        !.state = "onserver", !.crossed = crossed]
      BY <1>1, <2>5, <3>5 DEF ClientRecord
    <3>7. Restarted(e, m) = Send(d, [cmd |-> "soundlist", level |-> m.level])
      BY <3>4, <3>5 DEF Restarted
    <3>8. ParseServerData(c, m) = Send(d, [cmd |-> "soundlist", level |-> m.level])
      BY <1>3, <2>1, <3>3, <3>6 DEF ParseServerData
    <3>9. QED BY <3>7, <3>8
  <2>9. QED BY <2>5, <2>7, <2>8 DEF Kept
<1>4. QED BY <1>2, <1>3

\* The sounds of the client's level, which has no models of it yet.
LEMMA ParseSoundlistGood ==
    ASSUME NEW c, NEW s, NEW n, NEW p, Good(c, s, n, p),
           NEW m, First(c, s, n, m, p), m.svc = "soundlist"
    PROVE  Good(ParseSoundlist(c, m), s, n, p) /\ Kept(c, ParseSoundlist(c, m))
<1>1. c \in ClientRecord /\ p \in Seq(Item)
  BY DEF Good, ClientRecord, ItemsOK
<1>2. PICK L : L = c.servercount
  OBVIOUS
<1>3. m.level = L /\ m \in Item /\ c.models = <<>> /\ (L = n => AllFine(c, n))
  BY <1>2 DEF First, ItemOK, Reply, Answer
<1>4. L \in Level /\ L \in Nat /\ L # 0 /\ n \in Nat /\ L <= n
  BY <1>2, <1>3, ItemIs, LevelIs, LoadedIs DEF Tells, Reply
<1>5. c.precache = None /\ ~Loaded(c)
  BY <1>3, LoadedIs
<1>6. PICK d : d = [c EXCEPT !.sounds = m.level, !.precache = None]
  OBVIOUS
<1>7. d \in ClientRecord
  BY <1>1, <1>3, <1>4, <1>6 DEF ClientRecord
<1>8. /\ d.servercount = L /\ d.sounds = L /\ d.models = <<>> /\ d.precache = None
      /\ d.disk = c.disk /\ d.message = c.message /\ d.cbuf = c.cbuf
      /\ d.state = c.state /\ d.sent = c.sent
      /\ d.method = c.method /\ d.name = c.name /\ d.download = c.download
  BY <1>1, <1>2, <1>3, <1>6 DEF ClientRecord
<1>9. Loaded(c) <=> Loaded(d)
  BY <1>5, <1>8 DEF Loaded
<1>10. (AllFine(c, n) <=> AllFine(d, n)) /\ (NoSound(c) <=> NoSound(d))
  BY <1>2, <1>8 DEF AllFine, NoSound
<1>11. ASSUME NEW x, ItemOK(c, s, n, x), ItemPair(c, n, m, x)
       PROVE  ItemOK(d, s, n, x)
  <2>1. x.svc = "serverdata" => L < x.level
    BY <1>2, <1>11 DEF ItemPair, Answer, Reply
  <2>2. QED BY <1>2, <1>3, <1>8, <1>9, <1>10, <1>11, <2>1 DEF ItemOK
<1>12. \A x, y : ItemPair(c, n, x, y) => ItemPair(d, n, x, y)
  BY <1>2, <1>8 DEF ItemPair
<1>13. ItemsOK(d, s, n, p)
  BY <1>11, <1>12 DEF Good, ItemsOK, First
<1>14. \A y : CommandOK(c, y) => CommandOK(d, y)
  BY <1>2, <1>3, <1>8, <1>9 DEF CommandOK
<1>15. \A x, y : CommandPair(c, n, x, y) => CommandPair(d, n, x, y)
  BY <1>2, <1>8 DEF CommandPair
<1>16. CommandsOK(d, n)
  BY <1>8, <1>14, <1>15 DEF Good, CommandsOK
<1>17. TextOK(d, n)
  BY <1>2, <1>8, <1>9 DEF Good, TextOK
<1>18. ListsOK(d, n)
  BY <1>3, <1>4, <1>5, <1>8, <1>9, <1>10 DEF ListsOK
<1>19. FilesOK(d)
  BY <1>8 DEF Good, FilesOK
<1>20. SlotOK(d, s, n)
  BY <1>2, <1>8, <1>9 DEF Good, SlotOK
<1>21. Good(d, s, n, p)
  <2>1. StateOK(d, n)
    BY <1>2, <1>8 DEF Good, StateOK
  <2>2. QED BY <1>7, <1>13, <1>16, <1>17, <1>18, <1>19, <1>20, <2>1 DEF Good
<1>22. PICK y : y = [cmd |-> "modellist", level |-> L, n |-> 0]
  OBVIOUS
<1>23. y \in Command /\ y.cmd = "modellist" /\ y.level = L /\ y.n = 0
  BY <1>4, <1>22 DEF Command
<1>24. CommandOK(d, y)
  <2>1. 0 < Len(Models[L])
    BY <1>4, LevelIs
  <2>2. Len(d.models) = 0
    BY <1>8, EmptyIs
  <2>3. QED BY <1>4, <1>8, <1>23, <2>1, <2>2 DEF CommandOK
<1>25. Sendable(d, n, p, y)
  BY <1>8, <1>23, <1>24 DEF Sendable, Fine
<1>26. ParseSoundlist(c, m) = Send(d, y)
  BY <1>1, <1>2, <1>6, <1>22 DEF ParseSoundlist, ClientRecord
<1>27. Kept(c, Send(d, y))
  BY <1>7, <1>8, SameDisk DEF Kept
<1>28. QED BY <1>21, <1>25, <1>26, <1>27, SendGood

\* The models of its level: one more, or one it has already.
LEMMA ParseModellistGood ==
    ASSUME NEW c, NEW s, NEW n, NEW p, Good(c, s, n, p),
           NEW m, First(c, s, n, m, p), m.svc = "modellist"
    PROVE  Good(ParseModellist(c, m), s, n, p) /\ Kept(c, ParseModellist(c, m))
<1>1. c \in ClientRecord /\ p \in Seq(Item) /\ c.models \in Seq(File)
  BY DEF Good, ClientRecord, ItemsOK
<1>2. PICK L : L = c.servercount
  OBVIOUS
<1>3. PICK list : list = Models[L]
  OBVIOUS
<1>4. m \in Item /\ m.level = L /\ c.sounds = L /\ NoSound(c)
  BY <1>2 DEF First, ItemOK, Reply
<1>5. L \in Level /\ L \in Nat /\ L # 0 /\ n \in Nat /\ L <= n
  BY <1>2, <1>4, ItemIs, LevelIs, LoadedIs DEF Tells, Reply
<1>6. PICK k : k = m.n
  OBVIOUS
<1>7. /\ k \in Nat /\ k <= Len(c.models) /\ k < Len(list)
      /\ m.model = list[k + 1] /\ m.model \in File
      /\ m.next = IF k + 1 = Len(list) THEN 0 ELSE k + 1
  BY <1>2, <1>3, <1>4, <1>6, ItemIs DEF First, ItemOK
<1>8. /\ Len(list) \in Nat /\ list \in Seq(File)
      /\ \A i \in 1..Len(list) : list[i] \in File
  BY <1>3, <1>5, LevelIs
<1>9. PICK size : size = IF k + 1 > Len(c.models) THEN k + 1 ELSE Len(c.models)
  OBVIOUS
<1>10. PICK r : r = [i \in 1..size |-> IF i = k + 1 THEN m.model ELSE c.models[i]]
  OBVIOUS
<1>11. /\ Len(c.models) \in Nat /\ Len(c.models) <= Len(list)
       /\ DOMAIN c.models = 1..Len(c.models)
       /\ \A i \in DOMAIN c.models : c.models[i] = list[i]
  <2>1. c.models = <<>> => Len(c.models) = 0 /\ DOMAIN c.models = {}
    BY EmptyIs
  <2>2. c.models # <<>> => /\ Len(c.models) <= Len(list)
                           /\ \A i \in DOMAIN c.models : c.models[i] = list[i]
    BY <1>2, <1>3 DEF Good, ListsOK
  <2>3. Len(c.models) \in Nat /\ DOMAIN c.models = 1..Len(c.models)
    BY <1>1
  <2>4. QED BY <1>8, <2>1, <2>2, <2>3
<1>12. /\ size \in Nat /\ size >= Len(c.models) /\ size >= k + 1
       /\ size <= Len(list)
       /\ \A i \in 1..size : i = k + 1 \/ i \in DOMAIN c.models
  BY <1>7, <1>8, <1>9, <1>11
<1>13. \A i \in 1..size : r[i] = list[i] /\ r[i] \in File
  <2> SUFFICES ASSUME NEW i \in 1..size PROVE r[i] = list[i] /\ r[i] \in File
    OBVIOUS
  <2>1. r[i] = list[i]
    BY <1>7, <1>10, <1>11, <1>12
  <2>2. QED BY <1>8, <1>12, <2>1
<1>14. r \in Seq(File) /\ Len(r) = size /\ DOMAIN r = 1..size /\ r # <<>>
  <2>1. r \in [1..size -> File]
    BY <1>10, <1>13
  <2>2. r \in Seq(File) /\ Len(r) = size /\ DOMAIN r = 1..size
    BY <1>12, <2>1
  <2>3. size # 0
    BY <1>7, <1>12
  <2>4. QED BY <2>2, <2>3, EmptyIs
<1>15. PICK d : d = [c EXCEPT !.models = r]
  OBVIOUS
<1>16. d \in ClientRecord
  BY <1>1, <1>14, <1>15 DEF ClientRecord
<1>17. /\ d.servercount = L /\ d.sounds = L /\ d.models = r
       /\ d.precache = c.precache
       /\ d.disk = c.disk /\ d.message = c.message /\ d.cbuf = c.cbuf
       /\ d.state = c.state /\ d.sent = c.sent
       /\ d.method = c.method /\ d.name = c.name /\ d.download = c.download
  BY <1>1, <1>2, <1>4, <1>15 DEF ClientRecord
<1>18. Loaded(c) <=> Loaded(d)
  BY <1>17 DEF Loaded
<1>19. (AllFine(c, n) <=> AllFine(d, n)) /\ (NoSound(c) <=> NoSound(d))
  BY <1>2, <1>17 DEF AllFine, NoSound
<1>20. \A i \in Nat : i <= Len(c.models) => i <= Len(r)
  BY <1>11, <1>12, <1>14
<1>21. ASSUME NEW x \in Item, ItemOK(c, s, n, x), ItemPair(c, n, m, x)
       PROVE  ItemOK(d, s, n, x)
  <2>1. x.svc # "soundlist"
    BY <1>21 DEF ItemPair
  <2>2. x.svc = "modellist" => x.n <= Len(r)
    BY <1>20, <1>21, ItemIs DEF ItemOK
  <2>3. QED BY <1>2, <1>4, <1>17, <1>18, <1>19, <1>21, <2>1, <2>2 DEF ItemOK
<1>22. \A x, y : ItemPair(c, n, x, y) => ItemPair(d, n, x, y)
  BY <1>2, <1>17 DEF ItemPair
<1>23. ItemsOK(d, s, n, p)
  BY <1>1, <1>21, <1>22 DEF Good, ItemsOK, First
<1>24. ASSUME NEW y \in Command, CommandOK(c, y),
              y.cmd = "soundlist" => y.level # L
       PROVE  CommandOK(d, y)
  <2>1. y.cmd = "modellist" /\ y.level = L => y.n <= Len(r)
    BY <1>2, <1>20, <1>24, CommandIs DEF CommandOK, Leveled
  <2>2. QED BY <1>2, <1>4, <1>17, <1>18, <1>24, <2>1 DEF CommandOK
<1>25. CommandsOK(d, n)
  <2>1. \A i \in DOMAIN c.message :
           /\ c.message[i] \in Command /\ CommandOK(c, c.message[i])
           /\ c.message[i].cmd = "soundlist" => c.message[i].level # L
    BY <1>1, <1>2, <1>4 DEF Good, CommandsOK, NoSound, ClientRecord
  <2>2. \A x, y : CommandPair(c, n, x, y) => CommandPair(d, n, x, y)
    BY <1>2, <1>17 DEF CommandPair
  <2>3. QED BY <1>17, <1>24, <2>1, <2>2 DEF Good, CommandsOK
<1>26. TextOK(d, n)
  BY <1>2, <1>17, <1>18 DEF Good, TextOK
<1>27. ListsOK(d, n)
  <2>1. \A i \in DOMAIN r : r[i] = list[i]
    BY <1>13, <1>14
  <2>2. Loaded(c) => c.precache = r[1] /\ c.disk[c.precache] = Whole(c.precache)
    <3>1. Loaded(c) => c.precache = c.models[1] /\ c.disk[c.precache] = Whole(c.precache)
      BY DEF Good, ListsOK
    <3>2. Loaded(c) => c.models # <<>>
      BY LoadedIs
    <3>3. c.models # <<>> => 1 \in DOMAIN c.models
      BY <1>1, TailIs
    <3>4. 1 \in 1..size
      BY <1>7, <1>12
    <3>5. QED BY <1>11, <1>13, <3>1, <3>2, <3>3, <3>4
  <2>3. L = n => AllFine(d, n)
    BY <1>2, <1>4, <1>5, <1>19 DEF Good, ListsOK
  <2>4. Len(r) <= Len(Models[L]) /\ \A i \in DOMAIN r : r[i] = Models[L][i]
    BY <1>3, <1>12, <1>14, <2>1
  <2>5. QED
    BY <1>4, <1>5, <1>14, <1>17, <1>18, <1>19, <2>2, <2>3, <2>4 DEF ListsOK
<1>28. FilesOK(d)
  BY <1>17 DEF Good, FilesOK
<1>29. SlotOK(d, s, n)
  BY <1>2, <1>17, <1>18 DEF Good, SlotOK
<1>30. Good(d, s, n, p)
  <2>1. StateOK(d, n)
    BY <1>2, <1>17 DEF Good, StateOK
  <2>2. QED BY <1>16, <1>23, <1>25, <1>26, <1>27, <1>28, <1>29, <2>1 DEF Good
<1>31. CASE m.next # 0
  <2>1. PICK y : y = [cmd |-> "modellist", level |-> L, n |-> m.next]
    OBVIOUS
  <2>2. /\ m.next \in Nat /\ m.next = k + 1 /\ k + 1 < Len(list)
        /\ k + 1 <= Len(r)
    BY <1>7, <1>8, <1>12, <1>14, <1>31
  <2>3. y \in Command /\ y.cmd = "modellist" /\ y.level = L /\ y.n = k + 1
    BY <1>5, <2>1, <2>2 DEF Command
  <2>4. CommandOK(d, y)
    BY <1>3, <1>5, <1>17, <2>2, <2>3 DEF CommandOK
  <2>5. Sendable(d, n, p, y)
    BY <1>17, <2>3, <2>4 DEF Sendable, Fine
  <2>6. ParseModellist(c, m) = Send(d, y)
    BY <1>1, <1>2, <1>6, <1>9, <1>10, <1>15, <1>17, <1>31, <2>1 DEF ParseModellist
  <2>7. Kept(c, Send(d, y))
    BY <1>16, <1>17, SameDisk DEF Kept
  <2>8. QED BY <1>30, <2>5, <2>6, <2>7, SendGood
<1>32. CASE m.next = 0
  <2>1. PICK e : e = [d EXCEPT !.number = 1]
    OBVIOUS
  <2>2. e \in ClientRecord
    BY <1>16, <2>1 DEF ClientRecord
  <2>3. /\ e.servercount = d.servercount /\ e.sounds = d.sounds
        /\ e.models = d.models /\ e.precache = d.precache /\ e.disk = d.disk
        /\ e.message = d.message /\ e.cbuf = d.cbuf
        /\ e.state = d.state /\ e.sent = d.sent
        /\ e.method = d.method /\ e.name = d.name /\ e.download = d.download
    BY <1>16, <2>1 DEF ClientRecord
  <2>4. FilesOK(e)
    BY <1>28, <2>3 DEF FilesOK
  <2>5. Good(e, s, n, p)
    BY <1>30, <2>2, <2>3, <2>4, SameGood
  <2>6. ParseModellist(c, m) = ModelNextDownload(e)
    BY <1>1, <1>6, <1>9, <1>10, <1>15, <1>32, <2>1 DEF ParseModellist
  <2>7. ModelNextDownload(e).disk = e.disk
    BY <2>2, ModelsKept
  <2>8. Kept(c, ModelNextDownload(e))
    BY <1>17, <2>3, <2>7 DEF Kept
  <2>9. QED BY <2>5, <2>6, <2>8, ModelNextDownloadGood
<1>33. QED BY <1>31, <1>32

\* Text is added to what is stuffed, or executed.
LEMMA TextGood ==
    ASSUME NEW c, NEW s, NEW n, NEW q, Good(c, s, n, q),
           NEW b \in Seq(Item), NEW d, d = [c EXCEPT !.cbuf = b], TextOK(d, n)
    PROVE  Good(d, s, n, q)
<1>1. c \in ClientRecord
  BY DEF Good
<1>2. d \in ClientRecord
  BY <1>1 DEF ClientRecord
<1>3. /\ d.servercount = c.servercount /\ d.sounds = c.sounds
      /\ d.models = c.models /\ d.precache = c.precache /\ d.disk = c.disk
      /\ d.message = c.message
      /\ d.state = c.state /\ d.sent = c.sent
      /\ d.method = c.method /\ d.name = c.name /\ d.download = c.download
  BY <1>1 DEF ClientRecord
<1>4. Loaded(c) <=> Loaded(d)
  BY <1>3 DEF Loaded
<1>5. FilesOK(d)
  BY <1>3 DEF Good, FilesOK
<1>6. /\ d.precache # None => d.models # <<>>
      /\ Loaded(d) => /\ d.precache = d.models[1]
                      /\ d.disk[d.precache] = Whole(d.precache)
  BY <1>3, <1>4 DEF Good, ListsOK
<1>7. QED BY <1>2, <1>3, <1>4, <1>5, <1>6, LoadGood

\* A client that asks for a level is on another one.
LEMMA ChangeGood ==
    ASSUME NEW c, NEW s, NEW n, NEW q, Good(c, s, n, q), c.servercount # n
    PROVE  Good(Change(c), s, n, q)
<1>1. CASE ~Linked(c)
  BY <1>1, HaltedGood DEF Change
<1>2. CASE Linked(c)
  <2>1. c \in ClientRecord
    BY DEF Good
  <2>2. PICK crossed : crossed = (c.crossed \/ Awaits(c))
    OBVIOUS
  <2>3. PICK d : d = [c EXCEPT !.state = "connected", !.crossed = crossed]
    OBVIOUS
  <2>4. d \in ClientRecord
    <3>1. crossed \in BOOLEAN
      BY <2>2
    <3>2. QED BY <2>1, <2>3, <3>1 DEF ClientRecord
  <2>5. /\ d.servercount = c.servercount /\ d.sounds = c.sounds
        /\ d.models = c.models /\ d.precache = c.precache /\ d.disk = c.disk
        /\ d.message = c.message /\ d.cbuf = c.cbuf /\ d.sent = c.sent
        /\ d.method = c.method /\ d.name = c.name /\ d.download = c.download
    BY <2>1, <2>3 DEF ClientRecord
  <2>6. FilesOK(d)
    BY <2>5 DEF Good, FilesOK
  <2>7. Good(d, s, n, q)
    BY <2>4, <2>5, <2>6, SameGood
  <2>8. PICK y : y = [cmd |-> "new"]
    OBVIOUS
  <2>9. y \in Command /\ y.cmd = "new"
    BY <2>8 DEF Command
  <2>10. Sendable(d, n, q, y)
    BY <2>5, <2>9, PlainSendable DEF Leveled
  <2>11. Change(c) = Send(d, y)
    BY <1>2, <2>2, <2>3, <2>8 DEF Change
  <2>12. QED BY <2>7, <2>10, <2>11, SendGood
<1>3. QED BY <1>1, <1>2

LEMMA ChangingGood ==
    ASSUME NEW c, NEW s, NEW n, NEW q, Good(c, s, n, q), c.servercount # n
    PROVE  Good(Changing(c), s, n, q)
<1>1. CASE c.download # None
  <2>1. c \in ClientRecord
    BY DEF Good
  <2>2. PICK state : state = IF c.state = "active" THEN "connected" ELSE c.state
    OBVIOUS
  <2>3. PICK d : d = [c EXCEPT !.state = state]
    OBVIOUS
  <2>4. d \in ClientRecord
    <3>1. state \in {"disconnected", "connected", "onserver", "active", "halted"}
      BY <2>1, <2>2 DEF ClientRecord
    <3>2. QED BY <2>1, <2>3, <3>1 DEF ClientRecord
  <2>5. /\ d.servercount = c.servercount /\ d.sounds = c.sounds
        /\ d.models = c.models /\ d.precache = c.precache /\ d.disk = c.disk
        /\ d.message = c.message /\ d.cbuf = c.cbuf /\ d.sent = c.sent
        /\ d.method = c.method /\ d.name = c.name /\ d.download = c.download
    BY <2>1, <2>3 DEF ClientRecord
  <2>6. FilesOK(d)
    BY <2>5 DEF Good, FilesOK
  <2>7. Changing(c) = d
    BY <1>1, <2>1, <2>2, <2>3 DEF Changing, ClientRecord
  <2>8. QED BY <2>4, <2>5, <2>6, <2>7, SameGood
<1>2. CASE c.download = None
  BY <1>2, ChangeGood DEF Changing
<1>3. QED BY <1>1, <1>2

\* One that knows the level changes is (StateOK); another leaves its connection.
LEMMA ReconnectGood ==
    ASSUME NEW c, NEW s, NEW n, NEW q, Good(c, s, n, q)
    PROVE  Good(Reconnect(c), s, n, q)
<1>1. CASE c.download # None
  BY <1>1 DEF Reconnect
<1>2. CASE c.download = None /\ c.state = "connected"
  <2>1. c.servercount # n
    BY <1>2 DEF Good, StateOK
  <2>2. QED BY <1>2, <2>1, ChangeGood DEF Reconnect
<1>3. CASE c.download = None /\ c.state # "connected"
  <2>1. PICK e : e = Disconnect(c)
    OBVIOUS
  <2>2. PICK d : d = [e EXCEPT !.connecting = TRUE]
    OBVIOUS
  <2>3. Good(e, s, n, q) /\ e \in ClientRecord
    BY <2>1, DisconnectGood DEF Good
  <2>4. d \in ClientRecord
    BY <2>2, <2>3 DEF ClientRecord
  <2>5. /\ d.servercount = e.servercount /\ d.sounds = e.sounds
        /\ d.models = e.models /\ d.precache = e.precache /\ d.disk = e.disk
        /\ d.message = e.message /\ d.cbuf = e.cbuf
        /\ d.state = e.state /\ d.sent = e.sent
        /\ d.method = e.method /\ d.name = e.name /\ d.download = e.download
    BY <2>2, <2>3 DEF ClientRecord
  <2>6. FilesOK(d)
    BY <2>3, <2>5 DEF Good, FilesOK
  <2>7. Reconnect(c) = d
    BY <1>3, <2>1, <2>2 DEF Reconnect
  <2>8. QED BY <2>3, <2>4, <2>5, <2>6, <2>7, SameGood
<1>4. QED BY <1>1, <1>2, <1>3

LEMMA ParsedGood ==
    ASSUME NEW c, NEW s, NEW n, NEW p, Good(c, s, n, p),
           NEW m, First(c, s, n, m, p),
           m.svc = "serverdata" => c.cbuf = <<>>
    PROVE  Good(Parsed(c, m), s, n, p) /\ Kept(c, Parsed(c, m))
<1>1. m \in Item /\ c \in ClientRecord /\ c.cbuf \in Seq(Item)
  BY DEF First, Good, ClientRecord
<1>2. CASE m.svc \in Text
  <2>1. PICK b : b = Append(c.cbuf, m)
    OBVIOUS
  <2>2. /\ b \in Seq(Item)
        /\ \E k \in DOMAIN b :
              /\ b[k] = m
              /\ \A i \in DOMAIN b :
                    (i \in DOMAIN c.cbuf /\ i < k /\ b[i] = c.cbuf[i]) \/ i = k
    BY <1>1, <2>1, AppendIs
  <2>3. PICK d : d = [c EXCEPT !.cbuf = b]
    OBVIOUS
  <2>4. /\ d.cbuf = b /\ d.servercount = c.servercount
        /\ d.precache = c.precache
    BY <1>1, <2>3 DEF ClientRecord
  <2>5. /\ m.svc = "changing" => c.servercount # n
        /\ m.svc = "spawn" => m.level = c.servercount
        /\ m.svc \in {"spawn", "skins"} => Loaded(c)
    BY DEF First, ItemOK, Reply
  <2>6. \A i \in DOMAIN b : b[i] = m \/ (i \in DOMAIN c.cbuf /\ b[i] = c.cbuf[i])
    BY <2>2
  <2>7. Loaded(c) <=> Loaded(d)
    BY <2>4 DEF Loaded
  <2>8. TextOK(d, n)
    BY <1>2, <2>4, <2>5, <2>6, <2>7 DEF Good, TextOK
  <2>9. Parsed(c, m) = d
    BY <1>2, <2>1, <2>3 DEF Parsed, Text
  <2>10. Kept(c, d)
    BY <1>1, <2>3 DEF Kept, ClientRecord
  <2>11. QED BY <2>2, <2>3, <2>8, <2>9, <2>10, TextGood
<1>3. CASE m.svc = "serverdata"
  BY <1>3, ParseServerDataGood DEF Parsed, Text
<1>4. CASE m.svc = "soundlist"
  BY <1>4, ParseSoundlistGood DEF Parsed, Text
<1>5. CASE m.svc = "modellist"
  BY <1>5, ParseModellistGood DEF Parsed, Text
<1>6. CASE m.svc = "download"
  BY <1>1, <1>6, ParseDownloadGood DEF Parsed, Text
<1>7. CASE m.svc = "disconnect"
  <2>1. Parsed(c, m) = Disconnect(c)
    BY <1>7 DEF Parsed, Text
  <2>2. QED BY <1>1, <2>1, DisconnectGood, SameDisk DEF Kept
<1>8. QED BY <1>1, <1>2, <1>3, <1>4, <1>5, <1>6, <1>7, ItemIs

\* The text at the head of what is stuffed.
LEMMA StuffedGood ==
    ASSUME NEW c, NEW s, NEW n, NEW q, Good(c, s, n, q), c.cbuf # <<>>
    PROVE  /\ Good(Stuffed([c EXCEPT !.cbuf = Tail(@)], Head(c.cbuf)), s, n, q)
           /\ Kept(c, Stuffed([c EXCEPT !.cbuf = Tail(@)], Head(c.cbuf)))
<1>1. c \in ClientRecord /\ c.cbuf \in Seq(Item)
  BY DEF Good, ClientRecord
<1>2. PICK b : b = Tail(c.cbuf)
  OBVIOUS
<1>3. PICK m : m = Head(c.cbuf)
  OBVIOUS
<1>4. PICK d : d = [c EXCEPT !.cbuf = b]
  OBVIOUS
<1>5. /\ b \in Seq(Item) /\ m \in Item /\ 1 \in DOMAIN c.cbuf /\ m = c.cbuf[1]
      /\ \A i \in DOMAIN b : i + 1 \in DOMAIN c.cbuf /\ b[i] = c.cbuf[i + 1]
  BY <1>1, <1>2, <1>3, TailIs
<1>6. /\ d.cbuf = b /\ d.servercount = c.servercount /\ d.precache = c.precache
      /\ d.disk = c.disk /\ d \in ClientRecord
  BY <1>1, <1>4, <1>5 DEF ClientRecord
<1>7. Loaded(c) <=> Loaded(d)
  BY <1>6 DEF Loaded
<1>8. TextOK(d, n)
  BY <1>5, <1>6, <1>7 DEF Good, TextOK
<1>9. Good(d, s, n, q)
  BY <1>4, <1>5, <1>8, TextGood
<1>10. /\ m.svc \in Text
       /\ m.svc = "changing" => d.servercount # n
       /\ m.svc = "spawn" => m.level = d.servercount
       /\ m.svc \in {"spawn", "skins"} => Loaded(d)
  BY <1>5, <1>6, <1>7 DEF Good, TextOK
<1>11. Good(Stuffed(d, m), s, n, q) /\ Stuffed(d, m).disk = d.disk
  <2>1. CASE m.svc = "changing"
    BY <1>6, <1>9, <1>10, <2>1, ChangingGood, SameDisk DEF Stuffed
  <2>2. CASE m.svc = "spawn"
    <3>1. PICK y : y = [cmd |-> "spawn", level |-> m.level]
      OBVIOUS
    <3>2. m.level \in Level /\ m.level \in Nat
      BY <1>5, <2>2, ItemIs, LevelIs DEF Tells, Reply
    <3>3. y \in Command /\ y.cmd = "spawn" /\ y.level = m.level
      BY <3>1, <3>2 DEF Command
    <3>4. CommandOK(d, y)
      BY <1>10, <2>2, <3>2, <3>3 DEF CommandOK
    <3>5. Sendable(d, n, q, y)
      BY <1>10, <2>2, <3>3, <3>4 DEF Sendable, Fine
    <3>6. Stuffed(d, m) \in {Send(d, y), d}
      BY <2>2, <3>1 DEF Stuffed
    <3>7. QED BY <1>6, <1>9, <3>5, <3>6, SendGood, SameDisk
  <2>3. CASE m.svc = "skins"
    <3>1. PICK e : e = [d EXCEPT !.number = 1]
      OBVIOUS
    <3>2. e \in ClientRecord
      BY <1>6, <3>1 DEF ClientRecord
    <3>3. /\ e.servercount = d.servercount /\ e.sounds = d.sounds
          /\ e.models = d.models /\ e.precache = d.precache /\ e.disk = d.disk
          /\ e.message = d.message /\ e.cbuf = d.cbuf
          /\ e.state = d.state /\ e.sent = d.sent
          /\ e.method = d.method /\ e.name = d.name /\ e.download = d.download
      BY <1>6, <3>1 DEF ClientRecord
    <3>4. FilesOK(e)
      BY <1>9, <3>3 DEF Good, FilesOK
    <3>5. Good(e, s, n, q) /\ Loaded(e)
      BY <1>9, <1>10, <2>3, <3>2, <3>3, <3>4, SameGood DEF Loaded
    <3>6. Stuffed(d, m) = SkinNextDownload(e)
      BY <2>3, <3>1 DEF Stuffed
    <3>7. QED BY <3>2, <3>3, <3>5, <3>6, SkinNextDownloadGood, SameDisk
  <2>4. CASE m.svc = "reconnect"
    BY <1>6, <1>9, <2>4, ReconnectGood, SameDisk DEF Stuffed
  <2>5. QED BY <1>10, <2>1, <2>2, <2>3, <2>4 DEF Text
<1>12. [c EXCEPT !.cbuf = Tail(@)] = d
  BY <1>1, <1>2, <1>4 DEF ClientRecord
<1>13. Kept(c, Stuffed(d, m))
  BY <1>6, <1>11 DEF Kept
<1>14. QED BY <1>3, <1>11, <1>12, <1>13

-----------------------------------------------------------------------------
(* The server, on level spawncount.  p is what is in flight. *)

Serves(c, s, p) == p \in Seq(Item) /\ Good(c, s, spawncount, p \o s.message)

\* The slot changes in what is not written to the client.
LEMMA SlotGood ==
    ASSUME NEW c, NEW s, NEW n, NEW q, Good(c, s, n, q), NEW r, SlotOK(c, r, n),
           s.spawncount = n => r.spawncount = n
    PROVE  Good(c, r, n, q)
<1>1. \A x : ItemOK(c, s, n, x) => ItemOK(c, r, n, x)
  BY DEF ItemOK
<1>2. ItemsOK(c, r, n, q)
  BY <1>1 DEF Good, ItemsOK
<1>3. QED BY <1>2 DEF Good

\* An item that may be written.
Writable(c, s, p, x) ==
    /\ x \in Item /\ ItemOK(c, s, spawncount, x)
    /\ \A i \in DOMAIN (p \o s.message) :
          ItemPair(c, spawncount, (p \o s.message)[i], x)

LEMMA WriteServes ==
    ASSUME NEW c, NEW s, NEW p, Serves(c, s, p), NEW x, Writable(c, s, p, x)
    PROVE  /\ Serves(c, Write(s, x), p)
           /\ Write(s, x).state = s.state /\ Write(s, x).download = s.download
           /\ Write(s, x).spawncount = s.spawncount
           /\ Write(s, x).count = s.count
<1>1. /\ s \in ServerRecord /\ p \in Seq(Item) /\ s.message \in Seq(Item)
      /\ x \in Item
  BY DEF Serves, Good, SlotOK, ServerRecord, Writable
<1>2. PICK m : m = Append(s.message, x)
  OBVIOUS
<1>3. PICK q : q = p \o s.message
  OBVIOUS
<1>4. m \in Seq(Item) /\ p \o m = Append(q, x)
  <2>1. m \in Seq(Item)
    BY <1>1, <1>2, AppendIs
  <2>2. p \o Append(s.message, x) = Append(p \o s.message, x)
    BY <1>1, QueueIs
  <2>3. QED BY <1>2, <1>3, <2>1, <2>2
<1>5. PICK r : r = Write(s, x)
  OBVIOUS
<1>6. r = [s EXCEPT !.message = m]
  BY <1>2, <1>5 DEF Write
<1>7. /\ r \in ServerRecord /\ r.message = m /\ r.state = s.state
      /\ r.download = s.download /\ r.spawncount = s.spawncount
      /\ r.count = s.count
  BY <1>1, <1>4, <1>6 DEF ServerRecord
<1>8. ItemsOK(c, s, spawncount, Append(q, x))
  BY <1>1, <1>3, AppendItems DEF Serves, Good, Writable
<1>9. Good(c, s, spawncount, Append(q, x))
  BY <1>8 DEF Serves, Good
<1>10. SlotOK(c, r, spawncount)
  BY <1>7, <1>9 DEF Good, SlotOK
<1>11. Good(c, r, spawncount, Append(q, x))
  BY <1>7, <1>9, <1>10, SlotGood
<1>12. Serves(c, r, p)
  BY <1>1, <1>4, <1>7, <1>11 DEF Serves
<1>13. QED BY <1>5, <1>7, <1>12

LEMMA ClearServes ==
    ASSUME NEW c, NEW s, NEW p, Serves(c, s, p)
    PROVE  /\ Serves(c, ClearReliable(s), p)
           /\ ClearReliable(s).state = s.state
           /\ ClearReliable(s).message = <<>>
<1>1. s \in ServerRecord /\ p \in Seq(Item) /\ s.message \in Seq(Item)
  BY DEF Serves, Good, SlotOK, ServerRecord
<1>2. PICK m : m = <<>>
  OBVIOUS
<1>3. m \in Seq(Item) /\ p \o m = p
  BY <1>1, <1>2, EmptyIs, ConcatEmptySeq
<1>4. PICK r : r = ClearReliable(s)
  OBVIOUS
<1>5. r = [s EXCEPT !.message = m]
  BY <1>2, <1>4 DEF ClearReliable
<1>6. /\ r \in ServerRecord /\ r.message = m /\ r.state = s.state
      /\ r.download = s.download /\ r.spawncount = s.spawncount
      /\ r.count = s.count
  BY <1>1, <1>3, <1>5 DEF ServerRecord
<1>7. PICK q : q = p \o s.message
  OBVIOUS
<1>8. Sub(p, q)
  BY <1>1, <1>7, QueueIs
<1>9. Good(c, s, spawncount, p)
  BY <1>1, <1>7, <1>8, SubGood DEF Serves
<1>10. SlotOK(c, r, spawncount)
  BY <1>6, <1>9 DEF Good, SlotOK
<1>11. Good(c, r, spawncount, p)
  BY <1>6, <1>9, <1>10, SlotGood
<1>12. QED BY <1>1, <1>2, <1>3, <1>4, <1>6, <1>11 DEF Serves

\* The slot without its message.
LEMMA FieldsServe ==
    ASSUME NEW c, NEW s, NEW p, Serves(c, s, p), NEW r \in ServerRecord,
           r.message = s.message, SlotOK(c, r, spawncount),
           s.spawncount = spawncount => r.spawncount = spawncount
    PROVE  Serves(c, r, p)
BY SlotGood DEF Serves

\* An item that tells nothing of a level may be written at any time.
LEMMA PlainWritable ==
    ASSUME NEW c, NEW s, NEW p, NEW x \in Item,
           x.svc \in {"download", "disconnect", "reconnect"}
    PROVE  Writable(c, s, p, x)
BY DEF Writable, ItemOK, ItemPair, Tells, Answer, Reply

LEMMA DropServes ==
    ASSUME NEW c, NEW s, NEW p, Serves(c, s, p)
    PROVE  Serves(c, DropClient(s), p)
<1>1. PICK x : x = [svc |-> "disconnect"]
  OBVIOUS
<1>2. x \in Item /\ x.svc = "disconnect"
  BY <1>1 DEF Item
<1>3. PICK w : w = Write(s, x)
  OBVIOUS
<1>4. Serves(c, w, p)
  BY <1>2, <1>3, PlainWritable, WriteServes
<1>5. w \in ServerRecord
  BY <1>4 DEF Serves, Good, SlotOK
<1>6. PICK r : r = DropClient(s)
  OBVIOUS
<1>7. r = [w EXCEPT !.state = "zombie", !.download = None]
  BY <1>1, <1>3, <1>6 DEF DropClient
<1>8. /\ r \in ServerRecord /\ r.message = w.message /\ r.state = "zombie"
      /\ r.download = None /\ r.spawncount = w.spawncount
  BY <1>5, <1>7 DEF ServerRecord
<1>9. SlotOK(c, r, spawncount)
  BY <1>4, <1>8 DEF Serves, Good, SlotOK
<1>10. QED BY <1>4, <1>6, <1>8, <1>9, FieldsServe

\* No item tells a level above the server's.
LEMMA TellsIs ==
    ASSUME NEW c, NEW s, NEW p, Serves(c, s, p)
    PROVE  \A i \in DOMAIN (p \o s.message) :
              LET x == (p \o s.message)[i] IN
              /\ x \in Item /\ ItemOK(c, s, spawncount, x)
              /\ Tells(x) => x.level <= spawncount
<1>1. PICK q : q = p \o s.message
  OBVIOUS
<1>2. q \in Seq(Item) /\ \A i \in DOMAIN q : ItemOK(c, s, spawncount, q[i])
  BY <1>1 DEF Serves, Good, ItemsOK
<1>3. c.servercount <= spawncount
  BY DEF Serves, Good, ListsOK
<1>4. ASSUME NEW x, ItemOK(c, s, spawncount, x), Tells(x)
      PROVE  x.level <= spawncount
  <2>1. CASE x.svc = "serverdata"
    BY <1>4, <2>1 DEF ItemOK
  <2>2. CASE x.svc \in Reply
    BY <1>3, <1>4, <2>2 DEF ItemOK
  <2>3. QED BY <1>4, <2>1, <2>2 DEF Tells
<1>5. \A i \in DOMAIN q : /\ q[i] \in Item /\ ItemOK(c, s, spawncount, q[i])
                          /\ Tells(q[i]) => q[i].level <= spawncount
  BY <1>2, <1>4
<1>6. QED BY <1>1, <1>5

\* A client that asks anew has not begun on the lists of the server's level.
LEMMA NewServes ==
    ASSUME NEW c, NEW s, NEW p, Serves(c, s, p), ~AllFine(c, spawncount)
    PROVE  Serves(c, New(s), p)
<1>1. CASE s.state = "spawned"
  BY <1>1 DEF New
<1>2. CASE s.state # "spawned"
  <2>1. s \in ServerRecord /\ Good(c, s, spawncount, p \o s.message)
    BY DEF Serves, Good, SlotOK
  <2>2. spawncount \in Level /\ spawncount \in Nat /\ c.servercount <= spawncount
        /\ c.servercount \in Nat
    BY <2>1, LoadedIs
  <2>3. PICK r : r = [s EXCEPT !.spawncount = spawncount]
    OBVIOUS
  <2>4. /\ r \in ServerRecord /\ r.message = s.message /\ r.state = s.state
        /\ r.download = s.download /\ r.count = s.count
        /\ r.spawncount = spawncount
    BY <2>1, <2>2, <2>3 DEF ServerRecord
  <2>5. SlotOK(c, r, spawncount)
    BY <1>2, <2>1, <2>4 DEF Good, SlotOK
  <2>6. Serves(c, r, p)
    BY <2>4, <2>5, FieldsServe
  <2>7. PICK x : x = [svc |-> "serverdata", level |-> spawncount]
    OBVIOUS
  <2>8. x \in Item /\ x.svc = "serverdata" /\ x.level = spawncount
    BY <2>2, <2>7 DEF Item
  <2>9. c.sounds # 0 => c.servercount # spawncount
    BY <2>1 DEF Good, ListsOK
  <2>10. ItemOK(c, r, spawncount, x)
    BY <2>2, <2>4, <2>8, <2>9 DEF ItemOK, Reply, Answer
  <2>11. ASSUME NEW z \in Item, ItemOK(c, r, spawncount, z),
                Tells(z) => z.level <= spawncount
         PROVE  ItemPair(c, spawncount, z, x)
    <3>1. z.svc \in Answer => c.servercount < spawncount
      <4>1. z.svc \in Answer => c.servercount # spawncount
        BY <2>11 DEF ItemOK
      <4>2. QED BY <2>2, <4>1
    <3>2. QED BY <2>8, <2>11, <3>1 DEF ItemPair, Answer, Reply
  <2>12. Writable(c, r, p, x)
    BY <2>6, <2>8, <2>10, <2>11, TellsIs DEF Writable
  <2>13. New(s) = Write(r, x)
    BY <1>2, <2>3, <2>7 DEF New
  <2>14. QED BY <2>6, <2>12, <2>13, WriteServes
<1>3. QED BY <1>1, <1>2

LEMMA CheckedServes ==
    ASSUME NEW c, NEW s, NEW p, Serves(c, s, p), NEW level, NEW next,
           level # spawncount => ~AllFine(c, spawncount),
           level = spawncount => Serves(c, next, p)
    PROVE  Serves(c, Checked(s, level, next), p)
<1>1. CASE level = spawncount
  BY <1>1 DEF Checked
<1>2. CASE level # spawncount
  BY <1>2, ClearServes, NewServes DEF Checked
<1>3. QED BY <1>1, <1>2

\* What a command of the signon says when it is executed.
LEMMA AskedIs ==
    ASSUME NEW c, NEW s, NEW n, NEW q, Good(c, s, n, q),
           c.message # <<>>, NEW y, y = Head(c.message)
    PROVE  /\ y \in Command /\ CommandOK(c, y)
           /\ y.cmd = "new" => ~AllFine(c, n)
           /\ y.cmd \in Leveled =>
                 /\ y.level # n => ~AllFine(c, n)
                 /\ y.level = n => c.servercount = n /\ AllFine(c, n)
                 /\ y.level = n /\ y.cmd = "modellist" => NoSound(c)
                 /\ y.level = n /\ y.cmd = "soundlist" => ~NoSound(c)
<1>1. c.message \in Seq(Command) /\ n \in Nat /\ c.servercount \in Nat
      /\ c.servercount <= n
  BY LoadedIs DEF Good, ClientRecord
<1>2. y \in Command /\ 1 \in DOMAIN c.message /\ y = c.message[1]
  BY <1>1, TailIs
<1>3. CommandOK(c, y)
  BY <1>2 DEF Good, CommandsOK
<1>4. \A i \in DOMAIN c.message : i = 1 \/ CommandPair(c, n, y, c.message[i])
  <2>1. \A i \in DOMAIN c.message : i = 1 \/ 1 < i
    BY <1>1
  <2>2. QED BY <1>2, <2>1 DEF Good, CommandsOK
<1>5. y.cmd = "new" => ~AllFine(c, n)
  BY <1>2 DEF AllFine, Fine
<1>6. y.cmd \in Leveled /\ y.level # n => ~AllFine(c, n)
  BY <1>2 DEF AllFine, Fine
<1>7. ASSUME y.cmd \in Leveled, y.level = n
      PROVE  /\ c.servercount = n /\ AllFine(c, n)
             /\ y.cmd = "modellist" => NoSound(c)
             /\ y.cmd = "soundlist" => ~NoSound(c)
  <2>1. c.servercount = n
    <3>1. y.level <= c.servercount
      BY <1>3, <1>7 DEF CommandOK
    <3>2. QED BY <1>1, <1>7, <3>1
  <2>2. Fine(y, n)
    BY <1>7 DEF Fine, Leveled
  <2>3. AllFine(c, n)
    BY <1>2, <1>4, <1>7, <2>2 DEF AllFine, CommandPair
  <2>4. y.cmd = "modellist" => NoSound(c)
    BY <1>2, <1>4, <1>7, <2>1 DEF NoSound, CommandPair
  <2>5. y.cmd = "soundlist" => ~NoSound(c)
    BY <1>2, <1>7, <2>1 DEF NoSound
  <2>6. QED BY <2>1, <2>3, <2>4, <2>5
<1>8. QED BY <1>2, <1>3, <1>5, <1>6, <1>7

\* An answer to such a command.
LEMMA AnswerWritable ==
    ASSUME NEW c, NEW s, NEW p, Serves(c, s, p),
           c.servercount = spawncount, AllFine(c, spawncount),
           NEW x \in Item, x.svc \in Answer,
           x.svc \in Reply => x.level = spawncount,
           x.svc = "soundlist" => c.models = <<>> /\ ~NoSound(c),
           x.svc = "modellist" =>
              /\ c.sounds = c.servercount /\ NoSound(c)
              /\ x.n <= Len(c.models) /\ x.n < Len(Models[x.level])
              /\ x.model = Models[x.level][x.n + 1]
              /\ x.next = IF x.n + 1 = Len(Models[x.level]) THEN 0 ELSE x.n + 1,
           x.svc \in {"spawn", "skins"} => Loaded(c)
    PROVE  Writable(c, s, p, x)
<1>1. ItemOK(c, s, spawncount, x)
  BY DEF ItemOK, Answer, Reply
<1>2. ASSUME NEW z, ItemOK(c, s, spawncount, z), Tells(z) => z.level <= spawncount
      PROVE  ItemPair(c, spawncount, z, x)
  <2>1. Tells(x) => x.level = spawncount
    BY DEF Tells, Answer, Reply
  <2>2. x.svc # "serverdata" /\ x.svc # "changing"
    BY DEF Answer, Reply
  <2>3. z.svc = "modellist" => x.svc # "soundlist"
    BY <1>2 DEF ItemOK
  <2>4. z.svc = "serverdata" => z.level <= spawncount
    BY <1>2 DEF Tells
  <2>5. QED BY <1>2, <2>1, <2>2, <2>3, <2>4 DEF ItemPair
<1>3. QED BY <1>1, <1>2, TellsIs DEF Writable

LEMMA SignonServes ==
    ASSUME NEW c, NEW s, NEW p, Serves(c, s, p), c.message # <<>>,
           NEW y, y = Head(c.message)
    PROVE  /\ y.cmd = "soundlist" => Serves(c, Soundlist(s, y), p)
           /\ y.cmd = "modellist" => Serves(c, Modellist(s, y), p)
           /\ y.cmd = "prespawn" => Serves(c, PreSpawn(s, y), p)
           /\ y.cmd = "spawn" => Serves(c, Spawn(s, y), p)
           /\ y.cmd = "begin" => Serves(c, Begin(s, y), p)
<1>1. PICK n : n = spawncount
  OBVIOUS
<1>2. Good(c, s, n, p \o s.message)
  BY <1>1 DEF Serves
<1>3. /\ y \in Command /\ CommandOK(c, y)
      /\ y.cmd \in Leveled =>
            /\ y.level # n => ~AllFine(c, n)
            /\ y.level = n => c.servercount = n /\ AllFine(c, n)
            /\ y.level = n /\ y.cmd = "modellist" => NoSound(c)
            /\ y.level = n /\ y.cmd = "soundlist" => ~NoSound(c)
  BY <1>2, AskedIs
<1>4. n \in Level /\ n \in Nat /\ s \in ServerRecord
  BY <1>2, LevelIs DEF Good, SlotOK
<1>5. ASSUME y.cmd \in Leveled, NEW next, y.level = n => Serves(c, next, p)
      PROVE  Serves(c, Checked(s, y.level, next), p)
  <2>1. y.level # spawncount => ~AllFine(c, spawncount)
    BY <1>1, <1>3, <1>5
  <2>2. y.level = spawncount => Serves(c, next, p)
    BY <1>1, <1>5
  <2>3. QED BY <2>1, <2>2, CheckedServes
<1>6. ASSUME y.cmd = "soundlist"
      PROVE  Serves(c, Soundlist(s, y), p)
  <2>1. PICK x : x = [svc |-> "soundlist", level |-> spawncount]
    OBVIOUS
  <2>2. x \in Item /\ x.svc = "soundlist" /\ x.level = n
    BY <1>1, <1>4, <2>1 DEF Item
  <2>3. ASSUME y.level = n PROVE Serves(c, Write(s, x), p)
    <3>1. c.servercount = n /\ AllFine(c, n) /\ ~NoSound(c) /\ c.models = <<>>
      BY <1>3, <1>6, <2>3 DEF CommandOK, Leveled
    <3>2. Writable(c, s, p, x)
      BY <1>1, <2>2, <3>1, AnswerWritable DEF Answer, Reply
    <3>3. QED BY <3>2, WriteServes
  <2>4. Serves(c, Checked(s, y.level, Write(s, x)), p)
    BY <1>5, <1>6, <2>3 DEF Leveled
  <2>5. QED BY <2>1, <2>4 DEF Soundlist
<1>7. ASSUME y.cmd = "modellist"
      PROVE  Serves(c, Modellist(s, y), p)
  <2>1. PICK x : x = [svc |-> "modellist", level |-> spawncount, n |-> y.n,
                      model |-> Models[spawncount][y.n + 1],
                      next |-> IF IsLast(y.n) THEN 0 ELSE y.n + 1]
    OBVIOUS
  <2>2. ASSUME y.level = n PROVE Serves(c, Write(s, x), p)
    <3>1. /\ c.servercount = n /\ AllFine(c, n) /\ NoSound(c)
          /\ y.n < Len(Models[n]) /\ y.n <= Len(c.models)
          /\ c.sounds = c.servercount /\ y.n \in Nat
      BY <1>3, <1>7, <2>2, CommandIs DEF CommandOK, Leveled
    <3>2. Len(Models[n]) \in Nat /\ \A i \in 1..Len(Models[n]) : Models[n][i] \in File
      BY <1>4, LevelIs
    <3>3. PICK f : f = Models[n][y.n + 1]
      OBVIOUS
    <3>4. f \in File
      BY <3>1, <3>2, <3>3
    <3>5. PICK k : k = IF y.n + 1 = Len(Models[n]) THEN 0 ELSE y.n + 1
      OBVIOUS
    <3>6. k \in Nat
      BY <3>1, <3>5
    <3>7. x = [svc |-> "modellist", level |-> n, n |-> y.n, model |-> f, next |-> k]
      BY <1>1, <2>1, <3>3, <3>5 DEF IsLast
    <3>8. /\ x \in Item /\ x.svc = "modellist" /\ x.level = n /\ x.n = y.n
          /\ x.model = f /\ x.next = k
      BY <1>4, <3>1, <3>4, <3>6, <3>7 DEF Item
    <3>9. Writable(c, s, p, x)
      BY <1>1, <3>1, <3>3, <3>5, <3>8, AnswerWritable DEF Answer, Reply
    <3>10. QED BY <3>9, WriteServes
  <2>3. Serves(c, Checked(s, y.level, Write(s, x)), p)
    BY <1>5, <1>7, <2>2 DEF Leveled
  <2>4. QED BY <2>1, <2>3 DEF Modellist
<1>8. ASSUME y.cmd = "prespawn"
      PROVE  Serves(c, PreSpawn(s, y), p)
  <2>1. PICK x : x = [svc |-> "spawn", level |-> spawncount]
    OBVIOUS
  <2>2. x \in Item /\ x.svc = "spawn" /\ x.level = n
    BY <1>1, <1>4, <2>1 DEF Item
  <2>3. PICK next : next = IF MapDiffers(y.check) THEN DropClient(s)
                           ELSE Write(s, x)
    OBVIOUS
  <2>4. ASSUME y.level = n PROVE Serves(c, next, p)
    <3>1. CASE MapDiffers(y.check)
      BY <2>3, <3>1, DropServes
    <3>2. CASE ~MapDiffers(y.check)
      <4>1. y.check \in File /\ y.check # Bad
        <5>1. 1 \in 1..Len(Models[n])
          BY <1>4, LevelIs
        <5>2. y.check = Models[n][1]
          BY <1>1, <3>2 DEF MapDiffers
        <5>3. QED BY <1>4, <5>1, <5>2, LevelIs
      <4>2. c.servercount = n /\ AllFine(c, n) /\ Loaded(c)
        BY <1>3, <1>8, <2>4, <4>1 DEF CommandOK, Leveled
      <4>3. Writable(c, s, p, x)
        BY <1>1, <2>2, <4>2, AnswerWritable DEF Answer, Reply
      <4>4. QED BY <2>3, <3>2, <4>3, WriteServes
    <3>3. QED BY <3>1, <3>2
  <2>5. Serves(c, Checked(s, y.level, next), p)
    BY <1>5, <1>8, <2>4 DEF Leveled
  <2>6. QED BY <2>1, <2>3, <2>5 DEF PreSpawn
<1>9. ASSUME y.cmd = "spawn"
      PROVE  Serves(c, Spawn(s, y), p)
  <2>1. PICK x : x = [svc |-> "skins"]
    OBVIOUS
  <2>2. x \in Item /\ x.svc = "skins"
    BY <2>1 DEF Item
  <2>3. PICK r : r = ClearReliable(s)
    OBVIOUS
  <2>4. Serves(c, r, p)
    BY <2>3, ClearServes
  <2>5. ASSUME y.level = n PROVE Serves(c, Write(r, x), p)
    <3>1. c.servercount = n /\ AllFine(c, n) /\ Loaded(c)
      BY <1>3, <1>9, <2>5 DEF CommandOK, Leveled
    <3>2. Writable(c, r, p, x)
      BY <1>1, <2>2, <2>4, <3>1, AnswerWritable DEF Answer, Reply
    <3>3. QED BY <2>4, <3>2, WriteServes
  <2>6. Serves(c, Checked(s, y.level, Write(r, x)), p)
    BY <1>5, <1>9, <2>5 DEF Leveled
  <2>7. QED BY <2>1, <2>3, <2>6 DEF Spawn
<1>10. ASSUME y.cmd = "begin"
       PROVE  Serves(c, Begin(s, y), p)
  <2>1. PICK r : r = [s EXCEPT !.state = "spawned"]
    OBVIOUS
  <2>2. ASSUME y.level = n PROVE Serves(c, r, p)
    <3>1. c.servercount = n /\ Loaded(c)
      BY <1>3, <1>10, <2>2 DEF CommandOK, Leveled
    <3>2. /\ r \in ServerRecord /\ r.message = s.message /\ r.state = "spawned"
          /\ r.download = s.download /\ r.count = s.count
          /\ r.spawncount = s.spawncount
      BY <1>4, <2>1 DEF ServerRecord
    <3>3. SlotOK(c, r, n)
      BY <1>2, <3>1, <3>2 DEF Good, SlotOK
    <3>4. QED BY <1>1, <3>2, <3>3, FieldsServe
  <2>3. Serves(c, Checked(s, y.level, r), p)
    BY <1>5, <1>10, <2>2 DEF Leveled
  <2>4. QED BY <2>1, <2>3 DEF Begin
<1>11. QED BY <1>6, <1>7, <1>8, <1>9, <1>10

\* A client that missed the change is on another level.
LEMMA CompleteServes ==
    ASSUME NEW c, NEW s, NEW p, Serves(c, s, p)
    PROVE  Serves(c, CompleteDownload(s), p)
<1>1. PICK n : n = spawncount
  OBVIOUS
<1>2. s \in ServerRecord /\ Good(c, s, n, p \o s.message)
  BY <1>1 DEF Serves, Good, SlotOK
<1>3. PICK r : r = [s EXCEPT !.download = None]
  OBVIOUS
<1>4. /\ r \in ServerRecord /\ r.message = s.message /\ r.state = s.state
      /\ r.download = None /\ r.spawncount = s.spawncount
  BY <1>2, <1>3 DEF ServerRecord
<1>5. SlotOK(c, r, n)
  BY <1>2, <1>4 DEF Good, SlotOK
<1>6. Serves(c, r, p)
  BY <1>1, <1>4, <1>5, FieldsServe
<1>7. CASE s.spawncount = spawncount
  BY <1>3, <1>6, <1>7 DEF CompleteDownload
<1>8. CASE s.spawncount # spawncount
  <2>1. PICK x : x = [svc |-> "changing"]
    OBVIOUS
  <2>2. x \in Item /\ x.svc = "changing"
    BY <2>1 DEF Item
  <2>3. c.servercount # n
    BY <1>1, <1>2, <1>8 DEF Good, SlotOK
  <2>4. ItemOK(c, r, n, x)
    BY <2>2, <2>3 DEF ItemOK, Answer, Reply
  <2>5. ASSUME NEW z, ItemOK(c, r, n, z) PROVE ItemPair(c, n, z, x)
    <3>1. z.svc = "serverdata" => z.level # n
      BY <1>1, <1>4, <1>8, <2>5 DEF ItemOK
    <3>2. QED BY <2>2, <3>1 DEF ItemPair, Tells, Answer, Reply
  <2>6. Writable(c, r, p, x)
    BY <1>1, <1>6, <2>2, <2>4, <2>5, TellsIs DEF Writable
  <2>7. CompleteDownload(s) = Write(r, x)
    BY <1>3, <1>8, <2>1 DEF CompleteDownload
  <2>8. QED BY <1>6, <2>6, <2>7, WriteServes
<1>9. QED BY <1>7, <1>8

LEMMA NextDownloadServes ==
    ASSUME NEW c, NEW s, NEW p, Serves(c, s, p)
    PROVE  Serves(c, NextDownload(s), p)
<1>1. CASE s.download = None
  BY <1>1 DEF NextDownload
<1>2. CASE s.download # None
  <2>1. s \in ServerRecord /\ Good(c, s, spawncount, p \o s.message)
    BY DEF Serves, Good, SlotOK
  <2>2. PICK k : k = s.count + 1
    OBVIOUS
  <2>3. s.count \in Nat /\ k \in 1..Blocks /\ k \in 0..Blocks /\ Blocks \in Nat
        /\ s.download \in File /\ s.message \in Seq(Item)
    <3>1. s.count < Blocks /\ s.count \in 0..Blocks /\ s.download \in File \cup {None}
          /\ s.message \in Seq(Item)
      BY <1>2, <2>1 DEF Good, SlotOK, ServerRecord
    <3>2. QED BY <1>2, <2>2, <3>1, LevelIs
  <2>4. PICK x : x = [svc |-> "download", block |-> <<s.download, k>>,
                      done |-> AllSent(k)]
    OBVIOUS
  <2>5. x \in Item /\ x.svc = "download"
    <3>1. <<s.download, k>> \in Block
      BY <2>3 DEF Block
    <3>2. AllSent(k) \in BOOLEAN
      BY DEF AllSent
    <3>3. QED BY <2>4, <3>1, <3>2 DEF Item
  <2>6. PICK w : w = Write(s, x)
    OBVIOUS
  <2>7. /\ Serves(c, w, p) /\ w.state = s.state /\ w.download = s.download
        /\ w.spawncount = s.spawncount /\ w.count = s.count
    BY <2>5, <2>6, PlainWritable, WriteServes
  <2>8. w \in ServerRecord
    BY <2>7 DEF Serves, Good, SlotOK
  <2>9. PICK b : b = [w EXCEPT !.count = k]
    OBVIOUS
  <2>10. /\ b \in ServerRecord /\ b.message = w.message /\ b.state = s.state
         /\ b.download = s.download /\ b.spawncount = s.spawncount
         /\ b.count = k
    BY <2>3, <2>7, <2>8, <2>9 DEF ServerRecord
  <2>11. b = Write([s EXCEPT !.count = @ + 1],
                   [svc |-> "download", block |-> <<s.download, s.count + 1>>,
                    done |-> AllSent(s.count + 1)])
    BY <2>1, <2>2, <2>4, <2>6, <2>9 DEF Write, ServerRecord
  <2>12. NextDownload(s) = IF b.count = Blocks THEN CompleteDownload(b) ELSE b
    BY <1>2, <2>11 DEF NextDownload
  <2>13. CASE k # Blocks
    <3>1. SlotOK(c, b, spawncount)
      BY <2>1, <2>3, <2>10, <2>13 DEF Good, SlotOK
    <3>2. Serves(c, b, p)
      BY <2>7, <2>10, <3>1, FieldsServe
    <3>3. QED BY <2>10, <2>12, <2>13, <3>2
  <2>14. CASE k = Blocks
    \* Without the file: the slot counts no more blocks.
    <3>1. PICK r : r = [b EXCEPT !.download = None]
      OBVIOUS
    <3>2. /\ r \in ServerRecord /\ r.message = w.message /\ r.state = s.state
          /\ r.download = None /\ r.spawncount = s.spawncount
      BY <2>10, <3>1 DEF ServerRecord
    <3>3. SlotOK(c, r, spawncount)
      BY <2>1, <3>2 DEF Good, SlotOK
    <3>4. Serves(c, r, p)
      BY <2>7, <3>2, <3>3, FieldsServe
    <3>5. CompleteDownload(b) = CompleteDownload(r)
      <4>1. [b EXCEPT !.download = None] = [r EXCEPT !.download = None]
        BY <2>10, <3>1 DEF ServerRecord
      <4>2. QED BY <2>10, <3>2, <4>1 DEF CompleteDownload
    <3>6. QED BY <2>10, <2>12, <2>14, <3>4, <3>5, CompleteServes
  <2>15. QED BY <2>13, <2>14
<1>3. QED BY <1>1, <1>2

LEMMA FilesServe ==
    ASSUME NEW c, NEW s, NEW p, Serves(c, s, p)
    PROVE  /\ \A y : y.file \in File => Serves(c, Download(s, y), p)
           /\ Serves(c, StopDownload(s), p)
           /\ Serves(c, [s EXCEPT !.state = "zombie", !.download = None], p)
<1>1. s \in ServerRecord /\ Good(c, s, spawncount, p \o s.message)
  BY DEF Serves, Good, SlotOK
<1>2. ASSUME NEW y, y.file \in File
      PROVE  Serves(c, Download(s, y), p)
  <2>1. PICK r : r = [s EXCEPT !.download = y.file, !.count = 0]
    OBVIOUS
  <2>2. 0 \in 0..Blocks /\ 0 < Blocks
    BY LevelIs
  <2>3. /\ r \in ServerRecord /\ r.message = s.message /\ r.state = s.state
        /\ r.count = 0 /\ r.spawncount = s.spawncount
    BY <1>1, <1>2, <2>1, <2>2 DEF ServerRecord
  <2>4. SlotOK(c, r, spawncount)
    BY <1>1, <2>2, <2>3 DEF Good, SlotOK
  <2>5. Serves(c, r, p)
    BY <2>3, <2>4, FieldsServe
  <2>6. QED BY <2>1, <2>5, NextDownloadServes DEF Download
<1>3. Serves(c, StopDownload(s), p)
  <2>1. CASE s.download = None
    BY <2>1 DEF StopDownload
  <2>2. CASE s.download # None
    <3>1. PICK r : r = [s EXCEPT !.download = None]
      OBVIOUS
    <3>2. /\ r \in ServerRecord /\ r.message = s.message /\ r.state = s.state
          /\ r.download = None /\ r.spawncount = s.spawncount
      BY <1>1, <3>1 DEF ServerRecord
    <3>3. SlotOK(c, r, spawncount)
      BY <1>1, <3>2 DEF Good, SlotOK
    <3>4. Serves(c, r, p)
      BY <3>2, <3>3, FieldsServe
    <3>5. PICK x : x = [svc |-> "download", block |-> <<None, 0>>, done |-> TRUE]
      OBVIOUS
    <3>6. x \in Item /\ x.svc = "download"
      <4>1. <<None, 0>> \in Block
        BY DEF Block
      <4>2. QED BY <3>5, <4>1 DEF Item
    <3>7. Serves(c, Write(r, x), p)
      BY <3>4, <3>6, PlainWritable, WriteServes
    <3>8. QED BY <2>2, <3>1, <3>5, <3>7 DEF StopDownload
  <2>3. QED BY <2>1, <2>2
<1>4. Serves(c, [s EXCEPT !.state = "zombie", !.download = None], p)
  <2>1. PICK r : r = [s EXCEPT !.state = "zombie", !.download = None]
    OBVIOUS
  <2>2. /\ r \in ServerRecord /\ r.message = s.message /\ r.state = "zombie"
        /\ r.download = None /\ r.spawncount = s.spawncount
    BY <1>1, <2>1 DEF ServerRecord
  <2>3. SlotOK(c, r, spawncount)
    BY <1>1, <2>2 DEF Good, SlotOK
  <2>4. QED BY <2>1, <2>2, <2>3, FieldsServe
<1>5. QED BY <1>2, <1>3, <1>4

\* The server has executed the next command.
LEMMA ExecutedServes ==
    ASSUME NEW c, NEW s, NEW p, Serves(c, s, p), c.message # <<>>,
           NEW y, y = Head(c.message)
    PROVE  Serves(c, Executed(s, y), p)
<1>1. Good(c, s, spawncount, p \o s.message)
  BY DEF Serves
<1>2. y \in Command /\ (y.cmd = "new" => ~AllFine(c, spawncount))
  BY <1>1, AskedIs
<1>3. CASE y.cmd = "new"
  BY <1>2, <1>3, NewServes DEF Executed
<1>4. CASE y.cmd = "soundlist"
  BY <1>4, SignonServes DEF Executed
<1>5. CASE y.cmd = "modellist"
  BY <1>5, SignonServes DEF Executed
<1>6. CASE y.cmd = "prespawn"
  BY <1>6, SignonServes DEF Executed
<1>7. CASE y.cmd = "spawn"
  BY <1>7, SignonServes DEF Executed
<1>8. CASE y.cmd = "begin"
  BY <1>8, SignonServes DEF Executed
<1>9. CASE y.cmd = "download"
  BY <1>2, <1>9, CommandIs, FilesServe DEF Executed
<1>10. CASE y.cmd = "nextdl"
  BY <1>10, NextDownloadServes DEF Executed
<1>11. CASE y.cmd = "stopdl"
  BY <1>11, FilesServe DEF Executed
<1>12. CASE y.cmd = "drop"
  BY <1>12, FilesServe DEF Executed
<1>13. QED
  BY <1>2, <1>3, <1>4, <1>5, <1>6, <1>7, <1>8, <1>9, <1>10, <1>11, <1>12,
     CommandIs DEF Leveled

-----------------------------------------------------------------------------
(* Every step keeps the invariant *)

LEMMA IInvIs ==
    IInv <=> /\ flight \in Seq(Item) /\ user \in 0..MaxUser
             /\ broadcast \in BOOLEAN /\ parsing \in BOOLEAN
             /\ Serves(cls, sv_client, flight)
BY DEF IInv, Serves, Queue

\* A new connection: nothing is on its way but the client's "new".
LEMMA FreshGood ==
    ASSUME NEW b \in ClientRecord, b.cbuf = <<>>, FilesOK(b), NEW n \in Level
    PROVE  Good(Connected(b), NewSlot, n, <<>>)
<1>1. PICK e : e = <<>>
  OBVIOUS
<1>2. /\ e \in Seq(Item) /\ e \in Seq(File) /\ DOMAIN e = {} /\ Len(e) = 0
  BY <1>1, EmptyIs
<1>3. 0 \in 0..Blocks /\ n \in Nat /\ n # 0
  BY LevelIs
<1>4. PICK s : s = NewSlot
  OBVIOUS
<1>5. s = [state |-> "connected", spawncount |-> 0, message |-> e,
           download |-> None, count |-> 0]
  BY <1>1, <1>4 DEF NewSlot
<1>6. /\ s \in ServerRecord /\ s.state = "connected" /\ s.download = None
      /\ s.spawncount = 0 /\ s.message = e
  BY <1>2, <1>3, <1>5 DEF ServerRecord
<1>7. PICK y : y = [cmd |-> "new"]
  OBVIOUS
<1>8. y \in Command /\ y.cmd = "new"
  BY <1>7 DEF Command
<1>9. PICK m : m = <<y>>
  OBVIOUS
<1>10. m \in Seq(Command) /\ DOMAIN m = {1} /\ m[1] = y /\ Len(m) = 1
  BY <1>8, <1>9, OneIs
<1>11. PICK c : c = Connected(b)
  OBVIOUS
<1>12. c = [b EXCEPT !.state = "connected", !.connecting = FALSE,
                     !.servercount = 0, !.sounds = 0, !.models = e,
                     !.precache = None, !.message = m, !.sent = 0]
  BY <1>1, <1>7, <1>9, <1>11 DEF Connected, NoModels
<1>13. /\ c \in ClientRecord
       /\ c.servercount = 0 /\ c.sounds = 0 /\ c.models = e /\ c.precache = None
       /\ c.message = m /\ c.cbuf = e /\ c.sent = 0
       /\ c.method = b.method /\ c.name = b.name /\ c.download = b.download
       /\ c.disk = b.disk
  <2>1. c \in ClientRecord
    BY <1>1, <1>2, <1>10, <1>12 DEF ClientRecord
  <2>2. /\ c.servercount = 0 /\ c.sounds = 0 /\ c.models = e /\ c.precache = None
        /\ c.message = m /\ c.sent = 0
    BY <1>1, <1>12 DEF ClientRecord
  <2>3. /\ c.cbuf = b.cbuf
        /\ c.method = b.method /\ c.name = b.name /\ c.download = b.download
        /\ c.disk = b.disk
    BY <1>1, <1>12 DEF ClientRecord
  <2>4. QED BY <1>1, <1>2, <2>1, <2>2, <2>3
<1>14. ~Loaded(c)
  BY <1>13, LevelIs DEF Loaded
<1>15. ItemsOK(c, s, n, e)
  BY <1>2 DEF ItemsOK
<1>16. CommandsOK(c, n)
  <2>1. CommandOK(c, y)
    BY <1>8 DEF CommandOK, Leveled
  <2>2. \A i, j \in DOMAIN m : ~(i < j)
    BY <1>10
  <2>3. QED BY <1>10, <1>13, <2>1, <2>2 DEF CommandsOK
<1>17. TextOK(c, n)
  BY <1>2, <1>13 DEF TextOK
<1>18. ListsOK(c, n)
  BY <1>1, <1>3, <1>13, <1>14 DEF ListsOK
<1>19. FilesOK(c)
  BY <1>13 DEF FilesOK
<1>20. SlotOK(c, s, n)
  BY <1>3, <1>6, <1>13 DEF SlotOK
<1>21. StateOK(c, n)
  BY <1>3, <1>10, <1>13 DEF StateOK
<1>22. Good(c, s, n, e)
  BY <1>13, <1>15, <1>16, <1>17, <1>18, <1>19, <1>20, <1>21 DEF Good
<1>23. QED BY <1>1, <1>4, <1>11, <1>22

LEMMA FreshServes ==
    ASSUME NEW b \in ClientRecord, b.cbuf = <<>>, FilesOK(b), spawncount \in Level
    PROVE  Serves(Connected(b), NewSlot, <<>>)
<1>1. PICK e : e = <<>>
  OBVIOUS
<1>2. e \in Seq(Item)
  BY <1>1, EmptyIs
<1>3. NewSlot.message = e
  BY <1>1 DEF NewSlot
<1>4. e \o e = e
  BY <1>1, <1>2, QueueIs
<1>5. Good(Connected(b), NewSlot, spawncount, e)
  BY <1>1, FreshGood
<1>6. QED BY <1>1, <1>2, <1>3, <1>4, <1>5 DEF Serves

LEMMA WholeIs == \A f \in File : Whole(f) \in Seq(Block)
<1> SUFFICES ASSUME NEW f \in File PROVE Whole(f) \in Seq(Block)
  OBVIOUS
<1>1. Whole(f) \in [1..Blocks -> Block]
  BY DEF Whole, Block
<1>2. Blocks \in Nat
  BY LevelIs
<1>3. QED BY <1>1, <1>2

LEMMA InitIInv == Init => IInv
<1> SUFFICES ASSUME Init PROVE IInv
  OBVIOUS
<1>1. /\ spawncount = 1 /\ flight = <<>> /\ user = 0
      /\ broadcast = FALSE /\ parsing = FALSE /\ sv_client = NewSlot
  BY DEF Init
<1>2. PICK e : e = <<>>
  OBVIOUS
<1>3. /\ e \in Seq(Item) /\ e \in Seq(File) /\ e \in Seq(Block)
      /\ e \in Seq(Command)
  BY <1>2, EmptyIs
<1>4. spawncount \in Level /\ 0 \in 0..MaxUser
  BY <1>1, LevelIs DEF Level
<1>5. PICK present \in SUBSET File :
         cls = Connected(
                [state |-> "disconnected", connecting |-> TRUE,
                 servercount |-> 0, sounds |-> 0,
                 models |-> NoModels, precache |-> None,
                 type |-> "none", number |-> 0, method |-> "none",
                 name |-> None, download |-> None,
                 tmp |-> [f \in File |-> <<>>],
                 disk |-> [f \in File |-> IF f \in present THEN Whole(f)
                                                           ELSE <<>>],
                 message |-> <<>>, sent |-> 0, cbuf |-> <<>>,
                 waiting |-> 0, overlap |-> FALSE, crossed |-> FALSE,
                 stopped |-> FALSE])
  BY DEF Init
<1>6. PICK disk : disk = [f \in File |-> IF f \in present THEN Whole(f) ELSE e]
  OBVIOUS
<1>7. disk \in [File -> Seq(Block)]
  BY <1>3, <1>6, WholeIs
<1>8. PICK tmp : tmp = [f \in File |-> e]
  OBVIOUS
<1>9. tmp \in [File -> Seq(Block)]
  BY <1>3, <1>8
<1>10. PICK b : b = [state |-> "disconnected", connecting |-> TRUE,
                     servercount |-> 0, sounds |-> 0,
                     models |-> e, precache |-> None,
                     type |-> "none", number |-> 0, method |-> "none",
                     name |-> None, download |-> None, tmp |-> tmp, disk |-> disk,
                     message |-> e, sent |-> 0, cbuf |-> e,
                     waiting |-> 0, overlap |-> FALSE, crossed |-> FALSE,
                     stopped |-> FALSE]
  OBVIOUS
<1>11. cls = Connected(b)
  BY <1>2, <1>5, <1>6, <1>8, <1>10 DEF NoModels
<1>12. b \in ClientRecord /\ b.cbuf = e /\ b.method = "none" /\ b.download = None
  BY <1>3, <1>7, <1>9, <1>10 DEF ClientRecord
<1>13. FilesOK(b)
  BY <1>12 DEF FilesOK
<1>14. Serves(cls, sv_client, flight)
  BY <1>1, <1>2, <1>4, <1>11, <1>12, <1>13, FreshServes
<1>15. QED BY <1>1, <1>2, <1>3, <1>4, <1>14, IInvIs

LEMMA ExecuteStep == IInv /\ ExecuteUserCommand => IInv'
<1> SUFFICES ASSUME IInv, ExecuteUserCommand PROVE IInv'
  OBVIOUS
<1>1. Serves(cls, sv_client, flight)
  BY IInvIs
<1>2. PICK s : s = Executed(sv_client, Head(cls.message))
  OBVIOUS
<1>3. /\ cls \in ClientRecord /\ cls.message \in Seq(Command) /\ cls.sent \in Nat
      /\ cls.sent > 0 /\ cls.sent <= Len(cls.message)
  BY <1>1 DEF Serves, Good, StateOK, ClientRecord, ExecuteUserCommand
<1>4. cls.message # <<>>
  BY <1>3, EmptyIs
<1>5. Serves(cls, s, flight)
  BY <1>1, <1>2, <1>4, ExecutedServes
<1>6. PICK m : m = Tail(cls.message)
  OBVIOUS
<1>7. m \in Seq(Command) /\ Sub(m, cls.message)
  BY <1>3, <1>4, <1>6, TailIs
<1>8. PICK k : k = cls.sent - 1
  OBVIOUS
<1>9. k \in Nat /\ k <= Len(m)
  <2>1. Len(m) = Len(cls.message) - 1 /\ Len(cls.message) \in Nat
    BY <1>3, <1>4, <1>6, HeadTailProperties, LenProperties
  <2>2. QED BY <1>3, <1>8, <2>1
<1>10. PICK d : d = [cls EXCEPT !.message = m, !.sent = k]
  OBVIOUS
<1>11. Good(d, s, spawncount, flight \o s.message)
  BY <1>5, <1>7, <1>9, <1>10, FewerGood DEF Serves
<1>12. /\ sv_client' = s /\ cls' = d /\ flight' = flight /\ user' = user
       /\ spawncount' = spawncount /\ broadcast' = broadcast /\ parsing' = parsing
  BY <1>2, <1>6, <1>8, <1>10 DEF ExecuteUserCommand
<1>13. Good(cls', sv_client', spawncount', (flight \o sv_client.message)')
  BY <1>11, <1>12
<1>14. /\ flight \in Seq(Item) /\ user \in 0..MaxUser
       /\ broadcast \in BOOLEAN /\ parsing \in BOOLEAN
  BY DEF IInv
<1>15. QED BY <1>12, <1>13, <1>14 DEF IInv, Queue

\* A step of the client alone.
LEMMA ClientStep ==
    ASSUME IInv, NEW p \in Seq(Item), Good(cls', sv_client, spawncount,
                                           p \o sv_client.message),
           flight' = p, spawncount' = spawncount, sv_client' = sv_client,
           broadcast' = broadcast, parsing' \in BOOLEAN, user' \in 0..MaxUser
    PROVE  IInv'
<1>1. Good(cls', sv_client', spawncount', (flight \o sv_client.message)')
  OBVIOUS
<1>2. QED BY <1>1 DEF IInv, Queue

LEMMA TransmitStep == IInv /\ Transmit => IInv'
<1> SUFFICES ASSUME IInv, Transmit PROVE IInv'
  OBVIOUS
<1>1. PICK s : s = sv_client
  OBVIOUS
<1>2. PICK q : q = s.message
  OBVIOUS
<1>3. /\ Good(cls, s, spawncount, flight \o q) /\ flight = <<>>
      /\ user \in 0..MaxUser /\ spawncount' = spawncount /\ cls' = cls
      /\ user' = user /\ flight' = q /\ sv_client' = ClearReliable(s)
  BY <1>1, <1>2 DEF IInv, Queue, Transmit
<1>4. s \in ServerRecord /\ q \in Seq(Item)
  BY <1>2, <1>3 DEF Good, SlotOK, ServerRecord
<1>5. flight \o q = q /\ q \o <<>> = q
  BY <1>3, <1>4, ConcatEmptySeq
<1>6. PICK r : r = ClearReliable(s)
  OBVIOUS
<1>7. PICK e : e = <<>>
  OBVIOUS
<1>8. e \in Seq(Item) /\ r = [s EXCEPT !.message = e]
  BY <1>6, <1>7, EmptyIs DEF ClearReliable
<1>9. /\ r \in ServerRecord /\ r.message = e /\ r.state = s.state
      /\ r.download = s.download /\ r.count = s.count
      /\ r.spawncount = s.spawncount
  BY <1>4, <1>8 DEF ServerRecord
<1>10. SlotOK(cls, r, spawncount)
  BY <1>3, <1>9 DEF Good, SlotOK
<1>11. Good(cls, s, spawncount, q)
  BY <1>3, <1>5
<1>12. Good(cls, r, spawncount, q)
  BY <1>9, <1>10, <1>11, SlotGood
<1>13. q \o r.message = q
  BY <1>5, <1>7, <1>9
<1>14. Good(cls', sv_client', spawncount', (flight \o sv_client.message)')
  BY <1>3, <1>6, <1>12, <1>13
<1>15. broadcast' \in BOOLEAN /\ parsing' \in BOOLEAN
  BY DEF IInv, Transmit
<1>16. QED BY <1>3, <1>4, <1>14, <1>15 DEF IInv, Queue

\* No client is on the new level, and nothing on its way tells it.
LEMMA NextLevelGood ==
    ASSUME NEW c, NEW s, NEW n, NEW q, Good(c, s, n, q), n + 1 \in Level,
           s.state # "spawned"
    PROVE  Good(c, s, n + 1, q)
<1>1. n \in Nat /\ c.servercount \in Nat /\ c.servercount <= n
  BY LoadedIs
<1>2. c.servercount # n + 1 /\ c.servercount <= n + 1
  BY <1>1
<1>3. ASSUME NEW x \in Item, ItemOK(c, s, n, x)
      PROVE  /\ ItemOK(c, s, n + 1, x)
             /\ x.svc = "serverdata" => x.level # n + 1
  <2>1. x.svc = "serverdata" => x.level <= n + 1 /\ x.level # n + 1
    <3>1. x.svc = "serverdata" => x.level <= n /\ x.level \in Nat
      BY <1>3, ItemIs, LevelIs DEF ItemOK, Tells
    <3>2. QED BY <1>1, <3>1
  <2>2. QED BY <1>2, <1>3, <2>1 DEF ItemOK
<1>4. \A i \in DOMAIN q : q[i] \in Item /\ ItemOK(c, s, n, q[i])
  BY DEF Good, ItemsOK
<1>5. ASSUME NEW x \in Item, ItemOK(c, s, n, x), NEW y, ItemPair(c, n, x, y)
      PROVE  ItemPair(c, n + 1, x, y)
  BY <1>3, <1>5 DEF ItemPair
<1>6. ItemsOK(c, s, n + 1, q)
  BY <1>3, <1>4, <1>5 DEF Good, ItemsOK
<1>7. \A i \in DOMAIN c.message :
         c.message[i] \in Command /\ CommandOK(c, c.message[i])
  BY DEF Good, CommandsOK, ClientRecord
<1>8. ASSUME NEW x \in Command, CommandOK(c, x), NEW y, CommandPair(c, n, x, y)
      PROVE  CommandPair(c, n + 1, x, y)
  <2>1. x.cmd \in Leveled => x.level # n + 1
    <3>1. x.cmd \in Leveled => x.level <= c.servercount /\ x.level \in Nat
      BY <1>8, CommandIs, LevelIs DEF CommandOK
    <3>2. QED BY <1>1, <3>1
  <2>2. QED BY <1>8, <2>1 DEF CommandPair
<1>9. CommandsOK(c, n + 1)
  BY <1>7, <1>8 DEF Good, CommandsOK
<1>10. TextOK(c, n + 1)
  BY <1>2 DEF Good, TextOK
<1>11. ListsOK(c, n + 1)
  BY <1>2 DEF Good, ListsOK
<1>12. SlotOK(c, s, n + 1)
  BY <1>2 DEF Good, SlotOK
<1>13. StateOK(c, n + 1)
  BY <1>2 DEF Good, StateOK
<1>14. QED BY <1>6, <1>9, <1>10, <1>11, <1>12, <1>13 DEF Good

LEMMA MapStep == IInv /\ Map => IInv'
<1> SUFFICES ASSUME IInv, Map PROVE IInv'
  OBVIOUS
<1>1. PICK n : n = spawncount + 1
  OBVIOUS
<1>2. PICK r : r = [sv_client EXCEPT !.state = IF @ = "spawned" THEN "connected"
                                                                ELSE @]
  OBVIOUS
<1>3. PICK x : x = [svc |-> "changing"]
  OBVIOUS
<1>4. /\ spawncount' = n /\ spawncount < MaxLevel /\ cls' = cls
      /\ flight' = flight /\ user' = user /\ parsing' = parsing
      /\ sv_client' \in {r, Write(r, x)} /\ broadcast' \in BOOLEAN
  BY <1>1, <1>2, <1>3, LevelIs DEF Map, Broadcast
<1>5. /\ Good(cls, sv_client, spawncount, flight \o sv_client.message)
      /\ sv_client \in ServerRecord /\ flight \in Seq(Item) /\ user \in 0..MaxUser
      /\ sv_client.message \in Seq(Item) /\ parsing \in BOOLEAN
  BY DEF IInv, Queue, Good, SlotOK, ServerRecord
<1>6. /\ spawncount \in Nat /\ cls.servercount \in Nat
      /\ cls.servercount <= spawncount
  BY <1>5, LoadedIs
<1>7. n \in Level /\ cls.servercount # n
  BY <1>1, <1>4, <1>6, LevelIs DEF Level
<1>8. PICK state : state = IF sv_client.state = "spawned" THEN "connected"
                           ELSE sv_client.state
  OBVIOUS
<1>9. state \in {"connected", "zombie"}
  BY <1>5, <1>8 DEF ServerRecord
<1>10. r = [sv_client EXCEPT !.state = state]
  BY <1>2, <1>5, <1>8 DEF ServerRecord
<1>11. /\ r \in ServerRecord /\ r.message = sv_client.message /\ r.state = state
       /\ r.download = sv_client.download /\ r.count = sv_client.count
       /\ r.spawncount = sv_client.spawncount
  BY <1>5, <1>9, <1>10 DEF ServerRecord
<1>12. SlotOK(cls, r, spawncount)
  BY <1>5, <1>9, <1>11 DEF Good, SlotOK
<1>13. PICK q : q = flight \o r.message
  OBVIOUS
<1>14. Good(cls, r, spawncount, q)
  BY <1>5, <1>11, <1>12, <1>13, SlotGood
<1>15. Good(cls, r, n, q)
  BY <1>1, <1>7, <1>9, <1>11, <1>14, NextLevelGood
<1>16. PICK m : m = Append(r.message, x)
  OBVIOUS
<1>17. PICK w : w = Write(r, x)
  OBVIOUS
<1>18. x \in Item /\ x.svc = "changing"
  BY <1>3 DEF Item
<1>19. m \in Seq(Item) /\ flight \o m = Append(q, x)
  <2>1. m \in Seq(Item)
    <3>1. r.message \in Seq(Item)
      BY <1>5, <1>11
    <3>2. x \in Item
      BY <1>18
    <3>3. Append(r.message, x) \in Seq(Item)
      BY <3>1, <3>2, AppendIs
    <3>4. QED BY <1>16, <3>3
  <2>2. flight \o Append(r.message, x) = Append(flight \o r.message, x)
    <3>1. PICK t : t = r.message
      OBVIOUS
    <3>2. t \in Seq(Item) /\ flight \in Seq(Item) /\ x \in Item
      BY <1>5, <1>11, <1>18, <3>1
    <3>3. flight \o Append(t, x) = Append(flight \o t, x)
      BY <3>2, QueueIs
    <3>4. QED BY <3>1, <3>3
  <2>3. QED BY <1>13, <1>16, <2>1, <2>2
<1>20. w = [r EXCEPT !.message = m]
  BY <1>16, <1>17 DEF Write
<1>21. /\ w \in ServerRecord /\ w.message = m /\ w.state = r.state
       /\ w.download = r.download /\ w.count = r.count
       /\ w.spawncount = r.spawncount
  BY <1>11, <1>19, <1>20 DEF ServerRecord
<1>22. Good(cls, w, n, flight \o w.message)
  <2>1. ItemOK(cls, r, n, x)
    BY <1>7, <1>18 DEF ItemOK, Reply, Answer
  <2>2. \A i \in DOMAIN q : ItemPair(cls, n, q[i], x)
    <3> SUFFICES ASSUME NEW i \in DOMAIN q PROVE ItemPair(cls, n, q[i], x)
      OBVIOUS
    <3>1. PICK z : z = q[i]
      OBVIOUS
    <3>2. z \in Item /\ ItemOK(cls, r, spawncount, z)
      BY <1>14, <3>1 DEF Good, ItemsOK
    <3>3. z.svc = "serverdata" => z.level # n
      <4>1. z.svc = "serverdata" => z.level <= spawncount /\ z.level \in Nat
        BY <3>2, ItemIs, LevelIs DEF ItemOK, Tells
      <4>2. QED BY <1>1, <1>6, <4>1
    <3>4. QED BY <1>18, <3>1, <3>3 DEF ItemPair, Tells, Reply, Answer
  <2>3. ItemsOK(cls, r, n, Append(q, x))
    BY <1>15, <1>18, <2>1, <2>2, AppendItems DEF Good
  <2>4. Good(cls, r, n, Append(q, x))
    BY <1>15, <2>3 DEF Good
  <2>5. SlotOK(cls, w, n)
    BY <1>15, <1>21 DEF Good, SlotOK
  <2>6. Good(cls, w, n, Append(q, x))
    BY <1>21, <2>4, <2>5, SlotGood
  <2>7. QED BY <1>19, <1>21, <2>6
<1>23. Good(cls, sv_client', n, flight \o (sv_client').message)
  BY <1>4, <1>13, <1>15, <1>17, <1>22
<1>24. Good(cls', sv_client', spawncount', (flight \o sv_client.message)')
  BY <1>4, <1>23
<1>25. QED BY <1>4, <1>5, <1>24 DEF IInv, Queue

LEMMA BroadcastStep == IInv /\ UpdateToReliableMessages => IInv'
<1> SUFFICES ASSUME IInv, UpdateToReliableMessages PROVE IInv'
  OBVIOUS
<1>1. Serves(cls, sv_client, flight)
  BY IInvIs
<1>2. PICK x : x = [svc |-> "reconnect"]
  OBVIOUS
<1>3. x \in Item /\ x.svc = "reconnect"
  BY <1>2 DEF Item
<1>4. PICK s : s = Broadcast(sv_client, "reconnect")
  OBVIOUS
<1>5. s \in {sv_client, Write(sv_client, x)}
  BY <1>2, <1>4 DEF Broadcast
<1>6. Serves(cls, s, flight)
  BY <1>1, <1>3, <1>5, PlainWritable, WriteServes
<1>7. /\ sv_client' = s /\ cls' = cls /\ flight' = flight /\ user' = user
      /\ spawncount' = spawncount /\ broadcast' = FALSE /\ parsing' = parsing
  BY <1>4 DEF UpdateToReliableMessages
<1>8. Good(cls, s, spawncount, flight \o s.message)
  BY <1>6 DEF Serves
<1>9. Good(cls', sv_client', spawncount', (flight \o sv_client.message)')
  BY <1>7, <1>8
<1>10. flight \in Seq(Item) /\ user \in 0..MaxUser /\ parsing \in BOOLEAN
  BY DEF IInv
<1>11. QED BY <1>7, <1>9, <1>10 DEF IInv, Queue

LEMMA SendStep == IInv /\ SendCmd => IInv'
<1> SUFFICES ASSUME IInv, SendCmd PROVE IInv'
  OBVIOUS
<1>1. /\ Good(cls, sv_client, spawncount, flight \o sv_client.message)
      /\ flight \in Seq(Item) /\ user \in 0..MaxUser /\ parsing \in BOOLEAN
  BY DEF IInv, Queue
<1>2. PICK d : d = [cls EXCEPT !.sent = Len(cls.message)]
  OBVIOUS
<1>3. cls \in ClientRecord
  BY <1>1 DEF Good
<1>4. Len(cls.message) \in Nat
  BY <1>3, LenProperties DEF ClientRecord
<1>5. d \in ClientRecord
  BY <1>2, <1>3, <1>4 DEF ClientRecord
<1>6. /\ d.servercount = cls.servercount /\ d.sounds = cls.sounds
      /\ d.models = cls.models /\ d.precache = cls.precache /\ d.disk = cls.disk
      /\ d.message = cls.message /\ d.cbuf = cls.cbuf
      /\ d.state = cls.state /\ d.sent = Len(cls.message)
      /\ d.method = cls.method /\ d.name = cls.name /\ d.download = cls.download
  BY <1>2, <1>3 DEF ClientRecord
<1>7. FilesOK(d)
  BY <1>1, <1>6 DEF Good, FilesOK
<1>8. Good(d, sv_client, spawncount, flight \o sv_client.message)
  BY <1>1, <1>5, <1>6, <1>7, SameGood
<1>9. QED BY <1>1, <1>2, <1>8, ClientStep DEF SendCmd

LEMMA ConnectStep == IInv /\ ConnectAnew => IInv'
<1> SUFFICES ASSUME IInv, ConnectAnew PROVE IInv'
  OBVIOUS
<1>1. /\ Good(cls, sv_client, spawncount, flight \o sv_client.message)
      /\ flight \in Seq(Item) /\ user \in 0..MaxUser
      /\ broadcast \in BOOLEAN /\ parsing \in BOOLEAN
  BY DEF IInv, Queue
<1>2. cls \in ClientRecord /\ FilesOK(cls) /\ spawncount \in Level
  BY <1>1 DEF Good
<1>3. /\ sv_client' = NewSlot /\ cls' = Connected(cls) /\ flight' = flight
      /\ user' = user /\ spawncount' = spawncount /\ flight = <<>>
      /\ broadcast' = broadcast /\ parsing' = parsing /\ cls.cbuf = <<>>
  BY DEF ConnectAnew
<1>4. Serves(Connected(cls), NewSlot, flight)
  BY <1>2, <1>3, FreshServes
<1>5. Good(Connected(cls), NewSlot, spawncount, flight \o NewSlot.message)
  BY <1>4 DEF Serves
<1>6. Good(cls', sv_client', spawncount', (flight \o sv_client.message)')
  BY <1>3, <1>5
<1>7. QED BY <1>1, <1>3, <1>6 DEF IInv, Queue

LEMMA ParseStep == IInv /\ ParseServerMessage => IInv' /\ Kept(cls, cls')
<1> SUFFICES ASSUME IInv, ParseServerMessage PROVE IInv' /\ Kept(cls, cls')
  OBVIOUS
<1>1. PICK t : t = sv_client.message
  OBVIOUS
<1>2. PICK m : m = Head(flight)
  OBVIOUS
<1>3. PICK p : p = Tail(flight)
  OBVIOUS
<1>4. /\ Good(cls, sv_client, spawncount, flight \o t)
      /\ flight \in Seq(Item) /\ flight # <<>> /\ user \in 0..MaxUser
      /\ spawncount' = spawncount /\ sv_client' = sv_client /\ user' = user
      /\ cls' = Parsed(cls, m)
      /\ flight' = <<>> \/ flight' = p
      /\ broadcast' = broadcast /\ parsing' \in BOOLEAN
      /\ m.svc = "serverdata" => cls.cbuf = <<>>
  BY <1>1, <1>2, <1>3 DEF IInv, Queue, ParseServerMessage, FlushText
<1>5. t \in Seq(Item)
  BY <1>1, <1>4 DEF Good, SlotOK, ServerRecord
<1>6. PICK q : q = flight \o t
  OBVIOUS
<1>7. PICK r : r = p \o t
  OBVIOUS
<1>8. q \in Seq(Item) /\ q # <<>> /\ Tail(q) = r /\ Head(q) = m
  BY <1>2, <1>3, <1>4, <1>5, <1>6, <1>7, QueueIs
<1>9. /\ r \in Seq(Item) /\ m \in Item /\ 1 \in DOMAIN q /\ m = q[1] /\ Sub(r, q)
      /\ \A i \in DOMAIN r : i + 1 \in DOMAIN q /\ 1 < i + 1 /\ r[i] = q[i + 1]
  BY <1>8, TailIs
<1>10. Good(cls, sv_client, spawncount, r)
  BY <1>4, <1>6, <1>9, SubGood
<1>11. ItemsOK(cls, sv_client, spawncount, q)
  BY <1>4, <1>6 DEF Good
<1>12. First(cls, sv_client, spawncount, m, r)
  BY <1>9, <1>11 DEF First, ItemsOK
<1>13. Good(cls', sv_client, spawncount, r) /\ Kept(cls, cls')
  BY <1>4, <1>10, <1>12, ParsedGood
<1>14. p \in Seq(Item)
  BY <1>3, <1>4, TailIs
<1>15. CASE flight' = p
  <2>1. Good(cls', sv_client, spawncount, p \o sv_client.message)
    BY <1>1, <1>7, <1>13
  <2>2. QED BY <1>4, <1>13, <1>14, <1>15, <2>1, ClientStep
<1>16. CASE flight' = <<>>
  <2>1. PICK e : e = <<>>
    OBVIOUS
  <2>2. e \in Seq(Item) /\ e \o t = t
    BY <1>5, <2>1, EmptyIs, ConcatEmptySeq
  <2>3. Sub(t, r)
    BY <1>5, <1>7, <1>14, QueueIs
  <2>4. Good(cls', sv_client, spawncount, e \o sv_client.message)
    BY <1>1, <1>5, <1>13, <2>2, <2>3, SubGood
  <2>5. QED BY <1>4, <1>13, <1>16, <2>1, <2>2, <2>4, ClientStep
<1>17. QED BY <1>4, <1>15, <1>16

LEMMA TextStep == IInv /\ ExecuteText => IInv'
<1> SUFFICES ASSUME IInv, ExecuteText PROVE IInv'
  OBVIOUS
<1>1. /\ Good(cls, sv_client, spawncount, flight \o sv_client.message)
      /\ flight \in Seq(Item) /\ user \in 0..MaxUser /\ parsing \in BOOLEAN
  BY DEF IInv, Queue
<1>2. Good(cls', sv_client, spawncount, flight \o sv_client.message)
  BY <1>1, StuffedGood DEF ExecuteText, FlushText
<1>3. QED BY <1>1, <1>2, ClientStep DEF ExecuteText

LEMMA ActiveStep == IInv /\ MakeActive => IInv'
<1> SUFFICES ASSUME IInv, MakeActive PROVE IInv'
  OBVIOUS
<1>1. /\ Good(cls, sv_client, spawncount, flight \o sv_client.message)
      /\ flight \in Seq(Item) /\ user \in 0..MaxUser /\ parsing \in BOOLEAN
  BY DEF IInv, Queue
<1>2. PICK d : d = [cls EXCEPT !.state = "active"]
  OBVIOUS
<1>3. cls \in ClientRecord
  BY <1>1 DEF Good
<1>4. d \in ClientRecord
  BY <1>2, <1>3 DEF ClientRecord
<1>5. /\ d.servercount = cls.servercount /\ d.sounds = cls.sounds
      /\ d.models = cls.models /\ d.precache = cls.precache /\ d.disk = cls.disk
      /\ d.message = cls.message /\ d.cbuf = cls.cbuf
      /\ d.state = "active" /\ d.sent = cls.sent
      /\ d.method = cls.method /\ d.name = cls.name /\ d.download = cls.download
  BY <1>2, <1>3 DEF ClientRecord
<1>6. FilesOK(d)
  BY <1>1, <1>5 DEF Good, FilesOK
<1>7. Good(d, sv_client, spawncount, flight \o sv_client.message)
  BY <1>1, <1>4, <1>5, <1>6, SameGood
<1>8. QED BY <1>1, <1>2, <1>7, ClientStep DEF MakeActive

LEMMA DownloadStep ==
    ASSUME IInv, NEW f \in File, UserDownload(f)
    PROVE  IInv'
<1>1. /\ Good(cls, sv_client, spawncount, flight \o sv_client.message)
      /\ flight \in Seq(Item) /\ user \in 0..MaxUser /\ parsing \in BOOLEAN
  BY DEF IInv, Queue
<1>2. PICK c : c = Request(cls, f)
  OBVIOUS
<1>3. Good(c, sv_client, spawncount, flight \o sv_client.message)
  BY <1>1, <1>2, RequestGood DEF UserDownload
<1>4. PICK overlap : overlap = (c.overlap \/ cls.state # "active")
  OBVIOUS
<1>5. overlap \in BOOLEAN
  BY <1>4
<1>6. PICK d : d = [c EXCEPT !.type = "single", !.number = cls.number,
                             !.overlap = overlap]
  OBVIOUS
<1>7. c \in ClientRecord /\ cls.number \in Nat
  BY <1>1, <1>3 DEF Good, ClientRecord
<1>8. d \in ClientRecord
  BY <1>5, <1>6, <1>7 DEF ClientRecord
<1>9. /\ d.servercount = c.servercount /\ d.sounds = c.sounds
      /\ d.models = c.models /\ d.precache = c.precache /\ d.disk = c.disk
      /\ d.message = c.message /\ d.cbuf = c.cbuf
      /\ d.state = c.state /\ d.sent = c.sent
      /\ d.method = c.method /\ d.name = c.name /\ d.download = c.download
  BY <1>6, <1>7 DEF ClientRecord
<1>10. FilesOK(d)
  BY <1>3, <1>9 DEF Good, FilesOK
<1>11. Good(d, sv_client, spawncount, flight \o sv_client.message)
  BY <1>3, <1>8, <1>9, <1>10, SameGood
<1>12. cls' = d
  BY <1>2, <1>4, <1>6 DEF UserDownload
<1>13. user' \in 0..MaxUser
  BY <1>1, LevelIs DEF UserDownload
<1>14. QED BY <1>1, <1>11, <1>12, <1>13, ClientStep DEF UserDownload

LEMMA StopStep == IInv /\ UserStop => IInv'
<1> SUFFICES ASSUME IInv, UserStop PROVE IInv'
  OBVIOUS
<1>1. /\ Good(cls, sv_client, spawncount, flight \o sv_client.message)
      /\ flight \in Seq(Item) /\ user \in 0..MaxUser /\ parsing \in BOOLEAN
  BY DEF IInv, Queue
<1>2. PICK y : y = [cmd |-> "stopdl"]
  OBVIOUS
<1>3. y \in Command /\ y.cmd = "stopdl"
  BY <1>2 DEF Command
<1>4. PICK c : c = Send(cls, y)
  OBVIOUS
<1>5. Good(c, sv_client, spawncount, flight \o sv_client.message)
  <2>1. Sendable(cls, spawncount, flight \o sv_client.message, y)
    BY <1>3, PlainSendable DEF Leveled
  <2>2. QED BY <1>1, <1>4, <2>1, SendGood
<1>6. PICK d : d = [c EXCEPT !.stopped = TRUE]
  OBVIOUS
<1>7. c \in ClientRecord
  BY <1>5 DEF Good
<1>8. d \in ClientRecord
  BY <1>6, <1>7 DEF ClientRecord
<1>9. /\ d.servercount = c.servercount /\ d.sounds = c.sounds
      /\ d.models = c.models /\ d.precache = c.precache /\ d.disk = c.disk
      /\ d.message = c.message /\ d.cbuf = c.cbuf
      /\ d.state = c.state /\ d.sent = c.sent
      /\ d.method = c.method /\ d.name = c.name /\ d.download = c.download
  BY <1>6, <1>7 DEF ClientRecord
<1>10. FilesOK(d)
  BY <1>5, <1>9 DEF Good, FilesOK
<1>11. Good(d, sv_client, spawncount, flight \o sv_client.message)
  BY <1>5, <1>8, <1>9, <1>10, SameGood
<1>12. cls' = d
  BY <1>2, <1>4, <1>6 DEF UserStop
<1>13. user' \in 0..MaxUser
  BY <1>1, LevelIs DEF UserStop
<1>14. QED BY <1>1, <1>11, <1>12, <1>13, ClientStep DEF UserStop

-----------------------------------------------------------------------------
(* The theorems *)

\* The invariant holds in every state that is reached.
THEOREM Inductive == Spec => []IInv
<1>1. IInv /\ [Next]_vars => IInv'
  <2> SUFFICES ASSUME IInv, [Next]_vars PROVE IInv'
    OBVIOUS
  <2>1. CASE ExecuteUserCommand
    BY <2>1, ExecuteStep
  <2>2. CASE Transmit
    BY <2>2, TransmitStep
  <2>3. CASE Map
    BY <2>3, MapStep
  <2>4. CASE ParseServerMessage
    BY <2>4, ParseStep
  <2>5. CASE ExecuteText
    BY <2>5, TextStep
  <2>6. CASE MakeActive
    BY <2>6, ActiveStep
  <2>7. CASE UserStop
    BY <2>7, StopStep
  <2>8. CASE \E f \in File : UserDownload(f)
    BY <2>8, DownloadStep
  <2>9. CASE UpdateToReliableMessages
    BY <2>9, BroadcastStep
  <2>10. CASE SendCmd
    BY <2>10, SendStep
  <2>11. CASE ConnectAnew
    BY <2>11, ConnectStep
  <2>12. CASE UNCHANGED vars
    BY <2>12 DEF vars, IInv, Queue
  <2>13. QED
    BY <2>1, <2>2, <2>3, <2>4, <2>5, <2>6, <2>7, <2>8, <2>9, <2>10, <2>11, <2>12
       DEF Next
<1>2. QED BY <1>1, InitIInv, PTL DEF Spec

\* The slot, the client and what is on its way between them have the types
\* TypeOK gives them, and a file is open only while there is a method for it.
THEOREM TypeCorrect == Spec => []TypeOK
<1>1. IInv => TypeOK
  <2> SUFFICES ASSUME IInv PROVE TypeOK
    OBVIOUS
  <2>1. /\ flight \in Seq(Item) /\ user \in 0..MaxUser /\ spawncount \in Level
        /\ sv_client \in ServerRecord /\ cls \in ClientRecord
        /\ cls.download # None => cls.method = "QW"
        /\ broadcast \in BOOLEAN /\ parsing \in BOOLEAN
        /\ cls.sent <= Len(cls.message)
    BY DEF IInv, Good, SlotOK, FilesOK, StateOK
  <2>2. QED BY <2>1 DEF TypeOK, ServerRecord, ClientRecord
<1>2. QED BY <1>1, Inductive, PTL

\* A client that has begun (Cmd_Begin_f) holds the sounds of the server's level
\* and no models of another's, and has loaded the server's map, however levels
\* changed and files were asked for in the middle of its signon.
THEOREM BegunHasLevel == Spec => []HasLevel
<1>1. IInv => HasLevel
  <2> SUFFICES ASSUME IInv, sv_client.state = "spawned"
               PROVE  /\ cls.sounds = spawncount
                      /\ \A i \in DOMAIN cls.models :
                            cls.models[i] = Models[spawncount][i]
                      /\ cls.precache = Models[spawncount][1]
    BY DEF HasLevel
  <2>1. Good(cls, sv_client, spawncount, flight \o sv_client.message)
    BY DEF IInv, Queue
  <2>2. cls.servercount = spawncount /\ Loaded(cls)
    BY <2>1 DEF Good, SlotOK
  <2>3. cls.models # <<>> /\ cls.sounds # 0
    BY <2>1, <2>2, LoadedIs
  <2>4. /\ cls.sounds = spawncount /\ cls.precache = cls.models[1]
        /\ \A i \in DOMAIN cls.models : cls.models[i] = Models[spawncount][i]
    BY <2>1, <2>2, <2>3 DEF Good, ListsOK
  <2>5. 1 \in DOMAIN cls.models
    <3>1. cls.models \in Seq(File)
      BY <2>1 DEF Good, ClientRecord
    <3>2. QED BY <2>3, <3>1, TailIs
  <2>6. QED BY <2>4, <2>5
<1>2. QED BY <1>1, Inductive, PTL


\* OnLevel: a client that has begun is on the server's level.
THEOREM BegunOnLevel == Spec => []OnLevel
<1>1. IInv => OnLevel
  BY DEF IInv, Good, SlotOK, OnLevel
<1>2. QED BY <1>1, Inductive, PTL

\* A file that has its name keeps its blocks: a download is only written for a
\* name that is missing (CL_CheckOrDownloadFile), also when requests overlap
\* (CL_ParseDownload, CL_FinishDownload).
THEOREM FilesStay ==
    Spec => [][\A f \in File : cls.disk[f] # <<>> => cls'.disk[f] = cls.disk[f]]_vars
<1>1. IInv /\ [Next]_vars
      => [\A f \in File : cls.disk[f] # <<>> => cls'.disk[f] = cls.disk[f]]_vars
  <2> SUFFICES ASSUME IInv, Next PROVE Kept(cls, cls')
    BY DEF Kept
  <2>1. Good(cls, sv_client, spawncount, Queue) /\ cls \in ClientRecord
    BY DEF IInv, Good
  <2>2. CASE ExecuteUserCommand
    BY <2>1, <2>2 DEF ExecuteUserCommand, Kept, ClientRecord
  <2>3. CASE Transmit \/ Map \/ UpdateToReliableMessages
    BY <2>3 DEF Transmit, Map, UpdateToReliableMessages, Kept
  <2>4. CASE ParseServerMessage
    BY <2>4, ParseStep
  <2>5. CASE ExecuteText
    <3>1. Kept(cls, Stuffed([cls EXCEPT !.cbuf = Tail(@)], Head(cls.cbuf)))
      BY <2>1, <2>5, StuffedGood DEF ExecuteText, FlushText
    <3>2. QED BY <2>5, <3>1 DEF ExecuteText
  <2>6. CASE MakeActive
    BY <2>1, <2>6 DEF MakeActive, Kept, ClientRecord
  <2>7. CASE UserStop
    BY <2>1, <2>7 DEF UserStop, Send, Kept, ClientRecord
  <2>8. ASSUME NEW f \in File, UserDownload(f)
        PROVE  Kept(cls, cls')
    <3>1. PICK r : r = Request(cls, f)
      OBVIOUS
    <3>2. r.disk = cls.disk
      BY <2>1, <3>1, SameDisk
    <3>3. cls'.disk = r.disk
      BY <2>8, <3>1 DEF UserDownload
    <3>4. QED BY <3>2, <3>3 DEF Kept
  <2>9. CASE SendCmd
    BY <2>1, <2>9 DEF SendCmd, Kept, ClientRecord
  <2>10. CASE ConnectAnew
    BY <2>1, <2>10 DEF ConnectAnew, Connected, Kept, ClientRecord
  <2>11. QED
    BY <2>2, <2>3, <2>4, <2>5, <2>6, <2>7, <2>8, <2>9, <2>10 DEF Next
<1>2. QED BY <1>1, Inductive, PTL DEF Spec
=============================================================================
