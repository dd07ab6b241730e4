-------------------------- MODULE FrameExchangeProof --------------------------
(***************************************************************************)
(* What the two rings of FrameExchange guarantee, for every UPDATE_BACKUP  *)
(* from 4, every BYTE that is a multiple of it, any number of packets and  *)
(* levels, both kinds of server and both values of cl_nodelta.             *)
(*                                                                         *)
(* The argument.  A request for a delta that is under way, to the server   *)
(* or answered, keeps its frame in the client's ring and its base in both  *)
(* rings (Requests): the client asks only for its newest frame and drops   *)
(* it in time, and an entry of the server's ring only grows (ServerRing).  *)
(* Entities are only sent to a client that has begun the level, and those  *)
(* of an old level are gone when it does (Levels).  Every command sent     *)
(* since a frame in use is still in the client's ring (CmdsFrom).          *)
(***************************************************************************)
EXTENDS FrameExchange, TLAPS, FiniteSetTheorems, SequenceTheorems,
        WellFoundedInduction

-----------------------------------------------------------------------------
(* Slots of the ring: the facts about % that the rings rest on. *)
LEMMA Division ==
    ASSUME NEW n \in Nat, n > 0, NEW a \in Int
    PROVE  a = n * (a \div n) + (a % n) /\ a \div n \in Int /\ a % n \in 0..n-1
  BY Z3

LEMMA Apart ==
    ASSUME NEW n \in Nat, NEW k \in Int, NEW l \in Int, k # l
    PROVE  n * k - n * l >= n \/ n * l - n * k >= n
  <1>1. CASE k < l
    BY <1>1, Z3
  <1>2. CASE k > l
    BY <1>2, Z3
  <1>. QED BY <1>1, <1>2

LEMMA OneRemainder ==
    ASSUME NEW n \in Nat, NEW k \in Int, NEW l \in Int,
           NEW r \in 0..n-1, NEW t \in 0..n-1, n * k + r = n * l + t
    PROVE  r = t
  <1>1. n * k \in Int /\ n * l \in Int BY Z3
  <1>2. CASE k = l BY <1>1, <1>2
  <1>3. CASE k # l
    <2>1. n * k - n * l >= n \/ n * l - n * k >= n BY <1>3, Apart
    <2>. QED BY <1>1, <2>1
  <1>. QED BY <1>2, <1>3

LEMMA SlotType == \A n \in Int : Slot(n) \in Slots
  <1>. SUFFICES ASSUME NEW n \in Int PROVE Slot(n) \in Slots OBVIOUS
  <1>1. UPDATE_BACKUP \in Nat /\ UPDATE_BACKUP > 0 BY RingAssumption
  <1>. QED BY <1>1, Division DEF Slot, Slots

LEMMA SlotsApart ==
    ASSUME NEW a \in Int, NEW b \in Int, a < b, b - a < UPDATE_BACKUP
    PROVE  Slot(a) # Slot(b)
  <1>. DEFINE n == UPDATE_BACKUP
  <1>. SUFFICES ASSUME (a % n) = (b % n) PROVE FALSE BY DEF Slot
  <1>0. n \in Nat /\ n > 0 BY RingAssumption
  <1>. HIDE DEF n
  <1>1. PICK k \in Int : a = n * k + (a % n) BY <1>0, Division
  <1>2. PICK l \in Int : b = n * l + (b % n) BY <1>0, Division
  <1>3. k # l BY <1>1, <1>2
  <1>4. n * k - n * l >= n \/ n * l - n * k >= n BY <1>0, <1>3, Apart
  <1>5. n * k \in Int /\ n * l \in Int BY <1>0, Z3
  <1>6. a % n \in Int BY <1>0, Division
  <1>7. b - a < n BY DEF n
  <1>. QED BY <1>0, <1>1, <1>2, <1>4, <1>5, <1>6, <1>7

LEMMA SlotOfByte == \A d \in Int : Slot(d % BYTE) = Slot(d)
  <1>. SUFFICES ASSUME NEW d \in Int
                PROVE  (d % BYTE) % UPDATE_BACKUP = d % UPDATE_BACKUP
    BY DEF Slot
  <1>. DEFINE n == UPDATE_BACKUP
              b == BYTE
  <1>0. n \in Nat /\ n > 0 /\ b \in Nat /\ b > 0 /\ (b % n) = 0
    BY RingAssumption
  <1>. HIDE DEF n, b
  <1>1. d = b * (d \div b) + (d % b) /\ d \div b \in Int /\ d % b \in Int
    BY <1>0, Division
  <1>2. PICK k \in Int : d = b * k + (d % b) BY <1>1
  <1>3. PICK q \in Int : b = n * q BY <1>0, Division
  <1>4. PICK l \in Int : d % b = n * l + ((d % b) % n) BY <1>0, <1>1, Division
  <1>5. PICK w \in Int : d = n * w + (d % n) BY <1>0, Division
  <1>6. (d % b) % n \in 0..n-1 /\ d % n \in 0..n-1 BY <1>0, <1>1, Division
  <1>7. b * k = n * (q * k) BY <1>0, <1>3, Z3
  <1>8. q * k + l \in Int /\ n * (q * k + l) = n * (q * k) + n * l
    BY <1>0, Z3
  <1>9. n * (q * k) \in Int /\ n * l \in Int BY <1>0, Z3
  <1>10. d = n * (q * k) + (d % b) BY <1>2, <1>7
  <1>11. d = n * (q * k) + (n * l + ((d % b) % n)) BY <1>4, <1>10
  <1>12. n * (q * k + l) + ((d % b) % n) = d BY <1>6, <1>8, <1>9, <1>11
  <1>13. (d % b) % n = d % n BY <1>0, <1>5, <1>6, <1>8, <1>12, OneRemainder
  <1>. QED BY <1>13 DEF n, b

-----------------------------------------------------------------------------
(* Types without the bounds of TypeOK. *)
FrameType == [cmd : Nat, delta_sequence : Int, entities : Int,
              playerstate : Int, invalid : BOOLEAN]
ClType == [state : {"onserver", "active"}, level : Nat, outgoing : Nat \ {0},
           incoming : Nat, validsequence : Nat, delta_sequence : Nat,
           frames : [Slots -> FrameType]]
ServerSlot == [state : {"connected", "spawned"}, level : Nat,
           outgoing : Nat \ {0}, incoming : Nat, delta_sequence : Int,
           send_message : BOOLEAN, lastcmd : Nat, frames : [Slots -> Nat]]
MoveType == [seq : Nat \ {0}, level : Nat, oldest : Nat, oldcmd : Nat,
             newcmd : Nat, delta : Int]
UpdateType == [from : Int, base : Int, entities : Int]
PacketType == [seq : Nat \ {0}, ack : Nat, level : Nat, player : Nat,
               update : UpdateType]

TypeInv ==
    /\ cl \in ClType
    /\ client \in ServerSlot
    /\ toServer \subseteq MoveType
    /\ toClient \subseteq PacketType
    /\ ran \in Seq(Nat)

-----------------------------------------------------------------------------
(* What each operation of the client does to the fields of its ring. *)
CmdSent(c, r) ==
    LET n == Slot(c.outgoing)
        keeps == c.outgoing - c.validsequence < UPDATE_BACKUP - 1
    IN
    /\ r \in ClType
    /\ r.level = c.level /\ r.incoming = c.incoming
    /\ r.outgoing = c.outgoing + 1
    /\ \/ keeps /\ r.validsequence = c.validsequence
                /\ r.delta_sequence = c.delta_sequence
       \/ ~keeps /\ r.validsequence = 0 /\ r.delta_sequence = 0
    /\ r.frames[n].cmd = c.outgoing
    /\ \/ r.frames[n].delta_sequence = None
       \/ /\ keeps /\ c.delta_sequence # 0
          /\ r.frames[n].delta_sequence = c.delta_sequence
    /\ \A s \in Slots : /\ r.frames[s].entities = c.frames[s].entities
                        /\ r.frames[s].playerstate = c.frames[s].playerstate
    /\ \A s \in Slots \ {n} :
          /\ r.frames[s].cmd = c.frames[s].cmd
          /\ r.frames[s].delta_sequence = c.frames[s].delta_sequence

LEMMA SendCmd ==
    ASSUME NEW c \in ClType, NEW nodelta \in BOOLEAN
    PROVE  CmdSent(c, CL_SendCmd(c, nodelta))
  <1>. SUFFICES ASSUME NEW r, r = CL_SendCmd(c, nodelta) PROVE CmdSent(c, r)
    OBVIOUS
  <1>. USE DEF CmdSent
  <1>. DEFINE n == Slot(c.outgoing)
              keeps == c.outgoing - c.validsequence < UPDATE_BACKUP - 1
              v == IF keeps THEN c.validsequence ELSE 0
              d == IF keeps THEN c.delta_sequence ELSE 0
              a == IF d # 0 /\ ~nodelta /\ c.state = "active" THEN d ELSE None
              f == [c.frames[n] EXCEPT !.cmd = c.outgoing, !.delta_sequence = a]
  <1>1. n \in Slots /\ c.frames \in [Slots -> FrameType] /\ c.frames[n] \in FrameType
    BY SlotType DEF ClType
  <1>2. c.outgoing \in Nat \ {0} /\ c.validsequence \in Nat /\ c.delta_sequence \in Nat
    BY DEF ClType
  <1>3. v \in Nat /\ d \in Nat /\ a \in Int /\ UPDATE_BACKUP \in Nat
    BY <1>2, RingAssumption DEF None
  <1>0. keeps <=> ~(c.outgoing - c.validsequence >= UPDATE_BACKUP - 1)
    BY <1>2, <1>3
  <1>4. r = [c EXCEPT !.outgoing = c.outgoing + 1, !.validsequence = v,
                      !.delta_sequence = d, !.frames = [c.frames EXCEPT ![n] = f]]
    <2>. DEFINE e == c.outgoing - c.validsequence >= UPDATE_BACKUP - 1
                g == IF e THEN 0 ELSE c.delta_sequence
                b == IF g # 0 /\ ~nodelta /\ c.state = "active" THEN g ELSE None
                h == [c.frames EXCEPT ![n] = [@ EXCEPT !.cmd = c.outgoing,
                                                    !.delta_sequence = b]]
    <2>1. r = [c EXCEPT !.outgoing = c.outgoing + 1,
                        !.validsequence = IF e THEN 0 ELSE c.validsequence,
                        !.delta_sequence = g, !.frames = h]
      BY DEF CL_SendCmd, ClType
    <2>2. (IF e THEN 0 ELSE c.validsequence) = v /\ g = d /\ b = a BY <1>0
    <2>3. h = [c.frames EXCEPT ![n] = f] BY <1>1, <2>2 DEF FrameType
    <2>. QED BY <2>1, <2>2, <2>3
  <1>5. f \in FrameType /\ f.cmd = c.outgoing /\ f.delta_sequence = a
        /\ f.entities = c.frames[n].entities /\ f.playerstate = c.frames[n].playerstate
    BY <1>1, <1>2, <1>3 DEF FrameType
  <1>6. a = None \/ (keeps /\ c.delta_sequence # 0 /\ a = c.delta_sequence)
    OBVIOUS
  <1>7. \/ keeps /\ v = c.validsequence /\ d = c.delta_sequence
        \/ ~keeps /\ v = 0 /\ d = 0
    OBVIOUS
  <1>. HIDE DEF f, v, d, a, n
  <1>8. r.frames[n] = f /\ \A s \in Slots \ {n} : r.frames[s] = c.frames[s]
    BY <1>1, <1>4 DEF ClType
  <1>12. [c.frames EXCEPT ![n] = f] \in [Slots -> FrameType]
    BY <1>1, <1>5
  <1>9. r \in ClType
    <2>. DEFINE fr == [c.frames EXCEPT ![n] = f]
                o == c.outgoing + 1
    <2>1. o \in Nat \ {0} BY <1>2
    <2>2. fr \in [Slots -> FrameType] BY <1>12
    <2>3. r = [c EXCEPT !.outgoing = o, !.validsequence = v,
                        !.delta_sequence = d, !.frames = fr]
      BY <1>4
    <2>. HIDE DEF fr, o
    <2>. QED BY <2>1, <2>2, <2>3, <1>3 DEF ClType
  <1>10. r.level = c.level /\ r.incoming = c.incoming /\ r.outgoing = c.outgoing + 1
         /\ r.validsequence = v /\ r.delta_sequence = d
    BY <1>4 DEF ClType
  <1>11. \A s \in Slots : s = n \/ s \in Slots \ {n} OBVIOUS
  <1>. QED BY <1>5, <1>6, <1>7, <1>8, <1>9, <1>10, <1>11 DEF n

MovePredicted(c, r) ==
    /\ r \in ClType
    /\ r.level = c.level /\ r.outgoing = c.outgoing
    /\ r.incoming = c.incoming /\ r.validsequence = c.validsequence
    /\ r.delta_sequence = c.delta_sequence
    /\ \A s \in Slots :
          /\ r.frames[s].cmd = c.frames[s].cmd
          /\ r.frames[s].delta_sequence = c.frames[s].delta_sequence
          /\ r.frames[s].entities = c.frames[s].entities
    /\ LET v == c.validsequence IN
       r.frames[Slot(v)].playerstate = c.frames[Slot(v)].playerstate

LEMMA PredictMove ==
    ASSUME NEW c \in ClType
    PROVE  MovePredicted(c, CL_PredictMove(c))
  <1>. SUFFICES ASSUME NEW r, r = CL_PredictMove(c) PROVE MovePredicted(c, r)
    OBVIOUS
  <1>. USE DEF MovePredicted
  <1>. DEFINE v == c.validsequence
              ahead == v + 1 .. c.outgoing - 1
              In(s) == \E n \in ahead : Slot(n) = s
              New(s) == Replayed(c, CHOOSE n \in ahead : Slot(n) = s)
              fr == [s \in Slots |-> IF In(s) THEN [c.frames[s] EXCEPT !.playerstate = New(s)]
                                              ELSE c.frames[s]]
  <1>1. v \in Nat /\ c.outgoing \in Nat /\ c.frames \in [Slots -> FrameType]
        /\ UPDATE_BACKUP \in Nat
    BY RingAssumption DEF ClType
  <1>2. CASE ~Predicts(c)
    BY <1>2 DEF CL_PredictMove
  <1>3. CASE Predicts(c)
    <2>1. r = [c EXCEPT !.frames = fr]
      BY <1>3 DEF CL_PredictMove
    <2>2. \A s \in Slots : In(s) => New(s) \in Int
      <3>. SUFFICES ASSUME NEW s \in Slots, In(s) PROVE New(s) \in Int OBVIOUS
      <3>1. (CHOOSE n \in ahead : Slot(n) = s) \in ahead OBVIOUS
      <3>2. (CHOOSE n \in ahead : Slot(n) = s) \in Int BY <1>1, <3>1
      <3>. QED BY <3>2 DEF Replayed, Torn
    <2>3. \A s \in Slots : /\ fr[s] \in FrameType
                           /\ fr[s].cmd = c.frames[s].cmd
                           /\ fr[s].delta_sequence = c.frames[s].delta_sequence
                           /\ fr[s].entities = c.frames[s].entities
      <3>. SUFFICES ASSUME NEW s \in Slots
                    PROVE /\ fr[s] \in FrameType
                           /\ fr[s].cmd = c.frames[s].cmd
                           /\ fr[s].delta_sequence = c.frames[s].delta_sequence
                           /\ fr[s].entities = c.frames[s].entities
        OBVIOUS
      <3>1. c.frames[s] \in FrameType BY <1>1
      <3>2. In(s) => New(s) \in Int BY <2>2
      <3>. HIDE DEF In, New
      <3>. QED BY <3>1, <3>2 DEF FrameType
    <2>4. fr \in [Slots -> FrameType] BY <2>3
    <2>5. Slot(v) \in Slots BY <1>1, SlotType
    <2>6. ~In(Slot(v))
      <3>. SUFFICES ASSUME NEW n \in ahead PROVE Slot(n) # Slot(v) OBVIOUS
      <3>1. n \in Int /\ v < n /\ n - v < UPDATE_BACKUP
        BY <1>1, <1>3 DEF Predicts
      <3>. QED BY <1>1, <3>1, SlotsApart
    <2>7. fr[Slot(v)] = c.frames[Slot(v)] BY <2>5, <2>6
    <2>. HIDE DEF fr
    <2>8. r \in ClType /\ r.frames = fr BY <2>1, <2>4 DEF ClType
    <2>9. r.level = c.level /\ r.outgoing = c.outgoing /\ r.incoming = c.incoming
          /\ r.validsequence = c.validsequence /\ r.delta_sequence = c.delta_sequence
      BY <2>1 DEF ClType
    <2>. QED BY <2>3, <2>7, <2>8, <2>9
  <1>. QED BY <1>2, <1>3

Flushed(c, v, r) ==
    /\ r \in ClType
    /\ r.level = c.level /\ r.outgoing = c.outgoing /\ r.incoming = c.incoming
    /\ r.validsequence = v /\ r.delta_sequence = 0
    /\ \A s \in Slots :
          /\ r.frames[s].cmd = c.frames[s].cmd
          /\ r.frames[s].delta_sequence = c.frames[s].delta_sequence
          /\ r.frames[s].playerstate = c.frames[s].playerstate
          /\ r.frames[s].entities = c.frames[s].entities

EntitiesParsed(c, update, r) ==
    LET n == c.incoming
        oldpacket == c.frames[Slot(n)].delta_sequence
    IN
    /\ r \in ClType
    /\ r.level = c.level /\ r.outgoing = c.outgoing /\ r.incoming = n
    /\ \A s \in Slots :
          /\ r.frames[s].cmd = c.frames[s].cmd
          /\ r.frames[s].delta_sequence = c.frames[s].delta_sequence
          /\ r.frames[s].playerstate = c.frames[s].playerstate
    /\ \A s \in Slots \ {Slot(n)} : r.frames[s].entities = c.frames[s].entities
    /\ \/ /\ r.validsequence \in {0, c.validsequence}
          /\ r.delta_sequence = 0
          /\ r.frames[Slot(n)].entities = c.frames[Slot(n)].entities
       \/ /\ r.validsequence = n /\ r.delta_sequence = n
          /\ \/ /\ update.from = None
                /\ r.frames[Slot(n)].entities = update.entities
             \/ /\ update.from # None
                /\ c.outgoing - n < UPDATE_BACKUP - 1
                /\ r.frames[Slot(n)].entities =
                      IF c.frames[Slot(oldpacket)].entities = update.base
                      THEN update.entities ELSE Torn

LEMMA ParseEntities ==
    ASSUME NEW c \in ClType, NEW update \in UpdateType, update # NoUpdate
    PROVE  EntitiesParsed(c, update, CL_ParsePacketEntities(c, update))
  <1>. SUFFICES ASSUME NEW r, r = CL_ParsePacketEntities(c, update) PROVE EntitiesParsed(c, update, r)
    OBVIOUS
  <1>. USE DEF EntitiesParsed
  <1>. DEFINE n == c.incoming
              oldpacket == c.frames[Slot(n)].delta_sequence
  <1>1. n \in Nat /\ c.outgoing \in Nat /\ c.validsequence \in Nat
        /\ UPDATE_BACKUP \in Nat
    BY RingAssumption DEF ClType
  <1>2. Slot(n) \in Slots /\ c.frames \in [Slots -> FrameType] /\ c.frames[Slot(n)] \in FrameType
    BY <1>1, SlotType DEF ClType
  <1>3. ASSUME NEW e \in Int, NEW q, q = Shows(c, e)
        PROVE  /\ q \in ClType
               /\ q.level = c.level /\ q.outgoing = c.outgoing /\ q.incoming = n
               /\ q.validsequence = n /\ q.delta_sequence = n
               /\ q.frames[Slot(n)].entities = e
               /\ \A s \in Slots :
                     /\ q.frames[s].cmd = c.frames[s].cmd
                     /\ q.frames[s].delta_sequence = c.frames[s].delta_sequence
                     /\ q.frames[s].playerstate = c.frames[s].playerstate
               /\ \A s \in Slots \ {Slot(n)} : q.frames[s].entities = c.frames[s].entities
    <2>. DEFINE f == [c.frames[Slot(n)] EXCEPT !.entities = e, !.invalid = FALSE]
                fr == [c.frames EXCEPT ![Slot(n)] = f]
    <2>1. q = [c EXCEPT !.state = "active", !.validsequence = n,
                        !.delta_sequence = n, !.frames = fr]
      BY <1>3 DEF Shows, ClType
    <2>2. f \in FrameType /\ f.entities = e /\ f.cmd = c.frames[Slot(n)].cmd
          /\ f.delta_sequence = c.frames[Slot(n)].delta_sequence
          /\ f.playerstate = c.frames[Slot(n)].playerstate
      BY <1>2, <1>3 DEF FrameType
    <2>. HIDE DEF f
    <2>3. fr \in [Slots -> FrameType] /\ fr[Slot(n)] = f
          /\ \A s \in Slots \ {Slot(n)} : fr[s] = c.frames[s]
      BY <1>2, <2>2
    <2>. HIDE DEF fr
    <2>4. q \in ClType /\ q.frames = fr BY <1>1, <2>1, <2>3 DEF ClType
    <2>5. q.level = c.level /\ q.outgoing = c.outgoing /\ q.incoming = n
          /\ q.validsequence = n /\ q.delta_sequence = n
      BY <2>1 DEF ClType
    <2>6. \A s \in Slots : s = Slot(n) \/ s \in Slots \ {Slot(n)} OBVIOUS
    <2>. QED BY <2>2, <2>3, <2>4, <2>5, <2>6
  <1>4. ASSUME NEW q, NEW v \in {0, c.validsequence},
               q = [FlushEntityPacket(c) EXCEPT !.validsequence = v]
        PROVE  Flushed(c, v, q)
    <2>. USE DEF Flushed
    <2>. DEFINE f == [c.frames[Slot(n)] EXCEPT !.invalid = TRUE]
                fr == [c.frames EXCEPT ![Slot(n)] = f]
    <2>1. q = [c EXCEPT !.validsequence = v, !.delta_sequence = 0, !.frames = fr]
      BY <1>4 DEF FlushEntityPacket, ClType
    <2>2. f \in FrameType /\ f.entities = c.frames[Slot(n)].entities /\ f.cmd = c.frames[Slot(n)].cmd
          /\ f.delta_sequence = c.frames[Slot(n)].delta_sequence
          /\ f.playerstate = c.frames[Slot(n)].playerstate
      BY <1>2 DEF FrameType
    <2>. HIDE DEF f
    <2>3. fr \in [Slots -> FrameType] /\ fr[Slot(n)] = f
          /\ \A s \in Slots \ {Slot(n)} : fr[s] = c.frames[s]
      BY <1>2, <2>2
    <2>. HIDE DEF fr
    <2>0. v \in Nat BY <1>1, <1>4
    <2>4. q \in ClType /\ q.frames = fr BY <2>0, <2>1, <2>3 DEF ClType
    <2>5. q.level = c.level /\ q.outgoing = c.outgoing /\ q.incoming = n
          /\ q.validsequence = v /\ q.delta_sequence = 0
      BY <2>1 DEF ClType
    <2>6. \A s \in Slots : s = Slot(n) \/ s \in Slots \ {Slot(n)} OBVIOUS
    <2>. QED BY <2>2, <2>3, <2>4, <2>5, <2>6
  <1>5. FlushEntityPacket(c) = [FlushEntityPacket(c) EXCEPT !.validsequence = c.validsequence]
    BY DEF FlushEntityPacket, ClType
  <1>6. oldpacket \in Int /\ update.entities \in Int /\ Torn \in Int
    BY <1>2 DEF FrameType, UpdateType, Torn
  <1>7. CASE update.from = None
    <2>1. r = Shows(c, update.entities) BY <1>7 DEF CL_ParsePacketEntities
    <2>. QED BY <1>3, <1>6, <1>7, <2>1
  <1>8. CASE update.from # None /\
             (c.outgoing - n >= UPDATE_BACKUP - 1 \/ Slot(update.from) # Slot(oldpacket))
    <2>1. r = [FlushEntityPacket(c) EXCEPT !.validsequence = 0]
      BY <1>8 DEF CL_ParsePacketEntities
    <2>2. Flushed(c, 0, r) BY <1>4, <2>1
    <2>. QED BY <1>2, <2>2 DEF Flushed
  <1>9. CASE /\ update.from # None /\ ~(c.outgoing - n >= UPDATE_BACKUP - 1)
             /\ ~(Slot(update.from) # Slot(oldpacket))
             /\ c.outgoing - oldpacket >= UPDATE_BACKUP - 1
    <2>1. r = FlushEntityPacket(c)
      BY <1>9 DEF CL_ParsePacketEntities
    <2>2. r = [FlushEntityPacket(c) EXCEPT !.validsequence = c.validsequence]
      BY <1>5, <2>1
    <2>3. Flushed(c, c.validsequence, r) BY <1>4, <2>2
    <2>. QED BY <1>2, <2>3 DEF Flushed
  <1>10. CASE /\ update.from # None /\ ~(c.outgoing - n >= UPDATE_BACKUP - 1)
              /\ ~(Slot(update.from) # Slot(oldpacket))
              /\ ~(c.outgoing - oldpacket >= UPDATE_BACKUP - 1)
    <2>. DEFINE e == IF c.frames[Slot(oldpacket)].entities = update.base
                     THEN update.entities ELSE Torn
    <2>1. r = Shows(c, e)
      BY <1>10 DEF CL_ParsePacketEntities
    <2>2. e \in Int BY <1>6
    <2>3. c.outgoing - n < UPDATE_BACKUP - 1 BY <1>1, <1>10
    <2>. HIDE DEF e
    <2>4. /\ r \in ClType
          /\ r.level = c.level /\ r.outgoing = c.outgoing /\ r.incoming = n
          /\ r.validsequence = n /\ r.delta_sequence = n
          /\ r.frames[Slot(n)].entities = e
          /\ \A s \in Slots :
                /\ r.frames[s].cmd = c.frames[s].cmd
                /\ r.frames[s].delta_sequence = c.frames[s].delta_sequence
                /\ r.frames[s].playerstate = c.frames[s].playerstate
          /\ \A s \in Slots \ {Slot(n)} : r.frames[s].entities = c.frames[s].entities
      BY <1>3, <2>1, <2>2
    <2>. QED BY <1>10, <2>3, <2>4 DEF e
  <1>. QED BY <1>7, <1>8, <1>9, <1>10

MessageParsed(c, p, r) ==
    LET n == p.seq
        oldpacket == c.frames[Slot(n)].delta_sequence
    IN
    /\ r \in ClType
    /\ r.level = c.level /\ r.outgoing = c.outgoing /\ r.incoming = n
    /\ \A s \in Slots :
          /\ r.frames[s].cmd = c.frames[s].cmd
          /\ r.frames[s].delta_sequence = c.frames[s].delta_sequence
    /\ \A s \in Slots \ {Slot(n)} : r.frames[s].entities = c.frames[s].entities
    /\ \/ /\ p.update = NoUpdate
          /\ r.validsequence = c.validsequence
          /\ r.delta_sequence = c.delta_sequence
          /\ r.frames[Slot(n)].entities = c.frames[Slot(n)].entities
          /\ \A s \in Slots : r.frames[s].playerstate = c.frames[s].playerstate
       \/ /\ p.update # NoUpdate
          /\ r.frames[Slot(p.ack)].playerstate = p.player
          /\ \A s \in Slots \ {Slot(p.ack)} :
                r.frames[s].playerstate = c.frames[s].playerstate
          /\ \/ /\ r.validsequence \in {0, c.validsequence}
                /\ r.delta_sequence = 0
                /\ r.frames[Slot(n)].entities = c.frames[Slot(n)].entities
             \/ /\ r.validsequence = n /\ r.delta_sequence = n
                /\ \/ /\ p.update.from = None
                      /\ r.frames[Slot(n)].entities = p.update.entities
                   \/ /\ p.update.from # None
                      /\ c.outgoing - n < UPDATE_BACKUP - 1
                      /\ r.frames[Slot(n)].entities =
                            IF c.frames[Slot(oldpacket)].entities = p.update.base
                            THEN p.update.entities ELSE Torn

LEMMA ParseMessage ==
    ASSUME NEW c \in ClType, NEW p \in PacketType
    PROVE  MessageParsed(c, p, CL_ParseServerMessage(c, p))
  <1>. SUFFICES ASSUME NEW r, r = CL_ParseServerMessage(c, p) PROVE MessageParsed(c, p, r)
    OBVIOUS
  <1>. USE DEF MessageParsed
  <1>. DEFINE n == p.seq
              a == Slot(p.ack)
              taken == [c EXCEPT !.incoming = n]
              f == [c.frames[a] EXCEPT !.playerstate = p.player]
              fr == [c.frames EXCEPT ![a] = f]
              filed == [taken EXCEPT !.frames = fr]
  <1>1. n \in Nat /\ p.ack \in Nat /\ p.player \in Nat /\ p.update \in UpdateType
    BY DEF PacketType
  <1>2. a \in Slots /\ Slot(n) \in Slots /\ c.frames \in [Slots -> FrameType]
        /\ c.frames[a] \in FrameType /\ c.frames[Slot(n)] \in FrameType
    BY <1>1, SlotType DEF ClType
  <1>3. CASE p.update = NoUpdate
    <2>1. r = taken BY <1>3 DEF CL_ParseServerMessage
    <2>2. r \in ClType /\ r.frames = c.frames /\ r.level = c.level
          /\ r.outgoing = c.outgoing /\ r.incoming = n
          /\ r.validsequence = c.validsequence /\ r.delta_sequence = c.delta_sequence
      BY <1>1, <2>1 DEF ClType
    <2>. QED BY <1>3, <2>2
  <1>4. CASE p.update # NoUpdate
    <2>1. r = CL_ParsePacketEntities(filed, p.update)
      BY <1>2, <1>4 DEF CL_ParseServerMessage, ClType
    <2>2. f \in FrameType /\ f.playerstate = p.player /\ f.cmd = c.frames[a].cmd
          /\ f.delta_sequence = c.frames[a].delta_sequence
          /\ f.entities = c.frames[a].entities
      BY <1>1, <1>2 DEF FrameType
    <2>. HIDE DEF f
    <2>3. fr \in [Slots -> FrameType] /\ fr[a] = f
          /\ \A s \in Slots \ {a} : fr[s] = c.frames[s]
      BY <1>2, <2>2
    <2>. HIDE DEF fr
    <2>4. filed \in ClType /\ filed.frames = fr /\ filed.level = c.level
          /\ filed.outgoing = c.outgoing /\ filed.incoming = n
          /\ filed.validsequence = c.validsequence
      BY <1>1, <2>3 DEF ClType
    <2>5. \A s \in Slots : /\ fr[s].cmd = c.frames[s].cmd
                           /\ fr[s].delta_sequence = c.frames[s].delta_sequence
                           /\ fr[s].entities = c.frames[s].entities
      <3>1. \A s \in Slots : s = a \/ s \in Slots \ {a} OBVIOUS
      <3>. QED BY <2>2, <2>3, <3>1
    <2>6. \A s \in Slots \ {a} : fr[s].playerstate = c.frames[s].playerstate
      BY <2>3
    <2>7. Slot(c.frames[Slot(n)].delta_sequence) \in Slots
      BY <1>2, SlotType DEF FrameType
    <2>. HIDE DEF filed
    <2>. DEFINE g == filed.frames[Slot(n)].delta_sequence
    <2>0. EntitiesParsed(filed, p.update, r)
      BY <1>1, <1>4, <2>1, <2>4, ParseEntities
    <2>8. /\ r \in ClType
          /\ r.level = c.level /\ r.outgoing = c.outgoing /\ r.incoming = n
          /\ \A s \in Slots :
                /\ r.frames[s].cmd = fr[s].cmd
                /\ r.frames[s].delta_sequence = fr[s].delta_sequence
                /\ r.frames[s].playerstate = fr[s].playerstate
          /\ \A s \in Slots \ {Slot(n)} : r.frames[s].entities = fr[s].entities
          /\ \/ /\ r.validsequence \in {0, c.validsequence}
                /\ r.delta_sequence = 0
                /\ r.frames[Slot(n)].entities = fr[Slot(n)].entities
             \/ /\ r.validsequence = n /\ r.delta_sequence = n
                /\ \/ /\ p.update.from = None
                      /\ r.frames[Slot(n)].entities = p.update.entities
                   \/ /\ p.update.from # None
                      /\ c.outgoing - n < UPDATE_BACKUP - 1
                      /\ r.frames[Slot(n)].entities =
                            IF fr[Slot(g)].entities = p.update.base
                            THEN p.update.entities ELSE Torn
      BY <2>0, <2>4 DEF EntitiesParsed
    <2>9. g = c.frames[Slot(n)].delta_sequence BY <1>2, <2>4, <2>5
    <2>10. fr[Slot(g)].entities = c.frames[Slot(g)].entities BY <2>5, <2>7, <2>9
    <2>11. /\ \A s \in Slots :
                /\ r.frames[s].cmd = c.frames[s].cmd
                /\ r.frames[s].delta_sequence = c.frames[s].delta_sequence
           /\ \A s \in Slots \ {Slot(n)} : r.frames[s].entities = c.frames[s].entities
           /\ r.frames[a].playerstate = p.player
           /\ \A s \in Slots \ {a} : r.frames[s].playerstate = c.frames[s].playerstate
      <3>1. \A s \in Slots :
                /\ r.frames[s].cmd = c.frames[s].cmd
                /\ r.frames[s].delta_sequence = c.frames[s].delta_sequence
        BY <2>5, <2>8
      <3>2. \A s \in Slots \ {Slot(n)} :
                r.frames[s].entities = c.frames[s].entities
        BY <2>5, <2>8
      <3>3. r.frames[a].playerstate = p.player BY <1>2, <2>2, <2>3, <2>8
      <3>4. \A s \in Slots \ {a} :
                r.frames[s].playerstate = c.frames[s].playerstate
        BY <2>6, <2>8
      <3>. QED BY <3>1, <3>2, <3>3, <3>4
    <2>12. fr[Slot(n)].entities = c.frames[Slot(n)].entities BY <1>2, <2>5
    <2>. HIDE DEF g
    <2>. QED BY <1>4, <2>8, <2>9, <2>10, <2>11, <2>12
  <1>. QED BY <1>3, <1>4

LEMMA Concat ==
    ASSUME NEW S, NEW u \in Seq(S), NEW w \in Seq(S)
    PROVE  /\ u \o w \in Seq(S)
           /\ w # <<>> => u \o w # <<>> /\ (u \o w)[Len(u \o w)] = w[Len(w)]
  OBVIOUS

LEMMA MoveRuns ==
    ASSUME NEW S, NEW c, c.lastcmd \in S, NEW p, p.oldest \in S,
           p.oldcmd \in S, p.newcmd \in S, NEW dropped \in Int,
           NEW w, w = SV_ExecuteClientMove(c, p, dropped)
    PROVE  w \in Seq(S) /\ w # <<>> /\ w[Len(w)] = p.newcmd
  <1>. DEFINE a == IF dropped > 2 /\ dropped < DropLimit
                   THEN Repeat(c.lastcmd, dropped - 2) ELSE <<>>
              b == IF dropped > 1 THEN <<p.oldest>> ELSE <<>>
              d == IF dropped > 0 THEN <<p.oldcmd>> ELSE <<>>
              e == <<p.newcmd>>
  <1>1. a \in Seq(S)
    <2>1. CASE dropped > 2 /\ dropped < DropLimit
      <3>1. dropped - 2 \in Nat BY <2>1
      <3>. QED BY <2>1, <3>1 DEF Repeat
    <2>2. CASE ~(dropped > 2 /\ dropped < DropLimit)
      BY <2>2
    <2>. QED BY <2>1, <2>2
  <1>2. b \in Seq(S) /\ d \in Seq(S) /\ e \in Seq(S) /\ e # <<>>
        /\ e[Len(e)] = p.newcmd
    OBVIOUS
  <1>3. w = a \o b \o d \o e
    BY DEF SV_ExecuteClientMove
  <1>. HIDE DEF a, b, d, e
  <1>4. a \o b \in Seq(S) BY <1>1, <1>2, Concat
  <1>5. (a \o b) \o d \in Seq(S) BY <1>2, <1>4, Concat
  <1>. QED BY <1>2, <1>3, <1>5, Concat

-----------------------------------------------------------------------------
(* The inductive invariant. *)
InRing(n) == cl.outgoing - n < UPDATE_BACKUP - 1
Known(d) == d # 0 /\ client.frames[Slot(d)] >= d
CmdsFrom(n) ==
    \A m \in n .. cl.outgoing - 1 :
        cl.outgoing - m <= UPDATE_BACKUP => cl.frames[Slot(m)].cmd = m
Requested(n, from) ==
    from # None /\ InRing(n) =>
        LET d == cl.frames[Slot(n)].delta_sequence IN
        /\ d \in 1 .. cl.incoming
        /\ d < n /\ n - d < UPDATE_BACKUP - 1
        /\ from = d % BYTE
        /\ cl.frames[Slot(d)].entities = d
        /\ Known(d)
Based(p) ==
    p.update.from # None /\ InRing(p.seq) =>
        p.update.base = cl.frames[Slot(p.seq)].delta_sequence

Levels ==
    /\ cl.level <= client.level
    /\ \A p \in toClient : cl.level <= p.level /\ p.level <= client.level
    /\ \A p \in toServer : p.level <= cl.level
    /\ \A p, q \in toClient : p.seq < q.seq => p.level <= q.level
    /\ \A p, q \in toServer : p.seq < q.seq => p.level <= q.level
    /\ client.state = "spawned" =>
          client.level = cl.level /\ \A p \in toServer : p.level = cl.level
    /\ \A p \in toClient : p.update # NoUpdate => p.level = cl.level

Sequences ==
    /\ cl.incoming < client.outgoing
    /\ client.incoming < cl.outgoing
    /\ client.send_message => client.outgoing = client.incoming
    /\ \A p \in toClient : cl.incoming < p.seq /\ p.seq < client.outgoing
    /\ \A p \in toServer :
          client.incoming < p.seq /\ p.seq < cl.outgoing /\ p.newcmd = p.seq
    /\ \A p \in toClient : p.update # NoUpdate =>
          p.ack = p.seq /\ p.seq <= client.incoming

ServerRing ==
    \A s \in Slots : client.frames[s] # 0 =>
        Slot(client.frames[s]) = s /\ client.frames[s] <= client.incoming

ClientValid ==
    /\ cl.validsequence <= cl.incoming /\ cl.validsequence < cl.outgoing
    /\ cl.delta_sequence # 0 => cl.delta_sequence = cl.validsequence
    /\ cl.validsequence # 0 =>
        /\ Known(cl.validsequence)
        /\ cl.frames[Slot(cl.validsequence)].entities = cl.validsequence
        /\ CmdsFrom(cl.validsequence)
        /\ InRing(cl.validsequence) =>
              cl.frames[Slot(cl.validsequence)].playerstate = cl.validsequence

Requests ==
    /\ \A p \in toServer : p.level = cl.level =>
          Requested(p.seq, p.delta) /\ CmdsFrom(p.seq)
    /\ client.state = "spawned" =>
          /\ CmdsFrom(client.incoming)
          /\ ran # <<>> /\ ran[Len(ran)] = client.incoming
          /\ client.send_message =>
                Requested(client.incoming, client.delta_sequence)
    /\ \A p \in toClient : p.update # NoUpdate =>
          /\ Requested(p.seq, p.update.from)
          /\ Based(p)
          /\ CmdsFrom(p.seq)
          /\ Known(p.seq)
          /\ p.update.entities = p.seq /\ p.player = p.seq

IInv == Levels /\ Sequences /\ ServerRing /\ ClientValid /\ Requests

-----------------------------------------------------------------------------
(* One lemma per action. *)
LEMMA InitInv == Init => TypeInv /\ IInv
  <1>. SUFFICES ASSUME Init PROVE TypeInv /\ IInv OBVIOUS
  <1>1. NoFrame \in FrameType BY DEF NoFrame, FrameType
  <1>2. TypeInv
    BY <1>1 DEF Init, TypeInv, ClType, ServerSlot, None
  <1>3. cl.level = 1 /\ client.level = 1 /\ cl.incoming = 0 /\ cl.outgoing = 1
        /\ client.incoming = 0 /\ client.outgoing = 1 /\ ~client.send_message
        /\ cl.validsequence = 0 /\ cl.delta_sequence = 0
        /\ client.state = "connected" /\ toClient = {} /\ toServer = {}
        /\ \A s \in Slots : client.frames[s] = 0
    BY DEF Init
  <1>. QED
    BY <1>2, <1>3 DEF IInv, Levels, Sequences, ServerRing, ClientValid, Requests

\* What keeps a request true: the ring still has its frame and its base.
LEMMA RequestKept ==
    ASSUME TypeInv, TypeInv', NEW n \in Nat, NEW from \in Int, Requested(n, from),
           cl.outgoing <= cl'.outgoing, cl.incoming <= cl'.incoming,
           InRing(n)' => cl'.frames[Slot(n)].delta_sequence = cl.frames[Slot(n)].delta_sequence,
           \A d \in 1 .. cl.incoming : d < n /\ n - d < UPDATE_BACKUP - 1 =>
               cl'.frames[Slot(d)].entities = cl.frames[Slot(d)].entities,
           \A s \in Slots : client.frames[s] <= client'.frames[s]
    PROVE  Requested(n, from)'
  <1>. DEFINE d == cl.frames[Slot(n)].delta_sequence
  <1>. SUFFICES ASSUME from # None, InRing(n)'
                PROVE  /\ d \in 1 .. cl'.incoming
                       /\ d < n /\ n - d < UPDATE_BACKUP - 1
                       /\ from = d % BYTE
                       /\ cl'.frames[Slot(d)].entities = d
                       /\ d # 0 /\ client'.frames[Slot(d)] >= d
    BY DEF Requested, Known
  <1>1. /\ cl.outgoing \in Nat /\ cl'.outgoing \in Nat /\ UPDATE_BACKUP \in Nat
        /\ cl.incoming \in Nat /\ cl'.incoming \in Nat
    BY RingAssumption DEF TypeInv, ClType
  <1>2. InRing(n) BY <1>1 DEF InRing
  <1>3. /\ d \in 1 .. cl.incoming
        /\ d < n /\ n - d < UPDATE_BACKUP - 1
        /\ from = d % BYTE
        /\ cl.frames[Slot(d)].entities = d
        /\ d # 0 /\ client.frames[Slot(d)] >= d
    BY <1>2 DEF Requested, Known
  <1>4. Slot(d) \in Slots BY <1>1, <1>3, SlotType
  <1>5. client.frames[Slot(d)] \in Nat /\ client'.frames[Slot(d)] \in Nat
    BY <1>4 DEF TypeInv, ServerSlot
  <1>. HIDE DEF d
  <1>6. d \in Int /\ d <= cl'.incoming /\ client'.frames[Slot(d)] >= d
    BY <1>1, <1>3, <1>4, <1>5
  <1>. QED BY <1>1, <1>3, <1>6

LEMMA KnownKept ==
    ASSUME TypeInv, TypeInv', NEW d \in Nat, Known(d),
           \A s \in Slots : client.frames[s] <= client'.frames[s]
    PROVE  Known(d)'
  <1>1. Slot(d) \in Slots BY SlotType
  <1>2. client.frames[Slot(d)] \in Nat /\ client'.frames[Slot(d)] \in Nat
    BY <1>1 DEF TypeInv, ServerSlot
  <1>. QED BY <1>1, <1>2 DEF Known

LEMMA ClientFrameStep ==
    ASSUME TypeInv, IInv, NEW nodelta \in BOOLEAN, ClientFrame(nodelta)
    PROVE  TypeInv' /\ IInv'
  <1>. SUFFICES ASSUME NEW o, o = cl.outgoing,
                       NEW v, v = cl.validsequence,
                       NEW sent, sent = CL_SendCmd(cl, nodelta),
                       NEW mv, mv = Move(sent),
                       NEW asked, asked = sent.frames[Slot(o)].delta_sequence
                PROVE  TypeInv' /\ IInv'
    OBVIOUS
  <1>1. /\ cl \in ClType /\ o \in Nat \ {0} /\ v \in Nat /\ cl.incoming \in Nat
        /\ UPDATE_BACKUP \in Nat /\ UPDATE_BACKUP >= 4
        /\ client.incoming \in Nat /\ client.outgoing \in Nat
        /\ cl.level \in Nat /\ client.level \in Nat
    BY RingAssumption DEF TypeInv, ClType, ServerSlot
  <1>2. /\ cl' = CL_PredictMove(sent)
        /\ toServer' = toServer \cup {mv}
        /\ UNCHANGED <<client, toClient, received, ran>>
    BY DEF ClientFrame
  <1>3. CmdSent(cl, sent) /\ sent \in ClType
    <2>1. CmdSent(cl, sent) BY <1>1, SendCmd
    <2>. QED BY <2>1 DEF CmdSent
  <1>4. MovePredicted(sent, cl') BY <1>2, <1>3, PredictMove
  <1>5. /\ cl' \in ClType
        /\ cl'.level = cl.level /\ cl'.outgoing = o + 1
        /\ cl'.incoming = cl.incoming
        /\ \/ /\ o - v < UPDATE_BACKUP - 1
              /\ cl'.validsequence = v /\ cl'.delta_sequence = cl.delta_sequence
           \/ cl'.validsequence = 0 /\ cl'.delta_sequence = 0
        /\ cl'.frames[Slot(o)].cmd = o
        /\ cl'.frames[Slot(o)].delta_sequence = asked
        /\ \/ asked = None
           \/ /\ asked = cl.delta_sequence /\ cl.delta_sequence # 0
              /\ o - v < UPDATE_BACKUP - 1
        /\ \A s \in Slots : cl'.frames[s].entities = cl.frames[s].entities
        /\ \A s \in Slots \ {Slot(o)} :
              /\ cl'.frames[s].cmd = cl.frames[s].cmd
              /\ cl'.frames[s].delta_sequence = cl.frames[s].delta_sequence
        /\ cl'.validsequence = v =>
              cl'.frames[Slot(v)].playerstate = cl.frames[Slot(v)].playerstate
    <2>1. Slot(o) \in Slots /\ Slot(v) \in Slots BY <1>1, SlotType
    <2>. QED BY <1>3, <1>4, <2>1 DEF CmdSent, MovePredicted
  <1>6. /\ mv \in MoveType /\ mv.seq = o /\ mv.level = cl.level /\ mv.newcmd = o
        /\ mv.delta = IF asked = None THEN None ELSE asked % BYTE
    <2>1. sent.outgoing - 1 = o /\ sent.level = cl.level /\ sent.frames[Slot(o)].cmd = o
      BY <1>1, <1>3 DEF CmdSent
    <2>2. \A n \in Int : sent.frames[Slot(n)] \in FrameType
      BY <1>3, SlotType DEF ClType
    <2>3. o \in Int /\ o - 1 \in Int /\ o - 2 \in Int BY <1>1
    <2>4. /\ sent.frames[Slot(o)].cmd \in Nat /\ sent.frames[Slot(o - 1)].cmd \in Nat
          /\ sent.frames[Slot(o - 2)].cmd \in Nat /\ asked \in Int
      BY <2>2, <2>3 DEF FrameType
    <2>5. asked % BYTE \in Int
      <3>1. BYTE \in Nat /\ BYTE > 0 BY RingAssumption
      <3>. QED BY <2>4, <3>1, Division
    <2>6. mv = [seq |-> o, level |-> cl.level,
                oldest |-> sent.frames[Slot(o - 2)].cmd,
                oldcmd |-> sent.frames[Slot(o - 1)].cmd,
                newcmd |-> o,
                delta |-> IF asked = None THEN None ELSE asked % BYTE]
      BY <2>1 DEF Move
    <2>7. cl.level \in Nat BY <1>1 DEF ClType
    <2>8. (IF asked = None THEN None ELSE asked % BYTE) \in Int BY <2>5 DEF None
    <2>. QED BY <1>1, <2>4, <2>6, <2>7, <2>8 DEF MoveType
  <1>7. TypeInv'
    BY <1>2, <1>5, <1>6 DEF TypeInv
  <1>8. ASSUME NEW n \in Nat, n < o, NEW from \in Int, Requested(n, from)
        PROVE  Requested(n, from)'
    <2>1. InRing(n)' => Slot(n) \in Slots \ {Slot(o)}
      BY <1>1, <1>5, <1>8, SlotsApart, SlotType DEF InRing
    <2>2. \A s \in Slots : client.frames[s] <= client'.frames[s]
      <3>1. \A s \in Slots : client.frames[s] \in Nat BY DEF TypeInv, ServerSlot
      <3>. QED BY <1>2, <3>1
    <2>3. \A d \in 1 .. cl.incoming : Slot(d) \in Slots BY <1>1, SlotType
    <2>. QED BY <1>1, <1>5, <1>7, <1>8, <2>1, <2>2, <2>3, RequestKept
  <1>9. ASSUME NEW n \in Nat, CmdsFrom(n)
        PROVE  CmdsFrom(n)'
    <2>. SUFFICES ASSUME NEW m \in n .. cl'.outgoing - 1,
                         cl'.outgoing - m <= UPDATE_BACKUP
                  PROVE  cl'.frames[Slot(m)].cmd = m
      BY DEF CmdsFrom
    <2>1. CASE m = o BY <1>5, <2>1
    <2>2. CASE m # o
      <3>1. m \in n .. o - 1 /\ o - m <= UPDATE_BACKUP /\ o - m < UPDATE_BACKUP
        BY <1>1, <1>5, <2>2
      <3>2. Slot(m) \in Slots \ {Slot(o)} BY <1>1, <3>1, SlotsApart, SlotType
      <3>3. cl.frames[Slot(m)].cmd = m BY <1>9, <3>1 DEF CmdsFrom
      <3>. QED BY <1>5, <3>2, <3>3
    <2>. QED BY <2>1, <2>2
  <1>10. \A p \in toServer : p.seq \in Nat /\ p.delta \in Int /\ p.level \in Nat
    BY DEF TypeInv, MoveType
  <1>11. \A p \in toClient : p.seq \in Nat /\ p.level \in Nat /\ p.update.from \in Int
    BY DEF TypeInv, PacketType, UpdateType
  <1>12. Levels'
    BY <1>1, <1>2, <1>5, <1>6, <1>10, <1>11 DEF IInv, Levels, Sequences
  <1>13. Sequences'
    BY <1>1, <1>2, <1>5, <1>6, <1>10 DEF IInv, Sequences
  <1>14. ServerRing'
    BY <1>2 DEF IInv, ServerRing
  <1>15. ClientValid'
    <2>1. CASE cl'.validsequence = 0 /\ cl'.delta_sequence = 0
      BY <1>1, <1>5, <2>1 DEF ClientValid
    <2>2. CASE cl'.validsequence = v /\ cl'.delta_sequence = cl.delta_sequence
      <3>1. Slot(v) \in Slots BY <1>1, SlotType
      <3>2. v # 0 => /\ Known(v)'
                     /\ cl'.frames[Slot(v)].entities = v
                     /\ CmdsFrom(v)'
        BY <1>1, <1>2, <1>5, <1>9, <3>1 DEF IInv, ClientValid, Known
      <3>3. v # 0 /\ InRing(v)' => cl'.frames[Slot(v)].playerstate = v
        BY <1>1, <1>5, <2>2 DEF IInv, ClientValid, InRing
      <3>. QED BY <1>1, <1>5, <2>2, <3>2, <3>3 DEF IInv, ClientValid
    <2>. QED BY <1>5, <2>1, <2>2
  <1>16. Requested(o, mv.delta)'
    <2>. SUFFICES ASSUME mv.delta # None
                  PROVE  /\ asked \in 1 .. cl'.incoming
                         /\ asked < o /\ o - asked < UPDATE_BACKUP - 1
                         /\ mv.delta = asked % BYTE
                         /\ cl'.frames[Slot(asked)].entities = asked
                         /\ Known(asked)'
      BY <1>2, <1>5 DEF Requested
    <2>1. asked = v /\ v # 0 /\ o - v < UPDATE_BACKUP - 1
      BY <1>5, <1>6 DEF IInv, ClientValid
    <2>2. Slot(v) \in Slots BY <1>1, SlotType
    <2>3. asked # None BY <1>1, <2>1 DEF None
    <2>. QED BY <1>1, <1>2, <1>5, <1>6, <2>1, <2>2, <2>3 DEF IInv, ClientValid, Known
  <1>17. CmdsFrom(o)'
    <2>. SUFFICES ASSUME NEW m \in o .. cl'.outgoing - 1
                  PROVE  cl'.frames[Slot(m)].cmd = m
      BY DEF CmdsFrom
    <2>1. m = o BY <1>1, <1>5
    <2>. QED BY <1>5, <2>1
  <1>18. Requests'
    <2>1. \A p \in toServer : p.level = cl'.level =>
              Requested(p.seq, p.delta)' /\ CmdsFrom(p.seq)'
      BY <1>5, <1>8, <1>9, <1>10 DEF IInv, Requests, Sequences
    <2>2. client.state = "spawned" =>
            /\ CmdsFrom(client.incoming)'
            /\ ran # <<>> /\ ran[Len(ran)] = client.incoming
            /\ client.send_message =>
                  Requested(client.incoming, client.delta_sequence)'
      <3>1. client.delta_sequence \in Int BY DEF TypeInv, ServerSlot
      <3>. QED BY <1>1, <1>2, <1>8, <1>9, <3>1 DEF IInv, Requests, Sequences
    <2>3. \A p \in toClient : p.update # NoUpdate =>
            /\ Requested(p.seq, p.update.from)'
            /\ Based(p)'
            /\ CmdsFrom(p.seq)'
            /\ Known(p.seq)'
            /\ p.update.entities = p.seq /\ p.player = p.seq
      <3>. SUFFICES ASSUME NEW p \in toClient, p.update # NoUpdate
                    PROVE  /\ Requested(p.seq, p.update.from)'
                           /\ Based(p)'
                           /\ CmdsFrom(p.seq)'
                           /\ Known(p.seq)'
                           /\ p.update.entities = p.seq /\ p.player = p.seq
        OBVIOUS
      <3>1. p.seq < o BY <1>1, <1>11 DEF IInv, Sequences
      <3>2. InRing(p.seq)' => InRing(p.seq) /\ Slot(p.seq) \in Slots \ {Slot(o)}
        BY <1>1, <1>5, <1>11, <3>1, SlotsApart, SlotType DEF InRing
      <3>3. Based(p)' BY <1>5, <3>2 DEF IInv, Requests, Based
      <3>. QED BY <1>2, <1>8, <1>9, <1>11, <3>1, <3>3 DEF IInv, Requests, Known
    <2>. QED BY <1>2, <1>6, <1>16, <1>17, <2>1, <2>2, <2>3 DEF Requests
  <1>. QED BY <1>7, <1>12, <1>13, <1>14, <1>15, <1>18 DEF IInv

LEMMA ClientReadsStep ==
    ASSUME TypeInv, IInv, NEW q \in toClient, ClientReads(q)
    PROVE  TypeInv' /\ IInv'
  <1>. SUFFICES ASSUME NEW o, o = cl.outgoing,
                       NEW v, v = cl.validsequence,
                       NEW n, n = q.seq,
                       NEW old, old = cl.frames[Slot(n)].delta_sequence
                PROVE  TypeInv' /\ IInv'
    OBVIOUS
  <1>1. /\ cl \in ClType /\ o \in Nat \ {0} /\ v \in Nat /\ cl.incoming \in Nat
        /\ UPDATE_BACKUP \in Nat /\ UPDATE_BACKUP >= 4
        /\ client.incoming \in Nat /\ client.outgoing \in Nat
        /\ cl.level \in Nat /\ client.level \in Nat
        /\ q \in PacketType /\ n \in Nat \ {0} /\ q.ack \in Nat
    BY RingAssumption DEF TypeInv, ClType, ServerSlot, PacketType
  <1>2. /\ cl' = CL_ParseServerMessage(cl, q)
        /\ toClient' = {p \in toClient : p.seq > n}
        /\ UNCHANGED <<client, toServer, received, ran>>
    BY DEF ClientReads
  <1>3. MessageParsed(cl, q, cl') BY <1>1, <1>2, ParseMessage
  <1>4. Slot(n) \in Slots /\ Slot(v) \in Slots /\ Slot(q.ack) \in Slots
    BY <1>1, SlotType
  <1>5. /\ cl' \in ClType /\ cl'.level = cl.level /\ cl'.outgoing = o /\ cl'.incoming = n
        /\ \A s \in Slots : /\ cl'.frames[s].cmd = cl.frames[s].cmd
                            /\ cl'.frames[s].delta_sequence = cl.frames[s].delta_sequence
        /\ \A s \in Slots \ {Slot(n)} : cl'.frames[s].entities = cl.frames[s].entities
        /\ q.update = NoUpdate =>
              \A s \in Slots : cl'.frames[s].entities = cl.frames[s].entities
    BY <1>3, <1>4 DEF MessageParsed
  <1>6. TypeInv'
    BY <1>2, <1>5 DEF TypeInv
  <1>7. /\ cl.incoming < n /\ n < client.outgoing
        /\ q.update # NoUpdate => /\ q.ack = n /\ n <= client.incoming
                                  /\ q.update.entities = n /\ q.player = n
                                  /\ Requested(n, q.update.from) /\ Based(q)
                                  /\ CmdsFrom(n) /\ Known(n)
    BY DEF IInv, Sequences, Requests
  <1>8. ASSUME NEW m \in Nat, q.update # NoUpdate => n < m, NEW from \in Int,
               Requested(m, from)
        PROVE  Requested(m, from)'
    <2>1. \A d \in 1 .. cl.incoming : d < m /\ m - d < UPDATE_BACKUP - 1 =>
               cl'.frames[Slot(d)].entities = cl.frames[Slot(d)].entities
      <3>. SUFFICES ASSUME NEW d \in 1 .. cl.incoming, m - d < UPDATE_BACKUP - 1
                    PROVE cl'.frames[Slot(d)].entities = cl.frames[Slot(d)].entities
        OBVIOUS
      <3>1. d \in Int /\ Slot(d) \in Slots BY <1>1, SlotType
      <3>2. CASE q.update = NoUpdate BY <1>5, <3>1, <3>2
      <3>3. CASE q.update # NoUpdate
        <4>1. d < n /\ n - d < UPDATE_BACKUP BY <1>1, <1>7, <1>8, <3>1, <3>3
        <4>2. Slot(d) # Slot(n) BY <1>1, <3>1, <4>1, SlotsApart
        <4>. QED BY <1>5, <3>1, <4>2
      <3>. QED BY <3>2, <3>3
    <2>2. \A s \in Slots : client.frames[s] <= client'.frames[s]
      <3>1. \A s \in Slots : client.frames[s] \in Nat BY DEF TypeInv, ServerSlot
      <3>. QED BY <1>2, <3>1
    <2>3. cl'.frames[Slot(m)].delta_sequence = cl.frames[Slot(m)].delta_sequence
      BY <1>5, SlotType
    <2>4. cl.outgoing <= cl'.outgoing /\ cl.incoming <= cl'.incoming
      BY <1>1, <1>5, <1>7
    <2>. QED BY <1>6, <1>8, <2>1, <2>2, <2>3, <2>4, RequestKept
  <1>9. ASSUME NEW m \in Nat, CmdsFrom(m)
        PROVE  CmdsFrom(m)'
    <2>1. \A k \in Int : Slot(k) \in Slots BY SlotType
    <2>. QED BY <1>1, <1>5, <1>9, <2>1 DEF CmdsFrom
  <1>10. \A p \in toServer : p.seq \in Nat /\ p.delta \in Int /\ p.level \in Nat
    BY DEF TypeInv, MoveType
  <1>11. \A p \in toClient : p.seq \in Nat /\ p.level \in Nat /\ p.update.from \in Int
    BY DEF TypeInv, PacketType, UpdateType
  <1>12. Levels'
    BY <1>2, <1>5 DEF IInv, Levels
  <1>13. Sequences'
    BY <1>1, <1>2, <1>5, <1>7, <1>11 DEF IInv, Sequences
  <1>14. ServerRing'
    BY <1>2 DEF IInv, ServerRing
  <1>15. q.update # NoUpdate => n < o
    BY <1>1, <1>7 DEF IInv, Sequences
  <1>16. ClientValid'
    <2>1. CASE q.update = NoUpdate
      <3>1. /\ cl'.validsequence = v /\ cl'.delta_sequence = cl.delta_sequence
            /\ \A s \in Slots : cl'.frames[s].playerstate = cl.frames[s].playerstate
        BY <1>3, <2>1 DEF MessageParsed
      <3>2. v # 0 => /\ Known(v)' /\ CmdsFrom(v)'
                     /\ cl'.frames[Slot(v)].entities = v
                     /\ InRing(v)' => cl'.frames[Slot(v)].playerstate = v
        BY <1>1, <1>2, <1>4, <1>5, <1>9, <2>1, <3>1
           DEF IInv, ClientValid, Known, InRing
      <3>3. cl'.delta_sequence # 0 => cl'.delta_sequence = v
        BY <3>1 DEF IInv, ClientValid
      <3>4. v <= n /\ v < o
        BY <1>1, <1>7 DEF IInv, ClientValid
      <3>. QED BY <1>5, <3>1, <3>2, <3>3, <3>4 DEF ClientValid
    <2>2. CASE q.update # NoUpdate /\ cl'.delta_sequence = 0 /\ cl'.validsequence = 0
      BY <1>1, <1>5, <2>2 DEF ClientValid
    <2>3. CASE /\ q.update # NoUpdate
               /\ cl'.delta_sequence = 0 /\ cl'.validsequence = v
               /\ cl'.frames[Slot(n)].entities = cl.frames[Slot(n)].entities
      <3>1. v <= cl.incoming /\ v < o /\ v < n
        BY <1>1, <1>7 DEF IInv, ClientValid
      <3>2. \A s \in Slots \ {Slot(n)} : cl'.frames[s].playerstate = cl.frames[s].playerstate
        BY <1>3, <1>7, <2>3 DEF MessageParsed
      <3>0. n < o BY <1>15, <2>3
      <3>3. InRing(v)' => InRing(v) /\ Slot(v) # Slot(n)
        BY <1>1, <1>5, <3>0, <3>1, SlotsApart DEF InRing
      <3>4. cl'.frames[Slot(v)].entities = cl.frames[Slot(v)].entities
        BY <1>4, <1>5, <2>3
      <3>5. v # 0 => /\ Known(v)' /\ CmdsFrom(v)'
                     /\ cl'.frames[Slot(v)].entities = v
                     /\ InRing(v)' => cl'.frames[Slot(v)].playerstate = v
        BY <1>1, <1>2, <1>4, <1>9, <3>2, <3>3, <3>4 DEF IInv, ClientValid, Known
      <3>. QED BY <1>1, <1>5, <2>3, <3>1, <3>5 DEF ClientValid
    <2>4. CASE /\ q.update # NoUpdate
               /\ cl'.validsequence = n /\ cl'.delta_sequence = n
               /\ \/ cl'.frames[Slot(n)].entities = q.update.entities
                  \/ /\ q.update.from # None
                     /\ o - n < UPDATE_BACKUP - 1
                     /\ cl'.frames[Slot(n)].entities =
                           IF cl.frames[Slot(old)].entities = q.update.base
                           THEN q.update.entities ELSE Torn
      <3>1. cl'.frames[Slot(n)].entities = n
        <4>1. CASE cl'.frames[Slot(n)].entities = q.update.entities
          BY <1>7, <2>4, <4>1
        <4>2. CASE /\ q.update.from # None
                   /\ o - n < UPDATE_BACKUP - 1
                   /\ cl'.frames[Slot(n)].entities =
                           IF cl.frames[Slot(old)].entities = q.update.base
                           THEN q.update.entities ELSE Torn
          <5>1. InRing(n) BY <4>2 DEF InRing
          <5>2. cl.frames[Slot(old)].entities = old
            BY <1>7, <2>4, <4>2, <5>1 DEF Requested
          <5>3. q.update.base = old
            BY <1>7, <2>4, <4>2, <5>1 DEF Based
          <5>. QED BY <1>7, <2>4, <4>2, <5>2, <5>3
        <4>. QED BY <2>4, <4>1, <4>2
      <3>2. cl'.frames[Slot(n)].playerstate = n
        BY <1>3, <1>7, <2>4 DEF MessageParsed
      <3>3. Known(n)' /\ CmdsFrom(n)'
        BY <1>1, <1>2, <1>7, <1>9, <2>4 DEF Known
      <3>. QED BY <1>1, <1>5, <1>15, <2>4, <3>1, <3>2, <3>3 DEF ClientValid
    <2>5. \/ q.update = NoUpdate
          \/ q.update # NoUpdate /\ cl'.delta_sequence = 0 /\ cl'.validsequence = 0
          \/ /\ q.update # NoUpdate
             /\ cl'.delta_sequence = 0 /\ cl'.validsequence = v
             /\ cl'.frames[Slot(n)].entities = cl.frames[Slot(n)].entities
          \/ /\ q.update # NoUpdate
             /\ cl'.validsequence = n /\ cl'.delta_sequence = n
             /\ \/ cl'.frames[Slot(n)].entities = q.update.entities
                \/ /\ q.update.from # None
                   /\ o - n < UPDATE_BACKUP - 1
                   /\ cl'.frames[Slot(n)].entities =
                         IF cl.frames[Slot(old)].entities = q.update.base
                         THEN q.update.entities ELSE Torn
      BY <1>3 DEF MessageParsed
    <2>. QED BY <2>1, <2>2, <2>3, <2>4, <2>5
  <1>17. Requests'
    <2>1. \A p \in toServer : p.level = cl'.level =>
              Requested(p.seq, p.delta)' /\ CmdsFrom(p.seq)'
      <3>1. \A p \in toServer : q.update # NoUpdate => n < p.seq
        BY <1>1, <1>7, <1>10 DEF IInv, Sequences
      <3>. QED BY <1>5, <1>8, <1>9, <1>10, <3>1 DEF IInv, Requests
    <2>2. client.state = "spawned" =>
            /\ CmdsFrom(client.incoming)'
            /\ ran # <<>> /\ ran[Len(ran)] = client.incoming
            /\ client.send_message =>
                  Requested(client.incoming, client.delta_sequence)'
      <3>1. client.delta_sequence \in Int BY DEF TypeInv, ServerSlot
      <3>2. client.send_message => n < client.incoming
        BY <1>7 DEF IInv, Sequences
      <3>. QED BY <1>1, <1>2, <1>8, <1>9, <3>1, <3>2 DEF IInv, Requests
    <2>3. \A p \in toClient' : p.update # NoUpdate =>
            /\ Requested(p.seq, p.update.from)'
            /\ Based(p)'
            /\ CmdsFrom(p.seq)'
            /\ Known(p.seq)'
            /\ p.update.entities = p.seq /\ p.player = p.seq
      <3>. SUFFICES ASSUME NEW p \in toClient, p.seq > n, p.update # NoUpdate
                    PROVE  /\ Requested(p.seq, p.update.from)'
                           /\ Based(p)'
                           /\ CmdsFrom(p.seq)'
                           /\ Known(p.seq)'
                           /\ p.update.entities = p.seq /\ p.player = p.seq
        BY <1>2
      <3>1. Slot(p.seq) \in Slots BY <1>11, SlotType
      <3>2. InRing(p.seq)' => InRing(p.seq) BY <1>5 DEF InRing
      <3>3. Based(p)' BY <1>5, <3>1, <3>2 DEF IInv, Requests, Based
      <3>4. p.seq \in Nat /\ n < p.seq BY <1>1, <1>11
      <3>. QED BY <1>2, <1>8, <1>9, <1>11, <3>3, <3>4 DEF IInv, Requests, Known
    <2>. QED BY <1>2, <2>1, <2>2, <2>3 DEF Requests
  <1>. QED BY <1>6, <1>12, <1>13, <1>14, <1>16, <1>17 DEF IInv

LEMMA ClearState ==
    ASSUME NEW c \in ClType, NEW level \in Nat, NEW n \in Nat,
           NEW r, r = CL_ClearState([c EXCEPT !.incoming = n], level)
    PROVE  /\ r \in ClType /\ r.level = level /\ r.outgoing = c.outgoing
           /\ r.incoming = n /\ r.validsequence = 0 /\ r.delta_sequence = 0
  <1>1. NoFrame \in FrameType BY DEF NoFrame, FrameType
  <1>. DEFINE fr == [s \in Slots |-> NoFrame]
  <1>2. fr \in [Slots -> FrameType] BY <1>1
  <1>. HIDE DEF fr
  <1>3. r = [c EXCEPT !.incoming = n, !.state = "onserver", !.level = level,
                      !.validsequence = 0, !.delta_sequence = 0, !.frames = fr]
    BY DEF CL_ClearState, ClType, fr
  <1>4. r \in ClType
    <2>. DEFINE a == [c EXCEPT !.incoming = n, !.level = level, !.frames = fr]
    <2>1. a \in ClType BY <1>2 DEF ClType
    <2>2. r = [a EXCEPT !.state = "onserver", !.validsequence = 0,
                        !.delta_sequence = 0]
      BY <1>3 DEF ClType
    <2>. HIDE DEF a
    <2>3. "onserver" \in {"onserver", "active"} /\ 0 \in Nat OBVIOUS
    <2>. QED BY <2>1, <2>2, <2>3 DEF ClType
  <1>5. r.level = level /\ r.outgoing = c.outgoing /\ r.incoming = n
    BY <1>3 DEF ClType
  <1>6. r.validsequence = 0 /\ r.delta_sequence = 0
    BY <1>3 DEF ClType
  <1>. QED BY <1>4, <1>5, <1>6

\* The server is not in the game on a level that the client has not heard of:
\* nothing of the old level is of use any more.
LEMMA ClientHearsStep ==
    ASSUME TypeInv, IInv, NEW q \in toClient, ClientHears(q)
    PROVE  TypeInv' /\ IInv'
  <1>1. /\ cl \in ClType /\ cl.outgoing \in Nat \ {0} /\ cl.incoming \in Nat
        /\ client.incoming \in Nat /\ client.outgoing \in Nat
        /\ cl.level \in Nat /\ client.level \in Nat
        /\ q.level \in Nat /\ q.seq \in Nat
    BY DEF TypeInv, ClType, ServerSlot, PacketType
  <1>2. /\ q.level > cl.level
        /\ cl' = CL_ClearState([cl EXCEPT !.incoming = q.seq], q.level)
        /\ toClient' = {p \in toClient : p.seq > q.seq}
        /\ UNCHANGED <<client, toServer, received, ran>>
    BY DEF ClientHears
  <1>3. /\ cl' \in ClType /\ cl'.level = q.level /\ cl'.outgoing = cl.outgoing
        /\ cl'.incoming = q.seq /\ cl'.validsequence = 0
        /\ cl'.delta_sequence = 0
    BY <1>1, <1>2, ClearState
  <1>4. TypeInv'
    BY <1>2, <1>3 DEF TypeInv
  <1>5. /\ \A p \in toServer : p.seq \in Nat /\ p.level \in Nat
        /\ \A p \in toClient : p.seq \in Nat /\ p.level \in Nat
    BY DEF TypeInv, MoveType, PacketType
  <1>6. client.state # "spawned" /\ q.level <= client.level
    BY <1>1, <1>2 DEF IInv, Levels
  <1>7. \A p \in toServer : p.level < q.level
    BY <1>1, <1>2, <1>5 DEF IInv, Levels
  <1>8. \A p \in toClient' : q.level <= p.level /\ p.update = NoUpdate
    BY <1>1, <1>2, <1>5 DEF IInv, Levels
  <1>9. Levels'
    BY <1>1, <1>2, <1>3, <1>5, <1>6, <1>7, <1>8 DEF IInv, Levels
  <1>10. Sequences'
    BY <1>1, <1>2, <1>3, <1>5, <1>8 DEF IInv, Sequences
  <1>11. ServerRing'
    BY <1>2 DEF IInv, ServerRing
  <1>12. ClientValid'
    BY <1>1, <1>3 DEF ClientValid
  <1>13. Requests'
    BY <1>2, <1>3, <1>5, <1>6, <1>7, <1>8 DEF Requests
  <1>. QED BY <1>4, <1>9, <1>10, <1>11, <1>12, <1>13 DEF IInv

LEMMA ServerReadsStep ==
    ASSUME TypeInv, IInv, NEW q \in toServer, ServerReads(q)
    PROVE  TypeInv' /\ IInv'
  <1>1. PICK begins \in BOOLEAN :
            /\ begins => client.state = "connected" /\ q.level = client.level
            /\ SV_ExecuteClientMessage(q, begins)
    BY DEF ServerReads
  <1>. SUFFICES ASSUME NEW n, n = q.seq PROVE TypeInv' /\ IInv'
    OBVIOUS
  <1>reply. PICK replies : replies = (n >= client.outgoing)
    OBVIOUS
  <1>out. PICK out : out = IF replies THEN n ELSE client.outgoing
    OBVIOUS
  <1>spawn. PICK spawned \in BOOLEAN :
                spawned <=> begins \/ client.state = "spawned"
    OBVIOUS
  <1>st. PICK st : st = IF begins THEN "spawned" ELSE client.state
    OBVIOUS
  <1>lc. PICK lc : lc = IF spawned THEN q.newcmd ELSE client.lastcmd
    OBVIOUS
  <1>drop. PICK dropped : dropped = n - (client.incoming + 1)
    OBVIOUS
  <1>w. PICK w : w = SV_ExecuteClientMove(client, q, dropped)
    OBVIOUS
  <1>2. /\ cl \in ClType /\ client \in ServerSlot
        /\ client.incoming \in Nat /\ client.outgoing \in Nat \ {0}
        /\ cl.outgoing \in Nat /\ cl.incoming \in Nat
        /\ cl.level \in Nat /\ client.level \in Nat
        /\ client.state \in {"connected", "spawned"} /\ client.lastcmd \in Nat
        /\ q \in MoveType /\ n \in Nat \ {0} /\ q.delta \in Int
        /\ q.level \in Nat /\ q.newcmd \in Nat
        /\ ran \in Seq(Nat)
    BY DEF TypeInv, ClType, ServerSlot, MoveType
  <1>3. /\ cl' = cl /\ toClient' = toClient
        /\ toServer' = {p \in toServer : p.seq > n}
    BY DEF ServerReads
  <1>4. /\ client' = [client EXCEPT !.incoming = n, !.outgoing = out,
                          !.send_message = replies,
                          !.delta_sequence = q.delta,
                          !.state = st, !.lastcmd = lc]
        /\ ran' = (IF begins THEN <<>> ELSE ran) \o
                  (IF spawned THEN w ELSE <<>>)
    <2>1. client' = [client EXCEPT !.incoming = n, !.outgoing = out,
                         !.send_message = replies,
                         !.delta_sequence = q.delta,
                         !.state = st, !.lastcmd = lc]
      BY <1>1, <1>2, <1>reply, <1>out, <1>spawn, <1>st, <1>lc
         DEF SV_ExecuteClientMessage, DeltaRequested, ServerSlot
    <2>2. ran' = (IF begins THEN <<>> ELSE ran) \o
                 (IF spawned THEN w ELSE <<>>)
      BY <1>1, <1>2, <1>spawn, <1>drop, <1>w DEF SV_ExecuteClientMessage
    <2>. QED BY <2>1, <2>2
  <1>5. /\ out \in Nat \ {0} /\ st \in {"connected", "spawned"} /\ lc \in Nat
        /\ replies \in BOOLEAN /\ dropped \in Int
    BY <1>2, <1>reply, <1>out, <1>spawn, <1>st, <1>lc, <1>drop
  <1>6. /\ client' \in ServerSlot
        /\ client'.incoming = n /\ client'.outgoing = out
        /\ client'.send_message = replies /\ client'.delta_sequence = q.delta
        /\ client'.state = st /\ client'.level = client.level
        /\ client'.frames = client.frames
    <2>. DEFINE a == [client EXCEPT !.incoming = n, !.outgoing = out,
                                    !.delta_sequence = q.delta]
    <2>1. /\ a \in ServerSlot /\ a.incoming = n /\ a.outgoing = out
          /\ a.delta_sequence = q.delta /\ a.level = client.level
          /\ a.frames = client.frames
      BY <1>2, <1>5 DEF ServerSlot
    <2>2. client' = [a EXCEPT !.send_message = replies, !.state = st,
                              !.lastcmd = lc]
      BY <1>2, <1>4 DEF ServerSlot
    <2>. HIDE DEF a
    <2>3. client' \in ServerSlot
      BY <1>5, <2>1, <2>2 DEF ServerSlot
    <2>4. /\ client'.send_message = replies /\ client'.state = st
          /\ client'.incoming = a.incoming /\ client'.outgoing = a.outgoing
          /\ client'.delta_sequence = a.delta_sequence
          /\ client'.level = a.level /\ client'.frames = a.frames
      BY <2>1, <2>2 DEF ServerSlot
    <2>. QED BY <2>1, <2>3, <2>4
  <1>7. w \in Seq(Nat) /\ w # <<>> /\ w[Len(w)] = q.newcmd
    <2>1. PICK S : S = Nat OBVIOUS
    <2>2. /\ client.lastcmd \in S /\ q.oldest \in S
          /\ q.oldcmd \in S /\ q.newcmd \in S /\ dropped \in Int
      BY <1>2, <1>5, <2>1 DEF MoveType
    <2>3. w \in Seq(S) /\ w # <<>> /\ w[Len(w)] = q.newcmd
      BY <1>w, <2>2, MoveRuns
    <2>. QED BY <2>1, <2>3
  <1>8. /\ ran' \in Seq(Nat)
        /\ spawned => ran' # <<>> /\ ran'[Len(ran')] = q.newcmd
    <2>. DEFINE u == IF begins THEN <<>> ELSE ran
                x == IF spawned THEN w ELSE <<>>
    <2>1. u \in Seq(Nat) BY <1>2
    <2>2. x \in Seq(Nat) /\ (spawned => x # <<>> /\ x[Len(x)] = q.newcmd)
      BY <1>7
    <2>3. ran' = u \o x BY <1>4
    <2>. HIDE DEF u, x
    <2>. QED BY <2>1, <2>2, <2>3, Concat
  <1>9. TypeInv'
    BY <1>2, <1>3, <1>6, <1>8 DEF TypeInv
  <1>10. /\ \A p \in toServer : p.seq \in Nat /\ p.level \in Nat
         /\ \A p \in toClient : p.seq \in Nat /\ p.level \in Nat
    BY DEF TypeInv, MoveType, PacketType
  <1>11. /\ client.incoming < n /\ n < cl.outgoing /\ q.newcmd = n
         /\ client.outgoing <= out /\ (replies => out = n)
    <2>1. client.incoming < n /\ n < cl.outgoing /\ q.newcmd = n
      BY <1>2 DEF IInv, Sequences
    <2>2. CASE replies
      <3>1. n >= client.outgoing BY <1>reply, <2>2
      <3>2. out = n BY <1>out, <2>2
      <3>. QED BY <1>2, <2>1, <3>1, <3>2
    <2>3. CASE ~replies
      <3>1. out = client.outgoing BY <1>out, <2>3
      <3>. QED BY <1>2, <2>1, <2>3, <3>1
    <2>. QED BY <2>2, <2>3
  <1>12. spawned => /\ cl.level = client.level /\ q.level = cl.level
                    /\ \A p \in toServer : p.seq > n => p.level = cl.level
    <2>1. CASE client.state = "spawned"
      BY <2>1 DEF IInv, Levels
    <2>2. CASE begins
      <3>1. q.level = cl.level /\ cl.level = client.level
        BY <1>1, <1>2, <2>2 DEF IInv, Levels
      <3>. QED BY <1>2, <1>10, <3>1 DEF IInv, Levels
    <2>. QED BY <1>spawn, <2>1, <2>2
  <1>13. st = "spawned" => spawned
    BY <1>spawn, <1>st
  <1>14. Levels'
    <2>1. /\ cl.level <= client.level
          /\ \A p \in toClient : cl.level <= p.level /\ p.level <= client.level
          /\ \A p, r \in toClient : p.seq < r.seq => p.level <= r.level
          /\ \A p \in toClient : p.update # NoUpdate => p.level = cl.level
      BY DEF IInv, Levels
    <2>2. /\ \A p \in toServer' : p.level <= cl.level
          /\ \A p, r \in toServer' : p.seq < r.seq => p.level <= r.level
      BY <1>3 DEF IInv, Levels
    <2>3. st = "spawned" =>
              client.level = cl.level /\ \A p \in toServer' : p.level = cl.level
      BY <1>3, <1>12, <1>13
    <2>. QED BY <1>3, <1>6, <2>1, <2>2, <2>3 DEF Levels
  <1>15. Sequences'
    <2>1. /\ cl.incoming < out /\ n < cl.outgoing
          /\ replies => out = n
      BY <1>2, <1>5, <1>11 DEF IInv, Sequences
    <2>2. \A p \in toClient :
              /\ cl.incoming < p.seq /\ p.seq < out
              /\ p.update # NoUpdate => p.ack = p.seq /\ p.seq <= n
      BY <1>2, <1>5, <1>10, <1>11 DEF IInv, Sequences
    <2>3. \A p \in toServer' :
              n < p.seq /\ p.seq < cl.outgoing /\ p.newcmd = p.seq
      BY <1>2, <1>3, <1>10 DEF IInv, Sequences
    <2>. QED BY <1>3, <1>6, <2>1, <2>2, <2>3 DEF Sequences
  <1>16. ServerRing'
    <2>. SUFFICES ASSUME NEW s \in Slots, client.frames[s] # 0
                  PROVE  Slot(client.frames[s]) = s /\ client.frames[s] <= n
      BY <1>6 DEF ServerRing
    <2>1. client.frames[s] \in Nat BY <1>2 DEF ServerSlot
    <2>2. Slot(client.frames[s]) = s /\ client.frames[s] <= client.incoming
      BY DEF IInv, ServerRing
    <2>. QED BY <1>2, <1>11, <2>1, <2>2
  <1>17. ClientValid'
    BY <1>3, <1>6 DEF IInv, ClientValid, Known, CmdsFrom, InRing
  <1>18. ASSUME NEW m, NEW from, Requested(m, from)
         PROVE  Requested(m, from)'
    BY <1>3, <1>6, <1>18 DEF Requested, Known, InRing
  <1>19. ASSUME NEW m, CmdsFrom(m)
         PROVE  CmdsFrom(m)'
    BY <1>3, <1>19 DEF CmdsFrom
  <1>20. Requests'
    <2>1. \A p \in toServer' : p.level = cl'.level =>
              Requested(p.seq, p.delta)' /\ CmdsFrom(p.seq)'
      BY <1>3, <1>18, <1>19 DEF IInv, Requests
    <2>2. client'.state = "spawned" =>
              /\ CmdsFrom(n)'
              /\ ran' # <<>> /\ ran'[Len(ran')] = n
              /\ Requested(n, q.delta)'
      BY <1>6, <1>8, <1>11, <1>12, <1>13, <1>18, <1>19 DEF IInv, Requests
    <2>3. \A p \in toClient : p.update # NoUpdate =>
            /\ Requested(p.seq, p.update.from)'
            /\ Based(p)'
            /\ CmdsFrom(p.seq)'
            /\ Known(p.seq)'
            /\ p.update.entities = p.seq /\ p.player = p.seq
      <3>. SUFFICES ASSUME NEW p \in toClient, p.update # NoUpdate
                    PROVE  /\ Requested(p.seq, p.update.from)'
                           /\ Based(p)'
                           /\ CmdsFrom(p.seq)'
                           /\ Known(p.seq)'
                           /\ p.update.entities = p.seq /\ p.player = p.seq
        OBVIOUS
      <3>1. Based(p)' BY <1>3 DEF IInv, Requests, Based, InRing
      <3>2. Known(p.seq)' BY <1>6 DEF IInv, Requests, Known
      <3>. QED BY <1>18, <1>19, <3>1, <3>2 DEF IInv, Requests
    <2>. QED BY <1>3, <1>6, <2>1, <2>2, <2>3 DEF Requests
  <1>. QED BY <1>9, <1>14, <1>15, <1>16, <1>17, <1>20 DEF IInv

LEMMA PacketMade ==
    ASSUME NEW c \in ServerSlot, ran \in Seq(Nat), NEW update \in UpdateType,
           NEW p, p = Packet(c, update)
    PROVE  /\ p \in PacketType
           /\ p.seq = c.outgoing /\ p.ack = c.incoming /\ p.level = c.level
           /\ p.update = update
           /\ ran # <<>> => p.player = ran[Len(ran)]
  <1>. DEFINE player == IF ran = <<>> THEN 0 ELSE ran[Len(ran)]
  <1>1. p = [seq |-> c.outgoing, ack |-> c.incoming, level |-> c.level,
             player |-> player, update |-> update]
    BY DEF Packet
  <1>2. player \in Nat /\ (ran # <<>> => player = ran[Len(ran)])
    OBVIOUS
  <1>3. /\ c.outgoing \in Nat \ {0} /\ c.incoming \in Nat
        /\ c.level \in Nat
    BY DEF ServerSlot
  <1>. HIDE DEF player
  <1>. QED BY <1>1, <1>2, <1>3 DEF PacketType

\* The base of a delta is still in the server's ring: the frame in its slot
\* is at least as new, and no newer one has shared the slot.
LEMMA ServerAnswersStep ==
    ASSUME TypeInv, IInv, ServerAnswers
    PROVE  TypeInv' /\ IInv'
  <1>. DEFINE fill == IF client.state = "spawned"
                      THEN SV_WriteEntitiesToClient(client) ELSE client
  <1>1. PICK up \in {NoUpdate} \cup
                    (IF client.state = "spawned"
                     THEN {SV_EmitPacketEntities(fill)} ELSE {}) :
            toClient' = toClient \cup {Packet(client, up)}
    BY DEF ServerAnswers
  <1>. SUFFICES ASSUME NEW n, n = client.outgoing,
                       NEW from, from = client.delta_sequence,
                       NEW fr, fr = IF client.state = "spawned"
                                    THEN [client.frames EXCEPT ![Slot(n)] = n]
                                    ELSE client.frames,
                       NEW filled, filled = fill,
                       NEW asked,
                       asked = cl.frames[Slot(n)].delta_sequence,
                       NEW pk, pk = Packet(client, up)
                PROVE  TypeInv' /\ IInv'
    OBVIOUS
  <1>2. /\ cl \in ClType /\ client \in ServerSlot
        /\ n \in Nat \ {0} /\ client.incoming \in Nat
        /\ from \in Int /\ ran \in Seq(Nat)
        /\ client.frames \in [Slots -> Nat]
        /\ cl.outgoing \in Nat /\ cl.incoming \in Nat
        /\ cl.level \in Nat /\ client.level \in Nat
        /\ UPDATE_BACKUP \in Nat
    BY RingAssumption DEF TypeInv, ClType, ServerSlot
  <1>3. /\ client.send_message /\ client.incoming = n
        /\ client' = Sent(filled)
        /\ toClient' = toClient \cup {pk}
        /\ UNCHANGED <<cl, toServer, ran>>
    BY <1>1 DEF ServerAnswers, IInv, Sequences
  <1>4. /\ Slot(n) \in Slots /\ Slot(from) \in Slots
        /\ fr \in [Slots -> Nat]
        /\ client.state = "spawned" => fr[Slot(n)] = n
        /\ \A s \in Slots \ {Slot(n)} : fr[s] = client.frames[s]
    <2>0. n \in Int BY <1>2
    <2>1. n \in Int /\ Slot(n) \in Slots /\ Slot(from) \in Slots
      BY <1>2, <2>0, SlotType
    <2>2. CASE client.state = "spawned"
      <3>1. fr = [client.frames EXCEPT ![Slot(n)] = n] BY <2>2
      <3>. QED BY <1>2, <2>1, <3>1
    <2>3. CASE client.state # "spawned"
      <3>1. fr = client.frames BY <2>3
      <3>. QED BY <1>2, <2>1, <2>3, <3>1
    <2>. QED BY <2>2, <2>3
  <1>5. filled = [client EXCEPT !.frames = fr]
    BY <1>2, <1>3 DEF SV_WriteEntitiesToClient, ServerSlot
  <1>6. /\ client' \in ServerSlot
        /\ client'.outgoing = n + 1 /\ client'.send_message = FALSE
        /\ client'.state = client.state /\ client'.level = client.level
        /\ client'.incoming = n /\ client'.delta_sequence = from
        /\ client'.frames = fr
    <2>1. /\ filled \in ServerSlot /\ filled.outgoing = n
          /\ filled.state = client.state /\ filled.level = client.level
          /\ filled.incoming = n /\ filled.delta_sequence = from
          /\ filled.frames = fr
      BY <1>2, <1>3, <1>4, <1>5 DEF ServerSlot
    <2>2. n + 1 \in Nat \ {0} BY <1>2
    <2>3. client' = [filled EXCEPT !.outgoing = n + 1, !.send_message = FALSE]
      BY <1>3, <2>1 DEF Sent, ServerSlot
    <2>. QED BY <2>1, <2>2, <2>3 DEF ServerSlot
  <1>7. \A s \in Slots : client.frames[s] <= client'.frames[s]
    <2>. SUFFICES ASSUME NEW s \in Slots
                  PROVE  client.frames[s] <= fr[s]
      BY <1>6
    <2>1. client.frames[s] \in Nat BY <1>2
    <2>2. client.frames[s] <= n
      BY <1>2, <1>3, <2>1 DEF IInv, ServerRing
    <2>. QED BY <1>2, <1>4, <2>1, <2>2
  <1>8. \/ up = NoUpdate
        \/ /\ client.state = "spawned"
           /\ up = [from |-> from,
                    base |-> IF from = None THEN 0 ELSE fr[Slot(from)],
                    entities |-> n]
    <2>1. filled.delta_sequence = from /\ filled.frames = fr
          /\ filled.incoming = n
      BY <1>2, <1>3, <1>4, <1>5 DEF ServerSlot
    <2>. QED BY <1>1, <1>4, <2>1 DEF SV_EmitPacketEntities
  <1>9. up \in UpdateType
    BY <1>2, <1>4, <1>8 DEF NoUpdate, UpdateType, None
  <1>10. /\ pk \in PacketType
         /\ pk.seq = n /\ pk.ack = n /\ pk.level = client.level
         /\ pk.update = up
         /\ ran # <<>> => pk.player = ran[Len(ran)]
    BY <1>2, <1>3, <1>9, PacketMade
  <1>11. TypeInv'
    BY <1>2, <1>3, <1>6, <1>10 DEF TypeInv
  <1>12. /\ \A p \in toServer : p.seq \in Nat /\ p.level \in Nat
                                /\ p.delta \in Int
         /\ \A p \in toClient : p.seq \in Nat /\ p.level \in Nat
                                /\ p.update.from \in Int
    BY DEF TypeInv, MoveType, PacketType, UpdateType
  <1>13. \A p \in toClient : p.seq < n /\ p.level <= client.level
    BY DEF IInv, Sequences, Levels
  <1>14. up # NoUpdate => client.state = "spawned" /\ client.level = cl.level
    BY <1>8 DEF IInv, Levels
  <1>15. Levels'
    BY <1>2, <1>3, <1>6, <1>10, <1>12, <1>13, <1>14 DEF IInv, Levels
  <1>16. Sequences'
    BY <1>2, <1>3, <1>6, <1>10, <1>12, <1>13 DEF IInv, Sequences
  <1>17. ServerRing'
    <2>. SUFFICES ASSUME NEW s \in Slots, fr[s] # 0
                  PROVE  Slot(fr[s]) = s /\ fr[s] <= n
      BY <1>6 DEF ServerRing
    <2>1. CASE client.state = "spawned" /\ s = Slot(n)
      BY <1>2, <1>4, <2>1
    <2>2. CASE ~(client.state = "spawned" /\ s = Slot(n))
      <3>1. fr[s] = client.frames[s] BY <1>4, <2>2
      <3>. QED BY <1>3, <3>1 DEF IInv, ServerRing
    <2>. QED BY <2>1, <2>2
  <1>18. ASSUME NEW m \in Nat, NEW f \in Int, Requested(m, f)
         PROVE  Requested(m, f)'
    <2>1. cl.outgoing <= cl'.outgoing /\ cl.incoming <= cl'.incoming
      BY <1>2, <1>3
    <2>. QED BY <1>3, <1>7, <1>11, <1>18, <2>1, RequestKept
  <1>19. ASSUME NEW m \in Nat, Known(m)
         PROVE  Known(m)'
    BY <1>7, <1>11, <1>19, KnownKept
  <1>20. ASSUME NEW m, CmdsFrom(m)
         PROVE  CmdsFrom(m)'
    BY <1>3, <1>20 DEF CmdsFrom
  <1>21. ClientValid'
    <2>1. cl.validsequence \in Nat BY <1>2 DEF ClType
    <2>2. cl.validsequence # 0 => Known(cl.validsequence)'
      BY <1>3, <1>19, <2>1 DEF IInv, ClientValid, Known
    <2>3. cl.validsequence # 0 => CmdsFrom(cl.validsequence)'
      BY <1>3, <1>20, <2>1 DEF IInv, ClientValid, CmdsFrom
    <2>. QED BY <1>3, <2>2, <2>3 DEF IInv, ClientValid, InRing
  <1>22. ASSUME up # NoUpdate
         PROVE  /\ Requested(n, from)' /\ CmdsFrom(n)' /\ Known(n)'
                /\ up.entities = n /\ pk.player = n
                /\ up.from = from /\ Based(pk)'
    <2>1. client.state = "spawned" BY <1>14, <1>22
    <2>2. up = [from |-> from,
                base |-> IF from = None THEN 0 ELSE fr[Slot(from)],
                entities |-> n]
      BY <1>8, <1>22
    <2>3. /\ Requested(n, from) /\ CmdsFrom(n)
          /\ ran # <<>> /\ ran[Len(ran)] = n
      BY <1>3, <2>1 DEF IInv, Requests
    <2>4. Known(n)' BY <1>2, <1>4, <1>6, <2>1 DEF Known
    <2>5. ASSUME from # None, InRing(n)
          PROVE  fr[Slot(from)] = asked
      <3>1. /\ asked \in 1 .. cl.incoming
            /\ asked < n /\ n - asked < UPDATE_BACKUP - 1
            /\ client.frames[Slot(asked)] >= asked
        BY <2>3, <2>5 DEF Requested, Known
      <3>10. from = asked % BYTE
        BY <2>3, <2>5 DEF Requested
      <3>0. asked \in Int BY <1>2, <3>1
      <3>2. asked \in Int /\ Slot(asked) \in Slots BY <3>0, SlotType
      <3>3. Slot(from) = Slot(asked) BY <3>2, <3>10, SlotOfByte
      <3>4. Slot(asked) # Slot(n)
        <4>. PICK U : U = UPDATE_BACKUP OBVIOUS
        <4>1. U \in Nat /\ n \in Nat BY <1>2, RingAssumption
        <4>2. asked < n /\ n - asked < U - 1 BY <3>1
        <4>3. n - asked < U BY <3>0, <4>1, <4>2
        <4>. QED BY <3>0, <4>1, <4>2, <4>3, SlotsApart
      <3>5. fr[Slot(from)] = client.frames[Slot(asked)]
        BY <1>4, <3>2, <3>3, <3>4
      <3>. DEFINE e == client.frames[Slot(asked)]
      <3>6. e \in Nat /\ e >= asked /\ e # 0 BY <1>2, <3>1, <3>2
      <3>7. Slot(e) = Slot(asked) /\ e <= n
        BY <1>3, <3>2, <3>6 DEF IInv, ServerRing
      <3>. HIDE DEF e
      <3>8. CASE e > asked
        <4>1. e - asked < UPDATE_BACKUP
          BY <1>2, <3>1, <3>0, <3>6, <3>7
        <4>2. Slot(asked) # Slot(e) BY <3>2, <3>6, <3>8, <4>1, SlotsApart
        <4>. QED BY <3>7, <4>2
      <3>9. CASE e = asked BY <3>5, <3>9 DEF e
      <3>. QED BY <3>2, <3>6, <3>8, <3>9
    <2>6. Based(pk)'
      BY <1>3, <1>10, <2>2, <2>5 DEF Based, InRing, None
    <2>. QED BY <1>2, <1>10, <1>18, <1>20, <2>2, <2>3, <2>4, <2>6
  <1>23. Requests'
    <2>1. \A p \in toServer : p.level = cl'.level =>
              Requested(p.seq, p.delta)' /\ CmdsFrom(p.seq)'
      BY <1>3, <1>12, <1>18, <1>20 DEF IInv, Requests
    <2>2. client.state = "spawned" =>
              /\ CmdsFrom(n)'
              /\ ran # <<>> /\ ran[Len(ran)] = n
      BY <1>3, <1>20 DEF IInv, Requests
    <2>3. \A p \in toClient : p.update # NoUpdate =>
            /\ Requested(p.seq, p.update.from)'
            /\ Based(p)'
            /\ CmdsFrom(p.seq)'
            /\ Known(p.seq)'
            /\ p.update.entities = p.seq /\ p.player = p.seq
      <3>. SUFFICES ASSUME NEW p \in toClient, p.update # NoUpdate
                    PROVE  /\ Requested(p.seq, p.update.from)'
                           /\ Based(p)'
                           /\ CmdsFrom(p.seq)'
                           /\ Known(p.seq)'
                           /\ p.update.entities = p.seq /\ p.player = p.seq
        OBVIOUS
      <3>1. Based(p)' BY <1>3 DEF IInv, Requests, Based, InRing
      <3>. QED BY <1>12, <1>18, <1>19, <1>20, <3>1 DEF IInv, Requests
    <2>. QED BY <1>3, <1>6, <1>10, <1>22, <2>1, <2>2, <2>3 DEF Requests
  <1>. QED BY <1>11, <1>15, <1>16, <1>17, <1>21, <1>23 DEF IInv

LEMMA ServerChokesStep ==
    ASSUME TypeInv, IInv, ServerChokes
    PROVE  TypeInv' /\ IInv'
  <1>1. client \in ServerSlot BY DEF TypeInv
  <1>2. /\ client' = [client EXCEPT !.send_message = FALSE]
        /\ UNCHANGED <<cl, toServer, toClient, ran>>
    BY DEF ServerChokes
  <1>3. /\ client' \in ServerSlot /\ client'.send_message = FALSE
        /\ client'.state = client.state /\ client'.level = client.level
        /\ client'.incoming = client.incoming
        /\ client'.outgoing = client.outgoing
        /\ client'.frames = client.frames
    BY <1>1, <1>2 DEF ServerSlot
  <1>4. TypeInv' BY <1>2, <1>3 DEF TypeInv
  <1>5. Levels' BY <1>2, <1>3 DEF IInv, Levels
  <1>6. Sequences' BY <1>2, <1>3 DEF IInv, Sequences
  <1>7. ServerRing' BY <1>2, <1>3 DEF IInv, ServerRing
  <1>8. ClientValid'
    BY <1>2, <1>3 DEF IInv, ClientValid, Known, CmdsFrom, InRing
  <1>9. Requests'
    <2>1. /\ \A n, from : Requested(n, from) => Requested(n, from)'
          /\ \A n : CmdsFrom(n) => CmdsFrom(n)'
          /\ \A n : Known(n) => Known(n)'
          /\ \A p : Based(p) => Based(p)'
      BY <1>2, <1>3 DEF Requested, Based, Known, CmdsFrom, InRing
    <2>. QED BY <1>2, <1>3, <2>1 DEF IInv, Requests
  <1>. QED BY <1>4, <1>5, <1>6, <1>7, <1>8, <1>9 DEF IInv

LEMMA LevelChangeStep ==
    ASSUME TypeInv, IInv, LevelChange
    PROVE  TypeInv' /\ IInv'
  <1>1. /\ client \in ServerSlot /\ cl \in ClType /\ ran \in Seq(Nat)
        /\ client.outgoing \in Nat \ {0} /\ client.incoming \in Nat
        /\ client.level \in Nat /\ cl.level \in Nat /\ cl.incoming \in Nat
    BY DEF TypeInv, ClType, ServerSlot
  <1>l. PICK l \in Nat : l = client.level + 1
    BY <1>1
  <1>moved. PICK moved : moved = [client EXCEPT !.state = "connected",
                                            !.level = @ + 1]
    OBVIOUS
  <1>pk. PICK pk : pk = Packet(moved, NoUpdate)
    OBVIOUS
  <1>2. /\ moved \in ServerSlot /\ moved.state = "connected"
        /\ moved.level = l
        /\ moved.incoming = client.incoming
        /\ moved.outgoing = client.outgoing
        /\ moved.send_message = client.send_message
        /\ moved.frames = client.frames
    <2>2. moved = [client EXCEPT !.state = "connected", !.level = l]
      BY <1>1, <1>l, <1>moved DEF ServerSlot
    <2>3. "connected" \in {"connected", "spawned"} OBVIOUS
    <2>. QED BY <1>1, <2>2, <2>3 DEF ServerSlot
  <1>3. /\ UNCHANGED <<cl, toServer, ran>>
        /\ \/ client' = moved /\ toClient' = toClient
           \/ client' = Sent(moved) /\ toClient' = toClient \cup {pk}
    BY <1>moved, <1>pk DEF LevelChange
  <1>4. /\ client' \in ServerSlot /\ client'.state = "connected"
        /\ client'.level = l
        /\ client'.incoming = client.incoming
        /\ client'.frames = client.frames
        /\ \/ /\ client'.outgoing = client.outgoing
              /\ client'.send_message = client.send_message
              /\ toClient' = toClient
           \/ /\ client'.outgoing = client.outgoing + 1
              /\ client'.send_message = FALSE
              /\ toClient' = toClient \cup {pk}
    <2>1. CASE client' = moved /\ toClient' = toClient
      BY <1>2, <2>1
    <2>2. CASE client' = Sent(moved) /\ toClient' = toClient \cup {pk}
      <3>. DEFINE o == client.outgoing + 1
      <3>1. o \in Nat \ {0} BY <1>1
      <3>2. client' = [moved EXCEPT !.outgoing = o, !.send_message = FALSE]
        BY <1>2, <2>2 DEF Sent, ServerSlot
      <3>. HIDE DEF o
      <3>3. /\ client' \in ServerSlot /\ client'.outgoing = o
            /\ client'.send_message = FALSE
            /\ client'.state = moved.state /\ client'.level = moved.level
            /\ client'.incoming = moved.incoming
            /\ client'.frames = moved.frames
        BY <1>2, <3>1, <3>2 DEF ServerSlot
      <3>. QED BY <1>2, <2>2, <3>3 DEF o
    <2>. QED BY <1>3, <2>1, <2>2
  <1>5. /\ pk \in PacketType /\ pk.seq = client.outgoing
        /\ pk.level = l /\ pk.update = NoUpdate
    <2>1. NoUpdate \in UpdateType BY DEF NoUpdate, UpdateType, None
    <2>. QED BY <1>1, <1>2, <1>pk, <2>1, PacketMade
  <1>6. TypeInv' BY <1>3, <1>4, <1>5 DEF TypeInv
  <1>7. \A p \in toClient : p.seq \in Nat /\ p.level \in Nat
    BY DEF TypeInv, PacketType
  <1>8. \A p \in toClient : p.seq < client.outgoing /\ p.level <= client.level
    BY DEF IInv, Sequences, Levels
  <1>9. Levels'
    <2>1. \A p \in toClient' :
              p \in toClient \/ (p = pk /\ client'.outgoing > client.outgoing)
      BY <1>1, <1>4
    <2>2. cl.level <= l /\ \A p \in toClient : p.level <= l
      BY <1>1, <1>l, <1>7, <1>8 DEF IInv, Levels
    <2>3. \A p \in toClient' :
              /\ cl.level <= p.level /\ p.level <= l
              /\ p.update # NoUpdate => p.level = cl.level
      BY <1>1, <1>5, <2>1, <2>2 DEF IInv, Levels
    <2>4. \A p, q \in toClient' : p.seq < q.seq => p.level <= q.level
      <3>. SUFFICES ASSUME NEW p \in toClient', NEW q \in toClient',
                           p.seq < q.seq
                    PROVE  p.level <= q.level
        OBVIOUS
      <3>1. CASE p \in toClient /\ q \in toClient
        BY <3>1 DEF IInv, Levels
      <3>2. CASE q = pk BY <1>5, <2>3, <3>2
      <3>3. CASE p = pk /\ q \in toClient
        BY <1>1, <1>l, <1>5, <1>7, <1>8, <3>3
      <3>. QED BY <2>1, <3>1, <3>2, <3>3
    <2>. QED BY <1>3, <1>4, <2>2, <2>3, <2>4 DEF IInv, Levels
  <1>10. Sequences'
    BY <1>1, <1>3, <1>4, <1>5, <1>7, <1>8 DEF IInv, Sequences
  <1>11. ServerRing' BY <1>4 DEF IInv, ServerRing
  <1>12. ClientValid'
    BY <1>3, <1>4 DEF IInv, ClientValid, Known, CmdsFrom, InRing
  <1>13. Requests'
    <2>1. /\ \A n, from : Requested(n, from) => Requested(n, from)'
          /\ \A n : CmdsFrom(n) => CmdsFrom(n)'
          /\ \A n : Known(n) => Known(n)'
          /\ \A p : Based(p) => Based(p)'
      BY <1>3, <1>4 DEF Requested, Based, Known, CmdsFrom, InRing
    <2>. QED BY <1>3, <1>4, <1>5, <2>1 DEF IInv, Requests
  <1>. QED BY <1>6, <1>9, <1>10, <1>11, <1>12, <1>13 DEF IInv

-----------------------------------------------------------------------------
\* The inductive invariant: what is asked for in packets under way is in both
\* rings, and every packet with entities is of the level the client is on.
THEOREM Inductive == Spec => [](TypeInv /\ IInv)
  <1>1. TypeInv /\ IInv /\ [Next]_vars => (TypeInv /\ IInv)'
    <2>. SUFFICES ASSUME TypeInv, IInv, [Next]_vars
                  PROVE  TypeInv' /\ IInv'
      OBVIOUS
    <2>1. ASSUME NEW nodelta \in Nodelta, ClientFrame(nodelta)
          PROVE  TypeInv' /\ IInv'
      BY <2>1, ClientFrameStep, RingAssumption
    <2>2. ASSUME NEW p \in toClient, ClientReads(p)
          PROVE  TypeInv' /\ IInv'
      BY <2>2, ClientReadsStep
    <2>3. ASSUME NEW p \in toClient, ClientHears(p)
          PROVE  TypeInv' /\ IInv'
      BY <2>3, ClientHearsStep
    <2>4. ASSUME NEW p \in toServer, ServerReads(p)
          PROVE  TypeInv' /\ IInv'
      BY <2>4, ServerReadsStep
    <2>5. CASE ServerAnswers BY <2>5, ServerAnswersStep
    <2>6. CASE ServerChokes BY <2>6, ServerChokesStep
    <2>7. CASE LevelChange BY <2>7, LevelChangeStep
    <2>8. CASE UNCHANGED vars
      <3>1. TypeInv' BY <2>8 DEF vars, TypeInv
      <3>2. Levels' /\ Sequences' /\ ServerRing'
        BY <2>8 DEF vars, IInv, Levels, Sequences, ServerRing
      <3>3. ClientValid'
        BY <2>8 DEF vars, IInv, ClientValid, Known, CmdsFrom, InRing
      <3>4. Requests'
        <4>1. /\ \A n, from : Requested(n, from) => Requested(n, from)'
              /\ \A n : CmdsFrom(n) => CmdsFrom(n)'
              /\ \A n : Known(n) => Known(n)'
              /\ \A p : Based(p) => Based(p)'
          BY <2>8 DEF vars, Requested, Based, Known, CmdsFrom, InRing
        <4>. QED BY <2>8, <4>1 DEF vars, IInv, Requests
      <3>. QED BY <3>1, <3>2, <3>3, <3>4 DEF IInv
    <2>. QED BY <2>1, <2>2, <2>3, <2>4, <2>5, <2>6, <2>7, <2>8 DEF Next
  <1>. QED BY <1>1, InitInv, PTL DEF Spec

\* Whatever is lost or overtaken, the client shows the server's entities: no
\* delta is put on another list than it was made from (cl_ents.c 637-701,
\* sv_ents.c SV_EmitPacketEntities).
THEOREM DeltasMeetTheirBase == Spec => []Shown
  <1>1. IInv => Shown BY DEF IInv, ClientValid, Shown
  <1>. QED BY <1>1, Inductive, PTL

\* "from mismatch" (cl_ents.c 661) is never seen for a recent packet.
THEOREM AnswersAsAsked == Spec => []AsAsked
  <1>1. TypeInv /\ IInv => AsAsked
    <2>. SUFFICES ASSUME TypeInv, IInv, NEW p \in toClient,
                         p.update.from # None,
                         cl.outgoing - p.seq < UPDATE_BACKUP - 1
                  PROVE  Slot(cl.frames[Slot(p.seq)].delta_sequence)
                             = Slot(p.update.from)
      BY DEF AsAsked
    <2>. DEFINE d == cl.frames[Slot(p.seq)].delta_sequence
    <2>1. p.update # NoUpdate BY DEF NoUpdate
    <2>2. Requested(p.seq, p.update.from) BY <2>1 DEF IInv, Requests
    <2>3. d \in 1 .. cl.incoming /\ p.update.from = d % BYTE
      BY <2>2 DEF Requested, InRing
    <2>4. d \in Int BY <2>3 DEF TypeInv, ClType
    <2>. HIDE DEF d
    <2>5. Slot(d % BYTE) = Slot(d) BY <2>4, SlotOfByte
    <2>. QED BY <2>3, <2>5 DEF d
  <1>. QED BY <1>1, Inductive, PTL

\* The client's prediction starts from a state that has every command the
\* server ran up to that frame, and replays exactly those after it
\* (cl_pred.c CL_PredictMove).
THEOREM PredictionGoesOn == Spec => []Predicted
  <1>1. TypeInv /\ IInv => Predicted
    <2>. SUFFICES ASSUME TypeInv, IInv, Predicts(cl)
                  PROVE  Replayed(cl, cl.outgoing - 1) = cl.outgoing - 1
      BY DEF Predicted
    <2>. DEFINE v == cl.validsequence
    <2>1. v \in Nat /\ cl.outgoing \in Nat /\ UPDATE_BACKUP \in Nat
      BY RingAssumption DEF TypeInv, ClType
    <2>2. v # 0 /\ cl.outgoing - v < UPDATE_BACKUP - 1 BY DEF Predicts
    <2>3. cl.frames[Slot(v)].playerstate = v
      BY <2>2 DEF IInv, ClientValid, InRing
    <2>4. CmdsFrom(v) BY <2>2 DEF IInv, ClientValid
    <2>5. \A m \in v + 1 .. cl.outgoing - 1 : cl.frames[Slot(m)].cmd = m
      BY <2>1, <2>2, <2>4 DEF CmdsFrom
    <2>. QED BY <2>3, <2>5 DEF Replayed
  <1>. QED BY <1>1, Inductive, PTL
-----------------------------------------------------------------------------
(* The bounds of TypeOK.  Most follow from the invariant: the numbers of a   *)
(* client's packets are below its next one, those of the server's below its  *)
(* next one, and entities only answer a packet of the client.                *)
Within(f) ==
    /\ f.cmd \in Sequence /\ f.delta_sequence \in None..MaxSequence
    /\ f.entities \in Torn..MaxSequence
    /\ f.playerstate \in Torn..MaxSequence
MoveWithin(p) ==
    /\ p.level >= 1 /\ p.oldest \in Sequence /\ p.oldcmd \in Sequence
    /\ p.delta \in None..BYTE - 1
PacketWithin(p) ==
    p.ack \in Sequence /\ p.player \in Sequence /\ p.update \in Update

ClientWithin ==
    /\ cl.level >= 1 /\ cl.outgoing <= MaxSequence + 1
    /\ \A s \in Slots : Within(cl.frames[s])
ServerWithin ==
    /\ client.level \in 1..MaxLevel
    /\ client.outgoing <= MaxSequence + client.level
    /\ client.delta_sequence \in None..BYTE - 1
    /\ client.lastcmd \in Sequence
RunWithin == ran \in Seq(Sequence) /\ received \subseteq 1..MaxSequence
PacketsWithin ==
    /\ \A p \in toServer : MoveWithin(p)
    /\ \A p \in toClient : PacketWithin(p)
Bounds == ClientWithin /\ ServerWithin /\ RunWithin /\ PacketsWithin

\* What TLC evaluates as TypeOK.
LEMMA BoundsSuffice ==
    ASSUME TypeInv, IInv, Bounds
    PROVE  TypeOK
  <1>1. /\ cl \in ClType /\ client \in ServerSlot /\ MaxSequence \in Nat
        /\ MaxLevel \in Nat \ {0} /\ BYTE \in Nat
        /\ cl.outgoing \in Nat \ {0} /\ cl.incoming \in Nat /\ cl.level \in Nat
        /\ cl.validsequence \in Nat /\ cl.delta_sequence \in Nat
        /\ client.outgoing \in Nat \ {0} /\ client.incoming \in Nat
        /\ client.level \in Nat
    BY RingAssumption DEF TypeInv, ClType, ServerSlot
  <1>2. /\ cl.outgoing \in 1..MaxSequence + 1 /\ client.level \in 1..MaxLevel
        /\ client.outgoing \in 1..MaxSequence + MaxLevel
    BY <1>1 DEF Bounds, ClientWithin, ServerWithin
  <1>3. /\ cl.level \in 1..MaxLevel
        /\ cl.incoming \in 0..MaxSequence + MaxLevel - 1
        /\ client.incoming \in Sequence /\ cl.validsequence \in Sequence
        /\ cl.delta_sequence \in Sequence
    <2>1. cl.level <= client.level /\ cl.level >= 1
      BY DEF IInv, Levels, Bounds, ClientWithin
    <2>2. cl.incoming < client.outgoing /\ client.incoming < cl.outgoing
      BY DEF IInv, Sequences
    <2>3. /\ cl.validsequence < cl.outgoing
          /\ cl.delta_sequence = 0 \/ cl.delta_sequence = cl.validsequence
      BY DEF IInv, ClientValid
    <2>4. cl.level \in 1..MaxLevel
      BY <1>1, <1>2, <2>1
    <2>5. cl.incoming \in 0..MaxSequence + MaxLevel - 1
      BY <1>1, <1>2, <2>2
    <2>6. client.incoming \in Sequence
      BY <1>1, <1>2, <2>2 DEF Sequence
    <2>7. cl.validsequence \in Sequence /\ 0 \in Sequence
      BY <1>1, <1>2, <2>3 DEF Sequence
    <2> QED BY <2>3, <2>4, <2>5, <2>6, <2>7
  <1>4. cl \in Client
    <2>1. ASSUME NEW s \in Slots PROVE cl.frames[s] \in Frame
      <3>1. cl.frames[s] \in FrameType BY <1>1 DEF ClType
      <3>2. Within(cl.frames[s]) BY DEF Bounds, ClientWithin
      <3> QED BY <3>1, <3>2 DEF FrameType, Within, Frame
    <2>2. cl.frames \in [Slots -> Frame] BY <1>1, <2>1 DEF ClType
    <2> QED BY <1>1, <1>2, <1>3, <2>2 DEF ClType, Client
  <1>5. client \in [state : {"connected", "spawned"}, level : 1..MaxLevel,
                   outgoing : 1..MaxSequence + MaxLevel, incoming : Sequence,
                   delta_sequence : None..BYTE - 1, send_message : BOOLEAN,
                   lastcmd : Sequence, frames : [Slots -> Sequence]]
    <2>1. ASSUME NEW s \in Slots PROVE client.frames[s] \in Sequence
      <3>1. client.frames[s] \in Nat BY <1>1 DEF ServerSlot
      <3>2. client.frames[s] = 0 \/ client.frames[s] <= client.incoming
        BY DEF IInv, ServerRing
      <3> QED BY <1>1, <1>3, <3>1, <3>2 DEF Sequence
    <2>2. client.frames \in [Slots -> Sequence]
      BY <1>1, <2>1 DEF ServerSlot
    <2>3. /\ client.delta_sequence \in None..BYTE - 1
          /\ client.lastcmd \in Sequence
      BY DEF Bounds, ServerWithin
    <2> QED BY <1>1, <1>2, <1>3, <2>2, <2>3 DEF ServerSlot
  <1>6. toServer \subseteq
            [seq : 1..MaxSequence, level : 1..MaxLevel,
             oldest : Sequence, oldcmd : Sequence,
             newcmd : 1..MaxSequence, delta : None..BYTE - 1]
    <2> SUFFICES ASSUME NEW p \in toServer
                 PROVE  p \in [seq : 1..MaxSequence, level : 1..MaxLevel,
                               oldest : Sequence, oldcmd : Sequence,
                               newcmd : 1..MaxSequence, delta : None..BYTE - 1]
      OBVIOUS
    <2>1. p \in MoveType /\ p.seq \in Nat \ {0} /\ p.level \in Nat
      BY DEF TypeInv, MoveType
    <2>2. p.seq < cl.outgoing /\ p.newcmd = p.seq /\ p.level <= cl.level
      BY DEF IInv, Sequences, Levels
    <2>3. MoveWithin(p) BY DEF Bounds, PacketsWithin
    <2>4. p.seq \in 1..MaxSequence BY <1>1, <1>2, <2>1, <2>2
    <2>5. p.level \in 1..MaxLevel
      BY <1>1, <1>3, <2>1, <2>2, <2>3 DEF MoveWithin
    <2> QED BY <2>1, <2>2, <2>3, <2>4, <2>5 DEF MoveType, MoveWithin
  <1>7. toClient \subseteq
            [seq : 1..MaxSequence + MaxLevel - 1, ack : Sequence,
             level : 1..MaxLevel, player : Sequence, update : Update]
    <2> SUFFICES ASSUME NEW p \in toClient
                 PROVE  p \in [seq : 1..MaxSequence + MaxLevel - 1,
                               ack : Sequence, level : 1..MaxLevel,
                               player : Sequence, update : Update]
      OBVIOUS
    <2>1. p \in PacketType /\ p.seq \in Nat \ {0} /\ p.level \in Nat
      BY DEF TypeInv, PacketType
    <2>2. /\ p.seq < client.outgoing
          /\ cl.level <= p.level /\ p.level <= client.level
      BY DEF IInv, Sequences, Levels
    <2>3. PacketWithin(p) BY DEF Bounds, PacketsWithin
    <2>4. p.seq \in 1..MaxSequence + MaxLevel - 1
      BY <1>1, <1>2, <2>1, <2>2
    <2>5. p.level \in 1..MaxLevel BY <1>1, <1>2, <1>3, <2>1, <2>2
    <2> QED BY <2>1, <2>3, <2>4, <2>5 DEF PacketType, PacketWithin
  <1> QED BY <1>4, <1>5, <1>6, <1>7 DEF TypeOK, Bounds, RunWithin

LEMMA InitBounds == Init => Bounds
  <1> SUFFICES ASSUME Init PROVE Bounds OBVIOUS
  <1>0. MaxSequence \in Nat /\ MaxLevel \in Nat \ {0} /\ BYTE \in Nat /\ BYTE >= 4
    BY RingAssumption
  <1>1. Within(NoFrame)
    BY <1>0 DEF Within, NoFrame, Sequence, None, Torn
  <1>2. ClientWithin
    BY <1>0, <1>1 DEF Init, ClientWithin
  <1>3. ServerWithin
    BY <1>0 DEF Init, ServerWithin, Sequence, None
  <1>4. RunWithin /\ PacketsWithin
    BY DEF Init, RunWithin, PacketsWithin
  <1> QED BY <1>2, <1>3, <1>4 DEF Bounds

\* A predicted state is the number of a command already sent, or none.
LEMMA StatePredicted ==
    ASSUME NEW c \in ClType, NEW s \in Slots, c.outgoing <= MaxSequence + 1,
           c.frames[s].playerstate \in Torn..MaxSequence,
           NEW r, r = CL_PredictMove(c)
    PROVE  r.frames[s].playerstate \in Torn..MaxSequence
  <1>. DEFINE v == c.validsequence
              ahead == v + 1 .. c.outgoing - 1
              In == \E n \in ahead : Slot(n) = s
              new == Replayed(c, CHOOSE n \in ahead : Slot(n) = s)
  <1>1. /\ v \in Nat /\ c.outgoing \in Nat /\ MaxSequence \in Nat
        /\ c.frames[s] \in FrameType
    BY RingAssumption DEF ClType
  <1>2. CASE ~Predicts(c)
    BY <1>2 DEF CL_PredictMove
  <1>3. CASE Predicts(c)
    <2>1. r.frames[s] = IF In THEN [c.frames[s] EXCEPT !.playerstate = new]
                              ELSE c.frames[s]
      BY <1>3 DEF CL_PredictMove, ClType
    <2>2. In => new \in Torn..MaxSequence
      <3>. SUFFICES ASSUME In PROVE new \in Torn..MaxSequence
        OBVIOUS
      <3>. PICK n : n = (CHOOSE m \in ahead : Slot(m) = s) OBVIOUS
      <3>1. n \in ahead OBVIOUS
      <3>2. n \in Torn..MaxSequence /\ Torn \in Torn..MaxSequence
        BY <1>1, <3>1 DEF Torn
      <3>3. new = n \/ new = Torn BY DEF Replayed
      <3>. QED BY <3>2, <3>3
    <2>. HIDE DEF In, new
    <2>3. In => r.frames[s].playerstate = new
      BY <1>1, <2>1 DEF FrameType
    <2>4. ~In => r.frames[s] = c.frames[s]
      BY <2>1
    <2>. QED BY <2>2, <2>3, <2>4
  <1>. QED BY <1>2, <1>3

\* A frame of the client: the command is the number of its packet, and a delta
\* is asked for by the number of the frame that is shown.
LEMMA ClientFrameBounds ==
    ASSUME TypeInv, IInv, Bounds, NEW nodelta \in BOOLEAN, ClientFrame(nodelta)
    PROVE  Bounds'
  <1>. PICK o : o = cl.outgoing OBVIOUS
  <1>. PICK sent : sent = CL_SendCmd(cl, nodelta) OBVIOUS
  <1>1. /\ cl \in ClType /\ o \in Nat \ {0} /\ MaxSequence \in Nat
        /\ BYTE \in Nat /\ BYTE > 0
        /\ cl.delta_sequence \in Nat /\ cl.validsequence \in Nat
        /\ \A s \in Slots : cl.frames[s] \in FrameType
    BY RingAssumption DEF TypeInv, ClType
  <1>2. /\ o <= MaxSequence
        /\ cl' = CL_PredictMove(sent)
        /\ toServer' = toServer \cup {Move(sent)}
        /\ UNCHANGED <<client, toClient, received, ran>>
    BY DEF ClientFrame
  <1>3. CmdSent(cl, sent) /\ sent \in ClType
    <2>1. CmdSent(cl, sent) BY <1>1, SendCmd
    <2>. QED BY <2>1 DEF CmdSent
  <1>4. MovePredicted(sent, cl') BY <1>2, <1>3, PredictMove
  <1>5. sent.outgoing = o + 1 /\ sent.level = cl.level /\ Slot(o) \in Slots
    BY <1>1, <1>3, SlotType DEF CmdSent
  <1>6. ASSUME NEW s \in Slots PROVE Within(sent.frames[s])
    <2>1. Within(cl.frames[s]) BY DEF Bounds, ClientWithin
    <2>2. /\ sent.frames[s].entities = cl.frames[s].entities
          /\ sent.frames[s].playerstate = cl.frames[s].playerstate
      BY <1>3 DEF CmdSent
    <2>3. CASE s # Slot(o)
      <3>1. /\ sent.frames[s].cmd = cl.frames[s].cmd
            /\ sent.frames[s].delta_sequence = cl.frames[s].delta_sequence
        BY <1>3, <2>3 DEF CmdSent
      <3>. QED BY <2>1, <2>2, <3>1 DEF Within
    <2>4. CASE s = Slot(o)
      <3>1. /\ sent.frames[s].cmd = o
            /\ \/ sent.frames[s].delta_sequence = None
               \/ sent.frames[s].delta_sequence = cl.delta_sequence
        BY <1>3, <2>4 DEF CmdSent
      <3>2. cl.delta_sequence = 0 \/ cl.delta_sequence < o
        BY DEF IInv, ClientValid
      <3>3. cl.delta_sequence \in None..MaxSequence /\ None \in None..MaxSequence
        BY <1>1, <1>2, <3>2 DEF None
      <3>4. o \in Sequence BY <1>1, <1>2 DEF Sequence
      <3>. QED BY <2>1, <2>2, <3>1, <3>3, <3>4 DEF Within
    <2>. QED BY <2>3, <2>4
  <1>7. ASSUME NEW s \in Slots PROVE Within(cl'.frames[s])
    <2>1. /\ cl'.frames[s].cmd = sent.frames[s].cmd
          /\ cl'.frames[s].delta_sequence = sent.frames[s].delta_sequence
          /\ cl'.frames[s].entities = sent.frames[s].entities
      BY <1>4 DEF MovePredicted
    <2>2. Within(sent.frames[s]) BY <1>6
    <2>3. cl'.frames[s].playerstate \in Torn..MaxSequence
      BY <1>1, <1>2, <1>3, <1>5, <2>2, StatePredicted DEF Within
    <2>. QED BY <2>1, <2>2, <2>3 DEF Within
  <1>8. ClientWithin'
    <2>1. cl'.level = cl.level /\ cl'.outgoing = o + 1
      BY <1>4, <1>5 DEF MovePredicted
    <2>. QED BY <1>1, <1>2, <1>7, <2>1 DEF Bounds, ClientWithin
  <1>9. MoveWithin(Move(sent))
    <2>. DEFINE asked == sent.frames[Slot(o)].delta_sequence
    <2>1. \A n \in Int : sent.frames[Slot(n)].cmd \in Sequence
      BY <1>6, SlotType DEF Within
    <2>2. o \in Int /\ o - 1 \in Int /\ o - 2 \in Int BY <1>1
    <2>3. sent.outgoing - 1 = o BY <1>1, <1>5
    <2>4. (IF asked = None THEN None ELSE asked % BYTE) \in None..BYTE - 1
      <3>1. asked \in Int BY <1>1, <1>5, <1>6 DEF Within, None
      <3>2. asked % BYTE \in 0..BYTE - 1 BY <1>1, <3>1, Division
      <3>. QED BY <1>1, <3>2 DEF None
    <2>5. cl.level >= 1 BY DEF Bounds, ClientWithin
    <2>6. /\ Move(sent).level = cl.level
          /\ Move(sent).oldest = sent.frames[Slot(o - 2)].cmd
          /\ Move(sent).oldcmd = sent.frames[Slot(o - 1)].cmd
          /\ Move(sent).delta = IF asked = None THEN None ELSE asked % BYTE
      BY <1>5, <2>3 DEF Move
    <2>. QED BY <2>1, <2>2, <2>4, <2>5, <2>6 DEF MoveWithin
  <1>10. ServerWithin' /\ RunWithin'
    BY <1>2 DEF Bounds, ServerWithin, RunWithin
  <1>11. PacketsWithin'
    BY <1>2, <1>9 DEF Bounds, PacketsWithin
  <1>. QED BY <1>8, <1>10, <1>11 DEF Bounds

\* A packet of the server: the state and the entities are of a command of the
\* client, or Torn.
LEMMA ClientReadsBounds ==
    ASSUME TypeInv, IInv, Bounds, NEW p \in toClient, ClientReads(p)
    PROVE  Bounds'
  <1>1. /\ cl \in ClType /\ p \in PacketType /\ MaxSequence \in Nat
        /\ \A s \in Slots : cl.frames[s] \in FrameType
    BY RingAssumption DEF TypeInv, ClType
  <1>2. /\ cl' = CL_ParseServerMessage(cl, p)
        /\ toClient' \subseteq toClient
        /\ UNCHANGED <<client, toServer, received, ran>>
    BY DEF ClientReads
  <1>3. MessageParsed(cl, p, cl') BY <1>1, <1>2, ParseMessage
  <1>4. ASSUME NEW s \in Slots PROVE Within(cl'.frames[s])
    <2>1. Within(cl.frames[s]) BY DEF Bounds, ClientWithin
    <2>2. p.player \in Sequence /\ p.update \in Update
      BY DEF Bounds, PacketsWithin, PacketWithin
    <2>3. /\ cl'.frames[s].cmd = cl.frames[s].cmd
          /\ cl'.frames[s].delta_sequence = cl.frames[s].delta_sequence
      BY <1>3 DEF MessageParsed
    <2>4. \/ cl'.frames[s].playerstate = cl.frames[s].playerstate
          \/ cl'.frames[s].playerstate = p.player
      BY <1>3 DEF MessageParsed
    <2>5. cl'.frames[s].entities \in
              {cl.frames[s].entities, p.update.entities, Torn}
      BY <1>3 DEF MessageParsed
    <2>6. /\ p.player \in Torn..MaxSequence /\ Torn \in Torn..MaxSequence
          /\ p.update.entities \in Torn..MaxSequence
      <3>1. p.player \in 0..MaxSequence BY <2>2 DEF Sequence
      <3>2. p.update.entities \in None..MaxSequence BY <2>2 DEF Update
      <3>. QED BY <1>1, <3>1, <3>2 DEF None, Torn
    <2>. QED BY <2>1, <2>3, <2>4, <2>5, <2>6 DEF Within
  <1>5. ClientWithin'
    <2>1. cl'.level = cl.level /\ cl'.outgoing = cl.outgoing
      BY <1>3 DEF MessageParsed
    <2>. QED BY <1>4, <2>1 DEF Bounds, ClientWithin
  <1>6. ServerWithin' /\ RunWithin' /\ PacketsWithin'
    BY <1>2 DEF Bounds, ServerWithin, RunWithin, PacketsWithin
  <1>. QED BY <1>5, <1>6 DEF Bounds

LEMMA ClientHearsBounds ==
    ASSUME TypeInv, IInv, Bounds, NEW p \in toClient, ClientHears(p)
    PROVE  Bounds'
  <1>1. /\ cl \in ClType /\ p \in PacketType /\ MaxSequence \in Nat
        /\ cl.level \in Nat /\ p.level \in Nat /\ p.seq \in Nat
    BY RingAssumption DEF TypeInv, ClType, PacketType
  <1>2. /\ p.level > cl.level
        /\ cl' = CL_ClearState([cl EXCEPT !.incoming = p.seq], p.level)
        /\ toClient' \subseteq toClient
        /\ UNCHANGED <<client, toServer, received, ran>>
    BY DEF ClientHears
  <1>3. cl'.level = p.level /\ cl'.outgoing = cl.outgoing
    BY <1>1, <1>2, ClearState
  <1>4. cl'.frames = [s \in Slots |-> NoFrame]
    BY <1>1, <1>2 DEF CL_ClearState, ClType
  <1>5. Within(NoFrame)
    BY <1>1 DEF Within, NoFrame, Sequence, None, Torn
  <1>6. cl.level >= 1 /\ cl.outgoing <= MaxSequence + 1
    BY DEF Bounds, ClientWithin
  <1>7. ClientWithin'
    BY <1>1, <1>2, <1>3, <1>4, <1>5, <1>6 DEF ClientWithin
  <1>8. ServerWithin' /\ RunWithin' /\ PacketsWithin'
    BY <1>2 DEF Bounds, ServerWithin, RunWithin, PacketsWithin
  <1>. QED BY <1>7, <1>8 DEF Bounds

\* A packet of the client: the commands run are its three and the last one.
LEMMA ServerReadsBounds ==
    ASSUME TypeInv, IInv, Bounds, NEW q \in toServer, ServerReads(q)
    PROVE  Bounds'
  <1>1. PICK begins \in BOOLEAN : SV_ExecuteClientMessage(q, begins)
    BY DEF ServerReads
  <1>. PICK spawned \in BOOLEAN :
            spawned <=> begins \/ client.state = "spawned"
    OBVIOUS
  <1>. PICK w : w = SV_ExecuteClientMove(client, q,
                                         q.seq - (client.incoming + 1))
    OBVIOUS
  <1>2. /\ client \in ServerSlot /\ q \in MoveType /\ q.seq \in Nat \ {0}
        /\ client.incoming \in Nat /\ client.outgoing \in Nat
        /\ client.level \in Nat /\ MaxSequence \in Nat
        /\ cl.outgoing \in Nat
    BY RingAssumption DEF TypeInv, ServerSlot, MoveType, ClType
  <1>3. UNCHANGED <<cl, toClient>> /\ toServer' \subseteq toServer
    BY DEF ServerReads
  <1>4. /\ q.seq <= MaxSequence /\ q.newcmd = q.seq
        /\ q.seq \in Sequence /\ q.seq \in 1..MaxSequence
    <2>1. q.seq < cl.outgoing /\ q.newcmd = q.seq
      BY DEF IInv, Sequences
    <2>2. cl.outgoing <= MaxSequence + 1 BY DEF Bounds, ClientWithin
    <2>. QED BY <1>2, <2>1, <2>2 DEF Sequence
  <1>5. /\ client'.level = client.level
        /\ client'.delta_sequence = q.delta
        /\ client'.outgoing = client.outgoing \/ client'.outgoing = q.seq
        /\ client'.lastcmd = client.lastcmd \/ client'.lastcmd = q.newcmd
    BY <1>1, <1>2 DEF SV_ExecuteClientMessage, DeltaRequested, ServerSlot
  <1>6. ServerWithin'
    <2>1. MoveWithin(q) /\ ServerWithin
      BY DEF Bounds, PacketsWithin
    <2>2. client'.outgoing <= MaxSequence + client'.level
      BY <1>2, <1>4, <1>5, <2>1 DEF ServerWithin
    <2>. QED BY <1>4, <1>5, <2>1, <2>2 DEF MoveWithin, ServerWithin
  <1>7. RunWithin'
    <2>1. w \in Seq(Sequence)
      <3>1. /\ client.lastcmd \in Sequence /\ q.oldest \in Sequence
            /\ q.oldcmd \in Sequence /\ q.newcmd \in Sequence
        BY <1>4 DEF Bounds, ServerWithin, PacketsWithin, MoveWithin
      <3>2. q.seq - (client.incoming + 1) \in Int BY <1>2
      <3>. QED BY <3>1, <3>2, MoveRuns
    <2>2. ran' = (IF begins THEN <<>> ELSE ran) \o
                 (IF spawned THEN w ELSE <<>>)
      BY <1>1 DEF SV_ExecuteClientMessage
    <2>3. /\ (IF begins THEN <<>> ELSE ran) \in Seq(Sequence)
          /\ (IF spawned THEN w ELSE <<>>) \in Seq(Sequence)
      BY <2>1 DEF Bounds, RunWithin
    <2>4. ran' \in Seq(Sequence) BY <2>2, <2>3, Concat
    <2>5. received' \subseteq received \cup {q.seq}
      BY <1>1 DEF SV_ExecuteClientMessage
    <2>. QED BY <1>4, <2>4, <2>5 DEF Bounds, RunWithin
  <1>8. ClientWithin' /\ PacketsWithin'
    BY <1>3 DEF Bounds, ClientWithin, PacketsWithin
  <1>. QED BY <1>6, <1>7, <1>8 DEF Bounds

LEMMA PacketBounds ==
    ASSUME NEW c, c.incoming \in Sequence, ran \in Seq(Sequence),
           NEW update \in Update
    PROVE  PacketWithin(Packet(c, update))
  <1>1. 0 \in Sequence BY RingAssumption DEF Sequence
  <1>2. (IF ran = <<>> THEN 0 ELSE ran[Len(ran)]) \in Sequence
    BY <1>1
  <1>. QED BY <1>2 DEF Packet, PacketWithin

LEMMA ServerAnswersBounds ==
    ASSUME TypeInv, IInv, Bounds, ServerAnswers
    PROVE  Bounds'
  <1>. DEFINE fill == IF client.state = "spawned"
                      THEN SV_WriteEntitiesToClient(client) ELSE client
  <1>. PICK filled : filled = fill OBVIOUS
  <1>. PICK n : n = client.outgoing OBVIOUS
  <1>1. PICK up \in {NoUpdate} \cup
                    (IF client.state = "spawned"
                     THEN {SV_EmitPacketEntities(filled)} ELSE {}) :
            toClient' = toClient \cup {Packet(client, up)}
    BY DEF ServerAnswers
  <1>2. /\ client \in ServerSlot /\ cl.outgoing \in Nat
        /\ client.incoming \in Nat /\ n \in Nat \ {0} /\ client.level \in Nat
        /\ client.frames \in [Slots -> Nat] /\ client.delta_sequence \in Int
        /\ MaxSequence \in Nat /\ MaxLevel \in Nat \ {0} /\ BYTE \in Nat
        /\ BYTE >= 4
    BY RingAssumption DEF TypeInv, ServerSlot, ClType
  <1>3. /\ client.incoming = n /\ client' = Sent(filled)
        /\ UNCHANGED <<cl, toServer, received, ran>>
    BY DEF ServerAnswers, IInv, Sequences
  <1>4. n \in Sequence /\ n <= MaxSequence
    <2>1. client.incoming < cl.outgoing BY DEF IInv, Sequences
    <2>2. cl.outgoing <= MaxSequence + 1 BY DEF Bounds, ClientWithin
    <2>. QED BY <1>2, <1>3, <2>1, <2>2 DEF Sequence
  <1>5. \A s \in Slots : client.frames[s] \in Sequence
    <2>. SUFFICES ASSUME NEW s \in Slots PROVE client.frames[s] \in Sequence
      OBVIOUS
    <2>1. client.frames[s] = 0 \/ client.frames[s] <= client.incoming
      BY DEF IInv, ServerRing
    <2>. QED BY <1>2, <1>3, <1>4, <2>1 DEF Sequence
  <1>6. /\ filled.outgoing = n /\ filled.level = client.level
        /\ filled.incoming = n
        /\ filled.delta_sequence = client.delta_sequence
        /\ filled.lastcmd = client.lastcmd
        /\ filled \in ServerSlot
        /\ \A s \in Slots : filled.frames[s] \in Sequence
    <2>0. Slot(n) \in Slots BY <1>2, SlotType
    <2>. DEFINE fr == [client.frames EXCEPT ![Slot(n)] = n]
    <2>1. fr \in [Slots -> Nat] /\ \A s \in Slots : fr[s] \in Sequence
      BY <1>2, <1>4, <1>5, <2>0
    <2>2. CASE client.state = "spawned"
      <3>1. filled = [client EXCEPT !.frames = fr]
        BY <1>2, <1>3, <2>2 DEF SV_WriteEntitiesToClient, ServerSlot
      <3>. HIDE DEF fr
      <3>. QED BY <1>2, <1>3, <2>1, <3>1 DEF ServerSlot
    <2>3. CASE client.state # "spawned"
      BY <1>2, <1>3, <1>5, <2>3
    <2>. QED BY <2>2, <2>3
  <1>7. ServerWithin'
    <2>1. /\ client'.outgoing = n + 1 /\ client'.level = client.level
          /\ client'.delta_sequence = client.delta_sequence
          /\ client'.lastcmd = client.lastcmd
      BY <1>3, <1>6 DEF Sent, ServerSlot
    <2>2. ServerWithin BY DEF Bounds
    <2>. QED BY <1>2, <1>4, <2>1, <2>2 DEF ServerWithin
  <1>8. up \in Update
    <2>1. NoUpdate \in Update
      BY <1>2 DEF NoUpdate, Update, None, Sequence
    <2>2. CASE up = SV_EmitPacketEntities(filled)
      <3>. PICK from : from = client.delta_sequence OBVIOUS
      <3>1. Slot(n) \in Slots /\ Slot(from) \in Slots
        BY <1>2, SlotType
      <3>2. from \in None..BYTE - 1 BY DEF Bounds, ServerWithin
      <3>3. /\ filled.frames[Slot(from)] \in Sequence /\ 0 \in Sequence
            /\ filled.frames[Slot(n)] \in None..MaxSequence
        BY <1>2, <1>6, <3>1 DEF Sequence, None
      <3>4. up = [from |-> from,
                  base |-> IF from = None THEN 0
                           ELSE filled.frames[Slot(from)],
                  entities |-> filled.frames[Slot(n)]]
        BY <1>6, <2>2 DEF SV_EmitPacketEntities
      <3>. QED BY <3>2, <3>3, <3>4 DEF Update
    <2>. QED BY <2>1, <2>2
  <1>9. PacketWithin(Packet(client, up))
    <2>1. ran \in Seq(Sequence) BY DEF Bounds, RunWithin
    <2>. QED BY <1>3, <1>4, <1>8, <2>1, PacketBounds
  <1>10. PacketsWithin'
    BY <1>1, <1>3, <1>9 DEF Bounds, PacketsWithin
  <1>11. ClientWithin' /\ RunWithin'
    BY <1>3 DEF Bounds, ClientWithin, RunWithin
  <1>. QED BY <1>7, <1>10, <1>11 DEF Bounds

\* The server's number is ahead of the client's by no more than the levels.
LEMMA LevelChangeBounds ==
    ASSUME TypeInv, IInv, Bounds, LevelChange
    PROVE  Bounds'
  <1>. PICK moved : moved = [client EXCEPT !.state = "connected", !.level = @ + 1]
    OBVIOUS
  <1>1. /\ client \in ServerSlot /\ cl.outgoing \in Nat
        /\ client.incoming \in Nat /\ client.outgoing \in Nat
        /\ client.level \in Nat /\ client.level < MaxLevel
        /\ MaxSequence \in Nat /\ MaxLevel \in Nat \ {0} /\ BYTE \in Nat
        /\ BYTE >= 4
    <2>1. client.level < MaxLevel BY DEF LevelChange
    <2>2. /\ MaxSequence \in Nat /\ MaxLevel \in Nat \ {0} /\ BYTE \in Nat
          /\ BYTE >= 4
      BY RingAssumption
    <2>3. client \in ServerSlot /\ cl \in ClType BY DEF TypeInv
    <2>. QED BY <2>1, <2>2, <2>3 DEF ServerSlot, ClType
  <1>2. /\ UNCHANGED <<cl, toServer, received, ran>>
        /\ \/ client' = moved /\ toClient' = toClient
           \/ client' = Sent(moved)
              /\ toClient' = toClient \cup {Packet(moved, NoUpdate)}
    BY DEF LevelChange
  <1>3. /\ moved.level = client.level + 1 /\ moved.outgoing = client.outgoing
        /\ moved.incoming = client.incoming
        /\ moved.delta_sequence = client.delta_sequence
        /\ moved.lastcmd = client.lastcmd
        /\ Sent(moved).level = client.level + 1
        /\ Sent(moved).outgoing = client.outgoing + 1
        /\ Sent(moved).delta_sequence = client.delta_sequence
        /\ Sent(moved).lastcmd = client.lastcmd
    BY <1>1 DEF Sent, ServerSlot
  <1>4. ServerWithin'
    <2>1. /\ client'.level = client.level + 1
          /\ \/ client'.outgoing = client.outgoing
             \/ client'.outgoing = client.outgoing + 1
          /\ client'.delta_sequence = client.delta_sequence
          /\ client'.lastcmd = client.lastcmd
      BY <1>2, <1>3
    <2>2. ServerWithin BY DEF Bounds
    <2>. QED BY <1>1, <2>1, <2>2 DEF ServerWithin
  <1>5. PacketWithin(Packet(moved, NoUpdate))
    <2>1. NoUpdate \in Update
      BY <1>1 DEF NoUpdate, Update, None, Sequence
    <2>2. moved.incoming \in Sequence
      <3>1. client.incoming < cl.outgoing BY DEF IInv, Sequences
      <3>2. cl.outgoing <= MaxSequence + 1 BY DEF Bounds, ClientWithin
      <3>. QED BY <1>1, <1>3, <3>1, <3>2 DEF Sequence
    <2>3. ran \in Seq(Sequence) BY DEF Bounds, RunWithin
    <2>. QED BY <2>1, <2>2, <2>3, PacketBounds
  <1>6. PacketsWithin'
    BY <1>2, <1>5 DEF Bounds, PacketsWithin
  <1>7. ClientWithin' /\ RunWithin'
    BY <1>2 DEF Bounds, ClientWithin, RunWithin
  <1>. QED BY <1>4, <1>6, <1>7 DEF Bounds

\* TypeOK: every variable keeps its type and bound.  The server's sequence number
\* is one of the client's, plus one for each packet sent unasked.
THEOREM TypeCorrect == Spec => []TypeOK
  <1>1. TypeInv /\ IInv /\ Bounds /\ [Next]_vars => Bounds'
    <2>. SUFFICES ASSUME TypeInv, IInv, Bounds, [Next]_vars PROVE Bounds'
      OBVIOUS
    <2>1. ASSUME NEW nodelta \in Nodelta, ClientFrame(nodelta) PROVE Bounds'
      BY <2>1, ClientFrameBounds, RingAssumption
    <2>2. ASSUME NEW p \in toClient, ClientReads(p) PROVE Bounds'
      BY <2>2, ClientReadsBounds
    <2>3. ASSUME NEW p \in toClient, ClientHears(p) PROVE Bounds'
      BY <2>3, ClientHearsBounds
    <2>4. ASSUME NEW p \in toServer, ServerReads(p) PROVE Bounds'
      BY <2>4, ServerReadsBounds
    <2>5. CASE ServerAnswers BY <2>5, ServerAnswersBounds
    <2>6. CASE ServerChokes
      <3>1. /\ UNCHANGED <<cl, toServer, toClient, received, ran>>
            /\ client' = [client EXCEPT !.send_message = FALSE]
        BY <2>6 DEF ServerChokes
      <3>2. /\ client'.level = client.level
            /\ client'.outgoing = client.outgoing
            /\ client'.delta_sequence = client.delta_sequence
            /\ client'.lastcmd = client.lastcmd
        BY <3>1 DEF TypeInv, ServerSlot
      <3>. QED BY <3>1, <3>2 DEF Bounds, ClientWithin, ServerWithin,
                                RunWithin, PacketsWithin
    <2>7. CASE LevelChange BY <2>7, LevelChangeBounds
    <2>8. CASE UNCHANGED vars
      BY <2>8 DEF vars, Bounds, ClientWithin, ServerWithin, RunWithin,
                  PacketsWithin
    <2>. QED BY <2>1, <2>2, <2>3, <2>4, <2>5, <2>6, <2>7, <2>8 DEF Next
  <1>2. TypeInv /\ IInv /\ Bounds => TypeOK BY BoundsSuffice
  <1>. QED BY <1>1, <1>2, Inductive, InitBounds, PTL DEF Spec
-----------------------------------------------------------------------------
(* Every command is run in its place.  Of the commands received, the last of *)
(* a packet and the two before it come in its packet, the rest are filled    *)
(* with the last one run, or left out: what is run is counted by sets of     *)
(* numbers (DueIn), so that a new packet adds an interval to them.           *)
BeforeIn(R, k) == CHOOSE n \in R : n < k /\ \A m \in R : m < k => m <= n
AfterIn(R, k) == CHOOSE n \in R : n > k /\ \A m \in R : m > k => m >= n
KeptIn(R, k) == {k, k + 1, k + 2} \cap R # {}
FilledIn(R, k) == KeptIn(R, k) \/ AfterIn(R, k) - BeforeIn(R, k) <= DropLimit
RunIn(R, k) == IF KeptIn(R, k) THEN k ELSE BeforeIn(R, k)
FirstIn(R) == CHOOSE n \in R : \A m \in R : n <= m
DueIn(R, n) == {k \in FirstIn(R) .. n : FilledIn(R, k)}
EarlierIn(R, n, r) == Len(r) - Cardinality(DueIn(R, n))
PlaceIn(R, n, r, k) ==
    EarlierIn(R, n, r) + Cardinality({j \in DueIn(R, n) : j <= k})
\* R: the packets received, up to n; r: the commands run.
Executed(R, n, r) ==
    /\ EarlierIn(R, n, r) >= 0
    /\ \A i \in 1 .. EarlierIn(R, n, r) : r[i] < FirstIn(R)
    /\ \A k \in DueIn(R, n) : r[PlaceIn(R, n, r, k)] = RunIn(R, k)

LEMMA SomeLeast ==
    ASSUME NEW S \in SUBSET Nat, S # {}
    PROVE  \E i \in S : \A j \in S : i <= j
  <1>. DEFINE Less == {m \in Nat \X Nat : m[1] < m[2]}
  <1>1. IsWellFoundedOn(Less, Nat)
    BY NatLessThanWellFounded, Zenon DEF OpToRel
  <1>2. PICK i \in S : \A j \in S : ~(<<j, i>> \in Less)
    <2>. HIDE DEF Less
    <2>. QED BY <1>1, WFMin
  <1>3. ASSUME NEW j \in S PROVE i <= j
    <2>1. ~(j < i) BY <1>2
    <2>. QED BY <2>1
  <1>. QED BY <1>3

LEMMA SomeGreatest ==
    ASSUME NEW S \in SUBSET Nat, S # {}, NEW n \in Nat, \A j \in S : j <= n
    PROVE  \E i \in S : \A j \in S : j <= i
  <1>1. PICK T \in SUBSET Nat : T = {n - j : j \in S}
    <2>1. {n - j : j \in S} \in SUBSET Nat
      <3>1. \A j \in S : n - j \in Nat OBVIOUS
      <3>. QED BY <3>1
    <2>. QED BY <2>1
  <1>2. T # {} BY <1>1
  <1>3. PICK t \in T : \A u \in T : t <= u BY <1>2, SomeLeast
  <1>4. PICK i \in S : t = n - i BY <1>1
  <1>5. ASSUME NEW j \in S PROVE j <= i
    <2>1. n - i <= n - j BY <1>1, <1>3, <1>4
    <2>. QED BY <2>1
  <1>. QED BY <1>5

LEMMA BeforeIs ==
    ASSUME NEW R \in SUBSET Nat, NEW k \in Nat, NEW b \in R, b < k,
           \A m \in R : m < k => m <= b
    PROVE  BeforeIn(R, k) = b
  <1>1. PICK a : a = BeforeIn(R, k) OBVIOUS
  <1>2. a \in R /\ a < k /\ \A m \in R : m < k => m <= a
    BY <1>1 DEF BeforeIn
  <1>3. a <= b /\ b <= a /\ a \in Nat /\ b \in Nat BY <1>2
  <1>. QED BY <1>1, <1>3

LEMMA AfterIs ==
    ASSUME NEW R \in SUBSET Nat, NEW k \in Nat, NEW b \in R, b > k,
           \A m \in R : m > k => m >= b
    PROVE  AfterIn(R, k) = b
  <1>1. PICK a : a = AfterIn(R, k) OBVIOUS
  <1>2. a \in R /\ a > k /\ \A m \in R : m > k => m >= a
    BY <1>1 DEF AfterIn
  <1>3. a <= b /\ b <= a /\ a \in Nat /\ b \in Nat BY <1>2
  <1>. QED BY <1>1, <1>3

LEMMA FirstIs ==
    ASSUME NEW R \in SUBSET Nat, NEW f \in R, \A m \in R : f <= m
    PROVE  FirstIn(R) = f
  <1>1. PICK a : a = FirstIn(R) OBVIOUS
  <1>2. a \in R /\ \A m \in R : a <= m BY <1>1 DEF FirstIn
  <1>3. a <= f /\ f <= a /\ a \in Nat /\ f \in Nat BY <1>2
  <1>. QED BY <1>1, <1>3

\* The packets received, from f to o.
Spans(R, f, o) ==
    R \in SUBSET (1..o) /\ {f, o} \subseteq R /\ \A m \in R : f <= m

\* What is due up to the last packet does not change when another comes.
LEMMA DueStays ==
    ASSUME NEW o \in Nat, NEW R, NEW f, Spans(R, f, o),
           NEW n \in Nat, n > o, NEW S, S = R \cup {n},
           NEW k \in f .. o
    PROVE  /\ FilledIn(S, k) <=> FilledIn(R, k)
           /\ RunIn(S, k) = RunIn(R, k)
  <1>0. /\ R \in SUBSET (1..o) /\ o \in R /\ f \in R
        /\ \A m \in R : f <= m
    BY DEF Spans
  <1>1. R \in SUBSET Nat /\ S \in SUBSET Nat /\ k \in Nat BY <1>0
  <1>2. KeptIn(S, k) <=> KeptIn(R, k)
    <2>1. KeptIn(R, k) => KeptIn(S, k) BY DEF KeptIn
    <2>2. ASSUME KeptIn(S, k) PROVE KeptIn(R, k)
      <3>1. PICK x \in {k, k + 1, k + 2} : x \in S BY <2>2 DEF KeptIn
      <3>2. CASE x \in R BY <3>1, <3>2 DEF KeptIn
      <3>3. CASE x = n
        <4>1. k = o \/ k + 1 = o BY <1>0, <1>1, <3>1, <3>3
        <4>. QED BY <1>0, <4>1 DEF KeptIn
      <3>. QED BY <3>1, <3>2, <3>3
    <2>. QED BY <2>1, <2>2
  <1>3. CASE KeptIn(R, k)
    BY <1>2, <1>3 DEF FilledIn, RunIn
  <1>4. CASE ~KeptIn(R, k)
    <2>1. k \notin R BY <1>4 DEF KeptIn
    <2>2. f < k /\ k < o
      <3>1. f # k /\ o # k BY <1>0, <2>1
      <3>. QED BY <1>0, <1>1, <3>1
    <2>3. PICK b \in R : b < k /\ \A m \in R : m < k => m <= b
      <3>. PICK B \in SUBSET Nat : B = {m \in R : m < k} BY <1>1
      <3>1. f \in B /\ \A j \in B : j <= k BY <1>0, <2>2
      <3>2. PICK b \in B : \A j \in B : j <= b
        BY <1>1, <3>1, SomeGreatest
      <3>. QED BY <3>2
    <2>4. PICK a \in R : a > k /\ \A m \in R : m > k => m >= a
      <3>. PICK A \in SUBSET Nat : A = {m \in R : m > k} BY <1>1
      <3>1. o \in A BY <1>0, <2>2
      <3>2. PICK a \in A : \A j \in A : a <= j
        BY <3>1, SomeLeast
      <3>. QED BY <3>2
    <2>5. BeforeIn(R, k) = b BY <1>1, <2>3, BeforeIs
    <2>6. AfterIn(R, k) = a BY <1>1, <2>4, AfterIs
    <2>7. /\ b \in S /\ a \in S
          /\ \A m \in S : m < k => m <= b
          /\ \A m \in S : m > k => m >= a
      BY <1>0, <1>1, <2>2, <2>3, <2>4
    <2>8. BeforeIn(S, k) = b BY <1>1, <2>3, <2>7, BeforeIs
    <2>9. AfterIn(S, k) = a BY <1>1, <2>4, <2>7, AfterIs
    <2>. QED BY <1>2, <2>5, <2>6, <2>8, <2>9 DEF FilledIn, RunIn
  <1>. QED BY <1>3, <1>4

\* The packet with the "begin".
LEMMA ExecutedFirst ==
    ASSUME NEW n \in Nat \ {0}, NEW r, NEW l \in Nat, Len(r) = l + 1,
           r[l + 1] = n, \A i \in 1 .. l : r[i] < n
    PROVE  Executed({n}, n, r)
  <1>. PICK R \in SUBSET Nat : R = {n} OBVIOUS
  <1>1. FirstIn(R) = n
    <2>1. n \in R /\ \A m \in R : n <= m OBVIOUS
    <2>. QED BY <2>1, FirstIs
  <1>2. KeptIn(R, n) BY DEF KeptIn
  <1>3. DueIn(R, n) = {n}
    <2>1. n .. n = {n} OBVIOUS
    <2>. QED BY <1>1, <1>2, <2>1 DEF DueIn, FilledIn
  <1>4. Cardinality({n}) = 1 BY FS_Singleton
  <1>5. EarlierIn(R, n, r) = l
    <2>1. EarlierIn(R, n, r) = (l + 1) - 1 BY <1>3, <1>4 DEF EarlierIn
    <2>. QED BY <2>1
  <1>6. {j \in {n} : j <= n} = {n} OBVIOUS
  <1>7. PlaceIn(R, n, r, n) = l + 1
    BY <1>3, <1>4, <1>5, <1>6 DEF PlaceIn
  <1>8. RunIn(R, n) = n BY <1>2 DEF RunIn
  <1>9. \A i \in 1 .. EarlierIn(R, n, r) : r[i] < FirstIn(R)
    BY <1>1, <1>5
  <1>10. \A k \in DueIn(R, n) : r[PlaceIn(R, n, r, k)] = RunIn(R, k)
    BY <1>3, <1>7, <1>8
  <1>11. EarlierIn(R, n, r) >= 0 BY <1>5
  <1>. QED BY <1>9, <1>10, <1>11 DEF Executed

\* Another packet, that ran the commands from a to n in their order.
FilledFrom(S, o, n, a) == \A k \in o + 1 .. n : FilledIn(S, k) <=> k >= a
GoesOn(t, r, S, n, a) ==
    /\ Len(t) = Len(r) + (n - a + 1)
    /\ \A i \in 1 .. Len(r) : t[i] = r[i]
    /\ \A k \in a .. n : t[Len(r) + (k - a + 1)] = RunIn(S, k)

LEMMA ExecutedNext ==
    ASSUME NEW o \in Nat, NEW R \in SUBSET (1..o), o \in R,
           NEW n \in Nat, n > o, NEW a \in o + 1 .. n,
           FilledFrom(R \cup {n}, o, n, a),
           NEW r, Len(r) \in Nat, NEW t, GoesOn(t, r, R \cup {n}, n, a),
           Executed(R, o, r)
    PROVE  Executed(R \cup {n}, n, t)
  <1>. PICK S : S = R \cup {n} OBVIOUS
  <1>. PICK l \in Nat : l = Len(r) OBVIOUS
  <1>a. \A k \in o + 1 .. n : FilledIn(S, k) <=> k >= a BY DEF FilledFrom
  <1>b. /\ Len(t) = l + (n - a + 1)
        /\ \A i \in 1 .. l : t[i] = r[i]
        /\ \A k \in a .. n : t[l + (k - a + 1)] = RunIn(S, k)
    BY DEF GoesOn
  <1>0. R \in SUBSET Nat /\ S \in SUBSET Nat OBVIOUS
  <1>1. PICK f \in R : \A m \in R : f <= m BY <1>0, SomeLeast
  <1>2. FirstIn(R) = f BY <1>0, <1>1, FirstIs
  <1>3. FirstIn(S) = f
    <2>1. f \in S /\ \A m \in S : f <= m
      <3>1. f <= n BY <1>0
      <3>. QED BY <1>1, <3>1
    <2>. QED BY <1>0, <2>1, FirstIs
  <1>4. PICK D : D = DueIn(R, o) OBVIOUS
  <1>5. PICK E : E = DueIn(S, n) OBVIOUS
  <1>6. /\ D \in SUBSET (f .. o) /\ f \in 1 .. o
        /\ D = {k \in f .. o : FilledIn(R, k)}
        /\ E = {k \in f .. n : FilledIn(S, k)}
    <2>1. D = {k \in f .. o : FilledIn(R, k)} BY <1>2, <1>4 DEF DueIn
    <2>2. E = {k \in f .. n : FilledIn(S, k)} BY <1>3, <1>5 DEF DueIn
    <2>3. D \in SUBSET (f .. o) BY <2>1
    <2>4. f \in 1 .. o BY <1>1
    <2>. QED BY <2>1, <2>2, <2>3, <2>4
  <1>7. \A k \in f .. o : /\ FilledIn(S, k) <=> FilledIn(R, k)
                          /\ RunIn(S, k) = RunIn(R, k)
    <2>1. Spans(R, f, o) BY <1>1 DEF Spans
    <2>. QED BY <2>1, DueStays
  <1>8. E = D \cup (a .. n)
    <2>1. ASSUME NEW k \in E PROVE k \in D \cup (a .. n)
      <3>1. k \in f .. n /\ FilledIn(S, k) BY <1>6
      <3>2. CASE k <= o
        <4>1. k \in f .. o BY <1>6, <3>1, <3>2
        <4>2. FilledIn(R, k) BY <1>7, <3>1, <4>1
        <4>3. k \in D BY <1>6, <4>1, <4>2
        <4>. QED BY <4>3
      <3>3. CASE k > o
        <4>1. k \in o + 1 .. n BY <1>6, <3>1, <3>3
        <4>2. k >= a BY <1>a, <3>1, <4>1
        <4>3. k \in a .. n BY <4>1, <4>2
        <4>. QED BY <4>3
      <3>. QED BY <1>6, <3>1, <3>2, <3>3
    <2>2. D \subseteq E
      <3>. SUFFICES ASSUME NEW k \in D PROVE k \in E OBVIOUS
      <3>1. k \in f .. o /\ FilledIn(S, k) BY <1>6, <1>7
      <3>2. k \in f .. n BY <1>6, <3>1
      <3>. QED BY <1>6, <3>1, <3>2
    <2>3. ASSUME NEW k \in a .. n PROVE k \in E
      <3>1. k \in o + 1 .. n /\ k \in f .. n /\ k >= a BY <1>6
      <3>. QED BY <1>a, <1>6, <3>1
    <2>. QED BY <2>1, <2>2, <2>3
  <1>9. /\ IsFiniteSet(D) /\ Cardinality(D) \in Nat
    <2>1. IsFiniteSet(f .. o) BY <1>6, FS_Interval
    <2>2. IsFiniteSet(D) BY <1>6, <2>1, FS_Subset
    <2>. QED BY <2>2, FS_CardinalityType
  <1>. PICK c \in Nat : c = Cardinality(D) BY <1>9
  <1>10. ASSUME NEW k \in a .. n
         PROVE  Cardinality(D \cup (a .. k)) = c + (k - a + 1)
    <2>0. a \in Int /\ k \in Int /\ a <= k OBVIOUS
    <2>1. IsFiniteSet(a .. k) /\ Cardinality(a .. k) = k - a + 1
      <3>1. Cardinality(a .. k) = IF a > k THEN 0 ELSE k - a + 1
        BY <2>0, FS_Interval
      <3>2. IsFiniteSet(a .. k) BY <2>0, FS_Interval
      <3>. QED BY <2>0, <3>1, <3>2
    <2>2. D \cap (a .. k) = {} BY <1>6
    <2>3. Cardinality({}) = 0 BY FS_EmptySet
    <2>4. Cardinality(D \cup (a .. k))
              = Cardinality(D) + Cardinality(a .. k) - Cardinality(D \cap (a .. k))
      BY <1>9, <2>1, FS_Union
    <2>5. PICK e \in Int : e = k - a + 1 BY <2>0
    <2>6. Cardinality(D \cup (a .. k)) = c + e - 0
      BY <2>1, <2>2, <2>3, <2>4, <2>5
    <2>7. c + e - 0 = c + e BY <2>5
    <2>. QED BY <2>5, <2>6, <2>7
  <1>11. EarlierIn(R, o, r) = l - c BY <1>4 DEF EarlierIn
  <1>12. EarlierIn(S, n, t) = l - c
    <2>1. Cardinality(E) = c + (n - a + 1) BY <1>8, <1>10
    <2>2. EarlierIn(S, n, t) = (l + (n - a + 1)) - (c + (n - a + 1))
      BY <1>5, <1>b, <2>1 DEF EarlierIn
    <2>. QED BY <2>2
  <1>13. /\ l - c >= 0 /\ \A i \in 1 .. l - c : r[i] < f
         /\ \A k \in D : r[PlaceIn(R, o, r, k)] = RunIn(R, k)
    BY <1>2, <1>4, <1>11 DEF Executed
  <1>14. \A i \in 1 .. l - c : t[i] < f
    <2>. SUFFICES ASSUME NEW i \in 1 .. l - c PROVE t[i] < f OBVIOUS
    <2>1. i \in 1 .. l /\ r[i] < f BY <1>13
    <2>. QED BY <1>b, <2>1
  <1>15. ASSUME NEW k \in D
         PROVE  t[PlaceIn(S, n, t, k)] = RunIn(S, k)
    <2>1. PICK B : B = {j \in D : j <= k} OBVIOUS
    <2>2. {j \in E : j <= k} = B
      <3>1. \A j \in a .. n : ~(j <= k) BY <1>6
      <3>. QED BY <1>8, <2>1, <3>1
    <2>3. B \subseteq D /\ k \in B BY <1>6, <2>1
    <2>4. Cardinality(B) \in Nat /\ Cardinality(B) <= c /\ Cardinality(B) # 0
      <3>1. IsFiniteSet(B) /\ Cardinality(B) <= Cardinality(D)
        BY <1>9, <2>3, FS_Subset
      <3>2. Cardinality(B) # 0 BY <2>3, <3>1, FS_EmptySet
      <3>. QED BY <3>1, <3>2, FS_CardinalityType
    <2>. PICK b \in Nat : b = Cardinality(B) BY <2>4
    <2>5. PlaceIn(R, o, r, k) = (l - c) + b
      BY <1>4, <1>11, <2>1 DEF PlaceIn
    <2>6. PlaceIn(S, n, t, k) = (l - c) + b
      BY <1>5, <1>12, <2>2 DEF PlaceIn
    <2>7. (l - c) + b \in 1 .. l
      <3>1. l - c >= 0 BY <1>13
      <3>2. b <= c /\ b # 0 BY <2>4
      <3>. QED BY <3>1, <3>2
    <2>8. t[(l - c) + b] = r[(l - c) + b] BY <1>b, <2>7
    <2>9. RunIn(S, k) = RunIn(R, k) BY <1>6, <1>7
    <2>. QED BY <1>13, <2>5, <2>6, <2>8, <2>9
  <1>16. ASSUME NEW k \in a .. n
         PROVE  t[PlaceIn(S, n, t, k)] = RunIn(S, k)
    <2>1. {j \in E : j <= k} = D \cup (a .. k)
      <3>1. \A j \in D : j \in Int /\ j <= k BY <1>6
      <3>2. {j \in a .. n : j <= k} = a .. k OBVIOUS
      <3>. QED BY <1>8, <3>1, <3>2
    <2>2. PlaceIn(S, n, t, k) = (l - c) + (c + (k - a + 1))
      BY <1>5, <1>10, <1>12, <2>1 DEF PlaceIn
    <2>3. PlaceIn(S, n, t, k) = l + (k - a + 1) BY <2>2
    <2>. QED BY <1>b, <2>3
  <1>17. \A k \in DueIn(S, n) : t[PlaceIn(S, n, t, k)] = RunIn(S, k)
    BY <1>5, <1>8, <1>15, <1>16
  <1>18. EarlierIn(S, n, t) >= 0 /\ \A i \in 1 .. EarlierIn(S, n, t) : t[i] < FirstIn(S)
    BY <1>3, <1>12, <1>13, <1>14
  <1>. QED BY <1>17, <1>18 DEF Executed

\* What is due between two packets: all of it, or the last three.
LEMMA DueNext ==
    ASSUME NEW o \in Nat, NEW R \in SUBSET (1..o), o \in R,
           NEW n \in Nat, n > o, NEW S, S = R \cup {n},
           NEW k \in o + 1 .. n
    PROVE  /\ KeptIn(S, k) <=> k >= n - 2
           /\ FilledIn(S, k) <=> k >= n - 2 \/ n - o <= DropLimit
           /\ k >= n - 2 => RunIn(S, k) = k
           /\ k < n - 2 => RunIn(S, k) = o
  <1>0. S \in SUBSET Nat /\ k \in Nat /\ n \in S /\ o \in S OBVIOUS
  <1>1. KeptIn(S, k) <=> k >= n - 2
    <2>1. k >= n - 2 => n \in {k, k + 1, k + 2} OBVIOUS
    <2>2. ASSUME NEW x \in {k, k + 1, k + 2}, x \in S PROVE k >= n - 2
      <3>1. x = n BY <2>2
      <3>. QED BY <3>1
    <2>. QED BY <1>0, <2>1, <2>2 DEF KeptIn
  <1>2. CASE k >= n - 2
    BY <1>1, <1>2 DEF FilledIn, RunIn
  <1>3. CASE k < n - 2
    <2>1. BeforeIn(S, k) = o
      <3>1. o < k /\ \A m \in S : m < k => m <= o OBVIOUS
      <3>. QED BY <1>0, <3>1, BeforeIs
    <2>2. AfterIn(S, k) = n
      <3>1. n > k /\ \A m \in S : m > k => m >= n BY <1>3
      <3>. QED BY <1>0, <3>1, AfterIs
    <2>3. ~(k >= n - 2) BY <1>3
    <2>. QED BY <1>1, <1>3, <2>1, <2>2, <2>3 DEF FilledIn, RunIn
  <1>4. k >= n - 2 \/ k < n - 2 OBVIOUS
  <1>. QED BY <1>2, <1>3, <1>4

Two(x, y) == <<x>> \o <<y>>
Three(u, x, y, z) == ((u \o <<x>>) \o <<y>>) \o <<z>>

Adds(w, u, x, y, z) ==
    /\ w \in Seq(Nat) /\ Len(w) = Len(u) + 3
    /\ \A i \in 1 .. Len(u) : w[i] = u[i]
    /\ w[Len(u) + 1] = x /\ w[Len(u) + 2] = y /\ w[Len(u) + 3] = z

LEMMA LastThree ==
    ASSUME NEW u \in Seq(Nat), NEW x \in Nat, NEW y \in Nat, NEW z \in Nat,
           NEW w, w = Three(u, x, y, z)
    PROVE  Adds(w, u, x, y, z)
  <1>. PICK v : v = u \o <<x>> OBVIOUS
  <1>. PICK t : t = v \o <<y>> OBVIOUS
  <1>0. w = t \o <<z>> BY DEF Three
  <1>1. /\ v \in Seq(Nat) /\ Len(v) = Len(u) + 1 /\ v[Len(u) + 1] = x
        /\ \A i \in 1 .. Len(u) : v[i] = u[i]
    OBVIOUS
  <1>2. /\ t \in Seq(Nat) /\ Len(t) = Len(v) + 1 /\ t[Len(v) + 1] = y
        /\ \A i \in 1 .. Len(v) : t[i] = v[i]
    BY <1>1
  <1>3. /\ w \in Seq(Nat) /\ Len(w) = Len(t) + 1 /\ w[Len(t) + 1] = z
        /\ \A i \in 1 .. Len(t) : w[i] = t[i]
    BY <1>0, <1>2
  <1>. PICK l \in Nat : l = Len(u) OBVIOUS
  <1>4. Len(v) = l + 1 BY <1>1
  <1>5. Len(t) = l + 2 BY <1>2, <1>4
  <1>6. Len(w) = l + 3 BY <1>3, <1>5
  <1>7. ASSUME NEW i \in 1 .. l PROVE w[i] = u[i]
    <2>1. i \in 1 .. Len(u) /\ i \in 1 .. Len(v) /\ i \in 1 .. Len(t)
      BY <1>4, <1>5
    <2>. QED BY <1>1, <1>2, <1>3, <2>1
  <1>8. w[l + 1] = x
    <2>1. l + 1 \in 1 .. Len(v) /\ l + 1 \in 1 .. Len(t) BY <1>4, <1>5
    <2>2. v[l + 1] = x BY <1>1
    <2>. QED BY <1>2, <1>3, <2>1, <2>2
  <1>9. w[l + 2] = y
    <2>1. l + 2 \in 1 .. Len(t) BY <1>5
    <2>2. Len(v) + 1 = l + 2 BY <1>4
    <2>3. t[l + 2] = y BY <1>2, <2>2
    <2>. QED BY <1>3, <2>1, <2>3
  <1>10. w[l + 3] = z
    <2>1. Len(t) + 1 = l + 3 BY <1>5
    <2>. QED BY <1>3, <2>1
  <1>. QED BY <1>3, <1>6, <1>7, <1>8, <1>9, <1>10 DEF Adds

\* What a packet in the game runs, w: from a to n, each itself if it came in
\* the packet, else the last one run.
Reaches(o, n, a) ==
    \A k \in o + 1 .. n : k >= n - 2 \/ n - o <= DropLimit <=> k >= a
RunsFrom(w, o, n, a) ==
    /\ w \in Seq(Nat) /\ Len(w) = n - a + 1
    /\ \A k \in a .. n : w[k - a + 1] = IF k >= n - 2 THEN k ELSE o
    /\ Reaches(o, n, a)

LEMMA RunsOne ==
    ASSUME NEW o \in Nat, NEW n \in Nat, n = o + 1
    PROVE  RunsFrom(<<n>>, o, n, n)
  <1>. PICK w : w = <<n>> OBVIOUS
  <1>1. w \in Seq(Nat) /\ Len(w) = 1 /\ w[1] = n OBVIOUS
  <1>2. \A k \in n .. n : k = n /\ k - n + 1 = 1 OBVIOUS
  <1>. QED BY <1>1, <1>2 DEF RunsFrom, Reaches

LEMMA RunsTwo ==
    ASSUME NEW o \in Nat, NEW a \in Nat, a = o + 1, NEW n \in Nat, n = o + 2
    PROVE  RunsFrom(Two(a, n), o, n, a)
  <1>. PICK w : w = Two(a, n) OBVIOUS
  <1>1. w \in Seq(Nat) /\ Len(w) = 2 /\ w[1] = a /\ w[2] = n BY DEF Two
  <1>2. \A k \in a .. n : \/ k = a /\ k - a + 1 = 1
                          \/ k = n /\ k - a + 1 = 2
    OBVIOUS
  <1>. QED BY <1>1, <1>2 DEF RunsFrom, Reaches

LEMMA RunsMore ==
    ASSUME NEW o \in Nat, NEW n \in Nat, n >= o + 3, NEW a \in o + 1 .. n,
           NEW u \in Seq(Nat), Len(u) = n - 2 - a,
           \A i \in 1 .. Len(u) : u[i] = o,
           Reaches(o, n, a),
           NEW x \in Nat, x = n - 2, NEW y \in Nat, y = n - 1
    PROVE  RunsFrom(Three(u, x, y, n), o, n, a)
  <1>. PICK w : w = Three(u, x, y, n) OBVIOUS
  <1>. PICK m \in Nat : m = Len(u) OBVIOUS
  <1>1. /\ w \in Seq(Nat) /\ Len(w) = m + 3
        /\ \A i \in 1 .. m : w[i] = u[i]
        /\ w[m + 1] = x /\ w[m + 2] = y /\ w[m + 3] = n
    <2>1. Adds(w, u, x, y, n) BY LastThree
    <2>. QED BY <2>1 DEF Adds
  <1>2. m + 3 = n - a + 1 OBVIOUS
  <1>3. ASSUME NEW k \in a .. n
        PROVE  w[k - a + 1] = IF k >= n - 2 THEN k ELSE o
    <2>1. CASE k < n - 2
      <3>1. k - a + 1 \in 1 .. m BY <1>2, <2>1
      <3>2. w[k - a + 1] = o BY <1>1, <3>1
      <3>. QED BY <2>1, <3>2
    <2>2. CASE k >= n - 2
      <3>1. \/ k = x /\ k - a + 1 = m + 1
            \/ k = y /\ k - a + 1 = m + 2
            \/ k = n /\ k - a + 1 = m + 3
        BY <1>2, <2>2
      <3>. QED BY <1>1, <2>2, <3>1
    <2>. QED BY <2>1, <2>2
  <1>. QED BY <1>1, <1>2, <1>3 DEF RunsFrom

\* What SV_ExecuteClientMove runs, by the number of packets missing.
LEMMA MoveIs ==
    ASSUME NEW c, NEW p, NEW d \in Nat, NEW w, w = SV_ExecuteClientMove(c, p, d)
    PROVE  /\ d = 0 => w = <<p.newcmd>>
           /\ d = 1 => w = Two(p.oldcmd, p.newcmd)
           /\ d > 2 /\ d < DropLimit =>
                  w = Three(Repeat(c.lastcmd, d - 2), p.oldest, p.oldcmd,
                            p.newcmd)
           /\ d >= 2 /\ ~(d > 2 /\ d < DropLimit) =>
                  w = Three(<<>>, p.oldest, p.oldcmd, p.newcmd)
  <1>1. d = 0 => w = <<p.newcmd>> BY DEF SV_ExecuteClientMove
  <1>2. d = 1 => w = Two(p.oldcmd, p.newcmd) BY DEF SV_ExecuteClientMove, Two
  <1>3. ASSUME d > 2, d < DropLimit
        PROVE  w = Three(Repeat(c.lastcmd, d - 2), p.oldest, p.oldcmd, p.newcmd)
    <2>1. d > 1 /\ d > 0 BY <1>3
    <2>. QED BY <1>3, <2>1, Zenon DEF SV_ExecuteClientMove, Three
  <1>4. ASSUME d >= 2, ~(d > 2 /\ d < DropLimit)
        PROVE  w = Three(<<>>, p.oldest, p.oldcmd, p.newcmd)
    <2>1. d > 1 /\ d > 0 BY <1>4
    <2>. QED BY <1>4, <2>1, Zenon DEF SV_ExecuteClientMove, Three
  <1>. QED BY <1>1, <1>2, <1>3, <1>4, Zenon

LEMMA MoveInOrder ==
    ASSUME NEW o \in Nat, NEW n \in Nat, n > o,
           NEW d \in Nat, d = n - (o + 1),
           NEW c, c.lastcmd = o, NEW p, p.newcmd = n,
           o <= n - 1 => p.oldcmd = n - 1, o <= n - 2 => p.oldest = n - 2,
           NEW w, w = SV_ExecuteClientMove(c, p, d)
    PROVE  \E a \in o + 1 .. n : RunsFrom(w, o, n, a)
  <1>1. DropLimit \in Nat BY RingAssumption
  <1>2. CASE d = 0
    <2>1. w = <<n>> BY <1>2, MoveIs
    <2>2. RunsFrom(<<n>>, o, n, n) BY <1>2, RunsOne
    <2>. QED BY <2>1, <2>2
  <1>. PICK x : x = p.oldest OBVIOUS
  <1>. PICK y : y = p.oldcmd OBVIOUS
  <1>3. CASE d = 1
    <2>1. w = Two(y, n) BY <1>3, MoveIs
    <2>2. y = o + 1 /\ n = o + 2 BY <1>3
    <2>3. RunsFrom(Two(y, n), o, n, y) BY <2>2, RunsTwo
    <2>. QED BY <2>1, <2>2, <2>3
  <1>4. d >= 2 => n >= o + 3 /\ x \in Nat /\ x = n - 2 /\ y \in Nat /\ y = n - 1
    OBVIOUS
  <1>5. CASE d > 2 /\ d < DropLimit
    <2>0. PICK u : u = Repeat(o, d - 2) OBVIOUS
    <2>1. w = Three(u, x, y, n) BY <1>5, <2>0, MoveIs
    <2>2. u \in Seq(Nat) /\ Len(u) = d - 2 /\ \A i \in 1 .. Len(u) : u[i] = o
      <3>1. d - 2 \in Nat BY <1>5
      <3>. QED BY <2>0, <3>1 DEF Repeat
    <2>. PICK a \in Nat : a = o + 1 OBVIOUS
    <2>3. a \in o + 1 .. n /\ Len(u) = n - 2 - a BY <1>5, <2>2
    <2>4. Reaches(o, n, a) BY <1>1, <1>5 DEF Reaches
    <2>5. RunsFrom(Three(u, x, y, n), o, n, a)
      BY <1>4, <1>5, <2>2, <2>3, <2>4, RunsMore
    <2>. QED BY <2>1, <2>3, <2>5
  <1>6. CASE d >= 2 /\ ~(d > 2 /\ d < DropLimit)
    <2>0. PICK u : u = <<>> OBVIOUS
    <2>1. w = Three(u, x, y, n) BY <1>6, <2>0, MoveIs
    <2>2. u \in Seq(Nat) /\ Len(u) = 0 /\ \A i \in 1 .. Len(u) : u[i] = o
      BY <2>0
    <2>. PICK a \in Nat : a = n - 2 BY <1>6
    <2>3. a \in o + 1 .. n /\ Len(u) = n - 2 - a BY <1>6, <2>2
    <2>4. Reaches(o, n, a) BY <1>1, <1>6 DEF Reaches
    <2>5. RunsFrom(Three(u, x, y, n), o, n, a)
      BY <1>4, <1>6, <2>2, <2>3, <2>4, RunsMore
    <2>. QED BY <2>1, <2>3, <2>5
  <1>. QED BY <1>2, <1>3, <1>5, <1>6

\* That is each command in its place.
InPlace(w, S, o, n, a) ==
    /\ w \in Seq(Nat) /\ Len(w) = n - a + 1
    /\ \A k \in a .. n : w[k - a + 1] = RunIn(S, k)
    /\ FilledFrom(S, o, n, a)

LEMMA MoveInPlace ==
    ASSUME NEW o \in Nat, NEW R \in SUBSET (1..o), o \in R,
           NEW n \in Nat, n > o, NEW a \in o + 1 .. n,
           NEW w, RunsFrom(w, o, n, a)
    PROVE  InPlace(w, R \cup {n}, o, n, a)
  <1>. PICK S : S = R \cup {n} OBVIOUS
  <1>1. \A k \in o + 1 .. n :
            /\ FilledIn(S, k) <=> k >= n - 2 \/ n - o <= DropLimit
            /\ RunIn(S, k) = IF k >= n - 2 THEN k ELSE o
    <2>. SUFFICES ASSUME NEW k \in o + 1 .. n
                  PROVE  /\ FilledIn(S, k) <=> k >= n - 2 \/ n - o <= DropLimit
                         /\ RunIn(S, k) = IF k >= n - 2 THEN k ELSE o
      OBVIOUS
    <2>1. k >= n - 2 \/ k < n - 2 OBVIOUS
    <2>. QED BY <2>1, DueNext
  <1>2. /\ w \in Seq(Nat) /\ Len(w) = n - a + 1
        /\ \A k \in a .. n : w[k - a + 1] = IF k >= n - 2 THEN k ELSE o
        /\ \A k \in o + 1 .. n : k >= n - 2 \/ n - o <= DropLimit <=> k >= a
    BY DEF RunsFrom, Reaches
  <1>3. \A k \in a .. n : k \in o + 1 .. n OBVIOUS
  <1>4. InPlace(w, S, o, n, a) BY <1>1, <1>2, <1>3 DEF InPlace, FilledFrom
  <1>. QED BY <1>4

\* A packet of commands ends with its own.
EndsWith(w, S, n) == \E x \in Seq(S) : w = x \o <<n>>

LEMMA MoveEnds ==
    ASSUME NEW S, NEW c, c.lastcmd \in S, NEW p, p.oldest \in S,
           p.oldcmd \in S, NEW dropped \in Int,
           NEW w, w = SV_ExecuteClientMove(c, p, dropped)
    PROVE  EndsWith(w, S, p.newcmd)
  <1>. DEFINE a == IF dropped > 2 /\ dropped < DropLimit
                   THEN Repeat(c.lastcmd, dropped - 2) ELSE <<>>
              b == IF dropped > 1 THEN <<p.oldest>> ELSE <<>>
              d == IF dropped > 0 THEN <<p.oldcmd>> ELSE <<>>
  <1>1. a \in Seq(S)
    <2>1. CASE dropped > 2 /\ dropped < DropLimit
      <3>1. dropped - 2 \in Nat BY <2>1
      <3>. QED BY <2>1, <3>1 DEF Repeat
    <2>2. CASE ~(dropped > 2 /\ dropped < DropLimit)
      BY <2>2
    <2>. QED BY <2>1, <2>2
  <1>2. b \in Seq(S) /\ d \in Seq(S) OBVIOUS
  <1>3. w = ((a \o b) \o d) \o <<p.newcmd>> BY DEF SV_ExecuteClientMove
  <1>. HIDE DEF a, b, d
  <1>4. a \o b \in Seq(S) BY <1>1, <1>2, Concat
  <1>5. (a \o b) \o d \in Seq(S) BY <1>2, <1>4, Concat
  <1>. QED BY <1>3, <1>5 DEF EndsWith

\* What the packets under way bring of the commands before theirs: all since
\* packet n, as far as the two before it go.
Recovers(p, n) ==
    /\ n <= p.seq - 1 => p.oldcmd = p.seq - 1
    /\ n <= p.seq - 2 => p.oldest = p.seq - 2
RingBelow == \A s \in Slots : cl.frames[s].cmd < cl.outgoing
MovesUnderWay ==
    /\ \A p \in toServer : p.oldest < p.seq /\ p.oldcmd < p.seq
    /\ \A p, q \in toServer : p.level = q.level => Recovers(p, q.seq)
InGame ==
    /\ \A p \in toServer : Recovers(p, client.incoming)
    /\ client.lastcmd = client.incoming
    /\ received \subseteq 1 .. client.incoming
    /\ client.incoming \in received
    /\ Executed(received, client.incoming, ran)
Commands ==
    /\ RingBelow /\ MovesUnderWay
    /\ client.lastcmd <= client.incoming
    /\ client.state = "spawned" => InGame

LEMMA InitCommands == Init => Commands
  BY DEF Init, Commands, RingBelow, MovesUnderWay, NoFrame

\* A move has the commands that are in the ring.
LEMMA ClientFrameCommands ==
    ASSUME TypeInv, IInv, Commands, NEW nodelta \in BOOLEAN,
           ClientFrame(nodelta)
    PROVE  Commands'
  <1>. PICK o : o = cl.outgoing OBVIOUS
  <1>. PICK sent : sent = CL_SendCmd(cl, nodelta) OBVIOUS
  <1>. PICK mv : mv = Move(sent) OBVIOUS
  <1>1. /\ cl \in ClType /\ o \in Nat \ {0} /\ UPDATE_BACKUP \in Nat
        /\ UPDATE_BACKUP >= 4
        /\ \A s \in Slots : cl.frames[s].cmd \in Nat
    BY RingAssumption DEF TypeInv, ClType, FrameType
  <1>2. /\ cl' = CL_PredictMove(sent)
        /\ toServer' = toServer \cup {mv}
        /\ UNCHANGED <<client, toClient, received, ran>>
    BY DEF ClientFrame
  <1>3. CmdSent(cl, sent) /\ sent \in ClType
    <2>1. CmdSent(cl, sent) BY <1>1, SendCmd
    <2>. QED BY <2>1 DEF CmdSent
  <1>4. MovePredicted(sent, cl') BY <1>2, <1>3, PredictMove
  <1>5. /\ Slot(o) \in Slots /\ Slot(o - 1) \in Slots /\ Slot(o - 2) \in Slots
        /\ Slot(o - 1) # Slot(o) /\ Slot(o - 2) # Slot(o)
    <2>1. o - 1 \in Int /\ o - 2 \in Int /\ o \in Int BY <1>1
    <2>2. o - (o - 1) < UPDATE_BACKUP /\ o - (o - 2) < UPDATE_BACKUP
      BY <1>1
    <2>3. Slot(o - 1) # Slot(o) BY <2>1, <2>2, SlotsApart
    <2>4. Slot(o - 2) # Slot(o) BY <2>1, <2>2, SlotsApart
    <2>. QED BY <2>1, <2>3, <2>4, SlotType
  <1>6. /\ sent.outgoing = o + 1 /\ sent.frames[Slot(o)].cmd = o
        /\ \A s \in Slots : s # Slot(o) => sent.frames[s].cmd = cl.frames[s].cmd
    BY <1>3 DEF CmdSent
  <1>7. /\ mv.seq = o /\ mv.level = cl.level
        /\ mv.oldcmd = cl.frames[Slot(o - 1)].cmd
        /\ mv.oldest = cl.frames[Slot(o - 2)].cmd
    <2>1. sent.outgoing - 1 = o BY <1>1, <1>6
    <2>2. sent.level = cl.level BY <1>3 DEF CmdSent
    <2>3. /\ mv.seq = o /\ mv.level = sent.level
          /\ mv.oldcmd = sent.frames[Slot(o - 1)].cmd
          /\ mv.oldest = sent.frames[Slot(o - 2)].cmd
      BY <2>1 DEF Move
    <2>. QED BY <1>5, <1>6, <2>2, <2>3
  <1>8. RingBelow'
    <2>. SUFFICES ASSUME NEW s \in Slots PROVE cl'.frames[s].cmd < cl'.outgoing
      BY DEF RingBelow
    <2>1. cl'.frames[s].cmd = sent.frames[s].cmd /\ cl'.outgoing = o + 1
      BY <1>4, <1>6 DEF MovePredicted
    <2>2. cl.frames[s].cmd < o /\ cl.frames[s].cmd \in Nat
      BY <1>1 DEF Commands, RingBelow
    <2>3. sent.frames[s].cmd = o \/ sent.frames[s].cmd = cl.frames[s].cmd
      BY <1>6
    <2>. QED BY <1>1, <2>1, <2>2, <2>3
  <1>9. mv.oldest < mv.seq /\ mv.oldcmd < mv.seq
    BY <1>5, <1>7 DEF Commands, RingBelow
  <1>10. ASSUME NEW n \in Nat, CmdsFrom(n) PROVE Recovers(mv, n)
    <2>1. n <= o - 1 => cl.frames[Slot(o - 1)].cmd = o - 1
      <3>. SUFFICES ASSUME n <= o - 1 PROVE cl.frames[Slot(o - 1)].cmd = o - 1
        OBVIOUS
      <3>1. o - 1 \in n .. o - 1 /\ o - (o - 1) <= UPDATE_BACKUP BY <1>1
      <3>. QED BY <1>10, <3>1 DEF CmdsFrom
    <2>2. n <= o - 2 => cl.frames[Slot(o - 2)].cmd = o - 2
      <3>. SUFFICES ASSUME n <= o - 2 PROVE cl.frames[Slot(o - 2)].cmd = o - 2
        OBVIOUS
      <3>1. o - 2 \in n .. o - 1 /\ o - (o - 2) <= UPDATE_BACKUP BY <1>1
      <3>. QED BY <1>10, <3>1 DEF CmdsFrom
    <2>. QED BY <1>7, <2>1, <2>2 DEF Recovers
  <1>11. ASSUME NEW q \in toServer PROVE /\ q.seq \in Nat /\ q.seq < o
    BY DEF TypeInv, MoveType, IInv, Sequences
  <1>12. MovesUnderWay'
    <2>1. ASSUME NEW p \in toServer', NEW q \in toServer', p.level = q.level
          PROVE  Recovers(p, q.seq)
      <3>1. CASE p \in toServer /\ q \in toServer
        BY <2>1, <3>1 DEF Commands, MovesUnderWay
      <3>2. CASE p = mv /\ q \in toServer
        <4>1. q.level = cl.level BY <1>7, <2>1, <3>2
        <4>2. CmdsFrom(q.seq) BY <3>2, <4>1 DEF IInv, Requests
        <4>. QED BY <1>10, <1>11, <3>2, <4>2
      <3>3. CASE q = mv
        <4>1. p.seq \in Nat /\ p.seq <= q.seq
          BY <1>1, <1>2, <1>7, <1>11, <3>3
        <4>2. q.seq \in Nat BY <1>1, <1>7, <3>3
        <4>. QED BY <4>1, <4>2 DEF Recovers
      <3>. QED BY <1>2, <3>1, <3>2, <3>3
    <2>2. \A p \in toServer' : p.oldest < p.seq /\ p.oldcmd < p.seq
      BY <1>2, <1>9 DEF Commands, MovesUnderWay
    <2>. QED BY <2>1, <2>2 DEF MovesUnderWay
  <1>13. client.state = "spawned" => InGame'
    <2>. SUFFICES ASSUME client.state = "spawned" PROVE InGame' OBVIOUS
    <2>1. CmdsFrom(client.incoming) /\ client.incoming \in Nat
      BY DEF IInv, Requests, TypeInv, ServerSlot
    <2>2. Recovers(mv, client.incoming) BY <1>10, <2>1
    <2>3. InGame BY DEF Commands
    <2>4. \A p \in toServer' : Recovers(p, client.incoming)
      BY <1>2, <2>2, <2>3 DEF InGame
    <2>. QED BY <1>2, <2>3, <2>4 DEF InGame
  <1>14. client' = client BY <1>2
  <1>. QED BY <1>8, <1>12, <1>13, <1>14 DEF Commands

LEMMA ClientReadsCommands ==
    ASSUME TypeInv, IInv, Commands, NEW p \in toClient, ClientReads(p)
    PROVE  Commands'
  <1>1. cl \in ClType /\ p \in PacketType BY DEF TypeInv
  <1>2. /\ cl' = CL_ParseServerMessage(cl, p)
        /\ UNCHANGED <<client, toServer, received, ran>>
    BY DEF ClientReads
  <1>3. MessageParsed(cl, p, cl') BY <1>1, <1>2, ParseMessage
  <1>4. RingBelow'
    BY <1>3 DEF MessageParsed, RingBelow, Commands
  <1>5. MovesUnderWay' /\ (InGame => InGame')
    BY <1>2 DEF Commands, MovesUnderWay, InGame
  <1>. QED BY <1>2, <1>4, <1>5 DEF Commands

LEMMA ClientHearsCommands ==
    ASSUME TypeInv, IInv, Commands, NEW p \in toClient, ClientHears(p)
    PROVE  Commands'
  <1>1. cl \in ClType /\ p \in PacketType /\ cl.outgoing \in Nat \ {0}
        /\ p.level \in Nat /\ p.seq \in Nat
    BY DEF TypeInv, ClType, PacketType
  <1>2. /\ cl' = CL_ClearState([cl EXCEPT !.incoming = p.seq], p.level)
        /\ UNCHANGED <<client, toServer, received, ran>>
    BY DEF ClientHears
  <1>3. RingBelow'
    <2>1. cl'.outgoing = cl.outgoing BY <1>1, <1>2, ClearState
    <2>2. cl'.frames = [s \in Slots |-> NoFrame]
      BY <1>1, <1>2 DEF CL_ClearState, ClType
    <2>3. NoFrame.cmd = 0 BY DEF NoFrame
    <2>4. \A s \in Slots : cl'.frames[s].cmd = 0 BY <2>2, <2>3
    <2>. QED BY <1>1, <2>1, <2>4 DEF RingBelow
  <1>4. MovesUnderWay' /\ (InGame => InGame')
    BY <1>2 DEF Commands, MovesUnderWay, InGame
  <1>. QED BY <1>2, <1>3, <1>4 DEF Commands

\* The client is where it was in the game.
LEMMA SameCommands ==
    ASSUME Commands, UNCHANGED <<cl, toServer, received, ran>>,
           client'.incoming = client.incoming,
           client'.lastcmd = client.lastcmd,
           client'.state = "spawned" => client.state = "spawned"
    PROVE  Commands'
  <1>1. RingBelow' /\ MovesUnderWay' /\ (InGame => InGame')
    BY DEF Commands, RingBelow, MovesUnderWay, InGame
  <1>. QED BY <1>1 DEF Commands

\* The packet with the "begin": what is run before its command is earlier.
LEMMA BeginExecuted ==
    ASSUME NEW n \in Nat \ {0}, NEW c, c.lastcmd \in 0 .. n - 1,
           NEW p, p.newcmd = n, p.oldest \in 0 .. n - 1,
           p.oldcmd \in 0 .. n - 1, NEW dropped \in Int,
           NEW w, w = SV_ExecuteClientMove(c, p, dropped)
    PROVE  Executed({n}, n, w)
  <1>1. PICK S : S = 0 .. n - 1 OBVIOUS
  <1>2. PICK x \in Seq(S) : w = x \o <<n>>
    <2>1. c.lastcmd \in S /\ p.oldest \in S /\ p.oldcmd \in S BY <1>1
    <2>2. EndsWith(w, S, p.newcmd) BY <2>1, MoveEnds
    <2>. QED BY <2>2 DEF EndsWith
  <1>3. PICK z : z = x \o <<n>> OBVIOUS
  <1>4. x \in Seq(Nat) /\ \A i \in 1 .. Len(x) : x[i] < n
    <2>1. x \in Seq(0 .. n - 1) BY <1>1
    <2>. QED BY <2>1
  <1>5. /\ Len(z) = Len(x) + 1 /\ z[Len(x) + 1] = n
        /\ \A i \in 1 .. Len(x) : z[i] = x[i]
    BY <1>3, <1>4
  <1>. PICK l \in Nat : l = Len(x) BY <1>4
  <1>6. /\ Len(z) = l + 1 /\ z[l + 1] = n
        /\ \A i \in 1 .. l : z[i] < n
    BY <1>4, <1>5
  <1>7. Executed({n}, n, z) BY <1>6, ExecutedFirst
  <1>. QED BY <1>2, <1>3, <1>7

\* A packet in the game.
LEMMA NextExecuted ==
    ASSUME NEW o \in Nat, NEW R \in SUBSET (1..o), o \in R,
           NEW n \in Nat, n > o, NEW c, c.lastcmd = o, NEW p, p.newcmd = n,
           o <= n - 1 => p.oldcmd = n - 1, o <= n - 2 => p.oldest = n - 2,
           NEW w, w = SV_ExecuteClientMove(c, p, n - (o + 1)),
           NEW r \in Seq(Nat), Executed(R, o, r), NEW t, t = r \o w
    PROVE  Executed(R \cup {n}, n, t)
  <1>1. PICK d \in Nat : d = n - (o + 1) OBVIOUS
  <1>2. PICK a \in o + 1 .. n : RunsFrom(w, o, n, a)
    <2>1. w = SV_ExecuteClientMove(c, p, d) BY <1>1
    <2>. QED BY <1>1, <2>1, MoveInOrder
  <1>3. PICK S : S = R \cup {n} OBVIOUS
  <1>4. /\ w \in Seq(Nat) /\ Len(w) = n - a + 1
        /\ \A k \in a .. n : w[k - a + 1] = RunIn(S, k)
        /\ FilledFrom(S, o, n, a)
    <2>1. InPlace(w, R \cup {n}, o, n, a) BY <1>2, MoveInPlace
    <2>. QED BY <1>3, <2>1 DEF InPlace
  <1>5. PICK z : z = r \o w OBVIOUS
  <1>6. /\ Len(z) = Len(r) + Len(w)
        /\ \A i \in 1 .. Len(r) : z[i] = r[i]
        /\ \A i \in 1 .. Len(w) : z[Len(r) + i] = w[i]
    BY <1>4, <1>5
  <1>. PICK l \in Nat : l = Len(r) OBVIOUS
  <1>7. Len(z) = l + (n - a + 1) /\ \A i \in 1 .. l : z[i] = r[i]
    BY <1>4, <1>6
  <1>8. \A k \in a .. n : z[l + (k - a + 1)] = RunIn(S, k)
    <2>. SUFFICES ASSUME NEW k \in a .. n
                  PROVE  z[l + (k - a + 1)] = RunIn(S, k)
      OBVIOUS
    <2>1. k - a + 1 \in 1 .. Len(w) BY <1>4
    <2>. QED BY <1>4, <1>6, <2>1
  <1>9. GoesOn(z, r, S, n, a) BY <1>7, <1>8 DEF GoesOn
  <1>10. Executed(R \cup {n}, n, z)
    BY <1>3, <1>4, <1>9, ExecutedNext
  <1>11. t = z BY <1>5
  <1>. QED BY <1>10, <1>11

LEMMA ServerReadsCommands ==
    ASSUME TypeInv, IInv, TypeInv', IInv', Commands, NEW q \in toServer,
           ServerReads(q)
    PROVE  Commands'
  <1>1. PICK begins \in BOOLEAN :
            /\ begins => client.state = "connected" /\ q.level = client.level
            /\ SV_ExecuteClientMessage(q, begins)
    BY DEF ServerReads
  <1>. PICK n : n = q.seq OBVIOUS
  <1>. PICK o : o = client.incoming OBVIOUS
  <1>. PICK w : w = SV_ExecuteClientMove(client, q, n - (o + 1)) OBVIOUS
  <1>2. /\ client \in ServerSlot /\ n \in Nat \ {0} /\ o \in Nat /\ o < n
        /\ q.newcmd = n /\ q.oldest \in Nat /\ q.oldcmd \in Nat
        /\ client.lastcmd \in Nat /\ client.lastcmd <= o
        /\ q.oldest < n /\ q.oldcmd < n /\ ran \in Seq(Nat)
    <2>1. q \in MoveType /\ client \in ServerSlot /\ ran \in Seq(Nat)
      BY DEF TypeInv
    <2>2. o < n /\ q.newcmd = n BY DEF IInv, Sequences
    <2>3. client.lastcmd <= o /\ q.oldest < n /\ q.oldcmd < n
      BY DEF Commands, MovesUnderWay
    <2>. QED BY <2>1, <2>2, <2>3 DEF MoveType, ServerSlot
  <1>3. cl' = cl /\ toServer' \subseteq toServer
    BY DEF ServerReads
  <1>4. /\ client'.incoming = n
        /\ client'.state = (IF begins THEN "spawned" ELSE client.state)
        /\ client'.lastcmd = (IF begins \/ client.state = "spawned"
                              THEN n ELSE client.lastcmd)
        /\ client'.level = client.level
    BY <1>1, <1>2 DEF SV_ExecuteClientMessage, ServerSlot
  <1>5. RingBelow' /\ MovesUnderWay'
    BY <1>3 DEF Commands, RingBelow, MovesUnderWay
  <1>6. client'.lastcmd <= client'.incoming
    BY <1>2, <1>4
  <1>7. ASSUME client'.state = "spawned"
        PROVE  \A p \in toServer' : Recovers(p, client'.incoming)
    <2>. SUFFICES ASSUME NEW p \in toServer' PROVE Recovers(p, n)
      BY <1>4
    <2>1. p.level = cl.level /\ client.level = cl.level
      BY <1>3, <1>4, <1>7 DEF IInv, Levels
    <2>2. q.level = cl.level
      <3>1. CASE begins BY <1>1, <2>1, <3>1
      <3>2. CASE ~begins
        <4>1. client.state = "spawned" BY <1>4, <1>7, <3>2
        <4>. QED BY <4>1 DEF IInv, Levels
      <3>. QED BY <3>1, <3>2
    <2>3. p.level = q.level /\ p \in toServer BY <1>3, <2>1, <2>2
    <2>. QED BY <2>3 DEF Commands, MovesUnderWay
  <1>8. CASE begins
    <2>1. received' = {n} /\ ran' = <<>> \o w
      BY <1>1, <1>8 DEF SV_ExecuteClientMessage
    <2>2. Executed({n}, n, w)
      <3>1. /\ client.lastcmd \in 0 .. n - 1 /\ q.oldest \in 0 .. n - 1
            /\ q.oldcmd \in 0 .. n - 1 /\ n - (o + 1) \in Int
        <4>1. client.lastcmd \in 0 .. n - 1 BY <1>2
        <4>2. q.oldest \in 0 .. n - 1 BY <1>2
        <4>3. q.oldcmd \in 0 .. n - 1 BY <1>2
        <4>4. n - (o + 1) \in Int BY <1>2
        <4>. QED BY <4>1, <4>2, <4>3, <4>4
      <3>2. PICK dropped \in Int : dropped = n - (o + 1) BY <3>1
      <3>3. w = SV_ExecuteClientMove(client, q, dropped) BY <3>2
      <3>. QED BY <1>2, <3>1, <3>3, BeginExecuted
    <2>3. ran' = w
      <3>1. w \in Seq(Nat)
        <4>1. PICK N : N = Nat OBVIOUS
        <4>2. /\ client.lastcmd \in N /\ q.oldest \in N /\ q.oldcmd \in N
              /\ q.newcmd \in N
          BY <1>2, <4>1
        <4>3. PICK dropped \in Int : dropped = n - (o + 1) BY <1>2
        <4>4. w = SV_ExecuteClientMove(client, q, dropped) BY <4>3
        <4>5. SV_ExecuteClientMove(client, q, dropped) \in Seq(N)
          BY <4>2, MoveRuns
        <4>. QED BY <4>1, <4>4, <4>5
      <3>. QED BY <2>1, <3>1
    <2>4. InGame'
      <3>1. /\ client'.state = "spawned" /\ client'.lastcmd = n
            /\ client'.incoming = n
        BY <1>4, <1>8
      <3>2. received' \subseteq 1 .. n /\ n \in received' BY <1>2, <2>1
      <3>3. Executed(received', n, ran') BY <2>1, <2>2, <2>3
      <3>. QED BY <1>7, <3>1, <3>2, <3>3 DEF InGame
    <2>. QED BY <1>5, <1>6, <2>4 DEF Commands
  <1>9. CASE ~begins /\ client.state = "spawned"
    <2>1. received' = received \cup {n} /\ ran' = ran \o w
      BY <1>1, <1>9 DEF SV_ExecuteClientMessage
    <2>2. InGame BY <1>9 DEF Commands
    <2>3. /\ client.lastcmd = o /\ received \in SUBSET (1 .. o)
          /\ o \in received /\ Executed(received, o, ran)
          /\ o <= n - 1 => q.oldcmd = n - 1
          /\ o <= n - 2 => q.oldest = n - 2
      BY <2>2 DEF InGame, Recovers
    <2>4. Executed(received \cup {n}, n, ran')
      BY <1>2, <2>1, <2>3, NextExecuted
    <2>5. InGame'
      <3>1. /\ client'.state = "spawned" /\ client'.lastcmd = n
            /\ client'.incoming = n
        BY <1>4, <1>9
      <3>2. received' \subseteq 1 .. n /\ n \in received'
        <4>1. 1 .. o \subseteq 1 .. n /\ n \in 1 .. n BY <1>2
        <4>. QED BY <2>1, <2>3, <4>1
      <3>. QED BY <1>7, <2>1, <2>4, <3>1, <3>2 DEF InGame
    <2>. QED BY <1>5, <1>6, <2>5 DEF Commands
  <1>10. CASE ~begins /\ client.state # "spawned"
    <2>1. client'.state # "spawned" BY <1>4, <1>10
    <2>. QED BY <1>5, <1>6, <2>1 DEF Commands
  <1>. QED BY <1>8, <1>9, <1>10

\* RunsEach: every command of the client is run once and in order, recovered
\* from one of the two packets after it if its own is lost; a longer gap is
\* filled with the last command, up to DropLimit.
THEOREM RunsEachOnce == Spec => []RunsEach
  <1>1. TypeInv /\ IInv /\ TypeInv' /\ IInv' /\ Commands /\ [Next]_vars
            => Commands'
    <2>. SUFFICES ASSUME TypeInv, IInv, TypeInv', IInv', Commands, [Next]_vars
                  PROVE  Commands'
      OBVIOUS
    <2>0. client \in ServerSlot BY DEF TypeInv
    <2>1. ASSUME NEW nodelta \in Nodelta, ClientFrame(nodelta) PROVE Commands'
      BY <2>1, ClientFrameCommands, RingAssumption
    <2>2. ASSUME NEW p \in toClient, ClientReads(p) PROVE Commands'
      BY <2>2, ClientReadsCommands
    <2>3. ASSUME NEW p \in toClient, ClientHears(p) PROVE Commands'
      BY <2>3, ClientHearsCommands
    <2>4. ASSUME NEW p \in toServer, ServerReads(p) PROVE Commands'
      BY <2>4, ServerReadsCommands
    <2>5. CASE ServerAnswers
      <3>1. /\ client'.incoming = client.incoming
            /\ client'.lastcmd = client.lastcmd
            /\ client'.state = client.state
        BY <2>0, <2>5 DEF ServerAnswers, Sent, SV_WriteEntitiesToClient,
                          ServerSlot
      <3>. QED BY <2>5, <3>1, SameCommands DEF ServerAnswers
    <2>6. CASE ServerChokes
      <3>1. /\ client'.incoming = client.incoming
            /\ client'.lastcmd = client.lastcmd
            /\ client'.state = client.state
        BY <2>0, <2>6 DEF ServerChokes, ServerSlot
      <3>. QED BY <2>6, <3>1, SameCommands DEF ServerChokes
    <2>7. CASE LevelChange
      <3>1. /\ client'.incoming = client.incoming
            /\ client'.lastcmd = client.lastcmd
            /\ client'.state = "connected"
        BY <2>0, <2>7 DEF LevelChange, Sent, ServerSlot
      <3>. QED BY <2>7, <3>1, SameCommands DEF LevelChange
    <2>8. CASE UNCHANGED vars
      BY <2>8, SameCommands DEF vars
    <2>. QED BY <2>1, <2>2, <2>3, <2>4, <2>5, <2>6, <2>7, <2>8 DEF Next
  <1>2. Commands => RunsEach
    <2>. SUFFICES ASSUME Commands, client.state = "spawned"
                  PROVE  /\ EarlierIn(received, client.incoming, ran) >= 0
                         /\ \A i \in 1 .. EarlierIn(received, client.incoming, ran) :
                               ran[i] < FirstIn(received)
                         /\ \A k \in DueIn(received, client.incoming) :
                               ran[PlaceIn(received, client.incoming, ran, k)]
                                   = RunIn(received, k)
      BY DEF RunsEach, Filled, Kept, After, Before, EarlierIn, FirstIn,
             DueIn, PlaceIn, RunIn, FilledIn, KeptIn, AfterIn, BeforeIn
    <2>1. Executed(received, client.incoming, ran) BY DEF Commands, InGame
    <2>. QED BY <2>1 DEF Executed
  <1>. QED BY <1>1, <1>2, Inductive, InitCommands, PTL DEF Spec
=============================================================================
