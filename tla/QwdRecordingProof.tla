--------------------------- MODULE QwdRecordingProof ---------------------------
(***************************************************************************)
(* A QWD demo shows what the client that recorded it saw (QwdRecording),   *)
(* for every size of the ring and every number of packets and levels.      *)
(*                                                                         *)
(* The invariant relates three rings: the client's, the player's and       *)
(* in_qwd.  A delta is recorded as it came only from a frame in_qwd has;   *)
(* then that frame came after the recording began, and the player has the  *)
(* same entities in its slot and asks for the same base.                   *)
(***************************************************************************)
EXTENDS QwdRecording, FrameExchangeProof

-----------------------------------------------------------------------------
(* Recording does not change the game.                                     *)

LEMMA Recorded == RecordSpec => Spec
  <1>1. RecordInit => Init BY DEF RecordInit
  <1>2. [RecordNext]_<<vars, demo>> => [Next]_vars
    <2>. SUFFICES ASSUME RecordNext, ~ UNCHANGED vars PROVE Next
      OBVIOUS
    <2>1. ASSUME NEW nodelta \in Nodelta, RecordFrame(nodelta) PROVE Next
      BY <2>1 DEF RecordFrame, Next
    <2>2. ASSUME NEW p \in toClient, RecordRead(p) \/ RecordServerdata(p)
          PROVE  Next
      BY <2>2 DEF RecordRead, RecordServerdata, Next
    <2>3. CASE CL_Record \/ CL_Stop
      BY <2>3 DEF CL_Record, CL_Stop
    <2>. QED BY <2>1, <2>2, <2>3 DEF RecordNext, Next
  <1>. QED BY <1>1, <1>2, PTL DEF RecordSpec, Spec

-----------------------------------------------------------------------------
(* The inductive invariant.                                                *)

Following ==
    /\ player \in ClType
    /\ player.outgoing = cl.outgoing
    /\ since \in Nat /\ since <= cl.incoming
    /\ cl.delta_sequence > since =>
          /\ player.validsequence = cl.validsequence
          /\ player.delta_sequence = cl.delta_sequence
          /\ player.frames[Slot(cl.validsequence)].entities = cl.validsequence
    /\ \A s \in Slots : cl.frames[s].delta_sequence > since =>
          player.frames[s].delta_sequence = cl.frames[s].delta_sequence
    /\ \A s \in Slots : in_qwd[s] =>
          /\ player.frames[s].entities = cl.frames[s].entities
          /\ \E m \in since + 1 .. cl.outgoing - 1 : Slot(m) = s

AsksForSeen ==
    \A s \in Slots : /\ cl.frames[s].delta_sequence <= cl.incoming
                     /\ cl.frames[s].entities # None

QInv ==
    /\ in_qwd \in [Slots -> BOOLEAN]
    /\ AsksForSeen
    /\ demorecording \in BOOLEAN
    /\ demorecording => Following

-----------------------------------------------------------------------------
(* What the operations do to the fields of a client.                       *)

CmdRead(c, r) ==
    /\ r \in ClType
    /\ r.outgoing = c.outgoing + 1
    /\ r.validsequence = c.validsequence
    /\ r.delta_sequence = c.delta_sequence
    /\ r.frames[Slot(c.outgoing)].delta_sequence = c.delta_sequence
    /\ \A s \in Slots :
          /\ r.frames[s].entities = c.frames[s].entities
          /\ s # Slot(c.outgoing) => r.frames[s].delta_sequence
                                         = c.frames[s].delta_sequence

LEMMA ReadCmdFields ==
    ASSUME NEW c \in ClType, NEW cmd \in Nat
    PROVE  CmdRead(c, ReadCmd(c, cmd))
  <1>. DEFINE n == Slot(c.outgoing)
              f == [c.frames[n] EXCEPT !.cmd = cmd,
                                       !.delta_sequence = c.delta_sequence]
              fr == [c.frames EXCEPT ![n] = f]
              o == c.outgoing + 1
  <1>1. PICK r : r = ReadCmd(c, cmd) OBVIOUS
  <1>2. c.outgoing \in Nat \ {0} /\ c.delta_sequence \in Nat
        /\ c.frames \in [Slots -> FrameType] /\ n \in Slots
        /\ c.frames[n] \in FrameType
    BY SlotType DEF ClType
  <1>3. r = [c EXCEPT !.outgoing = o, !.frames = fr]
    BY <1>1, <1>2 DEF ReadCmd, ClType
  <1>4. /\ f \in FrameType
        /\ f.delta_sequence = c.delta_sequence
        /\ f.entities = c.frames[n].entities
    <2>1. PICK g : g = c.frames[n] OBVIOUS
    <2>2. PICK d : d = c.delta_sequence OBVIOUS
    <2>3. g \in FrameType /\ d \in Int BY <1>2, <2>1, <2>2
    <2>4. f = [g EXCEPT !.cmd = cmd, !.delta_sequence = d] BY <2>1, <2>2
    <2>. HIDE DEF f, n
    <2>. QED BY <2>1, <2>2, <2>3, <2>4 DEF FrameType
  <1>5. o \in Nat \ {0} BY <1>2
  <1>. HIDE DEF f, o
  <1>6. fr \in [Slots -> FrameType] BY <1>2, <1>4
  <1>7. /\ fr[n].delta_sequence = c.delta_sequence
        /\ \A s \in Slots :
              /\ fr[s].entities = c.frames[s].entities
              /\ s # n => fr[s].delta_sequence = c.frames[s].delta_sequence
    BY <1>2, <1>4
  <1>. HIDE DEF fr
  <1>8. r \in ClType /\ r.outgoing = o /\ r.frames = fr
        /\ r.validsequence = c.validsequence
        /\ r.delta_sequence = c.delta_sequence
    BY <1>3, <1>5, <1>6 DEF ClType
  <1>. QED BY <1>1, <1>7, <1>8 DEF o, CmdRead

\* The client that has taken p, before it parses the entities.
Filed(c, p) ==
    [[c EXCEPT !.incoming = p.seq]
        EXCEPT !.frames[Slot(p.ack)].playerstate = p.player]

PacketFiled(c, p, r) ==
    /\ r \in ClType
    /\ r.incoming = p.seq /\ r.outgoing = c.outgoing
    /\ r.validsequence = c.validsequence
    /\ r.delta_sequence = c.delta_sequence
    /\ \A s \in Slots :
          /\ r.frames[s].entities = c.frames[s].entities
          /\ r.frames[s].delta_sequence = c.frames[s].delta_sequence

LEMMA FiledFields ==
    ASSUME NEW c \in ClType, NEW p \in PacketType
    PROVE  PacketFiled(c, p, Filed(c, p))
  <1>. DEFINE n == Slot(p.ack)
              f == [c.frames[n] EXCEPT !.playerstate = p.player]
              fr == [c.frames EXCEPT ![n] = f]
  <1>1. PICK r : r = Filed(c, p) OBVIOUS
  <1>2. p.seq \in Nat /\ p.player \in Nat /\ p.ack \in Nat
        /\ c.frames \in [Slots -> FrameType] /\ n \in Slots
    BY SlotType DEF ClType, PacketType
  <1>3. r = [c EXCEPT !.incoming = p.seq, !.frames = fr]
    BY <1>1, <1>2 DEF Filed, ClType
  <1>4. /\ f \in FrameType
        /\ f.delta_sequence = c.frames[n].delta_sequence
        /\ f.entities = c.frames[n].entities
    BY <1>2 DEF FrameType
  <1>. HIDE DEF f
  <1>5. fr \in [Slots -> FrameType] BY <1>2, <1>4
  <1>6. \A s \in Slots :
           /\ fr[s].entities = c.frames[s].entities
           /\ fr[s].delta_sequence = c.frames[s].delta_sequence
    BY <1>2, <1>4
  <1>. HIDE DEF fr
  <1>7. r \in ClType /\ r.incoming = p.seq /\ r.frames = fr
        /\ r.outgoing = c.outgoing /\ r.validsequence = c.validsequence
        /\ r.delta_sequence = c.delta_sequence
    BY <1>2, <1>3, <1>5 DEF ClType
  <1>. QED BY <1>1, <1>6, <1>7 DEF PacketFiled

\* The frame that is shown has the entities.
LEMMA ShowsFields ==
    ASSUME NEW c \in ClType, NEW e
    PROVE  LET r == Shows(c, e) IN
           /\ r.validsequence = c.incoming /\ r.delta_sequence = c.incoming
           /\ r.frames[Slot(c.incoming)].entities = e
  <1>1. /\ Slot(c.incoming) \in Slots
        /\ c.frames \in [Slots -> FrameType]
        /\ c.frames[Slot(c.incoming)] \in FrameType
    BY SlotType DEF ClType
  <1>. DEFINE f == [c.frames[Slot(c.incoming)] EXCEPT !.entities = e,
                                                      !.invalid = FALSE]
              fr == [c.frames EXCEPT ![Slot(c.incoming)] = f]
  <1>2. Shows(c, e) = [c EXCEPT !.state = "active", !.validsequence = c.incoming,
                                !.delta_sequence = c.incoming, !.frames = fr]
    BY DEF Shows, ClType
  <1>3. f.entities = e BY <1>1 DEF FrameType
  <1>. HIDE DEF f
  <1>4. fr[Slot(c.incoming)] = f BY <1>1
  <1>. HIDE DEF fr
  <1>. QED BY <1>2, <1>3, <1>4 DEF ClType

\* A delta is good for c: it can be put on the entities of the frame that c
\* asked for with the command of the packet's number.
Good(c, update) ==
    LET d == c.frames[Slot(c.incoming)].delta_sequence IN
    /\ c.outgoing - c.incoming < UPDATE_BACKUP - 1
    /\ Slot(update.from) = Slot(d)
    /\ c.outgoing - d < UPDATE_BACKUP - 1

\* What the entities of c become.
Patched(c, update) ==
    LET d == c.frames[Slot(c.incoming)].delta_sequence IN
    IF c.frames[Slot(d)].entities = update.base THEN update.entities ELSE Torn

\* A list without a base is shown; of a delta, its base decides.
LEMMA Parsing ==
    ASSUME NEW c \in ClType, NEW update \in UpdateType
    PROVE  LET r == CL_ParsePacketEntities(c, update) IN
           /\ update.from = None => r = Shows(c, update.entities)
           /\ update.from # None /\ Good(c, update)
                 => r = Shows(c, Patched(c, update))
           /\ update.from # None /\ ~Good(c, update)
                 => r.delta_sequence = 0
  <1>. DEFINE n == c.incoming
              d == c.frames[Slot(n)].delta_sequence
              r == CL_ParsePacketEntities(c, update)
              NoneLeft == c.outgoing - n >= UPDATE_BACKUP - 1
              Mismatch == Slot(update.from) # Slot(d)
              TooOld == c.outgoing - d >= UPDATE_BACKUP - 1
  <1>1. n \in Nat /\ c.outgoing \in Nat /\ d \in Int /\ UPDATE_BACKUP \in Nat
    BY SlotType, RingAssumption DEF ClType, FrameType
  <1>2. Good(c, update) <=> ~NoneLeft /\ ~Mismatch /\ ~TooOld
    BY <1>1 DEF Good
  <1>3. CASE update.from = None
    BY <1>3 DEF CL_ParsePacketEntities
  <1>4. CASE update.from # None /\ (NoneLeft \/ Mismatch)
    <2>1. r = [FlushEntityPacket(c) EXCEPT !.validsequence = 0]
      BY <1>4 DEF CL_ParsePacketEntities
    <2>2. r.delta_sequence = 0
      BY <2>1 DEF FlushEntityPacket, ClType
    <2>. QED BY <1>2, <1>4, <2>2
  <1>5. CASE update.from # None /\ ~NoneLeft /\ ~Mismatch /\ TooOld
    <2>1. r = FlushEntityPacket(c)
      BY <1>5 DEF CL_ParsePacketEntities
    <2>2. r.delta_sequence = 0
      BY <2>1 DEF FlushEntityPacket, ClType
    <2>. QED BY <1>2, <1>5, <2>2
  <1>6. CASE update.from # None /\ ~NoneLeft /\ ~Mismatch /\ ~TooOld
    <2>1. r = Shows(c, Patched(c, update))
      BY <1>6 DEF CL_ParsePacketEntities, Patched
    <2>. QED BY <1>2, <1>6, <2>1
  <1>. QED BY <1>3, <1>4, <1>5, <1>6

-----------------------------------------------------------------------------
(* The invariant, action by action.                                        *)

LEMMA RecordInitInv == RecordInit => QInv
  <1>. SUFFICES ASSUME RecordInit PROVE QInv OBVIOUS
  <1>1. \A s \in Slots : /\ cl.frames[s].delta_sequence = 0 /\ cl.incoming = 0
                         /\ cl.frames[s].entities = 0
    BY DEF RecordInit, Init, NoFrame
  <1>2. AsksForSeen BY <1>1 DEF AsksForSeen, None
  <1>3. demorecording = FALSE /\ in_qwd = [s \in Slots |-> FALSE]
    BY DEF RecordInit
  <1>. QED BY <1>2, <1>3 DEF QInv

\* CL_Record: no delta the client may still take is based on a packet that
\* came after this moment.
LEMMA RecordStep ==
    ASSUME TypeInv, IInv, QInv, CL_Record
    PROVE  QInv'
  <1>1. /\ cl' = cl /\ demorecording' = TRUE /\ since' = cl.incoming
        /\ in_qwd' = [s \in Slots |-> FALSE]
        /\ player' = CL_ClearState(cl, cl.level)
    BY DEF CL_Record, AtStart, vars
  <1>2. cl \in ClType BY DEF TypeInv
  <1>3. player' \in ClType /\ player'.outgoing = cl.outgoing
    <2>1. NoFrame \in FrameType BY DEF NoFrame, FrameType
    <2>. QED BY <1>1, <1>2, <2>1 DEF CL_ClearState, ClType
  <1>4. cl.incoming \in Nat /\ cl.delta_sequence \in Nat
        /\ \A s \in Slots : cl.frames[s].delta_sequence \in Int
    BY <1>2 DEF ClType, FrameType
  <1>5. cl.delta_sequence <= cl.incoming
    BY <1>2, <1>4 DEF IInv, ClientValid, ClType
  <1>6. \A s \in Slots : ~(cl.frames[s].delta_sequence > cl.incoming)
    BY <1>4 DEF QInv, AsksForSeen
  <1>7. AsksForSeen' BY <1>1 DEF QInv, AsksForSeen
  <1>8. Following' BY <1>1, <1>3, <1>4, <1>5, <1>6 DEF Following
  <1>. QED BY <1>1, <1>7, <1>8 DEF QInv

\* A frame of the client: the command is in the demo, and the player asks with
\* it for the base the client asked for.
LEMMA RecordFrameStep ==
    ASSUME TypeInv, TypeInv', IInv, QInv, NEW nodelta \in Nodelta,
           RecordFrame(nodelta)
    PROVE  QInv'
  <1>. DEFINE n == Slot(cl.outgoing)
              sent == CL_SendCmd(cl, nodelta)
  <1>1. cl \in ClType /\ cl' \in ClType BY DEF TypeInv
  <1>2. nodelta \in BOOLEAN BY RingAssumption
  <1>3. CmdSent(cl, sent) BY <1>1, <1>2, SendCmd
  <1>4. MovePredicted(sent, cl')
    BY <1>3, PredictMove DEF CmdSent, RecordFrame, ClientFrame
  <1>5. /\ cl'.outgoing = cl.outgoing + 1 /\ cl'.incoming = cl.incoming
        /\ \/ /\ cl'.validsequence = cl.validsequence
              /\ cl'.delta_sequence = cl.delta_sequence
           \/ cl'.delta_sequence = 0
        /\ \/ cl'.frames[n].delta_sequence = None
           \/ cl'.frames[n].delta_sequence = cl.delta_sequence
        /\ \A s \in Slots : cl'.frames[s].entities = cl.frames[s].entities
        /\ \A s \in Slots \ {n} : cl'.frames[s].delta_sequence
                                      = cl.frames[s].delta_sequence
    <2>. HIDE DEF sent
    <2>1. n \in Slots BY <1>1, SlotType DEF ClType
    <2>. QED BY <1>3, <1>4, <2>1 DEF CmdSent, MovePredicted
  <1>6. cl.incoming \in Nat /\ cl.delta_sequence \in Nat /\ cl.outgoing \in Nat
        /\ n \in Slots
    BY <1>1, SlotType DEF ClType
  <1>7. cl.delta_sequence <= cl.incoming
    BY <1>1, <1>6 DEF IInv, ClientValid, ClType
  <1>8. AsksForSeen'
    BY <1>5, <1>6, <1>7 DEF QInv, AsksForSeen, None
  <1>9. UNCHANGED <<demorecording, in_qwd, since>> BY DEF RecordFrame
  <1>10. ASSUME demorecording PROVE Following'
    <2>1. Following BY <1>10 DEF QInv
    <2>2. player' = ReadCmd(player, cl.outgoing)
      BY <1>10 DEF RecordFrame
    <2>3. player \in ClType /\ player.outgoing = cl.outgoing
          /\ since \in Nat /\ since <= cl.incoming
      BY <2>1 DEF Following
    <2>4. /\ player' \in ClType
          /\ player'.outgoing = cl.outgoing + 1
          /\ player'.validsequence = player.validsequence
          /\ player'.delta_sequence = player.delta_sequence
          /\ player'.frames[n].delta_sequence = player.delta_sequence
          /\ \A s \in Slots :
                /\ player'.frames[s].entities = player.frames[s].entities
                /\ s # n => player'.frames[s].delta_sequence
                                = player.frames[s].delta_sequence
      <3>1. CmdRead(player, player') BY <1>6, <2>2, <2>3, ReadCmdFields
      <3>2. Slot(player.outgoing) = n BY <2>3
      <3>. HIDE DEF n
      <3>. QED BY <2>3, <3>1, <3>2 DEF CmdRead
    <2>5. cl'.delta_sequence > since =>
             /\ player'.validsequence = cl'.validsequence
             /\ player'.delta_sequence = cl'.delta_sequence
             /\ player'.frames[Slot(cl'.validsequence)].entities
                    = cl'.validsequence
      <3>1. cl.validsequence \in Nat /\ Slot(cl.validsequence) \in Slots
        BY <1>1, SlotType DEF ClType
      <3>2. ~(0 > since) BY <2>3
      <3>. QED BY <1>5, <2>1, <2>4, <3>1, <3>2 DEF Following
    <2>6. \A s \in Slots : cl'.frames[s].delta_sequence > since =>
             player'.frames[s].delta_sequence = cl'.frames[s].delta_sequence
      <3>1. cl'.frames[n].delta_sequence > since =>
               player'.frames[n].delta_sequence = cl'.frames[n].delta_sequence
        <4>1. ~(None > since) BY <2>3 DEF None
        <4>. QED BY <1>5, <2>1, <2>4, <4>1 DEF Following
      <3>. QED BY <1>5, <2>1, <2>4, <3>1 DEF Following
    <2>7. \A s \in Slots : in_qwd[s] =>
             /\ player'.frames[s].entities = cl'.frames[s].entities
             /\ \E m \in since + 1 .. cl'.outgoing - 1 : Slot(m) = s
      <3>1. since + 1 .. cl.outgoing - 1 \subseteq since + 1 .. cl'.outgoing - 1
        BY <1>5, <1>6, <2>3
      <3>. QED BY <1>5, <2>1, <2>4, <3>1 DEF Following
    <2>. QED BY <1>5, <1>9, <2>3, <2>4, <2>5, <2>6, <2>7 DEF Following
  <1>. QED BY <1>8, <1>9, <1>10 DEF QInv

\* A new level: both rings are cleared, and the demo has none of the frames.
LEMMA RecordServerdataStep ==
    ASSUME TypeInv, TypeInv', IInv, QInv, NEW p \in toClient,
           RecordServerdata(p)
    PROVE  QInv'
  <1>1. cl \in ClType /\ p \in PacketType /\ NoFrame \in FrameType
    BY DEF TypeInv, NoFrame, FrameType
  <1>2. cl.incoming < p.seq BY DEF IInv, Sequences
  <1>3. /\ cl'.outgoing = cl.outgoing /\ cl'.incoming = p.seq
        /\ cl'.delta_sequence = 0
        /\ \A s \in Slots : /\ cl'.frames[s].delta_sequence = 0
                            /\ cl'.frames[s].entities = 0
    BY <1>1 DEF RecordServerdata, ClientHears, CL_ClearState, ClType, NoFrame
  <1>4. p.seq \in Nat /\ p.level \in Nat /\ cl.incoming \in Nat
    BY <1>1 DEF PacketType, ClType
  <1>5. AsksForSeen' BY <1>3, <1>4 DEF AsksForSeen, None
  <1>6. in_qwd' = [s \in Slots |-> FALSE]
        /\ UNCHANGED <<demorecording, since>>
    BY DEF RecordServerdata
  <1>7. ASSUME demorecording PROVE Following'
    <2>1. player \in ClType /\ player.outgoing = cl.outgoing
          /\ since \in Nat /\ since <= cl.incoming
      BY <1>7 DEF QInv, Following
    <2>2. player' = CL_ClearState([player EXCEPT !.incoming = p.seq], p.level)
      BY <1>7 DEF RecordServerdata
    <2>3. player' \in ClType /\ player'.outgoing = player.outgoing
      BY <1>1, <1>4, <2>1, <2>2 DEF CL_ClearState, ClType
    <2>4. ~(0 > since) BY <2>1
    <2>. QED BY <1>2, <1>3, <1>4, <1>6, <2>1, <2>3, <2>4 DEF Following
  <1>. QED BY <1>5, <1>6, <1>7 DEF QInv

\* What the player makes of the packet that is recorded for p: it shows the
\* entities that the client's frame has.
PlayerShows(p) ==
    /\ player' \in ClType /\ player'.outgoing = player.outgoing
    /\ player'.validsequence = p.seq /\ player'.delta_sequence = p.seq
    /\ player'.frames[Slot(p.seq)].entities = cl'.frames[Slot(p.seq)].entities
    /\ \A s \in Slots :
          /\ player'.frames[s].delta_sequence = player.frames[s].delta_sequence
          /\ s # Slot(p.seq) =>
                player'.frames[s].entities = player.frames[s].entities

LEMMA PlayerReads ==
    ASSUME TypeInv, TypeInv', IInv, QInv, NEW p \in toClient,
           p.update # NoUpdate, demorecording, RecordRead(p)
    PROVE  PlayerShows(p)
  <1>. DEFINE n == Slot(p.seq)
              d == cl.frames[n].delta_sequence
              u == p.update
              w == Written(cl', u)
              wp == [p EXCEPT !.update = w]
              c == Filed(cl, p)
              q == Filed(player, wp)
  <1>1. cl \in ClType /\ cl' \in ClType /\ p \in PacketType /\ player \in ClType
    BY DEF TypeInv, QInv, Following
  <1>2. p.seq \in Nat /\ u \in UpdateType /\ n \in Slots
        /\ u.from \in Int /\ u.entities \in Int /\ u.base \in Int
    BY <1>1, SlotType DEF PacketType, UpdateType
  <1>3. cl' = CL_ParseServerMessage(cl, p)
    BY DEF RecordRead, ClientReads
  <1>4. MessageParsed(cl, p, cl') BY <1>1, <1>3, ParseMessage
  <1>5. cl'.incoming = p.seq /\ cl'.outgoing = cl.outgoing
        /\ \A s \in Slots : cl'.frames[s].delta_sequence
                                = cl.frames[s].delta_sequence
    BY <1>4 DEF MessageParsed
  <1>6. cl'.frames[n].entities \in Int /\ cl'.frames[n].entities # None
    <2>1. cl'.frames[n] \in FrameType BY <1>1, <1>2 DEF ClType
    <2>2. cl'.frames[n].entities \in {cl.frames[n].entities, u.entities, Torn}
      BY <1>4 DEF MessageParsed
    <2>3. u.entities = p.seq BY DEF IInv, Requests
    <2>4. cl.frames[n].entities # None BY <1>2 DEF QInv, AsksForSeen
    <2>. QED BY <1>2, <2>1, <2>2, <2>3, <2>4 DEF FrameType, None, Torn
  <1>7. \/ w = u /\ u.from = None
        \/ /\ w = u /\ u.from # None
           /\ cl'.validsequence = cl'.incoming /\ DeltaValid(cl')
        \/ /\ w = CL_WriteDemoEntities(cl')
           /\ u.from # None
    BY DEF Written
  <1>8. w \in UpdateType /\ w # NoUpdate
        /\ (w # u => w.from = None /\ w.entities = cl'.frames[n].entities)
    <2>1. CL_WriteDemoEntities(cl')
              = [from |-> None, base |-> 0, entities |-> cl'.frames[n].entities]
      BY <1>5 DEF CL_WriteDemoEntities
    <2>2. PICK e : e = cl'.frames[n].entities OBVIOUS
    <2>3. PICK x : x = w OBVIOUS
    <2>4. x = u \/ x = [from |-> None, base |-> 0, entities |-> e]
      BY <1>7, <2>1, <2>2, <2>3
    <2>5. e \in Int /\ e # None BY <1>6, <2>2
    <2>6. x \in UpdateType /\ x # NoUpdate
          /\ (x # u => x.from = None /\ x.entities = e)
      <3>. HIDE DEF u, w
      <3>1. u # NoUpdate BY DEF u
      <3>. QED BY <1>2, <2>4, <2>5, <3>1 DEF UpdateType, NoUpdate, None
    <2>. QED BY <2>2, <2>3, <2>6
  <1>9. wp \in PacketType /\ wp.seq = p.seq /\ wp.update = w
    <2>. HIDE DEF w
    <2>. QED BY <1>1, <1>8 DEF PacketType
  <1>10. player' = CL_ParseServerMessage(player, wp)
    BY DEF RecordRead
  <1>11. MessageParsed(player, wp, player')
    BY <1>1, <1>9, <1>10, ParseMessage
  <1>12. /\ player' \in ClType /\ player'.outgoing = player.outgoing
         /\ \A s \in Slots :
               /\ player'.frames[s].delta_sequence
                      = player.frames[s].delta_sequence
               /\ s # n => player'.frames[s].entities = player.frames[s].entities
    BY <1>9, <1>11 DEF MessageParsed
  <1>13. PacketFiled(cl, p, c) /\ PacketFiled(player, wp, q)
    BY <1>1, <1>9, FiledFields
  <1>14. /\ c \in ClType /\ c.incoming = p.seq /\ c.outgoing = cl.outgoing
         /\ q \in ClType /\ q.incoming = p.seq /\ q.outgoing = cl.outgoing
         /\ \A s \in Slots :
               /\ c.frames[s].entities = cl.frames[s].entities
               /\ c.frames[s].delta_sequence = cl.frames[s].delta_sequence
               /\ q.frames[s].entities = player.frames[s].entities
               /\ q.frames[s].delta_sequence = player.frames[s].delta_sequence
    <2>1. player.outgoing = cl.outgoing BY DEF QInv, Following
    <2>. HIDE DEF c, q, wp
    <2>. QED BY <1>9, <1>13, <2>1 DEF PacketFiled
  <1>15. cl' = CL_ParsePacketEntities(c, u)
    BY <1>3 DEF CL_ParseServerMessage, Filed
  <1>16. player' = CL_ParsePacketEntities(q, w)
    <2>1. wp.update # NoUpdate /\ wp.update = w BY <1>8, <1>9
    <2>. HIDE DEF w, wp
    <2>. QED BY <1>10, <2>1 DEF CL_ParseServerMessage, Filed, q
  <1>. HIDE DEF c, q, w, wp
  <1>17. CASE w.from = None
    <2>1. player' = Shows(q, w.entities) BY <1>8, <1>14, <1>16, <1>17, Parsing
    <2>2. /\ player'.validsequence = p.seq /\ player'.delta_sequence = p.seq
          /\ player'.frames[n].entities = w.entities
      BY <1>14, <2>1, ShowsFields
    <2>3. w.entities = cl'.frames[n].entities
      <3>1. CASE w = u
        <4>1. cl' = Shows(c, u.entities)
          BY <1>2, <1>14, <1>15, <1>17, <3>1, Parsing
        <4>. QED BY <1>14, <3>1, <4>1, ShowsFields
      <3>. QED BY <1>8, <3>1
    <2>. QED BY <1>12, <2>2, <2>3 DEF PlayerShows
  <1>18. CASE w.from # None
    <2>1. w = u /\ u.from # None BY <1>8, <1>18
    <2>2. cl'.validsequence = p.seq /\ DeltaValid(cl')
      <3>1. w # CL_WriteDemoEntities(cl')
        BY <1>18 DEF CL_WriteDemoEntities
      <3>. QED BY <1>5, <1>7, <2>1, <3>1
    <2>3. Good(c, u)
      <3>1. SUFFICES ASSUME ~Good(c, u) PROVE FALSE OBVIOUS
      <3>2. cl'.delta_sequence = 0
        BY <1>2, <1>14, <1>15, <2>1, <3>1, Parsing
      <3>3. cl.validsequence < p.seq /\ p.seq # 0
        <4>1. cl.incoming < p.seq /\ cl.validsequence <= cl.incoming
          BY DEF IInv, Sequences, ClientValid
        <4>. QED BY <1>1, <1>2, <4>1 DEF ClType
      <3>4. cl'.validsequence \in {0, cl.validsequence}
        BY <1>4, <3>2, <3>3 DEF MessageParsed
      <3>5. cl.validsequence \in Nat BY <1>1 DEF ClType
      <3>. QED BY <1>2, <2>2, <3>3, <3>4, <3>5
    <2>4. /\ cl.outgoing - p.seq < UPDATE_BACKUP - 1
          /\ Slot(u.from) = Slot(d)
          /\ cl.outgoing - d < UPDATE_BACKUP - 1
      BY <1>2, <1>14, <2>3 DEF Good
    <2>5. d > 0 /\ in_qwd[Slot(d)]
      BY <1>2, <1>5, <2>2 DEF DeltaValid
    <2>6. d \in Int /\ Slot(d) \in Slots
      <3>1. cl.frames[n] \in FrameType BY <1>1, <1>2 DEF ClType
      <3>2. d \in Int BY <3>1 DEF FrameType
      <3>. QED BY <3>2, SlotType
    <2>. HIDE DEF d
    <2>7. /\ player.frames[Slot(d)].entities = cl.frames[Slot(d)].entities
          /\ \E m \in since + 1 .. cl.outgoing - 1 : Slot(m) = Slot(d)
      BY <2>5, <2>6 DEF QInv, Following
    <2>8. d > since
      <3>1. SUFFICES ASSUME ~(d > since) PROVE FALSE OBVIOUS
      <3>2. PICK m \in since + 1 .. cl.outgoing - 1 : Slot(m) = Slot(d)
        BY <2>7
      <3>3. since \in Nat /\ cl.outgoing \in Nat /\ UPDATE_BACKUP \in Nat
        BY <1>1, RingAssumption DEF QInv, Following, ClType
      <3>4. m \in Int /\ d < m /\ m - d < UPDATE_BACKUP
        BY <2>4, <2>6, <3>1, <3>3
      <3>. QED BY <2>6, <3>2, <3>3, <3>4, SlotsApart
    <2>9. player.frames[n].delta_sequence = d
      BY <1>2, <2>8 DEF QInv, Following, d
    <2>10. Good(q, u) /\ Patched(q, u) = Patched(c, u)
      <3>1. q.frames[n].delta_sequence = d /\ c.frames[n].delta_sequence = d
        BY <1>2, <1>14, <2>9 DEF d
      <3>2. q.frames[Slot(d)].entities = c.frames[Slot(d)].entities
        BY <1>14, <2>6, <2>7
      <3>3. Good(q, u) BY <1>14, <2>4, <3>1 DEF Good
      <3>4. Patched(q, u) = Patched(c, u) BY <1>14, <3>1, <3>2 DEF Patched
      <3>. QED BY <3>3, <3>4
    <2>11. cl' = Shows(c, Patched(c, u))
      BY <1>2, <1>14, <1>15, <2>1, <2>3, Parsing
    <2>12. player' = Shows(q, Patched(c, u))
      BY <1>2, <1>14, <1>16, <2>1, <2>10, Parsing
    <2>13. /\ player'.validsequence = p.seq /\ player'.delta_sequence = p.seq
           /\ player'.frames[n].entities = Patched(c, u)
      BY <1>14, <2>12, ShowsFields
    <2>14. cl'.frames[n].entities = Patched(c, u)
      BY <1>14, <2>11, ShowsFields
    <2>. QED BY <1>12, <2>13, <2>14 DEF PlayerShows
  <1>. QED BY <1>17, <1>18

\* A packet of the server, with entities or without.
LEMMA RecordReadStep ==
    ASSUME TypeInv, TypeInv', IInv, IInv', QInv, NEW p \in toClient,
           RecordRead(p)
    PROVE  QInv'
  <1>. DEFINE n == Slot(p.seq)
  <1>1. cl \in ClType /\ cl' \in ClType /\ p \in PacketType BY DEF TypeInv
  <1>2. cl' = CL_ParseServerMessage(cl, p)
    BY DEF RecordRead, ClientReads
  <1>3. MessageParsed(cl, p, cl') BY <1>1, <1>2, ParseMessage
  <1>4. /\ cl'.incoming = p.seq /\ cl'.outgoing = cl.outgoing
        /\ \A s \in Slots :
              /\ cl'.frames[s].delta_sequence = cl.frames[s].delta_sequence
              /\ s # n => cl'.frames[s].entities = cl.frames[s].entities
    BY <1>3 DEF MessageParsed
  <1>5. /\ cl.incoming < p.seq /\ p.seq \in Nat /\ cl.incoming \in Nat
        /\ cl.outgoing \in Nat /\ n \in Slots
        /\ \A s \in Slots : cl.frames[s].delta_sequence \in Int
    BY <1>1, SlotType DEF IInv, Sequences, ClType, PacketType, FrameType
  <1>6. UNCHANGED <<demorecording, since>> BY DEF RecordRead
  <1>7. CASE p.update = NoUpdate
    <2>1. /\ UNCHANGED <<in_qwd, player>>
          /\ cl'.validsequence = cl.validsequence
          /\ cl'.delta_sequence = cl.delta_sequence
          /\ \A s \in Slots : cl'.frames[s].entities = cl.frames[s].entities
      BY <1>3, <1>4, <1>7 DEF RecordRead, MessageParsed
    <2>2. AsksForSeen' BY <1>4, <1>5, <2>1 DEF QInv, AsksForSeen
    <2>3. ASSUME demorecording PROVE Following'
      <3>1. Following BY <2>3 DEF QInv
      <3>. QED BY <1>4, <1>5, <1>6, <2>1, <3>1 DEF Following
    <2>. QED BY <1>6, <2>1, <2>2, <2>3 DEF QInv
  <1>8. CASE p.update # NoUpdate
    <2>1. in_qwd' = [in_qwd EXCEPT ![n] =
                        demorecording /\ p.update.from # None]
      BY <1>8 DEF RecordRead
    <2>2. p.update.entities = p.seq /\ p.seq < cl.outgoing
      <3>1. p.update.entities = p.seq /\ p.seq <= client.incoming
            /\ client.incoming < cl.outgoing
        BY <1>8 DEF IInv, Requests, Sequences
      <3>2. client.incoming \in Nat BY DEF TypeInv, ServerSlot
      <3>. QED BY <1>5, <3>1, <3>2
    <2>3. AsksForSeen'
      <3>1. cl'.frames[n].entities
                \in {cl.frames[n].entities, p.update.entities, Torn}
        BY <1>3 DEF MessageParsed
      <3>2. cl'.frames[n].entities # None
        BY <1>5, <2>2, <3>1 DEF QInv, AsksForSeen, Torn, None
      <3>3. \A s \in Slots : cl'.frames[s].delta_sequence <= cl'.incoming
        BY <1>4, <1>5 DEF QInv, AsksForSeen
      <3>. QED BY <1>4, <3>2, <3>3 DEF QInv, AsksForSeen
    <2>4. ASSUME demorecording PROVE Following'
      <3>1. Following BY <2>4 DEF QInv
      <3>2. PlayerShows(p) BY <1>8, <2>4, PlayerReads
      <3>3. player.outgoing = cl.outgoing /\ since \in Nat
            /\ since <= cl.incoming
        BY <3>1 DEF Following
      <3>4. /\ player' \in ClType /\ player'.outgoing = cl'.outgoing
            /\ since' \in Nat /\ since' <= cl'.incoming
        BY <1>4, <1>5, <1>6, <3>2, <3>3 DEF PlayerShows
      <3>5. cl'.delta_sequence > since =>
               /\ player'.validsequence = cl'.validsequence
               /\ player'.delta_sequence = cl'.delta_sequence
               /\ player'.frames[Slot(cl'.validsequence)].entities
                      = cl'.validsequence
        <4>1. SUFFICES ASSUME cl'.delta_sequence > since
                       PROVE  /\ player'.validsequence = cl'.validsequence
                              /\ player'.delta_sequence = cl'.delta_sequence
                              /\ player'.frames[Slot(cl'.validsequence)].entities
                                     = cl'.validsequence
          OBVIOUS
        <4>2. cl'.delta_sequence # 0 BY <3>3, <4>1
        <4>3. cl'.validsequence = p.seq /\ cl'.delta_sequence = p.seq
          BY <1>3, <1>8, <4>2 DEF MessageParsed
        <4>4. cl'.frames[n].entities = p.seq
          BY <1>5, <4>3 DEF IInv, ClientValid
        <4>. QED BY <3>2, <4>3, <4>4 DEF PlayerShows
      <3>6. \A s \in Slots : cl'.frames[s].delta_sequence > since =>
               player'.frames[s].delta_sequence = cl'.frames[s].delta_sequence
        BY <1>4, <3>1, <3>2 DEF Following, PlayerShows
      <3>7. \A s \in Slots : in_qwd'[s] =>
               /\ player'.frames[s].entities = cl'.frames[s].entities
               /\ \E m \in since + 1 .. cl'.outgoing - 1 : Slot(m) = s
        <4>1. p.seq \in since + 1 .. cl'.outgoing - 1
          BY <1>4, <1>5, <2>2, <3>3
        <4>2. ASSUME NEW s \in Slots, s # n, in_qwd'[s]
              PROVE  /\ player'.frames[s].entities = cl'.frames[s].entities
                     /\ \E m \in since + 1 .. cl'.outgoing - 1 : Slot(m) = s
          <5>1. in_qwd[s] BY <2>1, <4>2 DEF QInv
          <5>. QED BY <1>4, <3>1, <3>2, <4>2, <5>1 DEF Following, PlayerShows
        <4>3. player'.frames[n].entities = cl'.frames[n].entities
          BY <3>2 DEF PlayerShows
        <4>. QED BY <4>1, <4>2, <4>3
      <3>. QED BY <1>6, <3>4, <3>5, <3>6, <3>7 DEF Following
    <2>5. in_qwd' \in [Slots -> BOOLEAN]
      <3>1. (demorecording /\ p.update.from # None) \in BOOLEAN OBVIOUS
      <3>. QED BY <2>1, <3>1 DEF QInv
    <2>. QED BY <1>6, <2>3, <2>4, <2>5 DEF QInv
  <1>. QED BY <1>7, <1>8

\* What the recording does not notice.
LEMMA OtherStep ==
    ASSUME TypeInv, QInv, cl' = cl,
           UNCHANGED demo \/ CL_Stop
    PROVE  QInv'
  <1>1. CASE UNCHANGED demo
    BY <1>1 DEF demo, QInv, AsksForSeen, Following
  <1>2. CASE CL_Stop
    BY <1>2 DEF CL_Stop, QInv, AsksForSeen
  <1>. QED BY <1>1, <1>2

-----------------------------------------------------------------------------
(* The theorems.                                                           *)

\* The invariant of the recording, with that of the game it records.
THEOREM RecordInductive == RecordSpec => [](TypeInv /\ IInv /\ QInv)
  <1>1. TypeInv /\ IInv /\ TypeInv' /\ IInv' /\ QInv
          /\ [RecordNext]_<<vars, demo>> => QInv'
    <2>. SUFFICES ASSUME TypeInv, IInv, TypeInv', IInv', QInv,
                         [RecordNext]_<<vars, demo>>
                  PROVE  QInv'
      OBVIOUS
    <2>1. ASSUME NEW nodelta \in Nodelta, RecordFrame(nodelta) PROVE QInv'
      BY <2>1, RecordFrameStep
    <2>2. ASSUME NEW p \in toClient, RecordRead(p) PROVE QInv'
      BY <2>2, RecordReadStep
    <2>3. ASSUME NEW p \in toClient, RecordServerdata(p) PROVE QInv'
      BY <2>3, RecordServerdataStep
    <2>4. CASE CL_Record BY <2>4, RecordStep
    <2>5. CASE cl' = cl /\ (UNCHANGED demo \/ CL_Stop)
      BY <2>5, OtherStep
    <2>6. ASSUME NEW p \in toServer, ServerReads(p) /\ UNCHANGED demo
          PROVE  QInv'
      BY <2>5, <2>6 DEF ServerReads
    <2>7. CASE (ServerAnswers \/ ServerChokes \/ LevelChange) /\ UNCHANGED demo
      BY <2>5, <2>7 DEF ServerAnswers, ServerChokes, LevelChange
    <2>8. CASE CL_Stop BY <2>5, <2>8 DEF CL_Stop, vars
    <2>9. CASE UNCHANGED <<vars, demo>> BY <2>5, <2>9 DEF vars
    <2>. QED
      BY <2>1, <2>2, <2>3, <2>4, <2>6, <2>7, <2>8, <2>9 DEF RecordNext
  <1>. QED BY <1>1, RecordInitInv, Recorded, Inductive, PTL DEF RecordSpec

\* The demo shows what the client saw: while it shows a frame that came after
\* the recording began, the demo played back to this moment shows that frame
\* with the same entities (CL_WriteDemoEntities, CL_ParseServerMessage).
THEOREM DemoShowsTheGame == RecordSpec => []PlayedBack
  <1>1. QInv => PlayedBack BY DEF QInv, Following, PlayedBack
  <1>. QED BY <1>1, RecordInductive, PTL
=============================================================================
