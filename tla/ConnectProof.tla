----------------------------- MODULE ConnectProof -----------------------------
(***************************************************************************)
(* Proofs about Connect, for any number of clients, slots and ports.       *)
(*                                                                         *)
(* Disjoint: the ports and qports of clients behind one address, of their  *)
(* packets and of their slots are never mixed; so what one of them sends   *)
(* leaves the slots of the others alone (SlotsNotStolen).                  *)
(*                                                                         *)
(* Ordered: a client's packets reach the server as they were sent, with    *)
(* the ports and qports it has had one after the other; so all slots that  *)
(* a packet can be taken for are one slot (OneSlotEach).  It takes         *)
(* Disjoint, and holds until a packet comes late.                          *)
(*                                                                         *)
(* Attempts: in an attempt to connect, requests come first and packets of  *)
(* the connection after them; so no request is left that could have the    *)
(* slot made anew once the client was told that its "new" was executed     *)
(* (StayInStep).  It takes both of the others, and an attempt that began   *)
(* when nothing of the one before was under way.                           *)
(***************************************************************************)
EXTENDS Connect, Integers, WellFoundedInduction, SequenceTheorems, TLAPS

-----------------------------------------------------------------------------
(* Types *)

ClientRecord ==
    [state : {"disconnected", "connected"}, server_adr : BOOLEAN,
     port : Ports, qport : Qports, outgoing : 0..MaxSequence,
     incoming : 0..(MaxSequence + 1), pending : BOOLEAN]
SlotRecord ==
    [state : SlotState, base : Nat, port : Ports \cup {0},
     qport : Qports \cup {0}, incoming : 0..(MaxSequence + 1)]
Entries == [base : Nat, challenge : 1..issued]

\* A slot is connected only by a packet.
Served(sl) == sl.state = "connected" => sl.incoming > 0

\* The server's part of the types, and the packets under way to clients.
ServerTypes ==
    /\ back \in [Client -> Seq(Answer)]
    /\ challenges \in Seq(Entries)
    /\ issued \in Nat
    /\ slot \in [Slots -> SlotRecord]
    /\ \A s \in Slots : Served(slot[s])
\* The rest.
ClientTypes ==
    /\ cls \in [Client -> ClientRecord]
    /\ path \in [Client -> Seq(Packet)]
    /\ stray \in [Client -> SUBSET Packet]
    /\ faults \in 0..MaxFaults
    /\ late \in BOOLEAN
    /\ hasty \in [Client -> BOOLEAN]

LEMMA TypeParts == TypeOK <=> ServerTypes /\ ClientTypes
BY DEF TypeOK, ServerTypes, ClientTypes, ClientRecord, SlotRecord, Entries, Served

\* First takes the smallest element of a set of numbers.
LEMMA FirstIsSmallest ==
    ASSUME NEW S \in SUBSET Nat, S # {}
    PROVE  First(S) \in S /\ \A t \in S : First(S) <= t
<1> DEFINE Less == {m \in Nat \X Nat : m[1] < m[2]}
<1>1. IsWellFoundedOn(Less, Nat)
  BY NatLessThanWellFounded, Zenon DEF OpToRel
<1>2. PICK s \in S : \A t \in S : ~(<<t, s>> \in Less)
  <2> HIDE DEF Less
  <2>1. QED BY <1>1, WFMin
<1>3. ASSUME NEW t \in S PROVE s <= t
  <2>1. ~(t < s)
    BY <1>2
  <2>2. QED BY <2>1
<1>4. QED BY <1>3 DEF First

LEMMA FirstSlot ==
    ASSUME NEW S \in SUBSET Slots, S # {}
    PROVE  First(S) \in S /\ \A t \in S : First(S) <= t
BY FirstIsSmallest, ConnectAssumption

\* Packets stay packets when more challenge numbers are given out.
LEMMA PacketsStay ==
    ASSUME issued \in Nat, issued' \in Nat, issued <= issued'
    PROVE  Packet \subseteq Packet' /\ Answer \subseteq Answer' /\ Entries \subseteq Entries'
<1>1. 1..issued \subseteq 1..issued'
  OBVIOUS
<1>2. QED BY <1>1 DEF Packet, Answer, Entries

LEMMA PushTyped ==
    ASSUME NEW S, NEW q \in Seq(S), NEW m \in S
    PROVE  Push(q, m) \in Seq(S)
BY AppendProperties DEF Push

LEMMA SentTyped ==
    ASSUME NEW S, back \in [Client -> Seq(S)], NEW m \in S, NEW base, NEW port
    PROVE  Sent(base, port, m) \in [Client -> Seq(S)]
BY PushTyped DEF Sent

LEMMA ClientTypesStay ==
    ASSUME ClientTypes, issued \in Nat, issued' \in Nat, issued <= issued',
           cls' \in [Client -> ClientRecord],
           path' \in [Client -> Seq(Packet)],
           stray' \in [Client -> SUBSET Packet],
           faults' \in 0..MaxFaults, late' \in BOOLEAN,
           hasty' \in [Client -> BOOLEAN]
    PROVE  ClientTypes'
<1>1. Packet \subseteq Packet'
  BY PacketsStay
<1>2. path' \in [Client -> Seq(Packet')]
  BY <1>1, SeqMonotonic
<1>3. stray' \in [Client -> SUBSET Packet']
  BY <1>1
<1>4. QED BY <1>2, <1>3 DEF ClientTypes

\* What NewChallenge puts into the table.
LEMMA NewChallengeTyped ==
    ASSUME challenges \in Seq(Entries), issued \in Nat, NEW base \in Nat,
           challenges' = NewChallenge(base),
           issued' = IF challenges' = challenges THEN issued ELSE issued + 1
    PROVE  /\ issued' \in Nat /\ issued <= issued'
           /\ challenges' \in Seq(Entries')
           /\ \E i \in DOMAIN challenges' : challenges'[i].base = base
<1>1. issued' \in Nat /\ issued <= issued'
  OBVIOUS
<1>2. Entries \subseteq Entries'
  BY <1>1, PacketsStay
<1>3. challenges \in Seq(Entries')
  BY <1>2, SeqMonotonic
<1>4. CASE \E i \in DOMAIN challenges : challenges[i].base = base
  BY <1>1, <1>3, <1>4 DEF NewChallenge
<1>5. CASE ~ \E i \in DOMAIN challenges : challenges[i].base = base
  <2> DEFINE rest == IF Len(challenges) < MAX_CHALLENGES THEN challenges
                                                        ELSE Tail(challenges)
             e == [base |-> base, challenge |-> issued + 1]
  <2>1. challenges' = Append(rest, e)
    BY <1>5 DEF NewChallenge
  <2>2. rest \in Seq(Entries')
    <3>1. CASE Len(challenges) < MAX_CHALLENGES
      BY <3>1, <1>3
    <3>2. CASE ~(Len(challenges) < MAX_CHALLENGES)
      <4>1. challenges # <<>>
        BY <3>2, ConnectAssumption
      <4>2. QED BY <4>1, <3>2, <1>3, HeadTailProperties
    <3>3. QED BY <3>1, <3>2
  <2> HIDE DEF rest
  <2>3. challenges' # challenges
    <3>1. Len(rest) \in Nat /\ DOMAIN challenges' = 1..Len(rest) + 1
          /\ challenges'[Len(rest) + 1] = e
      BY <2>1, <2>2
    <3>2. challenges'[Len(rest) + 1].base = base /\ Len(rest) + 1 \in DOMAIN challenges'
      BY <3>1
    <3>3. QED BY <3>2, <1>5
  <2>4. e \in Entries'
    BY <2>3 DEF Entries
  <2>5. challenges' \in Seq(Entries') /\ Len(challenges') = Len(rest) + 1
        /\ challenges'[Len(rest) + 1] = e
    BY <2>1, <2>2, <2>4, AppendProperties
  <2>6. Len(rest) + 1 \in DOMAIN challenges'
    BY <2>5, <2>2
  <2>7. QED BY <2>5, <2>6, <1>1
<1>6. QED BY <1>4, <1>5

\* The packets of each type.
LEMMA PacketParts ==
    ASSUME NEW p \in Packet
    PROVE  /\ p.type \in {"getchallenge", "connect", "data"}
           /\ p.port \in Ports
           /\ p.type # "getchallenge" => p.qport \in Qports
           /\ p.type = "connect" => p.challenge \in 1..issued
           /\ p.type = "data" => p.sequence \in 1..(MaxSequence + 1)
BY DEF Packet

LEMMA GetChallengeTyped ==
    ASSUME ServerTypes, NEW base \in Nat, NEW p \in Packet, GetChallenge(base, p)
    PROVE  ServerTypes' /\ issued <= issued'
<1>1. challenges' = NewChallenge(base) /\ slot' = slot
      /\ issued' = IF challenges' = challenges THEN issued ELSE issued + 1
  BY DEF GetChallenge
<1>2. /\ issued' \in Nat /\ issued <= issued' /\ challenges' \in Seq(Entries')
      /\ \E i \in DOMAIN challenges' : challenges'[i].base = base
  BY <1>1, NewChallengeTyped DEF ServerTypes
<1> DEFINE entries == {challenges'[i] : i \in DOMAIN challenges'}
           entry == CHOOSE e \in entries : e.base = base
           m == [type |-> "challenge", challenge |-> entry.challenge]
<1>3. entry \in entries
  BY <1>2
<1>4. entry \in Entries'
  BY <1>2, <1>3, ElementOfSeq, LenProperties
<1>5. m \in Answer'
  BY <1>4 DEF Answer, Entries
<1>6. back \in [Client -> Seq(Answer')]
  BY <1>2, PacketsStay, SeqMonotonic DEF ServerTypes
<1>7. back' = Sent(base, p.port, m)
  BY DEF GetChallenge
<1> HIDE DEF m
<1>8. back' \in [Client -> Seq(Answer')]
  BY <1>5, <1>6, <1>7, SentTyped
<1>9. QED BY <1>1, <1>2, <1>8 DEF ServerTypes

\* What a connection request does to the slots: nothing, the first old slot of
\* the client is freed, or then a free slot is made the client's.
Made(base, p) == [state |-> "preconnected", base |-> base, port |-> p.port,
                  qport |-> p.qport, incoming |-> 0]
Cleared(base, p) == CheckReConnect(base, p.port, p.qport)
Accepts(base, p, u) ==
    /\ u \in Slots
    /\ Cleared(base, p)[u].state = "free"
    /\ slot' = [Cleared(base, p) EXCEPT ![u] = Made(base, p)]
    /\ back' = Sent(base, p.port, [type |-> "connection"])
Refuses(base, p) ==
    /\ slot' = slot \/ slot' = Cleared(base, p)
    /\ back' = back

LEMMA FreeTyped == Free \in SlotRecord /\ Served(Free)
BY ConnectAssumption DEF Free, SlotRecord, SlotState, Served

LEMMA ClearedTyped ==
    ASSUME ServerTypes, NEW base, NEW p
    PROVE  /\ Cleared(base, p) \in [Slots -> SlotRecord]
           /\ \A s \in Slots : Served(Cleared(base, p)[s])
BY FreeTyped, FirstSlot DEF Cleared, CheckReConnect, ServerTypes

LEMMA DirectConnectCases ==
    ASSUME NEW base, NEW p, DirectConnect(base, p)
    PROVE  /\ Refuses(base, p) \/ \E u \in Slots : Accepts(base, p, u)
           /\ UNCHANGED <<challenges, issued>>
<1> DEFINE slots == CheckReConnect(base, p.port, p.qport)
           free == {s \in Slots : slots[s].state = "free"}
<1>1. CASE CheckChallange(base, p.challenge)
           /\ free # {} /\ Cardinality(Slots \ free) < maxclients
  <2>1. First(free) \in free
    BY <1>1, FirstSlot
  <2>2. Accepts(base, p, First(free))
    BY <1>1, <2>1 DEF DirectConnect, Accepts, Cleared, Made
  <2>3. QED BY <2>1, <2>2 DEF DirectConnect
<1>2. CASE ~(CheckChallange(base, p.challenge)
             /\ free # {} /\ Cardinality(Slots \ free) < maxclients)
  <2>1. Refuses(base, p)
    BY <1>2 DEF DirectConnect, Refuses, Cleared
  <2>2. QED BY <2>1 DEF DirectConnect
<1>3. QED BY <1>1, <1>2

LEMMA DirectConnectTyped ==
    ASSUME ServerTypes, NEW base \in Nat, NEW p \in Packet, p.type = "connect",
           DirectConnect(base, p)
    PROVE  ServerTypes' /\ issued <= issued'
<1>1. UNCHANGED <<challenges, issued>>
  BY DirectConnectCases
<1>2. Answer' = Answer /\ Entries' = Entries
  BY <1>1 DEF Answer, Entries
<1>3. [type |-> "connection"] \in Answer
  BY DEF Answer
<1>4. Made(base, p) \in SlotRecord /\ Served(Made(base, p))
  BY PacketParts, ConnectAssumption DEF Made, SlotRecord, SlotState, Served
<1>5. CASE Refuses(base, p)
  BY <1>1, <1>2, <1>5, ClearedTyped DEF ServerTypes, Refuses
<1>6. ASSUME NEW u \in Slots, Accepts(base, p, u)
      PROVE  ServerTypes' /\ issued <= issued'
  <2>1. slot' \in [Slots -> SlotRecord] /\ \A s \in Slots : Served(slot'[s])
    BY <1>4, <1>6, ClearedTyped DEF Accepts
  <2>2. back' \in [Client -> Seq(Answer)]
    BY <1>3, <1>6, SentTyped DEF Accepts, ServerTypes
  <2>3. QED BY <1>1, <1>2, <2>1, <2>2 DEF ServerTypes
<1>7. QED BY <1>5, <1>6, DirectConnectCases

\* What a packet of a connection does: it finds no slot, or the first slot that
\* matches has its port corrected, and serves the packet if it is no old one.
Done(s, p) == Executed(Accepted(FixPort(s, p), p), p)
Serves(base, p, s) ==
    /\ slot' = [slot EXCEPT ![s] = Done(s, p)]
    /\ back' = Sent(base, p.port,
          [type |-> "data", sequence |-> p.sequence,
           new |-> Done(s, p).state = "connected",
           disconnect |-> Done(s, p).state = "zombie"])
Ignores(s, p) == slot' = [slot EXCEPT ![s] = FixPort(s, p)] /\ back' = back

LEMMA ExecuteMessageCases ==
    ASSUME NEW base, NEW p, ExecuteMessage(base, p)
    PROVE  /\ \/ slot' = slot /\ back' = back /\ Matching(base, p.qport) = {}
              \/ /\ Matching(base, p.qport) # {}
                 /\ First(Matching(base, p.qport)) \in Matching(base, p.qport)
                 /\ \/ Serves(base, p, First(Matching(base, p.qport)))
                    \/ Ignores(First(Matching(base, p.qport)), p)
           /\ UNCHANGED <<challenges, issued>>
<1>1. Matching(base, p.qport) \subseteq Slots
  BY DEF Matching
<1>2. QED BY <1>1, FirstSlot DEF ExecuteMessage, Serves, Ignores, Done

\* What the command in a packet makes of its slot.
LEMMA DoneIs ==
    ASSUME ServerTypes, NEW s \in Slots, NEW p \in Packet, p.type = "data",
           slot[s].state # "free"
    PROVE  /\ Done(s, p) \in SlotRecord
           /\ Done(s, p).incoming = p.sequence
           /\ Done(s, p).base = slot[s].base /\ Done(s, p).qport = slot[s].qport
           /\ Done(s, p).port = p.port
           /\ Done(s, p).state # "free"
           /\ Done(s, p).state = "preconnected" => slot[s].state = "preconnected"
<1>1. /\ slot[s] \in SlotRecord
      /\ p.port \in Ports /\ p.sequence \in 1..(MaxSequence + 1)
  BY PacketParts DEF ServerTypes
<1>2. PICK f : f = FixPort(s, p)
  OBVIOUS
<1>3. /\ f \in SlotRecord /\ f.base = slot[s].base /\ f.qport = slot[s].qport
      /\ f.port = p.port /\ f.state = slot[s].state
  BY <1>1, <1>2 DEF FixPort, SlotRecord
<1>7. PICK a : a = Accepted(f, p)
  OBVIOUS
<1>8. 1..(MaxSequence + 1) \subseteq 0..(MaxSequence + 1)
  BY ConnectAssumption
<1>9. /\ a \in SlotRecord /\ a.incoming = p.sequence
      /\ a.base = slot[s].base /\ a.qport = slot[s].qport /\ a.port = p.port
      /\ a.state = slot[s].state
  BY <1>1, <1>3, <1>7, <1>8 DEF Accepted, SlotRecord
<1>4. Done(s, p) = Executed(a, p)
  BY <1>2, <1>7 DEF Done
<1>5. \/ Done(s, p) = a
      \/ Done(s, p) = [a EXCEPT !.state = "zombie"]
      \/ Done(s, p) = [a EXCEPT !.state = IF @ = "preconnected" THEN "connected" ELSE @]
  BY <1>4 DEF Executed
<1>6. QED BY <1>5, <1>9 DEF SlotRecord, SlotState

LEMMA ExecuteMessageTyped ==
    ASSUME ServerTypes, NEW base \in Nat, NEW p \in Packet, p.type = "data",
           ExecuteMessage(base, p)
    PROVE  ServerTypes' /\ issued <= issued'
<1> DEFINE s == First(Matching(base, p.qport))
<1>1. UNCHANGED <<challenges, issued>>
  BY ExecuteMessageCases
<1>2. Answer' = Answer /\ Entries' = Entries
  BY <1>1 DEF Answer, Entries
<1>3. CASE slot' = slot /\ back' = back
  BY <1>1, <1>2, <1>3 DEF ServerTypes
<1>4. ASSUME s \in Matching(base, p.qport), Serves(base, p, s)
      PROVE  ServerTypes' /\ issued <= issued'
  <2>1. s \in Slots /\ slot[s].state # "free"
    BY <1>4 DEF Matching
  <2>2. PICK d : d = Done(s, p)
    OBVIOUS
  <2>3. d \in SlotRecord /\ d.incoming = p.sequence
    BY <2>1, <2>2, DoneIs
  <2>4. p.sequence \in 1..(MaxSequence + 1)
    BY PacketParts
  <2>5. Served(d)
    BY <2>3, <2>4, ConnectAssumption DEF Served
  <2>6. slot' \in [Slots -> SlotRecord] /\ \A t \in Slots : Served(slot'[t])
    BY <1>4, <2>1, <2>2, <2>3, <2>5 DEF Serves, ServerTypes
  <2>7. PICK m : m = [type |-> "data", sequence |-> p.sequence,
                      new |-> d.state = "connected",
                      disconnect |-> d.state = "zombie"]
    OBVIOUS
  <2>8. m \in Answer
    BY <2>4, <2>7 DEF Answer
  <2>9. back' = Sent(base, p.port, m)
    BY <1>4, <2>2, <2>7 DEF Serves
  <2>10. back' \in [Client -> Seq(Answer)]
    BY <2>8, <2>9, SentTyped DEF ServerTypes
  <2>11. QED BY <1>1, <1>2, <2>6, <2>10 DEF ServerTypes
<1>5. ASSUME s \in Matching(base, p.qport), Ignores(s, p)
      PROVE  ServerTypes' /\ issued <= issued'
  <2>1. s \in Slots /\ slot[s] \in SlotRecord /\ p.port \in Ports
    BY <1>5, PacketParts DEF Matching, ServerTypes
  <2>2. FixPort(s, p) \in SlotRecord /\ (Served(slot[s]) => Served(FixPort(s, p)))
    BY <2>1 DEF FixPort, SlotRecord, Served
  <2>3. slot' \in [Slots -> SlotRecord] /\ \A t \in Slots : Served(slot'[t])
    BY <1>5, <2>1, <2>2 DEF Ignores, ServerTypes
  <2>4. QED BY <1>1, <1>2, <1>5, <2>3 DEF ServerTypes, Ignores
<1>6. QED BY <1>3, <1>4, <1>5, ExecuteMessageCases

LEMMA HandledTyped ==
    ASSUME ServerTypes, NEW base \in Nat, NEW p \in Packet,
           ServerHandles(base, p)
    PROVE  ServerTypes' /\ issued <= issued'
<1>1. p.type \in {"getchallenge", "connect", "data"}
  BY PacketParts
<1>2. CASE p.type = "getchallenge"
  BY <1>2, GetChallengeTyped DEF ServerHandles
<1>3. CASE p.type = "connect"
  BY <1>3, DirectConnectTyped DEF ServerHandles
<1>4. CASE p.type = "data"
  BY <1>4, ExecuteMessageTyped DEF ServerHandles
<1>5. QED BY <1>1, <1>2, <1>3, <1>4

\* m is a packet c sends now: it has the port and, unless it is a request for a
\* challenge, the qport of c.
HasQport(p) == p.type # "getchallenge"
Own(c, m) ==
    /\ m \in Packet /\ m.port = cls[c].port
    /\ HasQport(m) => m.qport = cls[c].qport

\* c keeps its port and qport, and sends at most one packet.
SendsOwn(c) ==
    /\ cls' \in [Client -> ClientRecord]
    /\ \A d \in Client : cls'[d].port = cls[d].port /\ cls'[d].qport = cls[d].qport
    /\ \/ path' = path
       \/ \E m \in Packet : Own(c, m) /\ path' = [path EXCEPT ![c] = Push(@, m)]

LEMMA BoundTyped ==
    /\ MaxSequence \in Nat /\ 0 \in 0..MaxSequence /\ 0 \in 0..(MaxSequence + 1)
    /\ \A n \in 0..MaxSequence : n + 1 \in 1..(MaxSequence + 1)
    /\ \A n \in 1..(MaxSequence + 1) : n \in 0..(MaxSequence + 1) /\ n > 0
BY ConnectAssumption

LEMMA SendGetChallengeSends ==
    ASSUME ClientTypes, NEW c \in Client, SendGetChallenge(c)
    PROVE  SendsOwn(c) /\ hasty' \in [Client -> BOOLEAN]
<1> DEFINE m == [type |-> "getchallenge", port |-> cls[c].port]
<1>1. cls[c] \in ClientRecord
  BY DEF ClientTypes
<1>2. m \in Packet /\ Own(c, m)
  BY <1>1 DEF Packet, Own, HasQport, ClientRecord
<1>3. path' = [path EXCEPT ![c] = Push(@, m)]
  BY DEF SendGetChallenge, ToServer
<1>4. [cls[c] EXCEPT !.server_adr = TRUE] \in ClientRecord
  BY <1>1 DEF ClientRecord
<1>5. cls' = [cls EXCEPT ![c] = [cls[c] EXCEPT !.server_adr = TRUE]]
  BY DEF SendGetChallenge
<1>6. /\ cls' \in [Client -> ClientRecord]
      /\ \A d \in Client : cls'[d].port = cls[d].port /\ cls'[d].qport = cls[d].qport
  BY <1>1, <1>4, <1>5 DEF ClientTypes, ClientRecord
<1> HIDE DEF m
<1>7. SendsOwn(c)
  BY <1>2, <1>3, <1>6 DEF SendsOwn
<1>8. hasty' \in [Client -> BOOLEAN]
  <2>1. Idle(c) \in BOOLEAN
    BY DEF Idle
  <2>2. QED BY <2>1 DEF SendGetChallenge, ClientTypes
<1>9. QED BY <1>7, <1>8

LEMMA DisconnectSends ==
    ASSUME ClientTypes, NEW c \in Client, Disconnect(c)
    PROVE  SendsOwn(c)
<1>1. PICK m : m = [type |-> "data", port |-> cls[c].port, qport |-> cls[c].qport,
                    sequence |-> cls[c].outgoing + 1, command |-> "drop"]
  OBVIOUS
<1>2. cls[c] \in ClientRecord
  BY DEF ClientTypes
<1>3. cls[c].outgoing + 1 \in 1..(MaxSequence + 1)
  BY <1>2, BoundTyped DEF ClientRecord
<1>4. m \in Packet /\ Own(c, m)
  BY <1>1, <1>2, <1>3 DEF Packet, Own, HasQport, ClientRecord
<1>5. path' = [path EXCEPT ![c] = Push(@, m)]
  BY <1>1 DEF Disconnect, ToServer
<1>6. PICK r : r = Process(cls[c].port, cls[c].qport)
  OBVIOUS
<1>7. r \in ClientRecord /\ r.port = cls[c].port /\ r.qport = cls[c].qport
  BY <1>2, <1>6, BoundTyped DEF Process, ClientRecord
<1>8. cls' = [cls EXCEPT ![c] = r]
  BY <1>6 DEF Disconnect
<1>9. QED BY <1>4, <1>5, <1>7, <1>8 DEF SendsOwn, ClientTypes

LEMMA ReceiveSends ==
    ASSUME ClientTypes, ServerTypes, NEW c \in Client, ClientReceive(c)
    PROVE  SendsOwn(c) /\ back' \in [Client -> Seq(Answer)]
<1>1. PICK m : m = Head(back[c])
  OBVIOUS
<1>2. m \in Answer /\ back' \in [Client -> Seq(Answer)]
  <2>1. back[c] \in Seq(Answer) /\ back[c] # <<>>
    BY DEF ClientReceive, ServerTypes
  <2>2. m \in Answer /\ Tail(back[c]) \in Seq(Answer)
    BY <1>1, <2>1, HeadTailProperties
  <2>3. back' = [back EXCEPT ![c] = Tail(back[c])]
    BY DEF ClientReceive
  <2>4. QED BY <2>2, <2>3 DEF ServerTypes
<1>3. cls[c] \in ClientRecord /\ cls \in [Client -> ClientRecord]
  BY DEF ClientTypes
<1>4. CASE m.type = "challenge"
  <2>1. ReceiveChallenge(c, m) /\ m.challenge \in 1..issued
    BY <1>1, <1>2, <1>4 DEF ClientReceive, Answer
  <2>2. PICK p : p = [type |-> "connect", port |-> cls[c].port,
                      qport |-> cls[c].qport, challenge |-> m.challenge]
    OBVIOUS
  <2>3. p \in Packet /\ Own(c, p)
    BY <1>3, <2>1, <2>2 DEF Packet, Own, HasQport, ClientRecord
  <2>4. cls' = cls /\ (path' = path \/ path' = [path EXCEPT ![c] = Push(@, p)])
    BY <2>1, <2>2 DEF ReceiveChallenge, ToServer
  <2>5. QED BY <1>2, <1>3, <2>3, <2>4 DEF SendsOwn
<1>5. CASE m.type = "connection"
  <2>1. ReceiveConnection(c)
    BY <1>1, <1>5 DEF ClientReceive
  <2>2. PICK r : r = [cls[c] EXCEPT !.state = "connected", !.outgoing = 0,
                                    !.incoming = 0, !.pending = TRUE]
    OBVIOUS
  <2>3. r \in ClientRecord /\ r.port = cls[c].port /\ r.qport = cls[c].qport
    BY <1>3, <2>2, BoundTyped DEF ClientRecord
  <2>4. path' = path /\ (cls' = cls \/ cls' = [cls EXCEPT ![c] = r])
    BY <2>1, <2>2 DEF ReceiveConnection
  <2>5. QED BY <1>2, <1>3, <2>3, <2>4 DEF SendsOwn
<1>6. CASE m.type = "data"
  <2>1. ReceiveData(c, m) /\ m.sequence \in 1..(MaxSequence + 1) /\ m.new \in BOOLEAN
    BY <1>1, <1>2, <1>6 DEF ClientReceive, Answer
  <2>2. CASE Disconnect(c)
    BY <2>2, <1>2, DisconnectSends
  <2>3. CASE UNCHANGED <<cls, path>>
    BY <2>3, <1>2, <1>3 DEF SendsOwn
  <2>4. CASE /\ cls' = [cls EXCEPT ![c].incoming = m.sequence,
                                   ![c].pending = @ /\ ~m.new]
             /\ UNCHANGED path
    <3>1. PICK r : r = [cls[c] EXCEPT !.incoming = m.sequence,
                                      !.pending = @ /\ ~m.new]
      OBVIOUS
    <3>2. r \in ClientRecord /\ r.port = cls[c].port /\ r.qport = cls[c].qport
      BY <1>3, <2>1, <3>1, BoundTyped DEF ClientRecord
    <3>3. cls' = [cls EXCEPT ![c] = r]
      BY <2>4, <3>1, <1>3
    <3>4. QED BY <1>2, <1>3, <2>4, <3>2, <3>3 DEF SendsOwn
  <2>5. QED BY <2>1, <2>2, <2>3, <2>4 DEF ReceiveData
<1>7. m.type \in {"challenge", "connection", "data"}
  BY <1>2 DEF Answer
<1>8. QED BY <1>4, <1>5, <1>6, <1>7

LEMMA SendSends ==
    ASSUME ClientTypes, NEW c \in Client, ClientSend(c)
    PROVE  SendsOwn(c)
<1>1. cls[c] \in ClientRecord /\ cls \in [Client -> ClientRecord]
  BY DEF ClientTypes
<1>2. PICK r : r = [cls[c] EXCEPT !.outgoing = @ + 1]
  OBVIOUS
<1>3. cls[c].outgoing \in 0..MaxSequence /\ cls[c].outgoing < MaxSequence
  BY <1>1 DEF ClientRecord, ClientSend
<1>4. /\ cls[c].outgoing + 1 \in 0..MaxSequence
      /\ cls[c].outgoing + 1 \in 1..(MaxSequence + 1)
  BY <1>3, BoundTyped
<1>5. /\ r \in ClientRecord /\ r.port = cls[c].port /\ r.qport = cls[c].qport
      /\ r.outgoing = cls[c].outgoing + 1
  BY <1>1, <1>2, <1>4 DEF ClientRecord
<1>6. cls' = [cls EXCEPT ![c] = r]
  BY <1>1, <1>2 DEF ClientSend
<1>7. PICK command \in {"new", "none"} :
         path' = [path EXCEPT ![c] = Push(@,
                    [type |-> "data", port |-> cls[c].port,
                     qport |-> cls[c].qport, sequence |-> cls'[c].outgoing,
                     command |-> command])]
  BY DEF ClientSend, ToServer
<1>8. PICK m : m = [type |-> "data", port |-> cls[c].port,
                    qport |-> cls[c].qport, sequence |-> cls[c].outgoing + 1,
                    command |-> command]
  OBVIOUS
<1>9. m \in Packet /\ Own(c, m)
  BY <1>1, <1>4, <1>8 DEF Packet, Own, HasQport, ClientRecord
<1>10. cls'[c].outgoing = cls[c].outgoing + 1
  BY <1>1, <1>5, <1>6
<1>11. path' = [path EXCEPT ![c] = Push(@, m)]
  BY <1>7, <1>8, <1>10
<1>12. QED BY <1>1, <1>5, <1>6, <1>9, <1>11 DEF SendsOwn

\* A router or a new process gives c a port or a qport nobody has.
FreshPort(n) ==
    /\ n \in Ports
    /\ \A p \in Underway : p.port # n
    /\ \A d \in Client : cls[d].port # n
    /\ \A s \in Slots : slot[s].port # n
FreshQport(n) ==
    /\ n \in Qports
    /\ \A p \in Underway : HasQport(p) => p.qport # n
    /\ \A d \in Client : cls[d].qport # n
    /\ \A s \in Slots : slot[s].qport # n

LEMMA TranslateFresh ==
    ASSUME NEW c \in Client, Translate(c)
    PROVE  \E n \in Ports : FreshPort(n) /\ cls' = [cls EXCEPT ![c].port = n]
<1> DEFINE taken == {p.port : p \in Underway} \cup {cls[d].port : d \in Client}
                       \cup {slot[s].port : s \in Slots}
           new == Ports \ taken
<1>1. new # {} /\ cls' = [cls EXCEPT ![c].port = First(new)]
  BY DEF Translate
<1>2. First(new) \in new
  BY <1>1, FirstIsSmallest, ConnectAssumption
<1>3. FreshPort(First(new))
  BY <1>2 DEF FreshPort
<1>4. QED BY <1>1, <1>2, <1>3

LEMMA RestartFresh ==
    ASSUME NEW c \in Client, Restart(c)
    PROVE  \E n \in Qports :
              FreshQport(n) /\ cls' = [cls EXCEPT ![c] = Process(@.port, n)]
<1> DEFINE OfPacket(p) == IF p.type = "getchallenge" THEN 0 ELSE p.qport
           taken == {OfPacket(p) : p \in Underway}
                       \cup {cls[d].qport : d \in Client}
                       \cup {slot[s].qport : s \in Slots}
           new == Qports \ taken
<1>1. new # {} /\ cls' = [cls EXCEPT ![c] = Process(@.port, First(new))]
  BY DEF Restart
<1>2. First(new) \in new
  BY <1>1, FirstIsSmallest, ConnectAssumption
<1>3. FreshQport(First(new))
  <2>1. ASSUME NEW p \in Underway, HasQport(p)
        PROVE  p.qport # First(new)
    <3>1. OfPacket(p) = p.qport /\ OfPacket(p) \in taken
      BY <2>1 DEF HasQport
    <3>2. QED BY <3>1, <1>2
  <2>2. QED BY <2>1, <1>2 DEF FreshQport
<1>4. QED BY <1>1, <1>2, <1>3

LEMMA PathTyped ==
    ASSUME ClientTypes, NEW c \in Client, SendsOwn(c)
    PROVE  path' \in [Client -> Seq(Packet)]
<1>1. CASE path' = path
  BY <1>1 DEF ClientTypes
<1>2. ASSUME NEW m \in Packet, path' = [path EXCEPT ![c] = Push(@, m)]
      PROVE  path' \in [Client -> Seq(Packet)]
  <2>1. Push(path[c], m) \in Seq(Packet)
    BY PushTyped DEF ClientTypes
  <2>2. QED BY <1>2, <2>1 DEF ClientTypes
<1>3. QED BY <1>1, <1>2 DEF SendsOwn

\* The steps in which c sends, and nothing but its side and its path changes.
LEMMA SendingStepTyped ==
    ASSUME ServerTypes, ClientTypes, NEW c \in Client, SendsOwn(c),
           stray' = stray, UNCHANGED <<challenges, issued, slot, late>>,
           back' \in [Client -> Seq(Answer)],
           faults' \in 0..MaxFaults, hasty' \in [Client -> BOOLEAN]
    PROVE  ServerTypes' /\ ClientTypes'
<1>1. Answer' = Answer /\ Entries' = Entries /\ Packet' = Packet
  BY DEF Answer, Entries, Packet
<1>2. ServerTypes'
  BY <1>1 DEF ServerTypes
<1>3. path' \in [Client -> Seq(Packet')]
  BY <1>1, PathTyped
<1>4. ClientTypes'
  BY <1>1, <1>3 DEF ClientTypes, SendsOwn
<1>5. QED BY <1>2, <1>4

\* The steps in which only packets are lost, late or copied.
LEMMA NetworkStepTyped ==
    ASSUME ServerTypes, ClientTypes, UNCHANGED <<server, late, hasty>>,
           cls' \in [Client -> ClientRecord],
           path' \in [Client -> Seq(Packet)],
           stray' \in [Client -> SUBSET Packet],
           back' \in [Client -> Seq(Answer)],
           faults' \in 0..MaxFaults
    PROVE  ServerTypes' /\ ClientTypes'
<1>1. Answer' = Answer /\ Entries' = Entries /\ Packet' = Packet
  BY DEF Answer, Entries, Packet, server
<1>2. QED BY <1>1 DEF ServerTypes, ClientTypes, server

LEMMA FaultTyped ==
    ASSUME ServerTypes, ClientTypes, Fault
    PROVE  ServerTypes' /\ ClientTypes'
<1>0. faults' \in 0..MaxFaults
  BY ConnectAssumption DEF Fault, ClientTypes
<1>1. ASSUME NEW c \in Client, Impatient(c)
      PROVE  ServerTypes' /\ ClientTypes'
  <2>1. SendsOwn(c) /\ hasty' \in [Client -> BOOLEAN]
    BY <1>1, SendGetChallengeSends DEF Impatient
  <2>2. stray' = stray /\ back' = back /\ UNCHANGED <<challenges, issued, slot, late>>
    BY <1>1 DEF Impatient, SendGetChallenge, server
  <2>3. QED BY <1>0, <2>1, <2>2, SendingStepTyped DEF ServerTypes
<1>2. ASSUME NEW c \in Client, Quit(c)
      PROVE  ServerTypes' /\ ClientTypes'
  <2>1. SendsOwn(c)
    BY <1>2, DisconnectSends DEF Quit
  <2>2. stray' = stray /\ back' = back /\ hasty' = hasty
        /\ UNCHANGED <<challenges, issued, slot, late>>
    BY <1>2 DEF Quit, server
  <2>3. QED BY <1>0, <2>1, <2>2, SendingStepTyped DEF ServerTypes, ClientTypes
<1>3. ASSUME NEW c \in Client, Lose(c)
      PROVE  ServerTypes' /\ ClientTypes'
  <2>1. path' \in [Client -> Seq(Packet)]
    <3>1. CASE path' = path
      BY <3>1 DEF ClientTypes
    <3>2. CASE path[c] # <<>> /\ path' = [path EXCEPT ![c] = Tail(@)]
      <4>1. Tail(path[c]) \in Seq(Packet)
        BY <3>2, HeadTailProperties DEF ClientTypes
      <4>2. QED BY <3>2, <4>1 DEF ClientTypes
    <3>3. QED BY <1>3, <3>1, <3>2 DEF Lose
  <2>2. back' \in [Client -> Seq(Answer)]
    <3>1. CASE back' = back
      BY <3>1 DEF ServerTypes
    <3>2. CASE back[c] # <<>> /\ back' = [back EXCEPT ![c] = Tail(@)]
      <4>1. Tail(back[c]) \in Seq(Answer)
        BY <3>2, HeadTailProperties DEF ServerTypes
      <4>2. QED BY <3>2, <4>1 DEF ServerTypes
    <3>3. QED BY <1>3, <3>1, <3>2 DEF Lose
  <2>3. cls' = cls /\ stray' = stray /\ UNCHANGED <<server, late, hasty>>
    BY <1>3 DEF Lose
  <2>4. QED BY <1>0, <2>1, <2>2, <2>3, NetworkStepTyped DEF ClientTypes
<1>4. ASSUME NEW c \in Client, Delay(c)
      PROVE  ServerTypes' /\ ClientTypes'
  <2>1. Head(path[c]) \in Packet
    BY <1>4, HeadTailProperties DEF Delay, ClientTypes
  <2>2. stray' \in [Client -> SUBSET Packet]
    BY <1>4, <2>1 DEF Delay, ClientTypes
  <2>3. cls' = cls /\ path' = path /\ back' = back /\ UNCHANGED <<server, late, hasty>>
    BY <1>4 DEF Delay
  <2>4. QED BY <1>0, <2>2, <2>3, NetworkStepTyped DEF ClientTypes, ServerTypes
<1>5. ASSUME NEW c \in Client, Translate(c)
      PROVE  ServerTypes' /\ ClientTypes'
  <2>1. PICK n \in Ports : cls' = [cls EXCEPT ![c].port = n]
    BY <1>5, TranslateFresh
  <2>5. PICK r : r = [cls[c] EXCEPT !.port = n]
    OBVIOUS
  <2>6. cls[c] \in ClientRecord
    BY <1>0 DEF ClientTypes
  <2>7. r \in ClientRecord
    BY <2>5, <2>6 DEF ClientRecord
  <2>8. cls' = [cls EXCEPT ![c] = r]
    BY <1>0, <2>1, <2>5 DEF ClientTypes
  <2>2. cls' \in [Client -> ClientRecord]
    BY <1>0, <2>7, <2>8 DEF ClientTypes
  <2>3. path' = path /\ stray' = stray /\ back' = back /\ UNCHANGED <<server, late, hasty>>
    BY <1>5 DEF Translate
  <2>4. QED BY <1>0, <2>2, <2>3, NetworkStepTyped DEF ClientTypes, ServerTypes
<1>6. ASSUME NEW c \in Client, Restart(c)
      PROVE  ServerTypes' /\ ClientTypes'
  <2>1. PICK n \in Qports : cls' = [cls EXCEPT ![c] = Process(@.port, n)]
    BY <1>6, RestartFresh
  <2>2. Process(cls[c].port, n) \in ClientRecord
    BY BoundTyped DEF ClientTypes, ClientRecord, Process
  <2>3. cls' \in [Client -> ClientRecord]
    BY <2>1, <2>2 DEF ClientTypes
  <2>4. path' = path /\ stray' = stray /\ back' = back /\ UNCHANGED <<server, late, hasty>>
    BY <1>6 DEF Restart
  <2>5. QED BY <1>0, <2>3, <2>4, NetworkStepTyped DEF ClientTypes, ServerTypes
<1>7. CASE ServerRestart
  <2>1. slot' = [s \in Slots |-> Free] /\ challenges' = <<>>
        /\ UNCHANGED <<cls, path, stray, back, issued, late, hasty>>
    BY <1>7 DEF ServerRestart
  <2>2. Answer' = Answer /\ Entries' = Entries /\ Packet' = Packet
    BY <2>1 DEF Answer, Entries, Packet
  <2>3. ServerTypes'
    BY <2>1, <2>2, FreeTyped DEF ServerTypes
  <2>4. ClientTypes'
    BY <1>0, <2>1, <2>2 DEF ClientTypes
  <2>5. QED BY <2>3, <2>4
<1>8. CASE OtherChallenge
  <2>1. challenges' = NewChallenge(0)
        /\ issued' = (IF challenges' = challenges THEN issued ELSE issued + 1)
        /\ UNCHANGED <<cls, path, stray, back, slot, late, hasty>>
    BY <1>8 DEF OtherChallenge
  <2>2. /\ issued \in Nat /\ issued' \in Nat /\ issued <= issued'
        /\ challenges' \in Seq(Entries')
    BY <2>1, NewChallengeTyped DEF ServerTypes
  <2>3. back' \in [Client -> Seq(Answer')]
    BY <2>1, <2>2, PacketsStay, SeqMonotonic DEF ServerTypes
  <2>4. ServerTypes'
    BY <2>1, <2>2, <2>3 DEF ServerTypes
  <2>5. ClientTypes'
    BY <1>0, <2>1, <2>2, ClientTypesStay DEF ClientTypes
  <2>6. QED BY <2>4, <2>5
<1>9. QED BY <1>1, <1>2, <1>3, <1>4, <1>5, <1>6, <1>7, <1>8 DEF Fault

LEMMA NextTyped ==
    ASSUME ServerTypes, ClientTypes, Next
    PROVE  ServerTypes' /\ ClientTypes'
<1>1. ASSUME NEW c \in Client, CheckForResend(c)
      PROVE  ServerTypes' /\ ClientTypes'
  <2>1. SendsOwn(c) /\ hasty' \in [Client -> BOOLEAN]
    BY <1>1, SendGetChallengeSends DEF CheckForResend
  <2>2. stray' = stray /\ back' = back /\ faults' = faults
        /\ UNCHANGED <<challenges, issued, slot, late>>
    BY <1>1 DEF CheckForResend, SendGetChallenge, server
  <2>3. QED BY <2>1, <2>2, SendingStepTyped DEF ServerTypes, ClientTypes
<1>2. ASSUME NEW c \in Client, ClientReceive(c)
      PROVE  ServerTypes' /\ ClientTypes'
  <2>1. SendsOwn(c) /\ back' \in [Client -> Seq(Answer)]
    BY <1>2, ReceiveSends
  <2>2. stray' = stray /\ faults' = faults /\ hasty' = hasty
        /\ UNCHANGED <<challenges, issued, slot, late>>
    BY <1>2 DEF ClientReceive, server
  <2>3. QED BY <2>1, <2>2, SendingStepTyped DEF ClientTypes
<1>3. ASSUME NEW c \in Client, ClientSend(c) \/ ClientTimeout(c)
      PROVE  ServerTypes' /\ ClientTypes'
  <2>1. SendsOwn(c)
    BY <1>3, SendSends, DisconnectSends DEF ClientTimeout
  <2>2. stray' = stray /\ back' = back /\ faults' = faults /\ hasty' = hasty
        /\ UNCHANGED <<challenges, issued, slot, late>>
    BY <1>3 DEF ClientSend, ClientTimeout, server
  <2>3. QED BY <2>1, <2>2, SendingStepTyped DEF ServerTypes, ClientTypes
<1>4. ASSUME NEW c \in Client, ServerReceive(c)
      PROVE  ServerTypes' /\ ClientTypes'
  <2>1. Head(path[c]) \in Packet /\ Tail(path[c]) \in Seq(Packet)
    BY <1>4, HeadTailProperties DEF ServerReceive, ClientTypes
  <2>2. ServerTypes' /\ issued <= issued' /\ issued \in Nat /\ issued' \in Nat
    <3>1. Base[c] \in Nat
      BY ConnectAssumption
    <3>2. ServerTypes' /\ issued <= issued'
      BY <1>4, <2>1, <3>1, HandledTyped DEF ServerReceive
    <3>3. QED BY <3>2 DEF ServerTypes
  <2>3. path' \in [Client -> Seq(Packet)]
    BY <1>4, <2>1 DEF ServerReceive, ClientTypes
  <2>4. ClientTypes'
    BY <1>4, <2>2, <2>3, ClientTypesStay DEF ServerReceive, ClientTypes
  <2>5. QED BY <2>2, <2>4
<1>5. ASSUME NEW c \in Client, ServerReceiveLate(c)
      PROVE  ServerTypes' /\ ClientTypes'
  <2>1. PICK p \in stray[c] :
          /\ ServerHandles(Base[c], p)
          /\ stray' = [stray EXCEPT ![c] = @ \ {p}]
          /\ late' = TRUE
          /\ UNCHANGED <<cls, path, faults, hasty>>
    BY <1>5 DEF ServerReceiveLate
  <2>2. p \in Packet
    BY DEF ClientTypes
  <2>3. ServerTypes' /\ issued <= issued' /\ issued \in Nat /\ issued' \in Nat
    <3>1. Base[c] \in Nat
      BY ConnectAssumption
    <3>2. ServerTypes' /\ issued <= issued'
      BY <2>1, <2>2, <3>1, HandledTyped
    <3>3. QED BY <3>2 DEF ServerTypes
  <2>4. stray' \in [Client -> SUBSET Packet]
    BY <2>1 DEF ClientTypes
  <2>5. ClientTypes'
    BY <2>1, <2>3, <2>4, ClientTypesStay DEF ClientTypes
  <2>6. QED BY <2>3, <2>5
<1>6. ASSUME NEW s \in Slots, CheckTimeouts(s)
      PROVE  ServerTypes' /\ ClientTypes'
  <2>1. slot' = [slot EXCEPT ![s] = Free]
        /\ UNCHANGED <<cls, path, stray, back, challenges, issued, faults, late, hasty>>
    BY <1>6 DEF CheckTimeouts
  <2>2. Answer' = Answer /\ Entries' = Entries /\ Packet' = Packet
    BY <2>1 DEF Answer, Entries, Packet
  <2>3. QED BY <2>1, <2>2, FreeTyped DEF ServerTypes, ClientTypes
<1>7. CASE Fault
  BY <1>7, FaultTyped
<1>8. QED BY <1>1, <1>2, <1>3, <1>4, <1>5, <1>6, <1>7 DEF Next

\* The variables of Connect keep their types: sequence numbers stay within what
\* a connection sends, and a slot is connected only after a packet.
THEOREM TypeCorrect == Spec => []TypeOK
<1>1. Init => ServerTypes /\ ClientTypes
  <2> SUFFICES ASSUME Init PROVE ServerTypes /\ ClientTypes
    OBVIOUS
  <2>1. ASSUME NEW c \in Client
        PROVE  Process(Port[c], Qport[c]) \in ClientRecord
    BY BoundTyped, ConnectAssumption DEF Process, ClientRecord
  <2>2. ServerTypes
    BY FreeTyped DEF Init, ServerTypes
  <2>3. ClientTypes
    <3>1. cls \in [Client -> ClientRecord]
      BY <2>1 DEF Init
    <3>2. path \in [Client -> Seq(Packet)] /\ stray \in [Client -> SUBSET Packet]
      BY DEF Init
    <3>3. faults \in 0..MaxFaults
      BY ConnectAssumption DEF Init
    <3>4. late \in BOOLEAN /\ hasty \in [Client -> BOOLEAN]
      BY DEF Init
    <3>5. QED BY <3>1, <3>2, <3>3, <3>4 DEF ClientTypes
  <2>4. QED BY <2>2, <2>3
<1>2. TypeOK /\ [Next]_vars => TypeOK'
  <2>1. CASE UNCHANGED vars
    BY <2>1 DEF vars, server, TypeOK, Packet, Answer
  <2>2. ASSUME ServerTypes, ClientTypes, Next
        PROVE  ServerTypes' /\ ClientTypes'
    BY <2>2, NextTyped
  <2>3. (ServerTypes /\ ClientTypes => TypeOK) /\ (ServerTypes /\ ClientTypes => TypeOK)'
    BY DEF TypeOK, ServerTypes, ClientTypes, ClientRecord, SlotRecord, Entries, Served
  <2>4. QED BY <2>1, <2>2, <2>3, TypeParts
<1>3. QED BY <1>1, <1>2, TypeParts, PTL DEF Spec

-----------------------------------------------------------------------------
(* Clients behind one address do not get into each other's slots *)

\* The packets of c that can reach the server, their ports and their qports,
\* with those c has itself.
In(c) == {path[c][i] : i \in DOMAIN path[c]} \cup stray[c]
PortsOf(c) == {cls[c].port} \cup {p.port : p \in In(c)}
QportsOf(c) == {cls[c].qport} \cup {p.qport : p \in {q \in In(c) : HasQport(q)}}

Neighbours(c, d) == c # d /\ Base[c] = Base[d]
Used(s) == slot[s].state # "free"

\* No port and no qport of a client is its neighbour's, and no slot has a port
\* of the one and a qport of the other.
Separate(c, d) ==
    /\ PortsOf(c) \cap PortsOf(d) = {}
    /\ QportsOf(c) \cap QportsOf(d) = {}
    /\ \A s \in Slots :
          Used(s) /\ slot[s].base = Base[c] /\ slot[s].port \in PortsOf(c)
          => slot[s].qport \notin QportsOf(d)
Disjoint == \A c, d \in Client : Neighbours(c, d) => Separate(c, d)

\* The packets of c in the order in which the server gets them, and last of all
\* what c would send now: their ports, and the qports of those that have one.
Last(c) == Len(path[c]) + 1
PortAt(c, i) == IF i = Last(c) THEN cls[c].port ELSE path[c][i].port
Has(c, i) == i = Last(c) \/ HasQport(path[c][i])
QportAt(c, i) == IF i = Last(c) THEN cls[c].qport ELSE path[c][i].qport

\* A step of the line: the server gets the first packet or the network loses it,
\* or c sends one more.
LineStep(c) ==
    /\ cls'[c].port = cls[c].port /\ cls'[c].qport = cls[c].qport
    /\ stray'[c] \subseteq In(c)
    /\ \/ path'[c] = path[c]
       \/ path[c] # <<>> /\ path'[c] = Tail(path[c])
       \/ \E m \in Packet : Own(c, m) /\ path'[c] = Append(path[c], m)

\* Every place of the line has the ports of a place of the line before, in the
\* same order.
Follows(c) ==
    \E f \in [1..Last(c)' -> 1..Last(c)] :
        /\ \A i, j \in 1..Last(c)' : i <= j => f[i] <= f[j]
        /\ \A i \in 1..Last(c)' :
              /\ PortAt(c, i)' = PortAt(c, f[i])
              /\ Has(c, i)' => Has(c, f[i]) /\ QportAt(c, i)' = QportAt(c, f[i])

LEMMA LineFollows ==
    ASSUME ClientTypes, NEW c \in Client, LineStep(c)
    PROVE  Follows(c) /\ Len(path'[c]) \in Nat
<1>0. PICK q : q = path[c]
  OBVIOUS
<1>1. q \in Seq(Packet) /\ Len(q) \in Nat
  BY <1>0 DEF ClientTypes
<1> DEFINE n == Len(q)
           F(f) == /\ \A i, j \in 1..Last(c)' : i <= j => f[i] <= f[j]
                   /\ \A i \in 1..Last(c)' :
                         /\ PortAt(c, i)' = PortAt(c, f[i])
                         /\ Has(c, i)' =>
                               Has(c, f[i]) /\ QportAt(c, i)' = QportAt(c, f[i])
<1>2. CASE path'[c] = q
  <2> DEFINE f == [i \in 1..n + 1 |-> i]
  <2>1. Last(c)' = n + 1 /\ Last(c) = n + 1
    BY <1>0, <1>2 DEF Last
  <2>2. f \in [1..Last(c)' -> 1..Last(c)]
    BY <2>1
  <2>3. F(f)
    BY <1>0, <1>2, <2>1 DEF LineStep, PortAt, QportAt, Has
  <2>4. QED BY <1>1, <1>2, <2>2, <2>3 DEF Follows
<1>3. CASE q # <<>> /\ path'[c] = Tail(q)
  <2> DEFINE f == [i \in 1..n |-> i + 1]
  <2>1. /\ Len(path'[c]) = n - 1 /\ n > 0
        /\ \A i \in 1..n - 1 : path'[c][i] = q[i + 1]
    BY <1>1, <1>3, HeadTailProperties
  <2>2. Last(c)' = n /\ Last(c) = n + 1
    BY <1>0, <1>1, <2>1 DEF Last
  <2>3. f \in [1..Last(c)' -> 1..Last(c)]
    BY <1>1, <2>2
  <2>4. \A i, j \in 1..Last(c)' : i <= j => f[i] <= f[j]
    BY <1>1, <2>2
  <2>5. ASSUME NEW i \in 1..n
        PROVE  /\ PortAt(c, i)' = PortAt(c, i + 1)
               /\ Has(c, i)' => Has(c, i + 1) /\ QportAt(c, i)' = QportAt(c, i + 1)
    <3>1. CASE i = n
      BY <1>1, <2>2, <3>1 DEF LineStep, PortAt, QportAt, Has
    <3>2. CASE i # n
      <4>1. i \in 1..n - 1 /\ i + 1 # n + 1
        BY <1>1, <3>2
      <4>2. path'[c][i] = path[c][i + 1]
        BY <1>0, <2>1, <4>1
      <4>3. QED BY <2>2, <3>2, <4>1, <4>2 DEF PortAt, QportAt, Has
    <3>3. QED BY <3>1, <3>2
  <2>6. \A i \in 1..n : f[i] = i + 1
    OBVIOUS
  <2> HIDE DEF f
  <2>7. F(f)
    BY <2>2, <2>4, <2>5, <2>6
  <2>8. Follows(c)
    BY <2>3, <2>7 DEF Follows
  <2>9. QED BY <1>1, <2>1, <2>8
<1>4. ASSUME NEW m \in Packet, Own(c, m), path'[c] = Append(q, m)
      PROVE  Follows(c) /\ Len(path'[c]) \in Nat
  <2> DEFINE f == [i \in 1..n + 2 |-> IF i = n + 2 THEN n + 1 ELSE i]
  <2>1. /\ Len(path'[c]) = n + 1 /\ path'[c][n + 1] = m
        /\ \A i \in 1..n : path'[c][i] = q[i]
    BY <1>1, <1>4, AppendProperties
  <2>2. Last(c)' = n + 2 /\ Last(c) = n + 1
    BY <1>0, <1>1, <2>1 DEF Last
  <2>3. f \in [1..Last(c)' -> 1..Last(c)]
    BY <1>1, <2>2
  <2>4. \A i, j \in 1..Last(c)' : i <= j => f[i] <= f[j]
    BY <1>1, <2>2
  <2>5. ASSUME NEW i \in 1..n + 2
        PROVE  /\ PortAt(c, i)' = PortAt(c, f[i])
               /\ Has(c, i)' => Has(c, f[i]) /\ QportAt(c, i)' = QportAt(c, f[i])
    <3>1. CASE i = n + 2
      BY <1>1, <2>2, <3>1 DEF LineStep, PortAt, QportAt, Has
    <3>2. CASE i = n + 1
      <4>1. f[i] = n + 1 /\ i # n + 2
        BY <1>1, <3>2
      <4>2. path'[c][i] = m
        BY <2>1, <3>2
      <4>3. QED BY <1>4, <2>2, <4>1, <4>2 DEF PortAt, QportAt, Has, Own
    <3>3. CASE i # n + 2 /\ i # n + 1
      <4>1. i \in 1..n /\ f[i] = i
        BY <1>1, <3>3
      <4>2. path'[c][i] = path[c][i]
        BY <1>0, <2>1, <4>1
      <4>3. QED BY <2>2, <3>3, <4>1, <4>2 DEF PortAt, QportAt, Has
    <3>4. QED BY <3>1, <3>2, <3>3
  <2> HIDE DEF f
  <2>6. F(f)
    BY <2>2, <2>4, <2>5
  <2>7. Follows(c)
    BY <2>3, <2>6 DEF Follows
  <2>8. QED BY <1>1, <2>1, <2>7
<1>5. QED BY <1>0, <1>2, <1>3, <1>4 DEF LineStep

\* Places of the line and the sets of ports.
LEMMA PlacesAndPorts ==
    ASSUME ClientTypes, NEW c \in Client
    PROVE  /\ \A i \in 1..Last(c) : PortAt(c, i) \in PortsOf(c)
           /\ \A i \in 1..Last(c) : Has(c, i) => QportAt(c, i) \in QportsOf(c)
<1>1. path[c] \in Seq(Packet) /\ Len(path[c]) \in Nat /\ DOMAIN path[c] = 1..Len(path[c])
  BY DEF ClientTypes
<1>2. ASSUME NEW i \in 1..Last(c), i # Last(c)
      PROVE  path[c][i] \in In(c)
  BY <1>1, <1>2 DEF Last, In
<1>3. QED BY <1>2 DEF PortAt, Has, QportAt, PortsOf, QportsOf

LEMMA PortsFollow ==
    ASSUME ClientTypes, ClientTypes', NEW c \in Client, LineStep(c)
    PROVE  PortsOf(c)' \subseteq PortsOf(c) /\ QportsOf(c)' \subseteq QportsOf(c)
<1>1. ASSUME NEW p \in In(c)'
      PROVE  p \in In(c) \/ Own(c, p)
  <2>1. CASE p \in stray'[c]
    BY <2>1 DEF LineStep
  <2>2. ASSUME NEW i \in DOMAIN path'[c], p = path'[c][i]
        PROVE  p \in In(c) \/ Own(c, p)
    <3>1. path[c] \in Seq(Packet)
      BY DEF ClientTypes
    <3>2. CASE path'[c] = path[c]
      BY <2>2, <3>2 DEF In
    <3>3. CASE path[c] # <<>> /\ path'[c] = Tail(path[c])
      <4>1. /\ i + 1 \in DOMAIN path[c] /\ path'[c][i] = path[c][i + 1]
        BY <3>1, <3>3, HeadTailProperties, LenProperties
      <4>2. QED BY <2>2, <4>1 DEF In
    <3>4. ASSUME NEW m \in Packet, Own(c, m), path'[c] = Append(path[c], m)
          PROVE  p \in In(c) \/ Own(c, p)
      <4>1. (i \in DOMAIN path[c] /\ path'[c][i] = path[c][i]) \/ path'[c][i] = m
        BY <3>1, <3>4
      <4>2. QED BY <2>2, <3>4, <4>1 DEF In
    <3>5. QED BY <3>2, <3>3, <3>4 DEF LineStep
  <2>3. QED BY <2>1, <2>2 DEF In
<1>2. QED BY <1>1 DEF PortsOf, QportsOf, Own, LineStep

LEMMA SendingLine ==
    ASSUME ClientTypes, NEW c \in Client, SendsOwn(c), stray' = stray
    PROVE  \A d \in Client : LineStep(d)
<1>1. ASSUME NEW d \in Client
      PROVE  stray'[d] \subseteq In(d)
  BY DEF In
<1>2. ASSUME NEW d \in Client, path' = path
      PROVE  LineStep(d)
  BY <1>1, <1>2 DEF LineStep, SendsOwn
<1>3. ASSUME NEW d \in Client, NEW m \in Packet, Own(c, m),
             path' = [path EXCEPT ![c] = Push(@, m)]
      PROVE  LineStep(d)
  <2>1. path'[d] = path[d] \/ (d = c /\ path'[d] = Append(path[d], m))
    <3>1. PICK q : q = Push(path[c], m)
      OBVIOUS
    <3>2. q = path[c] \/ q = Append(path[c], m)
      BY <3>1 DEF Push
    <3>3. path' = [path EXCEPT ![c] = q] /\ path \in [Client -> Seq(Packet)]
      BY <1>3, <3>1 DEF ClientTypes
    <3>4. QED BY <3>2, <3>3
  <2>2. QED BY <1>1, <1>3, <2>1 DEF LineStep, SendsOwn
<1>4. QED BY <1>2, <1>3 DEF SendsOwn

\* Steps in which no client sends.
LEMMA ReceivingLine ==
    ASSUME ClientTypes, cls' = cls,
           \A d \in Client : \/ path'[d] = path[d]
                             \/ path[d] # <<>> /\ path'[d] = Tail(path[d]),
           \A d \in Client : stray'[d] \subseteq In(d)
    PROVE  \A d \in Client : LineStep(d)
BY DEF LineStep

LEMMA LineSteps ==
    ASSUME ClientTypes, ServerTypes, Next
    PROVE  \/ \A d \in Client : LineStep(d)
           \/ \E c \in Client : Translate(c) \/ Restart(c)
<1>0. \A d \in Client : stray[d] \subseteq In(d)
  BY DEF In
<1>1. ASSUME NEW c \in Client,
             \/ CheckForResend(c) \/ ClientReceive(c) \/ ClientSend(c)
             \/ ClientTimeout(c) \/ Impatient(c) \/ Quit(c)
      PROVE  \A d \in Client : LineStep(d)
  <2>1. SendsOwn(c)
    BY <1>1, SendGetChallengeSends, ReceiveSends, SendSends, DisconnectSends
       DEF CheckForResend, Impatient, ClientTimeout, Quit
  <2>2. stray' = stray
    BY <1>1 DEF CheckForResend, Impatient, SendGetChallenge, ClientReceive,
                ClientSend, ClientTimeout, Quit
  <2>3. QED BY <2>1, <2>2, SendingLine
<1>2. ASSUME NEW c \in Client, ServerReceive(c) \/ ServerReceiveLate(c)
      PROVE  \A d \in Client : LineStep(d)
  <2>1. cls' = cls
    BY <1>2 DEF ServerReceive, ServerReceiveLate
  <2>2. \A d \in Client : \/ path'[d] = path[d]
                          \/ path[d] # <<>> /\ path'[d] = Tail(path[d])
    <3>1. CASE ServerReceive(c)
      BY <3>1 DEF ServerReceive, ClientTypes
    <3>2. CASE ServerReceiveLate(c)
      BY <3>2 DEF ServerReceiveLate
    <3>3. QED BY <1>2, <3>1, <3>2
  <2>3. \A d \in Client : stray'[d] \subseteq In(d)
    <3>1. CASE ServerReceive(c)
      BY <1>0, <3>1 DEF ServerReceive
    <3>2. CASE ServerReceiveLate(c)
      <4>1. PICK p : stray' = [stray EXCEPT ![c] = @ \ {p}]
        BY <3>2 DEF ServerReceiveLate
      <4>2. QED BY <1>0, <4>1 DEF ClientTypes
    <3>3. QED BY <1>2, <3>1, <3>2
  <2>4. QED BY <2>1, <2>2, <2>3, ReceivingLine
<1>3. ASSUME NEW c \in Client, Lose(c)
      PROVE  \A d \in Client : LineStep(d)
  BY <1>0, <1>3, ReceivingLine DEF Lose, ClientTypes
<1>4. ASSUME NEW c \in Client, Delay(c)
      PROVE  \A d \in Client : LineStep(d)
  <2>1. Head(path[c]) \in In(c)
    <3>1. path[c] \in Seq(Packet) /\ path[c] # <<>>
      BY <1>4 DEF Delay, ClientTypes
    <3>2. 1 \in DOMAIN path[c] /\ Head(path[c]) = path[c][1]
      BY <3>1
    <3>3. QED BY <3>2 DEF In
  <2>2. \A d \in Client : stray'[d] \subseteq In(d)
    BY <1>0, <1>4, <2>1 DEF Delay, ClientTypes
  <2>3. cls' = cls /\ path' = path
    BY <1>4 DEF Delay
  <2>4. QED BY <2>2, <2>3, ReceivingLine
<1>5. ASSUME ServerRestart \/ OtherChallenge \/ \E s \in Slots : CheckTimeouts(s)
      PROVE  \A d \in Client : LineStep(d)
  BY <1>0, <1>5, ReceivingLine DEF ServerRestart, OtherChallenge, CheckTimeouts
<1>6. QED BY <1>1, <1>2, <1>3, <1>4, <1>5 DEF Next, Fault

\* A slot stays the one it is, or is freed.
SameKey(s) ==
    /\ slot'[s].base = slot[s].base
    /\ slot'[s].port = slot[s].port
    /\ slot'[s].qport = slot[s].qport
SlotStays(s) == Used(s)' => Used(s) /\ SameKey(s)

\* p gets a slot of its own, or corrects the port of the one it has.
SlotTaken(base, p, u) ==
    /\ HasQport(p)
    /\ slot'[u].base = base /\ slot'[u].port = p.port /\ slot'[u].qport = p.qport
    /\ \A s \in Slots \ {u} : SlotStays(s)

LEMMA ClearedStays ==
    ASSUME ServerTypes, NEW base, NEW p, NEW s \in Slots
    PROVE  /\ Cleared(base, p)[s] = slot[s] \/ Cleared(base, p)[s] = Free
           /\ ~Reconnects(base, p.port, p.qport, s) => Cleared(base, p)[s] = slot[s]
           /\ /\ Reconnects(base, p.port, p.qport, s)
              /\ \A t \in Slots : Reconnects(base, p.port, p.qport, t) => t = s
              => Cleared(base, p)[s] = Free
<1> DEFINE old == {t \in Slots : Reconnects(base, p.port, p.qport, t)}
<1>1. Cleared(base, p) = IF old = {} THEN slot ELSE [slot EXCEPT ![First(old)] = Free]
  BY DEF Cleared, CheckReConnect
<1>2. old # {} => First(old) \in old
  BY FirstSlot
<1>3. \A t \in Slots : t \in old <=> Reconnects(base, p.port, p.qport, t)
  OBVIOUS
<1>4. slot \in [Slots -> SlotRecord] /\ old \subseteq Slots
  BY DEF ServerTypes
<1> HIDE DEF old
<1>5. QED BY <1>1, <1>2, <1>3, <1>4

LEMMA FreedStays ==
    ASSUME NEW s \in Slots, slot'[s] = slot[s] \/ slot'[s] = Free
    PROVE  SlotStays(s)
BY DEF SlotStays, SameKey, Used, Free

LEMMA AcceptsTakes ==
    ASSUME ServerTypes, NEW base, NEW p, HasQport(p), NEW u \in Slots,
           Accepts(base, p, u)
    PROVE  /\ SlotTaken(base, p, u)
           /\ slot'[u] = Made(base, p)
           /\ \A s \in Slots \ {u} : slot'[s] = Cleared(base, p)[s]
<1>1. slot' = [Cleared(base, p) EXCEPT ![u] = Made(base, p)]
      /\ Cleared(base, p) \in [Slots -> SlotRecord]
  BY ClearedTyped DEF Accepts
<1>2. slot'[u] = Made(base, p)
      /\ \A s \in Slots \ {u} : slot'[s] = Cleared(base, p)[s]
  BY <1>1
<1>3. \A s \in Slots \ {u} : SlotStays(s)
  BY <1>2, ClearedStays, FreedStays
<1>4. QED BY <1>2, <1>3 DEF SlotTaken, Made

LEMMA MessageTakes ==
    ASSUME ServerTypes, NEW base, NEW p \in Packet, p.type = "data",
           NEW u \in Matching(base, p.qport), Serves(base, p, u) \/ Ignores(u, p)
    PROVE  /\ u \in Slots /\ SlotTaken(base, p, u)
           /\ \A s \in Slots \ {u} : slot'[s] = slot[s]
<1>1. u \in Slots /\ slot[u].state # "free"
      /\ slot[u].base = base /\ slot[u].qport = p.qport /\ slot[u] \in SlotRecord
  BY DEF Matching, ServerTypes
<1>2. PICK d : d = slot'[u]
  OBVIOUS
<1>3. d = Done(u, p) \/ d = FixPort(u, p)
  BY <1>1, <1>2 DEF Serves, Ignores, ServerTypes
<1>4. d.base = base /\ d.qport = p.qport /\ d.port = p.port
  <2>1. CASE d = Done(u, p)
    BY <1>1, <2>1, DoneIs
  <2>2. CASE d = FixPort(u, p)
    BY <1>1, <2>2 DEF FixPort, SlotRecord
  <2>3. QED BY <1>3, <2>1, <2>2
<1>5. \A s \in Slots \ {u} : slot'[s] = slot[s]
  BY <1>1 DEF Serves, Ignores, ServerTypes
<1>6. \A s \in Slots \ {u} : SlotStays(s)
  BY <1>5, FreedStays
<1>7. QED BY <1>1, <1>2, <1>4, <1>5, <1>6 DEF SlotTaken, HasQport

LEMMA HandledSlots ==
    ASSUME ServerTypes, NEW base \in Nat, NEW p \in Packet,
           ServerHandles(base, p)
    PROVE  \/ \A s \in Slots : SlotStays(s)
           \/ \E u \in Slots : SlotTaken(base, p, u)
<1>1. CASE p.type = "getchallenge"
  BY <1>1, FreedStays DEF ServerHandles, GetChallenge
<1>2. CASE p.type = "connect"
  <2>1. DirectConnect(base, p) /\ HasQport(p)
    BY <1>2 DEF ServerHandles, HasQport
  <2>2. CASE Refuses(base, p)
    BY <2>2, FreedStays, ClearedStays DEF Refuses
  <2>3. QED BY <2>1, <2>2, AcceptsTakes, DirectConnectCases
<1>3. CASE p.type = "data"
  <2>1. ExecuteMessage(base, p)
    BY <1>3 DEF ServerHandles
  <2>2. CASE slot' = slot
    BY <2>2, FreedStays
  <2>3. QED BY <1>3, <2>1, <2>2, MessageTakes, ExecuteMessageCases
<1>4. QED BY <1>1, <1>2, <1>3, PacketParts

\* Only a packet that the server handles gives a slot a port or a qport.
Handles(c, p) ==
    /\ p \in In(c) /\ p \in Packet
    /\ ServerHandles(Base[c], p)
    /\ \/ path[c] # <<>> /\ p = path[c][1]
       \/ late'

LEMMA SlotSteps ==
    ASSUME ClientTypes, ServerTypes, Next
    PROVE  \/ \A s \in Slots : SlotStays(s)
           \/ \E c \in Client, p \in Packet, u \in Slots :
                 Handles(c, p) /\ SlotTaken(Base[c], p, u)
<1>1. CASE slot' = slot
  BY <1>1 DEF SlotStays, SameKey, Used
<1>2. ASSUME NEW c \in Client, NEW p \in Packet, Handles(c, p)
      PROVE  \/ \A s \in Slots : SlotStays(s)
             \/ \E u \in Slots : Handles(c, p) /\ SlotTaken(Base[c], p, u)
  <2>1. Base[c] \in Nat
    BY ConnectAssumption
  <2>2. QED BY <1>2, <2>1, HandledSlots DEF Handles
<1>3. ASSUME NEW c \in Client, ServerReceive(c)
      PROVE  \E p \in Packet : Handles(c, p)
  <2>1. path[c] \in Seq(Packet) /\ path[c] # <<>>
    BY <1>3 DEF ServerReceive, ClientTypes
  <2>2. 1 \in DOMAIN path[c] /\ Head(path[c]) = path[c][1] /\ path[c][1] \in Packet
    BY <2>1
  <2>3. Handles(c, path[c][1])
    BY <1>3, <2>1, <2>2 DEF ServerReceive, Handles, In
  <2>4. QED BY <2>2, <2>3
<1>4. ASSUME NEW c \in Client, ServerReceiveLate(c)
      PROVE  \E p \in Packet : Handles(c, p)
  BY <1>4 DEF ServerReceiveLate, Handles, In, ClientTypes
<1>5. ASSUME NEW s \in Slots, CheckTimeouts(s)
      PROVE  \A t \in Slots : SlotStays(t)
  BY <1>5 DEF CheckTimeouts, SlotStays, SameKey, Used, Free, ServerTypes
<1>6. CASE ServerRestart
  BY <1>6 DEF ServerRestart, SlotStays, SameKey, Used, Free
<1>7. ASSUME NEW c \in Client,
             \/ CheckForResend(c) \/ ClientReceive(c) \/ ClientSend(c)
             \/ ClientTimeout(c) \/ Impatient(c) \/ Quit(c) \/ Lose(c)
             \/ Delay(c) \/ Translate(c) \/ Restart(c)
      PROVE  slot' = slot
  BY <1>7 DEF CheckForResend, ClientReceive, ClientSend, ClientTimeout, Impatient,
              SendGetChallenge, Quit, Lose, Delay, Translate, Restart, server
<1>8. CASE OtherChallenge
  BY <1>1, <1>8 DEF OtherChallenge
<1>9. QED BY <1>1, <1>2, <1>3, <1>4, <1>5, <1>6, <1>7, <1>8 DEF Next, Fault

\* Translate and Restart change one port or one qport of one client.
LEMMA FreshPorts ==
    ASSUME ClientTypes, NEW c \in Client, path' = path, stray' = stray,
           \/ Translate(c)
           \/ Restart(c)
    PROVE  /\ \A d \in Client \ {c} :
                 PortsOf(d)' = PortsOf(d) /\ QportsOf(d)' = QportsOf(d)
           /\ \/ \E n \in Ports : /\ FreshPort(n)
                                  /\ PortsOf(c)' \subseteq PortsOf(c) \cup {n}
                                  /\ QportsOf(c)' = QportsOf(c)
              \/ \E n \in Qports : /\ FreshQport(n)
                                   /\ PortsOf(c)' = PortsOf(c)
                                   /\ QportsOf(c)' \subseteq QportsOf(c) \cup {n}
<1>1. \A d \in Client : In(d)' = In(d)
  BY DEF In
<1>2. CASE Translate(c)
  <2>1. PICK n \in Ports : FreshPort(n) /\ cls' = [cls EXCEPT ![c].port = n]
    BY <1>2, TranslateFresh
  <2>2. /\ \A d \in Client \ {c} : cls'[d] = cls[d]
        /\ cls'[c].port = n /\ cls'[c].qport = cls[c].qport
    BY <2>1 DEF ClientTypes, ClientRecord
  <2>3. QED BY <1>1, <2>1, <2>2 DEF PortsOf, QportsOf
<1>3. CASE Restart(c)
  <2>1. PICK n \in Qports :
          FreshQport(n) /\ cls' = [cls EXCEPT ![c] = Process(@.port, n)]
    BY <1>3, RestartFresh
  <2>2. /\ \A d \in Client \ {c} : cls'[d] = cls[d]
        /\ cls'[c].port = cls[c].port /\ cls'[c].qport = n
    BY <2>1 DEF ClientTypes, Process
  <2>3. QED BY <1>1, <2>1, <2>2 DEF PortsOf, QportsOf
<1>4. QED BY <1>2, <1>3

\* No client has a port or a qport that is fresh.
LEMMA FreshIsNew ==
    ASSUME ClientTypes, NEW n, NEW d \in Client
    PROVE  (FreshPort(n) => n \notin PortsOf(d)) /\ (FreshQport(n) => n \notin QportsOf(d))
<1>1. In(d) \subseteq Underway
  BY DEF In, Underway
<1>2. QED BY <1>1 DEF FreshPort, FreshQport, PortsOf, QportsOf

LEMMA DisjointStays ==
    ASSUME TypeOK, TypeOK', Disjoint, Next
    PROVE  Disjoint'
<1>0. ClientTypes /\ ServerTypes /\ ClientTypes'
  <2>1. (TypeOK => ClientTypes)'
    BY DEF TypeOK, ClientTypes, ClientRecord
  <2>2. QED BY <2>1, TypeParts
<1>1. CASE \A d \in Client : LineStep(d)
  <2>1. \A d \in Client : PortsOf(d)' \subseteq PortsOf(d) /\ QportsOf(d)' \subseteq QportsOf(d)
    BY <1>0, <1>1, PortsFollow
  <2> SUFFICES ASSUME NEW c \in Client, NEW d \in Client, Neighbours(c, d)
               PROVE  Separate(c, d)'
    BY DEF Disjoint, Neighbours
  <2>2. PortsOf(c)' \cap PortsOf(d)' = {} /\ QportsOf(c)' \cap QportsOf(d)' = {}
    BY <2>1 DEF Disjoint, Separate
  <2>3. ASSUME NEW s \in Slots,
               Used(s)', slot'[s].base = Base[c], slot'[s].port \in PortsOf(c)',
               slot'[s].qport \in QportsOf(d)'
        PROVE  FALSE
    <3>1. slot'[s].port \in PortsOf(c) /\ slot'[s].qport \in QportsOf(d)
      BY <2>1, <2>3
    <3>2. CASE SlotStays(s)
      BY <2>3, <3>1, <3>2 DEF SlotStays, SameKey, Disjoint, Separate
    <3>3. ASSUME NEW e \in Client, NEW p \in Packet, Handles(e, p),
                 SlotTaken(Base[e], p, s)
          PROVE  FALSE
      <4>1. slot'[s].base = Base[e] /\ slot'[s].port \in PortsOf(e)
            /\ slot'[s].qport \in QportsOf(e)
        BY <3>3 DEF SlotTaken, Handles, PortsOf, QportsOf
      <4>2. c = e
        BY <2>3, <3>1, <4>1 DEF Disjoint, Separate, Neighbours
      <4>3. QED BY <3>1, <4>1, <4>2 DEF Disjoint, Separate
    <3>4. QED BY <1>0, <3>2, <3>3, SlotSteps DEF SlotTaken
  <2>4. QED BY <2>2, <2>3 DEF Separate
<1>2. ASSUME NEW c \in Client, Translate(c) \/ Restart(c)
      PROVE  Disjoint'
  <2>1. path' = path /\ stray' = stray /\ slot' = slot
    BY <1>2 DEF Translate, Restart, server
  <2>2. ASSUME NEW n \in Ports, FreshPort(n),
               PortsOf(c)' \subseteq PortsOf(c) \cup {n},
               QportsOf(c)' = QportsOf(c),
               \A d \in Client \ {c} :
                  PortsOf(d)' = PortsOf(d) /\ QportsOf(d)' = QportsOf(d)
        PROVE  Disjoint'
    <3>1. \A d \in Client : n \notin PortsOf(d)
      BY <1>0, <2>2, FreshIsNew
    <3>2. \A s \in Slots : slot[s].port # n
      BY <2>2 DEF FreshPort
    <3>3. QED BY <2>1, <2>2, <3>1, <3>2 DEF Disjoint, Separate, Neighbours, Used
  <2>3. ASSUME NEW n \in Qports, FreshQport(n),
               PortsOf(c)' = PortsOf(c),
               QportsOf(c)' \subseteq QportsOf(c) \cup {n},
               \A d \in Client \ {c} :
                  PortsOf(d)' = PortsOf(d) /\ QportsOf(d)' = QportsOf(d)
        PROVE  Disjoint'
    <3>1. \A d \in Client : n \notin QportsOf(d)
      BY <1>0, <2>3, FreshIsNew
    <3>2. \A s \in Slots : slot[s].qport # n
      BY <2>3 DEF FreshQport
    <3>3. QED BY <2>1, <2>3, <3>1, <3>2 DEF Disjoint, Separate, Neighbours, Used
  <2>4. QED BY <1>0, <1>2, <2>1, <2>2, <2>3, FreshPorts
<1>3. QED BY <1>0, <1>1, <1>2, LineSteps

LEMMA DisjointInit == Init => Disjoint
<1> SUFFICES ASSUME Init PROVE Disjoint
  OBVIOUS
<1>1. \A c \in Client : In(c) = {}
  BY DEF Init, In
<1>2. \A c \in Client : cls[c].port = Port[c] /\ cls[c].qport = Qport[c]
  BY DEF Init, Process
<1>3. \A s \in Slots : ~Used(s)
  BY DEF Init, Used, Free
<1>4. QED BY <1>1, <1>2, <1>3, ConnectAssumption
     DEF Disjoint, Separate, Neighbours, PortsOf, QportsOf

LEMMA DisjointAlways == Spec => []Disjoint
<1>1. TypeOK /\ TypeOK' /\ Disjoint /\ [Next]_vars => Disjoint'
  <2>1. CASE UNCHANGED vars
    <3>1. cls' = cls /\ path' = path /\ stray' = stray /\ slot' = slot
      BY <2>1 DEF vars, server
    <3>2. \A c \in Client : PortsOf(c)' = PortsOf(c) /\ QportsOf(c)' = QportsOf(c)
      BY <3>1 DEF PortsOf, QportsOf, In
    <3>3. QED BY <3>1, <3>2 DEF Disjoint, Separate, Neighbours, Used
  <2>2. QED BY <2>1, DisjointStays
<1>2. QED BY <1>1, DisjointInit, TypeCorrect, PTL DEF Spec

\* The slots packets of c belong to.
SlotsOf(c) == Matching(Base[c], cls[c].qport)

LEMMA FirstIs ==
    ASSUME NEW S \in SUBSET Slots, NEW s \in S, \A t \in S : s <= t
    PROVE  First(S) = s
<1>1. First(S) \in S /\ First(S) <= s
  BY FirstSlot
<1>2. s <= First(S)
  BY <1>1
<1>3. s \in Nat /\ First(S) \in Nat
  BY <1>1, ConnectAssumption
<1>4. QED BY <1>1, <1>2, <1>3

\* A client stays in the game whose slots change as little as this.
LEMMA GameGoesOn ==
    ASSUME NEW c \in Client, InGame(c), cls'[c] = cls[c],
           slot'[SlotOf(c)] = slot[SlotOf(c)], SlotsOf(c)' \subseteq SlotsOf(c)
    PROVE  InGame(c)'
<1>1. PICK s : s = SlotOf(c)
  OBVIOUS
<1>2. SlotsOf(c) \subseteq Slots /\ SlotsOf(c)' \subseteq Slots
  BY DEF SlotsOf, Matching
<1>3. s \in SlotsOf(c) /\ \A t \in SlotsOf(c) : s <= t
  BY <1>1, <1>2, FirstSlot DEF InGame, HasSlot, SlotOf, SlotsOf
<1>4. slot'[s] = slot[s] /\ slot[s].state = "connected"
  BY <1>1 DEF InGame
<1>5. s \in SlotsOf(c)'
  BY <1>2, <1>3, <1>4 DEF SlotsOf, Matching
<1>6. SlotOf(c)' = s
  <2>1. First(SlotsOf(c)') = s
    BY <1>2, <1>3, <1>5, FirstIs
  <2>2. QED BY <2>1 DEF SlotOf, SlotsOf, First
<1>7. QED BY <1>4, <1>5, <1>6 DEF InGame, HasSlot, SlotsOf, Connected

\* What the server does with a packet of d leaves the slots of c alone.
LEMMA OthersKeepSlots ==
    ASSUME TypeOK, Disjoint, NEW c \in Client, NEW d \in Client, c # d,
           NEW p \in Packet, p \in In(d), ServerHandles(Base[d], p),
           cls'[c] = cls[c]
    PROVE  /\ \A s \in SlotsOf(c) : slot'[s] = slot[s]
           /\ SlotsOf(c)' \subseteq SlotsOf(c)
<1>0. ServerTypes /\ Base[d] \in Nat
  BY TypeParts, ConnectAssumption
<1>1. p.port \in PortsOf(d) /\ (HasQport(p) => p.qport \in QportsOf(d))
  BY DEF PortsOf, QportsOf
<1>2. cls[c].qport \in QportsOf(c)
  BY DEF QportsOf
<1>3. Base[c] = Base[d] => Separate(c, d) /\ Separate(d, c)
  BY DEF Disjoint, Neighbours
<1>4. Base[c] = Base[d] /\ HasQport(p) => p.qport # cls[c].qport
  BY <1>1, <1>2, <1>3 DEF Separate
<1>5. SlotsOf(c)' \subseteq SlotsOf(c)
  <2>1. ASSUME NEW s \in Slots, SlotStays(s), s \in SlotsOf(c)'
        PROVE  s \in SlotsOf(c)
    BY <2>1 DEF SlotStays, SameKey, SlotsOf, Matching, Used
  <2>2. ASSUME NEW u \in Slots, SlotTaken(Base[d], p, u)
        PROVE  u \notin SlotsOf(c)'
    BY <1>4, <2>2 DEF SlotTaken, SlotsOf, Matching
  <2>3. SlotsOf(c)' \subseteq Slots
    BY DEF SlotsOf, Matching
  <2>4. QED BY <1>0, <2>1, <2>2, <2>3, HandledSlots DEF SlotTaken
<1>6. ASSUME NEW s \in SlotsOf(c)
      PROVE  slot'[s] = slot[s]
  <2>1. s \in Slots /\ Used(s) /\ slot[s].base = Base[c] /\ slot[s].qport = cls[c].qport
    BY DEF SlotsOf, Matching, Used
  <2>2. CASE p.type = "getchallenge"
    BY <2>2 DEF ServerHandles, GetChallenge
  <2>3. CASE p.type = "connect"
    <3>1. ~Reconnects(Base[d], p.port, p.qport, s)
      BY <1>1, <1>2, <1>3, <1>4, <2>1, <2>3
         DEF Reconnects, Separate, HasQport
    <3>2. Cleared(Base[d], p)[s] = slot[s]
      BY <1>0, <2>1, <3>1, ClearedStays
    <3>3. CASE Refuses(Base[d], p)
      BY <3>2, <3>3 DEF Refuses
    <3>4. ASSUME NEW u \in Slots, Accepts(Base[d], p, u)
          PROVE  slot'[s] = slot[s]
      <4>1. u # s
        BY <2>1, <3>2, <3>4 DEF Accepts, Used
      <4>2. Cleared(Base[d], p) \in [Slots -> SlotRecord]
        BY <1>0, ClearedTyped
      <4>3. QED BY <2>1, <3>2, <3>4, <4>1, <4>2 DEF Accepts
    <3>5. DirectConnect(Base[d], p)
      BY <2>3 DEF ServerHandles
    <3>6. QED BY <3>3, <3>4, <3>5, DirectConnectCases
  <2>4. CASE p.type = "data"
    <3>1. ExecuteMessage(Base[d], p)
      BY <2>4 DEF ServerHandles
    <3>2. s \notin Matching(Base[d], p.qport)
      BY <1>4, <2>1, <2>4 DEF Matching, HasQport
    <3>3. PICK u : u = First(Matching(Base[d], p.qport))
      OBVIOUS
    <3>6. \/ slot' = slot
          \/ u # s /\ (Serves(Base[d], p, u) \/ Ignores(u, p))
      BY <3>1, <3>2, <3>3, ExecuteMessageCases
    <3>4. \/ slot' = slot
          \/ u # s /\ \E r : slot' = [slot EXCEPT ![u] = r]
      BY <3>6 DEF Serves, Ignores
    <3>5. QED BY <1>0, <2>1, <3>4 DEF ServerTypes
  <2>5. QED BY <2>2, <2>3, <2>4, PacketParts
<1>7. QED BY <1>5, <1>6

\* What NotStolen says of one client: it does nothing, nothing of it arrives, and
\* its slot is not silent.
LEMMA NotStolenStep ==
    ASSUME TypeOK, Disjoint, Next, NEW c \in Client,
           InGame(c), path'[c] = path[c], stray'[c] = stray[c],
           cls'[c] = cls[c], faults' = faults, ~Silent(SlotOf(c))
    PROVE  InGame(c)'
<1>0. ServerTypes /\ ClientTypes
  BY TypeParts
<1>1. SlotOf(c) \in SlotsOf(c) /\ SlotsOf(c) \subseteq Slots
  <2>1. SlotsOf(c) \subseteq Slots
    BY DEF SlotsOf, Matching
  <2>2. QED BY <2>1, FirstSlot DEF InGame, HasSlot, SlotOf, SlotsOf
<1>2. CASE slot' = slot
  <2>1. SlotsOf(c)' = SlotsOf(c)
    BY <1>2 DEF SlotsOf, Matching
  <2>2. QED BY <1>2, <2>1, GameGoesOn
<1>3. ASSUME NEW d \in Client, ServerReceive(d)
      PROVE  InGame(c)'
  <2>1. path[d] \in Seq(Packet) /\ path[d] # <<>> /\ path'[d] = Tail(path[d])
    BY <1>0, <1>3 DEF ServerReceive, ClientTypes
  <2>2. Len(path'[d]) = Len(path[d]) - 1 /\ Len(path[d]) \in Nat
    BY <2>1, HeadTailProperties
  <2>3. c # d
    BY <2>2
  <2>4. 1 \in DOMAIN path[d] /\ Head(path[d]) = path[d][1] /\ path[d][1] \in Packet
    BY <2>1
  <2>5. path[d][1] \in In(d) /\ ServerHandles(Base[d], path[d][1])
    BY <1>3, <2>4 DEF In, ServerReceive
  <2>6. QED BY <1>1, <2>3, <2>4, <2>5, OthersKeepSlots, GameGoesOn
<1>4. ASSUME NEW d \in Client, ServerReceiveLate(d)
      PROVE  InGame(c)'
  <2>1. PICK p \in stray[d] : ServerHandles(Base[d], p)
                              /\ stray' = [stray EXCEPT ![d] = @ \ {p}]
    BY <1>4 DEF ServerReceiveLate
  <2>2. p \notin stray'[d] /\ p \in Packet
    BY <1>0, <2>1 DEF ClientTypes
  <2>3. c # d /\ p \in In(d)
    BY <2>2 DEF In
  <2>4. QED BY <1>1, <2>1, <2>2, <2>3, OthersKeepSlots, GameGoesOn
<1>5. ASSUME NEW s \in Slots, CheckTimeouts(s)
      PROVE  InGame(c)'
  <2>1. slot' = [slot EXCEPT ![s] = Free] /\ s # SlotOf(c)
    BY <1>5 DEF CheckTimeouts, InGame
  <2>2. slot'[SlotOf(c)] = slot[SlotOf(c)]
    BY <1>0, <1>1, <2>1 DEF ServerTypes
  <2>3. SlotsOf(c)' \subseteq SlotsOf(c)
    BY <1>0, <2>1 DEF SlotsOf, Matching, Free, ServerTypes
  <2>4. QED BY <2>2, <2>3, GameGoesOn
<1>6. ASSUME NEW d \in Client, CheckForResend(d) \/ ClientReceive(d)
                                \/ ClientSend(d) \/ ClientTimeout(d)
      PROVE  slot' = slot
  BY <1>6 DEF CheckForResend, SendGetChallenge, ClientReceive, ClientSend,
              ClientTimeout, server
<1>7. CASE Fault
  BY <1>0, <1>7 DEF Fault, ClientTypes
<1>8. QED BY <1>2, <1>3, <1>4, <1>5, <1>6, <1>7 DEF Next

\* A client in the game is never put out of it by what another client behind
\* its address sends: neither by a connect that frees "an old slot" of the
\* address, nor by a packet that is taken for one of its own.
THEOREM SlotsNotStolen == Spec => NotStolen
<1>1. TypeOK /\ Disjoint /\ [Next]_vars
      => [\A c \in Client :
            InGame(c) /\ path'[c] = path[c] /\ stray'[c] = stray[c]
               /\ cls'[c] = cls[c] /\ faults' = faults /\ ~Silent(SlotOf(c))
            => InGame(c)']_vars
  BY NotStolenStep
<1>2. QED BY <1>1, TypeCorrect, DisjointAlways, PTL DEF Spec, NotStolen

-----------------------------------------------------------------------------
(* One slot per client, as long as no packet is late *)

\* A port or a qport that c has had twice it has had all the time in between.
PortsInOrder(c) ==
    \A i, j, k \in 1..Last(c) :
        i <= j /\ j <= k /\ PortAt(c, i) = PortAt(c, k)
        => PortAt(c, j) = PortAt(c, i)
QportsInOrder(c) ==
    \A i, j, k \in 1..Last(c) :
        /\ i <= j /\ j <= k /\ Has(c, i) /\ Has(c, j) /\ Has(c, k)
        /\ QportAt(c, i) = QportAt(c, k)
        => QportAt(c, j) = QportAt(c, i)

\* What a slot and a place of the line of c have in common, all places before
\* have too.
UsedOf(c) == {s \in Slots : Used(s) /\ slot[s].base = Base[c]}
SlotPorts(c) ==
    \A s \in UsedOf(c) : \A j, k \in 1..Last(c) :
        j <= k /\ slot[s].port = PortAt(c, k) => PortAt(c, j) = slot[s].port
SlotQports(c) ==
    \A s \in UsedOf(c) : \A j, k \in 1..Last(c) :
        /\ j <= k /\ Has(c, j) /\ Has(c, k)
        /\ slot[s].qport = QportAt(c, k)
        => QportAt(c, j) = slot[s].qport

\* No packet has the port of one slot and the qport of another one.
NotSplit(c) ==
    \A s, t \in UsedOf(c) : \A k \in 1..Last(c) :
        /\ s # t /\ Has(c, k)
        /\ slot[s].port = PortAt(c, k)
        => slot[t].qport # QportAt(c, k)

\* Slots of one address differ in the port and in the qport.
Apart ==
    \A s, t \in Slots :
        s # t /\ Used(s) /\ Used(t) /\ slot[s].base = slot[t].base
        => slot[s].port # slot[t].port /\ slot[s].qport # slot[t].qport

LineOK(c) ==
    /\ PortsInOrder(c) /\ QportsInOrder(c)
    /\ SlotPorts(c) /\ SlotQports(c) /\ NotSplit(c)
Ordered == Apart /\ \A c \in Client : LineOK(c)

\* The first packet of c, if it has a qport.
AtHead(c, p) ==
    /\ HasQport(p) /\ 1 \in 1..Last(c)
    /\ PortAt(c, 1) = p.port /\ Has(c, 1) /\ QportAt(c, 1) = p.qport

\* No other slot of the address has the port or the qport of p.
Alone(base, p, u) ==
    \A s \in Slots \ {u} :
        Used(s)' /\ slot'[s].base = base
        => slot'[s].port # p.port /\ slot'[s].qport # p.qport

\* All slots the first packet of a line can be taken for are one slot.
LEMMA HeadMatchesOne ==
    ASSUME Ordered, NEW c \in Client, NEW p, AtHead(c, p),
           NEW s \in UsedOf(c), NEW t \in UsedOf(c),
           slot[s].port = p.port \/ slot[s].qport = p.qport,
           slot[t].port = p.port \/ slot[t].qport = p.qport
    PROVE  s = t
BY DEF Ordered, LineOK, NotSplit, Apart, AtHead, UsedOf

LEMMA HandledAlone ==
    ASSUME ServerTypes, Ordered, NEW c \in Client, NEW p \in Packet, AtHead(c, p),
           ServerHandles(Base[c], p)
    PROVE  \/ \A s \in Slots : SlotStays(s)
           \/ \E v \in Slots : SlotTaken(Base[c], p, v) /\ Alone(Base[c], p, v)
<1> DEFINE base == Base[c]
<1>1. CASE p.type = "connect"
  <2>1. DirectConnect(base, p)
    BY <1>1 DEF ServerHandles
  <2>2. CASE Refuses(base, p)
    BY <2>2, FreedStays, ClearedStays DEF Refuses
  <2>3. ASSUME NEW v \in Slots, Accepts(base, p, v)
        PROVE  SlotTaken(base, p, v) /\ Alone(base, p, v)
    <3>1. /\ SlotTaken(base, p, v)
          /\ \A s \in Slots \ {v} : slot'[s] = Cleared(base, p)[s]
      BY <2>3, AcceptsTakes DEF AtHead
    <3>2. ASSUME NEW s \in Slots \ {v}, Used(s)', slot'[s].base = base
          PROVE  slot'[s].port # p.port /\ slot'[s].qport # p.qport
      <4>1. slot'[s] = Cleared(base, p)[s] /\ slot'[s] # Free
        BY <3>1, <3>2 DEF Used, Free
      <4>2. slot'[s] = slot[s] /\ s \in UsedOf(c)
        BY <3>2, <4>1, ClearedStays DEF UsedOf, Used
      <4>3. ASSUME Reconnects(base, p.port, p.qport, s)
            PROVE  FALSE
        <5>1. ASSUME NEW t \in Slots, Reconnects(base, p.port, p.qport, t)
              PROVE  t = s
          BY <4>2, <4>3, <5>1, HeadMatchesOne DEF Reconnects, UsedOf, Used
        <5>2. QED BY <4>1, <4>3, <5>1, ClearedStays
      <4>4. QED BY <4>2, <4>3 DEF Reconnects, UsedOf, Used
    <3>3. QED BY <3>1, <3>2 DEF Alone
  <2>4. QED BY <2>1, <2>2, <2>3, DirectConnectCases
<1>2. CASE p.type = "data"
  <2>1. ExecuteMessage(base, p)
    BY <1>2 DEF ServerHandles
  <2>2. CASE slot' = slot
    BY <2>2, FreedStays
  <2>3. ASSUME NEW v \in Matching(base, p.qport), Serves(base, p, v) \/ Ignores(v, p)
        PROVE  v \in Slots /\ SlotTaken(base, p, v) /\ Alone(base, p, v)
    <3>1. /\ v \in Slots /\ SlotTaken(base, p, v)
          /\ \A s \in Slots \ {v} : slot'[s] = slot[s]
      BY <1>2, <2>3, MessageTakes
    <3>2. v \in UsedOf(c) /\ slot[v].qport = p.qport
      BY DEF Matching, UsedOf, Used
    <3>3. Alone(base, p, v)
      BY <3>1, <3>2, HeadMatchesOne DEF Alone, UsedOf, Used
    <3>4. QED BY <3>1, <3>3
  <2>4. QED BY <2>1, <2>2, <2>3, ExecuteMessageCases
<1>3. QED BY <1>1, <1>2, PacketParts DEF AtHead, HasQport

LEMMA OrderFollows ==
    ASSUME NEW c \in Client, Follows(c), PortsInOrder(c), QportsInOrder(c)
    PROVE  PortsInOrder(c)' /\ QportsInOrder(c)'
<1>1. PICK f \in [1..Last(c)' -> 1..Last(c)] :
        /\ \A i, j \in 1..Last(c)' : i <= j => f[i] <= f[j]
        /\ \A i \in 1..Last(c)' :
              /\ PortAt(c, i)' = PortAt(c, f[i])
              /\ Has(c, i)' => Has(c, f[i]) /\ QportAt(c, i)' = QportAt(c, f[i])
  BY DEF Follows
<1>2. \A i \in 1..Last(c)' : f[i] \in 1..Last(c)
  OBVIOUS
<1>3. PortsInOrder(c)'
  BY <1>1, <1>2 DEF PortsInOrder
<1>4. QportsInOrder(c)'
  BY <1>1, <1>2 DEF QportsInOrder
<1>5. QED BY <1>3, <1>4

\* A line and slots that stay.
LEMMA LineStays ==
    ASSUME NEW c \in Client, Follows(c), LineOK(c), \A s \in Slots : SlotStays(s)
    PROVE  LineOK(c)'
<1>1. PICK f \in [1..Last(c)' -> 1..Last(c)] :
        /\ \A i, j \in 1..Last(c)' : i <= j => f[i] <= f[j]
        /\ \A i \in 1..Last(c)' :
              /\ PortAt(c, i)' = PortAt(c, f[i])
              /\ Has(c, i)' => Has(c, f[i]) /\ QportAt(c, i)' = QportAt(c, f[i])
  BY DEF Follows
<1>2. \A i \in 1..Last(c)' : f[i] \in 1..Last(c)
  OBVIOUS
<1>3. \A s \in UsedOf(c)' :
         s \in UsedOf(c) /\ slot'[s].port = slot[s].port /\ slot'[s].qport = slot[s].qport
  BY DEF UsedOf, SlotStays, SameKey
<1>4. SlotPorts(c)'
  BY <1>1, <1>2, <1>3 DEF SlotPorts, LineOK
<1>5. SlotQports(c)'
  BY <1>1, <1>2, <1>3 DEF SlotQports, LineOK
<1>6. NotSplit(c)'
  BY <1>1, <1>2, <1>3 DEF NotSplit, LineOK
<1>7. QED BY <1>4, <1>5, <1>6, OrderFollows DEF LineOK

\* The line of c after the server has taken its first packet p for the slot u.
LEMMA OwnLineStays ==
    ASSUME NEW c \in Client, NEW p, NEW u \in Slots, Follows(c), LineOK(c),
           AtHead(c, p), SlotTaken(Base[c], p, u), Alone(Base[c], p, u)
    PROVE  LineOK(c)'
<1>1. PICK f \in [1..Last(c)' -> 1..Last(c)] :
        /\ \A i, j \in 1..Last(c)' : i <= j => f[i] <= f[j]
        /\ \A i \in 1..Last(c)' :
              /\ PortAt(c, i)' = PortAt(c, f[i])
              /\ Has(c, i)' => Has(c, f[i]) /\ QportAt(c, i)' = QportAt(c, f[i])
  BY DEF Follows
<1>2. \A i \in 1..Last(c)' : f[i] \in 1..Last(c) /\ 1 <= f[i]
  OBVIOUS
<1>3. \A s \in UsedOf(c)' : s # u =>
         /\ s \in UsedOf(c) /\ slot'[s].port = slot[s].port /\ slot'[s].qport = slot[s].qport
         /\ slot[s].port # p.port /\ slot[s].qport # p.qport
  BY DEF UsedOf, SlotStays, SameKey, SlotTaken, Alone
<1>4. slot'[u].port = p.port /\ slot'[u].qport = p.qport
  BY DEF SlotTaken
<1>5. /\ 1 \in 1..Last(c) /\ Has(c, 1)
      /\ PortAt(c, 1) = p.port /\ QportAt(c, 1) = p.qport
  BY DEF AtHead
\* A place with the port of p has it in common with all before.
<1>6. \A i \in 1..Last(c)' : \A s \in UsedOf(c)' :
         s # u => slot[s].port # PortAt(c, f[i])
                  \/ PortAt(c, 1) = slot[s].port
  BY <1>2, <1>3, <1>5 DEF SlotPorts, LineOK
<1>7. \A i \in 1..Last(c)' : \A s \in UsedOf(c)' :
         s # u /\ Has(c, f[i]) => slot[s].qport # QportAt(c, f[i])
  BY <1>2, <1>3, <1>5 DEF SlotQports, LineOK
<1>8. SlotPorts(c)'
  <2> SUFFICES ASSUME NEW s \in UsedOf(c)', NEW j \in 1..Last(c)', NEW k \in 1..Last(c)',
                      j <= k, slot'[s].port = PortAt(c, k)'
               PROVE  PortAt(c, j)' = slot'[s].port
    BY DEF SlotPorts
  <2>1. f[j] <= f[k] /\ PortAt(c, j)' = PortAt(c, f[j]) /\ PortAt(c, k)' = PortAt(c, f[k])
    BY <1>1
  <2>2. CASE s = u
    BY <1>2, <1>4, <1>5, <2>1, <2>2 DEF PortsInOrder, LineOK
  <2>3. CASE s # u
    BY <1>2, <1>3, <2>1, <2>3 DEF SlotPorts, LineOK
  <2>4. QED BY <2>2, <2>3
<1>9. SlotQports(c)'
  <2> SUFFICES ASSUME NEW s \in UsedOf(c)', NEW j \in 1..Last(c)', NEW k \in 1..Last(c)',
                      j <= k, Has(c, j)', Has(c, k)', slot'[s].qport = QportAt(c, k)'
               PROVE  QportAt(c, j)' = slot'[s].qport
    BY DEF SlotQports
  <2>1. /\ f[j] <= f[k] /\ QportAt(c, j)' = QportAt(c, f[j]) /\ Has(c, f[j])
        /\ QportAt(c, k)' = QportAt(c, f[k]) /\ Has(c, f[k])
    BY <1>1
  <2>2. CASE s = u
    BY <1>2, <1>4, <1>5, <2>1, <2>2 DEF QportsInOrder, LineOK
  <2>3. CASE s # u
    BY <1>2, <1>3, <2>1, <2>3 DEF SlotQports, LineOK
  <2>4. QED BY <2>2, <2>3
<1>10. NotSplit(c)'
  <2> SUFFICES ASSUME NEW s \in UsedOf(c)', NEW t \in UsedOf(c)', NEW k \in 1..Last(c)',
                      s # t, Has(c, k)', slot'[s].port = PortAt(c, k)',
                      slot'[t].qport = QportAt(c, k)'
               PROVE  FALSE
    BY DEF NotSplit
  <2>1. PortAt(c, k)' = PortAt(c, f[k]) /\ QportAt(c, k)' = QportAt(c, f[k]) /\ Has(c, f[k])
    BY <1>1
  <2>2. CASE s # u
    <3>1. slot[s].port # PortAt(c, f[k])
      BY <1>3, <1>5, <1>6, <2>2
    <3>2. QED BY <1>3, <2>1, <2>2, <3>1
  <2>3. CASE t # u
    BY <1>3, <1>7, <2>1, <2>3
  <2>4. QED BY <2>2, <2>3
<1>11. QED BY <1>8, <1>9, <1>10, OrderFollows DEF LineOK

\* The line of d after the server has taken a packet of its neighbour.
LEMMA OtherLineStays ==
    ASSUME TypeOK, Disjoint, NEW c \in Client, NEW d \in Client, c # d,
           NEW p \in In(c), NEW u \in Slots,
           Follows(d), LineOK(d), SlotTaken(Base[c], p, u)
    PROVE  LineOK(d)'
<1>0. ClientTypes
  BY TypeParts
<1>1. PICK f \in [1..Last(d)' -> 1..Last(d)] :
        /\ \A i, j \in 1..Last(d)' : i <= j => f[i] <= f[j]
        /\ \A i \in 1..Last(d)' :
              /\ PortAt(d, i)' = PortAt(d, f[i])
              /\ Has(d, i)' => Has(d, f[i]) /\ QportAt(d, i)' = QportAt(d, f[i])
  BY DEF Follows
<1>2. \A i \in 1..Last(d)' : f[i] \in 1..Last(d)
  OBVIOUS
<1>3. \A s \in UsedOf(d)' : s # u =>
         s \in UsedOf(d) /\ slot'[s].port = slot[s].port /\ slot'[s].qport = slot[s].qport
  BY DEF UsedOf, SlotStays, SameKey, SlotTaken
<1>4. u \in UsedOf(d)' =>
         /\ \A k \in 1..Last(d)' : slot'[u].port # PortAt(d, k)'
         /\ \A k \in 1..Last(d)' : Has(d, k)' => slot'[u].qport # QportAt(d, k)'
  <2> SUFFICES ASSUME u \in UsedOf(d)', NEW k \in 1..Last(d)'
               PROVE  /\ slot'[u].port # PortAt(d, k)'
                      /\ Has(d, k)' => slot'[u].qport # QportAt(d, k)'
    OBVIOUS
  <2>1. Separate(c, d)
    BY DEF UsedOf, SlotTaken, Disjoint, Neighbours
  <2>2. slot'[u].port \in PortsOf(c) /\ slot'[u].qport \in QportsOf(c)
    BY DEF SlotTaken, PortsOf, QportsOf
  <2>3. /\ PortAt(d, k)' \in PortsOf(d)
        /\ Has(d, k)' => QportAt(d, k)' \in QportsOf(d)
    BY <1>0, <1>1, <1>2, PlacesAndPorts
  <2>4. QED BY <2>1, <2>2, <2>3 DEF Separate
<1>5. SlotPorts(d)'
  BY <1>1, <1>2, <1>3, <1>4 DEF SlotPorts, LineOK
<1>6. SlotQports(d)'
  BY <1>1, <1>2, <1>3, <1>4 DEF SlotQports, LineOK
<1>7. NotSplit(d)'
  BY <1>1, <1>2, <1>3, <1>4 DEF NotSplit, LineOK
<1>8. QED BY <1>5, <1>6, <1>7, OrderFollows DEF LineOK

\* The line of a client that gets a fresh port or qport.
LEMMA FreshLineStays ==
    ASSUME ClientTypes, NEW c \in Client, LineOK(c), Translate(c) \/ Restart(c)
    PROVE  LineOK(c)'
<1>1. path' = path /\ slot' = slot /\ UsedOf(c)' = UsedOf(c)
  BY DEF Translate, Restart, server, UsedOf, Used
<1>2. Len(path[c]) \in Nat /\ Last(c)' = Last(c) /\ Last(c) \in Nat
      /\ DOMAIN path[c] = 1..Len(path[c]) /\ Last(c) = Len(path[c]) + 1
  BY <1>1 DEF ClientTypes, Last
<1>3. \A k \in 1..Last(c) : k # Last(c) => path[c][k] \in Underway
  BY <1>2 DEF Underway
<1>4. \A k \in 1..Last(c) : k # Last(c) =>
         PortAt(c, k)' = PortAt(c, k) /\ (Has(c, k)' <=> Has(c, k))
         /\ QportAt(c, k)' = QportAt(c, k)
  BY <1>1, <1>2 DEF PortAt, Has, QportAt
<1>5. \A k \in 1..Last(c) : k = Last(c) => Has(c, k)' /\ Has(c, k)
  BY <1>2 DEF Has
<1>6. UsedOf(c) \subseteq Slots
  BY DEF UsedOf
<1>7. CASE Translate(c)
  <2>1. PICK n \in Ports : FreshPort(n) /\ cls' = [cls EXCEPT ![c].port = n]
    BY <1>7, TranslateFresh
  <2>2. \A k \in 1..Last(c) : k = Last(c) =>
           PortAt(c, k)' = n /\ QportAt(c, k)' = QportAt(c, k)
    BY <1>2, <2>1 DEF PortAt, QportAt, ClientTypes, ClientRecord
  <2>3. \A k \in 1..Last(c) : k # Last(c) => PortAt(c, k)' # n
    BY <1>3, <1>4, <2>1 DEF FreshPort, PortAt
  <2>4. \A s \in UsedOf(c) : slot[s].port # n
    BY <1>6, <2>1 DEF FreshPort
  <2>5. \A k \in 1..Last(c) : (Has(c, k)' <=> Has(c, k)) /\ QportAt(c, k)' = QportAt(c, k)
    BY <1>4, <1>5, <2>2
  <2>6. PortsInOrder(c)'
    BY <1>2, <1>4, <2>2, <2>3 DEF PortsInOrder, LineOK
  <2>7. QportsInOrder(c)' /\ SlotQports(c)'
    BY <1>1, <1>2, <2>5 DEF QportsInOrder, SlotQports, LineOK
  <2>8. SlotPorts(c)'
    BY <1>1, <1>2, <1>4, <2>2, <2>4 DEF SlotPorts, LineOK
  <2>9. NotSplit(c)'
    BY <1>1, <1>2, <1>4, <2>2, <2>4, <2>5 DEF NotSplit, LineOK
  <2>10. QED BY <2>6, <2>7, <2>8, <2>9 DEF LineOK
<1>8. CASE Restart(c)
  <2>1. PICK n \in Qports :
          FreshQport(n) /\ cls' = [cls EXCEPT ![c] = Process(@.port, n)]
    BY <1>8, RestartFresh
  <2>2. \A k \in 1..Last(c) : k = Last(c) =>
           QportAt(c, k)' = n /\ PortAt(c, k)' = PortAt(c, k)
    BY <1>2, <2>1 DEF PortAt, QportAt, ClientTypes, Process
  <2>3. \A k \in 1..Last(c) : k # Last(c) /\ Has(c, k) => QportAt(c, k)' # n
    BY <1>3, <1>4, <2>1 DEF FreshQport, QportAt, Has
  <2>4. \A s \in UsedOf(c) : slot[s].qport # n
    BY <1>6, <2>1 DEF FreshQport
  <2>5. \A k \in 1..Last(c) : (Has(c, k)' <=> Has(c, k)) /\ PortAt(c, k)' = PortAt(c, k)
    BY <1>4, <1>5, <2>2
  <2>6. QportsInOrder(c)'
    BY <1>2, <1>4, <2>2, <2>3, <2>5 DEF QportsInOrder, LineOK
  <2>7. PortsInOrder(c)' /\ SlotPorts(c)'
    BY <1>1, <1>2, <2>5 DEF PortsInOrder, SlotPorts, LineOK
  <2>8. SlotQports(c)'
    BY <1>1, <1>2, <1>4, <2>2, <2>4, <2>5 DEF SlotQports, LineOK
  <2>9. NotSplit(c)'
    BY <1>1, <1>2, <1>4, <2>2, <2>4, <2>5 DEF NotSplit, LineOK
  <2>10. QED BY <2>6, <2>7, <2>8, <2>9 DEF LineOK
<1>9. QED BY <1>7, <1>8

LEMMA HeadOfLine ==
    ASSUME ClientTypes, NEW c \in Client, NEW p, path[c] # <<>>, p = path[c][1],
           HasQport(p)
    PROVE  AtHead(c, p)
<1>1. path[c] \in Seq(Packet)
  BY DEF ClientTypes
<1>2. Len(path[c]) \in Nat \ {0}
  BY <1>1
<1>3. 1 \in 1..Last(c) /\ Last(c) # 1
  BY <1>2 DEF Last
<1>4. QED BY <1>3 DEF AtHead, PortAt, Has, QportAt

LEMMA OrderedStays ==
    ASSUME TypeOK, Disjoint, Ordered, Next, ~late'
    PROVE  Ordered'
<1>0. ClientTypes /\ ServerTypes
  BY TypeParts
<1>1. CASE \A d \in Client : LineStep(d)
  <2>1. \A d \in Client : Follows(d) /\ LineOK(d)
    BY <1>0, <1>1, LineFollows DEF Ordered
  <2>2. CASE \A s \in Slots : SlotStays(s)
    <3>1. Apart'
      BY <2>2 DEF Apart, Ordered, SlotStays, SameKey
    <3>2. QED BY <2>1, <2>2, <3>1, LineStays DEF Ordered
  <2>3. ASSUME NEW c \in Client, NEW p \in Packet, NEW u \in Slots, Handles(c, p),
               SlotTaken(Base[c], p, u)
        PROVE  Ordered'
    <3>1. AtHead(c, p) /\ p \in In(c) /\ ServerHandles(Base[c], p)
      BY <1>0, <2>3, HeadOfLine DEF Handles, SlotTaken
    <3>2. ASSUME NEW v \in Slots, SlotTaken(Base[c], p, v), Alone(Base[c], p, v)
          PROVE  Ordered'
      <4>1. Apart'
        <5> SUFFICES ASSUME NEW s \in Slots, NEW t \in Slots, s # t, Used(s)', Used(t)',
                            slot'[s].base = slot'[t].base
                     PROVE  slot'[s].port # slot'[t].port /\ slot'[s].qport # slot'[t].qport
          BY DEF Apart
        <5>1. CASE s # v /\ t # v
          <6>1. SlotStays(s) /\ SlotStays(t)
            BY <3>2, <5>1 DEF SlotTaken
          <6>2. QED BY <6>1 DEF SlotStays, SameKey, Apart, Ordered
        <5>2. CASE s = v \/ t = v
          BY <3>2, <5>2 DEF SlotTaken, Alone
        <5>3. QED BY <5>1, <5>2
      <4>2. LineOK(c)'
        BY <2>1, <3>1, <3>2, OwnLineStays
      <4>3. ASSUME NEW d \in Client, d # c
            PROVE  LineOK(d)'
        BY <2>1, <3>1, <3>2, <4>3, OtherLineStays
      <4>4. QED BY <4>1, <4>2, <4>3 DEF Ordered
    <3>3. QED BY <1>0, <2>2, <3>1, <3>2, HandledAlone
  <2>4. QED BY <1>0, <2>2, <2>3, SlotSteps
<1>2. ASSUME NEW c \in Client, Translate(c) \/ Restart(c)
      PROVE  Ordered'
  <2>1. path' = path /\ stray' = stray /\ slot' = slot
        /\ \A d \in Client : d # c => cls'[d] = cls[d]
    <3>1. path' = path /\ stray' = stray /\ slot' = slot
      BY <1>2 DEF Translate, Restart, server
    <3>2. \E r : cls' = [cls EXCEPT ![c] = r]
      BY <1>2 DEF Translate, Restart
    <3>3. QED BY <3>1, <3>2 DEF ClientTypes
  <2>2. LineOK(c)'
    BY <1>0, <1>2, FreshLineStays DEF Ordered
  <2>3. ASSUME NEW d \in Client, d # c
        PROVE  LineOK(d)'
    <3>1. LineStep(d)
      BY <2>1, <2>3 DEF LineStep, In
    <3>2. \A s \in Slots : SlotStays(s)
      BY <2>1, FreedStays
    <3>3. QED BY <1>0, <3>1, <3>2, LineFollows, LineStays DEF Ordered
  <2>4. Apart'
    BY <2>1 DEF Apart, Ordered, Used
  <2>5. QED BY <2>2, <2>3, <2>4 DEF Ordered
<1>3. QED BY <1>0, <1>1, <1>2, LineSteps

LEMMA OrderedInit == Init => Ordered
<1> SUFFICES ASSUME Init PROVE Ordered
  OBVIOUS
<1>1. \A c \in Client : Last(c) = 1
  BY DEF Init, Last
<1>2. \A s \in Slots : ~Used(s)
  BY DEF Init, Used, Free
<1>3. \A c \in Client : UsedOf(c) = {}
  BY <1>2 DEF UsedOf
<1>4. ASSUME NEW c \in Client
      PROVE  LineOK(c)
  <2>1. \A i \in 1..Last(c) : i = 1
    BY <1>1
  <2>2. PortsInOrder(c) /\ QportsInOrder(c)
    BY <2>1 DEF PortsInOrder, QportsInOrder
  <2>3. QED BY <1>3, <2>2 DEF LineOK, SlotPorts, SlotQports, NotSplit
<1>5. QED BY <1>2, <1>4 DEF Ordered, Apart

LEMMA LateStays == TypeOK /\ Next /\ ~late' => ~late
<1> SUFFICES ASSUME TypeOK, Next, late PROVE late'
  BY DEF TypeOK
<1>1. QED BY DEF Next, Fault, CheckForResend, Impatient, SendGetChallenge,
          ClientReceive, ClientSend, ClientTimeout, ServerReceive,
          ServerReceiveLate, CheckTimeouts, Quit, Lose, Delay, Translate,
          Restart, ServerRestart, OtherChallenge

LEMMA OrderedUnlessLate == Spec => [](late \/ Ordered)
<1>1. TypeOK /\ TypeOK' /\ Disjoint /\ (late \/ Ordered) /\ [Next]_vars
      => (late \/ Ordered)'
  <2> SUFFICES ASSUME TypeOK, Disjoint, late \/ Ordered, [Next]_vars, ~late'
               PROVE  Ordered'
    OBVIOUS
  <2>1. CASE UNCHANGED vars
    <3>1. cls' = cls /\ path' = path /\ stray' = stray /\ slot' = slot /\ late' = late
      BY <2>1 DEF vars, server
    <3>2. \A d \in Client : LineStep(d)
      BY <3>1 DEF LineStep, In
    <3>3. \A s \in Slots : SlotStays(s)
      BY <3>1, FreedStays
    <3>4. \A d \in Client : LineOK(d)'
      BY <3>1, <3>2, <3>3, LineFollows, LineStays, TypeParts DEF Ordered
    <3>5. QED BY <3>1, <3>4 DEF Ordered, Apart, Used
  <2>2. CASE Next
    BY <2>2, LateStays, OrderedStays
  <2>3. QED BY <2>1, <2>2
<1>2. Init => late \/ Ordered
  BY OrderedInit
<1>3. QED BY <1>1, <1>2, TypeCorrect, DisjointAlways, PTL DEF Spec

\* "If there is already a slot for this ip, reuse it" (sv_main.c 1273): no two
\* slots in use have the same address and qport, until a packet comes late.
THEOREM OneSlotEach == Spec => []OneSlot
<1>1. (late \/ Ordered) => OneSlot
  BY DEF Ordered, Apart, OneSlot, Used
<1>2. QED BY <1>1, OrderedUnlessLate, PTL

-----------------------------------------------------------------------------
(* Client and server agree whether the "new" was executed *)

IsData(m) == m.type = "data"
AllData(q) == \A i \in DOMAIN q : IsData(q[i])
DataLast(q) == \A i, j \in DOMAIN q : i <= j /\ IsData(q[i]) => IsData(q[j])

\* An answer that the "new" was executed is on its way to c.
NewTold(c) == \E i \in DOMAIN back[c] : IsData(back[c][i]) /\ back[c][i].new
\* A slot of c waits for the "new".
Awaits(c) == \E s \in SlotsOf(c) : slot[s].state = "preconnected"

\* The packets of an attempt to connect that began with none under way: those
\* of the connection come after all requests, and the slot is not made anew
\* once the client was told that its "new" was executed.
Attempt(c) ==
    /\ \A i \in DOMAIN path[c] :
          HasQport(path[c][i]) => path[c][i].qport = cls[c].qport
    /\ ~Connected(c) => ~DataIn(path[c]) /\ ~DataIn(back[c])
    /\ DataLast(path[c])
    /\ DataIn(back[c]) => AllData(path[c])
    /\ Connected(c) /\ ~cls[c].pending => AllData(path[c])
    /\ NewTold(c) \/ (Connected(c) /\ ~cls[c].pending) => ~Awaits(c)

Clean(c) == cls[c].server_adr /\ ~late /\ ~hasty[c]
Attempts ==
    \A c \in Client : /\ Connected(c) => cls[c].server_adr
                      /\ Clean(c) => Attempt(c)

LEMMA TailOf ==
    ASSUME NEW S, NEW q \in Seq(S), q # <<>>
    PROVE  /\ \A i \in DOMAIN Tail(q) : i + 1 \in DOMAIN q /\ Tail(q)[i] = q[i + 1]
           /\ DataIn(Tail(q)) => DataIn(q)
           /\ AllData(q) => AllData(Tail(q))
           /\ DataLast(q) => DataLast(Tail(q))
           /\ 1 \in DOMAIN q /\ Head(q) = q[1]
           /\ IsData(Head(q)) /\ DataLast(q) => AllData(q)
<1>1. /\ Tail(q) \in Seq(S) /\ Len(Tail(q)) = Len(q) - 1 /\ Len(q) \in Nat \ {0}
      /\ DOMAIN q = 1..Len(q) /\ DOMAIN Tail(q) = 1..Len(q) - 1
      /\ \A i \in 1..Len(q) - 1 : Tail(q)[i] = q[i + 1]
  BY HeadTailProperties, LenProperties, EmptySeq
<1>2. \A i \in DOMAIN Tail(q) : i + 1 \in DOMAIN q /\ Tail(q)[i] = q[i + 1]
  BY <1>1
<1>3. DataIn(Tail(q)) => DataIn(q)
  BY <1>2 DEF DataIn
<1>4. AllData(q) => AllData(Tail(q))
  BY <1>2 DEF AllData
<1>5. DataLast(q) => DataLast(Tail(q))
  BY <1>1, <1>2 DEF DataLast
<1>6. 1 \in DOMAIN q /\ Head(q) = q[1]
  BY <1>1
<1>7. \A i \in DOMAIN q : 1 <= i
  BY <1>1
<1>8. IsData(Head(q)) /\ DataLast(q) => AllData(q)
  BY <1>6, <1>7 DEF DataLast, AllData
<1>9. QED BY <1>2, <1>3, <1>4, <1>5, <1>6, <1>8

LEMMA PushOf ==
    ASSUME NEW S, NEW q \in Seq(S), NEW m \in S
    PROVE  /\ \A i \in DOMAIN Push(q, m) :
                 (i \in DOMAIN q /\ Push(q, m)[i] = q[i]) \/ Push(q, m)[i] = m
           /\ DataIn(Push(q, m)) => DataIn(q) \/ IsData(m)
           /\ AllData(q) /\ IsData(m) => AllData(Push(q, m))
           /\ DataLast(q) /\ IsData(m) => DataLast(Push(q, m))
<1>1. CASE Push(q, m) = q
  BY <1>1
<1>2. CASE Push(q, m) = Append(q, m)
  <2>1. PICK r : r = Append(q, m)
    OBVIOUS
  <2>2. /\ Len(q) \in Nat /\ DOMAIN q = 1..Len(q) /\ DOMAIN r = 1..Len(q) + 1
        /\ \A i \in 1..Len(q) : r[i] = q[i]
        /\ r[Len(q) + 1] = m
    BY <2>1, AppendProperties, LenProperties
  <2>3. \A i \in DOMAIN r :
           (i \in DOMAIN q /\ r[i] = q[i]) \/ (i = Len(q) + 1 /\ r[i] = m)
    BY <2>2
  <2>4. DataIn(r) => DataIn(q) \/ IsData(m)
    BY <2>3 DEF DataIn, IsData
  <2>5. AllData(q) /\ IsData(m) => AllData(r)
    BY <2>3 DEF AllData
  <2>6. DataLast(q) /\ IsData(m) => DataLast(r)
    BY <2>2, <2>3 DEF DataLast
  <2>7. QED BY <1>2, <2>1, <2>3, <2>4, <2>5, <2>6
<1>3. QED BY <1>1, <1>2 DEF Push

\* Where packets are only taken away, and no slot of c starts to wait.
LEMMA AttemptShrinks ==
    ASSUME ClientTypes, ServerTypes, NEW c \in Client, Attempt(c),
           cls'[c].state = cls[c].state, cls'[c].qport = cls[c].qport,
           cls'[c].pending <=> cls[c].pending,
           path'[c] = path[c] \/ (path[c] # <<>> /\ path'[c] = Tail(path[c])),
           back'[c] = back[c] \/ (back[c] # <<>> /\ back'[c] = Tail(back[c])),
           Awaits(c)' => Awaits(c)
    PROVE  Attempt(c)'
<1>1. path[c] \in Seq(Packet) /\ back[c] \in Seq(Answer)
  BY DEF ClientTypes, ServerTypes
<1>2. PICK q, r, t, u : q = path[c] /\ r = path'[c] /\ t = back[c] /\ u = back'[c]
  OBVIOUS
<1>3. /\ \A i \in DOMAIN r : \E j \in DOMAIN q : r[i] = q[j]
      /\ DataIn(r) => DataIn(q)
      /\ AllData(q) => AllData(r)
      /\ DataLast(q) => DataLast(r)
  <2>1. q \in Seq(Packet) /\ (r = q \/ (q # <<>> /\ r = Tail(q)))
    BY <1>1, <1>2
  <2>2. CASE r = q
    BY <2>2
  <2>3. CASE q # <<>> /\ r = Tail(q)
    BY <2>1, <2>3, TailOf
  <2>4. QED BY <2>1, <2>2, <2>3
<1>4. /\ \A i \in DOMAIN u : \E j \in DOMAIN t : u[i] = t[j]
      /\ DataIn(u) => DataIn(t)
  <2>1. t \in Seq(Answer) /\ (u = t \/ (t # <<>> /\ u = Tail(t)))
    BY <1>1, <1>2
  <2>2. CASE u = t
    BY <2>2
  <2>3. CASE t # <<>> /\ u = Tail(t)
    BY <2>1, <2>3, TailOf
  <2>4. QED BY <2>1, <2>2, <2>3
<1>5. NewTold(c)' => NewTold(c)
  BY <1>2, <1>4 DEF NewTold
<1>6. Connected(c)' <=> Connected(c)
  BY DEF Connected
<1>7. \A i \in DOMAIN r : HasQport(r[i]) => r[i].qport = cls'[c].qport
  BY <1>2, <1>3 DEF Attempt
<1>8. QED BY <1>2, <1>3, <1>4, <1>5, <1>6, <1>7 DEF Attempt

\* A request for a challenge: no connection is there yet.
LEMMA AttemptAsks ==
    ASSUME ClientTypes, ServerTypes, NEW c \in Client, Clean(c) => Attempt(c),
           SendGetChallenge(c), Clean(c)'
    PROVE  Attempt(c)'
<1>1. path[c] \in Seq(Packet) /\ back[c] \in Seq(Answer) /\ cls[c] \in ClientRecord
  BY DEF ClientTypes, ServerTypes
<1>2. PICK q, m : q = path[c] /\ m = [type |-> "getchallenge", port |-> cls[c].port]
  OBVIOUS
<1>3. m \in Packet /\ ~IsData(m) /\ ~HasQport(m)
  BY <1>1, <1>2 DEF Packet, IsData, HasQport, ClientRecord
<1>4. path'[c] = Push(q, m) /\ back'[c] = back[c] /\ late' = late
  BY <1>2 DEF SendGetChallenge, ToServer, ClientTypes
<1>5. cls'[c].state = cls[c].state /\ cls'[c].qport = cls[c].qport
  BY <1>1 DEF SendGetChallenge, ClientTypes, ClientRecord
<1>6. ~Connected(c) /\ ~Connected(c)'
  BY <1>5 DEF SendGetChallenge, Connected
<1>7. /\ ~DataIn(q) /\ ~DataIn(back[c])
      /\ \A i \in DOMAIN q : HasQport(q[i]) => q[i].qport = cls[c].qport
  <2>1. CASE cls[c].server_adr
    <3>1. hasty'[c] = hasty[c]
      BY <2>1 DEF SendGetChallenge, ClientTypes
    <3>2. Attempt(c)
      BY <1>4, <2>1, <3>1 DEF Clean
    <3>3. QED BY <1>2, <1>6, <3>2 DEF Attempt
  <2>2. CASE ~cls[c].server_adr
    <3>1. hasty'[c] = ~Idle(c)
      BY <2>2 DEF SendGetChallenge, ClientTypes
    <3>2. path[c] = <<>> /\ back[c] = <<>>
      BY <3>1 DEF Clean, Idle
    <3>3. QED BY <1>2, <3>2 DEF DataIn
  <2>3. QED BY <2>1, <2>2
<1>8. PICK r : r = Push(q, m)
  OBVIOUS
<1>9. /\ ~DataIn(r)
      /\ \A i \in DOMAIN r : HasQport(r[i]) => r[i].qport = cls[c].qport
  <2>1. /\ \A i \in DOMAIN r : (i \in DOMAIN q /\ r[i] = q[i]) \/ r[i] = m
        /\ DataIn(r) => DataIn(q) \/ IsData(m)
    BY <1>1, <1>2, <1>3, <1>8, PushOf
  <2>2. QED BY <1>3, <1>7, <2>1
<1>10. DataLast(r)
  BY <1>9 DEF DataLast, DataIn, IsData
<1>11. ~NewTold(c)'
  BY <1>4, <1>7 DEF NewTold, DataIn, IsData
<1>12. QED BY <1>4, <1>5, <1>6, <1>7, <1>8, <1>9, <1>10, <1>11 DEF Attempt

LEMMA AttemptReceives ==
    ASSUME ClientTypes, ServerTypes, NEW c \in Client, Attempt(c),
           cls[c].server_adr, ClientReceive(c), cls'[c].server_adr
    PROVE  Attempt(c)'
<1>1. /\ path[c] \in Seq(Packet) /\ back[c] \in Seq(Answer) /\ cls[c] \in ClientRecord
      /\ back[c] # <<>> /\ slot' = slot /\ back' = [back EXCEPT ![c] = Tail(@)]
  BY DEF ClientTypes, ServerTypes, ClientReceive, server
<1>2. PICK m, q, t, u : m = Head(back[c]) /\ q = path[c] /\ t = back[c] /\ u = back'[c]
  OBVIOUS
<1>3. u = Tail(t) /\ m = t[1] /\ 1 \in DOMAIN t /\ m \in Answer
  BY <1>1, <1>2, HeadTailProperties, TailOf DEF ServerTypes
<1>4. /\ \A i \in DOMAIN u : \E j \in DOMAIN t : u[i] = t[j]
      /\ DataIn(u) => DataIn(t)
  BY <1>1, <1>2, <1>3, TailOf
<1>5. NewTold(c)' => NewTold(c)
  BY <1>2, <1>4 DEF NewTold
<1>6. CASE m.type = "challenge"
  <2>1. ReceiveChallenge(c, m)
    BY <1>2, <1>6 DEF ClientReceive
  <2>2. cls' = cls /\ Awaits(c)' = Awaits(c)
    BY <1>1, <2>1 DEF ReceiveChallenge, Awaits, SlotsOf, Matching
  <2>3. CASE Connected(c)
    <3>1. path' = path
      BY <2>1, <2>3 DEF ReceiveChallenge, SendsConnect
    <3>2. QED BY <1>1, <1>2, <1>3, <2>2, <3>1, AttemptShrinks
  <2>4. CASE ~Connected(c)
    <3>1. PICK p : p = [type |-> "connect", port |-> cls[c].port,
                        qport |-> cls[c].qport, challenge |-> m.challenge]
      OBVIOUS
    <3>2. p \in Packet /\ ~IsData(p) /\ p.qport = cls[c].qport
      BY <1>1, <1>3, <1>6, <3>1 DEF Packet, Answer, IsData, ClientRecord
    <3>3. path'[c] = Push(q, p)
      BY <1>2, <2>1, <2>4, <3>1 DEF ReceiveChallenge, SendsConnect, ToServer, ClientTypes
    <3>4. PICK r : r = Push(q, p)
      OBVIOUS
    <3>5. ~DataIn(q) /\ ~DataIn(t)
      BY <1>2, <2>4 DEF Attempt
    <3>10. \A i \in DOMAIN q : HasQport(q[i]) => q[i].qport = cls[c].qport
      BY <1>2 DEF Attempt
    <3>11. q \in Seq(Packet)
      BY <1>1, <1>2
    <3>6. /\ ~DataIn(r)
          /\ \A i \in DOMAIN r : HasQport(r[i]) => r[i].qport = cls[c].qport
      BY <3>2, <3>4, <3>5, <3>10, <3>11, PushOf
    <3>7. DataLast(r)
      BY <3>6 DEF DataLast, DataIn, IsData
    <3>8. ~NewTold(c)' /\ ~DataIn(u) /\ ~Connected(c)'
      BY <1>2, <1>4, <1>5, <2>2, <2>4, <3>5 DEF NewTold, DataIn, IsData, Connected
    <3>9. QED BY <1>2, <2>2, <3>3, <3>4, <3>6, <3>7, <3>8 DEF Attempt
  <2>5. QED BY <2>3, <2>4
<1>7. CASE m.type = "connection"
  <2>1. ReceiveConnection(c) /\ path' = path
    BY <1>2, <1>7 DEF ClientReceive, ReceiveConnection
  <2>2. CASE Connected(c)
    <3>1. cls' = cls
      BY <2>1, <2>2 DEF ReceiveConnection
    <3>2. Awaits(c)' = Awaits(c)
      BY <1>1, <3>1 DEF Awaits, SlotsOf, Matching
    <3>3. QED BY <1>1, <1>2, <1>3, <2>1, <3>1, <3>2, AttemptShrinks
  <2>3. CASE ~Connected(c)
    <3>1. cls' = [cls EXCEPT ![c] = [@ EXCEPT !.state = "connected", !.outgoing = 0,
                                              !.incoming = 0, !.pending = TRUE]]
      BY <2>1, <2>3 DEF ReceiveConnection
    <3>2. /\ cls'[c].state = "connected" /\ cls'[c].pending /\ cls'[c].qport = cls[c].qport
      BY <1>1, <3>1 DEF ClientTypes, ClientRecord
    <3>3. Connected(c)' /\ cls'[c].pending /\ cls'[c].qport = cls[c].qport
      BY <3>2 DEF Connected
    <3>4. ~DataIn(u) /\ ~NewTold(c)'
      BY <1>2, <1>4, <1>5, <2>3 DEF Attempt, NewTold, DataIn, IsData
    <3>5. QED BY <1>2, <2>1, <3>3, <3>4 DEF Attempt
  <2>4. QED BY <2>2, <2>3
<1>8. CASE m.type = "data"
  <2>1. ReceiveData(c, m) /\ m.new \in BOOLEAN
    BY <1>2, <1>3, <1>8 DEF ClientReceive, Answer
  <2>2. DataIn(t)
    BY <1>3, <1>8 DEF DataIn
  <2>3. Connected(c) /\ AllData(q)
    BY <1>2, <2>2 DEF Attempt
  <2>4. CASE UNCHANGED <<cls, path>>
    <3>1. Awaits(c)' = Awaits(c)
      BY <1>1, <2>4 DEF Awaits, SlotsOf, Matching
    <3>2. QED BY <1>1, <1>2, <1>3, <2>4, <3>1, AttemptShrinks
  <2>5. CASE Disconnect(c)
    <3>1. ~cls'[c].server_adr
      BY <2>5 DEF Disconnect, Process, ClientTypes
    <3>2. QED BY <3>1
  <2>6. CASE /\ cls' = [cls EXCEPT ![c].incoming = m.sequence,
                                   ![c].pending = @ /\ ~m.new]
             /\ UNCHANGED path
    <3>1. PICK r : r = [cls[c] EXCEPT !.incoming = m.sequence,
                                      !.pending = @ /\ ~m.new]
      OBVIOUS
    <3>2. cls' = [cls EXCEPT ![c] = r]
      BY <2>6, <3>1 DEF ClientTypes
    <3>3. /\ r.state = cls[c].state /\ r.qport = cls[c].qport
          /\ r.pending <=> (cls[c].pending /\ ~m.new)
      BY <1>1, <2>1, <3>1 DEF ClientRecord
    <3>4. /\ cls'[c].state = cls[c].state /\ cls'[c].qport = cls[c].qport
          /\ cls'[c].pending <=> (cls[c].pending /\ ~m.new)
      BY <3>2, <3>3 DEF ClientTypes
    <3>5. Connected(c)' /\ Awaits(c)' = Awaits(c)
      BY <1>1, <2>3, <3>4 DEF Connected, Awaits, SlotsOf, Matching
    <3>6. m.new => NewTold(c)
      BY <1>2, <1>3, <1>8 DEF NewTold, IsData
    <3>7. NewTold(c)' \/ ~cls'[c].pending => ~Awaits(c)'
      BY <1>5, <2>3, <3>4, <3>5, <3>6 DEF Attempt
    <3>8. QED BY <1>2, <1>4, <2>3, <2>6, <3>4, <3>5, <3>7 DEF Attempt
  <2>7. QED BY <2>1, <2>4, <2>5, <2>6 DEF ReceiveData
<1>9. QED BY <1>3, <1>6, <1>7, <1>8 DEF Answer

LEMMA AttemptSends ==
    ASSUME ClientTypes, ServerTypes, NEW c \in Client, Attempt(c), ClientSend(c)
    PROVE  Attempt(c)'
<1>1. path[c] \in Seq(Packet) /\ cls[c] \in ClientRecord /\ slot' = slot /\ back' = back
  BY DEF ClientTypes, ClientSend, server
<1>2. cls' = [cls EXCEPT ![c].outgoing = @ + 1]
  BY DEF ClientSend
<1>3. /\ cls'[c].state = cls[c].state /\ cls'[c].qport = cls[c].qport
      /\ cls'[c].pending = cls[c].pending
  BY <1>1, <1>2 DEF ClientTypes, ClientRecord
<1>4. PICK q : q = path[c]
  OBVIOUS
<1>5. PICK m : /\ m \in Packet /\ Own(c, m) /\ IsData(m)
               /\ path' = [path EXCEPT ![c] = Push(@, m)]
  <2>1. PICK k : k = cls'[c].outgoing
    OBVIOUS
  <2>2. PICK command \in {"new", "none"} :
           path' = [path EXCEPT ![c] = Push(@,
                      [type |-> "data", port |-> cls[c].port,
                       qport |-> cls[c].qport, sequence |-> k,
                       command |-> command])]
    BY <2>1 DEF ClientSend, ToServer
  <2>3. k = cls[c].outgoing + 1 /\ k \in 1..(MaxSequence + 1)
    BY <1>1, <1>2, <2>1, BoundTyped DEF ClientTypes, ClientRecord, ClientSend
  <2>4. PICK m : m = [type |-> "data", port |-> cls[c].port,
                      qport |-> cls[c].qport, sequence |-> k, command |-> command]
    OBVIOUS
  <2>5. m \in Packet /\ Own(c, m) /\ IsData(m)
    BY <1>1, <2>3, <2>4 DEF Packet, Own, IsData, HasQport, ClientRecord
  <2>6. QED BY <2>2, <2>4, <2>5
<1>6. PICK r : r = Push(q, m)
  OBVIOUS
<1>7. path'[c] = r
  BY <1>4, <1>5, <1>6 DEF ClientTypes
<1>8. /\ \A i \in DOMAIN r : HasQport(r[i]) => r[i].qport = cls[c].qport
      /\ AllData(q) => AllData(r)
      /\ DataLast(r)
  BY <1>1, <1>4, <1>5, <1>6, PushOf DEF Attempt, Own, HasQport, IsData
<1>9. (Connected(c)' <=> Connected(c)) /\ Connected(c)
  BY <1>3 DEF Connected, ClientSend
<1>10. (Awaits(c)' <=> Awaits(c)) /\ (NewTold(c)' <=> NewTold(c))
  BY <1>1, <1>3 DEF Awaits, SlotsOf, Matching, NewTold
<1>11. QED BY <1>1, <1>3, <1>4, <1>7, <1>8, <1>9, <1>10 DEF Attempt

\* What the server sends to c.
LEMMA SentOf ==
    ASSUME ServerTypes, NEW c \in Client, NEW base, NEW port, NEW m,
           back' = Sent(base, port, m)
    PROVE  /\ DataIn(back'[c]) => DataIn(back[c]) \/ IsData(m)
           /\ NewTold(c)' => NewTold(c) \/ (IsData(m) /\ m.new)
<1>1. PICK S : S = Answer \cup {m}
  OBVIOUS
<1>2. back[c] \in Seq(S) /\ m \in S
  BY <1>1, SeqMonotonic DEF ServerTypes
<1>3. back'[c] = back[c] \/ back'[c] = Push(back[c], m)
  BY DEF Sent
<1>4. CASE back'[c] = back[c]
  BY <1>4 DEF NewTold
<1>5. CASE back'[c] = Push(back[c], m)
  <2>1. PICK t, u : t = back[c] /\ u = Push(t, m)
    OBVIOUS
  <2>2. /\ \A i \in DOMAIN u : (i \in DOMAIN t /\ u[i] = t[i]) \/ u[i] = m
        /\ DataIn(u) => DataIn(t) \/ IsData(m)
    BY <1>2, <2>1, PushOf
  <2>3. QED BY <1>5, <2>1, <2>2 DEF NewTold
<1>6. QED BY <1>3, <1>4, <1>5

\* What is left of the line of c once its first packet is gone.
LEMMA RestOfLine ==
    ASSUME ClientTypes, NEW c \in Client, Attempt(c), path[c] # <<>>,
           path'[c] = Tail(path[c]), cls' = cls
    PROVE  /\ \A i \in DOMAIN path'[c] :
                  HasQport(path'[c][i]) => path'[c][i].qport = cls'[c].qport
           /\ DataIn(path'[c]) => DataIn(path[c])
           /\ DataLast(path'[c])
           /\ AllData(path[c]) => AllData(path'[c])
           /\ IsData(path[c][1]) => AllData(path[c]) /\ Connected(c)
           /\ 1 \in DOMAIN path[c]
           /\ HasQport(path[c][1]) => path[c][1].qport = cls[c].qport
<1>1. PICK q, r : q = path[c] /\ r = path'[c]
  OBVIOUS
<1>2. q \in Seq(Packet) /\ q # <<>> /\ r = Tail(q)
  BY <1>1 DEF ClientTypes
<1>3. /\ \A i \in DOMAIN r : i + 1 \in DOMAIN q /\ r[i] = q[i + 1]
      /\ DataIn(r) => DataIn(q)
      /\ AllData(q) => AllData(r)
      /\ DataLast(q) => DataLast(r)
      /\ 1 \in DOMAIN q /\ Head(q) = q[1]
      /\ IsData(Head(q)) /\ DataLast(q) => AllData(q)
  BY <1>2, TailOf
<1>4. /\ \A i \in DOMAIN q : HasQport(q[i]) => q[i].qport = cls[c].qport
      /\ DataLast(q) /\ (~Connected(c) => ~DataIn(q))
  BY <1>1 DEF Attempt
<1>5. IsData(q[1]) => DataIn(q)
  BY <1>3 DEF DataIn, IsData
<1>6. QED BY <1>1, <1>3, <1>4, <1>5

\* The server gets the first packet of c.
LEMMA AttemptServed ==
    ASSUME ClientTypes, ServerTypes, Apart, NEW c \in Client, Attempt(c),
           ServerReceive(c)
    PROVE  Attempt(c)'
<1>1. PICK p : p = path[c][1]
  OBVIOUS
<1>2. path[c] \in Seq(Packet) /\ path[c] # <<>>
  BY DEF ClientTypes, ServerReceive
<1>3. /\ p \in Packet /\ path'[c] = Tail(path[c]) /\ cls' = cls
      /\ ServerHandles(Base[c], p)
  BY <1>1, <1>2 DEF ServerReceive, ClientTypes
<1>4. (Connected(c)' <=> Connected(c)) /\ (cls'[c].pending <=> cls[c].pending)
  BY <1>3 DEF Connected
<1>5. /\ \A i \in DOMAIN path'[c] :
            HasQport(path'[c][i]) => path'[c][i].qport = cls'[c].qport
      /\ DataIn(path'[c]) => DataIn(path[c])
      /\ DataLast(path'[c])
      /\ AllData(path[c]) => AllData(path'[c])
      /\ IsData(p) => AllData(path[c]) /\ Connected(c)
      /\ 1 \in DOMAIN path[c]
      /\ HasQport(p) => p.qport = cls[c].qport
  BY <1>1, <1>2, <1>3, RestOfLine
<1>6. /\ DataIn(back[c]) => AllData(path[c])
      /\ Connected(c) /\ ~cls[c].pending => AllData(path[c])
      /\ ~Connected(c) => ~DataIn(path[c]) /\ ~DataIn(back[c])
      /\ NewTold(c) \/ (Connected(c) /\ ~cls[c].pending) => ~Awaits(c)
  BY DEF Attempt
<1>7. CASE p.type = "getchallenge"
  <2>1. GetChallenge(Base[c], p)
    BY <1>3, <1>7 DEF ServerHandles
  <2>2. PICK m : back' = Sent(Base[c], p.port, m) /\ ~IsData(m)
    <3>1. PICK n : back' = Sent(Base[c], p.port, [type |-> "challenge", challenge |-> n])
      BY <2>1 DEF GetChallenge
    <3>2. PICK m : m = [type |-> "challenge", challenge |-> n]
      OBVIOUS
    <3>3. QED BY <3>1, <3>2 DEF IsData
  <2>3. (DataIn(back'[c]) => DataIn(back[c])) /\ (NewTold(c)' => NewTold(c))
    BY <2>2, SentOf
  <2>4. Awaits(c)' <=> Awaits(c)
    BY <1>3, <2>1 DEF GetChallenge, Awaits, SlotsOf, Matching
  <2>5. QED BY <1>4, <1>5, <1>6, <2>3, <2>4 DEF Attempt
<1>8. CASE p.type = "connect"
  <2>1. DirectConnect(Base[c], p)
    BY <1>3, <1>8 DEF ServerHandles
  <2>2. ~AllData(path[c])
    BY <1>1, <1>5, <1>8 DEF AllData, IsData
  <2>3. ~NewTold(c) /\ ~DataIn(back[c])
    BY <1>6, <2>2 DEF NewTold, DataIn, IsData
  <2>4. ~DataIn(back'[c]) /\ ~NewTold(c)'
    <3>1. PICK m : m = [type |-> "connection"]
      OBVIOUS
    <3>2. back' = back \/ back' = Sent(Base[c], p.port, m)
      BY <2>1, <3>1, DirectConnectCases DEF Refuses, Accepts
    <3>3. ~IsData(m)
      BY <3>1 DEF IsData
    <3>4. CASE back' = back
      BY <2>3, <3>4 DEF NewTold
    <3>5. QED BY <2>3, <3>2, <3>3, <3>4, SentOf
  <2>5. QED BY <1>4, <1>5, <1>6, <2>2, <2>4 DEF Attempt
<1>9. CASE p.type = "data"
  <2>1. ExecuteMessage(Base[c], p) /\ AllData(path[c]) /\ Connected(c)
        /\ AllData(path'[c]) /\ p.qport = cls[c].qport
    BY <1>3, <1>5, <1>9 DEF ServerHandles, IsData, HasQport
  <2>2. SUFFICES ASSUME NewTold(c)' \/ ~cls[c].pending
                 PROVE  ~Awaits(c)'
    BY <1>4, <1>5, <2>1 DEF Attempt
  <2>3. Matching(Base[c], p.qport) = SlotsOf(c)
    BY <2>1 DEF SlotsOf
  <2>4. CASE slot' = slot /\ back' = back
    <3>1. (NewTold(c)' <=> NewTold(c)) /\ (Awaits(c)' <=> Awaits(c))
      BY <1>3, <2>4 DEF NewTold, Awaits, SlotsOf, Matching
    <3>2. QED BY <1>6, <2>1, <2>2, <3>1
  <2>5. ASSUME NEW u \in SlotsOf(c), Serves(Base[c], p, u) \/ Ignores(u, p)
        PROVE  ~Awaits(c)'
    <3>1. u \in Slots /\ slot[u] \in SlotRecord /\ slot[u].state # "free"
      BY DEF SlotsOf, Matching, ServerTypes
    <3>2. \A s \in Slots \ {u} : slot'[s] = slot[s]
      <4>1. u \in Matching(Base[c], p.qport) /\ p \in Packet
        BY <1>3, <2>3
      <4>2. Serves(Base[c], p, u) \/ Ignores(u, p)
        BY <2>5
      <4>3. QED BY <1>9, <4>1, <4>2, MessageTakes
    <3>3. slot'[u].state = "preconnected" => slot[u].state = "preconnected"
      <4>1. PICK d : d = slot'[u]
        OBVIOUS
      <4>2. d = Done(u, p) \/ d = FixPort(u, p)
        BY <2>5, <3>1, <4>1 DEF Serves, Ignores, ServerTypes
      <4>3. CASE d = Done(u, p)
        BY <1>3, <1>9, <3>1, <4>1, <4>3, DoneIs
      <4>4. CASE d = FixPort(u, p)
        BY <3>1, <4>1, <4>4 DEF FixPort, SlotRecord
      <4>5. QED BY <4>2, <4>3, <4>4
    <3>4. SlotsOf(c)' \subseteq Slots
      BY DEF SlotsOf, Matching
    <3>5. \A s \in SlotsOf(c)' : s # u => s \in SlotsOf(c) /\ slot'[s] = slot[s]
      BY <1>3, <3>2, <3>4 DEF SlotsOf, Matching
    <3>6. Awaits(c)' => Awaits(c)
      BY <3>3, <3>5 DEF Awaits
    <3>7. CASE NewTold(c) \/ ~cls[c].pending
      BY <1>6, <2>1, <3>6, <3>7
    <3>8. CASE ~NewTold(c) /\ cls[c].pending
      <4>1. NewTold(c)'
        BY <2>2, <3>8
      <4>2. back' # back
        BY <3>8, <4>1 DEF NewTold
      <4>3. Serves(Base[c], p, u)
        BY <2>5, <4>2 DEF Ignores
      <4>4. PICK m : m = [type |-> "data", sequence |-> p.sequence,
                          new |-> Done(u, p).state = "connected",
                          disconnect |-> Done(u, p).state = "zombie"]
        OBVIOUS
      <4>5. back' = Sent(Base[c], p.port, m)
        BY <4>3, <4>4 DEF Serves
      <4>6. m.new
        BY <3>8, <4>1, <4>5, SentOf
      <4>7. slot'[u].state = "connected"
        BY <3>1, <4>3, <4>4, <4>6 DEF Serves, ServerTypes
      <4>8. \A s \in SlotsOf(c) : s = u
        BY DEF Apart, SlotsOf, Matching, Used
      <4>9. QED BY <3>5, <4>7, <4>8 DEF Awaits
    <3>9. QED BY <3>7, <3>8
  <2>6. QED BY <2>1, <2>3, <2>4, <2>5, ExecuteMessageCases
<1>10. QED BY <1>3, <1>7, <1>8, <1>9, PacketParts

\* What the server does with the packets of others does not concern c.
LEMMA AttemptOthers ==
    ASSUME TypeOK, Disjoint, NEW c \in Client, NEW d \in Client, c # d,
           Attempt(c), ServerReceive(d)
    PROVE  Attempt(c)'
<1>0. ClientTypes /\ ServerTypes
  BY TypeParts
<1>1. PICK p : p = path[d][1]
  OBVIOUS
<1>2. path[d] \in Seq(Packet) /\ path[d] # <<>>
  BY <1>0 DEF ClientTypes, ServerReceive
<1>3. /\ p \in Packet /\ p \in In(d) /\ cls' = cls /\ path'[c] = path[c]
      /\ ServerHandles(Base[d], p)
  BY <1>0, <1>1, <1>2 DEF ServerReceive, ClientTypes, In
<1>4. /\ \A s \in SlotsOf(c) : slot'[s] = slot[s]
      /\ SlotsOf(c)' \subseteq SlotsOf(c)
  BY <1>3, OthersKeepSlots
<1>5. Awaits(c)' => Awaits(c)
  BY <1>4 DEF Awaits
<1>6. ~(Base[c] = Base[d] /\ cls[c].port = p.port)
  <2>1. cls[c].port \in PortsOf(c) /\ p.port \in PortsOf(d)
    BY <1>3 DEF PortsOf
  <2>2. QED BY <2>1 DEF Disjoint, Neighbours, Separate
<1>7. \A m : Sent(Base[d], p.port, m)[c] = back[c]
  BY <1>6 DEF Sent
<1>8. back'[c] = back[c]
  <2>1. CASE p.type = "getchallenge"
    BY <1>3, <1>7, <2>1 DEF ServerHandles, GetChallenge
  <2>2. CASE p.type = "connect"
    BY <1>3, <1>7, <2>2, DirectConnectCases DEF ServerHandles, Refuses, Accepts
  <2>3. CASE p.type = "data"
    <3>1. ExecuteMessage(Base[d], p)
      BY <1>3, <2>3 DEF ServerHandles
    <3>2. PICK u : u = First(Matching(Base[d], p.qport))
      OBVIOUS
    <3>3. back' = back \/ Serves(Base[d], p, u)
      BY <3>1, <3>2, ExecuteMessageCases DEF Ignores
    <3>4. QED BY <1>7, <3>3 DEF Serves
  <2>4. QED BY <1>3, <2>1, <2>2, <2>3, PacketParts
<1>9. QED BY <1>0, <1>3, <1>5, <1>8, AttemptShrinks

\* What the faults and the timeouts do to the packets and the slots of c.
LEMMA AttemptFaults ==
    ASSUME ClientTypes, ServerTypes, NEW c \in Client, Attempt(c), cls' = cls,
           path'[c] = path[c] \/ (path[c] # <<>> /\ path'[c] = Tail(path[c])),
           back'[c] = back[c] \/ (back[c] # <<>> /\ back'[c] = Tail(back[c])),
           \A s \in Slots : slot'[s] = slot[s] \/ slot'[s] = Free
    PROVE  Attempt(c)'
<1>1. Awaits(c)' => Awaits(c)
  BY DEF Awaits, SlotsOf, Matching, Free
<1>2. QED BY <1>1, AttemptShrinks

\* Another client, or another part of c, is what changes.
LEMMA AttemptUntouched ==
    ASSUME ClientTypes, ServerTypes, NEW c \in Client, Attempt(c),
           cls'[c].state = cls[c].state, cls'[c].qport = cls[c].qport,
           cls'[c].pending <=> cls[c].pending,
           path'[c] = path[c], back'[c] = back[c], slot' = slot
    PROVE  Attempt(c)'
<1>1. Awaits(c)' <=> Awaits(c)
  BY DEF Awaits, SlotsOf, Matching
<1>2. QED BY <1>1, AttemptShrinks

\* What one client does leaves the others alone.
LEMMA ClientStepOthers ==
    ASSUME ClientTypes, ServerTypes, NEW c \in Client, NEW d \in Client, c # d,
           \/ SendGetChallenge(d) \/ ClientReceive(d) \/ ClientSend(d)
           \/ ClientTimeout(d) \/ Quit(d) \/ Translate(d) \/ Restart(d)
    PROVE  /\ cls'[c] = cls[c] /\ path'[c] = path[c] /\ back'[c] = back[c]
           /\ slot' = slot /\ hasty'[c] = hasty[c]
<1>1. ASSUME Disconnect(d)
      PROVE  cls'[c] = cls[c] /\ path'[c] = path[c]
  BY <1>1 DEF Disconnect, ToServer, ClientTypes
<1>2. CASE SendGetChallenge(d)
  BY <1>2 DEF SendGetChallenge, ToServer, ClientTypes, server
<1>3. CASE ClientReceive(d)
  <2>1. PICK m : m = Head(back[d])
    OBVIOUS
  <2>2. /\ ReceiveChallenge(d, m) \/ ReceiveConnection(d) \/ ReceiveData(d, m)
        /\ back' = [back EXCEPT ![d] = Tail(@)] /\ slot' = slot /\ hasty' = hasty
    <3>1. back[d] \in Seq(Answer) /\ back[d] # <<>>
      BY <1>3 DEF ClientReceive, ServerTypes
    <3>2. m \in Answer
      BY <2>1, <3>1
    <3>3. m.type \in {"challenge", "connection", "data"}
      BY <3>2 DEF Answer
    <3>4. QED BY <1>3, <2>1, <3>3 DEF ClientReceive, server
  <2>3. ASSUME ReceiveChallenge(d, m)
        PROVE  cls'[c] = cls[c] /\ path'[c] = path[c]
    BY <2>3 DEF ReceiveChallenge, ToServer, ClientTypes
  <2>4. ASSUME ReceiveConnection(d)
        PROVE  cls'[c] = cls[c] /\ path'[c] = path[c]
    BY <2>4 DEF ReceiveConnection, ClientTypes
  <2>5. ASSUME ReceiveData(d, m)
        PROVE  cls'[c] = cls[c] /\ path'[c] = path[c]
    BY <1>1, <2>5 DEF ReceiveData, ClientTypes
  <2>6. QED BY <2>2, <2>3, <2>4, <2>5 DEF ServerTypes
<1>4. CASE ClientSend(d)
  <2>1. cls'[c] = cls[c] /\ path'[c] = path[c]
    BY <1>4 DEF ClientSend, ToServer, ClientTypes
  <2>2. QED BY <1>4, <2>1 DEF ClientSend, server
<1>5. CASE ClientTimeout(d) \/ Quit(d)
  BY <1>1, <1>5 DEF ClientTimeout, Quit, server
<1>6. CASE Translate(d)
  BY <1>6 DEF Translate, ClientTypes, server
<1>7. CASE Restart(d)
  BY <1>7 DEF Restart, ClientTypes, server
<1>8. QED BY <1>2, <1>3, <1>4, <1>5, <1>6, <1>7

\* Where the address of the server comes from and how it is forgotten; only a
\* client that has it is ever connected.
Addressed(c) == Connected(c) => cls[c].server_adr

LEMMA DisconnectForgets ==
    ASSUME ClientTypes, NEW c \in Client, Disconnect(c)
    PROVE  ~cls'[c].server_adr /\ ~Connected(c)'
BY DEF Disconnect, Process, ClientTypes, Connected

LEMMA ReceiveKeepsAddress ==
    ASSUME ClientTypes, ServerTypes, NEW c \in Client, ClientReceive(c)
    PROVE  /\ cls'[c].server_adr => cls[c].server_adr
           /\ Addressed(c) => Addressed(c)'
<1>1. PICK m : m = Head(back[c])
  OBVIOUS
<1>2. ReceiveChallenge(c, m) \/ ReceiveConnection(c) \/ ReceiveData(c, m)
  <2>1. back[c] \in Seq(Answer) /\ back[c] # <<>>
    BY DEF ClientReceive, ServerTypes
  <2>2. m \in Answer
    BY <1>1, <2>1
  <2>3. m.type \in {"challenge", "connection", "data"}
    BY <2>2 DEF Answer
  <2>4. QED BY <1>1, <2>3 DEF ClientReceive
<1>3. CASE cls' = cls
  BY <1>3 DEF Addressed, Connected
<1>4. CASE ReceiveChallenge(c, m)
  BY <1>3, <1>4 DEF ReceiveChallenge
<1>5. CASE ReceiveConnection(c)
  <2>1. CASE cls[c].server_adr /\ ~Connected(c)
    <3>1. cls[c] \in ClientRecord
      BY DEF ClientTypes
    <3>2. cls'[c].server_adr
      BY <1>5, <2>1, <3>1 DEF ReceiveConnection, ClientTypes, ClientRecord
    <3>3. QED BY <2>1, <3>2 DEF Addressed
  <2>2. QED BY <1>3, <1>5, <2>1 DEF ReceiveConnection
<1>6. CASE ReceiveData(c, m)
  <2>1. CASE Disconnect(c)
    BY <2>1, DisconnectForgets DEF Addressed
  <2>2. CASE cls' = [cls EXCEPT ![c].incoming = m.sequence,
                                ![c].pending = @ /\ ~m.new]
    <3>1. cls[c] \in ClientRecord
      BY DEF ClientTypes
    <3>2. cls'[c].server_adr = cls[c].server_adr /\ cls'[c].state = cls[c].state
      BY <2>2, <3>1 DEF ClientTypes, ClientRecord
    <3>3. QED BY <3>2 DEF Addressed, Connected
  <2>3. QED BY <1>3, <1>6, <2>1, <2>2 DEF ReceiveData
<1>7. QED BY <1>2, <1>4, <1>5, <1>6

\* The client's own steps.
LEMMA AttemptOwnStep ==
    ASSUME ClientTypes, ServerTypes, NEW c \in Client,
           Addressed(c), Clean(c) => Attempt(c),
           \/ SendGetChallenge(c) \/ ClientReceive(c) \/ ClientSend(c)
           \/ ClientTimeout(c) \/ Quit(c) \/ Translate(c) \/ Restart(c)
    PROVE  Addressed(c)' /\ (Clean(c)' => Attempt(c)')
<1>0. cls[c] \in ClientRecord
  BY DEF ClientTypes
<1>1. CASE SendGetChallenge(c)
  <2>1. cls'[c].server_adr
    BY <1>0, <1>1 DEF SendGetChallenge, ClientTypes, ClientRecord
  <2>2. QED BY <1>1, <2>1, AttemptAsks DEF Addressed
<1>2. CASE ClientReceive(c)
  <2>1. hasty' = hasty /\ late' = late
    BY <1>2 DEF ClientReceive
  <2>2. QED BY <1>2, <2>1, ReceiveKeepsAddress, AttemptReceives DEF Clean
<1>3. CASE ClientSend(c)
  <2>1. cls' = [cls EXCEPT ![c].outgoing = @ + 1] /\ hasty' = hasty /\ late' = late
    BY <1>3 DEF ClientSend
  <2>2. cls'[c].server_adr = cls[c].server_adr /\ cls'[c].state = cls[c].state
    BY <1>0, <2>1 DEF ClientTypes, ClientRecord
  <2>3. Addressed(c)'
    BY <2>2 DEF Addressed, Connected
  <2>4. QED BY <1>3, <2>1, <2>2, <2>3, AttemptSends DEF Clean
<1>4. CASE ClientTimeout(c) \/ Quit(c)
  <2>1. Disconnect(c)
    BY <1>4 DEF ClientTimeout, Quit
  <2>2. QED BY <2>1, DisconnectForgets DEF Addressed, Clean
<1>5. CASE Translate(c)
  <2>1. PICK n : cls' = [cls EXCEPT ![c].port = n]
    BY <1>5 DEF Translate
  <2>2. /\ cls'[c].server_adr = cls[c].server_adr /\ cls'[c].state = cls[c].state
        /\ cls'[c].qport = cls[c].qport /\ (cls'[c].pending <=> cls[c].pending)
    BY <1>0, <2>1 DEF ClientTypes, ClientRecord
  <2>3. path' = path /\ back' = back /\ slot' = slot /\ late' = late /\ hasty' = hasty
    BY <1>5 DEF Translate, server
  <2>4. Addressed(c)'
    BY <2>2 DEF Addressed, Connected
  <2>5. QED BY <2>2, <2>3, <2>4, AttemptUntouched DEF Clean
<1>6. CASE Restart(c)
  <2>1. ~cls'[c].server_adr /\ ~Connected(c)'
    BY <1>6 DEF Restart, Process, ClientTypes, Connected
  <2>2. QED BY <2>1 DEF Addressed, Clean
<1>7. QED BY <1>1, <1>2, <1>3, <1>4, <1>5, <1>6

LEMMA AttemptsStep ==
    ASSUME TypeOK, Disjoint, late \/ Ordered, Next, NEW c \in Client,
           Addressed(c), Clean(c) => Attempt(c)
    PROVE  Addressed(c)' /\ (Clean(c)' => Attempt(c)')
<1>0. ClientTypes /\ ServerTypes
  BY TypeParts
<1>1. ASSUME cls' = cls PROVE Addressed(c)'
  BY <1>1 DEF Addressed, Connected
<1>2. ASSUME NEW d \in Client,
             \/ SendGetChallenge(d) \/ ClientReceive(d) \/ ClientSend(d)
             \/ ClientTimeout(d) \/ Quit(d) \/ Translate(d) \/ Restart(d)
      PROVE  Addressed(c)' /\ (Clean(c)' => Attempt(c)')
  <2>1. CASE d = c
    BY <1>0, <1>2, <2>1, AttemptOwnStep
  <2>2. CASE d # c
    <3>1. /\ cls'[c] = cls[c] /\ path'[c] = path[c] /\ back'[c] = back[c]
          /\ slot' = slot /\ hasty'[c] = hasty[c]
      BY <1>0, <1>2, <2>2, ClientStepOthers
    <3>2. ~late' => ~late
      BY LateStays
    <3>3. Clean(c)' => Clean(c)
      BY <3>1, <3>2 DEF Clean
    <3>4. Addressed(c)'
      BY <3>1 DEF Addressed, Connected
    <3>5. QED BY <1>0, <3>1, <3>3, <3>4, AttemptUntouched
  <2>3. QED BY <2>1, <2>2
<1>3. ASSUME NEW d \in Client, ServerReceive(d)
      PROVE  Addressed(c)' /\ (Clean(c)' => Attempt(c)')
  <2>1. cls' = cls /\ late' = late /\ hasty' = hasty
    BY <1>3 DEF ServerReceive
  <2>2. Clean(c)' => Clean(c) /\ Apart
    BY <2>1 DEF Clean, Ordered
  <2>3. QED BY <1>0, <1>1, <1>3, <2>1, <2>2, AttemptServed, AttemptOthers
<1>4. ASSUME NEW d \in Client, ServerReceiveLate(d)
      PROVE  Addressed(c)' /\ (Clean(c)' => Attempt(c)')
  BY <1>1, <1>4 DEF ServerReceiveLate, Clean
<1>5. ASSUME cls' = cls, late' = late, hasty' = hasty,
             path'[c] = path[c] \/ (path[c] # <<>> /\ path'[c] = Tail(path[c])),
             back'[c] = back[c] \/ (back[c] # <<>> /\ back'[c] = Tail(back[c])),
             \A s \in Slots : slot'[s] = slot[s] \/ slot'[s] = Free
      PROVE  Addressed(c)' /\ (Clean(c)' => Attempt(c)')
  <2>1. Clean(c)' => Clean(c)
    BY <1>5 DEF Clean
  <2>2. QED BY <1>0, <1>1, <1>5, <2>1, AttemptFaults
<1>6. ASSUME NEW s \in Slots, CheckTimeouts(s)
      PROVE  Addressed(c)' /\ (Clean(c)' => Attempt(c)')
  BY <1>0, <1>5, <1>6 DEF CheckTimeouts, ServerTypes
<1>7. ASSUME NEW d \in Client, Lose(d)
      PROVE  Addressed(c)' /\ (Clean(c)' => Attempt(c)')
  <2>1. /\ path'[c] = path[c] \/ (path[c] # <<>> /\ path'[c] = Tail(path[c]))
        /\ back'[c] = back[c] \/ (back[c] # <<>> /\ back'[c] = Tail(back[c]))
        /\ slot' = slot
    BY <1>0, <1>7 DEF Lose, server, ClientTypes, ServerTypes
  <2>2. QED BY <1>5, <1>7, <2>1 DEF Lose
<1>8. ASSUME NEW d \in Client, Delay(d)
      PROVE  Addressed(c)' /\ (Clean(c)' => Attempt(c)')
  BY <1>5, <1>8 DEF Delay, server
<1>9. CASE ServerRestart
  BY <1>5, <1>9 DEF ServerRestart
<1>10. CASE OtherChallenge
  BY <1>5, <1>10 DEF OtherChallenge
<1>11. QED BY <1>2, <1>3, <1>4, <1>6, <1>7, <1>8, <1>9, <1>10
           DEF Next, Fault, CheckForResend, Impatient

LEMMA AttemptsInit == Init => Attempts
<1> SUFFICES ASSUME Init, NEW c \in Client PROVE ~Connected(c) /\ ~Clean(c)
  BY DEF Attempts
<1>1. QED BY DEF Init, Process, Connected, Clean

LEMMA AttemptsAlways == Spec => []Attempts
<1>1. TypeOK /\ Disjoint /\ (late \/ Ordered) /\ Attempts /\ [Next]_vars => Attempts'
  <2> SUFFICES ASSUME TypeOK, Disjoint, late \/ Ordered, Attempts, [Next]_vars,
                      NEW c \in Client
               PROVE  Addressed(c)' /\ (Clean(c)' => Attempt(c)')
    BY DEF Attempts, Addressed
  <2>1. Addressed(c) /\ (Clean(c) => Attempt(c))
    BY DEF Attempts, Addressed
  <2>2. CASE UNCHANGED vars
    <3>1. /\ cls' = cls /\ path' = path /\ back' = back /\ slot' = slot
          /\ late' = late /\ hasty' = hasty
      BY <2>2 DEF vars, server
    <3>2. (Clean(c)' => Clean(c)) /\ Addressed(c)'
      BY <2>1, <3>1 DEF Clean, Addressed, Connected
    <3>3. QED BY <2>1, <3>1, <3>2, TypeParts, AttemptUntouched
  <2>3. CASE Next
    BY <2>1, <2>3, AttemptsStep
  <2>4. QED BY <2>2, <2>3
<1>2. QED BY <1>1, AttemptsInit, TypeCorrect, DisjointAlways, OrderedUnlessLate,
             PTL DEF Spec

\* Client and server never wait for each other - the client for what its "new"
\* brings, the server for the "new" - unless a packet came late or the client
\* asked anew too soon: the requests a client repeats, and the answers to them,
\* cannot have the slot made anew in which its "new" was executed.
THEOREM StayInStep == Spec => []InStep
<1>1. TypeOK /\ Attempts => InStep
  <2> SUFFICES ASSUME TypeOK, Attempts, NEW c \in Client, Wedged(c), ~late, ~hasty[c]
               PROVE  FALSE
    BY DEF InStep
  <2>1. Connected(c) /\ ~cls[c].pending /\ HasSlot(c)
        /\ slot[SlotOf(c)].state = "preconnected"
    BY DEF Wedged
  <2>2. Attempt(c)
    BY <2>1 DEF Attempts, Clean
  <2>3. SlotOf(c) \in SlotsOf(c)
    <3>1. SlotsOf(c) \subseteq Slots
      BY DEF SlotsOf, Matching
    <3>2. QED BY <2>1, <3>1, FirstSlot DEF HasSlot, SlotOf, SlotsOf
  <2>4. QED BY <2>1, <2>2, <2>3 DEF Attempt, Awaits
<1>2. QED BY <1>1, TypeCorrect, AttemptsAlways, PTL
=============================================================================
