------------------------- MODULE DelayedPacketsProof -------------------------
(***************************************************************************)
(* What holds of DelayedPackets for all numbers of clients, packets, delays, *)
(* connections and frames.  TypeOK and OnePointer are inductive together: each *)
(* step moves pointers or lets one go, and none is copied.  They give neither *)
(* how long a list is nor what is on it.  For that the second part lays the *)
(* lists out (Laid): a sequence for each slot and one for the free list, whose *)
(* neighbours are the links.  A step of the code takes the head of one sequence *)
(* and appends it to another (Moved), or lets a sequence go (LetGo).  Kept says *)
(* what is known of such sequences; Conserved and Exhausted follow from it, and *)
(* with the sequences as its queues DelayedPackets implements PacketDelay. *)
(***************************************************************************)
EXTENDS DelayedPackets, FiniteSetTheorems, WellFoundedInduction, TLAPS

\* The length of a list is a number.
LEMMA QueueLength ==
    ASSUME NEW s \in Slots
    PROVE  Len(Queue(s)) \in Nat
<1> DEFINE first == clients[s].packets
           node[i \in Packets] ==
               IF i = 1 THEN first
               ELSE LET p == node[i - 1]
                    IN  IF p = NULL THEN NULL ELSE packet[p].next
           used == {i \in Packets : node[i] # NULL}
<1>1. IsFiniteSet(used)
  <2> HIDE DEF node
  <2>1. IsFiniteSet(Packets)
    BY FS_Interval, DelayAssumption DEF Packets
  <2>2. used \subseteq Packets
    OBVIOUS
  <2> QED BY <2>1, <2>2, FS_Subset
<1>2. Cardinality(used) \in Nat
  BY <1>1, FS_CardinalityType
<1>3. Queue(s) = [i \in 1..Cardinality(used) |-> node[i]]
  BY DEF Queue, List
<1> HIDE DEF used, node
<1> QED BY <1>2, <1>3

PacketType == [next : Packets \cup {NULL}, age : 0..MaxDelay,
               number : 0..MaxArrived]
ClientType == [state : {"free", "used"}, delay : 0..MaxDelay,
               packets : Packets \cup {NULL}, last_packet : Packets \cup {NULL}]

\* The types, as the steps use them.
LEMMA Types ==
    ASSUME TypeOK
    PROVE  /\ packet \in [Packets -> PacketType]
           /\ clients \in [Slots -> ClientType]
           /\ free_packets \in Packets \cup {NULL}
           /\ \A p \in Packets : packet[p] \in PacketType
           /\ \A s \in Slots : clients[s] \in ClientType
           /\ \A p \in Packets : p \in Nat /\ p # NULL
<1>1. packet \in [Packets -> PacketType] /\ clients \in [Slots -> ClientType]
  BY DEF TypeOK, PacketType, ClientType
<1>2. free_packets \in Packets \cup {NULL}
  BY DEF TypeOK
<1>3. \A p \in Packets : p \in Nat /\ p # NULL
  BY DelayAssumption DEF Packets, NULL
<1> QED BY <1>1, <1>2, <1>3

LEMMA UnusedType ==
    ASSUME NEW p \in Packets \cup {NULL}
    PROVE  Unused(p) \in PacketType /\ Unused(p).next = p
BY DelayAssumption DEF Unused, PacketType

LEMMA ClearedType == Cleared \in ClientType /\ Cleared.packets = NULL
BY DelayAssumption DEF Cleared, ClientType

\* What SV_ExecuteClientMessage leaves of the slot.
LEMMA ExecuteType ==
    ASSUME TypeOK, NEW s \in Slots, NEW client \in ClientType,
           NEW number \in 0..MaxArrived, ExecuteClientMessage(s, client, number)
    PROVE  /\ clients' \in [Slots -> ClientType]
           /\ clients'[s].packets = client.packets
           /\ \A t \in Slots : t # s => clients'[t] = clients[t]
           /\ paused' \in BOOLEAN
           /\ executed' \in [Slots -> 0..MaxArrived]
<1>1. PICK delay \in (IF paused THEN {client.delay} ELSE Delays) :
         clients' = [clients EXCEPT ![s] = [client EXCEPT !.delay = delay]]
  BY DEF ExecuteClientMessage
<1>2. delay \in 0..MaxDelay
  BY DEF Delays, ClientType
<1>3. /\ [client EXCEPT !.delay = delay] \in ClientType
      /\ [client EXCEPT !.delay = delay].packets = client.packets
  BY <1>2 DEF ClientType
<1>4. /\ paused' \in BOOLEAN
      /\ executed' = [executed EXCEPT ![s] = number]
  BY DEF ExecuteClientMessage
<1> QED BY <1>1, <1>3, <1>4, Types DEF TypeOK

LEMMA InitInv == Init => TypeOK /\ OnePointer
<1> SUFFICES ASSUME Init PROVE TypeOK /\ OnePointer
  OBVIOUS
<1> DEFINE n(p) == IF p = MAX_DELAYED_PACKETS THEN NULL ELSE p + 1
<1>1. \A p \in Packets : n(p) \in Packets \cup {NULL}
  BY DelayAssumption DEF Packets, NULL
<1>2. /\ packet \in [Packets -> PacketType]
      /\ \A p \in Packets : packet[p].next = n(p)
  BY <1>1, UnusedType DEF Init
<1>3. /\ clients \in [Slots -> ClientType]
      /\ \A s \in Slots : clients[s].packets = NULL
  BY DelayAssumption DEF Init, Cleared, ClientType
<1>4. TypeOK
  <2>1. free_packets \in Packets \cup {NULL} /\ at \in 1..Socket
    BY DelayAssumption DEF Init, Packets, Socket
  <2>2. /\ arrived \in [Slots -> 0..MaxArrived]
        /\ executed \in [Slots -> 0..MaxArrived]
    BY DelayAssumption DEF Init
  <2>3. /\ paused = FALSE
        /\ inputs = 0 /\ abandoned = 0
    BY DEF Init
  <2>4. /\ paused \in BOOLEAN
    BY <2>3, Zenon
  <2>5. inputs \in 0..MaxInputs /\ abandoned \in Nat
    BY <2>3, DelayAssumption
  <2> QED BY <1>2, <1>3, <2>1, <2>2, <2>4, <2>5 DEF TypeOK, PacketType, ClientType
<1>5. OnePointer
  <2>1. /\ \A p, q \in Packets : p # q => Apart(n(p), n(q))
        /\ \A p \in Packets : Apart(1, n(p))
        /\ \A q : Apart(NULL, q) /\ Apart(q, NULL)
    BY DelayAssumption DEF Packets, NULL, Apart
  <2> QED BY <1>2, <1>3, <2>1 DEF Init, OnePointer
<1> QED BY <1>4, <1>5

\* The first packet of a slot's list goes to the head of the free list.
LEMMA ExecuteDelayedInv ==
    TypeOK /\ OnePointer /\ ExecuteDelayed => TypeOK' /\ OnePointer'
<1> SUFFICES ASSUME TypeOK, OnePointer, ExecuteDelayed
             PROVE  TypeOK' /\ OnePointer'
  OBVIOUS
<1> DEFINE s == at
           p == clients[s].packets
           client == [clients[s] EXCEPT !.packets = packet[p].next]
<1>1. /\ s \in Slots /\ p # NULL
      /\ ExecuteClientMessage(s, client, packet[p].number)
      /\ packet' = [packet EXCEPT ![p] = Unused(free_packets)]
      /\ free_packets' = p
      /\ UNCHANGED <<at, arrived, inputs, abandoned>>
  BY DEF ExecuteDelayed, FreeHead, Drains
<1>2. p \in Packets
  BY <1>1, Types DEF ClientType
<1>3. client \in ClientType /\ client.packets = packet[p].next
  BY <1>1, <1>2, Types DEF ClientType, PacketType
<1>4. packet[p].number \in 0..MaxArrived
  BY <1>2, Types DEF PacketType
<1> HIDE DEF s, p, client
<1>5. /\ clients' \in [Slots -> ClientType]
      /\ clients'[s].packets = packet[p].next
      /\ \A t \in Slots : t # s => clients'[t] = clients[t]
      /\ paused' \in BOOLEAN
      /\ executed' \in [Slots -> 0..MaxArrived]
  BY <1>1, <1>3, <1>4, ExecuteType
<1>6. /\ packet' \in [Packets -> PacketType]
      /\ packet'[p].next = free_packets
      /\ \A q \in Packets : q # p => packet'[q] = packet[q]
  BY <1>1, <1>2, Types, UnusedType
<1>7. TypeOK'
  BY <1>1, <1>2, <1>5, <1>6 DEF TypeOK, PacketType, ClientType
<1>8. OnePointer'
  BY <1>1, <1>2, <1>5, <1>6, Types DEF OnePointer, Apart, p
<1> QED BY <1>7, <1>8

LEMMA ExecuteNewInv ==
    TypeOK /\ OnePointer /\ (\E s \in Slots : ExecuteNew(s))
    => TypeOK' /\ OnePointer'
<1> SUFFICES ASSUME TypeOK, OnePointer, NEW s \in Slots, ExecuteNew(s)
             PROVE  TypeOK' /\ OnePointer'
  OBVIOUS
<1>1. /\ arrived[s] + 1 \in 0..MaxArrived
      /\ arrived' \in [Slots -> 0..MaxArrived]
      /\ inputs' \in 0..MaxInputs
      /\ ExecuteClientMessage(s, clients[s], arrived[s] + 1)
      /\ UNCHANGED <<packet, free_packets, at, abandoned>>
  BY DelayAssumption DEF ExecuteNew, Arrives, Input, TypeOK
<1>2. /\ clients' \in [Slots -> ClientType]
      /\ \A t \in Slots : clients'[t].packets = clients[t].packets
      /\ paused' \in BOOLEAN
      /\ executed' \in [Slots -> 0..MaxArrived]
  BY <1>1, ExecuteType, Types
<1>3. TypeOK'
  BY <1>1, <1>2 DEF TypeOK, ClientType
<1>4. OnePointer'
  BY <1>1, <1>2 DEF OnePointer
<1> QED BY <1>3, <1>4

\* The first free packet is linked to the end of a list.
LEMMA DelayNewInv ==
    TypeOK /\ OnePointer /\ (\E s \in Slots : DelayNew(s))
    => TypeOK' /\ OnePointer'
<1> SUFFICES ASSUME TypeOK, OnePointer, NEW s \in Slots, DelayNew(s)
             PROVE  TypeOK' /\ OnePointer'
  OBVIOUS
<1> DEFINE p == free_packets
           last == clients[s].last_packet
           empty == clients[s].packets = NULL
           new == [next |-> NULL, age |-> 0, number |-> arrived'[s]]
<1>1. /\ arrived' \in [Slots -> 0..MaxArrived]
      /\ inputs' \in 0..MaxInputs
      /\ p \in Packets
      /\ UNCHANGED <<paused, at, executed, abandoned>>
  BY DelayAssumption DEF DelayNew, Arrives, Input, TypeOK
<1>2. /\ packet' = [q \in Packets |->
                      IF q = p THEN new
                      ELSE IF q = last /\ ~empty
                      THEN [packet[q] EXCEPT !.next = p] ELSE packet[q]]
      /\ clients' = [clients EXCEPT
                       ![s].packets = IF empty THEN p ELSE @,
                       ![s].last_packet = p]
      /\ free_packets' = packet[p].next
  BY DEF DelayNew, NextFree
<1>3. new \in PacketType /\ new.next = NULL
  BY <1>1, DelayAssumption DEF PacketType
<1>4. \A q \in Packets : /\ [packet[q] EXCEPT !.next = p] \in PacketType
                         /\ [packet[q] EXCEPT !.next = p].next = p
  BY <1>1, Types DEF PacketType
<1>5. /\ packet' \in [Packets -> PacketType]
      /\ packet'[p].next = NULL
      /\ \A q \in Packets : q # p =>
            packet'[q].next = IF q = last /\ ~empty THEN p ELSE packet[q].next
  BY <1>1, <1>2, <1>3, <1>4, Types
<1>6. /\ clients' \in [Slots -> ClientType]
      /\ clients'[s].packets = IF empty THEN p ELSE clients[s].packets
      /\ \A t \in Slots : t # s => clients'[t] = clients[t]
  <2> DEFINE c == clients[s]
             first == IF empty THEN p ELSE c.packets
             d == [[c EXCEPT !.packets = first] EXCEPT !.last_packet = p]
  <2>1. clients' = [clients EXCEPT ![s] = d]
    BY <1>2, Types
  <2>2. c \in ClientType /\ first \in Packets \cup {NULL}
    BY <1>1, Types DEF ClientType
  <2> HIDE DEF c, first
  <2>3. d \in ClientType /\ d.packets = first
    BY <1>1, <2>2 DEF ClientType
  <2> HIDE DEF d
  <2> QED BY <2>1, <2>3, Types DEF first, c
<1>7. free_packets' \in Packets \cup {NULL}
  BY <1>1, <1>2, Types DEF PacketType
<1>8. TypeOK'
  BY <1>1, <1>5, <1>6, <1>7 DEF TypeOK, PacketType, ClientType
<1>9. OnePointer'
  BY <1>1, <1>2, <1>5, <1>6, Types DEF OnePointer, Apart
<1> QED BY <1>8, <1>9

\* SV_CheckTimeouts frees slots, and time passes: no pointer changes.
LEMMA NextFrameInv ==
    ASSUME TypeOK, OnePointer, NEW n \in Nat, NextFrame(n),
           arrived' \in [Slots -> 0..MaxArrived]
    PROVE  TypeOK' /\ OnePointer'
<1>1. PICK gone \in SUBSET Slots :
         /\ clients' = [s \in Slots |->
                          IF s \in gone
                          THEN [clients[s] EXCEPT !.state = "free"]
                          ELSE clients[s]]
         /\ Input(n + Cardinality(gone))
  BY DEF NextFrame
<1>2. /\ packet' = [p \in Packets |->
                      [packet[p] EXCEPT !.age = Older(packet[p])]]
      /\ at' = 1 /\ paused' \in {paused, FALSE}
      /\ UNCHANGED <<free_packets, executed, abandoned>>
  BY DEF NextFrame
<1>3. \A p \in Packets : Older(packet[p]) \in 0..MaxDelay
  BY Types, DelayAssumption DEF Older, PacketType
<1>4. /\ packet' \in [Packets -> PacketType]
      /\ \A p \in Packets : packet'[p].next = packet[p].next
  BY <1>2, <1>3, Types DEF PacketType
<1>5. /\ clients' \in [Slots -> ClientType]
      /\ \A s \in Slots : clients'[s].packets = clients[s].packets
  BY <1>1, Types DEF ClientType
<1>6. inputs' \in 0..MaxInputs
  <2>1. IsFiniteSet(Slots)
    BY FS_Interval, DelayAssumption DEF Slots
  <2>2. Cardinality(gone) \in Nat
    BY <2>1, FS_Subset, FS_CardinalityType
  <2> QED BY <1>1, <2>2, DelayAssumption DEF Input, TypeOK
<1>7. at' \in 1..Socket
  BY <1>2, DelayAssumption DEF Socket
<1>8. TypeOK'
  BY <1>2, <1>4, <1>5, <1>6, <1>7 DEF TypeOK, PacketType, ClientType
<1>9. OnePointer'
  BY <1>2, <1>4, <1>5 DEF OnePointer
<1> QED BY <1>8, <1>9

LEMMA FrameInv ==
    TypeOK /\ OnePointer /\ (EndFrame \/ \E s \in Slots : RefuseNew(s))
    => TypeOK' /\ OnePointer'
<1> SUFFICES ASSUME TypeOK, OnePointer, EndFrame \/ \E s \in Slots : RefuseNew(s)
             PROVE  TypeOK' /\ OnePointer'
  OBVIOUS
<1>1. CASE EndFrame
  BY <1>1, NextFrameInv DEF EndFrame, TypeOK
<1>2. CASE \E s \in Slots : RefuseNew(s)
  <2>1. PICK s \in Slots : RefuseNew(s)
    BY <1>2
  <2>2. arrived' \in [Slots -> 0..MaxArrived]
    BY <2>1, DelayAssumption DEF RefuseNew, Arrives, TypeOK
  <2> QED BY <2>1, <2>2, NextFrameInv DEF RefuseNew
<1> QED BY <1>1, <1>2

LEMMA NextSlotInv ==
    TypeOK /\ OnePointer /\ NextSlot => TypeOK' /\ OnePointer'
<1> SUFFICES ASSUME TypeOK, OnePointer, NextSlot PROVE TypeOK' /\ OnePointer'
  OBVIOUS
<1>1. at' \in 1..Socket
  BY DelayAssumption DEF NextSlot, Slots, Socket
<1> QED BY <1>1 DEF NextSlot, TypeOK, OnePointer

\* A slot that is cleared lets its list go.
LEMMA ConnectInv ==
    TypeOK /\ OnePointer
      /\ (\E old \in {{s} : s \in Slots} \cup {{}} : Connect(old))
    => TypeOK' /\ OnePointer'
<1> SUFFICES ASSUME TypeOK, OnePointer, NEW old, Connect(old)
             PROVE  TypeOK' /\ OnePointer'
  OBVIOUS
<1>1. PICK new \in Slots :
         /\ Input(1)
         /\ clients' = [s \in Slots |->
                          IF s = new THEN Cleared
                          ELSE IF s \in old
                          THEN [clients[s] EXCEPT !.state = "free"]
                          ELSE clients[s]]
         /\ abandoned' = abandoned + Len(Queue(new))
         /\ arrived' = [arrived EXCEPT ![new] = 0]
         /\ executed' = [executed EXCEPT ![new] = 0]
         /\ packet' = [p \in Packets |->
                          IF p \in Members(clients[new].packets)
                          THEN Unused(NULL) ELSE packet[p]]
         /\ UNCHANGED <<free_packets, paused, at>>
  BY Zenon DEF Connect
<1>2. /\ clients' \in [Slots -> ClientType]
      /\ \A s \in Slots : clients'[s].packets \in {NULL, clients[s].packets}
  BY <1>1, Types, ClearedType DEF ClientType
<1>3. /\ packet' \in [Packets -> PacketType]
      /\ \A p \in Packets : packet'[p].next \in {NULL, packet[p].next}
  BY <1>1, Types, UnusedType
<1>4. abandoned' \in Nat
  BY <1>1, QueueLength DEF TypeOK
<1>5. /\ arrived' \in [Slots -> 0..MaxArrived]
      /\ executed' \in [Slots -> 0..MaxArrived]
  <2>1. 0 \in 0..MaxArrived
    BY DelayAssumption
  <2> QED BY <1>1, <2>1 DEF TypeOK
<1>6. inputs' \in 0..MaxInputs
  BY <1>1, DelayAssumption DEF TypeOK, Input
<1>7. TypeOK'
  BY <1>1, <1>2, <1>3, <1>4, <1>5, <1>6 DEF TypeOK, PacketType, ClientType
<1>8. OnePointer'
  BY <1>1, <1>2, <1>3 DEF OnePointer, Apart
<1> QED BY <1>7, <1>8

\* The variables have their types, and no two pointers of the lists of delayed
\* packets are to the same packet_t (SV_ReadPackets, SV_FreeHeadDelayedPacket).
THEOREM PointersApart == Spec => [](TypeOK /\ OnePointer)
<1>1. Init => TypeOK /\ OnePointer
  BY InitInv
<1>2. TypeOK /\ OnePointer /\ [Next]_vars => (TypeOK /\ OnePointer)'
  <2> SUFFICES ASSUME TypeOK, OnePointer, [Next]_vars
               PROVE  (TypeOK /\ OnePointer)'
    OBVIOUS
  <2>1. CASE ExecuteDelayed
    BY <2>1, ExecuteDelayedInv
  <2>2. CASE NextSlot
    BY <2>2, NextSlotInv
  <2>3. CASE EndFrame \/ \E s \in Slots : RefuseNew(s)
    BY <2>3, FrameInv
  <2>4. CASE \E s \in Slots : ExecuteNew(s)
    BY <2>4, ExecuteNewInv
  <2>5. CASE \E s \in Slots : DelayNew(s)
    BY <2>5, DelayNewInv
  <2>6. CASE \E old \in {{s} : s \in Slots} \cup {{}} : Connect(old)
    BY <2>6, ConnectInv
  <2>7. CASE UNCHANGED vars
    BY <2>7 DEF vars, TypeOK, OnePointer
  <2> QED BY <2>1, <2>2, <2>3, <2>4, <2>5, <2>6, <2>7 DEF Next, SV_ReadPackets
<1> QED BY <1>1, <1>2, PTL DEF Spec

\* The variables have their types: the delays, ages and numbers of SV_ReadPackets
\* stay in their ranges, and every link is to a packet_t of the block or NULL.
THEOREM TypeCorrect == Spec => []TypeOK
BY PointersApart, PTL

-----------------------------------------------------------------------------

(***************************************************************************)
(* The lists themselves: list 0 is that of the free packets, list s that   *)
(* of slot s.  qs[l] are the packets of list l, in order.                  *)
(***************************************************************************)
Lists == 0..MAX_CLIENTS
Heads == [l \in Lists |-> IF l = 0 THEN free_packets ELSE clients[l].packets]

Nth(q, i) == IF i \in 1..Len(q) THEN q[i] ELSE NULL

\* From first, the links lead through q and end.
Linked(pk, first, q) ==
    /\ first = Nth(q, 1)
    /\ \A i \in 1..Len(q) : pk[q[i]].next = Nth(q, i + 1)

\* Each packet is in one place at most.
Distinct(qs) ==
    \A l, m \in Lists : \A i \in 1..Len(qs[l]), j \in 1..Len(qs[m]) :
        qs[l][i] = qs[m][j] => l = m /\ i = j

Laid(pk, hd, qs) ==
    /\ qs \in [Lists -> Seq(Packets)]
    /\ \A l \in Lists : Linked(pk, hd[l], qs[l])
    /\ Distinct(qs)

\* Packet p, the first of list a, becomes the first or the last of list b; list a
\* is emptied.
FirstToFirst(qs, a, b, p) ==
    [l \in Lists |-> IF l = a THEN Tail(qs[a])
                     ELSE IF l = b THEN <<p>> \o qs[b] ELSE qs[l]]
FirstToLast(qs, a, b, p) ==
    [l \in Lists |-> IF l = a THEN Tail(qs[a])
                     ELSE IF l = b THEN Append(qs[b], p) ELSE qs[l]]
Without(qs, a) == [l \in Lists |-> IF l = a THEN <<>> ELSE qs[l]]

LEMMA TailIs ==
    ASSUME NEW S, NEW q \in Seq(S), Len(q) # 0
    PROVE  /\ Tail(q) \in Seq(S) /\ Len(Tail(q)) = Len(q) - 1
           /\ \A i \in 1..Len(Tail(q)) : Tail(q)[i] = q[i + 1]
OBVIOUS

LEMMA PlacesOf ==
    ASSUME NEW pk, NEW hd, NEW qs, Laid(pk, hd, qs)
    PROVE  \A l \in Lists :
              /\ qs[l] \in Seq(Packets) /\ Len(qs[l]) \in Nat
              /\ hd[l] = Nth(qs[l], 1)
              /\ \A i \in 1..Len(qs[l]) :
                    /\ qs[l][i] \in Packets /\ qs[l][i] # NULL
                    /\ pk[qs[l][i]].next = Nth(qs[l], i + 1)
<1>1. \A p \in Packets : p # NULL
  BY DelayAssumption DEF Packets, NULL
<1>2. ASSUME NEW l \in Lists
      PROVE  qs[l] \in Seq(Packets)
  BY DEF Laid
<1>3. ASSUME NEW l \in Lists
      PROVE  /\ Len(qs[l]) \in Nat
             /\ \A i \in 1..Len(qs[l]) : qs[l][i] \in Packets
  BY <1>2
<1> QED BY <1>1, <1>2, <1>3, Zenon DEF Laid, Linked

\* A packet's age and number are not part of the lists.
LEMMA SameLinks ==
    ASSUME NEW pk, NEW hd, NEW qs, Laid(pk, hd, qs), NEW pk2,
           \A p \in Packets : pk2[p].next = pk[p].next
    PROVE  Laid(pk2, hd, qs)
<1>1. ASSUME NEW l \in Lists
      PROVE  Linked(pk2, hd[l], qs[l])
  <2>1. /\ hd[l] = Nth(qs[l], 1)
        /\ \A i \in 1..Len(qs[l]) : /\ qs[l][i] \in Packets
                                    /\ pk[qs[l][i]].next = Nth(qs[l], i + 1)
    BY PlacesOf
  <2>2. ASSUME NEW i \in 1..Len(qs[l])
        PROVE  pk2[qs[l][i]].next = Nth(qs[l], i + 1)
    BY <2>1
  <2> QED BY <2>1, <2>2 DEF Linked
<1> QED BY <1>1 DEF Laid

\* The first packet of list a becomes the first of list b.
LEMMA Popped ==
    ASSUME NEW pk, NEW hd, NEW qs, Laid(pk, hd, qs), NEW pk2, NEW hd2,
           NEW a \in Lists, NEW b \in Lists, a # b,
           NEW p, p = hd[a], p # NULL, pk2[p].next = hd[b],
           \A r \in Packets : r # p => pk2[r].next = pk[r].next,
           hd2[a] = pk[p].next, hd2[b] = p,
           \A l \in Lists : l # a /\ l # b => hd2[l] = hd[l],
           NEW rs, rs = FirstToFirst(qs, a, b, p)
    PROVE  /\ Laid(pk2, hd2, rs)
           /\ p \in Packets /\ qs[a] # <<>> /\ p = Head(qs[a])
<1>1. /\ Len(qs[a]) \in Nat \ {0} /\ qs[a][1] = p
      /\ qs[a] \in Seq(Packets) /\ qs[a] # <<>>
      /\ p \in Packets
  BY PlacesOf DEF Nth
<1>2. qs[b] \in Seq(Packets) /\ Len(qs[b]) \in Nat
  BY PlacesOf
<1>3. /\ rs[a] \in Seq(Packets)
      /\ Len(rs[a]) = Len(qs[a]) - 1
      /\ \A i \in 1..Len(rs[a]) : rs[a][i] = qs[a][i + 1]
  <2>1. rs[a] = Tail(qs[a])
    BY DEF FirstToFirst
  <2> QED BY <1>1, <2>1
<1>4. /\ rs[b] \in Seq(Packets)
      /\ Len(rs[b]) = Len(qs[b]) + 1
      /\ rs[b][1] = p
      /\ \A i \in 2..Len(rs[b]) : rs[b][i] = qs[b][i - 1]
  <2>1. rs[b] = <<p>> \o qs[b]
    BY DEF FirstToFirst
  <2> QED BY <1>1, <1>2, <2>1
<1>5. \A l \in Lists : l # a /\ l # b => rs[l] = qs[l]
  BY DEF FirstToFirst
<1>6. rs \in [Lists -> Seq(Packets)]
  <2>1. \A l \in Lists : rs[l] \in Seq(Packets)
    <3>1. \A l \in Lists : qs[l] \in Seq(Packets)
      BY PlacesOf
    <3> QED BY <1>3, <1>4, <1>5, <3>1
  <2> QED BY <2>1 DEF FirstToFirst
<1>7. \A l \in Lists : \A i \in 1..Len(rs[l]) :
         IF l = a THEN rs[l][i] = qs[a][i + 1] /\ i + 1 \in 1..Len(qs[a])
         ELSE IF l = b THEN IF i = 1 THEN rs[l][i] = qs[a][1]
                            ELSE /\ rs[l][i] = qs[b][i - 1]
                                 /\ i - 1 \in 1..Len(qs[b])
         ELSE rs[l][i] = qs[l][i] /\ i \in 1..Len(qs[l])
  <2> SUFFICES ASSUME NEW l \in Lists, NEW i \in 1..Len(rs[l])
               PROVE  IF l = a
                      THEN rs[l][i] = qs[a][i + 1] /\ i + 1 \in 1..Len(qs[a])
                      ELSE IF l = b
                      THEN IF i = 1 THEN rs[l][i] = qs[a][1]
                           ELSE /\ rs[l][i] = qs[b][i - 1]
                                /\ i - 1 \in 1..Len(qs[b])
                      ELSE rs[l][i] = qs[l][i] /\ i \in 1..Len(qs[l])
    OBVIOUS
  <2>1. CASE l = a
    BY <1>1, <1>3, <2>1
  <2>2. CASE l = b /\ i = 1
    BY <1>1, <1>4, <2>2
  <2>3. CASE l = b /\ i # 1
    <3>1. i \in 2..Len(rs[b]) /\ i - 1 \in 1..Len(qs[b])
      BY <1>2, <1>4, <2>3
    <3> QED BY <1>4, <2>3, <3>1
  <2>4. CASE l # a /\ l # b
    BY <1>5, <2>4
  <2> QED BY <2>1, <2>2, <2>3, <2>4
<1>8. Distinct(rs)
  <2> SUFFICES ASSUME NEW l \in Lists, NEW m \in Lists,
                      NEW i \in 1..Len(rs[l]), NEW j \in 1..Len(rs[m]),
                      rs[l][i] = rs[m][j]
               PROVE  l = m /\ i = j
    BY DEF Distinct
  <2>1. \A x, y \in Lists : \A u \in 1..Len(qs[x]), v \in 1..Len(qs[y]) :
           qs[x][u] = qs[y][v] => x = y /\ u = v
    BY DEF Laid, Distinct
  <2> DEFINE list(x, u) == IF x = b /\ u = 1 THEN a ELSE x
             place(x, u) == IF x = a THEN u + 1
                            ELSE IF x = b /\ u # 1 THEN u - 1 ELSE u
  <2>2. \A x \in Lists : \A u \in 1..Len(rs[x]) :
           /\ list(x, u) \in Lists
           /\ place(x, u) \in 1..Len(qs[list(x, u)])
           /\ rs[x][u] = qs[list(x, u)][place(x, u)]
    <3> SUFFICES ASSUME NEW x \in Lists, NEW u \in 1..Len(rs[x])
                 PROVE  /\ list(x, u) \in Lists
                        /\ place(x, u) \in 1..Len(qs[list(x, u)])
                        /\ rs[x][u] = qs[list(x, u)][place(x, u)]
      OBVIOUS
    <3>1. CASE x = a
      BY <1>7, <3>1
    <3>2. CASE x = b /\ u = 1
      <4>1. 1 \in 1..Len(qs[a])
        BY <1>1
      <4> QED BY <1>7, <3>2, <4>1
    <3>3. CASE x = b /\ u # 1
      BY <1>7, <3>3
    <3>4. CASE x # a /\ x # b
      BY <1>7, <3>4
    <3> QED BY <3>1, <3>2, <3>3, <3>4
  <2>3. list(l, i) = list(m, j) /\ place(l, i) = place(m, j)
    <3> HIDE DEF list, place
    <3>1. /\ list(l, i) \in Lists /\ place(l, i) \in 1..Len(qs[list(l, i)])
          /\ rs[l][i] = qs[list(l, i)][place(l, i)]
      BY <2>2
    <3>2. /\ list(m, j) \in Lists /\ place(m, j) \in 1..Len(qs[list(m, j)])
          /\ rs[m][j] = qs[list(m, j)][place(m, j)]
      BY <2>2
    <3>3. qs[list(l, i)][place(l, i)] = qs[list(m, j)][place(m, j)]
      BY <3>1, <3>2
    <3>4. PICK x, y, u, v : /\ x = list(l, i) /\ u = place(l, i)
                            /\ y = list(m, j) /\ v = place(m, j)
      OBVIOUS
    <3>5. x = y /\ u = v
      BY <2>1, <3>1, <3>2, <3>3, <3>4
    <3> QED BY <3>4, <3>5
  <2> QED BY <2>3
<1>9. \A l \in Lists : Linked(pk2, hd2[l], rs[l])
  <2>1. \A l \in Lists : \A i \in 1..Len(qs[l]) :
           ~(l = a /\ i = 1) => qs[l][i] # p
    BY <1>1 DEF Laid, Distinct
  <2>2. \A i \in Nat \ {0} : /\ Nth(rs[a], i) = Nth(qs[a], i + 1)
                            /\ Nth(rs[b], i + 1) = Nth(qs[b], i)
    BY <1>1, <1>2, <1>3, <1>4 DEF Nth
  <2>3. Nth(rs[b], 1) = p
    BY <1>2, <1>4 DEF Nth
  <2>4. \A l \in Lists : \A i \in 1..Len(qs[l]) :
           ~(l = a /\ i = 1) => pk2[qs[l][i]].next = Nth(qs[l], i + 1)
    <3> SUFFICES ASSUME NEW l \in Lists, NEW i \in 1..Len(qs[l]),
                        ~(l = a /\ i = 1)
                 PROVE  pk2[qs[l][i]].next = Nth(qs[l], i + 1)
      OBVIOUS
    <3>1. qs[l][i] \in Packets /\ pk[qs[l][i]].next = Nth(qs[l], i + 1)
      BY PlacesOf
    <3>2. qs[l][i] # p
      BY <2>1
    <3> QED BY <3>1, <3>2
  <2>5. Linked(pk2, hd2[a], rs[a])
    <3>1. hd2[a] = Nth(qs[a], 2)
      BY <1>1, PlacesOf
    <3>2. hd2[a] = Nth(rs[a], 1)
      BY <2>2, <3>1
    <3>3. ASSUME NEW i \in 1..Len(rs[a])
          PROVE  pk2[rs[a][i]].next = Nth(rs[a], i + 1)
      <4>1. /\ rs[a][i] = qs[a][i + 1] /\ i + 1 \in 1..Len(qs[a])
            /\ ~(i + 1 = 1) /\ i + 1 \in Nat \ {0}
        BY <1>1, <1>3
      <4>2. pk2[qs[a][i + 1]].next = Nth(qs[a], i + 1 + 1)
        BY <2>4, <4>1
      <4> QED BY <2>2, <4>1, <4>2
    <3> QED BY <3>2, <3>3 DEF Linked
  <2>6. Linked(pk2, hd2[b], rs[b])
    <3>1. hd2[b] = Nth(rs[b], 1)
      BY <2>3
    <3>2. hd[b] = Nth(qs[b], 1)
      BY PlacesOf
    <3>3. ASSUME NEW i \in 1..Len(rs[b])
          PROVE  pk2[rs[b][i]].next = Nth(rs[b], i + 1)
      <4>1. CASE i = 1
        <5>1. Nth(rs[b], 1 + 1) = Nth(qs[b], 1)
          BY <2>2
        <5> QED BY <1>4, <3>2, <4>1, <5>1
      <4>2. CASE i # 1
        <5>1. /\ rs[b][i] = qs[b][i - 1] /\ i - 1 \in 1..Len(qs[b])
              /\ i \in Nat \ {0} /\ i - 1 + 1 = i
          BY <1>2, <1>4, <4>2
        <5>2. pk2[qs[b][i - 1]].next = Nth(qs[b], i)
          BY <2>4, <5>1
        <5> QED BY <2>2, <5>1, <5>2
      <4> QED BY <4>1, <4>2
    <3> QED BY <3>1, <3>3 DEF Linked
  <2>7. ASSUME NEW l \in Lists, l # a, l # b
        PROVE  Linked(pk2, hd2[l], rs[l])
    BY <1>5, <2>4, <2>7, PlacesOf DEF Linked
  <2> QED BY <2>5, <2>6, <2>7
<1>10. p = Head(qs[a])
  BY <1>1
<1> QED BY <1>1, <1>6, <1>8, <1>9, <1>10, Zenon DEF Laid

\* How the links are set when packet p, the first of list a, is linked to the end
\* of list b.
MovesTo(pk, hd, qs, pk2, hd2, a, b, p) ==
    /\ p = hd[a] /\ p # NULL
    /\ pk2[p].next = NULL
    /\ \A r \in Packets : r # p =>
          pk2[r].next = IF hd[b] # NULL /\ r = qs[b][Len(qs[b])]
                        THEN p ELSE pk[r].next
    /\ hd2[a] = pk[p].next
    /\ hd2[b] = IF hd[b] = NULL THEN p ELSE hd[b]
    /\ \A l \in Lists : l # a /\ l # b => hd2[l] = hd[l]

\* The first packet of list a becomes the last of list b.
LEMMA Moved ==
    ASSUME NEW pk, NEW hd, NEW qs, Laid(pk, hd, qs), NEW pk2, NEW hd2,
           NEW a \in Lists, NEW b \in Lists, a # b,
           NEW p, MovesTo(pk, hd, qs, pk2, hd2, a, b, p),
           NEW rs, rs = FirstToLast(qs, a, b, p)
    PROVE  /\ Laid(pk2, hd2, rs)
           /\ p \in Packets /\ qs[a] # <<>> /\ p = Head(qs[a])
<1>0. /\ p = hd[a] /\ p # NULL /\ pk2[p].next = NULL
      /\ \A r \in Packets : r # p =>
            pk2[r].next = IF hd[b] # NULL /\ r = qs[b][Len(qs[b])]
                          THEN p ELSE pk[r].next
      /\ hd2[a] = pk[p].next
      /\ hd2[b] = IF hd[b] = NULL THEN p ELSE hd[b]
      /\ \A l \in Lists : l # a /\ l # b => hd2[l] = hd[l]
  BY DEF MovesTo
<1> DEFINE n == Len(qs[b])
           last == qs[b][n]
<1>1. /\ Len(qs[a]) \in Nat \ {0} /\ qs[a][1] = p
      /\ qs[a] \in Seq(Packets) /\ qs[a] # <<>>
      /\ p \in Packets
  BY <1>0, PlacesOf DEF Nth
<1>2. qs[b] \in Seq(Packets) /\ n \in Nat
  BY PlacesOf
<1>3. /\ rs[a] \in Seq(Packets)
      /\ Len(rs[a]) = Len(qs[a]) - 1
      /\ \A i \in 1..Len(rs[a]) : rs[a][i] = qs[a][i + 1]
  <2>1. rs[a] = Tail(qs[a])
    BY DEF FirstToLast
  <2> QED BY <1>1, <2>1
<1>4. /\ rs[b] \in Seq(Packets)
      /\ Len(rs[b]) = n + 1
      /\ rs[b][n + 1] = p
      /\ \A i \in 1..n : rs[b][i] = qs[b][i]
  <2>1. rs[b] = Append(qs[b], p)
    BY DEF FirstToLast
  <2> QED BY <1>1, <1>2, <2>1
<1>5. \A l \in Lists : l # a /\ l # b => rs[l] = qs[l]
  BY DEF FirstToLast
<1>6. rs \in [Lists -> Seq(Packets)]
  <2>1. \A l \in Lists : rs[l] \in Seq(Packets)
    <3>1. \A l \in Lists : qs[l] \in Seq(Packets)
      BY PlacesOf
    <3> QED BY <1>3, <1>4, <1>5, <3>1
  <2> QED BY <2>1 DEF FirstToLast
<1>7. \A l \in Lists : \A i \in 1..Len(rs[l]) :
         IF l = a THEN rs[l][i] = qs[a][i + 1] /\ i + 1 \in 1..Len(qs[a])
         ELSE IF l = b /\ i = n + 1 THEN rs[l][i] = qs[a][1]
         ELSE rs[l][i] = qs[l][i] /\ i \in 1..Len(qs[l])
  <2> SUFFICES ASSUME NEW l \in Lists, NEW i \in 1..Len(rs[l])
               PROVE  IF l = a
                      THEN rs[l][i] = qs[a][i + 1] /\ i + 1 \in 1..Len(qs[a])
                      ELSE IF l = b /\ i = n + 1 THEN rs[l][i] = qs[a][1]
                      ELSE rs[l][i] = qs[l][i] /\ i \in 1..Len(qs[l])
    OBVIOUS
  <2>1. CASE l = a
    BY <1>1, <1>3, <2>1
  <2>2. CASE l = b /\ i = n + 1
    BY <1>1, <1>4, <2>2
  <2>3. CASE l = b /\ i # n + 1
    <3>1. i \in 1..n
      BY <1>2, <1>4, <2>3
    <3> QED BY <1>4, <2>3, <3>1
  <2>4. CASE l # a /\ l # b
    BY <1>5, <2>4
  <2> QED BY <2>1, <2>2, <2>3, <2>4
<1>8. \A l, m \in Lists : \A i \in 1..Len(qs[l]), j \in 1..Len(qs[m]) :
         qs[l][i] = qs[m][j] => l = m /\ i = j
  BY DEF Laid, Distinct
<1>9. Distinct(rs)
  <2> SUFFICES ASSUME NEW l \in Lists, NEW m \in Lists,
                      NEW i \in 1..Len(rs[l]), NEW j \in 1..Len(rs[m]),
                      rs[l][i] = rs[m][j]
               PROVE  l = m /\ i = j
    BY DEF Distinct
  <2> DEFINE list(x, u) == IF x = b /\ u = n + 1 THEN a ELSE x
             place(x, u) == IF x = a THEN u + 1
                            ELSE IF x = b /\ u = n + 1 THEN 1 ELSE u
  <2>1. \A x \in Lists : \A u \in 1..Len(rs[x]) :
           /\ list(x, u) \in Lists
           /\ place(x, u) \in 1..Len(qs[list(x, u)])
           /\ rs[x][u] = qs[list(x, u)][place(x, u)]
    BY <1>1, <1>7
  <2>2. list(l, i) = list(m, j) /\ place(l, i) = place(m, j)
    <3> HIDE DEF list, place
    <3>1. /\ list(l, i) \in Lists /\ place(l, i) \in 1..Len(qs[list(l, i)])
          /\ rs[l][i] = qs[list(l, i)][place(l, i)]
      BY <2>1
    <3>2. /\ list(m, j) \in Lists /\ place(m, j) \in 1..Len(qs[list(m, j)])
          /\ rs[m][j] = qs[list(m, j)][place(m, j)]
      BY <2>1
    <3>3. qs[list(l, i)][place(l, i)] = qs[list(m, j)][place(m, j)]
      BY <3>1, <3>2
    <3>4. PICK x, y, u, v : /\ x = list(l, i) /\ u = place(l, i)
                            /\ y = list(m, j) /\ v = place(m, j)
      OBVIOUS
    <3>5. x = y /\ u = v
      BY <1>8, <3>1, <3>2, <3>3, <3>4
    <3> QED BY <3>4, <3>5
  <2> QED BY <2>2
<1>10. \A i \in Nat \ {0} :
          /\ Nth(rs[a], i) = Nth(qs[a], i + 1)
          /\ Nth(rs[b], i) = IF i = n + 1 THEN p ELSE Nth(qs[b], i)
  <2> SUFFICES ASSUME NEW i \in Nat \ {0}
               PROVE  /\ Nth(rs[a], i) = Nth(qs[a], i + 1)
                      /\ Nth(rs[b], i) = IF i = n + 1 THEN p ELSE Nth(qs[b], i)
    OBVIOUS
  <2>1. Nth(rs[a], i) = Nth(qs[a], i + 1)
    <3>1. i \in 1..Len(rs[a]) <=> i + 1 \in 1..Len(qs[a])
      BY <1>1, <1>3
    <3> QED BY <1>3, <3>1 DEF Nth
  <2>2. Nth(rs[b], i) = IF i = n + 1 THEN p ELSE Nth(qs[b], i)
    <3>1. i \in 1..Len(rs[b]) <=> i = n + 1 \/ i \in 1..n
      BY <1>2, <1>4
    <3>2. n + 1 \notin 1..n
      BY <1>2
    <3> QED BY <1>4, <3>1, <3>2 DEF Nth
  <2> QED BY <2>1, <2>2
<1>11. \A l \in Lists : \A i \in 1..Len(qs[l]) :
          ~(l = a /\ i = 1) => qs[l][i] # p
  BY <1>1, <1>8
<1>12. \A l \in Lists : \A i \in 1..Len(qs[l]) :
          ~(l = a /\ i = 1) /\ ~(l = b /\ i = n)
          => pk2[qs[l][i]].next = Nth(qs[l], i + 1)
  <2> SUFFICES ASSUME NEW l \in Lists, NEW i \in 1..Len(qs[l]),
                      ~(l = a /\ i = 1), ~(l = b /\ i = n)
               PROVE  pk2[qs[l][i]].next = Nth(qs[l], i + 1)
    OBVIOUS
  <2>1. qs[l][i] # p /\ qs[l][i] \in Packets
    BY <1>11, PlacesOf
  <2>2. qs[l][i] = last => hd[b] = NULL
    <3> SUFFICES ASSUME qs[l][i] = last, hd[b] # NULL PROVE FALSE
      OBVIOUS
    <3>1. n # 0 /\ n \in 1..n
      BY <1>2, PlacesOf DEF Nth
    <3>2. qs[b] # <<>>
      BY <3>1
    <3> QED BY <1>8, <3>1, <3>2
  <2>3. pk2[qs[l][i]].next = pk[qs[l][i]].next
    <3> DEFINE r == qs[l][i]
    <3>1. r # p /\ r \in Packets /\ ~(r = last /\ hd[b] # NULL)
      BY <2>1, <2>2
    <3> HIDE DEF r
    <3>2. pk2[r].next = pk[r].next
      BY <1>0, <3>1
    <3> QED BY <3>2 DEF r
  <2>4. pk[qs[l][i]].next = Nth(qs[l], i + 1)
    BY PlacesOf
  <2> QED BY <2>3, <2>4
<1>13. Linked(pk2, hd2[a], rs[a])
  <2>1. hd2[a] = Nth(qs[a], 2)
    BY <1>0, <1>1, PlacesOf
  <2>2. hd2[a] = Nth(rs[a], 1)
    BY <1>10, <2>1
  <2>3. ASSUME NEW i \in 1..Len(rs[a])
        PROVE  pk2[rs[a][i]].next = Nth(rs[a], i + 1)
    <3>1. /\ rs[a][i] = qs[a][i + 1] /\ i + 1 \in 1..Len(qs[a])
          /\ ~(i + 1 = 1) /\ i + 1 \in Nat \ {0}
      BY <1>1, <1>3
    <3>2. pk2[qs[a][i + 1]].next = Nth(qs[a], i + 1 + 1)
      BY <1>12, <3>1
    <3> QED BY <1>10, <3>1, <3>2
  <2> QED BY <2>2, <2>3 DEF Linked
<1>14. Linked(pk2, hd2[b], rs[b])
  <2>1. hd[b] = Nth(qs[b], 1)
    BY PlacesOf
  <2>2. hd[b] = NULL <=> n = 0
    BY <1>2, <2>1, PlacesOf DEF Nth
  <2>3. hd2[b] = Nth(rs[b], 1)
    BY <1>0, <1>2, <1>10, <2>1, <2>2
  <2>4. ASSUME NEW i \in 1..Len(rs[b])
        PROVE  pk2[rs[b][i]].next = Nth(rs[b], i + 1)
    <3>1. CASE i = n + 1
      <4>1. rs[b][i] = p /\ pk2[p].next = NULL
        BY <1>0, <1>4, <3>1
      <4>2. Nth(rs[b], n + 1 + 1) = NULL
        BY <1>2, <1>4 DEF Nth
      <4> QED BY <3>1, <4>1, <4>2
    <3>2. CASE i = n
      <4>1. i \in 1..n /\ rs[b][i] = qs[b][n] /\ n # 0 /\ qs[b] # <<>>
        BY <1>2, <1>4, <3>2
      <4>2. last = qs[b][n] /\ last \in Packets /\ last # p
        BY <1>11, <3>2, <4>1, PlacesOf
      <4>3. pk2[last].next = p
        <5>1. hd[b] # NULL
          BY <2>2, <4>1
        <5>2. pk2[last].next = IF hd[b] # NULL /\ last = last THEN p
                               ELSE pk[last].next
          BY <1>0, <4>2
        <5> QED BY <5>1, <5>2
      <4>4. Nth(rs[b], n + 1) = p
        <5>1. n + 1 \in Nat \ {0}
          BY <1>2
        <5> QED BY <1>10, <5>1
      <4> QED BY <3>2, <4>1, <4>2, <4>3, <4>4
    <3>3. CASE i # n /\ i # n + 1
      <4>1. /\ i \in 1..n /\ rs[b][i] = qs[b][i]
            /\ i + 1 \in Nat \ {0} /\ i + 1 # n + 1
        <5>1. i \in 1..n + 1
          BY <1>4
        <5>2. i \in 1..n /\ i + 1 \in Nat \ {0} /\ i + 1 # n + 1
          BY <1>2, <3>3, <5>1
        <5> QED BY <1>4, <5>2
      <4>2. pk2[qs[b][i]].next = Nth(qs[b], i + 1)
        BY <1>12, <3>3, <4>1
      <4> QED BY <1>10, <4>1, <4>2
    <3> QED BY <3>1, <3>2, <3>3
  <2> QED BY <2>3, <2>4 DEF Linked
<1>15. ASSUME NEW l \in Lists, l # a, l # b
       PROVE  Linked(pk2, hd2[l], rs[l])
  BY <1>0, <1>5, <1>12, <1>15, PlacesOf DEF Linked
<1>16. p = Head(qs[a])
  BY <1>1
<1>17. \A l \in Lists : Linked(pk2, hd2[l], rs[l])
  BY <1>13, <1>14, <1>15
<1> QED BY <1>1, <1>6, <1>9, <1>16, <1>17, Zenon DEF Laid

\* List a is let go, and all that its packets hold with it.
LEMMA LetGo ==
    ASSUME NEW pk, NEW hd, NEW qs, Laid(pk, hd, qs), NEW pk2, NEW hd2,
           NEW a \in Lists, hd2[a] = NULL,
           \A l \in Lists : l # a => hd2[l] = hd[l],
           \A r \in Packets : (\A i \in 1..Len(qs[a]) : r # qs[a][i])
                              => pk2[r].next = pk[r].next,
           NEW rs, rs = Without(qs, a)
    PROVE  Laid(pk2, hd2, rs)
<1>1. rs \in [Lists -> Seq(Packets)] /\ rs[a] = <<>>
  BY PlacesOf DEF Without
<1>2. \A l \in Lists : l # a => rs[l] = qs[l]
  BY DEF Without
<1>3. Distinct(rs)
  <2>1. \A l, m \in Lists : \A i \in 1..Len(qs[l]), j \in 1..Len(qs[m]) :
           qs[l][i] = qs[m][j] => l = m /\ i = j
    BY DEF Laid, Distinct
  <2>2. 1..Len(rs[a]) = {}
    BY <1>1
  <2> SUFFICES ASSUME NEW l \in Lists, NEW m \in Lists,
                      NEW i \in 1..Len(rs[l]), NEW j \in 1..Len(rs[m]),
                      rs[l][i] = rs[m][j]
               PROVE  l = m /\ i = j
    BY DEF Distinct
  <2>3. l # a /\ m # a
    BY <2>2
  <2>4. rs[l] = qs[l] /\ rs[m] = qs[m]
    BY <1>2, <2>3
  <2> QED BY <2>1, <2>4
<1>4. ASSUME NEW l \in Lists PROVE Linked(pk2, hd2[l], rs[l])
  <2>1. CASE l = a
    BY <1>1, <2>1 DEF Linked, Nth
  <2>2. CASE l # a
    <3>1. \A i \in 1..Len(qs[l]) :
             qs[l][i] \in Packets /\ \A j \in 1..Len(qs[a]) : qs[l][i] # qs[a][j]
      BY <2>2, PlacesOf DEF Laid, Distinct
    <3>2. ASSUME NEW i \in 1..Len(qs[l])
          PROVE  pk2[qs[l][i]].next = Nth(qs[l], i + 1)
      <4>1. pk2[qs[l][i]].next = pk[qs[l][i]].next
        <5> DEFINE r == qs[l][i]
        <5>1. r \in Packets /\ \A j \in 1..Len(qs[a]) : r # qs[a][j]
          BY <3>1
        <5> HIDE DEF r
        <5>2. pk2[r].next = pk[r].next
          BY <5>1
        <5> QED BY <5>2 DEF r
      <4> QED BY <4>1, PlacesOf
    <3> QED BY <1>2, <2>2, <3>2, PlacesOf DEF Linked
  <2> QED BY <2>1, <2>2
<1> QED BY <1>1, <1>3, <1>4 DEF Laid

\* A set that holds 0 and with each number the next holds all.
LEMMA EveryNumber ==
    ASSUME NEW T \in SUBSET Nat, 0 \in T, \A n \in T : n + 1 \in T
    PROVE  T = Nat
<1> DEFINE Less == {m \in Nat \X Nat : m[1] < m[2]}
           rest == Nat \ T
<1>1. IsWellFoundedOn(Less, Nat)
  BY NatLessThanWellFounded, Zenon DEF OpToRel
<1>2. ASSUME rest # {} PROVE FALSE
  <2>1. rest \subseteq Nat
    OBVIOUS
  <2>2. PICK n \in rest : \A k \in rest : ~(<<k, n>> \in Less)
    <3> HIDE DEF Less, rest
    <3> QED BY <1>1, <1>2, <2>1, WFMin
  <2>3. n \in Nat \ {0} /\ n - 1 \in Nat /\ (n - 1) + 1 = n
    BY <2>2
  <2>4. <<n - 1, n>> \in Less
    BY <2>3
  <2>5. n - 1 \in T
    <3> HIDE DEF Less
    <3> QED BY <2>2, <2>3, <2>4
  <2> QED BY <2>2, <2>3, <2>5
<1> QED BY <1>2

\* What is mapped to different things is not more than they are.
LEMMA NotMore ==
    ASSUME NEW S, IsFiniteSet(S), NEW T, IsFiniteSet(T), NEW f \in [S -> T],
           \A x, y \in S : f[x] = f[y] => x = y
    PROVE  Cardinality(S) <= Cardinality(T)
<1>1. Cardinality(S) \in Nat /\ Cardinality(T) \in Nat
  BY FS_CardinalityType
<1>2. ~(Cardinality(T) < Cardinality(S))
  BY FS_PigeonHole
<1> QED BY <1>1, <1>2

LEMMA BlockSize ==
    IsFiniteSet(Packets) /\ Cardinality(Packets) = MAX_DELAYED_PACKETS
BY FS_Interval, DelayAssumption DEF Packets

\* The packets of a list.
Held(q) == {p \in Packets : \E i \in 1..Len(q) : q[i] = p}

\* A list that holds each packet once holds as many packets as it is long.
LEMMA HeldSize ==
    ASSUME NEW q \in Seq(Packets),
           \A i, j \in 1..Len(q) : q[i] = q[j] => i = j
    PROVE  /\ IsFiniteSet(Held(q)) /\ Cardinality(Held(q)) = Len(q)
           /\ Len(q) <= MAX_DELAYED_PACKETS
<1> DEFINE n == Len(q)
           place == [p \in Held(q) |-> CHOOSE i \in 1..n : q[i] = p]
           at1 == [i \in 1..n |-> q[i]]
<1>1. n \in Nat /\ \A i \in 1..n : q[i] \in Packets
  OBVIOUS
<1>2. IsFiniteSet(1..n) /\ Cardinality(1..n) = n
  <2>1. n \in Int /\ 1 \in Int /\ (IF 1 > n THEN 0 ELSE n - 1 + 1) = n
    BY <1>1
  <2> HIDE DEF n
  <2> QED BY <2>1, FS_Interval
<1>3. Held(q) \subseteq Packets
  BY DEF Held
<1>4. IsFiniteSet(Held(q)) /\ Cardinality(Held(q)) <= MAX_DELAYED_PACKETS
  BY <1>3, BlockSize, FS_Subset
<1>5. n <= Cardinality(Held(q))
  <2>1. \A i \in 1..n : at1[i] = q[i] /\ q[i] \in Held(q)
    BY <1>1 DEF Held
  <2>2. at1 \in [1..n -> Held(q)] /\ \A i, j \in 1..n : at1[i] = at1[j] => i = j
    BY <2>1
  <2>3. Cardinality(1..n) <= Cardinality(Held(q))
    <3> HIDE DEF at1, n
    <3> QED BY <1>2, <1>4, <2>2, NotMore
  <2> QED BY <1>2, <2>3
<1>6. Cardinality(Held(q)) <= n
  <2>1. \A p \in Held(q) : place[p] \in 1..n /\ q[place[p]] = p
    BY DEF Held
  <2>2. /\ place \in [Held(q) -> 1..n]
        /\ \A p, r \in Held(q) : place[p] = place[r] => p = r
    BY <2>1
  <2>3. Cardinality(Held(q)) <= Cardinality(1..n)
    <3> HIDE DEF place, n
    <3> QED BY <1>2, <1>4, <2>2, NotMore
  <2> QED BY <1>2, <2>3
<1>7. Cardinality(Held(q)) \in Nat
  BY <1>4, FS_CardinalityType
<1> QED BY <1>1, <1>4, <1>5, <1>6, <1>7, DelayAssumption

\* List, for any packets.
ListOf(pk, first) ==
    LET node[i \in Packets] ==
            IF i = 1 THEN first
            ELSE LET p == node[i - 1]
                 IN  IF p = NULL THEN NULL ELSE pk[p].next
        length == Cardinality({i \in Packets : node[i] # NULL})
    IN  [i \in 1..length |-> node[i]]

LEMMA ListIsListOf == \A first : List(first) = ListOf(packet, first)
BY DEF List, ListOf

\* What List follows from the head of a list are the packets of the list.
LEMMA FollowsTheLinks ==
    ASSUME NEW pk, NEW hd, NEW qs, Laid(pk, hd, qs), NEW l \in Lists
    PROVE  ListOf(pk, hd[l]) = qs[l]
<1> DEFINE q == qs[l]
           n == Len(q)
           first == hd[l]
           node[i \in Packets] ==
               IF i = 1 THEN first
               ELSE LET p == node[i - 1]
                    IN  IF p = NULL THEN NULL ELSE pk[p].next
           used == {i \in Packets : node[i] # NULL}
           Is(f) == f = [i \in Packets |->
                           IF i = 1 THEN first
                           ELSE LET p == f[i - 1]
                                IN  IF p = NULL THEN NULL ELSE pk[p].next]
<1>1. /\ q \in Seq(Packets) /\ n \in Nat /\ first = Nth(q, 1)
      /\ \A i \in 1..n : /\ q[i] \in Packets /\ q[i] # NULL
                         /\ pk[q[i]].next = Nth(q, i + 1)
  BY PlacesOf
<1>2. \A i, j \in 1..n : q[i] = q[j] => i = j
  BY DEF Laid, Distinct
<1>3. n <= MAX_DELAYED_PACKETS
  <2> HIDE DEF q
  <2> QED BY <1>1, <1>2, HeldSize
<1>4. ListOf(pk, first) = [i \in 1..Cardinality(used) |-> node[i]]
  BY DEF ListOf
<1> HIDE DEF q, first
<1>5. \E f : Is(f)
  <2> DEFINE g == [i \in Packets |-> Nth(q, i)]
  <2>1. ASSUME NEW i \in Packets
        PROVE  Nth(q, i) = IF i = 1 THEN first
                           ELSE LET p == g[i - 1]
                                IN  IF p = NULL THEN NULL ELSE pk[p].next
    <3>1. CASE i = 1
      BY <1>1, <3>1
    <3>2. CASE i # 1
      <4>1. i - 1 \in Packets /\ i - 1 \in Nat \ {0} /\ (i - 1) + 1 = i
        BY <3>2, DelayAssumption DEF Packets
      <4>2. CASE i - 1 \in 1..n
        BY <1>1, <3>2, <4>1, <4>2 DEF Nth
      <4>3. CASE i - 1 \notin 1..n
        BY <1>1, <3>2, <4>1, <4>3 DEF Nth
      <4> QED BY <4>2, <4>3
    <3> QED BY <3>1, <3>2
  <2>2. Is(g)
    BY <2>1, Zenon
  <2> QED BY <2>2
<1>6. Is(node)
  BY <1>5
<1>7. /\ node[1] = first
      /\ \A i \in Packets : i # 1 =>
            node[i] = IF node[i - 1] = NULL THEN NULL ELSE pk[node[i - 1]].next
  <2> HIDE DEF node
  <2>1. 1 \in Packets
    BY DelayAssumption DEF Packets
  <2> QED BY <1>6, <2>1
<1> HIDE DEF node, Is
<1>8. \A i \in Packets : node[i] = Nth(q, i)
  <2> DEFINE T == {k \in Nat : k + 1 \in Packets => node[k + 1] = Nth(q, k + 1)}
  <2>1. 0 \in T
    BY <1>1, <1>7
  <2>2. ASSUME NEW k \in T PROVE k + 1 \in T
    <3> SUFFICES ASSUME k + 1 + 1 \in Packets
                 PROVE  node[k + 1 + 1] = Nth(q, k + 1 + 1)
      OBVIOUS
    <3>1. k \in Nat /\ k + 1 \in Packets /\ k + 1 + 1 # 1 /\ (k + 1 + 1) - 1 = k + 1
      BY DelayAssumption DEF Packets
    <3>2. node[k + 1] = Nth(q, k + 1)
      BY <3>1
    <3>3. node[k + 1 + 1] = IF node[k + 1] = NULL THEN NULL
                            ELSE pk[node[k + 1]].next
      BY <1>7, <3>1
    <3>4. CASE k + 1 \in 1..n
      BY <1>1, <3>2, <3>3, <3>4 DEF Nth
    <3>5. CASE k + 1 \notin 1..n
      BY <1>1, <3>1, <3>2, <3>3, <3>5 DEF Nth
    <3> QED BY <3>4, <3>5
  <2>3. T = Nat
    <3>1. T \in SUBSET Nat
      OBVIOUS
    <3> HIDE DEF T
    <3> QED BY <2>1, <2>2, <3>1, EveryNumber
  <2>4. \A i \in Packets : i - 1 \in Nat /\ (i - 1) + 1 = i
    BY DelayAssumption DEF Packets
  <2> QED BY <2>3, <2>4
<1>9. used = 1..n
  <2>1. \A i \in 1..n : i \in Packets
    BY <1>1, <1>3, DelayAssumption DEF Packets
  <2>2. \A i \in Packets : node[i] # NULL <=> i \in 1..n
    BY <1>1, <1>8 DEF Nth
  <2> QED BY <2>1, <2>2
<1>10. Cardinality(used) = n
  <2>1. n \in Int /\ 1 \in Int /\ (IF 1 > n THEN 0 ELSE n - 1 + 1) = n
    BY <1>1
  <2> HIDE DEF n, used
  <2> QED BY <1>9, <2>1, FS_Interval
<1>11. ListOf(pk, first) = [i \in 1..n |-> q[i]]
  <2>1. \A i \in 1..n : node[i] = q[i]
    BY <1>8, <1>9 DEF Nth
  <2> HIDE DEF used, n
  <2> QED BY <1>4, <1>10, <2>1
<1>12. q = [i \in 1..n |-> q[i]]
  BY <1>1
<1> QED BY <1>11, <1>12 DEF q, first

-----------------------------------------------------------------------------

Listed(qs) == {p \in Packets : \E l \in Lists : \E i \in 1..Len(qs[l]) : qs[l][i] = p}

\* A slot's list ends at its last_packet.
Ends(qs) ==
    \A s \in Slots :
        qs[s] # <<>> => clients[s].last_packet = qs[s][Len(qs[s])]

Numbered(qs) ==
    \A s \in Slots : \A i \in 1..Len(qs[s]) : packet[qs[s][i]].number > 0

\* Of two packets of a client that wait, the one before is at least as old.
OldestFirst(pk, q) ==
    \A i, j \in 1..Len(q) : i < j => pk[q[i]].age >= pk[q[j]].age
Aged(qs) == \A s \in Slots : InUse(s) => OldestFirst(packet, qs[s])

\* Once the server is past a slot, no packet of it is due.
Drained(qs) ==
    \A s \in Slots : s < at /\ InUse(s) /\ qs[s] # <<>> =>
        packet[qs[s][1]].age < clients[s].delay

Counted(qs) == Cardinality(Listed(qs)) + abandoned = MAX_DELAYED_PACKETS

\* What holds of the lists.
Kept(qs) ==
    /\ Laid(packet, Heads, qs)
    /\ Ends(qs)
    /\ Numbered(qs)
    /\ Aged(qs)
    /\ Drained(qs)
    /\ Counted(qs)

LEMMA SlotsAreLists ==
    /\ \A s \in Slots : s \in Lists /\ s # 0 /\ s \in Nat
    /\ 0 \in Lists
    /\ \A l \in Lists : l # 0 => l \in Slots
BY DelayAssumption DEF Slots, Lists

LEMMA Fields ==
    ASSUME TypeOK
    PROVE  /\ \A p \in Packets : /\ packet[p].age \in 0..MaxDelay
                                 /\ packet[p].number \in 0..MaxArrived
                                 /\ packet[p].next \in Packets \cup {NULL}
           /\ \A s \in Slots : /\ clients[s].delay \in 0..MaxDelay
                               /\ clients[s].packets \in Packets \cup {NULL}
BY Types DEF PacketType, ClientType

\* At first the block is the free list.
AllFree == [l \in Lists |-> IF l = 0 THEN [i \in Packets |-> i] ELSE <<>>]

LEMMA InitKept ==
    ASSUME Init, NEW qs, qs = AllFree
    PROVE  Kept(qs)
<1>1. /\ qs[0] \in Seq(Packets) /\ Len(qs[0]) = MAX_DELAYED_PACKETS
      /\ \A i \in 1..Len(qs[0]) : qs[0][i] = i
  BY SlotsAreLists, DelayAssumption DEF Packets, AllFree
<1>2. /\ qs \in [Lists -> Seq(Packets)]
      /\ \A s \in Slots : qs[s] = <<>> /\ Len(qs[s]) = 0
  <2>1. \A l \in Lists : l # 0 => qs[l] = <<>>
    BY DEF AllFree
  <2>2. <<>> \in Seq(Packets) /\ Len(<<>>) = 0
    OBVIOUS
  <2>3. ASSUME NEW l \in Lists PROVE qs[l] \in Seq(Packets)
    <3>1. l = 0 \/ qs[l] = <<>>
      BY <2>1
    <3> QED BY <1>1, <2>2, <3>1
  <2>4. qs = [l \in Lists |-> qs[l]]
    BY DEF AllFree
  <2>5. \A s \in Slots : qs[s] = <<>>
    BY <2>1, SlotsAreLists
  <2> QED BY <2>2, <2>3, <2>4, <2>5
<1>3. Distinct(qs)
  BY <1>1, <1>2, SlotsAreLists DEF Distinct
<1>4. ASSUME NEW l \in Lists PROVE Linked(packet, Heads[l], qs[l])
  <2>1. CASE l = 0
    <3>1. Heads[0] = 1 /\ Nth(qs[0], 1) = 1
      BY <1>1, SlotsAreLists, DelayAssumption DEF Init, Heads, Nth
    <3>2. \A i \in Packets :
             packet[i].next = IF i = MAX_DELAYED_PACKETS THEN NULL ELSE i + 1
      BY DEF Init, Unused
    <3>3. ASSUME NEW i \in 1..Len(qs[0])
          PROVE  packet[qs[0][i]].next = Nth(qs[0], i + 1)
      <4>1. i \in Packets /\ qs[0][i] = i
        BY <1>1 DEF Packets
      <4>2. Nth(qs[0], i + 1) = IF i = MAX_DELAYED_PACKETS THEN NULL ELSE i + 1
        BY <1>1, <4>1, DelayAssumption DEF Nth, Packets
      <4> QED BY <3>2, <4>1, <4>2
    <3> QED BY <2>1, <3>1, <3>3 DEF Linked
  <2>2. CASE l # 0
    BY <1>2, <2>2, SlotsAreLists DEF Init, Heads, Cleared, Linked, Nth
  <2> QED BY <2>1, <2>2
<1>5. Listed(qs) = Packets
  BY <1>1, SlotsAreLists DEF Listed, Packets
<1>6. Counted(qs)
  BY <1>5, BlockSize, DelayAssumption DEF Init, Counted
<1>7. Ends(qs) /\ Numbered(qs) /\ Aged(qs) /\ Drained(qs)
  <2>1. \A s \in Slots : 1..Len(qs[s]) = {}
    BY <1>2
  <2> QED BY <1>2, <2>1, DelayAssumption
          DEF Ends, Numbered, Aged, OldestFirst, Drained
<1> QED BY <1>2, <1>3, <1>4, <1>6, <1>7 DEF Laid, Kept

\* SV_ReadPackets executes the first packet of a list and frees it.
LEMMA ExecuteDelayedKept ==
    ASSUME TypeOK, NEW qs, Kept(qs), ExecuteDelayed,
           NEW s, s = at, NEW p, p = clients[s].packets,
           NEW rs, rs = FirstToFirst(qs, s, 0, p)
    PROVE  /\ Kept(rs)'
           /\ p \in Packets /\ qs[s] # <<>> /\ p = Head(qs[s])
           /\ \A t \in Slots : \A i \in 1..Len(rs[t]) :
                 packet'[rs[t][i]] = packet[rs[t][i]]
<1>1. /\ s \in Slots /\ p # NULL
      /\ ExecuteClientMessage(s, [clients[s] EXCEPT !.packets = packet[p].next],
                              packet[p].number)
      /\ packet' = [packet EXCEPT ![p] = Unused(free_packets)]
      /\ free_packets' = p
      /\ UNCHANGED <<at, arrived, inputs, abandoned>>
  BY DEF ExecuteDelayed, FreeHead, Drains
<1>2. p \in Packets
  BY <1>1, Fields
<1>3. /\ clients'[s].packets = packet[p].next
      /\ clients'[s].last_packet = clients[s].last_packet
      /\ clients'[s].state = clients[s].state
      /\ \A t \in Slots : t # s => clients'[t] = clients[t]
  <2> DEFINE client == [clients[s] EXCEPT !.packets = packet[p].next]
  <2>1. clients[s] \in ClientType /\ clients \in [Slots -> ClientType]
    BY <1>1, Types
  <2>2. PICK delay : clients' = [clients EXCEPT
                                   ![s] = [client EXCEPT !.delay = delay]]
    BY <1>1 DEF ExecuteClientMessage
  <2>3. clients'[s] = [client EXCEPT !.delay = delay]
    BY <1>1, <2>1, <2>2
  <2>4. \A t \in Slots : t # s => clients'[t] = clients[t]
    BY <2>1, <2>2
  <2> QED BY <2>1, <2>3, <2>4 DEF ClientType
<1>4. /\ packet'[p].next = free_packets
      /\ \A r \in Packets : r # p => packet'[r] = packet[r]
  BY <1>1, <1>2, Types DEF Unused
<1>5. /\ Laid(packet, Heads, qs) /\ Ends(qs) /\ Numbered(qs) /\ Aged(qs)
      /\ Drained(qs) /\ Counted(qs)
  BY DEF Kept
<1>6. /\ Laid(packet', Heads', rs)
      /\ p \in Packets /\ qs[s] # <<>> /\ p = Head(qs[s])
  <2>1. s \in Lists /\ 0 \in Lists /\ s # 0
    BY <1>1, SlotsAreLists
  <2>2. PICK hd : hd = Heads
    OBVIOUS
  <2>3. PICK hd2 : hd2 = Heads'
    OBVIOUS
  <2>4. PICK pk : pk = packet
    OBVIOUS
  <2>5. PICK pk2 : pk2 = packet'
    OBVIOUS
  <2>6. p = hd[s] /\ hd[0] = free_packets
    BY <2>1, <2>2 DEF Heads
  <2>7. /\ hd2[s] = pk[p].next /\ hd2[0] = p
        /\ \A l \in Lists : l # s /\ l # 0 => hd2[l] = hd[l]
    BY <1>1, <1>3, <2>1, <2>2, <2>3, <2>4, SlotsAreLists DEF Heads
  <2>8. /\ pk2[p].next = hd[0]
        /\ \A r \in Packets : r # p => pk2[r].next = pk[r].next
    BY <1>4, <2>4, <2>5, <2>6
  <2>9. Laid(pk, hd, qs)
    BY <1>5, <2>2, <2>4
  <2>10. /\ Laid(pk2, hd2, rs)
         /\ p \in Packets /\ qs[s] # <<>> /\ p = Head(qs[s])
    <3>1. p # NULL /\ rs = FirstToFirst(qs, s, 0, p)
      BY <1>1
    <3> QED BY <2>1, <2>6, <2>7, <2>8, <2>9, <3>1, Popped, SMTT(30)
  <2> QED BY <2>3, <2>5, <2>10
<1>7. /\ qs[s] \in Seq(Packets) /\ Len(qs[s]) \in Nat \ {0}
      /\ Len(rs[s]) = Len(qs[s]) - 1
      /\ \A i \in 1..Len(rs[s]) : rs[s][i] = qs[s][i + 1]
      /\ \A t \in Slots : t # s => rs[t] = qs[t] /\ Len(qs[t]) \in Nat
      /\ qs[0] \in Seq(Packets) /\ rs[0] = <<p>> \o qs[0]
  <2>1. /\ qs[s] \in Seq(Packets) /\ Len(qs[s]) \in Nat \ {0}
        /\ qs[0] \in Seq(Packets)
        /\ \A t \in Slots : Len(qs[t]) \in Nat
    BY <1>1, <1>5, <1>6, PlacesOf, SlotsAreLists
  <2>2. rs[s] = Tail(qs[s])
    BY <1>1, SlotsAreLists DEF FirstToFirst
  <2>3. rs[0] = <<p>> \o qs[0] /\ \A t \in Slots : t # s => rs[t] = qs[t]
    BY <1>1, SlotsAreLists DEF FirstToFirst
  <2>4. /\ Len(rs[s]) = Len(qs[s]) - 1
        /\ \A i \in 1..Len(rs[s]) : rs[s][i] = qs[s][i + 1]
    <3>1. Len(qs[s]) # 0
      BY <2>1
    <3>2. /\ Len(Tail(qs[s])) = Len(qs[s]) - 1
          /\ \A i \in 1..Len(Tail(qs[s])) : Tail(qs[s])[i] = qs[s][i + 1]
      BY <2>1, <3>1, TailIs, Zenon
    <3> QED BY <2>2, <3>2
  <2> QED BY <2>1, <2>3, <2>4
<1>8. rs[0][1] = p /\ Len(rs[0]) = Len(qs[0]) + 1 /\ Len(qs[0]) \in Nat
      /\ \A i \in 1..Len(qs[0]) : rs[0][i + 1] = qs[0][i]
  BY <1>2, <1>7
<1>9. ASSUME NEW t \in Slots, NEW i \in 1..Len(rs[t])
      PROVE  rs[t][i] \in Packets /\ rs[t][i] # p
  <2>1. 1 \in 1..Len(rs[0]) /\ t \in Lists /\ 0 \in Lists /\ t # 0
    BY <1>8, SlotsAreLists
  <2> QED BY <1>6, <1>8, <2>1, PlacesOf DEF Laid, Distinct
<1>10. \A t \in Slots : \A i \in 1..Len(rs[t]) :
          packet'[rs[t][i]] = packet[rs[t][i]]
  BY <1>4, <1>9
<1>11. Ends(rs)'
  <2> SUFFICES ASSUME NEW t \in Slots, rs[t] # <<>>
               PROVE  clients'[t].last_packet = rs[t][Len(rs[t])]
    BY DEF Ends
  <2>1. CASE t = s
    <3>1. /\ rs[s] \in Seq(Packets) /\ Len(rs[s]) \in 1..Len(rs[s])
          /\ Len(rs[s]) + 1 = Len(qs[s]) /\ qs[s] # <<>>
      <4>1. s \in Slots /\ rs[s] # <<>> /\ s \in Lists
        BY <1>1, <2>1, SlotsAreLists
      <4>2. rs[s] \in Seq(Packets)
        BY <1>6, <4>1, PlacesOf
      <4> QED BY <1>7, <4>1, <4>2
    <3>2. clients[s].last_packet = qs[s][Len(qs[s])]
      BY <1>1, <1>5, <3>1 DEF Ends
    <3>3. rs[s][Len(rs[s])] = qs[s][Len(rs[s]) + 1]
      BY <1>7, <3>1
    <3>4. clients'[s].last_packet = qs[s][Len(qs[s])]
      BY <1>3, <3>2
    <3>5. Len(rs[s]) + 1 = Len(qs[s])
      BY <3>1
    <3> QED BY <2>1, <3>3, <3>4, <3>5
  <2>2. CASE t # s
    BY <1>3, <1>5, <1>7, <2>2 DEF Ends
  <2> QED BY <2>1, <2>2
<1>12. Numbered(rs)'
  <2> SUFFICES ASSUME NEW t \in Slots, NEW i \in 1..Len(rs[t])
               PROVE  packet[rs[t][i]].number > 0
    BY <1>10 DEF Numbered
  <2>1. CASE t = s
    <3>1. i + 1 \in 1..Len(qs[s])
      BY <1>7, <2>1
    <3> QED BY <1>1, <1>5, <1>7, <2>1, <3>1 DEF Numbered
  <2>2. CASE t # s
    BY <1>5, <1>7, <2>2 DEF Numbered
  <2> QED BY <2>1, <2>2
<1>13. Aged(rs)'
  <2>1. ASSUME NEW t \in Slots, clients[t].state # "free"
        PROVE  OldestFirst(packet, rs[t])
    <3>1. OldestFirst(packet, qs[t])
      BY <1>5, <2>1 DEF Aged, InUse
    <3>2. CASE t = s
      <4>1. \A i \in 1..Len(rs[t]) :
               i + 1 \in 1..Len(qs[t]) /\ rs[t][i] = qs[t][i + 1]
        BY <1>7, <3>2
      <4>2. ASSUME NEW i \in 1..Len(rs[t]), NEW j \in 1..Len(rs[t]), i < j
            PROVE  packet[rs[t][i]].age >= packet[rs[t][j]].age
        <5>1. i + 1 \in 1..Len(qs[t]) /\ j + 1 \in 1..Len(qs[t]) /\ i + 1 < j + 1
          BY <4>1, <4>2
        <5> QED BY <3>1, <4>1, <5>1 DEF OldestFirst
      <4> QED BY <4>2 DEF OldestFirst
    <3>3. CASE t # s
      BY <1>7, <3>1, <3>3
    <3> QED BY <3>2, <3>3
  <2>2. ASSUME NEW t \in Slots, clients'[t].state # "free"
        PROVE  OldestFirst(packet', rs[t])
    <3>1. OldestFirst(packet, rs[t])
      BY <1>3, <2>1, <2>2
    <3>2. \A i \in 1..Len(rs[t]) : packet'[rs[t][i]].age = packet[rs[t][i]].age
      BY <1>10
    <3> QED BY <3>1, <3>2 DEF OldestFirst
  <2> QED BY <2>2 DEF Aged, InUse
<1>14. Drained(rs)'
  <2> SUFFICES ASSUME NEW t \in Slots, t < at, clients[t].state # "free",
                      rs[t] # <<>>
               PROVE  packet'[rs[t][1]].age < clients'[t].delay
    BY <1>1, <1>3 DEF Drained, InUse
  <2>1. t # s
    BY SlotsAreLists
  <2>2. 1 \in 1..Len(rs[t])
    BY <1>6, PlacesOf, SlotsAreLists
  <2> QED BY <1>3, <1>5, <1>7, <1>10, <2>1, <2>2 DEF Drained, InUse
<1>16. Counted(rs)'
  <2>1. \A r \in Packets :
           (\E l \in Lists : \E i \in 1..Len(qs[l]) : qs[l][i] = r)
           => (\E l \in Lists : \E i \in 1..Len(rs[l]) : rs[l][i] = r)
    <3> SUFFICES ASSUME NEW l \in Lists, NEW i \in 1..Len(qs[l])
                 PROVE  \E m \in Lists : \E j \in 1..Len(rs[m]) :
                           rs[m][j] = qs[l][i]
      OBVIOUS
    <3>1. CASE l = s /\ i = 1
      <4>1. qs[l][i] = rs[0][1] /\ 1 \in 1..Len(rs[0])
        BY <1>6, <1>7, <1>8, <3>1
      <4>2. 0 \in Lists
        BY SlotsAreLists
      <4> QED BY <4>1, <4>2
    <3>2. CASE l = s /\ i # 1
      <4>1. i - 1 \in 1..Len(rs[s]) /\ rs[s][i - 1] = qs[s][i]
        <5>1. i - 1 \in 1..Len(rs[s]) /\ (i - 1) + 1 = i
          BY <1>7, <3>2
        <5> QED BY <1>7, <5>1
      <4> QED BY <3>2, <4>1
    <3>3. CASE l = 0
      <4>1. i + 1 \in 1..Len(rs[0]) /\ rs[0][i + 1] = qs[0][i]
        BY <1>8, <3>3
      <4> QED BY <3>3, <4>1
    <3>4. CASE l # s /\ l # 0
      BY <1>7, <3>4, SlotsAreLists
    <3> QED BY <3>1, <3>2, <3>3, <3>4
  <2>2. \A r \in Packets :
           (\E l \in Lists : \E i \in 1..Len(rs[l]) : rs[l][i] = r)
           => (\E l \in Lists : \E i \in 1..Len(qs[l]) : qs[l][i] = r)
    <3> SUFFICES ASSUME NEW l \in Lists, NEW i \in 1..Len(rs[l])
                 PROVE  \E m \in Lists : \E j \in 1..Len(qs[m]) :
                           qs[m][j] = rs[l][i]
      OBVIOUS
    <3>1. CASE l = s
      <4>1. i + 1 \in 1..Len(qs[s]) /\ rs[s][i] = qs[s][i + 1]
        BY <1>7, <3>1
      <4> QED BY <3>1, <4>1
    <3>2. CASE l = 0 /\ i = 1
      <4>1. rs[0][1] = qs[s][1] /\ 1 \in 1..Len(qs[s])
        BY <1>6, <1>7, <1>8
      <4> QED BY <1>1, <3>2, <4>1, SlotsAreLists
    <3>3. CASE l = 0 /\ i # 1
      <4>1. i - 1 \in 1..Len(qs[0]) /\ rs[0][i] = qs[0][i - 1]
        BY <1>8, <3>3
      <4> QED BY <3>3, <4>1
    <3>4. CASE l # s /\ l # 0
      BY <1>7, <3>4, SlotsAreLists
    <3> QED BY <3>1, <3>2, <3>3, <3>4
  <2>3. Listed(rs) = Listed(qs)
    BY <2>1, <2>2 DEF Listed
  <2> QED BY <1>1, <1>5, <2>3 DEF Counted
<1>17. Kept(rs)'
  BY <1>6, <1>11, <1>12, <1>13, <1>14, <1>16 DEF Kept
<1> QED BY <1>6, <1>10, <1>17

\* The places of the lists of the slots, as the steps use them.
LEMMA KeptPlaces ==
    ASSUME NEW qs, Kept(qs)
    PROVE  \A s \in Slots :
              /\ qs[s] \in Seq(Packets) /\ Len(qs[s]) \in Nat
              /\ qs[s] = <<>> <=> Len(qs[s]) = 0
              /\ clients[s].packets = Nth(qs[s], 1)
              /\ clients[s].packets = NULL <=> qs[s] = <<>>
              /\ \A i \in 1..Len(qs[s]) : qs[s][i] \in Packets
<1>1. Laid(packet, Heads, qs)
  BY DEF Kept
<1>2. ASSUME NEW s \in Slots
      PROVE  /\ qs[s] \in Seq(Packets) /\ Len(qs[s]) \in Nat
             /\ Heads[s] = Nth(qs[s], 1) /\ Heads[s] = clients[s].packets
             /\ \A i \in 1..Len(qs[s]) : qs[s][i] \in Packets /\ qs[s][i] # NULL
  <2>1. s \in Lists /\ s # 0
    BY SlotsAreLists
  <2>2. Heads[s] = clients[s].packets
    BY <2>1 DEF Heads
  <2> QED BY <1>1, <2>1, <2>2, PlacesOf
<1>3. ASSUME NEW s \in Slots
      PROVE  /\ qs[s] = <<>> <=> Len(qs[s]) = 0
             /\ Nth(qs[s], 1) = NULL <=> Len(qs[s]) = 0
  BY <1>2 DEF Nth
<1> QED BY <1>2, <1>3

LEMMA NextSlotKept ==
    ASSUME TypeOK, NEW qs, Kept(qs), NextSlot
    PROVE  Kept(qs)'
<1>1. /\ at \in Slots /\ ~Drains(at) /\ at' = at + 1
      /\ UNCHANGED <<packet, free_packets, clients, abandoned>>
  BY DEF NextSlot
<1>2. Laid(packet, Heads, qs)' /\ Ends(qs)' /\ Numbered(qs)'
      /\ Counted(qs)'
  BY <1>1 DEF Kept, Ends, Numbered, Counted, Heads
<1>3. Aged(qs)'
  BY <1>1 DEF Kept, Aged, InUse
<1>4. Drained(qs)'
  <2> SUFFICES ASSUME NEW s \in Slots, s < at + 1, InUse(s), qs[s] # <<>>
               PROVE  packet[qs[s][1]].age < clients[s].delay
    BY <1>1 DEF Drained, InUse
  <2>1. CASE s < at
    BY <2>1 DEF Kept, Drained
  <2>2. CASE ~(s < at)
    <3>1. s = at
      BY <1>1, <2>2, SlotsAreLists
    <3>2. /\ clients[s].packets # NULL /\ qs[s][1] = clients[s].packets
          /\ qs[s][1] \in Packets
      BY KeptPlaces DEF Nth
    <3>3. ~(packet[qs[s][1]].age >= clients[s].delay)
      BY <1>1, <3>1, <3>2 DEF Drains, Due
    <3> QED BY <3>2, <3>3, Fields, DelayAssumption
  <2> QED BY <2>1, <2>2
<1> QED BY <1>2, <1>3, <1>4 DEF Kept

\* At the socket, a slot in use whose delay is 0 has no packets.
LEMMA NoDelayNoneWaits ==
    ASSUME TypeOK, NEW qs, Kept(qs), NEW s \in Slots,
           at = Socket, InUse(s), clients[s].delay = 0
    PROVE  qs[s] = <<>>
<1> SUFFICES ASSUME qs[s] # <<>> PROVE FALSE
  OBVIOUS
<1>1. s < at
  BY DelayAssumption DEF Socket, Slots
<1>2. packet[qs[s][1]].age < 0
  BY <1>1 DEF Kept, Drained
<1>3. qs[s][1] \in Packets
  BY KeptPlaces
<1> QED BY <1>2, <1>3, Fields

LEMMA ExecuteNewKept ==
    ASSUME TypeOK, NEW qs, Kept(qs), NEW s \in Slots, ExecuteNew(s)
    PROVE  Kept(qs)' /\ qs[s] = <<>>
<1>1. /\ at = Socket /\ InUse(s) /\ clients[s].delay = 0
      /\ ExecuteClientMessage(s, clients[s], arrived[s] + 1)
      /\ UNCHANGED <<packet, free_packets, at, abandoned>>
  BY DEF ExecuteNew, Arrives
<1>2. qs[s] = <<>>
  BY <1>1, NoDelayNoneWaits
<1>3. \A t \in Slots :
         /\ clients'[t].packets = clients[t].packets
         /\ clients'[t].last_packet = clients[t].last_packet
         /\ clients'[t].state = clients[t].state
         /\ t # s => clients'[t] = clients[t]
  <2>1. clients[s] \in ClientType /\ clients \in [Slots -> ClientType]
    BY Types
  <2>2. PICK delay : clients' = [clients EXCEPT
                                   ![s] = [clients[s] EXCEPT !.delay = delay]]
    BY <1>1 DEF ExecuteClientMessage
  <2>3. clients'[s] = [clients[s] EXCEPT !.delay = delay]
    BY <2>1, <2>2
  <2>4. \A t \in Slots : t # s => clients'[t] = clients[t]
    BY <2>1, <2>2
  <2> QED BY <2>1, <2>3, <2>4 DEF ClientType
<1>4. Heads' = Heads
  <2>1. \A l \in Lists : Heads'[l] = Heads[l]
    BY <1>1, <1>3, SlotsAreLists DEF Heads
  <2> QED BY <2>1 DEF Heads
<1>5. Laid(packet, Heads, qs)' /\ Numbered(qs)' /\ Counted(qs)'
  BY <1>1, <1>4 DEF Kept, Numbered, Counted
<1>6. Ends(qs)'
  BY <1>1, <1>3 DEF Kept, Ends
<1>7. Aged(qs)'
  BY <1>1, <1>3 DEF Kept, Aged, InUse
<1>8. Drained(qs)'
  BY <1>1, <1>2, <1>3 DEF Kept, Drained, InUse
<1> QED BY <1>2, <1>5, <1>6, <1>7, <1>8 DEF Kept

\* A packet that arrives waits at the end of the list of its slot.
LEMMA DelayNewKept ==
    ASSUME TypeOK, NEW qs, Kept(qs), NEW s \in Slots, DelayNew(s),
           NEW p, p = free_packets,
           NEW rs, rs = FirstToLast(qs, 0, s, p)
    PROVE  /\ Kept(rs)'
           /\ packet'[p].number = arrived[s] + 1
           /\ \A t \in Slots : \A i \in 1..Len(qs[t]) :
                 /\ packet'[qs[t][i]].age = packet[qs[t][i]].age
                 /\ packet'[qs[t][i]].number = packet[qs[t][i]].number
<1> DEFINE last == clients[s].last_packet
           empty == clients[s].packets = NULL
           new == [next |-> NULL, age |-> 0, number |-> arrived'[s]]
           n == Len(qs[s])
<1>0. /\ packet' = [q \in Packets |->
                      IF q = p THEN new
                      ELSE IF q = last /\ ~empty
                      THEN [packet[q] EXCEPT !.next = p] ELSE packet[q]]
      /\ clients' = [clients EXCEPT
                       ![s].packets = IF empty THEN p ELSE @,
                       ![s].last_packet = p]
  BY DEF DelayNew
<1>1. /\ at = Socket /\ InUse(s)
      /\ arrived' = [arrived EXCEPT ![s] = @ + 1]
      /\ clients[s].delay > 0 /\ p # NULL /\ p \in Packets
      /\ free_packets' = packet[p].next
      /\ UNCHANGED <<paused, at, executed, abandoned>>
  BY Types DEF DelayNew, Arrives, NextFree
<1>2. arrived'[s] = arrived[s] + 1 /\ arrived[s] + 1 > 0
  BY <1>1, DelayAssumption DEF TypeOK
<1>3. /\ packet'[p].next = NULL /\ packet'[p].age = 0
      /\ packet'[p].number = arrived[s] + 1
  BY <1>1, <1>2, <1>0
<1>4. ASSUME NEW r \in Packets, r # p
      PROVE  /\ packet'[r].next = IF r = last /\ ~empty THEN p
                                  ELSE packet[r].next
             /\ packet'[r].age = packet[r].age
             /\ packet'[r].number = packet[r].number
  <2>1. packet'[r] = IF r = last /\ ~empty THEN [packet[r] EXCEPT !.next = p]
                     ELSE packet[r]
    BY <1>1, <1>4, <1>0
  <2>2. packet[r] \in PacketType
    BY Types
  <2> QED BY <2>1, <2>2 DEF PacketType
<1>5. /\ clients'[s].packets = IF empty THEN p ELSE clients[s].packets
      /\ clients'[s].last_packet = p
      /\ clients'[s].state = clients[s].state
      /\ clients'[s].delay = clients[s].delay
      /\ \A t \in Slots : t # s => clients'[t] = clients[t]
  <2> DEFINE c == clients[s]
             first == IF empty THEN p ELSE c.packets
             d == [[c EXCEPT !.packets = first] EXCEPT !.last_packet = p]
  <2>1. clients' = [clients EXCEPT ![s] = d]
    BY <1>0, Types
  <2>2. c \in ClientType
    BY Types
  <2> HIDE DEF c, first
  <2>3. /\ d.packets = first /\ d.last_packet = p
        /\ d.state = c.state /\ d.delay = c.delay
    BY <2>2 DEF ClientType
  <2> HIDE DEF d
  <2> QED BY <2>1, <2>3, Types DEF first, c
<1> HIDE DEF new
<1>6. /\ Laid(packet, Heads, qs) /\ Ends(qs) /\ Numbered(qs) /\ Aged(qs)
      /\ Drained(qs) /\ Counted(qs)
  BY DEF Kept
<1>7. s \in Lists /\ 0 \in Lists /\ s # 0
  BY SlotsAreLists
<1>8. /\ Laid(packet', Heads', rs)
      /\ qs[0] # <<>> /\ p = Head(qs[0])
  <2>1. PICK hd : hd = Heads
    OBVIOUS
  <2>2. PICK hd2 : hd2 = Heads'
    OBVIOUS
  <2>3. PICK pk : pk = packet
    OBVIOUS
  <2>4. PICK pk2 : pk2 = packet'
    OBVIOUS
  <2>5. ~empty => last = qs[s][Len(qs[s])]
    BY <1>6, KeptPlaces DEF Ends
  <2>6. p = hd[0] /\ hd[s] = clients[s].packets /\ (empty <=> hd[s] = NULL)
    BY <1>7, <2>1 DEF Heads
  <2>7. /\ hd2[0] = pk[p].next
        /\ hd2[s] = IF hd[s] = NULL THEN p ELSE hd[s]
        /\ \A l \in Lists : l # 0 /\ l # s => hd2[l] = hd[l]
    <3>1. /\ hd2[0] = free_packets' /\ hd2[s] = clients'[s].packets
          /\ hd[s] = clients[s].packets
      BY <1>7, <2>1, <2>2 DEF Heads
    <3>2. ASSUME NEW l \in Lists, l # 0, l # s
          PROVE  hd2[l] = hd[l]
      BY <1>5, <2>1, <2>2, <3>2, SlotsAreLists DEF Heads
    <3> QED BY <1>1, <1>5, <2>3, <3>1, <3>2
  <2>8. /\ pk2[p].next = NULL
        /\ \A r \in Packets : r # p =>
              pk2[r].next = IF hd[s] # NULL /\ r = qs[s][Len(qs[s])]
                            THEN p ELSE pk[r].next
    BY <1>3, <1>4, <2>3, <2>4, <2>5, <2>6
  <2>9. Laid(pk, hd, qs)
    BY <1>6, <2>1, <2>3
  <2>10. /\ Laid(pk2, hd2, rs)
         /\ p \in Packets /\ qs[0] # <<>> /\ p = Head(qs[0])
    <3>1. MovesTo(pk, hd, qs, pk2, hd2, 0, s, p)
      BY <1>1, <2>6, <2>7, <2>8, Zenon DEF MovesTo
    <3> QED BY <1>7, <2>9, <3>1, Moved
  <2> QED BY <2>2, <2>4, <2>10
<1>9. /\ qs[0] \in Seq(Packets) /\ Len(qs[0]) \in Nat \ {0}
      /\ qs[0][1] = p
      /\ qs[s] \in Seq(Packets) /\ n \in Nat
  <2>1. qs[0] \in Seq(Packets) /\ qs[s] \in Seq(Packets)
    BY <1>6, <1>7, PlacesOf
  <2> QED BY <1>8, <2>1
<1>10. /\ rs[0] = Tail(qs[0]) /\ rs[s] = Append(qs[s], p)
       /\ \A l \in Lists : l # 0 /\ l # s => rs[l] = qs[l]
  BY <1>7 DEF FirstToLast
<1>11. /\ Len(rs[0]) = Len(qs[0]) - 1
       /\ \A i \in 1..Len(rs[0]) : rs[0][i] = qs[0][i + 1]
  <2>1. Len(qs[0]) # 0
    BY <1>9
  <2>2. /\ Len(Tail(qs[0])) = Len(qs[0]) - 1
        /\ \A i \in 1..Len(Tail(qs[0])) : Tail(qs[0])[i] = qs[0][i + 1]
    BY <1>9, <2>1, TailIs, Zenon
  <2> QED BY <1>10, <2>2
<1>12. /\ Len(rs[s]) = n + 1 /\ rs[s][n + 1] = p
       /\ \A i \in 1..n : rs[s][i] = qs[s][i]
  BY <1>1, <1>9, <1>10
<1>13. ASSUME NEW t \in Slots, NEW i \in 1..Len(qs[t])
       PROVE  /\ packet'[qs[t][i]].age = packet[qs[t][i]].age
              /\ packet'[qs[t][i]].number = packet[qs[t][i]].number
  <2>1. 1 \in 1..Len(qs[0]) /\ t \in Lists /\ t # 0
    BY <1>9, SlotsAreLists
  <2>2. qs[t][i] # p /\ qs[t][i] \in Packets
    BY <1>6, <1>7, <1>9, <2>1, PlacesOf DEF Laid, Distinct
  <2> QED BY <1>4, <2>2
<1>14. Ends(rs)'
  <2> SUFFICES ASSUME NEW t \in Slots, rs[t] # <<>>
               PROVE  clients'[t].last_packet = rs[t][Len(rs[t])]
    BY DEF Ends
  <2>1. CASE t = s
    BY <1>5, <1>12, <2>1
  <2>2. CASE t # s
    <3>1. rs[t] = qs[t]
      BY <1>10, <2>2, SlotsAreLists
    <3> QED BY <1>5, <1>6, <2>2, <3>1 DEF Ends
  <2> QED BY <2>1, <2>2
<1>15. Numbered(rs)'
  <2> SUFFICES ASSUME NEW t \in Slots, NEW i \in 1..Len(rs[t])
               PROVE  packet'[rs[t][i]].number > 0
    BY DEF Numbered
  <2>1. CASE t = s /\ i = n + 1
    BY <1>2, <1>3, <1>12, <2>1
  <2>2. CASE ~(t = s /\ i = n + 1)
    <3>1. i \in 1..Len(qs[t]) /\ rs[t][i] = qs[t][i]
      <4>1. CASE t = s
        BY <1>9, <1>12, <2>2, <4>1
      <4>2. CASE t # s
        BY <1>10, <4>2, SlotsAreLists
      <4> QED BY <4>1, <4>2
    <3> QED BY <1>6, <1>13, <3>1 DEF Numbered
  <2> QED BY <2>1, <2>2
<1>16. Aged(rs)'
  <2>1. ASSUME NEW t \in Slots, clients'[t].state # "free"
        PROVE  OldestFirst(packet', rs[t])
    <3>1. InUse(t)
      BY <1>5, <2>1 DEF InUse
    <3>2. OldestFirst(packet, qs[t])
      BY <1>6, <3>1 DEF Aged
    <3>3. \A i \in 1..Len(qs[t]) : packet'[qs[t][i]].age = packet[qs[t][i]].age
      BY <1>13
    <3>4. OldestFirst(packet', qs[t])
      BY <3>2, <3>3 DEF OldestFirst
    <3>5. CASE t = s
      <4>1. ASSUME NEW i \in 1..Len(rs[s]), NEW j \in 1..Len(rs[s]), i < j
            PROVE  packet'[rs[s][i]].age >= packet'[rs[s][j]].age
        <5>1. i \in 1..n /\ rs[s][i] = qs[s][i]
          BY <1>9, <1>12, <4>1
        <5>2. CASE j \in 1..n
          <6>1. rs[s][j] = qs[s][j]
            BY <1>12, <5>2
          <6> QED BY <3>4, <3>5, <4>1, <5>1, <5>2, <6>1 DEF OldestFirst
        <5>3. CASE j = n + 1
          <6>1. packet'[rs[s][j]].age = 0
            BY <1>3, <1>12, <5>3
          <6>2. packet'[rs[s][i]].age = packet[qs[s][i]].age
            BY <3>3, <3>5, <5>1
          <6>3. packet[qs[s][i]].age \in Nat
            BY <5>1, KeptPlaces, Fields, DelayAssumption
          <6> QED BY <6>1, <6>2, <6>3
        <5>4. j \in 1..n \/ j = n + 1
          BY <1>9, <1>12
        <5> QED BY <5>2, <5>3, <5>4
      <4> QED BY <3>5, <4>1 DEF OldestFirst
    <3>6. CASE t # s
      BY <1>1, <1>10, <3>4, <3>6, SlotsAreLists
    <3> QED BY <3>5, <3>6
  <2> QED BY <2>1 DEF Aged, InUse
<1>17. Drained(rs)'
  <2>1. ASSUME NEW t \in Slots, t < at, clients'[t].state # "free", rs[t] # <<>>
        PROVE  packet'[rs[t][1]].age < clients'[t].delay
    <3>1. clients'[t].delay = clients[t].delay /\ InUse(t)
      BY <1>5, <2>1 DEF InUse
    <3>2. CASE qs[t] = <<>>
      <4>1. t = s
        BY <1>10, <2>1, <3>2, SlotsAreLists
      <4>2. n = 0
        BY <3>2, <4>1
      <4>3. rs[t][1] = p
        BY <1>12, <4>1, <4>2
      <4> QED BY <1>1, <1>3, <3>1, <4>1, <4>3
    <3>3. CASE qs[t] # <<>>
      <4>1. 1 \in 1..Len(qs[t])
        BY <3>3, KeptPlaces
      <4>2. rs[t][1] = qs[t][1]
        BY <1>10, <1>12, <4>1, SlotsAreLists
      <4>3. packet[qs[t][1]].age < clients[t].delay
        BY <1>6, <2>1, <3>1, <3>3 DEF Drained
      <4> QED BY <1>13, <3>1, <4>1, <4>2, <4>3
    <3> QED BY <3>2, <3>3
  <2> QED BY <1>1, <2>1 DEF Drained, InUse
<1>19. Counted(rs)'
  <2>1. ASSUME NEW l \in Lists, NEW i \in 1..Len(qs[l])
        PROVE  \E m \in Lists : \E j \in 1..Len(rs[m]) : rs[m][j] = qs[l][i]
    <3>1. CASE l = 0 /\ i = 1
      <4>1. n + 1 \in 1..Len(rs[s]) /\ rs[s][n + 1] = qs[l][i]
        BY <1>9, <1>12, <3>1
      <4> QED BY <1>7, <4>1
    <3>2. CASE l = 0 /\ i # 1
      <4>1. i - 1 \in 1..Len(rs[0]) /\ (i - 1) + 1 = i
        BY <1>9, <1>11, <3>2
      <4>2. rs[0][i - 1] = qs[0][i]
        BY <1>11, <4>1
      <4> QED BY <3>2, <4>1, <4>2
    <3>3. CASE l = s
      <4>1. i \in 1..Len(rs[s]) /\ rs[s][i] = qs[s][i]
        BY <1>9, <1>12, <3>3
      <4> QED BY <3>3, <4>1
    <3>4. CASE l # s /\ l # 0
      BY <1>10, <3>4
    <3> QED BY <3>1, <3>2, <3>3, <3>4
  <2>2. ASSUME NEW l \in Lists, NEW i \in 1..Len(rs[l])
        PROVE  \E m \in Lists : \E j \in 1..Len(qs[m]) : qs[m][j] = rs[l][i]
    <3>1. CASE l = 0
      <4>1. i + 1 \in 1..Len(qs[0]) /\ rs[0][i] = qs[0][i + 1]
        BY <1>9, <1>11, <3>1
      <4> QED BY <3>1, <4>1
    <3>2. CASE l = s /\ i = n + 1
      <4>1. rs[l][i] = qs[0][1] /\ 1 \in 1..Len(qs[0])
        BY <1>9, <1>12, <3>2
      <4> QED BY <1>7, <4>1
    <3>3. CASE l = s /\ i # n + 1
      <4>1. i \in 1..n /\ rs[s][i] = qs[s][i]
        BY <1>9, <1>12, <3>3
      <4> QED BY <3>3, <4>1
    <3>4. CASE l # s /\ l # 0
      BY <1>10, <3>4
    <3> QED BY <3>1, <3>2, <3>3, <3>4
  <2>3. Listed(rs) = Listed(qs)
    BY <2>1, <2>2 DEF Listed
  <2> QED BY <1>1, <1>6, <2>3 DEF Counted
<1>20. Kept(rs)'
  BY <1>8, <1>14, <1>15, <1>16, <1>17, <1>19 DEF Kept
<1> QED BY <1>3, <1>13, <1>20

\* Between frames SV_CheckTimeouts frees slots, and what waits gets older.
LEMMA FrameKept ==
    ASSUME TypeOK, NEW qs, Kept(qs), at = Socket, NEW n, NextFrame(n)
    PROVE  /\ Kept(qs)'
           /\ \A p \in Packets : packet'[p].number = packet[p].number
<1>1. PICK gone \in SUBSET Slots :
         clients' = [s \in Slots |->
                       IF s \in gone
                       THEN [clients[s] EXCEPT !.state = "free"]
                       ELSE clients[s]]
  BY DEF NextFrame
<1>2. /\ packet' = [p \in Packets |->
                      [packet[p] EXCEPT !.age = Older(packet[p])]]
      /\ at' = 1
      /\ UNCHANGED <<free_packets, abandoned>>
  BY DEF NextFrame
<1>3. ASSUME NEW p \in Packets
      PROVE  /\ packet'[p].next = packet[p].next
             /\ packet'[p].number = packet[p].number
             /\ packet'[p].age = Older(packet[p])
  <2>1. packet'[p] = [packet[p] EXCEPT !.age = Older(packet[p])]
    BY <1>2
  <2>2. packet[p] \in PacketType
    BY Types
  <2> QED BY <2>1, <2>2 DEF PacketType
<1>4. ASSUME NEW s \in Slots
      PROVE  /\ clients'[s].packets = clients[s].packets
             /\ clients'[s].last_packet = clients[s].last_packet
             /\ clients'[s].state # "free" => InUse(s)
  <2>1. clients'[s] = IF s \in gone THEN [clients[s] EXCEPT !.state = "free"]
                      ELSE clients[s]
    BY <1>1
  <2>2. clients[s] \in ClientType
    BY Types
  <2> QED BY <2>1, <2>2 DEF ClientType, InUse
<1>5. /\ Laid(packet, Heads, qs) /\ Ends(qs) /\ Numbered(qs) /\ Aged(qs)
      /\ Drained(qs) /\ Counted(qs)
  BY DEF Kept
<1>6. Heads' = Heads
  <2>1. \A l \in Lists : Heads'[l] = Heads[l]
    BY <1>2, <1>4, SlotsAreLists DEF Heads
  <2> QED BY <2>1 DEF Heads
<1>7. Laid(packet', Heads', qs)
  <2>1. PICK hd, pk, pk2 : hd = Heads /\ pk = packet /\ pk2 = packet'
    OBVIOUS
  <2>2. Laid(pk2, hd, qs)
    BY <1>3, <1>5, <2>1, SameLinks
  <2> QED BY <1>6, <2>1, <2>2
<1>8. Ends(qs)'
  BY <1>4, <1>5 DEF Ends
<1>9. Numbered(qs)'
  <2>1. ASSUME NEW s \in Slots, NEW i \in 1..Len(qs[s])
        PROVE  packet'[qs[s][i]].number > 0
    <3>1. qs[s][i] \in Packets /\ packet[qs[s][i]].number > 0
      BY <1>5, KeptPlaces DEF Numbered
    <3> QED BY <1>3, <3>1
  <2> QED BY <2>1 DEF Numbered
<1>10. Aged(qs)'
  <2>1. ASSUME NEW s \in Slots, clients'[s].state # "free"
        PROVE  OldestFirst(packet', qs[s])
    <3>1. OldestFirst(packet, qs[s])
      BY <1>4, <1>5, <2>1 DEF Aged
    <3>2. ASSUME NEW i \in 1..Len(qs[s]), NEW j \in 1..Len(qs[s]), i < j
          PROVE  packet'[qs[s][i]].age >= packet'[qs[s][j]].age
      <4> DEFINE x == packet[qs[s][i]].age
                 y == packet[qs[s][j]].age
      <4>1. /\ qs[s][i] \in Packets /\ packet[qs[s][i]].number > 0
            /\ qs[s][j] \in Packets /\ packet[qs[s][j]].number > 0
        BY <1>5, KeptPlaces DEF Numbered
      <4>2. x \in 0..MaxDelay /\ y \in 0..MaxDelay /\ x >= y
        BY <3>1, <3>2, <4>1, Fields DEF OldestFirst
      <4>3. /\ packet'[qs[s][i]].age = IF x < MaxDelay /\ ~paused THEN x + 1 ELSE x
            /\ packet'[qs[s][j]].age = IF y < MaxDelay /\ ~paused THEN y + 1 ELSE y
        BY <1>3, <4>1 DEF Older
      <4> HIDE DEF x, y
      <4> QED BY <4>2, <4>3, DelayAssumption
    <3> QED BY <3>2 DEF OldestFirst
  <2> QED BY <2>1 DEF Aged, InUse
<1>11. Drained(qs)'
  BY <1>2, DelayAssumption DEF Drained, Slots
<1>12. Counted(qs)'
  BY <1>2, <1>5 DEF Counted
<1> QED BY <1>3, <1>7, <1>8, <1>9, <1>10, <1>11, <1>12 DEF Kept

\* The lists as the code follows them.
LEMMA QueueIs ==
    ASSUME NEW qs, Kept(qs)
    PROVE  /\ List(free_packets) = qs[0]
           /\ \A s \in Slots : Queue(s) = qs[s]
<1>1. PICK hd, pk : hd = Heads /\ pk = packet
  OBVIOUS
<1>2. Laid(pk, hd, qs)
  BY <1>1 DEF Kept
<1>3. \A l \in Lists : List(hd[l]) = qs[l]
  BY <1>1, <1>2, FollowsTheLinks, ListIsListOf
<1>4. hd[0] = free_packets /\ \A s \in Slots : hd[s] = clients[s].packets
  BY <1>1, SlotsAreLists DEF Heads
<1> QED BY <1>3, <1>4, SlotsAreLists DEF Queue

LEMMA QueueIsNext ==
    ASSUME NEW qs, Kept(qs)'
    PROVE  \A s \in Slots : Queue(s)' = qs[s]
<1>1. PICK hd, pk : hd = Heads' /\ pk = packet'
  OBVIOUS
<1>2. Laid(pk, hd, qs)
  BY <1>1 DEF Kept
<1>3. ASSUME NEW s \in Slots PROVE Queue(s)' = qs[s]
  <2>1. hd[s] = clients'[s].packets /\ s \in Lists
    BY <1>1, SlotsAreLists DEF Heads
  <2>2. ListOf(pk, hd[s]) = qs[s]
    BY <1>2, <2>1, FollowsTheLinks
  <2>3. Queue(s)' = ListOf(packet', clients'[s].packets)
    BY DEF Queue, List, ListOf
  <2> QED BY <1>1, <2>1, <2>2, <2>3
<1> QED BY <1>3

\* The packets of a slot that is cleared are not on a list again.
LEMMA ConnectKept ==
    ASSUME TypeOK, NEW qs, Kept(qs), NEW old, Connect(old)
    PROVE  \E new \in Slots :
              /\ Kept(Without(qs, new))'
              /\ arrived' = [arrived EXCEPT ![new] = 0]
              /\ executed' = [executed EXCEPT ![new] = 0]
              /\ \A t \in Slots : t # new => \A i \in 1..Len(qs[t]) :
                    packet'[qs[t][i]] = packet[qs[t][i]]
<1>1. PICK new \in Slots :
         /\ clients' = [s \in Slots |->
                          IF s = new THEN Cleared
                          ELSE IF s \in old
                          THEN [clients[s] EXCEPT !.state = "free"]
                          ELSE clients[s]]
         /\ abandoned' = abandoned + Len(Queue(new))
         /\ arrived' = [arrived EXCEPT ![new] = 0]
         /\ executed' = [executed EXCEPT ![new] = 0]
         /\ packet' = [p \in Packets |->
                          IF p \in Members(clients[new].packets)
                          THEN Unused(NULL) ELSE packet[p]]
         /\ UNCHANGED <<free_packets, paused, at>>
  BY Zenon DEF Connect
<1> DEFINE q == qs[new]
<1>2. Queue(new) = q
  BY QueueIs
<1>3. q \in Seq(Packets) /\ Len(q) \in Nat /\ new \in Lists /\ new # 0
  BY KeptPlaces, SlotsAreLists
<1>4. \A p \in Packets : p \in Members(clients[new].packets) <=> p \in Held(q)
  <2>1. List(clients[new].packets) = q
    BY <1>2 DEF Queue
  <2>2. Members(clients[new].packets) = {q[i] : i \in 1..Len(q)}
    BY <1>3, <2>1 DEF Members
  <2> QED BY <2>2 DEF Held
<1>5. PICK rs : rs = Without(qs, new)
  OBVIOUS
<1>6. rs[new] = <<>> /\ \A l \in Lists : l # new => rs[l] = qs[l]
  BY <1>3, <1>5 DEF Without
<1>7. /\ Laid(packet, Heads, qs) /\ Ends(qs) /\ Numbered(qs) /\ Aged(qs)
      /\ Drained(qs) /\ Counted(qs)
  BY DEF Kept
<1>8. \A p \in Packets : p \notin Held(q) => packet'[p] = packet[p]
  BY <1>1, <1>4
<1>9. ASSUME NEW l \in Lists, l # new, NEW i \in 1..Len(qs[l])
      PROVE  qs[l][i] \in Packets /\ packet'[qs[l][i]] = packet[qs[l][i]]
  <2>1. qs[l][i] \in Packets
    BY <1>7, PlacesOf
  <2>2. \A j \in 1..Len(q) : q[j] # qs[l][i]
    BY <1>3, <1>7, <1>9 DEF Laid, Distinct
  <2>3. qs[l][i] \notin Held(q)
    BY <2>2 DEF Held
  <2> QED BY <1>8, <2>1, <2>3
<1>10. ASSUME NEW t \in Slots, t # new
       PROVE  /\ clients'[t].packets = clients[t].packets
              /\ clients'[t].last_packet = clients[t].last_packet
              /\ clients'[t].delay = clients[t].delay
              /\ clients'[t].state # "free" => InUse(t)
              /\ rs[t] = qs[t]
  <2>1. clients'[t] = IF t \in old THEN [clients[t] EXCEPT !.state = "free"]
                      ELSE clients[t]
    BY <1>1, <1>10
  <2>2. clients[t] \in ClientType
    BY Types
  <2>3. rs[t] = qs[t]
    BY <1>6, <1>10, SlotsAreLists
  <2> QED BY <2>1, <2>2, <2>3 DEF ClientType, InUse
<1>11. clients'[new].packets = NULL
  BY <1>1 DEF Cleared
<1>12. Laid(packet', Heads', rs)
  <2>1. PICK hd, hd2, pk, pk2 : /\ hd = Heads /\ hd2 = Heads'
                                /\ pk = packet /\ pk2 = packet'
    OBVIOUS
  <2>2. hd2[new] = NULL
    BY <1>3, <1>11, <2>1 DEF Heads
  <2>3. ASSUME NEW l \in Lists, l # new PROVE hd2[l] = hd[l]
    BY <1>1, <1>10, <2>1, <2>3, SlotsAreLists DEF Heads
  <2>4. ASSUME NEW r \in Packets, \A i \in 1..Len(qs[new]) : r # qs[new][i]
        PROVE  pk2[r].next = pk[r].next
    <3>1. r \notin Held(q)
      BY <2>4 DEF Held
    <3> QED BY <1>8, <2>1, <3>1
  <2>5. Laid(pk, hd, qs)
    BY <1>7, <2>1
  <2>6. Laid(pk2, hd2, rs)
    BY <1>3, <1>5, <2>2, <2>3, <2>4, <2>5, LetGo
  <2> QED BY <2>1, <2>6
<1>13. 1..Len(rs[new]) = {} /\ Len(rs[new]) = 0
  BY <1>6
<1>14. Ends(rs)'
  <2>1. ASSUME NEW t \in Slots, rs[t] # <<>>
        PROVE  clients'[t].last_packet = rs[t][Len(rs[t])]
    <3>1. t # new
      BY <1>6, <2>1
    <3> QED BY <1>7, <1>10, <2>1, <3>1 DEF Ends
  <2> QED BY <2>1 DEF Ends
<1>15. Numbered(rs)'
  <2>1. ASSUME NEW t \in Slots, NEW i \in 1..Len(rs[t])
        PROVE  packet'[rs[t][i]].number > 0
    <3>1. t # new
      BY <1>13
    <3>2. rs[t] = qs[t] /\ t \in Lists
      BY <1>10, <3>1, SlotsAreLists
    <3>3. packet'[qs[t][i]] = packet[qs[t][i]]
      BY <1>9, <3>1, <3>2
    <3> QED BY <1>7, <3>2, <3>3 DEF Numbered
  <2> QED BY <2>1 DEF Numbered
<1>16. Aged(rs)'
  <2>1. ASSUME NEW t \in Slots, clients'[t].state # "free"
        PROVE  OldestFirst(packet', rs[t])
    <3>1. CASE t = new
      BY <1>13, <3>1 DEF OldestFirst
    <3>2. CASE t # new
      <4>1. rs[t] = qs[t] /\ t \in Lists /\ InUse(t)
        BY <1>10, <2>1, <3>2, SlotsAreLists
      <4>2. \A i \in 1..Len(qs[t]) : packet'[qs[t][i]] = packet[qs[t][i]]
        BY <1>9, <3>2, <4>1
      <4>3. OldestFirst(packet, qs[t])
        BY <1>7, <4>1 DEF Aged
      <4> QED BY <1>1, <4>1, <4>2, <4>3 DEF OldestFirst
    <3> QED BY <3>1, <3>2
  <2> QED BY <2>1 DEF Aged, InUse
<1>17. Drained(rs)'
  <2>1. ASSUME NEW t \in Slots, t < at, clients'[t].state # "free", rs[t] # <<>>
        PROVE  packet'[rs[t][1]].age < clients'[t].delay
    <3>1. t # new
      BY <1>6, <2>1
    <3>2. /\ rs[t] = qs[t] /\ t \in Lists /\ InUse(t)
          /\ clients'[t].delay = clients[t].delay
      BY <1>10, <2>1, <3>1, SlotsAreLists
    <3>3. 1 \in 1..Len(qs[t])
      BY <2>1, <3>2, KeptPlaces
    <3>4. packet'[qs[t][1]] = packet[qs[t][1]]
      BY <1>9, <3>1, <3>2, <3>3
    <3> QED BY <1>7, <2>1, <3>2, <3>4 DEF Drained
  <2> QED BY <1>1, <2>1 DEF Drained, InUse
<1>19. Counted(rs)'
  <2>1. Listed(rs) = Listed(qs) \ Held(q)
    <3>1. ASSUME NEW p \in Listed(rs) PROVE p \in Listed(qs) /\ p \notin Held(q)
      <4>1. PICK l \in Lists : \E i \in 1..Len(rs[l]) : rs[l][i] = p
        BY DEF Listed
      <4>2. PICK i \in 1..Len(rs[l]) : rs[l][i] = p
        BY <4>1
      <4>3. l # new
        BY <1>13
      <4>4. i \in 1..Len(qs[l]) /\ qs[l][i] = p
        BY <1>6, <4>2, <4>3
      <4>5. \A j \in 1..Len(q) : q[j] # p
        BY <1>3, <1>7, <4>3, <4>4 DEF Laid, Distinct
      <4> QED BY <4>4, <4>5 DEF Listed, Held
    <3>2. ASSUME NEW p \in Listed(qs), p \notin Held(q) PROVE p \in Listed(rs)
      <4>1. PICK l \in Lists : \E i \in 1..Len(qs[l]) : qs[l][i] = p
        BY DEF Listed
      <4>2. l # new
        BY <3>2, <4>1 DEF Listed, Held
      <4> QED BY <1>6, <4>1, <4>2 DEF Listed
    <3> QED BY <3>1, <3>2
  <2>2. Held(q) \subseteq Listed(qs) /\ Listed(qs) \subseteq Packets
    BY <1>3 DEF Held, Listed
  <2>3. IsFiniteSet(Listed(qs))
    BY <2>2, BlockSize, FS_Subset
  <2>4. Cardinality(Held(q)) = Len(q)
    <3>1. \A i, j \in 1..Len(q) : q[i] = q[j] => i = j
      BY <1>3, <1>7 DEF Laid, Distinct
    <3> HIDE DEF q
    <3> QED BY <1>3, <3>1, HeldSize
  <2>5. Cardinality(Listed(rs)) = Cardinality(Listed(qs)) - Len(q)
    <3>1. Listed(qs) \cap Held(q) = Held(q)
      BY <2>2
    <3>2. /\ Cardinality(Listed(qs) \ Held(q))
             = Cardinality(Listed(qs)) - Cardinality(Listed(qs) \cap Held(q))
      BY <2>3, FS_Difference
    <3> QED BY <2>1, <2>4, <3>1, <3>2
  <2>6. Cardinality(Listed(qs)) \in Nat /\ abandoned \in Nat
    BY <2>3, FS_CardinalityType DEF TypeOK
  <2>7. abandoned' = abandoned + Len(q)
    BY <1>1, <1>2
  <2> HIDE DEF q
  <2>8. Cardinality(Listed(rs)) + abandoned' = MAX_DELAYED_PACKETS
    BY <1>3, <1>7, <2>5, <2>6, <2>7 DEF Counted
  <2> QED BY <2>8 DEF Counted
<1>20. Kept(rs)'
  BY <1>12, <1>14, <1>15, <1>16, <1>17, <1>19 DEF Kept
<1>21. Kept(Without(qs, new))'
  BY <1>5, <1>20
<1> QED BY <1>1, <1>9, <1>21, SlotsAreLists

\* The lists stay what Kept says of them.
ListsKept == \E qs : Kept(qs)

LEMMA KeptStays ==
    ASSUME TypeOK, NEW qs, Kept(qs), [Next]_vars
    PROVE  \E rs : Kept(rs)'
<1>1. CASE ExecuteDelayed
  <2>1. PICK s, p : s = at /\ p = clients[s].packets
    OBVIOUS
  <2>2. PICK rs : rs = FirstToFirst(qs, s, 0, p)
    OBVIOUS
  <2> QED BY <1>1, <2>1, <2>2, ExecuteDelayedKept
<1>2. CASE NextSlot
  BY <1>2, NextSlotKept
<1>3. CASE EndFrame
  BY <1>3, FrameKept DEF EndFrame
<1>4. ASSUME NEW s \in Slots, ExecuteNew(s) PROVE \E rs : Kept(rs)'
  BY <1>4, ExecuteNewKept
<1>5. ASSUME NEW s \in Slots, DelayNew(s) PROVE \E rs : Kept(rs)'
  <2>1. PICK p : p = free_packets
    OBVIOUS
  <2>2. PICK rs : rs = FirstToLast(qs, 0, s, p)
    OBVIOUS
  <2> QED BY <1>5, <2>1, <2>2, DelayNewKept
<1>6. ASSUME NEW s \in Slots, RefuseNew(s) PROVE \E rs : Kept(rs)'
  BY <1>6, FrameKept DEF RefuseNew, Arrives
<1>7. ASSUME NEW old, Connect(old) PROVE \E rs : Kept(rs)'
  BY <1>7, ConnectKept
<1>8. CASE UNCHANGED vars
  <2>1. Kept(qs)'
    BY <1>8 DEF vars, Kept, Heads, Ends, Numbered, Aged, InUse, Drained,
                Counted
  <2> QED BY <2>1
<1> QED BY <1>1, <1>2, <1>3, <1>4, <1>5, <1>6, <1>7, <1>8 DEF Next, SV_ReadPackets

LEMMA ListsStay == Spec => [](TypeOK /\ ListsKept)
<1>1. Init => ListsKept
  <2> SUFFICES ASSUME Init PROVE \E qs : Kept(qs)
    BY DEF ListsKept
  <2>1. PICK qs : qs = AllFree
    OBVIOUS
  <2> QED BY <2>1, InitKept
<1>2. TypeOK /\ ListsKept /\ [Next]_vars => ListsKept'
  BY KeptStays DEF ListsKept
<1> QED BY <1>1, <1>2, TypeCorrect, PTL DEF Spec

\* No packet_t is lost but by SVC_DirectConnect's clearing of a slot: each of the
\* block is on the list of a slot, on svs.free_packets, or was let go with a slot,
\* and each slot's list ends at its last_packet.
THEOREM NoneIsLost == Spec => []Conserved
<1>1. ListsKept => Conserved
  <2> SUFFICES ASSUME NEW qs, Kept(qs) PROVE Conserved
    BY DEF ListsKept
  <2>1. ASSUME NEW s \in Slots, Queue(s) # <<>>
        PROVE  Queue(s)[Len(Queue(s))] = clients[s].last_packet
    BY <2>1, QueueIs DEF Kept, Ends
  <2> DEFINE listed == Members(free_packets)
                          \cup UNION {Members(clients[s].packets) : s \in Slots}
  <2>2. \A l \in Lists : qs[l] \in Seq(Packets)
    BY PlacesOf DEF Kept
  <2>3. \A s \in Slots : Members(clients[s].packets) = {qs[s][i] : i \in 1..Len(qs[s])}
    <3>1. \A s \in Slots : List(clients[s].packets) = qs[s]
      BY QueueIs DEF Queue
    <3> QED BY <2>2, <3>1, SlotsAreLists DEF Members
  <2>4. Members(free_packets) = {qs[0][i] : i \in 1..Len(qs[0])}
    <3>1. List(free_packets) = qs[0]
      BY QueueIs
    <3> QED BY <2>2, <3>1, SlotsAreLists DEF Members
  <2>5. \A p : p \in listed <=> \E l \in Lists : \E i \in 1..Len(qs[l]) : qs[l][i] = p
    <3>1. ASSUME NEW p \in listed
          PROVE  \E l \in Lists : \E i \in 1..Len(qs[l]) : qs[l][i] = p
      <4>1. CASE p \in Members(free_packets)
        BY <2>4, <4>1, SlotsAreLists
      <4>2. CASE p \notin Members(free_packets)
        <5>1. PICK s \in Slots : p \in Members(clients[s].packets)
          BY <3>1, <4>2
        <5> QED BY <2>3, <5>1, SlotsAreLists
      <4> QED BY <4>1, <4>2
    <3>2. ASSUME NEW l \in Lists, NEW i \in 1..Len(qs[l])
          PROVE  qs[l][i] \in listed
      <4>1. CASE l = 0
        BY <2>4, <4>1
      <4>2. CASE l # 0
        <5>1. l \in Slots
          BY <4>2, SlotsAreLists
        <5>2. qs[l][i] \in Members(clients[l].packets)
          BY <2>3, <5>1
        <5> QED BY <5>1, <5>2
      <4> QED BY <4>1, <4>2
    <3> QED BY <3>1, <3>2
  <2>6. listed = Listed(qs)
    <3> HIDE DEF listed
    <3>1. \A l \in Lists : \A i \in 1..Len(qs[l]) : qs[l][i] \in Packets
      BY <2>2
    <3> QED BY <2>5, <3>1 DEF Listed
  <2>7. Cardinality(listed) + abandoned = MAX_DELAYED_PACKETS
    <3> HIDE DEF listed
    <3> QED BY <2>6 DEF Kept, Counted
  <2> QED BY <2>1, <2>7 DEF Conserved
<1> QED BY <1>1, ListsStay, PTL

\* A packet_t that a slot holds while the socket is read is not due: what Aged
\* and Drained say of the list, for each of its packets.
LEMMA NoneIsDue ==
    ASSUME TypeOK, NEW qs, Kept(qs), at = Socket, NEW s \in Slots, InUse(s),
           NEW i \in 1..Len(qs[s])
    PROVE  packet[qs[s][i]].age < clients[s].delay
<1> DEFINE q == qs[s]
<1>1. /\ 1 \in 1..Len(q) /\ q # <<>> /\ q[1] \in Packets /\ q[i] \in Packets
  BY KeptPlaces
<1>2. s < at
  BY DelayAssumption DEF Socket, Slots
<1>3. packet[q[1]].age < clients[s].delay
  BY <1>1, <1>2 DEF Kept, Drained
<1>4. i = 1 \/ packet[q[1]].age >= packet[q[i]].age
  BY <1>1 DEF Kept, Aged, OldestFirst
<1>5. /\ packet[q[1]].age \in Nat /\ packet[q[i]].age \in Nat
      /\ clients[s].delay \in Nat
  BY <1>1, Fields, DelayAssumption
<1> HIDE DEF q
<1> QED BY <1>3, <1>4, <1>5 DEF q

\* When SV_ReadPackets finds svs.free_packets empty and drops what arrives for a
\* delayed client, each packet_t of the block holds a packet younger than the
\* delay of its client, or was left with a slot that was freed or cleared: for
\* any block, any delays and any bursts, and however often the game is paused.
THEOREM NoneIsHeldTooLong == Spec => []Exhausted
<1>1. TypeOK /\ ListsKept => Exhausted
  <2> SUFFICES ASSUME TypeOK, NEW qs, Kept(qs), at = Socket, free_packets = NULL
               PROVE  Cardinality(UNION {Waiting(s) : s \in Slots}) + abandoned
                         = MAX_DELAYED_PACKETS
    BY DEF ListsKept, Exhausted
  <2> DEFINE all == UNION {Waiting(s) : s \in Slots}
  <2>1. \A s \in Slots : Members(clients[s].packets) = {qs[s][i] : i \in 1..Len(qs[s])}
    <3>1. \A l \in Lists : qs[l] \in Seq(Packets)
      BY PlacesOf DEF Kept
    <3>2. \A s \in Slots : List(clients[s].packets) = qs[s]
      BY QueueIs DEF Queue
    <3> QED BY <3>1, <3>2, SlotsAreLists DEF Members
  <2>2. ASSUME NEW s \in Slots PROVE Waiting(s) = {qs[s][i] : i \in 1..Len(qs[s])}
    BY <2>1, NoneIsDue DEF Waiting
  <2>3. Len(qs[0]) = 0
    <3>1. Heads[0] = NULL
      BY SlotsAreLists DEF Heads
    <3> QED BY <3>1, PlacesOf, SlotsAreLists DEF Kept, Nth
  <2>4. \A p : p \in all <=> \E l \in Lists : \E i \in 1..Len(qs[l]) : qs[l][i] = p
    BY <2>2, <2>3, SlotsAreLists
  <2>5. all = Listed(qs)
    <3> HIDE DEF all
    <3>1. \A s \in Slots : \A i \in 1..Len(qs[s]) : qs[s][i] \in Packets
      BY KeptPlaces
    <3> QED BY <2>3, <2>4, <3>1, SlotsAreLists DEF Listed
  <2> HIDE DEF all
  <2> QED BY <2>5 DEF Kept, Counted, all
<1> QED BY <1>1, ListsStay, PTL

-----------------------------------------------------------------------------

(***************************************************************************)
(* The lists implement PacketDelay: line are the numbers on the lists.     *)
(***************************************************************************)
Line == [s \in Slots |->
           LET list == Queue(s)
           IN  [i \in DOMAIN list |-> packet[list[i]].number]]
NumbersOn(pk, q) == [i \in 1..Len(q) |-> pk[q[i]].number]

LEMMA NumbersOnType ==
    ASSUME TypeOK, NEW qs, Kept(qs), NEW s \in Slots
    PROVE  /\ NumbersOn(packet, qs[s]) \in Seq(Nat)
           /\ Len(NumbersOn(packet, qs[s])) = Len(qs[s])
           /\ \A i \in 1..Len(qs[s]) :
                 NumbersOn(packet, qs[s])[i] = packet[qs[s][i]].number
<1> DEFINE q == qs[s]
<1>1. Len(q) \in Nat /\ \A i \in 1..Len(q) : packet[q[i]].number \in Nat
  <2>1. Len(q) \in Nat /\ \A i \in 1..Len(q) : q[i] \in Packets
    BY KeptPlaces
  <2>2. \A p \in Packets : packet[p].number \in Nat
    BY Fields, DelayAssumption
  <2> QED BY <2>1, <2>2
<1> HIDE DEF q
<1>2. /\ NumbersOn(packet, q) \in Seq(Nat)
      /\ Len(NumbersOn(packet, q)) = Len(q)
      /\ \A i \in 1..Len(q) : NumbersOn(packet, q)[i] = packet[q[i]].number
  BY <1>1 DEF NumbersOn
<1> QED BY <1>2 DEF q

LEMMA LineIs ==
    ASSUME NEW qs, Kept(qs)
    PROVE  Line = [s \in Slots |-> NumbersOn(packet, qs[s])]
<1>1. \A s \in Slots : Queue(s) = qs[s] /\ DOMAIN qs[s] = 1..Len(qs[s])
  BY QueueIs, KeptPlaces
<1> QED BY <1>1, Zenon DEF Line, NumbersOn

LEMMA LineIsNext ==
    ASSUME NEW qs, Kept(qs)'
    PROVE  Line' = [s \in Slots |-> NumbersOn(packet', qs[s])]
<1>1. \A s \in Slots : Queue(s)' = qs[s]
  BY QueueIsNext
<1>2. PICK hd, pk : hd = Heads' /\ pk = packet'
  OBVIOUS
<1>3. Laid(pk, hd, qs)
  BY <1>2 DEF Kept
<1>4. \A s \in Slots : qs[s] \in Seq(Packets)
  BY <1>3, PlacesOf, SlotsAreLists
<1>5. \A s \in Slots : DOMAIN qs[s] = 1..Len(qs[s])
  BY <1>4
<1> QED BY <1>1, <1>5, Zenon DEF Line, NumbersOn

LEMMA ExecuteDelayedInOrder ==
    ASSUME TypeOK, NEW qs, Kept(qs), ExecuteDelayed, NEW s, s = at
    PROVE  Delay!Execute(s)
<1>1. PICK p : p = clients[s].packets
  OBVIOUS
<1>2. PICK rs : rs = FirstToFirst(qs, s, 0, p)
  OBVIOUS
<1>3. s \in Slots /\ executed' = [executed EXCEPT ![s] = packet[p].number]
      /\ arrived' = arrived
  BY <1>1 DEF ExecuteDelayed, ExecuteClientMessage
<1>4. /\ Kept(rs)'
      /\ p \in Packets /\ qs[s] # <<>> /\ p = Head(qs[s])
      /\ \A t \in Slots : \A i \in 1..Len(rs[t]) :
            packet'[rs[t][i]] = packet[rs[t][i]]
  BY <1>1, <1>2, ExecuteDelayedKept
<1>5. /\ rs[s] = Tail(qs[s]) /\ \A t \in Slots : t # s => rs[t] = qs[t]
  BY <1>2, <1>3, SlotsAreLists DEF FirstToFirst
<1> DEFINE n == NumbersOn(packet, qs[s])
<1>6. /\ qs[s] \in Seq(Packets) /\ Len(qs[s]) \in Nat /\ Len(qs[s]) # 0
      /\ n \in Seq(Nat) /\ Len(n) = Len(qs[s])
      /\ \A i \in 1..Len(qs[s]) : n[i] = packet[qs[s][i]].number
  BY <1>3, <1>4, KeptPlaces, NumbersOnType
<1>7. n # <<>> /\ Head(n) = packet[p].number
  <2>1. 1 \in 1..Len(qs[s]) /\ Head(qs[s]) = qs[s][1]
    BY <1>6
  <2> HIDE DEF n
  <2> QED BY <1>4, <1>6, <2>1
<1>8. NumbersOn(packet', rs[s]) = Tail(n)
  <2>1. /\ Tail(qs[s]) \in Seq(Packets) /\ Len(Tail(qs[s])) = Len(qs[s]) - 1
        /\ \A i \in 1..Len(Tail(qs[s])) : Tail(qs[s])[i] = qs[s][i + 1]
    BY <1>6, TailIs, Zenon
  <2>2. /\ Tail(n) \in Seq(Nat) /\ Len(Tail(n)) = Len(n) - 1
        /\ \A i \in 1..Len(Tail(n)) : Tail(n)[i] = n[i + 1]
    <3>1. Len(n) # 0
      BY <1>6
    <3> HIDE DEF n
    <3> QED BY <1>6, <3>1, TailIs, Zenon
  <2> HIDE DEF n
  <2>3. /\ Len(rs[s]) = Len(Tail(n)) /\ Len(rs[s]) \in Nat
        /\ Tail(n) = [i \in 1..Len(rs[s]) |-> Tail(n)[i]]
    <3>1. Tail(n) = [i \in 1..Len(Tail(n)) |-> Tail(n)[i]]
      <4> DEFINE t == Tail(n)
      <4>1. t \in Seq(Nat)
        BY <2>2
      <4> HIDE DEF t
      <4>2. t = [i \in 1..Len(t) |-> t[i]]
        BY <4>1
      <4> QED BY <4>2 DEF t
    <3>2. Len(rs[s]) = Len(Tail(n)) /\ Len(rs[s]) \in Nat
      BY <1>5, <1>6, <2>1, <2>2
    <3> QED BY <3>1, <3>2
  <2>4. ASSUME NEW i \in 1..Len(rs[s])
        PROVE  packet'[rs[s][i]].number = Tail(n)[i]
    <3>1. rs[s][i] = qs[s][i + 1] /\ Tail(n)[i] = n[i + 1]
          /\ i + 1 \in 1..Len(qs[s])
      BY <1>5, <1>6, <2>1, <2>2
    <3>2. packet'[rs[s][i]] = packet[rs[s][i]]
      BY <1>3, <1>4
    <3> QED BY <1>6, <3>1, <3>2
  <2> QED BY <2>3, <2>4, Zenon DEF NumbersOn
<1>9. \A t \in Slots : t # s => NumbersOn(packet', rs[t]) = NumbersOn(packet, qs[t])
  BY <1>4, <1>5 DEF NumbersOn
<1>10. Line = [t \in Slots |-> NumbersOn(packet, qs[t])]
  BY LineIs
<1>11. Line' = [t \in Slots |-> NumbersOn(packet', rs[t])]
  BY <1>4, LineIsNext
<1>12. Line[s] = n
  BY <1>3, <1>10
<1> HIDE DEF n
<1>13. Line' = [Line EXCEPT ![s] = Tail(Line[s])]
  BY <1>3, <1>8, <1>9, <1>10, <1>11, <1>12
<1>14. executed' = [executed EXCEPT ![s] = Head(Line[s])] /\ Line[s] # <<>>
  BY <1>3, <1>7, <1>12
<1> QED BY <1>1, <1>3, <1>13, <1>14 DEF Delay!Execute, Line

LEMMA ExecuteNewInOrder ==
    ASSUME TypeOK, NEW qs, Kept(qs), NEW s \in Slots, ExecuteNew(s)
    PROVE  Delay!Arrive(s)
<1>1. Kept(qs)' /\ qs[s] = <<>>
  BY ExecuteNewKept
<1>2. /\ executed' = [executed EXCEPT ![s] = arrived[s] + 1]
      /\ arrived' = [arrived EXCEPT ![s] = @ + 1]
      /\ packet' = packet
  BY DEF ExecuteNew, ExecuteClientMessage, Arrives
<1>3. arrived'[s] = arrived[s] + 1
  BY <1>2 DEF TypeOK
<1>4. Line' = Line
  BY <1>1, <1>2, LineIs, LineIsNext
<1>5. Line[s] = <<>>
  <2>1. Line[s] = NumbersOn(packet, qs[s])
    BY LineIs
  <2>2. Len(Line[s]) = 0 /\ Line[s] \in Seq(Nat)
    BY <1>1, <2>1, NumbersOnType
  <2> QED BY <2>2
<1> QED BY <1>2, <1>3, <1>4, <1>5 DEF Delay!Arrive, Line

LEMMA DelayNewInOrder ==
    ASSUME TypeOK, NEW qs, Kept(qs), NEW s \in Slots, DelayNew(s)
    PROVE  Delay!Arrive(s)
<1>1. PICK p : p = free_packets
  OBVIOUS
<1>2. PICK rs : rs = FirstToLast(qs, 0, s, p)
  OBVIOUS
<1>3. /\ Kept(rs)'
      /\ packet'[p].number = arrived[s] + 1
      /\ \A t \in Slots : \A i \in 1..Len(qs[t]) :
            packet'[qs[t][i]].number = packet[qs[t][i]].number
  BY <1>1, <1>2, DelayNewKept
<1>4. /\ arrived' = [arrived EXCEPT ![s] = @ + 1] /\ executed' = executed
      /\ p \in Packets
  BY <1>1, Types DEF DelayNew, Arrives
<1>5. arrived'[s] = arrived[s] + 1 /\ arrived'[s] \in Nat
  BY <1>4, DelayAssumption DEF TypeOK
<1>6. rs[s] = Append(qs[s], p) /\ \A t \in Slots : t # s => rs[t] = qs[t]
  BY <1>2, SlotsAreLists DEF FirstToLast
<1> DEFINE n == NumbersOn(packet, qs[s])
           k == Len(qs[s])
<1>7. /\ qs[s] \in Seq(Packets) /\ k \in Nat
      /\ n \in Seq(Nat) /\ Len(n) = k
      /\ \A i \in 1..k : n[i] = packet[qs[s][i]].number
  BY KeptPlaces, NumbersOnType
<1>8. NumbersOn(packet', rs[s]) = Append(n, arrived'[s])
  <2>1. /\ Len(rs[s]) = k + 1 /\ rs[s][k + 1] = p
        /\ \A i \in 1..k : rs[s][i] = qs[s][i]
    BY <1>4, <1>6, <1>7
  <2> HIDE DEF n
  <2>2. /\ Append(n, arrived'[s]) \in Seq(Nat)
        /\ Len(Append(n, arrived'[s])) = k + 1
        /\ Append(n, arrived'[s])[k + 1] = arrived'[s]
        /\ \A i \in 1..k : Append(n, arrived'[s])[i] = n[i]
    BY <1>5, <1>7
  <2> DEFINE new == Append(n, arrived'[s])
  <2> HIDE DEF new
  <2>3. new = [i \in 1..(k + 1) |-> new[i]]
    BY <1>7, <2>2 DEF new
  <2>4. ASSUME NEW i \in 1..(k + 1) PROVE packet'[rs[s][i]].number = new[i]
    <3>1. CASE i \in 1..k
      BY <1>3, <1>7, <2>1, <2>2, <3>1 DEF new
    <3>2. CASE i = k + 1
      BY <1>3, <1>5, <2>1, <2>2, <3>2 DEF new
    <3>3. i \in 1..k \/ i = k + 1
      BY <1>7
    <3> QED BY <3>1, <3>2, <3>3
  <2>5. NumbersOn(packet', rs[s]) = new
    BY <2>1, <2>3, <2>4, Zenon DEF NumbersOn
  <2> QED BY <2>5 DEF new
<1>9. \A t \in Slots : t # s => NumbersOn(packet', rs[t]) = NumbersOn(packet, qs[t])
  BY <1>3, <1>6 DEF NumbersOn
<1>10. Line = [t \in Slots |-> NumbersOn(packet, qs[t])]
  BY LineIs
<1>11. Line' = [t \in Slots |-> NumbersOn(packet', rs[t])]
  BY <1>3, LineIsNext
<1>12. Line[s] = n
  BY <1>10
<1> HIDE DEF n
<1>13. Line' = [Line EXCEPT ![s] = Append(Line[s], arrived'[s])]
  BY <1>8, <1>9, <1>10, <1>11, <1>12
<1> QED BY <1>4, <1>13 DEF Delay!Arrive, Line

\* What waits is not changed by a frame.
LEMMA FrameInOrder ==
    ASSUME TypeOK, NEW qs, Kept(qs), at = Socket, NEW n, NextFrame(n)
    PROVE  Line' = Line /\ executed' = executed
<1>1. Kept(qs)' /\ \A p \in Packets : packet'[p].number = packet[p].number
  BY FrameKept
<1>2. \A s \in Slots : NumbersOn(packet', qs[s]) = NumbersOn(packet, qs[s])
  <2>1. \A s \in Slots : \A i \in 1..Len(qs[s]) : qs[s][i] \in Packets
    BY KeptPlaces
  <2> QED BY <1>1, <2>1 DEF NumbersOn
<1>3. Line' = Line
  BY <1>1, <1>2, LineIs, LineIsNext
<1> QED BY <1>3 DEF NextFrame

LEMMA ConnectInOrder ==
    ASSUME TypeOK, NEW qs, Kept(qs), NEW old, Connect(old)
    PROVE  \E s \in Slots : Delay!Connect(s)
<1>1. PICK new \in Slots :
         /\ Kept(Without(qs, new))'
         /\ arrived' = [arrived EXCEPT ![new] = 0]
         /\ executed' = [executed EXCEPT ![new] = 0]
         /\ \A t \in Slots : t # new => \A i \in 1..Len(qs[t]) :
               packet'[qs[t][i]] = packet[qs[t][i]]
  BY ConnectKept
<1>2. PICK rs : rs = Without(qs, new)
  OBVIOUS
<1>3. rs[new] = <<>> /\ \A t \in Slots : t # new => rs[t] = qs[t]
  BY <1>2, SlotsAreLists DEF Without
<1>4. Line = [t \in Slots |-> NumbersOn(packet, qs[t])]
  BY LineIs
<1>5. Line' = [t \in Slots |-> NumbersOn(packet', rs[t])]
  BY <1>1, <1>2, LineIsNext
<1>6. NumbersOn(packet', rs[new]) = <<>>
  <2>1. 1..Len(rs[new]) = {}
    BY <1>3
  <2>2. NumbersOn(packet', rs[new]) \in Seq(Nat) /\ Len(NumbersOn(packet', rs[new])) = 0
    BY <1>3, <2>1 DEF NumbersOn
  <2> QED BY <2>2
<1>7. \A t \in Slots : t # new => NumbersOn(packet', rs[t]) = NumbersOn(packet, qs[t])
  BY <1>1, <1>3 DEF NumbersOn
<1>8. Line' = [Line EXCEPT ![new] = <<>>]
  BY <1>4, <1>5, <1>6, <1>7
<1>9. Delay!Connect(new)
  BY <1>1, <1>8 DEF Delay!Connect, Line
<1> QED BY <1>9

\* SV_ReadPackets implements PacketDelay: of each connection's packets, those
\* that are not dropped are executed once, in the order in which they arrived,
\* although those that find no delay do not look at the list.
THEOREM ExecutedInOrder == Spec => InOrder
<1>1. Init => Delay!Init
  <2> SUFFICES ASSUME Init PROVE Delay!Init
    OBVIOUS
  <2>1. PICK qs : qs = AllFree
    OBVIOUS
  <2>2. Kept(qs) /\ \A s \in Slots : qs[s] = <<>>
    BY <2>1, InitKept, SlotsAreLists DEF AllFree
  <2>3. Line = [s \in Slots |-> NumbersOn(packet, qs[s])]
    BY <2>2, LineIs
  <2>4. \A s \in Slots : NumbersOn(packet, qs[s]) = <<>>
    <3>1. \A s \in Slots : 1..Len(qs[s]) = {}
      BY <2>2
    <3>2. \A s \in Slots : /\ NumbersOn(packet, qs[s]) \in Seq(Nat)
                           /\ Len(NumbersOn(packet, qs[s])) = 0
      BY <2>2, <3>1 DEF NumbersOn
    <3> QED BY <3>2
  <2>5. Line = [s \in Slots |-> <<>>]
    BY <2>3, <2>4
  <2> QED BY <2>5 DEF Init, Delay!Init, Line
<1>2. TypeOK /\ ListsKept /\ [Next]_vars => [Delay!Next]_(Delay!vars)
  <2> SUFFICES ASSUME TypeOK, NEW qs, Kept(qs), [Next]_vars
               PROVE  \/ Delay!Next
                      \/ Line' = Line /\ UNCHANGED <<arrived, executed>>
    BY DEF ListsKept, Delay!vars, Line
  <2>1. CASE ExecuteDelayed
    <3>1. at \in Slots
      BY <2>1 DEF ExecuteDelayed
    <3>2. PICK s : s = at /\ s \in Slots
      BY <3>1
    <3>3. Delay!Execute(s)
      BY <2>1, <3>2, ExecuteDelayedInOrder
    <3> QED BY <3>2, <3>3 DEF Delay!Next
  <2>2. CASE NextSlot
    <3>1. Kept(qs)' /\ packet' = packet /\ UNCHANGED <<arrived, executed>>
      BY <2>2, NextSlotKept DEF NextSlot
    <3> QED BY <3>1, LineIs, LineIsNext
  <2>3. CASE EndFrame
    BY <2>3, FrameInOrder DEF EndFrame
  <2>4. ASSUME NEW s \in Slots, ExecuteNew(s) PROVE Delay!Next
    BY <2>4, ExecuteNewInOrder DEF Delay!Next
  <2>5. ASSUME NEW s \in Slots, DelayNew(s) PROVE Delay!Next
    BY <2>5, DelayNewInOrder DEF Delay!Next
  <2>6. ASSUME NEW s \in Slots, RefuseNew(s) PROVE Delay!Next
    <3>1. Line' = Line /\ executed' = executed
      BY <2>6, FrameInOrder DEF RefuseNew, Arrives
    <3>2. arrived' = [arrived EXCEPT ![s] = @ + 1]
      BY <2>6 DEF RefuseNew, Arrives
    <3>3. Delay!Arrive(s)
      BY <3>1, <3>2 DEF Delay!Arrive, Line
    <3> QED BY <3>3 DEF Delay!Next
  <2>7. ASSUME NEW old, Connect(old) PROVE Delay!Next
    BY <2>7, ConnectInOrder DEF Delay!Next
  <2>8. CASE UNCHANGED vars
    BY <2>8 DEF vars, Line, Queue, List
  <2> QED BY <2>1, <2>2, <2>3, <2>4, <2>5, <2>6, <2>7, <2>8 DEF Next, SV_ReadPackets
<1> QED BY <1>1, <1>2, ListsStay, PTL DEF Spec, InOrder, Delay!Spec
=============================================================================
