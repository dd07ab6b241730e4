------------------------- MODULE ClientReliableProof -------------------------
(***************************************************************************)
(* ClientOK is an invariant of ClientReliable, for every size and number   *)
(* of buffers.  ClientGood is inductive as it stands: there is a lemma for *)
(* each operator from a client to a client, which says that it leads from  *)
(* a good client to a good one, and a step is a composition of operators.  *)
(*                                                                         *)
(* NothingLost is proved in the same way: there is a lemma for each        *)
(* operator that says what it appends to the queue of the client, the      *)
(* message and the back buffers one behind the other.                      *)
(***************************************************************************)
EXTENDS ClientReliable, SequenceTheorems, WellFoundedInduction, TLAPS

\* The types of the fields of a good client that the lemmas look at.
LEMMA Fields ==
    ASSUME NEW c, ClientGood(c)
    PROVE  /\ c \in Client
           /\ c.message \in Seq(Unit)
           /\ c.num_backbuf \in 0 .. MaxBackBuffers
           /\ c.num_backbuf \in Nat
           /\ c.backbuf_data \in [Buffer -> Seq(Unit)]
           /\ c.backbuf_size \in [Buffer -> Nat]
           /\ c.backbuf \in SizeBuf
           /\ c.backbuf.data \in Buffer
           /\ c.backbuf.cursize \in Nat
           /\ c.backbuf_data[c.backbuf.data] \in Seq(Unit)
<1>1. c \in Client
  BY DEF ClientGood
<1>2. c.backbuf \in SizeBuf
  BY <1>1 DEF Client
<1>3. c.backbuf.data \in Buffer /\ c.backbuf.cursize \in Nat
  BY <1>2 DEF SizeBuf
<1>4. c.backbuf_data \in [Buffer -> Seq(Unit)]
  BY <1>1 DEF Client
<1>5. c.num_backbuf \in 0 .. MaxBackBuffers /\ c.num_backbuf \in Nat
  BY <1>1, SizeAssumption DEF Client
<1> QED BY <1>1, <1>2, <1>3, <1>4, <1>5 DEF Client

\* The empty sequence and the disconnect are sequences of units.
LEMMA Messages ==
    /\ <<>> \in Seq(Unit) /\ Len(<<>>) = 0
    /\ <<Disconnect>> \in Seq(Unit) /\ Len(<<Disconnect>>) = 1
BY UnitAssumption

\* SZ_Clear of the message (q_shared.c 841-844).
LEMMA ClearGood ==
    ASSUME NEW c, ClientGood(c)
    PROVE  ClientGood(SZ_ClearMessage(c))
<1> DEFINE r == SZ_ClearMessage(c)
<1>1. r \in Client
  <2>1. PICK m \in Seq(Unit) : m = <<>>
    BY Messages
  <2>2. r = [c EXCEPT !.message = m, !.overflowed = FALSE]
    BY <2>1 DEF SZ_ClearMessage
  <2> QED BY <2>2, Fields DEF Client
<1>2. /\ r.message = <<>>
      /\ r.halted = c.halted
      /\ r.num_backbuf = c.num_backbuf
      /\ r.backbuf_size = c.backbuf_size
      /\ r.backbuf_data = c.backbuf_data
      /\ r.backbuf = c.backbuf
  BY Fields DEF Client, SZ_ClearMessage
<1> HIDE DEF r
<1>3. QED
  BY <1>1, <1>2, Messages, SizeAssumption DEF ClientGood, r

\* SZ_Write to the message of what fits it when it is empty (q_shared.c
\* 846-877): at worst it overflows, and it touches nothing else.
LEMMA WriteMessageGood ==
    ASSUME NEW c, ClientGood(c), NEW d \in Seq(Unit), Len(d) <= MaxSize
    PROVE  /\ ClientGood(WriteMessage(c, d))
           /\ WriteMessage(c, d).num_backbuf = c.num_backbuf
           /\ WriteMessage(c, d).backbuf_size = c.backbuf_size
           /\ WriteMessage(c, d).backbuf_data = c.backbuf_data
<1> DEFINE r == WriteMessage(c, d)
<1>1. Len(d) \in Nat /\ Len(c.message) \in Nat
  BY Fields
<1>2. CASE Len(c.message) + Len(d) <= MaxSize
  <2>1. r = [c EXCEPT !.message = c.message \o d]
    BY <1>1, <1>2, SizeAssumption DEF WriteMessage
  <2>2. /\ c.message \o d \in Seq(Unit)
        /\ Len(c.message \o d) <= MaxSize
    BY <1>2, Fields
  <2>3. r \in Client
    <3>1. PICK m \in Seq(Unit) : m = c.message \o d
      BY <2>2
    <3>2. c \in Client
      BY Fields
    <3> QED BY <2>1, <3>1, <3>2 DEF Client
  <2>4. /\ r.message = c.message \o d
        /\ r.halted = c.halted
        /\ r.num_backbuf = c.num_backbuf
        /\ r.backbuf_size = c.backbuf_size
        /\ r.backbuf_data = c.backbuf_data
        /\ r.backbuf = c.backbuf
    BY <2>1, Fields DEF Client
  <2> HIDE DEF r
  <2> QED BY <2>2, <2>3, <2>4 DEF ClientGood, r
<1>3. CASE ~(Len(c.message) + Len(d) <= MaxSize)
  <2>1. r = [c EXCEPT !.message = d, !.overflowed = TRUE]
    BY <1>1, <1>3, SizeAssumption DEF WriteMessage
  <2>2. r \in Client
    BY <2>1, Fields DEF Client
  <2>3. /\ r.message = d
        /\ r.halted = c.halted
        /\ r.num_backbuf = c.num_backbuf
        /\ r.backbuf_size = c.backbuf_size
        /\ r.backbuf_data = c.backbuf_data
        /\ r.backbuf = c.backbuf
    BY <2>1, Fields DEF Client
  <2> HIDE DEF r
  <2> QED BY <2>2, <2>3 DEF ClientGood, r
<1> QED BY <1>2, <1>3

\* A new back buffer is opened empty (sv_nchan.c 42-47).
LEMMA NewBackbufGood ==
    ASSUME NEW c, ClientGood(c), c.num_backbuf # MaxBackBuffers
    PROVE  /\ ClientGood(NewBackbuf(c))
           /\ NewBackbuf(c).backbuf.cursize = 0
<1> DEFINE n == c.num_backbuf + 1
           data == [c.backbuf_data EXCEPT ![n] = <<>>]
           size == [c.backbuf_size EXCEPT ![n] = 0]
           open == [data |-> n, cursize |-> 0,
                    allowoverflow |-> TRUE, overflowed |-> FALSE]
           r == NewBackbuf(c)
<1>1. n \in Buffer /\ n \in 0 .. MaxBackBuffers /\ c.num_backbuf \in Nat
  BY Fields, SizeAssumption DEF Buffer
<1>2. /\ data \in [Buffer -> Seq(Unit)]
      /\ data[n] = <<>>
  BY <1>1, Fields, Messages
<1>3. /\ size \in [Buffer -> Nat]
      /\ size[n] = 0
      /\ \A i \in 1 .. c.num_backbuf : size[i] = c.backbuf_size[i]
  <2>1. \A i \in 1 .. c.num_backbuf : i \in Buffer /\ i # n
    <3>1. c.num_backbuf <= MaxBackBuffers
      BY Fields
    <3> QED BY <1>1, <3>1, SizeAssumption DEF Buffer
  <2> HIDE DEF n
  <2> QED BY <1>1, <2>1, Fields
<1>4. open \in SizeBuf
  BY <1>1 DEF SizeBuf
<1>5. r = [c EXCEPT !.num_backbuf = n, !.backbuf = open,
                    !.backbuf_data = data, !.backbuf_size = size]
  BY DEF NewBackbuf
<1> HIDE DEF data, size, r
<1>6. r \in Client
  <2> HIDE DEF open, n
  <2>1. c \in Client
    BY Fields
  <2> QED BY <1>1, <1>2, <1>3, <1>4, <1>5, <2>1 DEF Client
<1>7. /\ r.message = c.message
      /\ r.halted = c.halted
      /\ r.num_backbuf = n
      /\ r.backbuf_size = size
      /\ r.backbuf_data = data
      /\ r.backbuf = open
  <2> HIDE DEF open, n
  <2> QED BY <1>5, Fields DEF Client
<1>8. r.backbuf.cursize = 0 /\ r.backbuf.data = n /\ ~r.backbuf.overflowed
  BY <1>7
<1>9. \A i \in 1 .. r.num_backbuf : r.backbuf_size[i] < MaxSize
  <2>1. \A i \in 1 .. c.num_backbuf : c.backbuf_size[i] < MaxSize
    BY DEF ClientGood
  <2>2. \A i \in 1 .. n : i \in 1 .. c.num_backbuf \/ i = n
    BY <1>1
  <2>3. 0 < MaxSize
    BY SizeAssumption
  <2> QED BY <1>3, <1>7, <2>1, <2>2, <2>3
<1> QED
  BY <1>2, <1>6, <1>7, <1>8, <1>9, Messages, SizeAssumption
  DEF ClientGood, r

\* Behind ClientReliableCheckBlock a block fits the buffer it will be written
\* to, whichever that is (sv_nchan.c 27-50).
LEMMA CheckBlockGood ==
    ASSUME NEW c, ClientGood(c), NEW maxsize \in Nat, NEW length \in Nat,
           length <= maxsize, length < MaxSize
    PROVE  LET r == ClientReliableCheckBlock(c, maxsize) IN
           /\ ClientGood(r)
           /\ r.num_backbuf > 0 => r.backbuf.cursize + length < MaxSize
<1> DEFINE fits == IF c.num_backbuf = 0
                   THEN ~MightOverflow(Len(c.message), maxsize)
                   ELSE ~MightOverflow(c.backbuf.cursize, maxsize)
           r == ClientReliableCheckBlock(c, maxsize)
<1>1. CASE fits
  <2>1. r = c
    BY <1>1 DEF ClientReliableCheckBlock
  <2> QED BY <1>1, <2>1, Fields, SizeAssumption DEF MightOverflow
<1>2. CASE ~fits /\ c.num_backbuf = MaxBackBuffers
  <2> DEFINE open == [c.backbuf EXCEPT !.cursize = 0]
  <2>1. r = [c EXCEPT !.backbuf = open, !.overflowed = TRUE]
    BY <1>2, Fields DEF ClientReliableCheckBlock, Client
  <2>2. /\ open \in SizeBuf
        /\ open.cursize = 0
        /\ open.data = c.backbuf.data
        /\ open.overflowed = c.backbuf.overflowed
    BY Fields DEF SizeBuf
  <2> HIDE DEF open, r
  <2>3. r \in Client
    <3>1. c \in Client
      BY Fields
    <3> QED BY <2>1, <2>2, <3>1 DEF Client
  <2>4. /\ r.message = c.message
        /\ r.halted = c.halted
        /\ r.num_backbuf = c.num_backbuf
        /\ r.backbuf_size = c.backbuf_size
        /\ r.backbuf_data = c.backbuf_data
        /\ r.backbuf = open
    BY <2>1, Fields DEF Client
  <2>5. 0 <= Len(c.backbuf_data[c.backbuf.data])
    BY Fields
  <2> QED BY <2>2, <2>3, <2>4, <2>5, SizeAssumption DEF ClientGood, r
<1>3. CASE ~fits /\ c.num_backbuf # MaxBackBuffers
  <2>1. r = NewBackbuf(c)
    BY <1>3 DEF ClientReliableCheckBlock
  <2> QED BY <1>3, <2>1, NewBackbufGood
<1> QED BY <1>1, <1>2, <1>3

\* A block that fits the open back buffer is added to it and its size is
\* recorded (sv_nchan.c 59-71); the data behind backbuf need not be that of the
\* last back buffer.
LEMMA BackbufWriteGood ==
    ASSUME NEW c, ClientGood(c), NEW d \in Seq(Unit), c.num_backbuf > 0,
           c.backbuf.cursize + Len(d) < MaxSize
    PROVE  LET at == c.backbuf.cursize + Len(d)
               r == ClientReliable_FinishWrite(WriteBackbuf(c, d))
           IN
           /\ ClientGood(r)
           /\ r.state = c.state
           /\ r.message = c.message
           /\ r.overflowed = c.overflowed
           /\ r.num_backbuf = c.num_backbuf
           /\ r.backbuf.data = c.backbuf.data
           /\ r.backbuf.cursize = at
           /\ r.backbuf_size = [c.backbuf_size EXCEPT ![c.num_backbuf] = at]
           /\ r.backbuf_data =
                 [c.backbuf_data EXCEPT ![c.backbuf.data] =
                     SubSeq(c.backbuf_data[c.backbuf.data], 1, c.backbuf.cursize) \o d]
<1> DEFINE old == c.backbuf_data[c.backbuf.data]
           new == SubSeq(old, 1, c.backbuf.cursize) \o d
           at == c.backbuf.cursize + Len(d)
           data == [c.backbuf_data EXCEPT ![c.backbuf.data] = new]
           open == [c.backbuf EXCEPT !.cursize = at]
           w == WriteBackbuf(c, d)
           size == [w.backbuf_size EXCEPT ![w.num_backbuf] = w.backbuf.cursize]
           over == w.overflowed \/ w.backbuf.overflowed
           r == ClientReliable_FinishWrite(w)
<1>1. /\ new \in Seq(Unit)
      /\ Len(new) = at
      /\ at \in Nat
      /\ at < MaxSize
  <2>1. /\ old \in Seq(Unit)
        /\ c.backbuf.cursize \in 0 .. Len(old)
        /\ Len(d) \in Nat
    BY Fields DEF ClientGood
  <2>2. /\ SubSeq(old, 1, c.backbuf.cursize) \in Seq(Unit)
        /\ Len(SubSeq(old, 1, c.backbuf.cursize)) = c.backbuf.cursize
    <3> HIDE DEF old
    <3> QED BY <2>1
  <2> QED BY <2>1, <2>2
<1>2. data \in [Buffer -> Seq(Unit)] /\ data[c.backbuf.data] = new
  <2> HIDE DEF new
  <2> QED BY <1>1, Fields
<1>3. /\ open \in SizeBuf
      /\ open.cursize = at
      /\ open.data = c.backbuf.data
      /\ open.overflowed = c.backbuf.overflowed
  <2> HIDE DEF at
  <2> QED BY <1>1, Fields DEF SizeBuf
<1>4. w = [c EXCEPT !.backbuf_data = data, !.backbuf = open]
  <2>1. c.backbuf.cursize + Len(d) <= MaxSize
    BY Fields, SizeAssumption
  <2> QED BY <2>1 DEF WriteBackbuf, PutBackbuf
<1> HIDE DEF data, open, w, new, at
<1>5. w \in Client
  <2>1. c \in Client
    BY Fields
  <2> QED BY <1>2, <1>3, <1>4, <2>1 DEF Client
<1>6. /\ w.message = c.message
      /\ w.state = c.state
      /\ w.overflowed = c.overflowed
      /\ w.halted = c.halted
      /\ w.num_backbuf = c.num_backbuf
      /\ w.backbuf_size = c.backbuf_size
      /\ w.backbuf_data = data
      /\ w.backbuf = open
  BY <1>4, Fields DEF Client
<1>7. c.num_backbuf \in Buffer
  BY Fields DEF Buffer
<1>8. /\ size \in [Buffer -> Nat]
      /\ \A i \in 1 .. c.num_backbuf : size[i] < MaxSize
      /\ size = [c.backbuf_size EXCEPT ![c.num_backbuf] = at]
  <2>1. size = [c.backbuf_size EXCEPT ![c.num_backbuf] = at]
    BY <1>3, <1>6
  <2>2. \A i \in 1 .. c.num_backbuf : i \in Buffer
    <3>1. c.num_backbuf <= MaxBackBuffers /\ c.num_backbuf \in Nat
      BY Fields
    <3> QED BY <3>1, SizeAssumption DEF Buffer
  <2> HIDE DEF size
  <2> QED BY <1>1, <1>7, <2>1, <2>2, Fields DEF ClientGood
<1>9. over \in BOOLEAN /\ over = c.overflowed
  <2>1. ~w.backbuf.overflowed
    BY <1>3, <1>6 DEF ClientGood
  <2>2. w.overflowed \in BOOLEAN
    BY <1>5 DEF Client
  <2> QED BY <1>6, <2>1, <2>2
<1>10. r = [w EXCEPT !.backbuf_size = size, !.overflowed = over]
  BY DEF ClientReliable_FinishWrite
<1> HIDE DEF size, over, r
<1>11. r \in Client
  BY <1>5, <1>8, <1>9, <1>10 DEF Client
<1>12. /\ r.message = c.message
       /\ r.state = c.state
       /\ r.overflowed = over
       /\ r.halted = c.halted
       /\ r.num_backbuf = c.num_backbuf
       /\ r.backbuf_size = size
       /\ r.backbuf_data = data
       /\ r.backbuf = open
  BY <1>5, <1>6, <1>10 DEF Client
<1>13. ClientGood(r)
  BY <1>1, <1>2, <1>3, <1>8, <1>11, <1>12 DEF ClientGood
<1>14. /\ r.overflowed = c.overflowed
       /\ r.backbuf.data = c.backbuf.data
       /\ r.backbuf.cursize = at
       /\ r.backbuf_size = [c.backbuf_size EXCEPT ![c.num_backbuf] = at]
       /\ r.backbuf_data = [c.backbuf_data EXCEPT ![c.backbuf.data] = new]
  BY <1>3, <1>8, <1>9, <1>12 DEF data
<1> QED BY <1>12, <1>13, <1>14, Zenon DEF r, w, at, new

\* A block, with an estimate no less than its length, is written.
LEMMA WriteBlockGood ==
    ASSUME NEW c, ClientGood(c), NEW d \in Seq(Unit), Len(d) < MaxSize,
           NEW slack \in Nat
    PROVE  ClientGood(WriteBlock(c, d, slack))
<1> DEFINE r == ClientReliableCheckBlock(c, Len(d) + slack)
<1>1. /\ Len(d) \in Nat
      /\ Len(d) + slack \in Nat
      /\ Len(d) <= Len(d) + slack
      /\ Len(d) <= MaxSize
  BY SizeAssumption
<1>2. /\ ClientGood(r)
      /\ r.num_backbuf > 0 => r.backbuf.cursize + Len(d) < MaxSize
  BY <1>1, CheckBlockGood
<1> HIDE DEF r
<1>3. CASE r.num_backbuf > 0
  BY <1>2, <1>3, BackbufWriteGood DEF WriteBlock, ClientReliableWrite, r
<1>4. CASE ~(r.num_backbuf > 0)
  BY <1>1, <1>2, <1>4, WriteMessageGood
  DEF WriteBlock, ClientReliableWrite, r
<1> QED BY <1>3, <1>4

\* ClientGood looks at the buffers only, not at the flags and the state.
LEMMA SameBuffers ==
    ASSUME NEW c, ClientGood(c), NEW r \in Client,
           r.message = c.message,
           r.halted = c.halted,
           r.num_backbuf = c.num_backbuf,
           r.backbuf_size = c.backbuf_size,
           r.backbuf_data = c.backbuf_data,
           r.backbuf = c.backbuf
    PROVE  ClientGood(r)
BY DEF ClientGood

\* A flag or the state may change, and the client stays good.
LEMMA FlagsGood ==
    ASSUME NEW c, ClientGood(c), NEW b \in BOOLEAN, NEW u \in BOOLEAN,
           NEW s \in {"connected", "spawned", "zombie"}
    PROVE  /\ ClientGood([c EXCEPT !.send_message = b])
           /\ ClientGood([c EXCEPT !.drop = b])
           /\ ClientGood([c EXCEPT !.state = s])
           /\ ClientGood([c EXCEPT !.send_message = b, !.unacked = u])
<1>1. c \in Client
  BY Fields
<1>2. ClientGood([c EXCEPT !.send_message = b])
  <2> DEFINE r == [c EXCEPT !.send_message = b]
  <2>1. r \in Client
    BY <1>1 DEF Client
  <2> QED BY <1>1, <2>1, SameBuffers DEF Client
<1>3. ClientGood([c EXCEPT !.drop = b])
  <2> DEFINE r == [c EXCEPT !.drop = b]
  <2>1. r \in Client
    BY <1>1 DEF Client
  <2> QED BY <1>1, <2>1, SameBuffers DEF Client
<1>4. ClientGood([c EXCEPT !.state = s])
  <2> DEFINE r == [c EXCEPT !.state = s]
  <2>1. r \in Client
    BY <1>1 DEF Client
  <2> QED BY <1>1, <2>1, SameBuffers DEF Client
<1>5. ClientGood([c EXCEPT !.send_message = b, !.unacked = u])
  <2> DEFINE r == [c EXCEPT !.send_message = b, !.unacked = u]
  <2>1. r \in Client
    BY <1>1 DEF Client
  <2> QED BY <1>1, <2>1, SameBuffers DEF Client
<1> QED BY <1>2, <1>3, <1>4, <1>5

\* svc_disconnect is written to the message itself (sv_main.c 378-407).
LEMMA DropClientGood ==
    ASSUME NEW c, ClientGood(c)
    PROVE  ClientGood(SV_DropClient(c))
<1> DEFINE w == WriteMessage(c, <<Disconnect>>)
<1>1. ClientGood(w)
  <2>1. <<Disconnect>> \in Seq(Unit) /\ Len(<<Disconnect>>) <= MaxSize
    BY Messages, SizeAssumption
  <2> QED BY <2>1, WriteMessageGood
<1>2. SV_DropClient(c) = [w EXCEPT !.state = "zombie"]
  BY DEF SV_DropClient
<1> HIDE DEF w
<1> QED BY <1>1, <1>2, FlagsGood

\* SV_ClearReliable, and Cmd_Modellist_f's clearing, which leaves one back
\* buffer: fewer back buffers than before (sv_nchan.c 189-193, sv_user.c 593).
LEMMA FewerGood ==
    ASSUME NEW c, ClientGood(c), NEW n \in {0, 1}, n <= c.num_backbuf
    PROVE  ClientGood([SZ_ClearMessage(c) EXCEPT !.num_backbuf = n])
<1> DEFINE w == SZ_ClearMessage(c)
           r == [w EXCEPT !.num_backbuf = n]
<1>1. ClientGood(w)
  BY ClearGood
<1>2. w.num_backbuf = c.num_backbuf
  BY Fields DEF SZ_ClearMessage, Client
<1> HIDE DEF w
<1>3. w \in Client /\ n \in 0 .. MaxBackBuffers
  BY <1>1, Fields, SizeAssumption
<1>4. r \in Client
  BY <1>3 DEF Client
<1>5. /\ r.message = w.message
      /\ r.halted = w.halted
      /\ r.num_backbuf = n
      /\ r.backbuf_size = w.backbuf_size
      /\ r.backbuf_data = w.backbuf_data
      /\ r.backbuf = w.backbuf
  BY <1>3 DEF Client
<1> HIDE DEF r
<1>6. ClientGood(r)
  <2>1. /\ \A i \in 1 .. n : i \in 1 .. w.num_backbuf
        /\ n > 0 => w.num_backbuf > 0
    <3>1. n \in Nat /\ n <= w.num_backbuf /\ w.num_backbuf \in Nat
      BY <1>2, Fields
    <3> HIDE DEF w
    <3> QED BY <3>1
  <2>2. \A i \in 1 .. r.num_backbuf : r.backbuf_size[i] < MaxSize
    BY <1>1, <1>5, <2>1 DEF ClientGood
  <2>3. r.num_backbuf > 0 =>
           r.backbuf.cursize <= Len(r.backbuf_data[r.backbuf.data])
    BY <1>1, <1>5, <2>1 DEF ClientGood
  <2> QED BY <1>1, <1>4, <1>5, <2>2, <2>3 DEF ClientGood
<1> QED BY <1>6 DEF r, w

\* What is in a back buffer is as long as its size says.
LEMMA ContentsType ==
    ASSUME NEW c, ClientGood(c), NEW i \in Buffer
    PROVE  /\ Contents(c, i) \in Seq(Unit)
           /\ Len(Contents(c, i)) = c.backbuf_size[i]
<1>1. c.backbuf_size[i] \in Nat /\ c.backbuf_data[i] \in Seq(Unit)
  BY Fields
<1>2. \A k \in 1 .. c.backbuf_size[i] :
         (IF k <= Len(c.backbuf_data[i]) THEN c.backbuf_data[i][k] ELSE Stale)
            \in Unit
  BY <1>1, UnitAssumption
<1> QED BY <1>1, <1>2 DEF Contents

\* The first back buffer moves to the message and the others move down
\* (sv_send.c 1117-1148).
LEMMA MoveGood ==
    ASSUME NEW c, ClientGood(c)
    PROVE  ClientGood(MoveBackbuf(c))
<1>1. CASE c.num_backbuf = 0 \/ ~FitsMessage(c)
  BY <1>1 DEF MoveBackbuf
<1>2. CASE ~(c.num_backbuf = 0 \/ ~FitsMessage(c))
  <2> DEFINE w == WriteMessage(c, Contents(c, 1))
             moved == 1 .. w.num_backbuf - 1
             data == [i \in Buffer |-> IF i \in moved THEN Contents(w, i + 1)
                                       ELSE w.backbuf_data[i]]
             size == [i \in Buffer |-> IF i \in moved THEN w.backbuf_size[i + 1]
                                       ELSE w.backbuf_size[i]]
             n == w.num_backbuf - 1
             s == ShiftBackbufs(w)
  <2>1. 1 \in Buffer /\ 1 \in 1 .. c.num_backbuf
    BY <1>2, Fields, SizeAssumption DEF Buffer
  <2>2. /\ ClientGood(w)
        /\ w.num_backbuf = c.num_backbuf
    <3>1. Contents(c, 1) \in Seq(Unit) /\ Len(Contents(c, 1)) = c.backbuf_size[1]
      BY <2>1, ContentsType
    <3>2. Len(Contents(c, 1)) <= MaxSize
      BY <2>1, <3>1, SizeAssumption, Fields DEF ClientGood
    <3> QED BY <3>1, <3>2, WriteMessageGood
  <2> HIDE DEF w
  <2>3. /\ w \in Client
        /\ w.num_backbuf \in Nat /\ w.num_backbuf > 0
        /\ w.num_backbuf <= MaxBackBuffers
        /\ w.backbuf_size \in [Buffer -> Nat]
        /\ w.backbuf_data \in [Buffer -> Seq(Unit)]
    BY <1>2, <2>2, Fields
  <2>4. \A i \in moved : i \in Buffer /\ i + 1 \in 1 .. w.num_backbuf
                         /\ i + 1 \in Buffer
    BY <2>3, SizeAssumption DEF Buffer
  <2>5. \A i \in moved : /\ Contents(w, i + 1) \in Seq(Unit)
                         /\ Len(Contents(w, i + 1)) = w.backbuf_size[i + 1]
    BY <2>2, <2>4, ContentsType
  <2>6. data \in [Buffer -> Seq(Unit)] /\ size \in [Buffer -> Nat]
    <3> HIDE DEF moved
    <3> QED BY <2>3, <2>4, <2>5
  <2>7. n \in 0 .. MaxBackBuffers /\ n \in Nat /\ n < w.num_backbuf
    BY <2>3, SizeAssumption
  <2>8. \A i \in 1 .. n : size[i] < MaxSize
    BY <2>2, <2>3, <2>4 DEF ClientGood
  <2>9. s = [w EXCEPT !.backbuf_data = data, !.backbuf_size = size,
                      !.num_backbuf = n]
    BY DEF ShiftBackbufs
  <2> HIDE DEF data, size, n, s
  <2>10. s \in Client
    BY <2>3, <2>6, <2>7, <2>9 DEF Client
  <2>11. /\ s.message = w.message
         /\ s.halted = w.halted
         /\ s.num_backbuf = n
         /\ s.backbuf_size = size
         /\ s.backbuf_data = data
         /\ s.backbuf = w.backbuf
    BY <2>3, <2>9 DEF Client
  <2>12. CASE n = 0
    <3>1. MoveBackbuf(c) = s
      BY <1>2, <2>11, <2>12 DEF MoveBackbuf, s, w
    <3> QED BY <2>2, <2>8, <2>10, <2>11, <2>12, <3>1 DEF ClientGood
  <2>13. CASE n # 0
    <3> DEFINE open == [data |-> n, cursize |-> size[n],
                        allowoverflow |-> FALSE, overflowed |-> FALSE]
               r == [s EXCEPT !.backbuf = open]
    <3>1. MoveBackbuf(c) = r
      BY <1>2, <2>11, <2>13 DEF MoveBackbuf, ReopenBackbuf, s, w
    <3>2. n \in Buffer /\ n \in moved /\ n \in 1 .. n
      BY <2>7, <2>13, <2>3 DEF Buffer, n
    <3>3. size[n] \in Nat /\ size[n] < MaxSize /\ Len(data[n]) = size[n]
      BY <2>5, <2>6, <2>8, <3>2 DEF size, data
    <3>4. open \in SizeBuf
      BY <3>2, <3>3 DEF SizeBuf
    <3>5. open.data = n /\ open.cursize = size[n] /\ ~open.overflowed
      OBVIOUS
    <3> HIDE DEF open, r
    <3>6. r \in Client
      BY <2>10, <3>4 DEF Client, r
    <3>7. /\ r.message = w.message
          /\ r.halted = w.halted
          /\ r.num_backbuf = n
          /\ r.backbuf_size = size
          /\ r.backbuf_data = data
          /\ r.backbuf = open
      BY <2>10, <2>11 DEF Client, r
    <3> QED BY <2>2, <2>8, <3>1, <3>3, <3>5, <3>6, <3>7 DEF ClientGood
  <2> QED BY <2>12, <2>13
<1> QED BY <1>1, <1>2

\* A client that overflowed is dropped (sv_send.c 1164-1175).
LEMMA DropOverflowedGood ==
    ASSUME NEW c, ClientGood(c), NEW notice \in Optional
    PROVE  ClientGood(DropOverflowed(c, notice))
<1> DEFINE s == SZ_ClearMessage(c)
           n == IF c.state = "zombie" \/ notice = <<>> THEN s
                ELSE WriteBlock(s, notice, 0)
<1>1. ClientGood(s)
  BY ClearGood
<1> HIDE DEF s
<1>2. ClientGood(n)
  <2>1. CASE c.state = "zombie" \/ notice = <<>>
    BY <1>1, <2>1
  <2>2. CASE ~(c.state = "zombie" \/ notice = <<>>)
    <3>1. notice \in Seq(Unit) /\ Len(notice) < MaxSize
      BY <2>2, BlockAssumption, LengthAssumption DEF Optional
    <3> QED BY <1>1, <2>2, <3>1, WriteBlockGood
  <2> QED BY <2>1, <2>2
<1> HIDE DEF n
<1>3. ClientGood([SV_DropClient(n) EXCEPT !.send_message = TRUE])
  BY <1>2, DropClientGood, FlagsGood
<1>4. CASE ~c.overflowed
  BY <1>4 DEF DropOverflowed
<1>5. CASE ~(~c.overflowed)
  BY <1>3, <1>5 DEF DropOverflowed, n, s
<1> QED BY <1>4, <1>5

\* An optional block is empty or one of Blocks: it fits an empty buffer.
LEMMA OptionalFits ==
    ASSUME NEW d \in Optional
    PROVE  d \in Seq(Unit) /\ Len(d) < MaxSize
<1>1. CASE d \in Blocks
  BY <1>1, BlockAssumption, LengthAssumption
<1>2. CASE d = <<>>
  BY <1>2, Messages, SizeAssumption
<1> QED BY <1>1, <1>2 DEF Optional

\* What a frame appends, empty or not (sv_send.c 1046-1058).
LEMMA BroadcastGood ==
    ASSUME NEW c, ClientGood(c), NEW d \in Optional
    PROVE  ClientGood(Broadcast(c, d))
<1>1. d \in Seq(Unit) /\ Len(d) < MaxSize
  BY OptionalFits
<1>2. ClientGood(WriteBlock(c, d, 0))
  BY <1>1, WriteBlockGood
<1> QED BY <1>2 DEF Broadcast

\* SV_UpdateClientStats (sv_send.c 837-897).
LEMMA UpdateStatsGood ==
    ASSUME NEW c, ClientGood(c), NEW d \in Optional
    PROVE  ClientGood(UpdateStats(c, d))
<1>1. d \in Seq(Unit) /\ Len(d) < MaxSize
  BY OptionalFits
<1>2. ClientGood(WriteBlock(c, d, 0))
  BY <1>1, WriteBlockGood
<1> QED BY <1>2 DEF UpdateStats

\* Netchan_Transmit empties the message (net_chan.c 310-317).
LEMMA TransmitGood ==
    ASSUME NEW c, ClientGood(c)
    PROVE  ClientGood(Transmit(c))
<1>1. CASE ~Takes(c)
  BY <1>1 DEF Transmit
<1>2. CASE Takes(c)
  <2>1. PICK m \in Seq(Unit) : m = <<>> /\ Len(m) = 0
    BY Messages
  <2> DEFINE r == [c EXCEPT !.message = m, !.unacked = TRUE]
  <2>2. Transmit(c) = r
    BY <1>2, <2>1 DEF Transmit
  <2>3. c \in Client
    BY Fields
  <2>4. r \in Client
    BY <2>3 DEF Client
  <2>5. /\ r.message = m
        /\ r.halted = c.halted
        /\ r.num_backbuf = c.num_backbuf
        /\ r.backbuf_size = c.backbuf_size
        /\ r.backbuf_data = c.backbuf_data
        /\ r.backbuf = c.backbuf
    BY <2>3 DEF Client
  <2> HIDE DEF r
  <2>6. ClientGood(r)
    BY <2>1, <2>4, <2>5, SizeAssumption DEF ClientGood
  <2> QED BY <2>2, <2>6
<1> QED BY <1>1, <1>2

\* A new connection is good (sv_main.c 1348-1382).
LEMMA InitGood == Init => ClientOK
<1> SUFFICES ASSUME Init PROVE ClientOK
  OBVIOUS
<1> DEFINE open == [data |-> 1, cursize |-> 0,
                    allowoverflow |-> FALSE, overflowed |-> FALSE]
           data == [i \in Buffer |-> <<>>]
           size == [i \in Buffer |-> 0]
<1>1. 1 \in Buffer /\ 0 \in 0 .. MaxBackBuffers
  BY SizeAssumption DEF Buffer
<1>2. open \in SizeBuf
  BY <1>1 DEF SizeBuf
<1>3. data \in [Buffer -> Seq(Unit)] /\ size \in [Buffer -> Nat]
  BY Messages
<1>4. cl = [state |-> "connected", message |-> <<>>, overflowed |-> FALSE,
            num_backbuf |-> 0, backbuf_data |-> data, backbuf_size |-> size,
            backbuf |-> open, drop |-> FALSE, send_message |-> FALSE,
            unacked |-> FALSE, halted |-> FALSE]
  BY DEF Init
<1>5. open.cursize = 0 /\ ~open.overflowed
  OBVIOUS
<1> HIDE DEF open, data, size
<1>6. cl \in Client
  BY <1>1, <1>2, <1>3, <1>4, Messages DEF Client
<1>7. ClientGood(cl)
  BY <1>4, <1>5, <1>6, Messages, SizeAssumption DEF ClientGood
<1>8. sent \in Seq(Unit)
  BY Messages DEF Init
<1> QED BY <1>7, <1>8 DEF ClientOK

\* A frame that sends the client a packet keeps it good.
LEMMA SendsGood ==
    ASSUME ClientOK, NEW d \in Optional, NEW notice \in Optional,
           NEW stats \in Optional, Sends(d, notice, stats)
    PROVE  ClientOK'
<1> DEFINE b == Broadcast(cl, d)
           moved == MoveBackbuf(b)
           c == DropOverflowed(moved, notice)
           u == UpdateStats([c EXCEPT !.send_message = FALSE], stats)
<1>1. ClientGood(b)
  BY BroadcastGood DEF ClientOK
<1>2. /\ cl' = Transmit(u)
      /\ sent' = IF Takes(u) THEN sent \o u.message ELSE sent
  BY Zenon DEF Sends
<1> HIDE DEF b
<1>3. ClientGood(moved)
  BY <1>1, MoveGood
<1> HIDE DEF moved
<1>4. ClientGood(c)
  BY <1>3, DropOverflowedGood
<1> HIDE DEF c
<1>5. ClientGood(u)
  <2>1. ClientGood([c EXCEPT !.send_message = FALSE])
    BY <1>4, FlagsGood
  <2> QED BY <2>1, UpdateStatsGood
<1> HIDE DEF u
<1>6. ClientGood(cl')
  BY <1>2, <1>5, TransmitGood
<1>7. sent' \in Seq(Unit)
  <2>1. u.message \in Seq(Unit) /\ sent \in Seq(Unit)
    BY <1>5, Fields DEF ClientOK
  <2> QED BY <1>2, <2>1
<1> QED BY <1>6, <1>7 DEF ClientOK, ClientGood

\* A frame that does not keeps it good too.
LEMMA SilentGood ==
    ASSUME ClientOK, FrameSilent
    PROVE  ClientOK'
<1>1. PICK d \in Optional : \E b \in {Broadcast(cl, d)} :
         \E moved \in {MoveBackbuf(b)} :
            cl' = [moved EXCEPT !.send_message = FALSE]
  BY DEF FrameSilent
<1> DEFINE moved == MoveBackbuf(Broadcast(cl, d))
<1>2. cl' = [moved EXCEPT !.send_message = FALSE]
  BY <1>1
<1>3. ClientGood(moved)
  BY BroadcastGood, MoveGood DEF ClientOK
<1> HIDE DEF moved
<1>4. ClientGood(cl')
  BY <1>2, <1>3, FlagsGood
<1> QED BY <1>4 DEF ClientOK, ClientGood, FrameSilent

\* Every step does.
LEMMA NextGood == ClientOK /\ [Next]_vars => ClientOK'
<1> SUFFICES ASSUME ClientOK, [Next]_vars
             PROVE  ClientOK'
  OBVIOUS
<1>0. ClientGood(cl) /\ sent \in Seq(Unit)
  BY DEF ClientOK
<1>1. ASSUME NEW d \in Direct
      PROVE  d \in Seq(Unit) /\ Len(d) <= MaxSize
  BY BlockAssumption, LengthAssumption
<1>2. ASSUME NEW d \in Blocks
      PROVE  d \in Seq(Unit) /\ Len(d) < MaxSize
  BY BlockAssumption, LengthAssumption
<1>3. ClientGood(SV_ClearReliable(cl))
  <2>1. 0 <= cl.num_backbuf
    BY <1>0, Fields
  <2> QED BY <1>0, <2>1, FewerGood DEF SV_ClearReliable
<1>4. CASE Write
  <2>1. PICK d \in Blocks, slack \in Slack : cl' = WriteBlock(cl, d, slack)
    BY <1>4 DEF Write
  <2>2. slack \in Nat
    BY SizeAssumption
  <2>3. ClientGood(cl')
    BY <1>0, <1>2, <2>1, <2>2, WriteBlockGood
  <2> QED BY <1>0, <1>4, <2>3 DEF ClientOK, ClientGood, Write
<1>5. CASE WriteDirect
  <2>1. PICK d \in Direct : cl' = WriteMessage(cl, d)
    BY <1>5 DEF WriteDirect
  <2>2. ClientGood(cl')
    BY <1>0, <1>1, <2>1, WriteMessageGood
  <2> QED BY <1>0, <1>5, <2>2 DEF ClientOK, ClientGood, WriteDirect
<1>6. CASE Signon
  <2> DEFINE c == IF cl.num_backbuf > 0 THEN SV_ClearReliable(cl) ELSE cl
  <2>1. PICK d \in Direct : cl' = WriteMessage(c, d)
    BY <1>6 DEF Signon
  <2>2. ClientGood(c)
    BY <1>0, <1>3
  <2> HIDE DEF c
  <2>3. ClientGood(cl')
    BY <1>1, <2>1, <2>2, WriteMessageGood
  <2> QED BY <1>0, <1>6, <2>3 DEF ClientOK, ClientGood, Signon
<1>7. CASE LevelChanged
  <2>1. PICK d \in Direct \cup {<<>>} :
           cl' = WriteMessage(SV_ClearReliable(cl), d)
    BY <1>7 DEF LevelChanged
  <2>2. d \in Seq(Unit) /\ Len(d) <= MaxSize
    <3>1. CASE d \in Direct
      BY <1>1, <3>1
    <3>2. CASE d = <<>>
      BY <3>2, SizeAssumption
    <3> QED BY <2>1, <3>1, <3>2
  <2>3. ClientGood(cl')
    BY <1>3, <2>1, <2>2, WriteMessageGood
  <2> QED BY <1>0, <1>7, <2>3 DEF ClientOK, ClientGood, LevelChanged
<1>19. CASE InvalidIndex
  <2>1. PICK d \in Blocks :
           cl' = SV_DropClient(WriteBlock(SV_ClearReliable(cl), d, 0))
    BY <1>19 DEF InvalidIndex
  <2>2. ClientGood(WriteBlock(SV_ClearReliable(cl), d, 0))
    BY <1>2, <1>3, WriteBlockGood
  <2>3. ClientGood(cl')
    BY <2>1, <2>2, DropClientGood
  <2> QED BY <1>0, <1>19, <2>3 DEF ClientOK, ClientGood, InvalidIndex
<1>8. CASE Modellist
  <2>1. PICK vwep \in Optional, d \in Direct :
        \E k \in {IF vwep = <<>> THEN cl ELSE WriteBlock(cl, vwep, 0)} :
          cl' = WriteMessage(IF k.num_backbuf > 0
                             THEN [SZ_ClearMessage(k) EXCEPT !.num_backbuf = 1]
                             ELSE k, d)
    BY <1>8 DEF Modellist
  <2> DEFINE v == IF vwep = <<>> THEN cl ELSE WriteBlock(cl, vwep, 0)
             c == IF v.num_backbuf > 0
                  THEN [SZ_ClearMessage(v) EXCEPT !.num_backbuf = 1]
                  ELSE v
  <2>2. cl' = WriteMessage(c, d)
    BY <2>1
  <2>3. ClientGood(v)
    <3>1. CASE vwep = <<>>
      BY <1>0, <3>1
    <3>2. CASE vwep # <<>>
      <4>1. vwep \in Blocks
        BY <2>1, <3>2 DEF Optional
      <4>2. ClientGood(WriteBlock(cl, vwep, 0))
        BY <1>0, <1>2, <4>1, WriteBlockGood
      <4> QED BY <3>2, <4>2
    <3> QED BY <3>1, <3>2
  <2> HIDE DEF v
  <2>4. ClientGood(c)
    <3>1. v.num_backbuf > 0 => 1 <= v.num_backbuf
      BY <2>3, Fields
    <3> QED BY <2>3, <3>1, FewerGood
  <2> HIDE DEF c
  <2>5. ClientGood(cl')
    BY <1>1, <2>1, <2>2, <2>4, WriteMessageGood
  <2> QED BY <1>0, <1>8, <2>5 DEF ClientOK, ClientGood, Modellist
<1>9. CASE Spawn
  <2>1. PICK d \in Blocks, slack \in Slack :
           cl' = WriteBlock(SZ_ClearMessage(cl), d, slack)
    BY <1>9 DEF Spawn
  <2>2. slack \in Nat
    BY SizeAssumption
  <2>3. ClientGood(SZ_ClearMessage(cl))
    BY <1>0, ClearGood
  <2>4. ClientGood(cl')
    BY <1>2, <2>1, <2>2, <2>3, WriteBlockGood
  <2> QED BY <1>0, <1>9, <2>4 DEF ClientOK, ClientGood, Spawn
<1>10. CASE Begin
  <2>1. ClientGood(cl')
    BY <1>0, <1>10, FlagsGood DEF Begin
  <2> QED BY <1>0, <1>10, <2>1 DEF ClientOK, ClientGood, Begin
<1>11. CASE NewLevel
  <2>1. ClientGood(cl')
    BY <1>0, <1>11, FlagsGood DEF NewLevel
  <2> QED BY <1>0, <1>11, <2>1 DEF ClientOK, ClientGood, NewLevel
<1>12. CASE Drop
  <2>1. ClientGood(cl')
    BY <1>0, <1>12, DropClientGood DEF Drop
  <2> QED BY <1>0, <1>12, <2>1 DEF ClientOK, ClientGood, Drop
<1>13. CASE AskDrop
  <2>1. ClientGood(cl')
    BY <1>0, <1>13, FlagsGood DEF AskDrop
  <2> QED BY <1>0, <1>13, <2>1 DEF ClientOK, ClientGood, AskDrop
<1>14. CASE ReadPacket
  <2>1. PICK acked \in BOOLEAN : Reads(acked)
    BY <1>14 DEF ReadPacket
  <2>2. (cl.unacked /\ ~acked) \in BOOLEAN
    OBVIOUS
  <2>3. cl' = [cl EXCEPT !.send_message = TRUE,
                         !.unacked = cl.unacked /\ ~acked]
    BY <1>0, <2>1, Fields DEF Reads, Client
  <2>4. ClientGood(cl')
    BY <1>0, <2>2, <2>3, FlagsGood
  <2> QED BY <1>0, <2>1, <2>4 DEF ClientOK, ClientGood, Reads
<1>15. CASE FrameDrop
  <2>1. PICK d \in Optional :
           cl' = [SV_DropClient(Broadcast(cl, d)) EXCEPT !.drop = FALSE]
    BY <1>15 DEF FrameDrop
  <2>2. ClientGood(SV_DropClient(Broadcast(cl, d)))
    BY <1>0, BroadcastGood, DropClientGood
  <2>3. ClientGood(cl')
    BY <2>1, <2>2, FlagsGood
  <2> QED BY <1>0, <1>15, <2>3 DEF ClientOK, ClientGood, FrameDrop
<1>16. CASE FrameSilent
  BY <1>16, SilentGood
<1>17. CASE FrameSend
  <2>1. PICK d \in Optional, notice \in Optional, stats \in Optional :
           Sends(d, notice, stats)
    BY <1>17 DEF FrameSend
  <2> QED BY <2>1, SendsGood
<1>18. CASE UNCHANGED vars
  BY <1>0, <1>18 DEF ClientOK, ClientGood, vars
<1> QED
  BY <1>4, <1>5, <1>6, <1>7, <1>8, <1>9, <1>10, <1>11, <1>12, <1>13, <1>14,
     <1>15, <1>16, <1>17, <1>18, <1>19 DEF Next

\* However blocks, direct writes, signon commands, drops and frames follow one
\* another, whatever the sizes: back buffers never overflow and are never
\* full, and no write to a client ends the server (sv_nchan.c 27-71, sv_send.c
\* 1117-1148).
THEOREM ClientInvariant == Spec => []ClientOK
<1>1. Init => ClientOK
  BY InitGood
<1>2. ClientOK /\ [Next]_vars => ClientOK'
  BY NextGood
<1> QED BY <1>1, <1>2, PTL DEF Spec

-----------------------------------------------------------------------------
(* Induction on numbers, as a fact about sets of them.                      *)

\* A set of numbers that has 0 and, with a number, the next has all.
LEMMA AllNumbers ==
    ASSUME NEW T \in SUBSET Nat, 0 \in T, \A n \in T : n + 1 \in T
    PROVE  T = Nat
<1> DEFINE Less == {m \in Nat \X Nat : m[1] < m[2]}
           S == Nat \ T
<1>1. IsWellFoundedOn(Less, Nat)
  BY NatLessThanWellFounded, Zenon DEF OpToRel
<1>2. ASSUME S # {} PROVE FALSE
  <2>1. PICK s \in S : \A t \in S : ~(<<t, s>> \in Less)
    <3> HIDE DEF Less
    <3>1. S \subseteq Nat
      OBVIOUS
    <3> HIDE DEF S
    <3> QED BY <1>1, <1>2, <3>1, WFMin
  <2>2. s # 0 /\ s - 1 \in Nat /\ s \in Nat
    BY <2>1
  <2>3. <<s - 1, s>> \in Less
    BY <2>2
  <2>4. s - 1 \in T
    <3> HIDE DEF Less
    <3> QED BY <2>1, <2>2, <2>3
  <2>5. (s - 1) + 1 \in T /\ (s - 1) + 1 = s
    BY <2>2, <2>4
  <2> QED BY <2>1, <2>5
<1> QED BY <1>2

-----------------------------------------------------------------------------
(* Sequences of sequences, one behind the other.                            *)

\* q is the function of which Joined takes the last value.
Joins(q, m, t) ==
    /\ DOMAIN q = 0 .. Len(t)
    /\ q[0] = m
    /\ \A i \in 1 .. Len(t) : q[i] = q[i - 1] \o t[i]

\* There is a function that joins.
LEMMA JoinsExists ==
    ASSUME NEW m \in Seq(Unit), NEW t \in Seq(Seq(Unit))
    PROVE  \E q : q = [i \in 0 .. Len(t) |-> IF i = 0 THEN m
                                             ELSE q[i - 1] \o t[i]]
<1> DEFINE Is(q, n) ==
               /\ DOMAIN q = 0 .. n /\ q = [i \in DOMAIN q |-> q[i]]
               /\ q[0] = m /\ \A i \in 1 .. n : q[i] = q[i - 1] \o t[i]
           T == {n \in Nat : \E q : Is(q, n)}
<1>1. 0 \in T
  <2> DEFINE g == [i \in 0 .. 0 |-> m]
  <2>1. Is(g, 0)
    OBVIOUS
  <2> QED BY <2>1
<1>2. ASSUME NEW n \in Nat, \E q : Is(q, n) PROVE \E q : Is(q, n + 1)
  <2>1. PICK q : Is(q, n)
    BY <1>2
  <2> DEFINE g == [i \in 0 .. n + 1 |-> IF i = n + 1 THEN q[n] \o t[i]
                                        ELSE q[i]]
  <2>3. /\ \A i \in 0 .. n : g[i] = q[i]
        /\ g[n + 1] = q[n] \o t[n + 1]
        /\ g[0] = q[0]
    <3>1. \A i \in 0 .. n : i \in 0 .. n + 1 /\ i # n + 1
      OBVIOUS
    <3>2. n + 1 \in 0 .. n + 1 /\ 0 \in 0 .. n
      OBVIOUS
    <3> QED BY <3>1, <3>2
  <2>4. q[0] = m /\ \A i \in 1 .. n : q[i] = q[i - 1] \o t[i]
    BY <2>1
  <2>10. DOMAIN g = 0 .. n + 1 /\ g = [i \in DOMAIN g |-> g[i]]
    OBVIOUS
  <2> HIDE DEF g
  <2>5. \A i \in 1 .. n : g[i] = g[i - 1] \o t[i]
    <3> SUFFICES ASSUME NEW i \in 1 .. n PROVE g[i] = g[i - 1] \o t[i]
      OBVIOUS
    <3>1. i \in 0 .. n /\ i - 1 \in 0 .. n
      OBVIOUS
    <3> QED BY <2>3, <2>4, <3>1
  <2>6. \A i \in 1 .. n + 1 : g[i] = g[i - 1] \o t[i]
    <3> SUFFICES ASSUME NEW i \in 1 .. n + 1 PROVE g[i] = g[i - 1] \o t[i]
      OBVIOUS
    <3>1. CASE i \in 1 .. n
      BY <2>5, <3>1
    <3>2. CASE i = n + 1
      <4>1. n \in 0 .. n /\ (n + 1) - 1 = n
        OBVIOUS
      <4>2. g[n + 1] = g[n] \o t[n + 1]
        BY <2>3, <4>1
      <4> QED BY <3>2, <4>1, <4>2
    <3>3. i \in 1 .. n \/ i = n + 1
      OBVIOUS
    <3> QED BY <3>1, <3>2, <3>3
  <2>7. g[0] = m
    BY <2>3, <2>4
  <2>8. Is(g, n + 1)
    BY <2>6, <2>7, <2>10
  <2> HIDE DEF Is
  <2> QED BY <2>8
<1>3. T = Nat
  <2> HIDE DEF Is
  <2>1. T \in SUBSET Nat /\ \A n \in T : n + 1 \in T
    BY <1>2
  <2> HIDE DEF T
  <2> QED BY <1>1, <2>1, AllNumbers
<1>4. \A n \in Nat : \E q : Is(q, n)
  <2> HIDE DEF Is
  <2> QED BY <1>3
<1>5. PICK q : Is(q, Len(t))
  <2> HIDE DEF Is
  <2> QED BY <1>4
<1>6. \A i \in 0 .. Len(t) : i # 0 => i \in 1 .. Len(t)
  OBVIOUS
<1>7. \A i \in 0 .. Len(t) : q[i] = IF i = 0 THEN m ELSE q[i - 1] \o t[i]
  BY <1>5, <1>6
<1>8. q = [i \in 0 .. Len(t) |-> q[i]]
  BY <1>5
<1> QED BY <1>7, <1>8, Zenon

\* Joined is where a function that joins ends.
LEMMA JoinedIs ==
    ASSUME NEW m \in Seq(Unit), NEW t \in Seq(Seq(Unit))
    PROVE  \E q : Joins(q, m, t) /\ Joined(m, t) = q[Len(t)]
<1> DEFINE q[i \in 0 .. Len(t)] == IF i = 0 THEN m ELSE q[i - 1] \o t[i]
<1>1. Joined(m, t) = q[Len(t)]
  BY DEF Joined
<1>2. q = [i \in 0 .. Len(t) |-> IF i = 0 THEN m ELSE q[i - 1] \o t[i]]
  BY JoinsExists
<1> HIDE DEF q
<1>3. Joins(q, m, t)
  BY <1>2 DEF Joins
<1> QED BY <1>1, <1>3

\* Sequences of units are joined to sequences of units.
LEMMA JoinsTyped ==
    ASSUME NEW m \in Seq(Unit), NEW t \in Seq(Seq(Unit)), NEW q, Joins(q, m, t)
    PROVE  \A i \in 0 .. Len(t) : q[i] \in Seq(Unit)
<1> DEFINE T == {n \in Nat : n <= Len(t) => q[n] \in Seq(Unit)}
<1>1. 0 \in T
  BY DEF Joins
<1>2. ASSUME NEW n \in Nat, n \in T PROVE n + 1 \in T
  <2> SUFFICES ASSUME n + 1 <= Len(t) PROVE q[n + 1] \in Seq(Unit)
    OBVIOUS
  <2>1. n + 1 \in 1 .. Len(t) /\ (n + 1) - 1 = n /\ n <= Len(t)
    OBVIOUS
  <2>2. PICK k \in 1 .. Len(t) : k = n + 1 /\ k - 1 = n
    BY <2>1
  <2>4. q[k] = q[k - 1] \o t[k]
    BY Zenon DEF Joins
  <2>6. t[k] \in Seq(Unit)
    OBVIOUS
  <2>3. q[n] \in Seq(Unit)
    BY <1>2, <2>1
  <2>5. q[k] \in Seq(Unit)
    BY <2>2, <2>3, <2>4, <2>6
  <2> QED BY <2>2, <2>5
<1>3. T = Nat
  <2>1. T \in SUBSET Nat /\ \A n \in T : n + 1 \in T
    BY <1>2
  <2> HIDE DEF T
  <2> QED BY <1>1, <2>1, AllNumbers
<1>4. ASSUME NEW i \in 0 .. Len(t) PROVE q[i] \in Seq(Unit)
  <2>1. i \in Nat /\ i <= Len(t)
    OBVIOUS
  <2>2. i \in T
    <3> HIDE DEF T
    <3> QED BY <1>3, <2>1
  <2> QED BY <2>1, <2>2
<1> QED BY <1>4

\* There is one such function.
LEMMA JoinsOne ==
    ASSUME NEW m \in Seq(Unit), NEW t \in Seq(Seq(Unit)),
           NEW p, Joins(p, m, t), NEW q, Joins(q, m, t)
    PROVE  p[Len(t)] = q[Len(t)]
<1> DEFINE T == {n \in Nat : n <= Len(t) => p[n] = q[n]}
<1>1. 0 \in T
  BY DEF Joins
<1>2. ASSUME NEW n \in Nat, n \in T PROVE n + 1 \in T
  <2> SUFFICES ASSUME n + 1 <= Len(t) PROVE p[n + 1] = q[n + 1]
    OBVIOUS
  <2>1. n + 1 \in 1 .. Len(t) /\ (n + 1) - 1 = n /\ n <= Len(t)
    OBVIOUS
  <2>2. p[n + 1] = p[n] \o t[n + 1] /\ q[n + 1] = q[n] \o t[n + 1]
    BY <2>1 DEF Joins
  <2>3. p[n] = q[n]
    BY <1>2, <2>1
  <2> QED BY <2>2, <2>3
<1>3. T = Nat
  <2>1. T \in SUBSET Nat /\ \A n \in T : n + 1 \in T
    BY <1>2
  <2> HIDE DEF T
  <2> QED BY <1>1, <2>1, AllNumbers
<1> QED BY <1>3

\* Joined may be read from any function that joins.
LEMMA JoinedBy ==
    ASSUME NEW m \in Seq(Unit), NEW t \in Seq(Seq(Unit)), NEW q, Joins(q, m, t)
    PROVE  Joined(m, t) = q[Len(t)]
BY JoinedIs, JoinsOne

\* What is joined is a sequence of units.
LEMMA JoinedTyped ==
    ASSUME NEW m \in Seq(Unit), NEW t \in Seq(Seq(Unit))
    PROVE  Joined(m, t) \in Seq(Unit)
<1>1. PICK q : Joins(q, m, t) /\ Joined(m, t) = q[Len(t)]
  BY JoinedIs
<1>2. Len(t) \in 0 .. Len(t)
  OBVIOUS
<1> QED BY <1>1, <1>2, JoinsTyped

\* Joining t and u is joining u to what t was joined to.
LEMMA JoinedConcat ==
    ASSUME NEW m \in Seq(Unit), NEW t \in Seq(Seq(Unit)), NEW u \in Seq(Seq(Unit))
    PROVE  Joined(m, t \o u) = Joined(Joined(m, t), u)
<1>1. PICK p : Joins(p, m, t) /\ Joined(m, t) = p[Len(t)]
  BY JoinedIs
<1>2. Joined(m, t) \in Seq(Unit)
  BY JoinedTyped
<1>3. PICK r : Joins(r, Joined(m, t), u) /\ Joined(Joined(m, t), u) = r[Len(u)]
  BY <1>2, JoinedIs
<1>4. PICK a \in Nat : a = Len(t)
  OBVIOUS
<1>5. PICK b \in Nat : b = Len(u)
  OBVIOUS
<1>6. PICK v : v \in Seq(Seq(Unit)) /\ v = t \o u
  BY ConcatProperties
<1>7. /\ Len(v) = a + b
      /\ \A i \in 1 .. a : v[i] = t[i]
      /\ \A i \in 1 .. b : v[a + i] = u[i]
  BY <1>4, <1>5, <1>6, ConcatProperties
<1> DEFINE q == [i \in 0 .. a + b |-> IF i <= a THEN p[i] ELSE r[i - a]]
<1>8. /\ DOMAIN q = 0 .. a + b
      /\ \A i \in 0 .. a : q[i] = p[i]
      /\ \A i \in 1 .. b : q[a + i] = r[i]
  <2>1. \A i \in 0 .. a : i \in 0 .. a + b /\ i <= a
    OBVIOUS
  <2>2. \A i \in 1 .. b : a + i \in 0 .. a + b /\ ~(a + i <= a) /\ (a + i) - a = i
    OBVIOUS
  <2> QED BY <2>1, <2>2
<1> HIDE DEF q
<1>9. q[a] = r[0] /\ \A i \in 0 .. b : q[a + i] = r[i]
  <2>1. a \in 0 .. a /\ q[a] = p[a]
    BY <1>8
  <2>2. r[0] = p[a]
    BY <1>1, <1>3, <1>4 DEF Joins
  <2>3. \A i \in 0 .. b : i = 0 \/ i \in 1 .. b
    OBVIOUS
  <2>4. a + 0 = a
    OBVIOUS
  <2> QED BY <1>8, <2>1, <2>2, <2>3, <2>4
<1>10. \A i \in 1 .. a : q[i] = q[i - 1] \o v[i]
  <2> SUFFICES ASSUME NEW i \in 1 .. a PROVE q[i] = q[i - 1] \o v[i]
    OBVIOUS
  <2>1. i \in 0 .. a /\ i - 1 \in 0 .. a
    OBVIOUS
  <2>2. p[i] = p[i - 1] \o t[i]
    BY <1>1, <1>4 DEF Joins
  <2> QED BY <1>7, <1>8, <2>1, <2>2
<1>11. \A i \in 1 .. b : q[a + i] = q[(a + i) - 1] \o v[a + i]
  <2> SUFFICES ASSUME NEW i \in 1 .. b PROVE q[a + i] = q[(a + i) - 1] \o v[a + i]
    OBVIOUS
  <2>1. i \in 0 .. b /\ i - 1 \in 0 .. b /\ (a + i) - 1 = a + (i - 1)
    OBVIOUS
  <2>2. r[i] = r[i - 1] \o u[i]
    BY <1>3, <1>5 DEF Joins
  <2>3. q[a + i] = r[i] /\ q[a + (i - 1)] = r[i - 1] /\ v[a + i] = u[i]
    BY <1>7, <1>9, <2>1
  <2> QED BY <2>1, <2>2, <2>3
<1>12. \A i \in 1 .. a + b : q[i] = q[i - 1] \o v[i]
  <2> SUFFICES ASSUME NEW i \in 1 .. a + b PROVE q[i] = q[i - 1] \o v[i]
    OBVIOUS
  <2>1. CASE i \in 1 .. a
    BY <1>10, <2>1
  <2>2. CASE ~(i \in 1 .. a)
    <3>1. i - a \in 1 .. b /\ a + (i - a) = i
      BY <2>2
    <3> QED BY <1>11, <3>1
  <2> QED BY <2>1, <2>2
<1>13. q[0] = m
  <2>1. 0 \in 0 .. a /\ p[0] = m
    BY <1>1 DEF Joins
  <2> QED BY <1>8, <2>1
<1>14. Joins(q, m, v)
  BY <1>7, <1>8, <1>12, <1>13 DEF Joins
<1>15. Joined(m, v) = q[a + b]
  <2>1. v \in Seq(Seq(Unit)) /\ Len(v) = a + b
    BY <1>6, <1>7
  <2>2. Joined(m, v) = q[Len(v)]
    BY <1>14, <2>1, JoinedBy, Zenon
  <2> QED BY <2>1, <2>2
<1>16. b \in 0 .. b
  OBVIOUS
<1> QED BY <1>3, <1>5, <1>6, <1>9, <1>15, <1>16

\* Which of two concatenations is done first does not matter.
LEMMA Associative ==
    ASSUME NEW x \in Seq(Unit), NEW y \in Seq(Unit), NEW z \in Seq(Unit)
    PROVE  x \o (y \o z) = (x \o y) \o z
OBVIOUS

\* What is before all may be taken out.
LEMMA JoinedBehind ==
    ASSUME NEW m \in Seq(Unit), NEW n \in Seq(Unit), NEW u \in Seq(Seq(Unit))
    PROVE  Joined(m \o n, u) = m \o Joined(n, u)
<1>1. PICK p : Joins(p, n, u) /\ Joined(n, u) = p[Len(u)]
  BY JoinedIs
<1>2. PICK b \in Nat : b = Len(u)
  OBVIOUS
<1>3. \A i \in 0 .. b : p[i] \in Seq(Unit)
  BY <1>1, <1>2, JoinsTyped
<1>4. \A i \in 1 .. b : u[i] \in Seq(Unit)
  BY <1>2
<1> DEFINE q == [i \in 0 .. b |-> m \o p[i]]
<1>5. DOMAIN q = 0 .. b /\ \A i \in 0 .. b : q[i] = m \o p[i]
  OBVIOUS
<1> HIDE DEF q
<1>6. \A i \in 1 .. b : q[i] = q[i - 1] \o u[i]
  <2> SUFFICES ASSUME NEW i \in 1 .. b PROVE q[i] = q[i - 1] \o u[i]
    OBVIOUS
  <2>1. i \in 0 .. b /\ i - 1 \in 0 .. b
    OBVIOUS
  <2>2. p[i] = p[i - 1] \o u[i]
    BY <1>1, <1>2 DEF Joins
  <2>3. p[i - 1] \in Seq(Unit) /\ u[i] \in Seq(Unit)
    BY <1>3, <1>4, <2>1
  <2>4. m \o (p[i - 1] \o u[i]) = (m \o p[i - 1]) \o u[i]
    <3> QED BY <2>3, Associative, Zenon
  <2> QED BY <1>5, <2>1, <2>2, <2>4
<1>7. q[0] = m \o n
  <2>1. p[0] = n /\ 0 \in 0 .. b
    BY <1>1 DEF Joins
  <2> QED BY <1>5, <2>1
<1>8. m \o n \in Seq(Unit)
  OBVIOUS
<1>9. Joins(q, m \o n, u)
  BY <1>2, <1>5, <1>6, <1>7 DEF Joins
<1>10. Joined(m \o n, u) = q[b]
  BY <1>2, <1>8, <1>9, JoinedBy
<1>11. b \in 0 .. b
  OBVIOUS
<1> QED BY <1>1, <1>2, <1>5, <1>10, <1>11

\* A sequence of one sequence, and of none.
LEMMA JoinedFew ==
    ASSUME NEW m \in Seq(Unit), NEW d \in Seq(Unit)
    PROVE  Joined(m, <<>>) = m /\ Joined(m, <<d>>) = m \o d
<1>1. <<>> \in Seq(Seq(Unit)) /\ Len(<<>>) = 0
  OBVIOUS
<1>2. <<d>> \in Seq(Seq(Unit)) /\ Len(<<d>>) = 1 /\ <<d>>[1] = d
  OBVIOUS
<1>3. PICK p : Joins(p, m, <<>>) /\ Joined(m, <<>>) = p[0]
  BY <1>1, JoinedIs
<1>4. PICK q : Joins(q, m, <<d>>) /\ Joined(m, <<d>>) = q[1]
  BY <1>2, JoinedIs
<1>5. p[0] = m
  BY <1>3 DEF Joins
<1>6. PICK s : s = <<d>> /\ Len(s) = 1 /\ s[1] = d
  BY <1>2
<1>7. q[0] = m /\ \A i \in 1 .. Len(s) : q[i] = q[i - 1] \o s[i]
  BY <1>4, <1>6 DEF Joins
<1>8. q[1] = m \o d
  <2>1. 1 \in 1 .. 1 /\ 1 - 1 = 0
    OBVIOUS
  <2> QED BY <1>6, <1>7, <2>1
<1> QED BY <1>3, <1>4, <1>5, <1>8

-----------------------------------------------------------------------------
(* What was written in blocks.                                              *)

Parts(s) == [k \in 1 .. Len(s) |-> IF InOrder(s[k]) THEN <<s[k]>> ELSE <<>>]

\* The parts of s are its units, those to be left out made empty.
LEMMA PartsTyped ==
    ASSUME NEW s \in Seq(Unit)
    PROVE  /\ Parts(s) \in Seq(Seq(Unit)) /\ Len(Parts(s)) = Len(s)
           /\ \A k \in 1 .. Len(s) :
                 Parts(s)[k] = IF InOrder(s[k]) THEN <<s[k]>> ELSE <<>>
           /\ InBlocks(s) = Joined(<<>>, Parts(s))
           /\ InBlocks(s) \in Seq(Unit)
<1> DEFINE part(k) == IF InOrder(s[k]) THEN <<s[k]>> ELSE <<>>
<1>1. \A k \in 1 .. Len(s) : part(k) \in Seq(Unit)
  <2> HIDE DEF InOrder
  <2> QED OBVIOUS
<1>2. Parts(s) = [k \in 1 .. Len(s) |-> part(k)]
  BY DEF Parts
<1> HIDE DEF part
<1>3. PICK n \in Nat : n = Len(s)
  OBVIOUS
<1>4. Parts(s) \in [1 .. n -> Seq(Unit)]
  BY <1>1, <1>2, <1>3
<1>5. Parts(s) \in Seq(Seq(Unit)) /\ Len(Parts(s)) = Len(s)
  BY <1>3, <1>4
<1>6. InBlocks(s) = Joined(<<>>, Parts(s))
  BY DEF InBlocks, Parts
<1>7. InBlocks(s) \in Seq(Unit)
  BY <1>5, <1>6, JoinedTyped, Messages
<1> QED BY <1>2, <1>5, <1>6, <1>7 DEF part

\* What was written in blocks is told unit by unit.
LEMMA InBlocksConcat ==
    ASSUME NEW s \in Seq(Unit), NEW t \in Seq(Unit)
    PROVE  InBlocks(s \o t) = InBlocks(s) \o InBlocks(t)
<1>1. PICK u : u \in Seq(Unit) /\ u = s \o t
  BY ConcatProperties
<1>2. PICK v : v \in Seq(Seq(Unit)) /\ v = Parts(s) \o Parts(t)
  BY PartsTyped, ConcatProperties
<1>3. PICK a \in Nat, b \in Nat : a = Len(s) /\ b = Len(t)
  OBVIOUS
<1>4. /\ Len(u) = a + b
      /\ \A i \in 1 .. a : u[i] = s[i]
      /\ \A i \in 1 .. b : u[a + i] = t[i]
  BY <1>1, <1>3, ConcatProperties
<1>5. /\ Len(v) = a + b
      /\ \A i \in 1 .. a : v[i] = Parts(s)[i]
      /\ \A i \in 1 .. b : v[a + i] = Parts(t)[i]
  <2>1. PICK x : x \in Seq(Seq(Unit)) /\ x = Parts(s) /\ Len(x) = a
    BY <1>3, PartsTyped
  <2>2. PICK y : y \in Seq(Seq(Unit)) /\ y = Parts(t) /\ Len(y) = b
    BY <1>3, PartsTyped
  <2>3. v = x \o y
    BY <1>2, <2>1, <2>2
  <2>4. /\ Len(v) = a + b
        /\ \A i \in 1 .. a : v[i] = x[i]
        /\ \A i \in 1 .. b : v[a + i] = y[i]
    <3>1. \A e, f \in Seq(Seq(Unit)) :
             /\ Len(e \o f) = Len(e) + Len(f)
             /\ \A i \in 1 .. Len(e) : (e \o f)[i] = e[i]
             /\ \A i \in 1 .. Len(f) : (e \o f)[Len(e) + i] = f[i]
      BY ConcatProperties
    <3>2. x \in Seq(Seq(Unit)) /\ y \in Seq(Seq(Unit))
      BY <2>1, <2>2
    <3>3. /\ Len(x \o y) = Len(x) + Len(y)
          /\ \A i \in 1 .. Len(x) : (x \o y)[i] = x[i]
          /\ \A i \in 1 .. Len(y) : (x \o y)[Len(x) + i] = y[i]
      BY <3>1, <3>2, Zenon
    <3>4. Len(x) = a /\ Len(y) = b
      BY <2>1, <2>2
    <3> QED BY <2>3, <3>3, <3>4, Zenon
  <2> QED BY <2>1, <2>2, <2>4
<1>6. /\ Parts(u) \in Seq(Seq(Unit)) /\ Len(Parts(u)) = a + b
      /\ \A i \in 1 .. a + b :
            Parts(u)[i] = IF InOrder(u[i]) THEN <<u[i]>> ELSE <<>>
  BY <1>1, <1>4, PartsTyped
<1>7. \A i \in 1 .. a + b : Parts(u)[i] = v[i]
  <2> SUFFICES ASSUME NEW i \in 1 .. a + b PROVE Parts(u)[i] = v[i]
    OBVIOUS
  <2>1. CASE i \in 1 .. a
    <3>1. Parts(s)[i] = IF InOrder(s[i]) THEN <<s[i]>> ELSE <<>>
      BY <1>3, <2>1, PartsTyped
    <3> QED BY <1>4, <1>5, <1>6, <2>1, <3>1
  <2>2. CASE ~(i \in 1 .. a)
    <3>1. PICK j \in 1 .. b : i = a + j
      <4>1. i - a \in 1 .. b /\ i = a + (i - a)
        BY <2>2
      <4> QED BY <4>1
    <3>2. Parts(t)[j] = IF InOrder(t[j]) THEN <<t[j]>> ELSE <<>>
      BY <1>3, PartsTyped
    <3> QED BY <1>4, <1>5, <1>6, <3>1, <3>2
  <2> QED BY <2>1, <2>2
<1>8. Parts(u) = v
  BY <1>2, <1>5, <1>6, <1>7, SeqEqual
<1>9. InBlocks(u) = Joined(Joined(<<>>, Parts(s)), Parts(t))
  <2>1. <<>> \in Seq(Unit) /\ Parts(s) \in Seq(Seq(Unit)) /\ Parts(t) \in Seq(Seq(Unit))
    BY PartsTyped, Messages
  <2>2. Joined(<<>>, v) = Joined(Joined(<<>>, Parts(s)), Parts(t))
    BY <1>2, <2>1, JoinedConcat, Zenon
  <2>3. InBlocks(u) = Joined(<<>>, Parts(u))
    BY <1>1, PartsTyped, Zenon
  <2> QED BY <1>8, <2>2, <2>3
<1>10. Joined(InBlocks(s) \o <<>>, Parts(t)) = InBlocks(s) \o Joined(<<>>, Parts(t))
  <2>1. <<>> \in Seq(Unit) /\ InBlocks(s) \in Seq(Unit) /\ Parts(t) \in Seq(Seq(Unit))
    BY PartsTyped, Messages
  <2> QED BY <2>1, JoinedBehind, Zenon
<1>11. InBlocks(s) \o <<>> = InBlocks(s)
  BY PartsTyped, ConcatEmptySeq
<1> QED BY <1>1, <1>9, <1>10, <1>11, PartsTyped

\* What is written to the message itself is left out.
LEMMA DirectLeftOut ==
    ASSUME NEW d \in Direct
    PROVE  InBlocks(d) = <<>>
<1>1. d \in Seq(Unit)
  BY BlockAssumption
<1>2. PICK n \in Nat : n = Len(d)
  BY <1>1
<1>3. \A k \in 1 .. n : Parts(d)[k] = <<>>
  BY <1>1, <1>2, PartsTyped DEF InOrder
<1> DEFINE q == [i \in 0 .. n |-> <<>>]
<1>4. \A i \in 1 .. n : q[i] = q[i - 1] \o Parts(d)[i]
  <2> SUFFICES ASSUME NEW i \in 1 .. n PROVE q[i] = q[i - 1] \o Parts(d)[i]
    OBVIOUS
  <2>1. i \in 0 .. n /\ i - 1 \in 0 .. n
    OBVIOUS
  <2>2. q[i] = <<>> /\ q[i - 1] = <<>> /\ <<>> \o <<>> = <<>>
    BY <2>1
  <2> HIDE DEF q
  <2> QED BY <1>3, <2>2
<1>5. q[0] = <<>> /\ q[n] = <<>> /\ DOMAIN q = 0 .. n
  OBVIOUS
<1> HIDE DEF q
<1>6. Joins(q, <<>>, Parts(d))
  BY <1>1, <1>2, <1>4, <1>5, PartsTyped DEF Joins
<1>7. Joined(<<>>, Parts(d)) = q[n]
  <2>1. <<>> \in Seq(Unit) /\ Parts(d) \in Seq(Seq(Unit)) /\ Len(Parts(d)) = n
    BY <1>1, <1>2, PartsTyped, Messages
  <2>2. Joined(<<>>, Parts(d)) = q[Len(Parts(d))]
    BY <1>6, <2>1, JoinedBy, Zenon
  <2> QED BY <2>1, <2>2
<1> QED BY <1>1, <1>5, <1>7, PartsTyped

-----------------------------------------------------------------------------
(* What is queued for a client.                                             *)

\* Lengthening the last of t lengthens what t is joined to.
LEMMA JoinedLonger ==
    ASSUME NEW m \in Seq(Unit), NEW t \in Seq(Seq(Unit)),
           NEW u \in Seq(Seq(Unit)), NEW n \in Nat, n > 0,
           Len(t) = n, Len(u) = n,
           \A i \in 1 .. n - 1 : u[i] = t[i],
           NEW d \in Seq(Unit), u[n] = t[n] \o d
    PROVE  Joined(m, u) = Joined(m, t) \o d
<1>1. PICK p : Joins(p, m, t) /\ Joined(m, t) = p[n]
  BY JoinedIs
<1>2. \A i \in 0 .. n : p[i] \in Seq(Unit)
  BY <1>1, JoinsTyped
<1>3. n \in 1 .. n /\ n \in 0 .. n /\ n - 1 \in 0 .. n /\ n - 1 # n /\ n # 0
  OBVIOUS
<1>4. t[n] \in Seq(Unit)
  BY <1>3
<1> DEFINE q == [i \in 0 .. n |-> IF i = n THEN p[n] \o d ELSE p[i]]
<1>5. /\ DOMAIN q = 0 .. n
      /\ q[n] = p[n] \o d
      /\ \A i \in 0 .. n : i # n => q[i] = p[i]
  BY <1>3
<1> HIDE DEF q
<1>6. \A i \in 1 .. n : q[i] = q[i - 1] \o u[i]
  <2> SUFFICES ASSUME NEW i \in 1 .. n PROVE q[i] = q[i - 1] \o u[i]
    OBVIOUS
  <2>1. i \in 0 .. n /\ i - 1 \in 0 .. n /\ i - 1 # n
    OBVIOUS
  <2>2. p[i] = p[i - 1] \o t[i] /\ q[i - 1] = p[i - 1]
    BY <1>1, <1>5, <2>1 DEF Joins
  <2>3. CASE i = n
    <3>1. (p[n - 1] \o t[n]) \o d = p[n - 1] \o (t[n] \o d)
      <4>1. p[n - 1] \in Seq(Unit)
        BY <1>2, <1>3
      <4> QED BY <1>4, <4>1, Associative, Zenon
    <3> QED BY <1>5, <2>2, <2>3, <3>1
  <2>4. CASE i # n
    <3>1. i \in 1 .. n - 1
      BY <2>4
    <3> QED BY <1>5, <2>1, <2>2, <2>4, <3>1
  <2> QED BY <2>3, <2>4
<1>7. q[0] = m
  BY <1>1, <1>3, <1>5 DEF Joins
<1>8. Joins(q, m, u)
  BY <1>5, <1>6, <1>7 DEF Joins
<1>9. Joined(m, u) = q[n]
  <2>1. Joined(m, u) = q[Len(u)]
    BY <1>8, JoinedBy, Zenon
  <2> QED BY <2>1
<1> QED BY <1>1, <1>5, <1>9

\* The back buffers in their order.
Bufs(c) == [i \in 1 .. c.num_backbuf |-> Contents(c, i)]

\* The queue is the message and, behind it, the back buffers.
LEMMA BufsTyped ==
    ASSUME NEW c, ClientGood(c)
    PROVE  /\ Bufs(c) \in Seq(Seq(Unit)) /\ Len(Bufs(c)) = c.num_backbuf
           /\ \A i \in 1 .. c.num_backbuf : i \in Buffer /\ Bufs(c)[i] = Contents(c, i)
           /\ Queued(c) = Joined(c.message, Bufs(c))
           /\ Queued(c) \in Seq(Unit)
<1>1. PICK n \in Nat : n = c.num_backbuf /\ n <= MaxBackBuffers
  BY Fields, SizeAssumption
<1>2. \A i \in 1 .. n : i \in Buffer
  BY <1>1, SizeAssumption DEF Buffer
<1>3. \A i \in 1 .. n : Contents(c, i) \in Seq(Unit)
  BY <1>2, ContentsType
<1>4. Bufs(c) = [i \in 1 .. n |-> Contents(c, i)]
  BY <1>1 DEF Bufs
<1>5. Bufs(c) \in Seq(Seq(Unit)) /\ Len(Bufs(c)) = n
  BY <1>3, <1>4
<1>6. Queued(c) = Joined(c.message, Bufs(c))
  BY DEF Queued, Bufs
<1>7. Queued(c) \in Seq(Unit)
  BY <1>5, <1>6, Fields, JoinedTyped
<1> QED BY <1>1, <1>2, <1>4, <1>5, <1>6, <1>7

\* The fields a back buffer's contents are read from, and the queue.
LEMMA SameQueued ==
    ASSUME NEW c, NEW r,
           r.message = c.message,
           r.num_backbuf = c.num_backbuf,
           r.backbuf_size = c.backbuf_size,
           r.backbuf_data = c.backbuf_data
    PROVE  Queued(r) = Queued(c)
BY DEF Queued, Contents

\* backbuf is the last back buffer or a later one, and where it is the last,
\* what FinishWrite recorded as its size is where the next write goes.
OpenIs(c) ==
    c.num_backbuf > 0 =>
        /\ c.num_backbuf <= c.backbuf.data
        /\ c.backbuf.data = c.num_backbuf =>
              c.backbuf.cursize = c.backbuf_size[c.num_backbuf]

\* r is c with d appended to what is queued, unless it overflowed.
Appended(c, r, d) ==
    ~r.overflowed =>
        /\ ~c.overflowed
        /\ LastOpen(c) => LastOpen(r) /\ Queued(r) = Queued(c) \o d

\* A write to the message changes it, and nothing else unless it overflows.
LEMMA WriteMessageFields ==
    ASSUME NEW c, ClientGood(c), NEW d \in Seq(Unit), Len(d) <= MaxSize
    PROVE  LET r == WriteMessage(c, d) IN
           /\ r.state = c.state
           /\ r.num_backbuf = c.num_backbuf
           /\ r.backbuf_size = c.backbuf_size
           /\ r.backbuf_data = c.backbuf_data
           /\ r.backbuf = c.backbuf
           /\ ~r.overflowed => ~c.overflowed /\ r.message = c.message \o d
           /\ Len(c.message) + Len(d) <= MaxSize => r.overflowed = c.overflowed
<1> DEFINE r == WriteMessage(c, d)
<1>1. Len(d) \in Nat /\ Len(c.message) \in Nat
  BY Fields
<1>2. CASE Len(c.message) + Len(d) <= MaxSize
  <2>1. r = [c EXCEPT !.message = c.message \o d]
    BY <1>1, <1>2, SizeAssumption DEF WriteMessage
  <2> QED BY <2>1, Fields DEF Client
<1>3. CASE ~(Len(c.message) + Len(d) <= MaxSize)
  <2>1. r = [c EXCEPT !.message = d, !.overflowed = TRUE]
    BY <1>1, <1>3, SizeAssumption DEF WriteMessage
  <2>2. /\ r.state = c.state
        /\ r.num_backbuf = c.num_backbuf
        /\ r.backbuf_size = c.backbuf_size
        /\ r.backbuf_data = c.backbuf_data
        /\ r.backbuf = c.backbuf
        /\ r.overflowed
    BY <2>1, Fields DEF Client
  <2> HIDE DEF r
  <2> QED BY <1>3, <2>2 DEF r
<1> QED BY <1>2, <1>3

\* Without back buffers a block goes to the message.
LEMMA MessageAppends ==
    ASSUME NEW c, ClientGood(c), NEW d \in Seq(Unit), Len(d) <= MaxSize,
           c.num_backbuf = 0
    PROVE  LET r == WriteMessage(c, d) IN
           OpenIs(r) /\ r.state = c.state /\ Appended(c, r, d)
<1> DEFINE r == WriteMessage(c, d)
<1>1. /\ ClientGood(r)
      /\ r.state = c.state
      /\ r.num_backbuf = 0
      /\ ~r.overflowed => ~c.overflowed /\ r.message = c.message \o d
  BY WriteMessageGood, WriteMessageFields
<1> HIDE DEF r
<1>2. ASSUME NEW k, ClientGood(k), k.num_backbuf = 0
      PROVE  Queued(k) = k.message
  <2>1. Bufs(k) \in Seq(Seq(Unit)) /\ Len(Bufs(k)) = 0
    BY <1>2, BufsTyped
  <2>2. Bufs(k) = <<>>
    BY <2>1
  <2>3. k.message \in Seq(Unit) /\ Queued(k) = Joined(k.message, Bufs(k))
    BY <1>2, Fields, BufsTyped
  <2> QED BY <2>2, <2>3, JoinedFew, Messages
<1>3. Queued(c) = c.message /\ Queued(r) = r.message
  BY <1>1, <1>2
<1> QED BY <1>1, <1>3 DEF OpenIs, Appended, LastOpen, r

\* A sequence of one sequence.
LEMMA One ==
    ASSUME NEW d \in Seq(Unit)
    PROVE  <<d>> \in Seq(Seq(Unit)) /\ Len(<<d>>) = 1 /\ <<d>>[1] = d
OBVIOUS

\* A new back buffer adds an empty one to the queue.
LEMMA NewBackbufAppends ==
    ASSUME NEW c, ClientGood(c), c.num_backbuf # MaxBackBuffers
    PROVE  LET r == NewBackbuf(c) IN
           /\ OpenIs(r) /\ LastOpen(r)
           /\ r.num_backbuf > 0
           /\ r.state = c.state
           /\ r.overflowed = c.overflowed
           /\ Queued(r) = Queued(c)
<1> DEFINE n == c.num_backbuf + 1
           data == [c.backbuf_data EXCEPT ![n] = <<>>]
           size == [c.backbuf_size EXCEPT ![n] = 0]
           open == [data |-> n, cursize |-> 0,
                    allowoverflow |-> TRUE, overflowed |-> FALSE]
           r == NewBackbuf(c)
<1>1. /\ c.num_backbuf \in Nat /\ n \in Nat /\ n > 0
      /\ n \in 1 .. n /\ n - 1 = c.num_backbuf
      /\ n \in Buffer /\ n \in 0 .. MaxBackBuffers
  BY Fields, SizeAssumption DEF Buffer
<1>2. /\ ClientGood(r)
      /\ r = [c EXCEPT !.num_backbuf = n, !.backbuf = open,
                       !.backbuf_data = data, !.backbuf_size = size]
  BY NewBackbufGood DEF NewBackbuf
<1>3. \A i \in 1 .. n - 1 : i \in Buffer /\ i # n
  BY BufsTyped, <1>1
<1>4. /\ data[n] = <<>> /\ size[n] = 0
      /\ \A i \in 1 .. n - 1 : data[i] = c.backbuf_data[i] /\ size[i] = c.backbuf_size[i]
  <2> HIDE DEF n
  <2> QED BY <1>1, <1>3, Fields
<1> HIDE DEF data, size, r
<1>5. /\ r.message = c.message /\ r.state = c.state
      /\ r.overflowed = c.overflowed
      /\ r.num_backbuf = n
      /\ r.backbuf_size = size
      /\ r.backbuf_data = data
      /\ r.backbuf = open
  <2> HIDE DEF open, n
  <2> QED BY <1>2, Fields DEF Client
<1>6. open.data = n /\ open.cursize = 0
  OBVIOUS
<1> HIDE DEF open, n
<1>7. OpenIs(r) /\ LastOpen(r)
  BY <1>1, <1>4, <1>5, <1>6 DEF OpenIs, LastOpen
<1>8. Queued(r) = Queued(c)
  <2>1. /\ Bufs(c) \in Seq(Seq(Unit)) /\ Len(Bufs(c)) = n - 1
        /\ \A i \in 1 .. n - 1 : Bufs(c)[i] = Contents(c, i)
        /\ Queued(c) = Joined(c.message, Bufs(c))
        /\ Queued(c) \in Seq(Unit)
    BY <1>1, BufsTyped
  <2>2. /\ Bufs(r) \in Seq(Seq(Unit)) /\ Len(Bufs(r)) = n
        /\ \A i \in 1 .. n : Bufs(r)[i] = Contents(r, i)
        /\ Queued(r) = Joined(c.message, Bufs(r))
    BY <1>2, <1>5, BufsTyped
  <2>3. \A i \in 1 .. n - 1 : Contents(r, i) = Contents(c, i)
    BY <1>4, <1>5 DEF Contents
  <2>4. Contents(r, n) = <<>>
    <3>1. Contents(r, n) \in Seq(Unit) /\ Len(Contents(r, n)) = 0
      <4>1. ASSUME NEW k \in Buffer
            PROVE  Contents(r, k) \in Seq(Unit) /\ Len(Contents(r, k)) = r.backbuf_size[k]
        BY <1>2, ContentsType
      <4>2. n \in Buffer /\ r.backbuf_size[n] = 0
        BY <1>1, <1>4, <1>5
      <4> QED BY <4>1, <4>2
    <3> QED BY <3>1
  <2>5. \A i \in 1 .. n - 1 : i \in 1 .. n
    BY <1>1
  <2>6. \A i \in 1 .. n - 1 : Bufs(r)[i] = Bufs(c)[i]
    BY <2>1, <2>2, <2>3, <2>5
  <2>7. Bufs(r)[n] = <<>>
    BY <1>1, <2>2, <2>4
  <2>8. PICK x \in Seq(Seq(Unit)) : x = Bufs(c) /\ Len(x) = n - 1
    BY <2>1
  <2>9. PICK e \in Seq(Seq(Unit)) : e = <<<<>>>> /\ Len(e) = 1 /\ e[1] = <<>>
    BY One, Messages
  <2>10. PICK y \in Seq(Seq(Unit)) : y = Bufs(r) /\ Len(y) = n
    BY <2>2
  <2>11. y = x \o e
    <3>1. /\ x \o e \in Seq(Seq(Unit))
          /\ Len(x \o e) = Len(x) + Len(e)
          /\ \A i \in 1 .. Len(x) : (x \o e)[i] = x[i]
          /\ \A i \in 1 .. Len(e) : (x \o e)[Len(x) + i] = e[i]
      BY ConcatProperties
    <3>2. PICK z \in Seq(Seq(Unit)) : z = x \o e
      BY <3>1
    <3>3. Len(z) = n /\ \A i \in 1 .. n - 1 : z[i] = x[i]
      BY <1>1, <2>8, <2>9, <3>1, <3>2
    <3>4. z[n] = <<>>
      <4>1. 1 \in 1 .. Len(e) /\ Len(x) + 1 = n
        BY <1>1, <2>8, <2>9
      <4> QED BY <2>9, <3>1, <3>2, <4>1
    <3>5. \A i \in 1 .. n : i \in 1 .. n - 1 \/ i = n
      BY <1>1
    <3>6. \A i \in 1 .. n : y[i] = z[i]
      BY <2>6, <2>7, <2>8, <2>10, <3>3, <3>4, <3>5
    <3>7. y = z
      BY <2>10, <3>3, <3>6, SeqEqual
    <3> QED BY <3>2, <3>7
  <2>12. Joined(c.message, x \o e) = Joined(Joined(c.message, x), e)
    <3>1. c.message \in Seq(Unit)
      BY Fields
    <3> QED BY <3>1, JoinedConcat, Zenon
  <2>13. Joined(Queued(c), <<<<>>>>) = Queued(c) \o <<>>
    BY <2>1, Messages, JoinedFew, Zenon
  <2>14. Queued(c) \o <<>> = Queued(c)
    BY <2>1, ConcatEmptySeq
  <2> QED BY <2>1, <2>2, <2>8, <2>9, <2>10, <2>11, <2>12, <2>13, <2>14, Zenon
<1> QED BY <1>1, <1>5, <1>7, <1>8 DEF r

\* What was written is what is read, where the sizes agree.
LEMMA ContentsAre ==
    ASSUME NEW c, ClientGood(c), NEW i \in Buffer,
           c.backbuf_size[i] <= Len(c.backbuf_data[i])
    PROVE  Contents(c, i) = SubSeq(c.backbuf_data[i], 1, c.backbuf_size[i])
<1>1. PICK x \in Seq(Unit) : x = c.backbuf_data[i]
  BY Fields
<1>2. PICK n \in Nat : n = c.backbuf_size[i]
  BY Fields
<1>3. Contents(c, i) = [k \in 1 .. n |-> IF k <= Len(x) THEN x[k] ELSE Stale]
  BY <1>1, <1>2 DEF Contents
<1>4. n <= Len(x)
  BY <1>1, <1>2
<1>5. SubSeq(x, 1, n) = [k \in 1 .. n |-> x[k]]
  BY <1>4
<1>6. \A k \in 1 .. n : k <= Len(x)
  BY <1>4
<1>7. Contents(c, i) = [k \in 1 .. n |-> x[k]]
  BY <1>3, <1>6
<1> QED BY <1>1, <1>2, <1>5, <1>7

\* With back buffers a block goes behind the last.
LEMMA BackbufAppends ==
    ASSUME NEW c, ClientGood(c), NEW d \in Seq(Unit), c.num_backbuf > 0,
           c.backbuf.cursize + Len(d) < MaxSize
    PROVE  LET r == ClientReliable_FinishWrite(WriteBackbuf(c, d)) IN
           /\ c.num_backbuf <= c.backbuf.data => OpenIs(r)
           /\ r.state = c.state
           /\ r.overflowed = c.overflowed
           /\ OpenIs(c) /\ LastOpen(c) =>
                 LastOpen(r) /\ Queued(r) = Queued(c) \o d
<1> DEFINE at == c.backbuf.cursize + Len(d)
           new == SubSeq(c.backbuf_data[c.backbuf.data], 1, c.backbuf.cursize) \o d
           r == ClientReliable_FinishWrite(WriteBackbuf(c, d))
<1>1. /\ ClientGood(r)
      /\ r.state = c.state
      /\ r.message = c.message
      /\ r.overflowed = c.overflowed
      /\ r.num_backbuf = c.num_backbuf
      /\ r.backbuf.data = c.backbuf.data
      /\ r.backbuf.cursize = at
      /\ r.backbuf_size = [c.backbuf_size EXCEPT ![c.num_backbuf] = at]
      /\ r.backbuf_data = [c.backbuf_data EXCEPT ![c.backbuf.data] = new]
  BY BackbufWriteGood
<1> HIDE DEF r
<1>2. PICK n \in Nat : n = c.num_backbuf /\ n > 0 /\ n \in 1 .. n
  BY Fields
<1>3. n \in Buffer /\ \A i \in 1 .. n - 1 : i \in Buffer /\ i # n /\ i \in 1 .. n
  BY <1>2, BufsTyped
<1>4. r.backbuf_size[n] = at
  <2> HIDE DEF at
  <2> QED BY <1>1, <1>2, <1>3, Fields
<1>5. c.num_backbuf <= c.backbuf.data => OpenIs(r)
  BY <1>1, <1>2, <1>4 DEF OpenIs
<1>6. ASSUME OpenIs(c), LastOpen(c)
      PROVE  LastOpen(r) /\ Queued(r) = Queued(c) \o d
  <2>1. c.backbuf.data = n /\ c.backbuf.cursize = c.backbuf_size[n]
    BY <1>2, <1>6 DEF OpenIs, LastOpen
  <2>2. LastOpen(r)
    BY <1>1, <1>2, <2>1 DEF LastOpen
  <2>3. PICK old \in Seq(Unit) : old = c.backbuf_data[n]
    BY <1>3, Fields
  <2>4. PICK k \in Nat : k = c.backbuf.cursize /\ k <= Len(old)
    BY <1>2, <2>1, <2>3, Fields DEF ClientGood
  <2>5. Contents(c, n) = SubSeq(old, 1, k)
    BY <1>3, <2>1, <2>3, <2>4, ContentsAre
  <2>6. new = SubSeq(old, 1, k) \o d /\ at = k + Len(d)
    BY <2>1, <2>3, <2>4
  <2>7. new \in Seq(Unit) /\ Len(new) = at
    <3> HIDE DEF new, at
    <3>1. SubSeq(old, 1, k) \in Seq(Unit) /\ Len(SubSeq(old, 1, k)) = k
      BY <2>4
    <3> QED BY <2>6, <3>1
  <2> HIDE DEF new, at
  <2>8. r.backbuf_data[n] = new
    BY <1>1, <1>3, <2>1, Fields
  <2>9. Contents(r, n) = new
    <3>1. Contents(r, n) = SubSeq(r.backbuf_data[n], 1, r.backbuf_size[n])
      <4>1. r.backbuf_size[n] <= Len(r.backbuf_data[n])
        BY <1>1, <1>4, <2>7, <2>8, Fields
      <4> QED BY <1>1, <1>3, <4>1, ContentsAre
    <3>2. SubSeq(new, 1, Len(new)) = new
      BY <2>7
    <3> QED BY <1>4, <2>7, <2>8, <3>1, <3>2
  <2>10. \A i \in 1 .. n - 1 :
            /\ r.backbuf_data[i] = c.backbuf_data[i]
            /\ r.backbuf_size[i] = c.backbuf_size[i]
    BY <1>1, <1>2, <1>3, <2>1, Fields
  <2>11. \A i \in 1 .. n - 1 : Contents(r, i) = Contents(c, i)
    BY <2>10 DEF Contents
  <2>12. PICK x \in Seq(Seq(Unit)) : x = Bufs(c) /\ Len(x) = n
    BY <1>2, BufsTyped
  <2>13. PICK y \in Seq(Seq(Unit)) : y = Bufs(r) /\ Len(y) = n
    BY <1>1, <1>2, BufsTyped
  <2>18. \A i \in 1 .. n : x[i] = Contents(c, i)
    BY <1>2, <2>12, BufsTyped
  <2>19. \A i \in 1 .. n : y[i] = Contents(r, i)
    <3>1. ClientGood(r) /\ r.num_backbuf = n
      BY <1>1, <1>2
    <3>2. \A i \in 1 .. r.num_backbuf : Bufs(r)[i] = Contents(r, i)
      BY <3>1, BufsTyped
    <3> QED BY <2>13, <3>1, <3>2
  <2>14. \A i \in 1 .. n - 1 : y[i] = x[i]
    BY <1>3, <2>11, <2>18, <2>19
  <2>15. y[n] = x[n] \o d
    BY <1>2, <2>5, <2>6, <2>9, <2>18, <2>19
  <2>16. Joined(c.message, y) = Joined(c.message, x) \o d
    <3>1. PICK m \in Seq(Unit) : m = c.message
      BY Fields
    <3>2. n > 0
      BY <1>2
    <3>3. Len(x) = n
      BY <2>12
    <3>4. Len(y) = n
      BY <2>13
    <3>5. Joined(m, y) = Joined(m, x) \o d
      BY <2>14, <2>15, <3>2, <3>3, <3>4, JoinedLonger, ZenonT(40)
    <3> QED BY <3>1, <3>5
  <2>17. Queued(r) = Joined(c.message, y) /\ Queued(c) = Joined(c.message, x)
    BY <1>1, <2>12, <2>13, BufsTyped
  <2> QED BY <2>2, <2>16, <2>17
<1> QED BY <1>1, <1>5, <1>6 DEF r

\* The check leaves what is queued as it is, unless all back buffers are full.
LEMMA CheckBlockKeeps ==
    ASSUME NEW c, ClientGood(c), OpenIs(c), NEW maxsize \in Nat
    PROVE  LET k == ClientReliableCheckBlock(c, maxsize) IN
           /\ k.state = c.state
           /\ k.num_backbuf > 0 => k.num_backbuf <= k.backbuf.data
           /\ ~k.overflowed =>
                 /\ OpenIs(k)
                 /\ ~c.overflowed
                 /\ LastOpen(c) => LastOpen(k) /\ Queued(k) = Queued(c)
<1> DEFINE fits == IF c.num_backbuf = 0
                   THEN ~MightOverflow(Len(c.message), maxsize)
                   ELSE ~MightOverflow(c.backbuf.cursize, maxsize)
           k == ClientReliableCheckBlock(c, maxsize)
<1>1. CASE fits
  <2>1. k = c
    BY <1>1 DEF ClientReliableCheckBlock
  <2> QED BY <2>1 DEF OpenIs
<1>2. CASE ~fits /\ c.num_backbuf = MaxBackBuffers
  <2> DEFINE open == [c.backbuf EXCEPT !.cursize = 0]
  <2>1. k = [c EXCEPT !.backbuf = open, !.overflowed = TRUE]
    BY <1>2, Fields DEF ClientReliableCheckBlock, Client
  <2>2. open.data = c.backbuf.data
    BY Fields DEF SizeBuf
  <2> HIDE DEF open, k
  <2>3. /\ k.state = c.state /\ k.num_backbuf = c.num_backbuf
        /\ k.backbuf = open
        /\ k.overflowed
    BY <2>1, Fields DEF Client
  <2> QED BY <2>2, <2>3 DEF OpenIs, k
<1>3. CASE ~fits /\ c.num_backbuf # MaxBackBuffers
  <2>1. k = NewBackbuf(c)
    BY <1>3 DEF ClientReliableCheckBlock
  <2>2. /\ OpenIs(NewBackbuf(c)) /\ LastOpen(NewBackbuf(c))
        /\ NewBackbuf(c).state = c.state
        /\ NewBackbuf(c).overflowed = c.overflowed
        /\ Queued(NewBackbuf(c)) = Queued(c)
    BY <1>3, NewBackbufAppends
  <2> HIDE DEF k
  <2> QED BY <2>1, <2>2 DEF OpenIs, k
<1> QED BY <1>1, <1>2, <1>3

\* A block is appended to what is queued.
LEMMA WriteBlockAppends ==
    ASSUME NEW c, ClientGood(c), OpenIs(c), NEW d \in Seq(Unit),
           Len(d) < MaxSize, NEW slack \in Nat
    PROVE  LET r == WriteBlock(c, d, slack) IN
           OpenIs(r) /\ r.state = c.state /\ Appended(c, r, d)
<1> DEFINE k == ClientReliableCheckBlock(c, Len(d) + slack)
           r == WriteBlock(c, d, slack)
<1>1. /\ Len(d) \in Nat
      /\ Len(d) + slack \in Nat
      /\ Len(d) <= Len(d) + slack
      /\ Len(d) <= MaxSize
  BY SizeAssumption
<1>2. /\ ClientGood(k)
      /\ k.num_backbuf > 0 => k.backbuf.cursize + Len(d) < MaxSize
  BY <1>1, CheckBlockGood
<1>3. /\ k.state = c.state
      /\ k.num_backbuf > 0 => k.num_backbuf <= k.backbuf.data
      /\ ~k.overflowed =>
            /\ OpenIs(k)
            /\ ~c.overflowed
            /\ LastOpen(c) => LastOpen(k) /\ Queued(k) = Queued(c)
  BY <1>1, CheckBlockKeeps
<1> HIDE DEF k, r
<1>4. CASE k.num_backbuf > 0
  <2>1. r = ClientReliable_FinishWrite(WriteBackbuf(k, d))
    BY <1>4 DEF WriteBlock, ClientReliableWrite, k, r
  <2>2. /\ OpenIs(r)
        /\ r.state = k.state
        /\ r.overflowed = k.overflowed
        /\ OpenIs(k) /\ LastOpen(k) =>
              LastOpen(r) /\ Queued(r) = Queued(k) \o d
    BY <1>2, <1>3, <1>4, <2>1, BackbufAppends
  <2> QED BY <1>3, <2>2 DEF Appended, r
<1>5. CASE ~(k.num_backbuf > 0)
  <2>1. k.num_backbuf = 0
    BY <1>2, <1>5, Fields
  <2>2. r = WriteMessage(k, d)
    BY <1>5 DEF WriteBlock, ClientReliableWrite, k, r
  <2>3. OpenIs(r) /\ r.state = k.state /\ Appended(k, r, d)
    BY <1>1, <1>2, <2>1, <2>2, MessageAppends
  <2> QED BY <1>3, <2>3 DEF Appended, r
<1> QED BY <1>4, <1>5

\* Moving the first back buffer leaves what is queued as it is.
LEMMA MoveKeeps ==
    ASSUME NEW c, ClientGood(c), OpenIs(c)
    PROVE  LET r == MoveBackbuf(c) IN
           OpenIs(r) /\ r.state = c.state /\ Appended(c, r, <<>>)
<1>1. Queued(c) \o <<>> = Queued(c)
  BY BufsTyped, ConcatEmptySeq
<1>2. CASE c.num_backbuf = 0 \/ ~FitsMessage(c)
  BY <1>1, <1>2 DEF MoveBackbuf, Appended
<1>3. CASE ~(c.num_backbuf = 0 \/ ~FitsMessage(c))
  <2> DEFINE x == Contents(c, 1)
             w == WriteMessage(c, x)
             n == c.num_backbuf - 1
             data == [i \in Buffer |-> IF i \in 1 .. n THEN Contents(w, i + 1)
                                       ELSE w.backbuf_data[i]]
             size == [i \in Buffer |-> IF i \in 1 .. n THEN w.backbuf_size[i + 1]
                                       ELSE w.backbuf_size[i]]
             r == MoveBackbuf(c)
  <2>1. 1 \in Buffer /\ 1 \in 1 .. c.num_backbuf
    BY <1>3, Fields, SizeAssumption DEF Buffer
  <2>2. x \in Seq(Unit) /\ Len(x) = c.backbuf_size[1] /\ Len(x) <= MaxSize
    BY <2>1, ContentsType, SizeAssumption, Fields DEF ClientGood
  <2>3. Len(c.message) + Len(x) <= MaxSize
    BY <1>3, <2>2, Fields, SizeAssumption DEF FitsMessage
  <2> HIDE DEF x
  <2>4. /\ ClientGood(w)
        /\ w.state = c.state
        /\ w.num_backbuf = c.num_backbuf
        /\ w.backbuf_size = c.backbuf_size
        /\ w.backbuf_data = c.backbuf_data
        /\ w.overflowed = c.overflowed
        /\ ~w.overflowed => w.message = c.message \o x
    BY <2>2, <2>3, WriteMessageGood, WriteMessageFields
  <2>5. /\ n \in Nat /\ n < c.num_backbuf /\ c.num_backbuf = n + 1
        /\ n + 1 <= MaxBackBuffers
    BY <1>3, Fields, SizeAssumption
  <2>6. ShiftBackbufs(w) = [w EXCEPT !.backbuf_data = data,
                                     !.backbuf_size = size, !.num_backbuf = n]
    BY <2>4 DEF ShiftBackbufs
  <2> DEFINE s == ShiftBackbufs(w)
  <2> HIDE DEF w, n, data, size, s
  <2>7. /\ s.message = w.message
        /\ s.state = w.state
        /\ s.overflowed = w.overflowed
        /\ s.num_backbuf = n
        /\ s.backbuf_size = size
        /\ s.backbuf_data = data
    BY <2>4, <2>6, Fields DEF Client, s
  <2>8. /\ r.message = w.message
        /\ r.state = w.state
        /\ r.overflowed = w.overflowed
        /\ r.num_backbuf = n
        /\ r.backbuf_size = size
        /\ r.backbuf_data = data
        /\ n > 0 => r.backbuf.data = n /\ r.backbuf.cursize = size[n]
    <3>1. CASE n = 0
      <4>1. r = s
        BY <1>3, <2>7, <3>1 DEF MoveBackbuf, s, w, x
      <4> HIDE DEF r
      <4> QED BY <2>7, <3>1, <4>1
    <3>2. CASE n # 0
      <4> DEFINE open == [data |-> n, cursize |-> size[n],
                          allowoverflow |-> FALSE, overflowed |-> FALSE]
      <4>1. r = [s EXCEPT !.backbuf = open]
        BY <1>3, <2>7, <3>2 DEF MoveBackbuf, ReopenBackbuf, s, w, x
      <4>2. open.data = n /\ open.cursize = size[n]
        OBVIOUS
      <4>3. w \in Client
        BY <2>4, Fields
      <4>4. s = [w EXCEPT !.backbuf_data = data,
                          !.backbuf_size = size, !.num_backbuf = n]
        BY <2>6 DEF s
      <4> HIDE DEF open, r
      <4>5. r.backbuf = open /\ r.message = w.message /\ r.state = w.state
            /\ r.overflowed = w.overflowed
            /\ r.num_backbuf = n /\ r.backbuf_size = size /\ r.backbuf_data = data
        BY <4>1, <4>3, <4>4 DEF Client
      <4> QED BY <4>2, <4>5
    <3> QED BY <3>1, <3>2
  <2>9. ClientGood(r)
    BY MoveGood
  <2> HIDE DEF r
  <2>10. OpenIs(r) /\ LastOpen(r)
    BY <2>5, <2>8 DEF OpenIs, LastOpen
  <2>11. \A i \in 1 .. n : /\ i \in Buffer /\ i + 1 \in Buffer
                           /\ i + 1 \in 1 .. n + 1
    BY <2>5, SizeAssumption DEF Buffer
  <2>12. \A i \in 1 .. n : Contents(r, i) = Contents(c, i + 1)
    <3> SUFFICES ASSUME NEW i \in 1 .. n
                 PROVE  Contents(r, i) = Contents(c, i + 1)
      OBVIOUS
    <3>1. data[i] = Contents(w, i + 1) /\ size[i] = w.backbuf_size[i + 1]
      BY <2>11 DEF data, size
    <3>2. PICK y \in Seq(Unit) : /\ y = Contents(w, i + 1)
                                 /\ Len(y) = w.backbuf_size[i + 1]
      BY <2>4, <2>11, ContentsType
    <3>3. r.backbuf_data[i] = y /\ r.backbuf_size[i] = Len(y)
      BY <2>8, <3>1, <3>2
    <3>4. Contents(r, i) = SubSeq(y, 1, Len(y))
      <4>1. ASSUME NEW j \in Buffer, r.backbuf_size[j] <= Len(r.backbuf_data[j])
            PROVE  Contents(r, j) = SubSeq(r.backbuf_data[j], 1, r.backbuf_size[j])
        BY <2>9, <4>1, ContentsAre
      <4>2. Len(y) <= Len(y)
        OBVIOUS
      <4> QED BY <2>11, <3>3, <4>1, <4>2
    <3>5. SubSeq(y, 1, Len(y)) = y
      OBVIOUS
    <3>6. Contents(w, i + 1) = Contents(c, i + 1)
      BY <2>4 DEF Contents
    <3> QED BY <3>2, <3>4, <3>5, <3>6
  <2>13. ASSUME ~r.overflowed
         PROVE  Queued(r) = Queued(c)
    <3>1. r.message = c.message \o x
      BY <2>4, <2>8, <2>13
    <3>2. PICK m \in Seq(Unit) : m = c.message
      BY Fields
    <3>3. PICK t \in Seq(Seq(Unit)) : /\ t = Bufs(r) /\ Len(t) = n
                                      /\ \A i \in 1 .. n : t[i] = Contents(r, i)
      BY <2>8, <2>9, BufsTyped
    <3>4. PICK v \in Seq(Seq(Unit)) :
             /\ v = Bufs(c) /\ Len(v) = n + 1
             /\ \A i \in 1 .. n + 1 : v[i] = Contents(c, i)
      BY <2>5, BufsTyped
    <3>5. PICK e \in Seq(Seq(Unit)) : e = <<x>> /\ Len(e) = 1 /\ e[1] = x
      BY <2>2, One
    <3>6. v = e \o t
      <4>1. /\ e \o t \in Seq(Seq(Unit))
            /\ Len(e \o t) = Len(e) + Len(t)
            /\ \A i \in 1 .. Len(e) : (e \o t)[i] = e[i]
            /\ \A i \in 1 .. Len(t) : (e \o t)[Len(e) + i] = t[i]
        BY ConcatProperties
      <4>2. PICK z \in Seq(Seq(Unit)) : z = e \o t
        BY <4>1
      <4>3. Len(z) = n + 1 /\ \A i \in 1 .. n : z[i + 1] = t[i]
        BY <2>5, <3>3, <3>5, <4>1, <4>2
      <4>4. z[1] = x
        BY <3>5, <4>1, <4>2
      <4>5. v[1] = x
        BY <2>5, <3>4 DEF x
      <4>6. \A i \in 1 .. n : v[i + 1] = t[i]
        BY <2>11, <2>12, <3>3, <3>4
      <4>7. \A i \in 1 .. n + 1 : i = 1 \/ (i - 1 \in 1 .. n /\ (i - 1) + 1 = i)
        BY <2>5
      <4>8. \A i \in 1 .. n + 1 : v[i] = z[i]
        BY <4>3, <4>4, <4>5, <4>6, <4>7
      <4>9. v = z
        BY <3>4, <4>3, <4>8, SeqEqual
      <4> QED BY <4>2, <4>9
    <3>7. Joined(m, e \o t) = Joined(Joined(m, e), t)
      BY <3>2, <3>3, <3>5, JoinedConcat, Zenon
    <3>8. Joined(m, <<x>>) = m \o x
      BY <2>2, <3>2, JoinedFew, Zenon
    <3>9. Queued(c) = Joined(m, v) /\ Queued(r) = Joined(m \o x, t)
      BY <2>9, <3>1, <3>2, <3>3, <3>4, BufsTyped
    <3> QED BY <3>5, <3>6, <3>7, <3>8, <3>9, Zenon
  <2> QED BY <1>1, <2>4, <2>8, <2>10, <2>13 DEF Appended, r
<1> QED BY <1>2, <1>3

\* Nothing that the stream is read from changes.
SameStream(c, r) ==
    /\ r.message = c.message
    /\ r.overflowed = c.overflowed
    /\ r.num_backbuf = c.num_backbuf
    /\ r.backbuf_size = c.backbuf_size
    /\ r.backbuf_data = c.backbuf_data
    /\ r.backbuf = c.backbuf

\* Then the stream does not change, nor does what OpenIs says.
LEMMA SameStreamKeeps ==
    ASSUME NEW c, ClientGood(c), NEW r, SameStream(c, r)
    PROVE  /\ Queued(r) = Queued(c)
           /\ LastOpen(c) => LastOpen(r)
           /\ OpenIs(c) => OpenIs(r)
           /\ Appended(c, r, <<>>)
<1>1. Queued(c) \o <<>> = Queued(c)
  BY BufsTyped, ConcatEmptySeq
<1>2. Queued(r) = Queued(c)
  BY SameQueued DEF SameStream
<1> QED BY <1>1, <1>2 DEF SameStream, OpenIs, LastOpen, Appended

\* The flags and the state are not what the stream is read from.
LEMMA FlagsKeep ==
    ASSUME NEW c, ClientGood(c), NEW b \in BOOLEAN, NEW u \in BOOLEAN,
           NEW s \in {"connected", "spawned", "zombie"}
    PROVE  /\ SameStream(c, [c EXCEPT !.send_message = b])
           /\ SameStream(c, [c EXCEPT !.drop = b])
           /\ SameStream(c, [c EXCEPT !.send_message = b, !.unacked = u])
           /\ SameStream(c, [c EXCEPT !.state = s])
           /\ [c EXCEPT !.send_message = b].state = c.state
           /\ [c EXCEPT !.drop = b].state = c.state
           /\ [c EXCEPT !.send_message = b, !.unacked = u].state = c.state
           /\ [c EXCEPT !.state = s].state = s
<1>1. c \in Client
  BY Fields
<1>2. SameStream(c, [c EXCEPT !.send_message = b])
  BY <1>1 DEF Client, SameStream
<1>3. SameStream(c, [c EXCEPT !.drop = b])
  BY <1>1 DEF Client, SameStream
<1>4. SameStream(c, [c EXCEPT !.send_message = b, !.unacked = u])
  BY <1>1 DEF Client, SameStream
<1>5. SameStream(c, [c EXCEPT !.state = s])
  BY <1>1 DEF Client, SameStream
<1> QED BY <1>1, <1>2, <1>3, <1>4, <1>5 DEF Client

\* What is written to the message leaves the back buffers as they are.
LEMMA MessageOpen ==
    ASSUME NEW c, ClientGood(c), OpenIs(c), NEW d \in Seq(Unit), Len(d) <= MaxSize
    PROVE  OpenIs(WriteMessage(c, d))
BY WriteMessageFields DEF OpenIs

\* SZ_Clear of the message does not touch the back buffers.
LEMMA ClearOpen ==
    ASSUME NEW c, ClientGood(c), OpenIs(c)
    PROVE  OpenIs(SZ_ClearMessage(c)) /\ SZ_ClearMessage(c).state = c.state
<1> DEFINE r == SZ_ClearMessage(c)
<1>1. /\ r.num_backbuf = c.num_backbuf
      /\ r.backbuf_size = c.backbuf_size
      /\ r.backbuf = c.backbuf
      /\ r.state = c.state
  BY Fields DEF SZ_ClearMessage, Client
<1> QED BY <1>1 DEF OpenIs

\* Clearing leaves no back buffer, or the one Cmd_Modellist_f sets.
LEMMA FewerOpen ==
    ASSUME NEW c, ClientGood(c), OpenIs(c), NEW n \in {0, 1}, n <= c.num_backbuf
    PROVE  OpenIs([SZ_ClearMessage(c) EXCEPT !.num_backbuf = n])
<1> DEFINE r == [SZ_ClearMessage(c) EXCEPT !.num_backbuf = n]
<1>1. /\ r.num_backbuf = n
      /\ r.backbuf_size = c.backbuf_size
      /\ r.backbuf = c.backbuf
  BY Fields DEF SZ_ClearMessage, Client
<1>2. c.num_backbuf \in Nat /\ c.backbuf.data \in Nat
  BY Fields, SizeAssumption DEF Buffer
<1> HIDE DEF r
<1>3. OpenIs(r)
  BY <1>1, <1>2 DEF OpenIs
<1> QED BY <1>3 DEF r

\* SV_DropClient writes to the message only, and makes a zombie.
LEMMA DropClientOpen ==
    ASSUME NEW c, ClientGood(c), OpenIs(c)
    PROVE  OpenIs(SV_DropClient(c)) /\ SV_DropClient(c).state = "zombie"
<1> DEFINE w == WriteMessage(c, <<Disconnect>>)
<1>1. <<Disconnect>> \in Seq(Unit) /\ Len(<<Disconnect>>) <= MaxSize
  BY Messages, SizeAssumption
<1>2. ClientGood(w) /\ OpenIs(w)
  BY <1>1, WriteMessageGood, MessageOpen
<1>3. SV_DropClient(c) = [w EXCEPT !.state = "zombie"]
  BY DEF SV_DropClient
<1> HIDE DEF w
<1>4. SameStream(w, SV_DropClient(c)) /\ SV_DropClient(c).state = "zombie"
  <2>1. w \in Client
    BY <1>2, Fields
  <2> QED BY <1>3, <2>1 DEF Client, SameStream
<1> QED BY <1>2, <1>4, SameStreamKeeps

\* A client that overflowed is a zombie behind it, any other is as it was.
LEMMA DropOverflowedOpen ==
    ASSUME NEW c, ClientGood(c), OpenIs(c), NEW notice \in Optional
    PROVE  /\ OpenIs(DropOverflowed(c, notice))
           /\ c.overflowed => DropOverflowed(c, notice).state = "zombie"
           /\ ~c.overflowed => DropOverflowed(c, notice) = c
<1> DEFINE s == SZ_ClearMessage(c)
           n == IF c.state = "zombie" \/ notice = <<>> THEN s
                ELSE WriteBlock(s, notice, 0)
<1>1. ClientGood(s) /\ OpenIs(s)
  BY ClearGood, ClearOpen
<1> HIDE DEF s
<1>2. ClientGood(n) /\ OpenIs(n)
  <2>1. notice \in Seq(Unit) /\ Len(notice) < MaxSize
    BY OptionalFits
  <2>2. ClientGood(WriteBlock(s, notice, 0)) /\ OpenIs(WriteBlock(s, notice, 0))
    BY <1>1, <2>1, WriteBlockGood, WriteBlockAppends
  <2> QED BY <1>1, <2>2
<1> HIDE DEF n
<1> DEFINE k == SV_DropClient(n)
<1>3. ClientGood(k) /\ OpenIs(k) /\ k.state = "zombie"
  BY <1>2, DropClientGood, DropClientOpen
<1> HIDE DEF k
<1> DEFINE r == [k EXCEPT !.send_message = TRUE]
<1>4. OpenIs(r) /\ r.state = "zombie"
  <2>1. SameStream(k, r) /\ r.state = k.state
    BY <1>3, FlagsKeep
  <2> HIDE DEF r
  <2> QED BY <1>3, <2>1, SameStreamKeeps
<1>5. c.overflowed => DropOverflowed(c, notice) = r
  BY DEF DropOverflowed, r, k, n, s
<1>6. ~c.overflowed => DropOverflowed(c, notice) = c
  BY DEF DropOverflowed
<1> HIDE DEF r
<1> QED BY <1>4, <1>5, <1>6

\* What is broadcast and the stats are appended, when they are written.
LEMMA OptionalAppends ==
    ASSUME NEW c, ClientGood(c), OpenIs(c), NEW d \in Optional
    PROVE  /\ OpenIs(Broadcast(c, d))
           /\ Broadcast(c, d).state = c.state
           /\ \E e \in Seq(Unit) : Appended(c, Broadcast(c, d), e)
           /\ OpenIs(UpdateStats(c, d))
           /\ UpdateStats(c, d).state = c.state
           /\ \E e \in Seq(Unit) : Appended(c, UpdateStats(c, d), e)
<1> DEFINE w == WriteBlock(c, d, 0)
<1>1. d \in Seq(Unit) /\ Len(d) < MaxSize
  BY OptionalFits
<1>2. OpenIs(w) /\ w.state = c.state /\ Appended(c, w, d)
  BY <1>1, WriteBlockAppends
<1>3. Appended(c, c, <<>>) /\ <<>> \in Seq(Unit)
  BY SameStreamKeeps, Messages DEF SameStream
<1>4. Broadcast(c, d) \in {c, w} /\ UpdateStats(c, d) \in {c, w}
  BY DEF Broadcast, UpdateStats
<1> HIDE DEF w
<1> QED BY <1>1, <1>2, <1>3, <1>4

\* What is appended twice is appended one behind the other.
LEMMA AppendedTwice ==
    ASSUME NEW c, NEW r, NEW q, ClientGood(c),
           NEW d \in Seq(Unit), Appended(c, r, d),
           NEW e \in Seq(Unit), Appended(r, q, e)
    PROVE  Appended(c, q, d \o e)
<1>1. PICK x \in Seq(Unit) : x = Queued(c)
  BY BufsTyped
<1>2. (x \o d) \o e = x \o (d \o e)
  BY Associative, Zenon
<1> QED BY <1>1, <1>2 DEF Appended

\* Netchan_Transmit moves the message to what was sent: both together stay the
\* same.
LEMMA TransmitKeeps ==
    ASSUME NEW c, ClientGood(c), OpenIs(c), NEW s \in Seq(Unit)
    PROVE  LET r == Transmit(c)
               q == IF Takes(c) THEN s \o c.message ELSE s
           IN
           /\ OpenIs(r)
           /\ r.state = c.state
           /\ r.overflowed = c.overflowed
           /\ q \o Queued(r) = s \o Queued(c)
<1>0. ASSUME NEW x \in Seq(Unit), NEW y \in Seq(Unit)
      PROVE  s \o (x \o y) = (s \o x) \o y
  BY Associative, Zenon
<1>1. CASE ~Takes(c)
  BY <1>1 DEF Transmit
<1>2. CASE Takes(c)
  <2>1. PICK m \in Seq(Unit) : m = <<>>
    BY Messages
  <2> DEFINE r == [c EXCEPT !.message = m, !.unacked = TRUE]
  <2>2. Transmit(c) = r
    BY <1>2, <2>1 DEF Transmit
  <2>3. /\ r.message = m
        /\ r.state = c.state
        /\ r.overflowed = c.overflowed
        /\ r.num_backbuf = c.num_backbuf
        /\ r.backbuf_size = c.backbuf_size
        /\ r.backbuf_data = c.backbuf_data
        /\ r.backbuf = c.backbuf
    BY Fields DEF Client
  <2> HIDE DEF r
  <2>4. ClientGood(r)
    BY <2>2, TransmitGood
  <2>5. OpenIs(r)
    BY <2>3 DEF OpenIs
  <2>6. Bufs(r) = Bufs(c)
    BY <2>3 DEF Bufs, Contents
  <2>7. PICK v \in Seq(Seq(Unit)) : v = Bufs(c)
    BY BufsTyped
  <2>8. PICK k \in Seq(Unit) : k = c.message
    BY Fields
  <2>9. Queued(r) = Joined(<<>>, v) /\ Queued(c) = Joined(k, v)
    BY <2>1, <2>3, <2>4, <2>6, <2>7, <2>8, BufsTyped
  <2>10. Joined(k \o <<>>, v) = k \o Joined(<<>>, v)
    BY <2>7, <2>8, Messages, JoinedBehind, Zenon
  <2>11. k \o <<>> = k
    BY ConcatEmptySeq
  <2>12. PICK j \in Seq(Unit) : j = Joined(<<>>, v)
    BY Messages, JoinedTyped
  <2>13. s \o (k \o j) = (s \o k) \o j
    BY <1>0
  <2>14. (s \o k) \o Queued(r) = s \o Queued(c)
    BY <2>9, <2>10, <2>11, <2>12, <2>13, Zenon
  <2> QED BY <1>2, <2>2, <2>3, <2>5, <2>8, <2>14
<1> QED BY <1>1, <1>2

\* What a frame does before the client's packet.
LEMMA FrameKeeps ==
    ASSUME ClientOK, OpenIs(cl), NEW d \in Optional
    PROVE  LET moved == MoveBackbuf(Broadcast(cl, d)) IN
           /\ ClientGood(moved)
           /\ OpenIs(moved)
           /\ moved.state = cl.state
           /\ \E e \in Seq(Unit) : Appended(cl, moved, e)
<1> DEFINE b == Broadcast(cl, d)
           moved == MoveBackbuf(b)
<1>1. ClientGood(cl)
  BY DEF ClientOK
<1>2. ClientGood(b) /\ OpenIs(b) /\ b.state = cl.state
  BY <1>1, BroadcastGood, OptionalAppends
<1>3. PICK e \in Seq(Unit) : Appended(cl, b, e)
  BY <1>1, OptionalAppends
<1> HIDE DEF b
<1>4. ClientGood(moved)
  BY <1>2, MoveGood
<1>5. OpenIs(moved) /\ moved.state = b.state /\ Appended(b, moved, <<>>)
  BY <1>2, MoveKeeps
<1> HIDE DEF moved
<1>6. e \o <<>> \in Seq(Unit)
  BY Messages
<1>7. Appended(cl, moved, e \o <<>>)
  BY <1>1, <1>3, <1>5, Messages, AppendedTwice, Zenon
<1> QED BY <1>2, <1>4, <1>5, <1>6, <1>7 DEF moved, b

\* A frame that sends the client a packet: the stream goes on, for a client
\* that is not dropped.
LEMMA SendsKeeps ==
    ASSUME ClientOK, OpenIs(cl), NEW d \in Optional, NEW notice \in Optional,
           NEW stats \in Optional, Sends(d, notice, stats)
    PROVE  /\ OpenIs(cl')
           /\ cl'.state = "spawned" /\ ~cl'.overflowed /\ LastOpen(cl) =>
                 \E e \in Seq(Unit) :
                    sent' \o Queued(cl') = (sent \o Queued(cl)) \o e
<1> DEFINE moved == MoveBackbuf(Broadcast(cl, d))
           c == DropOverflowed(moved, notice)
           k == [c EXCEPT !.send_message = FALSE]
           u == UpdateStats(k, stats)
<1>0. ClientGood(cl) /\ sent \in Seq(Unit)
  BY DEF ClientOK
<1>10. ASSUME NEW x \in Seq(Unit), NEW z \in Seq(Unit)
       PROVE  sent \o (x \o z) = (sent \o x) \o z
  <2>1. PICK y \in Seq(Unit) : y = sent
    BY <1>0
  <2>2. y \o (x \o z) = (y \o x) \o z
    BY Associative, Zenon
  <2> QED BY <2>1, <2>2
<1>1. /\ cl' = Transmit(u)
      /\ sent' = IF Takes(u) THEN sent \o u.message ELSE sent
  BY Zenon DEF Sends
<1>2. /\ ClientGood(moved) /\ OpenIs(moved) /\ moved.state = cl.state
      /\ \E e \in Seq(Unit) : Appended(cl, moved, e)
  BY FrameKeeps
<1> HIDE DEF moved
<1>3. ClientGood(c) /\ OpenIs(c)
  BY <1>2, DropOverflowedGood, DropOverflowedOpen
<1>4. /\ moved.overflowed => c.state = "zombie"
      /\ ~moved.overflowed => c = moved
  BY <1>2, DropOverflowedOpen
<1> HIDE DEF c
<1>5. ClientGood(k) /\ SameStream(c, k) /\ k.state = c.state
  BY <1>3, FlagsGood, FlagsKeep
<1> HIDE DEF k
<1>6. OpenIs(k) /\ Appended(c, k, <<>>)
  BY <1>3, <1>5, SameStreamKeeps
<1>7. /\ ClientGood(u) /\ OpenIs(u) /\ u.state = k.state
      /\ \E e \in Seq(Unit) : Appended(k, u, e)
  BY <1>5, <1>6, UpdateStatsGood, OptionalAppends
<1> HIDE DEF u
<1>8. /\ OpenIs(cl') /\ cl'.state = u.state /\ cl'.overflowed = u.overflowed
      /\ sent' \o Queued(cl') = sent \o Queued(u)
  BY <1>0, <1>1, <1>7, TransmitKeeps
<1>9. ASSUME cl'.state = "spawned", ~cl'.overflowed, LastOpen(cl)
      PROVE  \E e \in Seq(Unit) :
                sent' \o Queued(cl') = (sent \o Queued(cl)) \o e
  <2>1. c = moved
    BY <1>4, <1>5, <1>7, <1>8, <1>9
  <2>2. PICK e \in Seq(Unit) : Appended(cl, c, e)
    BY <1>2, <2>1
  <2>3. PICK f \in Seq(Unit) : Appended(k, u, f)
    BY <1>7
  <2>4. Appended(cl, k, e \o <<>>)
    BY <1>0, <1>6, <2>2, Messages, AppendedTwice, Zenon
  <2>5. PICK g \in Seq(Unit) : g = e \o <<>>
    BY ConcatEmptySeq
  <2>6. Appended(cl, u, g \o f)
    BY <1>0, <2>3, <2>4, <2>5, AppendedTwice, Zenon
  <2>7. PICK h \in Seq(Unit) : h = g \o f
    BY ConcatProperties
  <2>8. Queued(u) = Queued(cl) \o h
    BY <1>8, <1>9, <2>6, <2>7 DEF Appended
  <2>9. sent \o (Queued(cl) \o h) = (sent \o Queued(cl)) \o h
    <3>1. PICK x \in Seq(Unit) : x = Queued(cl)
      BY <1>0, BufsTyped
    <3>2. sent \o (x \o h) = (sent \o x) \o h
      BY <1>10, Zenon
    <3> QED BY <3>1, <3>2
  <2> QED BY <1>8, <2>8, <2>9
<1> QED BY <1>8, <1>9

\* A frame that does not: the same.
LEMMA SilentKeeps ==
    ASSUME ClientOK, OpenIs(cl), FrameSilent
    PROVE  /\ OpenIs(cl')
           /\ cl'.state = cl.state
           /\ \E e \in Seq(Unit) : Appended(cl, cl', e)
<1>1. PICK d \in Optional : \E b \in {Broadcast(cl, d)} :
         \E m \in {MoveBackbuf(b)} :
            cl' = [m EXCEPT !.send_message = FALSE]
  BY DEF FrameSilent
<1> DEFINE moved == MoveBackbuf(Broadcast(cl, d))
<1>2. cl' = [moved EXCEPT !.send_message = FALSE]
  BY <1>1
<1>3. /\ ClientGood(moved) /\ OpenIs(moved) /\ moved.state = cl.state
      /\ \E e \in Seq(Unit) : Appended(cl, moved, e)
  BY FrameKeeps
<1> HIDE DEF moved
<1>4. SameStream(moved, cl') /\ cl'.state = moved.state
  BY <1>2, <1>3, FlagsKeep
<1>5. OpenIs(cl') /\ Appended(moved, cl', <<>>)
  BY <1>3, <1>4, SameStreamKeeps
<1>6. PICK e \in Seq(Unit) : Appended(cl, moved, e)
  BY <1>3
<1>7. ClientGood(cl)
  BY DEF ClientOK
<1>8. Appended(cl, cl', e \o <<>>)
  BY <1>5, <1>6, <1>7, Messages, AppendedTwice, Zenon
<1>9. e \o <<>> \in Seq(Unit)
  BY Messages
<1> QED BY <1>3, <1>4, <1>5, <1>8, <1>9

\* backbuf stays where OpenIs says.
LEMMA OpenStep == ClientOK /\ OpenIs(cl) /\ [Next]_vars => OpenIs(cl')
<1> SUFFICES ASSUME ClientOK, OpenIs(cl), [Next]_vars
             PROVE  OpenIs(cl')
  OBVIOUS
<1>0. ClientGood(cl) /\ OpenIs(cl)
  BY DEF ClientOK
<1>1. ASSUME NEW d \in Direct
      PROVE  d \in Seq(Unit) /\ Len(d) <= MaxSize
  BY BlockAssumption, LengthAssumption
<1>2. ASSUME NEW d \in Blocks
      PROVE  d \in Seq(Unit) /\ Len(d) < MaxSize
  BY BlockAssumption, LengthAssumption
<1>3. ClientGood(SV_ClearReliable(cl)) /\ OpenIs(SV_ClearReliable(cl))
  <2>1. 0 <= cl.num_backbuf
    BY <1>0, Fields
  <2> QED BY <1>0, <2>1, FewerGood, FewerOpen DEF SV_ClearReliable
<1>4. CASE Write
  <2>1. PICK d \in Blocks, slack \in Slack : cl' = WriteBlock(cl, d, slack)
    BY <1>4 DEF Write
  <2>2. slack \in Nat
    BY SizeAssumption
  <2> QED BY <1>0, <1>2, <2>1, <2>2, WriteBlockAppends
<1>5. CASE WriteDirect
  <2>1. PICK d \in Direct : cl' = WriteMessage(cl, d)
    BY <1>5 DEF WriteDirect
  <2> QED BY <1>0, <1>1, <2>1, MessageOpen
<1>6. CASE Signon
  <2> DEFINE c == IF cl.num_backbuf > 0 THEN SV_ClearReliable(cl) ELSE cl
  <2>1. PICK d \in Direct : cl' = WriteMessage(c, d)
    BY <1>6 DEF Signon
  <2>2. ClientGood(c) /\ OpenIs(c)
    BY <1>0, <1>3
  <2> HIDE DEF c
  <2> QED BY <1>1, <2>1, <2>2, MessageOpen
<1>7. CASE LevelChanged
  <2>1. PICK d \in Direct \cup {<<>>} :
           cl' = WriteMessage(SV_ClearReliable(cl), d)
    BY <1>7 DEF LevelChanged
  <2>2. d \in Seq(Unit) /\ Len(d) <= MaxSize
    <3>1. CASE d \in Direct
      BY <1>1, <3>1
    <3>2. CASE d = <<>>
      BY <3>2, SizeAssumption
    <3> QED BY <2>1, <3>1, <3>2
  <2> QED BY <1>3, <2>1, <2>2, MessageOpen
<1>8. CASE InvalidIndex
  <2>1. PICK d \in Blocks :
           cl' = SV_DropClient(WriteBlock(SV_ClearReliable(cl), d, 0))
    BY <1>8 DEF InvalidIndex
  <2> DEFINE w == WriteBlock(SV_ClearReliable(cl), d, 0)
  <2>2. ClientGood(w) /\ OpenIs(w)
    BY <1>2, <1>3, WriteBlockGood, WriteBlockAppends
  <2> HIDE DEF w
  <2> QED BY <2>1, <2>2, DropClientOpen DEF w
<1>9. CASE Modellist
  <2>1. PICK vwep \in Optional, d \in Direct :
        \E k \in {IF vwep = <<>> THEN cl ELSE WriteBlock(cl, vwep, 0)} :
          cl' = WriteMessage(IF k.num_backbuf > 0
                             THEN [SZ_ClearMessage(k) EXCEPT !.num_backbuf = 1]
                             ELSE k, d)
    BY <1>9 DEF Modellist
  <2> DEFINE k == IF vwep = <<>> THEN cl ELSE WriteBlock(cl, vwep, 0)
             e == IF k.num_backbuf > 0
                  THEN [SZ_ClearMessage(k) EXCEPT !.num_backbuf = 1]
                  ELSE k
  <2>2. cl' = WriteMessage(e, d)
    BY <2>1
  <2>3. ClientGood(k) /\ OpenIs(k)
    <3>1. vwep \in Seq(Unit) /\ Len(vwep) < MaxSize
      BY OptionalFits
    <3> QED BY <1>0, <3>1, WriteBlockGood, WriteBlockAppends
  <2> HIDE DEF k
  <2>4. ClientGood(e) /\ OpenIs(e)
    <3>1. k.num_backbuf > 0 => 1 <= k.num_backbuf
      BY <2>3, Fields
    <3> QED BY <2>3, <3>1, FewerGood, FewerOpen
  <2> HIDE DEF e
  <2> QED BY <1>1, <2>2, <2>4, MessageOpen
<1>10. CASE Spawn
  <2>1. PICK d \in Blocks, slack \in Slack :
           cl' = WriteBlock(SZ_ClearMessage(cl), d, slack)
    BY <1>10 DEF Spawn
  <2>2. ClientGood(SZ_ClearMessage(cl)) /\ OpenIs(SZ_ClearMessage(cl))
    BY <1>0, ClearGood, ClearOpen
  <2>3. slack \in Nat
    BY SizeAssumption
  <2> QED BY <1>2, <2>1, <2>2, <2>3, WriteBlockAppends
<1>11. CASE Begin
  BY <1>0, <1>11, FlagsKeep, SameStreamKeeps DEF Begin
<1>12. CASE NewLevel
  BY <1>0, <1>12, FlagsKeep, SameStreamKeeps DEF NewLevel
<1>13. CASE Drop
  BY <1>0, <1>13, DropClientOpen DEF Drop
<1>14. CASE AskDrop
  BY <1>0, <1>14, FlagsKeep, SameStreamKeeps DEF AskDrop
<1>15. CASE ReadPacket
  <2>1. PICK acked \in BOOLEAN : cl' =
           [cl EXCEPT !.send_message = TRUE, !.unacked = @ /\ ~acked]
    BY <1>15 DEF ReadPacket, Reads
  <2>2. PICK un \in BOOLEAN : un = (cl.unacked /\ ~acked)
    OBVIOUS
  <2>3. cl' = [cl EXCEPT !.send_message = TRUE, !.unacked = un]
    BY <1>0, <2>1, <2>2, Fields DEF Client
  <2> QED BY <1>0, <2>3, FlagsKeep, SameStreamKeeps
<1>16. CASE FrameDrop
  <2>1. PICK d \in Optional :
           cl' = [SV_DropClient(Broadcast(cl, d)) EXCEPT !.drop = FALSE]
    BY <1>16 DEF FrameDrop
  <2> DEFINE b == Broadcast(cl, d)
             k == SV_DropClient(b)
  <2>2. ClientGood(b) /\ OpenIs(b)
    BY <1>0, BroadcastGood, OptionalAppends
  <2> HIDE DEF b
  <2>3. ClientGood(k) /\ OpenIs(k)
    BY <2>2, DropClientGood, DropClientOpen
  <2>4. cl' = [k EXCEPT !.drop = FALSE]
    BY <2>1 DEF b
  <2> HIDE DEF k
  <2> QED BY <2>3, <2>4, FlagsKeep, SameStreamKeeps
<1>17. CASE FrameSilent
  BY <1>17, SilentKeeps
<1>18. CASE FrameSend
  BY <1>18, SendsKeeps DEF FrameSend
<1>19. CASE UNCHANGED vars
  BY <1>19 DEF vars
<1> QED BY <1>4, <1>5, <1>6, <1>7, <1>8, <1>9, <1>10, <1>11, <1>12, <1>13,
           <1>14, <1>15, <1>16, <1>17, <1>18, <1>19 DEF Next

\* A sequence is a prefix of itself with another behind it.
LEMMA PrefixOfConcat ==
    ASSUME NEW x \in Seq(Unit), NEW y \in Seq(Unit)
    PROVE  IsPrefix(x, x \o y)
<1>1. PICK z \in Seq(Unit) : z = x \o y
  BY ConcatProperties
<1>2. PICK n \in Nat : n = Len(x)
  OBVIOUS
<1>3. n <= Len(z) /\ \A i \in 1 .. n : z[i] = x[i]
  BY <1>1, <1>2
<1>4. SubSeq(x, 1, n) = [i \in 1 .. n |-> x[i]]
  BY <1>2
<1>5. SubSeq(z, 1, n) = [i \in 1 .. n |-> z[i]]
  BY <1>3
<1>6. SubSeq(x, 1, n) = SubSeq(z, 1, n)
  BY <1>3, <1>4, <1>5
<1> QED BY <1>1, <1>2, <1>3, <1>6 DEF IsPrefix

\* What is sent or queued only grows, so what of it was written in blocks does.
LEMMA StreamGrows ==
    ASSUME ClientOK, NEW e \in Seq(Unit),
           sent' \o Queued(cl') = (sent \o Queued(cl)) \o e
    PROVE  IsPrefix(Stream(cl, sent), Stream(cl', sent'))
<1>1. PICK x \in Seq(Unit) : x = sent \o Queued(cl)
  BY BufsTyped, ConcatProperties DEF ClientOK
<1>2. InBlocks(x) \in Seq(Unit) /\ InBlocks(e) \in Seq(Unit)
  BY PartsTyped
<1>3. InBlocks(x \o e) = InBlocks(x) \o InBlocks(e)
  BY InBlocksConcat
<1>4. Stream(cl, sent) = InBlocks(x)
  BY <1>1 DEF Stream
<1>5. Stream(cl', sent') = InBlocks(x \o e)
  BY <1>1 DEF Stream
<1>6. IsPrefix(InBlocks(x), InBlocks(x) \o InBlocks(e))
  BY <1>2, PrefixOfConcat
<1> QED BY <1>3, <1>4, <1>5, <1>6

\* What is written to the message gets before the back buffers, but it is not
\* looked at.
LEMMA DirectKeeps ==
    ASSUME ClientOK, WriteDirect, ~cl'.overflowed
    PROVE  IsPrefix(Stream(cl, sent), Stream(cl', sent'))
<1>0. ClientGood(cl) /\ sent \in Seq(Unit)
  BY DEF ClientOK
<1>1. PICK d \in Direct : cl' = WriteMessage(cl, d)
  BY DEF WriteDirect
<1>2. d \in Seq(Unit) /\ Len(d) <= MaxSize
  BY BlockAssumption, LengthAssumption
<1>3. /\ ClientGood(cl')
      /\ cl'.num_backbuf = cl.num_backbuf
      /\ cl'.backbuf_size = cl.backbuf_size
      /\ cl'.backbuf_data = cl.backbuf_data
      /\ cl'.message = cl.message \o d
  BY <1>0, <1>1, <1>2, WriteMessageGood, WriteMessageFields
<1>4. sent' = sent
  BY DEF WriteDirect
<1>5. PICK v \in Seq(Seq(Unit)) : v = Bufs(cl) /\ v = Bufs(cl')
  BY <1>0, <1>3, BufsTyped DEF Bufs, Contents
<1>6. PICK m \in Seq(Unit) : m = cl.message
  BY <1>0, Fields
<1>7. PICK j \in Seq(Unit) : j = Joined(<<>>, v)
  BY Messages, JoinedTyped
<1>8. ASSUME NEW k \in Seq(Unit)
      PROVE  Joined(k, v) = k \o j
  <2>1. Joined(k \o <<>>, v) = k \o Joined(<<>>, v)
    BY Messages, JoinedBehind, Zenon
  <2>2. k \o <<>> = k
    BY ConcatEmptySeq
  <2> QED BY <1>7, <2>1, <2>2
<1>9. PICK n \in Seq(Unit) : n = m \o d
  BY <1>2, ConcatProperties
<1>10. Queued(cl) = m \o j /\ Queued(cl') = n \o j
  <2>1. Queued(cl) = Joined(m, v) /\ Queued(cl') = Joined(n, v)
    BY <1>0, <1>3, <1>5, <1>6, <1>9, BufsTyped
  <2> QED BY <1>8, <2>1
<1>11. InBlocks(n) = InBlocks(m)
  <2>1. InBlocks(m \o d) = InBlocks(m) \o InBlocks(d)
    BY <1>2, InBlocksConcat
  <2>2. InBlocks(d) = <<>>
    BY DirectLeftOut
  <2>3. InBlocks(m) \o <<>> = InBlocks(m)
    BY PartsTyped, ConcatEmptySeq
  <2> QED BY <1>9, <2>1, <2>2, <2>3
<1>12. ASSUME NEW k \in Seq(Unit)
       PROVE  InBlocks(sent \o (k \o j)) = InBlocks(sent) \o (InBlocks(k) \o InBlocks(j))
  <2>1. PICK w \in Seq(Unit) : w = k \o j
    BY ConcatProperties
  <2>2. InBlocks(w) = InBlocks(k) \o InBlocks(j)
    BY <2>1, InBlocksConcat
  <2>3. InBlocks(sent \o w) = InBlocks(sent) \o InBlocks(w)
    BY <1>0, InBlocksConcat
  <2> QED BY <2>1, <2>2, <2>3
<1>13. Stream(cl', sent') = Stream(cl, sent)
  BY <1>4, <1>10, <1>11, <1>12 DEF Stream
<1>14. Stream(cl, sent) \in Seq(Unit)
  <2>1. PICK w \in Seq(Unit) : w = sent \o Queued(cl)
    BY <1>0, BufsTyped, ConcatProperties
  <2> QED BY <2>1, PartsTyped DEF Stream
<1>15. IsPrefix(Stream(cl, sent), Stream(cl, sent) \o <<>>)
  BY <1>14, Messages, PrefixOfConcat
<1>16. Stream(cl, sent) \o <<>> = Stream(cl, sent)
  BY <1>14, ConcatEmptySeq
<1> QED BY <1>13, <1>15, <1>16

\* A step of a client in the game loses nothing.
LEMMA StepKeeps ==
    ASSUME ClientOK, OpenIs(cl), [Next]_vars,
           cl.state = "spawned", cl'.state = "spawned",
           ~cl'.overflowed, LastOpen(cl)
    PROVE  IsPrefix(Stream(cl, sent), Stream(cl', sent'))
<1>0. ClientGood(cl) /\ OpenIs(cl)
  BY DEF ClientOK
<1>1. ASSUME NEW e \in Seq(Unit), Appended(cl, cl', e), sent' = sent
      PROVE  IsPrefix(Stream(cl, sent), Stream(cl', sent'))
  <2>1. Queued(cl') = Queued(cl) \o e
    BY <1>1 DEF Appended
  <2>2. sent \in Seq(Unit)
    BY DEF ClientOK
  <2>3. PICK x \in Seq(Unit) : x = Queued(cl)
    BY <1>0, BufsTyped
  <2>4. sent \o (x \o e) = (sent \o x) \o e
    BY <2>2, Associative, Zenon
  <2>5. sent' \o Queued(cl') = (sent \o Queued(cl)) \o e
    BY <1>1, <2>1, <2>3, <2>4
  <2> QED BY <2>5, StreamGrows
<1>2. ASSUME SameStream(cl, cl'), sent' = sent
      PROVE  IsPrefix(Stream(cl, sent), Stream(cl', sent'))
  <2>1. Appended(cl, cl', <<>>)
    BY <1>0, <1>2, SameStreamKeeps
  <2> QED BY <1>1, <1>2, <2>1, Messages
<1>3. CASE Write
  <2>1. PICK d \in Blocks, slack \in Slack : cl' = WriteBlock(cl, d, slack)
    BY <1>3 DEF Write
  <2>2. d \in Seq(Unit) /\ Len(d) < MaxSize /\ slack \in Nat
    BY BlockAssumption, LengthAssumption, SizeAssumption
  <2>3. Appended(cl, cl', d)
    BY <1>0, <2>1, <2>2, WriteBlockAppends
  <2>4. sent' = sent
    BY <1>3 DEF Write
  <2> QED BY <1>1, <2>2, <2>3, <2>4
<1>4. CASE WriteDirect
  BY <1>4, DirectKeeps
<1>5. CASE Signon \/ LevelChanged \/ InvalidIndex \/ Modellist \/ Spawn \/ Begin
  BY <1>5 DEF Signon, LevelChanged, InvalidIndex, Modellist, Spawn, Begin
<1>6. CASE NewLevel
  BY <1>0, <1>6, FlagsKeep DEF NewLevel
<1>7. CASE Drop
  BY <1>0, <1>7, DropClientOpen DEF Drop
<1>8. CASE AskDrop
  BY <1>0, <1>2, <1>8, FlagsKeep DEF AskDrop
<1>9. CASE ReadPacket
  <2>1. PICK acked \in BOOLEAN : cl' =
           [cl EXCEPT !.send_message = TRUE, !.unacked = @ /\ ~acked]
    BY <1>9 DEF ReadPacket, Reads
  <2>2. PICK un \in BOOLEAN : un = (cl.unacked /\ ~acked)
    OBVIOUS
  <2>3. cl' = [cl EXCEPT !.send_message = TRUE, !.unacked = un]
    BY <1>0, <2>1, <2>2, Fields DEF Client
  <2>4. SameStream(cl, cl')
    BY <1>0, <2>3, FlagsKeep
  <2>5. sent' = sent
    BY <1>9 DEF ReadPacket, Reads
  <2> QED BY <1>2, <2>4, <2>5
<1>10. CASE FrameDrop
  <2>1. PICK d \in Optional :
           cl' = [SV_DropClient(Broadcast(cl, d)) EXCEPT !.drop = FALSE]
    BY <1>10 DEF FrameDrop
  <2> DEFINE b == Broadcast(cl, d)
             k == SV_DropClient(b)
  <2>2. ClientGood(b) /\ OpenIs(b)
    BY <1>0, BroadcastGood, OptionalAppends
  <2> HIDE DEF b
  <2>3. ClientGood(k) /\ k.state = "zombie"
    BY <2>2, DropClientGood, DropClientOpen
  <2>4. cl' = [k EXCEPT !.drop = FALSE]
    BY <2>1 DEF b
  <2> HIDE DEF k
  <2>5. cl'.state = "zombie"
    BY <2>3, <2>4, FlagsKeep
  <2> QED BY <2>5
<1>11. CASE FrameSilent
  <2>1. PICK e \in Seq(Unit) : Appended(cl, cl', e)
    BY <1>11, SilentKeeps
  <2>2. sent' = sent
    BY <1>11 DEF FrameSilent
  <2> QED BY <1>1, <2>1, <2>2
<1>12. CASE FrameSend
  <2>1. PICK d \in Optional, notice \in Optional, stats \in Optional :
           Sends(d, notice, stats)
    BY <1>12 DEF FrameSend
  <2>2. PICK e \in Seq(Unit) :
           sent' \o Queued(cl') = (sent \o Queued(cl)) \o e
    BY <2>1, SendsKeeps
  <2> QED BY <2>2, StreamGrows
<1>13. CASE UNCHANGED vars
  BY <1>2, <1>13 DEF vars, SameStream
<1> QED BY <1>3, <1>4, <1>5, <1>6, <1>7, <1>8, <1>9, <1>10, <1>11, <1>12,
           <1>13 DEF Next

\* The inductive invariant NothingLost rests on.
StreamInv == ClientOK /\ OpenIs(cl)

\* To a client in the game, what was written stays written: no step between
\* frames and no frame loses a unit of it, nor lets a block overtake another
\* (sv_nchan.c 27-71, sv_send.c 1117-1148).
THEOREM NothingIsLost == Spec => NothingLost
<1>1. Init => StreamInv
  BY InitGood DEF Init, OpenIs, StreamInv
<1>2. StreamInv /\ [Next]_vars => StreamInv'
  <2>1. StreamInv /\ [Next]_vars => ClientOK'
    BY NextGood DEF StreamInv
  <2>2. StreamInv /\ [Next]_vars => OpenIs(cl')
    BY OpenStep DEF StreamInv
  <2> QED BY <2>1, <2>2 DEF StreamInv
<1>3. StreamInv /\ [Next]_vars =>
        (cl.state = "spawned" /\ cl'.state = "spawned"
         /\ ~cl'.overflowed /\ LastOpen(cl)
          => IsPrefix(Stream(cl, sent), Stream(cl', sent')))
  BY StepKeeps DEF StreamInv
<1> QED BY <1>1, <1>2, <1>3, PTL DEF Spec, NothingLost

=============================================================================
