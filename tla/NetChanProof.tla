---------------------------- MODULE NetChanProof ----------------------------
(***************************************************************************)
(* Proofs about NetChan for every payload, every buffer size and every     *)
(* number of packets: type correctness, the inductive invariant, and what  *)
(* follows from it: exactly-once in-order delivery of each reliable        *)
(* stream, the retransmission discipline the header comment of net_chan.c  *)
(* promises, packets that fit, and that a NetChan implements one           *)
(* ReliableStream per direction.  And about the sequence numbers under the *)
(* channel's owners (NetChanFair), for any number of losses, choked        *)
(* answers and packets sent unasked.                                       *)
(***************************************************************************)
EXTENDS NetChanFair, TLAPS, SequenceTheorems, FiniteSetTheorems

-----------------------------------------------------------------------------
(* Endpoints and bits.                                                     *)

\* The peer of the peer is the endpoint itself.
LEMMA PeerPeer ==
    \A e \in Endpoint : Peer(e) \in Endpoint /\ Peer(Peer(e)) = e /\ Peer(e) # e
BY DEF Endpoint, Peer

\* There are two endpoints: another one is the peer.
LEMMA OnlyPeer == \A e, f \in Endpoint : f # e => f = Peer(e)
BY DEF Endpoint, Peer

\* Toggling a bit gives the other one.
LEMMA BitFlip ==
    \A b, c \in Bit : 1 - b \in Bit /\ 1 - b # b /\ (b # c => 1 - b = c)
BY DEF Bit

-----------------------------------------------------------------------------
(* Type correctness.                                                       *)

\* Whatever becomes of the network, taking a packet keeps the other types.
LEMMA ReceiveTypes ==
    ASSUME TypeOK, NEW e \in Endpoint, NEW p \in network[Peer(e)],
           Receive(e, p), network' \in [Endpoint -> SUBSET Packet]
    PROVE  TypeOK'
<1>1. Peer(e) \in Endpoint
  BY PeerPeer
<1>2. p \in Packet
  BY <1>1 DEF TypeOK
<1>3. delivered[Peer(e)] \o p.payload \in Seq(Data)
  BY <1>1, <1>2, ConcatProperties DEF TypeOK, Packet
<1>4. \A f \in Endpoint : reliable_length'[f] <= Len(reliable_buf'[f])
  BY LenProperties DEF Receive, TypeOK
<1>5. /\ incoming_reliable_sequence' \in [Endpoint -> Bit]
      /\ reliable_length' \in [Endpoint -> Nat]
      /\ delivered' \in [Endpoint -> Seq(Data)]
  BY <1>1, <1>3, BitFlip DEF Receive, Toggled, TypeOK
<1>6. outgoing_sequence' \in [Endpoint -> Nat]
  BY <1>2 DEF Receive, ReplySequence, TypeOK, Packet
<1>7. UNCHANGED <<message, overflowed, fatal_error, reliable_buf,
                  reliable_sequence, last_reliable_sequence, halted, written>>
  BY DEF Receive
<1>8. /\ incoming_sequence' \in [Endpoint -> Nat]
      /\ incoming_acknowledged' \in [Endpoint -> Nat]
      /\ incoming_reliable_acknowledged' \in [Endpoint -> Bit]
  BY <1>2 DEF Receive, TypeOK, Packet
<1>. QED
  BY <1>4, <1>5, <1>6, <1>7, <1>8 DEF TypeOK

\* Every step keeps the types.
LEMMA TypeInductive == TypeOK /\ [Next]_vars => TypeOK'
<1> SUFFICES ASSUME TypeOK, [Next]_vars PROVE TypeOK'
  OBVIOUS
<1>1. CASE UNCHANGED vars
  BY <1>1 DEF vars, sending, receiving, TypeOK
<1>2. ASSUME NEW e \in Endpoint, Step(e) PROVE TypeOK'
  <2>1. ASSUME NEW d \in Blocks, WriteMessage(e, d) PROVE TypeOK'
    <3>1. d \in Seq(Data)
      BY BlocksAssumption
    <3>2. message[e] \o d \in Seq(Data) /\ written[e] \o d \in Seq(Data)
      BY <3>1, ConcatProperties DEF TypeOK
    <3>. QED
      BY <2>1, <3>2 DEF WriteMessage, receiving, TypeOK
  <2>2. ASSUME NEW d \in Blocks, OverflowMessage(e, d) PROVE TypeOK'
    <3>1. d \in Seq(Data)
      BY BlocksAssumption
    <3>. QED
      BY <2>2, <3>1 DEF OverflowMessage, receiving, TypeOK
  <2>3. ASSUME NEW d \in Blocks, HaltOnWrite(e, d) PROVE TypeOK'
    BY <2>3 DEF HaltOnWrite, sending, receiving, TypeOK
  <2>4. CASE TransmitOverflowed(e)
    BY <2>4 DEF TransmitOverflowed, receiving, TypeOK
  <2>5. CASE HaltOnTransmit(e)
    BY <2>5 DEF HaltOnTransmit, sending, receiving, TypeOK
  <2>6. ASSUME NEW n \in DatagramSizes, Transmit(e, n) PROVE TypeOK'
    <3> DEFINE reliable == MustResend(e) \/ MustSendNew(e)
               payload == IF reliable THEN Outgoing(e) ELSE <<>>
               p == [sequence |-> outgoing_sequence[e],
                     reliable |-> reliable,
                     ack |-> incoming_sequence[e],
                     reliable_ack |-> incoming_reliable_sequence[e],
                     payload |-> payload,
                     unreliable |-> Unreliable(e, payload, n)]
    <3>1. Outgoing(e) \in Seq(Data)
      BY SubSeqProperties DEF Outgoing, TypeOK
    <3>2. payload \in Seq(Data) /\ reliable \in BOOLEAN
      BY <3>1 DEF MustResend, MustSendNew
    <3>3. n \in Nat
      BY SizeAssumption
    <3>4. p \in Packet
      <4> HIDE DEF payload, reliable
      <4>. QED BY <3>2, <3>3 DEF TypeOK, Packet, Unreliable
    <3>5. network' = [network EXCEPT ![e] = @ \cup {p}]
      BY <2>6 DEF Transmit, Toggled
    <3>6. network' \in [Endpoint -> SUBSET Packet]
      <4> HIDE DEF p
      <4>. QED BY <3>4, <3>5 DEF TypeOK
    <3>7. /\ UNCHANGED <<overflowed, fatal_error, receiving, halted, written,
                         delivered>>
          /\ outgoing_sequence' \in [Endpoint -> Nat]
          /\ last_reliable_sequence' \in [Endpoint -> Nat]
      BY <2>6 DEF Transmit, Toggled, receiving, TypeOK
    <3>. HIDE DEF reliable, payload, p
    <3>8. CASE MustSendNew(e)
      <4>1. /\ reliable_buf' = [reliable_buf EXCEPT ![e] = message[e]]
            /\ reliable_length' =
                  [reliable_length EXCEPT ![e] = Len(message[e])]
            /\ message' = [message EXCEPT ![e] = <<>>]
            /\ reliable_sequence' = [reliable_sequence EXCEPT ![e] = 1 - @]
        BY <2>6, <3>8 DEF Transmit, Toggled
      <4>2. \A f \in Endpoint : reliable_length'[f] <= Len(reliable_buf'[f])
        BY <4>1, LenProperties DEF TypeOK
      <4>3. Len(message[e]) \in Nat
        BY LenProperties DEF TypeOK
      <4>4. /\ message' \in [Endpoint -> Seq(Data)]
            /\ reliable_buf' \in [Endpoint -> Seq(Data)]
            /\ reliable_length' \in [Endpoint -> Nat]
            /\ reliable_sequence' \in [Endpoint -> Bit]
        BY <4>1, <4>3, BitFlip, EmptySeq DEF TypeOK
      <4>. QED
        BY <3>6, <3>7, <4>2, <4>4 DEF TypeOK, receiving
    <3>9. CASE ~MustSendNew(e)
      <4>1. UNCHANGED <<reliable_buf, reliable_length, message,
                        reliable_sequence>>
        BY <2>6, <3>9 DEF Transmit, Toggled
      <4>. QED
        BY <3>6, <3>7, <4>1 DEF TypeOK, receiving
    <3>. QED
      BY <3>8, <3>9
  <2>7. CASE Process(e)
    <3>1. PICK p \in network[Peer(e)] : Receive(e, p)
      BY <2>7 DEF Process
    <3>2. network' \in [Endpoint -> SUBSET Packet]
      BY <2>7 DEF Process, TypeOK
    <3>. QED
      BY <3>1, <3>2, ReceiveTypes
  <2>8. CASE DropMove(e)
    <3>1. outgoing_sequence' \in [Endpoint -> Nat]
      BY <2>8 DEF DropMove, TypeOK
    <3>2. UNCHANGED <<message, overflowed, fatal_error, reliable_buf,
                      reliable_length, reliable_sequence,
                      last_reliable_sequence, receiving, network, halted,
                      written, delivered>>
      BY <2>8 DEF DropMove
    <3>. QED
      BY <3>1, <3>2 DEF receiving, TypeOK
  <2>. QED
    BY <1>2, <2>1, <2>2, <2>3, <2>4, <2>5, <2>6, <2>7, <2>8 DEF Step
<1>. QED
  BY <1>1, <1>2 DEF Next

\* Every variable keeps its type (all of net_chan.c).
THEOREM TypeCorrect == Spec => []TypeOK
<1>1. Init => TypeOK
  BY DEF Init, TypeOK, Bit
<1>. QED
  BY <1>1, TypeInductive, PTL DEF Spec

\* A packet on the network is well formed.
LEMMA PacketTyped ==
    ASSUME TypeOK
    PROVE  \A e \in Endpoint : \A p \in network[e] :
              /\ p \in Packet
              /\ p.sequence \in Nat
              /\ p.ack \in Nat
<1> TAKE e \in Endpoint
<1> TAKE p \in network[e]
<1>1. p \in Packet
  BY DEF TypeOK
<1>. QED
  BY <1>1 DEF Packet

-----------------------------------------------------------------------------
(* Sequences.                                                              *)

\* Concatenation of sequences of data.
LEMMA Concat ==
    /\ <<>> \in Seq(Data)
    /\ \A s \in Seq(Data) : s \o <<>> = s /\ <<>> \o s = s
    /\ \A s, t \in Seq(Data) :
          s \o t \in Seq(Data) /\ Len(s \o t) = Len(s) + Len(t)
    /\ \A s, t, u \in Seq(Data) : (s \o t) \o u = s \o (t \o u)
<1>1. <<>> \in Seq(Data)
  BY EmptySeq
<1>2. \A s \in Seq(Data) : s \o <<>> = s /\ <<>> \o s = s
  BY ConcatEmptySeq
<1>3. \A s, t \in Seq(Data) :
         s \o t \in Seq(Data) /\ Len(s \o t) = Len(s) + Len(t)
  BY ConcatProperties
<1>4. \A s, t, u \in Seq(Data) : (s \o t) \o u = s \o (t \o u)
  BY ConcatAssociative
<1>. QED
  BY <1>1, <1>2, <1>3, <1>4

\* A first part of a sequence leaves a rest.
LEMMA PrefixHasRest ==
    ASSUME NEW S, NEW t \in Seq(S), NEW n \in 0 .. Len(t)
    PROVE  \E u \in Seq(S) : t = SubSeq(t, 1, n) \o u
<1>. DEFINE u == SubSeq(t, n + 1, Len(t))
<1>1. Len(t) \in Nat
  BY LenProperties
<1>2. u \in Seq(S)
  BY <1>1, SubSeqProperties, ElementOfSeq
<1>3. 1 \in 1 .. Len(t) + 1 /\ n \in 1 - 1 .. Len(t) /\ Len(t) \in n .. Len(t)
  BY <1>1
<1>4. SubSeq(t, 1, n) \o u = SubSeq(t, 1, Len(t))
  BY <1>3, ConcatAdjacentSubSeq, Zenon
<1>. QED
  BY <1>2, <1>4, SubSeqFull

\* The left part of a concatenation is a first part of it.
LEMMA ConcatIsPrefix ==
    ASSUME NEW S, NEW s \in Seq(S), NEW u \in Seq(S)
    PROVE  /\ Len(s) \in 0 .. Len(s \o u)
           /\ s = SubSeq(s \o u, 1, Len(s))
<1>1. Len(s) \in Nat /\ Len(u) \in Nat /\ Len(s \o u) = Len(s) + Len(u)
  BY LenProperties, ConcatProperties
<1>2. CASE Len(s) = 0
  <2>1. s = <<>> /\ SubSeq(s \o u, 1, 0) = <<>>
    BY <1>2, EmptySeq, SubSeqEmpty
  <2>. QED
    BY <1>1, <1>2, <2>1
<1>3. CASE Len(s) # 0
  <2>1. SubSeq(s \o u, 1, Len(s)) = SubSeq(s, 1, Len(s))
    BY <1>1, <1>3, SubSeqOfConcat1
  <2>. QED
    BY <1>1, <2>1, SubSeqFull
<1>. QED
  BY <1>2, <1>3

\* What is written is what was consumed and a rest, the message buffer unless
\* it overflowed.
Rest(e, r) ==
    /\ r \in Seq(Data)
    /\ written[e] = Consumed(e) \o r
    /\ ~overflowed[e] => r = message[e]

\* What was consumed is a sequence of data.
LEMMA ConsumedType ==
    ASSUME TypeOK, NEW e \in Endpoint
    PROVE  Unreceived(e) \in Seq(Data) /\ Consumed(e) \in Seq(Data)
<1>1. Unreceived(e) \in Seq(Data)
  BY EmptySeq DEF Unreceived, TypeOK
<1>. QED
  BY <1>1, ConcatProperties DEF Consumed, TypeOK

\* A stream is what was consumed of it and a rest, which is the message buffer
\* while it has not overflowed.
LEMMA StreamRest ==
    ASSUME TypeOK, NEW e \in Endpoint, StreamInv(e)
    PROVE  \E r : Rest(e, r)
<1>1. written[e] \in Seq(Data) /\ message[e] \in Seq(Data)
  BY DEF TypeOK
<1>2. PICK n \in 0 .. Len(written[e]) : Consumed(e) = SubSeq(written[e], 1, n)
  BY DEF StreamInv
<1>3. \E u \in Seq(Data) : written[e] = SubSeq(written[e], 1, n) \o u
  BY <1>1, PrefixHasRest
<1>4. CASE overflowed[e]
  BY <1>2, <1>3, <1>4 DEF Rest
<1>5. CASE ~overflowed[e]
  BY <1>1, <1>5 DEF Rest, StreamInv
<1>. QED
  BY <1>4, <1>5

\* And what has such a rest satisfies the invariant of the stream.
LEMMA RestStream ==
    ASSUME TypeOK', NEW e \in Endpoint, NEW r, Rest(e, r)'
    PROVE  StreamInv(e)'
<1>1. Unreceived(e)' \in Seq(Data)
  BY EmptySeq DEF Unreceived, TypeOK
<1>2. Consumed(e)' \in Seq(Data)
  BY <1>1, ConcatProperties DEF Consumed, TypeOK
<1>3. (\E n \in 0 .. Len(written[e]) :
          Consumed(e) = SubSeq(written[e], 1, n))'
  BY <1>2, ConcatIsPrefix DEF Rest
<1>. QED
  BY <1>3 DEF Rest, StreamInv

-----------------------------------------------------------------------------
(* The inductive invariant.                                                *)

ChannelInv(e) ==
    SequenceInv(e) /\ PayloadInv(e) /\ AckInv(e) /\ MonotoneInv(e)

\* Two cleared channels satisfy the invariant (Netchan_Setup).
LEMMA InitInv == Init => IInv
<1> SUFFICES ASSUME Init PROVE IInv
  OBVIOUS
<1>1. TypeOK
  BY DEF Init, TypeOK, Bit
<1>2. ASSUME NEW e \in Endpoint
      PROVE  ChannelInv(e) /\ BufferInv(e) /\ StreamInv(e)
  <2>1. Peer(e) \in Endpoint
    BY PeerPeer
  <2>2. ChannelInv(e)
    BY <2>1 DEF Init, ChannelInv, SequenceInv, PayloadInv, AckInv, MonotoneInv,
                InFlight, Live, Acceptable
  <2>3. BufferInv(e)
    BY SizeAssumption DEF Init, BufferInv
  <2>4. /\ Consumed(e) = <<>>
        /\ written[e] = <<>>
        /\ message[e] = <<>>
    <3>1. Unreceived(e) = <<>>
      BY <2>1 DEF Init, Unreceived, InFlight
    <3>. QED
      BY <3>1, ConcatEmptySeq, EmptySeq DEF Init, Consumed
  <2>5. <<>> \o <<>> = <<>> /\ SubSeq(<<>>, 1, 0) = <<>> /\ Len(<<>>) = 0
    OBVIOUS
  <2>6. StreamInv(e)
    BY <2>4, <2>5 DEF StreamInv
  <2>. QED
    BY <2>2, <2>3, <2>6
<1>. QED
  BY <1>1, <1>2 DEF IInv, ChannelInv

\* A step that only touches the message buffers leaves the channel's part.
LEMMA ChannelStable ==
    ASSUME UNCHANGED <<reliable_sequence, last_reliable_sequence,
                       outgoing_sequence, reliable_buf, receiving, network>>,
           NEW e \in Endpoint, ChannelInv(e)
    PROVE  ChannelInv(e)' /\ Unreceived(e)' = Unreceived(e)
BY DEF ChannelInv, SequenceInv, PayloadInv, AckInv, MonotoneInv, InFlight,
       Live, Acceptable, Unreceived, receiving

\* Writes to the message buffer, and the steps that send nothing.
LEMMA WriteKeepsInv ==
    ASSUME IInv, TypeOK', NEW e \in Endpoint, NEW d \in Blocks,
           WriteMessage(e, d)
    PROVE  IInv'
<1>1. d \in Seq(Data) /\ Len(d) \in Nat
  BY BlocksAssumption, LenProperties
<1>2. UNCHANGED <<reliable_sequence, last_reliable_sequence,
                  outgoing_sequence, reliable_buf, receiving, network>>
  BY DEF WriteMessage
<1>3. ASSUME NEW f \in Endpoint
      PROVE  ChannelInv(f)' /\ BufferInv(f)' /\ StreamInv(f)'
  <2>1. ChannelInv(f)' /\ Unreceived(f)' = Unreceived(f)
    BY <1>2, ChannelStable DEF IInv, ChannelInv
  <2>2. Consumed(f)' = Consumed(f)
    BY <2>1 DEF Consumed, WriteMessage
  <2>3. TypeOK /\ BufferInv(f) /\ StreamInv(f)
    BY DEF IInv
  <2>4. BufferInv(f)'
    <3>1. message[e] \in Seq(Data)
      BY <2>3 DEF TypeOK
    <3>2. Len(message[e] \o d) = Len(message[e]) + Len(d)
      BY <1>1, <3>1, ConcatProperties
    <3>3. Len(message[f])' <= MaxSize[f]
      BY <2>3, <3>2 DEF WriteMessage, Fits, BufferInv, TypeOK
    <3>. QED
      BY <1>2, <2>3, <3>3 DEF WriteMessage, BufferInv, receiving
  <2>5. PICK r : Rest(f, r)
    BY <2>3, StreamRest
  <2>6. CASE f = e /\ ~overflowed[e]
    <3>1. written'[e] = written[e] \o d /\ message'[e] = message[e] \o d
      BY <2>3, <2>6 DEF WriteMessage, TypeOK
    <3>2. Consumed(e) \in Seq(Data) /\ message[e] \in Seq(Data)
      BY <2>3, ConsumedType DEF TypeOK
    <3>3. written[e] = Consumed(e) \o message[e]
      BY <2>5, <2>6 DEF Rest
    <3>4. (Consumed(e) \o message[e]) \o d = Consumed(e) \o (message[e] \o d)
      <4>1. \A a, b, c \in Seq(Data) : (a \o b) \o c = a \o (b \o c)
        BY Concat
      <4>2. PICK a, b : a = Consumed(e) /\ b = message[e]
        OBVIOUS
      <4>3. (a \o b) \o d = a \o (b \o d)
        BY <1>1, <3>2, <4>1, <4>2
      <4>. QED
        BY <4>2, <4>3
    <3>5. PICK s : s = message[e] \o d
      OBVIOUS
    <3>6. s \in Seq(Data)
      BY <1>1, <3>2, <3>5, Concat
    <3>7. written'[e] = Consumed(e)' \o s
      BY <2>2, <2>6, <3>1, <3>3, <3>4, <3>5
    <3>8. Rest(f, s)'
      BY <2>6, <3>1, <3>5, <3>6, <3>7 DEF Rest
    <3>. QED
      BY <2>1, <2>4, <3>8, RestStream
  <2>7. CASE f # e \/ overflowed[e]
    <3>1. /\ written'[f] = written[f]
          /\ overflowed'[f] = overflowed[f]
          /\ f # e => message'[f] = message[f]
      BY <2>3, <2>7 DEF WriteMessage, TypeOK
    <3>2. Rest(f, r)'
      BY <2>2, <2>5, <2>7, <3>1 DEF Rest
    <3>. QED
      BY <2>1, <2>4, <3>2, RestStream
  <2>. QED
    BY <2>6, <2>7
<1>. QED
  BY <1>3 DEF IInv, ChannelInv

\* An overflow ends the stream and leaves the channel alone.
LEMMA OverflowKeepsInv ==
    ASSUME IInv, TypeOK', NEW e \in Endpoint, NEW d \in Blocks,
           OverflowMessage(e, d)
    PROVE  IInv'
<1>1. UNCHANGED <<reliable_sequence, last_reliable_sequence,
                  outgoing_sequence, reliable_buf, receiving, network>>
  BY DEF OverflowMessage
<1>2. ASSUME NEW f \in Endpoint
      PROVE  ChannelInv(f)' /\ BufferInv(f)' /\ StreamInv(f)'
  <2>1. ChannelInv(f)' /\ Unreceived(f)' = Unreceived(f)
    BY <1>1, ChannelStable DEF IInv, ChannelInv
  <2>2. Consumed(f)' = Consumed(f)
    BY <2>1 DEF Consumed, OverflowMessage
  <2>3. TypeOK /\ BufferInv(f) /\ StreamInv(f)
    BY DEF IInv
  <2>4. BufferInv(f)'
    BY <1>1, <2>3 DEF OverflowMessage, BufferInv, TypeOK, receiving
  <2>5. PICK r : Rest(f, r)
    BY <2>3, StreamRest
  <2>6. /\ written'[f] = written[f]
        /\ ~overflowed'[f] =>
              ~overflowed[f] /\ message'[f] = message[f]
    BY <2>3 DEF OverflowMessage, TypeOK
  <2>7. Rest(f, r)'
    BY <2>2, <2>5, <2>6 DEF Rest
  <2>. QED
    BY <2>1, <2>4, <2>7, RestStream
<1>. QED
  BY <1>2 DEF IInv, ChannelInv

\* Steps that leave the channel and the histories alone.
LEMMA QuietKeepsInv ==
    ASSUME IInv, TypeOK',
           UNCHANGED <<message, overflowed, reliable_buf, reliable_length,
                       outgoing_sequence, reliable_sequence,
                       last_reliable_sequence, receiving, network, written,
                       delivered>>
    PROVE  IInv'
<1>1. ASSUME NEW f \in Endpoint
      PROVE  ChannelInv(f)' /\ BufferInv(f)' /\ StreamInv(f)'
  <2>1. ChannelInv(f)' /\ Unreceived(f)' = Unreceived(f)
    BY ChannelStable DEF IInv, ChannelInv
  <2>2. BufferInv(f) /\ StreamInv(f)
    BY DEF IInv
  <2>. QED
    BY <2>1, <2>2 DEF BufferInv, StreamInv, Consumed, receiving
<1>. QED
  BY <1>1 DEF IInv, ChannelInv

\* A dropped move only uses up a sequence number.
LEMMA DropMoveKeepsInv ==
    ASSUME IInv, TypeOK', NEW e \in Endpoint, DropMove(e)
    PROVE  IInv'
<1>1. UNCHANGED <<message, overflowed, reliable_buf, reliable_length,
                  reliable_sequence, last_reliable_sequence, receiving,
                  network, written, delivered>>
  BY DEF DropMove
<1>2. ASSUME NEW f \in Endpoint
      PROVE  ChannelInv(f)' /\ BufferInv(f)' /\ StreamInv(f)'
  <2>1. /\ TypeOK
        /\ SequenceInv(f)
        /\ PayloadInv(f)
        /\ AckInv(f)
        /\ MonotoneInv(f)
        /\ BufferInv(f)
        /\ StreamInv(f)
    BY DEF IInv
  <2>2. SequenceInv(f)'
    <3>1. /\ outgoing_sequence[f] \in Nat
          /\ outgoing_sequence'[f] \in Nat
          /\ outgoing_sequence'[f] >= outgoing_sequence[f]
      <4>1. outgoing_sequence \in [Endpoint -> Nat]
        BY <2>1 DEF TypeOK
      <4>. QED
        BY <4>1 DEF DropMove
    <3>2. \A q \in network[f] : q.sequence \in Nat
      BY <2>1, PacketTyped
    <3>3. \A q \in network'[f] : q.sequence < outgoing_sequence'[f]
      BY <1>1, <2>1, <3>1, <3>2 DEF SequenceInv
    <3>. QED
      BY <1>1, <2>1, <3>3 DEF SequenceInv, receiving
  <2>3. UNCHANGED <<InFlight(f), Acceptable(f), Live(Peer(f))>>
    BY <1>1 DEF InFlight, Acceptable, Live, receiving
  <2>4. PayloadInv(f)' /\ AckInv(f)' /\ MonotoneInv(f)'
    BY <1>1, <2>1, <2>3 DEF PayloadInv, AckInv, MonotoneInv, receiving
  <2>5. BufferInv(f)' /\ StreamInv(f)'
    BY <1>1, <2>1, <2>3
       DEF BufferInv, StreamInv, Consumed, Unreceived, receiving
  <2>. QED
    BY <2>2, <2>4, <2>5 DEF ChannelInv
<1>. QED
  BY <1>2 DEF IInv, ChannelInv

-----------------------------------------------------------------------------
(* Netchan_Transmit keeps the invariant.                                   *)

\* The packet a Transmit of e sends.
Sends(e, p) ==
    /\ p.sequence = outgoing_sequence[e]
    /\ p.reliable = (MustResend(e) \/ MustSendNew(e))
    /\ p.ack = incoming_sequence[e]
    /\ p.reliable_ack = incoming_reliable_sequence[e]
    /\ p.payload = IF p.reliable THEN reliable_buf'[e] ELSE <<>>
    /\ network' = [network EXCEPT ![e] = @ \cup {p}]

\* A new message is sent only when the peer has the old one; a message is
\* resent only while it is in flight.
LEMMA WhenSent ==
    ASSUME IInv, NEW e \in Endpoint
    PROVE  /\ MustSendNew(e) => ~InFlight(e) /\ ~MustResend(e)
           /\ MustResend(e) => InFlight(e)
           /\ MustResend(e) \/ MustSendNew(e) => Acceptable(e) = {}
<1>1. /\ TypeOK
      /\ SequenceInv(e)
      /\ PayloadInv(e)
      /\ AckInv(e)
      /\ BufferInv(e)
  BY DEF IInv
<1>2. MustSendNew(e) => ~InFlight(e) /\ ~MustResend(e)
  BY <1>1 DEF MustSendNew, MustResend, BufferInv, AckInv
<1>3. MustResend(e) => InFlight(e)
  BY <1>1 DEF MustResend, AckInv
<1>4. ASSUME MustResend(e) PROVE Acceptable(e) = {}
  <2>1. ASSUME NEW p \in Acceptable(e) PROVE FALSE
    <3>1. p.sequence + 1 = last_reliable_sequence[e]
      BY <1>1 DEF PayloadInv
    <3>2. p.sequence > incoming_sequence[Peer(e)] /\ p \in Packet
      BY <1>1 DEF Acceptable, TypeOK
    <3>3. /\ incoming_acknowledged[e] <= incoming_sequence[Peer(e)]
          /\ incoming_acknowledged[e] > last_reliable_sequence[e]
      BY <1>1, <1>4 DEF SequenceInv, MustResend
    <3>4. /\ incoming_sequence[Peer(e)] \in Nat
          /\ incoming_acknowledged[e] \in Nat
          /\ last_reliable_sequence[e] \in Nat
          /\ p.sequence \in Nat
      BY <1>1, <3>2, PeerPeer DEF TypeOK, Packet
    <3>. QED
      BY <3>1, <3>2, <3>3, <3>4
  <2>. QED
    BY <2>1
<1>5. ASSUME MustSendNew(e) PROVE Acceptable(e) = {}
  BY <1>1, <1>2, <1>5 DEF PayloadInv
<1>. QED
  BY <1>2, <1>3, <1>4, <1>5

\* What a Transmit does, whatever it sends.
LEMMA TransmitFacts ==
    ASSUME IInv, NEW e \in Endpoint, NEW n \in DatagramSizes, Transmit(e, n)
    PROVE  \E p : Sends(e, p)
<1>. DEFINE reliable == MustResend(e) \/ MustSendNew(e)
            payload == IF reliable THEN Outgoing(e) ELSE <<>>
            p == [sequence |-> outgoing_sequence[e],
                  reliable |-> reliable,
                  ack |-> incoming_sequence[e],
                  reliable_ack |-> incoming_reliable_sequence[e],
                  payload |-> payload,
                  unreliable |-> Unreliable(e, payload, n)]
<1>1. network' = [network EXCEPT ![e] = @ \cup {p}]
  BY DEF Transmit, Toggled
<1>2. TypeOK /\ BufferInv(e)
  BY DEF IInv
<1>3. payload = IF reliable THEN reliable_buf'[e] ELSE <<>>
  <2>1. CASE MustSendNew(e)
    BY <1>2, <2>1 DEF Transmit, Toggled, Outgoing, TypeOK
  <2>2. CASE ~MustSendNew(e) /\ MustResend(e)
    <3>1. reliable_length[e] = Len(reliable_buf[e])
      BY <1>2, <2>2 DEF BufferInv, MustResend
    <3>2. reliable_buf[e] \in Seq(Data)
      BY <1>2 DEF TypeOK
    <3>3. Outgoing(e) = reliable_buf[e]
      BY <2>2, <3>1, <3>2, SubSeqFull DEF Outgoing
    <3>. QED
      BY <2>2, <3>3 DEF Transmit, Toggled
  <2>. QED
    BY <2>1, <2>2
<1>. HIDE DEF reliable, payload
<1>4. Sends(e, p)
  BY <1>1, <1>3 DEF Sends, reliable
<1>. QED
  BY <1>4

\* The stream of the endpoint that transmits.
LEMMA TransmitOwn ==
    ASSUME IInv, TypeOK', NEW e \in Endpoint,
           NEW n \in DatagramSizes, Transmit(e, n)
    PROVE  ChannelInv(e)' /\ BufferInv(e)' /\ StreamInv(e)'
<1>1. PICK p : Sends(e, p)
  BY TransmitFacts
<1>2. /\ TypeOK
      /\ SequenceInv(e)
      /\ PayloadInv(e)
      /\ AckInv(e)
      /\ MonotoneInv(e)
      /\ BufferInv(e)
      /\ StreamInv(e)
  BY DEF IInv
<1>3. Peer(e) \in Endpoint /\ Peer(e) # e /\ Peer(Peer(e)) = e
  BY PeerPeer
<1>4. /\ UNCHANGED <<overflowed, receiving, written, delivered>>
      /\ network'[e] = network[e] \cup {p}
      /\ network'[Peer(e)] = network[Peer(e)]
      /\ outgoing_sequence'[e] = outgoing_sequence[e] + 1
  <2>1. UNCHANGED <<overflowed, receiving, written, delivered>>
    BY DEF Transmit
  <2>2. /\ network'[e] = network[e] \cup {p}
        /\ network'[Peer(e)] = network[Peer(e)]
    BY <1>1, <1>2, <1>3 DEF Sends, TypeOK
  <2>3. outgoing_sequence'[e] = outgoing_sequence[e] + 1
    BY <1>2 DEF Transmit, TypeOK
  <2>. QED
    BY <2>1, <2>2, <2>3
<1>5. \A q \in network[e] : q.sequence \in Nat
  BY <1>2 DEF TypeOK, Packet
<1>6. outgoing_sequence[e] \in Nat /\ p.sequence = outgoing_sequence[e]
  BY <1>1, <1>2 DEF Sends, TypeOK
<1>7. SequenceInv(e)'
  BY <1>2, <1>3, <1>4, <1>5, <1>6 DEF SequenceInv, receiving
<1>8. \A q \in network'[e] : ~q.reliable => q.payload = <<>>
  BY <1>1, <1>2, <1>4 DEF PayloadInv, Sends
<1>9. Live(Peer(e))' = Live(Peer(e))
  BY <1>3, <1>4 DEF Live, receiving
<1>10. CASE MustSendNew(e)
  <2>1. /\ reliable_buf'[e] = message[e]
        /\ reliable_length'[e] = Len(message[e])
        /\ message'[e] = <<>>
        /\ reliable_sequence'[e] = 1 - reliable_sequence[e]
        /\ last_reliable_sequence'[e] = outgoing_sequence[e] + 1
    BY <1>2, <1>10 DEF Transmit, Toggled, TypeOK
  <2>2. ~InFlight(e) /\ Acceptable(e) = {}
    BY <1>10, WhenSent
  <2>3. InFlight(e)' /\ reliable_sequence'[e] # reliable_sequence[e]
    BY <1>2, <1>3, <1>4, <2>1, <2>2, BitFlip DEF InFlight, TypeOK, receiving
  <2>4. Acceptable(e)' \subseteq {p}
    BY <1>4, <2>2 DEF Acceptable, receiving
  <2>5. PayloadInv(e)'
    BY <1>1, <1>6, <1>8, <2>1, <2>3, <2>4 DEF PayloadInv, Sends, Acceptable
  <2>6. /\ incoming_reliable_acknowledged[e] = reliable_sequence[e]
        /\ \A q \in Live(Peer(e)) : q.reliable_ack = reliable_sequence[e]
    BY <1>2, <1>10 DEF MustSendNew, BufferInv, MonotoneInv
  <2>7. AckInv(e)' /\ MonotoneInv(e)'
    BY <1>4, <1>9, <2>3, <2>6 DEF AckInv, MonotoneInv, receiving
  <2>8. message[e] \in Seq(Data) /\ message[e] # <<>>
    BY <1>2, <1>10 DEF MustSendNew, TypeOK
  <2>9. Len(message[e]) \in Nat \ {0}
    BY <2>8, EmptySeq
  <2>10. BufferInv(e)'
    BY <1>2, <2>1, <2>9, SizeAssumption DEF BufferInv
  <2>11. StreamInv(e)'
    <3>1. PICK r : Rest(e, r)
      BY <1>2, StreamRest
    <3>2. ~overflowed[e]
      BY DEF Transmit, Toggled
    <3>3. /\ delivered[e] \in Seq(Data)
          /\ Unreceived(e) = <<>>
          /\ Unreceived(e)' = message[e]
      BY <1>2, <2>1, <2>2, <2>3 DEF Unreceived, TypeOK
    <3>4. Consumed(e) = delivered[e] /\ r = message[e]
      BY <3>1, <3>2, <3>3, Concat DEF Consumed, Rest
    <3>5. Consumed(e)' = delivered[e] \o message[e]
      BY <1>4, <3>3 DEF Consumed
    <3>6. written[e] = Consumed(e)'
      BY <3>1, <3>4, <3>5 DEF Rest
    <3>7. Consumed(e)' \o <<>> = Consumed(e)'
      BY <2>8, <3>3, <3>5, Concat
    <3>8. Rest(e, <<>>)'
      BY <1>4, <2>1, <3>6, <3>7, Concat DEF Rest
    <3>. QED
      BY <3>8, RestStream
  <2>. QED
    BY <1>7, <2>5, <2>7, <2>10, <2>11 DEF ChannelInv
<1>11. CASE ~MustSendNew(e)
  <2>1. UNCHANGED <<reliable_buf, reliable_length, message, reliable_sequence>>
    BY <1>11 DEF Transmit, Toggled
  <2>2. InFlight(e)' = InFlight(e)
    BY <1>4, <2>1 DEF InFlight, receiving
  <2>3. BufferInv(e)'
    BY <1>2, <1>4, <2>1 DEF BufferInv, receiving
  <2>4. StreamInv(e)'
    BY <1>2, <1>4, <2>1, <2>2 DEF StreamInv, Consumed, Unreceived
  <2>5. MonotoneInv(e)'
    BY <1>2, <1>4, <1>9, <2>1 DEF MonotoneInv, receiving
  <2>6. CASE MustResend(e)
    <3>1. InFlight(e) /\ Acceptable(e) = {}
      BY <2>6, WhenSent
    <3>2. Acceptable(e)' \subseteq {p}
      BY <1>4, <3>1 DEF Acceptable, receiving
    <3>3. last_reliable_sequence'[e] = outgoing_sequence[e] + 1
      BY <1>2, <2>6 DEF Transmit, Toggled, TypeOK
    <3>4. PayloadInv(e)'
      BY <1>1, <1>6, <1>8, <2>2, <3>1, <3>2, <3>3
         DEF PayloadInv, Sends, Acceptable
    <3>5. AckInv(e)'
      BY <1>2, <1>4, <1>9, <2>1, <2>2, <3>1 DEF AckInv, receiving
    <3>. QED
      BY <1>7, <2>3, <2>4, <2>5, <3>4, <3>5 DEF ChannelInv
  <2>7. CASE ~MustResend(e)
    <3>1. ~p.reliable /\ last_reliable_sequence' = last_reliable_sequence
      BY <1>1, <1>11, <2>7 DEF Sends, Transmit, Toggled
    <3>2. Acceptable(e)' = Acceptable(e)
      BY <1>4, <3>1 DEF Acceptable, receiving
    <3>3. PayloadInv(e)'
      BY <1>2, <1>8, <2>1, <2>2, <3>1, <3>2 DEF PayloadInv
    <3>4. AckInv(e)'
      BY <1>2, <1>4, <1>9, <2>1, <2>2, <3>1 DEF AckInv, receiving
    <3>. QED
      BY <1>7, <2>3, <2>4, <2>5, <3>3, <3>4 DEF ChannelInv
  <2>. QED
    BY <2>6, <2>7
<1>. QED
  BY <1>10, <1>11

\* The stream of the other endpoint, which the packet acknowledges.
LEMMA TransmitPeer ==
    ASSUME IInv, TypeOK', NEW e \in Endpoint,
           NEW n \in DatagramSizes, Transmit(e, n),
           NEW f \in Endpoint, f = Peer(e)
    PROVE  ChannelInv(f)' /\ BufferInv(f)' /\ StreamInv(f)'
<1>1. PICK p : Sends(e, p)
  BY TransmitFacts
<1>2. /\ TypeOK
      /\ SequenceInv(e) /\ SequenceInv(f)
      /\ PayloadInv(f)
      /\ AckInv(f)
      /\ MonotoneInv(f)
      /\ BufferInv(f)
      /\ StreamInv(f)
  BY DEF IInv
<1>3. f # e /\ Peer(f) = e
  BY PeerPeer
<1>4. /\ UNCHANGED <<overflowed, receiving, written, delivered>>
      /\ network'[e] = network[e] \cup {p}
      /\ network'[f] = network[f]
      /\ outgoing_sequence'[f] = outgoing_sequence[f]
      /\ reliable_sequence'[f] = reliable_sequence[f]
      /\ last_reliable_sequence'[f] = last_reliable_sequence[f]
      /\ reliable_buf'[f] = reliable_buf[f]
      /\ reliable_length'[f] = reliable_length[f]
      /\ message'[f] = message[f]
  <2>1. network'[e] = network[e] \cup {p} /\ network'[f] = network[f]
    BY <1>1, <1>2, <1>3 DEF Sends, TypeOK
  <2>2. outgoing_sequence'[f] = outgoing_sequence[f]
    BY <1>2, <1>3 DEF Transmit, Toggled, TypeOK
  <2>3. last_reliable_sequence'[f] = last_reliable_sequence[f]
    BY <1>2, <1>3 DEF Transmit, Toggled, TypeOK
  <2>4. /\ reliable_sequence'[f] = reliable_sequence[f]
        /\ reliable_buf'[f] = reliable_buf[f]
        /\ reliable_length'[f] = reliable_length[f]
        /\ message'[f] = message[f]
    <3>1. CASE MustSendNew(e)
      <4>1. /\ reliable_buf' = [reliable_buf EXCEPT ![e] = message[e]]
            /\ reliable_length' =
                  [reliable_length EXCEPT ![e] = Len(message[e])]
            /\ message' = [message EXCEPT ![e] = <<>>]
            /\ reliable_sequence' = [reliable_sequence EXCEPT ![e] = 1 - @]
        BY <3>1 DEF Transmit, Toggled
      <4>. QED
        BY <1>2, <1>3, <4>1 DEF TypeOK
    <3>2. CASE ~MustSendNew(e)
      BY <3>2 DEF Transmit, Toggled
    <3>. QED
      BY <3>1, <3>2
  <2>5. UNCHANGED <<overflowed, receiving, written, delivered>>
    BY DEF Transmit, Toggled
  <2>. QED
    BY <2>1, <2>2, <2>3, <2>4, <2>5
<1>5. InFlight(f)' = InFlight(f) /\ Acceptable(f)' = Acceptable(f)
  BY <1>3, <1>4 DEF InFlight, Acceptable, receiving
<1>6. /\ p.sequence = outgoing_sequence[e]
      /\ p.ack = incoming_sequence[e]
      /\ p.reliable_ack = incoming_reliable_sequence[e]
  BY <1>1 DEF Sends
<1>7. incoming_sequence[e] \in Nat /\ outgoing_sequence[e] \in Nat
  BY <1>2 DEF TypeOK
<1>8. SequenceInv(f)'
  BY <1>2, <1>3, <1>4, <1>6, <1>7 DEF SequenceInv, receiving
<1>9. PayloadInv(f)'
  BY <1>2, <1>4, <1>5 DEF PayloadInv
<1>10. Live(e)' \subseteq Live(e) \cup {p} /\ Live(e) \subseteq network[e]
  BY <1>4 DEF Live, receiving
<1>11. InFlight(f) <=> p.reliable_ack # reliable_sequence[f]
  BY <1>3, <1>6 DEF InFlight
<1>12. AckInv(f)'
  BY <1>2, <1>3, <1>4, <1>5, <1>10, <1>11 DEF AckInv, receiving
<1>13. \A q \in Live(e) : q.sequence < p.sequence /\ q.sequence \in Nat
  BY <1>2, <1>6, <1>10, PacketTyped DEF SequenceInv
<1>14. \A q \in Live(e) :
          q.reliable_ack = reliable_sequence[f] => ~InFlight(f)
  BY <1>2, <1>3 DEF AckInv
<1>15. MonotoneInv(f)'
  <2>1. ASSUME incoming_reliable_acknowledged[f] = reliable_sequence[f],
               NEW q \in Live(e)'
        PROVE  q.reliable_ack = reliable_sequence[f]
    BY <1>2, <1>3, <1>10, <1>11, <2>1 DEF MonotoneInv, AckInv
  <2>2. ASSUME NEW q \in Live(e)', NEW s \in Live(e)',
               q.sequence < s.sequence, q.reliable_ack = reliable_sequence[f]
        PROVE  s.reliable_ack = reliable_sequence[f]
    <3>1. q # p
      BY <1>6, <1>7, <1>10, <1>13, <2>2
    <3>2. CASE s = p
      BY <1>10, <1>11, <1>14, <2>2, <3>1, <3>2
    <3>3. CASE s # p
      BY <1>2, <1>3, <1>10, <2>2, <3>1, <3>3 DEF MonotoneInv
    <3>. QED
      BY <3>2, <3>3
  <2>. QED
    BY <1>3, <1>4, <2>1, <2>2 DEF MonotoneInv, receiving
<1>16. BufferInv(f)'
  BY <1>2, <1>4 DEF BufferInv, receiving
<1>17. StreamInv(f)'
  BY <1>2, <1>4, <1>5 DEF StreamInv, Consumed, Unreceived
<1>. QED
  BY <1>8, <1>9, <1>12, <1>15, <1>16, <1>17 DEF ChannelInv

-----------------------------------------------------------------------------
(* Netchan_Process keeps the invariant.                                    *)

\* The stream of the endpoint that receives: the packet acknowledges it.
LEMMA ReceiveOwn ==
    ASSUME IInv, TypeOK', NEW e \in Endpoint, NEW p \in network[Peer(e)],
           Receive(e, p), network' = network
    PROVE  ChannelInv(e)' /\ BufferInv(e)' /\ StreamInv(e)'
<1>1. /\ TypeOK
      /\ SequenceInv(e)
      /\ PayloadInv(e)
      /\ AckInv(e)
      /\ MonotoneInv(e)
      /\ BufferInv(e)
      /\ StreamInv(e)
  BY DEF IInv
<1>2. Peer(e) \in Endpoint /\ Peer(e) # e /\ Peer(Peer(e)) = e
  BY PeerPeer
<1>3. p \in Packet /\ p \in Live(Peer(e))
  BY <1>1, <1>2 DEF Receive, Fresh, Acknowledges, Toggled, Live, TypeOK
<1>4. /\ UNCHANGED <<message, overflowed, reliable_buf, reliable_sequence,
                     last_reliable_sequence, written>>
      /\ incoming_sequence'[e] = p.sequence
      /\ incoming_acknowledged'[e] = p.ack
      /\ incoming_reliable_acknowledged'[e] = p.reliable_ack
      /\ incoming_sequence'[Peer(e)] = incoming_sequence[Peer(e)]
      /\ incoming_reliable_sequence'[Peer(e)] =
            incoming_reliable_sequence[Peer(e)]
      /\ delivered'[e] = delivered[e]
  BY <1>1, <1>2 DEF Receive, Fresh, Acknowledges, Toggled, TypeOK
<1>5. reliable_length'[e] = IF p.reliable_ack = reliable_sequence[e]
                            THEN 0 ELSE reliable_length[e]
  BY <1>1 DEF Receive, Fresh, Acknowledges, Toggled, TypeOK
<1>6. InFlight(e)' = InFlight(e) /\ Acceptable(e)' = Acceptable(e)
  BY <1>4 DEF InFlight, Acceptable
<1>7. Live(Peer(e))' = {q \in Live(Peer(e)) : q.sequence > p.sequence}
  <2>1. \A q \in network[Peer(e)] : q.sequence \in Nat
    BY <1>1, <1>2, PacketTyped
  <2>2. incoming_sequence[e] \in Nat /\ p.sequence > incoming_sequence[e]
    BY <1>1 DEF Receive, Fresh, Acknowledges, Toggled, TypeOK
  <2>. QED
    BY <1>2, <1>4, <2>1, <2>2 DEF Live
<1>8. SequenceInv(e)'
  <2>1. /\ outgoing_sequence[e] \in Nat
        /\ outgoing_sequence'[e] \in Nat
        /\ outgoing_sequence'[e] >= outgoing_sequence[e]
    <3>1. outgoing_sequence \in [Endpoint -> Nat]
      BY <1>1 DEF TypeOK
    <3>2. p.sequence \in Nat
      BY <1>1, <1>2, PacketTyped
    <3>3. outgoing_sequence' = ReplySequence(e, p)
      BY DEF Receive
    <3>. QED
      BY <3>1, <3>2, <3>3 DEF ReplySequence
  <2>2. \A q \in network[e] : q.sequence \in Nat
    BY <1>1, PacketTyped
  <2>3. \A q \in network'[e] : q.sequence < outgoing_sequence'[e]
    BY <1>1, <2>1, <2>2 DEF SequenceInv
  <2>. QED
    BY <1>1, <1>2, <1>4, <2>3 DEF SequenceInv
<1>9. PayloadInv(e)'
  BY <1>1, <1>4, <1>6 DEF PayloadInv
<1>10. AckInv(e)'
  BY <1>1, <1>3, <1>4, <1>6, <1>7 DEF AckInv
<1>11. MonotoneInv(e)'
  BY <1>1, <1>3, <1>4, <1>7 DEF MonotoneInv
<1>12. BufferInv(e)'
  BY <1>1, <1>3, <1>4, <1>5 DEF BufferInv, MonotoneInv
<1>13. StreamInv(e)'
  BY <1>1, <1>4, <1>6 DEF StreamInv, Consumed, Unreceived
<1>. QED
  BY <1>8, <1>9, <1>10, <1>11, <1>12, <1>13 DEF ChannelInv

\* The stream of the endpoint that sent the packet.
LEMMA ReceivePeer ==
    ASSUME IInv, TypeOK', NEW e \in Endpoint, NEW p \in network[Peer(e)],
           Receive(e, p), network' = network,
           NEW f \in Endpoint, f = Peer(e)
    PROVE  ChannelInv(f)' /\ BufferInv(f)' /\ StreamInv(f)'
<1>1. /\ TypeOK
      /\ SequenceInv(f)
      /\ PayloadInv(f)
      /\ AckInv(f)
      /\ MonotoneInv(f)
      /\ BufferInv(f)
      /\ StreamInv(f)
  BY DEF IInv
<1>2. f # e /\ Peer(f) = e
  BY PeerPeer
<1>3. p \in Packet /\ p.sequence > incoming_sequence[e] /\ p \in network[f]
  BY <1>1 DEF Receive, Fresh, Acknowledges, Toggled, TypeOK
<1>4. /\ UNCHANGED <<message, overflowed, reliable_buf, reliable_sequence,
                     last_reliable_sequence, written>>
      /\ outgoing_sequence'[f] = outgoing_sequence[f]
      /\ incoming_sequence'[e] = p.sequence
      /\ incoming_sequence'[f] = incoming_sequence[f]
      /\ incoming_acknowledged'[f] = incoming_acknowledged[f]
      /\ incoming_reliable_acknowledged'[f] = incoming_reliable_acknowledged[f]
      /\ incoming_reliable_sequence'[e] =
            IF p.reliable THEN 1 - incoming_reliable_sequence[e]
            ELSE incoming_reliable_sequence[e]
      /\ reliable_length'[f] = reliable_length[f]
      /\ delivered'[f] = delivered[f] \o p.payload
  BY <1>1, <1>2 DEF Receive, ReplySequence, Toggled, TypeOK
<1>5. /\ incoming_sequence[e] \in Nat
      /\ p.sequence \in Nat
      /\ last_reliable_sequence[f] \in Nat
      /\ incoming_acknowledged[f] \in Nat
      /\ \A q \in network[f] : q.sequence \in Nat
      /\ \A q \in network[e] : q.ack \in Nat
  BY <1>1, <1>3, PacketTyped DEF TypeOK
<1>6. SequenceInv(f)'
  BY <1>1, <1>2, <1>3, <1>4, <1>5 DEF SequenceInv
<1>7. Live(e)' = Live(e) /\ Live(e) \subseteq network[e]
  BY <1>2, <1>4 DEF Live
<1>8. BufferInv(f)'
  BY <1>1, <1>4 DEF BufferInv
<1>9. Acceptable(f)' \subseteq Acceptable(f)
  BY <1>2, <1>3, <1>4, <1>5 DEF Acceptable
<1>10. CASE p.reliable
  <2>1. /\ InFlight(f)
        /\ p.sequence + 1 = last_reliable_sequence[f]
        /\ p.payload = reliable_buf[f]
    BY <1>1, <1>2, <1>3, <1>10 DEF PayloadInv, Acceptable
  <2>2. ~InFlight(f)'
    <3>1. /\ incoming_reliable_sequence[e] \in Bit
          /\ reliable_sequence[f] \in Bit
          /\ incoming_reliable_sequence[e] # reliable_sequence[f]
      BY <1>1, <1>2, <2>1 DEF InFlight, TypeOK
    <3>. QED
      BY <1>2, <1>4, <1>10, <3>1, BitFlip DEF InFlight
  <2>3. Acceptable(f)' = {}
    <3>1. ASSUME NEW q \in Acceptable(f)' PROVE FALSE
      <4>1. q \in Acceptable(f) /\ q.sequence > p.sequence /\ q \in network[f]
        BY <1>2, <1>4, <1>9 DEF Acceptable
      <4>2. q.sequence + 1 = p.sequence + 1
        BY <1>1, <2>1, <4>1 DEF PayloadInv
      <4>. QED
        BY <1>5, <4>1, <4>2
    <3>. QED
      BY <3>1
  <2>4. PayloadInv(f)'
    BY <1>1, <2>3 DEF PayloadInv
  <2>5. /\ ~(incoming_acknowledged[f] > last_reliable_sequence[f])
        /\ \A q \in Live(e) : ~(q.ack > last_reliable_sequence[f])
    BY <1>1, <1>2, <1>3, <1>5, <1>7, <2>1 DEF SequenceInv
  <2>6. AckInv(f)'
    BY <1>2, <1>4, <1>7, <2>2, <2>5 DEF AckInv
  <2>7. MonotoneInv(f)'
    BY <1>1, <1>2, <1>4, <1>7, <2>1 DEF AckInv, MonotoneInv
  <2>8. StreamInv(f)'
    <3>1. delivered[f] \in Seq(Data) /\ reliable_buf[f] \in Seq(Data)
      BY <1>1 DEF TypeOK
    <3>2. Consumed(f) = delivered[f] \o reliable_buf[f]
      BY <2>1 DEF Consumed, Unreceived
    <3>3. Consumed(f)' = (delivered[f] \o reliable_buf[f]) \o <<>>
      BY <1>4, <2>1, <2>2 DEF Consumed, Unreceived
    <3>4. Consumed(f)' = Consumed(f)
      BY <3>1, <3>2, <3>3, Concat
    <3>. QED
      BY <1>1, <1>4, <3>4 DEF StreamInv
  <2>. QED
    BY <1>6, <1>8, <2>4, <2>6, <2>7, <2>8 DEF ChannelInv
<1>11. CASE ~p.reliable
  <2>1. InFlight(f)' = InFlight(f)
    BY <1>2, <1>4, <1>11 DEF InFlight
  <2>2. PayloadInv(f)'
    BY <1>1, <1>4, <1>9, <2>1 DEF PayloadInv
  <2>3. AckInv(f)' /\ MonotoneInv(f)'
    BY <1>1, <1>2, <1>4, <1>7, <2>1 DEF AckInv, MonotoneInv
  <2>4. delivered'[f] = delivered[f]
    <3>1. p.payload = <<>>
      BY <1>1, <1>3, <1>11 DEF PayloadInv
    <3>2. delivered[f] \in Seq(Data)
      BY <1>1 DEF TypeOK
    <3>. QED
      BY <1>4, <3>1, <3>2, Concat
  <2>5. StreamInv(f)'
    BY <1>1, <1>4, <2>1, <2>4 DEF StreamInv, Consumed, Unreceived
  <2>. QED
    BY <1>6, <1>8, <2>2, <2>3, <2>5 DEF ChannelInv
<1>. QED
  BY <1>10, <1>11

-----------------------------------------------------------------------------
(* The invariant and the properties that follow from it.                   *)

\* Every step keeps the inductive invariant.
LEMMA IInvInductive == IInv /\ [Next]_vars => IInv'
<1> SUFFICES ASSUME IInv, [Next]_vars PROVE IInv'
  OBVIOUS
<1>1. TypeOK'
  BY TypeInductive DEF IInv
<1>2. CASE UNCHANGED vars
  BY <1>1, <1>2, QuietKeepsInv DEF vars, sending
<1>3. ASSUME NEW e \in Endpoint, Step(e) PROVE IInv'
  <2>1. ASSUME NEW d \in Blocks, WriteMessage(e, d) PROVE IInv'
    BY <1>1, <2>1, WriteKeepsInv
  <2>2. ASSUME NEW d \in Blocks, OverflowMessage(e, d) PROVE IInv'
    BY <1>1, <2>2, OverflowKeepsInv
  <2>3. ASSUME NEW d \in Blocks, HaltOnWrite(e, d) PROVE IInv'
    BY <1>1, <2>3, QuietKeepsInv DEF HaltOnWrite, sending
  <2>4. CASE TransmitOverflowed(e)
    BY <1>1, <2>4, QuietKeepsInv DEF TransmitOverflowed
  <2>5. CASE HaltOnTransmit(e)
    BY <1>1, <2>5, QuietKeepsInv DEF HaltOnTransmit, sending
  <2>6. ASSUME NEW n \in DatagramSizes, Transmit(e, n) PROVE IInv'
    <3>1. ASSUME NEW f \in Endpoint
          PROVE  ChannelInv(f)' /\ BufferInv(f)' /\ StreamInv(f)'
      <4>1. CASE f = e
        BY <1>1, <2>6, <4>1, TransmitOwn
      <4>2. CASE f # e
        BY <1>1, <2>6, <4>2, OnlyPeer, TransmitPeer
      <4>. QED
        BY <4>1, <4>2
    <3>. QED
      BY <1>1, <3>1 DEF IInv, ChannelInv
  <2>7. CASE Process(e)
    <3>1. PICK p \in network[Peer(e)] : Receive(e, p) /\ network' = network
      BY <2>7 DEF Process
    <3>2. ASSUME NEW f \in Endpoint
          PROVE  ChannelInv(f)' /\ BufferInv(f)' /\ StreamInv(f)'
      <4>1. CASE f = e
        BY <1>1, <3>1, <4>1, ReceiveOwn
      <4>2. CASE f # e
        BY <1>1, <3>1, <4>2, OnlyPeer, ReceivePeer
      <4>. QED
        BY <4>1, <4>2
    <3>. QED
      BY <1>1, <3>2 DEF IInv, ChannelInv
  <2>8. CASE DropMove(e)
    BY <1>1, <2>8, DropMoveKeepsInv
  <2>. QED
    BY <1>3, <2>1, <2>2, <2>3, <2>4, <2>5, <2>6, <2>7, <2>8 DEF Step
<1>. QED
  BY <1>2, <1>3 DEF Next

\* The protocol's invariant holds in every reachable state: one acceptable
\* transmission at most, no stale acknowledgement that could be mistaken for a
\* fresh one, and a consumed prefix of each stream.
THEOREM Invariant == Spec => []IInv
<1>. QED
  BY InitInv, IInvInductive, PTL DEF Spec

\* Exactly once and in order: whatever the network does, the peer of e is
\* handed the stream of e and nothing else (Netchan_Transmit 304-317,
\* Netchan_Process 443-495).
THEOREM ExactlyOnce == Spec => []StreamIntact
<1>1. IInv => StreamIntact
  BY DEF IInv, StreamInv, Consumed, StreamIntact
<1>. QED
  BY <1>1, Invariant, PTL

\* The transmit buffer is free only when the peer has what it held
\* (Netchan_Process 483-487).
THEOREM FreeMeansReceived == Spec => []BufferFreeMeansReceived
<1>1. IInv => BufferFreeMeansReceived
  BY DEF IInv, BufferInv, AckInv, BufferFreeMeansReceived
<1>. QED
  BY <1>1, Invariant, PTL

\* Never are two transmissions of reliable data both acceptable
\* (Netchan_Transmit 304-308).
THEOREM AtMostOneAcceptable == Spec => []OneAcceptable
<1>1. ASSUME IInv PROVE OneAcceptable
  <2> SUFFICES ASSUME NEW e \in Endpoint,
                      NEW p \in Acceptable(e), NEW q \in Acceptable(e)
               PROVE  p = q
    BY DEF OneAcceptable
  <2>1. SequenceInv(e) /\ PayloadInv(e) /\ TypeOK
    BY <1>1 DEF IInv
  <2>2. p \in network[e] /\ q \in network[e]
    BY DEF Acceptable
  <2>3. p.sequence \in Nat /\ q.sequence \in Nat
    BY <2>1, <2>2, PacketTyped
  <2>4. p.sequence + 1 = q.sequence + 1
    BY <2>1 DEF PayloadInv
  <2>5. p.sequence = q.sequence
    BY <2>3, <2>4
  <2>. QED
    BY <2>1, <2>2, <2>5 DEF SequenceInv
<1>. QED
  BY <1>1, Invariant, PTL

-----------------------------------------------------------------------------
(* The retransmission discipline.                                          *)

\* A reliable packet is sent only when no earlier one can be accepted
\* (net_chan.c 48-50, Netchan_Transmit 304-317).
THEOREM RetransmitDiscipline == Spec => RetransmitOnlyLost
<1>. DEFINE Disciplined ==
        \A e \in Endpoint :
           (\E p \in network'[e] \ network[e] : p.reliable)
              => Acceptable(e) = {}
<1>1. ASSUME IInv, [Next]_vars PROVE [Disciplined]_vars
  <2>1. CASE UNCHANGED vars
    BY <2>1
  <2>2. ASSUME NEW e \in Endpoint, Step(e) PROVE Disciplined
    <3>1. CASE network' = network
      BY <3>1
    <3>2. ASSUME NEW n \in DatagramSizes, Transmit(e, n) PROVE Disciplined
      <4>1. PICK p : Sends(e, p)
        BY <1>1, <3>2, TransmitFacts
      <4>2. p.reliable => Acceptable(e) = {}
        BY <1>1, <4>1, WhenSent DEF Sends
      <4>3. network' = [network EXCEPT ![e] = @ \cup {p}]
        BY <4>1 DEF Sends
      <4>4. TypeOK
        BY <1>1 DEF IInv
      <4>5. ASSUME NEW f \in Endpoint,
                   NEW q \in network'[f] \ network[f], q.reliable
            PROVE  Acceptable(f) = {}
        <5>1. f = e /\ q = p
          BY <4>3, <4>4, <4>5 DEF TypeOK
        <5>. QED
          BY <4>2, <4>5, <5>1
      <4>. QED
        BY <4>5
    <3>3. (\E n \in DatagramSizes : Transmit(e, n)) \/ network' = network
      BY <2>2 DEF Step, WriteMessage, OverflowMessage, HaltOnWrite,
                  TransmitOverflowed, HaltOnTransmit, DropMove, Process
    <3>. QED
      BY <3>1, <3>2, <3>3
  <2>. QED
    BY <1>1, <2>1, <2>2 DEF Next
<1>. QED
  BY <1>1, Invariant, PTL DEF Spec, RetransmitOnlyLost

-----------------------------------------------------------------------------
(* The server's packets.                                                   *)

\* The server never fails to put a reliable message in a packet: its header
\* leaves room for a full message buffer (Netchan_Transmit 319-345).
THEOREM ServerNeverStuck == Spec => []ServerCanSend
<1>1. ASSUME IInv PROVE ServerCanSend
  <2>. DEFINE s == "server"
  <2>1. s \in Endpoint
    BY DEF Endpoint
  <2>2. TypeOK /\ BufferInv(s)
    BY <1>1, <2>1 DEF IInv
  <2>3. Len(Outgoing(s)) <= MaxSize[s]
    <3>1. CASE MustSendNew(s)
      BY <2>2, <3>1 DEF Outgoing, BufferInv
    <3>2. CASE ~MustSendNew(s)
      <4>1. reliable_buf[s] \in Seq(Data) /\ MaxSize[s] \in Nat
        BY <2>1, <2>2, SizeAssumption DEF TypeOK
      <4>2. /\ SubSeq(reliable_buf[s], 1, 0) = <<>>
            /\ SubSeq(reliable_buf[s], 1, Len(reliable_buf[s]))
                  = reliable_buf[s]
        BY <4>1, SubSeqEmpty, SubSeqFull
      <4>3. Outgoing(s) \in {<<>>, reliable_buf[s]}
        BY <2>2, <3>2, <4>2 DEF Outgoing, BufferInv
      <4>. QED
        BY <2>2, <4>1, <4>3, EmptySeq DEF BufferInv
    <3>. QED
      BY <3>1, <3>2
  <2>4. HeaderSize(s) = PacketHeader /\ SendSize(s) = MaxSize[s] + PacketHeader
    BY SizeAssumption DEF HeaderSize, SendSize
  <2>5. Outgoing(s) \in Seq(Data)
    BY <2>1, <2>2, SubSeqProperties DEF Outgoing, TypeOK
  <2>6. /\ Len(Outgoing(s)) \in Nat
        /\ MaxSize[s] \in Nat
        /\ PacketHeader \in Nat
    BY <2>1, <2>5, LenProperties, SizeAssumption
  <2>. QED
    BY <2>3, <2>4, <2>6 DEF ServerCanSend, CannotSend
<1>. QED
  BY <1>1, Invariant, PTL

-----------------------------------------------------------------------------
(* The length of a packet.                                                 *)

\* A datagram is added to what fits only if both fit.
LEMMA RoomForBoth ==
    ASSUME NEW e \in Endpoint, NEW payload \in Seq(Data), NEW n \in Nat,
           HeaderSize(e) + Len(payload) <= SendSize(e)
    PROVE  HeaderSize(e) + Len(payload) + Unreliable(e, payload, n)
               <= SendSize(e)
<1>1. HeaderSize(e) \in Nat /\ SendSize(e) \in Nat /\ Len(payload) \in Nat
  BY SizeAssumption DEF HeaderSize, SendSize, Endpoint
<1>. QED
  BY <1>1 DEF Unreliable

\* Every packet fits the send buffer, whatever the sizes of the buffers and of
\* the datagrams (Netchan_Transmit 319-345).
THEOREM PacketsAlwaysFit == Spec => []PacketsFit
<1>1. Init => PacketsFit
  BY DEF Init, PacketsFit
<1>2. ASSUME IInv, PacketsFit, [Next]_vars PROVE PacketsFit'
  <2>1. TypeOK
    BY <1>2 DEF IInv
  <2>2. CASE network' = network
    BY <1>2, <2>2 DEF PacketsFit, HeaderSize, SendSize
  <2>3. ASSUME NEW e \in Endpoint, NEW n \in DatagramSizes, Transmit(e, n)
        PROVE  PacketsFit'
    <3>. DEFINE reliable == MustResend(e) \/ MustSendNew(e)
                payload == IF reliable THEN Outgoing(e) ELSE <<>>
                p == [sequence |-> outgoing_sequence[e],
                      reliable |-> reliable,
                      ack |-> incoming_sequence[e],
                      reliable_ack |-> incoming_reliable_sequence[e],
                      payload |-> payload,
                      unreliable |-> Unreliable(e, payload, n)]
    <3>1. network' = [network EXCEPT ![e] = @ \cup {p}]
      BY <2>3 DEF Transmit, Toggled
    <3>2. reliable => HeaderSize(e) + Len(Outgoing(e)) <= SendSize(e)
      <4>1. Outgoing(e) \in Seq(Data)
        BY <2>1, SubSeqProperties DEF Outgoing, TypeOK
      <4>2. HeaderSize(e) \in Nat /\ SendSize(e) \in Nat
        BY SizeAssumption DEF HeaderSize, SendSize, Endpoint
      <4>3. Len(Outgoing(e)) \in Nat
        BY <4>1
      <4>. QED
        BY <2>3, <4>2, <4>3 DEF Transmit, CannotSend
    <3>3. HeaderSize(e) <= SendSize(e) /\ HeaderSize(e) \in Nat
      BY SizeAssumption DEF HeaderSize, SendSize, Endpoint
    <3>4. payload \in Seq(Data)
      BY <2>1, SubSeqProperties, EmptySeq DEF Outgoing, TypeOK
    <3>5. HeaderSize(e) + Len(payload) <= SendSize(e)
      BY <3>2, <3>3, EmptySeq
    <3>. HIDE DEF reliable, payload
    <3>6. HeaderSize(e) + Len(payload) + Unreliable(e, payload, n)
              <= SendSize(e)
      BY <3>4, <3>5, RoomForBoth, SizeAssumption
    <3>7. HeaderSize(e) + Len(p.payload) + p.unreliable <= SendSize(e)
      BY <3>6
    <3>. HIDE DEF p
    <3>8. ASSUME NEW f \in Endpoint, NEW q \in network'[f]
          PROVE  HeaderSize(f) + Len(q.payload) + q.unreliable <= SendSize(f)
      <4>1. CASE f = e /\ q = p
        BY <3>7, <4>1
      <4>2. CASE q \in network[f]
        BY <1>2, <4>2 DEF PacketsFit
      <4>. QED
        BY <2>1, <3>1, <3>8, <4>1, <4>2 DEF TypeOK
    <3>. QED
      BY <3>8 DEF PacketsFit, HeaderSize, SendSize
  <2>4. \/ network' = network
        \/ \E e \in Endpoint, n \in DatagramSizes : Transmit(e, n)
    BY <1>2 DEF Next, Step, WriteMessage, OverflowMessage, HaltOnWrite,
                TransmitOverflowed, HaltOnTransmit, DropMove, Process, vars
  <2>. QED
    BY <2>2, <2>3, <2>4
<1>. QED
  BY <1>1, <1>2, Invariant, PTL DEF Spec

-----------------------------------------------------------------------------
(* The refinement.                                                         *)

\* A sequence is continued by what is concatenated to it.
LEMMA ConcatContinues ==
    \A s, t \in Seq(Data) : t # <<>> => Stream!Continues(s, s \o t)
<1> SUFFICES ASSUME NEW s \in Seq(Data), NEW t \in Seq(Data), t # <<>>
             PROVE  Stream!Continues(s, s \o t)
  OBVIOUS
<1>1. Len(s) \in Nat /\ Len(t) \in Nat \ {0} /\ Len(s \o t) = Len(s) + Len(t)
  BY EmptySeq, LenProperties, ConcatProperties
<1>2. s = SubSeq(s \o t, 1, Len(s))
  BY ConcatIsPrefix
<1>. QED
  BY <1>1, <1>2 DEF Stream!Continues

\* A write that fits appends to the stream, unless it was stopped.
LEMMA WriteRefines ==
    ASSUME IInv, NEW e \in Endpoint, NEW d \in Blocks, WriteMessage(e, d)
    PROVE  Stream!Write(e) \/ UNCHANGED Stream!vars
<1>1. TypeOK
  BY DEF IInv
<1>2. d \in Seq(Data) /\ d # <<>> /\ written[e] \in Seq(Data)
  BY <1>1, BlocksAssumption DEF TypeOK
<1>3. CASE overflowed[e]
  BY <1>3 DEF WriteMessage, Stream!vars
<1>4. CASE ~overflowed[e]
  <2>1. written' = [written EXCEPT ![e] = @ \o d]
    BY <1>4 DEF WriteMessage
  <2>2. written'[e] = written[e] \o d
    BY <1>1, <2>1 DEF TypeOK
  <2>3. written' = [written EXCEPT ![e] = written'[e]]
    BY <2>1, <2>2
  <2>4. Stream!Continues(written[e], written'[e]) /\ written'[e] \in Seq(Data)
    BY <1>2, <2>2, ConcatContinues, Concat
  <2>. QED
    BY <1>4, <2>3, <2>4 DEF Stream!Write, WriteMessage
<1>. QED
  BY <1>3, <1>4

\* Processing a packet hands the peer the next piece of the stream, or none.
LEMMA ReceiveRefines ==
    ASSUME IInv, NEW e \in Endpoint, NEW p \in network[Peer(e)], Receive(e, p)
    PROVE  Stream!Deliver(Peer(e)) \/ UNCHANGED Stream!vars
<1>. DEFINE f == Peer(e)
<1>1. f \in Endpoint /\ Peer(f) = e
  BY PeerPeer
<1>2. TypeOK /\ PayloadInv(f) /\ AckInv(f) /\ BufferInv(f) /\ StreamInv(f)
  BY <1>1 DEF IInv
<1>3. /\ delivered' = [delivered EXCEPT ![f] = @ \o p.payload]
      /\ UNCHANGED <<written, overflowed>>
  BY DEF Receive, Fresh, Acknowledges, Toggled
<1>4. delivered[f] \in Seq(Data) /\ reliable_buf[f] \in Seq(Data)
  BY <1>1, <1>2 DEF TypeOK
<1>. HIDE DEF f
<1>5. CASE ~p.reliable
  <2>1. p.payload = <<>>
    BY <1>2, <1>5 DEF PayloadInv, f
  <2>2. delivered[f] \o p.payload = delivered[f]
    BY <1>4, <2>1, Concat
  <2>. QED
    BY <1>1, <1>2, <1>3, <2>2 DEF Stream!vars, TypeOK
<1>6. CASE p.reliable
  <2>1. p \in Acceptable(f)
    BY <1>1, <1>6 DEF Acceptable, Receive, Fresh, f
  <2>2. InFlight(f) /\ p.payload = reliable_buf[f]
    BY <1>2, <2>1 DEF PayloadInv
  <2>3. reliable_buf[f] # <<>>
    <3>1. reliable_length[f] # 0
      BY <1>2, <2>2 DEF AckInv, BufferInv
    <3>. QED
      BY <1>2, <3>1, EmptySeq DEF BufferInv
  <2>4. delivered'[f] = delivered[f] \o reliable_buf[f]
    BY <1>1, <1>2, <1>3, <2>2 DEF TypeOK
  <2>5. Stream!Continues(delivered[f], delivered'[f])
    BY <1>4, <2>3, <2>4, ConcatContinues
  <2>6. PICK n \in 0 .. Len(written[f]) :
           delivered'[f] = SubSeq(written[f], 1, n)
    BY <1>2, <2>2, <2>4 DEF StreamInv, Consumed, Unreceived
  <2>7. n # 0
    <3>1. SubSeq(written[f], 1, 0) = <<>>
      BY SubSeqEmpty
    <3>2. Len(delivered[f]) \in Nat
      BY <1>4, LenProperties
    <3>. QED
      BY <2>5, <2>6, <3>1, <3>2, EmptySeq DEF Stream!Continues
  <2>8. n \in 1 .. Len(written[f])
    BY <2>7
  <2>9. delivered' = [delivered EXCEPT ![f] = SubSeq(written[f], 1, n)]
    BY <1>1, <1>2, <1>3, <2>2, <2>4, <2>6 DEF TypeOK
  <2>. QED
    BY <1>3, <2>5, <2>8, <2>9 DEF Stream!Deliver, f
<1>. QED
  BY <1>5, <1>6

\* NetChan implements the contract of ReliableStream.
THEOREM ImplementsStream == Spec => StreamSpec
<1>1. Init => Stream!Init
  BY DEF Init, Stream!Init
<1>2. ASSUME IInv, [Next]_vars PROVE [Stream!Next]_(Stream!vars)
  <2>1. CASE UNCHANGED vars
    BY <2>1 DEF vars, sending, Stream!vars
  <2>2. ASSUME NEW e \in Endpoint, Step(e)
        PROVE  Stream!Next \/ UNCHANGED Stream!vars
    <3>1. ASSUME NEW d \in Blocks, WriteMessage(e, d)
          PROVE  Stream!Next \/ UNCHANGED Stream!vars
      BY <1>2, <3>1, WriteRefines DEF Stream!Next
    <3>2. ASSUME NEW d \in Blocks, OverflowMessage(e, d)
          PROVE  Stream!Next \/ UNCHANGED Stream!vars
      <4>1. TypeOK
        BY <1>2 DEF IInv
      <4>2. CASE overflowed[e]
        BY <3>2, <4>1, <4>2 DEF OverflowMessage, TypeOK, Stream!vars
      <4>3. CASE ~overflowed[e]
        BY <3>2, <4>3 DEF OverflowMessage, Stream!Stop, Stream!Next
      <4>. QED
        BY <4>2, <4>3
    <3>3. CASE Process(e)
      <4>1. PICK p \in network[Peer(e)] : Receive(e, p)
        BY <3>3 DEF Process
      <4>2. Peer(e) \in Endpoint
        BY PeerPeer
      <4>. QED
        BY <1>2, <4>1, <4>2, ReceiveRefines DEF Stream!Next
    <3>4. CASE UNCHANGED <<written, delivered, overflowed>>
      BY <3>4 DEF Stream!vars
    <3>5. \/ \E d \in Blocks : WriteMessage(e, d) \/ OverflowMessage(e, d)
          \/ Process(e)
          \/ UNCHANGED <<written, delivered, overflowed>>
      BY <2>2 DEF Step, HaltOnWrite, TransmitOverflowed, HaltOnTransmit,
                  DropMove, Transmit, sending
    <3>. QED
      BY <3>1, <3>2, <3>3, <3>4, <3>5
  <2>. QED
    BY <1>2, <2>1, <2>2 DEF Next
<1>. QED
  BY <1>1, <1>2, Invariant, PTL DEF Spec, StreamSpec, Stream!Spec

-----------------------------------------------------------------------------
(* The channel under its owners.  An answer is made at the client's number: *)
(* while one is due, the server's next sequence number is that of the      *)
(* client's last packet.                                                   *)

\* The packets of the server that answer none.
Unmatched == {p \in network["server"] : p.sequence # p.ack}

AnswerDue ==
    send_message =>
        outgoing_sequence["server"] = incoming_sequence["server"]

FairInv ==
    /\ TypeOK
    /\ send_message \in BOOLEAN /\ to_all \in Nat
    /\ IsFiniteSet(network["server"])
    /\ AnswerDue
    /\ AnswersMatch
    /\ SlipBounded

\* The endpoints, and what the invariant says of them.
LEMMA Ends ==
    ASSUME FairInv
    PROVE  /\ "server" \in Endpoint /\ "client" \in Endpoint
           /\ Peer("server") = "client" /\ Peer("client") = "server"
           /\ outgoing_sequence["server"] \in Nat
           /\ incoming_sequence["server"] \in Nat
           /\ IsFiniteSet(Unmatched)
           /\ Cardinality(Unmatched) \in Nat /\ Cardinality(Unmatched) <= to_all
<1>1. IsFiniteSet(Unmatched)
  BY FS_Subset DEF FairInv, Unmatched
<1>2. Cardinality(Unmatched) <= to_all
  BY DEF FairInv, AnswersMatch, Unmatched
<1>. QED
  BY <1>1, <1>2, FS_CardinalityType DEF FairInv, TypeOK, Endpoint, Peer

LEMMA FairInitInv == FairInit => FairInv
<1>. SUFFICES ASSUME FairInit PROVE FairInv
  OBVIOUS
<1>1. TypeOK
  BY InitInv DEF FairInit, IInv
<1>2. /\ network["server"] = {}
      /\ outgoing_sequence["server"] = 0 /\ incoming_sequence["server"] = 0
      /\ send_message = FALSE /\ to_all = 0
  BY DEF FairInit, Init, Endpoint
<1>3. IsFiniteSet({}) /\ Cardinality({}) = 0
  BY FS_EmptySet
<1>4. {p \in network["server"] : p.sequence # p.ack} = {}
  BY <1>2
<1>5. AnswersMatch
  BY <1>2, <1>3, <1>4 DEF AnswersMatch
<1>6. SlipBounded /\ AnswerDue
  BY <1>2 DEF SlipBounded, AnswerDue
<1>7. IsFiniteSet(network["server"])
  BY <1>2, <1>3
<1>. QED
  BY <1>1, <1>2, <1>5, <1>6, <1>7 DEF FairInv

\* Nothing the invariant is about changes.
LEMMA AsideKeeps ==
    ASSUME FairInv, TypeOK', UNCHANGED owners,
           network'["server"] = network["server"],
           outgoing_sequence'["server"] = outgoing_sequence["server"],
           incoming_sequence'["server"] = incoming_sequence["server"]
    PROVE  FairInv'
BY DEF FairInv, owners, AnswerDue, AnswersMatch, SlipBounded

\* A packet goes out to the client.
LEMMA ServerSends ==
    ASSUME FairInv, NEW n \in DatagramSizes, Transmit("server", n)
    PROVE  /\ TypeOK'
           /\ outgoing_sequence'["server"] = outgoing_sequence["server"] + 1
           /\ incoming_sequence'["server"] = incoming_sequence["server"]
           /\ \E p : /\ network'["server"] = network["server"] \cup {p}
                     /\ p.sequence = outgoing_sequence["server"]
                     /\ p.ack = incoming_sequence["server"]
<1>1. TypeOK /\ "server" \in Endpoint
  BY Ends DEF FairInv
<1>2. TypeOK'
  <2>1. Next
    BY <1>1 DEF Next, Step
  <2>. QED
    BY <1>1, <2>1, TypeInductive
<1>. DEFINE reliable == MustResend("server") \/ MustSendNew("server")
            payload == IF reliable THEN Outgoing("server") ELSE <<>>
            q == [sequence |-> outgoing_sequence["server"],
                  reliable |-> reliable,
                  ack |-> incoming_sequence["server"],
                  reliable_ack |-> incoming_reliable_sequence["server"],
                  payload |-> payload,
                  unreliable |-> Unreliable("server", payload, n)]
<1>3. network' = [network EXCEPT !["server"] = @ \cup {q}]
  BY DEF Transmit
<1>. HIDE DEF reliable, payload
<1>8. q.sequence = outgoing_sequence["server"]
       /\ q.ack = incoming_sequence["server"]
  OBVIOUS
<1>. HIDE DEF q
<1>4. PICK p : /\ network' = [network EXCEPT !["server"] = @ \cup {p}]
               /\ p.sequence = outgoing_sequence["server"]
               /\ p.ack = incoming_sequence["server"]
  BY <1>3, <1>8
<1>5. network'["server"] = network["server"] \cup {p}
  BY <1>1, <1>4 DEF TypeOK
<1>6. /\ outgoing_sequence'["server"] = outgoing_sequence["server"] + 1
      /\ incoming_sequence'["server"] = incoming_sequence["server"]
  BY <1>1 DEF Transmit, receiving, TypeOK
<1>. QED
  BY <1>2, <1>4, <1>5, <1>6

\* A packet more is finite, and counts for one.
LEMMA OneMore ==
    ASSUME FairInv, NEW p, network'["server"] = network["server"] \cup {p}
    PROVE  /\ IsFiniteSet(network'["server"])
           /\ p.sequence = p.ack => Unmatched' = Unmatched
           /\ Cardinality(Unmatched') <= Cardinality(Unmatched) + 1
<1>1. IsFiniteSet(network'["server"])
  BY FS_AddElement DEF FairInv
<1>2. p.sequence = p.ack => Unmatched' = Unmatched
  BY DEF Unmatched
<1>3. Unmatched' = Unmatched \/ Unmatched' = Unmatched \cup {p}
  <2>1. CASE p.sequence = p.ack
    BY <1>2, <2>1
  <2>2. CASE p.sequence # p.ack
    <3>1. Unmatched' = Unmatched \cup {p}
      BY <2>2 DEF Unmatched
    <3>. QED
      BY <3>1
  <2>. QED
    BY <2>1, <2>2
<1>4. /\ IsFiniteSet(Unmatched) /\ Cardinality(Unmatched) \in Nat
  BY Ends
<1>5. Cardinality(Unmatched \cup {p})
          \in {Cardinality(Unmatched), Cardinality(Unmatched) + 1}
  BY <1>4, FS_AddElement
<1>6. Cardinality(Unmatched') <= Cardinality(Unmatched) + 1
  <2>1. PICK c : c = Cardinality(Unmatched)
    OBVIOUS
  <2>2. Cardinality(Unmatched') \in {c, c + 1}
    BY <1>3, <1>5, <2>1
  <2>. QED
    BY <1>4, <2>1, <2>2
<1>. QED
  BY <1>1, <1>2, <1>6

\* ServerTransmit: the answer has the number of the packet it answers.
LEMMA AnswerKeeps == FairInv /\ ServerTransmit => FairInv'
<1>. SUFFICES ASSUME FairInv, ServerTransmit PROVE FairInv'
  OBVIOUS
<1>1. PICK n \in DatagramSizes : Transmit("server", n)
  BY DEF ServerTransmit
<1>2. send_message /\ send_message' = FALSE /\ to_all' = to_all
  BY DEF ServerTransmit
<1>3. outgoing_sequence["server"] = incoming_sequence["server"]
  BY <1>2 DEF FairInv, AnswerDue
<1>4. PICK p : /\ network'["server"] = network["server"] \cup {p}
               /\ p.sequence = p.ack
  BY <1>1, <1>3, ServerSends
<1>5. IsFiniteSet(network'["server"]) /\ Unmatched' = Unmatched
  BY <1>4, OneMore
<1>6. AnswersMatch'
  BY <1>2, <1>5, Ends DEF AnswersMatch, Unmatched
<1>7. SlipBounded'
  <2>1. to_all \in Nat
    BY DEF FairInv
  <2>2. /\ outgoing_sequence'["server"] = outgoing_sequence["server"] + 1
        /\ incoming_sequence'["server"] = incoming_sequence["server"]
    BY <1>1, ServerSends
  <2>. QED
    BY <1>2, <1>3, <2>1, <2>2, Ends DEF SlipBounded
<1>. QED
  BY <1>1, <1>2, <1>5, <1>6, <1>7, ServerSends DEF FairInv, AnswerDue

\* SendMessagesToAll: one more packet that answers none, and the server is one
\* further ahead.
LEMMA ToAllKeeps == FairInv /\ SendMessagesToAll => FairInv'
<1>. SUFFICES ASSUME FairInv, SendMessagesToAll PROVE FairInv'
  OBVIOUS
<1>1. PICK n \in DatagramSizes : Transmit("server", n)
  BY DEF SendMessagesToAll
<1>2. send_message' = FALSE /\ to_all' = to_all + 1 /\ to_all \in Nat
  BY DEF SendMessagesToAll, FairInv
<1>3. PICK p : network'["server"] = network["server"] \cup {p}
  BY <1>1, ServerSends
<1>4. /\ IsFiniteSet(network'["server"])
      /\ Cardinality(Unmatched') <= Cardinality(Unmatched) + 1
  BY <1>3, OneMore
<1>5. Cardinality(Unmatched') \in Nat
  <2>1. IsFiniteSet(Unmatched')
    BY <1>4, FS_Subset DEF Unmatched
  <2>. QED
    BY <2>1, FS_CardinalityType
<1>6. Cardinality(Unmatched') <= to_all'
  BY <1>2, <1>4, <1>5, Ends
<1>7. AnswersMatch'
  BY <1>6 DEF AnswersMatch, Unmatched
<1>8. SlipBounded'
  <2>1. /\ outgoing_sequence'["server"] = outgoing_sequence["server"] + 1
        /\ incoming_sequence'["server"] = incoming_sequence["server"]
    BY <1>1, ServerSends
  <2>2. outgoing_sequence["server"] <= incoming_sequence["server"] + 1 + to_all
    BY DEF FairInv, SlipBounded
  <2>. QED
    BY <1>2, <2>1, <2>2, Ends DEF SlipBounded
<1>9. AnswerDue' /\ to_all' \in Nat /\ send_message' \in BOOLEAN
  <2>1. ~send_message'
    BY <1>2
  <2>2. send_message' \in BOOLEAN
    BY <1>2
  <2>3. to_all' \in Nat
    BY <1>2
  <2>. QED
    BY <2>1, <2>2, <2>3 DEF AnswerDue
<1>10. TypeOK'
  BY <1>1, ServerSends
<1>. QED
  BY <1>4, <1>7, <1>8, <1>9, <1>10 DEF FairInv

\* FairProcess: the server's number follows the client's unless it is ahead;
\* the client forgets packets.
LEMMA ProcessKeeps ==
    ASSUME FairInv, NEW e \in Endpoint, FairProcess(e)
    PROVE  FairInv'
<1>1. PICK p \in network[Peer(e)] :
         /\ Receive(e, p)
         /\ network' = [network EXCEPT
               ![Peer(e)] = {q \in @ : q.sequence > p.sequence}]
         /\ send_message' = IF e = "server" THEN Answers(e, p) ELSE send_message
         /\ to_all' = to_all
  BY DEF FairProcess
<1>2. TypeOK /\ Peer(e) \in Endpoint
  BY PeerPeer DEF FairInv
<1>3. p \in Packet
  BY <1>2 DEF TypeOK
<1>4. network' \in [Endpoint -> SUBSET Packet]
  BY <1>1, <1>2 DEF TypeOK
<1>5. TypeOK'
  BY <1>1, <1>2, <1>4, ReceiveTypes
<1>6. network'["server"] \subseteq network["server"]
  BY <1>1, <1>2, Ends DEF TypeOK
<1>7. IsFiniteSet(network'["server"])
  BY <1>6, FS_Subset DEF FairInv
<1>8. AnswersMatch'
  <2>1. Unmatched' \subseteq Unmatched
    BY <1>6 DEF Unmatched
  <2>2. /\ Cardinality(Unmatched') <= Cardinality(Unmatched)
        /\ IsFiniteSet(Unmatched')
    BY <2>1, Ends, FS_Subset
  <2>3. Cardinality(Unmatched') \in Nat /\ to_all \in Nat
    BY <2>2, FS_CardinalityType DEF FairInv
  <2>4. Cardinality(Unmatched') <= to_all'
    BY <1>1, <2>2, <2>3, Ends
  <2>. QED
    BY <2>4 DEF AnswersMatch, Unmatched
<1>9. to_all \in Nat
  BY DEF FairInv
<1>10. outgoing_sequence["server"] <= incoming_sequence["server"] + 1 + to_all
  BY DEF FairInv, SlipBounded
<1>11. AnswerDue' /\ SlipBounded' /\ send_message' \in BOOLEAN
  <2>1. CASE e = "server"
    <3>1. /\ incoming_sequence'["server"] = p.sequence
          /\ p.sequence > incoming_sequence["server"]
          /\ outgoing_sequence'["server"] =
                IF p.sequence >= outgoing_sequence["server"]
                THEN p.sequence ELSE outgoing_sequence["server"]
      BY <1>1, <1>2, <2>1 DEF Receive, Fresh, ReplySequence, TypeOK
    <3>2. send_message' <=> p.sequence >= outgoing_sequence["server"]
      BY <1>1, <2>1 DEF Answers
    <3>3. send_message' \in BOOLEAN
      BY <1>1, <2>1 DEF Answers
    <3>4. p.sequence \in Nat
      BY <1>3 DEF Packet
    <3>5. AnswerDue'
      BY <3>1, <3>2 DEF AnswerDue
    <3>6. SlipBounded'
      BY <1>1, <1>9, <1>10, <3>1, <3>4, Ends DEF SlipBounded
    <3>. QED
      BY <3>3, <3>5, <3>6
  <2>2. CASE e = "client"
    <3>1. /\ incoming_sequence'["server"] = incoming_sequence["server"]
          /\ outgoing_sequence'["server"] = outgoing_sequence["server"]
          /\ send_message' = send_message
      BY <1>1, <1>2, <2>2 DEF Receive, ReplySequence, TypeOK
    <3>. QED
      BY <1>1, <3>1 DEF FairInv, AnswerDue, SlipBounded
  <2>. QED
    BY <2>1, <2>2 DEF Endpoint
<1>. QED
  BY <1>1, <1>5, <1>7, <1>8, <1>9, <1>11 DEF FairInv

\* Everything else leaves the server's packets and sequence numbers alone.
LEMMA ElsewhereKeeps ==
    ASSUME FairInv,
           \/ \E e \in Endpoint : FairWrite(e)
           \/ ClientTransmit
           \/ ServerChoke
           \/ UNCHANGED fairvars
    PROVE  FairInv'
<1>1. TypeOK
  BY DEF FairInv
<1>2. ASSUME NEW e \in Endpoint, FairWrite(e) PROVE FairInv'
  <2>1. PICK d \in Blocks : WriteMessage(e, d)
    BY <1>2 DEF FairWrite
  <2>2. TypeOK'
    BY <1>1, <2>1, TypeInductive DEF Next, Step
  <2>3. UNCHANGED <<network, outgoing_sequence, incoming_sequence>>
    BY <2>1 DEF WriteMessage, receiving
  <2>. QED
    BY <1>2, <2>2, <2>3, AsideKeeps DEF FairWrite
<1>3. CASE ClientTransmit
  <2>1. PICK n \in DatagramSizes : Transmit("client", n)
    BY <1>3 DEF ClientTransmit
  <2>2. TypeOK'
    BY <1>1, <2>1, TypeInductive, Ends DEF Next, Step
  <2>3. /\ network'["server"] = network["server"]
        /\ outgoing_sequence'["server"] = outgoing_sequence["server"]
        /\ incoming_sequence'["server"] = incoming_sequence["server"]
    BY <1>1, <2>1 DEF Transmit, receiving, TypeOK
  <2>. QED
    BY <1>3, <2>2, <2>3, AsideKeeps DEF ClientTransmit
<1>4. CASE ServerChoke
  <2>1. UNCHANGED <<vars, to_all>> /\ send_message' = FALSE
    BY <1>4 DEF ServerChoke
  <2>2. UNCHANGED <<network, outgoing_sequence, incoming_sequence>>
    BY <2>1 DEF vars, sending, receiving
  <2>3. TypeOK'
    BY <1>1, <2>1, TypeInductive
  <2>. QED
    BY <2>1, <2>2, <2>3 DEF FairInv, AnswerDue, AnswersMatch, SlipBounded
<1>5. CASE UNCHANGED fairvars
  <2>1. UNCHANGED owners
    BY <1>5 DEF fairvars
  <2>2. UNCHANGED vars
    BY <1>5 DEF fairvars
  <2>3. UNCHANGED <<network, outgoing_sequence, incoming_sequence>>
    BY <2>2 DEF vars, sending, receiving
  <2>4. TypeOK'
    BY <1>1, <2>2, TypeInductive
  <2>. QED
    BY <2>1, <2>3, <2>4, AsideKeeps
<1>. QED
  BY <1>2, <1>3, <1>4, <1>5

\* The invariant, from the owners' steps.
THEOREM Paced == FairSpec => []FairInv
<1>1. FairInv /\ [FairNext]_fairvars => FairInv'
  BY AnswerKeeps, ToAllKeeps, ProcessKeeps, ElsewhereKeeps DEF FairNext
<1>. QED
  BY <1>1, FairInitInv, PTL DEF FairSpec

\* A packet of the server the client has not seen answers the packet of its own
\* number, except for one per SV_SendMessagesToAll (SV_ExecuteClientMessage,
\* sv_user.c 4431-4438; the client looks its frame up by that number).
THEOREM AnswersMatchUp == FairSpec => []AnswersMatch
BY Paced, PTL DEF FairInv

\* The server's sequence number is never further ahead of the client's last
\* packet than the answer and one packet per SV_SendMessagesToAll.
THEOREM SlipsAreBounded == FairSpec => []SlipBounded
BY Paced, PTL DEF FairInv
=============================================================================
