------------------------------- MODULE NetChan -------------------------------
(***************************************************************************)
(* The network channel of src/src/net_chan.c: the two netchan_t of one     *)
(* connection, the client's and the server's, and the UDP packets between  *)
(* them.  A packet may be lost, duplicated, delayed and reordered, so the  *)
(* network is the set of all packets ever sent and Netchan_Process may be  *)
(* handed any of them at any time, or never.  chan->dupe copies of a       *)
(* packet are the same element of that set.                                *)
(*                                                                         *)
(* Sequence numbers are 31 bits wide in the packet header and are compared *)
(* without regard to wrap-around; MaxSequence bounds a connection below    *)
(* the width.  The owners of the channels move them too: DropMove and      *)
(* ReplySequence.  Times, sizes kept for the bandwidth estimator and       *)
(* packet statistics are left out: no guard here depends on them           *)
(* (Netchan_CanPacket is called by the owner of the channel).              *)
(***************************************************************************)
EXTENDS Integers, Sequences

CONSTANTS
    Data,           \* units of payload (bytes)
    Blocks,         \* what one MSG_Write* may append to netchan.message
    DatagramSizes,  \* lengths of the unreliable part handed to Transmit
    MaxSize,        \* MaxSize[e]: netchan.message.maxsize of endpoint e
    PacketHeader,   \* PACKET_HEADER
    QportSize,      \* length of the qport a client adds to the header
    MaxSequence,    \* bound: packets endpoint e sends in a connection
    MaxWritten      \* bound: MaxWritten[e] units endpoint e writes

Endpoint == {"client", "server"}
Peer(e) == IF e = "client" THEN "server" ELSE "client"

ASSUME BlocksAssumption == Blocks \subseteq Seq(Data) \ {<<>>}
ASSUME SizeAssumption ==
    /\ MaxSize \in [Endpoint -> Nat \ {0}]
    /\ DatagramSizes \subseteq Nat
    /\ PacketHeader \in Nat
    /\ QportSize \in 0 .. MaxSize["client"]
ASSUME BoundAssumption ==
    MaxSequence \in [Endpoint -> Nat] /\ MaxWritten \in [Endpoint -> Nat]

VARIABLES
    message,                        \* reliable data not yet in reliable_buf
    overflowed,                     \* message.overflowed
    fatal_error,
    reliable_buf,                   \* the unacknowledged reliable message
    reliable_length,
    outgoing_sequence,
    reliable_sequence,              \* one bit
    last_reliable_sequence,
    incoming_sequence,
    incoming_acknowledged,
    incoming_reliable_acknowledged, \* one bit
    incoming_reliable_sequence,     \* one bit
    network,                        \* network[e]: every packet e ever sent
    halted,                         \* Sys_Error ended the program at e
    written,                        \* history: the stream e has written
    delivered                       \* history: the stream of e its peer read

sending == <<message, overflowed, fatal_error, reliable_buf, reliable_length,
             outgoing_sequence, reliable_sequence, last_reliable_sequence>>
receiving == <<incoming_sequence, incoming_acknowledged,
               incoming_reliable_acknowledged, incoming_reliable_sequence>>
vars == <<sending, receiving, network, halted, written, delivered>>

Bit == {0, 1}

Packet ==
    [sequence : Nat, reliable : BOOLEAN, ack : Nat, reliable_ack : Bit,
     payload : Seq(Data), unreliable : Nat]

\* The one-bit sequence numbers are toggled with ^= 1.
Counted(b) == b + 1
Toggled(b) == 1 - b

\* Netchan_Setup: both channels are cleared when the connection is made.
Init ==
    /\ message = [e \in Endpoint |-> <<>>]
    /\ overflowed = [e \in Endpoint |-> FALSE]
    /\ fatal_error = [e \in Endpoint |-> FALSE]
    /\ reliable_buf = [e \in Endpoint |-> <<>>]
    /\ reliable_length = [e \in Endpoint |-> 0]
    /\ outgoing_sequence = [e \in Endpoint |-> 0]
    /\ reliable_sequence = [e \in Endpoint |-> 0]
    /\ last_reliable_sequence = [e \in Endpoint |-> 0]
    /\ incoming_sequence = [e \in Endpoint |-> 0]
    /\ incoming_acknowledged = [e \in Endpoint |-> 0]
    /\ incoming_reliable_acknowledged = [e \in Endpoint |-> 0]
    /\ incoming_reliable_sequence = [e \in Endpoint |-> 0]
    /\ network = [e \in Endpoint |-> {}]
    /\ halted = [e \in Endpoint |-> FALSE]
    /\ written = [e \in Endpoint |-> <<>>]
    /\ delivered = [e \in Endpoint |-> <<>>]

-----------------------------------------------------------------------------
(* MSG_Write* on netchan.message: SZ_Write through SZ_GetSpace, with       *)
(* allowoverflow set by Netchan_Setup.                                     *)

Fits(e, d) == Len(message[e]) + Len(d) <= MaxSize[e]

\* The write fits.
WriteMessage(e, d) ==
    /\ ~halted[e]
    /\ Fits(e, d)
    /\ Len(written[e]) + Len(d) <= MaxWritten[e]
    /\ message' = [message EXCEPT ![e] = @ \o d]
    /\ written' = IF overflowed[e] THEN written
                  ELSE [written EXCEPT ![e] = @ \o d]
    /\ UNCHANGED <<overflowed, fatal_error, reliable_buf, reliable_length,
                   outgoing_sequence, reliable_sequence,
                   last_reliable_sequence, receiving, network, halted,
                   delivered>>

\* The write does not fit: the buffer is emptied and marked, and takes d.
OverflowMessage(e, d) ==
    /\ ~halted[e]
    /\ ~Fits(e, d)
    /\ Len(d) <= MaxSize[e]
    /\ message' = [message EXCEPT ![e] = d]
    /\ overflowed' = [overflowed EXCEPT ![e] = TRUE]
    /\ UNCHANGED <<fatal_error, reliable_buf, reliable_length,
                   outgoing_sequence, reliable_sequence,
                   last_reliable_sequence, receiving, network, halted,
                   written, delivered>>

\* Sys_Error: the data is longer than the whole buffer.
HaltOnWrite(e, d) ==
    /\ ~halted[e]
    /\ Len(d) > MaxSize[e]
    /\ halted' = [halted EXCEPT ![e] = TRUE]
    /\ UNCHANGED <<sending, receiving, network, written, delivered>>

-----------------------------------------------------------------------------
(* Netchan_Transmit.                                                       *)

\* The remote side dropped the last reliable message.  Mutants: every packet
\* resends it; the bits are compared the wrong way round; only the
\* acknowledgement that follows the last transmission is looked at.
ResendAlways(e) == incoming_reliable_acknowledged[e] # reliable_sequence[e]
ResendReceived(e) ==
    /\ incoming_acknowledged[e] > last_reliable_sequence[e]
    /\ incoming_reliable_acknowledged[e] = reliable_sequence[e]
ResendOnEqual(e) ==
    /\ incoming_acknowledged[e] = last_reliable_sequence[e]
    /\ incoming_reliable_acknowledged[e] # reliable_sequence[e]
MustResend(e) ==
    /\ incoming_acknowledged[e] > last_reliable_sequence[e]
    /\ incoming_reliable_acknowledged[e] # reliable_sequence[e]

\* The transmit buffer is free and there is a message to put in it.
\* Mutant: the buffer is not looked at.
SendUnacked(e) == message[e] # <<>>
MustSendNew(e) == reliable_length[e] = 0 /\ message[e] # <<>>

\* Header of a packet of e, and the room in its send buffer.  Mutant: the
\* server adds a qport too.
HeaderOfClient(e) == PacketHeader + QportSize
HeaderSize(e) == PacketHeader + IF e = "client" THEN QportSize ELSE 0
SendSize(e) == MaxSize[e] + PacketHeader

\* What SZ_Write puts in the packet when it carries the reliable buffer.
Outgoing(e) ==
    IF MustSendNew(e) THEN message[e]
    ELSE SubSeq(reliable_buf[e], 1, reliable_length[e])

\* The send buffer, which may not overflow, is too small for the message.
CannotSend(e) ==
    /\ MustResend(e) \/ MustSendNew(e)
    /\ HeaderSize(e) + Len(Outgoing(e)) > SendSize(e)

\* The datagram is added if there is room for it.  Mutant: always.
WholeDatagram(e, payload, n) == n
Unreliable(e, payload, n) ==
    IF SendSize(e) - HeaderSize(e) - Len(payload) >= n THEN n ELSE 0

\* message.overflowed: nothing is sent any more.
TransmitOverflowed(e) ==
    /\ ~halted[e]
    /\ overflowed[e]
    /\ fatal_error' = [fatal_error EXCEPT ![e] = TRUE]
    /\ UNCHANGED <<message, overflowed, reliable_buf, reliable_length,
                   outgoing_sequence, reliable_sequence,
                   last_reliable_sequence, receiving, network, halted,
                   written, delivered>>

\* Sys_Error in SZ_GetSpace while the packet is put together.
HaltOnTransmit(e) ==
    /\ ~halted[e]
    /\ ~overflowed[e]
    /\ CannotSend(e)
    /\ halted' = [halted EXCEPT ![e] = TRUE]
    /\ UNCHANGED <<sending, receiving, network, written, delivered>>

\* A packet goes out, with a datagram of length n if there is room for it.
Transmit(e, n) ==
    LET reliable == MustResend(e) \/ MustSendNew(e)
        payload == IF reliable THEN Outgoing(e) ELSE <<>>
    IN
    /\ ~halted[e]
    /\ ~overflowed[e]
    /\ ~CannotSend(e)
    /\ outgoing_sequence[e] < MaxSequence[e]
    /\ IF MustSendNew(e)
       THEN /\ reliable_buf' = [reliable_buf EXCEPT ![e] = message[e]]
            /\ reliable_length' =
                  [reliable_length EXCEPT ![e] = Len(message[e])]
            /\ message' = [message EXCEPT ![e] = <<>>]
            /\ reliable_sequence' = [reliable_sequence EXCEPT ![e] = Toggled(@)]
       ELSE UNCHANGED <<reliable_buf, reliable_length, message,
                        reliable_sequence>>
    /\ network' = [network EXCEPT ![e] = @ \cup
          {[sequence |-> outgoing_sequence[e],
            reliable |-> reliable,
            ack |-> incoming_sequence[e],
            reliable_ack |-> incoming_reliable_sequence[e],
            payload |-> payload,
            unreliable |-> Unreliable(e, payload, n)]}]
    /\ outgoing_sequence' = [outgoing_sequence EXCEPT ![e] = @ + 1]
    /\ last_reliable_sequence' =
          IF reliable
          THEN [last_reliable_sequence EXCEPT ![e] = outgoing_sequence[e] + 1]
          ELSE last_reliable_sequence
    /\ UNCHANGED <<overflowed, fatal_error, receiving, halted, written,
                   delivered>>

\* CL_SendCmd with cl_c2spps: a move is dropped before it is sent, and its
\* sequence number with it.
DropMove(e) ==
    /\ e = "client"
    /\ ~halted[e]
    /\ outgoing_sequence[e] < MaxSequence[e]
    /\ outgoing_sequence' = [outgoing_sequence EXCEPT ![e] = @ + 1]
    /\ UNCHANGED <<message, overflowed, fatal_error, reliable_buf,
                   reliable_length, reliable_sequence, last_reliable_sequence,
                   receiving, network, halted, written, delivered>>

-----------------------------------------------------------------------------
(* Netchan_Process.                                                        *)

\* p is neither stale nor a duplicate.  Mutant: the last packet is taken again.
FreshOrSame(e, p) == p.sequence >= incoming_sequence[e]
Fresh(e, p) == p.sequence > incoming_sequence[e]

\* The bit of p says that the last reliable message arrived.  Mutant: a packet
\* sent after that message was is taken to say so.
AnswersLater(e, p) == p.ack >= last_reliable_sequence[e]
Acknowledges(e, p) == p.reliable_ack = reliable_sequence[e]

\* SV_ExecuteClientMessage makes the sequence number of the server's reply that
\* of the client's packet, unless the server's is ahead.
ReplySequence(e, p) ==
    IF e = "server" /\ p.sequence >= outgoing_sequence[e]
    THEN [outgoing_sequence EXCEPT ![e] = p.sequence]
    ELSE outgoing_sequence

\* What e does with packet p of its peer.  A stale or duplicated packet
\* changes nothing and is not a step.
Receive(e, p) ==
    /\ ~halted[e]
    /\ Fresh(e, p)
    /\ reliable_length' =
          IF Acknowledges(e, p)
          THEN [reliable_length EXCEPT ![e] = 0]
          ELSE reliable_length
    /\ incoming_sequence' = [incoming_sequence EXCEPT ![e] = p.sequence]
    /\ incoming_acknowledged' = [incoming_acknowledged EXCEPT ![e] = p.ack]
    /\ incoming_reliable_acknowledged' =
          [incoming_reliable_acknowledged EXCEPT ![e] = p.reliable_ack]
    /\ incoming_reliable_sequence' =
          IF p.reliable
          THEN [incoming_reliable_sequence EXCEPT ![e] = Toggled(@)]
          ELSE incoming_reliable_sequence
    /\ outgoing_sequence' = ReplySequence(e, p)
    /\ delivered' = [delivered EXCEPT ![Peer(e)] = @ \o p.payload]
    /\ UNCHANGED <<message, overflowed, fatal_error, reliable_buf,
                   reliable_sequence, last_reliable_sequence, halted, written>>

\* Any packet ever sent may arrive, and arrive again.
Process(e) ==
    /\ \E p \in network[Peer(e)] : Receive(e, p)
    /\ UNCHANGED network

Step(e) ==
    \/ \E d \in Blocks :
          WriteMessage(e, d) \/ OverflowMessage(e, d) \/ HaltOnWrite(e, d)
    \/ TransmitOverflowed(e)
    \/ HaltOnTransmit(e)
    \/ \E n \in DatagramSizes : Transmit(e, n)
    \/ DropMove(e)
    \/ Process(e)

Next == \E e \in Endpoint : Step(e)

Spec == Init /\ [][Next]_vars
-----------------------------------------------------------------------------
(* Properties.                                                             *)

\* Types of every variable; the bits are bits, the transmit buffer
\* holds what its length says and a packet is well formed.
TypeOK ==
    /\ message \in [Endpoint -> Seq(Data)]
    /\ overflowed \in [Endpoint -> BOOLEAN]
    /\ fatal_error \in [Endpoint -> BOOLEAN]
    /\ reliable_buf \in [Endpoint -> Seq(Data)]
    /\ reliable_length \in [Endpoint -> Nat]
    /\ \A e \in Endpoint : reliable_length[e] <= Len(reliable_buf[e])
    /\ outgoing_sequence \in [Endpoint -> Nat]
    /\ reliable_sequence \in [Endpoint -> Bit]
    /\ last_reliable_sequence \in [Endpoint -> Nat]
    /\ incoming_sequence \in [Endpoint -> Nat]
    /\ incoming_acknowledged \in [Endpoint -> Nat]
    /\ incoming_reliable_acknowledged \in [Endpoint -> Bit]
    /\ incoming_reliable_sequence \in [Endpoint -> Bit]
    /\ network \in [Endpoint -> SUBSET Packet]
    /\ halted \in [Endpoint -> BOOLEAN]
    /\ written \in [Endpoint -> Seq(Data)]
    /\ delivered \in [Endpoint -> Seq(Data)]

\* The two bits of the protocol disagree: the reliable message e sent last
\* has not reached its peer.
InFlight(e) == incoming_reliable_sequence[Peer(e)] # reliable_sequence[e]

\* The part of e's stream that is in its transmit buffer and nowhere else.
Unreceived(e) == IF InFlight(e) THEN reliable_buf[e] ELSE <<>>

\* Exactly once, in order: while its buffer has not overflowed, the stream an
\* endpoint wrote is what its peer was handed, then the transmit buffer if the
\* peer does not have it yet, then the message buffer.  No loss, duplication
\* or reordering of packets, and no retransmission, loses, repeats or swaps a
\* unit of it (Netchan_Transmit 304-317, Netchan_Process 443-495).
StreamIntact ==
    \A e \in Endpoint : ~overflowed[e] =>
        written[e] = (delivered[e] \o Unreceived(e)) \o message[e]

\* The transmit buffer is reused only when the peer has what it holds: with
\* reliable_length 0 everything copied out of the message buffer has been
\* handed to the peer (Netchan_Process 483-487, Netchan_Transmit 310-317).
BufferFreeMeansReceived ==
    \A e \in Endpoint : reliable_length[e] = 0 => ~InFlight(e)

\* A packet whose reliable message the receiver would still take.
Acceptable(e) ==
    {p \in network[e] : p.reliable /\ p.sequence > incoming_sequence[Peer(e)]}

\* At no time are there two packets the peer could both take a reliable
\* message from: taking both would flip its bit twice and hand it the message
\* twice.  This is what "it will not be retransmitted again until a message
\* after the retransmit has been acknowledged" (net_chan.c 48-50) is for.
OneAcceptable ==
    \A e \in Endpoint : \A p, q \in Acceptable(e) : p = q

\* A step puts a reliable packet of e on the network only when no earlier
\* reliable packet of e can be accepted any more.
RetransmitOnlyLost ==
    [][\A e \in Endpoint :
          (\E p \in network'[e] \ network[e] : p.reliable)
             => Acceptable(e) = {}]_vars

\* The contract: each direction is a ReliableStream that stops at an overflow.
Stream == INSTANCE ReliableStream WITH stopped <- overflowed
StreamSpec == Stream!Spec

\* No packet is longer than the send buffer it is put together in: a datagram
\* is left out when the reliable message leaves no room for it, and only then
\* (Netchan_Transmit 319-345).
PacketsFit ==
    \A e \in Endpoint : \A p \in network[e] :
        HeaderSize(e) + Len(p.payload) + p.unreliable <= SendSize(e)

\* What an endpoint may be asked to send fits the send buffer; the server,
\* whose header has no qport, can always transmit.
ServerCanSend == ~CannotSend("server")

\* net_chan.c 57-63: the reliable message "can be added to at any time", and
\* overflowing its buffer is signalled.  So no write of at most MaxSize units
\* ends the program, neither when it is made nor when it is sent.
NeverHalts == \A e \in Endpoint : ~halted[e]

\* net_chan.c 43-46: "the local side detects that it has been dropped by
\* seeing a sequence acknowledge higher than the last reliable sequence, but
\* without the correct even/odd bit".  The last reliable sequence is that of
\* the newest packet that carried the reliable message.
LastReliable(e) ==
    {p \in network[e] : /\ p.reliable
                        /\ \A q \in network[e] :
                              q.reliable => q.sequence <= p.sequence}
DropDetected(e) ==
    /\ \E p \in LastReliable(e) : incoming_acknowledged[e] > p.sequence
    /\ incoming_reliable_acknowledged[e] # reliable_sequence[e]
DroppedIsResent ==
    [][\A e \in Endpoint :
          DropDetected(e) /\ network'[e] # network[e]
             => \E p \in network'[e] \ network[e] : p.reliable]_vars
-----------------------------------------------------------------------------
(* The inductive invariant.  Its parts are stated for the stream of e; the *)
(* packets of e carry the stream, those of its peer the acknowledgements.  *)

\* Packets of e its peer has not seen and not discarded.
Live(e) == {p \in network[e] : p.sequence > incoming_sequence[Peer(e)]}

\* Sequence numbers are used once, and acknowledgements name received packets.
SequenceInv(e) ==
    /\ \A p \in network[e] : p.sequence < outgoing_sequence[e]
    /\ \A p, q \in network[e] : p.sequence = q.sequence => p = q
    /\ \A q \in network[Peer(e)] : q.ack <= incoming_sequence[Peer(e)]
    /\ incoming_acknowledged[e] <= incoming_sequence[Peer(e)]

\* Only the newest transmission of the message in the buffer can be accepted,
\* and only while the peer does not have it.
PayloadInv(e) ==
    /\ \A p \in network[e] : ~p.reliable => p.payload = <<>>
    /\ \A p \in Acceptable(e) :
          /\ InFlight(e)
          /\ p.sequence + 1 = last_reliable_sequence[e]
          /\ p.payload = reliable_buf[e]

\* No acknowledgement the sender has seen or may still see is of the message
\* in flight; once it is received, every one that answers a packet after the
\* last transmission is.
AckInv(e) ==
    /\ InFlight(e) =>
          /\ incoming_reliable_acknowledged[e] # reliable_sequence[e]
          /\ \A q \in Live(Peer(e)) : q.reliable_ack # reliable_sequence[e]
    /\ ~InFlight(e) =>
          /\ incoming_acknowledged[e] > last_reliable_sequence[e]
                => incoming_reliable_acknowledged[e] = reliable_sequence[e]
          /\ \A q \in Live(Peer(e)) :
                q.ack > last_reliable_sequence[e]
                   => q.reliable_ack = reliable_sequence[e]

\* Acknowledgement bits do not go back.
MonotoneInv(e) ==
    /\ incoming_reliable_acknowledged[e] = reliable_sequence[e] =>
          \A q \in Live(Peer(e)) : q.reliable_ack = reliable_sequence[e]
    /\ \A q, r \in Live(Peer(e)) :
          /\ q.sequence < r.sequence
          /\ q.reliable_ack = reliable_sequence[e]
          => r.reliable_ack = reliable_sequence[e]

\* The buffer is free only when its message was acknowledged.
BufferInv(e) ==
    /\ reliable_length[e] \in {0, Len(reliable_buf[e])}
    /\ reliable_length[e] = 0 =>
          incoming_reliable_acknowledged[e] = reliable_sequence[e]
    /\ Len(message[e]) <= MaxSize[e]
    /\ Len(reliable_buf[e]) <= MaxSize[e]

\* What the peer was handed, with what is in flight, is a prefix of the stream.
Consumed(e) == delivered[e] \o Unreceived(e)
StreamInv(e) ==
    /\ \E n \in 0 .. Len(written[e]) : Consumed(e) = SubSeq(written[e], 1, n)
    /\ ~overflowed[e] => written[e] = Consumed(e) \o message[e]

IInv ==
    /\ TypeOK
    /\ \A e \in Endpoint :
          /\ SequenceInv(e)
          /\ PayloadInv(e)
          /\ AckInv(e)
          /\ MonotoneInv(e)
          /\ BufferInv(e)
          /\ StreamInv(e)
=============================================================================
