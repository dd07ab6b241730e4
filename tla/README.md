# ezquake-tf: TLA+ models, model checking and proofs

ezquake-tf is a QuakeWorld client with the server (mvdsv) built in. This
directory holds a formal model of the part of it that is hardest to get right
and to test: how the client and the server keep a conversation over UDP, from the
first challenge to the frames of the game. The models are translated from `src/src/*.c`; `PROJECT.json` maps each
definition to its lines.

Contents: [inventory](#inventory) · [plan](#plan) · [modules](#modules) ·
[runs](#runs) · [bounds](#bounds) · [fairness](#fairness) ·
[proofs](#proofs) · [what the models found](#what-the-models-found) ·
[not modelled](#not-modelled)

## Inventory

The program is one thread for the game (client frame, then, when it hosts a
game, `SV_Frame`), with helper threads for the server browser, the update
check, sound mixing and movie capture. Client and server talk by UDP packets
even when they are one process.

| Component | State | Operations | Talks to | Hard behaviour | What makes it correct |
|---|---|---|---|---|---|
| Network channel (`net_chan.c`) | `netchan_t` at each end: sequence numbers, one-bit reliable sequences, the unacknowledged message, the message being written | `Netchan_Setup`, `MSG_Write*`, `Netchan_Transmit`, `Netchan_Process` | its owners: `CL_SendCmd`, `SV_SendClientMessages`, `SV_ExecuteClientMessage` | loss, duplication, reordering; overflow; owners changing `outgoing_sequence` | reliable data exactly once and in order; retransmission only of what cannot arrive any more; eventual delivery |
| Server reliable stream (`sv_nchan.c`, `sv_send.c`) | `netchan.message`, up to 128 back buffers, `backbuf` | `ClientReliableWrite_*`, `SV_SendClientMessages`, clears by signon commands, `SV_DropClient` | channel; every writer in the server and the game code | buffers at their limit; rotation; clears half done; overflow while dropping | nothing lost or overtaken in the game; buffers within bounds; back buffers drain |
| Handshake and slots (`sv_main.c`, `cl_main.c`) | challenge table, `client_t.state`, client state, resend timer | `getchallenge`, `connect`, reconnect, disconnect, timeouts | out-of-band packets, channel | retries with late answers, old packets of a reconnected client, zombies | at most one slot for an address and qport; a client that retries gets in; zombies end |
| Signon and level change (`sv_user.c`, `sv_init.c`, `cl_parse.c`) | `spawncount`, `cs_*`, `ca_*` | `new`, `soundlist`, `modellist`, `prespawn`, `spawn`, `begin`; `SV_SpawnServer` | reliable stream | level change between any two commands | a client in the game has the lists of the current level |
| Download (`sv_user.c`, `cl_parse.c`) | file, blocks received, chunk number | `download`, `nextdl`, `svc_download` | reliable stream, out-of-band chunks | late chunks, cancelled downloads | the file is complete when it is renamed |
| Delayed packets (`sv_main.c`) | queue per client, common free list | `SV_ReadPackets` | channel | delay changed while packets wait | order kept; no node lost |
| Delta entities (`sv_ents.c`, `cl_ents.c`) | 64 frames each side, `delta_sequence` | write, parse, request | channel (unreliable) | loss, numbers modulo 64 | a delta is applied to the frame it was made from |
| Moves (`cl_input.c`, `sv_user.c`) | three commands per packet | `CL_SendCmd`, `SV_RunCmd` | channel (unreliable) | loss | each command runs once |
| Demo recording and playback of the client (`cl_demo.c`) | `demorecording`, `in_qwd` marks of the frames | `CL_Record`, `CL_WriteDemoCmd`, `CL_WriteDemoEntities`, stop | delta entities, moves | deltas from frames before the recording | the demo shows what the game showed |
| Demo recording and QTV of the server (`sv_demo*.c`) | list of destinations with caches | `DemoWriteDest`, `DestFlush`, accept | sockets, files | partial writes, timeouts, removal during a walk | a stream is a prefix of what was recorded |
| Command buffers (`cmd.c`) | text buffers, aliases, `wait` | add, insert, execute | everything | insertion while executing | order of execution |
| Self-update (`update_client.c`, `updater/`) | `update_context`, files and backups | check, download, install, roll back | worker thread, second process | cancel and shutdown races, crash during install | all files of one version |
| Server browser (`EX_browser*.c`) | server list, semaphores, flags | refresh, ping, ping tree | detached threads | failure to create a thread, exit during a refresh | no deadlock |
| Virtual machines, physics, rendering, sound, HUD, menus, files | | | | numerics, parsing, I/O | outside the models |

How they interact. The client sends a packet every frame (a move, its reliable
commands). The server reads all packets, runs the commands in them, runs the
game, and at the end of the frame answers every client that sent something.
Commands and game code write to clients through `ClientReliableWrite_*`; the
channel takes a whole `netchan.message` when its previous one is acknowledged.

## Plan

Order of work: from the channel outwards, since everything else assumes it.

1. `ReliableStream` (what a channel promises), `NetChan` (what it does),
   `NetChanFair` (with its owners and fairness). *Done, with proofs.*
2. `ClientReliable` (the stream the server feeds into a channel). *Done, with
   proofs.*
3. `Connect`: two clients, two slots, challenges, retries, late packets,
   reconnects, zombies and timeouts. *Done, with proofs.*
4. `Signon`: the commands with `spawncount`, over reliable streams in both
   directions, with level changes at any time, and the block-by-block download
   a signon needs. *Done, with proofs.*
5. `PacketDelay`, `DelayedPackets`: the queues of `sv_minping`. *Done; the
   refinement and what holds of the lists are proved.*
6. `FrameExchange`: moves, delta-compressed entities and prediction over the
   two rings of frames, and `QwdRecording`, the client's demo of it. *Done, with
   proofs.*
7. The chunked download over an unordered network; abstractly, a set of
   received blocks.
8. `MVDDest`: the server's demo destinations and their streams.
9. `Update`: the worker thread and the file replacement with rollback;
   `PingTree`: the browser's semaphores; `Cbuf`.
10. Composition: `ClientReliable` over `NetChan` in place of its one-bit summary
    of the channel; `Signon` over both; `Connect` resetting all.

Runs stay below five minutes each: two endpoints, one or two clients, two or
three units of data.

## Modules

**`ReliableStream`** is the abstract specification: per direction, a stream that
is appended to, and of which the other end is handed longer and longer
prefixes, until its writer's buffer overflows.

**`NetChan`** is `net_chan.c` at both ends of one connection. The variables are
the fields of `netchan_t`, indexed by endpoint, plus the network, `halted` (the
program ended in `Sys_Error`) and two history variables (`written`,
`delivered`). The network is the set of all packets ever sent; processing does
not remove them, so each may be processed never, late, or often.

| Action | Code |
|---|---|
| `WriteMessage`, `OverflowMessage`, `HaltOnWrite` | `SZ_Write` on `netchan.message`: it fits, it does not fit, it is longer than the buffer |
| `Transmit` | `Netchan_Transmit`, sending a packet: decides to resend, copies the message out, builds the packet, leaves the datagram out when there is no room |
| `TransmitOverflowed`, `HaltOnTransmit` | its early return on overflow, and the overflow of the send buffer |
| `DropMove` | `CL_SendCmd` when `cl_c2spps` drops a move and counts its sequence number |
| `Process` | `Netchan_Process` of any packet of the peer, and on the server the choice of the reply's sequence number in `SV_ExecuteClientMessage` |

A stale packet changes no state and so is a stuttering step.

**`NetChanFair`** adds what `NetChan` leaves open: when the owners transmit. The
client does every frame; the server answers a packet at the end of its frame
unless it is choked, and sends one packet unasked (`SV_SendMessagesToAll`)
before a level change. The network may lose a bounded number of packets.
Packets a receiver would discard are removed from the network, which loses
no behaviour, as discarding changes nothing.

**`ClientReliable`** is the server's side of the stream to one client. `client_t`
is a record; every function of the code that changes it is an operator from a
record to a record, and a frame (`SV_SendClientMessages`) is their composition:
broadcast, move a back buffer, drop on overflow, statistics, transmit. `backbuf`
is kept apart from `backbuf_size`, `backbuf_data` and `num_backbuf`, because in
the code it is a copy of them that goes out of step. Its `data` is the number of
the buffer it points into; bytes beyond what was written are `Stale`. Of the
channel it keeps one bit (`unacked`), the part of `NetChan` it depends on.

**`Connect`** is how a client gets one of the server's slots and loses it. A
client is its process (`cls`), its packets under way (`path`, in order; `back`,
the answers) and those that are late (`stray`). The channel is reduced to its
sequence numbers and the command `new`. `hasty` records that a client asked anew
while packets of the connection it had given up were under way.

| Action | Code |
|---|---|
| `CheckForResend`, `Impatient` | `CL_CheckForResend`, and the user who asks before an answer came |
| `ServerReceive`, `ServerReceiveLate` | `SV_ReadPackets`: `SVC_GetChallenge`, `SVC_DirectConnect` with `CheckReConnect`, or the slot a packet belongs to, its port corrected, `Netchan_Process` and the command in it |
| `ClientReceive` | `CL_ConnectionlessPacket` (challenge, connection) and packets of the connection, `svc_disconnect` too |
| `ClientSend`, `Quit` | `CL_SendCmd`; `CL_Disconnect` |
| `CheckTimeouts`, `ClientTimeout` | `SV_CheckTimeouts`, `CL_ReadPackets` |
| `Lose`, `Delay`, `Translate`, `Restart`, `ServerRestart`, `OtherChallenge` | the network, a router that changes the port, crashes, and other addresses that fill the table of challenges |

Three `drop` packets of a disconnect are one here. A router gives a port nobody
has, and a new process a qport nobody has. Passwords, spectators, login,
`sv_reconnectlimit` and the local connection are left out.

**`Signon`** is how a connected client enters a level. The server's commands
(`New` ... `Begin`, `Download`, `NextDownload`, `StopDownload`) and the client's
parsers are operators from a record to a record, as in `ClientReliable`.

| Action | Code |
|---|---|
| `ExecuteUserCommand`, `Transmit`, `UpdateToReliableMessages` | the server: `SV_ExecuteUserCommand`, `Netchan_Transmit`, the broadcast at the end of a frame |
| `Map` | a level change: `SV_Map` with `SV_SpawnServer` |
| `ParseServerMessage`, `ExecuteText`, `SendCmd`, `MakeActive` | the client: an item of a message, `Cbuf_ExecuteEx` of what the server stuffed, `CL_SendCmd`, the first entities |
| `ConnectAnew` | the connection a client gets that has left one: `S2C_CONNECTION` and `SVC_DirectConnect`; `Connect` has the packets of it |
| `UserDownload`, `UserStop` | the user |

*How clients are told of a new level depends on the build* (`sv_ccmds.c:460-466`).
A server without a client (`SERVERONLY`, which `CMakeLists.txt` does not define)
broadcasts `changing` and `reconnect`, and sends them at once; a client then asks
for the new level with `new`, on its connection. The server of this build
broadcasts `reconnect` alone, at the end of the frame; a client that does not
otherwise know of the change then gives up its connection (`Host_EndGame`) and
makes another (`CL_BeginServerConnect`). The constant `SERVERONLY` chooses: the
run has the build's, the theorems hold for both. While a file is open neither
kind is listened to, and the server tells the client when the file is complete
(`CompleteDownload`, with `changing` in both builds).

Both directions are reliable streams, which is what `NetChan` is shown to be:
`flight` is the message on its way to the client, the first `sent` of the
client's commands those on theirs. A file is a sequence of blocks, under a
temporary or its real name; a map that does not have all of its blocks fails the
check. `overlap`, `crossed` and `stopped` record that a download met another one,
an old answer, or a `stopdl`; `Upset` is any of them. A message lists one model;
sounds, skins and vwep models are there; an error gives up the rest of the
message; the buffers that `prespawn` and `spawn` are split into are one. The
model is wider than the code in three places: the commands of one packet are
executed one per step, the two directions do not wait for each other's packets,
and `cl` is wiped when the client connects anew and not with the `serverdata` that
follows, as nothing reads it in between. A reconnect through a proxy and the local client
of a server (`CL_BeginLocalConnection`) are left out.

**`PacketDelay`** is what `sv_minping` promises: a line of packets per client, of
which the first is executed. **`DelayedPackets`** is `SV_ReadPackets` over the
lists of `packet_t`: `packet[p].next`, `svs.free_packets`, and each client's
`packets` and `last_packet`. The unit of time is a frame, in which packets age
unless the game is paused (`SV_Frame`: `realtime` stands still), any number of
packets of a client may arrive in a frame, a delay may jump to any value, and any
slot may be freed between frames. `ExecuteDelayed` and `NextSlot`
are the loop over the queues, `ExecuteNew`, `DelayNew`, `RefuseNew` the loop over
the socket, `Connect` what `SVC_DirectConnect` does to the lists.
`DelayedPackets` is shown to implement `PacketDelay` (`InOrder`), with the line
of a client being what its list holds.

**`FrameExchange`** is the unreliable half of a connection. `cl` is the client
(`validsequence`, `delta_sequence`, `frames`), `client` its slot on the server.

| Action | Code |
|---|---|
| `ClientFrame` | `CL_SendCmd`: the move, the two before it, the request for a delta; then `CL_PredictMove` |
| `ClientReads` | `CL_ParseServerMessage`: `CL_ParsePlayerinfo` files the player's state, `CL_ParsePacketEntities` the entities, or flushes the delta |
| `ClientHears` | the serverdata of a new level: `CL_ClearState` |
| `ServerReads` | `SV_ExecuteClientMessage`: the reply's sequence number, the delta requested, the moves run, and the `begin` a packet may carry |
| `ServerAnswers`, `ServerChokes` | `SV_SendClientMessages`: entities written to the ring, then the delta from it |
| `LevelChange` | `SV_Map_f`, with the packet that a server without a client sends unasked |

Data are numbers: a command is its sequence number, a list of entities the number
of the server's frame it is the list of, a player's state the number of the last
command in it. A delta put on another list than it was made from, or a command
out of turn, gives `Torn`. So a property about lists of entities is one about
numbers, and says which frame is shown. Movement itself, `sv.paused`, nails and
the datagram are left out. **`QwdRecording`** adds a client that records: `player`
is a client that has played the demo back so far, with the same operators.

**`MC*`** modules give the constants values. **`*Proof`** modules hold theorems.

## Runs

| Run | Question | Distinct states |
|---|---|---|
| `netchan_server` | One direction with up to six packets: is the stream intact, is the buffer freed only when received, is retransmission disciplined, does it implement `ReliableStream`, is `IInv` an invariant? | 748,000 |
| `netchan_both` | Both directions with overflowing and too long writes: do packets fit, can the server always send, is each direction a `ReliableStream`? | 602,000 |
| `netchan_fair` | With a loss in each direction, a choked answer and an unasked packet: is everything delivered, do sequence numbers that slipped catch up? | 467,000 |
| `client_reliable` | Through writes, signon, level changes, drops and chokes: do buffers stay within bounds, is nothing lost in the game, do back buffers drain? | 431,000 |
| `connect` | Two clients behind one address, two slots, two faults: one slot per client, none stolen by another, is each in the game in the end? | 200,000 |
| `signon` | Three levels, two files of three blocks, any of them missing, one command of the user: does a client begin only on the current level, with its lists and map; are files whole; does it enter in the end, on its connection or on another one? | 695,000 |
| `delayed_packets` | Two clients, bursts over a block too small for them, delays up and down, pauses, reconnects: do lists stay apart and complete, is no `packet_t` held too long, are packets executed in order and in the end? | 704,000 |
| `frame_exchange` | Six packets each way, lost, late or choked, over rings of four, and a level change, recorded and played back: do deltas meet their base, do commands run once, does prediction replay the right ones? | 2,181,000 |
| `client_halts`, `drop_detection`, `modellist_clears`, `zombie_begins` | Four statements of comments and messages in the code that the code does not keep; see [below](#what-the-models-found) | until the violation |

Every property of a passing run has a mutant in `PROJECT.json`: a definition
changed the way a slip in the code would change it, with which TLC finds the
property violated. The mutated forms stand before the definitions they replace
and are marked "Mutant".

Deadlock is not checked for the `NetChan` runs: a connection ends when its
sequence numbers reach `MaxSequence`. Nor is it for `Connect`, `Signon` and
`FrameExchange`: clients that are settled, or at the bound, do nothing more. It
is checked for `ClientReliable` and `DelayedPackets`.

Some properties have conditions, and they are part of what was found (see
[below](#what-the-models-found)): `OneSlot` holds until a copy of a
packet comes late, `InStep` until then or until a client was `hasty`, `ListsWhole`,
`FilesWhole` and `StaysConnected` unless the state is `Upset`, `Enters` unless a
client that is `Upset` ends without a connection or waits after what its user did,
or the program ended (`halted`), `PlayedBack` for frames whose deltas were not
flushed. `Exhausted` does not say that the block of delayed packets is large
enough, because it is not (see 7 below).

## Bounds

* `MaxSequence` (packets per endpoint): 6 and 3 in one direction. A loss that
  is detected takes four packets of the sender (message, two to provoke
  acknowledgements, retransmission), and a retransmission that crosses a late
  acknowledgement two more. `netchan_both` has 2 and 3: it is about sizes and
  about data in both directions, not about retransmission.
* `MaxWritten`: two units, so that one reliable message follows another and the
  bit comes back to a value it had.
* `MaxSize`: two or three units; blocks are up to one unit longer. Real sizes
  are about 1450 bytes; only comparisons of sums of lengths depend on them.
* `DatagramSizes`: {1} where sizes matter, so that a datagram sometimes fits.
* `Window`, `MaxLost`, `MaxChoked`, `MaxToAll`, `LastWrite` in `NetChanFair`:
  two packets ahead, one loss each way, one choke, one unasked packet, and no
  write so late that the sequence numbers run out before it can be delivered.
* `MaxBackBuffers` 2 (128 in the code), `MaxSize` 4, `MaxWrites` 5: enough to
  use both back buffers, find none free, and move and reopen them. Blocks are
  one and three units long and estimates are exact or one too high, so that the
  strict comparisons are met at their limits.
* `Connect`: two clients of one base address with ports and qports of their own,
  two slots, a table of one challenge (so that it is full), two packets on each
  path, four packets of a connection, two faults. Every pair of faults is
  covered, such as a late `connect` and a lost answer. One client with four
  faults (602,000 states) has been checked as well.
* `Signon`: three levels, so that a level changes while the client is on its way
  to the second; a third level with six models, so that its list is still on its
  way when a file of the second arrives; three blocks, so that a file has a first, a middle and a last
  one; every subset of the files present; one command of the user. With
  `SERVERONLY`, the same bounds give 906,000 states, and all properties of the run
  hold there too.
* `DelayedPackets`: three `packet_t` for two clients that may send four packets
  each, all at once: a queue of several, one that takes the whole block, and the
  block empty while a packet arrives (`MCAssumption`). The longest delay is two
  frames, so that a delay may fall, rise and become zero while packets wait.
  `MaxInputs` 10 counts packets, connects and freed slots.
* `FrameExchange`: `UPDATE_BACKUP` 4 (64 in the code) with a `BYTE` of 4 (256), so
  that numbers wrap in the ring and in the byte; `DropLimit` 4 (20); six packets,
  more than once around the ring; two levels. With both values of `cl_nodelta`
  and both kinds of server, seven packets (5,350,000 states), and recording with
  six (7,650,000 states), have been checked as well. Proofs cover any values of
  all of these.
* `LengthAssumption`: no single block is as long as a message. The code relies
  on it as well (see the hazards for what happens otherwise).

## Fairness

* `NetChanFair`: the client's frame, the server's answer and the arrival of
  packets are weakly fair. Frames are run by the main loop for ever. A packet
  that can be accepted arrives, except for the losses, which are bounded:
  without a bound nothing need ever arrive. No write, choke or unasked packet is
  fair.
* `ClientReliable`: packets of the client that acknowledge (`Reads(TRUE)`) and
  the dropping frame are weakly fair. A frame that sends is strongly fair: it is
  disabled whenever the client has sent nothing, and `Netchan_CanPacket` lets a
  packet pass again as time goes on (the estimate in `cleartime` does not grow
  while nothing is sent).

* `Connect`: all that the two programs do every frame, the resend of a user who
  keeps asking, and the timeouts are weakly fair: both programs run for ever,
  and a packet on the path that is not lost arrives. Faults are not fair, and
  bounded in number. Late packets need not come.
* `Signon`: the steps of the two programs are weakly fair, as both run frame
  after frame; so is `ConnectAnew`, as a client that connects repeats its requests
  until it has a connection, which is `Settles` of `Connect`. Level changes and the
  user are not fair.
* `DelayedPackets`: `SV_ReadPackets` is weakly fair, arrivals are not.
* `FrameExchange` has no liveness property: on an unreliable path nothing has to
  arrive.

## Proofs

All proofs are checked by TLAPS, for every `Data`, `Blocks`, `MaxSize` and so
on. Assumptions are the named `ASSUME`s of the modules:
constants are numbers and sequences, the qport is not longer than a client's
buffer, no block fills a buffer, a ring has at least four frames, there is at least
one level, and the byte a sequence number is sent in has a multiple of the ring's
values. TLC evaluates them in the runs.

**`NetChanProof`**: `Spec => []IInv`. Exactly-once delivery is not inductive: that
a retransmitted message is not taken twice depends on which packets are still
on the network and on what acknowledgements are. `IInv` says, for each endpoint
`e` with its packets, its peer and the peer's packets:

* `SequenceInv`: sequence numbers are used once; acknowledgements are of packets
  that were received.
* `PayloadInv`: a reliable packet of `e` that its peer could still take is the
  newest transmission, holds what is in the transmit buffer, and exists only
  while the peer does not have it. So there is at most one.
* `AckInv`: while the message is on its way, no acknowledgement seen or still to
  be seen has its bit; once it arrived, every acknowledgement of a later packet
  has. So a resend is decided only when the message was lost, and the buffer is
  freed only when it was received.
* `MonotoneInv`: acknowledgement bits do not go back, in the order of the
  packets that carry them. It is needed because the bit is read from the newest
  packet, whatever was skipped.
* `BufferInv`, `StreamInv`: the transmit buffer is whole or free; delivered,
  unreceived and unsent data make the stream.

There is a lemma per action, and for `Transmit` and `Process` one for the
endpoint's own stream and one for its peer's, as each packet carries data of one
stream and acknowledgements of the other. From `IInv` follow `ExactlyOnce`,
`FreeMeansReceived` and `AtMostOneAcceptable`.

From it and the types follow as well `RetransmitDiscipline` (an action property),
`ServerNeverStuck`, `PacketsAlwaysFit` (a packet is a header, a reliable message
that fits beside it at the server, and a datagram if there is room), and
`ImplementsStream`: `Spec => StreamSpec`, where a write is `Write` of the stream,
an overflow `Stop`, a packet with new data `Deliver`, and all else stutters.

And of `NetChanFair`, which it extends: `AnswersMatchUp` and `SlipsAreBounded`, for
any number of losses, chokes and unasked packets. The invariant adds `AnswerDue`:
while an answer is due, the server's next number is that of the client's last
packet, as `SV_ExecuteClientMessage` has set it so. So an answer matches, and only
a packet of `SV_SendMessagesToAll` adds to those that do not.

**`ClientReliableProof`**: `Spec => []ClientOK`. `ClientGood` is inductive by
itself; there is a lemma per operator, and a frame is their composition. It
says that a back buffer reopened without `allowoverflow` is never written beyond
its size, that none is ever full (with a full one, the strict comparison in
`SV_SendClientMessages` would hold back the stream for ever), and that no write
ends the program, including after the half clear of `Cmd_Modellist_f`.
And `NothingIsLost`, an action property for any number and size of back buffers:
a step only appends to what was sent, the message and the back buffers, one
behind the other. It takes `OpenIs` besides: `backbuf` is the last back buffer or
a later one, and where it is the last, its size is the one that was recorded.
That several buffers are one stream (`Joined`) is a recursive function; the lemmas
about it rest on a fact about sets of numbers, `AllNumbers`, which follows from
the least element of a set.

**`ConnectProof`**: `TypeCorrect`, `SlotsNotStolen` (an action property),
`OneSlotEach` and `StayInStep`, for any number of clients, slots, ports, packets
under way and faults. Each of the last three takes an invariant of its own:

* `Disjoint`: no port or qport of a client or of its packets, late ones too, is
  one of another client behind the same address, and no slot has the port of one
  and the qport of the other. It gives `SlotsNotStolen`.
* `Ordered`: what a client has under way comes in the order it was sent in, with
  the ports and qports it has had one after the other, and the slots of the
  client stand at the front of this line. So all slots a packet can be taken for
  are one slot. A late packet breaks the line.
* `Attempts`: from one attempt to connect, requests come first, and packets of
  the connection after them; once the server has executed the `new`, no request
  of this attempt is left that would make the slot anew. It takes both of the
  others, and an attempt that was not `hasty`.

**`SignonProof`**: `BegunOnLevel` and `BegunHasLevel`, for any files, lists of
models, levels and user, `TypeCorrect`, and the action property `FilesStay`: a
file that has its real name is not written again. None of them is inductive: a
`begin` that the server takes only says that the client is on its level if all
that went before is known. The invariant says of the items on their way (in
`flight`, then in the message) and of the client's commands that levels only
rise, that behind a command for the current level none starts the signon anew,
that lists grow in order, and what the client has by the time each command or
answer is read; as messages are cleared, it never says that something is on its
way. There is a lemma per operator of the server and of the client.

A client without a connection, or with a new one, fits in: it has no level or an
old one (`StateOK`), what is left of its old messages is never read, and a new
connection starts with `new` and empty queues (`FreshGood`).

**`SignonFilesProof`** goes on from there: `FilesAreWhole`, `LeavesToConnectAgain`
and `ListsAreWhole`, for any files, numbers of blocks, lists, levels and both
kinds of server. They hold
while the state is not `Upset`, and their invariant (`StaysCalm`) says what that
keeps in order, all of which an upset signon breaks:

* The signon on a level is a row of stages: sounds, each model, spawn, skins,
  begin. What is on its way has the stage of what is before it or the one after
  (`Turn`), although a level change answered twice may have two signons under way.
  So a list is not ended when another chain has begun it again, and once the
  client is in the game only the last stages are left (`Late`).
* Either no file is asked for (`Idle`), or one is (`Fetches`): the request, the
  block or the next request for a block is the only one in all queues (`AskOK`,
  `BlockOK`), the client has as many blocks as the slot has sent, and nothing of
  the signon is behind it (`Quiet`). This is why a file is closed with its last
  block and no other.
* `Purpose`: the file is the first of the list to be missing, or one the user asked
  for in the game; so the signon goes on from the list when it has arrived.
* `DiskWhole`, which gives `FilesWhole`; with it a checksum told to the server is
  the map's, and neither end closes the connection (`NoDrop`) but the client at a
  `reconnect`, which finds no file open. Then it is about to connect (`Left`), and
  all of this holds again when it has (`FreshCalm`). `LeavesToConnectAgain` says so:
  a client without a connection is about to make one.

That a state is `Upset` is never forgotten (`Marks`), so each operator of the server
and of the client has a lemma that it keeps `Calm` or marks the state. `Upset` is
what the model records at the places where the code loses count, so the theorems
say that there are no others.

**`DelayedPacketsProof`**: `PointersApart`, `Spec => [](TypeOK /\ OnePointer)`, for
any number of clients, packets and delays, and `TypeCorrect` from it. It is
inductive as it stands: each step moves a pointer from one place to another.
It does not say how long a list is, so the lists are laid out besides: there are
sequences, one for each slot and one for the free list, whose neighbours are the
links (`Laid`), and every action takes the head of one and appends it to another
(`Moved`), or lets one go with its slot (`LetGo`). `Kept` is the invariant of the
sequences, and `ListsKept` says that there are some. Of its parts, `Counted` and
`Ends` give `Conserved` (`NoneIsLost`). `Aged` says that of two packets of a client
the one before is not younger, and `Drained` that the first packet of a slot the
server is past is not due. So none behind it is due either (`NoneIsDue`), whatever
the delay has become since they arrived, and when the free list is empty each
packet of the block is one that has to wait, or was left with a slot
(`NoneIsHeldTooLong`). Nothing is assumed of the size of the block. And `Drained`
gives that a client without a delay has an empty list when its packet is
executed at once, which is what `ExecutedInOrder` needs: `Spec => InOrder`, with
an execution or an arrival as a step of `PacketDelay` and the rest as stutters.

**`FrameExchangeProof`**: `DeltasMeetTheirBase`, `AnswersAsAsked` and
`PredictionGoesOn`, from an invariant of five parts. `Requests`: a request for a
delta that is under way, in the client's packet, in its slot or answered, is
still in the client's ring together with the frame it asks for, and in the
server's ring, unless it is too old to be used. `ServerRing`: a slot of the
server's ring holds a frame that belongs there, and it only grows; with
`Requests` this gives that the base the server takes is the frame asked for, as
two frames in one slot are `UPDATE_BACKUP` apart. `ClientValid`: the frame the
client shows is right, and the commands since are all in its ring. `Levels`:
entities are only sent to a client that has begun the level, so no frame of an
old level is a base. `Sequences` relates the numbers of the two ends. The facts
about `%` the rings rest on (`SlotsApart`, `SlotOfByte`) are lemmas from the
division theorem. The invariant was model-checked before it was proved.

Two more theorems are of the same module. `TypeCorrect`, `Spec => []TypeOK`: the
bounds on sequence numbers and levels (`Bounds`) need the invariant, as a number
taken from a packet is bounded by what its sender has sent. `RunsEachOnce`,
`Spec => []RunsEach`: every command is run once and in order, and a gap in the
packets is filled up to `DropLimit`. Its invariant, `Commands`, says:

* `RingBelow`, `Recovers`: what the client's ring holds came before the next move,
  and a packet under way brings the commands since any other one of its level, and
  since the last one the server has read in the game, as far as its two older
  commands go.
* `InGame`, `Executed`: what was run is what is due from the packets received. What
  is due is a set of numbers (`DueIn`), and a place in the list of commands run is
  a number of elements of it. A new packet adds an interval to the set and leaves
  what was due before (`DueStays`), so the list grows at its end (`ExecutedNext`).
  The commands run are thus counted, and no induction over the list is needed.

**`QwdRecordingProof`**: `DemoShowsTheGame`, `RecordSpec => []PlayedBack`. Recording
does not change the game (`Recorded`), so all of `FrameExchangeProof` holds of it.
The invariant relates the ring of the client, the one of the player and the
marks `in_qwd`: a marked frame came after the recording began, the player has the
same entities in its slot and asks for the same base. A delta is recorded as it
came only if its base is marked, and so the player has it.

Only model-checked: the liveness properties `AllDelivered`, `Drained` (of
`ClientReliable`), `Settles`, `Enters` and `Executes`, which rest on fairness, and
that `ClientReliable` and `DelayedPackets` do not deadlock. Both are about `ENABLED`,
which is out of the prover's reach. Every other property of a passing run is proved.

## What the models found

1. `client_halts`. The send buffer of `Netchan_Transmit` has room for the message
   and the header without the qport. A client's reliable message within two
   bytes of its maximum ends the program, where the file comment promises an
   overflow that is reported.
2. `drop_detection`. `last_reliable_sequence` is one more than the sequence number
   of the reliable packet, so a loss is detected one acknowledgement later than
   the file comment says. It costs a round trip and nothing else: the proofs are
   of the code as it is.
3. `modellist_clears`. `Cmd_Modellist_f` sets `num_backbuf` to 1 where it says, and
   its siblings do, 0. The next write to the client then records the size of
   another buffer, and old bytes are sent.
4. `zombie_begins`. A `begin` that arrives after its client was dropped brings the
   zombie back into the game.

Found while modelling, and stated as conditions of properties:

5. `Connect`. After one late copy of a `connect` packet a client can wait for
   ever: the server makes its slot anew although its `new` was executed, the
   client ignores the second answer (`cl_main.c:1484`), and packets keep flowing,
   so that nobody times out (`Wedged`). The same happens without a late packet to a
   user who gives up a connection and asks again before its packets are through,
   which the proof of `StayInStep` showed; it takes four faults, more than the
   run has (`hasty`). With more late packets, two slots of one
   address and qport arise, as `CheckReConnect` frees only the first slot that
   has the qport or the port. A late packet also points answers to an old port:
   the port is corrected before the packet is found to be stale.
6. `Signon`. Most of what follows takes packets that are lost or late as well,
   which the model has as the independent progress of the two directions; TLC
   finds each state for both kinds of server.
   * A client may send `new` twice: as it connects while the level changes, and a
     `reconnect` finds it connected, or as the `changing` at the end of a download
     and the `reconnect` of the broadcast both reach it. The two signons then run
     one behind the other, a missing map is requested twice, and is stored with a
     block twice under its real name: the map check drops the client, and the file
     stays (`overlap`).
   * `serverdata` that is read between a request and its first block makes an empty
     list while the file is on its way (`crossed`): the "don't change when
     downloading" of `CL_Changing_f` and `CL_Reconnect_f` looks at `cls.download`,
     which only the first block sets. A file that then arrives
     in the middle of the new level's list makes `Model_NextDownload` send
     `prespawn` early, and the client begins with a part of the list only, so that
     `ListsWhole` has the condition and `HasLevel` has not.
   * A download of the user during that of the signon writes one file into another;
     `stopdl` is answered with an empty block of 100 per cent, and the runt gets its
     real name (`sv_user.c:1720`), although "only rename to the real name when done"
     (`cl_parse.c:512`). TLC finds `NoRunt` violated, and `FilesWhole` not.
   * The client can end with `Sys_Error` (`halted`). Text that is stuffed is executed
     before the next `serverdata` of the same message is read (`cl_parse.c:3686`). If it
     is a `reconnect`, and the client is on the server, `CL_Disconnect` clears
     `cls.netchan`; then `CL_ParseServerData` goes on with the message and
     writes `soundlist` to a buffer of size zero (`q_shared.c:855`). The message
     `serverdata`, `reconnect`, `serverdata` arises when the level changes twice
     while a client connects, and its first `new` and the first `reconnect` are both
     sent again: the second `new` is executed before what answers the first is sent.
   * Since the server of this build sends `reconnect` alone, its remote clients go
     through the whole handshake at each level change, though "changing" and `new`
     would keep the connection, unless a file is open.
7. `DelayedPackets`. The block is reckoned for 32 clients, 77 frames a second and a
   delay of 0.3 s (`server.h:60`). The delay is bounded by 1 s (`sv_user.c:4361`),
   clients send as often as they like, in bursts too, and packets that arrive while
   the game is paused have not aged when it goes on. So the block may be empty
   with every packet in its place. And
   `SV_FreeDelayedPackets` (`sv_main.c:309`) is never called: a slot that is
   cleared by a connect loses the packets on its list for good.
   When none is free, the packet of a delayed client is dropped, and as the loop
   ends there, the rest of the socket waits for the next frame, whosever it is.
   What holds, and is proved, is that no packet is held longer than its client's
   delay. Packets never overtake each other when a
   delay falls to zero, because the queue is emptied first.
8. `FrameExchange`. Most of the single checks on a delta are covered by another
   one: without any one of them the properties still hold. A client with a round
   trip of `UPDATE_BACKUP - 1` packets or more gets full updates only. After a
   level change `lastcmd` is not reset: a gap before the first move of a level
   may be filled with a command of the level before.
9. `QwdRecording`. A delta flushed as too old is recorded from the stale frame,
   although "only write if it was parsed correctly" (`cl_parse.c:4134`): played
   back, the demo shows old entities. `PlayedBack` leaves such frames out; without
   that TLC finds it violated in eleven steps.

## Not modelled

* Of the modelled files: out-of-band packets, the bandwidth estimator beyond
  "choked or not", packet statistics, `dupe` (copies are the same element of the
  set of packets), wrap-around of 31-bit sequence numbers, datagram contents,
  bots, multicast visibility.
* Of `Connect` and `Signon`: see their modules above; the chunked download, demo
  queues, uploads and files the server refuses.
* Steps 7 to 10 of the plan: the server's demo destinations, the self-update, the
  server browser and the command buffers have state and threads worth a model
  and have none yet.
* Virtual machines, physics and collision (floating-point numerics), rendering,
  sound, HUD and menus (no state a protocol property is about), file formats and
  allocators, the TeamFortress helpers (pure functions with tests in
  `src/tests`).
* Liveness and recursion over data are outside what TLAPS proves here; they are
  checked by TLC.
