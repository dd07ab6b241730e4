----------------------------- MODULE QwdRecording -----------------------------
(***************************************************************************)
(* A client that records a QWD demo.  The demo holds its commands and the  *)
(* server's messages.  A delta is recorded as it came if the frame it was  *)
(* made from is in the demo too, else the list of entities is written out. *)
(* Source: cl_demo.c (CL_Record, CL_WriteStartupData, CL_WriteDemoCmd,     *)
(* CL_WriteDemoEntities, CL_StopRecording), cl_parse.c (the end of         *)
(* CL_ParseServerMessage); playback: cl_demo.c (CL_DemoReadDemCmd).        *)
(*                                                                         *)
(* Playback reads the demo with the functions the game uses; so the state  *)
(* a player is in at the end of the demo so far stands for the demo.       *)
(***************************************************************************)
EXTENDS FrameExchange

VARIABLES
    demorecording,  \* cls.demorecording
    in_qwd,         \* in_qwd[s]: frames[s].in_qwd, its entities are recorded
    player,         \* a client that has played back the demo so far
    since           \* the last packet before the recording

demo == <<demorecording, in_qwd, player, since>>

\* The client that starts to play back a demo recorded from c on.
AtStart(c) == CL_ClearState(c, c.level)
NoPlayer == [level |-> 0]

RecordInit ==
    /\ Init
    /\ demorecording = FALSE
    /\ in_qwd = [s \in Slots |-> FALSE]
    /\ player = NoPlayer
    /\ since = 0

\* "record" in the game: the startup data has the signon, the sequence
\* numbers and none of the frames.
CL_Record ==
    /\ ~demorecording /\ cl.state = "active"
    /\ demorecording' = TRUE
    /\ in_qwd' = [s \in Slots |-> FALSE]
    /\ player' = AtStart(cl)
    /\ since' = cl.incoming
    /\ UNCHANGED vars

CL_Stop ==
    /\ demorecording
    /\ demorecording' = FALSE
    /\ player' = NoPlayer
    /\ since' = 0
    /\ UNCHANGED <<vars, in_qwd>>

\* CL_WriteDemoCmd, read again by CL_DemoReadDemCmd.
ReadCmd(c, cmd) ==
    [c EXCEPT !.outgoing = @ + 1,
              !.frames[Slot(c.outgoing)] =
                  [@ EXCEPT !.cmd = cmd,
                            !.delta_sequence = c.delta_sequence]]

RecordFrame(nodelta) ==
    /\ ClientFrame(nodelta)
    /\ player' = IF demorecording THEN ReadCmd(player, cl.outgoing) ELSE player
    /\ UNCHANGED <<demorecording, in_qwd, since>>

\* Mutant: that the frame is in the demo is not checked.
DeltaParsed(c) ==
    LET deltaseq == c.frames[Slot(c.incoming)].delta_sequence
    IN deltaseq > 0 /\ ~c.frames[Slot(deltaseq)].invalid
\* c has just parsed the packet that update came in.
DeltaValid(c) ==
    LET deltaseq == c.frames[Slot(c.incoming)].delta_sequence
    IN deltaseq > 0 /\ ~c.frames[Slot(deltaseq)].invalid
                    /\ in_qwd[Slot(deltaseq)]

CL_WriteDemoEntities(c) ==
    [from |-> None, base |-> 0,
     entities |-> c.frames[Slot(c.incoming)].entities]

Written(c, update) ==
    IF update.from = None \/ (c.validsequence = c.incoming /\ DeltaValid(c))
    THEN update ELSE CL_WriteDemoEntities(c)

RecordRead(p) ==
    /\ ClientReads(p)
    /\ IF p.update = NoUpdate
       THEN UNCHANGED <<in_qwd, player>>
       ELSE /\ in_qwd' = [in_qwd EXCEPT ![Slot(p.seq)] =
                             demorecording /\ p.update.from # None]
            /\ player' = IF demorecording
                         THEN CL_ParseServerMessage(player,
                                 [p EXCEPT !.update = Written(cl', @)])
                         ELSE player
    /\ UNCHANGED <<demorecording, since>>

RecordServerdata(p) ==
    /\ ClientHears(p)
    /\ in_qwd' = [s \in Slots |-> FALSE]
    /\ player' = IF demorecording
                 THEN CL_ClearState([player EXCEPT !.incoming = p.seq], p.level)
                 ELSE player
    /\ UNCHANGED <<demorecording, since>>

RecordNext ==
    \/ \E nodelta \in Nodelta : RecordFrame(nodelta)
    \/ \E p \in toClient : RecordRead(p) \/ RecordServerdata(p)
    \/ \E p \in toServer : ServerReads(p) /\ UNCHANGED demo
    \/ ServerAnswers /\ UNCHANGED demo
    \/ ServerChokes /\ UNCHANGED demo
    \/ LevelChange /\ UNCHANGED demo
    \/ CL_Record
    \/ CL_Stop

RecordSpec == RecordInit /\ [][RecordNext]_<<vars, demo>>

\* While the client shows a frame it has recorded, the demo played back
\* shows the same frame with the same entities.  A delta that the client
\* flushed as too old is recorded with the entities its slot has had before
\* (delta_sequence is 0 then), which no property is about.
PlayedBack ==
    demorecording /\ cl.delta_sequence > since =>
        /\ player.validsequence = cl.validsequence
        /\ player.frames[Slot(cl.validsequence)].entities = cl.validsequence
=============================================================================
