------------------------- MODULE OperationJobProofs -------------------------
(***************************************************************************)
(* OperationJob, for every bound: type correctness, the inductive          *)
(* invariant that ties the parent's protocol state to the worker's message *)
(* log, and the safety properties of the stream that follow from it.       *)
(***************************************************************************)
EXTENDS OperationJob, TLAPS

\* With a project file, a snapshot about to be published is the one saved, and
\* no checkpoint of the log is ahead of the file.
SavedInv ==
    /\ saved <= made /\ made <= MaxPayloads
    /\ wpc = "publish" /\ checkpointPath => saved = made
    /\ \A i \in 1 .. Len(sent) :
          /\ sent[i].kind = "checkpoint" /\ checkpointPath => sent[i].no <= saved
          /\ sent[i].kind = "stopped" => sent[i] = Stopped
          /\ sent[i].kind = "unknown" => sent[i] = Refused

\* The parent reads inside the pipe, the pipe is a prefix of the log, and a
\* worker that left in good order left nothing behind.
ChannelInv ==
    /\ read <= flushed
    /\ torn => flushed < Len(sent)
    /\ flushed <= Len(sent)
    /\ exitcode \in {"ok", "failed"} => flushed = Len(sent)
    /\ ppc \in {"redrain", "settle"} => ~Alive
    /\ ppc = "settle" => read = flushed \/ broken
    /\ stopped => ~Alive /\ (read = flushed \/ broken) /\ ppc = "idle"

\* A message that the protocol has to refuse, for what it is or where it stands.
Breaks(i) ==
    IF sent[i].kind = "stopped"
    THEN \/ \A j \in 1 .. i - 1 : sent[j].kind \notin TERMINAL_KINDS
         \/ \E j \in 1 .. i - 1 : sent[j].kind = "stopped"
    ELSE \/ sent[i].kind \notin PAYLOAD_KINDS
         \/ \E j \in 1 .. i - 1 : sent[j].kind \in TERMINAL_KINDS

Violated(k) == \E i \in 1 .. k : Breaks(i)

\* What the parent knows is what the messages it has read say.
ProtocolInv ==
    /\ FaithfulPrefix
    /\ ~protocolFailed =>
         /\ pendingTerminal # ProtocolError
         /\ pendingTerminal = NoTerminal => ~stopReceived /\ Shown = read
         /\ pendingTerminal # NoTerminal =>
              /\ Shown + 1 <= read
              /\ pendingTerminal = sent[Shown + 1]
              /\ pendingTerminal.kind \in TERMINAL_KINDS
              /\ read = IF stopReceived THEN Shown + 2 ELSE Shown + 1
              /\ stopReceived => sent[Shown + 2] = Stopped
    /\ protocolFailed => pendingTerminal = ProtocolError /\ (Violated(read) \/ broken)
    /\ broken => protocolFailed
    /\ forceStarted => forceRequested \/ protocolFailed

\* The conclusion, once drawn, is the one the log calls for.
ClosedInv ==
    stopped =>
        /\ Len(events) >= 2
        /\ events[Len(events)] = Stopped
        /\ Outcome = _terminal_after_exit

IInv == TypeOK /\ SavedInv /\ ChannelInv /\ ProtocolInv /\ ClosedInv

-----------------------------------------------------------------------------
USE DEF vars, workerVars, channelVars, controlVars, protocolVars, forceVars,
        ParentUnchanged, Goto, Put, Fault, CanFeed, WorkerUnchanged, Draining,
        Take, Incoming, AfterDrain, Terminate, CallUnchanged, Alive, IsRunning

\* The messages are well typed, and the worker's log only ever grows by one.
LEMMA MessageFacts ==
    /\ Stopped \in Messages
    /\ Refused \in Messages
    /\ Message("progress", 0) \in Messages
    /\ Message("cancelled", 0) \in Messages
    /\ Message("error", 0) \in Messages
    /\ Message(Result, 0) \in Messages
    /\ \A n \in 0 .. MaxPayloads : Message("checkpoint", n) \in Messages
  BY JobAssumption DEF Messages, Message, Stopped, Refused, PayloadKinds

\* A step of the protocol keeps every variable in its type.
LEMMA TypeStep == IInv /\ [Next]_vars => TypeOK'
  <1> SUFFICES ASSUME TypeOK, SavedInv, ChannelInv, ProtocolInv, [Next]_vars
               PROVE  TypeOK'
    BY DEF IInv
  <1> USE DEF TypeOK
  <1>1. CASE WorkerProgress
    BY <1>1, MessageFacts DEF WorkerProgress
  <1>2. CASE WorkerSaveCheckpoint
    BY <1>2, JobAssumption DEF WorkerSaveCheckpoint, NextSnapshot, SavedInv
  <1>3. CASE WorkerPutCheckpoint
    BY <1>3, MessageFacts, JobAssumption DEF WorkerPutCheckpoint, SavedInv
  <1>4. CASE WorkerHearCancel
    BY <1>4, MessageFacts DEF WorkerHearCancel
  <1>5. CASE WorkerConsumeSkip
    <2>1. skip' \in BOOLEAN
      BY <1>5, Zenon DEF WorkerConsumeSkip
    <2> QED
      BY <1>5, <2>1 DEF WorkerConsumeSkip
  <1>6. CASE WorkerPark
    BY <1>6 DEF WorkerPark
  <1>7. CASE WorkerReturn
    <2>1. CASE Put(Message(Result, 0), "terminal")
      BY <1>7, <2>1, MessageFacts DEF WorkerReturn
    <2>2. CASE Put(Message("error", 0), "except")
      BY <1>7, <2>2, MessageFacts DEF WorkerReturn
    <2> QED
      BY <1>7, <2>1, <2>2 DEF WorkerReturn
  <1>8. CASE WorkerPutStopped
    BY <1>8, MessageFacts DEF WorkerPutStopped
  <1>9. CASE WorkerExit
    BY <1>9 DEF WorkerExit
  <1>10. CASE InterruptBody
    BY <1>10, MessageFacts DEF InterruptBody
  <1>11. CASE InterruptEnding
    <2>1. CASE Put(Stopped, "failing")
      BY <1>11, <2>1, MessageFacts DEF InterruptEnding
    <2>2. CASE Goto("failing") /\ UNCHANGED <<sent, made, saved, controlVars>>
      BY <1>11, <2>2 DEF InterruptEnding
    <2> QED
      BY <1>11, <2>1, <2>2 DEF InterruptEnding
  <1>12. CASE WorkerDies
    BY <1>12 DEF WorkerDies
  <1>29. CASE WorkerSaveFails
    BY <1>29, JobAssumption DEF WorkerSaveFails, NextSnapshot, SavedInv
  <1>30. CASE WorkerPutsRefused
    <2>1. CASE Put(Refused, "work")
      BY <1>30, <2>1, MessageFacts DEF WorkerPutsRefused
    <2>2. CASE Put(Refused, "terminal")
      BY <1>30, <2>2, MessageFacts DEF WorkerPutsRefused
    <2> QED
      BY <1>30, <2>1, <2>2 DEF WorkerPutsRefused
  <1>31. CASE DrainFails
    <2>1. pendingTerminal' = ProtocolError /\ broken' \in BOOLEAN /\ ppc' \in {"advance", "settle"}
          /\ faults' \in Nat
      BY <1>31 DEF DrainFails, _fail_protocol
    <2>2. CASE Alive
      BY <1>31, <2>1, <2>2 DEF DrainFails, _fail_protocol
    <2>3. CASE ~Alive
      BY <1>31, <2>1, <2>3 DEF DrainFails, _fail_protocol
    <2> QED
      BY <2>2, <2>3
  <1>13. CASE FeedWhole
    BY <1>13 DEF FeedWhole
  <1>14. CASE FeedBegin
    BY <1>14 DEF FeedBegin
  <1>15. CASE FeedEnd
    <2>1. torn' \in BOOLEAN
      BY <1>15, Zenon DEF FeedEnd
    <2>2. flushed' \in Nat /\ UNCHANGED <<workerVars, faults, controlVars>> /\ ParentUnchanged
      BY <1>15 DEF FeedEnd
    <2> QED
      BY <2>1, <2>2
  <1>16. CASE PollBegin
    BY <1>16 DEF PollBegin
  <1>17. CASE AcceptNothing
    BY <1>17 DEF AcceptNothing
  <1>18. CASE RejectMessage
    <2>1. read' \in Nat /\ pendingTerminal' = ProtocolError
      BY <1>18 DEF RejectMessage, _fail_protocol
    <2>2. CASE Alive
      BY <1>18, <2>1, <2>2 DEF RejectMessage, _fail_protocol
    <2>3. CASE ~Alive
      BY <1>18, <2>1, <2>3 DEF RejectMessage, _fail_protocol
    <2> QED
      BY <2>2, <2>3
  <1>19. CASE AcceptStopped
    BY <1>19 DEF AcceptStopped
  <1>20. CASE AcceptTerminal
    <2>1. sent[read + 1] \in Messages
      BY <1>20 DEF AcceptTerminal, ChannelInv
    <2> QED
      BY <1>20, <2>1 DEF AcceptTerminal
  <1>21. CASE AcceptPayload
    <2>1. sent[read + 1] \in Messages
      BY <1>21 DEF AcceptPayload, ChannelInv
    <2> QED
      BY <1>21, <2>1 DEF AcceptPayload
  <1>22. CASE DrainEmpty
    BY <1>22 DEF DrainEmpty
  <1>23. CASE _advance_force_stop
    BY <1>23 DEF _advance_force_stop
  <1>24. CASE GraceOver
    BY <1>24 DEF GraceOver
  <1>25. CASE FinishExited
    BY <1>25 DEF FinishExited
  <1>26. CASE Settle
    <2>1. _terminal_after_exit \in Messages \cup {ProtocolError, ForceStopped}
      BY DEF _terminal_after_exit, ProtocolInv
    <2>2. events' \in Seq(Messages \cup {ProtocolError, ForceStopped})
      BY <1>26, <2>1, MessageFacts DEF Settle
    <2> QED
      BY <1>26, <2>2 DEF Settle
  <1>27. CASE Calls
    <2>1. CASE Pause
      BY <2>1 DEF Pause
    <2>2. CASE Resume
      <3>1. pause' \in BOOLEAN
        BY <2>2, Zenon DEF Resume
      <3> QED
        BY <2>2, <3>1 DEF Resume
    <2>3. CASE SkipStage
      BY <2>3 DEF SkipStage
    <2>4. CASE Cancel
      <3>1. pause' \in BOOLEAN /\ cancellation' \in BOOLEAN
        BY <2>4, Zenon DEF Cancel
      <3> QED
        BY <2>4, <3>1 DEF Cancel
    <2>5. CASE ForceStop
      BY <2>5 DEF ForceStop
    <2>6. CASE Close
      BY <2>6 DEF Close
    <2> QED
      BY <1>27, <2>1, <2>2, <2>3, <2>4, <2>5, <2>6 DEF Calls
  <1>28. CASE UNCHANGED vars
    BY <1>28
  <1> QED
    BY <1>1, <1>2, <1>3, <1>4, <1>5, <1>6, <1>7, <1>8, <1>9, <1>10, <1>11, <1>12, <1>13, <1>14, <1>15, <1>16, <1>17, <1>18, <1>19, <1>20, <1>21, <1>22, <1>23, <1>24, <1>25, <1>26, <1>27, <1>28, <1>29, <1>30, <1>31 DEF Next, WorkerNext, Faults, Feed, PollNext

\* Who can touch what: the worker and its faults, the feeder, the parent.
LEMMA Frames ==
    /\ WorkerNext \/ Faults => UNCHANGED channelVars /\ ParentUnchanged
    /\ Feed => UNCHANGED workerVars /\ ParentUnchanged
    /\ PollNext \/ DrainFails \/ GraceOver \/ Calls => UNCHANGED <<workerVars, channelVars>>
  <1>1. WorkerNext \/ Faults => UNCHANGED channelVars /\ ParentUnchanged
    BY DEF WorkerNext, Faults, WorkerProgress, WorkerSaveCheckpoint,
           WorkerPutCheckpoint, WorkerHearCancel, WorkerConsumeSkip, WorkerPark,
           WorkerReturn, WorkerPutStopped, WorkerExit, InterruptBody,
           InterruptEnding, WorkerSaveFails, NextSnapshot, WorkerPutsRefused, WorkerDies
  <1>2. Feed => UNCHANGED workerVars /\ ParentUnchanged
    BY DEF Feed, FeedWhole, FeedBegin, FeedEnd
  <1>3. PollNext \/ DrainFails \/ GraceOver \/ Calls => UNCHANGED <<workerVars, channelVars>>
    BY DEF PollNext, DrainFails, GraceOver, Calls, PollBegin, AcceptNothing, RejectMessage,
           AcceptStopped, AcceptTerminal, AcceptPayload, DrainEmpty,
           _advance_force_stop, FinishExited, Settle, Pause, Resume, SkipStage,
           Cancel, ForceStop, Close
  <1> QED
    BY <1>1, <1>2, <1>3

\* The worker appends to its log or leaves it alone, and dies only once.
LEMMA WorkerGrows ==
    ASSUME TypeOK, WorkerNext \/ Faults
    PROVE  /\ sent' = sent \/ \E m : sent' = Append(sent, m)
           /\ exitcode = "none"
  <1>1. exitcode = "none"
    BY DEF WorkerNext, Faults, WorkerProgress, WorkerSaveCheckpoint,
           WorkerPutCheckpoint, WorkerHearCancel, WorkerConsumeSkip, WorkerPark,
           WorkerReturn, WorkerPutStopped, WorkerExit, InterruptBody,
           InterruptEnding, WorkerSaveFails, NextSnapshot, WorkerPutsRefused, WorkerDies
  <1>2. sent' = sent \/ \E m : sent' = Append(sent, m)
    BY DEF WorkerNext, Faults, WorkerProgress, WorkerSaveCheckpoint,
           WorkerPutCheckpoint, WorkerHearCancel, WorkerConsumeSkip, WorkerPark,
           WorkerReturn, WorkerPutStopped, WorkerExit, InterruptBody,
           InterruptEnding, WorkerSaveFails, NextSnapshot, WorkerPutsRefused, WorkerDies
  <1> QED
    BY <1>1, <1>2

\* A message that is no checkpoint ahead of the file and not malformed can be put.
LEMMA SavedPut ==
    ASSUME TypeOK, SavedInv, NEW m \in Messages,
           UNCHANGED <<made, saved, checkpointPath>>,
           m.kind = "checkpoint" /\ checkpointPath => m.no <= saved,
           m.kind = "stopped" => m = Stopped,
           m.kind = "unknown" => m = Refused,
           sent' = Append(sent, m),
           wpc' # "publish"
    PROVE  SavedInv'
  <1>1. Len(sent') = Len(sent) + 1 /\ sent'[Len(sent) + 1] = m
    BY DEF TypeOK
  <1>2. \A i \in 1 .. Len(sent) : sent'[i] = sent[i]
    BY DEF TypeOK
  <1>3. ASSUME NEW i \in 1 .. Len(sent')
        PROVE  /\ sent'[i].kind = "checkpoint" /\ checkpointPath => sent'[i].no <= saved
               /\ sent'[i].kind = "stopped" => sent'[i] = Stopped
               /\ sent'[i].kind = "unknown" => sent'[i] = Refused
    <2>1. CASE i = Len(sent) + 1
      BY <1>1, <2>1
    <2>2. CASE i # Len(sent) + 1
      <3>1. i \in 1 .. Len(sent)
        BY <1>1, <2>2 DEF TypeOK
      <3> QED
        BY <1>2, <3>1 DEF SavedInv
    <2> QED
      BY <2>1, <2>2
  <1> QED
    BY <1>1, <1>3 DEF SavedInv, TypeOK, Stopped, Refused

\* So can any message that is neither a checkpoint, nor "stopped", nor refused.
LEMMA SavedPlainPut ==
    ASSUME TypeOK, SavedInv, NEW m \in Messages, NEW pc, Put(m, pc), pc # "publish",
           m \in {Stopped, Refused} \/ m.kind \notin {"checkpoint", "stopped", "unknown"}
    PROVE  SavedInv'
  <1>1. Stopped.kind = "stopped" /\ Refused.kind = "unknown"
    BY DEF Stopped, Refused, Message
  <1> QED
    BY <1>1, SavedPut

LEMMA SavedStep == IInv /\ [Next]_vars => SavedInv'
  <1> SUFFICES ASSUME TypeOK, SavedInv, [Next]_vars PROVE SavedInv'
    BY DEF IInv
  <1> USE JobAssumption, MessageFacts
  <1>0. /\ Message("progress", 0).kind = "progress" /\ Message("cancelled", 0).kind = "cancelled"
        /\ Message("error", 0).kind = "error" /\ Message(Result, 0).kind = Result
    BY DEF Message
  <1>1. CASE WorkerProgress
    BY <1>0, <1>1, SavedPlainPut DEF WorkerProgress
  <1>2. ASSUME NextSnapshot, saved' \in {saved, made + 1}, UNCHANGED checkpointPath,
               wpc' = "publish" /\ checkpointPath => saved' = made + 1
        PROVE  SavedInv'
    <2>1. ASSUME NEW i \in 1 .. Len(sent), sent[i].kind = "checkpoint", checkpointPath
          PROVE  sent[i].no <= saved'
      <3>1. sent[i] \in Messages
        BY DEF TypeOK
      <3>2. sent[i].no \in 0 .. MaxPayloads
        BY <3>1 DEF Messages
      <3>3. sent[i].no <= saved /\ saved <= made
        BY <2>1 DEF SavedInv
      <3> QED
        BY <1>2, <3>2, <3>3 DEF TypeOK
    <2>2. made' = made + 1 /\ sent' = sent /\ made < MaxPayloads
      BY <1>2 DEF NextSnapshot
    <2> QED
      BY <1>2, <2>1, <2>2 DEF SavedInv, TypeOK, Stopped, Refused
  <1>3. CASE WorkerSaveCheckpoint \/ WorkerSaveFails
    BY <1>2, <1>3 DEF WorkerSaveCheckpoint, WorkerSaveFails
  <1>4. CASE WorkerPutCheckpoint
    <2>1. Message("checkpoint", made) \in Messages
      BY DEF SavedInv, TypeOK
    <2>2. Message("checkpoint", made).kind = "checkpoint" /\ Message("checkpoint", made).no = made
      BY DEF Message
    <2>3. checkpointPath => made <= saved
      BY <1>4 DEF WorkerPutCheckpoint, SavedInv, TypeOK
    <2> QED
      BY <1>4, <2>1, <2>2, <2>3, SavedPut DEF WorkerPutCheckpoint
  <1>5. CASE WorkerHearCancel
    BY <1>0, <1>5, SavedPlainPut DEF WorkerHearCancel
  <1>6. CASE WorkerConsumeSkip \/ WorkerPark
    BY <1>6 DEF WorkerConsumeSkip, WorkerPark, SavedInv, TypeOK
  <1>7. CASE WorkerReturn
    BY <1>0, <1>7, SavedPlainPut DEF WorkerReturn
  <1>8. CASE WorkerPutStopped
    BY <1>8, SavedPlainPut DEF WorkerPutStopped
  <1>9. CASE WorkerExit \/ WorkerDies
    BY <1>9 DEF WorkerExit, WorkerDies, SavedInv
  <1>10. CASE InterruptBody
    BY <1>0, <1>10, SavedPlainPut DEF InterruptBody
  <1>11. CASE InterruptEnding
    <2>1. CASE Put(Stopped, "failing")
      BY <2>1, SavedPlainPut
    <2>2. CASE Goto("failing") /\ UNCHANGED <<sent, made, saved, controlVars>>
      BY <2>2 DEF SavedInv
    <2> QED
      BY <1>11, <2>1, <2>2 DEF InterruptEnding
  <1>12. CASE WorkerPutsRefused
    BY <1>12, SavedPlainPut DEF WorkerPutsRefused
  <1>13. CASE Feed \/ PollNext \/ DrainFails \/ GraceOver \/ Calls \/ UNCHANGED vars
    BY <1>13, Frames DEF SavedInv
  <1> QED
    BY <1>1, <1>3, <1>4, <1>5, <1>6, <1>7, <1>8, <1>9, <1>10, <1>11, <1>12, <1>13
       DEF Next, WorkerNext, Faults

LEMMA ChannelStep == IInv /\ [Next]_vars => ChannelInv'
  <1> SUFFICES ASSUME TypeOK, ChannelInv, [Next]_vars PROVE ChannelInv'
    BY DEF IInv
  <1> USE DEF TypeOK, ChannelInv
  <1>1. CASE WorkerNext \/ Faults
    <2>1. sent' = sent \/ Len(sent') = Len(sent) + 1
      BY <1>1, WorkerGrows
    <2>2. exitcode' = exitcode \/ ~Alive'
      BY <1>1, WorkerGrows DEF WorkerNext, Faults, WorkerExit, WorkerDies
    <2>3. exitcode' \in {"ok", "failed"} => flushed' = Len(sent')
      BY <1>1, Frames, WorkerGrows DEF WorkerNext, Faults, WorkerProgress, WorkerSaveCheckpoint,
           WorkerPutCheckpoint, WorkerHearCancel, WorkerConsumeSkip, WorkerPark,
           WorkerReturn, WorkerPutStopped, WorkerExit, InterruptBody,
           InterruptEnding, WorkerSaveFails, NextSnapshot, WorkerPutsRefused, WorkerDies
    <2> QED
      BY <1>1, <2>1, <2>2, <2>3, Frames, WorkerGrows
  <1>2. CASE Feed
    BY <1>2 DEF Feed, FeedWhole, FeedBegin, FeedEnd
  <1>3. CASE AcceptNothing \/ RejectMessage \/ AcceptStopped \/ AcceptTerminal \/ AcceptPayload
    <2>1. read < flushed /\ read' = read + 1 /\ ppc' = ppc /\ ppc \in {"drain", "redrain"}
          /\ UNCHANGED <<workerVars, channelVars, stopped>>
      BY <1>3 DEF AcceptNothing, RejectMessage, AcceptStopped, AcceptTerminal, AcceptPayload,
                  _fail_protocol
    <2>2. broken' = broken
      BY <1>3 DEF AcceptNothing, RejectMessage, AcceptStopped, AcceptTerminal, AcceptPayload
    <2> QED
      BY <2>1, <2>2
  <1>7. CASE DrainFails
    <2>1. broken' /\ UNCHANGED <<workerVars, channelVars, read, stopped>> /\ ppc' \in {"advance", "settle"}
          /\ (ppc' = "settle" => ppc = "redrain") /\ ppc # "idle"
      BY <1>7 DEF DrainFails, _fail_protocol
    <2> QED
      BY <2>1
  <1>4. CASE PollBegin \/ DrainEmpty \/ _advance_force_stop \/ FinishExited
    BY <1>4 DEF PollBegin, DrainEmpty, _advance_force_stop, FinishExited
  <1>5. CASE Settle
    BY <1>5 DEF Settle
  <1>6. CASE GraceOver \/ Calls \/ UNCHANGED vars
    BY <1>6 DEF GraceOver, Calls, Pause, Resume, SkipStage, Cancel, ForceStop, Close
  <1> QED
    BY <1>1, <1>2, <1>3, <1>4, <1>5, <1>6, <1>7 DEF Next, PollNext

\* The worker's appends do not disturb what the parent has already read.
LEMMA ReadPrefix ==
    ASSUME TypeOK, ChannelInv, WorkerNext \/ Faults
    PROVE  /\ \A i \in 1 .. read : sent'[i] = sent[i]
           /\ read <= Len(sent)
  <1>1. read <= Len(sent)
    BY DEF TypeOK, ChannelInv
  <1>2. CASE sent' = sent
    BY <1>1, <1>2
  <1>3. ASSUME NEW m, sent' = Append(sent, m)
        PROVE  \A i \in 1 .. read : sent'[i] = sent[i]
    BY <1>1, <1>3 DEF TypeOK
  <1> QED
    BY <1>1, <1>2, <1>3, WorkerGrows

LEMMA ShownType == TypeOK /\ ClosedInv => Shown \in Nat
  BY DEF TypeOK, ClosedInv, Shown

\* Steps that touch neither the log the parent has read nor what it knows.
LEMMA ProtocolFrame ==
    ASSUME ProtocolInv, UNCHANGED <<sent, read, broken, protocolVars, forceStarted, forceRequested>>
    PROVE  ProtocolInv'
  BY DEF ProtocolInv, FaithfulPrefix, Shown, Violated, Breaks

LEMMA ProtocolStep == IInv /\ [Next]_vars => ProtocolInv'
  <1> SUFFICES ASSUME TypeOK, SavedInv, ChannelInv, ProtocolInv, ClosedInv, [Next]_vars
               PROVE  ProtocolInv'
    BY DEF IInv
  <1>0. Shown \in Nat /\ read \in Nat /\ flushed \in Nat /\ sent \in Seq(Messages)
        /\ events \in Seq(Messages \cup {ProtocolError, ForceStopped})
    BY ShownType DEF TypeOK
  <1>1. CASE WorkerNext \/ Faults
    <2>1. UNCHANGED <<read, broken, protocolVars, forceVars>>
      BY <1>1, Frames
    <2>2. \A i \in 1 .. read : sent'[i] = sent[i]
      BY <1>1, ReadPrefix
    <2>3. FaithfulPrefix'
      BY <2>1, <2>2 DEF FaithfulPrefix, ProtocolInv, Shown, TypeOK
    <2>4. Violated(read) => Violated(read)'
      <3>1. ASSUME NEW i \in 1 .. read, Breaks(i) PROVE Breaks(i)'
        <4>1. sent'[i] = sent[i] /\ \A j \in 1 .. i - 1 : sent'[j] = sent[j]
          BY <1>0, <2>2
        <4> QED
          BY <3>1, <4>1 DEF Breaks
      <3> QED
        BY <2>1, <3>1 DEF Violated
    <2>5. Shown' = Shown
      BY <2>1 DEF Shown
    <2>6. (Shown + 1 <= read => sent'[Shown + 1] = sent[Shown + 1])
          /\ (Shown + 2 <= read => sent'[Shown + 2] = sent[Shown + 2])
      BY <1>0, <2>2
    <2> QED
      BY <1>0, <2>1, <2>3, <2>4, <2>5, <2>6 DEF ProtocolInv
  <1>2. CASE Feed
    BY <1>2, Frames, ProtocolFrame
  <1>3. ASSUME Take
        PROVE  /\ ~stopped /\ Shown = Len(events) /\ broken' = broken
               /\ read + 1 \in 1 .. Len(sent) /\ read' = read + 1
               /\ sent' = sent /\ Incoming = sent[read + 1] /\ Incoming \in Messages
    BY <1>0, <1>3 DEF ChannelInv, Shown
  <1>4. CASE AcceptNothing
    <2>1. Violated(read) => Violated(read + 1)
      BY <1>0 DEF Violated
    <2>2. UNCHANGED <<broken, protocolVars, forceVars, sent>> /\ read' = read + 1 /\ protocolFailed
      BY <1>3, <1>4 DEF AcceptNothing
    <2>3. Violated(read) => Violated(read)'
      BY <2>1, <2>2 DEF Violated, Breaks
    <2> QED
      BY <1>0, <2>2, <2>3 DEF ProtocolInv, FaithfulPrefix, Shown
  <1>5. CASE RejectMessage
    <2>1. ~stopped /\ read' = read + 1 /\ sent' = sent /\ protocolFailed' /\ ~protocolFailed
          /\ pendingTerminal' = ProtocolError /\ UNCHANGED <<stopReceived, stopped, events>>
          /\ (sent[read + 1].kind \notin PAYLOAD_KINDS \/ OutOfOrder(sent[read + 1]))
      BY <1>3, <1>5 DEF RejectMessage, _fail_protocol
    <2>2. Violated(read + 1)
      <3>5. read \in Nat /\ read + 1 \in 1 .. read + 1 /\ (read + 1) - 1 = read
        BY <1>0 DEF TypeOK
      <3>6. SUFFICES Breaks(read + 1)
        BY <3>5 DEF Violated
      <3>4. CASE sent[read + 1].kind \notin PAYLOAD_KINDS
        <4>1. sent[read + 1].kind # "stopped"
          BY <3>4 DEF PAYLOAD_KINDS
        <4> QED
          BY <3>4, <4>1 DEF Breaks
      <3>0. SUFFICES ASSUME OutOfOrder(sent[read + 1]) PROVE Breaks(read + 1)
        BY <2>1, <3>4
      <3>1. CASE sent[read + 1].kind = "stopped" /\ pendingTerminal = NoTerminal
        <4>1. \A j \in 1 .. read : sent[j].kind \in PayloadKinds
          BY <1>0, <2>1, <3>1 DEF ProtocolInv, FaithfulPrefix
        <4>2. \A kind \in PayloadKinds : kind \notin TERMINAL_KINDS
          BY DEF PayloadKinds, TERMINAL_KINDS
        <4>3. \A j \in 1 .. read : sent[j].kind \notin TERMINAL_KINDS
          BY <4>1, <4>2
        <4> QED
          BY <3>1, <3>5, <4>3 DEF Breaks
      <3>2. CASE sent[read + 1].kind = "stopped" /\ pendingTerminal # NoTerminal
        <4>1. stopReceived /\ read = Shown + 2 /\ sent[read].kind = "stopped"
          BY <1>0, <2>1, <3>0, <3>2 DEF ProtocolInv, OutOfOrder, Stopped, Message
        <4>2. read \in 1 .. read
          BY <1>0, <2>1, <3>5, <4>1 DEF Shown, TypeOK
        <4> QED
          BY <3>2, <3>5, <4>1, <4>2 DEF Breaks
      <3>3. CASE sent[read + 1].kind # "stopped"
        <4>1. Shown + 1 \in 1 .. read /\ sent[Shown + 1].kind \in TERMINAL_KINDS
          BY <1>0, <2>1, <3>0, <3>3 DEF ProtocolInv, OutOfOrder
        <4> QED
          BY <3>3, <3>5, <4>1 DEF Breaks
      <3> QED
        BY <3>1, <3>2, <3>3
    <2>3. Violated(read)'
      BY <2>1, <2>2 DEF Violated, Breaks
    <2>4. FaithfulPrefix'
      BY <1>0, <2>1 DEF ProtocolInv, FaithfulPrefix, Shown
    <2> QED
      BY <2>1, <2>3, <2>4 DEF ProtocolInv
  <1>6. CASE AcceptStopped
    <2>1. UNCHANGED <<sent, broken, pendingTerminal, protocolFailed, stopped, events, forceVars>>
          /\ read' = read + 1 /\ stopReceived' /\ ~protocolFailed
          /\ sent[read + 1].kind = "stopped" /\ read + 1 \in 1 .. Len(sent)
          /\ pendingTerminal # NoTerminal /\ ~stopReceived
      BY <1>3, <1>6 DEF AcceptStopped, OutOfOrder
    <2>2. sent[read + 1] = Stopped
      BY <2>1 DEF SavedInv
    <2> QED
      BY <1>0, <2>1, <2>2 DEF ProtocolInv, FaithfulPrefix, Shown
  <1>7. CASE AcceptTerminal
    <2>1. UNCHANGED <<sent, broken, stopReceived, protocolFailed, stopped, events, forceVars>>
          /\ read' = read + 1 /\ ~protocolFailed /\ pendingTerminal' = sent[read + 1]
          /\ sent[read + 1].kind \in TERMINAL_KINDS /\ sent[read + 1] \in Messages
          /\ pendingTerminal = NoTerminal
      BY <1>3, <1>7 DEF AcceptTerminal, OutOfOrder, TERMINAL_KINDS
    <2>2. sent[read + 1] # ProtocolError /\ sent[read + 1] # NoTerminal
      BY <2>1 DEF Messages, ProtocolError, NoTerminal, Message, FromParent, TERMINAL_KINDS
    <2>3. Shown' = Shown /\ Shown = read /\ ~stopReceived
      BY <2>1 DEF Shown, ProtocolInv
    <2> QED
      BY <1>0, <2>1, <2>2, <2>3 DEF ProtocolInv, FaithfulPrefix
  <1>8. CASE AcceptPayload
    <2>1. UNCHANGED <<sent, broken, pendingTerminal, stopReceived, protocolFailed, stopped, forceVars>>
          /\ read' = read + 1 /\ ~protocolFailed /\ events' = Append(events, sent[read + 1])
          /\ sent[read + 1].kind \in PayloadKinds
          /\ pendingTerminal = NoTerminal /\ ~stopped /\ Shown = Len(events)
      BY <1>3, <1>8 DEF AcceptPayload, OutOfOrder, PayloadKinds
    <2>2. Len(events) = read /\ ~stopReceived
      BY <2>1 DEF ProtocolInv
    <2>3. Shown' = read + 1 /\ Len(events') = read + 1
          /\ events'[read + 1] = sent[read + 1] /\ \A i \in 1 .. read : events'[i] = events[i]
      BY <1>0, <2>1, <2>2 DEF Shown
    <2>4. FaithfulPrefix'
      BY <1>0, <2>1, <2>2, <2>3 DEF FaithfulPrefix, ProtocolInv
    <2> QED
      BY <1>0, <2>1, <2>2, <2>3, <2>4 DEF ProtocolInv
  <1>9. CASE PollBegin \/ DrainEmpty \/ _advance_force_stop \/ FinishExited \/ GraceOver
    BY <1>9, ProtocolFrame DEF PollBegin, DrainEmpty, _advance_force_stop, FinishExited, GraceOver
  <1>13. CASE DrainFails
    <2>1. broken' /\ protocolFailed' /\ pendingTerminal' = ProtocolError
          /\ UNCHANGED <<sent, read, stopped, events>>
      BY <1>13 DEF DrainFails, _fail_protocol
    <2> QED
      BY <2>1 DEF ProtocolInv, FaithfulPrefix, Shown
  <1>10. CASE Settle
    <2>1. UNCHANGED <<sent, read, broken, pendingTerminal, protocolFailed, stopReceived, forceVars>>
          /\ ~stopped /\ stopped'
          /\ events' = Append(Append(events, _terminal_after_exit), Stopped)
      BY <1>10 DEF Settle, ChannelInv
    <2>2. Len(events') = Len(events) + 2 /\ \A i \in 1 .. Len(events) : events'[i] = events[i]
      BY <1>0, <2>1
    <2>3. Shown' = Shown /\ Shown = Len(events)
      BY <1>0, <2>1, <2>2 DEF Shown
    <2>4. FaithfulPrefix'
      BY <1>0, <2>1, <2>2, <2>3 DEF FaithfulPrefix, ProtocolInv
    <2>5. Violated(read)' <=> Violated(read)
      BY <2>1 DEF Violated, Breaks
    <2> QED
      BY <2>1, <2>3, <2>4, <2>5 DEF ProtocolInv
  <1>11. CASE ForceStop
    <2>1. UNCHANGED <<sent, read, broken, protocolVars>> /\ forceStarted' /\ forceRequested'
      BY <1>11 DEF ForceStop
    <2> QED
      BY <2>1 DEF ProtocolInv, FaithfulPrefix, Shown, Violated, Breaks
  <1>12. CASE Pause \/ Resume \/ SkipStage \/ Cancel \/ Close \/ UNCHANGED vars
    BY <1>12, ProtocolFrame DEF Pause, Resume, SkipStage, Cancel, Close
  <1> QED
    BY <1>1, <1>2, <1>4, <1>5, <1>6, <1>7, <1>8, <1>9, <1>10, <1>11, <1>12, <1>13
       DEF Next, PollNext, Calls

\* Once closed, nothing the conclusion rests on moves.
LEMMA ClosedStep == IInv /\ [Next]_vars => ClosedInv'
  <1> SUFFICES ASSUME IInv, [Next]_vars, stopped' PROVE ClosedInv'
    BY DEF ClosedInv
  <1> USE DEF IInv, TypeOK
  <1>1. CASE Settle
    <2>1. UNCHANGED <<exitcode, pendingTerminal, protocolFailed, stopReceived, forceStarted>>
          /\ events' = Append(Append(events, _terminal_after_exit), Stopped)
      BY <1>1 DEF Settle
    <2>2. _terminal_after_exit' = _terminal_after_exit
      BY <2>1 DEF _terminal_after_exit
    <2> QED
      BY <2>1, <2>2 DEF ClosedInv, Outcome
  <1>2. CASE ~Settle
    <2>1. stopped /\ ~Alive /\ ppc = "idle"
      BY <1>2 DEF ChannelInv, Next, WorkerNext, Faults, Feed, PollNext, Calls,
           WorkerProgress, WorkerSaveCheckpoint,
           WorkerPutCheckpoint, WorkerHearCancel, WorkerConsumeSkip, WorkerPark,
           WorkerReturn, WorkerPutStopped, WorkerExit, InterruptBody,
           InterruptEnding, WorkerSaveFails, NextSnapshot, WorkerPutsRefused, WorkerDies, FeedWhole, FeedBegin, FeedEnd,
           PollBegin, AcceptNothing, RejectMessage, _fail_protocol,
           AcceptStopped, AcceptTerminal, AcceptPayload, DrainEmpty,
           DrainFails, _advance_force_stop, FinishExited, GraceOver, Pause, Resume, SkipStage,
           Cancel, ForceStop, Close
    <2>2. UNCHANGED <<exitcode, protocolVars, forceStarted>>
      BY <2>1 DEF Next, WorkerNext, Faults, Feed, PollNext, Calls,
           WorkerProgress, WorkerSaveCheckpoint,
           WorkerPutCheckpoint, WorkerHearCancel, WorkerConsumeSkip, WorkerPark,
           WorkerReturn, WorkerPutStopped, WorkerExit, InterruptBody,
           InterruptEnding, WorkerSaveFails, NextSnapshot, WorkerPutsRefused, WorkerDies, FeedWhole, FeedBegin, FeedEnd,
           PollBegin, AcceptNothing, RejectMessage,
           AcceptStopped, AcceptTerminal, AcceptPayload, DrainEmpty,
           DrainFails, _fail_protocol, _advance_force_stop, FinishExited, Settle, GraceOver, Pause, Resume, SkipStage,
           Cancel, ForceStop, Close
    <2> QED
      BY <2>1, <2>2 DEF ClosedInv, Outcome, _terminal_after_exit
  <1> QED
    BY <1>1, <1>2

-----------------------------------------------------------------------------
(* The theorems.                                                           *)

\* The inductive invariant holds in every reachable state.
THEOREM Invariance == Spec => []IInv
  <1>1. Init => IInv
    <2> SUFFICES ASSUME Init PROVE IInv
      OBVIOUS
    <2>1. TypeOK
      <3>1. /\ torn \in BOOLEAN /\ cancellation \in BOOLEAN /\ pause \in BOOLEAN
            /\ skip \in BOOLEAN /\ broken \in BOOLEAN /\ checkpointPath \in BOOLEAN
            /\ protocolFailed \in BOOLEAN /\ stopReceived \in BOOLEAN
            /\ stopped \in BOOLEAN /\ forceStarted \in BOOLEAN
            /\ forceRequested \in BOOLEAN /\ closed \in BOOLEAN
        BY Zenon DEF Init
      <3>2. sent = <<>> /\ events = <<>> /\ made = 0 /\ saved = 0 /\ faults = 0 /\ flushed = 0 /\ read = 0
        BY DEF Init
      <3>3. wpc = "work" /\ exitcode = "none" /\ ppc = "idle" /\ grace = "none"
            /\ signal = "none" /\ pendingTerminal = NoTerminal
        BY DEF Init
      <3> QED
        BY <3>1, <3>2, <3>3 DEF TypeOK
    <2>2. SavedInv /\ ChannelInv
      BY JobAssumption DEF Init, SavedInv, ChannelInv
    <2>3. ProtocolInv
      BY DEF Init, ProtocolInv, FaithfulPrefix, Shown, NoTerminal, ProtocolError, Message
    <2>4. ClosedInv
      BY DEF Init, ClosedInv
    <2> QED
      BY <2>1, <2>2, <2>3, <2>4 DEF IInv
  <1>2. IInv /\ [Next]_vars => IInv'
    BY TypeStep, SavedStep, ChannelStep, ProtocolStep, ClosedStep DEF IInv
  <1> QED
    BY <1>1, <1>2, PTL DEF Spec

\* Every variable of an operation job keeps its type.
THEOREM TypeCorrect == Spec => []TypeOK
  <1>1. IInv => TypeOK
    BY DEF IInv
  <1> QED
    BY <1>1, Invariance, PTL

\* The owner is only ever shown a prefix of the worker's payloads, in order.
THEOREM ShownIsFaithful == Spec => []FaithfulPrefix
  <1>1. IInv => FaithfulPrefix
    BY DEF IInv, ProtocolInv
  <1> QED
    BY <1>1, Invariance, PTL

\* In a closed stream the events before the terminal are the log's, so a
\* believed terminal makes the events the whole log.
LEMMA BelievedIsWhole ==
    ASSUME IInv, stopped, ~protocolFailed, pendingTerminal # NoTerminal, stopReceived,
           read = Len(sent), Outcome = pendingTerminal
    PROVE  events = sent
  <1>1. Len(sent) = Len(events) /\ Shown = Len(events) - 2 /\ Shown \in Nat
    BY ShownType DEF IInv, ProtocolInv, TypeOK, Shown
  <1>2. ASSUME NEW i \in 1 .. Len(sent) PROVE events[i] = sent[i]
    <2>1. CASE i <= Shown
      BY <1>1, <2>1 DEF IInv, ProtocolInv, FaithfulPrefix, TypeOK
    <2>2. CASE i = Shown + 1
      BY <1>1, <2>2 DEF IInv, ProtocolInv, Outcome, TypeOK
    <2>3. CASE i = Shown + 2
      BY <1>1, <2>3 DEF IInv, ProtocolInv, ClosedInv, TypeOK
    <2> QED
      BY <1>1, <2>1, <2>2, <2>3 DEF IInv, TypeOK
  <1> QED
    BY <1>1, <1>2 DEF IInv, TypeOK

\* A terminal of the worker is believed only with its complete log and a
\* clean exit.
THEOREM BeliefIsSound == Spec => []BelievedOnlyIfComplete
  <1>1. IInv => BelievedOnlyIfComplete
    <2> SUFFICES ASSUME IInv, stopped
                 PROVE  /\ Outcome.kind \in TERMINAL_KINDS
                        /\ events[Len(events)] = Stopped
                        /\ Outcome.no # FromParent => events = sent /\ exitcode = "ok"
      BY DEF BelievedOnlyIfComplete
    <2>1. ProtocolError.kind \in TERMINAL_KINDS /\ ForceStopped.kind \in TERMINAL_KINDS
          /\ ProtocolError.no = FromParent /\ ForceStopped.no = FromParent
      BY DEF ProtocolError, ForceStopped, Message, TERMINAL_KINDS
    <2>2. CASE Outcome \in {ProtocolError, ForceStopped}
      BY <2>1, <2>2 DEF IInv, ClosedInv
    <2>3. CASE Outcome \notin {ProtocolError, ForceStopped}
      <3>1. /\ ~protocolFailed /\ pendingTerminal # NoTerminal
            /\ stopReceived /\ exitcode = "ok" /\ Outcome = pendingTerminal
        BY <2>3 DEF IInv, ClosedInv, ProtocolInv, _terminal_after_exit
      <3>2. read = Len(sent)
        BY <3>1 DEF IInv, ChannelInv, ProtocolInv
      <3> QED
        BY <3>1, <3>2, BelievedIsWhole DEF IInv, ClosedInv, ProtocolInv
    <2> QED
      BY <2>2, <2>3
  <1> QED
    BY <1>1, Invariance, PTL

\* A worker that ended in good order is always believed, if its queue was read.
THEOREM BeliefIsComplete == Spec => []CleanExitBelieved
  <1>1. IInv => CleanExitBelieved
    <2> SUFFICES ASSUME IInv, stopped, exitcode = "ok", WellFormed, ~broken
                 PROVE  events = sent
      BY DEF CleanExitBelieved
    <2> DEFINE n == Len(sent)
    <2>1. n \in Nat /\ n >= 2 /\ read = n /\ Shown \in Nat
      BY ShownType DEF IInv, ChannelInv, WellFormed, TypeOK
    <2>2. \A i \in 1 .. n - 2 : sent[i].kind \notin TERMINAL_KINDS /\ sent[i].kind # "stopped"
                                /\ sent[i].kind \in PAYLOAD_KINDS
      BY DEF WellFormed, PayloadKinds, PAYLOAD_KINDS, TERMINAL_KINDS
    <2>3. sent[n].kind = "stopped" /\ sent[n - 1].kind \in TERMINAL_KINDS
          /\ sent[n - 1].kind # "stopped" /\ sent[n - 1].kind \in PAYLOAD_KINDS
      BY DEF WellFormed, TERMINAL_KINDS, PAYLOAD_KINDS
    <2>4. ~Violated(read)
      <3> SUFFICES ASSUME NEW i \in 1 .. n,
                          IF sent[i].kind = "stopped"
                          THEN \/ \A j \in 1 .. i - 1 : sent[j].kind \notin TERMINAL_KINDS
                               \/ \E j \in 1 .. i - 1 : sent[j].kind = "stopped"
                          ELSE \/ sent[i].kind \notin PAYLOAD_KINDS
                               \/ \E j \in 1 .. i - 1 : sent[j].kind \in TERMINAL_KINDS
                   PROVE  FALSE
        BY <2>1 DEF Violated, Breaks
      <3>1. CASE i = n
        <4>1. n - 1 \in 1 .. i - 1 /\ \A j \in 1 .. i - 1 : j \in 1 .. n - 2 \/ j = n - 1
          BY <2>1, <3>1
        <4> QED
          BY <2>2, <2>3, <3>1, <4>1
      <3>2. CASE i # n
        <4>1. \A j \in 1 .. i - 1 : j \in 1 .. n - 2
          BY <2>1, <3>2
        <4>2. sent[i].kind # "stopped" /\ sent[i].kind \in PAYLOAD_KINDS
          <5>1. i \in 1 .. n - 2 \/ i = n - 1
            BY <2>1, <3>2
          <5> QED
            BY <2>2, <2>3, <5>1
        <4> QED
          BY <2>2, <4>1, <4>2
      <3> QED
        BY <3>1, <3>2
    <2>5. ~protocolFailed
      BY <2>4 DEF IInv, ProtocolInv
    <2>6. pendingTerminal # NoTerminal
      <3>1. n - 1 \in 1 .. n
        BY <2>1
      <3> QED
        BY <2>1, <2>3, <2>5, <3>1
           DEF IInv, ProtocolInv, FaithfulPrefix, PayloadKinds, TERMINAL_KINDS
    <2>7. stopReceived
      <3> SUFFICES ASSUME ~stopReceived PROVE FALSE
        OBVIOUS
      <3>1. sent[n].kind \in TERMINAL_KINDS
        BY <2>1, <2>5, <2>6 DEF IInv, ProtocolInv
      <3> QED
        BY <2>3, <3>1 DEF TERMINAL_KINDS
    <2>8. Outcome = pendingTerminal
      BY <2>5, <2>6, <2>7 DEF IInv, ClosedInv, _terminal_after_exit
    <2> QED
      BY <2>1, <2>5, <2>6, <2>7, <2>8, BelievedIsWhole
  <1> QED
    BY <1>1, Invariance, PTL

\* A job with a project file shows no checkpoint that is ahead of the file.
THEOREM ShownIsDurable == Spec => []ShownCheckpointIsSaved
  <1>1. IInv => ShownCheckpointIsSaved
    <2> SUFFICES ASSUME IInv, checkpointPath,
                        NEW i \in 1 .. Len(events), events[i].kind = "checkpoint"
                 PROVE  events[i].no <= saved
      BY DEF ShownCheckpointIsSaved
    <2>1. CASE i \in 1 .. Shown
      <3>1. i \in 1 .. Len(sent) /\ events[i] = sent[i]
        BY <2>1 DEF IInv, ProtocolInv, FaithfulPrefix, ChannelInv, TypeOK, Shown
      <3> QED
        BY <3>1 DEF IInv, SavedInv
    <2>2. CASE i \notin 1 .. Shown
      <3>1. stopped /\ (i = Len(events) - 1 \/ i = Len(events))
        BY <2>2 DEF Shown, IInv, TypeOK
      <3>2. events[Len(events)].kind = "stopped"
        BY <3>1 DEF IInv, ClosedInv, Stopped, Message
      <3>3. Outcome.kind # "checkpoint"
        BY <3>1 DEF IInv, ClosedInv, ProtocolInv, _terminal_after_exit, ProtocolError,
                    ForceStopped, Message, TERMINAL_KINDS
      <3> QED
        BY <3>1, <3>2, <3>3 DEF Outcome
    <2> QED
      BY <2>1, <2>2
  <1> QED
    BY <1>1, Invariance, PTL

\* "Stopped by force" is reported only to an owner that asked for it.
THEOREM ForceIsRequested == Spec => []ForcedOnlyOnRequest
  <1>1. IInv => ForcedOnlyOnRequest
    <2> SUFFICES ASSUME IInv, stopped, Outcome = ForceStopped
                 PROVE  forceRequested /\ ~protocolFailed
      BY DEF ForcedOnlyOnRequest
    <2>1. ForceStopped # ProtocolError /\ ForceStopped \notin Messages
      BY DEF ForceStopped, ProtocolError, Message, Messages, FromParent
    <2>2. ~protocolFailed
      BY <2>1 DEF IInv, ClosedInv, ProtocolInv, _terminal_after_exit
    <2>3. forceStarted
      BY <2>1, <2>2 DEF IInv, TypeOK, ClosedInv, _terminal_after_exit
    <2> QED
      BY <2>2, <2>3 DEF IInv, ProtocolInv
  <1> QED
    BY <1>1, Invariance, PTL

\* The process, the queue and the polling together implement the abstract
\* event stream: every step is one of its steps or changes nothing it shows.
THEOREM Refinement == Spec => ImplementsEventStream
  <1>1. Init => Stream!Init
    BY DEF Init, Stream!Init
  <1>2. IInv /\ IInv' /\ [Next]_vars => [Stream!Next]_(Stream!svars)
    <2> SUFFICES ASSUME IInv, IInv', [Next]_vars
                 PROVE  Stream!Next \/ UNCHANGED <<sent, events, stopped>>
      BY DEF Stream!svars
    <2> DEFINE Payloads == {m \in Messages : m.kind \in PayloadKinds}
               Terminals == {m \in Messages : m.kind \in TERMINAL_KINDS}
    <2>1. CASE WorkerNext \/ Faults
      <3>1. UNCHANGED <<events, stopped>> /\ ~stopped
        BY <2>1, Frames, WorkerGrows DEF IInv, ChannelInv
      <3>2. ASSUME NEW m, sent' = Append(sent, m)
            PROVE  m \in Payloads \cup Terminals \cup {Refused} \cup {Stopped}
        <4>1. Len(sent') = Len(sent) + 1 /\ sent'[Len(sent) + 1] = m
          BY <3>2 DEF IInv, TypeOK
        <4>2. m \in Messages /\ (m.kind = "stopped" => m = Stopped) /\ (m.kind = "unknown" => m = Refused)
          BY <4>1 DEF IInv, TypeOK, SavedInv
        <4>3. m.kind \in PayloadKinds \cup TERMINAL_KINDS \cup {"stopped", "unknown"}
          BY <4>2, JobAssumption DEF Messages, TERMINAL_KINDS
        <4> QED
          BY <4>2, <4>3
      <3> QED
        BY <2>1, <3>1, <3>2, WorkerGrows DEF IInv, Stream!Next, Stream!Produce
    <2>2. CASE AcceptPayload
      <3>1. ~stopped /\ UNCHANGED <<sent, stopped>> /\ events' = Append(events, sent[read + 1])
            /\ sent[read + 1].kind \in PayloadKinds /\ pendingTerminal = NoTerminal
            /\ ~protocolFailed /\ read < flushed
        BY <2>2 DEF AcceptPayload, OutOfOrder, PayloadKinds, IInv, ChannelInv
      <3>2. Len(events) = read /\ read < Len(sent) /\ sent[read + 1] \in Messages
        BY <3>1 DEF IInv, ProtocolInv, ChannelInv, Shown, TypeOK
      <3> QED
        BY <3>1, <3>2 DEF Stream!Next, Stream!Show
    <2>3. CASE Settle
      <3>1. ~stopped /\ stopped' /\ UNCHANGED <<sent, read, pendingTerminal, protocolFailed, stopReceived, exitcode>>
            /\ events' = Append(Append(events, _terminal_after_exit), Stopped)
            /\ (read = flushed \/ protocolFailed)
        BY <2>3 DEF Settle, IInv, ChannelInv, ProtocolInv
      <3>2. CASE _terminal_after_exit \in {ProtocolError, ForceStopped}
        BY <3>1, <3>2 DEF Stream!Next, Stream!CloseUnbelieved
      <3>3. CASE _terminal_after_exit \notin {ProtocolError, ForceStopped}
        <4>1. /\ ~protocolFailed /\ pendingTerminal # NoTerminal /\ stopReceived
              /\ exitcode = "ok" /\ _terminal_after_exit = pendingTerminal
          BY <3>3 DEF IInv, ProtocolInv, _terminal_after_exit
        <4>2. Shown = Len(events) /\ read = Len(events) + 2 /\ Len(sent) = read
              /\ sent[Len(events) + 1] = pendingTerminal /\ sent[Len(events) + 2] = Stopped
              /\ pendingTerminal.kind \in TERMINAL_KINDS
          BY <3>1, <4>1 DEF IInv, ProtocolInv, ChannelInv, Shown
        <4>3. sent[Len(events) + 1] \in Terminals
          BY <4>2 DEF IInv, TypeOK
        <4>5. events' = sent'
          <5>1. Len(events') = Len(sent) /\ events' \in Seq(Messages \cup {ProtocolError, ForceStopped})
                /\ sent \in Seq(Messages) /\ Len(events) \in Nat
            BY <3>1, <4>2 DEF IInv, TypeOK
          <5>2. ASSUME NEW i \in 1 .. Len(sent) PROVE events'[i] = sent[i]
            <6>1. CASE i <= Len(events)
              BY <3>1, <4>2, <6>1 DEF IInv, ProtocolInv, FaithfulPrefix, TypeOK
            <6>2. CASE i = Len(events) + 1
              BY <3>1, <4>1, <4>2, <6>2 DEF IInv, TypeOK
            <6>3. CASE i = Len(events) + 2
              BY <3>1, <4>2, <6>3 DEF IInv, TypeOK
            <6> QED
              BY <4>2, <5>1, <6>1, <6>2, <6>3
          <5> QED
            BY <3>1, <5>1, <5>2
        <4> QED
          BY <3>1, <4>2, <4>3, <4>5 DEF Stream!Next, Stream!CloseBelieved
      <3> QED
        BY <3>2, <3>3
    <2>4. CASE ~(WorkerNext \/ Faults) /\ ~AcceptPayload /\ ~Settle
      BY <2>4 DEF Next, Feed, PollNext, Calls, FeedWhole, FeedBegin, FeedEnd,
           PollBegin, AcceptNothing, RejectMessage, _fail_protocol,
           AcceptStopped, AcceptTerminal, DrainEmpty, DrainFails,
           _advance_force_stop, FinishExited, GraceOver, Pause, Resume, SkipStage,
           Cancel, ForceStop, Close
    <2> QED
      BY <2>1, <2>2, <2>3, <2>4
  <1> QED
    BY <1>1, <1>2, Invariance, PTL DEF Spec, ImplementsEventStream, Stream!Spec
=============================================================================
