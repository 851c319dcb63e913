--------------------------- MODULE OperationJob ---------------------------
(***************************************************************************)
(* One background operation of services/workers.py: a spawned worker       *)
(* process, the multiprocessing queue it reports through, and the parent's *)
(* OperationJob that polls the queue and validates the event protocol.     *)
(*                                                                         *)
(* The queue is a window on the worker's message log: everything the       *)
(* worker has put is "sent", positions up to "flushed" have been written   *)
(* to the pipe by the queue's feeder thread, positions up to "read" have   *)
(* been taken by the parent.  What lies between flushed and Len(sent) is   *)
(* in the worker's memory and dies with it.                                *)
(***************************************************************************)
EXTENDS Integers, Sequences

CONSTANTS
    Result,         \* terminal kind of a successful worker
    MaxPayloads,    \* bound: progress and checkpoint messages of one worker
    PipeCapacity,   \* bound: messages the pipe holds before a write blocks
    LargePayloads,  \* may a checkpoint or result exceed one pipe write?
    MaxFaults       \* bound: SIGINTs, crashes, failed saves and reads, refused messages

ASSUME JobAssumption ==
    /\ Result \in {"fit_result", "mcmc_result"}
    /\ MaxPayloads \in Nat
    /\ PipeCapacity \in Nat \ {0}
    /\ LargePayloads \in BOOLEAN
    /\ MaxFaults \in Nat

VARIABLES
    \* the worker process
    wpc, sent, made, saved, exitcode,
    checkpointPath, \* was the request given a project file to save to?
    faults,
    \* the queue and the shared events
    flushed, torn, cancellation, pause, skip,
    \* the parent's OperationJob
    ppc, read, broken, pendingTerminal, protocolFailed, stopReceived, stopped,
    forceStarted, forceRequested, grace, signal, closed, events

workerVars == <<wpc, sent, made, saved, exitcode, checkpointPath>>
channelVars == <<flushed, torn>>
controlVars == <<cancellation, pause, skip>>
protocolVars == <<pendingTerminal, protocolFailed, stopReceived, stopped, events>>
forceVars == <<forceStarted, forceRequested, grace, signal>>
vars == <<workerVars, faults, channelVars, controlVars, ppc, read, broken, protocolVars,
          forceVars, closed>>

-----------------------------------------------------------------------------
(* Messages and events. "no" numbers a checkpoint; FromParent marks the    *)
(* two terminals the parent makes up itself. Refused stands for a message   *)
(* that is no pair, or of no known kind, or with a payload OperationEvent   *)
(* does not take.                                                          *)

FromParent == -1

TERMINAL_KINDS == {"fit_result", "mcmc_result", "cancelled", "error"}
PayloadKinds == {"progress", "checkpoint"}
PAYLOAD_KINDS == PayloadKinds \cup TERMINAL_KINDS \cup {"stopped"}

Message(kind, no) == [kind |-> kind, no |-> no]
ProtocolError == Message("error", FromParent)
ForceStopped == Message("cancelled", FromParent)
Stopped == Message("stopped", 0)
Refused == Message("unknown", 0)
NoTerminal == Message("none", 0)

Alive == exitcode = "none"
IsRunning == ~stopped

\* A message the feeder cannot hand to the pipe in one write.
Large(m) == LargePayloads /\ m.kind \in {"checkpoint", Result}

Init ==
    /\ wpc = "work" /\ sent = <<>> /\ exitcode = "none" /\ faults = 0
    /\ checkpointPath \in BOOLEAN /\ made = 0 /\ saved = 0
    /\ flushed = 0 /\ torn = FALSE
    /\ cancellation = FALSE /\ pause = FALSE /\ skip = FALSE
    /\ ppc = "idle" /\ read = 0 /\ broken = FALSE
    /\ pendingTerminal = NoTerminal /\ protocolFailed = FALSE
    /\ stopReceived = FALSE /\ stopped = FALSE /\ events = <<>>
    /\ forceStarted = FALSE /\ forceRequested = FALSE
    /\ grace = "none" /\ signal = "none"
    /\ closed = FALSE

-----------------------------------------------------------------------------
(* The worker process: _run_fit_worker and its two siblings.               *)

ParentUnchanged == UNCHANGED <<ppc, read, broken, protocolVars, forceVars, closed>>

Goto(pc) ==
    /\ wpc' = pc
    /\ UNCHANGED <<exitcode, checkpointPath, channelVars>> /\ ParentUnchanged

Put(m, pc) ==
    /\ sent' = Append(sent, m)
    /\ UNCHANGED <<made, saved, controlVars>>
    /\ Goto(pc)

Fault == faults < MaxFaults /\ faults' = faults + 1

WorkerProgress ==
    /\ Alive /\ wpc = "work" /\ Len(sent) < MaxPayloads
    /\ Put(Message("progress", 0), "work")
    /\ UNCHANGED faults

\* The handler calls checkpoint() with its next snapshot of the project.
NextSnapshot ==
    /\ Alive /\ wpc = "work" /\ Result = "fit_result"
    /\ made < MaxPayloads /\ Len(sent) < MaxPayloads
    /\ made' = made + 1
    /\ UNCHANGED <<sent, controlVars>>

\* Mutant: the snapshot is on its way to the queue before it is saved.
BugPublishUnsaved ==
    /\ NextSnapshot
    /\ UNCHANGED <<saved, faults>>
    /\ Goto("publish")

\* A request with a project file has the snapshot written there first ...
WorkerSaveCheckpoint ==
    /\ NextSnapshot
    /\ saved' = IF checkpointPath THEN made + 1 ELSE saved
    /\ UNCHANGED faults
    /\ Goto("publish")

\* ... and one that cannot be written, or is written and then fails to settle,
\* is never published: save_project raises into the handler.
WorkerSaveFails ==
    /\ NextSnapshot /\ checkpointPath /\ Fault
    /\ saved' \in {saved, made + 1}
    /\ Goto("work")

\* Only then is the snapshot put on the queue.
WorkerPutCheckpoint ==
    /\ Alive /\ wpc = "publish"
    /\ Put(Message("checkpoint", made), "work")
    /\ UNCHANGED faults

\* The handler's probe: cancellation first, then one skip, then the pause.
WorkerHearCancel ==
    /\ Alive /\ wpc \in {"work", "parked"} /\ cancellation
    /\ Put(Message("cancelled", 0), "terminal")
    /\ UNCHANGED faults

WorkerConsumeSkip ==
    /\ Alive /\ wpc \in {"work", "parked"} /\ ~cancellation /\ skip
    /\ skip' = FALSE
    /\ Goto("work")
    /\ UNCHANGED <<sent, made, saved, faults, cancellation, pause>>

WorkerPark ==
    /\ Alive /\ ~cancellation /\ ~skip
    /\ \/ wpc = "work" /\ pause /\ Goto("parked")
       \/ wpc = "parked" /\ ~pause /\ Goto("work")
    /\ UNCHANGED <<sent, made, saved, faults, controlVars>>

\* The handler returns a result or raises an ordinary exception.
WorkerReturn ==
    /\ Alive /\ wpc = "work"
    /\ \/ Put(Message(Result, 0), "terminal")
       \/ Put(Message("error", 0), "except")
    /\ UNCHANGED faults

\* finally: _put(queue, "stopped", None)
WorkerPutStopped ==
    /\ Alive /\ wpc \in {"terminal", "except"}
    /\ Put(Stopped, "exit")
    /\ UNCHANGED faults

\* The interpreter joins the feeder thread before the process ends.
WorkerExit ==
    /\ Alive /\ wpc \in {"exit", "failing"} /\ flushed = Len(sent)
    /\ exitcode' = IF wpc = "exit" THEN "ok" ELSE "failed"
    /\ UNCHANGED <<wpc, sent, made, saved, faults, checkpointPath, channelVars, controlVars>>
    /\ ParentUnchanged

\* KeyboardInterrupt inside the try: except BaseException reports an error,
\* even when a terminal is already on the queue.
InterruptBody ==
    /\ Alive /\ wpc \in {"work", "parked", "publish", "terminal"} /\ Fault
    /\ Put(Message("error", 0), "except")

\* KeyboardInterrupt past the try: while the except clause formats an error it
\* has not put yet or has just put (the finally still runs), in the finally,
\* or in the interpreter's exit.
InterruptEnding ==
    /\ Alive /\ Fault
    /\ \/ wpc \in {"work", "except"} /\ Put(Stopped, "failing")
       \/ wpc \in {"except", "exit"} /\ Goto("failing") /\ UNCHANGED <<sent, made, saved, controlVars>>

\* A callback or the handler's end puts what the parent's checks refuse.
WorkerPutsRefused ==
    /\ Alive /\ wpc = "work" /\ Fault
    /\ \/ Len(sent) < MaxPayloads /\ Put(Refused, "work")
       \/ Put(Refused, "terminal")

\* The process dies at any point: a signal of the parent, or a crash.
WorkerDies ==
    /\ Alive
    /\ IF signal # "none" THEN UNCHANGED faults ELSE Fault
    /\ exitcode' = "signalled"
    /\ UNCHANGED <<wpc, sent, made, saved, checkpointPath, channelVars, controlVars>>
    /\ ParentUnchanged

-----------------------------------------------------------------------------
(* The queue's feeder thread, which lives in the worker.                   *)

CanFeed == Alive /\ ~torn /\ flushed < Len(sent) /\ flushed - read < PipeCapacity

FeedWhole ==
    /\ CanFeed /\ ~Large(sent[flushed + 1])
    /\ flushed' = flushed + 1
    /\ UNCHANGED <<workerVars, faults, torn, controlVars>> /\ ParentUnchanged

FeedBegin ==
    /\ CanFeed /\ Large(sent[flushed + 1])
    /\ torn' = TRUE
    /\ UNCHANGED <<workerVars, faults, flushed, controlVars>> /\ ParentUnchanged

\* The rest of a large message fits only while the parent is receiving it.
FeedEnd ==
    /\ Alive /\ torn
    /\ ppc \in {"drain", "redrain"} /\ read = flushed
    /\ torn' = FALSE
    /\ flushed' = flushed + 1
    /\ UNCHANGED <<workerVars, faults, controlVars>> /\ ParentUnchanged

-----------------------------------------------------------------------------
(* The parent: poll() one queue operation at a time, so that the worker    *)
(* can move between the drain, the liveness test and the second drain.     *)

WorkerUnchanged == UNCHANGED <<workerVars, faults, channelVars, controlVars>>
Draining == ppc \in {"drain", "redrain"}

\* Mutant: poll() reads the queue only after the process has exited.
BugLateDrain ==
    /\ ppc = "idle" /\ ~closed /\ IsRunning
    /\ ppc' = "advance"
    /\ UNCHANGED <<read, broken, protocolVars, forceVars, closed>>
    /\ WorkerUnchanged

PollBegin ==
    /\ ppc = "idle" /\ ~closed /\ IsRunning
    /\ ppc' = "drain"
    /\ UNCHANGED <<read, broken, protocolVars, forceVars, closed>>
    /\ WorkerUnchanged

\* get_nowait() returns the next whole message.
Take ==
    /\ Draining /\ read < flushed
    /\ read' = read + 1
    /\ UNCHANGED <<ppc, broken, closed>>
    /\ WorkerUnchanged

Incoming == sent[read + 1]
AfterDrain == IF ppc = "drain" THEN "advance" ELSE "settle"

\* Mutant: the second drain blocks until it has seen "stopped".
BugBlockingDrain ==
    /\ Draining /\ read = flushed /\ ~torn
    /\ ppc = "redrain" => stopReceived
    /\ ppc' = AfterDrain
    /\ UNCHANGED <<read, broken, protocolVars, forceVars, closed>>
    /\ WorkerUnchanged

\* get_nowait() raises Empty: the drain is over. With a torn message in the
\* pipe it does neither: it waits for the rest.
DrainEmpty ==
    /\ Draining /\ read = flushed /\ ~torn
    /\ ppc' = AfterDrain
    /\ UNCHANGED <<read, broken, protocolVars, forceVars, closed>>
    /\ WorkerUnchanged

Terminate == IF signal = "none" THEN "term" ELSE signal

\* Mutant: a terminal that was already accepted survives the failure.
BugKeepTerminal ==
    /\ protocolFailed' = TRUE
    /\ pendingTerminal' = IF pendingTerminal = NoTerminal THEN ProtocolError ELSE pendingTerminal
    /\ UNCHANGED <<stopReceived, stopped, events, forceVars>>

_fail_protocol ==
    /\ protocolFailed' = TRUE
    /\ pendingTerminal' = ProtocolError
    /\ IF Alive
       THEN /\ forceStarted' = TRUE
            /\ grace' = IF forceStarted THEN grace ELSE "running"
            /\ signal' = Terminate
       ELSE UNCHANGED <<forceStarted, grace, signal>>
    /\ UNCHANGED <<stopReceived, stopped, events, forceRequested>>

\* get_nowait() raises EOFError or OSError: the protocol has failed and the
\* drain is over, whatever is still in the pipe.
DrainFails ==
    /\ Draining /\ Fault
    /\ broken' = TRUE
    /\ ppc' = AfterDrain
    /\ _fail_protocol
    /\ UNCHANGED <<read, closed, workerVars, channelVars, controlVars>>

\* After a protocol failure every further message is ignored.
AcceptNothing ==
    /\ Take /\ protocolFailed
    /\ UNCHANGED <<protocolVars, forceVars>>

OutOfOrder(m) ==
    IF m.kind = "stopped" THEN pendingTerminal = NoTerminal \/ stopReceived
                          ELSE pendingTerminal # NoTerminal

\* A message the checks refuse for what it is, or for where it stands.
RejectMessage ==
    /\ Take /\ ~protocolFailed
    /\ Incoming.kind \notin PAYLOAD_KINDS \/ OutOfOrder(Incoming)
    /\ _fail_protocol

AcceptStopped ==
    /\ Take /\ ~protocolFailed
    /\ Incoming.kind = "stopped" /\ ~OutOfOrder(Incoming)
    /\ stopReceived' = TRUE
    /\ UNCHANGED <<pendingTerminal, protocolFailed, stopped, events, forceVars>>

\* Mutant: a terminal is shown at once instead of being held back.
BugEarlyTerminal ==
    /\ Take /\ ~protocolFailed
    /\ Incoming.kind \in TERMINAL_KINDS /\ ~OutOfOrder(Incoming)
    /\ pendingTerminal' = Incoming
    /\ events' = Append(events, Incoming)
    /\ UNCHANGED <<protocolFailed, stopReceived, stopped, forceVars>>

\* A terminal is held back until the process has exited.
AcceptTerminal ==
    /\ Take /\ ~protocolFailed
    /\ Incoming.kind \in TERMINAL_KINDS /\ ~OutOfOrder(Incoming)
    /\ pendingTerminal' = Incoming
    /\ UNCHANGED <<protocolFailed, stopReceived, stopped, events, forceVars>>

AcceptPayload ==
    /\ Take /\ ~protocolFailed
    /\ Incoming.kind \in PayloadKinds /\ ~OutOfOrder(Incoming)
    /\ events' = Append(events, Incoming)
    /\ UNCHANGED <<pendingTerminal, protocolFailed, stopReceived, stopped, forceVars>>

\* Mutant: SIGTERM is never followed by SIGKILL.
BugNoKill ==
    /\ ppc = "advance"
    /\ ppc' = "finish"
    /\ UNCHANGED <<signal, read, broken, protocolVars, forceStarted, forceRequested, grace, closed>>
    /\ WorkerUnchanged

_advance_force_stop ==
    /\ ppc = "advance"
    /\ ppc' = "finish"
    /\ signal' = IF forceStarted /\ Alive /\ grace = "over" THEN "kill" ELSE signal
    /\ UNCHANGED <<read, broken, protocolVars, forceStarted, forceRequested, grace, closed>>
    /\ WorkerUnchanged

\* FORCE_KILL_AFTER_SECONDS have passed since the first terminate().
GraceOver ==
    /\ grace = "running"
    /\ grace' = "over"
    /\ UNCHANGED <<ppc, read, broken, protocolVars, forceStarted, forceRequested, signal, closed>>
    /\ WorkerUnchanged

\* Mutant: no second drain after the exit was seen.
BugNoSecondDrain ==
    /\ ppc = "finish"
    /\ ppc' = IF Alive THEN "idle" ELSE "settle"
    /\ UNCHANGED <<read, broken, protocolVars, forceVars, closed>>
    /\ WorkerUnchanged

\* Mutant: a worker that never said "stopped" is waited for.
BugWaitForStopped ==
    /\ ppc = "finish"
    /\ ppc' = IF Alive \/ ~stopReceived THEN "idle" ELSE "redrain"
    /\ UNCHANGED <<read, broken, protocolVars, forceVars, closed>>
    /\ WorkerUnchanged

\* _finish_exited: nothing to do while the process lives, else drain again.
FinishExited ==
    /\ ppc = "finish"
    /\ ppc' = IF Alive THEN "idle" ELSE "redrain"
    /\ UNCHANGED <<read, broken, protocolVars, forceVars, closed>>
    /\ WorkerUnchanged

\* Mutants: no substitute for a missing terminal; a terminal believed without
\* "stopped"; a forced stop that hides what the worker reported.
BugNoSubstitute == pendingTerminal

BugBelieveTorn ==
    IF pendingTerminal = NoTerminal
    THEN IF forceStarted THEN ForceStopped ELSE ProtocolError
    ELSE pendingTerminal

BugForceHides == IF forceStarted THEN ForceStopped
                 ELSE IF pendingTerminal = NoTerminal THEN ProtocolError
                 ELSE pendingTerminal

_terminal_after_exit ==
    IF protocolFailed THEN pendingTerminal
    ELSE IF pendingTerminal = NoTerminal
         THEN IF forceStarted THEN ForceStopped ELSE ProtocolError
    ELSE IF ~stopReceived \/ exitcode # "ok" THEN ProtocolError
    ELSE pendingTerminal

Settle ==
    /\ ppc = "settle"
    /\ ppc' = "idle"
    /\ events' = Append(Append(events, _terminal_after_exit), Stopped)
    /\ stopped' = TRUE
    /\ UNCHANGED <<read, broken, pendingTerminal, protocolFailed, stopReceived, forceVars, closed>>
    /\ WorkerUnchanged

-----------------------------------------------------------------------------
(* Calls of the owner, between polls.                                      *)

CallUnchanged ==
    UNCHANGED <<workerVars, faults, channelVars, ppc, read, broken, protocolVars>>

Pause ==
    /\ ppc = "idle" /\ IsRunning
    /\ pause' = TRUE
    /\ UNCHANGED <<cancellation, skip, forceVars, closed>> /\ CallUnchanged

Resume ==
    /\ ppc = "idle"
    /\ pause' = FALSE
    /\ UNCHANGED <<cancellation, skip, forceVars, closed>> /\ CallUnchanged

SkipStage ==
    /\ ppc = "idle" /\ IsRunning
    /\ skip' = TRUE
    /\ UNCHANGED <<cancellation, pause, forceVars, closed>> /\ CallUnchanged

Cancel ==
    /\ ppc = "idle"
    /\ pause' = FALSE
    /\ cancellation' = (cancellation \/ IsRunning)
    /\ UNCHANGED <<skip, forceVars, closed>> /\ CallUnchanged

ForceStop ==
    /\ ppc = "idle" /\ IsRunning /\ ~forceStarted
    /\ cancellation' = TRUE
    /\ forceStarted' = TRUE /\ forceRequested' = TRUE
    /\ grace' = "running"
    /\ signal' = IF Alive THEN Terminate ELSE signal
    /\ UNCHANGED <<pause, skip, closed>> /\ CallUnchanged

Close ==
    /\ ppc = "idle" /\ ~IsRunning /\ ~closed
    /\ closed' = TRUE
    /\ UNCHANGED <<controlVars, forceVars>> /\ CallUnchanged

-----------------------------------------------------------------------------
WorkerNext ==
    \/ WorkerProgress \/ WorkerSaveCheckpoint \/ WorkerPutCheckpoint
    \/ WorkerHearCancel \/ WorkerConsumeSkip \/ WorkerPark
    \/ WorkerReturn \/ WorkerPutStopped \/ WorkerExit

Faults ==
    \/ InterruptBody \/ InterruptEnding \/ WorkerSaveFails \/ WorkerPutsRefused
    \/ WorkerDies

Feed == FeedWhole \/ FeedBegin \/ FeedEnd

PollNext ==
    \/ PollBegin
    \/ AcceptNothing \/ RejectMessage \/ AcceptStopped \/ AcceptTerminal \/ AcceptPayload
    \/ DrainEmpty \/ _advance_force_stop \/ FinishExited \/ Settle

Calls == Pause \/ Resume \/ SkipStage \/ Cancel \/ ForceStop \/ Close

Next == WorkerNext \/ Faults \/ Feed \/ PollNext \/ DrainFails \/ GraceOver \/ Calls

Spec == Init /\ [][Next]_vars

\* What may always be relied on: the owner's timer keeps polling, the clock
\* advances and SIGKILL is obeyed.  The worker may hang, nothing is assumed of
\* SIGTERM, and a read of the queue is not assumed to fail.
ParentFairness ==
    /\ WF_vars(PollNext)
    /\ WF_vars(GraceOver)
    /\ WF_vars(signal = "kill" /\ WorkerDies)

HungSpec == Spec /\ ParentFairness

\* A worker that does not hang is scheduled, and so is its feeder. The owner's
\* calls and the faults are never assumed.
WorkerFairness == WF_vars(WorkerNext) /\ WF_vars(Feed)

FairSpec == HungSpec /\ WorkerFairness

-----------------------------------------------------------------------------
Messages ==
    [kind : PayloadKinds \cup {Result, "cancelled", "error", "stopped", "unknown"}, no : 0 .. MaxPayloads]

TypeOK ==
    /\ wpc \in {"work", "publish", "parked", "terminal", "except", "exit", "failing"}
    /\ sent \in Seq(Messages)
    /\ made \in Nat /\ saved \in Nat /\ faults \in Nat /\ checkpointPath \in BOOLEAN
    /\ exitcode \in {"none", "ok", "failed", "signalled"}
    /\ flushed \in Nat /\ torn \in BOOLEAN
    /\ cancellation \in BOOLEAN /\ pause \in BOOLEAN /\ skip \in BOOLEAN
    /\ ppc \in {"idle", "drain", "advance", "finish", "redrain", "settle"}
    /\ read \in Nat /\ broken \in BOOLEAN
    /\ pendingTerminal \in Messages \cup {NoTerminal, ProtocolError}
    /\ protocolFailed \in BOOLEAN /\ stopReceived \in BOOLEAN /\ stopped \in BOOLEAN
    /\ forceStarted \in BOOLEAN /\ forceRequested \in BOOLEAN
    /\ grace \in {"none", "running", "over"} /\ signal \in {"none", "term", "kill"}
    /\ closed \in BOOLEAN
    /\ events \in Seq(Messages \cup {ProtocolError, ForceStopped})

\* Events shown before the terminal and the final "stopped".
Shown == IF stopped THEN Len(events) - 2 ELSE Len(events)
Outcome == events[Len(events) - 1]

\* What the owner sees is exactly a prefix of what the worker put, payloads
\* only, in the order it put them: no drop, no repeat, nothing made up
\* (OperationJob._accept_payload).
FaithfulPrefix ==
    /\ Shown <= read
    /\ \A i \in 1 .. Shown : events[i] = sent[i] /\ events[i].kind \in PayloadKinds

\* A stream closes with one terminal and "stopped"; a terminal the worker
\* itself produced is believed only if the owner was given the worker's whole
\* message log and the process then exited cleanly (_terminal_after_exit).
BelievedOnlyIfComplete ==
    stopped =>
        /\ Outcome.kind \in TERMINAL_KINDS
        /\ events[Len(events)] = Stopped
        /\ Outcome.no # FromParent => events = sent /\ exitcode = "ok"

\* A worker that put its terminal and "stopped" once and exited cleanly is
\* always believed, however its exit interleaves with a poll or a forced stop:
\* the second drain of _finish_exited loses nothing, unless the queue itself
\* could not be read.
WellFormed ==
    /\ Len(sent) >= 2
    /\ sent[Len(sent)].kind = "stopped"
    /\ sent[Len(sent) - 1].kind \in TERMINAL_KINDS
    /\ \A i \in 1 .. Len(sent) - 2 : sent[i].kind \in PayloadKinds

CleanExitBelieved == stopped /\ exitcode = "ok" /\ WellFormed /\ ~broken => events = sent

\* A job that was given a project file shows no checkpoint before the bytes of
\* that snapshot, or of a later one, are in the file: what its owner has seen
\* survives a crash of everything (checkpoint() in the workers).  A job without
\* one saves nothing.
ShownCheckpointIsSaved ==
    checkpointPath =>
        \A i \in 1 .. Len(events) : events[i].kind = "checkpoint" => events[i].no <= saved

\* A run is reported as stopped by force only if its owner asked for that; a
\* worker the parent killed for a protocol violation is an error.
ForcedOnlyOnRequest ==
    stopped /\ Outcome = ForceStopped => forceRequested /\ ~protocolFailed

\* The job implements the event stream its owners are written against.
Stream == INSTANCE EventStream WITH
    Payloads <- {m \in Messages : m.kind \in PayloadKinds},
    Terminals <- {m \in Messages : m.kind \in TERMINAL_KINDS},
    ParentOutcomes <- {ProtocolError, ForceStopped},
    End <- Stopped, Others <- {Refused},
    produced <- sent, shown <- events, over <- stopped

ImplementsEventStream == Stream!Spec

\* A cancelled job stops, even one that is parked in a pause, unless its worker
\* hangs.
CancellationStops == WorkerFairness => (cancellation ~> stopped)

\* A forced stop ends, even if the worker hangs and never obeys SIGTERM.
ForceStopEnds == forceStarted ~> stopped

\* However the worker ends, its owner is told.
ExitIsNoticed == ~Alive ~> stopped

\* poll() returns "without blocking": no poll waits for bytes that nobody is
\* left to write.
PollReturns == (ppc # "idle") ~> (ppc = "idle")
=============================================================================
