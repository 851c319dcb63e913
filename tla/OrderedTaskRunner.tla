-------------------------- MODULE OrderedTaskRunner --------------------------
(***************************************************************************)
(* services/parallel.py: one thread (the owner) runs batches of tasks on a *)
(* thread pool and collects them through a queue of finished positions,    *)
(* while another thread may call cancel().  A batch that raised leaves its *)
(* running tasks behind: they share the pool with the next batch.  An      *)
(* exception may also hit the owner itself (SIGINT, a thread that cannot   *)
(* be started) anywhere but inside _begin, _finish and close().            *)
(*                                                                         *)
(* Every batch has its own queue, kept as the log "finished" of the        *)
(* positions put so far; the owner has read the first "taken" of them.     *)
(***************************************************************************)
EXTENDS Integers, Sequences, FiniteSets

CONSTANTS
    Sizes,        \* the values max_workers may have
    N,            \* tasks of one batch
    MaxBatches,   \* bound: batches run before close()
    MaxCancels,   \* bound: calls of cancel()
    MaxInterrupts \* bound: exceptions that hit the owner itself

ASSUME RunnerAssumption ==
    /\ Sizes \subseteq Nat \ {0}
    /\ N \in Nat \ {0}
    /\ MaxBatches \in Nat \ {0}
    /\ MaxCancels \in Nat /\ MaxInterrupts \in Nat

VARIABLES
    max_workers,                                 \* threads; 1 means no pool at all
    opc, batch, at, outcome,                     \* the owner
    last,                                        \* length of its list of futures
    future, finished, taken,                     \* futures, positions put and read
    running, cancel_requested, active, closed,   \* the fields under the lock
    snapshot, cancels,                           \* cancel(): futures still to cancel
    interrupts, spared                           \* history: futures an exception spared

ownerVars == <<opc, batch, at, outcome>>
poolVars == <<future, finished>>
lockVars == <<running, cancel_requested, active, closed>>
cancelVars == <<snapshot, cancels>>
exitVars == <<last, interrupts, spared>>
vars == <<max_workers, ownerVars, poolVars, taken, lockVars, cancelVars, exitVars>>

Positions == 1..N
Batches == 1..MaxBatches
Inline == max_workers = 1

\* "told": observed_task has put its position but its future is not done yet.
Occupied == {"running", "told_value", "told_error"}
FutureStates == {"none", "pending", "value", "error", "cancelled"} \cup Occupied

Init ==
    /\ max_workers \in Sizes
    /\ opc = "idle" /\ batch = 0 /\ at = 0
    /\ outcome = [b \in Batches |-> "none"]
    /\ future = [b \in Batches |-> [i \in Positions |-> "none"]]
    /\ finished = [b \in Batches |-> <<>>] /\ taken = 0
    /\ running = FALSE /\ cancel_requested = FALSE /\ active = 0 /\ closed = FALSE
    /\ snapshot = {} /\ cancels = 0
    /\ last = N /\ interrupts = 0 /\ spared = [b \in Batches |-> {}]

-----------------------------------------------------------------------------
(* Futures and the pool's threads.                                         *)

SetFuture(b, i, state) == future' = [future EXCEPT ![b][i] = state]
PutPosition(b, i) == finished' = [finished EXCEPT ![b] = Append(@, i)]

\* Mutant: no done callback, so a cancelled future never reports.
BugSilentCancel(b, i) ==
    IF future[b][i] = "pending"
    THEN SetFuture(b, i, "cancelled") /\ UNCHANGED finished
    ELSE UNCHANGED poolVars

\* Future.cancel() and the done callback: only a pending future is cancelled,
\* and its position is put for the observed task that will never run.
CancelFuture(b, i) ==
    IF future[b][i] = "pending"
    THEN SetFuture(b, i, "cancelled") /\ PutPosition(b, i)
    ELSE UNCHANGED poolVars

Busy == {t \in Batches \X Positions : future[t[1]][t[2]] \in Occupied}

\* The executor's work queue holds the pending futures as they were submitted.
Queued == {t \in Batches \X Positions : future[t[1]][t[2]] = "pending"}
FirstQueued(b, i) ==
    /\ <<b, i>> \in Queued
    /\ \A t \in Queued : b < t[1] \/ (b = t[1] /\ i <= t[2])

\* Its threads start tasks in that order.
StartTask(b, i) ==
    /\ ~Inline /\ Cardinality(Busy) < max_workers
    /\ FirstQueued(b, i)
    /\ SetFuture(b, i, "running")
    /\ UNCHANGED <<ownerVars, finished, taken, lockVars, cancelVars>>

\* Mutant: the queue is the runner's, not the batch's: a task left behind by
\* an earlier batch reports to the one being run.
BugSharedQueue(b, i) ==
    /\ ~Inline /\ future[b][i] = "running"
    /\ \E state \in {"told_value", "told_error"} : SetFuture(b, i, state)
    /\ PutPosition(batch, i)
    /\ UNCHANGED <<ownerVars, taken, lockVars, cancelVars>>

\* observed_task: the finally clause puts the position ...
TellPosition(b, i) ==
    /\ ~Inline /\ future[b][i] = "running"
    /\ \E state \in {"told_value", "told_error"} : SetFuture(b, i, state)
    /\ PutPosition(b, i)
    /\ UNCHANGED <<ownerVars, taken, lockVars, cancelVars>>

\* ... and only then does the executor set the future's result.
SetResult(b, i) ==
    /\ \/ future[b][i] = "told_value" /\ SetFuture(b, i, "value")
       \/ future[b][i] = "told_error" /\ SetFuture(b, i, "error")
    /\ UNCHANGED <<ownerVars, finished, taken, lockVars, cancelVars>>

-----------------------------------------------------------------------------
(* The owner: run() with a pool.                                           *)

_begin ==
    /\ opc = "idle" /\ batch < MaxBatches
    /\ ~closed /\ ~running
    /\ running' = TRUE /\ cancel_requested' = FALSE
    /\ batch' = batch + 1 /\ at' = 0 /\ taken' = 0
    /\ opc' = IF Inline THEN "check" ELSE "submit"
    /\ last' = N
    /\ UNCHANGED <<max_workers, outcome, poolVars, active, closed, cancelVars,
                   interrupts, spared>>

Submit ==
    /\ opc = "submit" /\ at < N
    /\ SetFuture(batch, at + 1, "pending")
    /\ at' = at + 1
    /\ opc' = "register"
    /\ UNCHANGED <<batch, outcome, finished, taken, lockVars, cancelVars>>

AfterSubmit == IF at < N THEN "submit" ELSE "collect"

_register ==
    /\ opc = "register"
    /\ active' = at
    /\ opc' = IF cancel_requested THEN "drop" ELSE AfterSubmit
    /\ UNCHANGED <<batch, at, outcome, poolVars, taken, running, cancel_requested,
                   closed, cancelVars>>

\* The cancellation that _register read under the lock is applied after it.
DropSubmitted ==
    /\ opc = "drop"
    /\ CancelFuture(batch, at)
    /\ opc' = AfterSubmit
    /\ UNCHANGED <<batch, at, outcome, taken, lockVars, cancelVars>>

\* completed_positions.get() blocks until some task has reported.
Collect ==
    /\ opc = "collect" /\ taken < Len(finished[batch]) /\ taken < N
    /\ at' = finished[batch][taken + 1]
    /\ taken' = taken + 1
    /\ opc' = "result"
    /\ UNCHANGED <<batch, outcome, poolVars, lockVars, cancelVars>>

CollectedAll ==
    /\ opc = "collect" /\ taken = N
    /\ opc' = "return"
    /\ UNCHANGED <<batch, at, outcome, poolVars, taken, lockVars, cancelVars>>

\* Mutant: the remaining futures are left in the executor's queue.
BugRaiseAtOnce ==
    /\ opc = "result" /\ future[batch][at] \in {"value", "error", "cancelled"}
    /\ opc' = "raise"
    /\ UNCHANGED <<batch, at, outcome, poolVars, taken, lockVars, cancelVars>>

\* Mutant: a cancelled future counts as collected.
BugSwallowCancelled ==
    /\ opc = "result" /\ future[batch][at] \in {"value", "cancelled"}
    /\ opc' = "collect"
    /\ UNCHANGED <<batch, at, outcome, poolVars, taken, lockVars, cancelVars>>

\* future.result() waits until the future is done; it raises, or the callback
\* may raise, and then the futures that have not started are cancelled.
Result ==
    /\ opc = "result"
    /\ \/ /\ future[batch][at] = "value"
          /\ opc' = "collect" /\ UNCHANGED at
       \/ /\ future[batch][at] \in {"value", "error", "cancelled"}
          /\ opc' = "cancel" /\ at' = 1
    /\ UNCHANGED <<batch, outcome, poolVars, taken, lockVars, cancelVars>>

_cancel_pending ==
    /\ opc = "cancel"
    /\ CancelFuture(batch, at)
    /\ IF at < last THEN at' = at + 1 /\ UNCHANGED opc
                    ELSE opc' = "raise" /\ UNCHANGED at
    /\ UNCHANGED <<batch, outcome, taken, lockVars, cancelVars>>

_finish ==
    /\ opc \in {"return", "raise"}
    /\ active' = 0 /\ running' = FALSE /\ cancel_requested' = FALSE
    /\ outcome' = [outcome EXCEPT ![batch] = opc]
    /\ opc' = "idle"
    /\ UNCHANGED <<batch, at, poolVars, taken, closed, cancelVars>>

-----------------------------------------------------------------------------
(* The owner: run() without a pool.                                        *)

\* After the last task the loop ends without another look at the flag.
InlineCheck ==
    /\ opc = "check"
    /\ \/ /\ at = N
          /\ opc' = "return" /\ UNCHANGED at
       \/ /\ at < N /\ cancel_requested
          /\ opc' = "raise" /\ UNCHANGED at
       \/ /\ at < N /\ ~cancel_requested
          /\ opc' = "call" /\ at' = at + 1
    /\ UNCHANGED <<batch, outcome, poolVars, taken, lockVars, cancelVars>>

InlineStart ==
    /\ opc = "call" /\ future[batch][at] = "none"
    /\ SetFuture(batch, at, "running")
    /\ UNCHANGED <<ownerVars, finished, taken, lockVars, cancelVars>>

InlineReturn ==
    /\ opc = "call" /\ future[batch][at] = "running"
    /\ \/ /\ SetFuture(batch, at, "value") /\ PutPosition(batch, at)
          /\ taken' = taken + 1
          /\ opc' \in {"check", "raise"}   \* the callback may raise
       \/ /\ SetFuture(batch, at, "error") /\ PutPosition(batch, at)
          /\ UNCHANGED taken
          /\ opc' = "raise"
    /\ UNCHANGED <<batch, at, outcome, lockVars, cancelVars>>

-----------------------------------------------------------------------------
(* Exceptions that hit the owner's thread outside the tasks.               *)

Interrupt ==
    /\ interrupts < MaxInterrupts
    /\ interrupts' = interrupts + 1
    /\ UNCHANGED <<max_workers, batch, outcome, poolVars, taken, lockVars, cancelVars>>

\* Inside _submit_tasks: the futures listed so far are cancelled, but one that
\* was submitted and not yet appended is in the pool's queue for good.
InterruptSubmission ==
    /\ Interrupt
    /\ opc \in {"submit", "register", "drop", "collect"} /\ taken = 0
    /\ last' \in IF opc = "register" THEN {at - 1, at} ELSE {at}
    /\ spared' = [spared EXCEPT ![batch] = IF last' < at THEN @ \cup {at} ELSE @]
    /\ opc' = IF last' = 0 THEN "raise" ELSE "cancel"
    /\ at' = 1

\* In get() and around it, outside any try, or in _cancel_pending: run()
\* raises at once, and what is queued stays queued.
InterruptCollection ==
    /\ Interrupt
    /\ opc \in {"collect", "result", "cancel"}
    /\ opc' = "raise"
    /\ spared' = [spared EXCEPT ![batch] = Positions]
    /\ UNCHANGED <<at, last>>

\* In result() or in the callback, inside the try.
InterruptResult ==
    /\ Interrupt
    /\ opc = "result"
    /\ opc' = "cancel" /\ at' = 1
    /\ UNCHANGED <<last, spared>>

\* Between two inline tasks, or with every value collected.
InterruptIdlePool ==
    /\ Interrupt
    /\ opc \in {"check", "return"} \/ (opc = "call" /\ future[batch][at] = "none")
    /\ opc' = "raise"
    /\ UNCHANGED <<at, last, spared>>

Interrupts ==
    InterruptSubmission \/ InterruptCollection \/ InterruptResult \/ InterruptIdlePool

-----------------------------------------------------------------------------
(* cancel(), from another thread, and close(), by the owner's "with".      *)

\* Without a running batch the call returns at once.
Cancel ==
    /\ cancels < MaxCancels /\ snapshot = {}
    /\ running
    /\ cancels' = cancels + 1
    /\ cancel_requested' = TRUE
    /\ snapshot' = {<<batch, i>> : i \in 1..active}
    /\ UNCHANGED <<max_workers, ownerVars, poolVars, taken, running, active, closed, exitVars>>

CancelSnapshot(b, i) ==
    /\ <<b, i>> \in snapshot
    /\ CancelFuture(b, i)
    /\ snapshot' = snapshot \ {<<b, i>>}
    /\ UNCHANGED <<max_workers, ownerVars, taken, lockVars, cancels, exitVars>>

\* Mutant: shutdown(wait=False).
BugCloseAtOnce ==
    /\ opc = "idle" /\ ~closed
    /\ closed' = TRUE /\ opc' = "closed"
    /\ UNCHANGED <<max_workers, batch, at, outcome, poolVars, taken, running,
                   cancel_requested, active, cancelVars, exitVars>>

\* Between batches nothing is in _active.
Close ==
    /\ opc = "idle" /\ ~closed
    /\ closed' = TRUE /\ opc' = "closing"
    /\ UNCHANGED <<max_workers, batch, at, outcome, poolVars, taken, running,
                   cancel_requested, active, cancelVars, exitVars>>

\* shutdown(cancel_futures=True) empties the queue, racing the pool's threads ...
DropQueued ==
    /\ opc = "closing"
    /\ \E b \in Batches, i \in Positions : FirstQueued(b, i) /\ CancelFuture(b, i)
    /\ UNCHANGED <<ownerVars, taken, lockVars, cancelVars>>

\* ... and, with wait=True, joins them.
CloseWait ==
    /\ opc = "closing" /\ Queued = {} /\ Busy = {}
    /\ opc' = "closed"
    /\ UNCHANGED <<batch, at, outcome, poolVars, taken, lockVars, cancelVars>>

-----------------------------------------------------------------------------
OwnerStep ==
    /\ \/ Submit \/ _register \/ DropSubmitted \/ Collect \/ CollectedAll \/ Result
       \/ _cancel_pending \/ _finish \/ InlineCheck \/ InlineStart \/ InlineReturn
       \/ DropQueued \/ CloseWait
    /\ UNCHANGED <<max_workers, exitVars>>

PoolStep(b, i) ==
    /\ StartTask(b, i) \/ TellPosition(b, i) \/ SetResult(b, i)
    /\ UNCHANGED <<max_workers, exitVars>>

\* The runner is closed and has nothing left to do.
Terminated == opc = "closed" /\ snapshot = {} /\ UNCHANGED vars

Next ==
    \/ _begin \/ OwnerStep \/ Close
    \/ \E b \in Batches, i \in Positions : PoolStep(b, i) \/ CancelSnapshot(b, i)
    \/ Cancel \/ Interrupts
    \/ Terminated

Spec == Init /\ [][Next]_vars

\* Tasks return, and no thread is starved; nobody has to call run() or cancel(),
\* and nothing has to interrupt it.
FairSpec ==
    /\ Spec
    /\ WF_vars(OwnerStep)
    /\ \A b \in Batches, i \in Positions :
          WF_vars(PoolStep(b, i)) /\ WF_vars(CancelSnapshot(b, i))

-----------------------------------------------------------------------------
(* Properties.                                                             *)

TypeOK ==
    /\ max_workers \in Sizes
    /\ opc \in {"idle", "submit", "register", "drop", "collect", "result", "cancel",
                "return", "raise", "check", "call", "closing", "closed"}
    /\ batch \in 0..MaxBatches /\ at \in 0..N
    /\ outcome \in [Batches -> {"none", "return", "raise"}]
    /\ future \in [Batches -> [Positions -> FutureStates]]
    /\ finished \in [Batches -> Seq(Positions)] /\ taken \in 0..N
    /\ running \in BOOLEAN /\ cancel_requested \in BOOLEAN
    /\ active \in 0..N /\ closed \in BOOLEAN
    /\ snapshot \subseteq Batches \X Positions /\ cancels \in 0..MaxCancels
    /\ last \in 0..N /\ interrupts \in 0..MaxInterrupts
    /\ spared \in [Batches -> SUBSET Positions]

\* A position is reported once, by the task of this batch that finished or by
\* the cancellation that kept it from starting, whatever an earlier batch left
\* running: the owner's get() never wakes for a position it already has.
ReportedOnce ==
    \A b \in Batches : \A k, l \in 1..Len(finished[b]) :
        finished[b][k] = finished[b][l] => k = l

\* run() returns only when every task of the batch has delivered a value:
\* neither a cancelled nor a failed task can hide behind a normal return.
ReturnIsWhole ==
    \A b \in Batches : outcome[b] = "return" =>
        \A i \in Positions : future[b][i] = "value"

\* Once run() is over, whether it returned or raised, no task of its batch
\* starts any more: what it leaves behind had already started.  The exceptions
\* are those the code makes: an exception between a submission and its
\* registration spares that one future (the list of parallel.py:124 lacks it),
\* and one outside every try (parallel.py:137), or in _cancel_pending, spares
\* all that are still queued.
EndedBatchStartsNothing ==
    [][\A b \in Batches, i \in Positions :
          (outcome[b] # "none" /\ future[b][i] \in {"none", "pending"} /\ i \notin spared[b]) =>
              future'[b][i] # "running"]_vars

\* Leaving the "with" block waits for the tasks that batches left behind, and
\* drops those that interrupted ones left in the queue: none of them runs on
\* after close(), or starts.
ClosedIsQuiet == opc = "closed" => Busy = {} /\ Queued = {}

\* Every batch ends, also when tasks are cancelled before they start, fail
\* together, or wait for a thread that an earlier batch still holds, or behind
\* the tasks that an interrupted one left in the queue.
RunEnds == running ~> ~running

\* What cancel() promises: "Cancel every task in the current batch that has
\* not started", so no task starts between its return and the batch's end.
CancelReachesUnstarted ==
    [][cancel_requested /\ snapshot = {} =>
          \A i \in Positions :
              future[batch][i] \in {"none", "pending"} => future'[batch][i] # "running"]_vars
=============================================================================
