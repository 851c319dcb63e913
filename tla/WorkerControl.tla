---------------------------- MODULE WorkerControl ----------------------------
(***************************************************************************)
(* Pause, skip and cancel inside one worker (services/fitting.py): several *)
(* dataset rows run concurrently, each row's search runs the tasks of a    *)
(* stage on its own pool threads, and every one of these threads polls the *)
(* same three events through one shared _WorkerCancellation.               *)
(*                                                                         *)
(* A search polls through its search probe, which may consume a skip;      *)
(* everything else a row does polls through __call__, which discards one.  *)
(***************************************************************************)
EXTENDS Integers, FiniteSets

CONSTANTS
    Rows,         \* dataset rows fitted concurrently
    Pool,         \* a row's pool threads: every stage has a task for each of them
    Stages,       \* number of stages of a search
    MaxRequests,  \* bound: calls of skip_stage()
    MaxPauses     \* bound: calls of pause()

ASSUME ControlAssumption ==
    Stages \in Nat \ {0} /\ MaxRequests \in Nat /\ MaxPauses \in Nat

VARIABLES
    cancellation, pause, skip,    \* the multiprocessing events
    requests, pauses,             \* how often skip_stage() and pause() were called
    phase, stage, polling,        \* a row: where it is, inside __call__ or not
    todo, raised,                 \* a row's stage: tasks to start, StageSkipped seen
    pc, at,                       \* a pool thread, and the stage of its task
    holder,                       \* the thread that holds skip_lock
    skips, asked                  \* history: stages skipped; the stages in progress
                                  \* when the latest unconsumed request was made

eventVars == <<cancellation, pause, skip>>
requestVars == <<requests, pauses, asked>>
rowVars == <<phase, stage, polling, todo, raised>>
threadVars == <<pc, at, holder, skips>>
vars == <<eventVars, requestVars, rowVars, threadVars>>

Workers == UNION {Pool[r] : r \in Rows}
Threads == {t \in Rows \X Workers : t[2] \in Pool[t[1]]}
NoThread == <<>>

Init ==
    /\ cancellation = FALSE /\ pause = FALSE /\ skip = FALSE
    /\ requests = 0 /\ pauses = 0
    /\ phase = [r \in Rows |-> "before"] /\ stage = [r \in Rows |-> 0]
    /\ polling = [r \in Rows |-> FALSE]
    /\ todo = [r \in Rows |-> {}] /\ raised = [r \in Rows |-> FALSE]
    /\ pc = [t \in Threads |-> "out"] /\ at = [t \in Threads |-> 0]
    /\ holder = NoThread /\ skips = 0 /\ asked = {}

\* The search of row r is in stage s, and nothing has ended that stage yet.
InStage(r, s) == phase[r] = "search" /\ stage[r] = s /\ ~raised[r]

\* The task of thread t belongs to the stage its row is in.
Current(t) == InStage(t[1], at[t])

-----------------------------------------------------------------------------
(* The owner, through OperationJob.                                        *)

IsRunning == \E r \in Rows : phase[r] # "over"

skip_stage ==
    /\ IsRunning /\ requests < MaxRequests
    /\ skip' = TRUE
    /\ requests' = requests + 1
    /\ asked' = (IF skip THEN asked ELSE {}) \cup
                {p \in Rows \X (1..Stages) : phase[p[1]] = "search" /\ stage[p[1]] = p[2]}
    /\ UNCHANGED <<cancellation, pause, pauses, rowVars, threadVars>>

SetPause ==
    /\ IsRunning /\ pauses < MaxPauses /\ ~pause
    /\ pause' = TRUE /\ pauses' = pauses + 1
    /\ UNCHANGED <<cancellation, skip, requests, asked, rowVars, threadVars>>

Resume ==
    /\ pause
    /\ pause' = FALSE
    /\ UNCHANGED <<cancellation, skip, requestVars, rowVars, threadVars>>

\* cancel() opens the parking place before it asks for the stop.
Cancel ==
    /\ IsRunning /\ ~cancellation
    /\ pause' = FALSE /\ cancellation' = TRUE
    /\ UNCHANGED <<skip, requestVars, rowVars, threadVars>>

-----------------------------------------------------------------------------
(* A row outside its search.                                               *)

_discard_skip == skip' = FALSE /\ UNCHANGED <<cancellation, pause>>

\* __call__: discard, then poll the normal probe.
CallProbe(r) ==
    /\ phase[r] \in {"before", "after"} /\ ~polling[r]
    /\ _discard_skip
    /\ polling' = [polling EXCEPT ![r] = TRUE]
    /\ UNCHANGED <<requestVars, phase, stage, todo, raised, threadVars>>

\* The normal probe returns, or the row parks in it while the pause lasts.
NormalProbe(r) ==
    /\ polling[r] /\ (cancellation \/ ~pause)
    /\ polling' = [polling EXCEPT ![r] = FALSE]
    /\ phase' = IF cancellation THEN [phase EXCEPT ![r] = "closing"] ELSE phase
    /\ UNCHANGED <<eventVars, requestVars, stage, todo, raised, threadVars>>

\* The row returns or has raised, and close() joins its pool.
FinishRow(r) ==
    /\ phase[r] = "closing" \/ (phase[r] = "after" /\ ~polling[r])
    /\ \A w \in Pool[r] : pc[<<r, w>>] = "out"
    /\ phase' = [phase EXCEPT ![r] = "over"]
    /\ UNCHANGED <<eventVars, requestVars, stage, polling, todo, raised, threadVars>>

-----------------------------------------------------------------------------
(* A row's search: _run_skippable_search around the stages.                *)

BeginStage(r) ==
    /\ stage' = [stage EXCEPT ![r] = @ + 1]
    /\ todo' = [todo EXCEPT ![r] = Pool[r]]
    /\ raised' = [raised EXCEPT ![r] = FALSE]

\* Mutant: a search does not discard what was asked before it.
BugKeepStale(r) ==
    /\ phase[r] = "before" /\ ~polling[r]
    /\ phase' = [phase EXCEPT ![r] = "search"]
    /\ BeginStage(r)
    /\ UNCHANGED <<eventVars, requestVars, polling, threadVars>>

EnterSearch(r) ==
    /\ phase[r] = "before" /\ ~polling[r]
    /\ _discard_skip
    /\ phase' = [phase EXCEPT ![r] = "search"]
    /\ BeginStage(r)
    /\ UNCHANGED <<requestVars, polling, threadVars>>

\* Every task of the stage has returned, or one of them raised StageSkipped
\* (then run() has raised, and its other tasks are left to themselves).
StageOver(r) ==
    /\ phase[r] = "search"
    /\ \/ raised[r]
       \/ todo[r] = {} /\ \A w \in Pool[r] : pc[<<r, w>>] # "out" => at[<<r, w>>] # stage[r]

NextStage(r) ==
    /\ StageOver(r) /\ stage[r] < Stages
    /\ BeginStage(r)
    /\ UNCHANGED <<eventVars, requestVars, phase, polling, threadVars>>

\* The scope's finally clause discards once more; a search also ends early
\* when a skipped stage leaves it without candidates.
LeaveSearch(r) ==
    /\ StageOver(r) /\ (stage[r] = Stages \/ raised[r])
    /\ _discard_skip
    /\ phase' = [phase EXCEPT ![r] = "after"]
    /\ UNCHANGED <<requestVars, stage, polling, todo, raised, threadVars>>

-----------------------------------------------------------------------------
(* A pool thread: one task of a stage and the search probe inside it.      *)

Goto(t, place) == pc' = [pc EXCEPT ![t] = place]

StartTask(t) ==
    /\ phase[t[1]] = "search" /\ ~raised[t[1]]
    /\ pc[t] = "out" /\ t[2] \in todo[t[1]]
    /\ Goto(t, "solve")
    /\ at' = [at EXCEPT ![t] = stage[t[1]]]
    /\ todo' = [todo EXCEPT ![t[1]] = @ \ {t[2]}]
    /\ UNCHANGED <<eventVars, requestVars, phase, stage, polling, raised, holder, skips>>

ReturnTask(t) ==
    /\ pc[t] = "solve"
    /\ Goto(t, "out")
    /\ UNCHANGED <<eventVars, requestVars, rowVars, at, holder, skips>>

\* The head of the probe's loop: without a cancellation, on to the skip.
LookOn(t) ==
    /\ pc[t] \in {"solve", "look"} /\ ~cancellation
    /\ Goto(t, "lock")
    /\ UNCHANGED <<eventVars, requestVars, rowVars, at, holder, skips>>

\* Mutant: the parking place comes before the look at the cancellation.
BugPauseFirst(t) ==
    /\ pc[t] \in {"solve", "look"} /\ cancellation /\ ~pause
    /\ Goto(t, "out")
    /\ IF Current(t)
       THEN phase' = [phase EXCEPT ![t[1]] = "closing"] /\ _discard_skip
       ELSE UNCHANGED <<phase, eventVars>>
    /\ UNCHANGED <<requestVars, stage, polling, todo, raised, at, holder, skips>>

\* SearchCancelled ends the task, and the row whose stage it belongs to.
HearCancel(t) ==
    /\ pc[t] \in {"solve", "look"} /\ cancellation
    /\ Goto(t, "out")
    /\ IF Current(t)
       THEN phase' = [phase EXCEPT ![t[1]] = "closing"] /\ _discard_skip
       ELSE UNCHANGED <<phase, eventVars>>
    /\ UNCHANGED <<requestVars, stage, polling, todo, raised, at, holder, skips>>

\* with skip_lock: no skip is set, the lock is given back at once ...
NoSkip(t) ==
    /\ pc[t] = "lock" /\ holder = NoThread /\ ~skip
    /\ Goto(t, "parked")
    /\ UNCHANGED <<eventVars, requestVars, rowVars, at, holder, skips>>

\* Mutant: the look at the flag is not under the lock.
BugNoLock(t) ==
    /\ pc[t] = "lock" /\ skip
    /\ Goto(t, "held") /\ holder' = NoThread
    /\ UNCHANGED <<eventVars, requestVars, rowVars, at, skips>>

\* ... or a skip is set, and the thread goes on to clear it.
SeeSkip(t) ==
    /\ pc[t] = "lock" /\ holder = NoThread /\ skip
    /\ Goto(t, "held") /\ holder' = t
    /\ UNCHANGED <<eventVars, requestVars, rowVars, at, skips>>

RaiseSkip(t) ==
    /\ pc[t] = "held"
    /\ _discard_skip /\ holder' = NoThread
    /\ Goto(t, "out")
    /\ IF Current(t)
       THEN raised' = [raised EXCEPT ![t[1]] = TRUE] /\ skips' = skips + 1
       ELSE UNCHANGED <<raised, skips>>
    /\ UNCHANGED <<requestVars, phase, stage, polling, todo, at>>

\* Mutant: the probe returns while the pause is on.
BugNoPark(t) ==
    /\ pc[t] = "parked"
    /\ Goto(t, "solve")
    /\ UNCHANGED <<eventVars, requestVars, rowVars, at, holder, skips>>

\* The pause, if any: sleep and look again, or go on solving.
Park(t) ==
    /\ pc[t] = "parked"
    /\ Goto(t, IF pause THEN "look" ELSE "solve")
    /\ UNCHANGED <<eventVars, requestVars, rowVars, at, holder, skips>>

-----------------------------------------------------------------------------
RowStep(r) ==
    \/ NormalProbe(r) \/ FinishRow(r)
    \/ CallProbe(r) \/ EnterSearch(r) \/ NextStage(r) \/ LeaveSearch(r)

ThreadStep(t) ==
    \/ StartTask(t) \/ ReturnTask(t) \/ LookOn(t) \/ HearCancel(t)
    \/ NoSkip(t) \/ SeeSkip(t) \/ RaiseSkip(t) \/ Park(t)

Over == ~IsRunning /\ (\A t \in Threads : pc[t] = "out") /\ UNCHANGED vars

Next ==
    \/ skip_stage \/ SetPause \/ Resume \/ Cancel
    \/ \E r \in Rows : RowStep(r)
    \/ \E t \in Threads : ThreadStep(t)
    \/ Over

Spec == Init /\ [][Next]_vars

\* Threads are scheduled, and a solver polls its probe again and again.  The
\* owner is not obliged to anything: a paused worker may wait forever.
FairSpec ==
    /\ Spec
    /\ \A r \in Rows :
          /\ WF_vars(NormalProbe(r)) /\ WF_vars(NextStage(r) \/ LeaveSearch(r))
          /\ WF_vars(CallProbe(r)) /\ WF_vars(phase[r] = "closing" /\ FinishRow(r))
    /\ \A t \in Threads :
          WF_vars(StartTask(t) \/ LookOn(t) \/ HearCancel(t) \/ NoSkip(t) \/ SeeSkip(t)
                  \/ RaiseSkip(t) \/ Park(t))

-----------------------------------------------------------------------------
(* Properties.                                                             *)

TypeOK ==
    /\ cancellation \in BOOLEAN /\ pause \in BOOLEAN /\ skip \in BOOLEAN
    /\ requests \in 0..MaxRequests /\ pauses \in 0..MaxPauses
    /\ phase \in [Rows -> {"before", "search", "after", "closing", "over"}]
    /\ stage \in [Rows -> 0..Stages] /\ polling \in [Rows -> BOOLEAN]
    /\ todo \in [Rows -> SUBSET Workers] /\ raised \in [Rows -> BOOLEAN]
    /\ pc \in [Threads -> {"out", "solve", "look", "lock", "held", "parked"}]
    /\ at \in [Threads -> 0..Stages]
    /\ holder \in Threads \cup {NoThread}
    /\ skips \in 0..MaxRequests
    /\ asked \subseteq Rows \X (1..Stages)

\* "Requests made before or after a search must not skip the next dataset":
\* the stage of a row is skipped only on a request made during its search,
\* although other rows discard, consume and set the same flag meanwhile.
NoStaleSkip ==
    [][\A r \in Rows : raised'[r] /\ ~raised[r] => \E s \in 1..Stages : <<r, s>> \in asked]_vars

\* One request skips at most one stage, whichever of the rows and threads
\* that poll the flag at once gets it.
OneStagePerRequest == skips <= requests

\* A cancellation is heard by every row, also by one that is parked, and also
\* when the owner pauses again after cancelling.
CancelIsHeard == cancellation ~> \A r \in Rows : phase[r] = "over"

\* A pause that lasts brings every solver to a halt at its next probe, for good.
PauseHalts == <>[]pause => <>[](\A t \in Threads : pc[t] # "solve")

\* What skip_stage() promises, "void the current stage, the search goes on":
\* a request made while a search is in a stage is consumed by a task of such a
\* stage, unless the stage has ended by itself.
SkipReachesStage ==
    [][skip /\ ~skip' =>
          \/ \E t \in Threads : pc[t] = "held" /\ Current(t)
          \/ ~ \E p \in asked : InStage(p[1], p[2]) /\ InStage(p[1], p[2])']_vars
=============================================================================
