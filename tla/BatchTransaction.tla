-------------------------- MODULE BatchTransaction --------------------------
(***************************************************************************)
(* One project of datasets and the fit transactions that run over it in a  *)
(* worker process: the independent fit, the all-or-nothing expert joint    *)
(* fit and the automatic fit (prefits first, then one refinement per fit   *)
(* group).  `project' is what the owner of the job holds: it changes when  *)
(* the transaction publishes a snapshot through checkpoint_callback or     *)
(* returns an updated_project that the owner adopts.  `working' is the     *)
(* transaction's own copy.  A transaction can be cancelled at any time,    *)
(* and its process can be stopped by force or die at any time: the owner   *)
(* then keeps the last snapshot, and a later transaction starts from it.   *)
(*                                                                         *)
(* A worker first runs a preflight that leaves the project alone; a row    *)
(* that cannot be prepared after it (a source file changed in between) is  *)
(* an `unprepared' row here.  All rows are automatic imports; a MANUAL row *)
(* is never routed and is not modelled.                                    *)
(***************************************************************************)
EXTENDS Integers, FiniteSets

CONSTANTS NumRows,   \* the datasets of the project, in project order
          Settings,  \* the values a dataset's parameter settings can take
          MaxRuns    \* bound: transactions run one after the other

ASSUME BatchAssumption ==
    /\ NumRows \in Nat \ {0}
    /\ MaxRuns \in Nat
    /\ Settings # {}

VARIABLES project,     \* the owner's project: a dataset per row
          batch_mode,  \* persisted: "independent" or "joint"
          signature,   \* the automatic physical signature of each row
          runs,        \* transactions begun; the newest one's number
          kind,        \* which transaction runs, or ran last
          running,     \* the transaction has not ended
          ending,      \* how the last one ended for the owner
          cancelled,   \* the cancellation probe answers TRUE
          original,    \* the project the transaction was given
          working,     \* the transaction's project
          baseline,    \* group_baseline of the fit group being refined
          fits,        \* where each row is in the transaction
          saved,       \* rows whose search wrote at least one checkpoint
          refused      \* rows whose resume checkpoint was refused

vars == <<project, batch_mode, signature, runs, kind, running, ending,
          cancelled, original, working, baseline, fits, saved, refused>>
fixed == <<batch_mode, signature>>

Rows == 1..NumRows
Statuses == {"PENDING", "REFINING", "PASSED", "REVIEW", "FAILED"}
AUTOMATIC_RUNNABLE_STATUSES == {"PENDING", "REFINING", "REVIEW"}

(***************************************************************************)
(* A dataset.  `result' is the run that produced last_valid_result, 0 for  *)
(* none.  A checkpoint has the layout it was searched under -- one dataset *)
(* alone, the expert joint graph, or an automatic fit group -- and, where  *)
(* a search could take it up again, the parameter settings its fingerprint *)
(* was taken from.  Nothing resumes the refinement of a fit group.         *)
(***************************************************************************)
NoCheckpoint == [layout |-> "none"]
GroupLayout == [layout |-> "group"]
Checkpoint(layout, settings) == [layout |-> layout, settings |-> settings]
Checkpoints == [layout : {"single", "joint"}, settings : Settings]
                 \cup {NoCheckpoint, GroupLayout}
Dataset == [status : Statuses, result : 0..MaxRuns, settings : Settings,
            checkpoint : Checkpoints]

\* A search accepts no checkpoint, or one of its own layout and settings.
Resumable(layout, dataset) ==
    dataset.checkpoint \in {NoCheckpoint, Checkpoint(layout, dataset.settings)}

\* The whole joint graph resumes, or none of it does.
JointResumable(datasets) ==
    \/ \A r \in Rows : datasets[r].checkpoint = NoCheckpoint
    \/ \A r \in Rows : datasets[r].checkpoint
                         = Checkpoint("joint", datasets[r].settings)

-----------------------------------------------------------------------------
(* Publication: how one dataset is rewritten.                              *)

_clear_dataset(dataset) ==
    [dataset EXCEPT !.result = 0, !.checkpoint = NoCheckpoint]

_clear_all(datasets) == [r \in Rows |-> _clear_dataset(datasets[r])]

_automatic_failure_dataset(dataset) ==
    [_clear_dataset(dataset) EXCEPT !.status = "FAILED"]

\* A bug for the checks: replaying a checkpoint drops the previous result.
BugReplay(datasets, r) ==
    [datasets EXCEPT ![r] = [@ EXCEPT !.result = 0,
        !.checkpoint = Checkpoint("single", datasets[r].settings)]]

\* Single searches alone have their checkpoints buffered and replayed.
_replay_checkpoints(datasets, r) ==
    [datasets EXCEPT ![r].checkpoint = Checkpoint("single", datasets[r].settings)]

Qualities == {"invalid", "passed", "review"}

_automatic_status(quality, refining) ==
    CASE quality = "invalid" -> "FAILED"
      [] quality # "invalid" /\ refining -> "REFINING"
      [] quality = "passed" /\ ~refining -> "PASSED"
      [] OTHER -> "REVIEW"

\* A bug for the checks: the checkpoint survives the winner's new settings.
BugResult(dataset, before, prepared, winner, quality, refining) ==
    LET status == _automatic_status(quality, refining) IN
    IF status = "FAILED"
    THEN [_automatic_failure_dataset(dataset) EXCEPT !.settings = prepared]
    ELSE [status |-> status, result |-> runs, settings |-> winner,
          checkpoint |-> IF prepared = before
                         THEN dataset.checkpoint ELSE NoCheckpoint]

\* `before' are the settings the row was prepared with, `prepared' those of
\* the preparation the fit returned, `winner' the winner's frozen vector.
_automatic_result_dataset(dataset, before, prepared, winner, quality, refining) ==
    LET status == _automatic_status(quality, refining) IN
    IF status = "FAILED"
    THEN [_automatic_failure_dataset(dataset) EXCEPT !.settings = prepared]
    ELSE [status |-> status, result |-> runs, settings |-> winner,
          checkpoint |-> IF winner = prepared /\ prepared = before
                         THEN dataset.checkpoint ELSE NoCheckpoint]

-----------------------------------------------------------------------------
(* Beginning and ending.                                                   *)

Ended == {"ok", "error", "refused", "cancelled"}      \* not yet published
Published == {"decided", "failed", "stopped"}
Prefitted == {"fitted", "winnerless"}                 \* awaiting their fit group
InGroup == {"qualified", "isolated"}                  \* being refined together
FitStates == Ended \cup Published \cup Prefitted \cup InGroup
               \cup {"out", "unprepared", "ready"}

Fresh(s) == [status |-> "PENDING", result |-> 0, settings |-> s,
             checkpoint |-> NoCheckpoint]

\* A signature names its class by the first row that has it.
Signatures ==
    {f \in [Rows -> Rows] : \A r \in Rows : f[r] <= r /\ f[f[r]] = f[r]}

Init ==
    /\ \E s \in Settings : project = [r \in Rows |-> Fresh(s)]
    /\ batch_mode \in {"independent", "joint"}
    /\ batch_mode = "joint" => NumRows >= 2
    /\ signature \in Signatures
    /\ runs = 0 /\ kind = "none" /\ running = FALSE /\ ending = "none"
    /\ cancelled = FALSE
    /\ original = project /\ working = project /\ baseline = project
    /\ fits = [r \in Rows |-> "out"]
    /\ saved = {} /\ refused = {}

\* `rows' are searched each on its own; those that turn out to be
\* unpreparable are found before any search begins.
Begin(k, rows, start) ==
    /\ ~running /\ runs < MaxRuns
    /\ runs' = runs + 1 /\ kind' = k /\ running' = TRUE /\ ending' = "none"
    /\ cancelled' = FALSE
    /\ original' = project /\ working' = start /\ baseline' = start
    /\ \E bad \in SUBSET rows :
         fits' = [r \in Rows |-> IF r \in bad THEN "unprepared"
                                 ELSE IF r \in rows THEN "ready" ELSE "out"]
    /\ saved' = {} /\ refused' = {}
    /\ UNCHANGED <<project, fixed>>

\* The transaction is over and the owner holds `last'.
End(how, last) ==
    /\ running' = FALSE /\ ending' = how /\ project' = last
    /\ working' = last /\ baseline' = last
    /\ UNCHANGED <<fixed, runs, kind, cancelled, original, fits, saved>>

Doing(k) == running /\ kind = k
Continue == UNCHANGED <<fixed, runs, kind, running, ending, cancelled, original>>

Cancel ==
    /\ running /\ ~cancelled
    /\ cancelled' = TRUE
    /\ UNCHANGED <<project, fixed, runs, kind, running, ending, original,
                   working, baseline, fits, saved, refused>>

\* A force stop, a crash, or an exception that leaves the transaction: no
\* result is delivered and the owner keeps the last snapshot.
WorkerDies == running /\ End("killed", project) /\ UNCHANGED refused

\* One dataset's search in the runner, up to its buffered outcome.
DatasetFit(r, end, writes) ==
    LET accepts == Resumable("single", working[r]) IN
    /\ fits[r] = "ready"
    /\ CASE end = "cancelled" -> cancelled
         [] end = "refused"   -> ~accepts
         [] OTHER             -> accepts
    /\ writes => accepts
    /\ saved' = IF writes THEN saved \cup {r} ELSE saved
    /\ refused' = IF end = "refused" THEN refused \cup {r} ELSE refused

NoneIs(states) == \A r \in Rows : fits[r] \notin states
SomeIs(states) == \E r \in Rows : fits[r] \in states

-----------------------------------------------------------------------------
(* The independent fit: every search ends before anything is published.    *)

BeginIndependent ==
    batch_mode = "independent" /\ Begin("independent", Rows, project)

IndependentSearch ==
    /\ Doing("independent")
    /\ \E r \in Rows, end \in Ended, writes \in BOOLEAN :
         DatasetFit(r, end, writes) /\ fits' = [fits EXCEPT ![r] = end]
    /\ Continue /\ UNCHANGED <<project, working, baseline>>

PublishedAs(end) == CASE end = "ok"        -> "decided"
                      [] end = "cancelled" -> "stopped"
                      [] OTHER             -> "failed"

_publish_independent_row(r) ==
    LET row == IF r \in saved THEN _replay_checkpoints(working, r) ELSE working
    IN  /\ Doing("independent") /\ NoneIs({"ready"})
        /\ fits[r] \in Ended \cup {"unprepared"}
        /\ \A s \in 1..(r - 1) : fits[s] \in Published
        /\ working' = CASE fits[r] = "unprepared" ->
                             [working EXCEPT ![r] = _clear_dataset(@)]
                        [] fits[r] = "ok" -> [row EXCEPT ![r].result = runs]
                        [] OTHER -> row
        /\ project' = IF r \in saved THEN row ELSE project
        /\ fits' = [fits EXCEPT ![r] = PublishedAs(@)]
        /\ Continue /\ UNCHANGED <<baseline, saved, refused>>

\* A bug for the checks: no last snapshot after a cancellation.
BugEndIndependent ==
    /\ Doing("independent") /\ \A r \in Rows : fits[r] \in Published
    /\ IF SomeIs({"stopped"}) THEN End("cancelled", project)
                              ELSE End("returned", working)
    /\ UNCHANGED refused

\* A cancelled run's result never reaches the owner: the rows that finished
\* are published with one more checkpoint.
EndIndependent ==
    /\ Doing("independent") /\ \A r \in Rows : fits[r] \in Published
    /\ IF SomeIs({"stopped"})
       THEN End("cancelled", IF SomeIs({"decided"}) THEN working ELSE project)
       ELSE End("returned", working)
    /\ UNCHANGED refused

-----------------------------------------------------------------------------
(* The expert joint fit.                                                   *)

BeginJoint == batch_mode = "joint" /\ Begin("joint", {}, project)

JointCheckpoint ==
    /\ Doing("joint") /\ JointResumable(working)
    /\ working' = [r \in Rows |-> [working[r] EXCEPT
                      !.checkpoint = Checkpoint("joint", working[r].settings)]]
    /\ project' = working'
    /\ Continue /\ UNCHANGED <<baseline, fits, saved, refused>>

JointSucceeds ==
    /\ Doing("joint") /\ JointResumable(working)
    /\ End("returned", [r \in Rows |-> [working[r] EXCEPT !.result = runs]])
    /\ UNCHANGED refused

\* _joint_failure: a bad source, a preparation or search error, a refused
\* resume or a raising checkpoint callback invalidates the whole graph.
JointFails ==
    /\ Doing("joint")
    /\ End("returned", _clear_all(original))
    /\ refused' = IF JointResumable(working) THEN {} ELSE Rows

\* The cancelled failure is not adopted: the last snapshot stays.
JointCancelled ==
    /\ Doing("joint") /\ cancelled /\ JointResumable(working)
    /\ End("cancelled", project)
    /\ UNCHANGED refused

-----------------------------------------------------------------------------
(* The automatic fit.                                                      *)

_automatic_indices ==
    {r \in Rows : project[r].status \in AUTOMATIC_RUNNABLE_STATUSES}

\* Rows routed together: out of the rows of this run, one signature.
Group(r) == {s \in Rows : fits[s] # "out" /\ signature[s] = signature[r]}

\* A bug for the checks: every prefit is published as it ends.
BugExplicit(r) == Cardinality(Group(r)) > NumRows

\* An explicit joint project's automatic graph, published whole or not at all.
Explicit(r) == batch_mode = "joint" /\ Cardinality(Group(r)) > 1

BeginAutomatic ==
    /\ _automatic_indices # {}
    /\ batch_mode = "joint" =>
         _automatic_indices = Rows /\ \A r \in Rows : signature[r] = 1
    /\ Begin("automatic", _automatic_indices,
             [r \in Rows |-> IF r \in _automatic_indices
                             THEN [project[r] EXCEPT !.status = "REFINING"]
                             ELSE project[r]])

_automatic_joint_failure ==
    End("returned", [r \in Rows |-> _automatic_failure_dataset(original[r])])

\* _validate_joint_automatic_routes refuses a partial or mixed joint graph.
RefuseRoutes ==
    /\ ~running /\ runs < MaxRuns /\ batch_mode = "joint"
    /\ _automatic_indices # {}
    /\ _automatic_indices # Rows \/ \E r \in Rows : signature[r] # 1
    /\ runs' = runs + 1 /\ kind' = "automatic" /\ ending' = "returned"
    /\ original' = project
    /\ project' = [r \in Rows |-> _automatic_failure_dataset(project[r])]
    /\ fits' = [r \in Rows |-> "out"]
    /\ cancelled' = FALSE /\ saved' = {} /\ refused' = {}
    /\ working' = project' /\ baseline' = project'
    /\ UNCHANGED <<fixed, running>>

PublishPreparationFailure(r) ==
    /\ Doing("automatic") /\ fits[r] = "unprepared"
    /\ \A s \in 1..(r - 1) : fits[s] # "unprepared"
    /\ IF batch_mode = "joint"
       THEN _automatic_joint_failure /\ UNCHANGED refused
       ELSE /\ working' = [working EXCEPT ![r] = _automatic_failure_dataset(@)]
            /\ project' = working'
            /\ fits' = [fits EXCEPT ![r] = "failed"]
            /\ Continue /\ UNCHANGED <<baseline, saved, refused>>

\* The runner hands one outcome at a time to publish_prefit, which first
\* replays the row's checkpoints.
PrefitEnds(r, end, writes) ==
    /\ Doing("automatic") /\ NoneIs(Ended \cup {"unprepared"})
    /\ ~Explicit(r)
    /\ DatasetFit(r, end, writes)
    /\ fits' = [fits EXCEPT ![r] = end]
    /\ working' = IF writes THEN _replay_checkpoints(working, r) ELSE working
    /\ project' = IF writes THEN working' ELSE project
    /\ Continue /\ UNCHANGED baseline

\* Then it commits the outcome.  A row that was only stopped keeps its route
\* and its checkpoint, so that the next automatic run takes it up again.
CommitPrefit(r, quality, prepared, winner) ==
    LET refining == Cardinality(Group(r)) > 1
        row == _automatic_result_dataset(working[r], original[r].settings,
                                         prepared, winner, quality, refining)
    IN  /\ Doing("automatic") /\ fits[r] \in Ended
        /\ working' = CASE fits[r] = "ok" -> [working EXCEPT ![r] = row]
                        [] fits[r] = "cancelled" -> working
                        [] OTHER -> [working EXCEPT
                                      ![r] = _automatic_failure_dataset(@)]
        /\ project' = working'
        /\ fits' = [fits EXCEPT ![r] =
              CASE @ # "ok" \/ ~refining -> PublishedAs(@)
                [] quality = "invalid"   -> "winnerless"
                [] OTHER                 -> "fitted"]
        /\ Continue /\ UNCHANGED <<baseline, saved, refused>>

\* The prefits of an explicit joint project are withheld; one that does not
\* succeed ends the transaction.
WithheldPrefit(r, end) ==
    /\ Doing("automatic") /\ NoneIs({"unprepared"})
    /\ Explicit(r)
    /\ CASE end = "ok" ->
              /\ DatasetFit(r, end, FALSE)
              /\ fits' = [fits EXCEPT ![r] = "fitted"]
              /\ Continue /\ UNCHANGED <<project, working, baseline>>
         [] end = "cancelled" -> fits[r] = "ready" /\ cancelled
                                 /\ End("cancelled", original) /\ UNCHANGED refused
         [] OTHER ->
              /\ fits[r] = "ready"
              /\ (end = "refused") = ~Resumable("single", working[r])
              /\ _automatic_joint_failure
              /\ refused' = IF end = "refused" THEN refused \cup {r} ELSE refused

-----------------------------------------------------------------------------
(* The refinement of the fit groups, one after the other.                  *)

Settled == NoneIs(Ended \cup InGroup \cup {"unprepared", "ready"})
Refining == {r \in Rows : fits[r] \in InGroup}
Qualified == {r \in Rows : fits[r] = "qualified"}

\* The members of the first group with a prefit that is still to be refined.
NextGroup ==
    {r \in Rows : fits[r] \in Prefitted /\
        \A s \in Rows : fits[s] \in Prefitted => signature[r] <= signature[s]}

\* A lone survivor cannot be refined: what its prefit found is left to review.
CommitIncompleteGroup(prepared, winner) ==
    /\ Doing("automatic") /\ Settled /\ ~cancelled /\ NoneIs({"stopped"})
    /\ \E r \in Rows :
         /\ NextGroup = {r}
         /\ working' = [working EXCEPT ![r] =
              _automatic_result_dataset(@, original[r].settings, prepared,
                winner, IF fits[r] = "winnerless" THEN "invalid" ELSE "review",
                FALSE)]
         /\ fits' = [fits EXCEPT ![r] = "decided"]
    /\ project' = working'
    /\ Continue /\ UNCHANGED <<baseline, saved, refused>>

\* Members whose prefit disqualifies them are isolated and retried alone.
BeginGroup(isolated) ==
    /\ Doing("automatic") /\ Settled /\ ~cancelled /\ NoneIs({"stopped"})
    /\ Cardinality(NextGroup) > 1 /\ isolated \subseteq NextGroup
    /\ \A r \in NextGroup : fits[r] = "winnerless" => r \in isolated
    /\ fits' = [r \in Rows |-> IF r \in isolated THEN "isolated"
                               ELSE IF r \in NextGroup THEN "qualified" ELSE fits[r]]
    /\ baseline' = working
    /\ Continue /\ UNCHANGED <<project, working, saved, refused>>

\* One batch of joint checkpoints; an isolated member has none.
GroupCheckpoint ==
    /\ Doing("automatic")
    /\ Cardinality(Qualified) > 1
    /\ batch_mode = "joint" => NoneIs({"isolated"})
    /\ working' = [r \in Rows |->
         IF r \notin Refining THEN working[r]
         ELSE [working[r] EXCEPT !.checkpoint =
                 IF r \in Qualified THEN GroupLayout ELSE NoCheckpoint]]
    /\ project' = working'
    /\ Continue /\ UNCHANGED <<baseline, fits, saved, refused>>

\* All members in one replacement, then one snapshot.  The members refined
\* together have a valid winner together; where fewer than two qualify, their
\* prefits are left to review.  An explicit joint project takes no isolated
\* member's result.
GroupSucceeds(quality, prepared, winner) ==
    /\ Doing("automatic") /\ Refining # {}
    /\ batch_mode = "joint" => NoneIs({"isolated"})
    /\ \A r, s \in Qualified : quality[r] = "invalid" => quality[s] = "invalid"
    /\ Cardinality(Qualified) < 2 => \A r \in Refining :
         quality[r] = IF baseline[r].status = "FAILED" THEN "invalid" ELSE "review"
    /\ working' = [r \in Rows |->
         IF r \notin Refining THEN working[r]
         ELSE _automatic_result_dataset(working[r], original[r].settings,
                          prepared[r], winner[r], quality[r], FALSE)]
    /\ project' = working'
    /\ fits' = [r \in Rows |-> IF r \in Refining THEN "decided" ELSE fits[r]]
    /\ Continue /\ UNCHANGED <<baseline, saved, refused>>

GroupFails ==
    /\ Doing("automatic") /\ Refining # {}
    /\ IF batch_mode = "joint"
       THEN _automatic_joint_failure /\ UNCHANGED refused
       ELSE /\ working' = [r \in Rows |-> IF r \in Refining
                 THEN _automatic_failure_dataset(working[r]) ELSE working[r]]
            /\ project' = working'
            /\ fits' = [r \in Rows |-> IF r \in Refining THEN "failed" ELSE fits[r]]
            /\ Continue /\ UNCHANGED <<baseline, saved, refused>>

\* A bug for the checks: a cancelled group keeps what it had published.
BugGroupCancelled ==
    /\ Doing("automatic") /\ Refining # {} /\ cancelled
    /\ project' = working
    /\ fits' = [r \in Rows |-> IF r \notin Refining THEN fits[r]
                               ELSE IF baseline[r].status = "FAILED"
                                    THEN "winnerless" ELSE "fitted"]
    /\ Continue /\ UNCHANGED <<working, baseline, saved, refused>>

\* A cancelled group goes back to where it was before its refinement.
GroupCancelled ==
    /\ Doing("automatic") /\ Refining # {} /\ cancelled
    /\ working' = baseline /\ project' = working'
    /\ fits' = [r \in Rows |-> IF r \notin Refining THEN fits[r]
                               ELSE IF baseline[r].status = "FAILED"
                                    THEN "winnerless" ELSE "fitted"]
    /\ Continue /\ UNCHANGED <<baseline, saved, refused>>

\* A bug for the checks: every cancelled run goes back to the start.
BugEndAutomatic ==
    LET stopped == SomeIs({"stopped"}) \/ (SomeIs(Prefitted) /\ cancelled)
    IN  /\ Doing("automatic") /\ Settled
        /\ stopped \/ NoneIs(Prefitted)
        /\ IF ~stopped THEN End("returned", working) ELSE End("cancelled", original)
        /\ UNCHANGED refused

\* A cancelled explicit joint run goes back to the project it was given.
EndAutomatic ==
    LET stopped == SomeIs({"stopped"}) \/ (SomeIs(Prefitted) /\ cancelled)
    IN  /\ Doing("automatic") /\ Settled
        /\ stopped \/ NoneIs(Prefitted)
        /\ IF ~stopped THEN End("returned", working)
           ELSE End("cancelled", IF batch_mode = "joint" THEN original ELSE project)
        /\ UNCHANGED refused

-----------------------------------------------------------------------------
Independent == \/ BeginIndependent \/ IndependentSearch \/ EndIndependent
               \/ \E r \in Rows : _publish_independent_row(r)

Joint == \/ BeginJoint \/ JointCheckpoint \/ JointSucceeds \/ JointFails
         \/ JointCancelled

Automatic ==
    \/ BeginAutomatic \/ RefuseRoutes
    \/ \E r \in Rows : PublishPreparationFailure(r)
    \/ \E r \in Rows, end \in Ended, writes \in BOOLEAN : PrefitEnds(r, end, writes)
    \/ \E r \in Rows, quality \in Qualities, prepared, winner \in Settings :
         CommitPrefit(r, quality, prepared, winner)
    \/ \E r \in Rows, end \in Ended : WithheldPrefit(r, end)

Groups ==
    \/ \E prepared, winner \in Settings : CommitIncompleteGroup(prepared, winner)
    \/ \E isolated \in SUBSET Rows : BeginGroup(isolated)
    \/ \E quality \in [Rows -> Qualities], prepared, winner \in [Rows -> Settings] :
         GroupSucceeds(quality, prepared, winner)
    \/ GroupCheckpoint \/ GroupFails \/ GroupCancelled \/ EndAutomatic

Next == Cancel \/ WorkerDies \/ Independent \/ Joint \/ Automatic \/ Groups

Spec == Init /\ [][Next]_vars

-----------------------------------------------------------------------------
(* Properties.                                                             *)

TypeOK ==
    /\ project \in [Rows -> Dataset] /\ original \in [Rows -> Dataset]
    /\ working \in [Rows -> Dataset] /\ baseline \in [Rows -> Dataset]
    /\ batch_mode \in {"independent", "joint"} /\ signature \in Signatures
    /\ runs \in 0..MaxRuns /\ kind \in {"none", "independent", "joint", "automatic"}
    /\ running \in BOOLEAN /\ cancelled \in BOOLEAN
    /\ ending \in {"none", "returned", "cancelled", "killed"}
    /\ fits \in [Rows -> FitStates]
    /\ saved \subseteq Rows /\ refused \subseteq Rows

\* "Stop and keep the progress": once the independent fit is over -- cancelled
\* or not -- the owner has the result of every row that finished, and of every
\* row that was stopped the newest checkpoint beside its previous result.
StopKeepsProgress ==
    ~running /\ kind = "independent" /\ ending \in {"returned", "cancelled"} =>
      \A r \in Rows :
        /\ fits[r] = "decided" => project[r].result = runs
        /\ fits[r] = "stopped" => project[r].result = original[r].result
        /\ r \in saved => project[r].checkpoint
                            = Checkpoint("single", project[r].settings)

\* Stopping is not failing: a cancelled automatic run leaves every row it had
\* stopped runnable, with the checkpoint it wrote, and every row whose group
\* was not decided at its prefit; an explicit joint project is as it was.
CancelKeepsRunnable ==
    ~running /\ kind = "automatic" /\ ending = "cancelled" =>
      IF batch_mode = "joint" THEN project = original
      ELSE \A r \in Rows :
        /\ fits[r] = "stopped" =>
             /\ project[r].status = "REFINING"
             /\ project[r].result = original[r].result
             /\ r \in saved => Resumable("single", project[r])
                                /\ project[r].checkpoint # NoCheckpoint
        /\ fits[r] = "fitted" =>
             /\ project[r].status = "REFINING"
             /\ project[r].result = runs
             /\ project[r].checkpoint # GroupLayout

\* In a joint project every snapshot the owner ever holds has the results of
\* one run: no member's new result appears beside another member's old one.
JointAllOrNothing ==
    batch_mode = "joint" =>
      \A r, s \in Rows : project[r].result = project[s].result

\* In an independent project a row keeps its previous result, in every
\* snapshot, until its own outcome is there: no other row's failure, replay
\* or group takes it away.
UnfinishedKeepsResult ==
    running /\ batch_mode = "independent" =>
      \A r \in Rows : fits[r] \in {"out", "ready", "unprepared"} \cup Ended =>
        project[r].result = original[r].result

\* A checkpoint that a single search wrote can be resumed with the settings
\* that its row has in the same snapshot.
SingleCheckpointsResume ==
    \A r \in Rows : project[r].checkpoint.layout = "single" =>
      Resumable("single", project[r])

\* What an automatic run has decided and published about a row stands: no
\* other row's end, group or cancellation changes it within the run.
DecisionsStand ==
    [][\A r \in Rows :
         kind = "automatic" /\ batch_mode = "independent" /\ running
           /\ fits[r] \in {"decided", "failed"}
         => project'[r] = project[r]]_vars

\* docs/user-guide.md, docs/algorithm.md: a resume whose checkpoint does not
\* match "preserves the previous valid result/checkpoint".  Stated here of the
\* rows of an independent project whose transaction ran to its end.
RefusalKeepsEvidence ==
    ~running /\ batch_mode = "independent" /\ ending # "killed" =>
      \A r \in refused :
        /\ project[r].result = original[r].result
        /\ project[r].checkpoint = original[r].checkpoint
=============================================================================
