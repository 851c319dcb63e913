----------------------- MODULE BatchTransactionProofs -----------------------
(***************************************************************************)
(* Proofs about BatchTransaction, for every number of rows, settings and   *)
(* transactions.                                                           *)
(***************************************************************************)
EXTENDS BatchTransaction, FiniteSetTheorems, TLAPS

-----------------------------------------------------------------------------
(* The dataset operators keep the type of a dataset.                       *)

LEMMA CheckpointTypes ==
    /\ NoCheckpoint \in Checkpoints
    /\ GroupLayout \in Checkpoints
    /\ \A s \in Settings : /\ Checkpoint("single", s) \in Checkpoints
                           /\ Checkpoint("joint", s) \in Checkpoints
BY DEF Checkpoints, Checkpoint, NoCheckpoint, GroupLayout

LEMMA DatasetFields ==
    ASSUME NEW d \in Dataset
    PROVE  /\ d.status \in Statuses /\ d.result \in 0..MaxRuns
           /\ d.settings \in Settings /\ d.checkpoint \in Checkpoints
BY DEF Dataset

LEMMA WithCheckpoint ==
    ASSUME NEW d \in Dataset, NEW c \in Checkpoints
    PROVE  [d EXCEPT !.checkpoint = c] \in Dataset
BY DEF Dataset

LEMMA WithResult ==
    ASSUME NEW d \in Dataset, NEW n \in 0..MaxRuns
    PROVE  [d EXCEPT !.result = n] \in Dataset
BY DEF Dataset

LEMMA Cleared ==
    ASSUME NEW d \in Dataset
    PROVE  /\ _clear_dataset(d) \in Dataset
           /\ _clear_dataset(d).result = 0
<1>1. 0 \in 0..MaxRuns  BY BatchAssumption
<1> QED BY <1>1, CheckpointTypes DEF Dataset, _clear_dataset

LEMMA FailedDataset ==
    ASSUME NEW d \in Dataset
    PROVE  /\ _automatic_failure_dataset(d) \in Dataset
           /\ _automatic_failure_dataset(d).result = 0
<1>1. _clear_dataset(d) \in Dataset /\ _clear_dataset(d).result = 0  BY Cleared
<1>2. "FAILED" \in Statuses  BY DEF Statuses
<1> QED BY <1>1, <1>2 DEF Dataset, _automatic_failure_dataset

LEMMA ResultDataset ==
    ASSUME NEW d \in Dataset, NEW before \in Settings, NEW prepared \in Settings,
           NEW winner \in Settings, NEW quality \in Qualities,
           NEW refining \in BOOLEAN, runs \in 0..MaxRuns
    PROVE  LET e == _automatic_result_dataset(d, before, prepared, winner,
                                              quality, refining)
           IN  /\ e \in Dataset
               /\ e.result = IF quality = "invalid" THEN 0 ELSE runs
<1> DEFINE status == _automatic_status(quality, refining)
<1>1. status \in Statuses /\ (status = "FAILED" <=> quality = "invalid")
  BY DEF _automatic_status, Statuses, Qualities
<1>2. CASE quality = "invalid"
  <2>1. [_automatic_failure_dataset(d) EXCEPT !.settings = prepared] \in Dataset
        /\ [_automatic_failure_dataset(d) EXCEPT !.settings = prepared].result = 0
    BY FailedDataset DEF Dataset
  <2> QED BY <2>1, <1>1, <1>2 DEF _automatic_result_dataset
<1>3. CASE quality # "invalid"
  <2>1. ~(status = "FAILED")  BY <1>1, <1>3
  <2> DEFINE c == IF winner = prepared /\ prepared = before
                  THEN d.checkpoint ELSE NoCheckpoint
  <2>2. c \in Checkpoints  BY DatasetFields, CheckpointTypes
  <2>3. _automatic_result_dataset(d, before, prepared, winner, quality, refining)
          = [status |-> status, result |-> runs, settings |-> winner,
             checkpoint |-> c]
    BY <2>1 DEF _automatic_result_dataset
  <2> HIDE DEF status, c
  <2> QED BY <2>2, <2>3, <1>1, <1>3 DEF Dataset
<1> QED BY <1>2, <1>3

LEMMA Replayed ==
    ASSUME NEW f \in [Rows -> Dataset], NEW r \in Rows
    PROVE  _replay_checkpoints(f, r) \in [Rows -> Dataset]
<1>1. f[r] \in Dataset /\ f[r].settings \in Settings  BY DatasetFields
<1>2. [f[r] EXCEPT !.checkpoint = Checkpoint("single", f[r].settings)] \in Dataset
  BY <1>1, WithCheckpoint, CheckpointTypes
<1> QED BY <1>2 DEF _replay_checkpoints

-----------------------------------------------------------------------------
(* Type correctness.                                                       *)

LEMMA InitTyped == Init => TypeOK
<1> SUFFICES ASSUME Init PROVE TypeOK  OBVIOUS
<1>1. PICK s \in Settings : project = [r \in Rows |-> Fresh(s)]  BY DEF Init
<1>2. Fresh(s) \in Dataset
  BY BatchAssumption, CheckpointTypes DEF Fresh, Dataset, Statuses
<1>3. project \in [Rows -> Dataset]  BY <1>1, <1>2
<1>4. fits \in [Rows -> FitStates]  BY DEF Init, FitStates
<1>5. runs \in 0..MaxRuns  BY BatchAssumption DEF Init
<1>6. running \in BOOLEAN /\ cancelled \in BOOLEAN  BY ZenonT(30) DEF Init
<1>7. kind \in {"none", "independent", "joint", "automatic"}
      /\ ending \in {"none", "returned", "cancelled", "killed"}  BY DEF Init
<1>8. original \in [Rows -> Dataset] /\ working \in [Rows -> Dataset]
      /\ baseline \in [Rows -> Dataset]  BY <1>3 DEF Init
<1>9. batch_mode \in {"independent", "joint"} /\ signature \in Signatures
      /\ saved \subseteq Rows /\ refused \subseteq Rows  BY DEF Init
<1> QED BY <1>3, <1>4, <1>5, <1>6, <1>7, <1>8, <1>9 DEF TypeOK

\* What every step that ends a transaction, and every step within one, does
\* to the variables it does not name.
LEMMA EndTyped ==
    ASSUME TypeOK, NEW how \in {"returned", "cancelled", "killed"},
           NEW last \in [Rows -> Dataset], End(how, last), refused' \subseteq Rows
    PROVE  TypeOK'
<1>1. running' \in BOOLEAN  BY Zenon DEF End
<1>2. cancelled' \in BOOLEAN  BY Zenon DEF End, TypeOK
<1>3. /\ project' \in [Rows -> Dataset] /\ original' \in [Rows -> Dataset]
      /\ working' \in [Rows -> Dataset] /\ baseline' \in [Rows -> Dataset]
  BY DEF End, TypeOK
<1>4. /\ batch_mode' \in {"independent", "joint"} /\ signature' \in Signatures
      /\ runs' \in 0..MaxRuns
      /\ kind' \in {"none", "independent", "joint", "automatic"}
      /\ ending' \in {"none", "returned", "cancelled", "killed"}
      /\ fits' \in [Rows -> FitStates] /\ saved' \subseteq Rows
  BY DEF End, TypeOK, fixed
<1> QED BY <1>1, <1>2, <1>3, <1>4 DEF TypeOK

LEMMA ContinueTyped ==
    ASSUME TypeOK, Continue,
           project' \in [Rows -> Dataset], working' \in [Rows -> Dataset],
           baseline' \in [Rows -> Dataset], fits' \in [Rows -> FitStates],
           saved' \subseteq Rows, refused' \subseteq Rows
    PROVE  TypeOK'
<1>1. running' \in BOOLEAN /\ cancelled' \in BOOLEAN  BY Zenon DEF Continue, TypeOK
<1>2. /\ batch_mode' \in {"independent", "joint"} /\ signature' \in Signatures
      /\ runs' \in 0..MaxRuns
      /\ kind' \in {"none", "independent", "joint", "automatic"}
      /\ ending' \in {"none", "returned", "cancelled", "killed"}
      /\ original' \in [Rows -> Dataset]
  BY DEF Continue, TypeOK, fixed
<1> QED BY <1>1, <1>2 DEF TypeOK

LEMMA BeginTyped ==
    ASSUME TypeOK, NEW k \in {"independent", "joint", "automatic"},
           NEW rows \in SUBSET Rows, NEW start \in [Rows -> Dataset],
           Begin(k, rows, start)
    PROVE  TypeOK'
<1>1. running' \in BOOLEAN /\ cancelled' \in BOOLEAN  BY Zenon DEF Begin
<1>2. runs' \in 0..MaxRuns  BY BatchAssumption DEF Begin, TypeOK
<1>3. fits' \in [Rows -> FitStates]  BY DEF Begin, FitStates
<1>4. /\ batch_mode' \in {"independent", "joint"} /\ signature' \in Signatures
      /\ kind' \in {"none", "independent", "joint", "automatic"}
      /\ ending' \in {"none", "returned", "cancelled", "killed"}
      /\ saved' \subseteq Rows /\ refused' \subseteq Rows
  BY DEF Begin, TypeOK, fixed
<1>5. /\ project' \in [Rows -> Dataset] /\ original' \in [Rows -> Dataset]
      /\ working' \in [Rows -> Dataset] /\ baseline' \in [Rows -> Dataset]
  BY DEF Begin, TypeOK
<1> QED BY <1>1, <1>2, <1>3, <1>4, <1>5 DEF TypeOK

LEMMA Functions ==
    ASSUME TypeOK
    PROVE  /\ project \in [Rows -> Dataset] /\ original \in [Rows -> Dataset]
           /\ working \in [Rows -> Dataset] /\ baseline \in [Rows -> Dataset]
           /\ fits \in [Rows -> FitStates] /\ runs \in 0..MaxRuns
           /\ saved \subseteq Rows /\ refused \subseteq Rows
BY DEF TypeOK

LEMMA ClearAllTyped ==
    ASSUME NEW f \in [Rows -> Dataset]
    PROVE  _clear_all(f) \in [Rows -> Dataset]
BY Cleared DEF _clear_all

LEMMA FailureTyped ==
    ASSUME NEW f \in [Rows -> Dataset]
    PROVE  [r \in Rows |-> _automatic_failure_dataset(f[r])] \in [Rows -> Dataset]
BY FailedDataset

LEMMA JointFailureTyped ==
    ASSUME TypeOK, _automatic_joint_failure, refused' \subseteq Rows
    PROVE  TypeOK'
BY Functions, FailureTyped, EndTyped DEF _automatic_joint_failure

LEMMA IndependentTyped == ASSUME TypeOK, Independent PROVE TypeOK'
<1>1. CASE BeginIndependent
  BY <1>1, Functions, BeginTyped DEF BeginIndependent
<1>2. CASE IndependentSearch
  <2>1. PICK r \in Rows, end \in Ended, writes \in BOOLEAN :
          DatasetFit(r, end, writes) /\ fits' = [fits EXCEPT ![r] = end]
    BY <1>2 DEF IndependentSearch
  <2>2. saved' \subseteq Rows /\ refused' \subseteq Rows
    BY <2>1, Functions DEF DatasetFit
  <2>3. fits' \in [Rows -> FitStates]  BY <2>1, Functions DEF FitStates
  <2>4. Continue /\ UNCHANGED <<project, working, baseline>>
    BY <1>2 DEF IndependentSearch
  <2> QED BY <2>2, <2>3, <2>4, Functions, ContinueTyped
<1>3. CASE EndIndependent
  BY <1>3, Functions, EndTyped DEF EndIndependent
<1>4. ASSUME NEW r \in Rows, _publish_independent_row(r) PROVE TypeOK'
  <2> DEFINE row == IF r \in saved THEN _replay_checkpoints(working, r) ELSE working
  <2>1. row \in [Rows -> Dataset]  BY Functions, Replayed
  <2>2. [working EXCEPT ![r] = _clear_dataset(@)] \in [Rows -> Dataset]
    BY Functions, Cleared
  <2>3. [row EXCEPT ![r].result = runs] \in [Rows -> Dataset]
    BY <2>1, Functions, WithResult
  <2>4. /\ working' \in {[working EXCEPT ![r] = _clear_dataset(@)],
                         [row EXCEPT ![r].result = runs], row}
        /\ project' \in {row, project}
        /\ fits' = [fits EXCEPT ![r] = PublishedAs(@)]
        /\ Continue /\ UNCHANGED <<baseline, saved, refused>>
    BY <1>4 DEF _publish_independent_row
  <2> HIDE DEF row
  <2>5. fits' \in [Rows -> FitStates]
    BY <2>4, Functions DEF PublishedAs, FitStates, Published
  <2> QED BY <2>1, <2>2, <2>3, <2>4, <2>5, Functions, ContinueTyped
<1> QED BY <1>1, <1>2, <1>3, <1>4 DEF Independent

LEMMA JointTyped == ASSUME TypeOK, Joint PROVE TypeOK'
<1>1. CASE BeginJoint
  BY <1>1, Functions, BeginTyped DEF BeginJoint
<1>2. CASE JointCheckpoint
  <2>1. \A r \in Rows : [working[r] EXCEPT !.checkpoint =
                        Checkpoint("joint", working[r].settings)] \in Dataset
    BY Functions, DatasetFields, CheckpointTypes, WithCheckpoint
  <2>2. working' \in [Rows -> Dataset]  BY <1>2, <2>1 DEF JointCheckpoint
  <2> QED BY <1>2, <2>2, Functions, ContinueTyped DEF JointCheckpoint
<1>3. CASE JointSucceeds
  <2>1. [r \in Rows |-> [working[r] EXCEPT !.result = runs]] \in [Rows -> Dataset]
    BY Functions, WithResult
  <2> QED BY <1>3, <2>1, Functions, EndTyped DEF JointSucceeds
<1>4. CASE JointFails
  <2>1. refused' \subseteq Rows  BY <1>4 DEF JointFails
  <2> QED BY <1>4, <2>1, Functions, ClearAllTyped, EndTyped DEF JointFails
<1>5. CASE JointCancelled
  BY <1>5, Functions, EndTyped DEF JointCancelled
<1> QED BY <1>1, <1>2, <1>3, <1>4, <1>5 DEF Joint

LEMMA AutomaticTyped == ASSUME TypeOK, Automatic PROVE TypeOK'
<1>1. CASE BeginAutomatic
  <2> DEFINE start == [r \in Rows |-> IF r \in _automatic_indices
                         THEN [project[r] EXCEPT !.status = "REFINING"]
                         ELSE project[r]]
  <2>1. start \in [Rows -> Dataset]  BY Functions DEF Dataset, Statuses
  <2>2. _automatic_indices \in SUBSET Rows  BY DEF _automatic_indices
  <2>3. Begin("automatic", _automatic_indices, start)  BY <1>1 DEF BeginAutomatic
  <2> HIDE DEF start
  <2> QED BY <2>1, <2>2, <2>3, BeginTyped
<1>2. CASE RefuseRoutes
  <2>1. running' \in BOOLEAN /\ cancelled' \in BOOLEAN
    BY <1>2, Zenon DEF RefuseRoutes, TypeOK
  <2>2. project' \in [Rows -> Dataset]  BY <1>2, Functions, FailureTyped DEF RefuseRoutes
  <2>3. runs' \in 0..MaxRuns  BY <1>2, BatchAssumption DEF RefuseRoutes, TypeOK
  <2>4. fits' \in [Rows -> FitStates]  BY <1>2 DEF RefuseRoutes, FitStates
  <2>5. original' \in [Rows -> Dataset] /\ working' \in [Rows -> Dataset]
        /\ baseline' \in [Rows -> Dataset]
    BY <1>2, <2>2, Functions DEF RefuseRoutes
  <2>6. /\ batch_mode' \in {"independent", "joint"} /\ signature' \in Signatures
        /\ kind' \in {"none", "independent", "joint", "automatic"}
        /\ ending' \in {"none", "returned", "cancelled", "killed"}
        /\ saved' \subseteq Rows /\ refused' \subseteq Rows
    BY <1>2 DEF RefuseRoutes, TypeOK, fixed
  <2> QED BY <2>1, <2>2, <2>3, <2>4, <2>5, <2>6 DEF TypeOK
<1>3. ASSUME NEW r \in Rows, PublishPreparationFailure(r) PROVE TypeOK'
  <2>1. CASE batch_mode = "joint"
    BY <1>3, <2>1, Functions, JointFailureTyped DEF PublishPreparationFailure
  <2>2. CASE batch_mode # "joint"
    <3>1. [working EXCEPT ![r] = _automatic_failure_dataset(@)] \in [Rows -> Dataset]
      BY Functions, FailedDataset
    <3>2. [fits EXCEPT ![r] = "failed"] \in [Rows -> FitStates]
      BY Functions DEF FitStates, Published
    <3> QED BY <1>3, <2>2, <3>1, <3>2, Functions, ContinueTyped
        DEF PublishPreparationFailure
  <2> QED BY <2>1, <2>2
<1>4. ASSUME NEW r \in Rows, NEW end \in Ended, NEW writes \in BOOLEAN,
             PrefitEnds(r, end, writes)
      PROVE  TypeOK'
  <2>1. saved' \subseteq Rows /\ refused' \subseteq Rows
    BY <1>4, Functions DEF PrefitEnds, DatasetFit
  <2>2. fits' \in [Rows -> FitStates]  BY <1>4, Functions DEF PrefitEnds, FitStates
  <2>3. working' \in [Rows -> Dataset] /\ project' \in [Rows -> Dataset]
    BY <1>4, Functions, Replayed DEF PrefitEnds
  <2>4. Continue /\ UNCHANGED baseline  BY <1>4 DEF PrefitEnds
  <2> QED BY <2>1, <2>2, <2>3, <2>4, Functions, ContinueTyped
<1>5. ASSUME NEW r \in Rows, NEW quality \in Qualities, NEW prepared \in Settings,
             NEW winner \in Settings, CommitPrefit(r, quality, prepared, winner)
      PROVE  TypeOK'
  <2> DEFINE refining == Cardinality(Group(r)) > 1
             row == _automatic_result_dataset(working[r], original[r].settings,
                                         prepared, winner, quality, refining)
  <2>1. working[r] \in Dataset /\ original[r].settings \in Settings
    BY Functions, DatasetFields
  <2>2. refining \in BOOLEAN  OBVIOUS
  <2>3. row \in Dataset  BY <2>1, <2>2, Functions, ResultDataset, Zenon
  <2>4. _automatic_failure_dataset(working[r]) \in Dataset  BY <2>1, FailedDataset
  <2>5. /\ working' \in {[working EXCEPT ![r] = row], working,
                         [working EXCEPT ![r] = _automatic_failure_dataset(@)]}
        /\ project' = working' /\ Continue /\ UNCHANGED <<baseline, saved, refused>>
    BY <1>5 DEF CommitPrefit
  <2>6. fits' \in [Rows -> FitStates]
    BY <1>5, Functions DEF CommitPrefit, PublishedAs, FitStates, Published, Prefitted
  <2> HIDE DEF row
  <2>7. working' \in [Rows -> Dataset]  BY <2>3, <2>4, <2>5, Functions
  <2> QED BY <2>5, <2>6, <2>7, Functions, ContinueTyped
<1>6. ASSUME NEW r \in Rows, NEW end \in Ended, WithheldPrefit(r, end) PROVE TypeOK'
  <2>1. CASE end = "ok"
    <3>1. saved' \subseteq Rows /\ refused' \subseteq Rows
      BY <1>6, <2>1, Functions DEF WithheldPrefit, DatasetFit
    <3>2. fits' \in [Rows -> FitStates]
      BY <1>6, <2>1, Functions DEF WithheldPrefit, FitStates, Prefitted
    <3>3. Continue /\ UNCHANGED <<project, working, baseline>>
      BY <1>6, <2>1 DEF WithheldPrefit
    <3> QED BY <3>1, <3>2, <3>3, Functions, ContinueTyped
  <2>2. CASE end = "cancelled"
    BY <1>6, <2>2, Functions, EndTyped DEF WithheldPrefit
  <2>3. CASE end # "ok" /\ end # "cancelled"
    <3>1. _automatic_joint_failure  BY <1>6, <2>3 DEF WithheldPrefit
    <3>2. refused' \subseteq Rows  BY <1>6, <2>3, Functions DEF WithheldPrefit
    <3> QED BY <3>1, <3>2, JointFailureTyped
  <2> QED BY <2>1, <2>2, <2>3
<1> QED BY <1>1, <1>2, <1>3, <1>4, <1>5, <1>6 DEF Automatic

LEMMA GroupsTyped == ASSUME TypeOK, Groups PROVE TypeOK'
<1>1. ASSUME NEW prepared \in Settings, NEW winner \in Settings,
             CommitIncompleteGroup(prepared, winner)
      PROVE  TypeOK'
  <2>1. PICK r \in Rows :
          /\ working' = [working EXCEPT ![r] =
               _automatic_result_dataset(@, original[r].settings, prepared,
                 winner, IF fits[r] = "winnerless" THEN "invalid" ELSE "review",
                 FALSE)]
          /\ fits' = [fits EXCEPT ![r] = "decided"]
    BY <1>1 DEF CommitIncompleteGroup
  <2> DEFINE quality == IF fits[r] = "winnerless" THEN "invalid" ELSE "review"
             row == _automatic_result_dataset(working[r], original[r].settings,
                                         prepared, winner, quality, FALSE)
  <2>2. quality \in Qualities  BY DEF Qualities
  <2>3. working[r] \in Dataset /\ original[r].settings \in Settings
    BY Functions, DatasetFields
  <2> HIDE DEF quality
  <2>4. row \in Dataset  BY <2>2, <2>3, Functions, ResultDataset, Zenon
  <2>5. working' = [working EXCEPT ![r] = row]  BY <2>1 DEF quality
  <2> HIDE DEF row
  <2>6. working' \in [Rows -> Dataset]  BY <2>4, <2>5, Functions
  <2>7. fits' \in [Rows -> FitStates]  BY <2>1, Functions DEF FitStates, Published
  <2>8. project' = working' /\ Continue /\ UNCHANGED <<baseline, saved, refused>>
    BY <1>1 DEF CommitIncompleteGroup
  <2> QED BY <2>6, <2>7, <2>8, Functions, ContinueTyped
<1>2. ASSUME NEW isolated \in SUBSET Rows, BeginGroup(isolated) PROVE TypeOK'
  <2>1. fits' \in [Rows -> FitStates]
    BY <1>2, Functions DEF BeginGroup, FitStates, InGroup
  <2>2. baseline' = working /\ Continue /\ UNCHANGED <<project, working, saved, refused>>
    BY <1>2 DEF BeginGroup
  <2> QED BY <2>1, <2>2, Functions, ContinueTyped
<1>3. CASE GroupCheckpoint
  <2>1. \A r \in Rows : [working[r] EXCEPT !.checkpoint =
          IF r \in Qualified THEN GroupLayout ELSE NoCheckpoint] \in Dataset
    BY Functions, CheckpointTypes, WithCheckpoint
  <2>2. working' \in [Rows -> Dataset]  BY <1>3, <2>1, Functions DEF GroupCheckpoint
  <2>3. project' = working' /\ Continue /\ UNCHANGED <<baseline, fits, saved, refused>>
    BY <1>3 DEF GroupCheckpoint
  <2> QED BY <2>2, <2>3, Functions, ContinueTyped
<1>4. ASSUME NEW quality \in [Rows -> Qualities], NEW prepared \in [Rows -> Settings],
             NEW winner \in [Rows -> Settings], GroupSucceeds(quality, prepared, winner)
      PROVE  TypeOK'
  <2>1. ASSUME NEW r \in Rows
        PROVE  _automatic_result_dataset(working[r], original[r].settings,
                 prepared[r], winner[r], quality[r], FALSE) \in Dataset
    <3>1. /\ working[r] \in Dataset /\ original[r].settings \in Settings
          /\ prepared[r] \in Settings /\ winner[r] \in Settings
          /\ quality[r] \in Qualities
      BY Functions, DatasetFields
    <3> QED BY <3>1, Functions, ResultDataset, Zenon
  <2>2. working' \in [Rows -> Dataset]  BY <1>4, <2>1, Functions DEF GroupSucceeds
  <2>3. fits' \in [Rows -> FitStates]
    BY <1>4, Functions DEF GroupSucceeds, FitStates, Published
  <2>4. project' = working' /\ Continue /\ UNCHANGED <<baseline, saved, refused>>
    BY <1>4 DEF GroupSucceeds
  <2> QED BY <2>2, <2>3, <2>4, Functions, ContinueTyped
<1>5. CASE GroupFails
  <2>1. CASE batch_mode = "joint"
    BY <1>5, <2>1, Functions, JointFailureTyped DEF GroupFails
  <2>2. CASE batch_mode # "joint"
    <3>1. working' \in [Rows -> Dataset]
      BY <1>5, <2>2, Functions, FailedDataset DEF GroupFails
    <3>2. fits' \in [Rows -> FitStates]
      BY <1>5, <2>2, Functions DEF GroupFails, FitStates, Published
    <3>3. project' = working' /\ Continue /\ UNCHANGED <<baseline, saved, refused>>
      BY <1>5, <2>2 DEF GroupFails
    <3> QED BY <3>1, <3>2, <3>3, Functions, ContinueTyped
  <2> QED BY <2>1, <2>2
<1>6. CASE GroupCancelled
  <2>1. fits' \in [Rows -> FitStates]
    BY <1>6, Functions DEF GroupCancelled, FitStates, Prefitted
  <2>2. working' = baseline /\ project' = working' /\ Continue
        /\ UNCHANGED <<baseline, saved, refused>>
    BY <1>6 DEF GroupCancelled
  <2> QED BY <2>1, <2>2, Functions, ContinueTyped
<1>7. CASE EndAutomatic
  BY <1>7, Functions, EndTyped DEF EndAutomatic
<1> QED BY <1>1, <1>2, <1>3, <1>4, <1>5, <1>6, <1>7 DEF Groups

\* TypeOK is inductive: every step keeps every project a function from the
\* rows to well-formed datasets.
THEOREM TypeCorrect == Spec => []TypeOK
<1>1. TypeOK /\ [Next]_vars => TypeOK'
  <2> SUFFICES ASSUME TypeOK, [Next]_vars PROVE TypeOK'  OBVIOUS
  <2>1. CASE Cancel
    <3>1. running' \in BOOLEAN /\ cancelled' \in BOOLEAN
      BY <2>1, Zenon DEF Cancel, TypeOK
    <3> QED BY <2>1, <3>1 DEF Cancel, TypeOK, fixed
  <2>2. CASE WorkerDies
    BY <2>2, Functions, EndTyped DEF WorkerDies
  <2>3. CASE UNCHANGED vars
    BY <2>3 DEF vars, TypeOK, fixed
  <2> QED BY <2>1, <2>2, <2>3, IndependentTyped, JointTyped, AutomaticTyped,
             GroupsTyped DEF Next
<1> QED BY <1>1, InitTyped, PTL DEF Spec

-----------------------------------------------------------------------------
(***************************************************************************)
(* What an automatic run has decided stands.  The inductive part: a decided*)
(* row is the same in the working project and in the owner's, and while a  *)
(* group is being refined no prefit is open and every other row is the same*)
(* in the baseline the group could be taken back to.                       *)
(***************************************************************************)
Decided == {"decided", "failed"}
Incremental == running /\ kind = "automatic" /\ batch_mode = "independent"

DecisionsInv ==
    Incremental =>
      /\ \A r \in Rows : fits[r] \in Decided => working[r] = project[r]
      /\ \A r \in Rows : fits[r] \in InGroup =>
           \A s \in Rows :
             /\ fits[s] \notin Ended \cup {"unprepared", "ready"}
             /\ fits[s] \notin InGroup => baseline[s] = working[s]

Stands == \A r \in Rows : Incremental /\ fits[r] \in Decided
                           => project'[r] = project[r]

LEMMA DecisionsInit == Init => DecisionsInv
BY DEF Init, DecisionsInv, Incremental

\* A step of one row, open before, that publishes the working project.
LEMMA RowDecided ==
    ASSUME TypeOK, DecisionsInv, Incremental, Continue,
           NEW r \in Rows, NEW d, NEW f,
           fits[r] \in Ended \cup {"unprepared", "ready"} \cup Prefitted,
           fits[r] \in Prefitted => \A s \in Rows : fits[s] \notin InGroup,
           f \notin InGroup,
           working' = [working EXCEPT ![r] = d], project' = working',
           fits' = [fits EXCEPT ![r] = f]
    PROVE  DecisionsInv' /\ Stands
<1>1. \A s \in Rows : fits[s] \notin InGroup
  <2>1. CASE fits[r] \in Prefitted  BY <2>1
  <2>2. CASE fits[r] \in Ended \cup {"unprepared", "ready"}
    BY <2>2, Zenon DEF DecisionsInv
  <2> QED BY <2>1, <2>2
<1>2. \A s \in Rows : fits'[s] \notin InGroup  BY <1>1, Functions
<1>3. Stands
  BY Functions DEF Stands, DecisionsInv, Decided, Ended, Prefitted
<1>4. \A s \in Rows : working'[s] = project'[s]  OBVIOUS
<1> QED BY <1>2, <1>3, <1>4 DEF DecisionsInv

\* A step of a whole group that publishes the working project.
LEMMA GroupDecided ==
    ASSUME TypeOK, DecisionsInv, Incremental, Continue,
           \A s \in Rows : s \notin Refining =>
              working'[s] = working[s] /\ fits'[s] = fits[s],
           \/ \A s \in Rows : fits'[s] = fits[s] /\ baseline'[s] = baseline[s]
           \/ \A s \in Rows : fits'[s] \notin InGroup,
           project' = working'
    PROVE  DecisionsInv' /\ Stands
<1>1. Stands
  BY Functions DEF Stands, DecisionsInv, Decided, Refining, InGroup
<1>2. \A s \in Rows : working'[s] = project'[s]  OBVIOUS
<1>3. CASE \A s \in Rows : fits'[s] = fits[s] /\ baseline'[s] = baseline[s]
  BY <1>1, <1>2, <1>3 DEF DecisionsInv, Refining
<1>4. CASE \A s \in Rows : fits'[s] \notin InGroup
  BY <1>1, <1>2, <1>4 DEF DecisionsInv
<1> QED BY <1>3, <1>4

\* A step that ends the run.
LEMMA RunDecided ==
    ASSUME DecisionsInv, NEW how, NEW last, End(how, last),
           last = project \/ (Incremental => last = working)
    PROVE  DecisionsInv' /\ Stands
BY DEF DecisionsInv, Stands, Incremental, End, Decided

\* A run that begins has decided nothing yet.
LEMMA BeginDecided ==
    ASSUME TypeOK, NEW k, NEW rows, NEW start, Begin(k, rows, start)
    PROVE  DecisionsInv' /\ Stands
<1>1. \A r \in Rows : fits'[r] \in {"unprepared", "ready", "out"}  BY DEF Begin
<1>2. Stands  BY DEF Stands, Incremental, Begin
<1> QED BY <1>1, <1>2 DEF DecisionsInv, Decided, InGroup

LEMMA AutomaticDecided ==
    ASSUME TypeOK, DecisionsInv, Automatic
    PROVE  DecisionsInv' /\ Stands
<1>1. CASE BeginAutomatic
  BY <1>1, BeginDecided DEF BeginAutomatic
<1>2. CASE RefuseRoutes
  BY <1>2 DEF RefuseRoutes, DecisionsInv, Stands, Incremental
<1>3. ASSUME NEW r \in Rows, PublishPreparationFailure(r)
      PROVE  DecisionsInv' /\ Stands
  <2>1. CASE batch_mode = "joint"
    BY <1>3, <2>1, RunDecided
    DEF PublishPreparationFailure, _automatic_joint_failure, Incremental
  <2>2. CASE batch_mode # "joint"
    <3>1. Incremental
      BY <1>3, <2>2 DEF PublishPreparationFailure, Doing, Incremental, TypeOK
    <3>2. "failed" \notin InGroup  BY DEF InGroup
    <3>3. /\ working' = [working EXCEPT ![r] = _automatic_failure_dataset(working[r])]
          /\ project' = working' /\ fits' = [fits EXCEPT ![r] = "failed"]
          /\ Continue /\ fits[r] = "unprepared"
      BY <1>3, <2>2 DEF PublishPreparationFailure
    <3> QED BY <3>1, <3>2, <3>3, RowDecided DEF Prefitted
  <2> QED BY <2>1, <2>2
<1>4. ASSUME NEW r \in Rows, NEW end \in Ended, NEW writes \in BOOLEAN,
             PrefitEnds(r, end, writes)
      PROVE  DecisionsInv' /\ Stands
  <2>1. CASE batch_mode = "joint"
    BY <1>4, <2>1 DEF PrefitEnds, Continue, DecisionsInv, Stands, Incremental, fixed
  <2>2. CASE batch_mode # "joint"
    <3>1. Incremental  BY <1>4, <2>2 DEF PrefitEnds, Doing, Incremental, TypeOK
    <3>2. /\ fits[r] = "ready" /\ fits' = [fits EXCEPT ![r] = end]
          /\ working' = IF writes THEN _replay_checkpoints(working, r) ELSE working
          /\ project' = IF writes THEN working' ELSE project
      BY <1>4 DEF PrefitEnds, DatasetFit
    <3>3. \A s \in Rows : s # r => working'[s] = working[s] /\ fits'[s] = fits[s]
      BY <3>2, Functions DEF _replay_checkpoints
    <3>4. \A s \in Rows : fits[s] \notin InGroup
      <4>1. fits[r] \in Ended \cup {"unprepared", "ready"}  BY <3>2
      <4> QED BY <3>1, <4>1, Zenon DEF DecisionsInv
    <3>5. \A s \in Rows : fits'[s] \notin InGroup
      BY <3>2, <3>4, Functions DEF Ended, InGroup
    <3>6. Stands
      BY <3>1, <3>2, <3>3 DEF Stands, DecisionsInv, Decided
    <3>7. \A s \in Rows : fits'[s] \in Decided => working'[s] = project'[s]
      BY <3>1, <3>2, <3>3, Functions DEF DecisionsInv, Decided, Ended
    <3> QED BY <3>5, <3>6, <3>7 DEF DecisionsInv
  <2> QED BY <2>1, <2>2
<1>5. ASSUME NEW r \in Rows, NEW quality \in Qualities, NEW prepared \in Settings,
             NEW winner \in Settings, CommitPrefit(r, quality, prepared, winner)
      PROVE  DecisionsInv' /\ Stands
  <2>1. CASE batch_mode = "joint"
    BY <1>5, <2>1 DEF CommitPrefit, Continue, DecisionsInv, Stands, Incremental, fixed
  <2>2. CASE batch_mode # "joint"
    <3>1. Incremental  BY <1>5, <2>2 DEF CommitPrefit, Doing, Incremental, TypeOK
    <3>2. fits[r] \in Ended /\ Continue /\ project' = working'
      BY <1>5 DEF CommitPrefit
    <3>3. PICK d : working' = [working EXCEPT ![r] = d]
      <4>1. working = [working EXCEPT ![r] = working[r]]  BY Functions
      <4> QED BY <1>5, <4>1 DEF CommitPrefit
    <3>4. PICK f \in Published \cup Prefitted : fits' = [fits EXCEPT ![r] = f]
      BY <1>5, Functions DEF CommitPrefit, PublishedAs, Published, Prefitted
    <3>5. f \notin InGroup /\ fits[r] \notin Prefitted
      BY <3>2, <3>4 DEF InGroup, Published, Prefitted, Ended
    <3> QED BY <3>1, <3>2, <3>3, <3>4, <3>5, RowDecided
  <2> QED BY <2>1, <2>2
<1>6. ASSUME NEW r \in Rows, NEW end \in Ended, WithheldPrefit(r, end)
      PROVE  DecisionsInv' /\ Stands
  <2>1. ~Incremental  BY <1>6 DEF WithheldPrefit, Explicit, Incremental
  <2>2. Stands  BY <2>1 DEF Stands
  <2>3. ~Incremental'
    BY <2>1, <1>6 DEF WithheldPrefit, Continue, End, _automatic_joint_failure,
                      Incremental, fixed
  <2> QED BY <2>2, <2>3 DEF DecisionsInv
<1> QED BY <1>1, <1>2, <1>3, <1>4, <1>5, <1>6 DEF Automatic

LEMMA GroupsDecided ==
    ASSUME TypeOK, DecisionsInv, Groups, Incremental
    PROVE  DecisionsInv' /\ Stands
<1>1. ASSUME NEW prepared \in Settings, NEW winner \in Settings,
             CommitIncompleteGroup(prepared, winner)
      PROVE  DecisionsInv' /\ Stands
  <2>1. PICK r \in Rows :
          /\ NextGroup = {r}
          /\ working' = [working EXCEPT ![r] =
               _automatic_result_dataset(@, original[r].settings, prepared,
                 winner, IF fits[r] = "winnerless" THEN "invalid" ELSE "review",
                 FALSE)]
          /\ fits' = [fits EXCEPT ![r] = "decided"]
    BY <1>1 DEF CommitIncompleteGroup
  <2>2. PICK d : working' = [working EXCEPT ![r] = d]  BY <2>1
  <2>3. fits[r] \in Prefitted  BY <2>1 DEF NextGroup
  <2>4. \A s \in Rows : fits[s] \notin InGroup
    BY <1>1 DEF CommitIncompleteGroup, Settled, NoneIs
  <2>5. "decided" \notin InGroup  BY DEF InGroup
  <2>6. Continue /\ project' = working'  BY <1>1 DEF CommitIncompleteGroup
  <2>7. fits' = [fits EXCEPT ![r] = "decided"]  BY <2>1
  <2> QED BY <2>2, <2>3, <2>4, <2>5, <2>6, <2>7, RowDecided
<1>2. ASSUME NEW isolated \in SUBSET Rows, BeginGroup(isolated)
      PROVE  DecisionsInv' /\ Stands
  <2>1. \A s \in Rows : fits[s] \notin Ended \cup InGroup \cup {"unprepared", "ready"}
    BY <1>2 DEF BeginGroup, Settled, NoneIs
  <2>2. /\ baseline' = working /\ UNCHANGED <<working, project>>
        /\ isolated \subseteq NextGroup
        /\ fits' = [r \in Rows |-> IF r \in isolated THEN "isolated"
                     ELSE IF r \in NextGroup THEN "qualified" ELSE fits[r]]
    BY <1>2 DEF BeginGroup
  <2>3. \A s \in Rows : fits'[s] \in InGroup \/ fits'[s] = fits[s]
    BY <2>2 DEF InGroup
  <2>4. \A s \in Rows : fits'[s] \notin Ended \cup {"unprepared", "ready"}
    BY <2>1, <2>3 DEF InGroup, Ended
  <2>5. \A s \in Rows : fits'[s] \in Decided => fits[s] \in Decided
    BY <2>3 DEF InGroup, Decided
  <2>6. Stands  BY <2>2 DEF Stands
  <2> QED BY <2>2, <2>4, <2>5, <2>6 DEF DecisionsInv
<1>3. CASE GroupCheckpoint
  <2>1. \A s \in Rows : s \notin Refining => working'[s] = working[s]
    BY <1>3 DEF GroupCheckpoint
  <2>2. fits' = fits /\ baseline' = baseline /\ project' = working' /\ Continue
    BY <1>3 DEF GroupCheckpoint
  <2> QED BY <2>1, <2>2, GroupDecided
<1>4. ASSUME NEW quality \in [Rows -> Qualities], NEW prepared \in [Rows -> Settings],
             NEW winner \in [Rows -> Settings], GroupSucceeds(quality, prepared, winner)
      PROVE  DecisionsInv' /\ Stands
  <2>1. \A s \in Rows : s \notin Refining =>
           working'[s] = working[s] /\ fits'[s] = fits[s]
    BY <1>4 DEF GroupSucceeds
  <2>2. \A s \in Rows : fits'[s] \notin InGroup
    BY <1>4 DEF GroupSucceeds, Refining, InGroup
  <2>3. project' = working' /\ Continue  BY <1>4 DEF GroupSucceeds
  <2> QED BY <2>1, <2>2, <2>3, GroupDecided
<1>5. CASE GroupFails
  <2>1. batch_mode # "joint"  BY DEF Incremental
  <2>2. \A s \in Rows : s \notin Refining =>
           working'[s] = working[s] /\ fits'[s] = fits[s]
    BY <1>5, <2>1 DEF GroupFails
  <2>3. \A s \in Rows : fits'[s] \notin InGroup
    BY <1>5, <2>1 DEF GroupFails, Refining, InGroup
  <2>4. project' = working' /\ Continue  BY <1>5, <2>1 DEF GroupFails
  <2> QED BY <2>2, <2>3, <2>4, GroupDecided
<1>6. CASE GroupCancelled
  <2>1. \A s \in Rows : s \notin Refining => baseline[s] = working[s]
    <3>1. PICK r \in Rows : fits[r] \in InGroup
      BY <1>6 DEF GroupCancelled, Refining
    <3>2. \A s \in Rows : fits[s] \notin InGroup => baseline[s] = working[s]
      BY <3>1, Zenon DEF DecisionsInv
    <3> QED BY <3>2 DEF Refining
  <2>2. \A s \in Rows : s \notin Refining =>
           working'[s] = working[s] /\ fits'[s] = fits[s]
    BY <1>6, <2>1 DEF GroupCancelled
  <2>3. \A s \in Rows : fits'[s] \notin InGroup
    BY <1>6 DEF GroupCancelled, Refining, InGroup
  <2>4. project' = working' /\ Continue  BY <1>6 DEF GroupCancelled
  <2> QED BY <2>2, <2>3, <2>4, GroupDecided
<1>7. CASE EndAutomatic
  <2>1. End("returned", working) \/ End("cancelled", project)
    BY <1>7 DEF EndAutomatic, Incremental
  <2> QED BY <2>1, RunDecided
<1> QED BY <1>1, <1>2, <1>3, <1>4, <1>5, <1>6, <1>7 DEF Groups

LEMMA StepDecided ==
    ASSUME TypeOK, DecisionsInv, [Next]_vars
    PROVE  DecisionsInv' /\ Stands
<1>1. CASE Cancel
  BY <1>1 DEF Cancel, DecisionsInv, Stands, Incremental, fixed
<1>2. CASE WorkerDies
  BY <1>2, RunDecided DEF WorkerDies
<1>3. CASE Independent
  <2>1. CASE BeginIndependent
    BY <2>1, BeginDecided DEF BeginIndependent
  <2>2. CASE ~BeginIndependent
    <3>1. running /\ kind = "independent" /\ kind' = kind
      BY <1>3, <2>2 DEF Independent, IndependentSearch, EndIndependent,
         _publish_independent_row, Doing, Continue, End
    <3> QED BY <3>1 DEF DecisionsInv, Stands, Incremental
  <2> QED BY <2>1, <2>2
<1>4. CASE Joint
  <2>1. CASE BeginJoint
    BY <2>1, BeginDecided DEF BeginJoint
  <2>2. CASE ~BeginJoint
    <3>1. running /\ kind = "joint" /\ kind' = kind
      BY <1>4, <2>2 DEF Joint, JointCheckpoint, JointSucceeds, JointFails,
         JointCancelled, Doing, Continue, End
    <3> QED BY <3>1 DEF DecisionsInv, Stands, Incremental
  <2> QED BY <2>1, <2>2
<1>5. CASE Automatic
  BY <1>5, AutomaticDecided
<1>6. CASE Groups
  <2>1. CASE Incremental
    BY <1>6, <2>1, GroupsDecided
  <2>2. CASE ~Incremental
    <3>1. running /\ kind = "automatic"
      BY <1>6 DEF Groups, CommitIncompleteGroup, BeginGroup, GroupCheckpoint,
         GroupSucceeds, GroupFails, GroupCancelled, EndAutomatic, Doing
    <3>2. batch_mode' = batch_mode
      BY <1>6 DEF Groups, CommitIncompleteGroup, BeginGroup, GroupCheckpoint,
         GroupSucceeds, GroupFails, GroupCancelled, EndAutomatic, Continue, End,
         _automatic_joint_failure, fixed
    <3> QED BY <2>2, <3>1, <3>2 DEF DecisionsInv, Stands, Incremental
  <2> QED BY <2>1, <2>2
<1>7. CASE UNCHANGED vars
  BY <1>7 DEF vars, DecisionsInv, Stands, Incremental, fixed
<1> QED BY <1>1, <1>2, <1>3, <1>4, <1>5, <1>6, <1>7 DEF Next

\* A published decision is not taken back by another row's failure, by the
\* end of another group or by a cancellation, whatever their number.
THEOREM DecisionsHold == Spec => DecisionsStand
<1> DEFINE Kept == \A r \in Rows :
             kind = "automatic" /\ batch_mode = "independent" /\ running
               /\ fits[r] \in {"decided", "failed"}
             => project'[r] = project[r]
<1>1. Stands => Kept  BY DEF Stands, Incremental, Decided
<1>2. TypeOK /\ DecisionsInv /\ [Next]_vars => DecisionsInv' /\ [Kept]_vars
  BY <1>1, StepDecided
<1> HIDE DEF Kept
<1>3. Spec => [][Kept]_vars
  BY <1>2, TypeCorrect, DecisionsInit, PTL DEF Spec
<1> QED BY <1>3 DEF DecisionsStand, Kept

-----------------------------------------------------------------------------
(***************************************************************************)
(* A joint project is published whole or not at all.  The inductive part:  *)
(* every copy of the project, the owner's, the original, the working one   *)
(* and the group's baseline, has the results of one run; the rows of its   *)
(* automatic transaction form one group, refined together.                 *)
(***************************************************************************)
Uniform(p) == \A r, s \in Rows : p[r].result = p[s].result

JointFits(f) ==
    /\ \A r \in Rows : f[r] \in {"unprepared", "ready", "decided"}
                                  \cup Prefitted \cup InGroup
    /\ \A r, s \in Rows : f[r] \in InGroup => f[s] \in InGroup
    /\ \A r, s \in Rows : f[r] = "decided" => f[s] = "decided"

JointInv ==
    batch_mode = "joint" =>
      /\ NumRows >= 2
      /\ Uniform(project) /\ Uniform(original)
      /\ Uniform(working) /\ Uniform(baseline)
      /\ running => kind \in {"joint", "automatic"}
      /\ running /\ kind = "automatic" =>
           (\A r \in Rows : signature[r] = 1) /\ JointFits(fits)

LEMMA JointInit == Init => JointInv
<1> SUFFICES ASSUME Init PROVE JointInv  OBVIOUS
<1>1. Uniform(project)  BY DEF Init, Uniform, Fresh
<1> QED BY <1>1 DEF Init, JointInv

\* A project in which every row was cleared has the results of no run.
LEMMA ClearedUniform ==
    ASSUME NEW p \in [Rows -> Dataset]
    PROVE  /\ Uniform(_clear_all(p))
           /\ Uniform([r \in Rows |-> _automatic_failure_dataset(p[r])])
<1>1. \A r \in Rows : _clear_dataset(p[r]).result = 0
                      /\ _automatic_failure_dataset(p[r]).result = 0
  BY Cleared, FailedDataset
<1> QED BY <1>1 DEF Uniform, _clear_all

\* A new checkpoint, or a new status, on a row leaves its result.
LEMMA SameResults ==
    ASSUME NEW p, NEW q, Uniform(p), \A r \in Rows : q[r].result = p[r].result
    PROVE  Uniform(q)
BY DEF Uniform

LEMMA JointEnds ==
    ASSUME JointInv, batch_mode = "joint", NEW how, NEW last,
           End(how, last), Uniform(last)
    PROVE  JointInv'
<1>1. Uniform(project') /\ Uniform(working') /\ Uniform(baseline')  BY DEF End
<1>2. Uniform(original') /\ ~running' /\ NumRows >= 2  BY DEF End, JointInv
<1> QED BY <1>1, <1>2 DEF JointInv, Uniform

LEMMA JointBegins ==
    ASSUME JointInv, batch_mode = "joint", NEW k \in {"joint", "automatic"},
           NEW rows, NEW start, Begin(k, rows, start), Uniform(start),
           k = "automatic" => rows = Rows /\ \A r \in Rows : signature[r] = 1
    PROVE  JointInv'
<1>1. /\ Uniform(project') /\ Uniform(original') /\ Uniform(working')
      /\ Uniform(baseline') /\ NumRows >= 2
  BY DEF Begin, JointInv
<1>2. k = "automatic" => JointFits(fits')
  BY DEF Begin, JointFits, InGroup
<1>3. kind' = k /\ signature' = signature  BY DEF Begin, fixed
<1> QED BY <1>1, <1>2, <1>3 DEF JointInv, Uniform, JointFits

LEMMA JointContinues ==
    ASSUME JointInv, batch_mode = "joint", running, Continue,
           Uniform(project'), Uniform(working'), Uniform(baseline'),
           kind = "automatic" => JointFits(fits')
    PROVE  JointInv'
<1>1. /\ kind' = kind /\ running' = running /\ signature' = signature
      /\ Uniform(original') /\ NumRows >= 2
  BY DEF Continue, fixed, JointInv
<1> QED BY <1>1 DEF JointInv, Uniform, JointFits

LEMMA ExpertJointKept ==
    ASSUME TypeOK, JointInv, batch_mode = "joint", Joint
    PROVE  JointInv'
<1>1. Uniform(project) /\ Uniform(working) /\ Uniform(baseline)  BY DEF JointInv
<1>2. CASE BeginJoint
  BY <1>1, <1>2, JointBegins DEF BeginJoint
<1>3. CASE JointCheckpoint
  <2>1. \A r \in Rows : working'[r].result = working[r].result
    BY <1>3, Functions DEF JointCheckpoint, Dataset
  <2>2. Uniform(working')  BY <1>1, <2>1, SameResults
  <2>3. /\ running /\ Continue /\ project' = working' /\ kind # "automatic"
        /\ baseline' = baseline
    BY <1>3 DEF JointCheckpoint, Doing
  <2> QED BY <1>1, <2>2, <2>3, JointContinues
<1>4. CASE JointSucceeds
  <2>1. Uniform([r \in Rows |-> [working[r] EXCEPT !.result = runs]])
    BY Functions DEF Uniform, Dataset
  <2> QED BY <1>4, <2>1, JointEnds DEF JointSucceeds
<1>5. CASE JointFails
  BY <1>5, Functions, ClearedUniform, JointEnds DEF JointFails
<1>6. CASE JointCancelled
  BY <1>1, <1>6, JointEnds DEF JointCancelled
<1> QED BY <1>2, <1>3, <1>4, <1>5, <1>6 DEF Joint

\* Every row of a joint project is in the one group, which is explicit.
LEMMA JointExplicit ==
    ASSUME TypeOK, JointInv, batch_mode = "joint", Doing("automatic"),
           NEW r \in Rows
    PROVE  Explicit(r)
<1>1. Group(r) = Rows
  BY DEF Group, JointInv, JointFits, Doing, Prefitted, InGroup
<1>2. Cardinality(Rows) = NumRows
  BY FS_Interval, BatchAssumption DEF Rows
<1> QED BY <1>1, <1>2, BatchAssumption DEF Explicit, JointInv

LEMMA JointFailed ==
    ASSUME TypeOK, JointInv, batch_mode = "joint", _automatic_joint_failure
    PROVE  JointInv'
BY Functions, ClearedUniform, JointEnds DEF _automatic_joint_failure

LEMMA AutomaticKept ==
    ASSUME TypeOK, JointInv, batch_mode = "joint", Automatic
    PROVE  JointInv'
<1>1. /\ Uniform(project) /\ Uniform(working) /\ Uniform(baseline)
      /\ Uniform(original)
  BY DEF JointInv
<1>2. CASE BeginAutomatic
  <2> DEFINE start == [r \in Rows |-> IF r \in _automatic_indices
                         THEN [project[r] EXCEPT !.status = "REFINING"]
                         ELSE project[r]]
  <2>1. \A r \in Rows : start[r].result = project[r].result
    BY Functions DEF Dataset
  <2>2. Uniform(start)  BY <1>1, <2>1, SameResults
  <2>3. Begin("automatic", _automatic_indices, start)  BY <1>2 DEF BeginAutomatic
  <2>4. _automatic_indices = Rows /\ \A r \in Rows : signature[r] = 1
    BY <1>2 DEF BeginAutomatic
  <2> HIDE DEF start
  <2> QED BY <2>2, <2>3, <2>4, JointBegins
<1>3. CASE RefuseRoutes
  <2>1. Uniform(project')  BY <1>3, Functions, ClearedUniform DEF RefuseRoutes
  <2>2. /\ original' = project /\ working' = project' /\ baseline' = project'
        /\ running' = FALSE /\ NumRows >= 2
    BY <1>3 DEF RefuseRoutes, JointInv
  <2> QED BY <1>1, <2>1, <2>2 DEF JointInv, Uniform
<1>4. ASSUME NEW r \in Rows, PublishPreparationFailure(r) PROVE JointInv'
  BY <1>4, JointFailed DEF PublishPreparationFailure
<1>5. ASSUME NEW r \in Rows, NEW end \in Ended, NEW writes \in BOOLEAN,
             PrefitEnds(r, end, writes)
      PROVE  JointInv'
  BY <1>5, JointExplicit DEF PrefitEnds
<1>6. ASSUME NEW r \in Rows, NEW quality \in Qualities, NEW prepared \in Settings,
             NEW winner \in Settings, CommitPrefit(r, quality, prepared, winner)
      PROVE  JointInv'
  BY <1>6 DEF CommitPrefit, Doing, JointInv, JointFits, Ended, Prefitted, InGroup
<1>7. ASSUME NEW r \in Rows, NEW end \in Ended, WithheldPrefit(r, end)
      PROVE  JointInv'
  <2>1. CASE end = "ok"
    <3>1. fits' = [fits EXCEPT ![r] = "fitted"] /\ fits[r] = "ready"
      BY <1>7, <2>1 DEF WithheldPrefit, DatasetFit
    <3>2. Doing("automatic") /\ Continue /\ UNCHANGED <<project, working, baseline>>
      BY <1>7, <2>1 DEF WithheldPrefit
    <3>3. JointFits(fits)  BY <3>2 DEF JointInv, Doing
    <3>4. JointFits(fits')
      BY <3>1, <3>3, Functions DEF JointFits, Prefitted, InGroup
    <3> QED BY <1>1, <3>2, <3>4, JointContinues DEF Doing
  <2>2. CASE end = "cancelled"
    BY <1>1, <1>7, <2>2, JointEnds DEF WithheldPrefit
  <2>3. CASE end # "ok" /\ end # "cancelled"
    BY <1>7, <2>3, JointFailed DEF WithheldPrefit
  <2> QED BY <2>1, <2>2, <2>3
<1> QED BY <1>2, <1>3, <1>4, <1>5, <1>6, <1>7 DEF Automatic

\* The member of a refined group has the result of this run, or none.
LEMMA GroupResult ==
    ASSUME NEW d \in Dataset, NEW before \in Settings, NEW prepared \in Settings,
           NEW winner \in Settings, NEW quality \in Qualities, runs \in 0..MaxRuns
    PROVE  LET e == _automatic_result_dataset(d, before, prepared, winner,
                                              quality, FALSE)
           IN  /\ quality = "invalid" => e.result = 0
               /\ quality # "invalid" => e.result = runs
<1> DEFINE refining == FALSE
<1>1. refining \in BOOLEAN  OBVIOUS
<1> HIDE DEF refining
<1> DEFINE e == _automatic_result_dataset(d, before, prepared, winner,
                                          quality, refining)
<1>2. /\ quality = "invalid" => e.result = 0
      /\ quality # "invalid" => e.result = runs
  BY <1>1, ResultDataset
<1> QED BY <1>2 DEF refining

LEMMA GroupsKept ==
    ASSUME TypeOK, JointInv, batch_mode = "joint", Groups
    PROVE  JointInv'
<1>1. /\ Uniform(project) /\ Uniform(working) /\ Uniform(baseline)
      /\ Uniform(original) /\ NumRows >= 2 /\ 1 \in Rows /\ 2 \in Rows
  BY BatchAssumption DEF JointInv, Rows
<1>2. Doing("automatic")
  BY DEF Groups, CommitIncompleteGroup, BeginGroup, GroupCheckpoint,
     GroupSucceeds, GroupFails, GroupCancelled, EndAutomatic
<1>3. running /\ kind = "automatic" /\ JointFits(fits)
      /\ \A r \in Rows : signature[r] = 1
  BY <1>2 DEF JointInv, Doing
<1>4. Refining # {} => Refining = Rows
  BY <1>3 DEF Refining, JointFits
<1>5. ASSUME NEW prepared \in Settings, NEW winner \in Settings,
             CommitIncompleteGroup(prepared, winner)
      PROVE  JointInv'
  <2>1. PICK r \in Rows : NextGroup = {r}  BY <1>5 DEF CommitIncompleteGroup
  <2>2. \A s \in Rows : fits[s] \in Prefitted
    BY <1>3, <1>5, <2>1
    DEF JointFits, CommitIncompleteGroup, Settled, NoneIs, NextGroup, Prefitted
  <2>3. NextGroup = Rows  BY <1>3, <2>2 DEF NextGroup
  <2> QED BY <1>1, <2>1, <2>3
<1>6. ASSUME NEW isolated \in SUBSET Rows, BeginGroup(isolated) PROVE JointInv'
  <2>1. NextGroup # {}  BY <1>6, FS_EmptySet DEF BeginGroup
  <2>2. \A s \in Rows : fits[s] \in Prefitted
    BY <1>3, <1>6, <2>1
    DEF JointFits, BeginGroup, Settled, NoneIs, NextGroup, Prefitted
  <2>3. NextGroup = Rows  BY <1>3, <2>2 DEF NextGroup
  <2>4. \A s \in Rows : fits'[s] \in InGroup  BY <1>6, <2>3 DEF BeginGroup, InGroup
  <2>5. JointFits(fits')  BY <2>4 DEF JointFits, InGroup
  <2>6. Continue /\ baseline' = working /\ UNCHANGED <<project, working>>
    BY <1>6 DEF BeginGroup
  <2> QED BY <1>1, <1>3, <2>5, <2>6, JointContinues
<1>7. CASE GroupCheckpoint
  <2>1. \A r \in Rows : working'[r].result = working[r].result
    BY <1>7, Functions DEF GroupCheckpoint, Dataset
  <2>2. Uniform(working')  BY <1>1, <2>1, SameResults
  <2>3. Continue /\ project' = working' /\ UNCHANGED <<baseline, fits>>
    BY <1>7 DEF GroupCheckpoint
  <2> QED BY <1>1, <1>3, <2>2, <2>3, JointContinues
<1>8. ASSUME NEW quality \in [Rows -> Qualities], NEW prepared \in [Rows -> Settings],
             NEW winner \in [Rows -> Settings], GroupSucceeds(quality, prepared, winner)
      PROVE  JointInv'
  <2>1. Refining = Rows  BY <1>4, <1>8 DEF GroupSucceeds
  <2>2. Qualified = Rows
    BY <1>8, <2>1 DEF GroupSucceeds, NoneIs, Qualified, Refining, InGroup
  <2>3. \A r, s \in Rows : quality[r] = "invalid" => quality[s] = "invalid"
    BY <1>8, <2>2 DEF GroupSucceeds
  <2>4. working' = [r \in Rows |-> _automatic_result_dataset(working[r],
                      original[r].settings, prepared[r], winner[r], quality[r], FALSE)]
    BY <1>8, <2>1 DEF GroupSucceeds
  <2>5. ASSUME NEW r \in Rows
        PROVE  LET e == _automatic_result_dataset(working[r], original[r].settings,
                          prepared[r], winner[r], quality[r], FALSE)
               IN  /\ quality[r] = "invalid" => e.result = 0
                   /\ quality[r] # "invalid" => e.result = runs
    <3>1. /\ working[r] \in Dataset /\ original[r].settings \in Settings
          /\ prepared[r] \in Settings /\ winner[r] \in Settings
          /\ quality[r] \in Qualities /\ runs \in 0..MaxRuns
      BY Functions, DatasetFields
    <3> QED BY <3>1, GroupResult, Zenon
  <2>6. \A r \in Rows :
          /\ quality[r] = "invalid" => working'[r].result = 0
          /\ quality[r] # "invalid" => working'[r].result = runs
    BY <2>4, <2>5
  <2>7. Uniform(working')
    <3>1. CASE \A r \in Rows : quality[r] = "invalid"
      <4>1. \A r \in Rows : working'[r].result = 0  BY <2>6, <3>1
      <4> QED BY <4>1 DEF Uniform
    <3>2. CASE \A r \in Rows : quality[r] # "invalid"
      <4>1. \A r \in Rows : working'[r].result = runs  BY <2>6, <3>2
      <4> QED BY <4>1 DEF Uniform
    <3> QED BY <2>3, <3>1, <3>2
  <2>8. \A r \in Rows : fits'[r] = "decided"  BY <1>8, <2>1 DEF GroupSucceeds
  <2>9. JointFits(fits')  BY <2>8 DEF JointFits, InGroup
  <2>10. Continue /\ project' = working' /\ baseline' = baseline
    BY <1>8 DEF GroupSucceeds
  <2> QED BY <1>1, <1>3, <2>7, <2>9, <2>10, JointContinues
<1>9. CASE GroupFails
  BY <1>9, JointFailed DEF GroupFails
<1>10. CASE GroupCancelled
  <2>1. Refining = Rows  BY <1>4, <1>10 DEF GroupCancelled
  <2>2. \A r \in Rows : fits'[r] \in Prefitted
    BY <1>10, <2>1 DEF GroupCancelled, Prefitted
  <2>3. JointFits(fits')  BY <2>2 DEF JointFits, Prefitted, InGroup
  <2>4. Continue /\ project' = working' /\ working' = baseline
        /\ baseline' = baseline
    BY <1>10 DEF GroupCancelled
  <2> QED BY <1>1, <1>3, <2>3, <2>4, JointContinues
<1>11. CASE EndAutomatic
  BY <1>1, <1>11, JointEnds DEF EndAutomatic
<1> QED BY <1>5, <1>6, <1>7, <1>8, <1>9, <1>10, <1>11 DEF Groups

LEMMA StepKept ==
    ASSUME TypeOK, JointInv, [Next]_vars
    PROVE  JointInv'
<1>1. CASE UNCHANGED vars
  BY <1>1 DEF vars, JointInv, Uniform, JointFits, fixed
<1>2. CASE batch_mode # "joint" /\ Next
  <2>1. batch_mode' = batch_mode
    BY <1>2 DEF Next, Cancel, WorkerDies, End, Continue, Begin, fixed,
       Independent, BeginIndependent, IndependentSearch, EndIndependent,
       _publish_independent_row, Joint, BeginJoint, JointCheckpoint,
       JointSucceeds, JointFails, JointCancelled, Automatic, BeginAutomatic,
       RefuseRoutes, PublishPreparationFailure, _automatic_joint_failure,
       PrefitEnds, CommitPrefit, WithheldPrefit, Groups, CommitIncompleteGroup,
       BeginGroup, GroupCheckpoint, GroupSucceeds, GroupFails, GroupCancelled,
       EndAutomatic
  <2> QED BY <1>2, <2>1 DEF JointInv
<1>3. CASE batch_mode = "joint" /\ Next
  <2>1. CASE Cancel
    BY <2>1 DEF Cancel, JointInv, Uniform, JointFits, fixed
  <2>2. CASE WorkerDies
    BY <1>3, <2>2, JointEnds DEF WorkerDies, JointInv
  <2>3. CASE Independent
    BY <1>3, <2>3 DEF JointInv, Independent, BeginIndependent,
       IndependentSearch, EndIndependent, _publish_independent_row, Doing
  <2> QED BY <1>3, <2>1, <2>2, <2>3, ExpertJointKept, AutomaticKept, GroupsKept
          DEF Next
<1> QED BY <1>1, <1>2, <1>3

\* No snapshot of a joint project mixes the results of two runs, whatever the
\* number of rows and of transactions, and however they end.
THEOREM JointWhole == Spec => []JointAllOrNothing
<1>1. JointInv => JointAllOrNothing  BY DEF JointInv, JointAllOrNothing, Uniform
<1>2. TypeOK /\ JointInv /\ [Next]_vars => JointInv'  BY StepKept
<1> QED BY <1>1, <1>2, TypeCorrect, JointInit, PTL DEF Spec
=============================================================================
