------------------------ MODULE BatchProgressProofs ------------------------
(***************************************************************************)
(* Further proofs about BatchTransaction, for every number of rows,        *)
(* settings and transactions: an unfinished row keeps its result, a        *)
(* checkpoint fits the settings beside it, and a stop costs neither        *)
(* finished work nor a later run.                                          *)
(***************************************************************************)
EXTENDS BatchTransactionProofs

-----------------------------------------------------------------------------
(***************************************************************************)
(* A row without an outcome is as it was given, in all copies.  The        *)
(* group's baseline is in the invariant because a cancelled group puts it  *)
(* back.                                                                   *)
(***************************************************************************)
Open == {"out", "unprepared", "ready"} \cup Ended

OpenInv ==
    running => \A r \in Rows : fits[r] \in Open =>
      /\ project[r].result = original[r].result
      /\ working[r].result = original[r].result
      /\ working[r].settings = original[r].settings
      /\ baseline[r].result = original[r].result
      /\ baseline[r].settings = original[r].settings

\* A row that stays open takes each field from a copy that had it right.
LEMMA OpenContinues ==
    ASSUME OpenInv, running, Continue,
           \A r \in Rows : fits'[r] \in Open =>
             /\ fits[r] \in Open
             /\ project'[r].result \in {project[r].result, working[r].result,
                                        baseline[r].result}
             /\ working'[r].result \in {working[r].result, baseline[r].result}
             /\ working'[r].settings \in {working[r].settings, baseline[r].settings}
             /\ baseline'[r] \in {baseline[r], working[r]}
    PROVE  OpenInv'
BY DEF OpenInv, Continue

\* A step that rewrites one row and closes it.
LEMMA OpenCloses ==
    ASSUME TypeOK, OpenInv, running, Continue, NEW q \in Rows, NEW d, NEW f,
           f \notin Open, fits' = [fits EXCEPT ![q] = f],
           working' = [working EXCEPT ![q] = d],
           project' \in {working', project}, baseline' = baseline
    PROVE  OpenInv'
<1>1. ASSUME NEW r \in Rows, fits'[r] \in Open
      PROVE  /\ fits[r] \in Open /\ working'[r] = working[r]
             /\ project'[r] \in {working[r], project[r]}
  BY <1>1, Functions
<1> QED BY <1>1, OpenContinues

\* A step that rewrites and closes the rows of the group in refinement.
LEMMA OpenGroup ==
    ASSUME TypeOK, OpenInv, running, Continue,
           \A r \in Rows : r \notin Refining => working'[r] = working[r]
                                                /\ fits'[r] = fits[r],
           \A r \in Refining : fits'[r] \notin Open,
           project' = working', baseline' = baseline
    PROVE  OpenInv'
<1>1. ASSUME NEW r \in Rows, fits'[r] \in Open
      PROVE  fits[r] \in Open /\ working'[r] = working[r]
  BY <1>1
<1> QED BY <1>1, OpenContinues

LEMMA OpenBegins ==
    ASSUME NEW k, NEW rows, NEW start, Begin(k, rows, start),
           \A r \in Rows : start[r].result = project[r].result
                           /\ start[r].settings = project[r].settings
    PROVE  OpenInv'
BY DEF Begin, OpenInv

LEMMA OpenEnds ==
    ASSUME NEW how, NEW last, End(how, last)
    PROVE  OpenInv'
BY DEF End, OpenInv

\* A replayed checkpoint changes nothing else.
LEMMA ReplayKeeps ==
    ASSUME NEW p \in [Rows -> Dataset], NEW q \in Rows
    PROVE  LET new == _replay_checkpoints(p, q) IN
           /\ new = [p EXCEPT ![q] = new[q]]
           /\ new[q].status = p[q].status /\ new[q].result = p[q].result
           /\ new[q].settings = p[q].settings
           /\ new[q].checkpoint = Checkpoint("single", p[q].settings)
<1>1. p[q] \in Dataset  OBVIOUS
<1>2. _replay_checkpoints(p, q) = [p EXCEPT ![q] =
          [p[q] EXCEPT !.checkpoint = Checkpoint("single", p[q].settings)]]
  BY DEF _replay_checkpoints
<1> QED BY <1>1, <1>2 DEF Dataset

\* A row that publishes closes, and leaves every other row as it is.
LEMMA PublishedRow ==
    ASSUME TypeOK, NEW q \in Rows, _publish_independent_row(q)
    PROVE  /\ fits[q] \in Ended \cup {"unprepared"} /\ Continue
           /\ Doing("independent") /\ UNCHANGED <<baseline, saved, refused>>
           /\ fits' = [fits EXCEPT ![q] = PublishedAs(fits[q])]
           /\ \A r \in Rows : r # q =>
                working'[r] = working[r] /\ project'[r] \in {working[r], project[r]}
<1> DEFINE row == IF q \in saved THEN _replay_checkpoints(working, q) ELSE working
<1>1. row \in [Rows -> Dataset]  BY Functions, Replayed
<1>2. \A r \in Rows : r # q => row[r] = working[r]
  BY Functions, ReplayKeeps
<1>3. /\ working' \in {[working EXCEPT ![q] = _clear_dataset(@)],
                       [row EXCEPT ![q].result = runs], row}
      /\ project' \in {row, project}
  BY DEF _publish_independent_row
<1> HIDE DEF row
<1>4. \A r \in Rows : r # q =>
        working'[r] = working[r] /\ project'[r] \in {working[r], project[r]}
  BY <1>1, <1>2, <1>3, Functions
<1> QED BY <1>4 DEF _publish_independent_row

LEMMA OpenIndependent == ASSUME TypeOK, OpenInv, Independent PROVE OpenInv'
<1>1. CASE BeginIndependent
  BY <1>1, OpenBegins DEF BeginIndependent
<1>2. CASE IndependentSearch
  <2>1. PICK q \in Rows, end \in Ended :
          fits[q] = "ready" /\ fits' = [fits EXCEPT ![q] = end]
    BY <1>2 DEF IndependentSearch, DatasetFit
  <2>2. \A r \in Rows : fits'[r] \in Open => fits[r] \in Open
    BY <2>1, Functions DEF Open
  <2>3. running /\ Continue /\ UNCHANGED <<project, working, baseline>>
    BY <1>2 DEF IndependentSearch, Doing
  <2> QED BY <2>2, <2>3, OpenContinues
<1>3. CASE EndIndependent
  BY <1>3, OpenEnds DEF EndIndependent
<1>4. ASSUME NEW q \in Rows, _publish_independent_row(q) PROVE OpenInv'
  <2>1. PublishedAs(fits[q]) \notin Open  BY DEF PublishedAs, Open, Ended
  <2>2. \A r \in Rows : fits'[r] \in Open => r # q /\ fits[r] \in Open
    BY <1>4, <2>1, PublishedRow, Functions
  <2> QED BY <1>4, <2>2, PublishedRow, OpenContinues DEF Doing
<1> QED BY <1>1, <1>2, <1>3, <1>4 DEF Independent

LEMMA OpenJoint == ASSUME TypeOK, OpenInv, Joint PROVE OpenInv'
<1>1. CASE BeginJoint
  BY <1>1, OpenBegins DEF BeginJoint
<1>2. CASE JointCheckpoint
  <2>1. \A r \in Rows : /\ working'[r].result = working[r].result
                        /\ working'[r].settings = working[r].settings
    BY <1>2, Functions DEF JointCheckpoint, Dataset
  <2>2. running /\ Continue /\ project' = working' /\ UNCHANGED <<baseline, fits>>
    BY <1>2 DEF JointCheckpoint, Doing
  <2> QED BY <2>1, <2>2, OpenContinues
<1>3. CASE JointSucceeds \/ JointFails \/ JointCancelled
  BY <1>3, OpenEnds DEF JointSucceeds, JointFails, JointCancelled
<1> QED BY <1>1, <1>2, <1>3 DEF Joint

\* What BeginAutomatic starts from: the same project, with new statuses.
LEMMA AutomaticBegins ==
    ASSUME TypeOK, BeginAutomatic
    PROVE  \E start \in [Rows -> Dataset] :
             /\ Begin("automatic", _automatic_indices, start)
             /\ \A r \in Rows : /\ start[r].result = project[r].result
                                /\ start[r].settings = project[r].settings
                                /\ start[r].checkpoint = project[r].checkpoint
                                /\ r \in _automatic_indices
                                     => start[r].status = "REFINING"
<1> DEFINE start == [r \in Rows |-> IF r \in _automatic_indices
                       THEN [project[r] EXCEPT !.status = "REFINING"]
                       ELSE project[r]]
<1>1. start \in [Rows -> Dataset]  BY Functions, SMTT(30) DEF Dataset, Statuses
<1>2. \A r \in Rows : /\ start[r].result = project[r].result
                      /\ start[r].settings = project[r].settings
                      /\ start[r].checkpoint = project[r].checkpoint
                      /\ r \in _automatic_indices => start[r].status = "REFINING"
  BY Functions DEF Dataset
<1>3. Begin("automatic", _automatic_indices, start)  BY DEF BeginAutomatic
<1> HIDE DEF start
<1> QED BY <1>1, <1>2, <1>3

\* One row is committed: it has a new dataset, and every other row stays.
LEMMA CommittedRow ==
    ASSUME TypeOK, NEW q \in Rows, NEW quality \in Qualities,
           NEW prepared \in Settings, NEW winner \in Settings,
           CommitPrefit(q, quality, prepared, winner)
    PROVE  \E d, f : /\ working' = [working EXCEPT ![q] = d]
                     /\ project' = working' /\ f \in Published \cup Prefitted
                     /\ fits' = [fits EXCEPT ![q] = f]
<1>1. \E d : working' = [working EXCEPT ![q] = d]
  <2>1. working = [working EXCEPT ![q] = working[q]]  BY Functions
  <2> QED BY <2>1 DEF CommitPrefit
<1>2. PICK f \in Published \cup Prefitted : fits' = [fits EXCEPT ![q] = f]
  BY Functions DEF CommitPrefit, PublishedAs, Published, Prefitted
<1>3. project' = working'  BY DEF CommitPrefit
<1> QED BY <1>1, <1>2, <1>3

LEMMA NotOpen == \A f \in Published \cup Prefitted \cup InGroup : f \notin Open
BY DEF Published, Prefitted, InGroup, Open, Ended

LEMMA OpenAutomatic == ASSUME TypeOK, OpenInv, Automatic PROVE OpenInv'
<1>1. CASE BeginAutomatic
  BY <1>1, AutomaticBegins, OpenBegins
<1>2. CASE RefuseRoutes
  BY <1>2 DEF RefuseRoutes, OpenInv
<1>3. ASSUME NEW q \in Rows, PublishPreparationFailure(q) PROVE OpenInv'
  <2>1. CASE batch_mode = "joint"
    BY <1>3, <2>1, OpenEnds DEF PublishPreparationFailure, _automatic_joint_failure
  <2>2. CASE batch_mode # "joint"
    <3>1. /\ running /\ Continue /\ baseline' = baseline /\ project' = working'
          /\ working' = [working EXCEPT ![q] = _automatic_failure_dataset(working[q])]
          /\ fits' = [fits EXCEPT ![q] = "failed"]
      BY <1>3, <2>2 DEF PublishPreparationFailure, Doing
    <3>2. "failed" \notin Open  BY NotOpen DEF Published
    <3> QED BY <3>1, <3>2, OpenCloses
  <2> QED BY <2>1, <2>2
<1>4. ASSUME NEW q \in Rows, NEW end \in Ended, NEW writes \in BOOLEAN,
             PrefitEnds(q, end, writes)
      PROVE  OpenInv'
  <2>1. /\ running /\ Continue /\ baseline' = baseline /\ fits[q] = "ready"
        /\ fits' = [fits EXCEPT ![q] = end]
        /\ working' \in {_replay_checkpoints(working, q), working}
        /\ project' \in {working', project}
    BY <1>4 DEF PrefitEnds, DatasetFit, Doing
  <2>2. \A r \in Rows : /\ working'[r].result = working[r].result
                        /\ working'[r].settings = working[r].settings
    BY <2>1, Functions, ReplayKeeps
  <2>3. \A r \in Rows : fits'[r] \in Open => fits[r] \in Open
    BY <2>1, Functions DEF Open
  <2> QED BY <2>1, <2>2, <2>3, OpenContinues
<1>5. ASSUME NEW q \in Rows, NEW quality \in Qualities, NEW prepared \in Settings,
             NEW winner \in Settings, CommitPrefit(q, quality, prepared, winner)
      PROVE  OpenInv'
  <2>1. running /\ Continue /\ baseline' = baseline
    BY <1>5 DEF CommitPrefit, Doing
  <2> QED BY <1>5, <2>1, CommittedRow, NotOpen, OpenCloses
<1>6. ASSUME NEW q \in Rows, NEW end \in Ended, WithheldPrefit(q, end)
      PROVE  OpenInv'
  <2>1. CASE end = "ok"
    <3>1. /\ running /\ Continue /\ UNCHANGED <<project, working, baseline>>
          /\ fits' = [fits EXCEPT ![q] = "fitted"]
      BY <1>6, <2>1 DEF WithheldPrefit, Doing
    <3>2. \A r \in Rows : fits'[r] \in Open => fits[r] \in Open
      BY <3>1, NotOpen, Functions DEF Prefitted
    <3> QED BY <3>1, <3>2, OpenContinues
  <2>2. CASE end # "ok"
    BY <1>6, <2>2, OpenEnds DEF WithheldPrefit, _automatic_joint_failure
  <2> QED BY <2>1, <2>2
<1> QED BY <1>1, <1>2, <1>3, <1>4, <1>5, <1>6 DEF Automatic

LEMMA OpenGroups == ASSUME TypeOK, OpenInv, Groups PROVE OpenInv'
<1>1. ASSUME NEW prepared \in Settings, NEW winner \in Settings,
             CommitIncompleteGroup(prepared, winner)
      PROVE  OpenInv'
  <2>0. PICK q \in Rows : \E d : /\ working' = [working EXCEPT ![q] = d]
                                 /\ fits' = [fits EXCEPT ![q] = "decided"]
    BY <1>1 DEF CommitIncompleteGroup
  <2>1. PICK d : /\ working' = [working EXCEPT ![q] = d]
                 /\ fits' = [fits EXCEPT ![q] = "decided"]
    BY <2>0
  <2>2. running /\ Continue /\ baseline' = baseline /\ project' = working'
    BY <1>1 DEF CommitIncompleteGroup, Doing
  <2>3. "decided" \notin Open  BY NotOpen DEF Published
  <2> QED BY <2>1, <2>2, <2>3, OpenCloses
<1>2. ASSUME NEW isolated \in SUBSET Rows, BeginGroup(isolated) PROVE OpenInv'
  <2>1. running /\ Continue /\ baseline' = working /\ UNCHANGED <<project, working>>
    BY <1>2 DEF BeginGroup, Doing
  <2>2. \A r \in Rows : fits'[r] \in {"isolated", "qualified", fits[r]}
    BY <1>2 DEF BeginGroup
  <2>3. \A r \in Rows : fits'[r] \in Open => fits[r] \in Open
    BY <2>2, NotOpen DEF InGroup
  <2> QED BY <2>1, <2>3, OpenContinues
<1>3. CASE GroupCheckpoint
  <2>1. /\ running /\ Continue /\ project' = working' /\ UNCHANGED <<baseline, fits>>
        /\ \A r \in Rows : r \notin Refining => working'[r] = working[r]
    BY <1>3 DEF GroupCheckpoint, Doing
  <2>2. \A r \in Refining : fits'[r] \notin Open
    BY <2>1, NotOpen DEF Refining
  <2> QED BY <2>1, <2>2, OpenGroup
<1>4. ASSUME NEW quality \in [Rows -> Qualities], NEW prepared \in [Rows -> Settings],
             NEW winner \in [Rows -> Settings], GroupSucceeds(quality, prepared, winner)
      PROVE  OpenInv'
  <2>1. /\ running /\ Continue /\ project' = working' /\ baseline' = baseline
        /\ \A r \in Rows : r \notin Refining => working'[r] = working[r]
                                                /\ fits'[r] = fits[r]
        /\ \A r \in Refining : fits'[r] = "decided"
    BY <1>4 DEF GroupSucceeds, Doing, Refining
  <2>2. \A r \in Refining : fits'[r] \notin Open
    BY <2>1, NotOpen DEF Published
  <2> QED BY <2>1, <2>2, OpenGroup
<1>5. CASE GroupFails
  <2>1. CASE batch_mode = "joint"
    BY <1>5, <2>1, OpenEnds DEF GroupFails, _automatic_joint_failure
  <2>2. CASE batch_mode # "joint"
    <3>1. /\ running /\ Continue /\ project' = working' /\ baseline' = baseline
          /\ \A r \in Rows : r \notin Refining => working'[r] = working[r]
                                                  /\ fits'[r] = fits[r]
          /\ \A r \in Refining : fits'[r] = "failed"
      BY <1>5, <2>2 DEF GroupFails, Doing, Refining
    <3>2. \A r \in Refining : fits'[r] \notin Open
      BY <3>1, NotOpen DEF Published
    <3> QED BY <3>1, <3>2, OpenGroup
  <2> QED BY <2>1, <2>2
<1>6. CASE GroupCancelled
  <2>1. /\ running /\ Continue /\ working' = baseline /\ project' = working'
        /\ baseline' = baseline
    BY <1>6 DEF GroupCancelled, Doing
  <2>2. \A r \in Rows : fits'[r] \in {"winnerless", "fitted", fits[r]}
    BY <1>6 DEF GroupCancelled
  <2>3. \A r \in Rows : fits'[r] \in Open => fits[r] \in Open
    BY <2>2, NotOpen DEF Prefitted
  <2> QED BY <2>1, <2>3, OpenContinues
<1>7. CASE EndAutomatic
  BY <1>7, OpenEnds DEF EndAutomatic
<1> QED BY <1>1, <1>2, <1>3, <1>4, <1>5, <1>6, <1>7 DEF Groups

LEMMA OpenStep == ASSUME TypeOK, OpenInv, [Next]_vars PROVE OpenInv'
<1>1. CASE Cancel
  BY <1>1 DEF Cancel, OpenInv
<1>2. CASE WorkerDies
  BY <1>2, OpenEnds DEF WorkerDies
<1>3. CASE UNCHANGED vars
  BY <1>3 DEF vars, OpenInv
<1> QED BY <1>1, <1>2, <1>3, OpenIndependent, OpenJoint, OpenAutomatic,
           OpenGroups DEF Next

LEMMA OpenInit == Init => OpenInv
BY DEF Init, OpenInv

\* A row of an independent project keeps its previous result until its own
\* outcome is there, for every number of rows and transactions.
THEOREM ResultsWait == Spec => []UnfinishedKeepsResult
<1>1. OpenInv => UnfinishedKeepsResult
  BY DEF OpenInv, UnfinishedKeepsResult, Open
<1> QED BY <1>1, TypeCorrect, OpenInit, OpenStep, PTL DEF Spec

-----------------------------------------------------------------------------
(***************************************************************************)
(* A single-layout checkpoint fits the settings beside it, in all copies.  *)
(* While a transaction runs it was written with the settings the row was   *)
(* given, which is why a result that keeps the checkpoint keeps them too.  *)
(***************************************************************************)
Single(d) == d.checkpoint.layout = "single"
Sound(d) == Single(d) => d.checkpoint = Checkpoint("single", d.settings)
SoundFrom(d, given) == Sound(d) /\ (Single(d) => d.settings = given.settings)

CheckpointInv ==
    \A r \in Rows :
      /\ Sound(project[r]) /\ Sound(original[r])
      /\ Sound(working[r]) /\ Sound(baseline[r])
      /\ running => /\ SoundFrom(working[r], original[r])
                    /\ SoundFrom(baseline[r], original[r])

LEMMA Layouts ==
    /\ NoCheckpoint.layout # "single" /\ GroupLayout.layout # "single"
    /\ \A s \in Settings : Checkpoint("joint", s).layout # "single"
BY DEF NoCheckpoint, GroupLayout, Checkpoint

LEMMA FailedSound ==
    ASSUME NEW d \in Dataset
    PROVE  /\ _clear_dataset(d).checkpoint = NoCheckpoint
           /\ _automatic_failure_dataset(d).checkpoint = NoCheckpoint
           /\ _automatic_failure_dataset(d).status = "FAILED"
<1>1. _clear_dataset(d) \in Dataset  BY Cleared
<1>2. _clear_dataset(d).checkpoint = NoCheckpoint  BY DEF _clear_dataset, Dataset
<1> QED BY <1>1, <1>2 DEF _automatic_failure_dataset, Dataset

\* The parts of a result: of one that counts as failed, and of any other.
LEMMA ResultParts ==
    ASSUME NEW d \in Dataset, NEW before \in Settings, NEW prepared \in Settings,
           NEW winner \in Settings, NEW quality \in Qualities,
           NEW refining \in BOOLEAN
    PROVE  LET e == _automatic_result_dataset(d, before, prepared, winner,
                                              quality, refining)
           IN  /\ quality = "invalid" => /\ e.status = "FAILED"
                                         /\ e.checkpoint = NoCheckpoint
               /\ quality # "invalid" =>
                    /\ e.status = _automatic_status(quality, refining)
                    /\ e.result = runs /\ e.settings = winner
                    /\ e.checkpoint = IF winner = prepared /\ prepared = before
                                      THEN d.checkpoint ELSE NoCheckpoint
<1>1. _automatic_status(quality, refining) = "FAILED" <=> quality = "invalid"
  BY DEF _automatic_status, Qualities
<1>2. CASE quality = "invalid"
  <2>1. _automatic_failure_dataset(d) \in Dataset  BY FailedDataset
  <2>2. /\ [_automatic_failure_dataset(d) EXCEPT !.settings = prepared].checkpoint
             = NoCheckpoint
        /\ [_automatic_failure_dataset(d) EXCEPT !.settings = prepared].status
             = "FAILED"
    BY <2>1, FailedSound DEF Dataset
  <2> QED BY <1>1, <1>2, <2>2 DEF _automatic_result_dataset
<1>3. CASE quality # "invalid"
  BY <1>1, <1>3 DEF _automatic_result_dataset
<1> QED BY <1>2, <1>3

LEMMA ResultSound ==
    ASSUME NEW d \in Dataset, NEW given \in Dataset, SoundFrom(d, given),
           NEW prepared \in Settings, NEW winner \in Settings,
           NEW quality \in Qualities, NEW refining \in BOOLEAN
    PROVE  SoundFrom(_automatic_result_dataset(d, given.settings, prepared,
                       winner, quality, refining), given)
<1> DEFINE e == _automatic_result_dataset(d, given.settings, prepared, winner,
                                          quality, refining)
<1>1. given.settings \in Settings  BY DatasetFields
<1>2. /\ quality = "invalid" => e.checkpoint = NoCheckpoint
      /\ quality # "invalid" =>
           /\ e.settings = winner
           /\ e.checkpoint = IF winner = prepared /\ prepared = given.settings
                             THEN d.checkpoint ELSE NoCheckpoint
  BY <1>1, ResultParts
<1> HIDE DEF e
<1>3. SoundFrom(e, given)  BY <1>2, Layouts DEF SoundFrom, Sound, Single
<1> QED BY <1>3 DEF e

\* A checkpoint that is replayed is taken with the settings of its row.
LEMMA ReplaySound ==
    ASSUME TypeOK, NEW q \in Rows, working[q].settings = original[q].settings
    PROVE  SoundFrom(_replay_checkpoints(working, q)[q], original[q])
BY Functions, ReplayKeeps DEF SoundFrom, Sound

LEMMA SoundContinues ==
    ASSUME CheckpointInv, running, Continue,
           \A r \in Rows :
             /\ SoundFrom(working'[r], original[r])
             /\ baseline'[r] \in {baseline[r], working[r]}
             /\ project'[r] \in {project[r], working'[r]} \/ Sound(project'[r])
    PROVE  CheckpointInv'
<1>1. original' = original /\ running' = running  BY DEF Continue
<1>2. ASSUME NEW r \in Rows
      PROVE  /\ Sound(project'[r]) /\ Sound(original'[r])
             /\ SoundFrom(working'[r], original'[r])
             /\ SoundFrom(baseline'[r], original'[r])
  BY <1>1 DEF CheckpointInv, SoundFrom
<1> QED BY <1>2 DEF CheckpointInv, Sound, SoundFrom, Single

LEMMA SoundEnds ==
    ASSUME CheckpointInv, NEW how, NEW last, End(how, last),
           \A r \in Rows : Sound(last[r])
    PROVE  CheckpointInv'
<1>1. original' = original /\ running' = FALSE /\ project' = last
      /\ working' = last /\ baseline' = last
  BY DEF End
<1> QED BY <1>1 DEF CheckpointInv, Sound, Single

LEMMA SoundBegins ==
    ASSUME CheckpointInv, NEW k, NEW rows, NEW start, Begin(k, rows, start),
           \A r \in Rows : start[r].settings = project[r].settings
                           /\ start[r].checkpoint = project[r].checkpoint
    PROVE  CheckpointInv'
<1>1. project' = project /\ original' = project /\ working' = start
      /\ baseline' = start
  BY DEF Begin
<1> QED BY <1>1 DEF CheckpointInv, Sound, SoundFrom, Single

\* A joint failure leaves no checkpoint behind.
LEMMA SoundJointFailure ==
    ASSUME TypeOK, CheckpointInv, _automatic_joint_failure
    PROVE  CheckpointInv'
<1>1. \A r \in Rows : Sound(_automatic_failure_dataset(original[r]))
  BY Functions, FailedSound, Layouts DEF Sound, Single
<1> QED BY <1>1, SoundEnds DEF _automatic_joint_failure

LEMMA SoundIndependent ==
    ASSUME TypeOK, OpenInv, CheckpointInv, Independent
    PROVE  CheckpointInv'
<1>1. CASE BeginIndependent
  BY <1>1, SoundBegins DEF BeginIndependent
<1>2. CASE IndependentSearch
  <2>1. running /\ Continue /\ UNCHANGED <<project, working, baseline>>
    BY <1>2 DEF IndependentSearch, Doing
  <2> QED BY <2>1, SoundContinues DEF CheckpointInv
<1>3. CASE EndIndependent
  <2>1. \/ End("cancelled", working) \/ End("cancelled", project)
        \/ End("returned", working)
    BY <1>3 DEF EndIndependent
  <2> QED BY <2>1, SoundEnds DEF CheckpointInv
<1>4. ASSUME NEW q \in Rows, _publish_independent_row(q) PROVE CheckpointInv'
  <2> DEFINE row == IF q \in saved THEN _replay_checkpoints(working, q) ELSE working
  <2>1. running /\ Continue /\ baseline' = baseline /\ fits[q] \in Open
    BY <1>4, PublishedRow DEF Doing, Open
  <2>2. working[q].settings = original[q].settings  BY <2>1 DEF OpenInv
  <2>3. row \in [Rows -> Dataset]  BY Functions, Replayed
  <2>4. SoundFrom(row[q], original[q])
    BY <2>1, <2>2, ReplaySound DEF CheckpointInv
  <2>5. /\ working' \in {[working EXCEPT ![q] = _clear_dataset(@)],
                         [row EXCEPT ![q].result = runs], row}
        /\ project' \in {row, project}
    BY <1>4 DEF _publish_independent_row
  <2> HIDE DEF row
  <2>6. SoundFrom(_clear_dataset(working[q]), original[q])
    BY Functions, FailedSound, Layouts DEF SoundFrom, Sound, Single
  <2>7. SoundFrom([row[q] EXCEPT !.result = runs], original[q])
    <3>1. row[q] \in Dataset  BY <2>3
    <3>2. /\ [row[q] EXCEPT !.result = runs].checkpoint = row[q].checkpoint
          /\ [row[q] EXCEPT !.result = runs].settings = row[q].settings
      BY <3>1 DEF Dataset
    <3> QED BY <2>4, <3>2 DEF SoundFrom, Sound, Single
  <2>8. SoundFrom(working'[q], original[q])
    BY <2>3, <2>4, <2>5, <2>6, <2>7, Functions
  <2>9. project'[q] = project[q] \/ Sound(project'[q])
    BY <2>4, <2>5 DEF SoundFrom
  <2>10. ASSUME NEW r \in Rows
         PROVE  /\ SoundFrom(working'[r], original[r])
                /\ project'[r] \in {project[r], working'[r]} \/ Sound(project'[r])
    BY <1>4, <2>1, <2>8, <2>9, PublishedRow DEF CheckpointInv
  <2> QED BY <2>1, <2>10, SoundContinues
<1> QED BY <1>1, <1>2, <1>3, <1>4 DEF Independent

LEMMA SoundJoint ==
    ASSUME TypeOK, CheckpointInv, Joint
    PROVE  CheckpointInv'
<1>1. CASE BeginJoint
  BY <1>1, SoundBegins DEF BeginJoint
<1>2. CASE JointCheckpoint
  <2>1. running /\ Continue /\ project' = working' /\ baseline' = baseline
    BY <1>2 DEF JointCheckpoint, Doing
  <2>2. ASSUME NEW r \in Rows PROVE SoundFrom(working'[r], original[r])
    <3>1. working[r] \in Dataset /\ working[r].settings \in Settings
      BY Functions, DatasetFields
    <3>2. working'[r].checkpoint = Checkpoint("joint", working[r].settings)
      BY <1>2, <3>1 DEF JointCheckpoint, Dataset
    <3> QED BY <3>1, <3>2, Layouts DEF SoundFrom, Sound, Single
  <2> QED BY <2>1, <2>2, SoundContinues
<1>3. CASE JointSucceeds
  <2>1. \A r \in Rows : Sound([working[r] EXCEPT !.result = runs])
    <3>1. ASSUME NEW r \in Rows
          PROVE  /\ [working[r] EXCEPT !.result = runs].checkpoint
                      = working[r].checkpoint
                 /\ [working[r] EXCEPT !.result = runs].settings
                      = working[r].settings
      BY Functions DEF Dataset
    <3> QED BY <3>1 DEF CheckpointInv, Sound, Single
  <2> QED BY <1>3, <2>1, SoundEnds DEF JointSucceeds
<1>4. CASE JointFails
  <2>1. \A r \in Rows : Sound(_clear_all(original)[r])
    BY Functions, FailedSound, Layouts DEF _clear_all, Sound, Single
  <2> QED BY <1>4, <2>1, SoundEnds DEF JointFails
<1>5. CASE JointCancelled
  BY <1>5, SoundEnds DEF JointCancelled, CheckpointInv
<1> QED BY <1>1, <1>2, <1>3, <1>4, <1>5 DEF Joint

\* A step that rewrites one row of the working copy, and may publish it.
LEMMA SoundRow ==
    ASSUME TypeOK, CheckpointInv, running, Continue, NEW q \in Rows, NEW d,
           SoundFrom(d, original[q]), working' = [working EXCEPT ![q] = d],
           project' \in {working', project}, baseline' = baseline
    PROVE  CheckpointInv'
<1>1. \A r \in Rows : SoundFrom(working'[r], original[r])
  BY Functions DEF CheckpointInv
<1> QED BY <1>1, SoundContinues

LEMMA FailureSound ==
    ASSUME TypeOK, NEW q \in Rows
    PROVE  SoundFrom(_automatic_failure_dataset(working[q]), original[q])
BY Functions, FailedSound, Layouts DEF SoundFrom, Sound, Single

LEMMA SoundAutomatic ==
    ASSUME TypeOK, OpenInv, CheckpointInv, Automatic
    PROVE  CheckpointInv'
<1>1. CASE BeginAutomatic
  BY <1>1, AutomaticBegins, SoundBegins
<1>2. CASE RefuseRoutes
  <2>1. \A r \in Rows : Sound(project'[r])
    BY <1>2, Functions, FailedSound, Layouts DEF RefuseRoutes, Sound, Single
  <2>2. /\ original' = project /\ working' = project' /\ baseline' = project'
        /\ running' = FALSE
    BY <1>2 DEF RefuseRoutes
  <2> QED BY <2>1, <2>2 DEF CheckpointInv, Sound, Single
<1>3. ASSUME NEW q \in Rows, PublishPreparationFailure(q) PROVE CheckpointInv'
  <2>1. CASE batch_mode = "joint"
    BY <1>3, <2>1, SoundJointFailure DEF PublishPreparationFailure
  <2>2. CASE batch_mode # "joint"
    <3>1. /\ running /\ Continue /\ baseline' = baseline /\ project' = working'
          /\ working' = [working EXCEPT ![q] = _automatic_failure_dataset(working[q])]
      BY <1>3, <2>2 DEF PublishPreparationFailure, Doing
    <3> QED BY <3>1, FailureSound, SoundRow
  <2> QED BY <2>1, <2>2
<1>4. ASSUME NEW q \in Rows, NEW end \in Ended, NEW writes \in BOOLEAN,
             PrefitEnds(q, end, writes)
      PROVE  CheckpointInv'
  <2>1. /\ running /\ Continue /\ baseline' = baseline /\ fits[q] = "ready"
        /\ working' \in {_replay_checkpoints(working, q), working}
        /\ project' \in {working', project}
    BY <1>4 DEF PrefitEnds, DatasetFit, Doing
  <2>2. SoundFrom(_replay_checkpoints(working, q)[q], original[q])
    BY <2>1, ReplaySound DEF OpenInv, Open
  <2>3. CASE working' = working
    BY <2>1, <2>3, SoundContinues DEF CheckpointInv
  <2>4. CASE working' = _replay_checkpoints(working, q)
    <3>1. working' = [working EXCEPT ![q] = _replay_checkpoints(working, q)[q]]
      BY <2>4, Functions, ReplayKeeps
    <3> QED BY <2>1, <2>2, <3>1, SoundRow
  <2> QED BY <2>1, <2>3, <2>4
<1>5. ASSUME NEW q \in Rows, NEW quality \in Qualities, NEW prepared \in Settings,
             NEW winner \in Settings, CommitPrefit(q, quality, prepared, winner)
      PROVE  CheckpointInv'
  <2> DEFINE refining == Cardinality(Group(q)) > 1
             row == _automatic_result_dataset(working[q], original[q].settings,
                                         prepared, winner, quality, refining)
  <2>1. /\ running /\ Continue /\ baseline' = baseline /\ project' = working'
        /\ working' \in {[working EXCEPT ![q] = row], working,
                         [working EXCEPT ![q] = _automatic_failure_dataset(@)]}
    BY <1>5 DEF CommitPrefit, Doing
  <2>2. refining \in BOOLEAN  OBVIOUS
  <2>3. /\ working[q] \in Dataset /\ original[q] \in Dataset
        /\ SoundFrom(working[q], original[q])
    BY <2>1, Functions DEF CheckpointInv
  <2> HIDE DEF refining
  <2>4. SoundFrom(row, original[q])  BY <2>2, <2>3, ResultSound
  <2> HIDE DEF row
  <2>5. CASE working' = [working EXCEPT ![q] = row]
    BY <2>1, <2>4, <2>5, SoundRow
  <2>6. CASE working' = working
    BY <2>1, <2>6, SoundContinues DEF CheckpointInv
  <2>7. CASE working' = [working EXCEPT ![q] = _automatic_failure_dataset(working[q])]
    BY <2>1, <2>7, FailureSound, SoundRow
  <2> QED BY <2>1, <2>5, <2>6, <2>7
<1>6. ASSUME NEW q \in Rows, NEW end \in Ended, WithheldPrefit(q, end)
      PROVE  CheckpointInv'
  <2>1. CASE end = "ok"
    <3>1. running /\ Continue /\ UNCHANGED <<project, working, baseline>>
      BY <1>6, <2>1 DEF WithheldPrefit, Doing
    <3> QED BY <3>1, SoundContinues DEF CheckpointInv
  <2>2. CASE end = "cancelled"
    <3>1. End("cancelled", original)  BY <1>6, <2>2 DEF WithheldPrefit
    <3> QED BY <3>1, SoundEnds DEF CheckpointInv
  <2>3. CASE end # "ok" /\ end # "cancelled"
    BY <1>6, <2>3, SoundJointFailure DEF WithheldPrefit
  <2> QED BY <2>1, <2>2, <2>3
<1> QED BY <1>1, <1>2, <1>3, <1>4, <1>5, <1>6 DEF Automatic

LEMMA SoundGroups ==
    ASSUME TypeOK, CheckpointInv, Groups
    PROVE  CheckpointInv'
<1>1. ASSUME NEW prepared \in Settings, NEW winner \in Settings,
             CommitIncompleteGroup(prepared, winner)
      PROVE  CheckpointInv'
  <2>1. PICK q \in Rows : working' = [working EXCEPT ![q] =
               _automatic_result_dataset(@, original[q].settings, prepared,
                 winner, IF fits[q] = "winnerless" THEN "invalid" ELSE "review",
                 FALSE)]
    BY <1>1 DEF CommitIncompleteGroup
  <2> DEFINE quality == IF fits[q] = "winnerless" THEN "invalid" ELSE "review"
             row == _automatic_result_dataset(working[q], original[q].settings,
                                         prepared, winner, quality, FALSE)
  <2>2. quality \in Qualities  BY DEF Qualities
  <2>3. running /\ Continue /\ baseline' = baseline /\ project' = working'
    BY <1>1 DEF CommitIncompleteGroup, Doing
  <2>4. /\ working[q] \in Dataset /\ original[q] \in Dataset
        /\ SoundFrom(working[q], original[q])
    BY <2>3, Functions DEF CheckpointInv
  <2> HIDE DEF quality
  <2>5. SoundFrom(row, original[q])  BY <2>2, <2>4, ResultSound, Zenon
  <2>6. working' = [working EXCEPT ![q] = row]  BY <2>1 DEF quality
  <2> HIDE DEF row
  <2> QED BY <2>3, <2>5, <2>6, SoundRow
<1>2. ASSUME NEW isolated \in SUBSET Rows, BeginGroup(isolated)
      PROVE  CheckpointInv'
  <2>1. running /\ Continue /\ baseline' = working /\ UNCHANGED <<project, working>>
    BY <1>2 DEF BeginGroup, Doing
  <2> QED BY <2>1, SoundContinues DEF CheckpointInv
<1>3. CASE GroupCheckpoint
  <2>1. /\ running /\ Continue /\ project' = working' /\ baseline' = baseline
        /\ \A r \in Rows : r \notin Refining => working'[r] = working[r]
    BY <1>3 DEF GroupCheckpoint, Doing
  <2>2. ASSUME NEW r \in Refining PROVE SoundFrom(working'[r], original[r])
    <3>1. r \in Rows /\ working[r] \in Dataset  BY Functions DEF Refining
    <3>2. working'[r] = [working[r] EXCEPT !.checkpoint =
                          IF r \in Qualified THEN GroupLayout ELSE NoCheckpoint]
      BY <1>3, <3>1 DEF GroupCheckpoint
    <3>3. working'[r].checkpoint \in {GroupLayout, NoCheckpoint}
      BY <3>1, <3>2 DEF Dataset
    <3> QED BY <3>3, Layouts DEF SoundFrom, Sound, Single
  <2>3. \A r \in Rows : SoundFrom(working'[r], original[r])
    BY <2>1, <2>2 DEF CheckpointInv
  <2> QED BY <2>1, <2>3, SoundContinues
<1>4. ASSUME NEW quality \in [Rows -> Qualities], NEW prepared \in [Rows -> Settings],
             NEW winner \in [Rows -> Settings], GroupSucceeds(quality, prepared, winner)
      PROVE  CheckpointInv'
  <2>1. /\ running /\ Continue /\ project' = working' /\ baseline' = baseline
        /\ \A r \in Rows : working'[r] = IF r \notin Refining THEN working[r]
             ELSE _automatic_result_dataset(working[r], original[r].settings,
                          prepared[r], winner[r], quality[r], FALSE)
    BY <1>4 DEF GroupSucceeds, Doing
  <2>2. ASSUME NEW r \in Rows
        PROVE  SoundFrom(_automatic_result_dataset(working[r], original[r].settings,
                          prepared[r], winner[r], quality[r], FALSE), original[r])
    <3>1. /\ working[r] \in Dataset /\ original[r] \in Dataset
          /\ SoundFrom(working[r], original[r])
          /\ prepared[r] \in Settings /\ winner[r] \in Settings
          /\ quality[r] \in Qualities
      BY <2>1, Functions DEF CheckpointInv
    <3> QED BY <3>1, ResultSound, Zenon
  <2>3. \A r \in Rows : SoundFrom(working'[r], original[r])
    <3>1. \A r \in Rows : SoundFrom(working[r], original[r])
      BY <2>1 DEF CheckpointInv
    <3> QED BY <2>1, <2>2, <3>1
  <2> QED BY <2>1, <2>3, SoundContinues
<1>5. CASE GroupFails
  <2>1. CASE batch_mode = "joint"
    BY <1>5, <2>1, SoundJointFailure DEF GroupFails
  <2>2. CASE batch_mode # "joint"
    <3>1. /\ running /\ Continue /\ project' = working' /\ baseline' = baseline
          /\ \A r \in Rows : working'[r] = IF r \in Refining
                 THEN _automatic_failure_dataset(working[r]) ELSE working[r]
      BY <1>5, <2>2 DEF GroupFails, Doing
    <3>2. \A r \in Rows : SoundFrom(working'[r], original[r])
      BY <3>1, FailureSound DEF CheckpointInv
    <3> QED BY <3>1, <3>2, SoundContinues
  <2> QED BY <2>1, <2>2
<1>6. CASE GroupCancelled
  <2>1. running /\ Continue /\ working' = baseline /\ project' = working'
        /\ baseline' = baseline
    BY <1>6 DEF GroupCancelled, Doing
  <2> QED BY <2>1, SoundContinues DEF CheckpointInv
<1>7. CASE EndAutomatic
  <2>1. \/ End("cancelled", original) \/ End("cancelled", project)
        \/ End("returned", working)
    BY <1>7 DEF EndAutomatic
  <2> QED BY <2>1, SoundEnds DEF CheckpointInv
<1> QED BY <1>1, <1>2, <1>3, <1>4, <1>5, <1>6, <1>7 DEF Groups

LEMMA SoundStep ==
    ASSUME TypeOK, OpenInv, CheckpointInv, [Next]_vars
    PROVE  CheckpointInv'
<1>1. CASE Cancel
  BY <1>1 DEF Cancel, CheckpointInv
<1>2. CASE WorkerDies
  BY <1>2, SoundEnds DEF WorkerDies, CheckpointInv
<1>3. CASE UNCHANGED vars
  BY <1>3 DEF vars, CheckpointInv
<1> QED BY <1>1, <1>2, <1>3, SoundIndependent, SoundJoint, SoundAutomatic,
           SoundGroups DEF Next

LEMMA SoundInit == Init => CheckpointInv
<1> SUFFICES ASSUME Init PROVE CheckpointInv  OBVIOUS
<1>1. \A r \in Rows : ~Single(project[r])
  BY Layouts DEF Init, Fresh, Single
<1> QED BY <1>1 DEF Init, CheckpointInv, Sound

\* Whatever settings a winner left in a row, a single search can take up the
\* checkpoint beside them, in every snapshot the owner ever holds.
THEOREM CheckpointsFit == Spec => []SingleCheckpointsResume
<1>1. CheckpointInv => SingleCheckpointsResume
  BY DEF CheckpointInv, SingleCheckpointsResume, Resumable, Sound, Single
<1> QED BY <1>1, TypeCorrect, OpenInit, OpenStep, SoundInit, SoundStep, PTL
        DEF Spec

-----------------------------------------------------------------------------
(***************************************************************************)
(* The independent fit: what a row published is in the working copy, and   *)
(* its checkpoint in the owner's too.                                      *)
(***************************************************************************)
OwnSingle(d) == d.checkpoint = Checkpoint("single", d.settings)

IndependentInv ==
    running /\ kind = "independent" => \A r \in Rows :
      /\ fits[r] \in {"unprepared", "ready"} => r \notin saved
      /\ fits[r] = "decided" => working[r].result = runs
      /\ fits[r] = "stopped" => /\ working[r].result = original[r].result
                                /\ project[r].result = original[r].result
      /\ fits[r] \in Published /\ r \in saved =>
           OwnSingle(working[r]) /\ OwnSingle(project[r])

LEMMA IndependentInit == Init => IndependentInv /\ StopKeepsProgress
BY DEF Init, IndependentInv, StopKeepsProgress

\* The row that is published: how it looks in both copies.
LEMMA PublishedParts ==
    ASSUME TypeOK, NEW q \in Rows, _publish_independent_row(q),
           q \in saved => fits[q] # "unprepared"
    PROVE  /\ fits'[q] = "decided" => working'[q].result = runs
           /\ fits'[q] = "stopped" =>
                /\ working'[q].result = working[q].result
                /\ project'[q].result \in {working[q].result, project[q].result}
           /\ q \in saved => OwnSingle(working'[q]) /\ OwnSingle(project'[q])
<1> DEFINE row == IF q \in saved THEN _replay_checkpoints(working, q) ELSE working
<1>1. row \in [Rows -> Dataset] /\ row[q].result = working[q].result
  BY Functions, Replayed, ReplayKeeps
<1>2. q \in saved => OwnSingle(row[q])
  BY Functions, ReplayKeeps DEF OwnSingle
<1>3. /\ working' = CASE fits[q] = "unprepared" ->
                           [working EXCEPT ![q] = _clear_dataset(@)]
                      [] fits[q] = "ok" -> [row EXCEPT ![q].result = runs]
                      [] OTHER -> row
      /\ project' = IF q \in saved THEN row ELSE project
      /\ fits'[q] = PublishedAs(fits[q])
  BY Functions DEF _publish_independent_row
<1> HIDE DEF row
<1>4. /\ [row EXCEPT ![q].result = runs][q].result = runs
      /\ [row EXCEPT ![q].result = runs][q].checkpoint = row[q].checkpoint
      /\ [row EXCEPT ![q].result = runs][q].settings = row[q].settings
  BY <1>1 DEF Dataset
<1>5. CASE fits[q] = "ok"
  <2>1. working' = [row EXCEPT ![q].result = runs] /\ fits'[q] = "decided"
    BY <1>3, <1>5 DEF PublishedAs
  <2> QED BY <1>2, <1>3, <1>4, <2>1 DEF OwnSingle
<1>6. CASE fits[q] = "unprepared"
  <2>1. fits'[q] = "failed" /\ q \notin saved  BY <1>3, <1>6 DEF PublishedAs
  <2> QED BY <2>1
<1>7. CASE fits[q] # "ok" /\ fits[q] # "unprepared"
  <2>1. working' = row /\ fits'[q] # "decided"  BY <1>3, <1>7 DEF PublishedAs
  <2> QED BY <1>1, <1>2, <1>3, <2>1
<1> QED BY <1>5, <1>6, <1>7

LEMMA IndependentKept ==
    ASSUME TypeOK, OpenInv, IndependentInv, Independent
    PROVE  IndependentInv'
<1>1. CASE BeginIndependent
  <2>1. \A r \in Rows : fits'[r] \in {"unprepared", "ready", "out"} /\ saved' = {}
    BY <1>1 DEF BeginIndependent, Begin
  <2> QED BY <2>1 DEF IndependentInv, Published
<1>2. CASE IndependentSearch
  <2>1. PICK q \in Rows, end \in Ended :
          /\ fits[q] = "ready" /\ fits' = [fits EXCEPT ![q] = end]
          /\ saved' \in {saved, saved \cup {q}}
    BY <1>2 DEF IndependentSearch, DatasetFit
  <2>2. /\ running /\ kind = "independent" /\ Continue
        /\ UNCHANGED <<project, working, baseline>>
    BY <1>2 DEF IndependentSearch, Doing
  <2>3. fits'[q] = end /\ \A r \in Rows : r # q => fits'[r] = fits[r]
    BY <2>1, Functions
  <2>4. UNCHANGED <<runs, original>>  BY <2>2 DEF Continue
  <2>5. end \notin Published \cup {"unprepared", "ready"}
    BY DEF Ended, Published
  <2> QED BY <2>1, <2>2, <2>3, <2>4, <2>5 DEF IndependentInv, Published
<1>3. CASE EndIndependent
  BY <1>3 DEF EndIndependent, End, IndependentInv
<1>4. ASSUME NEW q \in Rows, _publish_independent_row(q) PROVE IndependentInv'
  <2>1. /\ fits[q] \in Ended \cup {"unprepared"} /\ Continue
        /\ running /\ kind = "independent" /\ UNCHANGED saved
        /\ fits' = [fits EXCEPT ![q] = PublishedAs(fits[q])]
        /\ \A r \in Rows : r # q =>
             working'[r] = working[r] /\ project'[r] \in {working[r], project[r]}
    BY <1>4, PublishedRow DEF Doing
  <2>2. UNCHANGED <<runs, original>>  BY <2>1 DEF Continue
  <2>3. /\ fits'[q] = PublishedAs(fits[q])
        /\ \A r \in Rows : r # q => fits'[r] = fits[r]
    BY <2>1, Functions
  <2>4. fits'[q] \in Published  BY <2>3 DEF PublishedAs, Published
  <2>5. q \in saved => fits[q] # "unprepared"  BY <2>1 DEF IndependentInv
  <2>6. /\ working[q].result = original[q].result
        /\ project[q].result = original[q].result
    BY <2>1 DEF OpenInv, Open
  <2>7. /\ fits'[q] = "decided" => working'[q].result = runs
        /\ fits'[q] = "stopped" => /\ working'[q].result = original[q].result
                                   /\ project'[q].result = original[q].result
        /\ q \in saved => OwnSingle(working'[q]) /\ OwnSingle(project'[q])
    BY <1>4, <2>5, <2>6, PublishedParts
  <2>8. ASSUME NEW r \in Rows, r # q
        PROVE  /\ fits'[r] \in {"unprepared", "ready"} => r \notin saved
               /\ fits'[r] = "decided" => working'[r].result = runs
               /\ fits'[r] = "stopped" => /\ working'[r].result = original[r].result
                                          /\ project'[r].result = original[r].result
               /\ fits'[r] \in Published /\ r \in saved =>
                    OwnSingle(working'[r]) /\ OwnSingle(project'[r])
    BY <2>1, <2>3, <2>8 DEF IndependentInv
  <2> QED BY <2>1, <2>2, <2>4, <2>7, <2>8 DEF IndependentInv, Published
<1> QED BY <1>1, <1>2, <1>3, <1>4 DEF Independent

\* The other transactions leave both facts alone.
LEMMA IndependentElsewhere ==
    ASSUME Joint \/ Automatic \/ Groups
    PROVE  IndependentInv' /\ StopKeepsProgress'
<1>1. kind' # "independent"
  BY DEF Joint, BeginJoint, JointCheckpoint, JointSucceeds, JointFails,
     JointCancelled, Automatic, BeginAutomatic, RefuseRoutes,
     PublishPreparationFailure, _automatic_joint_failure, PrefitEnds,
     CommitPrefit, WithheldPrefit, Groups, CommitIncompleteGroup, BeginGroup,
     GroupCheckpoint, GroupSucceeds, GroupFails, GroupCancelled, EndAutomatic,
     Begin, Doing, Continue, End
<1> QED BY <1>1 DEF IndependentInv, StopKeepsProgress

LEMMA IndependentStops ==
    ASSUME TypeOK, IndependentInv, StopKeepsProgress, Independent
    PROVE  StopKeepsProgress'
<1>1. CASE BeginIndependent
  BY <1>1 DEF BeginIndependent, Begin, StopKeepsProgress
<1>2. CASE IndependentSearch
  BY <1>2 DEF IndependentSearch, Doing, Continue, StopKeepsProgress
<1>3. ASSUME NEW q \in Rows, _publish_independent_row(q) PROVE StopKeepsProgress'
  BY <1>3 DEF _publish_independent_row, Doing, Continue, StopKeepsProgress
<1>4. CASE EndIndependent
  <2>1. running /\ kind = "independent" /\ \A r \in Rows : fits[r] \in Published
    BY <1>4 DEF EndIndependent, Doing
  <2>2. UNCHANGED <<runs, original, fits, saved>>
    BY <1>4 DEF EndIndependent, End
  <2>3. project' = working \/ (project' = project /\ NoneIs({"decided"}))
    BY <1>4 DEF EndIndependent, End, NoneIs, SomeIs
  <2>4. ASSUME NEW r \in Rows
        PROVE  /\ fits[r] = "decided" => project'[r].result = runs
               /\ fits[r] = "stopped" => project'[r].result = original[r].result
               /\ r \in saved => OwnSingle(project'[r])
    BY <2>1, <2>3 DEF IndependentInv, NoneIs
  <2> QED BY <2>2, <2>4 DEF StopKeepsProgress, OwnSingle
<1> QED BY <1>1, <1>2, <1>3, <1>4 DEF Independent

LEMMA IndependentStep ==
    ASSUME TypeOK, OpenInv, IndependentInv, StopKeepsProgress, [Next]_vars
    PROVE  IndependentInv' /\ StopKeepsProgress'
<1>1. CASE Cancel
  BY <1>1 DEF Cancel, IndependentInv, StopKeepsProgress
<1>2. CASE WorkerDies
  BY <1>2 DEF WorkerDies, End, IndependentInv, StopKeepsProgress
<1>3. CASE UNCHANGED vars
  BY <1>3 DEF vars, IndependentInv, StopKeepsProgress
<1> QED BY <1>1, <1>2, <1>3, IndependentKept, IndependentStops,
           IndependentElsewhere DEF Next

\* Stopping an independent fit loses no row that finished, and no checkpoint
\* of a row that did not, for every number of rows.
THEOREM StopsKeep == Spec => []StopKeepsProgress
<1> QED BY TypeCorrect, OpenInit, OpenStep, IndependentInit, IndependentStep,
           PTL DEF Spec

-----------------------------------------------------------------------------
(***************************************************************************)
(* The automatic fit of an independent project: a row keeps its route and  *)
(* its checkpoint until it is committed, a committed row is published as   *)
(* it is, and a group in refinement can go back to prefits that await it.  *)
(***************************************************************************)
Awaits(d) == /\ d.status = "REFINING" /\ d.result = runs
             /\ d.checkpoint # GroupLayout

Waiting(r) ==
    /\ fits[r] \in Ended \cup {"unprepared", "ready", "stopped"} =>
         working[r].status = "REFINING"
    /\ fits[r] \in {"unprepared", "ready"} => r \notin saved
    /\ fits[r] \in Ended \cup {"stopped"} /\ r \in saved => OwnSingle(working[r])
    /\ fits[r] = "ok" => working[r].checkpoint # GroupLayout

Committed(r) ==
    /\ fits[r] = "stopped" => working[r].result = original[r].result
    /\ fits[r] = "fitted" => Awaits(working[r])
    /\ fits[r] = "winnerless" => working[r].status = "FAILED"
    /\ fits[r] \in Prefitted \cup {"stopped"} => project[r] = working[r]

CanGoBack(r) ==
    fits[r] \in InGroup =>
      /\ baseline[r].status = "FAILED" \/ Awaits(baseline[r])
      /\ \A s \in Rows : fits[s] # "stopped"

AutomaticInv ==
    Incremental => \A r \in Rows : Waiting(r) /\ Committed(r) /\ CanGoBack(r)

LEMMA AutomaticInit == Init => AutomaticInv /\ CancelKeepsRunnable
BY DEF Init, AutomaticInv, Incremental, CancelKeepsRunnable

LEMMA AutomaticStarts ==
    ASSUME TypeOK, BeginAutomatic
    PROVE  AutomaticInv'
<1>1. PICK start \in [Rows -> Dataset] :
        /\ Begin("automatic", _automatic_indices, start)
        /\ \A r \in Rows : r \in _automatic_indices => start[r].status = "REFINING"
  BY AutomaticBegins
<1>2. /\ working' = start /\ saved' = {}
      /\ \A r \in Rows : fits'[r] \in {"unprepared", "ready", "out"}
      /\ \A r \in Rows : fits'[r] \in {"unprepared", "ready"}
                           => r \in _automatic_indices
  BY <1>1 DEF Begin
<1>3. \A r \in Rows : fits'[r] \notin Ended \cup Prefitted \cup InGroup \cup {"stopped"}
  BY <1>2 DEF Ended, Prefitted, InGroup
<1>4. ASSUME NEW r \in Rows PROVE Waiting(r)' /\ Committed(r)' /\ CanGoBack(r)'
  BY <1>1, <1>2, <1>3 DEF Waiting, Committed, CanGoBack, Ended, Prefitted
<1> QED BY <1>4 DEF AutomaticInv

\* A step of one row outside a refinement: what has to be said is about it.
LEMMA AutomaticRow ==
    ASSUME TypeOK, AutomaticInv, Incremental, Continue, NEW q \in Rows,
           NEW d, NEW f, working' = [working EXCEPT ![q] = d],
           fits' = [fits EXCEPT ![q] = f], f \notin InGroup,
           \A s \in Rows : fits[s] \notin InGroup,
           \A r \in Rows : r # q =>
             project'[r] \in {project[r], working[r]} /\ (r \in saved' <=> r \in saved),
           Waiting(q)', Committed(q)'
    PROVE  AutomaticInv'
<1>1. UNCHANGED <<runs, original>>  BY DEF Continue
<1>2. fits'[q] = f /\ \A r \in Rows : r # q => /\ fits'[r] = fits[r]
                                               /\ working'[r] = working[r]
  BY Functions
<1>3. \A s \in Rows : fits'[s] \notin InGroup  BY <1>2
<1>4. ASSUME NEW r \in Rows, r # q PROVE Waiting(r)' /\ Committed(r)'
  <2>1. Waiting(r) /\ Committed(r)  BY DEF AutomaticInv
  <2> QED BY <1>1, <1>2, <1>4, <2>1 DEF Waiting, Committed, Awaits, OwnSingle
<1>5. \A r \in Rows : Waiting(r)' /\ Committed(r)'  BY <1>4
<1>6. \A r \in Rows : CanGoBack(r)'  BY <1>3 DEF CanGoBack
<1> QED BY <1>5, <1>6 DEF AutomaticInv

LEMMA AutomaticCommits ==
    ASSUME TypeOK, OpenInv, DecisionsInv, AutomaticInv, Incremental,
           NEW q \in Rows, NEW quality \in Qualities, NEW prepared \in Settings,
           NEW winner \in Settings, CommitPrefit(q, quality, prepared, winner)
    PROVE  AutomaticInv'
<1> DEFINE refining == Cardinality(Group(q)) > 1
           row == _automatic_result_dataset(working[q], original[q].settings,
                                       prepared, winner, quality, refining)
           d == CASE fits[q] = "ok" -> row
                  [] fits[q] = "cancelled" -> working[q]
                  [] OTHER -> _automatic_failure_dataset(working[q])
           f == CASE fits[q] # "ok" \/ ~refining -> PublishedAs(fits[q])
                  [] fits[q] = "ok" /\ refining /\ quality = "invalid" -> "winnerless"
                  [] OTHER -> "fitted"
<1>1. /\ fits[q] \in Ended /\ Continue /\ project' = working'
      /\ UNCHANGED <<baseline, saved, refused>>
  BY DEF CommitPrefit
<1>2. working' = [working EXCEPT ![q] = d]
  <2>1. working = [working EXCEPT ![q] = working[q]]  BY Functions
  <2> QED BY <2>1 DEF CommitPrefit
<1>3. fits' = [fits EXCEPT ![q] = f]  BY DEF CommitPrefit
<1>4. working[q] \in Dataset /\ original[q].settings \in Settings
  BY Functions, DatasetFields
<1>5. refining \in BOOLEAN  OBVIOUS
<1>6. /\ quality = "invalid" => row.status = "FAILED"
      /\ quality # "invalid" =>
           /\ row.status = _automatic_status(quality, refining)
           /\ row.result = runs
           /\ row.checkpoint \in {working[q].checkpoint, NoCheckpoint}
  <2> HIDE DEF refining
  <2>1. LET e == row IN
          /\ quality = "invalid" => /\ e.status = "FAILED"
                                    /\ e.checkpoint = NoCheckpoint
          /\ quality # "invalid" =>
               /\ e.status = _automatic_status(quality, refining)
               /\ e.result = runs /\ e.settings = winner
               /\ e.checkpoint = IF winner = prepared /\ prepared = original[q].settings
                                 THEN working[q].checkpoint ELSE NoCheckpoint
    BY <1>4, <1>5, ResultParts
  <2> HIDE DEF row
  <2> QED BY <2>1
<1>7. UNCHANGED <<runs, original>>  BY <1>1 DEF Continue
<1>8. working'[q] = d /\ project'[q] = d /\ fits'[q] = f
  BY <1>1, <1>2, <1>3, Functions
<1>9. Waiting(q) /\ Committed(q)  BY DEF AutomaticInv
<1>10. \A s \in Rows : fits[s] \notin InGroup
  BY <1>1, Zenon DEF DecisionsInv
<1>11. Waiting(q)' /\ Committed(q)' /\ f \notin InGroup
  <2>1. CASE fits[q] = "ok"
    <3>1. d = row  BY <2>1
    <3>2. CASE ~refining
      <4>1. f = "decided"  BY <2>1, <3>2 DEF PublishedAs
      <4> QED BY <1>8, <4>1 DEF Waiting, Committed, Ended, Prefitted, InGroup
    <3>3. CASE refining /\ quality = "invalid"
      <4>1. f = "winnerless" /\ d.status = "FAILED"  BY <1>6, <2>1, <3>1, <3>3
      <4> HIDE DEF d, f
      <4> QED BY <1>8, <4>1 DEF Waiting, Committed, Ended, Prefitted, InGroup
    <3>4. CASE refining /\ quality # "invalid"
      <4>1. f = "fitted"  BY <2>1, <3>4
      <4>2. _automatic_status(quality, refining) = "REFINING"
        BY <3>4 DEF _automatic_status, Qualities
      <4>3. NoCheckpoint # GroupLayout  BY DEF NoCheckpoint, GroupLayout
      <4>4. d.status = "REFINING" /\ d.result = runs /\ d.checkpoint # GroupLayout
        BY <1>6, <1>9, <2>1, <3>1, <3>4, <4>2, <4>3 DEF Waiting
      <4> HIDE DEF d, f
      <4> QED BY <1>7, <1>8, <4>1, <4>4
          DEF Waiting, Committed, Awaits, Ended, Prefitted, InGroup
    <3> QED BY <3>2, <3>3, <3>4
  <2>2. CASE fits[q] = "cancelled"
    <3>1. d = working[q] /\ f = "stopped"  BY <2>2 DEF PublishedAs
    <3>2. working[q].result = original[q].result
      BY <2>2 DEF OpenInv, Open, Ended, Incremental
    <3>3. working[q].status = "REFINING" /\ (q \in saved => OwnSingle(working[q]))
      BY <1>1, <1>9 DEF Waiting
    <3> HIDE DEF d, f
    <3> QED BY <1>1, <1>7, <1>8, <3>1, <3>2, <3>3
        DEF Waiting, Committed, Ended, Prefitted, InGroup, OwnSingle
  <2>3. CASE fits[q] # "ok" /\ fits[q] # "cancelled"
    <3>1. f = "failed"  BY <1>1, <2>3 DEF PublishedAs, Ended
    <3> HIDE DEF f
    <3> QED BY <1>8, <3>1 DEF Waiting, Committed, Ended, Prefitted, InGroup
  <2> QED BY <2>1, <2>2, <2>3
<1> HIDE DEF d, f
<1>12. \A r \in Rows : r # q =>
         project'[r] \in {project[r], working[r]} /\ (r \in saved' <=> r \in saved)
  BY <1>1, <1>2, Functions
<1> QED BY <1>1, <1>2, <1>3, <1>10, <1>11, <1>12, AutomaticRow

LEMMA AutomaticPrefits ==
    ASSUME TypeOK, OpenInv, DecisionsInv, AutomaticInv, Incremental,
           NEW q \in Rows, NEW end \in Ended, NEW writes \in BOOLEAN,
           PrefitEnds(q, end, writes)
    PROVE  AutomaticInv'
<1> DEFINE d == IF writes THEN _replay_checkpoints(working, q)[q] ELSE working[q]
<1>1. /\ fits[q] = "ready" /\ fits' = [fits EXCEPT ![q] = end] /\ Continue
      /\ writes => Resumable("single", working[q])
      /\ end = "ok" => Resumable("single", working[q])
      /\ saved' = IF writes THEN saved \cup {q} ELSE saved
  BY DEF PrefitEnds, DatasetFit
<1>2. /\ working' = IF writes THEN _replay_checkpoints(working, q) ELSE working
      /\ project' = IF writes THEN working' ELSE project
  BY DEF PrefitEnds
<1>3. working' = [working EXCEPT ![q] = d]
  BY <1>2, Functions, ReplayKeeps
<1>4. /\ d.status = working[q].status
      /\ writes => OwnSingle(d) /\ Single(d)
      /\ ~writes => d = working[q]
  <2>1. /\ _replay_checkpoints(working, q)[q].status = working[q].status
        /\ _replay_checkpoints(working, q)[q].settings = working[q].settings
        /\ _replay_checkpoints(working, q)[q].checkpoint
             = Checkpoint("single", working[q].settings)
    BY Functions, ReplayKeeps
  <2>2. Checkpoint("single", working[q].settings).layout = "single"
    BY DEF Checkpoint
  <2> QED BY <2>1, <2>2 DEF OwnSingle, Single
<1>5. q \notin saved /\ working[q].status = "REFINING"
  BY <1>1 DEF AutomaticInv, Waiting
<1>6. Resumable("single", working[q]) => working[q].checkpoint # GroupLayout
  BY Functions, DatasetFields DEF Resumable, NoCheckpoint, GroupLayout, Checkpoint
<1>7. \A s \in Rows : fits[s] \notin InGroup
  BY <1>1, Zenon DEF DecisionsInv
<1> HIDE DEF d
<1>8. fits'[q] = end /\ working'[q] = d  BY <1>1, <1>3, Functions
<1>9. end \notin InGroup \cup Prefitted \cup {"unprepared", "ready", "stopped"}
  BY DEF Ended, InGroup, Prefitted
<1>10. end = "ok" => d.checkpoint # GroupLayout
  <2>1. GroupLayout.layout # "single"  BY Layouts
  <2> QED BY <1>1, <1>4, <1>6, <2>1 DEF Single
<1>11. Waiting(q)' /\ Committed(q)'
  <2>1. q \in saved' => OwnSingle(working'[q])
    BY <1>1, <1>4, <1>5, <1>8
  <2>2. Waiting(q)'
    BY <1>4, <1>5, <1>8, <1>9, <1>10, <2>1 DEF Waiting, OwnSingle
  <2>3. Committed(q)'  BY <1>8, <1>9 DEF Committed, Prefitted
  <2> QED BY <2>2, <2>3
<1>12. \A r \in Rows : r # q =>
         project'[r] \in {project[r], working[r]} /\ (r \in saved' <=> r \in saved)
  BY <1>1, <1>2, <1>3, Functions
<1> QED BY <1>1, <1>3, <1>7, <1>9, <1>11, <1>12, AutomaticRow

\* A step of a whole group: its rows are neither open nor stopped, and the
\* others have their working dataset published.
LEMMA AutomaticGroup ==
    ASSUME TypeOK, AutomaticInv, Incremental, Continue, saved' = saved,
           project' = working',
           \A r \in Rows : r \notin Refining =>
             working'[r] = working[r] /\ fits'[r] = fits[r],
           \A r \in Refining : fits'[r] \in Decided \cup InGroup \cup Prefitted,
           \A r \in Refining : fits'[r] \in Prefitted => Committed(r)',
           \/ \A r \in Rows : fits'[r] = fits[r] /\ baseline'[r] = baseline[r]
           \/ \A r \in Rows : fits'[r] \notin InGroup
    PROVE  AutomaticInv'
<1>1. UNCHANGED <<runs, original>> /\ Incremental  BY DEF Continue
<1>2. ASSUME NEW r \in Rows PROVE Waiting(r)' /\ Committed(r)'
  <2>1. CASE r \notin Refining
    <3>1. Waiting(r) /\ Committed(r)  BY DEF AutomaticInv
    <3> QED BY <1>1, <2>1, <3>1 DEF Waiting, Committed, Awaits, OwnSingle
  <2>2. CASE r \in Refining
    <3>1. fits'[r] \notin Ended \cup {"unprepared", "ready", "stopped"}
      BY <2>2 DEF Decided, InGroup, Prefitted, Ended
    <3>2. Waiting(r)'  BY <3>1 DEF Waiting, Ended
    <3>3. Committed(r)'
      <4>1. CASE fits'[r] \in Prefitted  BY <2>2, <4>1
      <4>2. CASE fits'[r] \notin Prefitted
        BY <3>1, <4>2 DEF Committed, Prefitted
      <4> QED BY <4>1, <4>2
    <3> QED BY <3>2, <3>3
  <2> QED BY <2>1, <2>2
<1>3. ASSUME NEW r \in Rows PROVE CanGoBack(r)'
  <2>1. CanGoBack(r)  BY DEF AutomaticInv
  <2> QED BY <1>1, <2>1 DEF CanGoBack, Awaits
<1> QED BY <1>2, <1>3 DEF AutomaticInv

LEMMA AutomaticGroups ==
    ASSUME TypeOK, OpenInv, DecisionsInv, AutomaticInv, Incremental, Groups
    PROVE  AutomaticInv'
<1>0. batch_mode = "independent" /\ running  BY DEF Incremental
<1>1. ASSUME NEW prepared \in Settings, NEW winner \in Settings,
             CommitIncompleteGroup(prepared, winner)
      PROVE  AutomaticInv'
  <2>0. PICK q \in Rows : \E d : /\ working' = [working EXCEPT ![q] = d]
                                 /\ fits' = [fits EXCEPT ![q] = "decided"]
    BY <1>1 DEF CommitIncompleteGroup
  <2>1. PICK d : /\ working' = [working EXCEPT ![q] = d]
                 /\ fits' = [fits EXCEPT ![q] = "decided"]
    BY <2>0
  <2>2. Continue /\ project' = working' /\ UNCHANGED saved
    BY <1>1 DEF CommitIncompleteGroup
  <2>3. \A s \in Rows : fits[s] \notin InGroup
    BY <1>1 DEF CommitIncompleteGroup, Settled, NoneIs
  <2>4. fits'[q] = "decided"  BY <2>1, Functions
  <2>5. Waiting(q)' /\ Committed(q)' /\ "decided" \notin InGroup
    BY <2>4 DEF Waiting, Committed, Ended, Prefitted, InGroup
  <2>6. \A r \in Rows : r # q =>
          project'[r] \in {project[r], working[r]} /\ (r \in saved' <=> r \in saved)
    BY <2>1, <2>2, Functions
  <2> QED BY <2>1, <2>2, <2>3, <2>5, <2>6, AutomaticRow
<1>2. ASSUME NEW isolated \in SUBSET Rows, BeginGroup(isolated)
      PROVE  AutomaticInv'
  <2>1. /\ NoneIs({"stopped"}) /\ isolated \subseteq NextGroup /\ Continue
        /\ baseline' = working /\ UNCHANGED <<project, working, saved, refused>>
        /\ fits' = [r \in Rows |-> IF r \in isolated THEN "isolated"
                       ELSE IF r \in NextGroup THEN "qualified" ELSE fits[r]]
        /\ NoneIs(Ended \cup InGroup \cup {"unprepared", "ready"})
    BY <1>2 DEF BeginGroup, Settled
  <2>2. UNCHANGED <<runs, original>>  BY <2>1 DEF Continue
  <2>3. ASSUME NEW r \in Rows
        PROVE  \/ r \in NextGroup /\ fits'[r] \in InGroup
               \/ fits'[r] = fits[r] /\ fits'[r] \notin InGroup
    BY <2>1 DEF InGroup, NoneIs
  <2>4. \A r \in Rows : fits'[r] # "stopped"
    BY <2>1, <2>3 DEF NoneIs, InGroup
  <2>5. ASSUME NEW r \in Rows PROVE Waiting(r)' /\ Committed(r)'
    <3>1. Waiting(r) /\ Committed(r)  BY DEF AutomaticInv
    <3>2. CASE fits'[r] \in InGroup
      BY <3>2 DEF Waiting, Committed, InGroup, Ended, Prefitted
    <3>3. CASE fits'[r] = fits[r]
      BY <2>1, <2>2, <3>1, <3>3 DEF Waiting, Committed, Awaits, OwnSingle
    <3> QED BY <2>3, <3>2, <3>3
  <2>6. ASSUME NEW r \in Rows PROVE CanGoBack(r)'
    <3>1. r \in NextGroup => fits[r] \in Prefitted  BY DEF NextGroup
    <3>2. r \in NextGroup => working[r].status = "FAILED" \/ Awaits(working[r])
      BY <3>1 DEF AutomaticInv, Committed, Prefitted
    <3> QED BY <2>1, <2>2, <2>3, <2>4, <3>2 DEF CanGoBack, Awaits
  <2> QED BY <2>5, <2>6 DEF AutomaticInv
<1>3. CASE GroupCheckpoint
  <2>1. /\ Continue /\ project' = working' /\ UNCHANGED <<baseline, fits, saved>>
        /\ \A r \in Rows : r \notin Refining => working'[r] = working[r]
    BY <1>3 DEF GroupCheckpoint
  <2>2. \A r \in Refining : fits'[r] \in InGroup /\ fits'[r] \notin Prefitted
    BY <2>1 DEF Refining, InGroup, Prefitted
  <2> QED BY <2>1, <2>2, AutomaticGroup
<1>4. ASSUME NEW quality \in [Rows -> Qualities], NEW prepared \in [Rows -> Settings],
             NEW winner \in [Rows -> Settings], GroupSucceeds(quality, prepared, winner)
      PROVE  AutomaticInv'
  <2>1. /\ Continue /\ project' = working' /\ UNCHANGED <<baseline, saved>>
        /\ \A r \in Rows : r \notin Refining => working'[r] = working[r]
                                                /\ fits'[r] = fits[r]
        /\ \A r \in Refining : fits'[r] = "decided"
    BY <1>4 DEF GroupSucceeds, Refining
  <2>2. \A r \in Refining : fits'[r] \in Decided /\ fits'[r] \notin Prefitted
    BY <2>1 DEF Decided, Prefitted
  <2>3. \A r \in Rows : fits'[r] \notin InGroup
    BY <2>1 DEF Refining, InGroup
  <2> QED BY <2>1, <2>2, <2>3, AutomaticGroup
<1>5. CASE GroupFails
  <2>1. /\ Continue /\ project' = working' /\ UNCHANGED <<baseline, saved>>
        /\ \A r \in Rows : r \notin Refining => working'[r] = working[r]
                                                /\ fits'[r] = fits[r]
        /\ \A r \in Refining : fits'[r] = "failed"
    BY <1>0, <1>5 DEF GroupFails, Refining
  <2>2. \A r \in Refining : fits'[r] \in Decided /\ fits'[r] \notin Prefitted
    BY <2>1 DEF Decided, Prefitted
  <2>3. \A r \in Rows : fits'[r] \notin InGroup
    BY <2>1 DEF Refining, InGroup
  <2> QED BY <2>1, <2>2, <2>3, AutomaticGroup
<1>6. CASE GroupCancelled
  <2>1. /\ Continue /\ working' = baseline /\ project' = working'
        /\ Refining # {} /\ UNCHANGED <<baseline, saved>>
        /\ fits' = [r \in Rows |-> IF r \notin Refining THEN fits[r]
                               ELSE IF baseline[r].status = "FAILED"
                                    THEN "winnerless" ELSE "fitted"]
    BY <1>6 DEF GroupCancelled
  <2>2. UNCHANGED <<runs, original>>  BY <2>1 DEF Continue
  <2>3. \A r \in Rows : r \notin Refining => baseline[r] = working[r]
    <3>1. PICK q \in Rows : fits[q] \in InGroup  BY <2>1 DEF Refining
    <3>2. \A r \in Rows : fits[r] \notin InGroup => baseline[r] = working[r]
      BY <3>1, Zenon DEF DecisionsInv
    <3> QED BY <3>2 DEF Refining
  <2>4. ASSUME NEW r \in Refining
        PROVE  /\ fits'[r] \in Prefitted /\ fits'[r] \notin InGroup
               /\ Committed(r)'
    <3>1. r \in Rows /\ fits[r] \in InGroup  BY DEF Refining
    <3>2. baseline[r].status = "FAILED" \/ Awaits(baseline[r])
      BY <3>1 DEF AutomaticInv, CanGoBack
    <3>3. /\ fits'[r] = IF baseline[r].status = "FAILED"
                        THEN "winnerless" ELSE "fitted"
          /\ working'[r] = baseline[r] /\ project'[r] = working'[r]
      BY <2>1, <3>1
    <3> QED BY <2>2, <3>2, <3>3 DEF Committed, Awaits, Prefitted, InGroup
  <2>5. \A r \in Rows : r \notin Refining =>
          working'[r] = working[r] /\ fits'[r] = fits[r]
    BY <2>1, <2>3
  <2>6. \A r \in Rows : fits'[r] \notin InGroup
    BY <2>4, <2>5 DEF Refining
  <2> QED BY <2>1, <2>4, <2>5, <2>6, AutomaticGroup
<1>7. CASE EndAutomatic
  BY <1>7 DEF EndAutomatic, End, AutomaticInv, Incremental
<1> QED BY <1>1, <1>2, <1>3, <1>4, <1>5, <1>6, <1>7 DEF Groups

LEMMA AutomaticKeeps ==
    ASSUME TypeOK, OpenInv, DecisionsInv, AutomaticInv, Automatic
    PROVE  AutomaticInv'
<1>1. CASE BeginAutomatic
  BY <1>1, AutomaticStarts
<1>2. CASE RefuseRoutes
  BY <1>2 DEF RefuseRoutes, AutomaticInv, Incremental, fixed
<1>3. ASSUME NEW q \in Rows, PublishPreparationFailure(q) PROVE AutomaticInv'
  <2>1. CASE batch_mode = "joint"
    BY <1>3, <2>1 DEF PublishPreparationFailure, _automatic_joint_failure, End,
                      AutomaticInv, Incremental
  <2>2. CASE batch_mode # "joint"
    <3>1. Incremental
      BY <1>3, <2>2 DEF PublishPreparationFailure, Doing, Incremental, TypeOK
    <3>2. /\ fits[q] = "unprepared" /\ Continue /\ UNCHANGED saved
          /\ working' = [working EXCEPT ![q] = _automatic_failure_dataset(working[q])]
          /\ project' = working' /\ fits' = [fits EXCEPT ![q] = "failed"]
      BY <1>3, <2>2 DEF PublishPreparationFailure
    <3>3. \A s \in Rows : fits[s] \notin InGroup
      BY <3>1, <3>2, Zenon DEF DecisionsInv
    <3>4. fits'[q] = "failed"  BY <3>2, Functions
    <3>5. Waiting(q)' /\ Committed(q)' /\ "failed" \notin InGroup
      BY <3>4 DEF Waiting, Committed, Ended, Prefitted, InGroup
    <3>6. \A r \in Rows : r # q =>
            project'[r] \in {project[r], working[r]} /\ (r \in saved' <=> r \in saved)
      BY <3>2, Functions
    <3> QED BY <3>1, <3>2, <3>3, <3>5, <3>6, AutomaticRow
  <2> QED BY <2>1, <2>2
<1>4. ASSUME NEW q \in Rows, NEW end \in Ended, NEW writes \in BOOLEAN,
             PrefitEnds(q, end, writes)
      PROVE  AutomaticInv'
  <2>1. running /\ kind = "automatic" /\ Continue  BY <1>4 DEF PrefitEnds, Doing
  <2>2. CASE Incremental  BY <1>4, <2>2, AutomaticPrefits
  <2>3. CASE ~Incremental
    BY <2>1, <2>3 DEF Continue, AutomaticInv, Incremental, fixed
  <2> QED BY <2>2, <2>3
<1>5. ASSUME NEW q \in Rows, NEW quality \in Qualities, NEW prepared \in Settings,
             NEW winner \in Settings, CommitPrefit(q, quality, prepared, winner)
      PROVE  AutomaticInv'
  <2>1. running /\ kind = "automatic" /\ Continue  BY <1>5 DEF CommitPrefit, Doing
  <2>2. CASE Incremental  BY <1>5, <2>2, AutomaticCommits
  <2>3. CASE ~Incremental
    BY <2>1, <2>3 DEF Continue, AutomaticInv, Incremental, fixed
  <2> QED BY <2>2, <2>3
<1>6. ASSUME NEW q \in Rows, NEW end \in Ended, WithheldPrefit(q, end)
      PROVE  AutomaticInv'
  <2>1. ~Incremental  BY <1>6 DEF WithheldPrefit, Explicit, Incremental
  <2>2. ~Incremental'
    BY <2>1, <1>6 DEF WithheldPrefit, Continue, End, _automatic_joint_failure,
                      Incremental, fixed
  <2> QED BY <2>2 DEF AutomaticInv
<1> QED BY <1>1, <1>2, <1>3, <1>4, <1>5, <1>6 DEF Automatic

\* How an automatic transaction may end as cancelled.
LEMMA AutomaticCancelled ==
    ASSUME TypeOK, AutomaticInv, CancelKeepsRunnable, Automatic \/ Groups
    PROVE  CancelKeepsRunnable'
<1>1. CASE BeginAutomatic
  BY <1>1 DEF BeginAutomatic, Begin, CancelKeepsRunnable
<1>2. CASE RefuseRoutes
  BY <1>2 DEF RefuseRoutes, CancelKeepsRunnable
<1>3. CASE running /\ Continue
  BY <1>3 DEF Continue, CancelKeepsRunnable
<1>4. CASE _automatic_joint_failure
  BY <1>4 DEF _automatic_joint_failure, End, CancelKeepsRunnable
<1>5. ASSUME NEW q \in Rows, NEW end \in Ended, WithheldPrefit(q, end)
      PROVE  CancelKeepsRunnable'
  <2>1. CASE end = "ok"
    BY <1>3, <1>5, <2>1 DEF WithheldPrefit, Doing
  <2>2. CASE end = "cancelled"
    <3>1. batch_mode = "joint" /\ End("cancelled", original)
      BY <1>5, <2>2 DEF WithheldPrefit, Explicit
    <3>2. project' = original' /\ batch_mode' = "joint"
      BY <3>1 DEF End, fixed
    <3> QED BY <3>2 DEF CancelKeepsRunnable
  <2>3. CASE end # "ok" /\ end # "cancelled"
    BY <1>4, <1>5, <2>3 DEF WithheldPrefit
  <2> QED BY <2>1, <2>2, <2>3
<1>6. CASE EndAutomatic
  <2>1. /\ running /\ kind = "automatic"
        /\ UNCHANGED <<batch_mode, runs, original, fits, saved>>
        /\ \/ ending' = "returned"
           \/ /\ ending' = "cancelled"
              /\ project' = IF batch_mode = "joint" THEN original ELSE project
    BY <1>6 DEF EndAutomatic, Doing, End, fixed
  <2>2. CASE ending' = "returned" \/ batch_mode = "joint"
    BY <2>1, <2>2 DEF CancelKeepsRunnable
  <2>3. CASE ending' = "cancelled" /\ batch_mode # "joint"
    <3>1. Incremental /\ project' = project
      BY <2>1, <2>3 DEF Incremental, TypeOK
    <3>2. ASSUME NEW r \in Rows, fits[r] = "stopped"
          PROVE  /\ project[r].status = "REFINING"
                 /\ project[r].result = original[r].result
                 /\ r \in saved => OwnSingle(project[r])
      <4>1. Waiting(r) /\ Committed(r)  BY <3>1 DEF AutomaticInv
      <4> QED BY <3>2, <4>1 DEF Waiting, Committed
    <3>3. ASSUME NEW r \in Rows, fits[r] = "fitted" PROVE Awaits(project[r])
      <4>1. Committed(r)  BY <3>1 DEF AutomaticInv
      <4> QED BY <3>3, <4>1 DEF Committed, Prefitted
    <3>4. ASSUME NEW r \in Rows, OwnSingle(project[r])
          PROVE  /\ Resumable("single", project[r])
                 /\ project[r].checkpoint # NoCheckpoint
      <4>1. project[r].checkpoint.layout = "single"
        BY <3>4 DEF OwnSingle, Checkpoint
      <4> QED BY <3>4, <4>1, Layouts DEF OwnSingle, Resumable
    <3> QED BY <2>1, <2>3, <3>1, <3>2, <3>3, <3>4
        DEF CancelKeepsRunnable, Awaits, Resumable
  <2> QED BY <2>1, <2>2, <2>3
<1>7. CASE Automatic
  <2>1. ASSUME NEW q \in Rows, PublishPreparationFailure(q)
        PROVE  CancelKeepsRunnable'
    BY <1>3, <1>4, <2>1 DEF PublishPreparationFailure, Doing
  <2>2. ASSUME NEW q \in Rows, NEW end \in Ended, NEW writes \in BOOLEAN,
               PrefitEnds(q, end, writes)
        PROVE  CancelKeepsRunnable'
    BY <1>3, <2>2 DEF PrefitEnds, Doing
  <2>3. ASSUME NEW q \in Rows, NEW quality \in Qualities, NEW prepared \in Settings,
               NEW winner \in Settings, CommitPrefit(q, quality, prepared, winner)
        PROVE  CancelKeepsRunnable'
    BY <1>3, <2>3 DEF CommitPrefit, Doing
  <2> QED BY <1>1, <1>2, <1>5, <1>7, <2>1, <2>2, <2>3 DEF Automatic
<1>8. CASE Groups
  <2>1. \/ EndAutomatic \/ _automatic_joint_failure \/ (running /\ Continue)
    BY <1>8 DEF Groups, CommitIncompleteGroup, BeginGroup, GroupCheckpoint,
       GroupSucceeds, GroupFails, GroupCancelled, Doing
  <2> QED BY <1>3, <1>4, <1>6, <2>1
<1> QED BY <1>7, <1>8

\* The other transactions do not begin or end an automatic one.
LEMMA AutomaticElsewhere ==
    ASSUME Joint \/ Independent
    PROVE  AutomaticInv' /\ CancelKeepsRunnable'
<1>1. kind' # "automatic"
  BY DEF Joint, BeginJoint, JointCheckpoint, JointSucceeds, JointFails,
     JointCancelled, Independent, BeginIndependent, IndependentSearch,
     EndIndependent, _publish_independent_row, Begin, Doing, Continue, End
<1> QED BY <1>1 DEF AutomaticInv, Incremental, CancelKeepsRunnable

LEMMA GroupsRun ==
    ASSUME Groups
    PROVE  running /\ kind = "automatic" /\ batch_mode' = batch_mode
           /\ (running' => kind' = kind)
BY DEF Groups, CommitIncompleteGroup, BeginGroup, GroupCheckpoint,
   GroupSucceeds, GroupFails, GroupCancelled, EndAutomatic, Doing, Continue,
   End, _automatic_joint_failure, fixed

LEMMA AutomaticStep ==
    ASSUME TypeOK, OpenInv, DecisionsInv, AutomaticInv, CancelKeepsRunnable,
           [Next]_vars
    PROVE  AutomaticInv' /\ CancelKeepsRunnable'
<1>1. CASE Cancel
  <2>1. UNCHANGED <<project, fixed, runs, kind, running, ending, original,
                    working, baseline, fits, saved, refused>> /\ running
    BY <1>1 DEF Cancel
  <2> QED BY <2>1 DEF AutomaticInv, Incremental, Waiting, Committed, CanGoBack,
          Awaits, OwnSingle, CancelKeepsRunnable, fixed
<1>2. CASE WorkerDies
  BY <1>2 DEF WorkerDies, End, AutomaticInv, Incremental, CancelKeepsRunnable
<1>3. CASE UNCHANGED vars
  BY <1>3 DEF vars, AutomaticInv, Incremental, Waiting, Committed, CanGoBack,
     Awaits, OwnSingle, CancelKeepsRunnable, fixed
<1>4. CASE Groups
  <2>1. AutomaticInv'
    <3>1. CASE Incremental  BY <1>4, <3>1, AutomaticGroups
    <3>2. CASE ~Incremental
      BY <1>4, <3>2, GroupsRun DEF AutomaticInv, Incremental
    <3> QED BY <3>1, <3>2
  <2> QED BY <1>4, <2>1, AutomaticCancelled
<1> QED BY <1>1, <1>2, <1>3, <1>4, AutomaticElsewhere, AutomaticKeeps,
           AutomaticCancelled DEF Next

\* Stopping an automatic fit leaves every row it had stopped runnable, with
\* its checkpoint, and every prefit whose group was not decided; an explicit
\* joint project is as it was given.
THEOREM CancelsRunnable == Spec => []CancelKeepsRunnable
<1> QED BY TypeCorrect, DecisionsInit, StepDecided, OpenInit, OpenStep,
           AutomaticInit, AutomaticStep, PTL DEF Spec

=============================================================================
