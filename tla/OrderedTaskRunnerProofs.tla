----------------------- MODULE OrderedTaskRunnerProofs -----------------------
(***************************************************************************)
(* OrderedTaskRunner, for every number of threads, tasks, batches,         *)
(* cancellations and interruptions: what a return of run() means and what  *)
(* a batch that is over may still do.                                      *)
(***************************************************************************)
EXTENDS OrderedTaskRunner, FiniteSetTheorems, TLAPS

Reported == {"told_value", "told_error", "value", "error", "cancelled"}

\* The log of a batch holds exactly the positions of its reported futures.
LogInv ==
    \A b \in Batches : \A i \in Positions :
        (\E k \in 1 .. Len(finished[b]) : finished[b][k] = i)
            <=> future[b][i] \in Reported

\* run() has nothing left to cancel of this batch.
Over(b) == b < batch \/ opc \in {"idle", "return", "raise", "closing", "closed"}

\* Which futures are still untouched, or still queued, at each step of run():
\* after it, only those that an exception spared; in _cancel_pending, those
\* too and the rest of its list.
SubmitInv ==
    /\ \A b \in Batches : b > batch => \A i \in Positions : future[b][i] = "none"
    /\ \A b \in Batches, i \in Positions :
          future[b][i] = "pending" => ~Inline /\ (Over(b) => i \in spared[b])
    /\ opc \in {"submit", "register", "drop"} =>
          \A i \in Positions : i > at => future[batch][i] = "none"
    /\ opc = "cancel" => \A i \in Positions : future[batch][i] = "pending" =>
          at <= i /\ (i <= last \/ i \in spared[batch])

\* The owner's place and the fields under the lock agree.
Control ==
    /\ opc \notin {"idle", "closing", "closed"} => running /\ batch >= 1
    /\ opc \in {"idle", "closing", "closed"} => ~running /\ active = 0
    /\ closed <=> opc \in {"closing", "closed"}
    /\ opc \in {"submit", "register", "drop", "collect", "result", "cancel"} => ~Inline
    /\ opc \in {"check", "call"} => Inline
    /\ active >= 1 => ~Inline
    /\ snapshot # {} => ~Inline

Place ==
    /\ opc \in {"submit", "register", "drop"} => taken = 0
    /\ opc \in {"check", "call"} => taken = IF opc = "call" THEN at - 1 ELSE at
    /\ opc \in {"register", "drop", "result", "cancel", "call"} => at >= 1
    /\ opc \in {"submit", "register", "drop", "collect", "result"} => last = N
    /\ opc = "cancel" => at <= last
    /\ opc = "collect" /\ taken = 0 => at = N
    /\ opc = "result" => taken >= 1

Outcomes ==
    \A b \in Batches : outcome[b] # "none" <=> b < batch \/ (b = batch /\ ~running)

OwnerInv == Control /\ Place /\ Outcomes /\ ClosedIsQuiet

\* What the owner has read so far are values.
CollectedInv ==
    /\ opc \in {"collect", "result"} =>
          /\ taken <= Len(finished[batch])
          /\ \A k \in 1 .. taken :
                opc = "collect" \/ k < taken =>
                    future[batch][finished[batch][k]] = "value"
    /\ opc = "result" => taken >= 1 /\ at = finished[batch][taken]

\* A run without a pool has run the tasks up to its place, in order.
InlineInv ==
    /\ opc = "check" => \A i \in Positions :
          IF i <= at THEN future[batch][i] = "value" ELSE future[batch][i] = "none"
    /\ opc = "call" => \A i \in Positions :
          /\ i < at => future[batch][i] = "value"
          /\ i = at => future[batch][i] \in {"none", "running"}
          /\ i > at => future[batch][i] = "none"

ReturnInv == opc = "return" => \A i \in Positions : future[batch][i] = "value"

CollectInv == CollectedInv /\ InlineInv /\ ReturnInv

IInv ==
    /\ TypeOK /\ LogInv /\ SubmitInv /\ OwnerInv /\ CollectInv
    /\ ReportedOnce /\ ReturnIsWhole

-----------------------------------------------------------------------------
USE DEF OwnerInv, vars, ownerVars, poolVars, lockVars, cancelVars, exitVars,
        Inline, Occupied

\* What the owner, cancel() and the pool do when nothing interrupts the owner.
Actions ==
    \/ _begin \/ Close \/ Cancel \/ OwnerStep
    \/ \E b \in Batches, i \in Positions : PoolStep(b, i) \/ CancelSnapshot(b, i)

LEMMA NextIsActions == [Next]_vars => Actions \/ Interrupts \/ UNCHANGED vars
  BY DEF Next, Actions, Terminated

LEMMA SizeIsFixed == ASSUME Actions PROVE max_workers' = max_workers
  BY DEF Actions, _begin, Close, Cancel, OwnerStep, PoolStep, CancelSnapshot

\* Only an interruption spares a future, or shortens the list of them.
LEMMA ExitFrame ==
  ASSUME Actions
  PROVE  spared' = spared /\ interrupts' = interrupts /\ (last' = last \/ last' = N)
  BY DEF Actions, _begin, Close, Cancel, OwnerStep, PoolStep, CancelSnapshot

LEMMA ListFrame == ASSUME Actions, opc # "idle" PROVE last' = last
  BY DEF Actions, _begin, Close, Cancel, OwnerStep, PoolStep, CancelSnapshot

\* A future is written at one place, with one of the executor's states.
LEMMA SetFutureFacts ==
  ASSUME TypeOK, NEW b \in Batches, NEW i \in Positions, NEW s \in FutureStates,
         SetFuture(b, i, s)
  PROVE  /\ future' \in [Batches -> [Positions -> FutureStates]]
         /\ future'[b][i] = s
         /\ \A c \in Batches, j \in Positions :
               c # b \/ j # i => future'[c][j] = future[c][j]
  BY DEF SetFuture, TypeOK

LEMMA PutFacts ==
  ASSUME TypeOK, NEW b \in Batches, NEW i \in Positions, PutPosition(b, i)
  PROVE  /\ finished' \in [Batches -> Seq(Positions)]
         /\ finished'[b] = Append(finished[b], i)
         /\ \A c \in Batches : c # b => finished'[c] = finished[c]
  BY DEF PutPosition, TypeOK

\* A batch's number and a position in it are in range wherever run() uses them.
LEMMA InRange ==
  ASSUME TypeOK, Control, opc \notin {"idle", "closing", "closed"}
  PROVE  batch \in Batches
  BY RunnerAssumption DEF TypeOK, Control, Place, Outcomes, Batches

LEMMA AtInRange ==
  ASSUME TypeOK, Place, opc \in {"register", "drop", "result", "cancel", "call"}
  PROVE  at \in Positions
  BY RunnerAssumption DEF TypeOK, Control, Place, Outcomes, Positions

LEMMA TypeStep == TypeOK /\ OwnerInv /\ Actions => TypeOK'
  <1> SUFFICES ASSUME TypeOK, OwnerInv, Actions PROVE TypeOK'
    OBVIOUS
  <1>0. max_workers' = max_workers
    BY SizeIsFixed
  <1>e. last' \in 0 .. N /\ interrupts' = interrupts /\ spared' = spared
    BY ExitFrame, RunnerAssumption DEF TypeOK
  <1> USE RunnerAssumption, <1>0, <1>e
  <1>1. CASE _begin
    <2>1. cancel_requested' \in BOOLEAN /\ running' \in BOOLEAN
      BY <1>1, Zenon DEF _begin
    <2> QED
      BY <1>1, <2>1 DEF _begin, TypeOK
  <1>2. CASE Close
    <2>1. closed' \in BOOLEAN
      BY <1>2, Zenon DEF Close
    <2> QED
      BY <1>2, <2>1 DEF Close, TypeOK
  <1>3. CASE Cancel
    <2>1. cancel_requested' \in BOOLEAN
      BY <1>3, Zenon DEF Cancel
    <2>2. snapshot' \subseteq Batches \X Positions
      <3>1. batch \in Batches
        BY <1>3 DEF Cancel, Control, TypeOK, Batches
      <3> QED
        BY <1>3, <3>1 DEF Cancel, TypeOK, Positions
    <2> QED
      BY <1>3, <2>1, <2>2 DEF Cancel, TypeOK
  <1>4. ASSUME NEW b \in Batches, NEW i \in Positions,
               PoolStep(b, i) \/ CancelSnapshot(b, i)
        PROVE  TypeOK'
    <2>1. future' \in [Batches -> [Positions -> FutureStates]]
      BY <1>4, SetFutureFacts
      DEF PoolStep, StartTask, TellPosition, SetResult, CancelSnapshot, CancelFuture,
          FirstQueued, Queued, FutureStates, TypeOK
    <2>2. finished' \in [Batches -> Seq(Positions)]
      BY <1>4, PutFacts
      DEF PoolStep, StartTask, TellPosition, SetResult, CancelSnapshot, CancelFuture, TypeOK
    <2>3. snapshot' \subseteq Batches \X Positions /\ UNCHANGED <<ownerVars, taken, lockVars, cancels>>
      BY <1>4
      DEF PoolStep, StartTask, TellPosition, SetResult, CancelSnapshot, TypeOK
    <2> QED
      BY <2>1, <2>2, <2>3 DEF TypeOK
  <1>5. CASE OwnerStep
    <2> USE <1>5
    <2>1. CASE Submit
      <3>1. batch \in Batches /\ at + 1 \in Positions
        BY <2>1, InRange DEF Submit, TypeOK, Positions
      <3>2. future' \in [Batches -> [Positions -> FutureStates]]
        BY <2>1, <3>1, SetFutureFacts DEF Submit, FutureStates
      <3> QED
        BY <2>1, <3>2 DEF Submit, TypeOK
    <2>2. CASE _register
      BY <2>2 DEF _register, AfterSubmit, TypeOK
    <2>3. CASE DropSubmitted \/ _cancel_pending
      <3>1. batch \in Batches /\ at \in Positions
        BY <2>3, InRange, AtInRange DEF DropSubmitted, _cancel_pending
      <3>2. CancelFuture(batch, at)
        BY <2>3 DEF DropSubmitted, _cancel_pending
      <3>3. future' \in [Batches -> [Positions -> FutureStates]]
        BY <3>1, <3>2, SetFutureFacts DEF CancelFuture, FutureStates, TypeOK
      <3>4. finished' \in [Batches -> Seq(Positions)]
        BY <3>1, <3>2, PutFacts DEF CancelFuture, TypeOK
      <3>5. UNCHANGED <<batch, outcome, taken, lockVars, cancelVars>>
        BY <2>3 DEF DropSubmitted, _cancel_pending
      <3>6. at' \in 0 .. N /\ opc' \in {"submit", "collect", "cancel", "raise"}
        BY <2>3, <3>1 DEF DropSubmitted, _cancel_pending, AfterSubmit, Positions, TypeOK
      <3> QED
        BY <3>3, <3>4, <3>5, <3>6 DEF TypeOK
    <2>4. CASE Collect
      <3>1. at' \in Positions
        BY <2>4, InRange DEF Collect, TypeOK
      <3>2. at' \in 0 .. N /\ taken' \in 0 .. N /\ opc' = "result"
        BY <2>4, <3>1 DEF Collect, TypeOK, Positions
      <3>3. UNCHANGED <<batch, outcome, poolVars, lockVars, cancelVars>>
        BY <2>4 DEF Collect
      <3> QED
        BY <3>2, <3>3 DEF TypeOK
    <2>5. CASE CollectedAll \/ Result \/ InlineCheck \/ CloseWait
      <3>1. CASE CollectedAll \/ CloseWait
        BY <3>1 DEF CollectedAll, CloseWait, TypeOK
      <3>2. CASE Result
        BY <3>2 DEF Result, TypeOK
      <3>3. CASE InlineCheck
        BY <3>3 DEF InlineCheck, TypeOK
      <3> QED
        BY <2>5, <3>1, <3>2, <3>3
    <2>6. CASE _finish
      <3>1. cancel_requested' \in BOOLEAN /\ running' \in BOOLEAN
        BY <2>6, Zenon DEF _finish
      <3>2. outcome' \in [Batches -> {"none", "return", "raise"}]
        BY <2>6 DEF _finish, TypeOK
      <3> QED
        BY <2>6, <3>1, <3>2 DEF _finish, TypeOK
    <2>7. CASE InlineStart
      <3>1. future' \in [Batches -> [Positions -> FutureStates]]
        BY <2>7, InRange, AtInRange, SetFutureFacts DEF InlineStart, FutureStates
      <3> QED
        BY <2>7, <3>1 DEF InlineStart, TypeOK
    <2>8. CASE InlineReturn
      <3>1. batch \in Batches /\ at \in Positions
        BY <2>8, InRange, AtInRange DEF InlineReturn
      <3>2. future' \in [Batches -> [Positions -> FutureStates]]
        BY <2>8, <3>1, SetFutureFacts DEF InlineReturn, FutureStates
      <3>3. finished' \in [Batches -> Seq(Positions)]
        BY <2>8, <3>1, PutFacts DEF InlineReturn
      <3>4. taken' \in 0 .. N
        BY <2>8, <3>1 DEF InlineReturn, Control, Place, Outcomes, TypeOK, Positions
      <3> QED
        BY <2>8, <3>2, <3>3, <3>4 DEF InlineReturn, TypeOK
    <2>9. CASE DropQueued
      <3>1. PICK b \in Batches, i \in Positions : CancelFuture(b, i)
        BY <2>9 DEF DropQueued
      <3>2. future' \in [Batches -> [Positions -> FutureStates]]
        BY <3>1, SetFutureFacts DEF CancelFuture, FutureStates, TypeOK
      <3>3. finished' \in [Batches -> Seq(Positions)]
        BY <3>1, PutFacts DEF CancelFuture, TypeOK
      <3> QED
        BY <2>9, <3>2, <3>3 DEF DropQueued, TypeOK
    <2> QED
      BY <2>1, <2>2, <2>3, <2>4, <2>5, <2>6, <2>7, <2>8, <2>9 DEF OwnerStep
  <1> QED
    BY <1>1, <1>2, <1>3, <1>4, <1>5 DEF Actions

-----------------------------------------------------------------------------
(* What a step can do to one future and to its batch's log.                *)

\* The future enters the log: the position is put and the state says so.
Reports(b, i) ==
    /\ future[b][i] \notin Reported /\ future'[b][i] \in Reported
    /\ finished'[b] = Append(finished[b], i)

\* Neither the log nor the future's place in it changes.
Quiet(b, i) ==
    /\ future[b][i] \in Reported <=> future'[b][i] \in Reported
    /\ finished'[b] = finished[b]

\* The moves of one future, with the owner's place where only it may move it.
Move(b, i) ==
    \/ future'[b][i] = future[b][i]
    \/ /\ future[b][i] = "none" /\ future'[b][i] = "pending"
       /\ opc = "submit" /\ b = batch /\ i = at + 1 /\ at' = i
    \/ /\ future[b][i] = "none" /\ future'[b][i] = "running"
       /\ opc = "call" /\ opc' = "call" /\ b = batch /\ i = at /\ at' = at
    \/ future[b][i] = "pending" /\ future'[b][i] \in {"running", "cancelled"} /\ ~Inline
    \/ future[b][i] = "running" /\ future'[b][i] \in {"told_value", "told_error"} /\ ~Inline
    \/ future[b][i] = "told_value" /\ future'[b][i] = "value"
    \/ future[b][i] = "told_error" /\ future'[b][i] = "error"
    \/ /\ future[b][i] = "running" /\ future'[b][i] \in {"value", "error"}
       /\ opc = "call" /\ opc' # "call" /\ b = batch /\ i = at /\ at' = at

\* One future changes at most, and its batch's log follows it.
StepsOne(b, i) ==
    /\ Move(b, i) /\ (Reports(b, i) \/ Quiet(b, i))
    /\ \A c \in Batches : c # b => finished'[c] = finished[c]
    /\ \A c \in Batches, j \in Positions : c # b \/ j # i => future'[c][j] = future[c][j]

LEMMA CancelMoves ==
  ASSUME TypeOK, NEW b \in Batches, NEW i \in Positions, CancelFuture(b, i), ~Inline
  PROVE  StepsOne(b, i)
  <1>1. CASE future[b][i] = "pending"
    BY <1>1, SetFutureFacts, PutFacts
    DEF CancelFuture, StepsOne, Move, Reports, Quiet, Reported, FutureStates
  <1>2. CASE future[b][i] # "pending"
    BY <1>2 DEF CancelFuture, StepsOne, Move, Quiet
  <1> QED
    BY <1>1, <1>2

LEMMA Moves ==
  ASSUME TypeOK, SubmitInv, OwnerInv, CollectInv, Actions
  PROVE  \/ UNCHANGED poolVars
         \/ \E b \in Batches, i \in Positions : StepsOne(b, i)
  <1>1. CASE _begin \/ Cancel \/ Close
    BY <1>1 DEF _begin, Cancel, Close
  <1>3. ASSUME NEW b \in Batches, NEW i \in Positions, PoolStep(b, i) \/ CancelSnapshot(b, i)
        PROVE  StepsOne(b, i)
    <2>1. CASE CancelSnapshot(b, i)
      BY <2>1, CancelMoves DEF CancelSnapshot, Control, Place, Outcomes
    <2>2. CASE StartTask(b, i)
      BY <2>2, SetFutureFacts
      DEF StartTask, FirstQueued, Queued, StepsOne, Move, Quiet, Reported, FutureStates
    <2>3. CASE TellPosition(b, i)
      BY <2>3, SetFutureFacts, PutFacts
      DEF TellPosition, StepsOne, Move, Reports, Reported, FutureStates
    <2>4. CASE SetResult(b, i)
      BY <2>4, SetFutureFacts DEF SetResult, StepsOne, Move, Quiet, Reported, FutureStates
    <2> QED
      BY <1>3, <2>1, <2>2, <2>3, <2>4 DEF PoolStep
  <1>4. CASE OwnerStep
    <2>1. CASE Submit
      <3>1. batch \in Batches /\ at + 1 \in Positions
        BY <2>1, InRange, RunnerAssumption DEF Submit, TypeOK, Positions
      <3>2. future[batch][at + 1] = "none" /\ ~Inline
        BY <2>1, <3>1 DEF Submit, SubmitInv, Control, Place, Outcomes, TypeOK
      <3>3. StepsOne(batch, at + 1)
        BY <2>1, <3>1, <3>2, SetFutureFacts
        DEF Submit, StepsOne, Move, Quiet, Reported, FutureStates
      <3> QED
        BY <3>1, <3>3
    <2>2. CASE DropSubmitted \/ _cancel_pending
      <3>1. batch \in Batches /\ at \in Positions
        BY <2>2, InRange, AtInRange DEF DropSubmitted, _cancel_pending
      <3>2. StepsOne(batch, at)
        BY <2>2, <3>1, CancelMoves DEF DropSubmitted, _cancel_pending, Control, Place, Outcomes
      <3> QED
        BY <3>1, <3>2
    <2>3. CASE InlineStart
      <3>1. batch \in Batches /\ at \in Positions
        BY <2>3, InRange, AtInRange DEF InlineStart
      <3>2. StepsOne(batch, at)
        BY <2>3, <3>1, SetFutureFacts
        DEF InlineStart, StepsOne, Move, Quiet, Reported, FutureStates
      <3> QED
        BY <3>1, <3>2
    <2>4. CASE InlineReturn
      <3>1. batch \in Batches /\ at \in Positions
        BY <2>4, InRange, AtInRange DEF InlineReturn
      <3>2. Move(batch, at) /\ Reports(batch, at)
        BY <2>4, <3>1, SetFutureFacts, PutFacts
        DEF InlineReturn, Move, Reports, Reported, FutureStates
      <3>3. StepsOne(batch, at)
        BY <2>4, <3>1, <3>2, SetFutureFacts, PutFacts
        DEF InlineReturn, StepsOne, FutureStates
      <3> QED
        BY <3>1, <3>3
    <2>5. CASE _register \/ Collect \/ CollectedAll \/ Result \/ _finish \/ InlineCheck \/ CloseWait
      BY <2>5 DEF _register, Collect, CollectedAll, Result, _finish, InlineCheck, CloseWait
    <2>6. CASE DropQueued
      <3>1. PICK b \in Batches, i \in Positions : FirstQueued(b, i) /\ CancelFuture(b, i)
        BY <2>6 DEF DropQueued
      <3>2. ~Inline
        BY <3>1 DEF FirstQueued, Queued, SubmitInv
      <3> QED
        BY <3>1, <3>2, CancelMoves
    <2> QED
      BY <1>4, <2>1, <2>2, <2>3, <2>4, <2>5, <2>6 DEF OwnerStep
  <1> QED
    BY <1>1, <1>3, <1>4 DEF Actions

\* The log stays a list without repetitions of the reported positions.
LEMMA LogStep ==
  ASSUME TypeOK, LogInv, ReportedOnce,
         NEW b \in Batches, NEW i \in Positions, StepsOne(b, i)
  PROVE  LogInv' /\ ReportedOnce'
  <1>1. CASE Quiet(b, i)
    <2>1. \A c \in Batches : finished'[c] = finished[c]
      BY <1>1 DEF Quiet, StepsOne
    <2>2. \A c \in Batches, j \in Positions : future'[c][j] \in Reported <=> future[c][j] \in Reported
      BY <1>1 DEF Quiet, StepsOne
    <2> QED
      BY <2>1, <2>2 DEF LogInv, ReportedOnce
  <1>2. CASE Reports(b, i)
    <2> DEFINE n == Len(finished[b])
    <2>1. /\ finished[b] \in Seq(Positions) /\ n \in Nat
          /\ Len(finished'[b]) = n + 1 /\ finished'[b][n + 1] = i
          /\ \A k \in 1 .. n : finished'[b][k] = finished[b][k]
      BY <1>2 DEF Reports, TypeOK
    <2>2. \A k \in 1 .. n : finished[b][k] # i
      BY <1>2, <2>1 DEF Reports, LogInv
    <2>3. ReportedOnce'
      <3> SUFFICES ASSUME NEW c \in Batches, NEW k \in 1 .. Len(finished'[c]),
                          NEW l \in 1 .. Len(finished'[c]), finished'[c][k] = finished'[c][l]
                   PROVE  k = l
        BY DEF ReportedOnce
      <3>1. CASE c = b
        <4>1. \A x, y \in 1 .. n : finished[b][x] = finished[b][y] => x = y
          BY DEF ReportedOnce
        <4>2. k \in 1 .. n + 1 /\ l \in 1 .. n + 1 /\ finished'[b][k] = finished'[b][l]
          BY <2>1, <3>1
        <4>3. (k \in 1 .. n \/ k = n + 1) /\ (l \in 1 .. n \/ l = n + 1)
          BY <2>1, <4>2
        <4> HIDE DEF n
        <4> QED
          BY <2>1, <2>2, <4>1, <4>2, <4>3
      <3>2. CASE c # b
        BY <3>2 DEF ReportedOnce, StepsOne
      <3> QED
        BY <3>1, <3>2
    <2>4. LogInv'
      <3> SUFFICES ASSUME NEW c \in Batches, NEW j \in Positions
                   PROVE  (\E k \in 1 .. Len(finished'[c]) : finished'[c][k] = j)
                              <=> future'[c][j] \in Reported
        BY DEF LogInv
      <3>1. CASE c # b
        BY <3>1 DEF LogInv, StepsOne
      <3>2. CASE c = b /\ j = i
        <4>1. finished'[c][n + 1] = j /\ n + 1 \in 1 .. Len(finished'[c])
          BY <2>1, <3>2
        <4>2. future'[c][j] \in Reported
          BY <1>2, <3>2 DEF Reports
        <4> QED
          BY <4>1, <4>2
      <3>3. CASE c = b /\ j # i
        <4>1. future'[c][j] = future[c][j]
          BY <3>3 DEF StepsOne
        <4>2. (\E k \in 1 .. n + 1 : finished'[b][k] = j) <=> \E k \in 1 .. n : finished[b][k] = j
          BY SMTT(30), <2>1, <3>3
        <4> QED
          BY <2>1, <3>3, <4>1, <4>2 DEF LogInv
      <3> QED
        BY <3>1, <3>2, <3>3
    <2> QED
      BY <2>3, <2>4
  <1> QED
    BY <1>1, <1>2 DEF StepsOne

\* What each step does to the owner's place.
OwnerMove(from, to) == opc \in from /\ opc' \in to /\ batch' = batch

Flow ==
    \/ UNCHANGED <<opc, batch, at, taken>>
    \/ opc = "idle" /\ batch < MaxBatches /\ batch' = batch + 1 /\ at' = 0 /\ ~Inline /\ opc' = "submit"
    \/ opc = "idle" /\ batch < MaxBatches /\ batch' = batch + 1 /\ at' = 0 /\ Inline /\ opc' = "check"
    \/ OwnerMove({"idle"}, {"closing"}) /\ at' = at
    \/ OwnerMove({"submit"}, {"register"}) /\ at' = at + 1
    \/ OwnerMove({"register", "drop"}, {"submit", "drop"}) /\ at' = at
    \/ OwnerMove({"register", "drop"}, {"collect"}) /\ at' = at /\ taken' = taken
    \/ OwnerMove({"collect"}, {"result"}) /\ Collect
    \/ OwnerMove({"collect"}, {"return"}) /\ at' = at
    \/ OwnerMove({"result"}, {"collect"}) /\ at' = at /\ taken' = taken /\ future[batch][at] = "value"
    \/ OwnerMove({"result"}, {"cancel"}) /\ at' = 1
    \/ OwnerMove({"cancel"}, {"cancel"}) /\ at' = at + 1 /\ at < last /\ CancelFuture(batch, at)
    \/ OwnerMove({"cancel"}, {"raise"}) /\ at' = at /\ at >= last /\ CancelFuture(batch, at)
    \/ OwnerMove({"return", "raise"}, {"idle"}) /\ at' = at
    \/ OwnerMove({"check"}, {"return"}) /\ at' = at /\ at = N
    \/ OwnerMove({"check"}, {"raise"}) /\ at' = at
    \/ OwnerMove({"check"}, {"call"}) /\ at' = at + 1 /\ at < N
    \/ OwnerMove({"call"}, {"check", "raise"}) /\ at' = at /\ InlineReturn
    \/ OwnerMove({"closing"}, {"closed"}) /\ at' = at

LEMMA Flows == ASSUME TypeOK, Actions PROVE Flow
  <1> USE DEF OwnerMove
  <1>1. CASE _begin \/ Close \/ Cancel
    BY <1>1 DEF _begin, Close, Cancel, Flow
  <1>2. ASSUME NEW b \in Batches, NEW i \in Positions, PoolStep(b, i) \/ CancelSnapshot(b, i)
        PROVE  Flow
    BY <1>2 DEF PoolStep, CancelSnapshot, StartTask, TellPosition, SetResult, Flow
  <1>3. CASE OwnerStep
    <2>1. CASE Submit \/ _register \/ DropSubmitted
      BY <2>1 DEF Submit, _register, DropSubmitted, AfterSubmit, Flow
    <2>2. CASE Collect \/ CollectedAll \/ Result
      BY <2>2 DEF Collect, CollectedAll, Result, Flow
    <2>3. CASE _cancel_pending
      BY <2>3, RunnerAssumption DEF _cancel_pending, Flow, TypeOK
    <2>4. CASE _finish \/ CloseWait \/ DropQueued
      BY <2>4 DEF _finish, CloseWait, DropQueued, Flow
    <2>5. CASE InlineCheck \/ InlineStart \/ InlineReturn
      BY <2>5 DEF InlineCheck, InlineStart, InlineReturn, Flow
    <2> QED
      BY <1>3, <2>1, <2>2, <2>3, <2>4, <2>5 DEF OwnerStep
  <1> QED
    BY <1>1, <1>2, <1>3 DEF Actions

\* An owner that has collected every position has collected values only.
LEMMA CollectedIsWhole ==
  ASSUME IInv, opc = "collect", taken = N
  PROVE  \A i \in Positions : future[batch][i] = "value"
  <1> DEFINE f == [k \in 1 .. N |-> finished[batch][k]]
  <1>1. batch \in Batches /\ N \in Nat
    BY InRange, RunnerAssumption DEF IInv
  <1>2. N <= Len(finished[batch]) /\ finished[batch] \in Seq(Positions)
    BY <1>1 DEF IInv, CollectInv, CollectedInv, TypeOK
  <1>3. f \in [1 .. N -> Positions]
    BY <1>1, <1>2
  <1>4. \A k, l \in 1 .. N : f[k] = f[l] => k = l
    <2>1. \A k \in 1 .. N : k \in 1 .. Len(finished[batch])
      BY <1>1, <1>2
    <2> QED
      BY <1>1, <2>1 DEF IInv, ReportedOnce
  <1>5. f \in Injection(1 .. N, Positions)
    BY <1>3, <1>4 DEF Injection, IsInjective
  <1>6. f \in Surjection(1 .. N, Positions)
    <2>1. IsFiniteSet(1 .. N)
      BY <1>1, FS_Interval
    <2> HIDE DEF f
    <2> QED
      BY <1>5, <2>1, FS_Injection DEF Positions
  <1>7. \A i \in Positions : \E k \in 1 .. N : f[k] = i
    BY <1>6 DEF Surjection
  <1>8. \A k \in 1 .. N : future[batch][f[k]] = "value"
    BY <1>1 DEF IInv, CollectInv, CollectedInv
  <1> QED
    BY <1>7, <1>8

LEMMA CancelledNotPending ==
  ASSUME TypeOK, NEW b \in Batches, NEW i \in Positions, CancelFuture(b, i)
  PROVE  future'[b][i] # "pending"
  BY SetFutureFacts DEF CancelFuture, FutureStates

LEMMA SubmitStep ==
  ASSUME IInv, Actions, Flow, \A b \in Batches, i \in Positions : Move(b, i),
         opc = "collect" /\ opc' = "return" => \A i \in Positions : future'[batch][i] = "value"
  PROVE  SubmitInv'
  <1>0. max_workers' = max_workers
    BY SizeIsFixed
  <1> USE RunnerAssumption, <1>0 DEF IInv
  <1>e. spared' = spared
    BY ExitFrame
  <1>1. ASSUME NEW b \in Batches, NEW i \in Positions, b > batch'
        PROVE  future'[b][i] = "none"
    <2>1. batch \in Nat /\ b \in Nat /\ (batch' = batch \/ batch' = batch + 1)
      BY DEF Flow, OwnerMove, TypeOK, Batches
    <2>2. future[b][i] = "none" /\ b # batch
      BY <1>1, <2>1 DEF SubmitInv
    <2> QED
      BY <2>2 DEF Move
  <1>2. ASSUME NEW b \in Batches, NEW i \in Positions, future'[b][i] = "pending"
        PROVE  ~Inline /\ (Over(b)' => i \in spared[b])
    <2>1. CASE future[b][i] # "pending"
      <3>1. opc = "submit" /\ b = batch /\ at' = at + 1
        BY <1>2, <2>1 DEF Move
      <3>2. opc' = "register" /\ batch' = batch
        BY <3>1 DEF Flow, OwnerMove, TypeOK
      <3> QED
        BY <3>1, <3>2 DEF Over, Control, TypeOK
    <2>2. CASE future[b][i] = "pending"
      <3>1. ~Inline /\ (Over(b) => i \in spared[b])
        BY <2>2 DEF SubmitInv
      <3>2. ASSUME Over(b)', ~Over(b)
            PROVE  i \in spared[b]
        <4>1. opc \notin {"idle", "return", "raise", "closing", "closed"} /\ ~(b < batch)
          BY <3>2 DEF Over
        <4>2. b = batch /\ batch' = batch
          <5>1. batch' = batch
            BY <4>1 DEF Flow, OwnerMove
          <5>2. ~(b > batch)
            BY <2>2 DEF SubmitInv
          <5> QED
            BY <4>1, <5>1, <5>2 DEF TypeOK, Batches
        <4>3. opc' \in {"idle", "return", "raise", "closing", "closed"}
          BY <3>2, <4>1, <4>2 DEF Over
        <4>4. opc = "cancel" /\ at >= last /\ CancelFuture(batch, at)
          BY <1>2, <3>1, <4>1, <4>2, <4>3 DEF Flow, OwnerMove, Control
        <4>5. i # at
          BY <1>2, <4>2, <4>4, CancelledNotPending
        <4>6. at <= i /\ (i <= last \/ i \in spared[b])
          BY <2>2, <4>2, <4>4 DEF SubmitInv
        <4> QED
          BY <4>4, <4>5, <4>6 DEF TypeOK, Positions
      <3> QED
        BY <3>1, <3>2
    <2> QED
      BY <2>1, <2>2
  <1>3. ASSUME NEW i \in Positions, opc' \in {"submit", "register", "drop"}, i > at', batch' \in Batches
        PROVE  future'[batch'][i] = "none"
    <2>1. CASE opc = "idle"
      <3>1. batch' = batch + 1 /\ batch' > batch
        BY <1>3, <2>1 DEF Flow, OwnerMove, TypeOK
      <3> QED
        BY <1>3, <2>1, <3>1 DEF SubmitInv, Move
    <2>2. CASE opc # "idle"
      <3>1. batch' = batch /\ opc \in {"submit", "register", "drop"}
        BY <1>3, <2>2 DEF Flow, OwnerMove
      <3>2. at \in Nat /\ at' \in {at, at + 1} /\ i > at
        BY <1>3, <3>1 DEF Flow, OwnerMove, TypeOK, Positions
      <3>3. future[batch][i] = "none"
        BY <3>1, <3>2 DEF SubmitInv
      <3> QED
        BY <1>3, <3>1, <3>2, <3>3 DEF Move
    <2> QED
      BY <2>1, <2>2
  <1>4. ASSUME NEW i \in Positions, opc' = "cancel", future'[batch'][i] = "pending",
               batch' \in Batches
        PROVE  at' <= i /\ (i <= last' \/ i \in spared[batch'])
    <2>1. CASE opc = "cancel"
      <3>1. /\ batch' = batch /\ batch \in Batches /\ at \in Positions /\ last' = last
            /\ at' = at \/ (at' = at + 1 /\ CancelFuture(batch, at))
        BY <1>4, <2>1, InRange, AtInRange, ListFrame DEF Flow, OwnerMove
      <3>2. future[batch][i] = "pending"
        BY <1>4, <2>1, <3>1 DEF Move
      <3>3. at <= i /\ (i <= last \/ i \in spared[batch])
        BY <2>1, <3>2 DEF SubmitInv
      <3>4. at' = at \/ i # at
        BY <1>4, <3>1, CancelledNotPending
      <3> QED
        BY <3>1, <3>3, <3>4 DEF Positions
    <2>2. CASE opc # "cancel"
      <3>1. at' = 1 /\ opc = "result"
        BY <1>4, <2>2 DEF Flow, OwnerMove
      <3>2. last' = N
        BY <3>1, ListFrame DEF Place
      <3> QED
        BY <3>1, <3>2 DEF Positions
    <2> QED
      BY <2>1, <2>2
  <1>5. ASSUME opc' \in {"submit", "register", "drop", "cancel"} PROVE batch' \in Batches
    <2>1. \/ opc = "idle" /\ batch < MaxBatches /\ batch' = batch + 1
          \/ opc \notin {"idle", "closing", "closed"} /\ batch' = batch
      BY <1>5 DEF Flow, OwnerMove
    <2> QED
      BY <2>1, InRange DEF TypeOK, Batches
  <1>6. opc' \in {"submit", "register", "drop"} =>
          \A i \in Positions : i > at' => future'[batch'][i] = "none"
    BY <1>3, <1>5
  <1>7. opc' = "cancel" => \A i \in Positions : future'[batch'][i] = "pending" =>
          at' <= i /\ (i <= last' \/ i \in spared[batch'])
    BY <1>4, <1>5
  <1>8. \A b \in Batches : b > batch' => \A i \in Positions : future'[b][i] = "none"
    BY <1>1
  <1>9. \A b \in Batches, i \in Positions :
          future'[b][i] = "pending" => ~Inline' /\ (Over(b)' => i \in spared[b])
    BY <1>0, <1>2 DEF Inline
  <1> QED
    BY <1>e, <1>6, <1>7, <1>8, <1>9 DEF SubmitInv

LEMMA ControlStep ==
  ASSUME TypeOK, Control, Place, Outcomes, Actions
  PROVE  Control' /\ Place' /\ Outcomes'
  <1>0. max_workers' = max_workers
    BY SizeIsFixed
  <1>e. opc # "idle" => last' = last
    BY ListFrame
  <1> USE RunnerAssumption, <1>0, <1>e DEF Control, Place, Outcomes
  <1>1. CASE _begin
    <2>1. Control' /\ Place'
      BY <1>1 DEF _begin, TypeOK
    <2>2. Outcomes'
      BY <1>1 DEF _begin, TypeOK, Batches
    <2> QED
      BY <2>1, <2>2
  <1>2. CASE Close \/ DropQueued \/ CloseWait \/ Cancel
    BY SMTT(30), <1>2 DEF Close, DropQueued, CloseWait, Cancel, TypeOK
  <1>3. CASE CollectedAll
    BY <1>3 DEF CollectedAll
  <1>4. CASE Result
    BY <1>4 DEF Result
  <1>5. CASE _cancel_pending
    BY <1>5 DEF _cancel_pending, TypeOK
  <1>6. CASE Submit
    BY <1>6 DEF Submit, TypeOK
  <1>7. CASE _register
    BY <1>7 DEF _register, AfterSubmit, TypeOK
  <1>8. CASE DropSubmitted
    BY <1>8 DEF DropSubmitted, AfterSubmit, TypeOK
  <1>9. CASE Collect
    <2>1. at' \in Positions
      <3>1. finished[batch] \in Seq(Positions) /\ taken \in Nat
        BY <1>9, InRange DEF Collect, TypeOK
      <3> QED
        BY <1>9, <3>1 DEF Collect
    <2> QED
      BY <1>9, <2>1 DEF Collect, TypeOK, Positions
  <1>10. CASE _finish
    <2>1. \A b \in Batches : outcome'[b] = IF b = batch THEN opc ELSE outcome[b]
      BY <1>10 DEF _finish, TypeOK
    <2>2. Control' /\ Place'
      BY <1>10 DEF _finish
    <2>3. Outcomes'
      BY <1>10, <2>1 DEF _finish, TypeOK, Batches
    <2> QED
      BY <2>2, <2>3
  <1>11. CASE InlineCheck
    BY <1>11 DEF InlineCheck, TypeOK
  <1>12. CASE InlineStart
    BY <1>12 DEF InlineStart
  <1>14. CASE InlineReturn
    BY <1>14 DEF InlineReturn, TypeOK
  <1>13. ASSUME NEW b \in Batches, NEW i \in Positions, PoolStep(b, i) \/ CancelSnapshot(b, i)
         PROVE  Control' /\ Place' /\ Outcomes'
    <2>1. UNCHANGED <<ownerVars, taken, lockVars>> /\ (snapshot' = snapshot \/ snapshot # {})
      BY <1>13 DEF PoolStep, StartTask, TellPosition, SetResult, CancelSnapshot
    <2> QED
      BY <2>1
  <1> QED
    BY <1>1, <1>2, <1>3, <1>4, <1>5, <1>6, <1>7, <1>8, <1>9, <1>10, <1>11, <1>12, <1>13, <1>14
    DEF Actions, OwnerStep

LEMMA OwnerStepKeeps ==
  ASSUME TypeOK, OwnerInv, SubmitInv, Actions, Flow,
         \A b \in Batches, i \in Positions : Move(b, i)
  PROVE  OwnerInv'
  <1>1. Control' /\ Place' /\ Outcomes'
    BY ControlStep
  <1>2. ClosedIsQuiet'
    <2>1. CASE opc = "closed"
      <3>1. \A b \in Batches, i \in Positions : future[b][i] \notin Occupied \cup {"pending"}
        <4>1. \A t \in Batches \X Positions :
                 future[t[1]][t[2]] \notin Occupied /\ future[t[1]][t[2]] # "pending"
          BY <2>1 DEF ClosedIsQuiet, Busy, Queued
        <4> TAKE b \in Batches, i \in Positions
        <4>2. <<b, i>> \in Batches \X Positions /\ <<b, i>>[1] = b /\ <<b, i>>[2] = i
          OBVIOUS
        <4> QED
          BY <4>1, <4>2
      <3>2. \A b \in Batches, i \in Positions : future'[b][i] \notin Occupied \cup {"pending"}
        BY <2>1, <3>1 DEF Move
      <3> QED
        BY <3>2 DEF ClosedIsQuiet, Busy, Queued
    <2>2. CASE opc' = "closed" /\ opc # "closed"
      <3>1. opc = "closing"
        BY <2>2 DEF Flow, OwnerMove
      <3>2. CloseWait
        BY <2>2, <3>1
        DEF Actions, _begin, Close, Cancel, OwnerStep, PoolStep, CancelSnapshot,
            StartTask, TellPosition, SetResult, Submit, _register, DropSubmitted,
            Collect, CollectedAll, Result, _cancel_pending, _finish, InlineCheck, InlineStart,
            InlineReturn, DropQueued
      <3> QED
        BY <3>2 DEF CloseWait, ClosedIsQuiet, Busy, Queued
    <2> QED
      BY <2>1, <2>2 DEF ClosedIsQuiet
  <1> QED
    BY <1>1, <1>2

LEMMA CollectedStep ==
  ASSUME TypeOK, OwnerInv, CollectInv, Actions, Flow,
         \A b \in Batches, i \in Positions : Move(b, i),
         \A b \in Batches : \A k \in 1 .. Len(finished[b]) :
            k <= Len(finished'[b]) /\ finished'[b][k] = finished[b][k]
  PROVE  CollectedInv'
  <1>0. ASSUME opc' \in {"collect", "result"}
        PROVE  batch' = batch /\ batch \in Batches /\ taken \in Nat
               /\ finished[batch] \in Seq(Positions)
    BY <1>0, InRange DEF Flow, OwnerMove, TypeOK
  <1>1. ASSUME opc \in {"collect", "result"}, opc' \in {"collect", "result"}, NEW k \in 1 .. taken,
               opc = "collect" \/ k < taken
        PROVE  finished'[batch][k] = finished[batch][k] /\ future'[batch][finished[batch][k]] = "value"
    <2>1. k \in 1 .. Len(finished[batch]) /\ finished[batch][k] \in Positions
      BY <1>0, <1>1 DEF CollectInv, CollectedInv
    <2>2. future[batch][finished[batch][k]] = "value"
      BY <1>1 DEF CollectInv, CollectedInv
    <2> QED
      BY <1>0, <1>1, <2>1, <2>2 DEF Move
  <1>2. CASE opc \in {"register", "drop"} /\ opc' = "collect"
    <2>1. taken' = 0 /\ Len(finished'[batch']) \in Nat
      BY <1>0, <1>2 DEF Flow, OwnerMove, Place, TypeOK
    <2> QED
      BY <1>2, <2>1 DEF CollectedInv
  <1>3. CASE opc = "collect" /\ opc' = "result"
    <2>1. Collect
      BY <1>3 DEF Flow, OwnerMove
    <2>2. finished[batch] \in Seq(Positions) /\ taken + 1 \in 1 .. Len(finished[batch])
      BY <1>0, <1>3, <2>1 DEF Collect
    <2>3. taken' <= Len(finished'[batch']) /\ at' = finished'[batch'][taken'] /\ taken' >= 1
      BY <1>0, <1>3, <2>1, <2>2 DEF Collect
    <2>4. \A k \in 1 .. taken' : k < taken' => k \in 1 .. taken
      BY <1>0, <1>3, <2>1 DEF Collect
    <2> QED
      BY <1>0, <1>1, <1>3, <2>3, <2>4 DEF CollectedInv
  <1>4. CASE opc = "result" /\ opc' = "collect"
    <2>1. taken' = taken /\ future[batch][at] = "value" /\ at = finished[batch][taken]
          /\ taken >= 1 /\ taken <= Len(finished[batch])
      BY <1>4 DEF Flow, OwnerMove, CollectInv, CollectedInv
    <2>2. at \in Positions
      BY <1>4, AtInRange
    <2>3. future'[batch][at] = "value" /\ finished'[batch][taken] = at /\ taken <= Len(finished'[batch])
      BY <1>0, <1>4, <2>1, <2>2 DEF Move
    <2>4. \A k \in 1 .. taken : k < taken \/ k = taken
      BY <1>0, <1>4
    <2> QED
      BY <1>0, <1>1, <1>4, <2>1, <2>3, <2>4 DEF CollectedInv
  <1>5. CASE opc' = opc /\ opc \in {"collect", "result"}
    <2>1. taken' = taken /\ at' = at
      BY <1>5 DEF Flow, OwnerMove
    <2>2. taken <= Len(finished[batch])
      BY <1>5 DEF CollectInv, CollectedInv
    <2>3. taken <= Len(finished'[batch])
      BY <1>0, <1>5, <2>2
    <2>4. opc = "result" => taken >= 1 /\ at = finished'[batch][taken]
      BY <1>0, <1>5, <2>2 DEF CollectInv, CollectedInv
    <2> QED
      BY <1>0, <1>1, <1>5, <2>1, <2>3, <2>4 DEF CollectedInv
  <1> QED
    BY <1>2, <1>3, <1>4, <1>5 DEF Flow, OwnerMove, CollectedInv

LEMMA InlineStep ==
  ASSUME TypeOK, OwnerInv, SubmitInv, CollectInv, Actions, Flow,
         \A b \in Batches, i \in Positions : Move(b, i)
  PROVE  InlineInv'
  <1>1. CASE opc = "idle" /\ opc' = "check"
    <2>1. at' = 0 /\ batch' = batch + 1 /\ batch' \in Batches /\ batch' > batch
      BY <1>1, RunnerAssumption DEF Flow, OwnerMove, TypeOK, Batches
    <2> QED
      BY <1>1, <2>1 DEF InlineInv, SubmitInv, Move, Positions
  <1>2. ASSUME opc \in {"check", "call"}, opc' \in {"check", "call"}
        PROVE  InlineInv'
    <2>1. batch' = batch /\ batch \in Batches /\ at \in Nat
      BY <1>2, InRange DEF Flow, OwnerMove, TypeOK
    <2>2. CASE opc = "check" /\ opc' = "call"
      <3>1. at' = at + 1
        BY <2>2 DEF Flow, OwnerMove
      <3>2. \A i \in Positions : future'[batch][i] = future[batch][i]
        BY <2>1, <2>2 DEF Move, CollectInv, InlineInv
      <3> QED
        BY <2>1, <2>2, <3>1, <3>2 DEF CollectInv, InlineInv, Positions
    <2>3. CASE opc = opc'
      <3>1. at' = at
        BY <1>2, <2>3 DEF Flow, OwnerMove
      <3> QED
        BY <1>2, <2>1, <2>3, <3>1 DEF CollectInv, InlineInv, Control, Move, Positions
    <2>4. CASE opc = "call" /\ opc' = "check"
      <3>1. at \in Positions /\ at' = at /\ InlineReturn
        BY <2>4, AtInRange DEF Flow, OwnerMove
      <3>2. future'[batch][at] = "value"
        BY <2>1, <2>4, <3>1, SetFutureFacts DEF InlineReturn, FutureStates
      <3>3. \A i \in Positions : i # at => future'[batch][i] = future[batch][i]
        BY <2>1, <2>4, <3>1 DEF Move, CollectInv, InlineInv, Positions
      <3> QED
        BY <2>1, <2>4, <3>1, <3>2, <3>3 DEF CollectInv, InlineInv, Positions
    <2> QED
      BY <1>2, <2>2, <2>3, <2>4
  <1> QED
    BY <1>1, <1>2 DEF Flow, OwnerMove, InlineInv

LEMMA ReturnStep ==
  ASSUME IInv, Actions, Flow, \A b \in Batches, i \in Positions : Move(b, i)
  PROVE  ReturnInv'
  <1> SUFFICES ASSUME opc' = "return" PROVE \A i \in Positions : future'[batch'][i] = "value"
    BY DEF ReturnInv
  <1> USE DEF IInv
  <1>1. batch' = batch /\ batch \in Batches
    BY InRange DEF Flow, OwnerMove
  <1>2. \A i \in Positions : future[batch][i] = "value"
    <2>1. CASE opc = "collect"
      <3>1. CollectedAll
        BY <2>1
        DEF Actions, _begin, Close, Cancel, OwnerStep, PoolStep, CancelSnapshot,
            StartTask, TellPosition, SetResult, Submit, _register, DropSubmitted,
            Collect, Result, _cancel_pending, _finish, InlineCheck, InlineStart,
            InlineReturn, DropQueued, CloseWait
      <3> QED
        BY <2>1, <3>1, CollectedIsWhole DEF CollectedAll
    <2>2. CASE opc = "check"
      BY <2>2 DEF Flow, OwnerMove, CollectInv, InlineInv, Positions
    <2>3. CASE opc = "return"
      BY <2>3 DEF CollectInv, ReturnInv
    <2> QED
      BY <2>1, <2>2, <2>3 DEF Flow, OwnerMove
  <1> QED
    BY <1>1, <1>2 DEF Move

LEMMA Initial == Init => IInv
  <1> SUFFICES ASSUME Init PROVE IInv
    OBVIOUS
  <1> USE RunnerAssumption DEF Init
  <1>1. TypeOK
    <2>1. cancel_requested \in BOOLEAN /\ running \in BOOLEAN /\ closed \in BOOLEAN
      BY Zenon
    <2>2. finished \in [Batches -> Seq(Positions)] /\ future \in [Batches -> [Positions -> FutureStates]]
      BY DEF FutureStates
    <2> QED
      BY <2>1, <2>2 DEF TypeOK
  <1>2. LogInv /\ ReportedOnce /\ ReturnIsWhole
    BY DEF LogInv, ReportedOnce, ReturnIsWhole, Reported
  <1>3. SubmitInv /\ OwnerInv
    BY DEF SubmitInv, Over, Control, Place, Outcomes, ClosedIsQuiet, Batches
  <1>4. CollectInv
    BY DEF CollectInv, CollectedInv, InlineInv, ReturnInv
  <1> QED
    BY <1>1, <1>2, <1>3, <1>4 DEF IInv

\* What a step does to every future and every log, in one place.
LEMMA AllMove ==
  ASSUME IInv, Actions
  PROVE  /\ \A b \in Batches, i \in Positions : Move(b, i)
         /\ LogInv' /\ ReportedOnce'
         /\ \A b \in Batches : \A k \in 1 .. Len(finished[b]) :
               k <= Len(finished'[b]) /\ finished'[b][k] = finished[b][k]
  <1>1. CASE UNCHANGED poolVars
    <2>1. \A b \in Batches : Len(finished[b]) \in Nat
      BY DEF IInv, TypeOK
    <2> QED
      BY <1>1, <2>1 DEF IInv, Move, LogInv, ReportedOnce
  <1>2. ASSUME NEW b \in Batches, NEW i \in Positions, StepsOne(b, i)
        PROVE  /\ \A c \in Batches, j \in Positions : Move(c, j)
               /\ LogInv' /\ ReportedOnce'
               /\ \A c \in Batches : \A k \in 1 .. Len(finished[c]) :
                     k <= Len(finished'[c]) /\ finished'[c][k] = finished[c][k]
    <2>1. \A c \in Batches, j \in Positions : Move(c, j)
      BY <1>2 DEF StepsOne, Move
    <2>2. \A c \in Batches : finished[c] \in Seq(Positions)
      BY DEF IInv, TypeOK
    <2>3. \A c \in Batches : finished'[c] = finished[c] \/ finished'[c] = Append(finished[c], i)
      BY <1>2 DEF StepsOne, Reports, Quiet
    <2>4. \A c \in Batches : \A k \in 1 .. Len(finished[c]) :
             k <= Len(finished'[c]) /\ finished'[c][k] = finished[c][k]
      BY <2>2, <2>3
    <2> QED
      BY <1>2, <2>1, <2>4, LogStep DEF IInv
  <1> QED
    BY <1>1, <1>2, Moves DEF IInv

LEMMA WholeStep ==
  ASSUME IInv, Actions, \A b \in Batches, i \in Positions : Move(b, i)
  PROVE  ReturnIsWhole'
  <1>1. \A b \in Batches : outcome'[b] = "return" =>
           outcome[b] = "return" \/ (b = batch /\ opc = "return")
    <2>1. CASE _finish
      BY <2>1 DEF _finish, IInv, TypeOK
    <2>2. CASE UNCHANGED outcome
      BY <2>2
    <2>3. _finish \/ UNCHANGED outcome
      BY DEF Actions, _begin, Close, Cancel, OwnerStep, PoolStep, CancelSnapshot,
            StartTask, TellPosition, SetResult, Submit, _register, DropSubmitted,
            Collect, CollectedAll, Result, _cancel_pending, InlineCheck, InlineStart,
            InlineReturn, DropQueued, CloseWait
    <2> QED
      BY <2>1, <2>2, <2>3
  <1>2. \A b \in Batches, i \in Positions : future[b][i] = "value" => future'[b][i] = "value"
    BY DEF Move
  <1> QED
    BY <1>1, <1>2 DEF ReturnIsWhole, IInv, CollectInv, ReturnInv

\* An exception that hits the owner moves no future: it only ends run(), and
\* records the futures that nobody will cancel.
LEMMA InterruptKeeps == ASSUME IInv, Interrupts PROVE IInv'
  <1> USE RunnerAssumption DEF IInv
  <1>1. /\ UNCHANGED <<max_workers, batch, outcome, poolVars, taken, lockVars, cancelVars>>
        /\ interrupts' \in 0 .. MaxInterrupts /\ opc' \in {"cancel", "raise"}
        /\ opc \notin {"idle", "closing", "closed"}
    <2>1. Interrupt
      BY DEF Interrupts, InterruptSubmission, InterruptCollection, InterruptResult,
             InterruptIdlePool
    <2>2. /\ UNCHANGED <<max_workers, batch, outcome, poolVars, taken, lockVars, cancelVars>>
          /\ interrupts' \in 0 .. MaxInterrupts
      BY <2>1 DEF Interrupt, TypeOK
    <2>3. opc' \in {"cancel", "raise"} /\ opc \notin {"idle", "closing", "closed"}
      BY DEF Interrupts, InterruptSubmission, InterruptCollection, InterruptResult,
             InterruptIdlePool
    <2> QED
      BY <2>2, <2>3
  <1>2. batch \in Batches /\ batch \in Nat
    BY <1>1, InRange DEF TypeOK
  <1>3. /\ at' \in 0 .. N /\ last' \in 0 .. N /\ spared' \in [Batches -> SUBSET Positions]
        /\ \A b \in Batches : b # batch => spared'[b] = spared[b]
        /\ opc' = "cancel" => ~Inline /\ at' = 1 /\ at' <= last'
        /\ \A i \in Positions : future[batch][i] = "pending" =>
              i \in spared'[batch] \/ (opc' = "cancel" /\ i <= last')
    <2>1. CASE InterruptSubmission
      <3>1. \A i \in Positions : future[batch][i] = "pending" => i <= at
        <4>1. CASE opc = "collect"
          BY <2>1, <4>1 DEF InterruptSubmission, Place, Positions
        <4> QED
          BY <2>1, <4>1 DEF InterruptSubmission, SubmitInv, Positions, TypeOK
      <3> QED
        <4>1. last' \in {at - 1, at} /\ at \in 0 .. N /\ (opc = "register" => at >= 1)
              /\ (last' < at => opc = "register")
          BY <2>1 DEF InterruptSubmission, Place, TypeOK
        <4>2. /\ last' \in 0 .. N /\ at' = 1 /\ (opc' = "cancel" => ~Inline /\ at' <= last')
              /\ last' = 0 => opc' = "raise"
              /\ last' # 0 => opc' = "cancel"
          BY <2>1, <4>1 DEF InterruptSubmission, Control
        <4>3. /\ spared' \in [Batches -> SUBSET Positions]
              /\ \A b \in Batches : b # batch => spared'[b] = spared[b]
              /\ last' < at => at \in spared'[batch]
          BY <1>2, <2>1, <4>1 DEF InterruptSubmission, TypeOK, Positions
        <4>4. \A i \in Positions : i <= at => i <= last' \/ (i = at /\ last' < at)
          BY <4>1 DEF Positions
        <4>5. \A i \in Positions : i <= last' => opc' = "cancel"
          BY <4>1, <4>2 DEF Positions
        <4> QED
          BY <1>2, <3>1, <4>2, <4>3, <4>4, <4>5
    <2>2. CASE InterruptCollection
      BY <1>2, <2>2 DEF InterruptCollection, TypeOK
    <2>3. CASE InterruptResult
      BY <1>2, <2>3 DEF InterruptResult, TypeOK, Control, Place, Positions
    <2>4. CASE InterruptIdlePool
      BY <1>2, <2>4 DEF InterruptIdlePool, TypeOK, Control, SubmitInv, Over, CollectInv, ReturnInv
    <2> QED
      BY <2>1, <2>2, <2>3, <2>4 DEF Interrupts
  <1>4. TypeOK'
    BY <1>1, <1>3 DEF TypeOK
  <1>5. SubmitInv'
    BY <1>1, <1>2, <1>3 DEF SubmitInv, Over, Positions
  <1>6. OwnerInv'
    BY <1>1, <1>3 DEF Control, Place, Outcomes, ClosedIsQuiet
  <1>7. LogInv' /\ ReportedOnce' /\ ReturnIsWhole'
    BY <1>1 DEF LogInv, ReportedOnce, ReturnIsWhole
  <1>8. CollectInv'
    BY <1>1 DEF CollectInv, CollectedInv, InlineInv, ReturnInv
  <1> QED
    BY <1>4, <1>5, <1>6, <1>7, <1>8

LEMMA Invariant == ASSUME IInv, [Next]_vars PROVE IInv'
  <1>1. CASE UNCHANGED vars
    BY <1>1 DEF IInv, TypeOK, LogInv, SubmitInv, Control, Place, Outcomes, CollectInv,
        CollectedInv, InlineInv, ReturnInv, ReportedOnce, ReturnIsWhole, ClosedIsQuiet, Busy,
        Queued, Over, Place, Outcomes
  <1>3. CASE Interrupts
    BY <1>3, InterruptKeeps
  <1>2. CASE Actions
    <2>1. Flow /\ TypeOK'
      BY <1>2, Flows, TypeStep DEF IInv
    <2>2. /\ \A b \in Batches, i \in Positions : Move(b, i)
          /\ LogInv' /\ ReportedOnce'
          /\ \A b \in Batches : \A k \in 1 .. Len(finished[b]) :
                k <= Len(finished'[b]) /\ finished'[b][k] = finished[b][k]
      BY <1>2, AllMove
    <2>3. ReturnInv'
      BY <1>2, <2>1, <2>2, ReturnStep
    <2>4. CollectInv'
      BY <1>2, <2>1, <2>2, <2>3, CollectedStep, InlineStep DEF IInv, CollectInv
    <2>5. opc = "collect" /\ opc' = "return" => \A i \in Positions : future'[batch][i] = "value"
      <3>1. opc = "collect" /\ opc' = "return" => batch' = batch
        BY <2>1 DEF Flow, OwnerMove
      <3> QED
        BY <2>3, <3>1 DEF ReturnInv
    <2>6. SubmitInv'
      BY <1>2, <2>1, <2>2, <2>5, SubmitStep
    <2>7. OwnerInv'
      BY <1>2, <2>1, <2>2, OwnerStepKeeps DEF IInv
    <2>8. ReturnIsWhole'
      BY <1>2, <2>2, WholeStep
    <2> QED
      BY <2>1, <2>2, <2>4, <2>6, <2>7, <2>8 DEF IInv
  <1> QED
    BY <1>1, <1>2, <1>3, NextIsActions

-----------------------------------------------------------------------------
\* Every reachable state satisfies the inductive invariant.
THEOREM Invariance == Spec => []IInv
  <1>1. Init => IInv
    BY Initial
  <1>2. IInv /\ [Next]_vars => IInv'
    BY Invariant
  <1> QED
    BY <1>1, <1>2, PTL DEF Spec

\* A position is never reported twice to one batch, whatever earlier batches
\* left running and whenever cancel() arrives.
THEOREM ReportsOnce == Spec => []ReportedOnce
  <1>1. IInv => ReportedOnce
    BY DEF IInv
  <1> QED
    BY <1>1, Invariance, PTL

\* run() returns normally only with the value of every task of its batch.
THEOREM ReturnsWhole == Spec => []ReturnIsWhole
  <1>1. IInv => ReturnIsWhole
    BY DEF IInv
  <1> QED
    BY <1>1, Invariance, PTL

\* close() leaves no task running and none in the queue.
THEOREM ClosesQuietly == Spec => []ClosedIsQuiet
  <1>1. IInv => ClosedIsQuiet
    BY DEF IInv
  <1> QED
    BY <1>1, Invariance, PTL

\* After run() is over no task of its batch starts any more, except those that
\* an exception outside the code's own try blocks left in the queue.
THEOREM EndsForGood == Spec => EndedBatchStartsNothing
  <1>1. ASSUME IInv, [Next]_vars, NEW b \in Batches, NEW i \in Positions,
               outcome[b] # "none", future[b][i] \in {"none", "pending"}, i \notin spared[b]
        PROVE  future'[b][i] # "running"
    <2>1. CASE UNCHANGED vars
      BY <1>1, <2>1
    <2>2. CASE Actions
      <3>1. Move(b, i)
        BY <1>1, <2>2, AllMove
      <3>2. b < batch \/ opc \in {"idle", "closing", "closed"}
        BY <1>1 DEF IInv, Outcomes, Control
      <3>3. future[b][i] = "none"
        BY <1>1, <3>2 DEF IInv, SubmitInv, Over
      <3>4. opc # "call" \/ b # batch
        BY <1>1, <3>2 DEF IInv, TypeOK
      <3> QED
        BY <3>1, <3>3, <3>4 DEF Move
    <2>3. CASE Interrupts
      BY <1>1, <2>3 DEF Interrupts, InterruptSubmission, InterruptCollection, InterruptResult,
                        InterruptIdlePool, Interrupt
    <2> QED
      BY <1>1, <2>1, <2>2, <2>3, NextIsActions
  <1>2. IInv /\ [Next]_vars =>
          [\A b \in Batches, i \in Positions :
              (outcome[b] # "none" /\ future[b][i] \in {"none", "pending"} /\ i \notin spared[b]) =>
                  future'[b][i] # "running"]_vars
    BY <1>1
  <1> QED
    BY <1>2, Invariance, PTL DEF Spec, EndedBatchStartsNothing
=============================================================================
