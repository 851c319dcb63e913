------------------------- MODULE WorkerControlProofs -------------------------
(***************************************************************************)
(* WorkerControl, for every number of rows, threads and stages: one        *)
(* request skips at most one stage, and never that of a search that began  *)
(* after the request.                                                      *)
(***************************************************************************)
EXTENDS WorkerControl, TLAPS

\* Skip_lock is held by the thread that is about to clear the flag.
LockInv == \A t \in Threads : pc[t] = "held" <=> holder = t

StageInv == \A r \in Rows :
    /\ phase[r] = "search" => stage[r] \in 1 .. Stages
    /\ phase[r] = "before" => stage[r] = 0 /\ \A t \in Threads : t[1] = r => pc[t] = "out"

\* A request that is set, or that a thread has seen, has not been counted yet.
Pending == IF skip \/ holder # NoThread THEN 1 ELSE 0

CountInv == skips + Pending <= requests

AskedOf(r) == \E s \in 1 .. Stages : <<r, s>> \in asked

\* A flag that a search can see was set, for the last time, during that search.
AskedInv ==
    /\ skip => \A r \in Rows : phase[r] = "search" => AskedOf(r)
    /\ \A t \in Threads : pc[t] = "held" /\ phase[t[1]] = "search" => AskedOf(t[1])

IInv == TypeOK /\ LockInv /\ StageInv /\ CountInv /\ AskedInv

-----------------------------------------------------------------------------
USE ControlAssumption
USE DEF vars, eventVars, requestVars, rowVars, threadVars, _discard_skip

LEMMA ThreadFacts ==
  /\ \A t \in Threads : t # NoThread /\ t[1] \in Rows /\ t[2] \in Workers
  /\ \A r \in Rows : Pool[r] \subseteq Workers
  BY DEF Threads, Workers, NoThread

\* The steps of the owner.
LEMMA OwnerKeeps ==
  ASSUME IInv, skip_stage \/ SetPause \/ Resume \/ Cancel
  PROVE  IInv'
  <1> USE DEF IInv
  <1>1. CASE skip_stage
    <2>1. TypeOK'
      <3>1. skip' \in BOOLEAN
        BY <1>1, Zenon DEF skip_stage
      <3> QED
        BY <1>1, <3>1 DEF skip_stage, TypeOK, CountInv, Pending
    <2>2. \A r \in Rows : phase[r] = "search" => <<r, stage[r]>> \in asked'
      <3> TAKE r \in Rows
      <3> HAVE phase[r] = "search"
      <3>1. <<r, stage[r]>> \in Rows \X (1 .. Stages)
        BY DEF StageInv
      <3> QED
        BY <1>1, <3>1 DEF skip_stage
    <2>3. AskedInv'
      BY <1>1, <2>2, ThreadFacts DEF skip_stage, AskedInv, AskedOf, StageInv
    <2>4. CountInv'
      BY <1>1 DEF skip_stage, CountInv, Pending, TypeOK
    <2> QED
      BY <1>1, <2>1, <2>3, <2>4 DEF skip_stage, LockInv, StageInv
  <1>2. CASE SetPause \/ Resume \/ Cancel
    <2>1. pause' \in BOOLEAN /\ cancellation' \in BOOLEAN
      BY <1>2, Zenon DEF SetPause, Resume, Cancel, TypeOK
    <2> QED
      BY <1>2, <2>1 DEF SetPause, Resume, Cancel, TypeOK, LockInv, StageInv, CountInv,
         Pending, AskedInv, AskedOf
  <1> QED
    BY <1>1, <1>2

\* The steps of a row: a row that enters its search has cleared the flag.
LEMMA RowKeeps ==
  ASSUME IInv, NEW r \in Rows, RowStep(r)
  PROVE  IInv'
  <1> USE DEF IInv
  <1>1. TypeOK' /\ StageInv'
    <2>1. skip' \in BOOLEAN
      BY Zenon DEF RowStep, CallProbe, NormalProbe, FinishRow, EnterSearch, NextStage,
                   LeaveSearch, BeginStage, TypeOK
    <2>2. CASE CallProbe(r) \/ NormalProbe(r)
      <3>1. polling' \in [Rows -> BOOLEAN]
        <4>1. CASE CallProbe(r)
          BY <4>1 DEF CallProbe, TypeOK
        <4>2. CASE NormalProbe(r)
          BY <4>2 DEF NormalProbe, TypeOK
        <4> QED
          BY <2>2, <4>1, <4>2
      <3>2. phase' \in [Rows -> {"before", "search", "after", "closing", "over"}]
            /\ \A q \in Rows : phase'[q] = phase[q] \/ phase'[q] = "closing"
        BY <2>2 DEF CallProbe, NormalProbe, TypeOK
      <3> QED
        BY <2>1, <2>2, <3>1, <3>2 DEF CallProbe, NormalProbe, TypeOK, StageInv
    <2>5. CASE FinishRow(r) \/ LeaveSearch(r)
      BY <2>1, <2>5 DEF FinishRow, LeaveSearch, TypeOK, StageInv
    <2>3. CASE EnterSearch(r)
      BY <2>1, <2>3, ThreadFacts DEF EnterSearch, BeginStage, TypeOK, StageInv
    <2>4. CASE NextStage(r)
      BY <2>1, <2>4, ThreadFacts DEF NextStage, StageOver, BeginStage, TypeOK, StageInv
    <2> QED
      BY <2>2, <2>3, <2>4, <2>5 DEF RowStep
  <1>2. UNCHANGED <<requestVars, threadVars>> /\ (skip' = skip \/ ~skip')
    BY DEF RowStep, CallProbe, NormalProbe, FinishRow, EnterSearch, NextStage, LeaveSearch
  <1>3. LockInv' /\ CountInv'
    BY <1>2 DEF LockInv, CountInv, Pending, TypeOK
  <1>4. AskedInv'
    <2>1. CASE EnterSearch(r)
      <3>1. ~skip' /\ phase[r] = "before" /\ phase' = [phase EXCEPT ![r] = "search"]
        BY <2>1 DEF EnterSearch
      <3>2. \A t \in Threads : pc[t] = "held" => t[1] # r
        BY <3>1 DEF StageInv
      <3> QED
        BY <1>2, <3>1, <3>2, ThreadFacts DEF AskedInv, AskedOf, TypeOK
    <2>2. CASE ~EnterSearch(r)
      <3>1. \A q \in Rows : phase'[q] = "search" => phase[q] = "search"
        BY <2>2 DEF RowStep, CallProbe, NormalProbe, FinishRow, NextStage, LeaveSearch, TypeOK
      <3>2. skip' => skip
        BY <1>2
      <3> QED
        BY <1>2, <3>1, <3>2, ThreadFacts DEF AskedInv, AskedOf
    <2> QED
      BY <2>1, <2>2
  <1> QED
    BY <1>1, <1>3, <1>4

\* The steps of a thread: only the holder of the lock clears and counts.
LEMMA ThreadKeeps ==
  ASSUME IInv, NEW t \in Threads, ThreadStep(t)
  PROVE  IInv'
  <1> USE ThreadFacts DEF IInv, Goto
  <1>1. CASE StartTask(t)
    <2>1. TypeOK'
      BY <1>1 DEF StartTask, TypeOK
    <2>2. LockInv' /\ CountInv' /\ AskedInv'
      BY <1>1 DEF StartTask, TypeOK, LockInv, CountInv, Pending, AskedInv, AskedOf
    <2>3. StageInv'
      BY <1>1 DEF StartTask, TypeOK, StageInv
    <2> QED
      BY <2>1, <2>2, <2>3
  <1>2. CASE ReturnTask(t) \/ LookOn(t) \/ NoSkip(t) \/ Park(t)
    <2>1. PICK place \in {"out", "lock", "parked", "look", "solve"} :
            pc' = [pc EXCEPT ![t] = place] /\ pc[t] \notin {"held", "out"}
      BY <1>2 DEF ReturnTask, LookOn, NoSkip, Park
    <2>2. UNCHANGED <<eventVars, requestVars, rowVars, at, holder, skips>>
      BY <1>2 DEF ReturnTask, LookOn, NoSkip, Park
    <2> QED
      BY <2>1, <2>2 DEF TypeOK, LockInv, StageInv, CountInv, Pending, AskedInv, AskedOf
  <1>3. CASE HearCancel(t)
    <2>1. skip' \in BOOLEAN /\ (skip' = skip \/ ~skip')
      BY <1>3, Zenon DEF HearCancel, TypeOK
    <2>2. \A q \in Rows : phase'[q] = phase[q] \/ phase'[q] = "closing"
      BY <1>3 DEF HearCancel, TypeOK
    <2>3. TypeOK' /\ LockInv'
      BY <1>3, <2>1 DEF HearCancel, TypeOK, LockInv
    <2>4. /\ UNCHANGED <<at, holder, stage, requests, asked, skips>>
          /\ pc' = [pc EXCEPT ![t] = "out"]
      BY <1>3 DEF HearCancel
    <2>5. StageInv'
      BY <1>3, <2>2, <2>4 DEF HearCancel, TypeOK, StageInv
    <2>6. CountInv'
      BY <2>1, <2>4 DEF TypeOK, CountInv, Pending
    <2>7. AskedInv'
      <3>1. \A s \in Threads : pc'[s] = "held" => pc[s] = "held"
        BY <2>4 DEF TypeOK
      <3>2. \A q \in Rows : phase'[q] = "search" => phase[q] = "search"
        BY <2>2
      <3> QED
        BY <2>1, <2>4, <3>1, <3>2 DEF AskedInv, AskedOf
    <2> QED
      BY <2>3, <2>5, <2>6, <2>7
  <1>4. CASE SeeSkip(t)
    <2>1. TypeOK' /\ LockInv' /\ StageInv'
      BY <1>4 DEF SeeSkip, TypeOK, LockInv, StageInv
    <2>2. CountInv' /\ AskedInv'
      BY <1>4 DEF SeeSkip, TypeOK, CountInv, Pending, AskedInv, AskedOf
    <2> QED
      BY <2>1, <2>2
  <1>5. CASE RaiseSkip(t)
    <2>1. holder = t /\ holder # NoThread /\ Pending = 1 /\ skips + 1 <= requests
      BY <1>5 DEF RaiseSkip, LockInv, CountInv, Pending
    <2>2. skip' \in BOOLEAN /\ ~skip' /\ holder' = NoThread
      BY <1>5, Zenon DEF RaiseSkip
    <2>3. TypeOK'
      <3>1. raised' \in [Rows -> BOOLEAN]
        BY <1>5 DEF RaiseSkip, TypeOK
      <3>2. skips' \in 0 .. MaxRequests
        BY <1>5, <2>1 DEF RaiseSkip, TypeOK
      <3> QED
        BY <1>5, <2>2, <3>1, <3>2 DEF RaiseSkip, TypeOK
    <2>4. LockInv' /\ StageInv'
      BY <1>5, <2>1, <2>2 DEF RaiseSkip, TypeOK, LockInv, StageInv
    <2>5. CountInv' /\ AskedInv'
      BY <1>5, <2>1, <2>2 DEF RaiseSkip, TypeOK, CountInv, Pending, AskedInv, AskedOf
    <2> QED
      BY <2>3, <2>4, <2>5
  <1> QED
    BY <1>1, <1>2, <1>3, <1>4, <1>5 DEF ThreadStep

LEMMA Initial == Init => IInv
  <1> SUFFICES ASSUME Init PROVE IInv
    OBVIOUS
  <1>1. cancellation \in BOOLEAN /\ pause \in BOOLEAN /\ skip \in BOOLEAN
    BY Zenon DEF Init
  <1>2. TypeOK
    BY <1>1 DEF Init, TypeOK
  <1> QED
    BY <1>2, ThreadFacts DEF Init, IInv, LockInv, StageInv, CountInv, Pending, AskedInv, AskedOf

LEMMA Invariant == IInv /\ [Next]_vars => IInv'
  <1> SUFFICES ASSUME IInv, [Next]_vars PROVE IInv'
    OBVIOUS
  <1>1. CASE UNCHANGED vars
    BY <1>1 DEF IInv, TypeOK, LockInv, StageInv, CountInv, Pending, AskedInv, AskedOf
  <1> QED
    BY <1>1, OwnerKeeps, RowKeeps, ThreadKeeps DEF Next, Over

-----------------------------------------------------------------------------
\* Every reachable state satisfies the inductive invariant.
THEOREM Invariance == Spec => []IInv
  <1> QED
    BY Initial, Invariant, PTL DEF Spec

\* One request of the owner skips at most one stage.
THEOREM SkipsOnce == Spec => []OneStagePerRequest
  <1>1. IInv => OneStagePerRequest
    BY DEF IInv, CountInv, Pending, OneStagePerRequest, TypeOK
  <1> QED
    BY <1>1, Invariance, PTL

\* A request made before a search began never skips a stage of that search.
THEOREM NothingStale == Spec => NoStaleSkip
  <1>1. ASSUME IInv, [Next]_vars, NEW r \in Rows, raised'[r], ~raised[r]
        PROVE  \E s \in 1 .. Stages : <<r, s>> \in asked
    <2>1. PICK t \in Threads : RaiseSkip(t)
      BY <1>1 DEF Next, skip_stage, SetPause, Resume, Cancel, Over, RowStep, CallProbe, NormalProbe,
          FinishRow, EnterSearch, NextStage, LeaveSearch, BeginStage, ThreadStep, StartTask,
          ReturnTask, LookOn, HearCancel, NoSkip, SeeSkip, Park, IInv, TypeOK
    <2>2. t[1] = r /\ phase[r] = "search" /\ pc[t] = "held"
      BY <1>1, <2>1, ThreadFacts DEF RaiseSkip, Current, InStage, IInv, TypeOK
    <2> QED
      BY <1>1, <2>2 DEF IInv, AskedInv, AskedOf
  <1>2. IInv /\ [Next]_vars =>
          [\A r \in Rows : raised'[r] /\ ~raised[r] => \E s \in 1 .. Stages : <<r, s>> \in asked]_vars
    BY <1>1
  <1> QED
    BY <1>2, Invariance, PTL DEF Spec, NoStaleSkip
=============================================================================
