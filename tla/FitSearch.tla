------------------------------ MODULE FitSearch ------------------------------
(***************************************************************************)
(* The staged search for the parameters of one dataset (mode "single") or  *)
(* of a whole joint graph (mode "joint"), with its checkpoints.            *)
(*                                                                         *)
(* Five stages run in order.  A gives starts, B a few candidates of which  *)
(* the hopeless are archived, C and D refine one lineage per remaining     *)
(* candidate with restarts out of a shared pool, E runs an ensemble of     *)
(* seeds.  Every stage from B on publishes a checkpoint (joint E one per   *)
(* seed).  The user can skip the stage that runs; the search can be        *)
(* cancelled or its process can die anywhere.  A later search takes up the *)
(* newest checkpoint that was kept, if the validator accepts it.           *)
(*                                                                         *)
(* A candidate is a line, a round on it, a cost (Infinite: an invalid      *)
(* evaluation) and a mark; its identifier is the line and the round.       *)
(* Parameter vectors, evidence, warnings, stop reasons, evaluation counts  *)
(* and the numerical solvers are left out; so is the elite that one seed   *)
(* of stage E hands to the next.  A joint graph writes one checkpoint for  *)
(* each member out of one state in one call, and the project never mixes   *)
(* those of two calls (see BatchTransaction): one record stands for all.   *)
(***************************************************************************)
EXTENDS Counting, SequencesExt

CONSTANTS Costs,             \* the finite costs a candidate can have
          Infinite,          \* above every finite cost
          ThresholdRatio,    \* threshold_ratio of the stage-B archive
          BasePerturbations, \* base_perturbations of the stage-B archive
          FinalSeeds,        \* final_seed_count
          RescuePaths,       \* the ensemble size profile recovery accepts
          Refined,           \* bound: the costs a single C, D or E candidate can have
          MaxRuns            \* bound: searches begun

ASSUME SearchAssumption ==
    /\ Costs \subseteq Nat /\ Costs # {}
    /\ Infinite \in Nat /\ \A c \in Costs : c < Infinite
    /\ ThresholdRatio \in Nat \ {0}
    /\ BasePerturbations \in Nat
    /\ FinalSeeds \in Nat \ {0}
    /\ RescuePaths \in Nat
    /\ Refined \subseteq Costs \cup {Infinite} /\ Refined # {}
    /\ MaxRuns \in Nat

VARIABLES mode,     \* "single" or "joint"; a search never changes it
          phase,    \* idle, searching, recovering, ended or failed
          at,       \* the next stage of the loop over `remaining'
          history,  \* the committed stages: their candidates in order
          skipped,  \* skipped_stages
          counts,   \* perturbation_counts of the stage just committed
          work,     \* the local stage being run (single)
          pending,  \* the newest checkpoint handed to the callback
          store,    \* the checkpoint the project keeps
          runs      \* searches begun

memory == <<at, history, skipped, counts, work>>
vars == <<mode, phase, memory, pending, store, runs>>

Modes == {"single", "joint"}
STAGE_ORDER == <<"A", "B", "C", "D", "E">>
Stages == {"A", "B", "C", "D", "E"}
Place == [A |-> 1, B |-> 2, C |-> 3, D |-> 4, E |-> 5, done |-> 6]
After(stage) == IF stage = "E" THEN "done" ELSE STAGE_ORDER[Place[stage] + 1]
UpTo(stage) == {s \in Stages : Place[s] <= Place[stage]}

-----------------------------------------------------------------------------
(* Candidates.  A mark says what happened to one after its evaluation:     *)
(* archived by stage B, or taken back by the joint solver because the      *)
(* objective rose (valid=False and no ranking on a vector that is valid).  *)

Candidate(line, round, cost) ==
    [line |-> line, round |-> round, cost |-> cost, mark |-> "kept"]

Finite(c) == c.cost < Infinite
Selectable(c) == Finite(c) /\ c.mark = "kept"
Better(c, d) == c.cost < d.cost

\* The positions that can be selected, and the stable winner of a group of
\* positions, if it has one (best_candidate_index).
Winners(found) == {i \in DOMAIN found : Selectable(found[i])}
BestIndex(found, group) ==
    CHOOSE i \in group \cap Winners(found) :
        \A j \in group \cap Winners(found) :
            Better(found[i], found[j]) \/ (found[i].cost = found[j].cost /\ i <= j)

\* A lineage is carried on by its winner, or by its first candidate.
Representative(found, group) ==
    IF group \cap Winners(found) = {}
    THEN found[CHOOSE i \in group : \A j \in group : i <= j]
    ELSE found[BestIndex(found, group)]

\* The cost of that winner.
BestCost(found, group) ==
    IF group \cap Winners(found) = {} THEN Infinite ELSE found[BestIndex(found, group)].cost

-----------------------------------------------------------------------------
(* The archive of stage B, and who continues from a committed stage.       *)

Active(found) ==
    {i \in DOMAIN found : /\ Finite(found[i])
                          /\ \A j \in DOMAIN found :
                                found[i].cost <= ThresholdRatio * found[j].cost}

\* The active ones by cost; equal costs by identifier, which is the line.
ArchiveRank(found, i) ==
    Cardinality({j \in Active(found) :
        \/ Better(found[j], found[i])
        \/ found[j].cost = found[i].cost /\ found[j].line < found[i].line})

\* The share of the candidate of that rank in the archived ones' budget:
\* (base + 1) restarts each, dealt round-robin from the best on.
_reclaimed_perturbation_counts(active, archived, rank) ==
    LET extra == (BasePerturbations + 1) * archived IN
    BasePerturbations + (extra \div active)
        + (IF rank < extra % active THEN 1 ELSE 0)

\* archive_stage_b_candidates, put back into publication order.
_ordered_stage_b_continuation(found) ==
    LET active == Active(found)
        order == Chosen([i \in DOMAIN found |-> i], active)
    IN [parents |-> Chosen(found, active),
        counts |-> [k \in DOMAIN order |->
            _reclaimed_perturbation_counts(Cardinality(active),
                Len(found) - Cardinality(active), ArchiveRank(found, order[k]))]]

stage_b_continuation(found, given) ==
    IF given = <<>> THEN _ordered_stage_b_continuation(found)
    ELSE [parents |-> Chosen(found, Winners(found)), counts |-> given]

Lines(found) == {found[i].line : i \in DOMAIN found}
Group(found, line) == {i \in DOMAIN found : found[i].line = line}

local_stage_continuation(found, given) ==
    LET lineages == 1 .. Cardinality(Lines(found)) IN
    [parents |-> [k \in lineages |-> Representative(found, Group(found, k - 1))],
     counts |-> IF given # <<>> THEN given
                ELSE [k \in lineages |-> Cardinality(Group(found, k - 1)) - 1]]

\* The newest committed stage from B to `stage'; only skips lie in between.
committed_parent(committed, stage) ==
    CHOOSE s \in DOMAIN committed \cap (UpTo(stage) \ {"A"}) :
        \A t \in DOMAIN committed \cap (UpTo(stage) \ {"A"}) : Place[t] <= Place[s]

\* A bug for the checks: the nominal parent, not the committed one, decides.
BugContinuation(committed, stage, given) ==
    LET parent == committed_parent(committed, stage) IN
    IF stage = "B" THEN stage_b_continuation(committed[parent], given)
    ELSE local_stage_continuation(committed[parent], given)

_stage_continuation(committed, stage, given) ==
    LET parent == committed_parent(committed, stage) IN
    IF parent = "B" THEN stage_b_continuation(committed[parent], given)
    ELSE local_stage_continuation(committed[parent], given)

-----------------------------------------------------------------------------
(* Checkpoints and their validator.                                        *)

None == [stage |-> "none"]

\* The initial candidate of a joint search is evaluated anew by a resume.
Committed(stage, found) ==
    [s \in DOMAIN history \cup {stage} |-> IF s = stage THEN found ELSE history[s]]

Without(committed, stage) == [s \in DOMAIN committed \ {stage} |-> committed[s]]

\* A bug for the checks: a skipped ensemble claims its seeds.
BugConsumedSeeds(stage, committed, omitted) ==
    CASE mode = "single" -> IF stage = "E" THEN 2 + FinalSeeds ELSE 2
      [] mode = "joint" -> IF stage = "E" THEN 1 + FinalSeeds ELSE 1

\* Streams B-0, B-1 of a single search, B-0 of a joint one; then E-0, E-1 ...
_consumed_seeds(stage, committed, omitted) ==
    CASE mode = "single" ->
            IF stage = "E" /\ "E" \notin omitted THEN 2 + FinalSeeds ELSE 2
      [] mode = "joint" ->
            IF stage = "E" /\ "E" \in DOMAIN committed THEN 1 + Len(committed["E"]) ELSE 1

Id(c) == <<c.line, c.round>>
Ids(found) == [i \in DOMAIN found |-> Id(found[i])]

\* A summary is made when its stage is committed; a seed of joint E extends
\* the last one, and a resume takes them over as they are.
_summary(found) ==
    [candidate_ids |-> Ids(found), best_objective |-> BestCost(found, DOMAIN found)]

\* The candidates of stage A are no part of a checkpoint.
Described(committed) == DOMAIN committed \ {"A"}
Summaries(committed) == [s \in Described(committed) |-> _summary(committed[s])]

build_checkpoint(stage, committed, omitted) ==
    [stage |-> stage, skipped |-> omitted,
     history |-> IF mode = "joint" THEN Without(committed, "A") ELSE committed,
     summaries |-> Summaries(committed),
     seeds |-> _consumed_seeds(stage, committed, omitted)]

\* The stages a checkpoint must describe, joint ones without the initial A.
_expected_stage_prefix(stage) ==
    UpTo(stage) \ (IF mode = "joint" THEN {"A"} ELSE {})

\* The candidates are those of the summaries, each once and in their order.
_validate_candidate_order(c) ==
    \A s \in Described(c.history) :
        /\ IsInjective(Ids(c.history[s]))
        /\ Ids(c.history[s]) = c.summaries[s].candidate_ids

\* A joint E that was skipped after some seeds is described nevertheless.
_completed_stage_prefix(c) ==
    LET partial == IF mode = "joint" THEN DOMAIN c.history \cap {"E"} ELSE {}
    IN _expected_stage_prefix(c.stage) \ (c.skipped \ partial)

_validate_history(c) ==
    /\ c.stage \in {"B", "C", "D", "E"}
    /\ c.skipped \subseteq _expected_stage_prefix(c.stage) \ {"A", "B"}
    /\ DOMAIN c.history = _completed_stage_prefix(c)
    /\ _validate_candidate_order(c)

Found(c) == UNION {Range(c.history[s]) : s \in DOMAIN c.history}

\* Re-evaluating the vector gives an invalid candidate its own stop reason
\* again, and makes one valid that the joint solver had taken back.  A joint
\* candidate is invalid in no other way: its ranking would not be finite.
Rederivable(c) == c.mark # "raised" /\ (c.mark = "eliminated" => Finite(c))

_validate_candidate_layout(c) == \A candidate \in Found(c) : Rederivable(candidate)

\* The best ranking of a joint stage, where each candidate must have one.
_joint_best_objective(found) == Min({found[i].cost : i \in DOMAIN found} \cup {Infinite})

_summary_best_objective(found) ==
    IF mode = "joint" THEN _joint_best_objective(found) ELSE BestCost(found, DOMAIN found)

\* A summary is the one its candidates give.  In a joint graph each of them
\* has a ranking, the objective of its vector.
_validate_summaries(c) ==
    \A s \in Described(c.history) :
        /\ mode = "joint" => \A i \in DOMAIN c.history[s] : c.history[s][i].mark # "raised"
        /\ c.summaries[s] = [candidate_ids |-> Ids(c.history[s]),
                             best_objective |-> _summary_best_objective(c.history[s])]

FinalIds(c) == IF "E" \in DOMAIN c.history THEN c.history["E"] ELSE <<>>

\* Joint candidates of E are the first seeds, and not all of them if skipped.
_joint_seed_prefix(c) ==
    /\ c.stage # "E" => c.seeds = 1
    /\ c.stage = "E" =>
         /\ "E" \in DOMAIN c.history => c.history["E"] # <<>>
         /\ Len(FinalIds(c)) <= FinalSeeds
         /\ \A k \in DOMAIN FinalIds(c) : FinalIds(c)[k].line = k - 1
         /\ "E" \in c.skipped => Len(FinalIds(c)) < FinalSeeds
         /\ c.seeds = 1 + Len(FinalIds(c))

_validate_seeds(c) ==
    IF mode = "joint" THEN _joint_seed_prefix(c)
    ELSE LET completed_final == c.stage = "E" /\ "E" \notin c.skipped IN
         c.seeds = IF completed_final THEN 2 + FinalSeeds ELSE 2

Accepted(c) ==
    c = None \/ /\ _validate_history(c)
                /\ _validate_candidate_layout(c)
                /\ _validate_summaries(c)
                /\ _validate_seeds(c)

\* What is left to run after a checkpoint.
remaining_stages(c) ==
    IF mode = "joint" /\ c.stage = "E" /\ "E" \notin c.skipped
         /\ Len(c.history["E"]) < FinalSeeds
    THEN "E" ELSE After(c.stage)

-----------------------------------------------------------------------------
(* Beginning, the loop over the stages, and ending.                        *)

NoWork == [stage |-> "none"]
NoStages == [s \in {} |-> <<>>]

search_terminated_early(omitted) == omitted \cap {"A", "B", "E"} # {}

Init ==
    /\ mode \in Modes
    /\ phase = "idle" /\ at = "done"
    /\ history = NoStages /\ skipped = {} /\ counts = <<>> /\ work = NoWork
    /\ pending = None /\ store = None
    /\ runs = 0

Forget ==
    /\ at' = "done" /\ history' = NoStages /\ skipped' = {}
    /\ counts' = <<>> /\ work' = NoWork

\* A refused checkpoint fails the row before any stage runs.
Refuse ==
    /\ ~Accepted(store)
    /\ phase' = "failed" /\ pending' = None /\ store' = None
    /\ Forget

\* Nothing but the checkpoint is known of the search before.
Resume ==
    /\ Accepted(store)
    /\ phase' = "searching"
    /\ counts' = <<>> /\ work' = NoWork
    /\ pending' = store
    /\ IF store = None
       THEN at' = "A" /\ history' = NoStages /\ skipped' = {}
       ELSE /\ at' = remaining_stages(store)
            /\ skipped' = store.skipped
            /\ history' = [s \in DOMAIN store.history \cup {"A"} |->
                             IF s \in DOMAIN store.history THEN store.history[s] ELSE <<>>]
    /\ UNCHANGED store

BeginSearch ==
    /\ phase \notin {"searching", "recovering"}
    /\ runs < MaxRuns
    /\ runs' = runs + 1
    /\ Refuse \/ Resume
    /\ UNCHANGED mode

Running(stage) == phase = "searching" /\ at = stage /\ work = NoWork

\* A committed stage: its candidates, the budget it leaves, its checkpoint.
Commit(stage, found, left, next) ==
    /\ history' = Committed(stage, found)
    /\ counts' = left
    /\ pending' = build_checkpoint(stage, Committed(stage, found), skipped)
    /\ at' = next
    /\ work' = NoWork
    /\ UNCHANGED <<mode, phase, skipped, store, runs>>

\* A row that raises fails, and its checkpoint is cleared.
Fail ==
    /\ phase' = "failed" /\ pending' = None /\ store' = None
    /\ Forget
    /\ UNCHANGED <<mode, runs>>

\* Stage A hands on starts, no candidate; no checkpoint is written.
StageA ==
    /\ Running("A")
    /\ \/ /\ history' = Committed("A", <<>>)
          /\ at' = "B"
          /\ UNCHANGED <<mode, phase, skipped, counts, work, pending, store, runs>>
       \/ Fail       \* no start can be evaluated, or not the one of a joint graph

AllCosts == Costs \cup {Infinite}
Launches == {<<2, 0, 1>>, <<0, 1>>}   \* 2 is B-declared-start

\* One representative per geometry, whatever cannot be selected too; the
\* archive marks those that do not continue.  The best by cost, then by
\* identifier, represents its own geometry.
_stage_b_representatives(launched) ==
    LET First(i) == \A j \in Winners(launched) :
            \/ Better(launched[i], launched[j])
            \/ launched[i].cost = launched[j].cost /\ launched[i].line <= launched[j].line
    IN {kept \in SUBSET DOMAIN launched :
           \A i \in DOMAIN launched : ~Finite(launched[i]) \/ First(i) => i \in kept}

archive_stage_b_candidates(found) ==
    [i \in DOMAIN found |->
        IF i \in Active(found) THEN found[i] ELSE [found[i] EXCEPT !.mark = "eliminated"]]

\* A bug for the checks: the budget goes to the parents in order of cost.
BugOutcomeCounts(found) ==
    SortSeq(_ordered_stage_b_continuation(found).counts, LAMBDA m, n : m > n)

\* The outcome's counts follow publication order, as a resume's do.
OutcomeCounts(found) == _ordered_stage_b_continuation(found).counts

StageB ==
    /\ Running("B") /\ mode = "single"
    /\ \E lines \in Launches : \E cost \in [DOMAIN lines -> AllCosts] :
         LET launched == [i \in DOMAIN lines |-> Candidate(lines[i], 0, cost[i])] IN
         \E kept \in _stage_b_representatives(launched) :
            LET found == Chosen(launched, kept)
            IN Commit("B", archive_stage_b_candidates(found), OutcomeCounts(found), "C")

\* The nominal parent of a stage; the skips in between decide the real one.
Nominal == [C |-> "B", D |-> "C", E |-> "D"]
Continuation(given) == _stage_continuation(history, Nominal[at], given)

\* `free': the stage has a parameter to perturb.  Otherwise there is one
\* start per lineage, whatever the budget.
StartLocal ==
    /\ phase = "searching" /\ at \in {"C", "D"} /\ mode = "single" /\ work = NoWork
    /\ LET next == Continuation(counts)
           pool == Total(next.counts)
       IN \E free \in BOOLEAN :
            work' = [stage |-> at, lineages |-> Len(next.parents),
                     total |-> Len(next.parents)
                                 + (IF free /\ next.parents # <<>> THEN pool ELSE 0),
                     starts |-> IF free THEN pool + 1 ELSE 1,
                     found |-> <<>>]
    /\ UNCHANGED <<mode, phase, at, history, skipped, counts, pending, store, runs>>

LineCost(found, line) == BestCost(found, Group(found, line))

\* A bug for the checks: a round visits every lineage, whatever is left.
BugNextRound ==
    LET open == {l \in 0 .. work.lineages - 1 :
                   /\ Cardinality(Group(work.found, l)) < work.starts
                   /\ Len(work.found) < work.total}
    IN InOrder([l \in open |-> {m \in open : m < l}])

\* The first round visits every lineage; a later one visits those that are
\* worth it once each, best first, while the pool lasts.
next_local_round ==
    IF work.found = <<>> THEN [k \in 1 .. work.lineages |-> k - 1]
    ELSE LET eligible == {l \in 0 .. work.lineages - 1 :
                            /\ Cardinality(Group(work.found, l)) < work.starts
                            /\ LineCost(work.found, l) < Infinite}
             cost == [l \in eligible |-> LineCost(work.found, l)]
             order == InOrder([l \in eligible |->
                        {m \in eligible : cost[m] < cost[l] \/ (cost[m] = cost[l] /\ m < l)}])
             left == work.total - Len(work.found)
         IN SubSeq(order, 1, IF left < Len(order) THEN left ELSE Len(order))

LocalRound ==
    /\ phase = "searching" /\ work # NoWork
    /\ next_local_round # <<>>
    /\ \E cost \in [DOMAIN next_local_round -> Refined] :
         work' = [work EXCEPT !.found = @ \o [k \in DOMAIN next_local_round |->
            LET l == next_local_round[k] IN Candidate(l, Cardinality(Group(work.found, l)), cost[k])]]
    /\ UNCHANGED <<mode, phase, at, history, skipped, counts, pending, store, runs>>

CommitLocal ==
    /\ phase = "searching" /\ work # NoWork
    /\ next_local_round = <<>>
    /\ Commit(at, work.found,
              [k \in 1 .. work.lineages |-> Cardinality(Group(work.found, k - 1)) - 1], After(at))

\* All seeds of a single ensemble are committed together.
StageE ==
    /\ Running("E") /\ mode = "single"
    /\ IF \E k \in DOMAIN Continuation(<<>>).parents : Selectable(Continuation(<<>>).parents[k])
       THEN \E cost \in [1..FinalSeeds -> Refined] :
              Commit("E", [k \in 1..FinalSeeds |-> Candidate(k - 1, 0, cost[k])], <<>>, "done")
       ELSE Fail

\* One candidate of a joint stage; after a local solve it may be taken back.
\* An invalid evaluation makes none: the ranking must be finite, so the row
\* fails.  C and D start from a valid vector: what is invalid is taken back.
JointCandidate(stage, line) ==
    LET kept == {Candidate(line, 0, cost) : cost \in Costs} IN
    IF stage = "B" THEN kept
    ELSE kept \cup {[c EXCEPT !.mark = "raised"] : c \in kept}

JointStage ==
    /\ phase = "searching" /\ at \in {"B", "C", "D"} /\ mode = "joint"
    /\ \/ \E c \in JointCandidate(at, 0) : Commit(at, <<c>>, <<>>, After(at))
       \/ at = "B" /\ Fail

_completed_stage_e == IF "E" \in DOMAIN history THEN Len(history["E"]) ELSE 0

\* A bug for the checks: a resumed ensemble starts over at its first seed.
BugFinalSeed(c) ==
    Commit("E", <<[c EXCEPT !.line = 0]>>,
           <<>>, IF _completed_stage_e + 1 < FinalSeeds THEN "E" ELSE "done")

\* A bug for the checks: the ensemble waits for one seed too many.
BugLastSeed(c) ==
    Commit("E", (IF _completed_stage_e > 0 THEN history["E"] ELSE <<>>) \o <<c>>,
           <<>>, IF _completed_stage_e + 1 <= FinalSeeds THEN "E" ELSE "done")

\* Joint E goes on after the seeds it has, and commits them one by one.
FinalSeed(c) ==
    Commit("E", (IF _completed_stage_e > 0 THEN history["E"] ELSE <<>>) \o <<c>>,
           <<>>, IF _completed_stage_e + 1 < FinalSeeds THEN "E" ELSE "done")

_run_stage_e_prefix ==
    /\ Running("E") /\ mode = "joint"
    /\ _completed_stage_e < FinalSeeds
    /\ \/ \E c \in JointCandidate("E", _completed_stage_e) : FinalSeed(c)
       \/ Fail

\* Whether the stage asks the probe at all, where a skip can be heard.
Polls ==
    \/ mode = "joint" \/ at \in {"A", "B"}
    \/ at \in {"C", "D"} /\ IF work = NoWork THEN Continuation(counts).parents # <<>>
                            ELSE next_local_round # <<>>
    \/ at = "E" /\ \E k \in DOMAIN Continuation(<<>>).parents :
                      Selectable(Continuation(<<>>).parents[k])

\* Skipping A or B leaves nothing to go on from: no checkpoint is written.
SkipToEnd ==
    /\ at \in {"A", "B"}
    /\ at' = "done"
    /\ UNCHANGED <<history, counts, pending>>

\* Otherwise the work on the stage is dropped and the loop goes on.
SkipOn ==
    /\ at \in {"C", "D", "E"}
    /\ at' = After(at) /\ counts' = <<>>
    /\ pending' = build_checkpoint(at, history, skipped \cup {at})
    /\ UNCHANGED history

StageSkipped ==
    /\ phase = "searching" /\ at # "done" /\ Polls
    /\ skipped' = skipped \cup {at} /\ work' = NoWork
    /\ SkipToEnd \/ SkipOn
    /\ UNCHANGED <<mode, phase, store, runs>>

\* The best candidate: of E where E was committed, else of all stages.
HasWinner ==
    IF "E" \in DOMAIN history THEN Winners(history["E"]) # {}
    ELSE \E s \in DOMAIN history : Winners(history[s]) # {}

\* The row of a finished search keeps the newest checkpoint; a search that
\* found nothing usable may cost it, depending on the transaction.
Finish ==
    /\ phase = "searching" /\ at = "done"
    /\ IF mode = "single" /\ HasWinner /\ ~search_terminated_early(skipped)
       THEN phase' = "recovering" /\ UNCHANGED store
       ELSE phase' = "ended" /\ store' \in (IF HasWinner THEN {pending} ELSE {pending, None})
    /\ UNCHANGED <<mode, memory, pending, runs>>

\* Profile recovery: the whole ensemble is rebuilt in a better basin and
\* published as stage E again, or nothing changes.
continue_profile_basin ==
    /\ phase = "recovering"
    /\ \/ /\ Len(history["E"]) = RescuePaths
          /\ \E cost \in [1..FinalSeeds -> Costs] :
               LET rebuilt == [k \in 1..FinalSeeds |-> Candidate(k - 1, 0, cost[k])] IN
               /\ \E k \in DOMAIN rebuilt : Better(rebuilt[k], Representative(history["E"], DOMAIN history["E"]))
               /\ history' = Committed("E", rebuilt)
               /\ pending' = [build_checkpoint("E", history', skipped)
                                EXCEPT !.seeds = 2 + FinalSeeds]
       \/ UNCHANGED <<history, pending>>
    /\ phase' = "ended" /\ store' = pending'
    /\ UNCHANGED <<mode, at, skipped, counts, work, runs>>

\* Cancelled, or the process died: what was published may have been kept.
Abort ==
    /\ phase \in {"searching", "recovering"}
    /\ phase' = "idle"
    /\ store' \in {store, pending} /\ pending' = store'
    /\ Forget
    /\ UNCHANGED <<mode, runs>>

Over == phase \notin {"searching", "recovering"} /\ runs = MaxRuns /\ UNCHANGED vars

Step ==
    \/ StageA \/ StageB \/ StartLocal \/ LocalRound \/ CommitLocal \/ StageE
    \/ JointStage \/ _run_stage_e_prefix
    \/ Finish \/ continue_profile_basin

Next == BeginSearch \/ Step \/ StageSkipped \/ Abort \/ Over

Spec == Init /\ [][Next]_vars
FairSpec == Spec /\ WF_vars(Step)

-----------------------------------------------------------------------------
(* Properties.                                                             *)

\* What the search publishes, its validator accepts: whatever stages were
\* skipped, in whichever of several searches, at whichever seed of a joint
\* ensemble.  Excepted are candidates that evaluate differently from the
\* way they were recorded (see Rederivable).
CheckpointsResume ==
    \A c \in {pending, store} :
        c # None /\ _validate_candidate_layout(c) => Accepted(c)

\* The newest checkpoint is the search: one that takes it up is at the same
\* stage with the same history ...
TakenUpAlike ==
    pending # None =>
        /\ pending.skipped = skipped
        /\ Committed("A", <<>>) = [s \in DOMAIN pending.history \cup {"A"} |->
               IF s = "A" THEN <<>> ELSE pending.history[s]]
        /\ remaining_stages(pending) = at

\* ... and continues the same parents with the same restart budgets,
\* although perturbation_counts are not in it.
ContinuedAlike ==
    mode = "single" /\ at \in {"C", "D"} => Continuation(counts) = Continuation(<<>>)

\* While a search runs, whoever resumed its newest checkpoint would go on
\* exactly as it does: run_fit_search and run_joint_fit after any skips.
ResumeIsExact == phase = "searching" => TakenUpAlike /\ ContinuedAlike

\* The archive moves restarts to the candidates that stay and loses none:
\* a local stage that can perturb at all has base + 1 starts for every
\* candidate of B, and D may spend what C spent, never more.
BudgetKept ==
    work # NoWork =>
        /\ Len(work.found) <= work.total
        /\ work.lineages > 0 /\ work.starts > 1 =>
             LET parent == committed_parent(history, Nominal[at]) IN
             work.total = (IF parent = "B" THEN BasePerturbations + 1 ELSE 1)
                            * Len(history[parent])
        /\ work.total <= (BasePerturbations + 1) * Len(history["B"])

\* What stage B archived is never refined again, though stages that would
\* have replaced it were skipped before or after a resume.
ArchiveStaysDead ==
    phase = "searching" /\ mode = "single" /\ at \in {"C", "D", "E"} =>
        LET parents == Continuation(counts).parents IN
        \A k \in DOMAIN parents : parents[k].mark # "eliminated"

\* The checkpoint a project keeps only ever gains: no later search drops,
\* redoes or changes a stage or a joint seed, and none takes back a skip.
\* Only profile recovery rewrites stage E, to something better; only the end
\* of a search without a usable candidate gives the checkpoint up.
Extends(later, earlier) ==
    /\ earlier.skipped \subseteq later.skipped
    /\ DOMAIN earlier.history \subseteq DOMAIN later.history
    /\ \A s \in DOMAIN earlier.history :
        \/ later.history[s] = earlier.history[s]
        \/ s = "E" /\ mode = "joint" /\ IsPrefix(earlier.history[s], later.history[s])
        \/ s = "E" /\ mode = "single"
             /\ \E k \in DOMAIN later.history[s] :
                   Better(later.history[s][k],
                          Representative(earlier.history[s], DOMAIN earlier.history[s]))
StoreGrows ==
    [][store # None =>
         IF store' # None THEN Extends(store', store)
         ELSE phase' = "failed" \/ (phase' = "ended" /\ ~HasWinner)]_vars

\* Every search comes to an end: no stage goes round for ever on its pool.
SearchEnds == (phase \in {"searching", "recovering"}) ~> (phase \notin {"searching", "recovering"})
=============================================================================
