--------------------------- MODULE FitSearchProofs ---------------------------
(***************************************************************************)
(* Proofs about FitSearch: what it publishes its validator accepts, the    *)
(* newest checkpoint is the running search, and the checkpoint a project   *)
(* keeps only gains.  The three need one another: a checkpoint is accepted *)
(* because of what is known of the history it is made from, and after a    *)
(* resume that is known because the checkpoint was accepted.               *)
(*                                                                         *)
(* IInv is about which stages there are.  DataInv is about the candidates  *)
(* in them: what a local stage spends, that nothing archived goes on, and  *)
(* that the budget can be told from the history.  NameInv is about their   *)
(* identifiers and the summaries that describe them.                       *)
(***************************************************************************)
EXTENDS FitSearch, CountingProofs

\* The stages before a place in the order.
Before(place) == {s \in Stages : Place[s] < Place[place]}

Cands == [line : Nat, round : Nat, cost : Nat,
          mark : {"kept", "eliminated", "raised"}]

\* The candidates of a joint ensemble: the first seeds, in order.
Ensemble(found) == /\ found \in Seq(Cands)
                   /\ Len(found) \in 1..FinalSeeds
                   /\ \A k \in 1..Len(found) : found[k].line = k - 1

\* The stages a checkpoint describes are those it should.
Staged(c) == /\ c.stage \in {"B", "C", "D", "E"}
             /\ c.skipped \subseteq _expected_stage_prefix(c.stage) \ {"A", "B"}
             /\ DOMAIN c.history = _completed_stage_prefix(c)

\* A checkpoint that the validator accepts for its stages and its seeds.
Good(c) == c = None \/ /\ Staged(c)
                       /\ _validate_seeds(c)
                       /\ mode = "joint" /\ "E" \in DOMAIN c.history
                            => Ensemble(c.history["E"])

Live == phase \in {"searching", "recovering"}

\* The committed stages are those before `at' that were not skipped; a joint
\* search may have some seeds of E besides.
MemoryInv ==
    Live =>
        /\ at \in Stages \cup {"done"}
        /\ skipped \subseteq Before(at)
        /\ skipped \cap {"A", "B"} # {} => at = "done"
        /\ mode = "single" /\ skipped \cap {"A", "B"} = {}
             => DOMAIN history = Before(at) \ skipped
        /\ mode = "joint" /\ skipped \cap {"A", "B"} = {}
             => DOMAIN history = (Before(at) \ skipped) \cup (DOMAIN history \cap {"E"})
        /\ mode = "joint" /\ "E" \in DOMAIN history
             => /\ at \in {"E", "done"} /\ Ensemble(history["E"])
                /\ at = "E" \/ "E" \in skipped => Len(history["E"]) < FinalSeeds
        /\ phase = "recovering"
             => mode = "single" /\ at = "done" /\ skipped \cap {"A", "B", "E"} = {}

\* The search has everything the stored checkpoint has.
Holds(earlier, omitted, committed) ==
    /\ earlier.skipped \subseteq omitted
    /\ DOMAIN earlier.history \subseteq DOMAIN committed
    /\ \A s \in DOMAIN earlier.history :
        \/ committed[s] = earlier.history[s]
        \/ s = "E" /\ mode = "joint" /\ IsPrefix(earlier.history[s], committed[s])
KeptInv == Live /\ store # None => Holds(store, skipped, history)

\* So has the newest checkpoint, which the project may take at any time.
GrowInv == store # None => pending # None /\ Extends(pending, store)

\* Only A and B run, or were skipped, before there is a checkpoint.
MirrorInv ==
    phase = "searching" /\ pending # None =>
        at \notin {"A", "B"} /\ skipped \cap {"A", "B"} = {} /\ TakenUpAlike

\* A local stage is only ever run by a search of one dataset.
WorkInv == work # NoWork => phase = "searching" /\ mode = "single" /\ at \in {"C", "D"}

IInv == /\ mode \in Modes
        /\ Good(pending) /\ Good(store)
        /\ MemoryInv /\ KeptInv /\ GrowInv /\ MirrorInv

-----------------------------------------------------------------------------
(* Order of the stages, prefixes, the empty checkpoint.                    *)

LEMMA Order ==
    /\ Before("A") = {} /\ Before("B") = {"A"} /\ Before("C") = {"A", "B"}
    /\ Before("D") = {"A", "B", "C"} /\ Before("E") = {"A", "B", "C", "D"}
    /\ Before("done") = Stages
    /\ UpTo("A") = {"A"} /\ UpTo("B") = {"A", "B"} /\ UpTo("C") = {"A", "B", "C"}
    /\ UpTo("D") = {"A", "B", "C", "D"} /\ UpTo("E") = Stages
BY DEF Before, UpTo, Stages, Place

\* The successor of each stage.
LEMMA Follows ==
    /\ After("A") = "B" /\ After("B") = "C" /\ After("C") = "D"
    /\ After("D") = "E" /\ After("E") = "done"
BY DEF After, STAGE_ORDER, Place

\* Going on to the next stage adds one stage to those before.
LEMMA NextBefore ==
    ASSUME NEW stage \in Stages
    PROVE  /\ Before(After(stage)) = UpTo(stage)
           /\ UpTo(stage) = Before(stage) \cup {stage} /\ stage \notin Before(stage)
           /\ After(stage) \in Stages \cup {"done"}
BY Order, Follows DEF Stages

\* An ensemble extends itself, with or without one more seed,
LEMMA PrefixOfItself ==
    ASSUME NEW S, NEW s \in Seq(S), NEW e \in S
    PROVE  IsPrefix(s, s) /\ IsPrefix(s, s \o <<e>>)
BY DEF IsPrefix

\* and what it extends.
LEMMA PrefixExtends ==
    ASSUME NEW S, NEW s \in Seq(S), NEW t \in Seq(S), NEW e \in S, IsPrefix(s, t)
    PROVE  IsPrefix(s, t \o <<e>>)
BY DEF IsPrefix

\* A checkpoint has all that it has itself.
LEMMA ExtendsItself == ASSUME NEW c PROVE Extends(c, c)
BY DEF Extends

\* No checkpoint that is written is the empty one.
LEMMA NoneHasNoStage ==
    /\ None.stage = "none"
    /\ \A stage, committed, omitted :
         /\ build_checkpoint(stage, committed, omitted).stage = stage
         /\ stage # "none" => build_checkpoint(stage, committed, omitted) # None
BY DEF None, build_checkpoint

-----------------------------------------------------------------------------
(* What is published of a well-formed history is a good checkpoint.        *)

\* The history of a search that has just ended or left the given stage.
WellFormed(stage, committed, omitted) ==
    /\ omitted \subseteq UpTo(stage) \ {"A", "B"}
    /\ mode = "single" => DOMAIN committed = UpTo(stage) \ omitted
    /\ mode = "joint" =>
         /\ DOMAIN committed = (UpTo(stage) \ omitted) \cup (DOMAIN committed \cap {"E"})
         /\ "E" \in DOMAIN committed =>
              /\ stage = "E" /\ Ensemble(committed["E"])
              /\ "E" \in omitted => Len(committed["E"]) < FinalSeeds

\* A checkpoint made of such a history is one the validator accepts.
LEMMA Publishes ==
    ASSUME SearchAssumption, mode \in Modes,
           NEW stage \in {"B", "C", "D", "E"}, NEW committed, NEW omitted,
           WellFormed(stage, committed, omitted)
    PROVE  Good(build_checkpoint(stage, committed, omitted))
<1> DEFINE c == build_checkpoint(stage, committed, omitted)
<1>0. /\ c.stage = stage /\ c.skipped = omitted
      /\ c.history = IF mode = "joint" THEN Without(committed, "A") ELSE committed
      /\ c.seeds = _consumed_seeds(stage, committed, omitted)
  BY DEF build_checkpoint
<1> HIDE DEF c
<1>1. ASSUME mode = "single" PROVE Good(c)
  <2>1. c.history = committed  BY <1>0, <1>1
  <2>2. Staged(c)
    BY <1>0, <1>1, <2>1, Order DEF Staged, _completed_stage_prefix, WellFormed, _expected_stage_prefix
  <2>3. _validate_seeds(c)
    BY <1>0, <1>1 DEF _validate_seeds, _consumed_seeds
  <2> QED BY <1>1, <2>2, <2>3 DEF Good
<1>2. ASSUME mode = "joint" PROVE Good(c)
  <2>1. /\ DOMAIN c.history = DOMAIN committed \ {"A"}
        /\ \A s \in DOMAIN committed \ {"A"} : c.history[s] = committed[s]
    BY <1>0, <1>2 DEF Without
  <2>2. Staged(c)
    <3>1. _expected_stage_prefix(c.stage) = UpTo(stage) \ {"A"}
      BY <1>0, <1>2 DEF _expected_stage_prefix
    <3>2. "E" \in DOMAIN committed => "E" \in UpTo(stage)
      BY <1>2, Order DEF WellFormed, Stages
    <3>3. /\ omitted \subseteq UpTo(stage) \ {"A", "B"}
          /\ DOMAIN committed = (UpTo(stage) \ omitted) \cup (DOMAIN committed \cap {"E"})
      BY <1>2 DEF WellFormed
    <3>4. DOMAIN c.history = (UpTo(stage) \ {"A"}) \ (omitted \ (DOMAIN c.history \cap {"E"}))
      BY <2>1, <3>2, <3>3
    <3> QED BY <1>0, <1>2, <3>1, <3>3, <3>4 DEF Staged, _completed_stage_prefix
  <2>3. CASE "E" \in DOMAIN committed
    <3>1. /\ stage = "E" /\ Ensemble(committed["E"])
          /\ "E" \in omitted => Len(committed["E"]) < FinalSeeds
      BY <1>2, <2>3 DEF WellFormed
    <3>2. "E" \in DOMAIN c.history /\ c.history["E"] = committed["E"]
      BY <2>1, <2>3
    <3>3. FinalIds(c) = committed["E"]  BY <3>2 DEF FinalIds
    <3>4. c.seeds = 1 + Len(committed["E"])
      BY <1>0, <1>2, <2>3, <3>1 DEF _consumed_seeds
    <3>5. _joint_seed_prefix(c)
      <4>1. committed["E"] # <<>>  BY <3>1 DEF Ensemble
      <4> QED
        BY <1>0, <3>1, <3>2, <3>3, <3>4, <4>1, SMTT(30) DEF _joint_seed_prefix, Ensemble
    <3>6. _validate_seeds(c)  BY <1>2, <3>5 DEF _validate_seeds
    <3> QED BY <1>2, <2>2, <3>1, <3>2, <3>6 DEF Good
  <2>4. CASE "E" \notin DOMAIN committed
    <3>1. "E" \notin DOMAIN c.history  BY <2>1, <2>4
    <3>2. FinalIds(c) = <<>>  BY <3>1 DEF FinalIds
    <3>3. c.seeds = 1
      BY <1>0, <1>2, <2>4 DEF _consumed_seeds
    <3>4. _joint_seed_prefix(c)
      BY <1>0, <3>1, <3>2, <3>3 DEF _joint_seed_prefix, SearchAssumption
    <3>6. _validate_seeds(c)  BY <1>2, <3>4 DEF _validate_seeds
    <3> QED BY <1>2, <2>2, <3>1, <3>6 DEF Good
  <2> QED BY <2>3, <2>4
<1> QED BY <1>1, <1>2 DEF Modes, c

\* A stored checkpoint and a history that holds it: what is published of the
\* history extends the checkpoint.
LEMMA PublishedExtends ==
    ASSUME mode \in Modes, NEW stage, NEW committed, NEW omitted, NEW earlier,
           Good(earlier), earlier # None, Holds(earlier, omitted, committed)
    PROVE  Extends(build_checkpoint(stage, committed, omitted), earlier)
<1> DEFINE c == build_checkpoint(stage, committed, omitted)
<1>0. /\ c.skipped = omitted
      /\ c.history = IF mode = "joint" THEN Without(committed, "A") ELSE committed
  BY DEF build_checkpoint
<1> HIDE DEF c
<1>1. mode = "joint" => "A" \notin DOMAIN earlier.history
  BY DEF Good, Staged, _completed_stage_prefix, _expected_stage_prefix
<1>2. /\ DOMAIN earlier.history \subseteq DOMAIN c.history
      /\ \A s \in DOMAIN earlier.history : c.history[s] = committed[s]
  BY <1>0, <1>1 DEF Without, Holds
<1> QED BY <1>0, <1>2 DEF Extends, Holds, c

\* What is published of a search is the search.
LEMMA PublishedMirrors ==
    ASSUME NEW stage \in Stages, NEW committed, NEW omitted,
           NEW c, c = build_checkpoint(stage, committed, omitted)
    PROVE  /\ c.skipped = omitted /\ c.stage = stage
           /\ \A h : h = committed =>
                [s \in DOMAIN h \cup {"A"} |-> IF s = "A" THEN <<>> ELSE h[s]]
                  = [s \in DOMAIN c.history \cup {"A"} |->
                       IF s = "A" THEN <<>> ELSE c.history[s]]
<1>0. /\ c.skipped = omitted /\ c.stage = stage
      /\ c.history = IF mode = "joint" THEN Without(committed, "A") ELSE committed
  BY DEF build_checkpoint
<1>1. DOMAIN committed \cup {"A"} = DOMAIN c.history \cup {"A"}
  BY <1>0 DEF Without
<1>2. \A s \in DOMAIN committed \cup {"A"} : s # "A" => committed[s] = c.history[s]
  BY <1>0 DEF Without
<1> QED BY <1>0, <1>1, <1>2

-----------------------------------------------------------------------------
(* The same things after a step, in which the mode never changes.          *)

LEMMA GoodNext ==
    ASSUME mode' = mode
    PROVE  (Good(pending') => Good(pending)') /\ (Good(store') => Good(store)')
BY Zenon DEF Good, Staged, _completed_stage_prefix, _expected_stage_prefix, _validate_seeds,
   _joint_seed_prefix, FinalIds, Ensemble

LEMMA ExtendsNext ==
    ASSUME mode' = mode
    PROVE  /\ Extends(pending', store') => Extends(pending, store)'
           /\ Holds(store', skipped', history') => Holds(store, skipped, history)'
BY Zenon DEF Extends, Holds

LEMMA MirrorNext ==
    ASSUME mode' = mode, NEW stage \in Stages, pending'.stage = stage,
           pending' = build_checkpoint(stage, history', skipped'),
           remaining_stages(pending') = at'
    PROVE  TakenUpAlike'
<1>1. /\ pending'.skipped = skipped'
      /\ [s \in DOMAIN history' \cup {"A"} |-> IF s = "A" THEN <<>> ELSE history'[s]]
           = [s \in DOMAIN pending'.history \cup {"A"} |->
                IF s = "A" THEN <<>> ELSE pending'.history[s]]
  BY PublishedMirrors
<1>2. remaining_stages(pending)' = remaining_stages(pending')
  BY DEF remaining_stages
<1> QED BY <1>1, <1>2 DEF TakenUpAlike, Committed

\* A step that publishes: it is enough to know the memory it leaves.
LEMMA Publishing ==
    ASSUME SearchAssumption, IInv, phase = "searching", phase' = phase,
           UNCHANGED <<mode, store>>, NEW stage \in {"B", "C", "D", "E"},
           pending' = build_checkpoint(stage, history', skipped'),
           WellFormed(stage, history', skipped'),
           store # None => Holds(store, skipped', history'),
           at' = remaining_stages(pending'), at' \notin {"A", "B"},
           MemoryInv'
    PROVE  IInv'
<1>1. mode \in Modes /\ Good(store)  BY DEF IInv
<1>2. Good(pending')  BY <1>1, Publishes
<1>3. pending' # None /\ pending'.stage = stage  BY NoneHasNoStage
<1>4. store # None => Extends(pending', store)  BY <1>1, PublishedExtends
<1>5. TakenUpAlike'  BY <1>3, MirrorNext DEF Stages
<1>6. KeptInv'  BY ExtendsNext DEF KeptInv
<1>7. GrowInv'  BY <1>3, <1>4, ExtendsNext DEF GrowInv
<1>8. skipped' \cap {"A", "B"} = {}  BY DEF WellFormed
<1>9. MirrorInv'  BY <1>5, <1>8 DEF MirrorInv
<1> QED BY <1>1, <1>2, <1>6, <1>7, <1>9, GoodNext DEF IInv

\* What is known of the stage that runs.
LEMMA RunsIn ==
    ASSUME IInv, phase = "searching", at \in Stages
    PROVE  /\ mode \in Modes /\ skipped \subseteq Before(at) \ {"A", "B"}
           /\ mode = "single" => DOMAIN history = Before(at) \ skipped
           /\ mode = "joint" =>
                /\ DOMAIN history = (Before(at) \ skipped) \cup (DOMAIN history \cap {"E"})
                /\ "E" \in DOMAIN history =>
                     at = "E" /\ Ensemble(history["E"]) /\ Len(history["E"]) < FinalSeeds
           /\ store # None => Holds(store, skipped, history)
BY DEF IInv, MemoryInv, KeptInv, Live, Stages

\* A stage that leaves another history holds what the old one held.
LEMMA HoldsMore ==
    ASSUME NEW earlier, NEW stage, stage \notin DOMAIN history, NEW found,
           Holds(earlier, skipped, history)
    PROVE  Holds(earlier, skipped, Committed(stage, found))
BY DEF Holds, Committed

\* A whole stage is committed, and the next one is up.
LEMMA CommitStage ==
    ASSUME SearchAssumption, IInv, phase = "searching", NEW found, NEW left,
           at \in {"B", "C", "D", "E"}, mode = "joint" => at # "E",
           Commit(at, found, left, After(at))
    PROVE  IInv'
<1> DEFINE stage == at
<1>0. /\ at' = After(stage) /\ history' = Committed(stage, found)
      /\ pending' = build_checkpoint(stage, history', skipped')
      /\ UNCHANGED <<mode, phase, skipped, store>>
  BY DEF Commit
<1>1. stage \in Stages /\ stage \notin Before(stage)
      /\ UpTo(stage) = Before(stage) \cup {stage} /\ Before(at') = UpTo(stage)
  BY <1>0, NextBefore DEF Stages
<1>2. /\ mode \in Modes /\ skipped \subseteq Before(stage) \ {"A", "B"}
      /\ mode = "single" => DOMAIN history = Before(stage) \ skipped
      /\ mode = "joint" => DOMAIN history = Before(stage) \ skipped /\ stage # "E"
      /\ store # None => Holds(store, skipped, history)
  <2>1. mode = "joint" => "E" \notin DOMAIN history  BY <1>1, RunsIn
  <2> QED BY <1>1, <2>1, RunsIn
<1>3. stage \notin DOMAIN history  BY <1>1, <1>2 DEF Modes
<1>4. DOMAIN history' = DOMAIN history \cup {stage}  BY <1>0 DEF Committed
<1>5. DOMAIN history' = UpTo(stage) \ skipped
  BY <1>1, <1>2, <1>4 DEF Modes
<1>6. mode = "joint" => "E" \notin DOMAIN history'
  BY <1>2, <1>5, Order
<1>7. WellFormed(stage, history', skipped')
  BY <1>0, <1>1, <1>2, <1>5, <1>6 DEF WellFormed
<1>8. store # None => Holds(store, skipped', history')
  BY <1>0, <1>2, <1>3, HoldsMore
<1>9. at' = remaining_stages(pending')
  <2>1. pending'.stage = stage  BY <1>0, NoneHasNoStage
  <2> QED BY <1>0, <1>2, <2>1 DEF remaining_stages, Modes
<1>10. at' \in Stages \cup {"done"} /\ at' \notin {"A", "B"}
  BY <1>0, Follows DEF Stages
<1>11. MemoryInv'
  <2>1. skipped' \subseteq Before(at) \ {"A", "B"} /\ Before(at') = UpTo(stage)
    BY <1>0, <1>1, <1>2
  <2>2. Before(at)' = Before(at')  BY DEF Before
  <2> QED BY <1>0, <1>1, <1>2, <1>5, <1>6, <1>10, <2>1, <2>2 DEF MemoryInv, Live, Modes
<1> QED BY <1>0, <1>7, <1>8, <1>9, <1>10, <1>11, Publishing

\* One seed of a joint ensemble is committed after the ones before it.
LEMMA CommitSeed ==
    ASSUME SearchAssumption, IInv, phase = "searching", mode = "joint", at = "E",
           _completed_stage_e < FinalSeeds,
           NEW c \in JointCandidate("E", _completed_stage_e), FinalSeed(c)
    PROVE  IInv'
<1> DEFINE old == IF _completed_stage_e > 0 THEN history["E"] ELSE <<>>
           found == old \o <<c>>
<1>0. /\ at' = IF _completed_stage_e + 1 < FinalSeeds THEN "E" ELSE "done"
      /\ history' = Committed("E", found)
      /\ pending' = build_checkpoint("E", history', skipped')
      /\ UNCHANGED <<mode, phase, skipped, store>>
  BY DEF FinalSeed, Commit
<1>1. /\ skipped \subseteq {"C", "D"}
      /\ DOMAIN history = ({"A", "B", "C", "D"} \ skipped) \cup (DOMAIN history \cap {"E"})
      /\ "E" \in DOMAIN history =>
           Ensemble(history["E"]) /\ Len(history["E"]) < FinalSeeds
      /\ store # None => Holds(store, skipped, history)
  BY RunsIn, Order DEF Stages
<1>2. c \in Cands /\ c.line = _completed_stage_e
  <2>1. _completed_stage_e \in Nat  BY <1>1 DEF _completed_stage_e, Ensemble
  <2>2. PICK cost \in Costs :
          LET kept == Candidate(_completed_stage_e, 0, cost)
          IN c = kept \/ c = [kept EXCEPT !.mark = "raised"]
    BY DEF JointCandidate
  <2>3. cost \in Nat  BY DEF SearchAssumption
  <2>4. \A kept \in Cands : [kept EXCEPT !.mark = "raised"] \in Cands
    BY DEF Cands
  <2>5. \A kept \in Cands : [kept EXCEPT !.mark = "raised"].line = kept.line
    BY DEF Cands
  <2>6. LET kept == Candidate(_completed_stage_e, 0, cost)
        IN kept \in Cands /\ kept.line = _completed_stage_e
    BY <2>1, <2>3 DEF Candidate, Cands
  <2> QED BY <2>2, <2>4, <2>5, <2>6
<1>3. /\ old \in Seq(Cands) /\ Len(old) = _completed_stage_e
      /\ \A k \in 1..Len(old) : old[k].line = k - 1
      /\ "E" \in DOMAIN history => old = history["E"]
  BY <1>1 DEF _completed_stage_e, Ensemble
<1> HIDE DEF old
<1>4. Ensemble(found) /\ Len(found) = _completed_stage_e + 1
  BY <1>2, <1>3 DEF Ensemble, SearchAssumption
<1>5. IsPrefix(old, found)  BY <1>2, <1>3, PrefixOfItself
<1>6. /\ DOMAIN history' = DOMAIN history \cup {"E"} /\ history'["E"] = found
      /\ \A s \in DOMAIN history \ {"E"} : history'[s] = history[s]
  BY <1>0 DEF Committed
<1> HIDE DEF found
<1>7. DOMAIN history' = Stages \ skipped  BY <1>1, <1>6 DEF Stages
<1>8. WellFormed("E", history', skipped')
  BY <1>0, <1>1, <1>4, <1>6, <1>7, Order DEF WellFormed, Stages
<1>9. store # None => Holds(store, skipped', history')
  <2> SUFFICES ASSUME store # None PROVE Holds(store, skipped', history')
    OBVIOUS
  <2>1. Holds(store, skipped, history) /\ Good(store)  BY <1>1 DEF IInv
  <2>2. ASSUME "E" \in DOMAIN store.history
        PROVE  IsPrefix(store.history["E"], history'["E"])
    <3>1. "E" \in DOMAIN history /\ old = history["E"]  BY <1>3, <2>1, <2>2 DEF Holds
    <3>2. Ensemble(store.history["E"])  BY <2>1, <2>2 DEF Good
    <3>3. \/ history["E"] = store.history["E"]
          \/ IsPrefix(store.history["E"], history["E"])
      BY <2>1, <2>2 DEF Holds
    <3> QED BY <1>2, <1>3, <1>5, <1>6, <3>1, <3>2, <3>3, PrefixExtends DEF Ensemble, found
  <2> QED BY <1>0, <1>6, <2>1, <2>2 DEF Holds
<1>10. at' = remaining_stages(pending')
  <2>1. pending'.stage = "E" /\ pending'.skipped = skipped
    BY <1>0 DEF build_checkpoint
  <2>2. pending'.history["E"] = found
    BY <1>0, <1>6 DEF build_checkpoint, Without
  <2>3. _completed_stage_e + 1 < FinalSeeds <=> Len(found) < FinalSeeds  BY <1>4
  <2> QED BY <1>0, <1>1, <2>1, <2>2, <2>3, Follows DEF remaining_stages
<1>11. MemoryInv'
  <2>1. Before(at)' = Before(at')  BY DEF Before
  <2>2. Before("E") = {"A", "B", "C", "D"} /\ Before("done") = Stages  BY Order
  <2>3. Ensemble(history["E"])' /\ Len(history["E"])' = _completed_stage_e + 1
    BY <1>4, <1>6 DEF Ensemble
  <2> QED BY <1>0, <1>1, <1>6, <1>7, <2>1, <2>2, <2>3 DEF MemoryInv, Live, Stages
<1> QED BY <1>0, <1>8, <1>9, <1>10, <1>11, Publishing

-----------------------------------------------------------------------------
(* The other steps.                                                        *)

\* Steps inside a local stage, and none at all.
LEMMA Stays ==
    ASSUME IInv, UNCHANGED <<mode, phase, at, history, skipped, pending, store>>
    PROVE  IInv'
<1>1. Good(pending)' /\ Good(store)'  BY GoodNext DEF IInv
<1>2. MemoryInv'  BY Zenon DEF IInv, MemoryInv, Live, Ensemble, Before
<1>3. KeptInv'  BY ExtendsNext DEF IInv, KeptInv, Live
<1>4. GrowInv'  BY ExtendsNext DEF IInv, GrowInv
<1>5. MirrorInv'  BY Zenon DEF IInv, MirrorInv, TakenUpAlike, Committed, remaining_stages
<1> QED BY <1>1, <1>2, <1>3, <1>4, <1>5 DEF IInv

\* A search that stops, in whatever way, leaves its checkpoints behind.
LEMMA Stops ==
    ASSUME IInv, phase' \notin {"searching", "recovering"}, mode' = mode,
           Good(pending'), Good(store'),
           store' # None => pending' # None /\ Extends(pending', store')
    PROVE  IInv'
<1>1. Good(pending)' /\ Good(store)'  BY GoodNext
<1>2. MemoryInv' /\ KeptInv' /\ MirrorInv'  BY DEF MemoryInv, KeptInv, MirrorInv, Live
<1>3. GrowInv'  BY ExtendsNext DEF GrowInv
<1> QED BY <1>1, <1>2, <1>3 DEF IInv

\* A refused checkpoint, and a search that fails, leave no search behind.
LEMMA RefuseKeeps == ASSUME IInv, BeginSearch, Refuse PROVE IInv'
BY Stops DEF BeginSearch, Refuse, Good

LEMMA FailKeeps == ASSUME IInv, Fail PROVE IInv'
BY Stops DEF Fail, Good

\* The resumed search is where the checkpoint says.
LEMMA ResumedMemory ==
    ASSUME IInv, BeginSearch, Resume, store # None
    PROVE  MemoryInv' /\ at' \notin {"A", "B"} /\ skipped' \cap {"A", "B"} = {}
<1> DEFINE stage == store.stage
           partial == IF mode = "joint" THEN DOMAIN store.history \cap {"E"} ELSE {}
<1>0. /\ phase' = "searching" /\ mode' = mode /\ mode \in Modes
      /\ at' = remaining_stages(store) /\ skipped' = store.skipped
      /\ DOMAIN history' = DOMAIN store.history \cup {"A"}
      /\ \A s \in DOMAIN store.history : history'[s] = store.history[s]
  BY DEF BeginSearch, Resume, IInv
<1>1. /\ Staged(store) /\ _validate_seeds(store)
      /\ mode = "joint" /\ "E" \in DOMAIN store.history => Ensemble(store.history["E"])
  BY DEF IInv, Good
<1>2. /\ stage \in {"B", "C", "D", "E"}
      /\ store.skipped \subseteq UpTo(stage) \ {"A", "B"}
      /\ mode = "single" => DOMAIN store.history = UpTo(stage) \ store.skipped
      /\ mode = "joint" => DOMAIN store.history
                             = (UpTo(stage) \ {"A"}) \ (store.skipped \ partial)
  BY <1>1 DEF Staged, _completed_stage_prefix, _expected_stage_prefix
<1>3. /\ Before(After(stage)) = UpTo(stage)
      /\ "A" \in UpTo(stage) /\ ("E" \in UpTo(stage) <=> stage = "E")
      /\ After(stage) \in {"C", "D", "E", "done"} /\ (After(stage) = "done" <=> stage = "E")
  BY <1>2, Order, Follows DEF Stages
<1>4. /\ mode = "single" => DOMAIN history' = UpTo(stage) \ skipped'
      /\ mode = "joint" =>
           DOMAIN history' = (UpTo(stage) \ skipped') \cup (DOMAIN history' \cap {"E"})
  <2>1. CASE mode = "single"  BY <1>0, <1>2, <1>3, <2>1
  <2>2. CASE mode = "joint"
    <3>1. DOMAIN history' \cap {"E"} = partial  BY <1>0, <2>2
    <3>2. partial \subseteq UpTo(stage)  BY <1>2, <2>2
    <3> QED BY <1>0, <1>2, <1>3, <2>2, <3>1, <3>2
  <2> QED BY <1>0, <2>1, <2>2 DEF Modes
<1>5. ASSUME mode = "joint", "E" \in DOMAIN history'
      PROVE  /\ stage = "E" /\ Ensemble(history'["E"])
             /\ "E" \in skipped' => Len(history'["E"]) < FinalSeeds
  <2>1. "E" \in DOMAIN store.history /\ stage = "E"
    BY <1>0, <1>2, <1>3, <1>5
  <2>2. _joint_seed_prefix(store)  BY <1>1, <1>5 DEF _validate_seeds
  <2> QED BY <1>0, <1>1, <1>5, <2>1, <2>2 DEF _joint_seed_prefix, FinalIds
<1>6. Before(at)' = Before(at') /\ Ensemble(history["E"])' = Ensemble(history'["E"])
  BY DEF Before, Ensemble
<1>7. CASE /\ mode = "joint" /\ stage = "E" /\ "E" \notin store.skipped
           /\ Len(store.history["E"]) < FinalSeeds
  <2>1. at' = "E"  BY <1>0, <1>7 DEF remaining_stages
  <2>2. UpTo(stage) = Before("E") \cup {"E"}  BY <1>7, Order DEF Stages
  <2>3. "E" \in DOMAIN store.history  BY <1>2, <1>3, <1>7
  <2>4. skipped' \subseteq Before("E") \ {"A", "B"}  BY <1>0, <1>2, <1>7, <2>2
  <2>5. DOMAIN history' = (Before(at') \ skipped') \cup (DOMAIN history' \cap {"E"})
    BY <1>0, <1>4, <1>7, <2>1, <2>2, <2>3
  <2>6. Ensemble(history'["E"]) /\ Len(history'["E"]) < FinalSeeds
    BY <1>0, <1>1, <1>7, <2>3
  <2> QED BY <1>0, <1>6, <1>7, <2>1, <2>4, <2>5, <2>6 DEF MemoryInv, Live, Stages
<1>8. CASE at' = After(stage)
  <2>1. Before(at') = UpTo(stage) /\ skipped' \cap {"A", "B"} = {}
    BY <1>0, <1>2, <1>3, <1>8
  <2> QED BY <1>0, <1>2, <1>3, <1>4, <1>5, <1>6, <1>8, <2>1 DEF MemoryInv, Live, Stages, Modes
<1> QED BY <1>0, <1>7, <1>8 DEF remaining_stages

LEMMA ResumeKeeps == ASSUME IInv, BeginSearch, Resume PROVE IInv'
<1>0. mode' = mode /\ store' = store /\ pending' = store /\ phase' = "searching"
  BY DEF BeginSearch, Resume
<1>1. Good(pending') /\ Good(store')  BY <1>0 DEF IInv
<1>2. GrowInv'  BY <1>0, ExtendsItself, ExtendsNext DEF GrowInv
<1>3. CASE store = None
  <2>1. at' = "A" /\ history' = NoStages /\ skipped' = {}  BY <1>3 DEF Resume
  <2>2. DOMAIN history' = {}  BY <2>1 DEF NoStages
  <2>3. Before(at)' = {}  BY <2>1, Order DEF Before
  <2>4. MemoryInv'  BY <1>0, <2>1, <2>2, <2>3 DEF MemoryInv, Live, Stages
  <2> QED BY <1>0, <1>1, <1>2, <1>3, <2>4, GoodNext DEF IInv, KeptInv, MirrorInv
<1>4. CASE store # None
  <2>1. /\ at' = remaining_stages(store) /\ skipped' = store.skipped
        /\ DOMAIN history' = DOMAIN store.history \cup {"A"}
        /\ \A s \in DOMAIN store.history : history'[s] = store.history[s]
    BY <1>4 DEF Resume
  <2>2. Holds(store', skipped', history')  BY <1>0, <2>1 DEF Holds
  <2>3. TakenUpAlike'
    <3>1. remaining_stages(pending)' = remaining_stages(store)
      BY <1>0 DEF remaining_stages
    <3>2. DOMAIN history' \cup {"A"} = DOMAIN pending'.history \cup {"A"}
      BY <1>0, <2>1
    <3>3. \A s \in DOMAIN history' \cup {"A"} : s # "A" => history'[s] = pending'.history[s]
      BY <1>0, <2>1
    <3>4. [s \in DOMAIN history' \cup {"A"} |-> IF s = "A" THEN <<>> ELSE history'[s]]
            = [s \in DOMAIN pending'.history \cup {"A"} |->
                 IF s = "A" THEN <<>> ELSE pending'.history[s]]
      BY <3>2, <3>3
    <3> QED BY <1>0, <2>1, <3>1, <3>4 DEF TakenUpAlike, Committed
  <2>4. KeptInv'  BY <1>0, <2>2, ExtendsNext DEF KeptInv
  <2>5. MirrorInv'  BY <1>4, <2>3, ResumedMemory DEF MirrorInv
  <2> QED BY <1>0, <1>1, <1>2, <1>4, <2>4, <2>5, ResumedMemory, GoodNext DEF IInv
<1> QED BY <1>3, <1>4

LEMMA StageAKeeps == ASSUME IInv, StageA PROVE IInv'
<1>1. ASSUME phase = "searching", at = "A", at' = "B", history' = Committed("A", <<>>),
             UNCHANGED <<mode, phase, skipped, pending, store>>
      PROVE  IInv'
  <2>1. /\ skipped = {} /\ DOMAIN history = {}
    <3>1. mode \in Modes /\ skipped \subseteq {}  BY <1>1, RunsIn, Order DEF Stages
    <3>2. mode = "single" => DOMAIN history = {} \ skipped
      BY <1>1, RunsIn, Order DEF Stages
    <3>3. mode = "joint" => /\ DOMAIN history = ({} \ skipped) \cup (DOMAIN history \cap {"E"})
                            /\ "E" \notin DOMAIN history
      BY <1>1, RunsIn, Order DEF Stages
    <3> QED BY <3>1, <3>2, <3>3 DEF Modes
  <2>2. DOMAIN history' = {"A"}  BY <1>1, <2>1 DEF Committed
  <2>3. pending = None /\ store = None  BY <1>1 DEF IInv, MirrorInv, GrowInv
  <2>4. Before(at)' = {"A"}  BY <1>1, Order DEF Before
  <2>5. MemoryInv'  BY <1>1, <2>1, <2>2, <2>4 DEF MemoryInv, Live, Stages
  <2> QED BY <1>1, <2>3, <2>5, GoodNext DEF IInv, KeptInv, GrowInv, MirrorInv
<1> QED BY <1>1, FailKeeps DEF StageA, Running

LEMMA CommitsKeep ==
    ASSUME SearchAssumption, IInv, WorkInv,
           StageB \/ CommitLocal \/ StageE \/ JointStage \/ _run_stage_e_prefix
    PROVE  IInv'
<1>1. CASE StageB
  <2>1. PICK found, left : Commit("B", found, left, "C")  BY <1>1 DEF StageB
  <2> QED BY <1>1, <2>1, CommitStage, Follows DEF StageB, Running
<1>2. CASE CommitLocal
  <2>1. at \in {"B", "C", "D", "E"} /\ mode = "single"
    BY <1>2 DEF CommitLocal, WorkInv
  <2> QED BY <1>2, <2>1, CommitStage DEF CommitLocal
<1>3. CASE StageE
  <2>1. CASE Fail  BY <2>1, FailKeeps
  <2>2. CASE \E found : Commit("E", found, <<>>, "done")
    BY <1>3, <2>2, CommitStage, Follows DEF StageE, Running
  <2> QED BY <1>3, <2>1, <2>2 DEF StageE
<1>4. CASE JointStage
  <2>1. CASE Fail  BY <2>1, FailKeeps
  <2>2. CASE \E found : Commit(at, found, <<>>, After(at))
    BY <1>4, <2>2, CommitStage DEF JointStage
  <2> QED BY <1>4, <2>1, <2>2 DEF JointStage
<1>5. CASE _run_stage_e_prefix
  <2>1. CASE Fail  BY <2>1, FailKeeps
  <2> QED BY <1>5, <2>1, CommitSeed DEF _run_stage_e_prefix, Running
<1> QED BY <1>1, <1>2, <1>3, <1>4, <1>5

LEMMA SkipKeeps == ASSUME SearchAssumption, IInv, StageSkipped PROVE IInv'
<1>0. /\ phase = "searching" /\ phase' = phase /\ skipped' = skipped \cup {at}
      /\ UNCHANGED <<mode, store>>
  BY DEF StageSkipped
<1>1. CASE SkipToEnd
  <2>1. /\ at \in {"A", "B"} /\ at' = "done"
        /\ UNCHANGED <<history, pending>>
    BY <1>1 DEF SkipToEnd
  <2>2. pending = None /\ store = None  BY <1>0, <2>1 DEF IInv, MirrorInv, GrowInv
  <2>3. mode = "joint" => "E" \notin DOMAIN history  BY <1>0, <2>1, RunsIn DEF Stages
  <2>4. skipped' \subseteq Stages  BY <1>0, <2>1, RunsIn DEF Stages, Before
  <2>5. Before(at)' = Stages  BY <2>1, Order DEF Before
  <2>6. MemoryInv'  BY <1>0, <2>1, <2>3, <2>4, <2>5 DEF MemoryInv, Live
  <2> QED BY <1>0, <2>1, <2>2, <2>6, GoodNext DEF IInv, KeptInv, GrowInv, MirrorInv
<1>2. CASE SkipOn
  <2> DEFINE stage == at
  <2>1. /\ stage \in {"C", "D", "E"} /\ at' = After(stage) /\ history' = history
        /\ pending' = build_checkpoint(stage, history', skipped')
    BY <1>0, <1>2 DEF SkipOn
  <2>2. /\ stage \in Stages /\ Before(at') = UpTo(stage)
        /\ UpTo(stage) = Before(stage) \cup {stage} /\ stage \notin Before(stage)
        /\ at' \in {"D", "E", "done"}
    BY <2>1, NextBefore, Follows DEF Stages
  <2>3. /\ mode \in Modes /\ skipped \subseteq Before(stage) \ {"A", "B"}
        /\ mode = "single" => DOMAIN history = Before(stage) \ skipped
        /\ mode = "joint" =>
             /\ DOMAIN history = (Before(stage) \ skipped) \cup (DOMAIN history \cap {"E"})
             /\ "E" \in DOMAIN history =>
                  stage = "E" /\ Ensemble(history["E"]) /\ Len(history["E"]) < FinalSeeds
        /\ store # None => Holds(store, skipped, history)
    BY <1>0, <2>2, RunsIn
  <2>4. Before(stage) \ skipped = UpTo(stage) \ skipped'
    BY <1>0, <2>2, <2>3
  <2>5. skipped' \subseteq UpTo(stage) \ {"A", "B"}  BY <1>0, <2>1, <2>2, <2>3
  <2>6. WellFormed(stage, history', skipped')
    BY <2>1, <2>3, <2>4, <2>5 DEF WellFormed
  <2>7. store # None => Holds(store, skipped', history')
    BY <1>0, <2>1, <2>3 DEF Holds
  <2>8. at' = remaining_stages(pending')
    <3>1. pending'.stage = stage /\ pending'.skipped = skipped'
      BY <2>1 DEF build_checkpoint
    <3> QED BY <1>0, <2>1, <3>1 DEF remaining_stages
  <2>9. MemoryInv'
    <3>1. /\ Before(at)' = UpTo(stage)
          /\ "E" \in DOMAIN history => Ensemble(history["E"])' = Ensemble(history["E"])
      BY <2>1, <2>2 DEF Before, Ensemble
    <3>2. stage = "E" => at' = "done"  BY <2>1, Follows
    <3>3. /\ at' \in Stages \cup {"done"} /\ skipped' \subseteq Before(at)'
          /\ skipped' \cap {"A", "B"} = {}
      BY <2>2, <2>5, <3>1 DEF Stages
    <3>4. mode' = "single" => DOMAIN history' = Before(at)' \ skipped'
      BY <1>0, <2>1, <2>3, <2>4, <3>1
    <3>5. mode' = "joint" =>
            DOMAIN history' = (Before(at)' \ skipped') \cup (DOMAIN history' \cap {"E"})
      BY <1>0, <2>1, <2>3, <2>4, <3>1
    <3>6. mode' = "joint" /\ "E" \in DOMAIN history' =>
            at' = "done" /\ Ensemble(history["E"])' /\ Len(history'["E"]) < FinalSeeds
      BY <1>0, <2>1, <2>3, <3>1, <3>2
    <3> QED BY <1>0, <3>3, <3>4, <3>5, <3>6 DEF MemoryInv, Live
  <2> QED BY <1>0, <2>1, <2>2, <2>6, <2>7, <2>8, <2>9, Publishing
<1> QED BY <1>1, <1>2 DEF StageSkipped

LEMMA AbortKeeps == ASSUME IInv, Abort PROVE IInv'
<1>1. store' \in {store, pending} /\ pending' = store'  BY DEF Abort
<1> QED BY <1>1, Stops, ExtendsItself DEF Abort, IInv

LEMMA FinishKeeps == ASSUME IInv, Finish PROVE IInv'
<1>1. CASE phase' = "recovering" /\ UNCHANGED store
  <2>1. /\ UNCHANGED <<mode, at, history, skipped, pending, store>>
        /\ phase = "searching" /\ at = "done"
        /\ mode = "single" /\ skipped \cap {"A", "B", "E"} = {}
    BY <1>1 DEF Finish, memory, search_terminated_early
  <2>2. Before(at)' = Before(at)  BY <2>1 DEF Before
  <2>3. MemoryInv'
    BY <1>1, <2>1, <2>2 DEF IInv, MemoryInv, Live
  <2>4. KeptInv'  BY <2>1, ExtendsNext DEF IInv, KeptInv, Live
  <2>5. GrowInv'  BY <2>1, ExtendsNext DEF IInv, GrowInv
  <2> QED BY <1>1, <2>1, <2>3, <2>4, <2>5, GoodNext DEF IInv, MirrorInv
<1>2. CASE phase' = "ended" /\ store' \in {pending, None}
  <2>1. mode' = mode /\ pending' = pending  BY DEF Finish
  <2> QED BY <1>2, <2>1, Stops, ExtendsItself DEF IInv, Good
<1> QED BY <1>1, <1>2 DEF Finish

\* Profile recovery publishes another E after the same stages and skips.
LEMMA RecoveryKeeps ==
    ASSUME SearchAssumption, IInv, continue_profile_basin
    PROVE  IInv' /\ store' = pending' /\ (store # None => store' # None /\ Extends(store', store))
<1>0. /\ phase = "recovering" /\ phase' = "ended" /\ store' = pending'
      /\ mode' = mode /\ skipped' = skipped
  BY DEF continue_profile_basin
<1>1. CASE UNCHANGED <<history, pending>>
  <2>1. pending' = pending  BY <1>1
  <2> QED BY <1>0, <2>1, Stops, ExtendsItself DEF IInv, GrowInv
<1>2. ASSUME NEW rebuilt,
             \E k \in DOMAIN rebuilt : Better(rebuilt[k], Representative(history["E"], DOMAIN history["E"])),
             history' = Committed("E", rebuilt),
             pending' = [build_checkpoint("E", history', skipped)
                           EXCEPT !.seeds = 2 + FinalSeeds]
      PROVE  IInv' /\ store' = pending' /\ (store # None => store' # None /\ Extends(store', store))
  <2>1. /\ mode = "single" /\ at = "done" /\ skipped \cap {"A", "B", "E"} = {}
        /\ skipped \subseteq Stages /\ DOMAIN history = Stages \ skipped
        /\ store # None => Holds(store, skipped, history)
    BY <1>0, Order DEF IInv, MemoryInv, KeptInv, Live
  <2>2. /\ DOMAIN history' = Stages \ skipped /\ history'["E"] = rebuilt
        /\ \A s \in Stages \ {"E"} : s \notin skipped => history'[s] = history[s]
    BY <1>2, <2>1 DEF Committed, Stages
  <2> DEFINE published == build_checkpoint("E", history', skipped)
  <2>3. /\ published = [stage |-> "E", skipped |-> skipped, history |-> history',
                        summaries |-> Summaries(history'), seeds |-> 2 + FinalSeeds]
    BY <2>1 DEF build_checkpoint, _consumed_seeds
  <2>4. pending' = published  BY <1>2, <2>3
  <2>5. WellFormed("E", history', skipped)
    BY <2>1, <2>2, Order DEF WellFormed, Stages
  <2>6. Good(published)  BY <2>1, <2>5, Publishes DEF Modes
  <2>7. published # None  BY NoneHasNoStage
  <2>8. ASSUME store # None PROVE Extends(published, store)
    <3>1. /\ store.skipped \subseteq skipped
          /\ DOMAIN store.history \subseteq Stages \ skipped
          /\ \A s \in DOMAIN store.history : history[s] = store.history[s]
      BY <2>1, <2>8 DEF Holds
    <3>2. published.skipped = skipped /\ published.history = history'
      BY <2>3
    <3> HIDE DEF published
    <3>3. \A s \in DOMAIN store.history : s # "E" => published.history[s] = store.history[s]
      BY <2>2, <3>1, <3>2
    <3>4. "E" \in DOMAIN store.history =>
            \E k \in DOMAIN published.history["E"] :
               Better(published.history["E"][k], Representative(store.history["E"], DOMAIN store.history["E"]))
      BY <1>2, <2>2, <3>1, <3>2
    <3> QED BY <2>1, <2>2, <3>1, <3>2, <3>3, <3>4 DEF Extends
  <2> HIDE DEF published
  <2> QED BY <1>0, <2>4, <2>6, <2>7, <2>8, Stops, ExtendsItself
<1> QED BY <1>1, <1>2 DEF continue_profile_basin

LEMMA WorkKeeps == ASSUME WorkInv, [Next]_vars PROVE WorkInv'
<1>1. CASE BeginSearch
  BY <1>1 DEF BeginSearch, Refuse, Resume, Forget, WorkInv
<1>2. CASE StageSkipped \/ Abort
  BY <1>2 DEF StageSkipped, Abort, Forget, WorkInv
<1>3. CASE StageA \/ Finish \/ continue_profile_basin \/ Over \/ UNCHANGED vars
  BY <1>3 DEF StageA, Running, Fail, Forget, Finish, continue_profile_basin, Over, vars,
     memory, WorkInv
<1>4. CASE StartLocal \/ LocalRound
  BY <1>4 DEF StartLocal, LocalRound, WorkInv
<1>5. CASE StageB \/ CommitLocal \/ StageE \/ JointStage \/ _run_stage_e_prefix
  BY <1>5 DEF StageB, CommitLocal, StageE, JointStage, _run_stage_e_prefix, FinalSeed, Fail,
     Forget, Commit, WorkInv
<1> QED BY <1>1, <1>2, <1>3, <1>4, <1>5 DEF Next, Step

-----------------------------------------------------------------------------
LEMMA InitIInv == Init => IInv /\ WorkInv
BY DEF Init, IInv, Good, MemoryInv, KeptInv, GrowInv, MirrorInv, WorkInv, Live

LEMMA NextIInv ==
    ASSUME SearchAssumption, IInv, WorkInv, [Next]_vars PROVE IInv' /\ WorkInv'
<1>1. IInv'
  <2>1. CASE BeginSearch  BY <2>1, RefuseKeeps, ResumeKeeps DEF BeginSearch
  <2>2. CASE StageA  BY <2>2, StageAKeeps
  <2>3. CASE StageB \/ CommitLocal \/ StageE \/ JointStage \/ _run_stage_e_prefix
    BY <2>3, CommitsKeep
  <2>4. CASE StartLocal \/ LocalRound \/ Over \/ UNCHANGED vars
    BY <2>4, Stays DEF StartLocal, LocalRound, Over, vars, memory
  <2>5. CASE Finish  BY <2>5, FinishKeeps
  <2>6. CASE continue_profile_basin  BY <2>6, RecoveryKeeps
  <2>7. CASE StageSkipped  BY <2>7, SkipKeeps
  <2>8. CASE Abort  BY <2>8, AbortKeeps
  <2> QED
    BY <2>1, <2>2, <2>3, <2>4, <2>5, <2>6, <2>7, <2>8 DEF Next, Step
<1> QED BY <1>1, WorkKeeps

LEMMA Inductive == Spec => [](IInv /\ WorkInv)
<1>1. IInv /\ WorkInv /\ [Next]_vars => (IInv /\ WorkInv)'
  BY NextIInv, SearchAssumption
<1> QED BY <1>1, InitIInv, PTL DEF Spec

\* The step a stored checkpoint can be replaced or given up in.
LEMMA StoreStep ==
    ASSUME SearchAssumption, IInv, [Next]_vars, store # None
    PROVE  IF store' # None THEN Extends(store', store)
           ELSE phase' = "failed" \/ (phase' = "ended" /\ ~HasWinner)
<1>1. pending # None /\ Extends(pending, store)  BY DEF IInv, GrowInv
<1>2. CASE store' = store  BY <1>2, ExtendsItself
<1>3. CASE BeginSearch  BY <1>2, <1>3 DEF BeginSearch, Refuse, Resume
<1>4. CASE Abort  BY <1>1, <1>4, ExtendsItself DEF Abort
<1>5. CASE Finish  BY <1>1, <1>2, <1>5 DEF Finish
<1>6. CASE continue_profile_basin  BY <1>6, RecoveryKeeps
<1>7. CASE Fail  BY <1>7 DEF Fail
<1>8. ASSUME StageA \/ StageE \/ JointStage \/ _run_stage_e_prefix, ~Fail
      PROVE  store' = store
  BY <1>8 DEF StageA, StageE, JointStage, _run_stage_e_prefix, FinalSeed, Commit
<1>9. CASE StageB \/ StartLocal \/ LocalRound \/ CommitLocal \/ StageSkipped \/ Over
             \/ UNCHANGED vars
  BY <1>2, <1>9 DEF StageB, StartLocal, LocalRound, CommitLocal, Commit, StageSkipped,
     Over, vars
<1> QED BY <1>2, <1>3, <1>4, <1>5, <1>6, <1>7, <1>8, <1>9 DEF Next, Step

-----------------------------------------------------------------------------
(* What the operators on candidates return.                                *)

\* The candidates of a local stage: one lineage after another, none marked.
AllKept(found) == found \in Seq(Cands) /\ \A i \in DOMAIN found : found[i].mark = "kept"
Numbered(found, lineages) == Lines(found) = 0 .. lineages - 1
Distinct(found) ==
    found \in Seq(Cands) /\ \A i, j \in DOMAIN found : found[i].line = found[j].line => i = j

\* What a member of a sequence of candidates is.
LEMMA Candidates ==
    ASSUME NEW found \in Seq(Cands)
    PROVE  /\ Len(found) \in Nat /\ DOMAIN found = 1 .. Len(found)
           /\ \A i \in DOMAIN found :
                /\ found[i] \in Cands
                /\ found[i].cost \in Nat /\ found[i].line \in Nat
                /\ found[i].mark \in {"kept", "eliminated", "raised"}
<1>1. /\ Len(found) \in Nat /\ DOMAIN found = 1 .. Len(found)
      /\ \A i \in DOMAIN found : found[i] \in Cands
  OBVIOUS
<1> QED BY <1>1 DEF Cands

\* Places in a sequence are finitely many.
LEMMA Places ==
    ASSUME NEW n \in Nat, NEW group \in SUBSET (1 .. n)
    PROVE  /\ Cardinality(1 .. n) = n
           /\ IsFiniteSet(group) /\ Cardinality(group) \in Nat /\ Cardinality(group) <= n
           /\ (Cardinality(group) = 0 <=> group = {})
           /\ (Cardinality(group) = n => group = 1 .. n)
<1>1. IsFiniteSet(1 .. n) /\ Cardinality(1 .. n) = n
  BY FS_Interval
<1>2. /\ IsFiniteSet(group) /\ Cardinality(group) <= Cardinality(1 .. n)
      /\ Cardinality(1 .. n) = Cardinality(group) => 1 .. n = group
  BY <1>1, FS_Subset
<1>3. Cardinality(group) \in Nat  BY <1>2, FS_CardinalityType
<1>4. Cardinality(group) = 0 <=> group = {}  BY <1>2, FS_EmptySet
<1> QED BY <1>1, <1>2, <1>3, <1>4

\* A group that has a winner has a best one, and nothing in it costs less.
LEMMA BestExists ==
    ASSUME NEW found \in Seq(Cands), NEW group \in SUBSET DOMAIN found,
           group \cap Winners(found) # {}
    PROVE  /\ BestIndex(found, group) \in group \cap Winners(found)
           /\ \A i \in group \cap Winners(found) :
                found[BestIndex(found, group)].cost <= found[i].cost
<1> DEFINE W == group \cap Winners(found)
           costs == {found[i].cost : i \in W}
<1>1. W \in SUBSET Nat /\ \A i \in W : found[i].cost \in Nat
  BY Candidates
<1>2. costs \in SUBSET Nat /\ costs # {}
  BY <1>1
<1>3. PICK c \in costs : \A d \in costs : c <= d
  BY <1>2, Least
<1>4. \A i \in W : c <= found[i].cost
  BY <1>3
<1> DEFINE cheapest == {i \in W : found[i].cost = c}
<1>5. cheapest \in SUBSET Nat /\ cheapest # {}
  BY <1>1, <1>3
<1>6. PICK i \in cheapest : \A j \in cheapest : i <= j
  BY <1>5, Least
<1>7. ASSUME NEW j \in W
      PROVE  Better(found[i], found[j]) \/ (found[i].cost = found[j].cost /\ i <= j)
  <2>1. found[i].cost = c /\ c <= found[j].cost /\ c \in Nat /\ found[j].cost \in Nat
    BY <1>1, <1>2, <1>4, <1>6
  <2>2. found[j].cost = c => i <= j  BY <1>6
  <2> QED BY <2>1, <2>2 DEF Better
<1>8. i \in W  BY <1>6
<1> HIDE DEF W
<1>9. \E k \in W : \A j \in W :
        Better(found[k], found[j]) \/ (found[k].cost = found[j].cost /\ k <= j)
  BY <1>7, <1>8
<1>10. /\ BestIndex(found, group) \in W
       /\ \A j \in W : \/ Better(found[BestIndex(found, group)], found[j])
                      \/ found[BestIndex(found, group)].cost = found[j].cost
  BY <1>9 DEF BestIndex, W
<1>11. \A j \in W : found[BestIndex(found, group)].cost <= found[j].cost
  <2> SUFFICES ASSUME NEW j \in W PROVE found[BestIndex(found, group)].cost <= found[j].cost
    OBVIOUS
  <2>1. found[BestIndex(found, group)].cost \in Nat /\ found[j].cost \in Nat
    BY <1>1, <1>10 DEF W
  <2> QED BY <1>10, <2>1 DEF Better
<1> QED BY <1>10, <1>11 DEF W

\* A lineage is carried on by one of its candidates.
LEMMA RepresentativeOf ==
    ASSUME NEW found \in Seq(Cands), NEW group \in SUBSET DOMAIN found, group # {}
    PROVE  \E i \in group : Representative(found, group) = found[i]
<1>1. CASE group \cap Winners(found) = {}
  <2>1. group \in SUBSET Nat  BY Candidates
  <2>2. \E i \in group : \A j \in group : i <= j  BY <2>1, Least
  <2> QED BY <1>1, <2>2 DEF Representative
<1>2. CASE group \cap Winners(found) # {}
  BY <1>2, BestExists DEF Representative
<1> QED BY <1>1, <1>2

\* The cost a round orders the lineages by is a number.
LEMMA LineCosts ==
    ASSUME SearchAssumption, NEW found \in Seq(Cands), NEW line
    PROVE  LineCost(found, line) \in Nat
<1> DEFINE group == Group(found, line)
<1>1. group \in SUBSET DOMAIN found  BY DEF Group
<1>2. CASE group \cap Winners(found) = {}
  BY <1>2 DEF LineCost, BestCost, SearchAssumption
<1>3. CASE group \cap Winners(found) # {}
  <2>1. BestIndex(found, group) \in DOMAIN found  BY <1>1, <1>3, BestExists
  <2>2. LineCost(found, line) = found[BestIndex(found, group)].cost
    BY <1>3 DEF LineCost, BestCost
  <2> QED BY <2>1, <2>2, Candidates
<1> QED BY <1>2, <1>3

\* The stage that was committed last before another one.
LEMMA Parents ==
    ASSUME NEW h, "B" \in DOMAIN h
    PROVE  /\ committed_parent(h, "B") = "B"
           /\ committed_parent(h, "C") = IF "C" \in DOMAIN h THEN "C" ELSE "B"
           /\ committed_parent(h, "D") = IF "D" \in DOMAIN h THEN "D"
                                         ELSE IF "C" \in DOMAIN h THEN "C" ELSE "B"
<1>1. UpTo("B") \ {"A"} = {"B"} /\ UpTo("C") \ {"A"} = {"B", "C"}
      /\ UpTo("D") \ {"A"} = {"B", "C", "D"}
  BY Order
<1>2. Place["B"] = 2 /\ Place["C"] = 3 /\ Place["D"] = 4
  BY DEF Place
<1>3. committed_parent(h, "B") = "B"
  BY <1>1, <1>2 DEF committed_parent
<1>4. committed_parent(h, "C") = IF "C" \in DOMAIN h THEN "C" ELSE "B"
  BY <1>1, <1>2 DEF committed_parent
<1>5. committed_parent(h, "D") = IF "D" \in DOMAIN h THEN "D"
                                 ELSE IF "C" \in DOMAIN h THEN "C" ELSE "B"
  BY <1>1, <1>2 DEF committed_parent
<1> QED BY <1>3, <1>4, <1>5

\* The order in which stage B hands out restarts.
LEMMA ArchiveRanks ==
    ASSUME NEW found, Distinct(found)
    PROVE  LET active == Active(found)
               rank == [i \in active |-> ArchiveRank(found, i)]
           IN /\ IsFiniteSet(active) /\ Cardinality(active) \in Nat
              /\ rank \in Bijection(active, 0 .. Cardinality(active) - 1)
<1> DEFINE active == Active(found)
           before == [i \in active |-> {j \in active :
                        \/ Better(found[j], found[i])
                        \/ found[j].cost = found[i].cost /\ found[j].line < found[i].line}]
<1>1. /\ found \in Seq(Cands) /\ active \in SUBSET DOMAIN found
      /\ \A i, j \in active : found[i].line = found[j].line => i = j
  BY DEF Distinct, Active
<1>2. \A i \in active : found[i].cost \in Nat /\ found[i].line \in Nat
  BY <1>1, Candidates
<1>3. IsFiniteSet(active) /\ Cardinality(active) \in Nat
  <2>1. Len(found) \in Nat /\ active \in SUBSET (1 .. Len(found))
    BY <1>1, Candidates
  <2> HIDE DEF active
  <2> QED BY <2>1, Places
<1> HIDE DEF active
<1>4. \A i \in active : \A j :
        j \in before[i] <=>
          /\ j \in active
          /\ \/ found[j].cost < found[i].cost
             \/ found[j].cost = found[i].cost /\ found[j].line < found[i].line
  BY DEF Better
<1>5. DOMAIN before = active  OBVIOUS
<1> HIDE DEF before
<1>6. ASSUME NEW i \in active PROVE before[i] \subseteq active \ {i}
  BY <1>2, <1>4
<1>7. ASSUME NEW i \in active, NEW j \in active, i # j
      PROVE  i \in before[j] \/ j \in before[i]
  BY <1>1, <1>2, <1>4, <1>7
<1>8. ASSUME NEW i \in active, NEW j \in active, i \in before[j]
      PROVE  before[i] \subseteq before[j]
  <2> SUFFICES ASSUME NEW k \in before[i] PROVE k \in before[j]
    OBVIOUS
  <2>1. k \in active  BY <1>4
  <2> QED BY <1>2, <1>4, <1>8, <2>1
<1>9. Ordered(before)
  BY <1>3, <1>5, <1>6, <1>7, <1>8 DEF Ordered
<1>10. [i \in active |-> Cardinality(before[i])]
         \in Bijection(active, 0 .. Cardinality(active) - 1)
  BY <1>5, <1>9, Ranks
<1>11. \A i \in active : Cardinality(before[i]) = ArchiveRank(found, i)
  BY DEF ArchiveRank, before, active
<1> QED BY <1>3, <1>10, <1>11 DEF active

\* Whatever is dealt out round-robin is all dealt out.
LEMMA Dealt ==
    ASSUME NEW n \in Nat, NEW q \in Nat, NEW more \in Nat, more <= n,
           NEW rank \in Bijection(1 .. n, 0 .. n - 1)
    PROVE  LET numbers == [k \in 1 .. n |-> q + (IF rank[k] < more THEN 1 ELSE 0)]
           IN Total(numbers) = n * q + more
<1> DEFINE numbers == [k \in 1 .. n |-> q + (IF rank[k] < more THEN 1 ELSE 0)]
           lucky(m) == {k \in 1 .. m : rank[k] < more}
           s == [k \in 0 .. n |-> k * q + Cardinality(lucky(k))]
<1>1. /\ \A k \in 1 .. n : rank[k] \in 0 .. n - 1
      /\ \A j, k \in 1 .. n : rank[j] = rank[k] => j = k
      /\ \A r \in 0 .. n - 1 : \E k \in 1 .. n : rank[k] = r
  BY DEF Bijection, Injection, IsInjective, Surjection
<1>2. numbers \in Seq(Int) /\ Len(numbers) = n
  OBVIOUS
<1>3. \A m \in Nat : IsFiniteSet(lucky(m)) /\ Cardinality(lucky(m)) \in Nat
  BY Places
<1>4. \A k \in 0 .. n : k * q \in Nat
  OBVIOUS
<1>5. s \in [0 .. n -> Int]
  <2> HIDE DEF lucky
  <2>1. \A k \in 0 .. n : k * q + Cardinality(lucky(k)) \in Int  BY <1>3, <1>4
  <2> QED BY <2>1
<1>6. s[0] = 0
  <2>1. lucky(0) = {}  OBVIOUS
  <2>2. Cardinality(lucky(0)) = 0  BY <2>1, FS_EmptySet
  <2>3. 0 * q = 0 /\ 0 \in 0 .. n  OBVIOUS
  <2> HIDE DEF lucky
  <2> QED BY <2>2, <2>3
<1>7. ASSUME NEW k \in 1 .. n PROVE s[k] = s[k - 1] + numbers[k]
  <2>1. k - 1 \in 0 .. n /\ k \in 0 .. n /\ k - 1 \in Nat  OBVIOUS
  <2>2. k * q = (k - 1) * q + q  OBVIOUS
  <2>3. Cardinality(lucky(k)) = Cardinality(lucky(k - 1)) + (IF rank[k] < more THEN 1 ELSE 0)
    <3>1. CASE rank[k] < more
      <4>1. lucky(k) = lucky(k - 1) \cup {k} /\ k \notin lucky(k - 1)  BY <3>1
      <4>2. IsFiniteSet(lucky(k - 1))  BY <1>3, <2>1
      <4> HIDE DEF lucky
      <4> QED BY <3>1, <4>1, <4>2, FS_AddElement
    <3>2. CASE ~(rank[k] < more)
      <4>1. lucky(k) = lucky(k - 1)  BY <3>2
      <4>2. Cardinality(lucky(k - 1)) \in Nat  BY <1>3, <2>1
      <4> HIDE DEF lucky
      <4> QED BY <3>2, <4>1, <4>2
    <3> QED BY <3>1, <3>2
  <2>4. /\ (k - 1) * q \in Nat /\ k * q \in Nat
        /\ Cardinality(lucky(k)) \in Nat /\ Cardinality(lucky(k - 1)) \in Nat
    <3> HIDE DEF lucky, s, numbers
    <3>1. (k - 1) * q \in Nat  BY <1>4, <2>1
    <3>2. k * q \in Nat  BY <1>4, <2>1
    <3>3. k \in Nat  OBVIOUS
    <3>4. Cardinality(lucky(k)) \in Nat  BY <1>3, <3>3
    <3>5. Cardinality(lucky(k - 1)) \in Nat  BY <1>3, <2>1
    <3> QED BY <3>1, <3>2, <3>4, <3>5
  <2>5. numbers[k] = q + (IF rank[k] < more THEN 1 ELSE 0)  OBVIOUS
  <2>6. s[k] = k * q + Cardinality(lucky(k))
        /\ s[k - 1] = (k - 1) * q + Cardinality(lucky(k - 1))
    BY <2>1
  <2> HIDE DEF s, lucky, numbers
  <2> QED BY <2>2, <2>3, <2>4, <2>5, <2>6
<1>8. Total(numbers) = s[n]
  <2> HIDE DEF numbers, s
  <2> QED BY <1>2, <1>5, <1>6, <1>7, TotalIs
<1>9. Cardinality(lucky(n)) = more
  <2> DEFINE share == [k \in lucky(n) |-> rank[k]]
  <2>1. share \in [lucky(n) -> 0 .. more - 1]
    BY <1>1
  <2>2. \A j, k \in lucky(n) : share[j] = share[k] => j = k
    BY <1>1
  <2>3. \A r \in 0 .. more - 1 : \E k \in lucky(n) : share[k] = r
    <3> TAKE r \in 0 .. more - 1
    <3>1. r \in 0 .. n - 1  OBVIOUS
    <3>2. PICK k \in 1 .. n : rank[k] = r  BY <1>1, <3>1
    <3> QED BY <3>2
  <2>4. IsFiniteSet(lucky(n))  BY <1>3
  <2> HIDE DEF lucky
  <2> HIDE DEF share
  <2>5. share \in Bijection(lucky(n), 0 .. more - 1)
    BY <2>1, <2>2, <2>3 DEF Bijection, Injection, IsInjective, Surjection
  <2>6. ExistsBijection(lucky(n), 0 .. more - 1)
    BY <2>5 DEF ExistsBijection
  <2>7. Cardinality(0 .. more - 1) = Cardinality(lucky(n))
    BY <2>4, <2>6, FS_Bijection
  <2> QED BY <2>7, FS_Interval
<1>10. s[n] = n * q + more
  <2>1. n \in 0 .. n  OBVIOUS
  <2> HIDE DEF lucky
  <2> QED BY <1>9, <2>1
<1> QED BY <1>8, <1>10

\* The sizes of the lineages add up to the candidates.
LEMMA Sizes ==
    ASSUME NEW found \in Seq(Cands), NEW n \in Nat, Numbered(found, n)
    PROVE  LET sizes == [k \in 1 .. n |-> Cardinality(Group(found, k - 1)) - 1]
           IN /\ sizes \in Seq(Nat) /\ Total(sizes) = Len(found) - n
              /\ \A k \in 1 .. n : Group(found, k - 1) # {}
<1> DEFINE sizes == [k \in 1 .. n |-> Cardinality(Group(found, k - 1)) - 1]
           upTo(m) == {i \in DOMAIN found : found[i].line < m}
           s == [k \in 0 .. n |-> Cardinality(upTo(k)) - k]
<1>1. /\ Len(found) \in Nat /\ DOMAIN found = 1 .. Len(found)
      /\ \A i \in DOMAIN found : found[i].line \in 0 .. n - 1
      /\ \A l \in 0 .. n - 1 : \E i \in DOMAIN found : found[i].line = l
  BY Candidates DEF Numbered, Lines
<1>2. \A m : IsFiniteSet(upTo(m)) /\ Cardinality(upTo(m)) \in Nat
  <2> TAKE m
  <2>1. upTo(m) \in SUBSET (1 .. Len(found))  BY <1>1
  <2> HIDE DEF upTo
  <2> QED BY <1>1, <2>1, Places
<1>3. ASSUME NEW k \in 1 .. n
      PROVE  /\ IsFiniteSet(Group(found, k - 1)) /\ Cardinality(Group(found, k - 1)) \in Nat \ {0}
             /\ Group(found, k - 1) # {}
             /\ Cardinality(upTo(k)) = Cardinality(upTo(k - 1)) + Cardinality(Group(found, k - 1))
  <2> DEFINE group == Group(found, k - 1)
  <2>1. group \in SUBSET (1 .. Len(found))  BY <1>1 DEF Group
  <2>2. k - 1 \in 0 .. n - 1  OBVIOUS
  <2>3. group # {}  BY <1>1, <2>2 DEF Group
  <2>4. upTo(k) = upTo(k - 1) \cup group /\ upTo(k - 1) \cap group = {}
    BY <1>1 DEF Group
  <2> HIDE DEF group, upTo
  <2>5. IsFiniteSet(group) /\ Cardinality(group) \in Nat \ {0}
    BY <1>1, <2>1, <2>3, Places
  <2>6. Cardinality(upTo(k)) =
          Cardinality(upTo(k - 1)) + Cardinality(group) - Cardinality({})
    BY <1>2, <2>4, <2>5, FS_Union
  <2>7. Cardinality({}) = 0  BY FS_EmptySet
  <2> QED BY <1>2, <2>3, <2>5, <2>6, <2>7 DEF group
<1> HIDE DEF upTo
<1>4. \A k \in 1 .. n : Cardinality(Group(found, k - 1)) - 1 \in Nat
  <2> TAKE k \in 1 .. n
  <2>1. Cardinality(Group(found, k - 1)) \in Nat \ {0}  BY <1>3
  <2> QED BY <2>1
<1>5. sizes \in Seq(Nat) /\ Len(sizes) = n /\ sizes \in Seq(Int)
  BY <1>4
<1>6. s \in [0 .. n -> Int]
  BY <1>2
<1>7. s[0] = 0
  <2>1. upTo(0) = {}  BY <1>1 DEF upTo
  <2>2. s[0] = Cardinality(upTo(0)) - 0
    <3>1. 0 \in 0 .. n  OBVIOUS
    <3> QED BY <3>1
  <2>3. Cardinality(upTo(0)) = 0  BY <2>1, FS_EmptySet
  <2> HIDE DEF s
  <2> QED BY <2>2, <2>3
<1>8. ASSUME NEW k \in 1 .. n PROVE s[k] = s[k - 1] + sizes[k]
  <2>1. k \in 0 .. n /\ k - 1 \in 0 .. n  OBVIOUS
  <2>2. s[k] = Cardinality(upTo(k)) - k /\ s[k - 1] = Cardinality(upTo(k - 1)) - (k - 1)
        /\ sizes[k] = Cardinality(Group(found, k - 1)) - 1
    BY <2>1
  <2> HIDE DEF s, sizes
  <2> QED BY <1>2, <1>3, <2>2
<1>9. Total(sizes) = s[n]
  <2> HIDE DEF s, sizes
  <2> QED BY <1>5, <1>6, <1>7, <1>8, TotalIs
<1>10. upTo(n) = 1 .. Len(found)  BY <1>1 DEF upTo
<1>11. s[n] = Len(found) - n
  <2>1. Cardinality(1 .. Len(found)) = Len(found)  BY <1>1, Places
  <2>2. n \in 0 .. n  OBVIOUS
  <2> QED BY <1>10, <2>1, <2>2
<1> QED BY <1>3, <1>5, <1>9, <1>11

\* No number adds up to nothing.
LEMMA EmptyTotal == Total(<<>>) = 0
<1> DEFINE s == [k \in 0 .. 0 |-> 0]
<1>1. <<>> \in Seq(Int) /\ Len(<<>>) = 0  OBVIOUS
<1>2. s \in [0 .. Len(<<>>) -> Int] /\ s[0] = 0  OBVIOUS
<1> HIDE DEF s
<1>3. \A k \in 1 .. Len(<<>>) : s[k] = s[k - 1] + <<>>[k]  BY <1>1
<1>4. Total(<<>>) = s[Len(<<>>)]  BY <1>1, <1>2, <1>3, TotalIs
<1> QED BY <1>1, <1>2, <1>4

\* Arithmetic that the steps above a product lean on.
LEMMA Products == \A x, y \in Nat : x * y \in Nat
OBVIOUS

\* A multiple is a number, and no smaller.
LEMMA Scaled ==
    ASSUME NEW x \in Nat, NEW y \in Nat
    PROVE  (y + 1) * x \in Nat /\ x <= (y + 1) * x
OBVIOUS

\* Quotient and remainder.
LEMMA Division ==
    ASSUME NEW x \in Nat, NEW n \in Nat \ {0}
    PROVE  x \div n \in Nat /\ x % n \in 0 .. n - 1 /\ n * (x \div n) + (x % n) = x
OBVIOUS

\* What goes on from stage B: the active candidates, each with a share of the
\* budget, and no share is lost.
LEMMA FromB ==
    ASSUME SearchAssumption, NEW found, Distinct(found)
    PROVE  LET next == _ordered_stage_b_continuation(found)
               a == Cardinality(Active(found))
           IN /\ a \in Nat /\ a <= Len(found) /\ Len(next.parents) = a
              /\ a = 0 => next.parents = <<>>
              /\ \A k \in DOMAIN next.parents : \E i \in Active(found) :
                   next.parents[k] = found[i]
              /\ Total(next.counts) \in Nat
              /\ a > 0 => a + Total(next.counts) = (BasePerturbations + 1) * Len(found)
<1> DEFINE active == Active(found)
           a == Cardinality(active)
           places == [i \in DOMAIN found |-> i]
           order == Chosen(places, active)
           next == _ordered_stage_b_continuation(found)
<1> SUFFICES /\ a \in Nat /\ a <= Len(found) /\ Len(next.parents) = a
             /\ a = 0 => next.parents = <<>>
             /\ \A k \in DOMAIN next.parents : \E i \in active : next.parents[k] = found[i]
             /\ Total(next.counts) \in Nat
             /\ a > 0 => a + Total(next.counts) = (BasePerturbations + 1) * Len(found)
  OBVIOUS
<1>1. /\ found \in Seq(Cands) /\ active \in SUBSET DOMAIN found
      /\ Len(found) \in Nat /\ DOMAIN found = 1 .. Len(found)
  BY Candidates DEF Distinct, Active
<1>2. IsFiniteSet(active) /\ a \in Nat /\ a <= Len(found)
  <2> HIDE DEF active
  <2> QED BY <1>1, Places
<1>3. /\ next.parents = Chosen(found, active)
      /\ next.counts = [k \in DOMAIN order |->
           _reclaimed_perturbation_counts(a, Len(found) - a, ArchiveRank(found, order[k]))]
  BY DEF _ordered_stage_b_continuation
<1> HIDE DEF next
<1>4. places \in Seq(Nat) /\ DOMAIN places = DOMAIN found /\ \A i \in DOMAIN found : places[i] = i
  BY <1>1
<1> HIDE DEF places
<1>5. PICK of : /\ Numbers(of, active)
                /\ Chosen(found, active) = [k \in 1 .. a |-> found[of[k]]]
  <2> HIDE DEF active
  <2> QED BY <1>1, ChosenFacts
<1>6. PICK to : /\ Numbers(to, active)
                /\ order = [k \in 1 .. a |-> places[to[k]]]
  <2> HIDE DEF active
  <2> DEFINE T == Nat
  <2>1. active \in SUBSET DOMAIN places /\ places \in Seq(T)  BY <1>1, <1>4
  <2> HIDE DEF T
  <2> QED BY <2>1, ChosenFacts
<1> HIDE DEF order
<1>7. /\ Len(next.parents) = a /\ (a = 0 => next.parents = <<>>)
      /\ \A k \in DOMAIN next.parents : \E i \in active : next.parents[k] = found[i]
  <2> HIDE DEF active
  <2>1. \A k \in 1 .. a : of[k] \in active  BY <1>5 DEF Numbers
  <2> QED BY <1>2, <1>3, <1>5, <2>1
<1>8. DOMAIN order = 1 .. a /\ Numbers(order, active)
  <2> HIDE DEF active
  <2>1. \A k \in 1 .. a : to[k] \in active /\ to[k] \in DOMAIN found
    BY <1>1, <1>6 DEF Numbers
  <2>2. \A k \in 1 .. a : order[k] = to[k]  BY <1>4, <1>6, <2>1
  <2> HIDE DEF a
  <2>3. DOMAIN order = 1 .. a /\ order = [k \in 1 .. a |-> order[k]]  BY <1>6
  <2>4. order \in [1 .. a -> active]  BY <2>1, <2>2, <2>3
  <2> QED BY <1>6, <2>2, <2>3, <2>4 DEF Numbers, a
<1>9. CASE a = 0
  <2>1. next.counts = <<>>  BY <1>3, <1>8, <1>9
  <2>2. Total(next.counts) = 0  BY <2>1, EmptyTotal
  <2> HIDE DEF a, active
  <2> QED BY <1>2, <1>7, <1>9, <2>2
<1>10. CASE a > 0
  <2> DEFINE extra == (BasePerturbations + 1) * (Len(found) - a)
             q == BasePerturbations + (extra \div a)
             more == extra % a
             rank == [k \in 1 .. a |-> ArchiveRank(found, order[k])]
  <2>1. extra \in Nat /\ BasePerturbations \in Nat
    <3>1. Len(found) - a \in Nat /\ BasePerturbations + 1 \in Nat
      BY <1>1, <1>2 DEF SearchAssumption
    <3> QED BY <3>1, Products DEF SearchAssumption
  <2>2. /\ extra \div a \in Nat /\ more \in Nat /\ more <= a
        /\ a * (extra \div a) + more = extra
    <3> HIDE DEF extra, a
    <3>1. a \in Nat \ {0} /\ extra \in Nat  BY <1>2, <1>10, <2>1
    <3> QED BY <3>1, Division
  <2>3. rank \in Bijection(1 .. a, 0 .. a - 1)
    <3>1. [i \in active |-> ArchiveRank(found, i)] \in Bijection(active, 0 .. a - 1)
      BY ArchiveRanks
    <3> DEFINE r == [i \in active |-> ArchiveRank(found, i)]
    <3>2. \A i \in active : r[i] = ArchiveRank(found, i)  OBVIOUS
    <3>3. \A k \in 1 .. a : order[k] \in active  BY <1>8 DEF Numbers
    <3> HIDE DEF r, active
    <3>4. \A k \in 1 .. a : rank[k] = r[order[k]]  BY <3>2, <3>3
    <3>5. /\ \A i \in active : r[i] \in 0 .. a - 1
          /\ \A i, j \in active : r[i] = r[j] => i = j
          /\ \A m \in 0 .. a - 1 : \E i \in active : r[i] = m
      BY <3>1 DEF Bijection, Injection, IsInjective, Surjection, r
    <3>6. /\ \A j, k \in 1 .. a : order[j] = order[k] => j = k
          /\ \A i \in active : \E k \in 1 .. a : order[k] = i
      BY <1>8 DEF Numbers
    <3>7. DOMAIN rank = 1 .. a /\ rank = [k \in 1 .. a |-> rank[k]]
      OBVIOUS
    <3> HIDE DEF a, rank
    <3>8. rank \in [1 .. a -> 0 .. a - 1]
      BY <3>3, <3>4, <3>5, <3>7
    <3>9. \A j, k \in 1 .. a : rank[j] = rank[k] => j = k
      BY <3>3, <3>4, <3>5, <3>6
    <3>10. \A m \in 0 .. a - 1 : \E k \in 1 .. a : rank[k] = m
      BY <3>3, <3>4, <3>5, <3>6
    <3> QED BY <3>8, <3>9, <3>10 DEF Bijection, Injection, IsInjective, Surjection
  <2>4. next.counts = [k \in 1 .. a |-> q + (IF rank[k] < more THEN 1 ELSE 0)]
    <3>1. \A k \in 1 .. a : _reclaimed_perturbation_counts(a, Len(found) - a,
                                                         ArchiveRank(found, order[k]))
                              = q + (IF rank[k] < more THEN 1 ELSE 0)
      BY DEF _reclaimed_perturbation_counts
    <3> HIDE DEF a, q, rank, more
    <3> QED BY <1>3, <1>8, <3>1
  <2>5. q \in Nat  BY <2>1, <2>2
  <2> DEFINE eq == extra \div a
  <2>6. q = BasePerturbations + eq /\ eq \in Nat /\ a * eq + more = extra  BY <2>2
  <2> HIDE DEF q, more, rank, a, eq
  <2>7. Total(next.counts) = a * q + more
    <3>1. a \in Nat /\ q \in Nat /\ more \in Nat /\ more <= a
      BY <1>2, <2>2, <2>5 DEF more
    <3> QED BY <2>3, <2>4, <3>1, Dealt
  <2>8. a * q + more = a * BasePerturbations + extra
    BY <1>2, <2>1, <2>2, <2>5, <2>6
  <2>9. a + (a * BasePerturbations + extra) = (BasePerturbations + 1) * Len(found)
    BY <1>1, <1>2, <2>1
  <2>10. a * BasePerturbations \in Nat  BY <1>2, <2>1, Products
  <2> HIDE DEF extra
  <2>11. Total(next.counts) \in Nat
    BY <1>2, <2>1, <2>7, <2>8, <2>10
  <2> HIDE DEF active
  <2> QED BY <1>2, <1>7, <2>7, <2>8, <2>9, <2>11
<1> HIDE DEF a
<1> QED BY <1>2, <1>9, <1>10

\* What goes on from a local stage: one candidate of each lineage, with what
\* the lineage took from the pool.
LEMMA FromLocal ==
    ASSUME NEW found, AllKept(found), NEW n \in Nat, Numbered(found, n), NEW given
    PROVE  LET next == local_stage_continuation(found, given)
               sizes == [k \in 1 .. n |-> Cardinality(Group(found, k - 1)) - 1]
           IN /\ n <= Len(found) /\ Len(found) \in Nat
              /\ Len(next.parents) = n /\ (n = 0 => next.parents = <<>>)
              /\ \A k \in DOMAIN next.parents : next.parents[k].mark = "kept"
              /\ next.counts = IF given # <<>> THEN given ELSE sizes
              /\ sizes \in Seq(Nat) /\ Total(sizes) = Len(found) - n
<1> DEFINE next == local_stage_continuation(found, given)
           sizes == [k \in 1 .. n |-> Cardinality(Group(found, k - 1)) - 1]
<1>1. /\ found \in Seq(Cands) /\ Len(found) \in Nat /\ DOMAIN found = 1 .. Len(found)
      /\ \A i \in DOMAIN found : found[i].mark = "kept"
  BY Candidates DEF AllKept
<1>2. Lines(found) = 0 .. n - 1 /\ Cardinality(0 .. n - 1) = n
  BY FS_Interval DEF Numbered
<1>3. n <= Len(found)
  <2> DEFINE first == [l \in 0 .. n - 1 |-> CHOOSE i \in DOMAIN found : found[i].line = l]
  <2>1. \A l \in 0 .. n - 1 : \E i \in DOMAIN found : found[i].line = l
    BY <1>2 DEF Lines
  <2>2. \A l \in 0 .. n - 1 : first[l] \in DOMAIN found /\ found[first[l]].line = l
    BY <2>1
  <2>3. first \in [0 .. n - 1 -> 1 .. Len(found)]
    BY <1>1, <2>1
  <2> HIDE DEF first
  <2>4. first \in Injection(0 .. n - 1, 1 .. Len(found))
    <3>1. \A l, m \in 0 .. n - 1 : first[l] = first[m] => l = m  BY <2>2
    <3>2. DOMAIN first = 0 .. n - 1  BY <2>3
    <3>3. IsInjective(first)  BY <3>1, <3>2 DEF IsInjective
    <3> QED BY <2>3, <3>3 DEF Injection
  <2>5. IsFiniteSet(1 .. Len(found)) /\ Cardinality(1 .. Len(found)) = Len(found)
    BY <1>1, Places
  <2>6. Cardinality(0 .. n - 1) <= Cardinality(1 .. Len(found))
    BY <2>4, <2>5, FS_Injection
  <2> QED BY <1>2, <2>5, <2>6
<1>4. /\ sizes \in Seq(Nat) /\ Total(sizes) = Len(found) - n
      /\ \A k \in 1 .. n : Group(found, k - 1) # {}
  BY <1>1, Sizes
<1>5. /\ next.parents = [k \in 1 .. n |-> Representative(found, Group(found, k - 1))]
      /\ next.counts = IF given # <<>> THEN given ELSE sizes
  BY <1>2 DEF local_stage_continuation
<1>6. ASSUME NEW k \in 1 .. n
      PROVE  Representative(found, Group(found, k - 1)).mark = "kept"
  <2> DEFINE group == Group(found, k - 1)
  <2>1. group \in SUBSET DOMAIN found  BY DEF Group
  <2>2. group # {}  BY <1>4
  <2> HIDE DEF group
  <2>3. PICK i \in group : Representative(found, group) = found[i]
    BY <1>1, <2>1, <2>2, RepresentativeOf
  <2> QED BY <1>1, <2>1, <2>3 DEF group
<1> HIDE DEF next, sizes
<1>7. /\ Len(next.parents) = n /\ (n = 0 => next.parents = <<>>)
      /\ \A k \in DOMAIN next.parents : next.parents[k].mark = "kept"
  BY <1>5, <1>6
<1> QED BY <1>1, <1>3, <1>4, <1>5, <1>7 DEF next, sizes

\* Stage B as it is published: what is archived is marked, nothing else is.
Archived(found) ==
    /\ Distinct(found)
    /\ \A i \in DOMAIN found :
         found[i].mark = IF i \in Active(found) THEN "kept" ELSE "eliminated"

\* What can be selected of a published stage B is what is active.
LEMMA ArchivedWinners ==
    ASSUME NEW found, Archived(found) PROVE Winners(found) = Active(found)
BY DEF Archived, Active, Winners, Selectable

\* The archive changes marks only, so a resume finds the same active ones and
\* deals the budget as it was dealt.
LEMMA Archiving ==
    ASSUME NEW found, Distinct(found), \A i \in DOMAIN found : found[i].mark = "kept"
    PROVE  LET marked == archive_stage_b_candidates(found)
           IN /\ Archived(marked)
              /\ stage_b_continuation(marked, OutcomeCounts(found))
                   = stage_b_continuation(marked, <<>>)
<1> DEFINE marked == archive_stage_b_candidates(found)
           n == Len(found)
<1>1. /\ found \in Seq(Cands) /\ n \in Nat /\ DOMAIN found = 1 .. n
      /\ \A i \in DOMAIN found : found[i] \in Cands
      /\ \A i, j \in DOMAIN found : found[i].line = found[j].line => i = j
  BY Candidates DEF Distinct
<1>2. marked = [i \in DOMAIN found |->
                  IF i \in Active(found) THEN found[i]
                  ELSE [found[i] EXCEPT !.mark = "eliminated"]]
  BY DEF archive_stage_b_candidates
<1> HIDE DEF marked
<1>3. DOMAIN marked = 1 .. n  BY <1>1, <1>2
<1>4. ASSUME NEW i \in 1 .. n
      PROVE  /\ marked[i] \in Cands
             /\ marked[i].line = found[i].line /\ marked[i].cost = found[i].cost
             /\ marked[i].mark = IF i \in Active(found) THEN "kept" ELSE "eliminated"
  <2>1. found[i] \in Cands /\ i \in DOMAIN found  BY <1>1
  <2>2. \A c \in Cands : /\ [c EXCEPT !.mark = "eliminated"] \in Cands
                          /\ [c EXCEPT !.mark = "eliminated"].line = c.line
                          /\ [c EXCEPT !.mark = "eliminated"].cost = c.cost
                          /\ [c EXCEPT !.mark = "eliminated"].mark = "eliminated"
    BY DEF Cands
  <2>3. marked[i] = IF i \in Active(found) THEN found[i]
                    ELSE [found[i] EXCEPT !.mark = "eliminated"]
    BY <1>2, <2>1
  <2>4. found[i].mark = "kept"  BY <2>1
  <2> QED BY <2>1, <2>2, <2>3, <2>4
<1>5. marked \in Seq(Cands) /\ Len(marked) = n
  <2>1. marked = [i \in 1 .. n |-> marked[i]]  BY <1>1, <1>2
  <2> HIDE DEF n
  <2> QED BY <1>1, <1>4, <2>1
<1>6. Active(marked) = Active(found)
  <2> DEFINE active(f) == {i \in 1 .. n : /\ f[i].cost < Infinite
                             /\ \A j \in 1 .. n : f[i].cost <= ThresholdRatio * f[j].cost}
  <2>1. Active(marked) = active(marked) /\ Active(found) = active(found)
    BY <1>1, <1>3 DEF Active, Finite
  <2>2. active(marked) = active(found)  BY <1>4
  <2> QED BY <2>1, <2>2
<1>7. Archived(marked)
  <2>1. Distinct(marked)  BY <1>1, <1>3, <1>4, <1>5 DEF Distinct
  <2> QED BY <1>3, <1>4, <1>6, <2>1 DEF Archived
<1>8. _ordered_stage_b_continuation(marked).counts = OutcomeCounts(found)
  <2> DEFINE active == Active(found)
             places == [i \in 1 .. n |-> i]
             order == Chosen(places, active)
             a == Cardinality(active)
  <2>1. /\ _ordered_stage_b_continuation(found).counts
             = [k \in DOMAIN order |->
                  _reclaimed_perturbation_counts(a, n - a, ArchiveRank(found, order[k]))]
        /\ _ordered_stage_b_continuation(marked).counts
             = [k \in DOMAIN order |->
                  _reclaimed_perturbation_counts(a, n - a, ArchiveRank(marked, order[k]))]
    BY <1>1, <1>3, <1>5, <1>6 DEF _ordered_stage_b_continuation
  <2>2. ASSUME NEW i \in active PROVE ArchiveRank(found, i) = ArchiveRank(marked, i)
    <3>1. active \subseteq 1 .. n  BY <1>1 DEF Active
    <3> DEFINE before(f) == {j \in active :
                               \/ f[j].cost < f[i].cost
                               \/ f[j].cost = f[i].cost /\ f[j].line < f[i].line}
    <3>2. ArchiveRank(found, i) = Cardinality(before(found))
          /\ ArchiveRank(marked, i) = Cardinality(before(marked))
      BY <1>6 DEF ArchiveRank, Better
    <3> HIDE DEF active
    <3>3. before(found) = before(marked)  BY <1>4, <3>1
    <3> QED BY <3>2, <3>3
  <2>3. \A k \in DOMAIN order : order[k] \in active
    <3>1. active \in SUBSET (1 .. n)  BY <1>1 DEF Active
    <3> DEFINE T == Nat
    <3>2. /\ places \in Seq(T) /\ active \in SUBSET DOMAIN places
          /\ \A i \in 1 .. n : places[i] = i
      BY <1>1, <3>1
    <3> HIDE DEF active, places, T
    <3>3. PICK of : /\ Numbers(of, active)
                    /\ order = [k \in 1 .. Cardinality(active) |-> places[of[k]]]
      BY <3>1, <3>2, ChosenFacts
    <3> QED BY <3>1, <3>2, <3>3 DEF Numbers
  <2> HIDE DEF order, active
  <2> QED BY <2>1, <2>2, <2>3 DEF OutcomeCounts
<1>9. Winners(marked) = Active(marked)  BY <1>7, ArchivedWinners
<1>10. _ordered_stage_b_continuation(marked)
         = [parents |-> Chosen(marked, Winners(marked)), counts |-> OutcomeCounts(found)]
  BY <1>8, <1>9 DEF _ordered_stage_b_continuation
<1>11. stage_b_continuation(marked, OutcomeCounts(found)) = stage_b_continuation(marked, <<>>)
  BY <1>10 DEF stage_b_continuation
<1> QED BY <1>7, <1>11 DEF marked

-----------------------------------------------------------------------------
(* What is known of the candidates of a search of one dataset.             *)

\* A local stage is complete and has spent no more than stage B left.
Refines(found, base) ==
    /\ AllKept(found)
    /\ \E n \in Nat : Numbered(found, n)
    /\ Len(found) <= (BasePerturbations + 1) * Len(base)

Documented(h) ==
    /\ "B" \in DOMAIN h => Archived(h["B"])
    /\ \A s \in {"C", "D"} : s \in DOMAIN h => "B" \in DOMAIN h /\ Refines(h[s], h["B"])

\* The first round of a local stage has one candidate of each lineage.
RoundInv ==
    work # NoWork =>
        /\ {"lineages", "total", "starts", "found"} \subseteq DOMAIN work
        /\ work.lineages \in Nat /\ work.total \in Nat /\ work.starts \in Nat
        /\ AllKept(work.found)
        /\ work.found # <<>> => Numbered(work.found, work.lineages)
        /\ work.lineages <= work.total

DataInv ==
    mode = "single" =>
        /\ Live => Documented(history)
        /\ pending # None => Documented(pending.history)
        /\ store # None => Documented(store.history)
        /\ RoundInv /\ BudgetKept
        /\ phase = "searching" => ContinuedAlike

\* Only the stages B, C and D count.
LEMMA DocumentedAlike ==
    ASSUME NEW g, NEW h, Documented(g),
           \A s \in {"B", "C", "D"} : /\ s \in DOMAIN h <=> s \in DOMAIN g
                                      /\ s \in DOMAIN g => h[s] = g[s]
    PROVE  Documented(h)
BY DEF Documented

\* A search that does not run a local stage after the step.
LEMMA DataNext ==
    ASSUME mode' = mode, work' = NoWork,
           mode = "single" =>
             /\ Live' => Documented(history')
             /\ pending' # None => Documented(pending'.history)
             /\ store' # None => Documented(store'.history)
             /\ phase' = "searching" /\ at' \in {"C", "D"} => Continuation(counts)' = Continuation(<<>>)'
    PROVE  DataInv'
<1>1. RoundInv' /\ BudgetKept'
  BY DEF RoundInv, BudgetKept, NoWork
<1>2. mode' = "single" /\ phase' = "searching" => ContinuedAlike'
  BY DEF ContinuedAlike
<1>3. /\ Documented(history)' = Documented(history')
      /\ Documented(pending.history)' = Documented(pending'.history)
      /\ Documented(store.history)' = Documented(store'.history)
      /\ None' = None
  BY DEF Documented, None
<1> QED BY <1>1, <1>2, <1>3 DEF DataInv

\* A step that ends a local stage or is none: nothing is dealt out yet.
LEMMA NothingGiven ==
    ASSUME counts' = <<>> PROVE Continuation(counts)' = Continuation(<<>>)'
BY DEF Continuation

\* One round: lineages of the stage, no more than the pool has left.
LEMMA RoundFacts ==
    ASSUME SearchAssumption, RoundInv, work # NoWork, Len(work.found) <= work.total
    PROVE  /\ next_local_round \in Seq(0 .. work.lineages - 1)
           /\ Len(next_local_round) + Len(work.found) <= work.total
           /\ \A k, m \in DOMAIN next_local_round :
                next_local_round[k] = next_local_round[m] => k = m
           /\ work.found = <<>> => next_local_round = [k \in 1 .. work.lineages |-> k - 1]
<1>1. /\ work.lineages \in Nat /\ work.total \in Nat /\ work.starts \in Nat
      /\ work.found \in Seq(Cands) /\ work.lineages <= work.total
      /\ Len(work.found) \in Nat
  BY DEF RoundInv, AllKept
<1>2. CASE work.found = <<>>
  <2>1. next_local_round = [k \in 1 .. work.lineages |-> k - 1]
    BY <1>2 DEF next_local_round
  <2>2. Len(work.found) = 0  BY <1>2
  <2> DEFINE T == 0 .. work.lineages - 1
             n == work.lineages
             first == [k \in 1 .. n |-> k - 1]
  <2>3. first \in [1 .. n -> T]  BY <1>1
  <2>4. n \in Nat /\ next_local_round = first  BY <1>1, <2>1
  <2> HIDE DEF T, first
  <2>5. first \in Seq(T) /\ Len(first) = n  BY <2>3, <2>4
  <2>6. Len(next_local_round) + Len(work.found) <= work.total
    BY <1>1, <2>2, <2>4, <2>5
  <2>7. \A k, m \in DOMAIN first : first[k] = first[m] => k = m
    BY <2>4 DEF first
  <2> QED BY <2>1, <2>4, <2>5, <2>6, <2>7 DEF T
<1>3. CASE work.found # <<>>
  <2> DEFINE lines == 0 .. work.lineages - 1
             eligible == {l \in lines : /\ Cardinality(Group(work.found, l)) < work.starts
                                        /\ LineCost(work.found, l) < Infinite}
             cost == [l \in eligible |-> LineCost(work.found, l)]
             before == [l \in eligible |->
                {m \in eligible : cost[m] < cost[l] \/ (cost[m] = cost[l] /\ m < l)}]
             order == InOrder(before)
             left == work.total - Len(work.found)
  <2>1. next_local_round = SubSeq(order, 1, IF left < Len(order) THEN left ELSE Len(order))
    BY <1>3 DEF next_local_round
  <2>2. eligible \in SUBSET lines /\ IsFiniteSet(eligible)
    <3>1. IsFiniteSet(lines)
      <4>1. 0 \in Int /\ work.lineages - 1 \in Int  BY <1>1
      <4> HIDE DEF eligible, cost, before, order, left
      <4> QED BY <4>1, FS_Interval
    <3>2. eligible \in SUBSET lines  OBVIOUS
    <3> HIDE DEF eligible, lines
    <3> QED BY <3>1, <3>2, FS_Subset
  <2>3. \A l \in eligible : cost[l] \in Nat
    BY <1>1, LineCosts
  <2> HIDE DEF cost, eligible
  <2>4. /\ DOMAIN before = eligible
        /\ \A l \in eligible : \A m :
             m \in before[l] <=> /\ m \in eligible
                                 /\ cost[m] < cost[l] \/ (cost[m] = cost[l] /\ m < l)
    OBVIOUS
  <2> HIDE DEF before
  <2>5. Ordered(before)
    <3>1. \A l \in eligible : l \in Nat  BY <1>1, <2>2
    <3>2. \A l \in eligible : before[l] \subseteq eligible \ {l}
      BY <2>3, <2>4, <3>1
    <3>3. \A l, m \in eligible : l # m => l \in before[m] \/ m \in before[l]
      BY <2>3, <2>4, <3>1
    <3>4. ASSUME NEW l \in eligible, NEW m \in eligible, l \in before[m]
          PROVE  before[l] \subseteq before[m]
      <4> SUFFICES ASSUME NEW k \in before[l] PROVE k \in before[m]
        OBVIOUS
      <4>1. k \in eligible  BY <2>4
      <4> QED BY <2>3, <2>4, <3>1, <3>4, <4>1
    <3> QED BY <2>2, <2>4, <3>2, <3>3, <3>4 DEF Ordered
  <2>6. /\ Cardinality(eligible) \in Nat
        /\ order \in [1 .. Cardinality(eligible) -> eligible]
        /\ \A k, m \in 1 .. Cardinality(eligible) : order[k] = order[m] => k = m
    <3>1. order \in Bijection(1 .. Cardinality(eligible), eligible)
          /\ Cardinality(eligible) \in Nat
      BY <2>4, <2>5, InOrderFacts
    <3> HIDE DEF order
    <3>2. order \in [1 .. Cardinality(eligible) -> eligible] /\ IsInjective(order)
      BY <3>1 DEF Bijection, Injection
    <3> QED BY <3>1, <3>2 DEF IsInjective
  <2> HIDE DEF order
  <2>7. order \in Seq(lines) /\ Len(order) = Cardinality(eligible)
    <3>1. \A k \in 1 .. Cardinality(eligible) : order[k] \in lines  BY <2>2, <2>6
    <3> HIDE DEF lines
    <3> QED BY <2>6, <3>1
  <2>8. left \in Nat /\ Len(order) \in Nat  BY <1>1, <2>7
  <2> DEFINE m == IF left < Len(order) THEN left ELSE Len(order)
  <2>9. m \in 0 .. Len(order) /\ m <= left  BY <2>8
  <2> HIDE DEF m, lines
  <2>10. /\ SubSeq(order, 1, m) \in Seq(lines) /\ Len(SubSeq(order, 1, m)) = m
         /\ DOMAIN SubSeq(order, 1, m) = 1 .. m
         /\ \A k \in 1 .. m : SubSeq(order, 1, m)[k] = order[k]
    BY <2>7, <2>9
  <2>11. next_local_round = SubSeq(order, 1, m)
    BY <2>1 DEF m
  <2>12. \A k, j \in 1 .. m : order[k] = order[j] => k = j
    BY <2>6, <2>7, <2>8, <2>9
  <2>13. /\ next_local_round \in Seq(lines) /\ Len(next_local_round) = m
         /\ \A k, j \in DOMAIN next_local_round :
              next_local_round[k] = next_local_round[j] => k = j
    BY <2>10, <2>11, <2>12
  <2>14. Len(next_local_round) + Len(work.found) <= work.total
    BY <1>1, <2>8, <2>9, <2>13
  <2> QED BY <1>3, <2>13, <2>14 DEF lines
<1> QED BY <1>2, <1>3

\* A local stage begins with a start for each lineage and the whole pool.
LEMMA StartKeeps ==
    ASSUME SearchAssumption, IInv, DataInv, StartLocal PROVE DataInv'
<1> DEFINE next == Continuation(counts)
           pool == Total(next.counts)
           p == committed_parent(history, Nominal[at])
           lineages == Len(next.parents)
<1>1. /\ phase = "searching" /\ at \in {"C", "D"} /\ mode = "single"
      /\ UNCHANGED <<mode, phase, at, history, counts, pending, store>>
      /\ Documented(history) /\ ContinuedAlike
      /\ pending # None => Documented(pending.history)
      /\ store # None => Documented(store.history)
  BY DEF StartLocal, DataInv, Live
<1>2. PICK free \in BOOLEAN :
        work' = [stage |-> at, lineages |-> lineages,
                 total |-> lineages + (IF free /\ next.parents # <<>> THEN pool ELSE 0),
                 starts |-> IF free THEN pool + 1 ELSE 1,
                 found |-> <<>>]
  BY DEF StartLocal
<1>3. "B" \in DOMAIN history /\ p \in DOMAIN history
      /\ p = IF at = "C" THEN "B" ELSE IF "C" \in DOMAIN history THEN "C" ELSE "B"
  <2>1. DOMAIN history = Before(at) \ skipped /\ skipped \subseteq Before(at) \ {"A", "B"}
    BY <1>1, RunsIn DEF Stages
  <2>2. "B" \in DOMAIN history  BY <1>1, <2>1, Order
  <2> QED BY <1>1, <2>2, Parents DEF Nominal
<1>4. next = IF p = "B" THEN stage_b_continuation(history[p], <<>>)
             ELSE local_stage_continuation(history[p], <<>>)
  BY <1>1 DEF ContinuedAlike, Continuation, _stage_continuation
<1> DEFINE whole == (IF p = "B" THEN BasePerturbations + 1 ELSE 1) * Len(history[p])
           most == (BasePerturbations + 1) * Len(history["B"])
<1>5. /\ lineages \in Nat /\ pool \in Nat /\ most \in Nat
      /\ lineages <= most
      /\ lineages > 0 => lineages + pool = whole /\ whole <= most
      /\ lineages = 0 => next.parents = <<>>
  <2>0. BasePerturbations \in Nat  BY DEF SearchAssumption
  <2>1. CASE p = "B"
    <3>1. Archived(history["B"])  BY <1>1, <1>3 DEF Documented
    <3>2. Distinct(history["B"]) /\ Len(history["B"]) \in Nat
      BY <3>1, Candidates DEF Archived, Distinct
    <3>3. next = _ordered_stage_b_continuation(history["B"])
      BY <1>4, <2>1 DEF stage_b_continuation
    <3>4. /\ lineages \in Nat /\ lineages <= Len(history["B"]) /\ pool \in Nat
          /\ lineages = 0 => next.parents = <<>>
          /\ lineages > 0 => lineages + pool = most
      BY <3>2, <3>3, FromB
    <3>5. Len(history["B"]) <= most /\ most \in Nat
      BY <2>0, <3>2, Scaled
    <3> HIDE DEF next
    <3>6. whole = most  BY <2>1
    <3> HIDE DEF lineages, pool, most, whole
    <3> QED BY <3>2, <3>4, <3>5, <3>6
  <2>2. CASE p = "C"
    <3>1. Archived(history["B"]) /\ Refines(history["C"], history["B"])
      BY <1>1, <1>3, <2>2 DEF Documented
    <3>2. PICK n \in Nat : Numbered(history["C"], n)  BY <3>1 DEF Refines
    <3>3. /\ AllKept(history["C"]) /\ Len(history["C"]) <= most
      BY <3>1 DEF Refines
    <3>4. Len(history["B"]) \in Nat  BY <3>1, Candidates DEF Archived, Distinct
    <3>5. next = local_stage_continuation(history["C"], <<>>)  BY <1>4, <2>2
    <3> DEFINE sizes == [k \in 1 .. n |-> Cardinality(Group(history["C"], k - 1)) - 1]
    <3>6. /\ n <= Len(history["C"]) /\ Len(history["C"]) \in Nat /\ lineages = n
          /\ n = 0 => next.parents = <<>>
          /\ next.counts = sizes /\ Total(sizes) = Len(history["C"]) - n
      <4> DEFINE found == history["C"]
                 given == <<>>
      <4>1. next = local_stage_continuation(found, given) /\ ~(given # <<>>)  BY <3>5
      <4>2. AllKept(found) /\ Numbered(found, n)  BY <3>2, <3>3
      <4> HIDE DEF next, found, given
      <4>3. /\ n <= Len(found) /\ Len(found) \in Nat /\ Len(next.parents) = n
            /\ n = 0 => next.parents = <<>>
            /\ next.counts = IF given # <<>> THEN given
                             ELSE [k \in 1 .. n |-> Cardinality(Group(found, k - 1)) - 1]
            /\ Total([k \in 1 .. n |-> Cardinality(Group(found, k - 1)) - 1]) = Len(found) - n
        BY <4>1, <4>2, FromLocal
      <4> QED BY <4>1, <4>3 DEF found
    <3>7. pool = Len(history["C"]) - n
      <4> HIDE DEF sizes, next
      <4> QED BY <3>6
    <3>8. most \in Nat  BY <2>0, <3>4, Scaled
    <3>9. whole = Len(history["C"])  BY <2>2, <3>6
    <3> HIDE DEF next, lineages, pool, most, whole, sizes
    <3> QED BY <3>2, <3>3, <3>6, <3>7, <3>8, <3>9
  <2> HIDE DEF next
  <2> QED BY <1>3, <2>1, <2>2
<1> HIDE DEF next, whole, most
<1>6. /\ work'.lineages = lineages /\ work'.found = <<>>
      /\ work'.total = lineages + (IF free /\ next.parents # <<>> THEN pool ELSE 0)
      /\ work'.starts = IF free THEN pool + 1 ELSE 1
      /\ {"lineages", "total", "starts", "found"} \subseteq DOMAIN work'
  BY <1>2
<1>7. lineages > 0 => next.parents # <<>>
  OBVIOUS
<1> HIDE DEF lineages, pool
<1>8. RoundInv'
  <2>1. AllKept(<<>>)  BY DEF AllKept
  <2> QED BY <1>5, <1>6, <2>1 DEF RoundInv, AllKept
<1>9. BudgetKept'
  <2>1. /\ Len(<<>>) <= work'.total
        /\ work'.lineages > 0 /\ work'.starts > 1 => work'.total = whole
        /\ work'.total <= most
    <3>1. Len(<<>>) = 0  OBVIOUS
    <3> QED BY <1>5, <1>6, <1>7, <3>1
  <2>2. committed_parent(history', Nominal[at']) = p /\ history' = history
    BY <1>1
  <2> QED BY <1>6, <2>1, <2>2 DEF BudgetKept, whole, most, committed_parent
<1>10. ContinuedAlike'
  BY <1>1 DEF ContinuedAlike, Continuation
<1>11. /\ Documented(history)' = Documented(history')
       /\ (pending # None => Documented(pending.history))'
       /\ (store # None => Documented(store.history))'
       /\ Documented(history')
  BY <1>1 DEF Documented, None
<1> QED BY <1>8, <1>9, <1>10, <1>11 DEF DataInv

\* A round adds one candidate to each of its lineages, which it numbers.
LEMMA RoundAdds ==
    ASSUME SearchAssumption, WorkInv, DataInv, LocalRound
    PROVE  /\ next_local_round \in Seq(0 .. work.lineages - 1)
           /\ Len(next_local_round) + Len(work.found) <= work.total
           /\ work.found = <<>> => next_local_round = [k \in 1 .. work.lineages |-> k - 1]
           /\ \A k, m \in DOMAIN next_local_round :
                next_local_round[k] = next_local_round[m] => k = m
           /\ work.found \in Seq(Cands)
           /\ \E new \in Seq(Cands) :
                /\ Len(new) = Len(next_local_round)
                /\ \A k \in 1 .. Len(new) :
                     /\ new[k].line = next_local_round[k] /\ new[k].mark = "kept"
                     /\ new[k].round = Cardinality(Group(work.found, next_local_round[k]))
                /\ work' = [work EXCEPT !.found = work.found \o new]
<1> DEFINE round == next_local_round
           lines == 0 .. work.lineages - 1
<1>1. work # NoWork /\ mode = "single" /\ RoundInv /\ BudgetKept
  BY DEF LocalRound, WorkInv, DataInv
<1>2. PICK cost \in [DOMAIN round -> Refined] :
        work' = [work EXCEPT !.found = @ \o [k \in DOMAIN round |->
          LET l == round[k] IN Candidate(l, Cardinality(Group(work.found, l)), cost[k])]]
  BY DEF LocalRound
<1> DEFINE new == [k \in DOMAIN round |->
                     LET l == round[k] IN Candidate(l, Cardinality(Group(work.found, l)), cost[k])]
<1>3. /\ work.lineages \in Nat /\ work.found \in Seq(Cands)
      /\ Len(work.found) <= work.total
      /\ Len(work.found) \in Nat /\ DOMAIN work.found = 1 .. Len(work.found)
  <2>1. work.lineages \in Nat /\ work.found \in Seq(Cands)
    BY <1>1 DEF RoundInv, AllKept
  <2> QED BY <1>1, <2>1, Candidates DEF BudgetKept
<1>4. /\ round \in Seq(lines) /\ Len(round) + Len(work.found) <= work.total
      /\ work.found = <<>> => round = [k \in 1 .. work.lineages |-> k - 1]
      /\ \A k, m \in DOMAIN round : round[k] = round[m] => k = m
  BY <1>1, <1>3, RoundFacts
<1>5. DOMAIN round = 1 .. Len(round) /\ Len(round) \in Nat
      /\ \A k \in DOMAIN round : round[k] \in lines
  <2> HIDE DEF round, lines
  <2> QED BY <1>4
<1> HIDE DEF round
<1>6. /\ DOMAIN new = 1 .. Len(round)
      /\ \A k \in 1 .. Len(round) :
           /\ new[k] \in Cands /\ new[k].line = round[k] /\ new[k].mark = "kept"
           /\ new[k].round = Cardinality(Group(work.found, round[k]))
  <2> SUFFICES ASSUME NEW k \in 1 .. Len(round)
               PROVE  /\ new[k] \in Cands /\ new[k].line = round[k] /\ new[k].mark = "kept"
                      /\ new[k].round = Cardinality(Group(work.found, round[k]))
    BY <1>5
  <2>1. Group(work.found, round[k]) \in SUBSET (1 .. Len(work.found))
    <3> HIDE DEF new
    <3> QED BY <1>3 DEF Group
  <2>2. Cardinality(Group(work.found, round[k])) \in Nat
    <3> DEFINE group == Group(work.found, round[k])
               n == Len(work.found)
    <3>1. n \in Nat /\ group \in SUBSET (1 .. n)  BY <1>3, <2>1
    <3> HIDE DEF group, n, new
    <3>2. Cardinality(group) \in Nat  BY <3>1, Places
    <3> QED BY <3>2 DEF group
  <2>3. round[k] \in Nat  BY <1>3, <1>5
  <2>4. cost[k] \in Nat
    <3>1. cost[k] \in Refined  BY <1>5
    <3> QED BY <3>1 DEF SearchAssumption
  <2>5. new[k] = Candidate(round[k], Cardinality(Group(work.found, round[k])), cost[k])
    BY <1>5
  <2> HIDE DEF new
  <2> QED BY <2>2, <2>3, <2>4, <2>5 DEF Candidate, Cands
<1>7. new \in Seq(Cands) /\ Len(new) = Len(round)
  <2>1. new = [k \in 1 .. Len(round) |-> new[k]]  BY <1>5
  <2> HIDE DEF new
  <2> QED BY <1>5, <1>6, <2>1
<1>8. work' = [work EXCEPT !.found = work.found \o new]  BY <1>2
<1> HIDE DEF new, lines
<1> QED BY <1>3, <1>4, <1>6, <1>7, <1>8 DEF round, lines

\* A round adds a candidate to some lineages: to all of them in the first.
LEMMA RoundKeeps ==
    ASSUME SearchAssumption, WorkInv, DataInv, LocalRound PROVE DataInv'
<1> DEFINE round == next_local_round
           lines == 0 .. work.lineages - 1
<1>1. /\ work # NoWork /\ phase = "searching" /\ mode = "single"
      /\ UNCHANGED <<mode, phase, at, history, counts, pending, store>>
      /\ Documented(history) /\ ContinuedAlike /\ RoundInv /\ BudgetKept
      /\ pending # None => Documented(pending.history)
      /\ store # None => Documented(store.history)
  BY DEF LocalRound, WorkInv, DataInv, Live
<1>3. /\ work.lineages \in Nat /\ work.total \in Nat /\ work.starts \in Nat
      /\ work.found \in Seq(Cands) /\ work.lineages <= work.total
      /\ \A i \in DOMAIN work.found : work.found[i].mark = "kept"
      /\ work.found # <<>> => Lines(work.found) = lines
      /\ Len(work.found) <= work.total
      /\ Len(work.found) \in Nat /\ DOMAIN work.found = 1 .. Len(work.found)
  <2>1. /\ work.lineages \in Nat /\ work.total \in Nat /\ work.starts \in Nat
        /\ AllKept(work.found) /\ work.lineages <= work.total
        /\ work.found # <<>> => Numbered(work.found, work.lineages)
    BY <1>1 DEF RoundInv
  <2>2. Len(work.found) <= work.total  BY <1>1 DEF BudgetKept
  <2> QED BY <2>1, <2>2, Candidates DEF AllKept, Numbered
<1>4. /\ round \in Seq(lines) /\ Len(round) + Len(work.found) <= work.total
      /\ work.found = <<>> => round = [k \in 1 .. work.lineages |-> k - 1]
  BY RoundAdds
<1>5. DOMAIN round = 1 .. Len(round) /\ Len(round) \in Nat
      /\ \A k \in DOMAIN round : round[k] \in lines
  <2> HIDE DEF round, lines
  <2> QED BY <1>4
<1>2. PICK new \in Seq(Cands) :
        /\ Len(new) = Len(round)
        /\ \A k \in 1 .. Len(new) : new[k].line = round[k] /\ new[k].mark = "kept"
        /\ work' = [work EXCEPT !.found = work.found \o new]
  BY RoundAdds
<1> HIDE DEF round
<1> DEFINE found == work.found \o new
<1>6. \A k \in 1 .. Len(round) : new[k].line = round[k] /\ new[k].mark = "kept"
  BY <1>2
<1>8. /\ found \in Seq(Cands) /\ Len(found) = Len(work.found) + Len(round)
      /\ DOMAIN found = 1 .. Len(work.found) + Len(round)
      /\ \A i \in 1 .. Len(work.found) : found[i] = work.found[i]
      /\ \A k \in 1 .. Len(round) : found[Len(work.found) + k] = new[k]
      /\ \A i \in 1 .. Len(work.found) + Len(round) :
           i \in 1 .. Len(work.found) \/ \E k \in 1 .. Len(round) : i = Len(work.found) + k
  <2> DEFINE T == Cands
             old == work.found
  <2>1. old \in Seq(T) /\ new \in Seq(T)  BY <1>2, <1>3
  <2> HIDE DEF T, old
  <2>2. /\ old \o new \in Seq(T) /\ Len(old \o new) = Len(old) + Len(new)
        /\ DOMAIN (old \o new) = 1 .. Len(old) + Len(new)
        /\ \A i \in 1 .. Len(old) : (old \o new)[i] = old[i]
        /\ \A k \in 1 .. Len(new) : (old \o new)[Len(old) + k] = new[k]
        /\ \A i \in 1 .. Len(old) + Len(new) :
             i \in 1 .. Len(old) \/ \E k \in 1 .. Len(new) : i = Len(old) + k
    BY <2>1, Joined
  <2>3. found = old \o new  BY DEF old
  <2> HIDE DEF found
  <2> QED BY <1>2, <2>2, <2>3 DEF old, T
<1> HIDE DEF found
<1>9. \A i \in DOMAIN found : i \in 1 .. Len(work.found)
                              \/ \E k \in 1 .. Len(round) : i = Len(work.found) + k
  BY <1>8
<1>10. AllKept(found)
  <2> SUFFICES ASSUME NEW i \in DOMAIN found PROVE found[i].mark = "kept"
    BY <1>8 DEF AllKept
  <2>1. CASE i \in 1 .. Len(work.found)  BY <1>3, <1>8, <2>1
  <2>2. CASE \E k \in 1 .. Len(round) : i = Len(work.found) + k
    <3>1. PICK k \in 1 .. Len(round) : i = Len(work.found) + k  BY <2>2
    <3>2. found[i] = new[k] /\ new[k].mark = "kept"  BY <1>6, <1>8, <3>1
    <3> QED BY <3>2
  <2> QED BY <1>9, <2>1, <2>2
<1>11. found # <<>> => Lines(found) = lines
  <2>1. ASSUME NEW l \in Lines(found) PROVE l \in lines
    <3>1. PICK i \in DOMAIN found : l = found[i].line  BY DEF Lines
    <3>2. CASE i \in 1 .. Len(work.found)
      <4>1. work.found # <<>>  BY <1>3, <3>2
      <4>2. found[i].line \in Lines(work.found)  BY <1>3, <1>8, <3>2 DEF Lines
      <4> QED BY <1>3, <3>1, <4>1, <4>2
    <3>3. CASE \E k \in 1 .. Len(round) : i = Len(work.found) + k
      <4>1. PICK k \in 1 .. Len(round) : i = Len(work.found) + k  BY <3>3
      <4>2. found[i] = new[k] /\ new[k].line = round[k]  BY <1>6, <1>8, <4>1
      <4> QED BY <1>5, <3>1, <4>2
    <3> QED BY <1>9, <3>2, <3>3
  <2>2. ASSUME NEW l \in lines PROVE l \in Lines(found)
    <3>1. CASE work.found # <<>>
      <4>1. PICK i \in DOMAIN work.found : l = work.found[i].line
        BY <1>3, <3>1 DEF Lines
      <4>2. i \in DOMAIN found /\ found[i] = work.found[i]
        BY <1>3, <1>5, <1>8
      <4> QED BY <4>1, <4>2 DEF Lines
    <3>2. CASE work.found = <<>>
      <4>1. Len(work.found) = 0  BY <3>2
      <4>2. l + 1 \in 1 .. work.lineages /\ Len(round) = work.lineages /\ (l + 1) - 1 = l
        BY <1>3, <1>4, <3>2
      <4>3. round[l + 1] = l  BY <1>4, <3>2, <4>2
      <4>4. l + 1 \in DOMAIN found /\ found[l + 1] = new[l + 1]
        BY <1>5, <1>8, <4>1, <4>2
      <4>5. found[l + 1].line = l  BY <1>6, <4>2, <4>3, <4>4
      <4> QED BY <4>4, <4>5 DEF Lines
    <3> QED BY <3>1, <3>2
  <2> HIDE DEF lines
  <2> QED BY <2>1, <2>2
<1>12. /\ work'.found = found /\ work'.lineages = work.lineages
       /\ work'.total = work.total /\ work'.starts = work.starts
       /\ DOMAIN work' = DOMAIN work
  <2>1. work' = [work EXCEPT !.found = found]  BY <1>2 DEF found
  <2>2. {"lineages", "total", "starts", "found"} \subseteq DOMAIN work
    BY <1>1 DEF RoundInv
  <2>3. DOMAIN work' = DOMAIN work  BY <2>1
  <2> QED BY <2>1, <2>2, <2>3
<1>13. Len(found) <= work.total  BY <1>3, <1>4, <1>5, <1>8
<1>14. RoundInv'
  <2>1. found # <<>> => Numbered(work'.found, work'.lineages)
    BY <1>11, <1>12 DEF Numbered
  <2>2. AllKept(work'.found)  BY <1>10, <1>12
  <2>3. {"lineages", "total", "starts", "found"} \subseteq DOMAIN work'
    BY <1>1, <1>12 DEF RoundInv
  <2>4. AllKept(work.found)' = AllKept(work'.found)
        /\ Numbered(work.found, work.lineages)' = Numbered(work'.found, work'.lineages)
    BY DEF AllKept, Numbered, Lines
  <2> QED BY <1>3, <1>12, <2>1, <2>2, <2>3, <2>4 DEF RoundInv
<1>15. BudgetKept'
  BY <1>1, <1>12, <1>13 DEF BudgetKept, committed_parent
<1>16. ContinuedAlike'
  BY <1>1 DEF ContinuedAlike, Continuation
<1>17. /\ Documented(history)' = Documented(history')
       /\ (pending # None => Documented(pending.history))'
       /\ (store # None => Documented(store.history))'
       /\ Documented(history')
  BY <1>1 DEF Documented, None
<1> QED BY <1>14, <1>15, <1>16, <1>17 DEF DataInv

\* The candidates of stage B that are kept differ in line, as those launched do.
LEMMA Representatives ==
    ASSUME NEW launched, Distinct(launched), NEW kept \in SUBSET DOMAIN launched,
           \A i \in DOMAIN launched : launched[i].mark = "kept"
    PROVE  LET found == Chosen(launched, kept)
           IN Distinct(found) /\ \A i \in DOMAIN found : found[i].mark = "kept"
<1> DEFINE found == Chosen(launched, kept)
           n == Cardinality(kept)
<1>1. /\ launched \in Seq(Cands)
      /\ \A i, j \in DOMAIN launched : launched[i].line = launched[j].line => i = j
      /\ \A i \in DOMAIN launched : launched[i] \in Cands
  BY Candidates DEF Distinct
<1>2. PICK of : Numbers(of, kept) /\ found = [k \in 1 .. n |-> launched[of[k]]]
  BY <1>1, ChosenFacts
<1>3. n \in Nat  BY <1>1, ChosenFacts
<1> HIDE DEF found, n
<1>4. /\ \A k \in 1 .. n : of[k] \in kept
      /\ \A k, m \in 1 .. n : of[k] = of[m] => k = m
  BY <1>2 DEF Numbers, n
<1>5. DOMAIN found = 1 .. n /\ \A k \in 1 .. n : found[k] = launched[of[k]]
  BY <1>2
<1>6. \A k \in 1 .. n : found[k] \in Cands /\ found[k].mark = "kept"
  BY <1>1, <1>4, <1>5
<1>7. found \in Seq(Cands)
  <2>1. found = [k \in 1 .. n |-> found[k]]  BY <1>2, <1>5
  <2> QED BY <1>3, <1>6, <2>1
<1>8. \A i, j \in DOMAIN found : found[i].line = found[j].line => i = j
  BY <1>1, <1>4, <1>5
<1> QED BY <1>5, <1>6, <1>7, <1>8 DEF Distinct, found

\* A search of one dataset publishes its history as it is.
LEMMA PublishedWhole ==
    ASSUME mode = "single"
    PROVE  \A stage, committed, omitted :
             build_checkpoint(stage, committed, omitted).history = committed
BY DEF build_checkpoint

\* Stage B publishes marked candidates and hands on the counts a resume finds.
LEMMA StageBData ==
    ASSUME SearchAssumption, IInv, DataInv, StageB PROVE DataInv'
<1>1. PICK lines \in Launches : \E cost \in [DOMAIN lines -> AllCosts] :
         LET launched == [i \in DOMAIN lines |-> Candidate(lines[i], 0, cost[i])] IN
         \E kept \in _stage_b_representatives(launched) :
            LET found == Chosen(launched, kept)
            IN Commit("B", archive_stage_b_candidates(found), OutcomeCounts(found), "C")
  BY DEF StageB
<1>2. PICK cost \in [DOMAIN lines -> AllCosts] :
         LET launched == [i \in DOMAIN lines |-> Candidate(lines[i], 0, cost[i])] IN
         \E kept \in _stage_b_representatives(launched) :
            LET found == Chosen(launched, kept)
            IN Commit("B", archive_stage_b_candidates(found), OutcomeCounts(found), "C")
  BY <1>1
<1> DEFINE launched == [i \in DOMAIN lines |-> Candidate(lines[i], 0, cost[i])]
<1>3. PICK kept \in _stage_b_representatives(launched) :
        LET found == Chosen(launched, kept)
        IN Commit("B", archive_stage_b_candidates(found), OutcomeCounts(found), "C")
  BY <1>2
<1> DEFINE found == Chosen(launched, kept)
           marked == archive_stage_b_candidates(found)
<1>4. /\ lines \in Seq(Nat) /\ \A i, j \in DOMAIN lines : lines[i] = lines[j] => i = j
  <2>1. CASE lines = <<2, 0, 1>>
    <3>1. lines \in Seq(Nat) /\ DOMAIN lines = 1 .. 3
          /\ lines[1] = 2 /\ lines[2] = 0 /\ lines[3] = 1
      BY <2>1
    <3> QED BY <3>1
  <2>2. CASE lines = <<0, 1>>
    <3>1. lines \in Seq(Nat) /\ DOMAIN lines = 1 .. 2 /\ lines[1] = 0 /\ lines[2] = 1
      BY <2>2
    <3> QED BY <3>1
  <2> QED BY <2>1, <2>2 DEF Launches
<1>5. \A i \in DOMAIN lines : cost[i] \in Nat /\ lines[i] \in Nat
  <2>1. AllCosts \subseteq Nat  BY DEF AllCosts, SearchAssumption
  <2>2. \A i \in DOMAIN lines : cost[i] \in AllCosts  BY <1>2
  <2>3. \A i \in DOMAIN lines : lines[i] \in Nat  BY <1>4
  <2> QED BY <2>1, <2>2, <2>3
<1>6. /\ DOMAIN launched = DOMAIN lines
      /\ \A i \in DOMAIN lines : /\ launched[i] \in Cands /\ launched[i].line = lines[i]
                                 /\ launched[i].mark = "kept"
  BY <1>5 DEF Candidate, Cands
<1> HIDE DEF launched
<1>7. Distinct(launched)
  <2>1. launched = [i \in 1 .. Len(lines) |-> launched[i]] /\ Len(lines) \in Nat
        /\ DOMAIN lines = 1 .. Len(lines)
    BY <1>4 DEF launched
  <2>2. launched \in Seq(Cands)  BY <1>6, <2>1
  <2> QED BY <1>4, <1>6, <2>2 DEF Distinct
<1>8. Distinct(found) /\ \A i \in DOMAIN found : found[i].mark = "kept"
  <2>1. kept \in SUBSET DOMAIN launched  BY <1>3 DEF _stage_b_representatives
  <2> QED BY <1>6, <1>7, <2>1, Representatives
<1> HIDE DEF found
<1>9. /\ Archived(marked)
      /\ stage_b_continuation(marked, OutcomeCounts(found)) = stage_b_continuation(marked, <<>>)
  BY <1>8, Archiving
<1>10. Commit("B", marked, OutcomeCounts(found), "C")
  BY <1>3 DEF found
<1> HIDE DEF marked
<1>11. /\ history' = Committed("B", marked) /\ counts' = OutcomeCounts(found) /\ at' = "C"
       /\ work' = NoWork /\ pending' = build_checkpoint("B", history', skipped)
       /\ mode = "single" /\ mode' = mode /\ phase = "searching" /\ at = "B" /\ store' = store
  BY <1>10 DEF Commit, StageB, Running
<1>12. DOMAIN history = {"A"}
  BY <1>11, RunsIn, Order DEF Stages
<1>13. DOMAIN history' = {"A", "B"} /\ history'["B"] = marked
  BY <1>11, <1>12 DEF Committed
<1>14. Documented(history')  BY <1>9, <1>13 DEF Documented
<1>15. pending'.history = history'  BY <1>11, PublishedWhole
<1>16. Continuation(counts)' = Continuation(<<>>)'
  <2>1. committed_parent(history', "B") = "B"  BY <1>13, Parents
  <2>2. Nominal[at'] = "B"  BY <1>11 DEF Nominal
  <2>3. \A given : _stage_continuation(history', "B", given) = stage_b_continuation(marked, given)
    BY <1>13, <2>1 DEF _stage_continuation
  <2>4. Continuation(counts)' = _stage_continuation(history', Nominal[at'], counts')
        /\ Continuation(<<>>)' = _stage_continuation(history', Nominal[at'], <<>>)
    BY DEF Continuation, _stage_continuation, committed_parent, stage_b_continuation
  <2> QED BY <1>9, <1>11, <2>2, <2>3, <2>4
<1> QED BY <1>11, <1>14, <1>15, <1>16, DataNext DEF DataInv

\* A local stage is committed: it refines what stage B left, and what follows
\* finds the counts it is given in the candidates as well.
LEMMA CommitLocalData ==
    ASSUME SearchAssumption, IInv, WorkInv, DataInv, CommitLocal PROVE DataInv'
<1> DEFINE found == work.found
           sizes == [k \in 1 .. work.lineages |-> Cardinality(Group(found, k - 1)) - 1]
           stage == at
<1>1. /\ work # NoWork /\ phase = "searching" /\ mode = "single" /\ stage \in {"C", "D"}
      /\ Documented(history) /\ RoundInv /\ BudgetKept
      /\ store # None => Documented(store.history)
      /\ history' = Committed(stage, found) /\ counts' = sizes /\ at' = After(stage)
      /\ work' = NoWork /\ pending' = build_checkpoint(stage, history', skipped)
      /\ mode' = mode /\ store' = store
      /\ next_local_round = <<>>
  BY DEF CommitLocal, Commit, WorkInv, DataInv, Live
<1>2. /\ "B" \in DOMAIN history /\ stage \notin DOMAIN history
  <2>1. DOMAIN history = Before(stage) \ skipped /\ skipped \subseteq Before(stage) \ {"A", "B"}
    BY <1>1, RunsIn DEF Stages
  <2> QED BY <1>1, <2>1, Order
<1>3. /\ work.lineages \in Nat /\ AllKept(found)
      /\ found # <<>> => Numbered(found, work.lineages)
      /\ Len(found) <= work.total /\ work.total <= (BasePerturbations + 1) * Len(history["B"])
      /\ work.total \in Nat
  BY <1>1 DEF RoundInv, BudgetKept
<1>4. found = <<>> => work.lineages = 0
  <2>1. found = <<>> => [k \in 1 .. work.lineages |-> k - 1] = <<>>
    BY <1>1 DEF next_local_round
  <2> QED BY <1>3, <2>1
<1>5. Numbered(found, work.lineages)
  <2>1. CASE found = <<>>
    <3>1. Lines(found) = {}  BY <2>1 DEF Lines
    <3>2. work.lineages = 0 /\ 0 .. 0 - 1 = {}  BY <1>4, <2>1
    <3> QED BY <3>1, <3>2 DEF Numbered
  <2> QED BY <1>3, <2>1
<1>6. Refines(found, history["B"])
  <2>1. Archived(history["B"])  BY <1>1, <1>2 DEF Documented
  <2>2. Len(history["B"]) \in Nat /\ Len(found) \in Nat
    BY <1>3, <2>1, Candidates DEF Archived, Distinct, AllKept
  <2>3. (BasePerturbations + 1) * Len(history["B"]) \in Nat
    BY <2>2, Scaled DEF SearchAssumption
  <2> DEFINE most == (BasePerturbations + 1) * Len(history["B"])
  <2>4. work.total <= most /\ most \in Nat  BY <1>3, <2>3
  <2> HIDE DEF most
  <2>5. Len(found) <= most  BY <1>3, <2>2, <2>4
  <2> QED BY <1>3, <1>5, <2>5 DEF Refines, most
<1> HIDE DEF found
<1>7. /\ DOMAIN history' = DOMAIN history \cup {stage} /\ history'[stage] = found
      /\ \A s \in DOMAIN history : history'[s] = history[s]
  BY <1>1, <1>2 DEF Committed
<1>8. Documented(history')
  <2>1. "B" \in DOMAIN history' /\ history'["B"] = history["B"]  BY <1>2, <1>7
  <2> QED BY <1>1, <1>6, <1>7, <2>1 DEF Documented
<1>9. pending'.history = history'  BY <1>1, PublishedWhole
<1>10. ASSUME at' = "D" PROVE Continuation(counts)' = Continuation(<<>>)'
  <2>1. stage = "C"  BY <1>1, <1>10, Follows
  <2>2. committed_parent(history', "C") = "C"  BY <1>2, <1>7, <2>1, Parents
  <2>3. Nominal[at'] = "C"  BY <1>10 DEF Nominal
  <2>4. \A given : _stage_continuation(history', "C", given) = local_stage_continuation(found, given)
    BY <1>7, <2>1, <2>2 DEF _stage_continuation
  <2>5. Continuation(counts)' = _stage_continuation(history', Nominal[at'], counts')
        /\ Continuation(<<>>)' = _stage_continuation(history', Nominal[at'], <<>>)
    BY DEF Continuation, _stage_continuation, committed_parent, stage_b_continuation,
       local_stage_continuation
  <2>6. Cardinality(Lines(found)) = work.lineages
    BY <1>3, <1>5, FS_Interval DEF Numbered
  <2>7. local_stage_continuation(found, sizes) = local_stage_continuation(found, <<>>)
    BY <2>6 DEF local_stage_continuation
  <2> QED BY <1>1, <2>3, <2>4, <2>5, <2>7
<1>11. at' \in {"D", "E"}  BY <1>1, Follows
<1> QED BY <1>1, <1>8, <1>9, <1>10, <1>11, DataNext

-----------------------------------------------------------------------------
(* The other steps keep it.                                               *)

\* A step that stops the search, or fails it.
LEMMA StopsData ==
    ASSUME mode' = mode, work' = NoWork, phase' \notin {"searching", "recovering"},
           mode = "single" =>
             /\ pending' # None => Documented(pending'.history)
             /\ store' # None => Documented(store'.history)
    PROVE  DataInv'
BY DataNext DEF Live

\* A search begins with what its checkpoint documents, and is given no counts.
LEMMA BeginData == ASSUME IInv, DataInv, BeginSearch PROVE DataInv'
<1>0. mode' = mode /\ (mode = "single" /\ store # None => Documented(store.history))
  BY DEF BeginSearch, DataInv
<1>1. CASE Refuse
  BY <1>0, <1>1, StopsData DEF Refuse, Forget
<1>2. CASE Resume
  <2>1. /\ work' = NoWork /\ counts' = <<>> /\ pending' = store /\ store' = store
    BY <1>2 DEF Resume
  <2>2. ASSUME mode = "single" PROVE Documented(history')
    <3>1. CASE store = None
      <4>1. DOMAIN history' = {}  BY <1>2, <3>1 DEF Resume, NoStages
      <4> QED BY <4>1 DEF Documented
    <3>2. CASE store # None
      <4>1. Documented(store.history)  BY <1>0, <2>2, <3>2
      <4>2. /\ DOMAIN history' = DOMAIN store.history \cup {"A"}
            /\ \A s \in DOMAIN store.history : history'[s] = store.history[s]
        BY <1>2, <3>2 DEF Resume
      <4> QED BY <4>1, <4>2, DocumentedAlike
    <3> QED BY <3>1, <3>2
  <2> QED BY <1>0, <2>1, <2>2, DataNext, NothingGiven
<1> QED BY <1>1, <1>2 DEF BeginSearch

\* A failed row keeps no checkpoint.
LEMMA FailData == ASSUME Fail PROVE DataInv'
BY StopsData DEF Fail, Forget

\* Stages A and E change nothing between them.
LEMMA OuterData ==
    ASSUME NEW stage \in {"A", "E"}, NEW found, Documented(history)
    PROVE  Documented(Committed(stage, found))
<1>1. /\ DOMAIN Committed(stage, found) = DOMAIN history \cup {stage}
      /\ \A s \in DOMAIN history \ {stage} : Committed(stage, found)[s] = history[s]
  BY DEF Committed
<1> QED BY <1>1, DocumentedAlike

\* Stage A leaves no candidate.
LEMMA StageAData == ASSUME DataInv, StageA PROVE DataInv'
<1>1. CASE Fail  BY <1>1, FailData
<1>2. CASE ~Fail
  <2>1. /\ history' = Committed("A", <<>>) /\ at' = "B" /\ phase = "searching"
        /\ UNCHANGED <<mode, counts, work, pending, store>> /\ work = NoWork
    BY <1>2 DEF StageA, Running
  <2> QED BY <2>1, OuterData, DataNext DEF DataInv, Live
<1> QED BY <1>1, <1>2

\* Stage E comes after every local stage.
LEMMA StageEData == ASSUME DataInv, StageE PROVE DataInv'
<1>1. CASE Fail  BY <1>1, FailData
<1>2. CASE ~Fail
  <2>1. PICK found : Commit("E", found, <<>>, "done")
    BY <1>2 DEF StageE
  <2>2. /\ history' = Committed("E", found) /\ at' = "done" /\ work' = NoWork
        /\ pending' = build_checkpoint("E", history', skipped)
        /\ mode' = mode /\ store' = store /\ phase = "searching"
    BY <2>1 DEF Commit, StageE, Running
  <2> QED BY <2>2, OuterData, PublishedWhole, DataNext DEF DataInv, Live
<1> QED BY <1>1, <1>2

\* A joint search has no archive and no local stage.
LEMMA JointData == ASSUME JointStage \/ _run_stage_e_prefix PROVE DataInv'
<1>1. mode = "joint" /\ mode' = mode
  BY DEF JointStage, _run_stage_e_prefix, FinalSeed, Fail, Commit
<1> QED BY <1>1 DEF DataInv

\* A skip drops the work and the counts, and keeps the history.
LEMMA SkipData == ASSUME DataInv, StageSkipped PROVE DataInv'
<1>0. /\ mode' = mode /\ work' = NoWork /\ store' = store /\ phase = "searching"
  BY DEF StageSkipped
<1>1. CASE SkipToEnd
  <2>1. at' = "done" /\ UNCHANGED <<history, pending>>  BY <1>1 DEF SkipToEnd
  <2> QED BY <1>0, <2>1, DataNext DEF DataInv, Live
<1>2. CASE SkipOn
  <2>1. /\ history' = history /\ counts' = <<>>
        /\ pending' = build_checkpoint(at, history, skipped \cup {at})
    BY <1>2 DEF SkipOn
  <2> QED BY <1>0, <2>1, PublishedWhole, NothingGiven, DataNext DEF DataInv, Live
<1> QED BY <1>1, <1>2 DEF StageSkipped

\* The end of the loop leaves the history as it is.
LEMMA FinishData == ASSUME WorkInv, DataInv, Finish PROVE DataInv'
<1>1. /\ mode' = mode /\ work' = NoWork /\ UNCHANGED <<history, pending>>
      /\ store' \in {store, pending, None} /\ phase = "searching"
      /\ phase' \in {"recovering", "ended"}
  BY DEF Finish, memory, WorkInv
<1> QED BY <1>1, DataNext DEF DataInv, Live

\* Profile recovery rebuilds stage E only.
LEMMA RecoveryData == ASSUME IInv, WorkInv, DataInv, continue_profile_basin PROVE DataInv'
<1>0. /\ phase = "recovering" /\ phase' = "ended" /\ store' = pending'
      /\ mode' = mode /\ work' = work /\ mode = "single"
  BY DEF continue_profile_basin, IInv, MemoryInv, Live
<1>1. work' = NoWork  BY <1>0 DEF WorkInv
<1>2. pending' # None => Documented(pending'.history)
  <2>1. CASE pending' = pending  BY <1>0, <2>1 DEF DataInv
  <2>2. ASSUME NEW rebuilt, history' = Committed("E", rebuilt),
               pending' = [build_checkpoint("E", history', skipped)
                             EXCEPT !.seeds = 2 + FinalSeeds]
        PROVE  Documented(pending'.history)
    <3>1. Documented(history)  BY <1>0 DEF DataInv, Live
    <3>2. pending'.history = history'
      BY <1>0, <2>2 DEF build_checkpoint
    <3> QED BY <2>2, <3>1, <3>2, OuterData
  <2> QED BY <2>1, <2>2 DEF continue_profile_basin
<1> QED BY <1>0, <1>1, <1>2, StopsData

\* An aborted search leaves one of its two checkpoints.
LEMMA AbortData == ASSUME DataInv, Abort PROVE DataInv'
<1>1. /\ mode' = mode /\ work' = NoWork /\ phase' = "idle"
      /\ store' \in {store, pending} /\ pending' = store'
  BY DEF Abort, Forget
<1> QED BY <1>1, StopsData DEF DataInv

\* Steps that change nothing.
LEMMA StaysData == ASSUME DataInv, UNCHANGED vars PROVE DataInv'
<1>1. UNCHANGED <<mode, phase, at, history, counts, work, pending, store>>
  BY DEF vars, memory
<1>2. (Live => Documented(history))' <=> (Live => Documented(history))
  BY <1>1 DEF Live, Documented
<1>3. /\ (pending # None => Documented(pending.history))'
           <=> (pending # None => Documented(pending.history))
      /\ (store # None => Documented(store.history))'
           <=> (store # None => Documented(store.history))
  BY <1>1 DEF Documented, None
<1>4. RoundInv' <=> RoundInv  BY <1>1 DEF RoundInv, AllKept, Numbered, Lines, NoWork
<1>5. BudgetKept' <=> BudgetKept  BY <1>1 DEF BudgetKept, committed_parent, NoWork
<1>6. ContinuedAlike' <=> ContinuedAlike  BY <1>1 DEF ContinuedAlike, Continuation
<1> QED BY <1>1, <1>2, <1>3, <1>4, <1>5, <1>6 DEF DataInv

\* At first there is neither a history nor a checkpoint.
LEMMA InitData == Init => DataInv
<1> SUFFICES ASSUME Init PROVE DataInv
  OBVIOUS
<1>1. work = NoWork /\ pending = None /\ store = None /\ phase = "idle"  BY DEF Init
<1> QED BY <1>1 DEF DataInv, Live, RoundInv, BudgetKept

\* Every step keeps what is known of the candidates.
LEMMA NextData ==
    ASSUME SearchAssumption, IInv, WorkInv, DataInv, [Next]_vars PROVE DataInv'
<1>1. CASE BeginSearch  BY <1>1, BeginData
<1>2. CASE StageA \/ StageE  BY <1>2, StageAData, StageEData
<1>3. CASE StageB  BY <1>3, StageBData
<1>4. CASE StartLocal  BY <1>4, StartKeeps
<1>5. CASE LocalRound  BY <1>5, RoundKeeps
<1>6. CASE CommitLocal  BY <1>6, CommitLocalData
<1>7. CASE JointStage \/ _run_stage_e_prefix  BY <1>7, JointData
<1>8. CASE Finish \/ continue_profile_basin  BY <1>8, FinishData, RecoveryData
<1>9. CASE StageSkipped \/ Abort  BY <1>9, SkipData, AbortData
<1>10. CASE Over \/ UNCHANGED vars  BY <1>10, StaysData DEF Over
<1> QED BY <1>1, <1>2, <1>3, <1>4, <1>5, <1>6, <1>7, <1>8, <1>9, <1>10 DEF Next, Step

\* Everything that is known of the candidates, in every state.
LEMMA InductiveData == Spec => [](IInv /\ WorkInv /\ DataInv)
<1>1. IInv /\ WorkInv /\ DataInv /\ [Next]_vars => (IInv /\ WorkInv /\ DataInv)'
  BY NextIInv, NextData, SearchAssumption
<1> QED BY <1>1, InitIInv, InitData, PTL DEF Spec

\* What goes on from a stage was not archived, whoever deals the budget.
LEMMA ParentsLive ==
    ASSUME NEW h, Documented(h), "B" \in DOMAIN h, NEW stage \in {"B", "C", "D"}, NEW given
    PROVE  LET parents == _stage_continuation(h, stage, given).parents IN
           \A k \in DOMAIN parents : parents[k].mark = "kept"
<1> DEFINE p == committed_parent(h, stage)
           next == _stage_continuation(h, stage, given)
<1>1. p \in {"B", "C", "D"} /\ p \in DOMAIN h  BY Parents
<1>2. CASE p = "B"
  <2> DEFINE found == h["B"]
             active == Active(found)
             a == Cardinality(active)
  <2>1. Archived(found)  BY DEF Documented
  <2>2. next = stage_b_continuation(found, given)  BY <1>2 DEF _stage_continuation
  <2>3. next.parents = Chosen(found, active)
    <3>1. Winners(found) = active  BY <2>1, ArchivedWinners
    <3> QED BY <2>2, <3>1 DEF stage_b_continuation, _ordered_stage_b_continuation
  <2>4. /\ found \in Seq(Cands) /\ active \in SUBSET DOMAIN found
        /\ \A i \in active : found[i].mark = "kept"
    BY <2>1 DEF Archived, Distinct, Active
  <2> HIDE DEF active, next, found
  <2>5. PICK of : /\ Numbers(of, active)
                  /\ Chosen(found, active) = [k \in 1 .. a |-> found[of[k]]]
    BY <2>4, ChosenFacts
  <2>6. \A k \in 1 .. a : of[k] \in active  BY <2>5 DEF Numbers
  <2>7. \A k \in DOMAIN next.parents : next.parents[k].mark = "kept"
    BY <2>3, <2>4, <2>5, <2>6
  <2> QED BY <2>7 DEF next
<1>3. CASE p # "B"
  <2>1. Refines(h[p], h["B"])  BY <1>1, <1>3 DEF Documented
  <2>2. AllKept(h[p])  BY <2>1 DEF Refines
  <2>3. PICK n \in Nat : Numbered(h[p], n)  BY <2>1 DEF Refines
  <2>4. next = local_stage_continuation(h[p], given)
    BY <1>3 DEF _stage_continuation
  <2> DEFINE found == h[p]
  <2>5. /\ AllKept(found) /\ Numbered(found, n)
        /\ next = local_stage_continuation(found, given)
    BY <2>2, <2>3, <2>4
  <2> HIDE DEF next, found
  <2> DEFINE sizes == [k \in 1 .. n |-> Cardinality(Group(found, k - 1)) - 1]
  <2>6. /\ n <= Len(found) /\ Len(found) \in Nat
        /\ Len(next.parents) = n /\ (n = 0 => next.parents = <<>>)
        /\ \A k \in DOMAIN next.parents : next.parents[k].mark = "kept"
        /\ next.counts = IF given # <<>> THEN given ELSE sizes
        /\ sizes \in Seq(Nat) /\ Total(sizes) = Len(found) - n
    BY <2>5, FromLocal
  <2>7. \A k \in DOMAIN next.parents : next.parents[k].mark = "kept"
    BY <2>5, <2>6
  <2> QED BY <2>7 DEF next
<1> QED BY <1>2, <1>3

-----------------------------------------------------------------------------
(* Every candidate has its own identifier, and summaries describe them.    *)

\* A joint stage archives nothing; its candidates are kept or taken back.
Named(h) ==
    \A s \in Described(h) :
        /\ h[s] \in Seq(Cands) /\ IsInjective(Ids(h[s]))
        /\ mode = "joint" => \A i \in DOMAIN h[s] : h[s][i].mark # "eliminated"

Told(c) == c # None => Named(c.history) /\ c.summaries = Summaries(c.history)

\* The rounds of a line are numbered: the next number is new.
Counted(found) ==
    /\ IsInjective(Ids(found))
    /\ \A i \in DOMAIN found : found[i].round < Cardinality(Group(found, found[i].line))

\* A round: a candidate for each of some lines, with its next number.
NextRound(old, new) ==
    /\ \A k, m \in DOMAIN new : new[k].line = new[m].line => k = m
    /\ \A k \in DOMAIN new : new[k].round = Cardinality(Group(old, new[k].line))

NameInv ==
    /\ Live => Named(history)
    /\ Told(pending) /\ Told(store)
    /\ work # NoWork => Counted(work.found)

\* Different lines tell candidates apart.
LEMMA LinesTell ==
    ASSUME NEW found,
           \A i, j \in DOMAIN found : found[i].line = found[j].line => i = j
    PROVE  IsInjective(Ids(found))
BY DEF IsInjective, Ids, Id

\* The seeds of an ensemble are numbered.
LEMMA SeedsNamed ==
    ASSUME SearchAssumption, NEW cost, \A k \in 1 .. FinalSeeds : cost[k] \in Nat
    PROVE  LET found == [k \in 1 .. FinalSeeds |-> Candidate(k - 1, 0, cost[k])]
           IN found \in Seq(Cands) /\ IsInjective(Ids(found))
<1> DEFINE n == FinalSeeds
           found == [k \in 1 .. n |-> Candidate(k - 1, 0, cost[k])]
<1>1. n \in Nat  BY DEF SearchAssumption
<1>2. \A k \in 1 .. n : cost[k] \in Nat  OBVIOUS
<1> HIDE DEF n
<1>3. \A k \in 1 .. n : found[k] \in Cands /\ found[k].line = k - 1
  BY <1>1, <1>2 DEF Candidate, Cands
<1>4. DOMAIN found = 1 .. n /\ found = [k \in 1 .. n |-> found[k]]  OBVIOUS
<1> HIDE DEF found
<1>5. found \in Seq(Cands)  BY <1>1, <1>3, <1>4, SMTT(30)
<1>6. \A i, j \in DOMAIN found : found[i].line = found[j].line => i = j
  BY <1>1, <1>3, <1>4
<1> QED BY <1>5, <1>6, LinesTell DEF found, n

\* So do the rounds of a line, also those that one more round adds.
LEMMA OneMoreRound ==
    ASSUME NEW old \in Seq(Cands), NEW new \in Seq(Cands),
           Counted(old), NextRound(old, new)
    PROVE  Counted(old \o new)
<1> DEFINE found == old \o new
           n == Len(old)
           total == Len(old) + Len(new)
<1>0. found = old \o new  OBVIOUS
<1> HIDE DEF found
<1>1. /\ n \in Nat /\ Len(new) \in Nat /\ total = n + Len(new)
      /\ DOMAIN old = 1 .. n /\ DOMAIN new = 1 .. Len(new)
      /\ found \in Seq(Cands) /\ DOMAIN found = 1 .. total
      /\ \A i \in 1 .. n : found[i] = old[i]
      /\ \A k \in 1 .. Len(new) : found[n + k] = new[k]
      /\ \A i \in 1 .. total : i \in 1 .. n \/ \E k \in 1 .. Len(new) : i = n + k
  <2>1. /\ Len(old) \in Nat /\ Len(new) \in Nat
        /\ DOMAIN old = 1 .. Len(old) /\ DOMAIN new = 1 .. Len(new)
    OBVIOUS
  <2>2. /\ old \o new \in Seq(Cands) /\ Len(old \o new) = Len(old) + Len(new)
        /\ DOMAIN (old \o new) = 1 .. Len(old) + Len(new)
        /\ \A i \in 1 .. Len(old) : (old \o new)[i] = old[i]
        /\ \A k \in 1 .. Len(new) : (old \o new)[Len(old) + k] = new[k]
        /\ \A i \in 1 .. Len(old) + Len(new) :
             i \in 1 .. Len(old) \/ \E k \in 1 .. Len(new) : i = Len(old) + k
    BY Joined
  <2> QED BY <1>0, <2>1, <2>2 DEF n, total
<1> HIDE DEF n, total
<1>2. total \in Nat  BY <1>1
<1>3. ASSUME NEW l
      PROVE  /\ Cardinality(Group(old, l)) \in Nat /\ Cardinality(Group(found, l)) \in Nat
             /\ Cardinality(Group(old, l)) <= Cardinality(Group(found, l))
             /\ (\E k \in DOMAIN new : new[k].line = l) =>
                  Cardinality(Group(old, l)) < Cardinality(Group(found, l))
  <2> DEFINE before == Group(old, l)
             after == Group(found, l)
  <2>1. before \in SUBSET (1 .. n) /\ after \in SUBSET (1 .. total)
    BY <1>1 DEF Group
  <2>2. before \subseteq after  BY <1>1 DEF Group
  <2>3. ASSUME NEW k \in DOMAIN new, new[k].line = l PROVE before # after
    <3>1. n + k \in after  BY <1>1, <2>3 DEF Group
    <3>2. n + k \notin 1 .. n  BY <1>1
    <3> QED BY <2>1, <3>1, <3>2
  <2> HIDE DEF before, after
  <2>4. IsFiniteSet(after) /\ Cardinality(after) \in Nat /\ Cardinality(before) \in Nat
    BY <1>1, <1>2, <2>1, Places
  <2>5. /\ Cardinality(before) <= Cardinality(after)
        /\ Cardinality(before) = Cardinality(after) => before = after
    BY <2>2, <2>4, FS_Subset
  <2> QED BY <2>3, <2>4, <2>5 DEF before, after
<1>4. \A i \in 1 .. n : /\ old[i].round \in Nat
                        /\ old[i].round < Cardinality(Group(old, old[i].line))
  <2>1. \A i \in 1 .. n : old[i] \in Cands  BY <1>1
  <2> QED BY <1>1, <2>1 DEF Counted, Cands
<1>5. \A i, j \in 1 .. n : Id(old[i]) = Id(old[j]) => i = j
  BY <1>1 DEF Counted, IsInjective, Ids
<1>6. \A i \in 1 .. n : \A k \in 1 .. Len(new) : Id(old[i]) # Id(new[k])
  <2> SUFFICES ASSUME NEW i \in 1 .. n, NEW k \in 1 .. Len(new), Id(old[i]) = Id(new[k])
               PROVE  FALSE
    OBVIOUS
  <2>1. old[i].line = new[k].line /\ old[i].round = new[k].round  BY DEF Id
  <2>2. new[k].round = Cardinality(Group(old, old[i].line))  BY <1>1, <2>1 DEF NextRound
  <2> QED BY <1>4, <2>1, <2>2
<1>7. \A k, m \in 1 .. Len(new) : Id(new[k]) = Id(new[m]) => k = m
  BY <1>1 DEF Id, NextRound
<1>8. IsInjective(Ids(found))
  <2> SUFFICES ASSUME NEW i \in DOMAIN found, NEW j \in DOMAIN found,
                      Id(found[i]) = Id(found[j])
               PROVE  i = j
    BY DEF IsInjective, Ids
  <2>1. CASE i \in 1 .. n /\ j \in 1 .. n  BY <1>1, <1>5, <2>1
  <2>2. CASE i \in 1 .. n /\ \E k \in 1 .. Len(new) : j = n + k  BY <1>1, <1>6, <2>2
  <2>3. CASE (\E k \in 1 .. Len(new) : i = n + k) /\ j \in 1 .. n  BY <1>1, <1>6, <2>3
  <2>4. CASE /\ \E k \in 1 .. Len(new) : i = n + k
             /\ \E k \in 1 .. Len(new) : j = n + k
    BY <1>1, <1>7, <2>4
  <2> QED BY <1>1, <2>1, <2>2, <2>3, <2>4
<1>9. ASSUME NEW i \in DOMAIN found
      PROVE  found[i].round < Cardinality(Group(found, found[i].line))
  <2>1. CASE i \in 1 .. n
    <3>1. /\ found[i] = old[i] /\ old[i].round \in Nat
          /\ old[i].round < Cardinality(Group(old, old[i].line))
      BY <1>1, <1>4, <2>1
    <3>2. /\ Cardinality(Group(old, old[i].line)) <= Cardinality(Group(found, old[i].line))
          /\ Cardinality(Group(old, old[i].line)) \in Nat
          /\ Cardinality(Group(found, old[i].line)) \in Nat
      BY <1>3
    <3> QED BY <3>1, <3>2
  <2>2. CASE \E k \in 1 .. Len(new) : i = n + k
    <3>1. PICK k \in 1 .. Len(new) : i = n + k  BY <2>2
    <3>2. found[i] = new[k] /\ new[k].round = Cardinality(Group(old, new[k].line))
      BY <1>1, <3>1 DEF NextRound
    <3>3. Cardinality(Group(old, new[k].line)) < Cardinality(Group(found, new[k].line))
      BY <1>1, <1>3
    <3> QED BY <3>2, <3>3
  <2> QED BY <1>1, <2>1, <2>2
<1> QED BY <1>0, <1>8, <1>9 DEF Counted

\* The least of some numbers.
LEMMA LeastIs ==
    ASSUME NEW S \in SUBSET Nat, NEW x \in S, \A y \in S : x <= y PROVE Min(S) = x
<1>1. \A z \in S : z \in Nat  OBVIOUS
<1>2. \A z \in S : (\A y \in S : z <= y) => z = x
  <2> TAKE z \in S
  <2> HAVE \A y \in S : z <= y
  <2>1. z <= x /\ x <= z /\ z \in Nat /\ x \in Nat  BY <1>1
  <2> QED BY <2>1
<1> QED BY <1>2 DEF Min

\* The winner of a stage without marks has the least cost, if any is finite.
LEMMA BestIsLeast ==
    ASSUME SearchAssumption, NEW found \in Seq(Cands),
           \A i \in DOMAIN found : found[i].mark = "kept"
    PROVE  BestCost(found, DOMAIN found) = _joint_best_objective(found)
<1> DEFINE all == {found[i].cost : i \in DOMAIN found} \cup {Infinite}
<1>1. Infinite \in Nat /\ \A i \in DOMAIN found : found[i].cost \in Nat
  BY Candidates DEF SearchAssumption
<1>2. all \in SUBSET Nat  BY <1>1
<1>3. Winners(found) = {i \in DOMAIN found : found[i].cost < Infinite}
  BY DEF Winners, Selectable, Finite
<1>4. CASE Winners(found) = {}
  <2>1. BestCost(found, DOMAIN found) = Infinite  BY <1>4 DEF BestCost
  <2>2. \A x \in all : Infinite <= x  BY <1>1, <1>3, <1>4
  <2>3. Infinite \in all  OBVIOUS
  <2> QED BY <1>2, <2>1, <2>2, <2>3, LeastIs DEF _joint_best_objective
<1>5. CASE Winners(found) # {}
  <2> DEFINE best == BestIndex(found, DOMAIN found)
             W == DOMAIN found \cap Winners(found)
  <2>1. W # {}  BY <1>3, <1>5
  <2>2. best \in W /\ \A j \in W : found[best].cost <= found[j].cost
    BY <2>1, BestExists
  <2>4. BestCost(found, DOMAIN found) = found[best].cost
    BY <2>1 DEF BestCost
  <2> HIDE DEF best
  <2>5. /\ found[best].cost \in all /\ found[best].cost < Infinite
        /\ \A x \in all : found[best].cost <= x
    BY <1>1, <1>3, <2>2
  <2> QED BY <1>2, <2>4, <2>5, LeastIs DEF _joint_best_objective
<1> QED BY <1>4, <1>5

\* What is published tells the candidates of the history it is made of.
LEMMA PublishedTold ==
    ASSUME NEW stage, NEW committed, NEW omitted, Named(committed)
    PROVE  Told(build_checkpoint(stage, committed, omitted))
<1> DEFINE c == build_checkpoint(stage, committed, omitted)
<1>1. /\ c.history = IF mode = "joint" THEN Without(committed, "A") ELSE committed
      /\ c.summaries = Summaries(committed)
  BY DEF build_checkpoint
<1> HIDE DEF c
<1>2. /\ Described(c.history) = Described(committed)
      /\ \A s \in Described(committed) : c.history[s] = committed[s]
  BY <1>1 DEF Described, Without
<1>3. Named(c.history)  BY <1>2 DEF Named
<1>4. c.summaries = Summaries(c.history)  BY <1>1, <1>2 DEF Summaries
<1> QED BY <1>3, <1>4 DEF Told, c

\* A stage more, or stage E again.
LEMMA CommittedNames ==
    ASSUME NEW stage, NEW found, Named(history),
           stage # "A" => /\ found \in Seq(Cands) /\ IsInjective(Ids(found))
                          /\ mode = "joint" => \A i \in DOMAIN found : found[i].mark # "eliminated"
    PROVE  Named(Committed(stage, found))
<1>1. /\ DOMAIN Committed(stage, found) = DOMAIN history \cup {stage}
      /\ \A s \in DOMAIN history \ {stage} : Committed(stage, found)[s] = history[s]
      /\ Committed(stage, found)[stage] = found
  BY DEF Committed
<1>2. SUFFICES ASSUME NEW s \in Described(Committed(stage, found))
               PROVE  LET h == Committed(stage, found) IN
                      /\ h[s] \in Seq(Cands) /\ IsInjective(Ids(h[s]))
                      /\ mode = "joint" => \A i \in DOMAIN h[s] : h[s][i].mark # "eliminated"
  BY DEF Named
<1>3. CASE s = stage  BY <1>1, <1>3 DEF Described
<1>4. CASE s # stage  BY <1>1, <1>4 DEF Described, Named
<1> QED BY <1>3, <1>4

\* A step that leaves no local stage running.
LEMMA NamesNext ==
    ASSUME mode' = mode, work' = NoWork,
           Live' => Named(history'), Told(pending'), Told(store')
    PROVE  NameInv'
<1>1. /\ Named(history)' = Named(history')
      /\ Told(pending)' = Told(pending') /\ Told(store)' = Told(store')
  BY DEF Told, Named, None
<1> QED BY <1>1 DEF NameInv, NoWork

\* A stage is committed and published.
LEMMA CommitNames ==
    ASSUME NameInv, phase = "searching", NEW stage \in {"B", "C", "D", "E"},
           NEW found \in Seq(Cands), NEW left, NEW next, Commit(stage, found, left, next),
           IsInjective(Ids(found)),
           mode = "joint" => \A i \in DOMAIN found : found[i].mark # "eliminated"
    PROVE  NameInv'
<1>1. /\ history' = Committed(stage, found) /\ work' = NoWork
      /\ pending' = build_checkpoint(stage, history', skipped)
      /\ mode' = mode /\ store' = store
  BY DEF Commit
<1>2. Named(history) /\ Told(store)  BY DEF NameInv, Live
<1>3. Named(history')  BY <1>1, <1>2, CommittedNames
<1> QED BY <1>1, <1>2, <1>3, PublishedTold, NamesNext

\* Stage B keeps candidates of different lines.
LEMMA StageBNames ==
    ASSUME IInv', DataInv', NameInv, StageB PROVE NameInv'
<1>1. PICK found, left : Commit("B", found, left, "C")  BY DEF StageB
<1>2. /\ mode' = "single" /\ phase' = "searching" /\ history' = Committed("B", found)
      /\ phase = "searching" /\ mode = "single"
  BY <1>1 DEF Commit, StageB, Running
<1>3. Documented(history)'  BY <1>2 DEF DataInv, Live
<1>4. "B" \in DOMAIN history' /\ history'["B"] = found
  BY <1>2 DEF Committed
<1>5. Distinct(found)  BY <1>3, <1>4 DEF Documented, Archived, Distinct
<1>6. found \in Seq(Cands) /\ IsInjective(Ids(found))
  BY <1>5, LinesTell DEF Distinct
<1> QED BY <1>1, <1>2, <1>6, CommitNames

\* Stage E numbers its seeds.
LEMMA StageENames == ASSUME SearchAssumption, NameInv, StageE PROVE NameInv'
<1>1. CASE Fail
  BY <1>1, NamesNext DEF Fail, Forget, Live, Told
<1>2. CASE ~Fail
  <2>1. PICK cost \in [1 .. FinalSeeds -> Refined] :
          Commit("E", [k \in 1 .. FinalSeeds |-> Candidate(k - 1, 0, cost[k])], <<>>, "done")
    BY <1>2 DEF StageE
  <2> DEFINE found == [k \in 1 .. FinalSeeds |-> Candidate(k - 1, 0, cost[k])]
  <2>2. phase = "searching" /\ mode = "single"  BY DEF StageE, Running
  <2>3. found \in Seq(Cands) /\ IsInjective(Ids(found))
    <3> HIDE DEF found
    <3>1. \A k \in 1 .. FinalSeeds : cost[k] \in Refined  OBVIOUS
    <3>2. \A k \in 1 .. FinalSeeds : cost[k] \in Nat  BY <3>1 DEF SearchAssumption
    <3> QED BY <3>2, SeedsNamed DEF found
  <2> HIDE DEF found
  <2> QED BY <2>1, <2>2, <2>3, CommitNames DEF found
<1> QED BY <1>1, <1>2

\* The one candidate of a joint stage, or one seed more.
LEMMA JointNames ==
    ASSUME SearchAssumption, IInv, IInv', NameInv, JointStage \/ _run_stage_e_prefix
    PROVE  NameInv'
<1>0. mode = "joint" /\ phase = "searching"  BY DEF JointStage, _run_stage_e_prefix, Running
<1>1. CASE Fail
  BY <1>1, NamesNext DEF Fail, Forget, Live, Told
<1>2. ASSUME NEW stage, NEW line \in Nat, NEW c \in JointCandidate(stage, line)
      PROVE  c \in Cands /\ c.mark # "eliminated"
  <2>1. PICK cost \in Costs :
          LET kept == Candidate(line, 0, cost)
          IN c = kept \/ c = [kept EXCEPT !.mark = "raised"]
    BY DEF JointCandidate
  <2>2. cost \in Nat  BY DEF SearchAssumption
  <2> QED BY <2>1, <2>2 DEF Candidate, Cands
<1>3. CASE JointStage /\ ~Fail
  <2>1. PICK c \in JointCandidate(at, 0) : Commit(at, <<c>>, <<>>, After(at))
    BY <1>3 DEF JointStage
  <2>2. c \in Cands /\ c.mark # "eliminated"  BY <1>2
  <2>3. <<c>> \in Seq(Cands) /\ \A i \in DOMAIN <<c>> : <<c>>[i].mark # "eliminated"
    BY <2>2
  <2>4. IsInjective(Ids(<<c>>))  BY LinesTell
  <2>5. at \in {"B", "C", "D", "E"}  BY <1>3 DEF JointStage
  <2> QED BY <1>0, <2>1, <2>3, <2>4, <2>5, CommitNames
<1>4. CASE _run_stage_e_prefix /\ ~Fail
  <2> DEFINE old == IF _completed_stage_e > 0 THEN history["E"] ELSE <<>>
  <2>0. at = "E"  BY <1>4 DEF _run_stage_e_prefix, Running
  <2>1. PICK c \in JointCandidate("E", _completed_stage_e) :
          Commit("E", old \o <<c>>, <<>>, IF _completed_stage_e + 1 < FinalSeeds THEN "E" ELSE "done")
    BY <1>4 DEF _run_stage_e_prefix, FinalSeed
  <2>2. "E" \in DOMAIN history => Ensemble(history["E"])
    BY <1>0, <2>0, RunsIn DEF Stages
  <2>3. _completed_stage_e \in Nat /\ (_completed_stage_e > 0 => "E" \in DOMAIN history)
    BY <2>2 DEF _completed_stage_e, Ensemble
  <2>4. c \in Cands /\ c.mark # "eliminated"  BY <1>2, <2>3
  <2>5. old \in Seq(Cands) /\ \A i \in DOMAIN old : old[i].mark # "eliminated"
    BY <1>0, <2>3 DEF NameInv, Live, Named, Described
  <2> HIDE DEF old
  <2> DEFINE found == old \o <<c>>
  <2>6. /\ found \in Seq(Cands)
        /\ \A i \in DOMAIN found : found[i].mark # "eliminated"
    BY <2>4, <2>5
  <2>7. mode' = mode /\ phase' = phase /\ history' = Committed("E", found)
    BY <2>1 DEF Commit
  <2> HIDE DEF found
  <2>8. "E" \in DOMAIN history' /\ history'["E"] = found  BY <2>7 DEF Committed
  <2>9. Ensemble(history["E"])'  BY <1>0, <2>7, <2>8 DEF IInv, MemoryInv, Live
  <2>10. Ensemble(found)  BY <2>8, <2>9 DEF Ensemble
  <2>11. \A i, j \in DOMAIN found : found[i].line = found[j].line => i = j
    BY <2>6, <2>10 DEF Ensemble
  <2>12. IsInjective(Ids(found))  BY <2>11, LinesTell
  <2> QED BY <1>0, <2>1, <2>6, <2>12, CommitNames DEF found
<1> QED BY <1>1, <1>3, <1>4

\* The first round, and each further one, gives new identifiers.
LEMMA RoundNames ==
    ASSUME SearchAssumption, WorkInv, DataInv, NameInv, LocalRound PROVE NameInv'
<1>1. /\ work # NoWork /\ UNCHANGED <<mode, phase, history, pending, store>>
      /\ mode = "single" /\ RoundInv
  BY DEF LocalRound, WorkInv, DataInv
<1>2. PICK new \in Seq(Cands) :
        /\ Len(new) = Len(next_local_round)
        /\ \A k \in 1 .. Len(new) :
             /\ new[k].line = next_local_round[k] /\ new[k].mark = "kept"
             /\ new[k].round = Cardinality(Group(work.found, next_local_round[k]))
        /\ work' = [work EXCEPT !.found = work.found \o new]
  BY RoundAdds
<1>3. /\ work.found \in Seq(Cands)
      /\ \A k, m \in DOMAIN next_local_round :
           next_local_round[k] = next_local_round[m] => k = m
      /\ next_local_round \in Seq(0 .. work.lineages - 1)
  BY RoundAdds
<1>4. DOMAIN new = 1 .. Len(new) /\ DOMAIN next_local_round = 1 .. Len(new)
  BY <1>2, <1>3
<1>5. NextRound(work.found, new)  BY <1>2, <1>3, <1>4 DEF NextRound
<1>6. Counted(work.found)  BY <1>1 DEF NameInv
<1>7. Counted(work.found \o new)  BY <1>2, <1>3, <1>5, <1>6, OneMoreRound
<1>8. work'.found = work.found \o new  BY <1>1, <1>2 DEF RoundInv
<1>9. /\ Counted(work.found)' = Counted(work'.found)
      /\ Named(history)' = Named(history) /\ Live' = Live
      /\ Told(pending)' = Told(pending) /\ Told(store)' = Told(store)
  BY <1>1 DEF Counted, Group, Named, Told, Live, None
<1> QED BY <1>7, <1>8, <1>9 DEF NameInv

\* A local stage begins without candidates.
LEMMA StartNames == ASSUME NameInv, StartLocal PROVE NameInv'
<1>1. UNCHANGED <<mode, phase, history, pending, store>> /\ work'.found = <<>>
  BY DEF StartLocal
<1>2. Counted(work.found)'  BY <1>1 DEF Counted, IsInjective, Ids, Group
<1>3. /\ Named(history)' = Named(history) /\ Live' = Live
      /\ Told(pending)' = Told(pending) /\ Told(store)' = Told(store)
  BY <1>1 DEF Named, Told, Live, None
<1> QED BY <1>2, <1>3 DEF NameInv

\* What the rounds found is committed.
LEMMA CommitLocalNames == ASSUME WorkInv, DataInv, NameInv, CommitLocal PROVE NameInv'
<1>1. /\ work # NoWork /\ phase = "searching" /\ mode = "single" /\ at \in {"C", "D"}
      /\ RoundInv
  BY DEF CommitLocal, WorkInv, DataInv
<1>2. work.found \in Seq(Cands) /\ IsInjective(Ids(work.found))
  BY <1>1 DEF RoundInv, AllKept, NameInv, Counted
<1> QED BY <1>1, <1>2, CommitNames DEF CommitLocal

\* A search goes on with the candidates its checkpoint tells.
LEMMA BeginNames == ASSUME NameInv, BeginSearch PROVE NameInv'
<1>1. CASE Refuse
  BY <1>1, NamesNext DEF BeginSearch, Refuse, Forget, Live, Told
<1>2. CASE Resume
  <2>1. /\ work' = NoWork /\ mode' = mode /\ pending' = store /\ store' = store /\ Told(store)
    BY <1>2 DEF BeginSearch, Resume, NameInv
  <2>2. Named(history')
    <3>1. CASE store = None
      <4>1. DOMAIN history' = {}  BY <1>2, <3>1 DEF Resume, NoStages
      <4> QED BY <4>1 DEF Named, Described
    <3>2. CASE store # None
      <4>1. Named(store.history)  BY <2>1, <3>2 DEF Told
      <4>2. /\ DOMAIN history' = DOMAIN store.history \cup {"A"}
            /\ \A s \in DOMAIN store.history : history'[s] = store.history[s]
        BY <1>2, <3>2 DEF Resume
      <4>3. /\ Described(history') = Described(store.history)
            /\ \A s \in Described(history') : history'[s] = store.history[s]
        BY <4>2 DEF Described
      <4> QED BY <4>1, <4>3 DEF Named
    <3> QED BY <3>1, <3>2
  <2> QED BY <2>1, <2>2, NamesNext
<1> QED BY <1>1, <1>2 DEF BeginSearch

\* Stage A, skips, the end of a search and recovery commit nothing new but E.
LEMMA OtherNames ==
    ASSUME SearchAssumption, IInv, WorkInv, NameInv,
           StageA \/ StageSkipped \/ Finish \/ continue_profile_basin \/ Abort
    PROVE  NameInv'
<1>0. Told(pending) /\ Told(store) /\ Told(None)  BY DEF NameInv, Told
<1>1. CASE StageA
  <2>1. CASE Fail  BY <1>0, <2>1, NamesNext DEF Fail, Forget, Live
  <2>2. CASE ~Fail
    <3>1. /\ history' = Committed("A", <<>>) /\ phase = "searching" /\ work = NoWork
          /\ UNCHANGED <<mode, work, pending, store>>
      BY <1>1, <2>2 DEF StageA, Running
    <3>2. Named(history')  BY <3>1, CommittedNames DEF NameInv, Live
    <3> QED BY <1>0, <3>1, <3>2, NamesNext
  <2> QED BY <2>1, <2>2
<1>2. CASE StageSkipped
  <2>1. /\ mode' = mode /\ work' = NoWork /\ store' = store /\ history' = history
        /\ pending' = pending \/ pending' = build_checkpoint(at, history, skipped \cup {at})
        /\ Named(history)
    BY <1>2 DEF StageSkipped, SkipToEnd, SkipOn, NameInv, Live
  <2> QED BY <1>0, <2>1, PublishedTold, NamesNext
<1>3. CASE Finish
  <2>1. /\ mode' = mode /\ work' = NoWork /\ UNCHANGED <<history, pending>>
        /\ store' \in {store, pending, None} /\ Named(history)
    BY <1>3 DEF Finish, memory, WorkInv, NameInv, Live
  <2> QED BY <1>0, <2>1, NamesNext
<1>4. CASE continue_profile_basin
  <2>1. /\ mode' = mode /\ work' = NoWork /\ store' = pending' /\ phase' = "ended"
        /\ mode = "single" /\ Named(history)
    BY <1>4 DEF continue_profile_basin, WorkInv, IInv, MemoryInv, Live, NameInv
  <2>2. CASE pending' = pending  BY <1>0, <2>1, <2>2, NamesNext DEF Live
  <2>3. ASSUME NEW cost \in [1 .. FinalSeeds -> Costs],
               history' = Committed("E", [k \in 1 .. FinalSeeds |-> Candidate(k - 1, 0, cost[k])]),
               pending' = [build_checkpoint("E", history', skipped) EXCEPT !.seeds = 2 + FinalSeeds]
        PROVE  Told(pending')
    <3> DEFINE found == [k \in 1 .. FinalSeeds |-> Candidate(k - 1, 0, cost[k])]
               c == build_checkpoint("E", history', skipped)
    <3>1. found \in Seq(Cands) /\ IsInjective(Ids(found))  BY SeedsNamed DEF SearchAssumption
    <3> HIDE DEF found
    <3>2. Named(history')  BY <2>1, <2>3, <3>1, CommittedNames DEF found
    <3>3. Told(c)  BY <3>2, PublishedTold
    <3>4. c # None  BY NoneHasNoStage
    <3>5. pending'.history = c.history /\ pending'.summaries = c.summaries
      BY <2>3 DEF build_checkpoint
    <3> HIDE DEF c
    <3> QED BY <3>3, <3>4, <3>5 DEF Told
  <2>4. Told(pending')  BY <1>0, <1>4, <2>3 DEF continue_profile_basin
  <2> QED BY <2>1, <2>4, NamesNext DEF Live
<1>5. CASE Abort
  BY <1>0, <1>5, NamesNext DEF Abort, Forget, Live
<1> QED BY <1>1, <1>2, <1>3, <1>4, <1>5

LEMMA StayNames == ASSUME NameInv, UNCHANGED vars PROVE NameInv'
<1>1. UNCHANGED <<mode, phase, history, work, pending, store>>  BY DEF vars, memory
<1>2. /\ Named(history)' = Named(history) /\ Live' = Live
      /\ Told(pending)' = Told(pending) /\ Told(store)' = Told(store)
      /\ (work # NoWork => Counted(work.found))' = (work # NoWork => Counted(work.found))
  BY <1>1 DEF Named, Told, Live, None, NoWork, Counted, Group
<1> QED BY <1>2 DEF NameInv

LEMMA InitNames == Init => NameInv
BY DEF Init, NameInv, Live, Told

\* Everything that is known of a search, in every state.
LEMMA InductiveNames == Spec => [](IInv /\ NameInv)
<1>1. ASSUME IInv, WorkInv, DataInv, NameInv, IInv', DataInv', [Next]_vars PROVE NameInv'
  <2>1. CASE BeginSearch  BY <1>1, <2>1, BeginNames
  <2>2. CASE StageA \/ StageSkipped \/ Finish \/ continue_profile_basin \/ Abort
    BY <1>1, <2>2, OtherNames, SearchAssumption
  <2>3. CASE StageB  BY <1>1, <2>3, StageBNames
  <2>4. CASE StartLocal \/ LocalRound
    BY <1>1, <2>4, StartNames, RoundNames, SearchAssumption
  <2>5. CASE CommitLocal  BY <1>1, <2>5, CommitLocalNames
  <2>6. CASE StageE \/ JointStage \/ _run_stage_e_prefix
    BY <1>1, <2>6, StageENames, JointNames, SearchAssumption
  <2>7. CASE Over \/ UNCHANGED vars  BY <1>1, <2>7, StayNames DEF Over
  <2> QED BY <1>1, <2>1, <2>2, <2>3, <2>4, <2>5, <2>6, <2>7 DEF Next, Step
<1> QED BY <1>1, InitNames, InductiveData, PTL DEF Spec

-----------------------------------------------------------------------------
(* The theorems.                                                           *)

\* Every checkpoint that a search publishes or a project keeps is accepted by
\* validate_resume_checkpoint if its candidates evaluate as recorded: for
\* every order of skips, cancellations and resumed searches, and any number
\* of seeds.
THEOREM Accepts == Spec => []CheckpointsResume
<1>1. ASSUME IInv, NameInv PROVE CheckpointsResume
  <2> SUFFICES ASSUME NEW c \in {pending, store}, c # None, _validate_candidate_layout(c)
               PROVE  Accepted(c)
    BY DEF CheckpointsResume
  <2>1. Staged(c) /\ _validate_seeds(c)  BY <1>1 DEF IInv, Good
  <2>2. Named(c.history) /\ c.summaries = Summaries(c.history)
    BY <1>1 DEF NameInv, Told
  <2>3. \A s \in Described(c.history) : c.summaries[s] = _summary(c.history[s])
    BY <2>2 DEF Summaries
  <2>4. _validate_candidate_order(c)
    <3>0. \A found : _summary(found).candidate_ids = Ids(found)  BY DEF _summary
    <3>1. \A s \in Described(c.history) :
            c.summaries[s].candidate_ids = Ids(c.history[s])
      BY <2>3, <3>0
    <3> QED BY <2>2, <3>1 DEF _validate_candidate_order, Named
  <2>5. _validate_summaries(c)
    <3> SUFFICES ASSUME NEW s \in Described(c.history)
                 PROVE  /\ mode = "joint" => \A i \in DOMAIN c.history[s] :
                                              c.history[s][i].mark # "raised"
                        /\ BestCost(c.history[s], DOMAIN c.history[s])
                              = _summary_best_objective(c.history[s])
      BY <2>3 DEF _validate_summaries, _summary
    <3> DEFINE found == c.history[s]
    <3>1. /\ found \in Seq(Cands)
          /\ mode = "joint" => \A i \in DOMAIN found : found[i].mark # "eliminated"
      BY <2>2 DEF Named
    <3>2. \A i \in DOMAIN found : found[i] \in Found(c)
      BY DEF Found, Described, Range
    <3>3. \A i \in DOMAIN found : found[i].mark # "raised"
      BY <3>2 DEF _validate_candidate_layout, Rederivable
    <3> HIDE DEF found
    <3>4. mode = "joint" => \A i \in DOMAIN found : found[i].mark = "kept"
      BY <3>1, <3>3, Candidates
    <3>5. mode = "joint" => BestCost(found, DOMAIN found) = _joint_best_objective(found)
      BY <3>1, <3>4, BestIsLeast, SearchAssumption
    <3> QED BY <3>3, <3>5 DEF _summary_best_objective, found
  <2> QED BY <2>1, <2>4, <2>5 DEF Accepted, Staged, _validate_history
<1> QED BY <1>1, InductiveNames, PTL

\* While a search runs, whoever took up its newest checkpoint would be at the
\* same stage with the same history and skips, and would continue the same
\* candidates with the same restart budgets, which are not in the checkpoint:
\* run_fit_search against resume_fit_search, for every archive and any costs.
THEOREM ResumesExactly == Spec => []ResumeIsExact
<1>1. ASSUME IInv, DataInv PROVE ResumeIsExact
  BY <1>1 DEF IInv, MirrorInv, TakenUpAlike, DataInv, ContinuedAlike, ResumeIsExact
<1> QED BY <1>1, InductiveData, PTL

\* The archive of stage B moves restarts and loses none, and D spends what C
\* spent: the pool of a local stage is (base + 1) for every candidate of B or
\* one for every candidate of C, and no round exceeds it.
THEOREM KeepsBudget == Spec => []BudgetKept
<1>1. ASSUME WorkInv, DataInv PROVE BudgetKept
  BY <1>1 DEF WorkInv, DataInv, BudgetKept
<1> QED BY <1>1, InductiveData, PTL

\* A candidate that archive_stage_b_candidates marked is in no later stage,
\* whichever stages were skipped in whichever of several searches.
THEOREM ArchivedStaysDead == Spec => []ArchiveStaysDead
<1>1. ASSUME IInv, DataInv PROVE ArchiveStaysDead
  <2> SUFFICES ASSUME phase = "searching", mode = "single", at \in {"C", "D", "E"}
               PROVE  \A k \in DOMAIN Continuation(counts).parents :
                        Continuation(counts).parents[k].mark # "eliminated"
    BY DEF ArchiveStaysDead
  <2>1. Documented(history)  BY <1>1 DEF DataInv, Live
  <2>2. DOMAIN history = Before(at) \ skipped /\ skipped \subseteq Before(at) \ {"A", "B"}
    BY <1>1, RunsIn DEF Stages
  <2>3. "B" \in DOMAIN history  BY <2>2, Order
  <2>4. Nominal[at] \in {"B", "C", "D"}  BY DEF Nominal
  <2> QED BY <2>1, <2>3, <2>4, ParentsLive DEF Continuation
<1> QED BY <1>1, InductiveData, PTL

\* A kept checkpoint is never taken back: what replaces it has its stages,
\* skips and joint seeds, or a better ensemble.
THEOREM KeepsProgress == Spec => StoreGrows
<1>1. ASSUME IInv, [Next]_vars
      PROVE  [store # None =>
                IF store' # None THEN Extends(store', store)
                ELSE phase' = "failed" \/ (phase' = "ended" /\ ~HasWinner)]_vars
  BY <1>1, StoreStep, SearchAssumption
<1> QED BY <1>1, Inductive, PTL DEF Spec, StoreGrows
=============================================================================
