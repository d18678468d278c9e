------------------------- MODULE WalkForwardBacktest -------------------------
(***************************************************************************)
(* The walk-forward backtest: the folds of a plan are executed one after   *)
(* another (backtest/runner.py), each over its checkpoints                 *)
(* (backtest/historical.py), and each checkpoint's predictions get an      *)
(* out-of-fold calibrated probability (calibration/oof.py) from the        *)
(* calibration history that the caller hands to the fold.  Here the Games  *)
(* of WalkForward are predictions; those with the same time are one        *)
(* checkpoint.  Probabilities are not computed: a calibrated row keeps the *)
(* predictions its calibrator was fitted on and those its method was       *)
(* chosen by, with what their own candidates were fitted on.               *)
(***************************************************************************)
EXTENDS WalkForward

CONSTANTS
    Plans,          \* sequences of folds a manifest may declare
    MinSamples      \* calibration_min_samples

ASSUME MinSamplesPositive == MinSamples \in Nat \ {0}

VARIABLES
    plan,
    phase,      \* "between" folds, "fold", "done", "refused"
    current,    \* number of the fold under execution, or of the last one
    history,    \* calibration_history of the fold
    todo,       \* its checkpoints still to come
    visited,    \* [fold, checkpoint] predicted so far
    rows,       \* [item, fold, fit, select]
    excluded    \* [item, fold]

backtestVars == <<plan, phase, current, history, todo, visited, rows, excluded>>

Checkpoints == AsOf(Games)

\* WalkForwardPlan
BacktestInit ==
    /\ plan \in Plans
    /\ phase = IF Expanding(plan) THEN "between" ELSE "refused"
    /\ current = 0 /\ history = {} /\ todo = {} /\ visited = {}
    /\ rows = {} /\ excluded = {}

InWindow(t) == plan[current'].scoreStart <= t /\ t <= plan[current'].scoreEnd

\* _validate_calibration_history
Frozen(h) == \A i \in h : facts.known[i] < plan[current'].scoreStart

\* The caller hands over any of the rows that earlier folds calibrated.
StartFold(h, checkpoints) ==
    /\ phase = "between" /\ current < Len(plan)
    /\ h \subseteq {r.item : r \in rows}
    /\ current' = current + 1
    /\ IF (\A t \in checkpoints : InWindow(t)) /\ Frozen(h)
       THEN phase' = "fold" /\ history' = h /\ todo' = checkpoints
       ELSE phase' = "refused" /\ UNCHANGED <<history, todo>>
    /\ UNCHANGED <<plan, visited, rows, excluded>>

-----------------------------------------------------------------------------
(* _prepare_scoreable_rows *)

\* reconcile_settlement_stats: a null statistic is zero when the team's totals leave
\* nothing for it; else nothing settles it.
Outcome(i) ==
    IF facts.outcome[i] # "null" THEN facts.outcome[i]
    ELSE IF i \in facts.proved THEN "under" ELSE "unsettled"

\* No result for it, a push, or no raw probability.
Excluded(i) == Outcome(i) \in {"unsettled", "push", "no probability"}

BothClasses(items) == {Outcome(i) : i \in items} = {"over", "under"}

-----------------------------------------------------------------------------
(* prequential_oof_calibrate, of the history and one checkpoint's items *)

\* hierarchy_candidates, in this order
Levels == <<"prop_family", "position", "global">>

SameGroup(level, i, k) ==
    CASE level = "prop_family" -> facts.prop[i] = facts.prop[k]
      [] level = "position" -> facts.position[i] = facts.position[k]
      [] OTHER -> TRUE

Enough(items) == Cardinality(items) >= MinSamples /\ BothClasses(items)

\* Mutant: whatever was predicted earlier may be fitted on.
PredictedBefore(items, t) == {k \in items : facts.asOf[k] < t}

KnownBefore(items, t) == {k \in items : facts.known[k] < t}

\* What an item's group is fitted on when the item is predicted.
FitOf(items, level, i) ==
    {k \in KnownBefore(items, facts.asOf[i]) : SameGroup(level, i, k)}

\* pending: the group's earlier items that were given candidate
\* probabilities, chosen among once their outcome is known.
SelectOf(items, level, i) ==
    {k \in items :
        /\ SameGroup(level, i, k)
        /\ facts.asOf[k] < facts.asOf[i] /\ facts.known[k] < facts.asOf[i]
        /\ Enough(FitOf(items, level, k))}

\* The narrowest group with a calibrator and a method; else the identity.
CalibratedAt(items, i) ==
    LET usable == {n \in DOMAIN Levels :
                      /\ Enough(FitOf(items, Levels[n], i))
                      /\ Enough(SelectOf(items, Levels[n], i))}
    IN IF usable = {} THEN [fit |-> {}, select |-> {}]
       ELSE [fit |-> FitOf(items, Levels[Min(usable)], i),
             select |-> {[item |-> k, fit |-> FitOf(items, Levels[Min(usable)], k)] :
                            k \in SelectOf(items, Levels[Min(usable)], i)}]

CalibratedRow(items, i) ==
    [item |-> i, fold |-> current,
     fit |-> CalibratedAt(items, i).fit, select |-> CalibratedAt(items, i).select]

-----------------------------------------------------------------------------
(* execute_historical_fold, run_walkforward *)

Predicted(t) == {i \in Games : facts.asOf[i] = t}

Visit ==
    /\ phase = "fold" /\ todo # {}
    /\ LET t == Min(todo)
           scoreable == {i \in Predicted(t) : ~Excluded(i)}
       IN /\ todo' = todo \ {t}
          /\ visited' = visited \cup {[fold |-> current, checkpoint |-> t]}
          /\ excluded' = excluded \cup
                {[item |-> i, fold |-> current] : i \in Predicted(t) \ scoreable}
          /\ rows' = rows \cup {CalibratedRow(history \cup scoreable, i) : i \in scoreable}
    /\ UNCHANGED <<plan, phase, current, history>>

Scored(n) == {r.item : r \in {x \in rows : x.fold = n}}

\* validate_outer_target_disjoint, of what the caller says it trained on
EndFold(training) ==
    /\ phase = "fold" /\ todo = {}
    /\ phase' = IF (training \cup history) \cap Scored(current) = {}
                THEN IF current = Len(plan) THEN "done" ELSE "between"
                ELSE "refused"
    /\ UNCHANGED <<plan, current, history, todo, visited, rows, excluded>>

BacktestNext ==
    \/ \E h \in SUBSET Games, cs \in SUBSET Checkpoints \ {{}} : StartFold(h, cs)
    \/ Visit
    \/ \E training \in SUBSET Games : EndFold(training)

-----------------------------------------------------------------------------
(* Safety. *)

\* A probability is calibrated by outcomes known strictly before it was
\* predicted, with a method chosen by probabilities that were themselves out
\* of sample (prequential_oof_calibrate).
CalibratedFromThePast ==
    \A r \in rows :
        /\ \A k \in r.fit : k # r.item /\ facts.known[k] < facts.asOf[r.item]
        /\ \A c \in r.select :
              /\ c.item # r.item /\ facts.known[c.item] < facts.asOf[r.item]
              /\ \A k \in c.fit : k # c.item /\ facts.known[k] < facts.asOf[c.item]

=============================================================================
