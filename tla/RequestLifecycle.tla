-------------------------- MODULE RequestLifecycle --------------------------
(***************************************************************************)
(* What the checkpoint pipeline promises for each run, with no process,    *)
(* lock or crash in sight: a run is claimed once or missed, is offered for *)
(* execution only with its evidence fixed, and ends completed, refused or  *)
(* retired; only a known false refusal may be reopened.                    *)
(***************************************************************************)
EXTENDS Naturals

CONSTANTS
    Runs,
    Reopenable,   \* runs whose refusal is known to be false
    Snaps,        \* snapshots that can be evidence
    Terminal,     \* the outcomes of an executed run
    NoOutcome, NoBundle

VARIABLES stage, evidence, outcome

lifecycleVars == <<stage, evidence, outcome>>

Stages == {"unclaimed", "claimed", "pending", "completed", "refused", "retired", "missed"}

Moves ==
    [s \in Stages |->
        CASE s = "unclaimed" -> {"claimed", "missed"}
          [] s = "claimed"   -> {"pending", "refused", "retired"}
          [] s = "pending"   -> {"completed", "refused", "retired"}
          [] OTHER           -> {}]

LifecycleInit ==
    /\ stage \in [Runs -> {"unclaimed", "refused"}]
    /\ \A r \in Runs : stage[r] = "refused" => r \in Reopenable
    /\ evidence \in [Runs -> Snaps \cup {NoBundle}]
    /\ outcome = [r \in Runs |-> NoOutcome]

\* One run or, in a retirement, several move on; only a run with evidence is offered.
Move ==
    /\ stage' \in [Runs -> Stages]
    /\ \A r \in Runs : \/ stage'[r] = stage[r]
                       \/ stage'[r] \in Moves[stage[r]]
                       \/ r \in Reopenable /\ stage[r] = "refused" /\ stage'[r] = "pending"
    /\ \A r \in Runs : stage'[r] = "pending" => evidence[r] # NoBundle
    /\ UNCHANGED <<evidence, outcome>>

\* The evidence of a claim is fixed once.
FixEvidence(r, s) ==
    /\ stage[r] = "claimed" /\ evidence[r] = NoBundle
    /\ evidence' = [evidence EXCEPT ![r] = s]
    /\ UNCHANGED <<stage, outcome>>

\* Only a completed run has an outcome, and it never changes.
RecordOutcome(r, o) ==
    /\ stage[r] = "completed" /\ outcome[r] = NoOutcome
    /\ outcome' = [outcome EXCEPT ![r] = o]
    /\ UNCHANGED <<stage, evidence>>

LifecycleNext ==
    \/ Move
    \/ \E r \in Runs, s \in Snaps : FixEvidence(r, s)
    \/ \E r \in Runs, o \in Terminal : RecordOutcome(r, o)

LifecycleSpec == LifecycleInit /\ [][LifecycleNext]_lifecycleVars
=============================================================================
