------------------------- MODULE SnapshotRetention -------------------------
(***************************************************************************)
(* Snapshots nobody claimed, and the bounded retention that deletes the    *)
(* old ones (platform/warehouse_snapshot, the `snapshot` commands of       *)
(* platform/wizard_runtime).  The runtime computes the protected ids under *)
(* the writer lock; `snapshot create` and `snapshot prune` compute them    *)
(* before they wait for it.                                                *)
(***************************************************************************)
EXTENDS CheckpointPrepare

CONSTANT Keep      \* snapshot_retention: unprotected snapshots kept

ASSUME RetentionAssumption == Keep \in Nat \ {0}

Pruners == {Runtime} \cup Operators

\* _periodic_snapshot and `snapshot create`: a snapshot no claim asked for.
PeriodicSnapshot(p) ==
    /\ pc[p] = "idle" /\ nextSnap + Reserve <= MaxSnaps
    /\ DrawSnapshot(p)
    /\ UNCHANGED <<lock, clockVars, tables, bundle, published, copy, upload, result,
                   sel, budget, excl, prot>>

\* _protected_snapshots(layout), evaluated while building prune_snapshots' arguments.
ReadProtected(p) ==
    /\ pc[p] \in {"idle", "cliRead"}
    /\ prot' = [prot EXCEPT ![p] = ProtectedIn(req)]
    /\ Goto(p, "cliPrune")
    /\ UNCHANGED <<lock, clockVars, tables, files, sel, sid, budget, excl>>

BeginStalePrune(p) ==
    /\ Acquire(p, "cliPrune", "prune")
    /\ UNCHANGED <<clockVars, tables, files, locals>>

\* The runtime and `checkpoint retire` pass a callable, evaluated under the lock.
BeginPrune(p) ==
    /\ Acquire(p, "wantPrune", "prune")
    /\ prot' = [prot EXCEPT ![p] = ProtectedIn(req)]
    /\ UNCHANGED <<clockVars, tables, files, sel, sid, budget, excl>>

PruneOne(p) ==
    /\ pc[p] = "prune" /\ Doomed(prot[p], Keep) # {}
    /\ published' = published \ {Earliest(Doomed(prot[p], Keep))}
    /\ UNCHANGED <<lock, clockVars, tables, bundle, copy, nextSnap, upload, result, pc, locals>>

PruneDone(p) ==
    /\ pc[p] = "prune" /\ Doomed(prot[p], Keep) = {}
    /\ Finish(p)
    /\ UNCHANGED <<clockVars, tables, files>>

\* What a pruner does once it has begun, and what makes it begin.
PruneStep(p) == BeginPrune(p) \/ PruneOne(p) \/ PruneDone(p)

OperatorPrune(p) == ReadProtected(p) \/ BeginStalePrune(p)

RetentionNext ==
    \/ \E p \in Pruners : PeriodicSnapshot(p) \/ PruneStep(p)
    \/ \E p \in Operators : OperatorPrune(p)
=============================================================================
