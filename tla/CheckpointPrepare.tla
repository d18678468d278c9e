------------------------- MODULE CheckpointPrepare -------------------------
(***************************************************************************)
(* One preparation pass (platform/checkpoint_prepare): claim due official  *)
(* checkpoints, record their requests, apply the execution gate, then --   *)
(* outside the lock -- select claims, snapshot the warehouse with the      *)
(* claims protecting the snapshot first, and publish a request bundle for  *)
(* each.  The runtime's passes are bounded, exclude deferred slots and     *)
(* gate; `checkpoint manual` finishes every claim and does not gate.       *)
(***************************************************************************)
EXTENDS CheckpointStore

CONSTANTS
    BatchLimit,    \* checkpoint_batch_limit: checkpoints per runtime pass
    ExclusionSets, \* slot sets the retry book may defer for one pass
    Reserve        \* bound: snapshot ids kept back for preparation passes

ASSUME PrepareAssumption ==
    /\ BatchLimit \in Nat \ {0}
    /\ ExclusionSets \subseteq SUBSET Runs
    /\ Reserve \in Nat

Preparers == {Runtime} \cup Manuals

Unprepared(skip) ==
    {r \in Runs \ skip : \/ req[r].state = "PREPARING"
                         \/ run[r].status = "SCHEDULED" /\ req[r].state = "NONE"}

DueSlots(skip) ==
    {r \in Runs \ (ManualRuns \cup skip) : when[r] # "early" /\ run[r].status = "NONE"}

\* Requests the execution gate still has to retain as NOT_EXECUTABLE.
Blocked == {r \in NoEvidence : req[r].state \in {"PREPARING", "PENDING"}}

\* preparation_work_pending
WorkPending(skip) ==
    \/ DueSlots(skip) # {}
    \/ Unprepared(skip) # {}
    \/ \E r \in NoEvidence : req[r].state = "PENDING"

BeginPass(skip) ==
    /\ WorkPending(skip)
    /\ Acquire(Runtime, "idle", "claim")
    /\ excl' = [excl EXCEPT ![Runtime] = skip]
    /\ LET claims == Cardinality(Unprepared(skip))
       IN budget' = [budget EXCEPT ![Runtime] =
                        IF claims < BatchLimit THEN BatchLimit - claims ELSE 0]
    /\ UNCHANGED <<clockVars, tables, files, sel, sid, prot>>

ToClaim == IF budget[Runtime] = 0 THEN {} ELSE DueSlots(excl[Runtime])

\* A slot first seen at or after its kickoff is recorded as missed.
Claim(r) ==
    /\ pc[Runtime] = "claim" /\ r \in ToClaim /\ r = Earliest(ToClaim)
    /\ IF when[r] = "due" THEN ClaimRun(r, "SCHEDULED", "NONE")
                          ELSE ClaimRun(r, "FAILED", "MISSED")
    /\ budget' = [budget EXCEPT ![Runtime] = @ - 1]
    /\ UNCHANGED <<lock, clockVars, req, artifacts, results, retired, repaired, files, pc,
                   sel, sid, excl, prot>>

ClaimsDone ==
    /\ pc[Runtime] = "claim" /\ ToClaim = {}
    /\ Goto(Runtime, "record")
    /\ UNCHANGED <<lock, clockVars, tables, files, locals>>

\* prepare_manual_checkpoint: claim one MANUAL identity.
ManualClaim(p, r) ==
    /\ r \in ManualRuns
    /\ Acquire(p, "idle", "record")
    /\ ClaimRun(r, "SCHEDULED", "NONE")
    /\ UNCHANGED <<clockVars, req, artifacts, results, retired, repaired, files, locals>>

Unrecorded == {r \in Runs : run[r].status = "SCHEDULED" /\ req[r].state = "NONE"}

RecordRequest(p, r) ==
    /\ pc[p] = "record" /\ r \in Unrecorded /\ r = Earliest(Unrecorded)
    /\ Upsert(r, "PREPARING", NoSnap)
    /\ UNCHANGED <<lock, clockVars, run, artifacts, results, retired, repaired, files, pc, locals>>

\* The manual command releases the lock here, the runtime's pass gates first.
RecordsDone(p) ==
    /\ pc[p] = "record" /\ Unrecorded = {}
    /\ Goto(p, IF p = Runtime THEN "gate" ELSE "select")
    /\ lock' = IF p = Runtime THEN lock ELSE NoProc
    /\ UNCHANGED <<clockVars, tables, files, locals>>

\* _apply_execution_gate: the run first, then its request.
GateRun(r) ==
    /\ pc[Runtime] = "gate" /\ r \in Blocked /\ r = Earliest(Blocked)
    /\ run[r].status = "SCHEDULED"
    /\ UpdateRun(r, "FAILED", "INSUFFICIENT")
    /\ UNCHANGED <<lock, clockVars, req, artifacts, results, retired, repaired, files, pc, locals>>

GateRequest(r) ==
    /\ pc[Runtime] = "gate" /\ r \in Blocked /\ r = Earliest(Blocked)
    /\ run[r].status # "SCHEDULED"
    /\ Upsert(r, "NOT_EXECUTABLE", req[r].snap)
    /\ UNCHANGED <<lock, clockVars, run, artifacts, results, retired, repaired, files, pc, locals>>

GateDone ==
    /\ pc[Runtime] = "gate" /\ Blocked = {}
    /\ Goto(Runtime, "select") /\ lock' = NoProc
    /\ UNCHANGED <<clockVars, tables, files, locals>>

-----------------------------------------------------------------------------
(* _finish_preparing *)

\* Mutant: a claim that already names a snapshot is taken for finished.
WaitingUnnamed(p) ==
    {r \in Runs \ excl[p] : req[r].state = "PREPARING" /\ req[r].snap = NoSnap}

Waiting(p) == {r \in Runs \ excl[p] : req[r].state = "PREPARING"}

\* The whole set for an unbounded pass, its BatchLimit earliest for the runtime's.
Selected(p) ==
    IF p \in Manuals THEN Waiting(p)
    ELSE {r \in Waiting(p) : Cardinality({q \in Waiting(p) : q < r}) < BatchLimit}

\* _published_claim_snapshot: the one published snapshot every row names, if any.
ClaimSnapshot(S) == {s \in published : \A r \in S : req[r].snap = s}

\* The pass ends: the runtime enforces retention, the manual command exits.
EndPass(p) == Leave(p, IF p = Runtime THEN "wantPrune" ELSE "idle")

NothingToFinish(p) ==
    /\ pc[p] = "select" /\ Waiting(p) = {}
    /\ EndPass(p)
    /\ UNCHANGED <<clockVars, tables, files>>

\* A new snapshot's id carries the time it was drawn at, before the lock.
DrawSnapshot(p) ==
    /\ sid' = [sid EXCEPT ![p] = nextSnap]
    /\ nextSnap' = nextSnap + 1
    /\ Goto(p, "wantSnap")

SelectClaims(p) ==
    /\ pc[p] = "select" /\ Waiting(p) # {}
    /\ sel' = [sel EXCEPT ![p] = Selected(p)]
    /\ \/ \E s \in ClaimSnapshot(Selected(p)) :
             /\ sid' = [sid EXCEPT ![p] = s]
             /\ Goto(p, "wantBundle")
             /\ UNCHANGED nextSnap
       \/ /\ ClaimSnapshot(Selected(p)) = {} /\ nextSnap <= MaxSnaps
          /\ DrawSnapshot(p)
    /\ UNCHANGED <<lock, clockVars, tables, bundle, published, copy, upload, result,
                   budget, excl, prot>>

\* create_snapshot: an unchanged warehouse returns the latest snapshot.  The
\* collector's tables are not modelled and may have changed in between.
CopyWarehouse(p) ==
    /\ Acquire(p, "wantSnap", "protect")
    /\ \/ \E s \in published : /\ IsLatest(s) /\ copy[s] = Tables
                              /\ sid' = [sid EXCEPT ![p] = s]
                              /\ UNCHANGED copy
       \/ /\ copy' = [copy EXCEPT ![sid[p]] = Tables]
          /\ UNCHANGED sid
    /\ UNCHANGED <<clockVars, tables, bundle, published, nextSnap, upload, result,
                   sel, budget, excl, prot>>

\* Mutant: the rows read before the lock are trusted.
SelectedStale(p) == sel[p]

StillPreparing(p) == {r \in sel[p] : req[r].state = "PREPARING"}
Unprotected(p) == {r \in StillPreparing(p) : req[r].snap # sid[p]}

\* before_publish: the claims name the snapshot before it can be seen.
Protect(p, r) ==
    /\ pc[p] = "protect" /\ r \in Unprotected(p) /\ r = Earliest(Unprotected(p))
    /\ Upsert(r, "PREPARING", sid[p])
    /\ UNCHANGED <<lock, clockVars, run, artifacts, results, retired, repaired, files, pc, locals>>

\* A snapshot of no claim is the periodic one, or an operator's.
PublishSnapshot(p) ==
    /\ pc[p] = "protect" /\ Unprotected(p) = {}
    /\ published' = published \cup {sid[p]}
    /\ Goto(p, IF p \in Operators THEN "cliRead"
               ELSE IF sel[p] = {} THEN "wantPrune" ELSE "wantBundle")
    /\ lock' = NoProc
    /\ UNCHANGED <<clockVars, tables, bundle, copy, nextSnap, upload, result, locals>>

BeginBundles(p) ==
    /\ Acquire(p, "wantBundle", "bundle")
    /\ UNCHANGED <<clockVars, tables, files, locals>>

Bundling(p, r) ==
    pc[p] = "bundle" /\ r \in StillPreparing(p) /\ r = Earliest(StillPreparing(p))

PublishBundle(p, r) ==
    /\ Bundling(p, r) /\ bundle[r] = NoSnap
    /\ bundle' = [bundle EXCEPT ![r] = sid[p]]
    /\ UNCHANGED <<lock, clockVars, tables, published, copy, nextSnap, upload, result, pc, locals>>

\* Mutant: the row is written before its bundle.
MarkPendingFirst(p, r) ==
    /\ Bundling(p, r)
    /\ Upsert(r, "PENDING", sid[p])
    /\ UNCHANGED <<lock, clockVars, run, artifacts, results, retired, repaired, files, pc, locals>>

MarkPending(p, r) ==
    /\ Bundling(p, r) /\ bundle[r] = sid[p] /\ bundle[r] # NoSnap
    /\ Upsert(r, "PENDING", sid[p])
    /\ UNCHANGED <<lock, clockVars, run, artifacts, results, retired, repaired, files, pc, locals>>

\* An existing bundle that names another snapshot is a BundleConflictError.
BundleConflict(p, r) ==
    /\ Bundling(p, r) /\ bundle[r] \notin {NoSnap, sid[p]}
    /\ Finish(p)
    /\ UNCHANGED <<clockVars, tables, files>>

BundlesDone(p) ==
    /\ pc[p] = "bundle" /\ StillPreparing(p) = {}
    /\ EndPass(p)
    /\ UNCHANGED <<clockVars, tables, files>>

PrepareStep(p) ==
    \/ NothingToFinish(p) \/ SelectClaims(p) \/ RecordsDone(p) \/ BeginBundles(p)
    \/ BundlesDone(p)
    \/ \E r \in Runs : \/ RecordRequest(p, r) \/ PublishBundle(p, r)
                       \/ MarkPending(p, r) \/ BundleConflict(p, r)

RuntimeStep ==
    \/ ClaimsDone \/ GateDone
    \/ \E r \in Runs : Claim(r) \/ GateRun(r) \/ GateRequest(r)

\* create_snapshot serves the passes, the periodic snapshot and the operators.
SnapshotStep(p) == CopyWarehouse(p) \/ PublishSnapshot(p) \/ \E r \in Runs : Protect(p, r)

PrepareNext ==
    \/ \E skip \in ExclusionSets : BeginPass(skip)
    \/ RuntimeStep
    \/ \E p \in Manuals, r \in Runs : ManualClaim(p, r)
    \/ \E p \in Preparers : PrepareStep(p)
    \/ \E p \in Preparers \cup Operators : SnapshotStep(p)
=============================================================================
