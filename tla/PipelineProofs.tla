--------------------------- MODULE PipelineProofs ---------------------------
(***************************************************************************)
(* The checkpoint pipeline, for every set of runs and processes, in five   *)
(* parts.  Types, lock and evidence: TypeOK is not inductive by itself, an *)
(* id is published only because a process that holds a copied snapshot has *)
(* drawn an id for it (SnapshotDrawn); row, request bundle and result      *)
(* bundle of a run agree on one snapshot (EvidenceChain), which needs what *)
(* the processes that will write the next row remember.  Endings: a        *)
(* genuine refusal is never undone (RefusalIsFinal), because a failure     *)
(* code is there only on a FAILED run; what is retired was audited first   *)
(* and had expired (RetirementAudited), which needs the writer lock: a     *)
(* retirement writes its audit record, the runs and the requests one after *)
(* another from one reading.  Results: what the evidence gate blocks or    *)
(* the executor refuses is never executed or installed                     *)
(* (RefusedNeverExecuted), the result table agrees with the run, its       *)
(* request and its bundle (ResultAgreement); the invariant says what every *)
(* run's rows say of each other, and what a workflow, an ingest or a       *)
(* retirement knows of the runs it selected, at each of its steps.         *)
(* Lifecycle: the pipeline implements RequestLifecycle.  Evidence that     *)
(* stays: where no one prepares or prunes by hand, a request that may be   *)
(* dispatched has its snapshot (EvidencePresent), which needs what the     *)
(* pass under way knows of the snapshot it draws, copies and names.        *)
(***************************************************************************)
EXTENDS CheckpointPipeline, FiniteSetTheorems, WellFoundedInduction, TLAPS

SnapshotDrawn == \A p \in Procs : pc[p] \in {"wantSnap", "protect"} => sid[p] # NoSnap

TypeInv == TypeOK /\ SnapshotDrawn

QuietLabels == Labels \ {"wantSnap", "protect"}

-----------------------------------------------------------------------------
(* What the helpers the actions share keep typed. *)

LEMMA FiniteRuns ==
    ASSUME NEW S, S \subseteq Runs
    PROVE  IsFiniteSet(S) /\ Cardinality(S) \in Nat
  BY StoreAssumption, FS_Subset, FS_CardinalityType

LEMMA ProtectedType ==
    ASSUME TypeInv
    PROVE  ProtectedIn(req) \in SUBSET Snaps
  BY DEF TypeInv, TypeOK, ProtectedIn, ReqRow

LEMMA TransitionType ==
    ASSUME NEW s \in Statuses
    PROVE  AllowedTransitions[s] \subseteq Statuses
  BY DEF AllowedTransitions, Statuses, Terminal

LEMMA UpdateRunType ==
    ASSUME TypeInv, NEW r \in Runs, NEW status, NEW code \in Codes, UpdateRun(r, status, code)
    PROVE  run' \in [Runs -> RunRow]
  <1>1. run[r].status \in Statuses
    BY DEF TypeInv, TypeOK, RunRow
  <1>2. status \in Statuses
    BY <1>1, TransitionType DEF UpdateRun
  <1>. QED
    BY <1>2 DEF TypeInv, TypeOK, UpdateRun, RunRow

LEMMA UpsertType ==
    ASSUME TypeInv, NEW r \in Runs, NEW state \in States, NEW snap \in Snaps \cup {NoSnap},
           Upsert(r, state, snap)
    PROVE  req' \in [Runs -> ReqRow]
  BY DEF TypeInv, TypeOK, Upsert, ReqRow

LEMMA LeaveType ==
    ASSUME TypeInv, NEW p \in Procs, NEW label \in QuietLabels, Leave(p, label)
    PROVE  /\ lock' \in Procs \cup {NoProc}
           /\ pc' \in [Procs -> Labels]
           /\ sel' \in [Procs -> SUBSET Runs]
           /\ sid' \in [Procs -> Snaps \cup {NoSnap}]
           /\ budget' \in [Procs -> Nat]
           /\ excl' \in [Procs -> SUBSET Runs]
           /\ prot' \in [Procs -> SUBSET Snaps]
           /\ SnapshotDrawn'
  BY DEF TypeInv, TypeOK, SnapshotDrawn, QuietLabels, Leave, Goto, Snaps, NoSnap

LEMMA FinishType ==
    ASSUME TypeInv, NEW p \in Procs, Finish(p)
    PROVE  /\ lock' \in Procs \cup {NoProc}
           /\ pc' \in [Procs -> Labels]
           /\ sel' \in [Procs -> SUBSET Runs]
           /\ sid' \in [Procs -> Snaps \cup {NoSnap}]
           /\ budget' \in [Procs -> Nat]
           /\ excl' \in [Procs -> SUBSET Runs]
           /\ prot' \in [Procs -> SUBSET Snaps]
           /\ SnapshotDrawn'
  BY LeaveType DEF Finish, QuietLabels, Labels

\* Leaving changes nothing but the lock and what the process itself remembers.
LEMMA LeftType ==
    ASSUME TypeInv, NEW p \in Procs, NEW label \in QuietLabels, Leave(p, label),
           UNCHANGED <<clockVars, tables, files>>
    PROVE  TypeInv'
  BY LeaveType DEF TypeInv, TypeOK, clockVars, tables, files

LEMMA FinishedType ==
    ASSUME TypeInv, NEW p \in Procs, Finish(p), UNCHANGED <<clockVars, tables, files>>
    PROVE  TypeInv'
  BY LeftType DEF Finish, QuietLabels, Labels

\* So does going to another label, with or without the lock.
LEMMA GoneType ==
    ASSUME TypeInv, NEW p \in Procs, NEW label \in QuietLabels, Goto(p, label),
           lock' \in Procs \cup {NoProc}, UNCHANGED <<clockVars, tables, files, locals>>
    PROVE  TypeInv'
  BY DEF TypeInv, TypeOK, SnapshotDrawn, QuietLabels, Goto, clockVars, tables, files, locals

-----------------------------------------------------------------------------
(* Checkpoint preparation. *)

LEMMA BeginPassType ==
    ASSUME TypeInv, NEW skip \in ExclusionSets, BeginPass(skip)
    PROVE  TypeInv'
  <1>1. Runtime \in Procs /\ skip \in SUBSET Runs
    BY PrepareAssumption DEF Procs
  <1>2. Cardinality(Unprepared(skip)) \in Nat
    BY FiniteRuns DEF Unprepared
  <1>3. budget' \in [Procs -> Nat]
    BY <1>1, <1>2, PrepareAssumption DEF BeginPass, TypeInv, TypeOK
  <1>4. /\ pc' \in [Procs -> Labels] /\ lock' \in Procs
        /\ excl' \in [Procs -> SUBSET Runs] /\ SnapshotDrawn'
    BY <1>1 DEF BeginPass, Acquire, Goto, TypeInv, TypeOK, SnapshotDrawn, Labels
  <1>. QED
    BY <1>3, <1>4 DEF BeginPass, TypeInv, TypeOK, clockVars, tables, files

LEMMA ClaimType ==
    ASSUME TypeInv, NEW r \in Runs, Claim(r)
    PROVE  TypeInv'
  <1>1. Runtime \in Procs /\ budget[Runtime] # 0
    BY DEF Procs, Claim, ToClaim
  <1>2. budget' \in [Procs -> Nat]
    BY <1>1 DEF Claim, TypeInv, TypeOK
  <1>3. run' \in [Runs -> RunRow]
    BY DEF Claim, ClaimRun, TypeInv, TypeOK, RunRow, Statuses, Terminal, Codes
  <1>. QED
    BY <1>2, <1>3 DEF Claim, TypeInv, TypeOK, SnapshotDrawn, clockVars, files

LEMMA ManualClaimType ==
    ASSUME TypeInv, NEW p \in Manuals, NEW r \in Runs, ManualClaim(p, r)
    PROVE  TypeInv'
  <1>1. p \in Procs
    BY DEF Procs
  <1>2. run' \in [Runs -> RunRow]
    BY DEF ManualClaim, ClaimRun, TypeInv, TypeOK, RunRow, Statuses, Codes
  <1>. QED
    BY <1>1, <1>2 DEF ManualClaim, Acquire, Goto, TypeInv, TypeOK, SnapshotDrawn, Labels,
                      clockVars, files, locals

LEMMA RuntimeStepType ==
    ASSUME TypeInv, RuntimeStep
    PROVE  TypeInv'
  <1>. Runtime \in Procs
    BY DEF Procs
  <1>1. CASE ClaimsDone
    BY <1>1, GoneType DEF ClaimsDone, QuietLabels, Labels, TypeInv, TypeOK
  <1>2. CASE GateDone
    BY <1>2, GoneType DEF GateDone, QuietLabels, Labels
  <1>3. ASSUME NEW r \in Runs, GateRun(r) PROVE TypeInv'
    <2>1. run' \in [Runs -> RunRow]
      BY <1>3, UpdateRunType DEF GateRun, Codes
    <2>. QED
      BY <1>3, <2>1 DEF GateRun, TypeInv, TypeOK, SnapshotDrawn, clockVars, files, locals
  <1>4. ASSUME NEW r \in Runs, GateRequest(r) PROVE TypeInv'
    <2>1. req' \in [Runs -> ReqRow]
      BY <1>4, UpsertType DEF GateRequest, States, TypeInv, TypeOK, ReqRow
    <2>. QED
      BY <1>4, <2>1 DEF GateRequest, TypeInv, TypeOK, SnapshotDrawn, clockVars, files, locals
  <1>. QED
    BY <1>1, <1>2, <1>3, <1>4, ClaimType DEF RuntimeStep

LEMMA PrepareStepType ==
    ASSUME TypeInv, NEW p \in Preparers, PrepareStep(p)
    PROVE  TypeInv'
  <1>. p \in Procs
    BY DEF Procs, Preparers
  <1>1. CASE NothingToFinish(p)
    BY <1>1, LeftType DEF NothingToFinish, EndPass, QuietLabels, Labels
  <1>2. CASE SelectClaims(p)
    <2>1. sel' \in [Procs -> SUBSET Runs]
      BY <1>2 DEF SelectClaims, Selected, Waiting, TypeInv, TypeOK
    <2>2. /\ pc' \in [Procs -> Labels] /\ sid' \in [Procs -> Snaps \cup {NoSnap}]
          /\ nextSnap' \in 1..(MaxSnaps + 1) /\ SnapshotDrawn'
      <3>1. ASSUME NEW s \in ClaimSnapshot(Selected(p)), sid' = [sid EXCEPT ![p] = s],
                   Goto(p, "wantBundle"), UNCHANGED nextSnap
            PROVE  /\ pc' \in [Procs -> Labels] /\ sid' \in [Procs -> Snaps \cup {NoSnap}]
                   /\ nextSnap' \in 1..(MaxSnaps + 1) /\ SnapshotDrawn'
        BY <3>1 DEF ClaimSnapshot, Goto, TypeInv, TypeOK, SnapshotDrawn, Labels
      <3>2. CASE nextSnap <= MaxSnaps /\ DrawSnapshot(p)
        BY <3>2, StoreAssumption DEF DrawSnapshot, Goto, TypeInv, TypeOK, SnapshotDrawn,
                                     Labels, Snaps, NoSnap
      <3>. QED
        BY <1>2, <3>1, <3>2 DEF SelectClaims
    <2>3. UNCHANGED <<lock, clockVars, tables, bundle, published, copy, upload, result,
                      budget, excl, prot>>
      BY <1>2 DEF SelectClaims
    <2>. QED
      BY <2>1, <2>2, <2>3 DEF TypeInv, TypeOK, clockVars, tables
  <1>3. CASE RecordsDone(p)
    BY <1>3, GoneType DEF RecordsDone, QuietLabels, Labels, TypeInv, TypeOK
  <1>4. CASE BeginBundles(p)
    BY <1>4, GoneType DEF BeginBundles, Acquire, QuietLabels, Labels
  <1>5. CASE BundlesDone(p)
    BY <1>5, LeftType DEF BundlesDone, EndPass, QuietLabels, Labels
  <1>6. ASSUME NEW r \in Runs, RecordRequest(p, r) PROVE TypeInv'
    <2>1. req' \in [Runs -> ReqRow]
      BY <1>6, UpsertType DEF RecordRequest, States
    <2>. QED
      BY <1>6, <2>1 DEF RecordRequest, TypeInv, TypeOK, SnapshotDrawn, clockVars, files, locals
  <1>7. ASSUME NEW r \in Runs, PublishBundle(p, r) PROVE TypeInv'
    BY <1>7 DEF PublishBundle, TypeInv, TypeOK, SnapshotDrawn, clockVars, tables, locals
  <1>8. ASSUME NEW r \in Runs, MarkPending(p, r) PROVE TypeInv'
    <2>1. req' \in [Runs -> ReqRow]
      BY <1>8, UpsertType DEF MarkPending, States, TypeInv, TypeOK
    <2>. QED
      BY <1>8, <2>1 DEF MarkPending, TypeInv, TypeOK, SnapshotDrawn, clockVars, files, locals
  <1>9. ASSUME NEW r \in Runs, BundleConflict(p, r) PROVE TypeInv'
    BY <1>9, FinishedType DEF BundleConflict
  <1>. QED
    BY <1>1, <1>2, <1>3, <1>4, <1>5, <1>6, <1>7, <1>8, <1>9 DEF PrepareStep

LEMMA SnapshotStepType ==
    ASSUME TypeInv, NEW p \in Preparers \cup Operators, SnapshotStep(p)
    PROVE  TypeInv'
  <1>. p \in Procs
    BY DEF Procs, Preparers
  <1>1. CASE CopyWarehouse(p)
    <2>1. Tables \in CopyRow
      BY DEF TypeInv, TypeOK, Tables, CopyRow
    <2>2. copy' \in [Snaps -> CopyRow]
      BY <1>1, <2>1 DEF CopyWarehouse, TypeInv, TypeOK
    <2>3. /\ pc' \in [Procs -> Labels] /\ lock' \in Procs
      BY <1>1 DEF CopyWarehouse, Acquire, Goto, TypeInv, TypeOK, Labels
    <2>4. /\ sid' \in [Procs -> Snaps \cup {NoSnap}]
          /\ SnapshotDrawn'
      <3>1. ASSUME NEW s \in published, sid' = [sid EXCEPT ![p] = s]
            PROVE  sid' \in [Procs -> Snaps \cup {NoSnap}] /\ SnapshotDrawn'
        BY <1>1, <3>1 DEF CopyWarehouse, Acquire, Goto, TypeInv, TypeOK, SnapshotDrawn, Snaps,
                          NoSnap
      <3>2. CASE UNCHANGED sid
        BY <1>1, <3>2 DEF CopyWarehouse, Acquire, Goto, TypeInv, TypeOK, SnapshotDrawn
      <3>. QED
        BY <1>1, <3>1, <3>2 DEF CopyWarehouse
    <2>5. UNCHANGED <<clockVars, tables, bundle, published, nextSnap, upload, result,
                      sel, budget, excl, prot>>
      BY <1>1 DEF CopyWarehouse
    <2>. QED
      BY <2>2, <2>3, <2>4, <2>5 DEF TypeInv, TypeOK, clockVars, tables
  <1>2. CASE PublishSnapshot(p)
    BY <1>2 DEF PublishSnapshot, Goto, TypeInv, TypeOK, SnapshotDrawn, Labels, clockVars,
                tables, locals
  <1>3. ASSUME NEW r \in Runs, Protect(p, r) PROVE TypeInv'
    <2>1. req' \in [Runs -> ReqRow]
      BY <1>3, UpsertType DEF Protect, States, TypeInv, TypeOK
    <2>. QED
      BY <1>3, <2>1 DEF Protect, TypeInv, TypeOK, SnapshotDrawn, clockVars, files, locals
  <1>. QED
    BY <1>1, <1>2, <1>3 DEF SnapshotStep

LEMMA PrepareType ==
    ASSUME TypeInv, PrepareNext
    PROVE  TypeInv'
  BY BeginPassType, RuntimeStepType, ManualClaimType, PrepareStepType, SnapshotStepType
     DEF PrepareNext

-----------------------------------------------------------------------------
(* Snapshot retention. *)

LEMMA RetentionType ==
    ASSUME TypeInv, RetentionNext
    PROVE  TypeInv'
  <1>. Pruners \subseteq Procs /\ Operators \subseteq Procs
    BY DEF Procs, Pruners
  <1>1. ASSUME NEW p \in Pruners, PeriodicSnapshot(p) PROVE TypeInv'
    <2>1. nextSnap \in Snaps
      BY <1>1, StoreAssumption, PrepareAssumption DEF PeriodicSnapshot, TypeInv, TypeOK, Snaps
    <2>. QED
      BY <1>1, <2>1, StoreAssumption
         DEF PeriodicSnapshot, DrawSnapshot, Goto, TypeInv, TypeOK, SnapshotDrawn, Labels,
             Snaps, NoSnap, clockVars, tables
  <1>2. ASSUME NEW p \in Pruners, BeginPrune(p) PROVE TypeInv'
    BY <1>2, ProtectedType DEF BeginPrune, Acquire, Goto, TypeInv, TypeOK, SnapshotDrawn,
                               Labels, clockVars, tables, files
  <1>3. ASSUME NEW p \in Pruners, PruneOne(p) PROVE TypeInv'
    BY <1>3 DEF PruneOne, TypeInv, TypeOK, SnapshotDrawn, clockVars, tables, locals
  <1>4. ASSUME NEW p \in Pruners, PruneDone(p) PROVE TypeInv'
    BY <1>4, FinishedType DEF PruneDone
  <1>5. ASSUME NEW p \in Operators, ReadProtected(p) PROVE TypeInv'
    BY <1>5, ProtectedType DEF ReadProtected, Goto, TypeInv, TypeOK, SnapshotDrawn, Labels,
                               clockVars, tables, files
  <1>6. ASSUME NEW p \in Operators, BeginStalePrune(p) PROVE TypeInv'
    BY <1>6, GoneType DEF BeginStalePrune, Acquire, QuietLabels, Labels
  <1>. QED
    BY <1>1, <1>2, <1>3, <1>4, <1>5, <1>6 DEF RetentionNext, PruneStep, OperatorPrune

-----------------------------------------------------------------------------
(* Remote execution and result ingest. *)

LEMMA WorkflowStepType ==
    ASSUME TypeInv, NEW p \in Workflows, NEW r \in Runs, WorkflowStep(p, r)
    PROVE  TypeInv'
  <1>. p \in Procs
    BY DEF Procs
  <1>1. CASE WfDownload(p, r)
    BY <1>1, GoneType DEF WfDownload, QuietLabels, Labels, TypeInv, TypeOK
  <1>2. CASE WfDownloadFails(p, r)
    BY <1>2, FinishedType DEF WfDownloadFails
  <1>3. CASE WfVerify(p, r)
    BY <1>3, GoneType DEF WfVerify, QuietLabels, Labels, TypeInv, TypeOK
  <1>4. CASE WfStage(p, r)
    BY <1>4 DEF WfStage, Goto, TypeInv, TypeOK, SnapshotDrawn, Labels, clockVars, tables, locals
  <1>5. ASSUME NEW status \in Outcomes, WfPublish(p, r, status) PROVE TypeInv'
    <2>1. result' \in [Runs -> ResultRow]
      BY <1>5, OutcomesAssumption DEF WfPublish, TypeInv, TypeOK, ResultRow, Terminal
    <2>. QED
      BY <1>5, <2>1 DEF WfPublish, Goto, TypeInv, TypeOK, SnapshotDrawn, Labels, clockVars,
                        tables, locals
  <1>6. CASE RefuseRun(p, r)
    <2>1. run' \in [Runs -> RunRow]
      BY <1>6, UpdateRunType DEF RefuseRun, Codes
    <2>. QED
      BY <1>6, <2>1 DEF RefuseRun, TypeInv, TypeOK, SnapshotDrawn, clockVars, files, locals
  <1>7. CASE RefuseRequest(p, r)
    <2>1. req' \in [Runs -> ReqRow]
      BY <1>7, UpsertType DEF RefuseRequest, States, TypeInv, TypeOK, ReqRow
    <2>. QED
      BY <1>7, <2>1, FinishType DEF RefuseRequest, TypeInv, TypeOK, clockVars, files
  <1>8. CASE RefuseNothing(p, r)
    BY <1>8, FinishedType DEF RefuseNothing
  <1>9. CASE WfIngestRefused(p, r)
    BY <1>9, FinishedType DEF WfIngestRefused
  <1>. QED
    BY <1>1, <1>2, <1>3, <1>4, <1>5, <1>6, <1>7, <1>8, <1>9 DEF WorkflowStep

LEMMA IngestStepType ==
    ASSUME TypeInv, NEW p \in Workflows \cup Ingesters, NEW r \in Runs, IngestStep(p, r)
    PROVE  TypeInv'
  <1>. p \in Procs
    BY DEF Procs
  <1>1. CASE InstallArtifacts(p, r)
    BY <1>1 DEF InstallArtifacts, Acquire, Goto, TypeInv, TypeOK, SnapshotDrawn, Labels,
                clockVars, files, locals
  <1>2. CASE StartRun(p, r)
    <2>1. run' \in [Runs -> RunRow]
      BY <1>2, UpdateRunType DEF StartRun, Codes
    <2>. QED
      BY <1>2, <2>1 DEF StartRun, TypeInv, TypeOK, SnapshotDrawn, clockVars, files, locals
  <1>3. CASE EndRun(p, r)
    <2>1. run' \in [Runs -> RunRow]
      BY <1>3, UpdateRunType DEF EndRun, Codes
    <2>. QED
      BY <1>3, <2>1 DEF EndRun, Goto, TypeInv, TypeOK, SnapshotDrawn, Labels, clockVars, files,
                        locals
  <1>4. CASE RunEnded(p, r)
    BY <1>4, GoneType DEF RunEnded, QuietLabels, Labels, TypeInv, TypeOK
  <1>5. CASE RunDisagrees(p, r)
    BY <1>5, FinishedType DEF RunDisagrees
  <1>6. CASE Complete(p, r)
    <2>1. req' \in [Runs -> ReqRow]
      BY <1>6, UpsertType DEF Complete, States, TypeInv, TypeOK
    <2>. QED
      BY <1>6, <2>1 DEF Complete, Goto, TypeInv, TypeOK, SnapshotDrawn, Labels, clockVars,
                        files, locals
  <1>7. CASE RecordResult(p, r)
    <2>1. results' \in [Runs -> Terminal \cup {"NONE"}]
      BY <1>7 DEF RecordResult, TypeInv, TypeOK, ResultRow
    <2>. QED
      BY <1>7, <2>1, FinishType DEF RecordResult, TypeInv, TypeOK, clockVars, files
  <1>. QED
    BY <1>1, <1>2, <1>3, <1>4, <1>5, <1>6, <1>7 DEF IngestStep

LEMMA ExecutionType ==
    ASSUME TypeInv, ExecutionNext
    PROVE  TypeInv'
  <1>. Workflows \subseteq Procs /\ Ingesters \subseteq Procs
    BY DEF Procs
  <1>1. ASSUME NEW p \in Workflows, NEW r \in Runs, WfSelect(p, r) PROVE TypeInv'
    BY <1>1 DEF WfSelect, Goto, TypeInv, TypeOK, SnapshotDrawn, Labels, ReqRow, clockVars,
                tables, files
  <1>2. ASSUME NEW p \in Workflows, BeginRefuse(p) PROVE TypeInv'
    BY <1>2, GoneType DEF BeginRefuse, Acquire, QuietLabels, Labels
  <1>3. ASSUME NEW p \in Workflows \cup Ingesters, NEW r \in Runs, IngestCheck(p, r)
        PROVE  TypeInv'
    BY <1>3 DEF IngestCheck, Goto, TypeInv, TypeOK, SnapshotDrawn, Labels, ReqRow, clockVars,
                tables, files
  <1>. QED
    BY <1>1, <1>2, <1>3, WorkflowStepType, IngestStepType DEF ExecutionNext

-----------------------------------------------------------------------------
(* Retirement and repair. *)

LEMMA HousekeepingType ==
    ASSUME TypeInv, NEW swept \in SUBSET Runs, Housekeeping(swept)
    PROVE  TypeInv'
  <1>. Runtime \in Procs
    BY DEF Procs
  <1>. DEFINE plan == Candidates(Runtime, upload')
  <1>1. plan \in SUBSET Runs
    BY StoreAssumption DEF Candidates, InMode
  <1>2. upload' \in [Runs -> BOOLEAN]
    BY DEF Housekeeping, TypeInv, TypeOK
  <1>3. UNCHANGED <<clockVars, tables, bundle, published, copy, nextSnap, result>>
    BY DEF Housekeeping
  <1>4. CASE plan # {} /\ lock' = Runtime /\ Goto(Runtime, "retireLog")
             /\ sel' = [sel EXCEPT ![Runtime] = plan] /\ UNCHANGED <<sid, budget, excl, prot>>
    <2>1. /\ pc' \in [Procs -> Labels] /\ sel' \in [Procs -> SUBSET Runs] /\ lock' \in Procs
          /\ SnapshotDrawn'
      BY <1>1, <1>4 DEF Goto, TypeInv, TypeOK, SnapshotDrawn, Labels
    <2>. QED
      BY <1>2, <1>3, <1>4, <2>1 DEF TypeInv, TypeOK, clockVars, tables
  <1>5. CASE Leave(Runtime, "wantPrune")
    <2>1. "wantPrune" \in QuietLabels
      BY DEF QuietLabels, Labels
    <2>. QED
      BY <1>2, <1>3, <1>5, <2>1, LeaveType DEF TypeInv, TypeOK, clockVars, tables
  <1>. QED
    BY <1>4, <1>5 DEF Housekeeping

LEMMA RetireStepType ==
    ASSUME TypeInv, NEW p \in Retirees, RetireStep(p)
    PROVE  TypeInv'
  <1>. p \in Procs
    BY DEF Procs, Retirees
  <1>1. CASE RetireLog(p)
    <2>1. retired' \in [Runs -> States]
      BY <1>1 DEF RetireLog, TypeInv, TypeOK, ReqRow
    <2>. QED
      BY <1>1, <2>1 DEF RetireLog, Goto, TypeInv, TypeOK, SnapshotDrawn, Labels, clockVars,
                        files, locals
  <1>2. CASE RetireRequests(p)
    <2>3. ASSUME NEW r \in Runs PROVE [req[r] EXCEPT !.state = "RETIRED_OBSOLETE"] \in ReqRow
      BY DEF TypeInv, TypeOK, ReqRow, States
    <2>4. \A r \in Runs : req[r] \in ReqRow
      BY DEF TypeInv, TypeOK
    <2>1. req' \in [Runs -> ReqRow]
      BY <1>2, <2>3, <2>4 DEF RetireRequests
    <2>2. "wantPrune" \in QuietLabels
      BY DEF QuietLabels, Labels
    <2>. QED
      BY <1>2, <2>1, <2>2, LeaveType DEF RetireRequests, TypeInv, TypeOK, clockVars, files
  <1>3. ASSUME NEW r \in Runs, RetireRun(p, r) PROVE TypeInv'
    <2>1. run' \in [Runs -> RunRow]
      BY <1>3, UpdateRunType DEF RetireRun, Codes
    <2>. QED
      BY <1>3, <2>1 DEF RetireRun, TypeInv, TypeOK, SnapshotDrawn, clockVars, files, locals
  <1>. QED
    BY <1>1, <1>2, <1>3 DEF RetireStep

LEMMA OperatorStepType ==
    ASSUME TypeInv, NEW p \in Operators, ReviewStep(p) \/ BeginRepairs(p) \/ RepairStep(p)
    PROVE  TypeInv'
  <1>. p \in Procs
    BY DEF Procs
  <1>1. CASE Review(p)
    <2>1. Candidates(p, upload) \in SUBSET Runs
      BY StoreAssumption DEF Candidates, InMode
    <2>. QED
      BY <1>1, <2>1 DEF Review, Goto, TypeInv, TypeOK, SnapshotDrawn, Labels, clockVars,
                        tables, files
  <1>2. CASE Apply(p)
    BY <1>2, GoneType DEF Apply, Acquire, QuietLabels, Labels
  <1>3. CASE ApplyRefused(p)
    BY <1>3, FinishedType DEF ApplyRefused
  <1>4. ASSUME NEW r \in Runs, BeginRepair(p, r) PROVE TypeInv'
    BY <1>4 DEF BeginRepair, Acquire, Goto, TypeInv, TypeOK, SnapshotDrawn, Labels, clockVars,
                files
  <1>5. ASSUME NEW r \in Runs, ResumeRepair(p, r) PROVE TypeInv'
    BY <1>5 DEF ResumeRepair, Acquire, Goto, TypeInv, TypeOK, SnapshotDrawn, Labels, clockVars,
                tables, files
  <1>6. ASSUME NEW r \in Runs, Reinstate(p, r) PROVE TypeInv'
    <2>1. run' \in [Runs -> RunRow]
      BY <1>6 DEF Reinstate, ReinstateRun, TypeInv, TypeOK, RunRow, Statuses, Codes
    <2>. QED
      BY <1>6, <2>1 DEF Reinstate, TypeInv, TypeOK, SnapshotDrawn, clockVars, files, locals
  <1>7. ASSUME NEW r \in Runs, Reopen(p, r) PROVE TypeInv'
    <2>1. req' \in [Runs -> ReqRow]
      BY <1>7, UpsertType DEF Reopen, States, TypeInv, TypeOK, ReqRow
    <2>. QED
      BY <1>7, <2>1, FinishType DEF Reopen, TypeInv, TypeOK, clockVars, files
  <1>8. ASSUME NEW r \in Runs, RepairNothing(p, r) PROVE TypeInv'
    BY <1>8, FinishedType DEF RepairNothing
  <1>. QED
    BY <1>1, <1>2, <1>3, <1>4, <1>5, <1>6, <1>7, <1>8 DEF ReviewStep, BeginRepairs, RepairStep

LEMMA ClosureType ==
    ASSUME TypeInv, ClosureNext
    PROVE  TypeInv'
  BY HousekeepingType, RetireStepType, OperatorStepType DEF ClosureNext

-----------------------------------------------------------------------------
(* The specification. *)

LEMMA InitType ==
    ASSUME Init
    PROVE  TypeInv
  <1>1. 1 \in Snaps /\ Snaps \subseteq Nat
    BY StoreAssumption DEF Snaps
  <1>2. run \in [Runs -> RunRow] /\ req \in [Runs -> ReqRow] /\ result \in [Runs -> ResultRow]
    BY <1>1 DEF Init, StoreInit, RunRow, ReqRow, ResultRow, NoResult, Statuses, Terminal, Codes,
                States
  <1>3. copy \in [Snaps -> CopyRow]
    BY DEF Init, StoreInit, CopyRow, RunRow, ReqRow, Statuses, Terminal, Codes, States
  <1>4. /\ nextSnap \in 1..(MaxSnaps + 1) /\ published \subseteq Snaps
        /\ bundle \in [Runs -> Snaps \cup {NoSnap}]
    BY <1>1, StoreAssumption DEF Init, StoreInit
  <1>5. /\ when \in [Runs -> Phases] /\ upload \in [Runs -> BOOLEAN]
        /\ results \in [Runs -> Terminal \cup {"NONE"}] /\ retired \in [Runs -> States]
    BY DEF Init, StoreInit, Phases, States
  <1>6. /\ pc \in [Procs -> Labels] /\ sel \in [Procs -> SUBSET Runs]
        /\ sid \in [Procs -> Snaps \cup {NoSnap}] /\ budget \in [Procs -> Nat]
        /\ excl \in [Procs -> SUBSET Runs] /\ prot \in [Procs -> SUBSET Snaps]
        /\ SnapshotDrawn
    BY DEF Init, StoreInit, SnapshotDrawn, Labels
  <1>. QED
    BY <1>2, <1>3, <1>4, <1>5, <1>6 DEF Init, StoreInit, TypeInv, TypeOK

LEMMA AdvanceType ==
    ASSUME TypeInv, NEW r \in Runs, Advance(r)
    PROVE  TypeInv'
  <1>1. when' \in [Runs -> Phases]
    BY DEF Advance, Later, TypeInv, TypeOK, Phases
  <1>. QED
    BY <1>1 DEF Advance, TypeInv, TypeOK, SnapshotDrawn, tables, files, locals

LEMMA KillType ==
    ASSUME TypeInv, NEW p \in Procs, Kill(p)
    PROVE  TypeInv'
  BY FinishType DEF Kill, TypeInv, TypeOK, tables, files

LEMMA NextType ==
    ASSUME TypeInv, [Next]_vars
    PROVE  TypeInv'
  <1>1. CASE UNCHANGED vars
    BY <1>1 DEF TypeInv, TypeOK, SnapshotDrawn, vars
  <1>. QED
    BY <1>1, PrepareType, RetentionType, ExecutionType, ClosureType, AdvanceType, KillType
       DEF Next

LEMMA TypeInvariant == Spec => []TypeInv
  BY InitType, NextType, PTL DEF Spec

\* Every row, file and control variable keeps its type, whatever is killed when.
THEOREM TypeCorrect == Spec => []TypeOK
  <1>1. TypeInv => TypeOK
    BY DEF TypeInv
  <1>. QED
    BY <1>1, TypeInvariant, PTL

-----------------------------------------------------------------------------
(* The writer lock excludes: a process is inside a locked section of the  *)
(* pipeline only while it holds the lock, so no two ever are, although any *)
(* of them may be killed there (platform/writer_lock).                     *)

Holding == {"claim", "record", "gate", "protect", "bundle", "prune", "retireLog", "retireRuns",
            "repair", "refuseHold", "runStatus", "complete", "resultRow"}

Exclusive == \A p \in Procs : pc[p] \in Holding => lock = p

\* The four ways a step treats the lock: take it, keep it, free it, or leave
\* whatever was held behind.
Moves(p, label) == pc' = [pc EXCEPT ![p] = label]
Takes(p) == lock = NoProc /\ lock' = p /\ \E label \in Labels : Moves(p, label)
Keeps(p) == /\ lock' = lock
            /\ \E label \in Labels : Moves(p, label) /\ (label \in Holding => pc[p] \in Holding)
Frees(p) == /\ pc[p] \in Holding /\ lock' = NoProc
            /\ \E label \in Labels \ Holding : Moves(p, label)
Leaves(p) == \E label \in Labels \ Holding : Leave(p, label)

LockDiscipline ==
    \/ UNCHANGED <<lock, pc>>
    \/ \E p \in Procs : Takes(p) \/ Keeps(p) \/ Frees(p) \/ Leaves(p)

LEMMA DisciplineKeepsExclusive ==
    ASSUME TypeInv, Exclusive, LockDiscipline
    PROVE  Exclusive'
  <1>. \A p \in Procs : p # NoProc
    BY StoreAssumption
  <1>1. CASE UNCHANGED <<lock, pc>>
    BY <1>1 DEF Exclusive
  <1>2. ASSUME NEW p \in Procs, Takes(p) \/ Keeps(p) \/ Frees(p) PROVE Exclusive'
    BY <1>2 DEF Exclusive, TypeInv, TypeOK, Takes, Keeps, Frees, Moves
  <1>3. ASSUME NEW p \in Procs, Leaves(p) PROVE Exclusive'
    BY <1>3 DEF Exclusive, TypeInv, TypeOK, Leaves, Leave, Goto
  <1>. QED
    BY <1>1, <1>2, <1>3 DEF LockDiscipline

LEMMA Processes ==
    /\ Runtime \in Procs
    /\ \A p \in Preparers \cup Pruners \cup Retirees \cup Manuals \cup Operators \cup Workflows
               \cup Ingesters : p \in Procs
  BY DEF Procs, Preparers, Pruners, Retirees

LEMMA PrepareDiscipline ==
    ASSUME TypeInv, PrepareNext
    PROVE  LockDiscipline
  <1>1. ASSUME NEW skip \in ExclusionSets, BeginPass(skip) PROVE Takes(Runtime)
    BY <1>1 DEF BeginPass, Acquire, Goto, Takes, Moves, Labels
  <1>2. ASSUME NEW r \in Runs, Claim(r) \/ GateRun(r) \/ GateRequest(r)
        PROVE  UNCHANGED <<lock, pc>>
    BY <1>2 DEF Claim, GateRun, GateRequest
  <1>3. ASSUME ClaimsDone PROVE Keeps(Runtime)
    BY <1>3 DEF ClaimsDone, Goto, Keeps, Moves, Labels, Holding
  <1>4. ASSUME GateDone PROVE Frees(Runtime)
    BY <1>4 DEF GateDone, Goto, Frees, Moves, Labels, Holding
  <1>5. ASSUME NEW p \in Manuals, NEW r \in Runs, ManualClaim(p, r) PROVE Takes(p)
    BY <1>5 DEF ManualClaim, Acquire, Goto, Takes, Moves, Labels
  <1>6. ASSUME NEW p \in Preparers, PrepareStep(p) PROVE LockDiscipline
    <2>1. ASSUME NothingToFinish(p) \/ BundlesDone(p) PROVE Leaves(p)
      BY <2>1 DEF NothingToFinish, BundlesDone, EndPass, Leaves, Labels, Holding
    <2>2. ASSUME SelectClaims(p) PROVE Keeps(p)
      BY <2>2 DEF SelectClaims, DrawSnapshot, Goto, Keeps, Moves, Labels, Holding
    <2>3. CASE RecordsDone(p)
      <3>1. CASE p = Runtime
        BY <2>3, <3>1, Processes DEF RecordsDone, Goto, Keeps, Moves, Labels, Holding,
                                     LockDiscipline
      <3>2. CASE p # Runtime
        BY <2>3, <3>2, Processes DEF RecordsDone, Goto, Frees, Moves, Labels, Holding,
                                     LockDiscipline
      <3>. QED
        BY <3>1, <3>2
    <2>4. ASSUME BeginBundles(p) PROVE Takes(p)
      BY <2>4 DEF BeginBundles, Acquire, Goto, Takes, Moves, Labels
    <2>5. ASSUME NEW r \in Runs, RecordRequest(p, r) \/ PublishBundle(p, r) \/ MarkPending(p, r)
          PROVE  UNCHANGED <<lock, pc>>
      BY <2>5 DEF RecordRequest, PublishBundle, MarkPending
    <2>6. ASSUME NEW r \in Runs, BundleConflict(p, r) PROVE Leaves(p)
      BY <2>6 DEF BundleConflict, Finish, Leaves, Labels, Holding
    <2>. QED
      BY <1>6, <2>1, <2>2, <2>3, <2>4, <2>5, <2>6, Processes DEF PrepareStep, LockDiscipline
  <1>7. ASSUME NEW p \in Preparers \cup Operators, SnapshotStep(p) PROVE LockDiscipline
    <2>1. ASSUME CopyWarehouse(p) PROVE Takes(p)
      BY <2>1 DEF CopyWarehouse, Acquire, Goto, Takes, Moves, Labels
    <2>2. ASSUME PublishSnapshot(p) PROVE Frees(p)
      BY <2>2 DEF PublishSnapshot, Goto, Frees, Moves, Labels, Holding
    <2>3. ASSUME NEW r \in Runs, Protect(p, r) PROVE UNCHANGED <<lock, pc>>
      BY <2>3 DEF Protect
    <2>. QED
      BY <1>7, <2>1, <2>2, <2>3, Processes DEF SnapshotStep, LockDiscipline
  <1>. QED
    BY <1>1, <1>2, <1>3, <1>4, <1>5, <1>6, <1>7, Processes
       DEF PrepareNext, RuntimeStep, LockDiscipline

LEMMA RetentionDiscipline ==
    ASSUME TypeInv, RetentionNext
    PROVE  LockDiscipline
  <1>1. ASSUME NEW p \in Pruners, PeriodicSnapshot(p) PROVE Keeps(p)
    BY <1>1 DEF PeriodicSnapshot, DrawSnapshot, Goto, Keeps, Moves, Labels, Holding
  <1>2. ASSUME NEW p \in Pruners, BeginPrune(p) PROVE Takes(p)
    BY <1>2 DEF BeginPrune, Acquire, Goto, Takes, Moves, Labels
  <1>3. ASSUME NEW p \in Pruners, PruneOne(p) PROVE UNCHANGED <<lock, pc>>
    BY <1>3 DEF PruneOne
  <1>4. ASSUME NEW p \in Pruners, PruneDone(p) PROVE Leaves(p)
    BY <1>4 DEF PruneDone, Finish, Leaves, Labels, Holding
  <1>5. ASSUME NEW p \in Operators, ReadProtected(p) PROVE Keeps(p)
    BY <1>5 DEF ReadProtected, Goto, Keeps, Moves, Labels, Holding
  <1>6. ASSUME NEW p \in Operators, BeginStalePrune(p) PROVE Takes(p)
    BY <1>6 DEF BeginStalePrune, Acquire, Goto, Takes, Moves, Labels
  <1>. QED
    BY <1>1, <1>2, <1>3, <1>4, <1>5, <1>6, Processes
       DEF RetentionNext, PruneStep, OperatorPrune, LockDiscipline

LEMMA WorkflowDiscipline ==
    ASSUME TypeInv, NEW p \in Workflows, NEW r \in Runs, WfSelect(p, r) \/ WorkflowStep(p, r)
    PROVE  UNCHANGED <<lock, pc>> \/ Keeps(p) \/ Leaves(p)
  <1>1. ASSUME WfSelect(p, r) \/ WfDownload(p, r) \/ WfVerify(p, r) \/ WfStage(p, r)
               \/ \E status \in Outcomes : WfPublish(p, r, status)
        PROVE  Keeps(p)
    BY <1>1 DEF WfSelect, WfDownload, WfVerify, WfStage, WfPublish, Goto, Keeps, Moves, Labels,
                Holding
  <1>2. ASSUME WfDownloadFails(p, r) \/ RefuseRequest(p, r) \/ RefuseNothing(p, r)
               \/ WfIngestRefused(p, r)
        PROVE  Leaves(p)
    BY <1>2 DEF WfDownloadFails, RefuseRequest, RefuseNothing, WfIngestRefused, Finish, Leaves,
                Labels, Holding
  <1>3. ASSUME RefuseRun(p, r) PROVE UNCHANGED <<lock, pc>>
    BY <1>3 DEF RefuseRun
  <1>. QED
    BY <1>1, <1>2, <1>3 DEF WorkflowStep

LEMMA IngestDiscipline ==
    ASSUME TypeInv, NEW p \in Workflows \cup Ingesters, NEW r \in Runs,
           IngestCheck(p, r) \/ IngestStep(p, r)
    PROVE  UNCHANGED <<lock, pc>> \/ Takes(p) \/ Keeps(p) \/ Leaves(p)
  <1>1. ASSUME IngestCheck(p, r) PROVE Keeps(p)
    BY <1>1 DEF IngestCheck, Goto, Keeps, Moves, Labels, Holding
  <1>2. ASSUME InstallArtifacts(p, r) PROVE Takes(p)
    BY <1>2 DEF InstallArtifacts, Acquire, Goto, Takes, Moves, Labels
  <1>3. ASSUME StartRun(p, r) PROVE UNCHANGED <<lock, pc>>
    BY <1>3 DEF StartRun
  <1>4. ASSUME EndRun(p, r) \/ RunEnded(p, r) \/ Complete(p, r) PROVE Keeps(p)
    BY <1>4 DEF EndRun, RunEnded, Complete, Working, Goto, Keeps, Moves, Labels, Holding
  <1>5. ASSUME RunDisagrees(p, r) \/ RecordResult(p, r) PROVE Leaves(p)
    BY <1>5 DEF RunDisagrees, RecordResult, Finish, Leaves, Labels, Holding
  <1>. QED
    BY <1>1, <1>2, <1>3, <1>4, <1>5 DEF IngestStep

LEMMA ExecutionDiscipline ==
    ASSUME TypeInv, ExecutionNext
    PROVE  LockDiscipline
  <1>1. ASSUME NEW p \in Workflows, BeginRefuse(p) PROVE Takes(p)
    BY <1>1 DEF BeginRefuse, Acquire, Goto, Takes, Moves, Labels
  <1>. QED
    BY <1>1, WorkflowDiscipline, IngestDiscipline, Processes DEF ExecutionNext, LockDiscipline

LEMMA ClosureDiscipline ==
    ASSUME TypeInv, ClosureNext
    PROVE  LockDiscipline
  <1>1. ASSUME NEW swept \in SUBSET Runs, Housekeeping(swept) PROVE Takes(Runtime) \/ Leaves(Runtime)
    BY <1>1 DEF Housekeeping, Goto, Takes, Moves, Leaves, Labels, Holding
  <1>2. ASSUME NEW p \in Retirees, RetireStep(p)
        PROVE  UNCHANGED <<lock, pc>> \/ Keeps(p) \/ Leaves(p)
    <2>1. ASSUME RetireLog(p) PROVE Keeps(p)
      BY <2>1 DEF RetireLog, Goto, Keeps, Moves, Labels, Holding
    <2>2. ASSUME RetireRequests(p) PROVE Leaves(p)
      BY <2>2 DEF RetireRequests, Leaves, Labels, Holding
    <2>3. ASSUME NEW r \in Runs, RetireRun(p, r) PROVE UNCHANGED <<lock, pc>>
      BY <2>3 DEF RetireRun
    <2>. QED
      BY <1>2, <2>1, <2>2, <2>3 DEF RetireStep
  <1>3. ASSUME NEW p \in Operators, ReviewStep(p) PROVE Keeps(p) \/ Takes(p) \/ Leaves(p)
    <2>1. ASSUME Review(p) PROVE Keeps(p)
      BY <2>1 DEF Review, Goto, Keeps, Moves, Labels, Holding
    <2>2. ASSUME Apply(p) PROVE Takes(p)
      BY <2>2 DEF Apply, Acquire, Goto, Takes, Moves, Labels
    <2>3. ASSUME ApplyRefused(p) PROVE Leaves(p)
      BY <2>3 DEF ApplyRefused, Finish, Leaves, Labels, Holding
    <2>. QED
      BY <1>3, <2>1, <2>2, <2>3 DEF ReviewStep
  <1>4. ASSUME NEW p \in Operators, NEW r \in Runs, BeginRepair(p, r) \/ ResumeRepair(p, r)
        PROVE  Takes(p)
    BY <1>4 DEF BeginRepair, ResumeRepair, Acquire, Goto, Takes, Moves, Labels
  <1>5. ASSUME NEW p \in Operators, NEW r \in Runs, Reinstate(p, r) PROVE UNCHANGED <<lock, pc>>
    BY <1>5 DEF Reinstate
  <1>6. ASSUME NEW p \in Operators, NEW r \in Runs, Reopen(p, r) \/ RepairNothing(p, r)
        PROVE  Leaves(p)
    BY <1>6 DEF Reopen, RepairNothing, Finish, Leaves, Labels, Holding
  <1>. QED
    BY <1>1, <1>2, <1>3, <1>4, <1>5, <1>6, Processes
       DEF ClosureNext, BeginRepairs, RepairStep, LockDiscipline

LEMMA NextDiscipline ==
    ASSUME TypeInv, [Next]_vars
    PROVE  LockDiscipline
  <1>1. ASSUME NEW r \in Runs, Advance(r) PROVE UNCHANGED <<lock, pc>>
    BY <1>1 DEF Advance
  <1>2. ASSUME NEW p \in Procs, Kill(p) PROVE Leaves(p)
    BY <1>2 DEF Kill, Finish, Leaves, Labels, Holding
  <1>3. ASSUME UNCHANGED vars PROVE UNCHANGED <<lock, pc>>
    BY <1>3 DEF vars
  <1>. QED
    BY <1>1, <1>2, <1>3, PrepareDiscipline, RetentionDiscipline, ExecutionDiscipline,
       ClosureDiscipline DEF Next, LockDiscipline

LEMMA ExclusiveInvariant == Spec => []Exclusive
  <1>1. Init => Exclusive
    BY DEF Init, StoreInit, Exclusive, Holding
  <1>2. TypeInv /\ Exclusive /\ [Next]_vars => Exclusive'
    BY NextDiscipline, DisciplineKeepsExclusive
  <1>. QED
    BY <1>1, <1>2, TypeInvariant, PTL DEF Spec

\* Two processes are never inside locked sections at once, whoever is killed.
THEOREM MutualExclusion ==
    Spec => [](\A p, q \in Procs : pc[p] \in Holding /\ pc[q] \in Holding => p = q)
  <1>1. Exclusive => \A p, q \in Procs : pc[p] \in Holding /\ pc[q] \in Holding => p = q
    BY DEF Exclusive
  <1>. QED
    BY <1>1, ExclusiveInvariant, PTL

-----------------------------------------------------------------------------
(* One snapshot for a run; no step of the argument rests on the lock. *)

Executing == {"wfVerify", "wfStage", "wfPublish"}
Installing == {"wantIngest", "runStatus", "complete", "resultRow"}
Critical == Executing \cup Installing \cup {"repair"}

RowPaired(r) ==
    req[r].state \in {"PENDING", "COMPLETED"} => bundle[r] # NoSnap /\ req[r].snap = bundle[r]
ResultPaired(r) == result[r] # NoResult => bundle[r] # NoSnap /\ result[r].snap = bundle[r]
RepairPaired(r) == r \in repaired => bundle[r] # NoSnap /\ req[r].snap = bundle[r]
                                     /\ req[r].state \notin {"NONE", "PREPARING"}

Remembers(p) ==
    /\ pc[p] \in Executing => \A r \in sel[p] : bundle[r] = sid[p] /\ sid[p] # NoSnap
    /\ pc[p] \in Installing => \A r \in sel[p] : result[r] # NoResult /\ result[r].snap = sid[p]
    /\ pc[p] = "repair" => sel[p] \subseteq repaired

EvidenceInv ==
    /\ TypeInv
    /\ \A r \in Runs : RowPaired(r) /\ ResultPaired(r) /\ RepairPaired(r)
    /\ \A p \in Procs : Remembers(p)

-----------------------------------------------------------------------------
(* What disturbs the invariant: the four tables it reads, and the memory of *)
(* the one process that moves.                                             *)

Elsewhere(p) ==
    \A q \in Procs \ {p} : pc'[q] = pc[q] /\ sel'[q] = sel[q] /\ sid'[q] = sid[q]

pairing == <<req, bundle, result, repaired>>

\* A process that moves to a label where nothing is remembered disturbs nothing.
LEMMA QuietStep ==
    ASSUME EvidenceInv, TypeInv', NEW p \in Procs, Elsewhere(p), pc'[p] \notin Critical,
           UNCHANGED pairing
    PROVE  EvidenceInv'
  <1>1. \A q \in Procs : Remembers(q)'
    BY DEF EvidenceInv, Remembers, Elsewhere, Critical, pairing
  <1>. QED
    BY <1>1 DEF EvidenceInv, RowPaired, ResultPaired, RepairPaired, pairing

LEMMA LeaveElsewhere ==
    ASSUME TypeInv, NEW p \in Procs, NEW label, Leave(p, label)
    PROVE  Elsewhere(p) /\ pc'[p] = label
  BY DEF TypeInv, TypeOK, Leave, Goto, Elsewhere

LEMMA QuietLeave ==
    ASSUME EvidenceInv, TypeInv', NEW p \in Procs, NEW label \in QuietLabels \ Critical,
           Leave(p, label), UNCHANGED pairing
    PROVE  EvidenceInv'
  BY QuietStep, LeaveElsewhere DEF EvidenceInv

LEMMA QuietFinish ==
    ASSUME EvidenceInv, TypeInv', NEW p \in Procs, Finish(p), UNCHANGED pairing
    PROVE  EvidenceInv'
  BY QuietStep, LeaveElsewhere DEF EvidenceInv, Finish, Critical, Executing, Installing

\* A row that takes a new state disturbs only its own pairing.
LEMMA RowStep ==
    ASSUME EvidenceInv, TypeInv', NEW r \in Runs, NEW state, NEW snap, Upsert(r, state, snap),
           RowPaired(r)', RepairPaired(r)', UNCHANGED <<bundle, result, repaired>>
    PROVE  \A q \in Runs : RowPaired(q)' /\ ResultPaired(q)' /\ RepairPaired(q)'
  <1>. SUFFICES ASSUME NEW q \in Runs, q # r
                PROVE RowPaired(q)' /\ ResultPaired(q)' /\ RepairPaired(q)'
    BY DEF EvidenceInv, ResultPaired
  <1>1. req'[q] = req[q]
    BY DEF Upsert, EvidenceInv, TypeInv, TypeOK
  <1>. QED
    BY <1>1 DEF EvidenceInv, RowPaired, ResultPaired, RepairPaired

LEMMA SameMemory ==
    ASSUME EvidenceInv, UNCHANGED <<pc, sel, sid, bundle, result, repaired>>
    PROVE  \A p \in Procs : Remembers(p)'
  BY DEF EvidenceInv, Remembers

LEMMA LeftMemory ==
    ASSUME EvidenceInv, NEW p \in Procs, Elsewhere(p), pc'[p] \notin Critical,
           UNCHANGED <<bundle, result, repaired>>
    PROVE  \A q \in Procs : Remembers(q)'
  BY DEF EvidenceInv, Remembers, Elsewhere, Critical

-----------------------------------------------------------------------------
(* Preparation. *)

LEMMA RowType ==
    ASSUME TypeInv, NEW r \in Runs, NEW state, NEW snap, Upsert(r, state, snap)
    PROVE  req'[r].state = state /\ req'[r].snap = snap
  BY DEF TypeInv, TypeOK, Upsert

LEMMA RecordRequestEvidence ==
    ASSUME EvidenceInv, TypeInv', NEW p \in Preparers, NEW r \in Runs, RecordRequest(p, r)
    PROVE  EvidenceInv'
  <1>1. Upsert(r, "PREPARING", NoSnap) /\ r \notin repaired
        /\ UNCHANGED <<pc, sel, sid, bundle, result, repaired>>
    BY DEF RecordRequest, Unrecorded, EvidenceInv, RepairPaired, files, locals
  <1>2. RowPaired(r)' /\ RepairPaired(r)'
    BY <1>1, RowType DEF RowPaired, RepairPaired, EvidenceInv
  <1>. QED
    BY <1>1, <1>2, RowStep, SameMemory DEF EvidenceInv

LEMMA ProtectEvidence ==
    ASSUME EvidenceInv, TypeInv', NEW p \in Procs, NEW r \in Runs, Protect(p, r)
    PROVE  EvidenceInv'
  <1>1. Upsert(r, "PREPARING", sid[p]) /\ r \notin repaired
        /\ UNCHANGED <<pc, sel, sid, bundle, result, repaired>>
    BY DEF Protect, Unprotected, StillPreparing, EvidenceInv, RepairPaired, files, locals
  <1>2. RowPaired(r)' /\ RepairPaired(r)'
    BY <1>1, RowType DEF RowPaired, RepairPaired, EvidenceInv
  <1>. QED
    BY <1>1, <1>2, RowStep, SameMemory DEF EvidenceInv

LEMMA MarkPendingEvidence ==
    ASSUME EvidenceInv, TypeInv', NEW p \in Preparers, NEW r \in Runs, MarkPending(p, r)
    PROVE  EvidenceInv'
  <1>1. Upsert(r, "PENDING", sid[p]) /\ r \notin repaired /\ bundle[r] = sid[p]
        /\ bundle[r] # NoSnap /\ UNCHANGED <<pc, sel, sid, bundle, result, repaired>>
    BY DEF MarkPending, Bundling, StillPreparing, EvidenceInv, RepairPaired, files, locals
  <1>2. RowPaired(r)' /\ RepairPaired(r)'
    BY <1>1, RowType DEF RowPaired, RepairPaired, EvidenceInv
  <1>. QED
    BY <1>1, <1>2, RowStep, SameMemory DEF EvidenceInv

\* A first bundle: nothing was paired with this run before.
LEMMA PublishBundleEvidence ==
    ASSUME EvidenceInv, TypeInv', NEW p \in Preparers, NEW r \in Runs, PublishBundle(p, r)
    PROVE  EvidenceInv'
  <1>1. /\ bundle[r] = NoSnap /\ bundle' = [bundle EXCEPT ![r] = sid[p]]
        /\ UNCHANGED <<pc, sel, sid, req, result, repaired>>
    BY DEF PublishBundle, tables, locals
  <1>2. \A q \in Runs : bundle[q] # NoSnap => bundle'[q] = bundle[q]
    BY <1>1 DEF EvidenceInv, TypeInv, TypeOK
  <1>3. \A q \in Runs : RowPaired(q)' /\ ResultPaired(q)' /\ RepairPaired(q)'
    BY <1>1, <1>2 DEF EvidenceInv, RowPaired, ResultPaired, RepairPaired
  <1>4. \A q \in Procs : sel[q] \subseteq Runs
    BY DEF EvidenceInv, TypeInv, TypeOK
  <1>5. \A q \in Procs : Remembers(q)'
    BY <1>1, <1>2, <1>4 DEF EvidenceInv, Remembers
  <1>. QED
    BY <1>3, <1>5 DEF EvidenceInv

LEMMA GateRequestEvidence ==
    ASSUME EvidenceInv, TypeInv', NEW r \in Runs, GateRequest(r)
    PROVE  EvidenceInv'
  <1>1. Upsert(r, "NOT_EXECUTABLE", req[r].snap)
        /\ UNCHANGED <<pc, sel, sid, bundle, result, repaired>>
    BY DEF GateRequest, files, locals
  <1>2. RowPaired(r)' /\ RepairPaired(r)'
    BY <1>1, RowType DEF RowPaired, RepairPaired, EvidenceInv
  <1>. QED
    BY <1>1, <1>2, RowStep, SameMemory DEF EvidenceInv

LEMMA RuntimeStepEvidence ==
    ASSUME EvidenceInv, TypeInv', RuntimeStep
    PROVE  EvidenceInv'
  <1>. Runtime \in Procs
    BY DEF Procs
  <1>1. ASSUME NEW r \in Runs, Claim(r) \/ GateRun(r) PROVE EvidenceInv'
    <2>1. UNCHANGED <<pairing, pc, sel, sid>>
      BY <1>1 DEF Claim, GateRun, pairing, files, locals
    <2>. QED
      BY <2>1 DEF EvidenceInv, RowPaired, ResultPaired, RepairPaired, Remembers, pairing
  <1>2. CASE ClaimsDone \/ GateDone
    <2>1. Elsewhere(Runtime) /\ pc'[Runtime] \notin Critical /\ UNCHANGED pairing
      BY <1>2 DEF ClaimsDone, GateDone, Goto, Elsewhere, pairing, tables, files, locals, Critical,
                  Executing, Installing, EvidenceInv, TypeInv, TypeOK
    <2>. QED
      BY <2>1, QuietStep
  <1>. QED
    BY <1>1, <1>2, GateRequestEvidence DEF RuntimeStep

LEMMA PrepareStepEvidence ==
    ASSUME EvidenceInv, TypeInv', NEW p \in Preparers, PrepareStep(p)
    PROVE  EvidenceInv'
  <1>. p \in Procs
    BY DEF Preparers, Procs
  <1>1. CASE NothingToFinish(p) \/ BundlesDone(p)
    <2>1. \E label \in {"wantPrune", "idle"} : Leave(p, label)
      BY <1>1 DEF NothingToFinish, BundlesDone, EndPass
    <2>2. UNCHANGED pairing
      BY <1>1 DEF NothingToFinish, BundlesDone, pairing, tables, files
    <2>. QED
      BY <2>1, <2>2, QuietStep, LeaveElsewhere DEF EvidenceInv, Critical, Executing, Installing
  <1>2. CASE SelectClaims(p)
    <2>1. UNCHANGED pairing
      BY <1>2 DEF SelectClaims, pairing, tables
    <2>2. Elsewhere(p) /\ pc'[p] \in {"wantBundle", "wantSnap"}
      BY <1>2 DEF SelectClaims, DrawSnapshot, Goto, Elsewhere, EvidenceInv, TypeInv, TypeOK
    <2>. QED
      BY <2>1, <2>2, QuietStep DEF Critical, Executing, Installing
  <1>3. CASE RecordsDone(p) \/ BeginBundles(p)
    <2>1. UNCHANGED pairing /\ UNCHANGED <<sel, sid>>
      BY <1>3 DEF RecordsDone, BeginBundles, pairing, tables, files, locals
    <2>2. Elsewhere(p) /\ pc'[p] \in {"gate", "select", "bundle"}
      BY <1>3, <2>1 DEF RecordsDone, BeginBundles, Acquire, Goto, Elsewhere, EvidenceInv,
                        TypeInv, TypeOK
    <2>. QED
      BY <2>1, <2>2, QuietStep DEF Critical, Executing, Installing
  <1>4. ASSUME NEW r \in Runs, BundleConflict(p, r) PROVE EvidenceInv'
    BY <1>4, QuietFinish DEF BundleConflict, pairing, tables, files
  <1>. QED
    BY <1>1, <1>2, <1>3, <1>4, RecordRequestEvidence, PublishBundleEvidence, MarkPendingEvidence
       DEF PrepareStep

LEMMA SnapshotStepEvidence ==
    ASSUME EvidenceInv, TypeInv', NEW p \in Preparers \cup Operators, SnapshotStep(p)
    PROVE  EvidenceInv'
  <1>. p \in Procs
    BY DEF Preparers, Procs
  <1>1. CASE CopyWarehouse(p)
    <2>1. UNCHANGED pairing
      BY <1>1 DEF CopyWarehouse, pairing, tables
    <2>2. UNCHANGED sel /\ pc' = [pc EXCEPT ![p] = "protect"]
      BY <1>1 DEF CopyWarehouse, Acquire, Goto
    <2>3. \A q \in Procs \ {p} : sid'[q] = sid[q]
      BY <1>1 DEF CopyWarehouse, EvidenceInv, TypeInv, TypeOK
    <2>4. Elsewhere(p) /\ pc'[p] = "protect"
      BY <2>2, <2>3 DEF Elsewhere, EvidenceInv, TypeInv, TypeOK
    <2>. QED
      BY <2>1, <2>4, QuietStep DEF Critical, Executing, Installing
  <1>2. CASE PublishSnapshot(p)
    <2>1. UNCHANGED pairing /\ UNCHANGED <<sel, sid>>
      BY <1>2 DEF PublishSnapshot, pairing, tables, locals
    <2>2. Elsewhere(p) /\ pc'[p] \in {"cliRead", "wantPrune", "wantBundle"}
      BY <1>2, <2>1 DEF PublishSnapshot, Goto, Elsewhere, EvidenceInv, TypeInv, TypeOK
    <2>. QED
      BY <2>1, <2>2, QuietStep DEF Critical, Executing, Installing
  <1>. QED
    BY <1>1, <1>2, ProtectEvidence DEF SnapshotStep

LEMMA PrepareEvidence ==
    ASSUME EvidenceInv, TypeInv', PrepareNext
    PROVE  EvidenceInv'
  <1>1. ASSUME NEW skip \in ExclusionSets, BeginPass(skip) PROVE EvidenceInv'
    <2>1. Runtime \in Procs /\ UNCHANGED pairing /\ UNCHANGED <<sel, sid>>
      BY <1>1 DEF BeginPass, Procs, pairing, tables, files
    <2>2. Elsewhere(Runtime) /\ pc'[Runtime] = "claim"
      BY <1>1, <2>1 DEF BeginPass, Acquire, Goto, Elsewhere, EvidenceInv, TypeInv, TypeOK
    <2>. QED
      BY <2>1, <2>2, QuietStep DEF Critical, Executing, Installing
  <1>2. ASSUME NEW p \in Manuals, NEW r \in Runs, ManualClaim(p, r) PROVE EvidenceInv'
    <2>1. p \in Procs /\ UNCHANGED pairing /\ UNCHANGED <<sel, sid>>
      BY <1>2 DEF ManualClaim, Procs, pairing, files, locals
    <2>2. Elsewhere(p) /\ pc'[p] = "record"
      BY <1>2, <2>1 DEF ManualClaim, Acquire, Goto, Elsewhere, EvidenceInv, TypeInv, TypeOK
    <2>. QED
      BY <2>1, <2>2, QuietStep DEF Critical, Executing, Installing
  <1>. QED
    BY <1>1, <1>2, RuntimeStepEvidence, PrepareStepEvidence, SnapshotStepEvidence
       DEF PrepareNext

-----------------------------------------------------------------------------
(* Retention. *)

LEMMA RetentionEvidence ==
    ASSUME EvidenceInv, TypeInv', RetentionNext
    PROVE  EvidenceInv'
  <1>. \A p \in Pruners \cup Operators : p \in Procs
    BY DEF Pruners, Procs
  <1>1. ASSUME NEW p \in Pruners, PeriodicSnapshot(p) PROVE EvidenceInv'
    <2>1. UNCHANGED pairing
      BY <1>1 DEF PeriodicSnapshot, pairing, tables
    <2>2. Elsewhere(p) /\ pc'[p] = "wantSnap"
      BY <1>1 DEF PeriodicSnapshot, DrawSnapshot, Goto, Elsewhere, EvidenceInv, TypeInv, TypeOK
    <2>. QED
      BY <2>1, <2>2, QuietStep DEF Critical, Executing, Installing
  <1>2. ASSUME NEW p \in Pruners, BeginPrune(p) PROVE EvidenceInv'
    <2>1. UNCHANGED pairing /\ UNCHANGED <<sel, sid>>
      BY <1>2 DEF BeginPrune, pairing, tables, files
    <2>2. Elsewhere(p) /\ pc'[p] = "prune"
      BY <1>2, <2>1 DEF BeginPrune, Acquire, Goto, Elsewhere, EvidenceInv, TypeInv, TypeOK
    <2>. QED
      BY <2>1, <2>2, QuietStep DEF Critical, Executing, Installing
  <1>3. ASSUME NEW p \in Pruners, PruneOne(p) PROVE EvidenceInv'
    <2>1. UNCHANGED <<pairing, pc, sel, sid>>
      BY <1>3 DEF PruneOne, pairing, tables, locals
    <2>. QED
      BY <2>1 DEF EvidenceInv, RowPaired, ResultPaired, RepairPaired, Remembers, pairing
  <1>4. ASSUME NEW p \in Pruners, PruneDone(p) PROVE EvidenceInv'
    BY <1>4, QuietFinish DEF PruneDone, pairing, tables, files
  <1>5. ASSUME NEW p \in Operators, ReadProtected(p) \/ BeginStalePrune(p) PROVE EvidenceInv'
    <2>1. UNCHANGED pairing /\ UNCHANGED <<sel, sid>>
      BY <1>5 DEF ReadProtected, BeginStalePrune, pairing, tables, files, locals
    <2>2. Elsewhere(p) /\ pc'[p] \in {"cliPrune", "prune"}
      BY <1>5, <2>1 DEF ReadProtected, BeginStalePrune, Acquire, Goto, Elsewhere, EvidenceInv,
                        TypeInv, TypeOK
    <2>. QED
      BY <2>1, <2>2, QuietStep DEF Critical, Executing, Installing
  <1>. QED
    BY <1>1, <1>2, <1>3, <1>4, <1>5 DEF RetentionNext, PruneStep, OperatorPrune

-----------------------------------------------------------------------------
(* Execution and ingest. *)

\* A process that moves on and remembers what it must disturbs nobody else.
LEMMA MemoryStep ==
    ASSUME EvidenceInv, TypeInv', NEW p \in Procs, Elsewhere(p), Remembers(p)',
           UNCHANGED pairing
    PROVE  EvidenceInv'
  <1>1. \A q \in Procs : Remembers(q)'
    BY DEF EvidenceInv, Remembers, Elsewhere, pairing
  <1>. QED
    BY <1>1 DEF EvidenceInv, RowPaired, ResultPaired, RepairPaired, pairing

LEMMA SelectEvidence ==
    ASSUME EvidenceInv, TypeInv', NEW p \in Workflows, NEW r \in Runs, WfSelect(p, r)
    PROVE  EvidenceInv'
  <1>1. p \in Procs /\ UNCHANGED pairing
    BY DEF WfSelect, Procs, pairing, tables, files
  <1>2. Elsewhere(p) /\ pc'[p] \in {"wfDownload", "wfIngest"}
    BY <1>1 DEF WfSelect, Goto, Elsewhere, EvidenceInv, TypeInv, TypeOK
  <1>. QED
    BY <1>1, <1>2, QuietStep DEF Critical, Executing, Installing

LEMMA RefuseRequestEvidence ==
    ASSUME EvidenceInv, TypeInv', NEW p \in Workflows, NEW r \in Runs, RefuseRequest(p, r)
    PROVE  EvidenceInv'
  <1>. p \in Procs
    BY DEF Procs
  <1>1. /\ Upsert(r, "NOT_EXECUTABLE", req[r].snap)
        /\ Finish(p) /\ UNCHANGED <<bundle, result, repaired>>
    BY DEF RefuseRequest, files
  <1>2. RowPaired(r)' /\ RepairPaired(r)'
    BY <1>1, RowType DEF RowPaired, RepairPaired, EvidenceInv
  <1>3. Elsewhere(p) /\ pc'[p] = "idle"
    BY <1>1, LeaveElsewhere DEF Finish, EvidenceInv
  <1>4. \A q \in Procs : Remembers(q)'
    BY <1>1, <1>3, LeftMemory DEF Critical, Executing, Installing
  <1>. QED
    BY <1>1, <1>2, <1>4, RowStep DEF EvidenceInv

\* The result a workflow publishes was computed from the bundle it verified.
LEMMA PublishResultEvidence ==
    ASSUME EvidenceInv, TypeInv', NEW p \in Workflows, NEW r \in Runs, NEW status \in Outcomes,
           WfPublish(p, r, status)
    PROVE  EvidenceInv'
  <1>. p \in Procs
    BY DEF Procs
  <1>1. /\ pc[p] = "wfPublish" /\ sel[p] = {r}
        /\ result[r] = NoResult
        /\ result' = [result EXCEPT ![r] = [status |-> status, snap |-> sid[p]]]
        /\ UNCHANGED <<sel, sid, req, bundle, repaired>>
    BY DEF WfPublish, Working, tables, locals
  <1>2. bundle[r] = sid[p] /\ sid[p] # NoSnap
    BY <1>1 DEF EvidenceInv, Remembers, Executing
  <1>3. /\ \A q \in Runs \ {r} : result'[q] = result[q]
        /\ result'[r].snap = sid[p]
    BY <1>1 DEF EvidenceInv, TypeInv, TypeOK
  <1>4. \A q \in Runs : RowPaired(q)' /\ ResultPaired(q)' /\ RepairPaired(q)'
    BY <1>1, <1>2, <1>3 DEF EvidenceInv, RowPaired, ResultPaired, RepairPaired
  <1>5. Elsewhere(p) /\ pc'[p] = "wfIngest"
    BY <1>1 DEF WfPublish, Goto, Elsewhere, EvidenceInv, TypeInv, TypeOK
  <1>6. ASSUME NEW q \in Procs PROVE Remembers(q)'
    <2>1. \A o \in sel[q] : o \in Runs /\ (result[o] # NoResult => result'[o] = result[o])
      BY <1>1, <1>3 DEF EvidenceInv, TypeInv, TypeOK
    <2>. QED
      BY <1>1, <1>5, <2>1 DEF EvidenceInv, Remembers, Elsewhere, Executing, Installing
  <1>. QED
    BY <1>4, <1>6 DEF EvidenceInv

LEMMA WorkflowStepEvidence ==
    ASSUME EvidenceInv, TypeInv', NEW p \in Workflows, NEW r \in Runs, WorkflowStep(p, r)
    PROVE  EvidenceInv'
  <1>. p \in Procs
    BY DEF Procs
  <1>1. CASE WfDownload(p, r)
    <2>1. UNCHANGED pairing /\ UNCHANGED <<sel, sid>>
      BY <1>1 DEF WfDownload, pairing, tables, files, locals
    <2>2. Elsewhere(p) /\ pc'[p] = "wfVerify"
      BY <1>1, <2>1 DEF WfDownload, Goto, Elsewhere, EvidenceInv, TypeInv, TypeOK
    <2>3. sel[p] = {r} /\ bundle[r] = sid[p] /\ sid[p] # NoSnap
      BY <1>1, StoreAssumption DEF WfDownload, SnapshotVerified, RequestVerified, Working,
                                   EvidenceInv, TypeInv, TypeOK, Snaps, NoSnap
    <2>4. Remembers(p)'
      BY <2>1, <2>2, <2>3 DEF Remembers, pairing, Installing
    <2>. QED
      BY <2>1, <2>2, <2>4, MemoryStep
  <1>2. CASE WfVerify(p, r)
    <2>1. UNCHANGED pairing /\ UNCHANGED <<sel, sid>>
      BY <1>2 DEF WfVerify, pairing, tables, files, locals
    <2>2. Elsewhere(p) /\ pc[p] = "wfVerify" /\ pc'[p] \in {"wfStage", "refuse"}
      BY <1>2, <2>1 DEF WfVerify, Working, Goto, Elsewhere, EvidenceInv, TypeInv, TypeOK
    <2>3. Remembers(p)'
      BY <2>1, <2>2 DEF EvidenceInv, Remembers, pairing, Executing, Installing
    <2>. QED
      BY <2>1, <2>2, <2>3, MemoryStep
  <1>3. CASE WfStage(p, r)
    <2>1. UNCHANGED pairing /\ UNCHANGED <<sel, sid>>
      BY <1>3 DEF WfStage, pairing, tables, locals
    <2>2. Elsewhere(p) /\ pc[p] = "wfStage" /\ pc'[p] = "wfPublish"
      BY <1>3, <2>1 DEF WfStage, Working, Goto, Elsewhere, EvidenceInv, TypeInv, TypeOK
    <2>3. Remembers(p)'
      BY <2>1, <2>2 DEF EvidenceInv, Remembers, pairing, Executing, Installing
    <2>. QED
      BY <2>1, <2>2, <2>3, MemoryStep
  <1>4. CASE WfDownloadFails(p, r) \/ RefuseNothing(p, r) \/ WfIngestRefused(p, r)
    <2>1. Finish(p) /\ UNCHANGED pairing
      BY <1>4 DEF WfDownloadFails, RefuseNothing, WfIngestRefused, pairing, tables, files
    <2>. QED
      BY <2>1, QuietFinish
  <1>5. CASE RefuseRun(p, r)
    <2>1. UNCHANGED <<pairing, pc, sel, sid>>
      BY <1>5 DEF RefuseRun, pairing, files, locals
    <2>. QED
      BY <2>1 DEF EvidenceInv, RowPaired, ResultPaired, RepairPaired, Remembers, pairing
  <1>. QED
    BY <1>1, <1>2, <1>3, <1>4, <1>5, PublishResultEvidence, RefuseRequestEvidence
       DEF WorkflowStep

\* COMPLETED names the snapshot of the result, whatever the row said meanwhile.
LEMMA CompleteEvidence ==
    ASSUME EvidenceInv, TypeInv', NEW p \in Workflows \cup Ingesters, NEW r \in Runs,
           Complete(p, r)
    PROVE  EvidenceInv'
  <1>. p \in Procs
    BY DEF Procs
  <1>1. /\ pc[p] = "complete" /\ sel[p] = {r}
        /\ Upsert(r, "COMPLETED", sid[p])
        /\ Goto(p, "resultRow") /\ UNCHANGED <<sel, sid, bundle, result, repaired>>
    BY DEF Complete, Working, files, locals
  <1>2. result[r] # NoResult /\ result[r].snap = sid[p]
    BY <1>1 DEF EvidenceInv, Remembers, Installing
  <1>3. bundle[r] # NoSnap /\ bundle[r] = sid[p]
    BY <1>2 DEF EvidenceInv, ResultPaired
  <1>4. RowPaired(r)' /\ RepairPaired(r)'
    BY <1>1, <1>3, RowType DEF RowPaired, RepairPaired, EvidenceInv
  <1>5. \A q \in Procs : Remembers(q)'
    BY <1>1 DEF EvidenceInv, TypeInv, TypeOK, Remembers, Goto, Executing, Installing
  <1>. QED
    BY <1>1, <1>4, <1>5, RowStep DEF EvidenceInv

LEMMA IngestStepEvidence ==
    ASSUME EvidenceInv, TypeInv', NEW p \in Workflows \cup Ingesters, NEW r \in Runs,
           IngestStep(p, r)
    PROVE  EvidenceInv'
  <1>. p \in Procs
    BY DEF Procs
  <1>1. CASE InstallArtifacts(p, r)
    <2>1. UNCHANGED pairing /\ UNCHANGED <<sel, sid>>
      BY <1>1 DEF InstallArtifacts, pairing, files, locals
    <2>2. Elsewhere(p) /\ pc[p] = "wantIngest" /\ pc'[p] = "runStatus"
      BY <1>1, <2>1 DEF InstallArtifacts, Acquire, Goto, Elsewhere, EvidenceInv, TypeInv, TypeOK
    <2>3. Remembers(p)'
      BY <2>1, <2>2 DEF EvidenceInv, Remembers, pairing, Executing, Installing
    <2>. QED
      BY <2>1, <2>2, <2>3, MemoryStep
  <1>2. CASE StartRun(p, r)
    <2>1. UNCHANGED <<pairing, pc, sel, sid>>
      BY <1>2 DEF StartRun, pairing, files, locals
    <2>. QED
      BY <2>1 DEF EvidenceInv, RowPaired, ResultPaired, RepairPaired, Remembers, pairing
  <1>3. CASE EndRun(p, r) \/ RunEnded(p, r)
    <2>1. UNCHANGED pairing /\ UNCHANGED <<sel, sid>>
      BY <1>3 DEF EndRun, RunEnded, pairing, tables, files, locals
    <2>2. Elsewhere(p) /\ pc[p] = "runStatus" /\ pc'[p] = "complete"
      BY <1>3, <2>1 DEF EndRun, RunEnded, Working, Goto, Elsewhere, EvidenceInv, TypeInv, TypeOK
    <2>3. Remembers(p)'
      BY <2>1, <2>2 DEF EvidenceInv, Remembers, pairing, Executing, Installing
    <2>. QED
      BY <2>1, <2>2, <2>3, MemoryStep
  <1>4. CASE RunDisagrees(p, r) \/ RecordResult(p, r)
    <2>1. Finish(p) /\ UNCHANGED pairing
      BY <1>4 DEF RunDisagrees, RecordResult, pairing, tables, files
    <2>. QED
      BY <2>1, QuietFinish
  <1>. QED
    BY <1>1, <1>2, <1>3, <1>4, CompleteEvidence DEF IngestStep

LEMMA ExecutionEvidence ==
    ASSUME EvidenceInv, TypeInv', ExecutionNext
    PROVE  EvidenceInv'
  <1>1. ASSUME NEW p \in Workflows, BeginRefuse(p) PROVE EvidenceInv'
    <2>1. p \in Procs /\ UNCHANGED pairing /\ UNCHANGED <<sel, sid>>
      BY <1>1 DEF BeginRefuse, Procs, pairing, tables, files, locals
    <2>2. Elsewhere(p) /\ pc'[p] = "refuseHold"
      BY <1>1, <2>1 DEF BeginRefuse, Acquire, Goto, Elsewhere, EvidenceInv, TypeInv, TypeOK
    <2>. QED
      BY <2>1, <2>2, QuietStep DEF Critical, Executing, Installing
  <1>2. ASSUME NEW p \in Workflows \cup Ingesters, NEW r \in Runs, IngestCheck(p, r)
        PROVE  EvidenceInv'
    <2>1. p \in Procs /\ UNCHANGED pairing
      BY <1>2 DEF IngestCheck, Procs, pairing, tables, files
    <2>2. Elsewhere(p) /\ pc'[p] = "wantIngest" /\ sel'[p] = {r} /\ sid'[p] = req[r].snap
      BY <1>2, <2>1 DEF IngestCheck, Goto, Elsewhere, EvidenceInv, TypeInv, TypeOK
    <2>3. result[r] # NoResult /\ req[r].snap = result[r].snap
      BY <1>2 DEF IngestCheck, Installable
    <2>4. Remembers(p)'
      BY <2>1, <2>2, <2>3 DEF Remembers, pairing, Executing, Installing
    <2>. QED
      BY <2>1, <2>2, <2>4, MemoryStep
  <1>. QED
    BY <1>1, <1>2, SelectEvidence, WorkflowStepEvidence, IngestStepEvidence DEF ExecutionNext

-----------------------------------------------------------------------------
(* Retirement and repair. *)

LEMMA HousekeepingEvidence ==
    ASSUME EvidenceInv, TypeInv', NEW swept, Housekeeping(swept)
    PROVE  EvidenceInv'
  <1>. Runtime \in Procs
    BY DEF Procs
  <1>1. UNCHANGED pairing
    BY DEF Housekeeping, pairing, tables
  <1>2. CASE Leave(Runtime, "wantPrune")
    BY <1>1, <1>2, QuietStep, LeaveElsewhere DEF EvidenceInv, Critical, Executing, Installing
  <1>3. CASE Goto(Runtime, "retireLog")
             /\ sel' = [sel EXCEPT ![Runtime] = Candidates(Runtime, upload')] /\ UNCHANGED sid
    <2>1. Elsewhere(Runtime) /\ pc'[Runtime] = "retireLog"
      BY <1>3 DEF Goto, Elsewhere, EvidenceInv, TypeInv, TypeOK
    <2>. QED
      BY <1>1, <2>1, QuietStep DEF Critical, Executing, Installing
  <1>. QED
    BY <1>2, <1>3 DEF Housekeeping

LEMMA RetireStepEvidence ==
    ASSUME EvidenceInv, TypeInv', NEW p \in Retirees, RetireStep(p)
    PROVE  EvidenceInv'
  <1>. p \in Procs
    BY DEF Procs, Retirees
  <1>1. CASE RetireLog(p)
    <2>1. UNCHANGED pairing /\ UNCHANGED <<sel, sid>>
      BY <1>1 DEF RetireLog, pairing, files, locals
    <2>2. Elsewhere(p) /\ pc'[p] = "retireRuns"
      BY <1>1, <2>1 DEF RetireLog, Goto, Elsewhere, EvidenceInv, TypeInv, TypeOK
    <2>. QED
      BY <2>1, <2>2, QuietStep DEF Critical, Executing, Installing
  <1>2. ASSUME NEW r \in Runs, RetireRun(p, r) PROVE EvidenceInv'
    <2>1. UNCHANGED <<pairing, pc, sel, sid>>
      BY <1>2 DEF RetireRun, pairing, files, locals
    <2>. QED
      BY <2>1 DEF EvidenceInv, RowPaired, ResultPaired, RepairPaired, Remembers, pairing
  <1>3. CASE RetireRequests(p)
    <2>1. Leave(p, "wantPrune") /\ UNCHANGED <<bundle, result, repaired>>
      BY <1>3 DEF RetireRequests, files
    <2>2. \A q \in Runs : req[q] \in ReqRow
      BY DEF EvidenceInv, TypeInv, TypeOK
    <2>3. ASSUME NEW q \in Runs
          PROVE  /\ req'[q].snap = req[q].snap
                 /\ req'[q] = req[q] \/ req'[q].state = "RETIRED_OBSOLETE"
      BY <1>3, <2>2 DEF RetireRequests, ReqRow
    <2>4. \A q \in Runs : RowPaired(q)' /\ ResultPaired(q)' /\ RepairPaired(q)'
      BY <2>1, <2>3 DEF EvidenceInv, RowPaired, ResultPaired, RepairPaired
    <2>5. \A q \in Procs : Remembers(q)'
      BY <2>1, LeaveElsewhere, LeftMemory DEF EvidenceInv, Critical, Executing, Installing
    <2>. QED
      BY <2>4, <2>5 DEF EvidenceInv
  <1>. QED
    BY <1>1, <1>2, <1>3 DEF RetireStep

LEMMA ReviewStepEvidence ==
    ASSUME EvidenceInv, TypeInv', NEW p \in Operators, ReviewStep(p)
    PROVE  EvidenceInv'
  <1>. p \in Procs
    BY DEF Procs
  <1>1. CASE Review(p)
    <2>1. UNCHANGED pairing
      BY <1>1 DEF Review, pairing, tables, files
    <2>2. Elsewhere(p) /\ pc'[p] = "reviewed"
      BY <1>1 DEF Review, Goto, Elsewhere, EvidenceInv, TypeInv, TypeOK
    <2>. QED
      BY <2>1, <2>2, QuietStep DEF Critical, Executing, Installing
  <1>2. CASE Apply(p)
    <2>1. UNCHANGED pairing /\ UNCHANGED <<sel, sid>>
      BY <1>2 DEF Apply, pairing, tables, files, locals
    <2>2. Elsewhere(p) /\ pc'[p] = "retireLog"
      BY <1>2, <2>1 DEF Apply, Acquire, Goto, Elsewhere, EvidenceInv, TypeInv, TypeOK
    <2>. QED
      BY <2>1, <2>2, QuietStep DEF Critical, Executing, Installing
  <1>3. CASE ApplyRefused(p)
    BY <1>3, QuietFinish DEF ApplyRefused, pairing, tables, files
  <1>. QED
    BY <1>1, <1>2, <1>3 DEF ReviewStep

LEMMA BeginRepairsEvidence ==
    ASSUME EvidenceInv, TypeInv', NEW p \in Operators, BeginRepairs(p)
    PROVE  EvidenceInv'
  <1>. p \in Procs
    BY DEF Procs
  <1>1. ASSUME NEW r \in Runs, BeginRepair(p, r) PROVE EvidenceInv'
    <2>1. /\ bundle[r] = req[r].snap /\ bundle[r] # NoSnap /\ req[r].state = "NOT_EXECUTABLE"
          /\ repaired' = repaired \cup {r} /\ UNCHANGED <<req, bundle, result, sid>>
      BY <1>1, StoreAssumption DEF BeginRepair, Provable, files, EvidenceInv, TypeInv, TypeOK,
                                   Snaps, NoSnap
    <2>2. \A q \in Runs : RowPaired(q)' /\ ResultPaired(q)' /\ RepairPaired(q)'
      BY <2>1 DEF EvidenceInv, RowPaired, ResultPaired, RepairPaired
    <2>3. Elsewhere(p) /\ pc'[p] = "repair" /\ sel'[p] = {r}
      BY <1>1, <2>1 DEF BeginRepair, Acquire, Goto, Elsewhere, EvidenceInv, TypeInv, TypeOK
    <2>4. \A q \in Procs : Remembers(q)'
      BY <2>1, <2>3 DEF EvidenceInv, Remembers, Elsewhere, Executing, Installing
    <2>. QED
      BY <2>2, <2>4 DEF EvidenceInv
  <1>2. ASSUME NEW r \in Runs, ResumeRepair(p, r) PROVE EvidenceInv'
    <2>1. UNCHANGED pairing /\ UNCHANGED sid /\ r \in repaired
      BY <1>2 DEF ResumeRepair, pairing, tables, files
    <2>2. Elsewhere(p) /\ pc'[p] = "repair" /\ sel'[p] = {r}
      BY <1>2, <2>1 DEF ResumeRepair, Acquire, Goto, Elsewhere, EvidenceInv, TypeInv, TypeOK
    <2>3. Remembers(p)'
      BY <2>1, <2>2 DEF Remembers, pairing, Executing, Installing
    <2>. QED
      BY <2>1, <2>2, <2>3, MemoryStep
  <1>. QED
    BY <1>1, <1>2 DEF BeginRepairs

LEMMA RepairStepEvidence ==
    ASSUME EvidenceInv, TypeInv', NEW p \in Operators, RepairStep(p)
    PROVE  EvidenceInv'
  <1>. p \in Procs
    BY DEF Procs
  <1>1. ASSUME NEW r \in Runs, Reinstate(p, r) PROVE EvidenceInv'
    <2>1. UNCHANGED <<pairing, pc, sel, sid>>
      BY <1>1 DEF Reinstate, pairing, files, locals
    <2>. QED
      BY <2>1 DEF EvidenceInv, RowPaired, ResultPaired, RepairPaired, Remembers, pairing
  <1>2. ASSUME NEW r \in Runs, Reopen(p, r) PROVE EvidenceInv'
    <2>1. /\ pc[p] = "repair" /\ sel[p] = {r} /\ Upsert(r, "PENDING", req[r].snap)
          /\ Finish(p) /\ UNCHANGED <<bundle, result, repaired>>
      BY <1>2 DEF Reopen, Repairing, files
    <2>2. bundle[r] # NoSnap /\ req[r].snap = bundle[r]
      BY <2>1 DEF EvidenceInv, Remembers, RepairPaired
    <2>3. RowPaired(r)' /\ RepairPaired(r)'
      BY <2>1, <2>2, RowType DEF RowPaired, RepairPaired, EvidenceInv
    <2>4. \A q \in Procs : Remembers(q)'
      BY <2>1, LeaveElsewhere, LeftMemory DEF EvidenceInv, Finish, Critical, Executing, Installing
    <2>. QED
      BY <2>1, <2>3, <2>4, RowStep DEF EvidenceInv
  <1>3. ASSUME NEW r \in Runs, RepairNothing(p, r) PROVE EvidenceInv'
    BY <1>3, QuietFinish DEF RepairNothing, pairing, tables, files
  <1>. QED
    BY <1>1, <1>2, <1>3 DEF RepairStep

LEMMA ClosureEvidence ==
    ASSUME EvidenceInv, TypeInv', ClosureNext
    PROVE  EvidenceInv'
  BY HousekeepingEvidence, RetireStepEvidence, ReviewStepEvidence, BeginRepairsEvidence,
     RepairStepEvidence DEF ClosureNext

-----------------------------------------------------------------------------
(* The specification. *)

LEMMA InitEvidence ==
    ASSUME Init
    PROVE  EvidenceInv
  <1>1. \A r \in Runs : RowPaired(r) /\ ResultPaired(r) /\ RepairPaired(r)
    BY DEF Init, StoreInit, RowPaired, ResultPaired, RepairPaired
  <1>2. \A p \in Procs : Remembers(p)
    BY DEF Init, StoreInit, Remembers, Executing, Installing
  <1>. QED
    BY <1>1, <1>2, InitType DEF EvidenceInv

LEMMA NextEvidence ==
    ASSUME EvidenceInv, [Next]_vars
    PROVE  EvidenceInv'
  <1>1. TypeInv'
    BY NextType DEF EvidenceInv
  <1>2. CASE UNCHANGED vars
    BY <1>1, <1>2 DEF EvidenceInv, RowPaired, ResultPaired, RepairPaired, Remembers, vars
  <1>3. ASSUME NEW r \in Runs, Advance(r) PROVE EvidenceInv'
    <2>1. UNCHANGED <<pairing, pc, sel, sid>>
      BY <1>3 DEF Advance, pairing, tables, files, locals
    <2>. QED
      BY <1>1, <2>1 DEF EvidenceInv, RowPaired, ResultPaired, RepairPaired, Remembers, pairing
  <1>4. ASSUME NEW p \in Procs, Kill(p) PROVE EvidenceInv'
    BY <1>1, <1>4, QuietFinish DEF Kill, pairing, tables, files
  <1>. QED
    BY <1>1, <1>2, <1>3, <1>4, PrepareEvidence, RetentionEvidence, ExecutionEvidence,
       ClosureEvidence DEF Next

LEMMA EvidenceInvariant == Spec => []EvidenceInv
  BY InitEvidence, NextEvidence, PTL DEF Spec

\* Whatever is killed, retried or raced, a request that is offered or completed
\* names the snapshot of its own bundle, and its result was computed from it.
THEOREM EvidencePaired == Spec => []EvidenceChain
  <1>1. EvidenceInv => EvidenceChain
    BY DEF EvidenceInv, EvidenceChain, RowPaired, ResultPaired
  <1>. QED
    BY <1>1, EvidenceInvariant, PTL

-----------------------------------------------------------------------------
(* How runs end. *)

\* A run that carries a failure code has failed.
Coded == \A r \in Runs : run[r].code # "NONE" => run[r].status = "FAILED"

Audited(r) ==
    run[r] = RetiredRun \/ req[r].state = "RETIRED_OBSOLETE" =>
        retired[r] \in Open /\ when[r] = "expired"

\* What the process that retires the runs it selected has established so far.
Retires(p) ==
    /\ pc[p] = "retireLog" =>
         \A r \in sel[p] : req[r].state \in Open /\ when[r] = "expired"
    /\ pc[p] = "retireRuns" =>
         \A r \in sel[p] : retired[r] \in Open /\ when[r] = "expired"

RetiredState == \A r \in Runs : retired[r] \in Open \cup {"NONE"}

ClosureInv ==
    /\ TypeInv /\ Exclusive /\ Coded /\ RetiredState
    /\ \A r \in Runs : Audited(r)
    /\ \A p \in Procs : Retires(p)

-----------------------------------------------------------------------------
(* The writes to prediction_runs. *)

\* Every write a step of the pipeline makes to a run, except a retirement's.
RunWrite(r) ==
    \/ \E code \in {"NONE", "MISSED"} :
          \E status \in {"SCHEDULED", "FAILED"} :
              ClaimRun(r, status, code) /\ (code # "NONE" => status = "FAILED")
    \/ \E code \in Codes \ {"RETIRED"}, status \in Statuses :
          UpdateRun(r, status, code) /\ (status = "FAILED" <=> code # "NONE")
    \/ ReinstateRun(r)

RunsWritten ==
    \/ UNCHANGED run
    \/ \E r \in Runs : RunWrite(r)
    \/ \E p \in Retirees, r \in Runs : RetireRun(p, r)

LEMMA NextRuns ==
    ASSUME TypeInv, [Next]_vars
    PROVE  RunsWritten
  <1>1. ASSUME PrepareNext PROVE RunsWritten
    <2>1. ASSUME NEW r \in Runs, Claim(r) \/ GateRun(r) PROVE RunWrite(r)
      BY <2>1 DEF Claim, GateRun, RunWrite, Codes, Statuses, Terminal
    <2>2. ASSUME NEW p \in Manuals, NEW r \in Runs, ManualClaim(p, r) PROVE RunWrite(r)
      BY <2>2 DEF ManualClaim, RunWrite
    <2>3. ASSUME NEW skip \in ExclusionSets, BeginPass(skip) PROVE UNCHANGED run
      BY <2>3 DEF BeginPass, tables
    <2>4. ASSUME ClaimsDone \/ GateDone \/ \E r \in Runs : GateRequest(r) PROVE UNCHANGED run
      BY <2>4 DEF ClaimsDone, GateDone, GateRequest, tables
    <2>5. ASSUME NEW p \in Preparers, PrepareStep(p) PROVE UNCHANGED run
      BY <2>5 DEF PrepareStep, NothingToFinish, SelectClaims, RecordsDone, BeginBundles,
                  BundlesDone, RecordRequest, PublishBundle, MarkPending, BundleConflict, tables
    <2>6. ASSUME NEW p \in Preparers \cup Operators, SnapshotStep(p) PROVE UNCHANGED run
      BY <2>6 DEF SnapshotStep, CopyWarehouse, PublishSnapshot, Protect, tables
    <2>. QED
      BY <1>1, <2>1, <2>2, <2>3, <2>4, <2>5, <2>6 DEF PrepareNext, RuntimeStep, RunsWritten
  <1>2. ASSUME RetentionNext PROVE UNCHANGED run
    BY <1>2 DEF RetentionNext, PruneStep, OperatorPrune, PeriodicSnapshot, BeginPrune, PruneOne,
                PruneDone, ReadProtected, BeginStalePrune, tables
  <1>3. ASSUME ExecutionNext PROVE RunsWritten
    <2>1. ASSUME NEW p \in Workflows, NEW r \in Runs, RefuseRun(p, r) PROVE RunWrite(r)
      BY <2>1 DEF RefuseRun, RunWrite, Codes, Statuses, Terminal
    <2>2. ASSUME NEW p \in Workflows \cup Ingesters, NEW r \in Runs, StartRun(p, r)
          PROVE  RunWrite(r)
      BY <2>2 DEF StartRun, RunWrite, Codes, Statuses, Terminal
    <2>3. ASSUME NEW p \in Workflows \cup Ingesters, NEW r \in Runs, EndRun(p, r)
          PROVE  RunWrite(r)
      <3>1. /\ UpdateRun(r, result[r].status, IF result[r].status = "FAILED" THEN "EXECUTION"
                                               ELSE "NONE")
            /\ result[r].status \in Terminal
            /\ "NONE" \in Codes \ {"RETIRED"} /\ "EXECUTION" \in Codes \ {"RETIRED"}
        BY <2>3, TransitionType DEF EndRun, UpdateRun, AllowedTransitions, Statuses, Terminal, Codes
      <3>2. result[r].status \in Statuses
        BY <3>1 DEF Statuses
      <3>3. CASE result[r].status = "FAILED"
        BY <3>1, <3>2, <3>3 DEF RunWrite
      <3>4. CASE result[r].status # "FAILED"
        BY <3>1, <3>2, <3>4 DEF RunWrite
      <3>. QED
        BY <3>3, <3>4
    <2>4. ASSUME NEW p \in Workflows, NEW r \in Runs,
                 WfSelect(p, r) \/ WfDownload(p, r) \/ WfDownloadFails(p, r) \/ WfVerify(p, r)
                 \/ WfStage(p, r) \/ (\E status \in Outcomes : WfPublish(p, r, status))
                 \/ RefuseRequest(p, r) \/ RefuseNothing(p, r) \/ WfIngestRefused(p, r)
                 \/ BeginRefuse(p)
          PROVE  UNCHANGED run
      BY <2>4 DEF WfSelect, WfDownload, WfDownloadFails, WfVerify, WfStage, WfPublish,
                  RefuseRequest, RefuseNothing, WfIngestRefused, BeginRefuse, tables
    <2>5. ASSUME NEW p \in Workflows \cup Ingesters, NEW r \in Runs,
                 IngestCheck(p, r) \/ InstallArtifacts(p, r) \/ RunEnded(p, r)
                 \/ RunDisagrees(p, r) \/ Complete(p, r) \/ RecordResult(p, r)
          PROVE  UNCHANGED run
      BY <2>5 DEF IngestCheck, InstallArtifacts, RunEnded, RunDisagrees, Complete, RecordResult,
                  tables
    <2>6. ASSUME NEW p \in Workflows, BeginRefuse(p) PROVE UNCHANGED run
      BY <2>6 DEF BeginRefuse, tables
    <2>. QED
      BY <1>3, <2>1, <2>2, <2>3, <2>4, <2>5, <2>6
         DEF ExecutionNext, WorkflowStep, IngestStep, RunsWritten
  <1>4. ASSUME ClosureNext PROVE RunsWritten
    <2>1. ASSUME NEW p \in Operators, NEW r \in Runs, Reinstate(p, r) PROVE RunWrite(r)
      BY <2>1 DEF Reinstate, RunWrite
    <2>2. ASSUME NEW swept \in SUBSET Runs, Housekeeping(swept) PROVE UNCHANGED run
      BY <2>2 DEF Housekeeping, tables
    <2>3. ASSUME NEW p \in Retirees, RetireLog(p) \/ RetireRequests(p) PROVE UNCHANGED run
      BY <2>3 DEF RetireLog, RetireRequests
    <2>4. ASSUME NEW p \in Operators, ReviewStep(p) PROVE UNCHANGED run
      BY <2>4 DEF ReviewStep, Review, Apply, ApplyRefused, tables
    <2>5. ASSUME NEW p \in Operators, BeginRepairs(p) PROVE UNCHANGED run
      BY <2>5 DEF BeginRepairs, BeginRepair, ResumeRepair, tables
    <2>6. ASSUME NEW p \in Operators, NEW r \in Runs, Reopen(p, r) \/ RepairNothing(p, r)
          PROVE  UNCHANGED run
      BY <2>6 DEF Reopen, RepairNothing, tables
    <2>. QED
      BY <1>4, <2>1, <2>2, <2>3, <2>4, <2>5, <2>6
         DEF ClosureNext, RetireStep, RepairStep, RunsWritten
  <1>5. ASSUME (\E r \in Runs : Advance(r)) \/ (\E p \in Procs : Kill(p)) \/ UNCHANGED vars
        PROVE  UNCHANGED run
    BY <1>5 DEF Advance, Kill, tables, vars
  <1>. QED
    BY <1>1, <1>2, <1>3, <1>4, <1>5 DEF Next, RunsWritten

\* A failed run moves on in one way only: by the repair of its false refusal.
LEMMA FailedIsFinal ==
    ASSUME TypeInv, RunsWritten, NEW r \in Runs, run[r].status = "FAILED"
    PROVE  run'[r] = run[r] \/ run[r].code = "FALSE_REFUSAL"
  <1>. r \in DOMAIN run
    BY DEF TypeInv, TypeOK
  <1>1. ASSUME NEW q \in Runs, RunWrite(q) PROVE run'[r] = run[r] \/ run[r].code = "FALSE_REFUSAL"
    <2>1. CASE q # r
      BY <1>1, <2>1 DEF RunWrite, ClaimRun, UpdateRun, ReinstateRun
    <2>2. ASSUME NEW status, NEW code PROVE ~UpdateRun(r, status, code) /\ ~ClaimRun(r, status, code)
      BY DEF UpdateRun, ClaimRun, AllowedTransitions, Statuses, Terminal
    <2>3. ASSUME ReinstateRun(r) PROVE run[r].code = "FALSE_REFUSAL"
      BY <2>3 DEF ReinstateRun
    <2>. QED
      BY <1>1, <2>1, <2>2, <2>3 DEF RunWrite
  <1>2. ASSUME NEW p \in Retirees, NEW q \in Runs, RetireRun(p, q) PROVE run'[r] = run[r]
    BY <1>2 DEF RetireRun, UpdateRun, AllowedTransitions, Statuses, Terminal, TypeInv, TypeOK
  <1>. QED
    BY <1>1, <1>2 DEF RunsWritten

LEMMA CodedStep ==
    ASSUME TypeInv, Coded, RunsWritten
    PROVE  Coded'
  <1>. \A r \in Runs : run[r] \in RunRow
    BY DEF TypeInv, TypeOK
  <1>1. ASSUME NEW q \in Runs, RunWrite(q) PROVE Coded'
    <2>1. CASE ReinstateRun(q)
      BY <2>1 DEF ReinstateRun, Coded, TypeInv, TypeOK
    <2>2. ASSUME NEW code \in {"NONE", "MISSED"}, NEW status, ClaimRun(q, status, code),
                 code # "NONE" => status = "FAILED"
          PROVE  Coded'
      BY <2>2 DEF ClaimRun, Coded, TypeInv, TypeOK
    <2>3. ASSUME NEW code, NEW status \in Statuses, UpdateRun(q, status, code),
                 status = "FAILED" <=> code # "NONE"
          PROVE  Coded'
      <3>1. run[q].status # "FAILED" /\ run[q].code = "NONE"
        BY <2>3 DEF UpdateRun, AllowedTransitions, Coded, Statuses, Terminal, RunRow
      <3>. QED
        BY <2>3, <3>1 DEF UpdateRun, Coded, TypeInv, TypeOK
    <2>. QED
      BY <1>1, <2>1, <2>2, <2>3 DEF RunWrite
  <1>2. ASSUME NEW p \in Retirees, NEW q \in Runs, RetireRun(p, q) PROVE Coded'
    BY <1>2 DEF RetireRun, UpdateRun, Coded, TypeInv, TypeOK
  <1>. QED
    BY <1>1, <1>2 DEF RunsWritten, Coded

LEMMA CodedInvariant == Spec => []Coded
  <1>1. Init => Coded
    BY DEF Init, StoreInit, Coded
  <1>2. TypeInv /\ Coded /\ [Next]_vars => Coded'
    BY NextRuns, CodedStep
  <1>. QED
    BY <1>1, <1>2, TypeInvariant, PTL DEF Spec

\* No step undoes a refusal by the evidence gate or by the executor.
THEOREM GenuineRefusalIsFinal == Spec => RefusalIsFinal
  <1>. DEFINE Final == \A r \in Runs : run[r].code \in {"REFUSED", "INSUFFICIENT"}
                                         => run'[r] = run[r]
  <1>1. TypeInv /\ Coded /\ [Next]_vars => Final
    BY NextRuns, FailedIsFinal DEF Coded
  <1>2. TypeInv /\ Coded /\ [Next]_vars => [Final]_vars
    BY <1>1
  <1>. QED
    BY <1>2, TypeInvariant, CodedInvariant, PTL DEF Spec, RefusalIsFinal

-----------------------------------------------------------------------------
(* The audit of a retirement. *)

\* Every write a step makes to the requests, with the label that lets it.
RequestWrite(p, r) ==
    /\ pc[p] \in Holding \ {"retireLog", "retireRuns"}
    /\ \E state \in States \ {"RETIRED_OBSOLETE"}, snap \in Snaps \cup {NoSnap} :
          Upsert(r, state, snap)

RequestsWritten ==
    \/ UNCHANGED req
    \/ \E p \in Procs, r \in Runs : RequestWrite(p, r)
    \/ \E p \in Retirees : RetireRequests(p)

LEMMA NextRequests ==
    ASSUME TypeInv, [Next]_vars
    PROVE  RequestsWritten
  <1>. /\ \A r \in Runs : req[r].snap \in Snaps \cup {NoSnap}
       /\ \A p \in Procs : sid[p] \in Snaps \cup {NoSnap}
       /\ NoSnap \in Snaps \cup {NoSnap}
    BY DEF TypeInv, TypeOK, ReqRow
  <1>1. ASSUME PrepareNext PROVE RequestsWritten
    <2>1. ASSUME NEW p \in Preparers, NEW r \in Runs, RecordRequest(p, r) \/ MarkPending(p, r)
          PROVE  RequestWrite(p, r)
      BY <2>1, Processes DEF RecordRequest, MarkPending, Bundling, RequestWrite, Holding, States
    <2>2. ASSUME NEW p \in Preparers \cup Operators, NEW r \in Runs, Protect(p, r)
          PROVE  RequestWrite(p, r)
      BY <2>2, Processes DEF Protect, RequestWrite, Holding, States
    <2>3. ASSUME NEW r \in Runs, GateRequest(r) PROVE RequestWrite(Runtime, r)
      BY <2>3 DEF GateRequest, RequestWrite, Holding, States
    <2>4. ASSUME NEW skip \in ExclusionSets, BeginPass(skip) PROVE UNCHANGED req
      BY <2>4 DEF BeginPass, tables
    <2>5. ASSUME ClaimsDone \/ GateDone \/ (\E r \in Runs : Claim(r) \/ GateRun(r))
          PROVE  UNCHANGED req
      BY <2>5 DEF ClaimsDone, GateDone, Claim, GateRun, tables
    <2>6. ASSUME NEW p \in Manuals, NEW r \in Runs, ManualClaim(p, r) PROVE UNCHANGED req
      BY <2>6 DEF ManualClaim
    <2>7. ASSUME NEW p \in Preparers, NothingToFinish(p) \/ SelectClaims(p) \/ RecordsDone(p)
                 \/ BeginBundles(p) \/ BundlesDone(p)
                 \/ (\E r \in Runs : PublishBundle(p, r) \/ BundleConflict(p, r))
          PROVE  UNCHANGED req
      BY <2>7 DEF NothingToFinish, SelectClaims, RecordsDone, BeginBundles, BundlesDone,
                  PublishBundle, BundleConflict, tables
    <2>8. ASSUME NEW p \in Preparers \cup Operators, CopyWarehouse(p) \/ PublishSnapshot(p)
          PROVE  UNCHANGED req
      BY <2>8 DEF CopyWarehouse, PublishSnapshot, tables
    <2>. QED
      BY <1>1, <2>1, <2>2, <2>3, <2>4, <2>5, <2>6, <2>7, <2>8, Processes
         DEF PrepareNext, RuntimeStep, PrepareStep, SnapshotStep, RequestsWritten
  <1>2. ASSUME RetentionNext PROVE UNCHANGED req
    BY <1>2 DEF RetentionNext, PruneStep, OperatorPrune, PeriodicSnapshot, BeginPrune, PruneOne,
                PruneDone, ReadProtected, BeginStalePrune, tables
  <1>3. ASSUME ExecutionNext PROVE RequestsWritten
    <2>1. ASSUME NEW p \in Workflows, NEW r \in Runs, RefuseRequest(p, r) PROVE RequestWrite(p, r)
      BY <2>1, Processes DEF RefuseRequest, Working, RequestWrite, Holding, States
    <2>2. ASSUME NEW p \in Workflows \cup Ingesters, NEW r \in Runs, Complete(p, r)
          PROVE  RequestWrite(p, r)
      BY <2>2, Processes DEF Complete, Working, RequestWrite, Holding, States
    <2>3. ASSUME NEW p \in Workflows, NEW r \in Runs,
                 WfSelect(p, r) \/ WfDownload(p, r) \/ WfDownloadFails(p, r) \/ WfVerify(p, r)
                 \/ WfStage(p, r) \/ (\E status \in Outcomes : WfPublish(p, r, status))
                 \/ RefuseRun(p, r) \/ RefuseNothing(p, r) \/ WfIngestRefused(p, r)
          PROVE  UNCHANGED req
      BY <2>3 DEF WfSelect, WfDownload, WfDownloadFails, WfVerify, WfStage, WfPublish, RefuseRun,
                  RefuseNothing, WfIngestRefused, tables
    <2>4. ASSUME NEW p \in Workflows \cup Ingesters, NEW r \in Runs,
                 IngestCheck(p, r) \/ InstallArtifacts(p, r) \/ StartRun(p, r) \/ EndRun(p, r)
                 \/ RunEnded(p, r) \/ RunDisagrees(p, r) \/ RecordResult(p, r)
          PROVE  UNCHANGED req
      BY <2>4 DEF IngestCheck, InstallArtifacts, StartRun, EndRun, RunEnded, RunDisagrees,
                  RecordResult, tables
    <2>5. ASSUME NEW p \in Workflows, BeginRefuse(p) PROVE UNCHANGED req
      BY <2>5 DEF BeginRefuse, tables
    <2>. QED
      BY <1>3, <2>1, <2>2, <2>3, <2>4, <2>5, Processes
         DEF ExecutionNext, WorkflowStep, IngestStep, RequestsWritten
  <1>4. ASSUME ClosureNext PROVE RequestsWritten
    <2>1. ASSUME NEW p \in Operators, NEW r \in Runs, Reopen(p, r) PROVE RequestWrite(p, r)
      BY <2>1, Processes DEF Reopen, Repairing, RequestWrite, Holding, States
    <2>2. ASSUME NEW swept \in SUBSET Runs, Housekeeping(swept) PROVE UNCHANGED req
      BY <2>2 DEF Housekeeping, tables
    <2>3. ASSUME NEW p \in Retirees, RetireLog(p) \/ (\E r \in Runs : RetireRun(p, r))
          PROVE  UNCHANGED req
      BY <2>3 DEF RetireLog, RetireRun
    <2>4. ASSUME NEW p \in Operators, ReviewStep(p) \/ BeginRepairs(p) PROVE UNCHANGED req
      BY <2>4 DEF ReviewStep, Review, Apply, ApplyRefused, BeginRepairs, BeginRepair,
                  ResumeRepair, tables
    <2>5. ASSUME NEW p \in Operators, NEW r \in Runs, Reinstate(p, r) \/ RepairNothing(p, r)
          PROVE  UNCHANGED req
      BY <2>5 DEF Reinstate, RepairNothing, tables
    <2>. QED
      BY <1>4, <2>1, <2>2, <2>3, <2>4, <2>5, Processes
         DEF ClosureNext, RetireStep, RepairStep, RequestsWritten
  <1>5. ASSUME (\E r \in Runs : Advance(r)) \/ (\E p \in Procs : Kill(p)) \/ UNCHANGED vars
        PROVE  UNCHANGED req
    BY <1>5 DEF Advance, Kill, tables, vars
  <1>. QED
    BY <1>1, <1>2, <1>3, <1>4, <1>5 DEF Next, RequestsWritten

\* The labels at which a process need not know anything of the runs it selected.
Resting == {"idle", "claim", "record", "gate", "select", "wantSnap", "protect", "wantBundle",
            "bundle", "wantPrune", "prune", "cliRead", "cliPrune", "reviewed", "repair"}

\* What a step does to the control state and to the runs a process selected.
MovesTo(p, label) == Moves(p, label) /\ \A q \in Procs \ {p} : sel'[q] = sel[q]
MovesOn == \E p \in Procs, label \in Resting : MovesTo(p, label)

\* The steps after which a workflow or an ingest knows more of its run.
WorkflowMove(p, r) ==
    \/ WfSelect(p, r) \/ WfDownload(p, r) \/ WfVerify(p, r) \/ WfStage(p, r)
    \/ \E status \in Outcomes : WfPublish(p, r, status)
IngestMove(p, r) ==
    \/ IngestCheck(p, r) \/ InstallArtifacts(p, r) \/ EndRun(p, r) \/ RunEnded(p, r)
    \/ Complete(p, r)

\* A retirement begins from a plan made under the lock, or reviewed and made again.
BeginsRetiring(p) ==
    /\ MovesTo(p, "retireLog") /\ UNCHANGED <<req, when, run, retired>>
    /\ \A r \in sel'[p] : req[r].state \in Open /\ when[r] = "expired"

Moved ==
    \/ UNCHANGED <<pc, sel>>
    \/ MovesOn
    \/ \E p \in Workflows : BeginRefuse(p) \/ \E r \in Runs : WorkflowMove(p, r)
    \/ \E p \in Workflows \cup Ingesters, r \in Runs : IngestMove(p, r)
    \/ \E p \in Retirees : BeginsRetiring(p) \/ RetireLog(p)

LEMMA LeaveMoves ==
    ASSUME TypeInv, NEW p \in Procs, NEW label \in Resting,
           Leave(p, label)
    PROVE  MovesOn
  BY DEF TypeInv, TypeOK, Leave, Goto, MovesOn, MovesTo, Moves

LEMMA FinishMoves ==
    ASSUME TypeInv, NEW p \in Procs, Finish(p)
    PROVE  MovesOn
  BY LeaveMoves DEF Finish, Resting

\* A step that goes to a label and leaves the other processes' selection alone.
LEMMA GotoMoves ==
    ASSUME NEW p \in Procs, NEW label \in Resting, Goto(p, label),
           \A q \in Procs \ {p} : sel'[q] = sel[q]
    PROVE  MovesOn
  BY DEF Goto, MovesOn, MovesTo, Moves

LEMMA PrepareMoves ==
    ASSUME TypeInv, PrepareNext
    PROVE  UNCHANGED <<pc, sel>> \/ MovesOn
  <1>1. ASSUME NEW skip \in ExclusionSets, BeginPass(skip) PROVE MovesOn
    BY <1>1, GotoMoves, Processes DEF BeginPass, Acquire, Resting
  <1>2. ASSUME ClaimsDone \/ GateDone PROVE MovesOn
    <2>1. UNCHANGED sel /\ \E label \in {"record", "select"} : Goto(Runtime, label)
      BY <1>2 DEF ClaimsDone, GateDone, locals
    <2>. QED
      BY <2>1, GotoMoves, Processes DEF Resting
  <1>3. ASSUME NEW r \in Runs, Claim(r) \/ GateRun(r) \/ GateRequest(r)
        PROVE  UNCHANGED <<pc, sel>>
    BY <1>3 DEF Claim, GateRun, GateRequest, locals
  <1>4. ASSUME NEW p \in Manuals, NEW r \in Runs, ManualClaim(p, r) PROVE MovesOn
    BY <1>4, GotoMoves, Processes DEF ManualClaim, Acquire, Resting, locals
  <1>5. ASSUME NEW p \in Preparers, PrepareStep(p) PROVE UNCHANGED <<pc, sel>> \/ MovesOn
    <2>1. ASSUME NothingToFinish(p) \/ BundlesDone(p) PROVE MovesOn
      <3>1. \E label \in {"wantPrune", "idle"} : Leave(p, label)
        BY <2>1 DEF NothingToFinish, BundlesDone, EndPass
      <3>. QED
        BY <3>1, LeaveMoves, Processes DEF Resting
    <2>2. ASSUME SelectClaims(p) PROVE MovesOn
      <3>1. \E label \in {"wantBundle", "wantSnap"} : Goto(p, label)
        BY <2>2 DEF SelectClaims, DrawSnapshot
      <3>2. \A q \in Procs \ {p} : sel'[q] = sel[q]
        BY <2>2 DEF SelectClaims, TypeInv, TypeOK
      <3>. QED
        BY <3>1, <3>2, GotoMoves, Processes DEF Resting
    <2>3. ASSUME RecordsDone(p) \/ BeginBundles(p) PROVE MovesOn
      <3>1. UNCHANGED sel /\ \E label \in {"gate", "select", "bundle"} : Goto(p, label)
        BY <2>3 DEF RecordsDone, BeginBundles, Acquire, locals
      <3>. QED
        BY <3>1, GotoMoves, Processes DEF Resting
    <2>4. ASSUME NEW r \in Runs, RecordRequest(p, r) \/ PublishBundle(p, r) \/ MarkPending(p, r)
          PROVE  UNCHANGED <<pc, sel>>
      BY <2>4 DEF RecordRequest, PublishBundle, MarkPending, locals
    <2>5. ASSUME NEW r \in Runs, BundleConflict(p, r) PROVE MovesOn
      BY <2>5, FinishMoves, Processes DEF BundleConflict
    <2>. QED
      BY <1>5, <2>1, <2>2, <2>3, <2>4, <2>5 DEF PrepareStep
  <1>6. ASSUME NEW p \in Preparers \cup Operators, SnapshotStep(p)
        PROVE  UNCHANGED <<pc, sel>> \/ MovesOn
    <2>1. ASSUME CopyWarehouse(p) PROVE MovesOn
      BY <2>1, GotoMoves, Processes DEF CopyWarehouse, Acquire, Resting
    <2>2. ASSUME PublishSnapshot(p) PROVE MovesOn
      <3>1. UNCHANGED sel /\ \E label \in {"cliRead", "wantPrune", "wantBundle"} : Goto(p, label)
        BY <2>2 DEF PublishSnapshot, locals
      <3>. QED
        BY <3>1, GotoMoves, Processes DEF Resting
    <2>3. ASSUME NEW r \in Runs, Protect(p, r) PROVE UNCHANGED <<pc, sel>>
      BY <2>3 DEF Protect, locals
    <2>. QED
      BY <1>6, <2>1, <2>2, <2>3 DEF SnapshotStep
  <1>. QED
    BY <1>1, <1>2, <1>3, <1>4, <1>5, <1>6 DEF PrepareNext, RuntimeStep

LEMMA RetentionMoves ==
    ASSUME TypeInv, RetentionNext
    PROVE  UNCHANGED <<pc, sel>> \/ MovesOn
  <1>1. ASSUME NEW p \in Pruners, PeriodicSnapshot(p) \/ BeginPrune(p) PROVE MovesOn
    <2>1. UNCHANGED sel /\ \E label \in {"wantSnap", "prune"} : Goto(p, label)
      BY <1>1 DEF PeriodicSnapshot, DrawSnapshot, BeginPrune, Acquire
    <2>. QED
      BY <2>1, GotoMoves, Processes DEF Resting
  <1>2. ASSUME NEW p \in Pruners, PruneOne(p) PROVE UNCHANGED <<pc, sel>>
    BY <1>2 DEF PruneOne, locals
  <1>3. ASSUME NEW p \in Pruners, PruneDone(p) PROVE MovesOn
    BY <1>3, FinishMoves, Processes DEF PruneDone
  <1>4. ASSUME NEW p \in Operators, ReadProtected(p) \/ BeginStalePrune(p) PROVE MovesOn
    <2>1. UNCHANGED sel /\ \E label \in {"cliPrune", "prune"} : Goto(p, label)
      BY <1>4 DEF ReadProtected, BeginStalePrune, Acquire, locals
    <2>. QED
      BY <2>1, GotoMoves, Processes DEF Resting
  <1>. QED
    BY <1>1, <1>2, <1>3, <1>4 DEF RetentionNext, PruneStep, OperatorPrune

LEMMA ExecutionGoes ==
    ASSUME TypeInv, NEW p \in Procs,
           BeginRefuse(p) \/ \E r \in Runs : WorkflowMove(p, r) \/ IngestMove(p, r)
    PROVE  \E label \in Labels \ {"retireLog", "retireRuns"} : MovesTo(p, label)
  <1>. DEFINE Going == \E label \in {"wfDownload", "wfVerify", "wfStage", "wfPublish", "refuse",
                                    "refuseHold", "wfIngest", "wantIngest", "runStatus",
                                    "complete", "resultRow"} : Goto(p, label)
  <1>1. ASSUME NEW r \in Runs, WorkflowMove(p, r)
        PROVE  Going /\ \A q \in Procs \ {p} : sel'[q] = sel[q]
    BY <1>1 DEF WorkflowMove, WfSelect, WfDownload, WfVerify, WfStage, WfPublish, locals,
                TypeInv, TypeOK
  <1>2. ASSUME NEW r \in Runs, IngestMove(p, r)
        PROVE  Going /\ \A q \in Procs \ {p} : sel'[q] = sel[q]
    BY <1>2 DEF IngestMove, IngestCheck, InstallArtifacts, EndRun, RunEnded, Complete, Acquire,
                locals, TypeInv, TypeOK
  <1>3. ASSUME BeginRefuse(p) PROVE Going /\ \A q \in Procs \ {p} : sel'[q] = sel[q]
    BY <1>3 DEF BeginRefuse, Acquire, locals
  <1>. QED
    BY <1>1, <1>2, <1>3 DEF MovesTo, Moves, Goto, Labels

LEMMA ExecutionMoves ==
    ASSUME TypeInv, ExecutionNext
    PROVE  Moved
  <1>1. ASSUME NEW p \in Workflows, NEW r \in Runs, WfSelect(p, r) \/ WorkflowStep(p, r)
        PROVE  Moved
    <2>1. ASSUME WfDownloadFails(p, r) \/ RefuseRequest(p, r) \/ RefuseNothing(p, r)
                 \/ WfIngestRefused(p, r)
          PROVE  MovesOn
      BY <2>1, FinishMoves, Processes DEF WfDownloadFails, RefuseRequest, RefuseNothing,
                                          WfIngestRefused
    <2>2. ASSUME RefuseRun(p, r) PROVE UNCHANGED <<pc, sel>>
      BY <2>2 DEF RefuseRun, locals
    <2>. QED
      BY <1>1, <2>1, <2>2 DEF WorkflowStep, WorkflowMove, Moved
  <1>2. ASSUME NEW p \in Workflows, BeginRefuse(p) PROVE Moved
    BY <1>2 DEF Moved
  <1>3. ASSUME NEW p \in Workflows \cup Ingesters, NEW r \in Runs,
               IngestCheck(p, r) \/ IngestStep(p, r)
        PROVE  Moved
    <2>1. ASSUME StartRun(p, r) PROVE UNCHANGED <<pc, sel>>
      BY <2>1 DEF StartRun, locals
    <2>2. ASSUME RunDisagrees(p, r) \/ RecordResult(p, r) PROVE MovesOn
      BY <2>2, FinishMoves, Processes DEF RunDisagrees, RecordResult
    <2>. QED
      BY <1>3, <2>1, <2>2 DEF IngestStep, IngestMove, Moved
  <1>. QED
    BY <1>1, <1>2, <1>3 DEF ExecutionNext

LEMMA CandidateFacts ==
    ASSUME NEW p, NEW uploads
    PROVE  \A r \in Candidates(p, uploads) : req[r].state \in Open /\ when[r] = "expired"
  BY DEF Candidates

LEMMA ClosureMoves ==
    ASSUME TypeInv, ClosureNext
    PROVE  Moved
  <1>. Runtime \in Retirees /\ Operators \subseteq Retirees
    BY DEF Retirees
  <1>1. ASSUME NEW swept \in SUBSET Runs, Housekeeping(swept) PROVE Moved
    <2>. DEFINE plan == Candidates(Runtime, upload')
    <2>1. CASE Leave(Runtime, "wantPrune")
      BY <2>1, LeaveMoves, Processes DEF Moved, Resting
    <2>2. CASE Goto(Runtime, "retireLog") /\ sel' = [sel EXCEPT ![Runtime] = plan]
      <3>1. UNCHANGED <<req, when, run, retired>>
        BY <1>1 DEF Housekeeping, clockVars, tables
      <3>2. sel'[Runtime] = plan /\ \A q \in Procs \ {Runtime} : sel'[q] = sel[q]
        BY <2>2, Processes DEF TypeInv, TypeOK
      <3>3. \A r \in plan : req[r].state \in Open /\ when[r] = "expired"
        BY CandidateFacts
      <3>4. BeginsRetiring(Runtime)
        BY <2>2, <3>1, <3>2, <3>3 DEF BeginsRetiring, MovesTo, Moves, Goto
      <3>. QED
        BY <3>4 DEF Moved
    <2>. QED
      BY <1>1, <2>1, <2>2 DEF Housekeeping
  <1>2. ASSUME NEW p \in Operators, Apply(p) PROVE Moved
    <2>1. UNCHANGED <<req, when, run, retired, sel>> /\ Goto(p, "retireLog")
          /\ sel[p] = Candidates(p, upload)
      BY <1>2 DEF Apply, Acquire, clockVars, tables, locals
    <2>2. BeginsRetiring(p)
      BY <2>1, CandidateFacts DEF BeginsRetiring, MovesTo, Moves, Goto
    <2>. QED
      BY <2>2 DEF Moved
  <1>3. ASSUME NEW p \in Operators, Review(p) PROVE MovesOn
    <2>1. Goto(p, "reviewed") /\ \A q \in Procs \ {p} : sel'[q] = sel[q]
      BY <1>3 DEF Review, TypeInv, TypeOK
    <2>. QED
      BY <2>1, GotoMoves, Processes DEF Resting
  <1>4. ASSUME NEW p \in Operators, ApplyRefused(p) PROVE MovesOn
    BY <1>4, FinishMoves, Processes DEF ApplyRefused
  <1>5. ASSUME NEW p \in Retirees, RetireStep(p) PROVE Moved
    <2>1. ASSUME RetireRequests(p) PROVE MovesOn
      BY <2>1, LeaveMoves, Processes DEF RetireRequests, Resting
    <2>2. ASSUME NEW r \in Runs, RetireRun(p, r) PROVE UNCHANGED <<pc, sel>>
      BY <2>2 DEF RetireRun, locals
    <2>. QED
      BY <1>5, <2>1, <2>2 DEF RetireStep, Moved
  <1>6. ASSUME NEW p \in Operators, NEW r \in Runs, BeginRepair(p, r) \/ ResumeRepair(p, r)
        PROVE  MovesOn
    <2>1. Goto(p, "repair") /\ \A q \in Procs \ {p} : sel'[q] = sel[q]
      BY <1>6 DEF BeginRepair, ResumeRepair, Acquire, TypeInv, TypeOK
    <2>. QED
      BY <2>1, GotoMoves, Processes DEF Resting
  <1>7. ASSUME NEW p \in Operators, NEW r \in Runs, Reinstate(p, r) PROVE UNCHANGED <<pc, sel>>
    BY <1>7 DEF Reinstate, locals
  <1>8. ASSUME NEW p \in Operators, NEW r \in Runs, Reopen(p, r) \/ RepairNothing(p, r)
        PROVE  MovesOn
    BY <1>8, FinishMoves, Processes DEF Reopen, RepairNothing
  <1>. QED
    BY <1>1, <1>2, <1>3, <1>4, <1>5, <1>6, <1>7, <1>8
       DEF ClosureNext, ReviewStep, BeginRepairs, RepairStep, Moved

LEMMA NextMoves ==
    ASSUME TypeInv, [Next]_vars
    PROVE  Moved
  <1>1. ASSUME (\E r \in Runs : Advance(r)) \/ UNCHANGED vars PROVE UNCHANGED <<pc, sel>>
    BY <1>1 DEF Advance, locals, vars
  <1>2. ASSUME NEW p \in Procs, Kill(p) PROVE MovesOn
    BY <1>2, FinishMoves DEF Kill
  <1>. QED
    BY <1>1, <1>2, PrepareMoves, RetentionMoves, ExecutionMoves, ClosureMoves DEF Next, Moved

\* The audit records and the clock only grow.
LEMMA NextRecords ==
    ASSUME TypeInv, [Next]_vars
    PROVE  /\ UNCHANGED retired \/ \E p \in Retirees : RetireLog(p)
           /\ \A r \in Runs : when[r] = "expired" => when'[r] = "expired"
  <1>1. ASSUME PrepareNext PROVE UNCHANGED <<retired, when>>
    <2>1. ASSUME NEW p \in Preparers, PrepareStep(p) PROVE UNCHANGED <<retired, when>>
      BY <2>1 DEF PrepareStep, NothingToFinish, SelectClaims, RecordsDone, BeginBundles,
                  BundlesDone, RecordRequest, PublishBundle, MarkPending, BundleConflict,
                  tables, clockVars
    <2>2. ASSUME NEW p \in Preparers \cup Operators, SnapshotStep(p)
          PROVE  UNCHANGED <<retired, when>>
      BY <2>2 DEF SnapshotStep, CopyWarehouse, PublishSnapshot, Protect, tables, clockVars
    <2>3. ASSUME RuntimeStep PROVE UNCHANGED <<retired, when>>
      BY <2>3 DEF RuntimeStep, ClaimsDone, GateDone, Claim, GateRun, GateRequest, tables,
                  clockVars
    <2>4. ASSUME (\E skip \in ExclusionSets : BeginPass(skip))
                 \/ (\E p \in Manuals, r \in Runs : ManualClaim(p, r))
          PROVE  UNCHANGED <<retired, when>>
      BY <2>4 DEF BeginPass, ManualClaim, tables, clockVars
    <2>. QED
      BY <1>1, <2>1, <2>2, <2>3, <2>4 DEF PrepareNext
  <1>2. ASSUME RetentionNext PROVE UNCHANGED <<retired, when>>
    BY <1>2 DEF RetentionNext, PruneStep, OperatorPrune, PeriodicSnapshot, BeginPrune, PruneOne,
                PruneDone, ReadProtected, BeginStalePrune, tables, clockVars
  <1>3. ASSUME ExecutionNext PROVE UNCHANGED <<retired, when>>
    <2>1. ASSUME NEW p \in Workflows, NEW r \in Runs,
                 WfSelect(p, r) \/ WorkflowStep(p, r) \/ BeginRefuse(p)
          PROVE  UNCHANGED <<retired, when>>
      BY <2>1 DEF WfSelect, WorkflowStep, WfDownload, WfDownloadFails, WfVerify, WfStage,
                  WfPublish, RefuseRun, RefuseRequest, RefuseNothing, WfIngestRefused,
                  BeginRefuse, tables, clockVars
    <2>2. ASSUME NEW p \in Workflows \cup Ingesters, NEW r \in Runs,
                 IngestCheck(p, r) \/ IngestStep(p, r)
          PROVE  UNCHANGED <<retired, when>>
      BY <2>2 DEF IngestCheck, IngestStep, InstallArtifacts, StartRun, EndRun, RunEnded,
                  RunDisagrees, Complete, RecordResult, tables, clockVars
    <2>3. ASSUME NEW p \in Workflows, BeginRefuse(p) PROVE UNCHANGED <<retired, when>>
      BY <2>3 DEF BeginRefuse, tables, clockVars
    <2>. QED
      BY <1>3, <2>1, <2>2, <2>3 DEF ExecutionNext
  <1>4. ASSUME ClosureNext
        PROVE  UNCHANGED when /\ (UNCHANGED retired \/ \E p \in Retirees : RetireLog(p))
    <2>1. ASSUME NEW swept \in SUBSET Runs, Housekeeping(swept) PROVE UNCHANGED <<retired, when>>
      BY <2>1 DEF Housekeeping, tables, clockVars
    <2>2. ASSUME NEW p \in Retirees, RetireStep(p)
          PROVE  UNCHANGED when /\ (UNCHANGED retired \/ RetireLog(p))
      BY <2>2 DEF RetireStep, RetireLog, RetireRequests, RetireRun, clockVars
    <2>3. ASSUME NEW p \in Operators, ReviewStep(p) \/ BeginRepairs(p) \/ RepairStep(p)
          PROVE  UNCHANGED <<retired, when>>
      BY <2>3 DEF ReviewStep, Review, Apply, ApplyRefused, BeginRepairs, BeginRepair,
                  ResumeRepair, RepairStep, Reinstate, Reopen, RepairNothing, tables, clockVars
    <2>. QED
      BY <1>4, <2>1, <2>2, <2>3 DEF ClosureNext
  <1>5. ASSUME NEW r \in Runs, Advance(r)
        PROVE  UNCHANGED retired /\ \A q \in Runs : when[q] = "expired" => when'[q] = "expired"
    BY <1>5 DEF Advance, tables, TypeInv, TypeOK
  <1>6. ASSUME (\E p \in Procs : Kill(p)) \/ UNCHANGED vars PROVE UNCHANGED <<retired, when>>
    BY <1>6 DEF Kill, tables, vars
  <1>. QED
    BY <1>1, <1>2, <1>3, <1>4, <1>5, <1>6 DEF Next

LEMMA RecordsKept ==
    ASSUME ClosureInv, [Next]_vars
    PROVE  \A r \in Runs : /\ retired'[r] \in Open \cup {"NONE"}
                           /\ retired[r] \in Open => retired'[r] \in Open
                           /\ when[r] = "expired" => when'[r] = "expired"
  <1>1. ASSUME NEW p \in Retirees, RetireLog(p), NEW r \in Runs
        PROVE  /\ retired'[r] \in Open \cup {"NONE"}
               /\ retired[r] \in Open => retired'[r] \in Open
    <2>1. r \in sel[p] => req[r].state \in Open
      BY <1>1, Processes DEF RetireLog, ClosureInv, Retires
    <2>. QED
      BY <1>1, <2>1 DEF RetireLog, ClosureInv, RetiredState, Open
  <1>. QED
    BY <1>1, NextRecords DEF ClosureInv, RetiredState

\* While a retirement holds the lock nobody else changes the requests it read.
LEMMA RetiresStep ==
    ASSUME ClosureInv, [Next]_vars, NEW q \in Procs
    PROVE  Retires(q)'
  <1>. sel[q] \subseteq Runs
    BY DEF ClosureInv, TypeInv, TypeOK
  <1>1. ASSUME pc'[q] = "retireLog", pc[q] = "retireLog", sel'[q] = sel[q] PROVE Retires(q)'
    <2>1. ASSUME NEW p \in Procs, NEW r \in Runs, RequestWrite(p, r) PROVE FALSE
      BY <1>1, <2>1 DEF RequestWrite, ClosureInv, Exclusive, Holding
    <2>2. ASSUME NEW p \in Retirees, RetireRequests(p) PROVE FALSE
      BY <1>1, <2>2, Processes DEF RetireRequests, ClosureInv, Exclusive, Holding
    <2>3. UNCHANGED req
      BY <2>1, <2>2, NextRequests DEF RequestsWritten, ClosureInv
    <2>. QED
      BY <1>1, <2>3, RecordsKept DEF Retires, ClosureInv
  <1>2. ASSUME pc'[q] = "retireRuns", pc[q] = "retireRuns", sel'[q] = sel[q] PROVE Retires(q)'
    BY <1>2, RecordsKept DEF Retires, ClosureInv
  <1>3. ASSUME BeginsRetiring(q) PROVE Retires(q)'
    <2>1. pc'[q] = "retireLog"
      BY <1>3 DEF BeginsRetiring, MovesTo, Moves, ClosureInv, TypeInv, TypeOK
    <2>. QED
      BY <1>3, <2>1 DEF BeginsRetiring, Retires
  <1>4. ASSUME RetireLog(q) PROVE Retires(q)'
    <2>1. /\ pc'[q] = "retireRuns" /\ UNCHANGED <<sel, when>>
          /\ \A r \in sel[q] : req[r].state \in Open /\ when[r] = "expired"
      BY <1>4 DEF RetireLog, Goto, clockVars, locals, ClosureInv, TypeInv, TypeOK, Retires
    <2>2. \A r \in sel[q] : retired'[r] \in Open
      BY <1>4, <2>1 DEF RetireLog, ClosureInv, RetiredState
    <2>. QED
      BY <2>1, <2>2 DEF Retires
  <1>5. CASE UNCHANGED <<pc, sel>>
    BY <1>1, <1>2, <1>5 DEF Retires
  <1>6. CASE MovesOn
    BY <1>1, <1>2, <1>6 DEF MovesOn, MovesTo, Moves, Resting, Retires, ClosureInv, TypeInv, TypeOK
  <1>7. ASSUME NEW p \in Retirees, p # q, BeginsRetiring(p) \/ RetireLog(p) PROVE Retires(q)'
    <2>1. pc'[q] = pc[q] /\ sel'[q] = sel[q]
      BY <1>7 DEF BeginsRetiring, MovesTo, Moves, RetireLog, Goto, locals, ClosureInv, TypeInv,
                  TypeOK
    <2>. QED
      BY <1>1, <1>2, <2>1 DEF Retires
  <1>8. ASSUME NEW p \in Procs, NEW label \in Labels \ {"retireLog", "retireRuns"},
               MovesTo(p, label)
        PROVE  Retires(q)'
    BY <1>1, <1>2, <1>8 DEF MovesTo, Moves, Retires, ClosureInv, TypeInv, TypeOK
  <1>. QED
    BY <1>3, <1>4, <1>5, <1>6, <1>7, <1>8, NextMoves, ExecutionGoes, Processes
       DEF Moved, ClosureInv

LEMMA AuditedStep ==
    ASSUME ClosureInv, [Next]_vars, NEW r \in Runs
    PROVE  Audited(r)'
  <1>. SUFFICES ASSUME run'[r] = RetiredRun \/ req'[r].state = "RETIRED_OBSOLETE",
                       run[r] # RetiredRun, req[r].state # "RETIRED_OBSOLETE"
                PROVE  retired[r] \in Open /\ when[r] = "expired"
    BY RecordsKept DEF ClosureInv, Audited
  <1>1. ASSUME NEW p \in Retirees, pc[p] = "retireRuns", r \in sel[p]
        PROVE  retired[r] \in Open /\ when[r] = "expired"
    BY <1>1, Processes DEF ClosureInv, Retires
  <1>2. CASE run'[r] = RetiredRun
    <2>1. ASSUME NEW q \in Runs, RunWrite(q) PROVE FALSE
      <3>1. CASE q # r
        BY <1>2, <2>1, <3>1 DEF RunWrite, ClaimRun, UpdateRun, ReinstateRun, ClosureInv, TypeInv,
                                TypeOK
      <3>2. ASSUME NEW code \in {"NONE", "MISSED"}, NEW status, ClaimRun(r, status, code)
            PROVE  FALSE
        BY <1>2, <3>2 DEF ClaimRun, RetiredRun, ClosureInv, TypeInv, TypeOK
      <3>3. ASSUME NEW code \in Codes \ {"RETIRED"}, NEW status \in Statuses,
                   UpdateRun(r, status, code), status = "FAILED" <=> code # "NONE"
            PROVE  FALSE
        BY <1>2, <3>3 DEF UpdateRun, RetiredRun, ClosureInv, TypeInv, TypeOK
      <3>4. ASSUME ReinstateRun(r) PROVE FALSE
        BY <1>2, <3>4 DEF ReinstateRun, RetiredRun, ClosureInv, TypeInv, TypeOK
      <3>. QED
        BY <2>1, <3>1, <3>2, <3>3, <3>4 DEF RunWrite
    <2>2. PICK p \in Retirees, q \in Runs : RetireRun(p, q)
      BY <1>2, <2>1, NextRuns DEF RunsWritten, ClosureInv
    <2>3. q = r
      BY <1>2, <2>2 DEF RetireRun, UpdateRun, ClosureInv, TypeInv, TypeOK
    <2>. QED
      BY <1>1, <2>2, <2>3 DEF RetireRun, Unfailed
  <1>3. CASE req'[r].state = "RETIRED_OBSOLETE"
    <2>1. ASSUME NEW p \in Procs, NEW q \in Runs, RequestWrite(p, q) PROVE FALSE
      BY <1>3, <2>1 DEF RequestWrite, Upsert, ClosureInv, TypeInv, TypeOK
    <2>2. PICK p \in Retirees : RetireRequests(p)
      BY <1>3, <2>1, NextRequests DEF RequestsWritten, ClosureInv
    <2>. QED
      BY <1>1, <1>3, <2>2 DEF RetireRequests
  <1>. QED
    BY <1>2, <1>3

LEMMA ClosureStep ==
    ASSUME ClosureInv, [Next]_vars
    PROVE  ClosureInv'
  <1>1. TypeInv' /\ Exclusive' /\ Coded'
    BY NextType, NextDiscipline, DisciplineKeepsExclusive, NextRuns, CodedStep DEF ClosureInv
  <1>2. RetiredState'
    BY RecordsKept DEF RetiredState
  <1>. QED
    BY <1>1, <1>2, AuditedStep, RetiresStep DEF ClosureInv

LEMMA InitClosure ==
    ASSUME Init
    PROVE  ClosureInv
  <1>1. Exclusive /\ Coded /\ RetiredState
    BY DEF Init, StoreInit, Exclusive, Holding, Coded, RetiredState
  <1>2. (\A r \in Runs : Audited(r)) /\ (\A p \in Procs : Retires(p))
    BY DEF Init, StoreInit, Audited, Retires, RetiredRun
  <1>. QED
    BY <1>1, <1>2, InitType DEF ClosureInv

\* Nothing is retired without its audit record, nor before its window closed,
\* whatever cuts a retirement short and whoever races it.
THEOREM RetirementIsAudited == Spec => []RetirementAudited
  <1>1. ClosureInv => RetirementAudited
    BY DEF ClosureInv, Audited, RetirementAudited
  <1>. QED
    BY <1>1, InitClosure, ClosureStep, PTL DEF Spec

-----------------------------------------------------------------------------
(* Results. *)

Refusable == NoEvidence \cup Unexecutable
Executed == {"RUNNING", "SUCCESS", "PARTIAL", "DATA_HOLD"}
Live == {"PENDING", "COMPLETED"}

\* A workflow before its run has a result, and a process that installs one.
Undecided == {"wfDownload", "wfVerify", "wfStage", "wfPublish", "refuse", "refuseHold"}
Decided == {"wfIngest", "wantIngest", "runStatus", "complete", "resultRow"}
Retiring == {"retireLog", "retireRuns"}

\* The concurrency group: one workflow at a time works on a run without a result.
Sequential ==
    /\ \A p \in Procs : pc[p] \in Undecided => p \in Workflows
    /\ \A p, q \in Procs : pc[p] \in Undecided /\ pc[q] \in Undecided => p = q

\* What the rows and bundles of one run say of each other.
Reported(r) == /\ result[r].status = results[r] /\ run[r].status = results[r]
               /\ req[r].state = "COMPLETED"
               /\ results[r] # "FAILED" => r \in artifacts
Consistent(r) ==
    /\ result[r] # NoResult => r \notin Refusable /\ result[r].status \in Outcomes
    /\ r \in artifacts => result[r] # NoResult
    /\ run[r].code = "FALSE_REFUSAL" =>
          req[r].state = "NOT_EXECUTABLE" /\ result[r] = NoResult /\ r \in Pinned
    /\ run[r].status = "SCHEDULED" /\ req[r].state = "NOT_EXECUTABLE" => r \in Pinned
    /\ req[r].state # "NONE" => run[r].status # "NONE"
    /\ run[r].status \in Executed => result[r] # NoResult /\ req[r].state \in Live
    /\ results[r] # "NONE" => Reported(r)

\* What a process at a label knows of a run it selected.
Knows(label, r) ==
    /\ label \in Undecided => result[r] = NoResult /\ run[r].code # "FALSE_REFUSAL"
    /\ label \in {"wfStage", "wfPublish"} => r \notin Refusable
    /\ label \in Decided => result[r] # NoResult
    /\ label \in {"wantIngest", "runStatus"} => req[r].state \in Live \/ run[r].status = "FAILED"
    /\ label \in {"runStatus", "complete", "resultRow"} =>
          r \in artifacts \/ result[r].status = "FAILED"
    /\ label \in {"complete", "resultRow"} => run[r].status = result[r].status
    /\ label = "resultRow" => req[r].state = "COMPLETED"
    /\ label \in Retiring => req[r].state \in Open

ResultInv ==
    /\ ClosureInv /\ Sequential
    /\ \A r \in Runs : Consistent(r)
    /\ \A p \in Procs : \A r \in sel[p] : Knows(pc[p], r)

-----------------------------------------------------------------------------
(* The steps that write to a run's rows and bundles. *)

store == <<run, req, bundle, result, artifacts, results>>

PrepareWrite(p, r) ==
    \/ p = Runtime /\ (Claim(r) \/ GateRun(r) \/ GateRequest(r))
    \/ p \in Manuals /\ ManualClaim(p, r)
    \/ p \in Preparers /\ (RecordRequest(p, r) \/ PublishBundle(p, r) \/ MarkPending(p, r))
    \/ Protect(p, r)

ExecuteWrite(p, r) ==
    \/ p \in Workflows /\ \E status \in Outcomes : WfPublish(p, r, status)
    \/ p \in Workflows /\ (RefuseRun(p, r) \/ RefuseRequest(p, r))
    \/ InstallArtifacts(p, r) \/ StartRun(p, r) \/ EndRun(p, r)
    \/ Complete(p, r) \/ RecordResult(p, r)

CloseWrite(p, r) ==
    \/ p \in Retirees /\ (RetireRun(p, r) \/ RetireRequests(p))
    \/ Reinstate(p, r) \/ Reopen(p, r)

Written ==
    \/ UNCHANGED store
    \/ \E p \in Procs, r \in Runs : PrepareWrite(p, r) \/ ExecuteWrite(p, r) \/ CloseWrite(p, r)

\* Were there no runs, no request could be retired.
LEMMA RetiresSome ==
    ASSUME TypeInv, NEW p \in Retirees, RetireRequests(p), Runs = {}
    PROVE  UNCHANGED store
  <1>1. req' = req
    BY DEF RetireRequests, TypeInv, TypeOK
  <1>. QED
    BY <1>1 DEF RetireRequests, files, store

LEMMA NextWritten ==
    ASSUME TypeInv, [Next]_vars
    PROVE  Written
  <1>1. ASSUME PrepareNext PROVE Written
    <2>1. ASSUME NEW r \in Runs, Claim(r) \/ GateRun(r) \/ GateRequest(r) PROVE Written
      BY <2>1, Processes DEF Written, PrepareWrite
    <2>2. ASSUME NEW p \in Manuals, NEW r \in Runs, ManualClaim(p, r) PROVE Written
      BY <2>2, Processes DEF Written, PrepareWrite
    <2>3. ASSUME NEW p \in Preparers, NEW r \in Runs,
                 RecordRequest(p, r) \/ PublishBundle(p, r) \/ MarkPending(p, r)
          PROVE  Written
      BY <2>3, Processes DEF Written, PrepareWrite
    <2>4. ASSUME NEW p \in Preparers \cup Operators, NEW r \in Runs, Protect(p, r) PROVE Written
      BY <2>4, Processes DEF Written, PrepareWrite
    <2>5. ASSUME (\E skip \in ExclusionSets : BeginPass(skip)) \/ ClaimsDone \/ GateDone
          PROVE  UNCHANGED store
      BY <2>5 DEF BeginPass, ClaimsDone, GateDone, tables, files, store
    <2>6. ASSUME NEW p \in Preparers, NothingToFinish(p) \/ SelectClaims(p) \/ RecordsDone(p)
                 \/ BeginBundles(p) \/ BundlesDone(p) \/ (\E r \in Runs : BundleConflict(p, r))
          PROVE  UNCHANGED store
      BY <2>6 DEF NothingToFinish, SelectClaims, RecordsDone, BeginBundles, BundlesDone,
                  BundleConflict, tables, files, store
    <2>7. ASSUME NEW p \in Preparers \cup Operators, CopyWarehouse(p) \/ PublishSnapshot(p)
          PROVE  UNCHANGED store
      BY <2>7 DEF CopyWarehouse, PublishSnapshot, tables, files, store
    <2>. QED
      BY <1>1, <2>1, <2>2, <2>3, <2>4, <2>5, <2>6, <2>7
         DEF PrepareNext, RuntimeStep, PrepareStep, SnapshotStep, Written
  <1>2. ASSUME RetentionNext PROVE UNCHANGED store
    BY <1>2 DEF RetentionNext, PruneStep, OperatorPrune, PeriodicSnapshot, BeginPrune, PruneOne,
                PruneDone, ReadProtected, BeginStalePrune, tables, files, store
  <1>3. ASSUME ExecutionNext PROVE Written
    <2>1. ASSUME NEW p \in Workflows, NEW r \in Runs,
                 (\E status \in Outcomes : WfPublish(p, r, status))
                 \/ RefuseRun(p, r) \/ RefuseRequest(p, r)
          PROVE  Written
      BY <2>1, Processes DEF Written, ExecuteWrite
    <2>2. ASSUME NEW p \in Workflows \cup Ingesters, NEW r \in Runs,
                 InstallArtifacts(p, r) \/ StartRun(p, r) \/ EndRun(p, r) \/ Complete(p, r)
                 \/ RecordResult(p, r)
          PROVE  Written
      BY <2>2, Processes DEF Written, ExecuteWrite
    <2>3. ASSUME NEW p \in Workflows, NEW r \in Runs,
                 WfSelect(p, r) \/ WfDownload(p, r) \/ WfDownloadFails(p, r) \/ WfVerify(p, r)
                 \/ WfStage(p, r) \/ RefuseNothing(p, r) \/ WfIngestRefused(p, r)
          PROVE  UNCHANGED store
      BY <2>3 DEF WfSelect, WfDownload, WfDownloadFails, WfVerify, WfStage, RefuseNothing,
                  WfIngestRefused, tables, files, store
    <2>4. ASSUME NEW p \in Workflows \cup Ingesters, NEW r \in Runs,
                 IngestCheck(p, r) \/ RunEnded(p, r) \/ RunDisagrees(p, r)
          PROVE  UNCHANGED store
      BY <2>4 DEF IngestCheck, RunEnded, RunDisagrees, tables, files, store
    <2>5. ASSUME NEW p \in Workflows, BeginRefuse(p) PROVE UNCHANGED store
      BY <2>5 DEF BeginRefuse, tables, files, store
    <2>. QED
      BY <1>3, <2>1, <2>2, <2>3, <2>4, <2>5
         DEF ExecutionNext, WorkflowStep, IngestStep, Written
  <1>4. ASSUME ClosureNext PROVE Written
    <2>1. ASSUME NEW p \in Operators, NEW r \in Runs, Reinstate(p, r) \/ Reopen(p, r)
          PROVE  Written
      BY <2>1, Processes DEF Written, CloseWrite
    <2>2. ASSUME NEW p \in Retirees, NEW r \in Runs, RetireRun(p, r) PROVE Written
      BY <2>2, Processes DEF Written, CloseWrite
    <2>3. ASSUME NEW p \in Retirees, RetireRequests(p) PROVE Written
      BY <2>3, RetiresSome, Processes DEF Written, CloseWrite
    <2>4. ASSUME NEW swept \in SUBSET Runs, Housekeeping(swept) PROVE UNCHANGED store
      BY <2>4 DEF Housekeeping, tables, store
    <2>5. ASSUME NEW p \in Retirees, RetireLog(p) PROVE UNCHANGED store
      BY <2>5 DEF RetireLog, files, store
    <2>6. ASSUME NEW p \in Operators, ReviewStep(p) \/ BeginRepairs(p) PROVE UNCHANGED store
      BY <2>6 DEF ReviewStep, Review, Apply, ApplyRefused, BeginRepairs, BeginRepair,
                  ResumeRepair, tables, files, store
    <2>7. ASSUME NEW p \in Operators, NEW r \in Runs, RepairNothing(p, r) PROVE UNCHANGED store
      BY <2>7 DEF RepairNothing, tables, files, store
    <2>. QED
      BY <1>4, <2>1, <2>2, <2>3, <2>4, <2>5, <2>6, <2>7
         DEF ClosureNext, RetireStep, RepairStep, Written
  <1>5. ASSUME (\E r \in Runs : Advance(r)) \/ (\E p \in Procs : Kill(p)) \/ UNCHANGED vars
        PROVE  UNCHANGED store
    BY <1>5 DEF Advance, Kill, tables, files, vars, store
  <1>. QED
    BY <1>1, <1>2, <1>3, <1>4, <1>5 DEF Next, Written

-----------------------------------------------------------------------------
(* What a write does to the rows of every run. *)

\* A result, its artifacts, an ended run and a completed request stay.
Grows(r) ==
    /\ result[r] # NoResult => result'[r] = result[r]
    /\ r \in artifacts => r \in artifacts'
    /\ run'[r].code = "FALSE_REFUSAL" => run[r].code = "FALSE_REFUSAL"
    /\ result[r] # NoResult /\ run[r].status \in Terminal => run'[r].status = run[r].status
    /\ result[r] # NoResult /\ req[r].state \in Live =>
          req'[r].state \in Live \/ run'[r].status = "FAILED"
    /\ req[r].state = "COMPLETED" => req'[r].state = "COMPLETED"

LEMMA UntouchedRows ==
    ASSUME NEW r \in Runs, Consistent(r), run'[r] = run[r], req'[r] = req[r],
           result'[r] = result[r], results'[r] = results[r], r \in artifacts' <=> r \in artifacts
    PROVE  Consistent(r)' /\ Grows(r)
  BY DEF Consistent, Reported, Grows

LEMMA RunRows ==
    ASSUME TypeInv, NEW r \in Runs
    PROVE  /\ run[r].status \in Statuses /\ run[r].code \in Codes /\ run \in [Runs -> RunRow]
           /\ req[r].state \in States /\ req[r].snap \in Snaps \cup {NoSnap}
           /\ req \in [Runs -> ReqRow]
  BY DEF TypeInv, TypeOK, RunRow, ReqRow

\* A run's row is changed by claims, by legal transitions and by a reinstatement.
LEMMA WrittenRun ==
    ASSUME TypeInv, NEW r \in Runs, NEW status, NEW code,
           ClaimRun(r, status, code) \/ UpdateRun(r, status, code)
    PROVE  /\ \A q \in Runs \ {r} : run'[q] = run[q]
           /\ run'[r].status = status
           /\ run'[r].code = IF code = "NONE" /\ run[r].status # "NONE" THEN run[r].code ELSE code
           /\ run[r].status \in {"NONE", "SCHEDULED", "RUNNING"}
  BY RunRows DEF ClaimRun, UpdateRun, AllowedTransitions, Statuses, Terminal

LEMMA WrittenRequest ==
    ASSUME TypeInv, NEW r \in Runs, NEW state, NEW snap, Upsert(r, state, snap)
    PROVE  /\ \A q \in Runs \ {r} : req'[q] = req[q]
           /\ req'[r].state = state /\ req'[r].snap = snap
  BY RunRows DEF Upsert

LEMMA ResultTypes ==
    ASSUME ResultInv
    PROVE  /\ TypeInv /\ Coded
           /\ \A r \in Runs : Consistent(r)
           /\ \A p \in Procs : sel[p] \subseteq Runs /\ \A r \in sel[p] : Knows(pc[p], r)
  BY DEF ResultInv, ClosureInv, TypeInv, TypeOK

\* An outcome is a terminal status, and none of them is the empty one.
LEMMA OutcomeTypes ==
    /\ \A status \in Outcomes : status \in Terminal /\ status # "NONE"
    /\ \A status \in Terminal : status \in {"SUCCESS", "PARTIAL", "DATA_HOLD", "FAILED"}
  BY OutcomesAssumption DEF Terminal

LEMMA PrepareWrites ==
    ASSUME ResultInv, NEW p \in Procs, NEW r \in Runs, PrepareWrite(p, r), NEW q \in Runs
    PROVE  Consistent(q)' /\ Grows(q)
  <1>. TypeInv /\ Coded /\ Consistent(q) /\ Consistent(r)
    BY ResultTypes
  <1>1. CASE p = Runtime /\ Claim(r)
    <2>1. PICK status, code :
             /\ ClaimRun(r, status, code) /\ status \in {"SCHEDULED", "FAILED"}
             /\ code \in {"NONE", "MISSED"}
      BY <1>1 DEF Claim
    <2>2. UNCHANGED <<req, result, artifacts, results>>
      BY <1>1 DEF Claim, files
    <2>. QED
      BY <2>1, <2>2, WrittenRun, UntouchedRows, OutcomeTypes
         DEF ClaimRun, Consistent, Reported, Grows, Executed, Terminal
  <1>2. CASE ManualClaim(p, r)
    <2>1. ClaimRun(r, "SCHEDULED", "NONE") /\ UNCHANGED <<req, result, artifacts, results>>
      BY <1>2 DEF ManualClaim, files
    <2>. QED
      BY <2>1, WrittenRun, UntouchedRows, OutcomeTypes
         DEF ClaimRun, Consistent, Reported, Grows, Executed, Terminal
  <1>3. CASE GateRun(r)
    <2>1. /\ UpdateRun(r, "FAILED", "INSUFFICIENT") /\ run[r].status = "SCHEDULED"
          /\ UNCHANGED <<req, result, artifacts, results>>
      BY <1>3 DEF GateRun, files
    <2>. QED
      BY <2>1, WrittenRun, UntouchedRows, OutcomeTypes
         DEF Consistent, Reported, Grows, Executed, Terminal
  <1>4. CASE GateRequest(r)
    <2>1. /\ Upsert(r, "NOT_EXECUTABLE", req[r].snap) /\ r \in Refusable
          /\ req[r].state \in {"PREPARING", "PENDING"} /\ run[r].status # "SCHEDULED"
          /\ UNCHANGED <<run, result, artifacts, results>>
      BY <1>4 DEF GateRequest, Blocked, Refusable, files
    <2>. QED
      BY <2>1, WrittenRequest, UntouchedRows
         DEF Consistent, Reported, Grows, Executed, Terminal, Live
  <1>5. CASE RecordRequest(p, r)
    <2>1. /\ Upsert(r, "PREPARING", NoSnap)
          /\ req[r].state = "NONE" /\ run[r].status = "SCHEDULED"
          /\ UNCHANGED <<run, result, artifacts, results>>
      BY <1>5 DEF RecordRequest, Unrecorded, files
    <2>. QED
      BY <2>1, WrittenRequest, UntouchedRows
         DEF Consistent, Reported, Grows, Executed, Terminal, Live
  <1>6. CASE MarkPending(p, r)
    <2>1. /\ Upsert(r, "PENDING", sid[p]) /\ req[r].state = "PREPARING"
          /\ UNCHANGED <<run, result, artifacts, results>>
      BY <1>6 DEF MarkPending, Bundling, StillPreparing, files
    <2>. QED
      BY <2>1, WrittenRequest, UntouchedRows
         DEF Consistent, Reported, Grows, Executed, Terminal, Live
  <1>7. CASE Protect(p, r)
    <2>1. /\ Upsert(r, "PREPARING", sid[p]) /\ req[r].state = "PREPARING"
          /\ UNCHANGED <<run, result, artifacts, results>>
      BY <1>7 DEF Protect, Unprotected, StillPreparing, files
    <2>. QED
      BY <2>1, WrittenRequest, UntouchedRows
         DEF Consistent, Reported, Grows, Executed, Terminal, Live
  <1>8. CASE PublishBundle(p, r)
    BY <1>8, UntouchedRows DEF PublishBundle, tables
  <1>. QED
    BY <1>1, <1>2, <1>3, <1>4, <1>5, <1>6, <1>7, <1>8 DEF PrepareWrite

LEMMA ExecuteWrites ==
    ASSUME ResultInv, NEW p \in Procs, NEW r \in Runs, ExecuteWrite(p, r), NEW q \in Runs
    PROVE  Consistent(q)' /\ Grows(q)
  <1>. TypeInv /\ Coded /\ Consistent(q) /\ Consistent(r)
    BY ResultTypes
  <1>0. ASSUME NEW label, Working(p, label, r) PROVE Knows(label, r)
    BY <1>0, ResultTypes DEF Working
  <1>1. ASSUME NEW status \in Outcomes, WfPublish(p, r, status)
        PROVE  Consistent(q)' /\ Grows(q)
    <2>1. Knows("wfPublish", r) /\ UNCHANGED <<run, req, artifacts, results>>
      BY <1>0, <1>1 DEF WfPublish, tables
    <2>2. /\ \A x \in Runs \ {r} : result'[x] = result[x]
          /\ result'[r].status = status /\ result'[r] # NoResult
      BY <1>1, OutcomeTypes DEF WfPublish, NoResult, TypeInv, TypeOK
    <2>. QED
      BY <2>1, <2>2, UntouchedRows, OutcomeTypes
         DEF Knows, Undecided, Consistent, Reported, Grows, NoResult
  <1>2. CASE RefuseRun(p, r)
    <2>1. /\ UpdateRun(r, "FAILED", "REFUSED") /\ run[r].status = "SCHEDULED"
          /\ UNCHANGED <<req, result, artifacts, results>>
      BY <1>2 DEF RefuseRun, files
    <2>. QED
      BY <2>1, WrittenRun, UntouchedRows, OutcomeTypes
         DEF Consistent, Reported, Grows, Executed, Terminal
  <1>3. CASE RefuseRequest(p, r)
    <2>1. /\ Upsert(r, "NOT_EXECUTABLE", req[r].snap) /\ Knows("refuseHold", r)
          /\ req[r].state = "PENDING" /\ run[r].status # "SCHEDULED"
          /\ UNCHANGED <<run, result, artifacts, results>>
      BY <1>0, <1>3 DEF RefuseRequest, files
    <2>. QED
      BY <2>1, WrittenRequest, UntouchedRows
         DEF Knows, Undecided, Consistent, Reported, Grows, Live
  <1>4. CASE InstallArtifacts(p, r)
    <2>1. /\ Knows("wantIngest", r) /\ UNCHANGED <<run, req, result, results>>
          /\ artifacts' \in {artifacts, artifacts \cup {r}}
      BY <1>4, ResultTypes DEF InstallArtifacts, Acquire, files
    <2>. QED
      BY <2>1, UntouchedRows DEF Knows, Decided, Consistent, Reported, Grows
  <1>5. CASE StartRun(p, r)
    <2>1. /\ UpdateRun(r, "RUNNING", "NONE") /\ run[r].status = "SCHEDULED"
          /\ Knows("runStatus", r) /\ UNCHANGED <<req, result, artifacts, results>>
      BY <1>0, <1>5 DEF StartRun, files
    <2>. QED
      BY <2>1, WrittenRun, UntouchedRows, OutcomeTypes
         DEF Knows, Decided, Consistent, Reported, Grows, Executed, Terminal, Coded
  <1>6. CASE EndRun(p, r)
    <2>1. PICK code : /\ UpdateRun(r, result[r].status, code)
                      /\ code \in {"NONE", "EXECUTION"}
                      /\ run[r].status = "RUNNING"
      BY <1>6 DEF EndRun
    <2>2. Knows("runStatus", r) /\ UNCHANGED <<req, result, artifacts, results>>
      BY <1>0, <1>6 DEF EndRun, files
    <2>. QED
      BY <2>1, <2>2, WrittenRun, UntouchedRows, OutcomeTypes
         DEF Knows, Decided, Consistent, Reported, Grows, Executed, Terminal, Coded
  <1>7. CASE Complete(p, r)
    <2>1. /\ Upsert(r, "COMPLETED", sid[p]) /\ Knows("complete", r)
          /\ UNCHANGED <<run, result, artifacts, results>>
      BY <1>0, <1>7 DEF Complete, files
    <2>. QED
      BY <2>1, WrittenRequest, UntouchedRows, OutcomeTypes
         DEF Knows, Decided, Consistent, Reported, Grows, Live
  <1>8. CASE RecordResult(p, r)
    <2>1. Knows("resultRow", r) /\ UNCHANGED <<run, req, result, artifacts>>
      BY <1>0, <1>8 DEF RecordResult, files
    <2>2. /\ \A x \in Runs \ {r} : results'[x] = results[x]
          /\ results'[r] = IF results[r] = "NONE" THEN result[r].status ELSE results[r]
      BY <1>8 DEF RecordResult, TypeInv, TypeOK
    <2>. QED
      BY <2>1, <2>2, UntouchedRows
         DEF Knows, Decided, Consistent, Reported, Grows
  <1>. QED
    BY <1>1, <1>2, <1>3, <1>4, <1>5, <1>6, <1>7, <1>8 DEF ExecuteWrite

LEMMA CloseWrites ==
    ASSUME ResultInv, NEW p \in Procs, NEW r \in Runs, CloseWrite(p, r), NEW q \in Runs
    PROVE  Consistent(q)' /\ Grows(q)
  <1>. TypeInv /\ Coded /\ Consistent(q) /\ Consistent(r)
    BY ResultTypes
  <1>1. CASE p \in Retirees /\ RetireRun(p, r)
    <2>1. /\ UpdateRun(r, "FAILED", "RETIRED") /\ r \in sel[p] /\ pc[p] = "retireRuns"
          /\ UNCHANGED <<req, result, artifacts, results>>
      BY <1>1 DEF RetireRun, Unfailed, files
    <2>2. req[r].state \in Open
      BY <2>1, ResultTypes DEF Knows, Retiring
    <2>. QED
      BY <2>1, <2>2, WrittenRun, UntouchedRows, OutcomeTypes
         DEF Consistent, Reported, Grows, Executed, Terminal, Open
  <1>2. CASE p \in Retirees /\ RetireRequests(p)
    <2>1. /\ pc[p] = "retireRuns" /\ UNCHANGED <<run, result, artifacts, results>>
          /\ q \in sel[p] => run[q] = RetiredRun /\ req'[q].state = "RETIRED_OBSOLETE"
          /\ q \notin sel[p] => req'[q] = req[q]
      BY <1>2, RunRows DEF RetireRequests, Unfailed, files, ReqRow
    <2>2. q \in sel[p] => req[q].state \in Open
      BY <2>1, ResultTypes DEF Knows, Retiring
    <2>. QED
      BY <2>1, <2>2, UntouchedRows
         DEF RetiredRun, Consistent, Reported, Grows, Executed, Open, Live
  <1>3. CASE Reinstate(p, r)
    <2>1. /\ run[r].code = "FALSE_REFUSAL" /\ UNCHANGED <<req, result, artifacts, results>>
          /\ run'[r].status = "SCHEDULED" /\ run'[r].code = "NONE"
          /\ \A x \in Runs \ {r} : run'[x] = run[x]
      BY <1>3, RunRows DEF Reinstate, ReinstateRun, files
    <2>. QED
      BY <2>1, UntouchedRows, OutcomeTypes DEF Consistent, Reported, Grows, Executed
  <1>4. CASE Reopen(p, r)
    <2>1. /\ Upsert(r, "PENDING", req[r].snap) /\ run[r].status = "SCHEDULED"
          /\ req[r].state = "NOT_EXECUTABLE"
          /\ UNCHANGED <<run, result, artifacts, results>>
      BY <1>4 DEF Reopen, Reinstated, files
    <2>. QED
      BY <2>1, WrittenRequest, UntouchedRows
         DEF Consistent, Reported, Grows, Live, Coded, Executed
  <1>. QED
    BY <1>1, <1>2, <1>3, <1>4 DEF CloseWrite

LEMMA NextRows ==
    ASSUME ResultInv, [Next]_vars, NEW q \in Runs
    PROVE  Consistent(q)' /\ Grows(q)
  <1>1. CASE UNCHANGED store
    BY <1>1, UntouchedRows, ResultTypes DEF store
  <1>. QED
    BY <1>1, NextWritten, PrepareWrites, ExecuteWrites, CloseWrites, ResultTypes DEF Written

-----------------------------------------------------------------------------
(* What a step does to what a process knows. *)

\* Nobody publishes the result a workflow has yet to decide, nor writes the
\* requests a retirement has read.
LEMMA NobodyElse ==
    ASSUME ResultInv, [Next]_vars, NEW p \in Procs, pc'[p] = pc[p], NEW r \in sel[p]
    PROVE  /\ pc[p] \in Undecided => result'[r] = result[r]
           /\ pc[p] \in Retiring => req'[r] = req[r]
  <1>. r \in Runs /\ TypeInv /\ Exclusive /\ Sequential
    BY DEF ResultInv, ClosureInv, TypeInv, TypeOK
  <1>1. ASSUME pc[p] \in Undecided PROVE result'[r] = result[r]
    <2>1. ASSUME NEW q \in Procs, NEW x \in Runs, NEW status \in Outcomes, WfPublish(q, x, status)
          PROVE  FALSE
      <3>1. pc[q] = "wfPublish" /\ pc'[q] = "wfIngest"
        BY <2>1 DEF WfPublish, Working, Goto, TypeInv, TypeOK
      <3>. QED
        BY <1>1, <3>1 DEF Sequential, Undecided
    <2>2. ASSUME NEW q \in Procs, NEW x \in Runs,
                 PrepareWrite(q, x) \/ ExecuteWrite(q, x) \/ CloseWrite(q, x)
          PROVE  result' = result
      <3>1. ASSUME PrepareWrite(q, x) PROVE result' = result
        BY <3>1 DEF PrepareWrite, Claim, GateRun, GateRequest, ManualClaim, RecordRequest,
                    PublishBundle, MarkPending, Protect, files
      <3>2. ASSUME ExecuteWrite(q, x) PROVE result' = result
        BY <2>1, <3>2 DEF ExecuteWrite, RefuseRun, RefuseRequest, InstallArtifacts, StartRun,
                          EndRun, Complete, RecordResult, files
      <3>3. ASSUME CloseWrite(q, x) PROVE result' = result
        BY <3>3 DEF CloseWrite, RetireRun, RetireRequests, Reinstate, Reopen, files
      <3>. QED
        BY <2>2, <3>1, <3>2, <3>3
    <2>. QED
      BY <2>2, NextWritten DEF Written, store
  <1>2. ASSUME pc[p] \in Retiring PROVE req'[r] = req[r]
    <2>1. ASSUME NEW q \in Procs, NEW x \in Runs, RequestWrite(q, x) PROVE FALSE
      BY <1>2, <2>1 DEF RequestWrite, Exclusive, Holding, Retiring
    <2>2. ASSUME NEW q \in Retirees, RetireRequests(q) PROVE FALSE
      <3>1. q \in Procs /\ pc[q] = "retireRuns" /\ pc'[q] = "wantPrune"
        BY <2>2, Processes DEF RetireRequests, Leave, Goto, TypeInv, TypeOK
      <3>. QED
        BY <1>2, <3>1 DEF Exclusive, Holding, Retiring
    <2>. QED
      BY <2>1, <2>2, NextRequests DEF RequestsWritten
  <1>. QED
    BY <1>1, <1>2

LEMMA StillKnows ==
    ASSUME ResultInv, [Next]_vars, NEW p \in Procs, pc'[p] = pc[p], NEW r \in sel[p]
    PROVE  Knows(pc[p], r)'
  <1>1. r \in Runs /\ Knows(pc[p], r) /\ Grows(r) /\ Consistent(r) /\ Consistent(r)'
    BY NextRows, ResultTypes
  <1>2. CASE pc[p] \in Undecided
    BY <1>1, <1>2, NobodyElse DEF Knows, Grows, Undecided, Decided, Retiring
  <1>3. CASE pc[p] \in Retiring
    BY <1>1, <1>3, NobodyElse DEF Knows, Undecided, Decided, Retiring
  <1>4. CASE pc[p] \in Decided
    <2>1. result[r] # NoResult /\ result'[r] = result[r] /\ result[r].status \in Terminal
      BY <1>1, <1>4, OutcomeTypes DEF Knows, Grows, Consistent
    <2>2. pc'[p] = pc[p]
      OBVIOUS
    <2>3. CASE pc[p] \in {"wfIngest", "wantIngest", "runStatus"}
      BY <1>1, <2>1, <2>2, <2>3 DEF Knows, Grows, Terminal, Undecided, Decided, Retiring
    <2>4. CASE pc[p] \in {"complete", "resultRow"}
      BY <1>1, <2>1, <2>2, <2>4 DEF Knows, Grows, Undecided, Decided, Retiring
    <2>. QED
      BY <1>4, <2>3, <2>4 DEF Decided
  <1>5. CASE pc[p] \notin Undecided \cup Decided \cup Retiring
    BY <1>5 DEF Knows, Undecided, Decided, Retiring
  <1>. QED
    BY <1>2, <1>3, <1>4, <1>5

\* A process knows this of all it selected.
Informed(p) == \A r \in sel[p] : Knows(pc[p], r)

LEMMA RestingKnows ==
    ASSUME NEW label \in Resting, NEW r
    PROVE  Knows(label, r)' /\ label \notin Undecided
  BY DEF Resting, Knows, Undecided, Decided, Retiring

LEMMA WorkflowKnows ==
    ASSUME ResultInv, [Next]_vars, NEW p \in Workflows,
           BeginRefuse(p) \/ \E r \in Runs : WorkflowMove(p, r)
    PROVE  Informed(p)'
  <1>. p \in Procs /\ pc \in [Procs -> Labels] /\ sel \in [Procs -> SUBSET Runs]
    BY Processes, ResultTypes DEF TypeInv, TypeOK
  <1>1. CASE BeginRefuse(p)
    <2>1. /\ pc[p] = "refuse" /\ pc'[p] = "refuseHold" /\ UNCHANGED <<run, result>>
          /\ sel'[p] = sel[p]
      BY <1>1 DEF BeginRefuse, Acquire, Goto, tables, files, locals
    <2>. QED
      BY <2>1, ResultTypes DEF Informed, Knows, Undecided, Decided, Retiring
  <1>2. ASSUME NEW r \in Runs, WfSelect(p, r) PROVE Informed(p)'
    <2>1. /\ sel'[p] = {r} /\ req[r].state = "PENDING" /\ UNCHANGED <<run, result>>
          /\ pc'[p] = IF result[r] = NoResult THEN "wfDownload" ELSE "wfIngest"
      BY <1>2 DEF WfSelect, Executable, Goto, tables, files
    <2>2. run[r].code # "FALSE_REFUSAL"
      BY <2>1, ResultTypes DEF Consistent
    <2>. QED
      BY <2>1, <2>2 DEF Informed, Knows, Undecided, Decided, Retiring
  <1>3. ASSUME NEW r \in Runs, WfDownload(p, r) \/ WfVerify(p, r) \/ WfStage(p, r)
        PROVE  Informed(p)'
    <2>1. /\ sel[p] = {r} /\ sel'[p] = {r} /\ UNCHANGED <<run, result>>
          /\ pc[p] \in {"wfDownload", "wfVerify", "wfStage"}
          /\ pc'[p] \in {"wfVerify", "wfStage", "refuse", "wfPublish"}
      BY <1>3 DEF WfDownload, WfVerify, WfStage, Working, Goto, tables, locals, files
    <2>2. pc'[p] \in {"wfStage", "wfPublish"} => r \notin Refusable
      <3>1. CASE WfStage(p, r)
        BY <2>1, <3>1, ResultTypes DEF WfStage, Working, Knows
      <3>2. CASE WfVerify(p, r)
        BY <3>2 DEF WfVerify, Verifies, Goto, Refusable
      <3>3. CASE WfDownload(p, r)
        BY <3>3 DEF WfDownload, Goto
      <3>. QED
        BY <1>3, <3>1, <3>2, <3>3
    <2>3. result[r] = NoResult /\ run[r].code # "FALSE_REFUSAL"
      BY <2>1, ResultTypes DEF Knows, Undecided
    <2>. QED
      BY <2>1, <2>2, <2>3 DEF Informed, Knows, Undecided, Decided, Retiring
  <1>4. ASSUME NEW r \in Runs, NEW status \in Outcomes, WfPublish(p, r, status)
        PROVE  Informed(p)'
    <2>1. sel'[p] = {r} /\ pc'[p] = "wfIngest"
      BY <1>4 DEF WfPublish, Working, Goto, locals
    <2>2. result'[r].status = status
      BY <1>4, ResultTypes DEF WfPublish, TypeInv, TypeOK
    <2>. QED
      BY <2>1, <2>2, OutcomeTypes DEF Informed, Knows, NoResult, Undecided, Decided, Retiring
  <1>. QED
    BY <1>1, <1>2, <1>3, <1>4 DEF WorkflowMove

LEMMA IngestKnows ==
    ASSUME ResultInv, [Next]_vars, NEW p \in Procs, NEW r \in Runs, IngestMove(p, r)
    PROVE  Informed(p)'
  <1>. /\ TypeInv /\ pc \in [Procs -> Labels] /\ sel \in [Procs -> SUBSET Runs]
       /\ Consistent(r)
    BY ResultTypes DEF TypeInv, TypeOK
  <1>0. ASSUME NEW label, Working(p, label, r) PROVE Knows(label, r)
    BY <1>0, ResultTypes DEF Working
  <1>1. CASE IngestCheck(p, r)
    <2>1. /\ sel'[p] = {r} /\ pc'[p] = "wantIngest" /\ UNCHANGED <<run, req, result>>
          /\ result[r] # NoResult /\ req[r].state \in Live
      BY <1>1 DEF IngestCheck, Installable, Goto, tables, files, Live
    <2>. QED
      BY <2>1 DEF Informed, Knows, Undecided, Decided, Retiring
  <1>2. CASE InstallArtifacts(p, r)
    <2>1. /\ sel'[p] = {r} /\ pc'[p] = "runStatus" /\ UNCHANGED <<run, req, result>>
          /\ Knows("wantIngest", r) /\ (r \in artifacts' \/ result[r].status = "FAILED")
      BY <1>2, ResultTypes DEF InstallArtifacts, Acquire, Goto, locals, files
    <2>. QED
      BY <2>1 DEF Informed, Knows, Undecided, Decided, Retiring
  <1>3. CASE EndRun(p, r)
    <2>1. /\ sel'[p] = {r} /\ pc'[p] = "complete" /\ UNCHANGED <<req, result, artifacts>>
          /\ Knows("runStatus", r)
          /\ \E code : UpdateRun(r, result[r].status, code)
      BY <1>0, <1>3 DEF EndRun, Working, Goto, locals, files
    <2>2. run'[r].status = result[r].status
      BY <2>1, WrittenRun
    <2>. QED
      BY <2>1, <2>2 DEF Informed, Knows, Undecided, Decided, Retiring
  <1>4. CASE RunEnded(p, r)
    <2>1. /\ sel'[p] = {r} /\ pc'[p] = "complete" /\ UNCHANGED <<run, req, result, artifacts>>
          /\ Knows("runStatus", r) /\ run[r].status = result[r].status
      BY <1>0, <1>4 DEF RunEnded, Working, Goto, locals, tables, files
    <2>. QED
      BY <2>1 DEF Informed, Knows, Undecided, Decided, Retiring
  <1>5. CASE Complete(p, r)
    <2>1. /\ sel'[p] = {r} /\ pc'[p] = "resultRow" /\ UNCHANGED <<run, result, artifacts>>
          /\ Knows("complete", r) /\ Upsert(r, "COMPLETED", sid[p])
      BY <1>0, <1>5 DEF Complete, Working, Goto, locals, files
    <2>2. req'[r].state = "COMPLETED"
      BY <2>1, WrittenRequest
    <2>. QED
      BY <2>1, <2>2 DEF Informed, Knows, Undecided, Decided, Retiring
  <1>. QED
    BY <1>1, <1>2, <1>3, <1>4, <1>5 DEF IngestMove

LEMMA RetireKnows ==
    ASSUME ResultInv, NEW p \in Procs, BeginsRetiring(p) \/ RetireLog(p)
    PROVE  Informed(p)'
  <1>. pc \in [Procs -> Labels]
    BY ResultTypes DEF TypeInv, TypeOK
  <1>1. CASE BeginsRetiring(p)
    <2>1. /\ pc'[p] = "retireLog" /\ UNCHANGED req
          /\ \A r \in sel'[p] : req[r].state \in Open
      BY <1>1 DEF BeginsRetiring, MovesTo, Moves
    <2>. QED
      BY <2>1 DEF Informed, Knows, Undecided, Decided, Retiring
  <1>2. CASE RetireLog(p)
    <2>1. /\ pc[p] = "retireLog" /\ pc'[p] = "retireRuns" /\ UNCHANGED req
          /\ sel'[p] = sel[p]
      BY <1>2 DEF RetireLog, Goto, locals
    <2>. QED
      BY <2>1, ResultTypes DEF Informed, Knows, Undecided, Decided, Retiring
  <1>. QED
    BY <1>1, <1>2

\* The others know what they knew; the process that moves knows what it has read.
LEMMA NextKnows ==
    ASSUME ResultInv, [Next]_vars, NEW q \in Procs
    PROVE  Informed(q)'
  <1>. TypeInv
    BY ResultTypes
  <1>1. ASSUME pc'[q] = pc[q], sel'[q] = sel[q] PROVE Informed(q)'
    BY <1>1, StillKnows DEF Informed
  <1>2. ASSUME NEW p \in Procs, NEW label \in Labels, MovesTo(p, label), p # q
        PROVE  Informed(q)'
    BY <1>1, <1>2 DEF MovesTo, Moves, TypeInv, TypeOK
  <1>3. ASSUME NEW p \in Procs, NEW label \in Resting, MovesTo(p, label) PROVE Informed(q)'
    <2>1. pc'[p] = label /\ label \in Labels
      BY <1>3 DEF MovesTo, Moves, Resting, Labels, TypeInv, TypeOK
    <2>. QED
      BY <1>2, <1>3, <2>1, RestingKnows DEF Informed
  <1>4. ASSUME NEW p \in Workflows, BeginRefuse(p) \/ \E r \in Runs : WorkflowMove(p, r)
        PROVE  Informed(q)'
    BY <1>2, <1>4, WorkflowKnows, ExecutionGoes, Processes
  <1>5. ASSUME NEW p \in Workflows \cup Ingesters, NEW r \in Runs, IngestMove(p, r)
        PROVE  Informed(q)'
    BY <1>2, <1>5, IngestKnows, ExecutionGoes, Processes
  <1>6. ASSUME NEW p \in Retirees, BeginsRetiring(p) \/ RetireLog(p) PROVE Informed(q)'
    <2>1. \E label \in Labels : MovesTo(p, label)
      BY <1>6 DEF BeginsRetiring, RetireLog, Goto, locals, MovesTo, Moves, Labels
    <2>. QED
      BY <1>2, <1>6, <2>1, RetireKnows, Processes
  <1>. QED
    BY <1>1, <1>3, <1>4, <1>5, <1>6, NextMoves DEF Moved, MovesOn

\* A workflow that starts finds no other at work.
LEMMA NextSequential ==
    ASSUME ResultInv, [Next]_vars
    PROVE  Sequential'
  <1>. TypeInv /\ Sequential /\ pc \in [Procs -> Labels]
    BY ResultTypes DEF ResultInv, TypeInv, TypeOK
  <1>1. ASSUME NEW p \in Procs, NEW label, Moves(p, label),
               label \in Undecided => pc[p] \in Undecided
        PROVE  Sequential'
    BY <1>1 DEF Moves, Sequential
  <1>2. ASSUME NEW p \in Workflows, NEW r \in Runs, WfSelect(p, r) PROVE Sequential'
    <2>1. /\ \A q \in Workflows : pc[q] \notin Undecided
          /\ \E label : Moves(p, label)
      BY <1>2 DEF WfSelect, Goto, Moves, Undecided
    <2>. QED
      BY <2>1, Processes DEF Moves, Sequential
  <1>3. ASSUME NEW p \in Workflows, BeginRefuse(p) PROVE Sequential'
    BY <1>1, <1>3, Processes DEF BeginRefuse, Acquire, Goto, Moves, Undecided
  <1>4. ASSUME NEW p \in Workflows, NEW r \in Runs, WorkflowMove(p, r) PROVE Sequential'
    <2>1. CASE WfDownload(p, r) \/ WfVerify(p, r) \/ WfStage(p, r)
               \/ \E status \in Outcomes : WfPublish(p, r, status)
      <3>1. pc[p] \in Undecided /\ \E label : Moves(p, label)
        BY <2>1 DEF WfDownload, WfVerify, WfStage, WfPublish, Working, Goto, Moves, Undecided
      <3>. QED
        BY <1>1, <3>1, Processes
    <2>. QED
      BY <1>2, <1>4, <2>1 DEF WorkflowMove
  <1>5. ASSUME NEW p \in Workflows \cup Ingesters, NEW r \in Runs, IngestMove(p, r)
        PROVE  Sequential'
    <2>1. \E label \in Decided : Moves(p, label)
      BY <1>5 DEF IngestMove, IngestCheck, InstallArtifacts, EndRun, RunEnded, Complete,
                  Acquire, Goto, Moves, Decided
    <2>. QED
      BY <1>1, <2>1, Processes DEF Undecided, Decided
  <1>6. ASSUME NEW p \in Retirees, BeginsRetiring(p) \/ RetireLog(p) PROVE Sequential'
    BY <1>1, <1>6, Processes DEF BeginsRetiring, MovesTo, RetireLog, Goto, Moves, Undecided
  <1>7. CASE UNCHANGED <<pc, sel>>
    BY <1>7 DEF Sequential
  <1>8. CASE MovesOn
    BY <1>1, <1>8 DEF MovesOn, MovesTo, Resting, Undecided
  <1>. QED
    BY <1>3, <1>4, <1>5, <1>6, <1>7, <1>8, NextMoves DEF Moved

-----------------------------------------------------------------------------
(* The specification. *)

LEMMA InitResults ==
    ASSUME Init
    PROVE  ResultInv
  <1>1. Sequential /\ (\A p \in Procs : Informed(p))
    BY DEF Init, StoreInit, Sequential, Undecided, Informed
  <1>2. \A r \in Runs : Consistent(r)
    BY DEF Init, StoreInit, Consistent, Executed
  <1>. QED
    BY <1>1, <1>2, InitClosure DEF ResultInv, Informed

LEMMA NextResults ==
    ASSUME ResultInv, [Next]_vars
    PROVE  ResultInv'
  <1>1. ClosureInv' /\ Sequential'
    BY ClosureStep, NextSequential DEF ResultInv
  <1>2. \A r \in Runs : Consistent(r)'
    BY NextRows
  <1>3. \A p \in Procs : Informed(p)'
    BY NextKnows
  <1>. QED
    BY <1>1, <1>2, <1>3 DEF ResultInv, Informed

LEMMA ResultInvariant == Spec => []ResultInv
  BY InitResults, NextResults, PTL DEF Spec

\* What the evidence gate blocks or the executor refuses has no result and no
\* artifacts, whichever pass prepared it and whatever was killed.
THEOREM RefusedIsNeverExecuted == Spec => []RefusedNeverExecuted
  <1>1. ResultInv => RefusedNeverExecuted
    BY ResultTypes, StoreAssumption DEF RefusedNeverExecuted, Consistent, Refusable
  <1>. QED
    BY <1>1, ResultInvariant, PTL

\* Wherever an ingest is killed, resumed or raced, a row of the result table
\* agrees with the run, its request and its bundle, and its artifacts are there.
THEOREM ResultsAgree == Spec => []ResultAgreement
  <1>1. ResultInv => ResultAgreement
    BY ResultTypes DEF ResultAgreement, Consistent, Reported
  <1>. QED
    BY <1>1, ResultInvariant, PTL

-----------------------------------------------------------------------------
(* The lifecycle. *)

\* The stage of a run moves on, or a known false refusal is reopened.
Advances(r) ==
    \/ Stage(r)' = Stage(r)
    \/ Stage(r)' \in Lifecycle!Moves[Stage(r)]
    \/ r \in Pinned /\ Stage(r) = "refused" /\ Stage(r)' = "pending"

LEMMA StageMoves ==
    /\ {"claimed", "missed"} \subseteq Lifecycle!Moves["unclaimed"]
    /\ {"pending", "refused", "retired"} \subseteq Lifecycle!Moves["claimed"]
    /\ {"completed", "refused", "retired"} \subseteq Lifecycle!Moves["pending"]
  BY DEF Lifecycle!Moves, Lifecycle!Stages

LEMMA SameStage ==
    ASSUME NEW r \in Runs, run'[r] = run[r], req'[r] = req[r]
    PROVE  Advances(r)
  BY DEF Advances, Stage, RequestStage

\* Once a run has a request, its stage is the request's.
LEMMA RequestedStage ==
    ASSUME TypeInv, NEW r \in Runs, req[r].state # "NONE", req'[r] = req[r]
    PROVE  Advances(r)
  BY RunRows DEF Advances, Stage, RequestStage, States

LEMMA PrepareAdvances ==
    ASSUME ResultInv, NEW p \in Procs, NEW r \in Runs, PrepareWrite(p, r), NEW q \in Runs
    PROVE  Advances(q)
  <1>. TypeInv /\ Consistent(r)
    BY ResultTypes
  <1>1. ASSUME NEW status \in {"SCHEDULED", "FAILED"}, NEW code \in {"NONE", "MISSED"},
               ClaimRun(r, status, code), UNCHANGED req
        PROVE  Advances(q)
    <2>1. /\ run[r].status = "NONE" /\ run'[r].status = status
          /\ \A x \in Runs \ {r} : run'[x] = run[x]
      BY <1>1, WrittenRun DEF ClaimRun
    <2>2. CASE req[q].state # "NONE"
      BY <1>1, <2>2, RequestedStage
    <2>3. CASE q # r
      BY <1>1, <2>1, <2>3, SameStage
    <2>4. CASE q = r /\ req[r].state = "NONE"
      <3>1. Stage(r) = "unclaimed" /\ Stage(r)' \in {"claimed", "missed"}
        BY <1>1, <2>1, <2>4 DEF Stage, RequestStage
      <3>. QED
        BY <2>4, <3>1, StageMoves DEF Advances
    <2>. QED
      BY <2>2, <2>3, <2>4
  <1>2. CASE p = Runtime /\ Claim(r)
    BY <1>1, <1>2 DEF Claim
  <1>3. CASE ManualClaim(p, r)
    BY <1>1, <1>3 DEF ManualClaim
  <1>4. CASE GateRun(r)
    <2>1. /\ req[r].state # "NONE" /\ UNCHANGED req
          /\ UpdateRun(r, "FAILED", "INSUFFICIENT")
      BY <1>4 DEF GateRun, Blocked
    <2>. QED
      BY <2>1, WrittenRun, RequestedStage, SameStage
  <1>5. CASE GateRequest(r)
    <2>1. /\ Upsert(r, "NOT_EXECUTABLE", req[r].snap) /\ UNCHANGED run
          /\ req[r].state \in {"PREPARING", "PENDING"}
      BY <1>5 DEF GateRequest, Blocked
    <2>2. Stage(r) \in {"claimed", "pending"} /\ Stage(r)' = "refused"
      BY <2>1, WrittenRequest DEF Stage, RequestStage
    <2>. QED
      BY <2>1, <2>2, WrittenRequest, SameStage, StageMoves DEF Advances
  <1>6. CASE RecordRequest(p, r)
    <2>1. /\ Upsert(r, "PREPARING", NoSnap) /\ UNCHANGED run
          /\ req[r].state = "NONE" /\ run[r].status = "SCHEDULED"
      BY <1>6 DEF RecordRequest, Unrecorded
    <2>2. Stage(r) = "claimed" /\ Stage(r)' = "claimed"
      BY <2>1, WrittenRequest DEF Stage, RequestStage
    <2>. QED
      BY <2>1, <2>2, WrittenRequest, SameStage DEF Advances
  <1>7. CASE MarkPending(p, r)
    <2>1. /\ Upsert(r, "PENDING", sid[p]) /\ UNCHANGED run /\ req[r].state = "PREPARING"
      BY <1>7 DEF MarkPending, Bundling, StillPreparing
    <2>2. Stage(r) = "claimed" /\ Stage(r)' = "pending"
      BY <2>1, WrittenRequest DEF Stage, RequestStage
    <2>. QED
      BY <2>1, <2>2, WrittenRequest, SameStage, StageMoves DEF Advances
  <1>8. CASE Protect(p, r)
    <2>1. /\ Upsert(r, "PREPARING", sid[p]) /\ UNCHANGED run /\ req[r].state = "PREPARING"
      BY <1>8 DEF Protect, Unprotected, StillPreparing
    <2>2. Stage(r) = "claimed" /\ Stage(r)' = "claimed"
      BY <2>1, WrittenRequest DEF Stage, RequestStage
    <2>. QED
      BY <2>1, <2>2, WrittenRequest, SameStage DEF Advances
  <1>9. CASE PublishBundle(p, r)
    BY <1>9, SameStage DEF PublishBundle, tables
  <1>. QED
    BY <1>2, <1>3, <1>4, <1>5, <1>6, <1>7, <1>8, <1>9 DEF PrepareWrite

\* An outcome other than a failure is installed for a live request only.
LEMMA ExecuteAdvances ==
    ASSUME ResultInv, "FAILED" \notin Outcomes, NEW p \in Procs, NEW r \in Runs,
           ExecuteWrite(p, r), NEW q \in Runs
    PROVE  Advances(q)
  <1>. TypeInv /\ Consistent(r)
    BY ResultTypes
  <1>0. ASSUME NEW label, Working(p, label, r) PROVE Knows(label, r)
    BY <1>0, ResultTypes DEF Working
  <1>1. ASSUME NEW status \in Outcomes, WfPublish(p, r, status) PROVE Advances(q)
    BY <1>1, SameStage DEF WfPublish, tables
  <1>2. CASE RefuseRun(p, r)
    <2>1. req[r].state # "NONE" /\ UNCHANGED req /\ UpdateRun(r, "FAILED", "REFUSED")
      BY <1>2 DEF RefuseRun
    <2>. QED
      BY <2>1, WrittenRun, RequestedStage, SameStage
  <1>3. CASE RefuseRequest(p, r)
    <2>1. /\ Upsert(r, "NOT_EXECUTABLE", req[r].snap) /\ UNCHANGED run
          /\ req[r].state = "PENDING"
      BY <1>3 DEF RefuseRequest
    <2>2. Stage(r) = "pending" /\ Stage(r)' = "refused"
      BY <2>1, WrittenRequest DEF Stage, RequestStage
    <2>. QED
      BY <2>1, <2>2, WrittenRequest, SameStage, StageMoves DEF Advances
  <1>4. CASE InstallArtifacts(p, r) \/ RecordResult(p, r)
    BY <1>4, SameStage DEF InstallArtifacts, RecordResult
  <1>5. CASE StartRun(p, r)
    <2>1. /\ UpdateRun(r, "RUNNING", "NONE") /\ run[r].status = "SCHEDULED"
          /\ Knows("runStatus", r) /\ UNCHANGED req
      BY <1>0, <1>5 DEF StartRun
    <2>2. req[r].state # "NONE"
      BY <2>1 DEF Knows, Live
    <2>. QED
      BY <2>1, <2>2, WrittenRun, RequestedStage, SameStage
  <1>6. CASE EndRun(p, r)
    <2>1. PICK code : /\ UpdateRun(r, result[r].status, code)
                      /\ run[r].status = "RUNNING" /\ UNCHANGED req
      BY <1>6 DEF EndRun
    <2>2. req[r].state # "NONE"
      BY <2>1 DEF Consistent, Executed, Live
    <2>. QED
      BY <2>1, <2>2, WrittenRun, RequestedStage, SameStage
  <1>7. CASE Complete(p, r)
    <2>1. Upsert(r, "COMPLETED", sid[p]) /\ Knows("complete", r) /\ UNCHANGED run
      BY <1>0, <1>7 DEF Complete
    <2>2. run[r].status \in Outcomes
      BY <2>1 DEF Knows, Decided, Consistent
    <2>3. req[r].state \in Live
      BY <2>2, OutcomesAssumption DEF Consistent, Executed
    <2>4. Stage(r) \in {"pending", "completed"} /\ Stage(r)' = "completed"
      BY <2>1, <2>3, WrittenRequest DEF Stage, RequestStage, Live
    <2>. QED
      BY <2>1, <2>4, WrittenRequest, SameStage, StageMoves DEF Advances
  <1>. QED
    BY <1>1, <1>2, <1>3, <1>4, <1>5, <1>6, <1>7 DEF ExecuteWrite

LEMMA CloseAdvances ==
    ASSUME ResultInv, NEW p \in Procs, NEW r \in Runs, CloseWrite(p, r), NEW q \in Runs
    PROVE  Advances(q)
  <1>. TypeInv /\ Consistent(r)
    BY ResultTypes
  <1>1. CASE p \in Retirees /\ RetireRun(p, r)
    <2>1. /\ UpdateRun(r, "FAILED", "RETIRED") /\ r \in sel[p] /\ pc[p] = "retireRuns"
          /\ UNCHANGED req
      BY <1>1 DEF RetireRun, Unfailed
    <2>2. req[r].state # "NONE"
      BY <2>1, ResultTypes DEF Knows, Retiring, Open
    <2>. QED
      BY <2>1, <2>2, WrittenRun, RequestedStage, SameStage
  <1>2. CASE p \in Retirees /\ RetireRequests(p)
    <2>1. /\ pc[p] = "retireRuns" /\ UNCHANGED run
          /\ q \in sel[p] => req'[q].state = "RETIRED_OBSOLETE"
          /\ q \notin sel[p] => req'[q] = req[q]
      BY <1>2, RunRows DEF RetireRequests, ReqRow
    <2>2. q \in sel[p] => req[q].state \in Open
      BY <2>1, ResultTypes DEF Knows, Retiring
    <2>3. CASE q \in sel[p]
      <3>1. Stage(q) \in {"claimed", "pending"} /\ Stage(q)' = "retired"
        BY <2>1, <2>2, <2>3 DEF Stage, RequestStage, Open
      <3>. QED
        BY <3>1, StageMoves DEF Advances
    <2>. QED
      BY <2>1, <2>3, SameStage
  <1>3. CASE Reinstate(p, r)
    <2>1. /\ run[r].code = "FALSE_REFUSAL" /\ UNCHANGED req
          /\ \A x \in Runs \ {r} : run'[x] = run[x]
      BY <1>3, RunRows DEF Reinstate, ReinstateRun
    <2>. QED
      BY <2>1, RequestedStage, SameStage DEF Consistent
  <1>4. CASE Reopen(p, r)
    <2>1. /\ Upsert(r, "PENDING", req[r].snap) /\ run[r].status = "SCHEDULED"
          /\ req[r].state = "NOT_EXECUTABLE" /\ UNCHANGED run
      BY <1>4 DEF Reopen, Reinstated
    <2>2. Stage(r) = "refused" /\ Stage(r)' = "pending" /\ r \in Pinned
      BY <2>1, WrittenRequest DEF Stage, RequestStage, Consistent
    <2>. QED
      BY <2>1, <2>2, WrittenRequest, SameStage DEF Advances
  <1>. QED
    BY <1>1, <1>2, <1>3, <1>4 DEF CloseWrite

LEMMA NextAdvances ==
    ASSUME ResultInv, "FAILED" \notin Outcomes, [Next]_vars, NEW q \in Runs
    PROVE  Advances(q)
  <1>1. CASE UNCHANGED store
    BY <1>1, SameStage DEF store
  <1>. QED
    BY <1>1, NextWritten, PrepareAdvances, ExecuteAdvances, CloseAdvances, ResultTypes
       DEF Written

\* The evidence of a run is written by PublishBundle, its outcome by RecordResult.
LEMMA NextEvidenceWritten ==
    ASSUME ResultInv, [Next]_vars
    PROVE  \/ UNCHANGED <<bundle, results>>
           \/ \E p \in Procs, r \in Runs : PublishBundle(p, r) \/ RecordResult(p, r)
  <1>1. ASSUME NEW p \in Procs, NEW r \in Runs, PrepareWrite(p, r), ~PublishBundle(p, r)
        PROVE  UNCHANGED <<bundle, results>>
    BY <1>1 DEF PrepareWrite, Claim, GateRun, GateRequest, ManualClaim, RecordRequest,
                MarkPending, Protect, files
  <1>2. ASSUME NEW p \in Procs, NEW r \in Runs, ExecuteWrite(p, r), ~RecordResult(p, r)
        PROVE  UNCHANGED <<bundle, results>>
    BY <1>2 DEF ExecuteWrite, WfPublish, RefuseRun, RefuseRequest, InstallArtifacts, StartRun,
                EndRun, Complete, tables, files
  <1>3. ASSUME NEW p \in Procs, NEW r \in Runs, CloseWrite(p, r)
        PROVE  UNCHANGED <<bundle, results>>
    BY <1>3 DEF CloseWrite, RetireRun, RetireRequests, Reinstate, Reopen, files
  <1>. QED
    BY <1>1, <1>2, <1>3, NextWritten, ResultTypes DEF Written, store

\* Only a pending request makes its run's stage pending.
LEMMA NextStage ==
    ASSUME TypeInv', NEW r \in Runs
    PROVE  /\ Stage(r)' \in Lifecycle!Stages
           /\ Stage(r)' = "pending" => req'[r].state = "PENDING"
  <1>1. req'[r].state \in States
    BY DEF TypeInv, TypeOK, ReqRow
  <1>. QED
    BY <1>1 DEF Stage, RequestStage, States, Lifecycle!Stages

LEMMA InitLifecycle ==
    ASSUME Init
    PROVE  Lifecycle!LifecycleInit
  <1>1. TypeInv
    BY InitType
  <1>2. \A r \in Runs : Stage(r) = IF r \in Pinned THEN "refused" ELSE "unclaimed"
    BY DEF Init, StoreInit, Stage, RequestStage
  <1>3. bundle \in [Runs -> Snaps \cup {NoSnap}] /\ results = [r \in Runs |-> "NONE"]
    BY <1>1 DEF TypeInv, TypeOK, Init, StoreInit
  <1>. QED
    BY <1>2, <1>3 DEF Lifecycle!LifecycleInit

LEMMA NextLifecycle ==
    ASSUME ResultInv, EvidenceInv, ResultInv', EvidenceInv', "FAILED" \notin Outcomes, [Next]_vars
    PROVE  [Lifecycle!LifecycleNext]_(Lifecycle!lifecycleVars)
  <1>. TypeInv /\ TypeInv'
    BY ResultTypes DEF EvidenceInv
  <1>1. ASSUME UNCHANGED <<bundle, results>> PROVE Lifecycle!Move
    <2>1. \A r \in Runs : Advances(r) /\ Stage(r)' \in Lifecycle!Stages
      BY NextAdvances, NextStage
    <2>2. ASSUME NEW r \in Runs, Stage(r)' = "pending" PROVE bundle[r] # NoSnap
      <3>1. req'[r].state = "PENDING"
        BY <2>2, NextStage
      <3>. QED
        BY <1>1, <3>1 DEF EvidenceInv, RowPaired
    <2>. QED
      BY <1>1, <2>1, <2>2 DEF Lifecycle!Move, Advances
  <1>2. ASSUME NEW p \in Procs, NEW r \in Runs, PublishBundle(p, r)
        PROVE  [Lifecycle!LifecycleNext]_(Lifecycle!lifecycleVars)
    <2>1. /\ bundle[r] = NoSnap /\ bundle' = [bundle EXCEPT ![r] = sid[p]]
          /\ req[r].state = "PREPARING" /\ UNCHANGED <<run, req, results>>
      BY <1>2 DEF PublishBundle, Bundling, StillPreparing, tables
    <2>2. /\ Stage(r) = "claimed" /\ sid[p] \in Snaps \cup {NoSnap}
          /\ bundle \in [Runs -> Snaps \cup {NoSnap}]
      BY <2>1 DEF Stage, RequestStage, TypeInv, TypeOK
    <2>3. [x \in Runs |-> Stage(x)]' = [x \in Runs |-> Stage(x)]
      BY <2>1 DEF Stage
    <2>4. CASE sid[p] = NoSnap
      <3>1. bundle' = bundle
        BY <2>1, <2>2, <2>4
      <3>. QED
        BY <2>1, <2>3, <3>1 DEF Lifecycle!lifecycleVars
    <2>5. CASE sid[p] \in Snaps
      <3>1. PICK s \in Snaps : s = sid[p]
        BY <2>5
      <3>2. Lifecycle!FixEvidence(r, s)
        BY <2>1, <2>2, <2>3, <3>1 DEF Lifecycle!FixEvidence
      <3>. QED
        BY <3>1, <3>2 DEF Lifecycle!LifecycleNext
    <2>. QED
      BY <2>2, <2>4, <2>5
  <1>3. ASSUME NEW p \in Procs, NEW r \in Runs, RecordResult(p, r)
        PROVE  [Lifecycle!LifecycleNext]_(Lifecycle!lifecycleVars)
    <2>1. /\ pc[p] = "resultRow" /\ sel[p] = {r} /\ UNCHANGED <<run, req, bundle>>
          /\ results' = [results EXCEPT ![r] = IF @ = "NONE" THEN result[r].status ELSE @]
      BY <1>3 DEF RecordResult, Working, files
    <2>2. /\ req[r].state = "COMPLETED" /\ result[r].status \in Terminal
          /\ results \in [Runs -> Terminal \cup {"NONE"}]
      BY <2>1, ResultTypes, OutcomeTypes DEF Knows, Decided, Consistent, TypeInv, TypeOK
    <2>3. Stage(r) = "completed"
      BY <2>2 DEF Stage, RequestStage
    <2>4. [x \in Runs |-> Stage(x)]' = [x \in Runs |-> Stage(x)]
      BY <2>1 DEF Stage
    <2>5. CASE results[r] # "NONE"
      <3>1. results' = results
        BY <2>1, <2>2, <2>5
      <3>. QED
        BY <2>1, <2>4, <3>1 DEF Lifecycle!lifecycleVars
    <2>6. CASE results[r] = "NONE"
      <3>1. PICK o \in Terminal : o = result[r].status
        BY <2>2
      <3>2. Lifecycle!RecordOutcome(r, o)
        BY <2>1, <2>3, <2>4, <2>6, <3>1 DEF Lifecycle!RecordOutcome
      <3>. QED
        BY <3>1, <3>2 DEF Lifecycle!LifecycleNext
    <2>. QED
      BY <2>5, <2>6
  <1>. QED
    BY <1>1, <1>2, <1>3, NextEvidenceWritten DEF Lifecycle!LifecycleNext

\* When no executed bundle carries FAILED, the pipeline with all its processes,
\* its lock and its kills implements the lifecycle of a run.  (A FAILED bundle
\* whose request was retired between the check and the lock completes it.)
THEOREM LifecycleIsKept ==
    ASSUME "FAILED" \notin Outcomes
    PROVE  Spec => KeepsLifecycle
  <1>1. Init => Lifecycle!LifecycleInit
    BY InitLifecycle
  <1>2. /\ ResultInv /\ EvidenceInv /\ ResultInv' /\ EvidenceInv' /\ [Next]_vars
        => [Lifecycle!LifecycleNext]_(Lifecycle!lifecycleVars)
    BY NextLifecycle
  <1>. QED
    BY <1>1, <1>2, ResultInvariant, EvidenceInvariant, PTL
       DEF Spec, KeepsLifecycle, Lifecycle!LifecycleSpec

-----------------------------------------------------------------------------
(* Evidence that stays.  Where no one prepares or prunes by hand, the       *)
(* runtime's passes are the only ones that name, publish and delete         *)
(* snapshots, and what the pass under way has seen can be followed.         *)

ByItself == Manuals = {} /\ Operators = {}

\* A snapshot holds a claim that nobody has executed, refused or retired yet.
HoldsClaim(s, r) == run[r].status = "SCHEDULED" => copy[s].run[r].status = "SCHEDULED"

RowKept(r) ==
    /\ req[r].state = "PENDING" => req[r].snap \in published
    /\ req[r].state \in Open =>
          /\ req[r].snap < nextSnap
          /\ req[r].snap # NoSnap => HoldsClaim(req[r].snap, r)

\* The id a pass has drawn and not copied the warehouse to yet is nobody else's.
Unused(s) == s \notin published /\ \A r \in Runs : req[r].state \in Open => req[r].snap # s

PassKnows ==
    /\ pc[Runtime] \in {"wantSnap", "protect"} => sid[Runtime] < nextSnap
    /\ pc[Runtime] = "wantSnap" => Unused(sid[Runtime])
    /\ pc[Runtime] = "protect" => \A r \in Runs : HoldsClaim(sid[Runtime], r)
    /\ pc[Runtime] \in {"wantBundle", "bundle"} =>
          sid[Runtime] \in published /\ \A r \in sel[Runtime] : HoldsClaim(sid[Runtime], r)
    /\ pc[Runtime] = "prune" =>
          \A r \in Runs : req[r].state = "PENDING" => req[r].snap \in prot[Runtime]

SnapInv ==
    /\ \A s \in published : s < nextSnap
    /\ \A r \in Runs : RowKept(r)
    /\ PassKnows

\* The labels at which a pass knows something of its snapshot.
Snapping == {"wantSnap", "protect", "wantBundle", "bundle", "prune"}

\* A step may close a request or record a new one, and may claim a slot that has
\* no request; it brings no other request or claim back.
RowsFade ==
    \A r \in Runs :
        /\ req'[r].state \in Open =>
              \/ req'[r] = req[r]
              \/ pc[Runtime] = "record" /\ req'[r] = [state |-> "PREPARING", snap |-> NoSnap]
        /\ run'[r].status = "SCHEDULED" =>
              \/ run[r].status = "SCHEDULED"
              \/ pc[Runtime] = "claim" /\ req[r].state = "NONE"

Unwatched == Labels \ (Snapping \cup {"select", "idle"})

PassRests ==
    \/ pc'[Runtime] \in Unwatched
    \/ pc'[Runtime] = "idle" /\ sel'[Runtime] = {}
    \/ /\ pc'[Runtime] = pc[Runtime] /\ sel'[Runtime] = sel[Runtime]
       /\ sid'[Runtime] = sid[Runtime] /\ prot'[Runtime] = prot[Runtime]

Unseen == RowsFade /\ PassRests /\ UNCHANGED <<published, copy, nextSnap>>

\* The steps that name, publish or delete a snapshot, or prepare for one.
SnapWrite ==
    \/ GateDone \/ SelectClaims(Runtime) \/ PeriodicSnapshot(Runtime)
    \/ CopyWarehouse(Runtime) \/ PublishSnapshot(Runtime) \/ BeginBundles(Runtime)
    \/ BeginPrune(Runtime) \/ PruneOne(Runtime)
    \/ \E r \in Runs : Protect(Runtime, r) \/ MarkPending(Runtime, r)

-----------------------------------------------------------------------------
(* Every other step goes unseen by the pass. *)

LEMMA SameFades ==
    ASSUME UNCHANGED <<run, req>>
    PROVE  RowsFade
  BY DEF RowsFade

LEMMA UpdateFades ==
    ASSUME TypeInv, NEW r \in Runs, NEW status, NEW code, UpdateRun(r, status, code),
           status # "SCHEDULED", UNCHANGED req
    PROVE  RowsFade
  BY WrittenRun DEF RowsFade

LEMMA UpsertFades ==
    ASSUME TypeInv, NEW r \in Runs, NEW state, NEW snap, Upsert(r, state, snap),
           state \notin Open, UNCHANGED run
    PROVE  RowsFade
  BY WrittenRequest DEF RowsFade

\* A process that goes on to a label of its own disturbs no pass.
LEMMA OtherRests ==
    ASSUME TypeInv, NEW p \in Procs, NEW label \in Unwatched,
           Goto(p, label),
           \A q \in Procs \ {p} : sel'[q] = sel[q] /\ sid'[q] = sid[q] /\ prot'[q] = prot[q]
    PROVE  PassRests
  BY Processes DEF TypeInv, TypeOK, Goto, PassRests

LEMMA LeaveRests ==
    ASSUME TypeInv, NEW p \in Procs, NEW label \in {"idle", "wantPrune"}, Leave(p, label)
    PROVE  PassRests
  BY Processes DEF TypeInv, TypeOK, Leave, Goto, PassRests, Unwatched, Labels, Snapping

LEMMA LocalsRest ==
    ASSUME UNCHANGED <<pc, sel, sid, prot>>
    PROVE  PassRests
  BY DEF PassRests

LEMMA PreparePasses ==
    ASSUME ByItself, ResultInv, PrepareNext
    PROVE  Unseen \/ SnapWrite
  <1>. TypeInv /\ Runtime \in Procs /\ Preparers = {Runtime}
    BY ResultTypes, Processes DEF Preparers, ByItself
  <1>1. ASSUME NEW skip \in ExclusionSets, BeginPass(skip) PROVE Unseen
    <2>1. RowsFade /\ UNCHANGED <<published, copy, nextSnap>>
      BY <1>1, SameFades DEF BeginPass, tables, files
    <2>. QED
      BY <1>1, <2>1, OtherRests DEF BeginPass, Acquire, Unseen, Unwatched, Labels, Snapping
  <1>2. ASSUME NEW r \in Runs, Claim(r) PROVE Unseen
    <2>1. PICK status, code : ClaimRun(r, status, code)
      BY <1>2 DEF Claim
    <2>2. run[r].status = "NONE" /\ req[r].state = "NONE"
      BY <2>1, ResultTypes DEF ClaimRun, Consistent
    <2>3. /\ pc[Runtime] = "claim" /\ PassRests /\ UNCHANGED <<req, published, copy, nextSnap>>
      BY <1>2, LocalsRest DEF Claim, files
    <2>4. RowsFade
      BY <2>1, <2>2, <2>3, WrittenRun DEF RowsFade
    <2>. QED
      BY <2>3, <2>4 DEF Unseen
  <1>3. ASSUME NEW r \in Runs, GateRun(r) PROVE Unseen
    <2>1. UpdateRun(r, "FAILED", "INSUFFICIENT") /\ UNCHANGED <<req, published, copy, nextSnap>>
          /\ PassRests
      BY <1>3, LocalsRest DEF GateRun, files, locals
    <2>. QED
      BY <2>1, UpdateFades DEF Unseen
  <1>4. ASSUME NEW r \in Runs, GateRequest(r) PROVE Unseen
    <2>1. Upsert(r, "NOT_EXECUTABLE", req[r].snap) /\ UNCHANGED <<run, published, copy, nextSnap>>
          /\ PassRests
      BY <1>4, LocalsRest DEF GateRequest, files, locals
    <2>. QED
      BY <2>1, UpsertFades DEF Unseen, Open
  <1>5. ASSUME ClaimsDone PROVE Unseen
    <2>1. RowsFade /\ UNCHANGED <<published, copy, nextSnap>>
      BY <1>5, SameFades DEF ClaimsDone, tables, files
    <2>. QED
      BY <1>5, <2>1, OtherRests DEF ClaimsDone, locals, Unseen, Unwatched, Labels, Snapping
  <1>6. ASSUME PrepareStep(Runtime) PROVE Unseen \/ SnapWrite
    <2>1. ASSUME NothingToFinish(Runtime) \/ BundlesDone(Runtime) PROVE Unseen
      <3>1. RowsFade /\ UNCHANGED <<published, copy, nextSnap>>
        BY <2>1, SameFades DEF NothingToFinish, BundlesDone, tables, files
      <3>. QED
        BY <2>1, <3>1, LeaveRests DEF NothingToFinish, BundlesDone, EndPass, Unseen
    <2>2. ASSUME RecordsDone(Runtime) PROVE Unseen
      <3>1. RowsFade /\ UNCHANGED <<published, copy, nextSnap>>
        BY <2>2, SameFades DEF RecordsDone, tables, files
      <3>. QED
        BY <2>2, <3>1, OtherRests DEF RecordsDone, locals, Unseen, Unwatched, Labels, Snapping
    <2>3. ASSUME NEW r \in Runs, RecordRequest(Runtime, r) PROVE Unseen
      <3>1. /\ pc[Runtime] = "record" /\ Upsert(r, "PREPARING", NoSnap)
            /\ UNCHANGED <<run, published, copy, nextSnap>> /\ PassRests
        BY <2>3, LocalsRest DEF RecordRequest, files, locals
      <3>2. RowsFade
        BY <3>1, RunRows DEF Upsert, RowsFade
      <3>. QED
        BY <3>1, <3>2 DEF Unseen
    <2>4. ASSUME NEW r \in Runs, PublishBundle(Runtime, r) PROVE Unseen
      BY <2>4, SameFades, LocalsRest DEF PublishBundle, tables, locals, Unseen
    <2>5. ASSUME NEW r \in Runs, BundleConflict(Runtime, r) PROVE Unseen
      <3>1. RowsFade /\ UNCHANGED <<published, copy, nextSnap>>
        BY <2>5, SameFades DEF BundleConflict, tables, files
      <3>. QED
        BY <2>5, <3>1, LeaveRests DEF BundleConflict, Finish, Unseen
    <2>. QED
      BY <1>6, <2>1, <2>2, <2>3, <2>4, <2>5 DEF PrepareStep, SnapWrite
  <1>. QED
    BY <1>1, <1>2, <1>3, <1>4, <1>5, <1>6
       DEF PrepareNext, RuntimeStep, SnapshotStep, SnapWrite, ByItself

LEMMA ExecutionPasses ==
    ASSUME ResultInv, ExecutionNext
    PROVE  Unseen
  <1>. TypeInv
    BY ResultTypes
  <1>1. ASSUME NEW p \in Workflows, NEW r \in Runs,
               WfSelect(p, r) \/ WfDownload(p, r) \/ WfVerify(p, r) \/ WfStage(p, r)
               \/ \E status \in Outcomes : WfPublish(p, r, status)
        PROVE  Unseen
    <2>1. RowsFade /\ UNCHANGED <<published, copy, nextSnap>>
      BY <1>1, SameFades DEF WfSelect, WfDownload, WfVerify, WfStage, WfPublish, tables, files
    <2>2. PICK label \in {"wfDownload", "wfIngest", "wfVerify", "wfStage", "refuse", "wfPublish"} :
             Goto(p, label)
      BY <1>1 DEF WfSelect, WfDownload, WfVerify, WfStage, WfPublish
    <2>3. \A q \in Procs \ {p} : sel'[q] = sel[q] /\ sid'[q] = sid[q] /\ prot'[q] = prot[q]
      BY <1>1 DEF WfSelect, WfDownload, WfVerify, WfStage, WfPublish, locals, TypeInv, TypeOK
    <2>. QED
      BY <2>1, <2>2, <2>3, OtherRests, Processes DEF Unseen, Unwatched, Labels, Snapping
  <1>2. ASSUME NEW p \in Workflows, BeginRefuse(p) PROVE Unseen
    <2>1. RowsFade /\ UNCHANGED <<published, copy, nextSnap>>
      BY <1>2, SameFades DEF BeginRefuse, tables, files
    <2>. QED
      BY <1>2, <2>1, OtherRests, Processes
         DEF BeginRefuse, Acquire, locals, Unseen, Unwatched, Labels, Snapping
  <1>3. ASSUME NEW p \in Workflows, NEW r \in Runs,
               WfDownloadFails(p, r) \/ RefuseNothing(p, r) \/ WfIngestRefused(p, r)
        PROVE  Unseen
    <2>1. RowsFade /\ UNCHANGED <<published, copy, nextSnap>>
      BY <1>3, SameFades DEF WfDownloadFails, RefuseNothing, WfIngestRefused, tables, files
    <2>. QED
      BY <1>3, <2>1, LeaveRests, Processes
         DEF WfDownloadFails, RefuseNothing, WfIngestRefused, Finish, Unseen
  <1>4. ASSUME NEW p \in Workflows, NEW r \in Runs, RefuseRun(p, r) PROVE Unseen
    <2>1. UpdateRun(r, "FAILED", "REFUSED") /\ UNCHANGED <<req, published, copy, nextSnap>>
          /\ PassRests
      BY <1>4, LocalsRest DEF RefuseRun, files, locals
    <2>. QED
      BY <2>1, UpdateFades DEF Unseen
  <1>5. ASSUME NEW p \in Workflows, NEW r \in Runs, RefuseRequest(p, r) PROVE Unseen
    <2>1. Upsert(r, "NOT_EXECUTABLE", req[r].snap) /\ UNCHANGED <<run, published, copy, nextSnap>>
      BY <1>5 DEF RefuseRequest, files
    <2>2. PassRests
      BY <1>5, LeaveRests, Processes DEF RefuseRequest, Finish
    <2>. QED
      BY <2>1, <2>2, UpsertFades DEF Unseen, Open
  <1>6. ASSUME NEW p \in Workflows \cup Ingesters, NEW r \in Runs,
               IngestCheck(p, r) \/ InstallArtifacts(p, r) \/ RunEnded(p, r)
        PROVE  Unseen
    <2>1. RowsFade /\ UNCHANGED <<published, copy, nextSnap>>
      BY <1>6, SameFades DEF IngestCheck, InstallArtifacts, RunEnded, tables, files
    <2>2. PICK label \in {"wantIngest", "runStatus", "complete"} : Goto(p, label)
      BY <1>6 DEF IngestCheck, InstallArtifacts, Acquire, RunEnded
    <2>3. \A q \in Procs \ {p} : sel'[q] = sel[q] /\ sid'[q] = sid[q] /\ prot'[q] = prot[q]
      BY <1>6 DEF IngestCheck, InstallArtifacts, RunEnded, locals, TypeInv, TypeOK
    <2>. QED
      BY <2>1, <2>2, <2>3, OtherRests, Processes DEF Unseen, Unwatched, Labels, Snapping
  <1>7. ASSUME NEW p \in Workflows \cup Ingesters, NEW r \in Runs, StartRun(p, r) PROVE Unseen
    <2>1. UpdateRun(r, "RUNNING", "NONE") /\ UNCHANGED <<req, published, copy, nextSnap>>
          /\ PassRests
      BY <1>7, LocalsRest DEF StartRun, files, locals
    <2>. QED
      BY <2>1, UpdateFades DEF Unseen
  <1>8. ASSUME NEW p \in Workflows \cup Ingesters, NEW r \in Runs, EndRun(p, r) PROVE Unseen
    <2>1. PICK code : UpdateRun(r, result[r].status, code)
      BY <1>8 DEF EndRun
    <2>2. result[r].status # "SCHEDULED"
      BY <1>8, <2>1 DEF EndRun, UpdateRun, AllowedTransitions, Statuses, Terminal
    <2>3. UNCHANGED <<req, published, copy, nextSnap>> /\ PassRests
      BY <1>8, OtherRests, Processes DEF EndRun, files, locals, Unwatched, Labels, Snapping
    <2>. QED
      BY <2>1, <2>2, <2>3, UpdateFades DEF Unseen
  <1>9. ASSUME NEW p \in Workflows \cup Ingesters, NEW r \in Runs, Complete(p, r) PROVE Unseen
    <2>1. Upsert(r, "COMPLETED", sid[p]) /\ UNCHANGED <<run, published, copy, nextSnap>>
          /\ PassRests
      BY <1>9, OtherRests, Processes DEF Complete, files, locals, Unwatched, Labels, Snapping
    <2>. QED
      BY <2>1, UpsertFades DEF Unseen, Open
  <1>10. ASSUME NEW p \in Workflows \cup Ingesters, NEW r \in Runs,
                RunDisagrees(p, r) \/ RecordResult(p, r)
         PROVE  Unseen
    <2>1. RowsFade /\ UNCHANGED <<published, copy, nextSnap>>
      BY <1>10, SameFades DEF RunDisagrees, RecordResult, tables, files
    <2>. QED
      BY <1>10, <2>1, LeaveRests, Processes DEF RunDisagrees, RecordResult, Finish, Unseen
  <1>. QED
    BY <1>1, <1>2, <1>3, <1>4, <1>5, <1>6, <1>7, <1>8, <1>9, <1>10
       DEF ExecutionNext, WorkflowStep, IngestStep

LEMMA ClosurePasses ==
    ASSUME ByItself, ResultInv, ClosureNext
    PROVE  Unseen
  <1>. TypeInv /\ Runtime \in Procs /\ Retirees = {Runtime}
    BY ResultTypes, Processes DEF Retirees, ByItself
  <1>1. ASSUME NEW swept \in SUBSET Runs, Housekeeping(swept) PROVE Unseen
    <2>1. RowsFade /\ UNCHANGED <<published, copy, nextSnap>>
      BY <1>1, SameFades DEF Housekeeping, tables
    <2>2. PassRests
      BY <1>1, LeaveRests
         DEF Housekeeping, Goto, PassRests, Unwatched, Labels, Snapping, TypeInv, TypeOK
    <2>. QED
      BY <2>1, <2>2 DEF Unseen
  <1>2. ASSUME RetireLog(Runtime) PROVE Unseen
    <2>1. RowsFade /\ UNCHANGED <<published, copy, nextSnap>>
      BY <1>2, SameFades DEF RetireLog, files
    <2>. QED
      BY <1>2, <2>1, OtherRests DEF RetireLog, locals, Unseen, Unwatched, Labels, Snapping
  <1>3. ASSUME NEW r \in Runs, RetireRun(Runtime, r) PROVE Unseen
    <2>1. UpdateRun(r, "FAILED", "RETIRED") /\ UNCHANGED <<req, published, copy, nextSnap>>
          /\ PassRests
      BY <1>3, LocalsRest DEF RetireRun, files, locals
    <2>. QED
      BY <2>1, UpdateFades DEF Unseen
  <1>4. ASSUME RetireRequests(Runtime) PROVE Unseen
    <2>1. /\ UNCHANGED <<run, published, copy, nextSnap>>
          /\ \A r \in Runs : req'[r] = req[r] \/ req'[r].state = "RETIRED_OBSOLETE"
      BY <1>4, RunRows DEF RetireRequests, files, ReqRow
    <2>2. RowsFade /\ PassRests
      BY <1>4, <2>1, LeaveRests DEF RetireRequests, RowsFade, Open
    <2>. QED
      BY <2>1, <2>2 DEF Unseen
  <1>. QED
    BY <1>1, <1>2, <1>3, <1>4 DEF ClosureNext, RetireStep, ByItself

LEMMA NextPasses ==
    ASSUME ByItself, ResultInv, [Next]_vars
    PROVE  Unseen \/ SnapWrite
  <1>. TypeInv /\ Runtime \in Procs /\ Pruners = {Runtime}
    BY ResultTypes, Processes DEF Pruners, ByItself
  <1>1. ASSUME RetentionNext PROVE Unseen \/ SnapWrite
    <2>1. ASSUME PruneDone(Runtime) PROVE Unseen
      BY <2>1, SameFades, LeaveRests DEF PruneDone, Finish, tables, files, Unseen
    <2>. QED
      BY <1>1, <2>1 DEF RetentionNext, PruneStep, SnapWrite, ByItself
  <1>2. ASSUME NEW p \in Procs, Kill(p) PROVE Unseen
    BY <1>2, SameFades, LeaveRests DEF Kill, Finish, tables, files, Unseen
  <1>3. ASSUME (\E r \in Runs : Advance(r)) \/ UNCHANGED vars PROVE Unseen
    BY <1>3, SameFades, LocalsRest DEF Advance, tables, files, locals, vars, Unseen
  <1>. QED
    BY <1>1, <1>2, <1>3, PreparePasses, ExecutionPasses, ClosurePasses DEF Next

-----------------------------------------------------------------------------
(* The steps of a pass, and of its housekeeping. *)

LEMMA SnapTypes ==
    ASSUME ResultInv
    PROVE  /\ Runtime \in Procs /\ sel[Runtime] \subseteq Runs
           /\ sid[Runtime] \in Snaps \cup {NoSnap} /\ published \subseteq Snaps
           /\ pc \in [Procs -> Labels] /\ sel \in [Procs -> SUBSET Runs]
           /\ sid \in [Procs -> Snaps \cup {NoSnap}] /\ prot \in [Procs -> SUBSET Snaps]
           /\ copy \in [Snaps -> CopyRow] /\ nextSnap \in Nat /\ nextSnap # NoSnap
           /\ pc[Runtime] \in {"wantSnap", "protect"} => sid[Runtime] \in Snaps
           /\ \A s \in Snaps : s \in Nat /\ s # NoSnap
           /\ \A r \in Runs : req[r].state \in States /\ req[r].snap \in Snaps \cup {NoSnap}
           /\ req \in [Runs -> ReqRow]
  BY ResultTypes, RunRows, Processes, StoreAssumption
     DEF TypeInv, TypeOK, SnapshotDrawn, Snaps, NoSnap

LEMMA UnseenKeeps ==
    ASSUME SnapInv, ResultInv, Unseen
    PROVE  SnapInv'
  <1>1. ASSUME NEW r \in Runs PROVE RowKept(r)'
    <2>1. CASE req'[r] = req[r]
      BY <2>1 DEF SnapInv, RowKept, HoldsClaim, Unseen, RowsFade, Open
    <2>2. CASE req'[r] = [state |-> "PREPARING", snap |-> NoSnap] /\ req'[r] # req[r]
      BY <2>2, SnapTypes DEF RowKept, Unseen, NoSnap
    <2>. QED
      BY <2>1, <2>2 DEF Unseen, RowsFade, RowKept, Open
  <1>2. PassKnows'
    <2>1. CASE pc'[Runtime] \in Snapping
      <3>1. /\ pc'[Runtime] = pc[Runtime] /\ sel'[Runtime] = sel[Runtime]
            /\ sid'[Runtime] = sid[Runtime] /\ prot'[Runtime] = prot[Runtime]
            /\ UNCHANGED <<published, copy, nextSnap>>
        BY <2>1 DEF Unseen, PassRests, Unwatched, Snapping
      <3>2. \A r \in Runs : /\ run'[r].status = "SCHEDULED" => run[r].status = "SCHEDULED"
                            /\ req'[r].state \in Open => req'[r] = req[r]
        BY <2>1, <3>1 DEF Unseen, RowsFade, Snapping
      <3>3. sel[Runtime] \subseteq Runs
        BY SnapTypes
      <3>. QED
        BY <3>1, <3>2, <3>3 DEF SnapInv, PassKnows, Unused, HoldsClaim, Open
    <2>2. CASE pc'[Runtime] \notin Snapping
      BY <2>2 DEF PassKnows, Snapping
    <2>. QED
      BY <2>1, <2>2
  <1>. QED
    BY <1>1, <1>2 DEF SnapInv, Unseen

\* Rows and snapshots as they were: only what the pass knows is at stake.
LEMMA SameSnaps ==
    ASSUME SnapInv, UNCHANGED <<run, req, published, copy>>, nextSnap' >= nextSnap,
           nextSnap \in Nat, nextSnap' \in Nat, ResultInv, PassKnows'
    PROVE  SnapInv'
  <1>1. \A s \in published : s \in Nat
    BY SnapTypes
  <1>2. \A r \in Runs : RowKept(r)'
    BY SnapTypes DEF SnapInv, RowKept, HoldsClaim, Snaps, NoSnap
  <1>. QED
    BY <1>1, <1>2 DEF SnapInv

LEMMA DrawKeeps ==
    ASSUME SnapInv, ResultInv, DrawSnapshot(Runtime), UNCHANGED <<run, req, published, copy>>
    PROVE  SnapInv'
  <1>1. /\ pc'[Runtime] = "wantSnap" /\ sid'[Runtime] = nextSnap /\ nextSnap' = nextSnap + 1
        /\ nextSnap \in Nat
    BY SnapTypes DEF DrawSnapshot, Goto
  <1>2. Unused(nextSnap)
    <2>1. nextSnap \notin published
      BY SnapTypes DEF SnapInv
    <2>2. \A r \in Runs : req[r].state \in Open => req[r].snap # nextSnap
      BY SnapTypes DEF SnapInv, RowKept
    <2>. QED
      BY <2>1, <2>2 DEF Unused
  <1>3. PassKnows'
    BY <1>1, <1>2 DEF PassKnows, Unused
  <1>. QED
    BY <1>1, <1>3, SameSnaps

LEMMA SelectKeeps ==
    ASSUME ByItself, SnapInv, ResultInv, SelectClaims(Runtime)
    PROVE  SnapInv'
  <1>1. UNCHANGED <<run, req, published, copy>>
    BY DEF SelectClaims, tables
  <1>2. ASSUME NEW s \in ClaimSnapshot(Selected(Runtime)), sid' = [sid EXCEPT ![Runtime] = s],
               Goto(Runtime, "wantBundle"), UNCHANGED nextSnap
        PROVE  SnapInv'
    <2>1. /\ pc'[Runtime] = "wantBundle" /\ sid'[Runtime] = s /\ sel'[Runtime] = Selected(Runtime)
      BY <1>2, SnapTypes DEF Goto, SelectClaims
    <2>2. \A r \in Selected(Runtime) : r \in Runs /\ req[r].state = "PREPARING"
      BY DEF Selected, Waiting, ByItself
    <2>3. s \in published /\ s # NoSnap /\ \A r \in Selected(Runtime) : req[r].snap = s
      BY <1>2, SnapTypes DEF ClaimSnapshot
    <2>4. \A r \in Selected(Runtime) : HoldsClaim(s, r)
      BY <2>2, <2>3 DEF SnapInv, RowKept, Open
    <2>5. PassKnows'
      BY <1>1, <2>1, <2>3, <2>4 DEF PassKnows, HoldsClaim
    <2>. QED
      BY <1>1, <1>2, <2>5, SameSnaps, SnapTypes
  <1>. QED
    BY <1>1, <1>2, DrawKeeps DEF SelectClaims

\* The warehouse is copied under an id nobody else names, or is the latest's.
LEMMA CopyKeeps ==
    ASSUME SnapInv, ResultInv, CopyWarehouse(Runtime)
    PROVE  SnapInv'
  <1>1. /\ pc[Runtime] = "wantSnap" /\ pc'[Runtime] = "protect"
        /\ UNCHANGED <<run, req, published, nextSnap>>
    BY SnapTypes DEF CopyWarehouse, Acquire, Goto, tables
  <1>2. Unused(sid[Runtime]) /\ sid[Runtime] < nextSnap /\ sid[Runtime] \in Snaps
    BY <1>1, SnapTypes DEF SnapInv, PassKnows
  <1>3. /\ \A s \in Snaps \ {sid[Runtime]} : copy'[s] = copy[s]
        /\ copy'[sid'[Runtime]].run = run /\ sid'[Runtime] < nextSnap
    <2>1. CASE \E s \in published : /\ IsLatest(s) /\ copy[s] = Tables
                                    /\ sid' = [sid EXCEPT ![Runtime] = s] /\ UNCHANGED copy
      BY <2>1, SnapTypes DEF Tables, SnapInv
    <2>2. CASE copy' = [copy EXCEPT ![sid[Runtime]] = Tables] /\ UNCHANGED sid
      <3>1. copy'[sid[Runtime]] = Tables /\ \A s \in Snaps \ {sid[Runtime]} : copy'[s] = copy[s]
        BY <1>2, <2>2, SnapTypes
      <3>. QED
        BY <1>2, <2>2, <3>1 DEF Tables
    <2>. QED
      BY <2>1, <2>2 DEF CopyWarehouse
  <1>4. \A r \in Runs : RowKept(r)'
    BY <1>1, <1>2, <1>3, SnapTypes DEF SnapInv, RowKept, HoldsClaim, Unused
  <1>5. PassKnows'
    BY <1>1, <1>3 DEF PassKnows, HoldsClaim
  <1>. QED
    BY <1>1, <1>4, <1>5 DEF SnapInv

\* A claim names the copied snapshot, and later its request may be executed.
LEMMA NameKeeps ==
    ASSUME SnapInv, ResultInv, NEW r \in Runs, NEW state, Upsert(r, state, sid[Runtime]),
           pc[Runtime] \in {"protect", "bundle"}, r \in sel[Runtime],
           state = "PENDING" => pc[Runtime] = "bundle",
           UNCHANGED <<run, published, copy, nextSnap, pc, sel, sid, prot>>
    PROVE  SnapInv'
  <1>1. req'[r] = [state |-> state, snap |-> sid[Runtime]] /\ \A q \in Runs \ {r} : req'[q] = req[q]
    BY SnapTypes DEF Upsert
  <1>2. /\ sid[Runtime] < nextSnap /\ HoldsClaim(sid[Runtime], r)
        /\ pc[Runtime] = "bundle" => sid[Runtime] \in published
    BY SnapTypes DEF SnapInv, PassKnows
  <1>3. \A q \in Runs : RowKept(q)'
    BY <1>1, <1>2 DEF SnapInv, RowKept, HoldsClaim
  <1>4. PassKnows'
    BY SnapTypes DEF SnapInv, PassKnows, HoldsClaim
  <1>. QED
    BY <1>3, <1>4 DEF SnapInv

LEMMA PublishKeeps ==
    ASSUME ByItself, SnapInv, ResultInv, PublishSnapshot(Runtime)
    PROVE  SnapInv'
  <1>1. /\ pc[Runtime] = "protect" /\ pc'[Runtime] \in {"wantPrune", "wantBundle"}
        /\ published' = published \cup {sid[Runtime]}
        /\ UNCHANGED <<run, req, copy, nextSnap, sel, sid>>
    BY SnapTypes DEF PublishSnapshot, Goto, tables, locals, ByItself
  <1>2. sid[Runtime] < nextSnap /\ \A r \in Runs : HoldsClaim(sid[Runtime], r)
    BY <1>1 DEF SnapInv, PassKnows
  <1>3. \A r \in Runs : RowKept(r)'
    BY <1>1 DEF SnapInv, RowKept, HoldsClaim
  <1>4. PassKnows'
    BY <1>1, <1>2, SnapTypes DEF PassKnows, HoldsClaim
  <1>. QED
    BY <1>1, <1>2, <1>3, <1>4 DEF SnapInv

LEMMA EarliestOfMany ==
    ASSUME NEW S \in SUBSET Nat, S # {}
    PROVE  Earliest(S) \in S
  <1>. DEFINE R == OpToRel(<, Nat)
  <1>1. IsWellFoundedOn(R, Nat)
    BY NatLessThanWellFounded
  <1>2. PICK least \in S : \A n \in S : ~(<<n, least>> \in R)
    BY <1>1, WFMin
  <1>3. \A n \in S : ~(n < least)
    BY <1>2 DEF OpToRel
  <1>4. \E r \in S : \A q \in S : r <= q
    BY <1>3
  <1>. QED
    BY <1>4 DEF Earliest

\* Whatever protects is read under the lock that is held until the last deletion.
LEMMA PruneKeeps ==
    ASSUME SnapInv, ResultInv, BeginPrune(Runtime) \/ PruneOne(Runtime)
    PROVE  SnapInv'
  <1>1. CASE BeginPrune(Runtime)
    <2>1. /\ pc'[Runtime] = "prune" /\ prot'[Runtime] = ProtectedIn(req)
          /\ UNCHANGED <<run, req, published, copy, nextSnap>>
      BY <1>1, SnapTypes DEF BeginPrune, Acquire, Goto, tables, files
    <2>2. ASSUME NEW r \in Runs, req[r].state = "PENDING" PROVE req[r].snap \in ProtectedIn(req)
      <3>1. req[r].snap \in published /\ req[r].snap # NoSnap
        BY <2>2, SnapTypes DEF SnapInv, RowKept
      <3>. QED
        BY <2>2, <3>1 DEF ProtectedIn, Protecting
    <2>3. PassKnows'
      BY <2>1, <2>2 DEF PassKnows
    <2>. QED
      BY <2>1, <2>3, SameSnaps, SnapTypes
  <1>2. CASE PruneOne(Runtime)
    <2>. DEFINE doomed == Earliest(Doomed(prot[Runtime], Keep))
    <2>1. /\ pc[Runtime] = "prune" /\ pc' = pc /\ published' = published \ {doomed}
          /\ UNCHANGED <<run, req, copy, nextSnap, prot>>
      BY <1>2 DEF PruneOne, tables, locals
    <2>2. Doomed(prot[Runtime], Keep) \subseteq published \ prot[Runtime]
      BY DEF Doomed
    <2>3. doomed \notin prot[Runtime]
      BY <1>2, <2>2, EarliestOfMany, SnapTypes DEF PruneOne, Snaps
    <2>4. \A r \in Runs : req[r].state = "PENDING" => req[r].snap # doomed
      BY <2>1, <2>3 DEF SnapInv, PassKnows
    <2>5. \A r \in Runs : RowKept(r)'
      BY <2>1, <2>4 DEF SnapInv, RowKept, HoldsClaim
    <2>6. PassKnows'
      BY <2>1 DEF SnapInv, PassKnows
    <2>. QED
      BY <2>1, <2>5, <2>6 DEF SnapInv
  <1>. QED
    BY <1>1, <1>2

LEMMA SnapWriteKeeps ==
    ASSUME ByItself, SnapInv, ResultInv, SnapWrite
    PROVE  SnapInv'
  <1>1. CASE GateDone
    <2>1. /\ pc'[Runtime] = "select" /\ UNCHANGED <<run, req, published, copy, nextSnap>>
      BY <1>1, SnapTypes DEF GateDone, Goto, tables, files
    <2>. QED
      BY <2>1, SameSnaps, SnapTypes DEF PassKnows
  <1>2. CASE PeriodicSnapshot(Runtime)
    BY <1>2, DrawKeeps DEF PeriodicSnapshot, tables
  <1>3. CASE BeginBundles(Runtime)
    <2>1. /\ pc[Runtime] = "wantBundle" /\ pc'[Runtime] = "bundle"
          /\ UNCHANGED <<run, req, published, copy, nextSnap, sel, sid>>
      BY <1>3, SnapTypes DEF BeginBundles, Acquire, Goto, tables, files, locals
    <2>2. PassKnows'
      BY <2>1 DEF SnapInv, PassKnows, HoldsClaim
    <2>. QED
      BY <2>1, <2>2, SameSnaps, SnapTypes
  <1>4. ASSUME NEW r \in Runs, Protect(Runtime, r) PROVE SnapInv'
    BY <1>4, NameKeeps DEF Protect, Unprotected, StillPreparing, files, locals
  <1>5. ASSUME NEW r \in Runs, MarkPending(Runtime, r) PROVE SnapInv'
    BY <1>5, NameKeeps DEF MarkPending, Bundling, StillPreparing, files, locals
  <1>. QED
    BY <1>1, <1>2, <1>3, <1>4, <1>5, SelectKeeps, CopyKeeps, PublishKeeps, PruneKeeps DEF SnapWrite

LEMMA InitSnaps ==
    ASSUME Init
    PROVE  SnapInv
  <1>1. PassKnows
    BY Processes DEF Init, StoreInit, PassKnows
  <1>2. \A r \in Runs : RowKept(r)
    BY DEF Init, StoreInit, RowKept, Open
  <1>3. \A s \in published : s < nextSnap
    BY DEF Init, StoreInit
  <1>. QED
    BY <1>1, <1>2, <1>3 DEF SnapInv

LEMMA SnapInvariant ==
    ASSUME ByItself
    PROVE  Spec => []SnapInv
  <1>1. Init => SnapInv
    BY InitSnaps
  <1>2. ResultInv /\ SnapInv /\ [Next]_vars => SnapInv'
    BY NextPasses, UnseenKeeps, SnapWriteKeeps
  <1>. QED
    BY <1>1, <1>2, ResultInvariant, PTL DEF Spec

EvidenceKept ==
    \A r \in Runs : req[r].state = "PENDING" =>
        req[r].snap \in published /\ HoldsClaim(req[r].snap, r)

\* Left to itself, the code never deletes the snapshot of a request that may be
\* dispatched, nor hands one out that does not hold its claim, as long as nobody
\* has ended the claim: whatever is killed, and however often.
THEOREM EvidenceIsKept ==
    ASSUME Manuals = {}, Operators = {}
    PROVE  Spec => []EvidenceKept
  <1>1. ByItself
    BY DEF ByItself
  <1>2. ResultInv /\ SnapInv => EvidenceKept
    BY SnapTypes DEF SnapInv, RowKept, EvidenceKept, Open
  <1>. QED
    BY <1>1, <1>2, ResultInvariant, SnapInvariant, PTL

-----------------------------------------------------------------------------
(* Evidence of a claim that was ended.  A request never opens again, but a  *)
(* retirement that is cut short leaves one open whose run it has ended, and *)
(* a later pass would prepare it from a snapshot that says so.              *)

RetirementsComplete ==
    \A r \in Runs :
        run[r] = RetiredRun /\ req[r].state = "PREPARING" => pc[Runtime] = "retireRuns"

\* Why a run whose request is still being prepared may have ended.
ClaimFate(r) ==
    req[r].state = "PREPARING" =>
        run[r].status = "SCHEDULED" \/ run[r] = RetiredRun \/ r \in NoEvidence

Gating == {"select", "wantSnap", "protect", "wantBundle", "bundle"}

\* Past its gate a pass works on no claim that the gate ends.
PassGated ==
    /\ pc[Runtime] = "idle" => sel[Runtime] = {}
    /\ pc[Runtime] = "select" => \A r \in NoEvidence : req[r].state # "PREPARING"
    /\ pc[Runtime] \in Gating => \A r \in sel[Runtime] \cap NoEvidence : req[r].state # "PREPARING"

GateInv == SnapInv /\ EvidencePresent /\ PassGated /\ \A r \in Runs : ClaimFate(r)

LEMMA UntouchedFate ==
    ASSUME NEW q \in Runs, ClaimFate(q), run'[q] = run[q],
           req'[q].state = "PREPARING" => req[q].state = "PREPARING"
    PROVE  ClaimFate(q)'
  BY DEF ClaimFate

\* What ends the run of a claim is the gate or a retirement: an executor works
\* on a PENDING request, an ingest on the run of a result.
LEMMA FateStep ==
    ASSUME ResultInv, [Next]_vars, NEW q \in Runs, ClaimFate(q)
    PROVE  ClaimFate(q)'
  <1>. TypeInv /\ Consistent(q) /\ Consistent(q)'
    BY ResultTypes, NextRows
  <1>1. CASE UNCHANGED store
    BY <1>1, UntouchedFate DEF store
  <1>2. ASSUME NEW p \in Procs, NEW r \in Runs, PrepareWrite(p, r) PROVE ClaimFate(q)'
    <2>1. CASE Claim(r) \/ ManualClaim(p, r)
      <3>1. PICK status, code : ClaimRun(r, status, code) /\ UNCHANGED req
        BY <2>1 DEF Claim, ManualClaim
      <3>2. req[r].state = "NONE"
        BY <3>1, ResultTypes DEF ClaimRun, Consistent
      <3>. QED
        BY <3>1, <3>2, WrittenRun DEF ClaimFate
    <2>2. CASE GateRun(r)
      <3>1. UpdateRun(r, "FAILED", "INSUFFICIENT") /\ r \in NoEvidence /\ UNCHANGED req
        BY <2>2 DEF GateRun, Blocked
      <3>. QED
        BY <3>1, WrittenRun DEF ClaimFate
    <2>3. CASE RecordRequest(p, r)
      <3>1. Upsert(r, "PREPARING", NoSnap) /\ run[r].status = "SCHEDULED" /\ UNCHANGED run
        BY <2>3 DEF RecordRequest, Unrecorded
      <3>. QED
        BY <3>1, WrittenRequest DEF ClaimFate
    <2>4. CASE Protect(p, r) \/ MarkPending(p, r) \/ GateRequest(r)
      <3>1. PICK state, snap : /\ Upsert(r, state, snap) /\ UNCHANGED run
                               /\ state = "PREPARING" => req[r].state = "PREPARING"
        BY <2>4 DEF Protect, Unprotected, StillPreparing, MarkPending, GateRequest
      <3>. QED
        BY <3>1, WrittenRequest DEF ClaimFate
    <2>5. CASE PublishBundle(p, r)
      BY <2>5, UntouchedFate DEF PublishBundle, tables
    <2>. QED
      BY <1>2, <2>1, <2>2, <2>3, <2>4, <2>5 DEF PrepareWrite
  <1>3. ASSUME NEW p \in Procs, NEW r \in Runs, ExecuteWrite(p, r) PROVE ClaimFate(q)'
    <2>1. CASE RefuseRun(p, r)
      <3>1. UpdateRun(r, "FAILED", "REFUSED") /\ req[r].state = "PENDING" /\ UNCHANGED req
        BY <2>1 DEF RefuseRun
      <3>. QED
        BY <3>1, WrittenRun DEF ClaimFate
    <2>2. CASE StartRun(p, r)
      <3>1. UpdateRun(r, "RUNNING", "NONE") /\ UNCHANGED req
        BY <2>2 DEF StartRun
      <3>. QED
        BY <3>1, WrittenRun DEF ClaimFate, Consistent, Executed, Live
    <2>3. CASE EndRun(p, r)
      <3>1. PICK status, code : UpdateRun(r, status, code) /\ run[r].status = "RUNNING"
                                /\ UNCHANGED req
        BY <2>3 DEF EndRun
      <3>. QED
        BY <3>1, WrittenRun DEF ClaimFate, Consistent, Executed, Live
    <2>4. CASE RefuseRequest(p, r) \/ Complete(p, r)
      <3>1. PICK state, snap : /\ Upsert(r, state, snap) /\ UNCHANGED run
                               /\ state \in {"NOT_EXECUTABLE", "COMPLETED"}
        BY <2>4 DEF RefuseRequest, Complete
      <3>. QED
        BY <3>1, WrittenRequest DEF ClaimFate
    <2>5. CASE (\E status \in Outcomes : WfPublish(p, r, status)) \/ InstallArtifacts(p, r)
               \/ RecordResult(p, r)
      BY <2>5, UntouchedFate DEF WfPublish, InstallArtifacts, RecordResult, tables
    <2>. QED
      BY <1>3, <2>1, <2>2, <2>3, <2>4, <2>5 DEF ExecuteWrite
  <1>4. ASSUME NEW p \in Procs, NEW r \in Runs, CloseWrite(p, r) PROVE ClaimFate(q)'
    <2>1. CASE RetireRun(p, r)
      <3>1. UNCHANGED req /\ run'[r] = RetiredRun /\ \A x \in Runs \ {r} : run'[x] = run[x]
        BY <2>1, RunRows DEF RetireRun, UpdateRun, RetiredRun
      <3>. QED
        BY <3>1 DEF ClaimFate
    <2>2. CASE RetireRequests(p)
      <3>1. UNCHANGED run /\ (req'[q] = req[q] \/ req'[q].state = "RETIRED_OBSOLETE")
        BY <2>2, RunRows DEF RetireRequests, ReqRow
      <3>. QED
        BY <3>1, UntouchedFate
    <2>3. CASE Reinstate(p, r)
      <3>1. UNCHANGED req /\ run'[r].status = "SCHEDULED" /\ \A x \in Runs \ {r} : run'[x] = run[x]
        BY <2>3, RunRows DEF Reinstate, ReinstateRun
      <3>. QED
        BY <3>1 DEF ClaimFate
    <2>4. CASE Reopen(p, r)
      <3>1. Upsert(r, "PENDING", req[r].snap) /\ UNCHANGED run
        BY <2>4 DEF Reopen
      <3>. QED
        BY <3>1, WrittenRequest DEF ClaimFate
    <2>. QED
      BY <1>4, <2>1, <2>2, <2>3, <2>4 DEF CloseWrite
  <1>. QED
    BY <1>1, <1>2, <1>3, <1>4, NextWritten DEF Written

LEMMA UnseenGated ==
    ASSUME GateInv, ResultInv, Unseen
    PROVE  PassGated'
  <1>1. CASE pc'[Runtime] \in Gating
    <2>1. /\ pc'[Runtime] = pc[Runtime] /\ sel'[Runtime] = sel[Runtime]
          /\ \A r \in Runs : req'[r].state \in Open => req'[r] = req[r]
      BY <1>1 DEF Unseen, PassRests, RowsFade, Unwatched, Snapping, Gating
    <2>. QED
      BY <1>1, <2>1, SnapTypes, StoreAssumption DEF GateInv, PassGated, Open, Gating
  <1>2. CASE pc'[Runtime] \notin Gating
    BY <1>2 DEF Unseen, PassRests, Unwatched, GateInv, PassGated, Gating
  <1>. QED
    BY <1>1, <1>2

LEMMA SnapWriteGated ==
    ASSUME ByItself, GateInv, ResultInv, SnapWrite
    PROVE  PassGated'
  <1>1. CASE GateDone
    <2>1. Blocked = {} /\ pc'[Runtime] = "select" /\ UNCHANGED req
      BY <1>1, SnapTypes DEF GateDone, Goto, tables
    <2>. QED
      BY <2>1, StoreAssumption DEF Blocked, PassGated
  <1>2. CASE SelectClaims(Runtime)
    <2>1. /\ pc[Runtime] = "select" /\ pc'[Runtime] \in {"wantSnap", "wantBundle"}
          /\ UNCHANGED req
      BY <1>2, SnapTypes DEF SelectClaims, DrawSnapshot, Goto, tables
    <2>. QED
      BY <2>1 DEF GateInv, PassGated
  <1>3. CASE PeriodicSnapshot(Runtime)
    <2>1. pc[Runtime] = "idle" /\ pc'[Runtime] = "wantSnap" /\ sel'[Runtime] = sel[Runtime]
      BY <1>3, SnapTypes DEF PeriodicSnapshot, DrawSnapshot, Goto
    <2>. QED
      BY <2>1 DEF GateInv, PassGated
  <1>4. CASE CopyWarehouse(Runtime) \/ PublishSnapshot(Runtime) \/ BeginBundles(Runtime)
    <2>1. /\ pc[Runtime] \in Gating /\ pc'[Runtime] \in Labels \ {"idle", "select"}
          /\ sel' = sel /\ req' = req
      BY <1>4, SnapTypes DEF CopyWarehouse, PublishSnapshot, BeginBundles, Acquire, Goto, tables,
                             locals, Gating, Labels
    <2>. QED
      BY <2>1 DEF GateInv, PassGated
  <1>5. CASE BeginPrune(Runtime) \/ PruneOne(Runtime)
    <2>1. pc'[Runtime] = "prune"
      BY <1>5, SnapTypes DEF BeginPrune, PruneOne, Acquire, Goto
    <2>. QED
      BY <2>1 DEF PassGated, Gating
  <1>6. ASSUME NEW r \in Runs, Protect(Runtime, r) \/ MarkPending(Runtime, r) PROVE PassGated'
    <2>1. PICK state : /\ Upsert(r, state, sid[Runtime]) /\ req[r].state = "PREPARING"
                       /\ pc[Runtime] \in {"protect", "bundle"} /\ UNCHANGED <<pc, sel>>
      BY <1>6 DEF Protect, Unprotected, MarkPending, Bundling, StillPreparing, locals
    <2>2. \A q \in Runs : req'[q].state = "PREPARING" => req[q].state = "PREPARING"
      BY <2>1, SnapTypes DEF Upsert
    <2>. QED
      BY <2>1, <2>2, StoreAssumption DEF GateInv, PassGated, Gating
  <1>. QED
    BY <1>1, <1>2, <1>3, <1>4, <1>5, <1>6 DEF SnapWrite

\* The claim a pass hands out is still SCHEDULED, and so is its copy.
LEMMA MarkPresent ==
    ASSUME GateInv, ResultInv, RetirementsComplete, NEW r \in Runs, MarkPending(Runtime, r)
    PROVE  copy[sid[Runtime]].run[r].status = "SCHEDULED"
  <1>1. pc[Runtime] = "bundle" /\ r \in sel[Runtime] /\ req[r].state = "PREPARING"
    BY DEF MarkPending, Bundling, StillPreparing
  <1>2. r \notin NoEvidence
    BY <1>1 DEF GateInv, PassGated, Gating
  <1>3. run[r].status = "SCHEDULED"
    BY <1>1, <1>2 DEF GateInv, ClaimFate, RetirementsComplete
  <1>. QED
    BY <1>1, <1>3 DEF GateInv, SnapInv, PassKnows, HoldsClaim

LEMMA PresentStep ==
    ASSUME ByItself, GateInv, SnapInv', ResultInv, RetirementsComplete, Unseen \/ SnapWrite
    PROVE  EvidencePresent'
  <1>1. ASSUME NEW r \in Runs, req'[r].state = "PENDING" PROVE req'[r].snap \in published'
    BY <1>1 DEF SnapInv, RowKept
  <1>2. ASSUME NEW r \in Runs, req'[r].state = "PENDING"
        PROVE  copy'[req'[r].snap].run[r].status = "SCHEDULED"
    <2>1. CASE Unseen
      BY <1>2, <2>1 DEF Unseen, RowsFade, GateInv, EvidencePresent, Open
    <2>2. CASE CopyWarehouse(Runtime)
      <3>1. pc[Runtime] = "wantSnap" /\ UNCHANGED req
        BY <2>2 DEF CopyWarehouse, Acquire, tables
      <3>2. req[r].snap # sid[Runtime] /\ req[r].snap \in Snaps
        BY <1>2, <3>1, SnapTypes DEF GateInv, SnapInv, RowKept, PassKnows, Unused, Open
      <3>3. copy'[req[r].snap] = copy[req[r].snap]
        BY <2>2, <3>2, SnapTypes DEF CopyWarehouse
      <3>. QED
        BY <1>2, <3>1, <3>3 DEF GateInv, EvidencePresent
    <2>3. ASSUME NEW q \in Runs, Protect(Runtime, q) \/ MarkPending(Runtime, q)
          PROVE  copy'[req'[r].snap].run[r].status = "SCHEDULED"
      <3>1. UNCHANGED copy /\ \E state : Upsert(q, state, sid[Runtime])
        BY <2>3 DEF Protect, MarkPending, files
      <3>2. CASE q # r
        BY <1>2, <3>1, <3>2, SnapTypes DEF Upsert, GateInv, EvidencePresent
      <3>3. CASE q = r
        <4>1. MarkPending(Runtime, r)
          BY <1>2, <2>3, <3>3, SnapTypes DEF Protect, Upsert
        <4>2. req'[r].snap = sid[Runtime]
          BY <4>1, SnapTypes DEF MarkPending, Upsert
        <4>. QED
          BY <3>1, <4>1, <4>2, MarkPresent
      <3>. QED
        BY <3>2, <3>3
    <2>4. CASE GateDone \/ SelectClaims(Runtime) \/ PeriodicSnapshot(Runtime)
               \/ PublishSnapshot(Runtime) \/ BeginBundles(Runtime) \/ BeginPrune(Runtime)
               \/ PruneOne(Runtime)
      <3>1. UNCHANGED <<req, copy>>
        BY <2>4 DEF GateDone, SelectClaims, PeriodicSnapshot, PublishSnapshot, BeginBundles,
                    BeginPrune, PruneOne, tables, files
      <3>. QED
        BY <1>2, <3>1 DEF GateInv, EvidencePresent
    <2>. QED
      BY <2>1, <2>2, <2>3, <2>4 DEF SnapWrite
  <1>. QED
    BY <1>1, <1>2 DEF EvidencePresent

\* Left to itself, the code dispatches no request without its evidence: the
\* snapshot is published and holds the claim as it was made, whatever is killed
\* and however often, except a retirement between the runs it ends and their
\* requests.  (A pass that follows one takes such a request for a claim.)
THEOREM EvidenceIsPresent ==
    ASSUME Manuals = {}, Operators = {}
    PROVE  Spec /\ []RetirementsComplete => []EvidencePresent
  <1>. ByItself
    BY DEF ByItself
  <1>1. Init => GateInv
    <2>1. Init => EvidencePresent /\ PassGated /\ \A r \in Runs : ClaimFate(r)
      BY Processes DEF Init, StoreInit, EvidencePresent, PassGated, Gating, ClaimFate
    <2>. QED
      BY <2>1, InitSnaps DEF GateInv
  <1>2. ResultInv /\ GateInv /\ RetirementsComplete /\ [Next]_vars => GateInv'
    <2>. SUFFICES ASSUME ResultInv, GateInv, RetirementsComplete, [Next]_vars PROVE GateInv'
      OBVIOUS
    <2>1. SnapInv' /\ PassGated'
      BY NextPasses, UnseenKeeps, SnapWriteKeeps, UnseenGated, SnapWriteGated DEF GateInv
    <2>2. EvidencePresent'
      BY <2>1, NextPasses, PresentStep
    <2>3. \A r \in Runs : ClaimFate(r)'
      BY FateStep DEF GateInv
    <2>. QED
      BY <2>1, <2>2, <2>3 DEF GateInv
  <1>3. GateInv => EvidencePresent
    BY DEF GateInv
  <1>. QED
    BY <1>1, <1>2, <1>3, ResultInvariant, PTL DEF Spec
=============================================================================
