-------------------------- MODULE RemoteExecution --------------------------
(***************************************************************************)
(* What happens to a prepared request: the checkpoint-execute workflow     *)
(* selects it, downloads and verifies the immutable pair, executes, and    *)
(* publishes a result bundle or records a scientific refusal; result       *)
(* ingest checks the bundle against the live request before it takes the   *)
(* writer lock and installs it one write at a time under the lock.         *)
(* (.github/workflows/checkpoint-execute.yml, platform/remote_checkpoint,  *)
(* platform/result_ingest.)                                                *)
(***************************************************************************)
EXTENDS CheckpointStore

\* executable_requests: PENDING and still past the evidence gate.
Executable(r) == req[r].state = "PENDING" /\ r \notin NoEvidence

\* The workflow's concurrency group runs one at a time.
WfSelect(p, r) ==
    /\ \A q \in Workflows : pc[q] = "idle"
    /\ Executable(r)
    /\ sel' = [sel EXCEPT ![p] = {r}]
    /\ sid' = [sid EXCEPT ![p] = req[r].snap]
    /\ Goto(p, IF result[r] = NoResult THEN "wfDownload" ELSE "wfIngest")
    /\ UNCHANGED <<lock, clockVars, tables, files, budget, excl, prot>>

\* select_request, as the schedule triggers it: kickoffs still ahead first.
Upcoming == {r \in Runs : Executable(r) /\ when[r] \in {"early", "due"}}
WfScheduled(p, r) ==
    /\ \/ r \in Upcoming /\ r = Earliest(Upcoming)
       \/ Upcoming = {} /\ \A q \in Runs : Executable(q) => r <= q
    /\ WfSelect(p, r)

Working(p, label, r) == pc[p] = label /\ sel[p] = {r}

\* verify_directory_against_manifest: the snapshot is there, file by file.
SnapshotVerified(p) == sid[p] \in published

\* load_verified_request: the bundle is that of the request, and names the snapshot.
RequestVerified(p, r) == bundle[r] = sid[p]

WfDownload(p, r) ==
    /\ Working(p, "wfDownload", r)
    /\ SnapshotVerified(p) /\ RequestVerified(p, r)
    /\ Goto(p, "wfVerify")
    /\ UNCHANGED <<lock, clockVars, tables, files, locals>>

\* An operational failure: recorded on GitHub, the request stays pending.
WfDownloadFails(p, r) ==
    /\ Working(p, "wfDownload", r)
    /\ ~SnapshotVerified(p) \/ ~RequestVerified(p, r)
    /\ Finish(p)
    /\ UNCHANGED <<clockVars, tables, files>>

\* Mutant: identity alone is verified.
VerifiesIdentity(r, s) == copy[s].run[r].status = "SCHEDULED"

\* verify_request_against_snapshot, on the downloaded copy.
Verifies(r, s) ==
    copy[s].run[r].status = "SCHEDULED" /\ r \notin Unexecutable \cup NoEvidence

WfVerify(p, r) ==
    /\ Working(p, "wfVerify", r)
    /\ Goto(p, IF Verifies(r, sid[p]) THEN "wfStage" ELSE "refuse")
    /\ UNCHANGED <<lock, clockVars, tables, files, locals>>

\* The executed result is copied to publications/_incoming.
WfStage(p, r) ==
    /\ Working(p, "wfStage", r)
    /\ upload' = [upload EXCEPT ![r] = TRUE]
    /\ Goto(p, "wfPublish")
    /\ UNCHANGED <<lock, clockVars, tables, bundle, published, copy, nextSnap, result, locals>>

\* bundle-publish: one atomic rename into the run's only result bundle.  Workflows
\* run one at a time, so there is no other result yet.
WfPublish(p, r, status) ==
    /\ Working(p, "wfPublish", r) /\ status \in Outcomes
    /\ result[r] = NoResult
    /\ result' = [result EXCEPT ![r] = [status |-> status, snap |-> sid[p]]]
    /\ upload' = [upload EXCEPT ![r] = FALSE]
    /\ Goto(p, "wfIngest")
    /\ UNCHANGED <<lock, clockVars, tables, bundle, published, copy, nextSnap, locals>>

-----------------------------------------------------------------------------
(* refuse_request, entirely under the writer lock. *)

BeginRefuse(p) ==
    /\ Acquire(p, "refuse", "refuseHold")
    /\ UNCHANGED <<clockVars, tables, files, locals>>

RefuseRun(p, r) ==
    /\ Working(p, "refuseHold", r)
    /\ req[r].state = "PENDING" /\ run[r].status = "SCHEDULED"
    /\ UpdateRun(r, "FAILED", "REFUSED")
    /\ UNCHANGED <<lock, clockVars, req, artifacts, results, retired, repaired, files, pc, locals>>

RefuseRequest(p, r) ==
    /\ Working(p, "refuseHold", r)
    /\ req[r].state = "PENDING" /\ run[r].status # "SCHEDULED"
    /\ Upsert(r, "NOT_EXECUTABLE", req[r].snap)
    /\ Finish(p)
    /\ UNCHANGED <<clockVars, run, artifacts, results, retired, repaired, files>>

\* Already refused, or no longer pending: nothing is changed.
RefuseNothing(p, r) ==
    /\ Working(p, "refuseHold", r)
    /\ req[r].state # "PENDING"
    /\ Finish(p)
    /\ UNCHANGED <<clockVars, tables, files>>

-----------------------------------------------------------------------------
(* ingest_result_bundle *)

\* Mutant: an ingest that was cut short is not resumed.
InstallableFresh(r) ==
    /\ result[r] # NoResult /\ results[r] = "NONE"
    /\ req[r].state \in {"PENDING", "COMPLETED"} /\ req[r].snap = result[r].snap
    /\ run[r].status = "SCHEDULED"

\* _existing_result and _check_live_request, read before the writer lock.
Installable(r) ==
    /\ result[r] # NoResult /\ results[r] = "NONE"
    /\ req[r].state \in {"PENDING", "COMPLETED"} /\ req[r].snap = result[r].snap
    /\ run[r].status \in {"SCHEDULED", "RUNNING", result[r].status}

IngestCheck(p, r) ==
    /\ \/ p \in Ingesters /\ pc[p] = "idle"
       \/ p \in Workflows /\ Working(p, "wfIngest", r)
    /\ Installable(r)
    /\ sel' = [sel EXCEPT ![p] = {r}]
    /\ sid' = [sid EXCEPT ![p] = req[r].snap]
    /\ Goto(p, "wantIngest")
    /\ UNCHANGED <<lock, clockVars, tables, files, budget, excl, prot>>

\* Already ingested, or refused: the workflow run ends.
WfIngestRefused(p, r) ==
    /\ Working(p, "wfIngest", r) /\ ~Installable(r)
    /\ Finish(p)
    /\ UNCHANGED <<clockVars, tables, files>>

\* RESULT_TABLES, first row per key wins; a FAILED run may carry none.
InstallArtifacts(p, r) ==
    /\ sel[p] = {r}
    /\ Acquire(p, "wantIngest", "runStatus")
    /\ \/ artifacts' = artifacts \cup {r}
       \/ result[r].status = "FAILED" /\ UNCHANGED artifacts
    /\ UNCHANGED <<clockVars, run, req, results, retired, repaired, files, locals>>

StartRun(p, r) ==
    /\ Working(p, "runStatus", r)
    /\ run[r].status = "SCHEDULED"
    /\ UpdateRun(r, "RUNNING", "NONE")
    /\ UNCHANGED <<lock, clockVars, req, artifacts, results, retired, repaired, files, pc, locals>>

EndRun(p, r) ==
    /\ Working(p, "runStatus", r)
    /\ run[r].status = "RUNNING"
    /\ UpdateRun(r, result[r].status,
                 IF result[r].status = "FAILED" THEN "EXECUTION" ELSE "NONE")
    /\ Goto(p, "complete")
    /\ UNCHANGED <<lock, clockVars, req, artifacts, results, retired, repaired, files, locals>>

\* Mutant: any terminal status passes for the bundle's.
RunEndedSomehow(p, r) ==
    /\ Working(p, "runStatus", r)
    /\ run[r].status \in Terminal
    /\ Goto(p, "complete")
    /\ UNCHANGED <<lock, clockVars, tables, files, locals>>

\* Resumed after a crash: the run already is what the bundle says.
RunEnded(p, r) ==
    /\ Working(p, "runStatus", r)
    /\ run[r].status = result[r].status
    /\ Goto(p, "complete")
    /\ UNCHANGED <<lock, clockVars, tables, files, locals>>

RunDisagrees(p, r) ==
    /\ Working(p, "runStatus", r)
    /\ run[r].status \notin {"SCHEDULED", "RUNNING", result[r].status}
    /\ Finish(p)
    /\ UNCHANGED <<clockVars, tables, files>>

\* The row read before the lock is written back as COMPLETED.
Complete(p, r) ==
    /\ Working(p, "complete", r)
    /\ Upsert(r, "COMPLETED", sid[p])
    /\ Goto(p, "resultRow")
    /\ UNCHANGED <<lock, clockVars, run, artifacts, results, retired, repaired, files, locals>>

\* Mutant: the request's state is written where the run's status belongs.
RecordRequestState(p, r) ==
    /\ Working(p, "resultRow", r)
    /\ results' = [results EXCEPT ![r] = IF @ = "NONE" THEN req[r].state ELSE @]
    /\ Finish(p)
    /\ UNCHANGED <<clockVars, run, req, artifacts, retired, repaired, files>>

RecordResult(p, r) ==
    /\ Working(p, "resultRow", r)
    /\ results' = [results EXCEPT ![r] = IF @ = "NONE" THEN result[r].status ELSE @]
    /\ Finish(p)
    /\ UNCHANGED <<clockVars, run, req, artifacts, retired, repaired, files>>

IngestStep(p, r) ==
    \/ InstallArtifacts(p, r) \/ StartRun(p, r) \/ EndRun(p, r) \/ RunEnded(p, r)
    \/ RunDisagrees(p, r) \/ Complete(p, r) \/ RecordResult(p, r)

WorkflowStep(p, r) ==
    \/ WfDownload(p, r) \/ WfDownloadFails(p, r) \/ WfVerify(p, r) \/ WfStage(p, r)
    \/ \E status \in Outcomes : WfPublish(p, r, status)
    \/ RefuseRun(p, r) \/ RefuseRequest(p, r) \/ RefuseNothing(p, r)
    \/ WfIngestRefused(p, r)

ExecutionNext ==
    \/ \E p \in Workflows, r \in Runs : WfSelect(p, r) \/ WorkflowStep(p, r)
    \/ \E p \in Workflows : BeginRefuse(p)
    \/ \E p \in Workflows \cup Ingesters, r \in Runs : IngestCheck(p, r) \/ IngestStep(p, r)
=============================================================================
