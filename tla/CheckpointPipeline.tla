------------------------- MODULE CheckpointPipeline -------------------------
(***************************************************************************)
(* The checkpoint pipeline: every process of the Wizard host and of GitHub *)
(* that touches a prediction run between its claim and its result, over    *)
(* one durable store, with the wall clock and a bounded number of kills.   *)
(***************************************************************************)
EXTENDS SnapshotRetention, RemoteExecution, RequestClosure

Init == StoreInit

\* What process p does next once it has begun something.
Continue(p) ==
    \/ p = Runtime /\ RuntimeStep
    \/ p \in Preparers /\ PrepareStep(p)
    \/ p \in Preparers \cup Operators /\ SnapshotStep(p)
    \/ p \in Pruners /\ (PruneStep(p) \/ RetireStep(p))
    \/ p \in Operators /\ (BeginStalePrune(p) \/ RepairStep(p))
    \/ p \in Workflows /\ (BeginRefuse(p) \/ \E r \in Runs : WorkflowStep(p, r))
    \/ p \in Workflows \cup Ingesters /\ \E r \in Runs : IngestStep(p, r)

Next ==
    \/ PrepareNext
    \/ RetentionNext
    \/ ExecutionNext
    \/ ClosureNext
    \/ \E r \in Runs : Advance(r)
    \/ \E p \in Procs : Kill(p)

Spec == Init /\ [][Next]_vars

\* The runtime's tick starts a pass and housekeeping again and again, an upload
\* left behind is a day old some day, the executor's schedule is on, and a
\* process that waits for the writer lock finds it free at one of its polls.
SweepAll == Housekeeping({r \in Runs : Abandoned(r)})
Fairness ==
    /\ \A p \in Procs : SF_vars(Continue(p))
    /\ SF_vars(BeginPass({})) /\ SF_vars(SweepAll)
    /\ \A p \in Workflows : SF_vars(\E r \in Runs : WfScheduled(p, r))
    /\ \A p \in Workflows : SF_vars(\E r \in Runs : IngestCheck(p, r))

FairSpec == Spec /\ Fairness

-----------------------------------------------------------------------------
(* Safety. *)

\* A request that may be dispatched still has its evidence: its snapshot is
\* published, and holds the run exactly as it was claimed, still SCHEDULED
\* (prune_snapshots, before_publish, verify_request_against_snapshot).
EvidencePresent ==
    \A r \in Runs : req[r].state = "PENDING" =>
        /\ req[r].snap \in published
        /\ copy[req[r].snap].run[r].status = "SCHEDULED"

\* Row, request bundle and result bundle of a run agree on one snapshot: no
\* pass, retry or race ever pairs a request with other evidence than the one
\* its result was computed from (_publish_request_bundle, ingest).
EvidenceChain ==
    \A r \in Runs :
        /\ req[r].state \in {"PENDING", "COMPLETED"} =>
              bundle[r] # NoSnap /\ req[r].snap = bundle[r]
        /\ result[r] # NoResult => result[r].snap = bundle[r]

\* The result table never disagrees with the run, its request or its bundle
\* (ingest_result_bundle, which writes them one at a time and may be killed).
ResultAgreement ==
    \A r \in Runs : results[r] # "NONE" =>
        /\ run[r].status = results[r] /\ result[r].status = results[r]
        /\ req[r].state = "COMPLETED"
        /\ results[r] # "FAILED" => r \in artifacts

\* Nothing the evidence gate blocks or the executor refuses is ever executed or
\* installed, even when a manual pass finishes a claim the gate has not seen.
RefusedNeverExecuted ==
    \A r \in NoEvidence \cup Unexecutable : result[r] = NoResult /\ r \notin artifacts

\* A retired run was audited first, and a run is retired only once expired
\* (_retire_locked appends the audit record before it fails any run).
RetirementAudited ==
    \A r \in Runs : run[r] = RetiredRun \/ req[r].state = "RETIRED_OBSOLETE" =>
        retired[r] \in Open /\ when[r] = "expired"

-----------------------------------------------------------------------------
(* What a step may never do. *)

\* A genuine refusal is never undone: the repair reinstates the pinned false
\* refusal only (reinstate_falsely_refused_run, repair_false_refusal).
RefusalIsFinal ==
    [][\A r \in Runs : run[r].code \in {"REFUSED", "INSUFFICIENT"} => run'[r] = run[r]]_vars

-----------------------------------------------------------------------------
(* What must happen. *)

\* A claim is prepared, or closed for good, whatever pass was cut short.
ClaimsAreFinished ==
    \A r \in Runs : run[r].status = "SCHEDULED" /\ req[r].state \in {"NONE", "PREPARING"}
                      ~> req[r].state \in States \ {"NONE", "PREPARING"}

\* A published result completes its request, unless its run was retired.
ResultsComplete ==
    \A r \in Runs : result[r] # NoResult ~> req[r].state = "COMPLETED" \/ retired[r] # "NONE"

-----------------------------------------------------------------------------
(* The lifecycle the request table promises. *)

\* A request's state is the stage of its run; until there is one, the run's status.
RequestStage == [PREPARING |-> "claimed", PENDING |-> "pending", COMPLETED |-> "completed",
                 NOT_EXECUTABLE |-> "refused", RETIRED_OBSOLETE |-> "retired"]
Stage(r) ==
    IF req[r].state # "NONE" THEN RequestStage[req[r].state]
    ELSE CASE run[r].status = "NONE"      -> "unclaimed"
           [] run[r].status = "SCHEDULED" -> "claimed"
           [] OTHER                       -> "missed"

Lifecycle == INSTANCE RequestLifecycle
                 WITH Reopenable <- Pinned, NoOutcome <- "NONE", NoBundle <- NoSnap,
                      stage <- [r \in Runs |-> Stage(r)],
                      evidence <- bundle, outcome <- results

\* The pipeline implements the lifecycle of RequestLifecycle.
KeepsLifecycle == Lifecycle!LifecycleSpec
=============================================================================
