--------------------------- MODULE RequestClosure ---------------------------
(***************************************************************************)
(* The two audited ways a request leaves its normal course: retirement of  *)
(* never-executed requests whose window has closed                         *)
(* (platform/request_retirement; automatically by the runtime's            *)
(* housekeeping, or by an operator who reviewed a dry run), and the repair *)
(* of a pinned false refusal (platform/refusal_repair).  Both write their  *)
(* audit record first and can be cut short between any two writes.         *)
(***************************************************************************)
EXTENDS CheckpointStore

Retirees == {Runtime} \cup Operators

RetiredRun == [status |-> "FAILED", code |-> "RETIRED"]     \* _interrupted_retirement
FalselyRefused == [status |-> "FAILED", code |-> "FALSE_REFUSAL"]

\* AUTOMATIC for requests prepared since it took effect, OPERATOR_BACKLOG before.
InMode(p) == IF p = Runtime THEN Runs \ Backlog ELSE Backlog

\* _dependency: the run never executed and no result exists or is on its way.
Independent(r, uploads) ==
    /\ run[r].status = "SCHEDULED" \/ run[r] = RetiredRun
    /\ ~uploads[r] /\ result[r] = NoResult
    /\ results[r] = "NONE" /\ r \notin artifacts

\* plan_retirement
Candidates(p, uploads) ==
    {r \in InMode(p) : /\ req[r].state \in Open
                       /\ when[r] = "expired"
                       /\ Independent(r, uploads)}

\* An upload whose workflow is gone; sweep_orphans removes it once a day old.
Abandoned(r) ==
    upload[r] /\ ~\E p \in Workflows : pc[p] = "wfPublish" /\ r \in sel[p]

\* _housekeeping under one lock: sweep, then retire what has expired.
Housekeeping(swept) ==
    /\ \A r \in swept : Abandoned(r)
    /\ upload' = [r \in Runs |-> upload[r] /\ r \notin swept]
    /\ pc[Runtime] = "idle" /\ lock = NoProc
    /\ LET plan == Candidates(Runtime, upload')
       IN \/ /\ plan # {} /\ lock' = Runtime
             /\ Goto(Runtime, "retireLog")
             /\ sel' = [sel EXCEPT ![Runtime] = plan]
             /\ UNCHANGED <<sid, budget, excl, prot>>
          \/ /\ plan = {}
             /\ Leave(Runtime, "wantPrune")
    /\ UNCHANGED <<clockVars, tables, bundle, published, copy, nextSnap, result>>

\* `checkpoint retire`: the dry run prints a set and its token, unlocked.
Review(p) ==
    /\ pc[p] = "idle" /\ Candidates(p, upload) # {}
    /\ sel' = [sel EXCEPT ![p] = Candidates(p, upload)]
    /\ Goto(p, "reviewed")
    /\ UNCHANGED <<lock, clockVars, tables, files, sid, budget, excl, prot>>

Apply(p) ==
    /\ Acquire(p, "reviewed", "retireLog")
    /\ sel[p] = Candidates(p, upload)
    /\ UNCHANGED <<clockVars, tables, files, locals>>

\* The token no longer matches; nothing is changed.
ApplyRefused(p) ==
    /\ pc[p] = "reviewed" /\ lock = NoProc
    /\ sel[p] # Candidates(p, upload)
    /\ Finish(p)
    /\ UNCHANGED <<clockVars, tables, files>>

\* Mutant: the runs are failed before anything is recorded.
RetireUnlogged(p) ==
    /\ pc[p] = "retireLog"
    /\ Goto(p, "retireRuns")
    /\ UNCHANGED <<lock, clockVars, tables, files, locals>>

\* One append; the first record of a request wins.
RetireLog(p) ==
    /\ pc[p] = "retireLog"
    /\ retired' = [r \in Runs |-> IF r \in sel[p] /\ retired[r] = "NONE"
                                  THEN req[r].state ELSE retired[r]]
    /\ Goto(p, "retireRuns")
    /\ UNCHANGED <<lock, clockVars, run, req, artifacts, results, repaired, files, locals>>

Unfailed(p) == {r \in sel[p] : run[r] # RetiredRun}

RetireRun(p, r) ==
    /\ pc[p] = "retireRuns" /\ r \in Unfailed(p) /\ r = Earliest(Unfailed(p))
    /\ UpdateRun(r, "FAILED", "RETIRED")
    /\ UNCHANGED <<lock, clockVars, req, artifacts, results, retired, repaired, files, pc, locals>>

RetireRequests(p) ==
    /\ pc[p] = "retireRuns" /\ Unfailed(p) = {}
    /\ req' = [r \in Runs |-> IF r \in sel[p] THEN [req[r] EXCEPT !.state = "RETIRED_OBSOLETE"]
                              ELSE req[r]]
    /\ Leave(p, "wantPrune")
    /\ UNCHANGED <<clockVars, run, artifacts, results, retired, repaired, files>>

-----------------------------------------------------------------------------
(* repair_false_refusal *)

\* _prove: guards 1-4, 6 and 7.
Provable(r) ==
    /\ r \in Pinned \ NoEvidence
    /\ req[r].state = "NOT_EXECUTABLE" /\ run[r] = FalselyRefused
    /\ bundle[r] = req[r].snap /\ req[r].snap \in published
    /\ copy[req[r].snap].run[r].status = "SCHEDULED"
    /\ result[r] = NoResult /\ results[r] = "NONE" /\ r \notin artifacts

BeginRepair(p, r) ==
    /\ Provable(r) /\ r \notin repaired
    /\ Acquire(p, "idle", "repair")
    /\ repaired' = repaired \cup {r}
    /\ sel' = [sel EXCEPT ![p] = {r}]
    /\ UNCHANGED <<clockVars, run, req, artifacts, results, retired, files,
                   sid, budget, excl, prot>>

\* A recorded repair is resumed only where it was interrupted.
ResumeRepair(p, r) ==
    /\ r \in repaired
    /\ Acquire(p, "idle", "repair")
    /\ sel' = [sel EXCEPT ![p] = {r}]
    /\ UNCHANGED <<clockVars, tables, files, sid, budget, excl, prot>>

Repairing(p, r) == pc[p] = "repair" /\ sel[p] = {r}
Reinstated(r) == run[r].status = "SCHEDULED" /\ req[r].state = "NOT_EXECUTABLE"

Reinstate(p, r) ==
    /\ Repairing(p, r)
    /\ ReinstateRun(r)
    /\ UNCHANGED <<lock, clockVars, req, artifacts, results, retired, repaired, files, pc, locals>>

Reopen(p, r) ==
    /\ Repairing(p, r) /\ Reinstated(r)
    /\ Upsert(r, "PENDING", req[r].snap)
    /\ Finish(p)
    /\ UNCHANGED <<clockVars, run, artifacts, results, retired, repaired, files>>

\* Anything later, a genuine refusal of the reopened request too, is final.
RepairNothing(p, r) ==
    /\ Repairing(p, r) /\ ~Reinstated(r) /\ run[r] # FalselyRefused
    /\ Finish(p)
    /\ UNCHANGED <<clockVars, tables, files>>

RetireStep(p) == RetireLog(p) \/ RetireRequests(p) \/ \E r \in Runs : RetireRun(p, r)
ReviewStep(p) == Review(p) \/ Apply(p) \/ ApplyRefused(p)
BeginRepairs(p) == \E r \in Runs : BeginRepair(p, r) \/ ResumeRepair(p, r)
RepairStep(p) == \E r \in Runs : Reinstate(p, r) \/ Reopen(p, r) \/ RepairNothing(p, r)

ClosureNext ==
    \/ \E swept \in SUBSET Runs : Housekeeping(swept)
    \/ \E p \in Retirees : RetireStep(p)
    \/ \E p \in Operators : ReviewStep(p) \/ BeginRepairs(p) \/ RepairStep(p)
=============================================================================
