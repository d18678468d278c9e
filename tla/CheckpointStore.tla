-------------------------- MODULE CheckpointStore --------------------------
(***************************************************************************)
(* The durable state every process of the checkpoint pipeline shares on    *)
(* the Wizard host, and the single-row writes it is changed by:            *)
(*   - prediction_runs and its transition table (orchestration/run_store), *)
(*   - remote_checkpoint_requests (platform/checkpoint_prepare),           *)
(*   - the immutable warehouse snapshots and request/result bundles,       *)
(*   - the audit and result tables, and the advisory writer lock.          *)
(* One process step performs at most one durable write, because a process  *)
(* may be killed between any two of them, even under the writer lock.      *)
(***************************************************************************)
EXTENDS Naturals, FiniteSets

CONSTANTS
    Runs,         \* run identities, numbered in _PREPARING_ORDER
    ManualRuns,   \* the MANUAL identities among them
    NoEvidence,   \* official runs whose cutoff lacks fresh evidence
    Unexecutable, \* runs the executor refuses for a scientific reason
    Pinned,       \* runs of KNOWN_FALSE_REFUSALS, falsely refused at start
    Backlog,      \* runs prepared before automatic retirement took effect
    Outcomes,     \* terminal statuses an executed run may carry
    MaxSnaps,     \* bound: snapshot ids that may ever be drawn
    MaxKills,     \* bound: processes killed in a behaviour
    Runtime,      \* the systemd runtime and its preparation worker
    Manuals,      \* operator shells running `checkpoint manual`
    Operators,    \* operator shells running snapshot/retire/repair commands
    Workflows,    \* checkpoint-execute workflow runs on GitHub
    Ingesters,    \* `result-ingest` commands on the Wizard
    NoProc        \* the writer lock is free

Procs == {Runtime} \cup Manuals \cup Operators \cup Workflows \cup Ingesters
Snaps == 1..MaxSnaps
NoSnap == 0

ASSUME StoreAssumption ==
    /\ Runs \subseteq Nat /\ IsFiniteSet(Runs)
    /\ ManualRuns \subseteq Runs
    /\ NoEvidence \subseteq Runs \ ManualRuns
    /\ Unexecutable \subseteq Runs /\ Pinned \subseteq Runs /\ Backlog \subseteq Runs
    /\ MaxSnaps \in Nat \ {0} /\ MaxKills \in Nat
    /\ NoProc \notin Procs

ASSUME OutcomesAssumption == Outcomes \subseteq {"SUCCESS", "PARTIAL", "DATA_HOLD", "FAILED"}

VARIABLES
    lock,       \* holder of writer.lock, or NoProc
    when,       \* where the wall clock stands relative to each run
    run,        \* prediction_runs: status and failure code
    req,        \* remote_checkpoint_requests: state and snapshot id
    bundle,     \* published request bundle: the snapshot it names
    published,  \* snapshot directories visible under snapshots/
    copy,       \* the tables as each snapshot id copied them
    nextSnap,   \* next snapshot id (its timestamp orders it)
    upload,     \* a result upload staged under publications/_incoming
    result,     \* published result bundle: terminal status and snapshot
    artifacts,  \* runs with rows in the artifact tables
    results,    \* remote_checkpoint_results: status per run, or NONE
    retired,    \* remote_checkpoint_retirements: prior request state, or NONE
    repaired,   \* remote_checkpoint_remediations
    kills,      \* processes killed so far
    pc,         \* control state of each process
    sel,        \* runs the process selected (stale once unlocked)
    sid,        \* snapshot id the process works with
    budget,     \* claims left in the pass
    excl,       \* slots deferred for the pass
    prot        \* protected snapshot ids as last computed

clockVars == <<when, kills>>
tables == <<run, req, artifacts, results, retired, repaired>>
files == <<bundle, published, copy, nextSnap, upload, result>>
locals == <<sel, sid, budget, excl, prot>>
vars == <<lock, when, run, req, bundle, published, copy, nextSnap, upload, result,
          artifacts, results, retired, repaired, kills, pc, sel, sid, budget, excl, prot>>

Phases == {"early", "due", "past", "expired"}
Terminal == {"SUCCESS", "PARTIAL", "DATA_HOLD", "FAILED"}
Statuses == {"NONE", "SCHEDULED", "RUNNING"} \cup Terminal
Codes == {"NONE", "MISSED", "INSUFFICIENT", "REFUSED", "FALSE_REFUSAL", "RETIRED", "EXECUTION"}
RunRow == [status : Statuses, code : Codes]

States == {"NONE", "PREPARING", "PENDING", "COMPLETED", "NOT_EXECUTABLE", "RETIRED_OBSOLETE"}
ReqRow == [state : States, snap : Snaps \cup {NoSnap}]
Open == {"PREPARING", "PENDING"}                  \* _RETIRABLE_STATES
\* Mutant: a dispatched request does not keep its snapshot.
OnlyPreparing == {"PREPARING"}
Protecting == {"PREPARING", "PENDING"}            \* SNAPSHOT_PROTECTING_STATES

ResultRow == [status : Terminal \cup {"NONE"}, snap : Snaps \cup {NoSnap}]
NoResult == [status |-> "NONE", snap |-> NoSnap]

\* The warehouse tables a snapshot copies.
Tables == [run |-> run, req |-> req, artifacts |-> artifacts, results |-> results,
           retired |-> retired, repaired |-> repaired]
CopyRow == [run : [Runs -> RunRow], req : [Runs -> ReqRow], artifacts : SUBSET Runs,
            results : [Runs -> Terminal \cup {"NONE"}], retired : [Runs -> States],
            repaired : SUBSET Runs]

Labels == {"idle", "claim", "record", "gate", "select", "wantSnap", "protect", "wantBundle",
           "bundle", "wantPrune", "prune", "cliRead", "cliPrune", "retireLog", "retireRuns",
           "reviewed", "repair", "wfDownload", "wfVerify", "wfStage", "wfPublish", "wfIngest",
           "refuse", "refuseHold", "wantIngest", "runStatus", "complete", "resultRow"}

-----------------------------------------------------------------------------
(* run_store: the only way a claimed run's status changes. *)

AllowedTransitions ==
    [s \in Statuses |->
        CASE s = "SCHEDULED" -> {"RUNNING", "FAILED"}
          [] s = "RUNNING"   -> Terminal
          [] OTHER           -> {}]

\* update_run_status: refuse an illegal transition, keep the old code if none is given.
UpdateRun(r, status, code) ==
    /\ status \in AllowedTransitions[run[r].status]
    /\ run' = [run EXCEPT ![r] = [status |-> status,
                                  code   |-> IF code = "NONE" THEN @.code ELSE code]]

\* claim_checkpoint: insert if no row of this identity exists.
ClaimRun(r, status, code) ==
    /\ run[r].status = "NONE"
    /\ run' = [run EXCEPT ![r] = [status |-> status, code |-> code]]

\* Mutant: any failure is undone.
ReinstateAnyFailure(r) ==
    /\ run[r].status = "FAILED"
    /\ run' = [run EXCEPT ![r] = [status |-> "SCHEDULED", code |-> "NONE"]]

\* reinstate_falsely_refused_run: the one way out of a terminal status.
ReinstateRun(r) ==
    /\ run[r] = [status |-> "FAILED", code |-> "FALSE_REFUSAL"]
    /\ run' = [run EXCEPT ![r] = [status |-> "SCHEDULED", code |-> "NONE"]]

-----------------------------------------------------------------------------
(* The request table and the snapshot catalogue. *)

Upsert(r, state, snap) == req' = [req EXCEPT ![r] = [state |-> state, snap |-> snap]]

\* protected_snapshot_ids_in
ProtectedIn(rows) ==
    {rows[r].snap : r \in {q \in Runs : \/ rows[q].state \in Protecting
                                        \/ rows[q].state = "NOT_EXECUTABLE" /\ q \in Pinned}}
        \ {NoSnap}

\* The run a list sorted by _PREPARING_ORDER has first.
Earliest(S) == CHOOSE r \in S : \A q \in S : r <= q

IsLatest(s) == s \in published /\ \A t \in published : t <= s

\* plan_prune: every unprotected snapshot except the newest `keep`.
Doomed(protected, keep) ==
    {s \in published \ protected :
        Cardinality({t \in published \ protected : t > s}) >= keep}

-----------------------------------------------------------------------------
(* Control: the writer lock and the end of a process's work. *)

Goto(p, label) == pc' = [pc EXCEPT ![p] = label]

\* WriterLock.acquire: granted only while nobody holds it.
Acquire(p, from, to) ==
    /\ pc[p] = from /\ lock = NoProc
    /\ lock' = p
    /\ Goto(p, to)

\* The process goes on to `label` holding neither the lock nor anything it read.
Leave(p, label) ==
    /\ Goto(p, label)
    /\ lock' = IF lock = p THEN NoProc ELSE lock
    /\ sel' = [sel EXCEPT ![p] = {}]
    /\ sid' = [sid EXCEPT ![p] = NoSnap]
    /\ budget' = [budget EXCEPT ![p] = 0]
    /\ excl' = [excl EXCEPT ![p] = {}]
    /\ prot' = [prot EXCEPT ![p] = {}]

\* The command returns, or an exception ends it.
Finish(p) == Leave(p, "idle")

\* A kill, or a writer-lock timeout: the kernel frees the lock of a dead process.
Kill(p) ==
    /\ pc[p] # "idle" /\ kills < MaxKills
    /\ Finish(p)
    /\ kills' = kills + 1
    /\ UNCHANGED <<when, tables, files>>

\* The wall clock passes scheduled_as_of, kickoff, kickoff + EXECUTION_HORIZON.
Later == [early |-> "due", due |-> "past", past |-> "expired"]
Advance(r) ==
    /\ when[r] # "expired"
    /\ when' = [when EXCEPT ![r] = Later[@]]
    /\ UNCHANGED <<lock, tables, files, kills, pc, locals>>

\* A pinned run was refused before the start: bundle and snapshot exist.
StoreInit ==
    /\ lock = NoProc
    /\ when = [r \in Runs |-> IF r \in ManualRuns \cup Pinned THEN "past" ELSE "early"]
    /\ run = [r \in Runs |-> IF r \in Pinned
                             THEN [status |-> "FAILED", code |-> "FALSE_REFUSAL"]
                             ELSE [status |-> "NONE", code |-> "NONE"]]
    /\ req = [r \in Runs |-> IF r \in Pinned
                             THEN [state |-> "NOT_EXECUTABLE", snap |-> 1]
                             ELSE [state |-> "NONE", snap |-> NoSnap]]
    /\ bundle = [r \in Runs |-> IF r \in Pinned THEN 1 ELSE NoSnap]
    /\ published = IF Pinned = {} THEN {} ELSE {1}
    /\ copy = [s \in Snaps |->
                [run |-> [r \in Runs |-> [status |-> IF r \in Pinned THEN "SCHEDULED" ELSE "NONE",
                                          code |-> "NONE"]],
                 req |-> [r \in Runs |-> [state |-> IF r \in Pinned THEN "PREPARING" ELSE "NONE",
                                          snap |-> NoSnap]],
                 artifacts |-> {}, results |-> [r \in Runs |-> "NONE"],
                 retired |-> [r \in Runs |-> "NONE"], repaired |-> {}]]
    /\ nextSnap = IF Pinned = {} THEN 1 ELSE 2
    /\ upload = [r \in Runs |-> FALSE]
    /\ result = [r \in Runs |-> NoResult]
    /\ artifacts = {} /\ repaired = {}
    /\ results = [r \in Runs |-> "NONE"]
    /\ retired = [r \in Runs |-> "NONE"]
    /\ kills = 0
    /\ pc = [p \in Procs |-> "idle"]
    /\ sel = [p \in Procs |-> {}]
    /\ sid = [p \in Procs |-> NoSnap]
    /\ budget = [p \in Procs |-> 0]
    /\ excl = [p \in Procs |-> {}]
    /\ prot = [p \in Procs |-> {}]

\* Every variable holds a value of the row, set or control type the code keeps.
TypeOK ==
    /\ lock \in Procs \cup {NoProc}
    /\ when \in [Runs -> Phases]
    /\ run \in [Runs -> RunRow]
    /\ req \in [Runs -> ReqRow]
    /\ bundle \in [Runs -> Snaps \cup {NoSnap}]
    /\ published \subseteq Snaps
    /\ copy \in [Snaps -> CopyRow]
    /\ nextSnap \in 1..(MaxSnaps + 1)
    /\ upload \in [Runs -> BOOLEAN]
    /\ result \in [Runs -> ResultRow]
    /\ artifacts \subseteq Runs /\ repaired \subseteq Runs
    /\ results \in [Runs -> Terminal \cup {"NONE"}]
    /\ retired \in [Runs -> States]
    /\ kills \in Nat
    /\ pc \in [Procs -> Labels]
    /\ sel \in [Procs -> SUBSET Runs]
    /\ sid \in [Procs -> Snaps \cup {NoSnap}]
    /\ budget \in [Procs -> Nat]
    /\ excl \in [Procs -> SUBSET Runs]
    /\ prot \in [Procs -> SUBSET Snaps]
=============================================================================
