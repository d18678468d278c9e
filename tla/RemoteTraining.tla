---------------------------- MODULE RemoteTraining ----------------------------
(***************************************************************************)
(* Remote training (platform/remote_training.py, platform/                 *)
(* data_snapshot.py, .github/workflows/remote-training.yml): a pinned data *)
(* snapshot is downloaded and verified, the calibration study or another   *)
(* entry point is run on it at a pinned commit, and a report says whether  *)
(* the result may be promoted.  The workflow does this on a fresh          *)
(* "runner"; the same commands run by hand on a "host" whose workspace     *)
(* and report outlive them.  The two share only the object store, which    *)
(* neither writes: one runs at a time.                                     *)
(*                                                                         *)
(* A digest is modelled by its shape and what it is taken of: that of a    *)
(* snapshot's manifest lists objects, that of a data root lists files, and *)
(* no digest is both.                                                      *)
(***************************************************************************)
EXTENDS StreamingStudy

CONSTANTS
    Requests,       \* [ref, data, mode, draws, entry, manifest]; draws: a number or none
    Commits,
    Objects, Contents,
    MaxTrainings, MaxFaults

\* A manifest lists objects with what each held when it was made.
ASSUME ManifestsAreOfObjects ==
    \A r \in Requests : \E O \in SUBSET Objects : r.manifest \in [O -> Contents]

Machines == {"runner", "host"}
FullDraws == 20000
MaxSmokeDraws == 2000

VARIABLES
    bucket,         \* object -> what the object store holds under its key
    head,           \* machine -> the commit that is checked out
    workspace,      \* machine -> file -> content, of the files that are there
    training,       \* machine -> the command under way, or Idle
    runReport,      \* machine -> the report file
    uploaded,       \* reports kept as workflow artifacts
    trainings, faults

trainingVars == <<bucket, head, workspace, training, runReport, uploaded, trainings, faults>>

NoRunReport == [exit |-> "none"]
Missing == "missing"
NoFiles == <<>>

TrainingInit ==
    /\ bucket \in [Objects -> Contents]
    /\ \E c \in Commits : head = [m \in Machines |-> c]
    /\ workspace = [m \in Machines |-> NoFiles]
    /\ training = [m \in Machines |-> Idle]
    /\ runReport = [m \in Machines |-> NoRunReport]
    /\ uploaded = {} /\ trainings = 0 /\ faults = 0

\* _canonical_manifest_sha256; compute_data_root_manifest_sha256
ManifestDigest(manifest) == <<"objects", manifest>>
RootDigest(files) == <<"files", files>>

\* RemoteTrainingRequest.from_inputs: a full commit and digest, a known mode.
\* n_draws: production has its own number, smoke at most the limit.
DrawsOf(r) ==
    IF r.mode = "production" THEN FullDraws
    ELSE IF r.draws = {} THEN MaxSmokeDraws ELSE Min(r.draws)
ValidRequest(r) ==
    /\ r.ref \in Commits
    /\ \A n \in r.draws : n > 0
    /\ r.mode = "smoke" => DrawsOf(r) <= MaxSmokeDraws

BucketChanges(o, c) ==
    /\ faults < MaxFaults /\ bucket[o] # c
    /\ faults' = faults + 1
    /\ bucket' = [bucket EXCEPT ![o] = c]
    /\ UNCHANGED <<head, workspace, training, runReport, uploaded, trainings>>

-----------------------------------------------------------------------------
(* prepare-data *)

Start(m, r, pc) ==
    /\ \A q \in Machines : training[q] = Idle
    /\ trainings < MaxTrainings
    /\ trainings' = trainings + 1
    /\ training' = [training EXCEPT ![m] = [pc |-> pc, request |-> r,
                                            todo |-> DOMAIN r.manifest, root |-> NoFiles]]

\* The workflow, on a fresh machine: the checkout must be the requested commit.
Dispatch(r, checkedOut) ==
    /\ r.ref \in Commits
    /\ Start("runner", r, IF checkedOut = r.ref THEN "verify" ELSE "output")
    /\ head' = [head EXCEPT !["runner"] = checkedOut]
    /\ UNCHANGED <<bucket, workspace, runReport, uploaded, faults>>

PrepareByHand(r) ==
    /\ Start("host", r, "verify")
    /\ UNCHANGED <<bucket, head, workspace, runReport, uploaded, faults>>

\* Where a command that ended, or failed, leaves its machine: the workflow
\* still uploads and cleans up.
Ended(m) == IF m = "runner" THEN [training[m] EXCEPT !.pc = "output"] ELSE Idle

\* verify_manifest_identity
VerifyManifest(m) ==
    /\ training[m].pc = "verify"
    /\ LET r == training[m].request
       IN training' = [training EXCEPT ![m] =
             IF r.data = ManifestDigest(r.manifest) THEN [@ EXCEPT !.pc = "download"]
             ELSE Ended(m)]
    /\ UNCHANGED <<bucket, head, workspace, runReport, uploaded, trainings, faults>>

\* The files of a workspace once one more is written.
Holding(files, name, content) ==
    [f \in DOMAIN files \cup {name} |-> IF f = name THEN content ELSE files[f]]

\* download_and_verify_snapshot: what fails verification is not written, what
\* was written before it stays.
Download(m, o) ==
    /\ training[m].pc = "download" /\ o \in training[m].todo
    /\ IF bucket[o] # training[m].request.manifest[o]
       THEN training' = [training EXCEPT ![m] = Ended(m)] /\ UNCHANGED workspace
       ELSE /\ workspace' = [workspace EXCEPT ![m] = Holding(@, o, bucket[o])]
            /\ training' = [training EXCEPT ![m].todo = @ \ {o}]
    /\ UNCHANGED <<bucket, head, runReport, uploaded, trainings, faults>>

\* The workflow goes on to run; by hand the snapshot is now there to be used.
SnapshotPrepared(m) ==
    /\ training[m].pc = "download" /\ training[m].todo = {}
    /\ training' = [training EXCEPT ![m] =
                       IF m = "runner" THEN [@ EXCEPT !.pc = "run"] ELSE Idle]
    /\ UNCHANGED <<bucket, head, workspace, runReport, uploaded, trainings, faults>>

-----------------------------------------------------------------------------
(* run: execute_remote_training *)

CheckoutByHand(c) ==
    /\ training["host"] = Idle /\ head["host"] # c /\ trainings < MaxTrainings
    /\ head' = [head EXCEPT !["host"] = c]
    /\ UNCHANGED <<bucket, workspace, training, runReport, uploaded, trainings, faults>>

RunByHand(r) ==
    /\ Start("host", r, "run")
    /\ UNCHANGED <<bucket, head, workspace, runReport, uploaded, faults>>

\* The report, written when the run ends, however it ends.
RunReport(m, exit, result) ==
    [exit |-> exit, request |-> training[m].request, draws |-> DrawsOf(training[m].request),
     result |-> result, code |-> head[m], root |-> training[m].root]

NoResult == [evidence |-> "none"]
WriteReport(m, exit, result) ==
    runReport' = [runReport EXCEPT ![m] = RunReport(m, exit, result)]

\* The study's output directory is by default inside its data directory, and
\* it does not write there twice.
HasOutput(files) == "output" \in DOMAIN files

\* What stops a run before its science: the checkout is another commit, the
\* entry point is not on it, or the study refuses the data root.
Startable(m) ==
    LET r == training[m].request
    IN /\ head[m] = r.ref
       /\ r.entry # "unavailable"
       /\ r.entry = "study" => /\ RootDigest(workspace[m]) = r.data
                               /\ ~HasOutput(workspace[m])

\* A request that is not valid ends before there is a report, and leaves the
\* last one in place.
RunStarts(m) ==
    /\ training[m].pc = "run"
    /\ IF ValidRequest(training[m].request) /\ Startable(m)
       THEN /\ training' = [training EXCEPT ![m].pc = "science", ![m].root = workspace[m]]
            /\ UNCHANGED runReport
       ELSE /\ training' = [training EXCEPT ![m] = Ended(m)]
            /\ IF ValidRequest(training[m].request) THEN WriteReport(m, "FAILED", NoResult)
               ELSE UNCHANGED runReport
    /\ UNCHANGED <<bucket, head, workspace, uploaded, trainings, faults>>

LeavesOutput(m) == workspace' = [workspace EXCEPT ![m] = Holding(@, "output", "evidence")]

\* _certified_promotion_evidence and the study's own decision
StudyResult(r, evidence, benchmark) ==
    LET decision == Promotes([mode |-> r.mode, evidence |-> evidence], benchmark)
    IN [evidence |-> evidence,
        eligible |-> decision = "ELIGIBLE_FOR_PROMOTION" /\ evidence = "official"]

\* Mutant: the report repeats what the entry point says.
AsClaimed(r, result) == result

\* A run that is not in production mode is never eligible.
Overridden(r, result) ==
    IF result # NoResult /\ r.mode # "production" THEN [result EXCEPT !.eligible = FALSE]
    ELSE result

Succeeds(m, result) ==
    /\ WriteReport(m, "SUCCEEDED", Overridden(training[m].request, result))
    /\ training' = [training EXCEPT ![m] = Ended(m)]
    /\ UNCHANGED <<bucket, head, uploaded, trainings, faults>>

StudySucceeds(m, evidence, benchmark) ==
    /\ training[m].pc = "science" /\ training[m].request.entry = "study"
    /\ LeavesOutput(m)
    /\ Succeeds(m, StudyResult(training[m].request, evidence, benchmark))

\* Another entry point's main() returns what it likes, or no eligibility.
MainSucceeds(m, result) ==
    /\ training[m].pc = "science" /\ training[m].request.entry = "main"
    /\ LeavesOutput(m) \/ UNCHANGED workspace
    /\ Succeeds(m, result)

\* An exception, or a result that is not a dict; output may be left behind.
ScienceFails(m) ==
    /\ training[m].pc = "science"
    /\ LeavesOutput(m) \/ UNCHANGED workspace
    /\ WriteReport(m, "FAILED", NoResult)
    /\ training' = [training EXCEPT ![m] = Ended(m)]
    /\ UNCHANGED <<bucket, head, uploaded, trainings, faults>>

Gone(m) == training' = [training EXCEPT ![m] = Idle]

\* A runner that is lost takes the rest of the workflow with it.
LoseRunner ==
    /\ training["runner"] # Idle /\ faults < MaxFaults
    /\ faults' = faults + 1
    /\ Gone("runner")
    /\ workspace' = [workspace EXCEPT !["runner"] = NoFiles]
    /\ runReport' = [runReport EXCEPT !["runner"] = NoRunReport]
    /\ UNCHANGED <<bucket, head, uploaded, trainings>>

\* Killed, a command writes no report, and the host keeps what is there.
KillByHand ==
    /\ training["host"] # Idle /\ faults < MaxFaults
    /\ faults' = faults + 1
    /\ Gone("host")
    /\ \/ UNCHANGED workspace
       \/ training["host"].pc = "science" /\ LeavesOutput("host")
    /\ UNCHANGED <<bucket, head, runReport, uploaded, trainings>>

-----------------------------------------------------------------------------
(* The workflow's last steps, run whatever failed before. *)

\* The output is uploaded before the workspace it lies in is removed.
CleanUp ==
    /\ training["runner"] # Idle /\ training["runner"].pc = "output"
    /\ workspace' = [workspace EXCEPT !["runner"] = NoFiles]
    /\ training' = [training EXCEPT !["runner"].pc = "report"]
    /\ UNCHANGED <<bucket, head, runReport, uploaded, trainings, faults>>

UploadReport ==
    /\ training["runner"] # Idle /\ training["runner"].pc = "report"
    /\ uploaded' = uploaded \cup ({runReport["runner"]} \ {NoRunReport})
    /\ runReport' = [runReport EXCEPT !["runner"] = NoRunReport]
    /\ Gone("runner")
    /\ UNCHANGED <<bucket, head, workspace, trainings, faults>>

\* cleanup-data, by hand
CleanByHand ==
    /\ training["host"] = Idle /\ workspace["host"] # NoFiles /\ trainings < MaxTrainings
    /\ workspace' = [workspace EXCEPT !["host"] = NoFiles]
    /\ UNCHANGED <<bucket, head, training, runReport, uploaded, trainings, faults>>

TrainingNext ==
    \/ \E o \in Objects, c \in Contents \cup {Missing} : BucketChanges(o, c)
    \/ \E r \in Requests : PrepareByHand(r) \/ RunByHand(r)
                           \/ \E c \in Commits : Dispatch(r, c)
    \/ \E m \in Machines :
          \/ VerifyManifest(m) \/ SnapshotPrepared(m) \/ RunStarts(m) \/ ScienceFails(m)
          \/ \E o \in Objects : Download(m, o)
          \/ \E e \in {"official", "research"}, b \in {"none", "better", "worse"} :
                StudySucceeds(m, e, b)
          \/ \E result \in {NoResult} \cup [evidence : {"unknown"}, eligible : BOOLEAN] :
                MainSucceeds(m, result)
    \/ \E c \in Commits : CheckoutByHand(c)
    \/ LoseRunner \/ KillByHand
    \/ CleanUp \/ UploadReport \/ CleanByHand

-----------------------------------------------------------------------------
(* Safety. *)

Reports == uploaded \cup {runReport[m] : m \in Machines}

\* A report that calls its result eligible comes of a production run with all
\* of its draws, at the commit it names; the study's rests on official
\* evidence read from the data root it pins, and what the workflow ran on is
\* the snapshot it pins, object for object (execute_remote_training,
\* download_and_verify_snapshot).
EligibleIsEarned ==
    \A x \in Reports :
        x.exit = "SUCCEEDED" /\ x.result # NoResult /\ x.result.eligible =>
            /\ x.request.mode = "production" /\ x.draws = FullDraws
            /\ x.code = x.request.ref
            /\ x.request.entry = "study" =>
                  x.result.evidence = "official" /\ x.request.data = RootDigest(x.root)
            /\ x \in uploaded => x.request.data = ManifestDigest(x.root)
=============================================================================
