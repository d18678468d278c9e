----------------------- MODULE ExperimentReproduction -----------------------
(***************************************************************************)
(* `nflprops reproduce` (backtest/reproduce.py, backtest/artifacts.py): an *)
(* experiment's directory holds its inputs, an experiment manifest that    *)
(* pins them and a reproduction manifest that says how to build the        *)
(* probabilities and what to delete before they are built again.  The      *)
(* command builds, deletes, builds again and compares.                     *)
(*                                                                         *)
(* A SHA-256 is modelled by what it is taken of.  The build is an external *)
(* command: it may fail, write any table, write none, or keep the one it   *)
(* finds.  Nobody edits a directory while it is reproduced.                *)
(***************************************************************************)
EXTENDS WalkForward

CONSTANTS
    Experiments,    \* [source, config, data, folds]: what a manifest pins
    Artifacts,      \* [run, experiment, paths, output, derived, columns]
    RunName,        \* the directory's name
    Versions,       \* what an input file may hold
    Tables,         \* what a build may write: sequences of [id, p]
    MaxEdits, MaxReproductions

ASSUME TablesAreSequences == \A t \in Tables : Len(t) \in Nat /\ DOMAIN t = 1..Len(t)

Inputs == {"source", "config", "data"}
Manifests == {"experiment", "reproduction"}
Outputs == {"probabilities", "copy"}
Files == Inputs \cup Manifests \cup Outputs
Absent == [state |-> "absent"]
HalfWritten == [state |-> "torn"]

VARIABLES
    runDir,         \* file -> what it holds; an output is [table, build]
    rebuild,        \* the reproduction under way, or NotRunning
    passed,         \* the last REPRODUCIBILITY=PASS, or NotRunning
    edits, reproductions

reproductionVars == <<runDir, rebuild, passed, edits, reproductions>>

NotRunning == [pc |-> "idle"]

ReproductionInit ==
    /\ runDir = [f \in Files |-> Absent]
    /\ rebuild = NotRunning /\ passed = NotRunning
    /\ edits = 0 /\ reproductions = 0

-----------------------------------------------------------------------------
(* The directory's author. *)

EditInput(f, v) ==
    /\ rebuild = NotRunning /\ edits < MaxEdits /\ runDir[f] # v
    /\ edits' = edits + 1
    /\ runDir' = [runDir EXCEPT ![f] = v]
    /\ UNCHANGED <<rebuild, passed, reproductions>>

\* write_immutable_json: over a file that is there it refuses, or finds the
\* same bytes.  The write is not atomic: killed, it leaves a torn file, which
\* is refused for good.
WriteImmutable(f, content) ==
    /\ rebuild = NotRunning /\ runDir[f] = Absent
    /\ \E written \in {content, HalfWritten} : runDir' = [runDir EXCEPT ![f] = written]
    /\ UNCHANGED <<rebuild, passed, edits, reproductions>>

-----------------------------------------------------------------------------
(* reproduce_run_directory *)

\* load_json_object
Readable(f) == runDir[f] \notin {Absent, HalfWritten}

\* ExperimentManifest
ValidExperiment(e) == Expanding(e.folds)

\* ReproductionArtifact, _relative_path
ValidArtifact(a) == a.derived # {} /\ a.columns # {}

LoadedArtifact == Readable("reproduction") /\ ValidArtifact(runDir["reproduction"])
LoadedExperiment == Readable("experiment") /\ ValidExperiment(runDir["experiment"])

\* run_id, experiment_manifest_sha256
Identified ==
    /\ runDir["reproduction"].run = RunName
    /\ runDir["reproduction"].experiment = runDir["experiment"]

\* _safe_run_path
PathsInside(a) ==
    /\ \A i \in Inputs : a.paths[i] \in Files
    /\ a.output \in Files /\ a.derived \subseteq Files

\* source_sha256, config_sha256, data_manifest_sha256
InputsPinned(a) == \A i \in Inputs : runDir[a.paths[i]] = runDir["experiment"][i]

BeginReproduction ==
    /\ rebuild = NotRunning /\ reproductions < MaxReproductions
    /\ LoadedArtifact /\ LoadedExperiment /\ Identified
    /\ LET a == runDir["reproduction"]
       IN /\ PathsInside(a) /\ InputsPinned(a)
          /\ rebuild' = [pc |-> "first", artifact |-> a, first |-> <<>>,
                         inputs |-> [i \in Inputs |-> runDir[a.paths[i]]]]
          /\ runDir' = [f \in Files |->
                           IF f \in Outputs /\ runDir[f] # Absent
                           THEN [runDir[f] EXCEPT !.build = "before"] ELSE runDir[f]]
    /\ reproductions' = reproductions + 1
    /\ UNCHANGED <<passed, edits>>

\* _encode_probability: missing, or a finite number in [0, 1]
Encodable(p) == p # "invalid"

\* deterministic_probability_bytes: some rows, no prediction twice, every
\* compared column there and each of its values encodable.
Serialisable(table, columns) ==
    /\ table # <<>>
    /\ \A n, k \in DOMAIN table : table[n].id = table[k].id => n = k
    /\ \A n \in DOMAIN table : \A c \in columns :
          c \in DOMAIN table[n].p /\ Encodable(table[n].p[c])

\* Sorted by prediction_id, so the order of the rows does not matter.
ProbabilityBytes(table, columns) ==
    {[id |-> table[n].id, p |-> [c \in columns |-> table[n].p[c]]] : n \in DOMAIN table}

Written(table) == [table |-> table, build |-> rebuild.pc]

\* pl.read_parquet
HoldsTable(file) == file \in [table : Tables, build : {"before", "first", "second"}]

\* build_once runs the command, which must leave the output in place.
BuildOnce(file) ==
    /\ rebuild.pc \in {"first", "second"}
    /\ runDir' = [runDir EXCEPT ![rebuild.artifact.output] = file]
    /\ rebuild' =
          IF ~HoldsTable(file) \/ ~Serialisable(file.table, rebuild.artifact.columns)
          THEN NotRunning
          ELSE IF rebuild.pc = "first"
          THEN [rebuild EXCEPT !.pc = "reset", !.first = file.table]
          ELSE [rebuild EXCEPT !.pc = "compare"]
    /\ UNCHANGED <<passed, edits, reproductions>>

BuildFails ==
    /\ rebuild.pc \in {"first", "second"}
    /\ rebuild' = NotRunning
    /\ UNCHANGED <<runDir, passed, edits, reproductions>>

\* Mutant: only what the first build left beside its output is deleted.
ResetTheRest ==
    /\ rebuild.pc = "reset"
    /\ runDir' = [f \in Files |-> IF f \in rebuild.artifact.derived \ {rebuild.artifact.output}
                                  THEN Absent ELSE runDir[f]]
    /\ rebuild' = [rebuild EXCEPT !.pc = "second"]
    /\ UNCHANGED <<passed, edits, reproductions>>

\* reset_derived deletes what the manifest lists, an input or a manifest too.
ResetDerived ==
    /\ rebuild.pc = "reset"
    /\ runDir' = [f \in Files |-> IF f \in rebuild.artifact.derived THEN Absent ELSE runDir[f]]
    /\ rebuild' = [rebuild EXCEPT !.pc = "second"]
    /\ UNCHANGED <<passed, edits, reproductions>>

\* Equal bytes have as many rows, so the row counts never differ after them.
Compare ==
    /\ rebuild.pc = "compare"
    /\ LET a == rebuild.artifact
           second == runDir[a.output]
       IN passed' = IF ProbabilityBytes(rebuild.first, a.columns)
                           = ProbabilityBytes(second.table, a.columns)
                    THEN [pc |-> "pass", artifact |-> a, inputs |-> rebuild.inputs,
                          first |-> rebuild.first, second |-> second]
                    ELSE passed
    /\ rebuild' = NotRunning
    /\ UNCHANGED <<runDir, edits, reproductions>>

KillReproduction ==
    /\ rebuild # NotRunning
    /\ rebuild' = NotRunning
    /\ UNCHANGED <<runDir, passed, edits, reproductions>>

ReproductionNext ==
    \/ \E f \in Inputs, v \in Versions : EditInput(f, v)
    \/ \E e \in Experiments : WriteImmutable("experiment", e)
    \/ \E a \in Artifacts : WriteImmutable("reproduction", a)
    \/ BeginReproduction
    \/ \E t \in Tables : rebuild # NotRunning /\ BuildOnce(Written(t))
    \/ rebuild # NotRunning /\ BuildOnce(runDir[rebuild.artifact.output])
    \/ BuildFails \/ ResetDerived \/ Compare \/ KillReproduction

-----------------------------------------------------------------------------
(* Safety. *)

\* "Delete derived outputs. Rebuild from raw + manifest": what passes began
\* from the inputs its experiment pins, and agrees row by row, no prediction
\* left out, with a table written after the first was deleted, wherever the
\* manifest lists the output as derived (reproduce_run_directory).
ReproductionIsARebuild ==
    passed # NotRunning =>
        LET a == passed.artifact
            Row(t, id) == CHOOSE n \in DOMAIN t : t[n].id = id
            Ids(t) == {t[n].id : n \in DOMAIN t}
        IN /\ passed.inputs = [i \in Inputs |-> a.experiment[i]]
           /\ Len(passed.first) = Len(passed.second.table)
           /\ Ids(passed.first) = Ids(passed.second.table)
           /\ \A id \in Ids(passed.first), c \in a.columns :
                 passed.first[Row(passed.first, id)].p[c]
                     = passed.second.table[Row(passed.second.table, id)].p[c]
           /\ a.output \in a.derived => passed.second.build = "second"
=============================================================================
