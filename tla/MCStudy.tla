------------------------------ MODULE MCStudy -------------------------------
(* A study of two or three seasons, one of whose games may be decided late,  *)
(* a backtest of two folds over six predictions, one known late, a directory *)
(* reproduced twice and three remote trainings.                              *)
EXTENDS CalibrationStudy, TLC

CONSTANTS shardA, shardB, again, h1, h2, i1, i2, v1

StudyHistory(season, known3) ==
    [season |-> season, asOf |-> <<2, 4, 20, 40, 60, 62>>,
     known |-> <<4, 6, known3, 44, 64, 66>>]

BacktestHistory(first, late, prop, outcome) ==
    [season |-> <<1, 1, 1, 2, 2, 2>>, asOf |-> <<2, 2, 6, 6, 10, 14>>,
     known |-> <<first, 4, 8, late, 12, 16>>, outcome |-> outcome, proved |-> {2},
     prop |-> prop, position |-> <<1, 1, 1, 1, 1, 2>>]

Chronologies == [
    reproduction |-> {StudyHistory(<<1, 1, 2, 3, 3, 3>>, 22)},
    training |-> {StudyHistory(<<1, 1, 2, 3, 3, 3>>, 22)},
    study |-> {StudyHistory(<<1, 1, 2, 3, 3, 3>>, 22),
               StudyHistory(<<1, 1, 2, 3, 3, 3>>, 50),
               StudyHistory(<<1, 2, 1, 3, 3, 3>>, 22)},
    backtest |-> {BacktestHistory(first, late, prop, outcome) :
                     first \in {4, 8}, late \in {8, 12}, prop \in {<<1, 2, 1, 2, 1, 1>>, <<1, 1, 1, 1, 1, 1>>},
                     outcome \in {<<"over", "under", "over", "under", "under", "over">>,
                                  <<"over", "null", "push", "under", "null", "over">>,
                                  <<"under", "under", "over", "over", "no probability", "under">>}}]

Fold(trainEnd, scoreStart, scoreEnd) ==
    [trainStart |-> 0, trainEnd |-> trainEnd, selectionEnd |-> trainEnd,
     scoreStart |-> scoreStart, scoreEnd |-> scoreEnd]

TwoPlans == {<<Fold(2, 4, 9), Fold(8, 10, 14)>>, <<Fold(0, 2, 9), Fold(9, 10, 14)>>,
             <<Fold(2, 2, 9), Fold(8, 10, 14)>>}

Finals == (i1 :> {1, 2, 3, 4}) @@ (i2 :> {1, 2, 3})
Labels == (i1 :> {1, 2, 3, 4}) @@ (i2 :> {1, 3})

Replay(dir, scope, ident, host, mode) ==
    [dir |-> dir, scope |-> scope, ident |-> ident, host |-> host, mode |-> mode]
Evaluation(dirs, repro, ident, mode, evidence) ==
    [purpose |-> "report", dirs |-> dirs, repro |-> repro, ident |-> ident, mode |-> mode, evidence |-> evidence]

FinalFit(dirs, kickoff, mode) ==
    [purpose |-> "calibrator", dirs |-> dirs, repro |-> "none", ident |-> i1, mode |-> mode,
     evidence |-> "official", kickoff |-> kickoff, target |-> 4]

Replays == {Replay(shardA, 1..3, i1, h1, "production"), Replay(shardA, 1..3, i2, h1, "smoke"),
            Replay(shardB, {2}, i2, h1, "smoke"), Replay(shardA, {1}, i2, h1, "smoke"),
            Replay(again, {1}, i1, h1, "production"), Replay(again, {1}, i1, h2, "production"),
            Replay(shardB, {2}, i1, h1, "production"), Replay(shardB, 1..3, i1, h2, "production")}

AllEvaluations == {Evaluation(<<shardA>>, again, i1, "production", "official"),
                   Evaluation(<<shardA, shardB>>, "none", i2, "smoke", "official"),
                   Evaluation(<<shardA>>, shardB, i1, "production", "official"),
                   Evaluation(<<shardA>>, shardA, i1, "production", "official"),
                   Evaluation(<<shardA>>, shardA, i2, "production", "research")} \cup
                  {FinalFit(<<shardA>>, kickoff, "production") : kickoff \in {46, 50}} \cup
                  {FinalFit(<<shardB>>, 50, "production"), FinalFit(<<again, shardB>>, 50, "smoke")}

(* Inputs that were pinned, or changed since; a table in another order, with *)
(* another value, a prediction twice, or nothing in it.                      *)
Experiment(folds) == [source |-> v1, config |-> v1, data |-> v1, folds |-> folds]
TwoExperiments == {Experiment(<<Fold(2, 4, 9), Fold(9, 10, 14)>>), Experiment(<<Fold(9, 4, 14)>>)}

Manifest(dir, files, derived, columns) ==
    [run |-> dir, experiment |-> Experiment(<<Fold(2, 4, 9), Fold(9, 10, 14)>>),
     paths |-> [source |-> "source", config |-> files, data |-> "data"],
     output |-> "probabilities", derived |-> derived, columns |-> columns]
SomeArtifacts == {Manifest("dir", "config", {"probabilities"}, {"raw", "final"}),
                  Manifest("dir", "config", {"copy", "config"}, {"raw"}),
                  Manifest("dir", "/etc/model", {"probabilities"}, {"raw"}),
                  Manifest("dir", "config", {"probabilities", "copy"}, {"raw"}),
                  Manifest("dir", "config", {}, {"raw"}),
                  Manifest("other", "config", {"probabilities"}, {"raw"})}

Probability(id, raw, final) == [id |-> id, p |-> [raw |-> raw, final |-> final]]
SomeTables == {<<Probability(1, "0.4", "0.5"), Probability(2, "0.3", "0.3")>>,
               <<Probability(2, "0.3", "0.3"), Probability(1, "0.4", "0.5")>>,
               <<Probability(1, "0.4", "0.6"), Probability(2, "0.3", "0.3")>>,
               <<Probability(1, "0.4", "0.5")>>,
               <<Probability(1, "0.4", "0.5"), Probability(1, "0.4", "0.5")>>,
               <<Probability(1, "invalid", "0.5")>>, <<>>}

(* Snapshots of two objects, as the workflow pins them and as the study does. *)
Snapshot == [o \in Objects |-> "good"]
Request(data, mode, draws, entry) ==
    [ref |-> "main", data |-> data, mode |-> mode, draws |-> draws, entry |-> entry,
     manifest |-> Snapshot]
SomeRequests == {Request(ManifestDigest(Snapshot), "production", {}, entry) :
                    entry \in {"study", "main", "unavailable"}} \cup
                {Request(ManifestDigest(Snapshot), "smoke", draws, "main") :
                    draws \in {{}, {5000}}} \cup
                {Request(RootDigest(Snapshot), mode, {500}, "study") :
                    mode \in {"production", "smoke"}}
=============================================================================
