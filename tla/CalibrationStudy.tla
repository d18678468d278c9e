-------------------------- MODULE CalibrationStudy --------------------------
(***************************************************************************)
(* The programs that judge a model on historical evidence: the streaming   *)
(* study with the production calibrator it certifies, the walk-forward     *)
(* backtest, the reproduction of an experiment's directory and remote      *)
(* training.  A behaviour is one of them; they share code, and no state.   *)
(***************************************************************************)
EXTENDS ProductionCalibrator, WalkForwardBacktest, ExperimentReproduction, RemoteTraining

VARIABLE program    \* "study", "backtest", "reproduction" or "training"

vars == <<facts, program, studyVars, calibratorVars, backtestVars, reproductionVars, trainingVars>>

\* What the other programs start from matters to none.
Init ==
    /\ program \in DOMAIN Histories
    /\ facts \in Histories[program]
    /\ StudyInit /\ CalibratorInit /\ BacktestInit /\ ReproductionInit /\ TrainingInit
    /\ program # "backtest" => plan = CHOOSE p \in Plans : TRUE
    /\ program # "training" =>
          /\ bucket = CHOOSE b \in [Objects -> Contents] : TRUE
          /\ head = CHOOSE h \in [Machines -> Commits] : TRUE

Next ==
    /\ UNCHANGED <<facts, program>>
    /\ \/ /\ program = "study" /\ CalibratorNext
          /\ UNCHANGED <<backtestVars, reproductionVars, trainingVars>>
       \/ /\ program = "backtest" /\ BacktestNext
          /\ UNCHANGED <<studyVars, calibratorVars, reproductionVars, trainingVars>>
       \/ /\ program = "reproduction" /\ ReproductionNext
          /\ UNCHANGED <<studyVars, calibratorVars, backtestVars, trainingVars>>
       \/ /\ program = "training" /\ TrainingNext
          /\ UNCHANGED <<studyVars, calibratorVars, backtestVars, reproductionVars>>

Spec == Init /\ [][Next]_vars

\* The values of the programs; a backtest that is done executed every fold.
TypeOK ==
    /\ program \in DOMAIN Histories /\ facts \in Histories[program]
    /\ plan \in Plans /\ current \in 0..Len(plan)
    /\ phase \in {"between", "fold", "done", "refused"}
    /\ phase = "done" => current = Len(plan)
    /\ history \subseteq Games /\ todo \subseteq Checkpoints
    /\ \A x \in rows : x.item \in Games /\ x.fold \in 1..Len(plan) /\ x.fit \subseteq Games
    /\ excluded \subseteq [item : Games, fold : 1..Len(plan)]
    /\ launches \in 0..MaxLaunches /\ kills \in 0..MaxKills
    /\ \A d \in Dirs : disk[d].partial \subseteq Games
                       /\ DOMAIN disk[d].manifest.entries \subseteq Games
    /\ \A j \in Jobs : job[j].pc \in {"idle", "replay", "rename"}
    /\ rebuild.pc \in {"idle", "first", "reset", "second", "compare"}
    /\ edits \in 0..MaxEdits /\ reproductions \in 0..MaxReproductions
    /\ \A o \in Objects : bucket[o] \in Contents \cup {Missing}
    /\ head \in [Machines -> Commits]
    /\ \A m \in Machines :
          training[m].pc \in {"idle", "verify", "download", "run", "science", "output", "report"}
    /\ trainings \in 0..MaxTrainings /\ faults \in 0..MaxFaults
    /\ eval.pc \in {"idle", "load", "repro", "decide", "register", "manifest"}
    /\ DOMAIN payload.fit \subseteq Games /\ DOMAIN candidate.fit \subseteq Games
=============================================================================
