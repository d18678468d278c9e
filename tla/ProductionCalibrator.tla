------------------------ MODULE ProductionCalibrator ------------------------
(***************************************************************************)
(* The production calibrator (calibration/production_calibrator.py): once  *)
(* a study's report has certified the estimator, it is fitted again on     *)
(* every game of the same kind of shards, up to the next season.  The      *)
(* evaluating process is the study's, with another purpose: it loads the   *)
(* shards, and instead of folds and a report it leaves a payload, its      *)
(* registration and a manifest of the candidate.  It asserts that its      *)
(* validation passed, on the word of the report it is given.               *)
(*                                                                         *)
(* A calibrator is the evidence it was fitted on.  The calibrators the     *)
(* command is given are those of the report it is given; the code does not *)
(* compare them.                                                           *)
(***************************************************************************)
EXTENDS StreamingStudy

VARIABLES
    payload,    \* what the output directory's payload was fitted on
    candidate   \* the manifest of the production calibrator

calibratorVars == <<payload, candidate>>

NoPayload == [fit |-> <<>>]

CalibratorInit == payload = NoPayload /\ candidate = NoPayload

\* verify_certification_report: every gate passed, under the same identity.
Certifies(r, c) ==
    "cmd" \in DOMAIN r /\ r.decision = "ELIGIBLE_FOR_PROMOTION" /\ r.gate
    /\ r.cmd.ident = c.ident

LastFold(gs) == SeasonFold(gs, Max(SeasonsOf(gs)))

\* What the calibrator of the last fold is fitted on.
LastFit(evidence) ==
    [g \in FitGames(DOMAIN evidence, LastFold(DOMAIN evidence)) |-> evidence[g]]

\* Mutant: the estimator is not fitted again.
TakenOnTrust(r) == TRUE

\* Fitted again on these shards, the last fold gives the certified weights.
Refits(r) == LastFit(eval.games) = LastFit(r.games)

\* final_training_end, halfway to the first kickoff of the next season
FinalEnd(c) ==
    LET last == Max(AsOf(Labelled)) IN last + (c.kickoff - last) \div 2

Admissible(c) ==
    /\ c.kickoff > Max(AsOf(Labelled))
    /\ \A g \in Labelled : facts.known[g] <= FinalEnd(c) /\ facts.season[g] < c.target

\* A fit that does not converge, or whose weights or coherence fail, ends it.
FitFinal ==
    /\ eval.pc = "load" /\ eval.todo = <<>> /\ eval.cmd.purpose = "calibrator"
    /\ \/ eval' = Idle
       \/ /\ Accounted /\ Certifies(report, eval.cmd)
          /\ EnoughSeasons /\ Trainable /\ Refits(report) /\ Admissible(eval.cmd)
          /\ eval' = [eval EXCEPT !.pc = "register", !.again = report]
    /\ UNCHANGED <<disk, job, report, launches, kills, calibratorVars>>

Fitted == [fit |-> eval.games, cmd |-> eval.cmd, end |-> FinalEnd(eval.cmd)]

\* DirectoryPayloadStore.put_bytes refuses other bytes under the same key.
SameBytes == payload = NoPayload \/ payload.fit = Fitted.fit

\* register_challenger, with every check passed
RegisterFinal ==
    /\ eval.pc = "register"
    /\ IF SameBytes
       THEN payload' = Fitted /\ eval' = [eval EXCEPT !.pc = "manifest"]
       ELSE UNCHANGED payload /\ eval' = Idle
    /\ UNCHANGED <<disk, job, report, launches, kills, candidate>>

WriteCandidate ==
    /\ eval.pc = "manifest"
    /\ candidate' = [fit |-> payload.fit, end |-> payload.end, cmd |-> eval.cmd,
                     skips |-> eval.skips, certified |-> eval.again,
                     status |-> IF eval.cmd.mode = "production" THEN "PRODUCTION_CANDIDATE"
                                ELSE "SMOKE_NOT_A_CANDIDATE"]
    /\ eval' = Idle
    /\ UNCHANGED <<disk, job, report, launches, kills, payload>>

CalibratorNext ==
    \/ StudyNext /\ UNCHANGED calibratorVars
    \/ FitFinal \/ RegisterFinal \/ WriteCandidate

-----------------------------------------------------------------------------
(* Safety. *)

ReproducedIn(r) == \A g \in r.fold0 : g \in DOMAIN r.again /\ r.again[g] = r.games[g]

\* Whatever the registry would accept for approval rests on a second replay:
\* every game a report's first calibrator was fitted on has the same evidence
\* twice (check_reproducibility, register_challenger).  A production calibrator,
\* which asserts that of the report it was given, was fitted on every final game
\* of the same data, none known after its window, and on the very evidence the
\* report's last fold was (fit_production_calibrator).
ApprovableIsReproduced ==
    /\ report.approvable \/ (Reported /\ report.gate) => ReproducedIn(report)
    /\ candidate # NoPayload =>
          LET certified == candidate.certified
          IN /\ ReproducedIn(certified) /\ certified.cmd.ident = candidate.cmd.ident
             /\ DOMAIN candidate.fit \cup candidate.skips = FinalGames[candidate.cmd.ident]
             /\ \A g \in DOMAIN candidate.fit : facts.known[g] <= candidate.end
             /\ candidate.end < candidate.cmd.kickoff
             /\ \A g \in DOMAIN LastFit(certified.games) : candidate.fit[g] = certified.games[g]
=============================================================================
