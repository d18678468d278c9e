--------------------------- MODULE StreamingStudy ---------------------------
(***************************************************************************)
(* The streaming calibration study (calibration/phase10c3a_runner.py and   *)
(* the workflow that runs it): replay jobs simulate each final game once   *)
(* and keep compact evidence of it in a shard directory, one more job      *)
(* replays the first season again, and an evaluation reads the shards,     *)
(* fits a calibrator per season on the seasons before, compares the second *)
(* replay and decides on promotion.  Jobs run on different hosts, are      *)
(* killed and launched again, perhaps into a directory that is in use.     *)
(*                                                                         *)
(* An identity stands for what run_identity pins: the data root, the code, *)
(* the configuration and the number of draws.  What a game's replay yields *)
(* depends on the identity and, where numerics are not pinned, on the      *)
(* host.  Fits and scores are not computed: a calibrator is the set of     *)
(* games it was fitted on, a benchmark any outcome.                        *)
(***************************************************************************)
EXTENDS WalkForward

CONSTANTS
    Dirs, Jobs,
    Idents, Expected,       \* --expect-data-manifest-sha256, or "any"
    Pinned,                 \* identities whose tables came from the pinned rosters
    FinalGames, Scoreable,  \* identity -> final games; -> those that can be labelled
    Commands,               \* replays: [dir, scope, ident, host, mode]
    Evaluations,            \* evaluations: [purpose, dirs, repro, ident, mode, evidence]
    MaxLaunches, MaxKills

ASSUME ScoreableAreFinal ==
    \A i \in Idents : Scoreable[i] \subseteq FinalGames[i] /\ FinalGames[i] \subseteq Games

ASSUME CommandAssumption ==
    /\ \A c \in Commands : c.dir \in Dirs /\ c.ident \in Idents
    /\ \A c \in Evaluations :
          /\ c.ident \in Idents /\ c.repro \in Dirs \cup {"none"}
          /\ c.dirs \in Seq(Dirs) /\ c.purpose \in {"report", "calibrator"}
          /\ c.purpose = "calibrator" => c.kickoff \in Nat

VARIABLES
    disk,       \* dir -> [games, partial, manifest]
    job,        \* job -> its replay, or Idle
    eval,       \* the evaluation under way, or Idle
    report,     \* the last report written
    launches, kills

studyVars == <<disk, job, eval, report, launches, kills>>

Idle == [pc |-> "idle"]
NoEvidence == [ident |-> "none"]
NoManifest == [ident |-> "none", entries |-> <<>>, skips |-> {}]
Torn == [NoManifest EXCEPT !.ident = "torn"]
NoReport == [decision |-> "NONE", approvable |-> FALSE]

StudyInit ==
    /\ disk = [d \in Dirs |-> [games |-> [g \in Games |-> NoEvidence],
                               partial |-> {}, manifest |-> NoManifest]]
    /\ job = [j \in Jobs |-> Idle]
    /\ eval = Idle /\ report = NoReport /\ launches = 0 /\ kills = 0

\* list_final_games, of one season or of all
InScope(ident, scope) ==
    {g \in FinalGames[ident] : facts.season[g] \in scope}

\* _require_compatible_identity_tables
Compatible(c) == c.mode = "production" => c.ident \in Pinned

\* _prepare: refused before anything is read or written.
Prepared(c) == Expected \in {"any", c.ident} /\ Compatible(c)

-----------------------------------------------------------------------------
(* replay_to_compact *)

Launch(j, c) ==
    /\ job[j] = Idle /\ launches < MaxLaunches
    /\ Prepared(c)
    /\ launches' = launches + 1
    /\ job' = [job EXCEPT ![j] =
                 [pc |-> "replay", cmd |-> c, todo |-> InScope(c.ident, c.scope),
                  entries |-> {}, skips |-> {}]]
    /\ UNCHANGED <<disk, eval, report, kills>>

\* Games are replayed in the order of their season and date.
Upcoming(gs) == CHOOSE g \in gs : \A x \in gs : facts.asOf[g] <= facts.asOf[x]

Evidence(c) == [ident |-> c.ident, host |-> c.host]

\* build_labeled_game: no trustworthy state, or nothing to score.
SkipGame(j) ==
    /\ job[j].pc = "replay" /\ job[j].todo # {}
    /\ LET g == Upcoming(job[j].todo)
       IN /\ g \notin Scoreable[job[j].cmd.ident]
          /\ job' = [job EXCEPT ![j].todo = @ \ {g}, ![j].skips = @ \cup {g}]
    /\ UNCHANGED <<disk, eval, report, launches, kills>>

\* write_compact_game refuses a game that is there, or half written.
Taken(d, g) == disk[d].games[g] # NoEvidence \/ g \in disk[d].partial

\* Mutant: a replay that meets a game's evidence counts it as its own.
WritePartialOrResume(j) ==
    /\ job[j].pc = "replay" /\ job[j].todo # {}
    /\ LET g == Upcoming(job[j].todo)
           d == job[j].cmd.dir
       IN /\ g \in Scoreable[job[j].cmd.ident]
          /\ IF Taken(d, g)
             THEN /\ job' = [job EXCEPT ![j].todo = @ \ {g}, ![j].entries = @ \cup {g}]
                  /\ UNCHANGED disk
             ELSE /\ disk' = [disk EXCEPT ![d].partial = @ \cup {g}]
                  /\ job' = [job EXCEPT ![j].pc = "rename"]
    /\ UNCHANGED <<eval, report, launches, kills>>

WritePartial(j) ==
    /\ job[j].pc = "replay" /\ job[j].todo # {}
    /\ LET g == Upcoming(job[j].todo)
           d == job[j].cmd.dir
       IN /\ g \in Scoreable[job[j].cmd.ident]
          /\ IF Taken(d, g)
             THEN job' = [job EXCEPT ![j] = Idle] /\ UNCHANGED disk
             ELSE /\ disk' = [disk EXCEPT ![d].partial = @ \cup {g}]
                  /\ job' = [job EXCEPT ![j].pc = "rename"]
    /\ UNCHANGED <<eval, report, launches, kills>>

\* The rename makes the game visible whole; it fails over one that is there.
Rename(j) ==
    /\ job[j].pc = "rename"
    /\ LET g == Upcoming(job[j].todo)
           d == job[j].cmd.dir
       IN IF disk[d].games[g] # NoEvidence
          THEN job' = [job EXCEPT ![j] = Idle] /\ UNCHANGED disk
          ELSE /\ disk' = [disk EXCEPT ![d].partial = @ \ {g},
                                       ![d].games[g] = Evidence(job[j].cmd)]
               /\ job' = [job EXCEPT ![j].pc = "replay", ![j].todo = @ \ {g},
                                     ![j].entries = @ \cup {g}]
    /\ UNCHANGED <<eval, report, launches, kills>>

WriteManifest(j) ==
    /\ job[j].pc = "replay" /\ job[j].todo = {}
    /\ disk' = [disk EXCEPT ![job[j].cmd.dir].manifest =
                   [ident |-> job[j].cmd.ident,
                    entries |-> [g \in job[j].entries |-> Evidence(job[j].cmd)],
                    skips |-> job[j].skips]]
    /\ job' = [job EXCEPT ![j] = Idle]
    /\ UNCHANGED <<eval, report, launches, kills>>

\* A replay killed while it writes the manifest may leave half of it.
KillJob(j) ==
    /\ job[j] # Idle /\ kills < MaxKills
    /\ kills' = kills + 1
    /\ job' = [job EXCEPT ![j] = Idle]
    /\ \/ UNCHANGED disk
       \/ /\ job[j].pc = "replay" /\ job[j].todo = {}
          /\ disk' = [disk EXCEPT ![job[j].cmd.dir].manifest = Torn]
    /\ UNCHANGED <<eval, report, launches>>

-----------------------------------------------------------------------------
(* _load_shards and evaluate *)

BeginEvaluation(c) ==
    /\ eval = Idle /\ launches < MaxLaunches
    /\ Prepared(c)
    /\ launches' = launches + 1
    /\ eval' = [pc |-> "load", cmd |-> c, todo |-> c.dirs, games |-> <<>>, skips |-> {},
                again |-> <<>>]
    /\ UNCHANGED <<disk, job, report, kills>>

\* An error of any kind ends the evaluation; no report is written.
Refuse == eval' = Idle /\ UNCHANGED report

\* Mutant: a shard of the same data root and code is good enough.
MatchesAnything(d) == disk[d].manifest.ident \notin {"none", "torn"}

\* The shard's manifest is whole and pins what this evaluation pins.
MatchesShard(d) == disk[d].manifest.ident = eval.cmd.ident

\* read_compact_game, for each game the manifest lists
ShardGames(d) == [g \in DOMAIN disk[d].manifest.entries |-> disk[d].games[g]]

\* dict.update, where the two share no key
Joined(f, h) == [g \in DOMAIN f \cup DOMAIN h |-> IF g \in DOMAIN f THEN f[g] ELSE h[g]]

LoadShard ==
    /\ eval.pc = "load" /\ eval.todo # <<>>
    /\ LET d == Head(eval.todo)
           new == ShardGames(d)
       IN IF MatchesShard(d) /\ DOMAIN new \cap DOMAIN eval.games = {}
          THEN /\ eval' = [eval EXCEPT !.todo = Tail(@), !.games = Joined(@, new),
                                       !.skips = @ \cup disk[d].manifest.skips]
               /\ UNCHANGED report
          ELSE Refuse
    /\ UNCHANGED <<disk, job, launches, kills>>

Labelled == DOMAIN eval.games
Folds == SeasonFolds(Labelled)

\* Every final game is in one of the shards, labelled or skipped.
Accounted == Labelled \cup eval.skips = FinalGames[eval.cmd.ident]

\* build_season_boundary_folds
EnoughSeasons == Cardinality(SeasonsOf(Labelled)) >= 2 /\ SeasonsInOrder(Labelled)

\* run_walk_forward_challenger: evidence on both sides of each fold.
Trainable ==
    /\ Expanding(Folds)
    /\ \A n \in DOMAIN Folds :
          /\ FitGames(Labelled, Folds[n]) # {} /\ ScoreGames(Labelled, Folds[n]) # {}
          /\ FitGames(Labelled, Folds[n]) \cap ScoreGames(Labelled, Folds[n]) = {}

\* Too little data writes a report; a fold that cannot be fitted, or weights
\* that are not positive (verify_weight_health_and_positivity), only fail.
Fit ==
    /\ eval.pc = "load" /\ eval.todo = <<>> /\ eval.cmd.purpose = "report"
    /\ \/ ~Accounted /\ Refuse
       \/ /\ Accounted /\ ~EnoughSeasons
          /\ report' = [NoReport EXCEPT !.decision = "INSUFFICIENT_EVIDENCE"]
          /\ eval' = Idle
       \/ Accounted /\ EnoughSeasons /\ Refuse
       \/ /\ Accounted /\ EnoughSeasons /\ Trainable
          /\ eval' = [eval EXCEPT !.pc = "repro"]
          /\ UNCHANGED report
    /\ UNCHANGED <<disk, job, launches, kills>>

\* The second replay is a shard like the others.
LoadRepro ==
    /\ eval.pc = "repro" /\ eval.cmd.repro # "none"
    /\ IF MatchesShard(eval.cmd.repro)
       THEN /\ eval' = [eval EXCEPT !.pc = "decide", !.again = ShardGames(eval.cmd.repro)]
            /\ UNCHANGED report
       ELSE Refuse
    /\ UNCHANGED <<disk, job, launches, kills>>

\* Mutant: only games replayed twice are compared.
ReplayedAlike(again, fold0) ==
    \A g \in DOMAIN again : g \in Labelled => eval.games[g] = again[g]

\* check_reproducibility: all of the first fold's games were replayed again,
\* and every game replayed again has the same evidence.
Reproduced(again, fold0) ==
    /\ fold0 \subseteq DOMAIN again
    /\ \A g \in DOMAIN again : g \in Labelled /\ eval.games[g] = again[g]

\* The fold that scores a game's season names its calibrator; the first
\* season has none (_fold_id_for_season).
CalibratorOf(g) ==
    IF facts.season[g] \in LaterSeasons(Labelled)
    THEN FitGames(Labelled, SeasonFold(Labelled, facts.season[g])) ELSE {}

ChronologyHolds ==
    \A n \in DOMAIN Folds :
        LET train == FitGames(Labelled, Folds[n])
            score == ScoreGames(Labelled, Folds[n])
        IN /\ \A g \in train : facts.asOf[g] <= Folds[n].trainEnd
                               /\ facts.known[g] <= Folds[n].trainEnd
           /\ \A g \in score : Folds[n].trainEnd < facts.asOf[g]
           /\ train \cap score = {}

\* promotion_evidence_allowed: research evidence and smoke runs never promote.
\* No benchmark: no faithful game, or too few games to compare.
Promotes(c, benchmark) ==
    IF c.mode = "smoke" \/ c.evidence = "research" \/ benchmark = "none"
    THEN "INSUFFICIENT_EVIDENCE"
    ELSE IF benchmark = "better" THEN "ELIGIBLE_FOR_PROMOTION" ELSE "NOT_ELIGIBLE_FOR_PROMOTION"

\* full_promotion_gate: the benchmark, and every other requirement
FullGate(benchmark, slices, coherent, repro) ==
    benchmark = "better" /\ slices /\ ChronologyHolds /\ coherent /\ repro

Decide(benchmark, slices, coherent) ==
    /\ eval.pc = "decide" \/ (eval.pc = "repro" /\ eval.cmd.repro = "none")
    /\ LET fold0 == FitGames(Labelled, Folds[1])
           repro == eval.cmd.repro # "none" /\ Reproduced(eval.again, fold0)
       IN report' = [decision |-> Promotes(eval.cmd, benchmark), cmd |-> eval.cmd,
                     games |-> eval.games, skips |-> eval.skips, again |-> eval.again,
                     fold0 |-> fold0,
                     calibrator |-> [g \in Labelled |-> CalibratorOf(g)],
                     gate |-> FullGate(benchmark, slices, coherent, repro),
                     approvable |-> ChronologyHolds /\ coherent /\ repro]
    /\ eval' = Idle
    /\ UNCHANGED <<disk, job, launches, kills>>

KillEvaluation ==
    /\ eval # Idle /\ kills < MaxKills
    /\ kills' = kills + 1
    /\ eval' = Idle
    /\ UNCHANGED <<disk, job, report, launches>>

JobStep(j) == SkipGame(j) \/ WritePartial(j) \/ Rename(j) \/ WriteManifest(j) \/ KillJob(j)

StudyNext ==
    \/ \E j \in Jobs : JobStep(j) \/ \E c \in Commands : Launch(j, c)
    \/ \E c \in Evaluations : BeginEvaluation(c)
    \/ LoadShard \/ Fit \/ LoadRepro \/ KillEvaluation
    \/ \E b \in {"none", "better", "worse"}, slices, coherent \in BOOLEAN :
          Decide(b, slices, coherent)

-----------------------------------------------------------------------------
(* Safety. *)

Reported == "cmd" \in DOMAIN report

\* What a manifest lists is on disk, exactly as one replay under the
\* manifest's identity left it, whatever other replays were killed in or
\* launched into the directory (write_compact_game, replay_to_compact).
ShardIsOneReplay ==
    \A d \in Dirs : \A g \in DOMAIN disk[d].manifest.entries :
        /\ disk[d].games[g] = disk[d].manifest.entries[g]
        /\ disk[d].games[g].ident = disk[d].manifest.ident

\* A report counts each final game of its data once, labelled or skipped, and
\* all of its evidence was replayed under the report's own identity (_load_shards).
ReportIsComplete ==
    Reported =>
        /\ DOMAIN report.games \cup report.skips = FinalGames[report.cmd.ident]
        /\ DOMAIN report.games \cap report.skips = {}
        /\ \A g \in DOMAIN report.games : report.games[g].ident = report.cmd.ident

=============================================================================
