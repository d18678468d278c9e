--------------------------- MODULE CheckpointFlow ---------------------------
(* One official checkpoint, from its claim to the decision about publishing  *)
(* it: `game_checkpoint_flow` and the task it runs (orchestration/flows/     *)
(* checkpoints.py), the immutable artifact stores the task writes one after  *)
(* the other, the live calibration step, and the decision the remote         *)
(* executor takes on what it finds stored (platform/remote_checkpoint.py).   *)
(*                                                                           *)
(* The flow runs at one of two places.  "local": `checkpoint_dispatch_flow`  *)
(* claims the run in the live warehouse, where the collector goes on writing *)
(* rows, some of them already visible at the run's as_of (`LateRow`), and a  *)
(* killed process leaves what it wrote.  "remote": the run is SCHEDULED in a *)
(* restored snapshot that nobody else touches and that dies with the runner. *)
(*                                                                           *)
(* The task is retried by the orchestrator after a transient exception, with *)
(* the tables as the failed attempt left them.  An append may raise before   *)
(* or after its rows are in place (the part file is published before the     *)
(* compaction that can still fail); MaxFaults bounds those exceptions and    *)
(* kills.  A product may also be refused by its store's own validation.      *)
(*                                                                           *)
(* A row is a player, an item (a stat, a threshold event or a prop type) and *)
(* a value; a product's header stands for the hash of the rows it pins.      *)
EXTENDS Integers, Sequences, FiniteSets

CONSTANTS
    Items,          \* stats of a player; every product has one row per item
    Evidence,       \* sequence: what is visible at the run's as_of, and later
    Registries,     \* sets of troubles the calibration registry may have
    MaxRetries,     \* TRANSIENT_RETRIES
    MaxFaults       \* exceptions of the storage, and kills

Versions == 1..Len(Evidence)
ASSUME EvidenceAssumption ==
    /\ Len(Evidence) \in Nat \ {0} /\ IsFiniteSet(Items)
    /\ \A v \in Versions : IsFiniteSet(Evidence[v].eligible)

Players == UNION {Evidence[v].eligible : v \in Versions}

VARIABLES
    place,          \* "local" or "remote"
    registry,       \* what is wrong with the calibration registry
    evidence,       \* version of what is visible at the run's as_of
    run,            \* the prediction_runs row
    stage,          \* where the task is
    attempt,        \* which attempt of the task this is
    sim,            \* version the attempt computed from, 0 before
    defect,         \* what is wrong with the product being built
    outcome,        \* what the attempt returned, for the run's row
    priced,         \* rows of the attempt's one pricing call
    table,          \* the warehouse tables the flow writes
    header,         \* artifact headers: a set of rows, or NoHeader
    application,    \* calibration application record, or "none"
    decision,       \* the remote executor's decision
    faults

checkpointVars ==
    <<place, registry, evidence, run, stage, attempt, sim, defect, outcome,
      priced, table, header, application, decision, faults>>
flowVars == <<attempt, sim, defect, outcome, priced>>
storeVars == <<table, header, application>>

Row(p, i, x) == [player |-> p, item |-> i, value |-> x]
NoHeader == {Row("none", "none", "none")}       \* pins no row set
Tables == {"projections", "thresholds", "distributions", "exclusions",
           "prices", "predictions", "calibrated"}

(***************************************************************************)
(* The run's row                                                           *)
(***************************************************************************)
Terminal == {"SUCCESS", "PARTIAL", "FAILED", "MISSED"}

\* run_store._ALLOWED_TRANSITIONS, the part this flow meets.
AllowedTransitions ==
    {<<"SCHEDULED", "RUNNING">>, <<"SCHEDULED", "FAILED">>,
     <<"RUNNING", "SUCCESS">>, <<"RUNNING", "PARTIAL">>, <<"RUNNING", "FAILED">>}

Unclaimed == [status |-> "none", publication |-> "NOT_PUBLISHED", code |-> "none"]

UpdateRun(row) ==
    /\ <<run.status, row.status>> \in AllowedTransitions
    /\ run' = row

(***************************************************************************)
(* The products of one simulation                                          *)
(***************************************************************************)
\* The players of the game's two teams that the simulation drew.
Eligible(v) == Evidence[v].eligible

Product(v) == {Row(p, i, Evidence[v].value[p]) : p \in Eligible(v), i \in Items}

\* What a builder returns for the rows it owes: those rows, or one of them is
\* missing, or one of them carries a value its store must refuse.
Built(rows) ==
    LET one == CHOOSE r \in rows : TRUE
    IN  CASE defect = "none" \/ rows = {} -> rows
          [] defect = "short" -> rows \ {one}
          [] OTHER -> (rows \ {one}) \cup {[one EXCEPT !.value = defect]}

CommonDefects == {"none", "null", "nonfinite", "foreign"}
Defects(product) ==
    CASE product = "projections" -> CommonDefects \cup {"short"}
      [] product = "thresholds" -> CommonDefects \cup {"short", "range"}
      [] product = "distributions" -> CommonDefects \cup {"short", "unnormalised"}
      [] product = "prices" -> CommonDefects \cup {"range", "future"}
      [] OTHER -> {"none"}

BuildProjections == Built(Product(sim))
BuildThresholds == Built(Product(sim))
BuildDistributions == Built(Product(sim))
BuildPrices == Built(priced)

RowKey(r) == <<r.player, r.item>>
PlayersOf(rows) == {r.player : r \in rows}
ValuesOf(rows) == {r.value : r \in rows}

(***************************************************************************)
(* Validation: each store refuses a batch it cannot store exactly          *)
(***************************************************************************)

ProjectionValues(rows) == ValuesOf(rows) \cap {"null", "nonfinite"} = {}
ThresholdValues(rows) == ValuesOf(rows) \cap {"null", "nonfinite", "range"} = {}
DistributionValues(rows) == ValuesOf(rows) \cap {"null", "nonfinite"} = {}
PriceValues(rows) == ValuesOf(rows) \cap {"null", "nonfinite", "range"} = {}

\* A PMF sums to one, and its compact encoding decodes to itself.
Normalised(rows) == "unnormalised" \notin ValuesOf(rows)
\* No quote of a batch was received after the run's as_of.
NoFutureQuote(rows) == "future" \notin ValuesOf(rows)

\* The parent run is authoritative for season, week, game and draws.
ProjectionParent(rows) == "foreign" \notin ValuesOf(rows)
ThresholdParent(rows) == "foreign" \notin ValuesOf(rows)
DistributionParent(rows) == "foreign" \notin ValuesOf(rows)
PriceParent(rows) == "foreign" \notin ValuesOf(rows)

\* E * 30 rows, asserted by the task before anything is stored.
ProjectionsComplete(rows) == Cardinality(rows) = Cardinality(Product(sim))

\* The players the stored projections of this run name.
EligibleForThresholds == PlayersOf(table["projections"])
EligibleForDistributions == PlayersOf(table["projections"])

\* Mutant: only that no player outside the projections is in the batch.
ThresholdsNotForeign(rows) ==
    /\ PlayersOf(rows) \subseteq EligibleForThresholds
    /\ {RowKey(r) : r \in rows} = PlayersOf(rows) \X Items

\* E * catalog.event_count rows for exactly the projected players.
ThresholdsComplete(rows) ==
    /\ PlayersOf(rows) = EligibleForThresholds
    /\ {RowKey(r) : r \in rows} = EligibleForThresholds \X Items

\* E * 25 exact PMFs for exactly the projected players.
DistributionsComplete(rows) ==
    /\ PlayersOf(rows) = EligibleForDistributions
    /\ {RowKey(r) : r \in rows} = EligibleForDistributions \X Items

(***************************************************************************)
(* Stored rows                                                             *)
(***************************************************************************)
StoredUnder(name, rows) ==
    {s \in table[name] : \E r \in rows : RowKey(r) = RowKey(s)}

StoredProjections(rows) == StoredUnder("projections", rows)
StoredThresholds(rows) == StoredUnder("thresholds", rows)
StoredPrices(rows) == StoredUnder("prices", rows)

\* A stored row that differs in a scientific field is a conflict: nothing is
\* written.  The same row is left as it was.
ProjectionConflict(rows) == ~(StoredProjections(rows) \subseteq rows)
ThresholdConflict(rows) == ~(StoredThresholds(rows) \subseteq rows)
PriceConflict(rows) == ~(StoredPrices(rows) \subseteq rows)

\* Append with keep="first": an incoming row whose key is stored is dropped.
Install(name, rows) ==
    table' = [table EXCEPT ![name] =
        @ \cup {r \in rows : \A s \in @ : RowKey(s) # RowKey(r)}]
\* Append with the default keep="last": an incoming row replaces the stored.
Replace(name, rows) ==
    table' = [table EXCEPT ![name] =
        {s \in @ : \A r \in rows : RowKey(s) # RowKey(r)} \cup rows]

InsertProjections(rows) == Install("projections", rows)
InsertThresholds(rows) == Install("thresholds", rows)
InsertDistributions(rows) == Install("distributions", rows)
InsertPrices(rows) == Install("prices", rows)

\* A header already stored is compared with the incoming one, never replaced.
DistributionHeader == header["distributions"]
PriceHeader == header["prices"]
DistributionHash(rows) == rows
\* Mutant: the header is made before the last row is taken.
HashOfSome(rows) == rows \ {CHOOSE r \in rows : TRUE}

PriceHash(rows) == rows
PinDistributions(rows) ==
    header' = [header EXCEPT !["distributions"] = DistributionHash(rows)]
PinPrices(rows) == header' = [header EXCEPT !["prices"] = PriceHash(rows)]

(***************************************************************************)
(* Quotes and calibration                                                  *)
(***************************************************************************)
Quoted(v) == Evidence[v].quotes \cap Eligible(v)
\* Quotes of a market the model has no settlement rule for are set aside.
Unsupported(v) == Evidence[v].unsupported \cap Quoted(v)
QuoteRows(v, players) == {Row(p, "quote", Evidence[v].value[p]) : p \in players}
Priced(v) == QuoteRows(v, Quoted(v) \ Unsupported(v))

Troubles == {"scope", "absent", "no champion", "foreign profile", "not certified",
             "science", "config", "missing payload", "corrupt payload"}
ASSUME RegistriesAssumption == Registries \subseteq SUBSET Troubles

\* A champion of this scope and profile.
ChampionResolves ==
    registry \cap {"scope", "absent", "no champion", "foreign profile"} = {}
\* The shipped configuration has the identity the certified pin was fitted on.
ConfigMatches == "config" \notin registry
\* The champion, checked against the certified pin, the run's science, the
\* configuration and the bytes of its payload.
Resolved ==
    /\ ChampionResolves
    /\ registry \cap {"not certified", "science"} = {}
    /\ ConfigMatches
    /\ registry \cap {"missing payload", "corrupt payload"} = {}

\* Every priced row has an event under the calibrated draw weights.
Calibrated(rows) == {[r EXCEPT !.item = "calibrated"] : r \in rows}

\* What the gate reads back: the run's one application record.
GateApplied == Resolved /\ application = "APPLIED"

PublicReasons ==
    (IF run.status # "SUCCESS" THEN {"RUN_STATUS"} ELSE {})
    \cup (IF run.publication # "PUBLISHED" THEN {"PUBLICATION_STATUS"} ELSE {})
    \cup (IF table["distributions"] = {} THEN {"EXACT_PMFS_MISSING"} ELSE {})
    \cup (IF ~GateApplied THEN {"CALIBRATION"} ELSE {})

\* Rows of the public document: calibrated quotes received before the as_of,
\* not older than the checkpoint allows, of players the projections place.
PublicRows ==
    {r \in table["calibrated"] :
        /\ r.player \notin Evidence[sim].stale
        /\ r.player \in PlayersOf(table["projections"])}

EmptyTables == [name \in Tables |-> {}]
NoHeaders == [name \in {"distributions", "prices"} |-> NoHeader]

CheckpointInit ==
    /\ place \in {"local", "remote"}
    /\ registry \in Registries
    /\ evidence = 1
    /\ run = IF place = "remote" THEN [Unclaimed EXCEPT !.status = "SCHEDULED"]
             ELSE Unclaimed
    /\ stage = "idle"
    /\ attempt = 0 /\ sim = 0 /\ defect = "none" /\ outcome = Unclaimed /\ priced = {}
    /\ table = EmptyTables /\ header = NoHeaders /\ application = "none"
    /\ decision = "none"
    /\ faults = 0

\* A storage exception or the death of the process, MaxFaults of them.
Fault == faults < MaxFaults /\ faults' = faults + 1

(***************************************************************************)
(* The environment                                                         *)
(***************************************************************************)
\* The collector commits rows it had received before the run's as_of.
LateRow ==
    /\ place = "local" /\ evidence < Len(Evidence)
    /\ evidence' = evidence + 1
    /\ UNCHANGED <<place, registry, run, stage, flowVars, storeVars, decision, faults>>

\* The process dies: a local warehouse stays as it is, a restored snapshot is
\* gone and the next attempt restores it again.
Kill ==
    /\ stage \notin {"idle", "over", "killed"} /\ Fault
    /\ stage' = IF place = "remote" THEN "idle" ELSE "killed"
    /\ attempt' = 0 /\ sim' = 0 /\ defect' = "none" /\ priced' = {}
    /\ outcome' = Unclaimed
    /\ IF place = "remote"
       THEN /\ run' = [Unclaimed EXCEPT !.status = "SCHEDULED"]
            /\ table' = EmptyTables /\ header' = NoHeaders /\ application' = "none"
       ELSE UNCHANGED <<run, storeVars>>
    /\ UNCHANGED <<place, registry, evidence, decision>>

(***************************************************************************)
(* Claim and start                                                         *)
(***************************************************************************)
\* The dispatcher claims a due checkpoint, or records it missed; the claim of
\* a run that exists fails, whatever its status.
Claim ==
    /\ place = "local" /\ stage = "idle"
    /\ \E status \in {"SCHEDULED", "MISSED"} :
           /\ run' = [Unclaimed EXCEPT !.status = status]
           /\ stage' = IF status = "MISSED" THEN "over" ELSE "claimed"
    /\ UNCHANGED <<place, registry, evidence, flowVars, storeVars, decision, faults>>

Start ==
    /\ IF place = "remote" THEN stage = "idle" ELSE stage = "claimed"
    /\ UpdateRun([Unclaimed EXCEPT !.status = "RUNNING"])
    /\ stage' = "compute" /\ attempt' = 1
    /\ UNCHANGED <<place, registry, evidence, sim, defect, outcome, priced, storeVars,
                   decision, faults>>

(***************************************************************************)
(* How an attempt goes on or ends                                          *)
(***************************************************************************)
Goto(next) ==
    /\ stage' = next
    /\ defect' \in Defects(next)
    /\ UNCHANGED <<place, registry, evidence, run, attempt, sim, outcome, decision>>

\* The attempt returns what the flow maps to a terminal status.
Return(status, publication, code) ==
    /\ stage' = "record"
    /\ outcome' = [status |-> status, publication |-> publication, code |-> code]
    /\ defect' = "none"
    /\ UNCHANGED <<place, registry, evidence, run, attempt, sim, priced, decision>>

\* Only exceptions that are not of the model's own making, and not too often.
Retryable(kind) == kind = "transient" /\ attempt <= MaxRetries

\* The attempt raises: it is made again from the start, with the same run and
\* the tables as they are, or the flow fails.
Raise(kind) ==
    IF Retryable(kind)
    THEN /\ stage' = "compute" /\ attempt' = attempt + 1
         /\ sim' = 0 /\ defect' = "none"
         /\ UNCHANGED <<place, registry, evidence, run, outcome, priced, decision>>
    ELSE \E code \in {IF kind = "leakage" THEN "LEAKAGE_VIOLATION"
                      ELSE "PREDICTION_ERROR"} :
             Return("FAILED", "NOT_PUBLISHED", code)

(***************************************************************************)
(* The task                                                                *)
(***************************************************************************)
\* compute_game_prediction: the one coherent simulation of this attempt.
Compute ==
    /\ stage = "compute"
    /\ sim' = evidence
    /\ stage' = "projections"
    /\ defect' \in Defects("projections")
    /\ UNCHANGED <<place, registry, evidence, run, attempt, outcome, priced, storeVars,
                   decision, faults>>

\* No game visible at the as_of, or no state for one of its teams.
NotModeled ==
    /\ stage = "compute"
    /\ \E code \in {"GAME_NOT_FOUND", "GAME_NOT_MODELED"} :
           Return("FAILED", "NOT_PUBLISHED", code)
    /\ UNCHANGED <<storeVars, faults>>

ComputeRaises ==
    /\ stage = "compute" /\ Fault
    /\ \E kind \in {"transient", "leakage"} : Raise(kind)
    /\ UNCHANGED storeVars

ProjectionsAccepted(rows) ==
    /\ ProjectionsComplete(rows) /\ ProjectionValues(rows) /\ ProjectionParent(rows)
    /\ ~ProjectionConflict(rows)

PersistProjections ==
    /\ stage = "projections"
    /\ IF ProjectionsAccepted(BuildProjections)
       THEN /\ InsertProjections(BuildProjections)
            /\ Goto("thresholds") /\ UNCHANGED priced
       ELSE Raise("deterministic") /\ UNCHANGED table
    /\ UNCHANGED <<header, application, faults>>

ProjectionAppendRaises ==
    /\ stage = "projections" /\ ProjectionsAccepted(BuildProjections) /\ Fault
    /\ \/ UNCHANGED table
       \/ InsertProjections(BuildProjections)
    /\ Raise("transient")
    /\ UNCHANGED <<header, application>>

ThresholdsAccepted(rows) ==
    /\ ThresholdValues(rows) /\ ThresholdParent(rows) /\ ThresholdsComplete(rows)
    /\ ~ThresholdConflict(rows)

ThresholdsFail == Return("PARTIAL", "NOT_PUBLISHED", "THRESHOLD_ERROR")

\* Only the remote executor asks for the exact distributions.
AfterThresholds == IF place = "remote" THEN "distributions" ELSE "pricing"

PersistThresholds ==
    /\ stage = "thresholds"
    /\ IF ThresholdsAccepted(BuildThresholds)
       THEN /\ InsertThresholds(BuildThresholds)
            /\ Goto(AfterThresholds) /\ UNCHANGED priced
       ELSE ThresholdsFail /\ UNCHANGED table
    /\ UNCHANGED <<header, application, faults>>

ThresholdAppendRaises ==
    /\ stage = "thresholds" /\ ThresholdsAccepted(BuildThresholds) /\ Fault
    /\ \/ UNCHANGED table
       \/ InsertThresholds(BuildThresholds)
    /\ ThresholdsFail
    /\ UNCHANGED <<header, application>>

DistributionsAccepted(rows) ==
    /\ DistributionValues(rows) /\ Normalised(rows) /\ DistributionParent(rows)
    /\ DistributionsComplete(rows)
    /\ DistributionHeader \in {NoHeader, DistributionHash(rows)}

DistributionsFail == Return("PARTIAL", "NOT_PUBLISHED", "DISTRIBUTION_ERROR")

\* The local store appends the rows, then the header that pins them.
PersistDistributions ==
    /\ stage = "distributions"
    /\ IF DistributionsAccepted(BuildDistributions)
       THEN /\ InsertDistributions(BuildDistributions)
            /\ stage' = "distribution header"
            /\ UNCHANGED <<place, registry, evidence, run, flowVars, decision>>
       ELSE DistributionsFail /\ UNCHANGED table
    /\ UNCHANGED <<header, application, faults>>

PersistDistributionHeader ==
    /\ stage = "distribution header"
    /\ PinDistributions(BuildDistributions)
    /\ Goto("pricing")
    /\ UNCHANGED <<priced, table, application, faults>>

DistributionAppendRaises ==
    /\ Fault
    /\ \/ /\ stage = "distributions" /\ DistributionsAccepted(BuildDistributions)
          /\ UNCHANGED header
       \/ /\ stage = "distribution header"
          /\ UNCHANGED header \/ PinDistributions(BuildDistributions)
    /\ DistributionsFail
    /\ UNCHANGED <<table, application>>

PricingFails == Return("PARTIAL", "NOT_PUBLISHED", "PREDICTION_ERROR")

\* Mutant: the legacy mirror is written before the certified prices are.
MirrorFirst ==
    table' = [table EXCEPT !["exclusions"] = QuoteRows(sim, Unsupported(sim)),
                           !["predictions"] = Priced(sim)]

\* The quotes without a settlement rule are set aside and stored as such.
PersistExclusions == Install("exclusions", QuoteRows(sim, Unsupported(sim)))

\* One pricing call of the attempt's simulation, on its supported quotes.
Price ==
    /\ stage = "pricing"
    /\ PersistExclusions
    /\ priced' = Priced(sim)
    /\ Goto("prices")
    /\ UNCHANGED <<header, application, faults>>

PriceRaises ==
    /\ stage = "pricing" /\ Fault
    /\ UNCHANGED table \/ PersistExclusions
    /\ PricingFails
    /\ UNCHANGED <<header, application>>

PricesAccepted(rows) ==
    /\ PriceValues(rows) /\ NoFutureQuote(rows) /\ PriceParent(rows)
    /\ PriceHeader \in {NoHeader, PriceHash(rows)}
    /\ ~PriceConflict(rows)

PricingPersistFails == Return("PARTIAL", "NOT_PUBLISHED", "PRICING_PERSISTENCE_ERROR")

PersistPrices ==
    /\ stage = "prices"
    /\ IF PricesAccepted(BuildPrices)
       THEN /\ InsertPrices(BuildPrices)
            /\ stage' = "price header"
            /\ UNCHANGED <<place, registry, evidence, run, flowVars, decision>>
       ELSE PricingPersistFails /\ UNCHANGED table
    /\ UNCHANGED <<header, application, faults>>

PersistPriceHeader ==
    /\ stage = "price header"
    /\ PinPrices(BuildPrices)
    /\ Goto("mirror")
    /\ UNCHANGED <<priced, table, application, faults>>

PriceAppendRaises ==
    /\ Fault
    /\ \/ /\ stage = "prices" /\ PricesAccepted(BuildPrices)
          /\ UNCHANGED header
       \/ /\ stage = "price header"
          /\ UNCHANGED header \/ PinPrices(BuildPrices)
    /\ PricingPersistFails
    /\ UNCHANGED <<table, application>>

\* The legacy predictions table, from the same priced rows, keep="last".
PersistCurrentPricing == Replace("predictions", priced)

Mirror ==
    /\ stage = "mirror"
    /\ PersistCurrentPricing
    /\ Goto("calibrate")
    /\ UNCHANGED <<priced, header, application, faults>>

MirrorRaises ==
    /\ stage = "mirror" /\ Fault
    /\ UNCHANGED table \/ PersistCurrentPricing
    /\ Return("PARTIAL", "NOT_PUBLISHED", "LEGACY_PRICING_MIRROR_ERROR")
    /\ UNCHANGED <<header, application>>

Publication == IF priced = {} THEN "MODEL_ONLY" ELSE "PUBLISHED"

\* Only the remote executor, with a resolved champion, has a post-pricing step.
CalibrationStep == place = "remote" /\ Resolved

SkipCalibration ==
    /\ stage = "calibrate" /\ ~CalibrationStep
    /\ Return("SUCCESS", Publication, "none")
    /\ UNCHANGED <<storeVars, faults>>

\* The rows of the calibrated product; then the record that says what became
\* of them.  A failure of either never reaches the run's status.
Calibrate ==
    /\ stage = "calibrate" /\ CalibrationStep
    /\ \/ /\ Install("calibrated", Calibrated(priced))
          /\ stage' = "applied" /\ UNCHANGED faults
       \/ /\ UNCHANGED table \/ Install("calibrated", Calibrated(priced))
          /\ stage' = "application failed" /\ Fault
    /\ UNCHANGED <<place, registry, evidence, run, flowVars, header, application,
                   decision>>

\* Mutant: the record says APPLIED whether or not the rows were written.
AlwaysApplied == "APPLIED"

ApplicationStatus ==
    IF stage = "applied" THEN "APPLIED" ELSE "APPLICATION_FAILED"

RecordApplication ==
    /\ stage \in {"applied", "application failed"}
    /\ \/ application' = ApplicationStatus /\ UNCHANGED faults
       \/ Fault /\ application' \in {application, ApplicationStatus}
    /\ Return("SUCCESS", Publication, "none")
    /\ UNCHANGED <<table, header>>

(***************************************************************************)
(* The end of the flow                                                     *)
(***************************************************************************)
RecordStatus ==
    /\ stage = "record"
    /\ UpdateRun(outcome)
    /\ stage' = IF place = "remote" THEN "decide" ELSE "over"
    /\ UNCHANGED <<place, registry, evidence, flowVars, storeVars, decision, faults>>

\* The append of the status itself raises: the dispatcher then records FAILED,
\* or lets the exception out when the row had become terminal after all.
RecordRaises ==
    /\ stage = "record" /\ place = "local" /\ Fault
    /\ \/ UpdateRun([status |-> "FAILED", publication |-> "NOT_PUBLISHED",
                     code |-> "PREDICTION_ERROR"])
       \/ UpdateRun(outcome)
    /\ stage' = "over"
    /\ UNCHANGED <<place, registry, evidence, flowVars, storeVars, decision>>

\* What the executor reports beside the tables it exports.
Decide ==
    /\ stage = "decide"
    /\ decision' = IF PublicReasons = {} THEN "PUBLIC_READY" ELSE "NOT_PUBLIC_READY"
    /\ stage' = "over"
    /\ UNCHANGED <<place, registry, evidence, run, flowVars, storeVars, faults>>

Task ==
    \/ Compute \/ NotModeled
    \/ PersistProjections \/ PersistThresholds
    \/ PersistDistributions \/ PersistDistributionHeader
    \/ Price \/ PersistPrices \/ PersistPriceHeader
    \/ Mirror \/ SkipCalibration \/ Calibrate \/ RecordApplication
    \/ RecordStatus \/ Decide

Raises ==
    \/ ComputeRaises \/ ProjectionAppendRaises \/ ThresholdAppendRaises
    \/ DistributionAppendRaises \/ PriceRaises \/ PriceAppendRaises
    \/ MirrorRaises \/ RecordRaises

CheckpointNext == LateRow \/ Kill \/ Claim \/ Start \/ Task \/ Raises

(***************************************************************************)
(* Properties                                                              *)
(***************************************************************************)
Stages == {"idle", "claimed", "compute", "projections", "thresholds", "distributions",
           "distribution header", "pricing", "prices", "price header", "mirror",
           "calibrate", "applied", "application failed", "record", "decide", "over",
           "killed"}

\* The failures of the stages after the thresholds.
CodesPastThresholds ==
    {"DISTRIBUTION_ERROR", "PREDICTION_ERROR", "PRICING_PERSISTENCE_ERROR",
     "LEGACY_PRICING_MIRROR_ERROR"}

\* The types of the variables.
TypeOK ==
    /\ place \in {"local", "remote"} /\ registry \subseteq Troubles
    /\ evidence \in Versions /\ sim \in 0..Len(Evidence)
    /\ stage \in Stages
    /\ attempt \in 0..(MaxRetries + 1) /\ faults \in 0..MaxFaults
    /\ run.status \in Terminal \cup {"none", "SCHEDULED", "RUNNING"}
    /\ run.publication \in {"NOT_PUBLISHED", "MODEL_ONLY", "PUBLISHED"}
    /\ \A name \in Tables : PlayersOf(table[name]) \subseteq Players
    /\ decision \in {"none", "PUBLIC_READY", "NOT_PUBLIC_READY"}

\* What a run stores once its thresholds are in place is one computation: every
\* artifact is exactly what its last attempt simulated and priced, though an
\* earlier attempt may have stored rows computed from other evidence
\* (projection_store._classify, threshold_event_store._validate_completeness).
OneComputation ==
    LET failedAt(codes) == run.status = "PARTIAL" /\ run.code \in codes
        success == run.status = "SUCCESS"
    IN  /\ success \/ failedAt(CodesPastThresholds) =>
               table["projections"] = Product(sim) /\ table["thresholds"] = Product(sim)
        /\ success =>
               /\ place = "remote" => table["distributions"] = Product(sim)
               /\ table["prices"] = Priced(sim) /\ table["predictions"] = Priced(sim)

\* A stored header pins exactly the rows stored for the run, whatever failed
\* between the two appends (distribution_store._insert_local,
\* pricing_store._insert_local).
HeadersPinRows ==
    /\ DistributionHeader \in {NoHeader, table["distributions"]}
    /\ PriceHeader \in {NoHeader, table["prices"]}

\* The failure a PARTIAL run names tells how far its artifacts go: what was
\* simulated is stored, and nothing of the stages after the failed one exists
\* (flows/checkpoints.py, _run_game_checkpoint_task).
FailureBoundsArtifacts ==
    LET none(names) == \A name \in names : table[name] = {}
    IN  run.status = "PARTIAL" =>
            /\ Product(sim) \subseteq table["projections"]
            /\ none({"calibrated"})
            /\ run.code # "LEGACY_PRICING_MIRROR_ERROR" => none({"predictions"})
            /\ run.code = "LEGACY_PRICING_MIRROR_ERROR" => PriceHeader = table["prices"]
            /\ run.code \in {"THRESHOLD_ERROR", "DISTRIBUTION_ERROR"} => none({"prices"})
            /\ run.code = "THRESHOLD_ERROR" => none({"distributions"})

\* What is decided public is calibrated by a champion that resolved, row for
\* row of what was priced, with its exact distributions stored and pinned
\* (remote_checkpoint.public_decision, evaluate_calibration_gate).
PublicIsBacked ==
    decision = "PUBLIC_READY" =>
        /\ registry = {} /\ run.publication = "PUBLISHED"
        /\ table["calibrated"] = Calibrated(table["prices"])
        /\ PublicRows \subseteq Calibrated(PriceHeader)
        /\ DistributionHeader = Product(sim)
=============================================================================
