----------------------------- MODULE FlowProofs -----------------------------
(***************************************************************************)
(* Two proofs about one checkpoint.                                        *)
(*                                                                         *)
(* What a checkpoint has stored when it ends, for every evidence that may  *)
(* arrive between two attempts, every defect of a product and every number *)
(* of retries, storage exceptions and kills (CheckpointFlow).  The         *)
(* inductive invariant FlowInv says what is stored at each stage of an     *)
(* attempt.  It rests on two facts: only the projections outlive an        *)
(* attempt that is made again, and the thresholds are refused unless they  *)
(* are of exactly the projected players, so rows of an earlier attempt's   *)
(* evidence cannot be joined to those of a later one.                      *)
(*                                                                         *)
(* What its simulation and its products say, for every squad, number of    *)
(* draws, quarters and events, every gain, catalog and quote               *)
(* (GameSimulation, ForecastProducts).  The inductive invariant SimInv     *)
(* says what the line of a period is and how many each draw has.  The      *)
(* rest is counting: a total by players and by periods is the same, and    *)
(* draws counted one by one, in order, or by their values are as many.     *)
(* Sums are folds, so what is said of them is proved by induction over     *)
(* the subsets of a finite set (SubsetInduction), from the library's       *)
(* theorem that proper inclusion of finite sets is well founded.           *)
(***************************************************************************)
EXTENDS CheckpointForecast, FiniteSetTheorems, WellFoundedInduction, SequenceTheorems, TLAPS

-----------------------------------------------------------------------------
(* What is stored at each stage. *)

Nothing(names) == \A name \in names : table[name] = {}

\* Nothing but projections.
OnlyProjections ==
    Nothing(Tables \ {"projections"}) /\ header = NoHeaders /\ application = "none"

\* Projections are rows of items; those of this attempt are among them, and
\* others are of other players.
Projected ==
    /\ Product(sim) \subseteq table["projections"]
    /\ \A s \in table["projections"] :
           RowKey(s) \in {RowKey(r) : r \in Product(sim)} => s \in Product(sim)

Thresholded == table["projections"] = Product(sim) /\ table["thresholds"] = Product(sim)

Distributed ==
    IF place = "remote"
    THEN table["distributions"] = Product(sim) /\ DistributionHeader = Product(sim)
    ELSE table["distributions"] = {} /\ DistributionHeader = NoHeader

PricesPinned ==
    priced = Priced(sim) /\ table["prices"] = Priced(sim) /\ PriceHeader = Priced(sim)

\* What the rows of a run say of what it stored: of the row an attempt
\* returned, and of the run's own.
Accounted(row) ==
    /\ row.status = "SUCCESS" =>
           /\ Thresholded /\ Distributed /\ PricesPinned
           /\ table["predictions"] = Priced(sim)
           /\ application = "APPLIED" => table["calibrated"] = Calibrated(priced)
    /\ row.status = "PARTIAL" =>
           /\ Product(sim) \subseteq table["projections"] /\ Nothing({"calibrated"})
           /\ row.code # "LEGACY_PRICING_MIRROR_ERROR" => Nothing({"predictions"})
           /\ row.code = "LEGACY_PRICING_MIRROR_ERROR" => PriceHeader = table["prices"]
           /\ row.code \in {"THRESHOLD_ERROR", "DISTRIBUTION_ERROR"} => Nothing({"prices"})
           /\ row.code = "THRESHOLD_ERROR" => Nothing({"distributions"})
           /\ row.code \in CodesPastThresholds => Thresholded

Priceless == Nothing({"prices", "predictions", "calibrated"}) /\ PriceHeader = NoHeader

AtStage ==
    /\ stage \in {"idle", "claimed", "compute", "projections"} => OnlyProjections
    /\ stage = "thresholds" => OnlyProjections /\ Projected
    /\ stage \in {"distributions", "distribution header", "pricing", "prices", "price header",
                  "mirror", "calibrate", "applied", "application failed"} =>
           Thresholded /\ application = "none"
    /\ stage \in {"distributions", "distribution header"} =>
           place = "remote" /\ Priceless /\ DistributionHeader = NoHeader
    /\ stage = "distributions" => Nothing({"distributions"})
    /\ stage = "distribution header" =>
           table["distributions"] = Product(sim) /\ BuildDistributions = Product(sim)
    /\ stage \in {"pricing", "prices", "price header", "mirror", "calibrate", "applied",
                  "application failed"} => Distributed
    /\ stage \in {"pricing", "prices"} => Priceless
    /\ stage \in {"prices", "price header"} => priced = Priced(sim)
    /\ stage = "price header" =>
           /\ table["prices"] = Priced(sim) /\ BuildPrices = Priced(sim)
           /\ PriceHeader = NoHeader
    /\ stage \in {"mirror", "calibrate", "applied", "application failed"} => PricesPinned
    /\ stage \in {"price header", "mirror"} => Nothing({"predictions", "calibrated"})
    /\ stage \in {"calibrate", "applied", "application failed"} =>
           table["predictions"] = Priced(sim)
    /\ stage = "calibrate" => Nothing({"calibrated"})
    /\ stage = "applied" => table["calibrated"] = Calibrated(priced)
    /\ stage = "record" => Accounted(outcome)
    /\ stage \in {"decide", "over"} => Accounted(run)

StoreShape ==
    /\ table = [name \in Tables |-> table[name]]
    /\ header = [name \in {"distributions", "prices"} |-> header[name]]
    /\ \A s \in table["projections"] : s.item \in Items

Shape ==
    /\ place \in {"local", "remote"} /\ registry \in Registries /\ evidence \in Versions
    /\ stage \in {"projections", "thresholds", "distributions", "prices"} =>
           defect \in Defects(stage)
    /\ stage = "projections" => sim \in Versions
    /\ stage \notin {"decide", "over"} => run.status \notin {"SUCCESS", "PARTIAL"}
    /\ stage = "decide" => place = "remote"
    /\ decision = "PUBLIC_READY" => stage = "over"

FlowInv == StoreShape /\ Shape /\ AtStage /\ HeadersPinRows /\ PublicIsBacked

-----------------------------------------------------------------------------
(* A batch that its store accepts is the batch that was owed. *)

LEMMA ProductRows ==
    ASSUME NEW v
    PROVE  /\ \A r \in Product(v) : /\ r.player \in Eligible(v) /\ r.item \in Items
                                   /\ r = Row(r.player, r.item, Evidence[v].value[r.player])
           /\ \A p \in Eligible(v), i \in Items : Row(p, i, Evidence[v].value[p]) \in Product(v)
           /\ \A r, s \in Product(v) : RowKey(r) = RowKey(s) => r = s
  BY DEF Product, Row, RowKey

LEMMA PricedRows ==
    ASSUME NEW v, NEW r \in Priced(v)
    PROVE  r = Row(r.player, r.item, r.value)
  BY DEF Priced, QuoteRows, Row

\* A builder's row carries the value that is wrong with it.
LEMMA DefectShows ==
    ASSUME NEW rows, \A r \in rows : r = Row(r.player, r.item, r.value),
           rows # {}, defect \notin {"none", "short"}
    PROVE  defect \in ValuesOf(Built(rows))
  <1>. DEFINE one == CHOOSE r \in rows : TRUE
  <1>1. one \in rows
    OBVIOUS
  <1>2. [one EXCEPT !.value = defect].value = defect
    BY <1>1 DEF Row
  <1>3. [one EXCEPT !.value = defect] \in Built(rows)
    BY DEF Built
  <1>. QED
    BY <1>2, <1>3 DEF ValuesOf

LEMMA NothingOwed ==
    ASSUME NEW rows, rows = {} \/ defect = "none"
    PROVE  Built(rows) = rows
  BY DEF Built

LEMMA OneShort ==
    ASSUME NEW rows, rows # {}, defect = "short"
    PROVE  \E one \in rows : Built(rows) = rows \ {one}
  BY DEF Built

LEMMA FiniteProduct ==
    ASSUME NEW v \in Versions
    PROVE  IsFiniteSet(Product(v))
  <1>1. IsFiniteSet(Eligible(v) \X Items)
    BY EvidenceAssumption, FS_Product DEF Eligible
  <1>. DEFINE f == [k \in Eligible(v) \X Items |-> Row(k[1], k[2], Evidence[v].value[k[1]])]
  <1>2. f \in Surjection(Eligible(v) \X Items, Product(v))
    <2>1. f \in [Eligible(v) \X Items -> Product(v)]
      BY ProductRows
    <2>2. ASSUME NEW r \in Product(v)
          PROVE  \E k \in Eligible(v) \X Items : f[k] = r
      <3>1. <<r.player, r.item>> \in Eligible(v) \X Items /\ f[<<r.player, r.item>>] = r
        BY ProductRows
      <3>. QED
        BY <3>1
    <2>. QED
      BY <2>1, <2>2 DEF Surjection
  <1>. QED
    BY <1>1, <1>2, FS_Surjection

LEMMA ProjectionsAreOwed ==
    ASSUME Shape, stage = "projections", ProjectionsAccepted(BuildProjections)
    PROVE  BuildProjections = Product(sim)
  <1>. DEFINE rows == Product(sim)
  <1>1. CASE rows = {} \/ defect = "none"
    BY <1>1, NothingOwed DEF BuildProjections
  <1>2. CASE rows # {} /\ defect = "short"
    <2>1. PICK one \in rows : BuildProjections = rows \ {one}
      BY <1>2, OneShort DEF BuildProjections
    <2>2. IsFiniteSet(rows)
      BY FiniteProduct DEF Shape
    <2>3. Cardinality(rows \ {one}) = Cardinality(rows) - 1 /\ Cardinality(rows) \in Nat
      BY <2>2, FS_RemoveElement, FS_CardinalityType
    <2>. QED
      BY <2>1, <2>3 DEF ProjectionsAccepted, ProjectionsComplete
  <1>3. CASE rows # {} /\ defect \notin {"none", "short"}
    <2>1. defect \in ValuesOf(BuildProjections)
      BY <1>3, DefectShows, ProductRows DEF BuildProjections, Row
    <2>2. defect \in {"null", "nonfinite", "foreign"}
      BY <1>3 DEF Shape, Defects, CommonDefects
    <2>. QED
      BY <2>1, <2>2 DEF ProjectionsAccepted, ProjectionValues, ProjectionParent
  <1>. QED
    BY <1>1, <1>2, <1>3

\* A batch of the projected players that names every item of each is whole.
LEMMA KeysComplete ==
    ASSUME Projected, NEW rows \in SUBSET Product(sim),
           {RowKey(r) : r \in rows} = PlayersOf(table["projections"]) \X Items
    PROVE  rows = Product(sim)
  <1>. SUFFICES ASSUME NEW r \in Product(sim) PROVE r \in rows
    OBVIOUS
  <1>1. r.player \in PlayersOf(table["projections"]) /\ r.item \in Items
    BY ProductRows DEF Projected, PlayersOf
  <1>2. RowKey(r) \in {RowKey(s) : s \in rows}
    BY <1>1 DEF RowKey
  <1>3. PICK s \in rows : RowKey(s) = RowKey(r)
    BY <1>2
  <1>. QED
    BY <1>3, ProductRows

LEMMA ThresholdsAreOwed ==
    ASSUME Shape, Projected, stage = "thresholds", ThresholdsAccepted(BuildThresholds)
    PROVE  BuildThresholds = Product(sim)
  <1>. DEFINE rows == Product(sim)
  <1>1. CASE rows = {} \/ defect = "none"
    BY <1>1, NothingOwed DEF BuildThresholds
  <1>2. CASE rows # {} /\ defect = "short"
    <2>1. PICK one \in rows : BuildThresholds = rows \ {one}
      BY <1>2, OneShort DEF BuildThresholds
    <2>. QED
      BY <2>1, KeysComplete DEF ThresholdsAccepted, ThresholdsComplete, EligibleForThresholds
  <1>3. CASE rows # {} /\ defect \notin {"none", "short"}
    <2>1. defect \in ValuesOf(BuildThresholds)
      BY <1>3, DefectShows, ProductRows DEF BuildThresholds, Row
    <2>2. defect \in {"null", "nonfinite", "foreign", "range"}
      BY <1>3 DEF Shape, Defects, CommonDefects
    <2>. QED
      BY <2>1, <2>2 DEF ThresholdsAccepted, ThresholdValues, ThresholdParent
  <1>. QED
    BY <1>1, <1>2, <1>3

\* And if they are of exactly the projected players, the projections are of
\* this attempt alone.
LEMMA OneEvidence ==
    ASSUME StoreShape, Projected, PlayersOf(Product(sim)) = PlayersOf(table["projections"])
    PROVE  table["projections"] = Product(sim)
  <1>. SUFFICES ASSUME NEW s \in table["projections"] PROVE s \in Product(sim)
    BY DEF Projected
  <1>1. PICK r \in Product(sim) : r.player = s.player
    BY DEF PlayersOf
  <1>2. s.player \in Eligible(sim) /\ s.item \in Items
    BY <1>1, ProductRows DEF StoreShape
  <1>. DEFINE q == Row(s.player, s.item, Evidence[sim].value[s.player])
  <1>3. q \in Product(sim)
    BY <1>2, ProductRows
  <1>4. RowKey(q) = RowKey(s)
    BY DEF RowKey, Row
  <1>. QED
    BY <1>3, <1>4 DEF Projected

LEMMA DistributionsAreOwed ==
    ASSUME Shape, Thresholded, stage = "distributions",
           DistributionsAccepted(BuildDistributions)
    PROVE  BuildDistributions = Product(sim)
  <1>. DEFINE rows == Product(sim)
  <1>1. CASE rows = {} \/ defect = "none"
    BY <1>1, NothingOwed DEF BuildDistributions
  <1>2. CASE rows # {} /\ defect = "short"
    <2>1. PICK one \in rows : BuildDistributions = rows \ {one}
      BY <1>2, OneShort DEF BuildDistributions
    <2>2. Projected
      BY DEF Thresholded, Projected
    <2>. QED
      BY <2>1, <2>2, KeysComplete
      DEF DistributionsAccepted, DistributionsComplete, EligibleForDistributions
  <1>3. CASE rows # {} /\ defect \notin {"none", "short"}
    <2>1. defect \in ValuesOf(BuildDistributions)
      BY <1>3, DefectShows, ProductRows DEF BuildDistributions, Row
    <2>2. defect \in {"null", "nonfinite", "foreign", "unnormalised"}
      BY <1>3 DEF Shape, Defects, CommonDefects
    <2>. QED
      BY <2>1, <2>2
      DEF DistributionsAccepted, DistributionValues, DistributionParent, Normalised
  <1>. QED
    BY <1>1, <1>2, <1>3

LEMMA PricesAreOwed ==
    ASSUME Shape, priced = Priced(sim), stage = "prices", PricesAccepted(BuildPrices)
    PROVE  BuildPrices = Priced(sim)
  <1>1. CASE priced = {} \/ defect = "none"
    BY <1>1, NothingOwed DEF BuildPrices
  <1>2. CASE priced # {} /\ defect # "none"
    <2>1. defect \in {"null", "nonfinite", "foreign", "range", "future"}
      BY <1>2 DEF Shape, Defects, CommonDefects
    <2>2. defect \in ValuesOf(BuildPrices)
      BY <1>2, <2>1, DefectShows, PricedRows DEF BuildPrices
    <2>. QED
      BY <2>1, <2>2 DEF PricesAccepted, PriceValues, PriceParent, NoFutureQuote
  <1>. QED
    BY <1>1, <1>2

-----------------------------------------------------------------------------
(* Tables and how a step leaves the invariant alone. *)

TableShape(t) == t = [name \in Tables |-> t[name]]

LEMMA Installed ==
    ASSUME TableShape(table), NEW name \in Tables, NEW rows, Install(name, rows)
    PROVE  /\ TableShape(table')
           /\ \A other \in Tables \ {name} : table'[other] = table[other]
           /\ table[name] = {} => table'[name] = rows
           /\ table'[name] =
                table[name] \cup {r \in rows : \A s \in table[name] : RowKey(s) # RowKey(r)}
  BY DEF TableShape, Install

LEMMA Replaced ==
    ASSUME TableShape(table), Replace("predictions", priced), table["predictions"] = {}
    PROVE  /\ TableShape(table')
           /\ \A other \in Tables \ {"predictions"} : table'[other] = table[other]
           /\ table'["predictions"] = priced
  BY DEF TableShape, Replace, Tables

\* A step that does not end the run and publishes nothing.
LEMMA Goes ==
    ASSUME FlowInv, stage \notin {"decide", "over"},
           UNCHANGED <<place, registry, evidence, run, decision>>,
           stage' \notin {"projections", "decide", "over"},
           stage' \in {"thresholds", "distributions", "prices"} => defect' \in Defects(stage'),
           StoreShape', AtStage', HeadersPinRows'
    PROVE  FlowInv'
  <1>1. Shape'
    BY DEF FlowInv, Shape
  <1>2. decision' # "PUBLIC_READY"
    BY DEF FlowInv, Shape
  <1>3. PublicIsBacked'
    BY <1>2 DEF PublicIsBacked
  <1>. QED
    BY <1>1, <1>3 DEF FlowInv

LEMMA Returns ==
    ASSUME FlowInv, stage \notin {"decide", "over"}, NEW status, NEW publication, NEW code,
           Return(status, publication, code), StoreShape', HeadersPinRows', Accounted(outcome)'
    PROVE  FlowInv'
  <1>1. stage' = "record" /\ UNCHANGED <<place, registry, evidence, run, decision>>
    BY DEF Return
  <1>2. AtStage'
    BY <1>1 DEF AtStage
  <1>. QED
    BY <1>1, <1>2, Goes

-----------------------------------------------------------------------------
(* Before the task, and beside it. *)

LEMMA StoresKept ==
    ASSUME StoreShape, HeadersPinRows, UNCHANGED <<table, header>>
    PROVE  StoreShape' /\ HeadersPinRows'
  BY DEF StoreShape, HeadersPinRows, DistributionHeader, PriceHeader

LEMMA BesideKeeps ==
    ASSUME FlowInv, LateRow \/ UNCHANGED checkpointVars
    PROVE  FlowInv'
  <1>1. UNCHANGED <<place, registry, run, stage, flowVars, storeVars, decision>>
    BY DEF LateRow, checkpointVars, flowVars, storeVars
  <1>2. evidence' \in Versions
    BY EvidenceAssumption DEF LateRow, checkpointVars, Versions, FlowInv, Shape
  <1>3. Shape'
    BY <1>1, <1>2 DEF FlowInv, Shape, flowVars
  <1>4. StoreShape' /\ HeadersPinRows'
    BY <1>1, StoresKept DEF FlowInv, storeVars
  <1>5. AtStage'
    <2>1. /\ \A names : Nothing(names)' <=> Nothing(names)
          /\ OnlyProjections' <=> OnlyProjections
          /\ Priceless' <=> Priceless
      BY <1>1 DEF flowVars, storeVars, OnlyProjections, Nothing, Priceless, PriceHeader
    <2>2. (Projected' <=> Projected) /\ (Thresholded' <=> Thresholded)
      BY <1>1 DEF flowVars, storeVars, Projected, Thresholded
    <2>3. (Distributed' <=> Distributed) /\ (PricesPinned' <=> PricesPinned)
      BY <1>1 DEF flowVars, storeVars, Distributed, PricesPinned, DistributionHeader, PriceHeader
    <2>4. BuildDistributions' = BuildDistributions /\ BuildPrices' = BuildPrices
      BY <1>1 DEF flowVars, storeVars, BuildDistributions, BuildPrices, Built
    <2>5. (Accounted(outcome)' <=> Accounted(outcome)) /\ (Accounted(run)' <=> Accounted(run))
      BY <1>1, <2>1, <2>2, <2>3 DEF flowVars, storeVars, Accounted, PriceHeader
    <2>6. AtStage
      BY DEF FlowInv
    <2>. QED
      BY <1>1, <2>1, <2>2, <2>3, <2>4, <2>5, <2>6
      DEF AtStage, flowVars, storeVars, DistributionHeader, PriceHeader
  <1>6. PublicIsBacked'
    BY <1>1 DEF FlowInv, PublicIsBacked, flowVars, storeVars, PublicRows,
                DistributionHeader, PriceHeader
  <1>. QED
    BY <1>3, <1>4, <1>5, <1>6 DEF FlowInv

LEMMA KillKeeps ==
    ASSUME FlowInv, Kill
    PROVE  FlowInv'
  <1>1. UNCHANGED <<place, registry, evidence, decision>> /\ decision # "PUBLIC_READY"
    BY DEF Kill, FlowInv, Shape
  <1>2. PublicIsBacked'
    BY <1>1 DEF PublicIsBacked
  <1>3. CASE place = "remote"
    <2>1. /\ stage' = "idle" /\ run' = [Unclaimed EXCEPT !.status = "SCHEDULED"]
          /\ table' = EmptyTables /\ header' = NoHeaders /\ application' = "none"
      BY <1>3 DEF Kill
    <2>2. Shape'
      BY <1>1, <2>1 DEF FlowInv, Shape, Unclaimed
    <2>3. StoreShape' /\ HeadersPinRows' /\ OnlyProjections'
      BY <2>1 DEF StoreShape, HeadersPinRows, OnlyProjections, Nothing, EmptyTables, NoHeaders,
                  DistributionHeader, PriceHeader, Tables
    <2>4. AtStage'
      BY <2>1, <2>3 DEF AtStage
    <2>. QED
      BY <1>2, <2>2, <2>3, <2>4 DEF FlowInv
  <1>4. CASE place # "remote"
    <2>1. stage' = "killed" /\ UNCHANGED <<run, storeVars>>
      BY <1>4 DEF Kill
    <2>2. stage # "decide"
      BY <1>4 DEF FlowInv, Shape
    <2>3. Shape'
      BY <1>1, <2>1, <2>2 DEF FlowInv, Shape, Kill
    <2>4. StoreShape' /\ HeadersPinRows'
      BY <2>1, StoresKept DEF FlowInv, storeVars
    <2>5. AtStage'
      BY <2>1 DEF AtStage
    <2>. QED
      BY <1>2, <2>3, <2>4, <2>5 DEF FlowInv
  <1>. QED
    BY <1>3, <1>4

LEMMA ClaimKeeps ==
    ASSUME FlowInv, Claim
    PROVE  FlowInv'
  <1>1. PICK status \in {"SCHEDULED", "MISSED"} :
            /\ run' = [Unclaimed EXCEPT !.status = status]
            /\ stage' = IF status = "MISSED" THEN "over" ELSE "claimed"
    BY DEF Claim
  <1>2. /\ stage = "idle" /\ UNCHANGED <<place, registry, evidence, decision>>
        /\ UNCHANGED storeVars
    BY DEF Claim
  <1>3. decision # "PUBLIC_READY"
    BY <1>2 DEF FlowInv, Shape
  <1>4. run'.status \in {"SCHEDULED", "MISSED"}
    BY <1>1 DEF Unclaimed
  <1>5. Shape' /\ PublicIsBacked'
    BY <1>1, <1>2, <1>3, <1>4 DEF FlowInv, Shape, PublicIsBacked
  <1>6. StoreShape' /\ HeadersPinRows'
    BY <1>2, StoresKept DEF FlowInv, storeVars
  <1>7. AtStage'
    BY <1>1, <1>2, <1>4
    DEF FlowInv, AtStage, storeVars, OnlyProjections, Nothing, Accounted
  <1>. QED
    BY <1>5, <1>6, <1>7 DEF FlowInv

LEMMA StartKeeps ==
    ASSUME FlowInv, Start
    PROVE  FlowInv'
  <1>1. /\ stage \in {"idle", "claimed"} /\ stage' = "compute"
        /\ run' = [Unclaimed EXCEPT !.status = "RUNNING"]
        /\ UNCHANGED <<place, registry, evidence, decision>> /\ UNCHANGED storeVars
    BY DEF Start, UpdateRun
  <1>2. Shape' /\ PublicIsBacked'
    BY <1>1 DEF FlowInv, Shape, PublicIsBacked, Unclaimed
  <1>3. StoreShape' /\ HeadersPinRows'
    BY <1>1, StoresKept DEF FlowInv, storeVars
  <1>4. AtStage'
    BY <1>1 DEF FlowInv, AtStage, storeVars, OnlyProjections, Nothing
  <1>. QED
    BY <1>2, <1>3, <1>4 DEF FlowInv

-----------------------------------------------------------------------------
(* The attempts up to the projections, which alone outlive one of them. *)

LEMMA RaisesKeep ==
    ASSUME FlowInv, stage \in {"compute", "projections"}, NEW kind, Raise(kind),
           StoreShape', HeadersPinRows', OnlyProjections'
    PROVE  FlowInv'
  <1>1. CASE Retryable(kind)
    <2>1. stage' = "compute" /\ UNCHANGED <<place, registry, evidence, run, decision>>
      BY <1>1 DEF Raise
    <2>2. AtStage'
      BY <2>1 DEF AtStage
    <2>. QED
      BY <2>1, <2>2, Goes
  <1>2. CASE ~Retryable(kind)
    <2>1. PICK code : Return("FAILED", "NOT_PUBLISHED", code)
      BY <1>2 DEF Raise
    <2>2. Accounted(outcome)'
      BY <2>1 DEF Return, Accounted
    <2>. QED
      BY <2>1, <2>2, Returns
  <1>. QED
    BY <1>1, <1>2

LEMMA ComputeKeeps ==
    ASSUME FlowInv, Compute \/ NotModeled \/ ComputeRaises
    PROVE  FlowInv'
  <1>1. stage = "compute" /\ UNCHANGED storeVars
    BY DEF Compute, NotModeled, ComputeRaises
  <1>2. StoreShape' /\ HeadersPinRows' /\ OnlyProjections'
    BY <1>1, StoresKept DEF FlowInv, storeVars, AtStage, OnlyProjections, Nothing
  <1>3. CASE Compute
    <2>1. stage' = "projections" /\ UNCHANGED <<place, registry, evidence, run, decision>>
      BY <1>3 DEF Compute
    <2>2. Shape' /\ PublicIsBacked'
      BY <1>1, <1>3, <2>1 DEF Compute, FlowInv, Shape, PublicIsBacked
    <2>3. AtStage'
      BY <1>2, <2>1 DEF AtStage
    <2>. QED
      BY <1>2, <2>2, <2>3 DEF FlowInv
  <1>4. CASE NotModeled
    <2>1. PICK code : Return("FAILED", "NOT_PUBLISHED", code)
      BY <1>4 DEF NotModeled
    <2>2. Accounted(outcome)'
      BY <2>1 DEF Return, Accounted
    <2>. QED
      BY <1>1, <1>2, <2>1, <2>2, Returns
  <1>5. CASE ComputeRaises
    BY <1>1, <1>2, <1>5, RaisesKeep DEF ComputeRaises
  <1>. QED
    BY <1>3, <1>4, <1>5

\* What is added is this attempt's, what was there of its players agreed.
LEMMA ProjectionsInstalled ==
    ASSUME FlowInv, stage = "projections", ProjectionsAccepted(BuildProjections),
           InsertProjections(BuildProjections), UNCHANGED <<header, application, sim>>
    PROVE  StoreShape' /\ HeadersPinRows' /\ OnlyProjections' /\ Projected'
  <1>. DEFINE rows == Product(sim)
  <1>1. BuildProjections = rows
    BY ProjectionsAreOwed DEF FlowInv
  <1>2. /\ TableShape(table')
        /\ \A other \in Tables \ {"projections"} : table'[other] = table[other]
        /\ table'["projections"] =
             table["projections"]
                 \cup {r \in rows : \A s \in table["projections"] : RowKey(s) # RowKey(r)}
    BY <1>1, Installed
    DEF InsertProjections, FlowInv, StoreShape, TableShape, Tables
  <1>3. \A s \in table["projections"] : (\E r \in rows : RowKey(r) = RowKey(s)) => s \in rows
    BY <1>1 DEF ProjectionsAccepted, ProjectionConflict, StoredProjections, StoredUnder
  <1>4. StoreShape'
    BY <1>2, ProductRows DEF FlowInv, StoreShape, TableShape
  <1>5. OnlyProjections'
    BY <1>2 DEF FlowInv, AtStage, OnlyProjections, Nothing
  <1>6. HeadersPinRows'
    BY <1>5 DEF OnlyProjections, NoHeaders, HeadersPinRows, DistributionHeader, PriceHeader
  <1>7. Projected'
    <2>1. ASSUME NEW r \in rows PROVE r \in table'["projections"]
      <3>1. CASE \E s \in table["projections"] : RowKey(s) = RowKey(r)
        BY <1>2, <1>3, <3>1, ProductRows
      <3>. QED
        BY <1>2, <3>1
    <2>2. ASSUME NEW s \in table'["projections"], RowKey(s) \in {RowKey(r) : r \in rows}
          PROVE  s \in rows
      BY <1>2, <1>3, <2>2
    <2>3. Product(sim)' = rows
      BY DEF Product, Eligible
    <2>. QED
      BY <2>1, <2>2, <2>3 DEF Projected
  <1>. QED
    BY <1>4, <1>5, <1>6, <1>7

LEMMA ProjectionsKeep ==
    ASSUME FlowInv, PersistProjections \/ ProjectionAppendRaises
    PROVE  FlowInv'
  <1>0. stage = "projections" /\ UNCHANGED <<header, application>>
    BY DEF PersistProjections, ProjectionAppendRaises
  <1>1. ASSUME UNCHANGED table, NEW kind, Raise(kind)
        PROVE  FlowInv'
    <2>1. StoreShape' /\ HeadersPinRows' /\ OnlyProjections'
      BY <1>0, <1>1, StoresKept DEF FlowInv, AtStage, OnlyProjections, Nothing
    <2>. QED
      BY <1>0, <1>1, <2>1, RaisesKeep
  <1>2. ASSUME ProjectionsAccepted(BuildProjections), InsertProjections(BuildProjections),
               Goto("thresholds")
        PROVE  FlowInv'
    <2>1. /\ stage' = "thresholds" /\ defect' \in Defects("thresholds")
          /\ UNCHANGED <<place, registry, evidence, run, sim, decision>>
      BY <1>2 DEF Goto
    <2>2. StoreShape' /\ HeadersPinRows' /\ OnlyProjections' /\ Projected'
      BY <1>0, <1>2, <2>1, ProjectionsInstalled
    <2>3. AtStage'
      BY <2>1, <2>2 DEF AtStage
    <2>. QED
      BY <1>0, <2>1, <2>2, <2>3, Goes
  <1>3. ASSUME ProjectionsAccepted(BuildProjections), InsertProjections(BuildProjections),
               Raise("transient")
        PROVE  FlowInv'
    <2>. DEFINE rows == BuildProjections
    <2>1. /\ TableShape(table')
          /\ \A other \in Tables \ {"projections"} : table'[other] = table[other]
          /\ table'["projections"] =
               table["projections"]
                   \cup {r \in rows : \A s \in table["projections"] : RowKey(s) # RowKey(r)}
      BY <1>3, Installed DEF InsertProjections, FlowInv, StoreShape, TableShape, Tables
    <2>2. rows = Product(sim)
      BY <1>0, <1>3, ProjectionsAreOwed DEF FlowInv
    <2>3. StoreShape'
      BY <1>0, <2>1, <2>2, ProductRows DEF FlowInv, StoreShape, TableShape
    <2>4. OnlyProjections'
      BY <1>0, <2>1 DEF FlowInv, AtStage, OnlyProjections, Nothing
    <2>5. HeadersPinRows'
      BY <2>4 DEF OnlyProjections, NoHeaders, HeadersPinRows, DistributionHeader, PriceHeader
    <2>. QED
      BY <1>0, <1>3, <2>3, <2>4, <2>5, RaisesKeep
  <1>. QED
    BY <1>1, <1>2, <1>3 DEF PersistProjections, ProjectionAppendRaises

-----------------------------------------------------------------------------
(* From the thresholds on an attempt is not made again. *)

Same == UNCHANGED <<place, registry, evidence, run, sim, decision>>

LEMMA SameProducts ==
    ASSUME UNCHANGED sim
    PROVE  Product(sim)' = Product(sim) /\ Priced(sim)' = Priced(sim)
  BY DEF Product, Eligible, Priced, QuoteRows, Quoted, Unsupported

\* A failure that stores nothing more, or only what its code allows.
LEMMA FailureKeeps ==
    ASSUME FlowInv, stage \notin {"decide", "over"}, NEW code,
           Return("PARTIAL", "NOT_PUBLISHED", code), code # "LEGACY_PRICING_MIRROR_ERROR",
           StoreShape', HeadersPinRows', Product(sim) \subseteq table'["projections"],
           table'["calibrated"] = {}, table'["predictions"] = {},
           code \in {"THRESHOLD_ERROR", "DISTRIBUTION_ERROR"} => table'["prices"] = {},
           code = "THRESHOLD_ERROR" => table'["distributions"] = {},
           code \in CodesPastThresholds => Thresholded'
    PROVE  FlowInv'
  <1>1. outcome' = [status |-> "PARTIAL", publication |-> "NOT_PUBLISHED", code |-> code]
        /\ sim' = sim
    BY DEF Return
  <1>2. Product(sim)' = Product(sim)
    BY <1>1, SameProducts
  <1>3. Accounted(outcome)'
    BY <1>1, <1>2 DEF Accounted, Nothing
  <1>. QED
    BY <1>3, Returns

LEMMA ThresholdFailureKeeps ==
    ASSUME FlowInv, stage = "thresholds", ThresholdsFail, UNCHANGED header,
           UNCHANGED table \/ InsertThresholds(BuildThresholds)
    PROVE  FlowInv'
  <1>1. OnlyProjections /\ Projected
    BY DEF FlowInv, AtStage
  <1>2. TableShape(table') /\ \A other \in Tables \ {"thresholds"} : table'[other] = table[other]
    BY Installed DEF InsertThresholds, FlowInv, StoreShape, TableShape, Tables
  <1>3. StoreShape'
    BY <1>2 DEF FlowInv, StoreShape, TableShape, Tables
  <1>4. HeadersPinRows'
    BY <1>1 DEF OnlyProjections, NoHeaders, HeadersPinRows, DistributionHeader, PriceHeader
  <1>5. /\ Product(sim) \subseteq table'["projections"] /\ table'["calibrated"] = {}
        /\ table'["predictions"] = {} /\ table'["prices"] = {} /\ table'["distributions"] = {}
    BY <1>1, <1>2 DEF OnlyProjections, Nothing, Projected, Tables
  <1>. QED
    BY <1>3, <1>4, <1>5, FailureKeeps DEF ThresholdsFail, CodesPastThresholds

LEMMA ThresholdsKeep ==
    ASSUME FlowInv, PersistThresholds \/ ThresholdAppendRaises
    PROVE  FlowInv'
  <1>0. stage = "thresholds" /\ UNCHANGED <<header, application>>
    BY DEF PersistThresholds, ThresholdAppendRaises
  <1>1. CASE ThresholdsFail
    BY <1>0, <1>1, ThresholdFailureKeeps DEF PersistThresholds, ThresholdAppendRaises
  <1>2. CASE ~ThresholdsFail
    <2>1. /\ ThresholdsAccepted(BuildThresholds) /\ InsertThresholds(BuildThresholds)
          /\ Goto(AfterThresholds)
      BY <1>2 DEF PersistThresholds, ThresholdAppendRaises
    <2>2. OnlyProjections /\ Projected
      BY <1>0 DEF FlowInv, AtStage
    <2>3. BuildThresholds = Product(sim)
      BY <1>0, <2>1, <2>2, ThresholdsAreOwed DEF FlowInv
    <2>4. /\ TableShape(table') /\ table'["thresholds"] = Product(sim)
          /\ \A other \in Tables \ {"thresholds"} : table'[other] = table[other]
      BY <2>1, <2>2, <2>3, Installed
      DEF InsertThresholds, FlowInv, StoreShape, TableShape, Tables, OnlyProjections, Nothing
    <2>5. table["projections"] = Product(sim)
      BY <2>1, <2>2, <2>3, OneEvidence
      DEF FlowInv, ThresholdsAccepted, ThresholdsComplete, EligibleForThresholds
    <2>6. /\ Same /\ stage' = AfterThresholds /\ defect' \in Defects(AfterThresholds)
      BY <2>1 DEF Goto, Same
    <2>7. StoreShape'
      BY <1>0, <2>4 DEF FlowInv, StoreShape, TableShape, Tables
    <2>8. HeadersPinRows'
      BY <1>0, <2>2
      DEF OnlyProjections, NoHeaders, HeadersPinRows, DistributionHeader, PriceHeader
    <2>9. Product(sim)' = Product(sim)
      BY <2>6, SameProducts DEF Same
    <2>10. Thresholded'
      BY <2>4, <2>5, <2>9 DEF Thresholded, Tables
    <2>11. /\ \A name \in Tables \ {"projections", "thresholds"} : table'[name] = {}
           /\ header' = NoHeaders /\ application' = "none"
      BY <1>0, <2>2, <2>4 DEF OnlyProjections, Nothing
    <2>12. Priceless' /\ Nothing({"distributions"})' /\ (DistributionHeader = NoHeader)'
      BY <2>11 DEF Priceless, Nothing, Tables, NoHeaders, PriceHeader, DistributionHeader
    <2>13. CASE place = "remote"
      <3>1. stage' = "distributions" /\ place' = "remote"
        BY <2>6, <2>13 DEF AfterThresholds, Same
      <3>2. AtStage'
        BY <2>10, <2>11, <2>12, <3>1 DEF AtStage
      <3>. QED
        BY <1>0, <2>6, <2>7, <2>8, <3>1, <3>2, Goes DEF AfterThresholds, Same
    <2>14. CASE place # "remote"
      <3>1. stage' = "pricing" /\ place' # "remote"
        BY <2>6, <2>14 DEF AfterThresholds, Same
      <3>2. Distributed'
        BY <2>12, <3>1 DEF Distributed, Nothing
      <3>3. AtStage'
        BY <2>10, <2>11, <2>12, <3>1, <3>2 DEF AtStage
      <3>. QED
        BY <1>0, <2>6, <2>7, <2>8, <3>1, <3>3, Goes DEF AfterThresholds, Same
    <2>. QED
      BY <2>13, <2>14
  <1>. QED
    BY <1>1, <1>2

LEMMA DistributionsKeep ==
    ASSUME FlowInv, PersistDistributions
    PROVE  FlowInv'
  <1>0. stage = "distributions" /\ UNCHANGED <<header, application>>
    BY DEF PersistDistributions
  <1>1. /\ Thresholded /\ Priceless /\ Nothing({"distributions"}) /\ place = "remote"
        /\ DistributionHeader = NoHeader /\ application = "none"
    BY <1>0 DEF FlowInv, AtStage
  <1>2. CASE DistributionsAccepted(BuildDistributions)
    <2>1. /\ InsertDistributions(BuildDistributions) /\ stage' = "distribution header"
          /\ UNCHANGED <<place, registry, evidence, run, flowVars, decision>>
      BY <1>2 DEF PersistDistributions
    <2>2. BuildDistributions = Product(sim)
      BY <1>0, <1>1, <1>2, DistributionsAreOwed DEF FlowInv
    <2>3. /\ TableShape(table') /\ table'["distributions"] = Product(sim)
          /\ \A other \in Tables \ {"distributions"} : table'[other] = table[other]
      BY <1>1, <2>1, <2>2, Installed
      DEF InsertDistributions, FlowInv, StoreShape, TableShape, Tables, Nothing
    <2>4. StoreShape'
      BY <1>0, <2>3 DEF FlowInv, StoreShape, TableShape, Tables
    <2>5. Product(sim)' = Product(sim) /\ BuildDistributions' = BuildDistributions
      <3>1. sim' = sim /\ defect' = defect
        BY <2>1 DEF flowVars
      <3>2. Product(sim)' = Product(sim)
        BY <3>1, SameProducts
      <3>. QED
        BY <3>1, <3>2 DEF BuildDistributions, Built
    <2>6. HeadersPinRows'
      BY <1>0, <1>1, <2>3
      DEF HeadersPinRows, Priceless, DistributionHeader, PriceHeader, Tables
    <2>7. Thresholded' /\ Priceless' /\ (DistributionHeader = NoHeader)'
      BY <1>0, <1>1, <2>3, <2>5
      DEF Thresholded, Priceless, Nothing, Tables, PriceHeader, DistributionHeader
    <2>8. AtStage'
      BY <1>0, <1>1, <2>1, <2>2, <2>3, <2>5, <2>7 DEF AtStage
    <2>. QED
      BY <1>0, <2>1, <2>4, <2>6, <2>8, Goes
  <1>3. CASE ~DistributionsAccepted(BuildDistributions)
    <2>1. DistributionsFail /\ UNCHANGED table
      BY <1>3 DEF PersistDistributions
    <2>2. StoreShape' /\ HeadersPinRows'
      BY <1>0, <2>1, StoresKept DEF FlowInv
    <2>3. Thresholded'
      BY <1>1, <2>1, SameProducts DEF DistributionsFail, Return, Thresholded
    <2>. QED
      BY <1>0, <1>1, <2>1, <2>2, <2>3, FailureKeeps
      DEF DistributionsFail, Thresholded, Priceless, Nothing
  <1>. QED
    BY <1>2, <1>3

\* The header pins the rows that were stored for it.
LEMMA DistributionHeaderKeeps ==
    ASSUME FlowInv, PersistDistributionHeader \/ DistributionAppendRaises
    PROVE  FlowInv'
  <1>1. /\ Thresholded /\ Priceless /\ place = "remote" /\ application = "none"
        /\ stage \in {"distributions", "distribution header"}
        /\ UNCHANGED <<table, application>>
    BY DEF FlowInv, AtStage, PersistDistributionHeader, DistributionAppendRaises
  <1>2. ASSUME stage = "distribution header", PinDistributions(BuildDistributions)
        PROVE  /\ StoreShape' /\ HeadersPinRows'
               /\ header'["distributions"] = Product(sim) /\ header'["prices"] = NoHeader
    <2>1. BuildDistributions = Product(sim) /\ table["distributions"] = Product(sim)
      BY <1>2 DEF FlowInv, AtStage
    <2>2. /\ header' = [name \in {"distributions", "prices"} |-> header'[name]]
          /\ header'["distributions"] = Product(sim) /\ header'["prices"] = NoHeader
      BY <1>1, <1>2, <2>1
      DEF PinDistributions, DistributionHash, FlowInv, StoreShape, Priceless, PriceHeader
    <2>. QED
      BY <1>1, <2>1, <2>2
      DEF FlowInv, StoreShape, HeadersPinRows, DistributionHeader, PriceHeader
  <1>3. CASE PersistDistributionHeader
    <2>1. /\ stage = "distribution header" /\ PinDistributions(BuildDistributions)
          /\ stage' = "pricing" /\ Same
      BY <1>3 DEF PersistDistributionHeader, Goto, Same
    <2>2. table["distributions"] = Product(sim)
      BY <2>1 DEF FlowInv, AtStage
    <2>3. Product(sim)' = Product(sim)
      BY <2>1, SameProducts DEF Same
    <2>4. Thresholded' /\ Distributed' /\ Priceless'
      BY <1>1, <1>2, <2>1, <2>2, <2>3
      DEF Thresholded, Distributed, Priceless, Nothing, DistributionHeader, PriceHeader, Same
    <2>5. AtStage'
      BY <1>1, <2>1, <2>4 DEF AtStage
    <2>. QED
      BY <1>2, <2>1, <2>5, Goes DEF Same
  <1>4. CASE DistributionAppendRaises
    <2>1. DistributionsFail
      BY <1>4 DEF DistributionAppendRaises
    <2>2. StoreShape' /\ HeadersPinRows'
      BY <1>1, <1>2, <1>4, StoresKept DEF DistributionAppendRaises, FlowInv
    <2>3. Thresholded'
      BY <1>1, <2>1, SameProducts DEF DistributionsFail, Return, Thresholded
    <2>. QED
      BY <1>1, <2>1, <2>2, <2>3, FailureKeeps
      DEF DistributionsFail, Thresholded, Priceless, Nothing
  <1>. QED
    BY <1>3, <1>4

-----------------------------------------------------------------------------
(* Pricing. *)

LEMMA PriceKeeps ==
    ASSUME FlowInv, Price \/ PriceRaises
    PROVE  FlowInv'
  <1>0. stage = "pricing" /\ UNCHANGED <<header, application>>
    BY DEF Price, PriceRaises
  <1>1. Thresholded /\ Distributed /\ Priceless /\ application = "none"
    BY <1>0 DEF FlowInv, AtStage
  <1>2. /\ TableShape(table')
        /\ \A other \in Tables \ {"exclusions"} : table'[other] = table[other]
    <2>1. CASE PersistExclusions
      BY <2>1, Installed DEF PersistExclusions, FlowInv, StoreShape, TableShape, Tables
    <2>2. CASE UNCHANGED table
      BY <2>2 DEF FlowInv, StoreShape, TableShape
    <2>. QED
      BY <2>1, <2>2 DEF Price, PriceRaises
  <1>3. StoreShape' /\ HeadersPinRows'
    BY <1>0, <1>2 DEF FlowInv, StoreShape, TableShape, HeadersPinRows, DistributionHeader,
                      PriceHeader, Tables
  <1>4. CASE Price
    <2>1. /\ stage' = "prices" /\ defect' \in Defects("prices") /\ priced' = Priced(sim) /\ Same
      BY <1>4 DEF Price, Goto, Same
    <2>2. Product(sim)' = Product(sim) /\ Priced(sim)' = Priced(sim)
      BY <2>1, SameProducts DEF Same
    <2>3. Thresholded' /\ Distributed' /\ Priceless'
      BY <1>0, <1>1, <1>2, <2>1, <2>2
      DEF Thresholded, Distributed, Priceless, Nothing, DistributionHeader, PriceHeader, Same,
          Tables
    <2>4. AtStage'
      BY <1>0, <1>1, <2>1, <2>2, <2>3 DEF AtStage
    <2>. QED
      BY <1>0, <1>3, <2>1, <2>4, Goes DEF Same
  <1>5. CASE PriceRaises
    <2>1. PricingFails
      BY <1>5 DEF PriceRaises
    <2>2. Thresholded'
      BY <1>1, <1>2, <2>1, SameProducts DEF PricingFails, Return, Thresholded, Tables
    <2>. QED
      BY <1>0, <1>1, <1>2, <1>3, <2>1, <2>2, FailureKeeps
      DEF PricingFails, Thresholded, Priceless, Nothing, Tables
  <1>. QED
    BY <1>4, <1>5

LEMMA PricesKeep ==
    ASSUME FlowInv, PersistPrices
    PROVE  FlowInv'
  <1>0. stage = "prices" /\ UNCHANGED <<header, application>>
    BY DEF PersistPrices
  <1>1. Thresholded /\ Distributed /\ Priceless /\ application = "none" /\ priced = Priced(sim)
    BY <1>0 DEF FlowInv, AtStage
  <1>2. CASE PricesAccepted(BuildPrices)
    <2>1. /\ InsertPrices(BuildPrices) /\ stage' = "price header"
          /\ UNCHANGED <<place, registry, evidence, run, flowVars, decision>>
      BY <1>2 DEF PersistPrices
    <2>2. BuildPrices = Priced(sim)
      BY <1>0, <1>1, <1>2, PricesAreOwed DEF FlowInv
    <2>3. /\ TableShape(table') /\ table'["prices"] = Priced(sim)
          /\ \A other \in Tables \ {"prices"} : table'[other] = table[other]
      BY <1>1, <2>1, <2>2, Installed
      DEF InsertPrices, FlowInv, StoreShape, TableShape, Tables, Priceless, Nothing
    <2>4. StoreShape'
      BY <1>0, <2>3 DEF FlowInv, StoreShape, TableShape, Tables
    <2>5. HeadersPinRows'
      BY <1>0, <1>1, <2>3
      DEF FlowInv, HeadersPinRows, Priceless, DistributionHeader, PriceHeader, Tables
    <2>6. sim' = sim /\ defect' = defect /\ priced' = priced
      BY <2>1 DEF flowVars
    <2>7. Product(sim)' = Product(sim) /\ Priced(sim)' = Priced(sim)
      BY <2>6, SameProducts
    <2>8. BuildPrices' = BuildPrices
      BY <2>6 DEF BuildPrices, Built
    <2>9. /\ Thresholded' /\ Distributed' /\ (PriceHeader = NoHeader)'
          /\ Nothing({"predictions", "calibrated"})'
      BY <1>0, <1>1, <2>1, <2>3, <2>7
      DEF Thresholded, Distributed, Priceless, Nothing, Tables, PriceHeader, DistributionHeader
    <2>10. AtStage'
      BY <1>0, <1>1, <2>1, <2>2, <2>3, <2>6, <2>7, <2>8, <2>9 DEF AtStage
    <2>. QED
      BY <1>0, <2>1, <2>4, <2>5, <2>10, Goes
  <1>3. CASE ~PricesAccepted(BuildPrices)
    <2>1. PricingPersistFails /\ UNCHANGED table
      BY <1>3 DEF PersistPrices
    <2>2. StoreShape' /\ HeadersPinRows'
      BY <1>0, <2>1, StoresKept DEF FlowInv
    <2>3. Thresholded'
      BY <1>1, <2>1, SameProducts DEF PricingPersistFails, Return, Thresholded
    <2>. QED
      BY <1>0, <1>1, <2>1, <2>2, <2>3, FailureKeeps
      DEF PricingPersistFails, Thresholded, Priceless, Nothing
  <1>. QED
    BY <1>2, <1>3

LEMMA PriceHeaderKeeps ==
    ASSUME FlowInv, PersistPriceHeader \/ PriceAppendRaises
    PROVE  FlowInv'
  <1>1. /\ Thresholded /\ Distributed /\ application = "none" /\ priced = Priced(sim)
        /\ stage \in {"prices", "price header"} /\ UNCHANGED <<table, application>>
        /\ Nothing({"predictions", "calibrated"})
    BY DEF FlowInv, AtStage, PersistPriceHeader, PriceAppendRaises, Priceless, Nothing
  <1>2. ASSUME stage = "price header", PinPrices(BuildPrices)
        PROVE  /\ StoreShape' /\ HeadersPinRows'
               /\ header'["prices"] = Priced(sim)
               /\ header'["distributions"] = header["distributions"]
    <2>1. BuildPrices = Priced(sim) /\ table["prices"] = Priced(sim)
      BY <1>2 DEF FlowInv, AtStage
    <2>2. /\ header' = [name \in {"distributions", "prices"} |-> header'[name]]
          /\ header'["prices"] = Priced(sim)
          /\ header'["distributions"] = header["distributions"]
      BY <1>1, <1>2, <2>1 DEF PinPrices, PriceHash, FlowInv, StoreShape
    <2>. QED
      BY <1>1, <2>1, <2>2
      DEF FlowInv, StoreShape, HeadersPinRows, DistributionHeader, PriceHeader
  <1>3. CASE PersistPriceHeader
    <2>1. /\ stage = "price header" /\ PinPrices(BuildPrices)
          /\ stage' = "mirror" /\ Same /\ UNCHANGED priced
      BY <1>3 DEF PersistPriceHeader, Goto, Same
    <2>2. table["prices"] = Priced(sim)
      BY <2>1 DEF FlowInv, AtStage
    <2>3. Product(sim)' = Product(sim) /\ Priced(sim)' = Priced(sim)
      BY <2>1, SameProducts DEF Same
    <2>4. Thresholded' /\ Distributed' /\ PricesPinned'
      BY <1>1, <1>2, <2>1, <2>2, <2>3
      DEF Thresholded, Distributed, PricesPinned, DistributionHeader, PriceHeader, Same
    <2>5. AtStage'
      BY <1>1, <2>1, <2>4 DEF AtStage, Nothing
    <2>. QED
      BY <1>2, <2>1, <2>5, Goes DEF Same
  <1>4. CASE PriceAppendRaises
    <2>1. PricingPersistFails
      BY <1>4 DEF PriceAppendRaises
    <2>2. StoreShape' /\ HeadersPinRows'
      BY <1>1, <1>2, <1>4, StoresKept DEF PriceAppendRaises, FlowInv
    <2>3. Thresholded'
      BY <1>1, <2>1, SameProducts DEF PricingPersistFails, Return, Thresholded
    <2>. QED
      BY <1>1, <2>1, <2>2, <2>3, FailureKeeps DEF PricingPersistFails, Thresholded, Nothing
  <1>. QED
    BY <1>3, <1>4

LEMMA MirrorKeeps ==
    ASSUME FlowInv, Mirror \/ MirrorRaises
    PROVE  FlowInv'
  <1>0. stage = "mirror" /\ UNCHANGED <<header, application>>
    BY DEF Mirror, MirrorRaises
  <1>1. /\ Thresholded /\ Distributed /\ PricesPinned /\ application = "none"
        /\ Nothing({"predictions", "calibrated"})
    BY <1>0 DEF FlowInv, AtStage
  <1>2. ASSUME PersistCurrentPricing
        PROVE  /\ TableShape(table') /\ table'["predictions"] = Priced(sim)
               /\ \A other \in Tables \ {"predictions"} : table'[other] = table[other]
    BY <1>1, <1>2, Replaced
    DEF PersistCurrentPricing, PricesPinned, FlowInv, StoreShape, TableShape, Nothing
  <1>3. /\ TableShape(table')
        /\ \A other \in Tables \ {"predictions"} : table'[other] = table[other]
    BY <1>2 DEF Mirror, MirrorRaises, FlowInv, StoreShape, TableShape
  <1>4. StoreShape' /\ HeadersPinRows'
    BY <1>0, <1>3 DEF FlowInv, StoreShape, TableShape, HeadersPinRows, DistributionHeader,
                      PriceHeader, Tables
  <1>5. ASSUME sim' = sim
        PROVE  Thresholded' /\ table'["calibrated"] = {}
    BY <1>1, <1>3, <1>5, SameProducts DEF Thresholded, Nothing, Tables
  <1>6. CASE Mirror
    <2>1. /\ stage' = "calibrate" /\ Same /\ UNCHANGED priced /\ PersistCurrentPricing
      BY <1>6 DEF Mirror, Goto, Same
    <2>2. Product(sim)' = Product(sim) /\ Priced(sim)' = Priced(sim)
      BY <2>1, SameProducts DEF Same
    <2>3. Distributed' /\ PricesPinned'
      BY <1>0, <1>1, <1>3, <2>1, <2>2
      DEF Distributed, PricesPinned, DistributionHeader, PriceHeader, Same, Tables
    <2>4. AtStage'
      BY <1>0, <1>1, <1>2, <1>5, <2>1, <2>2, <2>3 DEF AtStage, Nothing, Same
    <2>. QED
      BY <1>0, <1>4, <2>1, <2>4, Goes DEF Same
  <1>7. CASE MirrorRaises
    <2>1. Return("PARTIAL", "NOT_PUBLISHED", "LEGACY_PRICING_MIRROR_ERROR")
      BY <1>7 DEF MirrorRaises
    <2>2. /\ outcome' = [status |-> "PARTIAL", publication |-> "NOT_PUBLISHED",
                         code |-> "LEGACY_PRICING_MIRROR_ERROR"]
          /\ sim' = sim
      BY <2>1 DEF Return
    <2>3. PriceHeader' = table'["prices"]
      BY <1>0, <1>1, <1>3 DEF PricesPinned, PriceHeader, Tables
    <2>4. Accounted(outcome)'
      BY <1>5, <2>2, <2>3 DEF Accounted, Nothing, Thresholded
    <2>. QED
      BY <1>0, <1>4, <2>1, <2>4, Returns
  <1>. QED
    BY <1>6, <1>7

-----------------------------------------------------------------------------
(* Calibration, and the end of the flow. *)

LEMMA CalibrationKeeps ==
    ASSUME FlowInv, SkipCalibration \/ Calibrate \/ RecordApplication
    PROVE  FlowInv'
  <1>1. /\ stage \in {"calibrate", "applied", "application failed"} /\ UNCHANGED header
        /\ Thresholded /\ Distributed /\ PricesPinned /\ application = "none"
        /\ table["predictions"] = Priced(sim)
    BY DEF FlowInv, AtStage, SkipCalibration, Calibrate, RecordApplication, storeVars
  <1>2. /\ TableShape(table')
        /\ \A other \in Tables \ {"calibrated"} : table'[other] = table[other]
    <2>1. ASSUME Install("calibrated", Calibrated(priced))
          PROVE  /\ TableShape(table')
                 /\ \A other \in Tables \ {"calibrated"} : table'[other] = table[other]
      BY <2>1, Installed DEF FlowInv, StoreShape, TableShape, Tables
    <2>. QED
      BY <2>1 DEF SkipCalibration, Calibrate, RecordApplication, storeVars, FlowInv, StoreShape,
                  TableShape
  <1>3. StoreShape' /\ HeadersPinRows'
    BY <1>1, <1>2 DEF FlowInv, StoreShape, TableShape, HeadersPinRows, DistributionHeader,
                      PriceHeader, Tables
  <1>4. sim' = sim /\ priced' = priced /\ place' = place
    BY DEF SkipCalibration, Calibrate, RecordApplication, Return, flowVars
  <1>5. Product(sim)' = Product(sim) /\ Priced(sim)' = Priced(sim)
    BY <1>4, SameProducts
  <1>6. Thresholded' /\ Distributed' /\ PricesPinned' /\ table'["predictions"] = Priced(sim)
    BY <1>1, <1>2, <1>4, <1>5
    DEF Thresholded, Distributed, PricesPinned, DistributionHeader, PriceHeader, Tables
  <1>7. CASE SkipCalibration
    <2>1. Return("SUCCESS", Publication, "none") /\ UNCHANGED application
      BY <1>7 DEF SkipCalibration, storeVars
    <2>2. Accounted(outcome)'
      BY <1>1, <1>5, <1>6, <2>1 DEF Return, Accounted
    <2>. QED
      BY <1>1, <1>3, <2>1, <2>2, Returns
  <1>8. CASE Calibrate
    <2>1. /\ stage = "calibrate" /\ stage' \in {"applied", "application failed"}
          /\ stage' = "applied" => Install("calibrated", Calibrated(priced))
          /\ UNCHANGED <<place, registry, evidence, run, decision, application>>
      BY <1>8 DEF Calibrate
    <2>2. table["calibrated"] = {}
      BY <2>1 DEF FlowInv, AtStage, Nothing
    <2>3. stage' = "applied" => table'["calibrated"] = Calibrated(priced)
      BY <2>1, <2>2, Installed DEF FlowInv, StoreShape, TableShape, Tables
    <2>4. Calibrated(priced)' = Calibrated(priced)
      BY <1>4 DEF Calibrated
    <2>5. AtStage'
      BY <1>1, <1>5, <1>6, <2>1, <2>3, <2>4 DEF AtStage
    <2>. QED
      BY <1>3, <2>1, <2>5, Goes
  <1>9. CASE RecordApplication
    <2>1. /\ Return("SUCCESS", Publication, "none") /\ UNCHANGED table
          /\ application' \in {application, ApplicationStatus}
          /\ stage \in {"applied", "application failed"}
      BY <1>9 DEF RecordApplication
    <2>2. application' = "APPLIED" => table'["calibrated"] = Calibrated(priced)
      BY <1>1, <2>1 DEF ApplicationStatus, FlowInv, AtStage
    <2>3. Calibrated(priced)' = Calibrated(priced)
      BY <1>4 DEF Calibrated
    <2>4. Accounted(outcome)'
      BY <1>5, <1>6, <2>1, <2>2, <2>3 DEF Return, Accounted
    <2>. QED
      BY <1>1, <1>3, <2>1, <2>4, Returns
  <1>. QED
    BY <1>7, <1>8, <1>9

\* A run's row says of the tables what the attempt's outcome said.
LEMMA RowsAccount ==
    ASSUME UNCHANGED <<place, flowVars, storeVars>>, NEW row, Accounted(row)
    PROVE  Accounted(row)'
  <1>1. /\ Product(sim)' = Product(sim) /\ Priced(sim)' = Priced(sim)
        /\ Calibrated(priced)' = Calibrated(priced)
    BY SameProducts DEF flowVars, Calibrated
  <1>2. /\ Thresholded => Thresholded'
        /\ Distributed => Distributed'
        /\ PricesPinned => PricesPinned'
    BY <1>1 DEF flowVars, storeVars, Thresholded, Distributed, PricesPinned,
                DistributionHeader, PriceHeader
  <1>. QED
    BY <1>1, <1>2 DEF Accounted, storeVars, Nothing, PriceHeader

LEMMA RecordKeeps ==
    ASSUME FlowInv, RecordStatus \/ RecordRaises
    PROVE  FlowInv'
  <1>1. /\ stage = "record" /\ Accounted(outcome) /\ stage' \in {"decide", "over"}
        /\ stage' = "decide" => place = "remote"
        /\ UNCHANGED <<place, registry, evidence, decision>> /\ UNCHANGED <<flowVars, storeVars>>
    BY DEF FlowInv, AtStage, RecordStatus, RecordRaises
  <1>2. run' = outcome \/ run' = [status |-> "FAILED", publication |-> "NOT_PUBLISHED",
                                  code |-> "PREDICTION_ERROR"]
    BY DEF RecordStatus, RecordRaises, UpdateRun
  <1>3. StoreShape' /\ HeadersPinRows'
    BY <1>1, StoresKept DEF FlowInv, storeVars
  <1>4. Accounted(run)'
    <2>1. CASE run' = outcome
      <3>. PICK row : row = outcome
        OBVIOUS
      <3>1. Accounted(row)'
        BY <1>1, RowsAccount
      <3>. QED
        BY <2>1, <3>1
    <2>2. CASE run' # outcome
      <3>1. run'.status = "FAILED"
        BY <1>2, <2>2
      <3>. QED
        BY <3>1 DEF Accounted
    <2>. QED
      BY <2>1, <2>2
  <1>5. AtStage'
    BY <1>1, <1>4 DEF AtStage
  <1>6. Shape' /\ PublicIsBacked'
    BY <1>1 DEF FlowInv, Shape, PublicIsBacked
  <1>. QED
    BY <1>3, <1>5, <1>6 DEF FlowInv

LEMMA ResolvedIsClean ==
    ASSUME FlowInv, Resolved
    PROVE  registry = {}
  BY RegistriesAssumption
  DEF FlowInv, Shape, Resolved, ChampionResolves, ConfigMatches, Troubles

\* Nothing is held against publishing.
LEMMA DecidedPublic ==
    ASSUME FlowInv, stage = "decide", PublicReasons = {}
    PROVE  /\ registry = {} /\ run.publication = "PUBLISHED"
           /\ table["calibrated"] = Calibrated(table["prices"])
           /\ PublicRows \subseteq Calibrated(PriceHeader)
           /\ DistributionHeader = Product(sim)
  <1>1. run.status = "SUCCESS" /\ run.publication = "PUBLISHED" /\ GateApplied
    BY DEF PublicReasons
  <1>2. Accounted(run) /\ place = "remote"
    BY DEF FlowInv, Shape, AtStage
  <1>3. /\ Distributed /\ PricesPinned /\ table["calibrated"] = Calibrated(priced)
    BY <1>1, <1>2 DEF Accounted, GateApplied
  <1>4. PublicRows \subseteq table["calibrated"]
    BY DEF PublicRows
  <1>. QED
    BY <1>1, <1>2, <1>3, <1>4, ResolvedIsClean DEF GateApplied, Distributed, PricesPinned

LEMMA DecideKeeps ==
    ASSUME FlowInv, Decide
    PROVE  FlowInv'
  <1>1. /\ stage = "decide" /\ stage' = "over"
        /\ UNCHANGED <<place, registry, evidence, run>> /\ UNCHANGED <<flowVars, storeVars>>
    BY DEF Decide
  <1>2. StoreShape' /\ HeadersPinRows'
    BY <1>1, StoresKept DEF FlowInv, storeVars
  <1>3. Accounted(run)'
    <2>. PICK row : row = run
      OBVIOUS
    <2>1. Accounted(row)'
      BY <1>1, RowsAccount DEF FlowInv, AtStage
    <2>. QED
      BY <1>1, <2>1
  <1>4. Shape' /\ AtStage'
    BY <1>1, <1>3 DEF FlowInv, Shape, AtStage
  <1>5. PublicIsBacked'
    <2>1. CASE PublicReasons = {}
      <3>1. /\ PublicRows' = PublicRows /\ Product(sim)' = Product(sim)
            /\ Calibrated(table["prices"])' = Calibrated(table["prices"])
            /\ Calibrated(PriceHeader)' = Calibrated(PriceHeader)
        BY <1>1, SameProducts DEF flowVars, storeVars, PublicRows, Calibrated, PriceHeader
      <3>. QED
        BY <1>1, <2>1, <3>1, DecidedPublic DEF PublicIsBacked, storeVars, DistributionHeader
    <2>2. CASE PublicReasons # {}
      BY <2>2 DEF Decide, PublicIsBacked
    <2>. QED
      BY <2>1, <2>2
  <1>. QED
    BY <1>2, <1>4, <1>5 DEF FlowInv

-----------------------------------------------------------------------------
(* Every step of the flow; the draws leave it alone. *)

LEMMA FlowInit == Init => FlowInv
  <1>. SUFFICES ASSUME Init PROVE FlowInv
    OBVIOUS
  <1>1. CheckpointInit
    BY DEF Init
  <1>2. 1 \in Versions
    BY EvidenceAssumption DEF Versions
  <1>3. run.status \in {"none", "SCHEDULED"}
    BY <1>1 DEF CheckpointInit, Unclaimed
  <1>4. Shape
    BY <1>1, <1>2, <1>3 DEF CheckpointInit, Shape
  <1>5. StoreShape /\ HeadersPinRows /\ OnlyProjections
    BY <1>1 DEF CheckpointInit, StoreShape, HeadersPinRows, OnlyProjections, Nothing, EmptyTables,
                NoHeaders, DistributionHeader, PriceHeader, Tables
  <1>6. AtStage /\ PublicIsBacked
    BY <1>1, <1>5 DEF CheckpointInit, AtStage, PublicIsBacked
  <1>. QED
    BY <1>4, <1>5, <1>6 DEF FlowInv

LEMMA FlowStep ==
    ASSUME FlowInv, [Next]_vars
    PROVE  FlowInv'
  <1>1. CASE CheckpointNext
    <2>1. CASE LateRow \/ Kill \/ Claim \/ Start
      BY <2>1, BesideKeeps, KillKeeps, ClaimKeeps, StartKeeps
    <2>2. CASE Task
      BY <2>2, ComputeKeeps, ProjectionsKeep, ThresholdsKeep, DistributionsKeep,
         DistributionHeaderKeeps, PriceKeeps, PricesKeep, PriceHeaderKeeps, MirrorKeeps,
         CalibrationKeeps, RecordKeeps, DecideKeeps DEF Task
    <2>3. CASE Raises
      BY <2>3, ComputeKeeps, ProjectionsKeep, ThresholdsKeep, DistributionHeaderKeeps,
         PriceKeeps, PriceHeaderKeeps, MirrorKeeps, RecordKeeps DEF Raises
    <2>. QED
      BY <1>1, <2>1, <2>2, <2>3 DEF CheckpointNext
  <1>2. CASE UNCHANGED checkpointVars
    BY <1>2, BesideKeeps
  <1>. QED
    BY <1>1, <1>2 DEF Next, vars

LEMMA FlowHolds == Spec => []FlowInv
  BY FlowInit, FlowStep, PTL DEF Spec

\* Every artifact of a run that succeeded, and the first two of one that failed
\* after its thresholds, are exactly what its last attempt simulated and priced,
\* whatever evidence arrived between the attempts.
THEOREM ArtifactsAreOneComputation == Spec => []OneComputation
  <1>1. FlowInv => OneComputation
    <2>. SUFFICES ASSUME FlowInv PROVE OneComputation
      OBVIOUS
    <2>1. run.status \in {"SUCCESS", "PARTIAL"} => Accounted(run)
      BY DEF FlowInv, Shape, AtStage
    <2>. QED
      BY <2>1 DEF OneComputation, Accounted, Thresholded, Distributed, PricesPinned
  <1>. QED
    BY <1>1, FlowHolds, PTL

\* A stored header pins exactly the rows stored for the run, though rows and
\* header are written one after the other and either may fail.
THEOREM HeadersPinTheirRows == Spec => []HeadersPinRows
  <1>1. FlowInv => HeadersPinRows
    BY DEF FlowInv
  <1>. QED
    BY <1>1, FlowHolds, PTL

\* The failure code of a PARTIAL run bounds what the run stored: all that was
\* simulated, nothing of a stage after the one that failed.
THEOREM FailureCodeBoundsArtifacts == Spec => []FailureBoundsArtifacts
  <1>1. FlowInv => FailureBoundsArtifacts
    <2>. SUFFICES ASSUME FlowInv, run.status = "PARTIAL" PROVE FailureBoundsArtifacts
      BY DEF FailureBoundsArtifacts
    <2>1. Accounted(run)
      BY DEF FlowInv, Shape, AtStage
    <2>. QED
      BY <2>1 DEF FailureBoundsArtifacts, Accounted, Nothing
  <1>. QED
    BY <1>1, FlowHolds, PTL

\* What the executor decides to be public was calibrated by a champion that
\* resolved, row for row of the pinned prices, beside its pinned distributions.
THEOREM PublicDecisionIsBacked == Spec => []PublicIsBacked
  <1>1. FlowInv => PublicIsBacked
    BY DEF FlowInv
  <1>. QED
    BY <1>1, FlowHolds, PTL

-----------------------------------------------------------------------------
(* Induction, as least counterexamples. *)

\* Some of the naturals have a least one.
LEMMA LeastExists ==
  ASSUME NEW T, T \subseteq Nat, T # {}
  PROVE  \E x \in T : \A y \in T : x <= y
  <1>. DEFINE R == {ss \in Nat \X Nat : ss[1] < ss[2]}
  <1>1. IsWellFoundedOn(R, Nat)
    BY NatLessThanWellFounded DEF OpToRel
  <1>2. \A x, y \in T : <<y, x>> \in R <=> y < x
    OBVIOUS
  <1>. HIDE DEF R
  <1>3. PICK x \in T : \A y \in T : ~ (<<y, x>> \in R)
    BY <1>1, WFMin
  <1>4. \A y \in T : ~ (y < x)
    BY <1>2, <1>3
  <1>5. \A y \in T : x <= y
    BY <1>4
  <1>. QED
    BY <1>5

-----------------------------------------------------------------------------
(* Sums over a finite set. *)

\* The recursion a sum stands for, on the subsets of S.
Solves(g, f, S) ==
    g = [s \in SUBSET S |->
            IF s = {} THEN 0
            ELSE f[CHOOSE y \in s : TRUE] + g[s \ {CHOOSE y \in s : TRUE}]]

\* Every set of subsets of a finite set that is not empty has a member none of whose
\* proper subsets belongs to it.
LEMMA SmallestSubset ==
    ASSUME NEW S, IsFiniteSet(S), NEW P, P \subseteq SUBSET S, P # {}
    PROVE  \E T \in P : \A U \in P : U \subseteq T => U = T
  <1>1. IsWellFoundedOn(StrictSubsetOrdering(S), FiniteSubsetsOf(S))
    BY FS_StrictSubsetOrderingWellFounded
  <1>2. P \subseteq FiniteSubsetsOf(S)
    BY FS_FiniteSubsetsOfFinite
  <1>3. PICK T \in P : \A U \in P : ~ (<<U, T>> \in StrictSubsetOrdering(S))
    BY <1>1, <1>2, WFMin
  <1>4. ASSUME NEW U \in P, U \subseteq T
        PROVE  U = T
    <2>1. <<U, T>> \in (SUBSET S) \X (SUBSET S)
      OBVIOUS
    <2>. QED
      BY <1>3, <1>4, <2>1 DEF StrictSubsetOrdering
  <1>. QED
    BY <1>4

LEMMA Chosen ==
    ASSUME NEW s, s # {}
    PROVE  (CHOOSE y \in s : TRUE) \in s
  OBVIOUS

\* Solutions agree where both are defined.
LEMMA SolutionsAgree ==
    ASSUME NEW f, NEW S, IsFiniteSet(S), NEW T, NEW g, NEW h, Solves(g, f, S), Solves(h, f, T)
    PROVE  \A s \in SUBSET S : s \subseteq T => g[s] = h[s]
  <1>. DEFINE P == {s \in SUBSET S : s \subseteq T /\ g[s] # h[s]}
  <1>1. SUFFICES ASSUME P # {} PROVE FALSE
    OBVIOUS
  <1>2. PICK s \in P : \A u \in P : u \subseteq s => u = s
    <2>1. P \subseteq SUBSET S
      OBVIOUS
    <2>. HIDE DEF P
    <2>. QED
      BY <1>1, <2>1, SmallestSubset
  <1>. DEFINE x == CHOOSE y \in s : TRUE
  <1>3. s \in SUBSET S /\ s \in SUBSET T /\ g[s] # h[s]
    OBVIOUS
  <1>4. s # {}
    BY <1>3 DEF Solves
  <1>5. x \in s
    BY <1>4, Chosen
  <1>6. s \ {x} \notin P
    BY <1>2, <1>5
  <1>7. g[s \ {x}] = h[s \ {x}]
    BY <1>3, <1>6
  <1>8. g[s] = f[x] + g[s \ {x}]
    BY <1>3, <1>4 DEF Solves
  <1>9. h[s] = f[x] + h[s \ {x}]
    BY <1>3, <1>4 DEF Solves
  <1>. QED
    BY <1>3, <1>7, <1>8, <1>9

\* Every finite set has one.
LEMMA SolutionExists ==
    ASSUME NEW f, NEW S, IsFiniteSet(S)
    PROVE  \E g : Solves(g, f, S)
  <1>. DEFINE P == {T \in SUBSET S : ~ \E g : Solves(g, f, T)}
  <1>1. SUFFICES ASSUME P # {} PROVE FALSE
    OBVIOUS
  <1>2. PICK T \in P : \A U \in P : U \subseteq T => U = T
    <2>1. P \subseteq SUBSET S
      OBVIOUS
    <2>. HIDE DEF P
    <2>. QED
      BY <1>1, <2>1, SmallestSubset
  <1>3. T \in SUBSET S
    OBVIOUS
  <1>. DEFINE G(U) == CHOOSE g : Solves(g, f, U)
              one(s) == CHOOSE y \in s : TRUE
              rest(s) == s \ {one(s)}
              h == [s \in SUBSET T |->
                       IF s = {} THEN 0 ELSE f[one(s)] + G(rest(s))[rest(s)]]
  <1>4. ASSUME NEW U \in SUBSET T, U # T
        PROVE  Solves(G(U), f, U)
    <2>1. U \notin P
      BY <1>2, <1>4
    <2>2. \E g : Solves(g, f, U)
      BY <2>1, <1>3
    <2>. QED
      BY <2>2
  <1>5. ASSUME NEW s \in SUBSET T, s # {}
        PROVE  h[rest(s)] = G(rest(s))[rest(s)]
    <2>. DEFINE u == rest(s)
    <2>1. one(s) \in s
      BY <1>5, Chosen
    <2>2. u \in SUBSET T /\ u # T
      BY <2>1
    <2>3. Solves(G(u), f, u)
      BY <1>4, <2>2
    <2>4. CASE u = {}
      <3>1. G(u)[u] = 0
        BY <2>3, <2>4 DEF Solves
      <3>. QED
        BY <2>2, <2>4, <3>1
    <2>5. CASE u # {}
      <3>1. one(u) \in u
        BY <2>5, Chosen
      <3>2. rest(u) \in SUBSET T /\ rest(u) # T /\ rest(u) \in SUBSET u
        BY <2>2, <3>1
      <3>3. Solves(G(rest(u)), f, rest(u))
        BY <1>4, <3>2
      <3>4. IsFiniteSet(u)
        BY <1>3, <2>2, FS_Subset
      <3>5. G(u)[rest(u)] = G(rest(u))[rest(u)]
        <4>. HIDE DEF G, one, rest
        <4>. QED
          BY <2>3, <3>2, <3>3, <3>4, SolutionsAgree
      <3>6. G(u)[u] = f[one(u)] + G(u)[rest(u)]
        BY <2>3, <2>5 DEF Solves
      <3>7. h[u] = f[one(u)] + G(rest(u))[rest(u)]
        BY <2>2, <2>5
      <3>. QED
        BY <3>5, <3>6, <3>7
    <2>. QED
      BY <2>4, <2>5
  <1>6. h = [s \in SUBSET T |-> IF s = {} THEN 0 ELSE f[one(s)] + h[rest(s)]]
    <2>1. \A s \in SUBSET T : s # {} => G(rest(s))[rest(s)] = h[rest(s)]
      BY <1>5
    <2>. HIDE DEF G, one, rest
    <2>. QED
      BY <2>1
  <1>7. Solves(h, f, T)
    BY <1>6 DEF Solves
  <1>. QED
    BY <1>2, <1>7

\* What a sum is: some solution, at the whole set.
LEMMA TotalIs ==
    ASSUME NEW f, NEW S, IsFiniteSet(S)
    PROVE  \E g : Solves(g, f, S) /\ Total(f, S) = g[S]
  <1>. DEFINE g == CHOOSE iter : Solves(iter, f, S)
  <1>1. Solves(g, f, S)
    BY SolutionExists
  <1>2. Total(f, S) = g[S]
    BY DEF Total, MapThenSumSet, MapThenFoldSet, Solves
  <1>. QED
    BY <1>1, <1>2

LEMMA TotalOfNone ==
    ASSUME NEW f
    PROVE  Total(f, {}) = 0
  <1>1. PICK g : Solves(g, f, {}) /\ Total(f, {}) = g[{}]
    BY TotalIs, FS_EmptySet
  <1>. QED
    BY <1>1 DEF Solves

\* The element the fold takes first.
LEMMA TotalTakesOne ==
    ASSUME NEW f, NEW S, IsFiniteSet(S), S # {}
    PROVE  \E x \in S : Total(f, S) = f[x] + Total(f, S \ {x})
  <1>. DEFINE x == CHOOSE y \in S : TRUE
  <1>1. x \in S
    BY Chosen
  <1>2. PICK g : Solves(g, f, S) /\ Total(f, S) = g[S]
    BY TotalIs
  <1>3. IsFiniteSet(S \ {x})
    BY FS_Subset
  <1>4. PICK h : Solves(h, f, S \ {x}) /\ Total(f, S \ {x}) = h[S \ {x}]
    BY <1>3, TotalIs
  <1>5. g[S] = f[x] + g[S \ {x}]
    BY <1>2 DEF Solves
  <1>6. g[S \ {x}] = h[S \ {x}]
    BY <1>2, <1>4, SolutionsAgree
  <1>. QED
    BY <1>1, <1>2, <1>4, <1>5, <1>6

LEMMA TotalInt ==
    ASSUME NEW f, NEW S, IsFiniteSet(S), \A x \in S : f[x] \in Int
    PROVE  Total(f, S) \in Int
  <1>. DEFINE P == {T \in SUBSET S : Total(f, T) \notin Int}
  <1>1. SUFFICES ASSUME P # {} PROVE FALSE
    OBVIOUS
  <1>2. PICK T \in P : \A U \in P : U \subseteq T => U = T
    <2>1. P \subseteq SUBSET S
      OBVIOUS
    <2>. HIDE DEF P
    <2>. QED
      BY <1>1, <2>1, SmallestSubset
  <1>3. T \subseteq S /\ IsFiniteSet(T) /\ Total(f, T) \notin Int
    BY FS_Subset
  <1>9. T # {}
    BY <1>3, TotalOfNone
  <1>4. PICK x \in T : Total(f, T) = f[x] + Total(f, T \ {x})
    BY <1>3, <1>9, TotalTakesOne
  <1>5. Total(f, T \ {x}) \in Int
    BY <1>2, <1>3
  <1>. QED
    BY <1>3, <1>4, <1>5

\* Any other could have been taken first.
LEMMA TotalTakes ==
    ASSUME NEW f, NEW S, IsFiniteSet(S), \A y \in S : f[y] \in Int, NEW x \in S
    PROVE  Total(f, S) = f[x] + Total(f, S \ {x})
  <1>. DEFINE P == {T \in SUBSET S : \E z \in T : Total(f, T) # f[z] + Total(f, T \ {z})}
  <1>1. SUFFICES ASSUME P # {} PROVE FALSE
    OBVIOUS
  <1>2. PICK T \in P : \A U \in P : U \subseteq T => U = T
    <2>1. P \subseteq SUBSET S
      OBVIOUS
    <2>. HIDE DEF P
    <2>. QED
      BY <1>1, <2>1, SmallestSubset
  <1>3. PICK z \in T : Total(f, T) # f[z] + Total(f, T \ {z})
    OBVIOUS
  <1>4. T \subseteq S /\ IsFiniteSet(T) /\ T # {}
    BY FS_Subset
  <1>5. PICK y \in T : Total(f, T) = f[y] + Total(f, T \ {y})
    BY <1>4, TotalTakesOne
  <1>6. z # y
    BY <1>3, <1>5
  <1>7. ASSUME NEW U \in SUBSET T, U # T, NEW w \in U
        PROVE  Total(f, U) = f[w] + Total(f, U \ {w})
    BY <1>2, <1>4, <1>7
  <1>8. Total(f, T \ {y}) = f[z] + Total(f, (T \ {y}) \ {z})
    BY <1>6, <1>7
  <1>9. Total(f, T \ {z}) = f[y] + Total(f, (T \ {z}) \ {y})
    BY <1>6, <1>7
  <1>10. (T \ {y}) \ {z} = (T \ {z}) \ {y}
    OBVIOUS
  <1>11. Total(f, (T \ {z}) \ {y}) \in Int
    BY <1>4, FS_Subset, TotalInt
  <1>12. f[y] \in Int /\ f[z] \in Int
    BY <1>4
  <1>13. Total(f, T) = f[y] + (f[z] + Total(f, (T \ {z}) \ {y}))
    BY <1>5, <1>8, <1>10
  <1>14. Total(f, T) = f[z] + (f[y] + Total(f, (T \ {z}) \ {y}))
    <2>. HIDE DEF P
    <2>. QED
      BY <1>11, <1>12, <1>13
  <1>. QED
    BY <1>3, <1>9, <1>14

\* The sum of a set is that of the set with one element less and the element.
LEMMA TotalAdds ==
    ASSUME NEW f, NEW S, IsFiniteSet(S), NEW x, x \notin S,
           \A y \in S \cup {x} : f[y] \in Int
    PROVE  Total(f, S \cup {x}) = f[x] + Total(f, S)
  <1>1. IsFiniteSet(S \cup {x})
    BY FS_AddElement
  <1>2. (S \cup {x}) \ {x} = S
    OBVIOUS
  <1>. QED
    BY <1>1, <1>2, TotalTakes

\* Induction over the subsets of a finite set, for a set P of those it is proved of.
LEMMA SubsetInduction ==
    ASSUME NEW S, IsFiniteSet(S), NEW P, {} \in P,
           \A T \in SUBSET S : \A x \in S \ T : T \in P => T \cup {x} \in P
    PROVE  SUBSET S \subseteq P
  <1>. DEFINE Q == (SUBSET S) \ P
  <1>1. SUFFICES ASSUME Q # {} PROVE FALSE
    OBVIOUS
  <1>2. PICK T \in Q : \A U \in Q : U \subseteq T => U = T
    <2>1. Q \subseteq SUBSET S
      OBVIOUS
    <2>. HIDE DEF Q
    <2>. QED
      BY <1>1, <2>1, SmallestSubset
  <1>3. T \in SUBSET S /\ T \notin P
    OBVIOUS
  <1>4. PICK x \in T : TRUE
    BY <1>3
  <1>5. T \ {x} \in P
    BY <1>2, <1>3
  <1>6. (T \ {x}) \cup {x} = T /\ T \ {x} \in SUBSET S /\ x \in S \ (T \ {x})
    BY <1>3
  <1>. QED
    BY <1>3, <1>5, <1>6

\* The sum depends on the values the function has in the set.
LEMMA TotalSame ==
    ASSUME NEW f, NEW g, NEW S, IsFiniteSet(S), \A x \in S : f[x] \in Int,
           \A x \in S : f[x] = g[x]
    PROVE  Total(f, S) = Total(g, S)
  <1>. DEFINE P == {T \in SUBSET S : Total(f, T) = Total(g, T)}
  <1>1. {} \in P
    BY TotalOfNone
  <1>2. ASSUME NEW T \in SUBSET S, NEW x \in S \ T, T \in P
        PROVE  T \cup {x} \in P
    <2>1. IsFiniteSet(T)
      BY FS_Subset
    <2>2. Total(f, T \cup {x}) = f[x] + Total(f, T)
      BY <2>1, TotalAdds
    <2>3. Total(g, T \cup {x}) = g[x] + Total(g, T)
      BY <2>1, TotalAdds
    <2>. QED
      BY <1>2, <2>2, <2>3
  <1>3. SUBSET S \subseteq P
    <2>. HIDE DEF P
    <2>. QED
      BY <1>1, <1>2, SubsetInduction
  <1>. QED
    BY <1>3

\* The sum of pointwise sums.
LEMMA TotalPlus ==
    ASSUME NEW f, NEW g, NEW h, NEW S, IsFiniteSet(S),
           \A x \in S : f[x] \in Int /\ g[x] \in Int /\ h[x] = f[x] + g[x]
    PROVE  Total(h, S) = Total(f, S) + Total(g, S)
  <1>. DEFINE P == {T \in SUBSET S : Total(h, T) = Total(f, T) + Total(g, T)}
  <1>1. {} \in P
    BY TotalOfNone
  <1>2. ASSUME NEW T \in SUBSET S, NEW x \in S \ T, T \in P
        PROVE  T \cup {x} \in P
    <2>1. IsFiniteSet(T)
      BY FS_Subset
    <2>2. Total(f, T \cup {x}) = f[x] + Total(f, T)
      BY <2>1, TotalAdds
    <2>3. Total(g, T \cup {x}) = g[x] + Total(g, T)
      BY <2>1, TotalAdds
    <2>4. Total(h, T \cup {x}) = h[x] + Total(h, T)
      BY <2>1, TotalAdds
    <2>5. Total(f, T) \in Int /\ Total(g, T) \in Int
      BY <2>1, TotalInt
    <2>6. f[x] \in Int /\ g[x] \in Int /\ h[x] = f[x] + g[x]
      OBVIOUS
    <2>7. Total(h, T) = Total(f, T) + Total(g, T)
      BY <1>2
    <2>8. Total(h, T \cup {x}) = Total(f, T \cup {x}) + Total(g, T \cup {x})
      BY <2>2, <2>3, <2>4, <2>5, <2>6, <2>7
    <2>. QED
      BY <2>8
  <1>3. SUBSET S \subseteq P
    <2>. HIDE DEF P
    <2>. QED
      BY <1>1, <1>2, SubsetInduction
  <1>. QED
    BY <1>3

LEMMA TotalLess ==
    ASSUME NEW f, NEW g, NEW S, IsFiniteSet(S),
           \A x \in S : f[x] \in Int /\ g[x] \in Int /\ f[x] <= g[x]
    PROVE  Total(f, S) <= Total(g, S)
  <1>. DEFINE P == {T \in SUBSET S : Total(f, T) <= Total(g, T)}
  <1>1. {} \in P
    BY TotalOfNone
  <1>2. ASSUME NEW T \in SUBSET S, NEW x \in S \ T, T \in P
        PROVE  T \cup {x} \in P
    <2>1. IsFiniteSet(T)
      BY FS_Subset
    <2>2. Total(f, T \cup {x}) = f[x] + Total(f, T)
      BY <2>1, TotalAdds
    <2>3. Total(g, T \cup {x}) = g[x] + Total(g, T)
      BY <2>1, TotalAdds
    <2>4. Total(f, T) \in Int /\ Total(g, T) \in Int /\ Total(f, T) <= Total(g, T)
      BY <1>2, <2>1, TotalInt
    <2>5. f[x] \in Int /\ g[x] \in Int /\ f[x] <= g[x]
      OBVIOUS
    <2>6. Total(f, T \cup {x}) <= Total(g, T \cup {x})
      BY <2>2, <2>3, <2>4, <2>5
    <2>. QED
      BY <2>6
  <1>3. SUBSET S \subseteq P
    <2>. HIDE DEF P
    <2>. QED
      BY <1>1, <1>2, SubsetInduction
  <1>. QED
    BY <1>3

LEMMA TotalOfZeros ==
    ASSUME NEW f, NEW S, IsFiniteSet(S), \A x \in S : f[x] = 0
    PROVE  Total(f, S) = 0
  <1>. DEFINE P == {U \in SUBSET S : Total(f, U) = 0}
  <1>1. {} \in P
    BY TotalOfNone
  <1>2. ASSUME NEW U \in SUBSET S, NEW x \in S \ U, U \in P
        PROVE  U \cup {x} \in P
    <2>1. IsFiniteSet(U)
      BY FS_Subset
    <2>2. Total(f, U \cup {x}) = f[x] + Total(f, U)
      BY <2>1, TotalAdds
    <2>3. Total(f, U) = 0 /\ f[x] = 0
      BY <1>2
    <2>4. Total(f, U \cup {x}) = 0
      BY <2>2, <2>3
    <2>. QED
      BY <2>4
  <1>3. SUBSET S \subseteq P
    <2>. HIDE DEF P
    <2>. QED
      BY <1>1, <1>2, SubsetInduction
  <1>. QED
    BY <1>3

\* A sum of naturals is one, and no summand is more than it.
LEMMA TotalNat ==
    ASSUME NEW f, NEW S, IsFiniteSet(S), \A x \in S : f[x] \in Nat
    PROVE  /\ Total(f, S) \in Nat
           /\ \A x \in S : f[x] <= Total(f, S)
  <1>1. ASSUME NEW T \in SUBSET S
        PROVE  Total(f, T) \in Nat
    <2>. DEFINE none == [x \in S |-> 0]
    <2>1. IsFiniteSet(T)
      BY FS_Subset
    <2>2. Total(f, T) \in Int
      BY <2>1, TotalInt
    <2>3. Total(none, T) = 0
      BY <2>1, TotalOfZeros
    <2>4. Total(none, T) <= Total(f, T)
      BY <2>1, TotalLess
    <2>. QED
      BY <2>2, <2>3, <2>4
  <1>2. ASSUME NEW x \in S
        PROVE  f[x] <= Total(f, S)
    <2>1. Total(f, S) = f[x] + Total(f, S \ {x})
      BY TotalTakes
    <2>2. Total(f, S \ {x}) \in Nat /\ f[x] \in Nat
      BY <1>1
    <2>. QED
      BY <2>1, <2>2
  <1>. QED
    BY <1>1, <1>2

LEMMA TotalTimes ==
    ASSUME NEW f, NEW h, NEW k \in Int, NEW S, IsFiniteSet(S),
           \A x \in S : f[x] \in Int /\ h[x] = k * f[x]
    PROVE  Total(h, S) = k * Total(f, S)
  <1>. DEFINE P == {T \in SUBSET S : Total(h, T) = k * Total(f, T)}
  <1>1. {} \in P
    BY TotalOfNone
  <1>2. ASSUME NEW T \in SUBSET S, NEW x \in S \ T, T \in P
        PROVE  T \cup {x} \in P
    <2>1. IsFiniteSet(T)
      BY FS_Subset
    <2>2. Total(f, T \cup {x}) = f[x] + Total(f, T)
      BY <2>1, TotalAdds
    <2>3. Total(h, T \cup {x}) = h[x] + Total(h, T)
      BY <2>1, TotalAdds
    <2>4. Total(f, T) \in Int /\ Total(h, T) = k * Total(f, T)
      BY <1>2, <2>1, TotalInt
    <2>5. f[x] \in Int /\ h[x] = k * f[x]
      OBVIOUS
    <2>6. k * f[x] + k * Total(f, T) = k * (f[x] + Total(f, T))
      BY <2>4, <2>5
    <2>7. Total(h, T \cup {x}) = k * Total(f, T \cup {x})
      BY <2>2, <2>3, <2>4, <2>5, <2>6
    <2>. QED
      BY <2>7
  <1>3. SUBSET S \subseteq P
    <2>. HIDE DEF P
    <2>. QED
      BY <1>1, <1>2, SubsetInduction
  <1>. QED
    BY <1>3

\* Two sets that have nothing in common.
LEMMA TotalUnion ==
    ASSUME NEW f, NEW A, NEW B, IsFiniteSet(A), IsFiniteSet(B), A \cap B = {},
           \A x \in A \cup B : f[x] \in Int
    PROVE  Total(f, A \cup B) = Total(f, A) + Total(f, B)
  <1>. DEFINE P == {T \in SUBSET B : Total(f, A \cup T) = Total(f, A) + Total(f, T)}
  <1>0. Total(f, A) \in Int
    BY TotalInt
  <1>1. {} \in P
    <2>1. A \cup {} = A
      OBVIOUS
    <2>. QED
      BY <1>0, <2>1, TotalOfNone
  <1>2. ASSUME NEW T \in SUBSET B, NEW x \in B \ T, T \in P
        PROVE  T \cup {x} \in P
    <2>1. IsFiniteSet(T) /\ IsFiniteSet(A \cup T)
      BY FS_Subset, FS_Union
    <2>2. Total(f, T \cup {x}) = f[x] + Total(f, T)
      BY <2>1, TotalAdds
    <2>3. x \notin A \cup T /\ A \cup (T \cup {x}) = (A \cup T) \cup {x}
      OBVIOUS
    <2>4. Total(f, A \cup (T \cup {x})) = f[x] + Total(f, A \cup T)
      BY <2>1, <2>3, TotalAdds
    <2>5. Total(f, T) \in Int /\ f[x] \in Int
      BY <2>1, TotalInt
    <2>6. Total(f, A \cup T) = Total(f, A) + Total(f, T)
      BY <1>2
    <2>7. Total(f, A \cup (T \cup {x})) = Total(f, A) + Total(f, T \cup {x})
      BY <1>0, <2>2, <2>4, <2>5, <2>6
    <2>. QED
      BY <2>7
  <1>3. SUBSET B \subseteq P
    <2>. HIDE DEF P
    <2>. QED
      BY <1>1, <1>2, SubsetInduction
  <1>. QED
    BY <1>3

\* Rows first or columns first.
LEMMA TotalsSwap ==
    ASSUME NEW m, NEW Q, IsFiniteSet(Q), NEW S, IsFiniteSet(S),
           \A q \in Q : \A x \in S : m[q][x] \in Int
    PROVE  Total([q \in Q |-> Total(m[q], S)], Q)
               = Total([x \in S |-> Total([q \in Q |-> m[q][x]], Q)], S)
  <1>. DEFINE rows == [T \in SUBSET S |-> [q \in Q |-> Total(m[q], T)]]
              column == [x \in S |-> [q \in Q |-> m[q][x]]]
              columns == [x \in S |-> Total(column[x], Q)]
              P == {T \in SUBSET S : Total(rows[T], Q) = Total(columns, T)}
  <1>1. {} \in P
    <2>1. \A q \in Q : rows[{}][q] = 0
      BY TotalOfNone
    <2>2. Total(rows[{}], Q) = 0
      <3>. HIDE DEF rows
      <3>. QED
        BY <2>1, TotalOfZeros
    <2>. QED
      BY <2>2, TotalOfNone
  <1>2. ASSUME NEW T \in SUBSET S, NEW x \in S \ T, T \in P
        PROVE  T \cup {x} \in P
    <2>1. IsFiniteSet(T)
      BY FS_Subset
    <2>2. ASSUME NEW q \in Q
          PROVE  /\ rows[T][q] \in Int /\ column[x][q] \in Int
                 /\ rows[T \cup {x}][q] = rows[T][q] + column[x][q]
      <3>1. Total(m[q], T \cup {x}) = m[q][x] + Total(m[q], T)
        BY <2>1, TotalAdds
      <3>2. Total(m[q], T) \in Int /\ m[q][x] \in Int
        BY <2>1, TotalInt
      <3>. QED
        BY <3>1, <3>2
    <2>3. Total(rows[T \cup {x}], Q) = Total(rows[T], Q) + Total(column[x], Q)
      <3>. DEFINE a == rows[T]
                  b == column[x]
                  c == rows[T \cup {x}]
      <3>1. \A q \in Q : a[q] \in Int /\ b[q] \in Int /\ c[q] = a[q] + b[q]
        BY <2>2
      <3>2. Total(c, Q) = Total(a, Q) + Total(b, Q)
        <4>. HIDE DEF a, b, c
        <4>. QED
          BY <3>1, TotalPlus
      <3>. QED
        BY <3>2
    <2>4. \A y \in S : columns[y] \in Int
      <3>1. ASSUME NEW y \in S
            PROVE  Total(column[y], Q) \in Int
        <4>1. \A q \in Q : column[y][q] \in Int
          OBVIOUS
        <4>. HIDE DEF column
        <4>. QED
          BY <4>1, TotalInt
      <3>. QED
        BY <3>1
    <2>5. Total(columns, T \cup {x}) = columns[x] + Total(columns, T)
      <3>. HIDE DEF columns
      <3>. QED
        BY <2>1, <2>4, TotalAdds
    <2>6. Total(columns, T) \in Int
      <3>. HIDE DEF columns
      <3>. QED
        BY <2>1, <2>4, TotalInt
    <2>7. columns[x] = Total(column[x], Q) /\ columns[x] \in Int
      BY <2>4
    <2>8. Total(rows[T], Q) = Total(columns, T)
      BY <1>2
    <2>9. Total(rows[T \cup {x}], Q) = Total(columns, T \cup {x})
      <3>. HIDE DEF rows, columns, column
      <3>. QED
        BY <2>3, <2>5, <2>6, <2>7, <2>8
    <2>. QED
      BY <2>9
  <1>3. SUBSET S \subseteq P
    <2>. HIDE DEF P
    <2>. QED
      BY <1>1, <1>2, SubsetInduction
  <1>4. S \in P
    BY <1>3
  <1>. QED
    BY <1>4

\* Nothing but one element counts.
LEMMA TotalOfOne ==
    ASSUME NEW f, NEW S, IsFiniteSet(S), NEW x \in S, f[x] \in Int,
           \A y \in S : y # x => f[y] = 0
    PROVE  Total(f, S) = f[x]
  <1>1. \A y \in S : f[y] \in Int
    OBVIOUS
  <1>2. Total(f, S) = f[x] + Total(f, S \ {x})
    BY <1>1, TotalTakes
  <1>3. IsFiniteSet(S \ {x}) /\ \A y \in S \ {x} : f[y] = 0
    BY FS_Subset
  <1>4. Total(f, S \ {x}) = 0
    BY <1>3, TotalOfZeros
  <1>. QED
    BY <1>2, <1>4

LEMMA TotalOfConstant ==
    ASSUME NEW f, NEW S, IsFiniteSet(S), NEW k \in Int, \A x \in S : f[x] = k
    PROVE  Total(f, S) = k * Cardinality(S)
  <1>. DEFINE P == {T \in SUBSET S : Total(f, T) = k * Cardinality(T)}
  <1>1. {} \in P
    BY TotalOfNone, FS_EmptySet
  <1>2. ASSUME NEW T \in SUBSET S, NEW x \in S \ T, T \in P
        PROVE  T \cup {x} \in P
    <2>1. IsFiniteSet(T)
      BY FS_Subset
    <2>2. Total(f, T \cup {x}) = f[x] + Total(f, T)
      BY <2>1, TotalAdds
    <2>3. Cardinality(T \cup {x}) = Cardinality(T) + 1 /\ Cardinality(T) \in Nat
      BY <2>1, FS_AddElement, FS_CardinalityType
    <2>4. Total(f, T) = k * Cardinality(T) /\ f[x] = k
      BY <1>2
    <2>5. k + k * Cardinality(T) = k * (Cardinality(T) + 1)
      BY <2>3
    <2>6. Total(f, T \cup {x}) = k * Cardinality(T \cup {x})
      BY <2>2, <2>3, <2>4, <2>5
    <2>. QED
      BY <2>6
  <1>3. SUBSET S \subseteq P
    <2>. HIDE DEF P
    <2>. QED
      BY <1>1, <1>2, SubsetInduction
  <1>. QED
    BY <1>3

LEMMA CardinalityOfTwo ==
    ASSUME NEW A, NEW B, IsFiniteSet(A), IsFiniteSet(B), A \cap B = {}
    PROVE  Cardinality(A \cup B) = Cardinality(A) + Cardinality(B)
  <1>1. Cardinality(A \cap B) = 0
    BY FS_EmptySet
  <1>2. Cardinality(A) \in Nat /\ Cardinality(B) \in Nat
    BY FS_CardinalityType
  <1>3. Cardinality(A \cup B) = Cardinality(A) + Cardinality(B) - Cardinality(A \cap B)
    BY FS_Union
  <1>. QED
    BY <1>1, <1>2, <1>3

\* How many take each value of a set adds up to how many take one of them, and so
\* do the values they take.
LEMMA CountByValue ==
    ASSUME NEW D, IsFiniteSet(D), NEW v, NEW O, IsFiniteSet(O)
    PROVE  Total([o \in O |-> Cardinality({d \in D : v[d] = o})], O)
               = Cardinality({d \in D : v[d] \in O})
  <1>. DEFINE with == [o \in O |-> {d \in D : v[d] = o}]
              within == [T \in SUBSET O |-> {d \in D : v[d] \in T}]
              f == [o \in O |-> Cardinality(with[o])]
              P == {T \in SUBSET O : Total(f, T) = Cardinality(within[T])}
  <1>1. {} \in P
    <2>1. within[{}] = {}
      OBVIOUS
    <2>. QED
      BY <2>1, TotalOfNone, FS_EmptySet
  <1>2. ASSUME NEW T \in SUBSET O, NEW x \in O \ T, T \in P
        PROVE  T \cup {x} \in P
    <2>1. IsFiniteSet(T)
      BY FS_Subset
    <2>2. /\ \A o \in O : IsFiniteSet(with[o]) /\ Cardinality(with[o]) \in Nat
          /\ IsFiniteSet(within[T]) /\ Cardinality(within[T]) \in Nat
      BY FS_Subset, FS_CardinalityType
    <2>3. \A y \in T \cup {x} : f[y] \in Int
      BY <2>2
    <2>4. Total(f, T \cup {x}) = f[x] + Total(f, T)
      <3>. HIDE DEF f
      <3>. QED
        BY <2>1, <2>3, TotalAdds
    <2>5. within[T \cup {x}] = within[T] \cup with[x] /\ within[T] \cap with[x] = {}
      OBVIOUS
    <2>6. Cardinality(within[T] \cup with[x]) = Cardinality(within[T]) + Cardinality(with[x])
      <3>1. IsFiniteSet(with[x]) /\ Cardinality(with[x]) \in Nat
        BY <2>2
      <3>. HIDE DEF within, with, P
      <3>. QED
        BY <2>2, <2>5, <3>1, CardinalityOfTwo
    <2>7. f[x] = Cardinality(with[x]) /\ Cardinality(with[x]) \in Nat
      BY <2>2
    <2>8. Total(f, T) = Cardinality(within[T])
      BY <1>2
    <2>9. Total(f, T \cup {x}) = Cardinality(within[T \cup {x}])
      <3>. HIDE DEF f, within, with, P
      <3>. QED
        BY <2>2, <2>4, <2>5, <2>6, <2>7, <2>8
    <2>. QED
      BY <2>9
  <1>3. SUBSET O \subseteq P
    <2>. HIDE DEF P
    <2>. QED
      BY <1>1, <1>2, SubsetInduction
  <1>4. O \in P
    BY <1>3
  <1>. QED
    BY <1>4

LEMMA TotalByValue ==
    ASSUME NEW D, IsFiniteSet(D), NEW v, NEW O, IsFiniteSet(O), O \subseteq Int,
           \A d \in D : v[d] \in O
    PROVE  Total([o \in O |-> o * Cardinality({d \in D : v[d] = o})], O) = Total(v, D)
  <1>. DEFINE with == [o \in O |-> {d \in D : v[d] = o}]
              within == [T \in SUBSET O |-> {d \in D : v[d] \in T}]
              f == [o \in O |-> o * Cardinality(with[o])]
              P == {T \in SUBSET O : Total(f, T) = Total(v, within[T])}
  <1>1. {} \in P
    <2>1. within[{}] = {}
      OBVIOUS
    <2>. QED
      BY <2>1, TotalOfNone
  <1>2. ASSUME NEW T \in SUBSET O, NEW x \in O \ T, T \in P
        PROVE  T \cup {x} \in P
    <2>1. IsFiniteSet(T)
      BY FS_Subset
    <2>2. /\ \A o \in O : IsFiniteSet(with[o]) /\ Cardinality(with[o]) \in Nat
          /\ IsFiniteSet(within[T])
      BY FS_Subset, FS_CardinalityType
    <2>3. \A y \in T \cup {x} : f[y] \in Int
      <3>1. \A y \in O : Cardinality(with[y]) \in Int /\ y \in Int
        BY <2>2
      <3>. HIDE DEF with
      <3>. QED
        BY <3>1
    <2>4. Total(f, T \cup {x}) = f[x] + Total(f, T)
      <3>. HIDE DEF f
      <3>. QED
        BY <2>1, <2>3, TotalAdds
    <2>5. within[T \cup {x}] = within[T] \cup with[x] /\ within[T] \cap with[x] = {}
      OBVIOUS
    <2>6. Total(v, within[T] \cup with[x]) = Total(v, within[T]) + Total(v, with[x])
      <3>1. IsFiniteSet(with[x]) /\ \A y \in within[T] \cup with[x] : v[y] \in Int
        BY <2>2
      <3>. HIDE DEF within, with
      <3>. QED
        BY <2>2, <2>5, <3>1, TotalUnion
    <2>7. Total(v, with[x]) = x * Cardinality(with[x])
      <3>1. IsFiniteSet(with[x]) /\ (\A y \in with[x] : v[y] = x) /\ x \in Int
        BY <2>2
      <3>. HIDE DEF with
      <3>. QED
        BY <3>1, TotalOfConstant
    <2>8. Total(f, T) = Total(v, within[T]) /\ Total(v, within[T]) \in Int
      <3>1. \A y \in within[T] : v[y] \in Int
        OBVIOUS
      <3>2. Total(v, within[T]) \in Int
        <4>. HIDE DEF within
        <4>. QED
          BY <2>2, <3>1, TotalInt
      <3>. QED
        BY <1>2, <3>2
    <2>9. f[x] = x * Cardinality(with[x]) /\ f[x] \in Int
      BY <2>3
    <2>10. Total(f, T \cup {x}) = Total(v, within[T \cup {x}])
      <3>. HIDE DEF f, within, with, P
      <3>. QED
        BY <2>4, <2>5, <2>6, <2>7, <2>8, <2>9
    <2>. QED
      BY <2>10
  <1>3. SUBSET O \subseteq P
    <2>. HIDE DEF P
    <2>. QED
      BY <1>1, <1>2, SubsetInduction
  <1>4. O \in P /\ within[O] = D
    BY <1>3
  <1>. QED
    BY <1>4

-----------------------------------------------------------------------------
(* Finite sets in order. *)

StrictOrder(R, S) ==
    /\ \A x \in S : <<x, x>> \notin R
    /\ \A x, y, z \in S : <<x, y>> \in R /\ <<y, z>> \in R => <<x, z>> \in R
    /\ \A x, y \in S : x = y \/ <<x, y>> \in R \/ <<y, x>> \in R

\* s lists S in the order R.
Lists(s, R, S) ==
    /\ s \in [1..Cardinality(S) -> S]
    /\ \A i, j \in 1..Cardinality(S) : i < j => <<s[i], s[j]>> \in R

Earlier(x, R, S) == {y \in S : <<y, x>> \in R}

\* An element's place is determined by how many come before it.
LEMMA Ranks ==
    ASSUME NEW S, IsFiniteSet(S), NEW R, StrictOrder(R, S)
    PROVE  LET rank == [x \in S |-> Cardinality(Earlier(x, R, S)) + 1]
           IN  /\ rank \in Bijection(S, 1..Cardinality(S))
               /\ \A x, y \in S : <<x, y>> \in R => rank[x] < rank[y]
  <1>. DEFINE n == Cardinality(S)
              rank == [x \in S |-> Cardinality(Earlier(x, R, S)) + 1]
  <1>1. n \in Nat
    BY FS_CardinalityType
  <1>2. ASSUME NEW x \in S
        PROVE  /\ IsFiniteSet(Earlier(x, R, S)) /\ Cardinality(Earlier(x, R, S)) \in Nat
               /\ Cardinality(Earlier(x, R, S)) < n
    <2>1. Earlier(x, R, S) \in SUBSET S /\ x \notin Earlier(x, R, S)
      BY DEF Earlier, StrictOrder
    <2>2. IsFiniteSet(Earlier(x, R, S)) /\ Cardinality(Earlier(x, R, S)) <= n
      BY <2>1, FS_Subset
    <2>3. Cardinality(Earlier(x, R, S)) # n
      BY <2>1, FS_Subset
    <2>4. Cardinality(Earlier(x, R, S)) \in Nat
      BY <2>2, FS_CardinalityType
    <2>. QED
      BY <1>1, <2>2, <2>3, <2>4
  <1>3. rank \in [S -> 1..n]
    BY <1>1, <1>2
  <1>4. ASSUME NEW x \in S, NEW y \in S, <<x, y>> \in R
        PROVE  rank[x] < rank[y]
    <2>1. Earlier(x, R, S) \in SUBSET Earlier(y, R, S)
      BY <1>4 DEF Earlier, StrictOrder
    <2>2. x \in Earlier(y, R, S) /\ x \notin Earlier(x, R, S)
      BY <1>4 DEF Earlier, StrictOrder
    <2>3. /\ Cardinality(Earlier(x, R, S)) <= Cardinality(Earlier(y, R, S))
          /\ Cardinality(Earlier(x, R, S)) # Cardinality(Earlier(y, R, S))
      BY <1>2, <2>1, <2>2, FS_Subset
    <2>4. Cardinality(Earlier(x, R, S)) \in Nat /\ Cardinality(Earlier(y, R, S)) \in Nat
      BY <1>2
    <2>5. rank[x] = Cardinality(Earlier(x, R, S)) + 1
          /\ rank[y] = Cardinality(Earlier(y, R, S)) + 1
      OBVIOUS
    <2>. QED
      BY <2>3, <2>4, <2>5
  <1>5. ASSUME NEW x \in S, NEW y \in S, rank[x] = rank[y]
        PROVE  x = y
    <2>1. rank[x] \in Nat /\ rank[y] \in Nat
      BY <1>3
    <2>2. ~ (<<x, y>> \in R) /\ ~ (<<y, x>> \in R)
      <3>. HIDE DEF rank
      <3>. QED
        BY <1>4, <1>5, <2>1
    <2>. QED
      BY <2>2 DEF StrictOrder
  <1>6. rank \in Injection(S, 1..n)
    <2>. HIDE DEF rank
    <2>. QED
      BY <1>3, <1>5 DEF Injection, IsInjective
  <1>7. IsFiniteSet(1..n) /\ Cardinality(1..n) = n
    BY <1>1, FS_Interval
  <1>8. rank \in Surjection(S, 1..n)
    <2>. HIDE DEF rank
    <2>. QED
      BY <1>6, <1>7, FS_Injection
  <1>. QED
    BY <1>4, <1>6, <1>8 DEF Bijection

\* There is such a list.
LEMMA ListExists ==
    ASSUME NEW S, IsFiniteSet(S), NEW R, StrictOrder(R, S)
    PROVE  \E s : Lists(s, R, S)
  <1>. DEFINE n == Cardinality(S)
              rank == [x \in S |-> Cardinality(Earlier(x, R, S)) + 1]
              s == [i \in 1..n |-> CHOOSE x \in S : rank[x] = i]
  <1>1. rank \in Bijection(S, 1..n)
    BY Ranks
  <1>2. ASSUME NEW i \in 1..n
        PROVE  s[i] \in S /\ rank[s[i]] = i
    <2>1. \E x \in S : rank[x] = i
      <3>. HIDE DEF rank
      <3>. QED
        BY <1>1 DEF Bijection, Surjection
    <2>. HIDE DEF rank
    <2>. QED
      BY <2>1
  <1>3. \A x, y \in S : <<x, y>> \in R => rank[x] < rank[y]
    BY Ranks
  <1>4. ASSUME NEW i \in 1..n, NEW j \in 1..n, i < j
        PROVE  <<s[i], s[j]>> \in R
    <2>1. s[i] \in S /\ s[j] \in S /\ rank[s[i]] = i /\ rank[s[j]] = j
      BY <1>2
    <2>2. CASE s[i] = s[j]
      <3>. HIDE DEF rank, s
      <3>. QED
        BY <1>4, <2>1, <2>2
    <2>3. CASE <<s[j], s[i]>> \in R
      <3>. HIDE DEF rank, s
      <3>1. j < i
        BY <1>3, <2>1, <2>3
      <3>. QED
        BY <1>1, <1>4, <3>1
    <2>. HIDE DEF rank, s
    <2>. QED
      BY <2>1, <2>2, <2>3 DEF StrictOrder
  <1>5. Lists(s, R, S)
    BY <1>2, <1>4 DEF Lists
  <1>. QED
    BY <1>5

\* It has every element, once.
LEMMA ListHasAll ==
    ASSUME NEW S, IsFiniteSet(S), NEW R, StrictOrder(R, S), NEW s, Lists(s, R, S)
    PROVE  /\ Cardinality(S) \in Nat
           /\ \A x \in S : \E i \in 1..Cardinality(S) : s[i] = x
           /\ \A i, j \in 1..Cardinality(S) : s[i] = s[j] => i = j
  <1>. DEFINE n == Cardinality(S)
  <1>1. n \in Nat
    BY FS_CardinalityType
  <1>2. \A i, j \in 1..n : s[i] = s[j] => i = j
    <2>1. SUFFICES ASSUME NEW i \in 1..n, NEW j \in 1..n, s[i] = s[j], i # j PROVE FALSE
      OBVIOUS
    <2>2. s[i] \in S /\ s[j] \in S
      BY DEF Lists
    <2>3. i < j \/ j < i
      BY <1>1, <2>1
    <2>4. <<s[i], s[i]>> \in R
      BY <2>1, <2>3 DEF Lists
    <2>. QED
      BY <2>2, <2>4 DEF StrictOrder
  <1>3. s \in Injection(1..n, S)
    BY <1>2 DEF Lists, Injection, IsInjective
  <1>4. IsFiniteSet(1..n) /\ Cardinality(1..n) = n
    BY <1>1, FS_Interval
  <1>5. s \in Surjection(1..n, S)
    BY <1>3, <1>4, FS_Injection
  <1>. QED
    BY <1>1, <1>2, <1>5 DEF Surjection

-----------------------------------------------------------------------------
(* Who plays. *)

ById(S) == {pair \in S \X S : pair[1].id < pair[2].id}

\* Players of whom each has an id of his own.
Numbered(S) ==
    /\ IsFiniteSet(S)
    /\ \A p \in S : p.id \in Int
    /\ \A p, q \in S : p.id = q.id => p = q

LEMMA IdsOrder ==
    ASSUME NEW S, Numbered(S)
    PROVE  StrictOrder(ById(S), S)
  <1>1. \A x \in S : <<x, x>> \notin ById(S)
    BY DEF ById, Numbered
  <1>2. \A x, y, z \in S : <<x, y>> \in ById(S) /\ <<y, z>> \in ById(S) => <<x, z>> \in ById(S)
    BY DEF ById, Numbered
  <1>3. \A x, y \in S : x = y \/ <<x, y>> \in ById(S) \/ <<y, x>> \in ById(S)
    BY DEF ById, Numbered
  <1>. QED
    BY <1>1, <1>2, <1>3 DEF StrictOrder

LEMMA InOrderLists ==
    ASSUME NEW S, Numbered(S)
    PROVE  Lists(InOrder(S), ById(S), S)
  <1>1. PICK s : Lists(s, ById(S), S)
    BY IdsOrder, ListExists DEF Numbered
  <1>2. s \in [1..Cardinality(S) -> S]
    BY <1>1 DEF Lists
  <1>3. \A i, j \in DOMAIN s : i < j => s[i].id < s[j].id
    BY <1>1, <1>2 DEF Lists, ById
  <1>4. /\ InOrder(S) \in [1..Cardinality(S) -> S]
        /\ \A i, j \in DOMAIN InOrder(S) : i < j => InOrder(S)[i].id < InOrder(S)[j].id
    BY <1>2, <1>3 DEF InOrder
  <1>5. \A i, j \in 1..Cardinality(S) : i < j => <<InOrder(S)[i], InOrder(S)[j]>> \in ById(S)
    BY <1>4 DEF ById
  <1>. QED
    BY <1>4, <1>5 DEF Lists

\* The list is a sequence of exactly those players.
LEMMA InOrderIs ==
    ASSUME NEW S, Numbered(S)
    PROVE  /\ InOrder(S) \in Seq(S) /\ Len(InOrder(S)) = Cardinality(S)
           /\ Cardinality(S) \in Nat
           /\ \A p \in S : \E i \in 1..Cardinality(S) : InOrder(S)[i] = p
           /\ \A i \in 1..Cardinality(S) : InOrder(S)[i] \in S
  <1>1. Lists(InOrder(S), ById(S), S)
    BY InOrderLists
  <1>2. /\ Cardinality(S) \in Nat
        /\ \A p \in S : \E i \in 1..Cardinality(S) : InOrder(S)[i] = p
    BY <1>1, IdsOrder, ListHasAll DEF Numbered
  <1>3. InOrder(S) \in [1..Cardinality(S) -> S]
    BY <1>1 DEF Lists
  <1>4. InOrder(S) \in Seq(S)
    BY <1>2, <1>3, SeqDef
  <1>5. Len(InOrder(S)) = Cardinality(S)
    BY <1>2, <1>3, <1>4, LenProperties
  <1>. QED
    BY <1>2, <1>3, <1>4, <1>5

\* The players of a game are those of a squad, listed once and for all.
Roster ==
    /\ squad \in Squads
    /\ players = [side \in Sides |-> EnsurePlayers(side)]

LEMMA ActiveNumbered ==
    ASSUME Roster, NEW side \in Sides
    PROVE  Numbered(ActiveOf(side)) /\ ActiveOf(side) \subseteq PlayerStates
  <1>1. /\ IsFiniteSet(squad) /\ squad \subseteq PlayerStates
        /\ \A p, q \in squad : p.id = q.id => p = q
    BY SimulationAssumption DEF Roster
  <1>2. IsFiniteSet(ActiveOf(side))
    BY <1>1, FS_Subset DEF ActiveOf
  <1>3. \A p \in PlayerStates : p.id \in Int
    BY DEF PlayerStates
  <1>. QED
    BY <1>1, <1>2, <1>3 DEF Numbered, ActiveOf

OtherId(side) == IF side = "home" THEN -1 ELSE -2
NoNameId(side) == IF side = "home" THEN -3 ELSE -4
HasQB(side) == \E p \in ActiveOf(side) : p.position = "QB"

\* The list of a side, place by place.
LEMMA PlayersAre ==
    ASSUME Roster, NEW side \in Sides
    PROVE  LET n == Cardinality(ActiveOf(side))
           IN  /\ n \in Nat
               /\ DOMAIN players[side] = 1..(IF HasQB(side) THEN n + 1 ELSE n + 2)
               /\ \A i \in 1..n : players[side][i] = InOrder(ActiveOf(side))[i]
               /\ players[side][n + 1] = Other(side)
               /\ ~HasQB(side) => players[side][n + 2] = NoNameQB(side)
  <1>. DEFINE A == ActiveOf(side)
              n == Cardinality(A)
              list == InOrder(A)
              S == A \cup {Other(side), NoNameQB(side)}
              listed == list \o <<Other(side)>>
  <1>1. /\ list \in Seq(A) /\ Len(list) = n /\ n \in Nat
    BY ActiveNumbered, InOrderIs
  <1>2. list \in Seq(S)
    BY <1>1, SeqMonotonic
  <1>3. <<Other(side)>> \in Seq(S) /\ Len(<<Other(side)>>) = 1
        /\ <<Other(side)>>[1] = Other(side)
    OBVIOUS
  <1>4. /\ listed \in Seq(S) /\ Len(listed) = n + 1
        /\ \A i \in 1..n : listed[i] = list[i]
        /\ listed[n + 1] = Other(side)
    <2>. HIDE DEF list, S, n
    <2>. QED
      BY <1>1, <1>2, <1>3, ConcatProperties
  <1>5. DOMAIN listed = 1..(n + 1)
    BY <1>4, LenProperties
  <1>6. players[side] = IF HasQB(side) THEN listed ELSE Append(listed, NoNameQB(side))
    BY DEF Roster, EnsurePlayers, HasQB
  <1>7. CASE HasQB(side)
    BY <1>1, <1>4, <1>5, <1>6, <1>7
  <1>8. CASE ~HasQB(side)
    <2>. DEFINE longer == Append(listed, NoNameQB(side))
    <2>1. /\ longer \in Seq(S) /\ Len(longer) = n + 2
          /\ \A i \in 1..(n + 1) : longer[i] = listed[i]
          /\ longer[n + 2] = NoNameQB(side)
      <3>1. NoNameQB(side) \in S
        OBVIOUS
      <3>. HIDE DEF listed, S, n
      <3>. QED
        BY <1>1, <1>4, <3>1, AppendProperties
    <2>2. DOMAIN longer = 1..(n + 2)
      BY <2>1, LenProperties
    <2>3. players[side] = longer
      BY <1>6, <1>8
    <2>. HIDE DEF listed, S, n, longer
    <2>. QED
      BY <1>1, <1>4, <1>8, <2>1, <2>2, <2>3 DEF n
  <1>. QED
    BY <1>7, <1>8

LEMMA IdsAre ==
    ASSUME Roster, NEW side \in Sides
    PROVE  /\ Ids(side) = {p.id : p \in ActiveOf(side)} \cup {OtherId(side)}
                              \cup (IF HasQB(side) THEN {} ELSE {NoNameId(side)})
           /\ IsFiniteSet(Ids(side)) /\ Ids(side) # {}
           /\ Ids(side) \subseteq Int \ {0}
           /\ DOMAIN players[side] \subseteq Nat /\ IsFiniteSet(DOMAIN players[side])
  <1>. DEFINE A == ActiveOf(side)
              n == Cardinality(A)
              last == IF HasQB(side) THEN n + 1 ELSE n + 2
              rest == {OtherId(side)} \cup (IF HasQB(side) THEN {} ELSE {NoNameId(side)})
  <1>1. /\ n \in Nat /\ DOMAIN players[side] = 1..last
        /\ \A i \in 1..n : players[side][i] = InOrder(A)[i]
        /\ players[side][n + 1] = Other(side)
        /\ ~HasQB(side) => players[side][n + 2] = NoNameQB(side)
    BY PlayersAre
  <1>2. /\ \A p \in A : \E i \in 1..n : InOrder(A)[i] = p
        /\ \A i \in 1..n : InOrder(A)[i] \in A
    BY ActiveNumbered, InOrderIs
  <1>3. Other(side).id = OtherId(side) /\ NoNameQB(side).id = NoNameId(side)
    BY DEF Other, NoNameQB, OtherId, NoNameId
  <1>4. ASSUME NEW i \in 1..last
        PROVE  players[side][i].id \in {p.id : p \in A} \cup rest
    <2>1. i \in 1..n \/ i = n + 1 \/ (i = n + 2 /\ ~HasQB(side))
      BY <1>1
    <2>. QED
      BY <1>1, <1>2, <1>3, <2>1
  <1>5. ASSUME NEW p \in A
        PROVE  \E i \in 1..last : players[side][i].id = p.id
    <2>1. PICK i \in 1..n : InOrder(A)[i] = p
      BY <1>2
    <2>2. i \in 1..last
      BY <1>1
    <2>. QED
      BY <1>1, <2>1, <2>2
  <1>6. /\ \E i \in 1..last : players[side][i].id = OtherId(side)
        /\ ~HasQB(side) => \E i \in 1..last : players[side][i].id = NoNameId(side)
    <2>1. n + 1 \in 1..last /\ (~HasQB(side) => n + 2 \in 1..last)
      BY <1>1
    <2>. QED
      BY <1>1, <1>3, <2>1
  <1>7. Ids(side) = {players[side][i].id : i \in 1..last}
    BY <1>1 DEF Ids
  <1>8. Ids(side) = {p.id : p \in A} \cup rest
    <2>. HIDE DEF A, last, n
    <2>. QED
      BY <1>4, <1>5, <1>6, <1>7
  <1>9. IsFiniteSet(1..last) /\ 1..last \subseteq Nat
    <2>1. last \in Int
      BY <1>1
    <2>. HIDE DEF last
    <2>. QED
      BY <2>1, FS_Interval
  <1>10. IsFiniteSet(Ids(side))
    <2>. DEFINE f == [i \in 1..last |-> players[side][i].id]
    <2>1. f \in Surjection(1..last, Ids(side))
      BY <1>7 DEF Surjection
    <2>. HIDE DEF f
    <2>. QED
      BY <1>9, <2>1, FS_Surjection
  <1>11. \A p \in A : p.id \in Int \ {0}
    BY ActiveNumbered DEF PlayerStates
  <1>12. rest \subseteq Int \ {0}
    BY DEF OtherId, NoNameId
  <1>. QED
    BY <1>1, <1>8, <1>9, <1>10, <1>11, <1>12

\* A player of a side's list is of that side and active, whatever the id says.
LEMMA ListedPlayers ==
    ASSUME Roster, NEW side \in Sides, NEW p \in squad
    PROVE  p.id \in Ids(side) <=> p.team = side /\ p.active
  <1>1. squad \subseteq PlayerStates /\ \A q, r \in squad : q.id = r.id => q = r
    BY SimulationAssumption DEF Roster
  <1>2. p.id \in Nat \ {0}
    BY <1>1 DEF PlayerStates
  <1>3. p.id # OtherId(side) /\ p.id # NoNameId(side)
    BY <1>2 DEF OtherId, NoNameId
  <1>4. p.id \in Ids(side) <=> \E q \in ActiveOf(side) : q.id = p.id
    BY <1>3, IdsAre
  <1>. QED
    BY <1>1, <1>4 DEF ActiveOf

-----------------------------------------------------------------------------
(* Whom a team starts. *)

\* A list of players with what they are compared by.
Comparable(list) ==
    /\ DOMAIN list \subseteq Nat /\ IsFiniteSet(DOMAIN list)
    /\ \A i \in DOMAIN list : list[i].qbShare \in Nat /\ list[i].depth \in Nat

Best(list, position, i) ==
    /\ i \in CandidatesAt(list, position)
    /\ \A j \in CandidatesAt(list, position) \ {i} : StarterBefore(list, position, i, j)

LEMMA BestExists ==
    ASSUME NEW list, Comparable(list), NEW position, CandidatesAt(list, position) # {}
    PROVE  \E i : Best(list, position, i)
  <1>. DEFINE C == CandidatesAt(list, position)
              R == {pair \in C \X C : StarterBefore(list, position, pair[1], pair[2])}
  <1>1. C \subseteq DOMAIN list /\ IsFiniteSet(C)
    BY FS_Subset DEF Comparable, CandidatesAt
  <1>2. \A i \in C : i \in Nat /\ list[i].qbShare \in Nat /\ Depth(list[i]) \in Nat
    BY <1>1 DEF Comparable, Depth
  <1>3. \A i, j \in C : <<i, j>> \in R <=> StarterBefore(list, position, i, j)
    OBVIOUS
  <1>4. StrictOrder(R, C)
    <2>. HIDE DEF C, R
    <2>1. \A i \in C : <<i, i>> \notin R
      BY <1>2, <1>3 DEF StarterBefore
    <2>2. \A i, j, k \in C : <<i, j>> \in R /\ <<j, k>> \in R => <<i, k>> \in R
      BY <1>2, <1>3 DEF StarterBefore
    <2>3. ASSUME NEW i \in C, NEW j \in C, i # j
          PROVE  <<i, j>> \in R \/ <<j, i>> \in R
      <3>. DEFINE a == list[i].qbShare
                  b == list[j].qbShare
                  c == Depth(list[i])
                  e == Depth(list[j])
      <3>1. a \in Nat /\ b \in Nat /\ c \in Nat /\ e \in Nat /\ i \in Nat /\ j \in Nat
        BY <1>2
      <3>2. /\ a > b \/ b > a \/ a = b
            /\ c < e \/ e < c \/ c = e
            /\ i < j \/ j < i
        BY <2>3, <3>1
      <3>3. StarterBefore(list, position, i, j) \/ StarterBefore(list, position, j, i)
        BY <3>2 DEF StarterBefore
      <3>. QED
        BY <1>3, <3>3
    <2>. QED
      BY <2>1, <2>2, <2>3 DEF StrictOrder
  <1>5. PICK s : Lists(s, R, C)
    <2>. HIDE DEF C, R
    <2>. QED
      BY <1>1, <1>4, ListExists
  <1>6. Cardinality(C) \in Nat /\ \A x \in C : \E i \in 1..Cardinality(C) : s[i] = x
    <2>. HIDE DEF C, R
    <2>. QED
      BY <1>1, <1>4, <1>5, ListHasAll
  <1>7. 1 \in 1..Cardinality(C)
    <2>1. PICK x \in C : TRUE
      OBVIOUS
    <2>. HIDE DEF C
    <2>. QED
      BY <1>6, <2>1
  <1>8. s[1] \in C
    BY <1>5, <1>7 DEF Lists
  <1>9. ASSUME NEW j \in C, j # s[1]
        PROVE  StarterBefore(list, position, s[1], j)
    <2>1. PICK i \in 1..Cardinality(C) : s[i] = j
      BY <1>6
    <2>2. 1 < i
      BY <1>6, <1>9, <2>1
    <2>3. <<s[1], j>> \in R
      BY <1>5, <1>7, <2>1, <2>2 DEF Lists
    <2>. QED
      BY <1>3, <1>8, <2>3
  <1>. QED
    BY <1>8, <1>9 DEF Best

LEMMA BestUnique ==
    ASSUME NEW list, Comparable(list), NEW position,
           NEW i, Best(list, position, i), NEW j, Best(list, position, j)
    PROVE  i = j
  <1>1. SUFFICES ASSUME i # j PROVE FALSE
    OBVIOUS
  <1>2. /\ i \in CandidatesAt(list, position) /\ j \in CandidatesAt(list, position)
        /\ StarterBefore(list, position, i, j) /\ StarterBefore(list, position, j, i)
    BY <1>1 DEF Best
  <1>3. /\ i \in Nat /\ list[i].qbShare \in Nat /\ Depth(list[i]) \in Nat
        /\ j \in Nat /\ list[j].qbShare \in Nat /\ Depth(list[j]) \in Nat
    BY <1>2 DEF Comparable, CandidatesAt, Depth
  <1>. QED
    BY <1>2, <1>3 DEF StarterBefore

\* The starter is the best candidate, if there is one.
LEMMA StarterIs ==
    ASSUME NEW list, Comparable(list), NEW position
    PROVE  /\ CandidatesAt(list, position) = {} => Starter(list, position) = 0
           /\ \A i : Best(list, position, i) => Starter(list, position) = list[i].id
           /\ CandidatesAt(list, position) # {} => \E i : Best(list, position, i)
  <1>1. ASSUME NEW i, Best(list, position, i)
        PROVE  Starter(list, position) = list[i].id
    <2>. DEFINE C == CandidatesAt(list, position)
                chosen == CHOOSE k \in C : \A j \in C \ {k} : StarterBefore(list, position, k, j)
    <2>1. C # {} /\ \E k \in C : \A j \in C \ {k} : StarterBefore(list, position, k, j)
      BY <1>1 DEF Best
    <2>2. Best(list, position, chosen)
      BY <2>1 DEF Best
    <2>3. chosen = i
      <3>. HIDE DEF chosen
      <3>. QED
        BY <1>1, <2>2, BestUnique
    <2>4. Starter(list, position) = list[chosen].id
      BY <2>1 DEF Starter
    <2>. QED
      BY <2>3, <2>4
  <1>2. CandidatesAt(list, position) = {} => Starter(list, position) = 0
    BY DEF Starter
  <1>. QED
    BY <1>1, <1>2, BestExists

LEMMA PlayersComparable ==
    ASSUME Roster, NEW side \in Sides
    PROVE  Comparable(players[side]) /\ Comparable(InOrder(ActiveOf(side)))
  <1>. DEFINE A == ActiveOf(side)
              n == Cardinality(A)
  <1>1. /\ n \in Nat /\ DOMAIN players[side] = 1..(IF HasQB(side) THEN n + 1 ELSE n + 2)
        /\ \A i \in 1..n : players[side][i] = InOrder(A)[i]
        /\ players[side][n + 1] = Other(side)
        /\ ~HasQB(side) => players[side][n + 2] = NoNameQB(side)
    BY PlayersAre
  <1>2. \A i \in 1..n : InOrder(A)[i] \in A
    BY ActiveNumbered, InOrderIs
  <1>3. \A p \in A : p.qbShare \in Nat /\ p.depth \in Nat
    BY ActiveNumbered DEF PlayerStates
  <1>4. DOMAIN InOrder(A) = 1..n /\ IsFiniteSet(1..n) /\ 1..n \subseteq Nat
    BY <1>1, ActiveNumbered, InOrderIs, LenProperties, FS_Interval
  <1>5. /\ Other(side).qbShare \in Nat /\ Other(side).depth \in Nat
        /\ NoNameQB(side).qbShare \in Nat /\ NoNameQB(side).depth \in Nat
    BY DEF Other, NoNameQB
  <1>6. ASSUME NEW i \in DOMAIN players[side]
        PROVE  players[side][i].qbShare \in Nat /\ players[side][i].depth \in Nat
    <2>1. i \in 1..n \/ i = n + 1 \/ (i = n + 2 /\ ~HasQB(side))
      BY <1>1
    <2>. QED
      BY <1>1, <1>2, <1>3, <1>5, <2>1
  <1>. QED
    BY <1>2, <1>3, <1>4, <1>6, IdsAre DEF Comparable

\* There is always a quarterback, and he is of the list; so is the kicker, or
\* there is none.
LEMMA StartersListed ==
    ASSUME Roster, NEW side \in Sides
    PROVE  /\ Starter(players[side], "QB") \in Ids(side)
           /\ Starter(players[side], "K") \in Ids(side) \cup {0}
  <1>. DEFINE A == ActiveOf(side)
              n == Cardinality(A)
  <1>1. ASSUME NEW position, CandidatesAt(players[side], position) # {}
        PROVE  Starter(players[side], position) \in Ids(side)
    BY <1>1, PlayersComparable, StarterIs DEF Best, CandidatesAt, Ids
  <1>2. CandidatesAt(players[side], "QB") # {}
    <2>1. /\ n \in Nat /\ DOMAIN players[side] = 1..(IF HasQB(side) THEN n + 1 ELSE n + 2)
          /\ \A i \in 1..n : players[side][i] = InOrder(A)[i]
          /\ ~HasQB(side) => players[side][n + 2] = NoNameQB(side)
      BY PlayersAre
    <2>2. CASE HasQB(side)
      <3>1. PICK p \in A : p.position = "QB"
        BY <2>2 DEF HasQB
      <3>2. PICK i \in 1..n : InOrder(A)[i] = p
        BY ActiveNumbered, InOrderIs
      <3>3. i \in DOMAIN players[side] /\ players[side][i] = p /\ p.active
        BY <2>1, <3>2 DEF ActiveOf
      <3>. QED
        BY <3>1, <3>3 DEF CandidatesAt
    <2>3. CASE ~HasQB(side)
      <3>1. n + 2 \in DOMAIN players[side]
        BY <2>1, <2>3
      <3>2. NoNameQB(side).active /\ NoNameQB(side).position = "QB"
        BY DEF NoNameQB, Other
      <3>. QED
        BY <2>1, <2>3, <3>1, <3>2 DEF CandidatesAt
    <2>. QED
      BY <2>2, <2>3
  <1>3. CandidatesAt(players[side], "K") = {} => Starter(players[side], "K") = 0
    BY PlayersComparable, StarterIs
  <1>. QED
    BY <1>1, <1>2, <1>3

-----------------------------------------------------------------------------
(* Extremes of finite sets of integers. *)

LEMMA GreatestOf ==
    ASSUME NEW S, IsFiniteSet(S), S \subseteq Int, S # {}
    PROVE  Max(S) \in S /\ \A y \in S : y <= Max(S)
  <1>. DEFINE P == {T \in SUBSET S : T # {} => \E x \in T : \A y \in T : y <= x}
  <1>1. {} \in P
    OBVIOUS
  <1>2. ASSUME NEW T \in SUBSET S, NEW x \in S \ T, T \in P
        PROVE  T \cup {x} \in P
    <2>1. \E z \in T \cup {x} : \A y \in T \cup {x} : y <= z
      <3>1. CASE T = {}
        BY <3>1
      <3>2. CASE T # {}
        <4>1. PICK w \in T : \A y \in T : y <= w
          BY <1>2, <3>2
        <4>2. w <= x \/ x <= w
          OBVIOUS
        <4>3. CASE x <= w
          BY <4>1, <4>3
        <4>4. CASE w <= x
          <5>1. \A y \in T \cup {x} : y <= x
            BY <4>1, <4>4
          <5>. QED
            BY <5>1
        <4>. QED
          BY <4>2, <4>3, <4>4
      <3>. QED
        BY <3>1, <3>2
    <2>. QED
      BY <2>1
  <1>3. SUBSET S \subseteq P
    <2>. HIDE DEF P
    <2>. QED
      BY <1>1, <1>2, SubsetInduction
  <1>4. \E x \in S : \A y \in S : x >= y
    BY <1>3
  <1>. QED
    BY <1>4 DEF Max

LEMMA HighestIs ==
    ASSUME NEW f, NEW S, IsFiniteSet(S), S # {}, \A p \in S : f[p] \in Int
    PROVE  /\ \E p \in S : Highest(f, S) = f[p]
           /\ \A p \in S : f[p] <= Highest(f, S)
           /\ Highest(f, S) \in Int
  <1>. DEFINE V == {f[p] : p \in S}
              g == [p \in S |-> f[p]]
  <1>1. g \in Surjection(S, V)
    BY DEF Surjection
  <1>2. IsFiniteSet(V)
    <2>. HIDE DEF g, V
    <2>. QED
      BY <1>1, FS_Surjection
  <1>3. V \subseteq Int /\ V # {}
    OBVIOUS
  <1>4. Max(V) \in V /\ \A y \in V : y <= Max(V)
    <2>. HIDE DEF V
    <2>. QED
      BY <1>2, <1>3, GreatestOf
  <1>. QED
    BY <1>4 DEF Highest

LEMMA LesserOfTwo ==
    ASSUME NEW a \in Int, NEW b \in Int
    PROVE  Min({a, b}) = IF a <= b THEN a ELSE b
  <1>1. \E x \in {a, b} : \A y \in {a, b} : x <= y
    OBVIOUS
  <1>2. Min({a, b}) \in {a, b} /\ \A y \in {a, b} : Min({a, b}) <= y
    BY <1>1 DEF Min
  <1>. QED
    BY <1>2

LEMMA GreaterOfTwo ==
    ASSUME NEW a \in Int, NEW b \in Int
    PROVE  Max({a, b}) = IF a >= b THEN a ELSE b
  <1>1. \E x \in {a, b} : \A y \in {a, b} : x >= y
    OBVIOUS
  <1>2. Max({a, b}) \in {a, b} /\ \A y \in {a, b} : Max({a, b}) >= y
    BY <1>1 DEF Max
  <1>. QED
    BY <1>2

-----------------------------------------------------------------------------
(* What a team does in a period. *)

TeamStats ==
    {"plays", "dropbacks", "sacks", "attempts", "rushes", "tried", "directed", "picks",
     "touchdowns", "points"}
CountStats ==
    {"targets", "receptions", "receiving_tds", "rush_attempts", "rushing_tds",
     "passing_attempts", "passing_completions", "passing_tds", "interceptions",
     "fg_attempts", "fg_made", "xp_made"}
YardStats ==
    {"receiving_yards", "longest_reception", "rushing_yards", "longest_rush", "passing_yards",
     "longest_pass"}

AllOf(side, l, name) == Total(l.of[name], Ids(side))

LineTyped(side, l) ==
    /\ \A name \in TeamStats : l[name] \in Nat
    /\ \A name \in CountStats : \A p \in Ids(side) : l.of[name][p] \in Nat
    /\ \A name \in YardStats : \A p \in Ids(side) : l.of[name][p] \in Int

\* What is counted of the team in one way is counted so in another.
TeamAdds(side, l) ==
    /\ l.sacks + l.attempts = l.dropbacks
    /\ l.dropbacks + l.rushes = l.plays
    /\ l.directed <= l.attempts
    /\ l.picks <= l.attempts
    /\ AllOf(side, l, "targets") = l.directed
    /\ AllOf(side, l, "rush_attempts") = l.rushes
    /\ l.touchdowns = AllOf(side, l, "receiving_tds") + AllOf(side, l, "rushing_tds")
    /\ AllOf(side, l, "xp_made") <= l.touchdowns
    /\ Starter(players[side], "K") # 0 =>
           l.points = 6 * l.touchdowns + 3 * AllOf(side, l, "fg_made")
                          + AllOf(side, l, "xp_made")

\* The quarterback has the passing numbers of the team, nobody else has any, and
\* only the kicker kicks.
ThrownBy(side, l, mine, number) ==
    LET qb == Starter(players[side], "QB")
    IN  /\ l.of[mine][qb] = number
        /\ \A p \in Ids(side) : p # qb => l.of[mine][p] = 0

QuarterbackHas(side, l) ==
    /\ ThrownBy(side, l, "passing_attempts", l.attempts)
    /\ ThrownBy(side, l, "passing_completions", AllOf(side, l, "receptions"))
    /\ ThrownBy(side, l, "passing_yards", AllOf(side, l, "receiving_yards"))
    /\ ThrownBy(side, l, "passing_tds", AllOf(side, l, "receiving_tds"))
    /\ \A p \in Ids(side) :
           l.of["fg_attempts"][p] # 0 => p = Starter(players[side], "K")

PlayerHas(side, l) ==
    \A p \in Ids(side) :
        LET has(name) == l.of[name][p]
        IN  /\ has("receptions") <= has("targets")
            /\ has("rush_attempts") = 0 => has("longest_rush") = 0
            /\ has("receptions") = 0 => has("longest_reception") = 0
            /\ has("fg_made") <= has("fg_attempts")
            /\ has("receiving_tds") > 0 => has("receptions") > 0
            /\ has("rushing_tds") > 0 => has("rush_attempts") > 0

LineFacts(side, l) ==
    LineTyped(side, l) /\ TeamAdds(side, l) /\ QuarterbackHas(side, l) /\ PlayerHas(side, l)

\* What the draws of one period are given to PeriodOf.
Counts(side, f) == DOMAIN f = Ids(side) /\ \A p \in Ids(side) : f[p] \in Nat
Yards(side, count, yards) ==
    /\ \A p \in Ids(side) : yards.sum[p] \in Int /\ yards.longest[p] \in Int
    /\ \A p \in Ids(side) : count[p] = 0 => yards.longest[p] = 0

MixDrawn(mix) ==
    /\ mix.plays \in Nat /\ mix.dropbacks \in Nat /\ mix.sacks \in Nat /\ mix.directed \in Nat
    /\ mix.dropbacks <= mix.plays /\ mix.sacks <= mix.dropbacks
    /\ mix.directed <= mix.dropbacks - mix.sacks

ThrowsDrawn(side, mix, throws) ==
    /\ Counts(side, throws.targets) /\ Counts(side, throws.picks)
    /\ Counts(side, throws.receptions)
    /\ Total(throws.targets, Ids(side)) = mix.directed
    /\ \A p \in Ids(side) : /\ throws.picks[p] <= throws.targets[p]
                            /\ throws.receptions[p] <= throws.targets[p]

ScoredDrawn(side, throws, carries, scored) ==
    /\ Counts(side, scored.pass) /\ Counts(side, scored.rush)
    /\ \A p \in Ids(side) : /\ scored.pass[p] > 0 => throws.receptions[p] > 0
                            /\ scored.rush[p] > 0 => carries[p] > 0

KicksDrawn(side, scored, kicks) ==
    /\ kicks.tried \in Nat /\ kicks.made \in Nat /\ kicks.extra \in Nat
    /\ kicks.made <= kicks.tried
    /\ kicks.extra <= Total(scored.pass, Ids(side)) + Total(scored.rush, Ids(side))

Drawn(side, mix, throws, yards, carries, ground, scored, kicks) ==
    /\ MixDrawn(mix) /\ ThrowsDrawn(side, mix, throws)
    /\ Yards(side, throws.receptions, yards)
    /\ Counts(side, carries) /\ Total(carries, Ids(side)) = mix.plays - mix.dropbacks
    /\ Yards(side, carries, ground)
    /\ ScoredDrawn(side, throws, carries, scored) /\ KicksDrawn(side, scored, kicks)

LEMMA OnlyOfOne ==
    ASSUME NEW ids, IsFiniteSet(ids), NEW starter, NEW number \in Int
    PROVE  /\ \A p \in ids : OnlyOf(starter, ids, number)[p] = IF p = starter THEN number ELSE 0
           /\ starter \in ids => Total(OnlyOf(starter, ids, number), ids) = number
           /\ starter \notin ids => Total(OnlyOf(starter, ids, number), ids) = 0
  <1>. DEFINE f == OnlyOf(starter, ids, number)
  <1>1. \A p \in ids : f[p] = IF p = starter THEN number ELSE 0
    BY DEF OnlyOf
  <1>2. starter \in ids => Total(f, ids) = number
    <2>1. SUFFICES ASSUME starter \in ids PROVE Total(f, ids) = number
      OBVIOUS
    <2>. HIDE DEF f
    <2>2. f[starter] = number /\ \A p \in ids : p # starter => f[p] = 0
      BY <1>1, <2>1
    <2>3. Total(f, ids) = f[starter]
      BY <2>1, <2>2, TotalOfOne
    <2>. QED
      BY <2>2, <2>3
  <1>3. starter \notin ids => Total(f, ids) = 0
    <2>1. SUFFICES ASSUME starter \notin ids PROVE Total(f, ids) = 0
      OBVIOUS
    <2>. HIDE DEF f
    <2>2. \A p \in ids : f[p] = 0
      BY <1>1, <2>1
    <2>. QED
      BY <2>2, TotalOfZeros
  <1>. QED
    BY <1>1, <1>2, <1>3

LEMMA PeriodOfFacts ==
    ASSUME Roster, NEW side \in Sides, NEW mix, NEW throws, NEW yards, NEW carries, NEW ground,
           NEW scored, NEW kicks,
           Drawn(side, mix, throws, yards, carries, ground, scored, kicks)
    PROVE  LineFacts(side, PeriodOf(side, mix, throws, yards, carries, ground, scored, kicks))
  <1>. DEFINE ids == Ids(side)
              l == PeriodOf(side, mix, throws, yards, carries, ground, scored, kicks)
              qb == Starter(players[side], "QB")
              kicker == Starter(players[side], "K")
              attempts == mix.dropbacks - mix.sacks
              tds == Total(scored.pass, ids) + Total(scored.rush, ids)
              completions == Total(throws.receptions, ids)
              gained == Total(yards.sum, ids)
              picks == Total(throws.picks, ids)
              longest == Highest(yards.longest, ids)
  <1>1. /\ IsFiniteSet(ids) /\ ids # {} /\ 0 \notin ids
        /\ qb \in ids /\ kicker \in ids \cup {0}
    BY IdsAre, StartersListed
  <1>2. MixDrawn(mix) /\ attempts \in Nat
    BY DEF Drawn, MixDrawn
  <1>3. /\ \A p \in ids : /\ throws.targets[p] \in Nat /\ throws.picks[p] \in Nat
                          /\ throws.receptions[p] \in Nat /\ carries[p] \in Nat
                          /\ scored.pass[p] \in Nat /\ scored.rush[p] \in Nat
        /\ \A p \in ids : yards.sum[p] \in Int /\ yards.longest[p] \in Int
    BY DEF Drawn, ThrowsDrawn, ScoredDrawn, Counts, Yards
  <1>4. /\ Total(throws.targets, ids) \in Nat /\ completions \in Nat /\ picks \in Nat
        /\ Total(carries, ids) \in Nat
        /\ Total(scored.pass, ids) \in Nat /\ Total(scored.rush, ids) \in Nat
        /\ gained \in Int /\ longest \in Int
    BY <1>1, <1>3, TotalNat, TotalInt, HighestIs
  <1>5. picks <= mix.directed
    <2>1. Total(throws.picks, ids) <= Total(throws.targets, ids)
      BY <1>1, <1>3, TotalLess DEF Drawn, ThrowsDrawn
    <2>. QED
      BY <2>1 DEF Drawn, ThrowsDrawn
  <1>6. kicks.tried \in Nat /\ kicks.made \in Nat /\ kicks.extra \in Nat
        /\ kicks.made <= kicks.tried /\ kicks.extra <= tds
    BY DEF Drawn, KicksDrawn
  <1>7. /\ l.plays = mix.plays /\ l.dropbacks = mix.dropbacks /\ l.sacks = mix.sacks
        /\ l.attempts = attempts /\ l.rushes = mix.plays - mix.dropbacks
        /\ l.tried = kicks.tried /\ l.directed = mix.directed /\ l.picks = picks
        /\ l.touchdowns = tds /\ l.points = 6 * tds + 3 * kicks.made + kicks.extra
    BY DEF PeriodOf
  <1>8. /\ l.of.targets = throws.targets /\ l.of.receptions = throws.receptions
        /\ l.of.receiving_yards = yards.sum /\ l.of.longest_reception = yards.longest
        /\ l.of.receiving_tds = scored.pass /\ l.of.rush_attempts = carries
        /\ l.of.rushing_yards = ground.sum /\ l.of.longest_rush = ground.longest
        /\ l.of.rushing_tds = scored.rush
    BY DEF PeriodOf
  <1>9. /\ l.of.passing_attempts = OnlyOf(qb, ids, attempts)
        /\ l.of.passing_completions = OnlyOf(qb, ids, completions)
        /\ l.of.passing_yards = OnlyOf(qb, ids, gained)
        /\ l.of.passing_tds = OnlyOf(qb, ids, Total(scored.pass, ids))
        /\ l.of.interceptions = OnlyOf(qb, ids, picks)
        /\ l.of.longest_pass = OnlyOf(qb, ids, longest)
        /\ l.of.fg_attempts = OnlyOf(kicker, ids, kicks.tried)
        /\ l.of.fg_made = OnlyOf(kicker, ids, kicks.made)
        /\ l.of.xp_made = OnlyOf(kicker, ids, kicks.extra)
    BY DEF PeriodOf
  <1>. HIDE DEF l, ids, qb, kicker, attempts, completions, gained, picks, longest
  <1>10. ASSUME NEW p \in ids
         PROVE  /\ l.of.passing_attempts[p] = IF p = qb THEN attempts ELSE 0
                /\ l.of.passing_completions[p] = IF p = qb THEN completions ELSE 0
                /\ l.of.passing_yards[p] = IF p = qb THEN gained ELSE 0
                /\ l.of.passing_tds[p] = IF p = qb THEN Total(scored.pass, ids) ELSE 0
                /\ l.of.interceptions[p] = IF p = qb THEN picks ELSE 0
                /\ l.of.longest_pass[p] = IF p = qb THEN longest ELSE 0
                /\ l.of.fg_attempts[p] = IF p = kicker THEN kicks.tried ELSE 0
                /\ l.of.fg_made[p] = IF p = kicker THEN kicks.made ELSE 0
                /\ l.of.xp_made[p] = IF p = kicker THEN kicks.extra ELSE 0
    BY <1>1, <1>2, <1>4, <1>6, <1>9, OnlyOfOne
  <1>11. LineTyped(side, l)
    <2>1. \A name \in TeamStats : l[name] \in Nat
      <3>1. l.plays \in Nat /\ l.dropbacks \in Nat /\ l.sacks \in Nat /\ l.attempts \in Nat
            /\ l.rushes \in Nat /\ l.tried \in Nat /\ l.directed \in Nat /\ l.picks \in Nat
        BY <1>2, <1>4, <1>6, <1>7 DEF MixDrawn
      <3>2. l.touchdowns \in Nat /\ l.points \in Nat
        BY <1>4, <1>6, <1>7
      <3>. QED
        BY <3>1, <3>2 DEF TeamStats
    <2>2. ASSUME NEW p \in ids
          PROVE  \A name \in CountStats : l.of[name][p] \in Nat
      <3>1. /\ l.of.targets[p] \in Nat /\ l.of.receptions[p] \in Nat
            /\ l.of.receiving_tds[p] \in Nat /\ l.of.rush_attempts[p] \in Nat
            /\ l.of.rushing_tds[p] \in Nat
        BY <1>3, <1>8
      <3>2. /\ l.of.passing_attempts[p] \in Nat /\ l.of.passing_completions[p] \in Nat
            /\ l.of.passing_tds[p] \in Nat /\ l.of.interceptions[p] \in Nat
        BY <1>2, <1>4, <1>10
      <3>3. /\ l.of.fg_attempts[p] \in Nat /\ l.of.fg_made[p] \in Nat
            /\ l.of.xp_made[p] \in Nat
        BY <1>6, <1>10
      <3>. QED
        BY <3>1, <3>2, <3>3 DEF CountStats
    <2>3. ASSUME NEW p \in ids
          PROVE  \A name \in YardStats : l.of[name][p] \in Int
      <3>1. /\ l.of.receiving_yards[p] \in Int /\ l.of.longest_reception[p] \in Int
            /\ l.of.rushing_yards[p] \in Int /\ l.of.longest_rush[p] \in Int
        BY <1>3, <1>8 DEF Drawn, Yards, ids
      <3>2. l.of.passing_yards[p] \in Int /\ l.of.longest_pass[p] \in Int
        BY <1>4, <1>10
      <3>. QED
        BY <3>1, <3>2 DEF YardStats
    <2>. QED
      BY <2>1, <2>2, <2>3 DEF LineTyped, ids
  <1>12. TeamAdds(side, l)
    <2>1. /\ l.sacks + l.attempts = l.dropbacks /\ l.dropbacks + l.rushes = l.plays
          /\ l.directed <= l.attempts
      BY <1>2, <1>7 DEF MixDrawn, attempts
    <2>2. l.picks <= l.attempts
      BY <1>2, <1>4, <1>5, <1>7 DEF MixDrawn, attempts
    <2>3. /\ AllOf(side, l, "targets") = l.directed
          /\ AllOf(side, l, "rush_attempts") = l.rushes
      BY <1>7, <1>8 DEF AllOf, Drawn, ThrowsDrawn, ids
    <2>4. l.touchdowns = AllOf(side, l, "receiving_tds") + AllOf(side, l, "rushing_tds")
      BY <1>7, <1>8 DEF AllOf, ids
    <2>5. /\ AllOf(side, l, "xp_made") = IF kicker \in ids THEN kicks.extra ELSE 0
          /\ AllOf(side, l, "fg_made") = IF kicker \in ids THEN kicks.made ELSE 0
      BY <1>1, <1>6, <1>9, OnlyOfOne DEF AllOf, ids
    <2>6. AllOf(side, l, "xp_made") <= l.touchdowns
      BY <1>4, <1>6, <1>7, <2>5
    <2>7. kicker # 0 =>
              l.points = 6 * l.touchdowns + 3 * AllOf(side, l, "fg_made")
                             + AllOf(side, l, "xp_made")
      BY <1>1, <1>7, <2>5
    <2>. QED
      BY <2>1, <2>2, <2>3, <2>4, <2>6, <2>7 DEF TeamAdds, kicker
  <1>13. QuarterbackHas(side, l)
    <2>1. /\ AllOf(side, l, "receptions") = completions
          /\ AllOf(side, l, "receiving_yards") = gained
          /\ AllOf(side, l, "receiving_tds") = Total(scored.pass, ids)
      BY <1>8 DEF AllOf, ids, completions, gained
    <2>2. \A p \in ids : l.of.fg_attempts[p] # 0 => p = kicker
      BY <1>10
    <2>3. /\ ThrownBy(side, l, "passing_attempts", l.attempts)
          /\ ThrownBy(side, l, "passing_completions", completions)
          /\ ThrownBy(side, l, "passing_yards", gained)
          /\ ThrownBy(side, l, "passing_tds", Total(scored.pass, ids))
      BY <1>1, <1>7, <1>10 DEF ThrownBy, ids, qb
    <2>. QED
      BY <2>1, <2>2, <2>3 DEF QuarterbackHas, ids, kicker
  <1>14. PlayerHas(side, l)
    <2>1. ASSUME NEW p \in ids
          PROVE  /\ l.of.receptions[p] <= l.of.targets[p]
                 /\ l.of.rush_attempts[p] = 0 => l.of.longest_rush[p] = 0
                 /\ l.of.receptions[p] = 0 => l.of.longest_reception[p] = 0
                 /\ l.of.receiving_tds[p] > 0 => l.of.receptions[p] > 0
                 /\ l.of.rushing_tds[p] > 0 => l.of.rush_attempts[p] > 0
      BY <1>8 DEF Drawn, ThrowsDrawn, Yards, ScoredDrawn, ids
    <2>2. \A p \in ids : l.of.fg_made[p] <= l.of.fg_attempts[p]
      BY <1>6, <1>10
    <2>. QED
      BY <2>1, <2>2 DEF PlayerHas, ids
  <1>. QED
    BY <1>11, <1>12, <1>13, <1>14 DEF LineFacts, l

LEMMA AllocationsAre ==
    ASSUME NEW side, NEW count \in Nat, NEW a \in Allocations(count, Ids(side))
    PROVE  Counts(side, a) /\ Total(a, Ids(side)) = count
  BY DEF Allocations, Counts

LEMMA UpToIs ==
    ASSUME Roster, NEW side \in Sides, NEW most, Counts(side, most), NEW f \in UpTo(most)
    PROVE  Counts(side, f) /\ \A p \in Ids(side) : f[p] <= most[p]
  <1>1. Highest(most, Ids(side)) \in Int
    BY IdsAre, HighestIs DEF Counts
  <1>. QED
    BY <1>1 DEF UpTo, Counts

LEMMA ThrowsAre ==
    ASSUME Roster, NEW side \in Sides, NEW mix, MixDrawn(mix),
           NEW throws \in Throws(mix.directed, Ids(side))
    PROVE  ThrowsDrawn(side, mix, throws)
  <1>a. PICK t \in Allocations(mix.directed, Ids(side)) : \E i \in UpTo(t) :
            \E c \in UpTo(Minus(t, i)) :
                throws = [targets |-> t, picks |-> i, receptions |-> c]
    BY DEF Throws
  <1>b. PICK i \in UpTo(t) : \E c \in UpTo(Minus(t, i)) :
            throws = [targets |-> t, picks |-> i, receptions |-> c]
    BY <1>a
  <1>1. PICK c \in UpTo(Minus(t, i)) :
            throws = [targets |-> t, picks |-> i, receptions |-> c]
    BY <1>b
  <1>2. Counts(side, t) /\ Total(t, Ids(side)) = mix.directed
    BY AllocationsAre DEF MixDrawn
  <1>3. Counts(side, i) /\ \A p \in Ids(side) : i[p] <= t[p]
    BY <1>2, UpToIs
  <1>4. /\ Counts(side, Minus(t, i))
        /\ \A p \in Ids(side) : Minus(t, i)[p] <= t[p]
    BY <1>2, <1>3 DEF Minus, Counts
  <1>5. Counts(side, c) /\ \A p \in Ids(side) : c[p] <= Minus(t, i)[p]
    BY <1>4, UpToIs
  <1>6. \A p \in Ids(side) : c[p] <= t[p]
    BY <1>2, <1>4, <1>5 DEF Counts
  <1>. QED
    BY <1>1, <1>2, <1>3, <1>5, <1>6 DEF ThrowsDrawn

LEMMA GainedIs ==
    ASSUME NEW side, NEW count, Counts(side, count), NEW gains, gains \subseteq Int,
           NEW f \in Gained(count, gains)
    PROVE  \A p \in Ids(side) : f[p] \in Int /\ (count[p] = 0 => f[p] = 0)
  <1>. DEFINE touched == {p \in DOMAIN count : count[p] > 0}
  <1>1. PICK g \in [touched -> gains] :
            f = [p \in DOMAIN count |-> IF p \in touched THEN g[p] ELSE 0]
    BY DEF Gained
  <1>2. ASSUME NEW p \in Ids(side)
        PROVE  f[p] \in Int /\ (count[p] = 0 => f[p] = 0)
    <2>1. f[p] = IF p \in touched THEN g[p] ELSE 0
      BY <1>1 DEF Counts
    <2>2. count[p] \in Nat /\ (p \in touched => count[p] > 0)
      BY DEF Counts
    <2>3. p \in touched => g[p] \in Int
      BY <1>1
    <2>. HIDE DEF touched
    <2>. QED
      BY <2>1, <2>2, <2>3
  <1>. QED
    BY <1>2

LEMMA YardsAre ==
    ASSUME NEW side, NEW count, Counts(side, count), NEW yards,
           yards.sum \in Gained(count, Gains), yards.longest \in Gained(count, LongGains)
    PROVE  Yards(side, count, yards)
  <1>1. Gains \subseteq Int /\ LongGains \subseteq Int
    BY SimulationAssumption
  <1>2. \A p \in Ids(side) : yards.sum[p] \in Int
    BY <1>1, GainedIs
  <1>3. \A p \in Ids(side) : yards.longest[p] \in Int
                             /\ (count[p] = 0 => yards.longest[p] = 0)
    BY <1>1, GainedIs
  <1>. QED
    BY <1>2, <1>3 DEF Yards

LEMMA WeightedAre ==
    ASSUME Roster, NEW side \in Sides, NEW count \in Nat, NEW weight, Counts(side, weight),
           NEW a \in WeightedAllocations(count, weight)
    PROVE  Counts(side, a) /\ \A p \in Ids(side) : a[p] > 0 => weight[p] > 0
  <1>1. CASE Total(weight, Ids(side)) = 0
    <2>1. a = [p \in Ids(side) |-> 0]
      BY <1>1 DEF WeightedAllocations, Counts
    <2>. QED
      BY <2>1 DEF Counts
  <1>2. CASE Total(weight, Ids(side)) # 0
    <2>1. /\ a \in Allocations(count, Ids(side))
          /\ \A p \in Ids(side) : weight[p] = 0 => a[p] = 0
      BY <1>2 DEF WeightedAllocations, Counts
    <2>2. Counts(side, a)
      BY <2>1, AllocationsAre
    <2>. QED
      BY <2>1, <2>2 DEF Counts
  <1>. QED
    BY <1>1, <1>2

LEMMA TouchdownsAre ==
    ASSUME NEW completions \in Nat, NEW rushes \in Nat, NEW t \in Touchdowns(completions, rushes)
    PROVE  t.pass \in Nat /\ t.rush \in Nat
  <1>a. PICK all \in 0..(completions + rushes) : \E pass \in 0..all :
            LET passing == Min({pass, completions})
                rushing == all - passing
            IN  t = [pass |-> Min({passing + Max({rushing - rushes, 0}), completions}),
                     rush |-> Min({rushing, rushes})]
    BY DEF Touchdowns
  <1>1. PICK pass \in 0..all :
            LET passing == Min({pass, completions})
                rushing == all - passing
            IN  t = [pass |-> Min({passing + Max({rushing - rushes, 0}), completions}),
                     rush |-> Min({rushing, rushes})]
    BY <1>a
  <1>. DEFINE passing == Min({pass, completions})
              rushing == all - passing
              over == Max({rushing - rushes, 0})
  <1>2. passing \in Nat /\ passing <= pass
    BY LesserOfTwo
  <1>3. rushing \in Nat
    BY <1>2
  <1>4. over \in Nat
    <2>. HIDE DEF rushing
    <2>. QED
      BY <1>3, GreaterOfTwo
  <1>5. Min({rushing, rushes}) \in Nat
    <2>. HIDE DEF rushing
    <2>. QED
      BY <1>3, LesserOfTwo
  <1>6. Min({passing + over, completions}) \in Nat
    <2>1. passing + over \in Nat
      BY <1>2, <1>4
    <2>. HIDE DEF passing, over
    <2>. QED
      BY <2>1, LesserOfTwo
  <1>. QED
    BY <1>1, <1>5, <1>6

\* Whatever a side does in a period is drawn as PeriodOf is told.
LEMMA PeriodsDrawn ==
    ASSUME Roster, NEW side \in Sides, NEW most \in Nat, NEW l \in Periods(side, most)
    PROVE  LineFacts(side, l) /\ Events(l) \in Nat /\ Events(l) <= most
  <1>. DEFINE ids == Ids(side)
              Gain(count) == [sum : Gained(count, Gains), longest : Gained(count, LongGains)]
              Scored(throws, carries) ==
                  UNION {[pass : WeightedAllocations(t.pass, throws.receptions),
                          rush : WeightedAllocations(t.rush, carries)] :
                            t \in Touchdowns(Total(throws.receptions, ids), Total(carries, ids))}
              Run(mix, throws, carries) ==
                  UNION {{PeriodOf(side, mix, throws, y[1], carries, y[2], y[3], kicks) :
                             kicks \in Kicks(Total(y[3].pass, ids) + Total(y[3].rush, ids),
                                             most - mix.plays)} :
                            y \in Gain(throws.receptions) \X Gain(carries)
                                     \X Scored(throws, carries)}
              all == UNION {{mix} \X Throws(mix.directed, ids)
                                \X Allocations(mix.plays - mix.dropbacks, ids) :
                             mix \in UNION {PlayMix(plays) : plays \in 0..most}}
  <1>a. PICK x \in all : l \in Run(x[1], x[2], x[3])
    BY DEF Periods
  <1>b. PICK plays \in 0..most : \E mix \in PlayMix(plays) :
            x \in {mix} \X Throws(mix.directed, ids) \X Allocations(mix.plays - mix.dropbacks, ids)
    OBVIOUS
  <1>c. PICK mix \in PlayMix(plays) :
            x \in {mix} \X Throws(mix.directed, ids) \X Allocations(mix.plays - mix.dropbacks, ids)
    BY <1>b
  <1>. DEFINE throws == x[2]
              carries == x[3]
  <1>d. /\ x[1] = mix /\ throws \in Throws(mix.directed, ids)
        /\ carries \in Allocations(mix.plays - mix.dropbacks, ids)
    BY <1>c
  <1>. HIDE DEF throws, carries, all
  <1>e. l \in Run(mix, throws, carries)
    BY <1>a, <1>d DEF throws, carries
  <1>f. PICK y \in Gain(throws.receptions) \X Gain(carries) \X Scored(throws, carries) :
            \E kicks \in Kicks(Total(y[3].pass, ids) + Total(y[3].rush, ids), most - mix.plays) :
                l = PeriodOf(side, mix, throws, y[1], carries, y[2], y[3], kicks)
    BY <1>e
  <1>. DEFINE yards == y[1]
              ground == y[2]
              scored == y[3]
  <1>g. /\ yards \in Gain(throws.receptions) /\ ground \in Gain(carries)
        /\ scored \in Scored(throws, carries)
    BY <1>f
  <1>1. PICK kicks \in Kicks(Total(scored.pass, ids) + Total(scored.rush, ids),
                             most - mix.plays) :
             l = PeriodOf(side, mix, throws, yards, carries, ground, scored, kicks)
    BY <1>f
  <1>. HIDE DEF yards, ground, scored
  <1>2. MixDrawn(mix) /\ mix.plays <= most /\ mix.plays - mix.dropbacks \in Nat
    BY DEF PlayMix, MixDrawn
  <1>3. ThrowsDrawn(side, mix, throws)
    BY <1>2, <1>d, ThrowsAre
  <1>4. Counts(side, throws.receptions)
    BY <1>3 DEF ThrowsDrawn
  <1>5. Counts(side, carries) /\ Total(carries, ids) = mix.plays - mix.dropbacks
    BY <1>2, <1>d, AllocationsAre
  <1>6. Yards(side, throws.receptions, yards)
    BY <1>4, <1>g, YardsAre
  <1>7. Yards(side, carries, ground)
    BY <1>5, <1>g, YardsAre
  <1>8. ScoredDrawn(side, throws, carries, scored)
    <2>1. /\ Total(throws.receptions, ids) \in Nat /\ Total(carries, ids) \in Nat
      BY <1>4, <1>5, IdsAre, TotalNat DEF Counts
    <2>2. PICK t \in Touchdowns(Total(throws.receptions, ids), Total(carries, ids)) :
              /\ scored.pass \in WeightedAllocations(t.pass, throws.receptions)
              /\ scored.rush \in WeightedAllocations(t.rush, carries)
      BY <1>g
    <2>3. t.pass \in Nat /\ t.rush \in Nat
      BY <2>1, TouchdownsAre
    <2>4. Counts(side, scored.pass)
          /\ \A p \in ids : scored.pass[p] > 0 => throws.receptions[p] > 0
      BY <1>4, <2>2, <2>3, WeightedAre
    <2>5. Counts(side, scored.rush) /\ \A p \in ids : scored.rush[p] > 0 => carries[p] > 0
      BY <1>5, <2>2, <2>3, WeightedAre
    <2>. QED
      BY <2>4, <2>5 DEF ScoredDrawn
  <1>9. /\ Total(scored.pass, ids) \in Nat /\ Total(scored.rush, ids) \in Nat
        /\ most - mix.plays \in Nat
    BY <1>2, <1>8, IdsAre, TotalNat DEF ScoredDrawn, Counts, MixDrawn
  <1>10. KicksDrawn(side, scored, kicks) /\ kicks.tried <= most - mix.plays
    BY <1>9 DEF Kicks, KicksDrawn
  <1>11. Drawn(side, mix, throws, yards, carries, ground, scored, kicks)
    BY <1>2, <1>3, <1>5, <1>6, <1>7, <1>8, <1>10 DEF Drawn
  <1>12. LineFacts(side, l)
    BY <1>1, <1>11, PeriodOfFacts
  <1>13. l.plays = mix.plays /\ l.tried = kicks.tried
    BY <1>1 DEF PeriodOf
  <1>. QED
    BY <1>2, <1>10, <1>12, <1>13 DEF Events, KicksDrawn, MixDrawn

LEMMA NoPeriodDrawn ==
    ASSUME Roster, NEW side \in Sides
    PROVE  LineFacts(side, NoPeriod(side)) /\ Events(NoPeriod(side)) = 0
  <1>. DEFINE none == [p \in Ids(side) |-> 0]
              noGain == [sum |-> none, longest |-> none]
              mix == [plays |-> 0, dropbacks |-> 0, sacks |-> 0, directed |-> 0]
              throws == [targets |-> none, picks |-> none, receptions |-> none]
              scored == [pass |-> none, rush |-> none]
              kicks == [tried |-> 0, made |-> 0, extra |-> 0]
  <1>1. NoPeriod(side) = PeriodOf(side, mix, throws, noGain, none, noGain, scored, kicks)
    BY DEF NoPeriod
  <1>2. Counts(side, none) /\ (\A p \in Ids(side) : none[p] = 0) /\ Total(none, Ids(side)) = 0
    <2>1. Counts(side, none) /\ \A p \in Ids(side) : none[p] = 0
      BY DEF Counts
    <2>. HIDE DEF none
    <2>. QED
      BY <2>1, IdsAre, TotalOfZeros
  <1>3. Drawn(side, mix, throws, noGain, none, noGain, scored, kicks)
    <2>. HIDE DEF none
    <2>1. MixDrawn(mix)
      BY DEF MixDrawn
    <2>2. ThrowsDrawn(side, mix, throws)
      BY <1>2 DEF ThrowsDrawn
    <2>3. Yards(side, none, noGain)
      BY <1>2 DEF Yards
    <2>4. ScoredDrawn(side, throws, none, scored)
      BY <1>2 DEF ScoredDrawn
    <2>5. KicksDrawn(side, scored, kicks)
      BY <1>2 DEF KicksDrawn
    <2>6. Total(none, Ids(side)) = mix.plays - mix.dropbacks /\ throws.receptions = none
      BY <1>2
    <2>. QED
      BY <1>2, <2>1, <2>2, <2>3, <2>4, <2>5, <2>6 DEF Drawn
  <1>4. LineFacts(side, NoPeriod(side))
    <2>. HIDE DEF none, noGain, mix, throws, scored, kicks
    <2>. QED
      BY <1>1, <1>3, PeriodOfFacts
  <1>5. NoPeriod(side).plays = 0 /\ NoPeriod(side).tried = 0
    BY DEF NoPeriod, PeriodOf
  <1>. QED
    BY <1>4, <1>5 DEF Events

-----------------------------------------------------------------------------
(* A game: the inductive invariant. *)

Listed(s) == Len(s) \in Nat /\ s = [q \in 1..Len(s) |-> s[q]]

\* As many periods of each draw are simulated as there were turns for.
Turned ==
    /\ turn \in Nat /\ left \in Nat
    /\ \A d \in Draws :
           Len(lines[d]) = IF d < DrawAt(turn) THEN PeriodAt(turn) ELSE PeriodAt(turn) - 1
    /\ phase # "periods" => turn >= Turns(Quarters)

LinesHeld ==
    /\ DOMAIN lines = Draws
    /\ \A d \in Draws :
           /\ Listed(lines[d])
           /\ \A q \in DOMAIN lines[d], side \in Sides :
                  /\ LineFacts(side, lines[d][q][side])
                  /\ q > Quarters /\ ~Tied(d) => Events(lines[d][q][side]) = 0

FirstChosen ==
    phase = "done" =>
        \A d \in Draws : IF FirstScorers(d) = {} THEN first[d] = Nobody
                         ELSE first[d] \in FirstScorers(d)

SimInv ==
    /\ phase \in {"periods", "first", "done"}
    /\ Roster /\ Turned /\ LinesHeld /\ FirstChosen

\* Division with a remainder has one answer.
LEMMA OneQuotient ==
    ASSUME NEW N \in Nat \ {0}, NEW a \in Int, NEW b \in Int, NEW r \in 0..(N - 1),
           NEW s \in 0..(N - 1), a * N + r = b * N + s
    PROVE  a = b /\ r = s
  <1>1. ASSUME NEW x \in Int, NEW y \in Int, NEW u \in 0..(N - 1), NEW v \in 0..(N - 1),
               x * N + u = y * N + v, x < y
        PROVE  FALSE
    <2>1. (y - x) * N = u - v
      BY <1>1
    <2>2. PICK k \in Nat : k = y - x - 1
      BY <1>1
    <2>3. (y - x) * N = k * N + N
      BY <2>2
    <2>4. k * N \in Nat
      BY <2>2
    <2>. QED
      BY <2>1, <2>3, <2>4
  <1>2. a = b
    BY <1>1
  <1>. QED
    BY <1>2

LEMMA TurnIs ==
    ASSUME NEW n \in Nat
    PROVE  /\ DrawAt(n) \in Draws /\ PeriodAt(n) \in Nat \ {0}
           /\ n = (PeriodAt(n) - 1) * NDraws + (DrawAt(n) - 1)
  BY SimulationAssumption DEF DrawAt, PeriodAt, Draws

LEMMA TurnIsOnly ==
    ASSUME NEW n \in Nat, NEW k \in Int, NEW r \in 0..(NDraws - 1), n = k * NDraws + r
    PROVE  PeriodAt(n) = k + 1 /\ DrawAt(n) = r + 1
  <1>1. /\ DrawAt(n) \in Draws /\ PeriodAt(n) \in Nat \ {0}
        /\ n = (PeriodAt(n) - 1) * NDraws + (DrawAt(n) - 1)
    BY TurnIs
  <1>2. NDraws \in Nat \ {0}
    BY SimulationAssumption
  <1>. DEFINE j == PeriodAt(n) - 1
              e == DrawAt(n) - 1
  <1>3. j \in Int /\ e \in 0..(NDraws - 1) /\ j * NDraws + e = k * NDraws + r
    BY <1>1, <1>2 DEF Draws
  <1>. HIDE DEF j, e
  <1>4. j = k /\ e = r
    BY <1>2, <1>3, OneQuotient
  <1>. QED
    BY <1>1, <1>4 DEF j, e, Draws

LEMMA NextTurn ==
    ASSUME NEW n \in Nat
    PROVE  IF DrawAt(n) < NDraws
           THEN DrawAt(n + 1) = DrawAt(n) + 1 /\ PeriodAt(n + 1) = PeriodAt(n)
           ELSE DrawAt(n + 1) = 1 /\ PeriodAt(n + 1) = PeriodAt(n) + 1
  <1>. DEFINE j == PeriodAt(n) - 1
              e == DrawAt(n) - 1
  <1>a. NDraws \in Nat \ {0}
    BY SimulationAssumption
  <1>b. /\ DrawAt(n) \in 1..NDraws /\ PeriodAt(n) \in Nat \ {0}
        /\ n = j * NDraws + e
    BY TurnIs DEF Draws
  <1>1. /\ NDraws \in Nat \ {0} /\ j \in Nat /\ e \in 0..(NDraws - 1) /\ n = j * NDraws + e
    BY <1>a, <1>b
  <1>2. DrawAt(n) = e + 1 /\ PeriodAt(n) = j + 1
    BY TurnIs DEF Draws
  <1>. HIDE DEF j, e
  <1>3. CASE e + 1 < NDraws
    <2>1. n + 1 = j * NDraws + (e + 1) /\ e + 1 \in 0..(NDraws - 1)
      BY <1>1, <1>3
    <2>2. PeriodAt(n + 1) = j + 1 /\ DrawAt(n + 1) = (e + 1) + 1
      BY <1>1, <2>1, TurnIsOnly
    <2>. QED
      BY <1>1, <1>2, <1>3, <2>2
  <1>4. CASE e + 1 = NDraws
    <2>1. PICK k \in Int : k = j + 1
      BY <1>1
    <2>2. PICK r \in 0..(NDraws - 1) : r = 0
      BY <1>1
    <2>3. n + 1 = k * NDraws + r
      BY <1>1, <1>4, <2>1, <2>2
    <2>4. n + 1 \in Nat
      OBVIOUS
    <2>5. PeriodAt(n + 1) = k + 1 /\ DrawAt(n + 1) = r + 1
      BY <2>3, <2>4, TurnIsOnly
    <2>. QED
      BY <1>1, <1>2, <1>4, <2>1, <2>2, <2>5
  <1>. QED
    BY <1>1, <1>3, <1>4

\* After the turns of regulation every draw has the periods of it.
LEMMA RegulationOver ==
    ASSUME NEW n \in Nat, n >= Turns(Quarters)
    PROVE  PeriodAt(n) > Quarters
  <1>1. NDraws \in Nat \ {0} /\ Quarters \in Nat \ {0}
    BY SimulationAssumption
  <1>2. SUFFICES ASSUME PeriodAt(n) <= Quarters PROVE FALSE
    BY <1>1, TurnIs
  <1>. DEFINE j == PeriodAt(n) - 1
              e == DrawAt(n) - 1
  <1>3. DrawAt(n) \in 1..NDraws /\ PeriodAt(n) \in Nat \ {0} /\ n = j * NDraws + e
    BY TurnIs DEF Draws
  <1>4. j \in Nat /\ e < NDraws /\ e \in Int /\ j < Quarters
    BY <1>1, <1>2, <1>3
  <1>. HIDE DEF j, e
  <1>5. PICK k \in Nat : k = Quarters - 1 - j
    BY <1>1, <1>4
  <1>6. Quarters * NDraws = j * NDraws + NDraws + k * NDraws
    BY <1>1, <1>4, <1>5
  <1>7. k * NDraws \in Nat /\ j * NDraws \in Nat
    BY <1>1, <1>4, <1>5
  <1>. QED
    BY <1>1, <1>3, <1>4, <1>6, <1>7 DEF Turns

-----------------------------------------------------------------------------
(* One more period of a draw. *)

LEMMA AppendIs ==
    ASSUME NEW s, Listed(s), NEW e
    PROVE  /\ Listed(Append(s, e)) /\ Len(Append(s, e)) = Len(s) + 1
           /\ DOMAIN s = 1..Len(s) /\ DOMAIN Append(s, e) = 1..(Len(s) + 1)
           /\ \A q \in 1..Len(s) : Append(s, e)[q] = s[q]
           /\ Append(s, e)[Len(s) + 1] = e
  <1>. DEFINE S == {s[q] : q \in 1..Len(s)} \cup {e}
  <1>1. s \in [1..Len(s) -> S] /\ Len(s) \in Nat
    BY DEF Listed
  <1>2. s \in Seq(S)
    BY <1>1, SeqDef
  <1>3. e \in S
    OBVIOUS
  <1>. HIDE DEF S
  <1>4. /\ Append(s, e) \in Seq(S) /\ Len(Append(s, e)) = Len(s) + 1
        /\ \A q \in 1..Len(s) : Append(s, e)[q] = s[q]
        /\ Append(s, e)[Len(s) + 1] = e
    BY <1>2, <1>3, AppendProperties
  <1>5. Append(s, e) = [q \in 1..Len(Append(s, e)) |-> Append(s, e)[q]]
    BY <1>4, LenProperties
  <1>. QED
    BY <1>1, <1>2, <1>4, <1>5, LenProperties DEF Listed

\* The facts of a line are of the players, whom no step changes.
LEMMA FactsKept ==
    ASSUME UNCHANGED players, NEW side, NEW l
    PROVE  LineFacts(side, l)' <=> LineFacts(side, l)
  <1>1. Ids(side)' = Ids(side)
    BY DEF Ids
  <1>. QED
    BY <1>1 DEF LineFacts, LineTyped, TeamAdds, QuarterbackHas, ThrownBy, PlayerHas, AllOf

-----------------------------------------------------------------------------
(* What the periods of a draw add up to. *)

TeamRow(side, d, name) == [q \in PeriodsOf(d) |-> lines[d][q][side][name]]
AllRow(side, d, name) == [q \in PeriodsOf(d) |-> AllOf(side, lines[d][q][side], name)]
PlayerRow(side, d, name, p) == [q \in PeriodsOf(d) |-> In(side, d, q, name, p)]

Summed == (CountStats \cup YardStats) \ Longest

LEMMA PeriodsAre ==
    ASSUME LinesHeld, NEW d \in Draws
    PROVE  /\ IsFiniteSet(PeriodsOf(d)) /\ Len(lines[d]) \in Nat
           /\ PeriodsOf(d) = 1..Len(lines[d])
           /\ \A q \in PeriodsOf(d), side \in Sides : LineFacts(side, lines[d][q][side])
  <1>1. Listed(lines[d])
    BY DEF LinesHeld
  <1>2. DOMAIN lines[d] = 1..Len(lines[d]) /\ Len(lines[d]) \in Nat
    BY <1>1 DEF Listed
  <1>3. IsFiniteSet(1..Len(lines[d]))
    BY <1>2, FS_Interval
  <1>. QED
    BY <1>2, <1>3 DEF PeriodsOf, LinesHeld

LEMMA TeamRows ==
    ASSUME LinesHeld, NEW d \in Draws, NEW side \in Sides, NEW name \in TeamStats
    PROVE  /\ TeamTotal(side, d, name) = Total(TeamRow(side, d, name), PeriodsOf(d))
           /\ TeamTotal(side, d, name) \in Nat
           /\ \A q \in PeriodsOf(d) :
                  /\ TeamRow(side, d, name)[q] \in Nat
                  /\ TeamRow(side, d, name)[q] = lines[d][q][side][name]
                  /\ TeamRow(side, d, name)[q] <= TeamTotal(side, d, name)
  <1>1. TeamTotal(side, d, name) = Total(TeamRow(side, d, name), PeriodsOf(d))
    BY DEF TeamTotal, TeamRow
  <1>2. \A q \in PeriodsOf(d) :
            /\ TeamRow(side, d, name)[q] = lines[d][q][side][name]
            /\ lines[d][q][side][name] \in Nat
    BY PeriodsAre DEF TeamRow, LineFacts, LineTyped
  <1>3. IsFiniteSet(PeriodsOf(d))
    BY PeriodsAre
  <1>4. /\ Total(TeamRow(side, d, name), PeriodsOf(d)) \in Nat
        /\ \A q \in PeriodsOf(d) :
               TeamRow(side, d, name)[q] <= Total(TeamRow(side, d, name), PeriodsOf(d))
    <2>1. \A q \in PeriodsOf(d) : TeamRow(side, d, name)[q] \in Nat
      BY <1>2
    <2>. QED
      BY <1>3, <2>1, TotalNat
  <1>. QED
    BY <1>1, <1>2, <1>4

LEMMA PlayerRows ==
    ASSUME LinesHeld, NEW d \in Draws, NEW side \in Sides, NEW p \in Ids(side),
           NEW name \in CountStats \cup YardStats
    PROVE  /\ name \in Summed =>
                  PlayerTotal(side, d, name, p) = Total(PlayerRow(side, d, name, p), PeriodsOf(d))
           /\ name \in Longest =>
                  PlayerTotal(side, d, name, p) = Highest(PlayerRow(side, d, name, p), PeriodsOf(d))
           /\ \A q \in PeriodsOf(d) :
                  /\ PlayerRow(side, d, name, p)[q] = lines[d][q][side].of[name][p]
                  /\ PlayerRow(side, d, name, p)[q] \in Int
                  /\ name \in CountStats => PlayerRow(side, d, name, p)[q] \in Nat
  <1>1. \A q \in PeriodsOf(d) : PlayerRow(side, d, name, p)[q] = lines[d][q][side].of[name][p]
    BY DEF PlayerRow, In
  <1>2. \A q \in PeriodsOf(d) :
            /\ lines[d][q][side].of[name][p] \in Int
            /\ name \in CountStats => lines[d][q][side].of[name][p] \in Nat
    BY PeriodsAre DEF LineFacts, LineTyped
  <1>3. /\ name \in Summed =>
               PlayerTotal(side, d, name, p) = Total(PlayerRow(side, d, name, p), PeriodsOf(d))
        /\ name \in Longest =>
               PlayerTotal(side, d, name, p) = Highest(PlayerRow(side, d, name, p), PeriodsOf(d))
    BY DEF PlayerTotal, PlayerRow, Summed
  <1>4. ASSUME NEW q \in PeriodsOf(d)
        PROVE  /\ PlayerRow(side, d, name, p)[q] \in Int
               /\ name \in CountStats => PlayerRow(side, d, name, p)[q] \in Nat
    <2>. DEFINE has == lines[d][q][side].of[name][p]
    <2>1. PlayerRow(side, d, name, p)[q] = has
      BY <1>1
    <2>2. has \in Int /\ (name \in CountStats => has \in Nat)
      BY <1>2
    <2>. HIDE DEF has
    <2>. QED
      BY <2>1, <2>2
  <1>. QED
    BY <1>1, <1>3, <1>4

\* A count of a player over the game: nothing but what his periods have.
LEMMA PlayerCounts ==
    ASSUME LinesHeld, NEW d \in Draws, NEW side \in Sides, NEW p \in Ids(side),
           NEW name \in CountStats
    PROVE  /\ PlayerTotal(side, d, name, p) \in Nat
           /\ \A q \in PeriodsOf(d) :
                  lines[d][q][side].of[name][p] <= PlayerTotal(side, d, name, p)
           /\ PlayerTotal(side, d, name, p) > 0 =>
                  \E q \in PeriodsOf(d) : lines[d][q][side].of[name][p] > 0
  <1>. DEFINE f == PlayerRow(side, d, name, p)
  <1>1. name \in Summed
    BY DEF Summed, CountStats, Longest
  <1>2. PlayerTotal(side, d, name, p) = Total(f, PeriodsOf(d))
    BY <1>1, PlayerRows
  <1>3. \A q \in PeriodsOf(d) : f[q] \in Nat /\ f[q] = lines[d][q][side].of[name][p]
    BY PlayerRows
  <1>4. IsFiniteSet(PeriodsOf(d))
    BY PeriodsAre
  <1>. HIDE DEF f
  <1>5. Total(f, PeriodsOf(d)) \in Nat /\ \A q \in PeriodsOf(d) : f[q] <= Total(f, PeriodsOf(d))
    BY <1>3, <1>4, TotalNat
  <1>6. (\A q \in PeriodsOf(d) : f[q] = 0) => Total(f, PeriodsOf(d)) = 0
    BY <1>4, TotalOfZeros
  <1>. QED
    BY <1>2, <1>3, <1>5, <1>6

LEMMA AllRows ==
    ASSUME Roster, LinesHeld, NEW d \in Draws, NEW side \in Sides, NEW name \in Summed
    PROVE  /\ SquadTotal(side, d, name) = Total(AllRow(side, d, name), PeriodsOf(d))
           /\ \A q \in PeriodsOf(d) :
                  /\ AllRow(side, d, name)[q] = AllOf(side, lines[d][q][side], name)
                  /\ AllRow(side, d, name)[q] \in Int
                  /\ name \in CountStats => AllRow(side, d, name)[q] \in Nat
  <1>. DEFINE Q == PeriodsOf(d)
              ids == Ids(side)
              m == [q \in Q |-> lines[d][q][side].of[name]]
  <1>1. IsFiniteSet(Q) /\ IsFiniteSet(ids)
    BY PeriodsAre, IdsAre
  <1>2. \A q \in Q : m[q] = lines[d][q][side].of[name]
    OBVIOUS
  <1>3. \A q \in Q : \A p \in ids : m[q][p] \in Int /\ (name \in CountStats => m[q][p] \in Nat)
    <2>. HIDE DEF m
    <2>. QED
      BY <1>2, PeriodsAre DEF Summed, LineFacts, LineTyped
  <1>4. AllRow(side, d, name) = [q \in Q |-> Total(m[q], ids)]
    BY DEF AllRow, AllOf
  <1>5. [p \in ids |-> PlayerTotal(side, d, name, p)]
            = [p \in ids |-> Total([q \in Q |-> m[q][p]], Q)]
    <2>1. ASSUME NEW p \in ids
          PROVE  PlayerTotal(side, d, name, p) = Total([q \in Q |-> m[q][p]], Q)
      BY DEF PlayerTotal, In, Summed
    <2>. QED
      BY <2>1
  <1>. HIDE DEF m
  <1>6. Total([q \in Q |-> Total(m[q], ids)], Q)
            = Total([p \in ids |-> Total([q \in Q |-> m[q][p]], Q)], ids)
    BY <1>1, <1>3, TotalsSwap
  <1>7. SquadTotal(side, d, name) = Total(AllRow(side, d, name), Q)
    BY <1>4, <1>5, <1>6 DEF SquadTotal
  <1>8. \A q \in Q : AllRow(side, d, name)[q] = AllOf(side, lines[d][q][side], name)
    BY DEF AllRow
  <1>9. \A q \in Q : AllRow(side, d, name)[q] = Total(m[q], ids)
    BY <1>4
  <1>10. \A q \in Q :
             /\ Total(m[q], ids) \in Int
             /\ name \in CountStats => Total(m[q], ids) \in Nat
    BY <1>1, <1>3, TotalInt, TotalNat
  <1>11. ASSUME NEW q \in Q
         PROVE  /\ AllRow(side, d, name)[q] \in Int
                /\ name \in CountStats => AllRow(side, d, name)[q] \in Nat
    <2>. DEFINE has == Total(m[q], ids)
    <2>1. AllRow(side, d, name)[q] = has
      BY <1>9
    <2>2. has \in Int /\ (name \in CountStats => has \in Nat)
      BY <1>10
    <2>. HIDE DEF has
    <2>. QED
      BY <2>1, <2>2
  <1>. QED
    BY <1>7, <1>8, <1>11

-----------------------------------------------------------------------------
(* What adds up in every period adds up in the game. *)

\* What the squad has of one thing in every period is a number of the team.
LEMMA SquadHasTeams ==
    ASSUME Roster, LinesHeld, NEW d \in Draws, NEW side \in Sides, NEW name \in Summed,
           NEW team \in TeamStats,
           \A q \in PeriodsOf(d) :
               AllOf(side, lines[d][q][side], name) = lines[d][q][side][team]
    PROVE  SquadTotal(side, d, name) = TeamTotal(side, d, team)
  <1>. DEFINE f == AllRow(side, d, name)
              g == TeamRow(side, d, team)
  <1>1. IsFiniteSet(PeriodsOf(d))
    BY PeriodsAre
  <1>2. SquadTotal(side, d, name) = Total(f, PeriodsOf(d))
        /\ TeamTotal(side, d, team) = Total(g, PeriodsOf(d))
    BY AllRows, TeamRows
  <1>3. \A q \in PeriodsOf(d) : f[q] \in Int /\ f[q] = g[q]
    BY AllRows, TeamRows
  <1>. HIDE DEF f, g
  <1>. QED
    BY <1>1, <1>2, <1>3, TotalSame

\* One player has all that the team has thrown.
LEMMA QuarterbackHasAll ==
    ASSUME Roster, LinesHeld, NEW d \in Draws, NEW side \in Sides,
           NEW mine \in Summed, NEW theirs \in Summed,
           \A q \in PeriodsOf(d) :
               ThrownBy(side, lines[d][q][side], mine, AllOf(side, lines[d][q][side], theirs))
    PROVE  /\ PlayerTotal(side, d, mine, Starter(players[side], "QB"))
                  = SquadTotal(side, d, theirs)
           /\ SquadTotal(side, d, mine) = SquadTotal(side, d, theirs)
  <1>. DEFINE qb == Starter(players[side], "QB")
              f == PlayerRow(side, d, mine, qb)
              g == AllRow(side, d, theirs)
              h == AllRow(side, d, mine)
  <1>1. IsFiniteSet(PeriodsOf(d)) /\ qb \in Ids(side) /\ IsFiniteSet(Ids(side))
    BY PeriodsAre, StartersListed, IdsAre
  <1>2. /\ PlayerTotal(side, d, mine, qb) = Total(f, PeriodsOf(d))
        /\ SquadTotal(side, d, theirs) = Total(g, PeriodsOf(d))
        /\ SquadTotal(side, d, mine) = Total(h, PeriodsOf(d))
    BY <1>1, PlayerRows, AllRows DEF Summed
  <1>3. ASSUME NEW q \in PeriodsOf(d)
        PROVE  f[q] \in Int /\ f[q] = g[q] /\ h[q] = g[q] /\ g[q] \in Int
    <2>. DEFINE l == lines[d][q][side]
    <2>1. /\ f[q] = l.of[mine][qb] /\ f[q] \in Int
          /\ g[q] = AllOf(side, l, theirs) /\ g[q] \in Int
          /\ h[q] = AllOf(side, l, mine)
      BY <1>1, PlayerRows, AllRows DEF Summed
    <2>2. /\ l.of[mine][qb] = AllOf(side, l, theirs)
          /\ \A p \in Ids(side) : p # qb => l.of[mine][p] = 0
      BY DEF ThrownBy
    <2>3. l.of[mine][qb] \in Int
      BY <2>1
    <2>4. Total(l.of[mine], Ids(side)) = l.of[mine][qb]
      <3>. DEFINE row == l.of[mine]
      <3>1. row[qb] \in Int /\ \A p \in Ids(side) : p # qb => row[p] = 0
        BY <2>2, <2>3
      <3>. HIDE DEF row, qb
      <3>2. Total(row, Ids(side)) = row[qb]
        BY <1>1, <3>1, TotalOfOne
      <3>. QED
        BY <3>2 DEF row
    <2>. QED
      BY <2>1, <2>2, <2>4 DEF AllOf
  <1>. HIDE DEF f, g, h, qb
  <1>4. Total(f, PeriodsOf(d)) = Total(g, PeriodsOf(d))
    BY <1>1, <1>3, TotalSame
  <1>5. Total(h, PeriodsOf(d)) = Total(g, PeriodsOf(d))
    BY <1>1, <1>3, TotalSame
  <1>. QED
    BY <1>2, <1>4, <1>5 DEF qb

LEMMA TeamCoheres ==
    ASSUME LinesHeld, NEW d \in Draws, NEW side \in Sides
    PROVE  TeamInvariants(side, d)
  <1>. DEFINE Q == PeriodsOf(d)
              row(name) == TeamRow(side, d, name)
              sacks == row("sacks")
              attempts == row("attempts")
              dropbacks == row("dropbacks")
              rushes == row("rushes")
              plays == row("plays")
              directed == row("directed")
              picks == row("picks")
  <1>1. IsFiniteSet(Q)
    BY PeriodsAre
  <1>2. /\ "sacks" \in TeamStats /\ "attempts" \in TeamStats /\ "dropbacks" \in TeamStats
        /\ "rushes" \in TeamStats /\ "plays" \in TeamStats /\ "directed" \in TeamStats
        /\ "picks" \in TeamStats
    BY DEF TeamStats
  <1>3. /\ TeamTotal(side, d, "sacks") = Total(sacks, Q)
        /\ TeamTotal(side, d, "attempts") = Total(attempts, Q)
        /\ TeamTotal(side, d, "dropbacks") = Total(dropbacks, Q)
        /\ TeamTotal(side, d, "rushes") = Total(rushes, Q)
        /\ TeamTotal(side, d, "plays") = Total(plays, Q)
        /\ TeamTotal(side, d, "directed") = Total(directed, Q)
        /\ TeamTotal(side, d, "picks") = Total(picks, Q)
        /\ TeamTotal(side, d, "sacks") \in Nat /\ TeamTotal(side, d, "dropbacks") \in Nat
        /\ TeamTotal(side, d, "attempts") \in Nat
    BY <1>2, TeamRows
  <1>4. ASSUME NEW q \in Q
        PROVE  /\ sacks[q] \in Nat /\ attempts[q] \in Nat /\ dropbacks[q] \in Nat
               /\ rushes[q] \in Nat /\ plays[q] \in Nat /\ directed[q] \in Nat
               /\ picks[q] \in Nat
               /\ dropbacks[q] = sacks[q] + attempts[q] /\ plays[q] = dropbacks[q] + rushes[q]
               /\ directed[q] <= attempts[q] /\ picks[q] <= attempts[q]
    <2>. DEFINE l == lines[d][q][side]
    <2>1. /\ sacks[q] = l.sacks /\ attempts[q] = l.attempts /\ dropbacks[q] = l.dropbacks
          /\ rushes[q] = l.rushes /\ plays[q] = l.plays /\ directed[q] = l.directed
          /\ picks[q] = l.picks
      BY DEF TeamRow
    <2>2. LineTyped(side, l) /\ TeamAdds(side, l)
      BY PeriodsAre DEF LineFacts
    <2>3. /\ l.sacks \in Nat /\ l.attempts \in Nat /\ l.dropbacks \in Nat /\ l.rushes \in Nat
          /\ l.plays \in Nat /\ l.directed \in Nat /\ l.picks \in Nat
      BY <2>2 DEF LineTyped, TeamStats
    <2>4. /\ l.sacks + l.attempts = l.dropbacks /\ l.dropbacks + l.rushes = l.plays
          /\ l.directed <= l.attempts /\ l.picks <= l.attempts
      BY <2>2 DEF TeamAdds
    <2>. HIDE DEF l, sacks, attempts, dropbacks, rushes, plays, directed, picks
    <2>. QED
      BY <2>1, <2>3, <2>4
  <1>. HIDE DEF sacks, attempts, dropbacks, rushes, plays, directed, picks
  <1>5. Total(dropbacks, Q) = Total(sacks, Q) + Total(attempts, Q)
    BY <1>1, <1>4, TotalPlus
  <1>6. Total(plays, Q) = Total(dropbacks, Q) + Total(rushes, Q)
    BY <1>1, <1>4, TotalPlus
  <1>7. Total(directed, Q) <= Total(attempts, Q) /\ Total(picks, Q) <= Total(attempts, Q)
    BY <1>1, <1>4, TotalLess
  <1>. QED
    BY <1>3, <1>5, <1>6, <1>7 DEF TeamInvariants

LEMMA AllocationsCohere ==
    ASSUME Roster, LinesHeld, NEW d \in Draws, NEW side \in Sides
    PROVE  AllocationInvariants(side, d)
  <1>1. ASSUME NEW q \in PeriodsOf(d)
        PROVE  LET l == lines[d][q][side]
               IN  /\ AllOf(side, l, "targets") = l["directed"]
                   /\ AllOf(side, l, "rush_attempts") = l["rushes"]
                   /\ AllOf(side, l, "passing_attempts") = l["attempts"]
    <2>. DEFINE l == lines[d][q][side]
                qb == Starter(players[side], "QB")
                row == l.of["passing_attempts"]
    <2>1. LineTyped(side, l) /\ TeamAdds(side, l) /\ QuarterbackHas(side, l)
      BY PeriodsAre DEF LineFacts
    <2>2. qb \in Ids(side) /\ IsFiniteSet(Ids(side))
      BY StartersListed, IdsAre
    <2>a. row[qb] = l.attempts /\ \A p \in Ids(side) : p # qb => row[p] = 0
      BY <2>1 DEF QuarterbackHas, ThrownBy
    <2>b. l.attempts \in Nat
      BY <2>1 DEF LineTyped, TeamStats
    <2>3. /\ row[qb] = l.attempts /\ \A p \in Ids(side) : p # qb => row[p] = 0
          /\ row[qb] \in Int
      <3>. HIDE DEF row, qb, l
      <3>. QED
        BY <2>a, <2>b
    <2>4. Total(row, Ids(side)) = l.attempts
      <3>. HIDE DEF row, qb
      <3>1. Total(row, Ids(side)) = row[qb]
        BY <2>2, <2>3, TotalOfOne
      <3>. QED
        BY <2>3, <3>1
    <2>. QED
      BY <2>1, <2>4 DEF TeamAdds, AllOf
  <1>2. /\ "targets" \in Summed /\ "rush_attempts" \in Summed /\ "passing_attempts" \in Summed
        /\ "directed" \in TeamStats /\ "rushes" \in TeamStats /\ "attempts" \in TeamStats
    BY DEF Summed, CountStats, Longest, TeamStats
  <1>3. SquadTotal(side, d, "targets") = TeamTotal(side, d, "directed")
    BY <1>1, <1>2, SquadHasTeams
  <1>4. SquadTotal(side, d, "rush_attempts") = TeamTotal(side, d, "rushes")
    BY <1>1, <1>2, SquadHasTeams
  <1>5. SquadTotal(side, d, "passing_attempts") = TeamTotal(side, d, "attempts")
    BY <1>1, <1>2, SquadHasTeams
  <1>. QED
    BY <1>3, <1>4, <1>5 DEF AllocationInvariants

LEMMA QuarterbackCoheres ==
    ASSUME Roster, LinesHeld, NEW d \in Draws, NEW side \in Sides
    PROVE  /\ QBCoherence(side, d)
           /\ SquadTotal(side, d, "passing_completions") = SquadTotal(side, d, "receptions")
           /\ SquadTotal(side, d, "passing_yards") = SquadTotal(side, d, "receiving_yards")
           /\ SquadTotal(side, d, "passing_tds") = SquadTotal(side, d, "receiving_tds")
  <1>1. \A q \in PeriodsOf(d) : QuarterbackHas(side, lines[d][q][side])
    BY PeriodsAre DEF LineFacts
  <1>2. /\ "passing_completions" \in Summed /\ "receptions" \in Summed
        /\ "passing_yards" \in Summed /\ "receiving_yards" \in Summed
        /\ "passing_tds" \in Summed /\ "receiving_tds" \in Summed
    BY DEF Summed, CountStats, YardStats, Longest
  <1>. DEFINE Has(mine, theirs) ==
                  /\ PlayerTotal(side, d, mine, Starter(players[side], "QB"))
                         = SquadTotal(side, d, theirs)
                  /\ SquadTotal(side, d, mine) = SquadTotal(side, d, theirs)
  <1>3. Has("passing_completions", "receptions")
    BY <1>1, <1>2, QuarterbackHasAll DEF QuarterbackHas
  <1>4. Has("passing_yards", "receiving_yards")
    BY <1>1, <1>2, QuarterbackHasAll DEF QuarterbackHas
  <1>5. Has("passing_tds", "receiving_tds")
    BY <1>1, <1>2, QuarterbackHasAll DEF QuarterbackHas
  <1>. QED
    BY <1>3, <1>4, <1>5 DEF QBCoherence

LEMMA PlayersCohere ==
    ASSUME Roster, LinesHeld, NEW d \in Draws, PeriodsOf(d) # {}, NEW side \in Sides
    PROVE  PlayerInvariants(side, d)
  <1>1. /\ "receptions" \in CountStats /\ "targets" \in CountStats /\ "fg_made" \in CountStats
        /\ "fg_attempts" \in CountStats /\ "rush_attempts" \in CountStats
        /\ "longest_rush" \in YardStats \cap Longest
        /\ "longest_reception" \in YardStats \cap Longest
        /\ "receptions" \in Summed /\ "targets" \in Summed /\ "fg_made" \in Summed
        /\ "fg_attempts" \in Summed
    BY DEF CountStats, YardStats, Longest, Summed
  <1>2. IsFiniteSet(PeriodsOf(d))
    BY PeriodsAre
  <1>3. ASSUME NEW p \in Ids(side), NEW less \in CountStats \cap Summed,
               NEW more \in CountStats \cap Summed,
               \A q \in PeriodsOf(d) :
                   lines[d][q][side].of[less][p] <= lines[d][q][side].of[more][p]
        PROVE  PlayerTotal(side, d, less, p) <= PlayerTotal(side, d, more, p)
    <2>. DEFINE f == PlayerRow(side, d, less, p)
                g == PlayerRow(side, d, more, p)
    <2>1. /\ PlayerTotal(side, d, less, p) = Total(f, PeriodsOf(d))
          /\ PlayerTotal(side, d, more, p) = Total(g, PeriodsOf(d))
      BY PlayerRows
    <2>2. \A q \in PeriodsOf(d) : f[q] \in Int /\ g[q] \in Int /\ f[q] <= g[q]
      BY <1>3, PlayerRows
    <2>. HIDE DEF f, g
    <2>. QED
      BY <1>2, <2>1, <2>2, TotalLess
  <1>4. ASSUME NEW p \in Ids(side), NEW count \in CountStats,
               NEW longest \in YardStats \cap Longest,
               \A q \in PeriodsOf(d) : lines[d][q][side].of[count][p] = 0 =>
                                           lines[d][q][side].of[longest][p] = 0,
               PlayerTotal(side, d, count, p) = 0
        PROVE  PlayerTotal(side, d, longest, p) = 0
    <2>. DEFINE f == PlayerRow(side, d, longest, p)
                g == PlayerRow(side, d, count, p)
    <2>1. PlayerTotal(side, d, longest, p) = Highest(f, PeriodsOf(d))
      BY PlayerRows
    <2>2. \A q \in PeriodsOf(d) : lines[d][q][side].of[count][p] = 0
      <3>1. ASSUME NEW q \in PeriodsOf(d)
            PROVE  lines[d][q][side].of[count][p] = 0
        <4>1. g[q] = lines[d][q][side].of[count][p] /\ g[q] \in Nat
          BY PlayerRows
        <4>2. lines[d][q][side].of[count][p] <= PlayerTotal(side, d, count, p)
          BY PlayerCounts
        <4>. HIDE DEF g
        <4>. QED
          BY <1>4, <4>1, <4>2
      <3>. QED
        BY <3>1
    <2>3. \A q \in PeriodsOf(d) : f[q] = 0
      BY <1>4, <2>2, PlayerRows
    <2>. HIDE DEF f
    <2>4. \E q \in PeriodsOf(d) : Highest(f, PeriodsOf(d)) = f[q]
      BY <1>2, <2>3, HighestIs
    <2>. QED
      BY <2>1, <2>3, <2>4
  <1>5. ASSUME NEW p \in Ids(side), NEW q \in PeriodsOf(d)
        PROVE  LET has(name) == lines[d][q][side].of[name][p]
               IN  /\ has("receptions") <= has("targets")
                   /\ has("rush_attempts") = 0 => has("longest_rush") = 0
                   /\ has("receptions") = 0 => has("longest_reception") = 0
                   /\ has("fg_made") <= has("fg_attempts")
    BY PeriodsAre DEF LineFacts, PlayerHas
  <1>6. ASSUME NEW p \in Ids(side)
        PROVE  LET of(name) == PlayerTotal(side, d, name, p)
               IN  /\ of("receptions") <= of("targets")
                   /\ of("rush_attempts") = 0 => of("longest_rush") = 0
                   /\ of("receptions") = 0 => of("longest_reception") = 0
                   /\ of("fg_made") <= of("fg_attempts")
    <2>1. PlayerTotal(side, d, "receptions", p) <= PlayerTotal(side, d, "targets", p)
      BY <1>1, <1>3, <1>5
    <2>2. PlayerTotal(side, d, "fg_made", p) <= PlayerTotal(side, d, "fg_attempts", p)
      BY <1>1, <1>3, <1>5
    <2>3. PlayerTotal(side, d, "rush_attempts", p) = 0 =>
              PlayerTotal(side, d, "longest_rush", p) = 0
      BY <1>1, <1>4, <1>5
    <2>4. PlayerTotal(side, d, "receptions", p) = 0 =>
              PlayerTotal(side, d, "longest_reception", p) = 0
      BY <1>1, <1>4, <1>5
    <2>. QED
      BY <2>1, <2>2, <2>3, <2>4
  <1>7. \A p \in squad : p.team = side /\ ~p.active => p.id \notin Ids(side)
    BY ListedPlayers
  <1>. QED
    BY <1>6, <1>7 DEF PlayerInvariants

LEMMA ScoresCohere ==
    ASSUME Roster, LinesHeld, NEW d \in Draws, NEW side \in Sides
    PROVE  ScoresAddUp(side, d)
  <1>. DEFINE Q == PeriodsOf(d)
              tds == TeamRow(side, d, "touchdowns")
              points == TeamRow(side, d, "points")
              caught == AllRow(side, d, "receiving_tds")
              ran == AllRow(side, d, "rushing_tds")
              extra == AllRow(side, d, "xp_made")
              kicked == AllRow(side, d, "fg_made")
              kicker == Starter(players[side], "K")
  <1>1. IsFiniteSet(Q)
    BY PeriodsAre
  <1>2. /\ "touchdowns" \in TeamStats /\ "points" \in TeamStats
        /\ "receiving_tds" \in Summed /\ "rushing_tds" \in Summed
        /\ "xp_made" \in Summed /\ "fg_made" \in Summed
        /\ "receiving_tds" \in CountStats /\ "rushing_tds" \in CountStats
        /\ "receptions" \in CountStats /\ "rush_attempts" \in CountStats
    BY DEF CountStats, TeamStats, Longest, Summed
  <1>3. /\ TeamTotal(side, d, "touchdowns") = Total(tds, Q)
        /\ TeamTotal(side, d, "points") = Total(points, Q)
        /\ SquadTotal(side, d, "receiving_tds") = Total(caught, Q)
        /\ SquadTotal(side, d, "rushing_tds") = Total(ran, Q)
        /\ SquadTotal(side, d, "xp_made") = Total(extra, Q)
        /\ SquadTotal(side, d, "fg_made") = Total(kicked, Q)
    BY <1>2, TeamRows, AllRows
  <1>4. ASSUME NEW q \in Q
        PROVE  /\ tds[q] \in Int /\ points[q] \in Int /\ caught[q] \in Int /\ ran[q] \in Int
               /\ extra[q] \in Int /\ kicked[q] \in Int
               /\ tds[q] = caught[q] + ran[q]
               /\ extra[q] <= tds[q]
               /\ kicker # 0 => points[q] = 6 * tds[q] + 3 * kicked[q] + extra[q]
    <2>. DEFINE l == lines[d][q][side]
    <2>1. /\ tds[q] = l["touchdowns"] /\ tds[q] \in Nat
          /\ points[q] = l["points"] /\ points[q] \in Nat
      BY <1>2, TeamRows
    <2>2. /\ caught[q] = AllOf(side, l, "receiving_tds") /\ caught[q] \in Int
          /\ ran[q] = AllOf(side, l, "rushing_tds") /\ ran[q] \in Int
      BY <1>2, AllRows
    <2>3. /\ extra[q] = AllOf(side, l, "xp_made") /\ extra[q] \in Int
          /\ kicked[q] = AllOf(side, l, "fg_made") /\ kicked[q] \in Int
      BY <1>2, AllRows
    <2>4. TeamAdds(side, l)
      BY PeriodsAre DEF LineFacts
    <2>5. /\ l["touchdowns"] = AllOf(side, l, "receiving_tds") + AllOf(side, l, "rushing_tds")
          /\ AllOf(side, l, "xp_made") <= l["touchdowns"]
          /\ kicker # 0 => l["points"] = 6 * l["touchdowns"] + 3 * AllOf(side, l, "fg_made")
                                             + AllOf(side, l, "xp_made")
      BY <2>4 DEF TeamAdds
    <2>. HIDE DEF l, tds, points, caught, ran, extra, kicked, kicker
    <2>. QED
      BY <2>1, <2>2, <2>3, <2>5
  <1>5. Total(tds, Q) = Total(caught, Q) + Total(ran, Q)
    <2>. HIDE DEF tds, points, caught, ran, extra, kicked, kicker
    <2>. QED
      BY <1>1, <1>4, TotalPlus
  <1>6. Total(extra, Q) <= Total(tds, Q)
    <2>. HIDE DEF tds, points, caught, ran, extra, kicked, kicker
    <2>. QED
      BY <1>1, <1>4, TotalLess
  <1>7. kicker # 0 =>
            Total(points, Q) = 6 * Total(tds, Q) + 3 * Total(kicked, Q) + Total(extra, Q)
    <2>1. SUFFICES ASSUME kicker # 0
                   PROVE  Total(points, Q)
                              = 6 * Total(tds, Q) + 3 * Total(kicked, Q) + Total(extra, Q)
      OBVIOUS
    <2>. DEFINE six == [q \in Q |-> 6 * tds[q]]
                three == [q \in Q |-> 3 * kicked[q]]
                both == [q \in Q |-> six[q] + three[q]]
    <2>. HIDE DEF tds, points, caught, ran, extra, kicked
    <2>2. \A q \in Q : six[q] \in Int /\ six[q] = 6 * tds[q] /\ tds[q] \in Int
      BY <1>4
    <2>3. \A q \in Q : three[q] \in Int /\ three[q] = 3 * kicked[q] /\ kicked[q] \in Int
      BY <1>4
    <2>. HIDE DEF six, three
    <2>4. \A q \in Q : both[q] \in Int /\ both[q] = six[q] + three[q]
      BY <2>2, <2>3
    <2>. HIDE DEF both
    <2>5. Total(six, Q) = 6 * Total(tds, Q)
      <3>1. PICK k \in Int : k = 6
        OBVIOUS
      <3>2. \A q \in Q : tds[q] \in Int /\ six[q] = k * tds[q]
        BY <2>2, <3>1
      <3>3. Total(six, Q) = k * Total(tds, Q)
        BY <1>1, <3>2, TotalTimes
      <3>. QED
        BY <3>1, <3>3
    <2>6. Total(three, Q) = 3 * Total(kicked, Q)
      BY <1>1, <2>3, TotalTimes
    <2>7. Total(both, Q) = Total(six, Q) + Total(three, Q)
      BY <1>1, <2>2, <2>3, <2>4, TotalPlus
    <2>8. \A q \in Q : extra[q] \in Int /\ points[q] = both[q] + extra[q]
      BY <1>4, <2>1, <2>2, <2>3, <2>4
    <2>9. Total(points, Q) = Total(both, Q) + Total(extra, Q)
      BY <1>1, <2>4, <2>8, TotalPlus
    <2>. QED
      BY <2>5, <2>6, <2>7, <2>9
  <1>8. ASSUME NEW p \in Ids(side), NEW scored \in CountStats, NEW had \in CountStats,
               \A q \in Q : lines[d][q][side].of[scored][p] > 0 =>
                                lines[d][q][side].of[had][p] > 0,
               PlayerTotal(side, d, scored, p) > 0
        PROVE  PlayerTotal(side, d, had, p) > 0
    <2>1. PICK q \in Q : lines[d][q][side].of[scored][p] > 0
      BY <1>8, PlayerCounts
    <2>2. lines[d][q][side].of[had][p] > 0
      BY <1>8, <2>1
    <2>3. lines[d][q][side].of[had][p] \in Nat
      BY PeriodsAre DEF LineFacts, LineTyped
    <2>4. /\ lines[d][q][side].of[had][p] <= PlayerTotal(side, d, had, p)
          /\ PlayerTotal(side, d, had, p) \in Nat
      BY PlayerCounts
    <2>. QED
      BY <2>2, <2>3, <2>4
  <1>9. ASSUME NEW p \in Ids(side)
        PROVE  /\ PlayerTotal(side, d, "receiving_tds", p) > 0 =>
                      PlayerTotal(side, d, "receptions", p) > 0
               /\ PlayerTotal(side, d, "rushing_tds", p) > 0 =>
                      PlayerTotal(side, d, "rush_attempts", p) > 0
    <2>1. \A q \in Q : /\ lines[d][q][side].of["receiving_tds"][p] > 0 =>
                              lines[d][q][side].of["receptions"][p] > 0
                       /\ lines[d][q][side].of["rushing_tds"][p] > 0 =>
                              lines[d][q][side].of["rush_attempts"][p] > 0
      BY PeriodsAre DEF LineFacts, PlayerHas
    <2>. QED
      BY <1>2, <1>8, <2>1
  <1>10. \A q \in Q : q > Quarters /\ ~Tied(d) => Events(lines[d][q][side]) = 0
    BY DEF LinesHeld, PeriodsOf
  <1>. QED
    BY <1>3, <1>5, <1>6, <1>7, <1>9, <1>10 DEF ScoresAddUp

LEMMA MinOfSome ==
    ASSUME NEW S, S \subseteq Nat, S # {}
    PROVE  Min(S) \in S /\ \A y \in S : Min(S) <= y
  <1>1. \E x \in S : \A y \in S : x <= y
    BY LeastExists
  <1>. QED
    BY <1>1 DEF Min

LEMMA VectorHolds ==
    ASSUME Roster, LinesHeld, NEW d \in Draws, PeriodsOf(d) # {}, NEW side \in Sides
    PROVE  VectorInvariants(side, d)
  <1>1. TeamInvariants(side, d) /\ AllocationInvariants(side, d) /\ PlayerInvariants(side, d)
    BY TeamCoheres, AllocationsCohere, PlayersCohere
  <1>. QED
    BY <1>1, QuarterbackCoheres
        DEF VectorInvariants, TeamInvariants, AllocationInvariants, PlayerInvariants

-----------------------------------------------------------------------------
(* The first touchdown. *)

LEMMA TouchdownsCounted ==
    ASSUME LinesHeld, NEW d \in Draws, NEW side \in Sides, NEW q \in PeriodsOf(d)
    PROVE  \A p \in Ids(side) : TouchdownsIn(side, d, q, p) \in Nat
  <1>1. "receiving_tds" \in CountStats /\ "rushing_tds" \in CountStats
    BY DEF CountStats
  <1>2. \A p \in Ids(side) : /\ lines[d][q][side].of["receiving_tds"][p] \in Nat
                             /\ lines[d][q][side].of["rushing_tds"][p] \in Nat
    BY <1>1, PeriodsAre DEF LineFacts, LineTyped
  <1>. QED
    BY <1>2 DEF TouchdownsIn, In

\* A team scores in a draw where one of its players does.
LEMMA TeamScores ==
    ASSUME Roster, LinesHeld, NEW d \in Draws, NEW side \in Sides
    PROVE  TeamTotal(side, d, "touchdowns") = 0
               <=> \A q \in PeriodsOf(d), p \in Ids(side) : TouchdownsIn(side, d, q, p) = 0
  <1>. DEFINE f == TeamRow(side, d, "touchdowns")
              Q == PeriodsOf(d)
              ids == Ids(side)
  <1>1. IsFiniteSet(Q) /\ IsFiniteSet(ids)
    BY PeriodsAre, IdsAre
  <1>2. "touchdowns" \in TeamStats /\ "receiving_tds" \in CountStats /\ "rushing_tds" \in CountStats
    BY DEF TeamStats, CountStats
  <1>3. /\ TeamTotal(side, d, "touchdowns") = Total(f, Q)
        /\ \A q \in Q : f[q] \in Nat /\ f[q] = lines[d][q][side].touchdowns
    BY <1>2, TeamRows
  <1>4. ASSUME NEW q \in Q
        PROVE  f[q] = 0 <=> \A p \in ids : TouchdownsIn(side, d, q, p) = 0
    <2>. DEFINE caught == lines[d][q][side].of["receiving_tds"]
                ran == lines[d][q][side].of["rushing_tds"]
    <2>1. \A p \in ids : caught[p] \in Nat /\ ran[p] \in Nat
      BY <1>2, PeriodsAre DEF LineFacts, LineTyped
    <2>2. f[q] = Total(caught, ids) + Total(ran, ids)
      BY <1>3, PeriodsAre DEF LineFacts, TeamAdds, AllOf
    <2>3. \A p \in ids : TouchdownsIn(side, d, q, p) = caught[p] + ran[p]
      BY DEF TouchdownsIn, In
    <2>. HIDE DEF caught, ran, ids
    <2>4. /\ Total(caught, ids) \in Nat /\ \A p \in ids : caught[p] <= Total(caught, ids)
          /\ Total(ran, ids) \in Nat /\ \A p \in ids : ran[p] <= Total(ran, ids)
      BY <1>1, <2>1, TotalNat
    <2>5. ASSUME Total(caught, ids) + Total(ran, ids) = 0
          PROVE  \A p \in ids : caught[p] + ran[p] = 0
      BY <2>1, <2>4, <2>5
    <2>6. ASSUME \A p \in ids : caught[p] + ran[p] = 0
          PROVE  Total(caught, ids) = 0 /\ Total(ran, ids) = 0
      <3>1. \A p \in ids : caught[p] = 0 /\ ran[p] = 0
        BY <2>1, <2>6
      <3>. QED
        BY <1>1, <3>1, TotalOfZeros
    <2>7. Total(caught, ids) + Total(ran, ids) = 0 <=> \A p \in ids : caught[p] + ran[p] = 0
      BY <2>5, <2>6
    <2>. QED
      BY <2>2, <2>3, <2>7
  <1>5. Total(f, Q) = 0 <=> \A q \in Q : f[q] = 0
    <2>. HIDE DEF f, Q
    <2>1. \A q \in Q : f[q] <= Total(f, Q)
      BY <1>1, <1>3, TotalNat
    <2>2. (\A q \in Q : f[q] = 0) => Total(f, Q) = 0
      BY <1>1, TotalOfZeros
    <2>. QED
      BY <1>3, <2>1, <2>2
  <1>. QED
    BY <1>3, <1>4, <1>5

LEMMA NobodyScores ==
    ASSUME Roster, LinesHeld, NEW d \in Draws
    PROVE  FirstScorers(d) = {} <=> \A side \in Sides : TeamTotal(side, d, "touchdowns") = 0
  <1>1. ASSUME NEW q \in PeriodsOf(d)
        PROVE  ScorersIn(d, q) = {} <=>
                   \A side \in Sides : \A p \in Ids(side) : TouchdownsIn(side, d, q, p) = 0
    <2>1. ASSUME NEW side \in Sides, NEW p \in Ids(side)
          PROVE  TouchdownsIn(side, d, q, p) > 0 <=> TouchdownsIn(side, d, q, p) # 0
      <3>1. TouchdownsIn(side, d, q, p) \in Nat
        BY TouchdownsCounted
      <3>. QED
        BY <3>1
    <2>. QED
      BY <2>1 DEF ScorersIn
  <1>2. ScoringPeriods(d) # {} => FirstScorers(d) # {}
    <2>1. SUFFICES ASSUME ScoringPeriods(d) # {} PROVE FirstScorers(d) # {}
      OBVIOUS
    <2>2. ScoringPeriods(d) \subseteq Nat
      BY PeriodsAre DEF ScoringPeriods
    <2>3. Min(ScoringPeriods(d)) \in ScoringPeriods(d)
      BY <2>1, <2>2, MinOfSome
    <2>. QED
      BY <2>1, <2>3 DEF FirstScorers, ScoringPeriods
  <1>3. FirstScorers(d) = {} <=> ScoringPeriods(d) = {}
    BY <1>2 DEF FirstScorers
  <1>4. ScoringPeriods(d) = {} <=> \A q \in PeriodsOf(d) : ScorersIn(d, q) = {}
    BY DEF ScoringPeriods
  <1>. QED
    BY <1>1, <1>3, <1>4, TeamScores

LEMMA FirstIsListed ==
    ASSUME NEW d \in Draws
    PROVE  FirstScorers(d) \subseteq UNION {Ids(side) : side \in Sides}
  BY DEF FirstScorers, ScorersIn

LEMMA FirstScorersCohere ==
    ASSUME Roster, LinesHeld, FirstChosen, phase = "done", NEW d \in Draws
    PROVE  FirstScorerScored(d)
  <1>. DEFINE scored(q) ==
                  UNION {{p \in Ids(side) : TouchdownsIn(side, d, q, p) > 0} : side \in Sides}
  <1>1. SUFFICES ASSUME first[d] # Nobody
                 PROVE  \E q \in PeriodsOf(d) :
                            first[d] \in scored(q) /\ \A r \in 1..(q - 1) : scored(r) = {}
    BY DEF FirstScorerScored
  <1>2. FirstScorers(d) # {} /\ first[d] \in FirstScorers(d)
    BY <1>1 DEF FirstChosen
  <1>. DEFINE n == Min(ScoringPeriods(d))
  <1>3. ScoringPeriods(d) # {} /\ FirstScorers(d) = ScorersIn(d, n)
    BY <1>2 DEF FirstScorers
  <1>4. ScoringPeriods(d) \subseteq Nat
    BY PeriodsAre DEF ScoringPeriods
  <1>5. n \in ScoringPeriods(d) /\ \A q \in ScoringPeriods(d) : n <= q
    BY <1>3, <1>4, MinOfSome
  <1>6. first[d] \in scored(n)
    BY <1>2, <1>3 DEF ScorersIn
  <1>7. n \in PeriodsOf(d) /\ n \in Nat
    BY <1>4, <1>5 DEF ScoringPeriods
  <1>8. \A r \in 1..(n - 1) : scored(r) = {}
    <2>1. ASSUME NEW r \in 1..(n - 1) PROVE ScorersIn(d, r) = {}
      <3>. HIDE DEF n
      <3>1. r \in PeriodsOf(d)
        BY <1>7, PeriodsAre
      <3>2. r \notin ScoringPeriods(d)
        BY <1>5, <1>7
      <3>. QED
        BY <3>1, <3>2 DEF ScoringPeriods
    <2>. QED
      BY <2>1 DEF ScorersIn
  <1>. QED
    BY <1>6, <1>7, <1>8

LEMMA FirstTouchdownsCohere ==
    ASSUME Roster, LinesHeld, FirstChosen, phase = "done"
    PROVE  FirstTouchdownDistribution
  <1>. DEFINE ids == UNION {Ids(side) : side \in Sides}
              with == [p \in ids |-> Cardinality({d \in Draws : first[d] = p})]
              some == {d \in Draws : first[d] \in ids}
              none == {d \in Draws : first[d] = Nobody}
              scoreless == {d \in Draws : \A side \in Sides :
                                              TeamTotal(side, d, "touchdowns") = 0}
  <1>1. NDraws \in Nat /\ IsFiniteSet(Draws) /\ Cardinality(Draws) = NDraws
    BY SimulationAssumption, FS_Interval DEF Draws
  <1>2. IsFiniteSet(ids) /\ 0 \notin ids
    <2>1. ids = Ids("home") \cup Ids("away")
      BY DEF Sides
    <2>2. /\ IsFiniteSet(Ids("home")) /\ IsFiniteSet(Ids("away"))
          /\ 0 \notin Ids("home") /\ 0 \notin Ids("away")
      BY IdsAre DEF Sides
    <2>3. IsFiniteSet(Ids("home") \cup Ids("away"))
      BY <2>2, FS_Union
    <2>. HIDE DEF ids
    <2>. QED
      BY <2>1, <2>2, <2>3
  <1>3. Total(with, ids) = Cardinality(some)
    BY <1>1, <1>2, CountByValue
  <1>4. \A d \in Draws : first[d] \in ids \/ first[d] = Nobody
    BY FirstIsListed DEF FirstChosen
  <1>5. some \cup none = Draws /\ some \cap none = {}
    <2>. HIDE DEF ids
    <2>. QED
      BY <1>2, <1>4 DEF Nobody
  <1>6. IsFiniteSet(some) /\ IsFiniteSet(none)
    BY <1>1, FS_Subset
  <1>7. Cardinality(some) + Cardinality(none) = NDraws
    <2>. HIDE DEF some, none
    <2>. QED
      BY <1>1, <1>5, <1>6, CardinalityOfTwo
  <1>8. none = scoreless
    <2>1. ASSUME NEW d \in Draws
          PROVE  first[d] = Nobody <=> FirstScorers(d) = {}
      <3>1. FirstScorers(d) \subseteq ids
        BY FirstIsListed
      <3>. HIDE DEF ids
      <3>. QED
        BY <1>2, <3>1 DEF FirstChosen, Nobody
    <2>. QED
      BY <2>1, NobodyScores
  <1>9. Total(with, ids) + Cardinality(none) = NDraws
    <2>. HIDE DEF with, some, none, ids
    <2>. QED
      BY <1>3, <1>7
  <1>. QED
    BY <1>8, <1>9 DEF FirstTouchdownDistribution

-----------------------------------------------------------------------------
(* The invariant is kept. *)

LEMMA SimulationStarts ==
    ASSUME SimulationInit
    PROVE  SimInv
  <1>1. Roster
    BY DEF SimulationInit, Roster
  <1>2. NDraws \in Nat \ {0} /\ MaxEvents \in Nat
    BY SimulationAssumption
  <1>3. Turned
    <2>1. PICK n \in Nat : n = 0
      OBVIOUS
    <2>2. n = 0 * NDraws + 0 /\ 0 \in 0..(NDraws - 1)
      BY <1>2, <2>1
    <2>3. PeriodAt(n) = 1 /\ DrawAt(n) = 1
      <3>1. PeriodAt(n) = 0 + 1 /\ DrawAt(n) = 0 + 1
        BY <2>2, TurnIsOnly
      <3>. QED
        BY <3>1
    <2>4. \A d \in Draws : ~(d < 1) /\ Len(lines[d]) = 0
      BY <1>2 DEF SimulationInit, Draws
    <2>5. turn = n /\ left \in Nat /\ phase = "periods"
      BY <1>2, <2>1 DEF SimulationInit
    <2>. QED
      BY <2>3, <2>4, <2>5 DEF Turned
  <1>4. LinesHeld
    <2>1. DOMAIN lines = Draws /\ \A d \in Draws : lines[d] = <<>>
      BY DEF SimulationInit
    <2>2. Listed(<<>>) /\ DOMAIN <<>> = {}
      BY DEF Listed
    <2>. QED
      BY <2>1, <2>2 DEF LinesHeld
  <1>5. phase = "periods"
    BY DEF SimulationInit
  <1>. QED
    BY <1>1, <1>3, <1>4, <1>5 DEF SimInv, FirstChosen

\* What a side does in the next period, by the rules or nothing at all.
LEMMA PlayedIs ==
    ASSUME Roster, NEW side \in Sides, NEW most \in Nat, NEW l,
           l \in {NoPeriod(side)} \/ l \in Periods(side, most)
    PROVE  LineFacts(side, l) /\ Events(l) \in Nat /\ Events(l) <= most
  BY PeriodsDrawn, NoPeriodDrawn

LEMMA RosterKept ==
    ASSUME Roster, UNCHANGED <<squad, players>>
    PROVE  Roster'
  <1>1. \A side \in Sides : EnsurePlayers(side)' = EnsurePlayers(side)
    BY DEF EnsurePlayers, ActiveOf
  <1>. QED
    BY <1>1 DEF Roster

LEMMA ThePeriodKeeps ==
    ASSUME SimInv, SimulatePeriod
    PROVE  SimInv'
  <1>. DEFINE d0 == DrawAt(turn)
              n == Len(lines[d0])
  <1>1. /\ Roster /\ Turned /\ LinesHeld /\ phase = "periods" /\ phase' = "periods"
        /\ UNCHANGED <<squad, players>> /\ turn' = turn + 1
    BY DEF SimInv, SimulatePeriod
  <1>2. /\ turn \in Nat /\ left \in Nat /\ d0 \in Draws
        /\ PeriodAt(turn) \in Nat \ {0} /\ n = PeriodAt(turn) - 1
    <2>1. turn \in Nat /\ left \in Nat
      BY <1>1 DEF Turned
    <2>2. d0 \in Draws /\ PeriodAt(turn) \in Nat \ {0}
      BY <2>1, TurnIs
    <2>3. ~(d0 < DrawAt(turn))
      BY <2>2, SimulationAssumption DEF Draws
    <2>. QED
      BY <1>1, <2>1, <2>2, <2>3 DEF Turned
  <1>3. PICK home, away :
            /\ \/ PeriodAt(turn) > Quarters /\ ~Tied(d0)
                      /\ home = NoPeriod("home") /\ away = NoPeriod("away")
               \/ ~(PeriodAt(turn) > Quarters /\ ~Tied(d0))
                      /\ home \in Periods("home", left)
                      /\ away \in Periods("away", left - Events(home))
            /\ lines' = [lines EXCEPT ![d0] = Append(@, [home |-> home, away |-> away])]
            /\ left' = left - Events(home) - Events(away)
    BY DEF SimulatePeriod, PlaysOvertime
  <1>. DEFINE new == [home |-> home, away |-> away]
  <1>4. LineFacts("home", home) /\ Events(home) \in Nat /\ Events(home) <= left
    BY <1>1, <1>2, <1>3, PlayedIs DEF Sides
  <1>5. LineFacts("away", away) /\ Events(away) \in Nat /\ Events(away) <= left - Events(home)
    <2>1. left - Events(home) \in Nat
      BY <1>2, <1>4
    <2>. QED
      BY <1>1, <1>3, <2>1, PlayedIs DEF Sides
  <1>6. left' \in Nat
    BY <1>2, <1>3, <1>4, <1>5
  <1>7. \A side \in Sides : /\ LineFacts(side, new[side])
                            /\ PeriodAt(turn) > Quarters /\ ~Tied(d0) => Events(new[side]) = 0
    BY <1>1, <1>3, <1>4, <1>5, NoPeriodDrawn DEF Sides
  <1>8. /\ DOMAIN lines = Draws /\ \A d \in Draws : Listed(lines[d])
        /\ DOMAIN lines' = Draws /\ lines'[d0] = Append(lines[d0], new)
        /\ \A d \in Draws \ {d0} : lines'[d] = lines[d]
    BY <1>1, <1>2, <1>3 DEF LinesHeld
  <1>. HIDE DEF new
  <1>9. /\ Listed(lines'[d0]) /\ Len(lines'[d0]) = n + 1
        /\ DOMAIN lines[d0] = 1..n /\ DOMAIN lines'[d0] = 1..(n + 1)
        /\ \A q \in 1..n : lines'[d0][q] = lines[d0][q]
        /\ lines'[d0][n + 1] = new
    BY <1>2, <1>8, AppendIs
  <1>10. Roster'
    BY <1>1, RosterKept
  <1>11. Turned'
    <2>1. ASSUME NEW d \in Draws
          PROVE  Len(lines'[d]) = IF d < DrawAt(turn + 1) THEN PeriodAt(turn + 1)
                                  ELSE PeriodAt(turn + 1) - 1
      <3>1. NDraws \in Nat \ {0} /\ d \in 1..NDraws /\ d0 \in 1..NDraws
        BY <1>2, SimulationAssumption DEF Draws
      <3>2. Len(lines[d]) = IF d < d0 THEN PeriodAt(turn) ELSE PeriodAt(turn) - 1
        BY <1>1 DEF Turned
      <3>3. Len(lines'[d]) = IF d = d0 THEN PeriodAt(turn) ELSE Len(lines[d])
        BY <1>2, <1>8, <1>9
      <3>4. IF d0 < NDraws THEN DrawAt(turn + 1) = d0 + 1 /\ PeriodAt(turn + 1) = PeriodAt(turn)
            ELSE DrawAt(turn + 1) = 1 /\ PeriodAt(turn + 1) = PeriodAt(turn) + 1
        BY <1>2, NextTurn
      <3>. HIDE DEF d0
      <3>. QED
        BY <1>2, <3>1, <3>2, <3>3, <3>4
    <2>2. turn' \in Nat
      BY <1>1, <1>2
    <2>. QED
      BY <1>1, <1>6, <2>1, <2>2 DEF Turned
  <1>12. LinesHeld'
    <2>1. ASSUME NEW d \in Draws, NEW side \in Sides, NEW q \in DOMAIN lines'[d]
          PROVE  /\ LineFacts(side, lines'[d][q][side])
                 /\ q > Quarters /\ ~Tied(d) => Events(lines'[d][q][side]) = 0
      <3>1. CASE d # d0
        BY <1>1, <1>8, <3>1 DEF LinesHeld
      <3>2. CASE d = d0 /\ q \in 1..n
        BY <1>1, <1>2, <1>9, <3>2 DEF LinesHeld
      <3>3. CASE d = d0 /\ q = n + 1
        BY <1>2, <1>7, <1>9, <3>3
      <3>4. d = d0 => q \in 1..n \/ q = n + 1
        BY <1>2, <1>9
      <3>. QED
        BY <3>1, <3>2, <3>3, <3>4
    <2>2. ASSUME NEW d \in Draws, NEW q \in DOMAIN lines'[d], q > Quarters
          PROVE  Tied(d)' <=> Tied(d)
      <3>1. ASSUME NEW r \in 1..Quarters
            PROVE  lines'[d][r] = lines[d][r]
        <4>1. CASE d # d0
          BY <1>8, <4>1
        <4>2. CASE d = d0
          <5>1. Quarters \in Nat /\ q \in 1..(n + 1)
            BY <1>9, <4>2, SimulationAssumption
          <5>2. r \in 1..n
            BY <1>2, <2>2, <5>1
          <5>. QED
            BY <1>9, <4>2, <5>2
        <4>. QED
          BY <4>1, <4>2
      <3>2. \A side \in Sides :
                [r \in 1..Quarters |-> lines'[d][r][side].points]
                    = [r \in 1..Quarters |-> lines[d][r][side].points]
        BY <3>1
      <3>3. \A side \in Sides : RegulationPoints(side, d)' = RegulationPoints(side, d)
        BY <3>2 DEF RegulationPoints
      <3>. QED
        BY <3>3 DEF Tied, Sides
    <2>3. ASSUME NEW d \in Draws
          PROVE  Listed(lines'[d])
      BY <1>8, <1>9
    <2>4. ASSUME NEW d \in Draws, NEW side \in Sides, NEW q \in DOMAIN lines'[d]
          PROVE  /\ LineFacts(side, lines[d][q][side])'
                 /\ q > Quarters /\ ~Tied(d)' => Events(lines'[d][q][side]) = 0
      <3>1. LineFacts(side, lines[d][q][side])'
        BY <1>1, <2>1, FactsKept
      <3>. QED
        BY <2>1, <2>2, <3>1
    <2>. QED
      BY <1>8, <2>3, <2>4 DEF LinesHeld, Listed, Events
  <1>13. FirstChosen'
    BY <1>1 DEF FirstChosen
  <1>. QED
    BY <1>1, <1>10, <1>11, <1>12, <1>13 DEF SimInv

LEMMA EveryDrawHasPeriods ==
    ASSUME Turned, LinesHeld, turn >= Turns(Quarters)
    PROVE  \A d \in Draws : PeriodsOf(d) # {}
  <1>1. ASSUME NEW d \in Draws
        PROVE  Len(lines[d]) >= 1
    <2>1. turn \in Nat /\ Quarters \in Nat \ {0}
      BY SimulationAssumption DEF Turned
    <2>2. PeriodAt(turn) > Quarters /\ PeriodAt(turn) \in Nat
      BY <2>1, RegulationOver, TurnIs
    <2>3. Len(lines[d]) = IF d < DrawAt(turn) THEN PeriodAt(turn) ELSE PeriodAt(turn) - 1
      BY DEF Turned
    <2>. QED
      BY <2>1, <2>2, <2>3
  <1>2. ASSUME NEW d \in Draws
        PROVE  1 \in PeriodsOf(d)
    <2>1. Len(lines[d]) \in Nat /\ PeriodsOf(d) = 1..Len(lines[d])
      BY PeriodsAre
    <2>. QED
      BY <1>1, <2>1
  <1>. QED
    BY <1>2

\* Overtime comes after regulation.
LEMMA LastTurnIs ==
    ASSUME turn \in Nat, turn = LastTurn
    PROVE  turn >= Turns(Quarters)
  <1>1. NDraws \in Nat \ {0} /\ Quarters \in Nat \ {0}
    BY SimulationAssumption
  <1>2. Turns(Quarters) \in Nat
    BY <1>1 DEF Turns
  <1>3. CASE turn >= Turns(Quarters) /\ \E d \in Draws : Tied(d)
    BY <1>3
  <1>4. CASE ~(turn >= Turns(Quarters) /\ \E d \in Draws : Tied(d))
    BY <1>2, <1>4 DEF LastTurn
  <1>. QED
    BY <1>3, <1>4

\* What the game asserts of its draws always holds.
LEMMA NothingToAbort ==
    ASSUME SimInv, phase = "periods", turn = LastTurn
    PROVE  \A side \in Sides, d \in Draws : VectorInvariants(side, d)
  <1>1. turn >= Turns(Quarters)
    BY LastTurnIs DEF SimInv, Turned
  <1>. QED
    BY <1>1, EveryDrawHasPeriods, VectorHolds DEF SimInv

\* A step that draws no more periods leaves what is said of them.
LEMMA LinesKept ==
    ASSUME Roster, Turned, LinesHeld, UNCHANGED <<squad, players, turn, lines, left>>,
           phase' # "periods" => turn >= Turns(Quarters)
    PROVE  Roster' /\ Turned' /\ LinesHeld'
  <1>1. Roster'
    BY RosterKept
  <1>2. Turned'
    BY DEF Turned
  <1>3. \A side, l : LineFacts(side, l) => LineFacts(side, l)'
    BY FactsKept
  <1>4. \A d : Tied(d)' <=> Tied(d)
    BY DEF Tied, RegulationPoints
  <1>5. LinesHeld'
    BY <1>3, <1>4 DEF LinesHeld, Listed, Events
  <1>. QED
    BY <1>1, <1>2, <1>5

LEMMA TheAssertionKeeps ==
    ASSUME SimInv, AssertInvariants
    PROVE  SimInv'
  <1>1. phase' = "first"
    BY NothingToAbort DEF AssertInvariants
  <1>2. turn >= Turns(Quarters)
    BY LastTurnIs DEF AssertInvariants, SimInv, Turned
  <1>3. Roster' /\ Turned' /\ LinesHeld'
    BY <1>2, LinesKept DEF AssertInvariants, SimInv
  <1>. QED
    BY <1>1, <1>3 DEF SimInv, FirstChosen

LEMMA FirstScorersKept ==
    ASSUME UNCHANGED <<players, lines>>
    PROVE  \A d : FirstScorers(d)' = FirstScorers(d)
  <1>1. \A side : Ids(side)' = Ids(side)
    BY DEF Ids
  <1>2. \A d, q : ScorersIn(d, q)' = ScorersIn(d, q)
    BY <1>1 DEF ScorersIn, TouchdownsIn, In
  <1>3. \A d : ScoringPeriods(d)' = ScoringPeriods(d)
    BY <1>2 DEF ScoringPeriods, PeriodsOf
  <1>. QED
    BY <1>2, <1>3 DEF FirstScorers

LEMMA TheFirstScorersKeep ==
    ASSUME SimInv, PickFirstScorers
    PROVE  SimInv'
  <1>1. turn >= Turns(Quarters)
    BY DEF PickFirstScorers, SimInv, Turned
  <1>2. Roster' /\ Turned' /\ LinesHeld'
    BY <1>1, LinesKept DEF PickFirstScorers, SimInv
  <1>3. FirstChosen'
    <2>1. \A d \in Draws : IF FirstScorers(d) = {} THEN first'[d] = Nobody
                           ELSE first'[d] \in FirstScorers(d)
      BY DEF PickFirstScorers
    <2>2. \A d : FirstScorers(d)' = FirstScorers(d)
      BY FirstScorersKept DEF PickFirstScorers
    <2>. QED
      BY <2>1, <2>2 DEF FirstChosen
  <1>4. phase' = "done"
    BY DEF PickFirstScorers
  <1>. QED
    BY <1>2, <1>3, <1>4 DEF SimInv

\* SimInv is an inductive invariant of the simulation.
LEMMA SimulationHolds == Spec => []SimInv
  <1>1. Init => SimInv
    BY SimulationStarts DEF Init
  <1>2. SimInv /\ [Next]_vars => SimInv'
    <2>1. SUFFICES ASSUME SimInv, [Next]_vars PROVE SimInv'
      OBVIOUS
    <2>2. CASE SimulatePeriod
      BY <2>1, <2>2, ThePeriodKeeps
    <2>3. CASE AssertInvariants
      BY <2>1, <2>3, TheAssertionKeeps
    <2>4. CASE PickFirstScorers
      BY <2>1, <2>4, TheFirstScorersKeep
    <2>5. CASE UNCHANGED simVars
      <3>1. UNCHANGED <<squad, players, turn, lines, left, first, phase>>
        BY <2>5 DEF simVars
      <3>2. Roster' /\ Turned' /\ LinesHeld'
        BY <2>1, <3>1, LinesKept DEF SimInv, Turned
      <3>3. FirstChosen'
        BY <2>1, <3>1, FirstScorersKept DEF SimInv, FirstChosen
      <3>. QED
        BY <2>1, <3>1, <3>2, <3>3 DEF SimInv
    <2>. QED
      BY <2>1, <2>2, <2>3, <2>4, <2>5 DEF Next, SimulationNext, vars
  <1>. QED
    BY <1>1, <1>2, PTL DEF Spec

\* A finished simulation satisfies every normative check of every draw, for any
\* number of draws and periods, any squads, gains and bound on events
\* (invariants.py, game.py:359-383, :440, :648-656, :721-741).
THEOREM DrawsCohereHolds == Spec => []DrawsCohere
  <1>1. SimInv => DrawsCohere
    <2>1. SUFFICES ASSUME SimInv, phase = "done" PROVE
              /\ FirstTouchdownDistribution
              /\ \A d \in Draws :
                     /\ FirstScorerScored(d)
                     /\ \A side \in Sides :
                            /\ TeamInvariants(side, d) /\ AllocationInvariants(side, d)
                            /\ PlayerInvariants(side, d) /\ QBCoherence(side, d)
                            /\ ScoresAddUp(side, d)
      BY DEF DrawsCohere
    <2>2. Roster /\ LinesHeld /\ FirstChosen /\ Turned /\ turn >= Turns(Quarters)
      BY <2>1 DEF SimInv, Turned
    <2>3. \A d \in Draws : PeriodsOf(d) # {}
      BY <2>2, EveryDrawHasPeriods
    <2>4. FirstTouchdownDistribution
      BY <2>1, <2>2, FirstTouchdownsCohere
    <2>5. ASSUME NEW d \in Draws
          PROVE  FirstScorerScored(d)
      BY <2>1, <2>2, FirstScorersCohere
    <2>6. ASSUME NEW d \in Draws, NEW side \in Sides
          PROVE  /\ TeamInvariants(side, d) /\ AllocationInvariants(side, d)
                 /\ PlayerInvariants(side, d) /\ QBCoherence(side, d)
                 /\ ScoresAddUp(side, d)
      BY <2>2, <2>3, TeamCoheres, AllocationsCohere, PlayersCohere, QuarterbackCoheres,
         ScoresCohere
    <2>. QED
      BY <2>4, <2>5, <2>6
  <1>. QED
    BY <1>1, SimulationHolds, PTL

\* The assertions of simulate_game (game.py _vector_invariants) are never the
\* reason a checkpoint stops: no simulation is aborted.
THEOREM NeverAborted == Spec => [](phase # "aborted")
  <1>1. SimInv => phase # "aborted"
    BY DEF SimInv
  <1>. QED
    BY <1>1, SimulationHolds, PTL

-----------------------------------------------------------------------------
(* Counting draws by value. *)

Counted(v) == [o \in {v[d] : d \in Draws} |-> Cardinality({d \in Draws : v[d] = o})]

LEMMA DrawsAre ==
    /\ NDraws \in Nat \ {0} /\ Draws = 1..NDraws
    /\ IsFiniteSet(Draws) /\ Cardinality(Draws) = NDraws
  <1>1. NDraws \in Nat \ {0}
    BY SimulationAssumption
  <1>2. IsFiniteSet(1..NDraws) /\ Cardinality(1..NDraws) = NDraws
    BY <1>1, FS_Interval
  <1>. QED
    BY <1>1, <1>2 DEF Draws

LEMMA ImageFinite ==
    ASSUME NEW v, NEW D, IsFiniteSet(D)
    PROVE  IsFiniteSet({v[d] : d \in D}) /\ Cardinality({v[d] : d \in D}) <= Cardinality(D)
  <1>. DEFINE V == {v[d] : d \in D}
              g == [d \in D |-> v[d]]
  <1>1. g \in Surjection(D, V)
    BY DEF Surjection
  <1>. HIDE DEF g, V
  <1>2. IsFiniteSet(V) /\ Cardinality(V) <= Cardinality(D)
    BY <1>1, FS_Surjection
  <1>. QED
    BY <1>2 DEF V

LEMMA CountedIs ==
    ASSUME NEW v
    PROVE  /\ DOMAIN Counted(v) = {v[d] : d \in Draws}
           /\ IsFiniteSet(DOMAIN Counted(v))
           /\ \A o \in DOMAIN Counted(v) :
                  /\ Counted(v)[o] = Cardinality({d \in Draws : v[d] = o})
                  /\ Counted(v)[o] \in Nat \ {0}
           /\ \A d \in Draws : v[d] \in DOMAIN Counted(v)
  <1>1. DOMAIN Counted(v) = {v[d] : d \in Draws} /\ IsFiniteSet({v[d] : d \in Draws})
    BY DrawsAre, ImageFinite DEF Counted
  <1>2. ASSUME NEW o \in DOMAIN Counted(v)
        PROVE  /\ Counted(v)[o] = Cardinality({d \in Draws : v[d] = o})
               /\ Counted(v)[o] \in Nat \ {0}
    <2>. DEFINE D == {d \in Draws : v[d] = o}
    <2>1. D \in SUBSET Draws /\ D # {}
      BY <1>1, <1>2
    <2>2. Counted(v)[o] = Cardinality(D)
      BY <1>2 DEF Counted
    <2>. HIDE DEF D
    <2>3. IsFiniteSet(D)
      BY <2>1, DrawsAre, FS_Subset
    <2>4. Cardinality(D) \in Nat /\ Cardinality(D) # 0
      BY <2>1, <2>3, FS_CardinalityType, FS_EmptySet
    <2>. QED
      BY <2>2, <2>4 DEF D
  <1>. QED
    BY <1>1, <1>2

\* The mass of some outcomes is the number of draws that have one of them.
LEMMA MassIs ==
    ASSUME NEW v, NEW S \in SUBSET DOMAIN Counted(v)
    PROVE  Mass(Counted(v), S) = Cardinality({d \in Draws : v[d] \in S})
  <1>1. [o \in S |-> Counted(v)[o]] = [o \in S |-> Cardinality({d \in Draws : v[d] = o})]
    BY CountedIs
  <1>2. IsFiniteSet(S) /\ IsFiniteSet(Draws)
    BY CountedIs, DrawsAre, FS_Subset
  <1>3. Total([o \in S |-> Cardinality({d \in Draws : v[d] = o})], S)
            = Cardinality({d \in Draws : v[d] \in S})
    BY <1>2, CountByValue
  <1>. QED
    BY <1>1, <1>3 DEF Mass

LEMMA MeanIs ==
    ASSUME NEW v, \A d \in Draws : v[d] \in Int
    PROVE  PMFMean(Counted(v)) = Mean(v)
  <1>. DEFINE O == DOMAIN Counted(v)
  <1>1. [o \in O |-> o * Counted(v)[o]] = [o \in O |-> o * Cardinality({d \in Draws : v[d] = o})]
    BY CountedIs
  <1>2. IsFiniteSet(O) /\ O \subseteq Int /\ \A d \in Draws : v[d] \in O
    <2>1. O = {v[d] : d \in Draws} /\ IsFiniteSet(O)
      BY CountedIs
    <2>. HIDE DEF O
    <2>. QED
      BY <2>1
  <1>. HIDE DEF O
  <1>3. Total([o \in O |-> o * Cardinality({d \in Draws : v[d] = o})], O) = Total(v, Draws)
    BY <1>2, DrawsAre, TotalByValue
  <1>. QED
    BY <1>1, <1>3 DEF PMFMean, Mean, O

-----------------------------------------------------------------------------
(* Quantiles. *)

\* Draws by their value, equal ones as they are.
ByValue(v) ==
    {pair \in Draws \X Draws :
        \/ v[pair[1]] < v[pair[2]]
        \/ v[pair[1]] = v[pair[2]] /\ pair[1] < pair[2]}

LEMMA SortingIs ==
    ASSUME NEW v, \A d \in Draws : v[d] \in Int
    PROVE  /\ Sorting(v) \in [Draws -> Draws]
           /\ \A i, j \in Draws : i < j => v[Sorting(v)[i]] <= v[Sorting(v)[j]]
           /\ \A d \in Draws : \E i \in Draws : Sorting(v)[i] = d
           /\ \A i, j \in Draws : Sorting(v)[i] = Sorting(v)[j] => i = j
  <1>. DEFINE Sorts(order) ==
                  \A i, j \in Draws : i < j =>
                      \/ v[order[i]] < v[order[j]]
                      \/ v[order[i]] = v[order[j]] /\ order[i] < order[j]
              s == Sorting(v)
  <1>0. Draws \subseteq Nat /\ Draws = 1..Cardinality(Draws) /\ IsFiniteSet(Draws)
    BY DrawsAre
  <1>1. StrictOrder(ByValue(v), Draws)
    <2>1. \A x \in Draws : <<x, x>> \notin ByValue(v)
      BY <1>0 DEF ByValue
    <2>2. \A x, y, z \in Draws :
              <<x, y>> \in ByValue(v) /\ <<y, z>> \in ByValue(v) => <<x, z>> \in ByValue(v)
      BY <1>0 DEF ByValue
    <2>3. \A x, y \in Draws : x = y \/ <<x, y>> \in ByValue(v) \/ <<y, x>> \in ByValue(v)
      BY <1>0 DEF ByValue
    <2>. QED
      BY <2>1, <2>2, <2>3 DEF StrictOrder
  <1>2. PICK t : Lists(t, ByValue(v), Draws)
    BY <1>0, <1>1, ListExists
  <1>3. t \in [Draws -> Draws] /\ Sorts(t)
    <2>1. t \in [Draws -> Draws] /\ \A i, j \in Draws : i < j => <<t[i], t[j]>> \in ByValue(v)
      BY <1>0, <1>2 DEF Lists
    <2>. QED
      BY <2>1 DEF ByValue
  <1>4. s \in [Draws -> Draws] /\ Sorts(s)
    BY <1>3 DEF Sorting
  <1>. HIDE DEF s
  <1>5. Lists(s, ByValue(v), Draws)
    <2>1. \A i, j \in Draws : i < j => <<s[i], s[j]>> \in ByValue(v)
      BY <1>4 DEF ByValue
    <2>. QED
      BY <1>0, <1>4, <2>1 DEF Lists
  <1>6. \A d \in Draws : \E i \in Draws : s[i] = d
    BY <1>0, <1>1, <1>5, ListHasAll
  <1>7. ASSUME NEW i \in Draws, NEW j \in Draws, s[i] = s[j]
        PROVE  i = j
    <2>1. s[i] \in Draws /\ v[s[i]] \in Int /\ s[i] \in Nat
      BY <1>0, <1>4
    <2>2. ~(i < j) /\ ~(j < i)
      BY <1>4, <1>7, <2>1
    <2>. QED
      BY <1>0, <2>2
  <1>8. \A i, j \in Draws : i < j => v[s[i]] <= v[s[j]]
    BY <1>4
  <1>. QED
    BY <1>4, <1>6, <1>7, <1>8 DEF s

LEMMA LeastIs ==
    ASSUME NEW S, S \subseteq Int, NEW x \in S, \A y \in S : x <= y
    PROVE  Min(S) = x
  <1>1. Min(S) \in S /\ \A y \in S : Min(S) <= y
    BY DEF Min
  <1>2. Min(S) <= x /\ x <= Min(S)
    BY <1>1
  <1>3. Min(S) \in Int /\ x \in Int
    BY <1>1
  <1>. QED
    BY <1>2, <1>3

\* The place of a quantile, rounded up.
LEMMA PlaceIs ==
    ASSUME NEW q \in 1..100
    PROVE  LET k == (q * NDraws + 99) \div 100
           IN  /\ k \in Draws
               /\ 100 * k >= q * NDraws /\ 100 * (k - 1) < q * NDraws
               /\ Max({1, Min({NDraws, k})}) = k
  <1>1. PICK m \in Nat : m = q * NDraws /\ m >= NDraws /\ m <= 100 * NDraws
    <2>1. PICK c \in Nat : c = q - 1
      OBVIOUS
    <2>2. PICK e \in Nat : e = 100 - q
      OBVIOUS
    <2>3. NDraws \in Nat /\ c * NDraws \in Nat /\ e * NDraws \in Nat
      BY <2>1, <2>2, DrawsAre
    <2>4. q * NDraws = c * NDraws + NDraws
      BY <2>1, <2>3
    <2>5. 100 * NDraws = q * NDraws + e * NDraws
      BY <2>2, <2>3
    <2>. QED
      BY <2>3, <2>4, <2>5
  <1>. DEFINE k == (m + 99) \div 100
  <1>2. k \in Int /\ 100 * k <= m + 99 /\ m + 99 < 100 * k + 100
    OBVIOUS
  <1>. HIDE DEF k
  <1>3. 1 <= k /\ k <= NDraws /\ 100 * k >= m /\ 100 * (k - 1) < m
    BY <1>1, <1>2, DrawsAre
  <1>4. Min({NDraws, k}) = k
    BY <1>2, <1>3, DrawsAre, LesserOfTwo
  <1>5. Max({1, k}) = k
    BY <1>2, <1>3, GreaterOfTwo
  <1>6. k \in Draws
    BY <1>2, <1>3, DrawsAre
  <1>. QED
    BY <1>1, <1>3, <1>4, <1>5, <1>6 DEF k

\* So many of the draws come no later than the place, and fewer are less.
LEMMA PlacesCounted ==
    ASSUME NEW v, \A d \in Draws : v[d] \in Int, NEW k \in Draws
    PROVE  LET x == v[Sorting(v)[k]]
           IN  /\ Cardinality({d \in Draws : v[d] <= x}) >= k
               /\ \A o \in Int : o < x => Cardinality({d \in Draws : v[d] <= o}) <= k - 1
  <1>. DEFINE s == Sorting(v)
              x == v[s[k]]
  <1>1. /\ s \in [Draws -> Draws]
        /\ \A i, j \in Draws : i < j => v[s[i]] <= v[s[j]]
        /\ \A d \in Draws : \E i \in Draws : s[i] = d
        /\ \A i, j \in Draws : s[i] = s[j] => i = j
    BY SortingIs
  <1>2. NDraws \in Nat /\ Draws = 1..NDraws /\ IsFiniteSet(Draws)
    BY DrawsAre
  <1>. HIDE DEF s
  <1>3. x \in Int
    BY <1>1
  <1>4. Cardinality({d \in Draws : v[d] <= x}) >= k
    <2>. DEFINE T == {d \in Draws : v[d] <= x}
                f == [i \in 1..k |-> s[i]]
    <2>1. \A i \in 1..k : i \in Draws /\ s[i] \in Draws /\ v[s[i]] <= x
      <3>1. ASSUME NEW i \in 1..k
            PROVE  i \in Draws /\ s[i] \in Draws /\ v[s[i]] <= x
        <4>1. i \in Draws /\ s[i] \in Draws
          BY <1>1, <1>2
        <4>2. CASE i < k
          BY <1>1, <4>1, <4>2
        <4>3. CASE i = k
          <5>1. v[s[i]] = x
            BY <4>3
          <5>. HIDE DEF x
          <5>. QED
            BY <1>3, <4>1, <5>1
        <4>. QED
          BY <1>2, <4>1, <4>2, <4>3
      <3>. QED
        BY <3>1
    <2>2. f \in Injection(1..k, T)
      BY <1>1, <2>1 DEF Injection, IsInjective
    <2>3. T \in SUBSET Draws
      OBVIOUS
    <2>. HIDE DEF T, f, x
    <2>4. IsFiniteSet(T)
      BY <1>2, <2>3, FS_Subset
    <2>5. Cardinality(1..k) <= Cardinality(T)
      BY <2>2, <2>4, FS_Injection
    <2>6. Cardinality(1..k) = k /\ Cardinality(T) \in Nat
      BY <1>2, <2>4, FS_Interval, FS_CardinalityType
    <2>. QED
      BY <1>2, <2>5, <2>6 DEF T
  <1>5. ASSUME NEW o \in Int, o < x
        PROVE  Cardinality({d \in Draws : v[d] <= o}) <= k - 1
    <2>. DEFINE T == {d \in Draws : v[d] <= o}
                I == {s[i] : i \in 1..(k - 1)}
    <2>1. T \subseteq I
      <3>1. ASSUME NEW d \in T PROVE d \in I
        <4>1. PICK i \in Draws : s[i] = d
          BY <1>1
        <4>2. v[s[i]] <= o /\ v[s[i]] \in Int
          BY <4>1
        <4>3. ~(k < i) /\ i # k
          BY <1>1, <1>3, <1>5, <4>2
        <4>4. i \in 1..(k - 1)
          BY <1>2, <4>3
        <4>. QED
          BY <4>1, <4>4
      <3>. QED
        BY <3>1
    <2>2. k - 1 \in Nat /\ 1 \in Int
      BY <1>2
    <2>3. IsFiniteSet(1..(k - 1)) /\ Cardinality(1..(k - 1)) = k - 1
      BY <2>2, FS_Interval
    <2>4. IsFiniteSet(I) /\ Cardinality(I) <= k - 1
      BY <2>3, ImageFinite
    <2>. HIDE DEF T, I
    <2>5. Cardinality(T) <= Cardinality(I) /\ IsFiniteSet(T)
      BY <2>1, <2>4, FS_Subset
    <2>6. Cardinality(T) \in Nat /\ Cardinality(I) \in Nat
      BY <2>4, <2>5, FS_CardinalityType
    <2>. QED
      BY <2>2, <2>4, <2>5, <2>6 DEF T
  <1>. QED
    BY <1>4, <1>5 DEF s

LEMMA QuantileIs ==
    ASSUME NEW v, \A d \in Draws : v[d] \in Int, NEW q \in 1..100
    PROVE  EmpiricalQuantile(Ordered(v), q) = InverseCDF(Counted(v), q)
  <1>. DEFINE O == DOMAIN Counted(v)
              k == (q * NDraws + 99) \div 100
              x == v[Sorting(v)[k]]
              upTo(o) == Mass(Counted(v), {y \in O : y <= o})
              S == {o \in O : 100 * upTo(o) >= q * NDraws}
  <1>1. /\ k \in Draws /\ k \in Nat
        /\ 100 * k >= q * NDraws /\ 100 * (k - 1) < q * NDraws
        /\ Max({1, Min({NDraws, k})}) = k
    <2>1. /\ k \in Draws /\ 100 * k >= q * NDraws /\ 100 * (k - 1) < q * NDraws
          /\ Max({1, Min({NDraws, k})}) = k
      BY PlaceIs
    <2>. HIDE DEF k
    <2>2. k \in Nat
      BY <2>1, DrawsAre
    <2>. QED
      BY <2>1, <2>2
  <1>. HIDE DEF k
  <1>2. EmpiricalQuantile(Ordered(v), q) = x
    BY <1>1 DEF EmpiricalQuantile, Ordered, k
  <1>3. O = {v[d] : d \in Draws} /\ O \subseteq Int
    <2>1. O = {v[d] : d \in Draws}
      BY CountedIs
    <2>. HIDE DEF O
    <2>. QED
      BY <2>1
  <1>4. x \in O
    <2>1. Sorting(v)[k] \in Draws
      BY <1>1, SortingIs
    <2>. HIDE DEF O
    <2>. QED
      BY <1>3, <2>1
  <1>5. ASSUME NEW o \in O
        PROVE  upTo(o) = Cardinality({d \in Draws : v[d] <= o}) /\ upTo(o) \in Nat
    <2>. DEFINE U == {y \in O : y <= o}
                T == {d \in Draws : v[d] <= o}
    <2>1. Mass(Counted(v), U) = Cardinality({d \in Draws : v[d] \in U})
      BY MassIs
    <2>2. {d \in Draws : v[d] \in U} = T
      BY <1>3
    <2>3. IsFiniteSet(T) /\ Cardinality(T) \in Nat
      BY DrawsAre, FS_Subset, FS_CardinalityType
    <2>. HIDE DEF T
    <2>. QED
      BY <2>1, <2>2, <2>3 DEF T
  <1>6. q * NDraws \in Int
    BY DrawsAre
  <1>7. x \in S
    <2>1. upTo(x) >= k
      BY <1>1, <1>4, <1>5, PlacesCounted
    <2>2. upTo(x) \in Nat
      BY <1>4, <1>5
    <2>. HIDE DEF upTo, x, O
    <2>3. 100 * upTo(x) >= q * NDraws
      BY <1>1, <1>6, <2>1, <2>2
    <2>. QED
      BY <1>4, <2>3
  <1>8. ASSUME NEW o \in S
        PROVE  x <= o
    <2>1. o \in O /\ o \in Int /\ x \in Int
      BY <1>3, <1>4
    <2>2. SUFFICES ASSUME o < x PROVE FALSE
      BY <2>1
    <2>a. Cardinality({d \in Draws : v[d] <= o}) <= k - 1
      BY <1>1, <2>1, <2>2, PlacesCounted
    <2>b. upTo(o) = Cardinality({d \in Draws : v[d] <= o})
      BY <1>5, <2>1
    <2>3. upTo(o) <= k - 1
      <3>. HIDE DEF upTo
      <3>. QED
        BY <2>a, <2>b
    <2>4. upTo(o) \in Nat /\ 100 * upTo(o) >= q * NDraws
      BY <1>5, <2>1
    <2>. HIDE DEF upTo
    <2>. QED
      BY <1>1, <1>6, <2>3, <2>4
  <1>9. S \subseteq Int
    BY <1>3
  <1>10. InverseCDF(Counted(v), q) = Min(S)
    BY DEF InverseCDF
  <1>. HIDE DEF S, x
  <1>11. Min(S) = x
    BY <1>7, <1>8, <1>9, LeastIs
  <1>. QED
    BY <1>2, <1>10, <1>11

-----------------------------------------------------------------------------
(* The stored payload. *)

LEMMA AscendingIs ==
    ASSUME NEW n \in Nat, NEW s \in [1..n -> Int]
    PROVE  /\ Len(s) = n
           /\ Ascending(s) <=> \A i, j \in 1..n : i < j => s[i] < s[j]
  <1>1. Len(s) = n
    <2>1. s \in Seq(Int)
      BY SeqDef
    <2>. QED
      BY <2>1, LenProperties
  <1>2. ASSUME Ascending(s)
        PROVE  \A i, j \in 1..n : i < j => s[i] < s[j]
    <2>. DEFINE T == {j \in 1..n : \E i \in 1..n : i < j /\ ~(s[i] < s[j])}
    <2>1. SUFFICES ASSUME T # {} PROVE FALSE
      OBVIOUS
    <2>2. PICK j \in T : \A k \in T : j <= k
      <3>1. T \subseteq Nat
        OBVIOUS
      <3>. HIDE DEF T
      <3>. QED
        BY <2>1, <3>1, LeastExists
    <2>3. PICK i \in 1..n : i < j /\ ~(s[i] < s[j])
      OBVIOUS
    <2>4. j - 1 \in 1..(n - 1) /\ j - 1 \in 1..n /\ j \in 1..n /\ j - 1 \notin T
      BY <2>2, <2>3
    <2>5. s[j - 1] < s[(j - 1) + 1]
      BY <1>1, <1>2, <2>4 DEF Ascending
    <2>6. s[j - 1] \in Int /\ s[j] \in Int /\ s[i] \in Int /\ (j - 1) + 1 = j
      BY <2>3, <2>4
    <2>7. i = j - 1 \/ s[i] < s[j - 1]
      BY <2>3, <2>4
    <2>. QED
      BY <2>3, <2>5, <2>6, <2>7
  <1>3. ASSUME \A i, j \in 1..n : i < j => s[i] < s[j]
        PROVE  Ascending(s)
    BY <1>1, <1>3 DEF Ascending
  <1>. QED
    BY <1>1, <1>2, <1>3

LEMMA OutcomesAre ==
    ASSUME NEW v, \A d \in Draws : v[d] \in Int
    PROVE  LET O == DOMAIN Counted(v)
               n == Cardinality(O)
               list == Outcomes(Counted(v))
           IN  /\ n \in Nat /\ n > 0
               /\ list \in [1..n -> O] /\ list \in [1..n -> Int] /\ Ascending(list)
               /\ \A o \in O : \E i \in 1..n : list[i] = o
               /\ \A i, j \in 1..n : list[i] = list[j] => i = j
  <1>. DEFINE O == DOMAIN Counted(v)
              n == Cardinality(O)
              list == Outcomes(Counted(v))
              R == {pair \in O \X O : pair[1] < pair[2]}
  <1>1. O = {v[d] : d \in Draws} /\ IsFiniteSet(O)
    BY CountedIs
  <1>2. O \subseteq Int /\ O # {}
    <2>1. 1 \in Draws
      BY DrawsAre
    <2>. HIDE DEF O
    <2>. QED
      BY <1>1, <2>1
  <1>. HIDE DEF O
  <1>3. n \in Nat /\ n > 0
    <2>1. n \in Nat
      BY <1>1, FS_CardinalityType
    <2>2. n # 0
      BY <1>1, <1>2, FS_EmptySet
    <2>. QED
      BY <2>1, <2>2
  <1>4. StrictOrder(R, O)
    <2>1. \A x \in O : <<x, x>> \notin R
      BY <1>2
    <2>2. \A x, y, z \in O : <<x, y>> \in R /\ <<y, z>> \in R => <<x, z>> \in R
      BY <1>2
    <2>3. \A x, y \in O : x = y \/ <<x, y>> \in R \/ <<y, x>> \in R
      BY <1>2
    <2>. HIDE DEF R
    <2>. QED
      BY <2>1, <2>2, <2>3 DEF StrictOrder
  <1>5. PICK t : Lists(t, R, O)
    <2>. HIDE DEF R
    <2>. QED
      BY <1>1, <1>4, ListExists
  <1>6. t \in [1..n -> O] /\ t \in [1..n -> Int] /\ \A i, j \in 1..n : i < j => t[i] < t[j]
    BY <1>2, <1>5 DEF Lists
  <1>. HIDE DEF n
  <1>7. Ascending(t)
    BY <1>3, <1>6, AscendingIs
  <1>8. list \in [1..n -> O] /\ Ascending(list)
    BY <1>6, <1>7 DEF Outcomes, O, n
  <1>. HIDE DEF list
  <1>9. list \in [1..n -> Int]
    BY <1>2, <1>8
  <1>10. \A i, j \in 1..n : i < j => list[i] < list[j]
    BY <1>3, <1>8, <1>9, AscendingIs
  <1>11. Lists(list, R, O)
    BY <1>8, <1>10 DEF Lists, n
  <1>12. /\ \A o \in O : \E i \in 1..n : list[i] = o
         /\ \A i, j \in 1..n : list[i] = list[j] => i = j
    <2>. HIDE DEF R
    <2>1. IsFiniteSet(O)
      BY <1>1
    <2>2. \A x \in O : \E i \in 1..Cardinality(O) : list[i] = x
      BY <1>4, <1>11, <2>1, ListHasAll
    <2>3. \A i, j \in 1..Cardinality(O) : list[i] = list[j] => i = j
      BY <1>4, <1>11, <2>1, ListHasAll
    <2>. QED
      BY <2>2, <2>3 DEF n
  <1>. QED
    BY <1>3, <1>8, <1>9, <1>12 DEF list, n, O

LEMMA CountedAt ==
    ASSUME NEW v, NEW o \in DOMAIN Counted(v)
    PROVE  /\ Counted(v)[o] \in Nat /\ Counted(v)[o] > 0
           /\ Counted(v)[o] = Cardinality({d \in Draws : v[d] = o})
  <1>1. Counted(v)[o] = Cardinality({d \in Draws : v[d] = o}) /\ Counted(v)[o] \in Nat \ {0}
    BY CountedIs
  <1>2. \A k \in Nat \ {0} : k > 0
    OBVIOUS
  <1>. QED
    BY <1>1, <1>2

\* What is stored of a PMF is accepted, and read back as it was.
LEMMA EncodeIs ==
    ASSUME NEW v, \A d \in Draws : v[d] \in Int
    PROVE  /\ Decodes(EncodePMF(Counted(v)))
           /\ DecodePMF(EncodePMF(Counted(v))) = Counted(v)
  <1>. DEFINE pmf == Counted(v)
              O == DOMAIN pmf
              n == Cardinality(O)
              list == Outcomes(pmf)
              stored == EncodePMF(pmf)
              records == stored.records
  <1>1. /\ n \in Nat /\ n > 0
        /\ list \in [1..n -> O] /\ list \in [1..n -> Int] /\ Ascending(list)
        /\ \A o \in O : \E i \in 1..n : list[i] = o
        /\ \A i, j \in 1..n : list[i] = list[j] => i = j
    BY OutcomesAre
  <1>2. stored.count = n /\ records = [i \in 1..n |-> <<list[i], pmf[list[i]]>>]
    BY DEF EncodePMF
  <1>3. \A o \in O :
            /\ pmf[o] \in Nat /\ pmf[o] > 0
            /\ pmf[o] = Cardinality({d \in Draws : v[d] = o})
    BY CountedAt
  <1>4. \A d \in Draws : v[d] \in O
    BY CountedIs
  <1>5. pmf = [o \in O |-> pmf[o]]
    BY DEF Counted
  <1>. HIDE DEF pmf, O, n, list, stored
  <1>6. /\ DOMAIN records = 1..n
        /\ \A i \in 1..n : /\ records[i][1] = list[i] /\ records[i][2] = pmf[list[i]]
                           /\ list[i] \in O
    BY <1>1, <1>2
  <1>7. Len(records) = n
    <2>. DEFINE E == {records[i] : i \in 1..n}
    <2>1. records \in [1..n -> E]
      BY <1>2
    <2>. HIDE DEF E
    <2>2. records \in Seq(E)
      BY <1>1, <2>1, SeqDef
    <2>. QED
      BY <1>1, <2>1, <2>2, LenProperties
  <1>8. [i \in DOMAIN records |-> records[i][1]] = list
    <2>1. list = [i \in 1..n |-> list[i]]
      BY <1>1
    <2>. QED
      BY <1>6, <2>1
  <1>9. ASSUME NEW i \in DOMAIN records
        PROVE  records[i][2] > 0
    <2>1. i \in 1..n
      BY <1>6
    <2>2. records[i][2] = pmf[list[i]] /\ list[i] \in O
      BY <1>6, <2>1
    <2>3. pmf[list[i]] > 0
      BY <1>3, <2>2
    <2>. QED
      BY <2>2, <2>3
  <1>10. Total([i \in DOMAIN records |-> records[i][2]], DOMAIN records) = NDraws
    <2>. DEFINE indexOf == [d \in Draws |-> CHOOSE i \in 1..n : list[i] = v[d]]
    <2>1. \A d \in Draws : indexOf[d] \in 1..n /\ list[indexOf[d]] = v[d]
      <3>1. ASSUME NEW d \in Draws
            PROVE  indexOf[d] \in 1..n /\ list[indexOf[d]] = v[d]
        <4>1. \E i \in 1..n : list[i] = v[d]
          BY <1>1, <1>4
        <4>. QED
          BY <4>1
      <3>. QED
        BY <3>1
    <2>. HIDE DEF indexOf
    <2>2. ASSUME NEW i \in 1..n
          PROVE  records[i][2] = Cardinality({d \in Draws : indexOf[d] = i})
      <3>1. {d \in Draws : indexOf[d] = i} = {d \in Draws : v[d] = list[i]}
        BY <1>1, <2>1
      <3>. QED
        BY <1>3, <1>6, <3>1
    <2>3. [i \in DOMAIN records |-> records[i][2]]
              = [i \in 1..n |-> Cardinality({d \in Draws : indexOf[d] = i})]
      BY <1>6, <2>2
    <2>4. IsFiniteSet(1..n)
      BY <1>1, FS_Interval
    <2>5. Total([i \in 1..n |-> Cardinality({d \in Draws : indexOf[d] = i})], 1..n)
              = Cardinality({d \in Draws : indexOf[d] \in 1..n})
      <3>. DEFINE I == 1..n
      <3>1. IsFiniteSet(Draws) /\ IsFiniteSet(I)
        BY <2>4, DrawsAre
      <3>. HIDE DEF I
      <3>2. Total([i \in I |-> Cardinality({d \in Draws : indexOf[d] = i})], I)
                = Cardinality({d \in Draws : indexOf[d] \in I})
        BY <3>1, CountByValue
      <3>. QED
        BY <3>2 DEF I
    <2>6. {d \in Draws : indexOf[d] \in 1..n} = Draws
      BY <2>1
    <2>. QED
      BY <1>6, <2>3, <2>5, <2>6, DrawsAre
  <1>11. Decodes(stored)
    BY <1>1, <1>2, <1>7, <1>8, <1>9, <1>10 DEF Decodes
  <1>12. {records[i][1] : i \in DOMAIN records} = O
    <2>1. {records[i][1] : i \in DOMAIN records} = {list[i] : i \in 1..n}
      BY <1>6
    <2>2. {list[i] : i \in 1..n} = O
      <3>1. \A i \in 1..n : list[i] \in O
        BY <1>1
      <3>2. \A o \in O : \E i \in 1..n : o = list[i]
        BY <1>1
      <3>. QED
        BY <3>1, <3>2
    <2>. QED
      BY <2>1, <2>2
  <1>13. ASSUME NEW o \in O
         PROVE  (CHOOSE r \in ToSet(records) : r[1] = o)[2] = pmf[o]
    <2>1. \E i \in 1..n : records[i] \in ToSet(records) /\ records[i][1] = o
      BY <1>1, <1>6 DEF ToSet
    <2>2. PICK r : r \in ToSet(records) /\ r[1] = o /\ r = CHOOSE e \in ToSet(records) : e[1] = o
      BY <2>1
    <2>3. PICK i \in 1..n : r = records[i]
      BY <1>6, <2>2 DEF ToSet
    <2>. QED
      BY <1>6, <2>2, <2>3
  <1>14. DecodePMF(stored) = pmf
    BY <1>5, <1>12, <1>13 DEF DecodePMF
  <1>. QED
    BY <1>11, <1>14 DEF stored, pmf

-----------------------------------------------------------------------------
(* The value of a prop. *)

\* A finished simulation has all of its periods.
LEMMA FinishedIs ==
    ASSUME SimInv, phase = "done", NEW d \in Draws
    PROVE  /\ Roster /\ LinesHeld
           /\ IsFiniteSet(PeriodsOf(d)) /\ 1 \in PeriodsOf(d)
           /\ FirstHalf \subseteq PeriodsOf(d) /\ IsFiniteSet(FirstHalf)
  <1>1. Roster /\ LinesHeld /\ Turned
    BY DEF SimInv
  <1>2. turn \in Nat /\ Quarters \in Nat \ {0} /\ turn >= Turns(Quarters)
    BY <1>1, SimulationAssumption DEF Turned
  <1>3. PeriodAt(turn) > Quarters /\ PeriodAt(turn) \in Nat
    BY <1>2, RegulationOver, TurnIs
  <1>4. Len(lines[d]) = IF d < DrawAt(turn) THEN PeriodAt(turn) ELSE PeriodAt(turn) - 1
    BY <1>1 DEF Turned
  <1>5. /\ Len(lines[d]) \in Nat /\ PeriodsOf(d) = 1..Len(lines[d])
        /\ IsFiniteSet(PeriodsOf(d))
    BY <1>1, PeriodsAre
  <1>6. Len(lines[d]) >= Quarters
    BY <1>2, <1>3, <1>4
  <1>7. Quarters \div 2 \in Nat /\ Quarters \div 2 <= Quarters
    BY <1>2
  <1>8. FirstHalf \subseteq PeriodsOf(d) /\ 1 \in PeriodsOf(d)
    <2>. DEFINE h == Quarters \div 2
                n == Len(lines[d])
    <2>. HIDE DEF h, n
    <2>1. h \in Nat /\ h <= Quarters /\ n >= Quarters /\ n \in Nat
      BY <1>5, <1>6, <1>7 DEF h, n
    <2>2. 1..h \subseteq 1..n /\ 1 \in 1..n
      BY <1>2, <2>1
    <2>. QED
      BY <1>5, <2>2 DEF h, n, FirstHalf
  <1>9. IsFiniteSet(FirstHalf)
    BY <1>5, <1>8, FS_Subset
  <1>. QED
    BY <1>1, <1>5, <1>8, <1>9

\* A player with a state, listed for his team.
Plays(p) == p.team \in Sides /\ p.id \in Ids(p.team)

LEMMA PlayerTotalInt ==
    ASSUME SimInv, phase = "done", NEW d \in Draws, NEW side \in Sides, NEW p \in Ids(side),
           NEW name \in CountStats \cup YardStats
    PROVE  PlayerTotal(side, d, name, p) \in Int
  <1>. DEFINE row == PlayerRow(side, d, name, p)
              Q == PeriodsOf(d)
  <1>1. LinesHeld /\ IsFiniteSet(Q) /\ Q # {}
    BY FinishedIs
  <1>2. \A q \in Q : row[q] \in Int
    BY <1>1, PlayerRows
  <1>3. CASE name \in Longest
    <2>1. PlayerTotal(side, d, name, p) = Highest(row, Q)
      BY <1>1, <1>3, PlayerRows
    <2>. HIDE DEF row, Q
    <2>. QED
      BY <1>1, <1>2, <2>1, HighestIs
  <1>4. CASE name \notin Longest
    <2>1. PlayerTotal(side, d, name, p) = Total(row, Q)
      BY <1>1, <1>4, PlayerRows DEF Summed
    <2>. HIDE DEF row, Q
    <2>. QED
      BY <1>1, <1>2, <2>1, TotalInt
  <1>. QED
    BY <1>3, <1>4

\* A part of a game.
LEMMA PartInt ==
    ASSUME SimInv, phase = "done", NEW d \in Draws, NEW side \in Sides, NEW p \in Ids(side),
           NEW Q \in SUBSET PeriodsOf(d)
    PROVE  /\ \A name \in CountStats \cup YardStats :
                  Total([q \in Q |-> In(side, d, q, name, p)], Q) \in Int
           /\ Total([q \in Q |-> TouchdownsIn(side, d, q, p)], Q) \in Nat
  <1>1. LinesHeld /\ IsFiniteSet(Q)
    BY FinishedIs, FS_Subset
  <1>2. ASSUME NEW name \in CountStats \cup YardStats
        PROVE  Total([q \in Q |-> In(side, d, q, name, p)], Q) \in Int
    <2>. DEFINE row == [q \in Q |-> In(side, d, q, name, p)]
    <2>1. \A q \in Q : row[q] \in Int
      BY <1>1, PlayerRows DEF In
    <2>. HIDE DEF row
    <2>2. Total(row, Q) \in Int
      BY <1>1, <2>1, TotalInt
    <2>. QED
      BY <2>2 DEF row
  <1>3. Total([q \in Q |-> TouchdownsIn(side, d, q, p)], Q) \in Nat
    <2>. DEFINE row == [q \in Q |-> TouchdownsIn(side, d, q, p)]
    <2>1. \A q \in Q : row[q] \in Nat
      BY <1>1, TouchdownsCounted
    <2>. HIDE DEF row
    <2>2. Total(row, Q) \in Nat
      BY <1>1, <2>1, TotalNat
    <2>. QED
      BY <2>2 DEF row
  <1>. QED
    BY <1>2, <1>3

LEMMA FirstHalfNames ==
    /\ DOMAIN FirstHalfOf = {"passing_yards_1h", "passing_tds_1h", "receiving_yards_1h",
                             "rushing_yards_1h", "fg_made_1h"}
    /\ \A name \in DOMAIN FirstHalfOf : FirstHalfOf[name] \in CountStats \cup YardStats
  <1>1. DOMAIN FirstHalfOf = {"passing_yards_1h", "passing_tds_1h", "receiving_yards_1h",
                              "rushing_yards_1h", "fg_made_1h"}
    BY DEF FirstHalfOf
  <1>2. /\ FirstHalfOf["passing_yards_1h"] = "passing_yards"
        /\ FirstHalfOf["passing_tds_1h"] = "passing_tds"
        /\ FirstHalfOf["receiving_yards_1h"] = "receiving_yards"
        /\ FirstHalfOf["rushing_yards_1h"] = "rushing_yards"
        /\ FirstHalfOf["fg_made_1h"] = "fg_made"
    BY DEF FirstHalfOf
  <1>. QED
    BY <1>1, <1>2 DEF CountStats, YardStats

LEMMA PropValueInt ==
    ASSUME SimInv, phase = "done", NEW d \in Draws, NEW p, Plays(p), NEW prop \in PropNames
    PROVE  PropValue(p, prop, d) \in Int
  <1>1. p.team \in Sides /\ p.id \in Ids(p.team)
    BY DEF Plays
  <1>2. /\ FirstHalf \in SUBSET PeriodsOf(d) /\ {1} \in SUBSET PeriodsOf(d)
        /\ SecondHalf(d) \in SUBSET PeriodsOf(d)
    BY FinishedIs DEF SecondHalf
  <1>3. CASE prop \in DOMAIN FirstHalfOf
    <2>1. PropValue(p, prop, d)
              = Total([q \in FirstHalf |-> In(p.team, d, q, FirstHalfOf[prop], p.id)], FirstHalf)
      <3>1. prop \notin TouchdownProps /\ prop # "anytime_td" /\ prop # "first_td"
        BY <1>3, FirstHalfNames DEF TouchdownProps
      <3>. QED
        BY <1>3, <3>1 DEF PropValue
    <2>. QED
      BY <1>1, <1>2, <1>3, <2>1, PartInt, FirstHalfNames
  <1>4. CASE prop \in TouchdownProps
    <2>. DEFINE Part(Q) == Total([q \in Q |-> TouchdownsIn(p.team, d, q, p.id)], Q)
    <2>1. PropValue(p, prop, d) \in {Part({1}), Part(FirstHalf), Part(SecondHalf(d))}
      <3>1. prop \notin DOMAIN FirstHalfOf
        BY <1>4, FirstHalfNames DEF TouchdownProps
      <3>. QED
        BY <1>4, <3>1 DEF PropValue, TouchdownProps, FirstQuarter, FirstHalfPeriods
    <2>2. Part({1}) \in Int /\ Part(FirstHalf) \in Int /\ Part(SecondHalf(d)) \in Int
      BY <1>1, <1>2, PartInt
    <2>. HIDE DEF Part
    <2>. QED
      BY <2>1, <2>2
  <1>5. \A name \in CountStats \cup YardStats : PlayerTotal(p.team, d, name, p.id) \in Int
    BY <1>1, PlayerTotalInt
  <1>6. CASE prop = "anytime_td"
    <2>1. PropValue(p, prop, d) = PlayerTotal(p.team, d, "receiving_tds", p.id)
                                      + PlayerTotal(p.team, d, "rushing_tds", p.id)
      BY <1>6, FirstHalfNames DEF PropValue, TouchdownProps
    <2>. QED
      BY <1>5, <2>1 DEF CountStats
  <1>7. CASE prop = "first_td"
    <2>1. PropValue(p, prop, d) = IF first[d] = p.id THEN 1 ELSE 0
      BY <1>7, FirstHalfNames DEF PropValue, TouchdownProps
    <2>. QED
      BY <2>1
  <1>8. CASE /\ prop \notin DOMAIN FirstHalfOf /\ prop \notin TouchdownProps
             /\ prop # "anytime_td" /\ prop # "first_td"
    <2>1. PropValue(p, prop, d) = Column(p.team, d, prop, p.id)
      BY <1>8 DEF PropValue
    <2>2. CASE prop = "kicking_points"
      <3>1. Column(p.team, d, prop, p.id) = 3 * PlayerTotal(p.team, d, "fg_made", p.id)
                                                + PlayerTotal(p.team, d, "xp_made", p.id)
        BY <2>2 DEF Column
      <3>. QED
        BY <1>5, <2>1, <3>1 DEF CountStats
    <2>3. CASE prop = "rushing_receiving_yards"
      <3>1. Column(p.team, d, prop, p.id) = PlayerTotal(p.team, d, "rushing_yards", p.id)
                                                + PlayerTotal(p.team, d, "receiving_yards", p.id)
        BY <2>3 DEF Column
      <3>. QED
        BY <1>5, <2>1, <3>1 DEF YardStats
    <2>4. CASE prop # "kicking_points" /\ prop # "rushing_receiving_yards"
      <3>1. Column(p.team, d, prop, p.id) = PlayerTotal(p.team, d, prop, p.id)
        BY <2>4 DEF Column
      <3>2. prop \in CountStats \cup YardStats
        BY <1>8, <2>4 DEF PropNames, AtLeastHitProps, CollapsedProps, CountStats, YardStats
      <3>. QED
        BY <1>5, <2>1, <3>1, <3>2
    <2>. QED
      BY <2>2, <2>3, <2>4
  <1>. QED
    BY <1>3, <1>4, <1>6, <1>7, <1>8

\* The values the products count.
LEMMA ValuesAre ==
    ASSUME SimInv, phase = "done", NEW p, Plays(p), NEW prop \in PropNames
    PROVE  /\ Extract(p, prop) = CanonicalValues(p, prop)
           /\ RawPMF(p, prop) = Counted(CanonicalValues(p, prop))
           /\ \A d \in Draws : /\ PropValues(p, prop)[d] \in Int
                               /\ CanonicalValues(p, prop)[d] \in Int
  <1>1. Extract(p, prop) = CanonicalValues(p, prop)
    BY DEF Extract, CanonicalValues
  <1>2. RawPMF(p, prop) = Counted(CanonicalValues(p, prop))
    BY DEF RawPMF, Count, Counted
  <1>3. \A d \in Draws : PropValues(p, prop)[d] \in Int
    BY PropValueInt DEF PropValues
  <1>4. \A d \in Draws : CanonicalValues(p, prop)[d] \in Int
    BY <1>3 DEF CanonicalValues, Hit
  <1>. QED
    BY <1>1, <1>2, <1>3, <1>4

-----------------------------------------------------------------------------
(* Threshold events. *)

LEMMA EligibleAre ==
    ASSUME Roster
    PROVE  /\ IsFiniteSet(squad)
           /\ EligiblePlayers \subseteq Simulated /\ Simulated \subseteq squad
           /\ \A p \in Simulated : Plays(p) /\ p \in ActiveOf(p.team) /\ p.id \in Nat \ {0}
           /\ \A p, q \in squad : p.id = q.id => p = q
  <1>1. /\ IsFiniteSet(squad) /\ squad \subseteq PlayerStates
        /\ \A p, q \in squad : p.id = q.id => p = q
    BY SimulationAssumption DEF Roster
  <1>2. \A p \in squad : p.team \in Sides /\ p.id \in Nat \ {0}
    BY <1>1 DEF PlayerStates
  <1>3. \A p \in squad : p.active => p.id \in Ids(p.team)
    BY <1>2, ListedPlayers
  <1>4. EligiblePlayers \subseteq Simulated
    BY <1>2, <1>3 DEF EligiblePlayers, Simulated
  <1>5. ASSUME NEW p \in Simulated
        PROVE  Plays(p) /\ p \in ActiveOf(p.team)
    <2>1. p \in squad
      BY DEF Simulated
    <2>2. PICK side \in Sides : p.id \in Ids(side)
      BY DEF Simulated
    <2>3. p.team = side /\ p.active
      BY <2>1, <2>2, ListedPlayers
    <2>. QED
      BY <2>1, <2>2, <2>3 DEF Plays, ActiveOf
  <1>6. Simulated \subseteq squad
    BY DEF Simulated
  <1>. QED
    BY <1>1, <1>2, <1>4, <1>5, <1>6

LEMMA LaddersAre ==
    /\ IsFiniteSet(Catalog.ladders)
    /\ \A l, m \in Catalog.ladders : l.stat = m.stat => l = m
    /\ \A l \in Catalog.ladders :
           /\ Len(l.values) \in Nat /\ DOMAIN l.values = 1..Len(l.values)
           /\ \A i \in DOMAIN l.values : l.values[i] \in Nat \ {0}
           /\ \A i, j \in DOMAIN l.values : l.values[i] = l.values[j] => i = j
           /\ l.stat \in Stats \/ \E s \in Catalog.derived : s.stat = l.stat
    /\ Catalog.expected = EventCount(Catalog)
  <1>1. ValidCatalog(Catalog)
    BY CatalogAssumption
  <1>2. ASSUME NEW l \in Catalog.ladders
        PROVE  /\ Len(l.values) \in Nat /\ DOMAIN l.values = 1..Len(l.values)
               /\ \A i \in DOMAIN l.values : l.values[i] \in Nat \ {0}
               /\ \A i, j \in DOMAIN l.values : l.values[i] = l.values[j] => i = j
    <2>. DEFINE v == l.values
                n == Len(v)
    <2>1. v \in Seq(Nat \ {0}) /\ Ascending(v)
      BY <1>1 DEF ValidCatalog
    <2>. HIDE DEF v
    <2>2. n \in Nat /\ DOMAIN v = 1..n /\ v \in [1..n -> Nat \ {0}]
      BY <2>1, LenProperties
    <2>. HIDE DEF n
    <2>3. v \in [1..n -> Int]
      BY <2>2
    <2>4. \A i, j \in 1..n : i < j => v[i] < v[j]
      BY <2>1, <2>2, <2>3, AscendingIs
    <2>5. \A i, j \in 1..n : v[i] = v[j] => i = j
      BY <2>2, <2>3, <2>4
    <2>. QED
      BY <2>2, <2>5 DEF v, n
  <1>3. \A l \in Catalog.ladders : l.stat \in Stats \/ \E s \in Catalog.derived : s.stat = l.stat
    BY <1>1 DEF ValidCatalog
  <1>. QED
    BY <1>1, <1>2, <1>3 DEF ValidCatalog

\* A statistic of the registry is not derived, a derived one is of some of them.
LEMMA DerivedAre ==
    /\ \A prop \in Stats : prop \in PropNames /\ DerivedInputs(Catalog, prop) = {}
    /\ \A l \in Catalog.ladders :
           LET inputs == DerivedInputs(Catalog, l.stat)
           IN  /\ IsFiniteSet(inputs) /\ inputs \subseteq PropNames
               /\ inputs = {} => l.stat \in Stats
  <1>1. /\ ValidCatalog(Catalog) /\ \A s \in Catalog.derived : s.stat \notin PropNames
        /\ Stats \subseteq PropNames
    BY CatalogAssumption, StatsAssumption
  <1>2. ASSUME NEW prop \in Stats
        PROVE  prop \in PropNames /\ DerivedInputs(Catalog, prop) = {}
    <2>1. prop \in PropNames
      BY <1>1
    <2>2. {s \in Catalog.derived : s.stat = prop} = {}
      BY <1>1, <2>1
    <2>3. {derived.inputs : derived \in {s \in Catalog.derived : s.stat = prop}} = {}
      BY <2>2
    <2>. QED
      BY <2>1, <2>3 DEF DerivedInputs
  <1>3. ASSUME NEW l \in Catalog.ladders
        PROVE  LET inputs == DerivedInputs(Catalog, l.stat)
               IN  /\ IsFiniteSet(inputs) /\ inputs \subseteq PropNames
                   /\ inputs = {} => l.stat \in Stats
    <2>. DEFINE D == {s \in Catalog.derived : s.stat = l.stat}
                inputsOf == [s \in D |-> s.inputs]
                F == {inputsOf[s] : s \in D}
    <2>1. DerivedInputs(Catalog, l.stat) = UNION F
      BY DEF DerivedInputs
    <2>2. IsFiniteSet(D)
      BY <1>1, FS_Subset DEF ValidCatalog
    <2>3. \A s \in D : IsFiniteSet(s.inputs) /\ s.inputs # {} /\ s.inputs \subseteq Stats
      BY <1>1 DEF ValidCatalog
    <2>4. \A T \in F : IsFiniteSet(T) /\ T # {} /\ T \subseteq Stats
      BY <2>3
    <2>5. D = {} => l.stat \in Stats
      BY LaddersAre
    <2>6. UNION F = {} => D = {}
      <3>1. \A s \in D : s.inputs \in F /\ s.inputs # {}
        BY <2>3
      <3>. HIDE DEF F, D
      <3>. QED
        BY <3>1
    <2>. HIDE DEF D, inputsOf
    <2>7. IsFiniteSet(F)
      BY <2>2, ImageFinite
    <2>. HIDE DEF F
    <2>8. IsFiniteSet(UNION F) /\ UNION F \subseteq PropNames
      BY <1>1, <2>4, <2>7, FS_UNION
    <2>. QED
      BY <2>1, <2>5, <2>6, <2>8
  <1>. QED
    BY <1>2, <1>3

LEMMA SourceVectorInt ==
    ASSUME SimInv, phase = "done", NEW p, Plays(p), NEW l \in Catalog.ladders
    PROVE  \A d \in Draws : SourceVector(p, l.stat)[d] \in Int
  <1>. DEFINE inputs == DerivedInputs(Catalog, l.stat)
  <1>1. IsFiniteSet(inputs) /\ inputs \subseteq PropNames /\ (inputs = {} => l.stat \in PropNames)
    BY DerivedAre
  <1>2. \A prop \in PropNames : \A d \in Draws : Extract(p, prop)[d] \in Int
    BY ValuesAre
  <1>3. CASE inputs = {}
    BY <1>1, <1>2, <1>3 DEF SourceVector
  <1>4. CASE inputs # {}
    <2>1. ASSUME NEW d \in Draws
          PROVE  SourceVector(p, l.stat)[d] \in Int
      <3>. DEFINE f == [s \in inputs |-> Extract(p, s)[d]]
      <3>1. SourceVector(p, l.stat)[d] = Total(f, inputs)
        BY <1>4 DEF SourceVector
      <3>2. \A s \in inputs : f[s] \in Int
        BY <1>1, <1>2
      <3>. HIDE DEF f, inputs
      <3>. QED
        BY <1>1, <3>1, <3>2, TotalInt
    <2>. QED
      BY <2>1
  <1>. QED
    BY <1>3, <1>4

\* A rung of a ladder, of which the builder makes one row for each player.
Rungs == UNION {{l} \X DOMAIN l.values : l \in Catalog.ladders}
EventRow(p, l, i) ==
    [player |-> p.id, stat |-> l.stat, threshold |-> l.values[i],
     hit |-> AtLeastHit(SourceVector(p, l.stat), l.values[i])]
EventAt == [x \in EligiblePlayers \X Rungs |-> EventRow(x[1], x[2][1], x[2][2])]

LEMMA EventsAre ==
    /\ ThresholdEvents = {EventAt[x] : x \in EligiblePlayers \X Rungs}
    /\ \A e \in ThresholdEvents :
           \E p \in EligiblePlayers : \E l \in Catalog.ladders :
               \E i \in DOMAIN l.values : e = EventRow(p, l, i)
  <1>. DEFINE RowsOf(p, l) == {EventRow(p, l, i) : i \in DOMAIN l.values}
  <1>1. ThresholdEvents = UNION {RowsOf(x[1], x[2]) : x \in EligiblePlayers \X Catalog.ladders}
    BY DEF ThresholdEvents, EventRow
  <1>2. ASSUME NEW e \in ThresholdEvents
        PROVE  \E p \in EligiblePlayers : \E l \in Catalog.ladders :
                   \E i \in DOMAIN l.values : e = EventRow(p, l, i)
    <2>1. PICK x \in EligiblePlayers \X Catalog.ladders : e \in RowsOf(x[1], x[2])
      BY <1>1
    <2>2. PICK i \in DOMAIN x[2].values : e = EventRow(x[1], x[2], i)
      BY <2>1
    <2>3. x[1] \in EligiblePlayers /\ x[2] \in Catalog.ladders
      OBVIOUS
    <2>. QED
      BY <2>2, <2>3
  <1>3. ASSUME NEW e \in ThresholdEvents
        PROVE  e \in {EventAt[x] : x \in EligiblePlayers \X Rungs}
    <2>1. PICK p \in EligiblePlayers : \E l \in Catalog.ladders :
              \E i \in DOMAIN l.values : e = EventRow(p, l, i)
      BY <1>2
    <2>2. PICK l \in Catalog.ladders : \E i \in DOMAIN l.values : e = EventRow(p, l, i)
      BY <2>1
    <2>3. PICK i \in DOMAIN l.values : e = EventRow(p, l, i)
      BY <2>2
    <2>4. <<l, i>> \in Rungs
      BY DEF Rungs
    <2>5. <<p, <<l, i>>>> \in EligiblePlayers \X Rungs
      BY <2>4
    <2>6. EventAt[<<p, <<l, i>>>>] = EventRow(p, l, i)
      BY <2>5 DEF EventAt
    <2>. QED
      BY <2>3, <2>5, <2>6
  <1>4. ASSUME NEW x \in EligiblePlayers \X Rungs
        PROVE  EventAt[x] \in ThresholdEvents
    <2>1. x[1] \in EligiblePlayers /\ x[2] \in Rungs
      OBVIOUS
    <2>2. PICK l \in Catalog.ladders : x[2] \in {l} \X DOMAIN l.values
      BY <2>1 DEF Rungs
    <2>3. x[2][1] = l /\ x[2][2] \in DOMAIN l.values
      BY <2>2
    <2>4. EventAt[x] = EventRow(x[1], l, x[2][2])
      BY <2>3 DEF EventAt
    <2>5. <<x[1], l>> \in EligiblePlayers \X Catalog.ladders /\ EventAt[x] \in RowsOf(x[1], l)
      BY <2>1, <2>3, <2>4
    <2>. QED
      BY <1>1, <2>5
  <1>. QED
    BY <1>2, <1>3, <1>4

LEMMA InjectiveImage ==
    ASSUME NEW f, NEW D, IsFiniteSet(D), \A x, y \in D : f[x] = f[y] => x = y
    PROVE  Cardinality({f[x] : x \in D}) = Cardinality(D)
  <1>. DEFINE T == {f[x] : x \in D}
              g == [x \in D |-> f[x]]
  <1>1. g \in Surjection(D, T) /\ g \in Injection(D, T)
    BY DEF Surjection, Injection, IsInjective
  <1>. HIDE DEF g, T
  <1>2. Cardinality(T) = Cardinality(D)
    BY <1>1, FS_Surjection
  <1>. QED
    BY <1>2 DEF T

\* The rungs are the events of one player.
LEMMA RungsCounted ==
    IsFiniteSet(Rungs) /\ Cardinality(Rungs) = EventCount(Catalog)
  <1>. DEFINE L == Catalog.ladders
              ladderOf == [k \in Rungs |-> k[1]]
              rungsOf == [l \in L |-> {l} \X DOMAIN l.values]
              F == {rungsOf[l] : l \in L}
  <1>1. IsFiniteSet(L) /\ \A l \in L : Len(l.values) \in Nat /\ DOMAIN l.values = 1..Len(l.values)
    BY LaddersAre
  <1>2. ASSUME NEW l \in L
        PROVE  IsFiniteSet(rungsOf[l]) /\ Cardinality(rungsOf[l]) = Len(l.values)
    <2>. DEFINE n == Len(l.values)
    <2>1. n \in Nat /\ rungsOf[l] = {l} \X (1..n)
      BY <1>1
    <2>. HIDE DEF n, rungsOf
    <2>2. IsFiniteSet(1..n) /\ Cardinality(1..n) = n
      BY <2>1, FS_Interval
    <2>3. IsFiniteSet({l}) /\ Cardinality({l}) = 1
      BY FS_Singleton
    <2>4. IsFiniteSet({l} \X (1..n)) /\ Cardinality({l} \X (1..n)) = 1 * n
      BY <2>2, <2>3, FS_Product
    <2>. QED
      BY <2>1, <2>4 DEF n
  <1>3. Rungs = UNION F
    BY DEF Rungs
  <1>4. IsFiniteSet(Rungs)
    <2>. HIDE DEF rungsOf
    <2>1. IsFiniteSet(F)
      BY <1>1, ImageFinite
    <2>2. \A T \in F : IsFiniteSet(T)
      BY <1>2
    <2>. QED
      BY <1>3, <2>1, <2>2, FS_UNION
  <1>5. ASSUME NEW l \in L
        PROVE  {k \in Rungs : ladderOf[k] = l} = rungsOf[l]
    <2>1. rungsOf[l] = {l} \X DOMAIN l.values
      OBVIOUS
    <2>2. rungsOf[l] \subseteq Rungs
      BY <2>1 DEF Rungs
    <2>3. ASSUME NEW k \in Rungs, k[1] = l
          PROVE  k \in rungsOf[l]
      <3>1. PICK m \in L : k \in {m} \X DOMAIN m.values
        BY DEF Rungs
      <3>. QED
        BY <2>1, <2>3, <3>1
    <2>4. \A k \in rungsOf[l] : k[1] = l
      BY <2>1
    <2>. QED
      BY <2>2, <2>3, <2>4
  <1>6. {k \in Rungs : ladderOf[k] \in L} = Rungs
    <2>1. ASSUME NEW k \in Rungs
          PROVE  ladderOf[k] \in L
      <3>1. PICK m \in L : k \in {m} \X DOMAIN m.values
        BY DEF Rungs
      <3>. QED
        BY <3>1
    <2>. QED
      BY <2>1
  <1>7. [l \in L |-> Len(l.values)] = [l \in L |-> Cardinality({k \in Rungs : ladderOf[k] = l})]
    <2>. HIDE DEF ladderOf, rungsOf, L
    <2>. QED
      BY <1>2, <1>5
  <1>8. Total([l \in L |-> Cardinality({k \in Rungs : ladderOf[k] = l})], L)
            = Cardinality({k \in Rungs : ladderOf[k] \in L})
    <2>. HIDE DEF ladderOf, rungsOf, L
    <2>. QED
      BY <1>1, <1>4, CountByValue
  <1>. QED
    BY <1>4, <1>6, <1>7, <1>8 DEF EventCount

LEMMA EventRowIs ==
    ASSUME NEW p, NEW l, NEW i
    PROVE  /\ EventRow(p, l, i).player = p.id /\ EventRow(p, l, i).stat = l.stat
           /\ EventRow(p, l, i).threshold = l.values[i]
           /\ EventRow(p, l, i).hit = AtLeastHit(SourceVector(p, l.stat), l.values[i])
  BY DEF EventRow

LEMMA ThresholdsBuiltHold ==
    ASSUME SimInv, phase = "done"
    PROVE  ThresholdsBuilt(ThresholdEvents)
  <1>1. Roster
    BY DEF SimInv
  <1>2. /\ IsFiniteSet(EligiblePlayers)
        /\ \A p \in EligiblePlayers : Plays(p)
        /\ \A p, q \in EligiblePlayers : p.id = q.id => p = q
    <2>1. EligiblePlayers \subseteq squad /\ IsFiniteSet(squad)
      BY <1>1, EligibleAre
    <2>. QED
      BY <1>1, <2>1, EligibleAre, FS_Subset
  <1>3. ASSUME NEW e \in ThresholdEvents, NEW f \in ThresholdEvents,
               e.player = f.player, e.stat = f.stat, e.threshold < f.threshold
        PROVE  f.hit <= e.hit
    <2>1. PICK p \in EligiblePlayers : \E l \in Catalog.ladders :
              \E i \in DOMAIN l.values : e = EventRow(p, l, i)
      BY EventsAre
    <2>2. PICK l \in Catalog.ladders : \E i \in DOMAIN l.values : e = EventRow(p, l, i)
      BY <2>1
    <2>3. PICK i \in DOMAIN l.values : e = EventRow(p, l, i)
      BY <2>2
    <2>4. PICK q \in EligiblePlayers : \E m \in Catalog.ladders :
              \E j \in DOMAIN m.values : f = EventRow(q, m, j)
      BY EventsAre
    <2>5. PICK m \in Catalog.ladders : \E j \in DOMAIN m.values : f = EventRow(q, m, j)
      BY <2>4
    <2>6. PICK j \in DOMAIN m.values : f = EventRow(q, m, j)
      BY <2>5
    <2>7. p = q /\ l = m
      <3>1. p.id = q.id /\ l.stat = m.stat
        BY <1>3, <2>3, <2>6 DEF EventRow
      <3>. QED
        BY <1>2, <3>1, LaddersAre
    <2>. DEFINE v == SourceVector(p, l.stat)
                low == l.values[i]
                high == l.values[j]
                A == {d \in Draws : v[d] >= low}
                B == {d \in Draws : v[d] >= high}
    <2>8. e.hit = Cardinality(A) /\ f.hit = Cardinality(B)
          /\ e.threshold = low /\ f.threshold = high
      BY <2>3, <2>6, <2>7 DEF EventRow, AtLeastHit, Count
    <2>9. low \in Int /\ high \in Int /\ low < high
      <3>1. low \in Int /\ high \in Int
        BY <2>7, LaddersAre
      <3>. QED
        BY <1>3, <2>8, <3>1
    <2>10. \A d \in Draws : v[d] \in Int
      BY <1>2, SourceVectorInt
    <2>. HIDE DEF v, low, high
    <2>11. B \subseteq A /\ A \subseteq Draws
      BY <2>9, <2>10
    <2>. HIDE DEF A, B
    <2>12. IsFiniteSet(A)
      BY <2>11, DrawsAre, FS_Subset
    <2>13. Cardinality(B) <= Cardinality(A)
      BY <2>11, <2>12, FS_Subset
    <2>. QED
      BY <2>8, <2>13
  <1>4. Cardinality(ThresholdEvents) = Cardinality(EligiblePlayers) * EventCount(Catalog)
    <2>. DEFINE D == EligiblePlayers \X Rungs
    <2>1. IsFiniteSet(D) /\ Cardinality(D) = Cardinality(EligiblePlayers) * EventCount(Catalog)
      BY <1>2, RungsCounted, FS_Product
    <2>2. ASSUME NEW x \in D, NEW y \in D, EventAt[x] = EventAt[y]
          PROVE  x = y
      <3>1. PICK l \in Catalog.ladders : x[2] \in {l} \X DOMAIN l.values
        BY DEF Rungs
      <3>2. PICK m \in Catalog.ladders : y[2] \in {m} \X DOMAIN m.values
        BY DEF Rungs
      <3>3. EventAt[x] = EventRow(x[1], l, x[2][2]) /\ EventAt[y] = EventRow(y[1], m, y[2][2])
        BY <3>1, <3>2 DEF EventAt
      <3>a. EventRow(x[1], l, x[2][2]) = EventRow(y[1], m, y[2][2])
        BY <2>2, <3>3
      <3>4. x[1].id = y[1].id /\ l.stat = m.stat /\ l.values[x[2][2]] = m.values[y[2][2]]
        BY <3>a, EventRowIs
      <3>5. x[1] = y[1]
        BY <1>2, <3>4
      <3>6. l = m
        BY <3>4, LaddersAre
      <3>7. x[2][2] = y[2][2]
        BY <3>1, <3>2, <3>4, <3>6, LaddersAre
      <3>8. x[2] = <<l, x[2][2]>> /\ y[2] = <<l, y[2][2]>>
        BY <3>1, <3>2, <3>6
      <3>9. x[2] = y[2]
        BY <3>7, <3>8
      <3>. QED
        BY <3>5, <3>9
    <2>. HIDE DEF D
    <2>3. Cardinality({EventAt[x] : x \in D}) = Cardinality(D)
      BY <2>1, <2>2, InjectiveImage
    <2>. QED
      BY <2>1, <2>3, EventsAre DEF D
  <1>. QED
    BY <1>3, <1>4 DEF ThresholdsBuilt

-----------------------------------------------------------------------------
(* The other products. *)

\* A line and a chance to hit, counted from the values and from the PMF.
LEMMA SummarizeIs ==
    ASSUME SimInv, phase = "done", NEW p, Plays(p), NEW prop \in PropNames, NEW line
    PROVE  LET chance == SummarizeProp(p, prop, line)
               pmf == RawPMF(p, prop)
               atLine == LineProbabilities(pmf, line)
           IN  /\ prop \in AtLeastHitProps => chance.hit = Mass(pmf, DOMAIN pmf \ {0})
               /\ prop \notin AtLeastHitProps =>
                      chance.over = atLine.over /\ chance.under = atLine.under
                          /\ chance.push = atLine.push
  <1>. DEFINE w == PropValues(p, prop)
              v == CanonicalValues(p, prop)
              O == DOMAIN Counted(v)
  <1>1. /\ RawPMF(p, prop) = Counted(v)
        /\ \A d \in Draws : w[d] \in Int /\ v[d] \in Int /\ v[d] \in O
    BY ValuesAre, CountedIs
  <1>2. ASSUME prop \in AtLeastHitProps
        PROVE  SummarizeProp(p, prop, line).hit = Mass(Counted(v), O \ {0})
    <2>1. SummarizeProp(p, prop, line).hit = Cardinality({d \in Draws : w[d] >= 1})
      BY <1>2 DEF SummarizeProp, Count
    <2>2. ASSUME NEW d \in Draws
          PROVE  v[d] # 0 <=> w[d] >= 1
      <3>1. CASE prop \in CollapsedProps
        BY <3>1 DEF CanonicalValues, Hit
      <3>2. CASE prop \notin CollapsedProps
        <4>1. prop = "first_td"
          BY <1>2, <3>2 DEF AtLeastHitProps
        <4>2. w[d] = IF first[d] = p.id THEN 1 ELSE 0
          BY <4>1, FirstHalfNames DEF PropValues, PropValue, TouchdownProps
        <4>3. v[d] = w[d]
          BY <3>2 DEF CanonicalValues
        <4>. QED
          BY <4>2, <4>3
      <3>. QED
        BY <3>1, <3>2
    <2>3. Mass(Counted(v), O \ {0}) = Cardinality({d \in Draws : v[d] \in O \ {0}})
      BY MassIs
    <2>. HIDE DEF v, w, O
    <2>4. {d \in Draws : v[d] \in O \ {0}} = {d \in Draws : w[d] >= 1}
      BY <1>1, <2>2
    <2>. QED
      BY <2>1, <2>3, <2>4
  <1>3. ASSUME prop \notin AtLeastHitProps
        PROVE  /\ SummarizeProp(p, prop, line).over = Mass(Counted(v), {o \in O : 2 * o > line})
               /\ SummarizeProp(p, prop, line).under = Mass(Counted(v), {o \in O : 2 * o < line})
               /\ SummarizeProp(p, prop, line).push = Mass(Counted(v), {o \in O : 2 * o = line})
    <2>1. v = w
      BY <1>3 DEF CanonicalValues, AtLeastHitProps
    <2>2. /\ SummarizeProp(p, prop, line).over = Cardinality({d \in Draws : 2 * w[d] > line})
          /\ SummarizeProp(p, prop, line).under = Cardinality({d \in Draws : 2 * w[d] < line})
          /\ SummarizeProp(p, prop, line).push = Cardinality({d \in Draws : 2 * w[d] = line})
      BY <1>3 DEF SummarizeProp, Count
    <2>3. ASSUME NEW S \in SUBSET O
          PROVE  Mass(Counted(v), S) = Cardinality({d \in Draws : v[d] \in S})
      BY MassIs
    <2>. HIDE DEF v, w, O
    <2>4. /\ {d \in Draws : v[d] \in {o \in O : 2 * o > line}} = {d \in Draws : 2 * w[d] > line}
          /\ {d \in Draws : v[d] \in {o \in O : 2 * o < line}} = {d \in Draws : 2 * w[d] < line}
          /\ {d \in Draws : v[d] \in {o \in O : 2 * o = line}} = {d \in Draws : 2 * w[d] = line}
      BY <1>1, <2>1
    <2>5. /\ {o \in O : 2 * o > line} \in SUBSET O /\ {o \in O : 2 * o < line} \in SUBSET O
          /\ {o \in O : 2 * o = line} \in SUBSET O
      OBVIOUS
    <2>6. /\ Mass(Counted(v), {o \in O : 2 * o > line})
                 = Cardinality({d \in Draws : 2 * w[d] > line})
          /\ Mass(Counted(v), {o \in O : 2 * o < line})
                 = Cardinality({d \in Draws : 2 * w[d] < line})
          /\ Mass(Counted(v), {o \in O : 2 * o = line})
                 = Cardinality({d \in Draws : 2 * w[d] = line})
      BY <2>3, <2>4, <2>5
    <2>. QED
      BY <2>2, <2>6
  <1>. QED
    BY <1>1, <1>2, <1>3 DEF LineProbabilities

\* A row is of a supported quote: nobody is offered a line on a prop that is
\* only hit or missed, nor a milestone on another.
LEMMA PricesAre ==
    ASSUME NEW row \in PriceCurrentMarkets
    PROVE  LET chance == SummarizeProp(row.player, row.quote.prop, row.quote.line)
           IN  /\ row.player \in Simulated
               /\ \/ /\ row.side = "hit" /\ row.win = chance.hit
                     /\ row.quote.prop \in AtLeastHitProps
                  \/ /\ row.quote.prop \notin AtLeastHitProps /\ row.push = chance.push
                     /\ \/ row.side = "over" /\ row.win = chance.over
                        \/ row.side = "under" /\ row.win = chance.under
  <1>1. PICK x \in Simulated \X SupportedQuotes : row \in PriceQuote(x[1], x[2])
    BY DEF PriceCurrentMarkets
  <1>. DEFINE p == x[1]
              quote == x[2]
              chance == SummarizeProp(p, quote.prop, quote.line)
              made(side, win) == [quote |-> quote, player |-> p, side |-> side, win |-> win,
                                  push |-> chance.push]
  <1>2. p \in Simulated /\ quote \in SupportedQuotes
    OBVIOUS
  <1>3. quote.market = "milestone" => quote.prop \in AtLeastHitProps
    <2>1. PICK q \in Quotes : Supported(q) /\ quote = [q EXCEPT !.line =
                                  IF q.market = "milestone" THEN NoLine ELSE @]
      BY <1>2 DEF SupportedQuotes
    <2>2. q \in [player : Nat, prop : STRING, market : STRING, line : Int, odds : BOOLEAN]
      BY QuotesAssumption
    <2>3. quote.market = q.market /\ quote.prop = q.prop
      BY <2>1, <2>2
    <2>. QED
      BY <2>1, <2>3 DEF Supported
  <1>4. \/ row = made("hit", chance.hit) /\ quote.prop \in AtLeastHitProps
        \/ /\ quote.prop \notin AtLeastHitProps
           /\ row \in {made("over", chance.over), made("under", chance.under)}
    BY <1>1, <1>3 DEF PriceQuote
  <1>. HIDE DEF p, quote, chance
  <1>5. row.quote = quote /\ row.player = p /\ row.push = chance.push
    BY <1>4
  <1>6. \/ row.side = "hit" /\ row.win = chance.hit /\ quote.prop \in AtLeastHitProps
        \/ /\ quote.prop \notin AtLeastHitProps
           /\ \/ row.side = "over" /\ row.win = chance.over
              \/ row.side = "under" /\ row.win = chance.under
    BY <1>4
  <1>. QED
    BY <1>2, <1>5, <1>6 DEF chance

\* A row says of its quote what the PMF says.
LEMMA RowsAre ==
    ASSUME SimInv, phase = "done", NEW row \in PriceCurrentMarkets,
           row.quote.prop \in PropNames
    PROVE  LET pmf == RawPMF(row.player, row.quote.prop)
               chance == LineProbabilities(pmf, row.quote.line)
           IN  /\ row.side = "hit" => row.win = Mass(pmf, DOMAIN pmf \ {0})
               /\ row.side = "over" => row.win = chance.over
               /\ row.side = "under" => row.win = chance.under
               /\ row.side # "hit" => row.push = chance.push
  <1>. DEFINE p == row.player
              prop == row.quote.prop
              line == row.quote.line
              mine == SummarizeProp(p, prop, line)
              pmf == RawPMF(p, prop)
              chance == LineProbabilities(pmf, line)
  <1>1. /\ p \in Simulated
        /\ \/ row.side = "hit" /\ row.win = mine.hit /\ prop \in AtLeastHitProps
           \/ /\ prop \notin AtLeastHitProps /\ row.push = mine.push
              /\ \/ row.side = "over" /\ row.win = mine.over
                 \/ row.side = "under" /\ row.win = mine.under
    BY PricesAre
  <1>2. Plays(p)
    BY <1>1, EligibleAre DEF SimInv
  <1>3. /\ prop \in AtLeastHitProps => mine.hit = Mass(pmf, DOMAIN pmf \ {0})
        /\ prop \notin AtLeastHitProps =>
               mine.over = chance.over /\ mine.under = chance.under /\ mine.push = chance.push
    <2>. HIDE DEF p, prop, line
    <2>. QED
      BY <1>2, SummarizeIs DEF prop
  <1>. HIDE DEF mine, chance, pmf
  <1>4. /\ row.side = "hit" => row.win = Mass(pmf, DOMAIN pmf \ {0})
        /\ row.side = "over" => row.win = chance.over
        /\ row.side = "under" => row.win = chance.under
        /\ row.side # "hit" => row.push = chance.push
    BY <1>1, <1>3
  <1>. QED
    BY <1>4 DEF chance, pmf

\* All that is said of a prop is what its PMF says.
LEMMA SameAsPMFHolds ==
    ASSUME SimInv, phase = "done", NEW p \in EligiblePlayers, NEW prop \in Stats
    PROVE  SameAsPMF(p, prop, ThresholdEvents, PriceCurrentMarkets)
  <1>. DEFINE v == CanonicalValues(p, prop)
              pmf == RawPMF(p, prop)
              summary == Projection(p, prop)
  <1>1. /\ p \in squad /\ p \in Simulated /\ Plays(p)
        /\ \A q \in EligiblePlayers : p.id = q.id => p = q
    BY EligibleAre DEF SimInv
  <1>2. prop \in PropNames /\ DerivedInputs(Catalog, prop) = {}
    BY DerivedAre
  <1>3. /\ pmf = Counted(v) /\ Extract(p, prop) = v
        /\ \A d \in Draws : v[d] \in Int
    BY <1>1, <1>2, ValuesAre
  <1>4. /\ summary.mean = Mean(v)
        /\ \A q \in Percentiles : summary.at[q] = EmpiricalQuantile(Ordered(v), q)
    BY <1>3 DEF Projection, Summary
  <1>. HIDE DEF v, pmf, summary
  <1>5. summary.mean = PMFMean(pmf)
    BY <1>3, <1>4, MeanIs
  <1>6. \A q \in Percentiles : summary.at[q] = InverseCDF(pmf, q)
    <2>1. Percentiles \subseteq 1..100
      BY DEF Percentiles
    <2>. QED
      BY <1>3, <1>4, <2>1, QuantileIs
  <1>7. Decodes(EncodePMF(pmf)) /\ DecodePMF(EncodePMF(pmf)) = pmf
    BY <1>3, EncodeIs
  <1>8. ASSUME NEW e \in ThresholdEvents, e.player = p.id, e.stat = prop
        PROVE  e.hit = Mass(pmf, {o \in DOMAIN pmf : o >= e.threshold})
    <2>1. PICK q \in EligiblePlayers : \E l \in Catalog.ladders :
              \E i \in DOMAIN l.values : e = EventRow(q, l, i)
      BY EventsAre
    <2>2. PICK l \in Catalog.ladders : \E i \in DOMAIN l.values : e = EventRow(q, l, i)
      BY <2>1
    <2>3. PICK i \in DOMAIN l.values : e = EventRow(q, l, i)
      BY <2>2
    <2>4. /\ e.player = q.id /\ e.stat = l.stat /\ e.threshold = l.values[i]
          /\ e.hit = AtLeastHit(SourceVector(q, l.stat), l.values[i])
      BY <2>3, EventRowIs
    <2>5. q = p /\ l.stat = prop
      BY <1>1, <1>8, <2>4
    <2>6. SourceVector(p, prop) = v
      BY <1>2, <1>3 DEF SourceVector
    <2>. DEFINE t == l.values[i]
                S == {o \in DOMAIN pmf : o >= t}
    <2>7. e.hit = Cardinality({d \in Draws : v[d] >= t}) /\ e.threshold = t
      BY <2>4, <2>5, <2>6 DEF AtLeastHit, Count
    <2>8. Mass(pmf, S) = Cardinality({d \in Draws : v[d] \in S})
      BY <1>3, MassIs
    <2>. HIDE DEF t
    <2>9. {d \in Draws : v[d] \in S} = {d \in Draws : v[d] >= t}
      BY <1>3, CountedIs
    <2>. QED
      BY <2>7, <2>8, <2>9
  <1>9. ASSUME NEW row \in PriceCurrentMarkets, row.player = p, row.quote.prop = prop
        PROVE  LET chance == LineProbabilities(pmf, row.quote.line)
               IN  /\ row.side = "hit" => row.win = Mass(pmf, DOMAIN pmf \ {0})
                   /\ row.side = "over" => row.win = chance.over
                   /\ row.side = "under" => row.win = chance.under
                   /\ row.side # "hit" => row.push = chance.push
    BY <1>2, <1>9, RowsAre DEF pmf
  <1>. QED
    BY <1>5, <1>6, <1>7, <1>8, <1>9 DEF SameAsPMF, pmf, summary

\* The halves are the game: no period is left out, the overtime included.
LEMMA HalvesAddUp ==
    ASSUME SimInv, phase = "done", NEW p, Plays(p), NEW d \in Draws
    PROVE  PropValue(p, "anytime_td", d) = PropValue(p, "anytime_td_1h", d)
                                               + PropValue(p, "anytime_td_2h", d)
  <1>. DEFINE side == p.team
              Q == PeriodsOf(d)
              received == PlayerRow(side, d, "receiving_tds", p.id)
              rushed == PlayerRow(side, d, "rushing_tds", p.id)
              scored == [q \in Q |-> TouchdownsIn(side, d, q, p.id)]
              before == [q \in FirstHalf |-> TouchdownsIn(side, d, q, p.id)]
              after == [q \in Q \ FirstHalf |-> TouchdownsIn(side, d, q, p.id)]
  <1>1. /\ side \in Sides /\ p.id \in Ids(side)
        /\ LinesHeld /\ IsFiniteSet(Q) /\ FirstHalf \subseteq Q /\ IsFiniteSet(FirstHalf)
    BY FinishedIs DEF Plays
  <1>2. /\ PropValue(p, "anytime_td", d) = PlayerTotal(side, d, "receiving_tds", p.id)
                                               + PlayerTotal(side, d, "rushing_tds", p.id)
        /\ PropValue(p, "anytime_td_1h", d) = Total(before, FirstHalf)
        /\ PropValue(p, "anytime_td_2h", d) = Total(after, Q \ FirstHalf)
    BY FirstHalfNames DEF PropValue, TouchdownProps, FirstHalfPeriods, SecondHalf
  <1>3. /\ PlayerTotal(side, d, "receiving_tds", p.id) = Total(received, Q)
        /\ PlayerTotal(side, d, "rushing_tds", p.id) = Total(rushed, Q)
        /\ \A q \in Q : received[q] \in Int /\ rushed[q] \in Int
    <2>1. /\ "receiving_tds" \in CountStats \cup YardStats /\ "receiving_tds" \in Summed
          /\ "rushing_tds" \in CountStats \cup YardStats /\ "rushing_tds" \in Summed
      BY DEF CountStats, YardStats, Longest, Summed
    <2>. QED
      BY <1>1, <2>1, PlayerRows
  <1>4. \A q \in Q : scored[q] = received[q] + rushed[q]
    BY DEF TouchdownsIn, PlayerRow
  <1>5. /\ \A q \in FirstHalf : before[q] = scored[q]
        /\ \A q \in Q \ FirstHalf : after[q] = scored[q]
    BY <1>1
  <1>. HIDE DEF side, Q, received, rushed, scored, before, after
  <1>6. \A q \in Q : scored[q] \in Int
    BY <1>3, <1>4
  <1>7. Total(scored, Q) = Total(received, Q) + Total(rushed, Q)
    BY <1>1, <1>3, <1>4, TotalPlus
  <1>. DEFINE rest == Q \ FirstHalf
  <1>8. IsFiniteSet(rest) /\ FirstHalf \cap rest = {} /\ FirstHalf \cup rest = Q
    BY <1>1, FS_Subset
  <1>. HIDE DEF rest
  <1>9. Total(scored, FirstHalf \cup rest) = Total(scored, FirstHalf) + Total(scored, rest)
    BY <1>1, <1>6, <1>8, TotalUnion
  <1>10. Total(before, FirstHalf) = Total(scored, FirstHalf)
    BY <1>1, <1>5, <1>6, TotalSame
  <1>11. Total(after, rest) = Total(scored, rest)
    BY <1>5, <1>6, <1>8, TotalSame DEF rest
  <1>. QED
    BY <1>2, <1>3, <1>7, <1>8, <1>9, <1>10, <1>11 DEF rest

\* The starter the simulation chose among all it lists, where he is a player,
\* is the one chosen among the players alone.
LEMMA SameStarter ==
    ASSUME Roster, NEW side \in Sides, NEW position,
           Starter(players[side], position) \in Nat \ {0}
    PROVE  Starter(InOrder(ActiveOf(side)), position) = Starter(players[side], position)
  <1>. DEFINE long == players[side]
              short == InOrder(ActiveOf(side))
              n == Cardinality(ActiveOf(side))
  <1>a. /\ n \in Nat /\ DOMAIN long = 1..(IF HasQB(side) THEN n + 1 ELSE n + 2)
        /\ \A i \in 1..n : long[i] = short[i]
        /\ long[n + 1] = Other(side)
        /\ ~HasQB(side) => long[n + 2] = NoNameQB(side)
    BY PlayersAre
  <1>b. Other(side).id = OtherId(side) /\ NoNameQB(side).id = NoNameId(side)
    BY DEF Other, NoNameQB, OtherId, NoNameId
  <1>1. /\ n \in Nat /\ DOMAIN long = 1..(IF HasQB(side) THEN n + 1 ELSE n + 2)
        /\ \A i \in 1..n : long[i] = short[i]
        /\ long[n + 1].id = OtherId(side)
        /\ ~HasQB(side) => long[n + 2].id = NoNameId(side)
    <2>. HIDE DEF long, short, n
    <2>. QED
      BY <1>a, <1>b
  <1>2. DOMAIN short = 1..n
    <2>1. Numbered(ActiveOf(side))
      BY ActiveNumbered
    <2>. QED
      BY <2>1, InOrderLists DEF Lists
  <1>3. Comparable(long) /\ Comparable(short)
    BY PlayersComparable
  <1>. HIDE DEF long, short, n
  <1>4. CandidatesAt(long, position) # {}
    BY <1>3, StarterIs DEF long
  <1>5. PICK i : Best(long, position, i)
    BY <1>3, <1>4, StarterIs
  <1>6. Starter(long, position) = long[i].id /\ i \in DOMAIN long
    BY <1>3, <1>5, StarterIs DEF Best, CandidatesAt
  <1>7. i \in 1..n
    <2>1. i # n + 1 /\ (~HasQB(side) => i # n + 2)
      BY <1>1, <1>6 DEF OtherId, NoNameId, long
    <2>2. i \in Int
      BY <1>1, <1>6
    <2>. QED
      BY <1>1, <1>6, <2>1, <2>2
  <1>8. \A j \in CandidatesAt(short, position) :
            j \in CandidatesAt(long, position) /\ long[j] = short[j]
    <2>1. \A j \in 1..n : j \in DOMAIN long
      BY <1>1
    <2>. QED
      BY <1>1, <1>2, <2>1 DEF CandidatesAt
  <1>9. i \in CandidatesAt(short, position)
    BY <1>1, <1>2, <1>5, <1>7 DEF Best, CandidatesAt
  <1>10. Best(short, position, i)
    <2>1. ASSUME NEW j \in CandidatesAt(short, position) \ {i}
          PROVE  StarterBefore(short, position, i, j)
      <3>1. StarterBefore(long, position, i, j)
        BY <1>5, <1>8 DEF Best
      <3>. QED
        BY <1>8, <1>9, <3>1 DEF StarterBefore
    <2>. QED
      BY <1>9, <2>1 DEF Best
  <1>11. Starter(short, position) = short[i].id
    BY <1>3, <1>10, StarterIs
  <1>. QED
    BY <1>1, <1>6, <1>7, <1>11 DEF long, short

\* Who is given the ball as the only one of his team is projected.
LEMMA StartersProjected ==
    ASSUME SimInv, phase = "done", NEW p \in Simulated, NEW d \in Draws,
           \/ PlayerTotal(p.team, d, "passing_attempts", p.id) > 0
           \/ PlayerTotal(p.team, d, "fg_attempts", p.id) > 0
    PROVE  p \in EligiblePlayers
  <1>. DEFINE side == p.team
  <1>1. /\ Roster /\ LinesHeld
        /\ p \in ActiveOf(side) /\ side \in Sides /\ p.id \in Ids(side) /\ p.id \in Nat \ {0}
    BY EligibleAre DEF SimInv, Plays
  <1>2. "passing_attempts" \in CountStats /\ "fg_attempts" \in CountStats
    BY DEF CountStats
  <1>3. PICK position \in {"QB", "K"} : p.id = Starter(players[side], position)
    <2>1. CASE PlayerTotal(side, d, "passing_attempts", p.id) > 0
      <3>1. PICK q \in PeriodsOf(d) : lines[d][q][side].of["passing_attempts"][p.id] > 0
        BY <1>1, <1>2, <2>1, PlayerCounts
      <3>2. QuarterbackHas(side, lines[d][q][side])
        BY <1>1, PeriodsAre DEF LineFacts
      <3>a. ThrownBy(side, lines[d][q][side], "passing_attempts", lines[d][q][side].attempts)
        BY <3>2 DEF QuarterbackHas
      <3>b. p.id # Starter(players[side], "QB")
                => lines[d][q][side].of["passing_attempts"][p.id] = 0
        BY <1>1, <3>a DEF ThrownBy
      <3>3. p.id = Starter(players[side], "QB")
        BY <3>1, <3>b
      <3>. QED
        BY <3>3
    <2>2. CASE PlayerTotal(side, d, "fg_attempts", p.id) > 0
      <3>1. PICK q \in PeriodsOf(d) : lines[d][q][side].of["fg_attempts"][p.id] > 0
        BY <1>1, <1>2, <2>2, PlayerCounts
      <3>2. QuarterbackHas(side, lines[d][q][side])
        BY <1>1, PeriodsAre DEF LineFacts
      <3>3. p.id = Starter(players[side], "K")
        BY <1>1, <3>1, <3>2 DEF QuarterbackHas
      <3>. QED
        BY <3>3
    <2>. QED
      BY <2>1, <2>2
  <1>4. Starter(InOrder(ActiveOf(side)), position) = p.id
    BY <1>1, <1>3, SameStarter
  <1>5. p.id \in SelectedStarters
    BY <1>1, <1>3, <1>4 DEF SelectedStarters
  <1>. QED
    BY <1>1, <1>5 DEF EligiblePlayers, ActiveOf

\* The products of a simulation agree: projections, thresholds, prices and the
\* stored payload with the PMF, the halves with the game, and the players who
\* are projected with those who were given the ball.
THEOREM ProductsAgreeHolds == Spec => []ProductsAgree
  <1>1. SimInv => ProductsAgree
    <2>. SUFFICES ASSUME SimInv, phase = "done"
                  PROVE  ProductsAgree
      BY DEF ProductsAgree
    <2>1. ThresholdsBuilt(ThresholdEvents)
      BY ThresholdsBuiltHold
    <2>2. ASSUME NEW p \in EligiblePlayers
          PROVE  /\ \A prop \in Stats :
                        SameAsPMF(p, prop, ThresholdEvents, PriceCurrentMarkets)
                 /\ \A d \in Draws :
                        PropValue(p, "anytime_td", d) = PropValue(p, "anytime_td_1h", d)
                                                            + PropValue(p, "anytime_td_2h", d)
      <3>1. Plays(p)
        BY EligibleAre DEF SimInv
      <3>. QED
        BY <3>1, SameAsPMFHolds, HalvesAddUp
    <2>3. ASSUME NEW p \in Simulated, NEW d \in Draws,
                 PlayerTotal(p.team, d, "passing_attempts", p.id) > 0
                     \/ PlayerTotal(p.team, d, "fg_attempts", p.id) > 0
          PROVE  p \in EligiblePlayers
      BY <2>3, StartersProjected
    <2>. QED
      BY <2>1, <2>2, <2>3 DEF ProductsAgree
  <1>. QED
    BY <1>1, SimulationHolds, PTL
=============================================================================
