-------------------------- MODULE ForecastProducts --------------------------
(***************************************************************************)
(* The products read from one finished simulation: prop values             *)
(* (simulation/props.py), projections (projections/), threshold events     *)
(* (thresholds/), exact PMFs and their stored encoding (distributions/),   *)
(* and the price of a quote (market/current_pricing.py).  Each module      *)
(* counts the draws with code of its own; nothing compares the results.    *)
(*                                                                         *)
(* Probabilities are counts of draws, quantile levels are percents, and    *)
(* lines are doubled, so that a line of one and a half is 3.               *)
(***************************************************************************)
EXTENDS SimulationInvariants

CONSTANTS
    Stats,       \* the registry's statistics that are looked at
    Catalog,     \* the threshold catalog as it is shipped
    Quotes       \* what the books offer on the players of the game

(***************************************************************************)
(* Values of a prop, draw by draw (simulation/props.py)                    *)
(***************************************************************************)
Column(side, d, name, p) ==
    LET total(column) == PlayerTotal(side, d, column, p)
    IN  CASE name = "kicking_points" -> 3 * total("fg_made") + total("xp_made")
          [] name = "rushing_receiving_yards" ->
                 total("rushing_yards") + total("receiving_yards")
          [] OTHER -> total(name)

FirstHalf == 1..(Quarters \div 2)

FirstHalfOf ==
    [passing_yards_1h |-> "passing_yards", passing_tds_1h |-> "passing_tds",
     receiving_yards_1h |-> "receiving_yards", rushing_yards_1h |-> "rushing_yards",
     fg_made_1h |-> "fg_made"]

\* Periods a touchdown prop of a part of the game counts.
FirstQuarter(d) == {1}
FirstHalfPeriods(d) == FirstHalf

\* Mutant: the second half ends with the last quarter.
SecondHalfOfQuarters(d) == (1..Quarters) \ FirstHalf

\* The settlement policy: the second half includes the overtime.
SecondHalf(d) == PeriodsOf(d) \ FirstHalf

TouchdownProps == {"anytime_td_1q", "anytime_td_1h", "anytime_td_2h"}
CollapsedProps == {"anytime_td"} \cup TouchdownProps
AtLeastHitProps == CollapsedProps \cup {"first_td"}

\* The registry: a player's columns, and what is counted from them.
PropNames ==
    {"targets", "receptions", "receiving_yards", "receiving_tds", "longest_reception",
     "rush_attempts", "rushing_yards", "rushing_tds", "longest_rush", "passing_attempts",
     "passing_completions", "passing_yards", "passing_tds", "interceptions", "longest_pass",
     "fg_attempts", "fg_made", "xp_made", "kicking_points", "rushing_receiving_yards"}
    \cup DOMAIN FirstHalfOf \cup AtLeastHitProps

ASSUME StatsAssumption == Stats \subseteq PropNames

\* prop_values, for one draw.
PropValue(p, prop, d) ==
    LET window == CASE prop = "anytime_td_1q" -> FirstQuarter(d)
                    [] prop = "anytime_td_1h" -> FirstHalfPeriods(d)
                    [] OTHER -> SecondHalf(d)
    IN  CASE prop \in DOMAIN FirstHalfOf ->
                 Total([q \in FirstHalf |-> In(p.team, d, q, FirstHalfOf[prop], p.id)], FirstHalf)
          [] prop \in TouchdownProps ->
                 Total([q \in window |-> TouchdownsIn(p.team, d, q, p.id)], window)
          [] prop = "anytime_td" ->
                 PlayerTotal(p.team, d, "receiving_tds", p.id)
                     + PlayerTotal(p.team, d, "rushing_tds", p.id)
          [] prop = "first_td" -> IF first[d] = p.id THEN 1 ELSE 0
          [] OTHER -> Column(p.team, d, prop, p.id)

PropValues(p, prop) == [d \in Draws |-> PropValue(p, prop, d)]

Hit(values) == [d \in Draws |-> IF values[d] >= 1 THEN 1 ELSE 0]
Count(values, Test(_)) == Cardinality({d \in Draws : Test(values[d])})

\* summarize_prop: a yes-or-no prop has a chance to hit, others have a line.
SummarizeProp(p, prop, line) ==
    LET values == PropValues(p, prop)
        none == [over |-> 0, under |-> 0, push |-> 0, hit |-> 0]
    IN  IF prop \in AtLeastHitProps
        THEN [none EXCEPT !.hit = Count(values, LAMBDA v : v >= 1)]
        ELSE [none EXCEPT !.over = Count(values, LAMBDA v : 2 * v > line),
                          !.under = Count(values, LAMBDA v : 2 * v < line),
                          !.push = Count(values, LAMBDA v : 2 * v = line)]

(***************************************************************************)
(* Who is projected, and the projections (projections/)                    *)
(***************************************************************************)
\* The quarterback and the kicker the simulation would choose, of real players.
SelectedStarters ==
    UNION {{Starter(InOrder(ActiveOf(side)), position) : position \in {"QB", "K"}} :
              side \in Sides}

\* Mutant: players without a share are not projected, starters or not.
SharesOnly == {p \in squad : p.active /\ p.shares}

EligiblePlayers ==
    {p \in squad : p.active /\ (p.shares \/ p.id \in SelectedStarters)}

\* The registry's extractor: a yes-or-no statistic is collapsed.
Extract(p, stat) ==
    IF stat \in CollapsedProps THEN Hit(PropValues(p, stat)) ELSE PropValues(p, stat)

Mean(values) == Total(values, Draws)        \* times n_draws

\* A stable sort: equal values stay as the draws are.
Sorting(values) ==
    CHOOSE order \in [Draws -> Draws] :
        \A i, j \in Draws : i < j =>
            \/ values[order[i]] < values[order[j]]
            \/ values[order[i]] = values[order[j]] /\ order[i] < order[j]
Ordered(values) ==
    LET order == Sorting(values) IN [i \in Draws |-> values[order[i]]]

\* The ceil(q * n)-th smallest value.
EmpiricalQuantile(ordered, percent) ==
    LET index == (percent * NDraws + 99) \div 100
    IN  ordered[Max({1, Min({NDraws, index})})]

Percentiles == {5, 10, 25, 50, 75, 90, 95}
Summary(values) ==
    LET ordered == Ordered(values)
    IN  [mean |-> Mean(values),
         at |-> [q \in Percentiles |-> EmpiricalQuantile(ordered, q)]]

Projection(p, stat) == Summary(Extract(p, stat))

(***************************************************************************)
(* Threshold events (thresholds/)                                          *)
(***************************************************************************)
DerivedInputs(catalog, stat) ==
    UNION {derived.inputs : derived \in {s \in catalog.derived : s.stat = stat}}

Ascending(values) ==
    \A i \in 1..(Len(values) - 1) : values[i] < values[i + 1]

EventCount(catalog) == Total([l \in catalog.ladders |-> Len(l.values)], catalog.ladders)

\* parse_threshold_catalog: anything else is refused when it is loaded.
ValidCatalog(catalog) ==
    LET names == {s.stat : s \in catalog.derived}
    IN  /\ catalog.event = "AT_LEAST"
        /\ IsFiniteSet(catalog.derived) /\ IsFiniteSet(catalog.ladders)
        /\ \A s \in catalog.derived :
               IsFiniteSet(s.inputs) /\ s.inputs # {} /\ s.inputs \subseteq Stats
        /\ catalog.ladders # {}
        /\ \A l \in catalog.ladders :
               /\ l.stat \in Stats \cup names
               /\ l.values \in Seq(Nat \ {0}) /\ l.values # <<>> /\ Ascending(l.values)
               /\ \A m \in catalog.ladders : l.stat = m.stat => l = m
        /\ catalog.expected = EventCount(catalog)

\* As it is shipped, no derived statistic has the name of one of the registry.
ASSUME CatalogAssumption ==
    /\ ValidCatalog(Catalog)
    /\ \A s \in Catalog.derived : s.stat \notin PropNames

\* A derived statistic is the sum of its inputs, draw by draw.
SourceVector(p, stat) ==
    IF DerivedInputs(Catalog, stat) = {} THEN Extract(p, stat)
    ELSE LET inputs == DerivedInputs(Catalog, stat)
         IN  [d \in Draws |-> Total([s \in inputs |-> Extract(p, s)[d]], inputs)]

AtLeastHit(values, threshold) == Count(values, LAMBDA v : v >= threshold)

ThresholdEvents ==
    LET Rungs(p, l) ==
            {[player |-> p.id, stat |-> l.stat, threshold |-> l.values[i],
              hit |-> AtLeastHit(SourceVector(p, l.stat), l.values[i])] : i \in DOMAIN l.values}
    IN  UNION {Rungs(x[1], x[2]) : x \in EligiblePlayers \X Catalog.ladders}

\* The builder refuses a ladder whose chances rise, or rows that are missing.
ThresholdsBuilt(events) ==
    /\ \A e, f \in events :
           e.player = f.player /\ e.stat = f.stat /\ e.threshold < f.threshold
               => f.hit <= e.hit
    /\ Cardinality(events) = Cardinality(EligiblePlayers) * EventCount(Catalog)

(***************************************************************************)
(* Exact PMFs (distributions/)                                             *)
(***************************************************************************)
CanonicalValues(p, prop) ==
    IF prop \in CollapsedProps THEN Hit(PropValues(p, prop)) ELSE PropValues(p, prop)

\* Outcome and how many draws have it.
RawPMF(p, prop) ==
    LET values == CanonicalValues(p, prop)
    IN  [o \in {values[d] : d \in Draws} |-> Count(values, LAMBDA v : v = o)]

Mass(pmf, S) == Total([o \in S |-> pmf[o]], S)
PMFMean(pmf) == Total([o \in DOMAIN pmf |-> o * pmf[o]], DOMAIN pmf)

\* The first outcome at which the cumulated mass reaches the level.
InverseCDF(pmf, percent) ==
    LET upTo(o) == Mass(pmf, {x \in DOMAIN pmf : x <= o})
    IN  Min({o \in DOMAIN pmf : 100 * upTo(o) >= percent * NDraws})

LineProbabilities(pmf, line) ==
    [over |-> Mass(pmf, {o \in DOMAIN pmf : 2 * o > line}),
     under |-> Mass(pmf, {o \in DOMAIN pmf : 2 * o < line}),
     push |-> Mass(pmf, {o \in DOMAIN pmf : 2 * o = line})]

Outcomes(pmf) ==
    CHOOSE list \in [1..Cardinality(DOMAIN pmf) -> DOMAIN pmf] : Ascending(list)

\* The stored payload: how many records, then the records by outcome.
EncodePMF(pmf) ==
    [count |-> Cardinality(DOMAIN pmf),
     records |-> [i \in 1..Cardinality(DOMAIN pmf) |->
                     LET o == Outcomes(pmf)[i] IN <<o, pmf[o]>>]]

\* A payload is refused unless its length, order and total are those of a PMF.
Decodes(payload) ==
    LET outcomes == [i \in DOMAIN payload.records |-> payload.records[i][1]]
    IN  /\ Len(payload.records) = payload.count /\ payload.count > 0
        /\ Ascending(outcomes)
        /\ \A i \in DOMAIN payload.records : payload.records[i][2] > 0
        /\ Total([i \in DOMAIN payload.records |-> payload.records[i][2]],
                 DOMAIN payload.records) = NDraws

DecodePMF(payload) ==
    [o \in {payload.records[i][1] : i \in DOMAIN payload.records} |->
        (CHOOSE r \in ToSet(payload.records) : r[1] = o)[2]]

(***************************************************************************)
(* Prices (market/current_pricing.py)                                      *)
(***************************************************************************)
NoLine == -1000
Markets == {"over_under", "milestone"}

\* A quote is of a player, known to the game or not; a line may be missing.
ASSUME QuotesAssumption ==
    Quotes \subseteq
        [player : Nat, prop : STRING, market : STRING, line : Int, odds : BOOLEAN]

\* partition_supported_quotes; a milestone loses its line, a half or none.
Supported(quote) ==
    /\ quote.market \in Markets /\ quote.prop \in Stats
    /\ quote.market = "milestone" =>
           quote.prop \in AtLeastHitProps /\ quote.line \in {NoLine, 1}
SupportedQuotes ==
    {[quote EXCEPT !.line = IF quote.market = "milestone" THEN NoLine ELSE @] :
        quote \in {q \in Quotes : Supported(q)}}

\* The players of the simulation, projected or not.
Simulated == {p \in squad : p.id \in UNION {Ids(side) : side \in Sides}}

\* A row for each side of a line, one for a milestone; none without both odds,
\* nor for the line of a prop that is only hit or missed.
PriceQuote(p, quote) ==
    LET chance == SummarizeProp(p, quote.prop, quote.line)
        row(side, win) == [quote |-> quote, player |-> p, side |-> side, win |-> win,
                           push |-> chance.push]
    IN  IF ~quote.odds THEN {}
        ELSE IF quote.market = "milestone" THEN {row("hit", chance.hit)}
        ELSE IF quote.prop \in AtLeastHitProps \/ quote.line = NoLine THEN {}
        ELSE {row("over", chance.over), row("under", chance.under)}

PriceCurrentMarkets ==
    UNION {PriceQuote(x[1], x[2]) :
              x \in {y \in Simulated \X SupportedQuotes : y[1].id = y[2].player}}

(***************************************************************************)
(* Properties                                                              *)
(***************************************************************************)
\* What the PMF of a prop says is what the other products say of it.
SameAsPMF(p, prop, events, prices) ==
    LET pmf == RawPMF(p, prop)
        summary == Projection(p, prop)
        stored == EncodePMF(pmf)
    IN  /\ summary.mean = PMFMean(pmf)
        /\ \A q \in Percentiles : summary.at[q] = InverseCDF(pmf, q)
        /\ Decodes(stored) /\ DecodePMF(stored) = pmf
        /\ \A e \in events :
               e.player = p.id /\ e.stat = prop =>
                   e.hit = Mass(pmf, {o \in DOMAIN pmf : o >= e.threshold})
        /\ \A row \in prices :
               row.player = p /\ row.quote.prop = prop =>
                   LET chance == LineProbabilities(pmf, row.quote.line)
                   IN  /\ row.side = "hit" => row.win = Mass(pmf, DOMAIN pmf \ {0})
                       /\ row.side = "over" => row.win = chance.over
                       /\ row.side = "under" => row.win = chance.under
                       /\ row.side # "hit" => row.push = chance.push

\* The products of a finished simulation agree with each other although each
\* is counted by code of its own: projections, thresholds and prices with the
\* PMF, the parts of a game with the game, and the projected players with
\* those who were given the ball as a team's only quarterback or kicker.
ProductsAgree ==
    phase = "done" =>
        LET events == ThresholdEvents
            prices == PriceCurrentMarkets
            eligible == EligiblePlayers
        IN
        /\ ThresholdsBuilt(events)
        /\ \A p \in eligible :
               /\ \A prop \in Stats : SameAsPMF(p, prop, events, prices)
               /\ \A d \in Draws :
                      PropValue(p, "anytime_td", d) = PropValue(p, "anytime_td_1h", d)
                                                          + PropValue(p, "anytime_td_2h", d)
        /\ \A p \in Simulated, d \in Draws :
               PlayerTotal(p.team, d, "passing_attempts", p.id) > 0
                   \/ PlayerTotal(p.team, d, "fg_attempts", p.id) > 0 => p \in eligible
=============================================================================
