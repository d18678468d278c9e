------------------------- MODULE PointInTimeProofs -------------------------
(***************************************************************************)
(* What is said of the past stands: the answers of the outcome history     *)
(* (AnswersStand), the market of a claim (ClaimKeepsItsMarket), the inputs *)
(* of a prediction (NoResultOfItsOwn), and what it is judged by            *)
(* (JudgedFairly), for every order in which collector, backfills, season   *)
(* ingests, claims and settlements meet, and every correction.             *)
(***************************************************************************)
EXTENDS PointInTime, FiniteSetTheorems, WellFoundedInduction, TLAPS

\* A fetched batch: one row for a game, true when it was received or estimated.
Fetched(b) ==
    /\ \A v \in b : /\ v = [game |-> v.game, says |-> v.says, at |-> v.at,
                            seen |-> v.seen, est |-> v.est]
                    /\ v.game \in Games /\ v.says # NoScore /\ v.at \in Nat /\ v.seen \in Nat
                    /\ v.est \in BOOLEAN /\ (v.est \/ v.at = v.seen)
    /\ \A v, w \in b : v.game = w.game => v = w

Versions ==
    /\ clock \in Nat
    /\ batch = [p \in Fetchers |-> batch[p]]
    /\ \A p \in Fetchers : batch[p] # None => Fetched(batch[p])
    /\ \A v \in outcomes : v.seen \in Nat /\ v.at \in Nat /\ v.says # NoScore

\* What a cycle received after a claim is of a later time than the claim's.
Market ==
    /\ clock \in Times /\ board \subseteq Lines
    /\ \A q \in quotes : q \in Quote
    /\ lock = Collector => \A q \in cycle.quotes : q \in Quote
    /\ claim # None =>
          /\ claim = [asOf |-> claim.asOf, manifest |-> claim.manifest, published |-> claim.published]
          /\ claim.asOf \in Nat /\ claim.asOf < clock
          /\ lock = Collector => \A q \in cycle.quotes : q.at > claim.asOf
    /\ ClaimKeepsItsMarket

Predicted ==
    /\ \A p \in preds : /\ p.asOf \in Nat /\ p.quotes \subseteq quotes
                        /\ \A q \in p.quotes : q.at <= p.asOf
    /\ NoResultOfItsOwn

PointInTimeInv == Versions /\ Market /\ Predicted /\ GradesFollowTheProvider

-----------------------------------------------------------------------------
(* The outcome history. *)

LEMMA BackfilledIsFetched ==
    ASSUME Versions
    PROVE  Fetched(Backfilled)
  <1>. DEFINE row(g) == [game |-> g, says |-> score[g], at |-> clock, seen |-> clock, est |-> FALSE]
  <1>1. \A v \in Backfilled : \E g \in Games : Played(g) /\ v = row(g)
    BY DEF Backfilled
  <1>2. clock \in Nat
    BY DEF Versions
  <1>3. ASSUME NEW v \in Backfilled
        PROVE  /\ v = [game |-> v.game, says |-> v.says, at |-> v.at, seen |-> v.seen, est |-> v.est]
               /\ v.game \in Games /\ v.says # NoScore /\ v.at = clock /\ v.seen = clock /\ v.est = FALSE
               /\ v = row(v.game)
    <2>1. PICK g \in Games : Played(g) /\ v = row(g)
      BY <1>1
    <2>. QED
      BY <2>1 DEF Played
  <1>. HIDE DEF row
  <1>. QED
    BY <1>2, <1>3 DEF Fetched

LEMMA ReconstructedIsFetched ==
    ASSUME Versions
    PROVE  Fetched(Reconstructed)
  <1>. DEFINE row(g) == [game |-> g, says |-> score[g], at |-> EstimateAt, seen |-> clock, est |-> TRUE]
  <1>1. \A v \in Reconstructed : \E g \in Games : Played(g) /\ v = row(g)
    BY PointInTimeAssumption DEF Reconstructed
  <1>2. clock \in Nat /\ EstimateAt \in Nat
    BY PointInTimeAssumption DEF Versions
  <1>3. ASSUME NEW v \in Reconstructed
        PROVE  /\ v = [game |-> v.game, says |-> v.says, at |-> v.at, seen |-> v.seen, est |-> v.est]
               /\ v.game \in Games /\ v.says # NoScore /\ v.at = EstimateAt /\ v.seen = clock /\ v.est = TRUE
               /\ v = row(v.game)
    <2>1. PICK g \in Games : Played(g) /\ v = row(g)
      BY <1>1
    <2>. QED
      BY <2>1 DEF Played
  <1>. HIDE DEF row
  <1>. QED
    BY <1>2, <1>3 DEF Fetched

\* What a batch adds was seen when it was received, and is known by no time
\* before unless it is an estimate.
LEMMA AdditionIs ==
    ASSUME NEW b, Fetched(b), NEW a \in Additions(b)
    PROVE  /\ a.seen \in Nat /\ a.at \in Nat /\ a.says # NoScore
           /\ a.est \/ a.seen <= a.at
           /\ \E v \in Changed(b) : a.game = v.game /\ a.says = v.says /\ a.seen = v.seen
  <1>1. PICK v \in Changed(b) : a = IF Corrects(v) THEN AsCorrection(v) ELSE v
    BY DEF Additions
  <1>. DEFINE at == IF v.at > v.seen THEN v.at ELSE v.seen
  <1>2. /\ v = [game |-> v.game, says |-> v.says, at |-> v.at, seen |-> v.seen, est |-> v.est]
        /\ v.says # NoScore /\ v.at \in Nat /\ v.seen \in Nat /\ (v.est \/ v.at = v.seen)
    BY DEF Fetched, Changed
  <1>3. AsCorrection(v) = [game |-> v.game, says |-> v.says, at |-> at, seen |-> v.seen, est |-> FALSE]
    <2>1. [v EXCEPT !.at = at] =
            [game |-> v.game, says |-> v.says, at |-> at, seen |-> v.seen, est |-> v.est]
      BY <1>2
    <2>2. AsCorrection(v) = [[v EXCEPT !.at = at] EXCEPT !.est = FALSE]
      BY <1>2 DEF AsCorrection
    <2>. HIDE DEF at
    <2>. QED
      BY <2>1, <2>2
  <1>4. at \in Nat /\ v.seen <= at
    BY <1>2
  <1>. QED
    BY <1>1, <1>2, <1>3, <1>4

LEMMA VersionsStart == ASSUME Init PROVE Versions
  BY DEF Init, Versions

LEMMA VersionsStep == ASSUME Versions, [Next]_vars PROVE Versions'
  <1>1. CASE UNCHANGED <<clock, batch, outcomes>>
    BY <1>1 DEF Versions, Fetched
  <1>2. CASE Tick
    <2>1. clock' \in Nat /\ UNCHANGED <<batch, outcomes>>
      BY <1>2 DEF Tick, Versions, tables, work
    <2>. QED
      BY <2>1 DEF Versions, Fetched
  <1>3. ASSUME NEW p \in Fetchers, NEW b, batch' = [batch EXCEPT ![p] = b],
               UNCHANGED <<clock, outcomes>>, b # None => Fetched(b)
        PROVE  Versions'
    <2>1. \A q \in Fetchers : batch'[q] # None => Fetched(batch'[q])
      BY <1>3 DEF Versions
    <2>. QED
      BY <1>3, <2>1 DEF Versions, Fetched
  <1>4. ASSUME NEW p \in Fetchers, FetchOutcomes(p) \/ IngestSeason(p) \/ FetcherKilled(p)
        PROVE  Versions'
    <2>1. PICK b \in {Backfilled, Reconstructed, None} : batch' = [batch EXCEPT ![p] = b]
      BY <1>4 DEF FetchOutcomes, IngestSeason, FetcherKilled
    <2>2. b # None => Fetched(b)
      BY BackfilledIsFetched, ReconstructedIsFetched
    <2>. QED
      BY <1>3, <1>4, <2>1, <2>2 DEF FetchOutcomes, IngestSeason, FetcherKilled, tables
  <1>5. ASSUME NEW p \in Fetchers, AppendVersions(p) PROVE Versions'
    <2>1. batch' = [batch EXCEPT ![p] = None] /\ clock' = clock /\ Fetched(batch[p])
      BY <1>5 DEF AppendVersions, Versions
    <2>2. outcomes' = outcomes \/ outcomes' = outcomes \cup Additions(batch[p])
      BY <1>5 DEF AppendVersions
    <2>3. \A v \in outcomes' : v.seen \in Nat /\ v.at \in Nat /\ v.says # NoScore
      BY <2>1, <2>2, AdditionIs DEF Versions
    <2>4. \A q \in Fetchers : batch'[q] # None => Fetched(batch'[q])
      BY <2>1 DEF Versions
    <2>. QED
      BY <2>1, <2>3, <2>4 DEF Versions, Fetched
  <1>. QED
    BY <1>1, <1>2, <1>4, <1>5
       DEF Next, vars, tables, work, readers, Reschedule, Reprice, Score, RestoreGames, Receive,
           Commit, CollectorKilled, Discover, Claim, Publish, PredictGame, Settle

LEMMA VersionsHold == Spec => []Versions
  BY VersionsStart, VersionsStep, PTL DEF Spec

\* Rows of the past that are known by no earlier time move no earlier answer.
LEMMA LaterRowsChangeNothing ==
    ASSUME Versions, NEW t \in Times, NEW strict \in BOOLEAN, outcomes \subseteq outcomes',
           \A a \in outcomes' \ outcomes :
              /\ a.seen \in Nat /\ a.at \in Nat /\ (a.est \/ a.seen <= a.at)
              /\ ~(a.seen <= t \/ (~strict /\ a.est))
    PROVE  AsKnownAt(t, strict)' = AsKnownAt(t, strict)
  <1>1. t \in Nat
    BY PointInTimeAssumption DEF Times
  <1>2. \A a \in outcomes' \ outcomes : a.at <= t => strict /\ a.est
    BY <1>1
  <1>3. {v \in outcomes' : v.at <= t /\ ~(strict /\ v.est)}
        = {v \in outcomes : v.at <= t /\ ~(strict /\ v.est)}
    BY <1>2
  <1>4. KnownVersions(t, strict)' = KnownVersions(t, strict)
    BY <1>3 DEF KnownVersions, Known
  <1>. QED
    BY <1>4 DEF AsKnownAt, Latest

\* Whatever batches are appended in whatever order, the answer of a past time
\* changes only by a row that was seen by then, or by an estimate.
THEOREM AnswersOfThePastStand == Spec => AnswersStand
  <1>1. ASSUME Versions, [Next]_vars, NEW t \in Times, NEW strict \in BOOLEAN,
               outcomes' # outcomes, AsKnownAt(t, strict)' # AsKnownAt(t, strict)
        PROVE  \E v \in outcomes' \ outcomes : v.seen <= t \/ (~strict /\ v.est)
    <2>1. PICK p \in Fetchers : AppendVersions(p)
      BY <1>1 DEF Next, vars, tables, work, readers, Tick, Reschedule, Reprice, Score, RestoreGames,
           Receive, Commit, CollectorKilled, Discover, FetchOutcomes, IngestSeason, FetcherKilled,
           Claim, Publish, PredictGame, Settle
    <2>2. Fetched(batch[p]) /\ outcomes' = outcomes \cup Additions(batch[p])
      BY <1>1, <2>1 DEF AppendVersions, Versions
    <2>3. \A a \in outcomes' \ outcomes : /\ a.seen \in Nat /\ a.at \in Nat
                                          /\ a.est \/ a.seen <= a.at
      BY <2>2, AdditionIs
    <2>. QED
      BY <1>1, <2>2, <2>3, LaterRowsChangeNothing
  <1>2. Versions /\ [Next]_vars =>
           [\A t \in Times, strict \in BOOLEAN :
              AsKnownAt(t, strict)' # AsKnownAt(t, strict)
              => \E v \in outcomes' \ outcomes : v.seen <= t \/ (~strict /\ v.est)]_outcomes
    BY <1>1
  <1>. QED
    BY <1>2, VersionsHold, PTL DEF Spec, AnswersStand

-----------------------------------------------------------------------------
(* The provider's last word, and settlement. *)

Told == GradesFollowTheProvider

\* The current version of a game after a batch: the batch's row where it says
\* something new, the old one elsewhere.
LEMMA AppendFollows ==
    ASSUME Versions, Told, NEW p \in Fetchers, AppendVersions(p)
    PROVE  \A g \in Games : \A v \in Of(LatestFinal, g)' : v.says = told'[g]
  <1>. DEFINE b == batch[p]
  <1>1. Fetched(b)
    BY DEF AppendVersions, Versions
  <1>2. CASE outcomes' = outcomes /\ told' = told
    BY <1>2 DEF Told, GradesFollowTheProvider, LatestFinal, Latest, Of
  <1>3. CASE /\ Stale(b) = {} /\ outcomes' = outcomes \cup Additions(b)
             /\ told' = [g \in Games |-> IF Of(b, g) = {} THEN told[g]
                                         ELSE (CHOOSE v \in Of(b, g) : TRUE).says]
    <2>. SUFFICES ASSUME NEW g \in Games, NEW v \in Of(LatestFinal, g)'
                  PROVE  v.says = told'[g]
      OBVIOUS
    <2>1. /\ v \in outcomes' /\ v.game = g /\ v.seen \in Nat
          /\ \A w \in outcomes' : w.game = g => w.seen <= v.seen
      <3>1. v \in outcomes' /\ v.game = g /\ \A w \in outcomes' : w.game = g => w.seen <= v.seen
        BY DEF LatestFinal, Latest, Of
      <3>. QED
        BY <1>1, <1>3, <3>1, AdditionIs DEF Versions
    <2>2. ASSUME NEW x \in b, x.game = g PROVE told'[g] = x.says
      <3>1. \A y \in Of(b, g) : y = x
        BY <1>1, <2>2 DEF Fetched, Of
      <3>2. x \in Of(b, g)
        BY <2>2 DEF Of
      <3>. QED
        BY <1>3, <3>1, <3>2
    <2>3. CASE v \in Additions(b)
      <3>1. PICK x \in Changed(b) : v.game = x.game /\ v.says = x.says
        BY <1>1, <2>3, AdditionIs
      <3>. QED
        BY <2>1, <2>2, <3>1 DEF Changed
    <2>4. CASE v \in outcomes
      <3>1. v \in Of(LatestFinal, g)
        BY <1>3, <2>1, <2>4 DEF LatestFinal, Latest, Of
      <3>2. v.says = told[g]
        BY <3>1 DEF Told, GradesFollowTheProvider
      <3>3. CASE \E x \in b : x.game = g
        <4>1. PICK x \in b : x.game = g
          BY <3>3
        <4>2. ASSUME x \in Changed(b) PROVE FALSE
          <5>1. ~(x.seen <= v.seen) /\ x.seen \in Nat
            BY <1>1, <1>3, <3>1, <4>1, <4>2 DEF Stale, Fetched
          <5>2. PICK a \in Additions(b) : a.seen = x.seen /\ a.game = g
            <6>1. \E a \in Additions(b) : a = IF Corrects(x) THEN AsCorrection(x) ELSE x
              BY <4>2 DEF Additions
            <6>2. AsCorrection(x).seen = x.seen /\ AsCorrection(x).game = x.game
              BY <1>1, <4>1 DEF AsCorrection, Fetched
            <6>. QED
              BY <4>1, <6>1, <6>2
          <5>. QED
            BY <1>3, <2>1, <5>1, <5>2
        <4>3. \E w \in Of(LatestFinal, g) : w.says = x.says
          BY <4>1, <4>2 DEF Changed
        <4>4. x.says = told[g]
          BY <4>3 DEF Told, GradesFollowTheProvider
        <4>. QED
          BY <2>2, <3>2, <4>1, <4>4
      <3>4. CASE \A x \in b : x.game # g
        <4>1. told'[g] = told[g]
          BY <1>3, <3>4 DEF Of
        <4>. QED
          BY <3>2, <4>1
      <3>. QED
        BY <3>3, <3>4
    <2>. QED
      BY <1>3, <2>1, <2>3, <2>4
  <1>. QED
    BY <1>2, <1>3 DEF AppendVersions

LEMMA ToldStep == ASSUME Versions, Told, [Next]_vars PROVE Told'
  <1>. DEFINE Judged(s) == /\ s.told \notin {NoScore, Unscored}
                           /\ s.grade = Grade(s.side, s.told, s.quote.line)
  <1>1. CASE UNCHANGED <<outcomes, told, settled>>
    BY <1>1 DEF Told, GradesFollowTheProvider, LatestFinal, Latest, Of
  <1>2. ASSUME NEW p \in Fetchers, AppendVersions(p) PROVE Told'
    <2>1. settled' = settled
      BY <1>2 DEF AppendVersions, readers
    <2>. QED
      BY <1>2, <2>1, AppendFollows DEF Told, GradesFollowTheProvider
  <1>3. CASE Settle
    <2>1. UNCHANGED <<outcomes, told>>
      BY <1>3 DEF Settle, tables
    <2>2. ASSUME NEW s \in Settled PROVE Judged(s)
      <3>1. PICK r \in preds, side \in {"OVER", "UNDER"}, q \in UNION {x.quotes : x \in preds},
                 actual \in Actual :
               s = [asOf |-> r.asOf, side |-> side, quote |-> q,
                    grade |-> Grade(side, actual, q.line), told |-> told[Target]]
        BY DEF Settled
      <3>2. PICK v \in Of(LatestFinal, Target) : actual = v.says /\ actual # Unscored
        BY DEF Actual
      <3>3. actual = told[Target]
        BY <3>2, PointInTimeAssumption DEF Told, GradesFollowTheProvider
      <3>4. actual # NoScore
        BY <3>2 DEF Versions, Of, LatestFinal, Latest
      <3>. QED
        BY <3>1, <3>2, <3>3, <3>4
    <2>3. \A s \in settled' : Judged(s)
      BY <1>3, <2>2 DEF Settle, Told, GradesFollowTheProvider
    <2>4. \A g \in Games : \A v \in Of(LatestFinal, g)' : v.says = told'[g]
      BY <2>1 DEF Told, GradesFollowTheProvider, LatestFinal, Latest, Of
    <2>. QED
      BY <2>3, <2>4 DEF Told, GradesFollowTheProvider
  <1>. QED
    BY <1>1, <1>2, <1>3
       DEF Next, vars, tables, work, readers, Tick, Reschedule, Reprice, Score, RestoreGames,
           Receive, Commit, CollectorKilled, Discover, FetchOutcomes, IngestSeason, FetcherKilled,
           Claim, Publish, PredictGame

LEMMA ToldHolds == Spec => []Told
  <1>1. Init => Told
    BY DEF Init, Told, GradesFollowTheProvider, LatestFinal, Latest, Of
  <1>. QED
    BY <1>1, ToldStep, VersionsHold, PTL DEF Spec

-----------------------------------------------------------------------------
(* The market of a claim, and the inputs of a prediction. *)

LEMMA TimesAre == Times \subseteq Nat /\ 0 \in Times /\ \A t \in Times : t < MaxClock => t + 1 \in Times
  BY PointInTimeAssumption DEF Times

LEMMA MarketStart == ASSUME Init PROVE Market
  BY NoneIsNothing, TimesAre DEF Init, Market, ClaimKeepsItsMarket

LEMMA MarketStep == ASSUME Market, [Next]_vars PROVE Market'
  <1>1. CASE UNCHANGED <<clock, board, quotes, lock, cycle, claim>>
    BY <1>1 DEF Market, ClaimKeepsItsMarket, Known
  <1>2. CASE Tick
    <2>1. /\ clock' = clock + 1 /\ UNCHANGED <<board, quotes, lock, cycle, claim>>
          /\ clock \in Times /\ clock' \in Times
      BY <1>2, TimesAre DEF Tick, Market, provider, tables, work, readers
    <2>. QED
      BY <2>1, TimesAre DEF Market, ClaimKeepsItsMarket, Known
  <1>3. CASE Reprice
    <2>1. board' \subseteq Lines /\ UNCHANGED <<clock, quotes, lock, cycle, claim>>
      BY <1>3 DEF Reprice, tables, work, readers
    <2>. QED
      BY <2>1 DEF Market, ClaimKeepsItsMarket, Known
  <1>4. CASE Receive
    <2>1. /\ cycle'.quotes = {[at |-> clock, line |-> l] : l \in board}
          /\ UNCHANGED <<clock, board, quotes, claim>>
      BY <1>4 DEF Receive, provider, tables, readers
    <2>2. \A q \in cycle'.quotes : q \in Quote /\ q.at = clock
      BY <2>1 DEF Market, Quote
    <2>. QED
      BY <2>1, <2>2, TimesAre DEF Market, ClaimKeepsItsMarket, Known
  <1>5. CASE Commit
    <2>1. /\ quotes' = quotes \cup cycle.quotes /\ lock = Collector /\ lock' = None
          /\ UNCHANGED <<clock, board, claim>>
      BY <1>5 DEF Commit, provider, readers
    <2>2. claim # None => Known(quotes, claim.asOf)' = Known(quotes, claim.asOf)
      <3>1. \A q \in Quote : q.at \in Nat
        BY TimesAre DEF Quote
      <3>. QED
        BY <2>1, <3>1 DEF Market, Known
    <2>. QED
      BY <2>1, <2>2, NoneIsNothing DEF Market, ClaimKeepsItsMarket
  <1>6. CASE CollectorKilled
    BY <1>6, NoneIsNothing
       DEF CollectorKilled, Market, ClaimKeepsItsMarket, Known, provider, tables, readers
  <1>7. ASSUME NEW t \in Times, Claim(t) PROVE Market'
    <2>1. /\ claim' = [asOf |-> t, manifest |-> Manifest(t), published |-> FALSE]
          /\ t < clock /\ lock = None /\ UNCHANGED <<clock, board, quotes, lock, cycle>>
      BY <1>7 DEF Claim, provider, tables, work
    <2>2. t \in Nat
      BY PointInTimeAssumption DEF Times
    <2>3. Manifest(t).quotes = Known(quotes, t)
      BY DEF Manifest
    <2>. QED
      BY <2>1, <2>2, <2>3, NoneIsNothing DEF Market, ClaimKeepsItsMarket, Known
  <1>8. CASE Publish
    <2>1. /\ claim # None /\ claim' = [claim EXCEPT !.published = TRUE]
          /\ UNCHANGED <<clock, board, quotes, lock, cycle>>
      BY <1>8 DEF Publish, provider, tables, work
    <2>2. claim' = [asOf |-> claim.asOf, manifest |-> claim.manifest, published |-> TRUE]
      BY <2>1 DEF Market
    <2>. QED
      BY <2>1, <2>2 DEF Market, ClaimKeepsItsMarket, Known
  <1>. QED
    BY <1>1, <1>2, <1>3, <1>4, <1>5, <1>6, <1>7, <1>8
       DEF Next, vars, provider, tables, work, readers, Reschedule, Score, RestoreGames, Discover,
           FetchOutcomes, IngestSeason, FetcherKilled, AppendVersions, PredictGame, Settle

LEMMA MarketHolds == Spec => []Market
  BY MarketStart, MarketStep, PTL DEF Spec

\* What a claim pinned of the quotes of its time is what every later reading of
\* that time gives, whatever was received, committed or killed since.
THEOREM AClaimKeepsItsMarket == Spec => []ClaimKeepsItsMarket
  <1>1. Market => ClaimKeepsItsMarket
    BY DEF Market
  <1>. QED
    BY <1>1, MarketHolds, PTL

LEMMA PredictedStep == ASSUME Predicted, [Next]_vars PROVE Predicted'
  <1>1. CASE preds' = preds /\ quotes \subseteq quotes'
    BY <1>1 DEF Predicted, NoResultOfItsOwn
  <1>2. ASSUME NEW t \in Times, NEW profile \in Profiles, PredictGame(t, profile)
        PROVE  Predicted'
    <2>1. /\ preds' = {[asOf |-> t, history |-> History(t, profile), quotes |-> LatestQuotes(t)]}
          /\ quotes' = quotes /\ HistorySafe(t)
      BY <1>2 DEF PredictGame, tables
    <2>2. LatestQuotes(t) \subseteq quotes /\ \A q \in LatestQuotes(t) : q.at <= t
      BY DEF LatestQuotes, Known
    <2>3. \A v \in History(t, profile) : v.game # Target /\ Slate[v.game] <= Slate[Target]
      BY <2>1 DEF History, HistorySafe, StateGames
    <2>4. t \in Nat
      BY PointInTimeAssumption DEF Times
    <2>. QED
      BY <2>1, <2>2, <2>3, <2>4 DEF Predicted, NoResultOfItsOwn
  <1>. QED
    BY <1>1, <1>2
       DEF Next, vars, provider, tables, work, readers, Tick, Reschedule, Reprice, Score,
           RestoreGames, Receive, Commit, CollectorKilled, Discover, FetchOutcomes, IngestSeason,
           FetcherKilled, AppendVersions, Claim, Publish, Settle

LEMMA PredictedHolds == Spec => []Predicted
  <1>1. Init => Predicted
    BY DEF Init, Predicted, NoResultOfItsOwn
  <1>. QED
    BY <1>1, PredictedStep, PTL DEF Spec

\* No prediction was computed from its own result or a later slate's, although
\* results arrive while the game still reads as scheduled.
THEOREM NoPredictionKnowsItsResult == Spec => []NoResultOfItsOwn
  <1>1. Predicted => NoResultOfItsOwn
    BY DEF Predicted
  <1>. QED
    BY <1>1, PredictedHolds, PTL

-----------------------------------------------------------------------------
(* The closing quote. *)

LEMMA LeastExists ==
  ASSUME NEW T, T \subseteq Nat, T # {}
  PROVE  \E x \in T : \A y \in T : x <= y
  <1>. DEFINE R == {ss \in Nat \X Nat : ss[1] < ss[2]}
  <1>1. IsWellFoundedOn(R, Nat)
    BY NatLessThanWellFounded DEF OpToRel
  <1>2. \A x, y \in T : <<y, x>> \in R <=> y < x
    OBVIOUS
  <1>. HIDE DEF R
  <1>3. PICK x \in T : \A y \in T : ~ (<<y, x>> \in R)
    BY <1>1, WFMin
  <1>4. \A y \in T : ~ (y < x)
    BY <1>2, <1>3
  <1>5. \A y \in T : x <= y
    BY <1>4
  <1>. QED
    BY <1>5


LEMMA GreatestExists ==
  ASSUME NEW T, T \subseteq Nat, T # {}, NEW b \in Nat, \A y \in T : y <= b
  PROVE  \E x \in T : \A y \in T : y <= x
  <1>. DEFINE U == {u \in Nat : \A y \in T : y <= u}
  <1>1. U \subseteq Nat /\ U # {}
    BY DEF U
  <1>2. PICK u \in U : \A x \in U : u <= x
    BY <1>1, LeastExists
  <1>3. CASE u \in T
    BY <1>3
  <1>4. CASE u \notin T
    <2>1. \A y \in T : y < u /\ y <= u - 1
      BY <1>4
    <2>2. PICK e \in T : e < u
      BY <2>1
    <2>3. u - 1 \in Nat
      BY <2>2
    <2>4. u - 1 \in U
      BY <2>1, <2>3
    <2>. QED
      BY <1>2, <2>4
  <1>. QED
    BY <1>3, <1>4

LEMMA OneLine ==
    ASSUME NEW S, IsFiniteSet(S), ~(Cardinality(S) > 1), NEW x \in S, NEW y \in S
    PROVE  x = y
  <1>1. SUFFICES ASSUME x # y PROVE FALSE
    OBVIOUS
  <1>2. IsFiniteSet({x}) /\ Cardinality({x}) = 1 /\ y \notin {x}
    BY <1>1, FS_Singleton
  <1>3. IsFiniteSet({x} \cup {y}) /\ Cardinality({x} \cup {y}) = 2
    BY <1>2, FS_AddElement
  <1>4. Cardinality({x} \cup {y}) <= Cardinality(S) /\ Cardinality(S) \in Nat
    BY FS_Subset, FS_CardinalityType
  <1>. QED
    BY <1>3, <1>4

LEMMA CloseIsJust == Market /\ Predicted => CloseIsNoOlder
  <1>. SUFFICES ASSUME Market, Predicted, NEW p \in preds, NEW k \in Kickoffs, NEW q \in p.quotes,
                       p.asOf <= k - Buffer
                PROVE  /\ Close(k) # {} /\ \A c \in Close(k) : c.at >= q.at
                       /\ (q \in Close(k) /\ ~Ambiguous(k)) =>
                             \A side \in {"OVER", "UNDER", "HIT"} :
                                 Clv(side, q, k).comparable /\ Clv(side, q, k).units \in {0, None}
    BY DEF CloseIsNoOlder
  <1>. DEFINE cutoff == k - Buffer
              T == {o.at : o \in Eligible(k)}
  <1>1. cutoff \in Int /\ p.asOf \in Nat /\ q.at <= p.asOf /\ q \in quotes
    BY PointInTimeAssumption DEF Predicted
  <1>2. \A o \in quotes : o \in Quote /\ o \in [at : Nat, line : Lines]
    BY TimesAre DEF Market, Quote
  <1>3. q \in Eligible(k) /\ cutoff \in Nat
    BY <1>1, <1>2 DEF Eligible
  <1>4. /\ Eligible(k) \subseteq quotes /\ T \subseteq Nat /\ T # {} /\ \A t \in T : t <= cutoff
    BY <1>2, <1>3 DEF Eligible
  <1>5. PICK last \in T : \A t \in T : t <= last
    <2>. HIDE DEF T, cutoff
    <2>. QED
      BY <1>3, <1>4, GreatestExists
  <1>6. Close(k) # {} /\ \A c \in Close(k) : c.at >= q.at
    BY <1>2, <1>3, <1>4, <1>5 DEF Close
  <1>7. ASSUME q \in Close(k), ~Ambiguous(k), NEW side \in {"OVER", "UNDER", "HIT"}
        PROVE  Clv(side, q, k).comparable /\ Clv(side, q, k).units \in {0, None}
    <2>. DEFINE S == {o.line : o \in Close(k)}
                c == CloseOf(k)
    <2>1. c \in Close(k)
      BY <1>6 DEF CloseOf
    <2>2. c # None /\ c.line \in Int /\ q.line \in Int
      BY <1>1, <1>2, <1>4, <2>1, NoneIsNothing DEF Close
    <2>3. S \subseteq Lines
      BY <1>2, <1>4 DEF Close
    <2>4. IsFiniteSet(S)
      BY <2>3, NoneIsNothing, FS_Subset
    <2>5. c.line \in S /\ q.line \in S
      BY <1>7, <2>1
    <2>6. c.line = q.line
      <3>1. ~(Cardinality(S) > 1)
        BY <1>7 DEF Ambiguous
      <3>. HIDE DEF S, c
      <3>. QED
        BY <2>4, <2>5, <3>1, OneLine
    <2>7. Clv(side, q, k) = IF side = "HIT"
                            THEN [availability |-> "QUOTED_ONE_SIDED", comparable |-> TRUE, units |-> None]
                            ELSE [availability |-> "QUOTED_SAME_LINE", comparable |-> TRUE,
                                  units |-> Towards(side, q.line, c.line)]
      BY <2>2, <2>6 DEF Clv
    <2>8. Towards(side, q.line, c.line) = 0
      BY <2>2, <2>6 DEF Towards
    <2>. QED
      BY <2>7, <2>8
  <1>. QED
    BY <1>6, <1>7

\* A prediction is judged by a close that is not older than its quote and by
\* what the provider delivered last, however often a result is corrected and in
\* whatever order the batches that say so arrive.
THEOREM PredictionsAreJudgedFairly == Spec => []JudgedFairly
  <1>1. Market /\ Predicted /\ Told => JudgedFairly
    BY CloseIsJust DEF JudgedFairly, Told
  <1>. QED
    BY <1>1, MarketHolds, PredictedHolds, ToldHolds, PTL

=============================================================================
