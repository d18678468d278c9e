---------------------------- MODULE PointInTime ----------------------------
(***************************************************************************)
(* What was known when: the versioned outcome history                      *)
(* (data/outcome_versions.py), its backfills (platform/stats_backfill.py,   *)
(* games_backfill.py, pipelines/lean.py) and the readers that cut the      *)
(* warehouse at a time: the manifest a checkpoint claims, the inputs of a  *)
(* prediction and its leakage audit, the closing quote, and settlement.    *)
(*                                                                         *)
(* Two games: Target is predicted and priced; the others only feed its     *)
(* history.  One player, one prop and one book; the player and the team    *)
(* table run the same code, and one of them is modelled.                   *)
(***************************************************************************)
EXTENDS Integers, FiniteSets, TLC
LOCAL INSTANCE FiniteSetsExt
LOCAL INSTANCE Functions

CONSTANTS
    Games,          \* canonical_game_id
    Target,         \* the game that is predicted
    Slate,          \* game -> (season, postseason, week), as a number
    Estimated,      \* games of a season before STRICT_PIT_FIRST_SEASON
    EstimateAt,     \* the reconstructed availability of such a game's result
    Backfills,      \* `stats-backfill` processes: fetch, then append under the lock
    Researchers,    \* `ingest season` processes: fetch and append without it
    Scores,         \* what a box score may say
    Unscored,       \* a box score whose statistic is null
    NoScore,        \* no box score yet
    Lines,          \* the lines a book may offer
    Kickoffs,       \* when the target may be scheduled
    Buffer,         \* close_buffer_seconds
    None,           \* nothing there
    MaxClock,       \* bound: the last moment
    Budgets         \* bounds: how often each thing may happen, one choice per behaviour

ASSUME PointInTimeAssumption ==
    /\ Target \in Games /\ Estimated \subseteq Games \ {Target}
    /\ Slate \in [Games -> Nat] /\ EstimateAt \in Nat
    /\ Unscored \in Scores /\ NoScore \notin Scores /\ Scores \ {Unscored} \subseteq Nat
    /\ Kickoffs \subseteq Nat /\ Kickoffs # {} /\ Buffer \in Nat
    /\ MaxClock \in Nat
    /\ Budgets \subseteq [{"cycles", "moves", "fetches", "results", "receipts",
                            "claims", "predictions"} -> Nat]

Fetchers == Backfills \cup Researchers
Collector == "collector"
Times == 0 .. MaxClock
Profiles == {"STRUCTURAL_CORE", "LIVE_ENHANCED"}

VARIABLES
    clock,
    \* the provider
    score, kickoff, board, left,
    \* raw receipts of the games endpoint, and the warehouse tables
    receipts, games, outcomes, quotes,
    \* the writer lock's holder, the collection cycle and the fetched batches
    lock, cycle, batch,
    \* a claimed checkpoint, the priced predictions, their settlement and
    \* (history) what the last accepted batch said of each game
    claim, preds, settled, told

provider == <<score, kickoff, board>>
tables == <<games, outcomes, quotes>>
work == <<lock, cycle, batch>>
readers == <<claim, preds, settled>>
vars == <<clock, left, provider, receipts, tables, work, readers, told>>

-----------------------------------------------------------------------------
(* Rows, and the selections over them. *)

GameRow == [game : Games, at : Times, kickoff : Kickoffs, final : BOOLEAN]
Version == [game : Games, says : Scores, at : Nat, seen : Times, est : BOOLEAN]
Quote == [at : Times, line : Lines]

\* filter_pit
Known(rows, asOf) == {r \in rows : r.at <= asOf}
KnownVersions(asOf, strict) == {v \in Known(outcomes, asOf) : ~(strict /\ v.est)}

\* _select_one_per_key: _ORDER_COLUMNS puts first_seen_at first.
Latest(rows) == {v \in rows : \A w \in rows : w.game = v.game => w.seen <= v.seen}
Earliest(rows) == {v \in rows : \A w \in rows : w.game = v.game => v.seen <= w.seen}

AsKnownAt(asOf, strict) == Latest(KnownVersions(asOf, strict))
LatestFinal == Latest(outcomes)

Of(rows, g) == {v \in rows : v.game = g}

\* _latest_games_asof, _select_target_game_row: the newest row, whatever it says.
LatestRows(asOf, g) ==
    {r \in Known(Of(games, g), asOf) : \A s \in Known(Of(games, g), asOf) : s.at <= r.at}

\* latest_prop_quotes: every quote of the newest receipt by then.
LatestQuotes(asOf) ==
    {q \in Known(quotes, asOf) : \A o \in Known(quotes, asOf) : o.at <= q.at}

\* build_checkpoint_manifest
Manifest(asOf) ==
    LET row == LatestRows(asOf, Target) IN
    [game |-> row,
     outcomes |-> IF row = {} THEN {} ELSE AsKnownAt(asOf, FALSE),
     quotes |-> Known(quotes, asOf)]

\* The value for nothing there is none of those that are; a line is a number.
ASSUME NoneIsNothing ==
    /\ None # Collector /\ None \notin Quote
    /\ Lines \subseteq Int /\ IsFiniteSet(Lines)

-----------------------------------------------------------------------------
Init ==
    /\ clock = 0 /\ left \in Budgets
    /\ score = [g \in Games |-> IF g = Target THEN NoScore ELSE CHOOSE s \in Scores : s # Unscored]
    /\ kickoff \in Kickoffs
    /\ board \in {{l} : l \in Lines}
    /\ receipts = {} /\ games = {} /\ outcomes = {} /\ quotes = {}
    /\ lock = None /\ cycle = None
    /\ batch = [p \in Fetchers |-> None]
    /\ claim = None /\ preds = {} /\ settled = {}
    /\ told = [g \in Games |-> NoScore]

Tick ==
    /\ clock < MaxClock
    /\ clock' = clock + 1
    /\ UNCHANGED <<left, provider, receipts, tables, work, readers, told>>

-----------------------------------------------------------------------------
(* The provider. *)

\* No observation shares its timestamp (microseconds) with a change.
Observed == UNION {{r.at : r \in receipts}, {v.seen : v \in outcomes},
                   {v.seen : v \in UNION {batch[p] : p \in {q \in Fetchers : batch[q] # None}}}}
Spend(what) == left[what] > 0 /\ left' = [left EXCEPT ![what] = @ - 1]
Turn(what) == clock \notin Observed /\ Spend(what)

\* A game ends, or its box score is corrected after it went final.
Score(g) ==
    /\ g = Target => clock >= kickoff
    /\ Turn("results")
    /\ \E s \in Scores \ {score[g]} : score' = [score EXCEPT ![g] = s]
    /\ UNCHANGED <<clock, kickoff, board, receipts, tables, work, readers, told>>

\* The target is moved before it starts.
Reschedule ==
    /\ score[Target] = NoScore
    /\ Turn("moves")
    /\ \E k \in Kickoffs \ {kickoff} : k > clock /\ kickoff' = k
    /\ UNCHANGED <<clock, score, board, receipts, tables, work, readers, told>>

\* The book moves its line, or offers several at once.
Reprice ==
    /\ Turn("moves")
    /\ \E b \in SUBSET Lines \ {{}, board} : board' = b
    /\ UNCHANGED <<clock, score, kickoff, receipts, tables, work, readers, told>>

\* A games response: what the provider says of a game now.
Starts(g) == IF g = Target THEN kickoff ELSE Min(Kickoffs)
Response(g) == [game |-> g, at |-> clock, kickoff |-> Starts(g), final |-> score[g] # NoScore]

-----------------------------------------------------------------------------
(* Collection: the rows are received under the lock and committed later. *)

Receive ==
    /\ Spend("cycles")
    /\ lock = None
    /\ lock' = Collector
    /\ cycle' = [row |-> Response(Target), quotes |-> {[at |-> clock, line |-> l] : l \in board}]
    /\ receipts' = receipts \cup {Response(Target)}
    /\ UNCHANGED <<clock, provider, tables, batch, readers, told>>

Commit ==
    /\ lock = Collector
    /\ games' = games \cup {cycle.row}
    /\ quotes' = quotes \cup cycle.quotes
    /\ lock' = None /\ cycle' = None
    /\ UNCHANGED <<clock, left, provider, receipts, outcomes, batch, readers, told>>

CollectorKilled ==
    /\ lock = Collector
    /\ lock' = None /\ cycle' = None
    /\ UNCHANGED <<clock, left, provider, receipts, tables, batch, readers, told>>

\* ScheduleDiscovery keeps the whole season's responses as receipts only.
Discover ==
    /\ Spend("receipts")
    /\ \E g \in Games : receipts' = receipts \cup {Response(g)} /\ receipts' # receipts
    /\ UNCHANGED <<clock, provider, tables, work, readers, told>>

\* plan_games_backfill, apply_games_backfill
Planned(g) == Of(receipts, g)
Missing(g) == Planned(g) # {} /\ Of(games, g) \subseteq Planned(g)
RestoreGames(g) ==
    /\ lock = None /\ Missing(g)
    /\ games' = games \cup Planned(g) /\ games' # games
    /\ UNCHANGED <<clock, left, provider, receipts, outcomes, quotes, work, readers, told>>

-----------------------------------------------------------------------------
(* Outcome batches. *)

Played(g) == score[g] # NoScore

\* fetch_season_outcomes: only final games, at the genuine receipt time, no lock.
Backfilled == {[game |-> g, says |-> score[g], at |-> clock, seen |-> clock, est |-> FALSE]
                   : g \in {h \in Games : Played(h)}}

\* reconstruct_game_result_availability: date + lag, for the old seasons only.
Reconstructed == {[game |-> g, says |-> score[g], at |-> EstimateAt, seen |-> clock, est |-> TRUE]
                      : g \in {h \in Estimated : Played(h)}}

\* _game_backfill_snapshots: a scoreless row before the game, a final one after it.
Snapshots == {[game |-> g, at |-> t, kickoff |-> Starts(g), final |-> t = EstimateAt]
                  : g \in {h \in Estimated : Played(h)}, t \in {0, EstimateAt}}

FetchOutcomes(p) ==
    /\ Spend("fetches")
    /\ p \in Backfills /\ batch[p] = None
    /\ batch' = [batch EXCEPT ![p] = Backfilled]
    /\ UNCHANGED <<clock, provider, receipts, tables, lock, cycle, readers, told>>

IngestSeason(p) ==
    /\ Spend("fetches")
    /\ p \in Researchers /\ batch[p] = None
    /\ games' = games \cup Snapshots
    /\ batch' = [batch EXCEPT ![p] = Reconstructed]
    /\ UNCHANGED <<clock, provider, receipts, outcomes, quotes, lock, cycle, readers, told>>

FetcherKilled(p) ==
    /\ batch[p] # None
    /\ batch' = [batch EXCEPT ![p] = None]
    /\ UNCHANGED <<clock, left, provider, receipts, tables, lock, cycle, readers, told>>

\* Mutant: a box score that was ever stored counts as unchanged.
AgainstAny(b) == {v \in b : \A w \in Of(outcomes, v.game) : w.says # v.says}

\* The rows of a batch that say something else than the current version.
Changed(b) == {v \in b : \A w \in Of(LatestFinal, v.game) : w.says # v.says}

Corrects(v) == Of(outcomes, v.game) # {}

Stale(b) == {v \in Changed(b) : \E w \in Of(LatestFinal, v.game) : v.seen <= w.seen}

\* Mutant: a correction keeps the availability its batch gives.
AsGiven(v) == [v EXCEPT !.est = FALSE]

\* A correction is known from its observation, whatever its batch claims.
AsCorrection(v) == [v EXCEPT !.at = IF v.at > v.seen THEN v.at ELSE v.seen, !.est = FALSE]

Additions(b) == {IF Corrects(v) THEN AsCorrection(v) ELSE v : v \in Changed(b)}

\* append_outcome_versions: the whole batch, or nothing.
AppendVersions(p) ==
    /\ batch[p] # None
    /\ p \in Backfills => lock = None
    /\ batch' = [batch EXCEPT ![p] = None]
    /\ \/ /\ Stale(batch[p]) # {}
          /\ UNCHANGED <<outcomes, told>>
       \/ /\ Stale(batch[p]) = {}
          /\ outcomes' = outcomes \cup Additions(batch[p])
          /\ told' = [g \in Games |-> IF Of(batch[p], g) = {} THEN told[g]
                                      ELSE (CHOOSE v \in Of(batch[p], g) : TRUE).says]
    /\ UNCHANGED <<clock, left, provider, receipts, games, quotes, lock, cycle, readers>>

-----------------------------------------------------------------------------
(* A checkpoint claim, and its resumption after a crash.  Any receipt after *)
(* the claim has a later timestamp than the moment the claim is about.     *)

\* Mutant: claimed while a collection cycle is running.
ClaimUnlocked(asOf) ==
    /\ Spend("claims")
    /\ claim = None /\ asOf < clock /\ Of(games, Target) # {}
    /\ claim' = [asOf |-> asOf, manifest |-> Manifest(asOf), published |-> FALSE]
    /\ UNCHANGED <<clock, provider, receipts, tables, work, preds, settled, told>>

Claim(asOf) ==
    /\ Spend("claims")
    /\ lock = None
    /\ claim = None /\ asOf < clock /\ Of(games, Target) # {}
    /\ claim' = [asOf |-> asOf, manifest |-> Manifest(asOf), published |-> FALSE]
    /\ UNCHANGED <<clock, provider, receipts, tables, work, preds, settled, told>>

\* Any other manifest is refused: the request stays in PREPARING.
Publish ==
    /\ lock = None
    /\ claim # None /\ ~claim.published
    /\ Manifest(claim.asOf) = claim.manifest
    /\ claim' = [claim EXCEPT !.published = TRUE]
    /\ UNCHANGED <<clock, left, provider, receipts, tables, work, preds, settled, told>>

-----------------------------------------------------------------------------
(* A prediction: its inputs, its leakage audit, its quotes. *)

\* _latest_games_asof: final games leave after the newest row is taken.
Current(asOf) == {r \in LatestRows(asOf, Target) : ~r.final}

StateGames(asOf) == {v.game : v \in AsKnownAt(asOf, FALSE)}

ChronologyProven(asOf) == \A g \in StateGames(asOf) : LatestRows(asOf, g) # {}

\* Mutant: only later slates are refused.
LaterSlateOnly(asOf) == \A g \in StateGames(asOf) : Slate[g] <= Slate[Target]

\* assert_state_history_safe, repeated by the lineage audit of each priced row.
HistorySafe(asOf) == \A g \in StateGames(asOf) : g # Target /\ Slate[g] <= Slate[Target]

\* The rest of audit_prediction_lineage: no input of a priced row is from after as_of.
LineageSafe(asOf) == \A r \in Current(asOf) \cup AsKnownAt(asOf, FALSE) \cup LatestQuotes(asOf) : r.at <= asOf

\* restrict_to_prior_slates: games some row by then says are final, of earlier slates.
PriorSlates(asOf) == {g \in Games : Slate[g] < Slate[Target]
                                    /\ \E r \in Known(Of(games, g), asOf) : r.final}

History(asOf, profile) ==
    IF profile = "LIVE_ENHANCED" THEN AsKnownAt(asOf, FALSE)
    ELSE {v \in AsKnownAt(asOf, FALSE) : v.game \in PriorSlates(asOf)}

PredictGame(asOf, profile) ==
    /\ Spend("predictions")
    /\ preds = {} /\ asOf <= clock
    /\ Current(asOf) # {}
    /\ ChronologyProven(asOf) /\ HistorySafe(asOf) /\ LineageSafe(asOf)
    /\ preds' = {[asOf |-> asOf, history |-> History(asOf, profile), quotes |-> LatestQuotes(asOf)]}
    /\ UNCHANGED <<clock, provider, receipts, tables, work, claim, settled, told>>

-----------------------------------------------------------------------------
(* The closing quote of a kickoff, the line's movement, and settlement. *)

Eligible(k) == {q \in quotes : q.at <= k - Buffer}

\* Mutant: the first receipt.
CloseFirst(k) == {q \in Eligible(k) : \A o \in Eligible(k) : q.at <= o.at}

\* select_closing_prop_quotes
Close(k) == {q \in Eligible(k) : \A o \in Eligible(k) : o.at <= q.at}
Ambiguous(k) == Cardinality({q.line : q \in Close(k)}) > 1

\* close_lookup: the market's row, or none.
CloseOf(k) == IF Close(k) = {} THEN None ELSE CHOOSE c \in Close(k) : TRUE

Towards(side, from, to) == IF side = "OVER" THEN to - from ELSE from - to

\* attach_clv: prices are comparable only on the line of the entry.
Clv(side, q, k) ==
    LET c == CloseOf(k) IN
    IF c = None THEN [availability |-> "MISSING_AT_CLOSE", comparable |-> FALSE, units |-> None]
    ELSE IF side = "HIT" THEN [availability |-> "QUOTED_ONE_SIDED", comparable |-> TRUE, units |-> None]
    ELSE [availability |-> IF c.line = q.line THEN "QUOTED_SAME_LINE" ELSE "QUOTED_MOVED_LINE",
          comparable |-> c.line = q.line, units |-> Towards(side, q.line, c.line)]

Grade(side, actual, line) ==
    IF actual = line THEN "PUSH" ELSE IF (actual > line) = (side = "OVER") THEN "WON" ELSE "LOST"

\* evaluate_actual_value: nothing, when the statistic is not known.
Actual == {v.says : v \in Of(LatestFinal, Target)} \ {Unscored}

\* settle_predictions: an unknown statistic leaves the prediction out.
Settled ==
    {[asOf |-> p.asOf, side |-> side, quote |-> q, grade |-> Grade(side, actual, q.line), told |-> told[Target]]
       : p \in preds, side \in {"OVER", "UNDER"}, q \in UNION {r.quotes : r \in preds}, actual \in Actual}

\* The append keeps the last row of a prediction.
Settle ==
    /\ Settled # {}
    /\ settled' = Settled \cup {s \in settled : \A n \in Settled : <<n.asOf, n.side, n.quote>> # <<s.asOf, s.side, s.quote>>}
    /\ UNCHANGED <<clock, left, provider, receipts, tables, work, claim, preds, told>>

-----------------------------------------------------------------------------
Next ==
    \/ Tick \/ Reschedule \/ Reprice
    \/ \E g \in Games : Score(g) \/ RestoreGames(g)
    \/ Receive \/ Commit \/ CollectorKilled \/ Discover
    \/ \E p \in Fetchers : FetchOutcomes(p) \/ IngestSeason(p) \/ FetcherKilled(p) \/ AppendVersions(p)
    \/ \E t \in Times : Claim(t)
    \/ Publish
    \/ \E t \in Times, profile \in Profiles : PredictGame(t, profile)
    \/ Settle

Spec == Init /\ [][Next]_vars

-----------------------------------------------------------------------------
(* Properties. *)

\* Every table, batch and record is of its kind.
TypeOK ==
    /\ clock \in Times
    /\ score \in [Games -> Scores \cup {NoScore}] /\ kickoff \in Kickoffs /\ board \subseteq Lines
    /\ receipts \subseteq GameRow /\ games \subseteq GameRow
    /\ outcomes \subseteq Version /\ quotes \subseteq Quote
    /\ lock \in {None, Collector} /\ (lock = Collector) = (cycle # None)
    /\ \A p \in Fetchers : batch[p] # None => batch[p] \subseteq Version
    /\ \A p \in preds : p.asOf \in Times /\ p.history \subseteq outcomes /\ p.quotes \subseteq quotes
    /\ told \in [Games -> Scores \cup {NoScore}]

\* What the history says was known at a past time changes only when a row that was
\* seen by then arrives late; an estimate can move only the answers that admit
\* estimates.  No correction reaches back before its own observation
\* (data/outcome_versions.py:336).
AnswersStand ==
    [][\A t \in Times, strict \in BOOLEAN :
         AsKnownAt(t, strict)' # AsKnownAt(t, strict)
         => \E v \in outcomes' \ outcomes : v.seen <= t \/ (~strict /\ v.est)]_outcomes

\* The market a claim was made on is the market of its time for ever: rows received by
\* then were committed before the claim, or are never committed
\* (platform/checkpoint_prepare.py:523; a cycle holds the writer lock throughout).
ClaimKeepsItsMarket == claim # None => Known(quotes, claim.asOf) = claim.manifest.quotes

\* Violated by the code: "data at or before scheduled_as_of must never change"
\* (platform/checkpoint_prepare.py:526).
ClaimKeepsItsData == claim # None => Manifest(claim.asOf) = claim.manifest

\* No prediction was built on the result of its own game or of a later slate, although
\* results arrive while the newest collected row still calls the game scheduled
\* (backtest/provenance.py:400, :408).
NoResultOfItsOwn ==
    \A p \in preds, v \in UNION {q.history : q \in preds} :
        v.game # Target /\ Slate[v.game] <= Slate[Target]

\* Against any kickoff whose cutoff a prediction precedes, the close is no older than
\* the quote it was priced on; when it is that very receipt, and it is unambiguous,
\* the line has not moved (market/closing.py:208, market/clv.py:504).
CloseIsNoOlder ==
    \A p \in preds, k \in Kickoffs : \A q \in p.quotes :
        p.asOf <= k - Buffer =>
            /\ Close(k) # {} /\ \A c \in Close(k) : c.at >= q.at
            /\ (q \in Close(k) /\ ~Ambiguous(k)) =>
                  \A side \in {"OVER", "UNDER", "HIT"} :
                      Clv(side, q, k).comparable /\ Clv(side, q, k).units \in {0, None}

\* The current version of a game is the box score the provider last delivered, also when
\* it changed and changed back, and a grade is that of the version it was settled on
\* (pipelines/settle.py:207, data/outcome_versions.py:324).
GradesFollowTheProvider ==
    /\ \A g \in Games : \A v \in Of(LatestFinal, g) : v.says = told[g]
    /\ \A s \in settled : s.told \notin {NoScore, Unscored}
                         /\ s.grade = Grade(s.side, s.told, s.quote.line)

\* A prediction is judged by a close that is not older than its quote and by the result
\* the provider last delivered.
JudgedFairly == CloseIsNoOlder /\ GradesFollowTheProvider

=============================================================================
