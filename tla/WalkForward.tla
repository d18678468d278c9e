----------------------------- MODULE WalkForward -----------------------------
(***************************************************************************)
(* The chronology of historical evidence and the outer folds cut from it   *)
(* (backtest/protocol.py, the fold builder of calibration/                 *)
(* phase10c3a_runner.py, the fold filters of calibration/challenger.py).   *)
(* A game is predicted as of one moment and its outcome is known at a      *)
(* later one, which may be after games of a later season were predicted.   *)
(* Times are even, so that the midpoint of two of them is a time.          *)
(***************************************************************************)
EXTENDS Integers, Sequences, FiniteSets, FiniteSetsExt

CONSTANTS
    Games,          \* games, or predictions of them
    Histories       \* program -> the chronologies its evidence may have

ASSUME EvenTimes ==
    \A program \in DOMAIN Histories : \A h \in Histories[program] : \A g \in Games :
        /\ h.asOf[g] % 2 = 0 /\ h.known[g] % 2 = 0
        /\ h.asOf[g] < h.known[g]

\* A timestamp is a number, and of the games there is a last one.
ASSUME TimesAssumption ==
    \A program \in DOMAIN Histories : \A h \in Histories[program] :
        /\ \A g \in Games : h.asOf[g] \in Nat /\ h.known[g] \in Nat
        /\ \E last \in Games : \A g \in Games : h.asOf[g] <= h.asOf[last]

VARIABLE facts      \* [season, asOf, known, ...]: functions of Games

AsOf(gs) == {facts.asOf[g] : g \in gs}
InSeason(gs, s) == {g \in gs : facts.season[g] = s}
SeasonsOf(gs) == {facts.season[g] : g \in gs}

\* itertools.pairwise(sorted(by_season))
PreviousSeason(gs, s) == Max({t \in SeasonsOf(gs) : t < s})
LaterSeasons(gs) == SeasonsOf(gs) \ {Min(SeasonsOf(gs))}

\* The seasons follow one another in time, each wholly before the next.
SeasonsInOrder(gs) ==
    \A s \in LaterSeasons(gs) :
        Max(AsOf(InSeason(gs, PreviousSeason(gs, s)))) < Min(AsOf(InSeason(gs, s)))

\* A fold: everything up to the middle of the gap before the season it scores.
SeasonFold(gs, s) ==
    LET trainLast == Max(AsOf(InSeason(gs, PreviousSeason(gs, s))))
        scoreFirst == Min(AsOf(InSeason(gs, s)))
        trainEnd == trainLast + (scoreFirst - trainLast) \div 2
    IN [trainStart |-> Min(AsOf(gs)), trainEnd |-> trainEnd, selectionEnd |-> trainEnd,
        scoreStart |-> scoreFirst, scoreEnd |-> Max(AsOf(InSeason(gs, s)))]

SeasonFolds(gs) ==
    [n \in 1..Cardinality(LaterSeasons(gs)) |->
        SeasonFold(gs, CHOOSE s \in LaterSeasons(gs) :
                            Cardinality({t \in LaterSeasons(gs) : t <= s}) = n)]

\* WalkForwardFold.__post_init__
WellFormed(f) ==
    /\ f.trainStart <= f.trainEnd /\ f.trainEnd <= f.selectionEnd
    /\ f.selectionEnd < f.scoreStart /\ f.scoreStart <= f.scoreEnd

\* validate_expanding_folds
Expanding(folds) ==
    /\ Len(folds) > 0
    /\ \A n \in 1..Len(folds) :
          WellFormed(folds[n]) /\ folds[n].trainStart = folds[1].trainStart
    /\ \A n \in 2..Len(folds) :
          /\ folds[n].trainEnd >= folds[n - 1].trainEnd
          /\ folds[n].selectionEnd >= folds[n - 1].selectionEnd
          /\ folds[n].scoreStart > folds[n - 1].scoreEnd

FitGames(gs, f) ==
    {g \in gs : facts.asOf[g] <= f.trainEnd /\ facts.known[g] <= f.trainEnd}

ScoreGames(gs, f) ==
    {g \in gs : f.scoreStart <= facts.asOf[g] /\ facts.asOf[g] <= f.scoreEnd}
=============================================================================
