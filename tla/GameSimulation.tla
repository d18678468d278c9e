--------------------------- MODULE GameSimulation ---------------------------
(***************************************************************************)
(* `simulate_game` (simulation/game.py): the one coherent simulation every *)
(* product of a checkpoint is read from.  The numbers are Monte Carlo      *)
(* draws; here a draw is any value its distribution gives a chance, and    *)
(* what is kept is how the draws of one team and one period depend on each *)
(* other, how periods add up, and who scored first.                        *)
(*                                                                         *)
(* The draws advance together, period by period, as the arrays do.         *)
(* MaxEvents bounds the plays and field goal attempts of all of them.      *)
(* Two events of floating point are left out, each with a chance of about  *)
(* 2^-53 a draw: a uniform of exactly 0 in the first-touchdown choice, and *)
(* a conditional probability that rounds below 1 for the last player with  *)
(* a weight.                                                               *)
(***************************************************************************)
EXTENDS Integers, Sequences, FiniteSets, FiniteSetsExt, SequencesExt

CONSTANTS
    Squads,      \* sets of players the states of the two teams may hold
    NDraws,      \* SimulationConfig.n_draws
    Quarters,    \* regulation periods of a game, 4 in the code
    Gains,       \* yards a player's touches in a period may gain
    LongGains,   \* and the longest of them
    MaxEvents    \* plays and field goal attempts of all draws together

Sides == {"home", "away"}
Draws == 1..NDraws

\* A player has one state, of one team, and a quarterback's share; depth 0 is
\* a depth that is not known.
PlayerStates ==
    [id : Nat \ {0}, team : Sides, position : STRING, active : BOOLEAN, shares : BOOLEAN,
     qbShare : Nat, depth : Nat]

ASSUME SimulationAssumption ==
    /\ NDraws \in Nat \ {0} /\ Quarters \in Nat \ {0} /\ MaxEvents \in Nat
    /\ Gains \subseteq Int /\ LongGains \subseteq Int
    /\ \A set \in Squads :
           /\ IsFiniteSet(set) /\ set \subseteq PlayerStates
           /\ \A p, q \in set : p.id = q.id => p = q

VARIABLES
    squad,       \* the player states of this game
    players,     \* whom the simulation lists, per side
    turn,        \* how many periods of a draw are simulated
    lines,       \* per draw, what each side did in each period
    left,        \* events that may still happen
    first,       \* first touchdown scorer of each draw
    phase        \* "periods", "first", "done" or "aborted"

simVars == <<squad, players, turn, lines, left, first, phase>>

Total(f, S) == MapThenSumSet(LAMBDA p : f[p], S)
Highest(f, S) == Max({f[p] : p \in S})

(***************************************************************************)
(* Who plays                                                               *)
(***************************************************************************)
Other(side) ==
    [id |-> IF side = "home" THEN -1 ELSE -2, team |-> side, position |-> "OTHER",
     active |-> TRUE, shares |-> TRUE, qbShare |-> 0, depth |-> 0]
NoNameQB(side) ==
    [Other(side) EXCEPT !.id = IF side = "home" THEN -3 ELSE -4,
                        !.position = "QB", !.qbShare = 1]

InOrder(set) ==
    CHOOSE list \in [1..Cardinality(set) -> set] :
        \A i, j \in DOMAIN list : i < j => list[i].id < list[j].id
ActiveOf(side) == {p \in squad : p.team = side /\ p.active}

\* The active players by id, then the rest of the team, then a quarterback if
\* the team has none.
EnsurePlayers(side) ==
    LET listed == InOrder(ActiveOf(side)) \o <<Other(side)>>
    IN  IF \E p \in ActiveOf(side) : p.position = "QB" THEN listed
        ELSE Append(listed, NoNameQB(side))

Ids(side) == {players[side][i].id : i \in DOMAIN players[side]}

CandidatesAt(list, position) ==
    {i \in DOMAIN list : list[i].active /\ list[i].position = position}

Depth(p) == IF p.depth = 0 THEN 99 ELSE p.depth

\* Nobody comes before him; of equals, the first in the list.
StarterBefore(list, position, i, j) ==
    LET p == list[i]
        q == list[j]
        depthFirst == Depth(p) < Depth(q) \/ (Depth(p) = Depth(q) /\ i < j)
    IN  IF position = "QB"
        THEN p.qbShare > q.qbShare \/ (p.qbShare = q.qbShare /\ depthFirst)
        ELSE depthFirst

\* The starter's id, or 0 where the list has nobody at the position.
Starter(list, position) ==
    LET candidates == CandidatesAt(list, position)
    IN  IF candidates = {} THEN 0
        ELSE list[CHOOSE i \in candidates :
                 \A j \in candidates \ {i} : StarterBefore(list, position, i, j)].id

(***************************************************************************)
(* What a team does in a period                                            *)
(***************************************************************************)
\* dirichlet_multinomial_batch: the shares are floored, so that everybody
\* listed may be given some of the count; nothing is lost.
Allocations(count, ids) == {a \in [ids -> 0..count] : Total(a, ids) = count}

\* Mutant: the weights only rank the players, they do not exclude any.
AllocationsToAny(count, weight) == Allocations(count, DOMAIN weight)

\* weighted_count_allocation_batch: a player without weight gets none, and
\* where nobody has any the count is dropped.
WeightedAllocations(count, weight) ==
    LET ids == DOMAIN weight
    IN  IF Total(weight, ids) = 0 THEN {[p \in ids |-> 0]}
        ELSE {a \in Allocations(count, ids) : \A p \in ids : weight[p] = 0 => a[p] = 0}

UpTo(most) == {f \in [DOMAIN most -> 0..Highest(most, DOMAIN most)] :
                  \A p \in DOMAIN most : f[p] <= most[p]}
Minus(f, g) == [p \in DOMAIN f |-> f[p] - g[p]]

\* Plays, dropbacks, sacks and targets of the team.
PlayMix(plays) ==
    {m \in [plays : {plays}, dropbacks : 0..plays, sacks : 0..plays, directed : 0..plays] :
        m.sacks <= m.dropbacks /\ m.directed <= m.dropbacks - m.sacks}

\* Interceptions are drawn among the targets, receptions among the rest.
Throws(directed, ids) ==
    LET caught(t, i) ==
            {[targets |-> t, picks |-> i, receptions |-> c] : c \in UpTo(Minus(t, i))}
    IN  UNION {UNION {caught(t, i) : i \in UpTo(t)} : t \in Allocations(directed, ids)}

\* _gain_aggregate and _gain_max: nothing without an event, and otherwise two
\* numbers drawn independently of each other.
Gained(count, gains) ==
    LET touched == {p \in DOMAIN count : count[p] > 0}
    IN  {[p \in DOMAIN count |-> IF p \in touched THEN g[p] ELSE 0] :
            g \in [touched -> gains]}

\* Touchdowns are at most the plays that could score; a rushing touchdown too
\* many becomes a passing one, as far as completions go.
Touchdowns(completions, rushes) ==
    LET Typed(all, pass) ==
            LET passing == Min({pass, completions})
                rushing == all - passing
            IN  [pass |-> Min({passing + Max({rushing - rushes, 0}), completions}),
                 rush |-> Min({rushing, rushes})]
    IN  UNION {{Typed(all, pass) : pass \in 0..all} : all \in 0..(completions + rushes)}

\* Field goals tried and made, extra points made.
Kicks(touchdowns, most) ==
    {k \in [tried : 0..most, made : 0..most, extra : 0..touchdowns] : k.made <= k.tried}

\* Only the starter has the number, whatever the team did.
OnlyOf(starter, ids, number) == [p \in ids |-> IF p = starter THEN number ELSE 0]

\* One draw of _simulate_team_period: team totals, then players' columns.
PeriodOf(side, mix, throws, yards, carries, ground, scored, kicks) ==
    LET ids == Ids(side)
        qb == Starter(players[side], "QB")
        kicker == Starter(players[side], "K")
        attempts == mix.dropbacks - mix.sacks
        touchdowns == Total(scored.pass, ids) + Total(scored.rush, ids)
    IN  [plays |-> mix.plays, dropbacks |-> mix.dropbacks, sacks |-> mix.sacks,
         attempts |-> attempts, rushes |-> mix.plays - mix.dropbacks,
         tried |-> kicks.tried, directed |-> mix.directed,
         picks |-> Total(throws.picks, ids),
         touchdowns |-> touchdowns,
         points |-> 6 * touchdowns + 3 * kicks.made + kicks.extra,
         of |-> [targets |-> throws.targets, receptions |-> throws.receptions,
                 receiving_yards |-> yards.sum, longest_reception |-> yards.longest,
                 receiving_tds |-> scored.pass,
                 rush_attempts |-> carries, rushing_yards |-> ground.sum,
                 longest_rush |-> ground.longest, rushing_tds |-> scored.rush,
                 passing_attempts |-> OnlyOf(qb, ids, attempts),
                 passing_completions |-> OnlyOf(qb, ids, Total(throws.receptions, ids)),
                 passing_yards |-> OnlyOf(qb, ids, Total(yards.sum, ids)),
                 passing_tds |-> OnlyOf(qb, ids, Total(scored.pass, ids)),
                 interceptions |-> OnlyOf(qb, ids, Total(throws.picks, ids)),
                 longest_pass |-> OnlyOf(qb, ids, Highest(yards.longest, ids)),
                 fg_attempts |-> OnlyOf(kicker, ids, kicks.tried),
                 fg_made |-> OnlyOf(kicker, ids, kicks.made),
                 xp_made |-> OnlyOf(kicker, ids, kicks.extra)]]

\* Everything a side may do in a period with at most so many events.
Periods(side, most) ==
    LET ids == Ids(side)
        Yards(count) == [sum : Gained(count, Gains), longest : Gained(count, LongGains)]
        Scored(throws, carries) ==
            UNION {[pass : WeightedAllocations(t.pass, throws.receptions),
                    rush : WeightedAllocations(t.rush, carries)] :
                      t \in Touchdowns(Total(throws.receptions, ids), Total(carries, ids))}
        Run(mix, throws, carries) ==
            UNION {{PeriodOf(side, mix, throws, y[1], carries, y[2], y[3], kicks) :
                       kicks \in Kicks(Total(y[3].pass, ids) + Total(y[3].rush, ids),
                                       most - mix.plays)} :
                      y \in Yards(throws.receptions) \X Yards(carries)
                               \X Scored(throws, carries)}
    IN  UNION {Run(x[1], x[2], x[3]) : x \in
            UNION {{mix} \X Throws(mix.directed, ids)
                         \X Allocations(mix.plays - mix.dropbacks, ids) :
                      mix \in UNION {PlayMix(plays) : plays \in 0..most}}}

(***************************************************************************)
(* A game                                                                  *)
(***************************************************************************)
\* Period by period, each of all the draws.
Turns(periods) == periods * NDraws
PeriodAt(n) == (n \div NDraws) + 1
DrawAt(n) == (n % NDraws) + 1

RegulationPoints(side, d) ==
    Total([q \in 1..Quarters |-> lines[d][q][side].points], 1..Quarters)
Tied(d) == RegulationPoints("home", d) = RegulationPoints("away", d)

\* Mutant: when one draw goes into overtime, all of them do.
TiedSomewhere(d) == \E e \in Draws : Tied(e)

PlaysOvertime(d) == Tied(d)

\* What overtime adds to a draw that is not in it.
NoPeriod(side) ==
    LET none == [p \in Ids(side) |-> 0]
        noGain == [sum |-> none, longest |-> none]
    IN  PeriodOf(side, [plays |-> 0, dropbacks |-> 0, sacks |-> 0, directed |-> 0],
                 [targets |-> none, picks |-> none, receptions |-> none],
                 noGain, none, noGain, [pass |-> none, rush |-> none],
                 [tried |-> 0, made |-> 0, extra |-> 0])

Events(line) == line.plays + line.tried

\* Overtime is simulated when some draw is level, and kept where it is.
LastTurn ==
    IF turn >= Turns(Quarters) /\ \E d \in Draws : Tied(d)
    THEN Turns(Quarters + 1) ELSE Turns(Quarters)

SimulatePeriod ==
    LET d == DrawAt(turn)
        Played(side, most) ==
            IF PeriodAt(turn) > Quarters /\ ~PlaysOvertime(d) THEN {NoPeriod(side)}
            ELSE Periods(side, most)
    IN  /\ phase = "periods" /\ turn < LastTurn
        /\ \E home \in Played("home", left) :
           \E away \in Played("away", left - Events(home)) :
               /\ lines' = [lines EXCEPT ![d] = Append(@, [home |-> home, away |-> away])]
               /\ left' = left - Events(home) - Events(away)
        /\ turn' = turn + 1
        /\ UNCHANGED <<squad, players, first, phase>>

(***************************************************************************)
(* The game the draws add up to                                            *)
(***************************************************************************)
PeriodsOf(d) == DOMAIN lines[d]
TeamTotal(side, d, name) ==
    Total([q \in PeriodsOf(d) |-> lines[d][q][side][name]], PeriodsOf(d))

In(side, d, q, name, p) == lines[d][q][side].of[name][p]

Longest == {"longest_reception", "longest_rush", "longest_pass"}

\* _add_period: the longest of the periods' longest, the sum of all else.
PlayerTotal(side, d, name, p) ==
    LET byPeriod == [q \in PeriodsOf(d) |-> In(side, d, q, name, p)]
    IN  IF name \in Longest THEN Highest(byPeriod, PeriodsOf(d))
        ELSE Total(byPeriod, PeriodsOf(d))

SquadTotal(side, d, name) ==
    Total([p \in Ids(side) |-> PlayerTotal(side, d, name, p)], Ids(side))

\* _vector_invariants: what the program itself asserts of every draw.
VectorInvariants(side, d) ==
    LET team(name) == TeamTotal(side, d, name)
        all(name) == SquadTotal(side, d, name)
    IN  /\ team("sacks") + team("attempts") = team("dropbacks")
        /\ team("dropbacks") + team("rushes") = team("plays")
        /\ all("targets") = team("directed")
        /\ all("rush_attempts") = team("rushes")
        /\ \A p \in Ids(side) :
               PlayerTotal(side, d, "receptions", p) <= PlayerTotal(side, d, "targets", p)
        /\ all("passing_attempts") = team("attempts")
        /\ all("passing_completions") = all("receptions")
        /\ all("passing_yards") = all("receiving_yards")
        /\ all("passing_tds") = all("receiving_tds")

AssertInvariants ==
    /\ phase = "periods" /\ turn = LastTurn
    /\ phase' = IF \A side \in Sides, d \in Draws : VectorInvariants(side, d)
                THEN "first" ELSE "aborted"
    /\ UNCHANGED <<squad, players, turn, lines, left, first>>

TouchdownsIn(side, d, q, p) ==
    In(side, d, q, "receiving_tds", p) + In(side, d, q, "rushing_tds", p)

\* Who scored in period q of draw d, of either side.
ScorersIn(d, q) ==
    UNION {{p \in Ids(side) : TouchdownsIn(side, d, q, p) > 0} : side \in Sides}

ScoringPeriods(d) == {q \in PeriodsOf(d) : ScorersIn(d, q) # {}}

\* Mutant: the first scorer is drawn among all the scorers of the game.
AnyScorer(d) == UNION {ScorersIn(d, q) : q \in ScoringPeriods(d)}

\* The first scorer is drawn among the scorers of the first scoring period.
FirstScorers(d) ==
    IF ScoringPeriods(d) = {} THEN {} ELSE ScorersIn(d, Min(ScoringPeriods(d)))

Nobody == 0

PickFirstScorers ==
    /\ phase = "first"
    /\ first' \in [Draws -> {Nobody} \cup UNION {FirstScorers(d) : d \in Draws}]
    /\ \A d \in Draws : IF FirstScorers(d) = {} THEN first'[d] = Nobody
                        ELSE first'[d] \in FirstScorers(d)
    /\ phase' = "done"
    /\ UNCHANGED <<squad, players, turn, lines, left>>

SimulationInit ==
    /\ squad \in Squads
    /\ players = [side \in Sides |-> EnsurePlayers(side)]
    /\ turn = 0 /\ left = MaxEvents
    /\ lines = [d \in Draws |-> <<>>]
    /\ first = [d \in Draws |-> Nobody]
    /\ phase = "periods"

SimulationNext == SimulatePeriod \/ AssertInvariants \/ PickFirstScorers
=============================================================================
