------------------------ MODULE SimulationInvariants ------------------------
(***************************************************************************)
(* The normative checks of simulation/invariants.py and                    *)
(* contracts/invariants.yml.  They are said to be asserted on every        *)
(* simulated game; `simulate_game` asserts nine of its own instead         *)
(* (VectorInvariants), and these are called by tests alone.  Here they are *)
(* asked of every draw the simulation can make.                            *)
(*                                                                         *)
(* check_period_consistency is left out: a player's total is the sum of    *)
(* his periods in GameSimulation as it is in the code.                     *)
(***************************************************************************)
EXTENDS GameSimulation

\* check_team_invariants: INV001-004, INV007.
TeamInvariants(side, d) ==
    LET team(name) == TeamTotal(side, d, name)
    IN  /\ team("sacks") + team("attempts") = team("dropbacks")
        /\ team("attempts") <= team("dropbacks")
        /\ team("dropbacks") + team("rushes") = team("plays")
        /\ team("directed") <= team("attempts")
        /\ team("picks") <= team("attempts")

\* check_allocation_invariants: INV005, INV006, INV023.
AllocationInvariants(side, d) ==
    LET team(name) == TeamTotal(side, d, name)
        all(name) == SquadTotal(side, d, name)
    IN  /\ all("targets") = team("directed")
        /\ all("rush_attempts") = team("rushes")
        /\ all("passing_attempts") = team("attempts")

\* check_player_invariants: INV010, INV012, INV013, INV031, and INV040 of
\* everybody on the team, listed or not.
PlayerInvariants(side, d) ==
    /\ \A p \in Ids(side) :
           LET of(name) == PlayerTotal(side, d, name, p)
           IN  /\ of("receptions") <= of("targets")
               /\ of("rush_attempts") = 0 => of("longest_rush") = 0
               /\ of("receptions") = 0 => of("longest_reception") = 0
               /\ of("fg_made") <= of("fg_attempts")
    /\ \A p \in squad : p.team = side /\ ~p.active => p.id \notin Ids(side)

\* check_qb_coherence: INV020-022 of the quarterback the team threw with.
QBCoherence(side, d) ==
    LET qb == Starter(players[side], "QB")
        same(mine, theirs) == PlayerTotal(side, d, mine, qb) = SquadTotal(side, d, theirs)
    IN  /\ same("passing_completions", "receptions")
        /\ same("passing_yards", "receiving_yards")
        /\ same("passing_tds", "receiving_tds")

\* check_first_td_distribution: INV060, INV061, over all the draws.
FirstTouchdownDistribution ==
    LET firstOf(p) == Cardinality({d \in Draws : first[d] = p})
        ids == UNION {Ids(side) : side \in Sides}
        scoreless == {d \in Draws : \A side \in Sides : TeamTotal(side, d, "touchdowns") = 0}
    IN  /\ Total([p \in ids |-> firstOf(p)], ids) + firstOf(Nobody) = NDraws
        /\ firstOf(Nobody) = Cardinality(scoreless)

(***************************************************************************)
(* Properties                                                              *)
(***************************************************************************)
\* What no check asks: touchdowns and points add up between the team and its
\* players, whoever scores had the ball, and a draw that is not level after
\* regulation is given nothing in the overtime that others play
\* (game.py:359-383, :440, :648-656).
ScoresAddUp(side, d) ==
    LET team(name) == TeamTotal(side, d, name)
        all(name) == SquadTotal(side, d, name)
        of(name, p) == PlayerTotal(side, d, name, p)
    IN  /\ team("touchdowns") = all("receiving_tds") + all("rushing_tds")
        /\ all("xp_made") <= team("touchdowns")
        /\ Starter(players[side], "K") # 0 =>
               team("points") = 6 * team("touchdowns") + 3 * all("fg_made") + all("xp_made")
        /\ \A p \in Ids(side) :
               /\ of("receiving_tds", p) > 0 => of("receptions", p) > 0
               /\ of("rushing_tds", p) > 0 => of("rush_attempts", p) > 0
        /\ \A q \in PeriodsOf(d) :
               q > Quarters /\ ~Tied(d) => Events(lines[d][q][side]) = 0

\* The first scorer of a draw scored, and nobody, of either team, scored in an
\* earlier period (game.py:721-741).
FirstScorerScored(d) ==
    LET scored(q) == UNION {{p \in Ids(side) : TouchdownsIn(side, d, q, p) > 0} : side \in Sides}
    IN  first[d] # Nobody =>
            \E q \in PeriodsOf(d) : first[d] \in scored(q) /\ \A r \in 1..(q - 1) : scored(r) = {}

\* A finished simulation satisfies every normative check in every draw.
DrawsCohere ==
    phase = "done" =>
        /\ FirstTouchdownDistribution
        /\ \A d \in Draws :
               /\ FirstScorerScored(d)
               /\ \A side \in Sides :
                      /\ TeamInvariants(side, d) /\ AllocationInvariants(side, d)
                      /\ PlayerInvariants(side, d) /\ QBCoherence(side, d)
                      /\ ScoresAddUp(side, d)
=============================================================================
