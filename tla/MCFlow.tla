------------------------------- MODULE MCFlow -------------------------------
(* The flow: two players.  A roster row that arrives late takes one of them  *)
(* out of the game and leaves the other's numbers as they were; a later one  *)
(* changes a number.  One quote is of a market without a settlement rule, in *)
(* the last version there is no quote at all.                                *)
(*                                                                           *)
(* The draws: a home team whose first quarterback is out, an away team that  *)
(* has a kicker without a share and no quarterback, a half of one quarter,   *)
(* and an overtime.                                                          *)
EXTENDS CheckpointForecast

Both == [eligible |-> {"ann", "bob"}, value |-> [p \in {"ann", "bob"} |-> "low"],
         quotes |-> {"ann", "bob"}, unsupported |-> {"bob"}, stale |-> {}]
WithoutBob == [Both EXCEPT !.eligible = {"ann"}, !.stale = {"ann"}]
BobHigher == [Both EXCEPT !.value["bob"] = "high", !.quotes = {}]

ThreeVersions == <<Both, WithoutBob, BobHigher>>
OneTroubleAtMost == {{}} \cup {{t} : t \in Troubles}

Player(id, side, position, active, shares, qbShare, depth) ==
    [id |-> id, team |-> side, position |-> position, active |-> active,
     shares |-> shares, qbShare |-> qbShare, depth |-> depth]

SecondStringers == {{Player(1, "home", "QB", FALSE, TRUE, 2, 1),
                     Player(3, "home", "QB", TRUE, TRUE, 1, 2),
                     Player(2, "away", "K", TRUE, FALSE, 0, 1)}}

Ladder(stat, values) == [stat |-> stat, values |-> values]
SmallCatalog ==
    [event |-> "AT_LEAST", expected |-> 5,
     derived |-> {[stat |-> "rush_rec_tds", inputs |-> {"receiving_tds", "rushing_tds"}]},
     ladders |-> {Ladder("anytime_td", <<1>>), Ladder("receiving_yards", <<1, 4>>),
                  Ladder("rush_rec_tds", <<1, 2>>)}]

Offer(player, prop, market, line, odds) ==
    [player |-> player, prop |-> prop, market |-> market, line |-> line, odds |-> odds]
SixOffers ==
    {Offer(1, "anytime_td", "milestone", 1, TRUE),
     Offer(3, "receiving_yards", "over_under", 8, TRUE),
     Offer(3, "first_td", "milestone", NoLine, TRUE),
     Offer(2, "kicking_points", "over_under", 6, TRUE),
     Offer(3, "anytime_td", "over_under", 1, TRUE),
     Offer(3, "receiving_yards", "parlay", 8, TRUE)}

FourYards == {4}
OneYardLost == {-1}
=============================================================================
