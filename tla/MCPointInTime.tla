--------------------------- MODULE MCPointInTime ---------------------------
(* A target game in week 2 and a game of week 1 of an estimated season.  A *)
(* behaviour has one budget: a moving market with a claim and a prediction *)
(* on it; a history corrected twice and more; a prediction when results    *)
(* and late receipts arrive; a settled prediction whose result changes.    *)
EXTENDS PointInTime

CONSTANTS early, late

TwoWeeks == (early :> 1) @@ (late :> 2)

Budget(c, m, f, r, d, k, p) ==
    [cycles |-> c, moves |-> m, fetches |-> f, results |-> r, receipts |-> d, claims |-> k, predictions |-> p]

MCBudgets ==
    {Budget(3, 2, 0, 0, 0, 1, 1),
     Budget(0, 0, 3, 2, 0, 0, 0),
     Budget(1, 0, 1, 1, 1, 0, 1),
     Budget(1, 0, 2, 2, 0, 0, 1)}

DriftBudgets == {Budget(1, 0, 1, 1, 0, 1, 0)}  \* one cycle, one backfill, one claim

Interchangeable == Permutations(Backfills)

=============================================================================
