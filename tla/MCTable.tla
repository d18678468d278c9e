------------------------------ MODULE MCTable ------------------------------
(* Definitions the TLC configurations of PartitionedTable and              *)
(* ManifestComponents use.                                                 *)
EXTENDS ManifestComponents, TLC

\* Keys are interchangeable: no action names one, and the casts are closed under
\* every permutation of them.
KeySymmetry == Permutations(Keys)

Row(s, t, p) == [scope |-> s, team |-> t, player |-> p]
Elsewhere == Row(FALSE, 1, 1)

\* Every way to give the keys these identities, one each.
Deal(identities) ==
    {c \in [Keys -> {identities[i] : i \in DOMAIN identities}] :
        \A x \in {identities[i] : i \in DOMAIN identities} :
            Cardinality({k \in Keys : c[k] = x})
              = Cardinality({i \in DOMAIN identities : identities[i] = x})}

\* Three players of two teams and a row out of scope; a player with more rows than a
\* batch; a row without a player.
MCCasts ==
    UNION {Deal(<<Row(TRUE, 1, 1), Row(TRUE, 1, 2), Row(TRUE, 2, 1), Elsewhere>>),
           Deal(<<Row(TRUE, 1, 1), Row(TRUE, 1, 1), Row(TRUE, 1, 1), Row(TRUE, 1, 2)>>),
           Deal(<<Row(TRUE, 1, NoPlayer), Row(TRUE, 2, 1), Elsewhere, Elsewhere>>)}

NoCasts == {}
=============================================================================
