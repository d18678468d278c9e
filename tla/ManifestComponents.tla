------------------------- MODULE ManifestComponents -------------------------
(***************************************************************************)
(* How a checkpoint's manifest digests a partitioned table                 *)
(* (orchestration/manifest.py over data/warehouse.py): the whole frame,    *)
(* sorted and hashed, and the streamed digest of the live history that     *)
(* must be the same bytes in bounded memory.  A claim may take one path    *)
(* and its re-check another, so a difference refuses the claim for ever.   *)
(*                                                                         *)
(* A digest is the sequence of rows fed to it.  Rows carry no columns in   *)
(* PartitionedTable: a cast says, for each key, whether the row is in      *)
(* scope and of which team and player; rows of one batch share a receipt   *)
(* time, and sort alike when they are one player's.  Props have no team:   *)
(* there the pair of team and player stands for a player's id.             *)
(***************************************************************************)
EXTENDS PartitionedTable, Sequences, Functions

CONSTANTS BatchRows,    \* _PLAYER_PROPS_BATCH_ROWS
          Casts         \* functions of Keys to [scope, team, player]

NoPlayer == 0           \* a null canonical_player_id
NoDigest == <<"none">>  \* None: the caller takes the whole-frame path

ASSUME ManifestAssumption ==
    /\ BatchRows \in Nat \ {0}
    /\ Casts \subseteq
          [Keys -> [scope : BOOLEAN, team : Nat \ {0}, player : Nat]]

-----------------------------------------------------------------------------
\* Reading only what is in scope, one file at a time.

\* In ascending order; of two that sort alike either may come first.
Listing(S, Less(_, _)) ==
    CHOOSE list \in [1..Cardinality(S) -> S] :
        \A i, j \in 1..Cardinality(S) :
            i < j => list[i] # list[j] /\ ~Less(list[j], list[i])

InOrder(files) == Listing(files, LAMBDA p, q : p.s < q.s)

InScope(cast, rows) == {r \in rows : cast[r.key].scope}

\* A file whose index does not hold the game is not scanned.
Holds(cast, file) == \E r \in file.rows : cast[r.key].scope

Scanned(cast, file) == IF Holds(cast, file) THEN InScope(cast, file.rows) ELSE {}

\* Spooled files are merged until they hold a batch of rows.
AddToSpool(acc, rows) ==
    LET merged == acc.buffer \cup rows
        full == Cardinality(merged) >= BatchRows
    IN  [parts |-> IF full THEN Append(acc.parts, merged) ELSE acc.parts,
         buffer |-> IF full THEN {} ELSE merged]

\* _spool_scoped_files: one pass over the live files.
Spool(files, cast) ==
    LET spooled[i \in 0..Len(files)] ==
            IF i = 0 THEN [parts |-> <<>>, buffer |-> {}]
            ELSE AddToSpool(spooled[i - 1], Scanned(cast, files[i]))
        last == spooled[Len(files)]
    IN  Append(last.parts, last.buffer)

Person(cast, r) == <<cast[r.key].team, cast[r.key].player>>

\* read_table_scoped over the spooled parts.
ReadSpool(spool, People, cast) == {r \in UNION Range(spool) : Person(cast, r) \in People}

-----------------------------------------------------------------------------
\* The digests.

SortKey(cast, r) == <<cast[r.key].team, cast[r.key].player, r.ver>>

Before(a, b) ==
    \E i \in 1..Len(a) : a[i] < b[i] /\ \A j \in 1..i - 1 : a[j] = b[j]

\* Mutant: a tie is hashed in whatever order the sort left it.
HashTies(cast, rows) == FALSE

\* frame.select(sort_keys).is_duplicated().any()
Tied(cast, rows) == \E r, t \in rows : r # t /\ SortKey(cast, r) = SortKey(cast, t)

Sorted(cast, rows) ==
    Listing(rows, LAMBDA r, t : Before(SortKey(cast, r), SortKey(cast, t)))

\* _content_component of the rows `read_table` returns.
WholeFrame(cast) == Sorted(cast, InScope(cast, Stored))

\* A roster batch never spans a team; a batch of one game's props may.
MayJoin(table, person, next) == table = "roster_snapshots" => person[1] = next[1]

\* The batch that is open after each person, and how many rows it holds.
Batching(table, people, spool, cast) ==
    LET open[i \in 0..Len(people)] ==
            IF i = 0 THEN [batch |-> 0, rows |-> 0]
            ELSE LET last == open[i - 1]
                     n == Cardinality(ReadSpool(spool, {people[i]}, cast))
                 IN  IF /\ i > 1 /\ MayJoin(table, people[i - 1], people[i])
                        /\ last.rows + n <= BatchRows
                     THEN [last EXCEPT !.rows = @ + n]
                     ELSE [batch |-> last.batch + 1, rows |-> n]
    IN  open

\* The rows of each batch.
Frames(table, spool, cast) ==
    LET people == Listing({Person(cast, r) : r \in UNION Range(spool)}, Before)
        open == Batching(table, people, spool, cast)
        In(b) == {people[i] : i \in {k \in 1..Len(people) : open[k].batch = b}}
    IN  [b \in 1..open[Len(people)].batch |-> ReadSpool(spool, In(b), cast)]

\* _RowsDigest: one digest is fed the sorted rows of each batch.
Digest(frames, cast) ==
    LET fed[i \in 0..Len(frames)] ==
            IF i = 0 THEN <<>> ELSE fed[i - 1] \o Sorted(cast, frames[i])
    IN  fed[Len(frames)]

\* _player_props_component_from, _streamed_roster_component
Streamed(spool, frames, cast) ==
    LET rows == UNION Range(spool) IN
    IF \/ rows = {} \/ \E r \in rows : cast[r.key].player = NoPlayer
       \/ \E i \in DOMAIN frames : Tied(cast, frames[i])
    THEN NoDigest ELSE Digest(frames, cast)

-----------------------------------------------------------------------------
(* Whatever appends, compactions and kills have made of the files, the streamed    *)
(* digest is the whole frame's or there is none; there is one whenever the order   *)
(* of the rows is determined; and no batch holds more than BatchRows rows unless   *)
(* they are one player's (manifest.py, _streamed_player_props_component).          *)
StreamedIsWhole ==
    wpc = "idle" =>
      LET files == InOrder(LiveFiles) IN
      \A cast \in Casts :
        LET rows == InScope(cast, Stored)
            determined == /\ rows # {}
                          /\ \A r \in rows : cast[r.key].player # NoPlayer
                          /\ \A r, t \in rows : SortKey(cast, r) = SortKey(cast, t) => r = t
            spool == Spool(files, cast)
        IN  \A table \in {"player_prop_snapshots", "roster_snapshots"} :
              LET frames == Frames(table, spool, cast) IN
              /\ Streamed(spool, frames, cast) = IF determined THEN WholeFrame(cast) ELSE NoDigest
              /\ \A i \in DOMAIN frames :
                    \/ Cardinality(frames[i]) <= BatchRows
                    \/ Cardinality({Person(cast, r) : r \in frames[i]}) = 1
=============================================================================
