-------------------------- MODULE PartitionedTable --------------------------
(***************************************************************************)
(* One partitioned table of the warehouse (data/warehouse): an optional    *)
(* base file `<table>.parquet`, immutable part files `<table>.parts/`      *)
(* named for the range of sequence numbers they cover, and the directory   *)
(* `<table>.parts.replaced` a full rewrite parks the parts in.  Writers    *)
(* hold the writer lock, so there is one at a time; each action makes at   *)
(* most one durable change and a kill may fall between any two.            *)
(*                                                                         *)
(* A row is a natural key and the number of the batch that brought it.     *)
(* The order of rows, the receipt-time ranges that let a collision check   *)
(* skip files, and the `.tmp` files every write goes through are left out: *)
(* `read` sorts, a skipped file holds no row of the batch, and a temporary *)
(* file is never read.                                                     *)
(***************************************************************************)
EXTENDS Integers, FiniteSets

CONSTANTS Keys,         \* natural keys of rows
          MaxBatches,   \* bound: batches appended
          MaxKills,     \* bound: kills and failed writes
          Trigger,      \* _COMPACT_TRIGGER_PARTS
          Target        \* _COMPACT_TARGET_ROWS

ASSUME TableAssumption == /\ IsFiniteSet(Keys)
                          /\ MaxBatches \in Nat /\ MaxKills \in Nat
                          /\ Trigger \in Nat \ {0} /\ Target \in Nat \ {0}

VARIABLES base,      \* rows of <table>.parquet
          parts,     \* part files, of _all_parts
          parked,    \* part files in <table>.parts.replaced
          wpc,       \* what the writer does next
          batch,     \* the incoming frame
          out,       \* the frame a full rewrite will install
          groups,    \* part groups _compact still has to merge
          want,      \* ghost: concat(stored, frame).unique(key, keep)
          batches, kills

disk == <<base, parts, parked>>
work == <<batch, out, groups>>
vars == <<disk, wpc, work, want, batches, kills>>

\* A row is [key, ver]; a part file is [s, e, rows], named for its range s..e.
KeysOf(rows) == {r.key : r \in rows}
RowsOf(files) == UNION {p.rows : p \in files}

-----------------------------------------------------------------------------
\* What the table is.

\* _live_parts: a part within the range of another is superseded by it.
Covers(q, p) == <<q.s, q.e>> # <<p.s, p.e>> /\ q.s <= p.s /\ p.e <= q.e
Live(files) == {p \in files : \A q \in files : ~Covers(q, p)}

\* read_table over table_files.
Stored == base \cup RowsOf(Live(parts))

\* concat([current, frame]).unique(subset=key, keep=keep).
Combine(current, frame, keep) ==
    IF keep = "last" THEN {r \in current : r.key \notin KeysOf(frame)} \cup frame
                     ELSE current \cup {r \in frame : r.key \notin KeysOf(current)}

Frame(K) == {[key |-> k, ver |-> batches + 1] : k \in K}

-----------------------------------------------------------------------------
\* What _compact will merge.

Small(p) == Cardinality(p.rows) < Target

Oldest(files) == CHOOSE p \in files : \A q \in files : p.s <= q.s
Newest(files) == CHOOSE p \in files : \A q \in files : q.s <= p.s

Overfills(rows, p) == rows + Cardinality(p.rows) > Target

\* The rows of the group that is open when a live part is reached, in sequence order.
OpenRows(files) ==
    LET rows[p \in Live(files)] ==
            LET before == {q \in Live(files) : q.s < p.s}
                last == Newest(before)
            IN  IF before = {} \/ ~Small(last) THEN 0
                ELSE Cardinality(last.rows)
                     + IF Overfills(rows[last], last) THEN 0 ELSE rows[last]
    IN  rows

\* A full part, or one that would overfill the group, starts the next group...
Starts(files) ==
    LET rows == OpenRows(files)
    IN  {p \in Live(files) : ~Small(p) \/ Overfills(rows[p], p)}

\* ...and the small parts between two starts are merged, unless there is only one.
MergeGroups(files) ==
    LET small == {p \in Live(files) : Small(p)}
        starts == Starts(files)
        GroupOf(p) == {q \in small : \A b \in starts : b.s <= p.s <=> b.s <= q.s}
    IN  IF Cardinality(small) < Trigger THEN {}
        ELSE {g \in {GroupOf(p) : p \in small} : Cardinality(g) > 1}

Merged(g) == [s |-> Oldest(g).s, e |-> Newest(g).e, rows |-> RowsOf(g)]

\* The group _compact is at.
NextGroup == CHOOSE g \in groups : \A h \in groups : Oldest(g).s <= Oldest(h).s

-----------------------------------------------------------------------------
\* The incremental append: an append whose key, keep and sort match the spec.

BeginAppend(K) ==
    /\ wpc = "idle" /\ batches < MaxBatches
    /\ wpc' = "append" /\ batches' = batches + 1
    /\ batch' = Frame(K) /\ want' = Combine(Stored, Frame(K), "last")
    /\ UNCHANGED <<disk, out, groups, kills>>

Collides(rows) == KeysOf(rows) \cap KeysOf(batch) # {}
Superseded(rows) == {r \in rows : r.key \notin KeysOf(batch)}

\* The stored rows the batch supersedes leave the base file, which is read first...
SupersedeBase ==
    /\ wpc = "append" /\ Collides(base)
    /\ base' = Superseded(base)
    /\ UNCHANGED <<parts, parked, wpc, work, want, batches, kills>>

\* ...and then the live parts in sequence order, one file replaced at a time.
SupersedePart(p) ==
    /\ wpc = "append" /\ ~Collides(base)
    /\ p \in Live(parts) /\ Collides(p.rows)
    /\ \A q \in Live(parts) : Collides(q.rows) => p.s <= q.s
    /\ parts' = (parts \ {p}) \cup {[p EXCEPT !.rows = Superseded(@)]}
    /\ UNCHANGED <<base, parked, wpc, work, want, batches, kills>>

\* Mutant: the number of parts stands for the last sequence number.
CountedSeq == Cardinality(parts) + 1

\* seq: one past every part on disk, live or not.
NextSeq == CHOOSE n \in {1} \cup {p.e + 1 : p \in parts} : \A p \in parts : p.e < n

Compacting(files) ==
    /\ groups' = MergeGroups(files)
    /\ wpc' = IF groups' = {} THEN "idle" ELSE "compact"

PublishPart ==
    /\ wpc = "append" /\ ~Collides(Stored)
    /\ parts' = parts \cup {[s |-> NextSeq, e |-> NextSeq, rows |-> batch]}
    /\ Compacting(parts')
    /\ batch' = {}
    /\ UNCHANGED <<base, parked, out, want, batches, kills>>

\* A group's merged part is published before any of its inputs is deleted.
PublishMerged ==
    /\ wpc = "compact"
    /\ parts' = parts \cup {Merged(NextGroup)}
    /\ wpc' = "unlink"
    /\ UNCHANGED <<base, parked, work, want, batches, kills>>

Unlink ==
    LET left == NextGroup \ {Oldest(NextGroup)} IN
    /\ wpc = "unlink"
    /\ parts' = parts \ {Oldest(NextGroup)}
    /\ groups' = (groups \ {NextGroup}) \cup ({left} \ {{}})
    /\ wpc' = IF left # {} THEN "unlink" ELSE IF groups' # {} THEN "compact" ELSE "idle"
    /\ UNCHANGED <<base, parked, batch, out, want, batches, kills>>

-----------------------------------------------------------------------------
\* The full rewrite.

\* An append that does not match the spec.
BeginRewrite(K, keep) ==
    /\ wpc = "idle" /\ batches < MaxBatches
    /\ wpc' = "write" /\ batches' = batches + 1
    /\ batch' = Frame(K)
    /\ out' = Combine(Stored, Frame(K), keep) /\ want' = out'
    /\ UNCHANGED <<disk, groups, kills>>

\* A file the collision check cannot read beside the batch: the exact full rewrite.
FallBack ==
    /\ wpc = "append" /\ (base # {} \/ parts # {})
    /\ wpc' = "write" /\ out' = Combine(Stored, batch, "last")
    /\ UNCHANGED <<disk, batch, groups, want, batches, kills>>

\* rmtree of a directory an earlier rewrite left parked.
DropOldParked ==
    /\ wpc = "write" /\ parts # {} /\ parked # {}
    /\ parked' = {}
    /\ UNCHANGED <<base, parts, wpc, work, want, batches, kills>>

\* Mutant: the parts are removed instead of parked.
ParkNothing ==
    /\ wpc = "write" /\ parts # {} /\ parked = {}
    /\ parts' = {} /\ wpc' = "install"
    /\ UNCHANGED <<base, parked, work, want, batches, kills>>

Park ==
    /\ wpc = "write" /\ parts # {} /\ parked = {}
    /\ parked' = parts /\ parts' = {}
    /\ wpc' = "install"
    /\ UNCHANGED <<base, work, want, batches, kills>>

\* tmp.replace(path), with or without parts to drop afterwards.
Install ==
    /\ wpc = "install" \/ (wpc = "write" /\ parts = {})
    /\ base' = out /\ out' = {} /\ batch' = {}
    /\ wpc' = IF wpc = "install" THEN "drop" ELSE "idle"
    /\ UNCHANGED <<parts, parked, groups, want, batches, kills>>

DropParked ==
    /\ wpc = "drop"
    /\ parked' = {} /\ wpc' = "idle"
    /\ UNCHANGED <<base, parts, work, want, batches, kills>>

-----------------------------------------------------------------------------
\* Kills, and the housekeeping that cleans up after them.

\* The writer dies, or a write raises.  What an unfinished append or rewrite has
\* left behind is then the table; a finished one owes what it promised.
Kill ==
    /\ wpc # "idle" /\ kills < MaxKills
    /\ kills' = kills + 1 /\ wpc' = "idle"
    /\ batch' = {} /\ out' = {} /\ groups' = {}
    /\ want' = IF wpc \in {"append", "write", "install"} THEN Stored ELSE want
    /\ UNCHANGED <<disk, batches>>

\* sweep_orphans: a parked directory is an orphan once it is old enough.
Sweep ==
    /\ wpc = "idle" /\ parked # {}
    /\ parked' = {}
    /\ UNCHANGED <<base, parts, wpc, work, want, batches, kills>>

Init == /\ base = {} /\ parts = {} /\ parked = {}
        /\ wpc = "idle" /\ batch = {} /\ out = {} /\ groups = {} /\ want = {}
        /\ batches = 0 /\ kills = 0

Next == \/ \E K \in SUBSET Keys \ {{}} :
               BeginAppend(K) \/ \E keep \in {"first", "last"} : BeginRewrite(K, keep)
        \/ SupersedeBase \/ \E p \in parts : SupersedePart(p)
        \/ PublishPart \/ PublishMerged \/ Unlink
        \/ FallBack \/ DropOldParked \/ Park \/ Install \/ DropParked
        \/ Kill \/ Sweep

Spec == Init /\ [][Next]_vars

-----------------------------------------------------------------------------
\* The files `read` concatenates, the base file as the range before every part.
LiveFiles == {[s |-> 0, e |-> 0, rows |-> base]} \cup Live(parts)

(* An append gives what the full rewrite would give (_incremental_append), and     *)
(* neither the compaction that follows nor a kill in it, nor the clean-up of a     *)
(* parked directory, changes what is read.  Nothing deduplicates at read, so no    *)
(* two stored rows may ever share a natural key (PARTITIONED_TABLES).              *)
AppendIsExact ==
    /\ wpc \in {"idle", "compact", "unlink", "drop"} => Stored = want
    /\ \A f, g \in LiveFiles : f # g => KeysOf(f.rows) \cap KeysOf(g.rows) = {}
    /\ \A f \in LiveFiles : \A r, t \in f.rows : r.key = t.key => r = t

(* Until a write is finished, every row it keeps from before is on disk: in the    *)
(* base file, a live part or a parked one.  Only the incoming batch is in memory.  *)
OldRowsOnDisk == \A r \in want : r \in batch \cup Stored \cup RowsOf(Live(parked))

(* What sweep_orphans deletes "can only be an abandoned temp or staging artifact": *)
(* no parked row is the only copy of its key.                                      *)
ParkedIsAbandoned == wpc = "idle" => KeysOf(RowsOf(Live(parked))) \subseteq KeysOf(Stored)
=============================================================================
