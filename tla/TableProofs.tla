---------------------------- MODULE TableProofs ----------------------------
(***************************************************************************)
(* What a partitioned table is after any history of appends, compactions,  *)
(* rewrites and kills: an append gives exactly what the full rewrite would *)
(* (AppendIsExact), until a write is finished every row it keeps is on     *)
(* disk (OldRowsOnDisk), and the digest a manifest streams from the files  *)
(* is the whole frame's (StreamedIsWhole), for every number of batches,    *)
(* kills and parts, every cast and every size of batch.                    *)
(***************************************************************************)
EXTENDS ManifestComponents, WellFoundedInduction, FiniteSetTheorems, SequenceTheorems, TLAPS

Row == [key : Keys, ver : Nat]
PartFile == [s : Nat \ {0}, e : Nat, rows : SUBSET Row]
Labels == {"idle", "append", "compact", "unlink", "write", "install", "drop"}

\* No two parts overlap unless one supersedes the other, and what is superseded
\* is so by a live part.
Apart(p, q) == p.e < q.s \/ q.e < p.s
Tidy(files) ==
    /\ files \subseteq PartFile
    /\ \A p \in files : p.s <= p.e
    /\ \A p, q \in files : p = q \/ Covers(p, q) \/ Covers(q, p) \/ Apart(p, q)
    /\ \A p \in files : \E q \in Live(files) : q = p \/ Covers(q, p)

\* One row per natural key, in one file.
Unique(rows) == \A r, t \in rows : r.key = t.key => r = t
OncePerKey(rows, live) ==
    /\ Unique(rows)
    /\ \A r \in rows : \A p \in live : \A t \in p.rows : r.key # t.key
    /\ \A p, q \in live : \A r \in p.rows, t \in q.rows : r.key = t.key => p = q /\ r = t

\* A group that may be merged: neighbours among the live parts, more than one.
Mergeable(g, files) ==
    /\ g \subseteq Live(files)
    /\ \E p, q \in g : p # q
    /\ \A p, q \in g : \A x \in Live(files) : p.s <= x.s /\ x.s <= q.s => x \in g
InFront(g, h) == \A p \in g, q \in h : p.e < q.s
Separate(gs) == \A g, h \in gs : g = h \/ InFront(g, h) \/ InFront(h, g)

\* The group whose merged part is there and whose inputs are being deleted.
Merging(g) ==
    /\ g # {} /\ g \subseteq parts
    /\ \E m \in Live(parts) : \A p \in g : Covers(m, p)
    /\ \A h \in groups : h = g \/ (InFront(g, h) /\ Mergeable(h, parts))

Files ==
    /\ base \subseteq Row /\ batch \subseteq Row /\ out \subseteq Row
    /\ Tidy(parts)
    /\ batches \in Nat /\ wpc \in Labels
    /\ \A p \in parts : p.e <= batches
    /\ wpc = "append" => 0 < batches /\ \A p \in parts : p.e < batches
    /\ OncePerKey(base, Live(parts)) /\ Unique(batch)

Promise ==
    /\ wpc \in {"idle", "compact", "unlink", "drop"} => Stored = want
    /\ wpc = "append" => want = Combine(Stored, batch, "last")
    /\ wpc \in {"write", "install"} => out = want /\ Unique(want)
    /\ wpc = "write" => want \subseteq batch \cup Stored
    /\ wpc = "install" => want \subseteq batch \cup base \cup RowsOf(Live(parked))
    /\ wpc \in {"install", "drop"} => parts = {}

Plan ==
    /\ Separate(groups)
    /\ wpc = "compact" => groups # {} /\ \A g \in groups : Mergeable(g, parts)
    /\ wpc = "unlink" => \E g \in groups : Merging(g)

TableInv == Files /\ Promise /\ Plan

-----------------------------------------------------------------------------
(* Sets of files. *)

LEMMA LeastExists ==
  ASSUME NEW T, T \subseteq Nat, T # {}
  PROVE  \E x \in T : \A y \in T : x <= y
  <1>. DEFINE R == {ss \in Nat \X Nat : ss[1] < ss[2]}
  <1>1. IsWellFoundedOn(R, Nat)
    BY NatLessThanWellFounded DEF OpToRel
  <1>2. \A x, y \in T : <<y, x>> \in R <=> y < x
    OBVIOUS
  <1>. HIDE DEF R
  <1>3. PICK x \in T : \A y \in T : ~ (<<y, x>> \in R)
    BY <1>1, WFMin
  <1>4. \A y \in T : ~ (y < x)
    BY <1>2, <1>3
  <1>5. \A y \in T : x <= y
    BY <1>4
  <1>. QED
    BY <1>5

LEMMA GreatestExists ==
  ASSUME NEW T, T \subseteq Nat, T # {}, NEW b \in Nat, \A y \in T : y <= b
  PROVE  \E x \in T : \A y \in T : y <= x
  <1>. DEFINE U == {u \in Nat : \A y \in T : y <= u}
  <1>1. U \subseteq Nat /\ U # {}
    BY DEF U
  <1>2. PICK u \in U : \A x \in U : u <= x
    BY <1>1, LeastExists
  <1>3. CASE u \in T
    BY <1>3
  <1>4. CASE u \notin T
    <2>1. \A y \in T : y < u /\ y <= u - 1
      BY <1>4
    <2>2. PICK e \in T : e < u
      BY <2>1
    <2>3. u - 1 \in Nat
      BY <2>2
    <2>4. u - 1 \in U
      BY <2>1, <2>3
    <2>. QED
      BY <1>2, <2>4
  <1>. QED
    BY <1>3, <1>4
LEMMA LiveApart ==
    ASSUME NEW F, Tidy(F), NEW p \in Live(F), NEW q \in Live(F), p # q
    PROVE  Apart(p, q) /\ p.s # q.s /\ (p.s < q.s <=> p.e < q.s)
  <1>1. /\ p \in F /\ q \in F /\ p.s \in Nat /\ p.e \in Nat /\ q.s \in Nat /\ q.e \in Nat
        /\ p.s <= p.e /\ q.s <= q.e
    BY DEF Live, Tidy, PartFile
  <1>2. Apart(p, q)
    BY DEF Live, Tidy
  <1>. QED
    BY <1>1, <1>2 DEF Apart

\* A part published behind all others.
LEMMA LiveOfNew ==
    ASSUME NEW F, Tidy(F), NEW n \in PartFile, n.s <= n.e, \A p \in F : p.e < n.s
    PROVE  Tidy(F \cup {n}) /\ Live(F \cup {n}) = Live(F) \cup {n} /\ n \notin F
  <1>1. \A p \in F \cup {n} : p.s \in Nat /\ p.e \in Nat /\ p.s <= p.e
    BY DEF Tidy, PartFile
  <1>2. \A p \in F : ~Covers(p, n) /\ ~Covers(n, p) /\ Apart(p, n) /\ Apart(n, p) /\ p # n
    BY <1>1 DEF Covers, Apart
  <1>3. ~Covers(n, n)
    BY DEF Covers
  <1>4. Live(F \cup {n}) = Live(F) \cup {n}
    BY <1>2, <1>3 DEF Live
  <1>5. \A p \in F \cup {n} : \E q \in Live(F \cup {n}) : q = p \/ Covers(q, p)
    BY <1>4 DEF Tidy
  <1>6. \A p, q \in F \cup {n} : p = q \/ Covers(p, q) \/ Covers(q, p) \/ Apart(p, q)
    <2>1. \A p, q \in F : p = q \/ Covers(p, q) \/ Covers(q, p) \/ Apart(p, q)
      BY DEF Tidy
    <2>. QED
      BY <1>2, <2>1
  <1>7. F \cup {n} \subseteq PartFile
    BY DEF Tidy
  <1>. QED
    BY <1>1, <1>2, <1>4, <1>5, <1>6, <1>7 DEF Tidy

\* A live part is replaced in place.
LEMMA LiveOfReplaced ==
    ASSUME NEW F, Tidy(F), NEW p \in Live(F), NEW n \in PartFile, n.s = p.s, n.e = p.e
    PROVE  LET G == (F \ {p}) \cup {n}
           IN  Tidy(G) /\ Live(G) = (Live(F) \ {p}) \cup {n}
  <1>. DEFINE G == (F \ {p}) \cup {n}
  <1>1. p \in F /\ \A q \in F : ~Covers(q, p)
    BY DEF Live
  <1>2. \A q : (Covers(q, n) <=> Covers(q, p)) /\ (Covers(n, q) <=> Covers(p, q))
    BY DEF Covers
  <1>3. ~Covers(n, n) /\ ~Covers(p, n) /\ ~Covers(n, p) /\ ~Covers(p, p)
    BY DEF Covers
  <1>4. Live(G) = (Live(F) \ {p}) \cup {n}
    <2>1. ASSUME NEW x \in Live(G)
          PROVE  x \in (Live(F) \ {p}) \cup {n}
      <3>1. CASE x = n
        BY <3>1
      <3>2. CASE x # n
        <4>1. x \in F /\ x # p /\ \A q \in G : ~Covers(q, x)
          BY <2>1, <3>2 DEF Live
        <4>2. ~Covers(p, x)
          BY <4>1, <1>2
        <4>. QED
          BY <4>1, <4>2 DEF Live
      <3>. QED
        BY <3>1, <3>2
    <2>2. ASSUME NEW x \in (Live(F) \ {p}) \cup {n}
          PROVE  x \in Live(G)
      <3>1. CASE x = n
        BY <3>1, <1>1, <1>2, <1>3 DEF Live
      <3>2. CASE x # n
        <4>1. x \in F /\ x # p /\ \A q \in F : ~Covers(q, x)
          BY <2>2, <3>2 DEF Live
        <4>2. ~Covers(n, x)
          BY <4>1, <1>1, <1>2
        <4>. QED
          BY <4>1, <4>2 DEF Live
      <3>. QED
        BY <3>1, <3>2
    <2>. QED
      BY <2>1, <2>2
  <1>5. G \subseteq PartFile /\ \A q \in G : q.s <= q.e
    BY <1>1 DEF Tidy
  <1>6. \A x, y \in G : x = y \/ Covers(x, y) \/ Covers(y, x) \/ Apart(x, y)
    <2>1. \A x \in G : (Apart(x, n) <=> Apart(x, p)) /\ (Apart(n, x) <=> Apart(p, x))
      BY DEF Apart
    <2>. QED
      BY <1>1, <1>2, <2>1 DEF Tidy
  <1>7. \A x \in G : \E q \in Live(G) : q = x \/ Covers(q, x)
    <2>1. ASSUME NEW x \in F, x # p
          PROVE  \E q \in Live(G) : q = x \/ Covers(q, x)
      <3>1. PICK q \in Live(F) : q = x \/ Covers(q, x)
        BY <2>1 DEF Tidy
      <3>. QED
        BY <2>1, <3>1, <1>2, <1>4
    <2>2. n \in Live(G)
      BY <1>4
    <2>. QED
      BY <2>1, <2>2
  <1>. QED
    BY <1>4, <1>5, <1>6, <1>7 DEF Tidy

\* A superseded part is removed.
LEMMA LiveOfUnlinked ==
    ASSUME NEW F, Tidy(F), NEW p \in F, NEW m \in Live(F), Covers(m, p)
    PROVE  Tidy(F \ {p}) /\ Live(F \ {p}) = Live(F)
  <1>. DEFINE G == F \ {p}
  <1>1. /\ p \notin Live(F) /\ m \in F /\ m # p
        /\ \A x \in F : x.s \in Nat /\ x.e \in Nat /\ x.s <= x.e
    BY DEF Live, Covers, Tidy, PartFile
  <1>2. \A x \in F : Covers(p, x) => Covers(m, x)
    BY <1>1 DEF Covers
  <1>3. Live(G) = Live(F)
    BY <1>1, <1>2 DEF Live
  <1>. QED
    BY <1>3 DEF Tidy

-----------------------------------------------------------------------------
(* Groups. *)

LEMMA OldestIs ==
    ASSUME NEW g, g \subseteq PartFile, g # {}
    PROVE  Oldest(g) \in g /\ \A q \in g : Oldest(g).s <= q.s
  <1>. DEFINE T == {p.s : p \in g}
  <1>1. T \subseteq Nat /\ T # {}
    BY DEF PartFile
  <1>2. \E p \in g : \A q \in g : p.s <= q.s
    <2>1. PICK x \in T : \A y \in T : x <= y
      BY <1>1, LeastExists
    <2>. QED
      BY <2>1
  <1>. QED
    BY <1>2 DEF Oldest

LEMMA NewestIs ==
    ASSUME NEW g, g \subseteq PartFile, g # {}, NEW b \in Nat, \A p \in g : p.s <= b
    PROVE  Newest(g) \in g /\ \A q \in g : q.s <= Newest(g).s
  <1>. DEFINE T == {p.s : p \in g}
  <1>1. T \subseteq Nat /\ T # {} /\ \A y \in T : y <= b
    BY DEF PartFile
  <1>2. \E p \in g : \A q \in g : q.s <= p.s
    <2>1. PICK x \in T : \A y \in T : y <= x
      BY <1>1, GreatestExists
    <2>. QED
      BY <2>1
  <1>. QED
    BY <1>2 DEF Newest

LEMMA MoreThanOne ==
    ASSUME NEW g, Cardinality(g) > 1
    PROVE  \E p, q \in g : p # q
  <1>1. CASE g = {}
    BY <1>1, FS_EmptySet
  <1>2. CASE g # {}
    <2>1. PICK p \in g : TRUE
      BY <1>2
    <2>2. CASE g = {p}
      <3>1. Cardinality({p}) = 1
        BY FS_Singleton
      <3>. QED
        BY <2>2, <3>1
    <2>3. CASE g # {p}
      BY <2>1, <2>3
    <2>. QED
      BY <2>2, <2>3
  <1>. QED
    BY <1>1, <1>2

\* What _compact plans: disjoint runs of neighbours (warehouse.py, _compact).
LEMMA PlannedGroups ==
    ASSUME NEW F, Tidy(F)
    PROVE  Separate(MergeGroups(F)) /\ \A g \in MergeGroups(F) : Mergeable(g, F)
  <1>. DEFINE small == {p \in Live(F) : Small(p)}
              starts == Starts(F)
              GroupOf(p) == {q \in small : \A b \in starts : b.s <= p.s <=> b.s <= q.s}
  <1>1. starts \subseteq Live(F) /\ \A p \in Live(F) : ~Small(p) => p \in starts
    BY DEF Starts
  <1>2. MergeGroups(F) \subseteq {g \in {GroupOf(p) : p \in small} : Cardinality(g) > 1}
    BY DEF MergeGroups
  <1>3. /\ \A p \in Live(F) : p \in F /\ p.s \in Nat /\ p.e \in Nat /\ p.s <= p.e
        /\ \A p, q \in Live(F) : p # q => p.s # q.s /\ (p.s < q.s <=> p.e < q.s)
    BY LiveApart DEF Live, Tidy, PartFile
  <1>. HIDE DEF starts
  <1>4. ASSUME NEW o \in small, Cardinality(GroupOf(o)) > 1
        PROVE  Mergeable(GroupOf(o), F)
    <2>1. \E p, q \in GroupOf(o) : p # q
      BY <1>4, MoreThanOne
    <2>2. ASSUME NEW p \in GroupOf(o), NEW q \in GroupOf(o), NEW x \in Live(F), p.s <= x.s, x.s <= q.s
          PROVE  x \in GroupOf(o)
      <3>1. \A b \in starts : (b.s <= o.s <=> b.s <= p.s) /\ (b.s <= o.s <=> b.s <= q.s)
        BY <2>2
      <3>2. p \in Live(F) /\ q \in Live(F) /\ Small(p)
        BY <2>2
      <3>3. p.s \in Nat /\ q.s \in Nat /\ x.s \in Nat /\ o.s \in Nat /\ \A b \in starts : b.s \in Nat
        BY <1>1, <1>3, <3>2
      <3>4. \A b \in starts : b.s <= o.s <=> b.s <= x.s
        BY <2>2, <3>1, <3>3
      <3>5. Small(x)
        <4>1. SUFFICES ASSUME ~Small(x)
                       PROVE  FALSE
          OBVIOUS
        <4>2. x \in starts
          BY <1>1, <4>1
        <4>3. x.s <= p.s
          BY <4>2, <3>1, <3>3, <2>2
        <4>4. x = p
          BY <4>3, <3>2, <3>3, <2>2, <1>3
        <4>. QED
          BY <4>1, <4>4, <3>2
      <3>. QED
        BY <3>4, <3>5
    <2>. QED
      BY <2>1, <2>2 DEF Mergeable
  <1>5. ASSUME NEW o \in small, NEW u \in small
        PROVE  \/ GroupOf(o) = GroupOf(u)
               \/ InFront(GroupOf(o), GroupOf(u)) \/ InFront(GroupOf(u), GroupOf(o))
    <2>1. CASE \A b \in starts : b.s <= o.s <=> b.s <= u.s
      BY <2>1
    <2>2. ASSUME NEW a \in small, NEW c \in small, NEW b \in starts, b.s <= a.s, ~(b.s <= c.s)
          PROVE  InFront(GroupOf(c), GroupOf(a))
      <3>1. ASSUME NEW p \in GroupOf(c), NEW q \in GroupOf(a)
            PROVE  p.e < q.s
        <4>1. ~(b.s <= p.s) /\ b.s <= q.s
          BY <2>2, <3>1
        <4>2. b \in Live(F) /\ p \in Live(F) /\ q \in Live(F)
          BY <1>1, <3>1
        <4>3. p.s < q.s
          BY <4>1, <4>2, <1>3
        <4>. QED
          BY <4>2, <4>3, <1>3
      <3>. QED
        BY <3>1 DEF InFront
    <2>3. CASE \E b \in starts : ~(b.s <= o.s <=> b.s <= u.s)
      BY <2>2, <2>3
    <2>. QED
      BY <2>1, <2>3
  <1>. HIDE DEF GroupOf, small
  <1>6. \A g \in MergeGroups(F) : \E o \in small : g = GroupOf(o) /\ Cardinality(GroupOf(o)) > 1
    BY <1>2
  <1>7. \A g \in MergeGroups(F) : Mergeable(g, F)
    BY <1>4, <1>6
  <1>8. Separate(MergeGroups(F))
    BY <1>5, <1>6 DEF Separate
  <1>. QED
    BY <1>7, <1>8

\* The merged part covers its group and stands in its place.
LEMMA LiveOfMerged ==
    ASSUME NEW F, Tidy(F), NEW b \in Nat, \A p \in F : p.e <= b,
           NEW g, Mergeable(g, F)
    PROVE  LET m == Merged(g)
           IN  /\ Tidy(F \cup {m}) /\ m \notin F /\ m.e <= b
               /\ Live(F \cup {m}) = (Live(F) \ g) \cup {m}
               /\ \A p \in g : Covers(m, p)
               /\ m.s = Oldest(g).s /\ Oldest(g) \in g /\ m.rows = RowsOf(g)
  <1>. DEFINE m == Merged(g)
              f == Oldest(g)
              l == Newest(g)
  <1>1. /\ g \subseteq Live(F) /\ g # {} /\ \E p, q \in g : p # q
        /\ \A p, q \in g : \A x \in Live(F) : p.s <= x.s /\ x.s <= q.s => x \in g
    BY DEF Mergeable
  <1>2. /\ \A p \in F : p.s \in Nat /\ 0 < p.s /\ p.e \in Nat /\ p.s <= p.e /\ p.e <= b /\ p.s <= b
        /\ \A p, q \in Live(F) : p # q => Apart(p, q) /\ p.s # q.s /\ (p.s < q.s <=> p.e < q.s)
    BY LiveApart DEF Tidy, PartFile
  <1>3. Live(F) \subseteq F /\ F \subseteq PartFile
    BY DEF Live, Tidy
  <1>4. /\ f \in g /\ \A q \in g : f.s <= q.s
        /\ l \in g /\ \A q \in g : q.s <= l.s
    BY <1>1, <1>2, <1>3, OldestIs, NewestIs
  <1>5. m.s = f.s /\ m.e = l.e /\ m.rows = RowsOf(g) /\ m \in PartFile
    <2>1. RowsOf(g) \subseteq Row
      BY <1>1, <1>3 DEF RowsOf, PartFile
    <2>2. f \in PartFile /\ l \in PartFile
      BY <1>1, <1>3, <1>4
    <2>. QED
      BY <2>1, <2>2 DEF Merged, PartFile
  <1>. HIDE DEF m, f, l
  <1>6. \A p \in g : p.e <= l.e
    BY <1>1, <1>2, <1>3, <1>4
  <1>7. f # l
    BY <1>1, <1>2, <1>3, <1>4
  <1>8. f.s <= l.s /\ f.e < l.s /\ l.s <= l.e
    BY <1>1, <1>2, <1>3, <1>4, <1>7
  <1>9. m.s \in Nat /\ m.e \in Nat /\ m.s <= m.e /\ m.e <= b
    BY <1>1, <1>2, <1>3, <1>4, <1>5, <1>8
  <1>10. \A p \in g : Covers(m, p)
    <2>1. ASSUME NEW p \in g
          PROVE  Covers(m, p)
      <3>1. m.s <= p.s /\ p.e <= m.e /\ p \in F
        BY <1>1, <1>3, <1>4, <1>5, <1>6
      <3>2. m.s # p.s \/ m.e # p.e
        <4>1. CASE p = f
          BY <4>1, <1>5, <1>8, <1>2, <3>1, <1>1, <1>3, <1>4
        <4>2. CASE p # f
          BY <4>2, <1>1, <1>2, <1>4, <1>5
        <4>. QED
          BY <4>1, <4>2
      <3>. QED
        BY <3>1, <3>2 DEF Covers
    <2>. QED
      BY <2>1
  <1>11. \A x \in Live(F) \ g : Apart(m, x) /\ Apart(x, m)
    <2>1. ASSUME NEW x \in Live(F), x \notin g
          PROVE  x.e < m.s \/ m.e < x.s
      <3>1. ~(f.s <= x.s /\ x.s <= l.s)
        BY <2>1, <1>1, <1>4
      <3>2. x.s < f.s \/ l.s < x.s
        BY <3>1, <1>1, <1>2, <1>3, <1>4
      <3>. QED
        BY <3>2, <2>1, <1>1, <1>2, <1>4, <1>5
    <2>. QED
      BY <2>1 DEF Apart
  <1>12. \A x \in F : Covers(m, x) \/ (Apart(m, x) /\ Apart(x, m))
    <2>1. ASSUME NEW x \in F
          PROVE  Covers(m, x) \/ (Apart(m, x) /\ Apart(x, m))
      <3>1. PICK q \in Live(F) : q = x \/ Covers(q, x)
        BY DEF Tidy
      <3>2. q.s <= x.s /\ x.e <= q.e /\ q \in F
        BY <3>1, <1>2, <1>3 DEF Covers
      <3>3. CASE q \in g
        <4>1. Covers(m, q)
          BY <1>10, <3>3
        <4>. QED
          BY <4>1, <3>2, <1>2, <1>9 DEF Covers
      <3>4. CASE q \notin g
        <4>1. q.e < m.s \/ m.e < q.s
          BY <3>1, <3>4, <1>11 DEF Apart
        <4>. QED
          BY <4>1, <3>2, <1>2, <1>9 DEF Apart
      <3>. QED
        BY <3>3, <3>4
    <2>. QED
      BY <2>1
  <1>13. m \notin F /\ \A x \in F : ~Covers(x, m)
    BY <1>12, <1>2, <1>9 DEF Covers, Apart
  <1>14. Live(F \cup {m}) = (Live(F) \ g) \cup {m}
    <2>1. ~Covers(m, m)
      BY DEF Covers
    <2>2. \A x \in Live(F) \ g : ~Covers(m, x)
      BY <1>11, <1>2, <1>3, <1>9 DEF Covers, Apart
    <2>. QED
      BY <1>1, <1>10, <1>13, <2>1, <2>2 DEF Live
  <1>15. \A x \in F \cup {m} : \E q \in Live(F \cup {m}) : q = x \/ Covers(q, x)
    <2>1. ASSUME NEW x \in F
          PROVE  \E q \in Live(F \cup {m}) : q = x \/ Covers(q, x)
      <3>1. PICK q \in Live(F) : q = x \/ Covers(q, x)
        BY DEF Tidy
      <3>2. CASE q \notin g
        BY <3>1, <3>2, <1>14
      <3>3. CASE q \in g
        <4>1. ~Apart(m, x)
          <5>1. m.s <= q.s /\ q.e <= m.e /\ q.s <= x.s /\ x.e <= q.e /\ q \in F
            BY <3>1, <3>3, <1>10, <1>2, <1>3 DEF Covers
          <5>. QED
            BY <5>1, <1>2, <1>9 DEF Apart
        <4>. QED
          BY <4>1, <1>12, <1>14
      <3>. QED
        BY <3>2, <3>3
    <2>. QED
      BY <2>1, <1>14
  <1>16. \A x, y \in F \cup {m} : x = y \/ Covers(x, y) \/ Covers(y, x) \/ Apart(x, y)
    <2>1. \A x, y \in F : x = y \/ Covers(x, y) \/ Covers(y, x) \/ Apart(x, y)
      BY DEF Tidy
    <2>. QED
      BY <1>12, <2>1
  <1>7a. Tidy(F \cup {m})
    BY <1>2, <1>3, <1>5, <1>9, <1>15, <1>16 DEF Tidy
  <1>. QED
    BY <1>4, <1>5, <1>9, <1>10, <1>13, <1>14, <1>7a DEF m, f

\* The first of separate groups is the one _compact is at.
LEMMA NextGroupIs ==
    ASSUME NEW g \in groups, g # {},
           \A h \in groups : \A p \in h : p \in PartFile /\ p.s <= p.e,
           \A h \in groups : h = g \/ (h # {} /\ InFront(g, h))
    PROVE  NextGroup = g
  <1>1. \A h \in groups : h \subseteq PartFile /\ h # {}
    OBVIOUS
  <1>2. \A h \in groups : Oldest(h) \in h /\ Oldest(h).s \in Nat /\ Oldest(h).e \in Nat
                          /\ Oldest(h).s <= Oldest(h).e
    BY <1>1, OldestIs DEF PartFile
  <1>3. \A h \in groups : h = g \/ Oldest(g).s < Oldest(h).s
    BY <1>2 DEF InFront
  <1>4. \A h \in groups : Oldest(g).s <= Oldest(h).s
    BY <1>2, <1>3
  <1>5. \A x \in groups : (\A h \in groups : Oldest(x).s <= Oldest(h).s) => x = g
    BY <1>2, <1>3
  <1>. QED
    BY <1>4, <1>5 DEF NextGroup

LEMMA FirstGroup ==
    ASSUME groups # {}, Separate(groups), \A h \in groups : h # {},
           \A h \in groups : \A p \in h : p \in PartFile /\ p.s <= p.e
    PROVE  /\ NextGroup \in groups
           /\ \A h \in groups : h = NextGroup \/ InFront(NextGroup, h)
  <1>. DEFINE T == {Oldest(h).s : h \in groups}
  <1>1. \A h \in groups : Oldest(h) \in h /\ Oldest(h).s \in Nat /\ Oldest(h).e \in Nat
                          /\ Oldest(h).s <= Oldest(h).e
    BY OldestIs DEF PartFile
  <1>2. T \subseteq Nat /\ T # {}
    BY <1>1
  <1>3. PICK t \in T : \A y \in T : t <= y
    BY <1>2, LeastExists
  <1>4. PICK g \in groups : \A h \in groups : Oldest(g).s <= Oldest(h).s
    BY <1>3
  <1>5. \A h \in groups : h = g \/ InFront(g, h)
    <2>1. ASSUME NEW h \in groups, InFront(h, g)
          PROVE  FALSE
      <3>1. Oldest(h).e < Oldest(g).s
        BY <1>1, <2>1 DEF InFront
      <3>. QED
        BY <1>1, <1>4, <3>1
    <2>. QED
      BY <2>1 DEF Separate
  <1>6. NextGroup = g
    BY <1>5, NextGroupIs
  <1>. QED
    BY <1>5, <1>6

-----------------------------------------------------------------------------
(* The steps. *)

LEMMA FrameIsUnique ==
    ASSUME NEW K \in SUBSET Keys, batches \in Nat
    PROVE  Frame(K) \subseteq Row /\ Unique(Frame(K))
  BY DEF Frame, Row, Unique

LEMMA StoredIsUnique ==
    ASSUME Files
    PROVE  Unique(Stored) /\ Stored \subseteq Row
  <1>1. Live(parts) \subseteq parts /\ parts \subseteq PartFile
    BY DEF Files, Tidy, Live
  <1>. QED
    BY <1>1 DEF Files, OncePerKey, Unique, Stored, RowsOf, PartFile

LEMMA CombineIsUnique ==
    ASSUME NEW A, Unique(A), A \subseteq Row, NEW B, Unique(B), B \subseteq Row, NEW keep
    PROVE  /\ Unique(Combine(A, B, keep)) /\ Combine(A, B, keep) \subseteq Row
           /\ Combine(A, B, keep) \subseteq A \cup B
  BY DEF Combine, KeysOf, Unique

LEMMA BeginKeeps ==
    ASSUME TableInv, NEW K \in SUBSET Keys,
           BeginAppend(K) \/ \E keep \in {"first", "last"} : BeginRewrite(K, keep)
    PROVE  TableInv'
  <1>1. Files /\ Separate(groups) /\ wpc = "idle" /\ UNCHANGED <<base, parts, parked, groups>>
        /\ batches' = batches + 1 /\ batch' = Frame(K) /\ wpc' \in {"append", "write"}
    BY DEF TableInv, Plan, BeginAppend, BeginRewrite, disk
  <1>2. /\ Unique(Stored) /\ Stored \subseteq Row
        /\ Unique(Frame(K)) /\ Frame(K) \subseteq Row
    BY <1>1, StoredIsUnique, FrameIsUnique DEF Files
  <1>3. Stored' = Stored
    BY <1>1 DEF Stored
  <1>4. CASE BeginAppend(K)
    <2>1. wpc' = "append" /\ out' = out /\ want' = Combine(Stored, Frame(K), "last")
      BY <1>4 DEF BeginAppend
    <2>2. \A p \in parts : p.e \in Nat /\ p.e <= batches
      BY <1>1 DEF Files, Tidy, PartFile
    <2>3. Files'
      <3>1. batches' \in Nat /\ 0 < batches' /\ \A p \in parts : p.e < batches' /\ p.e <= batches'
        BY <1>1, <2>2 DEF Files
      <3>. QED
        BY <1>1, <1>2, <2>1, <3>1 DEF Files, Labels
    <2>4. Promise' /\ Plan'
      BY <1>1, <1>3, <2>1 DEF Promise, Plan
    <2>. QED
      BY <2>3, <2>4 DEF TableInv
  <1>5. ASSUME NEW keep \in {"first", "last"}, BeginRewrite(K, keep)
        PROVE  TableInv'
    <2>1. wpc' = "write" /\ out' = Combine(Stored, Frame(K), keep) /\ want' = out'
      BY <1>5 DEF BeginRewrite
    <2>2. Unique(out') /\ out' \subseteq Row /\ out' \subseteq Frame(K) \cup Stored
      BY <1>2, <2>1, CombineIsUnique
    <2>3. \A p \in parts : p.e \in Nat /\ p.e <= batches
      BY <1>1 DEF Files, Tidy, PartFile
    <2>4. Files'
      <3>1. batches' \in Nat /\ \A p \in parts : p.e <= batches'
        BY <1>1, <2>3 DEF Files
      <3>. QED
        BY <1>1, <1>2, <2>1, <2>2, <3>1 DEF Files, Labels
    <2>5. Promise' /\ Plan'
      BY <1>1, <1>3, <2>1, <2>2 DEF Promise, Plan
    <2>. QED
      BY <2>4, <2>5 DEF TableInv
  <1>. QED
    BY <1>4, <1>5

\* What the batch supersedes leaves one file: what the append will give is the same.
LEMMA SupersedeBaseKeeps ==
    ASSUME TableInv, SupersedeBase
    PROVE  TableInv'
  <1>1. Files /\ Promise /\ Plan /\ wpc = "append" /\ base' = Superseded(base)
        /\ UNCHANGED <<parts, parked, wpc, batch, out, groups, want, batches>>
    BY DEF TableInv, SupersedeBase, work
  <1>2. base' \subseteq base /\ base' = {r \in base : r.key \notin KeysOf(batch)}
    BY <1>1 DEF Superseded
  <1>3. Files'
    BY <1>1, <1>2 DEF Files, OncePerKey, Unique
  <1>4. Combine(Stored', batch, "last") = Combine(Stored, batch, "last")
    BY <1>1, <1>2 DEF Combine, Stored
  <1>5. Promise' /\ Plan'
    BY <1>1, <1>4 DEF Promise, Plan
  <1>. QED
    BY <1>3, <1>5 DEF TableInv

LEMMA SupersedePartKeeps ==
    ASSUME TableInv, NEW p \in parts, SupersedePart(p)
    PROVE  TableInv'
  <1>. DEFINE n == [p EXCEPT !.rows = Superseded(@)]
  <1>1. Files /\ Promise /\ Plan /\ wpc = "append" /\ p \in Live(parts)
        /\ parts' = (parts \ {p}) \cup {n}
        /\ UNCHANGED <<base, parked, wpc, batch, out, groups, want, batches>>
    BY DEF TableInv, SupersedePart, work
  <1>2. p \in PartFile /\ Tidy(parts)
    BY <1>1 DEF Files, Tidy
  <1>3. n \in PartFile /\ n.s = p.s /\ n.e = p.e
        /\ n.rows = {r \in p.rows : r.key \notin KeysOf(batch)}
    BY <1>2 DEF PartFile, Superseded
  <1>. HIDE DEF n
  <1>4. Tidy(parts') /\ Live(parts') = (Live(parts) \ {p}) \cup {n}
    BY <1>1, <1>2, <1>3, LiveOfReplaced
  <1>5. OncePerKey(base, Live(parts'))
    <2>1. OncePerKey(base, Live(parts))
      BY <1>1 DEF Files
    <2>2. \A q \in Live(parts') : \E o \in Live(parts) :
             q.rows \subseteq o.rows /\ (q = n <=> o = p) /\ (q # n => q = o)
      <3>1. \A q \in Live(parts') : q = n \/ (q \in Live(parts) /\ q # p)
        BY <1>4
      <3>. QED
        BY <1>1, <1>3, <3>1
    <2>3. ASSUME NEW q \in Live(parts'), NEW r \in base, NEW t \in q.rows
          PROVE  r.key # t.key
      BY <2>1, <2>2, <2>3 DEF OncePerKey
    <2>4. ASSUME NEW q \in Live(parts'), NEW u \in Live(parts'), NEW r \in q.rows, NEW t \in u.rows,
                 r.key = t.key
          PROVE  q = u /\ r = t
      <3>1. PICK o \in Live(parts) :
               q.rows \subseteq o.rows /\ (q = n <=> o = p) /\ (q # n => q = o)
        BY <2>2
      <3>2. PICK v \in Live(parts) :
               u.rows \subseteq v.rows /\ (u = n <=> v = p) /\ (u # n => u = v)
        BY <2>2
      <3>3. o = v /\ r = t
        BY <2>1, <2>4, <3>1, <3>2 DEF OncePerKey
      <3>. QED
        BY <3>1, <3>2, <3>3
    <2>. QED
      BY <2>1, <2>3, <2>4 DEF OncePerKey
  <1>6. Files'
    <2>1. 0 < batches /\ \A q \in parts' : q.e <= batches /\ q.e < batches
      BY <1>1, <1>3 DEF Files
    <2>. QED
      BY <1>1, <1>4, <1>5, <2>1 DEF Files
  <1>7. Combine(Stored', batch, "last") = Combine(Stored, batch, "last")
    <2>1. {r \in Stored' : r.key \notin KeysOf(batch)} = {r \in Stored : r.key \notin KeysOf(batch)}
      <3>1. ASSUME NEW r, r.key \notin KeysOf(batch)
            PROVE  (\E q \in Live(parts') : r \in q.rows) <=> (\E q \in Live(parts) : r \in q.rows)
        <4>1. r \in n.rows <=> r \in p.rows
          BY <1>3, <3>1
        <4>. QED
          BY <1>1, <1>4, <4>1
      <3>2. \A r : r \in Stored <=> r \in base \/ \E q \in Live(parts) : r \in q.rows
        BY DEF Stored, RowsOf
      <3>3. \A r : r \in Stored' <=> r \in base \/ \E q \in Live(parts') : r \in q.rows
        BY <1>1 DEF Stored, RowsOf
      <3>. QED
        BY <3>1, <3>2, <3>3
    <2>. QED
      BY <2>1 DEF Combine
  <1>8. Promise' /\ Plan'
    BY <1>1, <1>7 DEF Promise, Plan
  <1>. QED
    BY <1>6, <1>8 DEF TableInv

\* The sequence number is one past every part.
LEMMA NextSeqIs ==
    ASSUME Files, wpc = "append"
    PROVE  NextSeq \in Nat /\ 0 < NextSeq /\ NextSeq <= batches /\ \A p \in parts : p.e < NextSeq
  <1>1. \A p \in parts : p.e \in Nat /\ p.e < batches
    BY DEF Files, Tidy, PartFile
  <1>2. batches \in Nat
    BY DEF Files
  <1>. DEFINE T == {p.e : p \in parts}
              S == {1} \cup {p.e + 1 : p \in parts}
  <1>3. \E n \in S : \A p \in parts : p.e < n
    <2>1. CASE parts = {}
      BY <2>1
    <2>2. CASE parts # {}
      <3>1. T \subseteq Nat /\ T # {} /\ \A y \in T : y <= batches
        BY <1>1, <1>2, <2>2
      <3>2. PICK t \in T : \A y \in T : y <= t
        BY <1>2, <3>1, GreatestExists
      <3>3. t + 1 \in S /\ t \in Nat
        BY <3>1
      <3>4. \A p \in parts : p.e < t + 1
        BY <1>1, <3>2, <3>3
      <3>. QED
        BY <3>3, <3>4
    <2>. QED
      BY <2>1, <2>2
  <1>4. NextSeq \in S /\ \A p \in parts : p.e < NextSeq
    BY <1>3 DEF NextSeq
  <1>5. \A n \in S : n \in Nat /\ 0 < n /\ n <= batches
    <2>1. 0 < batches
      BY DEF Files
    <2>. QED
      BY <1>1, <1>2, <2>1
  <1>. QED
    BY <1>4, <1>5

LEMMA PublishPartKeeps ==
    ASSUME TableInv, PublishPart
    PROVE  TableInv'
  <1>. DEFINE n == [s |-> NextSeq, e |-> NextSeq, rows |-> batch]
  <1>1. /\ Files /\ Promise /\ wpc = "append" /\ KeysOf(Stored) \cap KeysOf(batch) = {}
        /\ parts' = parts \cup {n} /\ batch' = {} /\ groups' = MergeGroups(parts')
        /\ wpc' = IF groups' = {} THEN "idle" ELSE "compact"
        /\ UNCHANGED <<base, parked, out, want, batches>>
    BY DEF TableInv, PublishPart, Compacting, Collides
  <1>2. Tidy(parts) /\ batch \subseteq Row /\ batches \in Nat
    BY <1>1 DEF Files
  <1>3. n \in PartFile /\ n.s = NextSeq /\ n.e = NextSeq /\ n.s <= n.e /\ n.rows = batch
        /\ n.e <= batches /\ \A p \in parts : p.e < n.s
    BY <1>1, <1>2, NextSeqIs DEF PartFile
  <1>. HIDE DEF n
  <1>4. Tidy(parts') /\ Live(parts') = Live(parts) \cup {n} /\ n \notin parts
    BY <1>1, <1>2, <1>3, LiveOfNew
  <1>5. Separate(groups') /\ \A g \in groups' : Mergeable(g, parts')
    BY <1>1, <1>4, PlannedGroups
  <1>6. \A r \in Stored, t \in batch : r.key # t.key
    BY <1>1 DEF KeysOf
  <1>7. /\ \A r : r \in Stored <=> r \in base \/ \E q \in Live(parts) : r \in q.rows
        /\ \A r : r \in Stored' <=> r \in base \/ \E q \in Live(parts') : r \in q.rows
    BY <1>1 DEF Stored, RowsOf
  <1>8. Stored' = Stored \cup batch
    BY <1>3, <1>4, <1>7
  <1>9. OncePerKey(base, Live(parts'))
    <2>1. OncePerKey(base, Live(parts)) /\ Unique(batch)
      BY <1>1 DEF Files
    <2>2. n \notin Live(parts)
      BY <1>4 DEF Live
    <2>. QED
      BY <1>3, <1>4, <1>6, <1>7, <2>1, <2>2 DEF OncePerKey, Unique
  <1>10. Files'
    <2>1. \A p \in parts' : p.e <= batches'
      BY <1>1, <1>3 DEF Files
    <2>2. wpc' \in Labels /\ wpc' # "append"
      BY <1>1 DEF Labels
    <2>. QED
      BY <1>1, <1>4, <1>9, <2>1, <2>2 DEF Files, Unique
  <1>11. want = Stored \cup batch
    BY <1>1, <1>6 DEF Promise, Combine, KeysOf
  <1>12. Promise'
    BY <1>1, <1>8, <1>11 DEF Promise
  <1>13. Plan'
    BY <1>1, <1>5 DEF Plan
  <1>. QED
    BY <1>10, <1>12, <1>13 DEF TableInv

LEMMA PublishMergedKeeps ==
    ASSUME TableInv, PublishMerged
    PROVE  TableInv'
  <1>1. /\ Files /\ Promise /\ Plan /\ wpc = "compact" /\ wpc' = "unlink"
        /\ parts' = parts \cup {Merged(NextGroup)}
        /\ UNCHANGED <<base, parked, batch, out, groups, want, batches>>
    BY DEF TableInv, PublishMerged, work
  <1>2. groups # {} /\ Separate(groups) /\ \A h \in groups : Mergeable(h, parts)
    BY <1>1 DEF Plan
  <1>3. /\ Tidy(parts) /\ batches \in Nat /\ \A p \in parts : p.e <= batches
        /\ \A p \in Live(parts) : p \in parts /\ p \in PartFile /\ p.s <= p.e
    BY <1>1 DEF Files, Tidy, Live
  <1>4. \A h \in groups : h # {} /\ h \subseteq Live(parts) /\ \A p \in h : p \in PartFile /\ p.s <= p.e
    BY <1>2, <1>3 DEF Mergeable
  <1>5. PICK g \in groups : g = NextGroup /\ \A h \in groups : h = g \/ InFront(g, h)
    BY <1>2, <1>4, FirstGroup
  <1>. DEFINE m == Merged(g)
  <1>6. Mergeable(g, parts)
    BY <1>2, <1>5
  <1>7. /\ Tidy(parts \cup {m}) /\ m \notin parts /\ m.e <= batches
        /\ Live(parts \cup {m}) = (Live(parts) \ g) \cup {m}
        /\ \A p \in g : Covers(m, p)
        /\ m.s = Oldest(g).s /\ Oldest(g) \in g /\ m.rows = RowsOf(g)
    BY <1>3, <1>6, LiveOfMerged
  <1>7a. parts' = parts \cup {m}
    BY <1>1, <1>5
  <1>. HIDE DEF m
  <1>8. g \subseteq Live(parts) /\ m \notin Live(parts)
    BY <1>4, <1>5, <1>7 DEF Live
  <1>9. \A r : r \in m.rows <=> \E p \in g : r \in p.rows
    BY <1>7 DEF RowsOf
  <1>10. Stored' = Stored
    <2>1. RowsOf(Live(parts')) = RowsOf(Live(parts))
      BY <1>1, <1>7a, <1>7, <1>8, <1>9 DEF RowsOf
    <2>. QED
      BY <1>1, <1>7a, <2>1 DEF Stored
  <1>11. OncePerKey(base, Live(parts'))
    <2>1. OncePerKey(base, Live(parts))
      BY <1>1 DEF Files
    <2>2. \A q \in Live(parts') : \A r \in q.rows :
             \E o \in Live(parts) : r \in o.rows /\ (IF q = m THEN o \in g ELSE o = q /\ o \notin g)
      BY <1>1, <1>7a, <1>7, <1>8, <1>9
    <2>3. ASSUME NEW q \in Live(parts'), NEW r \in base, NEW t \in q.rows
          PROVE  r.key # t.key
      BY <2>1, <2>2, <2>3 DEF OncePerKey
    <2>4. ASSUME NEW q \in Live(parts'), NEW u \in Live(parts'), NEW r \in q.rows, NEW t \in u.rows,
                 r.key = t.key
          PROVE  q = u /\ r = t
      <3>1. PICK o \in Live(parts) : r \in o.rows /\ (IF q = m THEN o \in g ELSE o = q /\ o \notin g)
        BY <2>2
      <3>2. PICK v \in Live(parts) : t \in v.rows /\ (IF u = m THEN v \in g ELSE v = u /\ v \notin g)
        BY <2>2
      <3>3. o = v /\ r = t
        BY <2>1, <2>4, <3>1, <3>2 DEF OncePerKey
      <3>. QED
        BY <3>1, <3>2, <3>3
    <2>. QED
      BY <2>1, <2>3, <2>4 DEF OncePerKey
  <1>12. Files'
    <2>1. \A p \in parts' : p.e <= batches'
      BY <1>1, <1>7a, <1>3, <1>7
    <2>. QED
      BY <1>1, <1>7a, <1>7, <1>11, <2>1 DEF Files, Labels
  <1>13. Promise'
    BY <1>1, <1>7a, <1>10 DEF Promise
  <1>14. ASSUME NEW h \in groups, h # g
         PROVE  InFront(g, h) /\ Mergeable(h, parts')
    <2>1. InFront(g, h) /\ Mergeable(h, parts)
      BY <1>2, <1>5, <1>14
    <2>2. h \subseteq Live(parts) /\ h \cap g = {}
      <3>1. \A p \in h : p.s \in Nat /\ p.e \in Nat /\ p.s <= p.e
        BY <1>4 DEF PartFile
      <3>. QED
        BY <1>4, <2>1, <3>1 DEF InFront
    <2>3. h \subseteq Live(parts')
      BY <1>1, <1>7a, <1>7, <2>2
    <2>4. ASSUME NEW p \in h, NEW q \in h, NEW x \in Live(parts'), p.s <= x.s, x.s <= q.s
          PROVE  x \in h
      <3>1. CASE x = m
        <4>1. p.s <= Oldest(g).s /\ Oldest(g).s <= q.s /\ Oldest(g) \in Live(parts)
          BY <1>7, <1>8, <2>4, <3>1
        <4>2. Oldest(g) \in h
          BY <2>1, <4>1 DEF Mergeable
        <4>. QED
          BY <1>7, <2>2, <4>2
      <3>2. CASE x # m
        BY <1>1, <1>7a, <1>7, <2>1, <2>4, <3>2 DEF Mergeable
      <3>. QED
        BY <3>1, <3>2
    <2>5. \E p, q \in h : p # q
      BY <2>1 DEF Mergeable
    <2>. QED
      BY <2>1, <2>3, <2>4, <2>5 DEF Mergeable
  <1>15. (Merging(g))'
    <2>1. g # {} /\ g \subseteq parts' /\ m \in Live(parts')
      BY <1>1, <1>7a, <1>3, <1>4, <1>5, <1>7
    <2>2. \E o \in Live(parts') : \A p \in g : Covers(o, p)
      BY <1>7, <2>1
    <2>3. \A h \in groups' : h = g \/ (InFront(g, h) /\ Mergeable(h, parts'))
      BY <1>1, <1>7a, <1>14
    <2>. QED
      BY <2>1, <2>2, <2>3, <1>1 DEF Merging
  <1>16. Plan'
    BY <1>1, <1>7a, <1>2, <1>5, <1>15 DEF Plan
  <1>. QED
    BY <1>12, <1>13, <1>16 DEF TableInv

LEMMA UnlinkKeeps ==
    ASSUME TableInv, Unlink
    PROVE  TableInv'
  <1>1. /\ Files /\ Promise /\ Plan /\ wpc = "unlink"
        /\ UNCHANGED <<base, parked, batch, out, want, batches>>
    BY DEF TableInv, Unlink
  <1>2. PICK g \in groups : Merging(g)
    BY <1>1 DEF Plan
  <1>3. PICK m \in Live(parts) : \A p \in g : Covers(m, p)
    BY <1>2 DEF Merging
  <1>4. /\ Separate(groups) /\ g # {} /\ g \subseteq parts
        /\ \A h \in groups : h = g \/ (InFront(g, h) /\ Mergeable(h, parts))
    BY <1>1, <1>2 DEF Merging, Plan
  <1>5. Tidy(parts) /\ parts \subseteq PartFile /\ (\A p \in parts : p.s <= p.e) /\ Live(parts) \subseteq parts
    BY <1>1 DEF Files, Tidy, Live
  <1>6. \A h \in groups : h # {} /\ h \subseteq parts
    BY <1>4, <1>5 DEF Mergeable
  <1>7. NextGroup = g
    BY <1>4, <1>5, <1>6, NextGroupIs
  <1>8. Oldest(g) \in g
    BY <1>4, <1>5, OldestIs
  <1>. DEFINE o == Oldest(g)
              left == g \ {o}
  <1>9. /\ parts' = parts \ {o}
        /\ groups' = (groups \ {g}) \cup ({left} \ {{}})
        /\ wpc' = IF left # {} THEN "unlink" ELSE IF groups' # {} THEN "compact" ELSE "idle"
    BY <1>7 DEF Unlink
  <1>10. Tidy(parts') /\ Live(parts') = Live(parts)
    BY <1>3, <1>4, <1>5, <1>8, <1>9, LiveOfUnlinked
  <1>11. Stored' = Stored
    BY <1>1, <1>10 DEF Stored
  <1>12. wpc' \in {"unlink", "compact", "idle"}
    BY <1>9
  <1>13. Files'
    BY <1>1, <1>9, <1>10, <1>12 DEF Files, Labels
  <1>14. Promise'
    BY <1>1, <1>11, <1>12 DEF Promise
  <1>15. \A h \in groups \ {g} : Mergeable(h, parts')
    BY <1>4, <1>10 DEF Mergeable
  <1>. HIDE DEF o, left
  <1>16. left \subseteq g /\ o \notin left /\ (left # {} => left \subseteq parts')
    BY <1>4, <1>8, <1>9 DEF left
  <1>17. Separate(groups')
    BY <1>4, <1>9, <1>16 DEF Separate, InFront
  <1>18. CASE left # {}
    <2>1. groups' = (groups \ {g}) \cup {left} /\ wpc' = "unlink"
      BY <1>9, <1>18
    <2>2. m \in Live(parts') /\ \A p \in left : Covers(m, p)
      BY <1>3, <1>10, <1>16
    <2>3. \A h \in groups' : h = left \/ (InFront(left, h) /\ Mergeable(h, parts'))
      BY <1>4, <1>15, <1>16, <2>1 DEF InFront
    <2>4. \E h \in groups' : Merging(h)'
      BY <1>16, <1>18, <2>1, <2>2, <2>3 DEF Merging
    <2>5. Plan'
      BY <1>17, <2>1, <2>4 DEF Plan
    <2>. QED
      BY <1>13, <1>14, <2>5 DEF TableInv
  <1>19. CASE left = {}
    <2>1. groups' = groups \ {g} /\ wpc' = IF groups' # {} THEN "compact" ELSE "idle"
      BY <1>9, <1>19
    <2>2. Plan'
      BY <1>15, <1>17, <2>1 DEF Plan
    <2>. QED
      BY <1>13, <1>14, <2>2 DEF TableInv
  <1>. QED
    BY <1>18, <1>19

LEMMA FallBackKeeps ==
    ASSUME TableInv, FallBack
    PROVE  TableInv'
  <1>1. /\ Files /\ Promise /\ Plan /\ wpc = "append" /\ wpc' = "write"
        /\ out' = Combine(Stored, batch, "last")
        /\ UNCHANGED <<base, parts, parked, batch, groups, want, batches>>
    BY DEF TableInv, FallBack, disk
  <1>2. Unique(Stored) /\ Stored \subseteq Row /\ Unique(batch) /\ batch \subseteq Row
    BY <1>1, StoredIsUnique DEF Files
  <1>3. Unique(out') /\ out' \subseteq Row /\ out' \subseteq Stored \cup batch
    BY <1>1, <1>2, CombineIsUnique
  <1>4. Stored' = Stored
    BY <1>1 DEF Stored
  <1>5. Files'
    BY <1>1, <1>3 DEF Files, Labels
  <1>6. Promise'
    BY <1>1, <1>3, <1>4 DEF Promise
  <1>7. Plan'
    BY <1>1 DEF Plan
  <1>. QED
    BY <1>5, <1>6, <1>7 DEF TableInv

LEMMA ParkKeeps ==
    ASSUME TableInv, Park
    PROVE  TableInv'
  <1>1. /\ Files /\ Promise /\ Plan /\ wpc = "write" /\ wpc' = "install"
        /\ parked' = parts /\ parts' = {}
        /\ UNCHANGED <<base, batch, out, groups, want, batches>>
    BY DEF TableInv, Park, work
  <1>2. Tidy(parts') /\ Live(parts') = {} /\ Stored' = base
    BY <1>1 DEF Tidy, Live, Stored, RowsOf
  <1>3. Files'
    BY <1>1, <1>2 DEF Files, Labels, OncePerKey
  <1>4. Promise'
    BY <1>1, <1>2 DEF Promise, Stored
  <1>5. Plan'
    BY <1>1 DEF Plan
  <1>. QED
    BY <1>3, <1>4, <1>5 DEF TableInv

LEMMA InstallKeeps ==
    ASSUME TableInv, Install
    PROVE  TableInv'
  <1>1. /\ Files /\ Promise /\ Plan /\ wpc \in {"install", "write"} /\ parts = {}
        /\ wpc' \in {"idle", "drop"} /\ base' = out /\ out' = {} /\ batch' = {}
        /\ UNCHANGED <<parts, parked, groups, want, batches>>
    BY DEF TableInv, Promise, Install
  <1>2. out = want /\ Unique(want)
    BY <1>1 DEF Promise
  <1>3. Stored' = want /\ Live(parts') = {}
    BY <1>1, <1>2 DEF Stored, Live, RowsOf
  <1>4. Files'
    BY <1>1, <1>2, <1>3 DEF Files, Labels, OncePerKey, Unique
  <1>5. Promise'
    BY <1>1, <1>3 DEF Promise
  <1>6. Plan'
    BY <1>1 DEF Plan
  <1>. QED
    BY <1>4, <1>5, <1>6 DEF TableInv

\* Parked parts are removed: a finished rewrite has installed what was in them,
\* and one that is about to park holds nothing that only they hold.
LEMMA DropKeeps ==
    ASSUME TableInv, DropOldParked \/ DropParked \/ Sweep
    PROVE  TableInv'
  <1>1. /\ Files /\ Promise /\ Plan /\ wpc \in {"write", "drop", "idle"}
        /\ wpc' \in {wpc, "idle"} /\ (wpc = "write" => wpc' = "write")
        /\ UNCHANGED <<base, parts, batch, out, groups, want, batches>>
    BY DEF TableInv, DropOldParked, DropParked, Sweep, work
  <1>2. Stored' = Stored
    BY <1>1 DEF Stored
  <1>3. Files'
    BY <1>1 DEF Files, Labels
  <1>4. Promise'
    BY <1>1, <1>2 DEF Promise
  <1>5. Plan'
    BY <1>1 DEF Plan
  <1>. QED
    BY <1>3, <1>4, <1>5 DEF TableInv

LEMMA KillKeeps ==
    ASSUME TableInv, Kill
    PROVE  TableInv'
  <1>1. /\ Files /\ Promise /\ wpc' = "idle" /\ batch' = {} /\ out' = {} /\ groups' = {}
        /\ want' = IF wpc \in {"append", "write", "install"} THEN Stored ELSE want
        /\ UNCHANGED <<base, parts, parked, batches>>
    BY DEF TableInv, Kill, disk
  <1>2. Stored' = Stored
    BY <1>1 DEF Stored
  <1>3. Files'
    BY <1>1 DEF Files, Labels, Unique
  <1>4. wpc \in Labels
    BY <1>1 DEF Files
  <1>5. Promise'
    BY <1>1, <1>2, <1>4 DEF Promise, Labels
  <1>6. Plan'
    BY <1>1 DEF Plan, Separate
  <1>. QED
    BY <1>3, <1>5, <1>6 DEF TableInv

-----------------------------------------------------------------------------
(* The table. *)

LEMMA TableInvariant == Spec => []TableInv
  <1>1. Init => TableInv
    BY DEF Init, TableInv, Files, Promise, Plan, Tidy, Live, OncePerKey, Unique, Labels, Stored,
           RowsOf, Separate
  <1>2. TableInv /\ [Next]_vars => TableInv'
    <2>1. ASSUME TableInv, Next
          PROVE  TableInv'
      <3>1. ASSUME NEW K \in SUBSET Keys \ {{}},
                   BeginAppend(K) \/ \E keep \in {"first", "last"} : BeginRewrite(K, keep)
            PROVE  TableInv'
        BY <2>1, <3>1, BeginKeeps
      <3>2. CASE SupersedeBase
        BY <2>1, <3>2, SupersedeBaseKeeps
      <3>3. CASE \E p \in parts : SupersedePart(p)
        BY <2>1, <3>3, SupersedePartKeeps
      <3>4. CASE PublishPart
        BY <2>1, <3>4, PublishPartKeeps
      <3>5. CASE PublishMerged
        BY <2>1, <3>5, PublishMergedKeeps
      <3>6. CASE Unlink
        BY <2>1, <3>6, UnlinkKeeps
      <3>7. CASE FallBack
        BY <2>1, <3>7, FallBackKeeps
      <3>8. CASE Park
        BY <2>1, <3>8, ParkKeeps
      <3>9. CASE Install
        BY <2>1, <3>9, InstallKeeps
      <3>10. CASE DropOldParked \/ DropParked \/ Sweep
        BY <2>1, <3>10, DropKeeps
      <3>11. CASE Kill
        BY <2>1, <3>11, KillKeeps
      <3>. QED
        BY <2>1, <3>1, <3>2, <3>3, <3>4, <3>5, <3>6, <3>7, <3>8, <3>9, <3>10, <3>11 DEF Next
    <2>2. ASSUME TableInv, UNCHANGED vars
          PROVE  TableInv'
      <3>1. UNCHANGED <<base, parts, parked, wpc, batch, out, groups, want, batches>>
        BY <2>2 DEF vars, disk, work
      <3>. QED
        BY <2>2, <3>1 DEF TableInv, Files, Promise, Plan, Merging, Stored
    <2>. QED
      BY <2>1, <2>2
  <1>. QED
    BY <1>1, <1>2, PTL DEF Spec

\* An append gives exactly what the full rewrite of the table would give, whatever
\* files it met, and neither the compaction after it nor a kill in one nor the removal
\* of a parked directory changes what is read; no two stored rows share a natural key
\* (data/warehouse.py, append, _incremental_append, _compact).
THEOREM AppendsAreExact == Spec => []AppendIsExact
  <1>1. ASSUME TableInv
        PROVE  AppendIsExact
    <2>1. Files /\ Promise
      BY <1>1 DEF TableInv
    <2>2. OncePerKey(base, Live(parts)) /\ \A p \in Live(parts) : p.s # 0
      BY <2>1 DEF Files, Tidy, PartFile, Live
    <2>. DEFINE first == [s |-> 0, e |-> 0, rows |-> base]
    <2>3. LiveFiles = {first} \cup Live(parts) /\ first.rows = base /\ first.s = 0
      BY DEF LiveFiles
    <2>. HIDE DEF first
    <2>4. \A f, g \in LiveFiles : \A r \in f.rows, t \in g.rows : r.key = t.key => f = g /\ r = t
      BY <2>2, <2>3 DEF OncePerKey, Unique
    <2>5. \A f, g \in LiveFiles : f # g => KeysOf(f.rows) \cap KeysOf(g.rows) = {}
      BY <2>4 DEF KeysOf
    <2>. QED
      BY <2>1, <2>4, <2>5 DEF AppendIsExact, Promise
  <1>. QED
    BY <1>1, TableInvariant, PTL

\* Until a write is finished, every row it keeps from before is on disk: in the base
\* file, in a live part or in a parked one, at every point a rewrite can be killed
\* (data/warehouse.py, append).
THEOREM OldRowsStayOnDisk == Spec => []OldRowsOnDisk
  <1>1. ASSUME TableInv
        PROVE  OldRowsOnDisk
    <2>1. Promise /\ wpc \in Labels
      BY <1>1 DEF TableInv, Files
    <2>2. wpc = "append" => want \subseteq batch \cup Stored
      BY <2>1 DEF Promise, Combine
    <2>3. base \subseteq Stored
      BY DEF Stored
    <2>. QED
      BY <2>1, <2>2, <2>3 DEF OldRowsOnDisk, Promise, Labels
  <1>. QED
    BY <1>1, TableInvariant, PTL

-----------------------------------------------------------------------------
(* Finite sets in order. *)

StrictOrder(R, S) ==
    /\ \A x \in S : <<x, x>> \notin R
    /\ \A x, y, z \in S : <<x, y>> \in R /\ <<y, z>> \in R => <<x, z>> \in R
    /\ \A x, y \in S : x = y \/ <<x, y>> \in R \/ <<y, x>> \in R

\* s lists S in the order R.
Lists(s, R, S) ==
    /\ s \in [1..Cardinality(S) -> S]
    /\ \A i, j \in 1..Cardinality(S) : i < j => <<s[i], s[j]>> \in R

Earlier(x, R, S) == {y \in S : <<y, x>> \in R}

\* An element's place is determined by how many come before it.
LEMMA Ranks ==
    ASSUME NEW S, IsFiniteSet(S), NEW R, StrictOrder(R, S)
    PROVE  LET rank == [x \in S |-> Cardinality(Earlier(x, R, S)) + 1]
           IN  /\ rank \in Bijection(S, 1..Cardinality(S))
               /\ \A x, y \in S : <<x, y>> \in R => rank[x] < rank[y]
  <1>. DEFINE n == Cardinality(S)
              rank == [x \in S |-> Cardinality(Earlier(x, R, S)) + 1]
  <1>1. n \in Nat
    BY FS_CardinalityType
  <1>2. ASSUME NEW x \in S
        PROVE  /\ IsFiniteSet(Earlier(x, R, S)) /\ Cardinality(Earlier(x, R, S)) \in Nat
               /\ Cardinality(Earlier(x, R, S)) < n
    <2>1. Earlier(x, R, S) \in SUBSET S /\ x \notin Earlier(x, R, S)
      BY DEF Earlier, StrictOrder
    <2>2. IsFiniteSet(Earlier(x, R, S)) /\ Cardinality(Earlier(x, R, S)) <= n
      BY <2>1, FS_Subset
    <2>3. Cardinality(Earlier(x, R, S)) # n
      BY <2>1, FS_Subset
    <2>4. Cardinality(Earlier(x, R, S)) \in Nat
      BY <2>2, FS_CardinalityType
    <2>. QED
      BY <1>1, <2>2, <2>3, <2>4
  <1>3. rank \in [S -> 1..n]
    BY <1>1, <1>2
  <1>4. ASSUME NEW x \in S, NEW y \in S, <<x, y>> \in R
        PROVE  rank[x] < rank[y]
    <2>1. Earlier(x, R, S) \in SUBSET Earlier(y, R, S)
      BY <1>4 DEF Earlier, StrictOrder
    <2>2. x \in Earlier(y, R, S) /\ x \notin Earlier(x, R, S)
      BY <1>4 DEF Earlier, StrictOrder
    <2>3. /\ Cardinality(Earlier(x, R, S)) <= Cardinality(Earlier(y, R, S))
          /\ Cardinality(Earlier(x, R, S)) # Cardinality(Earlier(y, R, S))
      BY <1>2, <2>1, <2>2, FS_Subset
    <2>4. Cardinality(Earlier(x, R, S)) \in Nat /\ Cardinality(Earlier(y, R, S)) \in Nat
      BY <1>2
    <2>5. rank[x] = Cardinality(Earlier(x, R, S)) + 1
          /\ rank[y] = Cardinality(Earlier(y, R, S)) + 1
      OBVIOUS
    <2>. QED
      BY <2>3, <2>4, <2>5
  <1>5. ASSUME NEW x \in S, NEW y \in S, rank[x] = rank[y]
        PROVE  x = y
    <2>1. rank[x] \in Nat /\ rank[y] \in Nat
      BY <1>3
    <2>2. ~ (<<x, y>> \in R) /\ ~ (<<y, x>> \in R)
      <3>. HIDE DEF rank
      <3>. QED
        BY <1>4, <1>5, <2>1
    <2>. QED
      BY <2>2 DEF StrictOrder
  <1>6. rank \in Injection(S, 1..n)
    <2>. HIDE DEF rank
    <2>. QED
      BY <1>3, <1>5 DEF Injection, IsInjective
  <1>7. IsFiniteSet(1..n) /\ Cardinality(1..n) = n
    BY <1>1, FS_Interval
  <1>8. rank \in Surjection(S, 1..n)
    <2>. HIDE DEF rank
    <2>. QED
      BY <1>6, <1>7, FS_Injection
  <1>. QED
    BY <1>4, <1>6, <1>8 DEF Bijection

\* There is such a list.
LEMMA ListExists ==
    ASSUME NEW S, IsFiniteSet(S), NEW R, StrictOrder(R, S)
    PROVE  \E s : Lists(s, R, S)
  <1>. DEFINE n == Cardinality(S)
              rank == [x \in S |-> Cardinality(Earlier(x, R, S)) + 1]
              s == [i \in 1..n |-> CHOOSE x \in S : rank[x] = i]
  <1>1. rank \in Bijection(S, 1..n)
    BY Ranks
  <1>2. ASSUME NEW i \in 1..n
        PROVE  s[i] \in S /\ rank[s[i]] = i
    <2>1. \E x \in S : rank[x] = i
      <3>. HIDE DEF rank
      <3>. QED
        BY <1>1 DEF Bijection, Surjection
    <2>. HIDE DEF rank
    <2>. QED
      BY <2>1
  <1>3. \A x, y \in S : <<x, y>> \in R => rank[x] < rank[y]
    BY Ranks
  <1>4. ASSUME NEW i \in 1..n, NEW j \in 1..n, i < j
        PROVE  <<s[i], s[j]>> \in R
    <2>1. s[i] \in S /\ s[j] \in S /\ rank[s[i]] = i /\ rank[s[j]] = j
      BY <1>2
    <2>2. CASE s[i] = s[j]
      <3>. HIDE DEF rank, s
      <3>. QED
        BY <1>4, <2>1, <2>2
    <2>3. CASE <<s[j], s[i]>> \in R
      <3>. HIDE DEF rank, s
      <3>1. j < i
        BY <1>3, <2>1, <2>3
      <3>. QED
        BY <1>1, <1>4, <3>1
    <2>. HIDE DEF rank, s
    <2>. QED
      BY <2>1, <2>2, <2>3 DEF StrictOrder
  <1>5. Lists(s, R, S)
    BY <1>2, <1>4 DEF Lists
  <1>. QED
    BY <1>5

\* It has every element, once.
LEMMA ListHasAll ==
    ASSUME NEW S, IsFiniteSet(S), NEW R, StrictOrder(R, S), NEW s, Lists(s, R, S)
    PROVE  /\ Cardinality(S) \in Nat
           /\ \A x \in S : \E i \in 1..Cardinality(S) : s[i] = x
           /\ \A i, j \in 1..Cardinality(S) : s[i] = s[j] => i = j
  <1>. DEFINE n == Cardinality(S)
  <1>1. n \in Nat
    BY FS_CardinalityType
  <1>2. \A i, j \in 1..n : s[i] = s[j] => i = j
    <2>1. SUFFICES ASSUME NEW i \in 1..n, NEW j \in 1..n, s[i] = s[j], i # j PROVE FALSE
      OBVIOUS
    <2>2. s[i] \in S /\ s[j] \in S
      BY DEF Lists
    <2>3. i < j \/ j < i
      BY <1>1, <2>1
    <2>4. <<s[i], s[i]>> \in R
      BY <2>1, <2>3 DEF Lists
    <2>. QED
      BY <2>2, <2>4 DEF StrictOrder
  <1>3. s \in Injection(1..n, S)
    BY <1>2 DEF Lists, Injection, IsInjective
  <1>4. IsFiniteSet(1..n) /\ Cardinality(1..n) = n
    BY <1>1, FS_Interval
  <1>5. s \in Surjection(1..n, S)
    BY <1>3, <1>4, FS_Injection
  <1>. QED
    BY <1>1, <1>2, <1>5 DEF Surjection

LEMMA SameFunction ==
    ASSUME NEW D, NEW S, NEW s \in [D -> S], NEW t \in [D -> S], \A x \in D : s[x] = t[x]
    PROVE  s = t
  OBVIOUS

\* There is only one.
LEMMA OneList ==
    ASSUME NEW S, IsFiniteSet(S), NEW R, StrictOrder(R, S),
           NEW s, Lists(s, R, S), NEW t, Lists(t, R, S)
    PROVE  s = t
  <1>. DEFINE n == Cardinality(S)
              T == {i \in 1..n : s[i] # t[i]}
  <1>1. /\ n \in Nat
        /\ \A x \in S : \E i \in 1..n : s[i] = x
        /\ \A x \in S : \E i \in 1..n : t[i] = x
    BY ListHasAll
  <1>2. /\ s \in [1..n -> S] /\ t \in [1..n -> S]
        /\ \A i, j \in 1..n : i < j => <<s[i], s[j]>> \in R /\ <<t[i], t[j]>> \in R
    BY DEF Lists
  <1>3. SUFFICES ASSUME T # {} PROVE FALSE
    <2>1. T = {} => \A i \in 1..n : s[i] = t[i]
      OBVIOUS
    <2>2. ASSUME \A i \in 1..n : s[i] = t[i]
          PROVE  s = t
      <3>1. s \in [1..n -> S] /\ t \in [1..n -> S]
        BY <1>2
      <3>2. PICK D : D = 1..n
        OBVIOUS
      <3>3. s \in [D -> S] /\ t \in [D -> S] /\ \A i \in D : s[i] = t[i]
        BY <2>2, <3>1, <3>2
      <3>. QED
        BY <3>3, SameFunction
    <2>. QED
      BY <2>1, <2>2
  <1>10. T \subseteq Nat
    BY <1>1
  <1>4. PICK i \in T : \A j \in T : i <= j
    <2>. HIDE DEF T
    <2>. QED
      BY <1>10, <1>3, LeastExists
  <1>5. \A j \in 1..n : j < i => s[j] = t[j]
    BY <1>1, <1>4
  <1>6. ASSUME NEW u, NEW v, u \in [1..n -> S], v \in [1..n -> S], u[i] # v[i],
               \A j \in 1..n : j < i => u[j] = v[j],
               \A j, k \in 1..n : j < k => <<u[j], u[k]>> \in R /\ <<v[j], v[k]>> \in R,
               \E k \in 1..n : v[k] = u[i]
        PROVE  <<v[i], u[i]>> \in R
    <2>1. PICK k \in 1..n : v[k] = u[i]
      BY <1>6
    <2>2. i \in 1..n /\ u[i] \in S /\ k # i
      BY <1>6, <2>1
    <2>3. CASE k < i
      <3>1. u[k] = u[i] /\ <<u[k], u[i]>> \in R
        BY <1>6, <2>1, <2>2, <2>3
      <3>. QED
        BY <2>2, <3>1 DEF StrictOrder
    <2>4. CASE i < k
      BY <1>6, <2>1, <2>2, <2>4
    <2>. QED
      BY <1>1, <2>1, <2>2, <2>3, <2>4
  <1>7. i \in 1..n /\ s[i] \in S /\ t[i] \in S /\ s[i] # t[i]
    BY <1>2, <1>4
  <1>8. <<t[i], s[i]>> \in R
    <2>1. \E k \in 1..n : t[k] = s[i]
      BY <1>1, <1>7
    <2>. QED
      BY <1>2, <1>5, <1>6, <1>7, <2>1
  <1>9. <<s[i], t[i]>> \in R
    <2>1. \E k \in 1..n : s[k] = t[i]
      BY <1>1, <1>7
    <2>. QED
      BY <1>2, <1>5, <1>6, <1>7, <2>1
  <1>. QED
    BY <1>7, <1>8, <1>9 DEF StrictOrder

\* Two lists make one if everything in the first comes before the second.
LEMMA ListsJoin ==
    ASSUME NEW A, IsFiniteSet(A), NEW B, IsFiniteSet(B), NEW R, StrictOrder(R, A \cup B),
           \A a \in A, b \in B : <<a, b>> \in R,
           NEW s, Lists(s, R, A), NEW t, Lists(t, R, B)
    PROVE  s \in Seq(A \cup B) /\ t \in Seq(A \cup B) /\ Lists(s \o t, R, A \cup B)
  <1>. DEFINE m == Cardinality(A)
              n == Cardinality(B)
              S == A \cup B
  <1>1. m \in Nat /\ n \in Nat
    BY FS_CardinalityType
  <1>2. A \cap B = {}
    BY DEF StrictOrder
  <1>3. IsFiniteSet(S) /\ Cardinality(S) = m + n
    <2>1. IsFiniteSet(S) /\ Cardinality(S) = m + n - Cardinality(A \cap B)
      BY FS_Union
    <2>2. Cardinality(A \cap B) = 0
      BY <1>2, FS_EmptySet
    <2>. HIDE DEF m, n, S
    <2>. QED
      BY <1>1, <2>1, <2>2
  <1>4. /\ s \in [1..m -> A] /\ t \in [1..n -> B]
        /\ \A i, j \in 1..m : i < j => <<s[i], s[j]>> \in R
        /\ \A i, j \in 1..n : i < j => <<t[i], t[j]>> \in R
    BY DEF Lists
  <1>5. /\ s \in Seq(S) /\ Len(s) = m
        /\ t \in Seq(S) /\ Len(t) = n
    BY <1>1, <1>4
  <1>6. /\ s \o t \in Seq(S) /\ Len(s \o t) = m + n
        /\ \A i \in 1..(m + n) : (s \o t)[i] = IF i <= m THEN s[i] ELSE t[i - m]
    <2>. HIDE DEF m, n, S
    <2>. QED
      BY <1>5, ConcatProperties
  <1>7. s \o t \in [1..(m + n) -> S]
    BY <1>6, LenProperties
  <1>8. ASSUME NEW i \in 1..(m + n), NEW j \in 1..(m + n), i < j
        PROVE  <<(s \o t)[i], (s \o t)[j]>> \in R
    <2>1. CASE j <= m
      <3>1. i \in 1..m /\ j \in 1..m
        BY <1>1, <1>8, <2>1
      <3>. QED
        BY <1>4, <1>6, <1>8, <3>1
    <2>2. CASE i <= m /\ ~ (j <= m)
      <3>1. i \in 1..m /\ j - m \in 1..n
        BY <1>1, <1>8, <2>2
      <3>2. s[i] \in A /\ t[j - m] \in B
        BY <1>4, <3>1
      <3>. QED
        BY <1>6, <2>2, <3>2
    <2>3. CASE ~ (i <= m)
      <3>1. i - m \in 1..n /\ j - m \in 1..n /\ i - m < j - m /\ ~ (j <= m)
        BY <1>1, <1>8, <2>3
      <3>. QED
        BY <1>4, <1>6, <2>3, <3>1
    <2>. QED
      BY <2>1, <2>2, <2>3
  <1>9. \A i, j \in 1..(m + n) : i < j => <<(s \o t)[i], (s \o t)[j]>> \in R
    BY <1>8
  <1>. QED
    BY <1>3, <1>5, <1>7, <1>9 DEF Lists

-----------------------------------------------------------------------------
(* What is in the files: finitely many rows of the batches so far. *)

Written == [key : Keys, ver : 1..MaxBatches]

Bounded ==
    /\ batches \in 0..MaxBatches
    /\ base \subseteq Written /\ batch \subseteq Written /\ out \subseteq Written
    /\ IsFiniteSet(parts) /\ \A p \in parts : p.rows \subseteq Written

LEMMA StoredIsWritten ==
    ASSUME Bounded
    PROVE  Stored \subseteq Written
  BY DEF Bounded, Stored, RowsOf, Live

LEMMA CombineIsWritten ==
    ASSUME NEW a \in SUBSET Written, NEW b \in SUBSET Written, NEW keep
    PROVE  Combine(a, b, keep) \subseteq Written
  BY DEF Combine

LEMMA BeginIsBounded ==
    ASSUME Bounded, NEW K \in SUBSET Keys \ {{}},
           BeginAppend(K) \/ \E keep \in {"first", "last"} : BeginRewrite(K, keep)
    PROVE  Bounded'
  <1>1. batches + 1 \in 1..MaxBatches
    BY TableAssumption DEF Bounded, BeginAppend, BeginRewrite
  <1>2. Frame(K) \subseteq Written
    BY <1>1 DEF Frame, Written
  <1>3. /\ batches' \in 0..MaxBatches /\ batch' \subseteq Written /\ out' \subseteq Written
        /\ UNCHANGED disk
    <2>1. CASE BeginAppend(K)
      BY <1>1, <1>2, <2>1 DEF BeginAppend, Bounded
    <2>2. ASSUME NEW keep \in {"first", "last"}, BeginRewrite(K, keep)
          PROVE  /\ batches' \in 0..MaxBatches /\ batch' \subseteq Written
                 /\ out' \subseteq Written /\ UNCHANGED disk
      <3>1. Combine(Stored, Frame(K), keep) \subseteq Written
        BY <1>2, StoredIsWritten, CombineIsWritten
      <3>. QED
        BY <1>1, <1>2, <2>2, <3>1 DEF BeginRewrite, Bounded
    <2>. QED
      BY <2>1, <2>2
  <1>. QED
    BY <1>3 DEF Bounded, disk

LEMMA AppendIsBounded ==
    ASSUME TableInv, Bounded,
           SupersedeBase \/ (\E p \in parts : SupersedePart(p)) \/ PublishPart
    PROVE  Bounded'
  <1>1. CASE SupersedeBase
    BY <1>1 DEF SupersedeBase, Superseded, Bounded, work
  <1>2. ASSUME NEW p \in parts, SupersedePart(p)
        PROVE  Bounded'
    <2>. DEFINE n == [p EXCEPT !.rows = Superseded(@)]
    <2>1. p \in PartFile
      BY <1>2 DEF TableInv, Files, Tidy
    <2>2. n.rows \subseteq Written
      BY <2>1, <1>2 DEF PartFile, Superseded, Bounded
    <2>3. parts' = (parts \ {p}) \cup {n}
      BY <1>2 DEF SupersedePart
    <2>. HIDE DEF n
    <2>4. IsFiniteSet(parts')
      BY <2>3, FS_RemoveElement, FS_AddElement DEF Bounded
    <2>. QED
      BY <1>2, <2>2, <2>3, <2>4 DEF SupersedePart, Bounded, work
  <1>3. CASE PublishPart
    <2>. DEFINE n == [s |-> NextSeq, e |-> NextSeq, rows |-> batch]
    <2>1. parts' = parts \cup {n} /\ n.rows = batch
      BY <1>3 DEF PublishPart
    <2>. HIDE DEF n
    <2>2. IsFiniteSet(parts')
      BY <2>1, FS_AddElement DEF Bounded
    <2>. QED
      BY <1>3, <2>1, <2>2 DEF PublishPart, Bounded
  <1>. QED
    BY <1>1, <1>2, <1>3

LEMMA CompactionIsBounded ==
    ASSUME TableInv, Bounded, PublishMerged \/ Unlink
    PROVE  Bounded'
  <1>1. CASE PublishMerged
    <2>1. groups # {} /\ \A g \in groups : Mergeable(g, parts)
      BY <1>1 DEF TableInv, Plan, PublishMerged
    <2>2. \A h \in groups : h # {} /\ h \subseteq parts
      BY <2>1 DEF Mergeable, Live
    <2>3. \A h \in groups : \A p \in h : p \in PartFile /\ p.s <= p.e
      BY <2>2 DEF TableInv, Files, Tidy
    <2>4. NextGroup \in groups
      BY <2>1, <2>2, <2>3, FirstGroup DEF TableInv, Plan
    <2>. DEFINE n == Merged(NextGroup)
    <2>5. n.rows \subseteq Written
      BY <2>2, <2>4 DEF Merged, RowsOf, Bounded
    <2>6. parts' = parts \cup {n}
      BY <1>1 DEF PublishMerged
    <2>. HIDE DEF n
    <2>7. IsFiniteSet(parts')
      BY <2>6, FS_AddElement DEF Bounded
    <2>. QED
      BY <1>1, <2>5, <2>6, <2>7 DEF PublishMerged, Bounded, work
  <1>2. CASE Unlink
    <2>1. parts' \subseteq parts /\ IsFiniteSet(parts')
      BY <1>2, FS_RemoveElement DEF Unlink, Bounded
    <2>. QED
      BY <1>2, <2>1 DEF Unlink, Bounded
  <1>. QED
    BY <1>1, <1>2

LEMMA RewriteIsBounded ==
    ASSUME Bounded, FallBack \/ DropOldParked \/ Park \/ Install \/ DropParked \/ Kill \/ Sweep
    PROVE  Bounded'
  <1>1. CASE FallBack
    <2>1. Combine(Stored, batch, "last") \subseteq Written
      BY StoredIsWritten, CombineIsWritten DEF Bounded
    <2>. QED
      BY <1>1, <2>1 DEF FallBack, Bounded, disk
  <1>2. CASE Park
    BY <1>2, FS_EmptySet DEF Park, Bounded, work
  <1>3. CASE Install
    BY <1>3 DEF Install, Bounded
  <1>4. CASE Kill
    BY <1>4 DEF Kill, Bounded, disk
  <1>5. CASE DropOldParked \/ DropParked \/ Sweep
    BY <1>5 DEF DropOldParked, DropParked, Sweep, Bounded, work
  <1>. QED
    BY <1>1, <1>2, <1>3, <1>4, <1>5

LEMMA FilesAreBounded == Spec => []Bounded
  <1>1. Init => Bounded
    BY FS_EmptySet, TableAssumption DEF Init, Bounded
  <1>2. TableInv /\ Bounded /\ [Next]_vars => Bounded'
    <2>1. ASSUME TableInv, Bounded, Next
          PROVE  Bounded'
      BY <2>1, BeginIsBounded, AppendIsBounded, CompactionIsBounded, RewriteIsBounded DEF Next
    <2>2. ASSUME Bounded, UNCHANGED vars
          PROVE  Bounded'
      BY <2>2 DEF Bounded, vars, disk, work
    <2>. QED
      BY <2>1, <2>2
  <1>. QED
    BY <1>1, <1>2, TableInvariant, PTL DEF Spec

-----------------------------------------------------------------------------
(* Computing one step after the other. *)

LEMMA CountUp ==
    ASSUME NEW n \in Nat, NEW P, 0 \in P, \A i \in 1..n : i - 1 \in P => i \in P
    PROVE  0..n \subseteq P
  <1>. DEFINE T == (0..n) \ P
  <1>1. SUFFICES ASSUME T # {} PROVE FALSE
    OBVIOUS
  <1>2. T \subseteq Nat
    OBVIOUS
  <1>3. PICK i \in T : \A j \in T : i <= j
    <2>. HIDE DEF T
    <2>. QED
      BY <1>1, <1>2, LeastExists
  <1>4. i \in 1..n /\ i - 1 \in 0..n
    BY <1>3
  <1>5. i - 1 \notin T
    BY <1>3, <1>4
  <1>. QED
    BY <1>3, <1>4, <1>5

\* f is a at 0, and G of its value before at each number after.
Iterated(f, m, a, G, X) ==
    f \in [0..m -> X] /\ f[0] = a /\ \A i \in 1..m : f[i] = G[<<f[i - 1], i>>]

LEMMA Iterates ==
    ASSUME NEW n \in Nat, NEW X, NEW a \in X, NEW G,
           \A x \in X, i \in 1..n : G[<<x, i>>] \in X
    PROVE  \E f : Iterated(f, n, a, G, X)
  <1>. DEFINE P == {m \in 0..n : \E f : Iterated(f, m, a, G, X)}
  <1>1. 0 \in P
    <2>. DEFINE f == [i \in 0..0 |-> a]
    <2>1. Iterated(f, 0, a, G, X)
      BY DEF Iterated
    <2>. QED
      BY <2>1
  <1>2. ASSUME NEW m \in 1..n, m - 1 \in P
        PROVE  m \in P
    <2>1. PICK f : Iterated(f, m - 1, a, G, X)
      BY <1>2
    <2>. DEFINE g == [i \in 0..m |-> IF i < m THEN f[i] ELSE G[<<f[m - 1], m>>]]
    <2>2. f \in [0..(m - 1) -> X] /\ f[m - 1] \in X
      BY <1>2, <2>1 DEF Iterated
    <2>3. \A i \in 0..m : i < m \/ i = m
      OBVIOUS
    <2>4. G[<<f[m - 1], m>>] \in X
      BY <2>2
    <2>5. \A i \in 0..(m - 1) : g[i] = f[i]
      OBVIOUS
    <2>6. g \in [0..m -> X]
      BY <2>2, <2>4
    <2>7. g[m] = G[<<g[m - 1], m>>]
      <3>1. g[m] = G[<<f[m - 1], m>>] /\ m - 1 \in 0..(m - 1)
        OBVIOUS
      <3>2. g[m - 1] = f[m - 1]
        BY <2>5, <3>1
      <3>. QED
        BY <3>1, <3>2
    <2>8. g[0] = a
      BY <2>1, <2>5 DEF Iterated
    <2>9. ASSUME NEW i \in 1..m
          PROVE  g[i] = G[<<g[i - 1], i>>]
      <3>1. CASE i = m
        BY <2>7, <3>1
      <3>2. CASE i \in 1..(m - 1)
        <4>1. i \in 0..(m - 1) /\ i - 1 \in 0..(m - 1)
          BY <3>2
        <4>2. f[i] = G[<<f[i - 1], i>>]
          BY <2>1, <3>2 DEF Iterated
        <4>. HIDE DEF g
        <4>. QED
          BY <2>5, <4>1, <4>2
      <3>. QED
        BY <3>1, <3>2
    <2>10. Iterated(g, m, a, G, X)
      <3>. HIDE DEF g
      <3>. QED
        BY <2>6, <2>8, <2>9 DEF Iterated
    <2>. QED
      BY <1>2, <2>10
  <1>3. 0..n \subseteq P
    <2>. HIDE DEF P
    <2>. QED
      BY <1>1, <1>2, CountUp
  <1>. QED
    BY <1>3

-----------------------------------------------------------------------------
(* The spool holds what is in scope, in whatever parts. *)

CastType == [Keys -> [scope : BOOLEAN, team : Nat \ {0}, player : Nat]]

Accumulators == [parts : Seq(SUBSET Written), buffer : SUBSET Written]
Held(acc) == (UNION Range(acc.parts)) \cup acc.buffer

LEMMA RangeOfAppend ==
    ASSUME NEW S, NEW s \in Seq(S), NEW x \in S
    PROVE  Range(Append(s, x)) = Range(s) \cup {x}
  <1>1. /\ Append(s, x) \in Seq(S) /\ Len(Append(s, x)) = Len(s) + 1
        /\ \A i \in 1..Len(s) : Append(s, x)[i] = s[i]
        /\ Append(s, x)[Len(s) + 1] = x
        /\ Len(s) \in Nat
    BY AppendProperties, LenProperties
  <1>2. DOMAIN Append(s, x) = 1..(Len(s) + 1) /\ DOMAIN s = 1..Len(s)
    BY <1>1, LenProperties
  <1>3. ASSUME NEW y \in Range(Append(s, x))
        PROVE  y \in Range(s) \cup {x}
    <2>1. PICK i \in 1..(Len(s) + 1) : y = Append(s, x)[i]
      BY <1>2, <1>3 DEF Range
    <2>2. i = Len(s) + 1 \/ i \in 1..Len(s)
      BY <1>1, <2>1
    <2>. QED
      BY <1>1, <1>2, <2>1, <2>2 DEF Range
  <1>4. ASSUME NEW y \in Range(s)
        PROVE  y \in Range(Append(s, x))
    <2>1. PICK i \in 1..Len(s) : y = s[i]
      BY <1>2, <1>4 DEF Range
    <2>2. i \in 1..(Len(s) + 1)
      BY <1>1, <2>1
    <2>. QED
      BY <1>1, <1>2, <2>1, <2>2 DEF Range
  <1>5. x \in Range(Append(s, x))
    <2>1. Len(s) + 1 \in DOMAIN Append(s, x)
      BY <1>1, <1>2
    <2>. QED
      BY <1>1, <2>1 DEF Range
  <1>. QED
    BY <1>3, <1>4, <1>5

LEMMA AddsToSpool ==
    ASSUME NEW acc \in Accumulators, NEW rows \in SUBSET Written
    PROVE  /\ AddToSpool(acc, rows) \in Accumulators
           /\ Held(AddToSpool(acc, rows)) = Held(acc) \cup rows
  <1>1. PICK S, p, m : S = SUBSET Written /\ p = acc.parts /\ m = acc.buffer \cup rows
    OBVIOUS
  <1>2. p \in Seq(S) /\ m \in S /\ {} \in S
    BY <1>1 DEF Accumulators
  <1>3. Append(p, m) \in Seq(S) /\ Range(Append(p, m)) = Range(p) \cup {m}
    BY <1>2, RangeOfAppend, AppendProperties
  <1>4. \/ AddToSpool(acc, rows) = [parts |-> Append(p, m), buffer |-> {}]
        \/ AddToSpool(acc, rows) = [parts |-> p, buffer |-> m]
    BY <1>1 DEF AddToSpool
  <1>5. AddToSpool(acc, rows) \in Accumulators
    BY <1>1, <1>2, <1>3, <1>4 DEF Accumulators
  <1>6. Held(acc) \cup rows = (UNION Range(p)) \cup m
    BY <1>1 DEF Held
  <1>7. UNION (Range(p) \cup {m}) = (UNION Range(p)) \cup m
    OBVIOUS
  <1>8. Held(AddToSpool(acc, rows)) = (UNION Range(p)) \cup m
    <2>1. Held([parts |-> Append(p, m), buffer |-> {}]) = UNION (Range(p) \cup {m})
      BY <1>3 DEF Held
    <2>2. Held([parts |-> p, buffer |-> m]) = (UNION Range(p)) \cup m
      BY DEF Held
    <2>. QED
      BY <1>4, <1>7, <2>1, <2>2
  <1>. QED
    BY <1>5, <1>6, <1>8

\* However the files were merged, every row of one is in the spool.
LEMMA SpoolHolds ==
    ASSUME NEW files, NEW cast, Len(files) \in Nat,
           \A i \in 1..Len(files) : Scanned(cast, files[i]) \subseteq Written
    PROVE  UNION Range(Spool(files, cast))
               = UNION {Scanned(cast, files[i]) : i \in 1..Len(files)}
  <1>. DEFINE start == [parts |-> <<>>, buffer |-> {}]
              row == [i \in 1..Len(files) |-> Scanned(cast, files[i])]
              G == [x \in Accumulators \X (1..Len(files)) |-> AddToSpool(x[1], row[x[2]])]
              spooled == CHOOSE f : f = [i \in 0..Len(files) |->
                             IF i = 0 THEN start
                             ELSE AddToSpool(f[i - 1], Scanned(cast, files[i]))]
              P == {i \in 0..Len(files) :
                       /\ spooled[i] \in Accumulators
                       /\ Held(spooled[i]) = UNION {Scanned(cast, files[j]) : j \in 1..i}}
  <1>0. PICK n \in Nat : n = Len(files)
    OBVIOUS
  <1>1. start \in Accumulators /\ Held(start) = {}
    <2>1. <<>> \in Seq(SUBSET Written) /\ Range(<<>>) = {}
      BY EmptySeq DEF Range
    <2>. QED
      BY <2>1 DEF Accumulators, Held
  <1>2. row \in [1..n -> SUBSET Written] /\ \A i \in 1..n : row[i] = Scanned(cast, files[i])
    BY <1>0
  <1>3. \A x \in Accumulators, i \in 1..n : G[<<x, i>>] = AddToSpool(x, row[i])
    <2>1. G = [x \in Accumulators \X (1..n) |-> AddToSpool(x[1], row[x[2]])]
      BY <1>0
    <2>. HIDE DEF row
    <2>. QED
      BY <1>2, <2>1, AddsToSpool
  <1>4. PICK f : Iterated(f, n, start, G, Accumulators)
    <2>. HIDE DEF G, start, row
    <2>1. \A x \in Accumulators, i \in 1..n : G[<<x, i>>] \in Accumulators
      BY <1>2, <1>3, AddsToSpool
    <2>. QED
      BY <1>1, <2>1, Iterates
  <1>5. f = [i \in 0..n |-> IF i = 0 THEN start
                            ELSE AddToSpool(f[i - 1], Scanned(cast, files[i]))]
    <2>. HIDE DEF G, start, row
    <2>1. f \in [0..n -> Accumulators] /\ f[0] = start
      BY <1>4 DEF Iterated
    <2>2. ASSUME NEW i \in 0..n
          PROVE  f[i] = IF i = 0 THEN start ELSE AddToSpool(f[i - 1], Scanned(cast, files[i]))
      <3>1. CASE i = 0
        BY <2>1, <3>1
      <3>2. CASE i \in 1..n
        <4>1. f[i - 1] \in Accumulators /\ f[i] = G[<<f[i - 1], i>>]
          BY <1>4, <2>1, <3>2 DEF Iterated
        <4>. QED
          BY <1>2, <1>3, <3>2, <4>1
      <3>. QED
        BY <3>1, <3>2
    <2>. QED
      BY <2>1, <2>2
  <1>6. spooled = [i \in 0..n |-> IF i = 0 THEN start
                                  ELSE AddToSpool(spooled[i - 1], Scanned(cast, files[i]))]
    <2>. HIDE DEF start
    <2>. QED
      BY <1>0, <1>5
  <1>7. Spool(files, cast) = Append(spooled[n].parts, spooled[n].buffer)
    BY <1>0 DEF Spool
  <1>. HIDE DEF spooled, start
  <1>8. 0 \in P
    BY <1>0, <1>1, <1>6
  <1>9. ASSUME NEW i \in 1..n, i - 1 \in P
        PROVE  i \in P
    <2>1. spooled[i] = AddToSpool(spooled[i - 1], Scanned(cast, files[i]))
      BY <1>6
    <2>2. /\ spooled[i] \in Accumulators
          /\ Held(spooled[i]) = Held(spooled[i - 1]) \cup Scanned(cast, files[i])
      BY <1>0, <1>9, <2>1, AddsToSpool
    <2>3. \A j \in 1..i : j \in 1..(i - 1) \/ j = i
      OBVIOUS
    <2>4. \A j \in 1..(i - 1) : j \in 1..i
      OBVIOUS
    <2>5. UNION {Scanned(cast, files[j]) : j \in 1..i}
              = (UNION {Scanned(cast, files[j]) : j \in 1..(i - 1)}) \cup Scanned(cast, files[i])
      BY <2>3, <2>4
    <2>. QED
      BY <1>0, <1>9, <2>2, <2>5
  <1>10. n \in P
    <2>. HIDE DEF P
    <2>. QED
      BY <1>8, <1>9, CountUp
  <1>11. PICK S, p, m : S = SUBSET Written /\ p = spooled[n].parts /\ m = spooled[n].buffer
    OBVIOUS
  <1>12. p \in Seq(S) /\ m \in S
    BY <1>10, <1>11 DEF Accumulators
  <1>13. UNION Range(Append(p, m)) = (UNION Range(p)) \cup m
    BY <1>12, RangeOfAppend
  <1>. QED
    BY <1>0, <1>7, <1>10, <1>11, <1>13 DEF Held

-----------------------------------------------------------------------------
(* Files, persons and rows in order. *)

ByStart(files) == {pair \in files \X files : pair[1].s < pair[2].s}
Persons == Nat \X Nat
ByPerson == {pair \in Persons \X Persons : Before(pair[1], pair[2])}
ByKey(cast) ==
    {pair \in Written \X Written : Before(SortKey(cast, pair[1]), SortKey(cast, pair[2]))}

LEMMA BeforeInTwo ==
    ASSUME NEW a \in Nat, NEW b \in Nat, NEW c \in Nat, NEW d \in Nat
    PROVE  Before(<<a, b>>, <<c, d>>) <=> a < c \/ (a = c /\ b < d)
  <1>1. Before(<<a, b>>, <<c, d>>)
            <=> \E i \in 1..2 : /\ <<a, b>>[i] < <<c, d>>[i]
                                /\ \A j \in 1..(i - 1) : <<a, b>>[j] = <<c, d>>[j]
    BY DEF Before
  <1>2. \A i \in 1..2 : i = 1 \/ i = 2
    OBVIOUS
  <1>3. \A j \in 1..(1 - 1) : FALSE
    OBVIOUS
  <1>4. \A j \in 1..(2 - 1) : j = 1
    OBVIOUS
  <1>. QED
    BY <1>1, <1>2, <1>3, <1>4

LEMMA BeforeInThree ==
    ASSUME NEW a \in Nat, NEW b \in Nat, NEW u \in Nat, NEW c \in Nat, NEW d \in Nat, NEW v \in Nat
    PROVE  Before(<<a, b, u>>, <<c, d, v>>)
               <=> a < c \/ (a = c /\ b < d) \/ (a = c /\ b = d /\ u < v)
  <1>1. Before(<<a, b, u>>, <<c, d, v>>)
            <=> \E i \in 1..3 : /\ <<a, b, u>>[i] < <<c, d, v>>[i]
                                /\ \A j \in 1..(i - 1) : <<a, b, u>>[j] = <<c, d, v>>[j]
    BY DEF Before
  <1>2. \A i \in 1..3 : i = 1 \/ i = 2 \/ i = 3
    OBVIOUS
  <1>3. \A j \in 1..(1 - 1) : FALSE
    OBVIOUS
  <1>4. \A j \in 1..(2 - 1) : j = 1
    OBVIOUS
  <1>5. \A j \in 1..(3 - 1) : j = 1 \/ j = 2
    OBVIOUS
  <1>. QED
    BY <1>1, <1>2, <1>3, <1>4, <1>5

LEMMA RowsHaveKeys ==
    ASSUME NEW cast \in CastType, NEW r \in Written
    PROVE  /\ Person(cast, r) \in Persons
           /\ cast[r.key].team \in Nat /\ cast[r.key].player \in Nat /\ r.ver \in Nat
           /\ Person(cast, r) = <<cast[r.key].team, cast[r.key].player>>
           /\ SortKey(cast, r) = <<cast[r.key].team, cast[r.key].player, r.ver>>
           /\ cast[r.key].scope \in BOOLEAN
  BY DEF CastType, Written, Person, Persons, SortKey

LEMMA PersonsAreOrdered ==
    ASSUME NEW S \in SUBSET Persons
    PROVE  StrictOrder(ByPerson, S)
  <1>1. \A x, y \in Persons :
            <<x, y>> \in ByPerson <=> x[1] < y[1] \/ (x[1] = y[1] /\ x[2] < y[2])
    <2>1. ASSUME NEW x \in Persons, NEW y \in Persons
          PROVE  <<x, y>> \in ByPerson <=> x[1] < y[1] \/ (x[1] = y[1] /\ x[2] < y[2])
      <3>1. /\ x = <<x[1], x[2]>> /\ x[1] \in Nat /\ x[2] \in Nat
            /\ y = <<y[1], y[2]>> /\ y[1] \in Nat /\ y[2] \in Nat
        BY DEF Persons
      <3>2. Before(<<x[1], x[2]>>, <<y[1], y[2]>>) <=> x[1] < y[1] \/ (x[1] = y[1] /\ x[2] < y[2])
        BY <3>1, BeforeInTwo
      <3>3. <<x, y>> \in ByPerson <=> Before(x, y)
        BY DEF ByPerson
      <3>. QED
        BY <3>1, <3>2, <3>3
    <2>. QED
      BY <2>1
  <1>2. \A x \in Persons : x = <<x[1], x[2]>> /\ x[1] \in Nat /\ x[2] \in Nat
    BY DEF Persons
  <1>3. \A x, y \in Persons : x = y \/ <<x, y>> \in ByPerson \/ <<y, x>> \in ByPerson
    <2>1. ASSUME NEW x \in Persons, NEW y \in Persons, x[1] = y[1], x[2] = y[2]
          PROVE  x = y
      <3>1. x = <<x[1], x[2]>> /\ y = <<y[1], y[2]>>
        BY <1>2
      <3>. QED
        BY <2>1, <3>1
    <2>2. ASSUME NEW x \in Persons, NEW y \in Persons
          PROVE  x = y \/ <<x, y>> \in ByPerson \/ <<y, x>> \in ByPerson
      <3>1. x[1] \in Nat /\ x[2] \in Nat /\ y[1] \in Nat /\ y[2] \in Nat
        BY <1>2
      <3>. QED
        BY <1>1, <2>1, <3>1
    <2>. QED
      BY <2>2
  <1>4. \A x, y, z \in Persons :
            <<x, y>> \in ByPerson /\ <<y, z>> \in ByPerson => <<x, z>> \in ByPerson
    BY <1>1, <1>2
  <1>5. \A x \in Persons : <<x, x>> \notin ByPerson
    BY <1>1, <1>2
  <1>. QED
    BY <1>3, <1>4, <1>5 DEF StrictOrder

\* Rows of different persons are in the order of these.
LEMMA KeysFollowPersons ==
    ASSUME NEW cast \in CastType, NEW r \in Written, NEW t \in Written,
           <<Person(cast, r), Person(cast, t)>> \in ByPerson
    PROVE  <<r, t>> \in ByKey(cast)
  <1>. DEFINE a == cast[r.key].team
              b == cast[r.key].player
              c == cast[t.key].team
              d == cast[t.key].player
  <1>1. /\ a \in Nat /\ b \in Nat /\ r.ver \in Nat /\ c \in Nat /\ d \in Nat /\ t.ver \in Nat
        /\ Person(cast, r) = <<a, b>> /\ Person(cast, t) = <<c, d>>
        /\ SortKey(cast, r) = <<a, b, r.ver>> /\ SortKey(cast, t) = <<c, d, t.ver>>
    BY RowsHaveKeys
  <1>2. Before(Person(cast, r), Person(cast, t))
    BY DEF ByPerson
  <1>. HIDE DEF a, b, c, d
  <1>3. a < c \/ (a = c /\ b < d)
    BY <1>1, <1>2, BeforeInTwo
  <1>4. Before(SortKey(cast, r), SortKey(cast, t))
    BY <1>1, <1>3, BeforeInThree
  <1>. QED
    BY <1>4 DEF ByKey

Untied(cast, S) == \A r, t \in S : SortKey(cast, r) = SortKey(cast, t) => r = t

LEMMA KeysAreOrdered ==
    ASSUME NEW cast \in CastType, NEW S \in SUBSET Written, Untied(cast, S)
    PROVE  StrictOrder(ByKey(cast), S)
  <1>. DEFINE key == [r \in Written |-> SortKey(cast, r)]
              Lex(x, y) == x[1] < y[1] \/ (x[1] = y[1] /\ x[2] < y[2])
                           \/ (x[1] = y[1] /\ x[2] = y[2] /\ x[3] < y[3])
  <1>1. \A r \in Written : /\ key[r] = <<key[r][1], key[r][2], key[r][3]>>
                           /\ key[r][1] \in Nat /\ key[r][2] \in Nat /\ key[r][3] \in Nat
    BY RowsHaveKeys
  <1>2. \A r, t \in S : key[r] = key[t] => r = t
    BY DEF Untied
  <1>3. \A r, t \in Written : <<r, t>> \in ByKey(cast) <=> Before(key[r], key[t])
    BY DEF ByKey
  <1>. HIDE DEF key
  <1>4. \A r, t \in Written : <<r, t>> \in ByKey(cast) <=> Lex(key[r], key[t])
    <2>1. ASSUME NEW r \in Written, NEW t \in Written
          PROVE  <<r, t>> \in ByKey(cast) <=> Lex(key[r], key[t])
      <3>1. PICK x1, x2, x3, y1, y2, y3 :
                /\ x1 = key[r][1] /\ x2 = key[r][2] /\ x3 = key[r][3]
                /\ y1 = key[t][1] /\ y2 = key[t][2] /\ y3 = key[t][3]
        OBVIOUS
      <3>2. /\ key[r] = <<x1, x2, x3>> /\ key[t] = <<y1, y2, y3>>
            /\ x1 \in Nat /\ x2 \in Nat /\ x3 \in Nat
            /\ y1 \in Nat /\ y2 \in Nat /\ y3 \in Nat
        BY <1>1, <3>1
      <3>3. Before(<<x1, x2, x3>>, <<y1, y2, y3>>)
                <=> x1 < y1 \/ (x1 = y1 /\ x2 < y2) \/ (x1 = y1 /\ x2 = y2 /\ x3 < y3)
        BY <3>2, BeforeInThree
      <3>. QED
        BY <1>3, <3>1, <3>2, <3>3
    <2>. QED
      BY <2>1
  <1>5. \A x, y \in S : x = y \/ <<x, y>> \in ByKey(cast) \/ <<y, x>> \in ByKey(cast)
    <2>1. ASSUME NEW x \in S, NEW y \in S, key[x][1] = key[y][1], key[x][2] = key[y][2],
                 key[x][3] = key[y][3]
          PROVE  x = y
      <3>1. key[x] = <<key[x][1], key[x][2], key[x][3]>>
            /\ key[y] = <<key[y][1], key[y][2], key[y][3]>>
        BY <1>1
      <3>2. key[x] = key[y]
        BY <2>1, <3>1
      <3>. QED
        BY <1>2, <3>2
    <2>2. ASSUME NEW x \in S, NEW y \in S
          PROVE  x = y \/ <<x, y>> \in ByKey(cast) \/ <<y, x>> \in ByKey(cast)
      <3>1. /\ key[x][1] \in Nat /\ key[x][2] \in Nat /\ key[x][3] \in Nat
            /\ key[y][1] \in Nat /\ key[y][2] \in Nat /\ key[y][3] \in Nat
        BY <1>1
      <3>. QED
        BY <1>4, <2>1, <3>1
    <2>. QED
      BY <2>2
  <1>6. \A x, y, z \in Written :
            <<x, y>> \in ByKey(cast) /\ <<y, z>> \in ByKey(cast) => <<x, z>> \in ByKey(cast)
    BY <1>1, <1>4
  <1>7. \A x \in Written : <<x, x>> \notin ByKey(cast)
    BY <1>1, <1>4
  <1>. QED
    BY <1>5, <1>6, <1>7 DEF StrictOrder

LEMMA SortedLists ==
    ASSUME NEW cast \in CastType, NEW S \in SUBSET Written, IsFiniteSet(S), Untied(cast, S)
    PROVE  Lists(Sorted(cast, S), ByKey(cast), S)
  <1>. DEFINE P(list) == \A i, j \in 1..Cardinality(S) :
                  i < j => list[i] # list[j]
                           /\ ~ Before(SortKey(cast, list[j]), SortKey(cast, list[i]))
  <1>1. StrictOrder(ByKey(cast), S)
    BY KeysAreOrdered
  <1>2. \A x, y \in S : <<x, y>> \in ByKey(cast)
                          <=> x # y /\ ~ Before(SortKey(cast, y), SortKey(cast, x))
    BY <1>1 DEF ByKey, StrictOrder
  <1>3. \A list \in [1..Cardinality(S) -> S] : P(list) <=> Lists(list, ByKey(cast), S)
    BY <1>2 DEF Lists
  <1>4. PICK s : Lists(s, ByKey(cast), S)
    BY <1>1, ListExists
  <1>5. s \in [1..Cardinality(S) -> S] /\ P(s)
    BY <1>3, <1>4 DEF Lists
  <1>6. Sorted(cast, S) = CHOOSE list \in [1..Cardinality(S) -> S] : P(list)
    BY DEF Sorted, Listing
  <1>7. Sorted(cast, S) \in [1..Cardinality(S) -> S] /\ P(Sorted(cast, S))
    BY <1>5, <1>6
  <1>. QED
    BY <1>3, <1>7

LEMMA PeopleListed ==
    ASSUME NEW S \in SUBSET Persons, IsFiniteSet(S)
    PROVE  Lists(Listing(S, Before), ByPerson, S)
  <1>. DEFINE P(list) == \A i, j \in 1..Cardinality(S) :
                  i < j => list[i] # list[j] /\ ~ Before(list[j], list[i])
  <1>1. StrictOrder(ByPerson, S)
    BY PersonsAreOrdered
  <1>2. \A x, y \in S : <<x, y>> \in ByPerson <=> x # y /\ ~ Before(y, x)
    BY <1>1 DEF ByPerson, StrictOrder
  <1>3. \A list \in [1..Cardinality(S) -> S] : P(list) <=> Lists(list, ByPerson, S)
    BY <1>2 DEF Lists
  <1>4. PICK s : Lists(s, ByPerson, S)
    BY <1>1, ListExists
  <1>5. s \in [1..Cardinality(S) -> S] /\ P(s)
    BY <1>3, <1>4 DEF Lists
  <1>6. Listing(S, Before) = CHOOSE list \in [1..Cardinality(S) -> S] : P(list)
    BY DEF Listing
  <1>7. Listing(S, Before) \in [1..Cardinality(S) -> S] /\ P(Listing(S, Before))
    BY <1>5, <1>6
  <1>. QED
    BY <1>3, <1>7

LEMMA FilesListed ==
    ASSUME TableInv, Bounded
    PROVE  /\ IsFiniteSet(LiveFiles)
           /\ StrictOrder(ByStart(LiveFiles), LiveFiles)
           /\ Lists(InOrder(LiveFiles), ByStart(LiveFiles), LiveFiles)
  <1>. DEFINE S == LiveFiles
              R == ByStart(LiveFiles)
              first == [s |-> 0, e |-> 0, rows |-> base]
              P(list) == \A i, j \in 1..Cardinality(S) :
                  i < j => list[i] # list[j] /\ ~ (list[j].s < list[i].s)
  <1>1. S = Live(parts) \cup {first} /\ first.s = 0
    BY DEF LiveFiles
  <1>2. Live(parts) \in SUBSET parts
    BY DEF Live
  <1>3. IsFiniteSet(S)
    <2>. HIDE DEF first, S
    <2>. QED
      BY <1>1, <1>2, FS_Subset, FS_AddElement DEF Bounded
  <1>4. /\ \A p \in Live(parts) : p.s \in Nat \ {0} /\ p.e \in Nat /\ p.s <= p.e
        /\ \A p, q \in Live(parts) : p = q \/ p.e < q.s \/ q.e < p.s
    BY <1>2, LiveApart DEF TableInv, Files, Tidy, PartFile, Apart
  <1>5. \A p, q \in Live(parts) : p = q \/ p.s < q.s \/ q.s < p.s
    BY <1>4
  <1>6. \A p \in S : p.s \in Nat
    <2>. HIDE DEF first, S
    <2>. QED
      BY <1>1, <1>4
  <1>7. \A p, q \in S : p = q \/ p.s < q.s \/ q.s < p.s
    <2>. HIDE DEF first, S
    <2>. QED
      BY <1>1, <1>4, <1>5
  <1>8. \A p, q \in S : <<p, q>> \in R <=> p.s < q.s
    BY DEF ByStart
  <1>9. StrictOrder(R, S)
    <2>. HIDE DEF first, S, R
    <2>1. \A x, y, z \in S : <<x, y>> \in R /\ <<y, z>> \in R => <<x, z>> \in R
      BY <1>6, <1>8
    <2>2. \A x \in S : <<x, x>> \notin R
      BY <1>6, <1>8
    <2>3. \A x, y \in S : x = y \/ <<x, y>> \in R \/ <<y, x>> \in R
      BY <1>7, <1>8
    <2>. QED
      BY <2>1, <2>2, <2>3 DEF StrictOrder
  <1>10. \A p, q \in S : <<p, q>> \in R <=> p # q /\ ~ (q.s < p.s)
    <2>. HIDE DEF first, S, R
    <2>1. \A p, q \in S : p.s < q.s => p # q /\ ~ (q.s < p.s)
      BY <1>6
    <2>2. \A p, q \in S : p # q /\ ~ (q.s < p.s) => p.s < q.s
      BY <1>7
    <2>. QED
      BY <1>8, <2>1, <2>2
  <1>11. \A list \in [1..Cardinality(S) -> S] : P(list) <=> Lists(list, R, S)
    <2>. HIDE DEF first, S, R
    <2>. QED
      BY <1>10 DEF Lists
  <1>12. PICK s : Lists(s, R, S)
    <2>. HIDE DEF first, S, R
    <2>. QED
      BY <1>3, <1>9, ListExists
  <1>13. s \in [1..Cardinality(S) -> S] /\ P(s)
    <2>. HIDE DEF first, S, R
    <2>. QED
      BY <1>11, <1>12 DEF Lists
  <1>14. InOrder(S) = CHOOSE list \in [1..Cardinality(S) -> S] : P(list)
    BY DEF InOrder, Listing
  <1>15. InOrder(S) \in [1..Cardinality(S) -> S] /\ P(InOrder(S))
    BY <1>13, <1>14
  <1>. QED
    BY <1>3, <1>9, <1>11, <1>15

\* The spool has the rows in scope, once.
LEMMA SpoolIs ==
    ASSUME TableInv, Bounded, NEW cast \in CastType
    PROVE  LET rows == UNION Range(Spool(InOrder(LiveFiles), cast))
           IN  rows = InScope(cast, Stored) /\ rows \subseteq Written /\ IsFiniteSet(rows)
  <1>. DEFINE files == InOrder(LiveFiles)
              n == Cardinality(LiveFiles)
  <1>1. /\ n \in Nat /\ files \in [1..n -> LiveFiles]
        /\ \A p \in LiveFiles : \E i \in 1..n : files[i] = p
    <2>1. PICK S, R : S = LiveFiles /\ R = ByStart(LiveFiles)
      OBVIOUS
    <2>2. IsFiniteSet(S) /\ StrictOrder(R, S) /\ Lists(files, R, S)
      BY <2>1, FilesListed
    <2>. HIDE DEF files
    <2>3. Cardinality(S) \in Nat /\ \A p \in S : \E i \in 1..Cardinality(S) : files[i] = p
      BY <2>2, ListHasAll
    <2>. QED
      BY <2>1, <2>2, <2>3 DEF Lists
  <1>2. Len(files) = n
    <2>. HIDE DEF files, n
    <2>. QED
      BY <1>1
  <1>3. \A p \in LiveFiles : p.rows \subseteq Written
    BY DEF LiveFiles, Live, Bounded
  <1>4. \A p \in LiveFiles : Scanned(cast, p) = InScope(cast, p.rows)
    BY DEF Scanned, Holds, InScope
  <1>5. UNION Range(Spool(files, cast)) = UNION {Scanned(cast, files[i]) : i \in 1..n}
    <2>1. \A i \in 1..n : Scanned(cast, files[i]) \subseteq Written
      <3>. HIDE DEF files, n
      <3>. QED
        BY <1>1, <1>3, <1>4 DEF InScope
    <2>. HIDE DEF files, n
    <2>. QED
      BY <1>1, <1>2, <2>1, SpoolHolds
  <1>6. UNION {Scanned(cast, files[i]) : i \in 1..n}
            = UNION {InScope(cast, p.rows) : p \in LiveFiles}
    <2>. HIDE DEF files, n
    <2>. QED
      BY <1>1, <1>4
  <1>7. UNION {InScope(cast, p.rows) : p \in LiveFiles} = InScope(cast, Stored)
    <2>. DEFINE first == [s |-> 0, e |-> 0, rows |-> base]
    <2>2. LiveFiles = {first} \cup Live(parts) /\ first.rows = base
      BY DEF LiveFiles
    <2>. HIDE DEF first
    <2>1. \A r : r \in Stored <=> \E p \in LiveFiles : r \in p.rows
      BY <2>2 DEF Stored, RowsOf
    <2>. QED
      BY <2>1 DEF InScope
  <1>8. IsFiniteSet(Written)
    <2>1. IsFiniteSet(Keys \X (1..MaxBatches))
      <3>1. PICK S, T : S = Keys /\ T = 1..MaxBatches
        OBVIOUS
      <3>2. IsFiniteSet(S) /\ IsFiniteSet(T)
        BY <3>1, TableAssumption, FS_Interval
      <3>. QED
        BY <3>1, <3>2, FS_Product
    <2>. DEFINE f == [x \in Keys \X (1..MaxBatches) |-> [key |-> x[1], ver |-> x[2]]]
    <2>2. f \in [Keys \X (1..MaxBatches) -> Written]
      BY DEF Written
    <2>3. ASSUME NEW r \in Written
          PROVE  \E x \in Keys \X (1..MaxBatches) : f[x] = r
      <3>1. <<r.key, r.ver>> \in Keys \X (1..MaxBatches)
            /\ r = [key |-> r.key, ver |-> r.ver]
        BY DEF Written
      <3>2. f[<<r.key, r.ver>>] = r
        BY <3>1
      <3>. QED
        BY <3>1, <3>2
    <2>4. f \in Surjection(Keys \X (1..MaxBatches), Written)
      <3>. HIDE DEF f
      <3>. QED
        BY <2>2, <2>3 DEF Surjection
    <2>. HIDE DEF f
    <2>. QED
      BY <2>1, <2>4, FS_Surjection
  <1>9. InScope(cast, Stored) \in SUBSET Written
    BY StoredIsWritten DEF InScope
  <1>. QED
    BY <1>5, <1>6, <1>7, <1>8, <1>9, FS_Subset

-----------------------------------------------------------------------------
(* Batches of persons. *)

RowsOfPerson(spool, person, cast) == ReadSpool(spool, {person}, cast)

\* What the loop over the persons makes of each, whichever table it is.
Batched(open, people, spool, cast) ==
    /\ open \in [0..Len(people) -> [batch : Nat, rows : Nat]]
    /\ open[0].batch = 0
    /\ \A i \in 1..Len(people) :
           LET n == Cardinality(RowsOfPerson(spool, people[i], cast))
           IN  \/ /\ i > 1 /\ open[i - 1].rows + n <= BatchRows
                  /\ open[i].batch = open[i - 1].batch /\ open[i].rows = open[i - 1].rows + n
               \/ open[i].batch = open[i - 1].batch + 1 /\ open[i].rows = n

LEMMA BatchingIs ==
    ASSUME NEW table, NEW people, NEW spool, NEW cast, Len(people) \in Nat,
           \A i \in 1..Len(people) : Cardinality(RowsOfPerson(spool, people[i], cast)) \in Nat
    PROVE  Batched(Batching(table, people, spool, cast), people, spool, cast)
  <1>. DEFINE X == [batch : Nat, rows : Nat]
              start == [batch |-> 0, rows |-> 0]
              size == [i \in 1..Len(people) |-> Cardinality(ReadSpool(spool, {people[i]}, cast))]
              joins == [i \in 1..Len(people) |->
                           i > 1 /\ MayJoin(table, people[i - 1], people[i])]
              G == [y \in X \X (1..Len(people)) |->
                       IF joins[y[2]] /\ y[1].rows + size[y[2]] <= BatchRows
                       THEN [y[1] EXCEPT !.rows = @ + size[y[2]]]
                       ELSE [batch |-> y[1].batch + 1, rows |-> size[y[2]]]]
              open == CHOOSE f : f = [i \in 0..Len(people) |->
                         IF i = 0 THEN start
                         ELSE LET last == f[i - 1]
                                  n == Cardinality(ReadSpool(spool, {people[i]}, cast))
                              IN  IF /\ i > 1 /\ MayJoin(table, people[i - 1], people[i])
                                     /\ last.rows + n <= BatchRows
                                  THEN [last EXCEPT !.rows = @ + n]
                                  ELSE [batch |-> last.batch + 1, rows |-> n]]
  <1>1. PICK n \in Nat : n = Len(people)
    OBVIOUS
  <1>2. /\ start \in X
        /\ \A i \in 1..n : size[i] \in Nat
                           /\ size[i] = Cardinality(RowsOfPerson(spool, people[i], cast))
    BY <1>1 DEF RowsOfPerson
  <1>3. \A x \in X, i \in 1..n :
            G[<<x, i>>] = IF joins[i] /\ x.rows + size[i] <= BatchRows
                          THEN [x EXCEPT !.rows = @ + size[i]]
                          ELSE [batch |-> x.batch + 1, rows |-> size[i]]
    <2>. HIDE DEF size, joins
    <2>. QED
      BY <1>1
  <1>4. \A x \in X, i \in 1..n : G[<<x, i>>] \in X
    <2>1. ASSUME NEW x \in X, NEW i \in 1..n
          PROVE  G[<<x, i>>] \in X
      <3>. HIDE DEF size, joins, G
      <3>1. size[i] \in Nat /\ x.batch \in Nat /\ x.rows \in Nat
        BY <1>2
      <3>2. [x EXCEPT !.rows = @ + size[i]] \in X /\ [batch |-> x.batch + 1, rows |-> size[i]] \in X
        BY <3>1
      <3>. HIDE DEF X
      <3>. QED
        BY <1>3, <3>2
    <2>. HIDE DEF size, joins, G, X
    <2>. QED
      BY <2>1
  <1>5. PICK f : Iterated(f, n, start, G, X)
    <2>. HIDE DEF G, start, X
    <2>. QED
      BY <1>2, <1>4, Iterates
  <1>6. f = [i \in 0..n |->
                IF i = 0 THEN start
                ELSE LET last == f[i - 1]
                         m == Cardinality(ReadSpool(spool, {people[i]}, cast))
                     IN  IF /\ i > 1 /\ MayJoin(table, people[i - 1], people[i])
                            /\ last.rows + m <= BatchRows
                         THEN [last EXCEPT !.rows = @ + m]
                         ELSE [batch |-> last.batch + 1, rows |-> m]]
    <2>1. f \in [0..n -> X] /\ f[0] = start
      BY <1>5 DEF Iterated
    <2>2. ASSUME NEW i \in 0..n
          PROVE  f[i] = IF i = 0 THEN start
                        ELSE LET last == f[i - 1]
                                 m == Cardinality(ReadSpool(spool, {people[i]}, cast))
                             IN  IF /\ i > 1 /\ MayJoin(table, people[i - 1], people[i])
                                    /\ last.rows + m <= BatchRows
                                 THEN [last EXCEPT !.rows = @ + m]
                                 ELSE [batch |-> last.batch + 1, rows |-> m]
      <3>1. CASE i = 0
        BY <2>1, <3>1
      <3>2. CASE i \in 1..n
        <4>1. f[i - 1] \in X /\ f[i] = G[<<f[i - 1], i>>]
          <5>. HIDE DEF G, X
          <5>. QED
            BY <1>5, <2>1, <3>2 DEF Iterated
        <4>2. /\ size[i] = Cardinality(ReadSpool(spool, {people[i]}, cast))
              /\ joins[i] = (i > 1 /\ MayJoin(table, people[i - 1], people[i]))
          BY <1>1, <3>2
        <4>3. i # 0
          BY <3>2
        <4>. HIDE DEF G, X, size, joins, start
        <4>. QED
          BY <1>3, <3>2, <4>1, <4>2, <4>3
      <3>. QED
        BY <3>1, <3>2
    <2>. HIDE DEF G, X, start
    <2>. QED
      BY <2>1, <2>2
  <1>7. open = [i \in 0..n |->
                  IF i = 0 THEN start
                  ELSE LET last == open[i - 1]
                           m == Cardinality(ReadSpool(spool, {people[i]}, cast))
                       IN  IF /\ i > 1 /\ MayJoin(table, people[i - 1], people[i])
                              /\ last.rows + m <= BatchRows
                           THEN [last EXCEPT !.rows = @ + m]
                           ELSE [batch |-> last.batch + 1, rows |-> m]]
    <2>. HIDE DEF start, G
    <2>. QED
      BY <1>1, <1>6
  <1>8. Batching(table, people, spool, cast) = open
    BY DEF Batching
  <1>. HIDE DEF open
  <1>9. ASSUME NEW i \in 1..n, open[i - 1] \in X
        PROVE  /\ open[i] \in X
               /\ \/ /\ i > 1 /\ open[i - 1].rows + size[i] <= BatchRows
                     /\ open[i].batch = open[i - 1].batch
                     /\ open[i].rows = open[i - 1].rows + size[i]
                  \/ open[i].batch = open[i - 1].batch + 1 /\ open[i].rows = size[i]
    <2>1. PICK x : x = open[i - 1]
      OBVIOUS
    <2>2. PICK m \in Nat : m = size[i] /\ m = Cardinality(ReadSpool(spool, {people[i]}, cast))
      BY <1>1, <1>2
    <2>3. i \in 0..n /\ i # 0
      OBVIOUS
    <2>4. open[i] = IF /\ i > 1 /\ MayJoin(table, people[i - 1], people[i])
                       /\ x.rows + m <= BatchRows
                    THEN [x EXCEPT !.rows = @ + m]
                    ELSE [batch |-> x.batch + 1, rows |-> m]
      <3>. HIDE DEF X, size, start
      <3>. QED
        BY <1>7, <2>1, <2>2, <2>3
    <2>5. x \in X
      BY <1>9, <2>1
    <2>6. CASE /\ i > 1 /\ MayJoin(table, people[i - 1], people[i])
               /\ x.rows + m <= BatchRows
      <3>1. open[i] = [x EXCEPT !.rows = @ + m]
        BY <2>4, <2>6
      <3>. HIDE DEF size
      <3>. QED
        BY <2>1, <2>2, <2>5, <2>6, <3>1
    <2>7. CASE ~ (/\ i > 1 /\ MayJoin(table, people[i - 1], people[i])
                  /\ x.rows + m <= BatchRows)
      <3>1. open[i] = [batch |-> x.batch + 1, rows |-> m]
        BY <2>4, <2>7
      <3>. HIDE DEF size
      <3>. QED
        BY <2>1, <2>2, <2>5, <3>1
    <2>. QED
      BY <2>6, <2>7
  <1>. DEFINE P == {i \in 0..n : open[i] \in X}
  <1>10. open[0] = start
    <2>. HIDE DEF start
    <2>. QED
      BY <1>7
  <1>11. 0 \in P
    <2>. HIDE DEF start, X
    <2>. QED
      BY <1>2, <1>10
  <1>12. \A i \in 1..n : i - 1 \in P => i \in P
    <2>. HIDE DEF X, size
    <2>. QED
      BY <1>9
  <1>13. \A i \in 0..n : open[i] \in X
    <2>1. 0..n \subseteq P
      <3>. HIDE DEF P
      <3>. QED
        BY <1>11, <1>12, CountUp
    <2>. HIDE DEF X
    <2>. QED
      BY <2>1
  <1>14. open \in [0..n -> X]
    <2>. HIDE DEF X, start
    <2>. QED
      BY <1>7, <1>13
  <1>15. \A i \in 1..n : i - 1 \in 0..n
    OBVIOUS
  <1>16. open[0].batch = 0
    BY <1>10
  <1>. HIDE DEF X, size, start, G, joins
  <1>17. \A i \in 1..n :
            \/ /\ i > 1 /\ open[i - 1].rows + size[i] <= BatchRows
               /\ open[i].batch = open[i - 1].batch
               /\ open[i].rows = open[i - 1].rows + size[i]
            \/ open[i].batch = open[i - 1].batch + 1 /\ open[i].rows = size[i]
    BY <1>9, <1>13, <1>15
  <1>18. \A i \in 1..n : size[i] = Cardinality(RowsOfPerson(spool, people[i], cast))
    BY <1>2
  <1>19. open \in [0..n -> [batch : Nat, rows : Nat]]
    BY <1>14 DEF X
  <1>20. Batched(open, people, spool, cast)
    BY <1>1, <1>16, <1>17, <1>18, <1>19 DEF Batched
  <1>. QED
    BY <1>8, <1>20

LEMMA BatchNumbers ==
    ASSUME NEW n \in Nat, NEW open, NEW people, NEW spool, NEW cast, n = Len(people),
           Batched(open, people, spool, cast)
    PROVE  /\ \A i \in 0..n : open[i].batch \in Nat /\ open[i].rows \in Nat
           /\ \A i, j \in 0..n : i <= j => open[i].batch <= open[j].batch
           /\ \A i \in 1..n : open[i].batch \in 1..open[n].batch
           /\ \A b \in 1..open[n].batch : \E i \in 1..n : open[i].batch = b
  <1>. DEFINE P == {k \in 0..n :
                       /\ \A i \in 0..k : open[i].batch <= open[k].batch
                       /\ \A b \in 1..open[k].batch : \E i \in 1..k : open[i].batch = b
                       /\ k > 0 => open[k].batch > 0}
  <1>1. \A i \in 0..n : open[i].batch \in Nat /\ open[i].rows \in Nat
    BY DEF Batched
  <1>2. \A i \in 1..n : \/ i > 1 /\ open[i].batch = open[i - 1].batch
                        \/ open[i].batch = open[i - 1].batch + 1
    BY DEF Batched
  <1>3. 0 \in P
    BY <1>1 DEF Batched
  <1>4. ASSUME NEW k \in 1..n, k - 1 \in P
        PROVE  k \in P
    <2>1. /\ open[k].batch \in Nat /\ open[k - 1].batch \in Nat /\ k - 1 \in 0..n /\ k \in 0..n
          /\ \A i \in 0..(k - 1) : i \in 0..n
      BY <1>1
    <2>2. /\ open[k - 1].batch <= open[k].batch /\ open[k].batch <= open[k - 1].batch + 1
          /\ open[k].batch > 0
      BY <1>2, <1>4, <2>1
    <2>3. ASSUME NEW i \in 0..k
          PROVE  open[i].batch <= open[k].batch
      <3>1. i = k \/ i \in 0..(k - 1)
        OBVIOUS
      <3>2. open[i].batch \in Nat
        BY <1>1
      <3>. QED
        BY <1>4, <2>1, <2>2, <3>1, <3>2
    <2>4. ASSUME NEW b \in 1..open[k].batch
          PROVE  \E i \in 1..k : open[i].batch = b
      <3>1. b \in 1..open[k - 1].batch \/ b = open[k].batch
        BY <2>1, <2>2
      <3>2. CASE b \in 1..open[k - 1].batch
        <4>1. PICK i \in 1..(k - 1) : open[i].batch = b
          BY <1>4, <3>2
        <4>2. i \in 1..k
          OBVIOUS
        <4>. QED
          BY <4>1, <4>2
      <3>3. CASE b = open[k].batch
        BY <3>3
      <3>. QED
        BY <3>1, <3>2, <3>3
    <2>. QED
      BY <2>1, <2>2, <2>3, <2>4
  <1>5. 0..n \subseteq P
    <2>. HIDE DEF P
    <2>. QED
      BY <1>3, <1>4, CountUp
  <1>6. ASSUME NEW i \in 0..n, NEW j \in 0..n, i <= j
        PROVE  open[i].batch <= open[j].batch
    <2>1. j \in P /\ i \in 0..j
      BY <1>5, <1>6
    <2>. QED
      BY <2>1
  <1>7. n \in P
    BY <1>5
  <1>8. ASSUME NEW i \in 1..n
        PROVE  open[i].batch \in 1..open[n].batch
    <2>1. i \in P /\ i \in 0..n /\ n \in 0..n /\ i > 0
      BY <1>5
    <2>2. open[i].batch > 0 /\ open[i].batch <= open[n].batch
      BY <1>6, <2>1
    <2>. QED
      BY <1>1, <2>1, <2>2
  <1>. QED
    BY <1>1, <1>6, <1>7, <1>8

\* The rows of the open batch after k persons.
OpenBatch(open, people, spool, cast, k) ==
    {r \in UNION Range(spool) :
        \E i \in 1..k : open[i].batch = open[k].batch /\ Person(cast, r) = people[i]}

LEMMA BatchSizes ==
    ASSUME NEW n \in Nat, NEW open, NEW people, NEW spool, NEW cast, n = Len(people),
           Batched(open, people, spool, cast), IsFiniteSet(UNION Range(spool)),
           \A i, j \in 1..n : people[i] = people[j] => i = j
    PROVE  \A k \in 1..n :
               \/ Cardinality(OpenBatch(open, people, spool, cast, k)) <= BatchRows
               \/ \A i \in 1..k : open[i].batch = open[k].batch => i = k
  <1>. DEFINE U == UNION Range(spool)
              of == [i \in 1..n |-> RowsOfPerson(spool, people[i], cast)]
              B == [k \in 1..n |-> OpenBatch(open, people, spool, cast, k)]
              Q == {k \in 1..n : /\ Cardinality(B[k]) = open[k].rows
                                 /\ \/ open[k].rows <= BatchRows
                                    \/ \A i \in 1..k : open[i].batch = open[k].batch => i = k}
              P == Q \cup {0}
  <1>1. /\ \A i \in 0..n : open[i].batch \in Nat /\ open[i].rows \in Nat
        /\ \A i, j \in 0..n : i <= j => open[i].batch <= open[j].batch
        /\ \A i \in 1..n : open[i].batch \in 1..open[n].batch
    BY BatchNumbers
  <1>2. \A i \in 1..n : of[i] = {r \in U : Person(cast, r) = people[i]}
    BY DEF RowsOfPerson, ReadSpool
  <1>3. \A k \in 1..n : B[k] = {r \in U : \E i \in 1..k : open[i].batch = open[k].batch
                                                         /\ Person(cast, r) = people[i]}
    BY DEF OpenBatch
  <1>4. \A i \in 1..n : IsFiniteSet(of[i]) /\ IsFiniteSet(B[i]) /\ Cardinality(of[i]) \in Nat
    <2>1. \A i \in 1..n : of[i] \in SUBSET U /\ B[i] \in SUBSET U
      BY <1>2, <1>3
    <2>. HIDE DEF U, of, B
    <2>2. IsFiniteSet(U)
      BY DEF U
    <2>3. ASSUME NEW i \in 1..n
          PROVE  IsFiniteSet(of[i]) /\ IsFiniteSet(B[i]) /\ Cardinality(of[i]) \in Nat
      <3>1. of[i] \in SUBSET U /\ B[i] \in SUBSET U
        BY <2>1
      <3>2. IsFiniteSet(of[i]) /\ IsFiniteSet(B[i])
        BY <2>2, <3>1, FS_Subset
      <3>. QED
        BY <3>2, FS_CardinalityType
    <2>. QED
      BY <2>3
  <1>5. \A i \in 1..n :
            \/ /\ i > 1 /\ open[i - 1].rows + Cardinality(of[i]) <= BatchRows
               /\ open[i].batch = open[i - 1].batch
               /\ open[i].rows = open[i - 1].rows + Cardinality(of[i])
            \/ open[i].batch = open[i - 1].batch + 1 /\ open[i].rows = Cardinality(of[i])
    BY DEF Batched
  <1>. HIDE DEF U, of, B
  <1>6. ASSUME NEW k \in 1..n, k - 1 \in P
        PROVE  k \in P
    <2>0. k - 1 \in 0..n /\ k \in 0..n /\ open[k].batch \in Nat /\ open[k - 1].batch \in Nat
      BY <1>1
    <2>1. CASE /\ k > 1 /\ open[k - 1].rows + Cardinality(of[k]) <= BatchRows
               /\ open[k].batch = open[k - 1].batch
               /\ open[k].rows = open[k - 1].rows + Cardinality(of[k])
      <3>1. k - 1 \in 1..n /\ k - 1 \in Q
        BY <1>6, <2>1
      <3>2. \A i \in 1..k : i \in 1..(k - 1) \/ i = k
        OBVIOUS
      <3>3. \A i \in 1..(k - 1) : i \in 1..k
        OBVIOUS
      <3>4. B[k] = B[k - 1] \cup of[k]
        BY <1>2, <1>3, <2>1, <3>1, <3>2, <3>3
      <3>5. B[k - 1] \cap of[k] = {}
        <4>1. \A i \in 1..(k - 1) : people[i] # people[k]
          OBVIOUS
        <4>. QED
          BY <1>2, <1>3, <3>1, <4>1
      <3>6. Cardinality(B[k]) = Cardinality(B[k - 1]) + Cardinality(of[k])
        <4>1. /\ IsFiniteSet(B[k - 1]) /\ IsFiniteSet(of[k])
              /\ Cardinality(B[k - 1]) \in Nat /\ Cardinality(of[k]) \in Nat
          BY <1>1, <1>4, <3>1
        <4>2. Cardinality(B[k - 1] \cap of[k]) = 0
          BY <3>5, FS_EmptySet
        <4>3. Cardinality(B[k - 1] \cup of[k])
                  = Cardinality(B[k - 1]) + Cardinality(of[k]) - Cardinality(B[k - 1] \cap of[k])
          BY <4>1, FS_Union
        <4>. QED
          BY <3>4, <4>1, <4>2, <4>3
      <3>. QED
        BY <2>1, <3>1, <3>6
    <2>2. CASE open[k].batch = open[k - 1].batch + 1 /\ open[k].rows = Cardinality(of[k])
      <3>1. ASSUME NEW i \in 1..k, open[i].batch = open[k].batch
            PROVE  i = k
        <4>1. i = k \/ (i <= k - 1 /\ i \in 0..n)
          OBVIOUS
        <4>2. i <= k - 1 /\ i \in 0..n => open[i].batch <= open[k - 1].batch
          BY <1>1, <2>0
        <4>. QED
          BY <2>0, <2>2, <3>1, <4>1, <4>2
      <3>2. B[k] = of[k]
        <4>1. k \in 1..k
          OBVIOUS
        <4>2. B[k] = {r \in U : \E i \in 1..k : open[i].batch = open[k].batch
                                              /\ Person(cast, r) = people[i]}
          BY <1>3
        <4>3. of[k] = {r \in U : Person(cast, r) = people[k]}
          BY <1>2
        <4>4. \A r \in U : Person(cast, r) = people[k]
                  => \E i \in 1..k : open[i].batch = open[k].batch /\ Person(cast, r) = people[i]
          BY <4>1
        <4>5. \A r \in U : (\E i \in 1..k : open[i].batch = open[k].batch
                                            /\ Person(cast, r) = people[i])
                           => Person(cast, r) = people[k]
          BY <3>1
        <4>. QED
          BY <4>2, <4>3, <4>4, <4>5
      <3>. QED
        BY <2>2, <3>1, <3>2
    <2>. QED
      BY <1>5, <2>1, <2>2
  <1>7. 0..n \subseteq P
    <2>. HIDE DEF P
    <2>1. 0 \in P
      BY DEF P
    <2>. QED
      BY <1>6, <2>1, CountUp
  <1>8. ASSUME NEW k \in 1..n
        PROVE  \/ Cardinality(OpenBatch(open, people, spool, cast, k)) <= BatchRows
               \/ \A i \in 1..k : open[i].batch = open[k].batch => i = k
    <2>1. k \in Q
      BY <1>7
    <2>2. B[k] = OpenBatch(open, people, spool, cast, k)
      BY DEF B
    <2>. QED
      BY <2>1, <2>2
  <1>. QED
    BY <1>8

-----------------------------------------------------------------------------
(* Frames. *)

\* m frames of rows of U: every row in one, those of a person in the same one, in
\* the order of the persons.
Divides(frames, m, U, cast) ==
    /\ frames \in [1..m -> SUBSET U]
    /\ \A r \in U : \E b \in 1..m : r \in frames[b]
    /\ \A b \in 1..m : \A r, t \in U :
           r \in frames[b] /\ Person(cast, r) = Person(cast, t) => t \in frames[b]
    /\ \A b, c \in 1..m : \A r \in frames[b], t \in frames[c] :
           b < c => <<Person(cast, r), Person(cast, t)>> \in ByPerson

Fits(frame, cast) ==
    /\ frame # {}
    /\ \/ Cardinality(frame) <= BatchRows
       \/ \E person : \A r \in frame : Person(cast, r) = person

LEMMA ListedOnce ==
    ASSUME NEW S, IsFiniteSet(S), NEW R, StrictOrder(R, S), NEW s, Lists(s, R, S)
    PROVE  \E n \in Nat :
               /\ n = Len(s) /\ s \in [1..n -> S]
               /\ \A x \in S : \E i \in 1..n : s[i] = x
               /\ \A i, j \in 1..n : s[i] = s[j] => i = j
               /\ \A i, j \in 1..n : i < j => <<s[i], s[j]>> \in R
  <1>1. /\ Cardinality(S) \in Nat
        /\ \A x \in S : \E i \in 1..Cardinality(S) : s[i] = x
        /\ \A i, j \in 1..Cardinality(S) : s[i] = s[j] => i = j
    BY ListHasAll
  <1>2. /\ s \in [1..Cardinality(S) -> S]
        /\ \A i, j \in 1..Cardinality(S) : i < j => <<s[i], s[j]>> \in R
    BY DEF Lists
  <1>3. Cardinality(S) = Len(s)
    BY <1>1, <1>2
  <1>. QED
    BY <1>1, <1>2, <1>3

LEMMA PeopleAre ==
    ASSUME NEW cast \in CastType, NEW U \in SUBSET Written, IsFiniteSet(U), NEW S,
           S = {Person(cast, r) : r \in U}
    PROVE  /\ IsFiniteSet(S) /\ StrictOrder(ByPerson, S)
           /\ Lists(Listing(S, Before), ByPerson, S)
  <1>1. S \in SUBSET Persons
    BY RowsHaveKeys
  <1>2. IsFiniteSet(S)
    <2>. DEFINE f == [r \in U |-> Person(cast, r)]
    <2>1. f \in Surjection(U, S)
      BY DEF Surjection
    <2>. HIDE DEF f
    <2>. QED
      BY <2>1, FS_Surjection
  <1>. QED
    BY <1>1, <1>2, PeopleListed, PersonsAreOrdered

LEMMA FramesAre ==
    ASSUME NEW table, NEW spool, NEW cast \in CastType, NEW U \in SUBSET Written,
           IsFiniteSet(U), U = UNION Range(spool)
    PROVE  \E m \in Nat :
               /\ Divides(Frames(table, spool, cast), m, U, cast)
               /\ \A b \in 1..m : Fits(Frames(table, spool, cast)[b], cast)
  <1>. DEFINE S == {Person(cast, r) : r \in U}
              people == Listing(S, Before)
              open == Batching(table, people, spool, cast)
              frames == Frames(table, spool, cast)
  <1>1. PICK n \in Nat :
            /\ n = Len(people) /\ people \in [1..n -> S]
            /\ \A x \in S : \E i \in 1..n : people[i] = x
            /\ \A i, j \in 1..n : people[i] = people[j] => i = j
            /\ \A i, j \in 1..n : i < j => <<people[i], people[j]>> \in ByPerson
    <2>1. S = {Person(cast, r) : r \in U}
      OBVIOUS
    <2>. HIDE DEF S
    <2>2. IsFiniteSet(S) /\ StrictOrder(ByPerson, S) /\ Lists(people, ByPerson, S)
      BY <2>1, PeopleAre
    <2>. HIDE DEF people, open, frames
    <2>. QED
      BY <2>2, ListedOnce
  <1>2. frames = [b \in 1..open[n].batch |->
                     {r \in U : Person(cast, r)
                                    \in {people[i] : i \in {k \in 1..n : open[k].batch = b}}}]
    BY <1>1 DEF Frames, ReadSpool
  <1>3. \A x \in S : \E r \in U : Person(cast, r) = x
    OBVIOUS
  <1>4. \A r \in U : Person(cast, r) \in S
    OBVIOUS
  <1>. HIDE DEF S, people
  <1>5. \A i \in 1..n : /\ IsFiniteSet(RowsOfPerson(spool, people[i], cast))
                        /\ Cardinality(RowsOfPerson(spool, people[i], cast)) \in Nat
    <2>1. ASSUME NEW i \in 1..n
          PROVE  /\ IsFiniteSet(RowsOfPerson(spool, people[i], cast))
                 /\ Cardinality(RowsOfPerson(spool, people[i], cast)) \in Nat
      <3>1. RowsOfPerson(spool, people[i], cast) \in SUBSET U
        BY DEF RowsOfPerson, ReadSpool
      <3>2. IsFiniteSet(RowsOfPerson(spool, people[i], cast))
        BY <3>1, FS_Subset
      <3>. QED
        BY <3>2, FS_CardinalityType
    <2>. QED
      BY <2>1
  <1>6. Batched(open, people, spool, cast)
    BY <1>1, <1>5, BatchingIs
  <1>. HIDE DEF open, frames
  <1>7. /\ \A i \in 0..n : open[i].batch \in Nat /\ open[i].rows \in Nat
        /\ \A i, j \in 0..n : i <= j => open[i].batch <= open[j].batch
        /\ \A i \in 1..n : open[i].batch \in 1..open[n].batch
        /\ \A b \in 1..open[n].batch : \E i \in 1..n : open[i].batch = b
    BY <1>1, <1>6, BatchNumbers
  <1>8. PICK m \in Nat : m = open[n].batch
    BY <1>1, <1>7
  <1>9. /\ frames \in [1..m -> SUBSET U]
        /\ \A b \in 1..m : \A r \in U :
               r \in frames[b] <=> \E i \in 1..n : open[i].batch = b /\ Person(cast, r) = people[i]
    BY <1>2, <1>8
  <1>10. \A r \in U : \E b \in 1..m : r \in frames[b]
    <2>1. ASSUME NEW r \in U
          PROVE  \E b \in 1..m : r \in frames[b]
      <3>1. PICK i \in 1..n : people[i] = Person(cast, r)
        BY <1>1, <1>4
      <3>2. PICK b \in 1..m : b = open[i].batch
        BY <1>7, <1>8, <3>1
      <3>. QED
        BY <1>9, <3>1, <3>2
    <2>. QED
      BY <2>1
  <1>11. ASSUME NEW b \in 1..m, NEW c \in 1..m, b < c, NEW r \in frames[b], NEW t \in frames[c]
         PROVE  <<Person(cast, r), Person(cast, t)>> \in ByPerson
    <2>1. r \in U /\ t \in U
      BY <1>9
    <2>2. PICK i \in 1..n : open[i].batch = b /\ Person(cast, r) = people[i]
      BY <1>9, <2>1
    <2>3. PICK j \in 1..n : open[j].batch = c /\ Person(cast, t) = people[j]
      BY <1>9, <2>1
    <2>4. i < j
      <3>1. i \in 0..n /\ j \in 0..n
        OBVIOUS
      <3>2. ~ (j <= i)
        BY <1>7, <1>11, <2>2, <2>3, <3>1
      <3>. QED
        BY <3>2
    <2>. QED
      BY <1>1, <2>2, <2>3, <2>4
  <1>12. \A b \in 1..m : \A r, t \in U :
             r \in frames[b] /\ Person(cast, r) = Person(cast, t) => t \in frames[b]
    BY <1>9
  <1>13. Divides(frames, m, U, cast)
    BY <1>9, <1>10, <1>11, <1>12 DEF Divides
  <1>14. ASSUME NEW b \in 1..m
         PROVE  Fits(frames[b], cast)
    <2>. DEFINE T == {i \in 1..n : open[i].batch = b}
    <2>1. T # {} /\ T \subseteq Nat /\ \A i \in T : i <= n
      BY <1>7, <1>8
    <2>2. PICK k \in T : \A i \in T : i <= k
      <3>. HIDE DEF T
      <3>. QED
        BY <2>1, GreatestExists
    <2>3. k \in 1..n /\ open[k].batch = b
      BY <2>2
    <2>4. frames[b] = OpenBatch(open, people, spool, cast, k)
      <3>1. \A i \in 1..n : open[i].batch = b => i \in 1..k
        BY <2>2
      <3>2. \A i \in 1..k : i \in 1..n
        BY <2>3
      <3>3. frames[b] = {r \in U : \E i \in 1..n : open[i].batch = b /\ Person(cast, r) = people[i]}
        BY <1>9
      <3>4. OpenBatch(open, people, spool, cast, k)
                = {r \in U : \E i \in 1..k : open[i].batch = b /\ Person(cast, r) = people[i]}
        BY <2>3 DEF OpenBatch
      <3>. QED
        BY <3>1, <3>2, <3>3, <3>4
    <2>5. frames[b] # {}
      <3>1. people[k] \in S
        BY <1>1, <2>3
      <3>2. PICK r \in U : Person(cast, r) = people[k]
        BY <1>3, <3>1
      <3>. QED
        BY <1>9, <2>3, <3>2
    <2>6. \/ Cardinality(frames[b]) <= BatchRows
          \/ \A i \in 1..k : open[i].batch = open[k].batch => i = k
      <3>1. IsFiniteSet(UNION Range(spool))
        OBVIOUS
      <3>2. \A i, j \in 1..n : people[i] = people[j] => i = j
        BY <1>1
      <3>3. n = Len(people)
        BY <1>1
      <3>. HIDE DEF T
      <3>4. \A i \in 1..n :
                \/ Cardinality(OpenBatch(open, people, spool, cast, i)) <= BatchRows
                \/ \A j \in 1..i : open[j].batch = open[i].batch => j = i
        BY <1>6, <3>1, <3>2, <3>3, BatchSizes
      <3>. QED
        BY <2>3, <2>4, <3>4
    <2>7. CASE \A i \in 1..k : open[i].batch = open[k].batch => i = k
      <3>1. \A r \in frames[b] : Person(cast, r) = people[k]
        BY <2>3, <2>4, <2>7 DEF OpenBatch
      <3>. QED
        BY <2>5, <3>1 DEF Fits
    <2>. QED
      BY <2>5, <2>6, <2>7 DEF Fits
  <1>15. \A b \in 1..m : Fits(frames[b], cast)
    BY <1>14
  <1>16. frames = Frames(table, spool, cast)
    BY DEF frames
  <1>. QED
    BY <1>13, <1>15, <1>16

-----------------------------------------------------------------------------
(* The digest is fed every row, in order. *)

\* Feeding the rows of the persons who come next keeps what was fed in order.
LEMMA FeedsInOrder ==
    ASSUME NEW cast \in CastType, NEW U \in SUBSET Written, IsFiniteSet(U), Untied(cast, U),
           NEW A \in SUBSET U, NEW B \in SUBSET U,
           \A r \in A, t \in B : <<Person(cast, r), Person(cast, t)>> \in ByPerson,
           NEW s, Lists(s, ByKey(cast), A)
    PROVE  /\ Sorted(cast, B) \in Seq(U)
           /\ s \o Sorted(cast, B) \in Seq(U)
           /\ Lists(s \o Sorted(cast, B), ByKey(cast), A \cup B)
  <1>. DEFINE t == Sorted(cast, B)
              R == ByKey(cast)
  <1>1. IsFiniteSet(A) /\ IsFiniteSet(B)
    BY FS_Subset
  <1>2. Untied(cast, B) /\ Untied(cast, A \cup B) /\ A \cup B \in SUBSET Written
    BY DEF Untied
  <1>3. Lists(t, R, B)
    BY <1>1, <1>2, SortedLists
  <1>4. StrictOrder(R, A \cup B)
    BY <1>2, KeysAreOrdered
  <1>5. \A a \in A, b \in B : <<a, b>> \in R
    BY KeysFollowPersons
  <1>6. t = Sorted(cast, B)
    OBVIOUS
  <1>7. Lists(s, R, A)
    OBVIOUS
  <1>. HIDE DEF t, R
  <1>8. s \in Seq(A \cup B) /\ t \in Seq(A \cup B) /\ Lists(s \o t, R, A \cup B)
    BY <1>1, <1>3, <1>4, <1>5, <1>7, ListsJoin
  <1>9. s \in Seq(U) /\ t \in Seq(U)
    BY <1>8
  <1>10. s \o t \in Seq(U)
    BY <1>9, ConcatProperties
  <1>. QED
    BY <1>6, <1>8, <1>9, <1>10 DEF R

LEMMA SortedIsSeq ==
    ASSUME NEW cast \in CastType, NEW U \in SUBSET Written, IsFiniteSet(U), Untied(cast, U),
           NEW B \in SUBSET U
    PROVE  Sorted(cast, B) \in Seq(U)
  <1>1. IsFiniteSet(B) /\ Untied(cast, B) /\ B \in SUBSET Written
    BY FS_Subset DEF Untied
  <1>2. Lists(Sorted(cast, B), ByKey(cast), B) /\ Cardinality(B) \in Nat
    BY <1>1, SortedLists, FS_CardinalityType
  <1>. QED
    BY <1>2 DEF Lists

LEMMA DigestIs ==
    ASSUME NEW cast \in CastType, NEW U \in SUBSET Written, IsFiniteSet(U), Untied(cast, U),
           NEW m \in Nat, NEW frames, Divides(frames, m, U, cast)
    PROVE  Digest(frames, cast) = Sorted(cast, U)
  <1>. DEFINE W(b) == UNION {frames[c] : c \in 1..b}
              X == Seq(U)
              row == [i \in 1..m |-> Sorted(cast, frames[i])]
              G == [x \in X \X (1..m) |-> x[1] \o row[x[2]]]
              fed == CHOOSE f : f = [i \in 0..m |->
                         IF i = 0 THEN <<>> ELSE f[i - 1] \o Sorted(cast, frames[i])]
              P == {i \in 0..m : fed[i] \in X /\ Lists(fed[i], ByKey(cast), W(i))}
  <1>1. /\ frames \in [1..m -> SUBSET U] /\ Len(frames) = m
        /\ \A r \in U : \E b \in 1..m : r \in frames[b]
        /\ \A b, c \in 1..m : \A r \in frames[b], t \in frames[c] :
               b < c => <<Person(cast, r), Person(cast, t)>> \in ByPerson
    BY DEF Divides
  <1>2. \A i \in 1..m : row[i] \in X /\ row[i] = Sorted(cast, frames[i])
    BY <1>1, SortedIsSeq
  <1>3. <<>> \in X
    OBVIOUS
  <1>4. Digest(frames, cast) = fed[m]
    BY <1>1 DEF Digest
  <1>5. /\ W(0) = {} /\ W(m) = U
        /\ \A i \in 1..m : W(i) = W(i - 1) \cup frames[i] /\ W(i - 1) \in SUBSET U
    <2>1. W(0) = {}
      OBVIOUS
    <2>2. W(m) = U
      BY <1>1
    <2>3. ASSUME NEW i \in 1..m
          PROVE  W(i) = W(i - 1) \cup frames[i] /\ W(i - 1) \in SUBSET U
      <3>1. 1..i = (1..(i - 1)) \cup {i}
        OBVIOUS
      <3>2. 1..(i - 1) \subseteq 1..m
        OBVIOUS
      <3>. QED
        BY <1>1, <3>1, <3>2
    <2>. QED
      BY <2>1, <2>2, <2>3
  <1>6. \A i \in 1..m : \A r \in W(i - 1), t \in frames[i] :
            <<Person(cast, r), Person(cast, t)>> \in ByPerson
    <2>1. ASSUME NEW i \in 1..m, NEW r \in W(i - 1), NEW t \in frames[i]
          PROVE  <<Person(cast, r), Person(cast, t)>> \in ByPerson
      <3>1. PICK c \in 1..(i - 1) : r \in frames[c]
        OBVIOUS
      <3>2. c \in 1..m /\ c < i
        OBVIOUS
      <3>. QED
        BY <1>1, <3>1, <3>2
    <2>. QED
      BY <2>1
  <1>7. fed = [i \in 0..m |-> IF i = 0 THEN <<>> ELSE fed[i - 1] \o Sorted(cast, frames[i])]
    <2>1. \A x \in X, i \in 1..m : G[<<x, i>>] \in X /\ G[<<x, i>>] = x \o row[i]
      BY <1>2, ConcatProperties
    <2>. HIDE DEF X, row, G
    <2>2. PICK f : Iterated(f, m, <<>>, G, X)
      BY <1>3, <2>1, Iterates
    <2>3. f = [i \in 0..m |-> IF i = 0 THEN <<>> ELSE f[i - 1] \o Sorted(cast, frames[i])]
      <3>1. f \in [0..m -> X]
        BY <2>2 DEF Iterated
      <3>2. ASSUME NEW i \in 0..m
            PROVE  f[i] = IF i = 0 THEN <<>> ELSE f[i - 1] \o Sorted(cast, frames[i])
        <4>1. CASE i = 0
          BY <2>2, <4>1 DEF Iterated
        <4>2. CASE i \in 1..m
          <5>1. f[i] = G[<<f[i - 1], i>>] /\ f[i - 1] \in X
            BY <2>2, <3>1, <4>2 DEF Iterated
          <5>2. i # 0
            BY <4>2
          <5>. QED
            BY <1>2, <2>1, <4>2, <5>1, <5>2
        <4>. QED
          BY <4>1, <4>2
      <3>. QED
        BY <3>1, <3>2
    <2>. QED
      BY <2>3
  <1>. HIDE DEF fed, X, row, G
  <1>8. fed[0] = <<>> /\ \A i \in 1..m : fed[i] = fed[i - 1] \o Sorted(cast, frames[i])
    BY <1>7
  <1>. HIDE DEF W
  <1>9. 0 \in P
    <2>1. Cardinality({}) = 0
      BY FS_EmptySet
    <2>2. Lists(<<>>, ByKey(cast), {})
      BY <2>1 DEF Lists
    <2>3. fed[0] \in X /\ 0 \in 0..m
      BY <1>3, <1>8
    <2>4. fed[0] = <<>> /\ W(0) = {}
      BY <1>5, <1>8
    <2>5. Lists(fed[0], ByKey(cast), W(0))
      BY <2>2, <2>4, Zenon
    <2>. QED
      BY <2>3, <2>5
  <1>10. ASSUME NEW i \in 1..m, i - 1 \in P
         PROVE  i \in P
    <2>1. /\ Lists(fed[i - 1], ByKey(cast), W(i - 1))
          /\ W(i - 1) \in SUBSET U /\ frames[i] \in SUBSET U
          /\ W(i) = W(i - 1) \cup frames[i]
          /\ fed[i] = fed[i - 1] \o Sorted(cast, frames[i])
      BY <1>1, <1>5, <1>8, <1>10
    <2>2. \A r \in W(i - 1), t \in frames[i] : <<Person(cast, r), Person(cast, t)>> \in ByPerson
      BY <1>6
    <2>3. PICK s, A, B : s = fed[i - 1] /\ A = W(i - 1) /\ B = frames[i]
      OBVIOUS
    <2>4. /\ A \in SUBSET U /\ B \in SUBSET U /\ Lists(s, ByKey(cast), A)
          /\ \A r \in A, t \in B : <<Person(cast, r), Person(cast, t)>> \in ByPerson
      BY <2>1, <2>2, <2>3
    <2>5. /\ s \o Sorted(cast, B) \in Seq(U)
          /\ Lists(s \o Sorted(cast, B), ByKey(cast), A \cup B)
      BY <2>4, FeedsInOrder
    <2>6. fed[i] \in X /\ Lists(fed[i], ByKey(cast), W(i)) /\ i \in 0..m
      BY <2>1, <2>3, <2>5 DEF X
    <2>. QED
      BY <2>6
  <1>11. 0..m \subseteq P
    <2>. HIDE DEF P
    <2>. QED
      BY <1>9, <1>10, CountUp
  <1>12. Lists(fed[m], ByKey(cast), U)
    <2>1. m \in P
      BY <1>11
    <2>. QED
      BY <1>5, <2>1
  <1>13. Lists(Sorted(cast, U), ByKey(cast), U) /\ StrictOrder(ByKey(cast), U)
    BY SortedLists, KeysAreOrdered
  <1>. QED
    BY <1>4, <1>12, <1>13, OneList

-----------------------------------------------------------------------------
(* What is streamed. *)

Determined(cast, U) ==
    /\ U # {}
    /\ \A r \in U : cast[r.key].player # NoPlayer
    /\ Untied(cast, U)

\* Ties are seen in the batches: rows that sort alike are in the same one.
LEMMA TiesAreSeen ==
    ASSUME NEW cast \in CastType, NEW U \in SUBSET Written,
           NEW m \in Nat, NEW frames, Divides(frames, m, U, cast)
    PROVE  (\E i \in DOMAIN frames : Tied(cast, frames[i])) <=> ~ Untied(cast, U)
  <1>1. /\ frames \in [1..m -> SUBSET U]
        /\ \A r \in U : \E b \in 1..m : r \in frames[b]
        /\ \A b \in 1..m : \A r, t \in U :
               r \in frames[b] /\ Person(cast, r) = Person(cast, t) => t \in frames[b]
    BY DEF Divides
  <1>2. ASSUME NEW i \in DOMAIN frames, Tied(cast, frames[i])
        PROVE  ~ Untied(cast, U)
    <2>1. frames[i] \in SUBSET U
      BY <1>1
    <2>. QED
      BY <1>2, <2>1 DEF Tied, Untied
  <1>3. ASSUME ~ Untied(cast, U)
        PROVE  \E i \in DOMAIN frames : Tied(cast, frames[i])
    <2>1. PICK r \in U, t \in U : r # t /\ SortKey(cast, r) = SortKey(cast, t)
      BY <1>3 DEF Untied
    <2>2. Person(cast, r) = Person(cast, t)
      BY <2>1 DEF SortKey, Person
    <2>3. PICK b \in 1..m : r \in frames[b] /\ t \in frames[b]
      BY <1>1, <2>2
    <2>4. b \in DOMAIN frames
      BY <1>1
    <2>. QED
      BY <2>1, <2>3, <2>4 DEF Tied
  <1>. QED
    BY <1>2, <1>3

\* What is streamed from a spool of the rows of U, and in what batches.
LEMMA StreamedIs ==
    ASSUME NEW table, NEW spool, NEW cast \in CastType, NEW U \in SUBSET Written,
           IsFiniteSet(U), U = UNION Range(spool)
    PROVE  LET frames == Frames(table, spool, cast)
           IN  /\ Streamed(spool, frames, cast)
                      = IF Determined(cast, U) THEN Sorted(cast, U) ELSE NoDigest
               /\ \A i \in DOMAIN frames :
                      \/ Cardinality(frames[i]) <= BatchRows
                      \/ Cardinality({Person(cast, r) : r \in frames[i]}) = 1
  <1>1. PICK m \in Nat : /\ Divides(Frames(table, spool, cast), m, U, cast)
                         /\ \A b \in 1..m : Fits(Frames(table, spool, cast)[b], cast)
    BY FramesAre
  <1>2. PICK frames : frames = Frames(table, spool, cast)
    OBVIOUS
  <1>3. Divides(frames, m, U, cast) /\ \A b \in 1..m : Fits(frames[b], cast)
    BY <1>1, <1>2
  <1>4. (\E i \in DOMAIN frames : Tied(cast, frames[i])) <=> ~ Untied(cast, U)
    BY <1>3, TiesAreSeen
  <1>5. Untied(cast, U) => Digest(frames, cast) = Sorted(cast, U)
    BY <1>3, DigestIs
  <1>6. Streamed(spool, frames, cast) = IF Determined(cast, U) THEN Sorted(cast, U) ELSE NoDigest
    <2>1. CASE Determined(cast, U)
      BY <1>4, <1>5, <2>1 DEF Determined, Streamed
    <2>2. CASE ~ Determined(cast, U)
      BY <1>4, <2>2 DEF Determined, Streamed
    <2>. QED
      BY <2>1, <2>2
  <1>7. ASSUME NEW i \in DOMAIN frames
        PROVE  \/ Cardinality(frames[i]) <= BatchRows
               \/ Cardinality({Person(cast, r) : r \in frames[i]}) = 1
    <2>1. i \in 1..m /\ frames[i] \in SUBSET U
      BY <1>3 DEF Divides
    <2>2. CASE Cardinality(frames[i]) <= BatchRows
      BY <2>2
    <2>3. CASE \E person : \A r \in frames[i] : Person(cast, r) = person
      <3>1. PICK r \in frames[i] : TRUE
        BY <1>3, <2>1 DEF Fits
      <3>2. \A t \in frames[i] : Person(cast, t) = Person(cast, r)
        BY <2>3
      <3>3. {Person(cast, t) : t \in frames[i]} = {Person(cast, r)}
        BY <3>2
      <3>. QED
        BY <3>3, FS_Singleton
    <2>. QED
      BY <1>3, <2>1, <2>2, <2>3 DEF Fits
  <1>. QED
    BY <1>2, <1>6, <1>7

(* In every reachable state, the digest streamed from the spool of the live files *)
(* is the whole frame's, or there is none when there must not be, and no batch    *)
(* outgrows its limit for more than one player (manifest.py,                      *)
(* _streamed_player_props_component and _streamed_roster_component against        *)
(* _content_component).                                                           *)
THEOREM DigestsAreWhole == Spec => []StreamedIsWhole
  <1>1. ASSUME TableInv, Bounded
        PROVE  StreamedIsWhole
    <2>1. ASSUME NEW cast \in Casts, NEW table
          PROVE  LET rows == InScope(cast, Stored)
                     spool == Spool(InOrder(LiveFiles), cast)
                     frames == Frames(table, spool, cast)
                 IN  /\ Streamed(spool, frames, cast)
                            = IF Determined(cast, rows) THEN WholeFrame(cast) ELSE NoDigest
                     /\ \A i \in DOMAIN frames :
                            \/ Cardinality(frames[i]) <= BatchRows
                            \/ Cardinality({Person(cast, r) : r \in frames[i]}) = 1
      <3>1. cast \in CastType
        BY ManifestAssumption DEF CastType
      <3>2. PICK spool, U : /\ spool = Spool(InOrder(LiveFiles), cast)
                            /\ U = InScope(cast, Stored)
        OBVIOUS
      <3>3. U = UNION Range(spool) /\ U \in SUBSET Written /\ IsFiniteSet(U)
        BY <1>1, <3>1, <3>2, SpoolIs
      <3>4. LET frames == Frames(table, spool, cast)
            IN  /\ Streamed(spool, frames, cast)
                       = IF Determined(cast, U) THEN Sorted(cast, U) ELSE NoDigest
                /\ \A i \in DOMAIN frames :
                       \/ Cardinality(frames[i]) <= BatchRows
                       \/ Cardinality({Person(cast, r) : r \in frames[i]}) = 1
        BY <3>1, <3>3, StreamedIs
      <3>. QED
        BY <3>2, <3>4 DEF WholeFrame
    <2>. QED
      BY <2>1 DEF StreamedIsWhole, Determined, Untied
  <1>. QED
    BY <1>1, TableInvariant, FilesAreBounded, PTL
=============================================================================
