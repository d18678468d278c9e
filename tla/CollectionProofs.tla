-------------------------- MODULE CollectionProofs --------------------------
(***************************************************************************)
(* What a collection cycle leaves behind: rows no earlier than what they   *)
(* say (NothingBeforeItWasShown), absences that were observed              *)
(* (AbsenceIsObserved), cycles whose row vouches for the rest of them      *)
(* (FinishedCycleIsWhole) and payloads that outlive the cycles they        *)
(* explain (EvidenceExpires), for every provider, every retry budget,      *)
(* every kill and every retention.                                         *)
(***************************************************************************)
EXTENDS Collection, FiniteSetTheorems, SequenceTheorems, WellFoundedInduction, TLAPS

Scopes == Games \cup {Week}
Item == [feed : Feeds, scope : Scopes]
Showing == [content : SUBSET Games, since : Nat]
PageRecord == [v : Nat, at : Nat]
Statuses == Checked \cup {"none", "EMPTY_RESPONSE", "PROVIDER_ERROR", "RATE_LIMITED"}
Working == {"fetch", "receipt", "append"}

\* The cycle in memory, the feeds and the tables.
CycleShape ==
    cyc \in [started : Int, todo : Seq(Item), attempt : Int, cursor : Int, seen : SUBSET Int,
             pages : SUBSET PageRecord, status : Statuses, listed : SUBSET Games]

Shapes ==
    /\ clock \in Nat
    /\ feed \in [Feeds -> Seq(Showing)]
    /\ \A f \in Feeds : /\ Len(feed[f]) >= 1
                        /\ \A i \in 1..Len(feed[f]) : feed[f][i].since <= clock
    /\ pc \in Working \cup {"idle", "finalize", "trigger"}
    /\ CycleShape
    /\ IsFiniteSet(cyc.pages)
    /\ pc \in Working <=> cyc.todo # <<>>

Tables ==
    /\ \A r \in receipts : r.run \in Nat /\ r.feed \in Feeds /\ r.count \in Nat
    /\ \A r \in rows : r.run \in Nat /\ r.feed \in Feeds /\ r.v \in 1..Len(feed[r.feed])
    /\ \A c \in runs : c.started \in Nat /\ c.completed \in Nat

\* One cycle after another: nothing in the tables is of a time to come, and
\* the windows of two finished cycles do not meet.
Clocks ==
    /\ pc # "idle" => cyc.started \in Nat /\ 0 < cyc.started /\ cyc.started < clock
    /\ \A r \in receipts : r.run < clock
    /\ \A r \in rows : r.run < clock
    /\ \A c \in runs : /\ 0 < c.started /\ c.started < c.completed /\ c.completed <= clock
                       /\ pc \notin {"idle", "trigger"} => c.completed < cyc.started
    /\ \A c, d \in runs : c = d \/ c.completed < d.started \/ d.completed < c.started

\* A page was received while the provider showed its version.
Read(p, f) ==
    /\ p.v \in 1..Len(feed[f])
    /\ feed[f][p.v].since <= p.at
    /\ p.v < Len(feed[f]) => feed[f][p.v + 1].since >= p.at
    /\ cyc.started <= p.at /\ p.at <= clock

Pages == pc \in Working => \A p \in cyc.pages : Read(p, Now.feed)

\* What the status of a fetch says of its pages.
Judged ==
    pc \in {"receipt", "append"} =>
        /\ cyc.status \in Checked => cyc.pages # {}
        /\ cyc.status \notin Checked => Full(cyc.pages) = {}
        /\ cyc.status \in Checked /\ Now.feed \in {"games", "rosters"} => Full(cyc.pages) # {}
        /\ pc = "append" => Full(cyc.pages) # {}

CollectionInv == Shapes /\ Tables /\ Clocks /\ Pages /\ Judged

-----------------------------------------------------------------------------
(* Helpers of the model. *)

LEMMA NowIsAnItem ==
    ASSUME Shapes, pc \in Working
    PROVE  /\ Now \in Item /\ Now = cyc.todo[1] /\ 1 \in DOMAIN cyc.todo
           /\ Now.feed \in Feeds
  <1>1. cyc.todo \in Seq(Item) /\ cyc.todo # <<>>
    BY DEF Shapes, CycleShape
  <1>2. Now \in Item /\ Now = cyc.todo[1] /\ 1 \in DOMAIN cyc.todo
    BY <1>1 DEF Now
  <1>. QED
    BY <1>2 DEF Item

LEMMA AskShape ==
    ASSUME NEW started \in Int, NEW todo \in Seq(Item), NEW listed \in SUBSET Games
    PROVE  LET c == Ask(started, todo, listed) IN
           /\ c.started = started /\ c.todo = todo /\ c.listed = listed /\ c.pages = {}
           /\ c \in [started : Int, todo : Seq(Item), attempt : Int, cursor : Int, seen : SUBSET Int,
                     pages : SUBSET PageRecord, status : Statuses, listed : SUBSET Games]
           /\ IsFiniteSet(c.pages)
  <1>1. "none" \in Statuses
    BY DEF Statuses
  <1>. QED
    BY <1>1, FS_EmptySet DEF Ask

\* The dependents of a schedule: three feeds of the week, one per game listed,
\* each of them once.
LEMMA DependentsShape ==
    ASSUME NEW games \in SUBSET Games
    PROVE  LET d == Dependents(games) IN
           /\ d \in Seq(Item) /\ d # <<>>
           /\ \A i, j \in DOMAIN d : d[i] = d[j] => i = j
           /\ \A i \in DOMAIN d : d[i].feed # "games"
           /\ \A f \in {"rosters", "injuries", "odds"} : \E i \in DOMAIN d : d[i] = OfWeek(f)
           /\ \A g \in games : \E i \in DOMAIN d : d[i] = [feed |-> "props", scope |-> g]
  <1>. DEFINE n == Cardinality(games)
              order == SetToSeq(games)
              three == <<OfWeek("rosters"), OfWeek("injuries"), OfWeek("odds")>>
              props == [i \in DOMAIN order |-> [feed |-> "props", scope |-> order[i]]]
              d == Dependents(games)
  <1>1. IsFiniteSet(games)
    BY GamesAssumption, FS_Subset
  <1>2. n \in Nat /\ ExistsBijection(1..n, games)
    BY <1>1, FS_CardinalityType
  <1>3. order \in [1..n -> games] /\ IsInjective(order)
    <2>1. \E f \in [1..n -> games] : IsInjective(f)
      BY <1>2 DEF ExistsBijection, Bijection, Injection
    <2>. QED
      BY <2>1 DEF SetToSeq
  <1>4. order \in Surjection(1..n, games)
    <2>1. order \in Injection(1..n, games)
      BY <1>3 DEF Injection
    <2>2. Cardinality(1..n) = n
      BY <1>2, FS_Interval
    <2>. HIDE DEF order, n
    <2>. QED
      BY <1>1, <2>1, <2>2, FS_Injection DEF n
  <1>. HIDE DEF order, n
  <1>5. \A g \in games : \E i \in 1..n : order[i] = g
    BY <1>4 DEF Surjection
  <1>6. three \in Seq(Item) /\ Len(three) = 3
    BY DEF OfWeek, Item, Feeds, Scopes
  <1>7. props \in Seq(Item) /\ Len(props) = n /\ \A i \in 1..n : props[i] = [feed |-> "props", scope |-> order[i]]
    <2>1. props \in [1..n -> Item]
      BY <1>3 DEF Item, Feeds, Scopes
    <2>2. props \in Seq(Item)
      BY <2>1, <1>2
    <2>. QED
      BY <1>2, <1>3, <2>1, <2>2
  <1>8. d = three \o props
    BY DEF Dependents, order
  <1>9. /\ d \in Seq(Item) /\ Len(d) = n + 3 /\ DOMAIN d = 1..(n + 3)
        /\ \A i \in 1..3 : d[i] = three[i]
        /\ \A i \in 4..(n + 3) : d[i] = props[i - 3]
    <2>. HIDE DEF d, three, props
    <2>1. d \in Seq(Item) /\ Len(d) = Len(three) + Len(props)
      BY <1>6, <1>7, <1>8, ConcatProperties
    <2>2. Len(d) = n + 3
      BY <2>1, <1>6, <1>7, <1>2
    <2>3. DOMAIN d = 1..(n + 3)
      BY <2>1, <2>2
    <2>4. \A i \in 1..(Len(three) + Len(props)) : d[i] = IF i <= Len(three) THEN three[i] ELSE props[i - Len(three)]
      BY <1>6, <1>7, <1>8, ConcatProperties
    <2>. QED
      BY <2>1, <2>2, <2>3, <2>4, <1>6, <1>7, <1>2
  <1>10. d[1] = OfWeek("rosters") /\ d[2] = OfWeek("injuries") /\ d[3] = OfWeek("odds")
         /\ d[1].feed = "rosters" /\ d[2].feed = "injuries" /\ d[3].feed = "odds"
    BY <1>9 DEF OfWeek
  <1>11. \A i \in 4..(n + 3) : /\ i - 3 \in 1..n /\ d[i] = [feed |-> "props", scope |-> order[i - 3]]
                              /\ d[i].feed = "props" /\ d[i].scope = order[i - 3]
    BY <1>2, <1>7, <1>9
  <1>. HIDE DEF d, three, props
  <1>12. \A i \in DOMAIN d : i \in {1, 2, 3} \/ i \in 4..(n + 3)
    BY <1>2, <1>9
  <1>13. d # <<>>
    BY <1>2, <1>9
  <1>14. ASSUME NEW i \in DOMAIN d, NEW j \in DOMAIN d, d[i] = d[j]
         PROVE  i = j
    <2>1. CASE i \in 4..(n + 3) /\ j \in 4..(n + 3)
      <3>1. order[i - 3] = order[j - 3]
        BY <1>11, <1>14, <2>1
      <3>2. i - 3 = j - 3
        BY <3>1, <2>1, <1>2, <1>3, <1>11 DEF IsInjective
      <3>. QED
        BY <3>2, <2>1, <1>2
    <2>2. CASE i \in {1, 2, 3} /\ j \in {1, 2, 3}
      BY <2>2, <1>10, <1>14
    <2>3. CASE i \in {1, 2, 3} /\ j \in 4..(n + 3)
      BY <2>3, <1>10, <1>11, <1>14
    <2>4. CASE i \in 4..(n + 3) /\ j \in {1, 2, 3}
      BY <2>4, <1>10, <1>11, <1>14
    <2>. QED
      BY <1>12, <2>1, <2>2, <2>3, <2>4
  <1>15. \A i \in DOMAIN d : d[i].feed # "games"
    BY <1>10, <1>11, <1>12
  <1>16. \A f \in {"rosters", "injuries", "odds"} : \E i \in DOMAIN d : d[i] = OfWeek(f)
    <2>1. 1 \in DOMAIN d /\ 2 \in DOMAIN d /\ 3 \in DOMAIN d
      BY <1>2, <1>9
    <2>. QED
      BY <2>1, <1>10
  <1>17. ASSUME NEW g \in games
         PROVE  \E i \in DOMAIN d : d[i] = [feed |-> "props", scope |-> g]
    <2>1. PICK k \in 1..n : order[k] = g
      BY <1>5
    <2>2. k + 3 \in 4..(n + 3) /\ (k + 3) - 3 = k /\ k + 3 \in DOMAIN d
      BY <1>2, <1>9
    <2>. QED
      BY <2>1, <2>2, <1>11
  <1>. QED
    BY <1>9, <1>13, <1>14, <1>15, <1>16, <1>17 DEF d

LEMMA LeastExists ==
  ASSUME NEW T, T \subseteq Nat, T # {}
  PROVE  \E x \in T : \A y \in T : x <= y
  <1>. DEFINE R == {ss \in Nat \X Nat : ss[1] < ss[2]}
  <1>1. IsWellFoundedOn(R, Nat)
    BY NatLessThanWellFounded DEF OpToRel
  <1>2. \A x, y \in T : <<y, x>> \in R <=> y < x
    OBVIOUS
  <1>. HIDE DEF R
  <1>3. PICK x \in T : \A y \in T : ~ (<<y, x>> \in R)
    BY <1>1, WFMin
  <1>4. \A y \in T : ~ (y < x)
    BY <1>2, <1>3
  <1>5. \A y \in T : x <= y
    BY <1>4
  <1>. QED
    BY <1>5

LEMMA GreatestExists ==
  ASSUME NEW T, T \subseteq Nat, T # {}, NEW b \in Nat, \A y \in T : y <= b
  PROVE  \E x \in T : \A y \in T : y <= x
  <1>. DEFINE U == {u \in Nat : \A y \in T : y <= u}
  <1>1. U \subseteq Nat /\ U # {}
    BY DEF U
  <1>2. PICK u \in U : \A x \in U : u <= x
    BY <1>1, LeastExists
  <1>3. CASE u \in T
    BY <1>3
  <1>4. CASE u \notin T
    <2>1. \A y \in T : y < u /\ y <= u - 1
      BY <1>4
    <2>2. PICK e \in T : e < u
      BY <2>1
    <2>3. u - 1 \in Nat
      BY <2>2
    <2>4. u - 1 \in U
      BY <2>1, <2>3
    <2>. QED
      BY <1>2, <2>4
  <1>. QED
    BY <1>3, <1>4

\* Time goes forward and the feeds grow at their end, with what they show from
\* then on.
LEMMA FeedsGrow ==
    ASSUME Shapes, [Next]_vars
    PROVE  /\ clock' \in Nat /\ clock <= clock'
           /\ feed' \in [Feeds -> Seq(Showing)]
           /\ \A f \in Feeds :
                 /\ Len(feed[f]) <= Len(feed'[f])
                 /\ \A i \in 1..Len(feed[f]) : feed'[f][i] = feed[f][i]
                 /\ \A i \in 1..Len(feed'[f]) : feed'[f][i].since <= clock'
                 /\ Len(feed[f]) < Len(feed'[f]) => feed'[f][Len(feed[f]) + 1].since >= clock
  <1>. DEFINE Goal == /\ clock' \in Nat /\ clock <= clock'
                      /\ feed' \in [Feeds -> Seq(Showing)]
                      /\ \A f \in Feeds :
                           /\ Len(feed[f]) <= Len(feed'[f])
                           /\ \A i \in 1..Len(feed[f]) : feed'[f][i] = feed[f][i]
                           /\ \A i \in 1..Len(feed'[f]) : feed'[f][i].since <= clock'
                           /\ Len(feed[f]) < Len(feed'[f]) => feed'[f][Len(feed[f]) + 1].since >= clock
  <1>1. /\ clock \in Nat /\ feed \in [Feeds -> Seq(Showing)]
        /\ \A f \in Feeds : feed[f] \in Seq(Showing) /\ Len(feed[f]) \in Nat
        /\ \A f \in Feeds : \A i \in 1..Len(feed[f]) : feed[f][i].since <= clock /\ feed[f][i].since \in Nat
    <2>1. /\ clock \in Nat /\ feed \in [Feeds -> Seq(Showing)]
          /\ \A f \in Feeds : \A i \in 1..Len(feed[f]) : feed[f][i].since <= clock
      BY DEF Shapes
    <2>2. \A f \in Feeds : feed[f] \in Seq(Showing)
      BY <2>1
    <2>3. \A f \in Feeds : Len(feed[f]) \in Nat /\ \A i \in 1..Len(feed[f]) : feed[f][i] \in Showing
      BY <2>2
    <2>4. \A x \in Showing : x.since \in Nat
      BY DEF Showing
    <2>. QED
      BY <2>1, <2>2, <2>3, <2>4
  <1>2. ASSUME feed' = feed, clock' \in Nat, clock <= clock'
        PROVE  Goal
    BY <1>1, <1>2
  <1>3. ASSUME NEW f \in Changing, NEW content \in SUBSET Games, Publish(f, content)
        PROVE  Goal
    <2>. DEFINE new == [content |-> content, since |-> clock']
                grown == Append(feed[f], new)
    <2>1. clock' = clock + 1 /\ clock' \in Nat /\ clock <= clock' /\ new \in Showing
          /\ feed' = [feed EXCEPT ![f] = grown]
      BY <1>1, <1>3 DEF Publish, Later, Showing
    <2>. HIDE DEF new
    <2>2. ASSUME f \in Feeds
          PROVE  /\ grown \in Seq(Showing) /\ Len(grown) = Len(feed[f]) + 1
                 /\ \A i \in 1..Len(feed[f]) : grown[i] = feed[f][i]
                 /\ grown[Len(feed[f]) + 1] = new
      BY <1>1, <2>1, <2>2, AppendProperties
    <2>3. new.since = clock'
      BY DEF new
    <2>. HIDE DEF grown
    <2>4. feed' \in [Feeds -> Seq(Showing)]
      BY <1>1, <2>1, <2>2
    <2>5. ASSUME NEW g \in Feeds
          PROVE  /\ Len(feed[g]) <= Len(feed'[g])
                 /\ \A i \in 1..Len(feed[g]) : feed'[g][i] = feed[g][i]
                 /\ \A i \in 1..Len(feed'[g]) : feed'[g][i].since <= clock'
                 /\ Len(feed[g]) < Len(feed'[g]) => feed'[g][Len(feed[g]) + 1].since >= clock
      <3>1. CASE g = f
        <4>1. feed'[g] = grown
          BY <2>1, <1>1, <3>1
        <4>2. \A i \in 1..Len(grown) : i \in 1..Len(feed[g]) \/ i = Len(feed[g]) + 1
          BY <1>1, <2>2, <3>1
        <4>3. \A i \in 1..Len(grown) : grown[i].since <= clock'
          BY <4>2, <2>1, <2>2, <2>3, <1>1, <3>1
        <4>. QED
          BY <4>1, <4>2, <4>3, <2>1, <2>2, <2>3, <1>1, <3>1
      <3>2. CASE g # f
        <4>1. feed'[g] = feed[g]
          BY <2>1, <1>1, <3>2
        <4>. QED
          BY <4>1, <1>1, <2>1
      <3>. QED
        BY <3>1, <3>2
    <2>. QED
      BY <2>1, <2>4, <2>5
  <1>4. ASSUME [Next]_vars, ~\E f \in Changing, content \in SUBSET Games : Publish(f, content)
        PROVE  feed' = feed /\ clock' \in Nat /\ clock <= clock'
    <2>1. CASE UNCHANGED vars
      BY <1>1, <2>1 DEF vars
    <2>2. CASE Start
      BY <1>1, <2>2 DEF Start, Later
    <2>3. CASE Collect
      <3>1. \A next : Page(next) => UNCHANGED <<clock, feed>>
        BY DEF Page
      <3>2. \A kind : Fail(kind) => UNCHANGED <<clock, feed>>
        BY DEF Fail
      <3>3. RecordReceipt \/ AppendRows => UNCHANGED <<clock, feed>>
        BY DEF RecordReceipt, AppendRows
      <3>4. Finalize \/ RecordTrigger => UNCHANGED <<clock, feed>>
        BY DEF Finalize, RecordTrigger
      <3>. QED
        BY <1>1, <2>3, <3>1, <3>2, <3>3, <3>4 DEF Collect
    <2>4. CASE Housekeeping \/ HousekeepingKilled \/ Kill
      <3>1. Housekeeping => UNCHANGED <<clock, feed>>
        BY DEF Housekeeping
      <3>2. HousekeepingKilled => UNCHANGED <<clock, feed>>
        BY DEF HousekeepingKilled
      <3>3. Kill => UNCHANGED <<clock, feed>>
        BY DEF Kill
      <3>. QED
        BY <1>1, <2>4, <3>1, <3>2, <3>3
    <2>5. CASE Wait \/ Discover
      BY <1>1, <2>5, GamesAssumption DEF Wait, Discover, Later
    <2>. QED
      BY <1>4, <2>1, <2>2, <2>3, <2>4, <2>5 DEF Next
  <1>. HIDE DEF Goal
  <1>5. Goal
    BY <1>2, <1>3, <1>4
  <1>. QED
    BY <1>5 DEF Goal

\* What a step of the collecting process leaves alone, and what the next
\* resource starts from.
LEMMA AdvanceShape ==
    ASSUME Shapes, Pages, pc \in {"receipt", "append"}, Advance
    PROVE  /\ CycleShape' /\ IsFiniteSet(cyc'.pages)
           /\ cyc'.started = cyc.started /\ cyc'.pages = {}
           /\ pc' \in {"fetch", "finalize"} /\ (pc' \in Working <=> cyc'.todo # <<>>)
           /\ cyc'.listed = IF Now.feed = "games" THEN Contents(cyc.pages) ELSE cyc.listed
           /\ cyc'.todo = IF Now.feed # "games" THEN Tail(cyc.todo)
                          ELSE IF cyc.status \in Checked THEN Dependents(cyc'.listed) ELSE <<>>
  <1>. DEFINE listed == IF Now.feed = "games" THEN Contents(cyc.pages) ELSE cyc.listed
              rest == IF Now.feed # "games" THEN Tail(cyc.todo)
                      ELSE IF cyc.status \in Checked THEN Dependents(listed) ELSE <<>>
  <1>1. cyc' = Ask(cyc.started, rest, listed) /\ pc' = IF rest = <<>> THEN "finalize" ELSE "fetch"
    BY DEF Advance
  <1>2. pc \in Working
    BY DEF Working
  <1>3. listed \in SUBSET Games
    <2>1. \A p \in cyc.pages : p.v \in 1..Len(feed[Now.feed])
      BY <1>2 DEF Pages, Read
    <2>2. feed[Now.feed] \in Seq(Showing)
      BY <1>2, NowIsAnItem DEF Shapes
    <2>3. \A p \in cyc.pages : feed[Now.feed][p.v] \in Showing
      BY <2>1, <2>2
    <2>4. Contents(cyc.pages) \subseteq Games
      BY <2>3 DEF Contents, Showing
    <2>. QED
      BY <2>4 DEF Shapes, CycleShape
  <1>4. rest \in Seq(Item)
    <2>1. cyc.todo \in Seq(Item) /\ cyc.todo # <<>>
      BY <1>2 DEF Shapes, CycleShape
    <2>2. Tail(cyc.todo) \in Seq(Item)
      BY <2>1
    <2>. HIDE DEF listed
    <2>3. Dependents(listed) \in Seq(Item)
      BY <1>3, DependentsShape
    <2>4. <<>> \in Seq(Item)
      BY EmptySeq
    <2>. QED
      BY <2>2, <2>3, <2>4
  <1>5. cyc.started \in Int
    BY DEF Shapes, CycleShape
  <1>. HIDE DEF listed, rest
  <1>6. /\ cyc' \in [started : Int, todo : Seq(Item), attempt : Int, cursor : Int, seen : SUBSET Int,
                    pages : SUBSET PageRecord, status : Statuses, listed : SUBSET Games]
        /\ cyc'.started = cyc.started /\ cyc'.todo = rest /\ cyc'.listed = listed /\ cyc'.pages = {}
        /\ IsFiniteSet(cyc'.pages)
    BY <1>1, <1>3, <1>4, <1>5, AskShape
  <1>7. pc' \in {"fetch", "finalize"} /\ (pc' \in Working <=> cyc'.todo # <<>>)
    BY <1>1, <1>6 DEF Working
  <1>. QED
    BY <1>6, <1>7 DEF CycleShape, listed, rest

-----------------------------------------------------------------------------
(* The invariant of a cycle, step by step. *)

\* A step outside the cycle in memory.
Beside == [Next]_vars /\ UNCHANGED <<pc, cyc, receipts, rows, runs>>

LEMMA BesideKeeps ==
    ASSUME CollectionInv, Beside
    PROVE  /\ CollectionInv'
           /\ pc \in Working => Full(cyc.pages)' = Full(cyc.pages) /\ Contents(cyc.pages)' = Contents(cyc.pages)
  <1>. USE DEF CollectionInv
  <1>1. /\ clock' \in Nat /\ clock <= clock' /\ clock \in Nat
        /\ feed \in [Feeds -> Seq(Showing)] /\ feed' \in [Feeds -> Seq(Showing)]
        /\ \A f \in Feeds : Len(feed[f]) \in Nat /\ Len(feed'[f]) \in Nat
        /\ \A f \in Feeds :
              /\ Len(feed[f]) >= 1
              /\ Len(feed[f]) <= Len(feed'[f])
              /\ \A i \in 1..Len(feed[f]) : feed'[f][i] = feed[f][i]
              /\ \A i \in 1..Len(feed'[f]) : feed'[f][i].since <= clock'
              /\ Len(feed[f]) < Len(feed'[f]) => feed'[f][Len(feed[f]) + 1].since >= clock
    <2>1. /\ clock' \in Nat /\ clock <= clock' /\ clock \in Nat
          /\ feed \in [Feeds -> Seq(Showing)] /\ feed' \in [Feeds -> Seq(Showing)]
      BY FeedsGrow DEF Shapes, Beside
    <2>2. \A f \in Feeds : feed[f] \in Seq(Showing) /\ feed'[f] \in Seq(Showing)
      BY <2>1
    <2>3. \A f \in Feeds : Len(feed[f]) \in Nat /\ Len(feed'[f]) \in Nat
      BY <2>2
    <2>4. \A f \in Feeds : Len(feed[f]) >= 1
      BY DEF Shapes
    <2>. QED
      BY <2>1, <2>3, <2>4, FeedsGrow DEF Beside
  <1>2. pc' = pc /\ cyc' = cyc /\ receipts' = receipts /\ rows' = rows /\ runs' = runs
    BY DEF Beside
  <1>3. Shapes'
    BY <1>1, <1>2 DEF Shapes, CycleShape
  <1>4. Tables'
    BY <1>1, <1>2 DEF Tables
  <1>5. Clocks'
    <2>1. \A r \in receipts \cup rows : r.run \in Nat
      BY DEF Tables
    <2>2. \A c \in runs : c.completed \in Nat
      BY DEF Tables
    <2>. QED
      BY <1>1, <1>2, <2>1, <2>2 DEF Clocks, Shapes, CycleShape
  <1>6. Now' = Now
    BY <1>2 DEF Now
  <1>7. ASSUME pc \in Working
        PROVE  /\ Now.feed \in Feeds
               /\ \A p \in cyc.pages : Read(p, Now.feed) /\ p.v \in Nat /\ p.at \in Nat
    BY <1>7, NowIsAnItem DEF Pages, Shapes, CycleShape, PageRecord
  <1>8. Pages'
    <2>1. SUFFICES ASSUME pc \in Working, NEW p \in cyc.pages
                   PROVE  Read(p, Now.feed)'
      BY <1>2, <1>6 DEF Pages
    <2>. DEFINE f == Now.feed
    <2>2. f \in Feeds /\ Read(p, f) /\ p.v \in Nat /\ p.at \in Nat
      BY <2>1, <1>7
    <2>3. p.v \in 1..Len(feed[f]) /\ p.v \in 1..Len(feed'[f]) /\ feed'[f][p.v].since <= p.at
      BY <2>2, <1>1 DEF Read
    <2>4. ASSUME p.v < Len(feed'[f])
          PROVE  feed'[f][p.v + 1].since >= p.at
      <3>1. CASE p.v < Len(feed[f])
        <4>1. p.v + 1 \in 1..Len(feed[f]) /\ feed[f][p.v + 1].since >= p.at
          BY <3>1, <2>2, <2>3, <1>1 DEF Read
        <4>. QED
          BY <4>1, <2>2, <1>1
      <3>2. CASE p.v = Len(feed[f])
        <4>1. feed'[f][p.v + 1].since >= clock /\ clock >= p.at
          BY <3>2, <2>2, <2>4, <1>1 DEF Read
        <4>2. p.v + 1 \in 1..Len(feed'[f])
          BY <2>4, <2>2, <1>1
        <4>3. feed'[f][p.v + 1].since \in Nat
          <5>1. feed'[f] \in Seq(Showing)
            BY <1>1, <2>2
          <5>2. feed'[f][p.v + 1] \in Showing
            BY <5>1, <4>2
          <5>. QED
            BY <5>2 DEF Showing
        <4>. QED
          BY <4>1, <4>3, <2>2, <1>1
      <3>. QED
        BY <3>1, <3>2, <2>3, <2>2, <1>1
    <2>5. cyc.started <= p.at /\ p.at <= clock'
      BY <2>2, <1>1 DEF Read
    <2>. HIDE DEF f
    <2>6. (Now.feed)' = f
      BY <1>6 DEF f
    <2>. QED
      BY <2>3, <2>4, <2>5, <2>6, <1>2 DEF Read, f
  <1>9. pc \in Working => Full(cyc.pages)' = Full(cyc.pages) /\ Contents(cyc.pages)' = Contents(cyc.pages)
    <2>1. ASSUME pc \in Working
          PROVE  \A p \in cyc.pages : feed'[Now.feed][p.v] = feed[Now.feed][p.v]
      BY <2>1, <1>1, <1>7 DEF Read
    <2>. QED
      BY <1>2, <1>6, <2>1 DEF Full, Contents
  <1>10. Judged'
    BY <1>2, <1>6, <1>9 DEF Judged, Working
  <1>. QED
    BY <1>3, <1>4, <1>5, <1>8, <1>9, <1>10

\* A page is read from what the provider shows at that moment.
LEMMA PageIsRead ==
    ASSUME CollectionInv, pc = "fetch"
    PROVE  LET p == [v |-> Len(feed[Now.feed]), at |-> clock] IN
           p \in PageRecord /\ Read(p, Now.feed)
  <1>. DEFINE f == Now.feed
              p == [v |-> Len(feed[f]), at |-> clock]
  <1>1. f \in Feeds
    BY NowIsAnItem DEF CollectionInv, Working
  <1>2. feed[f] \in Seq(Showing)
    BY <1>1 DEF CollectionInv, Shapes
  <1>3. Len(feed[f]) \in Nat /\ Len(feed[f]) >= 1 /\ clock \in Nat
        /\ \A i \in 1..Len(feed[f]) : feed[f][i].since <= clock
    BY <1>1, <1>2 DEF CollectionInv, Shapes
  <1>4. cyc.started \in Nat /\ cyc.started < clock
    BY DEF CollectionInv, Clocks
  <1>. HIDE DEF f
  <1>5. p.v = Len(feed[f]) /\ p.at = clock /\ p \in PageRecord
    BY <1>3 DEF PageRecord
  <1>6. feed[f][p.v].since <= p.at
    BY <1>3, <1>5
  <1>. HIDE DEF p
  <1>7. Read(p, f)
    BY <1>3, <1>4, <1>5, <1>6 DEF Read
  <1>. QED
    BY <1>5, <1>7 DEF p, f

LEMMA FullIsFinite ==
    ASSUME Shapes
    PROVE  IsFiniteSet(Full(cyc.pages)) /\ Cardinality(Full(cyc.pages)) \in Nat
           /\ (Cardinality(Full(cyc.pages)) = 0 <=> Full(cyc.pages) = {})
  <1>1. Full(cyc.pages) \in SUBSET cyc.pages /\ IsFiniteSet(cyc.pages)
    BY DEF Full, Shapes
  <1>2. IsFiniteSet(Full(cyc.pages))
    BY <1>1, FS_Subset
  <1>. QED
    BY <1>2, FS_CardinalityType, FS_EmptySet

LEMMA PageKeeps ==
    ASSUME CollectionInv, NEW next \in Int, Page(next)
    PROVE  CollectionInv' /\ cyc'.todo = cyc.todo /\ cyc'.started = cyc.started /\ cyc'.listed = cyc.listed
           /\ pc' \in {"fetch", "receipt"}
  <1>. USE DEF CollectionInv
  <1>. DEFINE p == [v |-> Len(feed[Now.feed]), at |-> clock]
              pages == cyc.pages \cup {p}
              status == Attempt(Now.feed, Full(pages))
  <1>1. pc = "fetch" /\ pc \in Working /\ UNCHANGED <<clock, feed, receipts, rows, runs>>
    BY DEF Page, Working
  <1>2. p \in PageRecord /\ Read(p, Now.feed)
    BY <1>1, PageIsRead
  <1>3. /\ cyc = [started |-> cyc.started, todo |-> cyc.todo, attempt |-> cyc.attempt, cursor |-> cyc.cursor,
                  seen |-> cyc.seen, pages |-> cyc.pages, status |-> cyc.status, listed |-> cyc.listed]
        /\ cyc.started \in Int /\ cyc.todo \in Seq(Item) /\ cyc.attempt \in Int /\ cyc.cursor \in Int
        /\ cyc.seen \subseteq Int /\ cyc.pages \subseteq PageRecord /\ cyc.status \in Statuses
        /\ cyc.listed \subseteq Games /\ IsFiniteSet(cyc.pages)
    BY DEF Shapes, CycleShape
  <1>4. \/ /\ next = 0
           /\ cyc' = [cyc EXCEPT !.pages = pages, !.status = status] /\ pc' = "receipt"
        \/ cyc' = [cyc EXCEPT !.pages = {}, !.status = "PROVIDER_ERROR"] /\ pc' = "receipt"
        \/ /\ cyc' = [cyc EXCEPT !.pages = pages, !.cursor = next, !.attempt = 0, !.seen = @ \cup {next}]
           /\ pc' = pc
    BY DEF Page, Fetched
  <1>5. IsFiniteSet(pages) /\ pages \subseteq PageRecord /\ IsFiniteSet({})
    BY <1>2, <1>3, FS_AddElement, FS_EmptySet
  <1>6. status \in Statuses /\ "PROVIDER_ERROR" \in Statuses \ Checked
        /\ (status \notin Checked => Full(pages) = {})
        /\ (status \in Checked /\ Now.feed \in {"games", "rosters"} => Full(pages) # {})
    BY DEF Attempt, Statuses, Checked
  <1>7. \A q \in cyc.pages : Read(q, Now.feed)
    BY <1>1 DEF Pages
  <1>8. pages # {} /\ \A q \in pages : Read(q, Now.feed)
    BY <1>2, <1>7
  <1>. HIDE DEF p, pages, status
  <1>9. /\ cyc' = [started |-> cyc.started, todo |-> cyc.todo, attempt |-> cyc'.attempt, cursor |-> cyc'.cursor,
                   seen |-> cyc'.seen, pages |-> cyc'.pages, status |-> cyc'.status, listed |-> cyc.listed]
        /\ cyc'.attempt \in Int /\ cyc'.cursor \in Int /\ cyc'.seen \subseteq Int
        /\ \/ cyc'.pages = pages /\ cyc'.status = status /\ pc' = "receipt"
           \/ cyc'.pages = {} /\ cyc'.status = "PROVIDER_ERROR" /\ pc' = "receipt"
           \/ cyc'.pages = pages /\ cyc'.status = cyc.status /\ pc' = "fetch"
    <2>1. CASE cyc' = [cyc EXCEPT !.pages = pages, !.status = status] /\ pc' = "receipt"
      BY <1>3, <2>1
    <2>2. CASE cyc' = [cyc EXCEPT !.pages = {}, !.status = "PROVIDER_ERROR"] /\ pc' = "receipt"
      BY <1>3, <2>2
    <2>3. CASE cyc' = [cyc EXCEPT !.pages = pages, !.cursor = next, !.attempt = 0, !.seen = @ \cup {next}]
               /\ pc' = pc
      <3>1. cyc' = [started |-> cyc.started, todo |-> cyc.todo, attempt |-> 0, cursor |-> next,
                    seen |-> cyc.seen \cup {next}, pages |-> pages, status |-> cyc.status, listed |-> cyc.listed]
        BY <1>3, <2>3
      <3>. QED
        BY <3>1, <1>1, <1>3, <2>3
    <2>. QED
      BY <1>4, <2>1, <2>2, <2>3
  <1>10. cyc'.todo = cyc.todo /\ cyc'.started = cyc.started /\ cyc'.listed = cyc.listed /\ Now' = Now
    BY <1>9 DEF Now
  <1>11. CycleShape'
    BY <1>3, <1>5, <1>6, <1>9, <1>10 DEF CycleShape
  <1>12. Shapes'
    BY <1>1, <1>5, <1>9, <1>10, <1>11 DEF Shapes, Working
  <1>13. Tables'
    BY <1>1 DEF Tables
  <1>14. Clocks'
    BY <1>1, <1>9, <1>10 DEF Clocks
  <1>15. Pages'
    <2>1. \A q \in cyc'.pages : Read(q, Now.feed)
      BY <1>8, <1>9
    <2>. QED
      BY <1>1, <1>10, <2>1 DEF Pages, Read
  <1>16. Judged'
    <2>1. Full(cyc.pages)' = Full(cyc'.pages)
      BY <1>1, <1>10 DEF Full
    <2>2. Full({}) = {}
      BY DEF Full
    <2>. QED
      BY <1>6, <1>8, <1>9, <1>10, <2>1, <2>2 DEF Judged
  <1>. QED
    BY <1>9, <1>10, <1>12, <1>13, <1>14, <1>15, <1>16

LEMMA FailKeeps ==
    ASSUME CollectionInv, NEW kind \in Faults, Fail(kind)
    PROVE  CollectionInv' /\ cyc'.todo = cyc.todo /\ cyc'.started = cyc.started /\ cyc'.listed = cyc.listed
           /\ pc' \in {"fetch", "receipt"}
  <1>. USE DEF CollectionInv
  <1>. DEFINE status == ClassifyException(kind)
  <1>1. pc = "fetch" /\ pc \in Working /\ UNCHANGED <<clock, feed, receipts, rows, runs>>
    BY DEF Fail, Working
  <1>3. /\ cyc = [started |-> cyc.started, todo |-> cyc.todo, attempt |-> cyc.attempt, cursor |-> cyc.cursor,
                  seen |-> cyc.seen, pages |-> cyc.pages, status |-> cyc.status, listed |-> cyc.listed]
        /\ cyc.started \in Int /\ cyc.todo \in Seq(Item) /\ cyc.attempt \in Int /\ cyc.cursor \in Int
        /\ cyc.seen \subseteq Int /\ cyc.pages \subseteq PageRecord /\ cyc.status \in Statuses
        /\ cyc.listed \subseteq Games /\ IsFiniteSet(cyc.pages)
    BY DEF Shapes, CycleShape
  <1>4. \/ cyc' = [cyc EXCEPT !.attempt = @ + 1] /\ pc' = pc
        \/ cyc' = [cyc EXCEPT !.pages = {}, !.status = status] /\ pc' = "receipt"
    BY DEF Fail, Fetched
  <1>5. status \in Statuses \ Checked
    BY DEF ClassifyException, Statuses, Checked
  <1>. HIDE DEF status
  <1>9. /\ cyc' = [started |-> cyc.started, todo |-> cyc.todo, attempt |-> cyc'.attempt, cursor |-> cyc.cursor,
                   seen |-> cyc.seen, pages |-> cyc'.pages, status |-> cyc'.status, listed |-> cyc.listed]
        /\ cyc'.attempt \in Int
        /\ \/ cyc'.pages = {} /\ cyc'.status = status /\ pc' = "receipt"
           \/ cyc'.pages = cyc.pages /\ cyc'.status = cyc.status /\ pc' = "fetch"
    <2>1. CASE cyc' = [cyc EXCEPT !.attempt = @ + 1] /\ pc' = pc
      BY <1>1, <1>3, <2>1
    <2>2. CASE cyc' = [cyc EXCEPT !.pages = {}, !.status = status] /\ pc' = "receipt"
      BY <1>3, <2>2
    <2>. QED
      BY <1>4, <2>1, <2>2
  <1>10. cyc'.todo = cyc.todo /\ cyc'.started = cyc.started /\ cyc'.listed = cyc.listed /\ Now' = Now
    BY <1>9 DEF Now
  <1>11. CycleShape'
    BY <1>3, <1>5, <1>9, <1>10 DEF CycleShape
  <1>12. Shapes'
    <2>1. IsFiniteSet(cyc'.pages)
      BY <1>3, <1>9, FS_EmptySet
    <2>. QED
      BY <1>1, <1>9, <1>10, <1>11, <2>1 DEF Shapes, Working
  <1>13. Tables'
    BY <1>1 DEF Tables
  <1>14. Clocks'
    BY <1>1, <1>9, <1>10 DEF Clocks
  <1>15. Pages'
    <2>1. \A q \in cyc'.pages : Read(q, Now.feed)
      BY <1>1, <1>9 DEF Pages
    <2>. QED
      BY <1>1, <1>10, <2>1 DEF Pages, Read
  <1>16. Judged'
    <2>1. Full(cyc.pages)' = Full(cyc'.pages)
      BY <1>1, <1>10 DEF Full
    <2>2. Full({}) = {}
      BY DEF Full
    <2>. QED
      BY <1>5, <1>9, <1>10, <2>1, <2>2 DEF Judged
  <1>. QED
    BY <1>9, <1>10, <1>12, <1>13, <1>14, <1>15, <1>16

\* The receipt of a fetch, and what it says of its pages.
LEMMA ReceiptIs ==
    ASSUME CollectionInv, RecordReceipt
    PROVE  /\ pc = "receipt" /\ receipts' = receipts \cup {ResourceRun}
           /\ UNCHANGED <<clock, feed, rows, runs, raw>>
           /\ ResourceRun.run = cyc.started /\ ResourceRun.feed = Now.feed
           /\ ResourceRun.scope = Now.scope /\ ResourceRun.status = cyc.status
           /\ ResourceRun.count \in Nat /\ (ResourceRun.count = 0 <=> Full(cyc.pages) = {})
           /\ cyc.status \in Checked => ResourceRun.received = clock
           /\ cyc.status \notin Checked => ResourceRun.count = 0
           /\ Now.feed \in Feeds /\ cyc.started \in Nat /\ cyc.started < clock
  <1>1. pc = "receipt" /\ pc \in Working /\ receipts' = receipts \cup {ResourceRun}
        /\ UNCHANGED <<clock, feed, rows, runs, raw>>
    BY DEF RecordReceipt, Working
  <1>2. Cardinality(Full(cyc.pages)) \in Nat /\ (Cardinality(Full(cyc.pages)) = 0 <=> Full(cyc.pages) = {})
    BY FullIsFinite DEF CollectionInv
  <1>3. /\ ResourceRun.run = cyc.started /\ ResourceRun.feed = Now.feed
        /\ ResourceRun.scope = Now.scope /\ ResourceRun.status = cyc.status
        /\ ResourceRun.count = Cardinality(Full(cyc.pages))
        /\ cyc.status \in Checked => ResourceRun.received = clock
    BY DEF ResourceRun
  <1>4. cyc.status \notin Checked => Full(cyc.pages) = {}
    BY <1>1 DEF CollectionInv, Judged
  <1>5. Now.feed \in Feeds
    BY <1>1, NowIsAnItem DEF CollectionInv
  <1>6. cyc.started \in Nat /\ cyc.started < clock
    BY <1>1 DEF CollectionInv, Clocks
  <1>. HIDE DEF ResourceRun
  <1>. QED
    BY <1>1, <1>2, <1>3, <1>4, <1>5, <1>6

LEMMA ReceiptKeeps ==
    ASSUME CollectionInv, RecordReceipt
    PROVE  CollectionInv'
  <1>. USE DEF CollectionInv
  <1>1. /\ pc = "receipt" /\ receipts' = receipts \cup {ResourceRun}
        /\ UNCHANGED <<clock, feed, rows, runs>>
        /\ ResourceRun.run = cyc.started /\ ResourceRun.feed \in Feeds /\ ResourceRun.count \in Nat
        /\ cyc.started \in Nat /\ cyc.started < clock
    BY ReceiptIs
  <1>. HIDE DEF ResourceRun
  <1>2. Tables'
    BY <1>1 DEF Tables
  <1>3. \A r \in receipts' : r.run < clock'
    BY <1>1 DEF Clocks
  <1>4. CASE Full(cyc.pages) # {} /\ pc' = "append" /\ UNCHANGED cyc
    <2>1. Now' = Now /\ Full(cyc.pages)' = Full(cyc.pages)
      BY <1>1, <1>4 DEF Now, Full
    <2>2. Shapes'
      BY <1>1, <1>4 DEF Shapes, CycleShape, Working
    <2>3. Clocks'
      BY <1>1, <1>3, <1>4 DEF Clocks
    <2>4. Pages'
      BY <1>1, <1>4, <2>1 DEF Pages, Read, Working
    <2>5. Judged'
      BY <1>1, <1>4, <2>1 DEF Judged
    <2>. QED
      BY <1>2, <2>2, <2>3, <2>4, <2>5
  <1>5. CASE Advance
    <2>1. /\ CycleShape' /\ IsFiniteSet(cyc'.pages) /\ cyc'.started = cyc.started /\ cyc'.pages = {}
          /\ pc' \in {"fetch", "finalize"} /\ (pc' \in Working <=> cyc'.todo # <<>>)
      BY <1>1, <1>5, AdvanceShape
    <2>2. Shapes'
      BY <1>1, <2>1 DEF Shapes, Working
    <2>3. Clocks'
      BY <1>1, <1>3, <2>1 DEF Clocks
    <2>4. Pages' /\ Judged'
      BY <2>1 DEF Pages, Judged
    <2>. QED
      BY <1>2, <2>2, <2>3, <2>4
  <1>. QED
    BY <1>4, <1>5 DEF RecordReceipt

\* A row is stamped no earlier than its page was received.
LEMMA StampIsLate ==
    ASSUME CollectionInv, pc \in Working, NEW p \in cyc.pages
    PROVE  Stamp(cyc.pages, p) \in Nat /\ p.at \in Nat /\ Stamp(cyc.pages, p) >= p.at
  <1>. DEFINE T == {q.at : q \in cyc.pages}
  <1>1. \A q \in cyc.pages : q.at \in Nat /\ q.at <= clock
    BY DEF CollectionInv, Shapes, CycleShape, PageRecord, Pages, Read
  <1>2. T \subseteq Nat /\ p.at \in T /\ \A y \in T : y <= clock
    BY <1>1
  <1>3. clock \in Nat
    BY DEF CollectionInv, Shapes
  <1>. HIDE DEF T
  <1>4. \E x \in T : \A y \in T : x >= y
    <2>1. \E x \in T : \A y \in T : y <= x
      BY <1>2, <1>3, GreatestExists
    <2>. QED
      BY <2>1, <1>2
  <1>5. Max(T) \in T /\ \A y \in T : Max(T) >= y
    BY <1>4 DEF Max
  <1>6. Stamp(cyc.pages, p) = IF Now.feed \in Paged THEN Max(T) ELSE p.at
    BY DEF Stamp, T
  <1>7. p.at \in Nat /\ Max(T) \in Nat /\ Max(T) >= p.at /\ p.at >= p.at
    <2>1. p.at \in Nat /\ p.at >= p.at
      BY <1>1
    <2>2. Max(T) \in Nat /\ Max(T) >= p.at
      BY <1>2, <1>5
    <2>. QED
      BY <2>1, <2>2
  <1>. QED
    BY <1>6, <1>7

\* The row of a page with content.
RowOf(p) == [run |-> cyc.started, feed |-> Now.feed, scope |-> Now.scope, v |-> p.v,
             at |-> Stamp(cyc.pages, p)]

\* The rows of a fetch: one for every page with content, none too early.
LEMMA RowsAre ==
    ASSUME CollectionInv, AppendRows
    PROVE  /\ pc = "append" /\ Full(cyc.pages) # {} /\ Advance
           /\ UNCHANGED <<clock, feed, receipts, runs, raw>>
           /\ \A r \in rows' : r \in rows \/ \E p \in Full(cyc.pages) : r = RowOf(p)
           /\ rows \subseteq rows' /\ \A p \in Full(cyc.pages) : RowOf(p) \in rows'
           /\ \A p \in Full(cyc.pages) :
                 LET r == RowOf(p) IN
                 /\ r.run = cyc.started /\ r.feed = Now.feed /\ r.scope = Now.scope /\ r.v = p.v
                 /\ r.v \in 1..Len(feed[r.feed]) /\ feed[r.feed][r.v].since <= r.at
           /\ Now.feed \in Feeds /\ cyc.started \in Nat /\ cyc.started < clock
  <1>1. /\ pc = "append" /\ pc \in Working /\ Advance /\ UNCHANGED <<clock, feed, receipts, runs, raw>>
        /\ rows' = rows \cup {RowOf(p) : p \in Full(cyc.pages)}
    BY DEF AppendRows, Working, RowOf
  <1>2. Full(cyc.pages) # {}
    BY <1>1 DEF CollectionInv, Judged
  <1>3. Now.feed \in Feeds
    BY <1>1, NowIsAnItem DEF CollectionInv
  <1>4. cyc.started \in Nat /\ cyc.started < clock
    BY <1>1 DEF CollectionInv, Clocks
  <1>5. ASSUME NEW p \in Full(cyc.pages)
        PROVE  LET r == RowOf(p) IN
                 /\ r.run = cyc.started /\ r.feed = Now.feed /\ r.scope = Now.scope /\ r.v = p.v
                 /\ r.v \in 1..Len(feed[r.feed]) /\ feed[r.feed][r.v].since <= r.at
    <2>1. p \in cyc.pages
      BY DEF Full
    <2>2. p.v \in 1..Len(feed[Now.feed]) /\ feed[Now.feed][p.v].since <= p.at
      BY <2>1, <1>1 DEF CollectionInv, Pages, Read
    <2>3. Stamp(cyc.pages, p) \in Nat /\ p.at \in Nat /\ Stamp(cyc.pages, p) >= p.at
      BY <2>1, <1>1, StampIsLate
    <2>4. feed[Now.feed][p.v].since \in Nat
      <3>1. feed[Now.feed] \in Seq(Showing)
        BY <1>3 DEF CollectionInv, Shapes
      <3>2. feed[Now.feed][p.v] \in Showing
        BY <3>1, <2>2
      <3>. QED
        BY <3>2 DEF Showing
    <2>5. feed[Now.feed][p.v].since <= Stamp(cyc.pages, p)
      BY <2>2, <2>3, <2>4
    <2>6. /\ RowOf(p).run = cyc.started /\ RowOf(p).feed = Now.feed /\ RowOf(p).scope = Now.scope
          /\ RowOf(p).v = p.v /\ RowOf(p).at = Stamp(cyc.pages, p)
      BY DEF RowOf
    <2>. QED
      BY <2>2, <2>5, <2>6
  <1>. QED
    BY <1>1, <1>2, <1>3, <1>4, <1>5

LEMMA AppendKeeps ==
    ASSUME CollectionInv, AppendRows
    PROVE  CollectionInv'
  <1>. USE DEF CollectionInv
  <1>1. /\ pc = "append" /\ Advance /\ UNCHANGED <<clock, feed, receipts, runs>>
        /\ Now.feed \in Feeds /\ cyc.started \in Nat /\ cyc.started < clock
        /\ \A r \in rows' : \/ r \in rows
                            \/ r.run = cyc.started /\ r.feed = Now.feed /\ r.v \in 1..Len(feed[r.feed])
    BY RowsAre
  <1>2. Tables'
    BY <1>1 DEF Tables
  <1>3. \A r \in rows' : r.run < clock'
    BY <1>1 DEF Clocks
  <1>4. /\ CycleShape' /\ IsFiniteSet(cyc'.pages) /\ cyc'.started = cyc.started /\ cyc'.pages = {}
        /\ pc' \in {"fetch", "finalize"} /\ (pc' \in Working <=> cyc'.todo # <<>>)
    BY <1>1, AdvanceShape
  <1>5. Shapes'
    BY <1>1, <1>4 DEF Shapes, Working
  <1>6. Clocks'
    BY <1>1, <1>3, <1>4 DEF Clocks
  <1>7. Pages' /\ Judged'
    BY <1>4 DEF Pages, Judged
  <1>. QED
    BY <1>2, <1>5, <1>6, <1>7

\* A cycle ends, by its last record or by a kill.
LEMMA EndKeeps ==
    ASSUME CollectionInv, RecordTrigger \/ Kill
    PROVE  CollectionInv' /\ pc' = "idle"
  <1>. USE DEF CollectionInv
  <1>1. pc' = "idle" /\ cyc' = Idle /\ pc # "idle" /\ UNCHANGED <<clock, feed, receipts, rows, runs>>
    BY DEF RecordTrigger, Kill
  <1>2. CycleShape' /\ cyc'.todo = <<>> /\ cyc'.pages = {}
    <2>1. None \in Int /\ <<>> \in Seq(Item) /\ {} \in SUBSET Games
      BY EmptySeq DEF None
    <2>. DEFINE todo == <<>>
                listed == {}
    <2>2. None \in Int /\ todo \in Seq(Item) /\ listed \in SUBSET Games
      BY <2>1
    <2>3. cyc' = Ask(None, todo, listed)
      BY <1>1 DEF Idle
    <2>4. todo = <<>>
      OBVIOUS
    <2>. HIDE DEF todo, listed
    <2>5. CycleShape' /\ cyc'.todo = todo /\ cyc'.pages = {}
      BY <2>2, <2>3, AskShape DEF CycleShape
    <2>. QED
      BY <2>4, <2>5
  <1>3. Shapes'
    BY <1>1, <1>2, FS_EmptySet DEF Shapes, Working
  <1>4. Tables'
    BY <1>1 DEF Tables
  <1>5. Clocks'
    BY <1>1 DEF Clocks
  <1>6. Pages' /\ Judged'
    BY <1>1 DEF Pages, Judged, Working
  <1>. QED
    BY <1>1, <1>3, <1>4, <1>5, <1>6

LEMMA StartKeeps ==
    ASSUME CollectionInv, Start
    PROVE  /\ CollectionInv' /\ pc' = "fetch" /\ cyc'.todo = <<OfWeek("games")>>
           /\ cyc'.started = clock + 1 /\ clock \in Nat
           /\ UNCHANGED <<feed, receipts, rows, runs, raw>>
  <1>. USE DEF CollectionInv
  <1>1. /\ pc = "idle" /\ pc' = "fetch" /\ clock' = clock + 2 /\ UNCHANGED <<feed, receipts, rows, runs, raw>>
        /\ cyc' = Ask(clock + 1, <<OfWeek("games")>>, {}) /\ clock \in Nat
    BY DEF Start, Later, Shapes
  <1>2. CycleShape' /\ cyc'.todo = <<OfWeek("games")>> /\ cyc'.pages = {} /\ cyc'.started = clock + 1
    <2>1. OfWeek("games") \in Item
      BY DEF OfWeek, Item, Feeds, Scopes
    <2>2. clock + 1 \in Int /\ <<OfWeek("games")>> \in Seq(Item) /\ {} \in SUBSET Games
      BY <1>1, <2>1
    <2>. DEFINE todo == <<OfWeek("games")>>
                listed == {}
                started == clock + 1
    <2>3. started \in Int /\ todo \in Seq(Item) /\ listed \in SUBSET Games
      BY <2>2
    <2>4. cyc' = Ask(started, todo, listed)
      BY <1>1
    <2>. HIDE DEF todo, listed, started
    <2>5. CycleShape' /\ cyc'.todo = todo /\ cyc'.pages = {} /\ cyc'.started = started
      BY <2>3, <2>4, AskShape DEF CycleShape
    <2>. QED
      BY <2>5 DEF todo, started
  <1>3. Shapes'
    <2>1. cyc'.todo # <<>> /\ IsFiniteSet(cyc'.pages)
      BY <1>2, FS_EmptySet
    <2>2. \A f \in Feeds : \A i \in 1..Len(feed[f]) : feed[f][i].since \in Nat
      <3>1. \A f \in Feeds : feed[f] \in Seq(Showing)
        BY DEF Shapes
      <3>2. \A f \in Feeds : \A i \in 1..Len(feed[f]) : feed[f][i] \in Showing
        BY <3>1
      <3>. QED
        BY <3>2 DEF Showing
    <2>. QED
      BY <1>1, <1>2, <2>1, <2>2 DEF Shapes, Working
  <1>4. Tables'
    BY <1>1 DEF Tables
  <1>5. Clocks'
    <2>1. \A r \in receipts \cup rows : r.run \in Nat
      BY DEF Tables
    <2>2. \A c \in runs : c.completed \in Nat
      BY DEF Tables
    <2>. QED
      BY <1>1, <1>2, <2>1, <2>2 DEF Clocks
  <1>6. Pages' /\ Judged'
    BY <1>1, <1>2 DEF Pages, Judged
  <1>. QED
    BY <1>1, <1>2, <1>3, <1>4, <1>5, <1>6

LEMMA FinalizeKeeps ==
    ASSUME CollectionInv, Finalize
    PROVE  CollectionInv' /\ pc = "finalize" /\ UNCHANGED <<clock, feed, cyc, receipts, rows, raw>>
           /\ runs' = runs \cup {[started |-> cyc.started, completed |-> clock, status |-> CycleStatus]}
  <1>. USE DEF CollectionInv
  <1>1. /\ pc = "finalize" /\ pc' = "trigger" /\ UNCHANGED <<clock, feed, cyc, receipts, rows, raw>>
        /\ runs' = runs \cup {[started |-> cyc.started, completed |-> clock, status |-> CycleStatus]}
    BY DEF Finalize
  <1>2. clock \in Nat /\ cyc.started \in Nat /\ 0 < cyc.started /\ cyc.started < clock
        /\ \A c \in runs : c.completed < cyc.started /\ c.completed \in Nat /\ c.started \in Nat
    BY <1>1 DEF Clocks, Shapes, Tables
  <1>. DEFINE new == [started |-> cyc.started, completed |-> clock, status |-> CycleStatus]
  <1>3. new.started = cyc.started /\ new.completed = clock /\ runs' = runs \cup {new}
    BY <1>1
  <1>. HIDE DEF new
  <1>4. Shapes'
    BY <1>1 DEF Shapes, CycleShape, Working
  <1>5. Tables'
    BY <1>1, <1>2, <1>3 DEF Tables
  <1>6. Clocks'
    <2>1. \A c, d \in runs' : c = d \/ c.completed < d.started \/ d.completed < c.started
      BY <1>1, <1>2, <1>3 DEF Clocks
    <2>2. \A c \in runs' : 0 < c.started /\ c.started < c.completed /\ c.completed <= clock'
      BY <1>1, <1>2, <1>3 DEF Clocks
    <2>. QED
      BY <1>1, <2>1, <2>2 DEF Clocks
  <1>7. Pages' /\ Judged'
    BY <1>1 DEF Pages, Judged, Working
  <1>. QED
    BY <1>1, <1>4, <1>5, <1>6, <1>7

\* Every other step leaves the cycle and the tables alone.
LEMMA StepsOfACycle ==
    ASSUME [Next]_vars
    PROVE  \/ Beside \/ Start
           \/ \E next \in Cursors \cup 0..Cardinality(Games) : Page(next)
           \/ \E kind \in Faults : Fail(kind)
           \/ RecordReceipt \/ AppendRows \/ Finalize \/ RecordTrigger \/ Kill
  <1>1. CASE UNCHANGED vars
    BY <1>1 DEF Beside, vars
  <1>2. CASE Housekeeping
    BY <1>2 DEF Beside, Housekeeping
  <1>3. CASE HousekeepingKilled
    <2>1. UNCHANGED <<pc, cyc, receipts, rows, runs>>
      BY <1>3 DEF HousekeepingKilled
    <2>. QED
      BY <2>1 DEF Beside
  <1>4. CASE Wait \/ Discover
    BY <1>4 DEF Beside, Wait, Discover
  <1>5. CASE \E f \in Changing, content \in SUBSET Games : Publish(f, content)
    BY <1>5 DEF Beside, Publish
  <1>. QED
    BY <1>1, <1>2, <1>3, <1>4, <1>5 DEF Next, Collect

LEMMA CollectionInvHolds ==
    /\ Init => CollectionInv
    /\ CollectionInv /\ [Next]_vars => CollectionInv'
  <1>1. ASSUME Init
        PROVE  CollectionInv
    <2>1. /\ clock = 0 /\ pc = "idle" /\ cyc = Idle /\ receipts = {} /\ rows = {} /\ runs = {}
      BY <1>1 DEF Init
    <2>2. PICK empty \in SUBSET Empty :
            feed = [f \in Feeds |-> <<[content |-> IF f \in empty THEN {} ELSE Games, since |-> 0]>>]
      BY <1>1 DEF Init
    <2>3. \A f \in Feeds : /\ feed[f] \in Seq(Showing) /\ Len(feed[f]) = 1
                           /\ feed[f][1].since = 0
      BY <2>2 DEF Showing
    <2>4. feed \in [Feeds -> Seq(Showing)]
      BY <2>2, <2>3
    <2>5. CycleShape /\ cyc.todo = <<>> /\ cyc.pages = {}
      <3>1. None \in Int /\ <<>> \in Seq(Item) /\ {} \in SUBSET Games
        BY EmptySeq DEF None
      <3>. DEFINE todo == <<>>
                  listed == {}
      <3>2. None \in Int /\ todo \in Seq(Item) /\ listed \in SUBSET Games
        BY <3>1
      <3>3. cyc = Ask(None, todo, listed)
        BY <2>1 DEF Idle
      <3>4. todo = <<>>
        OBVIOUS
      <3>. HIDE DEF todo, listed
      <3>5. CycleShape /\ cyc.todo = todo /\ cyc.pages = {}
        BY <3>2, <3>3, AskShape DEF CycleShape
      <3>. QED
        BY <3>4, <3>5
    <2>6. Shapes
      BY <2>1, <2>3, <2>4, <2>5, FS_EmptySet DEF Shapes, Working
    <2>. QED
      BY <2>1, <2>6 DEF CollectionInv, Tables, Clocks, Pages, Judged, Working
  <1>2. ASSUME CollectionInv, [Next]_vars
        PROVE  CollectionInv'
    <2>1. \A next \in Cursors \cup 0..Cardinality(Games) : next \in Int
      BY RetentionOrder, GamesAssumption, FS_CardinalityType
    <2>. QED
      BY <1>2, <2>1, StepsOfACycle, BesideKeeps, StartKeeps, PageKeeps, FailKeeps, ReceiptKeeps, AppendKeeps,
         FinalizeKeeps, EndKeeps
  <1>. QED
    BY <1>1, <1>2

-----------------------------------------------------------------------------
(* Rows and receipts tell the truth about the provider. *)

LEMMA WhoWrites ==
    ASSUME [Next]_vars
    PROVE  /\ rows' = rows \/ AppendRows
           /\ receipts' = receipts \/ RecordReceipt
           /\ runs' = runs \/ Finalize
  <1>1. Beside \/ Start \/ RecordTrigger \/ Kill => UNCHANGED <<rows, receipts, runs>>
    BY DEF Beside, Start, RecordTrigger, Kill
  <1>2. \A next : Page(next) => UNCHANGED <<rows, receipts, runs>>
    BY DEF Page
  <1>3. \A kind : Fail(kind) => UNCHANGED <<rows, receipts, runs>>
    BY DEF Fail
  <1>4. RecordReceipt => UNCHANGED <<rows, runs>>
    BY DEF RecordReceipt
  <1>5. AppendRows => UNCHANGED <<receipts, runs>>
    BY DEF AppendRows
  <1>6. Finalize => UNCHANGED <<receipts, rows>>
    BY DEF Finalize
  <1>. QED
    BY <1>1, <1>2, <1>3, <1>4, <1>5, <1>6, StepsOfACycle

LEMMA FeedsStand ==
    ASSUME CollectionInv, [Next]_vars, NEW f \in Feeds
    PROVE  /\ DOMAIN feed[f] = 1..Len(feed[f]) /\ DOMAIN feed'[f] = 1..Len(feed'[f])
           /\ Len(feed[f]) \in Nat /\ Len(feed'[f]) \in Nat /\ Len(feed[f]) <= Len(feed'[f])
           /\ \A i \in 1..Len(feed[f]) : i \in 1..Len(feed'[f]) /\ feed'[f][i] = feed[f][i]
           /\ \A i \in 1..Len(feed'[f]) : feed'[f][i] \in Showing /\ feed'[f][i].since \in Nat
           /\ Len(feed[f]) < Len(feed'[f]) => feed'[f][Len(feed[f]) + 1].since >= clock
           /\ clock \in Nat
  <1>1. feed[f] \in Seq(Showing) /\ feed'[f] \in Seq(Showing) /\ clock \in Nat
    BY FeedsGrow DEF CollectionInv, Shapes
  <1>2. /\ DOMAIN feed[f] = 1..Len(feed[f]) /\ DOMAIN feed'[f] = 1..Len(feed'[f])
        /\ Len(feed[f]) \in Nat /\ Len(feed'[f]) \in Nat
        /\ \A i \in 1..Len(feed'[f]) : feed'[f][i] \in Showing
    BY <1>1
  <1>3. \A x \in Showing : x.since \in Nat
    BY DEF Showing
  <1>4. /\ Len(feed[f]) <= Len(feed'[f])
        /\ \A i \in 1..Len(feed[f]) : feed'[f][i] = feed[f][i]
        /\ Len(feed[f]) < Len(feed'[f]) => feed'[f][Len(feed[f]) + 1].since >= clock
    BY FeedsGrow DEF CollectionInv
  <1>. QED
    BY <1>1, <1>2, <1>3, <1>4

LEMMA RowsStayTrue ==
    ASSUME CollectionInv, NothingBeforeItWasShown, [Next]_vars
    PROVE  NothingBeforeItWasShown'
  <1>1. SUFFICES ASSUME NEW r \in rows'
                 PROVE  feed'[r.feed][r.v].since <= r.at
    BY DEF NothingBeforeItWasShown
  <1>2. CASE r \in rows
    <2>1. r.feed \in Feeds /\ r.v \in 1..Len(feed[r.feed])
      BY <1>2 DEF CollectionInv, Tables
    <2>2. feed'[r.feed][r.v] = feed[r.feed][r.v]
      BY <2>1, FeedsStand
    <2>. QED
      BY <1>2, <2>2 DEF NothingBeforeItWasShown
  <1>3. CASE r \notin rows
    <2>1. AppendRows
      BY <1>1, <1>3, WhoWrites
    <2>2. PICK p \in Full(cyc.pages) : r = RowOf(p)
      BY <1>1, <1>3, <2>1, RowsAre
    <2>. QED
      BY <2>1, <2>2, RowsAre
  <1>. QED
    BY <1>2, <1>3

\* The feed had nothing for the scope at the moment that one of its versions
\* was current in the cycle.
Absent(r) ==
    \E i \in DOMAIN feed[r.feed] :
        /\ ~Holds(r.feed, r.scope, feed[r.feed][i].content)
        /\ feed[r.feed][i].since <= r.received
        /\ i < Len(feed[r.feed]) => feed[r.feed][i + 1].since >= r.run

LEMMA ReceiptsStayTrue ==
    ASSUME CollectionInv, AbsenceIsObserved, [Next]_vars
    PROVE  AbsenceIsObserved'
  <1>1. SUFFICES ASSUME NEW r \in receipts', r.status \in Checked, r.count = 0
                 PROVE  Absent(r)'
    BY DEF AbsenceIsObserved, Absent
  <1>2. CASE r \in receipts
    <2>1. r.feed \in Feeds /\ r.run \in Nat /\ r.run < clock
      BY <1>2 DEF CollectionInv, Tables, Clocks
    <2>. DEFINE f == r.feed
    <2>2. PICK i \in 1..Len(feed[f]) :
            /\ ~Holds(f, r.scope, feed[f][i].content)
            /\ feed[f][i].since <= r.received
            /\ i < Len(feed[f]) => feed[f][i + 1].since >= r.run
      BY <1>1, <1>2, <2>1, FeedsStand DEF AbsenceIsObserved
    <2>3. i \in DOMAIN feed'[f] /\ feed'[f][i] = feed[f][i]
      BY <2>1, FeedsStand
    <2>4. ASSUME i < Len(feed'[f])
          PROVE  feed'[f][i + 1].since >= r.run
      <3>1. CASE i < Len(feed[f])
        <4>1. i + 1 \in 1..Len(feed[f])
          BY <2>1, <3>1, FeedsStand
        <4>. QED
          BY <2>1, <2>2, <3>1, <4>1, FeedsStand
      <3>2. CASE i = Len(feed[f])
        <4>1. i + 1 \in 1..Len(feed'[f]) /\ feed'[f][i + 1].since >= clock
          BY <2>1, <2>4, <3>2, FeedsStand
        <4>2. feed'[f][i + 1].since \in Nat /\ clock \in Nat
          BY <2>1, <4>1, FeedsStand
        <4>. QED
          BY <2>1, <4>1, <4>2
      <3>. QED
        BY <2>1, <3>1, <3>2, FeedsStand
    <2>. QED
      BY <2>2, <2>3, <2>4 DEF Absent
  <1>3. CASE r \notin receipts
    <2>1. RecordReceipt
      BY <1>1, <1>3, WhoWrites
    <2>. DEFINE f == Now.feed
    <2>2. /\ pc = "receipt" /\ pc \in Working /\ UNCHANGED <<clock, feed>> /\ r = ResourceRun
          /\ r.run = cyc.started /\ r.feed = f /\ r.scope = Now.scope /\ r.status = cyc.status
          /\ Full(cyc.pages) = {} /\ cyc.status \in Checked /\ r.received = clock /\ f \in Feeds
      BY <1>1, <1>3, <2>1, ReceiptIs DEF Working
    <2>3. PICK p \in cyc.pages : TRUE
      BY <2>2 DEF CollectionInv, Judged
    <2>4. Read(p, f) /\ p.v \in Nat /\ p.at \in Nat
      BY <2>2 DEF CollectionInv, Pages, Shapes, CycleShape, PageRecord
    <2>5. ~Holds(f, r.scope, feed[f][p.v].content)
      BY <2>2 DEF Full
    <2>6. p.v \in DOMAIN feed[f] /\ feed[f][p.v].since \in Nat
          /\ (p.v < Len(feed[f]) => feed[f][p.v + 1].since \in Nat)
      <3>1. p.v \in 1..Len(feed[f]) /\ Len(feed[f]) \in Nat /\ feed' = feed
        BY <2>2, <2>4, FeedsStand DEF Read
      <3>2. p.v < Len(feed[f]) => p.v + 1 \in 1..Len(feed[f])
        BY <3>1, <2>4
      <3>. QED
        BY <2>2, <3>1, <3>2, FeedsStand
    <2>7. cyc.started \in Nat /\ clock \in Nat
      BY <2>2 DEF CollectionInv, Clocks, Shapes
    <2>8. feed[f][p.v].since <= clock
      BY <2>4, <2>6, <2>7 DEF Read
    <2>9. p.v < Len(feed[f]) => feed[f][p.v + 1].since >= cyc.started
      BY <2>4, <2>6, <2>7 DEF Read
    <2>. HIDE DEF f
    <2>. QED
      BY <2>2, <2>5, <2>6, <2>8, <2>9 DEF Absent
  <1>. QED
    BY <1>2, <1>3

TellTheTruth == CollectionInv /\ NothingBeforeItWasShown /\ AbsenceIsObserved

LEMMA TablesTellTheTruth == Spec => []TellTheTruth
  <1>1. Init => TellTheTruth
    <2>1. Init => rows = {} /\ receipts = {}
      BY DEF Init
    <2>. QED
      BY <2>1, CollectionInvHolds DEF TellTheTruth, NothingBeforeItWasShown, AbsenceIsObserved
  <1>2. TellTheTruth /\ [Next]_vars => TellTheTruth'
    BY CollectionInvHolds, RowsStayTrue, ReceiptsStayTrue DEF TellTheTruth
  <1>. QED
    BY <1>1, <1>2, PTL DEF Spec

\* No row says it was available before the provider showed its content,
\* whatever the provider changes between two pages, whatever fails or is
\* retried, and wherever a cycle is killed (collection/service.py, _attempt).
THEOREM RowsAreNotBeforeTheirContent == Spec => []NothingBeforeItWasShown
  BY TablesTellTheTruth, PTL DEF TellTheTruth

\* A feed recorded as observed and empty was empty at some moment of its cycle:
\* neither an error, nor a cursor that repeats, nor a timeout between two pages
\* passes for an absence (collection/service.py, _classify_exception).
THEOREM AbsencesWereObserved == Spec => []AbsenceIsObserved
  BY TablesTellTheTruth, PTL DEF TellTheTruth

-----------------------------------------------------------------------------
(* The payload store. *)

Object(o) ==
    /\ o = [files |-> o.files, born |-> o.born, received |-> o.received]
    /\ o.born \in Nat /\ o.received \in Int

Objects == raw = [id \in DOMAIN raw |-> raw[id]] /\ \A id \in DOMAIN raw : Object(raw[id])

\* A payload is written: no object loses one.
LEMMA StoredObjects ==
    ASSUME Objects, NEW id, NEW at \in Nat, NEW files, raw' = Stored(id, at, files)
    PROVE  Objects' /\ \A x \in DOMAIN raw : x \in DOMAIN raw' /\ Payload(raw[x]) \subseteq Payload(raw'[x])
  <1>. DEFINE new == Written(id, at, files)
  <1>1. raw' = [x \in DOMAIN raw \cup {id} |-> IF x = id THEN new ELSE raw[x]]
    BY DEF Stored
  <1>2. Object(new) /\ (id \in DOMAIN raw => raw[id].files \subseteq new.files)
    <2>1. CASE id \notin DOMAIN raw
      <3>1. new = [files |-> files, born |-> at, received |-> IF "meta" \in files THEN at ELSE None]
        BY <2>1 DEF Written
      <3>. HIDE DEF new
      <3>. QED
        BY <2>1, <3>1 DEF Object, None
    <2>2. CASE id \in DOMAIN raw
      <3>. DEFINE kept == raw[id].files \cup (files \cap {"meta"})
                          \cup IF Payload(raw[id]) = {} THEN {"zst"} ELSE {}
                  got == IF "meta" \in raw[id].files THEN raw[id].received
                         ELSE IF "meta" \in files THEN at ELSE None
      <3>1. new = [files |-> kept, born |-> raw[id].born, received |-> got]
        BY <2>2 DEF Written
      <3>2. raw[id].born \in Nat /\ got \in Int /\ raw[id].files \subseteq kept
        BY <2>2 DEF Objects, Object, None
      <3>. HIDE DEF new, kept, got
      <3>. QED
        BY <3>1, <3>2 DEF Object
    <2>. QED
      BY <2>1, <2>2
  <1>. HIDE DEF new
  <1>. QED
    BY <1>1, <1>2 DEF Objects, Payload

\* A batch of payloads is converted: no object loses one, and an object that
\* has no metadata becomes no older.
LEMMA CompressedObjects ==
    ASSUME Objects, clock \in Nat, NEW unlink \in BOOLEAN, NEW id \in DOMAIN raw
    PROVE  LET store == Compressed(raw, unlink) IN
           /\ store = [x \in DOMAIN raw |-> store[x]] /\ DOMAIN store = DOMAIN raw
           /\ Object(store[id])
           /\ Payload(raw[id]) # {} => Payload(store[id]) # {}
           /\ store[id].received = raw[id].received
           /\ store[id].born \in {raw[id].born, clock}
  <1>. DEFINE o == raw[id]
              files == (o.files \cup {"zst"}) \ (IF unlink THEN {"json"} ELSE {})
              born == IF unlink /\ "meta" \notin o.files THEN clock ELSE o.born
              store == Compressed(raw, unlink)
  <1>1. Object(o)
    BY DEF Objects
  <1>2. /\ store = [x \in DOMAIN raw |-> store[x]] /\ DOMAIN store = DOMAIN raw
        /\ store[id] = IF "json" \notin o.files THEN o
                       ELSE [o EXCEPT !.files = (@ \cup {"zst"}) \ (IF unlink THEN {"json"} ELSE {}),
                                      !.born = IF unlink /\ "meta" \notin o.files THEN clock ELSE @]
    BY DEF Compressed
  <1>3. store[id] = o \/ ("json" \in o.files
                          /\ store[id] = [files |-> files, born |-> born, received |-> o.received])
    <2>. DEFINE first == [o EXCEPT !.files = files]
    <2>1. first = [files |-> files, born |-> o.born, received |-> o.received]
      BY <1>1 DEF Object
    <2>2. "json" \in o.files => store[id] = [first EXCEPT !.born = born]
      BY <1>1, <1>2 DEF Object
    <2>. HIDE DEF first, store, files, born
    <2>. QED
      BY <1>2, <2>1, <2>2
  <1>4. born \in Nat /\ born \in {o.born, clock} /\ "zst" \in files
    BY <1>1 DEF Object
  <1>. HIDE DEF files, born, store, o
  <1>5. /\ Object(store[id]) /\ (Payload(o) # {} => Payload(store[id]) # {})
        /\ store[id].received = o.received /\ store[id].born \in {o.born, clock}
    BY <1>1, <1>3, <1>4 DEF Object, Payload
  <1>. QED
    BY <1>2, <1>5 DEF store, o

\* A payload that is lost was too old, whatever the windows say of its receipt.
LEMMA ExpiredIsOld ==
    ASSUME CollectionInv, NEW o, Object(o), NEW s, Object(s), s.received = o.received,
           s.born \in {o.born, clock}, Expired(s)
    PROVE  /\ clock - o.born > Keep
           /\ (/\ \E r \in runs : r.status # "SUCCESS" /\ o.received \in r.started..r.completed
               => clock - o.received > Cap)
  <1>1. clock \in Nat /\ o.born \in Nat /\ s.born \in Nat /\ o.received \in Int /\ Keep \in Nat /\ Cap \in Nat
    BY RetentionOrder DEF CollectionInv, Shapes, Object
  <1>2. clock - s.born > Keep /\ clock - Since(s) > Limit(s)
    BY DEF Expired
  <1>3. clock - o.born > Keep
    BY <1>1, <1>2
  <1>4. ASSUME NEW r \in runs, r.status # "SUCCESS", o.received \in r.started..r.completed
        PROVE  clock - o.received > Cap
    <2>1. r.started \in Nat /\ r.completed \in Nat /\ 0 < r.started
      BY <1>4 DEF CollectionInv, Tables, Clocks
    <2>2. r.started <= s.received /\ s.received <= r.completed
      BY <1>1, <1>4, <2>1
    <2>3. s.received # None
      BY <2>1, <2>2, <1>1 DEF None
    <2>4. <<r.started, r.completed>> \in FailedWindows
      BY <1>4 DEF FailedWindows
    <2>5. Within(s.received, FailedWindows)
      BY <2>2, <2>4 DEF Within
    <2>6. ~Within(s.received, OkWindows)
      <3>1. SUFFICES ASSUME NEW d \in runs, d.status = "SUCCESS", d.started <= s.received,
                            s.received <= d.completed
                     PROVE  FALSE
        BY DEF Within, OkWindows
      <3>2. r.completed < d.started \/ d.completed < r.started
        BY <1>4, <3>1 DEF CollectionInv, Clocks
      <3>3. d.started \in Nat /\ d.completed \in Nat
        BY <3>1 DEF CollectionInv, Tables
      <3>. QED
        BY <1>1, <2>1, <2>2, <3>1, <3>2, <3>3
    <2>7. Limit(s) = Cap /\ Since(s) = s.received
      BY <2>3, <2>5, <2>6 DEF Limit, Since
    <2>. QED
      BY <1>2, <2>7
  <1>. QED
    BY <1>3, <1>4

\* The step that EvidenceExpires forbids the rest of.
Expires ==
    \A id \in DOMAIN raw :
          (/\ Payload(raw[id]) # {}
           /\ id \in DOMAIN raw' => Payload(raw'[id]) = {})
          => /\ clock - raw[id].born > Keep
             /\ (/\ \E r \in runs : /\ r.status # "SUCCESS"
                                     /\ raw[id].received \in r.started..r.completed
                 => clock - raw[id].received > Cap)

LEMMA HousekeepingExpires ==
    ASSUME CollectionInv, Objects, Housekeeping \/ HousekeepingKilled
    PROVE  Objects' /\ Expires
  <1>. DEFINE full == Compressed(raw, TRUE)
  <1>1. clock \in Nat
    BY DEF CollectionInv, Shapes
  <1>2. \A unlink \in BOOLEAN :
           /\ \A id \in DOMAIN raw :
                /\ Object(Compressed(raw, unlink)[id])
                /\ Payload(raw[id]) # {} => Payload(Compressed(raw, unlink)[id]) # {}
                /\ Compressed(raw, unlink)[id].received = raw[id].received
                /\ Compressed(raw, unlink)[id].born \in {raw[id].born, clock}
           /\ DOMAIN Compressed(raw, unlink) = DOMAIN raw
           /\ Compressed(raw, unlink) = [x \in DOMAIN raw |-> Compressed(raw, unlink)[x]]
    <2>1. \A unlink \in BOOLEAN, id \in DOMAIN raw :
                /\ Object(Compressed(raw, unlink)[id])
                /\ Payload(raw[id]) # {} => Payload(Compressed(raw, unlink)[id]) # {}
                /\ Compressed(raw, unlink)[id].received = raw[id].received
                /\ Compressed(raw, unlink)[id].born \in {raw[id].born, clock}
      BY <1>1, CompressedObjects
    <2>2. \A unlink \in BOOLEAN :
           /\ DOMAIN Compressed(raw, unlink) = DOMAIN raw
           /\ Compressed(raw, unlink) = [x \in DOMAIN raw |-> Compressed(raw, unlink)[x]]
      BY DEF Compressed
    <2>. QED
      BY <2>1, <2>2
  <1>3. \A id \in DOMAIN raw : Expired(full[id]) =>
             /\ clock - raw[id].born > Keep
             /\ (/\ \E r \in runs : r.status # "SUCCESS" /\ raw[id].received \in r.started..r.completed
                 => clock - raw[id].received > Cap)
    <2>1. SUFFICES ASSUME NEW id \in DOMAIN raw, Expired(full[id])
                   PROVE  /\ clock - raw[id].born > Keep
                          /\ (/\ \E r \in runs : r.status # "SUCCESS" /\ raw[id].received \in r.started..r.completed
                              => clock - raw[id].received > Cap)
      OBVIOUS
    <2>2. Object(raw[id])
      BY DEF Objects
    <2>3. Object(full[id]) /\ full[id].received = raw[id].received /\ full[id].born \in {raw[id].born, clock}
      BY <1>2
    <2>. HIDE DEF full
    <2>. QED
      BY <2>1, <2>2, <2>3, ExpiredIsOld
  <1>4. /\ DOMAIN full = DOMAIN raw /\ full = [x \in DOMAIN raw |-> full[x]]
        /\ \A id \in DOMAIN raw : Object(full[id]) /\ (Payload(raw[id]) # {} => Payload(full[id]) # {})
    BY <1>2
  <1>5. CASE Housekeeping
    <2>1. raw' = [id \in DOMAIN full \ ExpiredIn(full) |-> full[id]]
      BY <1>5 DEF Housekeeping, Pruned
    <2>. HIDE DEF full
    <2>2. \A id \in DOMAIN raw : id \notin DOMAIN raw' => Expired(full[id])
      BY <1>4, <2>1 DEF ExpiredIn
    <2>3. DOMAIN raw' \subseteq DOMAIN raw /\ \A id \in DOMAIN raw' : raw'[id] = full[id]
      BY <1>4, <2>1
    <2>4. Objects'
      BY <1>4, <2>1, <2>3 DEF Objects
    <2>5. Expires
      BY <1>3, <1>4, <2>2, <2>3 DEF Expires
    <2>. QED
      BY <2>4, <2>5
  <1>6. CASE raw' = Compressed(raw, FALSE)
    <2>. DEFINE half == Compressed(raw, FALSE)
    <2>1. /\ DOMAIN half = DOMAIN raw /\ half = [x \in DOMAIN raw |-> half[x]]
          /\ \A id \in DOMAIN raw : Object(half[id]) /\ (Payload(raw[id]) # {} => Payload(half[id]) # {})
      BY <1>2
    <2>2. raw' = half
      BY <1>6
    <2>. HIDE DEF half
    <2>. QED
      BY <2>1, <2>2 DEF Objects, Expires
  <1>7. ASSUME NEW id \in ExpiredIn(full), NEW left,
               raw' = [full EXCEPT ![id].files = left,
                                   ![id].received = IF "meta" \in left THEN @ ELSE None]
        PROVE  Objects' /\ Expires
    <2>1. id \in DOMAIN raw /\ Expired(full[id])
      BY <1>4 DEF ExpiredIn
    <2>. DEFINE got == IF "meta" \in left THEN full[id].received ELSE None
                first == [full EXCEPT ![id].files = left]
                o == full[id]
    <2>. HIDE DEF full
    <2>2. /\ DOMAIN first = DOMAIN raw /\ first = [x \in DOMAIN raw |-> first[x]]
          /\ \A x \in DOMAIN raw \ {id} : first[x] = full[x]
          /\ first[id] = [files |-> left, born |-> o.born, received |-> o.received]
      <3>1. first = [x \in DOMAIN raw |-> IF x = id THEN [full[id] EXCEPT !.files = left] ELSE full[x]]
        BY <1>4, <2>1
      <3>2. [o EXCEPT !.files = left] = [files |-> left, born |-> o.born, received |-> o.received]
        BY <1>4, <2>1 DEF Object
      <3>. HIDE DEF first
      <3>. QED
        BY <2>1, <3>1, <3>2
    <2>3. raw' = [first EXCEPT ![id].received = got]
      BY <1>7, <1>4, <2>1, <2>2
    <2>. HIDE DEF first, got
    <2>4. /\ DOMAIN raw' = DOMAIN raw /\ raw' = [x \in DOMAIN raw |-> raw'[x]]
          /\ \A x \in DOMAIN raw \ {id} : raw'[x] = full[x]
          /\ raw'[id] = [files |-> left, born |-> o.born, received |-> got]
      BY <2>1, <2>2, <2>3
    <2>5. Object(raw'[id])
      <3>1. o.born \in Nat /\ got \in Int
        BY <1>4, <2>1 DEF Object, None, got
      <3>. HIDE DEF o
      <3>. QED
        BY <2>4, <3>1 DEF Object
    <2>6. Objects'
      BY <1>4, <2>4, <2>5 DEF Objects
    <2>7. Expires
      BY <1>3, <1>4, <2>1, <2>4 DEF Expires
    <2>. QED
      BY <2>6, <2>7
  <1>. QED
    BY <1>5, <1>6, <1>7 DEF HousekeepingKilled

LEMMA ObjectsExpire ==
    ASSUME CollectionInv, Objects, [Next]_vars
    PROVE  Objects' /\ [Expires]_vars
  <1>1. clock \in Nat /\ clock' \in Nat
    BY FeedsGrow DEF CollectionInv, Shapes
  <1>2. ASSUME NEW id, NEW at \in Nat, NEW files, raw' = Stored(id, at, files)
        PROVE  Objects' /\ Expires
    BY <1>2, StoredObjects DEF Expires
  <1>3. raw' = raw => Objects' /\ Expires
    BY DEF Objects, Expires
  <1>4. CASE UNCHANGED vars
    BY <1>3, <1>4 DEF vars
  <1>5. CASE Housekeeping \/ HousekeepingKilled
    BY <1>5, HousekeepingExpires
  <1>6. CASE Kill
    BY <1>1, <1>2, <1>3, <1>6 DEF Kill
  <1>7. CASE Discover
    BY <1>1, <1>2, <1>7 DEF Discover, WriteJson
  <1>8. ASSUME NEW next, Page(next)
        PROVE  Objects' /\ Expires
    BY <1>1, <1>2, <1>8 DEF Page, WriteJson
  <1>9. ASSUME NEW kind, Fail(kind)
        PROVE  Objects' /\ Expires
    BY <1>1, <1>2, <1>3, <1>9 DEF Fail, WriteJson
  <1>10. CASE \E f \in Changing, content \in SUBSET Games : Publish(f, content)
    BY <1>3, <1>10 DEF Publish
  <1>11. CASE Start \/ Wait
    BY <1>3, <1>11 DEF Start, Wait
  <1>12. CASE RecordReceipt \/ AppendRows
    BY <1>3, <1>12 DEF RecordReceipt, AppendRows
  <1>13. CASE Finalize \/ RecordTrigger
    BY <1>3, <1>13 DEF Finalize, RecordTrigger
  <1>. QED
    BY <1>4, <1>5, <1>6, <1>7, <1>8, <1>9, <1>10, <1>11, <1>12, <1>13 DEF Next, Collect

\* No step of the system takes the last copy of a payload before its time: not
\* a conversion killed half-way, not a prune killed half-way, and not the prune
\* of what a failed cycle received before Cap (platform/storage_guard.py).
THEOREM PayloadsOutliveTheirCycles == Spec => EvidenceExpires
  <1>. DEFINE Inv == CollectionInv /\ Objects
  <1>1. Init => Inv
    <2>1. Init => Objects
      <3>1. ASSUME Init
            PROVE  Objects
        <4>1. PICK files \in {{"json", "meta"}, {"json"}} :
                 raw = [id \in {[feed |-> "games", scope |-> "season", cursor |-> 0, body |-> <<"legacy">>]} |->
                   [files |-> files, born |-> 0, received |-> IF "meta" \in files THEN 0 ELSE None]]
          BY <3>1 DEF Init
        <4>. QED
          BY <4>1 DEF Objects, Object, None
      <3>. QED
        BY <3>1
    <2>. QED
      BY <2>1, CollectionInvHolds
  <1>2. Inv /\ [Next]_vars => Inv' /\ [Expires]_vars
    BY CollectionInvHolds, ObjectsExpire
  <1>. HIDE DEF Inv
  <1>3. Spec => [][Expires]_vars
    BY <1>1, <1>2, PTL DEF Spec
  <1>. QED
    BY <1>3 DEF EvidenceExpires, Expires

-----------------------------------------------------------------------------
(* The row of a cycle vouches for the rest of it. *)

Same(a, b) == a.feed = b.feed /\ a.scope = b.scope
Own == {q \in rows : q.run = cyc.started}
Listed(stored) == UNION {feed["games"][q.v].content : q \in {r \in stored : r.feed = "games"}}
Needed(games) == {OfWeek(f) : f \in {"rosters", "injuries", "odds"}}
                 \cup {[feed |-> "props", scope |-> g] : g \in games}
Running == pc \in Working \cup {"finalize"}

\* What is still to be asked for has neither a receipt nor rows, but for the
\* receipt that is written before its rows; every other receipt has its rows.
Ledger ==
    Running =>
        /\ \A i, j \in DOMAIN cyc.todo : cyc.todo[i] = cyc.todo[j] => i = j
        /\ \A i \in DOMAIN cyc.todo : \A r \in Mine : Same(r, cyc.todo[i]) => pc = "append" /\ i = 1
        /\ \A i \in DOMAIN cyc.todo : \A q \in Own : ~Same(q, cyc.todo[i])
        /\ \A r \in Mine : IF pc = "append" /\ Same(r, Now) THEN r.count > 0
                           ELSE r.count > 0 <=> \E q \in Own : Same(q, r)
        /\ pc = "append" => \E r \in Mine : Same(r, Now)

\* First the games; then, when they were observed, all that depends on them.
GamesFirst ==
    /\ cyc.todo = <<OfWeek("games")>>
    /\ Own = {}
    /\ pc # "append" => Mine = {}
    /\ \A r \in Mine : r.feed = "games" /\ r.status \in Checked

ThenTheRest ==
    /\ \E r \in Mine : r.feed = "games"
    /\ \A i \in DOMAIN cyc.todo : cyc.todo[i].feed # "games"
    /\ \/ /\ cyc.todo = <<>>
          /\ \A r \in Mine : r.feed = "games"
          /\ \E r \in Mine : r.status \notin Checked
       \/ /\ \A r \in Mine : r.feed = "games" => r.status \in Checked
          /\ cyc.listed = Listed(Own) /\ cyc.listed # {}
          /\ \A d \in Needed(cyc.listed) : \/ \E i \in DOMAIN cyc.todo : cyc.todo[i] = d
                                           \/ \E r \in Mine : Same(r, d)

Agenda ==
    Running => IF pc \in Working /\ Now.feed = "games" THEN GamesFirst ELSE ThenTheRest

Whole(c) ==
    LET mine == {r \in receipts : r.run = c.started}
        stored == {r \in rows : r.run = c.started}
        complete == /\ \A f \in Feeds : \E r \in mine : r.feed = f
                    /\ \A g \in Listed(stored) : \E r \in mine : r.feed = "props" /\ r.scope = g
                    /\ \A r \in mine : r.status \in Checked
    IN  /\ \A r \in mine :
             r.count > 0 <=> \E q \in stored : q.feed = r.feed /\ q.scope = r.scope
        /\ c.status = "SUCCESS" <=> complete

CycleInv == Ledger /\ Agenda /\ \A c \in runs : Whole(c)

\* An item of the agenda is its feed and its scope.
LEMMA SameItem ==
    ASSUME NEW a \in Item, NEW b \in Item, Same(a, b)
    PROVE  a = b
  BY DEF Item, Same

\* The next resource: what was asked for is written down, the rest is left.
LEMMA AdvanceInv ==
    ASSUME CollectionInv, Ledger, Agenda, pc \in {"receipt", "append"}, Advance, feed' = feed,
           \E r \in Mine' : Same(r, Now),
           Mine \subseteq Mine', \A r \in Mine' : r \in Mine \/ Same(r, Now),
           Own \subseteq Own', \A q \in Own' : q \in Own \/ Same(q, Now),
           \A r \in Mine' : r.count > 0 <=> \E q \in Own' : Same(q, r),
           Now.feed = "games" =>
              /\ \A r \in Mine' : r.feed = "games" /\ (r.status \in Checked <=> cyc.status \in Checked)
              /\ cyc.status \in Checked => Listed(Own)' = Contents(cyc.pages) /\ Full(cyc.pages) # {}
    PROVE  Ledger' /\ Agenda'
  <1>1. pc \in Working /\ Running
    BY DEF Working, Running
  <1>2. /\ cyc'.started = cyc.started /\ CycleShape'
        /\ pc' \in {"fetch", "finalize"} /\ (pc' \in Working <=> cyc'.todo # <<>>)
        /\ cyc'.listed = IF Now.feed = "games" THEN Contents(cyc.pages) ELSE cyc.listed
        /\ cyc'.todo = IF Now.feed # "games" THEN Tail(cyc.todo)
                       ELSE IF cyc.status \in Checked THEN Dependents(cyc'.listed) ELSE <<>>
    BY AdvanceShape DEF CollectionInv
  <1>3. Now \in Item /\ Now = cyc.todo[1] /\ 1 \in DOMAIN cyc.todo
    BY <1>1, NowIsAnItem DEF CollectionInv
  <1>4. cyc.todo \in Seq(Item) /\ cyc.todo # <<>> /\ cyc'.todo \in Seq(Item)
        /\ cyc'.listed \in SUBSET Games
    BY <1>1, <1>2 DEF CollectionInv, Shapes, CycleShape
  <1>5. cyc'.todo # <<>> => Now' = cyc'.todo[1] /\ 1 \in DOMAIN cyc'.todo
    BY <1>4 DEF Now
  <1>6. CASE Now.feed # "games"
    <2>1. ThenTheRest
      BY <1>1, <1>6 DEF Agenda
    <2>2. cyc'.todo = Tail(cyc.todo) /\ cyc'.listed = cyc.listed
      BY <1>2, <1>6
    <2>3. /\ \A i \in DOMAIN cyc'.todo : i \in Nat /\ i + 1 \in DOMAIN cyc.todo /\ i + 1 # 1
                                         /\ cyc'.todo[i] = cyc.todo[i + 1]
          /\ \A i \in DOMAIN cyc.todo : i = 1 \/ (i - 1 \in DOMAIN cyc'.todo /\ cyc'.todo[i - 1] = cyc.todo[i])
      BY <1>4, <2>2
    <2>4. \A i \in DOMAIN cyc.todo : cyc.todo[i] \in Item
      BY <1>4
    <2>5. \A i \in DOMAIN cyc'.todo : ~Same(Now, cyc'.todo[i])
      BY <1>1, <1>3, <2>3, <2>4, SameItem DEF Ledger
    <2>6. \A i, j \in DOMAIN cyc'.todo : cyc'.todo[i] = cyc'.todo[j] => i = j
      <3>1. ASSUME NEW i \in DOMAIN cyc'.todo, NEW j \in DOMAIN cyc'.todo, cyc'.todo[i] = cyc'.todo[j]
            PROVE  i = j
        <4>1. i + 1 = j + 1
          BY <1>1, <2>3, <3>1 DEF Ledger
        <4>. QED
          BY <4>1, <2>3
      <3>. QED
        BY <3>1
    <2>7. \A i \in DOMAIN cyc'.todo : \A r \in Mine' : ~Same(r, cyc'.todo[i])
      <3>1. ASSUME NEW i \in DOMAIN cyc'.todo, NEW r \in Mine', Same(r, cyc'.todo[i])
            PROVE  FALSE
        <4>1. CASE r \in Mine
          BY <1>1, <2>3, <3>1, <4>1 DEF Ledger
        <4>2. CASE Same(r, Now)
          BY <2>5, <3>1, <4>2 DEF Same
        <4>. QED
          BY <4>1, <4>2
      <3>. QED
        BY <3>1
    <2>8. \A i \in DOMAIN cyc'.todo : \A q \in Own' : ~Same(q, cyc'.todo[i])
      <3>1. ASSUME NEW i \in DOMAIN cyc'.todo, NEW q \in Own', Same(q, cyc'.todo[i])
            PROVE  FALSE
        <4>1. CASE q \in Own
          BY <1>1, <2>3, <3>1, <4>1 DEF Ledger
        <4>2. CASE Same(q, Now)
          BY <2>5, <3>1, <4>2 DEF Same
        <4>. QED
          BY <4>1, <4>2
      <3>. QED
        BY <3>1
    <2>9. Ledger'
      BY <1>2, <2>6, <2>7, <2>8 DEF Ledger, Same
    <2>10. \A i \in DOMAIN cyc'.todo : cyc'.todo[i].feed # "games"
      BY <2>1, <2>3 DEF ThenTheRest
    <2>11. \A d : (\E r \in Mine : Same(r, d)) => \E r \in Mine' : Same(r, d)
      OBVIOUS
    <2>12. ThenTheRest'
      <3>1. \A r \in Mine : r.feed = "games" => r.status \in Checked
        BY <2>1, <1>4 DEF ThenTheRest
      <3>2. /\ cyc.listed = Listed(Own) /\ cyc.listed # {}
            /\ \A d \in Needed(cyc.listed) : \/ \E i \in DOMAIN cyc.todo : cyc.todo[i] = d
                                             \/ \E r \in Mine : Same(r, d)
        BY <2>1, <1>4 DEF ThenTheRest
      <3>3. \E r \in Mine' : r.feed = "games"
        BY <2>1 DEF ThenTheRest
      <3>4. \A r \in Mine' : r.feed = "games" => r.status \in Checked
        BY <3>1, <1>6 DEF Same
      <3>5. Listed(Own)' = Listed(Own)
        <4>1. {q \in Own' : q.feed = "games"} = {q \in Own : q.feed = "games"}
          BY <1>6 DEF Same
        <4>. QED
          BY <4>1 DEF Listed
      <3>6. ASSUME NEW d \in Needed(cyc.listed)
            PROVE  \/ \E i \in DOMAIN cyc'.todo : cyc'.todo[i] = d
                   \/ \E r \in Mine' : Same(r, d)
        <4>1. CASE \E r \in Mine : Same(r, d)
          BY <4>1, <2>11
        <4>2. ASSUME NEW i \in DOMAIN cyc.todo, cyc.todo[i] = d
              PROVE  \/ \E k \in DOMAIN cyc'.todo : cyc'.todo[k] = d
                     \/ \E r \in Mine' : Same(r, d)
          <5>1. CASE i = 1
            BY <1>3, <4>2, <5>1
          <5>2. CASE i # 1
            BY <2>3, <4>2, <5>2
          <5>. QED
            BY <5>1, <5>2
        <4>. QED
          BY <3>2, <4>1, <4>2
      <3>7. \A d \in Needed(cyc'.listed) : \/ \E i \in DOMAIN cyc'.todo : cyc'.todo[i] = d
                                           \/ \E r \in Mine' : Same(r, d)
        <4>1. Needed(cyc'.listed) = Needed(cyc.listed)
          BY <2>2 DEF Needed
        <4>. QED
          BY <4>1, <3>6
      <3>8. cyc'.listed = Listed(Own)' /\ cyc'.listed # {}
        BY <2>2, <3>2, <3>5
      <3>. QED
        BY <2>10, <3>3, <3>4, <3>7, <3>8 DEF ThenTheRest, Same
    <2>13. pc' \in Working => (Now.feed)' # "games"
      BY <1>2, <1>5, <2>10
    <2>. QED
      BY <2>9, <2>12, <2>13 DEF Agenda
  <1>7. CASE Now.feed = "games"
    <2>1. GamesFirst
      BY <1>1, <1>7 DEF Agenda
    <2>2. /\ \A r \in Mine' : r.feed = "games" /\ (r.status \in Checked <=> cyc.status \in Checked)
          /\ cyc.status \in Checked => Listed(Own)' = Contents(cyc.pages) /\ Full(cyc.pages) # {}
          /\ cyc'.listed = Contents(cyc.pages)
      BY <1>2, <1>7
    <2>3. \A q \in Own' : q.feed = "games"
      BY <1>7, <2>1 DEF GamesFirst, Same
    <2>4. \E r \in Mine' : r.feed = "games"
      BY <1>7 DEF Same
    <2>5. CASE cyc.status \in Checked
      <3>. DEFINE d == Dependents(cyc'.listed)
      <3>1. cyc'.todo = d
        BY <1>2, <1>7, <2>5
      <3>2. /\ \A i, j \in DOMAIN d : d[i] = d[j] => i = j
            /\ \A i \in DOMAIN d : d[i].feed # "games"
            /\ \A f \in {"rosters", "injuries", "odds"} : \E i \in DOMAIN d : d[i] = OfWeek(f)
            /\ \A g \in cyc'.listed : \E i \in DOMAIN d : d[i] = [feed |-> "props", scope |-> g]
            /\ d # <<>>
        BY <1>4, DependentsShape
      <3>. HIDE DEF d
      <3>3. Ledger'
        BY <1>2, <2>2, <2>3, <3>1, <3>2 DEF Ledger, Same
      <3>4. cyc'.listed # {}
        <4>1. PICK p \in cyc.pages : Holds(Now.feed, Now.scope, feed[Now.feed][p.v].content)
          BY <2>2, <2>5 DEF Full
        <4>2. feed[Now.feed][p.v].content # {}
          BY <4>1, <1>7 DEF Holds
        <4>. QED
          BY <2>2, <4>2 DEF Contents
      <3>5. \A e \in Needed(cyc'.listed) : \E i \in DOMAIN d : d[i] = e
        BY <3>2 DEF Needed
      <3>6. ThenTheRest'
        BY <2>2, <2>4, <2>5, <3>1, <3>2, <3>4, <3>5 DEF ThenTheRest
      <3>7. (Now.feed)' # "games"
        BY <1>5, <3>1, <3>2
      <3>. QED
        BY <3>3, <3>6, <3>7 DEF Agenda
    <2>6. CASE cyc.status \notin Checked
      <3>1. cyc'.todo = <<>> /\ pc' = "finalize" /\ DOMAIN cyc'.todo = {}
        BY <1>2, <1>7, <2>6 DEF Working
      <3>2. Ledger'
        BY <3>1 DEF Ledger, Same
      <3>3. ThenTheRest'
        BY <2>2, <2>4, <2>6, <3>1 DEF ThenTheRest
      <3>. QED
        BY <3>1, <3>2, <3>3 DEF Agenda, Working
    <2>. QED
      BY <2>5, <2>6
  <1>. QED
    BY <1>6, <1>7

LEMMA OnlyNowIsAsked ==
    ASSUME CollectionInv, Ledger, pc \in Working, NEW i \in DOMAIN cyc.todo, Same(Now, cyc.todo[i])
    PROVE  i = 1
  <1>1. Now \in Item /\ Now = cyc.todo[1] /\ 1 \in DOMAIN cyc.todo
    BY NowIsAnItem DEF CollectionInv
  <1>2. cyc.todo[i] \in Item
    BY DEF CollectionInv, Shapes, CycleShape
  <1>3. cyc.todo[i] = cyc.todo[1]
    BY <1>1, <1>2, SameItem
  <1>. QED
    BY <1>1, <1>3 DEF Ledger, Running

\* A receipt, and the rows that follow it.
LEMMA ReceiptInv ==
    ASSUME CollectionInv, Ledger, Agenda, RecordReceipt
    PROVE  Ledger' /\ Agenda'
  <1>. DEFINE new == ResourceRun
  <1>1. /\ pc = "receipt" /\ receipts' = receipts \cup {new} /\ UNCHANGED <<clock, feed, rows, runs>>
        /\ new.run = cyc.started /\ new.feed = Now.feed /\ new.scope = Now.scope
        /\ new.status = cyc.status
        /\ new.count \in Nat /\ (new.count = 0 <=> Full(cyc.pages) = {})
        /\ (cyc.status \notin Checked => new.count = 0)
    BY ReceiptIs
  <1>. HIDE DEF new
  <1>2. pc \in Working /\ Running
    BY <1>1 DEF Working, Running
  <1>3. /\ Now \in Item /\ Now = cyc.todo[1] /\ 1 \in DOMAIN cyc.todo
    BY <1>2, NowIsAnItem DEF CollectionInv
  <1>4. /\ \A i \in DOMAIN cyc.todo : \A r \in Mine : ~Same(r, cyc.todo[i])
        /\ \A i \in DOMAIN cyc.todo : \A q \in Own : ~Same(q, cyc.todo[i])
        /\ \A r \in Mine : r.count > 0 <=> \E q \in Own : Same(q, r)
    BY <1>1, <1>2 DEF Ledger
  <1>5. Same(new, Now) /\ \A r \in Mine \cup Own : ~Same(r, Now)
    BY <1>1, <1>3, <1>4 DEF Same
  <1>6. CASE Full(cyc.pages) # {} /\ pc' = "append" /\ UNCHANGED cyc
    <2>1. Mine' = Mine \cup {new} /\ Own' = Own /\ Now' = Now
      BY <1>1, <1>6 DEF Mine, Own, Now
    <2>2. new.count > 0 /\ cyc.status \in Checked
      BY <1>1, <1>6
    <2>3. ASSUME NEW i \in DOMAIN cyc.todo, NEW r \in Mine', Same(r, cyc.todo[i])
          PROVE  i = 1
      <3>1. r = new
        BY <1>4, <2>1, <2>3
      <3>2. Same(Now, cyc.todo[i])
        BY <1>5, <2>3, <3>1 DEF Same
      <3>. QED
        BY <1>2, <3>2, OnlyNowIsAsked
    <2>4. \A r \in Mine' : IF Same(r, Now) THEN r.count > 0 ELSE r.count > 0 <=> \E q \in Own : Same(q, r)
      BY <1>4, <1>5, <2>1, <2>2
    <2>5. \A i, j \in DOMAIN cyc.todo : cyc.todo[i] = cyc.todo[j] => i = j
      BY <1>2 DEF Ledger
    <2>6. Ledger'
      BY <1>4, <1>5, <1>6, <2>1, <2>3, <2>4, <2>5 DEF Ledger, Same
    <2>7. CASE Now.feed = "games"
      <3>1. GamesFirst
        BY <1>2, <2>7 DEF Agenda
      <3>2. GamesFirst'
        BY <1>1, <1>6, <2>1, <2>2, <2>7, <3>1 DEF GamesFirst
      <3>. QED
        BY <1>6, <2>1, <2>6, <2>7, <3>2 DEF Agenda, Working
    <2>8. CASE Now.feed # "games"
      <3>1. ThenTheRest
        BY <1>2, <2>8 DEF Agenda
      <3>2. Listed(Own)' = Listed(Own)
        BY <1>1, <2>1 DEF Listed
      <3>3. cyc.todo # <<>>
        BY <1>2 DEF CollectionInv, Shapes
      <3>4. ThenTheRest'
        <4>1. /\ \A r \in Mine : r.feed = "games" => r.status \in Checked
              /\ cyc.listed = Listed(Own) /\ cyc.listed # {}
              /\ \A d \in Needed(cyc.listed) : \/ \E i \in DOMAIN cyc.todo : cyc.todo[i] = d
                                               \/ \E r \in Mine : Same(r, d)
              /\ \E r \in Mine : r.feed = "games"
              /\ \A i \in DOMAIN cyc.todo : cyc.todo[i].feed # "games"
          BY <3>1, <3>3 DEF ThenTheRest
        <4>2. \A r \in Mine' : r.feed = "games" => r.status \in Checked
          BY <1>1, <2>1, <2>8, <4>1
        <4>3. cyc' = cyc /\ Needed(cyc'.listed) = Needed(cyc.listed)
          BY <1>6 DEF Needed
        <4>4. \A d \in Needed(cyc.listed) : \/ \E i \in DOMAIN cyc.todo : cyc.todo[i] = d
                                            \/ \E r \in Mine' : Same(r, d)
          BY <2>1, <4>1
        <4>. QED
          BY <2>1, <3>2, <4>1, <4>2, <4>3, <4>4 DEF ThenTheRest, Same
      <3>. QED
        BY <1>6, <2>1, <2>6, <2>8, <3>4 DEF Agenda, Working
    <2>. QED
      BY <2>7, <2>8
  <1>7. CASE Full(cyc.pages) = {} /\ Advance
    <2>1. cyc'.started = cyc.started
      BY <1>1, <1>7, AdvanceShape DEF CollectionInv
    <2>2. Mine' = Mine \cup {new} /\ Own' = Own
      BY <1>1, <2>1 DEF Mine, Own
    <2>3. ~(new.count > 0)
      BY <1>1, <1>7
    <2>4. \A r \in Mine' : r.count > 0 <=> \E q \in Own' : Same(q, r)
      BY <1>4, <1>5, <2>2, <2>3 DEF Same
    <2>5. ASSUME Now.feed = "games"
          PROVE  /\ \A r \in Mine' : r.feed = "games" /\ (r.status \in Checked <=> cyc.status \in Checked)
                 /\ cyc.status \notin Checked
      <3>1. GamesFirst
        BY <1>2, <2>5 DEF Agenda
      <3>2. Mine' = {new}
        BY <1>1, <2>2, <3>1 DEF GamesFirst
      <3>3. cyc.status \notin Checked
        BY <1>1, <1>7, <2>5 DEF CollectionInv, Judged
      <3>. QED
        BY <1>1, <2>5, <3>2, <3>3
    <2>. QED
      BY <1>1, <1>5, <1>7, <2>2, <2>4, <2>5, AdvanceInv
  <1>. QED
    BY <1>6, <1>7 DEF RecordReceipt

LEMMA AppendInv ==
    ASSUME CollectionInv, Ledger, Agenda, AppendRows
    PROVE  Ledger' /\ Agenda'
  <1>1. /\ pc = "append" /\ Full(cyc.pages) # {} /\ Advance /\ UNCHANGED <<clock, feed, receipts, runs>>
        /\ \A r \in rows' : r \in rows \/ \E p \in Full(cyc.pages) : r = RowOf(p)
        /\ rows \subseteq rows' /\ \A p \in Full(cyc.pages) : RowOf(p) \in rows'
        /\ \A p \in Full(cyc.pages) : /\ RowOf(p).run = cyc.started /\ RowOf(p).feed = Now.feed
                                      /\ RowOf(p).scope = Now.scope /\ RowOf(p).v = p.v
    BY RowsAre
  <1>2. pc \in Working /\ Running
    BY <1>1 DEF Working, Running
  <1>3. cyc'.started = cyc.started
    BY <1>1, AdvanceShape DEF CollectionInv
  <1>4. Mine' = Mine
    BY <1>1, <1>3 DEF Mine
  <1>5. /\ Own \subseteq Own' /\ \A q \in Own' : q \in Own \/ Same(q, Now)
        /\ \A p \in Full(cyc.pages) : RowOf(p) \in Own' /\ Same(RowOf(p), Now)
    BY <1>1, <1>3 DEF Own, Same
  <1>6. \E q \in Own' : Same(q, Now)
    BY <1>1, <1>5
  <1>7. \E r \in Mine : Same(r, Now)
    BY <1>1, <1>2 DEF Ledger
  <1>8. ASSUME NEW r \in Mine
        PROVE  r.count > 0 <=> \E q \in Own' : Same(q, r)
    <2>1. CASE Same(r, Now)
      BY <1>1, <1>2, <1>6, <2>1 DEF Ledger, Same
    <2>2. CASE ~Same(r, Now)
      BY <1>2, <1>5, <2>2 DEF Ledger, Same
    <2>. QED
      BY <2>1, <2>2
  <1>9. ASSUME Now.feed = "games"
        PROVE  /\ \A r \in Mine : r.feed = "games" /\ r.status \in Checked
               /\ Listed(Own)' = Contents(cyc.pages) /\ cyc.status \in Checked
    <2>1. GamesFirst
      BY <1>2, <1>9 DEF Agenda
    <2>2. cyc.status \in Checked
      BY <1>1 DEF CollectionInv, Judged
    <2>3. Own' = {RowOf(p) : p \in Full(cyc.pages)}
      <3>1. Own = {}
        BY <2>1 DEF GamesFirst
      <3>2. \A q \in Own' : q \in rows'
        BY DEF Own
      <3>3. \A q \in Own' : q \notin rows
        BY <1>3, <3>1 DEF Own
      <3>. QED
        BY <1>1, <1>5, <3>2, <3>3
    <2>4. {q \in Own' : q.feed = "games"} = {RowOf(p) : p \in Full(cyc.pages)}
      BY <1>1, <1>9, <2>3
    <2>. DEFINE content(v) == feed["games"][v].content
    <2>5. Listed(Own)' = UNION {content(q.v) : q \in {RowOf(p) : p \in Full(cyc.pages)}}
      BY <1>1, <2>4 DEF Listed
    <2>6. Contents(cyc.pages) = UNION {content(p.v) : p \in cyc.pages}
      BY <1>9 DEF Contents
    <2>7. \A p \in cyc.pages : p \in Full(cyc.pages) \/ content(p.v) = {}
      BY <1>9 DEF Full, Holds
    <2>8. \A p \in Full(cyc.pages) : p \in cyc.pages /\ RowOf(p).v = p.v
      BY <1>1 DEF Full
    <2>. HIDE DEF content
    <2>9. Listed(Own)' = Contents(cyc.pages)
      BY <2>5, <2>6, <2>7, <2>8
    <2>. QED
      BY <2>1, <2>2, <2>9 DEF GamesFirst
  <1>. QED
    BY <1>1, <1>4, <1>5, <1>7, <1>8, <1>9, AdvanceInv

\* Steps that write neither a receipt nor a row, nor move on: pages, failures
\* and what happens beside the cycle.
LEMMA InPlaceInv ==
    ASSUME CollectionInv, Ledger, Agenda, [Next]_vars, UNCHANGED <<receipts, rows>>,
           cyc'.todo = cyc.todo, cyc'.started = cyc.started, cyc'.listed = cyc.listed,
           pc' = pc \/ (pc = "fetch" /\ pc' \in {"fetch", "receipt"})
    PROVE  Ledger' /\ Agenda'
  <1>1. Mine' = Mine /\ Own' = Own /\ Now' = Now
    BY DEF Mine, Own, Now
  <1>2. (pc' = "append" <=> pc = "append") /\ (pc' \in Working <=> pc \in Working)
        /\ (Running' <=> Running)
    BY DEF Working, Running
  <1>3. Ledger'
    BY <1>1, <1>2 DEF Ledger, Same
  <1>4. Listed(Own)' = Listed(Own)
    <2>1. \A q \in {r \in Own : r.feed = "games"} : feed'["games"][q.v].content = feed["games"][q.v].content
      <3>1. ASSUME NEW q \in Own, q.feed = "games"
            PROVE  feed'["games"][q.v] = feed["games"][q.v]
        <4>1. "games" \in Feeds /\ q.v \in 1..Len(feed["games"])
          BY <3>1 DEF CollectionInv, Tables, Own, Feeds
        <4>. QED
          BY <4>1, FeedsStand
      <3>. QED
        BY <3>1
    <2>. QED
      BY <1>1, <2>1 DEF Listed
  <1>5. GamesFirst => GamesFirst'
    BY <1>1, <1>2 DEF GamesFirst
  <1>6. ThenTheRest => ThenTheRest'
    <2>1. Needed(cyc'.listed) = Needed(cyc.listed)
      BY DEF Needed
    <2>. QED
      BY <1>1, <1>4, <2>1 DEF ThenTheRest, Same
  <1>. QED
    BY <1>1, <1>2, <1>3, <1>5, <1>6 DEF Agenda

LEMMA StartInv ==
    ASSUME CollectionInv, Start
    PROVE  Ledger' /\ Agenda'
  <1>1. /\ pc' = "fetch" /\ cyc'.todo = <<OfWeek("games")>> /\ cyc'.started = clock + 1 /\ clock \in Nat
        /\ UNCHANGED <<feed, receipts, rows>>
    BY StartKeeps
  <1>2. \A r \in receipts \cup rows : r.run \in Nat /\ r.run < clock
    BY DEF CollectionInv, Tables, Clocks
  <1>3. Mine' = {} /\ Own' = {}
    BY <1>1, <1>2 DEF Mine, Own
  <1>4. /\ (Now.feed)' = "games" /\ DOMAIN cyc'.todo = {1}
    BY <1>1 DEF Now, OfWeek
  <1>5. Ledger'
    BY <1>1, <1>3, <1>4 DEF Ledger
  <1>6. GamesFirst'
    BY <1>1, <1>3 DEF GamesFirst
  <1>. QED
    BY <1>1, <1>4, <1>5, <1>6 DEF Agenda, Working

\* The row written at the end, from what the agenda has left.
LEMMA FinishedIsWhole ==
    ASSUME CollectionInv, Ledger, Agenda, Finalize,
           NEW c, c.started = cyc.started, c.status = CycleStatus
    PROVE  Whole(c)
  <1>1. pc = "finalize" /\ pc \notin Working /\ Running /\ pc # "append"
    BY DEF Finalize, Working, Running
  <1>2. cyc.todo = <<>> /\ DOMAIN cyc.todo = {}
    BY <1>1 DEF CollectionInv, Shapes
  <1>3. ThenTheRest /\ \A r \in Mine : r.count > 0 <=> \E q \in Own : Same(q, r)
    BY <1>1 DEF Agenda, Ledger
  <1>4. {r \in receipts : r.run = c.started} = Mine /\ {r \in rows : r.run = c.started} = Own
    BY DEF Mine, Own
  <1>5. \A r \in Mine : r.feed \in Feeds
    BY DEF CollectionInv, Tables, Mine
  <1>. DEFINE complete == /\ \A f \in Feeds : \E r \in Mine : r.feed = f
                          /\ \A g \in Listed(Own) : \E r \in Mine : r.feed = "props" /\ r.scope = g
                          /\ \A r \in Mine : r.status \in Checked
              games == {r \in Mine : r.feed = "games"}
              dependent == Feeds \ {"games"}
  <1>6. CycleStatus = IF \E r \in games : r.status \notin Checked THEN "FAILED"
                      ELSE IF \A f \in dependent : Succeeded(f) THEN "SUCCESS"
                      ELSE IF \E f \in dependent : Succeeded(f) THEN "PARTIAL" ELSE "FAILED"
    BY DEF CycleStatus
  <1>7. CASE \E r \in Mine : r.feed = "games" /\ r.status \notin Checked
    <2>1. CycleStatus = "FAILED" /\ ~complete
      BY <1>6, <1>7
    <2>. QED
      BY <1>3, <1>4, <2>1 DEF Whole, Same
  <1>8. CASE \A r \in Mine : r.feed = "games" => r.status \in Checked
    <2>1. cyc.listed = Listed(Own) /\ cyc.listed # {}
          /\ \A d \in Needed(cyc.listed) : \E r \in Mine : Same(r, d)
      BY <1>2, <1>3, <1>8 DEF ThenTheRest
    <2>2. \A f \in {"rosters", "injuries", "odds"} : \E r \in Mine : r.feed = f
      <3>1. ASSUME NEW f \in {"rosters", "injuries", "odds"}
            PROVE  \E r \in Mine : r.feed = f
        <4>1. OfWeek(f) \in Needed(cyc.listed) /\ OfWeek(f).feed = f
          BY DEF Needed, OfWeek
        <4>. QED
          BY <2>1, <4>1 DEF Same
      <3>. QED
        BY <3>1
    <2>3. \A g \in Listed(Own) : \E r \in Mine : r.feed = "props" /\ r.scope = g
      <3>1. ASSUME NEW g \in Listed(Own)
            PROVE  \E r \in Mine : r.feed = "props" /\ r.scope = g
        <4>1. [feed |-> "props", scope |-> g] \in Needed(cyc.listed)
          BY <2>1 DEF Needed
        <4>. QED
          BY <2>1, <4>1 DEF Same
      <3>. QED
        BY <3>1
    <2>4. \E r \in Mine : r.feed = "props"
      BY <2>1, <2>3
    <2>5. \E r \in Mine : r.feed = "games"
      BY <1>3 DEF ThenTheRest
    <2>6. \A f \in Feeds : \E r \in Mine : r.feed = f
      BY <2>2, <2>4, <2>5 DEF Feeds
    <2>7. (\A f \in dependent : Succeeded(f)) <=> \A r \in Mine : r.status \in Checked
      BY <1>5, <1>8 DEF Succeeded
    <2>8. CycleStatus = "SUCCESS" <=> complete
      BY <1>6, <1>8, <2>3, <2>6, <2>7
    <2>. HIDE DEF complete
    <2>9. (c.status = "SUCCESS" <=> complete)
      BY <2>8
    <2>. QED
      BY <1>3, <1>4, <2>9 DEF Whole, Same, complete
  <1>. QED
    BY <1>7, <1>8

\* What a finished cycle said stays true of the tables.
LEMMA WholeStands ==
    ASSUME CollectionInv, [Next]_vars, NEW c \in runs, Whole(c)
    PROVE  Whole(c)'
  <1>. DEFINE mine == {r \in receipts : r.run = c.started}
              stored == {r \in rows : r.run = c.started}
  <1>1. c.started \in Nat /\ c.completed \in Nat /\ c.started < c.completed
    BY DEF CollectionInv, Tables, Clocks
  <1>2. pc \in {"receipt", "append"} => c.started # cyc.started
    <2>1. pc \in {"receipt", "append"} => c.completed < cyc.started /\ cyc.started \in Nat
      BY DEF CollectionInv, Clocks
    <2>. QED
      BY <1>1, <2>1
  <1>3. {r \in receipts' : r.run = c.started} = mine
    <2>1. CASE RecordReceipt
      BY <1>2, <2>1, ReceiptIs
    <2>2. CASE receipts' = receipts
      BY <2>2
    <2>. QED
      BY <2>1, <2>2, WhoWrites
  <1>4. {r \in rows' : r.run = c.started} = stored
    <2>1. CASE AppendRows
      <3>1. /\ pc = "append" /\ rows \subseteq rows'
            /\ \A r \in rows' : r \in rows \/ r.run = cyc.started
        BY <2>1, RowsAre
      <3>. QED
        BY <1>2, <3>1
    <2>2. CASE rows' = rows
      BY <2>2
    <2>. QED
      BY <2>1, <2>2, WhoWrites
  <1>5. \A q \in {r \in stored : r.feed = "games"} : feed'["games"][q.v].content = feed["games"][q.v].content
    <2>1. ASSUME NEW q \in stored, q.feed = "games"
          PROVE  feed'["games"][q.v] = feed["games"][q.v]
      <3>1. "games" \in Feeds /\ q.v \in 1..Len(feed["games"])
        BY <2>1 DEF CollectionInv, Tables, Feeds
      <3>. QED
        BY <3>1, FeedsStand
    <2>. QED
      BY <2>1
  <1>6. Listed(stored)' = Listed(stored)
    BY <1>4, <1>5 DEF Listed
  <1>. QED
    BY <1>3, <1>4, <1>6 DEF Whole

LEMMA CycleInvHolds ==
    /\ Init => CycleInv
    /\ CollectionInv /\ CycleInv /\ [Next]_vars => CycleInv'
  <1>1. ASSUME Init
        PROVE  CycleInv
    <2>1. pc = "idle" /\ runs = {}
      BY <1>1 DEF Init
    <2>2. ~Running
      BY <2>1 DEF Running, Working
    <2>. QED
      BY <2>1, <2>2 DEF CycleInv, Ledger, Agenda
  <1>2. ASSUME CollectionInv, CycleInv, [Next]_vars
        PROVE  CycleInv'
    <2>1. Ledger /\ Agenda /\ \A c \in runs : Whole(c)
      BY <1>2 DEF CycleInv
    <2>2. Ledger' /\ Agenda'
      <3>1. CASE Beside
        <4>1. UNCHANGED <<pc, cyc, receipts, rows>>
          BY <3>1 DEF Beside
        <4>. QED
          BY <1>2, <2>1, <4>1, InPlaceInv
      <3>2. CASE Start
        BY <1>2, <3>2, StartInv
      <3>3. ASSUME NEW next \in Cursors \cup 0..Cardinality(Games), Page(next)
            PROVE  Ledger' /\ Agenda'
        <4>1. next \in Int
          BY RetentionOrder, GamesAssumption, FS_CardinalityType
        <4>2. pc = "fetch" /\ UNCHANGED <<receipts, rows>>
          BY <3>3 DEF Page
        <4>. QED
          BY <1>2, <2>1, <3>3, <4>1, <4>2, PageKeeps, InPlaceInv
      <3>4. ASSUME NEW kind \in Faults, Fail(kind)
            PROVE  Ledger' /\ Agenda'
        <4>1. pc = "fetch" /\ UNCHANGED <<receipts, rows>>
          BY <3>4 DEF Fail
        <4>. QED
          BY <1>2, <2>1, <3>4, <4>1, FailKeeps, InPlaceInv
      <3>5. CASE RecordReceipt
        BY <1>2, <2>1, <3>5, ReceiptInv
      <3>6. CASE AppendRows
        BY <1>2, <2>1, <3>6, AppendInv
      <3>7. CASE Finalize \/ RecordTrigger \/ Kill
        <4>1. pc' \in {"idle", "trigger"}
          BY <3>7 DEF Finalize, RecordTrigger, Kill
        <4>2. ~Running'
          BY <4>1 DEF Running, Working
        <4>. QED
          BY <4>2 DEF Ledger, Agenda
      <3>. QED
        BY <1>2, <3>1, <3>2, <3>3, <3>4, <3>5, <3>6, <3>7, StepsOfACycle
    <2>3. ASSUME NEW c \in runs'
          PROVE  Whole(c)'
      <3>1. CASE c \in runs
        BY <1>2, <2>1, <3>1, WholeStands
      <3>2. CASE c \notin runs
        <4>1. Finalize
          BY <1>2, <2>3, <3>2, WhoWrites
        <4>2. UNCHANGED <<feed, receipts, rows>>
              /\ c = [started |-> cyc.started, completed |-> clock, status |-> CycleStatus]
          BY <1>2, <2>3, <3>2, <4>1, FinalizeKeeps
        <4>3. c.started = cyc.started /\ c.status = CycleStatus
          BY <4>2
        <4>4. Whole(c)
          BY <1>2, <2>1, <4>1, <4>3, FinishedIsWhole
        <4>. QED
          BY <4>2, <4>4 DEF Whole, Listed
      <3>. QED
        BY <3>1, <3>2
    <2>. QED
      BY <2>2, <2>3 DEF CycleInv
  <1>. QED
    BY <1>1, <1>2

\* The row of a finished cycle vouches for the rest of it: every receipt it
\* wrote with a count has its rows, and it says SUCCESS exactly when every feed
\* and every game its schedule lists has a checked receipt, however the feeds
\* change between the pages and whatever was killed before (collection/service.py).
THEOREM FinishedCyclesAreWhole == Spec => []FinishedCycleIsWhole
  <1>. DEFINE Inv == CollectionInv /\ CycleInv
  <1>1. Init => Inv
    BY CollectionInvHolds, CycleInvHolds
  <1>2. Inv /\ [Next]_vars => Inv'
    BY CollectionInvHolds, CycleInvHolds
  <1>3. Inv => FinishedCycleIsWhole
    <2>1. ASSUME \A c \in runs : Whole(c)
          PROVE  FinishedCycleIsWhole
      BY <2>1 DEF FinishedCycleIsWhole, Whole, Listed
    <2>. QED
      BY <2>1 DEF CycleInv
  <1>. HIDE DEF Inv
  <1>. QED
    BY <1>1, <1>2, <1>3, PTL DEF Spec
=============================================================================
