---------------------------- MODULE StudyProofs ----------------------------
(***************************************************************************)
(* The offline programs: a shard is one replay, a report is complete, what *)
(* may be approved is reproduced, a probability is calibrated by the past, *)
(* a reproduction is a rebuild and eligibility is earned.  Each program    *)
(* has an inductive invariant of its own; a step of another leaves it.     *)
(***************************************************************************)
EXTENDS CalibrationStudy, FiniteSetTheorems, WellFoundedInduction, TLAPS

-----------------------------------------------------------------------------
(* Extremes of sets of times. *)

LEMMA LeastExists ==
  ASSUME NEW T, T \subseteq Nat, T # {}
  PROVE  \E x \in T : \A y \in T : x <= y
  <1>. DEFINE R == {ss \in Nat \X Nat : ss[1] < ss[2]}
  <1>1. IsWellFoundedOn(R, Nat)
    BY NatLessThanWellFounded DEF OpToRel
  <1>2. \A x, y \in T : <<y, x>> \in R <=> y < x
    OBVIOUS
  <1>. HIDE DEF R
  <1>3. PICK x \in T : \A y \in T : ~ (<<y, x>> \in R)
    BY <1>1, WFMin
  <1>4. \A y \in T : ~ (y < x)
    BY <1>2, <1>3
  <1>5. \A y \in T : x <= y
    BY <1>4
  <1>. QED
    BY <1>5


LEMMA GreatestExists ==
  ASSUME NEW T, T \subseteq Nat, T # {}, NEW b \in Nat, \A y \in T : y <= b
  PROVE  \E x \in T : \A y \in T : y <= x
  <1>. DEFINE U == {u \in Nat : \A y \in T : y <= u}
  <1>1. U \subseteq Nat /\ U # {}
    BY DEF U
  <1>2. PICK u \in U : \A x \in U : u <= x
    BY <1>1, LeastExists
  <1>3. CASE u \in T
    BY <1>3
  <1>4. CASE u \notin T
    <2>1. \A y \in T : y < u /\ y <= u - 1
      BY <1>4
    <2>2. PICK e \in T : e < u
      BY <2>1
    <2>3. u - 1 \in Nat
      BY <2>2
    <2>4. u - 1 \in U
      BY <2>1, <2>3
    <2>. QED
      BY <1>2, <2>4
  <1>. QED
    BY <1>3, <1>4

Facts == program \in DOMAIN Histories /\ facts \in Histories[program]

LEMMA Chronology ==
    ASSUME Facts
    PROVE  /\ \A g \in Games : /\ facts.asOf[g] \in Nat /\ facts.known[g] \in Nat
                               /\ facts.asOf[g] < facts.known[g]
           /\ \E last \in Games : \A g \in Games : facts.asOf[g] <= facts.asOf[last]
  BY TimesAssumption, EvenTimes DEF Facts

LEMMA UpcomingIs ==
    ASSUME Facts, NEW gs \in SUBSET Games, gs # {}
    PROVE  Upcoming(gs) \in gs
  <1>1. AsOf(gs) \subseteq Nat /\ AsOf(gs) # {}
    BY Chronology DEF AsOf
  <1>2. PICK t \in AsOf(gs) : \A u \in AsOf(gs) : t <= u
    BY <1>1, LeastExists
  <1>3. PICK g \in gs : t = facts.asOf[g]
    BY <1>2 DEF AsOf
  <1>4. \A x \in gs : facts.asOf[g] <= facts.asOf[x]
    BY <1>2, <1>3 DEF AsOf
  <1>. QED
    BY <1>4 DEF Upcoming

LEMMA LastTimeIs ==
    ASSUME Facts, NEW gs \in SUBSET Games, gs # {}
    PROVE  Max(AsOf(gs)) \in Nat
  <1>1. AsOf(gs) \subseteq Nat /\ AsOf(gs) # {}
    BY Chronology DEF AsOf
  <1>2. PICK last \in Games : \A g \in Games : facts.asOf[g] <= facts.asOf[last]
    BY Chronology
  <1>3. facts.asOf[last] \in Nat /\ \A t \in AsOf(gs) : t <= facts.asOf[last]
    BY <1>2, Chronology DEF AsOf
  <1>4. PICK t \in AsOf(gs) : \A u \in AsOf(gs) : u <= t
    BY <1>1, <1>3, GreatestExists
  <1>5. \A u \in AsOf(gs) : t >= u
    BY <1>1, <1>4
  <1>. QED
    BY <1>1, <1>5 DEF Max

-----------------------------------------------------------------------------
(* A step is of one program. *)

LEMMA OneProgram ==
    ASSUME [Next]_vars
    PROVE  /\ UNCHANGED <<facts, program>>
           /\ CalibratorNext \/ UNCHANGED <<studyVars, calibratorVars>>
           /\ BacktestNext \/ UNCHANGED backtestVars
           /\ ReproductionNext \/ UNCHANGED reproductionVars
           /\ TrainingNext \/ UNCHANGED trainingVars
  <1>1. CASE Next
    BY <1>1 DEF Next
  <1>2. CASE UNCHANGED vars
    BY <1>2 DEF vars
  <1>. QED
    BY <1>1, <1>2

LEMMA FactsHold == Spec => []Facts
  <1>1. Init => Facts
    BY DEF Init, Facts
  <1>2. Facts /\ [Next]_vars => Facts'
    BY OneProgram DEF Facts
  <1>. QED
    BY <1>1, <1>2, PTL DEF Spec

-----------------------------------------------------------------------------
(* Shards: nothing that was replayed is replaced, so what a job has counted  *)
(* is on disk when it lists it, and stays there.                             *)

Evidences == {Evidence(c) : c \in Commands}
ShardManifests == [ident : Idents \cup {"none", "torn"},
                   entries : UNION {[gs -> Evidences] : gs \in SUBSET Games},
                   skips : SUBSET Games]
Shards == [games : [Games -> Evidences \cup {NoEvidence}], partial : SUBSET Games,
           manifest : ShardManifests]
Replaying == [pc : {"replay", "rename"}, cmd : Commands, todo : SUBSET Games,
              entries : SUBSET Games, skips : SUBSET Games]

\* A manifest lists games that can be labelled, and skips ones that cannot.
Sorted(m) == /\ \A g \in DOMAIN m.entries : g \in Scoreable[m.ident]
             /\ \A g \in m.skips : g \notin Scoreable[m.ident]

\* What a job has counted so far, and what it is about to make visible.
Counts(x) ==
    /\ \A g \in x.entries : /\ g \in Scoreable[x.cmd.ident]
                            /\ disk[x.cmd.dir].games[g] = Evidence(x.cmd)
    /\ \A g \in x.skips : g \notin Scoreable[x.cmd.ident]
    /\ x.pc = "rename" => x.todo # {} /\ Upcoming(x.todo) \in Scoreable[x.cmd.ident]

ShardTypes == disk \in [Dirs -> Shards] /\ job \in [Jobs -> Replaying \cup {Idle}]

ShardInv ==
    /\ ShardTypes
    /\ ShardIsOneReplay
    /\ \A d \in Dirs : Sorted(disk[d].manifest)
    /\ \A j \in Jobs : job[j] # Idle => Counts(job[j])

LEMMA EvidenceIsSome ==
    /\ NoEvidence \notin Evidences
    /\ \A c \in Commands : Evidence(c) \in Evidences /\ Evidence(c).ident = c.ident
  <1>1. \A c \in Commands : DOMAIN Evidence(c) = {"ident", "host"}
    BY DEF Evidence
  <1>2. DOMAIN NoEvidence = {"ident"}
    BY DEF NoEvidence
  <1>3. NoEvidence \notin Evidences
    BY <1>1, <1>2 DEF Evidences
  <1>. QED
    BY <1>3 DEF Evidences, Evidence

LEMMA IdleIsNoReplay ==
    /\ Idle \notin Replaying
    /\ \A x \in Replaying \cup {Idle} : x.pc \in {"replay", "rename"} => x \in Replaying
  BY DEF Idle, Replaying

\* Evidence that is there stays, with the manifest unless a job writes it.
Kept == \A d \in Dirs : \A g \in Games :
            disk[d].games[g] # NoEvidence => disk'[d].games[g] = disk[d].games[g]
SameManifests == \A d \in Dirs : disk'[d].manifest = disk[d].manifest

LEMMA KeptCounts ==
    ASSUME Facts, UNCHANGED facts, ShardTypes, ShardTypes', Kept,
           NEW x \in Replaying, Counts(x)
    PROVE  Counts(x)'
  <1>1. \A gs : Upcoming(gs)' = Upcoming(gs)
    BY DEF Upcoming
  <1>2. x.cmd \in Commands /\ x.cmd.dir \in Dirs /\ x.entries \subseteq Games
    BY CommandAssumption DEF Replaying
  <1>3. \A g \in x.entries : disk[x.cmd.dir].games[g] # NoEvidence
    BY <1>2, EvidenceIsSome DEF Counts
  <1>. QED
    BY <1>1, <1>2, <1>3 DEF Counts, Kept

LEMMA KeptManifest ==
    ASSUME ShardTypes, ShardIsOneReplay, \A d \in Dirs : Sorted(disk[d].manifest),
           Kept, SameManifests
    PROVE  ShardIsOneReplay' /\ \A d \in Dirs : Sorted(disk'[d].manifest)
  <1>1. ASSUME NEW d \in Dirs, NEW g \in DOMAIN disk[d].manifest.entries
        PROVE  disk'[d].games[g] = disk[d].games[g]
    <2>1. disk[d].manifest \in ShardManifests
      BY DEF ShardTypes, Shards
    <2>2. PICK gs \in SUBSET Games : disk[d].manifest.entries \in [gs -> Evidences]
      BY <2>1 DEF ShardManifests
    <2>3. g \in Games /\ disk[d].games[g] # NoEvidence
      BY <2>2, EvidenceIsSome DEF ShardIsOneReplay
    <2>. QED
      BY <2>3 DEF Kept
  <1>. QED
    BY <1>1 DEF ShardIsOneReplay, SameManifests

LEMMA ShardInit == ASSUME StudyInit PROVE ShardInv
  <1>1. NoManifest \in ShardManifests /\ DOMAIN NoManifest.entries = {} /\ NoManifest.skips = {}
    BY SMT DEF NoManifest, ShardManifests
  <1>2. \A d \in Dirs : disk[d].manifest = NoManifest
    BY DEF StudyInit
  <1>3. ShardTypes
    BY <1>1 DEF StudyInit, ShardTypes, Shards
  <1>. QED
    BY <1>1, <1>2, <1>3 DEF StudyInit, ShardInv, ShardIsOneReplay, Sorted

\* A step of one job that leaves its directory's manifest alone.
LEMMA JobKeepsShards ==
    ASSUME Facts, UNCHANGED facts, ShardInv, ShardTypes', Kept, SameManifests,
           NEW j \in Jobs, \A k \in Jobs : k # j => job'[k] = job[k],
           job'[j] # Idle => Counts(job[j])'
    PROVE  ShardInv'
  <1>1. ASSUME NEW k \in Jobs, k # j, job'[k] # Idle PROVE Counts(job[k])'
    <2>. DEFINE x == job[k]
    <2>1. x = job'[k] /\ x \in Replaying /\ Counts(x)
      BY <1>1 DEF ShardInv, ShardTypes
    <2>. QED
      BY <2>1, KeptCounts DEF ShardInv
  <1>. QED
    BY <1>1, KeptManifest DEF ShardInv

LEMMA LaunchShards ==
    ASSUME Facts, UNCHANGED facts, ShardInv, NEW j \in Jobs, NEW c \in Commands, Launch(j, c)
    PROVE  ShardInv'
  <1>1. InScope(c.ident, c.scope) \in SUBSET Games
    BY CommandAssumption, ScoreableAreFinal DEF InScope
  <1>2. ShardTypes'
    BY <1>1 DEF ShardInv, ShardTypes, Launch, Replaying
  <1>3. Counts(job[j])'
    BY DEF ShardInv, ShardTypes, Launch, Counts
  <1>. QED
    BY <1>2, <1>3, JobKeepsShards DEF Launch, Kept, SameManifests, ShardInv, ShardTypes

LEMMA SkipGameShards ==
    ASSUME Facts, UNCHANGED facts, ShardInv, NEW j \in Jobs, SkipGame(j)
    PROVE  ShardInv'
  <1>. DEFINE g == Upcoming(job[j].todo)
  <1>1. job[j] \in Replaying /\ Counts(job[j])
    BY IdleIsNoReplay DEF SkipGame, ShardInv, ShardTypes
  <1>2. g \in Games
    BY <1>1, UpcomingIs DEF SkipGame, Replaying
  <1>3. /\ job' = [job EXCEPT ![j] = [job[j] EXCEPT !.todo = @ \ {g}, !.skips = @ \cup {g}]]
        /\ disk' = disk /\ g \notin Scoreable[job[j].cmd.ident] /\ job[j].pc = "replay"
    BY <1>1 DEF SkipGame, ShardInv, ShardTypes
  <1>. HIDE DEF g
  <1>4. ShardTypes'
    BY <1>1, <1>2, <1>3 DEF ShardInv, ShardTypes, Replaying
  <1>5. Counts(job[j])'
    BY <1>1, <1>3 DEF Counts, ShardInv, ShardTypes, Replaying
  <1>. QED
    BY <1>3, <1>4, <1>5, JobKeepsShards DEF Kept, SameManifests, ShardInv, ShardTypes

LEMMA WritePartialShards ==
    ASSUME Facts, UNCHANGED facts, ShardInv, NEW j \in Jobs, WritePartial(j)
    PROVE  ShardInv'
  <1>. DEFINE g == Upcoming(job[j].todo)
              d == job[j].cmd.dir
  <1>1. job[j] \in Replaying /\ Counts(job[j]) /\ d \in Dirs
    BY IdleIsNoReplay, CommandAssumption DEF WritePartial, ShardInv, ShardTypes, Replaying
  <1>2. g \in Games
    BY <1>1, UpcomingIs DEF WritePartial, Replaying
  <1>3. CASE Taken(d, g)
    <2>1. job' = [job EXCEPT ![j] = Idle] /\ disk' = disk
      BY <1>3 DEF WritePartial
    <2>2. ShardTypes'
      BY <2>1 DEF ShardInv, ShardTypes
    <2>. QED
      BY <2>1, <2>2, JobKeepsShards DEF Kept, SameManifests, ShardInv, ShardTypes
  <1>4. CASE ~Taken(d, g)
    <2>1. /\ disk' = [disk EXCEPT ![d] = [disk[d] EXCEPT !.partial = @ \cup {g}]]
          /\ job' = [job EXCEPT ![j] = [job[j] EXCEPT !.pc = "rename"]]
          /\ g \in Scoreable[job[j].cmd.ident] /\ job[j].todo # {}
      BY <1>1, <1>4 DEF WritePartial, ShardInv, ShardTypes
    <2>. HIDE DEF d, g
    <2>2. ShardTypes'
      BY <1>1, <1>2, <2>1 DEF ShardInv, ShardTypes, Replaying, Shards
    <2>3. Kept /\ SameManifests
      BY <1>1, <2>1 DEF ShardInv, ShardTypes, Shards, Kept, SameManifests
    <2>4. disk'[d].games = disk[d].games
      BY <1>1, <2>1 DEF ShardInv, ShardTypes, Shards
    <2>5. /\ job'[j].cmd = job[j].cmd /\ job'[j].todo = job[j].todo
          /\ job'[j].entries = job[j].entries /\ job'[j].skips = job[j].skips
      BY <1>1, <2>1 DEF ShardInv, ShardTypes, Replaying
    <2>6. Upcoming(job[j].todo)' = g
      BY <2>5 DEF Upcoming, g
    <2>7. Counts(job[j])'
      BY <1>1, <2>1, <2>4, <2>5, <2>6 DEF Counts, d
    <2>. QED
      BY <2>1, <2>2, <2>3, <2>7, JobKeepsShards DEF ShardInv, ShardTypes
  <1>. QED
    BY <1>3, <1>4

LEMMA RenameShards ==
    ASSUME Facts, UNCHANGED facts, ShardInv, NEW j \in Jobs, Rename(j)
    PROVE  ShardInv'
  <1>. DEFINE g == Upcoming(job[j].todo)
              d == job[j].cmd.dir
              e == Evidence(job[j].cmd)
  <1>1. job[j] \in Replaying /\ Counts(job[j]) /\ d \in Dirs /\ e \in Evidences
    BY IdleIsNoReplay, CommandAssumption, EvidenceIsSome
       DEF Rename, ShardInv, ShardTypes, Replaying
  <1>2. g \in Games /\ g \in Scoreable[job[j].cmd.ident]
    BY <1>1, UpcomingIs DEF Rename, Replaying, Counts
  <1>3. CASE disk[d].games[g] # NoEvidence
    <2>1. job' = [job EXCEPT ![j] = Idle] /\ disk' = disk
      BY <1>3 DEF Rename
    <2>2. ShardTypes'
      BY <2>1 DEF ShardInv, ShardTypes
    <2>. QED
      BY <2>1, <2>2, JobKeepsShards DEF Kept, SameManifests, ShardInv, ShardTypes
  <1>4. CASE disk[d].games[g] = NoEvidence
    <2>1. /\ disk' = [disk EXCEPT ![d].partial = @ \ {g}, ![d].games[g] = e]
          /\ job' = [job EXCEPT ![j].pc = "replay", ![j].todo = @ \ {g},
                                ![j].entries = @ \cup {g}]
      BY <1>4 DEF Rename
    <2>. HIDE DEF d, g, e
    <2>2. disk[d] \in Shards /\ disk \in [Dirs -> Shards] /\ job \in [Jobs -> Replaying \cup {Idle}]
      BY <1>1 DEF ShardInv, ShardTypes
    <2>3. /\ disk'[d].games = [disk[d].games EXCEPT ![g] = e]
          /\ disk'[d].partial = disk[d].partial \ {g}
          /\ disk'[d].manifest = disk[d].manifest
          /\ \A b \in Dirs : b # d => disk'[b] = disk[b]
          /\ disk'[d] \in Shards
      BY <1>1, <1>2, <2>1, <2>2 DEF Shards
    <2>4. /\ job'[j].cmd = job[j].cmd /\ job'[j].pc = "replay"
          /\ job'[j].entries = job[j].entries \cup {g} /\ job'[j].skips = job[j].skips
          /\ job'[j] \in Replaying
      BY <1>1, <1>2, <2>1, <2>2 DEF Replaying
    <2>5. ShardTypes'
      BY <2>1, <2>3, <2>4 DEF ShardInv, ShardTypes
    <2>6. Kept /\ SameManifests
      BY <1>4, <2>2, <2>3 DEF Shards, Kept, SameManifests
    <2>7. \A x \in job[j].entries : disk'[d].games[x] = e
      BY <1>1, <1>2, <2>2, <2>3 DEF Counts, Shards, Replaying, d, e
    <2>8. disk'[d].games[g] = e
      BY <1>2, <2>2, <2>3 DEF Shards
    <2>9. Counts(job[j])'
      BY <1>1, <1>2, <2>4, <2>7, <2>8 DEF Counts, Evidence, d, e
    <2>. QED
      BY <2>1, <2>5, <2>6, <2>9, JobKeepsShards DEF ShardInv, ShardTypes
  <1>. QED
    BY <1>3, <1>4

\* A job that ends, and leaves a manifest that holds: its own, or none of use.
LEMMA JobEndsShards ==
    ASSUME Facts, UNCHANGED facts, ShardInv, NEW j \in Jobs, job' = [job EXCEPT ![j] = Idle],
           NEW d \in Dirs, NEW m \in ShardManifests, Sorted(m),
           disk' = [disk EXCEPT ![d].manifest = m],
           \A g \in DOMAIN m.entries : /\ disk[d].games[g] = m.entries[g]
                                       /\ m.entries[g].ident = m.ident
    PROVE  ShardInv'
  <1>1. /\ disk' \in [Dirs -> Shards] /\ disk'[d].manifest = m
        /\ disk'[d].games = disk[d].games
        /\ \A b \in Dirs : b # d => disk'[b] = disk[b]
    BY DEF ShardInv, ShardTypes, Shards
  <1>2. ShardTypes' /\ Kept
    BY <1>1 DEF ShardInv, ShardTypes, Kept
  <1>3. ShardIsOneReplay' /\ \A b \in Dirs : Sorted(disk'[b].manifest)
    <2>1. ASSUME NEW b \in Dirs, b # d, NEW g \in DOMAIN disk'[b].manifest.entries
          PROVE  /\ disk'[b].games[g] = disk'[b].manifest.entries[g]
                 /\ disk'[b].games[g].ident = disk'[b].manifest.ident
      BY <1>1, <2>1 DEF ShardInv, ShardIsOneReplay
    <2>2. ASSUME NEW g \in DOMAIN disk'[d].manifest.entries
          PROVE  /\ disk'[d].games[g] = disk'[d].manifest.entries[g]
                 /\ disk'[d].games[g].ident = disk'[d].manifest.ident
      BY <1>1, <2>2
    <2>3. \A b \in Dirs : Sorted(disk'[b].manifest)
      BY <1>1 DEF ShardInv
    <2>. QED
      BY <2>1, <2>2, <2>3 DEF ShardIsOneReplay
  <1>4. ASSUME NEW k \in Jobs, job'[k] # Idle PROVE Counts(job[k])'
    <2>. DEFINE x == job[k]
    <2>1. x = job'[k] /\ x \in Replaying /\ Counts(x)
      BY <1>4 DEF ShardInv, ShardTypes
    <2>. QED
      BY <1>2, <2>1, KeptCounts DEF ShardInv
  <1>. QED
    BY <1>2, <1>3, <1>4 DEF ShardInv

LEMMA WriteManifestShards ==
    ASSUME Facts, UNCHANGED facts, ShardInv, NEW j \in Jobs, WriteManifest(j)
    PROVE  ShardInv'
  <1>. DEFINE c == job[j].cmd
              m == [ident |-> c.ident, entries |-> [g \in job[j].entries |-> Evidence(c)],
                    skips |-> job[j].skips]
  <1>1. job[j] \in Replaying /\ Counts(job[j]) /\ c \in Commands /\ c.dir \in Dirs
        /\ Evidence(c) \in Evidences /\ Evidence(c).ident = c.ident
    BY IdleIsNoReplay, CommandAssumption, EvidenceIsSome
       DEF WriteManifest, ShardInv, ShardTypes, Replaying
  <1>2. [g \in job[j].entries |-> Evidence(c)] \in UNION {[gs -> Evidences] : gs \in SUBSET Games}
    <2>. HIDE DEF c
    <2>1. job[j].entries \in SUBSET Games
      BY <1>1 DEF Replaying
    <2>2. [g \in job[j].entries |-> Evidence(c)] \in [job[j].entries -> Evidences]
      BY <1>1
    <2>. QED
      BY <2>1, <2>2
  <1>3. m \in ShardManifests /\ Sorted(m)
    <2>. HIDE DEF c
    <2>1. job[j].skips \in SUBSET Games /\ c.ident \in Idents
      BY <1>1, CommandAssumption DEF Replaying
    <2>2. m \in ShardManifests
      BY <1>2, <2>1 DEF ShardManifests
    <2>3. \A g \in job[j].entries : g \in Scoreable[c.ident]
      BY <1>1 DEF Counts, c
    <2>4. \A g \in job[j].skips : g \notin Scoreable[c.ident]
      BY <1>1 DEF Counts, c
    <2>. QED
      BY <2>2, <2>3, <2>4 DEF Sorted
  <1>4. \A g \in DOMAIN m.entries : /\ disk[c.dir].games[g] = m.entries[g]
                                    /\ m.entries[g].ident = m.ident
    BY <1>1 DEF Counts
  <1>5. disk' = [disk EXCEPT ![c.dir].manifest = m] /\ job' = [job EXCEPT ![j] = Idle]
    BY DEF WriteManifest
  <1>. HIDE DEF c, m
  <1>. QED
    BY <1>1, <1>3, <1>4, <1>5, JobEndsShards

LEMMA KillJobShards ==
    ASSUME Facts, UNCHANGED facts, ShardInv, NEW j \in Jobs, KillJob(j)
    PROVE  ShardInv'
  <1>1. job[j] \in Replaying /\ job[j].cmd.dir \in Dirs
    BY CommandAssumption DEF KillJob, ShardInv, ShardTypes, Replaying
  <1>2. Torn \in ShardManifests /\ Sorted(Torn) /\ DOMAIN Torn.entries = {}
    <2>1. Torn = [ident |-> "torn", entries |-> <<>>, skips |-> {}]
      BY DEF NoManifest, Torn
    <2>2. Torn \in ShardManifests
      BY <2>1, SMT DEF ShardManifests
    <2>. QED
      BY <2>1, <2>2 DEF Sorted
  <1>3. CASE UNCHANGED disk
    <2>1. ShardTypes' /\ Kept /\ SameManifests
      BY <1>3 DEF KillJob, ShardInv, ShardTypes, Kept, SameManifests
    <2>2. job'[j] = Idle /\ \A k \in Jobs : k # j => job'[k] = job[k]
      BY DEF KillJob, ShardInv, ShardTypes
    <2>. QED
      BY <2>1, <2>2, JobKeepsShards
  <1>4. CASE disk' = [disk EXCEPT ![job[j].cmd.dir].manifest = Torn]
    BY <1>1, <1>2, <1>4, JobEndsShards DEF KillJob
  <1>. QED
    BY <1>3, <1>4 DEF KillJob

LEMMA ShardStep == ASSUME Facts, ShardInv, [Next]_vars PROVE ShardInv'
  <1>1. UNCHANGED facts
    BY OneProgram
  <1>2. CASE UNCHANGED <<disk, job>>
    BY <1>1, <1>2 DEF ShardInv, ShardTypes, ShardIsOneReplay, Counts, Upcoming
  <1>3. CASE \E j \in Jobs : JobStep(j) \/ \E c \in Commands : Launch(j, c)
    BY <1>1, <1>3, LaunchShards, SkipGameShards, WritePartialShards, RenameShards,
       WriteManifestShards, KillJobShards DEF JobStep
  <1>4. CASE \E c \in Evaluations : BeginEvaluation(c)
    BY <1>2, <1>4 DEF BeginEvaluation
  <1>5. CASE LoadShard \/ Fit \/ LoadRepro \/ KillEvaluation
    BY <1>2, <1>5 DEF LoadShard, Fit, LoadRepro, KillEvaluation
  <1>6. CASE \E b \in {"none", "better", "worse"}, slices, coherent \in BOOLEAN :
                Decide(b, slices, coherent)
    BY <1>2, <1>6 DEF Decide
  <1>7. CASE FitFinal \/ RegisterFinal \/ WriteCandidate
    BY <1>2, <1>7 DEF FitFinal, RegisterFinal, WriteCandidate
  <1>8. CASE UNCHANGED <<studyVars, calibratorVars>>
    BY <1>2, <1>8 DEF studyVars
  <1>. QED
    BY <1>3, <1>4, <1>5, <1>6, <1>7, <1>8, OneProgram DEF CalibratorNext, StudyNext

LEMMA ShardsHold == Spec => []ShardInv
  <1>1. Init => ShardInv
    BY ShardInit DEF Init
  <1>. QED
    BY <1>1, ShardStep, FactsHold, PTL DEF Spec

\* Two jobs in one directory, one killed, one launched again: what a manifest
\* lists was replayed by one of them, and is what is on disk.
THEOREM ShardsAreOneReplay == Spec => []ShardIsOneReplay
  <1>1. ShardInv => ShardIsOneReplay
    BY DEF ShardInv
  <1>. QED
    BY <1>1, ShardsHold, PTL

-----------------------------------------------------------------------------
(* The evaluation: what it has loaded is of its own identity and in the      *)
(* directory's manifest, and what it certifies it has compared.              *)

\* Why a fit of these games may be a production calibrator.
Warranted(games, skips, end, c, certified) ==
    /\ ReproducedIn(certified) /\ certified.cmd.ident = c.ident
    /\ DOMAIN games \cup skips = FinalGames[c.ident]
    /\ \A g \in DOMAIN games : facts.known[g] <= end
    /\ end < c.kickoff
    /\ \A g \in DOMAIN LastFit(certified.games) : games[g] = certified.games[g]

Shaped(e) == e = [pc |-> e.pc, cmd |-> e.cmd, todo |-> e.todo, games |-> e.games,
                  skips |-> e.skips, again |-> e.again]

\* Evidence of one identity: labelled games it can label, skipped ones it cannot.
OfIdentity(games, skips, ident) ==
    /\ \A g \in DOMAIN games : g \in Scoreable[ident] /\ games[g].ident = ident
    /\ \A g \in skips : g \notin Scoreable[ident]

Evaluated ==
    /\ Shaped(eval) /\ eval.pc \in {"load", "repro", "decide", "register", "manifest"}
    /\ eval.cmd \in Evaluations /\ eval.todo \in Seq(Dirs)
    /\ OfIdentity(eval.games, eval.skips, eval.cmd.ident)
    /\ eval.pc # "load" => Accounted
    /\ eval.pc \in {"register", "manifest"} =>
          Warranted(eval.games, eval.skips, FinalEnd(eval.cmd), eval.cmd, eval.again)
    /\ eval.pc = "manifest" => payload.fit = eval.games /\ payload.end = FinalEnd(eval.cmd)

ReportInv ==
    /\ eval # Idle => Evaluated
    /\ ReportIsComplete
    /\ ApprovableIsReproduced

LEMMA LoadedIsOfIdentity ==
    ASSUME ShardInv, NEW d \in Dirs, NEW i, disk[d].manifest.ident = i
    PROVE  OfIdentity(ShardGames(d), disk[d].manifest.skips, i)
  BY DEF ShardInv, Sorted, ShardIsOneReplay, OfIdentity, ShardGames

\* The CHOOSEs below read the chronology only.
LEMMA SameCandidateFit ==
    ASSUME UNCHANGED <<facts, candidate>>
    PROVE  LastFit(candidate.certified.games)' = LastFit(candidate.certified.games)
  BY DEF LastFit, LastFold, FitGames, SeasonFold, SeasonsOf, InSeason, PreviousSeason, AsOf

LEMMA SameCertifiedFit ==
    ASSUME UNCHANGED <<facts, eval.again>>
    PROVE  LastFit(eval.again.games)' = LastFit(eval.again.games)
  BY DEF LastFit, LastFold, FitGames, SeasonFold, SeasonsOf, InSeason, PreviousSeason, AsOf

LEMMA SameFinalEnd ==
    ASSUME UNCHANGED <<facts, eval.games, eval.cmd>>
    PROVE  FinalEnd(eval.cmd)' = FinalEnd(eval.cmd)
  BY DEF FinalEnd, AsOf, Labelled

LEMMA SameApprovable ==
    ASSUME ApprovableIsReproduced, UNCHANGED <<facts, report, candidate>>
    PROVE  ApprovableIsReproduced'
  <1>. DEFINE fit == LastFit(candidate.certified.games)
  <1>1. fit' = fit
    BY SameCandidateFit
  <1>. HIDE DEF fit
  <1>. QED
    BY <1>1 DEF ApprovableIsReproduced, ReproducedIn, Reported, fit

LEMMA SameWarrant ==
    ASSUME UNCHANGED <<facts, eval.games, eval.skips, eval.cmd, eval.again>>,
           Warranted(eval.games, eval.skips, FinalEnd(eval.cmd), eval.cmd, eval.again)
    PROVE  Warranted(eval.games, eval.skips, FinalEnd(eval.cmd), eval.cmd, eval.again)'
  <1>. DEFINE fit == LastFit(eval.again.games)
              end == FinalEnd(eval.cmd)
  <1>1. fit' = fit /\ end' = end
    BY SameCertifiedFit, SameFinalEnd
  <1>. HIDE DEF fit, end
  <1>. QED
    BY <1>1 DEF Warranted, ReproducedIn, fit, end

LEMMA SameEvaluation ==
    ASSUME Evaluated, UNCHANGED <<facts, eval, payload>>
    PROVE  Evaluated'
  <1>1. UNCHANGED <<eval.games, eval.skips, eval.cmd, eval.again>>
    OBVIOUS
  <1>. DEFINE end == FinalEnd(eval.cmd)
  <1>2. end' = end
    BY SameFinalEnd
  <1>3. eval.pc \in {"register", "manifest"} =>
            Warranted(eval.games, eval.skips, end, eval.cmd, eval.again)'
    BY <1>1, SameWarrant DEF Evaluated
  <1>. HIDE DEF end
  <1>. QED
    BY <1>2, <1>3 DEF Evaluated, Shaped, OfIdentity, Accounted, Labelled, end

LEMMA IdleIsNoEvaluation == Idle.pc = "idle" /\ ~Shaped(Idle)
  <1>1. DOMAIN Idle = {"pc"}
    BY DEF Idle
  <1>2. ASSUME Shaped(Idle) PROVE FALSE
    <2>1. "cmd" \in DOMAIN Idle
      BY <1>2 DEF Shaped
    <2>. QED
      BY <1>1, <2>1
  <1>. QED
    BY <1>2 DEF Idle

LEMMA ReportInit == ASSUME StudyInit, CalibratorInit PROVE ReportInv
  <1>1. ~Reported /\ ~report.approvable
    BY DEF StudyInit, NoReport, Reported
  <1>. QED
    BY <1>1 DEF StudyInit, CalibratorInit, ReportInv, ReportIsComplete, ApprovableIsReproduced

\* A step that leaves the report and the candidate alone.
LEMMA ReportStands ==
    ASSUME ReportInv, UNCHANGED <<facts, report, candidate>>, eval' # Idle => Evaluated'
    PROVE  ReportInv'
  <1>1. ReportIsComplete'
    BY DEF ReportInv, ReportIsComplete, Reported
  <1>. QED
    BY <1>1, SameApprovable DEF ReportInv

LEMMA BeginEvaluationReports ==
    ASSUME ReportInv, UNCHANGED facts, NEW c \in Evaluations, BeginEvaluation(c),
           UNCHANGED calibratorVars
    PROVE  ReportInv'
  <1>1. eval' = [pc |-> "load", cmd |-> c, todo |-> c.dirs, games |-> <<>>, skips |-> {},
                 again |-> <<>>]
    BY DEF BeginEvaluation
  <1>2. Evaluated'
    BY <1>1, CommandAssumption DEF Evaluated, Shaped, OfIdentity
  <1>. QED
    BY <1>2, ReportStands DEF BeginEvaluation, calibratorVars

LEMMA LoadShardReports ==
    ASSUME ShardInv, ReportInv, UNCHANGED facts, LoadShard, UNCHANGED calibratorVars
    PROVE  ReportInv'
  <1>1. eval # Idle /\ Evaluated /\ report' = report
    BY IdleIsNoEvaluation DEF LoadShard, Refuse, ReportInv
  <1>2. CASE eval' = Idle
    BY <1>1, <1>2, ReportStands DEF calibratorVars
  <1>3. CASE eval' # Idle
    <2>. DEFINE d == Head(eval.todo)
                new == ShardGames(d)
                i == eval.cmd.ident
    <2>1. /\ eval' = [eval EXCEPT !.todo = Tail(@), !.games = Joined(@, new),
                                  !.skips = @ \cup disk[d].manifest.skips]
          /\ disk[d].manifest.ident = i
      BY <1>3 DEF LoadShard, Refuse, MatchesShard
    <2>2. d \in Dirs /\ Tail(eval.todo) \in Seq(Dirs)
      BY <1>1 DEF Evaluated, LoadShard
    <2>3. OfIdentity(new, disk[d].manifest.skips, i)
      BY <2>1, <2>2, LoadedIsOfIdentity
    <2>4. OfIdentity(eval.games, eval.skips, i)
      BY <1>1 DEF Evaluated
    <2>. HIDE DEF d, new, i
    <2>5. /\ DOMAIN Joined(eval.games, new) = DOMAIN eval.games \cup DOMAIN new
          /\ \A g \in DOMAIN eval.games : Joined(eval.games, new)[g] = eval.games[g]
          /\ \A g \in DOMAIN new \ DOMAIN eval.games : Joined(eval.games, new)[g] = new[g]
      BY DEF Joined
    <2>6. OfIdentity(Joined(eval.games, new), eval.skips \cup disk[d].manifest.skips, i)
      BY <2>3, <2>4, <2>5 DEF OfIdentity
    <2>7. /\ eval'.pc = eval.pc /\ eval'.cmd = eval.cmd /\ eval'.todo = Tail(eval.todo)
          /\ eval'.games = Joined(eval.games, new)
          /\ eval'.skips = eval.skips \cup disk[d].manifest.skips
          /\ eval'.again = eval.again /\ Shaped(eval')
      BY <1>1, <2>1 DEF Evaluated, Shaped
    <2>8. eval.pc = "load"
      BY DEF LoadShard
    <2>9. Evaluated'
      BY <1>1, <2>2, <2>6, <2>7, <2>8 DEF Evaluated, i, Shaped, OfIdentity
    <2>. QED
      BY <1>1, <2>9, ReportStands DEF calibratorVars
  <1>. QED
    BY <1>2, <1>3

\* The evaluation goes on to the repro shard, or from it to its decision.
LEMMA NextPhaseReports ==
    ASSUME ReportInv, eval # Idle, UNCHANGED <<facts, report, calibratorVars>>,
           NEW pc \in {"repro", "decide"}, NEW again, Accounted,
           eval' = [eval EXCEPT !.pc = pc, !.again = again]
    PROVE  ReportInv'
  <1>1. Evaluated
    BY DEF ReportInv
  <1>2. /\ eval'.pc = pc /\ eval'.cmd = eval.cmd /\ eval'.todo = eval.todo
        /\ eval'.games = eval.games /\ eval'.skips = eval.skips /\ Shaped(eval')
    BY <1>1 DEF Evaluated, Shaped
  <1>3. Evaluated'
    BY <1>1, <1>2 DEF Evaluated, Shaped, OfIdentity, Accounted, Labelled
  <1>. QED
    BY <1>3, ReportStands DEF calibratorVars

LEMMA FitReports ==
    ASSUME ReportInv, UNCHANGED facts, Fit, UNCHANGED calibratorVars
    PROVE  ReportInv'
  <1>1. eval # Idle
    BY IdleIsNoEvaluation DEF Fit
  <1>2. CASE Refuse
    BY <1>2, ReportStands DEF Refuse, calibratorVars
  <1>3. CASE report' = [NoReport EXCEPT !.decision = "INSUFFICIENT_EVIDENCE"] /\ eval' = Idle
    <2>1. report' = [decision |-> "INSUFFICIENT_EVIDENCE", approvable |-> FALSE]
      BY <1>3 DEF NoReport
    <2>2. ~Reported' /\ ~report'.approvable
      BY <2>1 DEF Reported
    <2>. DEFINE fit == LastFit(candidate.certified.games)
    <2>3. fit' = fit
      BY SameCandidateFit DEF calibratorVars
    <2>. HIDE DEF fit
    <2>4. ApprovableIsReproduced'
      BY <2>2, <2>3 DEF ReportInv, ApprovableIsReproduced, ReproducedIn, calibratorVars, fit
    <2>. QED
      BY <1>3, <2>2, <2>4 DEF ReportInv, ReportIsComplete
  <1>4. CASE Accounted /\ eval' = [eval EXCEPT !.pc = "repro"] /\ report' = report
    <2>1. eval' = [eval EXCEPT !.pc = "repro", !.again = eval.again]
      BY <1>1, <1>4 DEF ReportInv, Evaluated, Shaped
    <2>. QED
      BY <1>1, <1>4, <2>1, NextPhaseReports
  <1>. QED
    BY <1>2, <1>3, <1>4 DEF Fit

LEMMA LoadReproReports ==
    ASSUME ReportInv, UNCHANGED facts, LoadRepro, UNCHANGED calibratorVars
    PROVE  ReportInv'
  <1>1. eval # Idle /\ report' = report
    BY IdleIsNoEvaluation DEF LoadRepro, Refuse
  <1>2. CASE eval' = Idle
    BY <1>1, <1>2, ReportStands DEF calibratorVars
  <1>3. CASE eval' # Idle
    <2>1. eval' = [eval EXCEPT !.pc = "decide", !.again = ShardGames(eval.cmd.repro)]
      BY <1>3 DEF LoadRepro, Refuse
    <2>2. Accounted
      BY <1>1 DEF ReportInv, Evaluated, LoadRepro
    <2>. QED
      BY <1>1, <2>1, <2>2, NextPhaseReports
  <1>. QED
    BY <1>2, <1>3

LEMMA DecideReports ==
    ASSUME ReportInv, UNCHANGED facts, NEW b, NEW slices \in BOOLEAN, NEW coherent \in BOOLEAN,
           Decide(b, slices, coherent), UNCHANGED calibratorVars
    PROVE  ReportInv'
  <1>1. eval # Idle /\ Evaluated /\ Accounted /\ eval' = Idle
    BY IdleIsNoEvaluation DEF Decide, ReportInv, Evaluated
  <1>. DEFINE fold0 == FitGames(Labelled, Folds[1])
              repro == eval.cmd.repro # "none" /\ Reproduced(eval.again, fold0)
  <1>2. /\ report'.cmd = eval.cmd /\ report'.games = eval.games /\ report'.skips = eval.skips
        /\ report'.again = eval.again /\ report'.fold0 = fold0
        /\ report'.gate = FullGate(b, slices, coherent, repro)
        /\ report'.approvable = (ChronologyHolds /\ coherent /\ repro)
    BY DEF Decide
  <1>3. ReportIsComplete'
    BY <1>1, <1>2, CommandAssumption, ScoreableAreFinal
       DEF ReportIsComplete, Evaluated, OfIdentity, Accounted, Labelled
  <1>4. report'.approvable \/ report'.gate => repro
    BY <1>2 DEF FullGate
  <1>5. repro => ReproducedIn(report')
    BY <1>2 DEF Reproduced, ReproducedIn
  <1>. DEFINE fit == LastFit(candidate.certified.games)
  <1>6. fit' = fit
    BY SameCandidateFit DEF calibratorVars
  <1>. HIDE DEF fit, repro
  <1>7. ApprovableIsReproduced'
    BY <1>4, <1>5, <1>6 DEF ReportInv, ApprovableIsReproduced, ReproducedIn, calibratorVars, fit
  <1>. QED
    BY <1>1, <1>3, <1>7 DEF ReportInv

LEMMA LastFitKeeps ==
    ASSUME NEW evidence, NEW g \in DOMAIN LastFit(evidence)
    PROVE  LastFit(evidence)[g] = evidence[g]
  BY DEF LastFit

\* Half way to the next kickoff is before it.
LEMMA FinalEndBeforeKickoff ==
    ASSUME Facts, Labelled \in SUBSET Games, Labelled # {}, NEW c, c.kickoff \in Nat,
           c.kickoff > Max(AsOf(Labelled))
    PROVE  FinalEnd(c) < c.kickoff
  <1>. DEFINE last == Max(AsOf(Labelled))
              left == c.kickoff - last
  <1>1. last \in Nat /\ left \in Nat /\ left > 0
    BY LastTimeIs
  <1>2. FinalEnd(c) = last + left \div 2
    BY DEF FinalEnd
  <1>. HIDE DEF last
  <1>3. left \div 2 < left
    <2>. HIDE DEF left
    <2>. QED
      BY <1>1
  <1>. QED
    BY <1>1, <1>2, <1>3

LEMMA FitFinalReports ==
    ASSUME Facts, ReportInv, UNCHANGED facts, FitFinal
    PROVE  ReportInv'
  <1>1. eval # Idle /\ Evaluated /\ report' = report /\ UNCHANGED calibratorVars
    BY IdleIsNoEvaluation DEF FitFinal, ReportInv
  <1>2. CASE eval' = Idle
    BY <1>1, <1>2, ReportStands DEF calibratorVars
  <1>3. CASE /\ Accounted /\ Certifies(report, eval.cmd)
             /\ EnoughSeasons /\ Trainable /\ Refits(report) /\ Admissible(eval.cmd)
             /\ eval' = [eval EXCEPT !.pc = "register", !.again = report]
    <2>1. /\ eval'.pc = "register" /\ eval'.again = report /\ eval'.cmd = eval.cmd
          /\ eval'.todo = eval.todo /\ eval'.games = eval.games /\ eval'.skips = eval.skips
          /\ Shaped(eval')
      BY <1>1, <1>3 DEF Evaluated, Shaped
    <2>2. ReproducedIn(report) /\ report.cmd.ident = eval.cmd.ident
      BY <1>3 DEF Certifies, ReportInv, ApprovableIsReproduced, Reported
    <2>3. /\ eval.cmd.kickoff \in Nat /\ Labelled \in SUBSET Games /\ Labelled # {}
      <3>1. eval.cmd.kickoff \in Nat
        BY <1>1, CommandAssumption DEF FitFinal, Evaluated
      <3>2. Labelled \in SUBSET Games
        BY <1>1, CommandAssumption, ScoreableAreFinal DEF Evaluated, OfIdentity, Labelled
      <3>3. ASSUME Labelled = {} PROVE FALSE
        <4>1. SeasonsOf(Labelled) = {}
          BY <3>3 DEF SeasonsOf
        <4>. QED
          BY <1>3, <4>1, FS_EmptySet DEF EnoughSeasons
      <3>. QED
        BY <3>1, <3>2, <3>3
    <2>4. FinalEnd(eval.cmd) < eval.cmd.kickoff
      BY <1>3, <2>3, FinalEndBeforeKickoff DEF Admissible
    <2>5. \A g \in DOMAIN LastFit(report.games) : eval.games[g] = report.games[g]
      BY <1>3, LastFitKeeps DEF Refits
    <2>. DEFINE fit == LastFit(report.games)
                end == FinalEnd(eval.cmd)
    <2>6. LastFit(eval.again.games)' = fit
      BY <2>1 DEF LastFit, LastFold, FitGames, SeasonFold, SeasonsOf, InSeason, PreviousSeason, AsOf
    <2>7. end' = end
      BY <2>1, SameFinalEnd
    <2>8. \A g \in DOMAIN eval.games : facts.known[g] <= end
      BY <1>3 DEF Admissible, Labelled
    <2>. HIDE DEF fit, end
    <2>9. Warranted(eval.games, eval.skips, end, eval.cmd, eval.again)'
      BY <1>3, <2>1, <2>2, <2>4, <2>5, <2>6, <2>7, <2>8
         DEF Warranted, ReproducedIn, Accounted, Labelled, fit, end
    <2>10. Evaluated'
      BY <1>1, <1>3, <2>1, <2>9 DEF Evaluated, Shaped, OfIdentity, Accounted, Labelled, end
    <2>. QED
      BY <1>1, <2>10, ReportStands DEF calibratorVars
  <1>. QED
    BY <1>2, <1>3 DEF FitFinal

LEMMA RegisterFinalReports ==
    ASSUME ReportInv, UNCHANGED facts, RegisterFinal
    PROVE  ReportInv'
  <1>1. eval # Idle /\ Evaluated /\ report' = report /\ candidate' = candidate
    BY IdleIsNoEvaluation DEF RegisterFinal, ReportInv
  <1>2. CASE eval' = Idle
    BY <1>1, <1>2, ReportStands
  <1>3. CASE payload' = Fitted /\ eval' = [eval EXCEPT !.pc = "manifest"]
    <2>. DEFINE end == FinalEnd(eval.cmd)
    <2>1. /\ eval'.pc = "manifest" /\ eval'.again = eval.again /\ eval'.cmd = eval.cmd
          /\ eval'.todo = eval.todo /\ eval'.games = eval.games /\ eval'.skips = eval.skips
          /\ Shaped(eval')
      BY <1>1, <1>3 DEF Evaluated, Shaped
    <2>2. Warranted(eval.games, eval.skips, end, eval.cmd, eval.again)'
      BY <1>1, <2>1, SameWarrant DEF Evaluated, RegisterFinal
    <2>3. end' = end
      BY <2>1, SameFinalEnd
    <2>4. payload'.fit = eval.games /\ payload'.end = end
      BY <1>3 DEF Fitted
    <2>5. Accounted
      BY <1>1 DEF Evaluated, RegisterFinal
    <2>. HIDE DEF end
    <2>6. Evaluated'
      BY <1>1, <2>1, <2>2, <2>3, <2>4, <2>5
         DEF Evaluated, Shaped, OfIdentity, Accounted, Labelled, end
    <2>. QED
      BY <1>1, <2>6, ReportStands
  <1>. QED
    BY <1>2, <1>3 DEF RegisterFinal

LEMMA WriteCandidateReports ==
    ASSUME ReportInv, UNCHANGED facts, WriteCandidate
    PROVE  ReportInv'
  <1>1. eval # Idle /\ Evaluated /\ report' = report /\ eval' = Idle
    BY IdleIsNoEvaluation DEF WriteCandidate, ReportInv
  <1>2. /\ candidate'.fit = eval.games /\ candidate'.end = FinalEnd(eval.cmd)
        /\ candidate'.cmd = eval.cmd /\ candidate'.skips = eval.skips
        /\ candidate'.certified = eval.again
    BY <1>1 DEF WriteCandidate, Evaluated
  <1>3. Warranted(eval.games, eval.skips, FinalEnd(eval.cmd), eval.cmd, eval.again)
    BY <1>1 DEF Evaluated, WriteCandidate
  <1>. DEFINE fit == LastFit(eval.again.games)
              end == FinalEnd(eval.cmd)
  <1>4. LastFit(candidate.certified.games)' = fit
    BY <1>2 DEF LastFit, LastFold, FitGames, SeasonFold, SeasonsOf, InSeason, PreviousSeason, AsOf
  <1>. HIDE DEF fit, end
  <1>5. ApprovableIsReproduced'
    BY <1>1, <1>2, <1>3, <1>4
       DEF ReportInv, ApprovableIsReproduced, Reported, ReproducedIn, Warranted, fit, end
  <1>. QED
    BY <1>1, <1>5 DEF ReportInv, ReportIsComplete, Reported

LEMMA ReportStep == ASSUME Facts, ShardInv, ReportInv, [Next]_vars PROVE ReportInv'
  <1>1. UNCHANGED facts
    BY OneProgram
  <1>2. CASE UNCHANGED <<eval, report, calibratorVars>>
    BY <1>1, <1>2, SameEvaluation, ReportStands DEF ReportInv, calibratorVars
  <1>3. CASE StudyNext /\ UNCHANGED calibratorVars
    <2>1. CASE \E j \in Jobs : JobStep(j) \/ \E c \in Commands : Launch(j, c)
      BY <1>2, <1>3, <2>1
         DEF JobStep, SkipGame, WritePartial, Rename, WriteManifest, KillJob, Launch
    <2>2. CASE \E c \in Evaluations : BeginEvaluation(c)
      BY <1>1, <1>3, <2>2, BeginEvaluationReports
    <2>3. CASE LoadShard
      BY <1>1, <1>3, <2>3, LoadShardReports
    <2>4. CASE Fit
      BY <1>1, <1>3, <2>4, FitReports
    <2>5. CASE LoadRepro
      BY <1>1, <1>3, <2>5, LoadReproReports
    <2>6. CASE KillEvaluation
      BY <1>1, <1>3, <2>6, ReportStands DEF KillEvaluation, calibratorVars
    <2>7. CASE \E b \in {"none", "better", "worse"}, slices, coherent \in BOOLEAN :
                  Decide(b, slices, coherent)
      BY <1>1, <1>3, <2>7, DecideReports
    <2>. QED
      BY <1>3, <2>1, <2>2, <2>3, <2>4, <2>5, <2>6, <2>7 DEF StudyNext
  <1>4. CASE FitFinal \/ RegisterFinal \/ WriteCandidate
    BY <1>1, <1>4, FitFinalReports, RegisterFinalReports, WriteCandidateReports
  <1>5. CASE UNCHANGED <<studyVars, calibratorVars>>
    BY <1>2, <1>5 DEF studyVars
  <1>. QED
    BY <1>3, <1>4, <1>5, OneProgram DEF CalibratorNext

LEMMA ReportsHold == Spec => []ReportInv
  <1>1. Init => ReportInv
    BY ReportInit DEF Init
  <1>. QED
    BY <1>1, ReportStep, ShardsHold, FactsHold, PTL DEF Spec

\* Every final game of a report's data is labelled or skipped in it, and only
\* once, whatever the directories it was given hold.
THEOREM ReportsAreComplete == Spec => []ReportIsComplete
  <1>1. ReportInv => ReportIsComplete
    BY DEF ReportInv
  <1>. QED
    BY <1>1, ReportsHold, PTL

\* What the registry would approve was replayed twice with the same evidence,
\* and a production calibrator was fitted on all of it, within its window, and
\* on what the certified one was fitted on.
THEOREM WhatIsApprovableIsReproduced == Spec => []ApprovableIsReproduced
  <1>1. ReportInv => ApprovableIsReproduced
    BY DEF ReportInv
  <1>. QED
    BY <1>1, ReportsHold, PTL

-----------------------------------------------------------------------------
(* The walk-forward backtest. *)

LEMMA CalibratedRowIsPast ==
    ASSUME Facts, NEW items \in SUBSET Games, NEW i \in Games, NEW r, r = CalibratedRow(items, i)
    PROVE  /\ \A k \in r.fit : k # r.item /\ facts.known[k] < facts.asOf[r.item]
           /\ \A c \in r.select :
                 /\ c.item # r.item /\ facts.known[c.item] < facts.asOf[r.item]
                 /\ \A k \in c.fit : k # c.item /\ facts.known[k] < facts.asOf[c.item]
  <1>1. \A level, k : k \in Games =>
            \A m \in FitOf(items, level, k) : m # k /\ facts.known[m] < facts.asOf[k]
    BY Chronology DEF FitOf, KnownBefore
  <1>2. \A level : \A k \in SelectOf(items, level, i) :
            k \in Games /\ k # i /\ facts.known[k] < facts.asOf[i]
    BY Chronology DEF SelectOf
  <1>. DEFINE usable == {n \in DOMAIN Levels :
                            /\ Enough(FitOf(items, Levels[n], i))
                            /\ Enough(SelectOf(items, Levels[n], i))}
              level == Levels[Min(usable)]
  <1>3. r.item = i
    BY DEF CalibratedRow
  <1>4. CASE usable = {}
    <2>1. r.fit = {} /\ r.select = {}
      BY <1>4 DEF CalibratedRow, CalibratedAt
    <2>. QED
      BY <2>1
  <1>5. CASE usable # {}
    <2>1. /\ r.fit = FitOf(items, level, i)
          /\ r.select = {[item |-> k, fit |-> FitOf(items, level, k)] :
                            k \in SelectOf(items, level, i)}
      BY <1>5 DEF CalibratedRow, CalibratedAt
    <2>. HIDE DEF level, usable
    <2>2. ASSUME NEW c \in r.select
          PROVE  /\ c.item # i /\ facts.known[c.item] < facts.asOf[i]
                 /\ \A k \in c.fit : k # c.item /\ facts.known[k] < facts.asOf[c.item]
      <3>1. PICK k \in SelectOf(items, level, i) : c = [item |-> k, fit |-> FitOf(items, level, k)]
        BY <2>1
      <3>. QED
        BY <1>1, <1>2, <3>1
    <2>3. \A k \in r.fit : k # i /\ facts.known[k] < facts.asOf[i]
      BY <1>1, <2>1
    <2>. QED
      BY <1>3, <2>2, <2>3
  <1>. QED
    BY <1>4, <1>5

BacktestInv == history \subseteq Games /\ CalibratedFromThePast

LEMMA BacktestStep == ASSUME Facts, BacktestInv, [Next]_vars PROVE BacktestInv'
  <1>1. UNCHANGED facts
    BY OneProgram
  <1>2. CASE UNCHANGED rows /\ history' \subseteq Games
    BY <1>1, <1>2 DEF BacktestInv, CalibratedFromThePast
  <1>3. ASSUME NEW h \in SUBSET Games, NEW cs, StartFold(h, cs) PROVE BacktestInv'
    BY <1>2, <1>3 DEF StartFold, BacktestInv
  <1>4. ASSUME Visit PROVE BacktestInv'
    <2>. DEFINE scoreable == {i \in Predicted(Min(todo)) : ~Excluded(i)}
    <2>1. /\ rows' = rows \cup {CalibratedRow(history \cup scoreable, i) : i \in scoreable}
          /\ history' = history
      BY <1>4 DEF Visit
    <2>2. scoreable \subseteq Games
      BY DEF Predicted
    <2>. HIDE DEF scoreable
    <2>3. ASSUME NEW r \in rows', r \notin rows
          PROVE  /\ \A k \in r.fit : k # r.item /\ facts.known[k] < facts.asOf[r.item]
                 /\ \A c \in r.select :
                       /\ c.item # r.item /\ facts.known[c.item] < facts.asOf[r.item]
                       /\ \A k \in c.fit : k # c.item /\ facts.known[k] < facts.asOf[c.item]
      <3>1. PICK i \in scoreable : r = CalibratedRow(history \cup scoreable, i)
        BY <2>1, <2>3
      <3>2. history \cup scoreable \in SUBSET Games /\ i \in Games
        BY <2>2 DEF BacktestInv
      <3>. QED
        BY <3>1, <3>2, CalibratedRowIsPast
    <2>4. CalibratedFromThePast'
      BY <1>1, <2>3 DEF BacktestInv, CalibratedFromThePast
    <2>. QED
      BY <2>1, <2>4 DEF BacktestInv
  <1>5. ASSUME NEW folds, EndFold(folds) PROVE BacktestInv'
    BY <1>2, <1>5 DEF EndFold, BacktestInv
  <1>6. CASE UNCHANGED backtestVars
    BY <1>2, <1>6 DEF backtestVars, BacktestInv
  <1>. QED
    BY <1>3, <1>4, <1>5, <1>6, OneProgram DEF BacktestNext

LEMMA BacktestHolds == Spec => []BacktestInv
  <1>1. Init => BacktestInv
    BY DEF Init, BacktestInit, BacktestInv, CalibratedFromThePast
  <1>. QED
    BY <1>1, BacktestStep, FactsHold, PTL DEF Spec

\* Neither a calibrator nor the choice of its method has seen an outcome that
\* was not known when the probability it calibrates was predicted, for every
\* plan, chronology, history the caller hands over and sample minimum.
THEOREM CalibrationUsesThePast == Spec => []CalibratedFromThePast
  <1>1. BacktestInv => CalibratedFromThePast
    BY DEF BacktestInv
  <1>. QED
    BY <1>1, BacktestHolds, PTL

-----------------------------------------------------------------------------
(* `nflprops reproduce`: equal bytes are equal rows, and the second build    *)
(* found its output deleted.                                                 *)

Ids(t) == {t[n].id : n \in DOMAIN t}
RowOf(t, id) == CHOOSE n \in DOMAIN t : t[n].id = id

\* No prediction twice.
Distinct(t) == \A n, k \in DOMAIN t : t[n].id = t[k].id => n = k

LEMMA OneRowPerId ==
    ASSUME NEW t \in Tables, Distinct(t)
    PROVE  Cardinality(Ids(t)) = Len(t)
  <1>. DEFINE f == [n \in 1..Len(t) |-> t[n].id]
  <1>1. Len(t) \in Nat /\ DOMAIN t = 1..Len(t)
    BY TablesAreSequences
  <1>2. f \in Bijection(1..Len(t), Ids(t))
    <2>1. f \in [1..Len(t) -> Ids(t)]
      BY <1>1 DEF Ids
    <2>2. \A n, k \in 1..Len(t) : f[n] = f[k] => n = k
      BY <1>1 DEF Distinct
    <2>3. \A id \in Ids(t) : \E n \in 1..Len(t) : f[n] = id
      BY <1>1 DEF Ids
    <2>. HIDE DEF f
    <2>. QED
      BY <2>1, <2>2, <2>3 DEF Bijection, Injection, Surjection, IsInjective
  <1>3. ExistsBijection(1..Len(t), Ids(t))
    BY <1>2 DEF ExistsBijection
  <1>. QED
    BY <1>1, <1>3, FS_CountingElements

LEMMA RowIs ==
    ASSUME NEW t, Distinct(t), NEW n \in DOMAIN t
    PROVE  RowOf(t, t[n].id) = n
  <1>1. \E m \in DOMAIN t : t[m].id = t[n].id
    OBVIOUS
  <1>. QED
    BY <1>1 DEF RowOf, Distinct

LEMMA EqualBytes ==
    ASSUME NEW t \in Tables, NEW u \in Tables, NEW C, Distinct(t), Distinct(u),
           ProbabilityBytes(t, C) = ProbabilityBytes(u, C)
    PROVE  /\ Len(t) = Len(u) /\ Ids(t) = Ids(u)
           /\ \A id \in Ids(t), c \in C : t[RowOf(t, id)].p[c] = u[RowOf(u, id)].p[c]
  <1>. DEFINE Row(x, n) == [id |-> x[n].id, p |-> [c \in C |-> x[n].p[c]]]
  <1>1. \A n \in DOMAIN t : \E m \in DOMAIN u : Row(t, n) = Row(u, m)
    <2>1. ASSUME NEW n \in DOMAIN t PROVE \E m \in DOMAIN u : Row(t, n) = Row(u, m)
      <3>1. Row(t, n) \in ProbabilityBytes(u, C)
        BY DEF ProbabilityBytes
      <3>. QED
        BY <3>1 DEF ProbabilityBytes
    <2>. QED
      BY <2>1
  <1>2. \A m \in DOMAIN u : \E n \in DOMAIN t : Row(t, n) = Row(u, m)
    <2>1. ASSUME NEW m \in DOMAIN u PROVE \E n \in DOMAIN t : Row(t, n) = Row(u, m)
      <3>1. Row(u, m) \in ProbabilityBytes(t, C)
        BY DEF ProbabilityBytes
      <3>. QED
        BY <3>1 DEF ProbabilityBytes
    <2>. QED
      BY <2>1
  <1>3. \A n \in DOMAIN t, m \in DOMAIN u :
            Row(t, n) = Row(u, m) =>
                t[n].id = u[m].id /\ \A c \in C : t[n].p[c] = u[m].p[c]
    <2>1. ASSUME NEW n \in DOMAIN t, NEW m \in DOMAIN u, Row(t, n) = Row(u, m)
          PROVE  t[n].id = u[m].id /\ \A c \in C : t[n].p[c] = u[m].p[c]
      <3>1. Row(t, n).id = Row(u, m).id /\ Row(t, n).p = Row(u, m).p
        BY <2>1
      <3>2. [c \in C |-> t[n].p[c]] = [c \in C |-> u[m].p[c]]
        BY <3>1
      <3>3. ASSUME NEW c \in C PROVE t[n].p[c] = u[m].p[c]
        <4>1. [d \in C |-> t[n].p[d]][c] = [d \in C |-> u[m].p[d]][c]
          BY <3>2
        <4>. QED
          BY <4>1
      <3>. QED
        BY <3>1, <3>3
    <2>. QED
      BY <2>1
  <1>. HIDE DEF Row
  <1>4. Ids(t) = Ids(u)
    BY <1>1, <1>2, <1>3 DEF Ids
  <1>5. Len(t) = Len(u)
    BY <1>4, OneRowPerId
  <1>6. ASSUME NEW id \in Ids(t), NEW c \in C PROVE t[RowOf(t, id)].p[c] = u[RowOf(u, id)].p[c]
    <2>1. PICK n \in DOMAIN t : id = t[n].id
      BY DEF Ids
    <2>2. PICK m \in DOMAIN u : Row(t, n) = Row(u, m)
      BY <1>1
    <2>3. u[m].id = id /\ t[n].p[c] = u[m].p[c]
      BY <1>3, <2>1, <2>2
    <2>4. RowOf(t, id) = n /\ RowOf(u, id) = m
      BY <2>1, <2>3, RowIs
    <2>. QED
      BY <2>3, <2>4
  <1>. QED
    BY <1>4, <1>5, <1>6

\* What a pass says: ReproductionIsARebuild, of the last one.
Rebuilt(x) ==
    LET a == x.artifact
    IN /\ x.inputs = [i \in Inputs |-> a.experiment[i]]
       /\ Len(x.first) = Len(x.second.table) /\ Ids(x.first) = Ids(x.second.table)
       /\ \A id \in Ids(x.first), c \in a.columns :
             x.first[RowOf(x.first, id)].p[c] = x.second.table[RowOf(x.second.table, id)].p[c]
       /\ a.output \in a.derived => x.second.build = "second"

\* A built table that can be compared.
Comparable(t, columns) == t \in Tables /\ Serialisable(t, columns)

Rebuilding ==
    LET a == rebuild.artifact
    IN /\ rebuild = [pc |-> rebuild.pc, artifact |-> a, first |-> rebuild.first,
                     inputs |-> rebuild.inputs]
       /\ rebuild.pc \in {"first", "reset", "second", "compare"}
       /\ a.output \in Files
       /\ rebuild.inputs = [i \in Inputs |-> a.experiment[i]]
       /\ rebuild.pc # "first" => Comparable(rebuild.first, a.columns)
       /\ rebuild.pc = "second" /\ a.output \in a.derived => runDir[a.output] = Absent
       /\ rebuild.pc = "compare" =>
             /\ Comparable(runDir[a.output].table, a.columns)
             /\ a.output \in a.derived => runDir[a.output].build = "second"

ReproductionInv ==
    /\ runDir = [f \in Files |-> runDir[f]]
    /\ rebuild # NotRunning => Rebuilding
    /\ passed # NotRunning => Rebuilt(passed)

LEMMA NotRunningIs == NotRunning.pc = "idle" /\ ~HoldsTable(Absent)
  <1>1. DOMAIN Absent = {"state"}
    BY DEF Absent
  <1>2. ASSUME HoldsTable(Absent) PROVE FALSE
    <2>1. DOMAIN Absent = {"table", "build"}
      BY <1>2 DEF HoldsTable
    <2>. QED
      BY <1>1, <2>1
  <1>. QED
    BY <1>2 DEF NotRunning

LEMMA BeginReproductionRebuilds ==
    ASSUME ReproductionInv, BeginReproduction
    PROVE  ReproductionInv'
  <1>. DEFINE a == runDir["reproduction"]
  <1>1. /\ rebuild' = [pc |-> "first", artifact |-> a, first |-> <<>>,
                       inputs |-> [i \in Inputs |-> runDir[a.paths[i]]]]
        /\ a.output \in Files /\ passed' = passed
        /\ a.experiment = runDir["experiment"]
        /\ \A i \in Inputs : runDir[a.paths[i]] = runDir["experiment"][i]
    BY DEF BeginReproduction, Identified, PathsInside, InputsPinned
  <1>2. runDir' = [f \in Files |-> runDir'[f]]
    BY DEF BeginReproduction
  <1>. HIDE DEF a
  <1>3. Rebuilding'
    BY <1>1 DEF Rebuilding
  <1>. QED
    BY <1>1, <1>2, <1>3 DEF ReproductionInv

LEMMA BuildOnceRebuilds ==
    ASSUME ReproductionInv, rebuild # NotRunning, NEW file, BuildOnce(file),
           \/ file = runDir[rebuild.artifact.output]
           \/ \E t \in Tables : file = Written(t)
    PROVE  ReproductionInv'
  <1>. DEFINE a == rebuild.artifact
  <1>1. /\ Rebuilding /\ passed' = passed
        /\ runDir' = [runDir EXCEPT ![a.output] = file]
    BY DEF ReproductionInv, BuildOnce
  <1>2. runDir' = [f \in Files |-> runDir'[f]] /\ runDir'[a.output] = file
    BY <1>1 DEF ReproductionInv, Rebuilding
  <1>3. CASE rebuild' = NotRunning
    BY <1>1, <1>2, <1>3 DEF ReproductionInv
  <1>4. CASE /\ HoldsTable(file) /\ Serialisable(file.table, a.columns)
             /\ rebuild.pc = "first" /\ rebuild' = [rebuild EXCEPT !.pc = "reset", !.first = file.table]
    <2>1. Comparable(file.table, a.columns)
      BY <1>4 DEF HoldsTable, Comparable
    <2>. HIDE DEF a
    <2>2. /\ rebuild' = [pc |-> "reset", artifact |-> a, first |-> file.table,
                         inputs |-> rebuild.inputs]
      BY <1>1, <1>4 DEF Rebuilding, a
    <2>3. Rebuilding'
      BY <1>1, <2>1, <2>2 DEF Rebuilding, a
    <2>. QED
      BY <1>1, <1>2, <2>3 DEF ReproductionInv
  <1>5. CASE /\ HoldsTable(file) /\ Serialisable(file.table, a.columns)
             /\ rebuild.pc = "second" /\ rebuild' = [rebuild EXCEPT !.pc = "compare"]
    <2>1. Comparable(file.table, a.columns)
      BY <1>5 DEF HoldsTable, Comparable
    <2>2. a.output \in a.derived => file.build = "second"
      <3>1. CASE file = runDir[a.output]
        BY <1>1, <1>5, <3>1, NotRunningIs DEF Rebuilding
      <3>2. CASE \E t \in Tables : file = Written(t)
        BY <1>5, <3>2 DEF Written
      <3>. QED
        BY <3>1, <3>2
    <2>. HIDE DEF a
    <2>3. /\ rebuild' = [pc |-> "compare", artifact |-> a, first |-> rebuild.first,
                         inputs |-> rebuild.inputs]
      BY <1>1, <1>5 DEF Rebuilding, a
    <2>4. Rebuilding'
      BY <1>1, <1>2, <1>5, <2>1, <2>2, <2>3 DEF Rebuilding, a
    <2>. QED
      BY <1>1, <1>2, <2>4 DEF ReproductionInv
  <1>. QED
    BY <1>3, <1>4, <1>5 DEF BuildOnce

LEMMA ResetDerivedRebuilds ==
    ASSUME ReproductionInv, ResetDerived
    PROVE  ReproductionInv'
  <1>. DEFINE a == rebuild.artifact
  <1>1. Rebuilding /\ passed' = passed
    BY NotRunningIs DEF ReproductionInv, ResetDerived
  <1>2. /\ runDir' = [f \in Files |-> runDir'[f]]
        /\ a.output \in a.derived => runDir'[a.output] = Absent
    BY <1>1 DEF ResetDerived, Rebuilding
  <1>. HIDE DEF a
  <1>3. rebuild' = [pc |-> "second", artifact |-> a, first |-> rebuild.first,
                    inputs |-> rebuild.inputs]
    BY <1>1 DEF ResetDerived, Rebuilding, a
  <1>4. rebuild.pc = "reset"
    BY DEF ResetDerived
  <1>5. Rebuilding'
    BY <1>1, <1>2, <1>3, <1>4 DEF Rebuilding, a
  <1>. QED
    BY <1>1, <1>2, <1>5 DEF ReproductionInv

LEMMA CompareRebuilds ==
    ASSUME ReproductionInv, Compare
    PROVE  ReproductionInv'
  <1>. DEFINE a == rebuild.artifact
              second == runDir[a.output]
  <1>1. Rebuilding /\ rebuild' = NotRunning /\ runDir' = runDir /\ rebuild.pc = "compare"
    BY NotRunningIs DEF ReproductionInv, Compare
  <1>2. CASE passed' = passed
    BY <1>1, <1>2 DEF ReproductionInv
  <1>3. CASE /\ ProbabilityBytes(rebuild.first, a.columns)
                    = ProbabilityBytes(second.table, a.columns)
             /\ passed' = [pc |-> "pass", artifact |-> a, inputs |-> rebuild.inputs,
                           first |-> rebuild.first, second |-> second]
    <2>1. Comparable(rebuild.first, a.columns) /\ Comparable(second.table, a.columns)
      BY <1>1 DEF Rebuilding
    <2>2. /\ rebuild.inputs = [i \in Inputs |-> a.experiment[i]]
          /\ a.output \in a.derived => second.build = "second"
      BY <1>1 DEF Rebuilding
    <2>. HIDE DEF a, second
    <2>3. /\ rebuild.first \in Tables /\ second.table \in Tables
          /\ Distinct(rebuild.first) /\ Distinct(second.table)
      BY <2>1 DEF Comparable, Serialisable, Distinct
    <2>. DEFINE t == rebuild.first
                u == second.table
                C == a.columns
    <2>4. /\ Len(t) = Len(u) /\ Ids(t) = Ids(u)
          /\ \A id \in Ids(t), c \in C : t[RowOf(t, id)].p[c] = u[RowOf(u, id)].p[c]
      <3>. HIDE DEF t, u, C
      <3>. QED
        BY <1>3, <2>3, EqualBytes DEF t, u, C
    <2>5. Rebuilt(passed')
      BY <1>3, <2>2, <2>4 DEF Rebuilt
    <2>. QED
      BY <1>1, <2>5 DEF ReproductionInv
  <1>. QED
    BY <1>2, <1>3 DEF Compare

LEMMA ReproductionStep == ASSUME ReproductionInv, [Next]_vars PROVE ReproductionInv'
  <1>1. CASE UNCHANGED <<runDir, rebuild, passed>>
    BY <1>1 DEF ReproductionInv, Rebuilding
  <1>2. ASSUME NEW f \in Files, NEW v, runDir' = [runDir EXCEPT ![f] = v],
               UNCHANGED <<rebuild, passed>>, rebuild = NotRunning
        PROVE  ReproductionInv'
    BY <1>2 DEF ReproductionInv
  <1>3. ASSUME NEW f \in Inputs, NEW v \in Versions, EditInput(f, v) PROVE ReproductionInv'
    BY <1>2, <1>3 DEF EditInput, Files
  <1>4. ASSUME NEW f \in Manifests, NEW content, WriteImmutable(f, content)
        PROVE  ReproductionInv'
    BY <1>2, <1>4 DEF WriteImmutable, Files
  <1>5. CASE BuildFails \/ KillReproduction
    BY <1>5 DEF BuildFails, KillReproduction, ReproductionInv
  <1>6. CASE rebuild # NotRunning /\ BuildOnce(runDir[rebuild.artifact.output])
    BY <1>6, BuildOnceRebuilds
  <1>7. ASSUME NEW t \in Tables, rebuild # NotRunning, BuildOnce(Written(t))
        PROVE  ReproductionInv'
    BY <1>7, BuildOnceRebuilds
  <1>8. CASE UNCHANGED reproductionVars
    BY <1>1, <1>8 DEF reproductionVars
  <1>9. "experiment" \in Manifests /\ "reproduction" \in Manifests
    BY DEF Manifests
  <1>. QED
    BY <1>3, <1>4, <1>5, <1>6, <1>7, <1>8, <1>9, OneProgram, BeginReproductionRebuilds,
       ResetDerivedRebuilds, CompareRebuilds DEF ReproductionNext

LEMMA ReproductionHolds == Spec => []ReproductionInv
  <1>1. Init => ReproductionInv
    BY DEF Init, ReproductionInit, ReproductionInv
  <1>. QED
    BY <1>1, ReproductionStep, PTL DEF Spec

\* Whatever command builds the table and whatever is deleted between its two
\* runs, a pass means equal rows from pinned inputs, and a second table that
\* was written anew if its file is listed as derived.
THEOREM AReproductionIsARebuild == Spec => []ReproductionIsARebuild
  <1>1. ReproductionInv => ReproductionIsARebuild
    BY DEF ReproductionInv, ReproductionIsARebuild, Rebuilt, Ids, RowOf
  <1>. QED
    BY <1>1, ReproductionHolds, PTL

-----------------------------------------------------------------------------
(* Remote training: the command on a machine knows what its files are. *)

\* What the command t has established of the commit h and the files w of its
\* machine m.  A runner that is idle is a fresh one.
AtWork(m, t, h, w) ==
    \/ t = Idle /\ (m = "runner" => w = NoFiles)
    \/ /\ t = [pc |-> t.pc, request |-> t.request, todo |-> t.todo, root |-> t.root]
       /\ t.pc \in {"verify", "download", "run", "science", "output", "report"}
       /\ t.request \in Requests
       /\ t.pc = "science" =>
             /\ h = t.request.ref
             /\ t.request.entry = "study" => t.request.data = RootDigest(t.root)
       /\ m = "runner" =>
             /\ t.pc = "verify" => w = NoFiles /\ t.todo = DOMAIN t.request.manifest
             /\ t.pc = "download" =>
                   /\ t.todo \subseteq DOMAIN t.request.manifest
                   /\ t.request.data = ManifestDigest(t.request.manifest)
                   /\ w = [o \in DOMAIN t.request.manifest \ t.todo |-> t.request.manifest[o]]
             /\ t.pc = "run" => t.request.data = ManifestDigest(w)
             /\ t.pc = "science" => t.request.data = ManifestDigest(t.root)
             /\ t.pc = "report" => w = NoFiles

\* What a report written on machine m says of its run, if it is eligible.
EarnedOn(m, x) ==
    x.exit = "SUCCEEDED" /\ x.result # NoResult /\ x.result.eligible =>
        /\ x.request.mode = "production" /\ x.draws = FullDraws
        /\ x.code = x.request.ref
        /\ x.request.entry = "study" =>
              x.result.evidence = "official" /\ x.request.data = RootDigest(x.root)
        /\ m = "runner" => x.request.data = ManifestDigest(x.root)

TrainingInv ==
    /\ training = [m \in Machines |-> training[m]] /\ head = [m \in Machines |-> head[m]]
    /\ workspace = [m \in Machines |-> workspace[m]]
    /\ runReport = [m \in Machines |-> runReport[m]]
    /\ \A m \in Machines : /\ AtWork(m, training[m], head[m], workspace[m])
                           /\ EarnedOn(m, runReport[m])
    /\ \A x \in uploaded : EarnedOn("runner", x)

LEMMA NoRunReportIsEarned == ASSUME NEW m \in Machines PROVE EarnedOn(m, NoRunReport)
  BY DEF EarnedOn, NoRunReport

LEMMA IdleTrains == Idle.pc = "idle" /\ Machines = {"runner", "host"}
  BY DEF Idle, Machines

LEMMA TrainingStart == ASSUME TrainingInit PROVE TrainingInv
  <1>1. PICK c \in Commits : head = [m \in Machines |-> c]
    BY DEF TrainingInit
  <1>2. \A m \in Machines : AtWork(m, Idle, c, NoFiles)
    BY DEF AtWork
  <1>. QED
    BY <1>1, <1>2, NoRunReportIsEarned DEF TrainingInit, TrainingInv

\* A step that concerns one machine is judged by what it leaves there.
LEMMA OneMachineTrains ==
    ASSUME TrainingInv, NEW m \in Machines, NEW t, NEW h, NEW w, NEW x,
           \/ training' = [training EXCEPT ![m] = t]
           \/ training' = training /\ t = training[m],
           head' = [head EXCEPT ![m] = h] \/ (head' = head /\ h = head[m]),
           workspace' = [workspace EXCEPT ![m] = w] \/ (workspace' = workspace /\ w = workspace[m]),
           runReport' = [runReport EXCEPT ![m] = x] \/ (runReport' = runReport /\ x = runReport[m]),
           AtWork(m, t, h, w), EarnedOn(m, x),
           \A y \in uploaded' \ uploaded : EarnedOn("runner", y)
    PROVE  TrainingInv'
  <1>1. /\ training' = [n \in Machines |-> training'[n]]
        /\ head' = [n \in Machines |-> head'[n]]
        /\ workspace' = [n \in Machines |-> workspace'[n]]
        /\ runReport' = [n \in Machines |-> runReport'[n]]
    BY DEF TrainingInv
  <1>2. /\ training'[m] = t /\ head'[m] = h /\ workspace'[m] = w /\ runReport'[m] = x
        /\ \A n \in Machines \ {m} :
              /\ training'[n] = training[n] /\ head'[n] = head[n]
              /\ workspace'[n] = workspace[n] /\ runReport'[n] = runReport[n]
    BY DEF TrainingInv
  <1>3. \A n \in Machines : /\ AtWork(n, training'[n], head'[n], workspace'[n])
                            /\ EarnedOn(n, runReport'[n])
    BY <1>2 DEF TrainingInv
  <1>4. \A y \in uploaded' : EarnedOn("runner", y)
    BY DEF TrainingInv
  <1>. QED
    BY <1>1, <1>3, <1>4 DEF TrainingInv, AtWork, EarnedOn

\* What each command does on its machine.

LEMMA StartTrains ==
    ASSUME TrainingInv, NEW m \in Machines, NEW r \in Requests, NEW pc \in {"verify", "run", "output"},
           pc = "run" => m = "host",
           Start(m, r, pc), UNCHANGED <<workspace, runReport, uploaded>>,
           head' = head \/ \E c : head' = [head EXCEPT ![m] = c]
    PROVE  TrainingInv'
  <1>. DEFINE t == [pc |-> pc, request |-> r, todo |-> DOMAIN r.manifest, root |-> NoFiles]
  <1>1. training' = [training EXCEPT ![m] = t] /\ training[m] = Idle
    BY DEF Start
  <1>2. m = "runner" => workspace[m] = NoFiles
    BY <1>1, IdleTrains DEF TrainingInv, AtWork
  <1>3. PICK h : head' = [head EXCEPT ![m] = h] \/ (head' = head /\ h = head[m])
    OBVIOUS
  <1>4. AtWork(m, t, h, workspace[m])
    BY <1>2 DEF AtWork
  <1>. HIDE DEF t
  <1>. QED
    BY <1>1, <1>3, <1>4, OneMachineTrains DEF TrainingInv

\* A command that failed, or has ended, is gone or goes on to the upload.
LEMMA EndedIsAtWork ==
    ASSUME TrainingInv, NEW m \in Machines, training[m] # Idle, NEW w
    PROVE  AtWork(m, Ended(m), head[m], w)
  <1>. DEFINE t == training[m]
              e == [pc |-> "output", request |-> t.request, todo |-> t.todo, root |-> t.root]
  <1>1. AtWork(m, t, head[m], workspace[m]) /\ t # Idle
    BY DEF TrainingInv
  <1>2. CASE m = "runner"
    <2>1. [t EXCEPT !.pc = "output"] = e
      BY <1>1 DEF AtWork
    <2>2. Ended(m) = e
      BY <1>2, <2>1 DEF Ended
    <2>3. AtWork(m, e, head[m], w)
      BY <1>1 DEF AtWork
    <2>. QED
      BY <2>2, <2>3
  <1>3. CASE m # "runner"
    BY <1>3 DEF AtWork, Ended
  <1>. QED
    BY <1>2, <1>3

LEMMA VerifyManifestTrains ==
    ASSUME TrainingInv, NEW m \in Machines, VerifyManifest(m)
    PROVE  TrainingInv'
  <1>. DEFINE t == training[m]
              good == [pc |-> "download", request |-> t.request, todo |-> t.todo, root |-> t.root]
  <1>1. t # Idle /\ t.pc = "verify"
    BY IdleTrains DEF VerifyManifest
  <1>2. AtWork(m, t, head[m], workspace[m])
    BY DEF TrainingInv
  <1>3. CASE t.request.data = ManifestDigest(t.request.manifest)
    <2>0. [t EXCEPT !.pc = "download"] = good
      BY <1>1, <1>2 DEF AtWork
    <2>1. training' = [training EXCEPT ![m] = good]
      BY <1>3, <2>0 DEF VerifyManifest, TrainingInv
    <2>2. t.todo = DOMAIN t.request.manifest /\ workspace[m] = NoFiles /\ m = "runner"
          => workspace[m] = [o \in DOMAIN t.request.manifest \ t.todo |-> t.request.manifest[o]]
      BY DEF NoFiles
    <2>3. AtWork(m, good, head[m], workspace[m])
      BY <1>1, <1>2, <1>3, <2>2 DEF AtWork
    <2>. HIDE DEF good
    <2>. QED
      BY <2>1, <2>3, OneMachineTrains DEF TrainingInv, VerifyManifest
  <1>4. CASE t.request.data # ManifestDigest(t.request.manifest)
    <2>1. training' = [training EXCEPT ![m] = Ended(m)]
      BY <1>4 DEF VerifyManifest
    <2>. QED
      BY <1>1, <2>1, EndedIsAtWork, OneMachineTrains DEF TrainingInv, VerifyManifest
  <1>. QED
    BY <1>3, <1>4

LEMMA DownloadTrains ==
    ASSUME TrainingInv, NEW m \in Machines, NEW o \in Objects, Download(m, o)
    PROVE  TrainingInv'
  <1>. DEFINE t == training[m]
              M == t.request.manifest
              next == [pc |-> "download", request |-> t.request, todo |-> t.todo \ {o}, root |-> t.root]
              w == Holding(workspace[m], o, bucket[o])
  <1>1. t # Idle /\ t.pc = "download" /\ o \in t.todo
    BY IdleTrains DEF Download
  <1>2. AtWork(m, t, head[m], workspace[m])
    BY DEF TrainingInv
  <1>3. CASE bucket[o] # M[o]
    <2>1. training' = [training EXCEPT ![m] = Ended(m)] /\ workspace' = workspace
      BY <1>3 DEF Download
    <2>. QED
      BY <1>1, <2>1, EndedIsAtWork, OneMachineTrains DEF TrainingInv, Download
  <1>4. CASE bucket[o] = M[o]
    <2>1. training' = [training EXCEPT ![m] = next]
      BY <1>1, <1>2, <1>4 DEF Download, AtWork, TrainingInv
    <2>2. workspace' = [workspace EXCEPT ![m] = w]
      BY <1>4 DEF Download
    <2>3. ASSUME m = "runner",
                 workspace[m] = [x \in DOMAIN M \ t.todo |-> M[x]], o \in DOMAIN M
          PROVE  w = [x \in DOMAIN M \ (t.todo \ {o}) |-> M[x]]
      BY <1>1, <1>4, <2>3 DEF Holding
    <2>4. AtWork(m, next, head[m], w)
      BY <1>1, <1>2, <2>3 DEF AtWork
    <2>. HIDE DEF next, w
    <2>. QED
      BY <2>1, <2>2, <2>4, OneMachineTrains DEF TrainingInv, Download
  <1>. QED
    BY <1>3, <1>4

LEMMA SnapshotPreparedTrains ==
    ASSUME TrainingInv, NEW m \in Machines, SnapshotPrepared(m)
    PROVE  TrainingInv'
  <1>. DEFINE t == training[m]
              M == t.request.manifest
              ready == [pc |-> "run", request |-> t.request, todo |-> t.todo, root |-> t.root]
  <1>1. t # Idle /\ t.pc = "download" /\ t.todo = {}
    BY IdleTrains DEF SnapshotPrepared
  <1>2. AtWork(m, t, head[m], workspace[m])
    BY DEF TrainingInv
  <1>3. CASE m = "runner"
    <2>1. [t EXCEPT !.pc = "run"] = ready
      BY <1>1, <1>2 DEF AtWork
    <2>2. training' = [training EXCEPT ![m] = ready]
      BY <1>3, <2>1 DEF SnapshotPrepared, TrainingInv
    <2>3. M = [o \in DOMAIN M |-> M[o]]
      BY <1>1, <1>2, ManifestsAreOfObjects DEF AtWork
    <2>4. t.request.data = ManifestDigest(workspace[m])
      BY <1>1, <1>2, <1>3, <2>3 DEF AtWork
    <2>5. AtWork(m, ready, head[m], workspace[m])
      BY <1>1, <1>2, <2>4 DEF AtWork
    <2>. HIDE DEF ready
    <2>. QED
      BY <2>2, <2>5, OneMachineTrains DEF TrainingInv, SnapshotPrepared
  <1>4. CASE m # "runner"
    <2>1. training' = [training EXCEPT ![m] = Idle]
      BY <1>4 DEF SnapshotPrepared
    <2>2. AtWork(m, Idle, head[m], workspace[m])
      BY <1>4 DEF AtWork
    <2>. QED
      BY <2>1, <2>2, OneMachineTrains DEF TrainingInv, SnapshotPrepared
  <1>. QED
    BY <1>3, <1>4

LEMMA FailureIsEarned ==
    ASSUME NEW m \in Machines
    PROVE  EarnedOn(m, RunReport(m, "FAILED", NoResult))
  BY DEF EarnedOn, RunReport

LEMMA RunStartsTrains ==
    ASSUME TrainingInv, NEW m \in Machines, RunStarts(m)
    PROVE  TrainingInv'
  <1>. DEFINE t == training[m]
              science == [pc |-> "science", request |-> t.request, todo |-> t.todo,
                          root |-> workspace[m]]
  <1>1. t # Idle /\ t.pc = "run"
    BY IdleTrains DEF RunStarts
  <1>2. AtWork(m, t, head[m], workspace[m])
    BY DEF TrainingInv
  <1>3. CASE ValidRequest(t.request) /\ Startable(m)
    <2>0. [[t EXCEPT !.pc = "science"] EXCEPT !.root = workspace[m]] = science
      <3>1. [t EXCEPT !.pc = "science"] =
              [pc |-> "science", request |-> t.request, todo |-> t.todo, root |-> t.root]
        BY <1>1, <1>2 DEF AtWork
      <3>2. [[pc |-> "science", request |-> t.request, todo |-> t.todo, root |-> t.root]
                EXCEPT !.root = workspace[m]] = science
        OBVIOUS
      <3>. HIDE DEF science, t
      <3>. QED
        BY <3>1, <3>2
    <2>1. training' = [training EXCEPT ![m] = science]
      <3>1. training' = [training EXCEPT ![m].pc = "science", ![m].root = workspace[m]]
        BY <1>3 DEF RunStarts
      <3>2. training' = [training EXCEPT ![m] = [[t EXCEPT !.pc = "science"]
                                                    EXCEPT !.root = workspace[m]]]
        BY <3>1 DEF TrainingInv
      <3>. QED
        BY <2>0, <3>2
    <2>2. AtWork(m, science, head[m], workspace[m])
      BY <1>1, <1>2, <1>3 DEF AtWork, Startable
    <2>. HIDE DEF science
    <2>. QED
      BY <1>3, <2>1, <2>2, OneMachineTrains DEF TrainingInv, RunStarts
  <1>4. CASE ~(ValidRequest(t.request) /\ Startable(m))
    <2>1. training' = [training EXCEPT ![m] = Ended(m)]
      BY <1>4 DEF RunStarts
    <2>2. CASE ValidRequest(t.request)
      <3>1. runReport' = [runReport EXCEPT ![m] = RunReport(m, "FAILED", NoResult)]
        BY <1>4, <2>2 DEF RunStarts, WriteReport
      <3>. QED
        BY <1>1, <2>1, <3>1, EndedIsAtWork, FailureIsEarned, OneMachineTrains
           DEF TrainingInv, RunStarts
    <2>3. CASE ~ValidRequest(t.request)
      BY <1>1, <1>4, <2>1, <2>3, EndedIsAtWork, OneMachineTrains DEF TrainingInv, RunStarts
    <2>. QED
      BY <2>2, <2>3
  <1>. QED
    BY <1>3, <1>4

\* A run that reports success started at its commit on its data, and the
\* mode has the last word on its eligibility.
LEMMA SuccessIsEarned ==
    ASSUME TrainingInv, NEW m \in Machines, training[m].pc = "science", NEW result,
           result # NoResult =>
              /\ result = [evidence |-> result.evidence, eligible |-> result.eligible]
              /\ training[m].request.entry = "study" /\ result.eligible => result.evidence = "official"
    PROVE  EarnedOn(m, RunReport(m, "SUCCEEDED", Overridden(training[m].request, result)))
  <1>. DEFINE t == training[m]
              final == Overridden(t.request, result)
              x == RunReport(m, "SUCCEEDED", final)
  <1>1. AtWork(m, t, head[m], workspace[m]) /\ t # Idle
    BY IdleTrains DEF TrainingInv
  <1>2. /\ head[m] = t.request.ref
        /\ t.request.entry = "study" => t.request.data = RootDigest(t.root)
        /\ m = "runner" => t.request.data = ManifestDigest(t.root)
    BY <1>1 DEF AtWork
  <1>3. ASSUME final # NoResult, final.eligible
        PROVE  t.request.mode = "production" /\ final = result
    BY <1>3 DEF Overridden
  <1>4. t.request.mode = "production" => DrawsOf(t.request) = FullDraws
    BY DEF DrawsOf
  <1>5. /\ x.result = final /\ x.request = t.request /\ x.draws = DrawsOf(t.request)
        /\ x.code = head[m] /\ x.root = t.root
    BY DEF RunReport
  <1>. HIDE DEF x, final, t
  <1>. QED
    BY <1>2, <1>3, <1>4, <1>5 DEF EarnedOn, x, final, t

\* A command that ends may leave its output in the workspace.
LEMMA EndTrains ==
    ASSUME TrainingInv, NEW m \in Machines, training[m] # Idle, NEW x,
           training' = [training EXCEPT ![m] = Ended(m)],
           runReport' = [runReport EXCEPT ![m] = x], EarnedOn(m, x),
           workspace' = workspace \/ LeavesOutput(m), UNCHANGED <<head, uploaded>>
    PROVE  TrainingInv'
  <1>1. PICK w : \/ workspace' = [workspace EXCEPT ![m] = w]
                 \/ workspace' = workspace /\ w = workspace[m]
    BY DEF LeavesOutput
  <1>. QED
    BY <1>1, EndedIsAtWork, OneMachineTrains

LEMMA StudySucceedsTrains ==
    ASSUME TrainingInv, NEW m \in Machines, NEW e, NEW b, StudySucceeds(m, e, b)
    PROVE  TrainingInv'
  <1>. DEFINE result == StudyResult(training[m].request, e, b)
  <1>1. training[m].pc = "science" /\ training[m] # Idle
    BY IdleTrains DEF StudySucceeds
  <1>2. /\ result = [evidence |-> result.evidence, eligible |-> result.eligible]
        /\ result.eligible => result.evidence = "official"
    BY DEF StudyResult
  <1>. HIDE DEF result
  <1>3. EarnedOn(m, RunReport(m, "SUCCEEDED", Overridden(training[m].request, result)))
    BY <1>1, <1>2, SuccessIsEarned
  <1>. QED
    BY <1>1, <1>3, EndTrains DEF StudySucceeds, Succeeds, WriteReport, result

LEMMA MainSucceedsTrains ==
    ASSUME TrainingInv, NEW m \in Machines,
           NEW result \in {NoResult} \cup [evidence : {"unknown"}, eligible : BOOLEAN],
           MainSucceeds(m, result)
    PROVE  TrainingInv'
  <1>1. training[m].pc = "science" /\ training[m] # Idle /\ training[m].request.entry = "main"
    BY IdleTrains DEF MainSucceeds
  <1>2. EarnedOn(m, RunReport(m, "SUCCEEDED", Overridden(training[m].request, result)))
    BY <1>1, SuccessIsEarned
  <1>. QED
    BY <1>1, <1>2, EndTrains DEF MainSucceeds, Succeeds, WriteReport

LEMMA ScienceFailsTrains ==
    ASSUME TrainingInv, NEW m \in Machines, ScienceFails(m)
    PROVE  TrainingInv'
  BY IdleTrains, FailureIsEarned, EndTrains DEF ScienceFails, WriteReport

LEMMA LoseRunnerTrains == ASSUME TrainingInv, LoseRunner PROVE TrainingInv'
  <1>1. AtWork("runner", Idle, head["runner"], NoFiles)
    BY DEF AtWork
  <1>. QED
    BY <1>1, IdleTrains, NoRunReportIsEarned, OneMachineTrains DEF LoseRunner, Gone

LEMMA KillByHandTrains == ASSUME TrainingInv, KillByHand PROVE TrainingInv'
  <1>1. PICK w : \/ workspace' = [workspace EXCEPT !["host"] = w]
                 \/ workspace' = workspace /\ w = workspace["host"]
    BY DEF KillByHand, LeavesOutput
  <1>2. AtWork("host", Idle, head["host"], w)
    BY DEF AtWork
  <1>. QED
    BY <1>1, <1>2, IdleTrains, OneMachineTrains DEF TrainingInv, KillByHand, Gone

LEMMA CleanUpTrains == ASSUME TrainingInv, CleanUp PROVE TrainingInv'
  <1>. DEFINE t == training["runner"]
              next == [pc |-> "report", request |-> t.request, todo |-> t.todo, root |-> t.root]
  <1>1. AtWork("runner", t, head["runner"], workspace["runner"]) /\ t # Idle
    BY IdleTrains DEF TrainingInv, CleanUp
  <1>2. [t EXCEPT !.pc = "report"] = next
    BY <1>1 DEF AtWork
  <1>3. training' = [training EXCEPT !["runner"] = next]
    BY <1>2 DEF CleanUp, TrainingInv
  <1>4. AtWork("runner", next, head["runner"], NoFiles)
    BY <1>1 DEF AtWork
  <1>. HIDE DEF next
  <1>. QED
    BY <1>3, <1>4, IdleTrains, OneMachineTrains DEF TrainingInv, CleanUp

LEMMA UploadReportTrains == ASSUME TrainingInv, UploadReport PROVE TrainingInv'
  <1>1. training["runner"] # Idle /\ training["runner"].pc = "report"
    BY DEF UploadReport
  <1>2. workspace["runner"] = NoFiles
    BY <1>1, IdleTrains DEF TrainingInv, AtWork
  <1>3. AtWork("runner", Idle, head["runner"], workspace["runner"])
    BY <1>2 DEF AtWork
  <1>. QED
    BY <1>3, IdleTrains, NoRunReportIsEarned, OneMachineTrains DEF TrainingInv, UploadReport, Gone

LEMMA HostStandsByTrains ==
    ASSUME TrainingInv, training["host"] = Idle, UNCHANGED <<training, runReport, uploaded>>,
           NEW h, NEW w,
           head' = [head EXCEPT !["host"] = h] \/ (head' = head /\ h = head["host"]),
           \/ workspace' = [workspace EXCEPT !["host"] = w]
           \/ workspace' = workspace /\ w = workspace["host"]
    PROVE  TrainingInv'
  <1>1. AtWork("host", Idle, h, w)
    BY DEF AtWork
  <1>. QED
    BY <1>1, IdleTrains, OneMachineTrains DEF TrainingInv

LEMMA TrainingStep == ASSUME TrainingInv, [Next]_vars PROVE TrainingInv'
  <1>1. CASE UNCHANGED <<training, head, workspace, runReport, uploaded>>
    BY <1>1, IdleTrains, OneMachineTrains DEF TrainingInv
  <1>2. ASSUME NEW o, NEW c, BucketChanges(o, c) PROVE TrainingInv'
    BY <1>1, <1>2 DEF BucketChanges
  <1>3. ASSUME NEW r \in Requests, PrepareByHand(r) \/ RunByHand(r) PROVE TrainingInv'
    BY <1>3, IdleTrains, StartTrains DEF PrepareByHand, RunByHand
  <1>4. ASSUME NEW r \in Requests, NEW c \in Commits, Dispatch(r, c) PROVE TrainingInv'
    <2>1. CASE c = r.ref
      BY <1>4, <2>1, IdleTrains, StartTrains DEF Dispatch
    <2>2. CASE c # r.ref
      BY <1>4, <2>2, IdleTrains, StartTrains DEF Dispatch
    <2>. QED
      BY <2>1, <2>2
  <1>5. CASE \E c \in Commits : CheckoutByHand(c)
    BY <1>5, HostStandsByTrains DEF CheckoutByHand
  <1>6. CASE CleanByHand
    BY <1>6, HostStandsByTrains DEF CleanByHand
  <1>7. CASE UNCHANGED trainingVars
    BY <1>1, <1>7 DEF trainingVars
  <1>. QED
    BY <1>2, <1>3, <1>4, <1>5, <1>6, <1>7, OneProgram, VerifyManifestTrains, DownloadTrains,
       SnapshotPreparedTrains, RunStartsTrains, ScienceFailsTrains, StudySucceedsTrains,
       MainSucceedsTrains, LoseRunnerTrains, KillByHandTrains, CleanUpTrains,
       UploadReportTrains DEF TrainingNext

LEMMA TrainingHolds == Spec => []TrainingInv
  <1>1. Init => TrainingInv
    BY TrainingStart DEF Init
  <1>. QED
    BY <1>1, TrainingStep, PTL DEF Spec

\* Whichever commands are run on which data, in whatever order and however
\* they are cut off, a report is eligible only of a production run with all
\* its draws on the commit and the data it pins.
THEOREM EligibilityIsEarned == Spec => []EligibleIsEarned
  <1>1. TrainingInv => EligibleIsEarned
    BY DEF TrainingInv, EligibleIsEarned, Reports, EarnedOn
  <1>. QED
    BY <1>1, TrainingHolds, PTL

=============================================================================
