-------------------------- MODULE RuntimeScheduler --------------------------
(***************************************************************************)
(* The single-threaded runtime loop (platform/runtime_loop) as a scheduler *)
(* of blocking steps: collection, housekeeping, one bounded preparation    *)
(* worker, the periodic snapshot and the outcome-ingest child.  A deadline *)
(* is kept as the time left until it, so time itself is unbounded.  What a *)
(* preparation pass does to its rows is CheckpointPrepare's; here a slot   *)
(* is open, claimed, prepared or missed.                                   *)
(***************************************************************************)
EXTENDS Naturals, FiniteSets

CONSTANTS
    Slots,          \* checkpoint slots, numbered by kickoff; one game each
    Week,           \* the week of each slot's game
    Poison,         \* slots on which every worker fails
    BatchLimit,     \* checkpoint_batch_limit
    MaxTickFailures,
    Tick, Grace, RetryWait, Cooldown, RetryBase, RetryCap,
    FarCadence, NearCadence,       \* collection cadence by time to kickoff
    HouseEvery, IngestEvery, IngestRetry,
    CollectMax, HouseMax, WorkerMax, SnapshotMax, IngestMax,  \* durations
    MaxFaults       \* bound: transient faults and kills in a behaviour

NoSlot == 0
NoWeek == 0

ASSUME SchedulerAssumption ==
    /\ Slots \subseteq Nat \ {NoSlot} /\ IsFiniteSet(Slots)
    /\ Week \in [Slots -> Nat \ {NoWeek}]
    /\ \A s, t \in Slots : s < t => Week[s] <= Week[t]
    /\ Poison \subseteq Slots
    /\ {BatchLimit, MaxTickFailures, Tick, RetryBase, RetryCap,
        FarCadence, NearCadence} \subseteq Nat \ {0}
    /\ NearCadence <= FarCadence
    /\ {Grace, RetryWait, Cooldown, HouseEvery, IngestEvery, IngestRetry, CollectMax,
        HouseMax, WorkerMax, SnapshotMax, IngestMax, MaxFaults} \subseteq Nat

VARIABLES
    pc,       \* the step of the tick the loop is at
    phase,    \* where the clock is: early, due, kicked (off), expired
    slot,     \* open, claimed, prepared or missed
    target,   \* the week the tick works on
    since,    \* time since the last collection of the target's week started
    left,     \* time left: startup grace, retry, cooldown, housekeeping, ingest
    book,     \* retry book: failures of each slot and the time left deferred
    exclude,  \* slots this pass must not touch
    charged,  \* the slot a failure of this pass is charged to
    batch,    \* slots the running worker works on
    failed,   \* consecutive failed ticks
    closed,   \* the disk is FAIL_CLOSED
    waited,   \* children that kept the collection now due waiting
    faults

vars == <<pc, phase, slot, target, since, left, book, exclude, charged, batch, failed, closed,
          waited, faults>>
pass == <<exclude, charged, batch>>
world == <<phase, slot, closed, faults>>

Steps == {"start", "collect", "house", "prepare", "spawn", "working", "recollect",
          "snapshot", "ingest", "sleep", "down"}
Deadlines == {"grace", "retry", "cooldown", "house", "ingest"}

Least(S) == CHOOSE s \in S : \A t \in S : s <= t
AtMost(a, b) == IF a < b THEN a ELSE b
Less(a, d) == IF a > d THEN a - d ELSE 0

Entry(n, t) == [count |-> n, left |-> t]

\* slot_retry_delay_seconds
Delay(n) == IF n = 0 THEN 0 ELSE AtMost(RetryCap, RetryBase * 2 ^ (n - 1))

Retried == {s \in Slots : book[s].count > 0}
Deferred == {s \in Slots : book[s].left > 0}

\* The week of the nearest kickoff still ahead, if a game is left.
Upcoming == {s \in Slots : phase[s] \in {"early", "due"}}
Resolved == IF Upcoming = {} THEN NoWeek ELSE Week[Least(Upcoming)]

\* cadence_for_games over the games of the target's week.
Near == \E s \in Upcoming : Week[s] = target /\ phase[s] = "due"
Cadence == IF Near THEN NearCadence ELSE FarCadence
CollectionDue == target # NoWeek /\ since >= Cadence

\* d units pass.
Elapse(d) ==
    /\ since' = AtMost(since + d, FarCadence)
    /\ left' = [k \in Deadlines |-> Less(left[k], d)]
    /\ book' = [s \in Slots |-> [book[s] EXCEPT !.left = Less(@, d)]]

\* A child blocked the loop for d units; a collection due at its end waited.
ChildRan(d) ==
    waited' = IF target # NoWeek /\ since + d >= Cadence THEN AtMost(waited + 1, 2) ELSE waited

-----------------------------------------------------------------------------
(* Slots of the target week a pass may work on, in its order. *)

Due == {s \in Slots : Week[s] = target /\ slot[s] = "open" /\ phase[s] # "early"}
Claimed == {s \in Slots : slot[s] = "claimed"}

WorkPending(skip) == (Due \cup Claimed) \ skip # {}

\* Claims are finished before slots are claimed; both in kickoff order.
Before(s, t) == \/ slot[s] = "claimed" /\ slot[t] = "open"
                \/ slot[s] = slot[t] /\ s < t

Batch(skip) ==
    LET work == (Due \cup Claimed) \ skip
    IN {s \in work : Cardinality({t \in work : Before(t, s)}) < BatchLimit}

NextSlot(skip) ==
    IF WorkPending(skip)
    THEN CHOOSE s \in (Due \cup Claimed) \ skip :
            \A t \in ((Due \cup Claimed) \ skip) \ {s} : Before(s, t)
    ELSE NoSlot

\* Mutant: deferral alone, without the tier of slots that never failed.
OneTier == IF WorkPending(Deferred) THEN {Deferred} ELSE {}

\* Mutant: a slot that failed once has had its chance.
FreshOnly == IF WorkPending(Retried) THEN {Retried} ELSE {}

\* The exclusion of the first tier with work: slots that never failed, then
\* those whose deferral is over.
Tier ==
    IF WorkPending(Retried) THEN {Retried}
    ELSE IF WorkPending(Deferred) THEN {Deferred} ELSE {}

-----------------------------------------------------------------------------
(* The tick *)

Goto(step) == pc' = step

Resolve ==
    /\ pc = "start"
    /\ target' = Resolved
    /\ since' = IF Resolved = target THEN since ELSE FarCadence
    /\ Goto("collect")
    /\ UNCHANGED <<phase, slot, left, book, pass, failed, closed, waited, faults>>

\* collect: the cycle is dated by its start.
Collected(d) ==
    /\ since' = AtMost(d, FarCadence)
    /\ left' = [k \in Deadlines |-> Less(left[k], d)]
    /\ book' = [s \in Slots |-> [book[s] EXCEPT !.left = Less(@, d)]]

CollectIfDue(from, to) ==
    /\ pc = from
    /\ IF CollectionDue THEN \E d \in 0..CollectMax : Collected(d)
                        ELSE UNCHANGED <<since, left, book>>
    /\ waited' = 0
    /\ Goto(to)
    /\ UNCHANGED <<world, target, pass, failed>>

\* Mutant: a collection that came due during the pass waits for the next tick.
RecollectNever ==
    /\ pc = "recollect" /\ Goto("snapshot")
    /\ UNCHANGED <<world, target, since, left, book, waited, pass, failed>>

Collect == CollectIfDue("collect", "house")
Recollect == CollectIfDue("recollect", "snapshot")

\* _housekeeping, which retires claims whose window closed, then the
\* fail-closed branch of tick.
Housekeeping ==
    /\ pc = "house"
    /\ IF left["house"] > 0
       THEN UNCHANGED <<since, left, book, slot>>
       ELSE \E d \in 0..HouseMax :
               /\ slot' = [s \in Slots |-> IF s \in Claimed /\ phase[s] = "expired"
                                          THEN "retired" ELSE slot[s]]
               /\ since' = AtMost(since + d, FarCadence)
               /\ left' = [[k \in Deadlines |-> Less(left[k], d)]
                              EXCEPT !["house"] = Less(HouseEvery, d)]
               /\ book' = [s \in Slots |-> [book[s] EXCEPT !.left = Less(@, d)]]
    /\ Goto(IF closed THEN "sleep" ELSE IF target = NoWeek THEN "snapshot" ELSE "prepare")
    /\ UNCHANGED <<phase, closed, faults, target, waited, pass, failed>>

MayPrepare ==
    /\ left["grace"] = 0 /\ left["retry"] = 0 /\ left["cooldown"] = 0
    /\ Tier # {} /\ ~CollectionDue

SkipPreparation ==
    /\ pc = "prepare" /\ ~MayPrepare
    /\ Goto("snapshot")
    /\ UNCHANGED <<world, target, since, left, book, waited, pass, failed>>

\* The slot is computed before the worker starts and reads the tables.
ChargeSlot ==
    /\ pc = "prepare" /\ MayPrepare
    /\ \E skip \in Tier : exclude' = skip /\ charged' = NextSlot(skip)
    /\ Goto("spawn")
    /\ UNCHANGED <<world, target, since, left, book, waited, batch, failed>>

\* A claim found at or after its kickoff is recorded as missed.
Claim(s) ==
    IF slot[s] # "open" THEN slot[s] ELSE IF s \in Upcoming THEN "claimed" ELSE "missed"

\* The claims of a pass are committed first, by the now its job carries.
StartWorker ==
    /\ pc = "spawn"
    /\ batch' = Batch(exclude)
    /\ slot' = [s \in Slots |-> IF s \in Batch(exclude) THEN Claim(s) ELSE slot[s]]
    /\ Goto("working")
    /\ UNCHANGED <<phase, closed, faults, target, since, left, book, waited, exclude, charged,
                   failed>>

\* clear and prune: entries of finished slots, and of other weeks' open ones.
StaysInBook(s) == s # charged /\ s \notin batch /\ (s \in Due \/ slot[s] = "claimed")

\* What the worker still has to bundle, and where it always fails.
Bundled == {s \in batch : slot[s] = "claimed"}
Stuck == Bundled \cap Poison

PassSucceeds ==
    /\ pc = "working" /\ Stuck = {}
    /\ \E d \in 0..WorkerMax :
          /\ since' = AtMost(since + d, FarCadence)
          /\ left' = [[k \in Deadlines |-> Less(left[k], d)]
                         EXCEPT !["retry"] = 0, !["cooldown"] = Cooldown]
          /\ book' = [s \in Slots |-> IF StaysInBook(s)
                                      THEN [book[s] EXCEPT !.left = Less(@, d)]
                                      ELSE Entry(0, 0)]
          /\ ChildRan(d)
    /\ slot' = [s \in Slots |-> IF s \in Bundled THEN "prepared" ELSE slot[s]]
    /\ batch' = {} /\ exclude' = {} /\ charged' = NoSlot
    /\ Goto("recollect")
    /\ UNCHANGED <<phase, target, failed, closed, faults>>

\* Mutant: every failure defers by the base delay.
RecordFlat(s, d) ==
    book' = [t \in Slots |-> IF t = s THEN Entry(1, RetryBase)
                             ELSE [book[t] EXCEPT !.left = Less(@, d)]]

\* record_failure; the count matters only while it changes the delay.
RecordFailure(s, d) ==
    LET n == IF Delay(book[s].count + 1) = RetryCap /\ Delay(book[s].count) = RetryCap
             THEN book[s].count ELSE book[s].count + 1
    IN book' = [t \in Slots |-> IF t = s THEN Entry(n, Delay(n))
                                ELSE [book[t] EXCEPT !.left = Less(@, d)]]

\* A worker that could not start, was killed or failed keeps what it committed.
WorkerStops(d) ==
    /\ since' = AtMost(since + d, FarCadence)
    /\ ChildRan(d)
    /\ batch' = {} /\ exclude' = {} /\ charged' = NoSlot

PassFails ==
    /\ \/ pc = "working" /\ Stuck # {} /\ UNCHANGED faults
       \/ pc \in {"spawn", "working"} /\ faults < MaxFaults /\ faults' = faults + 1
    /\ \E d \in 0..WorkerMax :
          /\ WorkerStops(d)
          /\ left' = [[k \in Deadlines |-> Less(left[k], d)] EXCEPT !["retry"] = RetryWait]
          /\ RecordFailure(charged, d)
    /\ Goto("recollect")
    /\ UNCHANGED <<phase, slot, target, failed, closed>>

\* An exception: the tick is over, and the process when too many failed in a row.
Raise ==
    /\ failed' = failed + 1
    /\ Goto(IF failed + 1 >= MaxTickFailures THEN "down" ELSE "sleep")

\* Another process held the writer lock for the whole timeout.
LockTimeout ==
    /\ faults < MaxFaults
    /\ \/ pc \in {"collect", "recollect"} /\ CollectionDue
       \/ pc = "house" /\ left["house"] = 0
       \/ pc = "snapshot"
    /\ faults' = faults + 1
    /\ Raise
    /\ UNCHANGED <<phase, slot, closed, target, since, left, book, waited, pass>>

\* ... while the leftovers of a killed worker were to be removed: the lock's
\* error replaces the worker's, and the pass is charged to nobody.
LeftoversTimeout ==
    /\ pc \in {"spawn", "working"} /\ faults < MaxFaults
    /\ faults' = faults + 1
    /\ \E d \in 0..WorkerMax :
          /\ WorkerStops(d)
          /\ left' = [k \in Deadlines |-> Less(left[k], d)]
          /\ book' = [s \in Slots |-> [book[s] EXCEPT !.left = Less(@, d)]]
    /\ Raise
    /\ UNCHANGED <<phase, slot, target, closed>>

PeriodicSnapshot ==
    /\ pc = "snapshot"
    /\ \E d \in 0..SnapshotMax : Elapse(d)
    /\ Goto("ingest")
    /\ UNCHANGED <<world, target, waited, pass, failed>>

\* Near a kickoff, collection always wins.
IngestDue == target # NoWeek /\ left["ingest"] = 0 /\ ~Near

IngestOutcomes ==
    /\ pc = "ingest"
    /\ IF IngestDue
       THEN \E d \in 0..IngestMax, wait \in {IngestEvery, IngestRetry} :
               /\ since' = AtMost(since + d, FarCadence)
               /\ left' = [[k \in Deadlines |-> Less(left[k], d)]
                              EXCEPT !["ingest"] = Less(wait, d)]
               /\ book' = [s \in Slots |-> [book[s] EXCEPT !.left = Less(@, d)]]
               /\ ChildRan(d)
       ELSE UNCHANGED <<since, left, book, waited>>
    /\ Goto("sleep")
    /\ failed' = 0
    /\ UNCHANGED <<world, target, pass>>

\* _sleep_seconds: at most a tick, at least one unit.
Sleep ==
    /\ pc = "sleep"
    /\ LET rest == AtMost(Tick, IF target = NoWeek THEN Tick ELSE Less(Cadence, since))
       IN Elapse(IF rest = 0 THEN 1 ELSE rest)
    /\ Goto("start")
    /\ UNCHANGED <<world, target, waited, pass, failed>>

Fresh == [k \in Deadlines |-> IF k = "grace" THEN Grace ELSE 0]

\* systemd starts the loop again: only the retry book was on disk.
Restart ==
    /\ pc = "down"
    /\ left' = Fresh /\ failed' = 0
    /\ exclude' = {} /\ charged' = NoSlot /\ batch' = {}
    /\ Goto("start")
    /\ UNCHANGED <<world, target, since, book, waited>>

-----------------------------------------------------------------------------
(* The world around the loop *)

Kill ==
    /\ pc # "down" /\ faults < MaxFaults
    /\ faults' = faults + 1 /\ Goto("down")
    /\ UNCHANGED <<phase, slot, closed, target, since, left, book, waited, pass, failed>>

\* The now of a pass is the same when the slot is chosen and when it claims.
ComeDue(s) ==
    /\ pc # "spawn" /\ phase[s] = "early" /\ phase' = [phase EXCEPT ![s] = "due"]
    /\ UNCHANGED <<pc, slot, closed, faults, target, since, left, book, waited, pass, failed>>

KickOff(s) ==
    /\ pc # "spawn" /\ phase[s] = "due" /\ s = Least(Upcoming)
    /\ phase' = [phase EXCEPT ![s] = "kicked"]
    /\ UNCHANGED <<pc, slot, closed, faults, target, since, left, book, waited, pass, failed>>

\* The kickoff is EXECUTION_HORIZON in the past.
Expire(s) ==
    /\ phase[s] = "kicked" /\ phase' = [phase EXCEPT ![s] = "expired"]
    /\ UNCHANGED <<pc, slot, closed, faults, target, since, left, book, waited, pass, failed>>

\* `checkpoint manual` finishes every claim it can.
PrepareManually(s) ==
    /\ slot[s] = "claimed" /\ s \notin Poison
    /\ slot' = [slot EXCEPT ![s] = "prepared"]
    /\ UNCHANGED <<pc, phase, closed, faults, target, since, left, book, waited, pass, failed>>

DiskFills ==
    /\ ~closed /\ faults < MaxFaults /\ faults' = faults + 1 /\ closed' = TRUE
    /\ UNCHANGED <<pc, phase, slot, target, since, left, book, waited, pass, failed>>

DiskFrees ==
    /\ closed /\ closed' = FALSE
    /\ UNCHANGED <<pc, phase, slot, faults, target, since, left, book, waited, pass, failed>>

Init ==
    /\ pc = "start" /\ phase = [s \in Slots |-> "early"] /\ slot = [s \in Slots |-> "open"]
    /\ target = NoWeek /\ since = FarCadence /\ left = Fresh
    /\ book = [s \in Slots |-> Entry(0, 0)]
    /\ exclude = {} /\ charged = NoSlot /\ batch = {}
    /\ failed = 0 /\ closed = FALSE /\ waited = 0 /\ faults = 0

TickStep ==
    \/ Resolve \/ Collect \/ Housekeeping \/ SkipPreparation \/ ChargeSlot \/ StartWorker
    \/ PassSucceeds \/ PassFails \/ Recollect \/ PeriodicSnapshot \/ IngestOutcomes \/ Sleep

Next ==
    \/ TickStep \/ LockTimeout \/ LeftoversTimeout \/ Restart \/ Kill
    \/ \E s \in Slots : ComeDue(s) \/ KickOff(s) \/ Expire(s) \/ PrepareManually(s)
    \/ DiskFills \/ DiskFrees

Spec == Init /\ [][Next]_vars

\* The loop keeps running, systemd restarts it, a full disk is freed, and a
\* game that kicked off is over one day.
FairSpec ==
    /\ Spec
    /\ WF_vars(TickStep) /\ WF_vars(Restart) /\ WF_vars(DiskFrees)
    /\ \A s \in Slots : WF_vars(Expire(s))

-----------------------------------------------------------------------------
(* Properties *)

TypeOK ==
    /\ pc \in Steps
    /\ phase \in [Slots -> {"early", "due", "kicked", "expired"}]
    /\ slot \in [Slots -> {"open", "claimed", "prepared", "missed", "retired"}]
    /\ target \in {Week[s] : s \in Slots} \cup {NoWeek}
    /\ since \in 0..FarCadence
    /\ left \in [Deadlines -> Nat]
    /\ book \in [Slots -> [count : Nat, left : 0..RetryCap]]
    /\ exclude \subseteq Slots /\ batch \subseteq Slots /\ charged \in Slots \cup {NoSlot}
    /\ failed \in 0..MaxTickFailures
    /\ closed \in BOOLEAN /\ waited \in 0..2 /\ faults \in 0..MaxFaults

\* A collection that came due is kept waiting by at most one child process,
\* a preparation worker or an outcome ingest: whichever held the loop when it
\* came due (tick, _prepare_checkpoints and _ingest_outcomes together).
CollectionWaitsForOneChild == waited <= 1

\* A slot an earlier pass failed on is worked on only when no slot without a
\* failure has work, whatever was claimed, cleared or pruned in between.
FreshSlotsFirst ==
    [][StartWorker /\ batch' \cap Retried # {} => (Due \cup Claimed) \subseteq Retried]_vars

\* However often a slot fails, every healthy one is prepared before its
\* kickoff, unless the kickoff comes first; and a deferred slot is never
\* dropped: it is worked on again until it is closed.
SlotsAdvance ==
    /\ \A s \in Slots \ Poison :
          (phase[s] = "due" /\ slot[s] \in {"open", "claimed"})
              ~> (slot[s] = "prepared" \/ s \notin Upcoming)
    /\ \A s \in Slots : slot[s] = "claimed" ~> (s \in batch \/ slot[s] # "claimed")

=============================================================================
