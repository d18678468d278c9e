--------------------------- MODULE SchedulerProofs ---------------------------
(***************************************************************************)
(* Theorems about the runtime scheduler, for every number of slots, every  *)
(* duration, cadence and backoff and any number of faults.                 *)
(***************************************************************************)
EXTENDS RuntimeScheduler, TLAPS

-----------------------------------------------------------------------------
(* A due collection waits for one child. *)

\* Between the two points at which a tick collects, nothing has waited yet.
Looked == {"house", "prepare", "spawn", "working", "snapshot", "ingest"}

OneChild == waited \in {0, 1} /\ (pc \in Looked => waited = 0)

LEMMA OneChildInit == Init => OneChild
  BY DEF Init, OneChild, Looked

\* A child that blocked the loop counts at most once.
LEMMA ChildCountsOnce ==
  ASSUME NEW d, waited = 0, ChildRan(d)
  PROVE  waited' \in {0, 1}
  BY DEF ChildRan, AtMost

\* The steps that run a child start with nothing waiting.
LEMMA ChildStepKeepsOneChild ==
  ASSUME OneChild,
         PassSucceeds \/ PassFails \/ LeftoversTimeout \/ IngestOutcomes
  PROVE  OneChild'
<1>1. waited = 0
  BY DEF OneChild, Looked, PassSucceeds, PassFails, LeftoversTimeout, IngestOutcomes
<1>2. CASE PassSucceeds
  <2>1. waited' \in {0, 1} /\ pc' = "recollect"
    BY <1>1, <1>2, ChildCountsOnce DEF PassSucceeds, Goto
  <2> QED  BY <2>1 DEF OneChild, Looked
<1>3. CASE PassFails
  <2>1. waited' \in {0, 1} /\ pc' = "recollect"
    BY <1>1, <1>3, ChildCountsOnce DEF PassFails, WorkerStops, Goto
  <2> QED  BY <2>1 DEF OneChild, Looked
<1>4. CASE LeftoversTimeout
  <2>1. waited' \in {0, 1} /\ pc' \in {"down", "sleep"}
    BY <1>1, <1>4, ChildCountsOnce DEF LeftoversTimeout, WorkerStops, Raise, Goto
  <2> QED  BY <2>1 DEF OneChild, Looked
<1>5. CASE IngestOutcomes
  <2>1. pc' = "sleep"
    BY <1>5 DEF IngestOutcomes, Goto
  <2>2. waited' \in {0, 1}
    BY <1>1, <1>5, ChildCountsOnce DEF IngestOutcomes
  <2> QED  BY <2>1, <2>2 DEF OneChild, Looked
<1> QED  BY <1>2, <1>3, <1>4, <1>5

\* Every other step leaves the count, or clears it by looking at the clock.
LEMMA StepKeepsOneChild ==
  ASSUME OneChild, [Next]_vars
  PROVE  OneChild'
<1>1. CASE Resolve
  BY <1>1 DEF Resolve, OneChild, Looked, Goto
<1>2. CASE Collect \/ Recollect
  BY <1>2 DEF Collect, Recollect, CollectIfDue, OneChild, Looked, Goto
<1>3. CASE Housekeeping
  BY <1>3 DEF Housekeeping, OneChild, Looked, Goto
<1>4. CASE SkipPreparation \/ ChargeSlot \/ StartWorker \/ PeriodicSnapshot \/ Sleep
  BY <1>4 DEF SkipPreparation, ChargeSlot, StartWorker, PeriodicSnapshot, Sleep, OneChild,
              Looked, Goto
<1>5. CASE PassSucceeds \/ PassFails \/ LeftoversTimeout \/ IngestOutcomes
  BY <1>5, ChildStepKeepsOneChild
<1>6. CASE LockTimeout
  BY <1>6 DEF LockTimeout, Raise, OneChild, Looked, Goto
<1>7. CASE Restart \/ Kill
  BY <1>7 DEF Restart, Kill, OneChild, Looked, Goto
<1>8. ASSUME NEW s \in Slots, ComeDue(s) \/ KickOff(s) \/ Expire(s) \/ PrepareManually(s)
      PROVE  OneChild'
  BY <1>8 DEF ComeDue, KickOff, Expire, PrepareManually, OneChild
<1>9. CASE DiskFills \/ DiskFrees
  BY <1>9 DEF DiskFills, DiskFrees, OneChild
<1>10. CASE UNCHANGED vars
  BY <1>10 DEF vars, OneChild
<1> QED  BY <1>1, <1>2, <1>3, <1>4, <1>5, <1>6, <1>7, <1>8, <1>9, <1>10 DEF Next, TickStep

\* A due collection is kept waiting by at most one child process, whatever the
\* durations, faults and cadences: tick collects before and after each worker.
THEOREM CollectionNotStarved == Spec => []CollectionWaitsForOneChild
<1>1. OneChild => CollectionWaitsForOneChild
  BY DEF OneChild, CollectionWaitsForOneChild
<1> QED  BY <1>1, OneChildInit, StepKeepsOneChild, PTL DEF Spec

-----------------------------------------------------------------------------
(* A slot that failed is retried only behind those that did not. *)

Work == Due \cup Claimed

\* What the pass excludes was chosen tier by tier.
Tiered == pc = "spawn" => (exclude = Retried \/ Work \subseteq Retried)

LEMMA TieredInit == Init => Tiered
  BY DEF Init, Tiered

LEMMA TierIsTiered ==
  ASSUME NEW skip \in Tier
  PROVE  skip = Retried \/ Work \subseteq Retried
  BY DEF Tier, WorkPending, Work

LEMMA ChargeSlotTiers ==
  ASSUME ChargeSlot
  PROVE  Tiered'
<1>1. PICK skip \in Tier : exclude' = skip
  BY DEF ChargeSlot
<1>2. UNCHANGED <<slot, phase, book, target>>
  BY DEF ChargeSlot, world
<1>3. Retried' = Retried /\ Work' = Work
  BY <1>2 DEF Retried, Work, Due, Claimed
<1> QED  BY <1>1, <1>3, TierIsTiered DEF Tiered

\* The steps that leave the loop waiting to start its worker.
LEMMA WaitingKeepsTiered ==
  ASSUME Tiered, pc' = pc, UNCHANGED <<exclude, book, target>>,
         pc = "spawn" => Work' \subseteq Work
  PROVE  Tiered'
<1>1. Retried' = Retried
  BY DEF Retried
<1> QED  BY <1>1 DEF Tiered

LEMMA StepKeepsTiered ==
  ASSUME Tiered, [Next]_vars
  PROVE  Tiered'
<1>1. CASE ChargeSlot
  BY <1>1, ChargeSlotTiers
<1>2. CASE Resolve \/ Collect \/ Recollect \/ Housekeeping \/ SkipPreparation \/ StartWorker
  BY <1>2 DEF Resolve, Collect, Recollect, CollectIfDue, Housekeeping, SkipPreparation,
              StartWorker, Tiered, Goto
<1>3. CASE PassSucceeds \/ PassFails \/ PeriodicSnapshot \/ IngestOutcomes \/ Sleep
  BY <1>3 DEF PassSucceeds, PassFails, PeriodicSnapshot, IngestOutcomes, Sleep, Tiered, Goto
<1>4. CASE LockTimeout \/ LeftoversTimeout
  BY <1>4 DEF LockTimeout, LeftoversTimeout, Raise, Tiered, Goto
<1>5. CASE Restart \/ Kill
  BY <1>5 DEF Restart, Kill, Tiered, Goto
<1>6. ASSUME NEW s \in Slots, ComeDue(s)
      PROVE  Tiered'
  BY <1>6 DEF ComeDue, Tiered
<1>7. ASSUME NEW s \in Slots, KickOff(s)
      PROVE  Tiered'
  BY <1>7 DEF KickOff, Tiered
<1>8. ASSUME NEW s \in Slots, Expire(s)
      PROVE  Tiered'
  <2>1. Work' = Work
    BY <1>8 DEF Expire, Work, Due, Claimed
  <2> QED  BY <1>8, <2>1, WaitingKeepsTiered DEF Expire, pass
<1>9. ASSUME NEW s \in Slots, PrepareManually(s)
      PROVE  Tiered'
  <2>1. Work' \subseteq Work
    BY <1>9 DEF PrepareManually, Work, Due, Claimed
  <2> QED  BY <1>9, <2>1, WaitingKeepsTiered DEF PrepareManually, pass
<1>10. CASE DiskFills \/ DiskFrees \/ UNCHANGED vars
  <2>1. pc' = pc /\ UNCHANGED <<exclude, book, target, slot, phase>>
    BY <1>10 DEF DiskFills, DiskFrees, vars, pass
  <2>2. Work' = Work
    BY <2>1 DEF Work, Due, Claimed
  <2> QED  BY <2>1, <2>2, WaitingKeepsTiered
<1> QED  BY <1>1, <1>2, <1>3, <1>4, <1>5, <1>6, <1>7, <1>8, <1>9, <1>10 DEF Next, TickStep

\* A worker that takes a slot which failed before finds no other work.
LEMMA WorkerIsTiered ==
  ASSUME Tiered
  PROVE  StartWorker /\ batch' \cap Retried # {} => Work \subseteq Retried
<1> SUFFICES ASSUME StartWorker, batch' \cap Retried # {}
             PROVE  Work \subseteq Retried
  OBVIOUS
<1>1. batch' \subseteq Work \ exclude
  BY DEF StartWorker, Batch, Work
<1>2. pc = "spawn"
  BY DEF StartWorker
<1> QED  BY <1>1, <1>2 DEF Tiered

\* The two tiers of _prepare_checkpoints keep their promise through the time
\* between choosing the exclusion and the worker's own reading of the tables.
THEOREM RetriesComeLast == Spec => FreshSlotsFirst
<1>1. Tiered => [StartWorker /\ batch' \cap Retried # {} => (Due \cup Claimed) \subseteq Retried]_vars
  BY WorkerIsTiered DEF Work
<1> QED  BY <1>1, TieredInit, StepKeepsTiered, PTL DEF Spec, FreshSlotsFirst
=============================================================================
