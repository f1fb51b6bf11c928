------------------------ MODULE PoolController_proofs ------------------------
(***************************************************************************)
(* Proofs about PoolController for every number of pods, sandboxes and     *)
(* replicas, every capacity and, where a theorem says so, every fault.     *)
(***************************************************************************)
EXTENDS PoolController, FiniteSetTheorems, TLAPS

-----------------------------------------------------------------------------
(* What the allocator's operators return.                                  *)

\* Subsets of the pods can be counted.
LEMMA PodSubset ==
  ASSUME NEW S \in SUBSET Pods
  PROVE  IsFiniteSet(S) /\ Cardinality(S) \in Nat
BY PodsAssumption, FS_Subset, FS_CardinalityType

\* The number of missing replicas is a number of pairs, hence natural.
LEMMA SupplementNat ==
  ASSUME NEW alloc, NEW sbx, NEW taken
  PROVE  Supplement(alloc, sbx, taken) \in Nat
<1> DEFINE pairs == {x \in Live(sbx) \X (1..MaxReplicas) :
                       x[2] <= Need(alloc, sbx, x[1]) - Cardinality(Got(taken, x[1]))}
<1>0. IsFiniteSet(1..MaxReplicas)
  BY MaxReplicasAssumption, FS_Interval
<1>1. IsFiniteSet(Sandboxes \X (1..MaxReplicas))
  BY <1>0, PodsAssumption, FS_Product
<1>2. pairs \subseteq Sandboxes \X (1..MaxReplicas)
  BY DEF Live
<1>3. IsFiniteSet(pairs)
  BY <1>1, <1>2, FS_Subset
<1> QED BY <1>3, FS_CardinalityType DEF Supplement

\* The clamped difference is natural: what the pool still has to create.
LEMMA SupplyNat ==
  ASSUME NEW supplement \in Nat, NEW idle \in SUBSET Pods
  PROVE  SupplyAfterIdle(supplement, idle) \in Nat
BY PodSubset DEF SupplyAfterIdle

\* Schedule writes well-formed annotations.
LEMMA NewEntryType ==
  ASSUME NEW alloc \in Allocations, NEW sbx \in [Sandboxes -> SandboxRecs],
         NEW pods \in [Pods -> PodPhases],
         NEW taken \in Grants(alloc, sbx, Available(alloc, pods)),
         NEW s \in Sandboxes
  PROVE  NewEntry(alloc, sbx, taken, s) \in Entries
<1>1. DOMAIN taken \subseteq Pods
  BY DEF Grants, Available
<1>2. Got(taken, s) \in SUBSET Pods
  BY <1>1 DEF Got
<1>3. Missing(alloc, sbx, s) \in SUBSET Pods /\ Owned(alloc, s) \in SUBSET Pods
  BY DEF Missing, Owned
<1>4. sbx[s].alloc \in SUBSET Pods /\ sbx[s].entries \in Nat
  BY DEF SandboxRecs
<1> QED BY <1>2, <1>3, <1>4, PodSubset DEF NewEntry, Entries

\* Schedule computes an allocation.
LEMMA ScheduledAllocType ==
  ASSUME NEW alloc \in Allocations, NEW sbx, NEW pods,
         NEW taken \in Grants(alloc, sbx, Available(alloc, pods))
  PROVE  ScheduledAlloc(alloc, sbx, taken) \in Allocations
<1>1. taken \in [Available(alloc, pods) -> Live(sbx) \cup {Unassigned}]
  BY DEF Grants
<1>2. Live(sbx) \subseteq Sandboxes
  BY DEF Live
<1> QED BY <1>1, <1>2 DEF ScheduledAlloc, Allocations

-----------------------------------------------------------------------------
(* Type correctness.                                                       *)

LEMMA BlankType ==
  ASSUME NEW phase \in SandboxPhases
  PROVE  Blank(phase) \in SandboxRecs
BY MaxReplicasAssumption DEF Blank, SandboxRecs

LEMMA EntryType ==
  ASSUME NEW rec \in SandboxRecs, NEW entry \in Entries
  PROVE  WithEntry(rec, entry) \in SandboxRecs
BY DEF WithEntry, SandboxRecs, Entries

LEMMA FieldType ==
  ASSUME NEW rec \in SandboxRecs
  PROVE  /\ \A n \in 0..MaxReplicas : [rec EXCEPT !.replicas = n] \in SandboxRecs
         /\ \A phase \in SandboxPhases : [rec EXCEPT !.phase = phase] \in SandboxRecs
         /\ \A p \in Pods : [rec EXCEPT !.released = @ \cup {p}] \in SandboxRecs
BY DEF SandboxRecs

LEMMA NoViewType ==
  NoView \in [pods : [Pods -> PodPhases], sandboxes : [Sandboxes -> SandboxRecs]]
BY BlankType DEF NoView, PodPhases, SandboxPhases

LEMMA NoPlanType == NoPlan \in Plans
BY MaxRevisionAssumption DEF NoPlan, Plans, Allocations, Entries

LEMMA FinishType ==
  ASSUME TypeOK, NEW again \in BOOLEAN, Finish(again)
  PROVE  /\ pc' = "idle"
         /\ view' \in [pods : [Pods -> PodPhases], sandboxes : [Sandboxes -> SandboxRecs]]
         /\ plan' \in Plans
         /\ queued' \in BOOLEAN
BY NoViewType, NoPlanType DEF Finish, TypeOK

LEMMA PlanForType ==
  ASSUME TypeOK, NEW pods \in [Pods -> PodPhases],
         NEW sbx \in [Sandboxes -> SandboxRecs],
         NEW taken \in Grants(poolSeen.alloc, sbx, Available(poolSeen.alloc, pods))
  PROVE  PlanFor(pods, sbx, taken) \in Plans
<1> DEFINE alloc == ScheduledAlloc(poolSeen.alloc, sbx, taken)
           idle  == Idle(alloc, UpIn(pods))
<1>1. poolSeen.alloc \in Allocations /\ poolSeen.revision \in 0..MaxRevision
  BY DEF TypeOK, Pools
<1>2. alloc \in Allocations
  BY <1>1, ScheduledAllocType
<1>3. [s \in Sandboxes |-> NewEntry(poolSeen.alloc, sbx, taken, s)] \in [Sandboxes -> Entries]
  BY <1>1, NewEntryType
<1>4. Dirty(poolSeen.alloc, sbx, taken) \in SUBSET Sandboxes
  BY DEF Dirty, Live
<1>5. PoolDirty(poolSeen.alloc, sbx, taken) \in BOOLEAN
  BY DEF PoolDirty
<1>6. idle \in SUBSET Pods
  BY DEF Idle, UpIn
<1>7. SupplyAfterIdle(Supplement(poolSeen.alloc, sbx, taken), idle) \in Nat
  BY <1>6, SupplementNat, SupplyNat
<1>8. (Supplement(poolSeen.alloc, sbx, taken) > 0 /\ idle # {}) \in BOOLEAN
  OBVIOUS
<1>9. (~unseenPatch) \in BOOLEAN /\ (~poolBehind) \in BOOLEAN
  OBVIOUS
<1> QED BY <1>1, <1>2, <1>3, <1>4, <1>5, <1>7, <1>8, <1>9 DEF PlanFor, Plans

LEMMA ScheduleType ==
  ASSUME TypeOK, NEW pods \in [Pods -> PodPhases],
         NEW sbx \in [Sandboxes -> SandboxRecs], Schedule(pods, sbx)
  PROVE  /\ pc' = "sync"
         /\ view' \in [pods : [Pods -> PodPhases], sandboxes : [Sandboxes -> SandboxRecs]]
         /\ plan' \in Plans
         /\ strayRecord' \in BOOLEAN
<1>1. PICK taken \in Grants(poolSeen.alloc, sbx, Available(poolSeen.alloc, pods)) :
        plan' = PlanFor(pods, sbx, taken)
  BY DEF Schedule
<1>2. plan' \in Plans
  BY <1>1, PlanForType
<1> QED BY <1>2 DEF Schedule

LEMMA TypeInit == Init => TypeOK
<1> SUFFICES ASSUME Init PROVE TypeOK
  OBVIOUS
<1>1. pool \in Pools
  BY MaxRevisionAssumption DEF Init, Pools, Allocations
<1>2. sandbox \in [Sandboxes -> SandboxRecs]
  BY BlankType DEF Init, SandboxPhases
<1>3. pod \in [Pods -> PodPhases] /\ podRevision \in [Pods -> 0..MaxRevision]
  BY MaxRevisionAssumption DEF Init, PodPhases
<1> QED BY <1>1, <1>2, <1>3, NoViewType, NoPlanType DEF Init, TypeOK

LEMMA TypeStep == TypeOK /\ [Next]_vars => TypeOK'
<1> SUFFICES ASSUME TypeOK, [Next]_vars PROVE TypeOK'
  OBVIOUS
<1> USE DEF TypeOK
<1> USE DEF api, cache, local, history
<1>1. CASE Reconcile
  BY <1>1, ScheduleType DEF Reconcile, StartReconcile, ObservedPods
<1>2. CASE ReconcilePanics
  BY <1>2 DEF ReconcilePanics, StartReconcile, ObservedPods
<1>3. CASE Retry
  BY <1>3, ScheduleType DEF Retry
<1>4. CASE RetryPanics
  BY <1>4, FinishType DEF RetryPanics
<1>5. ASSUME NEW s \in Sandboxes, SyncSandbox(s) PROVE TypeOK'
  <2>1. WithEntry(sandbox[s], plan.writes[s]) \in SandboxRecs
    BY EntryType DEF Plans
  <2>2. sandbox' = [sandbox EXCEPT ![s] = WithEntry(sandbox[s], plan.writes[s])]
    BY <1>5 DEF SyncSandbox
  <2>3. sandbox' \in [Sandboxes -> SandboxRecs]
    BY <2>1, <2>2
  <2>4. view' = [view EXCEPT !.sandboxes = [view.sandboxes EXCEPT ![s] = sandbox'[s]]]
    BY <1>5 DEF SyncSandbox
  <2>5. view' \in [pods : [Pods -> PodPhases], sandboxes : [Sandboxes -> SandboxRecs]]
    BY <2>3, <2>4
  <2>6. plan' \in Plans
    BY <1>5 DEF SyncSandbox, Plans
  <2> QED BY <1>5, <2>3, <2>5, <2>6 DEF SyncSandbox
<1>6. ASSUME NEW s \in Sandboxes, SyncSandboxFails(s) PROVE TypeOK'
  <2>1. WithEntry(view.sandboxes[s], plan.writes[s]) \in SandboxRecs
    BY EntryType DEF Plans
  <2>2. view' = [view EXCEPT !.sandboxes = [view.sandboxes EXCEPT ![s] =
                   WithEntry(view.sandboxes[s], plan.writes[s])]]
    BY <1>6 DEF SyncSandboxFails
  <2>3. view' \in [pods : [Pods -> PodPhases], sandboxes : [Sandboxes -> SandboxRecs]]
    BY <2>1, <2>2
  <2>4. plan' \in Plans
    BY <1>6 DEF SyncSandboxFails, Plans
  <2>5. WithEntry(sandbox[s], plan.writes[s]) \in SandboxRecs
    BY EntryType DEF Plans
  <2>6. sandbox' \in [Sandboxes -> SandboxRecs]
    BY <1>6, <2>5 DEF SyncSandboxFails
  <2> QED BY <1>6, <2>3, <2>4, <2>6 DEF SyncSandboxFails
<1>7. CASE Persist \/ PersistUnanswered
  <2>1. pool' \in Pools
    <3>1. pool' = [pool EXCEPT !.alloc = plan.alloc]
      BY <1>7 DEF Persist, PersistUnanswered
    <3>2. plan.alloc \in Allocations
      BY DEF Plans
    <3> QED BY <3>1, <3>2 DEF Pools
  <2>2. CASE Persist
    BY <2>1, <2>2, NoPlanType DEF Persist, Settled, Plans, Pools
  <2>3. CASE PersistUnanswered
    BY <2>1, <2>3, FinishType DEF PersistUnanswered
  <2> QED BY <1>7, <2>2, <2>3
<1>8. CASE PersistFails
  BY <1>8, FinishType DEF PersistFails
<1>9. CASE SkipPersist
  BY <1>9, NoPlanType DEF SkipPersist, Settled, Plans
<1>10. CASE ScaleNotReady
  BY <1>10, FinishType DEF ScaleNotReady
<1>11. CASE ScaleOut
  <2>1. PICK new \in SUBSET UnusedNames, unanswered \in SUBSET UnusedNames :
          /\ unanswered \subseteq new
          /\ pod' = [p \in Pods |-> IF p \in new THEN "pending" ELSE pod[p]]
          /\ podRevision' = [p \in Pods |-> IF p \in new THEN plan.revision ELSE podRevision[p]]
          /\ scaleExp' = scaleExp \cup (new \ unanswered)
          /\ strays' = strays \cup unanswered
          /\ \E ok \in BOOLEAN : AfterScale(ok)
    BY <1>11 DEF ScaleOut
  <2>2. new \subseteq Pods
    BY DEF UnusedNames
  <2>3. pod' \in [Pods -> PodPhases] /\ podRevision' \in [Pods -> 0..MaxRevision]
    BY <2>1 DEF PodPhases, Plans
  <2>4. /\ pc' \in {"idle", "status"} /\ queued' \in BOOLEAN /\ plan' \in Plans
        /\ view' \in [pods : [Pods -> PodPhases], sandboxes : [Sandboxes -> SandboxRecs]]
    BY <2>1, FinishType DEF AfterScale
  <2> QED BY <1>11, <2>1, <2>2, <2>3, <2>4 DEF ScaleOut
<1>12. CASE ScaleIn
  <2>1. PICK picked \in SUBSET LatestIdle : \E deleted \in SUBSET Victims(picked) :
          /\ pod' = [p \in Pods |-> IF p \in deleted THEN "terminating" ELSE pod[p]]
          /\ \E ok \in BOOLEAN : AfterScale(ok)
    BY <1>12 DEF ScaleIn
  <2>2. pod' \in [Pods -> PodPhases]
    BY <2>1 DEF PodPhases
  <2>3. /\ pc' \in {"idle", "status"} /\ queued' \in BOOLEAN /\ plan' \in Plans
        /\ view' \in [pods : [Pods -> PodPhases], sandboxes : [Sandboxes -> SandboxRecs]]
    BY <2>1, FinishType DEF AfterScale
  <2> QED BY <1>12, <2>2, <2>3 DEF ScaleIn
<1>13. CASE UpdateStatus
  BY <1>13, FinishType DEF UpdateStatus, Plans
<1>14. CASE StatusConflict
  BY <1>14, FinishType, NoPlanType DEF StatusConflict
<1>15. CASE StatusFails
  BY <1>15, FinishType DEF StatusFails
<1>16. ASSUME NEW p \in Pods, ObservePod(p) PROVE TypeOK'
  BY <1>16 DEF ObservePod
<1>17. ASSUME NEW s \in Sandboxes, ObserveSandbox(s) PROVE TypeOK'
  BY <1>17 DEF ObserveSandbox, SandboxEventQueues
<1>18. CASE ObservePool
  BY <1>18 DEF ObservePool, PoolEventQueues
<1>19. ASSUME NEW s \in Sandboxes, CreateSandbox(s) PROVE TypeOK'
  <2>1. PICK n \in 0..MaxReplicas :
          sandbox' = [sandbox EXCEPT ![s] = [Blank("live") EXCEPT !.replicas = n]]
    BY <1>19 DEF CreateSandbox
  <2>2. [Blank("live") EXCEPT !.replicas = n] \in SandboxRecs
    BY BlankType, FieldType DEF SandboxPhases
  <2> QED BY <1>19, <2>1, <2>2 DEF CreateSandbox
<1>20. ASSUME NEW s \in Sandboxes, ResizeSandbox(s) PROVE TypeOK'
  <2>1. PICK n \in 0..MaxReplicas :
          sandbox' = [sandbox EXCEPT ![s] = [sandbox[s] EXCEPT !.replicas = n]]
    BY <1>20 DEF ResizeSandbox
  <2>2. [sandbox[s] EXCEPT !.replicas = n] \in SandboxRecs
    BY FieldType
  <2> QED BY <1>20, <2>1, <2>2 DEF ResizeSandbox
<1>21. ASSUME NEW s \in Sandboxes, DeleteSandbox(s) PROVE TypeOK'
  <2>1. [sandbox[s] EXCEPT !.phase = "deleting"] \in SandboxRecs
    BY FieldType DEF SandboxPhases
  <2>2. Blank("gone") \in SandboxRecs
    BY BlankType DEF SandboxPhases
  <2>3. sandbox' \in [Sandboxes -> SandboxRecs]
    BY <1>21, <2>1, <2>2 DEF DeleteSandbox
  <2> QED BY <1>21, <2>3 DEF DeleteSandbox
<1>22. ASSUME NEW s \in Sandboxes, NEW p \in Pods, ReleasePod(s, p) PROVE TypeOK'
  <2>1. [sandbox[s] EXCEPT !.released = @ \cup {p}] \in SandboxRecs
    BY FieldType
  <2>2. sandbox' \in [Sandboxes -> SandboxRecs]
    BY <1>22, <2>1 DEF ReleasePod
  <2> QED BY <1>22, <2>2 DEF ReleasePod
<1>23. CASE EditTemplate
  <2>1. pool' \in Pools
    BY <1>23, MaxRevisionAssumption DEF EditTemplate, Pools
  <2>2. plan' \in Plans
    BY <1>23 DEF EditTemplate, Plans
  <2> QED BY <1>23, <2>1, <2>2 DEF EditTemplate
<1>24. ASSUME NEW p \in Pods, PodRuns(p) \/ PodEnds(p) \/ PodLost(p) PROVE TypeOK'
  BY <1>24 DEF PodRuns, PodEnds, PodLost, PodStep, PodPhases
<1>25. CASE Restart
  BY <1>25, FinishType DEF Restart
<1>26. CASE UNCHANGED vars
  BY <1>26 DEF vars
<1> QED
  BY <1>1, <1>2, <1>3, <1>4, <1>5, <1>6, <1>7, <1>8, <1>9, <1>10, <1>11, <1>12,
     <1>13, <1>14, <1>15, <1>16, <1>17, <1>18, <1>19, <1>20, <1>21, <1>22, <1>23,
     <1>24, <1>25, <1>26
  DEF Next, ReconcileStep, InformerStep, EnvironmentStep

\* Every value stays of its kind, whatever faults occur.
THEOREM TypeCorrect == Spec => []TypeOK
BY TypeInit, TypeStep, PTL DEF Spec

-----------------------------------------------------------------------------
(* The recorded allocation is never overwritten by a schedule that did not *)
(* start from it.  The strengthening says what poolResExpectations buys:   *)
(* with no patch of ours unseen, and none answered with an error since the *)
(* record was last read, the cached allocation is the recorded one, hence  *)
(* so is the base of a plan that was found ready.                          *)

RecordKnown ==
  /\ ~poolBehind => poolSeen.alloc = pool.alloc
  /\ ~unseenPatch /\ ~strayRecord => poolSeen.alloc = pool.alloc
  /\ pc = "sync" /\ plan.ready /\ ~strayRecord => plan.base = pool.alloc

LEMMA RecordKnownInit == Init => RecordKnown
BY DEF Init, RecordKnown

\* Only a permitted Persist changes the record.
LEMMA RecordStep ==
  ASSUME TypeOK, [Next]_vars
  PROVE  \/ pool'.alloc = pool.alloc
         \/ Persist \/ PersistUnanswered
<1> USE DEF api, cache, local, history
<1>1. CASE EditTemplate
  BY <1>1 DEF EditTemplate, TypeOK, Pools
<1>2. ASSUME NEW s \in Sandboxes, SyncSandbox(s) \/ SyncSandboxFails(s)
      PROVE  pool'.alloc = pool.alloc
  BY <1>2 DEF SyncSandbox, SyncSandboxFails
<1>3. CASE Reconcile \/ ReconcilePanics \/ Retry \/ RetryPanics
  BY <1>3 DEF Reconcile, ReconcilePanics, StartReconcile, Retry, RetryPanics
<1>4. CASE PersistFails \/ SkipPersist \/ ScaleNotReady \/ ScaleOut \/ ScaleIn
  BY <1>4 DEF PersistFails, SkipPersist, ScaleNotReady, ScaleOut, ScaleIn
<1>5. CASE UpdateStatus \/ StatusConflict \/ StatusFails
  BY <1>5 DEF UpdateStatus, StatusConflict, StatusFails
<1>6. CASE InformerStep
  BY <1>6 DEF InformerStep, ObservePod, ObserveSandbox, ObservePool
<1>7. ASSUME NEW s \in Sandboxes, CreateSandbox(s) \/ ResizeSandbox(s) \/ DeleteSandbox(s)
      PROVE  pool'.alloc = pool.alloc
  BY <1>7 DEF CreateSandbox, ResizeSandbox, DeleteSandbox
<1>8. ASSUME NEW s \in Sandboxes, NEW p \in Pods, ReleasePod(s, p)
      PROVE  pool'.alloc = pool.alloc
  BY <1>8 DEF ReleasePod
<1>9. ASSUME NEW p \in Pods, PodRuns(p) \/ PodEnds(p) \/ PodLost(p)
      PROVE  pool'.alloc = pool.alloc
  BY <1>9 DEF PodRuns, PodEnds, PodLost, PodStep
<1>10. CASE Restart \/ UNCHANGED vars
  BY <1>10 DEF Restart, vars
<1> QED
  BY <1>1, <1>2, <1>3, <1>4, <1>5, <1>6, <1>7, <1>8, <1>9, <1>10
  DEF Next, ReconcileStep, EnvironmentStep

LEMMA RecordKnownStep ==
  ASSUME TypeOK, RecordKnown, [Next]_vars
  PROVE  RecordKnown'
<1> USE DEF RecordKnown, api, cache, local, history
<1>1. CASE Reconcile \/ Retry
  <2>1. /\ UNCHANGED <<pool, poolSeen, poolBehind, unseenPatch>>
        /\ plan'.base = poolSeen.alloc /\ plan'.ready = ~unseenPatch
        /\ strayRecord' = (strayRecord /\ poolBehind)
    BY <1>1 DEF Reconcile, Retry, StartReconcile, Schedule, PlanFor
  <2> QED BY <2>1
<1>2. CASE ReconcilePanics \/ RetryPanics
  BY <1>2 DEF ReconcilePanics, StartReconcile, RetryPanics, Finish
<1>3. ASSUME NEW s \in Sandboxes, SyncSandbox(s) \/ SyncSandboxFails(s)
      PROVE  RecordKnown'
  BY <1>3 DEF SyncSandbox, SyncSandboxFails, TypeOK, Plans
<1>4. CASE Persist \/ PersistUnanswered \/ SkipPersist
  BY <1>4 DEF Persist, PersistUnanswered, Finish, SkipPersist
<1>5. CASE PersistFails \/ ScaleNotReady \/ StatusFails \/ UpdateStatus
  BY <1>5 DEF PersistFails, ScaleNotReady, StatusFails, UpdateStatus, Finish
<1>6. CASE ScaleOut \/ ScaleIn
  BY <1>6 DEF ScaleOut, ScaleIn, AfterScale, Finish
<1>7. CASE StatusConflict
  BY <1>7 DEF StatusConflict, Finish
<1>8. CASE InformerStep
  BY <1>8 DEF InformerStep, ObservePod, ObserveSandbox, ObservePool
<1>9. CASE EditTemplate
  BY <1>9 DEF EditTemplate, TypeOK, Pools, Plans
<1>10. ASSUME NEW s \in Sandboxes, CreateSandbox(s) \/ ResizeSandbox(s) \/ DeleteSandbox(s)
       PROVE  RecordKnown'
  BY <1>10 DEF CreateSandbox, ResizeSandbox, DeleteSandbox
<1>11. ASSUME NEW s \in Sandboxes, NEW p \in Pods, ReleasePod(s, p)
       PROVE  RecordKnown'
  BY <1>11 DEF ReleasePod
<1>12. ASSUME NEW p \in Pods, PodRuns(p) \/ PodEnds(p) \/ PodLost(p)
       PROVE  RecordKnown'
  BY <1>12 DEF PodRuns, PodEnds, PodLost, PodStep
<1>13. CASE Restart
  BY <1>13 DEF Restart, Finish
<1>14. CASE UNCHANGED vars
  BY <1>14 DEF vars
<1> QED
  BY <1>1, <1>2, <1>3, <1>4, <1>5, <1>6, <1>7, <1>8, <1>9, <1>10, <1>11, <1>12,
     <1>13, <1>14
  DEF Next, ReconcileStep, EnvironmentStep

\* Under every fault, lost answers included, an allocation is only replaced by
\* one computed from it, unless its own patch was answered with an error and no
\* reconcile has read it.
THEOREM AllocationNotLost == Spec => NoLostAllocation
<1>1. TypeOK /\ RecordKnown /\ [Next]_vars
        => [pool'.alloc # pool.alloc => plan.base = pool.alloc \/ strayRecord]_vars
  <2> SUFFICES ASSUME TypeOK, RecordKnown, [Next]_vars, pool'.alloc # pool.alloc
               PROVE  plan.base = pool.alloc \/ strayRecord
    OBVIOUS
  <2>1. Persist \/ PersistUnanswered
    BY RecordStep
  <2> QED BY <2>1 DEF Persist, PersistUnanswered, MayPersist, RecordKnown
<1>2. TypeOK /\ RecordKnown /\ [Next]_vars => RecordKnown'
  BY RecordKnownStep
<1> QED
  BY <1>1, <1>2, RecordKnownInit, TypeCorrect, PTL DEF Spec, NoLostAllocation

-----------------------------------------------------------------------------
(* poolMax is a ceiling on the pods whose creation was answered.  Every    *)
(* one of them that is up is either in the cache as such or expected       *)
(* (PoolScaleExpectations); so when nothing is expected the count a        *)
(* reconcile scales from is not too low for them.                          *)

Answered == UpIn(pod) \ strays

Counted ==
  /\ \A p \in Pods : pod[p] = "none" => podSeen[p] = "none"
  /\ \A p \in Answered : \/ podSeen[p] \in {"pending", "running"}
                         \/ podSeen[p] = "none" /\ p \in scaleExp
  /\ pc # "idle" => Answered \subseteq UpIn(view.pods) \cup scaleExp
  /\ PoolBounded

LEMMA CountedInit == Init => Counted
<1> SUFFICES ASSUME Init PROVE Counted
  OBVIOUS
<1>1. Answered = {}
  BY DEF Init, UpIn, Answered
<1>2. PoolBounded
  BY <1>1, FS_EmptySet, CapacityAssumption DEF PoolBounded, Answered
<1> QED BY <1>1, <1>2 DEF Init, Counted

\* Fewer pods up, the same events seen: nothing to recount.
LEMMA CountedShrinks ==
  ASSUME TypeOK, Counted, pod' \in [Pods -> PodPhases], Answered' \subseteq Answered,
         \A p \in Pods : pod'[p] = "none" => pod[p] = "none",
         UNCHANGED <<podSeen, scaleExp>>,
         pc' # "idle" => pc # "idle" /\ view'.pods = view.pods
  PROVE  Counted'
<1>1. Answered \in SUBSET Pods /\ Answered' \in SUBSET Answered
  BY DEF UpIn, Answered
<1>2. Cardinality(Answered') <= Cardinality(Answered)
  BY <1>1, PodSubset, FS_Subset
<1>3. Cardinality(Answered') \in Nat /\ Cardinality(Answered) \in Nat
  BY <1>1, PodSubset
<1>4. PoolBounded'
  BY <1>2, <1>3, CapacityAssumption DEF Counted, PoolBounded, Answered
<1> QED BY <1>4 DEF Counted

\* The desired total is clamped between PoolMin and PoolMax.
LEMMA DesiredTotalBounded ==
  ASSUME TypeOK
  PROVE  DesiredTotal \in Nat /\ DesiredTotal <= PoolMax
<1> DEFINE wanted == Allocated + plan.supply + Cardinality(OldIdle)
                       + DesiredBuffer(Total - Allocated)
<1>1. Allocated \in Nat
  BY PodSubset DEF Allocated
<1>2. OldIdle \in SUBSET Pods /\ UpIn(view.pods) \in SUBSET Pods
  BY DEF OldIdle, IdlePods, Idle, UpIn
<1>3. Cardinality(OldIdle) \in Nat /\ Total \in Nat
  BY <1>2, PodSubset DEF Total
<1>4. DesiredBuffer(Total - Allocated) \in Int
  BY <1>1, <1>3, CapacityAssumption DEF DesiredBuffer
<1>5. plan.supply \in Nat
  BY DEF TypeOK, Plans
<1>6. wanted \in Int
  BY <1>1, <1>3, <1>4, <1>5
<1>7. DesiredTotal = ClampToPool(wanted)
  BY DEF DesiredTotal
<1> HIDE DEF wanted
<1> QED BY <1>6, <1>7, CapacityAssumption DEF ClampToPool

\* Scaling out from a complete count reaches the desired total at most.
LEMMA ScaleOutBounded ==
  ASSUME TypeOK, Counted, ScaleOut
  PROVE  Counted'
<1> USE DEF TypeOK
<1>1. PICK new \in SUBSET UnusedNames, unanswered \in SUBSET UnusedNames :
        /\ unanswered \subseteq new
        /\ Cardinality(new) <= DesiredTotal - Total
        /\ pod' = [p \in Pods |-> IF p \in new THEN "pending" ELSE pod[p]]
        /\ scaleExp' = scaleExp \cup (new \ unanswered)
        /\ strays' = strays \cup unanswered
        /\ \E ok \in BOOLEAN : AfterScale(ok)
  BY DEF ScaleOut
<1>2. new \in SUBSET Pods /\ \A p \in new : pod[p] = "none"
  BY DEF UnusedNames
<1>3. Answered' \subseteq Answered \cup (new \ unanswered)
  BY <1>1, <1>2 DEF UpIn, Answered
<1>4. Answered \in SUBSET UpIn(view.pods) /\ UpIn(view.pods) \in SUBSET Pods
  BY DEF ScaleOut, ScaleReady, Counted, UpIn
<1>5. Cardinality(Answered) <= Total /\ Total \in Nat /\ Cardinality(Answered) \in Nat
  BY <1>4, PodSubset, FS_Subset DEF Total
<1>6. DesiredTotal \in Nat /\ DesiredTotal <= PoolMax
  BY DesiredTotalBounded
<1>7. Cardinality(Answered \cup new) <= Cardinality(Answered) + Cardinality(new)
  <2>1. IsFiniteSet(Answered) /\ IsFiniteSet(new) /\ Answered \cap new \in SUBSET Pods
    BY <1>2, <1>4, PodSubset
  <2>2. Cardinality(Answered \cap new) \in Nat /\ Cardinality(new) \in Nat
    BY <2>1, <1>2, PodSubset
  <2>3. Cardinality(Answered \cup new)
          = Cardinality(Answered) + Cardinality(new) - Cardinality(Answered \cap new)
    BY <2>1, FS_Union
  <2> QED BY <2>2, <2>3, <1>5
<1>8. PoolBounded'
  <2>1. Cardinality(new) \in Nat
    BY <1>2, PodSubset
  <2>2. Answered \cup new \in SUBSET Pods /\ Answered' \in SUBSET (Answered \cup new)
    BY <1>2, <1>3, <1>4
  <2>3. Cardinality(Answered \cup new) \in Nat /\ Cardinality(Answered') \in Nat
    BY <2>2, PodSubset
  <2>4. Cardinality(Answered') <= Cardinality(Answered \cup new)
    BY <2>2, PodSubset, FS_Subset
  <2>5. Cardinality(Answered') <= PoolMax
    BY <1>1, <1>5, <1>6, <1>7, <2>1, <2>3, <2>4, CapacityAssumption
  <2> QED BY <2>5 DEF PoolBounded, Answered
<1>9. UNCHANGED podSeen /\ (pc' # "idle" => UNCHANGED view)
  BY <1>1 DEF ScaleOut, cache, AfterScale, Finish
<1>10. \A p \in new : podSeen[p] = "none"
  BY <1>2 DEF Counted
<1>11. \A p \in Pods : pod'[p] = "none" => podSeen'[p] = "none"
  BY <1>1, <1>2, <1>9 DEF Counted
<1> QED
  BY <1>1, <1>2, <1>3, <1>4, <1>8, <1>9, <1>10, <1>11 DEF Counted, ScaleOut

LEMMA CountedStep ==
  ASSUME TypeOK, Counted, [Next]_vars
  PROVE  Counted'
<1> USE DEF TypeOK, Answered, api, cache, local, history
<1>1. CASE Reconcile
  <2>1. /\ UNCHANGED <<pod, strays, podSeen>>
        /\ view'.pods = podSeen
        /\ scaleExp' = scaleExp \ ObservedPods
    BY <1>1 DEF Reconcile, StartReconcile, Schedule
  <2>2. PoolBounded'
    BY <2>1 DEF Counted, PoolBounded, UpIn
  <2> QED BY <2>1, <2>2 DEF Counted, ObservedPods, UpIn
<1>2. CASE ReconcilePanics
  <2>1. UNCHANGED <<pod, strays, podSeen, view, pc>> /\ pc = "idle"
        /\ scaleExp' = scaleExp \ ObservedPods
    BY <1>2 DEF ReconcilePanics, StartReconcile
  <2>2. PoolBounded'
    BY <2>1 DEF Counted, PoolBounded, UpIn
  <2> QED BY <2>1, <2>2 DEF Counted, ObservedPods, UpIn
<1>3. CASE Retry
  <2>1. UNCHANGED <<pod, strays, podSeen, scaleExp>> /\ view'.pods = view.pods /\ pc # "idle"
    BY <1>3 DEF Retry, Schedule
  <2> QED BY <2>1, CountedShrinks
<1>4. ASSUME NEW s \in Sandboxes, SyncSandbox(s) \/ SyncSandboxFails(s)
      PROVE  Counted'
  <2>1. UNCHANGED <<pod, strays, podSeen, scaleExp, pc>> /\ view'.pods = view.pods
    BY <1>4 DEF SyncSandbox, SyncSandboxFails
  <2> QED BY <2>1, CountedShrinks
<1>5. CASE Persist \/ SkipPersist
  <2>1. UNCHANGED <<pod, strays, podSeen, scaleExp, view>> /\ pc # "idle"
    BY <1>5 DEF Persist, SkipPersist
  <2> QED BY <2>1, CountedShrinks
<1>6. CASE RetryPanics \/ PersistFails \/ PersistUnanswered \/ ScaleNotReady \/ StatusFails \/ UpdateStatus
  <2>1. UNCHANGED <<pod, strays, podSeen, scaleExp>> /\ pc' = "idle"
    BY <1>6 DEF RetryPanics, PersistFails, PersistUnanswered, ScaleNotReady, StatusFails, UpdateStatus, Finish
  <2> QED BY <2>1, CountedShrinks
<1>7. CASE ScaleOut
  BY <1>7, ScaleOutBounded
<1>8. CASE ScaleIn
  <2>1. PICK picked \in SUBSET LatestIdle : \E deleted \in SUBSET Victims(picked) :
          /\ \A p \in deleted : pod[p] # "gone"
          /\ pod' = [p \in Pods |-> IF p \in deleted THEN "terminating" ELSE pod[p]]
          /\ strays' = strays \cap UpIn(pod')
          /\ \E ok \in BOOLEAN : AfterScale(ok)
    BY <1>8 DEF ScaleIn
  <2>2. /\ pod' \in [Pods -> PodPhases] /\ Answered' \subseteq Answered
        /\ \A p \in Pods : pod'[p] = "none" => pod[p] = "none"
    BY <2>1 DEF UpIn, PodPhases
  <2>3. pc' # "idle" => view'.pods = view.pods
    BY <2>1 DEF AfterScale, Finish
  <2>4. UNCHANGED <<podSeen, scaleExp>> /\ pc # "idle"
    BY <1>8 DEF ScaleIn
  <2> QED BY <2>2, <2>3, <2>4, CountedShrinks
<1>9. CASE StatusConflict
  <2>1. UNCHANGED <<pod, strays, podSeen, scaleExp>> /\ pc # "idle"
        /\ (pc' # "idle" => view'.pods = view.pods)
    BY <1>9 DEF StatusConflict, Finish
  <2> QED BY <2>1, CountedShrinks
<1>10. ASSUME NEW p \in Pods, ObservePod(p) PROVE Counted'
  <2>1. UNCHANGED <<pod, strays, scaleExp, view, pc>> /\ podSeen' = [podSeen EXCEPT ![p] = pod[p]]
    BY <1>10 DEF ObservePod
  <2>2. PoolBounded'
    BY <2>1 DEF Counted, PoolBounded, UpIn
  <2> QED BY <2>1, <2>2 DEF Counted, UpIn
<1>11. CASE ObservePool \/ EditTemplate
  <2>1. UNCHANGED <<pod, strays, podSeen, scaleExp, view, pc>>
    BY <1>11 DEF ObservePool, EditTemplate
  <2> QED BY <2>1, CountedShrinks
<1>12. ASSUME NEW s \in Sandboxes,
              ObserveSandbox(s) \/ CreateSandbox(s) \/ ResizeSandbox(s) \/ DeleteSandbox(s)
       PROVE  Counted'
  <2>1. UNCHANGED <<pod, strays, podSeen, scaleExp, view, pc>>
    BY <1>12 DEF ObserveSandbox, CreateSandbox, ResizeSandbox, DeleteSandbox
  <2> QED BY <2>1, CountedShrinks
<1>13. ASSUME NEW s \in Sandboxes, NEW p \in Pods, ReleasePod(s, p)
       PROVE  Counted'
  <2>1. UNCHANGED <<pod, strays, podSeen, scaleExp, view, pc>>
    BY <1>13 DEF ReleasePod
  <2> QED BY <2>1, CountedShrinks
<1>14. ASSUME NEW p \in Pods, PodRuns(p) \/ PodEnds(p) \/ PodLost(p)
       PROVE  Counted'
  <2>1. UNCHANGED <<podSeen, scaleExp, view, pc>>
    BY <1>14 DEF PodRuns, PodEnds, PodLost, PodStep
  <2>2. /\ pod' \in [Pods -> PodPhases] /\ Answered' \subseteq Answered
        /\ \A q \in Pods : pod'[q] = "none" => pod[q] = "none"
    BY <1>14 DEF PodRuns, PodEnds, PodLost, PodStep, UpIn, PodPhases
  <2> QED BY <2>1, <2>2, CountedShrinks
<1>15. CASE Restart
  <2>1. UNCHANGED <<pod, strays>> /\ podSeen' = pod /\ pc' = "idle"
    BY <1>15 DEF Restart, Finish
  <2>2. PoolBounded'
    BY <2>1 DEF Counted, PoolBounded, UpIn
  <2> QED BY <2>1, <2>2 DEF Counted, UpIn
<1>16. CASE UNCHANGED vars
  BY <1>16, CountedShrinks DEF vars
<1> QED
  BY <1>1, <1>2, <1>3, <1>4, <1>5, <1>6, <1>7, <1>8, <1>9, <1>10, <1>11, <1>12,
     <1>13, <1>14, <1>15, <1>16
  DEF Next, ReconcileStep, InformerStep, EnvironmentStep

\* Under every fault, lost answers included, never more than PoolMax pods are up
\* beside those whose creation was answered with an error.
THEOREM PoolStaysBounded == Spec => []PoolBounded
<1>1. TypeOK /\ Counted /\ [Next]_vars => Counted'
  BY CountedStep
<1>2. Counted => PoolBounded
  BY DEF Counted
<1> QED BY <1>1, <1>2, CountedInit, TypeCorrect, PTL DEF Spec

-----------------------------------------------------------------------------
(* Exclusive, Recorded and UsedPodsStay need a reconcile that reads the    *)
(* Pool it last wrote, writes of the Pool that succeed, no crash between   *)
(* the patches and no early release.  Then the record or, while the        *)
(* patches are under way, the plan names the holder of every pod in every  *)
(* copy of an annotation.                                                  *)

Orderly ==
  Faults \cap {"poolLag", "poolWrite", "restart", "release", "earlyRelease"} = {}

Recording == IF pc = "sync" THEN plan.alloc ELSE pool.alloc

\* The annotations name pods recorded for their sandboxes; a sandbox that is not
\* there names none, and none has given back a pod.
Covers(alloc, copy) ==
  \A s \in Sandboxes :
    /\ copy[s].alloc \subseteq Owned(alloc, s)
    /\ copy[s].phase \in {"none", "gone"} => copy[s].alloc = {}
    /\ copy[s].released = {}

Covered ==
  /\ Covers(Recording, sandbox)
  /\ Covers(Recording, sandboxSeen)
  /\ Covers(Recording, view.sandboxes)

\* The copies age in one order, and nothing is recorded for a sandbox that no
\* reconcile has seen.
Aged ==
  \A s \in Sandboxes :
    /\ sandbox[s].phase = "none" => sandboxSeen[s].phase = "none"
    /\ sandboxSeen[s].phase = "none" =>
         view.sandboxes[s].phase = "none" /\ Owned(Recording, s) = {}
    /\ sandboxSeen[s].phase = "gone" => sandbox[s].phase = "gone"
    /\ pc # "idle" /\ view.sandboxes[s].phase = "none" => Owned(Recording, s) = {}
    /\ view.sandboxes[s].phase = "gone" => sandboxSeen[s].phase = "gone"

\* What a plan may still write, and when it equals the record.
Planned ==
  /\ pc = "sync" =>
       /\ plan.ready
       /\ \A s \in plan.dirty : plan.writes[s].alloc \subseteq Owned(plan.alloc, s)
       /\ plan.dirty \subseteq Live(view.sandboxes)
       /\ ~plan.poolDirty => plan.alloc = pool.alloc
  /\ pc \in {"scale", "status"} => plan.alloc = pool.alloc
  /\ unseenPatch => poolBehind
  /\ ~poolBehind => poolSeen.alloc = pool.alloc

Consistent == Covered /\ Aged /\ Planned

LEMMA ConsistentInit == Init => Consistent
<1> SUFFICES ASSUME Init PROVE Consistent
  OBVIOUS
<1>1. /\ sandbox = [s \in Sandboxes |-> Blank("none")] /\ sandboxSeen = sandbox
      /\ view.sandboxes = sandbox /\ pc = "idle"
      /\ poolSeen = pool /\ ~unseenPatch /\ pool.alloc = [p \in Pods |-> Unassigned]
  BY DEF Init, NoView
<1>2. \A s \in Sandboxes : Owned(pool.alloc, s) = {}
  BY <1>1, UnassignedAssumption DEF Owned
<1>3. Recording = pool.alloc
  BY <1>1 DEF Recording
<1> QED BY <1>1, <1>2, <1>3 DEF Consistent, Covered, Covers, Aged, Planned, Blank

\* What a schedule preserves of the allocation it starts from.
Keeps(alloc, sbx, taken, new) ==
  /\ \A s \in Sandboxes : sbx[s].phase # "gone" => Owned(alloc, s) \subseteq Owned(new, s)
  /\ \A s \in Sandboxes : sbx[s].phase = "none" => Owned(new, s) = {}
  /\ \A s \in Live(sbx) : Got(taken, s) \subseteq Owned(new, s)
  /\ ~PoolDirty(alloc, sbx, taken) => new = alloc

\* A schedule over sandboxes that release nothing only adds to what the ones not
\* gone hold, and is the old allocation when it leaves the pool clean.
LEMMA ScheduleKeeps ==
  ASSUME NEW alloc \in Allocations, NEW sbx \in [Sandboxes -> SandboxRecs],
         NEW pods, NEW taken \in Grants(alloc, sbx, Available(alloc, pods)),
         \A s \in Sandboxes : sbx[s].released = {},
         \A s \in Sandboxes : sbx[s].phase = "none" => Owned(alloc, s) = {}
  PROVE  Keeps(alloc, sbx, taken, ScheduledAlloc(alloc, sbx, taken))
<1> DEFINE new == ScheduledAlloc(alloc, sbx, taken)
<1>1. Releases(alloc, sbx) = {}
  BY DEF Releases, Listed
<1>2. /\ taken \in [Available(alloc, pods) -> Live(sbx) \cup {Unassigned}]
      /\ DOMAIN taken \subseteq Pods
      /\ \A p \in DOMAIN taken : alloc[p] = Unassigned
  BY DEF Grants, Available
<1>3. \A p \in Pods : new[p] = IF p \in Collected(alloc, sbx) THEN Unassigned
                               ELSE IF p \in DOMAIN taken THEN taken[p] ELSE alloc[p]
  BY <1>1 DEF ScheduledAlloc
<1>4. \A p \in DOMAIN taken : p \notin Collected(alloc, sbx)
  BY <1>2, UnassignedAssumption DEF Collected
<1>5. ASSUME NEW s \in Sandboxes, sbx[s].phase # "gone"
      PROVE  Owned(alloc, s) \subseteq Owned(new, s)
  <2> SUFFICES ASSUME NEW p \in Pods, alloc[p] = s PROVE new[p] = s
    BY DEF Owned
  <2>1. sbx[s].phase # "none"
    BY DEF Owned
  <2>2. s \in Listed(sbx)
    BY <2>1, <1>5 DEF Listed, SandboxRecs, SandboxPhases
  <2>3. p \notin Collected(alloc, sbx) /\ p \notin DOMAIN taken
    BY <2>2, <1>2, UnassignedAssumption DEF Collected
  <2> QED BY <2>3, <1>3
<1>6. ASSUME NEW s \in Sandboxes, sbx[s].phase = "none"
      PROVE  Owned(new, s) = {}
  <2> SUFFICES ASSUME NEW p \in Pods, new[p] = s PROVE FALSE
    BY DEF Owned
  <2>1. s \notin Live(sbx) /\ s # Unassigned
    BY <1>6, UnassignedAssumption DEF Live
  <2>2. alloc[p] # s
    BY <1>6 DEF Owned
  <2> QED BY <2>1, <2>2, <1>2, <1>3
<1>7. \A s \in Live(sbx) : Got(taken, s) \subseteq Owned(new, s)
  BY <1>2, <1>3, <1>4 DEF Got, Owned
<1>8. ASSUME ~PoolDirty(alloc, sbx, taken)
      PROVE  new = alloc
  <2>1. Collected(alloc, sbx) = {} /\ \A p \in DOMAIN taken : taken[p] = Unassigned
    BY <1>8 DEF PoolDirty
  <2>2. \A p \in Pods : new[p] = alloc[p]
    BY <2>1, <1>2, <1>3
  <2>3. new \in Allocations
    BY ScheduledAllocType
  <2> QED BY <2>2, <2>3 DEF Allocations
<1> QED BY <1>5, <1>6, <1>7, <1>8 DEF Keeps

\* Reconcile and Retry establish a plan that covers every copy.
LEMMA ScheduleConsistent ==
  ASSUME TypeOK, Consistent, pc \in {"idle", "retry"}, ~poolBehind,
         NEW pods \in [Pods -> PodPhases], NEW sbx \in [Sandboxes -> SandboxRecs],
         Schedule(pods, sbx), UNCHANGED <<api, cache, unseenPatch>>,
         Covers(pool.alloc, sbx),
         \A s \in Sandboxes : sbx[s].phase = "none" => Owned(pool.alloc, s) = {},
         \A s \in Sandboxes :
           /\ sbx[s].phase = "gone" => sandboxSeen[s].phase = "gone"
           /\ sandboxSeen[s].phase = "none" => sbx[s].phase = "none"
  PROVE  Consistent'
<1> USE DEF api, cache
<1>1. poolSeen.alloc = pool.alloc /\ Recording = pool.alloc /\ pool.alloc \in Allocations
  BY DEF Consistent, Planned, Recording, TypeOK, Pools
<1>2. PICK taken \in Grants(pool.alloc, sbx, Available(pool.alloc, pods)) :
        plan' = PlanFor(pods, sbx, taken)
  BY <1>1 DEF Schedule
<1>3. PICK new : new = ScheduledAlloc(pool.alloc, sbx, taken)
  OBVIOUS
<1>4. Keeps(pool.alloc, sbx, taken, new)
  <2>1. \A s \in Sandboxes : sbx[s].released = {}
    BY DEF Covers
  <2> QED BY <1>1, <1>3, <2>1, ScheduleKeeps
<1>5. /\ \A s \in Sandboxes : sbx[s].phase # "gone" => Owned(pool.alloc, s) \subseteq Owned(new, s)
      /\ \A s \in Sandboxes : sbx[s].phase = "none" => Owned(new, s) = {}
      /\ \A s \in Live(sbx) : Got(taken, s) \subseteq Owned(new, s)
      /\ ~PoolDirty(pool.alloc, sbx, taken) => new = pool.alloc
  BY ONLY <1>4 DEF Keeps
<1>6. /\ pc' = "sync" /\ view'.sandboxes = sbx
      /\ plan'.alloc = new /\ plan'.ready = ~unseenPatch
      /\ plan'.writes = [s \in Sandboxes |-> NewEntry(pool.alloc, sbx, taken, s)]
      /\ plan'.dirty = Dirty(pool.alloc, sbx, taken)
      /\ plan'.poolDirty = PoolDirty(pool.alloc, sbx, taken)
  BY <1>1, <1>2, <1>3 DEF Schedule, PlanFor
<1>7. Recording' = new
  BY <1>6 DEF Recording
<1>8. ASSUME NEW copy, Covers(pool.alloc, copy),
             \A s \in Sandboxes : sbx[s].phase = "gone" => copy[s].phase = "gone"
      PROVE  Covers(new, copy)
  BY <1>5, <1>8 DEF Covers
<1>9. \A s \in Sandboxes : sbx[s].phase = "gone" => sandbox[s].phase = "gone"
  BY DEF Consistent, Aged
<1>10. Covers(pool.alloc, sandbox) /\ Covers(pool.alloc, sandboxSeen)
  BY <1>1 DEF Consistent, Covered
<1>11. Covers(new, sandbox) /\ Covers(new, sandboxSeen) /\ Covers(new, sbx)
  BY <1>8, <1>9, <1>10
<1>12. Covered'
  BY <1>6, <1>7, <1>11 DEF Covered
<1>13. \A s \in Sandboxes : sandboxSeen[s].phase = "none" => Owned(new, s) = {}
  BY <1>5
<1>14. Aged'
  BY <1>5, <1>6, <1>7, <1>13 DEF Consistent, Aged
<1>15. \A s \in Dirty(pool.alloc, sbx, taken) :
         NewEntry(pool.alloc, sbx, taken, s).alloc \subseteq Owned(new, s)
  BY <1>5 DEF Dirty, Live, NewEntry, Covers
<1>16. Dirty(pool.alloc, sbx, taken) \subseteq Live(sbx) /\ Live(sbx) \subseteq Sandboxes
  BY DEF Dirty, Live
<1>17. plan'.ready /\ (~poolBehind' => poolSeen'.alloc = pool'.alloc)
  BY <1>1, <1>6 DEF Consistent, Planned
<1>18. \A s \in plan'.dirty : plan'.writes[s].alloc \subseteq Owned(plan'.alloc, s)
  BY <1>6, <1>15, <1>16
<1>19. ~plan'.poolDirty => plan'.alloc = pool'.alloc
  BY <1>5, <1>6
<1>20. Planned'
  BY <1>6, <1>16, <1>17, <1>18, <1>19 DEF Consistent, Planned
<1> QED BY <1>12, <1>14, <1>20 DEF Consistent

\* The steps of a reconcile after its schedule.  A patch of a sandbox writes pods
\* the plan covers; the persist makes the plan the record.
LEMMA SyncConsistent ==
  ASSUME TypeOK, Consistent, NEW s \in Sandboxes, SyncSandbox(s)
  PROVE  Consistent'
<1> USE DEF TypeOK, api, cache
<1>1. /\ pc = "sync" /\ s \in plan.dirty /\ sandbox[s].phase \in {"live", "deleting"}
      /\ sandbox' = [sandbox EXCEPT ![s] = WithEntry(sandbox[s], plan.writes[s])]
      /\ view' = [view EXCEPT !.sandboxes = [view.sandboxes EXCEPT ![s] = sandbox'[s]]]
      /\ plan' = [plan EXCEPT !.dirty = @ \ {s}]
      /\ UNCHANGED <<pod, podRevision, pool, cache, unseenPatch, scaleExp, queued, pc>>
  BY DEF SyncSandbox, Exists
<1>2. /\ sandbox'[s].alloc = plan.writes[s].alloc
      /\ sandbox'[s].phase = sandbox[s].phase
      /\ sandbox'[s].released = sandbox[s].released
      /\ \A u \in Sandboxes \ {s} : sandbox'[u] = sandbox[u]
  BY <1>1 DEF WithEntry, SandboxRecs
<1>3. /\ view'.sandboxes[s] = sandbox'[s]
      /\ \A u \in Sandboxes \ {s} : view'.sandboxes[u] = view.sandboxes[u]
  BY <1>1
<1>4. /\ plan'.alloc = plan.alloc /\ plan'.writes = plan.writes /\ plan'.ready = plan.ready
      /\ plan'.dirty = plan.dirty \ {s} /\ plan'.poolDirty = plan.poolDirty
  BY <1>1 DEF Plans
<1>5. Recording = plan.alloc /\ Recording' = plan.alloc
  BY <1>1, <1>4 DEF Recording
<1>6. plan.writes[s].alloc \subseteq Owned(plan.alloc, s) /\ view.sandboxes[s].phase = "live"
  BY <1>1 DEF Consistent, Planned, Live
<1>7. Covered'
  BY <1>1, <1>2, <1>3, <1>5, <1>6 DEF Consistent, Covered, Covers
<1>8. Aged'
  BY <1>1, <1>2, <1>3, <1>5, <1>6 DEF Consistent, Aged
<1>9. plan'.dirty \subseteq Live(view'.sandboxes)
  BY <1>1, <1>3, <1>4 DEF Consistent, Planned, Live
<1>10. Planned'
  BY <1>1, <1>4, <1>9 DEF Consistent, Planned
<1> QED BY <1>7, <1>8, <1>10 DEF Consistent

LEMMA SyncFailsConsistent ==
  ASSUME TypeOK, Consistent, NEW s \in Sandboxes, SyncSandboxFails(s)
  PROVE  Consistent'
<1> USE DEF TypeOK, api, cache
<1>1. /\ pc = "sync" /\ s \in plan.dirty
      /\ view' = [view EXCEPT !.sandboxes = [view.sandboxes EXCEPT ![s] =
                    WithEntry(view.sandboxes[s], plan.writes[s])]]
      /\ plan' = [plan EXCEPT !.dirty = @ \ {s}]
      /\ UNCHANGED <<pod, podRevision, pool, cache, unseenPatch, scaleExp, queued, pc>>
  BY DEF SyncSandboxFails
<1>2. /\ view'.sandboxes[s].alloc = plan.writes[s].alloc
      /\ view'.sandboxes[s].phase = view.sandboxes[s].phase
      /\ view'.sandboxes[s].released = view.sandboxes[s].released
      /\ \A u \in Sandboxes \ {s} : view'.sandboxes[u] = view.sandboxes[u]
  BY <1>1 DEF WithEntry, SandboxRecs
<1>3. /\ plan'.alloc = plan.alloc /\ plan'.writes = plan.writes /\ plan'.ready = plan.ready
      /\ plan'.dirty = plan.dirty \ {s} /\ plan'.poolDirty = plan.poolDirty
  BY <1>1 DEF Plans
<1>4. Recording = plan.alloc /\ Recording' = plan.alloc
  BY <1>1, <1>3 DEF Recording
<1>5. plan.writes[s].alloc \subseteq Owned(plan.alloc, s) /\ view.sandboxes[s].phase = "live"
  BY <1>1 DEF Consistent, Planned, Live
<1>6. /\ \/ sandbox'[s].alloc = sandbox[s].alloc
         \/ /\ sandbox'[s].alloc = plan.writes[s].alloc
            /\ sandbox[s].phase \in {"live", "deleting"}
      /\ sandbox'[s].phase = sandbox[s].phase
      /\ sandbox'[s].released = sandbox[s].released
      /\ \A u \in Sandboxes \ {s} : sandbox'[u] = sandbox[u]
  <2>1. CASE UNCHANGED sandbox
    BY <2>1
  <2>2. CASE Exists(s) /\ sandbox' = [sandbox EXCEPT ![s] = WithEntry(sandbox[s], plan.writes[s])]
    BY <2>2 DEF WithEntry, SandboxRecs, Exists
  <2> QED BY <2>1, <2>2 DEF SyncSandboxFails
<1>7. Covered'
  BY <1>1, <1>2, <1>4, <1>5, <1>6 DEF Consistent, Covered, Covers
<1>8. Aged'
  BY <1>1, <1>2, <1>4, <1>5, <1>6 DEF Consistent, Aged
<1>9. plan'.dirty \subseteq Live(view'.sandboxes)
  BY <1>1, <1>2, <1>3 DEF Consistent, Planned, Live
<1>10. Planned'
  BY <1>1, <1>3, <1>9 DEF Consistent, Planned
<1> QED BY <1>7, <1>8, <1>10 DEF Consistent

LEMMA PersistConsistent ==
  ASSUME TypeOK, Consistent, Persist \/ SkipPersist
  PROVE  Consistent'
<1> USE DEF TypeOK, api, cache
<1>1. /\ pc = "sync" /\ pc' = "scale"
      /\ UNCHANGED <<sandbox, sandboxSeen, view>>
      /\ pool'.alloc = plan.alloc /\ plan'.alloc = plan.alloc
  BY DEF Persist, SkipPersist, Settled, NoPlan, Pools, Consistent, Planned
<1>2. Recording = plan.alloc /\ Recording' = plan.alloc
  BY <1>1 DEF Recording
<1>3. Covered' /\ Aged'
  BY <1>1, <1>2 DEF Consistent, Covered, Aged
<1>4. /\ unseenPatch' => poolBehind'
      /\ ~poolBehind' => poolSeen'.alloc = pool'.alloc
  <2>1. CASE Persist
    BY <2>1 DEF Persist
  <2>2. CASE SkipPersist
    BY <2>2 DEF SkipPersist, Consistent, Planned
  <2> QED BY <2>1, <2>2
<1>5. Planned'
  BY <1>1, <1>4 DEF Planned
<1> QED BY <1>3, <1>5 DEF Consistent

\* A reconcile ends with the record in force: the view and the plan are dropped.
LEMMA FinishConsistent ==
  ASSUME TypeOK, Consistent, pc # "sync", NEW again, Finish(again),
         UNCHANGED <<sandbox, pool, sandboxSeen, poolSeen, unseenPatch>>,
         poolBehind => poolBehind'
  PROVE  Consistent'
<1>1. pc' = "idle" /\ view'.sandboxes = [s \in Sandboxes |-> Blank("none")]
  BY DEF Finish, NoView
<1>2. Recording = pool.alloc /\ Recording' = pool.alloc
  BY <1>1 DEF Recording
<1>3. Covers(Recording', view'.sandboxes)
  BY <1>1 DEF Covers, Blank
<1>4. Covered'
  BY <1>2, <1>3 DEF Consistent, Covered
<1>5. Aged'
  BY <1>1, <1>2 DEF Consistent, Aged, Blank
<1>6. Planned'
  BY <1>1 DEF Consistent, Planned
<1> QED BY <1>4, <1>5, <1>6 DEF Consistent

\* A step that leaves the annotations and the record alone.
LEMMA UntouchedConsistent ==
  ASSUME TypeOK, Consistent, pc # "sync",
         pc' \in {"scale", "status", "retry", "idle"},
         pc' \in {"scale", "status"} => pc \in {"scale", "status"} /\ UNCHANGED plan,
         pc' # "idle" => pc # "idle",
         UNCHANGED <<sandbox, pool, sandboxSeen, poolSeen, poolBehind, unseenPatch, view>>
  PROVE  Consistent'
<1>1. Recording = pool.alloc /\ Recording' = pool.alloc
  BY DEF Recording
<1>2. Covered' /\ Aged'
  BY <1>1 DEF Consistent, Covered, Aged
<1>3. Planned'
  BY DEF Consistent, Planned
<1> QED BY <1>2, <1>3 DEF Consistent

LEMMA ConsistentStep ==
  ASSUME Orderly, TypeOK, Consistent, [Next]_vars
  PROVE  Consistent'
<1> USE DEF api, cache, local
<1>1. CASE Reconcile
  <2>1. /\ pc = "idle" /\ ~poolBehind /\ Schedule(podSeen, sandboxSeen)
        /\ UNCHANGED <<api, cache, unseenPatch>>
    BY <1>1 DEF Reconcile, StartReconcile, PoolReadable, Orderly
  <2>2. Recording = pool.alloc
    BY <2>1 DEF Recording
  <2>3. podSeen \in [Pods -> PodPhases] /\ sandboxSeen \in [Sandboxes -> SandboxRecs]
    BY DEF TypeOK
  <2> QED BY <2>1, <2>2, <2>3, ScheduleConsistent DEF Consistent, Covered, Aged
<1>2. CASE Retry
  <2>1. /\ pc = "retry" /\ ~poolBehind /\ Schedule(view.pods, view.sandboxes)
        /\ UNCHANGED <<api, cache, unseenPatch>>
    BY <1>2 DEF Retry, PoolReadable, Orderly
  <2>2. Recording = pool.alloc
    BY <2>1 DEF Recording
  <2>3. view.pods \in [Pods -> PodPhases] /\ view.sandboxes \in [Sandboxes -> SandboxRecs]
    BY DEF TypeOK
  <2> QED BY <2>1, <2>2, <2>3, ScheduleConsistent DEF Consistent, Covered, Aged
<1>3. CASE ReconcilePanics
  BY <1>3, UntouchedConsistent DEF ReconcilePanics, StartReconcile
<1>4. ASSUME NEW s \in Sandboxes, SyncSandbox(s) \/ SyncSandboxFails(s)
      PROVE  Consistent'
  BY <1>4, SyncConsistent, SyncFailsConsistent
<1>5. CASE Persist \/ SkipPersist
  BY <1>5, PersistConsistent
<1>6. CASE PersistFails \/ PersistUnanswered
  BY <1>6 DEF PersistFails, PersistUnanswered, Orderly, Consistent, Planned
<1>7. CASE RetryPanics \/ ScaleNotReady
  <2>1. /\ pc # "sync" /\ Finish(TRUE)
        /\ UNCHANGED <<sandbox, pool, sandboxSeen, poolSeen, poolBehind, unseenPatch>>
    BY <1>7 DEF RetryPanics, ScaleNotReady
  <2> QED BY <2>1, FinishConsistent
<1>8. CASE ScaleOut \/ ScaleIn
  <2>1. pc = "scale" /\ UNCHANGED <<sandbox, pool, cache, unseenPatch>>
    BY <1>8 DEF ScaleOut, ScaleIn
  <2>2. \E ok \in BOOLEAN : AfterScale(ok)
    BY <1>8 DEF ScaleOut, ScaleIn
  <2>3. \/ pc' = "status" /\ UNCHANGED <<view, plan>>
        \/ Finish(TRUE)
    BY <2>2 DEF AfterScale
  <2>4. CASE Finish(TRUE)
    BY <2>1, <2>4, FinishConsistent
  <2> QED BY <2>1, <2>3, <2>4, UntouchedConsistent
<1>9. CASE UpdateStatus \/ StatusFails
  <2>1. /\ pc = "status" /\ (poolBehind => poolBehind')
        /\ Finish(plan.again) \/ Finish(TRUE)
        /\ UNCHANGED <<sandbox, pool, sandboxSeen, poolSeen, unseenPatch>>
    BY <1>9 DEF UpdateStatus, StatusFails
  <2> QED BY <2>1, FinishConsistent
<1>10. CASE StatusConflict
  <2>1. pc = "status" /\ UNCHANGED <<sandbox, pool, cache, unseenPatch>>
    BY <1>10 DEF StatusConflict
  <2>2. \/ pc' = "retry" /\ UNCHANGED view
        \/ Finish(TRUE)
    BY <1>10 DEF StatusConflict
  <2>3. CASE Finish(TRUE)
    BY <2>1, <2>3, FinishConsistent
  <2> QED BY <2>1, <2>2, <2>3, UntouchedConsistent
<1>11. ASSUME NEW p \in Pods, ObservePod(p) \/ PodRuns(p) \/ PodEnds(p) \/ PodLost(p)
       PROVE  Consistent'
  <2>1. UNCHANGED <<sandbox, pool, sandboxSeen, poolSeen, poolBehind, unseenPatch, local>>
    BY <1>11 DEF ObservePod, PodRuns, PodEnds, PodLost, PodStep
  <2> QED BY <2>1 DEF Consistent, Covered, Aged, Planned, Recording
<1>12. ASSUME NEW s \in Sandboxes, ObserveSandbox(s) PROVE Consistent'
  <2>1. /\ sandboxSeen' = [sandboxSeen EXCEPT ![s] = sandbox[s]]
        /\ UNCHANGED <<sandbox, pool, poolSeen, poolBehind, unseenPatch, local>>
    BY <1>12 DEF ObserveSandbox
  <2>2. Recording' = Recording
    BY <2>1 DEF Recording
  <2>3. Covered'
    BY <2>1, <2>2 DEF Consistent, Covered, Covers, TypeOK
  <2>4. Aged'
    BY <2>1, <2>2 DEF Consistent, Aged, TypeOK
  <2>5. Planned'
    BY <2>1 DEF Consistent, Planned
  <2> QED BY <2>3, <2>4, <2>5 DEF Consistent
<1>13. CASE ObservePool
  <2>1. /\ poolSeen' = pool /\ ~poolBehind' /\ ~unseenPatch'
        /\ UNCHANGED <<sandbox, pool, sandboxSeen, local>>
    BY <1>13 DEF ObservePool
  <2> QED BY <2>1 DEF Consistent, Covered, Aged, Planned, Recording
<1>14. ASSUME NEW s \in Sandboxes, CreateSandbox(s) \/ ResizeSandbox(s) \/ DeleteSandbox(s)
       PROVE  Consistent'
  <2>1. UNCHANGED <<pool, cache, unseenPatch, local>>
    BY <1>14 DEF CreateSandbox, ResizeSandbox, DeleteSandbox
  <2>2. Recording' = Recording
    BY <2>1 DEF Recording
  <2>3. PICK rec \in SandboxRecs :
          /\ sandbox' = [sandbox EXCEPT ![s] = rec]
          /\ rec.alloc = {} \/ rec.alloc = sandbox[s].alloc
          /\ rec.released = {} \/ rec.released = sandbox[s].released
          /\ rec.phase \in {"none", "gone"} => rec.alloc = {}
          /\ rec.phase # "none"
          /\ sandbox[s].phase = "gone" => rec.phase = "gone"
    <3>1. CASE CreateSandbox(s)
      <4>1. PICK n \in 0..MaxReplicas :
              sandbox' = [sandbox EXCEPT ![s] = [Blank("live") EXCEPT !.replicas = n]]
        BY <3>1 DEF CreateSandbox
      <4>2. [Blank("live") EXCEPT !.replicas = n] \in SandboxRecs
        BY BlankType, FieldType DEF SandboxPhases
      <4>3. sandbox[s].phase = "none"
        BY <3>1 DEF CreateSandbox
      <4> QED BY <4>1, <4>2, <4>3 DEF Blank
    <3>2. CASE ResizeSandbox(s)
      <4>1. PICK n \in 0..MaxReplicas :
              sandbox' = [sandbox EXCEPT ![s] = [sandbox[s] EXCEPT !.replicas = n]]
        BY <3>2 DEF ResizeSandbox
      <4>2. [sandbox[s] EXCEPT !.replicas = n] \in SandboxRecs
        BY FieldType DEF TypeOK
      <4>3. sandbox[s].phase = "live"
        BY <3>2 DEF ResizeSandbox
      <4> QED BY <4>1, <4>2, <4>3 DEF TypeOK, SandboxRecs
    <3>3. CASE DeleteSandbox(s)
      <4>1. [sandbox[s] EXCEPT !.phase = "deleting"] \in SandboxRecs
        BY FieldType DEF TypeOK, SandboxPhases
      <4>2. Blank("gone") \in SandboxRecs
        BY BlankType DEF SandboxPhases
      <4>3. CASE /\ sandbox[s].phase = "live"
                 /\ sandbox' = [sandbox EXCEPT ![s] = [sandbox[s] EXCEPT !.phase = "deleting"]]
        BY <4>1, <4>3 DEF TypeOK, SandboxRecs
      <4>4. CASE sandbox' = [sandbox EXCEPT ![s] = Blank("gone")]
        BY <4>2, <4>4 DEF Blank
      <4> QED BY <3>3, <4>3, <4>4 DEF DeleteSandbox
    <3> QED BY <1>14, <3>1, <3>2, <3>3
  <2>4. Covered'
    BY <2>1, <2>2, <2>3 DEF Consistent, Covered, Covers, TypeOK
  <2>5. Aged'
    BY <2>1, <2>2, <2>3 DEF Consistent, Aged, TypeOK
  <2>6. Planned'
    BY <2>1 DEF Consistent, Planned
  <2> QED BY <2>4, <2>5, <2>6 DEF Consistent
<1>15. ASSUME NEW s \in Sandboxes, NEW p \in Pods, ReleasePod(s, p)
       PROVE  Consistent'
  BY <1>15 DEF ReleasePod, MayRelease, Orderly
<1>16. CASE EditTemplate
  <2>1. /\ pool'.alloc = pool.alloc /\ poolBehind'
        /\ UNCHANGED <<sandbox, sandboxSeen, poolSeen, unseenPatch, pc, view>>
    BY <1>16 DEF EditTemplate, TypeOK, Pools
  <2>2. /\ plan'.alloc = plan.alloc /\ plan'.ready = plan.ready /\ plan'.dirty = plan.dirty
        /\ plan'.writes = plan.writes /\ plan'.poolDirty = plan.poolDirty
    BY <1>16 DEF EditTemplate, TypeOK, Plans
  <2> QED BY <2>1, <2>2 DEF Consistent, Covered, Aged, Planned, Recording
<1>17. CASE Restart
  BY <1>17 DEF Restart, Orderly
<1>18. CASE UNCHANGED vars
  BY <1>18 DEF vars, Consistent, Covered, Aged, Planned, Recording
<1> QED
  BY <1>1, <1>2, <1>3, <1>4, <1>5, <1>6, <1>7, <1>8, <1>9, <1>10, <1>11, <1>12,
     <1>13, <1>14, <1>15, <1>16, <1>17, <1>18
  DEF Next, ReconcileStep, InformerStep, EnvironmentStep

\* What consistency means for the pods in use.
LEMMA UsingRecorded ==
  ASSUME Consistent, NEW s \in Sandboxes
  PROVE  Using(s) \subseteq Owned(Recording, s)
BY DEF Consistent, Covered, Covers, Using

LEMMA ConsistentExclusive == Consistent => Exclusive
BY UsingRecorded DEF Exclusive, Owned

LEMMA ConsistentRecorded == Consistent => Recorded
BY UsingRecorded DEF Recorded, Recording

\* Orderly pools: always consistent.
LEMMA AlwaysConsistent ==
  ASSUME Orderly
  PROVE  Spec => []Consistent
<1>1. TypeOK /\ Consistent /\ [Next]_vars => Consistent'
  BY ConsistentStep
<1> QED BY <1>1, ConsistentInit, TypeCorrect, PTL DEF Spec

\* In an orderly pool no pod serves two sandboxes.
THEOREM ExclusiveUse ==
  ASSUME Orderly
  PROVE  Spec => []Exclusive
BY AlwaysConsistent, ConsistentExclusive, PTL

\* In an orderly pool the record names the holder of every pod in use.
THEOREM UseRecorded ==
  ASSUME Orderly
  PROVE  Spec => []Recorded
BY AlwaysConsistent, ConsistentRecorded, PTL

-----------------------------------------------------------------------------
(* An orderly pool whose pods are lost to nobody else implements the       *)
(* ledger; in particular no pod in use is retired.  A patch of a sandbox   *)
(* lends, the end of a sandbox returns, a scale-in retires.                *)

Undisturbed == Orderly /\ "podLoss" \notin Faults

\* The annotations of sandboxes sbx, as Using and Borrower read them.
UsingIn(sbx, s) ==
  IF sbx[s].phase \in {"live", "deleting"} THEN sbx[s].alloc \ sbx[s].released ELSE {}
BorrowerIn(sbx, p) ==
  IF \E s \in Sandboxes : p \in UsingIn(sbx, s)
  THEN CHOOSE s \in Sandboxes : p \in UsingIn(sbx, s) ELSE Unassigned

LEMMA UsingOf == /\ \A s \in Sandboxes : Using(s) = UsingIn(sandbox, s)
                 /\ \A p \in Pods : Borrower(p) = BorrowerIn(sandbox, p)
<1>1. \A s : Using(s) = UsingIn(sandbox, s)
  BY DEF Using, UsingIn, Exists
<1> QED BY <1>1 DEF Borrower, BorrowerIn

LEMMA UsingOfNext == /\ \A s \in Sandboxes : Using(s)' = UsingIn(sandbox', s)
                     /\ \A p \in Pods : Borrower(p)' = BorrowerIn(sandbox', p)
<1>1. \A s : Using(s)' = UsingIn(sandbox', s)
  BY DEF Using, UsingIn, Exists
<1> QED BY <1>1 DEF Borrower, BorrowerIn

\* A pod is lent to the one sandbox that uses it.
LEMMA BorrowerUnique ==
  ASSUME NEW sbx, NEW p \in Pods,
         \A s, t \in Sandboxes : s # t => UsingIn(sbx, s) \cap UsingIn(sbx, t) = {}
  PROVE  /\ \A s \in Sandboxes : BorrowerIn(sbx, p) = s <=> p \in UsingIn(sbx, s)
         /\ BorrowerIn(sbx, p) = Unassigned <=> \A s \in Sandboxes : p \notin UsingIn(sbx, s)
<1>1. CASE \E s \in Sandboxes : p \in UsingIn(sbx, s)
  <2>1. BorrowerIn(sbx, p) \in Sandboxes /\ p \in UsingIn(sbx, BorrowerIn(sbx, p))
    BY <1>1 DEF BorrowerIn
  <2> QED BY <2>1, UnassignedAssumption
<1>2. CASE ~\E s \in Sandboxes : p \in UsingIn(sbx, s)
  BY <1>2, UnassignedAssumption DEF BorrowerIn
<1> QED BY <1>1, <1>2

\* Only a scale-in takes pods out of service, and only unrecorded ones.
LEMMA ScaleInUnused ==
  ASSUME TypeOK, Consistent, NEW picked \in SUBSET LatestIdle,
         NEW p \in Victims(picked), pc = "scale", NEW s \in Sandboxes
  PROVE  p \in Pods /\ p \notin Using(s)
<1>1. p \in IdlePods
  BY DEF Victims, LatestIdle, OldIdle
<1>2. p \in Pods /\ plan.alloc[p] = Unassigned
  BY <1>1 DEF IdlePods, Idle, UpIn
<1>3. Recording = plan.alloc
  BY DEF Recording, Consistent, Planned
<1> QED BY <1>2, <1>3, UsingRecorded, UnassignedAssumption DEF Owned

Retired(phases) == {p \in Pods : phases[p] \in {"terminating", "gone"}}

\* What a step does to the pods: a scale-in retires pods no sandbox uses, every
\* other step keeps the pods that are up and retires none.
LEMMA PodsKept ==
  ASSUME Undisturbed, TypeOK, Consistent, [Next]_vars
  PROVE  \/ UpIn(pod) \subseteq UpIn(pod') /\ Retired(pod') = Retired(pod)
         \/ /\ UNCHANGED sandbox
            /\ \E deleted \in SUBSET Pods :
                 /\ \A s \in Sandboxes : deleted \cap Using(s) = {}
                 /\ Retired(pod') = Retired(pod) \cup deleted
                 /\ UpIn(pod) \ deleted \subseteq UpIn(pod')
<1> USE DEF api, cache, TypeOK
<1>1. CASE ScaleIn
  <2>1. PICK picked \in SUBSET LatestIdle : \E deleted \in SUBSET Victims(picked) :
          pod' = [p \in Pods |-> IF p \in deleted THEN "terminating" ELSE pod[p]]
    BY <1>1 DEF ScaleIn
  <2>2. PICK deleted \in SUBSET Victims(picked) :
          pod' = [p \in Pods |-> IF p \in deleted THEN "terminating" ELSE pod[p]]
    BY <2>1
  <2>3. UNCHANGED sandbox /\ pc = "scale"
    BY <1>1 DEF ScaleIn
  <2>4. \A p \in deleted : p \in Pods
    BY DEF Victims, OldIdle, LatestIdle, IdlePods, Idle, UpIn
  <2>5. \A s \in Sandboxes : deleted \cap Using(s) = {}
    BY <2>3, ScaleInUnused
  <2>6. Retired(pod') = Retired(pod) \cup deleted /\ UpIn(pod) \ deleted \subseteq UpIn(pod')
    BY <2>2, <2>4 DEF Retired, UpIn
  <2> QED BY <2>3, <2>4, <2>5, <2>6
<1>2. CASE ScaleOut
  <2>1. PICK new \in SUBSET UnusedNames :
          pod' = [p \in Pods |-> IF p \in new THEN "pending" ELSE pod[p]]
    BY <1>2 DEF ScaleOut
  <2> QED BY <2>1 DEF UnusedNames, UpIn, Retired
<1>3. ASSUME NEW p \in Pods, PodRuns(p) \/ PodEnds(p) \/ PodLost(p)
      PROVE  UpIn(pod) \subseteq UpIn(pod') /\ Retired(pod') = Retired(pod)
  BY <1>3 DEF PodRuns, PodEnds, PodLost, PodStep, UpIn, Retired, Undisturbed
<1>4. CASE UNCHANGED pod
  BY <1>4
<1>5. ASSUME NEW s \in Sandboxes,
             \/ SyncSandbox(s) \/ SyncSandboxFails(s) \/ ObserveSandbox(s)
             \/ CreateSandbox(s) \/ ResizeSandbox(s) \/ DeleteSandbox(s)
             \/ \E p \in Pods : ObservePod(p) \/ ReleasePod(s, p)
      PROVE  UNCHANGED pod
  BY <1>5 DEF SyncSandbox, SyncSandboxFails, ObserveSandbox, CreateSandbox, ResizeSandbox,
              DeleteSandbox, ObservePod, ReleasePod
<1>6. ASSUME \/ Reconcile \/ ReconcilePanics \/ Retry \/ RetryPanics \/ Persist
             \/ PersistUnanswered \/ PersistFails \/ SkipPersist \/ ScaleNotReady
             \/ UpdateStatus \/ StatusConflict \/ StatusFails
             \/ ObservePool \/ EditTemplate \/ Restart \/ UNCHANGED vars
             \/ \E p \in Pods : ObservePod(p)
      PROVE  UNCHANGED pod
  BY <1>6 DEF Reconcile, ReconcilePanics, StartReconcile, Retry, RetryPanics, Persist,
     PersistUnanswered, PersistFails, SkipPersist, ScaleNotReady, UpdateStatus,
     StatusConflict, StatusFails, ObservePool, EditTemplate, Restart, ObservePod, vars
<1> QED
  BY <1>1, <1>2, <1>3, <1>4, <1>5, <1>6
  DEF Next, ReconcileStep, InformerStep, EnvironmentStep

\* Scaling and rolling an undisturbed pool takes no pod from its sandbox.
THEOREM UsedPodsKept ==
  ASSUME Undisturbed
  PROVE  Spec => UsedPodsStay
<1>1. TypeOK /\ Consistent /\ [Next]_vars
        => [\A s \in Sandboxes : \A p \in Using(s) \cap UpIn(pod) : p \in UpIn(pod')]_vars
  BY PodsKept
<1>2. Orderly
  BY DEF Undisturbed
<1> QED BY <1>1, <1>2, AlwaysConsistent, TypeCorrect, PTL DEF Spec, UsedPodsStay

\* A patch under way takes no pod out of an annotation.
Growing ==
  pc = "sync" => \A s \in plan.dirty : sandbox[s].alloc \subseteq plan.writes[s].alloc

LEMMA GrowingStep ==
  ASSUME Orderly, TypeOK, Consistent, Growing, [Next]_vars
  PROVE  Growing'
<1> USE DEF api, cache, local
<1>1. ASSUME NEW pods, NEW sbx, Schedule(pods, sbx), UNCHANGED sandbox,
             pc # "sync", ~poolBehind
      PROVE  Growing'
  <2>1. poolSeen.alloc = pool.alloc /\ Recording = pool.alloc
    BY <1>1 DEF Consistent, Planned, Recording
  <2>2. PICK taken : plan' = PlanFor(pods, sbx, taken)
    BY <1>1 DEF Schedule
  <2>3. /\ plan'.writes = [s \in Sandboxes |-> NewEntry(pool.alloc, sbx, taken, s)]
        /\ plan'.dirty = Dirty(pool.alloc, sbx, taken)
    BY <2>1, <2>2 DEF PlanFor
  <2>4. \A s \in plan'.dirty : s \in Sandboxes
    BY <2>3 DEF Dirty, Live
  <2>5. \A s \in Sandboxes : sandbox[s].alloc \subseteq Owned(pool.alloc, s)
    BY <2>1 DEF Consistent, Covered, Covers
  <2>6. \A s \in Sandboxes : Owned(pool.alloc, s) \subseteq plan'.writes[s].alloc
    BY <2>3 DEF NewEntry
  <2> QED BY <1>1, <2>4, <2>5, <2>6 DEF Growing
<1>2. CASE Reconcile \/ Retry
  <2>1. /\ UNCHANGED sandbox /\ pc # "sync" /\ ~poolBehind
        /\ \/ Schedule(podSeen, sandboxSeen)
           \/ Schedule(view.pods, view.sandboxes)
    BY <1>2 DEF Reconcile, StartReconcile, Retry, PoolReadable, Orderly
  <2> QED BY <1>1, <2>1
<1>3. ASSUME NEW s \in Sandboxes, SyncSandbox(s) \/ SyncSandboxFails(s)
      PROVE  Growing'
  <2>1. /\ \/ UNCHANGED sandbox
           \/ \E rec : sandbox' = [sandbox EXCEPT ![s] = rec]
        /\ plan' = [plan EXCEPT !.dirty = @ \ {s}] /\ pc = "sync"
    BY <1>3 DEF SyncSandbox, SyncSandboxFails
  <2>2. plan'.dirty = plan.dirty \ {s} /\ plan'.writes = plan.writes
    BY <2>1 DEF TypeOK, Plans
  <2> QED BY <2>1, <2>2 DEF Growing, TypeOK, Plans
<1>4. ASSUME NEW s \in Sandboxes,
             \/ CreateSandbox(s) \/ ResizeSandbox(s) \/ DeleteSandbox(s)
             \/ \E p \in Pods : ReleasePod(s, p)
      PROVE  Growing'
  <2>1. UNCHANGED local
    BY <1>4 DEF CreateSandbox, ResizeSandbox, DeleteSandbox, ReleasePod
  <2>2. \A u \in Sandboxes : sandbox'[u].alloc \subseteq sandbox[u].alloc
    <3>1. PICK rec : /\ sandbox' = [sandbox EXCEPT ![s] = rec]
                     /\ rec.alloc = {} \/ rec.alloc = sandbox[s].alloc
      <4>1. CASE CreateSandbox(s)
        BY <4>1, Zenon DEF CreateSandbox, Blank
      <4>2. CASE ResizeSandbox(s) \/ \E p \in Pods : ReleasePod(s, p)
        BY <4>2 DEF ResizeSandbox, ReleasePod, TypeOK, SandboxRecs
      <4>3. CASE DeleteSandbox(s)
        BY <4>3 DEF DeleteSandbox, Blank, TypeOK, SandboxRecs
      <4> QED BY <1>4, <4>1, <4>2, <4>3
    <3> QED BY <3>1 DEF TypeOK
  <2> QED BY <2>1, <2>2 DEF Growing, TypeOK, Plans
<1>5. CASE \/ ReconcilePanics \/ RetryPanics \/ Persist \/ PersistUnanswered
           \/ PersistFails \/ SkipPersist
           \/ ScaleNotReady \/ ScaleOut \/ ScaleIn \/ UpdateStatus \/ StatusConflict
           \/ StatusFails \/ Restart
  <2>1. pc' # "sync"
    BY <1>5 DEF ReconcilePanics, RetryPanics, Persist, PersistUnanswered, PersistFails,
       SkipPersist, Finish,
       ScaleNotReady, ScaleOut, ScaleIn, UpdateStatus, StatusConflict, StatusFails, Restart,
       StartReconcile, AfterScale
  <2> QED BY <2>1 DEF Growing
<1>6. CASE EditTemplate
  <2>1. UNCHANGED <<sandbox, pc>> /\ plan' = [plan EXCEPT !.current = FALSE]
    BY <1>6 DEF EditTemplate
  <2> QED BY <2>1 DEF Growing, TypeOK, Plans
<1>7. CASE UNCHANGED <<sandbox, local>>
  BY <1>7 DEF Growing
<1>8. ASSUME \/ \E p \in Pods : ObservePod(p) \/ PodRuns(p) \/ PodEnds(p) \/ PodLost(p)
             \/ \E s \in Sandboxes : ObserveSandbox(s)
             \/ ObservePool \/ UNCHANGED vars
      PROVE  UNCHANGED <<sandbox, local>>
  BY <1>8 DEF ObservePod, PodRuns, PodEnds, PodLost, PodStep, ObserveSandbox, ObservePool, vars
<1> QED
  BY <1>2, <1>3, <1>4, <1>5, <1>6, <1>7, <1>8
  DEF Next, ReconcileStep, InformerStep, EnvironmentStep

LEMMA AlwaysGrowing ==
  ASSUME Orderly
  PROVE  Spec => []Growing
<1>1. Init => Growing
  BY DEF Init, Growing
<1>2. TypeOK /\ Consistent /\ Growing /\ [Next]_vars => Growing'
  BY GrowingStep
<1> QED BY <1>1, <1>2, AlwaysConsistent, TypeCorrect, PTL DEF Spec

\* What a step does to the pods the sandboxes use: a patch adds to them, the end
\* of a sandbox gives them back, nothing else changes them.
LEMMA UseChanges ==
  ASSUME Orderly, TypeOK, Consistent, Consistent', Growing, [Next]_vars
  PROVE  \/ \A s \in Sandboxes : UsingIn(sandbox', s) = UsingIn(sandbox, s)
         \/ /\ UNCHANGED pod
            /\ \E s \in Sandboxes :
                 /\ \/ UsingIn(sandbox, s) \subseteq UsingIn(sandbox', s)
                    \/ UsingIn(sandbox', s) = {}
                 /\ \A u \in Sandboxes \ {s} : UsingIn(sandbox', u) = UsingIn(sandbox, u)
<1> USE DEF api, cache
<1>1. ASSUME NEW s \in Sandboxes, SyncSandbox(s) \/ SyncSandboxFails(s), sandbox' # sandbox
      PROVE  /\ UNCHANGED pod
             /\ UsingIn(sandbox, s) \subseteq UsingIn(sandbox', s)
             /\ \A u \in Sandboxes \ {s} : UsingIn(sandbox', u) = UsingIn(sandbox, u)
  <2>1. /\ pc = "sync" /\ s \in plan.dirty /\ UNCHANGED pod
        /\ sandbox' = [sandbox EXCEPT ![s] = WithEntry(sandbox[s], plan.writes[s])]
    BY <1>1 DEF SyncSandbox, SyncSandboxFails
  <2>2. /\ sandbox'[s].alloc = plan.writes[s].alloc
        /\ sandbox'[s].phase = sandbox[s].phase
        /\ sandbox'[s].released = sandbox[s].released
        /\ \A u \in Sandboxes \ {s} : sandbox'[u] = sandbox[u]
    BY <2>1 DEF TypeOK, WithEntry, SandboxRecs
  <2> QED BY <2>1, <2>2 DEF Growing, UsingIn
<1>2. ASSUME NEW s \in Sandboxes, DeleteSandbox(s)
      PROVE  /\ UNCHANGED pod
             /\ \/ UsingIn(sandbox, s) \subseteq UsingIn(sandbox', s)
                \/ UsingIn(sandbox', s) = {}
             /\ \A u \in Sandboxes \ {s} : UsingIn(sandbox', u) = UsingIn(sandbox, u)
  <2>1. CASE /\ sandbox[s].phase = "live"
             /\ sandbox' = [sandbox EXCEPT ![s] = [sandbox[s] EXCEPT !.phase = "deleting"]]
    <3>1. /\ sandbox'[s].alloc = sandbox[s].alloc
          /\ sandbox'[s].phase = "deleting"
          /\ sandbox'[s].released = sandbox[s].released
          /\ \A u \in Sandboxes \ {s} : sandbox'[u] = sandbox[u]
      BY <2>1 DEF TypeOK, SandboxRecs
    <3> QED BY <1>2, <2>1, <3>1 DEF UsingIn, DeleteSandbox
  <2>2. CASE sandbox' = [sandbox EXCEPT ![s] = Blank("gone")]
    BY <1>2, <2>2 DEF UsingIn, Blank, DeleteSandbox, TypeOK
  <2> QED BY <1>2, <2>1, <2>2 DEF DeleteSandbox
<1>3. ASSUME NEW s \in Sandboxes, CreateSandbox(s)
      PROVE  \A u \in Sandboxes : UsingIn(sandbox', u) = UsingIn(sandbox, u)
  <2>1. PICK n : sandbox' = [sandbox EXCEPT ![s] = [Blank("live") EXCEPT !.replicas = n]]
    BY <1>3 DEF CreateSandbox
  <2>2. [Blank("live") EXCEPT !.replicas = n].alloc = {}
    BY DEF Blank
  <2>3. sandbox[s].phase = "none"
    BY <1>3 DEF CreateSandbox
  <2> QED BY <2>1, <2>2, <2>3 DEF UsingIn, TypeOK
<1>4. ASSUME NEW s \in Sandboxes, ResizeSandbox(s)
      PROVE  \A u \in Sandboxes : UsingIn(sandbox', u) = UsingIn(sandbox, u)
  <2>1. PICK n : sandbox' = [sandbox EXCEPT ![s] = [sandbox[s] EXCEPT !.replicas = n]]
    BY <1>4 DEF ResizeSandbox
  <2> QED BY <2>1 DEF UsingIn, TypeOK, SandboxRecs
<1>5. ~\E s \in Sandboxes, p \in Pods : ReleasePod(s, p)
  BY DEF ReleasePod, MayRelease, Orderly
<1>6. CASE UNCHANGED sandbox
  BY <1>6
<1>7. ASSUME \/ Reconcile \/ ReconcilePanics \/ Retry \/ RetryPanics \/ Persist
             \/ PersistUnanswered \/ PersistFails \/ SkipPersist \/ ScaleNotReady \/ ScaleOut \/ ScaleIn
             \/ UpdateStatus \/ StatusConflict \/ StatusFails
             \/ ObservePool \/ EditTemplate \/ Restart \/ UNCHANGED vars
             \/ \E s \in Sandboxes : ObserveSandbox(s)
             \/ \E p \in Pods : ObservePod(p) \/ PodRuns(p) \/ PodEnds(p) \/ PodLost(p)
      PROVE  UNCHANGED sandbox
  BY <1>7 DEF Reconcile, ReconcilePanics, StartReconcile, Retry, RetryPanics, Persist,
     PersistUnanswered, PersistFails, SkipPersist, ScaleNotReady, ScaleOut, ScaleIn,
     UpdateStatus, StatusConflict, StatusFails, ObservePool, EditTemplate, Restart,
     ObserveSandbox, ObservePod, PodRuns, PodEnds, PodLost, PodStep, vars
<1> QED
  BY <1>1, <1>2, <1>3, <1>4, <1>5, <1>6, <1>7
  DEF Next, ReconcileStep, InformerStep, EnvironmentStep

LEMMA LedgerStep ==
  ASSUME Undisturbed, TypeOK, Consistent, Consistent', Growing, [Next]_vars
  PROVE  [Ledger!LedgerNext]_(Ledger!ledger)
<1>1. /\ \A p \in Pods : Borrower(p) = BorrowerIn(sandbox, p)
      /\ \A p \in Pods : Borrower(p)' = BorrowerIn(sandbox', p)
  BY UsingOf, UsingOfNext
<1>2. \A s, t \in Sandboxes : s # t => UsingIn(sandbox, s) \cap UsingIn(sandbox, t) = {}
  BY ConsistentExclusive, UsingOf DEF Exclusive
<1>3. \A s, t \in Sandboxes : s # t => UsingIn(sandbox', s) \cap UsingIn(sandbox', t) = {}
  <2>1. \A s \in Sandboxes : UsingIn(sandbox', s) \subseteq Owned(Recording', s)
    BY DEF Consistent, Covered, Covers, UsingIn
  <2> QED BY <2>1 DEF Owned
<1>4. ASSUME NEW p \in Pods
      PROVE  /\ \A s \in Sandboxes : Borrower(p) = s <=> p \in UsingIn(sandbox, s)
             /\ Borrower(p) = Unassigned <=> \A s \in Sandboxes : p \notin UsingIn(sandbox, s)
             /\ Borrower(p) \in Sandboxes \cup {Unassigned}
  BY <1>1, <1>2, BorrowerUnique
<1>5. ASSUME NEW p \in Pods
      PROVE  /\ \A s \in Sandboxes : Borrower(p)' = s <=> p \in UsingIn(sandbox', s)
             /\ Borrower(p)' = Unassigned <=> \A s \in Sandboxes : p \notin UsingIn(sandbox', s)
             /\ Borrower(p)' \in Sandboxes \cup {Unassigned}
  BY <1>1, <1>3, BorrowerUnique
<1>6. Orderly
  BY DEF Undisturbed
<1>7. CASE \A s \in Sandboxes : UsingIn(sandbox', s) = UsingIn(sandbox, s)
  <2>1. \A p \in Pods : Borrower(p)' = Borrower(p)
    BY <1>4, <1>5, <1>7
  <2>2. [p \in Pods |-> Borrower(p)]' = [p \in Pods |-> Borrower(p)]
    BY <2>1
  <2>3. PICK deleted \in SUBSET Pods :
          /\ \A s \in Sandboxes : deleted \cap Using(s) = {}
          /\ Retired(pod') = Retired(pod) \cup deleted
    <3>1. CASE Retired(pod') = Retired(pod)
      <4>1. /\ {} \in SUBSET Pods /\ \A s \in Sandboxes : {} \cap Using(s) = {}
            /\ Retired(pod') = Retired(pod) \cup {}
        BY <3>1
      <4> QED BY <4>1
    <3>2. CASE \E deleted \in SUBSET Pods :
                 /\ \A s \in Sandboxes : deleted \cap Using(s) = {}
                 /\ Retired(pod') = Retired(pod) \cup deleted
      BY <3>2
    <3> QED BY <3>1, <3>2, PodsKept
  <2>4. \A p \in deleted : Borrower(p) = Unassigned
    BY <2>3, <1>4, UsingOf
  <2>5. Ledger!Retire(deleted)
    BY <2>2, <2>3, <2>4 DEF Ledger!Retire, Retired
  <2> QED BY <2>5 DEF Ledger!LedgerNext
<1>8. CASE /\ UNCHANGED pod
           /\ \E s \in Sandboxes :
                /\ \/ UsingIn(sandbox, s) \subseteq UsingIn(sandbox', s)
                   \/ UsingIn(sandbox', s) = {}
                /\ \A u \in Sandboxes \ {s} : UsingIn(sandbox', u) = UsingIn(sandbox, u)
  <2>1. PICK s \in Sandboxes :
          /\ \/ UsingIn(sandbox, s) \subseteq UsingIn(sandbox', s)
             \/ UsingIn(sandbox', s) = {}
          /\ \A u \in Sandboxes \ {s} : UsingIn(sandbox', u) = UsingIn(sandbox, u)
    BY <1>8
  <2>2. CASE UsingIn(sandbox, s) \subseteq UsingIn(sandbox', s)
    <3>1. PICK new \in SUBSET Pods :
            new = {p \in Pods : p \in UsingIn(sandbox', s) /\ p \notin UsingIn(sandbox, s)}
      OBVIOUS
    <3>2. \A p \in new : Borrower(p) = Unassigned
      BY <1>3, <1>4, <2>1, <3>1
    <3>3. \A p \in Pods : Borrower(p)' = IF p \in new THEN s ELSE Borrower(p)
      BY <1>4, <1>5, <2>1, <2>2, <3>1
    <3>4. Ledger!Lend(s, new)
      BY <1>8, <3>2, <3>3 DEF Ledger!Lend
    <3> QED BY <3>4 DEF Ledger!LedgerNext
  <2>3. CASE UsingIn(sandbox', s) = {}
    <3>1. PICK old \in SUBSET Pods : old = {p \in Pods : p \in UsingIn(sandbox, s)}
      OBVIOUS
    <3>2. \A p \in old : Borrower(p) = s
      BY <1>4, <3>1
    <3>3. \A p \in Pods : Borrower(p)' = IF p \in old THEN Unassigned ELSE Borrower(p)
      BY <1>2, <1>4, <1>5, <2>1, <2>3, <3>1
    <3>4. Ledger!Return(s, old)
      BY <1>8, <3>2, <3>3 DEF Ledger!Return
    <3> QED BY <3>4 DEF Ledger!LedgerNext
  <2> QED BY <2>1, <2>2, <2>3
<1> QED BY <1>6, <1>7, <1>8, UseChanges

LEMMA LedgerStart == Init => Ledger!LedgerInit
<1> SUFFICES ASSUME Init PROVE Ledger!LedgerInit
  OBVIOUS
<1>1. pod = [p \in Pods |-> "none"] /\ sandbox = [s \in Sandboxes |-> Blank("none")]
  BY DEF Init
<1>2. \A s \in Sandboxes : Using(s) = {}
  BY <1>1 DEF Using, Exists, Blank
<1>3. \A p \in Pods : Borrower(p) = Unassigned
  BY <1>2 DEF Borrower
<1> QED BY <1>1, <1>3 DEF Ledger!LedgerInit

\* An undisturbed controller implements the ledger: what it lends it records,
\* what it retires nobody uses.
THEOREM LedgerImplemented ==
  ASSUME Undisturbed
  PROVE  Spec => ImplementsLedger
<1>1. TypeOK /\ Consistent /\ Consistent' /\ Growing /\ [Next]_vars
        => [Ledger!LedgerNext]_(Ledger!ledger)
  BY LedgerStep
<1>2. Orderly
  BY DEF Undisturbed
<1> QED
  BY <1>1, <1>2, AlwaysConsistent, AlwaysGrowing, TypeCorrect, LedgerStart, PTL
  DEF Spec, ImplementsLedger, Ledger!LedgerSpec
=============================================================================
