---------------------------- MODULE PoolController ----------------------------
(***************************************************************************)
(* The reconciler of one Pool (internal/controller/pool_controller.go,     *)
(* allocator.go, internal/utils/expectations): it keeps a buffer of warm   *)
(* pods, gives pods to BatchSandboxes through an annotation on each side,  *)
(* and grows, shrinks and rolls the pool.                                  *)
(*                                                                         *)
(* The API server holds the truth; the controller reads informer caches    *)
(* that lag it, and keeps two in-memory expectations about what the caches *)
(* do not show yet.  One reconcile is several API calls: the modules'      *)
(* actions are those calls, so users, the kubelet, the BatchSandbox        *)
(* controller, the informers and a restart act between any two of them.    *)
(***************************************************************************)
EXTENDS PoolAllocator

CONSTANTS
  BufferMin, BufferMax, PoolMin, PoolMax,  \* spec.capacitySpec
  MaxRevision,                             \* bound on edits of the pod template
  Faults   \* what may go wrong in a run, a subset of AllFaults

AllFaults ==
  {"poolLag",      \* reconcile may read a Pool the informer has newer versions of
   "poolWrite",    \* a write of the Pool may fail, carried out or not
   "sandboxWrite", \* a write of a BatchSandbox may fail, carried out or not
   "podWrite",     \* creation or deletion of a pod may fail, carried out or not
   "podLoss",      \* pods may be evicted or deleted by others
   "restart",      \* the controller may crash
   "resize",       \* users may change spec.replicas
   "release",      \* a deleted sandbox may release pods before it is gone
   "earlyRelease"} \* a live one may too (task policy Release)

ASSUME CapacityAssumption ==
  /\ BufferMin \in Nat /\ BufferMax \in Nat /\ BufferMin <= BufferMax
  /\ PoolMin \in Nat /\ PoolMax \in Nat /\ PoolMin <= PoolMax
ASSUME MaxRevisionAssumption == MaxRevision \in Nat
ASSUME PodsAssumption == IsFiniteSet(Pods) /\ IsFiniteSet(Sandboxes)
ASSUME FaultsAssumption == Faults \subseteq AllFaults

VARIABLES
  pod,          \* the pods' phases in the API server
  podRevision,  \* their pool-revision label
  sandbox,      \* the BatchSandboxes in the API server
  pool,         \* the Pool in the API server: alloc, revision
  podSeen, sandboxSeen, poolSeen,  \* the informer caches
  poolBehind,   \* the API server has a newer resource version than poolSeen
  unseenPatch,  \* poolResExpectations: our last patch is not in poolSeen
  scaleExp,     \* PoolScaleExpectations: created pods not listed yet
  queued,       \* the pool is in the work queue
  pc,           \* where the reconcile is
  view,         \* the pods and sandboxes the reconcile has listed
  plan,         \* what it has scheduled
  strays,       \* history: of the pods that are up, those whose creation was
                \* answered with an error
  strayRecord   \* history: so was the patch that wrote pool.alloc, which no
                \* reconcile has read since

api   == <<pod, podRevision, sandbox, pool>>
cache == <<podSeen, sandboxSeen, poolSeen, poolBehind>>
local == <<pc, view, plan>>
history == <<strays, strayRecord>>
vars  == <<api, cache, unseenPatch, scaleExp, queued, local, history>>

-----------------------------------------------------------------------------
(* Values.                                                                 *)

PodPhases     == {"none", "pending", "running", "terminating", "gone"}
SandboxPhases == {"none", "live", "deleting", "gone"}
Allocations   == [Pods -> Sandboxes \cup {Unassigned}]
Entries       == [alloc : SUBSET Pods, entries : Nat]
SandboxRecs   == [phase : SandboxPhases, replicas : 0..MaxReplicas,
                  alloc : SUBSET Pods, entries : Nat, released : SUBSET Pods]
Pools         == [alloc : Allocations, revision : 0..MaxRevision]

Blank(phase) == [phase |-> phase, replicas |-> 0, alloc |-> {}, entries |-> 0,
                 released |-> {}]
Exists(s)    == sandbox[s].phase \in {"live", "deleting"}

UpIn(phases) == {p \in Pods : phases[p] \in {"pending", "running"}}

NoView == [pods |-> [p \in Pods |-> "none"],
           sandboxes |-> [s \in Sandboxes |-> Blank("none")]]
NoPlan == [alloc |-> [p \in Pods |-> Unassigned],
           base |-> [p \in Pods |-> Unassigned],
           writes |-> [s \in Sandboxes |-> [alloc |-> {}, entries |-> 0]],
           dirty |-> {}, poolDirty |-> FALSE, supply |-> 0, again |-> FALSE,
           ready |-> FALSE, current |-> FALSE, revision |-> 0]

Init ==
  /\ pod = [p \in Pods |-> "none"]
  /\ podRevision = [p \in Pods |-> 0]
  /\ sandbox = [s \in Sandboxes |-> Blank("none")]
  /\ pool = [alloc |-> [p \in Pods |-> Unassigned], revision |-> 0]
  /\ podSeen = pod
  /\ sandboxSeen = sandbox
  /\ poolSeen = pool
  /\ poolBehind = FALSE
  /\ unseenPatch = FALSE
  /\ scaleExp = {}
  /\ queued = TRUE
  /\ pc = "idle" /\ view = NoView /\ plan = NoPlan
  /\ strays = {} /\ strayRecord = FALSE

-----------------------------------------------------------------------------
(* A reconcile that ends: without error, or with one, which puts the pool  *)
(* back in the queue.                                                      *)

Finish(again) ==
  /\ pc' = "idle" /\ view' = NoView /\ plan' = NoPlan
  /\ queued' = (queued \/ again)

(***************************************************************************)
(* Reconcile and steps 1 and 2 of reconcilePool: list the pods (which      *)
(* meets their creation expectations) and the sandboxes, read the Pool,    *)
(* schedule.  A panic in Schedule ends the reconcile as an error.          *)
(***************************************************************************)
SupplyAfterIdleUnclamped(supplement, idle) == supplement - Cardinality(idle)
SupplyAfterIdle(supplement, idle) ==
  IF Cardinality(idle) >= supplement THEN 0 ELSE supplement - Cardinality(idle)

PlanFor(pods, sbx, taken) ==
  LET base  == poolSeen.alloc
      alloc == ScheduledAlloc(base, sbx, taken)
      idle  == Idle(alloc, UpIn(pods))
      supplement == Supplement(base, sbx, taken)
  IN [alloc     |-> alloc,
      base      |-> base,
      writes    |-> [s \in Sandboxes |-> NewEntry(base, sbx, taken, s)],
      dirty     |-> Dirty(base, sbx, taken),
      poolDirty |-> PoolDirty(base, sbx, taken),
      supply    |-> SupplyAfterIdle(supplement, idle),
      again     |-> supplement > 0 /\ idle # {},
      ready     |-> ~unseenPatch,
      current   |-> ~poolBehind,
      revision  |-> poolSeen.revision]

Schedule(pods, sbx) ==
  \E taken \in Grants(poolSeen.alloc, sbx, Available(poolSeen.alloc, pods)) :
    /\ pc' = "sync"
    /\ view' = [pods |-> pods, sandboxes |-> sbx]
    /\ plan' = PlanFor(pods, sbx, taken)
    /\ strayRecord' = (strayRecord /\ poolBehind)

\* The pods the list shows, those being deleted included.
ObservedPods == {p \in Pods : podSeen[p] \in {"pending", "running", "terminating"}}

\* The Pool is read from the informer's cache.
PoolReadable == poolBehind => "poolLag" \in Faults

StartReconcile ==
  /\ pc = "idle" /\ queued
  /\ PoolReadable
  /\ scaleExp' = scaleExp \ ObservedPods
  /\ UNCHANGED <<api, cache, unseenPatch, strays>>

Reconcile ==
  /\ StartReconcile
  /\ ~SlicePanics(poolSeen.alloc, sandboxSeen)
  /\ Schedule(podSeen, sandboxSeen)
  /\ queued' = FALSE

ReconcilePanics ==
  /\ StartReconcile
  /\ SlicePanics(poolSeen.alloc, sandboxSeen)
  /\ UNCHANGED <<queued, local, strayRecord>>

\* RetryOnConflict runs the closure again: the Pool is read anew, the pods and
\* sandboxes are those listed before.
Retry ==
  /\ pc = "retry" /\ PoolReadable
  /\ ~SlicePanics(poolSeen.alloc, view.sandboxes)
  /\ Schedule(view.pods, view.sandboxes)
  /\ UNCHANGED <<api, cache, unseenPatch, scaleExp, queued, strays>>

RetryPanics ==
  /\ pc = "retry" /\ PoolReadable
  /\ SlicePanics(poolSeen.alloc, view.sandboxes)
  /\ Finish(TRUE)
  /\ UNCHANGED <<api, cache, unseenPatch, scaleExp, history>>

(***************************************************************************)
(* syncAllocResult: patch the annotation of each dirty sandbox.  The patch *)
(* has no resource version, so it overwrites; its response refreshes the   *)
(* listed object.  An error (the sandbox is gone, the call fails, its      *)
(* answer is lost) is logged, and the listed object keeps the annotation   *)
(* as it should have been saved.                                           *)
(***************************************************************************)
WithEntry(rec, entry) ==
  [rec EXCEPT !.alloc = entry.alloc, !.entries = entry.entries]

SyncSandbox(s) ==
  /\ pc = "sync" /\ s \in plan.dirty
  /\ Exists(s)
  /\ sandbox' = [sandbox EXCEPT ![s] = WithEntry(@, plan.writes[s])]
  /\ view' = [view EXCEPT !.sandboxes[s] = sandbox'[s]]
  /\ plan' = [plan EXCEPT !.dirty = @ \ {s}]
  /\ UNCHANGED <<pod, podRevision, pool, cache, unseenPatch, scaleExp, queued, pc, history>>

SyncSandboxFails(s) ==
  /\ pc = "sync" /\ s \in plan.dirty
  /\ ~Exists(s) \/ "sandboxWrite" \in Faults
  /\ \/ UNCHANGED sandbox
     \/ Exists(s) /\ sandbox' = [sandbox EXCEPT ![s] = WithEntry(@, plan.writes[s])]
  /\ view' = [view EXCEPT !.sandboxes[s] = WithEntry(@, plan.writes[s])]
  /\ plan' = [plan EXCEPT !.dirty = @ \ {s}]
  /\ UNCHANGED <<pod, podRevision, pool, cache, unseenPatch, scaleExp, queued, pc, history>>

(***************************************************************************)
(* Step 3, PersistPoolAllocation: refused while our previous patch is not  *)
(* in the Pool this reconcile has read; otherwise the allocation replaces  *)
(* the recorded one.                                                       *)
(***************************************************************************)
MayPersistAnyway(p) == p.poolDirty
MayPersist(p) == p.poolDirty /\ p.ready

\* What the rest of the reconcile still uses of the plan.
Settled(current, revision) ==
  [NoPlan EXCEPT !.alloc = plan.alloc, !.supply = plan.supply, !.again = plan.again,
                 !.current = current, !.revision = revision]

Persist ==
  /\ pc = "sync" /\ plan.dirty = {}
  /\ MayPersist(plan)
  /\ pool' = [pool EXCEPT !.alloc = plan.alloc]
  /\ poolBehind' = TRUE
  /\ unseenPatch' = TRUE
  /\ plan' = Settled(TRUE, pool.revision)
  /\ pc' = "scale"
  /\ strayRecord' = FALSE
  /\ UNCHANGED <<pod, podRevision, sandbox, podSeen, sandboxSeen, poolSeen,
                 scaleExp, queued, view, strays>>

\* The patch is carried out but its answer is lost: SetAllocation returns
\* before it notes what it expects.
PersistUnanswered ==
  /\ pc = "sync" /\ plan.dirty = {}
  /\ MayPersist(plan)
  /\ "poolWrite" \in Faults
  /\ pool' = [pool EXCEPT !.alloc = plan.alloc]
  /\ poolBehind' = TRUE
  /\ strayRecord' = TRUE
  /\ Finish(TRUE)
  /\ UNCHANGED <<pod, podRevision, sandbox, podSeen, sandboxSeen, poolSeen,
                 unseenPatch, scaleExp, strays>>

PersistFails ==
  /\ pc = "sync" /\ plan.dirty = {}
  /\ plan.poolDirty
  /\ ~plan.ready \/ "poolWrite" \in Faults
  /\ Finish(TRUE)
  /\ UNCHANGED <<api, cache, unseenPatch, scaleExp, history>>

SkipPersist ==
  /\ pc = "sync" /\ plan.dirty = {}
  /\ ~plan.poolDirty
  /\ pc' = "scale"
  /\ plan' = Settled(plan.current, plan.revision)
  /\ UNCHANGED <<api, cache, unseenPatch, scaleExp, queued, view, history>>

(***************************************************************************)
(* Step 4, updatePool and scalePool: refused while a created pod has not   *)
(* been listed.  Otherwise the pool is sized from the listed pods and the  *)
(* scheduled allocation, and pods are created, or idle ones deleted: all   *)
(* those of an old revision, and as many of the others as are too many     *)
(* (the oldest, here any).                                                 *)
(***************************************************************************)
Total      == Cardinality(UpIn(view.pods))
Allocated  == Cardinality({p \in Pods : plan.alloc[p] # Unassigned})
IdlePods   == Idle(plan.alloc, UpIn(view.pods))
LatestIdle == {p \in IdlePods : podRevision[p] = plan.revision}
OldIdle    == IdlePods \ LatestIdle

DesiredBuffer(buffer) ==
  IF buffer < BufferMin \/ buffer > BufferMax
  THEN (BufferMin + BufferMax) \div 2 ELSE buffer

ClampToPool(total) ==
  IF total < PoolMin THEN PoolMin
  ELSE IF total > PoolMax THEN PoolMax ELSE total

DesiredTotalUnsupplied ==
  ClampToPool(Allocated + Cardinality(OldIdle) + DesiredBuffer(Total - Allocated))
DesiredTotal ==
  ClampToPool(Allocated + plan.supply + Cardinality(OldIdle)
                + DesiredBuffer(Total - Allocated))

ScaleReadyAlways == TRUE
ScaleReady == scaleExp = {}

\* What follows the scaling: the status update, or the error it ended with.
AfterScale(ok) ==
  IF ok THEN pc' = "status" /\ UNCHANGED <<view, plan, queued>> ELSE Finish(TRUE)

ScaleNotReady ==
  /\ pc = "scale" /\ ~ScaleReady
  /\ Finish(TRUE)
  /\ UNCHANGED <<api, cache, unseenPatch, scaleExp, history>>

\* createPoolPod, once per missing pod.  Only a pod whose creation is answered
\* is expected in the list.  Names that run out bound the model: creation then
\* fails, as it does at a quota.
UnusedNames == {p \in Pods : pod[p] = "none"}

ScaleOut ==
  /\ pc = "scale" /\ ScaleReady
  /\ DesiredTotal > Total
  /\ \E new \in SUBSET UnusedNames : \E unanswered \in SUBSET new :
       LET wanted == DesiredTotal - Total
           ok     == Cardinality(new) = wanted /\ unanswered = {}
       IN /\ Cardinality(new) <= wanted
          /\ ok \/ new = UnusedNames \/ "podWrite" \in Faults
          /\ unanswered = {} \/ "podWrite" \in Faults
          /\ pod' = [p \in Pods |-> IF p \in new THEN "pending" ELSE pod[p]]
          /\ podRevision' = [p \in Pods |-> IF p \in new THEN plan.revision
                                            ELSE podRevision[p]]
          /\ scaleExp' = scaleExp \cup (new \ unanswered)
          /\ strays' = strays \cup unanswered
          /\ AfterScale(ok)
  /\ UNCHANGED <<sandbox, pool, cache, unseenPatch, strayRecord>>

\* Deleting a pod starts its termination; one that is gone answers NotFound.
VictimsOfScaling(picked) == picked
Victims(picked) == OldIdle \cup picked

ScaleIn ==
  /\ pc = "scale" /\ ScaleReady
  /\ DesiredTotal <= Total
  /\ \E picked \in SUBSET LatestIdle :
       /\ \/ Cardinality(picked) = Total - DesiredTotal
          \/ Cardinality(picked) < Total - DesiredTotal /\ picked = LatestIdle
       /\ \E deleted \in SUBSET Victims(picked) :
            /\ \A p \in Victims(picked) \ deleted :
                 pod[p] = "gone" \/ "podWrite" \in Faults
            /\ \A p \in deleted : pod[p] # "gone"
            /\ pod' = [p \in Pods |-> IF p \in deleted THEN "terminating" ELSE pod[p]]
            /\ \/ AfterScale(deleted = Victims(picked))
               \/ "podWrite" \in Faults /\ deleted # {} /\ AfterScale(FALSE)
  /\ strays' = strays \cap UpIn(pod')
  /\ UNCHANGED <<podRevision, sandbox, pool, cache, unseenPatch, scaleExp, strayRecord>>

(***************************************************************************)
(* Step 5, updatePoolStatus: a full update with the resource version of    *)
(* the Pool that was read (or patched); a conflict repeats the closure     *)
(* until the backoff gives up.  Nothing reads the counters it writes, so   *)
(* what is left of them is whether they change, which makes a new version. *)
(***************************************************************************)
UpdateStatus ==
  /\ pc = "status"
  /\ plan.current
  /\ \E changed \in BOOLEAN : poolBehind' = (poolBehind \/ changed)
  /\ Finish(plan.again)
  /\ UNCHANGED <<api, podSeen, sandboxSeen, poolSeen, unseenPatch, scaleExp, history>>

StatusConflict ==
  /\ pc = "status"
  /\ ~plan.current
  /\ \/ pc' = "retry" /\ plan' = NoPlan /\ UNCHANGED <<view, queued>>
     \/ Finish(TRUE)
  /\ UNCHANGED <<api, cache, unseenPatch, scaleExp, history>>

StatusFails ==
  /\ pc = "status" /\ plan.current
  /\ "poolWrite" \in Faults
  /\ \E changed \in BOOLEAN : poolBehind' = (poolBehind \/ changed)
  /\ Finish(TRUE)
  /\ UNCHANGED <<api, podSeen, sandboxSeen, poolSeen, unseenPatch, scaleExp, history>>

-----------------------------------------------------------------------------
(* The informers: each delivers the present state of one object, runs the  *)
(* watch predicates of SetupWithManager and queues the pool.  Every pod    *)
(* event passes; so does every event of a BatchSandbox (the predicate      *)
(* compares the replicas pointers of two decoded objects, which always     *)
(* differ); of the Pool only a change of its spec does.                    *)

SandboxEventIgnored(old, new) == FALSE
SandboxEventQueues(old, new)  == old # new
PoolEventQueues(old, new)     == old.revision # new.revision

ObservePod(p) ==
  /\ podSeen[p] # pod[p]
  /\ podSeen' = [podSeen EXCEPT ![p] = pod[p]]
  /\ queued' = TRUE
  /\ UNCHANGED <<api, sandboxSeen, poolSeen, poolBehind, unseenPatch, scaleExp, local, history>>

ObserveSandbox(s) ==
  /\ sandboxSeen[s] # sandbox[s]
  /\ sandboxSeen' = [sandboxSeen EXCEPT ![s] = sandbox[s]]
  /\ queued' = (queued \/ SandboxEventQueues(sandboxSeen[s], sandbox[s]))
  /\ UNCHANGED <<api, podSeen, poolSeen, poolBehind, unseenPatch, scaleExp, local, history>>

ObservePool ==
  /\ poolBehind
  /\ poolSeen' = pool
  /\ poolBehind' = FALSE
  /\ unseenPatch' = FALSE
  /\ queued' = (queued \/ PoolEventQueues(poolSeen, poolSeen'))
  /\ UNCHANGED <<api, podSeen, sandboxSeen, scaleExp, local, history>>

-----------------------------------------------------------------------------
(* The users, the BatchSandbox controller and the kubelet.                 *)

CreateSandbox(s) ==
  /\ sandbox[s].phase = "none"
  /\ \E n \in 0..MaxReplicas :
       sandbox' = [sandbox EXCEPT ![s] = [Blank("live") EXCEPT !.replicas = n]]
  /\ UNCHANGED <<pod, podRevision, pool, cache, unseenPatch, scaleExp, queued, local, history>>

ResizeSandbox(s) ==
  /\ "resize" \in Faults
  /\ sandbox[s].phase = "live"
  /\ \E n \in 0..MaxReplicas : sandbox' = [sandbox EXCEPT ![s].replicas = n]
  /\ UNCHANGED <<pod, podRevision, pool, cache, unseenPatch, scaleExp, queued, local, history>>

\* With the task-cleanup finalizer deletion takes two steps, without it one.
DeleteSandbox(s) ==
  /\ \/ /\ sandbox[s].phase = "live"
        /\ sandbox' = [sandbox EXCEPT ![s].phase = "deleting"]
     \/ /\ Exists(s)
        /\ sandbox' = [sandbox EXCEPT ![s] = Blank("gone")]
  /\ UNCHANGED <<pod, podRevision, pool, cache, unseenPatch, scaleExp, queued, local, history>>

\* releasePods of the BatchSandbox controller appends to the release list.
MayRelease(s) ==
  \/ "release" \in Faults /\ sandbox[s].phase = "deleting"
  \/ "earlyRelease" \in Faults /\ Exists(s)

ReleasePod(s, p) ==
  /\ MayRelease(s)
  /\ p \in sandbox[s].alloc \ sandbox[s].released
  /\ sandbox' = [sandbox EXCEPT ![s].released = @ \cup {p}]
  /\ UNCHANGED <<pod, podRevision, pool, cache, unseenPatch, scaleExp, queued, local, history>>

EditTemplate ==
  /\ pool.revision < MaxRevision
  /\ pool' = [pool EXCEPT !.revision = @ + 1]
  /\ poolBehind' = TRUE
  /\ plan' = [plan EXCEPT !.current = FALSE]
  /\ UNCHANGED <<pod, podRevision, sandbox, podSeen, sandboxSeen, poolSeen,
                 unseenPatch, scaleExp, queued, pc, view, history>>

PodStep(p, from, to) ==
  /\ pod[p] \in from
  /\ pod' = [pod EXCEPT ![p] = to]
  /\ strays' = strays \cap UpIn(pod')
  /\ UNCHANGED <<podRevision, sandbox, pool, cache, unseenPatch, scaleExp, queued, local, strayRecord>>

PodRuns(p) == PodStep(p, {"pending"}, "running")
PodEnds(p) == PodStep(p, {"terminating"}, "gone")
PodLost(p) == "podLoss" \in Faults /\ PodStep(p, {"pending", "running"}, "terminating")

(***************************************************************************)
(* The controller restarts: the expectations and the reconcile are lost,   *)
(* the informers list afresh and every object's create event queues the    *)
(* pool.                                                                   *)
(***************************************************************************)
Restart ==
  /\ "restart" \in Faults
  /\ podSeen' = pod
  /\ sandboxSeen' = sandbox
  /\ poolSeen' = pool
  /\ poolBehind' = FALSE
  /\ unseenPatch' = FALSE
  /\ scaleExp' = {}
  /\ Finish(TRUE)
  /\ UNCHANGED <<api, history>>

-----------------------------------------------------------------------------

ReconcileStep ==
  \/ Reconcile \/ ReconcilePanics \/ Retry \/ RetryPanics
  \/ \E s \in Sandboxes : SyncSandbox(s) \/ SyncSandboxFails(s)
  \/ Persist \/ PersistUnanswered \/ PersistFails \/ SkipPersist
  \/ ScaleNotReady \/ ScaleOut \/ ScaleIn
  \/ UpdateStatus \/ StatusConflict \/ StatusFails

InformerStep ==
  \/ \E p \in Pods : ObservePod(p)
  \/ \E s \in Sandboxes : ObserveSandbox(s)
  \/ ObservePool

EnvironmentStep ==
  \/ \E s \in Sandboxes : CreateSandbox(s) \/ ResizeSandbox(s) \/ DeleteSandbox(s)
  \/ \E s \in Sandboxes, p \in Pods : ReleasePod(s, p)
  \/ EditTemplate
  \/ \E p \in Pods : PodRuns(p) \/ PodEnds(p) \/ PodLost(p)
  \/ Restart

Next == ReconcileStep \/ InformerStep \/ EnvironmentStep

Spec == Init /\ [][Next]_vars

\* What Go's scheduler, the watches and the kubelet guarantee: a queued pool is
\* taken up and its reconcile goes on, events arrive, pods start and end.  A pod
\* changes only so often, so one condition covers its life and its events.
PodProgress(p) == PodRuns(p) \/ PodEnds(p) \/ ObservePod(p)

Fairness ==
  /\ WF_vars(ReconcileStep)
  /\ WF_vars(ObservePool)
  /\ \A s \in Sandboxes : WF_vars(ObserveSandbox(s))
  /\ \A p \in Pods : WF_vars(PodProgress(p))

FairSpec == Spec /\ Fairness

-----------------------------------------------------------------------------
(* Properties.                                                             *)

Plans == [alloc : Allocations, base : Allocations, writes : [Sandboxes -> Entries],
          dirty : SUBSET Sandboxes, poolDirty : BOOLEAN, supply : Nat,
          again : BOOLEAN, ready : BOOLEAN, current : BOOLEAN, revision : 0..MaxRevision]

\* Every variable holds a value of its kind; in particular the number of pods
\* still to supply, a difference in the code, is never negative.
TypeOK ==
  /\ pod \in [Pods -> PodPhases] /\ podSeen \in [Pods -> PodPhases]
  /\ podRevision \in [Pods -> 0..MaxRevision]
  /\ sandbox \in [Sandboxes -> SandboxRecs] /\ sandboxSeen \in [Sandboxes -> SandboxRecs]
  /\ pool \in Pools /\ poolSeen \in Pools
  /\ poolBehind \in BOOLEAN /\ unseenPatch \in BOOLEAN /\ queued \in BOOLEAN
  /\ scaleExp \in SUBSET Pods
  /\ strays \in SUBSET Pods /\ strayRecord \in BOOLEAN
  /\ pc \in {"idle", "sync", "scale", "status", "retry"}
  /\ view \in [pods : [Pods -> PodPhases], sandboxes : [Sandboxes -> SandboxRecs]]
  /\ plan \in Plans

\* The pods a sandbox may be using: named by its annotation, not given back.
Using(s) == IF Exists(s) THEN sandbox[s].alloc \ sandbox[s].released ELSE {}

\* No pod serves two sandboxes at once, although the allocation of each
\* sandbox and that of the pool are three objects written one after another
\* (allocator.go Schedule, PersistPoolAllocation).
Exclusive ==
  \A s, t \in Sandboxes : s # t => Using(s) \cap Using(t) = {}

\* Outside the window between the patches of the sandboxes and that of the
\* pool, the pool's record names the sandbox that uses a pod
\* (pool_controller_test.go: PodAllocation[pod] is the BatchSandbox's name).
Recorded ==
  pc # "sync" => \A s \in Sandboxes : Using(s) \subseteq Owned(pool.alloc, s)

\* Nothing is left to do: no event, no request, no pod on its way.
AtRest ==
  /\ pc = "idle" /\ ~queued /\ ~poolBehind
  /\ podSeen = pod /\ sandboxSeen = sandbox
  /\ \A p \in Pods : pod[p] \notin {"pending", "terminating"}

\* At rest a sandbox and the pool agree on the pods it holds: no allocation and
\* no release is lost for good.
SettledAgreement ==
  AtRest => \A s \in Listed(sandbox) : Owned(pool.alloc, s) = Using(s)

\* The names of the model suffice for PoolMax pods; the other sandboxes hold
\* all the pods poolMax allows.
NamesLeft  == Cardinality({p \in Pods : pod[p] \notin {"terminating", "gone"}}) >= PoolMax
Crowded(s) == Cardinality({p \in Pods : pool.alloc[p] \notin {s, Unassigned}}) >= PoolMax

\* At rest no live sandbox waits for pods that could be created or are free: the
\* watches and requeues leave no request behind (SetupWithManager, reconcilePool).
SettledServed ==
  AtRest /\ NamesLeft =>
    \A s \in Live(sandbox) : sandbox[s].entries >= sandbox[s].replicas \/ Crowded(s)

\* Scaling and rolling the pool (scalePool, pickPodsToDelete) never takes a pod
\* away from the sandbox that uses it.
UsedPodsStay ==
  [][\A s \in Sandboxes : \A p \in Using(s) \cap UpIn(pod) : p \in UpIn(pod')]_vars

\* The pool's record is only ever replaced by a schedule computed from that
\* very record: the allocation another reconcile wrote is not overwritten
\* (poolResExpectations, SetAllocation).  The one record that may be is one whose
\* patch was answered with an error: nothing is expected of it, and the patch
\* of a schedule that was computed before it carries no resource version.
NoLostAllocation ==
  [][pool'.alloc # pool.alloc => plan.base = pool.alloc \/ strayRecord]_vars

\* The pods that are not being deleted pass poolMax, though each scaling counts
\* the pods of a cache, at most by those whose creation was answered with an
\* error and carried out all the same (PoolScaleExpectations, scalePool).
PoolBounded == Cardinality(UpIn(pod) \ strays) <= PoolMax

\* Without such pods poolMax would be a hard ceiling: a lost answer passes it.
HardCeiling == Cardinality(UpIn(pod)) <= PoolMax

\* And every record would be the base of the one that replaces it.
NothingOverwritten == [][pool'.alloc # pool.alloc => plan.base = pool.alloc]_vars

\* One sandbox's error does not block the schedule of the pool (the comment that
\* ends Schedule): a queued reconcile that has a pod for some sandbox gets to it.
ScheduleNotBlocked ==
  pc = "idle" /\ queued /\ Available(poolSeen.alloc, podSeen) # {}
    /\ (\E s \in Live(sandboxSeen) : Need(poolSeen.alloc, sandboxSeen, s) > 0)
  => ~SlicePanics(poolSeen.alloc, sandboxSeen)

\* The controller implements the ledger.
Borrower(p) ==
  IF \E s \in Sandboxes : p \in Using(s)
  THEN CHOOSE s \in Sandboxes : p \in Using(s) ELSE Unassigned
Ledger == INSTANCE PodLedger WITH
  borrower <- [p \in Pods |-> Borrower(p)],
  retired  <- {p \in Pods : pod[p] \in {"terminating", "gone"}}
ImplementsLedger == Ledger!LedgerSpec

\* A sandbox gets its pods, unless it is deleted, others hold all that poolMax
\* allows, or the names of the model run out.
Served ==
  \A s \in Sandboxes :
    sandbox[s].phase = "live" ~>
      \/ sandbox[s].phase # "live"
      \/ sandbox[s].entries >= sandbox[s].replicas
      \/ Crowded(s) \/ ~NamesLeft

\* The pods of a sandbox that is deleted, or gives them back while it is being
\* deleted, return to the pool (deallocate).
PodsReturn ==
  \A s \in Sandboxes, p \in Pods :
    pool.alloc[p] = s /\ (sandbox[s].phase = "gone" \/ p \in sandbox[s].released)
      ~> pool.alloc[p] # s

\* An idle pod of an old template is replaced (updatePool, pickPodsToDelete).
OldPodsRetire ==
  \A p \in Pods :
    p \in UpIn(pod) /\ pool.alloc[p] = Unassigned /\ podRevision[p] # pool.revision
      ~> \/ p \notin UpIn(pod) \/ pool.alloc[p] # Unassigned
         \/ podRevision[p] = pool.revision \/ ~NamesLeft
=============================================================================
