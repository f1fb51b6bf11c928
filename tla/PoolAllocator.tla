---------------------------- MODULE PoolAllocator ----------------------------
(***************************************************************************)
(* The allocation algorithm of the pool controller                         *)
(* (internal/controller/allocator.go): which warm pods of a pool go to     *)
(* which BatchSandbox, and which come back.  Everything here is a function *)
(* of what one reconcile has read; PoolController gives it the state.      *)
(*                                                                         *)
(* An allocation is the pool's alloc-status annotation, pod -> sandbox.  A *)
(* sandbox is a record of what the allocator reads of a BatchSandbox:      *)
(*   phase     "none" | "live" | "deleting" | "gone"                       *)
(*   replicas  spec.replicas                                               *)
(*   alloc     the pods named by its alloc-status annotation               *)
(*   entries   the length of that list: a pod may stand in it twice, and   *)
(*             the code counts entries, not pods                           *)
(*   released  the pods named by its alloc-release annotation              *)
(***************************************************************************)
EXTENDS Integers, FiniteSets

CONSTANTS
  Pods,        \* the names the API server may generate for pool pods
  Sandboxes,   \* the BatchSandboxes that reference the pool
  MaxReplicas, \* bound on spec.replicas of a sandbox
  Unassigned   \* the "owner" of a pod no sandbox holds

ASSUME UnassignedAssumption == Unassigned \notin Sandboxes
ASSUME MaxReplicasAssumption == MaxReplicas \in Nat

-----------------------------------------------------------------------------
(* What the allocator reads.                                               *)

Listed(sbx) == {s \in Sandboxes : sbx[s].phase \in {"live", "deleting"}}
Live(sbx)   == {s \in Sandboxes : sbx[s].phase = "live"}

Owned(alloc, s) == {p \in Pods : alloc[p] = s}

\* The pods the pool records for s that the annotation of s lacks.
Missing(alloc, sbx, s) == Owned(alloc, s) \ sbx[s].alloc

Need(alloc, sbx, s) ==
  sbx[s].replicas - (sbx[s].entries + Cardinality(Missing(alloc, sbx, s)))

\* availablePods[:canAllocateCnt] with a negative count: the slice expression
\* panics, and the controller runtime turns that into an error of Reconcile.
SlicePanics(alloc, sbx) == \E s \in Live(sbx) : Need(alloc, sbx, s) < 0

AvailableUnchecked(alloc, pods) == {p \in Pods : pods[p] = "running"}
Available(alloc, pods) ==
  {p \in Pods : pods[p] = "running" /\ alloc[p] = Unassigned}

-----------------------------------------------------------------------------
(* allocate: the sandboxes take pods from one list in turn, each as many   *)
(* as it still needs.  The orders of both lists are those of an informer's *)
(* cache, hence arbitrary: what is left of them is that a sandbox goes     *)
(* short only when no pod remains, and that at most one gets a part.       *)

Got(taken, s) == {p \in DOMAIN taken : taken[p] = s}

Grants(alloc, sbx, avail) ==
  LET got(t, s)   == Cardinality(Got(t, s))
      need(s)     == Need(alloc, sbx, s)
      partly(t,s) == got(t, s) > 0 /\ got(t, s) < need(s)
  IN {t \in [avail -> Live(sbx) \cup {Unassigned}] :
        /\ \A s \in Live(sbx) : got(t, s) <= need(s)
        /\ (\E s \in Live(sbx) : got(t, s) < need(s)) => Got(t, Unassigned) = {}
        /\ \A s, u \in Live(sbx) : partly(t, s) /\ partly(t, u) => s = u}

\* AllocStatus.PodSupplement: the replicas the available pods did not cover,
\* counted as pairs of a sandbox and the number of one of its missing replicas.
Supplement(alloc, sbx, taken) ==
  Cardinality({x \in Live(sbx) \X (1..MaxReplicas) :
                 x[2] <= Need(alloc, sbx, x[1]) - Cardinality(Got(taken, x[1]))})

\* The list written to the annotation of s, and whether it has to be.
NewEntry(alloc, sbx, taken, s) ==
  [alloc   |-> sbx[s].alloc \cup Owned(alloc, s) \cup Got(taken, s),
   entries |-> sbx[s].entries + Cardinality(Missing(alloc, sbx, s))
                              + Cardinality(Got(taken, s))]

Dirty(alloc, sbx, taken) ==
  {s \in Live(sbx) : Missing(alloc, sbx, s) # {} \/ Got(taken, s) # {}}

-----------------------------------------------------------------------------
(* deallocate: a listed sandbox that has an entry in sandboxToPods (any    *)
(* live one; a deleting one while the pool records a pod for it) gives     *)
(* back every pod of its release list, whoever holds it now, and sandboxes *)
(* that are no longer listed give back everything.                         *)

Releases(alloc, sbx) ==
  UNION {sbx[s].released : s \in {u \in Listed(sbx) :
                                    u \in Live(sbx) \/ Owned(alloc, u) # {}}}

CollectedUnlessLive(alloc, sbx) ==
  {p \in Pods : alloc[p] \in Sandboxes \ Live(sbx)}
Collected(alloc, sbx) ==
  {p \in Pods : alloc[p] \in Sandboxes \ Listed(sbx)}

ScheduledAlloc(alloc, sbx, taken) ==
  [p \in Pods |->
     IF p \in Releases(alloc, sbx) \cup Collected(alloc, sbx) THEN Unassigned
     ELSE IF p \in DOMAIN taken THEN taken[p] ELSE alloc[p]]

PoolDirty(alloc, sbx, taken) ==
  \/ \E p \in DOMAIN taken : taken[p] # Unassigned
  \/ Releases(alloc, sbx) # {}
  \/ Collected(alloc, sbx) # {}

IdleOrHeld(alloc, up) == up

\* The list of pods the pool may retire: every pod the schedule leaves free.
Idle(alloc, up) == {p \in up : alloc[p] = Unassigned}
=============================================================================
