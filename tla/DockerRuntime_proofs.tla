-------------------------- MODULE DockerRuntime_proofs --------------------------
(***************************************************************************)
(* Proofs about DockerRuntime, for any sandboxes, keys, timers, requests,  *)
(* bounds and faults: its types, the steps each thread can be at, and what *)
(* is known of a sandbox from the moment its id is given out. What rests   *)
(* on them is in DockerSound_proofs and DockerMounts_proofs.               *)
(***************************************************************************)
EXTENDS DockerRuntime, FiniteSetTheorems, TLAPS

-----------------------------------------------------------------------------
(* The parts of the inductive invariants.                                  *)

CreateSteps == {"mount", "egress", "container", "start", "undo", "undoEgress", "track",
                "release", "unmount"}
DeleteSteps == {"kill", "remove", "untrack", "sidecar", "release", "unmount"}
RenewSteps == {"rearm", "label"}
ExpireSteps == {"lookup", "retry", "rearm", "deadline", "expireKill", "expireRemove",
                "untrack", "sidecar", "release", "unmount"}
RestoreSteps == {"counts", "next", "orphans"}

\* Which operation is at which step, of which thread; a thread that has begun
\* works for a sandbox.
Turn(p, t) ==
  /\ t.op = "idle" => t = Idle
  /\ t.op = "create" => t.pc \in CreateSteps
  /\ t.op = "delete" => t.pc \in DeleteSteps
  /\ t.op = "renew" => t.pc \in RenewSteps
  /\ t.op = "expire" => t.pc \in ExpireSteps
  /\ t.op = "restore" => t.pc \in ExpireSteps \cup RestoreSteps
  /\ IF p = Loop THEN t.op # "expire" ELSE t.op \in {"idle", "expire"}
  /\ t.pc = "unmount" => t.key \in Keys
  /\ IF t.op = "idle" \/ t.pc \in RestoreSteps THEN t.s = NoSandbox ELSE t.s \in Sandboxes
  /\ t.op # "restore" => t.todo = {}
  /\ t.todo \subseteq Sandboxes

Turns == \A p \in Procs : Turn(p, proc[p]) /\ (~up => proc[p] = Idle)

Typed == TypeOK /\ Turns

-----------------------------------------------------------------------------
(* Types.                                                                  *)

LEMMA IdleTyped ==
  /\ Idle \in Threads /\ Idle.op = "idle" /\ Idle.pc = "idle" /\ Idle.s = NoSandbox
  /\ Idle.keys = {} /\ Idle.held = {} /\ Idle.key = NoKey /\ Idle.flag = FALSE /\ Idle.to = 0
  /\ Idle.todo = {} /\ Idle.counts = [k \in Keys |-> 0]
<1>1. 0 \in Times
  BY BoundsAssumption DEF Times
<1>2. Idle.counts = [k \in Keys |-> 0] /\ [k \in Keys |-> 0] \in [Keys -> Nat]
  BY DEF Idle
<1> QED
  BY <1>1, <1>2 DEF Idle, Threads, Ops, Steps

LEMMA IdleTurn == \A p \in Procs : Turn(p, Idle)
BY IdleTyped DEF Turn, RestoreSteps

Others(p) == \A q \in Procs : q # p => proc'[q] = proc[q]

LEMMA BecomeMoves ==
  ASSUME TypeOK, NEW p \in Procs, NEW t, Become(p, t)
  PROVE  Others(p) /\ proc'[p] = t
BY DEF TypeOK, Become, Others

\* What a thread's step needs for the types to hold after it.
LEMMA TurnMoves ==
  ASSUME Typed, NEW p \in Procs, NEW t \in Threads, Become(p, t), up', Turn(p, t)
  PROVE  proc' \in [Procs -> Threads] /\ Turns'
<1>1. proc' \in [Procs -> Threads]
  BY DEF Typed, TypeOK, Become
<1>2. Others(p) /\ proc'[p] = t
  BY BecomeMoves DEF Typed
<1>3. ASSUME NEW q \in Procs PROVE Turn(q, proc'[q])
  <2>1. CASE q = p
    BY <1>2, <2>1
  <2>2. CASE q # p
    <3>1. Turn(q, proc[q]) /\ proc'[q] = proc[q]
      BY <1>2, <2>2 DEF Typed, Turns, Others
    <3> QED
      BY <3>1 DEF Turn
  <2> QED
    BY <2>1, <2>2
<1> QED
  BY <1>1, <1>3 DEF Turns

LEMMA Running1 ==
  ASSUME Typed, NEW p \in Procs, proc[p].pc # "idle"
  PROVE  /\ up /\ proc[p] \in Threads /\ Turn(p, proc[p])
         /\ proc[p].op # "idle" /\ proc[p] # Idle
         /\ proc[p].pc \notin RestoreSteps => proc[p].s \in Sandboxes
BY IdleTyped DEF Typed, TypeOK, Turns, Turn


\* What is known of a sandbox whose id was given out: its label agrees with the
\* request, and only a sandbox with an expiration is tracked.
Known(s) ==
  /\ spec[s].timed => MaxTime # 0
  /\ Present(s) => s \in used /\ (box[s].label # 0 <=> spec[s].timed)
  /\ deadline[s] # 0 => s \in used /\ spec[s].timed
  /\ timer[s] # NoTimer => s \in used /\ spec[s].timed /\ timer[s].at # 0
  /\ s \in sidecar => s \in used /\ spec[s].policy
  /\ s \in deleted => s \in used /\ ~Present(s)

\* A sandbox that is being created is nobody else's: nothing is tracked for it
\* and no timer's thread works for it.
Begun(t) ==
  /\ deadline[t.s] = 0 /\ timer[t.s] = NoTimer /\ t.s \notin deleted
  /\ \A q \in Timers : proc[q].s # t.s
  /\ t.to # 0 <=> spec[t.s].timed
  /\ t.pc = "egress" => spec[t.s].policy
  /\ t.pc \in {"mount", "egress", "container"} => ~Present(t.s)
  /\ t.pc \in {"mount", "egress"} => t.s \notin sidecar
  /\ t.pc \in {"start", "undo", "track"} => Present(t.s)

\* What is known of the sandbox a thread works for.
Named(t) ==
  /\ t.s # NoSandbox => t.s \in used
  /\ t.todo \subseteq used
  /\ t.s # NoSandbox /\ t.op \in {"expire", "restore", "renew"} => spec[t.s].timed
  /\ \A s \in t.todo : spec[s].timed
  /\ t.op = "renew" => t.to # 0 /\ t.s \notin deleted
  /\ t.op = "delete" /\ t.flag => ~Present(t.s)
  /\ t.op = "create" => Begun(t)

Identified == (\A s \in Sandboxes : Known(s)) /\ (\A p \in Procs : Named(proc[p]))
\* A thread goes on, to a state its operation has.
Leads(p) == \E t \in Threads : Become(p, t) /\ Turn(p, t)

LEMMA LeadsTo ==
  ASSUME NEW p \in Procs, NEW t \in Threads, Turn(p, t), Become(p, t)
  PROVE  Leads(p)
BY Zenon DEF Leads

LEMMA ProvisionLeads ==
  ASSUME Typed, NEW p \in Procs, ProvisionStep(p)
  PROVE  Leads(p) /\ proc[p].op = "create" /\ UNCHANGED <<now, up, spec, used, deleted>>
<1> DEFINE T == proc[p]
<1>1. T.pc \in CreateSteps /\ T.pc \notin {"release", "unmount"}
  BY DEF ProvisionStep, PrepareMount, MountsPrepared, StartEgress, CreateContainer, StartContainer,
         UndoContainer, UndoEgress, TrackCreated, At, CreateSteps
<1>2. T \in Threads /\ Turn(p, T) /\ T.op = "create"
  BY <1>1, Running1 DEF CreateSteps, Threads, Turn, DeleteSteps, RenewSteps, ExpireSteps, RestoreSteps, Ops
<1>3. UNCHANGED <<now, up, spec, used, deleted>>
  BY DEF ProvisionStep, PrepareMount, MountsPrepared, StartEgress, CreateContainer, StartContainer,
         UndoContainer, UndoEgress, TrackCreated, clients
<1> SUFFICES Leads(p)
  BY <1>2, <1>3
<1>4. ASSUME NEW step \in CreateSteps \ {"unmount"}
      PROVE  [T EXCEPT !.pc = step] \in Threads /\ Turn(p, [T EXCEPT !.pc = step])
  BY <1>2 DEF CreateSteps, Threads, Turn, Steps, RestoreSteps
<1>5. ASSUME NEW step \in CreateSteps \ {"unmount"}, Goto(p, step) PROVE Leads(p)
  BY LeadsTo, <1>4, <1>5 DEF Goto
<1>6. ASSUME NEW keys \in SUBSET Keys PROVE
        /\ [T EXCEPT !.pc = "release", !.keys = keys] \in Threads
        /\ Turn(p, [T EXCEPT !.pc = "release", !.keys = keys])
  BY <1>2 DEF CreateSteps, Threads, Turn, Steps, RestoreSteps
<1>7. Become(p, [T EXCEPT !.pc = "release", !.keys = T.held]) => Leads(p)
  BY LeadsTo, <1>2, <1>6 DEF Threads
<1>8. CASE PrepareMount(p)
  <2>1. PICK k \in T.keys :
           \/ Become(p, [T EXCEPT !.keys = @ \ {k}, !.held = @ \cup {k}])
           \/ Become(p, [T EXCEPT !.pc = "release", !.keys = T.held])
    BY <1>8 DEF PrepareMount
  <2> DEFINE t == [T EXCEPT !.keys = @ \ {k}, !.held = @ \cup {k}]
  <2>2. t \in Threads /\ Turn(p, t)
    BY <1>1, <1>2 DEF Threads, Turn, CreateSteps, RestoreSteps
  <2> QED
    BY LeadsTo, <1>7, <2>1, <2>2
<1>9. CASE MountsPrepared(p)
  <2>1. Goto(p, "egress") \/ Goto(p, "container")
    BY <1>9 DEF MountsPrepared
  <2> QED
    BY <1>5, <2>1 DEF CreateSteps
<1>10. CASE StartEgress(p)
  <2>1. Goto(p, "container") \/ Become(p, [T EXCEPT !.pc = "release", !.keys = T.held])
    BY <1>10 DEF StartEgress
  <2> QED
    BY <1>5, <1>7, <2>1 DEF CreateSteps
<1>11. CASE CreateContainer(p) \/ StartContainer(p) \/ UndoContainer(p)
  <2>1. Goto(p, "start") \/ Goto(p, "track") \/ Goto(p, "undo") \/ Goto(p, "undoEgress")
    BY <1>11 DEF CreateContainer, StartContainer, UndoContainer
  <2> QED
    BY <1>5, <2>1 DEF CreateSteps
<1>12. CASE UndoEgress(p)
  BY <1>7, <1>12 DEF UndoEgress
<1>13. CASE TrackCreated(p)
  BY LeadsTo, <1>13, IdleTyped, IdleTurn DEF TrackCreated
<1> QED
  BY <1>8, <1>9, <1>10, <1>11, <1>12, <1>13 DEF ProvisionStep

LEMMA LoopLeads ==
  ASSUME Typed, NEW p \in Procs,
         DeleteKill(p) \/ DeleteRemove(p) \/ RenewTrack(p) \/ RenewLabel(p)
         \/ RestoreCounts(p) \/ RestoreNext(p) \/ RestoreOrphans(p)
  PROVE  Leads(p) /\ p = Loop /\ UNCHANGED <<now, up, spec, used, deleted>>
<1> DEFINE T == proc[p]
<1>1. T \in Threads /\ Turn(p, T) /\ T.op \in {"delete", "renew", "restore"}
  BY Running1 DEF DeleteKill, DeleteRemove, RenewTrack, RenewLabel, RestoreCounts, RestoreNext,
     RestoreOrphans, At, Threads, Turn, CreateSteps, DeleteSteps, RenewSteps, ExpireSteps, RestoreSteps, Ops
<1>2. p = Loop
  BY <1>1 DEF Turn
<1>3. UNCHANGED <<now, up, spec, used, deleted>>
  BY DEF DeleteKill, DeleteRemove, RenewTrack, RenewLabel, RestoreCounts, RestoreNext,
     RestoreOrphans, clients, memory, host
<1> SUFFICES Leads(p)
  BY <1>2, <1>3
<1>4. CASE DeleteKill(p) \/ DeleteRemove(p)
  <2>1. T.op = "delete"
    BY <1>1, <1>4 DEF DeleteKill, DeleteRemove, At, Turn, RenewSteps, RestoreSteps, ExpireSteps
  <2>2. \/ Goto(p, "remove") \/ Goto(p, "untrack")
        \/ Become(p, [T EXCEPT !.pc = "untrack", !.flag = TRUE])
    BY <1>4 DEF DeleteKill, DeleteRemove
  <2>3. /\ [T EXCEPT !.pc = "remove"] \in Threads /\ Turn(p, [T EXCEPT !.pc = "remove"])
        /\ [T EXCEPT !.pc = "untrack"] \in Threads /\ Turn(p, [T EXCEPT !.pc = "untrack"])
        /\ [T EXCEPT !.pc = "untrack", !.flag = TRUE] \in Threads
        /\ Turn(p, [T EXCEPT !.pc = "untrack", !.flag = TRUE])
    BY <1>1, <2>1 DEF Threads, Turn, DeleteSteps, Steps, RestoreSteps
  <2> QED
    BY LeadsTo, <2>2, <2>3 DEF Goto
<1>5. CASE RenewTrack(p)
  <2>1. T.op = "renew" /\ Goto(p, "label")
    BY <1>5 DEF RenewTrack
  <2>2. [T EXCEPT !.pc = "label"] \in Threads /\ Turn(p, [T EXCEPT !.pc = "label"])
    BY <1>1, <2>1 DEF Threads, Turn, RenewSteps, Steps, RestoreSteps
  <2> QED
    BY LeadsTo, <2>1, <2>2 DEF Goto
<1>6. CASE RenewLabel(p) \/ RestoreOrphans(p)
  BY LeadsTo, <1>6, IdleTyped, IdleTurn DEF RenewLabel, RestoreOrphans
<1>7. CASE RestoreCounts(p)
  <2> DEFINE t == [T EXCEPT !.pc = "next", !.counts = Idle.counts]
  <2>1. T.op = "restore" /\ T.s = NoSandbox
    BY <1>1, <1>7 DEF RestoreCounts, At, Turn, RenewSteps, RestoreSteps, DeleteSteps
  <2>2. Idle.counts \in [Keys -> Nat]
    BY IdleTyped
  <2>3. t \in Threads
    BY <1>1, <2>2 DEF Threads, Steps
  <2>4. Turn(p, t)
    BY <1>1, <2>1 DEF Turn, RestoreSteps, Threads
  <2> QED
    BY LeadsTo, <1>7, <2>3, <2>4 DEF RestoreCounts
<1>8. CASE RestoreNext(p)
  <2>1. T.op = "restore" /\ T.s = NoSandbox
    BY <1>1, <1>8 DEF RestoreNext, At, Turn, RenewSteps, RestoreSteps, DeleteSteps
  <2>2. CASE \E s \in T.todo : Become(p, [T EXCEPT !.pc = "lookup", !.s = s, !.keys = spec[s].keys,
                                             !.todo = @ \ {s}])
    <3>1. PICK s \in T.todo : Become(p, [T EXCEPT !.pc = "lookup", !.s = s, !.keys = spec[s].keys,
                                             !.todo = @ \ {s}])
      BY <2>2
    <3> DEFINE t == [T EXCEPT !.pc = "lookup", !.s = s, !.keys = spec[s].keys, !.todo = @ \ {s}]
    <3>2. s \in Sandboxes /\ spec[s].keys \in SUBSET Keys
      BY <1>1 DEF Turn, Typed, TypeOK, Shapes
    <3>3. t \in Threads
      BY <1>1, <3>2 DEF Threads, Steps
    <3>4. Turn(p, t)
      BY <1>1, <2>1, <3>2 DEF Turn, Threads, ExpireSteps, RestoreSteps
    <3> QED
      BY LeadsTo, <3>1, <3>3, <3>4
  <2>3. CASE Goto(p, "orphans")
    <3>1. [T EXCEPT !.pc = "orphans"] \in Threads /\ Turn(p, [T EXCEPT !.pc = "orphans"])
      BY <1>1, <2>1 DEF Threads, Turn, RestoreSteps, Steps
    <3> QED
      BY LeadsTo, <2>3, <3>1 DEF Goto
  <2> QED
    BY <1>8, <2>2, <2>3 DEF RestoreNext
<1> QED
  BY <1>4, <1>5, <1>6, <1>7, <1>8

\* The operations that come to the steps they share.
Expiring(t) == t.op = "expire" \/ t.op = "restore"

LEMMA EndLeads ==
  ASSUME Typed, NEW p \in Procs, EndStep(p)
  PROVE  /\ Leads(p) \/ (proc[p].op = "restore" /\ UnmountHangs(p) /\ Dies)
         /\ proc[p].pc \in {"untrack", "sidecar", "release", "unmount"}
         /\ proc[p].op \in {"create", "delete"} \/ Expiring(proc[p])
         /\ proc[p].op = "create" => proc[p].pc \in {"release", "unmount"}
<1> DEFINE T == proc[p]
<1>1. T.pc \in {"untrack", "sidecar", "release", "unmount"}
  BY DEF EndStep, Untrack, CleanupSidecar, ReleaseMount, Unmount, UnmountHangs, Finish, At
<1>2. T \in Threads /\ Turn(p, T) /\ T.op # "idle"
  BY <1>1, Running1
<1>3. (T.op \in {"create", "delete"} \/ Expiring(T)) /\ (T.op = "create" => T.pc \in {"release", "unmount"})
  BY <1>1, <1>2 DEF Turn, Threads, Ops, Expiring, CreateSteps, RenewSteps
<1> SUFFICES Leads(p) \/ (T.op = "restore" /\ Dies /\ UnmountHangs(p))
  BY <1>1, <1>3
<1>4. CASE Untrack(p)
  <2>1. Goto(p, "sidecar") /\ T.op # "create" /\ T.pc = "untrack"
    BY <1>3, <1>4 DEF Untrack, At
  <2>2. [T EXCEPT !.pc = "sidecar"] \in Threads
    BY <1>2 DEF Threads, Steps
  <2>3. Turn(p, [T EXCEPT !.pc = "sidecar"])
    BY <1>2, <1>3, <2>1 DEF Threads, Turn, DeleteSteps, ExpireSteps, RestoreSteps, Expiring
  <2> QED
    BY LeadsTo, <2>1, <2>2, <2>3 DEF Goto
<1>5. CASE CleanupSidecar(p)
  <2>1. Goto(p, "release") /\ T.op # "create" /\ T.pc = "sidecar"
    BY <1>3, <1>5 DEF CleanupSidecar, At
  <2>2. [T EXCEPT !.pc = "release"] \in Threads
    BY <1>2 DEF Threads, Steps
  <2>3. Turn(p, [T EXCEPT !.pc = "release"])
    BY <1>2, <1>3, <2>1 DEF Threads, Turn, DeleteSteps, ExpireSteps, RestoreSteps, Expiring
  <2> QED
    BY LeadsTo, <2>1, <2>2, <2>3 DEF Goto
<1>6. CASE ReleaseMount(p)
  <2>1. PICK k \in T.keys :
           \/ Become(p, [T EXCEPT !.keys = @ \ {k}, !.pc = "unmount", !.key = k])
           \/ Become(p, [T EXCEPT !.keys = @ \ {k}])
    BY <1>6 DEF ReleaseMount
  <2> DEFINE t == [T EXCEPT !.keys = @ \ {k}, !.pc = "unmount", !.key = k]
             u == [T EXCEPT !.keys = @ \ {k}]
  <2>2. T.pc = "release" /\ k \in Keys
    BY <1>2, <1>6 DEF ReleaseMount, At, Threads
  <2>3. t \in Threads /\ u \in Threads
    BY <1>2, <2>2 DEF Threads, Steps
  <2>4. Turn(p, t) /\ Turn(p, u)
    BY <1>2, <1>3, <2>2 DEF Threads, Turn, CreateSteps, DeleteSteps, ExpireSteps, RestoreSteps, Expiring
  <2> QED
    BY LeadsTo, <2>1, <2>3, <2>4
<1>7. CASE Unmount(p)
  <2> DEFINE t == [T EXCEPT !.pc = "release", !.key = NoKey]
  <2>1. T.pc = "unmount" /\ Become(p, t)
    BY <1>7 DEF Unmount, At
  <2>2. t \in Threads /\ Turn(p, t)
    BY <1>2, <1>3, <2>1 DEF Threads, Steps, Turn, CreateSteps, DeleteSteps, ExpireSteps, RestoreSteps, Expiring
  <2> QED
    BY LeadsTo, <2>1, <2>2
<1>8. CASE UnmountHangs(p)
  BY LeadsTo, <1>8, IdleTyped, IdleTurn DEF UnmountHangs, Abandons
<1>9. CASE Finish(p)
  <2> DEFINE t == [T EXCEPT !.pc = "next", !.s = NoSandbox, !.flag = FALSE]
  <2>1. IF T.op = "restore" THEN Become(p, t) ELSE Become(p, Idle)
    BY <1>9 DEF Finish
  <2>2. T.op = "restore" => t \in Threads /\ Turn(p, t)
    BY <1>2 DEF Threads, Turn, Steps, RestoreSteps
  <2> QED
    BY LeadsTo, <2>1, <2>2, IdleTyped, IdleTurn
<1> QED
  BY <1>4, <1>5, <1>6, <1>7, <1>8, <1>9 DEF EndStep

LEMMA ExpireLeads ==
  ASSUME Typed, NEW p \in Procs, ExpireStep(p)
  PROVE  Leads(p) /\ Expiring(proc[p]) /\ UNCHANGED <<now, up, refs, clients>>
<1> DEFINE T == proc[p]
<1>1. T.pc \in {"lookup", "retry", "rearm", "deadline", "expireKill", "expireRemove"}
      /\ (T.pc = "rearm" => T.op # "renew")
  BY DEF ExpireStep, ExpireLookup, RetryLook, Rearm, ReadDeadline, ExpireKill, ExpireRemove, At
<1>2. T \in Threads /\ Turn(p, T) /\ Expiring(T)
  BY <1>1, Running1 DEF Turn, Threads, Ops, CreateSteps, DeleteSteps, RenewSteps, RestoreSteps, Expiring
<1>3. UNCHANGED <<now, up, refs, clients>>
  BY DEF ExpireStep, ExpireLookup, RetryLook, Rearm, ReadDeadline, ExpireKill, ExpireRemove, memory
<1> SUFFICES Leads(p)
  BY <1>2, <1>3
<1>4. ASSUME NEW step \in ExpireSteps \ {"unmount"}, NEW keys \in SUBSET Keys, NEW flag \in BOOLEAN,
             NEW t \in {[T EXCEPT !.pc = step], [T EXCEPT !.pc = step, !.keys = keys],
                       [T EXCEPT !.pc = step, !.flag = flag],
                       [T EXCEPT !.pc = step, !.keys = keys, !.flag = flag]}
      PROVE  t \in Threads /\ Turn(p, t)
  <2>0. step \in Steps
    BY DEF Steps, ExpireSteps
  <2>1. t \in Threads
    BY <1>2, <2>0 DEF Threads
  <2>2. t.op = T.op /\ t.s = T.s /\ t.todo = T.todo /\ t.pc = step
    BY <1>2 DEF Threads
  <2> QED
    BY <1>1, <1>2, <2>1, <2>2 DEF Expiring, Turn, ExpireSteps, RestoreSteps
<1>5. \A step \in ExpireSteps \ {"unmount"} : Goto(p, step) => Leads(p)
  BY LeadsTo, <1>4 DEF Goto
<1>6. Dismissed(p) => Leads(p)
  BY LeadsTo, <1>4 DEF Dismissed, ExpireSteps
<1>7. CASE ExpireLookup(p)
  <2> DEFINE s == T.s
             t == [T EXCEPT !.pc = "deadline", !.keys = spec[s].keys, !.flag = Running(s)]
  <2>1. Become(p, t) \/ Goto(p, "release") \/ Goto(p, "retry")
    BY <1>7 DEF ExpireLookup
  <2>2. spec[s].keys \in SUBSET Keys /\ Running(s) \in BOOLEAN
    <3>1. s \in Sandboxes
      BY <1>1, Running1 DEF RestoreSteps
    <3> QED
      BY <3>1 DEF Typed, TypeOK, Shapes, Running
  <2> HIDE DEF s
  <2>3. t \in Threads /\ Turn(p, t)
    BY <1>4, <2>2 DEF ExpireSteps
  <2> QED
    BY LeadsTo, <1>5, <2>1, <2>3 DEF ExpireSteps
<1>8. CASE RetryLook(p) \/ ReadDeadline(p) \/ Rearm(p)
  <2>1. Dismissed(p) \/ Goto(p, "rearm") \/ Goto(p, "expireKill")
    BY <1>8 DEF RetryLook, ReadDeadline, Rearm
  <2> QED
    BY <1>5, <1>6, <2>1 DEF ExpireSteps
<1>9. CASE ExpireKill(p)
  BY <1>5, <1>9 DEF ExpireSteps, ExpireKill
<1>10. CASE ExpireRemove(p)
  <2>1. Become(p, [T EXCEPT !.pc = "untrack", !.flag = FALSE])
    BY <1>10 DEF ExpireRemove
  <2> QED
    BY LeadsTo, <1>4, <2>1 DEF ExpireSteps
<1> QED
  BY <1>7, <1>8, <1>9, <1>10 DEF ExpireStep

LEMMA HoldersFinite ==
  ASSUME NEW k
  PROVE  Holders(k) \in SUBSET Sandboxes /\ IsFiniteSet(Holders(k)) /\ Cardinality(Holders(k)) \in Nat
<1>1. Holders(k) \in SUBSET Sandboxes
  BY DEF Holders
<1>2. IsFiniteSet(Holders(k))
  BY <1>1, SandboxesAssumption, FS_Subset
<1> QED
  BY <1>1, <1>2, FS_CardinalityType

LEMMA TimesTyped == 0 \in Times /\ Times \subseteq Nat /\ NoBox \in Boxes
                    /\ NoTimer \in [at : Times, keys : SUBSET Keys]
BY BoundsAssumption DEF Times, NoBox, Boxes, NoTimer

LuckTypes == faults \in Nat /\ failed \subseteq AllFaults /\ astray \subseteq Sandboxes

\* The luck is typed whatever the step is.
LEMMA LuckTyped ==
  ASSUME TypeOK, Works \/ (\E call : Fails(call)) \/ (\E s \in Sandboxes : Loses(s))
  PROVE  LuckTypes' /\ failed \subseteq failed'
BY FaultsAssumption DEF TypeOK, Works, Fails, Loses, luck, LuckTypes

\* The variables beside proc, used and up, that a thread's step leaves typed.
WorldTyped ==
  /\ now \in Times
  /\ box \in [Sandboxes -> Boxes] /\ sidecar \subseteq Sandboxes /\ mounted \subseteq Keys
  /\ deadline \in [Sandboxes -> Times]
  /\ timer \in [Sandboxes -> [at : Times, keys : SUBSET Keys]]
  /\ refs \in [Keys -> Nat] /\ up \in BOOLEAN
  /\ spec \in [Sandboxes -> Shapes] /\ used \subseteq Sandboxes /\ created \subseteq Sandboxes
  /\ promised \in [Sandboxes -> Times] /\ deleted \subseteq Sandboxes
  /\ LuckTypes

LEMMA TrackingTyped ==
  ASSUME TypeOK, NEW s \in Sandboxes, NEW at \in Times, NEW keys \in SUBSET Keys, NEW update \in BOOLEAN,
         ScheduleExpiration(s, at, update, keys) \/ RemoveTracking(s)
  PROVE  /\ deadline' \in [Sandboxes -> Times]
         /\ timer' \in [Sandboxes -> [at : Times, keys : SUBSET Keys]]
<1>1. CASE ScheduleExpiration(s, at, update, keys)
  <2>1. [at |-> at, keys |-> keys] \in [at : Times, keys : SUBSET Keys]
    OBVIOUS
  <2>2. /\ timer' = [timer EXCEPT ![s] = [at |-> at, keys |-> keys]]
        /\ deadline' = deadline \/ deadline' = [deadline EXCEPT ![s] = at]
    BY <1>1 DEF ScheduleExpiration
  <2> QED
    BY <2>1, <2>2 DEF TypeOK
<1>2. CASE RemoveTracking(s)
  BY <1>2, TimesTyped DEF TypeOK, RemoveTracking
<1> QED
  BY <1>1, <1>2

\* What the steps do to a container keeps it one.
LEMMA BoxTyped ==
  ASSUME box \in [Sandboxes -> Boxes], NEW s \in Sandboxes, NEW label \in Times,
         box' \in {box, [box EXCEPT ![s] = NoBox], [box EXCEPT ![s] = [st |-> "created", label |-> label]],
                  [box EXCEPT ![s].st = "running"], [box EXCEPT ![s].st = "exited"],
                  [box EXCEPT ![s].st = "paused"], [box EXCEPT ![s].label = label]}
  PROVE  box' \in [Sandboxes -> Boxes]
<1>1. /\ NoBox \in Boxes /\ [st |-> "created", label |-> label] \in Boxes
      /\ [box[s] EXCEPT !.st = "running"] \in Boxes /\ [box[s] EXCEPT !.st = "exited"] \in Boxes
      /\ [box[s] EXCEPT !.st = "paused"] \in Boxes /\ [box[s] EXCEPT !.label = label] \in Boxes
  <2>1. box[s] \in Boxes
    OBVIOUS
  <2> QED
    BY <2>1, TimesTyped DEF Boxes
<1>2. \A b \in Boxes : [box EXCEPT ![s] = b] \in [Sandboxes -> Boxes]
  OBVIOUS
<1>3. /\ [box EXCEPT ![s].st = "running"] = [box EXCEPT ![s] = [box[s] EXCEPT !.st = "running"]]
      /\ [box EXCEPT ![s].st = "exited"] = [box EXCEPT ![s] = [box[s] EXCEPT !.st = "exited"]]
      /\ [box EXCEPT ![s].st = "paused"] = [box EXCEPT ![s] = [box[s] EXCEPT !.st = "paused"]]
      /\ [box EXCEPT ![s].label = label] = [box EXCEPT ![s] = [box[s] EXCEPT !.label = label]]
  OBVIOUS
<1> QED
  BY <1>1, <1>2, <1>3

LEMMA ProvisionTyped ==
  ASSUME Typed, NEW p \in Procs, ProvisionStep(p)
  PROVE  WorldTyped'
<1> DEFINE s == proc[p].s
<1>1. TypeOK /\ WorldTyped
  BY DEF Typed, TypeOK, WorldTyped, LuckTypes, LuckTypes
<1>2. proc[p] \in Threads /\ s \in Sandboxes
  <2>1. proc[p].pc \in CreateSteps
    BY DEF ProvisionStep, PrepareMount, MountsPrepared, StartEgress, CreateContainer, StartContainer,
           UndoContainer, UndoEgress, TrackCreated, At, CreateSteps
  <2> QED
    BY <2>1, Running1 DEF CreateSteps, RestoreSteps
<1>3. proc[p].to \in Times
  BY <1>2 DEF Threads
<1> HIDE DEF s
<1>4. LuckTypes'
  <2>1. Works \/ (\E call : Fails(call)) \/ Loses(proc[p].s) \/
          (faults' = faults + 1 /\ failed' = failed \cup {"egress", "remove"} /\ astray' = astray)
    BY DEF ProvisionStep, PrepareMount, MountsPrepared, StartEgress, CreateContainer, StartContainer,
           UndoContainer, UndoEgress, TrackCreated
  <2>2. {"egress", "remove"} \subseteq AllFaults
    BY DEF AllFaults
  <2> QED
    BY <1>1, <1>2, <2>1, <2>2, LuckTyped DEF WorldTyped, LuckTypes, s
<1>5. CASE PrepareMount(p)
  <2>1. UNCHANGED <<now, box, sidecar, deadline, timer, up, spec, used, created, promised, deleted>>
    BY <1>5 DEF PrepareMount, tracking, clients
  <2>2. PICK k \in proc[p].keys :
          \/ /\ refs' = [refs EXCEPT ![k] = @ + 1]
             /\ mounted' = IF refs[k] = 0 THEN mounted \cup {k} ELSE mounted
          \/ UNCHANGED <<mounted, refs>>
    BY <1>5 DEF PrepareMount
  <2>3. k \in Keys
    BY <1>2 DEF Threads
  <2>4. refs' \in [Keys -> Nat] /\ mounted' \subseteq Keys
    BY <1>1, <2>2, <2>3 DEF WorldTyped
  <2> QED
    BY <1>1, <1>4, <2>1, <2>4 DEF WorldTyped
<1>6. CASE MountsPrepared(p)
  <2>1. UNCHANGED <<now, host, memory, up, clients>>
    BY <1>6 DEF MountsPrepared
  <2> QED
    BY <1>1, <1>4, <2>1 DEF WorldTyped, host, memory, tracking, clients
<1>7. CASE StartEgress(p) \/ UndoEgress(p)
  <2>1. UNCHANGED <<now, box, mounted, memory, up, clients>>
    BY <1>7 DEF StartEgress, UndoEgress
  <2>2. sidecar' \in {sidecar, sidecar \cup {s}, sidecar \ {s}}
    BY <1>7 DEF StartEgress, UndoEgress, s
  <2> QED
    BY <1>1, <1>2, <1>4, <2>1, <2>2 DEF WorldTyped, memory, tracking, clients
<1>8. CASE CreateContainer(p) \/ StartContainer(p) \/ UndoContainer(p)
  <2>1. UNCHANGED <<now, sidecar, mounted, memory, up, clients>>
    BY <1>8 DEF CreateContainer, StartContainer, UndoContainer
  <2>2. box' \in {box, [box EXCEPT ![s] = [st |-> "created", label |-> proc[p].to]],
                  [box EXCEPT ![s].st = "running"], [box EXCEPT ![s] = NoBox]}
    BY <1>8 DEF CreateContainer, StartContainer, UndoContainer, s
  <2>3. box' \in [Sandboxes -> Boxes]
    BY <1>1, <1>2, <1>3, <2>2, BoxTyped DEF WorldTyped
  <2> QED
    BY <1>1, <1>4, <2>1, <2>3 DEF WorldTyped, memory, tracking, clients
<1>9. CASE TrackCreated(p)
  <2>1. /\ UNCHANGED <<now, host, refs, up, spec, used, deleted>> /\ created' = created \cup {s}
        /\ promised' = [promised EXCEPT ![s] = proc[p].to]
    BY <1>9 DEF TrackCreated, s
  <2>2. ScheduleExpiration(s, proc[p].to, TRUE, {}) \/ UNCHANGED tracking
    BY <1>9 DEF TrackCreated, s
  <2>3. /\ deadline' \in [Sandboxes -> Times]
        /\ timer' \in [Sandboxes -> [at : Times, keys : SUBSET Keys]]
    BY <1>1, <1>2, <1>3, <2>2, TrackingTyped DEF tracking, WorldTyped
  <2> QED
    BY <1>1, <1>2, <1>3, <1>4, <2>1, <2>3 DEF WorldTyped, host
<1> QED
  BY <1>5, <1>6, <1>7, <1>8, <1>9 DEF ProvisionStep

LEMMA LoopTyped ==
  ASSUME Typed, NEW p \in Procs,
         DeleteKill(p) \/ DeleteRemove(p) \/ RenewTrack(p) \/ RenewLabel(p)
         \/ RestoreCounts(p) \/ RestoreNext(p) \/ RestoreOrphans(p)
  PROVE  WorldTyped'
<1> DEFINE s == proc[p].s
<1>1. TypeOK /\ WorldTyped
  BY DEF Typed, TypeOK, WorldTyped, LuckTypes, LuckTypes
<1>2. proc[p] \in Threads /\ (proc[p].pc \in {"kill", "remove", "rearm", "label"} => s \in Sandboxes)
  BY Running1 DEF RestoreSteps, Typed, TypeOK
<1>3. proc[p].to \in Times /\ proc[p].counts \in [Keys -> Nat]
  BY <1>2 DEF Threads
<1> HIDE DEF s
<1>4. LuckTypes'
  <2>1. Works \/ (\E call : Fails(call))
    BY DEF DeleteKill, DeleteRemove, RenewTrack, RenewLabel, RestoreCounts, RestoreNext, RestoreOrphans
  <2> QED
    BY <1>1, <2>1, LuckTyped
<1>5. CASE DeleteKill(p) \/ DeleteRemove(p)
  <2>1. UNCHANGED <<now, sidecar, mounted, memory, up, clients>>
    BY <1>5 DEF DeleteKill, DeleteRemove
  <2>2. box' \in {box, [box EXCEPT ![s].st = "exited"], [box EXCEPT ![s] = NoBox]} /\ s \in Sandboxes
    BY <1>2, <1>5 DEF DeleteKill, DeleteRemove, At, s
  <2>3. box' \in [Sandboxes -> Boxes]
    BY <1>1, <1>3, <2>2, BoxTyped DEF WorldTyped
  <2> QED
    BY <1>1, <1>4, <2>1, <2>3 DEF WorldTyped, memory, tracking, clients
<1>6. CASE RenewTrack(p)
  <2>1. UNCHANGED <<now, host, refs, up, clients>> /\ s \in Sandboxes /\ ScheduleExpiration(s, proc[p].to, TRUE, {})
    BY <1>2, <1>6 DEF RenewTrack, s, At
  <2>2. /\ deadline' \in [Sandboxes -> Times]
        /\ timer' \in [Sandboxes -> [at : Times, keys : SUBSET Keys]]
    BY <1>1, <1>3, <2>1, TrackingTyped
  <2> QED
    BY <1>1, <1>4, <2>1, <2>2 DEF WorldTyped, host, clients
<1>7. CASE RenewLabel(p)
  <2>1. UNCHANGED <<now, sidecar, mounted, memory, up, spec, used, created, deleted>> /\ s \in Sandboxes
    BY <1>2, <1>7 DEF RenewLabel, At, s
  <2>2. box' \in {box, [box EXCEPT ![s].label = proc[p].to]} /\ promised' = [promised EXCEPT ![s] = proc[p].to]
    BY <1>7 DEF RenewLabel, s
  <2>3. box' \in [Sandboxes -> Boxes]
    BY <1>1, <1>3, <2>1, <2>2, BoxTyped DEF WorldTyped
  <2> QED
    BY <1>1, <1>3, <1>4, <2>1, <2>2, <2>3 DEF WorldTyped, memory, tracking
<1>8. CASE RestoreCounts(p)
  BY <1>1, <1>3, <1>4, <1>8 DEF RestoreCounts, WorldTyped, host, tracking, clients
<1>9. CASE RestoreNext(p)
  <2>1. UNCHANGED <<now, host, memory, up, clients>>
    BY <1>9 DEF RestoreNext
  <2> QED
    BY <1>1, <1>4, <2>1 DEF WorldTyped, host, memory, tracking, clients
<1>10. CASE RestoreOrphans(p)
  <2>1. UNCHANGED <<now, box, mounted, memory, up, clients>> /\ sidecar' \subseteq sidecar
    BY <1>10 DEF RestoreOrphans
  <2> QED
    BY <1>1, <1>4, <2>1 DEF WorldTyped, memory, tracking, clients
<1> QED
  BY <1>5, <1>6, <1>7, <1>8, <1>9, <1>10

LEMMA EndTyped ==
  ASSUME Typed, NEW p \in Procs, EndStep(p)
  PROVE  WorldTyped' /\ used' = used
<1> DEFINE s == proc[p].s
<1>1. TypeOK /\ WorldTyped
  BY DEF Typed, TypeOK, WorldTyped, LuckTypes, LuckTypes
<1>2. proc[p] \in Threads /\ s \in Sandboxes /\ proc[p].keys \in SUBSET Keys
  <2>1. proc[p].pc \in {"untrack", "sidecar", "release", "unmount"}
    BY EndLeads
  <2> QED
    BY <2>1, Running1 DEF RestoreSteps, Threads
<1> HIDE DEF s
<1>4. LuckTypes'
  <2>1. Works \/ (\E call : Fails(call))
    BY DEF EndStep, Untrack, CleanupSidecar, ReleaseMount, Unmount, UnmountHangs, Finish
  <2> QED
    BY <1>1, <2>1, LuckTyped
<1>5. CASE Untrack(p)
  <2>1. UNCHANGED <<now, host, refs, up, clients>> /\ RemoveTracking(s)
    BY <1>5 DEF Untrack, s
  <2>2. /\ deadline' \in [Sandboxes -> Times]
        /\ timer' \in [Sandboxes -> [at : Times, keys : SUBSET Keys]]
    BY <1>1, <1>2, <2>1, TrackingTyped, TimesTyped
  <2> QED
    BY <1>1, <1>4, <2>1, <2>2 DEF WorldTyped, host, clients
<1>6. CASE CleanupSidecar(p)
  <2>1. UNCHANGED <<now, box, mounted, memory, up, clients>> /\ sidecar' \subseteq sidecar
    BY <1>6 DEF CleanupSidecar
  <2> QED
    BY <1>1, <1>4, <2>1 DEF WorldTyped, memory, tracking, clients
<1>7. CASE ReleaseMount(p)
  <2>1. PICK k \in proc[p].keys : refs' = IF refs[k] > 0 THEN [refs EXCEPT ![k] = @ - 1] ELSE refs
    BY <1>7 DEF ReleaseMount
  <2>2. UNCHANGED <<now, host, tracking, up, clients>>
    BY <1>7 DEF ReleaseMount
  <2>3. refs' \in [Keys -> Nat]
    BY <1>1, <1>2, <2>1 DEF WorldTyped
  <2> QED
    BY <1>1, <1>4, <2>2, <2>3 DEF WorldTyped, host, tracking, clients
<1>8. CASE Unmount(p)
  <2>1. UNCHANGED <<now, box, sidecar, memory, up, clients>> /\ mounted' \subseteq mounted
    BY <1>8 DEF Unmount
  <2> QED
    BY <1>1, <1>4, <2>1 DEF WorldTyped, memory, tracking, clients
<1>9. CASE UnmountHangs(p)
  <2>1. UNCHANGED <<now, host, clients>> /\ (Dies \/ UNCHANGED <<up, memory>>)
    BY <1>9 DEF UnmountHangs, Abandons
  <2>2. CASE Dies
    <3>1. /\ deadline' \in [Sandboxes -> Times]
          /\ timer' \in [Sandboxes -> [at : Times, keys : SUBSET Keys]]
          /\ refs' \in [Keys -> Nat] /\ up' \in BOOLEAN
      BY <2>2, TimesTyped DEF Dies
    <3> QED
      BY <1>1, <1>4, <2>1, <3>1 DEF WorldTyped, host, clients
  <2>3. CASE UNCHANGED <<up, memory>>
    BY <1>1, <1>4, <2>1, <2>3 DEF WorldTyped, host, memory, tracking, clients
  <2> QED
    BY <2>1, <2>2, <2>3
<1>10. CASE Finish(p)
  <2>1. UNCHANGED <<now, host, memory, up, spec, used, created, promised>> /\ deleted' \in {deleted, deleted \cup {s}}
    BY <1>10 DEF Finish, s
  <2> QED
    BY <1>1, <1>2, <1>4, <2>1 DEF WorldTyped, host, memory, tracking
<1> QED
  BY <1>5, <1>6, <1>7, <1>8, <1>9, <1>10 DEF EndStep

LEMMA ExpireTyped ==
  ASSUME Typed, NEW p \in Procs, ExpireStep(p)
  PROVE  WorldTyped'
<1> DEFINE s == proc[p].s
<1>1. TypeOK /\ WorldTyped
  BY DEF Typed, TypeOK, WorldTyped, LuckTypes, LuckTypes
<1>2. proc[p] \in Threads /\ s \in Sandboxes /\ proc[p].keys \in SUBSET Keys
  <2>1. proc[p].pc \in {"lookup", "retry", "rearm", "deadline", "expireKill", "expireRemove"}
    BY DEF ExpireStep, ExpireLookup, RetryLook, Rearm, ReadDeadline, ExpireKill, ExpireRemove, At
  <2> QED
    BY <2>1, Running1 DEF RestoreSteps, Threads
<1> HIDE DEF s
<1>3. UNCHANGED <<now, up, refs, clients>> /\ sidecar' = sidecar /\ mounted' = mounted
  BY DEF ExpireStep, ExpireLookup, RetryLook, Rearm, ReadDeadline, ExpireKill, ExpireRemove, memory, host
<1>4. LuckTypes'
  <2>1. CASE ~Rearm(p)
    <3>1. Works \/ (\E call : Fails(call))
      BY <2>1 DEF ExpireStep, ExpireLookup, RetryLook, ReadDeadline, ExpireKill, ExpireRemove
    <3> QED
      BY <1>1, <3>1, LuckTyped
  <2>2. CASE Rearm(p)
    BY <1>1, <1>2, <2>2 DEF Rearm, TypeOK, LuckTypes, s
  <2> QED
    BY <2>1, <2>2
<1>5. box' \in [Sandboxes -> Boxes]
  <2>1. box' \in {box, [box EXCEPT ![s].st = "exited"], [box EXCEPT ![s] = NoBox]}
    BY DEF ExpireStep, ExpireLookup, RetryLook, Rearm, ReadDeadline, ExpireKill, ExpireRemove, host, s
  <2> QED
    BY <1>1, <1>2, <2>1, BoxTyped, TimesTyped DEF WorldTyped
<1>6. /\ deadline' \in [Sandboxes -> Times]
      /\ timer' \in [Sandboxes -> [at : Times, keys : SUBSET Keys]]
  <2>1. \/ UNCHANGED tracking
        \/ RemoveTracking(s)
        \/ ScheduleExpiration(s, IF now < MaxTime THEN now + 1 ELSE now, FALSE, proc[p].keys)
    BY DEF ExpireStep, ExpireLookup, RetryLook, Rearm, ReadDeadline, ExpireKill, ExpireRemove, memory, s
  <2>2. (IF now < MaxTime THEN now + 1 ELSE now) \in Times
    BY <1>1, BoundsAssumption DEF WorldTyped, Times
  <2> QED
    BY <1>1, <1>2, <2>1, <2>2, TrackingTyped, TimesTyped DEF WorldTyped, tracking
<1> QED
  BY <1>1, <1>3, <1>4, <1>5, <1>6 DEF WorldTyped, clients

\* The steps that begin an operation.
LEMMA BeginTyped ==
  ASSUME Typed, NEW p \in Procs, NEW t \in Threads, Become(p, t), Turn(p, t), up' = up, up, WorldTyped'
  PROVE  Typed'
<1>1. proc' \in [Procs -> Threads] /\ Turns'
  BY TurnMoves
<1> QED
  BY <1>1 DEF Typed, TypeOK, WorldTyped, LuckTypes, LuckTypes

LEMMA StepTyped ==
  ASSUME Typed, NEW p \in Procs, Step(p)
  PROVE  Typed'
<1>1. WorldTyped' /\ used' = used
  BY ProvisionTyped, LoopTyped, EndTyped, ExpireTyped, ProvisionLeads, LoopLeads, ExpireLeads
     DEF Step, LoopStep, clients
<1>2. CASE Leads(p) /\ up /\ up'
  <2>1. PICK t \in Threads : Become(p, t) /\ Turn(p, t)
    BY <1>2 DEF Leads
  <2> QED
    BY <1>1, <1>2, <2>1, BeginTyped
<1>3. CASE Dies
  <2>1. proc' \in [Procs -> Threads] /\ Turns'
    BY <1>3, IdleTyped, IdleTurn DEF Dies, Turns
  <2> QED
    BY <1>1, <2>1 DEF Typed, TypeOK, WorldTyped, LuckTypes, LuckTypes
<1>4. proc[p].pc # "idle"
  BY DEF Step, LoopStep, ProvisionStep, EndStep, ExpireStep,
    PrepareMount, MountsPrepared, StartEgress, CreateContainer, StartContainer, UndoContainer, UndoEgress,
    TrackCreated, DeleteKill, DeleteRemove, RenewTrack, RenewLabel, RestoreCounts, RestoreNext, RestoreOrphans,
    Untrack, CleanupSidecar, ReleaseMount, Unmount, UnmountHangs, Finish,
    ExpireLookup, RetryLook, Rearm, ReadDeadline, ExpireKill, ExpireRemove, At
<1>5. up
  BY <1>4, Running1
<1>6. Leads(p) /\ ~Dies => up'
  <2>1. CASE EndStep(p)
    BY <1>5, <2>1 DEF EndStep, Untrack, CleanupSidecar, ReleaseMount, Unmount, UnmountHangs, Abandons, Finish, Dies
  <2>2. CASE ~EndStep(p)
    BY <1>5, <2>2, ProvisionLeads, LoopLeads, ExpireLeads DEF Step, LoopStep
  <2> QED
    BY <2>1, <2>2
<1>7. Leads(p) \/ Dies
  BY ProvisionLeads, LoopLeads, EndLeads, ExpireLeads DEF Step, LoopStep
<1> QED
  BY <1>2, <1>3, <1>5, <1>6, <1>7

\* A break ends what the thread was doing; of the world it takes at most what
\* the call was about, or changes a label.
LEMMA BreakMoves ==
  ASSUME Typed, NEW p \in Procs, ConnectionBreaks(p)
  PROVE  /\ Abandons(p) /\ Fails("connection") /\ UNCHANGED <<now, mounted, clients>> /\ up
         /\ proc[p] \in Threads /\ Turn(p, proc[p]) /\ proc[p].op # "idle"
         /\ sidecar' \subseteq sidecar
         /\ \/ box' = box
            \/ /\ proc[p].s \in Sandboxes /\ Expiring(proc[p])
               /\ \/ box' = [box EXCEPT ![proc[p].s].st = "exited"] /\ Running(proc[p].s)
                  \/ box' = [box EXCEPT ![proc[p].s] = NoBox]
            \/ /\ proc[p].s \in Sandboxes /\ proc[p].op = "renew" /\ Present(proc[p].s)
               /\ box' = [box EXCEPT ![proc[p].s].label = proc[p].to]
<1> DEFINE s == proc[p].s
<1>1. proc[p].pc \in {"lookup", "expireKill", "expireRemove", "label", "sidecar", "undoEgress", "orphans"}
  BY DEF ConnectionBreaks, At
<1>2. /\ up /\ proc[p] \in Threads /\ Turn(p, proc[p]) /\ proc[p].op # "idle"
      /\ proc[p].pc # "orphans" => s \in Sandboxes
  BY <1>1, Running1 DEF RestoreSteps
<1>3. /\ proc[p].pc \in {"expireKill", "expireRemove"} => Expiring(proc[p])
      /\ proc[p].pc = "label" => proc[p].op = "renew"
  BY <1>2 DEF Turn, Threads, Ops, Expiring, CreateSteps, DeleteSteps, RenewSteps, ExpireSteps, RestoreSteps
<1>4. Abandons(p) /\ Fails("connection") /\ UNCHANGED <<now, mounted, clients>>
  BY DEF ConnectionBreaks
<1>5. sidecar' \subseteq sidecar
  BY DEF ConnectionBreaks
<1>6. \/ box' = box
      \/ At(p, "expireKill") /\ box' = (IF Running(s) THEN [box EXCEPT ![s].st = "exited"] ELSE box)
      \/ At(p, "expireRemove") /\ box' = [box EXCEPT ![s] = NoBox]
      \/ At(p, "label") /\ box' = (IF Present(s) THEN [box EXCEPT ![s].label = proc[p].to] ELSE box)
  BY DEF ConnectionBreaks
<1> HIDE DEF s
<1>7. \/ box' = box
      \/ /\ s \in Sandboxes /\ Expiring(proc[p])
         /\ \/ box' = [box EXCEPT ![s].st = "exited"] /\ Running(s)
            \/ box' = [box EXCEPT ![s] = NoBox]
      \/ /\ s \in Sandboxes /\ proc[p].op = "renew" /\ Present(s)
         /\ box' = [box EXCEPT ![s].label = proc[p].to]
  BY <1>2, <1>3, <1>6 DEF At
<1> QED
  BY <1>2, <1>4, <1>5, <1>7 DEF s

LEMMA BreakTyped ==
  ASSUME Typed, NEW p \in Procs, ConnectionBreaks(p)
  PROVE  Typed'
<1>1. TypeOK /\ WorldTyped
  BY DEF Typed, TypeOK, WorldTyped, LuckTypes
<1>2. Abandons(p) /\ UNCHANGED <<now, mounted, clients>> /\ up /\ sidecar' \subseteq sidecar /\ LuckTypes'
  BY <1>1, BreakMoves, LuckTyped
<1>3. box' \in [Sandboxes -> Boxes]
  <2>1. proc[p].to \in Times /\ (box' = box \/ proc[p].s \in Sandboxes)
    BY BreakMoves DEF Threads
  <2>2. box' \in {box, [box EXCEPT ![proc[p].s] = NoBox], [box EXCEPT ![proc[p].s].st = "exited"],
                  [box EXCEPT ![proc[p].s].label = proc[p].to]}
    BY BreakMoves
  <2> QED
    BY <1>1, <2>1, <2>2, BoxTyped DEF WorldTyped
<1>4. CASE Dies
  <2>1. proc' \in [Procs -> Threads] /\ Turns'
    BY <1>4, IdleTyped, IdleTurn DEF Dies, Turns
  <2>2. /\ deadline' \in [Sandboxes -> Times]
        /\ timer' \in [Sandboxes -> [at : Times, keys : SUBSET Keys]]
        /\ refs' \in [Keys -> Nat] /\ up' \in BOOLEAN
    BY <1>4, TimesTyped DEF Dies
  <2> QED
    BY <1>1, <1>2, <1>3, <2>1, <2>2 DEF Typed, TypeOK, WorldTyped, LuckTypes, clients
<1>5. CASE Become(p, Idle) /\ UNCHANGED <<up, memory>>
  <2>1. WorldTyped'
    BY <1>1, <1>2, <1>3, <1>5 DEF WorldTyped, memory, tracking, clients
  <2> QED
    BY <1>2, <1>5, <2>1, IdleTyped, IdleTurn, BeginTyped
<1> QED
  BY <1>2, <1>4, <1>5 DEF Abandons

LEMMA RequestTyped ==
  ASSUME Typed, Create \/ Delete \/ Renew
  PROVE  Typed'
<1>0. Loop \in Procs /\ up /\ up' = up /\ WorldTyped /\ proc[Loop] = Idle
  BY DEF Procs, Create, Delete, Renew, Serving, Typed, TypeOK, WorldTyped, LuckTypes
<1>1. CASE Create
  <2>1. PICK s \in Sandboxes \ used, shape \in Requests, d \in Times :
          /\ used' = used \cup {s} /\ spec' = [spec EXCEPT ![s] = shape]
          /\ Become(Loop, [Idle EXCEPT !.op = "create", !.pc = "mount", !.s = s,
                                      !.keys = shape.keys, !.to = d])
    BY <1>1 DEF Create
  <2> DEFINE t == [Idle EXCEPT !.op = "create", !.pc = "mount", !.s = s, !.keys = shape.keys, !.to = d]
  <2>2. shape \in Shapes
    BY RequestsAssumption
  <2>3. t \in Threads
    BY <2>2, IdleTyped DEF Threads, Ops, Steps, Shapes
  <2>4. Turn(Loop, t)
    BY <2>1, IdleTyped DEF Turn, CreateSteps, RestoreSteps
  <2>5. WorldTyped'
    BY <1>0, <1>1, <2>1, <2>2 DEF Create, WorldTyped, LuckTypes, host, memory, tracking, Works, luck
  <2> QED
    BY <1>0, <2>1, <2>3, <2>4, <2>5, BeginTyped
<1>2. CASE Delete
  <2>1. PICK s \in Sandboxes :
          /\ Present(s)
          /\ Become(Loop, [Idle EXCEPT !.op = "delete", !.pc = "kill", !.s = s, !.keys = spec[s].keys])
    BY <1>2 DEF Delete
  <2>2. UNCHANGED <<now, host, memory, up, clients, luck>>
    BY <1>2 DEF Delete, Works
  <2> DEFINE t == [Idle EXCEPT !.op = "delete", !.pc = "kill", !.s = s, !.keys = spec[s].keys]
  <2>3. spec[s].keys \in SUBSET Keys
    BY <1>0 DEF WorldTyped, Shapes
  <2>4. t \in Threads
    BY <2>3, IdleTyped DEF Threads, Ops, Steps
  <2>5. Turn(Loop, t)
    BY IdleTyped DEF Turn, DeleteSteps, RestoreSteps
  <2>6. WorldTyped'
    BY <1>0, <2>2 DEF WorldTyped, LuckTypes, host, memory, tracking, clients, luck
  <2> QED
    BY <1>0, <2>1, <2>4, <2>5, <2>6, BeginTyped
<1>3. CASE Renew
  <2>1. PICK s \in Sandboxes, d \in Times :
          Become(Loop, [Idle EXCEPT !.op = "renew", !.pc = "rearm", !.s = s, !.to = d])
    BY <1>3 DEF Renew
  <2>2. UNCHANGED <<now, host, memory, up, clients, luck>>
    BY <1>3 DEF Renew, Works
  <2> DEFINE t == [Idle EXCEPT !.op = "renew", !.pc = "rearm", !.s = s, !.to = d]
  <2>4. t \in Threads
    BY IdleTyped DEF Threads, Ops, Steps
  <2>5. Turn(Loop, t)
    BY IdleTyped DEF Turn, RenewSteps, RestoreSteps
  <2>6. WorldTyped'
    BY <1>0, <2>2 DEF WorldTyped, LuckTypes, host, memory, tracking, clients, luck
  <2> QED
    BY <1>0, <2>1, <2>4, <2>5, <2>6, BeginTyped
<1> QED
  BY <1>1, <1>2, <1>3

LEMMA FireTyped ==
  ASSUME Typed, NEW p \in Timers, Fire(p)
  PROVE  Typed'
<1>1. PICK s \in Sandboxes :
        /\ timer' = [timer EXCEPT ![s] = NoTimer]
        /\ Become(p, [Idle EXCEPT !.op = "expire", !.pc = "lookup", !.s = s, !.keys = timer[s].keys])
  BY DEF Fire
<1> DEFINE t == [Idle EXCEPT !.op = "expire", !.pc = "lookup", !.s = s, !.keys = timer[s].keys]
<1>2. p \in Procs /\ p # Loop /\ up /\ up' = up /\ WorldTyped
  BY LoopAssumption DEF Procs, Fire, Typed, TypeOK, WorldTyped, LuckTypes
<1>3. timer[s].keys \in SUBSET Keys
  BY <1>2 DEF WorldTyped
<1>4. t \in Threads
  BY <1>3, IdleTyped DEF Threads, Ops, Steps
<1>5. Turn(p, t)
  BY <1>2, IdleTyped DEF Turn, ExpireSteps, RestoreSteps
<1>6. UNCHANGED <<now, host, deadline, refs, up, clients, luck>>
  BY DEF Fire, Works
<1>7. WorldTyped'
  BY <1>1, <1>2, <1>6, TimesTyped DEF WorldTyped, LuckTypes, host, clients, luck
<1> QED
  BY <1>1, <1>2, <1>4, <1>5, <1>7, BeginTyped

LEMMA ServerTyped ==
  ASSUME Typed, Crash \/ Restart
  PROVE  Typed'
<1>1. WorldTyped /\ TypeOK
  BY DEF Typed, TypeOK, WorldTyped, LuckTypes, LuckTypes
<1>2. LuckTypes'
  BY <1>1, LuckTyped DEF Crash, Restart
<1>3. CASE Crash
  <2>1. UNCHANGED <<now, host, clients>> /\ Dies
    BY <1>3 DEF Crash
  <2>2. proc' \in [Procs -> Threads] /\ Turns'
    BY <2>1, IdleTyped, IdleTurn DEF Dies, Turns
  <2>3. /\ deadline' \in [Sandboxes -> Times]
        /\ timer' \in [Sandboxes -> [at : Times, keys : SUBSET Keys]]
        /\ refs' \in [Keys -> Nat] /\ up' \in BOOLEAN
    BY <2>1, TimesTyped DEF Dies
  <2> QED
    BY <1>1, <1>2, <2>1, <2>2, <2>3 DEF Typed, TypeOK, WorldTyped, LuckTypes, host, clients
<1>4. CASE Restart
  <2>1. UNCHANGED <<now, host, refs, clients>> /\ up' = TRUE /\ ~up /\ Loop \in Procs
    BY <1>4 DEF Restart, Procs
  <2>2. proc = [q \in Procs |-> Idle]
    BY <2>1 DEF Typed, TypeOK, Turns
  <2>3. CASE UNCHANGED <<tracking, proc>>
    <3>1. proc' \in [Procs -> Threads] /\ Turns'
      BY <2>1, <2>2, <2>3, IdleTyped, IdleTurn DEF Turns
    <3> QED
      BY <1>1, <1>2, <2>1, <2>3, <3>1 DEF Typed, TypeOK, WorldTyped, LuckTypes, host, clients, tracking
  <2>4. CASE ~UNCHANGED <<tracking, proc>>
    <3> DEFINE counts == [k \in Keys |-> Cardinality(Holders(k))]
               todo == {s \in Sandboxes : Overdue(s)}
               t == [Idle EXCEPT !.op = "restore", !.pc = "counts", !.todo = todo, !.counts = counts]
    <3>1. /\ timer' = [s \in Sandboxes |-> IF Present(s) /\ box[s].label > now
                                           THEN [at |-> box[s].label, keys |-> {}] ELSE NoTimer]
          /\ deadline' = [s \in Sandboxes |-> IF Present(s) /\ box[s].label > now THEN box[s].label ELSE 0]
          /\ Become(Loop, t)
      BY <1>4, <2>4 DEF Restart
    <3>2. counts \in [Keys -> Nat] /\ todo \in SUBSET Sandboxes
      BY HoldersFinite
    <3> HIDE DEF counts, todo
    <3>3. t \in Threads
      BY <3>2, IdleTyped DEF Threads, Ops, Steps
    <3>4. Turn(Loop, t)
      BY <3>2, IdleTyped DEF Turn, RestoreSteps
    <3>5. proc' \in [Procs -> Threads] /\ Turns'
      BY <2>1, <3>1, <3>3, <3>4, TurnMoves
    <3>6. /\ deadline' \in [Sandboxes -> Times]
          /\ timer' \in [Sandboxes -> [at : Times, keys : SUBSET Keys]]
      <4>1. \A s \in Sandboxes : box[s].label \in Times
        BY <1>1 DEF WorldTyped, Boxes
      <4> QED
        BY <3>1, <4>1, TimesTyped
    <3> QED
      BY <1>1, <1>2, <2>1, <3>5, <3>6 DEF Typed, TypeOK, WorldTyped, LuckTypes, host, clients
  <2> QED
    BY <2>3, <2>4
<1> QED
  BY <1>3, <1>4

LEMMA AroundTyped ==
  ASSUME Typed, Pause \/ Resume \/ Exit \/ Tick
  PROVE  Typed'
<1>1. WorldTyped
  BY DEF Typed, TypeOK, WorldTyped, LuckTypes, LuckTypes
<1>2. UNCHANGED <<sidecar, mounted, memory, up, proc, clients, luck>>
  BY DEF Pause, Resume, Exit, Tick, Works, host
<1>3. now' \in Times
  BY <1>1, BoundsAssumption DEF Pause, Resume, Exit, Tick, WorldTyped, Times
<1>4. box' \in [Sandboxes -> Boxes]
  <2>1. box' = box \/ \E s \in Sandboxes : box' \in {[box EXCEPT ![s].st = "running"],
            [box EXCEPT ![s].st = "exited"], [box EXCEPT ![s].st = "paused"]}
    BY DEF Pause, Resume, Exit, Tick, host
  <2> QED
    BY <1>1, <2>1, BoxTyped, TimesTyped DEF WorldTyped
<1>5. Turns'
  BY <1>2 DEF Typed, Turns, Turn, memory, clients
<1> QED
  BY <1>1, <1>2, <1>3, <1>4, <1>5 DEF Typed, TypeOK, WorldTyped, LuckTypes, memory, tracking, clients, luck

LEMMA InitTyped == Init => Typed
BY IdleTyped, IdleTurn, TimesTyped DEF Init, Typed, TypeOK, Turns, Boxes, NoBox, NoTimer, NoShape, Shapes

LEMMA NextTyped == Typed /\ [Next]_vars => Typed'
<1> SUFFICES ASSUME Typed, [Next]_vars PROVE Typed'
  OBVIOUS
<1>1. CASE Next
  BY <1>1, RequestTyped, StepTyped, BreakTyped, FireTyped, ServerTyped, AroundTyped DEF Next
<1>2. CASE UNCHANGED vars
  BY <1>2 DEF vars, host, memory, tracking, clients, luck, Typed, TypeOK, Turns, Turn
<1> QED
  BY <1>1, <1>2

\* The types hold, and every thread is at a step of its operation.
THEOREM TypeCorrect == Spec => []TypeOK
<1>1. Typed => TypeOK
  BY DEF Typed
<1> QED
  BY <1>1, InitTyped, NextTyped, PTL DEF Spec

-----------------------------------------------------------------------------
(* What one step of a thread leaves alone.                                 *)

Same(r) ==
  /\ box'[r] = box[r] /\ deadline'[r] = deadline[r] /\ timer'[r] = timer[r]
  /\ r \in sidecar' <=> r \in sidecar
  /\ r \in deleted' <=> r \in deleted

\* A step is about the thread's own sandbox, but for the sweep of the sidecars and
\* the death of the server.
LEMMA StepLocal ==
  ASSUME Typed, NEW p \in Procs, Step(p), ~Dies, ~RestoreOrphans(p)
  PROVE  \A r \in Sandboxes : r # proc[p].s => Same(r)
<1> SUFFICES ASSUME NEW r \in Sandboxes, r # proc[p].s PROVE Same(r)
  OBVIOUS
<1>1. /\ box \in [Sandboxes -> Boxes] /\ DOMAIN deadline = Sandboxes /\ DOMAIN timer = Sandboxes
  BY DEF Typed, TypeOK
<1>2. CASE ProvisionStep(p)
  <2>1. deleted' = deleted
    BY <1>2, ProvisionLeads
  <2>2. deadline'[r] = deadline[r] /\ timer'[r] = timer[r]
    <3>1. CASE TrackCreated(p)
      BY <1>1, <3>1 DEF TrackCreated, ScheduleExpiration, tracking
    <3>2. CASE ~TrackCreated(p)
      BY <1>2, <3>2 DEF ProvisionStep, PrepareMount, MountsPrepared, StartEgress, CreateContainer,
        StartContainer, UndoContainer, UndoEgress, tracking, memory
    <3> QED
      BY <3>1, <3>2
  <2>3. box'[r] = box[r]
    BY <1>1, <1>2 DEF ProvisionStep, PrepareMount, MountsPrepared, StartEgress, CreateContainer,
      StartContainer, UndoContainer, UndoEgress, TrackCreated, host
  <2>4. r \in sidecar' <=> r \in sidecar
    BY <1>2 DEF ProvisionStep, PrepareMount, MountsPrepared, StartEgress, CreateContainer,
      StartContainer, UndoContainer, UndoEgress, TrackCreated, host
  <2> QED
    BY <2>1, <2>2, <2>3, <2>4 DEF Same
<1>3. CASE DeleteKill(p) \/ DeleteRemove(p) \/ RenewTrack(p) \/ RenewLabel(p)
           \/ RestoreCounts(p) \/ RestoreNext(p)
  <2>1. deleted' = deleted
    BY <1>3, LoopLeads
  <2>2. deadline'[r] = deadline[r] /\ timer'[r] = timer[r]
    BY <1>1, <1>3 DEF DeleteKill, DeleteRemove, RenewTrack, RenewLabel, RestoreCounts, RestoreNext,
       ScheduleExpiration, tracking, memory
  <2>3. box'[r] = box[r]
    BY <1>1, <1>3 DEF DeleteKill, DeleteRemove, RenewTrack, RenewLabel, RestoreCounts, RestoreNext, host
  <2>4. r \in sidecar' <=> r \in sidecar
    BY <1>3 DEF DeleteKill, DeleteRemove, RenewTrack, RenewLabel, RestoreCounts, RestoreNext, host
  <2> QED
    BY <2>1, <2>2, <2>3, <2>4 DEF Same
<1>4. CASE EndStep(p)
  <2>1. r \in deleted' <=> r \in deleted
    BY <1>4 DEF EndStep, Untrack, CleanupSidecar, ReleaseMount, Unmount, UnmountHangs, Finish, clients
  <2>2. deadline'[r] = deadline[r] /\ timer'[r] = timer[r]
    <3>1. ~(proc[p].op = "restore" /\ UnmountHangs(p))
      BY DEF UnmountHangs, Abandons
    <3> QED
      BY <1>1, <1>4, <3>1 DEF EndStep, Untrack, CleanupSidecar, ReleaseMount, Unmount, UnmountHangs, Abandons, Finish,
       RemoveTracking, tracking, memory
  <2>3. box' = box
    BY <1>4 DEF EndStep, Untrack, CleanupSidecar, ReleaseMount, Unmount, UnmountHangs, Finish, host
  <2>4. r \in sidecar' <=> r \in sidecar
    BY <1>4 DEF EndStep, Untrack, CleanupSidecar, ReleaseMount, Unmount, UnmountHangs, Finish, host
  <2> QED
    BY <2>1, <2>2, <2>3, <2>4 DEF Same
<1>5. CASE ExpireStep(p)
  <2>1. deleted' = deleted
    BY <1>5, ExpireLeads DEF clients
  <2>2. deadline'[r] = deadline[r] /\ timer'[r] = timer[r]
    BY <1>1, <1>5 DEF ExpireStep, ExpireLookup, RetryLook, Rearm, ReadDeadline, ExpireKill, ExpireRemove,
       RemoveTracking, ScheduleExpiration, tracking, memory
  <2>3. box'[r] = box[r]
    BY <1>1, <1>5 DEF ExpireStep, ExpireLookup, RetryLook, Rearm, ReadDeadline, ExpireKill, ExpireRemove, host
  <2>4. sidecar' = sidecar
    BY <1>5 DEF ExpireStep, ExpireLookup, RetryLook, Rearm, ReadDeadline, ExpireKill, ExpireRemove, host
  <2> QED
    BY <2>1, <2>2, <2>3, <2>4 DEF Same
<1> QED
  BY <1>2, <1>3, <1>4, <1>5 DEF Step, LoopStep

\* A thread of its own, and the restore while it expires, never makes anything.
LEMMA ExpiringWeak ==
  ASSUME Typed, NEW p \in Procs, Step(p), p # Loop
  PROVE  /\ ExpireStep(p) \/ EndStep(p)
         /\ proc[p].op = "expire" /\ deleted' = deleted /\ sidecar' \subseteq sidecar /\ ~Dies
         /\ \A r \in Sandboxes : box'[r].st # "none" => box[r].st # "none" /\ box'[r].label = box[r].label
<1>1. ~ProvisionStep(p)
  <2>1. ProvisionStep(p) => proc[p].op = "create"
    BY ProvisionLeads
  <2> QED
    BY <2>1 DEF Typed, Turns, Turn
<1>2. ExpireStep(p) \/ EndStep(p)
  BY <1>1, LoopLeads DEF Step, LoopStep
<1>3. proc[p].op = "expire"
  <2>1. proc[p].op # "idle"
    BY <1>2, EndLeads, ExpireLeads DEF Expiring
  <2> QED
    BY <2>1 DEF Typed, Turns, Turn
<1>4. box \in [Sandboxes -> Boxes]
  BY DEF Typed, TypeOK
<1>5. CASE ExpireStep(p)
  <2>1. \A r \in Sandboxes : box'[r].st # "none" => box[r].st # "none" /\ box'[r].label = box[r].label
    <3>1. \/ box' = box
          \/ box' = [box EXCEPT ![proc[p].s] = NoBox]
          \/ Running(proc[p].s) /\ box' = [box EXCEPT ![proc[p].s].st = "exited"]
      <4>1. CASE ExpireKill(p)
        BY <4>1 DEF ExpireKill
      <4>2. CASE ~ExpireKill(p)
        BY <1>5, <4>2 DEF ExpireStep, ExpireLookup, RetryLook, Rearm, ReadDeadline, ExpireRemove, host
      <4> QED
        BY <4>1, <4>2
    <3> QED
      BY <1>4, <3>1 DEF NoBox, Running, Boxes
  <2>2. deleted' = deleted /\ sidecar' = sidecar /\ up' = up
    BY <1>5 DEF ExpireStep, ExpireLookup, RetryLook, Rearm, ReadDeadline, ExpireKill, ExpireRemove, host, clients, memory
  <2>3. up
    BY <1>3, IdleTyped DEF Typed, Turns
  <2> QED
    BY <1>2, <1>3, <2>1, <2>2, <2>3 DEF Dies
<1>6. CASE EndStep(p)
  <2>1. box' = box /\ sidecar' \subseteq sidecar /\ deleted' = deleted
    BY <1>3, <1>6 DEF EndStep, Untrack, CleanupSidecar, ReleaseMount, Unmount, UnmountHangs, Finish, host, clients
  <2>2. up' = up
    BY <1>3, <1>6 DEF EndStep, Untrack, CleanupSidecar, ReleaseMount, Unmount, UnmountHangs, Abandons, Finish
  <2>3. up
    BY <1>3, IdleTyped DEF Typed, Turns
  <2> QED
    BY <1>2, <1>3, <2>1, <2>2, <2>3 DEF Dies
<1> QED
  BY <1>2, <1>5, <1>6

\* What stays of a thread that goes on with the same operation.
SameJob(p) ==
  /\ proc'[p].op = proc[p].op /\ proc'[p].s = proc[p].s /\ proc'[p].to = proc[p].to
  /\ proc'[p].todo = proc[p].todo

LEMMA GotoMoves ==
  ASSUME TypeOK, NEW p \in Procs, NEW step, Goto(p, step)
  PROVE  /\ Others(p) /\ SameJob(p) /\ proc'[p].pc = step /\ proc'[p].keys = proc[p].keys
         /\ proc'[p].held = proc[p].held /\ proc'[p].key = proc[p].key
         /\ proc'[p].flag = proc[p].flag /\ proc'[p].counts = proc[p].counts
<1> DEFINE t == [proc[p] EXCEPT !.pc = step]
<1>1. Others(p) /\ proc'[p] = t
  BY BecomeMoves DEF Goto
<1>2. proc[p] \in Threads
  BY DEF TypeOK
<1> QED
  BY <1>1, <1>2 DEF Threads, SameJob

LEMMA ReleaseMoves ==
  ASSUME TypeOK, NEW p \in Procs, NEW keys, Become(p, [proc[p] EXCEPT !.pc = "release", !.keys = keys])
  PROVE  /\ Others(p) /\ SameJob(p) /\ proc'[p].pc = "release" /\ proc'[p].keys = keys
         /\ proc'[p].held = proc[p].held /\ proc'[p].key = proc[p].key
         /\ proc'[p].flag = proc[p].flag /\ proc'[p].counts = proc[p].counts
<1> DEFINE t == [proc[p] EXCEPT !.pc = "release", !.keys = keys]
<1>1. Others(p) /\ proc'[p] = t
  BY BecomeMoves
<1>2. proc[p] \in Threads
  BY DEF TypeOK
<1> QED
  BY <1>1, <1>2 DEF Threads, SameJob

LEMMA PrepareMoves ==
  ASSUME TypeOK, NEW p \in Procs, NEW k,
         Become(p, [proc[p] EXCEPT !.keys = @ \ {k}, !.held = @ \cup {k}])
  PROVE  /\ Others(p) /\ SameJob(p) /\ proc'[p].pc = proc[p].pc /\ proc'[p].keys = proc[p].keys \ {k}
         /\ proc'[p].held = proc[p].held \cup {k} /\ proc'[p].key = proc[p].key
         /\ proc'[p].flag = proc[p].flag /\ proc'[p].counts = proc[p].counts
<1> DEFINE t == [proc[p] EXCEPT !.keys = @ \ {k}, !.held = @ \cup {k}]
<1>1. Others(p) /\ proc'[p] = t
  BY BecomeMoves
<1>2. proc[p] \in Threads
  BY DEF TypeOK
<1> QED
  BY <1>1, <1>2 DEF Threads, SameJob

\* Where a thread's last steps take it.
LEMMA EndMoves ==
  ASSUME Typed, NEW p \in Procs, EndStep(p), ~Dies
  PROVE  /\ Others(p)
         /\ Untrack(p) => SameJob(p) /\ proc'[p].pc = "sidecar" /\ proc'[p].flag = proc[p].flag
                          /\ proc'[p].keys = proc[p].keys
         /\ CleanupSidecar(p) => SameJob(p) /\ proc'[p].pc = "release" /\ proc'[p].flag = proc[p].flag
                                 /\ proc'[p].keys = proc[p].keys
         /\ ReleaseMount(p) =>
              /\ SameJob(p) /\ proc'[p].flag = proc[p].flag
              /\ \E k \in proc[p].keys :
                   /\ refs' = [refs EXCEPT ![k] = IF refs[k] > 0 THEN @ - 1 ELSE @]
                   /\ proc'[p].keys = proc[p].keys \ {k}
                   /\ IF refs[k] = 1 THEN proc'[p].pc = "unmount" /\ proc'[p].key = k
                                     ELSE proc'[p].pc = "release"
         /\ Unmount(p) => SameJob(p) /\ proc'[p].pc = "release" /\ proc'[p].flag = proc[p].flag
                          /\ proc'[p].keys = proc[p].keys
         /\ UnmountHangs(p) => proc'[p] = Idle /\ proc[p].op # "restore"
         /\ Finish(p) => IF proc[p].op = "restore"
                           THEN /\ proc'[p].op = "restore" /\ proc'[p].pc = "next" /\ proc'[p].s = NoSandbox
                                /\ proc'[p].todo = proc[p].todo /\ proc'[p].to = proc[p].to
                                /\ proc'[p].keys = proc[p].keys
                           ELSE proc'[p] = Idle
<1> DEFINE T == proc[p]
<1>1. T \in Threads /\ TypeOK
  BY DEF Typed, TypeOK
<1>2. CASE Untrack(p)
  <2>1. Goto(p, "sidecar") /\ T.pc = "untrack"
    BY <1>2 DEF Untrack, At
  <2> QED
    BY <1>1, <2>1, GotoMoves DEF CleanupSidecar, ReleaseMount, Unmount, UnmountHangs, Finish, At
<1>3. CASE CleanupSidecar(p)
  <2>1. Goto(p, "release") /\ T.pc = "sidecar"
    BY <1>3 DEF CleanupSidecar, At
  <2> QED
    BY <1>1, <2>1, GotoMoves DEF Untrack, ReleaseMount, Unmount, UnmountHangs, Finish, At
<1>4. CASE ReleaseMount(p)
  <2>1. PICK k \in T.keys :
         /\ refs' = IF refs[k] > 0 THEN [refs EXCEPT ![k] = @ - 1] ELSE refs
         /\ Become(p, IF refs[k] = 1 THEN [T EXCEPT !.keys = @ \ {k}, !.pc = "unmount", !.key = k]
                                     ELSE [T EXCEPT !.keys = @ \ {k}])
    BY <1>4 DEF ReleaseMount
  <2> DEFINE t == [T EXCEPT !.keys = @ \ {k}, !.pc = "unmount", !.key = k]
             u == [T EXCEPT !.keys = @ \ {k}]
  <2>2. Others(p) /\ proc'[p] = IF refs[k] = 1 THEN t ELSE u
    BY <1>1, <2>1, BecomeMoves
  <2>3. /\ t.op = T.op /\ t.s = T.s /\ t.todo = T.todo /\ t.to = T.to /\ t.flag = T.flag /\ t.pc = "unmount"
        /\ t.keys = T.keys \ {k} /\ t.key = k
        /\ u.op = T.op /\ u.s = T.s /\ u.todo = T.todo /\ u.to = T.to /\ u.flag = T.flag /\ u.pc = T.pc
        /\ u.keys = T.keys \ {k}
    BY <1>1 DEF Threads
  <2>4. T.pc = "release" /\ T.keys # {}
    BY <1>4 DEF ReleaseMount, At
  <2>5. refs' = [refs EXCEPT ![k] = IF refs[k] > 0 THEN @ - 1 ELSE @]
    BY <1>1, <2>1 DEF TypeOK
  <2> HIDE DEF t, u
  <2>6. ~Untrack(p) /\ ~CleanupSidecar(p) /\ ~Unmount(p) /\ ~UnmountHangs(p) /\ ~Finish(p)
    BY <2>4 DEF Untrack, CleanupSidecar, Unmount, UnmountHangs, Finish, At
  <2>7. SameJob(p)
    BY <2>2, <2>3 DEF SameJob
  <2> QED
    BY <2>2, <2>3, <2>4, <2>5, <2>6, <2>7
<1>5. CASE Unmount(p) \/ UnmountHangs(p)
  <2>1. T.pc = "unmount"
    BY <1>5 DEF Unmount, UnmountHangs, At
  <2>2. ~Untrack(p) /\ ~CleanupSidecar(p) /\ ~ReleaseMount(p) /\ ~Finish(p)
    BY <2>1 DEF Untrack, CleanupSidecar, ReleaseMount, Finish, At
  <2> DEFINE t == [T EXCEPT !.pc = "release", !.key = NoKey]
  <2>3. /\ Unmount(p) => Become(p, t)
        /\ UnmountHangs(p) => Become(p, Idle) /\ T.op # "restore"
    BY DEF Unmount, UnmountHangs, Abandons
  <2>4. Others(p) /\ (Unmount(p) => proc'[p] = t) /\ (UnmountHangs(p) => proc'[p] = Idle /\ T.op # "restore")
    BY <1>1, <1>5, <2>3, BecomeMoves
  <2>5. /\ t.op = T.op /\ t.s = T.s /\ t.todo = T.todo /\ t.to = T.to /\ t.flag = T.flag /\ t.pc = "release"
        /\ t.keys = T.keys
    BY <1>1 DEF Threads
  <2> HIDE DEF t
  <2> QED
    BY <2>2, <2>4, <2>5 DEF SameJob
<1>6. CASE Finish(p)
  <2>1. T.pc = "release" /\ T.keys = {}
    BY <1>6 DEF Finish, At
  <2>2. ~Untrack(p) /\ ~CleanupSidecar(p) /\ ~ReleaseMount(p) /\ ~Unmount(p) /\ ~UnmountHangs(p)
    BY <2>1 DEF Untrack, CleanupSidecar, ReleaseMount, Unmount, UnmountHangs, At
  <2> DEFINE t == [T EXCEPT !.pc = "next", !.s = NoSandbox, !.flag = FALSE]
  <2>3. Become(p, IF T.op = "restore" THEN t ELSE Idle)
    BY <1>6 DEF Finish
  <2>4. Others(p) /\ proc'[p] = IF T.op = "restore" THEN t ELSE Idle
    BY <1>1, <2>3, BecomeMoves
  <2>5. t.op = T.op /\ t.pc = "next" /\ t.s = NoSandbox /\ t.todo = T.todo /\ t.to = T.to /\ t.keys = T.keys
    BY <1>1 DEF Threads
  <2> HIDE DEF t
  <2> QED
    BY <2>2, <2>4, <2>5
<1> QED
  BY <1>2, <1>3, <1>4, <1>5, <1>6 DEF EndStep

\* And where the steps of an expiration do.
LEMMA ExpireMoves ==
  ASSUME Typed, NEW p \in Procs, ExpireStep(p)
  PROVE  /\ Others(p) /\ SameJob(p)
         /\ proc'[p].keys \in {proc[p].keys, {}} \/ (proc[p].pc = "lookup" /\ proc'[p].keys = spec[proc[p].s].keys)
         /\ ExpireLookup(p) =>
              \/ Present(proc[p].s) /\ proc'[p].pc = "deadline"
              \/ ~Present(proc[p].s) /\ proc'[p].pc = "release"
              \/ Fails("list")
         /\ ReadDeadline(p) => IF Renewed(proc[p].s) THEN proc'[p].pc = "release"
                                                     ELSE proc'[p].pc = "expireKill"
         /\ ExpireKill(p) => proc'[p].pc = "expireRemove"
         /\ ExpireRemove(p) => proc'[p].pc = "untrack"
         /\ proc'[p].pc \in {"deadline", "release", "retry", "rearm", "expireKill", "expireRemove", "untrack"}
<1> DEFINE T == proc[p]
           s == T.s
           t == [T EXCEPT !.pc = "deadline", !.keys = spec[s].keys, !.flag = Running(s)]
           u == [T EXCEPT !.pc = "untrack", !.flag = FALSE]
<1>1. T \in Threads /\ TypeOK
  BY DEF Typed, TypeOK
<1>2. /\ Become(p, t) => Others(p) /\ proc'[p] = t
      /\ Become(p, u) => Others(p) /\ proc'[p] = u
  BY <1>1, BecomeMoves
<1>3. /\ t.op = T.op /\ t.s = T.s /\ t.todo = T.todo /\ t.to = T.to /\ t.pc = "deadline" /\ t.keys = spec[s].keys
      /\ u.op = T.op /\ u.s = T.s /\ u.todo = T.todo /\ u.to = T.to /\ u.pc = "untrack" /\ u.keys = T.keys
  BY <1>1 DEF Threads
<1>4. /\ \A step : Goto(p, step) => Others(p) /\ SameJob(p) /\ proc'[p].pc = step /\ proc'[p].keys = T.keys
      /\ Dismissed(p) => Others(p) /\ SameJob(p) /\ proc'[p].pc = "release" /\ proc'[p].keys = {}
  BY <1>1, GotoMoves, ReleaseMoves DEF Dismissed
<1>5. /\ ExpireLookup(p) => T.pc = "lookup" /\ ((Present(s) /\ Become(p, t)) \/ (~Present(s) /\ Goto(p, "release"))
                                                 \/ (Fails("list") /\ Goto(p, "retry")))
      /\ RetryLook(p) => T.pc = "retry" /\ (Dismissed(p) \/ Goto(p, "rearm"))
      /\ Rearm(p) => T.pc = "rearm" /\ Dismissed(p)
      /\ ReadDeadline(p) => T.pc = "deadline" /\ IF Renewed(s) THEN Dismissed(p) ELSE Goto(p, "expireKill")
      /\ ExpireKill(p) => T.pc = "expireKill" /\ Goto(p, "expireRemove")
      /\ ExpireRemove(p) => T.pc = "expireRemove" /\ Become(p, u)
  BY DEF ExpireLookup, RetryLook, Rearm, ReadDeadline, ExpireKill, ExpireRemove, At
<1> HIDE DEF t, u
<1>6. CASE ExpireLookup(p)
  BY <1>2, <1>3, <1>4, <1>5, <1>6 DEF SameJob
<1>7. CASE RetryLook(p)
  BY <1>4, <1>5, <1>7
<1>8. CASE Rearm(p)
  BY <1>4, <1>5, <1>8
<1>9. CASE ReadDeadline(p)
  BY <1>4, <1>5, <1>9
<1>10. CASE ExpireKill(p)
  BY <1>4, <1>5, <1>10
<1>11. CASE ExpireRemove(p)
  BY <1>2, <1>3, <1>4, <1>5, <1>11 DEF SameJob
<1> QED
  BY <1>6, <1>7, <1>8, <1>9, <1>10, <1>11 DEF ExpireStep

-----------------------------------------------------------------------------
(* Which sandbox is tracked, and for whom a thread works.                  *)

LEMMA StepKeeps ==
  ASSUME Typed, NEW p \in Procs, Step(p)
  PROVE  /\ now' = now /\ spec' = spec /\ used' = used /\ failed \subseteq failed' /\ astray \subseteq astray'
         /\ proc[p] \in Threads /\ Turn(p, proc[p]) /\ proc[p].op # "idle" /\ up
<1>1. CASE ProvisionStep(p)
  <2>1. failed \subseteq failed' /\ astray \subseteq astray'
    BY <1>1 DEF ProvisionStep, PrepareMount, MountsPrepared, StartEgress, CreateContainer,
      StartContainer, UndoContainer, UndoEgress, TrackCreated, Works, Fails, Loses, luck
  <2> QED
    BY <1>1, <2>1, ProvisionLeads, IdleTyped DEF Typed, TypeOK, Turns
<1>2. CASE DeleteKill(p) \/ DeleteRemove(p) \/ RenewTrack(p) \/ RenewLabel(p)
         \/ RestoreCounts(p) \/ RestoreNext(p) \/ RestoreOrphans(p)
  <2>1. failed \subseteq failed' /\ astray \subseteq astray'
    BY <1>2 DEF DeleteKill, DeleteRemove, RenewTrack, RenewLabel, RestoreCounts, RestoreNext,
       RestoreOrphans, Works, Fails, luck
  <2>2. proc[p].pc # "idle"
    BY <1>2 DEF DeleteKill, DeleteRemove, RenewTrack, RenewLabel, RestoreCounts, RestoreNext,
       RestoreOrphans, At
  <2> QED
    BY <1>2, <2>1, <2>2, LoopLeads, Running1
<1>3. CASE EndStep(p)
  <2>1. failed \subseteq failed' /\ astray \subseteq astray' /\ now' = now /\ spec' = spec
    BY <1>3 DEF EndStep, Untrack, CleanupSidecar, ReleaseMount, Unmount, UnmountHangs, Finish,
      Works, Fails, luck, clients
  <2> QED
    BY <1>3, <2>1, EndLeads, EndTyped, Running1
<1>4. CASE ExpireStep(p)
  <2>1. failed \subseteq failed' /\ astray \subseteq astray'
    BY <1>4 DEF ExpireStep, ExpireLookup, RetryLook, Rearm, ReadDeadline, ExpireKill, ExpireRemove,
      Works, Fails, luck
  <2> QED
    BY <1>4, <2>1, ExpireLeads, IdleTyped DEF Typed, TypeOK, Turns, Expiring, clients
<1> QED
  BY <1>1, <1>2, <1>3, <1>4 DEF Step, LoopStep

LEMMA IdleNamed == Named(Idle)
BY IdleTyped DEF Named

\* The other sandboxes and the other threads.
LEMMA OthersKnown ==
  ASSUME Typed, Identified, NEW p \in Procs, Step(p), ~Dies, ~RestoreOrphans(p)
  PROVE  \A r \in Sandboxes : r # proc[p].s => Known(r)'
<1> SUFFICES ASSUME NEW r \in Sandboxes, r # proc[p].s PROVE Known(r)'
  OBVIOUS
<1>1. Same(r) /\ Known(r) /\ spec' = spec /\ used' = used
  BY StepLocal, StepKeeps DEF Identified
<1> QED
  BY <1>1 DEF Same, Known, Present

LEMMA OthersNamed ==
  ASSUME Typed, Identified, NEW p \in Procs, Step(p), ~Dies, Others(p),
         NEW q \in Procs, q # p, proc'[p].s \in {proc[p].s, NoSandbox} \/ p = Loop
  PROVE  Named(proc[q])'
<1>1. proc'[q] = proc[q] /\ Named(proc[q]) /\ spec' = spec /\ used' = used
  BY StepKeeps DEF Others, Identified
<1>2. CASE q # Loop
  <2>1. proc[q].op \in {"idle", "expire"}
    BY <1>2 DEF Typed, Turns, Turn
  <2> QED
    BY <1>1, <2>1 DEF Named
<1>3. CASE q = Loop
  <2> DEFINE r == proc[q].s
  <2>1. p # Loop /\ p \in Timers
    BY <1>3 DEF Procs
  <2>2. deleted' = deleted /\ (Present(r)' => Present(r) \/ r \notin Sandboxes)
    BY <1>1, <2>1, ExpiringWeak DEF Present
  <2>3. proc[q].op \in {"create", "delete"} => r \in Sandboxes
    BY DEF Typed, Turns, Turn, RestoreSteps, CreateSteps, DeleteSteps
  <2>4. CASE proc[q].op = "create"
    <3>1. r # proc[p].s
      BY <1>1, <2>1, <2>4 DEF Named, Begun
    <3>2. Same(r)
      <4>1. ~RestoreOrphans(p)
        BY <2>1, LoopLeads
      <4> QED
        BY <2>3, <2>4, <3>1, <4>1, StepLocal
    <3>3. \A x \in Timers : proc'[x].s # r
      <4>1. \A x \in Timers : x # p => proc'[x].s = proc[x].s
        BY DEF Others, Procs
      <4>2. proc[p].s # r /\ NoSandbox # r
        BY <2>3, <2>4, <3>1, SandboxesAssumption
      <4> QED
        BY <1>1, <2>1, <2>4, <4>1, <4>2 DEF Named, Begun
    <3>4. Begun(proc[q])'
      BY <1>1, <2>4, <3>2, <3>3 DEF Named, Begun, Same, Present
    <3> QED
      BY <1>1, <2>4, <3>4 DEF Named
  <2>5. CASE proc[q].op # "create"
    BY <1>1, <2>2, <2>3, <2>5 DEF Named
  <2> QED
    BY <2>4, <2>5
<1> QED
  BY <1>2, <1>3

\* The thread's own sandbox.
LEMMA ProvisionKnown ==
  ASSUME Typed, Identified, NEW p \in Procs, ProvisionStep(p), NEW s, s = proc[p].s
  PROVE  Known(s)' /\ Named(proc[p])'
<1> DEFINE T == proc[p]
<1>1. /\ T \in Threads /\ Turn(p, T) /\ T.op = "create" /\ s \in Sandboxes /\ s \in used
      /\ Known(s) /\ Named(T) /\ Begun(T)
  <2>1. T.op = "create" /\ T \in Threads /\ Turn(p, T)
    BY ProvisionLeads DEF Typed, Turns, TypeOK
  <2>2. s \in Sandboxes
    BY <2>1 DEF Turn, CreateSteps, RestoreSteps
  <2> QED
    BY <2>1, <2>2, SandboxesAssumption DEF Identified, Named
<1>2. UNCHANGED <<now, up, spec, used, deleted>> /\ p = Loop
  BY <1>1, ProvisionLeads DEF Turn
<1>3. Others(p) /\ proc'[p] \in Threads /\ (\A q \in Timers : proc'[q] = proc[q])
  <2>1. PICK t \in Threads : Become(p, t)
    BY ProvisionLeads DEF Leads
  <2>2. Others(p) /\ proc'[p] = t
    BY <2>1, BecomeMoves DEF Typed
  <2> QED
    BY <1>2, <2>2, LoopAssumption DEF Others, Procs
<1>4. box \in [Sandboxes -> Boxes] /\ deadline \in [Sandboxes -> Times] /\ DOMAIN timer = Sandboxes
  BY DEF Typed, TypeOK
<1>5. ASSUME SameJob(p),
             Known(s)', UNCHANGED <<deadline, timer>>,
             proc'[p].pc = "egress" => spec[s].policy,
             proc'[p].pc \in {"mount", "egress", "container"} => box'[s].st = "none",
             proc'[p].pc \in {"mount", "egress"} => s \notin sidecar',
             proc'[p].pc \in {"start", "undo", "track"} => box'[s].st # "none"
      PROVE  Named(proc[p])'
  <2>1. Begun(proc[p])'
    BY <1>1, <1>2, <1>3, <1>5 DEF Begun, Present, SameJob
  <2> QED
    BY <1>1, <1>2, <1>5, <2>1 DEF Named, SameJob
<1>6. CASE PrepareMount(p) \/ MountsPrepared(p)
  <2>1. UNCHANGED <<box, sidecar, deadline, timer>>
    BY <1>6 DEF PrepareMount, MountsPrepared, host, memory, tracking
  <2>2. T.pc = "mount"
    BY <1>6 DEF PrepareMount, MountsPrepared, At
  <2>3. /\ SameJob(p)
        /\ \/ proc'[p].pc \in {"mount", "release", "container"}
           \/ proc'[p].pc = "egress" /\ spec[s].policy
    <3>1. \/ \E k \in T.keys : Become(p, [T EXCEPT !.keys = @ \ {k}, !.held = @ \cup {k}])
          \/ Become(p, [T EXCEPT !.pc = "release", !.keys = T.held])
          \/ spec[s].policy /\ Goto(p, "egress")
          \/ Goto(p, "container")
      BY <1>6 DEF PrepareMount, MountsPrepared
    <3> QED
      BY <1>1, <2>2, <3>1, GotoMoves, ReleaseMoves, PrepareMoves DEF Typed
  <2>4. Known(s)'
    BY <1>1, <1>2, <2>1, <2>3 DEF Known, Present
  <2> QED
    BY <1>1, <1>5, <2>1, <2>2, <2>3, <2>4 DEF Begun, Present
<1>7. CASE StartEgress(p)
  <2>1. UNCHANGED <<box, deadline, timer>> /\ sidecar' \in {sidecar, sidecar \cup {s}}
    BY <1>7 DEF StartEgress, memory, tracking
  <2>2. T.pc = "egress"
    BY <1>7 DEF StartEgress, At
  <2>3. /\ SameJob(p)
        /\ proc'[p].pc \in {"container", "release"}
    <3>1. Goto(p, "container") \/ Become(p, [T EXCEPT !.pc = "release", !.keys = T.held])
      BY <1>7 DEF StartEgress
    <3> QED
      BY <1>1, <3>1, GotoMoves, ReleaseMoves DEF Typed
  <2>4. Known(s)'
    BY <1>1, <1>2, <2>1, <2>2, <2>3 DEF Known, Present, Begun
  <2> QED
    BY <1>1, <1>5, <2>1, <2>2, <2>3, <2>4 DEF Begun, Present
<1>8. CASE CreateContainer(p)
  <2>1. UNCHANGED <<sidecar, deadline, timer>>
    BY <1>8 DEF CreateContainer, memory, tracking
  <2>2. /\ SameJob(p)
        /\ \/ proc'[p].pc \in {"start", "undoEgress"} /\ box'[s] = [st |-> "created", label |-> T.to]
           \/ proc'[p].pc = "undoEgress" /\ box' = box
    <3>1. \/ /\ Goto(p, "start") \/ Goto(p, "undoEgress")
             /\ box' = [box EXCEPT ![s] = [st |-> "created", label |-> T.to]]
          \/ Goto(p, "undoEgress") /\ box' = box
      BY <1>8 DEF CreateContainer
    <3>2. \A step : Goto(p, step) => SameJob(p) /\ proc'[p].pc = step
      BY <1>1, GotoMoves DEF Typed
    <3> QED
      BY <1>1, <1>4, <3>1, <3>2
  <2>3. Known(s)'
    BY <1>1, <1>2, <2>1, <2>2 DEF Known, Present, Begun
  <2> QED
    BY <1>1, <1>5, <2>1, <2>2, <2>3 DEF Begun, Present
<1>9. CASE StartContainer(p)
  <2>1. UNCHANGED <<sidecar, deadline, timer>> /\ T.pc = "start"
    BY <1>9 DEF StartContainer, memory, tracking, At
  <2>2. /\ SameJob(p)
        /\ proc'[p].pc \in {"track", "undo"}
        /\ box'[s].label = box[s].label /\ (box'[s].st = "running" \/ box' = box)
    BY <1>1, <1>4, <1>9, GotoMoves DEF StartContainer, Typed, Boxes
  <2>3. Known(s)'
    BY <1>1, <1>2, <2>1, <2>2 DEF Known, Present, Begun
  <2> QED
    BY <1>1, <1>5, <2>1, <2>2, <2>3 DEF Begun, Present
<1>10. CASE UndoContainer(p)
  <2>1. UNCHANGED <<sidecar, deadline, timer>>
    BY <1>10 DEF UndoContainer, memory, tracking
  <2>2. /\ SameJob(p)
        /\ proc'[p].pc = "undoEgress" /\ (box'[s] = NoBox \/ box' = box)
    BY <1>1, <1>4, <1>10, GotoMoves DEF UndoContainer, Typed
  <2>3. Known(s)'
    BY <1>1, <1>2, <2>1, <2>2 DEF Known, Present, Begun, NoBox
  <2> QED
    BY <1>1, <1>5, <2>1, <2>2, <2>3
<1>11. CASE UndoEgress(p)
  <2>1. UNCHANGED <<box, deadline, timer>> /\ sidecar' \subseteq sidecar
    BY <1>11 DEF UndoEgress, memory, tracking
  <2>2. /\ SameJob(p)
        /\ proc'[p].pc = "release"
    <3>1. Become(p, [T EXCEPT !.pc = "release", !.keys = T.held])
      BY <1>11 DEF UndoEgress
    <3> QED
      BY <1>1, <3>1, ReleaseMoves DEF Typed
  <2>3. Known(s)'
    BY <1>1, <1>2, <2>1, <2>2 DEF Known, Present
  <2> QED
    BY <1>1, <1>5, <2>1, <2>2, <2>3
<1>12. CASE TrackCreated(p)
  <2>1. UNCHANGED <<box, sidecar>>
    BY <1>12 DEF TrackCreated, host
  <2>2. proc'[p] = Idle
    BY <1>12, BecomeMoves DEF TrackCreated, Typed
  <2>3. IF spec[s].timed THEN timer'[s] = [at |-> T.to, keys |-> {}] /\ deadline'[s] = T.to
                         ELSE UNCHANGED tracking
    BY <1>1, <1>4, <1>12 DEF TrackCreated, ScheduleExpiration
  <2>4. spec[s].timed => T.to # 0
    BY <1>1 DEF Begun
  <2>5. /\ deadline'[s] # 0 => spec[s].timed
        /\ timer'[s] # NoTimer => spec[s].timed /\ timer'[s].at # 0
    BY <1>1, <2>3, <2>4 DEF tracking, Known, Begun
  <2>6. Known(s)'
    BY <1>1, <1>2, <2>1, <2>5 DEF Known, Present
  <2> QED
    BY <2>2, <2>6, IdleTyped DEF Named
<1> QED
  BY <1>6, <1>7, <1>8, <1>9, <1>10, <1>11, <1>12 DEF ProvisionStep

LEMMA LoopKnown ==
  ASSUME Typed, Identified, NEW p \in Procs,
         DeleteKill(p) \/ DeleteRemove(p) \/ RenewTrack(p) \/ RenewLabel(p)
         \/ RestoreCounts(p) \/ RestoreNext(p) \/ RestoreOrphans(p),
         NEW s, s = proc[p].s
  PROVE  (s \in Sandboxes => Known(s)') /\ Named(proc[p])'
<1> DEFINE T == proc[p]
<1>1. /\ T \in Threads /\ Turn(p, T) /\ Named(T) /\ TypeOK
      /\ s \in Sandboxes => s \in used /\ Known(s)
      /\ T.op \notin {"create", "idle"}
      /\ T.op = "renew" => spec[s].timed /\ T.to # 0
  <2>1. T.pc # "idle" /\ T.pc \notin CreateSteps
    BY DEF DeleteKill, DeleteRemove, RenewTrack, RenewLabel, RestoreCounts, RestoreNext, RestoreOrphans, At, CreateSteps
  <2>2. T \in Threads /\ Turn(p, T) /\ T.op \notin {"create", "idle"}
    BY <2>1, Running1 DEF Turn
  <2> QED
    BY <2>2, SandboxesAssumption DEF Identified, Named, Typed, Turn, RenewSteps, RestoreSteps
<1>2. UNCHANGED <<now, up, spec, used, deleted>> /\ p = Loop
  BY LoopLeads
<1>4. box \in [Sandboxes -> Boxes] /\ deadline \in [Sandboxes -> Times] /\ DOMAIN timer = Sandboxes
  BY DEF Typed, TypeOK
<1>5. ASSUME SameJob(p), T.op = "delete" /\ proc'[p].flag => box'[s].st = "none"
      PROVE  Named(proc[p])'
  BY <1>1, <1>2, <1>5 DEF SameJob, Named, Present
<1>6. CASE DeleteKill(p)
  <2>0. T.op = "delete" /\ s \in Sandboxes
    BY <1>1, <1>6 DEF DeleteKill, At, Turn, RenewSteps, ExpireSteps, RestoreSteps, Threads, Ops
  <2>1. /\ SameJob(p) /\ proc'[p].flag = T.flag
        /\ T.op = "delete" /\ s \in Sandboxes
    BY <1>1, <1>6, <2>0, GotoMoves DEF DeleteKill
  <2>2. /\ box'[s].label = box[s].label /\ (box'[s].st # "none" <=> box[s].st # "none")
        /\ UNCHANGED <<deadline, timer, sidecar>>
    BY <1>1, <1>4, <1>6, <2>1 DEF DeleteKill, Running, memory, tracking, Boxes
  <2>3. Known(s)'
    BY <1>1, <1>2, <2>1, <2>2 DEF Known, Present
  <2> QED
    BY <1>1, <1>5, <2>1, <2>2, <2>3 DEF Named, Present
<1>7. CASE DeleteRemove(p)
  <2> DEFINE t == [T EXCEPT !.pc = "untrack", !.flag = TRUE]
  <2>1. T.op = "delete" /\ s \in Sandboxes
    BY <1>1, <1>7 DEF DeleteRemove, At, Turn, RenewSteps, ExpireSteps, RestoreSteps, Threads, Ops
  <2>2. \/ (Become(p, t) \/ Goto(p, "untrack")) /\ box' = [box EXCEPT ![s] = NoBox]
        \/ Goto(p, "untrack") /\ box' = box
    BY <1>7 DEF DeleteRemove
  <2>3. SameJob(p) /\ (box'[s].st = "none" \/ (box' = box /\ proc'[p].flag = T.flag))
    <3>1. t.op = T.op /\ t.s = T.s /\ t.to = T.to /\ t.todo = T.todo
      BY <1>1 DEF Threads
    <3>2. Become(p, t) => proc'[p] = t
      BY <1>1, BecomeMoves
    <3> HIDE DEF t
    <3>3. NoBox.st = "none"
      BY DEF NoBox
    <3>4. CASE Become(p, t) /\ box' = [box EXCEPT ![s] = NoBox]
      BY <1>4, <2>1, <3>1, <3>2, <3>3, <3>4 DEF SameJob
    <3>5. CASE Goto(p, "untrack") /\ box' \in {box, [box EXCEPT ![s] = NoBox]}
      <4>1. SameJob(p) /\ proc'[p].flag = T.flag
        BY <1>1, <3>5, GotoMoves
      <4> QED
        BY <1>4, <2>1, <3>3, <3>5, <4>1
    <3> QED
      BY <2>2, <3>4, <3>5
  <2>4. UNCHANGED <<deadline, timer, sidecar>>
    BY <1>7 DEF DeleteRemove, memory, tracking
  <2>5. Known(s)'
    BY <1>1, <1>2, <2>1, <2>3, <2>4 DEF Known, Present
  <2> QED
    BY <1>1, <1>5, <2>1, <2>3, <2>5 DEF Named, Present
<1>8. CASE RenewTrack(p)
  <2>1. SameJob(p) /\ T.op = "renew" /\ s \in Sandboxes
    BY <1>1, <1>8, GotoMoves DEF RenewTrack, Turn, RenewSteps, RestoreSteps
  <2>2. /\ timer'[s] = [at |-> T.to, keys |-> {}] /\ deadline'[s] = T.to
        /\ UNCHANGED <<box, sidecar>>
    BY <1>1, <1>4, <1>8, <2>1 DEF RenewTrack, ScheduleExpiration, host
  <2>3. timer'[s].at # 0
    BY <1>1, <2>1, <2>2
  <2>4. Known(s)'
    BY <1>1, <1>2, <2>1, <2>2, <2>3 DEF Known, Present
  <2> QED
    BY <1>1, <1>5, <2>1, <2>4
<1>9. CASE RenewLabel(p)
  <2>0. T.op = "renew" /\ s \in Sandboxes
    BY <1>1, <1>9 DEF RenewLabel, At, Turn, DeleteSteps, ExpireSteps, RestoreSteps, Threads, Ops
  <2>1. proc'[p] = Idle /\ T.op = "renew" /\ s \in Sandboxes
    BY <1>1, <1>9, <2>0, BecomeMoves DEF RenewLabel
  <2>2. /\ box'[s].st = box[s].st /\ (box'[s].label = T.to \/ box'[s].label = box[s].label)
        /\ UNCHANGED <<deadline, timer, sidecar>>
    BY <1>1, <1>4, <1>9, <2>1 DEF RenewLabel, memory, tracking, Boxes
  <2>3. Known(s)'
    BY <1>1, <1>2, <2>1, <2>2 DEF Known, Present
  <2> QED
    BY <2>1, <2>3, IdleTyped DEF Named
<1>10. CASE RestoreCounts(p)
  <2> DEFINE t == [T EXCEPT !.pc = "next", !.counts = Idle.counts]
  <2>1. proc'[p] = t /\ T.pc = "counts"
    BY <1>1, <1>10, BecomeMoves DEF RestoreCounts, At
  <2>2. SameJob(p) /\ T.op = "restore" /\ s \notin Sandboxes
    BY <1>1, <2>1, SandboxesAssumption DEF Threads, SameJob, Turn, DeleteSteps, RenewSteps, ExpireSteps, RestoreSteps, Ops
  <2> QED
    BY <1>1, <1>5, <2>2
<1>11. CASE RestoreNext(p)
  <2>1. T.pc = "next"
    BY <1>11 DEF RestoreNext, At
  <2>2. T.op = "restore" /\ s \notin Sandboxes
    BY <1>1, <2>1, SandboxesAssumption DEF Threads, Turn, DeleteSteps, RenewSteps, ExpireSteps, RestoreSteps, Ops
  <2>3. CASE Goto(p, "orphans")
    BY <1>1, <1>5, <2>2, <2>3, GotoMoves
  <2>4. CASE ~Goto(p, "orphans")
    <3>1. PICK r \in T.todo : Become(p, [T EXCEPT !.pc = "lookup", !.s = r, !.keys = spec[r].keys,
                                             !.todo = @ \ {r}])
      BY <1>11, <2>4 DEF RestoreNext
    <3> DEFINE t == [T EXCEPT !.pc = "lookup", !.s = r, !.keys = spec[r].keys, !.todo = @ \ {r}]
    <3>2. proc'[p] = t
      BY <1>1, <3>1, BecomeMoves
    <3>3. proc'[p].op = "restore" /\ proc'[p].s = r /\ proc'[p].todo = T.todo \ {r} /\ proc'[p].to = T.to
      BY <1>1, <2>2, <3>2 DEF Threads
    <3> QED
      BY <1>1, <1>2, <2>2, <3>3 DEF Named
  <2> QED
    BY <2>3, <2>4
<1>12. CASE RestoreOrphans(p)
  <2>1. proc'[p] = Idle /\ T.pc = "orphans" /\ sidecar' \subseteq sidecar /\ UNCHANGED <<box, deadline, timer>>
    BY <1>1, <1>12, BecomeMoves DEF RestoreOrphans, At, memory, tracking
  <2>2. s \notin Sandboxes
    BY <1>1, <2>1, SandboxesAssumption DEF Threads, Turn, DeleteSteps, RenewSteps, ExpireSteps, RestoreSteps, Ops
  <2> QED
    BY <2>1, <2>2, IdleTyped DEF Named
<1> QED
  BY <1>6, <1>7, <1>8, <1>9, <1>10, <1>11, <1>12

LEMMA EndKnown ==
  ASSUME Typed, Identified, NEW p \in Procs, EndStep(p), ~Dies, NEW s, s = proc[p].s
  PROVE  Known(s)' /\ Named(proc[p])' /\ proc'[p].s \in {s, NoSandbox}
<1> DEFINE T == proc[p]
<1>1. /\ T \in Threads /\ Turn(p, T) /\ Named(T) /\ TypeOK
      /\ s \in Sandboxes /\ s \in used /\ Known(s)
      /\ T.pc \in {"untrack", "sidecar", "release", "unmount"}
      /\ T.op \in {"create", "delete", "expire", "restore"}
  <2>1. T.pc \in {"untrack", "sidecar", "release", "unmount"} /\ T.op \in {"create", "delete", "expire", "restore"}
    BY EndLeads DEF Expiring
  <2>2. T \in Threads /\ Turn(p, T) /\ s \in Sandboxes
    BY <2>1, Running1 DEF RestoreSteps
  <2> QED
    BY <2>1, <2>2, SandboxesAssumption DEF Identified, Named, Typed
<1>2. spec' = spec /\ used' = used
  BY StepKeeps DEF Step
<1>3. box \in [Sandboxes -> Boxes] /\ deadline \in [Sandboxes -> Times] /\ DOMAIN timer = Sandboxes
  BY DEF Typed, TypeOK
<1>4. box' = box /\ sidecar' \subseteq sidecar
  BY DEF EndStep, Untrack, CleanupSidecar, ReleaseMount, Unmount, UnmountHangs, Finish, host
<1>5. UNCHANGED <<deadline, timer>> \/ (Untrack(p) /\ deadline'[s] = 0 /\ timer'[s] = NoTimer)
  <2>1. CASE Untrack(p)
    BY <1>1, <1>3, <2>1 DEF Untrack, RemoveTracking
  <2>2. CASE UnmountHangs(p)
    BY <2>2 DEF UnmountHangs, Abandons, memory, tracking
  <2>3. CASE ~Untrack(p) /\ ~UnmountHangs(p)
    BY <2>3 DEF EndStep, CleanupSidecar, ReleaseMount, Unmount, Finish, memory, tracking
  <2> QED
    BY <2>1, <2>2, <2>3
<1>6. deleted' = deleted \/ (Finish(p) /\ T.op = "delete" /\ T.flag /\ deleted' = deleted \cup {s})
  BY DEF EndStep, Untrack, CleanupSidecar, ReleaseMount, Unmount, UnmountHangs, Finish, clients
<1>7. Known(s)'
  BY <1>1, <1>2, <1>4, <1>5, <1>6 DEF Known, Present, Named
<1> SUFFICES Named(proc[p])' /\ proc'[p].s \in {s, NoSandbox}
  BY <1>7
<1>8. \/ proc'[p] = Idle
      \/ /\ proc'[p].op = T.op /\ proc'[p].todo = T.todo /\ proc'[p].to = T.to
         /\ \/ proc'[p].s = s /\ proc'[p].flag = T.flag /\ proc'[p].pc \in {"sidecar", "release", "unmount"} /\ deleted' = deleted
               /\ Others(p)
            \/ T.op = "restore" /\ proc'[p].s = NoSandbox
  <2>1. T.pc = "release" \/ ~ReleaseMount(p)
    BY DEF ReleaseMount, At
  <2>2. deleted' = deleted \/ Finish(p)
    BY <1>6
  <2> QED
    BY <1>1, <2>1, <2>2, EndMoves DEF EndStep, SameJob
<1>9. CASE proc'[p] = Idle
  BY <1>9, IdleTyped DEF Named
<1>10. CASE T.op = "restore" /\ proc'[p].s = NoSandbox /\ proc'[p].op = T.op /\ proc'[p].todo = T.todo
  BY <1>1, <1>2, <1>10 DEF Named
<1>11. CASE /\ proc'[p].op = T.op /\ proc'[p].todo = T.todo /\ proc'[p].to = T.to /\ Others(p)
            /\ proc'[p].s = s /\ proc'[p].flag = T.flag /\ proc'[p].pc \in {"sidecar", "release", "unmount"} /\ deleted' = deleted
  <2>1. CASE T.op = "create"
    <3>1. \A q \in Timers : proc'[q] = proc[q]
      BY <1>1, <1>11, <2>1, LoopAssumption DEF Others, Procs, Turn
    <3>2. UNCHANGED <<deadline, timer>> \/ (deadline'[s] = 0 /\ timer'[s] = NoTimer)
      BY <1>5
    <3>3. Begun(proc[p])'
      BY <1>1, <1>2, <1>4, <1>11, <2>1, <3>1, <3>2 DEF Named, Begun
    <3> QED
      BY <1>1, <1>2, <1>11, <2>1, <3>3 DEF Named
  <2>2. CASE T.op # "create"
    BY <1>1, <1>2, <1>4, <1>11, <2>2 DEF Named, Present
  <2> QED
    BY <2>1, <2>2
<1> QED
  BY <1>8, <1>9, <1>10, <1>11

LEMMA ExpireKnown ==
  ASSUME Typed, Identified, NEW p \in Procs, ExpireStep(p), NEW s, s = proc[p].s
  PROVE  Known(s)' /\ Named(proc[p])' /\ proc'[p].s = s
<1> DEFINE T == proc[p]
<1>1. /\ T \in Threads /\ Turn(p, T) /\ Named(T) /\ TypeOK
      /\ s \in Sandboxes /\ s \in used /\ Known(s) /\ spec[s].timed
      /\ T.op \in {"expire", "restore"}
  <2>1. T.pc \in {"lookup", "retry", "rearm", "deadline", "expireKill", "expireRemove"}
    BY DEF ExpireStep, ExpireLookup, RetryLook, Rearm, ReadDeadline, ExpireKill, ExpireRemove, At
  <2>2. T.op \in {"expire", "restore"}
    BY ExpireLeads DEF Expiring
  <2>3. T \in Threads /\ Turn(p, T) /\ s \in Sandboxes
    BY <2>1, Running1 DEF RestoreSteps
  <2> QED
    BY <2>2, <2>3, SandboxesAssumption DEF Identified, Named, Typed
<1>2. spec' = spec /\ used' = used /\ deleted' = deleted
  BY ExpireLeads DEF clients
<1>3. box \in [Sandboxes -> Boxes] /\ deadline \in [Sandboxes -> Times] /\ DOMAIN timer = Sandboxes /\ now \in Nat
  BY TimesTyped DEF Typed, TypeOK
<1>4. sidecar' = sidecar
  BY DEF ExpireStep, ExpireLookup, RetryLook, Rearm, ReadDeadline, ExpireKill, ExpireRemove, host
<1>5. \/ box' = box
      \/ box' = [box EXCEPT ![s] = NoBox]
      \/ Running(s) /\ box' = [box EXCEPT ![s].st = "exited"]
  <2>1. CASE ExpireKill(p)
    BY <2>1 DEF ExpireKill
  <2>2. CASE ~ExpireKill(p)
    BY <2>2 DEF ExpireStep, ExpireLookup, RetryLook, Rearm, ReadDeadline, ExpireRemove, host
  <2> QED
    BY <2>1, <2>2
<1>6. \/ UNCHANGED <<deadline, timer>>
      \/ deadline'[s] = 0 /\ timer'[s] = NoTimer
      \/ deadline' = deadline /\ timer'[s].at # 0
  <2>1. CASE ExpireLookup(p)
    BY <1>1, <1>3, <2>1 DEF ExpireLookup, RemoveTracking, tracking
  <2>2. CASE Rearm(p)
    <3>1. timer'[s].at = IF now < MaxTime THEN now + 1 ELSE now
      BY <1>1, <1>3, <2>2 DEF Rearm, ScheduleExpiration
    <3>2. (IF now < MaxTime THEN now + 1 ELSE now) # 0
      BY <1>1, <1>3, BoundsAssumption DEF Known
    <3> QED
      BY <1>3, <3>1, <3>2, <2>2 DEF Rearm, ScheduleExpiration
  <2>3. CASE ~ExpireLookup(p) /\ ~Rearm(p)
    BY <2>3 DEF ExpireStep, RetryLook, ReadDeadline, ExpireKill, ExpireRemove, memory, tracking
  <2> QED
    BY <2>1, <2>2, <2>3
<1>7. Known(s)'
  <2>1. (box'[s].st # "none" => box[s].st # "none" /\ box'[s].label = box[s].label)
    BY <1>1, <1>3, <1>5 DEF NoBox, Running, Boxes
  <2> QED
    BY <1>1, <1>2, <1>4, <1>6, <2>1 DEF Known, Present
<1>8. proc'[p].op = T.op /\ proc'[p].s = s /\ proc'[p].todo = T.todo
  BY ExpireMoves DEF SameJob
<1>9. Named(proc[p])'
  BY <1>1, <1>2, <1>8 DEF Named
<1> QED
  BY <1>7, <1>8, <1>9

LEMMA StepIdentified ==
  ASSUME Typed, Identified, NEW p \in Procs, Step(p)
  PROVE  Identified'
<1> DEFINE T == proc[p]
<1>1. CASE Dies
  <2>1. EndStep(p)
    BY <1>1, StepKeeps, ProvisionLeads, LoopLeads, ExpireLeads DEF Dies, Step, LoopStep
  <2>2. /\ UNCHANGED <<box, sidecar, spec, used, deleted>>
        /\ \A q \in Procs : proc'[q] = Idle
        /\ \A s \in Sandboxes : deadline'[s] = 0 /\ timer'[s] = NoTimer
    <3>1. UnmountHangs(p)
      <4>1. up
        BY StepKeeps
      <4> QED
        BY <1>1, <2>1, <4>1 DEF EndStep, Untrack, CleanupSidecar, ReleaseMount, Unmount, Finish, Dies
    <3> QED
      BY <1>1, <3>1 DEF UnmountHangs, Dies, host, clients
  <2> QED
    BY <2>2, IdleTyped DEF Identified, Known, Named, Present
<1>2. CASE ~Dies
  <2>1. Others(p)
    <3>1. PICK t \in Threads : Become(p, t)
      BY <1>2, ProvisionLeads, LoopLeads, ExpireLeads, EndLeads DEF Leads, Step, LoopStep
    <3> QED
      BY <3>1, BecomeMoves DEF Typed
  <2>2. ASSUME NEW s, s = T.s PROVE (s \in Sandboxes => Known(s)') /\ Named(proc[p])'
    BY <1>2, <2>2, ProvisionKnown, LoopKnown, EndKnown, ExpireKnown DEF Step, LoopStep
  <2>3. Named(proc[p])' /\ (\A s \in Sandboxes : s = T.s => Known(s)')
    BY <2>2
  <2>4. \A s \in Sandboxes : s # T.s => Known(s)'
    <3>1. CASE RestoreOrphans(p)
      <4>1. UNCHANGED <<box, deadline, timer, spec, used, deleted>> /\ sidecar' \subseteq sidecar
        BY <3>1 DEF RestoreOrphans, memory, tracking, clients
      <4> QED
        BY <4>1 DEF Identified, Known, Present
    <3>2. CASE ~RestoreOrphans(p)
      BY <1>2, <3>2, OthersKnown
    <3> QED
      BY <3>1, <3>2
  <2>5. proc'[p].s \in {T.s, NoSandbox} \/ p = Loop
    BY <1>2, ExpiringWeak, EndKnown, ExpireKnown
  <2>6. \A q \in Procs : q # p => Named(proc[q])'
    BY <1>2, <2>1, <2>5, OthersNamed
  <2> QED
    BY <2>3, <2>4, <2>6 DEF Identified
<1> QED
  BY <1>1, <1>2

\* The connection breaks: what the thread was at is over, done or not.
LEMMA BreakIdentified ==
  ASSUME Typed, Identified, NEW p \in Procs, ConnectionBreaks(p)
  PROVE  Identified'
<1> DEFINE T == proc[p]
<1>1. /\ Abandons(p) /\ UNCHANGED <<spec, used, created, promised, deleted>>
      /\ T \in Threads /\ Turn(p, T) /\ T.op # "idle" /\ sidecar' \subseteq sidecar /\ Named(T)
  BY BreakMoves DEF clients, Identified
<1>2. box \in [Sandboxes -> Boxes]
  BY DEF Typed, TypeOK
<1>3. /\ \A s \in Sandboxes : s # T.s => box'[s] = box[s]
      /\ \A s \in Sandboxes :
           /\ box'[s].st # "none" => box[s].st # "none"
           /\ box'[s].st # "none" => (box'[s].label # 0 <=> box[s].label # 0) \/ (T.op = "renew" /\ s = T.s /\ box'[s].label = T.to)
  <2>1. CASE box' = box
    BY <2>1
  <2>2. CASE T.s \in Sandboxes /\ box' = [box EXCEPT ![T.s].st = "exited"] /\ Running(T.s)
    BY <1>2, <2>2 DEF Boxes, Running
  <2>3. CASE T.s \in Sandboxes /\ box' = [box EXCEPT ![T.s] = NoBox]
    BY <1>2, <2>3 DEF NoBox
  <2>4. CASE T.s \in Sandboxes /\ T.op = "renew" /\ Present(T.s) /\ box' = [box EXCEPT ![T.s].label = T.to]
    BY <1>2, <2>4 DEF Boxes, Present
  <2> QED
    BY <2>1, <2>2, <2>3, <2>4, BreakMoves
<1>6. ASSUME NEW s \in Sandboxes, Present(s)'
      PROVE  Present(s) /\ s \in used /\ (box'[s].label # 0 <=> spec[s].timed)
  <2>1. Present(s) /\ Known(s)
    BY <1>3, <1>6 DEF Present, Identified
  <2>2. CASE T.op = "renew" /\ s = T.s /\ box'[s].label = T.to
    <3>1. s # NoSandbox
      BY SandboxesAssumption
    <3> QED
      BY <1>1, <2>1, <2>2, <3>1 DEF Named, Known
  <2>3. CASE box'[s].label # 0 <=> box[s].label # 0
    BY <2>1, <2>3 DEF Known
  <2> QED
    BY <1>3, <1>6, <2>2, <2>3 DEF Present
<1>4. CASE Dies
  <2>1. /\ \A q \in Procs : proc'[q] = Idle
        /\ \A s \in Sandboxes : deadline'[s] = 0 /\ timer'[s] = NoTimer
    BY <1>4 DEF Dies
  <2>2. \A s \in Sandboxes : Known(s)'
    <3>1. NoTimer.at = 0
      BY DEF NoTimer
    <3> QED
      BY <1>1, <1>6, <2>1, <3>1 DEF Identified, Known, Present
  <2> QED
    BY <2>1, <2>2, IdleTyped DEF Identified, Named
<1>5. CASE Become(p, Idle) /\ UNCHANGED <<up, memory>>
  <2>1. Others(p) /\ proc'[p] = Idle /\ UNCHANGED <<deadline, timer>>
    BY <1>5, BecomeMoves DEF Typed, memory, tracking
  <2>2. \A s \in Sandboxes : Known(s)'
    BY <1>1, <1>6, <2>1 DEF Identified, Known, Present
  <2>3. ASSUME NEW q \in Procs, q # p PROVE Named(proc[q])'
    <3>1. proc'[q] = proc[q] /\ Named(proc[q]) /\ Turn(q, proc[q])
      BY <2>1, <2>3 DEF Others, Identified, Typed, Turns
    <3>2. proc[q].op \in {"create", "delete"} => proc[q].s \in Sandboxes
      BY <3>1 DEF Turn, RestoreSteps, CreateSteps, DeleteSteps
    <3>3. CASE proc[q].op = "create"
      <4>1. q = Loop /\ p \in Timers /\ proc[q].s # T.s
        <5>1. q = Loop
          BY <3>1, <3>3 DEF Turn
        <5>2. p \in Timers
          BY <2>3, <5>1 DEF Procs
        <5> QED
          BY <3>1, <3>3, <5>1, <5>2 DEF Named, Begun
      <4>2. box'[proc[q].s] = box[proc[q].s]
        BY <1>3, <3>2, <3>3, <4>1
      <4>3. \A x \in Timers : proc'[x].s # proc[q].s
        <5>1. NoSandbox # proc[q].s
          BY <3>2, <3>3, SandboxesAssumption
        <5>2. \A x \in Timers : proc'[x] = proc[x] \/ proc'[x].s = NoSandbox
          BY <2>1, IdleTyped DEF Others, Procs
        <5> QED
          BY <3>1, <3>3, <5>1, <5>2 DEF Named, Begun
      <4>4. Begun(proc[q])'
        BY <1>1, <2>1, <3>1, <3>3, <4>2, <4>3 DEF Named, Begun, Present
      <4> QED
        BY <1>1, <3>1, <3>3, <4>4 DEF Named
    <3>4. CASE proc[q].op # "create"
      BY <1>1, <1>3, <3>1, <3>2, <3>4 DEF Named, Present
    <3> QED
      BY <3>3, <3>4
  <2> QED
    BY <2>1, <2>2, <2>3, IdleNamed, IdleTyped DEF Identified, Named
<1> QED
  BY <1>1, <1>4, <1>5 DEF Abandons

LEMMA RequestIdentified ==
  ASSUME Typed, Identified, Create \/ Delete \/ Renew
  PROVE  Identified'
<1>1. /\ Loop \in Procs /\ TypeOK /\ proc[Loop] = Idle /\ up
      /\ UNCHANGED <<now, box, sidecar, deadline, timer, deleted>>
  BY DEF Procs, Typed, Create, Delete, Renew, Serving, host, memory, tracking, clients
<1>2. CASE Create
  <2>1. PICK s \in Sandboxes \ used, shape \in Requests, d \in Times :
          /\ shape.timed => d > now
          /\ ~shape.timed => d = 0
          /\ used' = used \cup {s} /\ spec' = [spec EXCEPT ![s] = shape]
          /\ Become(Loop, [Idle EXCEPT !.op = "create", !.pc = "mount", !.s = s,
                                      !.keys = shape.keys, !.to = d])
    BY <1>2 DEF Create
  <2> DEFINE t == [Idle EXCEPT !.op = "create", !.pc = "mount", !.s = s, !.keys = shape.keys, !.to = d]
  <2>2. Others(Loop) /\ proc'[Loop] = t
    BY <1>1, <2>1, BecomeMoves
  <2>3. t.op = "create" /\ t.pc = "mount" /\ t.s = s /\ t.to = d /\ t.todo = {}
    BY IdleTyped DEF Threads
  <2>4. spec'[s] = shape /\ \A r \in Sandboxes : r # s => spec'[r] = spec[r]
    BY <2>1 DEF Typed, TypeOK
  <2>5. /\ ~Present(s) /\ deadline[s] = 0 /\ timer[s] = NoTimer /\ s \notin sidecar /\ s \notin deleted
        /\ \A q \in Procs : proc[q].s # s /\ s \notin proc[q].todo
    BY SandboxesAssumption DEF Identified, Known, Named
  <2>6. d \in Nat /\ now \in Nat /\ d <= MaxTime /\ MaxTime \in Nat
    BY BoundsAssumption DEF Typed, TypeOK, Times
  <2> HIDE DEF t
  <2>7. \A r \in Sandboxes : Known(r)'
    <3>1. Known(s)'
      BY <1>1, <2>1, <2>4, <2>5, <2>6 DEF Known, Present
    <3>2. ASSUME NEW r \in Sandboxes, r # s PROVE Known(r)'
      <4>1. Known(r) /\ spec'[r] = spec[r] /\ (r \in used' <=> r \in used)
        BY <2>1, <2>4, <3>2 DEF Identified
      <4> QED
        BY <1>1, <4>1 DEF Known, Present
    <3> QED
      BY <3>1, <3>2
  <2>8. Named(proc[Loop])'
    <3>1. \A q \in Timers : proc'[q].s # s
      BY <2>2, <2>5, LoopAssumption DEF Others, Procs
    <3>2. Begun(proc[Loop])'
      BY <1>1, <2>1, <2>2, <2>3, <2>4, <2>5, <2>6, <3>1 DEF Begun, Present
    <3> QED
      BY <2>1, <2>2, <2>3, <3>2 DEF Named
  <2>9. ASSUME NEW q \in Procs, q # Loop PROVE Named(proc[q])'
    <3>1. proc'[q] = proc[q] /\ Named(proc[q]) /\ proc[q].op \in {"idle", "expire"} /\ proc[q].todo = {}
      BY <2>2, <2>9 DEF Others, Identified, Typed, Turns, Turn
    <3>2. proc[q].s # s /\ proc[q].s \in Sandboxes \cup {NoSandbox}
      BY <2>5 DEF Typed, TypeOK, Threads
    <3> QED
      BY <2>1, <2>4, <3>1, <3>2 DEF Named
  <2> QED
    BY <2>7, <2>8, <2>9 DEF Identified
<1>3. CASE Delete \/ Renew
  <2>1. UNCHANGED <<spec, used>>
    BY <1>3 DEF Delete, Renew, clients
  <2>2. \A r \in Sandboxes : Known(r)'
    BY <1>1, <2>1 DEF Identified, Known, Present
  <2>3. Others(Loop) /\ Named(proc[Loop])'
    <3>1. CASE Delete
      <4>1. PICK s \in Sandboxes :
              /\ Present(s)
              /\ Become(Loop, [Idle EXCEPT !.op = "delete", !.pc = "kill", !.s = s, !.keys = spec[s].keys])
        BY <3>1 DEF Delete
      <4> DEFINE t == [Idle EXCEPT !.op = "delete", !.pc = "kill", !.s = s, !.keys = spec[s].keys]
      <4>2. Others(Loop) /\ proc'[Loop] = t
        BY <1>1, <4>1, BecomeMoves
      <4>3. t.op = "delete" /\ t.s = s /\ t.todo = {} /\ ~t.flag
        BY IdleTyped DEF Threads
      <4> HIDE DEF t
      <4> QED
        BY <2>1, <4>1, <4>2, <4>3 DEF Named, Identified, Known
    <3>2. CASE Renew
      <4>1. PICK s \in Sandboxes, d \in Times :
              /\ Present(s) /\ box[s].label # 0 /\ d > now
              /\ Become(Loop, [Idle EXCEPT !.op = "renew", !.pc = "rearm", !.s = s, !.to = d])
        BY <3>2 DEF Renew
      <4> DEFINE t == [Idle EXCEPT !.op = "renew", !.pc = "rearm", !.s = s, !.to = d]
      <4>2. Others(Loop) /\ proc'[Loop] = t
        BY <1>1, <4>1, BecomeMoves
      <4>3. t.op = "renew" /\ t.s = s /\ t.todo = {} /\ t.to = d
        BY IdleTyped DEF Threads
      <4>4. d # 0
        BY <4>1 DEF Typed, TypeOK, Times
      <4> HIDE DEF t
      <4> QED
        BY <1>1, <2>1, <4>1, <4>2, <4>3, <4>4 DEF Named, Identified, Known
    <3> QED
      BY <1>3, <3>1, <3>2
  <2>4. ASSUME NEW q \in Procs, q # Loop PROVE Named(proc[q])'
    <3>1. proc'[q] = proc[q] /\ Named(proc[q]) /\ proc[q].op \in {"idle", "expire"}
      BY <2>3, <2>4 DEF Others, Identified, Typed, Turns, Turn
    <3> QED
      BY <2>1, <3>1 DEF Named
  <2> QED
    BY <2>2, <2>3, <2>4 DEF Identified
<1> QED
  BY <1>2, <1>3

LEMMA FireIdentified ==
  ASSUME Typed, Identified, NEW p \in Timers, Fire(p)
  PROVE  Identified'
<1>1. PICK s \in Sandboxes :
        /\ timer[s].at # 0
        /\ timer' = [timer EXCEPT ![s] = NoTimer]
        /\ Become(p, [Idle EXCEPT !.op = "expire", !.pc = "lookup", !.s = s, !.keys = timer[s].keys])
  BY DEF Fire
<1> DEFINE t == [Idle EXCEPT !.op = "expire", !.pc = "lookup", !.s = s, !.keys = timer[s].keys]
<1>2. p \in Procs /\ p # Loop /\ UNCHANGED <<now, box, sidecar, deadline, spec, used, deleted>>
  BY LoopAssumption DEF Procs, Fire, host, clients
<1>3. Others(p) /\ proc'[p] = t
  BY <1>1, <1>2, BecomeMoves DEF Typed
<1>4. t.op = "expire" /\ t.s = s /\ t.todo = {}
  BY IdleTyped DEF Threads
<1> HIDE DEF t
<1>5. timer[s] # NoTimer /\ Known(s) /\ NoTimer.at = 0
  BY <1>1 DEF NoTimer, Identified
<1>6. timer'[s] = NoTimer /\ \A r \in Sandboxes : r # s => timer'[r] = timer[r]
  BY <1>1 DEF Typed, TypeOK
<1>7. \A r \in Sandboxes : Known(r)'
  BY <1>2, <1>6 DEF Identified, Known, Present
<1>8. Named(proc[p])'
  BY <1>2, <1>3, <1>4, <1>5 DEF Named, Known
<1>9. ASSUME NEW q \in Procs, q # p PROVE Named(proc[q])'
  <2>1. proc'[q] = proc[q] /\ Named(proc[q])
    BY <1>3, <1>9 DEF Others, Identified
  <2>2. proc[q].op = "create" => Begun(proc[q])'
    <3>1. SUFFICES ASSUME proc[q].op = "create" PROVE Begun(proc[q])'
      OBVIOUS
    <3>2. Begun(proc[q]) /\ proc[q].s \in Sandboxes /\ s # proc[q].s
      BY <1>5, <2>1, <3>1 DEF Named, Begun, Typed, Turns, Turn, CreateSteps, RestoreSteps
    <3>3. \A x \in Timers : proc'[x].s # proc[q].s
      BY <1>3, <1>4, <3>2 DEF Others, Procs, Begun
    <3> QED
      BY <1>2, <1>6, <2>1, <3>2, <3>3 DEF Begun, Present
  <2> QED
    BY <1>2, <2>1, <2>2 DEF Named, Present
<1> QED
  BY <1>7, <1>8, <1>9 DEF Identified

LEMMA ServerIdentified ==
  ASSUME Typed, Identified, Crash \/ Restart
  PROVE  Identified'
<1>1. UNCHANGED <<now, box, sidecar, spec, used, deleted>> /\ TypeOK
  BY DEF Crash, Restart, host, clients, Typed
<1>2. CASE Crash
  <2>1. /\ \A q \in Procs : proc'[q] = Idle
        /\ \A s \in Sandboxes : deadline'[s] = 0 /\ timer'[s] = NoTimer
    BY <1>2 DEF Crash, Dies
  <2> QED
    BY <1>1, <2>1, IdleTyped DEF Identified, Known, Named, Present
<1>3. CASE Restart
  <2>1. CASE UNCHANGED <<tracking, proc>>
    BY <1>1, <2>1 DEF Identified, Known, Named, Present, Begun, tracking
  <2>2. CASE ~UNCHANGED <<tracking, proc>>
    <3> DEFINE counts == [k \in Keys |-> Cardinality(Holders(k))]
               todo == {s \in Sandboxes : Overdue(s)}
               t == [Idle EXCEPT !.op = "restore", !.pc = "counts", !.todo = todo, !.counts = counts]
    <3>1. /\ timer' = [s \in Sandboxes |-> IF Present(s) /\ box[s].label > now
                                           THEN [at |-> box[s].label, keys |-> {}] ELSE NoTimer]
          /\ deadline' = [s \in Sandboxes |-> IF Present(s) /\ box[s].label > now THEN box[s].label ELSE 0]
          /\ Become(Loop, t)
      BY <1>3, <2>2 DEF Restart
    <3>2. Loop \in Procs /\ now \in Nat
      BY TimesTyped DEF Procs, Typed, TypeOK
    <3>3. Others(Loop) /\ proc'[Loop] = t
      BY <1>1, <3>1, <3>2, BecomeMoves
    <3>4. t.op = "restore" /\ t.s = NoSandbox /\ t.todo = todo
      BY IdleTyped DEF Threads
    <3> HIDE DEF t
    <3>5. \A s \in todo : s \in used /\ spec[s].timed
      BY <3>2 DEF Overdue, Identified, Known
    <3>6. Named(proc[Loop])'
      BY <1>1, <3>3, <3>4, <3>5 DEF Named
    <3>7. \A q \in Procs : q # Loop => proc'[q] = Idle
      BY <1>3, <3>3 DEF Others, Restart, Typed, Turns
    <3>8. \A q \in Procs : q # Loop => Named(proc[q])'
      BY <3>7, IdleTyped DEF Named
    <3>9. ASSUME NEW s \in Sandboxes PROVE Known(s)'
      <4>1. Known(s) /\ box[s].label \in Nat
        BY TimesTyped DEF Identified, Typed, TypeOK, Boxes
      <4>2. IF Present(s) /\ box[s].label > now
              THEN timer'[s].at = box[s].label /\ deadline'[s] = box[s].label
              ELSE timer'[s] = NoTimer /\ deadline'[s] = 0
        BY <3>1
      <4> QED
        BY <1>1, <3>2, <4>1, <4>2 DEF Known, Present
    <3> QED
      BY <3>6, <3>8, <3>9 DEF Identified
  <2> QED
    BY <2>1, <2>2
<1> QED
  BY <1>2, <1>3

LEMMA AroundIdentified ==
  ASSUME Typed, Identified, Pause \/ Resume \/ Exit \/ Tick
  PROVE  Identified'
<1>1. UNCHANGED <<sidecar, deadline, timer, proc, spec, used, deleted>>
  BY DEF Pause, Resume, Exit, Tick, Works, host, memory, tracking, clients
<1>2. \A s \in Sandboxes : box'[s].label = box[s].label /\ (box'[s].st # "none" <=> box[s].st # "none")
  <2>1. box' = box \/ \E s \in Sandboxes : box[s].st \in {"running", "paused"} /\ box' \in {[box EXCEPT ![s].st = "running"],
            [box EXCEPT ![s].st = "exited"], [box EXCEPT ![s].st = "paused"]}
    BY DEF Pause, Resume, Exit, Tick, host
  <2>2. box \in [Sandboxes -> Boxes]
    BY DEF Typed, TypeOK
  <2> QED
    BY <2>1, <2>2 DEF Boxes
<1>3. \A p \in Procs : proc[p].op \in {"create", "delete"} => proc[p].s \in Sandboxes
  BY DEF Typed, Turns, Turn, CreateSteps, DeleteSteps, RestoreSteps
<1>4. \A s \in Sandboxes : Known(s)'
  BY <1>1, <1>2 DEF Identified, Known, Present
<1>5. ASSUME NEW p \in Procs PROVE Named(proc[p])'
  <2>1. CASE proc[p].op = "create"
    BY <1>1, <1>2, <1>3, <2>1 DEF Identified, Named, Begun, Present
  <2>2. CASE proc[p].op # "create"
    BY <1>1, <1>2, <1>3, <2>2 DEF Identified, Named, Present
  <2> QED
    BY <2>1, <2>2
<1> QED
  BY <1>4, <1>5 DEF Identified

LEMMA InitIdentified == Init => Identified
BY IdleTyped DEF Init, Identified, Known, Named, Present, NoBox, NoShape, NoTimer

LEMMA NextIdentified == Typed /\ Identified /\ [Next]_vars => Identified'
<1> SUFFICES ASSUME Typed, Identified, [Next]_vars PROVE Identified'
  OBVIOUS
<1>1. CASE Next
  BY <1>1, RequestIdentified, StepIdentified, BreakIdentified, FireIdentified, ServerIdentified, AroundIdentified DEF Next
<1>2. CASE UNCHANGED vars
  BY <1>2 DEF vars, host, memory, tracking, clients, luck, Identified, Known, Named, Begun, Present
<1> QED
  BY <1>1, <1>2

-----------------------------------------------------------------------------
(* The life of a sandbox, as SandboxLife promises it.                      *)

SameLife == UNCHANGED <<Lives, Answers, Deleting, deleted>>

\* A creation is acknowledged when it is over.
Acknowledged ==
  created \subseteq used /\ \A s \in Sandboxes : Provisioning(s, UntilTracked) => s \notin created

\* A creation is as far as it was; a container exists as before and is of its kind.
SameStage(s) ==
  /\ Provisioning(s, BeforeContainer)' <=> Provisioning(s, BeforeContainer)
  /\ Provisioning(s, UntilTracked)' <=> Provisioning(s, UntilTracked)
SameBox(s) ==
  (Present(s)' <=> Present(s)) /\ (Present(s) => (box'[s].label = 0 <=> box[s].label = 0))

\* The mapped functions at one sandbox, before and after a step.
LEMMA LivesAre ==
  /\ \A s \in Sandboxes : Lives[s] = Living(s) /\ Answers[s] = Told(s)
  /\ \A s \in Sandboxes : Lives'[s] = Living(s)' /\ Answers'[s] = Told(s)'
BY DEF Lives, Answers

\* One life, one answer or none changes.
LEMMA OneLife ==
  ASSUME NEW s \in Sandboxes, NEW how, Living(s)' = how,
         \A y \in Sandboxes : y # s => Living(y)' = Living(y)
  PROVE  Lives' = [Lives EXCEPT ![s] = how]
BY DEF Lives

LEMMA OneAnswer ==
  ASSUME NEW s \in Sandboxes, NEW how, Told(s)' = how,
         \A y \in Sandboxes : y # s => Told(y)' = Told(y)
  PROVE  Answers' = [Answers EXCEPT ![s] = how]
BY DEF Answers

\* What the life and the answer of a sandbox depend on.
LEMMA LifeDepends ==
  ASSUME NEW s \in Sandboxes, SameStage(s), UNCHANGED <<used, created>>
  PROVE  Told(s)' = Told(s) /\ (SameBox(s) => Living(s)' = Living(s))
BY DEF SameStage, SameBox, Living, Told, Present

LEMMA LifeKept ==
  ASSUME \A s \in Sandboxes : SameStage(s) /\ SameBox(s), UNCHANGED <<used, created, deleted, Deleting>>
  PROVE  SameLife
<1>1. \A s \in Sandboxes : Told(s)' = Told(s) /\ Living(s)' = Living(s)
  BY LifeDepends
<1> QED
  BY <1>1 DEF SameLife, Lives, Answers

\* The container of a sandbox that nobody is creating goes.
LEMMA LifeEnds ==
  ASSUME Identified, NEW s \in Sandboxes, Present(s), ~Present(s)', ~Provisioning(s, BeforeContainer),
         \A y \in Sandboxes : SameStage(y) /\ (y # s => SameBox(y)), UNCHANGED <<used, created>>
  PROVE  Lives' = [Lives EXCEPT ![s] = "over"] /\ UNCHANGED Answers
<1>1. \A y \in Sandboxes : Told(y)' = Told(y) /\ (y # s => Living(y)' = Living(y))
  BY LifeDepends
<1>2. Living(s)' = "over"
  <2>1. s \in used /\ used' = used
    BY DEF Identified, Known
  <2>2. ~Provisioning(s, BeforeContainer)'
    BY DEF SameStage
  <2> QED
    BY <2>1, <2>2 DEF Living
<1> QED
  BY <1>1, <1>2, OneLife DEF Answers

\* A creation that has not acknowledged anything yet does not by going on.
LEMMA StillUntold ==
  ASSUME Acknowledged, UNCHANGED <<used, created>>,
         \A s \in Sandboxes : Provisioning(s, UntilTracked)' => Provisioning(s, UntilTracked)
  PROVE  Acknowledged'
BY DEF Acknowledged

\* The loop is with no creation before and after, or with the same one.
LEMMA StageOf ==
  ASSUME \/ proc'[Loop] = proc[Loop]
         \/ proc[Loop].op # "create" /\ proc'[Loop].op # "create"
         \/ /\ SameJob(Loop)
            /\ proc'[Loop].pc \in BeforeContainer <=> proc[Loop].pc \in BeforeContainer
            /\ proc'[Loop].pc \in UntilTracked <=> proc[Loop].pc \in UntilTracked
  PROVE  \A s \in Sandboxes : SameStage(s)
BY DEF SameStage, Provisioning, SameJob, BeforeContainer, UntilTracked

LEMMA DeletingKept ==
  ASSUME \/ proc'[Loop] = proc[Loop] \/ SameJob(Loop)
         \/ proc[Loop].op # "delete" /\ proc'[Loop].op # "delete"
  PROVE  UNCHANGED Deleting
BY DEF Deleting, SameJob

\* An expiration ends a sandbox that has one, or leaves the lives alone.
LEMMA ExpireLife ==
  ASSUME Typed, Identified, Acknowledged, NEW p \in Procs, ExpireStep(p)
  PROVE  (Life!LifeNext \/ SameLife) /\ Acknowledged'
<1>0. PICK s : s = proc[p].s
  OBVIOUS
<1>1. /\ UNCHANGED <<used, created, deleted>> /\ Expiring(proc[p]) /\ Named(proc[p])
      /\ Others(p) /\ SameJob(p)
  BY ExpireLeads, ExpireMoves DEF clients, Identified
<1>2. /\ proc'[Loop] = proc[Loop] \/ (SameJob(Loop) /\ proc[Loop].op \notin {"create", "delete"})
      /\ Loop \in Procs
  BY <1>1 DEF Others, Procs, Expiring
<1>3. (\A y \in Sandboxes : SameStage(y)) /\ UNCHANGED Deleting
  BY <1>2, StageOf, DeletingKept DEF SameJob
<1>4. Acknowledged'
  BY <1>1, <1>3, StillUntold DEF SameStage
<1>5. \/ box' = box
      \/ box' = [box EXCEPT ![s] = NoBox]
      \/ Running(s) /\ box' = [box EXCEPT ![s].st = "exited"]
  <2>1. CASE ExpireKill(p)
    BY <1>0, <2>1 DEF ExpireKill
  <2>2. CASE ~ExpireKill(p)
    BY <1>0, <2>2 DEF ExpireStep, ExpireLookup, RetryLook, Rearm, ReadDeadline, ExpireRemove, host
  <2> QED
    BY <2>1, <2>2
<1>6. box \in [Sandboxes -> Boxes]
  BY DEF Typed, TypeOK
<1>7. \A y \in Sandboxes : y # s => SameBox(y)
  <2>1. \A y \in Sandboxes : y # s => box'[y] = box[y]
    BY <1>5, <1>6
  <2> QED
    BY <2>1 DEF SameBox, Present
<1>8. CASE s \in Sandboxes /\ Present(s) /\ ~Present(s)'
  <2>1. box[s].label # 0
    BY <1>0, <1>1, <1>8, SandboxesAssumption DEF Named, Expiring, Identified, Known
  <2>2. ~Provisioning(s, BeforeContainer)
    <3>1. proc[Loop].op = "create" => Begun(proc[Loop])
      BY <1>2 DEF Identified, Named
    <3> QED
      BY <1>8, <3>1 DEF Begun, Provisioning, BeforeContainer
  <2>3. Lives' = [Lives EXCEPT ![s] = "over"] /\ UNCHANGED Answers
    BY <1>1, <1>3, <1>7, <1>8, <2>2, LifeEnds
  <2>4. Lives[s] = "timed"
    BY <1>8, <2>1, LivesAre DEF Living
  <2> QED
    BY <1>1, <1>3, <1>4, <1>8, <2>3, <2>4 DEF Life!LifeNext, Life!Expire, Life!Ends
<1>9. CASE ~(s \in Sandboxes /\ Present(s) /\ ~Present(s)')
  <2>1. ASSUME s \in Sandboxes PROVE SameBox(s)
    <3>1. CASE box' = box
      BY <3>1 DEF SameBox, Present
    <3>2. CASE box' = [box EXCEPT ![s] = NoBox]
      BY <1>6, <1>9, <2>1, <3>2 DEF SameBox, Present, NoBox
    <3>3. CASE Running(s) /\ box' = [box EXCEPT ![s].st = "exited"]
      BY <1>6, <2>1, <3>3 DEF SameBox, Present, Running, Boxes
    <3> QED
      BY <1>5, <3>1, <3>2, <3>3
  <2>2. \A y \in Sandboxes : SameBox(y)
    BY <1>7, <2>1
  <2> QED
    BY <1>1, <1>3, <1>4, <2>2, LifeKept
<1> QED
  BY <1>8, <1>9

\* A timer that fires takes a thread that is no loop.
LEMMA FireLife ==
  ASSUME Typed, Acknowledged, NEW p \in Timers, Fire(p)
  PROVE  SameLife /\ Acknowledged'
<1>1. UNCHANGED <<box, used, created, deleted>> /\ p \in Procs /\ p # Loop /\ Loop \in Procs
  BY LoopAssumption DEF Fire, host, clients, Procs
<1>2. PICK t : Become(p, t)
  BY DEF Fire
<1>3. proc'[Loop] = proc[Loop]
  BY <1>1, <1>2, BecomeMoves DEF Typed, Others
<1>4. (\A y \in Sandboxes : SameStage(y)) /\ UNCHANGED Deleting
  BY <1>3, StageOf, DeletingKept
<1>5. \A y \in Sandboxes : SameBox(y)
  BY <1>1 DEF SameBox, Present
<1> QED
  BY <1>1, <1>4, <1>5, LifeKept, StillUntold DEF SameStage

\* Pausing, resuming, the end of a command and the time change no life.
LEMMA AroundLife ==
  ASSUME Typed, Acknowledged, Pause \/ Resume \/ Exit \/ Tick
  PROVE  SameLife /\ Acknowledged'
<1>1. UNCHANGED <<proc, used, created, deleted>>
  BY DEF Pause, Resume, Exit, Tick, clients
<1>2. (\A y \in Sandboxes : SameStage(y)) /\ UNCHANGED Deleting
  BY <1>1, StageOf, DeletingKept
<1>3. \A y \in Sandboxes : SameBox(y)
  <2>1. box' = box \/ \E s \in Sandboxes : box[s].st \in {"running", "paused"} /\ box' \in {[box EXCEPT ![s].st = "running"],
            [box EXCEPT ![s].st = "exited"], [box EXCEPT ![s].st = "paused"]}
    BY DEF Pause, Resume, Exit, Tick, host
  <2>2. box \in [Sandboxes -> Boxes]
    BY DEF Typed, TypeOK
  <2> QED
    BY <2>1, <2>2 DEF Boxes, SameBox, Present
<1> QED
  BY <1>1, <1>2, <1>3, LifeKept, StillUntold DEF SameStage

\* A request asks for a sandbox or its deletion, or changes no life.
LEMMA RequestLife ==
  ASSUME Typed, Identified, Acknowledged, Create \/ Delete \/ Renew
  PROVE  (Life!LifeNext \/ SameLife) /\ Acknowledged'
<1>1. /\ proc[Loop] = Idle /\ Loop \in Procs /\ UNCHANGED <<box, created, deleted>>
      /\ proc[Loop].op = "idle" /\ TypeOK
  BY IdleTyped DEF Create, Delete, Renew, Serving, host, clients, Procs, Typed
<1>2. \A y \in Sandboxes : SameBox(y)
  BY <1>1 DEF SameBox, Present
<1>3. CASE Create
  <2>1. PICK s \in Sandboxes \ used, shape \in Requests, d \in Times :
          /\ used' = used \cup {s}
          /\ Become(Loop, [Idle EXCEPT !.op = "create", !.pc = "mount", !.s = s,
                                      !.keys = shape.keys, !.to = d])
    BY <1>3 DEF Create
  <2> DEFINE t == [Idle EXCEPT !.op = "create", !.pc = "mount", !.s = s, !.keys = shape.keys, !.to = d]
  <2>2. proc'[Loop] = t
    BY <1>1, <2>1, BecomeMoves
  <2>3. t.op = "create" /\ t.pc = "mount" /\ t.s = s
    BY IdleTyped DEF Threads
  <2> HIDE DEF t
  <2>4. proc'[Loop].op = "create" /\ proc'[Loop].pc = "mount" /\ proc'[Loop].s = s
    BY <2>2, <2>3
  <2>5. ~Present(s) /\ s \notin created
    BY <2>1 DEF Identified, Known, Acknowledged
  <2>6. \A y \in Sandboxes : ~Provisioning(y, BeforeContainer) /\ ~Provisioning(y, UntilTracked)
    BY <1>1 DEF Provisioning
  <2>7. /\ Provisioning(s, BeforeContainer)' /\ Provisioning(s, UntilTracked)'
        /\ \A y \in Sandboxes : y # s => ~Provisioning(y, BeforeContainer)' /\ ~Provisioning(y, UntilTracked)'
    BY <2>4 DEF Provisioning, BeforeContainer, UntilTracked
  <2>8. /\ Told(s) = "new" /\ Living(s) = "none"
        /\ Told(s)' = "creating" /\ Living(s)' = "none"
    BY <1>1, <2>1, <2>5, <2>7 DEF Told, Living, Present
  <2>9. \A y \in Sandboxes : y # s => Told(y)' = Told(y) /\ Living(y)' = Living(y)
    BY <1>1, <2>1, <2>6, <2>7 DEF Told, Living, Present
  <2>10. Answers' = [Answers EXCEPT ![s] = "creating"] /\ Answers[s] = "new" /\ UNCHANGED Lives
    BY <2>8, <2>9, OneAnswer, LivesAre DEF Lives
  <2>11. UNCHANGED Deleting
    BY <1>1, <2>4, DeletingKept
  <2>12. Acknowledged'
    BY <1>1, <2>1, <2>5, <2>7 DEF Acknowledged
  <2> QED
    BY <1>1, <2>10, <2>11, <2>12 DEF Life!LifeNext, Life!Ask, Life!Settle
<1>4. CASE Delete
  <2>1. PICK s \in Sandboxes :
          /\ Present(s)
          /\ Become(Loop, [Idle EXCEPT !.op = "delete", !.pc = "kill", !.s = s, !.keys = spec[s].keys])
    BY <1>4 DEF Delete
  <2> DEFINE t == [Idle EXCEPT !.op = "delete", !.pc = "kill", !.s = s, !.keys = spec[s].keys]
  <2>2. proc'[Loop] = t
    BY <1>1, <2>1, BecomeMoves
  <2>3. t.op = "delete" /\ t.s = s
    BY IdleTyped DEF Threads
  <2> HIDE DEF t
  <2>4. proc'[Loop].op = "delete" /\ proc'[Loop].s = s /\ used' = used
    BY <1>4, <2>2, <2>3 DEF Delete, clients
  <2>5. \A y \in Sandboxes : SameStage(y)
    BY <1>1, <2>4, StageOf
  <2>6. UNCHANGED <<Lives, Answers>>
    <3>1. \A y \in Sandboxes : Told(y)' = Told(y) /\ Living(y)' = Living(y)
      BY <1>1, <1>2, <2>4, <2>5, LifeDepends
    <3> QED
      BY <3>1 DEF Lives, Answers
  <2>7. Deleting = {} /\ Deleting' = {s}
    BY <1>1, <2>4 DEF Deleting
  <2>8. Told(s) \in {"ok", "unsure"}
    <3>1. ~Provisioning(s, UntilTracked) /\ s \in used
      BY <1>1, <2>1 DEF Provisioning, Identified, Known
    <3> QED
      BY <3>1 DEF Told
  <2>9. Acknowledged'
    BY <1>1, <2>4, <2>5, StillUntold DEF SameStage
  <2> QED
    BY <1>1, <2>6, <2>7, <2>8, <2>9, LivesAre DEF Life!LifeNext, Life!Delete
<1>5. CASE Renew
  <2>1. PICK s \in Sandboxes, d \in Times :
          Become(Loop, [Idle EXCEPT !.op = "renew", !.pc = "rearm", !.s = s, !.to = d])
    BY <1>5 DEF Renew
  <2> DEFINE t == [Idle EXCEPT !.op = "renew", !.pc = "rearm", !.s = s, !.to = d]
  <2>2. proc'[Loop] = t
    BY <1>1, <2>1, BecomeMoves
  <2>3. t.op = "renew"
    BY IdleTyped DEF Threads
  <2> HIDE DEF t
  <2>4. proc'[Loop].op = "renew" /\ used' = used
    BY <1>5, <2>2, <2>3 DEF Renew, clients
  <2>5. (\A y \in Sandboxes : SameStage(y)) /\ UNCHANGED Deleting
    BY <1>1, <2>4, StageOf, DeletingKept
  <2> QED
    BY <1>1, <1>2, <2>4, <2>5, LifeKept, StillUntold DEF SameStage
<1> QED
  BY <1>3, <1>4, <1>5

\* The death of the server, also by an unmount that hangs while it restores.
LEMMA DeathLife ==
  ASSUME Typed, Identified, Acknowledged, UNCHANGED <<box, used, created, deleted>>,
         proc' = [q \in Procs |-> Idle]
  PROVE  Life!LifeNext /\ Acknowledged'
<1>1. proc'[Loop] = Idle /\ proc'[Loop].op = "idle"
  BY IdleTyped DEF Procs
<1>2. \A y \in Sandboxes : ~Provisioning(y, BeforeContainer)' /\ ~Provisioning(y, UntilTracked)'
  BY <1>1 DEF Provisioning
<1>3. Deleting' = {}
  BY <1>1 DEF Deleting
<1>4. ASSUME NEW y \in Sandboxes
      PROVE  /\ Told(y)' = IF Told(y) = "creating" THEN "unsure" ELSE Told(y)
             /\ Living(y)' = IF Told(y) = "creating" /\ Living(y) = "none" THEN "over" ELSE Living(y)
  <2>1. Provisioning(y, UntilTracked) => y \notin created
    BY DEF Acknowledged
  <2>2. Provisioning(y, BeforeContainer) => Provisioning(y, UntilTracked)
    BY DEF Provisioning, UntilTracked
  <2>3. y \in used' <=> y \in used
    OBVIOUS
  <2>4. Told(y)' = IF Told(y) = "creating" THEN "unsure" ELSE Told(y)
    BY <1>2, <2>1 DEF Told
  <2>5. Living(y)' = IF Told(y) = "creating" /\ Living(y) = "none" THEN "over" ELSE Living(y)
    BY <1>2, <2>2 DEF Told, Living, Present
  <2> QED
    BY <2>4, <2>5
<1>5. /\ Lives' = [s \in Sandboxes |->
                     IF Answers[s] = "creating" /\ Lives[s] = "none" THEN "over" ELSE Lives[s]]
      /\ Answers' = [s \in Sandboxes |-> IF Answers[s] = "creating" THEN "unsure" ELSE Answers[s]]
  BY <1>4 DEF Lives, Answers
<1>6. Acknowledged'
  BY <1>2 DEF Acknowledged
<1> QED
  BY <1>3, <1>5, <1>6 DEF Life!LifeNext, Life!Die

\* A start of the server begins with what there is.
LEMMA ServerLife ==
  ASSUME Typed, Identified, Acknowledged, Crash \/ Restart
  PROVE  (Life!LifeNext \/ SameLife) /\ Acknowledged'
<1>1. UNCHANGED <<box, used, created, deleted>> /\ TypeOK /\ Loop \in Procs
  BY DEF Crash, Restart, host, clients, Typed, Procs
<1>2. CASE Crash
  BY <1>1, <1>2, DeathLife DEF Crash, Dies
<1>3. CASE Restart
  <2>1. proc[Loop] = Idle
    BY <1>1, <1>3 DEF Restart, Typed, Turns
  <2> DEFINE t == [Idle EXCEPT !.op = "restore", !.pc = "counts",
                     !.todo = {s \in Sandboxes : Overdue(s)},
                     !.counts = [k \in Keys |-> Cardinality(Holders(k))]]
  <2>2. t.op = "restore"
    BY IdleTyped DEF Threads
  <2>3. Become(Loop, t) \/ proc' = proc
    BY <1>3 DEF Restart
  <2> HIDE DEF t
  <2>4. proc'[Loop] \in {t, Idle}
    BY <1>1, <2>1, <2>3, BecomeMoves
  <2>5. proc[Loop].op = "idle" /\ proc'[Loop].op \in {"idle", "restore"}
    BY <2>1, <2>2, <2>4, IdleTyped
  <2>6. (\A y \in Sandboxes : SameStage(y)) /\ UNCHANGED Deleting
    BY <2>5, StageOf, DeletingKept
  <2>7. \A y \in Sandboxes : SameBox(y)
    BY <1>1 DEF SameBox, Present
  <2> QED
    BY <1>1, <2>6, <2>7, LifeKept, StillUntold DEF SameStage
<1> QED
  BY <1>2, <1>3

\* What a deletion, a failed creation and an expiration do at their end: a
\* deletion is answered or given up.
LEMMA EndLife ==
  ASSUME Typed, Identified, Acknowledged, NEW p \in Procs, EndStep(p)
  PROVE  (Life!LifeNext \/ SameLife) /\ Acknowledged'
<1>0. PICK s : s = proc[p].s
  OBVIOUS
<1>1. UNCHANGED <<box, used, created>> /\ Loop \in Procs
  BY DEF EndStep, Untrack, CleanupSidecar, ReleaseMount, Unmount, UnmountHangs, Finish, host, clients, Procs
<1>2. \A y \in Sandboxes : SameBox(y)
  BY <1>1 DEF SameBox, Present
<1>3. CASE Dies
  <2>1. proc[p].op # "idle" /\ up /\ deleted' = deleted
    <3>1. proc[p].op # "idle" /\ up
      BY StepKeeps DEF Step
    <3>2. ~Finish(p)
      BY <1>3, <3>1 DEF Finish, Dies
    <3> QED
      BY <3>1, <3>2 DEF EndStep, Untrack, CleanupSidecar, ReleaseMount, Unmount, UnmountHangs, clients
  <2> QED
    BY <1>1, <1>3, <2>1, DeathLife DEF Dies
<1>4. CASE ~Dies
  <2>1. /\ Others(p)
        /\ SameJob(p) \/ (Finish(p) \/ UnmountHangs(p))
        /\ SameJob(p) /\ ~Finish(p) => proc'[p].pc \notin UntilTracked
        /\ UnmountHangs(p) => proc'[p] = Idle /\ proc[p].op # "restore"
        /\ Finish(p) => IF proc[p].op = "restore" THEN proc'[p].op = "restore" ELSE proc'[p] = Idle
        /\ proc[p].pc \notin UntilTracked
    BY <1>4, EndMoves, EndLeads, IdleTyped DEF EndStep, UntilTracked, BeforeContainer
  <2>2. /\ Idle.op = "idle" /\ Idle.pc = "idle"
        /\ BeforeContainer \subseteq UntilTracked
    BY IdleTyped DEF UntilTracked
  <2>3. ASSUME p # Loop PROVE SameLife /\ Acknowledged'
    <3>1. proc'[Loop] = proc[Loop]
      BY <1>1, <2>1, <2>3 DEF Others
    <3>2. (\A y \in Sandboxes : SameStage(y)) /\ UNCHANGED Deleting
      BY <3>1, StageOf, DeletingKept
    <3>3. deleted' = deleted
      BY <2>3, ExpiringWeak DEF Step
    <3> QED
      BY <1>1, <1>2, <3>2, <3>3, LifeKept, StillUntold DEF SameStage
  <2>4. ASSUME p = Loop PROVE (Life!LifeNext \/ SameLife) /\ Acknowledged'
    <3>1. \A y \in Sandboxes : SameStage(y)
      <4>1. CASE SameJob(p) /\ ~Finish(p)
        <5>1. /\ proc'[Loop].pc \notin UntilTracked /\ proc[Loop].pc \notin UntilTracked
              /\ proc'[Loop].pc \notin BeforeContainer /\ proc[Loop].pc \notin BeforeContainer
          BY <2>1, <2>2, <2>4, <4>1
        <5> QED
          BY <5>1 DEF SameStage, Provisioning
      <4>2. CASE Finish(p) \/ UnmountHangs(p)
        <5>1. proc'[Loop].op # "create"
          BY <2>1, <2>2, <2>4, <4>2
        <5>2. proc[Loop].pc \notin UntilTracked /\ proc[Loop].pc \notin BeforeContainer
          BY <2>1, <2>2, <2>4
        <5> QED
          BY <5>1, <5>2 DEF SameStage, Provisioning
      <4> QED
        BY <2>1, <4>1, <4>2
    <3>2. Acknowledged'
      BY <1>1, <3>1, StillUntold DEF SameStage
    <3>3. CASE proc[p].op # "delete"
      <4>1. deleted' = deleted
        BY <3>3 DEF EndStep, Untrack, CleanupSidecar, ReleaseMount, Unmount, UnmountHangs, Finish, clients
      <4>2. proc'[p].op # "delete"
        BY <2>1, <2>2, <3>3 DEF SameJob
      <4>3. UNCHANGED Deleting
        BY <2>4, <3>3, <4>2, DeletingKept
      <4> QED
        BY <1>1, <1>2, <3>1, <3>2, <4>1, <4>3, LifeKept
    <3>4. CASE proc[p].op = "delete"
      <4>1. s \in Sandboxes /\ Named(proc[p])
        BY <1>0, <3>4, EndLeads DEF Typed, Turns, Turn, RestoreSteps, Identified
      <4>2. UNCHANGED <<Lives, Answers>>
        <5>1. \A y \in Sandboxes : Told(y)' = Told(y) /\ Living(y)' = Living(y)
          BY <1>1, <1>2, <3>1, LifeDepends
        <5> QED
          BY <5>1 DEF Lives, Answers
      <4>3. Deleting = {s}
        BY <1>0, <2>4, <3>4, <4>1 DEF Deleting
      <4>4. CASE ~Finish(p) /\ SameJob(p)
        <5>1. deleted' = deleted
          BY <4>4 DEF EndStep, Untrack, CleanupSidecar, ReleaseMount, Unmount, UnmountHangs, clients
        <5>2. UNCHANGED Deleting
          BY <2>4, <4>4, DeletingKept
        <5> QED
          BY <3>2, <4>2, <5>1, <5>2 DEF SameLife
      <4>5. CASE Finish(p) \/ UnmountHangs(p)
        <5>1. proc'[Loop].op = "idle"
          BY <2>1, <2>2, <2>4, <3>4, <4>5
        <5>2. Deleting' = {}
          BY <5>1 DEF Deleting
        <5>3. deleted' = deleted \/ (proc[p].flag /\ deleted' = deleted \cup {s})
          BY <1>0, <4>5 DEF Finish, UnmountHangs, clients
        <5>4. CASE deleted' = deleted
          BY <3>2, <4>1, <4>2, <4>3, <5>2, <5>4 DEF Life!LifeNext, Life!GiveUp
        <5>5. CASE proc[p].flag /\ deleted' = deleted \cup {s}
          <6>1. ~Present(s) /\ s \in used
            BY <1>0, <3>4, <4>1, <5>5, SandboxesAssumption DEF Named
          <6>2. ~Provisioning(s, BeforeContainer)
            BY <2>4, <3>4 DEF Provisioning
          <6>3. Lives[s] = "over"
            BY <4>1, <6>1, <6>2, LivesAre DEF Living
          <6>4. Lives' = [Lives EXCEPT ![s] = "over"]
            BY <4>1, <4>2, <6>3 DEF Lives
          <6> QED
            BY <3>2, <4>1, <4>2, <4>3, <5>2, <5>5, <6>4 DEF Life!LifeNext, Life!Remove, Life!Ends
        <5> QED
          BY <5>3, <5>4, <5>5
      <4> QED
        BY <2>1, <4>4, <4>5
    <3> QED
      BY <3>3, <3>4
  <2> QED
    BY <2>3, <2>4
<1> QED
  BY <1>3, <1>4

\* A creation that fails before its container exists gives the id up.
LEMMA FailsEarly ==
  ASSUME Typed, Identified, Acknowledged, NEW s \in Sandboxes, proc[Loop].s = s, proc[Loop].op = "create",
         proc[Loop].pc \in BeforeContainer, SameJob(Loop), proc'[Loop].pc \in {"release", "undoEgress"},
         UNCHANGED <<box, used, created, deleted>>
  PROVE  Life!LifeNext /\ Acknowledged'
<1>1. Loop \in Procs /\ Begun(proc[Loop]) /\ s \in used
  BY SandboxesAssumption DEF Procs, Identified, Named
<1>2. ~Present(s) /\ Provisioning(s, BeforeContainer) /\ Provisioning(s, UntilTracked)
  BY <1>1 DEF Begun, BeforeContainer, Provisioning, UntilTracked
<1>3. \A y \in Sandboxes : ~Provisioning(y, BeforeContainer)' /\ ~Provisioning(y, UntilTracked)'
  BY DEF Provisioning, BeforeContainer, UntilTracked
<1>4. \A y \in Sandboxes : y # s => ~Provisioning(y, BeforeContainer) /\ ~Provisioning(y, UntilTracked)
  BY DEF Provisioning
<1>5. s \notin created
  BY <1>2 DEF Acknowledged
<1>6. Told(s) = "creating" /\ Told(s)' = "unsure" /\ Living(s)' = "over"
  BY <1>1, <1>2, <1>3, <1>5 DEF Told, Living, Present
<1>7. \A y \in Sandboxes : y # s => Told(y)' = Told(y) /\ Living(y)' = Living(y)
  BY <1>3, <1>4 DEF Told, Living, Present
<1>8. Lives' = [Lives EXCEPT ![s] = "over"] /\ Answers' = [Answers EXCEPT ![s] = "unsure"] /\ Answers[s] = "creating"
  BY <1>6, <1>7, OneLife, OneAnswer, LivesAre
<1>9. UNCHANGED Deleting
  BY DeletingKept
<1>10. Acknowledged'
  BY <1>3 DEF Acknowledged
<1> QED
  BY <1>8, <1>9, <1>10 DEF Life!LifeNext, Life!Fail, Life!Ends, Life!Settle

\* A creation that goes on, or whose end is known already.
LEMMA GoesOn ==
  ASSUME Typed, Acknowledged, SameJob(Loop),
         proc'[Loop].pc \in BeforeContainer <=> proc[Loop].pc \in BeforeContainer,
         proc'[Loop].pc \in UntilTracked <=> proc[Loop].pc \in UntilTracked,
         \A y \in Sandboxes : SameBox(y), UNCHANGED <<used, created, deleted>>
  PROVE  SameLife /\ Acknowledged'
<1>1. (\A y \in Sandboxes : SameStage(y)) /\ UNCHANGED Deleting
  BY StageOf, DeletingKept
<1> QED
  BY <1>1, LifeKept, StillUntold DEF SameStage

\* A creation makes its sandbox, fails, tells or goes on.
LEMMA ProvisionLife ==
  ASSUME Typed, Identified, Acknowledged, NEW p \in Procs, ProvisionStep(p)
  PROVE  (Life!LifeNext \/ SameLife) /\ Acknowledged'
<1>0. PICK s : s = proc[p].s
  OBVIOUS
<1>1. /\ proc[p].op = "create" /\ p = Loop /\ s \in Sandboxes /\ s \in used /\ TypeOK
      /\ Begun(proc[p]) /\ UNCHANGED <<used, deleted>> /\ box \in [Sandboxes -> Boxes]
      /\ proc[p] \in Threads
  <2>1. proc[p].op = "create" /\ UNCHANGED <<used, deleted>> /\ Turn(p, proc[p]) /\ Named(proc[p])
    BY ProvisionLeads DEF Typed, Turns, Identified
  <2> QED
    BY <1>0, <2>1, SandboxesAssumption DEF Turn, Named, CreateSteps, RestoreSteps, Typed, TypeOK
<1>2. ASSUME UNCHANGED box PROVE \A y \in Sandboxes : SameBox(y)
  BY <1>2 DEF SameBox, Present
<1>3. CASE PrepareMount(p) \/ MountsPrepared(p)
  <2>1. UNCHANGED <<box, created>> /\ proc[p].pc = "mount"
    BY <1>3 DEF PrepareMount, MountsPrepared, host, clients, At
  <2>2. \/ \E k \in proc[p].keys : Become(p, [proc[p] EXCEPT !.keys = @ \ {k}, !.held = @ \cup {k}])
        \/ Become(p, [proc[p] EXCEPT !.pc = "release", !.keys = proc[p].held])
        \/ Goto(p, "egress") \/ Goto(p, "container")
    BY <1>3 DEF PrepareMount, MountsPrepared
  <2>3. SameJob(p) /\ proc'[p].pc \in {"mount", "release", "egress", "container"}
    BY <1>1, <2>1, <2>2, GotoMoves, ReleaseMoves, PrepareMoves
  <2>4. CASE proc'[p].pc = "release"
    BY <1>0, <1>1, <2>1, <2>3, <2>4, FailsEarly DEF BeforeContainer
  <2>5. CASE proc'[p].pc # "release"
    BY <1>1, <1>2, <2>1, <2>3, <2>5, GoesOn DEF BeforeContainer, UntilTracked
  <2> QED
    BY <2>4, <2>5
<1>4. CASE StartEgress(p)
  <2>1. UNCHANGED <<box, created>> /\ proc[p].pc = "egress"
    BY <1>4 DEF StartEgress, clients, At
  <2>2. \/ Become(p, [proc[p] EXCEPT !.pc = "release", !.keys = proc[p].held])
        \/ Goto(p, "container")
    BY <1>4 DEF StartEgress
  <2>3. SameJob(p) /\ proc'[p].pc \in {"release", "container"}
    BY <1>1, <2>2, GotoMoves, ReleaseMoves
  <2>4. CASE proc'[p].pc = "release"
    BY <1>0, <1>1, <2>1, <2>3, <2>4, FailsEarly DEF BeforeContainer
  <2>5. CASE proc'[p].pc # "release"
    BY <1>1, <1>2, <2>1, <2>3, <2>5, GoesOn DEF BeforeContainer, UntilTracked
  <2> QED
    BY <2>4, <2>5
<1>5. CASE CreateContainer(p)
  <2>1. UNCHANGED created /\ proc[p].pc = "container"
    BY <1>5 DEF CreateContainer, clients, At
  <2>2. CASE Goto(p, "undoEgress") /\ UNCHANGED box
    <3>1. SameJob(p) /\ proc'[p].pc = "undoEgress"
      BY <1>1, <2>2, GotoMoves
    <3> QED
      BY <1>0, <1>1, <2>1, <2>2, <3>1, FailsEarly DEF BeforeContainer
  <2>3. CASE (Goto(p, "start") \/ Goto(p, "undoEgress")) /\ box' = [box EXCEPT ![s] = [st |-> "created", label |-> proc[p].to]]
    <3>1. SameJob(p) /\ proc'[p].pc \in {"start", "undoEgress"}
      BY <1>1, <2>3, GotoMoves
    <3>2. /\ box'[s].st = "created" /\ box'[s].label = proc[p].to
          /\ \A y \in Sandboxes : y # s => box'[y] = box[y]
      BY <1>1, <2>3
    <3>3. ~Present(s) /\ Provisioning(s, BeforeContainer) /\ Provisioning(s, UntilTracked)
      BY <1>0, <1>1, <2>1 DEF Begun, BeforeContainer, Provisioning, UntilTracked
    <3>4. ~Provisioning(s, BeforeContainer)' /\ s \notin created
      BY <1>0, <1>1, <3>1, <3>3 DEF Provisioning, BeforeContainer, Acknowledged
    <3>5. \A y \in Sandboxes : y # s => SameStage(y) /\ SameBox(y)
      BY <1>0, <1>1, <3>1, <3>2 DEF SameStage, SameBox, Present, Provisioning, SameJob
    <3>6. Living(s) = "none" /\ Living(s)' \in {"manual", "timed"}
      BY <3>2, <3>3 DEF Living, Present
    <3>7. Told(s) = "creating" /\ Told(s)' \in {"creating", "unsure"}
      BY <1>1, <2>1, <3>3, <3>4 DEF Told
    <3>8. \A y \in Sandboxes : y # s => Told(y)' = Told(y) /\ Living(y)' = Living(y)
      BY <1>1, <2>1, <3>5, LifeDepends
    <3>9. /\ Lives' = [Lives EXCEPT ![s] = Living(s)']
          /\ UNCHANGED Answers \/ Answers' = [Answers EXCEPT ![s] = "unsure"]
      <4>1. CASE Told(s)' = "creating"
        BY <3>7, <3>8, <4>1 DEF Answers, Lives
      <4>2. CASE Told(s)' = "unsure"
        <5>1. Answers' = [Answers EXCEPT ![s] = "unsure"]
          BY <1>1, <3>8, <4>2, OneAnswer
        <5> QED
          BY <3>8, <5>1 DEF Lives
      <4> QED
        BY <3>7, <4>1, <4>2
    <3>10. UNCHANGED Deleting
      BY <1>1, <3>1, DeletingKept
    <3>11. Acknowledged'
      <4>1. \A y \in Sandboxes : Provisioning(y, UntilTracked)' => Provisioning(y, UntilTracked)
        BY <3>3, <3>5 DEF SameStage
      <4> QED
        BY <1>1, <2>1, <4>1, StillUntold
    <3>12. Lives[s] = "none" /\ Answers[s] = "creating"
      BY <1>1, <3>6, <3>7, LivesAre
    <3>13. Life!Make(s)
      BY <1>1, <3>6, <3>9, <3>10, <3>12 DEF Life!Make, Life!Settle
    <3> QED
      BY <1>1, <3>11, <3>13 DEF Life!LifeNext
  <2> QED
    BY <1>0, <1>5, <2>2, <2>3 DEF CreateContainer
<1>6. CASE StartContainer(p)
  <2>1. UNCHANGED created /\ proc[p].pc = "start"
    BY <1>6 DEF StartContainer, clients, At
  <2>2. Goto(p, "track") \/ Goto(p, "undo")
    BY <1>6 DEF StartContainer
  <2>3. SameJob(p) /\ proc'[p].pc \in {"track", "undo"}
    BY <1>1, <2>2, GotoMoves
  <2>4. Present(s) /\ box' \in {box, [box EXCEPT ![s].st = "running"]}
    BY <1>0, <1>1, <1>6, <2>1 DEF StartContainer, Begun
  <2>5. \A y \in Sandboxes : SameBox(y)
    BY <1>1, <2>4 DEF SameBox, Present, Boxes
  <2> QED
    BY <1>1, <2>1, <2>3, <2>5, GoesOn DEF BeforeContainer, UntilTracked
<1>7. CASE UndoContainer(p)
  <2>1. UNCHANGED created /\ proc[p].pc = "undo" /\ Goto(p, "undoEgress")
        /\ box' \in {box, [box EXCEPT ![s] = NoBox]}
    BY <1>0, <1>7 DEF UndoContainer, clients, At
  <2>2. SameJob(p) /\ proc'[p].pc = "undoEgress"
    BY <1>1, <2>1, GotoMoves
  <2>3. Present(s) /\ ~Provisioning(s, BeforeContainer) /\ Provisioning(s, UntilTracked)
    BY <1>0, <1>1, <2>1 DEF Begun, BeforeContainer, Provisioning, UntilTracked
  <2>4. ~Provisioning(s, BeforeContainer)' /\ ~Provisioning(s, UntilTracked)'
    BY <1>1, <2>2 DEF Provisioning, BeforeContainer, UntilTracked
  <2>5. \A y \in Sandboxes : y # s => SameStage(y) /\ SameBox(y)
    BY <1>0, <1>1, <2>1, <2>2 DEF SameStage, SameBox, Present, Provisioning, SameJob
  <2>6. s \notin created
    BY <1>1, <2>3 DEF Acknowledged
  <2>7. Told(s) = "creating" /\ Told(s)' = "unsure"
    BY <1>1, <2>1, <2>3, <2>4, <2>6 DEF Told
  <2>8. Living(s) # "none" /\ (Living(s)' = "over" \/ Living(s)' = Living(s))
    <3>1. CASE box' = box
      BY <2>3, <3>1 DEF Living, Present
    <3>2. CASE box' = [box EXCEPT ![s] = NoBox]
      BY <1>1, <2>3, <2>4, <3>2 DEF Living, Present, NoBox
    <3> QED
      BY <2>1, <3>1, <3>2
  <2>9. \A y \in Sandboxes : y # s => Told(y)' = Told(y) /\ Living(y)' = Living(y)
    BY <1>1, <2>1, <2>5, LifeDepends
  <2>10. Lives' = [Lives EXCEPT ![s] = "over"] \/ UNCHANGED Lives
    <3>1. CASE Living(s)' = "over"
      BY <1>1, <2>9, <3>1, OneLife
    <3>2. CASE Living(s)' = Living(s)
      BY <2>9, <3>2 DEF Lives
    <3> QED
      BY <2>8, <3>1, <3>2
  <2>11. Answers' = [Answers EXCEPT ![s] = "unsure"] /\ Answers[s] = "creating" /\ Lives[s] # "none"
    BY <1>1, <2>7, <2>8, <2>9, OneAnswer, LivesAre
  <2>12. UNCHANGED Deleting
    BY <1>1, <2>2, DeletingKept
  <2>13. Acknowledged'
    BY <1>1, <2>1, <2>4, <2>5, StillUntold DEF SameStage
  <2>14. Life!Fail(s)
    BY <1>1, <2>10, <2>11, <2>12 DEF Life!Fail, Life!Ends, Life!Settle
  <2> QED
    BY <1>1, <2>13, <2>14 DEF Life!LifeNext
<1>8. CASE UndoEgress(p)
  <2>1. UNCHANGED <<box, created>> /\ proc[p].pc = "undoEgress"
        /\ Become(p, [proc[p] EXCEPT !.pc = "release", !.keys = proc[p].held])
    BY <1>8 DEF UndoEgress, clients, At
  <2>2. SameJob(p) /\ proc'[p].pc = "release"
    BY <1>1, <2>1, ReleaseMoves
  <2> QED
    BY <1>1, <1>2, <2>1, <2>2, GoesOn DEF BeforeContainer, UntilTracked
<1>9. CASE TrackCreated(p)
  <2>1. UNCHANGED box /\ created' = created \cup {s} /\ Become(p, Idle) /\ proc[p].pc = "track"
    BY <1>0, <1>9 DEF TrackCreated, host, At
  <2>2. proc'[Loop].op = "idle"
    BY <1>1, <2>1, BecomeMoves, IdleTyped
  <2>3. Present(s) /\ Provisioning(s, UntilTracked) /\ ~Provisioning(s, BeforeContainer)
    BY <1>0, <1>1, <2>1 DEF Begun, BeforeContainer, Provisioning, UntilTracked
  <2>4. \A y \in Sandboxes : ~Provisioning(y, BeforeContainer)' /\ ~Provisioning(y, UntilTracked)'
    BY <2>2 DEF Provisioning
  <2>5. \A y \in Sandboxes : y # s => ~Provisioning(y, BeforeContainer) /\ ~Provisioning(y, UntilTracked)
    BY <1>0, <1>1 DEF Provisioning
  <2>6. \A y \in Sandboxes : Living(y)' = Living(y)
    BY <1>1, <2>1, <2>3, <2>4, <2>5 DEF Living, Present
  <2>7. Told(s) = "creating" /\ Told(s)' = "ok" /\ Living(s) # "none"
    BY <1>1, <2>1, <2>3, <2>4 DEF Told, Living
  <2>8. \A y \in Sandboxes : y # s => Told(y)' = Told(y)
    BY <1>1, <2>1, <2>4, <2>5 DEF Told
  <2>9. /\ Answers' = [Answers EXCEPT ![s] = "ok"] /\ Answers[s] = "creating" /\ Lives[s] # "none"
        /\ UNCHANGED Lives
    BY <1>1, <2>6, <2>7, <2>8, OneAnswer, LivesAre DEF Lives
  <2>10. UNCHANGED Deleting
    BY <1>1, <2>2, DeletingKept
  <2>11. Acknowledged'
    BY <1>1, <2>1, <2>4 DEF Acknowledged
  <2> QED
    BY <1>1, <2>9, <2>10, <2>11 DEF Life!LifeNext, Life!Tell, Life!Settle
<1> QED
  BY <1>3, <1>4, <1>5, <1>6, <1>7, <1>8, <1>9 DEF ProvisionStep

\* A deletion removes its sandbox; a renewal keeps its kind.
LEMMA LoopLife ==
  ASSUME Typed, Identified, Acknowledged, NEW p \in Procs,
         DeleteKill(p) \/ DeleteRemove(p) \/ RenewTrack(p) \/ RenewLabel(p)
         \/ RestoreCounts(p) \/ RestoreNext(p) \/ RestoreOrphans(p)
  PROVE  (Life!LifeNext \/ SameLife) /\ Acknowledged'
<1>0. PICK s : s = proc[p].s
  OBVIOUS
<1>1. /\ p = Loop /\ UNCHANGED <<used, deleted>> /\ TypeOK /\ box \in [Sandboxes -> Boxes]
      /\ proc[p] \in Threads /\ Turn(p, proc[p]) /\ Named(proc[p])
  BY LoopLeads DEF Typed, TypeOK, Turns, Identified
<1>2. UNCHANGED created
  BY DEF DeleteKill, DeleteRemove, RenewTrack, RenewLabel, RestoreCounts, RestoreNext, RestoreOrphans, clients
<1>3. ASSUME UNCHANGED box PROVE \A y \in Sandboxes : SameBox(y)
  BY <1>3 DEF SameBox, Present
<1>4. ASSUME proc[p].pc \in {"kill", "remove"}
      PROVE  proc[p].op = "delete" /\ s \in Sandboxes
  BY <1>0, <1>1, <1>4, IdleTyped DEF Turn, Threads, Ops, CreateSteps, RenewSteps, ExpireSteps, RestoreSteps
<1>5. CASE DeleteKill(p)
  <2>1. proc[p].pc = "kill" /\ (Goto(p, "remove") \/ Goto(p, "untrack"))
        /\ (box' = box \/ (Running(s) /\ box' = [box EXCEPT ![s].st = "exited"]))
    BY <1>0, <1>5 DEF DeleteKill, At
  <2>2. proc[p].op = "delete" /\ s \in Sandboxes
    BY <1>4, <2>1
  <2>3. SameJob(p)
    BY <1>1, <2>1, GotoMoves
  <2>4. (\A y \in Sandboxes : SameStage(y)) /\ UNCHANGED Deleting
    BY <1>1, <2>2, <2>3, StageOf, DeletingKept DEF SameJob
  <2>5. \A y \in Sandboxes : SameBox(y)
    <3>1. CASE box' = box
      BY <1>3, <3>1
    <3>2. CASE Running(s) /\ box' = [box EXCEPT ![s].st = "exited"]
      BY <1>1, <2>2, <3>2 DEF SameBox, Present, Running, Boxes
    <3> QED
      BY <2>1, <3>1, <3>2
  <2> QED
    BY <1>1, <1>2, <2>4, <2>5, LifeKept, StillUntold DEF SameStage
<1>6. CASE DeleteRemove(p)
  <2>1. /\ proc[p].pc = "remove"
        /\ \/ Goto(p, "untrack")
           \/ Become(p, [proc[p] EXCEPT !.pc = "untrack", !.flag = TRUE])
        /\ box' = box \/ (Present(s) /\ box' = [box EXCEPT ![s] = NoBox])
    BY <1>0, <1>6 DEF DeleteRemove, At
  <2>2. proc[p].op = "delete" /\ s \in Sandboxes
    BY <1>4, <2>1
  <2>3. SameJob(p)
    <3>1. CASE Goto(p, "untrack")
      BY <1>1, <3>1, GotoMoves
    <3>2. CASE Become(p, [proc[p] EXCEPT !.pc = "untrack", !.flag = TRUE])
      <4> DEFINE t == [proc[p] EXCEPT !.pc = "untrack", !.flag = TRUE]
      <4>1. proc'[p] = t
        BY <1>1, <3>2, BecomeMoves
      <4>2. t.op = proc[p].op /\ t.s = proc[p].s /\ t.to = proc[p].to /\ t.todo = proc[p].todo
        BY <1>1 DEF Threads
      <4> HIDE DEF t
      <4> QED
        BY <4>1, <4>2 DEF SameJob
    <3> QED
      BY <2>1, <3>1, <3>2
  <2>4. (\A y \in Sandboxes : SameStage(y)) /\ UNCHANGED Deleting
    BY <1>1, <2>2, <2>3, StageOf, DeletingKept DEF SameJob
  <2>5. Acknowledged'
    BY <1>1, <1>2, <2>4, StillUntold DEF SameStage
  <2>6. CASE box' = box
    BY <1>1, <1>2, <1>3, <2>4, <2>5, <2>6, LifeKept
  <2>7. CASE Present(s) /\ box' = [box EXCEPT ![s] = NoBox]
    <3>1. box'[s] = NoBox /\ \A y \in Sandboxes : y # s => box'[y] = box[y]
      BY <1>1, <2>2, <2>7
    <3>2. ~Present(s)' /\ \A y \in Sandboxes : y # s => SameBox(y)
      BY <3>1 DEF SameBox, Present, NoBox
    <3>3. ~Provisioning(s, BeforeContainer)
      BY <1>1, <2>2 DEF Provisioning
    <3>4. Lives' = [Lives EXCEPT ![s] = "over"] /\ UNCHANGED Answers
      BY <1>1, <1>2, <2>2, <2>4, <2>7, <3>2, <3>3, LifeEnds
    <3>5. s \in Deleting
      BY <1>0, <1>1, <2>2 DEF Deleting
    <3> QED
      BY <1>1, <2>2, <2>4, <2>5, <3>4, <3>5 DEF Life!LifeNext, Life!Remove, Life!Ends
  <2> QED
    BY <2>1, <2>6, <2>7
<1>7. CASE RenewTrack(p) \/ RenewLabel(p)
  <2>1. /\ proc[p].pc \in {"rearm", "label"}
        /\ \/ Goto(p, "label") /\ box' = box /\ proc[p].op = "renew"
           \/ /\ proc[p].pc = "label" /\ Become(p, Idle)
              /\ box' = box \/ (Present(s) /\ box' = [box EXCEPT ![s].label = proc[p].to])
    BY <1>0, <1>7 DEF RenewTrack, RenewLabel, At, host
  <2>2. proc[p].op = "renew" /\ s \in Sandboxes
    BY <1>0, <1>1, <2>1, IdleTyped DEF Turn, Threads, Ops, CreateSteps, DeleteSteps, RenewSteps, ExpireSteps, RestoreSteps
  <2>3. proc'[p].op \in {"renew", "idle"}
    <3>1. CASE Goto(p, "label")
      BY <1>1, <2>2, <3>1, GotoMoves DEF SameJob
    <3>2. CASE Become(p, Idle)
      BY <1>1, <3>2, BecomeMoves, IdleTyped
    <3> QED
      BY <2>1, <3>1, <3>2
  <2>4. (\A y \in Sandboxes : SameStage(y)) /\ UNCHANGED Deleting
    BY <1>1, <2>2, <2>3, StageOf, DeletingKept
  <2>5. \A y \in Sandboxes : SameBox(y)
    <3>1. CASE box' = box
      BY <1>3, <3>1
    <3>2. CASE Present(s) /\ box' = [box EXCEPT ![s].label = proc[p].to]
      <4>1. box[s].label # 0 /\ proc[p].to # 0
        BY <1>0, <1>1, <2>2, <3>2, SandboxesAssumption DEF Named, Identified, Known
      <4>2. /\ box'[s].label = proc[p].to /\ box'[s].st = box[s].st
            /\ \A y \in Sandboxes : y # s => box'[y] = box[y]
        BY <1>1, <2>2, <3>2 DEF Boxes
      <4> QED
        BY <4>1, <4>2 DEF SameBox, Present
    <3> QED
      BY <2>1, <3>1, <3>2
  <2> QED
    BY <1>1, <1>2, <2>4, <2>5, LifeKept, StillUntold DEF SameStage
<1>8. CASE RestoreCounts(p) \/ RestoreNext(p) \/ RestoreOrphans(p)
  <2>1. UNCHANGED box /\ proc[p].pc \in RestoreSteps
    BY <1>8 DEF RestoreCounts, RestoreNext, RestoreOrphans, host, At, RestoreSteps
  <2>2. proc[p].op = "restore"
    BY <1>1, <2>1, IdleTyped DEF Turn, Threads, Ops, CreateSteps, DeleteSteps, RenewSteps, ExpireSteps, RestoreSteps
  <2>3. proc'[p].op \in {"restore", "idle"}
    <3>1. CASE RestoreCounts(p)
      <4> DEFINE t == [proc[p] EXCEPT !.pc = "next", !.counts = Idle.counts]
      <4>1. proc'[p] = t
        BY <1>1, <3>1, BecomeMoves DEF RestoreCounts
      <4>2. t.op = "restore"
        BY <1>1, <2>2 DEF Threads
      <4> HIDE DEF t
      <4> QED
        BY <4>1, <4>2
    <3>2. CASE RestoreNext(p)
      <4>1. CASE Goto(p, "orphans")
        BY <1>1, <2>2, <4>1, GotoMoves DEF SameJob
      <4>2. CASE ~Goto(p, "orphans")
        <5>1. PICK r \in proc[p].todo :
                Become(p, [proc[p] EXCEPT !.pc = "lookup", !.s = r, !.keys = spec[r].keys, !.todo = @ \ {r}])
          BY <3>2, <4>2 DEF RestoreNext
        <5> DEFINE t == [proc[p] EXCEPT !.pc = "lookup", !.s = r, !.keys = spec[r].keys, !.todo = @ \ {r}]
        <5>2. proc'[p] = t
          BY <1>1, <5>1, BecomeMoves
        <5>3. t.op = "restore"
          BY <1>1, <2>2 DEF Threads
        <5> HIDE DEF t
        <5> QED
          BY <5>2, <5>3
      <4> QED
        BY <4>1, <4>2
    <3>3. CASE RestoreOrphans(p)
      BY <1>1, <3>3, BecomeMoves, IdleTyped DEF RestoreOrphans
    <3> QED
      BY <1>8, <3>1, <3>2, <3>3
  <2>4. (\A y \in Sandboxes : SameStage(y)) /\ UNCHANGED Deleting
    BY <1>1, <2>2, <2>3, StageOf, DeletingKept
  <2> QED
    BY <1>1, <1>2, <1>3, <2>1, <2>4, LifeKept, StillUntold DEF SameStage
<1> QED
  BY <1>5, <1>6, <1>7, <1>8

\* A broken connection ends a sandbox that is being expired, gives a deletion up,
\* or leaves the lives alone.
LEMMA BreakLife ==
  ASSUME Typed, Identified, Acknowledged, NEW p \in Procs, ConnectionBreaks(p)
  PROVE  (Life!LifeNext \/ SameLife) /\ Acknowledged'
<1>0. PICK s : s = proc[p].s
  OBVIOUS
<1>1. /\ UNCHANGED <<used, created, deleted>> /\ Named(proc[p]) /\ Turn(p, proc[p])
      /\ proc[p] \in Threads /\ proc[p].op # "idle" /\ Loop \in Procs /\ Abandons(p)
      /\ box \in [Sandboxes -> Boxes] /\ TypeOK
  BY BreakMoves DEF clients, Identified, Procs, Typed, TypeOK
<1>2. proc'[Loop] = IF p = Loop \/ Dies THEN Idle ELSE proc[Loop]
  <2>1. CASE Dies
    BY <1>1, <2>1 DEF Dies
  <2>2. CASE ~Dies
    BY <1>1, <2>2, BecomeMoves DEF Abandons, Others
  <2> QED
    BY <2>1, <2>2
<1>3. Dies => p = Loop
  <2>1. up
    BY BreakMoves
  <2>2. proc[p].op = "restore" => p = Loop
    BY <1>1 DEF Turn
  <2> QED
    BY <1>1, <2>1, <2>2 DEF Abandons, Dies
<1>4. proc[p].op = "create" => proc[p].pc = "undoEgress"
  BY <1>1 DEF ConnectionBreaks, At, Turn, CreateSteps
<1>5. proc'[Loop] = proc[Loop] \/ (p = Loop /\ proc'[Loop] = Idle)
  BY <1>2, <1>3
<1>6. /\ \A y \in Sandboxes : SameStage(y)
      /\ (p = Loop /\ proc[p].op = "delete") \/ UNCHANGED Deleting
  <2>1. \A y \in Sandboxes : SameStage(y)
    BY <1>4, <1>5, IdleTyped, StageOf DEF SameStage, Provisioning, BeforeContainer, UntilTracked
  <2>2. (p = Loop /\ proc[p].op = "delete") \/ UNCHANGED Deleting
    BY <1>5, IdleTyped, DeletingKept
  <2> QED
    BY <2>1, <2>2
<1>7. Acknowledged'
  BY <1>1, <1>6, StillUntold DEF SameStage
<1>8. \/ box' = box
      \/ /\ s \in Sandboxes /\ Expiring(proc[p])
         /\ \/ box' = [box EXCEPT ![s].st = "exited"] /\ Running(s)
            \/ box' = [box EXCEPT ![s] = NoBox]
      \/ s \in Sandboxes /\ proc[p].op = "renew" /\ Present(s) /\ box' = [box EXCEPT ![s].label = proc[p].to]
  BY <1>0, BreakMoves
<1>9. \A y \in Sandboxes : y # s => SameBox(y)
  <2>1. \A y \in Sandboxes : y # s => box'[y] = box[y]
    BY <1>1, <1>8
  <2> QED
    BY <2>1 DEF SameBox, Present
<1>10. CASE s \in Sandboxes /\ Present(s) /\ ~Present(s)'
  <2>1. Expiring(proc[p])
    <3>1. ~(box' = box) /\ ~(Present(s) /\ box' = [box EXCEPT ![s].label = proc[p].to])
      BY <1>1, <1>10 DEF Present, Boxes
    <3> QED
      BY <1>8, <3>1
  <2>2. box[s].label # 0
    BY <1>0, <1>1, <1>10, <2>1, SandboxesAssumption DEF Named, Expiring, Identified, Known
  <2>3. ~Provisioning(s, BeforeContainer)
    <3>1. proc[Loop].op = "create" => Begun(proc[Loop])
      BY <1>1 DEF Identified, Named
    <3> QED
      BY <1>10, <3>1 DEF Begun, Provisioning, BeforeContainer
  <2>4. Lives' = [Lives EXCEPT ![s] = "over"] /\ UNCHANGED Answers
    BY <1>1, <1>6, <1>9, <1>10, <2>3, LifeEnds
  <2>5. Lives[s] = "timed"
    BY <1>10, <2>2, LivesAre DEF Living
  <2>6. UNCHANGED Deleting
    BY <1>6, <2>1 DEF Expiring
  <2> QED
    BY <1>1, <1>7, <1>10, <2>4, <2>5, <2>6 DEF Life!LifeNext, Life!Expire, Life!Ends
<1>11. CASE ~(s \in Sandboxes /\ Present(s) /\ ~Present(s)')
  <2>1. ASSUME s \in Sandboxes PROVE SameBox(s)
    <3>1. CASE box' = box
      BY <3>1 DEF SameBox, Present
    <3>2. CASE box' = [box EXCEPT ![s] = NoBox]
      BY <1>1, <1>11, <2>1, <3>2 DEF SameBox, Present, NoBox
    <3>3. CASE Running(s) /\ box' = [box EXCEPT ![s].st = "exited"]
      BY <1>1, <2>1, <3>3 DEF SameBox, Present, Running, Boxes
    <3>4. CASE proc[p].op = "renew" /\ Present(s) /\ box' = [box EXCEPT ![s].label = proc[p].to]
      <4>1. box[s].label # 0 /\ proc[p].to # 0
        BY <1>0, <1>1, <2>1, <3>4, SandboxesAssumption DEF Named, Identified, Known
      <4>2. box'[s].label = proc[p].to /\ box'[s].st = box[s].st
        BY <1>1, <2>1, <3>4 DEF Boxes
      <4> QED
        BY <4>1, <4>2 DEF SameBox, Present
    <3> QED
      BY <1>8, <3>1, <3>2, <3>3, <3>4
  <2>2. \A y \in Sandboxes : SameBox(y)
    BY <1>9, <2>1
  <2>3. CASE UNCHANGED Deleting
    BY <1>1, <1>6, <1>7, <2>2, <2>3, LifeKept
  <2>4. CASE p = Loop /\ proc[p].op = "delete"
    <3>1. s \in Sandboxes
      BY <1>0, <1>1, <2>4 DEF Turn, DeleteSteps, RestoreSteps
    <3>2. Deleting = {s} /\ Deleting' = {}
      BY <1>0, <1>2, <2>4, <3>1, IdleTyped DEF Deleting
    <3>3. UNCHANGED <<Lives, Answers>>
      <4>1. \A y \in Sandboxes : Told(y)' = Told(y) /\ Living(y)' = Living(y)
        BY <1>1, <1>6, <2>2, LifeDepends
      <4> QED
        BY <4>1 DEF Lives, Answers
    <3> QED
      BY <1>1, <1>7, <3>1, <3>2, <3>3 DEF Life!LifeNext, Life!GiveUp
  <2> QED
    BY <1>6, <2>3, <2>4
<1> QED
  BY <1>10, <1>11

\* No sandbox has been asked for at the start.
LEMMA LifeStarts == Init => Life!LifeInit /\ Acknowledged
<1> SUFFICES ASSUME Init PROVE Life!LifeInit /\ Acknowledged
  OBVIOUS
<1>1. proc[Loop].op = "idle" /\ created = {} /\ used = {} /\ deleted = {}
  BY IdleTyped DEF Init, Procs
<1>2. \A s \in Sandboxes : ~Present(s)
  BY DEF Init, Present, NoBox
<1>3. \A s \in Sandboxes : Living(s) = "none" /\ Told(s) = "new"
  BY <1>1, <1>2 DEF Living, Told
<1>4. Deleting = {} /\ Acknowledged
  BY <1>1 DEF Deleting, Acknowledged
<1> QED
  BY <1>1, <1>3, <1>4 DEF Life!LifeInit, Lives, Answers

\* Every step of the runtime is a step of SandboxLife or leaves it alone.
LEMMA LifeStep ==
  Typed /\ Identified /\ Acknowledged /\ [Next]_vars => [Life!LifeNext]_(Life!promise) /\ Acknowledged'
<1> SUFFICES ASSUME Typed, Identified, Acknowledged, [Next]_vars
             PROVE  (Life!LifeNext \/ SameLife) /\ Acknowledged'
  BY DEF SameLife, Life!promise
<1>1. CASE UNCHANGED vars
  <2>1. UNCHANGED <<box, proc, used, created, deleted>>
    BY <1>1 DEF vars, host, clients
  <2> QED
    BY <2>1, StageOf, DeletingKept, LifeKept, StillUntold DEF SameStage, SameBox, Present
<1>2. ASSUME NEW p \in Procs, Step(p)
      PROVE  (Life!LifeNext \/ SameLife) /\ Acknowledged'
  BY <1>2, ProvisionLife, LoopLife, EndLife, ExpireLife DEF Step, LoopStep
<1>3. ASSUME NEW p \in Procs, ConnectionBreaks(p)
      PROVE  (Life!LifeNext \/ SameLife) /\ Acknowledged'
  BY <1>3, BreakLife
<1> QED
  BY <1>1, <1>2, <1>3, RequestLife, FireLife, ServerLife, AroundLife DEF Next

\* The Docker runtime implements SandboxLife: whatever timers and requests do at
\* the same time, whichever calls fail and whenever the server dies, a sandbox is
\* made once, keeps its kind, ends only as promised and never comes back, and what
\* is answered of it is true (create_sandbox, renew_expiration, _expire_sandbox,
\* _restore_existing_sandboxes, delete_sandbox).
THEOREM LifeImplemented == Spec => ImplementsLife
<1>1. Typed /\ Identified /\ Acknowledged /\ [Next]_vars
        => [Life!LifeNext]_(Life!promise) /\ Acknowledged'
  BY LifeStep
<1> QED
  BY <1>1, LifeStarts, InitTyped, NextTyped, InitIdentified, NextIdentified, PTL
  DEF Spec, ImplementsLife, Life!LifeSpec
=============================================================================
