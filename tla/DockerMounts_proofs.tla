--------------------------- MODULE DockerMounts_proofs ---------------------------
(***************************************************************************)
(* Proofs about the OSSFS mounts of DockerRuntime: they are counted and    *)
(* held while the Docker daemon answers, provided that no request has both *)
(* an expiration and mounts. The run docker_mounts shows that this is      *)
(* needed: the thread of an expiration unmounts after it has left the      *)
(* lock, when the event loop may have adopted the mount again.             *)
(***************************************************************************)
EXTENDS DockerSound_proofs

\* No request has both an expiration and mounts, so that only the event loop
\* releases a mount.
KeysApart == \A q \in Requests : q.timed => q.keys = {}

-----------------------------------------------------------------------------
(* The inductive invariant, next to Typed, Identified and Sound.           *)

\* The keys a thread has in hand: none when it expires a sandbox, all those of a
\* sandbox it deletes until it releases them, and in a creation those it has
\* prepared next to those it still has to.
InHand(t) ==
  /\ t.op \in {"expire", "restore", "renew"} => t.keys = {} /\ t.pc # "unmount"
  /\ t.op = "delete" /\ t.pc \in {"kill", "remove", "untrack", "sidecar"} => t.keys = spec[t.s].keys
  /\ t.op = "create" /\ t.pc = "mount" =>
       t.held \cup t.keys = spec[t.s].keys /\ t.held \cap t.keys = {}
  /\ t.op = "create" /\ t.pc \notin {"mount", "release", "unmount"} => t.held = spec[t.s].keys

Apart ==
  /\ \A s \in Sandboxes : (spec[s].timed => spec[s].keys = {}) /\ timer[s].keys = {}
  /\ \A p \in Procs : InHand(proc[p])

\* The references a thread has taken, or has to give back, for a sandbox that has
\* no container.
Owed(t) ==
  IF t.op = "create" /\ t.pc \in {"mount", "egress", "container", "undoEgress"} THEN t.held
  ELSE IF t.pc \in {"untrack", "sidecar", "release", "unmount"} THEN t.keys
  ELSE {}

Num(b) == IF b THEN 1 ELSE 0
Users(k) == Cardinality(Holders(k)) + Num(k \in Owed(proc[Loop]))

\* A key is counted once for every container that binds it and once for what the
\* loop owes; a hanging unmount leaves counts too high. What is counted is
\* mounted, and only what nobody counts is about to be unmounted.
CountedFor(k) ==
  IF proc[Loop].pc = "counts" THEN proc[Loop].counts[k] = Cardinality(Holders(k))
  ELSE /\ refs[k] >= Users(k) /\ ("hang" \notin failed => refs[k] = Users(k))
       /\ refs[k] > 0 => k \in mounted
       /\ proc[Loop].pc = "unmount" /\ proc[Loop].key = k => refs[k] = 0

InUse == \A s \in Sandboxes : Present(s) => spec[s].keys \subseteq mounted
KillHolds ==
  proc[Loop].op = "delete" /\ proc[Loop].pc \in {"kill", "remove"} /\ proc[Loop].keys # {}
    => Present(proc[Loop].s)

Counts == (up => \A k \in Keys : CountedFor(k)) /\ InUse /\ KillHolds
CountsFollow == DaemonSound => Counts

-----------------------------------------------------------------------------
(* The keys in hand.                                                       *)

LEMMA TimerKeys ==
  ASSUME Typed, Apart, NEW p \in Procs, Step(p), NEW r \in Sandboxes
  PROVE  timer'[r].keys = {}
<1>1. timer[r].keys = {} /\ NoTimer.keys = {} /\ proc[p] \in Threads
      /\ timer \in [Sandboxes -> [at : Times, keys : SUBSET Keys]]
  BY DEF Apart, NoTimer, Typed, TypeOK
<1>2. CASE ProvisionStep(p)
  <2>1. CASE TrackCreated(p)
    BY <1>1, <2>1 DEF TrackCreated, ScheduleExpiration, tracking
  <2>2. CASE ~TrackCreated(p)
    BY <1>1, <1>2, <2>2 DEF ProvisionStep, PrepareMount, MountsPrepared, StartEgress, CreateContainer,
      StartContainer, UndoContainer, UndoEgress, tracking, memory
  <2> QED
    BY <2>1, <2>2
<1>3. CASE DeleteKill(p) \/ DeleteRemove(p) \/ RenewTrack(p) \/ RenewLabel(p)
           \/ RestoreCounts(p) \/ RestoreNext(p) \/ RestoreOrphans(p)
  <2>1. CASE RenewTrack(p)
    BY <1>1, <2>1 DEF RenewTrack, ScheduleExpiration
  <2>2. CASE ~RenewTrack(p)
    BY <1>1, <1>3, <2>2 DEF DeleteKill, DeleteRemove, RenewLabel, RestoreCounts, RestoreNext,
       RestoreOrphans, tracking, memory
  <2> QED
    BY <2>1, <2>2
<1>4. CASE EndStep(p)
  <2>1. timer' = timer \/ timer' = [timer EXCEPT ![proc[p].s] = NoTimer] \/ timer' = [s \in Sandboxes |-> NoTimer]
    BY <1>4 DEF EndStep, Untrack, CleanupSidecar, ReleaseMount, Unmount, UnmountHangs, Abandons, Dies, Finish,
       RemoveTracking, tracking, memory
  <2> QED
    BY <1>1, <2>1
<1>5. CASE ExpireStep(p)
  <2>1. proc[p].keys = {}
    BY <1>5, ExpireLeads DEF Apart, InHand, Expiring
  <2>2. CASE Rearm(p)
    BY <1>1, <2>1, <2>2 DEF Rearm, ScheduleExpiration
  <2>3. CASE ~Rearm(p)
    BY <1>1, <1>5, <2>3 DEF ExpireStep, ExpireLookup, RetryLook, ReadDeadline, ExpireKill, ExpireRemove,
       RemoveTracking, tracking, memory
  <2> QED
    BY <2>2, <2>3
<1> QED
  BY <1>2, <1>3, <1>4, <1>5 DEF Step, LoopStep

LEMMA IdleInHand == InHand(Idle)
BY IdleTyped DEF InHand

LEMMA ProvisionInHand ==
  ASSUME Typed, Apart, NEW p \in Procs, ProvisionStep(p)
  PROVE  InHand(proc[p])'
<1> DEFINE T == proc[p]
<1>1. T \in Threads /\ T.op = "create" /\ TypeOK /\ InHand(T) /\ spec' = spec
  BY ProvisionLeads DEF Typed, TypeOK, Apart
<1>2. CASE PrepareMount(p)
  <2>1. PICK k \in T.keys :
          \/ Become(p, [T EXCEPT !.keys = @ \ {k}, !.held = @ \cup {k}])
          \/ Become(p, [T EXCEPT !.pc = "release", !.keys = T.held])
    BY <1>2 DEF PrepareMount
  <2>2. T.pc = "mount"
    BY <1>2 DEF PrepareMount, At
  <2>3. CASE Become(p, [T EXCEPT !.keys = @ \ {k}, !.held = @ \cup {k}])
    <3>1. /\ SameJob(p) /\ proc'[p].pc = "mount" /\ proc'[p].keys = T.keys \ {k}
          /\ proc'[p].held = T.held \cup {k}
      BY <1>1, <2>2, <2>3, PrepareMoves
    <3>2. T.held \cup T.keys = spec[T.s].keys /\ T.held \cap T.keys = {}
      BY <1>1, <2>2 DEF InHand
    <3>3. (T.held \cup {k}) \cup (T.keys \ {k}) = spec[T.s].keys /\ (T.held \cup {k}) \cap (T.keys \ {k}) = {}
      BY <3>2
    <3> QED
      BY <1>1, <3>1, <3>3 DEF InHand, SameJob
  <2>4. CASE Become(p, [T EXCEPT !.pc = "release", !.keys = T.held])
    <3>1. SameJob(p) /\ proc'[p].pc = "release"
      BY <1>1, <2>4, ReleaseMoves
    <3> QED
      BY <1>1, <3>1 DEF InHand, SameJob
  <2> QED
    BY <2>1, <2>3, <2>4
<1>3. CASE MountsPrepared(p)
  <2>1. /\ T.pc = "mount" /\ T.keys = {}
        /\ SameJob(p) /\ proc'[p].held = T.held
    BY <1>1, <1>3, GotoMoves DEF MountsPrepared, At
  <2>2. proc'[p].pc \in {"egress", "container"}
    BY <1>1, <1>3, GotoMoves DEF MountsPrepared
  <2> QED
    BY <1>1, <2>1, <2>2 DEF InHand, SameJob
<1>4. CASE StartEgress(p) \/ CreateContainer(p) \/ StartContainer(p) \/ UndoContainer(p) \/ UndoEgress(p)
  <2>1. T.pc \in {"egress", "container", "start", "undo", "undoEgress"}
    BY <1>4 DEF StartEgress, CreateContainer, StartContainer, UndoContainer, UndoEgress, At
  <2>2. \/ \E step \in {"container", "start", "undoEgress", "track", "undo"} : Goto(p, step)
        \/ Become(p, [T EXCEPT !.pc = "release", !.keys = T.held])
    BY <1>4 DEF StartEgress, CreateContainer, StartContainer, UndoContainer, UndoEgress
  <2>3. CASE Become(p, [T EXCEPT !.pc = "release", !.keys = T.held])
    <3>1. SameJob(p) /\ proc'[p].pc = "release"
      BY <1>1, <2>3, ReleaseMoves
    <3> QED
      BY <1>1, <3>1 DEF InHand, SameJob
  <2>4. ASSUME NEW step \in {"container", "start", "undoEgress", "track", "undo"}, Goto(p, step)
        PROVE  InHand(proc[p])'
    <3>1. SameJob(p) /\ proc'[p].pc = step /\ proc'[p].held = T.held
      BY <1>1, <2>4, GotoMoves
    <3> QED
      BY <1>1, <2>1, <3>1 DEF InHand, SameJob
  <2> QED
    BY <2>2, <2>3, <2>4
<1>5. CASE TrackCreated(p)
  <2>1. proc'[p] = Idle
    BY <1>1, <1>5, BecomeMoves DEF TrackCreated
  <2> QED
    BY <2>1, IdleTyped DEF InHand
<1> QED
  BY <1>2, <1>3, <1>4, <1>5 DEF ProvisionStep

LEMMA LoopInHand ==
  ASSUME Typed, Identified, Apart, NEW p \in Procs,
         DeleteKill(p) \/ DeleteRemove(p) \/ RenewTrack(p) \/ RenewLabel(p)
         \/ RestoreCounts(p) \/ RestoreNext(p) \/ RestoreOrphans(p)
  PROVE  InHand(proc[p])'
<1> DEFINE T == proc[p]
<1>1. T \in Threads /\ TypeOK /\ Turn(p, T) /\ Named(T) /\ InHand(T) /\ spec' = spec
  BY LoopLeads DEF Typed, TypeOK, Turns, Apart, Identified
<1>2. /\ T.pc \in {"kill", "remove"} => T.op = "delete"
      /\ T.pc \in {"counts", "next"} => T.op = "restore"
  <2>1. T.op \in Ops /\ Idle.pc = "idle"
    BY <1>1, IdleTyped DEF Threads
  <2> QED
    BY <1>1, <2>1 DEF Turn, Ops, CreateSteps, DeleteSteps, RenewSteps, ExpireSteps, RestoreSteps
<1>3. CASE DeleteKill(p)
  <2>1. T.op = "delete" /\ T.pc = "kill" /\ SameJob(p) /\ proc'[p].keys = T.keys
    BY <1>1, <1>2, <1>3, GotoMoves DEF DeleteKill, At
  <2> QED
    BY <1>1, <2>1 DEF InHand, SameJob
<1>4. CASE DeleteRemove(p)
  <2> DEFINE t == [T EXCEPT !.pc = "untrack", !.flag = TRUE]
  <2>1. T.op = "delete" /\ T.pc = "remove" /\ (Become(p, t) \/ Goto(p, "untrack"))
    BY <1>2, <1>4 DEF DeleteRemove, At
  <2>2. t.op = T.op /\ t.s = T.s /\ t.keys = T.keys
    BY <1>1 DEF Threads
  <2> HIDE DEF t
  <2>3. proc'[p].op = T.op /\ proc'[p].s = T.s /\ proc'[p].keys = T.keys
    BY <1>1, <2>1, <2>2, GotoMoves, BecomeMoves DEF SameJob
  <2> QED
    BY <1>1, <2>1, <2>3 DEF InHand
<1>5. CASE RenewTrack(p)
  <2>1. T.op = "renew" /\ SameJob(p) /\ proc'[p].keys = T.keys /\ proc'[p].pc = "label"
    BY <1>1, <1>5, GotoMoves DEF RenewTrack
  <2> QED
    BY <1>1, <2>1 DEF InHand, SameJob
<1>6. CASE RenewLabel(p) \/ RestoreOrphans(p)
  <2>1. proc'[p] = Idle
    BY <1>1, <1>6, BecomeMoves DEF RenewLabel, RestoreOrphans
  <2> QED
    BY <2>1, IdleTyped DEF InHand
<1>7. CASE RestoreCounts(p)
  <2> DEFINE t == [T EXCEPT !.pc = "next", !.counts = Idle.counts]
  <2>1. T.op = "restore" /\ Become(p, t)
    BY <1>2, <1>7 DEF RestoreCounts, At
  <2>2. t.op = T.op /\ t.keys = T.keys /\ t.pc = "next"
    BY <1>1 DEF Threads
  <2>3. proc'[p] = t
    BY <1>1, <2>1, BecomeMoves
  <2> HIDE DEF t
  <2> QED
    BY <1>1, <2>1, <2>2, <2>3 DEF InHand
<1>8. CASE RestoreNext(p)
  <2>1. T.op = "restore" /\ T.keys = {}
    BY <1>1, <1>2, <1>8 DEF RestoreNext, At, InHand
  <2>2. CASE Goto(p, "orphans")
    <3>1. SameJob(p) /\ proc'[p].keys = T.keys /\ proc'[p].pc = "orphans"
      BY <1>1, <2>2, GotoMoves
    <3> QED
      BY <2>1, <3>1 DEF InHand, SameJob
  <2>3. CASE ~Goto(p, "orphans")
    <3>1. PICK r \in T.todo : Become(p, [T EXCEPT !.pc = "lookup", !.s = r, !.keys = spec[r].keys,
                                             !.todo = @ \ {r}])
      BY <1>8, <2>3 DEF RestoreNext
    <3> DEFINE t == [T EXCEPT !.pc = "lookup", !.s = r, !.keys = spec[r].keys, !.todo = @ \ {r}]
    <3>2. proc'[p] = t
      BY <1>1, <3>1, BecomeMoves
    <3>3. t.op = "restore" /\ t.pc = "lookup" /\ t.keys = spec[r].keys
      BY <1>1, <2>1 DEF Threads
    <3>4. spec[r].keys = {}
      BY <1>1, <3>1 DEF Named, Turn, Apart
    <3> HIDE DEF t
    <3> QED
      BY <3>2, <3>3, <3>4 DEF InHand
  <2> QED
    BY <2>2, <2>3
<1> QED
  BY <1>3, <1>4, <1>5, <1>6, <1>7, <1>8

LEMMA EndInHand ==
  ASSUME Typed, Apart, NEW p \in Procs, EndStep(p), ~Dies
  PROVE  InHand(proc[p])'
<1> DEFINE T == proc[p]
<1>1. /\ InHand(T) /\ spec' = spec
      /\ T.op \in {"create", "delete", "expire", "restore"}
      /\ T.pc \in {"untrack", "sidecar", "release", "unmount"}
      /\ T.op = "create" => T.pc \in {"release", "unmount"}
  BY EndLeads, StepKeeps DEF Apart, Step, Expiring
<1>2. CASE Untrack(p) \/ CleanupSidecar(p) \/ Unmount(p)
  <2>1. /\ SameJob(p) /\ proc'[p].keys = T.keys
        /\ proc'[p].pc = "release" \/ (T.pc = "untrack" /\ proc'[p].pc = "sidecar")
    BY <1>2, EndMoves DEF Untrack, At
  <2> QED
    BY <1>1, <2>1 DEF InHand, SameJob
<1>3. CASE ReleaseMount(p)
  <2>1. PICK k \in T.keys : SameJob(p) /\ proc'[p].pc \in {"unmount", "release"} /\ proc'[p].keys = T.keys \ {k}
    BY <1>3, EndMoves
  <2> QED
    BY <1>1, <2>1 DEF InHand, SameJob
<1>4. CASE UnmountHangs(p)
  BY <1>4, EndMoves, IdleTyped DEF InHand
<1>5. CASE Finish(p)
  <2>1. \/ proc'[p] = Idle
        \/ T.op = "restore" /\ proc'[p].op = "restore" /\ proc'[p].pc = "next" /\ proc'[p].keys = T.keys
    BY <1>5, EndMoves
  <2> QED
    BY <1>1, <2>1, IdleTyped DEF InHand
<1> QED
  BY <1>2, <1>3, <1>4, <1>5 DEF EndStep

LEMMA ExpireInHand ==
  ASSUME Typed, Identified, Apart, NEW p \in Procs, ExpireStep(p)
  PROVE  InHand(proc[p])'
<1> DEFINE T == proc[p]
<1>1. /\ T.op \in {"expire", "restore"} /\ InHand(T) /\ Named(T) /\ T.s \in Sandboxes
  <2>1. T.op \in {"expire", "restore"} /\ InHand(T) /\ Named(T)
    BY ExpireLeads DEF Apart, Expiring, Identified
  <2>2. T.pc \notin RestoreSteps \cup {"idle"}
    BY DEF ExpireStep, ExpireLookup, RetryLook, Rearm, ReadDeadline, ExpireKill, ExpireRemove, At, RestoreSteps
  <2> QED
    BY <2>1, <2>2, Running1
<1>2. spec[T.s].keys = {}
  BY <1>1, SandboxesAssumption DEF Named, Apart
<1>3. proc'[p].keys = {} /\ proc'[p].op = T.op
  BY <1>1, <1>2, ExpireMoves DEF InHand, SameJob
<1>4. proc'[p].pc # "unmount"
  BY ExpireMoves
<1> QED
  BY <1>1, <1>3, <1>4 DEF InHand

LEMMA StepApart ==
  ASSUME Typed, Identified, Apart, NEW p \in Procs, Step(p)
  PROVE  Apart'
<1>1. spec' = spec /\ \A r \in Sandboxes : timer'[r].keys = {}
  BY StepKeeps, TimerKeys
<1>2. CASE Dies
  BY <1>1, <1>2, IdleTyped DEF Apart, Dies, InHand
<1>3. CASE ~Dies
  <2>1. Others(p)
    <3>1. PICK t \in Threads : Become(p, t)
      BY <1>3, ProvisionLeads, LoopLeads, ExpireLeads, EndLeads DEF Leads, Step, LoopStep
    <3> QED
      BY <3>1, BecomeMoves DEF Typed
  <2>2. InHand(proc[p])'
    BY <1>3, ProvisionInHand, LoopInHand, EndInHand, ExpireInHand DEF Step, LoopStep
  <2> QED
    BY <1>1, <2>1, <2>2 DEF Apart, Others, InHand
<1> QED
  BY <1>2, <1>3

LEMMA RequestApart ==
  ASSUME KeysApart, Typed, Apart, Create \/ Delete \/ Renew
  PROVE  Apart'
<1>1. Loop \in Procs /\ TypeOK /\ timer' = timer
  BY DEF Procs, Typed, Create, Delete, Renew, memory, tracking
<1>2. \A q \in Timers : proc[q].op = "expire" \/ proc[q].op = "idle"
  BY LoopAssumption DEF Typed, Turns, Turn, Procs
<1>3. ASSUME NEW t, Become(Loop, t), InHand(t)',
             \A s \in Sandboxes : spec'[s].timed => spec'[s].keys = {}
      PROVE  Apart'
  <2>1. Others(Loop) /\ proc'[Loop] = t
    BY <1>1, <1>3, BecomeMoves
  <2>2. ASSUME NEW q \in Procs PROVE InHand(proc[q])'
    <3>1. CASE q = Loop
      BY <1>3, <2>1, <3>1 DEF InHand
    <3>2. CASE q # Loop
      BY <1>2, <2>1, <3>2 DEF Others, Apart, InHand, Procs
    <3> QED
      BY <3>1, <3>2
  <2> QED
    BY <1>1, <1>3, <2>2 DEF Apart
<1>4. CASE Create
  <2>1. PICK s \in Sandboxes \ used, shape \in Requests, d \in Times :
          /\ spec' = [spec EXCEPT ![s] = shape]
          /\ Become(Loop, [Idle EXCEPT !.op = "create", !.pc = "mount", !.s = s,
                                      !.keys = shape.keys, !.to = d])
    BY <1>4 DEF Create
  <2> DEFINE t == [Idle EXCEPT !.op = "create", !.pc = "mount", !.s = s, !.keys = shape.keys, !.to = d]
  <2>2. t.op = "create" /\ t.pc = "mount" /\ t.s = s /\ t.keys = shape.keys /\ t.held = {}
    BY IdleTyped DEF Threads
  <2>3. spec'[s] = shape /\ \A r \in Sandboxes : r # s => spec'[r] = spec[r]
    BY <1>1, <2>1 DEF TypeOK
  <2>4. \A r \in Sandboxes : spec'[r].timed => spec'[r].keys = {}
    BY <2>1, <2>3 DEF KeysApart, Apart
  <2>5. Become(Loop, t)
    BY <2>1
  <2> HIDE DEF t
  <2>6. InHand(t)'
    BY <2>2, <2>3 DEF InHand
  <2> QED
    BY <1>3, <2>4, <2>5, <2>6
<1>5. CASE Delete
  <2>1. PICK s \in Sandboxes, keys \in SUBSET Keys :
          /\ keys = spec[s].keys
          /\ Become(Loop, [Idle EXCEPT !.op = "delete", !.pc = "kill", !.s = s, !.keys = keys])
    BY <1>1, <1>5 DEF Delete, TypeOK, Shapes
  <2> DEFINE t == [Idle EXCEPT !.op = "delete", !.pc = "kill", !.s = s, !.keys = keys]
  <2>2. t.op = "delete" /\ t.pc = "kill" /\ t.s = s /\ t.keys = keys
    BY IdleTyped DEF Threads
  <2>3. Become(Loop, t) /\ spec' = spec
    BY <1>5, <2>1 DEF Delete, clients
  <2> HIDE DEF t
  <2>4. InHand(t)'
    BY <2>1, <2>2, <2>3 DEF InHand
  <2> QED
    BY <1>3, <2>3, <2>4 DEF Apart
<1>6. CASE Renew
  <2>1. PICK s \in Sandboxes, d \in Times :
          Become(Loop, [Idle EXCEPT !.op = "renew", !.pc = "rearm", !.s = s, !.to = d])
    BY <1>6 DEF Renew
  <2> DEFINE t == [Idle EXCEPT !.op = "renew", !.pc = "rearm", !.s = s, !.to = d]
  <2>2. t.op = "renew" /\ t.pc = "rearm" /\ t.keys = {}
    BY IdleTyped DEF Threads
  <2>3. Become(Loop, t) /\ spec' = spec
    BY <1>6, <2>1 DEF Renew, clients
  <2> HIDE DEF t
  <2>4. InHand(t)'
    BY <2>2 DEF InHand
  <2> QED
    BY <1>3, <2>3, <2>4 DEF Apart
<1> QED
  BY <1>4, <1>5, <1>6

LEMMA FireApart ==
  ASSUME Typed, Apart, NEW p \in Timers, Fire(p)
  PROVE  Apart'
<1>1. PICK s \in Sandboxes :
        /\ timer' = [timer EXCEPT ![s] = NoTimer]
        /\ Become(p, [Idle EXCEPT !.op = "expire", !.pc = "lookup", !.s = s, !.keys = timer[s].keys])
  BY DEF Fire
<1> DEFINE t == [Idle EXCEPT !.op = "expire", !.pc = "lookup", !.s = s, !.keys = timer[s].keys]
<1>2. p \in Procs /\ spec' = spec
  BY DEF Procs, Fire, clients
<1>3. Others(p) /\ proc'[p] = t
  BY <1>1, <1>2, BecomeMoves DEF Typed
<1>4. t.op = "expire" /\ t.pc = "lookup" /\ t.keys = {}
  BY <1>1, IdleTyped DEF Threads, Apart
<1> HIDE DEF t
<1>5. \A r \in Sandboxes : timer'[r].keys = {}
  BY <1>1 DEF Typed, TypeOK, Apart, NoTimer
<1> QED
  BY <1>2, <1>3, <1>4, <1>5 DEF Apart, Others, InHand

LEMMA ServerApart ==
  ASSUME Typed, Apart, Crash \/ Restart
  PROVE  Apart'
<1>1. spec' = spec /\ Loop \in Procs /\ NoTimer.keys = {} /\ TypeOK
  BY DEF Crash, Restart, clients, Procs, NoTimer, Typed
<1>2. CASE Crash
  <2>1. (\A q \in Procs : proc'[q] = Idle) /\ (\A r \in Sandboxes : timer'[r] = NoTimer)
    BY <1>2 DEF Crash, Dies
  <2> QED
    BY <1>1, <2>1, IdleTyped DEF Apart, InHand
<1>3. CASE Restart /\ UNCHANGED <<tracking, proc>>
  BY <1>1, <1>3 DEF Apart, InHand, tracking
<1>4. CASE Restart /\ ~UNCHANGED <<tracking, proc>>
  <2> DEFINE counts == [k \in Keys |-> Cardinality(Holders(k))]
             todo == {s \in Sandboxes : Overdue(s)}
             t == [Idle EXCEPT !.op = "restore", !.pc = "counts", !.todo = todo, !.counts = counts]
  <2>1. /\ timer' = [s \in Sandboxes |-> IF Present(s) /\ box[s].label > now
                                         THEN [at |-> box[s].label, keys |-> {}] ELSE NoTimer]
        /\ Become(Loop, t)
    BY <1>4 DEF Restart
  <2>2. Others(Loop) /\ proc'[Loop] = t
    BY <1>1, <2>1, BecomeMoves
  <2>3. t.op = "restore" /\ t.pc = "counts" /\ t.keys = {}
    BY IdleTyped DEF Threads
  <2> HIDE DEF t
  <2>4. \A r \in Sandboxes : timer'[r].keys = {}
    BY <1>1, <2>1
  <2> QED
    BY <1>1, <2>2, <2>3, <2>4 DEF Apart, Others, InHand
<1> QED
  BY <1>2, <1>3, <1>4

\* A connection that breaks takes a thread out of what it does.
LEMMA BreakApart ==
  ASSUME Typed, Apart, NEW p \in Procs, ConnectionBreaks(p)
  PROVE  Apart'
<1>1. Abandons(p) /\ spec' = spec /\ NoTimer.keys = {} /\ TypeOK
  BY BreakMoves DEF clients, NoTimer, Typed
<1>2. CASE Dies
  <2>1. (\A q \in Procs : proc'[q] = Idle) /\ (\A r \in Sandboxes : timer'[r] = NoTimer)
    BY <1>2 DEF Dies
  <2> QED
    BY <1>1, <2>1, IdleTyped DEF Apart, InHand
<1>3. CASE Become(p, Idle) /\ UNCHANGED memory
  <2>1. Others(p) /\ proc'[p] = Idle /\ timer' = timer
    BY <1>3, BecomeMoves DEF Typed, memory, tracking
  <2> QED
    BY <1>1, <2>1, IdleTyped DEF Apart, Others, InHand
<1> QED
  BY <1>1, <1>2, <1>3 DEF Abandons

LEMMA InitApart == Init => Apart
BY IdleTyped DEF Init, Apart, InHand, NoShape, NoTimer

LEMMA NextApart ==
  ASSUME KeysApart
  PROVE  Typed /\ Identified /\ Apart /\ [Next]_vars => Apart'
<1> SUFFICES ASSUME Typed, Identified, Apart, [Next]_vars PROVE Apart'
  OBVIOUS
<1>1. CASE Create \/ Delete \/ Renew
  BY <1>1, RequestApart
<1>2. CASE \E p \in Procs : Step(p)
  BY <1>2, StepApart
<1>3. CASE \E t \in Timers : Fire(t)
  BY <1>3, FireApart
<1>4. CASE Crash \/ Restart
  BY <1>4, ServerApart
<1>5. CASE Pause \/ Resume \/ Exit \/ Tick \/ UNCHANGED vars
  <2>1. UNCHANGED <<timer, proc, spec>>
    BY <1>5 DEF Pause, Resume, Exit, Tick, vars, memory, tracking, clients
  <2> QED
    BY <2>1 DEF Apart, InHand
<1>6. CASE \E p \in Procs : ConnectionBreaks(p)
  BY <1>6, BreakApart
<1> QED
  BY <1>1, <1>2, <1>3, <1>4, <1>5, <1>6 DEF Next

-----------------------------------------------------------------------------
(* The containers that bind a key.                                         *)

\* The count follows when one container appears or disappears.
LEMMA HoldersMove ==
  ASSUME NEW s \in Sandboxes, NEW k, spec' = spec,
         \A r \in Sandboxes : r # s => (Present(r)' <=> Present(r))
  PROVE  Cardinality(Holders(k))' + Num(Present(s) /\ k \in spec[s].keys)
           = Cardinality(Holders(k)) + Num(Present(s)' /\ k \in spec[s].keys)
<1> DEFINE H == Holders(k)
           G == Holders(k)'
<1>1. IsFiniteSet(H) /\ Cardinality(H) \in Nat
  BY HoldersFinite
<1>2. \A r : r \in H <=> r \in Sandboxes /\ Present(r) /\ k \in spec[r].keys
  BY DEF Holders
<1>3. \A r : r \in G <=> r \in Sandboxes /\ Present(r)' /\ k \in spec[r].keys
  BY DEF Holders
<1> HIDE DEF H, G
<1>4. CASE s \in H <=> s \in G
  <2>1. H = G
    BY <1>2, <1>3, <1>4
  <2> QED
    BY <1>1, <1>2, <1>3, <1>4, <2>1 DEF Num, H, G
<1>5. CASE s \notin H /\ s \in G
  <2>1. G = H \cup {s}
    BY <1>2, <1>3, <1>5
  <2>2. Cardinality(G) = Cardinality(H) + 1
    BY <1>1, <1>5, <2>1, FS_AddElement
  <2>3. ~(Present(s) /\ k \in spec[s].keys) /\ (Present(s)' /\ k \in spec[s].keys)
    BY <1>2, <1>3, <1>5
  <2> QED
    BY <1>1, <2>2, <2>3 DEF Num, H, G
<1>6. CASE s \in H /\ s \notin G
  <2>1. G = H \ {s}
    BY <1>2, <1>3, <1>6
  <2>2. Cardinality(G) = Cardinality(H) - 1
    BY <1>1, <1>6, <2>1, FS_RemoveElement
  <2>3. (Present(s) /\ k \in spec[s].keys) /\ ~(Present(s)' /\ k \in spec[s].keys)
    BY <1>2, <1>3, <1>6
  <2> QED
    BY <1>1, <2>2, <2>3 DEF Num, H, G
<1> QED
  BY <1>4, <1>5, <1>6

LEMMA HoldersStay ==
  ASSUME NEW k,
         \A r \in Sandboxes : (Present(r)' /\ k \in spec'[r].keys) <=> (Present(r) /\ k \in spec[r].keys)
  PROVE  Holders(k)' = Holders(k)
BY DEF Holders

\* A thread that expires touches no mount and no container that binds one.
LEMMA ExpiringQuiet ==
  ASSUME Typed, Identified, Apart, NEW p \in Procs, EndStep(p) \/ ExpireStep(p), Expiring(proc[p])
  PROVE  /\ ~Dies /\ ~RestoreOrphans(p) /\ up' = up /\ refs' = refs /\ mounted' = mounted
         /\ \A r \in Sandboxes : (Present(r)' <=> Present(r)) \/ spec[r].keys = {}
<1> DEFINE T == proc[p]
<1>1. InHand(T) /\ T.keys = {} /\ T.pc # "unmount" /\ Named(T) /\ Step(p)
  BY DEF Apart, InHand, Expiring, Identified, Step
<1>2. ~ReleaseMount(p) /\ ~Unmount(p) /\ ~UnmountHangs(p)
  BY <1>1 DEF ReleaseMount, Unmount, UnmountHangs, At
<1>3. up' = up /\ refs' = refs /\ mounted' = mounted
  BY <1>2, ExpireLeads DEF EndStep, Untrack, CleanupSidecar, Finish, ExpireStep, ExpireLookup, RetryLook, Rearm,
     ReadDeadline, ExpireKill, ExpireRemove, host, memory
<1>4. up /\ T \in Threads
  BY <1>1, StepKeeps
<1>5. T.pc \in {"untrack", "sidecar", "release", "unmount", "lookup", "retry", "rearm", "deadline",
                "expireKill", "expireRemove"}
  BY EndLeads DEF ExpireStep, ExpireLookup, RetryLook, Rearm, ReadDeadline, ExpireKill, ExpireRemove, At
<1>6. ~Dies /\ ~RestoreOrphans(p)
  BY <1>3, <1>4, <1>5 DEF Dies, RestoreOrphans, At
<1>7. ASSUME NEW r \in Sandboxes PROVE (Present(r)' <=> Present(r)) \/ spec[r].keys = {}
  <2>1. CASE r = T.s
    BY <1>1, <2>1, SandboxesAssumption DEF Named, Apart, Expiring
  <2>2. CASE r # T.s
    BY <1>1, <1>6, <2>2, StepLocal DEF Same, Present
  <2> QED
    BY <2>1, <2>2
<1> QED
  BY <1>3, <1>6, <1>7

-----------------------------------------------------------------------------
(* The references.                                                         *)

\* Under a sound daemon no answer of a creation is lost either.
LEMMA MountsWork ==
  DaemonSound' => /\ ~Fails("list") /\ ~Fails("kill") /\ ~Fails("remove") /\ ~Fails("relist")
                  /\ \A r : ~Loses(r)
<1>1. DaemonSound' => DaemonAnswers' /\ "lost" \notin failed'
  BY DEF DaemonSound
<1>2. "lost" \notin failed' => \A r : ~Loses(r)
  BY DEF Loses
<1> QED
  BY <1>1, <1>2, SoundWorks

\* What a step of the loop does to one count.
Goes(k) ==
  /\ \/ refs'[k] + Users(k) = refs[k] + Users(k)'
     \/ "hang" \in failed' /\ refs'[k] = refs[k] /\ Users(k)' <= Users(k)
  /\ refs'[k] > 0 => k \in mounted'
  /\ proc'[Loop].pc = "unmount" /\ proc'[Loop].key = k => refs'[k] = 0
Settles == proc'[Loop].pc # "counts" /\ KillHolds' /\ \A k \in Keys : Goes(k)

LEMMA UsersTyped ==
  ASSUME NEW k
  PROVE  Users(k) \in Nat /\ Users(k)' \in Nat /\ Cardinality(Holders(k)) \in Nat /\ Cardinality(Holders(k))' \in Nat
<1>1. Cardinality(Holders(k)) \in Nat
  BY HoldersFinite
<1>2. Cardinality(Holders(k))' \in Nat
  <2>1. Holders(k)' \in SUBSET Sandboxes
    BY DEF Holders
  <2>2. IsFiniteSet(Holders(k)')
    BY <2>1, SandboxesAssumption, FS_Subset
  <2> QED
    BY <2>2, FS_CardinalityType
<1> QED
  BY <1>1, <1>2 DEF Users, Num

LEMMA SettlesCounts ==
  ASSUME Typed, Typed', \A k \in Keys : CountedFor(k), proc[Loop].pc # "counts", failed \subseteq failed', Settles
  PROVE  \A k \in Keys : CountedFor(k)'
<1> SUFFICES ASSUME NEW k \in Keys PROVE CountedFor(k)'
  OBVIOUS
<1>1. refs[k] \in Nat /\ refs'[k] \in Nat /\ Users(k) \in Nat /\ Users(k)' \in Nat
  BY UsersTyped DEF Typed, TypeOK
<1>2. Goes(k) /\ CountedFor(k)
  BY DEF Settles
<1>3. refs'[k] >= Users(k)' /\ ("hang" \notin failed' => refs'[k] = Users(k)')
  BY <1>1, <1>2 DEF Goes, CountedFor
<1> QED
  BY <1>2, <1>3 DEF Goes, CountedFor, Settles

\* Once the counts are right, what a container binds is mounted.
LEMMA InUseFollows ==
  ASSUME Typed', proc'[Loop].pc # "counts", \A k \in Keys : CountedFor(k)'
  PROVE  InUse'
<1> SUFFICES ASSUME NEW s \in Sandboxes, Present(s)', NEW k \in spec'[s].keys PROVE k \in mounted'
  BY DEF InUse
<1>1. k \in Keys /\ refs'[k] \in Nat
  BY DEF Typed, TypeOK, Shapes
<1>2. s \in Holders(k)' /\ IsFiniteSet(Holders(k)')
  <2>1. Holders(k)' \in SUBSET Sandboxes /\ s \in Holders(k)'
    BY DEF Holders
  <2> QED
    BY <2>1, SandboxesAssumption, FS_Subset
<1>3. Cardinality(Holders(k)') # 0
  BY <1>2, FS_EmptySet
<1>4. Users(k)' # 0 /\ Users(k)' \in Nat
  BY <1>3, UsersTyped DEF Users, Num
<1>5. refs'[k] >= Users(k)'
  BY <1>1 DEF CountedFor
<1> QED
  BY <1>1, <1>4, <1>5 DEF CountedFor

\* A step that neither counts nor mounts.
LEMMA QuietGoes ==
  ASSUME NEW k \in Keys, CountedFor(k), proc[Loop].pc # "counts", refs' = refs, mounted' = mounted,
         Users(k)' = Users(k), proc'[Loop].pc # "unmount"
  PROVE  Goes(k)
BY DEF Goes, CountedFor

LEMMA UsersStay ==
  ASSUME NEW k, box' = box, spec' = spec, k \in Owed(proc[Loop])' <=> k \in Owed(proc[Loop])
  PROVE  Users(k)' = Users(k)
<1>1. Holders(k)' = Holders(k)
  BY DEF Holders, Present
<1> QED
  BY <1>1 DEF Users, Num

\* While the loop creates a sandbox.
LEMMA ProvisionSettles ==
  ASSUME Typed, Identified, Apart, \A k \in Keys : CountedFor(k), DaemonSound',
         NEW p \in Procs, ProvisionStep(p), NEW s, s = proc[p].s
  PROVE  Settles
<1> DEFINE T == proc[p]
<1>1. /\ T \in Threads /\ T.op = "create" /\ s \in Sandboxes /\ TypeOK /\ p = Loop
      /\ Begun(T) /\ InHand(T) /\ spec' = spec /\ ~Fails("remove")
  <2>1. T \in Threads /\ T.op = "create" /\ Turn(p, T) /\ Named(T)
    BY ProvisionLeads DEF Typed, TypeOK, Turns, Identified
  <2>2. s \in Sandboxes
    BY <2>1 DEF Turn, CreateSteps, RestoreSteps
  <2> QED
    BY <2>1, <2>2, ProvisionLeads, MountsWork DEF Typed, Named, Apart, Turn
<1>2. refs \in [Keys -> Nat] /\ box \in [Sandboxes -> Boxes] /\ NoBox.st = "none"
  BY DEF Typed, TypeOK, NoBox
<1>3. T.pc # "counts"
  BY DEF ProvisionStep, PrepareMount, MountsPrepared, StartEgress, CreateContainer, StartContainer,
         UndoContainer, UndoEgress, TrackCreated, At
<1>4. ASSUME SameJob(p), proc'[p].pc \in CreateSteps PROVE KillHolds' /\ proc'[Loop].pc # "counts"
  BY <1>1, <1>4 DEF SameJob, KillHolds, CreateSteps
<1>5. CASE PrepareMount(p)
  <2>1. T.pc = "mount" /\ box' = box
    BY <1>5 DEF PrepareMount, At
  <2>2. PICK k \in T.keys :
          \/ /\ refs' = [refs EXCEPT ![k] = @ + 1]
             /\ mounted' = IF refs[k] = 0 THEN mounted \cup {k} ELSE mounted
             /\ Become(p, [T EXCEPT !.keys = @ \ {k}, !.held = @ \cup {k}])
          \/ /\ UNCHANGED <<mounted, refs>>
             /\ Become(p, [T EXCEPT !.pc = "release", !.keys = T.held])
    BY <1>5 DEF PrepareMount
  <2>3. k \in Keys /\ k \notin T.held
    BY <1>1, <2>1, <2>2 DEF Threads, InHand
  <2>4. CASE /\ refs' = [refs EXCEPT ![k] = @ + 1]
             /\ mounted' = IF refs[k] = 0 THEN mounted \cup {k} ELSE mounted
             /\ Become(p, [T EXCEPT !.keys = @ \ {k}, !.held = @ \cup {k}])
    <3>1. SameJob(p) /\ proc'[p].pc = "mount" /\ proc'[p].held = T.held \cup {k}
      BY <1>1, <2>1, <2>4, PrepareMoves
    <3>2. Owed(proc[Loop]) = T.held /\ Owed(proc[Loop])' = T.held \cup {k}
      BY <1>1, <2>1, <3>1 DEF Owed, SameJob
    <3>3. ASSUME NEW j \in Keys PROVE Goes(j)
      <4>1. Holders(j)' = Holders(j)
        BY <1>1, <2>1 DEF Holders, Present
      <4>2. Users(j)' = Users(j) + Num(j = k) /\ Users(j) \in Nat
        BY <2>3, <3>2, <4>1, UsersTyped DEF Users, Num
      <4>3. refs'[j] = refs[j] + Num(j = k)
        BY <1>2, <2>3, <2>4 DEF Num
      <4>4. refs'[j] > 0 => j \in mounted'
        BY <1>1, <1>2, <1>3, <2>3, <2>4 DEF CountedFor
      <4> QED
        BY <1>1, <1>2, <3>1, <4>2, <4>3, <4>4 DEF Goes, Num
    <3> QED
      BY <1>4, <3>1, <3>3 DEF Settles, CreateSteps
  <2>5. CASE /\ UNCHANGED <<mounted, refs>>
             /\ Become(p, [T EXCEPT !.pc = "release", !.keys = T.held])
    <3>1. SameJob(p) /\ proc'[p].pc = "release" /\ proc'[p].keys = T.held
      BY <1>1, <2>5, ReleaseMoves
    <3>2. Owed(proc[Loop])' = Owed(proc[Loop])
      BY <1>1, <2>1, <3>1 DEF Owed, SameJob
    <3>3. \A j \in Keys : Goes(j)
      BY <1>1, <1>3, <2>1, <2>5, <3>1, <3>2, UsersStay, QuietGoes
    <3> QED
      BY <1>4, <3>1, <3>3 DEF Settles, CreateSteps
  <2> QED
    BY <2>2, <2>4, <2>5
<1>6. CASE MountsPrepared(p) \/ StartEgress(p) \/ UndoEgress(p)
  <2>1. /\ T.pc \in {"mount", "egress", "undoEgress"} /\ box' = box /\ refs' = refs /\ mounted' = mounted
    BY <1>6 DEF MountsPrepared, StartEgress, UndoEgress, At, host, memory
  <2>2. \/ Goto(p, "egress") \/ Goto(p, "container")
        \/ Become(p, [T EXCEPT !.pc = "release", !.keys = T.held])
    BY <1>6 DEF MountsPrepared, StartEgress, UndoEgress
  <2>3. /\ SameJob(p)
        /\ \/ proc'[p].pc \in {"egress", "container"} /\ proc'[p].held = T.held
           \/ proc'[p].pc = "release" /\ proc'[p].keys = T.held
    BY <1>1, <2>2, GotoMoves, ReleaseMoves
  <2>4. Owed(proc[Loop])' = Owed(proc[Loop])
    BY <1>1, <2>1, <2>3 DEF Owed, SameJob
  <2>5. \A j \in Keys : Goes(j)
    BY <1>1, <1>3, <2>1, <2>3, <2>4, UsersStay, QuietGoes
  <2> QED
    BY <1>4, <2>3, <2>5 DEF Settles, CreateSteps
<1>7. CASE CreateContainer(p) \/ StartContainer(p) \/ UndoContainer(p)
  <2>1. /\ T.pc \in {"container", "start", "undo"} /\ refs' = refs /\ mounted' = mounted
        /\ T.held = spec[s].keys
        /\ Present(s) <=> T.pc # "container"
    BY <1>1, <1>7 DEF CreateContainer, StartContainer, UndoContainer, At, memory, InHand, Begun
  <2>2. /\ SameJob(p) /\ proc'[p].held = T.held
        /\ \/ proc'[p].pc = "undoEgress" /\ ~Present(s)'
           \/ proc'[p].pc \in {"start", "track", "undo"} /\ Present(s)'
    <3>1. CASE CreateContainer(p)
      <4>1. T.pc = "container"
        BY <3>1 DEF CreateContainer, At
      <4> QED
        BY <1>1, <1>2, <2>1, <3>1, <4>1, GotoMoves, MountsWork DEF CreateContainer, Present
    <3>2. CASE StartContainer(p)
      <4>1. T.pc = "start"
        BY <3>2 DEF StartContainer, At
      <4> QED
        BY <1>1, <1>2, <2>1, <3>2, <4>1, GotoMoves DEF StartContainer, Present, Boxes
    <3>3. CASE UndoContainer(p)
      BY <1>1, <1>2, <3>3, GotoMoves DEF UndoContainer, Present
    <3> QED
      BY <1>7, <3>1, <3>2, <3>3
  <2>3. \A r \in Sandboxes : r # s => (Present(r)' <=> Present(r))
    <3>1. \A r \in Sandboxes : r # s => box'[r] = box[r]
      BY <1>1, <1>2, <1>7 DEF CreateContainer, StartContainer, UndoContainer
    <3> QED
      BY <3>1 DEF Present
  <2>4. ASSUME NEW j \in Keys PROVE Goes(j)
    <3>1. Cardinality(Holders(j))' + Num(Present(s) /\ j \in spec[s].keys)
             = Cardinality(Holders(j)) + Num(Present(s)' /\ j \in spec[s].keys)
      BY <1>1, <2>3, HoldersMove
    <3>2. Num(j \in Owed(proc[Loop])) = Num(~Present(s) /\ j \in spec[s].keys)
      BY <1>1, <2>1 DEF Owed
    <3>3. Num(j \in Owed(proc[Loop])') = Num(~Present(s)' /\ j \in spec[s].keys)
      BY <1>1, <2>1, <2>2 DEF Owed, SameJob
    <3>4. Users(j)' = Users(j)
      BY <3>1, <3>2, <3>3, UsersTyped DEF Users, Num
    <3> QED
      BY <1>1, <1>3, <2>1, <2>2, <3>4, QuietGoes
  <2> QED
    BY <1>4, <2>2, <2>4 DEF Settles, CreateSteps
<1>8. CASE TrackCreated(p)
  <2>1. T.pc = "track" /\ UNCHANGED <<box, refs, mounted>>
    BY <1>8 DEF TrackCreated, At, host
  <2>2. proc'[p] = Idle
    BY <1>1, <1>8, BecomeMoves DEF TrackCreated
  <2>3. Owed(proc[Loop])' = Owed(proc[Loop])
    BY <1>1, <2>1, <2>2, IdleTyped DEF Owed
  <2>4. \A j \in Keys : Goes(j)
    BY <1>1, <1>3, <2>1, <2>2, <2>3, UsersStay, QuietGoes, IdleTyped
  <2> QED
    BY <1>1, <2>2, <2>4, IdleTyped DEF Settles, KillHolds
<1> QED
  BY <1>5, <1>6, <1>7, <1>8 DEF ProvisionStep

LEMMA UsersSame ==
  ASSUME NEW k, spec' = spec, \A r \in Sandboxes : Present(r)' <=> Present(r),
         k \in Owed(proc[Loop])' <=> k \in Owed(proc[Loop])
  PROVE  Users(k)' = Users(k)
<1>1. Holders(k)' = Holders(k)
  BY HoldersStay
<1> QED
  BY <1>1 DEF Users, Num

\* While it deletes, renews and restores.
LEMMA LoopSettles ==
  ASSUME Typed, Identified, Apart, \A k \in Keys : CountedFor(k), KillHolds, DaemonSound',
         NEW p \in Procs,
         DeleteKill(p) \/ DeleteRemove(p) \/ RenewTrack(p) \/ RenewLabel(p) \/ RestoreNext(p) \/ RestoreOrphans(p),
         NEW s, s = proc[p].s
  PROVE  Settles
<1> DEFINE T == proc[p]
<1>1. T \in Threads /\ TypeOK /\ Turn(p, T) /\ InHand(T) /\ spec' = spec /\ p = Loop
  BY LoopLeads DEF Typed, TypeOK, Turns, Apart
<1>2. box \in [Sandboxes -> Boxes] /\ NoBox.st = "none"
  BY <1>1 DEF TypeOK, NoBox
<1>3. /\ T.pc \in {"kill", "remove"} => T.op = "delete" /\ s \in Sandboxes
      /\ T.pc = "label" => T.op = "renew"
      /\ T.pc = "orphans" => T.op = "restore"
  <2>1. T.op \in Ops /\ Idle.pc = "idle"
    BY <1>1, IdleTyped DEF Threads
  <2> QED
    BY <1>1, <2>1 DEF Turn, Ops, CreateSteps, DeleteSteps, RenewSteps, ExpireSteps, RestoreSteps
<1>4. ~Fails("kill") /\ ~Fails("remove")
  BY MountsWork
<1>5. refs' = refs /\ mounted' = mounted
  BY DEF DeleteKill, DeleteRemove, RenewTrack, RenewLabel, RestoreNext, RestoreOrphans, host, memory
<1>6. T.pc \in {"kill", "remove", "rearm", "label", "next", "orphans"} /\ Owed(T) = {}
  BY DEF DeleteKill, DeleteRemove, RenewTrack, RenewLabel, RestoreNext, RestoreOrphans, At, Owed
<1>7. ASSUME \A r \in Sandboxes : Present(r)' <=> Present(r), Owed(proc'[p]) = {},
             proc'[p].pc \notin {"counts", "unmount"}, KillHolds'
      PROVE  Settles
  <2>1. ASSUME NEW j \in Keys PROVE Goes(j)
    <3>1. Users(j)' = Users(j)
      BY <1>1, <1>6, <1>7, UsersSame
    <3> QED
      BY <1>1, <1>5, <1>6, <1>7, <3>1, QuietGoes
  <2> QED
    BY <1>1, <1>7, <2>1 DEF Settles
<1>8. CASE DeleteKill(p)
  <2>1. T.op = "delete" /\ T.pc = "kill" /\ s \in Sandboxes
    BY <1>3, <1>8 DEF DeleteKill, At
  <2>2. CASE Present(s) /\ Goto(p, "remove") /\ box' = IF Running(s) THEN [box EXCEPT ![s].st = "exited"] ELSE box
    <3>1. SameJob(p) /\ proc'[p].pc = "remove"
      BY <1>1, <2>2, GotoMoves
    <3>2. \A r \in Sandboxes : Present(r)' <=> Present(r)
      BY <1>2, <2>1, <2>2 DEF Present, Running, Boxes
    <3>3. KillHolds'
      BY <1>1, <2>1, <2>2, <3>1, <3>2 DEF KillHolds, SameJob
    <3> QED
      BY <1>7, <3>1, <3>2, <3>3 DEF Owed
  <2>3. CASE ~Present(s) /\ Goto(p, "untrack") /\ box' = box
    <3>1. T.keys = {}
      BY <1>1, <2>1, <2>3 DEF KillHolds
    <3>2. proc'[p].pc = "untrack" /\ proc'[p].keys = {}
      BY <1>1, <2>3, <3>1, GotoMoves
    <3>3. \A r \in Sandboxes : Present(r)' <=> Present(r)
      BY <2>3 DEF Present
    <3>4. KillHolds' /\ Owed(proc'[p]) = {}
      BY <1>1, <3>2 DEF KillHolds, Owed
    <3> QED
      BY <1>7, <3>2, <3>3, <3>4
  <2> QED
    BY <1>4, <1>8, <2>2, <2>3 DEF DeleteKill
<1>9. CASE DeleteRemove(p)
  <2>1. T.op = "delete" /\ T.pc = "remove" /\ s \in Sandboxes
    BY <1>3, <1>9 DEF DeleteRemove, At
  <2>2. CASE Present(s) /\ box' = [box EXCEPT ![s] = NoBox] /\ Become(p, [T EXCEPT !.pc = "untrack", !.flag = TRUE])
    <3> DEFINE t == [T EXCEPT !.pc = "untrack", !.flag = TRUE]
    <3>1. proc'[p] = t
      BY <1>1, <2>2, BecomeMoves
    <3>2. t.op = "delete" /\ t.pc = "untrack" /\ t.keys = T.keys
      BY <1>1, <2>1 DEF Threads
    <3> HIDE DEF t
    <3>3. T.keys = spec[s].keys
      BY <1>1, <2>1 DEF InHand
    <3>4. ~Present(s)' /\ \A r \in Sandboxes : r # s => (Present(r)' <=> Present(r))
      BY <1>2, <2>1, <2>2 DEF Present
    <3>5. ASSUME NEW j \in Keys PROVE Goes(j)
      <4>1. Cardinality(Holders(j))' + Num(Present(s) /\ j \in spec[s].keys)
               = Cardinality(Holders(j)) + Num(Present(s)' /\ j \in spec[s].keys)
        BY <1>1, <2>1, <3>4, HoldersMove
      <4>2. Num(j \in Owed(proc[Loop])) = 0 /\ Num(Present(s)' /\ j \in spec[s].keys) = 0
        BY <1>1, <1>6, <3>4 DEF Num
      <4>3. Num(j \in Owed(proc[Loop])') = Num(Present(s) /\ j \in spec[s].keys)
        BY <1>1, <2>2, <3>1, <3>2, <3>3 DEF Owed
      <4>4. Users(j)' = Users(j)
        BY <4>1, <4>2, <4>3, UsersTyped DEF Users, Num
      <4> QED
        BY <1>1, <1>5, <1>6, <3>1, <3>2, <4>4, QuietGoes
    <3> QED
      BY <1>1, <3>1, <3>2, <3>5 DEF Settles, KillHolds
  <2>3. CASE ~Present(s) /\ Goto(p, "untrack") /\ box' = box
    <3>1. T.keys = {}
      BY <1>1, <2>1, <2>3 DEF KillHolds
    <3>2. proc'[p].pc = "untrack" /\ proc'[p].keys = {}
      BY <1>1, <2>3, <3>1, GotoMoves
    <3>3. \A r \in Sandboxes : Present(r)' <=> Present(r)
      BY <2>3 DEF Present
    <3>4. KillHolds' /\ Owed(proc'[p]) = {}
      BY <1>1, <3>2 DEF KillHolds, Owed
    <3> QED
      BY <1>7, <3>2, <3>3, <3>4
  <2> QED
    BY <1>4, <1>9, <2>2, <2>3 DEF DeleteRemove
<1>10. CASE RenewTrack(p)
  <2>1. T.op = "renew" /\ SameJob(p) /\ proc'[p].pc = "label" /\ box' = box
    BY <1>1, <1>10, GotoMoves DEF RenewTrack, host
  <2>2. (\A r \in Sandboxes : Present(r)' <=> Present(r)) /\ KillHolds' /\ Owed(proc'[p]) = {}
    BY <1>1, <2>1 DEF Present, KillHolds, Owed, SameJob
  <2> QED
    BY <1>7, <2>1, <2>2
<1>11. CASE RenewLabel(p) \/ RestoreOrphans(p)
  <2>1. proc'[p] = Idle
    BY <1>1, <1>11, BecomeMoves DEF RenewLabel, RestoreOrphans
  <2>2. \A r \in Sandboxes : Present(r)' <=> Present(r)
    <3>1. box' = box \/ box' = [box EXCEPT ![s].label = T.to]
      BY <1>11 DEF RenewLabel, RestoreOrphans
    <3> QED
      BY <1>2, <3>1 DEF Present, Boxes
  <2>3. KillHolds' /\ Owed(proc'[p]) = {}
    BY <1>1, <2>1, IdleTyped DEF KillHolds, Owed
  <2> QED
    BY <1>7, <2>1, <2>2, <2>3, IdleTyped
<1>12. CASE RestoreNext(p)
  <2>1. proc'[p].op = "restore" /\ proc'[p].pc \in {"orphans", "lookup"} /\ box' = box
    BY <1>12, NextMoves DEF RestoreNext, host
  <2>2. (\A r \in Sandboxes : Present(r)' <=> Present(r)) /\ KillHolds' /\ Owed(proc'[p]) = {}
    BY <1>1, <2>1 DEF Present, KillHolds, Owed
  <2> QED
    BY <1>7, <2>1, <2>2
<1> QED
  BY <1>8, <1>9, <1>10, <1>11, <1>12

\* While it gives back what it prepared, or what its deletion has freed.
LEMMA EndSettles ==
  ASSUME Typed, Identified, Apart, \A k \in Keys : CountedFor(k),
         NEW p \in Procs, EndStep(p), ~Expiring(proc[p]), ~Dies
  PROVE  Settles
<1> DEFINE T == proc[p]
<1>1. /\ T \in Threads /\ T.op \in {"create", "delete"} /\ TypeOK /\ Turn(p, T) /\ p = Loop
      /\ T.pc \in {"untrack", "sidecar", "release", "unmount"} /\ Owed(T) = T.keys
      /\ box' = box /\ spec' = spec
  <2>1. T.op \in {"create", "delete"} /\ T.pc \in {"untrack", "sidecar", "release", "unmount"}
    BY EndLeads
  <2>2. Turn(p, T) /\ T \in Threads /\ TypeOK
    BY DEF Typed, TypeOK, Turns
  <2>3. box' = box /\ spec' = spec
    BY DEF EndStep, Untrack, CleanupSidecar, ReleaseMount, Unmount, UnmountHangs, Finish, host, clients
  <2> QED
    BY <2>1, <2>2, <2>3 DEF Turn, Owed
<1>2. refs \in [Keys -> Nat]
  BY <1>1 DEF TypeOK
<1>3. \A j : Cardinality(Holders(j))' = Cardinality(Holders(j))
  BY <1>1 DEF Holders, Present
<1>4. ASSUME refs' = refs, mounted' = mounted, Owed(proc'[p]) = T.keys,
             proc'[p].pc \notin {"counts", "unmount", "kill", "remove"}
      PROVE  Settles
  <2>1. ASSUME NEW j \in Keys PROVE Goes(j)
    <3>1. Users(j)' = Users(j)
      BY <1>1, <1>4, UsersStay
    <3> QED
      BY <1>1, <1>4, <3>1, QuietGoes
  <2> QED
    BY <1>1, <1>4, <2>1 DEF Settles, KillHolds
<1>5. CASE Untrack(p) \/ CleanupSidecar(p)
  <2>1. proc'[p].pc \in {"sidecar", "release"} /\ proc'[p].keys = T.keys
    BY <1>5, EndMoves
  <2>2. refs' = refs /\ mounted' = mounted
    BY <1>5 DEF Untrack, CleanupSidecar, host, memory
  <2> QED
    BY <1>4, <2>1, <2>2 DEF Owed
<1>6. CASE ReleaseMount(p)
  <2>1. PICK k \in T.keys :
          /\ refs' = [refs EXCEPT ![k] = IF refs[k] > 0 THEN @ - 1 ELSE @]
          /\ proc'[p].keys = T.keys \ {k}
          /\ IF refs[k] = 1 THEN proc'[p].pc = "unmount" /\ proc'[p].key = k
                            ELSE proc'[p].pc = "release"
    BY <1>6, EndMoves
  <2>2. mounted' = mounted /\ k \in Keys /\ Owed(proc'[p]) = T.keys \ {k}
    BY <1>1, <1>6, <2>1 DEF ReleaseMount, host, Threads, Owed
  <2>3. ASSUME NEW j \in Keys PROVE Users(j)' = Users(j) - Num(j = k) /\ Users(j) \in Nat
    <3>1. Num(j \in Owed(proc[Loop])') = Num(j \in Owed(proc[Loop])) - Num(j = k)
      BY <1>1, <2>1, <2>2 DEF Num
    <3> QED
      BY <1>3, <3>1, UsersTyped DEF Users, Num
  <2>4. refs[k] > 0
    <3>1. Users(k) >= 1
      BY <1>1, <2>1, <2>2, UsersTyped DEF Users, Num
    <3>2. refs[k] >= Users(k)
      BY <1>1, <2>2 DEF CountedFor
    <3> QED
      BY <1>2, <2>2, <3>1, <3>2, UsersTyped
  <2>5. ASSUME NEW j \in Keys PROVE Goes(j)
    <3>1. refs'[j] = refs[j] - Num(j = k) /\ refs[j] \in Nat
      BY <1>2, <2>1, <2>4 DEF Num
    <3>2. refs[j] > 0 => j \in mounted
      BY <1>1 DEF CountedFor
    <3>3. refs'[j] > 0 => j \in mounted'
      BY <2>2, <3>1, <3>2 DEF Num
    <3>4. proc'[Loop].pc = "unmount" /\ proc'[Loop].key = j => refs'[j] = 0
      BY <1>1, <2>1, <3>1 DEF Num
    <3> QED
      BY <2>3, <3>1, <3>3, <3>4 DEF Goes, Num
  <2> QED
    BY <1>1, <2>1, <2>5 DEF Settles, KillHolds
<1>7. CASE Unmount(p)
  <2>1. T.pc = "unmount" /\ proc'[p].pc = "release" /\ proc'[p].keys = T.keys
    BY <1>7, EndMoves DEF Unmount, At
  <2>2. refs' = refs /\ mounted \ {T.key} \subseteq mounted'
    BY <1>7 DEF Unmount, memory
  <2>3. ASSUME NEW j \in Keys PROVE Goes(j)
    <3>1. Users(j)' = Users(j)
      BY <1>1, <2>1, UsersStay DEF Owed
    <3>2. refs'[j] > 0 => j \in mounted'
      BY <1>1, <2>1, <2>2 DEF CountedFor
    <3> QED
      BY <1>1, <2>1, <2>2, <3>1, <3>2 DEF Goes
  <2> QED
    BY <1>1, <2>1, <2>3 DEF Settles, KillHolds
<1>8. CASE UnmountHangs(p)
  <2>1. proc'[p] = Idle /\ "hang" \in failed' /\ mounted' = mounted /\ refs' = refs
    BY <1>1, <1>8, EndMoves DEF UnmountHangs, Abandons, Fails, host, memory
  <2>2. ASSUME NEW j \in Keys PROVE Goes(j)
    <3>1. Users(j)' <= Users(j)
      BY <1>1, <1>3, <2>1, IdleTyped, UsersTyped DEF Users, Num, Owed
    <3> QED
      BY <1>1, <2>1, <3>1, IdleTyped DEF Goes, CountedFor
  <2> QED
    BY <1>1, <2>1, <2>2, IdleTyped DEF Settles, KillHolds
<1>9. CASE Finish(p)
  <2>1. T.keys = {} /\ proc'[p] = Idle /\ refs' = refs /\ mounted' = mounted
    BY <1>1, <1>9, EndMoves DEF Finish, host, memory
  <2> QED
    BY <1>4, <2>1, IdleTyped DEF Owed
<1> QED
  BY <1>5, <1>6, <1>7, <1>8, <1>9 DEF EndStep

LEMMA ReleasesNoRestore ==
  ASSUME Typed, Apart, NEW p \in Procs, Step(p)
  PROVE  ~Dies /\ (~RestoreCounts(p) => proc[p].pc # "counts")
<1>1. up /\ InHand(proc[p])
  BY StepKeeps DEF Apart
<1>2. ~RestoreCounts(p) => proc[p].pc # "counts"
  BY DEF Step, LoopStep, ProvisionStep, EndStep, ExpireStep,
    PrepareMount, MountsPrepared, StartEgress, CreateContainer, StartContainer, UndoContainer, UndoEgress,
    TrackCreated, DeleteKill, DeleteRemove, RenewTrack, RenewLabel, RestoreNext, RestoreOrphans,
    Untrack, CleanupSidecar, ReleaseMount, Unmount, UnmountHangs, Finish,
    ExpireLookup, RetryLook, Rearm, ReadDeadline, ExpireKill, ExpireRemove, At
<1>3. ~Dies
  <2>1. SUFFICES ASSUME Dies PROVE FALSE
    OBVIOUS
  <2>2. UnmountHangs(p)
    BY <1>1, <2>1, ProvisionLeads, LoopLeads, ExpireLeads DEF Dies, Step, LoopStep, EndStep, Untrack,
       CleanupSidecar, ReleaseMount, Unmount, Finish
  <2>3. proc[p].op = "restore" /\ proc[p].pc = "unmount"
    BY <1>1, <2>1, <2>2 DEF UnmountHangs, Abandons, Dies, At
  <2> QED
    BY <1>1, <2>3 DEF InHand
<1> QED
  BY <1>2, <1>3

\* A step that is not about the loop, the references or the mounts.
LEMMA CountsStay ==
  ASSUME Typed, Apart, Counts, UNCHANGED <<up, refs, mounted, spec>>, failed \subseteq failed',
         proc'[Loop] = proc[Loop],
         \A r \in Sandboxes : (Present(r)' <=> Present(r)) \/ spec[r].keys = {}
  PROVE  Counts'
<1>1. \A k : Cardinality(Holders(k))' = Cardinality(Holders(k))
  <2>1. \A k : Holders(k)' = Holders(k)
    BY DEF Holders
  <2> QED
    BY <2>1
<1>2. \A k : Users(k)' = Users(k)
  BY <1>1 DEF Users
<1>3. ASSUME up, NEW k \in Keys PROVE CountedFor(k)'
  BY <1>1, <1>2, <1>3 DEF Counts, CountedFor
<1>4. InUse'
  BY DEF Counts, InUse
<1>5. KillHolds'
  <2>1. Loop \in Procs /\ InHand(proc[Loop]) /\ Turn(Loop, proc[Loop])
    BY DEF Apart, Procs, Typed, Turns
  <2>2. SUFFICES ASSUME proc[Loop].op = "delete", proc[Loop].pc \in {"kill", "remove"}, proc[Loop].keys # {}
                 PROVE  Present(proc[Loop].s)'
    BY DEF KillHolds
  <2>3. Present(proc[Loop].s) /\ spec[proc[Loop].s].keys # {} /\ proc[Loop].s \in Sandboxes
    BY <2>1, <2>2 DEF Counts, KillHolds, InHand, Turn, RestoreSteps
  <2> QED
    BY <2>3
<1> QED
  BY <1>3, <1>4, <1>5 DEF Counts

LEMMA ExpiringCounts ==
  ASSUME Typed, Typed', Identified, Apart, Apart', Counts, NEW p \in Procs,
         EndStep(p) \/ ExpireStep(p), Expiring(proc[p])
  PROVE  Counts' \/ (p = Loop /\ Settles)
<1>1. /\ ~Dies /\ ~RestoreOrphans(p) /\ up' = up /\ refs' = refs /\ mounted' = mounted
      /\ \A r \in Sandboxes : (Present(r)' <=> Present(r)) \/ spec[r].keys = {}
  BY ExpiringQuiet
<1>2. Step(p) /\ spec' = spec /\ failed \subseteq failed' /\ up /\ Turn(p, proc[p])
  BY StepKeeps DEF Step
<1>3. CASE p # Loop
  <2>1. Others(p) /\ Loop \in Procs
    BY <1>1, <1>2, RestoreStays DEF Procs
  <2> QED
    BY <1>1, <1>2, <1>3, <2>1, CountsStay DEF Others
<1>4. CASE p = Loop
  <2>1. proc[Loop].op = "restore" /\ proc'[Loop].op = "restore"
    <3>1. proc[Loop].op = "restore"
      BY <1>2, <1>4 DEF Turn, Expiring
    <3>2. SameJob(p) \/ proc'[p].op = "restore"
      <4>1. CASE EndStep(p)
        BY <1>1, <1>4, <3>1, <4>1, EndMoves DEF EndStep
      <4>2. CASE ExpireStep(p)
        BY <4>2, ExpireMoves
      <4> QED
        BY <4>1, <4>2
    <3> QED
      BY <1>4, <3>1, <3>2 DEF SameJob
  <2>2. Owed(proc[Loop]) = {} /\ Owed(proc'[Loop]) = {} /\ proc'[Loop].pc # "unmount"
    BY <2>1 DEF Apart, InHand, Procs, Owed
  <2>3. proc[Loop].pc # "counts" /\ proc'[Loop].pc # "counts"
    <3>1. ~RestoreCounts(p)
      BY EndLeads DEF ExpireStep, ExpireLookup, RetryLook, Rearm, ReadDeadline, ExpireKill, ExpireRemove,
         RestoreCounts, At
    <3>2. proc'[p].pc # "counts"
      <4>1. CASE EndStep(p)
        BY <1>1, <1>4, <2>1, <4>1, EndMoves DEF EndStep
      <4>2. CASE ExpireStep(p)
        BY <4>2, ExpireMoves
      <4> QED
        BY <4>1, <4>2
    <3> QED
      BY <1>2, <1>4, <3>1, <3>2, ReleasesNoRestore
  <2>4. ASSUME NEW j \in Keys PROVE Goes(j)
    <3>1. Holders(j)' = Holders(j)
      BY <1>1, <1>2 DEF Holders
    <3>2. Users(j)' = Users(j)
      BY <2>2, <3>1 DEF Users
    <3>3. CountedFor(j)
      BY <1>2 DEF Counts
    <3> QED
      BY <1>1, <2>2, <2>3, <3>2, <3>3, QuietGoes
  <2> QED
    BY <1>4, <2>1, <2>3, <2>4 DEF Settles, KillHolds
<1> QED
  BY <1>3, <1>4

\* The restore starts from what it has counted, and what it has counted is in use.
LEMMA RestoreCountsCounts ==
  ASSUME Typed, Counts, NEW p \in Procs, RestoreCounts(p)
  PROVE  Counts'
<1> DEFINE T == proc[p]
<1>1. T \in Threads /\ TypeOK /\ Turn(p, T) /\ p = Loop /\ T.pc = "counts" /\ Idle.pc = "idle"
  BY LoopLeads, IdleTyped DEF Typed, TypeOK, Turns, RestoreCounts, At
<1>2. up /\ UNCHANGED <<box, mounted, spec, up>> /\ refs' = T.counts
  BY <1>1, Running1 DEF RestoreCounts, host, clients
<1>3. proc'[p].op = "restore" /\ proc'[p].pc = "next"
  <2> DEFINE t == [T EXCEPT !.pc = "next", !.counts = Idle.counts]
  <2>1. Become(p, t)
    BY DEF RestoreCounts
  <2>2. proc'[p] = t
    BY <1>1, <2>1, BecomeMoves
  <2>3. T.op = "restore"
    <3>1. T.op \in Ops
      BY <1>1 DEF Threads
    <3> QED
      BY <1>1, <3>1 DEF Turn, Ops, CreateSteps, DeleteSteps, RenewSteps, ExpireSteps
  <2>4. t.op = "restore" /\ t.pc = "next"
    BY <1>1, <2>3 DEF Threads
  <2> HIDE DEF t
  <2> QED
    BY <2>2, <2>4
<1>4. InUse' /\ KillHolds'
  BY <1>1, <1>2, <1>3 DEF Counts, InUse, KillHolds, Present
<1>5. ASSUME NEW k \in Keys PROVE CountedFor(k)'
  <2>1. T.counts[k] = Cardinality(Holders(k))
    BY <1>1, <1>2 DEF Counts, CountedFor
  <2>2. Cardinality(Holders(k))' = Cardinality(Holders(k)) /\ Cardinality(Holders(k)) \in Nat
    <3>1. Holders(k)' = Holders(k)
      BY <1>2 DEF Holders, Present
    <3> QED
      BY <3>1, UsersTyped
  <2>3. Users(k)' = Cardinality(Holders(k))
    <3>1. Owed(proc[Loop])' = {}
      BY <1>1, <1>3 DEF Owed
    <3> QED
      BY <2>2, <3>1 DEF Users, Num
  <2>4. Cardinality(Holders(k)) > 0 => k \in mounted
    <3>1. SUFFICES ASSUME Cardinality(Holders(k)) > 0 PROVE k \in mounted
      OBVIOUS
    <3>2. Holders(k) # {}
      BY <3>1, FS_EmptySet
    <3>3. PICK s \in Sandboxes : Present(s) /\ k \in spec[s].keys
      BY <3>2 DEF Holders
    <3> QED
      BY <3>3 DEF Counts, InUse
  <2> QED
    BY <1>1, <1>2, <1>3, <2>1, <2>2, <2>3, <2>4 DEF CountedFor
<1> QED
  BY <1>4, <1>5 DEF Counts

LEMMA StepCounts ==
  ASSUME Typed, Typed', Identified, Apart, Apart', Counts, DaemonSound', NEW p \in Procs, Step(p)
  PROVE  Counts'
<1>1. up /\ failed \subseteq failed' /\ ~Dies /\ \A k \in Keys : CountedFor(k)
  BY StepKeeps, ReleasesNoRestore DEF Counts
<1>2. ASSUME p = Loop, Settles, ~RestoreCounts(p) PROVE Counts'
  <2>1. \A k \in Keys : CountedFor(k)'
    BY <1>1, <1>2, SettlesCounts, ReleasesNoRestore
  <2>2. InUse'
    BY <1>2, <2>1, InUseFollows DEF Settles
  <2> QED
    BY <1>2, <2>1, <2>2 DEF Counts, Settles
<1>3. CASE RestoreCounts(p)
  BY <1>3, RestoreCountsCounts
<1>4. CASE ~RestoreCounts(p)
  <2>1. CASE ProvisionStep(p)
    <3>1. p = Loop
      BY <2>1, ProvisionLeads DEF Typed, Turns, Turn
    <3> QED
      BY <1>1, <1>2, <1>4, <2>1, <3>1, ProvisionSettles
  <2>2. CASE DeleteKill(p) \/ DeleteRemove(p) \/ RenewTrack(p) \/ RenewLabel(p) \/ RestoreNext(p) \/ RestoreOrphans(p)
    <3>1. p = Loop
      BY <2>2, LoopLeads
    <3> QED
      BY <1>1, <1>2, <1>4, <2>2, <3>1, LoopSettles DEF Counts
  <2>3. CASE EndStep(p) /\ ~Expiring(proc[p])
    <3>1. p = Loop
      BY <2>3, EndLeads DEF Typed, Turns, Turn
    <3> QED
      BY <1>1, <1>2, <1>4, <2>3, <3>1, EndSettles
  <2>4. CASE (EndStep(p) \/ ExpireStep(p)) /\ Expiring(proc[p])
    BY <1>2, <1>4, <2>4, ExpiringCounts
  <2>5. ExpireStep(p) => Expiring(proc[p])
    BY ExpireLeads
  <2> QED
    BY <1>4, <2>1, <2>2, <2>3, <2>4, <2>5 DEF Step, LoopStep
<1> QED
  BY <1>3, <1>4

-----------------------------------------------------------------------------
(* Requests, timers, the server and the surroundings.                      *)

LEMMA RequestCounts ==
  ASSUME Typed, Identified, Counts, Create \/ Delete \/ Renew
  PROVE  Counts'
<1>1. /\ Loop \in Procs /\ TypeOK /\ proc[Loop] = Idle /\ up /\ Idle.pc = "idle" /\ Owed(Idle) = {}
      /\ UNCHANGED <<box, refs, mounted, failed, up>>
  BY IdleTyped DEF Procs, Typed, Create, Delete, Renew, Serving, host, memory, Works, luck, Owed
<1>2. /\ \A r \in Sandboxes : spec'[r] = spec[r] \/ ~Present(r)
      /\ \E t : /\ Become(Loop, t) /\ t.pc \notin {"counts", "unmount"} /\ Owed(t) = {}
                /\ t.op = "delete" => Present(t.s)
  <2>1. CASE Create
    <3>1. PICK s \in Sandboxes \ used, shape \in Requests, d \in Times :
            /\ spec' = [spec EXCEPT ![s] = shape]
            /\ Become(Loop, [Idle EXCEPT !.op = "create", !.pc = "mount", !.s = s,
                                        !.keys = shape.keys, !.to = d])
      BY <2>1 DEF Create
    <3> DEFINE t == [Idle EXCEPT !.op = "create", !.pc = "mount", !.s = s, !.keys = shape.keys, !.to = d]
    <3>2. t.op = "create" /\ t.pc = "mount" /\ t.held = {}
      BY IdleTyped DEF Threads
    <3>3. \A r \in Sandboxes : spec'[r] = spec[r] \/ ~Present(r)
      BY <1>1, <3>1 DEF TypeOK, Identified, Known
    <3>4. Become(Loop, t)
      BY <3>1
    <3> HIDE DEF t
    <3>5. Owed(t) = {}
      BY <3>2 DEF Owed
    <3> QED
      BY <3>2, <3>3, <3>4, <3>5
  <2>2. CASE Delete
    <3>1. PICK s \in Sandboxes :
            /\ Present(s)
            /\ Become(Loop, [Idle EXCEPT !.op = "delete", !.pc = "kill", !.s = s, !.keys = spec[s].keys])
      BY <2>2 DEF Delete
    <3> DEFINE t == [Idle EXCEPT !.op = "delete", !.pc = "kill", !.s = s, !.keys = spec[s].keys]
    <3>2. t.op = "delete" /\ t.pc = "kill" /\ t.s = s
      BY IdleTyped DEF Threads
    <3>3. Become(Loop, t) /\ spec' = spec
      BY <2>2, <3>1 DEF Delete, clients
    <3> HIDE DEF t
    <3>4. Owed(t) = {}
      BY <3>2 DEF Owed
    <3> QED
      BY <3>1, <3>2, <3>3, <3>4
  <2>3. CASE Renew
    <3>1. PICK s \in Sandboxes, d \in Times :
            Become(Loop, [Idle EXCEPT !.op = "renew", !.pc = "rearm", !.s = s, !.to = d])
      BY <2>3 DEF Renew
    <3> DEFINE t == [Idle EXCEPT !.op = "renew", !.pc = "rearm", !.s = s, !.to = d]
    <3>2. t.op = "renew" /\ t.pc = "rearm"
      BY IdleTyped DEF Threads
    <3>3. Become(Loop, t) /\ spec' = spec
      BY <2>3, <3>1 DEF Renew, clients
    <3> HIDE DEF t
    <3>4. Owed(t) = {}
      BY <3>2 DEF Owed
    <3> QED
      BY <3>2, <3>3, <3>4
  <2> QED
    BY <2>1, <2>2, <2>3
<1>3. PICK t : /\ Become(Loop, t) /\ t.pc \notin {"counts", "unmount"} /\ Owed(t) = {}
               /\ t.op = "delete" => Present(t.s)
  BY <1>2
<1>4. proc'[Loop] = t
  BY <1>1, <1>3, BecomeMoves
<1>5. \A k : Cardinality(Holders(k))' = Cardinality(Holders(k))
  <2>1. \A k : Holders(k)' = Holders(k)
    BY <1>1, <1>2 DEF Holders, Present
  <2> QED
    BY <2>1
<1>6. ASSUME NEW k \in Keys PROVE CountedFor(k)'
  <2>1. CountedFor(k) /\ Users(k)' = Users(k)
    BY <1>1, <1>3, <1>4, <1>5 DEF Counts, Users
  <2> QED
    BY <1>1, <1>3, <1>4, <2>1 DEF CountedFor
<1>7. InUse'
  BY <1>1, <1>2 DEF Counts, InUse, Present
<1>8. KillHolds'
  BY <1>1, <1>3, <1>4 DEF KillHolds, Present
<1> QED
  BY <1>6, <1>7, <1>8 DEF Counts

LEMMA FireCounts ==
  ASSUME Typed, Apart, Counts, NEW p \in Timers, Fire(p)
  PROVE  Counts'
<1>1. UNCHANGED <<box, up, refs, mounted, spec, failed>>
  BY DEF Fire, host, clients, Works, luck
<1>2. proc'[Loop] = proc[Loop]
  <2>1. PICK t : Become(p, t)
    BY DEF Fire
  <2> QED
    BY <2>1, BecomeMoves, LoopAssumption DEF Typed, Procs, Others
<1> QED
  BY <1>1, <1>2, CountsStay DEF Present

LEMMA RestartCounts ==
  ASSUME Typed, Counts, DaemonSound', Restart
  PROVE  Counts'
<1> DEFINE counts == [k \in Keys |-> Cardinality(Holders(k))]
           todo == {s \in Sandboxes : Overdue(s)}
           t == [Idle EXCEPT !.op = "restore", !.pc = "counts", !.todo = todo, !.counts = counts]
<1>1. Become(Loop, t) /\ UNCHANGED <<box, mounted, spec>>
  BY MountsWork DEF Restart, host, clients
<1>2. proc'[Loop] = t
  BY <1>1, BecomeMoves DEF Typed, Procs
<1>3. t.op = "restore" /\ t.pc = "counts" /\ t.counts = counts
  BY IdleTyped DEF Threads
<1> HIDE DEF t
<1>4. ASSUME NEW k \in Keys PROVE CountedFor(k)'
  <2>1. Holders(k)' = Holders(k)
    BY <1>1 DEF Holders, Present
  <2>2. proc'[Loop].counts[k] = Cardinality(Holders(k))
    BY <1>2, <1>3
  <2> QED
    BY <1>2, <1>3, <2>1, <2>2 DEF CountedFor
<1>5. InUse' /\ KillHolds'
  BY <1>1, <1>2, <1>3 DEF Counts, InUse, KillHolds, Present
<1> QED
  BY <1>4, <1>5 DEF Counts

LEMMA CrashCounts ==
  ASSUME Counts, Crash
  PROVE  Counts'
<1>1. ~up' /\ proc'[Loop] = Idle /\ UNCHANGED <<box, mounted, spec>>
  BY DEF Crash, Dies, host, clients, Procs
<1> QED
  BY <1>1, IdleTyped DEF Counts, InUse, KillHolds, Present

LEMMA AroundCounts ==
  ASSUME Typed, Apart, Counts, Pause \/ Resume \/ Exit \/ Tick \/ UNCHANGED vars
  PROVE  Counts'
<1>1. UNCHANGED <<up, refs, mounted, spec, failed, proc>>
  BY DEF Pause, Resume, Exit, Tick, Works, host, memory, clients, luck, vars
<1>2. \A s \in Sandboxes : Present(s)' <=> Present(s)
  <2>1. box' = box \/ \E s \in Sandboxes : box[s].st \in {"running", "paused"} /\ box' \in {[box EXCEPT ![s].st = "running"],
            [box EXCEPT ![s].st = "exited"], [box EXCEPT ![s].st = "paused"]}
    BY DEF Pause, Resume, Exit, Tick, host, vars
  <2>2. box \in [Sandboxes -> Boxes]
    BY DEF Typed, TypeOK
  <2> QED
    BY <2>1, <2>2 DEF Boxes, Present
<1> QED
  BY <1>1, <1>2, CountsStay

LEMMA InitCounts == Init => CountsFollow
<1> SUFFICES ASSUME Init PROVE Counts
  BY DEF CountsFollow
<1>1. /\ \A s \in Sandboxes : ~Present(s)
      /\ Loop \in Procs /\ proc[Loop] = Idle /\ Owed(Idle) = {} /\ \A k \in Keys : refs[k] = 0
  BY IdleTyped DEF Init, Present, NoBox, Procs, Owed
<1>2. ASSUME NEW k \in Keys PROVE CountedFor(k)
  <2>1. Holders(k) = {}
    BY <1>1 DEF Holders
  <2>2. Users(k) = 0
    BY <1>1, <2>1, FS_EmptySet DEF Users, Num
  <2> QED
    BY <1>1, <2>2, IdleTyped DEF CountedFor
<1> QED
  BY <1>1, <1>2, IdleTyped DEF Counts, InUse, KillHolds

LEMMA NextCounts ==
  Typed /\ Typed' /\ Identified /\ Apart /\ Apart' /\ CountsFollow /\ [Next]_vars => CountsFollow'
<1> SUFFICES ASSUME Typed, Typed', Identified, Apart, Apart', CountsFollow, [Next]_vars, DaemonSound'
             PROVE  Counts'
  BY DEF CountsFollow
<1>1. failed \subseteq failed'
  BY NextGrows
<1>2. Counts /\ DaemonAnswers'
  BY <1>1 DEF CountsFollow, DaemonSound, DaemonAnswers, ExpiryAnswered
<1>3. CASE Create \/ Delete \/ Renew
  BY <1>2, <1>3, RequestCounts
<1>4. CASE \E p \in Procs : Step(p)
  BY <1>2, <1>4, StepCounts
<1>5. CASE \E t \in Timers : Fire(t)
  BY <1>2, <1>5, FireCounts
<1>6. CASE Crash
  BY <1>2, <1>6, CrashCounts
<1>7. CASE Restart
  BY <1>2, <1>7, RestartCounts
<1>8. CASE Pause \/ Resume \/ Exit \/ Tick \/ UNCHANGED vars
  BY <1>2, <1>8, AroundCounts
<1>9. ~\E p \in Procs : ConnectionBreaks(p)
  <2>1. ~Fails("connection")
    BY <1>2, SoundWorks
  <2> QED
    BY <2>1, BreakMoves
<1> QED
  BY <1>3, <1>4, <1>5, <1>6, <1>7, <1>8, <1>9 DEF Next

-----------------------------------------------------------------------------
(* The theorems.                                                           *)

LEMMA CountsInv ==
  ASSUME KeysApart
  PROVE  Spec => [](Typed /\ CountsFollow)
<1>1. Typed /\ Identified /\ Apart /\ [Next]_vars => Apart'
  BY NextApart
<1> QED
  BY <1>1, InitTyped, NextTyped, InitIdentified, NextIdentified, InitApart, InitCounts, NextCounts, PTL DEF Spec

\* While the daemon answers and no answer of a creation is lost, what a container
\* binds stays mounted for as long as the container exists, over creations that
\* fail, deletions that share a key, hanging unmounts and restarts, when no request
\* has both an expiration and mounts: _release_ossfs_mount unmounts only what nobody
\* counts any more.
THEOREM MountsInUse ==
  ASSUME KeysApart
  PROVE  Spec => []InUseMounted
<1>1. CountsFollow => InUseMounted
  BY DEF CountsFollow, Counts, InUse, InUseMounted
<1> QED
  BY <1>1, CountsInv, PTL

\* When nothing is in progress, the daemon answers, no answer of a creation was lost
\* and no unmount command has hung, the reference counts are those of the
\* containers: no request that failed half-way, no deletion and no restart leaves a
\* reference behind or takes one away, when no request has both an expiration and
\* mounts.
THEOREM CountsSettled ==
  ASSUME KeysApart
  PROVE  Spec => []CountsSettle
<1>1. Typed /\ CountsFollow => CountsSettle
  <2> SUFFICES ASSUME Typed, Counts, Serving, "hang" \notin failed, NEW k \in Keys
               PROVE  refs[k] = Cardinality(Holders(k))
    BY DEF CountsFollow, CountsSettle
  <2>1. CountedFor(k) /\ proc[Loop].pc # "counts" /\ Owed(proc[Loop]) = {}
    BY IdleTyped DEF Counts, Serving, Owed
  <2>2. Users(k) = Cardinality(Holders(k))
    BY <2>1, UsersTyped DEF Users, Num
  <2> QED
    BY <2>1, <2>2 DEF CountedFor
<1> QED
  BY <1>1, CountsInv, PTL
=============================================================================
