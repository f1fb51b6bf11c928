--------------------------- MODULE DockerSound_proofs ---------------------------
(***************************************************************************)
(* Proofs about DockerRuntime while the Docker daemon answers: no          *)
(* expiration is lost, a sidecar lives as long as its sandbox, and an      *)
(* acknowledged deletion leaves nothing behind.                            *)
(***************************************************************************)
EXTENDS DockerRuntime_proofs

-----------------------------------------------------------------------------
(* The inductive invariant, next to Typed and Identified.                  *)


\* The steps of a thread that has a sidecar to remove or a container to give it.
Sweeping(t) == t.pc \in {"container", "start", "undo", "undoEgress", "untrack", "sidecar"}
Swept(s) == \E p \in Procs : proc[p].s = s /\ Sweeping(proc[p])
Cleaned(s) == deadline[s] = 0 /\ timer[s] = NoTimer

\* While the daemon answers: a sidecar is there for as long as its container, and
\* beyond it only while a thread will remove it, unless the sandbox is astray; what
\* was deleted stays clean.
SoundFor(s) ==
  /\ Present(s) /\ spec[s].policy => s \in sidecar \/ s \in astray
  /\ up /\ ~Restoring /\ s \in sidecar => Present(s) \/ Swept(s) \/ s \in astray
  /\ s \in deleted => s \notin sidecar /\ Cleaned(s)

\* And a thread comes to its last steps only when what precedes them worked.
SoundAt(t) ==
  /\ t.pc \in {"untrack", "sidecar"} => ~Present(t.s)
  /\ t.pc = "undoEgress" => ~Present(t.s) \/ t.s \in astray
  /\ t.op = "create" /\ t.pc \in {"container", "start", "undo", "track"} /\ spec[t.s].policy
       => t.s \in sidecar
  /\ t.op = "create" /\ t.pc \in {"release", "unmount"}
       => (~Present(t.s) /\ t.s \notin sidecar) \/ t.s \in astray
  /\ t.op = "delete" /\ t.pc \in {"release", "unmount"} => ~Present(t.s) /\ t.s \notin sidecar
  /\ t.op = "delete" /\ t.pc \in {"sidecar", "release", "unmount"} => Cleaned(t.s)
  /\ t.pc # "retry" /\ (t.pc = "rearm" => t.op = "renew")

Sounds == (\A s \in Sandboxes : SoundFor(s)) /\ (\A p \in Procs : SoundAt(proc[p]))
Sound == DaemonAnswers => Sounds


\* The restore stays one until it is done, and its list is only taken from.
LEMMA RestoreStays ==
  ASSUME Typed, NEW p \in Procs, Step(p), ~Dies, ~RestoreOrphans(p)
  PROVE  /\ Others(p) /\ up' = up /\ (~Restoring' => ~Restoring)
         /\ RestoreNext(p) \/ proc'[Loop].todo = proc[Loop].todo
<1>1. Others(p)
  <2>1. PICK t \in Threads : Become(p, t)
    BY ProvisionLeads, LoopLeads, ExpireLeads, EndLeads DEF Leads, Step, LoopStep
  <2> QED
    BY <2>1, BecomeMoves DEF Typed
<1>2. TypeOK /\ proc[p] \in Threads /\ Turn(p, proc[p]) /\ up /\ proc[p].op # "idle" /\ Loop \in Procs
  BY StepKeeps DEF Typed, Procs
<1>3. up' = up
  <2>1. CASE EndStep(p)
    BY <2>1 DEF EndStep, Untrack, CleanupSidecar, ReleaseMount, Unmount, UnmountHangs, Abandons, Finish, Dies
  <2>2. CASE ~EndStep(p)
    BY <2>2, ProvisionLeads, LoopLeads, ExpireLeads DEF Step, LoopStep
  <2> QED
    BY <2>1, <2>2
<1>4. CASE p # Loop
  BY <1>1, <1>2, <1>3, <1>4 DEF Others, Restoring
<1>5. CASE p = Loop /\ (SameJob(p) \/ (proc'[p] = Idle /\ proc[p].op # "restore") \/ RestoreNext(p))
  <2>1. RestoreNext(p) => proc[p].op = "restore" /\ proc'[p].op = "restore"
    <3>1. SUFFICES ASSUME RestoreNext(p) PROVE proc[p].op = "restore" /\ proc'[p].op = "restore"
      OBVIOUS
    <3>2. proc[p].op = "restore"
      BY <1>2, <3>1 DEF RestoreNext, At, Turn, Threads, Ops, CreateSteps, DeleteSteps, RenewSteps, ExpireSteps
    <3>3. Goto(p, "orphans") \/ \E s \in proc[p].todo :
             Become(p, [proc[p] EXCEPT !.pc = "lookup", !.s = s, !.keys = spec[s].keys, !.todo = @ \ {s}])
      BY <3>1 DEF RestoreNext
    <3>4. CASE Goto(p, "orphans")
      BY <1>2, <3>2, <3>4, GotoMoves DEF SameJob
    <3>5. ASSUME NEW s, Become(p, [proc[p] EXCEPT !.pc = "lookup", !.s = s, !.keys = spec[s].keys, !.todo = @ \ {s}])
          PROVE  proc'[p].op = "restore"
      <4> DEFINE t == [proc[p] EXCEPT !.pc = "lookup", !.s = s, !.keys = spec[s].keys, !.todo = @ \ {s}]
      <4>1. proc'[p] = t
        BY <1>2, <3>5, BecomeMoves
      <4>2. t.op = "restore"
        BY <1>2, <3>2 DEF Threads
      <4> QED
        BY <4>1, <4>2
    <3> QED
      BY <3>2, <3>3, <3>4, <3>5
  <2>2. proc[p].op # "restore" => proc[p].todo = {}
    BY <1>2 DEF Turn
  <2> QED
    BY <1>1, <1>2, <1>3, <1>5, <2>1, <2>2, IdleTyped DEF SameJob, Restoring
<1>6. SameJob(p) \/ (proc'[p] = Idle /\ proc[p].op # "restore") \/ RestoreNext(p) \/ p # Loop
                 \/ (proc[p].op = "restore" /\ Finish(p))
  <2>1. CASE ProvisionStep(p)
    <3>1. \/ \E step : Goto(p, step)
          \/ Become(p, [proc[p] EXCEPT !.pc = "release", !.keys = proc[p].held])
          \/ \E k : Become(p, [proc[p] EXCEPT !.keys = @ \ {k}, !.held = @ \cup {k}])
          \/ Become(p, Idle)
      BY <2>1 DEF ProvisionStep, PrepareMount, MountsPrepared, StartEgress, CreateContainer,
        StartContainer, UndoContainer, UndoEgress, TrackCreated
    <3> QED
      BY <1>2, <2>1, <3>1, GotoMoves, ReleaseMoves, PrepareMoves, BecomeMoves, ProvisionLeads
  <2>2. CASE DeleteKill(p) \/ RenewTrack(p)
    BY <1>2, <2>2, GotoMoves DEF DeleteKill, RenewTrack
  <2>3. CASE DeleteRemove(p)
    <3> DEFINE t == [proc[p] EXCEPT !.pc = "untrack", !.flag = TRUE]
    <3>1. Become(p, t) \/ Goto(p, "untrack")
      BY <2>3 DEF DeleteRemove
    <3>2. t.op = proc[p].op /\ t.s = proc[p].s /\ t.to = proc[p].to /\ t.todo = proc[p].todo
      BY <1>2 DEF Threads
    <3> HIDE DEF t
    <3> QED
      BY <1>2, <3>1, <3>2, GotoMoves, BecomeMoves DEF SameJob
  <2>4. CASE RenewLabel(p)
    BY <1>2, <2>4, BecomeMoves DEF RenewLabel, At, Turn, RestoreSteps, ExpireSteps
  <2>5. CASE RestoreCounts(p)
    <3> DEFINE t == [proc[p] EXCEPT !.pc = "next", !.counts = Idle.counts]
    <3>1. Become(p, t)
      BY <2>5 DEF RestoreCounts
    <3>2. t.op = proc[p].op /\ t.s = proc[p].s /\ t.to = proc[p].to /\ t.todo = proc[p].todo
      BY <1>2 DEF Threads
    <3> HIDE DEF t
    <3> QED
      BY <1>2, <3>1, <3>2, BecomeMoves DEF SameJob
  <2>6. CASE EndStep(p)
    BY <2>6, EndMoves DEF EndStep
  <2>7. CASE ExpireStep(p)
    BY <2>7, ExpireMoves
  <2> QED
    BY <2>1, <2>2, <2>3, <2>4, <2>5, <2>6, <2>7 DEF Step, LoopStep
<1>7. CASE proc[p].op = "restore" /\ Finish(p)
  <2>1. EndStep(p)
    BY <1>7 DEF EndStep
  <2>2. Others(p) /\ proc'[p].op = "restore" /\ proc'[p].todo = proc[p].todo
    BY <1>7, <2>1, EndMoves
  <2> QED
    BY <1>2, <1>3, <1>4, <1>7, <2>2 DEF Restoring
<1> QED
  BY <1>4, <1>5, <1>6, <1>7

-----------------------------------------------------------------------------
(* A daemon that answers: sidecars, timers and deletions.                  *)

LEMMA SoundWorks ==
  DaemonAnswers' => /\ ~Fails("list") /\ ~Fails("kill") /\ ~Fails("remove")
                    /\ ~Fails("relist") /\ ~Fails("connection")
BY DEF DaemonAnswers, ExpiryAnswered, Fails

LEMMA SweptStays ==
  ASSUME NEW p \in Procs, Others(p), NEW s
  PROVE  /\ Swept(s) /\ ~(proc[p].s = s /\ Sweeping(proc[p])) => Swept(s)'
         /\ proc'[p].s = s /\ Sweeping(proc'[p]) => Swept(s)'
BY DEF Others, Swept, Sweeping

\* The restore takes the next sandbox off its list, or has none left.
LEMMA NextMoves ==
  ASSUME Typed, NEW p \in Procs, RestoreNext(p)
  PROVE  /\ p = Loop /\ proc[p].op = "restore" /\ proc[p].s = NoSandbox /\ proc'[p].op = "restore"
         /\ \/ proc[p].todo = {} /\ proc'[p].todo = {} /\ proc'[p].pc = "orphans" /\ proc'[p].s = NoSandbox
            \/ \E r \in proc[p].todo :
                 proc'[p].s = r /\ proc'[p].pc = "lookup" /\ proc'[p].todo = proc[p].todo \ {r}
<1> DEFINE T == proc[p]
<1>1. TypeOK /\ T \in Threads /\ Turn(p, T) /\ T.pc = "next" /\ p = Loop
  BY LoopLeads DEF Typed, TypeOK, Turns, RestoreNext, At
<1>2. T.op = "restore" /\ T.s = NoSandbox
  <2>1. T.op \in Ops /\ T.pc # "idle"
    BY <1>1 DEF Threads
  <2>2. T.op = "restore"
    BY <1>1, <2>1, IdleTyped DEF Turn, Ops, CreateSteps, DeleteSteps, RenewSteps, ExpireSteps
  <2> QED
    BY <1>1, <2>2 DEF Turn, RestoreSteps
<1>3. CASE T.todo = {} /\ Goto(p, "orphans")
  BY <1>1, <1>2, <1>3, GotoMoves DEF SameJob
<1>4. ASSUME NEW r \in T.todo,
             Become(p, [T EXCEPT !.pc = "lookup", !.s = r, !.keys = spec[r].keys, !.todo = @ \ {r}])
      PROVE  proc'[p].op = "restore" /\ proc'[p].s = r /\ proc'[p].pc = "lookup" /\ proc'[p].todo = T.todo \ {r}
  <2> DEFINE t == [T EXCEPT !.pc = "lookup", !.s = r, !.keys = spec[r].keys, !.todo = @ \ {r}]
  <2>1. proc'[p] = t
    BY <1>1, <1>4, BecomeMoves
  <2>2. t.op = T.op /\ t.s = r /\ t.pc = "lookup" /\ t.todo = T.todo \ {r}
    BY <1>1 DEF Threads
  <2> QED
    BY <1>2, <2>1, <2>2
<1>5. (T.todo = {} /\ Goto(p, "orphans")) \/
      \E r \in T.todo : Become(p, [T EXCEPT !.pc = "lookup", !.s = r, !.keys = spec[r].keys, !.todo = @ \ {r}])
  BY DEF RestoreNext
<1> QED
  BY <1>1, <1>2, <1>3, <1>4, <1>5

\* The sandboxes of the others stay as they should be.
LEMMA OthersSoundFor ==
  ASSUME Typed, NEW p \in Procs, Step(p), ~Dies, ~RestoreOrphans(p),
         NEW r \in Sandboxes, r # proc[p].s, SoundFor(r)
  PROVE  SoundFor(r)'
<1>1. Same(r) /\ spec' = spec /\ Others(p) /\ up' = up /\ (~Restoring' => ~Restoring) /\ astray \subseteq astray'
  BY StepLocal, StepKeeps, RestoreStays
<1>2. Swept(r) => Swept(r)'
  BY <1>1, SweptStays
<1> QED
  BY <1>1, <1>2 DEF Same, SoundFor, Present, Cleaned

\* A step that provisions nothing brings no container into being.
LEMMA GoneStays ==
  ASSUME Typed, NEW p \in Procs, Step(p), ~ProvisionStep(p), NEW r \in Sandboxes, ~Present(r)
  PROVE  ~Present(r)'
<1>1. box \in [Sandboxes -> Boxes] /\ NoBox.st = "none"
  BY DEF Typed, TypeOK, NoBox
<1>2. CASE ExpireStep(p)
  <2>1. \/ box' = box
        \/ box' = [box EXCEPT ![proc[p].s] = NoBox]
        \/ Running(proc[p].s) /\ box' = [box EXCEPT ![proc[p].s].st = "exited"]
    <3>1. CASE ExpireKill(p)
      BY <3>1 DEF ExpireKill
    <3>2. CASE ~ExpireKill(p)
      BY <1>2, <3>2 DEF ExpireStep, ExpireLookup, RetryLook, Rearm, ReadDeadline, ExpireRemove, host
    <3> QED
      BY <3>1, <3>2
  <2> QED
    BY <1>1, <2>1 DEF Present, Running
<1>3. CASE DeleteKill(p) \/ DeleteRemove(p) \/ RenewTrack(p) \/ RenewLabel(p)
           \/ RestoreCounts(p) \/ RestoreNext(p) \/ RestoreOrphans(p)
  BY <1>1, <1>3 DEF Present, Running, DeleteKill, DeleteRemove, RenewTrack, RenewLabel, RestoreCounts, RestoreNext,
     RestoreOrphans, host
<1>4. CASE EndStep(p)
  BY <1>4 DEF Present, EndStep, Untrack, CleanupSidecar, ReleaseMount, Unmount, UnmountHangs, Finish, host
<1> QED
  BY <1>2, <1>3, <1>4 DEF Step, LoopStep

\* Of an expiring thread only a list that fails leads to a retry, so its steps
\* leave what is tracked, or take it away.
LEMMA ExpireTracks ==
  ASSUME Typed, NEW p \in Procs, ExpireStep(p), SoundAt(proc[p]), ~Fails("list"),
         NEW s \in Sandboxes, s = proc[p].s
  PROVE  /\ proc[p].pc \in {"lookup", "deadline", "expireKill", "expireRemove"}
         /\ UNCHANGED <<deadline, timer>> \/ (ExpireLookup(p) /\ ~Present(s) /\ Cleaned(s)')
<1>1. ~RetryLook(p) /\ ~Rearm(p)
  BY DEF SoundAt, RetryLook, Rearm, At
<1>2. CASE ExpireLookup(p)
  BY <1>2 DEF ExpireLookup, At, RemoveTracking, Cleaned, tracking, Typed, TypeOK
<1>3. CASE ReadDeadline(p) \/ ExpireKill(p) \/ ExpireRemove(p)
  BY <1>3 DEF ReadDeadline, ExpireKill, ExpireRemove, At, memory, tracking
<1> QED
  BY <1>1, <1>2, <1>3 DEF ExpireStep

\* Nothing is cleaned and then armed again.
LEMMA CleanedStays ==
  ASSUME Typed, NEW p \in Procs, Step(p), ~Dies, SoundAt(proc[p]), ~Fails("list"), p # Loop,
         NEW s \in Sandboxes, s = proc[p].s, Cleaned(s)
  PROVE  Cleaned(s)'
<1>1. ExpireStep(p) \/ EndStep(p)
  BY ExpiringWeak
<1>2. CASE ExpireStep(p)
  BY <1>2, ExpireTracks DEF Cleaned
<1>3. CASE EndStep(p)
  <2>1. CASE Untrack(p)
    BY <2>1 DEF Untrack, RemoveTracking, Cleaned, Typed, TypeOK
  <2>2. CASE UnmountHangs(p)
    BY <2>2 DEF UnmountHangs, Abandons, Cleaned, memory, tracking
  <2>3. CASE ~Untrack(p) /\ ~UnmountHangs(p)
    BY <1>3, <2>3 DEF EndStep, CleanupSidecar, ReleaseMount, Unmount, Finish, Cleaned, memory, tracking
  <2> QED
    BY <2>1, <2>2, <2>3
<1> QED
  BY <1>1, <1>2, <1>3

\* The other threads are still at steps that what precedes them allows.
LEMMA OthersSoundAt ==
  ASSUME Typed, Identified, Sounds, DaemonAnswers', NEW p \in Procs, Step(p), ~Dies, ~RestoreOrphans(p),
         NEW q \in Procs, q # p, NEW r, r = proc[q].s
  PROVE  SoundAt(proc[q])'
<1> DEFINE T == proc[q]
<1>1. /\ proc'[q] = T /\ SoundAt(T) /\ SoundAt(proc[p]) /\ Turn(q, T) /\ Named(T)
      /\ spec' = spec /\ ~Fails("list") /\ T \in Threads /\ astray \subseteq astray'
  BY RestoreStays, StepKeeps, SoundWorks DEF Others, Sounds, Typed, TypeOK, Turns, Identified
<1>2. T.pc \notin RestoreSteps \cup {"idle"} => r \in Sandboxes
  BY <1>1, IdleTyped DEF Turn
<1>3. r \in Sandboxes /\ r # proc[p].s => Same(r)
  BY StepLocal
<1>4. CASE r # proc[p].s \/ r \notin Sandboxes
  <2>1. CASE r \in Sandboxes
    BY <1>1, <1>3, <1>4, <2>1 DEF SoundAt, Same, Present, Cleaned
  <2>2. CASE r \notin Sandboxes
    BY <1>1, <1>2, <2>2 DEF SoundAt, RestoreSteps
  <2> QED
    BY <2>1, <2>2
<1>5. CASE r \in Sandboxes /\ r = proc[p].s /\ p # Loop
  <2>1. /\ ~Present(r) => ~Present(r)'
        /\ r \notin sidecar => r \notin sidecar'
    BY <1>5, ExpiringWeak DEF Present
  <2>2. Cleaned(r) => Cleaned(r)'
    BY <1>1, <1>5, CleanedStays
  <2>3. T.op # "create"
    BY <1>1, <1>5 DEF Named, Begun, Procs
  <2> QED
    BY <1>1, <2>1, <2>2, <2>3 DEF SoundAt
<1>6. CASE r \in Sandboxes /\ r = proc[p].s /\ p = Loop
  <2>1. T.op \in {"idle", "expire"}
    BY <1>1, <1>6 DEF Turn
  <2>2. proc[p].op # "create"
    <3>1. Named(proc[p]) /\ q \in Timers
      BY <1>6 DEF Identified, Procs
    <3> QED
      BY <1>6, <3>1 DEF Named, Begun
  <2>3. ~Present(r) => ~Present(r)'
    BY <1>6, <2>2, GoneStays, ProvisionLeads
  <2> QED
    BY <1>1, <2>1, <2>3 DEF SoundAt
<1> QED
  BY <1>4, <1>5, <1>6

-----------------------------------------------------------------------------
(* The thread's own sandbox.                                               *)

\* A sandbox of which there is nothing.
LEMMA BlankSound ==
  ASSUME NEW s \in Sandboxes, ~Present(s)', Cleaned(s)',
         s \notin sidecar' \/ \E p \in Procs : proc'[p].s = s /\ Sweeping(proc'[p]),
         s \in deleted' => s \notin sidecar'
  PROVE  SoundFor(s)'
<1>1. s \notin sidecar' \/ Swept(s)'
  BY DEF Swept
<1> QED
  BY <1>1 DEF SoundFor, Cleaned, Present

LEMMA ProvisionSound ==
  ASSUME Typed, Identified, Sounds, DaemonAnswers', NEW p \in Procs, ProvisionStep(p),
         NEW s, s = proc[p].s
  PROVE  SoundFor(s)' /\ SoundAt(proc[p])'
<1> DEFINE T == proc[p]
<1>1. /\ T \in Threads /\ T.op = "create" /\ s \in Sandboxes /\ TypeOK
      /\ Begun(T) /\ SoundAt(T) /\ SoundFor(s) /\ Known(s)
  <2>1. T \in Threads /\ T.op = "create" /\ Turn(p, T) /\ Named(T)
    BY ProvisionLeads DEF Typed, TypeOK, Turns, Identified
  <2>2. s \in Sandboxes
    BY <2>1 DEF Turn, CreateSteps, RestoreSteps
  <2> QED
    BY <2>1, <2>2 DEF Typed, Named, Sounds, Identified
<1>2. UNCHANGED <<up, spec, used, deleted>> /\ ~Fails("remove") /\ astray \subseteq astray'
  BY ProvisionLeads, SoundWorks, StepKeeps DEF Step, LoopStep
<1>3. box \in [Sandboxes -> Boxes] /\ deadline \in [Sandboxes -> Times] /\ DOMAIN timer = Sandboxes
      /\ now \in Nat /\ NoTimer.at = 0 /\ NoBox.st = "none"
  BY TimesTyped DEF Typed, TypeOK, NoTimer, NoBox
<1>4. deadline[s] = 0 /\ timer[s] = NoTimer /\ s \notin deleted'
  BY <1>1, <1>2 DEF Begun
<1>5. CASE PrepareMount(p) \/ MountsPrepared(p)
  <2>1. UNCHANGED <<box, sidecar, deadline, timer>> /\ T.pc = "mount"
    BY <1>5 DEF PrepareMount, MountsPrepared, host, memory, tracking, At
  <2>2. /\ SameJob(p)
        /\ \/ proc'[p].pc \in {"mount", "release", "egress"}
           \/ proc'[p].pc = "container" /\ ~spec[s].policy
    <3>1. \/ \E k \in T.keys : Become(p, [T EXCEPT !.keys = @ \ {k}, !.held = @ \cup {k}])
          \/ Become(p, [T EXCEPT !.pc = "release", !.keys = T.held])
          \/ Goto(p, "egress")
          \/ ~spec[s].policy /\ Goto(p, "container")
      BY <1>5 DEF PrepareMount, MountsPrepared
    <3>2. \A k : Become(p, [T EXCEPT !.keys = @ \ {k}, !.held = @ \cup {k}])
                   => SameJob(p) /\ proc'[p].pc = "mount"
      BY <1>1, <2>1, PrepareMoves
    <3>3. Become(p, [T EXCEPT !.pc = "release", !.keys = T.held]) => SameJob(p) /\ proc'[p].pc = "release"
      BY <1>1, ReleaseMoves
    <3>4. \A step : Goto(p, step) => SameJob(p) /\ proc'[p].pc = step
      BY <1>1, GotoMoves
    <3> QED
      BY <3>1, <3>2, <3>3, <3>4
  <2>3. ~Present(s)' /\ s \notin sidecar' /\ Cleaned(s)'
    BY <1>1, <1>4, <2>1 DEF Begun, Present, Cleaned
  <2> QED
    BY <1>1, <1>2, <1>4, <2>2, <2>3, BlankSound DEF SoundAt, SameJob
<1>6. CASE StartEgress(p)
  <2>1. UNCHANGED <<box, deadline, timer>> /\ T.pc = "egress"
    BY <1>6 DEF StartEgress, memory, tracking, At
  <2>2. \/ sidecar' = sidecar \cup {s} /\ Goto(p, "container")
        \/ /\ sidecar' = sidecar \/ s \in astray'
           /\ Become(p, [T EXCEPT !.pc = "release", !.keys = T.held])
    BY <1>6 DEF StartEgress, DaemonAnswers, ExpiryAnswered, Loses
  <2>3. /\ SameJob(p)
        /\ \/ proc'[p].pc = "container" /\ sidecar' = sidecar \cup {s}
           \/ proc'[p].pc = "release" /\ (sidecar' = sidecar \/ s \in astray')
    BY <1>1, <2>2, GotoMoves, ReleaseMoves
  <2>4. ~Present(s)' /\ Cleaned(s)'
    BY <1>1, <1>4, <2>1 DEF Begun, Present, Cleaned
  <2>5. SoundFor(s)'
    <3>1. CASE s \in astray'
      BY <1>4, <2>4, <3>1 DEF SoundFor
    <3>2. CASE s \notin astray'
      BY <1>1, <1>4, <2>1, <2>3, <2>4, <3>2, BlankSound DEF SameJob, Sweeping, Begun
    <3> QED
      BY <3>1, <3>2
  <2> QED
    BY <1>1, <1>2, <2>1, <2>3, <2>4, <2>5 DEF SoundAt, SameJob, Begun
<1>7. CASE CreateContainer(p)
  <2>1. UNCHANGED <<sidecar, deadline, timer>> /\ T.pc = "container"
    BY <1>7 DEF CreateContainer, memory, tracking, At
  <2>2. /\ SameJob(p)
        /\ \/ proc'[p].pc = "start" /\ box'[s].st = "created"
           \/ proc'[p].pc = "undoEgress" /\ (s \in astray' \/ box' = box)
    <3>1. \/ Goto(p, "start") /\ box' = [box EXCEPT ![s] = [st |-> "created", label |-> T.to]]
          \/ Goto(p, "undoEgress") /\ (s \in astray' \/ box' = box)
      BY <1>7 DEF CreateContainer, Loses
    <3>2. \A step : Goto(p, step) => SameJob(p) /\ proc'[p].pc = step
      BY <1>1, GotoMoves
    <3> QED
      BY <1>1, <1>3, <3>1, <3>2
  <2>3. proc'[p].s = s /\ proc'[p].op = "create" /\ (spec'[s].policy => s \in sidecar')
    BY <1>1, <1>2, <2>1, <2>2 DEF SameJob, SoundAt
  <2>4. Cleaned(s)' /\ ~Present(s)
    BY <1>1, <1>4, <2>1 DEF Begun, Cleaned
  <2>5. CASE proc'[p].pc = "start" /\ box'[s].st = "created"
    <3>1. SoundFor(s)'
      BY <1>2, <1>4, <2>3, <2>5 DEF SoundFor, Present
    <3> QED
      BY <2>3, <2>5, <3>1 DEF SoundAt
  <2>6. CASE proc'[p].pc = "undoEgress" /\ (s \in astray' \/ box' = box)
    <3>1. SoundFor(s)'
      BY <1>1, <1>4, <2>3, <2>4, <2>6, BlankSound DEF SoundFor, Sweeping, Present
    <3> QED
      BY <2>3, <2>4, <2>6, <3>1 DEF SoundAt, Present
  <2> QED
    BY <2>2, <2>5, <2>6
<1>8. CASE StartContainer(p)
  <2>1. UNCHANGED <<sidecar, deadline, timer>> /\ T.pc = "start"
    BY <1>8 DEF StartContainer, memory, tracking, At
  <2>2. SameJob(p) /\ proc'[p].pc \in {"track", "undo"} /\ (box'[s].st = "running" \/ box' = box)
    BY <1>1, <1>3, <1>8, GotoMoves DEF StartContainer, Boxes
  <2>3. /\ proc'[p].s = s /\ proc'[p].op = "create" /\ (spec'[s].policy => s \in sidecar')
        /\ Present(s)' /\ Cleaned(s)'
    BY <1>1, <1>2, <1>4, <2>1, <2>2 DEF SameJob, SoundAt, Begun, Present, Cleaned
  <2>4. SoundFor(s)'
    BY <1>2, <1>4, <2>3 DEF SoundFor
  <2> QED
    BY <2>2, <2>3, <2>4 DEF SoundAt
<1>9. CASE UndoContainer(p)
  <2>1. UNCHANGED <<sidecar, deadline, timer>>
    BY <1>9 DEF UndoContainer, memory, tracking
  <2>2. SameJob(p) /\ proc'[p].pc = "undoEgress" /\ box'[s] = NoBox
    BY <1>1, <1>2, <1>3, <1>9, GotoMoves DEF UndoContainer
  <2>3. proc'[p].s = s /\ proc'[p].op = "create" /\ ~Present(s)' /\ Cleaned(s)'
    BY <1>1, <1>3, <1>4, <2>1, <2>2 DEF SameJob, Present, Cleaned
  <2>4. SoundFor(s)'
    BY <1>1, <1>4, <2>2, <2>3, BlankSound DEF Sweeping
  <2> QED
    BY <2>2, <2>3, <2>4 DEF SoundAt
<1>10. CASE UndoEgress(p)
  <2>1. UNCHANGED <<box, deadline, timer>> /\ T.pc = "undoEgress" /\ sidecar' = sidecar \ {s}
    BY <1>2, <1>10 DEF UndoEgress, memory, tracking, At
  <2>2. SameJob(p) /\ proc'[p].pc = "release"
    <3>1. Become(p, [T EXCEPT !.pc = "release", !.keys = T.held])
      BY <1>10 DEF UndoEgress
    <3> QED
      BY <1>1, <3>1, ReleaseMoves
  <2>3. (~Present(s)' \/ s \in astray') /\ Cleaned(s)' /\ s \notin sidecar'
    BY <1>1, <1>2, <1>4, <2>1 DEF SoundAt, Present, Cleaned
  <2>4. SoundFor(s)'
    BY <1>4, <2>3 DEF SoundFor
  <2> QED
    BY <1>1, <2>2, <2>3, <2>4 DEF SoundAt, SameJob
<1>11. CASE TrackCreated(p)
  <2>1. UNCHANGED <<box, sidecar>> /\ T.pc = "track"
    BY <1>11 DEF TrackCreated, host, At
  <2>2. proc'[p] = Idle
    BY <1>1, <1>11, BecomeMoves DEF TrackCreated
  <2>3. Present(s)' /\ (spec'[s].policy => s \in sidecar')
    BY <1>1, <1>2, <2>1 DEF Begun, SoundAt, Present
  <2>4. SoundFor(s)'
    BY <1>4, <2>3 DEF SoundFor
  <2> QED
    BY <2>2, <2>4, IdleTyped DEF SoundAt
<1> QED
  BY <1>5, <1>6, <1>7, <1>8, <1>9, <1>10, <1>11 DEF ProvisionStep

LEMMA EndSound ==
  ASSUME Typed, Identified, Sounds, DaemonAnswers', NEW p \in Procs, EndStep(p), ~Dies,
         NEW s, s = proc[p].s
  PROVE  SoundFor(s)' /\ SoundAt(proc[p])'
<1> DEFINE T == proc[p]
<1>1. /\ T \in Threads /\ s \in Sandboxes /\ TypeOK /\ Turn(p, T) /\ Named(T)
      /\ SoundAt(T) /\ SoundFor(s) /\ Known(s)
      /\ T.pc \in {"untrack", "sidecar", "release", "unmount"}
      /\ T.op \in {"create", "delete", "expire", "restore"}
  <2>1. T.pc \in {"untrack", "sidecar", "release", "unmount"} /\ T.op \in {"create", "delete", "expire", "restore"}
    BY EndLeads DEF Expiring
  <2>2. T \in Threads /\ Turn(p, T) /\ s \in Sandboxes
    BY <2>1, Running1 DEF RestoreSteps
  <2> QED
    BY <2>1, <2>2 DEF Identified, Typed, Sounds
<1>2. spec' = spec /\ up' = up /\ (~Restoring' => ~Restoring) /\ astray \subseteq astray'
      /\ Others(p) /\ ~Fails("list") /\ ~Fails("remove")
  <2>1. ~RestoreNext(p) /\ ~RestoreOrphans(p)
    BY <1>1 DEF RestoreNext, RestoreOrphans, At
  <2> QED
    BY <2>1, StepKeeps, RestoreStays, SoundWorks DEF Step
<1>3. deadline \in [Sandboxes -> Times] /\ DOMAIN timer = Sandboxes /\ now \in Nat /\ NoTimer.at = 0
  BY TimesTyped DEF Typed, TypeOK, NoTimer
<1>4. box' = box
  BY DEF EndStep, Untrack, CleanupSidecar, ReleaseMount, Unmount, UnmountHangs, Finish, host
<1>5. CASE Untrack(p)
  <2>1. sidecar' = sidecar /\ deleted' = deleted /\ Cleaned(s)' /\ T.pc = "untrack"
    BY <1>1, <1>3, <1>5 DEF Untrack, RemoveTracking, Cleaned, host, clients, At
  <2>2. SameJob(p) /\ proc'[p].pc = "sidecar"
    BY <1>5, EndMoves
  <2>3. ~Present(s)' /\ ~Present(s)
    BY <1>1, <1>4, <2>1 DEF SoundAt, Present
  <2>4. SoundFor(s)'
    <3>1. Swept(s)'
      BY <2>2 DEF Swept, Sweeping, SameJob
    <3> QED
      BY <1>1, <1>2, <2>1, <2>3, <3>1 DEF SoundFor, Present
  <2> QED
    BY <2>1, <2>2, <2>3, <2>4 DEF SoundAt, SameJob
<1>6. CASE CleanupSidecar(p)
  <2>1. sidecar' = sidecar \ {s} /\ UNCHANGED <<deleted, deadline, timer>> /\ T.pc = "sidecar"
    BY <1>2, <1>6 DEF CleanupSidecar, memory, tracking, clients, At
  <2>2. SameJob(p) /\ proc'[p].pc = "release"
    BY <1>6, EndMoves
  <2>3. ~Present(s)' /\ s \notin sidecar'
    BY <1>1, <1>4, <2>1 DEF SoundAt, Present
  <2>4. T.op = "delete" => Cleaned(s)'
    BY <1>1, <2>1 DEF SoundAt, Cleaned
  <2>5. SoundFor(s)'
    BY <1>1, <1>2, <2>1, <2>3 DEF SoundFor, Present, Cleaned
  <2> QED
    BY <2>2, <2>3, <2>4, <2>5 DEF SoundAt, SameJob
<1>7. CASE ReleaseMount(p) \/ Unmount(p) \/ UnmountHangs(p) \/ Finish(p)
  <2>1. UNCHANGED <<sidecar, deadline, timer>> /\ T.pc \in {"release", "unmount"}
    BY <1>7 DEF ReleaseMount, Unmount, UnmountHangs, Finish, Abandons, host, memory, tracking, At
  <2>2. deleted' = deleted \/ (T.op = "delete" /\ deleted' = deleted \cup {s})
    BY <1>7 DEF ReleaseMount, Unmount, UnmountHangs, Finish, clients
  <2>3. s \in deleted' => s \notin sidecar' /\ Cleaned(s)'
    BY <1>1, <2>1, <2>2 DEF SoundAt, SoundFor, Cleaned
  <2>4. Swept(s) => Swept(s)'
    BY <1>2, <2>1, SweptStays DEF Sweeping
  <2>5. SoundFor(s)'
    BY <1>1, <1>2, <1>4, <2>1, <2>3, <2>4 DEF SoundFor, Present
  <2>6. \/ proc'[p] = Idle
        \/ SameJob(p) /\ proc'[p].pc \in {"release", "unmount"}
        \/ proc'[p].op = "restore" /\ proc'[p].pc = "next"
    BY <1>7, EndMoves
  <2>7. CASE SameJob(p) /\ proc'[p].pc \in {"release", "unmount"}
    <3>1. proc'[p].s = s /\ proc'[p].op = T.op
      BY <2>7 DEF SameJob
    <3>2. /\ T.op = "delete" => ~Present(s)' /\ s \notin sidecar'
          /\ T.op = "create" => (~Present(s)' /\ s \notin sidecar') \/ s \in astray'
      BY <1>1, <1>2, <1>4, <2>1 DEF SoundAt, Present
    <3>3. T.op = "delete" => Cleaned(s)'
      BY <1>1, <2>1 DEF SoundAt, Cleaned
    <3> QED
      BY <2>5, <2>7, <3>1, <3>2, <3>3 DEF SoundAt
  <2> QED
    BY <2>5, <2>6, <2>7, IdleTyped DEF SoundAt
<1> QED
  BY <1>5, <1>6, <1>7 DEF EndStep

LEMMA ExpireSound ==
  ASSUME Typed, Identified, Sounds, DaemonAnswers', NEW p \in Procs, ExpireStep(p), ~Dies,
         NEW s, s = proc[p].s
  PROVE  SoundFor(s)' /\ SoundAt(proc[p])'
<1> DEFINE T == proc[p]
<1>1. /\ T \in Threads /\ s \in Sandboxes /\ TypeOK /\ SoundAt(T) /\ SoundFor(s)
      /\ T.pc \in {"lookup", "deadline", "expireKill", "expireRemove"}
      /\ T.op \in {"expire", "restore"}
  <2>0. SoundAt(T) /\ ~Fails("list")
    BY SoundWorks DEF Sounds
  <2>1. T.pc \in {"lookup", "deadline", "expireKill", "expireRemove"} /\ T.op \in {"expire", "restore"}
    <3>1. ~RetryLook(p) /\ ~Rearm(p)
      BY <2>0 DEF SoundAt, RetryLook, Rearm, At
    <3> QED
      BY <3>1, ExpireLeads DEF Expiring, ExpireStep, ExpireLookup, ReadDeadline, ExpireKill, ExpireRemove, At
  <2>2. T \in Threads /\ Turn(p, T) /\ s \in Sandboxes
    BY <2>1, Running1 DEF RestoreSteps
  <2> QED
    BY <2>1, <2>2 DEF Identified, Typed, Sounds
<1>2. spec' = spec /\ up' = up /\ (~Restoring' => ~Restoring) /\ astray \subseteq astray'
      /\ Others(p) /\ ~Fails("list") /\ ~Fails("remove") /\ deleted' = deleted /\ sidecar' = sidecar
  <2>1. ~RestoreNext(p) /\ ~RestoreOrphans(p)
    BY <1>1 DEF RestoreNext, RestoreOrphans, At
  <2>2. deleted' = deleted /\ sidecar' = sidecar
    BY DEF ExpireStep, ExpireLookup, RetryLook, Rearm, ReadDeadline, ExpireKill, ExpireRemove, host, clients
  <2> QED
    BY <2>1, <2>2, StepKeeps, RestoreStays, SoundWorks DEF Step
<1>3. box \in [Sandboxes -> Boxes] /\ deadline \in [Sandboxes -> Times] /\ now \in Nat /\ NoTimer.at = 0 /\ NoBox.st = "none"
  BY TimesTyped DEF Typed, TypeOK, NoTimer, NoBox
<1>4. UNCHANGED <<deadline, timer>> \/ (ExpireLookup(p) /\ ~Present(s) /\ Cleaned(s)')
  BY <1>1, <1>2, ExpireTracks
<1>5. proc'[p].s = s /\ proc'[p].op \in {"expire", "restore"}
  BY <1>1, ExpireMoves DEF SameJob
<1>6. Swept(s) => Swept(s)'
  BY <1>1, <1>2, SweptStays DEF Sweeping
<1>7. /\ (s \in deleted => Cleaned(s)')
      /\ ~Present(s) => ~Present(s)'
  <2>1. s \in deleted => Cleaned(s)'
    BY <1>1, <1>4 DEF SoundFor, Cleaned
  <2>2. ~Present(s) => ~Present(s)'
    <3>1. ~ProvisionStep(p)
      BY <1>1, ProvisionLeads
    <3> QED
      BY <1>1, <3>1, GoneStays DEF Step
  <2> QED
    BY <2>1, <2>2
<1>8. CASE ExpireLookup(p)
  <2>1. box' = box
    BY <1>8 DEF ExpireLookup, host
  <2>2. \/ Present(s) /\ proc'[p].pc = "deadline"
        \/ ~Present(s) /\ proc'[p].pc = "release"
    BY <1>2, <1>8, ExpireMoves
  <2>3. SoundFor(s)'
    BY <1>1, <1>2, <1>6, <1>7, <2>1 DEF SoundFor, Present
  <2> QED
    BY <1>5, <2>2, <2>3 DEF SoundAt
<1>9. CASE ReadDeadline(p)
  <2>1. box' = box
    BY <1>9 DEF ReadDeadline, host
  <2>2. proc'[p].pc \in {"release", "expireKill"}
    BY <1>9, ExpireMoves
  <2>3. SoundFor(s)'
    BY <1>1, <1>2, <1>6, <1>7, <2>1 DEF SoundFor, Present
  <2> QED
    BY <1>5, <2>2, <2>3 DEF SoundAt
<1>10. CASE ExpireKill(p)
  <2>1. proc'[p].pc = "expireRemove"
    BY <1>10, ExpireMoves
  <2>2. Present(s)' <=> Present(s)
    BY <1>1, <1>3, <1>10 DEF ExpireKill, Present, Running, Boxes
  <2>3. SoundFor(s)'
    BY <1>1, <1>2, <1>6, <1>7, <2>2 DEF SoundFor
  <2> QED
    BY <1>5, <2>1, <2>3 DEF SoundAt
<1>11. CASE ExpireRemove(p)
  <2>1. proc'[p].pc = "untrack"
    BY <1>11, ExpireMoves
  <2>2. ~Present(s)'
    BY <1>1, <1>2, <1>3, <1>11 DEF ExpireRemove, Present
  <2>3. Swept(s)'
    BY <1>5, <2>1 DEF Swept, Sweeping
  <2>4. SoundFor(s)'
    BY <1>1, <1>2, <1>7, <2>2, <2>3 DEF SoundFor
  <2> QED
    BY <1>5, <2>1, <2>2, <2>4 DEF SoundAt
<1> QED
  BY <1>1, <1>8, <1>9, <1>10, <1>11 DEF ExpireStep, RetryLook, Rearm, At

LEMMA LoopSound ==
  ASSUME Typed, Identified, Sounds, DaemonAnswers', NEW p \in Procs, NEW s, s = proc[p].s,
         DeleteKill(p) \/ DeleteRemove(p) \/ RenewTrack(p) \/ RenewLabel(p)
         \/ RestoreCounts(p) \/ RestoreNext(p)
  PROVE  (s \in Sandboxes => SoundFor(s)') /\ SoundAt(proc[p])'
<1> DEFINE T == proc[p]
<1>1. /\ T \in Threads /\ TypeOK /\ Turn(p, T) /\ SoundAt(T) /\ Named(T)
      /\ s \in Sandboxes => SoundFor(s) /\ Known(s)
      /\ p = Loop /\ UNCHANGED <<up, spec, used, deleted>>
      /\ ~Fails("kill") /\ ~Fails("remove") /\ astray \subseteq astray'
  <2>1. astray \subseteq astray'
    BY StepKeeps DEF Step, LoopStep
  <2> QED
    BY <2>1, LoopLeads, SoundWorks DEF Identified, Typed, TypeOK, Turns, Sounds
<1>2. /\ T.pc \in {"kill", "remove"} => T.op = "delete" /\ s \in Sandboxes
      /\ T.pc \in {"rearm", "label"} /\ T.op \in {"renew", "delete", "create"} => T.op = "renew" /\ s \in Sandboxes
      /\ T.pc = "label" => T.op = "renew" /\ s \in Sandboxes
      /\ T.pc \in {"counts", "next"} => T.op = "restore" /\ s = NoSandbox
  <2>1. T.op \in Ops /\ Idle.pc = "idle"
    BY <1>1, IdleTyped DEF Threads
  <2> QED
    BY <1>1, <2>1 DEF Turn, Ops, CreateSteps, DeleteSteps, RenewSteps, ExpireSteps, RestoreSteps
<1>3. box \in [Sandboxes -> Boxes] /\ deadline \in [Sandboxes -> Times] /\ DOMAIN timer = Sandboxes
      /\ now \in Nat /\ NoTimer.at = 0 /\ NoBox.st = "none"
  BY TimesTyped DEF Typed, TypeOK, NoTimer, NoBox
<1>4. CASE DeleteKill(p)
  <2>1. T.pc = "kill" /\ T.op = "delete" /\ s \in Sandboxes /\ UNCHANGED <<sidecar, deadline, timer>>
    BY <1>2, <1>4 DEF DeleteKill, At, memory, tracking
  <2>2. /\ SameJob(p) /\ Others(p)
        /\ \/ Present(s) /\ proc'[p].pc = "remove"
           \/ ~Present(s) /\ proc'[p].pc = "untrack"
    BY <1>1, <1>4, GotoMoves DEF DeleteKill
  <2>3. (Present(s)' <=> Present(s)) /\ box'[s].label = box[s].label
    BY <1>3, <1>4, <2>1 DEF DeleteKill, Present, Running, Boxes
  <2>4. Swept(s) => Swept(s)'
    BY <2>1, <2>2, SweptStays DEF Sweeping
  <2>5. ~Restoring
    BY <1>1, <2>1 DEF Restoring
  <2>6. SoundFor(s)'
    BY <1>1, <2>1, <2>3, <2>4, <2>5 DEF SoundFor, Cleaned
  <2> QED
    BY <2>1, <2>2, <2>3, <2>6 DEF SoundAt, SameJob
<1>5. CASE DeleteRemove(p)
  <2> DEFINE t == [T EXCEPT !.pc = "untrack", !.flag = TRUE]
  <2>1. T.pc = "remove" /\ T.op = "delete" /\ s \in Sandboxes /\ UNCHANGED <<sidecar, deadline, timer>>
    BY <1>2, <1>5 DEF DeleteRemove, At, memory, tracking
  <2>2. /\ Become(p, t) \/ Goto(p, "untrack")
        /\ ~Present(s)'
    BY <1>1, <1>3, <1>5, <2>1 DEF DeleteRemove, Present
  <2>3. t.op = T.op /\ t.s = T.s /\ t.pc = "untrack"
    BY <1>1 DEF Threads
  <2> HIDE DEF t
  <2>4. proc'[p].op = "delete" /\ proc'[p].s = s /\ proc'[p].pc = "untrack"
    BY <1>1, <2>1, <2>2, <2>3, GotoMoves, BecomeMoves DEF SameJob
  <2>5. Swept(s)'
    BY <2>4 DEF Swept, Sweeping
  <2>6. SoundFor(s)'
    BY <1>1, <2>1, <2>2, <2>5 DEF SoundFor, Cleaned
  <2> QED
    BY <2>2, <2>4, <2>6 DEF SoundAt
<1>6. CASE RenewTrack(p)
  <2>1. T.pc = "rearm" /\ T.op = "renew" /\ s \in Sandboxes /\ UNCHANGED <<box, sidecar>>
    BY <1>2, <1>6 DEF RenewTrack, At, host
  <2>2. Others(p) /\ SameJob(p) /\ proc'[p].pc = "label"
    BY <1>1, <1>6, GotoMoves DEF RenewTrack
  <2>3. s \notin deleted
    BY <1>1, <2>1 DEF Named
  <2>4. Swept(s) => Swept(s)'
    BY <2>1, <2>2, SweptStays DEF Sweeping
  <2>5. SoundFor(s)'
    BY <1>1, <2>1, <2>3, <2>4 DEF SoundFor, Present, Restoring
  <2> QED
    BY <2>1, <2>2, <2>5 DEF SoundAt, SameJob
<1>7. CASE RenewLabel(p)
  <2>1. T.pc = "label" /\ T.op = "renew" /\ s \in Sandboxes /\ UNCHANGED <<sidecar, deadline, timer>>
    BY <1>2, <1>7 DEF RenewLabel, At, memory, tracking
  <2>2. Others(p) /\ proc'[p] = Idle
    BY <1>1, <1>7, BecomeMoves DEF RenewLabel
  <2>3. box'[s].st = box[s].st
    BY <1>3, <1>7, <2>1 DEF RenewLabel, Boxes
  <2>4. Swept(s) => Swept(s)'
    BY <2>1, <2>2, SweptStays DEF Sweeping
  <2>5. ~Restoring
    BY <1>1, <2>1 DEF Restoring
  <2>6. SoundFor(s)'
    BY <1>1, <2>1, <2>3, <2>4, <2>5 DEF SoundFor, Present, Cleaned
  <2> QED
    BY <2>2, <2>6, IdleTyped DEF SoundAt
<1>8. CASE RestoreCounts(p)
  <2> DEFINE t == [T EXCEPT !.pc = "next", !.counts = Idle.counts]
  <2>1. T.pc = "counts" /\ Become(p, t)
    BY <1>8 DEF RestoreCounts, At
  <2>2. proc'[p] = t
    BY <1>1, <2>1, BecomeMoves
  <2>3. t.pc = "next" /\ t.op = T.op
    BY <1>1 DEF Threads
  <2> HIDE DEF t
  <2> QED
    BY <1>2, <2>1, <2>2, <2>3, SandboxesAssumption DEF SoundAt
<1>9. CASE RestoreNext(p)
  BY <1>9, NextMoves, SandboxesAssumption DEF SoundAt
<1> QED
  BY <1>4, <1>5, <1>6, <1>7, <1>8, <1>9

\* The sweep at the end of the restore.
LEMMA OrphansSound ==
  ASSUME Typed, Sounds, DaemonAnswers', NEW p \in Procs, RestoreOrphans(p)
  PROVE  Sounds'
<1> DEFINE T == proc[p]
<1>1. /\ TypeOK /\ Turn(p, T) /\ SoundAt(T) /\ T.pc = "orphans" /\ p = Loop
      /\ UNCHANGED <<up, spec, used, deleted, box, deadline, timer, astray>>
      /\ ~Fails("list") /\ ~Fails("remove") /\ T \in Threads
  <2>1. ~Fails("list") /\ ~Fails("remove")
    BY SoundWorks
  <2> QED
    BY <2>1, LoopLeads DEF Typed, TypeOK, Turns, Sounds, RestoreOrphans, At, memory, tracking, clients, Works, luck
<1>2. Others(p) /\ proc'[p] = Idle /\ sidecar' = {r \in sidecar : Present(r)}
  BY <1>1, BecomeMoves DEF RestoreOrphans
<1>3. T.op = "restore"
  <2>1. T.op \in Ops /\ Idle.pc = "idle"
    BY <1>1, IdleTyped DEF Threads
  <2> QED
    BY <1>1, <2>1 DEF Turn, Ops, CreateSteps, DeleteSteps, RenewSteps, ExpireSteps, RestoreSteps
<1>4. ASSUME NEW r \in Sandboxes PROVE SoundFor(r)'
  <2>1. SoundFor(r)
    BY DEF Sounds
  <2> QED
    BY <1>1, <1>2, <2>1 DEF SoundFor, Present, Cleaned
<1>5. ASSUME NEW q \in Procs PROVE SoundAt(proc[q])'
  <2>1. CASE q = p
    BY <1>2, <2>1, IdleTyped DEF SoundAt
  <2>2. CASE q # p
    <3>1. SoundAt(proc[q]) /\ proc'[q] = proc[q] /\ proc[q].op \notin {"create", "delete"}
      BY <1>1, <1>2, <2>2 DEF Sounds, Others, Typed, Turns, Turn
    <3> QED
      BY <1>1, <3>1 DEF SoundAt, Present
  <2> QED
    BY <2>1, <2>2
<1> QED
  BY <1>4, <1>5 DEF Sounds

\* The server dies: its memory is gone, and no thread is at anything.
LEMMA DiesSound ==
  ASSUME Sounds, Dies, UNCHANGED <<box, sidecar, spec, deleted>>, astray \subseteq astray'
  PROVE  Sounds'
<1>1. ASSUME NEW r \in Sandboxes PROVE SoundFor(r)'
  BY DEF Dies, Sounds, SoundFor, Present, Cleaned
<1>2. ASSUME NEW q \in Procs PROVE SoundAt(proc[q])'
  BY IdleTyped DEF Dies, SoundAt
<1> QED
  BY <1>1, <1>2 DEF Sounds

LEMMA StepSound ==
  ASSUME Typed, Identified, Sounds, DaemonAnswers', NEW p \in Procs, Step(p)
  PROVE  Sounds'
<1>1. CASE Dies
  <2>1. up /\ ~up'
    BY <1>1, StepKeeps DEF Dies
  <2>2. UnmountHangs(p)
    BY <1>1, <2>1, ProvisionLeads, LoopLeads, ExpireLeads DEF Dies, Step, LoopStep, EndStep, Untrack,
       CleanupSidecar, ReleaseMount, Unmount, Finish
  <2> QED
    BY <1>1, <2>2, StepKeeps, DiesSound DEF UnmountHangs, host, clients
<1>2. CASE RestoreOrphans(p)
  BY <1>2, OrphansSound
<1>3. CASE ~Dies /\ ~RestoreOrphans(p)
  <2>1. ASSUME NEW s, s = proc[p].s PROVE (s \in Sandboxes => SoundFor(s)') /\ SoundAt(proc[p])'
    BY <1>3, <2>1, ProvisionSound, LoopSound, EndSound, ExpireSound DEF Step, LoopStep
  <2>2. \A r \in Sandboxes : SoundFor(r)'
    <3>1. ASSUME NEW r \in Sandboxes, r # proc[p].s PROVE SoundFor(r)'
      BY <1>3, <3>1, OthersSoundFor DEF Sounds
    <3> QED
      BY <2>1, <3>1
  <2>3. \A q \in Procs : q # p => SoundAt(proc[q])'
    BY <1>3, OthersSoundAt
  <2> QED
    BY <2>1, <2>2, <2>3 DEF Sounds
<1> QED
  BY <1>1, <1>2, <1>3

-----------------------------------------------------------------------------
(* Requests, timers, the server and the surroundings.                      *)

\* What holds of the sandboxes when the loop takes up a request.
LEMMA ServingSound ==
  ASSUME Typed, Identified, Sounds, Serving, NEW t, Become(Loop, t), up' = up, t.op # "restore", t.todo = {},
         UNCHANGED <<box, sidecar, deadline, timer, deleted>>, astray \subseteq astray',
         NEW r \in Sandboxes, spec'[r] = spec[r] \/ r \notin used
  PROVE  SoundFor(r)'
<1>1. Loop \in Procs /\ proc[Loop] = Idle /\ Others(Loop) /\ proc'[Loop] = t /\ SoundFor(r) /\ Known(r)
  BY BecomeMoves DEF Procs, Serving, Typed, Sounds, Identified
<1>2. Swept(r) => Swept(r)'
  BY <1>1, SweptStays, IdleTyped DEF Sweeping
<1>3. ~Restoring /\ ~Restoring'
  BY <1>1, IdleTyped DEF Restoring
<1>4. r \notin used => ~Present(r) /\ r \notin sidecar
  BY <1>1 DEF Known
<1> QED
  BY <1>1, <1>2, <1>3, <1>4 DEF SoundFor, Present, Cleaned

LEMMA RequestSound ==
  ASSUME Typed, Identified, Sounds, Create \/ Delete \/ Renew
  PROVE  Sounds'
<1>1. /\ Loop \in Procs /\ TypeOK /\ proc[Loop] = Idle /\ Serving /\ up' = up
      /\ UNCHANGED <<box, sidecar, deadline, timer, deleted, astray>>
  BY DEF Procs, Typed, Create, Delete, Renew, Serving, host, memory, tracking, clients, Works, luck
<1>2. /\ \A r \in Sandboxes : spec'[r] = spec[r] \/ r \notin used
      /\ \E t : /\ Become(Loop, t) /\ t.op # "restore" /\ t.todo = {}
                /\ t.op = "renew" \/ t.pc \in {"mount", "kill"}
                /\ t.pc \in {"mount", "kill", "rearm"}
  <2>1. CASE Create
    <3>1. PICK s \in Sandboxes \ used, shape \in Requests, d \in Times :
            /\ spec' = [spec EXCEPT ![s] = shape]
            /\ Become(Loop, [Idle EXCEPT !.op = "create", !.pc = "mount", !.s = s,
                                        !.keys = shape.keys, !.to = d])
      BY <2>1 DEF Create
    <3> DEFINE t == [Idle EXCEPT !.op = "create", !.pc = "mount", !.s = s, !.keys = shape.keys, !.to = d]
    <3>2. t.op = "create" /\ t.pc = "mount" /\ t.todo = {}
      BY IdleTyped DEF Threads
    <3>3. \A r \in Sandboxes : spec'[r] = spec[r] \/ r \notin used
      BY <1>1, <3>1 DEF TypeOK
    <3>4. Become(Loop, t)
      BY <3>1
    <3> HIDE DEF t
    <3> QED
      BY <3>2, <3>3, <3>4
  <2>2. CASE Delete
    <3>1. PICK s \in Sandboxes :
            Become(Loop, [Idle EXCEPT !.op = "delete", !.pc = "kill", !.s = s, !.keys = spec[s].keys])
      BY <2>2 DEF Delete
    <3> DEFINE t == [Idle EXCEPT !.op = "delete", !.pc = "kill", !.s = s, !.keys = spec[s].keys]
    <3>2. t.op = "delete" /\ t.pc = "kill" /\ t.todo = {}
      BY IdleTyped DEF Threads
    <3>3. Become(Loop, t) /\ spec' = spec
      BY <2>2, <3>1 DEF Delete, clients
    <3> HIDE DEF t
    <3> QED
      BY <3>2, <3>3
  <2>3. CASE Renew
    <3>1. PICK s \in Sandboxes, d \in Times :
            Become(Loop, [Idle EXCEPT !.op = "renew", !.pc = "rearm", !.s = s, !.to = d])
      BY <2>3 DEF Renew
    <3> DEFINE t == [Idle EXCEPT !.op = "renew", !.pc = "rearm", !.s = s, !.to = d]
    <3>2. t.op = "renew" /\ t.pc = "rearm" /\ t.todo = {}
      BY IdleTyped DEF Threads
    <3>3. Become(Loop, t) /\ spec' = spec
      BY <2>3, <3>1 DEF Renew, clients
    <3> HIDE DEF t
    <3> QED
      BY <3>2, <3>3
  <2> QED
    BY <2>1, <2>2, <2>3
<1>3. PICK t : /\ Become(Loop, t) /\ t.op # "restore" /\ t.todo = {}
               /\ t.op = "renew" \/ t.pc \in {"mount", "kill"}
               /\ t.pc \in {"mount", "kill", "rearm"}
  BY <1>2
<1>4. \A r \in Sandboxes : SoundFor(r)'
  BY <1>1, <1>2, <1>3, ServingSound
<1>5. Others(Loop) /\ proc'[Loop] = t
  BY <1>1, <1>3, BecomeMoves
<1>6. ASSUME NEW q \in Procs PROVE SoundAt(proc[q])'
  <2>1. CASE q = Loop
    BY <1>3, <1>5, <2>1 DEF SoundAt
  <2>2. CASE q # Loop
    <3>1. SoundAt(proc[q]) /\ proc'[q] = proc[q] /\ proc[q].op \in {"idle", "expire"}
      BY <1>5, <2>2 DEF Sounds, Others, Typed, Turns, Turn
    <3> QED
      BY <1>1, <3>1 DEF SoundAt, Present
  <2> QED
    BY <2>1, <2>2
<1> QED
  BY <1>4, <1>6 DEF Sounds

\* A timer that fires is gone, and its thread sees to the sandbox instead.
LEMMA FireSound ==
  ASSUME Typed, Sounds, NEW p \in Timers, Fire(p)
  PROVE  Sounds'
<1>1. PICK s \in Sandboxes :
        /\ timer[s].at # 0 /\ timer[s].at <= now
        /\ timer' = [timer EXCEPT ![s] = NoTimer]
        /\ Become(p, [Idle EXCEPT !.op = "expire", !.pc = "lookup", !.s = s, !.keys = timer[s].keys])
  BY DEF Fire
<1> DEFINE t == [Idle EXCEPT !.op = "expire", !.pc = "lookup", !.s = s, !.keys = timer[s].keys]
<1>2. /\ p \in Procs /\ p # Loop /\ proc[p] = Idle
      /\ UNCHANGED <<box, sidecar, deadline, spec, up, deleted, astray>>
  BY LoopAssumption DEF Procs, Fire, host, clients, Works, luck
<1>3. Others(p) /\ proc'[p] = t
  BY <1>1, <1>2, BecomeMoves DEF Typed
<1>4. t.op = "expire" /\ t.s = s /\ t.pc = "lookup" /\ t.todo = {}
  BY IdleTyped DEF Threads
<1> HIDE DEF t
<1>5. Loop \in Procs /\ \A r \in Sandboxes : timer'[r] \in {timer[r], NoTimer}
  BY <1>1 DEF Typed, TypeOK, Procs
<1>6. Restoring' <=> Restoring
  BY <1>2, <1>3, <1>5 DEF Others, Restoring
<1>7. ASSUME NEW r \in Sandboxes PROVE SoundFor(r)'
  <2>1. Swept(r) => Swept(r)'
    BY <1>2, <1>3, SweptStays, IdleTyped DEF Sweeping
  <2>2. SoundFor(r)
    BY DEF Sounds
  <2> QED
    BY <1>2, <1>5, <1>6, <2>1, <2>2 DEF SoundFor, Present, Cleaned
<1>8. ASSUME NEW q \in Procs PROVE SoundAt(proc[q])'
  <2>1. CASE q = p
    BY <1>3, <1>4, <2>1 DEF SoundAt
  <2>2. CASE q # p
    <3>1. SoundAt(proc[q]) /\ proc'[q] = proc[q] /\ (proc[q].op = "delete" => proc[q].s \in Sandboxes)
      BY <1>3, <2>2 DEF Sounds, Others, Typed, Turns, Turn, DeleteSteps, RestoreSteps
    <3> QED
      BY <1>2, <1>5, <3>1 DEF SoundAt, Present, Cleaned
  <2> QED
    BY <2>1, <2>2
<1> QED
  BY <1>7, <1>8 DEF Sounds

LEMMA RestartSound ==
  ASSUME Typed, Identified, Sounds, DaemonAnswers', Restart, astray \subseteq astray'
  PROVE  Sounds'
<1> DEFINE counts == [k \in Keys |-> Cardinality(Holders(k))]
           todo == {s \in Sandboxes : Overdue(s)}
           t == [Idle EXCEPT !.op = "restore", !.pc = "counts", !.todo = todo, !.counts = counts]
<1>1. /\ timer' = [s \in Sandboxes |-> IF Present(s) /\ box[s].label > now
                                       THEN [at |-> box[s].label, keys |-> {}] ELSE NoTimer]
      /\ deadline' = [s \in Sandboxes |-> IF Present(s) /\ box[s].label > now THEN box[s].label ELSE 0]
      /\ Become(Loop, t)
      /\ UNCHANGED <<box, sidecar, spec, deleted>> /\ ~up
  BY SoundWorks DEF Restart, host, clients
<1>2. Loop \in Procs
  BY DEF Procs
<1>3. Others(Loop) /\ proc'[Loop] = t
  BY <1>1, <1>2, BecomeMoves DEF Typed
<1>4. t.op = "restore" /\ t.pc = "counts" /\ t.todo = todo
  BY IdleTyped DEF Threads
<1> HIDE DEF t
<1>5. ASSUME NEW s \in Sandboxes PROVE SoundFor(s)'
  <2>1. Known(s) /\ SoundFor(s)
    BY DEF Identified, Sounds
  <2>2. Restoring'
    BY <1>3, <1>4 DEF Restoring
  <2>3. s \in deleted => ~Present(s) /\ s \notin sidecar /\ Cleaned(s)'
    BY <1>1, <2>1 DEF Known, SoundFor, Cleaned
  <2> QED
    BY <1>1, <2>1, <2>2, <2>3 DEF SoundFor, Present
<1>6. ASSUME NEW q \in Procs PROVE SoundAt(proc[q])'
  <2>1. CASE q = Loop
    BY <1>3, <1>4, <2>1 DEF SoundAt
  <2>2. CASE q # Loop
    BY <1>1, <1>3, <2>2, IdleTyped DEF Others, SoundAt, Typed, Turns
  <2> QED
    BY <2>1, <2>2
<1> QED
  BY <1>5, <1>6 DEF Sounds

LEMMA AroundSound ==
  ASSUME Typed, Sounds, Pause \/ Resume \/ Exit \/ Tick
  PROVE  Sounds'
<1>1. UNCHANGED <<sidecar, deadline, timer, proc, up, spec, used, deleted, astray>>
  BY DEF Pause, Resume, Exit, Tick, Works, host, memory, tracking, clients, luck
<1>2. \A s \in Sandboxes : box'[s].label = box[s].label /\ (box'[s].st # "none" <=> box[s].st # "none")
  <2>1. box' = box \/ \E s \in Sandboxes : box[s].st \in {"running", "paused"} /\ box' \in {[box EXCEPT ![s].st = "running"],
            [box EXCEPT ![s].st = "exited"], [box EXCEPT ![s].st = "paused"]}
    BY DEF Pause, Resume, Exit, Tick, host
  <2>2. box \in [Sandboxes -> Boxes]
    BY DEF Typed, TypeOK
  <2> QED
    BY <2>1, <2>2 DEF Boxes
<1>4. ASSUME NEW s \in Sandboxes PROVE SoundFor(s)'
  <2>1. SoundFor(s) /\ (Swept(s)' <=> Swept(s))
    BY <1>1 DEF Sounds, Swept, Sweeping
  <2> QED
    BY <1>1, <1>2, <2>1 DEF SoundFor, Present, Cleaned, Restoring
<1>5. ASSUME NEW p \in Procs PROVE SoundAt(proc[p])'
  <2>1. SoundAt(proc[p]) /\ (proc[p].pc \notin RestoreSteps \cup {"idle"} => proc[p].s \in Sandboxes)
    BY IdleTyped DEF Sounds, Typed, Turns, Turn
  <2> QED
    BY <1>1, <1>2, <2>1 DEF SoundAt, Present, Cleaned, RestoreSteps
<1> QED
  BY <1>4, <1>5 DEF Sounds

LEMMA InitSound == Init => Sound
<1> SUFFICES ASSUME Init PROVE Sounds
  BY DEF Sound
<1>1. NoTimer.at = 0 /\ NoBox.st = "none"
  BY DEF NoTimer, NoBox
<1> QED
  BY <1>1, IdleTyped DEF Init, Sounds, SoundFor, SoundAt, Present, Cleaned

\* What has failed, and what is astray, stays so.
LEMMA NextGrows ==
  ASSUME Typed, [Next]_vars
  PROVE  failed \subseteq failed' /\ astray \subseteq astray'
<1>1. CASE \E p \in Procs : Step(p)
  BY <1>1, StepKeeps
<1>2. CASE Create \/ Delete \/ Renew \/ Pause \/ Resume \/ Exit \/ Tick \/ (\E t \in Timers : Fire(t))
  BY <1>2 DEF Create, Delete, Renew, Pause, Resume, Exit, Tick, Fire, Works, luck
<1>3. CASE Crash \/ Restart \/ (\E p \in Procs : ConnectionBreaks(p))
  BY <1>3 DEF Crash, Restart, ConnectionBreaks, Fails, Works, luck
<1>4. CASE UNCHANGED vars
  BY <1>4 DEF vars, luck
<1> QED
  BY <1>1, <1>2, <1>3, <1>4 DEF Next

LEMMA NextSound == Typed /\ Identified /\ Sound /\ [Next]_vars => Sound'
<1> SUFFICES ASSUME Typed, Identified, Sound, [Next]_vars, DaemonAnswers' PROVE Sounds'
  BY DEF Sound
<1>1. failed \subseteq failed' /\ astray \subseteq astray'
  BY NextGrows
<1>2. Sounds
  BY <1>1 DEF Sound, DaemonAnswers, ExpiryAnswered
<1>3. CASE Create \/ Delete \/ Renew
  BY <1>2, <1>3, RequestSound
<1>4. CASE \E p \in Procs : Step(p)
  BY <1>2, <1>4, StepSound
<1>5. CASE \E t \in Timers : Fire(t)
  BY <1>2, <1>5, FireSound
<1>6. CASE Crash
  BY <1>1, <1>2, <1>6, DiesSound DEF Crash, host, clients
<1>7. CASE Restart
  BY <1>1, <1>2, <1>7, RestartSound
<1>8. CASE Pause \/ Resume \/ Exit \/ Tick
  BY <1>2, <1>8, AroundSound
<1>9. CASE UNCHANGED vars
  BY <1>2, <1>9 DEF vars, host, memory, tracking, clients, luck, Sounds, SoundFor, SoundAt, Present, Cleaned,
     Swept, Restoring, Sweeping
<1>10. ~\E p \in Procs : ConnectionBreaks(p)
  BY SoundWorks DEF ConnectionBreaks
<1> QED
  BY <1>3, <1>4, <1>5, <1>6, <1>7, <1>8, <1>9, <1>10 DEF Next

-----------------------------------------------------------------------------
(* No expiration is lost, also while lists fail and answers are lost.      *)

\* The steps of a thread that will see to the expiration of its sandbox.
Covering(t) ==
  t.pc \in {"start", "undo", "track", "kill", "remove", "lookup", "retry", "rearm", "deadline",
            "expireKill", "expireRemove"}
Covered(s) == \E p \in Procs : proc[p].s = s /\ Covering(proc[p])

\* Unless it is astray, a container with an expiration has a timer, or a thread that
\* will see to it, or the restore will; the timer is that of the deadline, or one of
\* a retry when the deadline has passed.
KeptFor(s) ==
  \/ s \in astray
  \/ /\ up /\ Timed(s) => timer[s].at # 0 \/ s \in proc[Loop].todo \/ Covered(s)
     /\ deadline[s] > now => timer[s].at = deadline[s]
     /\ timer[s].at # 0 => timer[s].at = deadline[s] \/ (deadline[s] <= now /\ timer[s].at <= now + 1)

KeptAt(t) ==
  /\ t.pc = "untrack" => ~Present(t.s)
  /\ t.pc = "orphans" => t.todo = {}

Keeps == (\A s \in Sandboxes : KeptFor(s)) /\ (\A p \in Procs : KeptAt(proc[p]))
Kept == ExpiryAnswered => Keeps

LEMMA KeptWorks ==
  ExpiryAnswered' => ~Fails("kill") /\ ~Fails("remove") /\ ~Fails("relist") /\ ~Fails("connection")
BY DEF ExpiryAnswered, Fails

LEMMA CoveredStays ==
  ASSUME NEW p \in Procs, Others(p), NEW s
  PROVE  /\ Covered(s) /\ ~(proc[p].s = s /\ Covering(proc[p])) => Covered(s)'
         /\ proc'[p].s = s /\ Covering(proc'[p]) => Covered(s)'
BY DEF Others, Covered, Covering

\* What a sandbox needs to stay as it should be when its own thread p steps and
\* leaves what is tracked alone.
LEMMA StillKept ==
  ASSUME Typed, NEW p \in Procs, Others(p), NEW s \in Sandboxes, s = proc[p].s, KeptFor(s),
         now' = now, up' = up, proc'[Loop].todo = proc[Loop].todo, astray \subseteq astray',
         UNCHANGED <<deadline, timer>>,
         \/ s \in astray' \/ ~Timed(s)' \/ timer[s].at # 0
         \/ proc'[p].s = s /\ Covering(proc'[p])
         \/ Timed(s) /\ ~Covering(proc[p])
  PROVE  KeptFor(s)'
BY CoveredStays DEF KeptFor

\* And when the thread arms the timer, or clears what is tracked.
LEMMA ArmedKept ==
  ASSUME Typed, NEW s \in Sandboxes, now' = now,
         \/ timer'[s].at = deadline'[s] /\ timer'[s].at # 0
         \/ Cleaned(s)' /\ ~Timed(s)'
  PROVE  KeptFor(s)'
<1>1. now \in Nat /\ NoTimer.at = 0
  BY TimesTyped DEF Typed, TypeOK, NoTimer
<1> QED
  BY <1>1 DEF KeptFor, Cleaned

\* The sandboxes and the threads of the others stay as they should be.
LEMMA OthersKept ==
  ASSUME Typed, Identified, Keeps, NEW p \in Procs, Step(p), ~Dies, ~RestoreOrphans(p)
  PROVE  /\ \A r \in Sandboxes : r # proc[p].s => KeptFor(r)'
         /\ \A q \in Procs : q # p => KeptAt(proc[q])'
<1>1. /\ now' = now /\ Others(p) /\ up' = up /\ astray \subseteq astray'
      /\ \A r \in Sandboxes : r # proc[p].s => Same(r)
  BY StepLocal, StepKeeps, RestoreStays
<1>2. ASSUME NEW r \in Sandboxes, r # proc[p].s PROVE KeptFor(r)'
  <2>1. Same(r) /\ KeptFor(r)
    BY <1>1, <1>2 DEF Keeps
  <2>2. Covered(r) => Covered(r)'
    BY <1>1, <1>2, CoveredStays
  <2>3. r \in proc[Loop].todo => r \in proc'[Loop].todo \/ Covered(r)'
    <3>1. CASE proc'[Loop].todo = proc[Loop].todo
      BY <3>1
    <3>2. CASE RestoreNext(p)
      <4>1. proc'[p].s = r /\ proc'[p].pc = "lookup" => Covered(r)'
        BY <1>1, CoveredStays DEF Covering
      <4> QED
        BY <3>2, <4>1, NextMoves
    <3> QED
      BY <3>1, <3>2, RestoreStays
  <2> QED
    BY <1>1, <2>1, <2>2, <2>3 DEF Same, KeptFor, Present, Timed
<1>3. ASSUME NEW q \in Procs, q # p PROVE KeptAt(proc[q])'
  <2>1. PICK r : r = proc[q].s
    OBVIOUS
  <2>2. proc'[q] = proc[q] /\ KeptAt(proc[q]) /\ Turn(q, proc[q])
    BY <1>1, <1>3 DEF Others, Keeps, Typed, Turns
  <2>3. ASSUME proc[q].pc = "untrack" PROVE ~Present(r)'
    <3>1. r \in Sandboxes /\ ~Present(r)
      BY <2>1, <2>2, <2>3, IdleTyped DEF KeptAt, Turn, RestoreSteps
    <3>2. CASE r # proc[p].s
      BY <1>1, <3>1, <3>2 DEF Same, Present
    <3>3. CASE r = proc[p].s /\ ~ProvisionStep(p)
      BY <3>1, <3>3, GoneStays
    <3>4. CASE r = proc[p].s /\ ProvisionStep(p)
      <4>1. proc[p].op = "create" /\ Turn(p, proc[p]) /\ Begun(proc[p])
        BY <3>4, ProvisionLeads DEF Typed, Turns, Identified, Named
      <4>2. q \in Timers
        BY <1>3, <4>1 DEF Turn, Procs
      <4> QED
        BY <2>1, <3>4, <4>1, <4>2 DEF Begun
    <3> QED
      BY <3>2, <3>3, <3>4
  <2> QED
    BY <2>1, <2>2, <2>3 DEF KeptAt
<1> QED
  BY <1>2, <1>3

LEMMA ProvisionJob ==
  ASSUME Typed, NEW p \in Procs, ProvisionStep(p)
  PROVE  SameJob(p) \/ proc'[p] = Idle
<1>1. TypeOK /\ proc[p] \in Threads
  BY DEF Typed, TypeOK
<1>2. \/ \E step : Goto(p, step)
      \/ Become(p, [proc[p] EXCEPT !.pc = "release", !.keys = proc[p].held])
      \/ \E k : Become(p, [proc[p] EXCEPT !.keys = @ \ {k}, !.held = @ \cup {k}])
      \/ Become(p, Idle)
  BY DEF ProvisionStep, PrepareMount, MountsPrepared, StartEgress, CreateContainer,
    StartContainer, UndoContainer, UndoEgress, TrackCreated
<1> QED
  BY <1>1, <1>2, GotoMoves, ReleaseMoves, PrepareMoves, BecomeMoves

LEMMA ProvisionKept ==
  ASSUME Typed, Typed', Identified, Keeps, ExpiryAnswered', NEW p \in Procs, ProvisionStep(p), ~Dies,
         NEW s, s = proc[p].s
  PROVE  KeptFor(s)' /\ KeptAt(proc[p])'
<1> DEFINE T == proc[p]
<1>1. /\ T \in Threads /\ T.op = "create" /\ s \in Sandboxes /\ TypeOK
      /\ Begun(T) /\ KeptFor(s) /\ Known(s)
  <2>1. T \in Threads /\ T.op = "create" /\ Turn(p, T) /\ Named(T)
    BY ProvisionLeads DEF Typed, TypeOK, Turns, Identified
  <2>2. s \in Sandboxes
    BY <2>1 DEF Turn, CreateSteps, RestoreSteps
  <2> QED
    BY <2>1, <2>2 DEF Typed, Named, Keeps, Identified
<1>2. /\ now' = now /\ up' = up /\ astray \subseteq astray' /\ Others(p) /\ ~Fails("remove")
      /\ proc'[Loop].todo = proc[Loop].todo
  <2>1. ~RestoreNext(p) /\ ~RestoreOrphans(p)
    BY <1>1, IdleTyped DEF RestoreNext, RestoreOrphans, At, Typed, Turns, Turn, CreateSteps
  <2> QED
    BY <2>1, KeptWorks, StepKeeps, RestoreStays DEF Step, LoopStep
<1>3. box \in [Sandboxes -> Boxes] /\ DOMAIN timer = Sandboxes /\ DOMAIN deadline = Sandboxes /\ NoBox.st = "none"
  BY DEF Typed, TypeOK, NoBox
<1>4. KeptAt(proc[p])'
  <2>1. SameJob(p) \/ proc'[p] = Idle
    BY ProvisionJob
  <2> QED
    BY <1>1, <2>1, IdleTyped DEF KeptAt, SameJob, Typed, Turns, Turn, CreateSteps
<1>5. CASE PrepareMount(p) \/ MountsPrepared(p) \/ StartEgress(p) \/ UndoEgress(p)
  <2>1. UNCHANGED <<box, deadline, timer>> /\ ~Covering(T)
    BY <1>5 DEF PrepareMount, MountsPrepared, StartEgress, UndoEgress, host, memory, tracking, At, Covering
  <2>2. Timed(s)' => Timed(s)
    BY <2>1 DEF Timed, Present
  <2>3. KeptFor(s)'
    BY <1>1, <1>2, <2>1, <2>2, StillKept
  <2> QED
    BY <1>4, <2>3
<1>6. CASE CreateContainer(p) \/ StartContainer(p)
  <2>1. UNCHANGED <<deadline, timer>> /\ (~Covering(T) \/ StartContainer(p))
    BY <1>6 DEF CreateContainer, StartContainer, memory, tracking, At, Covering
  <2>2. \/ \E step \in {"start", "track", "undo"} : Goto(p, step)
        \/ s \in astray'
        \/ box' = box /\ CreateContainer(p)
    BY <1>6 DEF CreateContainer, StartContainer, Loses
  <2>3. CASE \E step \in {"start", "track", "undo"} : Goto(p, step)
    <3>1. SameJob(p) /\ proc'[p].pc \in {"start", "track", "undo"}
      BY <1>1, <2>3, GotoMoves
    <3>2. proc'[p].s = s /\ Covering(proc'[p])
      BY <3>1 DEF SameJob, Covering
    <3> QED
      BY <1>1, <1>2, <1>4, <2>1, <3>2, StillKept
  <2>4. CASE s \in astray'
    BY <1>4, <2>4 DEF KeptFor
  <2>5. CASE box' = box /\ CreateContainer(p)
    <3>1. ~Timed(s)'
      BY <1>1, <2>5 DEF Begun, CreateContainer, At, Timed, Present
    <3> QED
      BY <1>1, <1>2, <1>4, <2>1, <3>1, StillKept
  <2> QED
    BY <2>2, <2>3, <2>4, <2>5
<1>7. CASE UndoContainer(p)
  <2>1. UNCHANGED <<deadline, timer>> /\ box' = [box EXCEPT ![s] = NoBox]
    BY <1>2, <1>7 DEF UndoContainer, memory, tracking
  <2>2. ~Timed(s)'
    BY <1>1, <1>3, <2>1 DEF Timed, Present
  <2> QED
    BY <1>1, <1>2, <1>4, <2>1, <2>2, StillKept
<1>8. CASE TrackCreated(p)
  <2>1. box' = box
    BY <1>8 DEF TrackCreated, host
  <2>2. CASE spec[s].timed
    <3>1. timer'[s] = [at |-> T.to, keys |-> {}] /\ deadline'[s] = T.to /\ T.to # 0
      BY <1>1, <1>3, <1>8, <2>2 DEF TrackCreated, ScheduleExpiration, Begun
    <3>2. timer'[s].at = deadline'[s] /\ timer'[s].at # 0
      BY <3>1
    <3> QED
      BY <1>1, <1>2, <1>4, <3>2, ArmedKept
  <2>3. CASE ~spec[s].timed
    <3>1. UNCHANGED <<deadline, timer>>
      BY <1>8, <2>3 DEF TrackCreated, tracking
    <3>2. ~Timed(s)'
      BY <1>1, <2>1, <2>3 DEF Timed, Present, Known
    <3> QED
      BY <1>1, <1>2, <1>4, <3>1, <3>2, StillKept
  <2> QED
    BY <2>2, <2>3
<1> QED
  BY <1>5, <1>6, <1>7, <1>8 DEF ProvisionStep

LEMMA EndKept ==
  ASSUME Typed, Identified, Keeps, ExpiryAnswered', NEW p \in Procs, EndStep(p), ~Dies,
         NEW s, s = proc[p].s
  PROVE  KeptFor(s)' /\ KeptAt(proc[p])'
<1> DEFINE T == proc[p]
<1>1. /\ T \in Threads /\ s \in Sandboxes /\ TypeOK /\ KeptFor(s) /\ KeptAt(T)
      /\ T.pc \in {"untrack", "sidecar", "release", "unmount"}
  <2>1. T.pc \in {"untrack", "sidecar", "release", "unmount"}
    BY EndLeads
  <2>2. T \in Threads /\ Turn(p, T) /\ s \in Sandboxes
    BY <2>1, Running1 DEF RestoreSteps
  <2> QED
    BY <2>1, <2>2 DEF Typed, Keeps
<1>2. /\ now' = now /\ up' = up /\ astray \subseteq astray' /\ Others(p)
      /\ proc'[Loop].todo = proc[Loop].todo
  <2>1. ~RestoreNext(p) /\ ~RestoreOrphans(p)
    BY <1>1 DEF RestoreNext, RestoreOrphans, At
  <2> QED
    BY <2>1, StepKeeps, RestoreStays DEF Step
<1>3. box' = box
  BY DEF EndStep, Untrack, CleanupSidecar, ReleaseMount, Unmount, UnmountHangs, Finish, host
<1>4. KeptAt(proc[p])'
  <2>1. proc'[p].pc \notin {"untrack", "orphans"}
    BY <1>1, EndMoves, IdleTyped DEF EndStep
  <2> QED
    BY <2>1 DEF KeptAt
<1>5. CASE Untrack(p)
  <2>1. Cleaned(s)' /\ T.pc = "untrack"
    BY <1>1, <1>5 DEF Untrack, RemoveTracking, Cleaned, TypeOK, At
  <2>2. ~Timed(s)'
    BY <1>1, <1>3, <2>1 DEF KeptAt, Timed, Present
  <2> QED
    BY <1>1, <1>2, <1>4, <2>1, <2>2, ArmedKept
<1>6. CASE ~Untrack(p)
  <2>1. UNCHANGED <<deadline, timer>>
    <3>1. CASE UnmountHangs(p)
      BY <3>1 DEF UnmountHangs, Abandons, memory, tracking
    <3>2. CASE ~UnmountHangs(p)
      BY <1>6, <3>2 DEF EndStep, CleanupSidecar, ReleaseMount, Unmount, Finish, host, memory, tracking
    <3> QED
      BY <3>1, <3>2
  <2>2. ~Covering(T) /\ (Timed(s)' => Timed(s))
    BY <1>1, <1>3 DEF Covering, Timed, Present
  <2> QED
    BY <1>1, <1>2, <1>4, <2>1, <2>2, StillKept
<1> QED
  BY <1>5, <1>6

LEMMA ExpireKept ==
  ASSUME Typed, Identified, Keeps, ExpiryAnswered', NEW p \in Procs, ExpireStep(p), ~Dies,
         NEW s, s = proc[p].s
  PROVE  KeptFor(s)' /\ KeptAt(proc[p])'
<1> DEFINE T == proc[p]
<1>1. /\ T \in Threads /\ s \in Sandboxes /\ TypeOK /\ KeptFor(s) /\ Named(T) /\ Known(s)
      /\ T.op \in {"expire", "restore"} /\ MaxTime # 0
  <2>1. T.pc \in {"lookup", "retry", "rearm", "deadline", "expireKill", "expireRemove"} /\ T.op \in {"expire", "restore"}
    BY ExpireLeads DEF Expiring, ExpireStep, ExpireLookup, RetryLook, Rearm, ReadDeadline, ExpireKill, ExpireRemove, At
  <2>2. T \in Threads /\ s \in Sandboxes
    BY <2>1, Running1 DEF RestoreSteps
  <2>3. Named(T) /\ Known(s)
    BY <2>2 DEF Identified
  <2>4. spec[s].timed
    BY <2>1, <2>2, <2>3, SandboxesAssumption DEF Named
  <2> QED
    BY <2>1, <2>2, <2>3, <2>4 DEF Typed, Keeps, Known
<1>2. /\ now' = now /\ up' = up /\ astray \subseteq astray' /\ Others(p) /\ ~Fails("remove")
      /\ proc'[Loop].todo = proc[Loop].todo
  <2>1. ~RestoreNext(p) /\ ~RestoreOrphans(p)
    BY DEF ExpireStep, ExpireLookup, RetryLook, Rearm, ReadDeadline, ExpireKill, ExpireRemove, RestoreNext, RestoreOrphans, At
  <2> QED
    BY <2>1, KeptWorks, StepKeeps, RestoreStays DEF Step
<1>3. /\ box \in [Sandboxes -> Boxes] /\ deadline \in [Sandboxes -> Times] /\ now \in Nat /\ now <= MaxTime
      /\ DOMAIN timer = Sandboxes /\ NoTimer.at = 0 /\ NoBox.st = "none" /\ MaxTime \in Nat /\ deadline[s] \in Nat
  BY <1>1, TimesTyped, BoundsAssumption DEF Typed, TypeOK, NoTimer, NoBox, Times
<1>4. proc'[p].s = s /\ proc'[p].pc # "orphans"
  BY ExpireMoves DEF SameJob
<1>5. CASE ExpireLookup(p)
  <2>1. box' = box
    BY <1>5 DEF ExpireLookup, host
  <2>2. CASE Present(s) \/ Fails("list")
    <3>1. CASE UNCHANGED tracking /\ proc'[p].pc \in {"deadline", "retry"}
      <4>1. Covering(proc'[p]) /\ UNCHANGED <<deadline, timer>>
        BY <3>1 DEF Covering, tracking
      <4> QED
        BY <1>1, <1>2, <1>4, <3>1, <4>1, StillKept DEF KeptAt
    <3>2. CASE ~Present(s) /\ RemoveTracking(s) /\ Goto(p, "release")
      <4>1. Cleaned(s)' /\ ~Timed(s)'
        BY <1>1, <1>3, <2>1, <3>2 DEF RemoveTracking, Cleaned, Timed, Present
      <4>2. proc'[p].pc = "release"
        BY <1>1, <3>2, GotoMoves
      <4> QED
        BY <1>1, <1>2, <4>1, <4>2, ArmedKept DEF KeptAt
    <3>3. \/ UNCHANGED tracking /\ proc'[p].pc \in {"deadline", "retry"}
          \/ ~Present(s) /\ RemoveTracking(s) /\ Goto(p, "release")
      <4> DEFINE t == [T EXCEPT !.pc = "deadline", !.keys = spec[s].keys, !.flag = Running(s)]
      <4>1. \/ UNCHANGED tracking /\ (Become(p, t) \/ Goto(p, "retry"))
            \/ ~Present(s) /\ RemoveTracking(s) /\ Goto(p, "release")
        BY <1>5 DEF ExpireLookup
      <4>2. t.pc = "deadline"
        BY <1>1 DEF Threads
      <4> HIDE DEF t
      <4>3. Become(p, t) => proc'[p].pc = "deadline"
        BY <1>1, <4>2, BecomeMoves
      <4>4. Goto(p, "retry") => proc'[p].pc = "retry"
        BY <1>1, GotoMoves
      <4> QED
        BY <4>1, <4>3, <4>4
    <3> QED
      BY <3>1, <3>2, <3>3
  <2>3. CASE ~Present(s) /\ ~Fails("list")
    <3>1. RemoveTracking(s) /\ Goto(p, "release")
      BY <1>5, <2>3 DEF ExpireLookup
    <3>2. Cleaned(s)' /\ ~Timed(s)'
      BY <1>1, <1>3, <2>1, <2>3, <3>1 DEF RemoveTracking, Cleaned, Timed, Present
    <3>3. proc'[p].pc = "release"
      BY <1>1, <3>1, GotoMoves
    <3> QED
      BY <1>1, <1>2, <3>2, <3>3, ArmedKept DEF KeptAt
  <2> QED
    BY <2>2, <2>3
<1>6. CASE RetryLook(p) \/ ReadDeadline(p)
  <2>1. UNCHANGED <<box, deadline, timer>>
    BY <1>6 DEF RetryLook, ReadDeadline, host, memory, tracking
  <2>2. IF Renewed(s) THEN Dismissed(p) ELSE Goto(p, "rearm") \/ Goto(p, "expireKill")
    BY <1>6 DEF RetryLook, ReadDeadline
  <2>3. CASE Renewed(s)
    <3>1. s \in astray' \/ timer[s].at # 0
      BY <1>1, <1>2, <1>3, <2>3 DEF Renewed, KeptFor
    <3>2. proc'[p].pc = "release"
      BY <1>1, <2>2, <2>3, ReleaseMoves DEF Dismissed
    <3> QED
      BY <1>1, <1>2, <2>1, <3>1, <3>2, StillKept DEF KeptAt
  <2>4. CASE ~Renewed(s)
    <3>1. proc'[p].pc \in {"rearm", "expireKill"}
      BY <1>1, <2>2, <2>4, GotoMoves
    <3>2. Covering(proc'[p])
      BY <3>1 DEF Covering
    <3> QED
      BY <1>1, <1>2, <1>4, <2>1, <3>1, <3>2, StillKept DEF KeptAt
  <2> QED
    BY <2>3, <2>4
<1>7. CASE Rearm(p)
  <2>1. proc'[p].pc = "release"
    BY <1>1, <1>7, ReleaseMoves DEF Rearm, Dismissed
  <2>2. /\ timer'[s].at = IF now < MaxTime THEN now + 1 ELSE now
        /\ deadline' = deadline /\ (Renewed(s) => s \in astray')
    BY <1>1, <1>3, <1>7 DEF Rearm, ScheduleExpiration
  <2>3. timer'[s].at # 0 /\ timer'[s].at <= now + 1
    BY <1>1, <1>3, <2>2
  <2>4. KeptFor(s)'
    <3>1. CASE Renewed(s)
      BY <2>2, <3>1 DEF KeptFor
    <3>2. CASE ~Renewed(s)
      <4>1. deadline'[s] <= now' /\ ~(deadline'[s] > now') /\ timer'[s].at <= now' + 1
        BY <1>2, <1>3, <2>2, <2>3, <3>2 DEF Renewed
      <4> QED
        BY <2>3, <4>1 DEF KeptFor
    <3> QED
      BY <3>1, <3>2
  <2> QED
    BY <2>1, <2>4 DEF KeptAt
<1>8. CASE ExpireKill(p)
  <2>1. UNCHANGED <<deadline, timer>> /\ proc'[p].pc = "expireRemove"
    BY <1>8, ExpireMoves DEF ExpireKill, memory, tracking
  <2>2. Covering(proc'[p])
    BY <2>1 DEF Covering
  <2> QED
    BY <1>1, <1>2, <1>4, <2>1, <2>2, StillKept DEF KeptAt
<1>9. CASE ExpireRemove(p)
  <2>1. UNCHANGED <<deadline, timer>> /\ proc'[p].pc = "untrack" /\ box' = [box EXCEPT ![s] = NoBox]
    BY <1>2, <1>9, ExpireMoves DEF ExpireRemove, memory, tracking
  <2>2. ~Present(s)' /\ ~Timed(s)'
    BY <1>1, <1>3, <2>1 DEF Present, Timed
  <2> QED
    BY <1>1, <1>2, <1>4, <2>1, <2>2, StillKept DEF KeptAt
<1> QED
  BY <1>5, <1>6, <1>7, <1>8, <1>9 DEF ExpireStep

LEMMA LoopKept ==
  ASSUME Typed, Identified, Keeps, ExpiryAnswered', NEW p \in Procs, ~Dies, NEW s, s = proc[p].s,
         DeleteKill(p) \/ DeleteRemove(p) \/ RenewTrack(p) \/ RenewLabel(p)
         \/ RestoreCounts(p) \/ RestoreNext(p)
  PROVE  (s \in Sandboxes => KeptFor(s)') /\ KeptAt(proc[p])'
<1> DEFINE T == proc[p]
<1>1. /\ T \in Threads /\ TypeOK /\ Turn(p, T) /\ Named(T) /\ p = Loop
      /\ s \in Sandboxes => KeptFor(s) /\ Known(s)
  BY LoopLeads DEF Identified, Typed, TypeOK, Turns, Keeps
<1>2. /\ now' = now /\ up' = up /\ astray \subseteq astray' /\ Others(p)
      /\ ~Fails("kill") /\ ~Fails("remove")
      /\ RestoreNext(p) \/ proc'[Loop].todo = proc[Loop].todo
  <2>1. ~RestoreOrphans(p)
    BY DEF DeleteKill, DeleteRemove, RenewTrack, RenewLabel, RestoreCounts, RestoreNext, RestoreOrphans, At
  <2> QED
    BY <2>1, KeptWorks, StepKeeps, RestoreStays DEF Step, LoopStep
<1>3. /\ T.pc \in {"kill", "remove"} => T.op = "delete" /\ s \in Sandboxes
      /\ T.pc \in {"label"} => T.op = "renew" /\ s \in Sandboxes
      /\ T.op = "renew" => s \in Sandboxes
      /\ T.pc \in {"counts", "next"} => T.op = "restore" /\ s = NoSandbox
  <2>1. T.op \in Ops /\ Idle.pc = "idle"
    BY <1>1, IdleTyped DEF Threads
  <2> QED
    BY <1>1, <2>1 DEF Turn, Ops, CreateSteps, DeleteSteps, RenewSteps, ExpireSteps, RestoreSteps
<1>4. box \in [Sandboxes -> Boxes] /\ DOMAIN timer = Sandboxes /\ DOMAIN deadline = Sandboxes /\ NoBox.st = "none"
  BY <1>1 DEF TypeOK, NoBox
<1>5. CASE DeleteKill(p)
  <2>1. T.pc = "kill" /\ s \in Sandboxes /\ UNCHANGED <<deadline, timer>> /\ ~RestoreNext(p)
    BY <1>3, <1>5 DEF DeleteKill, RestoreNext, At, memory, tracking
  <2>2. /\ SameJob(p)
        /\ \/ Present(s) /\ proc'[p].pc = "remove"
           \/ ~Present(s) /\ proc'[p].pc = "untrack" /\ box' = box
    BY <1>1, <1>2, <1>5, GotoMoves DEF DeleteKill
  <2>3. CASE proc'[p].pc = "remove"
    <3>1. Covering(proc'[p]) /\ proc'[p].s = s
      BY <2>2, <2>3 DEF Covering, SameJob
    <3> QED
      BY <1>1, <1>2, <2>1, <2>3, <3>1, StillKept DEF KeptAt
  <2>4. CASE ~Present(s) /\ proc'[p].pc = "untrack" /\ box' = box
    <3>1. ~Timed(s)' /\ ~Present(s)' /\ proc'[p].s = s
      BY <2>2, <2>4 DEF Timed, Present, SameJob
    <3> QED
      BY <1>1, <1>2, <2>1, <2>4, <3>1, StillKept DEF KeptAt
  <2> QED
    BY <2>2, <2>3, <2>4
<1>6. CASE DeleteRemove(p)
  <2> DEFINE t == [T EXCEPT !.pc = "untrack", !.flag = TRUE]
  <2>1. T.pc = "remove" /\ s \in Sandboxes /\ UNCHANGED <<deadline, timer>> /\ ~RestoreNext(p)
    BY <1>3, <1>6 DEF DeleteRemove, RestoreNext, At, memory, tracking
  <2>2. /\ Become(p, t) \/ Goto(p, "untrack")
        /\ ~Present(s)'
    BY <1>2, <1>4, <1>6, <2>1 DEF DeleteRemove, Present
  <2>3. t.s = T.s /\ t.pc = "untrack"
    BY <1>1 DEF Threads
  <2> HIDE DEF t
  <2>4. proc'[p].s = s /\ proc'[p].pc = "untrack"
    BY <1>1, <2>2, <2>3, GotoMoves, BecomeMoves DEF SameJob
  <2>5. ~Timed(s)'
    BY <2>2 DEF Timed
  <2> QED
    BY <1>1, <1>2, <2>1, <2>2, <2>4, <2>5, StillKept DEF KeptAt
<1>7. CASE RenewTrack(p)
  <2>1. T.op = "renew" /\ s \in Sandboxes /\ T.to # 0
    BY <1>1, <1>3, <1>7 DEF RenewTrack, Named
  <2>2. timer'[s].at = T.to /\ deadline'[s] = T.to
    BY <1>4, <1>7, <2>1 DEF RenewTrack, ScheduleExpiration
  <2>3. proc'[p].pc = "label"
    BY <1>1, <1>7, GotoMoves DEF RenewTrack
  <2> QED
    BY <1>2, <2>1, <2>2, <2>3, ArmedKept DEF KeptAt
<1>8. CASE RenewLabel(p)
  <2>1. /\ T.pc = "label" /\ T.op = "renew" /\ s \in Sandboxes /\ UNCHANGED <<deadline, timer>>
        /\ ~Covering(T) /\ ~RestoreNext(p)
    BY <1>3, <1>8 DEF RenewLabel, RestoreNext, At, memory, tracking, Covering
  <2>2. proc'[p] = Idle
    BY <1>1, <1>8, BecomeMoves DEF RenewLabel
  <2>3. box'[s].st = box[s].st
    BY <1>4, <1>8, <2>1 DEF RenewLabel, Boxes
  <2>4. Timed(s)' => Timed(s)
    BY <1>1, <2>1, <2>3, SandboxesAssumption DEF Timed, Present, Known, Named
  <2> QED
    BY <1>1, <1>2, <2>1, <2>2, <2>4, StillKept, IdleTyped DEF KeptAt
<1>9. CASE RestoreCounts(p)
  <2> DEFINE t == [T EXCEPT !.pc = "next", !.counts = Idle.counts]
  <2>1. T.pc = "counts" /\ Become(p, t)
    BY <1>9 DEF RestoreCounts, At
  <2>2. proc'[p] = t
    BY <1>1, <2>1, BecomeMoves
  <2>3. t.pc = "next"
    BY <1>1 DEF Threads
  <2> HIDE DEF t
  <2> QED
    BY <1>3, <2>1, <2>2, <2>3, SandboxesAssumption DEF KeptAt
<1>10. CASE RestoreNext(p)
  BY <1>10, NextMoves, SandboxesAssumption DEF KeptAt
<1> QED
  BY <1>5, <1>6, <1>7, <1>8, <1>9, <1>10

\* The end of the restore.
LEMMA OrphansKept ==
  ASSUME Typed, Keeps, NEW p \in Procs, RestoreOrphans(p), astray \subseteq astray'
  PROVE  Keeps'
<1>1. /\ TypeOK /\ KeptAt(proc[p]) /\ proc[p].pc = "orphans" /\ p = Loop
      /\ UNCHANGED <<now, up, box, deadline, timer>>
  BY LoopLeads DEF Typed, Keeps, RestoreOrphans, At, memory, tracking
<1>2. Others(p) /\ proc'[p] = Idle
  BY <1>1, BecomeMoves DEF RestoreOrphans
<1>3. ASSUME NEW r \in Sandboxes PROVE KeptFor(r)'
  <2>1. Covered(r) => Covered(r)'
    BY <1>1, <1>2, CoveredStays DEF Covering
  <2>2. KeptFor(r) /\ proc[Loop].todo = {}
    BY <1>1 DEF Keeps, KeptAt
  <2> QED
    BY <1>1, <2>1, <2>2 DEF KeptFor, Present, Timed
<1>4. ASSUME NEW q \in Procs PROVE KeptAt(proc[q])'
  BY <1>1, <1>2, IdleTyped DEF Keeps, KeptAt, Others, Present
<1> QED
  BY <1>3, <1>4 DEF Keeps

LEMMA DiesKept ==
  ASSUME Typed, Dies, now' = now
  PROVE  Keeps'
<1>1. now \in Nat /\ NoTimer.at = 0
  BY TimesTyped DEF Typed, TypeOK, NoTimer
<1> QED
  BY <1>1, IdleTyped DEF Dies, Keeps, KeptFor, KeptAt

LEMMA StepKept ==
  ASSUME Typed, Typed', Identified, Keeps, ExpiryAnswered', NEW p \in Procs, Step(p)
  PROVE  Keeps'
<1>1. CASE Dies
  BY <1>1, StepKeeps, DiesKept
<1>2. CASE RestoreOrphans(p)
  BY <1>2, StepKeeps, OrphansKept
<1>3. CASE ~Dies /\ ~RestoreOrphans(p)
  <2>1. ASSUME NEW s, s = proc[p].s PROVE (s \in Sandboxes => KeptFor(s)') /\ KeptAt(proc[p])'
    BY <1>3, <2>1, ProvisionKept, LoopKept, EndKept, ExpireKept DEF Step, LoopStep
  <2> QED
    BY <1>3, <2>1, OthersKept DEF Keeps
<1> QED
  BY <1>1, <1>2, <1>3

LEMMA RequestKept ==
  ASSUME Typed, Keeps, Create \/ Delete \/ Renew
  PROVE  Keeps'
<1>1. /\ Loop \in Procs /\ TypeOK /\ proc[Loop] = Idle
      /\ UNCHANGED <<now, up, box, deadline, timer, astray>>
  BY DEF Procs, Typed, Create, Delete, Renew, Serving, host, memory, tracking, clients, Works, luck
<1>2. \E t : Become(Loop, t) /\ t.pc \in {"mount", "kill", "rearm"} /\ t.todo = {}
  <2>1. CASE Create
    <3>1. PICK s \in Sandboxes \ used, shape \in Requests, d \in Times :
            Become(Loop, [Idle EXCEPT !.op = "create", !.pc = "mount", !.s = s, !.keys = shape.keys, !.to = d])
      BY <2>1 DEF Create
    <3> DEFINE t == [Idle EXCEPT !.op = "create", !.pc = "mount", !.s = s, !.keys = shape.keys, !.to = d]
    <3>2. t.pc = "mount" /\ t.todo = {}
      BY IdleTyped DEF Threads
    <3> QED
      BY <3>1, <3>2
  <2>2. CASE Delete
    <3>1. PICK s \in Sandboxes :
            Become(Loop, [Idle EXCEPT !.op = "delete", !.pc = "kill", !.s = s, !.keys = spec[s].keys])
      BY <2>2 DEF Delete
    <3> DEFINE t == [Idle EXCEPT !.op = "delete", !.pc = "kill", !.s = s, !.keys = spec[s].keys]
    <3>2. t.pc = "kill" /\ t.todo = {}
      BY IdleTyped DEF Threads
    <3> QED
      BY <3>1, <3>2
  <2>3. CASE Renew
    <3>1. PICK s \in Sandboxes, d \in Times :
            Become(Loop, [Idle EXCEPT !.op = "renew", !.pc = "rearm", !.s = s, !.to = d])
      BY <2>3 DEF Renew
    <3> DEFINE t == [Idle EXCEPT !.op = "renew", !.pc = "rearm", !.s = s, !.to = d]
    <3>2. t.pc = "rearm" /\ t.todo = {}
      BY IdleTyped DEF Threads
    <3> QED
      BY <3>1, <3>2
  <2> QED
    BY <2>1, <2>2, <2>3
<1>3. PICK t : Become(Loop, t) /\ t.pc \in {"mount", "kill", "rearm"} /\ t.todo = {}
  BY <1>2
<1>4. Others(Loop) /\ proc'[Loop] = t
  BY <1>1, <1>3, BecomeMoves
<1>5. ASSUME NEW r \in Sandboxes PROVE KeptFor(r)'
  <2>1. Covered(r) => Covered(r)'
    BY <1>1, <1>4, CoveredStays, IdleTyped DEF Covering
  <2>2. KeptFor(r) /\ proc[Loop].todo = {}
    BY <1>1, IdleTyped DEF Keeps
  <2> QED
    BY <1>1, <2>1, <2>2 DEF KeptFor, Present, Timed
<1>6. ASSUME NEW q \in Procs PROVE KeptAt(proc[q])'
  BY <1>1, <1>3, <1>4 DEF Keeps, KeptAt, Others, Present
<1> QED
  BY <1>5, <1>6 DEF Keeps

\* A timer that fires is gone, and its thread sees to the sandbox instead.
LEMMA FireKept ==
  ASSUME Typed, Keeps, NEW p \in Timers, Fire(p)
  PROVE  Keeps'
<1>1. PICK s \in Sandboxes :
        /\ timer[s].at # 0 /\ timer[s].at <= now
        /\ timer' = [timer EXCEPT ![s] = NoTimer]
        /\ Become(p, [Idle EXCEPT !.op = "expire", !.pc = "lookup", !.s = s, !.keys = timer[s].keys])
  BY DEF Fire
<1> DEFINE t == [Idle EXCEPT !.op = "expire", !.pc = "lookup", !.s = s, !.keys = timer[s].keys]
<1>2. /\ p \in Procs /\ p # Loop /\ proc[p] = Idle /\ Loop \in Procs
      /\ UNCHANGED <<now, box, deadline, up, astray>>
  BY LoopAssumption DEF Procs, Fire, host, clients, Works, luck
<1>3. Others(p) /\ proc'[p] = t
  BY <1>1, <1>2, BecomeMoves DEF Typed
<1>4. t.s = s /\ t.pc = "lookup"
  BY IdleTyped DEF Threads
<1> HIDE DEF t
<1>5. /\ timer'[s] = NoTimer /\ \A r \in Sandboxes : r # s => timer'[r] = timer[r]
      /\ NoTimer.at = 0 /\ now \in Nat /\ deadline[s] \in Nat
  BY <1>1, TimesTyped DEF Typed, TypeOK, NoTimer
<1>6. proc'[Loop] = proc[Loop]
  BY <1>2, <1>3 DEF Others
<1>7. ASSUME NEW r \in Sandboxes PROVE KeptFor(r)'
  <2>1. /\ Covered(r) => Covered(r)'
        /\ Covered(s)'
    BY <1>2, <1>3, <1>4, CoveredStays, IdleTyped DEF Covering
  <2>2. KeptFor(r)
    BY DEF Keeps
  <2>3. CASE r = s
    <3>1. s \in astray \/ ~(deadline[s] > now)
      BY <1>1, <1>5, <2>2, <2>3 DEF KeptFor
    <3> QED
      BY <1>2, <1>5, <2>1, <2>3, <3>1 DEF KeptFor
  <2>4. CASE r # s
    BY <1>2, <1>5, <1>6, <2>1, <2>2, <2>4 DEF KeptFor, Present, Timed
  <2> QED
    BY <2>3, <2>4
<1>8. ASSUME NEW q \in Procs PROVE KeptAt(proc[q])'
  BY <1>2, <1>3, <1>4 DEF Keeps, KeptAt, Others, Present
<1> QED
  BY <1>7, <1>8 DEF Keeps

\* A start of the server arms what is ahead and lists what is overdue.
LEMMA RestartKept ==
  ASSUME Typed, Keeps, ExpiryAnswered', Restart, astray \subseteq astray'
  PROVE  Keeps'
<1> DEFINE counts == [k \in Keys |-> Cardinality(Holders(k))]
           todo == {s \in Sandboxes : Overdue(s)}
           t == [Idle EXCEPT !.op = "restore", !.pc = "counts", !.todo = todo, !.counts = counts]
<1>1. /\ timer' = [s \in Sandboxes |-> IF Present(s) /\ box[s].label > now
                                       THEN [at |-> box[s].label, keys |-> {}] ELSE NoTimer]
      /\ deadline' = [s \in Sandboxes |-> IF Present(s) /\ box[s].label > now THEN box[s].label ELSE 0]
      /\ Become(Loop, t)
      /\ UNCHANGED <<now, box>> /\ ~up
  BY KeptWorks DEF Restart, host
<1>2. Loop \in Procs /\ now \in Nat /\ box \in [Sandboxes -> Boxes] /\ NoTimer.at = 0
  BY TimesTyped DEF Procs, Typed, TypeOK, NoTimer
<1>3. Others(Loop) /\ proc'[Loop] = t
  BY <1>1, <1>2, BecomeMoves DEF Typed
<1>4. t.pc = "counts" /\ t.todo = todo
  BY IdleTyped DEF Threads
<1> HIDE DEF t
<1>5. ASSUME NEW s \in Sandboxes PROVE KeptFor(s)'
  <2>1. box[s].label \in Nat
    BY <1>2, TimesTyped DEF Boxes
  <2>2. IF Present(s) /\ box[s].label > now
          THEN timer'[s].at = box[s].label /\ deadline'[s] = box[s].label
          ELSE timer'[s] = NoTimer /\ deadline'[s] = 0
    BY <1>1
  <2>3. Timed(s) => box[s].label > now \/ s \in proc'[Loop].todo
    BY <1>2, <1>3, <1>4, <2>1 DEF Timed, Overdue
  <2> QED
    BY <1>1, <1>2, <2>1, <2>2, <2>3 DEF KeptFor, Timed, Present
<1>6. ASSUME NEW q \in Procs PROVE KeptAt(proc[q])'
  <2>1. CASE q = Loop
    BY <1>3, <1>4, <2>1 DEF KeptAt
  <2>2. CASE q # Loop
    BY <1>1, <1>3, <2>2, IdleTyped DEF Others, KeptAt, Typed, Turns
  <2> QED
    BY <2>1, <2>2
<1> QED
  BY <1>5, <1>6 DEF Keeps

LEMMA AroundKept ==
  ASSUME Typed, Keeps, Pause \/ Resume \/ Exit \/ Tick
  PROVE  Keeps'
<1>1. UNCHANGED <<deadline, timer, proc, up, astray>>
  BY DEF Pause, Resume, Exit, Tick, Works, host, memory, tracking, clients, luck
<1>2. \A s \in Sandboxes : box'[s].label = box[s].label /\ (box'[s].st # "none" <=> box[s].st # "none")
  <2>1. box' = box \/ \E s \in Sandboxes : box[s].st \in {"running", "paused"} /\ box' \in {[box EXCEPT ![s].st = "running"],
            [box EXCEPT ![s].st = "exited"], [box EXCEPT ![s].st = "paused"]}
    BY DEF Pause, Resume, Exit, Tick, host
  <2>2. box \in [Sandboxes -> Boxes]
    BY DEF Typed, TypeOK
  <2> QED
    BY <2>1, <2>2 DEF Boxes
<1>3. now \in Nat /\ (now' = now \/ now' = now + 1)
  BY TimesTyped DEF Typed, TypeOK, Pause, Resume, Exit, Tick
<1>4. ASSUME NEW s \in Sandboxes PROVE KeptFor(s)'
  <2>1. deadline[s] \in Nat /\ timer[s].at \in Nat
    BY TimesTyped DEF Typed, TypeOK
  <2>2. KeptFor(s) /\ (Covered(s)' <=> Covered(s)) /\ (Timed(s)' <=> Timed(s))
    BY <1>1, <1>2 DEF Keeps, Covered, Covering, Timed, Present
  <2> QED
    BY <1>1, <1>3, <2>1, <2>2 DEF KeptFor
<1>5. ASSUME NEW p \in Procs PROVE KeptAt(proc[p])'
  <2>1. KeptAt(proc[p]) /\ (proc[p].pc = "untrack" => proc[p].s \in Sandboxes)
    BY IdleTyped DEF Keeps, Typed, Turns, Turn, RestoreSteps
  <2> QED
    BY <1>1, <1>2, <2>1 DEF KeptAt, Present
<1> QED
  BY <1>4, <1>5 DEF Keeps

LEMMA InitKept == Init => Kept
<1> SUFFICES ASSUME Init PROVE Keeps
  BY DEF Kept
<1>1. NoTimer.at = 0 /\ NoBox.st = "none"
  BY DEF NoTimer, NoBox
<1> QED
  BY <1>1, IdleTyped DEF Init, Keeps, KeptFor, KeptAt, Present, Timed

LEMMA NextKept == Typed /\ Typed' /\ Identified /\ Kept /\ [Next]_vars => Kept'
<1> SUFFICES ASSUME Typed, Typed', Identified, Kept, [Next]_vars, ExpiryAnswered' PROVE Keeps'
  BY DEF Kept
<1>1. failed \subseteq failed' /\ astray \subseteq astray'
  BY NextGrows
<1>2. Keeps
  BY <1>1 DEF Kept, ExpiryAnswered
<1>3. CASE Create \/ Delete \/ Renew
  BY <1>2, <1>3, RequestKept
<1>4. CASE \E p \in Procs : Step(p)
  BY <1>2, <1>4, StepKept
<1>5. CASE \E t \in Timers : Fire(t)
  BY <1>2, <1>5, FireKept
<1>6. CASE Crash
  BY <1>6, DiesKept DEF Crash
<1>7. CASE Restart
  BY <1>1, <1>2, <1>7, RestartKept
<1>8. CASE Pause \/ Resume \/ Exit \/ Tick
  BY <1>2, <1>8, AroundKept
<1>9. CASE UNCHANGED vars
  BY <1>2, <1>9 DEF vars, host, memory, tracking, clients, luck, Keeps, KeptFor, KeptAt, Present, Timed,
     Covered, Covering
<1>10. ~\E p \in Procs : ConnectionBreaks(p)
  BY KeptWorks DEF ConnectionBreaks
<1> QED
  BY <1>3, <1>4, <1>5, <1>6, <1>7, <1>8, <1>9, <1>10 DEF Next

-----------------------------------------------------------------------------
(* The theorems.                                                           *)

LEMMA SoundInv == Spec => [](Typed /\ Identified /\ Sound)
BY InitTyped, NextTyped, InitIdentified, NextIdentified, InitSound, NextSound, PTL DEF Spec

LEMMA KeptInv == Spec => [](Typed /\ Identified /\ Kept)
BY InitTyped, NextTyped, InitIdentified, NextIdentified, InitKept, NextKept, PTL DEF Spec

\* While the server serves, every sandbox with an expiration has its timer armed or
\* a thread at work on it, unless its creation's answer was lost or a retry replaced
\* the timer of its renewal, and as long as no removal, no kill and no list of a start
\* fails: the timers that _schedule_expiration replaces, the consumed ones, the
\* retries of failed lookups, what _remove_expiration_tracking drops and what a
\* restart rebuilds leave no gap.
THEOREM ExpirationsCovered == Spec => []ExpiryCovered
<1>1. Typed /\ Kept => ExpiryCovered
  <2> SUFFICES ASSUME Typed, Keeps, up, ~Restoring, NEW s \in Sandboxes \ astray, Timed(s), ~Attended(s)
               PROVE  /\ timer[s].at # 0
                      /\ IF Renewed(s) THEN timer[s].at = deadline[s] ELSE timer[s].at <= now + 1
    BY DEF Kept, ExpiryCovered
  <2>1. s \notin proc[Loop].todo
    BY DEF Typed, Turns, Turn, Procs, Restoring
  <2>2. ~Covered(s)
    BY IdleTyped DEF Covered, Covering, Attended, Working, Typed, Turns, Turn
  <2>3. KeptFor(s) /\ now \in Nat /\ deadline[s] \in Nat
    BY TimesTyped DEF Keeps, Typed, TypeOK
  <2> QED
    BY <2>1, <2>2, <2>3 DEF KeptFor, Renewed
<1> QED
  BY <1>1, KeptInv, PTL

\* While the daemon answers, a sandbox nobody works for has its egress sidecar
\* exactly when its container is there and its request had a network policy, over
\* creations that fail, deletions, expirations and deaths of the server, unless a
\* creation's answer was lost.
THEOREM SidecarsFollow == Spec => []SidecarFollows
<1>1. Typed /\ Identified /\ Sound => SidecarFollows
  <2> SUFFICES ASSUME Typed, Identified, Sounds, NEW s \in Sandboxes \ astray, up, ~Restoring, ~Attended(s)
               PROVE  s \in sidecar <=> Present(s) /\ spec[s].policy
    BY DEF Sound, SidecarFollows
  <2>1. Swept(s) => Attended(s)
    BY IdleTyped DEF Swept, Sweeping, Attended, Working, Typed, Turns, Turn
  <2> QED
    BY <2>1 DEF Sounds, SoundFor, Identified, Known
<1> QED
  BY <1>1, SoundInv, PTL

\* A deletion that was acknowledged left no container, whatever failed, and while
\* the daemon answers no sidecar, no deadline and no timer: neither a callback nor
\* a renewal arms one again.
THEOREM DeletionsGone == Spec => []DeletedIsGone
<1>1. Typed /\ Identified /\ Sound => DeletedIsGone
  BY DEF Typed, TypeOK, Identified, Known, Sound, Sounds, SoundFor, Cleaned, DeletedIsGone
<1> QED
  BY <1>1, SoundInv, PTL
=============================================================================
