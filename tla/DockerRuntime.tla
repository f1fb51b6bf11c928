----------------------------- MODULE DockerRuntime -----------------------------
(***************************************************************************)
(* The sandbox server on Docker (services/docker.py) with its OSSFS mounts *)
(* (services/ossfs_mixin.py).                                              *)
(*                                                                         *)
(* The HTTP handlers are coroutines that call the service without awaiting *)
(* anything, so the event loop ("loop") serves one request at a time. The  *)
(* expiration timers call _expire_sandbox in threads of their own, next to *)
(* the loop and to each other. Every call to the Docker daemon or to the   *)
(* kernel is a step, and so is every section under a lock; the server may  *)
(* die between any two of them and rebuilds its memory from what the       *)
(* daemon lists.                                                           *)
(***************************************************************************)
EXTENDS Integers, FiniteSets

CONSTANTS
  Sandboxes,   \* the ids that may be given out, each once (they are random)
  Keys,        \* the OSSFS mount keys: backend paths on the host
  Timers,      \* the threads that may run an expiration at the same time
  Loop,        \* the event loop
  NoSandbox, NoKey,
  MaxTime,     \* bound of the clock, and the latest deadline
  Requests,    \* the shapes of the create requests, a subset of Shapes
  Faults,      \* the calls that may fail in a run, a subset of AllFaults
  MaxFaults    \* bound on the calls that fail and the deaths of the server

AllFaults ==
  {"list", "create", "start", "egress", "kill", "remove", "update",
   "mount", "unmount",
   "relist",      \* the list of all containers at the server's start
   "lost",        \* a container is created and the answer does not arrive
   "connection",  \* a call breaks with an error that is not a DockerException
   "hang",        \* an unmount command times out
   "crash"}       \* the server dies

Procs == Timers \cup {Loop}

\* What of a create request matters here: an expiration or manual cleanup, the
\* mount keys its volumes resolve to, a network policy or none.
Shapes == [timed : BOOLEAN, keys : SUBSET Keys, policy : BOOLEAN]

ASSUME SandboxesAssumption == IsFiniteSet(Sandboxes) /\ NoSandbox \notin Sandboxes
ASSUME KeysAssumption == IsFiniteSet(Keys) /\ NoKey \notin Keys
ASSUME LoopAssumption == Loop \notin Timers
ASSUME RequestsAssumption == Requests \subseteq Shapes
ASSUME FaultsAssumption == Faults \subseteq AllFaults
ASSUME BoundsAssumption == MaxTime \in Nat /\ MaxFaults \in Nat

VARIABLES
  now,
  box,       \* the daemon's containers, by the sandbox id in their label
  sidecar,   \* the sandboxes whose egress sidecar exists
  mounted,   \* the keys that are mounted on the host
  deadline,  \* self._sandbox_expirations, 0 for no entry
  timer,     \* self._expiration_timers, the armed ones
  refs,      \* self._ossfs_mount_ref_counts, 0 for no entry
  up,        \* the server runs
  proc,      \* what each thread is doing
  spec,      \* the request a sandbox was created from
  used,      \* the ids given out
  created,   \* the sandboxes whose creation was acknowledged
  promised,  \* the expiration last acknowledged to a client
  deleted,   \* the sandboxes whose deletion was acknowledged
  faults,    \* how many of the MaxFaults there were
  failed,    \* and of which kinds
  astray     \* history: the sandboxes whose creation's answer was lost, or the
             \* timer of whose renewal a retry has replaced

host    == <<box, sidecar, mounted>>
tracking == <<deadline, timer>>
memory  == <<tracking, refs>>
clients == <<spec, used, created, promised, deleted>>
luck    == <<faults, failed, astray>>
vars    == <<now, host, memory, up, proc, clients, luck>>

-----------------------------------------------------------------------------
(* Values.                                                                 *)

Times == 0..MaxTime

\* A container: its State, and the expires-at label (0: manual cleanup). Docker
\* reports a paused container as running too.
Boxes == [st : {"none", "created", "running", "paused", "exited"}, label : Times]
NoBox == [st |-> "none", label |-> 0]
Present(s) == box[s].st # "none"
Running(s) == box[s].st \in {"running", "paused"}

NoTimer == [at |-> 0, keys |-> {}]
NoShape == [timed |-> FALSE, keys |-> {}, policy |-> FALSE]

Ops == {"idle", "create", "delete", "renew", "expire", "restore"}
Steps ==
  {"idle", "mount", "egress", "container", "start", "undo", "undoEgress", "track",
   "kill", "remove", "untrack", "sidecar", "release", "unmount",
   "lookup", "retry", "rearm", "deadline", "expireKill", "expireRemove",
   "label", "counts", "next", "orphans"}

\* A thread: the operation, its next step, the sandbox; the mount keys it still
\* has to prepare or to release, and those it has prepared; the key to unmount;
\* a flag (the container was seen running, the deletion succeeded); a deadline;
\* for the restore also the sandboxes to expire and the counts it has taken.
Threads ==
  [op : Ops, pc : Steps, s : Sandboxes \cup {NoSandbox}, keys : SUBSET Keys,
   held : SUBSET Keys, key : Keys \cup {NoKey}, flag : BOOLEAN, to : Times,
   todo : SUBSET Sandboxes, counts : [Keys -> Nat]]
Idle ==
  [op |-> "idle", pc |-> "idle", s |-> NoSandbox, keys |-> {}, held |-> {},
   key |-> NoKey, flag |-> FALSE, to |-> 0, todo |-> {}, counts |-> [k \in Keys |-> 0]]

At(p, step) == proc[p].pc = step
Become(p, thread) == proc' = [proc EXCEPT ![p] = thread]
Goto(p, step) == Become(p, [proc[p] EXCEPT !.pc = step])
Serving == up /\ proc[Loop] = Idle

\* A call that may fail in this run does, at the cost of one of the MaxFaults.
Fails(call) ==
  /\ call \in Faults /\ faults < MaxFaults
  /\ faults' = faults + 1 /\ failed' = failed \cup {call} /\ UNCHANGED astray
Works == UNCHANGED luck

\* The daemon creates a container of s, and the server is told of an error: it has
\* no id to remove anything by.
Loses(s) ==
  /\ "lost" \in Faults /\ faults < MaxFaults
  /\ faults' = faults + 1 /\ failed' = failed \cup {"lost"} /\ astray' = astray \cup {s}

Init ==
  /\ now = 0
  /\ box = [s \in Sandboxes |-> NoBox] /\ sidecar = {} /\ mounted = {}
  /\ deadline = [s \in Sandboxes |-> 0] /\ timer = [s \in Sandboxes |-> NoTimer]
  /\ refs = [k \in Keys |-> 0]
  /\ up = TRUE /\ proc = [p \in Procs |-> Idle]
  /\ spec = [s \in Sandboxes |-> NoShape] /\ used = {} /\ created = {}
  /\ promised = [s \in Sandboxes |-> 0] /\ deleted = {}
  /\ faults = 0 /\ failed = {} /\ astray = {}

-----------------------------------------------------------------------------
(* Tracking of expirations, under self._expiration_lock.                   *)

\* A plausible bug: a timer that is armed already is kept.
ScheduleIfUnarmed(s, at, update, fallback) ==
  /\ timer' = IF timer[s].at = 0 THEN [timer EXCEPT ![s] = [at |-> at, keys |-> fallback]] ELSE timer
  /\ deadline' = IF update THEN [deadline EXCEPT ![s] = at] ELSE deadline

\* An existing timer is cancelled and replaced. A timer whose thread already
\* runs is past cancelling.
ScheduleExpiration(s, at, update, fallback) ==
  /\ timer' = [timer EXCEPT ![s] = [at |-> at, keys |-> fallback]]
  /\ deadline' = IF update THEN [deadline EXCEPT ![s] = at] ELSE deadline

\* A plausible bug: the timer is not cancelled.
RemoveDeadline(s) ==
  deadline' = [deadline EXCEPT ![s] = 0] /\ UNCHANGED timer

RemoveTracking(s) ==
  /\ timer' = [timer EXCEPT ![s] = NoTimer]
  /\ deadline' = [deadline EXCEPT ![s] = 0]

Renewed(s) == deadline[s] > now

\* The server's memory goes with it.
Dies ==
  /\ up' = FALSE /\ proc' = [q \in Procs |-> Idle]
  /\ deadline' = [s \in Sandboxes |-> 0] /\ timer' = [s \in Sandboxes |-> NoTimer]
  /\ refs' = [k \in Keys |-> 0]

\* An exception nobody catches ends a request or a timer's thread; in the restore
\* it ends the start of the server.
Abandons(p) ==
  IF proc[p].op = "restore" THEN Dies ELSE Become(p, Idle) /\ UNCHANGED <<up, memory>>

-----------------------------------------------------------------------------
(* POST /sandboxes: create_sandbox, _provision_sandbox.                    *)

\* Validation and the image precede every effect and are in CreateSandbox.tla.
Create ==
  /\ Serving
  /\ \E s \in Sandboxes \ used, shape \in Requests, d \in Times :
       /\ shape.timed => d > now
       /\ ~shape.timed => d = 0
       /\ used' = used \cup {s} /\ spec' = [spec EXCEPT ![s] = shape]
       /\ Become(Loop, [Idle EXCEPT !.op = "create", !.pc = "mount", !.s = s,
                                    !.keys = shape.keys, !.to = d])
  /\ Works /\ UNCHANGED <<now, host, memory, up, created, promised, deleted>>

\* What _ensure_ossfs_mounted does under its lock: count one more user of a
\* mount, adopt a mount nobody counts, or mount. A failure releases what the
\* request had prepared and ends it.
PrepareMount(p) ==
  /\ At(p, "mount")
  /\ \E k \in proc[p].keys :
       LET prepared == [proc[p] EXCEPT !.keys = @ \ {k}, !.held = @ \cup {k}]
           rolledBack == [proc[p] EXCEPT !.pc = "release", !.keys = proc[p].held]
       IN \/ /\ refs' = [refs EXCEPT ![k] = @ + 1]
             /\ mounted' = IF refs[k] = 0 THEN mounted \cup {k} ELSE mounted
             /\ Become(p, prepared) /\ Works
          \/ /\ refs[k] = 0 /\ k \notin mounted /\ Fails("mount")
             /\ Become(p, rolledBack) /\ UNCHANGED <<mounted, refs>>
  /\ UNCHANGED <<now, box, sidecar, tracking, up, clients>>

MountsPrepared(p) ==
  /\ At(p, "mount") /\ proc[p].keys = {}
  /\ Goto(p, IF spec[proc[p].s].policy THEN "egress" ELSE "container")
  /\ Works /\ UNCHANGED <<now, host, memory, up, clients>>

\* A sidecar that was created but does not start is removed at once, if the
\* daemon lets it be.
StartEgress(p) ==
  /\ At(p, "egress")
  /\ \/ sidecar' = sidecar \cup {proc[p].s} /\ Goto(p, "container") /\ Works
     \/ /\ \/ Fails("egress") /\ UNCHANGED sidecar
           \/ /\ {"egress", "remove"} \subseteq Faults /\ faults < MaxFaults
              /\ faults' = faults + 1 /\ failed' = failed \cup {"egress", "remove"}
              /\ sidecar' = sidecar \cup {proc[p].s} /\ UNCHANGED astray
           \/ Loses(proc[p].s) /\ sidecar' = sidecar \cup {proc[p].s}
        /\ Become(p, [proc[p] EXCEPT !.pc = "release", !.keys = proc[p].held])
  /\ UNCHANGED <<now, box, mounted, memory, up, clients>>

\* A container whose id did not arrive is left, and what it needs is taken back.
CreateContainer(p) ==
  /\ At(p, "container")
  /\ \/ /\ box' = [box EXCEPT ![proc[p].s] = [st |-> "created", label |-> proc[p].to]]
        /\ (Goto(p, "start") /\ Works) \/ (Goto(p, "undoEgress") /\ Loses(proc[p].s))
     \/ Fails("create") /\ UNCHANGED box /\ Goto(p, "undoEgress")
  /\ UNCHANGED <<now, sidecar, mounted, memory, up, clients>>

\* Copying execd and the bootstrap script in is part of the start, which may have
\* been carried out when it is answered with an error.
StartContainer(p) ==
  /\ At(p, "start")
  /\ \/ /\ box' = [box EXCEPT ![proc[p].s].st = "running"]
        /\ (Goto(p, "track") /\ Works) \/ (Goto(p, "undo") /\ Fails("start"))
     \/ Fails("start") /\ UNCHANGED box /\ Goto(p, "undo")
  /\ UNCHANGED <<now, sidecar, mounted, memory, up, clients>>

UndoContainer(p) ==
  /\ At(p, "undo")
  /\ \/ box' = [box EXCEPT ![proc[p].s] = NoBox] /\ Works
     \/ Fails("remove") /\ UNCHANGED box
  /\ Goto(p, "undoEgress")
  /\ UNCHANGED <<now, sidecar, mounted, memory, up, clients>>

\* A plausible bug: the mounts are forgotten.
UndoEgressOnly(p) ==
  /\ At(p, "undoEgress")
  /\ sidecar' = sidecar \ {proc[p].s}
  /\ Goto(p, "release")
  /\ Works /\ UNCHANGED <<now, box, mounted, memory, up, clients>>

UndoEgress(p) ==
  /\ At(p, "undoEgress")
  /\ \/ sidecar' = sidecar \ {proc[p].s} /\ Works
     \/ proc[p].s \in sidecar /\ Fails("remove") /\ UNCHANGED sidecar
  /\ Become(p, [proc[p] EXCEPT !.pc = "release", !.keys = proc[p].held])
  /\ UNCHANGED <<now, box, mounted, memory, up, clients>>

\* The expiration is tracked after the container runs, and the client told.
TrackCreated(p) ==
  LET s == proc[p].s IN
  /\ At(p, "track")
  /\ IF spec[s].timed THEN ScheduleExpiration(s, proc[p].to, TRUE, {}) ELSE UNCHANGED tracking
  /\ promised' = [promised EXCEPT ![s] = proc[p].to]
  /\ created' = created \cup {s}
  /\ Become(p, Idle)
  /\ Works /\ UNCHANGED <<now, host, refs, up, spec, used, deleted>>

-----------------------------------------------------------------------------
(* DELETE /sandboxes/{id}.                                                 *)

Delete ==
  /\ Serving
  /\ \E s \in Sandboxes :
       /\ Present(s)
       /\ Become(Loop, [Idle EXCEPT !.op = "delete", !.pc = "kill", !.s = s,
                                    !.keys = spec[s].keys])
  /\ Works /\ UNCHANGED <<now, host, memory, up, clients>>

\* A container that is not running is no error; one that is gone is. The finally
\* clause follows any error, that of a call which was carried out too.
DeleteKill(p) ==
  LET s == proc[p].s IN
  /\ At(p, "kill")
  /\ \/ /\ Present(s)
        /\ box' = IF Running(s) THEN [box EXCEPT ![s].st = "exited"] ELSE box
        /\ (Goto(p, "remove") /\ Works) \/ (Goto(p, "untrack") /\ Fails("kill"))
     \/ ~Present(s) /\ Goto(p, "untrack") /\ Works /\ UNCHANGED box
     \/ Fails("kill") /\ Goto(p, "untrack") /\ UNCHANGED box
  /\ UNCHANGED <<now, sidecar, mounted, memory, up, clients>>

DeleteRemove(p) ==
  LET s == proc[p].s IN
  /\ At(p, "remove")
  /\ \/ /\ Present(s) /\ box' = [box EXCEPT ![s] = NoBox]
        /\ \/ Become(p, [proc[p] EXCEPT !.pc = "untrack", !.flag = TRUE]) /\ Works
           \/ Goto(p, "untrack") /\ Fails("remove")
     \/ ~Present(s) /\ Goto(p, "untrack") /\ Works /\ UNCHANGED box
     \/ Fails("remove") /\ Goto(p, "untrack") /\ UNCHANGED box
  /\ UNCHANGED <<now, sidecar, mounted, memory, up, clients>>

-----------------------------------------------------------------------------
(* The end a deletion, whether it went well or not, and an expiration share. *)

Untrack(p) ==
  /\ At(p, "untrack") /\ RemoveTracking(proc[p].s) /\ Goto(p, "sidecar")
  /\ Works /\ UNCHANGED <<now, host, refs, up, clients>>

CleanupSidecar(p) ==
  /\ At(p, "sidecar")
  /\ \/ sidecar' = sidecar \ {proc[p].s} /\ Works
     \/ (Fails("list") \/ Fails("remove")) /\ UNCHANGED sidecar
  /\ Goto(p, "release")
  /\ UNCHANGED <<now, box, mounted, memory, up, clients>>

\* A plausible bug: a key nobody counts is counted down all the same.
ReleaseUntracked(p) ==
  /\ At(p, "release")
  /\ \E k \in proc[p].keys :
       /\ refs' = [refs EXCEPT ![k] = @ - 1]
       /\ Become(p, IF refs[k] = 1
                    THEN [proc[p] EXCEPT !.keys = @ \ {k}, !.pc = "unmount", !.key = k]
                    ELSE [proc[p] EXCEPT !.keys = @ \ {k}])
  /\ Works /\ UNCHANGED <<now, host, tracking, up, clients>>

\* A plausible bug: every release unmounts.
ReleaseAndUnmount(p) ==
  /\ At(p, "release")
  /\ \E k \in proc[p].keys :
       /\ refs' = IF refs[k] > 0 THEN [refs EXCEPT ![k] = @ - 1] ELSE refs
       /\ Become(p, [proc[p] EXCEPT !.keys = @ \ {k}, !.pc = "unmount", !.key = k])
  /\ Works /\ UNCHANGED <<now, host, tracking, up, clients>>

\* Under the mount lock: a key nobody counts is skipped, the last reference
\* leaves the unmount for after the lock.
ReleaseMount(p) ==
  /\ At(p, "release")
  /\ \E k \in proc[p].keys :
       /\ refs' = IF refs[k] > 0 THEN [refs EXCEPT ![k] = @ - 1] ELSE refs
       /\ Become(p, IF refs[k] = 1
                    THEN [proc[p] EXCEPT !.keys = @ \ {k}, !.pc = "unmount", !.key = k]
                    ELSE [proc[p] EXCEPT !.keys = @ \ {k}])
  /\ Works /\ UNCHANGED <<now, host, tracking, up, clients>>

\* A refused unmount is logged and the next key follows.
Unmount(p) ==
  /\ At(p, "unmount")
  /\ \/ mounted' = mounted \ {proc[p].key} /\ Works
     \/ proc[p].key \in mounted /\ Fails("unmount") /\ UNCHANGED mounted
  /\ Become(p, [proc[p] EXCEPT !.pc = "release", !.key = NoKey])
  /\ UNCHANGED <<now, box, sidecar, memory, up, clients>>

\* A timeout of the command is not an HTTPException: it leaves the loop over the
\* keys, and what follows it.
UnmountHangs(p) ==
  /\ At(p, "unmount") /\ proc[p].key \in mounted /\ Fails("hang")
  /\ Abandons(p)
  /\ UNCHANGED <<now, host, clients>>

Finish(p) ==
  /\ At(p, "release") /\ proc[p].keys = {}
  /\ Become(p, IF proc[p].op = "restore"
               THEN [proc[p] EXCEPT !.pc = "next", !.s = NoSandbox, !.flag = FALSE]
               ELSE Idle)
  /\ deleted' = IF proc[p].op = "delete" /\ proc[p].flag THEN deleted \cup {proc[p].s} ELSE deleted
  /\ Works /\ UNCHANGED <<now, host, memory, up, spec, used, created, promised>>

-----------------------------------------------------------------------------
(* POST /sandboxes/{id}/renew-expiration, .../pause, .../resume.           *)

\* Manual cleanup is refused. Nothing compares the new time with the old one.
Renew ==
  /\ Serving
  /\ \E s \in Sandboxes, d \in Times :
       /\ Present(s) /\ box[s].label # 0 /\ d > now
       /\ Become(Loop, [Idle EXCEPT !.op = "renew", !.pc = "rearm", !.s = s, !.to = d])
  /\ Works /\ UNCHANGED <<now, host, memory, up, clients>>

RenewTrack(p) ==
  /\ At(p, "rearm") /\ proc[p].op = "renew"
  /\ ScheduleExpiration(proc[p].s, proc[p].to, TRUE, {})
  /\ Goto(p, "label")
  /\ Works /\ UNCHANGED <<now, host, refs, up, clients>>

\* A label that cannot be updated, or a container that is gone by now, is
\* logged; the renewal is acknowledged in any case.
RenewLabel(p) ==
  LET s == proc[p].s IN
  /\ At(p, "label")
  /\ \/ box' = (IF Present(s) THEN [box EXCEPT ![s].label = proc[p].to] ELSE box) /\ Works
     \/ Fails("update") /\ UNCHANGED box
  /\ promised' = [promised EXCEPT ![s] = proc[p].to]
  /\ Become(p, Idle)
  /\ UNCHANGED <<now, sidecar, mounted, memory, up, spec, used, created, deleted>>

Pause ==
  /\ Serving
  /\ \E s \in Sandboxes : box[s].st = "running" /\ box' = [box EXCEPT ![s].st = "paused"]
  /\ Works /\ UNCHANGED <<now, sidecar, mounted, memory, up, proc, clients>>

Resume ==
  /\ Serving
  /\ \E s \in Sandboxes : box[s].st = "paused" /\ box' = [box EXCEPT ![s].st = "running"]
  /\ Works /\ UNCHANGED <<now, sidecar, mounted, memory, up, proc, clients>>

-----------------------------------------------------------------------------
(* _expire_sandbox, in a timer's thread or within the restore.             *)

Fire(t) ==
  /\ up /\ proc[t] = Idle
  /\ \E s \in Sandboxes :
       /\ timer[s].at # 0 /\ timer[s].at <= now
       /\ timer' = [timer EXCEPT ![s] = NoTimer]
       /\ Become(t, [Idle EXCEPT !.op = "expire", !.pc = "lookup", !.s = s,
                                 !.keys = timer[s].keys])
  /\ Works /\ UNCHANGED <<now, host, deadline, refs, up, clients>>

\* A container that is gone ends the tracking, and the mounts the restore saw it
\* with are released. Otherwise the mounts to release are those in its label.
ExpireLookup(p) ==
  LET s == proc[p].s IN
  /\ At(p, "lookup")
  /\ \/ /\ Present(s) /\ UNCHANGED tracking
        /\ Become(p, [proc[p] EXCEPT !.pc = "deadline", !.keys = spec[s].keys,
                                     !.flag = Running(s)])
        /\ Works
     \/ ~Present(s) /\ RemoveTracking(s) /\ Goto(p, "release") /\ Works
     \/ Fails("list") /\ Goto(p, "retry") /\ UNCHANGED tracking
  /\ UNCHANGED <<now, host, refs, up, clients>>

Dismissed(p) == Become(p, [proc[p] EXCEPT !.pc = "release", !.keys = {}])

RetryLook(p) ==
  /\ At(p, "retry")
  /\ IF Renewed(proc[p].s) THEN Dismissed(p) ELSE Goto(p, "rearm")
  /\ Works /\ UNCHANGED <<now, host, memory, up, clients>>

\* A plausible bug: the lookup that failed is not tried again.
RearmNot(p) ==
  /\ At(p, "rearm") /\ proc[p].op # "renew"
  /\ Dismissed(p)
  /\ Works /\ UNCHANGED <<now, host, memory, up, clients>>

\* Thirty seconds are one tick of the clock, or none at its end. A renewal since
\* the look loses the timer it has armed.
Rearm(p) ==
  LET s == proc[p].s IN
  /\ At(p, "rearm") /\ proc[p].op # "renew"
  /\ ScheduleExpiration(s, IF now < MaxTime THEN now + 1 ELSE now, FALSE, proc[p].keys)
  /\ astray' = IF Renewed(s) THEN astray \cup {s} ELSE astray
  /\ Dismissed(p)
  /\ UNCHANGED <<now, host, refs, up, clients, faults, failed>>

ReadDeadline(p) ==
  /\ At(p, "deadline")
  /\ IF Renewed(proc[p].s) THEN Dismissed(p) ELSE Goto(p, "expireKill")
  /\ Works /\ UNCHANGED <<now, host, memory, up, clients>>

\* Errors of the kill and of the removal are logged.
ExpireKill(p) ==
  LET s == proc[p].s IN
  /\ At(p, "expireKill")
  /\ \/ box' = (IF proc[p].flag /\ Running(s) THEN [box EXCEPT ![s].st = "exited"] ELSE box) /\ Works
     \/ proc[p].flag /\ Fails("kill") /\ UNCHANGED box
  /\ Goto(p, "expireRemove")
  /\ UNCHANGED <<now, sidecar, mounted, memory, up, clients>>

ExpireRemove(p) ==
  /\ At(p, "expireRemove")
  /\ \/ box' = [box EXCEPT ![proc[p].s] = NoBox] /\ Works
     \/ Fails("remove") /\ UNCHANGED box
  /\ Become(p, [proc[p] EXCEPT !.pc = "untrack", !.flag = FALSE])
  /\ UNCHANGED <<now, sidecar, mounted, memory, up, clients>>

-----------------------------------------------------------------------------
(* Death and start: _restore_existing_sandboxes, before requests are served. *)

Crash ==
  /\ up /\ Fails("crash") /\ Dies
  /\ UNCHANGED <<now, host, clients>>

\* A plausible bug: no label is read as an expiration long past.
OverdueUnlabelled(s) == Present(s) /\ box[s].label <= now

Overdue(s) == Present(s) /\ box[s].label \in 1..now
Holders(k) == {s \in Sandboxes : Present(s) /\ k \in spec[s].keys}

\* A plausible bug: what is overdue is left alone.
RestartWithoutOverdue ==
  /\ ~up /\ up' = TRUE
  /\ timer' = [s \in Sandboxes |->
                 IF Present(s) /\ box[s].label > now
                 THEN [at |-> box[s].label, keys |-> {}] ELSE NoTimer]
  /\ deadline' = [s \in Sandboxes |->
                 IF Present(s) /\ box[s].label > now THEN box[s].label ELSE 0]
  /\ Become(Loop, [Idle EXCEPT !.op = "restore", !.pc = "counts",
                               !.counts = [k \in Keys |-> Cardinality(Holders(k))]])
  /\ Works /\ UNCHANGED <<now, host, refs, clients>>

\* Pass 1 takes the counts and arms the timers; without a list nothing is done.
Restart ==
  /\ ~up /\ up' = TRUE
  /\ \/ /\ timer' = [s \in Sandboxes |->
                       IF Present(s) /\ box[s].label > now
                       THEN [at |-> box[s].label, keys |-> {}] ELSE NoTimer]
        /\ deadline' = [s \in Sandboxes |->
                       IF Present(s) /\ box[s].label > now THEN box[s].label ELSE 0]
        /\ Become(Loop, [Idle EXCEPT !.op = "restore", !.pc = "counts",
                           !.todo = {s \in Sandboxes : Overdue(s)},
                           !.counts = [k \in Keys |-> Cardinality(Holders(k))]])
        /\ Works
     \/ Fails("relist") /\ UNCHANGED <<tracking, proc>>
  /\ UNCHANGED <<now, host, refs, clients>>

RestoreCounts(p) ==
  /\ At(p, "counts")
  /\ refs' = proc[p].counts
  /\ Become(p, [proc[p] EXCEPT !.pc = "next", !.counts = Idle.counts])
  /\ Works /\ UNCHANGED <<now, host, tracking, up, clients>>

\* Pass 2 expires, one after the other, what is overdue.
RestoreNext(p) ==
  /\ At(p, "next")
  /\ \/ \E s \in proc[p].todo :
          Become(p, [proc[p] EXCEPT !.pc = "lookup", !.s = s, !.keys = spec[s].keys,
                                    !.todo = @ \ {s}])
     \/ proc[p].todo = {} /\ Goto(p, "orphans")
  /\ Works /\ UNCHANGED <<now, host, memory, up, clients>>

\* A plausible bug: the sidecars are not looked at.
RestoreOrphansNot(p) ==
  /\ At(p, "orphans") /\ Become(p, Idle)
  /\ Works /\ UNCHANGED <<now, host, memory, up, clients>>

\* Sidecars without a sandbox are removed; the service is ready.
RestoreOrphans(p) ==
  /\ At(p, "orphans")
  /\ \/ sidecar' = {s \in sidecar : Present(s)} /\ Works
     \/ (Fails("list") \/ Fails("remove")) /\ UNCHANGED sidecar
  /\ Become(p, Idle)
  /\ UNCHANGED <<now, box, mounted, memory, up, clients>>

-----------------------------------------------------------------------------
(* The surroundings.                                                       *)

\* A connection that breaks, or an answer that is not there in time, is an error
\* of the HTTP library: it passes every "except DockerException". The call may
\* have been carried out.
ConnectionBreaks(p) ==
  LET s == proc[p].s IN
  /\ \/ At(p, "lookup") /\ UNCHANGED <<box, sidecar>>
     \/ /\ At(p, "expireKill") /\ proc[p].flag /\ UNCHANGED sidecar
        /\ box' \in {box, IF Running(s) THEN [box EXCEPT ![s].st = "exited"] ELSE box}
     \/ At(p, "expireRemove") /\ box' \in {box, [box EXCEPT ![s] = NoBox]} /\ UNCHANGED sidecar
     \/ At(p, "label") /\ UNCHANGED sidecar
        /\ box' \in {box, IF Present(s) THEN [box EXCEPT ![s].label = proc[p].to] ELSE box}
     \/ /\ At(p, "sidecar") \/ (At(p, "undoEgress") /\ s \in sidecar)
        /\ sidecar' \in {sidecar, sidecar \ {s}} /\ UNCHANGED box
     \/ /\ At(p, "orphans") /\ UNCHANGED box
        /\ sidecar' \in {sidecar \ gone : gone \in SUBSET {q \in sidecar : ~Present(q)}}
  /\ Fails("connection") /\ Abandons(p)
  /\ UNCHANGED <<now, mounted, clients>>

\* The user's command ends.
Exit ==
  /\ \E s \in Sandboxes : box[s].st = "running" /\ box' = [box EXCEPT ![s].st = "exited"]
  /\ UNCHANGED <<now, sidecar, mounted, memory, up, proc, clients, luck>>

Tick ==
  /\ now < MaxTime /\ now' = now + 1
  /\ UNCHANGED <<host, memory, up, proc, clients, luck>>

ProvisionStep(p) ==
  \/ PrepareMount(p) \/ MountsPrepared(p) \/ StartEgress(p) \/ CreateContainer(p)
  \/ StartContainer(p) \/ UndoContainer(p) \/ UndoEgress(p) \/ TrackCreated(p)
EndStep(p) ==
  \/ Untrack(p) \/ CleanupSidecar(p) \/ ReleaseMount(p) \/ Unmount(p) \/ UnmountHangs(p)
  \/ Finish(p)
ExpireStep(p) ==
  \/ ExpireLookup(p) \/ RetryLook(p) \/ Rearm(p) \/ ReadDeadline(p) \/ ExpireKill(p)
  \/ ExpireRemove(p)
LoopStep(p) ==
  \/ ProvisionStep(p) \/ DeleteKill(p) \/ DeleteRemove(p) \/ RenewTrack(p) \/ RenewLabel(p)
  \/ RestoreCounts(p) \/ RestoreNext(p) \/ RestoreOrphans(p)
Step(p) == LoopStep(p) \/ EndStep(p) \/ ExpireStep(p)

Next ==
  \/ Create \/ Delete \/ Renew \/ Pause \/ Resume
  \/ \E p \in Procs : Step(p) \/ ConnectionBreaks(p)
  \/ \E t \in Timers : Fire(t)
  \/ Crash \/ Restart \/ Exit \/ Tick

Spec == Init /\ [][Next]_vars

\* A thread goes on, a due timer fires when a thread is free for it, the clock
\* advances, and a supervisor starts a dead server again. Clients owe nothing.
Fairness ==
  /\ \A p \in Procs : WF_vars(Step(p))
  /\ WF_vars(\E t \in Timers : Fire(t))
  /\ WF_vars(Tick) /\ WF_vars(Restart)
FairSpec == Spec /\ Fairness

-----------------------------------------------------------------------------
(* Properties.                                                             *)

TypeOK ==
  /\ now \in Times
  /\ box \in [Sandboxes -> Boxes] /\ sidecar \subseteq Sandboxes /\ mounted \subseteq Keys
  /\ deadline \in [Sandboxes -> Times]
  /\ timer \in [Sandboxes -> [at : Times, keys : SUBSET Keys]]
  /\ refs \in [Keys -> Nat] /\ up \in BOOLEAN
  /\ proc \in [Procs -> Threads]
  /\ spec \in [Sandboxes -> Shapes] /\ used \subseteq Sandboxes /\ created \subseteq Sandboxes
  /\ promised \in [Sandboxes -> Times] /\ deleted \subseteq Sandboxes
  /\ faults \in Nat /\ failed \subseteq AllFaults /\ astray \subseteq Sandboxes

Working(p, s) == proc[p].s = s /\ proc[p].op # "idle"
Attended(s) == \E p \in Procs : Working(p, s)
Restoring == proc[Loop].op = "restore"
Timed(s) == Present(s) /\ box[s].label # 0

\* Which calls have failed so far. Without these conditions the promises below do
\* not hold: see the README.
ExpiryAnswered == failed \cap {"relist", "kill", "remove", "connection"} = {}
DaemonAnswers == ExpiryAnswered /\ "list" \notin failed
DaemonSound == DaemonAnswers /\ "lost" \notin failed

\* While the server serves, every sandbox with an expiration that is not astray has
\* its timer armed, or a thread is at work on it: for the tracked deadline while
\* that is ahead, at once or for a retry when it has passed. The pieces are the
\* timer that a renewal replaces, the one a callback has consumed, the retry of a
\* failed lookup, the tracking a deletion drops and what a restart rebuilds from
\* the labels.
ExpiryCovered ==
  up /\ ~Restoring /\ ExpiryAnswered =>
    \A s \in Sandboxes \ astray :
      Timed(s) =>
        \/ Attended(s)
        \/ /\ timer[s].at # 0
           /\ IF Renewed(s) THEN timer[s].at = deadline[s] ELSE timer[s].at <= now + 1

\* What a container binds stays mounted for as long as the container exists:
\* references are counted per sandbox, across failed creations, deletions and
\* restarts, and only the last one unmounts. A creation whose answer is lost
\* leaves a container that nobody counts.
InUseMounted ==
  DaemonSound => \A s \in Sandboxes : Present(s) => spec[s].keys \subseteq mounted

\* When nothing is in progress the counts are those of the containers: no request
\* that failed half-way and no restart leaves a reference behind or takes one
\* away. An unmount command that hangs does leave references behind.
CountsSettle ==
  Serving /\ (\A t \in Timers : proc[t] = Idle) /\ DaemonSound /\ "hang" \notin failed =>
    \A k \in Keys : refs[k] = Cardinality(Holders(k))

\* The sidecar that holds the network of a sandbox lives exactly as long as the
\* sandbox, also when the server dies between the steps that create or remove them.
\* Astray is what an unanswered creation left: either of them without the other.
SidecarFollows ==
  \A s \in Sandboxes \ astray :
    up /\ ~Restoring /\ ~Attended(s) /\ DaemonAnswers =>
      (s \in sidecar <=> Present(s) /\ spec[s].policy)

\* A deletion that was acknowledged left nothing: no container, no sidecar, no
\* deadline, and no timer that a callback or a renewal has armed again since.
\* The container is gone whatever else failed.
DeletedIsGone ==
  \A s \in deleted :
    /\ ~Present(s)
    /\ DaemonAnswers => s \notin sidecar /\ deadline[s] = 0 /\ timer[s] = NoTimer

\* The refinement. An id whose container is still to be made has no life yet; a
\* creation is under way until its container runs or is undone.
BeforeContainer == {"mount", "egress", "container"}
UntilTracked == BeforeContainer \cup {"start", "undo", "track"}
Provisioning(s, steps) ==
  proc[Loop].op = "create" /\ proc[Loop].s = s /\ proc[Loop].pc \in steps
Living(s) ==
  IF Present(s) THEN (IF box[s].label = 0 THEN "manual" ELSE "timed")
  ELSE IF s \notin used \/ Provisioning(s, BeforeContainer) THEN "none" ELSE "over"
Told(s) ==
  IF s \notin used THEN "new"
  ELSE IF Provisioning(s, UntilTracked) THEN "creating"
  ELSE IF s \in created THEN "ok" ELSE "unsure"
Deleting == {s \in Sandboxes : proc[Loop].op = "delete" /\ proc[Loop].s = s}
Lives == [s \in Sandboxes |-> Living(s)]
Answers == [s \in Sandboxes |-> Told(s)]

\* Whatever timers, retries and restarts do at the same time as a request, and
\* whichever call fails: a sandbox lives as SandboxLife promises. In particular
\* nothing but a deletion ends one that was made for manual cleanup
\* (create_sandbox, _expire_sandbox, _restore_existing_sandboxes, delete_sandbox).
Life == INSTANCE SandboxLife WITH
  life <- Lives, told <- Answers, deleting <- Deleting, deleted <- deleted
ImplementsLife == Life!LifeSpec

\* A sandbox with an expiration that does not go astray does not stay for ever,
\* whatever is renewed, paused or restarted in between, and whatever lookup has to
\* be tried again.
Expires == \A s \in Sandboxes : Timed(s) ~> ~Present(s) \/ s \in astray \/ ~ExpiryAnswered

\* That no sandbox with an expiration is forgotten, whatever fails ("Failed to fetch
\* sandbox for expiration - scheduling retry in 30s", docker.py:347).
NoneForgotten ==
  up /\ ~Restoring => \A s \in Sandboxes : Timed(s) => timer[s].at # 0 \/ Attended(s)

\* An expiration removes no sandbox whose acknowledged expiration is still ahead,
\* unless a renewal is just changing it
\* ("so renew operations take effect immediately", docker.py:295).
RenewalHonoured ==
  [][\A p \in Procs : At(p, "expireRemove") /\ proc'[p].pc = "untrack"
                        => promised[proc[p].s] <= now \/ proc[Loop].op = "renew"]_vars

\* A renewal only ever extends ("must be in the future and after the current
\* expiresAt time", api/lifecycle.py:728).
RenewalExtends ==
  [][\A s \in Sandboxes : promised[s] # 0 => promised'[s] >= promised[s]]_vars
=============================================================================
