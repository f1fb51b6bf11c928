# Verification of codeInspector

codeInspector runs security scanners inside throw-away sandboxes.  This
directory holds TLA+ models of the parts of it that keep state and act
concurrently, the TLC configurations that check them, and proofs of their main
properties for every value of the parameters, checked by TLAPS.

    tlc -workers 2 -config pool_calm.cfg MCPoolController.tla
    tlc -workers 2 -config exec_crash.cfg MCTaskExecutor.tla
    tlc -workers 2 -config docker.cfg MCDockerRuntime.tla
    tlc -workers 2 -config k8s.cfg MCKubernetesRuntime.tla
    tlc -workers 2 -config scan.cfg MCScanJobs.tla
    tlc -workers 2 -config keys.cfg MCKeyRegistry.tla
    tlapm PoolController_proofs.tla
    tlapm TaskExecutor_proofs.tla
    tlapm DockerRuntime_proofs.tla
    tlapm DockerSound_proofs.tla
    tlapm DockerMounts_proofs.tla
    tlapm KubernetesRuntime_proofs.tla
    tlapm ScanJobs_proofs.tla
    tlapm KeyRegistry_proofs.tla

Source paths below are relative to the repository; `C/` stands for
`opensandbox-controller/docker-build/` and `S/` for
`opensandbox-server/docker-build/src/`.  Configurations that no entry of
`PROJECT.json` runs hold further questions.  In `pool_release`, `pool_stale`,
`pool_panic`, `pool_persist`, `pool_ceiling`, `pool_overwritten`, `exec_final`,
`exec_shim`, `docker_renew`, `docker_extend`, `docker_lost`, `docker_connection`,
`docker_list`, `scan_deadline`, `scan_rerun`, `scan_overwritten` and `scan_paths`
TLC finds the property they name violated; `pool_settled` and `keys_live` pass.
The numbered findings below are what these and the two refuted runs show.

## 1. The system

| Component | State it keeps | Operations | Talks to |
|---|---|---|---|
| **Pool controller** `C/internal/controller/pool_controller.go`, `allocator.go` | annotations `pool-alloc-status` of the Pool, `alloc-status` of each BatchSandbox, the pods; two in-memory expectations | reconcile: schedule, persist, scale, roll, report | API server (objects, watches), BatchSandbox controller (annotations) |
| **BatchSandbox controller** `batchsandbox_controller.go` | pods of its own or, with a `poolRef`, those its annotation names; finalizer; `alloc-release` annotation | reconcile: scale, run tasks, release pods, clean up | pool controller (annotations), task scheduler (in process) |
| **Task scheduler** `C/internal/scheduler` | task nodes: pod, state of the task, state of the node | Schedule, StopTask, recover | task executor of each pod (HTTP) |
| **Task executor** `C/internal/task-executor` | tasks in memory, one directory per task (`task.json`, `pid`, `exit`), processes | Create, Sync, Delete, recover, reconcile loop, stop goroutine | task scheduler, processes |
| **Sandbox server, Docker** `S/services/docker.py` | a timer and a deadline per sandbox, labels of containers | create, delete, pause, resume, renew, expire, restore | Docker daemon |
| **OSSFS mounts** `S/services/ossfs_mixin.py` | reference count of each mount | ensure, release | Docker runtime, kernel mounts |
| **Sandbox server, Kubernetes** `S/services/k8s` | informer cache of BatchSandboxes, its cursor | list, watch, `update_cache`; create, get, renew, delete | API server, BatchSandbox controller (through the objects) |
| **Sandbox server, requests** `S/api/lifecycle.py`, `S/services/validators.py` | none, but for the waiting coroutine of a scan job | validate, create, list, scan | either runtime, the reports volume |
| **API server** `apiServer/fastapi` | key registry (a table, and a set in Redis that the replicas share), `latest_job_id` | validate, create, list, delete and clean up keys; proxy requests | database, Redis, sandbox server |
| **Scanner orchestrator** `code-interpreter/src` | its results, one report file | classifies files, runs scanners in a pool of threads, writes the report | the reports volume, which the scan job polls |

Generated clients (`C/pkg/client`), Helm charts, the web site and the docs hold
no logic of the program's own.

What is hard, and what makes each part correct:

* **Pool controller.**  An allocation lives in two kinds of object that are
  patched one after the other from informer caches which lag independently,
  while users create, resize and delete sandboxes, the BatchSandbox controller
  releases pods, the kubelet starts and loses them, and the controller may
  restart between any two calls.  Correct means: no pod serves two sandboxes,
  a used pod is on the pool's record and is never retired, `poolMax` is a hard
  ceiling (`README.md:112`), sandboxes are served, pods come back, old
  revisions leave.
* **Task scheduler.**  Polls and commands are lost, late or answered by a pod
  that has moved on to another sandbox.  Correct means: a task runs on one pod
  at a time, a released task has stopped, another sandbox's task is left
  alone, deletion completes.
* **Task executor.**  Files and processes change between two reads, a stop runs
  outside the lock, a crash may fall between any two writes.  Correct means:
  one active task, a task that is deleted is stopped and then gone, a final
  state stays, a restart finds what was there.
* **Docker runtime and mounts.**  Timer callbacks, requests and a restart race
  on one sandbox.  Correct means: a sandbox with an expiration is always
  covered by a timer, also after a restart; a mount stays while a sandbox uses
  it and is released once; a sidecar lives as long as its sandbox; what fails
  half-way is undone.
* **Kubernetes runtime.**  Requests read a cache that a list and a watch keep,
  and write to it themselves; each call may be refused or its answer lost.
  Correct means: the cache is the cluster as of one revision and catches up, a
  deletion that is acknowledged is true, a creation leaves all or nothing.
* **Scan jobs.**  The handler and the sandbox have only files in common, and
  the sandbox may die or expire between any two of its steps.  Correct means:
  what the job is answered is true of the report and stays so.
* **Requests.**  What is checked of a request is computed again when it is
  carried out.  Correct means: a bind lies below what was allowed, an endpoint
  leads to the port, a listing is complete.

* **API keys.**  Replicas that autoscale write a table and a set one after the
  other, and either may fail; what one reads, another changes before it is used.
  Correct means: a key is refused only for a reason, a deletion stays done, the
  quota holds as far as the code can keep it, what has expired leaves.

The hazards, line by line, are in `PROJECT.json`.

## 2. Plan

| Order | Module | Models | State |
|---|---|---|---|
| 1 | `PoolAllocator` | the allocation algorithm, as functions of what was read | done |
| 2 | `PoolController` (EXTENDS 1) | the reconcile over a lagging API server, its environment | done |
| 3 | `PodLedger` | abstract: lend, return, retire; refined by 2 | done |
| 4 | `PoolController_proofs` | TypeOK, PoolBounded, NoLostAllocation, Exclusive, Recorded, UsedPodsStay, refinement | done |
| 5 | `TaskExecutor`, `MCTaskExecutor` | manager, store and process with crashes between two steps | done |
| 6 | `TaskSlot` | abstract: one slot that tasks take and leave for good; refined by 5 | done |
| | `TaskExecutor_proofs` | TypeOK, OneActive, DeletionDurable, StoreMirrored, OnlyDoomedStopped, Tracked, refinement | done |
| 7 | `DockerRuntime`, `MCDockerRuntime` | requests, expiration threads and restarts over the Docker daemon, with the reference counts of mounts | done |
| | `SandboxLife` | abstract: a sandbox's life and what is answered of it; refined by 7 and by 8 | done |
| | `DockerRuntime_proofs`, `DockerSound_proofs`, `DockerMounts_proofs` (each EXTENDS the one before) | TypeOK, refinement; ExpiryCovered, SidecarFollows, DeletedIsGone; InUseMounted, CountsSettle | done |
| 8 | `KubernetesRuntime`, `MCKubernetesRuntime`, `KubernetesRuntime_proofs` | requests over the API server and the informer's cache; the refinement | done |
| 9 | `ScannerOrchestrator`, `ScanJobs`, `CreateSandbox`, `MCScanJobs`, `ScanJobs_proofs` | scan jobs, the orchestrator, and the pure functions of a request | done |
| 10 | `KeyRegistry`, `MCKeyRegistry`, `KeyRegistry_proofs` | the API keys of several replicas over two stores | done |
| 11 | `TaskScheduler`, `TaskAssignment` | the scheduler over lossy calls and pods an abstract pool re-grants; its abstract promise | not done |

Bounds: two of each actor that can conflict, one more value of a counter than
the property needs.  Theorems worth proving: type correctness of every module,
the exclusion and bounding invariants, the refinements.

## 3. The pool controller

### Correspondence

`PoolAllocator` holds what `allocator.go` computes: a sandbox is what the
allocator reads of a BatchSandbox (phase, replicas, the pods and the *length* of
its annotation, for the code counts entries and a pod may appear twice, and
the release list).  `Grants` is the set of ways one pass of `allocate` can hand
out the available pods, since both lists come in the arbitrary order of a cache;
`ScheduledAlloc`, `Releases`, `Collected` are `deallocate` and `doDeallocate`;
`SlicePanics` is the slice expression of `doAllocate` with a negative bound.

`PoolController` gives it state:

| Variables | In the code |
|---|---|
| `pod`, `podRevision`, `sandbox`, `pool` | the objects in the API server |
| `podSeen`, `sandboxSeen`, `poolSeen`, `poolBehind` | the informer caches; `poolBehind`: the server has a newer resource version |
| `unseenPatch` | `poolResExpectations`: our last patch is not in the cache |
| `scaleExp` | `PoolScaleExpectations`: created pods the list has not shown |
| `queued` | the work queue |
| `strays`, `strayRecord` | history, not in the code: the pods that are up, and the record, whose write was carried out though its answer was an error |
| `pc`, `view`, `plan` | the running reconcile: what it listed and what it scheduled |

A reconcile is cut at its API calls. `Reconcile` (or `Retry`, the closure run
again by `RetryOnConflict`) lists, reads and schedules; `SyncSandbox`, once per
dirty sandbox, patches an annotation; `Persist`, `PersistUnanswered`,
`PersistFails` or `SkipPersist` is step 3; `ScaleOut`, `ScaleIn` or
`ScaleNotReady` is step 4 with all its creations or deletions (they read only what
the reconcile holds, so nothing can tell their order); `UpdateStatus`,
`StatusConflict` or `StatusFails` is step 5. Each failure leaves the reconcile
where the code's `return err` does. A write may be refused, or be carried out and
its answer lost: then what the code does after the call is skipped, which is
`Expect` in `PersistUnanswered` (`allocator.go:98`) and `ExpectScale` for a pod of
`ScaleOut` (`pool_controller.go:482`). Between any two of these, informers deliver
(`ObservePod`, `ObserveSandbox`, `ObservePool`, with the predicates of
`SetupWithManager`), users create, resize and delete sandboxes and edit the
template, the BatchSandbox controller releases pods, the kubelet starts and ends
pods, pods are evicted, and the controller restarts.

What can go wrong is named in the constant `Faults`, so that each run says what
it assumes.  Without `"poolLag"` a reconcile waits for the Pool cache to catch
up; the caches of pods and sandboxes lag in every run.

Abstracted: contents of templates (a revision number), of pods (a phase) and of
the status (whether it changed); lists are sets except for their length; the
three exponential backoffs are "again later".

### Runs

Two pods, one or two sandboxes with at most one replica each.  That is enough
for what can conflict: two sandboxes after one pod, a pod changing hands, one
pod in use while another idles, a pool at its ceiling.  `Pods` are the names
the API server may generate; a name is used once, so a behaviour creates at most
that many pods, and the liveness properties are stated up to the moment the
names run out (`NamesLeft`).  `MaxReplicas`, `MaxRevision` are the other
bounds.  Deadlock is not checked: users may stop asking and names run out.

| Run | Asks | Bounds | Shows |
|---|---|---|---|
| `pool_calm` | `Exclusive`, `Recorded`, `UsedPodsStay`, `ImplementsLedger` | 2 pods, 2 sandboxes; patches of annotations fail, or are not answered | with lagging caches, however requests, events and the steps of a reconcile interleave, the promise of `PodLedger` is kept; findings 1, 2 and 11 are what the run leaves out |
| `pool_faults` | `PoolBounded`, `NoLostAllocation`, `TypeOK` | 2 pods, 1 sandbox, `poolMax` 1; stale Pools, writes of Pool and pods that fail or are not answered, lost pods, restarts and resizes at once | the two expectations do their work: `poolMax` is passed only by pods whose creation was not answered, and a schedule overwrites a newer record only if the patch of that record was not answered |
| `pool_live` | `Served`, `PodsReturn`, `OldPodsRetire` | 2 pods, 1 sandbox, 2 revisions, releases | under fairness nothing gets stuck |

`pool_settled.cfg` asks in the setting of `pool_calm`, but without faults, that at
rest the records agree and nobody waits (`SettledAgreement`, `SettledServed`).
The findings are shown by `pool_stale.cfg` (1: `UsedPodsStay`, `poolLag`),
`pool_release.cfg` (2: `Recorded`, `earlyRelease`), `pool_panic.cfg` (3:
`ScheduleNotBlocked`, `resize`), `pool_persist.cfg` (11: `Exclusive`,
`poolWrite`), `pool_ceiling.cfg` (12: `HardCeiling`, `podWrite`) and
`pool_overwritten.cfg` (13: `NothingOverwritten`, `poolLag`, `poolWrite`).

Fairness (`FairSpec`): weak fairness of the reconcile as one process (a queued
pool is taken by a worker, a running function goes on), of each informer's
delivery, and of the kubelet on each pod.  None on users, faults or the
choice a step makes.

Findings:

1. **A stale Pool costs a sandbox its pod** (`allocator.go:217`).  If the Pool
   read lacks the last persisted allocation while the sandbox's annotation is
   already visible, the sandbox needs nothing, so the schedule is not dirty
   and the check of `poolResExpectations`, which sits in the persist, is
   skipped; the pod counts as idle and scaling may delete it.
2. **A release frees another sandbox's pod** (`allocator.go:378`).  Release
   lists are never cleared and are applied without looking at the owner.
3. **A resize blocks the pool** (`allocator.go:319`).  Replicas below what the
   sandbox holds make a slice bound negative; every reconcile panics.

Findings 4 to 10 belong to other components.

11. **A failed persist gives a pod away twice** (`allocator.go:248`).  The
    annotation of the sandbox is written before the Pool's record.  If the write
    of the record then fails, the next reconcile reads a record in which the pod
    is idle, and while the annotation is not in its cache, or belongs to a
    sandbox that needs no more, it may grant the pod to another sandbox.  A
    restart between the two writes does the same.
12. **`poolMax` is no hard ceiling** (`pool_controller.go:482`, against
    `README.md:112`).  A pod that is created though its creation was answered
    with an error is not expected in the list; a reconcile that lists before the
    informer has seen it creates another.
13. **A newer record is overwritten** (`allocator.go:98`).  The same for the
    Pool's record: a patch that is carried out but not answered leaves no
    expectation, and the patch of the next, older plan has no resource version
    that would let the API server refuse it.

### Proofs

`PoolController_proofs` proves, for every number of pods and sandboxes and any
capacity, with no assumption but those the constants are declared with:

* `TypeCorrect`: `Spec => []TypeOK`, for every `Faults`.
* `AllocationNotLost`: `Spec => NoLostAllocation`, for every `Faults`.  The
  invariant behind it (`RecordKnown`): a plan that is ready to persist was made
  from the record now in the API server, because whoever changed that record
  set `unseenPatch`, or restarted with fresh caches, or was not answered
  (`strayRecord`, until the Pool's cache has caught up).
* `PoolStaysBounded`: `Spec => []PoolBounded`, for every `Faults`.  The
  invariant (`Counted`): every pod that is up is in the cache as such, or not
  seen yet and expected (`scaleExp`), or a stray, and `PoolBounded` does not
  count strays; while a reconcile runs, every pod that is
  up is in its view or expected; and `PoolBounded` itself.  `PoolBounded` alone
  is not inductive: a reconcile with an incomplete view would overshoot.
* `ExclusiveUse`, `UseRecorded`: under `Orderly` (no stale Pool, no failing or
  unanswered write of the Pool, no restart, no release; that is, none of the
  causes of findings 1, 2 and 11).  The
  invariant (`Consistent`) says that in the persist window the plan, and
  outside it the record, covers each cached, listed and real annotation.
* `UsedPodsKept`, `LedgerImplemented`: under `Orderly` and without evictions.
  The refinement needs one invariant more (`Growing`): an annotation only grows
  while its sandbox lives, so a step of the controller is a `Lend`, a deletion
  a `Return`, a `ScaleIn` a `Retire`, or a stutter.

Only model-checked: the liveness properties, `SettledServed`,
`SettledAgreement` (the prover has neither ENABLED nor fairness, and the two
are consequences of a run that has come to rest).  Patches of sandboxes and
writes of pods that fail or are not answered, and resizes, are allowed for in
every one of these theorems.

## 4. The task executor

### Correspondence

| Variables of `TaskExecutor` | In the code |
|---|---|
| `task`, `stopping` | `m.tasks`, `m.stopping` |
| `call` | the thread that holds `m.mu`: a request, the reconcile loop or the recovery at the start, with what it has left to do and what it read last |
| `stops` | the goroutines started by `reconcileTasks`, which run `Stop` without the lock |
| `disk` | of each task's directory: does it exist, `task.json` with or without a deletion timestamp, `pid`, `exit` (missing, empty, a code) |
| `proc` | each process started: its shell (`buildShimScript`) and the user's command |

A thread is cut at each access to the disk or to a process that another actor
can come between.  A creation is `MakeDir`, `SaveTask`, `StartProcess`,
`WritePid`, `ReadExit`, `FinishCreate`, with a failure after each; `Sync` first
marks (`SoftDelete`) and then creates; `Reconcile` looks at each task in any
order (`ReadExit`, `Examine`) and then removes (`Finalize`); a goroutine is
`StopSignals`, `StopEscalates`, `StopEnds`; a shell is `ChildEnds`, `OpenExit`,
`WriteExit`.  `task.json` is replaced by a rename and so written in one step;
the exit file is not.  `Crash` may fall between any two steps, and in the middle
of a removal (`Torn`).  What may go wrong in a run is in `Faults`.

Abstracted: the status on disk (a recovery replaces it with what `Inspect` says),
codes other than success and failure, times (a timeout passes when it passes). A
SIGTERM that reaches a shell before its trap or `CHILD_PID` is set
(`process.go:196-205`) is lost, as it is on a deaf command, or kills the shell,
which then leaves no exit file, as in a crash of its processes; these instants of
the shell are left out, and no property depends on them. Not modelled: process
numbers used again by the kernel; sidecar mode, where another process of the same
group is signalled; a removal that fails half way while the executor stays up.

### Runs

| Run | Asks | Bounds | Shows |
|---|---|---|---|
| `exec_crash` | `OneActive`, `ImplementsSlot`, `OnlyDoomedStopped`, `TypeOK` | 2 names, 2 processes, crashes | what a restart finds is what there was: the limit of one active task, which `recoverTasks` does not test, still holds, no deletion is forgotten and no task comes back to life |
| `exec_live` | `Tracked`, `DeletionCompletes`, `TimeoutEnforced` | 1 name, 2 processes, failing writes, deaf commands, late stops | the loop and its goroutines get there, also when a name is used again while a stop of its predecessor is on its way |

`exec_final.cfg` (`FinalStays`, 2 names, 1 process) shows finding 4,
`exec_shim.cfg` (`ExitAfterChild`, with deaf commands) finding 5.

Two processes are one that ends and one that replaces it, under the same name or
another; two names are a task and the one that wants its slot.  `exec_crash` has
neither late stops nor failing writes: with the first `OnlyDoomedStopped` does not
hold, and a failing write together with a crash, which no run has, breaks
`OneActive` (both at the end of this section).  `exec_live` has
one name because the two liveness properties speak of one task at a time, and
names meet only in the count of active tasks, which blocks creations.  Codes
differ (`Codes`) where a property tells them apart.  Deadlock is not
checked: the process numbers run out and users may stop asking.

Fairness (`FairSpec`): weak, of the thread that holds the lock, of a restart and
of a shell that has something to do; strong, of those who wait for the lock (the
loop and the end of a goroutine), since the writers of a `sync.RWMutex` queue on a
`sync.Mutex`, which is handed to whoever waits too long; strong for `Finalize`, so
that a removal that is tried again and again succeeds once. None on users, on
commands (nothing says a command ends unless it is stopped) or on crashes. With a
command that ignores SIGTERM a task still ends, because its shell does: that is
finding 5.

### Proofs

`TaskExecutor_proofs` proves, for any number of names and processes:

* `TypeCorrect`: `Spec => []TypeOK`, for every `Faults`.
* `OneTaskActive`, `DeletionsOnDisk`, `MemoryOnDisk`: `Spec => []OneActive`,
  `[]DeletionDurable`, `[]StoreMirrored`, for every `Faults` without
  `"storeWrite"` (with it, see the end of this section).
* `SlotImplemented`: `Spec => ImplementsSlot`, under the same assumption.
* `ProcessesTracked`: `Spec => []Tracked`, for every `Faults` without `"crash"`.
* `StopsOnlyDoomed`: `Spec => OnlyDoomedStopped`, for every `Faults` without
  `"lateStop"`.

`OneActive` is not inductive, because a restart takes into memory whatever the
disk holds.  The invariant (`Inv`) speaks of *candidates*: tasks that a look at
the disk, also one that has read half of it, may find active (`task.json` without
a deletion, no exit file, and either no pid file or a process that lives and is
in time).  There is at most one (`AtMostOne`), it is the active task or the one
being created or not yet recovered (`Accounted`), and nothing becomes a candidate
but the task a creation saves, at a moment when nothing is active
(`CreationAlone`).  What is in memory and what is on disk are tied by `Mirrored`
and `Durable`, what a look has read by `LooksInTurn` and `ExitStays`, and pid
files name processes that were started (`PidsStarted`).  Steps of processes and
goroutines are all instances of one, `WorldStep`: tasks stay, processes only end.

`TaskSlot` is what the executor promises whoever creates and deletes its tasks.
The refinement maps memory, disk and thread to one status per task (`Status`: what
the memory says or, failing that, what a recovery would find; a task under
creation has not been promised) and to the tasks that have the slot, the active
ones and the candidates.  Each action is then one of the slot's, mostly `Leave`.
Two are not obvious.  `Crash` accepts the creation under way if its task is on
disk, and completes the removal it cuts short.  `FinishCreate`, `Examine` and
`RecoverTask` record what a look found, and `LookFinds` says that a look which
finds a task active read nothing that is not still so, for else a task that has
ended could become active again.  The proof needs `Inv` and two facts more
(`InTurn`): only a reconcile has tasks to remove, and a directory has no pid
before its process is started.

`Tracked` needs `NoneLost`: a shell that waits belongs to a task whose exit file
holds no code and which is not about to be removed, and it is named by the pid
file, or by the thread that starts it (`AllAwaited`), since a task is removed only
when a look has found its process ended (`Ended`); a directory that a creation
makes or gives up has no process but the one it starts (`Fresh`), and pid files
stay inside their directories (`PidsInside`).  Failing writes are allowed, for
`WritePidFails` ends the shell that no file names.

`OnlyDoomedStopped` needs `StopsDue`: a stop is launched for a task that is marked
or overdue and stays so while the stop has not read the pid file (`Warranted`), a
pid file names a process of its own task (`Owned`), and what is about to be
created is not in memory, where the task of a launched stop is (`CreationApart`):
so no creation takes a name while a late stop for it is under way. Crashes and
failing writes are allowed.

TLC checked the three inductive invariants on instances of `exec_crash` and
`exec_live` before they were proved.

Only model-checked: the liveness properties.  Only proved: `StoreMirrored` and
`DeletionDurable`; the run asks for the slot instead, which a forgotten deletion
would break at the next restart.

Findings:

4. **A final state changes** (`process.go:228`).  `Inspect` reads the exit file,
   then asks whether the process lives; a task that ends in between is reported
   as crashed and later as succeeded.
5. **The shell does not wait** (`process.go:205`).  After a trapped SIGTERM it
   writes the code while the command still runs, `Stop` sees no shell and never
   kills the group, and the task is removed with its command running.

The model also shows, in states the runs' `Faults` leave out: with failing writes
and crashes together a deletion can be forgotten by a restart and two tasks be
active (`softDeleteLocked` marks memory first); a stop that has not read the pid
file when its task is removed signals the task created next under the name.
After a crash between the start and the pid file the process cannot be found
again, which is why `Tracked` and the liveness are asked without crashes.

## 5. The Docker runtime and its mounts

### Correspondence

| Variables of `DockerRuntime` | In the code |
|---|---|
| `box` | the daemon's containers by the id in their label: state and `expires-at` label |
| `sidecar` | the egress sidecars the daemon has |
| `mounted` | the OSSFS paths that are mounted on the host |
| `deadline`, `timer` | `_sandbox_expirations`, `_expiration_timers` |
| `refs` | `_ossfs_mount_ref_counts` |
| `proc` | the event loop and the timers' threads: the operation, its next step, what it has read |
| `spec`, `used`, `created`, `promised`, `deleted` | what clients know: what they asked for, the ids, the acknowledged creations, the expiration last acknowledged, the acknowledged deletions |
| `faults`, `failed` | how many calls failed, and of which kinds |
| `astray` | history, not in the code: the sandboxes of findings 14 and 16 |

Every handler of `S/api/lifecycle.py` is a coroutine that calls the service
without awaiting, so the event loop serves one request at a time (`Serving`);
what runs next to it are the threads of `threading.Timer`, which call
`_expire_sandbox`.  A thread is cut at each call of the daemon or the kernel and
at each section under a lock.  A creation is `Create`, `PrepareMount` per mount
key, `StartEgress`, `CreateContainer`, `StartContainer`, `TrackCreated`, with
`UndoContainer`, `UndoEgress` and the release of its mounts when one of them
fails; a deletion is `DeleteKill`, `DeleteRemove` and the end it shares with an
expiration (`Untrack`, `CleanupSidecar`, `ReleaseMount`, `Unmount`); an
expiration is `Fire`, `ExpireLookup`, `RetryLook`, `Rearm`, `ReadDeadline`,
`ExpireKill`, `ExpireRemove`; a start is `Restart` (pass 1, which reads every
label), `RestoreCounts`, `RestoreNext` (pass 2 expires what is overdue) and
`RestoreOrphans`.  What may go wrong is in `Faults`.  A call may fail, a container
or sidecar may be created and the answer lost (`Loses`: the rollback has no id to
remove it by), an unmount may hang until its command times out, the list of a
start may fail (`"relist"`), a connection may break with an error that is no
`DockerException` (`ConnectionBreaks`; the call may have been carried out), which
passes the handlers of an expiration, of a renewal and of a sidecar's removal, and
the server may die anywhere (`Crash`).  An error nothing catches ends
a thread (`Dies`) or the request (`Abandons`) where it stands.

Abstracted: image pulls and validation precede every effect; execd and its
script are part of the start; the mount tools' command lines; mount keys are
given, their computation is `OssfsPath` of `CreateSandbox`.  The pending
sandboxes of `_async_provision_worker` are left out: nothing calls it.

`SandboxLife` is what either runtime promises, with neither threads nor calls: a
sandbox is made once, for manual cleanup or with an expiration, keeps to that
kind, ends by its expiration, a deletion under way or a creation that fails, and
never comes back; success is told only of what was made, and a deletion only of
what is no more.  When an expiration is due is not part of it: that is
`ExpiryCovered`, and finding 7.  The refinement maps a container to the kind its
label says (`Living`); an id without one is "none" until the loop is past
`CreateContainer` for it, and over from then on.  A creation is under way until
its container is tracked or undone; one that fails or dies is `unsure` (`Told`).

### Runs

| Run | Asks | Bounds | Shows |
|---|---|---|---|
| `docker` | `ExpiryCovered`, `InUseMounted`, `CountsSettle`, `SidecarFollows`, `DeletedIsGone`, `ImplementsLife`, `TypeOK` | 2 ids, 1 mount, 1 timer thread, 2 ticks, any one fault | a renewal, a firing timer, the retry of a failed lookup, a deletion and a restart between them never lose the timer of a sandbox that exists; creations that are told to have failed give back what they took; no sidecar outlives its sandbox; none of it breaks the promise of `SandboxLife`; each under the conditions below |
| `docker_live` | `Expires` | 1 id, 2 timer threads, any one fault | a sandbox with an expiration is removed in the end, also when its lookup failed and was tried again |
| `docker_mounts` | `InUseMounted`, refuted | sandboxes that have a mount and an expiration, no faults | finding 6 |

Two ids are one that goes and one that comes; one mount is what they share; in
`docker` the sandbox with the expiration and the one with the mount differ
(`Apart`), since together they are finding 6.  One fault is enough for every
error path, as the code keeps no count of failures.

`ImplementsLife` and the container half of `DeletedIsGone` hold whatever fails.  The
others have conditions, since a removal that fails is only logged, its tracking is
dropped, and the sandbox stays until the next restart:

* `ExpiryCovered` and `Expires` need that kills, removals, the list of a start and
  connections have not failed (`ExpiryAnswered`), and leave out what is `astray`.
  A failed lookup is no exception: its retry is part of what they say.
* `SidecarFollows` needs the lookups too (`DaemonAnswers`), and leaves out what is
  `astray`; so does the other half of `DeletedIsGone`, for every sandbox.
* `InUseMounted` and `CountsSettle` need in addition that no answer to a creation
  was lost (`DaemonSound`).

An unmount command that times out raises past the loop over the keys
and leaves the other references behind (`CountsSettle` excludes `"hang"`), and
during a restart it ends the server's start.  `docker_lost`, `docker_connection`
and `docker_list` ask, with one of these faults each, that no sandbox with an
expiration is forgotten (`NoneForgotten`), which TLC refutes.  Deadlock is not
checked: clients may stop asking and ids run out.

Fairness (`FairSpec`): weak, of each thread, of a due timer, of the clock, and
of a supervisor that starts a dead server again (the image's restart policy).
None on clients.

Findings:

6. **The unmount comes too late** (`ossfs_mixin.py:438`).  The last reference is
   counted down under the lock, the unmount runs after it; a creation in between
   adopts the mount, and loses it.
7. **A renewal may be acknowledged and ignored** (`docker.py:358`,
   `docker_renew.cfg`, `RenewalHonoured`).  An expiration compares the deadline
   once; a renewal between that and the kill returns the new expiration for a
   sandbox that is then removed.  `docker.py:295` says that renewals "take effect
   immediately".
8. **A renewal may shorten** (`docker_extend.cfg`, `RenewalExtends`).
   `lifecycle.py:728` documents a time "after the current expiresAt time"; only
   the future is checked.

14. **A lost answer leaves a sandbox nobody knows** (`docker.py:2035`,
    `docker_lost.cfg`).  `create_container` may be carried out and its answer
    lost; `container` and `container_id` are both `None`, so nothing is removed.
    The container is labelled with an expiration but has no timer until a
    restart; its mounts are released at line 1027 while it binds them, and its
    sidecar is removed.  For a sidecar (line 1950) the same leaves a sidecar
    without a sandbox.
15. **A broken connection ends an expiration** (`docker.py:241`,
    `docker_connection.cfg`).  The lookup and the removal of an expiration catch
    `DockerException` only; a read timeout or a refused connection raises through
    `_expire_sandbox`, and the thread dies without the retry of line 347.
16. **A retry replaces a renewed timer** (`docker.py:351`, `docker_list.cfg`).
    The retry of a failed lookup reads the deadline, finds it passed, and then
    arms its timer in another section under the lock.  A renewal between the two
    arms the new deadline's timer, which the retry cancels; the retry's timer
    fires, finds the sandbox renewed, and arms nothing.  A list that fails at a
    start (line 395) arms no timer at all until the next start.

### Proofs

For any sandboxes, keys, timers, requests, bounds and faults.  The invariant is
built up in four layers, of which each rests on those before:

* `DockerRuntime_proofs`: `TypeCorrect` (`Spec => []TypeOK`).  `Typed` adds which
  operation is at which step in which thread (`Turn`): only the loop creates,
  deletes, renews and restores, a timer's thread only expires, and a dead server
  has no thread.  `Identified` says what is known of a sandbox from the moment its
  id is given out (`Known`) and of the sandbox a thread works for (`Named`): a
  label agrees with the request, only what has an expiration is tracked, and a
  sandbox that is being created is nobody else's (`Begun`).
* There, too, `LifeImplemented` (`Spec => ImplementsLife`), unconditionally: the
  promise does not need a daemon that answers.  The steps that remove a container
  are what matters.  An expiration is a step of the promise because whatever is
  tracked, armed or on the restore's list was made with an expiration (`Named`,
  `Known`); a rollback because until then nobody else works for the sandbox; a
  deletion is answered on a flag that is up only if the container is gone, and an
  id is not given out again.  One fact more is needed, that a creation under way
  was not yet acknowledged (`Acknowledged`).
* `DockerSound_proofs`: `ExpirationsCovered` (while `ExpiryAnswered`),
  `SidecarsFollow`, `DeletionsGone` (while `DaemonAnswers`). None is inductive,
  since each speaks of sandboxes nobody works for. `Sound` says who has still to
  act for the others: a container with an expiration has a timer, is on the
  restore's list, or a thread is at one of the steps that end in a timer, in a
  retry or in its removal (`Covered`), or it is astray; a sidecar without a
  container has a thread that will remove it (`Swept`); and a thread comes to its
  last steps only when what precedes them worked (`SoundAt`). That the armed timer
  is the one of the tracked deadline has two halves, because a timer that fires
  leaves a deadline that has passed.
* `DockerMounts_proofs`: `MountsInUse`, `CountsSettled`, while `DaemonSound`, if
  no request has both an expiration and mounts (`KeysApart`). `docker_mounts`
  refutes `InUseMounted` without it, and the requests of `docker` satisfy it.
  `Apart` follows what each thread has in hand, so that only the loop touches a
  mount; `CountsFollow` says that a key is counted once for each container that
  binds it and once for what the loop owes (`Owed`: the keys a creation has
  prepared, those a deletion or a rollback has still to release), that what is
  counted is mounted, and that the key about to be unmounted is counted by nobody.
  A hanging unmount loses what the loop owed, after which the counts are only
  bounds from above: enough for the mounts to stay, not for `CountsSettle`.

These conditions are part of each property.  The conjunction of
`Typed`, `Identified`, `Sound`, `Apart` and `CountsFollow` was first checked by
TLC as an invariant, with the constants of `docker`.

Only model-checked: `Expires` (liveness).

## 6. The Kubernetes runtime

### Correspondence

| Variables of `KubernetesRuntime` | In the code |
|---|---|
| `objects`, `history`, `secrets` | the cluster: BatchSandboxes, every revision so far, the pull secrets |
| `cache`, `cursor`, `synced` | `WorkloadInformer._cache`, `_resource_version`, `_has_synced` |
| `informer`, `listed`, `stream` | the informer's thread: what it does, the list it holds, how far its watch got |
| `at` | the event loop (`Server`) and the executor thread of a scan job (`Executor`): operation, step, what a get read |
| `outcome`, `gone`, `direct` | how each creation ended, the deletions answered 204 or 404, whether a get wrote to the cache since the last list |

A step is a call of the cluster's API or a section under the informer's lock.
A deletion takes an object away at once, unless a finalizer is on it (`Remove`): a
sandbox of a pool has a task (`batchsandbox_provider.py:329`), the controller puts
`FinalizerTaskCleanup` on it (`Hold`; `batchsandbox_controller.go:125`), and then
the object is dying until its tasks are cleaned up (`Finalize`; 221-243).  So a
204 says that the deletion was taken: the sandbox is gone, or dying.
A creation is `Create`, `CreateWorkload`, `CreateSecret` or its `Rollback`, and
a lookup; every lookup is `Look` (the cache, when it has synced and knows the
object), `Fetch` and `Store` (`update_cache`); a renewal looks twice, the second
time for the name to patch, as `update_expiration` does.  Each call may be
refused, or carried out with its answer lost.  The informer is `InformerList`,
`InformerSwap`, `InformerWatch` (which may answer 410), `InformerEvent` and
`InformerEnd`.  The workload controller reports progress and deletes what has
expired.

Abstracted: versions are revisions, which the informer compares as numbers;
pod templates; the legacy name a lookup asks for second; the phases of a sandbox
but for Pending and Running.  An error is a 404 if its text has "not found" in it
(`kubernetes_service.py:507`); the model takes the API server to say so exactly
when there is no object.

The runtime refines `SandboxLife` (section 5) too, so a client need not know which
of the two serves it. An object is mapped to its kind (`Living`); an id without
one is "none" while it was never written and its creation is ahead or under way,
and over otherwise, also while a finalizer keeps it. The ways a creation ends in
an error without a roll-back are one, `unsure`, for whoever asked cannot tell them
apart. Most steps leave all of this alone: what the informer and the lookups do is
invisible to the promise, which is the point of it.

### Runs

| Run | Asks | Bounds | Shows |
|---|---|---|---|
| `k8s` | `CacheIsSnapshot`, `CreateSettled`, `ImplementsLife`, `Converges`, `TypeOK` | 1 id, 4 revisions, 1 fault, three kinds of request | lists, broken streams, 410s and a cursor that only moves forward fit together; no stale read, no lost answer and no finalizer breaks the promise of `SandboxLife` |
| `k8s_cache` | `CacheFresh`, refuted | 1 id, no faults | finding 9 |

One id is enough because nothing in the code relates two objects but the list,
which is taken at one revision.  Four revisions are a creation, a finalizer or
another change, a deletion mark or a second change, and the removal, for which the
last one is kept (`Put`): the shortest history in which a finalizer keeps a dying
object, and long enough for a cached object to be older than another that was
seen.  The proofs are for any number of both.

Fairness (`FairSpec`): weak, of requests in progress and of the informer's
thread, which `_run` keeps looping; strong for its events, since a watch that
keeps ending at its timeout still delivers what has happened before one of those
ends.  `Converges` excludes what finding 9 spoils (`direct`).

Finding:

9. **A get may undo what the watch delivered** (`informer.py:100`).  The answer
   of a get is stored whatever the cache holds by then, and the cursor never goes
   back: a deleted sandbox can stay in the cache until the next list.  No answer
   of the service becomes untrue by it for a deletion (`DeleteAnswerSound`).

### Proofs

`KubernetesRuntime_proofs` proves, for any ids, requests, bounds and faults:

* `TypeCorrect`: `Spec => []TypeOK`.  Its invariant `Typed` adds that nothing a
  request, the list or the stream holds is newer than the cluster, without which
  a cached revision could not be shown to be one of the log (`Ordered`).
* `DeletionsTrue`: `Spec => []DeleteAnswerSound`, that a sandbox whose deletion
  was answered is gone or dying and stays so, which no run asks for since
  `ImplementsLife` contains it.  By itself it is not preserved:
  one needs that a sandbox answered as deleted is not being created by anyone
  (`Deleted`, and `InTurns`: which request is at which step, and what the
  sandbox's outcome is then).
* `CreationsSettled`: `Spec => []CreateSettled`.  `Owned` follows the sandbox
  through its creation: a secret always has an object, since the cluster collects
  it with its owner, and from the step after the secret on the object has it.
* `ManualKept`: `Spec => ManualStays`.  A renewal decides on an object it was
  given by the cache or by a get and patches whatever is there later.  `Lasting`
  is why that is harmless: everything anybody holds was written once (`Recalled`),
  nothing was written for an id before its creation (`Unmade`), so every version
  of a sandbox has an expiration or none has (`OneKind`), and a renewal that has
  passed its check has seen one that has (`CheckedOnce`).
* `CacheSnapshots`: `Spec => []CacheIsSnapshot`.  `Snapshots` adds that the objects
  are the last version, that a list is the versions at its revision, not older
  than the cursor, and that the stream stands at the cursor while watching.  The
  step of the watch rests on two facts about the log: a new entry changes no
  version of an older revision (`VersionKept`), and a version changes from one
  revision to the next for the one sandbox of the entry (`VersionNext`).

* `LifeImplemented`: `Spec => ImplementsLife`, from `Typed`, `InTurns` and
  `Lasting`.  An object changes where the history grows, so each change is one of
  a single life (`LifeChanges`), and it is one the promise knows: a creation
  writes an id that was never written (`Unmade`), a patch keeps the kind
  (`OneKind`: the same facts as for `ManualKept`, which the promise contains as
  well), a deletion by request is the one of the event
  loop, one by the controller met an expiration.  A deletion that meets a finalizer
  ends the life by marking the object, and the removal that follows is a stutter,
  since a dying object is never alive again.  A restart settles every creation
  under way: what was not written by then never will be.

Only model-checked: `Converges`.

## 7. Scan jobs

### Correspondence

`ScannerOrchestrator` holds what the orchestrator computes: how a file of the
request is named (`DetectExtension`, `Saved`) and which of the files that end up
under one name is kept (`SameName`, `Kept`), how it is classified (a manifest is a
text with `apiVersion` and `kind` or `metadata` in its first 8 KB), which tools
that enables (`Classified`, `Enabled`), and, for each tool, what its thread
leaves for every way its program may end, from not installed to output of a form
the parser does not expect (`ScanBandit` and the other thirteen).  A text is the
set of the markers that the regular expressions look for.

`ScanJobs` is the handler of `create_scan_job` and the sandbox it waits for.
The handler is cut at its awaits: `Submit`, `Created`, `Poll`, `Wake`, `Ask` (a
thread of the executor calls `get_sandbox`), `Resume`.  The sandbox runs
`StartScan`, a `RunScanner` per enabled tool in any order, `OpenReport`, which
empties the file, `WriteReport`, `Exit`; it may `Die` at any time and is removed
when it expires.  On Kubernetes a sandbox that ended scans once more (`Rerun`), on
the same volume: a container that exits is restarted, for `restartPolicy` is
`Always` unless the server's template says otherwise
(`batchsandbox_provider.py:196-205`), and `scaleBatchSandbox` makes a lost pod
anew.  `scanned`, `scans`, `found` and `summary` are the `results` of the
orchestrator, `content` those of the report on the volume, `response` those in the
answer.  `runtime` also says whether an ended sandbox is reported as such:
Docker does, a BatchSandbox is `Running` for ever, so there a dead scan is
answered at the deadline only.

### Runs

| Run | Asks | Bounds | Shows |
|---|---|---|---|
| `scan` | `AnswerSound`, `FilesReachScanners`, `JobAnswered`, `TypeOK`; `AdmittedMounts`, `EndpointsPublished`, `ListingComplete` of section 8 | four requests (`OneOfEach`): a source with a generic name, a script, a manifest called `.txt`, two files with one name; both runtimes; a timeout of 2; one unusual event | COMPLETED and FAILED are true answers, also while Kubernetes scans again, and a job is answered |

`scan_deadline.cfg` (`TimeoutWithoutReport`) shows finding 10, `scan_rerun.cfg`
(`CompletedStays`) 17, `scan_overwritten.cfg` (`EveryFileSaved`) 18, and
`scan_paths.cfg` (`PathsApart`) 19, in section 8; none of them needs a fault.
`AnswerSound` says of COMPLETED that the answer holds a whole report: of all files,
with an entry of every tool that they enable but the two whose thread may die, a
finding for each entry that failed or found something, and a summary to match.
`FilesReachScanners` is about a file whose name no other file takes.  It is
evaluated for every name, extension and set of markers, so also for Go, whose tools
no behaviour of the run starts.  Of the universal tools semgrep passes over a
manifest called `*.sh` or `*.txt` (`scanner_orchestrator.py:194`).  One
unusual event is a scanner that does not end clean, a call that fails or a
sandbox that dies; the answer depends on each alone.  A timeout of 2 allows one
sleep between two looks.

Fairness (`FairSpec`): the event loop runs the handler, `get_sandbox` answers,
time passes.  None on the sandbox.

Findings:

10. **A report may miss its deadline by nothing** (`lifecycle.py:365`).  A report
    written during the last sleep is not looked for again; the comment says
    "Deadline exceeded without a report".

17. **A completed report is opened again** (`scanner_orchestrator.py:843`).  On
    Kubernetes the scan of a sandbox whose job was answered COMPLETED is run
    again, and opens the report with mode `w`: whoever asks for it then
    (`get_scan_report`) finds an unfinished file, and finds it for good if the
    sandbox expires at that moment.
18. **One file of a request replaces another** (`lifecycle.py:250-271`).  Files
    are saved by the last part of their name, and a generic name gets the
    extension of its text: of `a/x.py` and `b/x.py`, or of `main` and `main.txt`
    with the same language, only the later one is scanned.

The orchestrator has ways to lose a result that no text of the repository denies,
and which the model keeps: a thread that dies (`Died`: `scan_go_build` without
the Go tools) leaves no entry, so the summary can be CLEAN; kube-score that could
not run counts as completed; findings of golangci-lint are reported under another
name than its scan; `_latest_job_id` is one variable for all callers; a job id
given by the caller is used again with the report that is already there, and then
answers that one.

### Proofs

`ScanJobs_proofs` proves, for any files, timeouts, runtimes and bounds:

* `TypesHold`: `Spec => []TypeOK`, from lemmas on what each scanner leaves
  (`ResultsOk`) and on the names files get (`SavedTyped`).
* `AnswersHold`: `Spec => []AnswerSound`.  It is not inductive: the invariant
  (`IInv`) says how far results and report are at each step of the sandbox: results
  are whole when the report is opened, a whole report holds such results, also while
  a second scan is at work before it opens the report (`ReportInOrder`); what was
  answered as COMPLETED was whole; and a state which was read as ended belongs to a
  sandbox on Docker, which will not write again (`AnswerInOrder`).
* `ReportsStay`: a whole report changes only when a scan that Kubernetes runs again
  is done and opens it; on Docker, never.  An answer is true when it is given, and
  of the report as it then was.
* `ScannersFound`: `Spec => []FilesReachScanners`, by cases on the text: a
  manifest that shows its keys is classified as one whatever its name; a text of
  one language either keeps a fitting extension or is given one by
  `DetectExtension` that `Classified` reads back as the same language
  (`LanguageDetected`, `LanguageClassified`).

Only model-checked: `JobAnswered`, which is liveness.

## 8. What becomes of a request

`CreateSandbox` has no state: its operators are the validation of a request
(`services/validators.py`, `_validate_volumes`), what an admitted request
becomes (binds, pod volumes, labels, published ports, the secure runtime), and
how a sandbox is then listed, filtered, paged and addressed.  A path is its
segments; `Segments` has the ones that matter: empty, `.`, `..`, a name that
begins with dots, and a name that another begins with.  The three properties are
checked in the initial states of `scan`, over every path of up to two segments,
every kind of volume and pairs of them, every list of up to three sandboxes:

* `AdmittedMounts`: a bind that is built lies below an allowed prefix and below
  the volume's own path; in a pod spec that is built each mount names one of the
  pod's volumes, no two volumes have one name, and no claim of the request has two
  volumes.
* `EndpointsPublished`: the endpoint told for a port of an admitted sandbox leads
  there; a sandbox with an address has an endpoint; a configured secure runtime
  is never dropped.
* `ListingComplete`: paging returns every match once, newest first, and a sandbox
  is found by the metadata it was created with, although the two runtimes merge
  user and system labels in opposite orders.

A pod spec that is right in this sense may still be refused.  Mount paths are
compared by nobody, and the claims of the template's volumes not with the
request's; a mount that the template adds is taken to come with its volume.

Finding:

19. **Equal mount paths are admitted** (`validators.py:575-600`, `scan_paths.cfg`,
    `PathsApart`).  `ensure_volumes_valid` compares names only, and
    `_merge_pod_spec_extras` (`batchsandbox_provider.py:410-440`) names only:
    two volumes of a request with one `mountPath`, or one at `/opt/opensandbox/bin`,
    pass, and the API server then refuses the pod.  The template may also add a
    second volume of a claim that the request has.

Two segments and three sandboxes are the smallest inputs with a separator in the
middle and with a page that is neither first nor last.

### Proofs

Also in `ScanJobs_proofs`.  Each of the three properties is a theorem of `Spec`
(`MountsHold`, `EndpointsHold`, `ListingsHold`), and each rests on theorems that
are not about the requests of the run but about any:

* `BindsAdmitted`, `HostPathsAdmitted`: for volumes with paths of any segments and
  any allowed prefixes, what is bound is below a prefix and the volume's own path.
  The argument: a normalised path has nothing left to leave out (`NormPlain`,
  `PlainNorm`), entering a segment of a sub path that holds no `..` takes nothing
  away (`NormGrows`), and normalising again changes nothing (`NormTwice`), so the
  prefix that the validation compared is still one when the bind is built.
* `PodsTaken`: for any number of valid volumes and any extras of the template, the
  creation fails or the pod is right in the sense of `AdmittedMounts`.
  `PodStaysRight` is its step: each volume and each extra leaves a right pod, or a
  failure.
* `PagesFind`: for any number of sandboxes and any page size, the pages together
  are everything that matches, once, newest first.  `Before` is a strict total
  order (`BeforeOrders`), so places are a bijection (`PlaceOrders`, `ListedOnce`),
  and the walk holds the first `n` pages after `n` calls (`WalksAll`).
* `MetadataFound`: the labels that either runtime makes of accepted metadata name
  the sandbox and show the metadata, so no order of merging matters.
* `EndpointLeads`: whatever Docker admits, a port is its own endpoint on the
  host's network, and elsewhere the endpoint is the published port of the service
  or of execd.

Four of these take an induction over data: over the segments of a path, the
volumes of a request, the extras of a template, the pages of a listing.  No
installed prover can instantiate an induction theorem whose parameter is an
operator, so the induction is stated about a *set* of numbers (`Climbs`: a set
that has 0, and each number with its predecessor, has all of them), which follows
from the library's `WFMin` on the natural numbers: a least counterexample would
have a predecessor that is none.  `RecursionExists` and `RecursionStays` say with
it that a recursive function exists and keeps to a set that each of its steps
keeps to, `Grows` the same for sequences that are made by appending.  The model's
recursions are functions for this reason, and a listing is defined by the place of
each sandbox in it.

## 9. API keys

### Correspondence

| Variables of `KeyRegistry` | In `apiServer/fastapi/codeinspectior_api.py` |
|---|---|
| `rows`, `key` | the table `api_keys`: the ids in it, and what was written for each |
| `redis` | the set `active_api_keys` |
| `proc` | each replica: the next call of the handler, or of the cleaning task, that it runs, and what it has read |
| `issued`, `asked`, `dropped`, `rejected` | what callers know: keys they hold, deletions that reached the table, deletions answered, keys refused as deleted or expired |
| `calm` | whether something happened that `DeletionSettled` makes an exception of |

A replica is one event loop.  Its handlers and its cleaning task call the
database and Redis without awaiting, so it does one thing at a time; the replicas
interleave at every call.  A start is `Start`, `Sync`; a validation `Present` or
`Session`, which maps a browser session to the user's latest key, then `Member`,
`Row` and, as the row says, `Heal` or `Evict`; a creation `Create` (the count),
`Insert`, `Add`; a deletion `Delete`, `Remove`; the cleaning `Sweep`, `SweepOne`
per key, `Purge`.  A call may raise (`Fail`), a replica may die and be started
again (`Crash`), and Redis may come back empty, since its chart gives it no volume
(`RedisLoss`).

Abstracted: tokens are their key's id and times, so signatures and audiences are
out; names, e-mail addresses and backends of keys; `is_revoked`, which nothing
sets.  A request that was validated is a new step of the replica, as if other
requests could come in between.  A call whose answer is lost is that call followed
by a failure of the handler's next one; for the last call of a handler, after which
only the answer is missing, this is left out.

### Run

| Run | Asks | Bounds | Shows |
|---|---|---|---|
| `keys` | `RejectionTrue`, `QuotaBounded`, `DeletionSettled` | 2 replicas, 1 user, 3 keys, a quota of 1, 2 ticks, any two faults | the table behind the set makes up for whatever the set has lost; the quota is passed by no more than the replicas that race; a deletion takes the key out of both stores for good, with the exceptions below |

Two replicas are enough to put one between two calls of the other; with a quota
of one they can make two keys, and the third is the one too many.  Keys are
named in the order in which they are drawn, which loses nothing as nothing
depends on a name.  One user is enough, because the only question that relates
two keys is the quota of their user.  Two ticks take a key past its time and the
cleaning past that.

`DeletionSettled` makes exceptions of what may lead a validation to the row while
its key is in use: Redis lost its set, a replica started over keys that exist, or
a key was used by a session, or deleted, before the answer to its creation.
`calm` turns false then; in every other behaviour the set has each key that
somebody holds, so that `Heal` has nothing to do.  So the property does not say
that a validation which is already on its way to `Heal` cannot add a deleted key
again: it can, and the exceptions leave out just the behaviours in which one gets
that far.  What it says is that a deletion takes both entries, whatever else the
replicas do, and that nothing but those exceptions brings a validation to `Heal`.

`keys_live.cfg` (two keys, one fault) asks `ExpiredPurged` and `TypeOK`: an
expired key leaves the table. Fairness (`FairSpec`): weak, of a handler that has
begun and of the start of a dead replica, which its Deployment restarts; strong,
of the cleaning task, which the event loop queues when its sleep is over, whatever
requests there are.

### Proofs

`KeyRegistry_proofs` proves, for any replicas, users, quota and faults, with Redis
or without:

* `TypeCorrect`: `Spec => []TypeOK`; `Typed` adds that what a replica works on
  was drawn, and read no later than now.
* `RejectionsTrue`: `Spec => []RejectionTrue`.  The invariant (`Kept`): a key that
  was inserted once is `Accounted` for, being in the table, deleted by its owner
  or expired, and that holds of the keys replicas are working on too.  `Purge` keeps
  it because it deletes as of a time that has passed.
* `QuotaHolds`: `Spec => []QuotaBounded`.  What is inductive counts the replicas
  that have counted and not inserted yet as well (`Pending`, `Within`).
* `DeletionsSettled`: `Spec => []DeletionSettled`.  Nobody else knows a key
  that is about to be inserted (`Fresh`), so a deleted row does not come back
  (`Ended`); while it is calm, the set mirrors the table for keys that were issued
  (`Mirrored`), and no replica is on its way to add one.

Only model-checked: `ExpiredPurged`.

## 10. Not modelled

The task scheduler and the normal mode of the BatchSandbox controller: they take
the scheduler, the executors of several pods and a pool that re-grants pods in one
model.  The deletion of a Pool (the reconcile only drops its expectations).
`agent_sandbox_provider.py`, which maps the same requests to another CRD.  The API
server's proxy, `latest_job_id` (one variable of a replica, set by the last caller)
and `last_used_at` (written in the background, shown in listings).  The
reverse proxy, authentication, image pulls, resource limits, TOML loading, the
command lines of tools: they convert or forward.  The rate limiter, a token bucket
that delays calls to the cluster, which the model leaves free to come at any time.
Helm charts, generated clients, the web site.
