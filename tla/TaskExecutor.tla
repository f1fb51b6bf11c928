----------------------------- MODULE TaskExecutor -----------------------------
(***************************************************************************)
(* The task executor of one pod (internal/task-executor): the manager      *)
(* (manager/task_manager.go) keeps tasks in memory under one lock, each    *)
(* with a directory on disk (storage/file_store.go) and a shell that       *)
(* starts, awaits and reports the user's command (runtime/process.go).     *)
(*                                                                         *)
(* Processes run, and the goroutines that stop them, without the lock; the *)
(* executor may die between any two of its steps and finds the directories *)
(* and perhaps the processes when it comes back.                           *)
(***************************************************************************)
EXTENDS Integers, FiniteSets

CONSTANTS
  Names,     \* the tasks' names; a name may be used again
  MaxProcs,  \* bound on the processes started
  Codes,     \* what a command may end with, of "ok" and "failed"
  NoName,    \* no task
  Faults     \* what may go wrong in a run, a subset of AllFaults

AllFaults ==
  {"crash",      \* the executor may die, alone or with all processes of its pod
   "storeWrite", \* a write to the disk may fail
   "slowChild",  \* a command may outlive a SIGTERM
   "lateStop"}   \* a stop may still be on its way when its task is finalized

ASSUME NamesAssumption == IsFiniteSet(Names) /\ NoName \notin Names
ASSUME MaxProcsAssumption == MaxProcs \in Nat
ASSUME CodesAssumption == Codes \subseteq {"ok", "failed"}
ASSUME ExecutorFaultsAssumption == Faults \subseteq AllFaults

VARIABLES
  task,      \* m.tasks
  stopping,  \* m.stopping
  call,      \* the thread that holds m.mu, and what it has left to do
  stops,     \* the goroutines that stop a task
  disk,      \* the directories of the tasks
  proc       \* the processes, in the order they were started

memory == <<task, stopping, call>>
vars   == <<memory, stops, disk, proc>>

-----------------------------------------------------------------------------
(* Values.                                                                 *)

Procs  == 1..MaxProcs
States == {"Pending", "Running", "Timeout", "Succeeded", "Failed"}
Exits  == {"none", "empty", "ok", "failed"}

Tasks == [there : BOOLEAN, deleting : BOOLEAN, state : States]
NoTask == [there |-> FALSE, deleting |-> FALSE, state |-> "Pending"]
There == {n \in Names : task[n].there}

\* What of a task is on disk: its directory, task.json with or without a
\* deletion timestamp, the pid file, the exit file.
Dirs == [made : BOOLEAN, json : {"none", "live", "deleting"},
         pid : 0..MaxProcs, exit : Exits]
NoDir == [made |-> FALSE, json |-> "none", pid |-> 0, exit |-> "none"]

\* A process is the shell ("shim") and the user's command ("child"): the code
\* the command ended with, whether the shell has had a SIGTERM, whether the
\* task's timeout has passed.  Of a shell that is gone only its command is left.
Processes == [task : Names \cup {NoName},
              shim : {"unused", "waiting", "writing", "gone"},
              child : {"none", "running", "done"},
              code : {"ok", "failed"}, termed : BOOLEAN, late : BOOLEAN]
NoProcess == [task |-> NoName, shim |-> "unused", child |-> "none",
              code |-> "failed", termed |-> FALSE, late |-> FALSE]
Alive(p)  == p.shim \in {"waiting", "writing"}
Gone(p)   == IF p.child = "running"
             THEN [NoProcess EXCEPT !.task = p.task, !.shim = "gone", !.child = "running"]
             ELSE [NoProcess EXCEPT !.shim = "gone", !.child = "done"]
Killed(p) == IF p.shim = "unused" THEN p ELSE Gone([p EXCEPT !.child = "done"])

\* The lock is free, or its holder works: "sync" on requests, "made", "saved",
\* "started", "known" on the steps of one creation, "reconcile", "recover".
Calls == [at : {"free", "sync", "made", "saved", "started", "known",
                "reconcile", "recover", "down"},
          drop : SUBSET Names, add : SUBSET Names, look : SUBSET Names,
          doomed : SUBSET Names, name : Names \cup {NoName},
          seen : Exits \cup {"unread"}, new : 0..MaxProcs]
Idle(at) == [at |-> at, drop |-> {}, add |-> {}, look |-> {}, doomed |-> {},
             name |-> NoName, seen |-> "unread", new |-> 0]

Init ==
  /\ task = [n \in Names |-> NoTask]
  /\ stopping = {}
  /\ call = Idle("free")
  /\ stops = {}
  /\ disk = [n \in Names |-> NoDir]
  /\ proc = [i \in Procs |-> NoProcess]

-----------------------------------------------------------------------------
(* Inspect reads the exit file and, if there is none, the pid file and     *)
(* whether that process lives: the process moves in between.               *)

StateOfProcess(n) ==
  LET i == disk[n].pid IN
  IF i = 0 THEN "Pending"
  ELSE IF ~Alive(proc[i]) THEN "Failed"
  ELSE IF proc[i].late THEN "Timeout" ELSE "Running"

\* An exit file without digits yet is read as 0.
Inspected(n, exit) ==
  IF exit = "none" THEN StateOfProcess(n)
  ELSE IF exit = "failed" THEN "Failed" ELSE "Succeeded"

Terminal(state) == state \in {"Succeeded", "Failed"}

InspectsNext(n) ==
  \/ call.at = "known" /\ n = call.name
  \/ call.at \in {"reconcile", "recover"} /\ n \in call.look

ReadExit(n) ==
  /\ InspectsNext(n) /\ call.seen = "unread"
  /\ call' = [call EXCEPT !.name = n, !.seen = disk[n].exit]
  /\ UNCHANGED <<task, stopping, stops, disk, proc>>

-----------------------------------------------------------------------------
(* Requests: Create, Sync and Delete.  Sync marks the tasks that are not   *)
(* desired and then creates those it lacks; the others do one half each.   *)

WriteMayFail == "storeWrite" \in Faults

\* The holder goes on with its request, or leaves.
Continue(drop, add) ==
  IF drop = {} /\ add = {} THEN Idle("free")
  ELSE [Idle("sync") EXCEPT !.drop = drop, !.add = add]

Request(drop, add) ==
  /\ call.at = "free" /\ drop \cup add # {}
  /\ call' = Continue(drop, add)
  /\ UNCHANGED <<task, stopping, stops, disk, proc>>

Sync(desired) == Request(There \ desired, desired \ There)
Create(n)     == n \notin There /\ Request({}, {n})
Delete(n)     == n \in There /\ Request({n}, {})

\* softDeleteLocked: memory first, then task.json; a failed write is an error
\* of the request and leaves the mark in memory.
\* A plausible bug: the mark is not written.
Unmarked(dir)      == dir
Marked(dir)        == [dir EXCEPT !.json = "deleting"]
SoftDeleteSaves(n) == disk' = [disk EXCEPT ![n] = Marked(@)]

SoftDelete(n) ==
  /\ call.at = "sync" /\ n \in call.drop
  /\ call' = Continue(call.drop \ {n}, call.add)
  /\ task' = [task EXCEPT ![n].deleting = TRUE]
  /\ \/ ~task[n].deleting /\ SoftDeleteSaves(n)
     \/ (task[n].deleting \/ WriteMayFail) /\ UNCHANGED disk
  /\ UNCHANGED <<stopping, stops, proc>>

ActiveTask(t) ==
  t.there /\ ~t.deleting /\ t.state \in {"Pending", "Running"}
ActiveTasks == {n \in Names : ActiveTask(task[n])}
MaxConcurrentTasks == 1

\* A plausible bug: the limit is tested with <= instead of <.
SlotFreeOff == Cardinality(ActiveTasks) <= MaxConcurrentTasks
SlotFree == Cardinality(ActiveTasks) < MaxConcurrentTasks

Creating(n, at) == call.at = at /\ call.name = n
GivesUp(n)      == call' = Continue({}, call.add \ {n})

MakeDir(n) ==
  /\ call.at = "sync" /\ call.drop = {} /\ n \in call.add
  /\ SlotFree /\ ~disk[n].made
  /\ disk' = [disk EXCEPT ![n] = [NoDir EXCEPT !.made = TRUE]]
  /\ call' = [call EXCEPT !.at = "made", !.name = n]
  /\ UNCHANGED <<task, stopping, stops, proc>>

CreateRefused(n) ==
  /\ call.at = "sync" /\ call.drop = {} /\ n \in call.add
  /\ ~SlotFree \/ disk[n].made \/ WriteMayFail
  /\ GivesUp(n)
  /\ UNCHANGED <<task, stopping, stops, disk, proc>>

SaveTask(n) ==
  /\ Creating(n, "made")
  /\ \/ /\ disk' = [disk EXCEPT ![n].json = "live"]
        /\ call' = [call EXCEPT !.at = "saved"]
     \/ /\ WriteMayFail
        /\ disk' \in {[disk EXCEPT ![n] = NoDir], disk}
        /\ GivesUp(n)
  /\ UNCHANGED <<task, stopping, stops, proc>>

\* Start: the process runs before its pid is on disk.  A failure removes the
\* directory, and kills the shell if it runs already, not the command.
Unstarted == {i \in Procs : proc[i].shim = "unused"}

StartProcess(n) ==
  /\ Creating(n, "saved")
  /\ \E i \in Unstarted :
       /\ \A j \in Unstarted : i <= j
       /\ proc' = [proc EXCEPT ![i] = [NoProcess EXCEPT !.task = n, !.shim = "waiting",
                                                       !.child = "running"]]
       /\ call' = [call EXCEPT !.at = "started", !.new = i]
  /\ UNCHANGED <<task, stopping, stops, disk>>

StartFails(n) ==
  /\ Creating(n, "saved")
  /\ \/ disk' = [disk EXCEPT ![n] = NoDir]
     \/ WriteMayFail /\ UNCHANGED disk
  /\ GivesUp(n)
  /\ UNCHANGED <<task, stopping, stops, proc>>

WritePid(n) ==
  /\ Creating(n, "started")
  /\ disk' = [disk EXCEPT ![n].pid = call.new]
  /\ call' = [call EXCEPT !.at = "known"]
  /\ UNCHANGED <<task, stopping, stops, proc>>

WritePidFails(n) ==
  /\ Creating(n, "started") /\ WriteMayFail
  /\ proc' = [proc EXCEPT ![call.new] = Gone(@)]
  /\ \/ disk' = [disk EXCEPT ![n] = NoDir]
     \/ UNCHANGED disk
  /\ GivesUp(n)
  /\ UNCHANGED <<task, stopping, stops>>

FinishCreate(n) ==
  /\ Creating(n, "known") /\ call.seen # "unread"
  /\ task' = [task EXCEPT ![n] = [there |-> TRUE, deleting |-> FALSE,
                                  state |-> Inspected(n, call.seen)]]
  /\ GivesUp(n)
  /\ UNCHANGED <<stopping, stops, disk, proc>>

-----------------------------------------------------------------------------
(* The reconcile loop: look at every task, launch a stop where one is due, *)
(* record a changed status, and at the end remove the deleted tasks that   *)
(* have ended.                                                             *)

Reconcile ==
  /\ call.at = "free" /\ There # {}
  /\ call' = [Idle("reconcile") EXCEPT !.look = There]
  /\ UNCHANGED <<task, stopping, stops, disk, proc>>

\* Plausible bugs: any task is stopped, only overdue ones, only deleted ones.
MustStopAny(n, state)     == n \notin stopping /\ ~Terminal(state)
MustStopOverdue(n, state) == n \notin stopping /\ state = "Timeout"
MustStopDeleted(n, state) == n \notin stopping /\ task[n].deleting /\ ~Terminal(state)

MustStop(n, state) ==
  /\ n \notin stopping
  /\ IF task[n].deleting THEN ~Terminal(state) ELSE state = "Timeout"

\* A plausible bug: nobody waits for the process.
EndedOrNot(state) == state \in States
Ended(state) == Terminal(state)
MustRemove(n, state) == task[n].deleting /\ Ended(state)

\* The reconcile is over when no task is left to look at or to remove.
Looked(look, doomed) ==
  IF look = {} /\ doomed = {} THEN Idle("free")
  ELSE [Idle("reconcile") EXCEPT !.look = look, !.doomed = doomed]

Examine(n) ==
  LET state == Inspected(n, call.seen) IN
  /\ call.at = "reconcile" /\ call.name = n /\ call.seen # "unread"
  /\ IF MustStop(n, state)
     THEN /\ stopping' = stopping \cup {n}
          /\ stops' = stops \cup {[name |-> n, step |-> "launched", pid |-> disk[n].pid]}
     ELSE UNCHANGED <<stopping, stops>>
  /\ IF n \in stopping' THEN UNCHANGED <<task, disk>>
     ELSE /\ task' = [task EXCEPT ![n].state = state]
          /\ \/ disk' = [disk EXCEPT ![n].json = IF task[n].deleting THEN "deleting"
                                                 ELSE "live"]
             \/ (state = task[n].state \/ WriteMayFail) /\ UNCHANGED disk
  /\ call' = Looked(call.look \ {n},
                    IF MustRemove(n, state) THEN call.doomed \cup {n} ELSE call.doomed)
  /\ UNCHANGED proc

Finalizing(n) ==
  /\ call.at = "reconcile" /\ call.look = {} /\ n \in call.doomed
  /\ \/ "lateStop" \in Faults
     \/ \A g \in stops : ~(g.name = n /\ g.step = "launched")
  /\ call' = Looked({}, call.doomed \ {n})
  /\ UNCHANGED <<stops, proc>>

Finalize(n) ==
  /\ Finalizing(n)
  /\ disk' = [disk EXCEPT ![n] = NoDir]
  /\ task' = [task EXCEPT ![n] = NoTask]
  /\ stopping' = stopping \ {n}

\* A removal that fails is taken to remove nothing.
FinalizeFails(n) ==
  /\ WriteMayFail /\ Finalizing(n)
  /\ UNCHANGED <<disk, task, stopping>>

-----------------------------------------------------------------------------
(* Stop, in a goroutine without the lock: SIGTERM to the process the pid   *)
(* file names when it is read, ten seconds later SIGKILL to its group.     *)

Interrupted(p) ==
  LET q == IF "slowChild" \in Faults THEN p ELSE [p EXCEPT !.child = "done"]
  IN IF Alive(p) THEN [q EXCEPT !.termed = TRUE] ELSE Gone(q)

StopSignals(g) ==
  LET i == disk[g.name].pid IN
  /\ g \in stops /\ g.step = "launched"
  /\ IF i = 0
     THEN stops' = (stops \ {g}) \cup {[g EXCEPT !.step = "over"]} /\ UNCHANGED proc
     ELSE /\ stops' = (stops \ {g}) \cup {[g EXCEPT !.step = "waits", !.pid = i]}
          /\ proc' = [proc EXCEPT ![i] = Interrupted(@)]
  /\ UNCHANGED <<memory, disk>>

StopEscalates(g) ==
  /\ g \in stops /\ g.step = "waits"
  /\ proc' = [proc EXCEPT ![g.pid] = Killed(@)]
  /\ stops' = (stops \ {g}) \cup {[g EXCEPT !.step = "over"]}
  /\ UNCHANGED <<memory, disk>>

StopEnds(g) ==
  /\ g \in stops
  /\ g.step # "launched"
  /\ g.step = "waits" => ~Alive(proc[g.pid])
  /\ call.at = "free"
  /\ stops' = stops \ {g}
  /\ stopping' = stopping \ {g.name}
  /\ UNCHANGED <<task, call, disk, proc>>

-----------------------------------------------------------------------------
(* The processes.  The shell waits for its command; a SIGTERM ends the     *)
(* wait with the code of a failure, whatever the command does.  Then it    *)
(* opens the exit file, writes the code and exits.                         *)

ChildEnds(i) ==
  /\ proc[i].child = "running"
  /\ \E code \in Codes :
       LET p == [proc[i] EXCEPT !.child = "done", !.code = code]
       IN proc' = [proc EXCEPT ![i] = IF Alive(p) THEN p ELSE Gone(p)]
  /\ UNCHANGED <<memory, stops, disk>>

\* The task's timeout, if it has one, passes.
Expire(i) ==
  /\ Alive(proc[i]) /\ ~proc[i].late
  /\ proc' = [proc EXCEPT ![i].late = TRUE]
  /\ UNCHANGED <<memory, stops, disk>>

\* A plausible bug: the trap itself writes the code, which is not set yet.
ExitCodesUnset(p) ==
  (IF p.child = "done" THEN {p.code} ELSE {}) \cup (IF p.termed THEN {"empty"} ELSE {})

ExitCodes(p) ==
  (IF p.child = "done" THEN {p.code} ELSE {}) \cup (IF p.termed THEN {"failed"} ELSE {})

OpenExit(i) ==
  /\ proc[i].shim = "waiting"
  /\ \E code \in ExitCodes(proc[i]) :
       proc' = [proc EXCEPT ![i] = [@ EXCEPT !.shim = "writing", !.code = code]]
  /\ disk' = [disk EXCEPT ![proc[i].task].exit =
                 IF disk[proc[i].task].made THEN "empty" ELSE @]
  /\ UNCHANGED <<memory, stops>>

WriteExit(i) ==
  /\ proc[i].shim = "writing"
  /\ proc' = [proc EXCEPT ![i] = Gone(@)]
  /\ disk' = [disk EXCEPT ![proc[i].task].exit =
                 IF @ = "empty" THEN proc[i].code ELSE @]
  /\ UNCHANGED <<memory, stops>>

-----------------------------------------------------------------------------
(* The executor dies, alone or with its pod's processes, perhaps in the    *)
(* middle of removing a directory, and recovers what task.json files name. *)

Torn(dir) == [made : {TRUE}, json : {dir.json, "none"}, pid : {dir.pid, 0},
              exit : {dir.exit, "none"}]

Crash ==
  /\ "crash" \in Faults
  /\ call.at # "down"
  /\ task' = [n \in Names |-> NoTask]
  /\ stopping' = {} /\ stops' = {}
  /\ call' = Idle("down")
  /\ \/ UNCHANGED disk
     \/ \E n \in call.doomed : call.look = {}
          /\ \E dir \in Torn(disk[n]) : disk' = [disk EXCEPT ![n] = dir]
  /\ \/ UNCHANGED proc
     \/ proc' = [i \in Procs |-> Killed(proc[i])]

Stored == {n \in Names : disk[n].json # "none"}

\* The holder recovers the listed tasks before the loop and the server start.
Recovering(look) ==
  IF look = {} THEN Idle("free") ELSE [Idle("recover") EXCEPT !.look = look]

Restart ==
  /\ call.at = "down"
  /\ call' = Recovering(Stored)
  /\ UNCHANGED <<task, stopping, stops, disk, proc>>

RecoverTask(n) ==
  /\ call.at = "recover" /\ call.name = n /\ call.seen # "unread"
  /\ task' = [task EXCEPT ![n] = [there |-> TRUE,
                                  deleting |-> disk[n].json = "deleting",
                                  state |-> Inspected(n, call.seen)]]
  /\ call' = Recovering(call.look \ {n})
  /\ UNCHANGED <<stopping, stops, disk, proc>>

-----------------------------------------------------------------------------

RequestStep ==
  \/ \E desired \in SUBSET Names : Sync(desired)
  \/ \E n \in Names : Create(n) \/ Delete(n)

\* What the holder of the lock does next.
HolderStep ==
  \E n \in Names :
    \/ SoftDelete(n)
    \/ MakeDir(n) \/ CreateRefused(n) \/ SaveTask(n)
    \/ StartProcess(n) \/ StartFails(n) \/ WritePid(n) \/ WritePidFails(n)
    \/ ReadExit(n)
    \/ FinishCreate(n) \/ RecoverTask(n)
    \/ Examine(n) \/ Finalize(n) \/ FinalizeFails(n)

StopStep == \E g \in stops : StopSignals(g) \/ StopEscalates(g) \/ StopEnds(g)

ProcessStep ==
  \E i \in Procs : ChildEnds(i) \/ Expire(i) \/ OpenExit(i) \/ WriteExit(i)

Next ==
  \/ RequestStep \/ HolderStep \/ Reconcile \/ StopStep \/ ProcessStep
  \/ Crash \/ Restart

Spec == Init /\ [][Next]_vars

\* The holder of the lock goes on; the loop and the goroutines that want it get
\* it in the end (sync.Mutex hands it over to whoever waits too long); a shell
\* that has something to do does it; a removal does not fail for ever.  Nothing
\* says a command ends.
Fairness ==
  /\ WF_vars(HolderStep) /\ WF_vars(Restart)
  /\ SF_vars(Reconcile)
  /\ \A n \in Names : SF_vars(Finalize(n))
  /\ \A n \in Names : WF_vars(\E g \in stops : g.name = n /\ StopSignals(g))
  /\ \A n \in Names : SF_vars(\E g \in stops : g.name = n /\ StopEnds(g))
  /\ \A i \in Procs : WF_vars(OpenExit(i)) /\ WF_vars(WriteExit(i))

FairSpec == Spec /\ Fairness

-----------------------------------------------------------------------------
(* Properties.                                                             *)

Stops == [name : Names, step : {"launched", "waits", "over"}, pid : 0..MaxProcs]

\* Every variable holds a value of its kind.
TypeOK ==
  /\ task \in [Names -> Tasks]
  /\ stopping \in SUBSET Names
  /\ call \in Calls
  /\ stops \in SUBSET Stops
  /\ disk \in [Names -> Dirs]
  /\ proc \in [Procs -> Processes]

\* At most one task counts as active (maxConcurrentTasks), also among those a
\* restart finds on disk (recoverTasks applies no limit of its own).
OneActive == Cardinality(ActiveTasks) <= MaxConcurrentTasks

\* A deletion the manager knows of is on disk, so a restart does not forget it
\* (softDeleteLocked, recoverTasks).
DeletionDurable ==
  \A n \in There : task[n].deleting <=> disk[n].json = "deleting"

\* While nobody holds the lock, the tasks in memory are those on disk: neither
\* a failed creation nor a crash leaves one behind (Create, reconcileTasks).
StoreMirrored == call.at = "free" => There = Stored

\* A shell that waits for its command belongs to a task whose directory names
\* it, so that a stop can find it; the task may be removed only afterwards.
Tracked ==
  \A i \in Procs : proc[i].shim = "waiting" =>
    \/ disk[proc[i].task].pid = i
    \/ call.at = "started" /\ call.new = i

\* Only the process of a task that is being deleted or has timed out is told to
\* end (reconcileTasks, Stop).
OnlyDoomedStopped ==
  [][\A i \in Procs : ~proc[i].termed /\ proc'[i].termed =>
       proc[i].late \/ task[proc[i].task].deleting]_vars

\* A look at task n, also one under way, may find it active: its directory holds
\* no mark and no exit code, and its process, if the directory names one, runs.
Creation == {"saved", "started", "known"}
Live(n)   == disk[n].json = "live"
NoExit(n) == disk[n].exit = "none" \/ (call.name = n /\ call.seen = "none")
MayRun(n) == disk[n].pid = 0 \/ (Alive(proc[disk[n].pid]) /\ ~proc[disk[n].pid].late)
Candidate(n) == Live(n) /\ NoExit(n) /\ MayRun(n)

\* What is known of a task: what the memory says or, if it is not there, what a
\* recovery would find on disk; a task under creation has not been promised yet.
Status(n) ==
  CASE task[n].there -> IF task[n].deleting THEN "deleting" ELSE "live"
    [] ~task[n].there /\ call.at \in Creation /\ call.name = n -> "creating"
    [] OTHER -> disk[n].json

\* The manager, its disk and its processes implement the slot: a crash loses no
\* task and no deletion, and no look at the disk brings a task back to life.
Slot == INSTANCE TaskSlot WITH
  status  <- [n \in Names |-> Status(n)],
  holders <- {n \in Names : ActiveTask(task[n]) \/ Candidate(n)}
ImplementsSlot == Slot!SlotSpec

\* A final state stays until the task is removed ("isTerminalState returns true
\* if the task will not transition to another state").
FinalStays ==
  [][\A n \in Names : task[n].there /\ Terminal(task[n].state) /\ task'[n].there =>
       task'[n].state = task[n].state]_vars

\* The exit file is written after the command has ended (buildShimScript: "It
\* waits for the child to exit and captures the exit code").
ExitAfterChild ==
  \A i \in Procs : proc[i].shim = "writing" => proc[i].child # "running"

\* A task that is to be deleted is stopped and removed (Sync "deletes tasks not
\* in the desired list").
DeletionCompletes ==
  \A n \in Names : task[n].there /\ task[n].deleting ~> ~task[n].there

\* A task that exceeds its timeout is stopped (reconcileTasks).
TimeoutEnforced ==
  \A i \in Procs :
    (\E n \in There : disk[n].pid = i) /\ proc[i].late ~> ~Alive(proc[i])
=============================================================================
