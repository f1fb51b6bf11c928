------------------------- MODULE TaskExecutor_proofs -------------------------
(***************************************************************************)
(* What holds of the task executor for any number of names and processes.  *)
(* When writes to the disk succeed, whatever else goes wrong: at most one  *)
(* task is active, the disk holds the tasks and their deletions, and the   *)
(* executor implements the slot of TaskSlot.                               *)
(* While it does not crash, no process is lost.  When no stop outlasts its *)
(* task, none reaches a process that is not to end.                        *)
(***************************************************************************)
EXTENDS TaskExecutor, FiniteSetTheorems, TLAPS

-----------------------------------------------------------------------------
(* The inductive invariant.                                                *)

Active(n) == ActiveTask(task[n])

\* Pid files and the thread name processes that were started.
PidsStarted ==
  /\ \A n \in Names : disk[n].pid # 0 => proc[disk[n].pid].shim # "unused"
  /\ call.at = "started" => call.new # 0 /\ proc[call.new].shim # "unused"

\* What is known of an exit file belongs to the look under way; a reconcile looks
\* at tasks in memory.
LooksInTurn ==
  /\ call.seen # "unread" =>
       call.at = "known" \/ (call.at \in {"reconcile", "recover"} /\ call.name \in call.look)
  /\ call.at = "reconcile" => call.look \subseteq There

\* An exit file that was read is still there.
ExitStays ==
  call.seen \notin {"unread", "none"} =>
    /\ call.name \in Names
    /\ disk[call.name].exit # "none"

\* The disk knows every deletion, and only deleted tasks are to be removed.
Durable ==
  /\ DeletionDurable
  /\ \A n \in call.doomed : task[n].there /\ task[n].deleting

\* The tasks on disk: those in memory, and those being created or recovered.
Mirrored ==
  /\ call.at = "down" => There = {}
  /\ call.at = "recover" => Stored = There \cup call.look
  /\ call.at \in Creation => Stored = There \cup {call.name}
  /\ call.at \notin Creation \cup {"down", "recover"} => Stored = There

\* Names to be marked are in memory, names to be created are not, and nothing is
\* active while one is created.
CreationAlone ==
  /\ call.drop \subseteq There /\ call.add \cap There = {}
  /\ call.at \in Creation \cup {"made"} =>
       /\ call.name \in Names \ There
       /\ ActiveTasks = {}
  /\ call.at \in Creation => Live(call.name)

AtMostOne ==
  /\ \A n, m \in Names : Candidate(n) /\ Candidate(m) => n = m
  /\ \A n, m \in Names : Active(n) /\ Candidate(m) => n = m
  /\ \A n, m \in Names : Active(n) /\ Active(m) => n = m

\* A candidate is active, or about to be looked at for the first time.
Accounted ==
  \A n \in Names : Candidate(n) =>
    \/ Active(n)
    \/ call.at = "down"
    \/ call.at = "recover" /\ n \in call.look
    \/ call.at \in Creation /\ n = call.name

Kept == /\ PidsStarted /\ LooksInTurn /\ ExitStays /\ Durable /\ Mirrored
        /\ CreationAlone /\ AtMostOne /\ Accounted

Inv == TypeOK /\ Kept

-----------------------------------------------------------------------------
(* Type correctness.                                                       *)

LEMMA ProcessTypes ==
  ASSUME NEW p \in Processes
  PROVE  Gone(p) \in Processes /\ Killed(p) \in Processes /\ Interrupted(p) \in Processes
BY DEF Gone, Killed, Interrupted, Alive, Processes, NoProcess

LEMMA InspectedType ==
  ASSUME TypeOK, NEW n \in Names, NEW exit
  PROVE  Inspected(n, exit) \in States
BY DEF Inspected, StateOfProcess, States

LEMMA ExitType ==
  ASSUME NEW d \in [Names -> Dirs], NEW n, NEW exit, n \in Names => exit \in Exits
  PROVE  [d EXCEPT ![n].exit = exit] \in [Names -> Dirs]
<1>1. CASE n \in Names
  BY <1>1 DEF Dirs
<1>2. CASE n \notin Names
  BY <1>2
<1>. QED
  BY <1>1, <1>2

LEMMA CallTypes ==
  ASSUME NEW S \in SUBSET Names, NEW T \in SUBSET Names
  PROVE  /\ \A at \in {"free", "sync", "made", "saved", "started", "known",
                       "reconcile", "recover", "down"} : Idle(at) \in Calls
         /\ Continue(S, T) \in Calls /\ Looked(S, T) \in Calls /\ Recovering(S) \in Calls
<1>1. \A at \in {"free", "sync", "made", "saved", "started", "known",
                 "reconcile", "recover", "down"} : Idle(at) \in Calls
  BY MaxProcsAssumption DEF Idle, Calls, Exits
<1>2. Continue(S, T) \in Calls
  BY <1>1 DEF Continue, Calls
<1>3. Looked(S, T) \in Calls
  BY <1>1 DEF Looked, Calls
<1>4. Recovering(S) \in Calls
  BY <1>1 DEF Recovering, Calls
<1>. QED
  BY <1>1, <1>2, <1>3, <1>4

LEMMA TypeInit == Init => TypeOK
<1>. SUFFICES ASSUME Init PROVE TypeOK
  OBVIOUS
<1>1. call \in Calls
  BY CallTypes DEF Init
<1>. QED
  BY <1>1, MaxProcsAssumption DEF Init, TypeOK, Tasks, NoTask, States, Dirs, NoDir, Exits, Processes, NoProcess

LEMMA TypeNext == TypeOK /\ [Next]_vars => TypeOK'
<1>. SUFFICES ASSUME TypeOK, [Next]_vars PROVE TypeOK'
  OBVIOUS
<1>. USE MaxProcsAssumption
<1>1. ASSUME NEW drop \in SUBSET Names, NEW add \in SUBSET Names, Request(drop, add)
      PROVE  TypeOK'
  BY <1>1, CallTypes DEF Request, TypeOK
<1>2. CASE RequestStep
  BY <1>1, <1>2 DEF RequestStep, Sync, Create, Delete, There
<1>3. ASSUME NEW n \in Names, SoftDelete(n)
      PROVE  TypeOK'
  <2>1. call' \in Calls
    BY <1>3, CallTypes DEF SoftDelete, TypeOK, Calls
  <2>2. task' \in [Names -> Tasks]
    BY <1>3 DEF SoftDelete, TypeOK, Tasks
  <2>3. Marked(disk[n]) \in Dirs
    BY DEF Marked, TypeOK, Dirs
  <2>4. disk' \in [Names -> Dirs]
    BY <1>3, <2>3 DEF SoftDelete, SoftDeleteSaves, TypeOK
  <2>. QED
    BY <1>3, <2>1, <2>2, <2>4 DEF SoftDelete, TypeOK
<1>4. ASSUME NEW n \in Names, GivesUp(n)
      PROVE  call' \in Calls
  BY <1>4, CallTypes DEF GivesUp, TypeOK, Calls
<1>5. NoDir \in Dirs
  BY DEF NoDir, Dirs, Exits
<1>6. ASSUME NEW n \in Names, MakeDir(n)
      PROVE  TypeOK'
  BY <1>6, <1>5 DEF MakeDir, TypeOK, Calls, Dirs
<1>7. ASSUME NEW n \in Names, CreateRefused(n)
      PROVE  TypeOK'
  BY <1>7, <1>4 DEF CreateRefused, TypeOK
<1>8. ASSUME NEW n \in Names, SaveTask(n)
      PROVE  TypeOK'
  <2>1. call' \in Calls
    BY <1>8, <1>4 DEF SaveTask, TypeOK, Calls
  <2>2. disk' \in [Names -> Dirs]
    BY <1>8, <1>5 DEF SaveTask, TypeOK, Dirs
  <2>. QED
    BY <1>8, <2>1, <2>2 DEF SaveTask, TypeOK
<1>9. ASSUME NEW n \in Names, StartProcess(n)
      PROVE  TypeOK'
  <2>. PICK i \in Procs :
         /\ proc' = [proc EXCEPT ![i] = [NoProcess EXCEPT !.task = n, !.shim = "waiting",
                                                         !.child = "running"]]
         /\ call' = [call EXCEPT !.at = "started", !.new = i]
    BY <1>9 DEF StartProcess, Unstarted
  <2>. i \in 0..MaxProcs
    BY DEF Procs
  <2>1. call' \in Calls
    BY DEF TypeOK, Calls
  <2>2. proc' \in [Procs -> Processes]
    BY DEF TypeOK, Processes, NoProcess
  <2>. QED
    BY <1>9, <2>1, <2>2 DEF StartProcess, TypeOK
<1>10. ASSUME NEW n \in Names, StartFails(n)
       PROVE  TypeOK'
  BY <1>10, <1>4, <1>5 DEF StartFails, TypeOK
<1>11. ASSUME NEW n \in Names, WritePid(n)
       PROVE  TypeOK'
  <2>1. call.new \in 0..MaxProcs /\ disk[n] \in Dirs
    BY DEF TypeOK, Calls
  <2>2. [disk[n] EXCEPT !.pid = call.new] \in Dirs
    BY <2>1 DEF Dirs
  <2>3. disk' = [disk EXCEPT ![n] = [disk[n] EXCEPT !.pid = call.new]]
    BY <1>11 DEF WritePid
  <2>4. disk' \in [Names -> Dirs]
    BY <2>2, <2>3 DEF TypeOK
  <2>5. call' \in Calls
    BY <1>11 DEF WritePid, TypeOK, Calls
  <2>. QED
    BY <1>11, <2>4, <2>5 DEF WritePid, TypeOK
<1>12. ASSUME NEW n \in Names, WritePidFails(n)
       PROVE  TypeOK'
  <2>1. proc' \in [Procs -> Processes]
    BY <1>12, ProcessTypes DEF WritePidFails, TypeOK
  <2>. QED
    BY <1>12, <2>1, <1>4, <1>5 DEF WritePidFails, TypeOK
<1>13. ASSUME NEW n \in Names, ReadExit(n)
       PROVE  TypeOK'
  BY <1>13 DEF ReadExit, TypeOK, Calls, Dirs
<1>14. ASSUME NEW n \in Names, FinishCreate(n)
       PROVE  TypeOK'
  BY <1>14, <1>4, InspectedType DEF FinishCreate, TypeOK, Tasks
<1>15. ASSUME NEW n \in Names, RecoverTask(n)
       PROVE  TypeOK'
  <2>1. call' \in Calls
    BY <1>15, CallTypes DEF RecoverTask, TypeOK, Calls
  <2>. QED
    BY <1>15, <2>1, InspectedType DEF RecoverTask, TypeOK, Tasks
<1>16. ASSUME NEW n \in Names, Examine(n)
       PROVE  TypeOK'
  <2>. call.look \in SUBSET Names /\ call.doomed \in SUBSET Names
    BY DEF TypeOK, Calls
  <2>. PICK doomed \in SUBSET Names : call' = Looked(call.look \ {n}, doomed)
    BY <1>16 DEF Examine
  <2>1. call' \in Calls
    BY CallTypes
  <2>2. task' \in [Names -> Tasks]
    BY <1>16, InspectedType DEF Examine, TypeOK, Tasks
  <2>3. disk' \in [Names -> Dirs]
    BY <1>16 DEF Examine, TypeOK, Dirs
  <2>4. stopping' \in SUBSET Names /\ stops' \in SUBSET Stops
    BY <1>16 DEF Examine, TypeOK, Stops, Dirs
  <2>. QED
    BY <1>16, <2>1, <2>2, <2>3, <2>4 DEF Examine, TypeOK
<1>17. ASSUME NEW n \in Names, Finalizing(n)
       PROVE  call' \in Calls
  BY <1>17, CallTypes DEF Finalizing, TypeOK, Calls
<1>18. ASSUME NEW n \in Names, Finalize(n)
       PROVE  TypeOK'
  BY <1>18, <1>17, <1>5 DEF Finalize, Finalizing, TypeOK, Tasks, NoTask, States
<1>19. ASSUME NEW n \in Names, FinalizeFails(n)
       PROVE  TypeOK'
  BY <1>19, <1>17 DEF FinalizeFails, Finalizing, TypeOK
<1>20. CASE HolderStep
  BY <1>3, <1>6, <1>7, <1>8, <1>9, <1>10, <1>11, <1>12, <1>13, <1>14, <1>15, <1>16,
     <1>18, <1>19, <1>20 DEF HolderStep
<1>21. CASE Reconcile
  <2>1. There \in SUBSET Names
    BY DEF There
  <2>2. Idle("reconcile") \in Calls
    BY CallTypes
  <2>3. [Idle("reconcile") EXCEPT !.look = There] \in Calls
    BY <2>1, <2>2 DEF Calls
  <2>. QED
    BY <1>21, <2>3 DEF Reconcile, TypeOK
<1>22. CASE StopStep
  <2>1. PICK g \in stops : StopSignals(g) \/ StopEscalates(g) \/ StopEnds(g)
    BY <1>22 DEF StopStep
  <2>2. g \in Stops
    BY DEF TypeOK
  <2>. DEFINE i == disk[g.name].pid
  <2>a. i \in 0..MaxProcs
    BY <2>2 DEF TypeOK, Stops, Dirs
  <2>b. [g EXCEPT !.step = "over"] \in Stops /\ [g EXCEPT !.step = "waits", !.pid = i] \in Stops
    BY <2>2, <2>a DEF Stops
  <2>3. stops' \in SUBSET Stops
    <3>. HIDE DEF i
    <3>1. stops \in SUBSET Stops
      BY DEF TypeOK
    <3>2. CASE StopSignals(g)
      <4>1. \/ stops' = (stops \ {g}) \cup {[g EXCEPT !.step = "over"]}
            \/ stops' = (stops \ {g}) \cup {[g EXCEPT !.step = "waits", !.pid = i]}
        BY <3>2 DEF StopSignals, i
      <4>. QED
        BY <4>1, <3>1, <2>b
    <3>3. CASE StopEscalates(g)
      <4>1. stops' = (stops \ {g}) \cup {[g EXCEPT !.step = "over"]}
        BY <3>3 DEF StopEscalates
      <4>. QED
        BY <4>1, <3>1, <2>b
    <3>4. CASE StopEnds(g)
      BY <3>4, <3>1 DEF StopEnds
    <3>. QED
      BY <2>1, <3>2, <3>3, <3>4
  <2>4. proc' \in [Procs -> Processes]
    BY <2>1, <2>2, ProcessTypes DEF StopSignals, StopEscalates, StopEnds, TypeOK
  <2>. QED
    BY <2>1, <2>3, <2>4 DEF StopSignals, StopEscalates, StopEnds, TypeOK, memory
<1>23. ASSUME CodesAssumption, NEW i \in Procs, ChildEnds(i)
       PROVE  TypeOK'
  <2>1. PICK code \in Codes :
          LET p == [proc[i] EXCEPT !.child = "done", !.code = code]
          IN proc' = [proc EXCEPT ![i] = IF Alive(p) THEN p ELSE Gone(p)]
    BY <1>23 DEF ChildEnds
  <2>a. proc[i] \in Processes
    BY DEF TypeOK
  <2>2. [proc[i] EXCEPT !.child = "done", !.code = code] \in Processes
    BY <2>a, CodesAssumption DEF Processes
  <2>3. proc' \in [Procs -> Processes]
    BY <2>1, <2>2, ProcessTypes DEF TypeOK
  <2>. QED
    BY <1>23, <2>3 DEF ChildEnds, TypeOK, memory
<1>24. ASSUME NEW i \in Procs, Expire(i)
       PROVE  TypeOK'
  <2>1. proc[i] \in Processes
    BY DEF TypeOK
  <2>2. [proc[i] EXCEPT !.late = TRUE] \in Processes
    BY <2>1 DEF Processes
  <2>3. proc' = [proc EXCEPT ![i] = [proc[i] EXCEPT !.late = TRUE]]
    BY <1>24 DEF Expire
  <2>4. proc' \in [Procs -> Processes]
    BY <2>2, <2>3 DEF TypeOK
  <2>. QED
    BY <1>24, <2>4 DEF Expire, TypeOK, memory
<1>25. ASSUME NEW i \in Procs, OpenExit(i)
       PROVE  TypeOK'
  <2>. PICK code \in ExitCodes(proc[i]) :
         proc' = [proc EXCEPT ![i] = [@ EXCEPT !.shim = "writing", !.code = code]]
    BY <1>25 DEF OpenExit
  <2>a. code \in {"ok", "failed"}
    BY DEF ExitCodes, TypeOK, Processes
  <2>d. proc[i] \in Processes
    BY DEF TypeOK
  <2>e. [proc[i] EXCEPT !.shim = "writing", !.code = code] \in Processes
    BY <2>a, <2>d DEF Processes
  <2>1. proc' \in [Procs -> Processes]
    BY <2>e DEF TypeOK
  <2>. DEFINE exit == IF disk[proc[i].task].made THEN "empty" ELSE disk[proc[i].task].exit
  <2>b. disk' = [disk EXCEPT ![proc[i].task].exit = exit]
    BY <1>25 DEF OpenExit
  <2>c. proc[i].task \in Names => exit \in Exits
    BY DEF TypeOK, Dirs, Exits
  <2>2. disk' \in [Names -> Dirs]
    BY <2>b, <2>c, ExitType DEF TypeOK
  <2>. QED
    BY <1>25, <2>1, <2>2 DEF OpenExit, TypeOK, memory
<1>26. ASSUME NEW i \in Procs, WriteExit(i)
       PROVE  TypeOK'
  <2>1. proc' \in [Procs -> Processes]
    BY <1>26, ProcessTypes DEF WriteExit, TypeOK
  <2>. DEFINE exit == IF disk[proc[i].task].exit = "empty" THEN proc[i].code
                      ELSE disk[proc[i].task].exit
  <2>a. disk' = [disk EXCEPT ![proc[i].task].exit = exit]
    BY <1>26 DEF WriteExit
  <2>b. proc[i].task \in Names => exit \in Exits
    BY DEF TypeOK, Dirs, Exits, Processes
  <2>2. disk' \in [Names -> Dirs]
    BY <2>a, <2>b, ExitType DEF TypeOK
  <2>. QED
    BY <1>26, <2>1, <2>2 DEF WriteExit, TypeOK, memory
<1>27. CASE ProcessStep
  BY <1>23, <1>24, <1>25, <1>26, <1>27, CodesAssumption DEF ProcessStep
<1>28. CASE Crash
  <2>1. call' \in Calls
    BY <1>28, CallTypes DEF Crash
  <2>2. disk' \in [Names -> Dirs]
    <3>1. \A n \in Names : Torn(disk[n]) \subseteq Dirs
      <4>. SUFFICES ASSUME NEW n \in Names PROVE Torn(disk[n]) \subseteq Dirs
        OBVIOUS
      <4>1. /\ disk[n].json \in {"none", "live", "deleting"}
            /\ disk[n].pid \in 0..MaxProcs
            /\ disk[n].exit \in Exits
        BY DEF TypeOK, Dirs
      <4>. SUFFICES ASSUME NEW dir \in Torn(disk[n]) PROVE dir \in Dirs
        OBVIOUS
      <4>2. PICK json \in {disk[n].json, "none"}, pid \in {disk[n].pid, 0},
                 exit \in {disk[n].exit, "none"} :
              dir = [made |-> TRUE, json |-> json, pid |-> pid, exit |-> exit]
        BY Zenon DEF Torn
      <4>3. json \in {"none", "live", "deleting"} /\ pid \in 0..MaxProcs /\ exit \in Exits
        BY <4>1 DEF Exits
      <4>. QED
        BY <4>2, <4>3 DEF Dirs
    <3>2. call.doomed \subseteq Names
      BY DEF TypeOK, Calls
    <3>. QED
      BY <1>28, <3>1, <3>2 DEF Crash, TypeOK
  <2>3. proc' \in [Procs -> Processes]
    BY <1>28, ProcessTypes DEF Crash, TypeOK
  <2>4. task' \in [Names -> Tasks]
    BY <1>28 DEF Crash, Tasks, NoTask, States
  <2>. QED
    BY <1>28, <2>1, <2>2, <2>3, <2>4 DEF Crash, TypeOK
<1>29. CASE Restart
  BY <1>29, CallTypes DEF Restart, TypeOK, Stored
<1>30. CASE UNCHANGED vars
  BY <1>30 DEF vars, memory, TypeOK
<1>. QED
  BY <1>2, <1>20, <1>21, <1>22, <1>27, <1>28, <1>29, <1>30 DEF Next

\* Every variable of the executor keeps its type, whatever goes wrong (TypeOK).
THEOREM TypeCorrect == Spec => []TypeOK
BY TypeInit, TypeNext, PTL DEF Spec

-----------------------------------------------------------------------------
(* What the thread holds after each kind of step.                          *)

LEMMA Rests ==
  ASSUME NEW S \in SUBSET Names, NEW T \in SUBSET Names
  PROVE  /\ Continue(S, T).at \in {"free", "sync"} /\ Continue(S, T).seen = "unread"
         /\ Continue(S, T).look = {} /\ Continue(S, T).doomed = {} /\ Continue(S, T).add = T
         /\ Continue(S, T).drop = S /\ Looked(S, T).drop = {} /\ Recovering(S).drop = {}
         /\ Looked(S, T).at \in {"free", "reconcile"} /\ Looked(S, T).seen = "unread"
         /\ Looked(S, T).look = S /\ Looked(S, T).doomed = T /\ Looked(S, T).add = {}
         /\ Recovering(S).at = IF S = {} THEN "free" ELSE "recover"
         /\ Recovering(S).seen = "unread"
         /\ Recovering(S).look = S /\ Recovering(S).doomed = {} /\ Recovering(S).add = {}
BY DEF Continue, Looked, Recovering, Idle

LEMMA GivesUpRests ==
  ASSUME TypeOK, NEW n \in Names, GivesUp(n)
  PROVE  /\ call'.at \in {"free", "sync"} /\ call'.seen = "unread"
         /\ call'.look = {} /\ call'.doomed = {} /\ call'.add = call.add \ {n}
         /\ call'.drop = {}
BY DEF GivesUp, Continue, Idle

LEMMA Shrinks ==
  ASSUME AtMostOne,
         \A n \in Names : Candidate(n)' => Candidate(n),
         \A n \in Names : Active(n)' => Active(n)
  PROVE  AtMostOne'
BY DEF AtMostOne

-----------------------------------------------------------------------------
(* Processes and goroutines: tasks and the thread stay, processes only end. *)

WorldStep ==
  /\ UNCHANGED <<task, call>>
  /\ \A n \in Names :
       /\ disk'[n].json = disk[n].json /\ disk'[n].pid = disk[n].pid
       /\ disk[n].exit # "none" => disk'[n].exit # "none"
  /\ \A i \in Procs :
       /\ proc[i].shim # "unused" => proc'[i].shim # "unused"
       /\ Alive(proc'[i]) /\ ~proc'[i].late => Alive(proc[i]) /\ ~proc[i].late

LEMMA PidIsProc ==
  ASSUME TypeOK, NEW n \in Names, disk[n].pid # 0
  PROVE  disk[n].pid \in Procs
BY MaxProcsAssumption DEF TypeOK, Dirs, Procs

LEMMA WorldKeeps ==
  ASSUME Inv, WorldStep
  PROVE  Kept'
<1>. USE DEF Inv, Kept, WorldStep
<1>1. PidsStarted'
  <2>1. call.new \in 0..MaxProcs
    BY DEF TypeOK, Calls
  <2>2. call.new # 0 => call.new \in Procs
    BY <2>1, MaxProcsAssumption DEF Procs
  <2>. QED
    BY <2>2, PidIsProc DEF PidsStarted
<1>2. LooksInTurn'
  BY DEF LooksInTurn, There
<1>3. ExitStays'
  BY DEF ExitStays
<1>4. Durable'
  BY DEF Durable, DeletionDurable, There
<1>5. Mirrored'
  BY DEF Mirrored, There, Stored
<1>6. CreationAlone'
  BY DEF CreationAlone, There, ActiveTasks, Live, Creation
<1>7. ASSUME NEW n \in Names
      PROVE  (Candidate(n)' => Candidate(n)) /\ (Active(n)' <=> Active(n))
  <2>1. Live(n)' => Live(n)
    BY DEF Live
  <2>2. NoExit(n)' => NoExit(n)
    BY DEF NoExit
  <2>3. MayRun(n)' => MayRun(n)
    BY PidIsProc DEF MayRun
  <2>4. Active(n)' <=> Active(n)
    BY DEF Active
  <2>. QED
    BY <2>1, <2>2, <2>3, <2>4 DEF Candidate
<1>8. AtMostOne'
  BY <1>7, Shrinks
<1>9. Accounted'
  BY <1>7 DEF Accounted
<1>. QED
  BY <1>1, <1>2, <1>3, <1>4, <1>5, <1>6, <1>8, <1>9

LEMMA StopIsWorldStep ==
  ASSUME Inv, StopStep
  PROVE  WorldStep
<1>1. PICK g \in stops : StopSignals(g) \/ StopEscalates(g) \/ StopEnds(g)
  BY DEF StopStep
<1>2. g.name \in Names /\ g.pid \in 0..MaxProcs /\ TypeOK
  BY DEF Inv, TypeOK, Stops
<1>3. UNCHANGED <<task, call, disk>>
  BY <1>1 DEF StopSignals, StopEscalates, StopEnds, memory
<1>4. \/ UNCHANGED proc
      \/ \E i : proc' = [proc EXCEPT ![i] = Interrupted(@)]
      \/ \E i : proc' = [proc EXCEPT ![i] = Killed(@)]
  BY <1>1 DEF StopSignals, StopEscalates, StopEnds
<1>5. \A i \in Procs :
       /\ proc[i].shim # "unused" => proc'[i].shim # "unused"
       /\ Alive(proc'[i]) /\ ~proc'[i].late => Alive(proc[i]) /\ ~proc[i].late
  <2>1. \A q \in Processes : Gone(q).shim = "gone"
    BY DEF Gone, NoProcess
  <2>2. \A q \in Processes : [q EXCEPT !.child = "done"] \in Processes
    BY DEF Processes
  <2>3. \A q \in Processes :
          /\ q.shim # "unused" => Killed(q).shim # "unused"
          /\ ~Alive(Killed(q))
    BY <2>1, <2>2 DEF Killed, Alive
  <2>4. \A q \in Processes :
          /\ q.shim # "unused" => Interrupted(q).shim # "unused"
          /\ Alive(Interrupted(q)) => Alive(q) /\ Interrupted(q).late = q.late
    <3>. TAKE q \in Processes
    <3>1. CASE Alive(q)
      BY <3>1 DEF Interrupted, Alive, Processes
    <3>2. CASE ~Alive(q)
      BY <2>1, <2>2, <3>2 DEF Interrupted, Alive
    <3>. QED
      BY <3>1, <3>2
  <2>. QED
    BY <1>2, <1>4, <2>3, <2>4 DEF TypeOK
<1>. QED
  BY <1>3, <1>5 DEF WorldStep

LEMMA ProcessIsWorldStep ==
  ASSUME Inv, ProcessStep
  PROVE  WorldStep
<1>1. PICK i \in Procs : ChildEnds(i) \/ Expire(i) \/ OpenExit(i) \/ WriteExit(i)
  BY DEF ProcessStep
<1>2. TypeOK /\ proc[i] \in Processes
  BY DEF Inv, TypeOK
<1>3. UNCHANGED <<task, call>>
  BY <1>1 DEF ChildEnds, Expire, OpenExit, WriteExit, memory
<1>4. \A j \in Procs :
       /\ proc[j].shim # "unused" => proc'[j].shim # "unused"
       /\ Alive(proc'[j]) /\ ~proc'[j].late => Alive(proc[j]) /\ ~proc[j].late
  <2>1. CASE ChildEnds(i)
    <3>1. PICK code \in Codes :
            LET p == [proc[i] EXCEPT !.child = "done", !.code = code]
            IN proc' = [proc EXCEPT ![i] = IF Alive(p) THEN p ELSE Gone(p)]
      BY <2>1 DEF ChildEnds
    <3>. DEFINE p == [proc[i] EXCEPT !.child = "done", !.code = code]
    <3>2. p \in Processes /\ p.shim = proc[i].shim /\ p.late = proc[i].late
      BY <1>2, CodesAssumption DEF Processes
    <3>3. Gone(p).shim = "gone"
      BY DEF Gone, NoProcess
    <3>. QED
      BY <1>2, <3>1, <3>2, <3>3 DEF TypeOK, Alive
  <2>2. CASE Expire(i)
    BY <1>2, <2>2 DEF Expire, Alive, TypeOK, Processes
  <2>3. CASE OpenExit(i)
    <3>1. PICK code \in ExitCodes(proc[i]) :
            proc' = [proc EXCEPT ![i] = [@ EXCEPT !.shim = "writing", !.code = code]]
      BY <2>3 DEF OpenExit
    <3>. QED
      BY <1>2, <2>3, <3>1 DEF OpenExit, Alive, TypeOK, Processes
  <2>4. CASE WriteExit(i)
    BY <1>2, <2>4 DEF WriteExit, Gone, NoProcess, Alive, TypeOK
  <2>. QED
    BY <1>1, <2>1, <2>2, <2>3, <2>4
<1>5. ASSUME NEW n \in Names
      PROVE  /\ disk'[n].json = disk[n].json /\ disk'[n].pid = disk[n].pid
             /\ disk[n].exit # "none" => disk'[n].exit # "none"
  <2>1. CASE UNCHANGED disk
    BY <2>1
  <2>2. CASE OpenExit(i)
    BY <1>2, <2>2 DEF OpenExit, TypeOK, Dirs
  <2>3. CASE WriteExit(i)
    BY <1>2, <2>3 DEF WriteExit, TypeOK, Dirs, Processes
  <2>. QED
    BY <1>1, <2>1, <2>2, <2>3 DEF ChildEnds, Expire
<1>. QED
  BY <1>3, <1>4, <1>5 DEF WorldStep

-----------------------------------------------------------------------------
(* Steps of the thread that leave tasks, disk and processes alone.         *)

LEMMA QuietKeeps ==
  ASSUME Inv, UNCHANGED <<task, disk, proc>>, call'.seen = "unread", call'.doomed = {},
         call'.at \in {"free", "sync", "reconcile", "recover"},
         call'.at = "reconcile" => call'.look \subseteq There,
         call'.drop \subseteq There, call'.add \cap There = {},
         Mirrored', Accounted'
  PROVE  Kept'
<1>. USE DEF Inv, Kept
<1>1. PidsStarted'
  BY DEF PidsStarted
<1>2. LooksInTurn' /\ ExitStays'
  BY DEF LooksInTurn, ExitStays, There
<1>3. Durable'
  BY DEF Durable, DeletionDurable, There
<1>4. CreationAlone'
  BY DEF CreationAlone, Creation, There
<1>5. AtMostOne'
  <2>1. \A n \in Names : (Candidate(n)' => Candidate(n)) /\ (Active(n)' => Active(n))
    BY DEF Candidate, Live, NoExit, MayRun, Active
  <2>. QED
    BY <2>1, Shrinks
<1>. QED
  BY <1>1, <1>2, <1>3, <1>4, <1>5

LEMMA QuietCandidates ==
  ASSUME UNCHANGED <<task, disk, proc>>, call'.seen = "unread"
  PROVE  \A n \in Names : (Candidate(n)' => Candidate(n)) /\ (Active(n)' <=> Active(n))
BY DEF Candidate, Live, NoExit, MayRun, Active

LEMMA RequestKeeps ==
  ASSUME Inv, NEW drop \in SUBSET Names, NEW add \in SUBSET Names, Request(drop, add),
         drop \subseteq There, add \cap There = {}
  PROVE  Kept'
<1>1. /\ call.at = "free" /\ UNCHANGED <<task, disk, proc>>
      /\ call'.at \in {"free", "sync"} /\ call'.seen = "unread" /\ call'.doomed = {}
      /\ call'.drop = drop /\ call'.add = add
  BY DEF Request, Continue, Idle
<1>2. Mirrored'
  BY <1>1 DEF Inv, Kept, Mirrored, There, Stored, Creation
<1>3. Accounted'
  BY <1>1, QuietCandidates DEF Inv, Kept, Accounted, Creation
<1>. QED
  BY <1>1, <1>2, <1>3, QuietKeeps

LEMMA ReconcileKeeps ==
  ASSUME Inv, Reconcile
  PROVE  Kept'
<1>1. /\ call.at = "free" /\ UNCHANGED <<task, disk, proc>>
      /\ call'.at = "reconcile" /\ call'.seen = "unread" /\ call'.doomed = {}
      /\ call'.look = There /\ call'.drop = {} /\ call'.add = {}
  BY DEF Reconcile, Idle
<1>2. Mirrored'
  BY <1>1 DEF Inv, Kept, Mirrored, There, Stored, Creation
<1>3. Accounted'
  BY <1>1, QuietCandidates DEF Inv, Kept, Accounted, Creation
<1>. QED
  BY <1>1, <1>2, <1>3, QuietKeeps

LEMMA RestartKeeps ==
  ASSUME Inv, Restart
  PROVE  Kept'
<1>1. /\ call.at = "down" /\ UNCHANGED <<task, disk, proc>>
      /\ call'.at = (IF Stored = {} THEN "free" ELSE "recover")
      /\ call'.seen = "unread" /\ call'.doomed = {} /\ call'.look = Stored
      /\ call'.drop = {} /\ call'.add = {}
  <2>1. Stored \in SUBSET Names
    BY DEF Stored
  <2>. QED
    BY <2>1, Rests DEF Restart
<1>2. Mirrored'
  BY <1>1 DEF Inv, Kept, Mirrored, There, Stored, Creation
<1>3. Accounted'
  <2>1. \A n \in Names : Candidate(n) => n \in Stored
    BY DEF Candidate, Live, Stored
  <2>. QED
    BY <1>1, <2>1, QuietCandidates DEF Accounted, Creation
<1>. QED
  BY <1>1, <1>2, <1>3, QuietKeeps

\* Creations that give up before anything of the task is on disk.
LEMMA RefusedKeeps ==
  ASSUME Inv, NEW n \in Names, CreateRefused(n)
  PROVE  Kept'
<1>1. /\ call.at = "sync" /\ UNCHANGED <<task, disk, proc>>
      /\ call'.at \in {"free", "sync"} /\ call'.seen = "unread" /\ call'.doomed = {}
      /\ call'.add = call.add \ {n} /\ call'.drop = {}
  BY GivesUpRests DEF CreateRefused, Inv
<1>2. Mirrored'
  BY <1>1 DEF Inv, Kept, Mirrored, There, Stored, Creation
<1>3. Accounted'
  BY <1>1, QuietCandidates DEF Inv, Kept, Accounted, Creation
<1>4. call'.add \cap There = {}
  BY <1>1 DEF Inv, Kept, CreationAlone
<1>. QED
  BY <1>1, <1>2, <1>3, <1>4, QuietKeeps

LEMMA ReadExitKeeps ==
  ASSUME Inv, NEW n \in Names, ReadExit(n)
  PROVE  Kept'
<1>. USE DEF Inv, Kept
<1>1. /\ UNCHANGED <<task, disk, proc>> /\ call.seen = "unread" /\ InspectsNext(n)
      /\ call'.name = n /\ call'.seen = disk[n].exit /\ call'.at = call.at
      /\ call'.look = call.look /\ call'.doomed = call.doomed /\ call'.new = call.new
      /\ call'.add = call.add /\ call'.drop = call.drop
  BY DEF ReadExit, TypeOK, Calls
<1>2. PidsStarted'
  BY <1>1 DEF PidsStarted
<1>3. LooksInTurn' /\ ExitStays'
  BY <1>1 DEF LooksInTurn, ExitStays, InspectsNext, There
<1>4. Durable'
  BY <1>1 DEF Durable, DeletionDurable, There
<1>5. call.at \in Creation \cup {"made"} => call.name = n
  BY <1>1 DEF InspectsNext, Creation
<1>6. Mirrored' /\ CreationAlone'
  BY <1>1, <1>5 DEF Mirrored, CreationAlone, There, Stored, ActiveTasks, Creation, Live
<1>7. \A m \in Names : (Candidate(m)' => Candidate(m)) /\ (Active(m)' <=> Active(m))
  BY <1>1 DEF Candidate, Live, NoExit, MayRun, Active
<1>8. AtMostOne'
  BY <1>7, Shrinks
<1>9. Accounted'
  BY <1>1, <1>5, <1>7 DEF Accounted
<1>. QED
  BY <1>2, <1>3, <1>4, <1>6, <1>8, <1>9

-----------------------------------------------------------------------------
(* Creation.                                                               *)

LEMMA SlotFreeMeansNone ==
  ASSUME SlotFree
  PROVE  ActiveTasks = {}
<1>1. IsFiniteSet(ActiveTasks)
  BY NamesAssumption, FS_Subset DEF ActiveTasks
<1>2. Cardinality(ActiveTasks) \in Nat /\ Cardinality(ActiveTasks) < 1
  BY <1>1, FS_CardinalityType DEF SlotFree, MaxConcurrentTasks
<1>. QED
  BY <1>1, <1>2, FS_EmptySet

LEMMA MakeDirKeeps ==
  ASSUME Inv, NEW n \in Names, MakeDir(n)
  PROVE  Kept'
<1>. USE DEF Inv, Kept
<1>1. /\ call.at = "sync" /\ n \in call.add /\ ActiveTasks = {} /\ UNCHANGED <<task, proc>>
      /\ disk' = [disk EXCEPT ![n] = [NoDir EXCEPT !.made = TRUE]]
      /\ call'.at = "made" /\ call'.name = n /\ call'.seen = call.seen
      /\ call'.look = call.look /\ call'.doomed = call.doomed /\ call'.add = call.add
      /\ call'.drop = call.drop
  BY SlotFreeMeansNone DEF MakeDir, TypeOK, Calls
<1>2. call.seen = "unread" /\ n \notin There /\ n \notin Stored
  BY <1>1 DEF LooksInTurn, CreationAlone, Mirrored, Creation
<1>3. /\ disk'[n].json = "none" /\ disk'[n].pid = 0
      /\ \A m \in Names \ {n} : disk'[m] = disk[m]
  BY <1>1 DEF NoDir, TypeOK
<1>4. PidsStarted'
  BY <1>1, <1>3 DEF PidsStarted
<1>5. LooksInTurn' /\ ExitStays'
  BY <1>1, <1>2 DEF LooksInTurn, ExitStays
<1>6. Durable'
  BY <1>1, <1>2, <1>3 DEF Durable, DeletionDurable, There
<1>7. Mirrored' /\ CreationAlone'
  BY <1>1, <1>2, <1>3 DEF Mirrored, CreationAlone, There, Stored, ActiveTasks, Creation, Live
<1>8. \A m \in Names : (Candidate(m)' => Candidate(m)) /\ (Active(m)' <=> Active(m))
  BY <1>1, <1>2, <1>3 DEF Candidate, Live, NoExit, MayRun, Active
<1>9. AtMostOne'
  BY <1>8, Shrinks
<1>10. Accounted'
  BY <1>1, <1>8 DEF Accounted, Creation
<1>. QED
  BY <1>4, <1>5, <1>6, <1>7, <1>9, <1>10

LEMMA SaveTaskKeeps ==
  ASSUME Inv, "storeWrite" \notin Faults, NEW n \in Names, SaveTask(n)
  PROVE  Kept'
<1>. USE DEF Inv, Kept
<1>1. /\ call.at = "made" /\ call.name = n /\ UNCHANGED <<task, proc>>
      /\ disk' = [disk EXCEPT ![n].json = "live"]
      /\ call'.at = "saved" /\ call'.name = n /\ call'.seen = call.seen
      /\ call'.look = call.look /\ call'.doomed = call.doomed /\ call'.add = call.add
      /\ call'.drop = call.drop
  BY DEF SaveTask, Creating, WriteMayFail, TypeOK, Calls
<1>2. call.seen = "unread" /\ n \notin There /\ ActiveTasks = {}
  BY <1>1 DEF LooksInTurn, CreationAlone
<1>3. /\ disk'[n].json = "live" /\ disk'[n].pid = disk[n].pid
      /\ \A m \in Names \ {n} : disk'[m] = disk[m]
  BY <1>1 DEF TypeOK, Dirs
<1>4. PidsStarted'
  BY <1>1, <1>3 DEF PidsStarted
<1>5. LooksInTurn' /\ ExitStays'
  BY <1>1, <1>2 DEF LooksInTurn, ExitStays
<1>6. Durable'
  BY <1>1, <1>2, <1>3 DEF Durable, DeletionDurable, There
<1>7. Mirrored' /\ CreationAlone'
  BY <1>1, <1>2, <1>3 DEF Mirrored, CreationAlone, There, Stored, ActiveTasks, Creation, Live
<1>8. \A m \in Names : ~Active(m) /\ ~Active(m)'
  BY <1>1, <1>2 DEF Active, ActiveTasks
<1>9. \A m \in Names : Candidate(m)' => m = n
  <2>1. \A m \in Names \ {n} : Candidate(m)' => Candidate(m)
    BY <1>1, <1>2, <1>3 DEF Candidate, Live, NoExit, MayRun
  <2>. QED
    BY <1>1, <1>8, <2>1 DEF Accounted, Creation
<1>10. AtMostOne'
  BY <1>8, <1>9 DEF AtMostOne
<1>11. Accounted'
  BY <1>1, <1>9 DEF Accounted, Creation
<1>. QED
  BY <1>4, <1>5, <1>6, <1>7, <1>10, <1>11

LEMMA StartProcessKeeps ==
  ASSUME Inv, NEW n \in Names, StartProcess(n)
  PROVE  Kept'
<1>. USE DEF Inv, Kept
<1>1. PICK i \in Unstarted :
        /\ proc' = [proc EXCEPT ![i] = [NoProcess EXCEPT !.task = n, !.shim = "waiting",
                                                        !.child = "running"]]
        /\ call' = [call EXCEPT !.at = "started", !.new = i]
  BY DEF StartProcess
<1>2. /\ call.at = "saved" /\ call.name = n /\ UNCHANGED <<task, disk>>
      /\ call'.at = "started" /\ call'.name = n /\ call'.seen = call.seen /\ call'.new = i
      /\ call'.look = call.look /\ call'.doomed = call.doomed /\ call'.add = call.add
      /\ call'.drop = call.drop
  BY <1>1 DEF StartProcess, Creating, TypeOK, Calls
<1>3. /\ i \in Procs /\ i # 0 /\ proc[i].shim = "unused" /\ proc'[i].shim = "waiting"
      /\ \A j \in Procs \ {i} : proc'[j] = proc[j]
  BY <1>1, MaxProcsAssumption DEF Unstarted, NoProcess, TypeOK, Procs
<1>4. \A m \in Names : disk[m].pid # 0 => disk[m].pid \in Procs \ {i}
  BY <1>3, PidIsProc DEF PidsStarted
<1>5. PidsStarted'
  BY <1>2, <1>3, <1>4 DEF PidsStarted
<1>6. LooksInTurn' /\ ExitStays'
  BY <1>2 DEF LooksInTurn, ExitStays
<1>7. Durable'
  BY <1>2 DEF Durable, DeletionDurable, There
<1>8. Mirrored' /\ CreationAlone'
  BY <1>2 DEF Mirrored, CreationAlone, There, Stored, ActiveTasks, Creation, Live
<1>9. \A m \in Names : (Candidate(m)' => Candidate(m)) /\ (Active(m)' <=> Active(m))
  BY <1>2, <1>3, <1>4 DEF Candidate, Live, NoExit, MayRun, Active
<1>10. AtMostOne'
  BY <1>9, Shrinks
<1>11. Accounted'
  BY <1>2, <1>9 DEF Accounted, Creation
<1>. QED
  BY <1>5, <1>6, <1>7, <1>8, <1>10, <1>11

LEMMA StartFailsKeeps ==
  ASSUME Inv, "storeWrite" \notin Faults, NEW n \in Names, StartFails(n)
  PROVE  Kept'
<1>. USE DEF Inv, Kept
<1>1. /\ call.at = "saved" /\ call.name = n /\ UNCHANGED <<task, proc>>
      /\ disk' = [disk EXCEPT ![n] = NoDir]
      /\ call'.at \in {"free", "sync"} /\ call'.seen = "unread"
      /\ call'.look = {} /\ call'.doomed = {} /\ call'.add = call.add \ {n} /\ call'.drop = {}
  BY GivesUpRests DEF StartFails, Creating, WriteMayFail
<1>2. call.seen = "unread" /\ n \notin There /\ ActiveTasks = {}
  BY <1>1 DEF LooksInTurn, CreationAlone, Creation
<1>3. /\ disk'[n].json = "none" /\ disk'[n].pid = 0
      /\ \A m \in Names \ {n} : disk'[m] = disk[m]
  BY <1>1 DEF NoDir, TypeOK
<1>4. PidsStarted'
  BY <1>1, <1>3 DEF PidsStarted
<1>5. LooksInTurn' /\ ExitStays'
  BY <1>1 DEF LooksInTurn, ExitStays
<1>6. Durable'
  BY <1>1, <1>2, <1>3 DEF Durable, DeletionDurable, There
<1>7. Mirrored' /\ CreationAlone'
  BY <1>1, <1>2, <1>3 DEF Mirrored, CreationAlone, There, Stored, Creation
<1>8. \A m \in Names : (Candidate(m)' => Candidate(m) /\ m # n) /\ (Active(m)' <=> Active(m))
  BY <1>1, <1>2, <1>3 DEF Candidate, Live, NoExit, MayRun, Active
<1>9. AtMostOne'
  BY <1>8, Shrinks
<1>10. Accounted'
  BY <1>1, <1>8 DEF Accounted, Creation
<1>. QED
  BY <1>4, <1>5, <1>6, <1>7, <1>9, <1>10

LEMMA WritePidKeeps ==
  ASSUME Inv, NEW n \in Names, WritePid(n)
  PROVE  Kept'
<1>. USE DEF Inv, Kept
<1>1. /\ call.at = "started" /\ call.name = n /\ UNCHANGED <<task, proc>>
      /\ disk' = [disk EXCEPT ![n].pid = call.new]
      /\ call'.at = "known" /\ call'.name = n /\ call'.seen = call.seen
      /\ call'.look = call.look /\ call'.doomed = call.doomed /\ call'.add = call.add
      /\ call'.drop = call.drop
  BY DEF WritePid, Creating, TypeOK, Calls
<1>2. call.seen = "unread" /\ n \notin There /\ ActiveTasks = {}
  BY <1>1 DEF LooksInTurn, CreationAlone, Creation
<1>3. /\ disk'[n].json = disk[n].json /\ disk'[n].pid = call.new /\ disk'[n].exit = disk[n].exit
      /\ \A m \in Names \ {n} : disk'[m] = disk[m]
  BY <1>1 DEF TypeOK, Dirs
<1>4. PidsStarted'
  BY <1>1, <1>3 DEF PidsStarted
<1>5. LooksInTurn' /\ ExitStays'
  BY <1>1, <1>2 DEF LooksInTurn, ExitStays
<1>6. Durable'
  BY <1>1, <1>2, <1>3 DEF Durable, DeletionDurable, There
<1>7. Mirrored' /\ CreationAlone'
  BY <1>1, <1>2, <1>3 DEF Mirrored, CreationAlone, There, Stored, ActiveTasks, Creation, Live
<1>8. \A m \in Names : ~Active(m) /\ ~Active(m)'
  BY <1>1, <1>2 DEF Active, ActiveTasks
<1>9. \A m \in Names : Candidate(m)' => m = n
  <2>1. \A m \in Names \ {n} : Candidate(m)' => Candidate(m)
    BY <1>1, <1>2, <1>3 DEF Candidate, Live, NoExit, MayRun
  <2>. QED
    BY <1>1, <1>8, <2>1 DEF Accounted, Creation
<1>10. AtMostOne'
  BY <1>8, <1>9 DEF AtMostOne
<1>11. Accounted'
  BY <1>1, <1>9 DEF Accounted, Creation
<1>. QED
  BY <1>4, <1>5, <1>6, <1>7, <1>10, <1>11

\* What a look finds active was a candidate while the look was under way.
LEMMA LookFinds ==
  ASSUME Inv, NEW n \in Names, call.name = n, call.seen # "unread", Live(n)
  PROVE  Candidate(n) <=> Inspected(n, call.seen) \in {"Pending", "Running"}
<1>1. call.seen # "none" => disk[n].exit # "none"
  BY DEF Inv, Kept, ExitStays
<1>2. NoExit(n) <=> call.seen = "none"
  BY <1>1 DEF NoExit
<1>3. MayRun(n) <=> StateOfProcess(n) \in {"Pending", "Running"}
  BY DEF MayRun, StateOfProcess
<1>. QED
  BY <1>2, <1>3 DEF Candidate, Inspected

LEMMA FinishCreateKeeps ==
  ASSUME Inv, NEW n \in Names, FinishCreate(n)
  PROVE  Kept'
<1>. USE DEF Inv, Kept
<1>1. /\ call.at = "known" /\ call.name = n /\ call.seen # "unread" /\ UNCHANGED <<disk, proc>>
      /\ task' = [task EXCEPT ![n] = [there |-> TRUE, deleting |-> FALSE,
                                      state |-> Inspected(n, call.seen)]]
      /\ call'.at \in {"free", "sync"} /\ call'.seen = "unread"
      /\ call'.look = {} /\ call'.doomed = {} /\ call'.add = call.add \ {n} /\ call'.drop = {}
  BY GivesUpRests DEF FinishCreate, Creating
<1>2. n \notin There /\ ActiveTasks = {}
  BY <1>1 DEF CreationAlone, Creation
<1>3. /\ task'[n].there /\ ~task'[n].deleting /\ task'[n].state = Inspected(n, call.seen)
      /\ \A m \in Names \ {n} : task'[m] = task[m]
  BY <1>1 DEF TypeOK
<1>4. There' = There \cup {n} /\ Stored' = There'
  BY <1>1, <1>3 DEF Mirrored, There, Stored, Creation
<1>5. Live(n)
  BY <1>1 DEF CreationAlone, Creation
<1>6. PidsStarted'
  BY <1>1 DEF PidsStarted
<1>7. LooksInTurn' /\ ExitStays'
  BY <1>1 DEF LooksInTurn, ExitStays
<1>8. Durable'
  BY <1>1, <1>3, <1>4, <1>5 DEF Durable, DeletionDurable, There, Live
<1>9. Mirrored' /\ CreationAlone'
  BY <1>1, <1>4 DEF Mirrored, CreationAlone, Creation
<1>10. \A m \in Names : Active(m)' => m = n /\ Candidate(n)
  <2>1. \A m \in Names \ {n} : ~Active(m)'
    BY <1>2, <1>3 DEF Active, ActiveTasks
  <2>. QED
    BY <1>1, <1>3, <1>5, <2>1, LookFinds DEF Active, ActiveTask
<1>11. \A m \in Names : Candidate(m)' => m = n /\ Candidate(n)
  <2>1. \A m \in Names : Candidate(m)' => Candidate(m)
    BY <1>1 DEF Candidate, Live, NoExit, MayRun
  <2>. QED
    BY <1>1, <1>2, <2>1 DEF Accounted, Active, ActiveTasks, Creation
<1>12. AtMostOne'
  BY <1>10, <1>11 DEF AtMostOne
<1>13. Candidate(n) => Active(n)'
  BY <1>1, <1>3, <1>5, LookFinds DEF Active, ActiveTask
<1>14. Accounted'
  BY <1>11, <1>13 DEF Accounted
<1>. QED
  BY <1>6, <1>7, <1>8, <1>9, <1>12, <1>14

-----------------------------------------------------------------------------
(* Deletion, the loop and recovery.                                        *)

LEMMA SoftDeleteKeeps ==
  ASSUME Inv, "storeWrite" \notin Faults, NEW n \in Names, SoftDelete(n)
  PROVE  Kept'
<1>. USE DEF Inv, Kept
<1>1. /\ call.at = "sync" /\ UNCHANGED proc
      /\ task' = [task EXCEPT ![n].deleting = TRUE]
      /\ disk' = [disk EXCEPT ![n].json = "deleting"] \/ (task[n].deleting /\ UNCHANGED disk)
      /\ n \in call.drop /\ call'.drop = call.drop \ {n} /\ call'.add = call.add
      /\ call'.at \in {"free", "sync"} /\ call'.seen = "unread"
      /\ call'.look = {} /\ call'.doomed = {}
  BY DEF SoftDelete, SoftDeleteSaves, Marked, WriteMayFail, Continue, Idle
<1>2. call.seen = "unread"
  BY <1>1 DEF LooksInTurn
<1>3. n \in There
  BY <1>1 DEF CreationAlone
<1>4. /\ disk'[n].json = "deleting" /\ disk'[n].pid = disk[n].pid
      /\ \A m \in Names \ {n} : disk'[m] = disk[m]
  BY <1>1, <1>3 DEF Durable, DeletionDurable, TypeOK, Dirs
<1>5. /\ task'[n].there = task[n].there /\ task'[n].deleting
      /\ \A m \in Names \ {n} : task'[m] = task[m]
  BY <1>1 DEF TypeOK, Tasks
<1>6. There' = There /\ Stored' = Stored
  BY <1>1, <1>3, <1>4, <1>5 DEF There, Stored, Mirrored, Creation
<1>7. PidsStarted'
  BY <1>1, <1>4 DEF PidsStarted
<1>8. LooksInTurn' /\ ExitStays'
  BY <1>1 DEF LooksInTurn, ExitStays
<1>9. Durable'
  <2>1. DeletionDurable'
    BY <1>4, <1>5 DEF Durable, DeletionDurable, There
  <2>2. call.doomed \subseteq Names
    BY DEF TypeOK, Calls
  <2>3. \A m \in call'.doomed : task'[m].there /\ task'[m].deleting
    BY <2>2, <1>1 DEF Durable
  <2>. QED
    BY <2>1, <2>3 DEF Durable
<1>10. Mirrored' /\ CreationAlone'
  BY <1>1, <1>6 DEF Mirrored, CreationAlone, Creation
<1>11. ~Candidate(n)' /\ ~Active(n)'
  BY <1>4, <1>5 DEF Candidate, Live, Active, ActiveTask
<1>12. \A m \in Names \ {n} : (Candidate(m)' => Candidate(m)) /\ (Active(m)' <=> Active(m))
  BY <1>1, <1>4, <1>5 DEF Candidate, Live, NoExit, MayRun, Active
<1>13. AtMostOne'
  BY <1>11, <1>12, Shrinks
<1>14. Accounted'
  BY <1>1, <1>11, <1>12 DEF Accounted, Creation
<1>. QED
  BY <1>7, <1>8, <1>9, <1>10, <1>13, <1>14

LEMMA ExamineKeeps ==
  ASSUME Inv, NEW n \in Names, Examine(n)
  PROVE  Kept'
<1>. USE DEF Inv, Kept
<1>. DEFINE state == Inspected(n, call.seen)
            doomed == IF MustRemove(n, state) THEN call.doomed \cup {n} ELSE call.doomed
<1>1. /\ call.at = "reconcile" /\ call.name = n /\ call.seen # "unread" /\ UNCHANGED proc
      /\ call' = Looked(call.look \ {n}, doomed)
  BY DEF Examine
<1>2. call.look \in SUBSET Names /\ doomed \in SUBSET Names
  BY DEF TypeOK, Calls
<1>3. /\ call'.at \in {"free", "reconcile"} /\ call'.seen = "unread"
      /\ call'.look = call.look \ {n} /\ call'.doomed = doomed /\ call'.drop = {} /\ call'.add = {}
  BY <1>1 DEF Looked, Idle
<1>4. n \in There /\ There = Stored
  BY <1>1 DEF LooksInTurn, Mirrored, Creation
<1>5. UNCHANGED disk
  <2>1. disk[n].json = IF task[n].deleting THEN "deleting" ELSE "live"
    BY <1>4 DEF Durable, DeletionDurable, Stored, TypeOK, Dirs
  <2>. QED
    BY <2>1 DEF Examine, TypeOK, Dirs
<1>6. task' = task \/ task' = [task EXCEPT ![n].state = state]
  BY DEF Examine
<1>7. \A m \in Names : task'[m].there = task[m].there /\ task'[m].deleting = task[m].deleting
  BY <1>6 DEF TypeOK, Tasks
<1>8. There' = There /\ Stored' = Stored
  BY <1>5, <1>7 DEF There, Stored
<1>9. PidsStarted'
  BY <1>1, <1>3, <1>5 DEF PidsStarted
<1>10. LooksInTurn' /\ ExitStays'
  BY <1>1, <1>3, <1>8 DEF LooksInTurn, ExitStays
<1>11. Durable'
  <2>1. DeletionDurable'
    BY <1>5, <1>7 DEF Durable, DeletionDurable, There
  <2>2. call.doomed \subseteq Names
    BY DEF TypeOK, Calls
  <2>3. \A m \in call'.doomed : task'[m].there /\ task'[m].deleting
    BY <2>2, <1>3, <1>4, <1>7 DEF Durable, MustRemove, There
  <2>. QED
    BY <2>1, <2>3 DEF Durable
<1>12. Mirrored' /\ CreationAlone'
  BY <1>1, <1>3, <1>4, <1>8 DEF Mirrored, CreationAlone, Creation
<1>13. \A m \in Names : Candidate(m)' => Candidate(m)
  BY <1>1, <1>3, <1>5 DEF Candidate, Live, NoExit, MayRun
<1>14. \A m \in Names \ {n} : Active(m)' <=> Active(m)
  BY <1>6 DEF Active, TypeOK
<1>15. CASE task' = task
  <2>1. AtMostOne'
    BY <1>13, <1>15, Shrinks DEF Active
  <2>2. Accounted'
    BY <1>1, <1>3, <1>13, <1>15 DEF Accounted, Active, Creation
  <2>. QED
    BY <1>9, <1>10, <1>11, <1>12, <2>1, <2>2
<1>16. CASE task' = [task EXCEPT ![n].state = state]
  <2>1. task'[n].state = state
    BY <1>16 DEF TypeOK, Tasks
  <2>2. ~task[n].deleting => Live(n)
    BY <1>4 DEF Durable, DeletionDurable, Live, Stored, TypeOK, Dirs
  <2>3. Active(n)' <=> ~task[n].deleting /\ Candidate(n)
    BY <1>1, <1>4, <1>7, <2>1, <2>2, LookFinds DEF Active, ActiveTask, There
  <2>4. Candidate(n) => Active(n)
    BY <1>1 DEF Accounted, Creation
  <2>5. AtMostOne'
    BY <1>13, <1>14, <2>3, <2>4, Shrinks
  <2>6. Candidate(n) => ~task[n].deleting
    BY <2>4 DEF Active, ActiveTask
  <2>7. Accounted'
    BY <1>1, <1>3, <1>13, <1>14, <2>3, <2>6 DEF Accounted, Creation
  <2>. QED
    BY <1>9, <1>10, <1>11, <1>12, <2>5, <2>7
<1>. QED
  BY <1>6, <1>15, <1>16

LEMMA FinalizeKeeps ==
  ASSUME Inv, NEW n \in Names, Finalize(n)
  PROVE  Kept'
<1>. USE DEF Inv, Kept
<1>1. /\ call.at = "reconcile" /\ call.look = {} /\ n \in call.doomed /\ UNCHANGED proc
      /\ disk' = [disk EXCEPT ![n] = NoDir] /\ task' = [task EXCEPT ![n] = NoTask]
      /\ call' = Looked({}, call.doomed \ {n})
  BY DEF Finalize, Finalizing
<1>2. /\ call'.at \in {"free", "reconcile"} /\ call'.seen = "unread" /\ call'.look = {}
      /\ call'.doomed = call.doomed \ {n} /\ call'.drop = {} /\ call'.add = {}
  BY <1>1 DEF Looked, Idle
<1>3. /\ disk'[n].json = "none" /\ disk'[n].pid = 0
      /\ \A m \in Names \ {n} : disk'[m] = disk[m]
  BY <1>1 DEF NoDir, TypeOK
<1>4. ~task'[n].there /\ \A m \in Names \ {n} : task'[m] = task[m]
  BY <1>1 DEF NoTask, TypeOK
<1>5. There' = There \ {n} /\ Stored' = Stored \ {n}
  BY <1>3, <1>4 DEF There, Stored
<1>6. PidsStarted'
  BY <1>1, <1>2, <1>3 DEF PidsStarted
<1>7. LooksInTurn' /\ ExitStays'
  BY <1>2 DEF LooksInTurn, ExitStays
<1>8. Durable'
  <2>1. DeletionDurable'
    BY <1>3, <1>4 DEF Durable, DeletionDurable, There
  <2>2. call.doomed \subseteq Names
    BY DEF TypeOK, Calls
  <2>3. \A m \in call'.doomed : task'[m].there /\ task'[m].deleting
    BY <2>2, <1>2, <1>4 DEF Durable
  <2>. QED
    BY <2>1, <2>3 DEF Durable
<1>9. Mirrored' /\ CreationAlone'
  BY <1>1, <1>2, <1>5 DEF Mirrored, CreationAlone, Creation
<1>10. \A m \in Names : (Candidate(m)' => Candidate(m) /\ m # n) /\ (Active(m)' <=> Active(m) /\ m # n)
  BY <1>1, <1>2, <1>3, <1>4 DEF Candidate, Live, NoExit, MayRun, Active, ActiveTask
<1>11. AtMostOne'
  BY <1>10, Shrinks
<1>12. Accounted'
  BY <1>1, <1>10 DEF Accounted, Creation
<1>. QED
  BY <1>6, <1>7, <1>8, <1>9, <1>11, <1>12

LEMMA RecoverTaskKeeps ==
  ASSUME Inv, NEW n \in Names, RecoverTask(n)
  PROVE  Kept'
<1>. USE DEF Inv, Kept
<1>1. /\ call.at = "recover" /\ call.name = n /\ call.seen # "unread" /\ UNCHANGED <<disk, proc>>
      /\ task' = [task EXCEPT ![n] = [there |-> TRUE,
                                      deleting |-> disk[n].json = "deleting",
                                      state |-> Inspected(n, call.seen)]]
      /\ call' = Recovering(call.look \ {n})
  BY DEF RecoverTask
<1>2. call.look \in SUBSET Names /\ n \in call.look
  BY <1>1 DEF TypeOK, Calls, LooksInTurn
<1>3. /\ call'.at = (IF call.look = {n} THEN "free" ELSE "recover") /\ call'.seen = "unread"
      /\ call'.look = call.look \ {n} /\ call'.doomed = {} /\ call'.drop = {} /\ call'.add = {}
  BY <1>1, <1>2 DEF Recovering, Idle
<1>4. /\ task'[n].there /\ (task'[n].deleting <=> disk[n].json = "deleting")
      /\ task'[n].state = Inspected(n, call.seen)
      /\ \A m \in Names \ {n} : task'[m] = task[m]
  BY <1>1 DEF TypeOK
<1>5. There' = There \cup {n} /\ Stored' = Stored /\ Stored = There \cup call.look
  BY <1>1, <1>4 DEF There, Stored, Mirrored
<1>6. PidsStarted'
  BY <1>1, <1>3 DEF PidsStarted
<1>7. LooksInTurn' /\ ExitStays'
  BY <1>3 DEF LooksInTurn, ExitStays
<1>8. Durable'
  <2>1. DeletionDurable'
    BY <1>1, <1>4 DEF Durable, DeletionDurable, There
  <2>2. call.doomed \subseteq Names
    BY DEF TypeOK, Calls
  <2>3. \A m \in call'.doomed : task'[m].there /\ task'[m].deleting
    BY <2>2, <1>3 DEF Durable
  <2>. QED
    BY <2>1, <2>3 DEF Durable
<1>9. Mirrored' /\ CreationAlone'
  BY <1>2, <1>3, <1>5 DEF Mirrored, CreationAlone, Creation
<1>10. \A m \in Names : Candidate(m)' => Candidate(m)
  BY <1>1, <1>3 DEF Candidate, Live, NoExit, MayRun
<1>11. Active(n)' <=> Candidate(n)
  <2>1. ~task'[n].deleting <=> Live(n)
    BY <1>2, <1>4, <1>5 DEF Live, Stored, TypeOK, Dirs
  <2>. QED
    BY <1>1, <1>4, <2>1, LookFinds DEF Active, ActiveTask, Candidate
<1>12. \A m \in Names \ {n} : Active(m)' <=> Active(m)
  BY <1>4 DEF Active
<1>13. AtMostOne'
  BY <1>10, <1>11, <1>12 DEF AtMostOne
<1>14. Accounted'
  BY <1>1, <1>3, <1>10, <1>11, <1>12 DEF Accounted, Creation
<1>. QED
  BY <1>6, <1>7, <1>8, <1>9, <1>13, <1>14

-----------------------------------------------------------------------------
(* Crashes.  A removal cut short concerns a task whose deletion is on disk. *)

LEMMA CrashKeeps ==
  ASSUME Inv, Crash
  PROVE  Kept'
<1>. USE DEF Inv, Kept
<1>1. /\ task' = [n \in Names |-> NoTask]
      /\ call'.at = "down" /\ call'.seen = "unread" /\ call'.look = {} /\ call'.doomed = {}
      /\ call'.drop = {} /\ call'.add = {}
  BY DEF Crash, Idle
<1>2. \A n \in Names : ~task'[n].there
  BY <1>1 DEF NoTask
<1>3. There' = {}
  BY <1>2 DEF There
<1>4. ASSUME NEW n \in Names
      PROVE  /\ disk'[n].pid \in {disk[n].pid, 0}
             /\ disk'[n] # disk[n] => disk'[n].json # "live"
  <2>1. CASE UNCHANGED disk
    BY <2>1
  <2>2. CASE \E m \in call.doomed : \E dir \in Torn(disk[m]) : disk' = [disk EXCEPT ![m] = dir]
    <3>. PICK m \in call.doomed : \E dir \in Torn(disk[m]) : disk' = [disk EXCEPT ![m] = dir]
      BY <2>2
    <3>1. PICK dir \in Torn(disk[m]) : disk' = [disk EXCEPT ![m] = dir]
      OBVIOUS
    <3>2. m \in Names /\ m \in There /\ disk[m].json = "deleting"
      BY DEF Durable, DeletionDurable, There, TypeOK, Calls
    <3>3. dir.pid \in {disk[m].pid, 0} /\ dir.json \in {disk[m].json, "none"}
      BY DEF Torn
    <3>. QED
      BY <3>1, <3>2, <3>3 DEF TypeOK
  <2>. QED
    BY <2>1, <2>2 DEF Crash
<1>5. \A i \in Procs :
       /\ proc[i].shim # "unused" => proc'[i].shim # "unused"
       /\ Alive(proc'[i]) => Alive(proc[i]) /\ proc'[i] = proc[i]
  <2>1. \A q : /\ q.shim # "unused" => Killed(q).shim = "gone"
               /\ q.shim = "unused" => Killed(q) = q
    BY DEF Killed, Gone, NoProcess
  <2>. QED
    BY <2>1 DEF Crash, Alive
<1>6. PidsStarted'
  BY <1>1, <1>4, <1>5, PidIsProc DEF PidsStarted
<1>7. LooksInTurn' /\ ExitStays' /\ Durable' /\ Mirrored'
  BY <1>1, <1>3 DEF LooksInTurn, ExitStays, Durable, DeletionDurable, Mirrored, Creation
<1>8. CreationAlone'
  BY <1>1, <1>3 DEF CreationAlone, Creation
<1>9. ASSUME NEW n \in Names
      PROVE  (Candidate(n)' => Candidate(n)) /\ ~Active(n)'
  <2>1. ~Active(n)'
    BY <1>2 DEF Active, ActiveTask
  <2>2. Live(n)' => disk'[n] = disk[n]
    BY <1>4 DEF Live
  <2>3. disk'[n] = disk[n] /\ MayRun(n)' => MayRun(n)
    BY <1>5, PidIsProc DEF MayRun
  <2>4. disk'[n] = disk[n] /\ NoExit(n)' => NoExit(n)
    BY <1>1 DEF NoExit
  <2>. QED
    BY <2>1, <2>2, <2>3, <2>4 DEF Candidate, Live
<1>10. AtMostOne'
  BY <1>9, Shrinks
<1>11. Accounted'
  BY <1>1 DEF Accounted
<1>. QED
  BY <1>6, <1>7, <1>8, <1>10, <1>11

-----------------------------------------------------------------------------
(* The theorems.                                                           *)

LEMMA InvInit == Init => Inv
<1>. SUFFICES ASSUME Init PROVE Inv
  OBVIOUS
<1>1. TypeOK
  BY TypeInit
<1>2. There = {} /\ Stored = {}
  BY DEF Init, There, Stored, NoTask, NoDir
<1>3. \A n \in Names : ~Candidate(n) /\ ~Active(n)
  BY DEF Init, Candidate, Live, Active, ActiveTask, NoTask, NoDir
<1>4. /\ call.at = "free" /\ call.seen = "unread" /\ call.look = {} /\ call.doomed = {}
      /\ call.drop = {} /\ call.add = {}
  BY DEF Init, Idle
<1>5. PidsStarted
  BY <1>4 DEF PidsStarted, Init, NoDir
<1>6. LooksInTurn /\ ExitStays /\ Durable /\ Mirrored /\ CreationAlone
  BY <1>2, <1>4 DEF LooksInTurn, ExitStays, Durable, DeletionDurable, Mirrored, CreationAlone, Creation
<1>7. AtMostOne /\ Accounted
  BY <1>3 DEF AtMostOne, Accounted
<1>. QED
  BY <1>1, <1>5, <1>6, <1>7 DEF Inv, Kept

LEMMA InvNext == "storeWrite" \notin Faults /\ Inv /\ [Next]_vars => Inv'
<1>. SUFFICES ASSUME "storeWrite" \notin Faults, Inv, [Next]_vars PROVE Kept'
  BY TypeNext DEF Inv
<1>1. CASE RequestStep
  <2>1. PICK drop \in SUBSET Names, add \in SUBSET Names :
          Request(drop, add) /\ drop \subseteq There /\ add \cap There = {}
    <3>1. ASSUME NEW desired \in SUBSET Names, Sync(desired)
          PROVE  /\ Request(There \ desired, desired \ There)
                 /\ There \ desired \in SUBSET Names /\ desired \ There \in SUBSET Names
      BY <3>1 DEF Sync, There
    <3>2. ASSUME NEW n \in Names, Create(n)
          PROVE  n \notin There /\ Request({}, {n})
      BY <3>2 DEF Create
    <3>3. ASSUME NEW n \in Names, Delete(n)
          PROVE  n \in There /\ Request({n}, {})
      BY <3>3 DEF Delete
    <3>4. CASE \E desired \in SUBSET Names : Sync(desired)
      BY <3>1, <3>4
    <3>5. CASE \E n \in Names : Create(n)
      <4>. PICK n \in Names : Create(n)
        BY <3>5
      <4>1. Request({}, {n}) /\ {n} \cap There = {} /\ {n} \in SUBSET Names
        BY <3>2
      <4>. QED
        BY <4>1
    <3>6. CASE \E n \in Names : Delete(n)
      <4>. PICK n \in Names : Delete(n)
        BY <3>6
      <4>1. Request({n}, {}) /\ {n} \subseteq There /\ {n} \in SUBSET Names
        BY <3>3
      <4>. QED
        BY <4>1
    <3>. QED
      BY <1>1, <3>4, <3>5, <3>6 DEF RequestStep
  <2>. QED
    BY <2>1, RequestKeeps
<1>2. CASE HolderStep
  <2>1. PICK n \in Names :
          \/ SoftDelete(n)
          \/ MakeDir(n) \/ CreateRefused(n) \/ SaveTask(n)
          \/ StartProcess(n) \/ StartFails(n) \/ WritePid(n)
          \/ ReadExit(n) \/ FinishCreate(n) \/ RecoverTask(n) \/ Examine(n) \/ Finalize(n)
    BY <1>2 DEF HolderStep, WritePidFails, FinalizeFails, WriteMayFail
  <2>. QED
    BY <2>1, SoftDeleteKeeps, MakeDirKeeps, RefusedKeeps, SaveTaskKeeps, StartProcessKeeps,
       StartFailsKeeps, WritePidKeeps, ReadExitKeeps, FinishCreateKeeps, RecoverTaskKeeps,
       ExamineKeeps, FinalizeKeeps
<1>3. CASE StopStep
  BY <1>3, StopIsWorldStep, WorldKeeps
<1>4. CASE ProcessStep
  BY <1>4, ProcessIsWorldStep, WorldKeeps
<1>5. CASE UNCHANGED vars
  BY <1>5, WorldKeeps DEF vars, memory, WorldStep
<1>. QED
  BY <1>1, <1>2, <1>3, <1>4, <1>5, ReconcileKeeps, CrashKeeps, RestartKeeps DEF Next

\* When writes to the disk succeed, Inv always holds.
THEOREM Invariance ==
  ASSUME "storeWrite" \notin Faults
  PROVE  Spec => []Inv
<1>1. Inv /\ [Next]_vars => Inv'
  BY InvNext
<1>. QED
  BY <1>1, InvInit, PTL DEF Spec

\* When writes to the disk succeed, at most one task is active, whatever crashes
\* and restarts come between (OneActive; createTaskLocked, recoverTasks).
THEOREM OneTaskActive ==
  ASSUME "storeWrite" \notin Faults
  PROVE  Spec => []OneActive
<1>1. Inv => OneActive
  <2>. SUFFICES ASSUME Inv PROVE Cardinality(ActiveTasks) <= 1
    BY DEF OneActive, MaxConcurrentTasks
  <2>1. \A n, m \in ActiveTasks : n = m
    BY DEF Inv, Kept, AtMostOne, Active, ActiveTasks
  <2>2. CASE ActiveTasks = {}
    BY <2>2, FS_EmptySet
  <2>3. CASE ActiveTasks # {}
    <3>1. PICK n : ActiveTasks = {n}
      BY <2>1, <2>3
    <3>. QED
      BY <3>1, FS_Singleton
  <2>. QED
    BY <2>2, <2>3
<1>. QED
  BY <1>1, Invariance, PTL

\* When writes to the disk succeed, a restart forgets no deletion
\* (DeletionDurable; softDeleteLocked).
THEOREM DeletionsOnDisk ==
  ASSUME "storeWrite" \notin Faults
  PROVE  Spec => []DeletionDurable
<1>1. Inv => DeletionDurable
  BY DEF Inv, Kept, Durable
<1>. QED
  BY <1>1, Invariance, PTL

\* When writes to the disk succeed, the disk holds the tasks in memory whenever
\* the lock is free, and no others (StoreMirrored; Create, reconcileTasks).
THEOREM MemoryOnDisk ==
  ASSUME "storeWrite" \notin Faults
  PROVE  Spec => []StoreMirrored
<1>1. Inv => StoreMirrored
  BY DEF Inv, Kept, Mirrored, StoreMirrored, Creation
<1>. QED
  BY <1>1, Invariance, PTL

-----------------------------------------------------------------------------
(* No process is lost.  A shell that waits has written no exit code, so its *)
(* task is neither found ended nor removed before the pid file names it.   *)

Waits(i) == proc[i].shim = "waiting"

\* What is known of a task whose shell waits.
Awaited(i) ==
  /\ proc[i].task \in Names
  /\ disk[proc[i].task].exit = "none"
  /\ proc[i].task \notin call.doomed
  /\ call.seen \notin {"unread", "none"} => call.name # proc[i].task
  /\ disk[proc[i].task].pid = i \/ (call.at = "started" /\ call.new = i)

\* The thread of an executor that does not crash.
Uncrashed ==
  /\ call.at \notin {"down", "recover"}
  /\ call.seen # "unread" => call.at \in {"known", "reconcile"}
  /\ call.at # "reconcile" => call.doomed = {}

\* Until its pid is written, the directory of a new task has no pid and, until
\* its process is started, no exit code.
Fresh ==
  /\ call.at \in {"made", "saved", "started"} =>
       /\ call.name \in Names
       /\ disk[call.name].made /\ disk[call.name].pid = 0
  /\ call.at \in {"made", "saved"} => disk[call.name].exit = "none"
  /\ call.at = "started" =>
       call.new \in Procs /\ (Waits(call.new) => proc[call.new].task = call.name)

PidsInside == \A n \in Names : ~disk[n].made => disk[n].pid = 0
AllAwaited == \A i \in Procs : Waits(i) => Awaited(i)

NoneLost == Uncrashed /\ Fresh /\ PidsInside /\ AllAwaited
TrackInv == TypeOK /\ NoneLost

LEMMA FreshUnawaited ==
  ASSUME TrackInv, call.at \in {"made", "saved"}, NEW i \in Procs, Waits(i)
  PROVE  proc[i].task # call.name
BY DEF TrackInv, NoneLost, Fresh, AllAwaited, Awaited, Procs

\* Only shells that waited wait, for the same tasks.
NoneBegins ==
  \A i \in Procs : Waits(i)' => Waits(i) /\ proc'[i].task = proc[i].task

LEMMA ProcessesOnly ==
  ASSUME TrackInv, UNCHANGED <<call, disk>>, NoneBegins
  PROVE  NoneLost'
<1>. USE DEF TrackInv, NoneLost
<1>1. Uncrashed' /\ PidsInside'
  BY DEF Uncrashed, PidsInside
<1>2. Fresh'
  BY DEF Fresh, NoneBegins
<1>3. AllAwaited'
  BY DEF AllAwaited, Awaited, NoneBegins
<1>. QED
  BY <1>1, <1>2, <1>3

LEMMA StopTracked ==
  ASSUME TrackInv, StopStep
  PROVE  NoneLost'
<1>1. PICK g \in stops : StopSignals(g) \/ StopEscalates(g) \/ StopEnds(g)
  BY DEF StopStep
<1>2. UNCHANGED <<call, disk>>
  BY <1>1 DEF StopSignals, StopEscalates, StopEnds, memory
<1>3. \/ UNCHANGED proc
      \/ \E i : proc' = [proc EXCEPT ![i] = Interrupted(@)]
      \/ \E i : proc' = [proc EXCEPT ![i] = Killed(@)]
  BY <1>1 DEF StopSignals, StopEscalates, StopEnds
<1>4. \A q \in Processes :
        /\ Gone(q).shim = "gone"
        /\ Interrupted(q).shim = "waiting" => q.shim = "waiting" /\ Interrupted(q).task = q.task
        /\ Killed(q).shim # "waiting"
  <2>. TAKE q \in Processes
  <2>1. \A r : Gone(r).shim = "gone"
    BY DEF Gone, NoProcess
  <2>2. Interrupted(q).shim = "waiting" => q.shim = "waiting" /\ Interrupted(q).task = q.task
    <3>1. CASE Alive(q)
      BY <3>1 DEF Interrupted, Processes
    <3>2. CASE ~Alive(q)
      BY <2>1, <3>2 DEF Interrupted
    <3>. QED
      BY <3>1, <3>2
  <2>3. Killed(q).shim # "waiting"
    BY <2>1 DEF Killed
  <2>. QED
    BY <2>1, <2>2, <2>3
<1>5. NoneBegins
  BY <1>3, <1>4 DEF NoneBegins, Waits, TrackInv, TypeOK
<1>. QED
  BY <1>2, <1>5, ProcessesOnly

LEMMA ProcessTracked ==
  ASSUME TrackInv, ProcessStep
  PROVE  NoneLost'
<1>. USE DEF TrackInv, NoneLost
<1>1. PICK i \in Procs : ChildEnds(i) \/ Expire(i) \/ OpenExit(i) \/ WriteExit(i)
  BY DEF ProcessStep
<1>2. TypeOK /\ proc[i] \in Processes
  BY DEF TypeOK
<1>3. \A r : Gone(r).shim = "gone"
  BY DEF Gone, NoProcess
<1>4. CASE ChildEnds(i)
  <2>1. PICK code \in Codes :
          LET p == [proc[i] EXCEPT !.child = "done", !.code = code]
          IN proc' = [proc EXCEPT ![i] = IF Alive(p) THEN p ELSE Gone(p)]
    BY <1>4 DEF ChildEnds
  <2>. DEFINE p == [proc[i] EXCEPT !.child = "done", !.code = code]
  <2>2. p.shim = proc[i].shim /\ p.task = proc[i].task
    BY <1>2 DEF Processes
  <2>3. NoneBegins
    BY <1>2, <1>3, <2>1, <2>2 DEF TypeOK, NoneBegins, Waits
  <2>. QED
    BY <1>4, <2>3, ProcessesOnly DEF ChildEnds, memory
<1>5. CASE Expire(i)
  <2>1. NoneBegins
    BY <1>2, <1>5 DEF Expire, TypeOK, Processes, NoneBegins, Waits
  <2>. QED
    BY <1>5, <2>1, ProcessesOnly DEF Expire, memory
<1>6. ASSUME OpenExit(i) \/ WriteExit(i)
      PROVE  NoneLost'
  <2>a. PICK q : proc' = [proc EXCEPT ![i] = q] /\ q.shim # "waiting" /\ UNCHANGED call
    <3>1. CASE OpenExit(i)
      <4>1. PICK code \in ExitCodes(proc[i]) :
              proc' = [proc EXCEPT ![i] = [proc[i] EXCEPT !.shim = "writing", !.code = code]]
        BY <3>1 DEF OpenExit
      <4>2. [proc[i] EXCEPT !.shim = "writing", !.code = code].shim = "writing"
        BY <1>2 DEF Processes
      <4>. QED
        BY <3>1, <4>1, <4>2 DEF OpenExit, memory
    <3>2. CASE WriteExit(i)
      BY <3>2, <1>3 DEF WriteExit, memory
    <3>. QED
      BY <1>6, <3>1, <3>2
  <2>b. PICK exit :
          /\ disk' = [disk EXCEPT ![proc[i].task].exit = exit]
          /\ Waits(i) \/ (disk[proc[i].task].exit = "none" => exit = "none")
    <3>1. CASE OpenExit(i)
      BY <3>1 DEF OpenExit, Waits
    <3>2. CASE WriteExit(i)
      BY <3>2 DEF WriteExit
    <3>. QED
      BY <1>6, <3>1, <3>2
  <2>1. UNCHANGED call /\ ~Waits(i)' /\ \A j \in Procs \ {i} : proc'[j] = proc[j]
    BY <2>a DEF Waits, TypeOK
  <2>2. \A n \in Names : disk'[n].made = disk[n].made /\ disk'[n].pid = disk[n].pid
    BY <2>b DEF TypeOK, Dirs
  <2>3. ASSUME NEW n \in Names, disk[n].exit = "none", disk'[n].exit # "none"
        PROVE  Waits(i) /\ proc[i].task = n
    <3>1. CASE proc[i].task = n
      BY <2>3, <2>b, <3>1 DEF TypeOK, Dirs
    <3>2. CASE proc[i].task # n
      BY <2>3, <2>b, <3>2 DEF TypeOK
    <3>. QED
      BY <3>1, <3>2
  <2>4. Uncrashed' /\ PidsInside'
    BY <2>1, <2>2 DEF Uncrashed, PidsInside
  <2>5. Fresh'
    BY <2>1, <2>2, <2>3, FreshUnawaited DEF Fresh, Waits
  <2>6. \A j \in Procs \ {i} : Waits(i) /\ Waits(j) => proc[j].task # proc[i].task
    BY DEF AllAwaited, Awaited, Fresh, Procs
  <2>7. AllAwaited'
    BY <2>1, <2>2, <2>3, <2>6 DEF AllAwaited, Awaited, Waits
  <2>. QED
    BY <2>4, <2>5, <2>7
<1>. QED
  BY <1>1, <1>4, <1>5, <1>6

LEMMA CallOnly ==
  ASSUME TrackInv, UNCHANGED <<disk, proc>>, call.at # "started",
         call'.at \in {"free", "sync", "reconcile"}, call'.seen = "unread", call'.doomed = {}
  PROVE  NoneLost'
BY DEF TrackInv, NoneLost, Uncrashed, Fresh, PidsInside, AllAwaited, Awaited, Waits

\* A creation that fails may remove the directory it made.
LEMMA GivesUpTracked ==
  ASSUME TrackInv, NEW n \in Names, GivesUp(n), UNCHANGED proc,
         call.at \notin {"started", "known"},
         \/ UNCHANGED disk
         \/ call.at \in {"made", "saved"} /\ call.name = n /\ disk' = [disk EXCEPT ![n] = NoDir]
  PROVE  NoneLost'
<1>. USE DEF TrackInv, NoneLost
<1>1. call'.at \in {"free", "sync"} /\ call'.seen = "unread" /\ call'.doomed = {}
  BY GivesUpRests
<1>2. CASE UNCHANGED disk
  BY <1>1, <1>2, CallOnly
<1>3. CASE call.at \in {"made", "saved"} /\ call.name = n /\ disk' = [disk EXCEPT ![n] = NoDir]
  <2>1. disk'[n].pid = 0 /\ \A m \in Names \ {n} : disk'[m] = disk[m]
    BY <1>3 DEF TypeOK, NoDir
  <2>2. Uncrashed' /\ Fresh' /\ PidsInside'
    BY <1>1, <2>1 DEF Uncrashed, Fresh, PidsInside
  <2>3. AllAwaited'
    BY <1>1, <1>3, <2>1, FreshUnawaited DEF AllAwaited, Awaited, Waits
  <2>. QED
    BY <2>2, <2>3
<1>. QED
  BY <1>2, <1>3

LEMMA HolderTracked ==
  ASSUME TrackInv, TypeOK', HolderStep
  PROVE  NoneLost'
<1>. USE DEF TrackInv, NoneLost
<1>1. ASSUME NEW n \in Names, SoftDelete(n)
      PROVE  NoneLost'
  <2>1. /\ call.at = "sync" /\ UNCHANGED proc /\ call'.at \in {"free", "sync"}
        /\ call'.seen = "unread" /\ call'.doomed = {}
    BY <1>1 DEF SoftDelete, Continue, Idle
  <2>2. \A m \in Names : /\ disk'[m].made = disk[m].made /\ disk'[m].pid = disk[m].pid
                         /\ disk'[m].exit = disk[m].exit
    BY <1>1 DEF SoftDelete, SoftDeleteSaves, Marked, TypeOK, Dirs
  <2>3. Uncrashed' /\ Fresh' /\ PidsInside'
    BY <2>1, <2>2 DEF Uncrashed, Fresh, PidsInside
  <2>4. AllAwaited'
    BY <2>1, <2>2 DEF AllAwaited, Awaited, Waits
  <2>. QED
    BY <2>3, <2>4
<1>2. ASSUME NEW n \in Names, MakeDir(n)
      PROVE  NoneLost'
  <2>1. /\ call.at = "sync" /\ UNCHANGED proc /\ call'.at = "made" /\ call'.name = n
        /\ call'.seen = call.seen /\ call'.doomed = call.doomed /\ ~disk[n].made
    BY <1>2 DEF MakeDir, TypeOK, Calls
  <2>2. /\ disk'[n].made /\ disk'[n].pid = 0 /\ disk'[n].exit = "none"
        /\ \A m \in Names \ {n} : disk'[m] = disk[m]
    BY <1>2 DEF MakeDir, TypeOK, NoDir
  <2>3. Uncrashed' /\ Fresh' /\ PidsInside'
    BY <2>1, <2>2 DEF Uncrashed, Fresh, PidsInside
  <2>4. \A i \in Procs : Waits(i) => proc[i].task # n
    BY <2>1 DEF PidsInside, AllAwaited, Awaited, Procs
  <2>5. AllAwaited'
    BY <2>1, <2>2, <2>4 DEF AllAwaited, Awaited, Waits, Uncrashed
  <2>. QED
    BY <2>3, <2>5
<1>3. ASSUME NEW n \in Names, CreateRefused(n)
      PROVE  NoneLost'
  BY <1>3, GivesUpTracked DEF CreateRefused
<1>4. ASSUME NEW n \in Names, SaveTask(n)
      PROVE  NoneLost'
  <2>1. CASE GivesUp(n) /\ disk' \in {[disk EXCEPT ![n] = NoDir], disk}
    BY <1>4, <2>1, GivesUpTracked DEF SaveTask, Creating
  <2>2. CASE disk' = [disk EXCEPT ![n].json = "live"] /\ call' = [call EXCEPT !.at = "saved"]
    <3>1. /\ call.at = "made" /\ call.name = n /\ UNCHANGED proc /\ call'.at = "saved"
          /\ call'.name = n /\ call'.seen = call.seen /\ call'.doomed = call.doomed
      BY <1>4, <2>2 DEF SaveTask, Creating, TypeOK, Calls
    <3>2. \A m \in Names : /\ disk'[m].made = disk[m].made /\ disk'[m].pid = disk[m].pid
                           /\ disk'[m].exit = disk[m].exit
      BY <2>2 DEF TypeOK, Dirs
    <3>3. Uncrashed' /\ Fresh' /\ PidsInside'
      BY <3>1, <3>2 DEF Uncrashed, Fresh, PidsInside
    <3>4. AllAwaited'
      BY <3>1, <3>2 DEF AllAwaited, Awaited, Waits
    <3>. QED
      BY <3>3, <3>4
  <2>. QED
    BY <1>4, <2>1, <2>2 DEF SaveTask
<1>5. ASSUME NEW n \in Names, StartProcess(n)
      PROVE  NoneLost'
  <2>1. PICK i \in Unstarted :
          /\ proc' = [proc EXCEPT ![i] = [NoProcess EXCEPT !.task = n, !.shim = "waiting",
                                                          !.child = "running"]]
          /\ call' = [call EXCEPT !.at = "started", !.new = i]
    BY <1>5 DEF StartProcess
  <2>2. /\ call.at = "saved" /\ call.name = n /\ UNCHANGED disk /\ call'.at = "started"
        /\ call'.new = i /\ call'.name = n /\ call'.seen = call.seen
        /\ call'.doomed = call.doomed
    BY <1>5, <2>1 DEF StartProcess, Creating, TypeOK, Calls
  <2>3. i \in Procs /\ proc'[i].task = n /\ \A j \in Procs \ {i} : proc'[j] = proc[j]
    BY <2>1 DEF Unstarted, TypeOK, NoProcess
  <2>4. call.seen = "unread" /\ call.doomed = {}
    BY <2>2 DEF Uncrashed
  <2>5. Uncrashed' /\ Fresh' /\ PidsInside'
    BY <2>2, <2>3, <2>4 DEF Uncrashed, Fresh, PidsInside
  <2>6. AllAwaited'
    BY <2>2, <2>3, <2>4 DEF AllAwaited, Awaited, Waits, Fresh
  <2>. QED
    BY <2>5, <2>6
<1>6. ASSUME NEW n \in Names, StartFails(n)
      PROVE  NoneLost'
  BY <1>6, GivesUpTracked DEF StartFails, Creating
<1>7. ASSUME NEW n \in Names, WritePid(n)
      PROVE  NoneLost'
  <2>1. /\ call.at = "started" /\ call.name = n /\ UNCHANGED proc /\ call'.at = "known"
        /\ call'.name = n /\ call'.seen = call.seen /\ call'.doomed = call.doomed
    BY <1>7 DEF WritePid, Creating, TypeOK, Calls
  <2>2. /\ disk'[n].made = disk[n].made /\ disk'[n].pid = call.new
        /\ disk'[n].exit = disk[n].exit
        /\ \A m \in Names \ {n} : disk'[m] = disk[m]
    BY <1>7 DEF WritePid, TypeOK, Dirs
  <2>3. Uncrashed' /\ Fresh' /\ PidsInside'
    BY <2>1, <2>2 DEF Uncrashed, Fresh, PidsInside
  <2>4. ASSUME NEW i \in Procs, Waits(i)
        PROVE  Awaited(i)'
    <3>1. i = call.new <=> proc[i].task = n
      BY <2>1, <2>4 DEF AllAwaited, Awaited, Fresh, Procs
    <3>. QED
      BY <2>1, <2>2, <2>4, <3>1 DEF AllAwaited, Awaited, Uncrashed
  <2>. QED
    BY <2>1, <2>3, <2>4 DEF AllAwaited, Waits
<1>8. ASSUME NEW n \in Names, WritePidFails(n)
      PROVE  NoneLost'
  <2>1. /\ call.at = "started" /\ call.name = n /\ call.new \in Procs
        /\ call'.at \in {"free", "sync"} /\ call'.seen = "unread" /\ call'.doomed = {}
    BY <1>8, GivesUpRests DEF WritePidFails, Creating, Fresh
  <2>2. /\ proc'[call.new].shim # "waiting"
        /\ \A i \in Procs \ {call.new} : proc'[i] = proc[i]
    BY <1>8, <2>1 DEF WritePidFails, Gone, NoProcess, TypeOK
  <2>3. /\ disk[n].pid = 0 /\ disk'[n].pid = 0
        /\ \A m \in Names \ {n} : disk'[m] = disk[m]
    BY <1>8, <2>1 DEF WritePidFails, NoDir, TypeOK, Fresh
  <2>4. Uncrashed' /\ Fresh' /\ PidsInside'
    BY <2>1, <2>3 DEF Uncrashed, Fresh, PidsInside
  <2>5. \A i \in Procs : Waits(i)' => i # call.new /\ Waits(i) /\ proc'[i] = proc[i]
    BY <2>2 DEF Waits
  <2>6. \A i \in Procs : Waits(i)' => proc[i].task # n
    BY <2>3, <2>5 DEF AllAwaited, Awaited, Procs
  <2>7. AllAwaited'
    BY <2>1, <2>3, <2>5, <2>6 DEF AllAwaited, Awaited
  <2>. QED
    BY <2>4, <2>7
<1>9. ASSUME NEW n \in Names, ReadExit(n)
      PROVE  NoneLost'
  <2>1. /\ call.at \in {"known", "reconcile"} /\ UNCHANGED <<disk, proc>>
        /\ call'.at = call.at /\ call'.name = n /\ call'.seen = disk[n].exit
        /\ call'.doomed = call.doomed
    BY <1>9 DEF ReadExit, InspectsNext, Uncrashed, TypeOK, Calls
  <2>2. Uncrashed' /\ Fresh' /\ PidsInside'
    BY <2>1 DEF Uncrashed, Fresh, PidsInside
  <2>3. AllAwaited'
    BY <2>1 DEF AllAwaited, Awaited, Waits
  <2>. QED
    BY <2>2, <2>3
<1>10. ASSUME NEW n \in Names, FinishCreate(n)
       PROVE  NoneLost'
  <2>1. call.at = "known" /\ GivesUp(n) /\ UNCHANGED <<disk, proc>>
    BY <1>10 DEF FinishCreate, Creating
  <2>2. call'.at \in {"free", "sync"} /\ call'.seen = "unread" /\ call'.doomed = {}
    BY <2>1, GivesUpRests
  <2>. QED
    BY <2>1, <2>2, CallOnly
<1>11. ASSUME NEW n \in Names, RecoverTask(n)
       PROVE  NoneLost'
  BY <1>11 DEF RecoverTask, Uncrashed
<1>12. ASSUME NEW n \in Names, Examine(n)
       PROVE  NoneLost'
  <2>. DEFINE state == Inspected(n, call.seen)
              doomed == IF MustRemove(n, state) THEN call.doomed \cup {n} ELSE call.doomed
  <2>1. /\ call.at = "reconcile" /\ call.name = n /\ call.seen # "unread" /\ UNCHANGED proc
        /\ call' = Looked(call.look \ {n}, doomed)
    BY <1>12 DEF Examine
  <2>2. call.look \in SUBSET Names /\ doomed \in SUBSET Names
    BY DEF TypeOK, Calls
  <2>3. call'.at \in {"free", "reconcile"} /\ call'.seen = "unread" /\ call'.doomed = doomed
    <3>. HIDE DEF doomed
    <3>. QED
      BY <2>1, <2>2, Rests
  <2>4. \A m \in Names : /\ disk'[m].made = disk[m].made /\ disk'[m].pid = disk[m].pid
                         /\ disk'[m].exit = disk[m].exit
    BY <1>12 DEF Examine, TypeOK, Dirs
  <2>5. ASSUME NEW i \in Procs, Waits(i), proc[i].task = n
        PROVE  ~Terminal(state)
    <3>1. disk[n].pid = i /\ call.seen = "none" /\ i # 0 /\ Alive(proc[i])
      BY <2>1, <2>5 DEF AllAwaited, Awaited, Waits, Alive, Procs
    <3>. QED
      BY <3>1 DEF Inspected, StateOfProcess, Terminal
  <2>6. \A i \in Procs : Waits(i) => proc[i].task \notin doomed
    BY <2>5 DEF AllAwaited, Awaited, MustRemove, Ended
  <2>7. call'.at = "free" => doomed = {}
    BY <2>1, <2>2 DEF Looked, Idle
  <2>. HIDE DEF doomed, state
  <2>8. Uncrashed' /\ Fresh' /\ PidsInside'
    BY <2>1, <2>3, <2>4, <2>7 DEF Uncrashed, Fresh, PidsInside
  <2>9. AllAwaited'
    BY <2>1, <2>3, <2>4, <2>6 DEF AllAwaited, Awaited, Waits
  <2>. QED
    BY <2>8, <2>9
<1>13. ASSUME NEW n \in Names, Finalizing(n),
              \/ UNCHANGED disk
              \/ disk' = [disk EXCEPT ![n] = NoDir]
       PROVE  NoneLost'
  <2>1. /\ call.at = "reconcile" /\ n \in call.doomed /\ UNCHANGED proc
        /\ call' = Looked({}, call.doomed \ {n}) /\ call.doomed \in SUBSET Names
    BY <1>13 DEF Finalizing, TypeOK, Calls
  <2>2. /\ call'.at \in {"free", "reconcile"} /\ call'.seen = "unread"
        /\ call'.doomed = call.doomed \ {n}
    BY <2>1, Rests
  <2>3. call'.at = "free" => call'.doomed = {}
    BY <2>1 DEF Looked, Idle
  <2>4. /\ disk'[n] = disk[n] \/ disk'[n].pid = 0
        /\ \A m \in Names \ {n} : disk'[m] = disk[m]
    BY <1>13 DEF TypeOK, NoDir
  <2>5. Uncrashed' /\ Fresh' /\ PidsInside'
    BY <2>2, <2>3, <2>4 DEF Uncrashed, Fresh, PidsInside
  <2>6. \A i \in Procs : Waits(i) => Awaited(i) /\ proc[i].task # n
    BY <2>1 DEF AllAwaited, Awaited
  <2>7. AllAwaited'
    <3>. SUFFICES ASSUME NEW i \in Procs, Waits(i) PROVE Awaited(i)'
      BY <2>1 DEF AllAwaited, Waits
    <3>1. disk'[proc[i].task] = disk[proc[i].task] /\ UNCHANGED proc
      BY <2>1, <2>4, <2>6 DEF Awaited
    <3>. QED
      BY <2>1, <2>2, <2>6, <3>1 DEF Awaited
  <2>. QED
    BY <2>5, <2>7
<1>14. ASSUME NEW n \in Names, Finalize(n) \/ FinalizeFails(n)
       PROVE  NoneLost'
  BY <1>13, <1>14 DEF Finalize, FinalizeFails
<1>. QED
  BY <1>1, <1>2, <1>3, <1>4, <1>5, <1>6, <1>7, <1>8, <1>9, <1>10, <1>11, <1>12, <1>14
     DEF HolderStep

LEMMA TrackInit == Init => TrackInv
BY TypeInit DEF TrackInv, NoneLost, Init, Idle, NoDir, NoProcess, Waits,
   Uncrashed, Fresh, PidsInside, AllAwaited

LEMMA TrackNext == "crash" \notin Faults /\ TrackInv /\ [Next]_vars => TrackInv'
<1>. SUFFICES ASSUME "crash" \notin Faults, TrackInv, [Next]_vars PROVE NoneLost'
  BY TypeNext DEF TrackInv
<1>1. TypeOK'
  BY TypeNext DEF TrackInv
<1>2. ASSUME NEW drop, NEW add, Request(drop, add)
      PROVE  NoneLost'
  <2>1. /\ call.at = "free" /\ UNCHANGED <<disk, proc>> /\ call'.at \in {"free", "sync"}
        /\ call'.seen = "unread" /\ call'.doomed = {}
    BY <1>2 DEF Request, Continue, Idle
  <2>. QED
    BY <2>1, CallOnly
<1>3. CASE RequestStep
  BY <1>2, <1>3 DEF RequestStep, Sync, Create, Delete
<1>4. CASE Reconcile
  <2>1. /\ call.at = "free" /\ UNCHANGED <<disk, proc>> /\ call'.at = "reconcile"
        /\ call'.seen = "unread" /\ call'.doomed = {}
    BY <1>4 DEF Reconcile, Idle
  <2>. QED
    BY <2>1, CallOnly
<1>5. CASE Restart
  BY <1>5 DEF Restart, TrackInv, NoneLost, Uncrashed
<1>6. CASE UNCHANGED vars
  BY <1>6, ProcessesOnly DEF vars, memory, NoneBegins, Waits
<1>. QED
  BY <1>1, <1>3, <1>4, <1>5, <1>6, HolderTracked, StopTracked, ProcessTracked DEF Next, Crash

\* While the executor does not crash, a shell that waits for its command belongs
\* to a task whose directory names it, whichever writes to the disk fail and
\* however late a stop comes (Tracked; Start, finalizeDelete).
THEOREM ProcessesTracked ==
  ASSUME "crash" \notin Faults
  PROVE  Spec => []Tracked
<1>1. TrackInv => Tracked
  BY DEF TrackInv, NoneLost, AllAwaited, Awaited, Waits, Tracked
<1>2. TrackInv /\ [Next]_vars => TrackInv'
  BY TrackNext
<1>. QED
  BY <1>1, <1>2, TrackInit, PTL DEF Spec

-----------------------------------------------------------------------------
(* No stop reaches a process that is not to end.  A stop that is on its way  *)
(* names a task that is there, and that task is being deleted or its process *)
(* is past its timeout; the pid file names a process of that task.           *)

\* Names to be created are not there, and no stop outlives a crash.
CreationApart ==
  /\ call.add \cap There = {}
  /\ call.at \in Creation \cup {"made"} => call.name \in Names \ There
  /\ call.at \in {"down", "recover"} => stops = {}

\* The process a task's directory names, while it runs, is that task's.
Owned ==
  /\ \A n \in Names : disk[n].pid # 0 /\ Alive(proc[disk[n].pid]) => proc[disk[n].pid].task = n
  /\ call.at = "started" /\ Alive(proc[call.new]) => proc[call.new].task = call.name

Overdue(n) == disk[n].pid = 0 \/ ~Alive(proc[disk[n].pid]) \/ proc[disk[n].pid].late

Warranted ==
  \A g \in stops : g.step = "launched" =>
    task[g.name].there /\ (task[g.name].deleting \/ Overdue(g.name))

StopsDue == PidsStarted /\ LooksInTurn /\ CreationApart /\ Owned /\ Warranted
StopInv == TypeOK /\ StopsDue

\* Processes only end or grow late, and no stop is launched.
ProcessesAge ==
  /\ UNCHANGED <<task, call>>
  /\ \A n \in Names : disk'[n].pid = disk[n].pid
  /\ \A i \in Procs :
       /\ proc[i].shim # "unused" => proc'[i].shim # "unused"
       /\ Alive(proc'[i]) => /\ Alive(proc[i]) /\ proc'[i].task = proc[i].task
                             /\ proc[i].late => proc'[i].late
  /\ \A g \in stops' : g.step = "launched" => g \in stops

LEMMA AgeKeeps ==
  ASSUME StopInv, ProcessesAge, stops = {} => stops' = {}
  PROVE  StopsDue'
<1>. USE DEF StopInv, StopsDue, ProcessesAge
<1>1. call.new # 0 => call.new \in Procs
  BY MaxProcsAssumption DEF TypeOK, Calls, Procs
<1>2. PidsStarted'
  BY <1>1, PidIsProc DEF PidsStarted
<1>3. LooksInTurn' /\ CreationApart'
  BY DEF LooksInTurn, CreationApart, There
<1>4. Owned'
  BY <1>1, PidIsProc DEF Owned, PidsStarted
<1>5. Warranted'
  <2>. SUFFICES ASSUME NEW g \in stops', g.step = "launched"
                PROVE  task[g.name].there /\ (task[g.name].deleting \/ Overdue(g.name)')
    BY DEF Warranted, Overdue
  <2>1. g \in stops /\ g.name \in Names
    BY DEF TypeOK, Stops
  <2>. QED
    BY <2>1, PidIsProc DEF Warranted, Overdue
<1>. QED
  BY <1>2, <1>3, <1>4, <1>5

LEMMA StopAges ==
  ASSUME StopInv, StopStep
  PROVE  StopsDue'
<1>. USE DEF StopInv, StopsDue
<1>1. PICK g \in stops : StopSignals(g) \/ StopEscalates(g) \/ StopEnds(g)
  BY DEF StopStep
<1>2. UNCHANGED <<task, call, disk>>
  BY <1>1 DEF StopSignals, StopEscalates, StopEnds, memory
<1>3. \/ UNCHANGED proc
      \/ \E i : proc' = [proc EXCEPT ![i] = Interrupted(@)]
      \/ \E i : proc' = [proc EXCEPT ![i] = Killed(@)]
  BY <1>1 DEF StopSignals, StopEscalates, StopEnds
<1>4. \A q \in Processes :
        /\ Gone(q).shim = "gone"
        /\ q.shim # "unused" => Interrupted(q).shim # "unused" /\ Killed(q).shim # "unused"
        /\ Alive(Interrupted(q)) =>
             Alive(q) /\ Interrupted(q).task = q.task /\ Interrupted(q).late = q.late
        /\ ~Alive(Killed(q))
  <2>. TAKE q \in Processes
  <2>1. \A r : Gone(r).shim = "gone"
    BY DEF Gone, NoProcess
  <2>2. /\ q.shim # "unused" => Interrupted(q).shim # "unused"
        /\ Alive(Interrupted(q)) =>
             Alive(q) /\ Interrupted(q).task = q.task /\ Interrupted(q).late = q.late
    <3>1. CASE Alive(q)
      BY <3>1 DEF Interrupted, Processes, Alive
    <3>2. CASE ~Alive(q)
      BY <2>1, <3>2 DEF Interrupted, Alive
    <3>. QED
      BY <3>1, <3>2
  <2>3. (q.shim # "unused" => Killed(q).shim # "unused") /\ ~Alive(Killed(q))
    BY <2>1 DEF Killed, Alive
  <2>. QED
    BY <2>1, <2>2, <2>3
<1>5. \A i \in Procs :
       /\ proc[i].shim # "unused" => proc'[i].shim # "unused"
       /\ Alive(proc'[i]) => /\ Alive(proc[i]) /\ proc'[i].task = proc[i].task
                             /\ proc[i].late => proc'[i].late
  BY <1>3, <1>4 DEF TypeOK
<1>6. \A h \in stops' : h.step = "launched" => h \in stops
  <2>1. g \in Stops
    BY DEF TypeOK
  <2>2. \/ stops' = stops \ {g}
        \/ \E h \in Stops : h.step # "launched" /\ stops' = (stops \ {g}) \cup {h}
    <3>1. [g EXCEPT !.step = "over"] \in Stops /\ [g EXCEPT !.step = "over"].step = "over"
      BY <2>1 DEF Stops
    <3>2. disk[g.name].pid \in 0..MaxProcs
      BY <2>1 DEF TypeOK, Dirs, Stops
    <3>. DEFINE i == disk[g.name].pid
    <3>3. /\ [g EXCEPT !.step = "waits", !.pid = i] \in Stops
          /\ [g EXCEPT !.step = "waits", !.pid = i].step = "waits"
      BY <2>1, <3>2 DEF Stops
    <3>4. CASE StopSignals(g)
      BY <3>1, <3>3, <3>4 DEF StopSignals
    <3>5. CASE StopEscalates(g)
      BY <3>1, <3>5 DEF StopEscalates
    <3>6. CASE StopEnds(g)
      BY <3>6 DEF StopEnds
    <3>. QED
      BY <1>1, <3>4, <3>5, <3>6
  <2>. QED
    BY <2>2
<1>7. stops # {}
  BY DEF StopStep
<1>8. ProcessesAge
  BY <1>2, <1>5, <1>6 DEF ProcessesAge
<1>. QED
  BY <1>7, <1>8, AgeKeeps

LEMMA ProcessAges ==
  ASSUME StopInv, ProcessStep
  PROVE  StopsDue'
<1>1. PICK i \in Procs : ChildEnds(i) \/ Expire(i) \/ OpenExit(i) \/ WriteExit(i)
  BY DEF ProcessStep
<1>2. TypeOK /\ proc[i] \in Processes
  BY DEF StopInv, TypeOK
<1>3. UNCHANGED <<task, call, stops>>
  BY <1>1 DEF ChildEnds, Expire, OpenExit, WriteExit, memory
<1>4. \A r : Gone(r).shim = "gone"
  BY DEF Gone, NoProcess
<1>5. PICK q : /\ proc' = [proc EXCEPT ![i] = q]
               /\ proc[i].shim # "unused" => q.shim # "unused"
               /\ Alive(q) => /\ Alive(proc[i]) /\ q.task = proc[i].task
                              /\ proc[i].late => q.late
  <2>1. CASE ChildEnds(i)
    <3>1. PICK code \in Codes :
            LET p == [proc[i] EXCEPT !.child = "done", !.code = code]
            IN proc' = [proc EXCEPT ![i] = IF Alive(p) THEN p ELSE Gone(p)]
      BY <2>1 DEF ChildEnds
    <3>. DEFINE p == [proc[i] EXCEPT !.child = "done", !.code = code]
    <3>2. p.shim = proc[i].shim /\ p.task = proc[i].task /\ p.late = proc[i].late
      BY <1>2 DEF Processes
    <3>3. ~Alive(Gone(p)) /\ Gone(p).shim # "unused"
      BY <1>4 DEF Alive
    <3>4. Alive(p) => Alive(proc[i])
      BY <3>2 DEF Alive
    <3>. HIDE DEF p
    <3>. QED
      BY <3>1, <3>2, <3>3, <3>4 DEF p
  <2>2. CASE Expire(i)
    <3>. DEFINE q == [proc[i] EXCEPT !.late = TRUE]
    <3>1. q.shim = proc[i].shim /\ q.task = proc[i].task /\ q.late
      BY <1>2 DEF Processes
    <3>. QED
      BY <2>2, <3>1 DEF Expire, Alive
  <2>3. CASE OpenExit(i)
    <3>1. PICK code \in ExitCodes(proc[i]) :
            proc' = [proc EXCEPT ![i] = [proc[i] EXCEPT !.shim = "writing", !.code = code]]
      BY <2>3 DEF OpenExit
    <3>. DEFINE q == [proc[i] EXCEPT !.shim = "writing", !.code = code]
    <3>2. q.shim = "writing" /\ q.task = proc[i].task /\ q.late = proc[i].late
      BY <1>2 DEF Processes
    <3>. QED
      BY <2>3, <3>1, <3>2 DEF OpenExit, Alive
  <2>4. CASE WriteExit(i)
    BY <2>4, <1>4 DEF WriteExit, Alive
  <2>. QED
    BY <1>1, <2>1, <2>2, <2>3, <2>4
<1>6. \A n \in Names : disk'[n].pid = disk[n].pid
  <2>1. UNCHANGED disk \/ \E e : disk' = [disk EXCEPT ![proc[i].task].exit = e]
    BY <1>1 DEF ChildEnds, Expire, OpenExit, WriteExit
  <2>. SUFFICES ASSUME NEW n \in Names PROVE disk'[n].pid = disk[n].pid
    OBVIOUS
  <2>2. CASE proc[i].task = n
    BY <1>2, <2>1, <2>2 DEF TypeOK, Dirs
  <2>3. CASE proc[i].task # n
    BY <1>2, <2>1, <2>3 DEF TypeOK
  <2>. QED
    BY <2>2, <2>3
<1>7. ProcessesAge
  BY <1>2, <1>3, <1>5, <1>6 DEF ProcessesAge, TypeOK
<1>. QED
  BY <1>3, <1>7, AgeKeeps

\* Steps of the thread after which it starts nothing: pid files go at most, and
\* the tasks with a stop on its way stay, deleted if they were.
LEMMA ThreadKeeps ==
  ASSUME StopInv,
         call'.at \in {"free", "sync", "reconcile", "recover", "down"}, call'.seen = "unread",
         call'.at = "reconcile" => call'.look \subseteq There', call'.add \cap There' = {},
         call'.at \in {"down", "recover"} => stops' = {},
         \A n \in Names : disk'[n].pid \in {disk[n].pid, 0},
         \A i \in Procs : /\ proc[i].shim # "unused" => proc'[i].shim # "unused"
                          /\ Alive(proc'[i]) => proc'[i] = proc[i],
         \A g \in stops' : g.step = "launched" =>
           /\ g \in stops /\ task'[g.name].there
           /\ task[g.name].deleting => task'[g.name].deleting
  PROVE  StopsDue'
<1>. USE DEF StopInv, StopsDue
<1>1. PidsStarted'
  BY PidIsProc DEF PidsStarted
<1>2. LooksInTurn' /\ CreationApart'
  BY DEF LooksInTurn, CreationApart, Creation
<1>3. Owned'
  BY PidIsProc DEF Owned, PidsStarted
<1>4. Warranted'
  <2>. SUFFICES ASSUME NEW g \in stops', g.step = "launched"
                PROVE  task'[g.name].there /\ (task'[g.name].deleting \/ Overdue(g.name)')
    BY DEF Warranted, Overdue
  <2>1. g \in stops /\ g.name \in Names
    BY DEF TypeOK, Stops
  <2>. QED
    BY <2>1, PidIsProc DEF Warranted, Overdue
<1>. QED
  BY <1>1, <1>2, <1>3, <1>4

\* The steps of a creation: no stop, and no task in memory, has its name.
LEMMA CreationKeeps ==
  ASSUME StopInv, UNCHANGED <<task, stops>>,
         NEW n \in Names \ There, call'.name = n, call'.seen = "unread",
         call'.at \in Creation \cup {"made"}, call'.add \cap There = {},
         \A m \in Names \ {n} : disk'[m].pid = disk[m].pid,
         \A i \in Procs : proc[i].shim # "unused" => proc'[i] = proc[i],
         disk'[n].pid # 0 => /\ disk'[n].pid \in Procs /\ proc'[disk'[n].pid].shim # "unused"
                             /\ Alive(proc'[disk'[n].pid]) => proc'[disk'[n].pid].task = n,
         call'.at = "started" => /\ call'.new # 0 /\ proc'[call'.new].shim # "unused"
                                 /\ proc'[call'.new].task = n
  PROVE  StopsDue'
<1>. USE DEF StopInv, StopsDue
<1>1. \A m \in Names \ {n} : disk[m].pid # 0 => proc'[disk[m].pid] = proc[disk[m].pid]
  BY PidIsProc DEF PidsStarted
<1>2. PidsStarted'
  BY <1>1 DEF PidsStarted
<1>3. There' = There
  BY DEF There
<1>4. LooksInTurn'
  BY DEF LooksInTurn, Creation
<1>5. CreationApart'
  BY <1>3 DEF CreationApart, Creation
<1>6. Owned'
  BY <1>1 DEF Owned
<1>7. Warranted'
  <2>. SUFFICES ASSUME NEW g \in stops, g.step = "launched"
                PROVE  task[g.name].there /\ (task[g.name].deleting \/ Overdue(g.name)')
    BY DEF Warranted, Overdue
  <2>1. g.name \in Names \ {n}
    BY DEF TypeOK, Stops, Warranted, There
  <2>. QED
    BY <1>1, <2>1 DEF Warranted, Overdue
<1>. QED
  BY <1>2, <1>4, <1>5, <1>6, <1>7

LEMMA HolderStops ==
  ASSUME "lateStop" \notin Faults, StopInv, HolderStep
  PROVE  StopsDue'
<1>. USE DEF StopInv, StopsDue
<1>a. \A g \in stops : g.name \in Names
  BY DEF TypeOK, Stops
<1>b. ASSUME NEW n \in Names, GivesUp(n), UNCHANGED <<task, stops>>,
             UNCHANGED disk \/ disk' = [disk EXCEPT ![n] = NoDir],
             \A i \in Procs : /\ proc[i].shim # "unused" => proc'[i].shim # "unused"
                              /\ Alive(proc'[i]) => proc'[i] = proc[i]
      PROVE  StopsDue'
  <2>1. /\ call'.at \in {"free", "sync"} /\ call'.seen = "unread" /\ call'.add = call.add \ {n}
    BY <1>b, GivesUpRests
  <2>2. \A m \in Names : disk'[m].pid \in {disk[m].pid, 0}
    BY <1>b DEF TypeOK, NoDir
  <2>3. There' = There
    BY <1>b DEF There
  <2>. QED
    BY <1>b, <2>1, <2>2, <2>3, ThreadKeeps DEF CreationApart, Warranted
<1>1. ASSUME NEW n \in Names, SoftDelete(n)
      PROVE  StopsDue'
  <2>1. /\ call'.at \in {"free", "sync"} /\ call'.seen = "unread" /\ call'.add = call.add
    BY <1>1 DEF SoftDelete, Continue, Idle
  <2>2. \A m \in Names : disk'[m].pid = disk[m].pid
    BY <1>1 DEF SoftDelete, SoftDeleteSaves, Marked, TypeOK, Dirs
  <2>3. \A m \in Names : /\ task'[m].there = task[m].there
                         /\ task[m].deleting => task'[m].deleting
    BY <1>1 DEF SoftDelete, TypeOK, Tasks
  <2>4. There' = There
    BY <2>3 DEF There
  <2>5. UNCHANGED <<stops, proc>>
    BY <1>1 DEF SoftDelete
  <2>6. call'.add \cap There' = {}
    BY <2>1, <2>4 DEF CreationApart
  <2>7. \A g \in stops : g.step = "launched" =>
          /\ task'[g.name].there
          /\ task[g.name].deleting => task'[g.name].deleting
    BY <1>a, <2>3 DEF Warranted
  <2>. QED
    BY <2>1, <2>2, <2>5, <2>6, <2>7, ThreadKeeps
<1>2. ASSUME NEW n \in Names, MakeDir(n)
      PROVE  StopsDue'
  <2>1. /\ call.at = "sync" /\ call'.at = "made" /\ call'.name = n /\ call'.seen = "unread"
        /\ call'.add = call.add /\ n \notin There
    BY <1>2 DEF MakeDir, TypeOK, Calls, LooksInTurn, CreationApart
  <2>2. disk'[n].pid = 0 /\ \A m \in Names \ {n} : disk'[m] = disk[m]
    BY <1>2 DEF MakeDir, TypeOK, NoDir
  <2>. QED
    BY <1>2, <2>1, <2>2, CreationKeeps DEF MakeDir, CreationApart
<1>3. ASSUME NEW n \in Names, CreateRefused(n)
      PROVE  StopsDue'
  BY <1>3, <1>b DEF CreateRefused
<1>4. ASSUME NEW n \in Names, SaveTask(n)
      PROVE  StopsDue'
  <2>1. CASE GivesUp(n) /\ disk' \in {[disk EXCEPT ![n] = NoDir], disk}
    BY <1>4, <2>1, <1>b DEF SaveTask
  <2>2. CASE disk' = [disk EXCEPT ![n].json = "live"] /\ call' = [call EXCEPT !.at = "saved"]
    <3>1. /\ call'.at = "saved" /\ call'.name = n /\ call'.seen = "unread"
          /\ call'.add = call.add /\ n \notin There
      BY <1>4, <2>2 DEF SaveTask, Creating, TypeOK, Calls, LooksInTurn, CreationApart, Creation
    <3>2. \A m \in Names : disk'[m].pid = disk[m].pid
      BY <2>2 DEF TypeOK, Dirs
    <3>. QED
      BY <1>4, <3>1, <3>2, CreationKeeps, PidIsProc
         DEF SaveTask, CreationApart, Creation, PidsStarted, Owned
  <2>. QED
    BY <1>4, <2>1, <2>2 DEF SaveTask
<1>5. ASSUME NEW n \in Names, StartProcess(n)
      PROVE  StopsDue'
  <2>1. PICK i \in Unstarted :
          /\ proc' = [proc EXCEPT ![i] = [NoProcess EXCEPT !.task = n, !.shim = "waiting",
                                                          !.child = "running"]]
          /\ call' = [call EXCEPT !.at = "started", !.new = i]
    BY <1>5 DEF StartProcess
  <2>2. /\ call'.at = "started" /\ call'.new = i /\ call'.name = n /\ call'.seen = "unread"
        /\ call'.add = call.add /\ n \notin There
    BY <1>5, <2>1 DEF StartProcess, Creating, TypeOK, Calls, LooksInTurn, CreationApart, Creation
  <2>3. /\ i \in Procs /\ i # 0 /\ proc'[i].task = n /\ proc'[i].shim = "waiting"
        /\ proc[i].shim = "unused" /\ \A j \in Procs \ {i} : proc'[j] = proc[j]
    BY <2>1 DEF Unstarted, TypeOK, NoProcess, Procs
  <2>4. disk[n].pid # 0 => /\ disk[n].pid \in Procs /\ proc'[disk[n].pid] = proc[disk[n].pid]
    BY <2>3, PidIsProc DEF PidsStarted
  <2>5. UNCHANGED <<task, stops, disk>>
    BY <1>5 DEF StartProcess
  <2>. QED
    BY <2>2, <2>3, <2>4, <2>5, CreationKeeps
       DEF CreationApart, Creation, PidsStarted, Owned
<1>6. ASSUME NEW n \in Names, StartFails(n)
      PROVE  StopsDue'
  BY <1>6, <1>b DEF StartFails
<1>7. ASSUME NEW n \in Names, WritePid(n)
      PROVE  StopsDue'
  <2>1. /\ call.at = "started" /\ call.name = n /\ call'.at = "known" /\ call'.name = n
        /\ call'.seen = "unread" /\ call'.add = call.add /\ n \notin There
    BY <1>7 DEF WritePid, Creating, TypeOK, Calls, LooksInTurn, CreationApart, Creation
  <2>2. disk'[n].pid = call.new /\ \A m \in Names \ {n} : disk'[m] = disk[m]
    BY <1>7 DEF WritePid, TypeOK, Dirs
  <2>3. call.new # 0 => call.new \in Procs
    BY MaxProcsAssumption DEF TypeOK, Calls, Procs
  <2>. QED
    BY <1>7, <2>1, <2>2, <2>3, CreationKeeps
       DEF WritePid, CreationApart, Creation, PidsStarted, Owned
<1>8. ASSUME NEW n \in Names, WritePidFails(n)
      PROVE  StopsDue'
  <2>1. \A r : Gone(r).shim = "gone"
    BY DEF Gone, NoProcess
  <2>. QED
    BY <1>8, <1>b, <2>1 DEF WritePidFails, Alive, TypeOK
<1>9. ASSUME NEW n \in Names, ReadExit(n)
      PROVE  StopsDue'
  <2>1. /\ call'.at = call.at /\ call'.name = n /\ call'.add = call.add
        /\ call'.look = call.look /\ call'.new = call.new /\ call.at # "started"
        /\ UNCHANGED <<task, stops, disk, proc>>
        /\ \/ call.at = "known" /\ n = call.name
           \/ call.at \in {"reconcile", "recover"} /\ n \in call.look
    BY <1>9 DEF ReadExit, InspectsNext, TypeOK, Calls
  <2>2. PidsStarted' /\ Owned' /\ Warranted'
    BY <2>1 DEF PidsStarted, Owned, Warranted, Overdue
  <2>3. LooksInTurn' /\ CreationApart'
    BY <2>1 DEF LooksInTurn, CreationApart, Creation, There
  <2>. QED
    BY <2>2, <2>3
<1>10. ASSUME NEW n \in Names, FinishCreate(n)
       PROVE  StopsDue'
  <2>1. /\ call.at = "known" /\ call.name = n /\ GivesUp(n) /\ UNCHANGED <<stops, disk, proc>>
        /\ n \notin There /\ call.add \cap There = {}
    BY <1>10 DEF FinishCreate, Creating, CreationApart, Creation
  <2>2. call'.at \in {"free", "sync"} /\ call'.seen = "unread" /\ call'.add = call.add \ {n}
    BY <2>1, GivesUpRests
  <2>3. \A m \in Names \ {n} : task'[m] = task[m]
    BY <1>10 DEF FinishCreate, TypeOK
  <2>4. call'.add \cap There' = {}
    BY <2>1, <2>2, <2>3 DEF There
  <2>5. \A g \in stops : g.step = "launched" => g.name # n
    BY <2>1 DEF Warranted, There
  <2>. QED
    BY <1>a, <2>1, <2>2, <2>3, <2>4, <2>5, ThreadKeeps DEF Warranted
<1>11. ASSUME NEW n \in Names, RecoverTask(n)
       PROVE  StopsDue'
  <2>1. call.at = "recover" /\ stops = {} /\ UNCHANGED <<stops, disk, proc>>
    BY <1>11 DEF RecoverTask, CreationApart
  <2>2. /\ call'.at \in {"free", "recover"} /\ call'.seen = "unread" /\ call'.add = {}
    BY <1>11 DEF RecoverTask, Recovering, Idle
  <2>. QED
    BY <2>1, <2>2, ThreadKeeps
<1>12. ASSUME NEW n \in Names, Examine(n)
       PROVE  StopsDue'
  <2>. DEFINE state == Inspected(n, call.seen)
              doomed == IF MustRemove(n, state) THEN call.doomed \cup {n} ELSE call.doomed
  <2>1. /\ call.at = "reconcile" /\ call.name = n /\ call.seen # "unread" /\ UNCHANGED proc
        /\ call' = Looked(call.look \ {n}, doomed) /\ n \in There
    BY <1>12 DEF Examine, LooksInTurn
  <2>2. /\ call'.at \in {"free", "reconcile"} /\ call'.seen = "unread"
        /\ call'.look = call.look \ {n} /\ call'.add = {}
    <3>. HIDE DEF doomed
    <3>. QED
      BY <2>1 DEF Looked, Idle
  <2>3. \A m \in Names : disk'[m].pid = disk[m].pid
    BY <1>12 DEF Examine, TypeOK, Dirs
  <2>4. \A m \in Names : task'[m].there = task[m].there /\ task'[m].deleting = task[m].deleting
    BY <1>12 DEF Examine, TypeOK, Tasks
  <2>5. There' = There
    BY <2>4 DEF There
  <2>6. PidsStarted' /\ Owned'
    BY <2>1, <2>2, <2>3 DEF PidsStarted, Owned
  <2>7. LooksInTurn' /\ CreationApart'
    BY <2>1, <2>2, <2>5 DEF LooksInTurn, CreationApart, Creation
  <2>8. \/ UNCHANGED stops
        \/ /\ stops' = stops \cup {[name |-> n, step |-> "launched", pid |-> disk[n].pid]}
           /\ MustStop(n, state)
    BY <1>12 DEF Examine
  <2>9. state = "Timeout" => Overdue(n)
    BY DEF Inspected, StateOfProcess, Overdue
  <2>10. MustStop(n, state) => task[n].deleting \/ Overdue(n)
    BY <2>9 DEF MustStop
  <2>11. \A g \in stops' : g.step = "launched" =>
           /\ g.name \in Names
           /\ task[g.name].there /\ (task[g.name].deleting \/ Overdue(g.name))
    BY <1>a, <2>1, <2>8, <2>10 DEF Warranted, There
  <2>12. Warranted'
    BY <2>1, <2>3, <2>4, <2>11 DEF Warranted, Overdue
  <2>. QED
    BY <2>6, <2>7, <2>12
<1>13. ASSUME NEW n \in Names, Finalize(n) \/ FinalizeFails(n)
       PROVE  StopsDue'
  <2>1. /\ call.at = "reconcile" /\ call.look = {} /\ UNCHANGED <<stops, proc>>
        /\ call' = Looked({}, call.doomed \ {n}) /\ call.doomed \ {n} \in SUBSET Names
        /\ \A g \in stops : g.step = "launched" => g.name # n
    BY <1>13 DEF Finalize, FinalizeFails, Finalizing, TypeOK, Calls
  <2>2. /\ call'.at \in {"free", "reconcile"} /\ call'.seen = "unread"
        /\ call'.look = {} /\ call'.add = {}
    BY <2>1, Rests
  <2>3. \A m \in Names : disk'[m].pid \in {disk[m].pid, 0}
    BY <1>13 DEF Finalize, FinalizeFails, TypeOK, NoDir
  <2>4. \A m \in Names \ {n} : task'[m] = task[m]
    BY <1>13 DEF Finalize, FinalizeFails, TypeOK
  <2>. QED
    BY <1>a, <2>1, <2>2, <2>3, <2>4, ThreadKeeps DEF Warranted
<1>. QED
  BY <1>1, <1>2, <1>3, <1>4, <1>5, <1>6, <1>7, <1>8, <1>9, <1>10, <1>11, <1>12, <1>13
     DEF HolderStep

LEMMA StopInit == Init => StopInv
<1>. SUFFICES ASSUME Init PROVE StopInv
  OBVIOUS
<1>1. /\ call.at = "free" /\ call.seen = "unread" /\ call.add = {} /\ stops = {}
      /\ \A n \in Names : disk[n].pid = 0
  BY DEF Init, Idle, NoDir
<1>. QED
  BY <1>1, TypeInit DEF StopInv, StopsDue, PidsStarted, LooksInTurn, CreationApart, Creation,
     Owned, Warranted

LEMMA StopNext == "lateStop" \notin Faults /\ StopInv /\ [Next]_vars => StopInv'
<1>. SUFFICES ASSUME "lateStop" \notin Faults, StopInv, [Next]_vars PROVE StopsDue'
  BY TypeNext DEF StopInv
<1>. USE DEF StopInv, StopsDue
<1>1. ASSUME NEW drop, NEW add, Request(drop, add), add \cap There = {}
      PROVE  StopsDue'
  <2>1. /\ UNCHANGED <<task, stops, disk, proc>> /\ call'.at \in {"free", "sync"}
        /\ call'.seen = "unread" /\ call'.add = add
    BY <1>1 DEF Request, Continue, Idle
  <2>2. There' = There
    BY <2>1 DEF There
  <2>. QED
    BY <1>1, <2>1, <2>2, ThreadKeeps DEF Warranted
<1>2. CASE RequestStep
  <2>1. ASSUME NEW desired \in SUBSET Names, Sync(desired)
        PROVE  StopsDue'
    BY <1>1, <2>1 DEF Sync
  <2>2. ASSUME NEW n \in Names, Create(n)
        PROVE  StopsDue'
    <3>1. {n} \cap There = {} /\ Request({}, {n})
      BY <2>2 DEF Create
    <3>. QED
      BY <1>1, <3>1
  <2>3. ASSUME NEW n \in Names, Delete(n)
        PROVE  StopsDue'
    <3>1. {} \cap There = {} /\ Request({n}, {})
      BY <2>3 DEF Delete
    <3>. QED
      BY <1>1, <3>1
  <2>. QED
    BY <1>2, <2>1, <2>2, <2>3 DEF RequestStep
<1>3. CASE Reconcile
  <2>1. /\ UNCHANGED <<task, stops, disk, proc>> /\ call'.at = "reconcile"
        /\ call'.seen = "unread" /\ call'.add = {} /\ call'.look = There
    BY <1>3 DEF Reconcile, Idle
  <2>2. There' = There
    BY <2>1 DEF There
  <2>. QED
    BY <2>1, <2>2, ThreadKeeps DEF Warranted
<1>4. CASE Restart
  <2>1. /\ UNCHANGED <<task, stops, disk, proc>> /\ stops = {}
        /\ call'.at \in {"free", "recover"} /\ call'.seen = "unread" /\ call'.add = {}
    BY <1>4 DEF Restart, Recovering, Idle, CreationApart
  <2>. QED
    BY <2>1, ThreadKeeps
<1>5. CASE Crash
  <2>1. stops' = {} /\ call'.at = "down" /\ call'.seen = "unread" /\ call'.add = {}
    BY <1>5 DEF Crash, Idle
  <2>2. \A n \in Names : disk'[n].pid \in {disk[n].pid, 0}
    <3>1. CASE UNCHANGED disk
      BY <3>1
    <3>2. CASE \E m \in call.doomed : \E dir \in Torn(disk[m]) : disk' = [disk EXCEPT ![m] = dir]
      <4>. PICK m \in call.doomed : \E dir \in Torn(disk[m]) : disk' = [disk EXCEPT ![m] = dir]
        BY <3>2
      <4>1. PICK dir \in Torn(disk[m]) : disk' = [disk EXCEPT ![m] = dir]
        OBVIOUS
      <4>2. dir.pid \in {disk[m].pid, 0} /\ m \in Names
        BY DEF Torn, TypeOK, Calls
      <4>. QED
        BY <4>1, <4>2 DEF TypeOK
    <3>. QED
      BY <1>5, <3>1, <3>2 DEF Crash
  <2>3. \A i \in Procs : /\ proc[i].shim # "unused" => proc'[i].shim # "unused"
                         /\ Alive(proc'[i]) => proc'[i] = proc[i]
    <3>1. \A q : /\ q.shim # "unused" => Killed(q).shim = "gone"
                 /\ q.shim = "unused" => Killed(q) = q
      BY DEF Killed, Gone, NoProcess
    <3>. QED
      BY <1>5, <3>1 DEF Crash, Alive
  <2>. QED
    BY <2>1, <2>2, <2>3, ThreadKeeps
<1>6. CASE UNCHANGED vars
  <2>1. ProcessesAge
    BY <1>6 DEF vars, memory, ProcessesAge
  <2>. QED
    BY <1>6, <2>1, AgeKeeps DEF vars
<1>. QED
  BY <1>2, <1>3, <1>4, <1>5, <1>6, HolderStops, StopAges, ProcessAges DEF Next

\* A step that sends the signal finds the task marked or its process overdue.
LEMMA SignalsDue ==
  ASSUME StopInv, [Next]_vars, NEW i \in Procs, ~proc[i].termed, proc'[i].termed
  PROVE  proc[i].late \/ task[proc[i].task].deleting
<1>. USE DEF StopInv, StopsDue
<1>1. \A r : ~Gone(r).termed
  BY DEF Gone, NoProcess
<1>2. \A q \in Processes : Killed(q).termed => q.termed
  BY <1>1 DEF Killed
<1>3. proc \in [Procs -> Processes]
  BY DEF TypeOK
<1>4. CASE StopStep
  <2>1. PICK g \in stops : StopSignals(g) \/ StopEscalates(g) \/ StopEnds(g)
    BY <1>4 DEF StopStep
  <2>2. ~StopEnds(g) /\ ~StopEscalates(g)
    BY <1>2, <1>3 DEF StopEnds, StopEscalates
  <2>3. /\ g.step = "launched" /\ disk[g.name].pid # 0
        /\ proc' = [proc EXCEPT ![disk[g.name].pid] = Interrupted(@)]
    BY <2>1, <2>2 DEF StopSignals
  <2>4. g.name \in Names
    BY DEF TypeOK, Stops
  <2>5. disk[g.name].pid = i
    BY <1>3, <2>3
  <2>6. Alive(proc[i])
    BY <1>1, <1>3, <2>3, <2>5 DEF Interrupted
  <2>7. proc[i].task = g.name
    BY <2>3, <2>4, <2>5, <2>6 DEF Owned
  <2>. QED
    BY <2>3, <2>5, <2>6, <2>7 DEF Warranted, Overdue
<1>5. CASE ProcessStep
  <2>1. PICK j \in Procs : ChildEnds(j) \/ Expire(j) \/ OpenExit(j) \/ WriteExit(j)
    BY <1>5 DEF ProcessStep
  <2>2. proc[j] \in Processes
    BY <1>3
  <2>3. CASE ChildEnds(j)
    <3>1. PICK code \in Codes :
            LET p == [proc[j] EXCEPT !.child = "done", !.code = code]
            IN proc' = [proc EXCEPT ![j] = IF Alive(p) THEN p ELSE Gone(p)]
      BY <2>3 DEF ChildEnds
    <3>. DEFINE p == [proc[j] EXCEPT !.child = "done", !.code = code]
    <3>2. p.termed = proc[j].termed
      BY <2>2 DEF Processes
    <3>. HIDE DEF p
    <3>. QED
      BY <1>1, <1>3, <3>1, <3>2 DEF p
  <2>4. CASE Expire(j)
    BY <1>3, <2>2, <2>4 DEF Expire, Processes
  <2>5. CASE OpenExit(j)
    BY <1>3, <2>2, <2>5 DEF OpenExit, Processes
  <2>6. CASE WriteExit(j)
    BY <1>1, <1>3, <2>6 DEF WriteExit
  <2>. QED
    BY <2>1, <2>3, <2>4, <2>5, <2>6
<1>6. CASE HolderStep
  <2>1. PICK n \in Names : UNCHANGED proc \/ StartProcess(n) \/ WritePidFails(n)
    BY <1>6 DEF HolderStep, SoftDelete, MakeDir, CreateRefused, SaveTask, StartFails, WritePid,
       ReadExit, FinishCreate, RecoverTask, Examine, Finalize, FinalizeFails, Finalizing
  <2>2. CASE StartProcess(n)
    BY <1>3, <2>2 DEF StartProcess, Unstarted, NoProcess
  <2>3. CASE WritePidFails(n)
    BY <1>1, <1>3, <2>3 DEF WritePidFails
  <2>. QED
    BY <2>1, <2>2, <2>3
<1>7. CASE Crash
  BY <1>2, <1>3, <1>7 DEF Crash
<1>. QED
  BY <1>4, <1>5, <1>6, <1>7 DEF Next, RequestStep, Sync, Create, Delete, Request, Reconcile,
     Restart, vars

\* When no stop is still on its way as its task is removed, only the process of a
\* task that is being deleted or has timed out is told to end, whatever crashes and
\* whichever writes fail (OnlyDoomedStopped; reconcileTasks, Stop).
THEOREM StopsOnlyDoomed ==
  ASSUME "lateStop" \notin Faults
  PROVE  Spec => OnlyDoomedStopped
<1>1. StopInv /\ [Next]_vars => StopInv'
  BY StopNext
<1>2. StopInv /\ [Next]_vars =>
        [\A i \in Procs : ~proc[i].termed /\ proc'[i].termed =>
           proc[i].late \/ task[proc[i].task].deleting]_vars
  BY SignalsDue
<1>. QED
  BY <1>1, <1>2, StopInit, PTL DEF Spec, OnlyDoomedStopped

-----------------------------------------------------------------------------
(* The executor implements the slot.  Every step but a creation's first    *)
(* write leaves the tasks in the slot, or takes them out.                  *)

Held(n) == Active(n) \/ Candidate(n)
Leaving == \A n \in Names : Held(n)' => Held(n)

\* Only a reconcile has tasks to remove, and a directory has no pid before its
\* process is started.
InTurn ==
  /\ call.at # "reconcile" => call.doomed = {}
  /\ call.at \in {"made", "saved", "started"} => call.name \in Names /\ disk[call.name].pid = 0

LEMMA InTurnNext == TypeOK /\ InTurn /\ [Next]_vars => InTurn'
<1>. SUFFICES ASSUME TypeOK, InTurn, [Next]_vars PROVE InTurn'
  OBVIOUS
<1>. USE DEF InTurn
<1>1. ASSUME NEW drop, NEW add, Request(drop, add)
      PROVE  InTurn'
  BY <1>1 DEF Request, Continue, Idle
<1>2. CASE RequestStep
  BY <1>1, <1>2 DEF RequestStep, Sync, Create, Delete
<1>3. CASE HolderStep
  <2>1. PICK n \in Names :
          \/ SoftDelete(n)
          \/ MakeDir(n) \/ CreateRefused(n) \/ SaveTask(n)
          \/ StartProcess(n) \/ StartFails(n) \/ WritePid(n) \/ WritePidFails(n)
          \/ ReadExit(n) \/ FinishCreate(n) \/ RecoverTask(n) \/ Examine(n)
          \/ Finalize(n) \/ FinalizeFails(n)
    BY <1>3 DEF HolderStep
  <2>2. CASE GivesUp(n)
    BY <2>2, GivesUpRests
  <2>3. CASE MakeDir(n)
    BY <2>3 DEF MakeDir, NoDir, TypeOK, Calls
  <2>4. CASE SaveTask(n) /\ ~GivesUp(n)
    BY <2>4 DEF SaveTask, Creating, TypeOK, Calls, Dirs
  <2>5. CASE StartProcess(n)
    BY <2>5 DEF StartProcess, Creating, TypeOK, Calls
  <2>6. CASE WritePid(n)
    BY <2>6 DEF WritePid, Creating, TypeOK, Calls
  <2>7. CASE ReadExit(n)
    BY <2>7 DEF ReadExit, InspectsNext, TypeOK, Calls
  <2>8. CASE SoftDelete(n)
    BY <2>8 DEF SoftDelete, Continue, Idle
  <2>9. CASE RecoverTask(n)
    BY <2>9 DEF RecoverTask, Recovering, Idle
  <2>10. CASE Examine(n)
    <3>1. PICK look, doomed : call' = Looked(look, doomed)
      BY <2>10 DEF Examine
    <3>. QED
      BY <3>1 DEF Looked, Idle
  <2>11. CASE Finalizing(n)
    BY <2>11 DEF Finalizing, Looked, Idle
  <2>. QED
    BY <2>1, <2>2, <2>3, <2>4, <2>5, <2>6, <2>7, <2>8, <2>9, <2>10, <2>11
       DEF CreateRefused, StartFails, WritePidFails, FinishCreate, Finalize, FinalizeFails
<1>4. CASE StopStep
  BY <1>4 DEF StopStep, StopSignals, StopEscalates, StopEnds, memory
<1>5. CASE ProcessStep
  <2>1. PICK i \in Procs : ChildEnds(i) \/ Expire(i) \/ OpenExit(i) \/ WriteExit(i)
    BY <1>5 DEF ProcessStep
  <2>2. UNCHANGED call /\ (UNCHANGED disk \/ \E e : disk' = [disk EXCEPT ![proc[i].task].exit = e])
    BY <2>1 DEF ChildEnds, Expire, OpenExit, WriteExit, memory
  <2>3. ASSUME NEW n \in Names
        PROVE  disk'[n].pid = disk[n].pid
    <3>1. CASE proc[i].task = n
      BY <2>2, <3>1 DEF TypeOK, Dirs
    <3>2. CASE proc[i].task # n
      BY <2>2, <3>2 DEF TypeOK
    <3>. QED
      BY <3>1, <3>2
  <2>. QED
    BY <2>2, <2>3
<1>6. CASE Reconcile \/ Restart \/ Crash
  BY <1>6 DEF Reconcile, Restart, Recovering, Crash, Idle
<1>7. CASE UNCHANGED vars
  BY <1>7 DEF vars, memory
<1>. QED
  BY <1>2, <1>3, <1>4, <1>5, <1>6, <1>7 DEF Next

LEMMA Leaves ==
  ASSUME Leaving, \A n \in Names : Status(n)' = Status(n)
  PROVE  Slot!SlotNext
BY DEF Slot!SlotNext, Slot!Leave, Leaving, Held, Active

LEMMA Becomes ==
  ASSUME NEW n \in Names, \A m \in Names \ {n} : Status(m)' = Status(m)
  PROVE  Slot!Become(n, Status(n), Status(n)')
BY DEF Slot!Become

LEMMA WorldLeaves ==
  ASSUME TypeOK, WorldStep
  PROVE  Slot!SlotNext
<1>. USE DEF WorldStep
<1>1. ASSUME NEW n \in Names
      PROVE  (Held(n)' => Held(n)) /\ Status(n)' = Status(n)
  <2>1. Live(n)' => Live(n)
    BY DEF Live
  <2>2. NoExit(n)' => NoExit(n)
    BY DEF NoExit
  <2>3. MayRun(n)' => MayRun(n)
    BY PidIsProc DEF MayRun
  <2>4. Active(n)' <=> Active(n)
    BY DEF Active
  <2>5. Status(n)' = Status(n)
    BY DEF Status
  <2>. QED
    BY <2>1, <2>2, <2>3, <2>4, <2>5 DEF Candidate, Held
<1>. QED
  BY <1>1, Leaves DEF Leaving

\* Steps of the thread outside creations that leave all but the thread alone.
LEMMA QuietLeaves ==
  ASSUME UNCHANGED <<task, disk, proc>>, call'.seen = "unread",
         call.at \notin Creation, call'.at \notin Creation
  PROVE  Slot!SlotNext
<1>1. Leaving
  BY QuietCandidates DEF Leaving, Held
<1>2. \A n \in Names : Status(n)' = Status(n)
  BY DEF Status, Creation
<1>. QED
  BY <1>1, <1>2, Leaves

LEMMA MakeDirSlot ==
  ASSUME Inv, NEW n \in Names, MakeDir(n)
  PROVE  Slot!SlotNext
<1>. USE DEF Inv, Kept
<1>1. /\ call.at = "sync" /\ n \in call.add /\ UNCHANGED <<task, proc>>
      /\ disk' = [disk EXCEPT ![n] = [NoDir EXCEPT !.made = TRUE]]
      /\ call'.at = "made" /\ call'.name = n /\ call'.seen = call.seen
  BY DEF MakeDir, TypeOK, Calls
<1>2. call.seen = "unread" /\ n \notin Stored
  BY <1>1 DEF LooksInTurn, CreationAlone, Mirrored, Creation
<1>3. disk'[n].json = "none" /\ \A m \in Names \ {n} : disk'[m] = disk[m]
  BY <1>1 DEF NoDir, TypeOK
<1>4. Leaving
  BY <1>1, <1>2, <1>3 DEF Leaving, Held, Candidate, Live, NoExit, MayRun, Active
<1>5. \A m \in Names : Status(m)' = Status(m)
  BY <1>1, <1>2, <1>3 DEF Status, Creation, Stored
<1>. QED
  BY <1>4, <1>5, Leaves

LEMMA SaveTaskSlot ==
  ASSUME Inv, "storeWrite" \notin Faults, NEW n \in Names, SaveTask(n)
  PROVE  Slot!SlotNext
<1>. USE DEF Inv, Kept
<1>1. /\ call.at = "made" /\ call.name = n /\ UNCHANGED <<task, proc>>
      /\ disk' = [disk EXCEPT ![n].json = "live"]
      /\ call'.at = "saved" /\ call'.name = n /\ call'.seen = call.seen
  BY DEF SaveTask, Creating, WriteMayFail, TypeOK, Calls
<1>2. /\ call.seen = "unread" /\ n \notin There /\ ActiveTasks = {} /\ n \notin Stored
  BY <1>1 DEF LooksInTurn, CreationAlone, Mirrored, Creation
<1>3. \A m \in Names \ {n} : disk'[m] = disk[m]
  BY <1>1 DEF TypeOK, Dirs
<1>4. \A m \in Names : ~Active(m) /\ ~Active(m)'
  BY <1>1, <1>2 DEF Active, ActiveTasks
<1>5. \A m \in Names : ~Candidate(m)
  BY <1>1, <1>4 DEF Accounted, Creation
<1>6. \A m \in Names \ {n} : ~Candidate(m)'
  BY <1>1, <1>2, <1>3, <1>5 DEF Candidate, Live, NoExit, MayRun
<1>7. Status(n) = "none" /\ Status(n)' = "creating"
  BY <1>1, <1>2 DEF Status, Creation, There, Stored
<1>8. \A m \in Names \ {n} : Status(m)' = Status(m)
  BY <1>1, <1>3 DEF Status, Creation
<1>9. Slot!Become(n, "none", "creating")
  BY <1>7, <1>8, Becomes
<1>. QED
  BY <1>4, <1>5, <1>6, <1>9 DEF Slot!SlotNext, Slot!Begin, Active

LEMMA StartProcessSlot ==
  ASSUME Inv, NEW n \in Names, StartProcess(n)
  PROVE  Slot!SlotNext
<1>. USE DEF Inv, Kept
<1>1. PICK i \in Unstarted :
        /\ proc' = [proc EXCEPT ![i] = [NoProcess EXCEPT !.task = n, !.shim = "waiting",
                                                        !.child = "running"]]
        /\ call' = [call EXCEPT !.at = "started", !.new = i]
  BY DEF StartProcess
<1>2. /\ call.at = "saved" /\ call.name = n /\ UNCHANGED <<task, disk>>
      /\ call'.at = "started" /\ call'.name = n /\ call'.seen = call.seen
  BY <1>1 DEF StartProcess, Creating, TypeOK, Calls
<1>3. /\ i \in Procs /\ proc[i].shim = "unused"
      /\ \A j \in Procs \ {i} : proc'[j] = proc[j]
  BY <1>1 DEF Unstarted, TypeOK
<1>4. \A m \in Names : disk[m].pid # 0 => disk[m].pid \in Procs \ {i}
  BY <1>3, PidIsProc DEF PidsStarted
<1>5. Leaving
  BY <1>2, <1>3, <1>4 DEF Leaving, Held, Candidate, Live, NoExit, MayRun, Active
<1>6. \A m \in Names : Status(m)' = Status(m)
  BY <1>2 DEF Status, Creation
<1>. QED
  BY <1>5, <1>6, Leaves

LEMMA StartFailsSlot ==
  ASSUME Inv, "storeWrite" \notin Faults, NEW n \in Names, StartFails(n)
  PROVE  Slot!SlotNext
<1>. USE DEF Inv, Kept
<1>1. /\ call.at = "saved" /\ call.name = n /\ UNCHANGED <<task, proc>>
      /\ disk' = [disk EXCEPT ![n] = NoDir]
      /\ call'.at \in {"free", "sync"} /\ call'.seen = "unread"
  BY GivesUpRests DEF StartFails, Creating, WriteMayFail
<1>2. call.seen = "unread" /\ n \notin There /\ ActiveTasks = {}
  BY <1>1 DEF LooksInTurn, CreationAlone, Creation
<1>3. disk'[n].json = "none" /\ \A m \in Names \ {n} : disk'[m] = disk[m]
  BY <1>1 DEF NoDir, TypeOK
<1>4. \A m \in Names : (Candidate(m)' => Candidate(m) /\ m # n) /\ ~Active(m)'
  BY <1>1, <1>2, <1>3 DEF Candidate, Live, NoExit, MayRun, Active, ActiveTasks
<1>5. Status(n) = "creating" /\ Status(n)' = "none"
  BY <1>1, <1>2, <1>3 DEF Status, Creation, There
<1>6. \A m \in Names \ {n} : Status(m)' = Status(m)
  BY <1>1, <1>3 DEF Status, Creation
<1>7. Slot!Become(n, "creating", "none")
  BY <1>5, <1>6, Becomes
<1>. QED
  BY <1>4, <1>7 DEF Slot!SlotNext, Slot!Fail, Active

LEMMA WritePidSlot ==
  ASSUME Inv, InTurn, NEW n \in Names, WritePid(n)
  PROVE  Slot!SlotNext
<1>. USE DEF Inv, Kept
<1>1. /\ call.at = "started" /\ call.name = n /\ UNCHANGED <<task, proc>>
      /\ disk' = [disk EXCEPT ![n].pid = call.new]
      /\ call'.at = "known" /\ call'.name = n /\ call'.seen = call.seen
  BY DEF WritePid, Creating, TypeOK, Calls
<1>2. call.seen = "unread" /\ disk[n].pid = 0
  BY <1>1 DEF LooksInTurn, InTurn
<1>3. /\ disk'[n].json = disk[n].json /\ disk'[n].exit = disk[n].exit
      /\ \A m \in Names \ {n} : disk'[m] = disk[m]
  BY <1>1 DEF TypeOK, Dirs
<1>4. Leaving
  BY <1>1, <1>2, <1>3 DEF Leaving, Held, Candidate, Live, NoExit, MayRun, Active
<1>5. \A m \in Names : Status(m)' = Status(m)
  BY <1>1, <1>3 DEF Status, Creation
<1>. QED
  BY <1>4, <1>5, Leaves

LEMMA ReadExitSlot ==
  ASSUME Inv, NEW n \in Names, ReadExit(n)
  PROVE  Slot!SlotNext
<1>. USE DEF Inv, Kept
<1>1. /\ UNCHANGED <<task, disk, proc>> /\ call.seen = "unread" /\ InspectsNext(n)
      /\ call'.name = n /\ call'.seen = disk[n].exit /\ call'.at = call.at
  BY DEF ReadExit, TypeOK, Calls
<1>2. call.at \in Creation => call.name = n
  BY <1>1 DEF InspectsNext, Creation
<1>3. Leaving
  BY <1>1 DEF Leaving, Held, Candidate, Live, NoExit, MayRun, Active
<1>4. \A m \in Names : Status(m)' = Status(m)
  BY <1>1, <1>2 DEF Status
<1>. QED
  BY <1>3, <1>4, Leaves

LEMMA FinishCreateSlot ==
  ASSUME Inv, NEW n \in Names, FinishCreate(n)
  PROVE  Slot!SlotNext
<1>. USE DEF Inv, Kept
<1>1. /\ call.at = "known" /\ call.name = n /\ call.seen # "unread" /\ UNCHANGED <<disk, proc>>
      /\ task' = [task EXCEPT ![n] = [there |-> TRUE, deleting |-> FALSE,
                                      state |-> Inspected(n, call.seen)]]
      /\ call'.at \in {"free", "sync"} /\ call'.seen = "unread"
  BY GivesUpRests DEF FinishCreate, Creating
<1>2. n \notin There /\ Live(n)
  BY <1>1 DEF CreationAlone, Creation
<1>3. /\ task'[n].there /\ ~task'[n].deleting /\ task'[n].state = Inspected(n, call.seen)
      /\ \A m \in Names \ {n} : task'[m] = task[m]
  BY <1>1 DEF TypeOK
<1>4. Active(n)' => Candidate(n)
  BY <1>1, <1>2, <1>3, LookFinds DEF Active, ActiveTask
<1>5. \A m \in Names : Candidate(m)' => Candidate(m)
  BY <1>1 DEF Candidate, Live, NoExit, MayRun
<1>6. \A m \in Names : Held(m)' => Held(m)
  BY <1>3, <1>4, <1>5 DEF Held, Active
<1>7. Status(n) = "creating" /\ Status(n)' = "live"
  BY <1>1, <1>2, <1>3 DEF Status, Creation, There
<1>8. \A m \in Names \ {n} : Status(m)' = Status(m)
  BY <1>1, <1>3 DEF Status, Creation
<1>9. Slot!Become(n, "creating", "live")
  BY <1>7, <1>8, Becomes
<1>. QED
  BY <1>6, <1>9 DEF Slot!SlotNext, Slot!Accept, Held, Active

LEMMA SoftDeleteSlot ==
  ASSUME Inv, "storeWrite" \notin Faults, NEW n \in Names, SoftDelete(n)
  PROVE  Slot!SlotNext
<1>. USE DEF Inv, Kept
<1>1. /\ call.at = "sync" /\ n \in call.drop /\ UNCHANGED proc
      /\ task' = [task EXCEPT ![n].deleting = TRUE]
      /\ disk' = [disk EXCEPT ![n].json = "deleting"] \/ (task[n].deleting /\ UNCHANGED disk)
      /\ call'.at \in {"free", "sync"} /\ call'.seen = "unread"
  BY DEF SoftDelete, SoftDeleteSaves, Marked, WriteMayFail, Continue, Idle
<1>2. n \in There
  BY <1>1 DEF CreationAlone
<1>3. /\ disk'[n].json = "deleting" /\ \A m \in Names \ {n} : disk'[m] = disk[m]
  BY <1>1, <1>2 DEF Durable, DeletionDurable, TypeOK, Dirs
<1>4. /\ task'[n].there /\ task'[n].deleting /\ \A m \in Names \ {n} : task'[m] = task[m]
  BY <1>1, <1>2 DEF TypeOK, Tasks, There
<1>5. ~Held(n)'
  BY <1>3, <1>4 DEF Held, Candidate, Live, Active, ActiveTask
<1>6. \A m \in Names \ {n} : Held(m)' => Held(m)
  BY <1>1, <1>3, <1>4 DEF Held, Candidate, Live, NoExit, MayRun, Active
<1>7. Status(n)' = "deleting" /\ Status(n) = (IF task[n].deleting THEN "deleting" ELSE "live")
  BY <1>2, <1>4 DEF Status, There
<1>8. \A m \in Names \ {n} : Status(m)' = Status(m)
  BY <1>1, <1>3, <1>4 DEF Status, Creation
<1>9. CASE task[n].deleting
  <2>1. Leaving
    BY <1>5, <1>6 DEF Leaving
  <2>. QED
    BY <1>7, <1>8, <1>9, <2>1, Leaves
<1>10. CASE ~task[n].deleting
  <2>1. Slot!Become(n, "live", "deleting")
    BY <1>7, <1>8, <1>10, Becomes
  <2>. QED
    BY <1>5, <1>6, <2>1 DEF Slot!SlotNext, Slot!Mark, Held, Active
<1>. QED
  BY <1>9, <1>10

\* What is known of a task in memory is on disk too, and so is what is known of
\* any other but the one that is being created.
LEMMA StatusOnDisk ==
  ASSUME Inv, NEW n \in Names, call.at \notin Creation \/ call.name # n
  PROVE  Status(n) = disk[n].json
<1>. USE DEF Inv, Kept
<1>1. CASE task[n].there
  <2>1. n \in There
    BY <1>1 DEF There
  <2>2. n \in Stored
    BY <2>1 DEF Mirrored
  <2>3. disk[n].json \in {"live", "deleting"}
    BY <2>2 DEF Stored, TypeOK, Dirs
  <2>4. task[n].deleting <=> disk[n].json = "deleting"
    BY <2>1 DEF Durable, DeletionDurable
  <2>5. Status(n) = IF task[n].deleting THEN "deleting" ELSE "live"
    BY <1>1 DEF Status
  <2>. QED
    BY <2>3, <2>4, <2>5
<1>2. CASE ~task[n].there
  BY <1>2 DEF Status
<1>. QED
  BY <1>1, <1>2

LEMMA RecoverTaskSlot ==
  ASSUME Inv, NEW n \in Names, RecoverTask(n)
  PROVE  Slot!SlotNext
<1>. USE DEF Inv, Kept
<1>1. /\ call.at = "recover" /\ call.name = n /\ call.seen # "unread" /\ UNCHANGED <<disk, proc>>
      /\ task' = [task EXCEPT ![n] = [there |-> TRUE,
                                      deleting |-> disk[n].json = "deleting",
                                      state |-> Inspected(n, call.seen)]]
      /\ call'.at \in {"free", "recover"} /\ call'.seen = "unread"
  BY DEF RecoverTask, Recovering, Idle
<1>2. n \in Stored
  BY <1>1 DEF LooksInTurn, Mirrored
<1>3. disk[n].json \in {"live", "deleting"}
  BY <1>2 DEF Stored, TypeOK, Dirs
<1>4. /\ task'[n].there /\ (task'[n].deleting <=> disk[n].json = "deleting")
      /\ task'[n].state = Inspected(n, call.seen)
      /\ \A m \in Names \ {n} : task'[m] = task[m]
  BY <1>1 DEF TypeOK
<1>5. \A m \in Names : Candidate(m)' => Candidate(m)
  BY <1>1 DEF Candidate, Live, NoExit, MayRun
<1>6. Active(n)' => Candidate(n)
  <2>1. ~task'[n].deleting <=> Live(n)
    BY <1>3, <1>4 DEF Live
  <2>. QED
    BY <1>1, <1>4, <2>1, LookFinds DEF Active, ActiveTask
<1>7. \A m \in Names \ {n} : Active(m)' <=> Active(m)
  BY <1>4 DEF Active
<1>8. Leaving
  BY <1>5, <1>6, <1>7 DEF Leaving, Held
<1>9. Status(n) = disk[n].json
  BY <1>1, StatusOnDisk DEF Creation
<1>10. Status(n)' = disk[n].json
  <2>1. Status(n)' = IF task'[n].deleting THEN "deleting" ELSE "live"
    BY <1>4 DEF Status
  <2>. QED
    BY <1>3, <1>4, <2>1
<1>11. \A m \in Names \ {n} : Status(m)' = Status(m)
  BY <1>1, <1>4 DEF Status, Creation
<1>. QED
  BY <1>8, <1>9, <1>10, <1>11, Leaves

LEMMA ExamineSlot ==
  ASSUME Inv, NEW n \in Names, Examine(n)
  PROVE  Slot!SlotNext
<1>. USE DEF Inv, Kept
<1>1. /\ call.at = "reconcile" /\ call.name = n /\ call.seen # "unread" /\ UNCHANGED proc
      /\ n \in There /\ n \in Stored
  BY DEF Examine, LooksInTurn, Mirrored, Creation
<1>2. call'.at \in {"free", "reconcile"} /\ call'.seen = "unread"
  <2>1. PICK look, doomed : call' = Looked(look, doomed)
    BY DEF Examine
  <2>. QED
    BY <2>1 DEF Looked, Idle
<1>3. UNCHANGED disk
  <2>1. disk[n].json = IF task[n].deleting THEN "deleting" ELSE "live"
    BY <1>1 DEF Durable, DeletionDurable, Stored, TypeOK, Dirs
  <2>. QED
    BY <2>1 DEF Examine, TypeOK, Dirs
<1>4. task' = task \/ task' = [task EXCEPT ![n].state = Inspected(n, call.seen)]
  BY DEF Examine
<1>5. \A m \in Names : task'[m].there = task[m].there /\ task'[m].deleting = task[m].deleting
  BY <1>4 DEF TypeOK, Tasks
<1>6. \A m \in Names : Candidate(m)' => Candidate(m)
  BY <1>1, <1>2, <1>3 DEF Candidate, Live, NoExit, MayRun
<1>7. \A m \in Names \ {n} : Active(m)' <=> Active(m)
  BY <1>4 DEF Active, TypeOK
<1>8. Active(n)' => Held(n)
  <2>1. CASE task' = task
    BY <2>1 DEF Active, Held
  <2>2. CASE task' = [task EXCEPT ![n].state = Inspected(n, call.seen)]
    <3>1. task'[n].state = Inspected(n, call.seen)
      BY <2>2 DEF TypeOK, Tasks
    <3>2. ~task[n].deleting => Live(n)
      BY <1>1 DEF Durable, DeletionDurable, Live, Stored, TypeOK, Dirs
    <3>. QED
      BY <1>1, <1>5, <3>1, <3>2, LookFinds DEF Active, ActiveTask, Held
  <2>. QED
    BY <1>4, <2>1, <2>2
<1>9. Leaving
  BY <1>6, <1>7, <1>8 DEF Leaving, Held
<1>10. \A m \in Names : Status(m)' = Status(m)
  BY <1>1, <1>2, <1>3, <1>5 DEF Status, Creation
<1>. QED
  BY <1>9, <1>10, Leaves

LEMMA FinalizeSlot ==
  ASSUME Inv, NEW n \in Names, Finalize(n)
  PROVE  Slot!SlotNext
<1>. USE DEF Inv, Kept
<1>1. /\ call.at = "reconcile" /\ n \in call.doomed /\ UNCHANGED proc
      /\ disk' = [disk EXCEPT ![n] = NoDir] /\ task' = [task EXCEPT ![n] = NoTask]
      /\ call' = Looked({}, call.doomed \ {n})
  BY DEF Finalize, Finalizing
<1>2. call'.at \in {"free", "reconcile"} /\ call'.seen = "unread"
  BY <1>1 DEF Looked, Idle
<1>3. disk'[n].json = "none" /\ \A m \in Names \ {n} : disk'[m] = disk[m]
  BY <1>1 DEF NoDir, TypeOK
<1>4. ~task'[n].there /\ \A m \in Names \ {n} : task'[m] = task[m]
  BY <1>1 DEF NoTask, TypeOK
<1>5. task[n].there /\ task[n].deleting
  BY <1>1 DEF Durable
<1>6. \A m \in Names : Held(m)' => Held(m)
  BY <1>1, <1>2, <1>3, <1>4 DEF Held, Candidate, Live, NoExit, MayRun, Active, ActiveTask
<1>7. Status(n) = "deleting" /\ Status(n)' = "none"
  BY <1>2, <1>3, <1>4, <1>5 DEF Status, Creation
<1>8. \A m \in Names \ {n} : Status(m)' = Status(m)
  BY <1>1, <1>2, <1>3, <1>4 DEF Status, Creation
<1>9. Slot!Become(n, "deleting", "none")
  BY <1>7, <1>8, Becomes
<1>. QED
  BY <1>6, <1>9 DEF Slot!SlotNext, Slot!Remove, Held, Active

\* A crash accepts the creation under way, if its task is on disk, and may
\* complete the removal under way.
LEMMA CrashSlot ==
  ASSUME Inv, InTurn, Crash
  PROVE  Slot!SlotNext
<1>. USE DEF Inv, Kept
<1>1. /\ call'.at = "down" /\ call'.seen = "unread"
      /\ \A m \in Names : ~task'[m].there
  BY DEF Crash, Idle, NoTask
<1>2. \A m \in Names : Status(m)' = disk'[m].json
  BY <1>1 DEF Status, Creation
<1>3. \A i \in Procs : Alive(proc'[i]) => proc'[i] = proc[i]
  <2>1. \A q : q.shim # "unused" => Killed(q).shim = "gone"
    BY DEF Killed, Gone, NoProcess
  <2>2. \A q : q.shim = "unused" => Killed(q) = q
    BY DEF Killed
  <2>. QED
    BY <2>1, <2>2 DEF Crash, Alive
<1>4. ASSUME NEW m \in Names, Live(m)' => disk'[m] = disk[m]
      PROVE  Held(m)' => Held(m)
  <2>1. ~Active(m)'
    BY <1>1 DEF Active, ActiveTask
  <2>2. disk'[m] = disk[m] /\ MayRun(m)' => MayRun(m)
    BY <1>3, PidIsProc DEF MayRun
  <2>3. disk'[m] = disk[m] /\ NoExit(m)' => NoExit(m)
    BY <1>1 DEF NoExit
  <2>. QED
    BY <1>4, <2>1, <2>2, <2>3 DEF Held, Candidate, Live
<1>5. CASE UNCHANGED disk /\ call.at \notin Creation
  <2>1. Leaving
    BY <1>4, <1>5 DEF Leaving
  <2>2. \A m \in Names : Status(m)' = Status(m)
    BY <1>2, <1>5, StatusOnDisk
  <2>. QED
    BY <2>1, <2>2, Leaves
<1>6. CASE UNCHANGED disk /\ call.at \in Creation
  <2>1. PICK n \in Names \ There : n = call.name /\ Live(n)
    BY <1>6 DEF CreationAlone
  <2>2. Status(n) = "creating" /\ Status(n)' = "live"
    <3>1. Status(n) = "creating"
      BY <1>6, <2>1 DEF Status, There
    <3>2. Status(n)' = disk[n].json
      BY <1>2, <1>6, <2>1
    <3>. QED
      <4>1. disk[n].json = "live"
        BY <2>1 DEF Live
      <4>. QED
        BY <3>1, <3>2, <4>1
  <2>3. \A m \in Names \ {n} : Status(m)' = Status(m)
    BY <1>2, <1>6, <2>1, StatusOnDisk
  <2>4. \A m \in Names : Held(m)' => Held(m)
    BY <1>4, <1>6
  <2>5. Slot!Become(n, "creating", "live")
    BY <2>1, <2>2, <2>3, Becomes
  <2>. QED
    BY <2>1, <2>4, <2>5 DEF Slot!SlotNext, Slot!Accept, Held, Active
<1>7. CASE \E m \in call.doomed : \E dir \in Torn(disk[m]) : disk' = [disk EXCEPT ![m] = dir]
  <2>. PICK n \in call.doomed : \E dir \in Torn(disk[n]) : disk' = [disk EXCEPT ![n] = dir]
    BY <1>7
  <2>1. PICK dir \in Torn(disk[n]) : disk' = [disk EXCEPT ![n] = dir]
    OBVIOUS
  <2>2. n \in Names /\ n \in There /\ disk[n].json = "deleting"
    BY DEF Durable, DeletionDurable, There, TypeOK, Calls
  <2>3. dir.json \in {"deleting", "none"}
    BY <2>2 DEF Torn
  <2>4. disk'[n] = dir /\ \A m \in Names \ {n} : disk'[m] = disk[m]
    BY <2>1, <2>2 DEF TypeOK
  <2>5. call.at \notin Creation
    BY DEF InTurn, Creation
  <2>6. \A m \in Names : Held(m)' => Held(m)
    BY <1>4, <2>3, <2>4 DEF Live
  <2>7. \A m \in Names \ {n} : Status(m)' = Status(m)
    BY <1>2, <2>4, <2>5, StatusOnDisk
  <2>8. Status(n) = "deleting" /\ Status(n)' = dir.json
    BY <1>2, <2>2, <2>4, <2>5, StatusOnDisk
  <2>9. CASE dir.json = "deleting"
    <3>1. \A m \in Names : Status(m)' = Status(m)
      BY <2>7, <2>8, <2>9
    <3>. QED
      BY <2>6, <3>1, Leaves DEF Leaving
  <2>10. CASE dir.json = "none"
    <3>1. Slot!Become(n, "deleting", "none")
      BY <2>2, <2>7, <2>8, <2>10, Becomes
    <3>. QED
      BY <2>2, <2>6, <3>1 DEF Slot!SlotNext, Slot!Remove, Held, Active
  <2>. QED
    BY <2>3, <2>9, <2>10
<1>. QED
  BY <1>5, <1>6, <1>7 DEF Crash

LEMMA SlotStep ==
  ASSUME "storeWrite" \notin Faults, Inv, InTurn, [Next]_vars
  PROVE  Slot!SlotNext
<1>1. TypeOK
  BY DEF Inv
<1>2. ASSUME NEW drop, NEW add, Request(drop, add)
      PROVE  Slot!SlotNext
  <2>1. /\ call.at = "free" /\ UNCHANGED <<task, disk, proc>>
        /\ call'.at \in {"free", "sync"} /\ call'.seen = "unread"
    BY <1>2 DEF Request, Continue, Idle
  <2>. QED
    BY <2>1, QuietLeaves DEF Creation
<1>3. CASE RequestStep
  BY <1>2, <1>3 DEF RequestStep, Sync, Create, Delete
<1>4. CASE Reconcile \/ Restart
  <2>1. /\ call.at \in {"free", "down"} /\ UNCHANGED <<task, disk, proc>>
        /\ call'.at \in {"free", "reconcile", "recover"} /\ call'.seen = "unread"
    BY <1>4 DEF Reconcile, Restart, Recovering, Idle
  <2>. QED
    BY <2>1, QuietLeaves DEF Creation
<1>5. ASSUME NEW n \in Names, CreateRefused(n)
      PROVE  Slot!SlotNext
  <2>1. /\ call.at = "sync" /\ UNCHANGED <<task, disk, proc>>
        /\ call'.at \in {"free", "sync"} /\ call'.seen = "unread"
    BY <1>1, <1>5, GivesUpRests DEF CreateRefused
  <2>. QED
    BY <2>1, QuietLeaves DEF Creation
<1>6. CASE HolderStep
  <2>1. PICK n \in Names :
          \/ SoftDelete(n)
          \/ MakeDir(n) \/ CreateRefused(n) \/ SaveTask(n)
          \/ StartProcess(n) \/ StartFails(n) \/ WritePid(n)
          \/ ReadExit(n) \/ FinishCreate(n) \/ RecoverTask(n) \/ Examine(n) \/ Finalize(n)
    BY <1>6 DEF HolderStep, WritePidFails, FinalizeFails, WriteMayFail
  <2>. QED
    BY <1>5, <2>1, SoftDeleteSlot, MakeDirSlot, SaveTaskSlot, StartProcessSlot, StartFailsSlot,
       WritePidSlot, ReadExitSlot, FinishCreateSlot, RecoverTaskSlot, ExamineSlot, FinalizeSlot
<1>7. CASE StopStep
  BY <1>1, <1>7, StopIsWorldStep, WorldLeaves
<1>8. CASE ProcessStep
  BY <1>1, <1>8, ProcessIsWorldStep, WorldLeaves
<1>9. CASE UNCHANGED vars
  BY <1>1, <1>9, WorldLeaves DEF vars, memory, WorldStep
<1>. QED
  BY <1>3, <1>4, <1>6, <1>7, <1>8, <1>9, CrashSlot DEF Next

LEMMA SlotStart == Init => InTurn /\ Slot!SlotInit
<1>. SUFFICES ASSUME Init PROVE InTurn /\ Slot!SlotInit
  OBVIOUS
<1>1. call.at = "free" /\ call.doomed = {}
  BY DEF Init, Idle
<1>2. \A n \in Names : ~task[n].there /\ disk[n].json = "none"
  BY DEF Init, NoTask, NoDir
<1>3. \A n \in Names : Status(n) = "none"
  BY <1>1, <1>2 DEF Status, Creation
<1>4. \A n \in Names : ~Candidate(n) /\ ~ActiveTask(task[n])
  BY <1>2 DEF Candidate, Live, ActiveTask
<1>. QED
  BY <1>1, <1>3, <1>4 DEF InTurn, Slot!SlotInit

\* When writes to the disk succeed, the executor implements the slot, whatever
\* crashes and restarts come between: a task that has left the slot never has it
\* again, and no accepted task and no deletion is lost (ImplementsSlot;
\* createTaskLocked, softDeleteLocked, reconcileTasks, recoverTasks).
THEOREM SlotImplemented ==
  ASSUME "storeWrite" \notin Faults
  PROVE  Spec => ImplementsSlot
<1>1. Inv /\ InTurn /\ [Next]_vars => [Slot!SlotNext]_(Slot!slot)
  BY SlotStep
<1>2. Inv => TypeOK
  BY DEF Inv
<1>. QED
  BY <1>1, <1>2, Invariance, InTurnNext, SlotStart, PTL
     DEF Spec, ImplementsSlot, Slot!SlotSpec
===============================================================================
