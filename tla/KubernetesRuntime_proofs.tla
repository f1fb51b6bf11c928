------------------------ MODULE KubernetesRuntime_proofs ------------------------
(***************************************************************************)
(* Proofs about KubernetesRuntime, for any sandboxes, requests, bounds and *)
(* faults: its types, that deletions are answered truthfully, that a       *)
(* creation leaves all or nothing, that manual cleanup stays, that the     *)
(* informer's cache is the cluster as of one revision, and that all of it  *)
(* implements SandboxLife.                                                 *)
(***************************************************************************)
EXTENDS KubernetesRuntime, WellFoundedInduction, TLAPS

-----------------------------------------------------------------------------
(* The parts of the inductive invariants.                                  *)

\* The cursor is set whenever the informer has synced, nothing is newer than the
\* cluster, and a thread that has a step belongs to a request.
Ordered ==
  /\ synced => cursor # NoVersion
  /\ informer = "watching" => synced
  /\ cursor <= Revision /\ stream <= Revision /\ listed.version <= Revision
  /\ \A s \in Sandboxes : objects[s].version <= Revision
  /\ \A p \in Procs : at[p].seen.version <= Revision
  /\ \A p \in Procs : at[p].step # "idle" => at[p].op # "none"

Typed == TypeOK /\ Ordered

\* Which request is at which step, and for which sandbox; only the event loop
\* changes the cluster.
Turn(p, t, ended) ==
  /\ t.step \in {"create", "secret", "rollback"} => t.op = "create"
  /\ t.step = "patch" => t.op = "renew" /\ t.checked
  /\ t.step = "remove" => t.op = "delete"
  /\ t.op = "create" => ended[t.box] = "creating"
  /\ t.op \in {"get", "renew", "delete"} => ended[t.box] = "ok"
  /\ t.op \in {"create", "renew", "delete"} => p = Server
  /\ t.step = "store" => t.seen # NoObject
  /\ t.op = "renew" => t.shape.expire # NoTTL

InTurns == \A p \in Procs : Turn(p, at[p], outcome)

\* An object whose pull secret is missing is still being created, and a secret
\* has an object.
Creating(s) ==
  /\ at[Server].box = s /\ at[Server].op = "create"
  /\ at[Server].step \in {"look", "fetch", "store"}

OwnedBy(s) ==
  /\ s \in secrets => objects[s] # NoObject
  /\ outcome[s] = "ok" \/ Creating(s) => (objects[s].secret => s \in secrets)
  /\ outcome[s] \in {"new", "refused", "undone"} => objects[s] = NoObject

Owned == \A s \in Sandboxes : OwnedBy(s)

\* No task keeps an object from a rollback.
Unheld ==
  at[Server].step \in {"secret", "rollback"} => objects[at[Server].box].hold = "none"

Deleted == \A s \in gone : outcome[s] = "ok" /\ ~Alive(s)

\* What anybody holds of a sandbox was written once, and every version of it
\* has an expiration, or none has.
Written(s, o) == o # NoObject => \E i \in DOMAIN history : history[i] = [box |-> s, object |-> o]

Recalled ==
  /\ \A s \in Sandboxes : Written(s, objects[s]) /\ Written(s, cache[s]) /\ Written(s, listed.objects[s])
  /\ \A p \in Procs : Written(at[p].box, at[p].seen)

OneKind ==
  \A i, j \in DOMAIN history :
    history[i].box = history[j].box /\ history[i].object # NoObject /\ history[j].object # NoObject
    => (history[i].object.expire = NoTTL <=> history[j].object.expire = NoTTL)

Unmade ==
  \A s \in Sandboxes :
    outcome[s] \in {"new", "refused"} \/ (at[Server].box = s /\ at[Server].step = "create")
    => Unwritten(s)

CheckedOnce ==
  \A p \in Procs : at[p].op = "renew" /\ at[p].checked =>
    \E i \in DOMAIN history :
      history[i].box = at[p].box /\ history[i].object # NoObject /\ history[i].object.expire # NoTTL

Lasting == Recalled /\ OneKind /\ Unmade /\ CheckedOnce

\* The list and the cache are the cluster as of a revision, and while no get
\* was stored the cursor says of which.
Snapshots ==
  /\ \A s \in Sandboxes : objects[s] = Version(s, Revision)
  /\ informer = "listed" => \A s \in Sandboxes : listed.objects[s] = Version(s, listed.version)
  /\ informer = "listed" /\ ~direct => cursor <= listed.version
  /\ informer = "watching" /\ ~direct => stream = cursor
  /\ CacheIsSnapshot
-----------------------------------------------------------------------------
(* Types.                                                                  *)

Threads == [op : Ops, step : Steps, box : Sandboxes, shape : Shapes,
            seen : MaybeObjects, checked : BOOLEAN]
Drafts == [version : 0..MaxRevision, expire : Expiries, secret : BOOLEAN, phase : Phases,
           hold : Holds]

LEMMA ObjectsTyped ==
  /\ NoObject \in MaybeObjects /\ MaybeObjects \subseteq Drafts
  /\ \A o \in Drafts, r \in 1..MaxRevision : [o EXCEPT !.version = r] \in Objects
  /\ \A o \in Objects : o.version \in 1..MaxRevision /\ o # NoObject
  /\ NoObject.version = 0 /\ NoObject.secret = FALSE /\ NoObject.hold = "none"
<1>1. /\ NoObject \in MaybeObjects /\ NoObject.version = 0 /\ NoObject.secret = FALSE
      /\ NoObject.hold = "none"
  BY DEF MaybeObjects, NoObject
<1>2. NoObject \in Drafts
  BY KubernetesAssumption DEF NoObject, Drafts, Expiries, Phases, Holds
<1>3. Objects \subseteq Drafts
  BY KubernetesAssumption DEF Objects, Drafts
<1>4. MaybeObjects \subseteq Drafts
  BY <1>2, <1>3 DEF MaybeObjects
<1>5. \A o \in Drafts, r \in 1..MaxRevision : [o EXCEPT !.version = r] \in Objects
  BY KubernetesAssumption DEF Objects, Drafts
<1>6. \A o \in Objects : o.version \in 1..MaxRevision /\ o # NoObject
  BY <1>1 DEF Objects
<1> QED
  BY <1>1, <1>4, <1>5, <1>6

LEMMA VersionsTyped ==
  ASSUME NEW o \in MaybeObjects
  PROVE  o.version \in 0..MaxRevision /\ o.expire \in Expiries
BY ObjectsTyped DEF Drafts

LEMMA IdleTyped == Idle \in Threads /\ Idle.op = "none" /\ Idle.step = "idle"
                   /\ Idle.seen = NoObject /\ ~Idle.checked
<1>1. PICK any \in Sandboxes : TRUE
  BY KubernetesAssumption
<1>2. (CHOOSE s \in Sandboxes : TRUE) \in Sandboxes
  BY <1>1
<1>3. NoShape \in Shapes /\ NoObject \in MaybeObjects
  BY DEF NoShape, Shapes, Expiries, NoTTL, MaybeObjects
<1> QED
  BY <1>2, <1>3 DEF Idle, Threads, Ops, Steps

LEMMA ThreadsTyped == TypeOK => at \in [Procs -> Threads]
BY DEF TypeOK, Threads

\* A thread's next step is a change of that thread alone.
LEMMA GotoThread ==
  ASSUME at \in [Procs -> Threads], NEW p \in Procs, NEW step \in Steps, Goto(p, step)
  PROVE  /\ at' = [at EXCEPT ![p] = [at[p] EXCEPT !.step = step]]
         /\ [at[p] EXCEPT !.step = step] \in Threads
<1>1. at[p] \in Threads
  OBVIOUS
<1> QED
  BY <1>1 DEF Goto, Threads

LEMMA BeginThread ==
  ASSUME NEW op \in Ops, NEW step \in Steps, NEW s \in Sandboxes, NEW shape \in Shapes
  PROVE  [Idle EXCEPT !.op = op, !.step = step, !.box = s, !.shape = shape] \in Threads
BY IdleTyped DEF Threads

\* What a lookup leads to, whatever it has found.
AfterFound(p, t) ==
  \/ t = Idle
  \/ /\ at[p].op = "renew" /\ ~at[p].checked
     /\ t = [at[p] EXCEPT !.step = "look", !.seen = NoObject, !.checked = TRUE]
  \/ /\ at[p].op = "renew" /\ at[p].checked
     /\ t = [at[p] EXCEPT !.step = "patch", !.seen = NoObject, !.checked = TRUE]
  \/ /\ at[p].op = "delete"
     /\ t = [at[p] EXCEPT !.step = "remove", !.seen = NoObject]

LEMMA FoundEffect ==
  ASSUME Typed, NEW p \in Procs, NEW object, at[p].op # "none", Found(p, object)
  PROVE  /\ \E t \in Threads : AfterFound(p, t) /\ at' = [at EXCEPT ![p] = t]
                    /\ (at[p].op = "renew" /\ ~at[p].checked /\ t.checked
                          => object # NoObject /\ object.expire # NoTTL)
         /\ IF at[p].op = "create"
              THEN outcome' = [outcome EXCEPT ![at[p].box] = IF object = NoObject THEN "unread" ELSE "ok"]
              ELSE outcome' = outcome
         /\ gone' = IF at[p].op = "delete" /\ object = NoObject THEN gone \cup {at[p].box} ELSE gone
<1>1. at \in [Procs -> Threads] /\ at[p] \in Threads
  BY ThreadsTyped DEF Typed
<1>2. NoObject \in MaybeObjects
  BY DEF MaybeObjects
<1>3. Finish(p) => \E t \in Threads : AfterFound(p, t) /\ at' = [at EXCEPT ![p] = t] /\ ~t.checked
  BY IdleTyped DEF Finish, AfterFound
<1>4. CASE at[p].op = "create"
  BY <1>3, <1>4 DEF Found, Ended
<1>5. CASE at[p].op = "get"
  BY <1>3, <1>5 DEF Found
<1>6. CASE at[p].op = "renew"
  <2>1. UNCHANGED <<outcome, gone>>
    BY <1>6 DEF Found
  <2>2. CASE Finish(p)
    BY <1>3, <1>6, <2>1, <2>2
  <2>3. CASE ~Finish(p)
    <3> DEFINE step == IF at[p].checked THEN "patch" ELSE "look"
               t == [at[p] EXCEPT !.step = step, !.seen = NoObject, !.checked = TRUE]
    <3>1. /\ at' = [at EXCEPT ![p].step = step, ![p].seen = NoObject, ![p].checked = TRUE]
          /\ object # NoObject /\ (at[p].checked \/ object.expire # NoTTL)
      BY <1>6, <2>3 DEF Found
    <3>2. step \in Steps
      BY DEF Steps
    <3>3. t \in Threads
      BY <1>1, <1>2, <3>2 DEF Threads
    <3>4. at' = [at EXCEPT ![p] = t]
      BY <1>1, <3>1
    <3>5. AfterFound(p, t)
      BY <1>6 DEF AfterFound
    <3> QED
      BY <1>6, <2>1, <3>1, <3>3, <3>4, <3>5
  <2> QED
    BY <2>2, <2>3
<1>7. CASE at[p].op = "delete"
  <2>1. /\ outcome' = outcome
        /\ gone' = IF object = NoObject THEN gone \cup {at[p].box} ELSE gone
    BY <1>7 DEF Found
  <2>2. CASE Finish(p)
    BY <1>3, <1>7, <2>1, <2>2
  <2>3. CASE ~Finish(p)
    <3> DEFINE t == [at[p] EXCEPT !.step = "remove", !.seen = NoObject]
    <3>1. at' = [at EXCEPT ![p].step = "remove", ![p].seen = NoObject]
      BY <1>7, <2>3 DEF Found
    <3>2. t \in Threads
      BY <1>1, <1>2 DEF Threads, Steps
    <3>3. at' = [at EXCEPT ![p] = t] /\ AfterFound(p, t)
      BY <1>1, <1>7, <3>1 DEF AfterFound
    <3> QED
      BY <1>7, <2>1, <3>2, <3>3
  <2> QED
    BY <2>2, <2>3
<1> QED
  BY <1>1, <1>4, <1>5, <1>6, <1>7 DEF Threads, Ops
-----------------------------------------------------------------------------
\* The parts of Typed, for the groups of variables that actions change.
Clustered ==
  /\ objects \in [Sandboxes -> MaybeObjects]
  /\ history \in Seq([box : Sandboxes, object : MaybeObjects])
  /\ Revision <= MaxRevision
  /\ secrets \subseteq Sandboxes
  /\ \A s \in Sandboxes : objects[s].version <= Revision

Threaded ==
  /\ at \in [Procs -> Threads]
  /\ \A p \in Procs : at[p].seen.version <= Revision
  /\ \A p \in Procs : at[p].step # "idle" => at[p].op # "none"

Informed ==
  /\ cache \in [Sandboxes -> MaybeObjects]
  /\ cursor \in {NoVersion} \cup 0..MaxRevision
  /\ synced \in BOOLEAN
  /\ informer \in {"off", "loop", "listed", "watching"}
  /\ listed \in [objects : [Sandboxes -> MaybeObjects], version : 0..MaxRevision]
  /\ stream \in 0..MaxRevision
  /\ direct \in BOOLEAN
  /\ synced => cursor # NoVersion
  /\ informer = "watching" => synced
  /\ cursor <= Revision /\ stream <= Revision /\ listed.version <= Revision

Answered ==
  /\ now \in 0..MaxTime
  /\ outcome \in [Sandboxes -> Outcomes]
  /\ gone \subseteq Sandboxes
  /\ faults \in 0..MaxFaults

LEMMA TypedParts == Typed <=> Clustered /\ Threaded /\ Informed /\ Answered
BY DEF Typed, TypeOK, Ordered, Clustered, Threaded, Threads, Informed, Answered

LEMMA HistoryTyped ==
  ASSUME Typed, NEW i \in 1..Revision
  PROVE  /\ history[i].box \in Sandboxes /\ history[i].object \in MaybeObjects
         /\ history[i] = [box |-> history[i].box, object |-> history[i].object]
<1> DEFINE changes == [box : Sandboxes, object : MaybeObjects]
<1>1. history \in Seq(changes)
  BY DEF Typed, TypeOK
<1>2. history[i] \in changes
  <2> HIDE DEF changes
  <2> QED
    BY <1>1 DEF Revision
<1> QED
  BY <1>2

LEMMA RevisionTyped == Typed => Revision \in 0..MaxRevision
BY KubernetesAssumption DEF Typed, TypeOK, Revision

\* A change of the cluster is one revision, and what it wrote is the object.
LEMMA WriteEffect ==
  ASSUME Typed, NEW s \in Sandboxes, NEW o \in MaybeObjects,
         o.version <= Revision + 1, Write(s, o), secrets' \subseteq Sandboxes
  PROVE  /\ Clustered'
         /\ Revision' = Revision + 1
         /\ objects' = [objects EXCEPT ![s] = o]
         /\ history' = Append(history, [box |-> s, object |-> o])
<1>1. Revision \in 0..MaxRevision /\ Revision < MaxRevision
  BY RevisionTyped DEF Write
<1>2. /\ history \in Seq([box : Sandboxes, object : MaybeObjects])
      /\ [box |-> s, object |-> o] \in [box : Sandboxes, object : MaybeObjects]
  BY DEF Typed, TypeOK
<1>3. /\ objects' = [objects EXCEPT ![s] = o]
      /\ history' = Append(history, [box |-> s, object |-> o])
  BY DEF Write
<1>4. history' \in Seq([box : Sandboxes, object : MaybeObjects]) /\ Revision' = Revision + 1
  BY <1>2, <1>3 DEF Revision
<1>5. objects \in [Sandboxes -> MaybeObjects] /\ \A x \in Sandboxes : objects[x].version <= Revision
  BY DEF Typed, TypeOK, Ordered
<1>6. objects' \in [Sandboxes -> MaybeObjects]
  BY <1>3, <1>5
<1>7. ASSUME NEW x \in Sandboxes
      PROVE  objects'[x].version <= Revision + 1
  <2>1. objects[x].version \in 0..MaxRevision
    BY <1>5, VersionsTyped
  <2> QED
    BY <1>1, <1>3, <1>5, <2>1
<1>8. MaxRevision \in Nat
  BY KubernetesAssumption
<1> QED
  BY <1>1, <1>3, <1>4, <1>6, <1>7, <1>8 DEF Clustered

LEMMA PutEffect ==
  ASSUME Typed, NEW s \in Sandboxes, NEW o \in Drafts, Put(s, o)
  PROVE  LET x == [o EXCEPT !.version = Revision + 1]
         IN  /\ x \in Objects /\ x # NoObject
             /\ Write(s, x) /\ secrets' = secrets
             /\ Clustered' /\ Revision' = Revision + 1
<1> DEFINE x == [o EXCEPT !.version = Revision + 1]
<1>1. Write(s, x) /\ secrets' = secrets
  BY DEF Put
<1>2. Revision + 1 \in 1..MaxRevision
  BY <1>1, RevisionTyped, KubernetesAssumption DEF Write
<1>3. x \in Objects
  BY <1>2, ObjectsTyped
<1>4. x \in MaybeObjects /\ x.version = Revision + 1 /\ x # NoObject
  <2>1. x \in MaybeObjects /\ x # NoObject
    BY <1>3, ObjectsTyped DEF MaybeObjects
  <2>2. x.version = Revision + 1
    BY DEF Drafts
  <2> QED
    BY <2>1, <2>2
<1>5. secrets' \subseteq Sandboxes
  BY <1>1 DEF Typed, TypeOK
<1>6. x.version <= Revision + 1
  BY <1>2, <1>4
<1>7. Clustered' /\ Revision' = Revision + 1
  BY <1>1, <1>4, <1>5, <1>6, WriteEffect
<1> QED
  BY <1>1, <1>3, <1>4, <1>7

LEMMA DropEffect ==
  ASSUME Typed, NEW s \in Sandboxes, Drop(s)
  PROVE  /\ Write(s, NoObject) /\ secrets' = secrets \ {s}
         /\ Clustered' /\ Revision' = Revision + 1
<1>1. Write(s, NoObject) /\ secrets' = secrets \ {s}
  BY DEF Drop
<1>2. NoObject \in MaybeObjects /\ NoObject.version <= Revision + 1
  BY ObjectsTyped, RevisionTyped
<1>3. secrets' \subseteq Sandboxes
  BY <1>1 DEF Typed, TypeOK
<1> QED
  BY <1>1, <1>2, <1>3, WriteEffect

\* What an action may do to the cluster, and to which sandbox.
ClusterStep(s) ==
  \/ UNCHANGED cluster
  \/ \E o \in Drafts : Put(s, o)
  \/ Drop(s)
  \/ UNCHANGED <<objects, history>> /\ secrets' \in {secrets, secrets \cup {s}}

LEMMA ClusterGrows ==
  ASSUME Typed, NEW s \in Sandboxes, ClusterStep(s)
  PROVE  Clustered' /\ Revision <= Revision' /\ Revision' \in 0..MaxRevision
<1>1. Revision \in 0..MaxRevision /\ Clustered
  BY RevisionTyped, TypedParts
<1>2. CASE UNCHANGED cluster
  BY <1>1, <1>2 DEF cluster, Clustered, Revision
<1>3. CASE \E o \in Drafts : Put(s, o)
  <2>1. Clustered' /\ Revision' = Revision + 1
    BY <1>3, PutEffect
  <2> QED
    BY <1>1, <2>1, KubernetesAssumption DEF Clustered
<1>4. CASE Drop(s)
  <2>1. Clustered' /\ Revision' = Revision + 1
    BY <1>4, DropEffect
  <2> QED
    BY <1>1, <2>1, KubernetesAssumption DEF Clustered
<1>5. CASE UNCHANGED <<objects, history>> /\ secrets' \in {secrets, secrets \cup {s}}
  BY <1>1, <1>5 DEF Clustered, Revision
<1> QED
  BY <1>2, <1>3, <1>4, <1>5 DEF ClusterStep

\* The drafts that requests and the controller make are typed.
LEMMA DraftsTyped ==
  ASSUME Typed, NEW s \in Sandboxes, NEW shape \in Shapes
  PROVE  /\ NewObject(shape) \in Drafts
         /\ objects[s] \in Drafts
         /\ [objects[s] EXCEPT !.expire = shape.expire] \in Drafts
         /\ [objects[s] EXCEPT !.phase = "Running"] \in Drafts
         /\ \A h \in Holds : [objects[s] EXCEPT !.hold = h] \in Drafts
<1>1. objects[s] \in Drafts
  BY ObjectsTyped DEF Typed, TypeOK
<1>2. NewObject(shape) \in Drafts
  BY KubernetesAssumption DEF NewObject, Drafts, Shapes, Phases, Holds
<1>3. [objects[s] EXCEPT !.expire = shape.expire] \in Drafts
  BY <1>1 DEF Drafts, Shapes
<1>4. [objects[s] EXCEPT !.phase = "Running"] \in Drafts
  BY <1>1 DEF Drafts, Phases
<1>5. \A h \in Holds : [objects[s] EXCEPT !.hold = h] \in Drafts
  BY <1>1 DEF Drafts
<1> QED
  BY <1>1, <1>2, <1>3, <1>4, <1>5

\* An object that is changed in place keeps its secret, is never held from its
\* deletion unless it has a task, and never leaves its way out.
Amends(s, o) ==
  /\ o.secret = objects[s].secret
  /\ objects[s].hold = "none" => o.hold = "none"
  /\ objects[s].hold = "dying" => o.hold = "dying"

Amended(s, o) == objects[s] # NoObject /\ Put(s, o) /\ Amends(s, o)

\* What a deletion does to the cluster.
LEMMA RemoveIs ==
  ASSUME Typed, NEW s \in Sandboxes, Remove(s)
  PROVE  \/ UNCHANGED cluster /\ ~Alive(s)
         \/ objects[s] # NoObject /\ Drop(s)
         \/ \E o \in Drafts : /\ Amended(s, o) /\ o.expire = objects[s].expire
                              /\ objects[s].hold = "held" /\ o.hold = "dying"
<1>1. objects[s] \in Drafts
  BY ObjectsTyped DEF Typed, TypeOK
<1>2. CASE objects[s].hold = "held" /\ Put(s, [objects[s] EXCEPT !.hold = "dying"])
  <2>1. PICK o \in Drafts : o = [objects[s] EXCEPT !.hold = "dying"]
    BY <1>1 DEF Drafts, Holds
  <2>2. o.secret = objects[s].secret /\ o.expire = objects[s].expire /\ o.hold = "dying"
    BY <1>1, <2>1 DEF Drafts
  <2>3. objects[s] # NoObject
    BY <1>2, ObjectsTyped
  <2> QED
    BY <1>2, <2>1, <2>2, <2>3 DEF Amended, Amends
<1> QED
  BY <1>2 DEF Remove, Alive

\* What the controller of the workloads does to an object.
LEMMA ControllerIs ==
  ASSUME Typed, NEW s \in Sandboxes, Progress(s) \/ Hold(s) \/ Finalize(s) \/ Expire(s)
  PROVE  /\ UNCHANGED <<now, informing, clients, faults>>
         /\ \/ objects[s] # NoObject /\ Drop(s)
            \/ \E o \in Drafts : Amended(s, o) /\ o.expire = objects[s].expire
<1>1. objects[s] \in Drafts
  BY ObjectsTyped DEF Typed, TypeOK
<1>2. UNCHANGED <<now, informing, clients, faults>>
  BY DEF Progress, Hold, Finalize, Expire
<1>3. CASE Progress(s)
  <2>1. PICK o \in Drafts : o = [objects[s] EXCEPT !.phase = "Running"]
    BY <1>1 DEF Drafts, Phases
  <2>2. o.secret = objects[s].secret /\ o.expire = objects[s].expire /\ o.hold = objects[s].hold
    BY <1>1, <2>1 DEF Drafts
  <2>3. objects[s] # NoObject /\ Put(s, o)
    BY <1>3, <2>1 DEF Progress
  <2> QED
    BY <1>2, <2>2, <2>3 DEF Amended, Amends
<1>4. CASE Hold(s)
  <2>1. PICK o \in Drafts : o = [objects[s] EXCEPT !.hold = "held"]
    BY <1>1 DEF Drafts, Holds
  <2>2. o.secret = objects[s].secret /\ o.expire = objects[s].expire
    BY <1>1, <2>1 DEF Drafts
  <2>3. objects[s].hold = "task" /\ Put(s, o)
    BY <1>4, <2>1 DEF Hold
  <2> QED
    BY <1>2, <2>2, <2>3, ObjectsTyped DEF Amended, Amends
<1>5. CASE Finalize(s)
  BY <1>2, <1>5, ObjectsTyped DEF Finalize
<1>6. CASE Expire(s)
  <2>1. Remove(s) /\ Alive(s)
    BY <1>6 DEF Expire, Alive
  <2> QED
    BY <1>2, <2>1, RemoveIs
<1> QED
  BY <1>3, <1>4, <1>5, <1>6

\* What a renewal does to an object.
LEMMA RenewIs ==
  ASSUME Typed, NEW s \in Sandboxes, s = at[Server].box, at[Server].shape \in Shapes, RenewPatch
  PROVE  \/ UNCHANGED cluster
         \/ \E o \in Drafts : Amended(s, o) /\ o = [objects[s] EXCEPT !.expire = at[Server].shape.expire]
<1>1. PICK o \in Drafts : o = [objects[s] EXCEPT !.expire = at[Server].shape.expire]
  BY DraftsTyped
<1>2. o.secret = objects[s].secret /\ o.hold = objects[s].hold
  BY <1>1, ObjectsTyped DEF Drafts, Typed, TypeOK
<1>3. UNCHANGED cluster \/ (objects[s] # NoObject /\ Put(s, o))
  BY <1>1 DEF RenewPatch
<1> QED
  BY <1>1, <1>2, <1>3 DEF Amended, Amends

\* A thread that moves stays typed, and nothing it saw becomes newer than the cluster.
LEMMA ThreadMoves ==
  ASSUME Typed, NEW p \in Procs, NEW t \in Threads, at' = [at EXCEPT ![p] = t],
         Revision <= Revision', Revision' \in 0..MaxRevision,
         t.seen.version <= Revision', t.step # "idle" => t.op # "none"
  PROVE  Threaded'
<1>1. Threaded /\ Revision \in 0..MaxRevision
  BY TypedParts, RevisionTyped
<1>2. at' \in [Procs -> Threads]
  BY <1>1 DEF Threaded
<1>3. ASSUME NEW q \in Procs
      PROVE  at'[q].seen.version <= Revision' /\ (at'[q].step # "idle" => at'[q].op # "none")
  <2>1. at[q].seen.version \in 0..MaxRevision
    BY <1>1, VersionsTyped DEF Threaded, Threads
  <2>2. at'[q] = IF q = p THEN t ELSE at[q]
    BY <1>1 DEF Threaded
  <2> QED
    BY <1>1, <2>1, <2>2, KubernetesAssumption DEF Threaded
<1> QED
  BY <1>2, <1>3 DEF Threaded

LEMMA StaysClustered ==
  ASSUME Typed, UNCHANGED cluster
  PROVE  Clustered' /\ Revision' = Revision /\ Revision' \in 0..MaxRevision
BY TypedParts, RevisionTyped DEF Clustered, cluster, Revision

LEMMA StaysInformed ==
  ASSUME Typed, UNCHANGED informing, Revision <= Revision', Revision' \in 0..MaxRevision
  PROVE  Informed'
<1>1. Informed /\ Revision \in 0..MaxRevision
  BY TypedParts, RevisionTyped
<1>2. UNCHANGED <<cache, cursor, synced, informer, listed, stream, direct>>
  BY DEF informing
<1>3. cursor \in Int /\ stream \in Int /\ listed.version \in Int
  BY <1>1, KubernetesAssumption DEF Informed, NoVersion
<1>4. cursor <= Revision' /\ stream <= Revision' /\ listed.version <= Revision'
  BY <1>1, <1>3, KubernetesAssumption DEF Informed
<1> QED
  BY <1>1, <1>2, <1>4 DEF Informed

LEMMA StaysThreaded ==
  ASSUME Typed, UNCHANGED at, Revision <= Revision', Revision' \in 0..MaxRevision
  PROVE  Threaded'
<1>1. Threaded /\ Revision \in 0..MaxRevision
  BY TypedParts, RevisionTyped
<1>2. ASSUME NEW q \in Procs
      PROVE  at[q].seen.version <= Revision'
  <2>1. at[q].seen.version \in 0..MaxRevision
    BY <1>1, VersionsTyped DEF Threaded, Threads
  <2> QED
    BY <1>1, <2>1, KubernetesAssumption DEF Threaded
<1> QED
  BY <1>1, <1>2 DEF Threaded

LEMMA FailsTyped ==
  ASSUME Typed, NEW kind, Works \/ Fails(kind)
  PROVE  faults' \in 0..MaxFaults
BY KubernetesAssumption DEF Typed, TypeOK, Works, Fails

\* The moves of a thread: to its next step, to the end of its request, to a new
\* request, and to what a lookup leads to.
LEMMA GotoTyped ==
  ASSUME Typed, NEW p \in Procs, at[p].op # "none", NEW step \in Steps, Goto(p, step),
         Revision <= Revision', Revision' \in 0..MaxRevision
  PROVE  Threaded'
<1> DEFINE t == [at[p] EXCEPT !.step = step]
<1>1. at \in [Procs -> Threads] /\ Revision \in 0..MaxRevision
  BY ThreadsTyped, RevisionTyped DEF Typed
<1>2. at' = [at EXCEPT ![p] = t] /\ t \in Threads
  BY <1>1, GotoThread
<1>3. t.seen = at[p].seen /\ t.op = at[p].op
  BY <1>1 DEF Threads
<1>4. at[p].seen.version \in 0..MaxRevision /\ at[p].seen.version <= Revision
  BY <1>1, VersionsTyped DEF Threads, Typed, Ordered
<1>5. t.seen.version <= Revision'
  BY <1>1, <1>3, <1>4, KubernetesAssumption
<1> QED
  BY <1>2, <1>3, <1>5, ThreadMoves

LEMMA FinishTyped ==
  ASSUME Typed, NEW p \in Procs, Finish(p), Revision <= Revision', Revision' \in 0..MaxRevision
  PROVE  Threaded'
<1>1. Idle \in Threads /\ Idle.seen = NoObject /\ Idle.step = "idle"
  BY IdleTyped
<1>2. Idle.seen.version <= Revision'
  BY <1>1, ObjectsTyped, KubernetesAssumption
<1> QED
  BY <1>1, <1>2, ThreadMoves DEF Finish

LEMMA BeginTyped ==
  ASSUME Typed, NEW p \in Procs, NEW op \in Ops, op # "none", NEW step \in Steps, NEW s \in Sandboxes,
         NEW shape \in Shapes, Begin(p, op, step, s, shape),
         Revision <= Revision', Revision' \in 0..MaxRevision
  PROVE  Threaded'
<1> DEFINE t == [Idle EXCEPT !.op = op, !.step = step, !.box = s, !.shape = shape]
<1>1. t \in Threads /\ at' = [at EXCEPT ![p] = t]
  BY BeginThread DEF Begin
<1>2. t.op = op /\ t.seen = NoObject
  BY IdleTyped DEF Threads
<1>3. t.seen.version <= Revision'
  BY <1>2, ObjectsTyped, KubernetesAssumption
<1> QED
  BY <1>1, <1>2, <1>3, ThreadMoves

LEMMA FoundTyped ==
  ASSUME Typed, NEW p \in Procs, NEW object, at[p].op # "none", Found(p, object),
         Revision <= Revision', Revision' \in 0..MaxRevision
  PROVE  /\ Threaded'
         /\ outcome' \in [Sandboxes -> Outcomes]
         /\ gone' \subseteq Sandboxes
<1>1. at \in [Procs -> Threads] /\ at[p] \in Threads /\ at[p].box \in Sandboxes
  BY ThreadsTyped DEF Typed, Threads
<1>2. PICK t \in Threads : AfterFound(p, t) /\ at' = [at EXCEPT ![p] = t]
  BY FoundEffect
<1>3. t.seen = NoObject /\ (t.step # "idle" => t.op # "none")
  BY <1>1, <1>2, IdleTyped DEF AfterFound, Threads
<1>4. t.seen.version <= Revision'
  BY <1>3, ObjectsTyped, KubernetesAssumption
<1>5. Threaded'
  BY <1>2, <1>3, <1>4, ThreadMoves
<1>6. outcome' \in [Sandboxes -> Outcomes]
  BY <1>1, FoundEffect DEF Typed, TypeOK, Outcomes
<1>7. gone' \subseteq Sandboxes
  BY <1>1, FoundEffect DEF Typed, TypeOK
<1> QED
  BY <1>5, <1>6, <1>7

LEMMA StepOp ==
  ASSUME Typed, NEW p \in Procs, at[p].step # "idle"
  PROVE  /\ at[p] \in Threads /\ at[p].op # "none" /\ at[p].box \in Sandboxes
         /\ at[p].shape \in Shapes /\ at[p].seen \in MaybeObjects
BY ThreadsTyped DEF Typed, Ordered, Threads

LEMMA Servers == Server \in Procs /\ Executor \in Procs /\ Procs = {Server, Executor}
BY DEF Procs

\* What each action of the server does to the cluster.
LEMMA ServerCluster ==
  ASSUME Typed, CreateWorkload \/ CreateSecret \/ Rollback \/ RenewPatch \/ DeleteRemove
  PROVE  ClusterStep(at[Server].box)
<1> DEFINE s == at[Server].box
<1>1. at[Server].step # "idle"
  BY DEF CreateWorkload, CreateSecret, Rollback, RenewPatch, DeleteRemove
<1>2. s \in Sandboxes /\ at[Server].shape \in Shapes
  BY <1>1, StepOp, Servers
<1>3. CASE CreateWorkload
  <2>1. NewObject(at[Server].shape) \in Drafts
    BY <1>2, DraftsTyped
  <2> QED
    BY <1>3, <2>1 DEF CreateWorkload, ClusterStep
<1>4. CASE CreateSecret
  BY <1>4 DEF CreateSecret, ClusterStep
<1>5. ASSUME Remove(s) \/ UNCHANGED cluster
      PROVE  ClusterStep(s)
  BY <1>2, <1>5, RemoveIs DEF ClusterStep, Amended
<1>6. CASE RenewPatch
  <2>1. [objects[s] EXCEPT !.expire = at[Server].shape.expire] \in Drafts
    BY <1>2, DraftsTyped
  <2> QED
    BY <1>6, <2>1 DEF RenewPatch, ClusterStep
<1>7. Rollback \/ DeleteRemove => Remove(s) \/ UNCHANGED cluster
  BY DEF Rollback, DeleteRemove
<1> QED
  BY <1>3, <1>4, <1>5, <1>6, <1>7

LEMMA ServerGrows ==
  ASSUME Typed, CreateWorkload \/ CreateSecret \/ Rollback \/ RenewPatch \/ DeleteRemove
  PROVE  /\ Clustered' /\ Revision <= Revision' /\ Revision' \in 0..MaxRevision
         /\ at[Server].op # "none" /\ at[Server].box \in Sandboxes
<1>1. at[Server].step # "idle"
  BY DEF CreateWorkload, CreateSecret, Rollback, RenewPatch, DeleteRemove
<1> QED
  BY <1>1, StepOp, Servers, ServerCluster, ClusterGrows

LEMMA InitTyped == Init => Typed
<1> SUFFICES ASSUME Init PROVE Typed
  OBVIOUS
<1>1. Revision = 0 /\ history \in Seq([box : Sandboxes, object : MaybeObjects])
  BY DEF Init, Revision
<1>2. NoObject \in MaybeObjects /\ NoObject.version = 0
  BY ObjectsTyped
<1>3. EmptyCache \in [Sandboxes -> MaybeObjects] /\ \A s \in Sandboxes : EmptyCache[s] = NoObject
  BY <1>2 DEF EmptyCache
<1>4. Clustered
  BY <1>1, <1>2, <1>3, KubernetesAssumption DEF Init, Clustered
<1>5. Threaded
  BY <1>1, <1>2, IdleTyped DEF Init, Threaded
<1>6. Informed
  <2>1. listed = NothingListed /\ NothingListed.version = 0
        /\ NothingListed \in [objects : [Sandboxes -> MaybeObjects], version : 0..MaxRevision]
    BY <1>3, KubernetesAssumption DEF Init, NothingListed
  <2>2. cursor = NoVersion /\ cursor <= Revision /\ stream = 0 /\ stream \in 0..MaxRevision
    BY <1>1, KubernetesAssumption DEF Init, NoVersion
  <2>3. cache = EmptyCache /\ ~synced /\ synced \in BOOLEAN /\ direct \in BOOLEAN
    BY DEF Init
  <2>4. informer = "off" /\ stream <= Revision /\ listed.version <= Revision
    BY <1>1, <2>1, <2>2 DEF Init
  <2> QED
    BY <1>3, <2>1, <2>2, <2>3, <2>4 DEF Informed
<1>7. Answered
  BY KubernetesAssumption DEF Init, Answered, Outcomes
<1> QED
  BY <1>4, <1>5, <1>6, <1>7, TypedParts

LEMMA ServerTyped ==
  ASSUME Typed, ServerStep
  PROVE  Typed'
<1> DEFINE s == at[Server].box
<1>1. Answered /\ Informed
  BY TypedParts
<1>2. ASSUME CreateWorkload \/ CreateSecret \/ Rollback \/ RenewPatch \/ DeleteRemove
      PROVE  Typed'
  <2>1. /\ Clustered' /\ Revision <= Revision' /\ Revision' \in 0..MaxRevision
        /\ at[Server].op # "none" /\ s \in Sandboxes
    BY <1>2, ServerGrows
  <2>2. Informed'
    <3>1. UNCHANGED informing
      BY <1>2 DEF CreateWorkload, CreateSecret, Rollback, RenewPatch, DeleteRemove
    <3> QED
      BY <2>1, <3>1, StaysInformed
  <2>3. Threaded'
    <3>1. Finish(Server) \/ \E step \in Steps : Goto(Server, step)
      BY <1>2 DEF CreateWorkload, CreateSecret, Rollback, RenewPatch, DeleteRemove, Steps
    <3> QED
      BY <2>1, <3>1, FinishTyped, GotoTyped, Servers
  <2>4. faults' \in 0..MaxFaults
    BY <1>2, FailsTyped DEF CreateWorkload, CreateSecret, Rollback, RenewPatch, DeleteRemove
  <2>5. now' = now /\ outcome' \in [Sandboxes -> Outcomes] /\ gone' \subseteq Sandboxes
    BY <1>1, <1>2, <2>1 DEF Answered, Outcomes, Ended, CreateWorkload, CreateSecret, Rollback,
                            RenewPatch, DeleteRemove
  <2>6. Answered'
    BY <1>1, <2>4, <2>5 DEF Answered
  <2> QED
    BY <2>1, <2>2, <2>3, <2>6, TypedParts, PTL
<1>3. ASSUME NEW p \in Procs, Look(p) \/ Fetch(p) \/ Store(p)
      PROVE  Typed'
  <2>1. at[p].step # "idle"
    BY <1>3 DEF Look, Fetch, Store
  <2>2. /\ at[p] \in Threads /\ at[p].op # "none" /\ at[p].box \in Sandboxes
        /\ at[p].seen \in MaybeObjects
    BY <2>1, StepOp
  <2>3. UNCHANGED <<now, cluster>>
    BY <1>3 DEF Look, Fetch, Store
  <2>4. Clustered' /\ Revision' = Revision /\ Revision' \in 0..MaxRevision /\ Revision <= Revision'
    BY <2>3, StaysClustered
  <2>5. ASSUME NEW object, Found(p, object)
        PROVE  /\ Threaded' /\ outcome' \in [Sandboxes -> Outcomes] /\ gone' \subseteq Sandboxes
    BY <2>2, <2>4, <2>5, FoundTyped
  <2>6. CASE Look(p)
    <3>1. Informed'
      BY <1>1, <2>4, <2>6 DEF Look, Informed
    <3>2. Threaded' /\ outcome' \in [Sandboxes -> Outcomes] /\ gone' \subseteq Sandboxes
      <4>1. CASE \E object : Found(p, object)
        BY <2>5, <4>1
      <4>2. CASE Goto(p, "fetch") /\ UNCHANGED <<outcome, gone>>
        BY <1>1, <2>2, <2>4, <4>2, GotoTyped DEF Steps, Answered
      <4> QED
        BY <2>6, <4>1, <4>2 DEF Look
    <3>3. Answered'
      BY <1>1, <2>3, <2>6, <3>2 DEF Look, Answered
    <3> QED
      BY <2>4, <3>1, <3>2, <3>3, TypedParts, PTL
  <2>7. CASE Fetch(p)
    <3>1. Informed'
      BY <2>4, <2>7, StaysInformed DEF Fetch
    <3>2. Threaded' /\ outcome' \in [Sandboxes -> Outcomes] /\ gone' \subseteq Sandboxes
      <4>1. CASE Found(p, NoObject)
        BY <2>5, <4>1
      <4>2. CASE /\ at' = [at EXCEPT ![p].seen = objects[at[p].box], ![p].step = "store"]
                 /\ UNCHANGED <<outcome, gone>>
        <5> DEFINE t == [at[p] EXCEPT !.seen = objects[at[p].box], !.step = "store"]
        <5>1. objects[at[p].box] \in MaybeObjects /\ objects[at[p].box].version <= Revision
          BY <2>2 DEF Typed, TypeOK, Ordered
        <5>2. t \in Threads /\ t.seen = objects[at[p].box] /\ t.op = at[p].op
          BY <2>2, <5>1 DEF Threads, Steps
        <5>3. at' = [at EXCEPT ![p] = t]
          BY <4>2, ThreadsTyped DEF Typed
        <5>4. Threaded'
          BY <2>2, <2>4, <5>1, <5>2, <5>3, ThreadMoves
        <5> QED
          BY <1>1, <4>2, <5>4 DEF Answered
      <4>3. CASE /\ Finish(p) /\ UNCHANGED gone
                 /\ outcome' = outcome \/ Ended(at[p].box, "unread")
        <5>1. outcome' \in [Sandboxes -> Outcomes] /\ gone' \subseteq Sandboxes
          BY <1>1, <4>3 DEF Answered, Ended, Outcomes
        <5> QED
          BY <2>4, <4>3, <5>1, FinishTyped
      <4> QED
        BY <2>7, <4>1, <4>2, <4>3 DEF Fetch
    <3>3. faults' \in 0..MaxFaults
      BY <2>7, FailsTyped DEF Fetch
    <3>4. Answered'
      BY <1>1, <2>3, <3>2, <3>3 DEF Answered
    <3> QED
      BY <2>4, <3>1, <3>2, <3>4, TypedParts, PTL
  <2>8. CASE Store(p)
    <3>1. at[p].seen.version \in 0..MaxRevision /\ at[p].seen.version <= Revision
      BY <2>2, VersionsTyped DEF Typed, Ordered
    <3>2. Informed'
      <4>1. cache' \in [Sandboxes -> MaybeObjects] /\ direct' \in BOOLEAN
        BY <1>1, <2>2, <2>8 DEF Store, UpdateCache, Informed
      <4>2. /\ cursor' \in {NoVersion} \cup 0..MaxRevision /\ cursor' <= Revision'
            /\ cursor # NoVersion => cursor' # NoVersion
        BY <1>1, <2>4, <2>8, <3>1, KubernetesAssumption
        DEF Store, UpdateCache, Advanced, Informed, NoVersion
      <4>3. UNCHANGED <<synced, informer, listed, stream>>
        BY <2>8 DEF Store
      <4> QED
        BY <1>1, <2>4, <4>1, <4>2, <4>3 DEF Informed
    <3>3. Threaded' /\ outcome' \in [Sandboxes -> Outcomes] /\ gone' \subseteq Sandboxes
      BY <2>5, <2>8 DEF Store
    <3>4. Answered'
      BY <1>1, <2>3, <2>8, <3>3 DEF Store, Answered
    <3> QED
      BY <2>4, <3>2, <3>3, <3>4, TypedParts, PTL
  <2> QED
    BY <1>3, <2>6, <2>7, <2>8
<1> QED
  BY <1>2, <1>3 DEF ServerStep

LEMMA InformerTyped ==
  ASSUME Typed, InformerStep
  PROVE  Typed'
<1>1. Clustered /\ Threaded /\ Informed /\ Answered /\ Revision \in 0..MaxRevision
  BY TypedParts, RevisionTyped
<1>2. UNCHANGED <<now, cluster, clients>>
  BY DEF InformerStep, InformerList, InformerSwap, InformerWatch, InformerEvent, InformerEnd
<1>3. Clustered' /\ Revision' = Revision
  BY <1>2, StaysClustered
<1>4. Threaded'
  BY <1>1, <1>2, <1>3, StaysThreaded DEF clients
<1>5. faults' \in 0..MaxFaults
  BY FailsTyped DEF InformerStep, InformerList, InformerSwap, InformerWatch, InformerEvent, InformerEnd, Works
<1>6. Answered'
  BY <1>1, <1>2, <1>5 DEF clients, Answered
<1>7. Informed'
  <2>1. CASE InformerList
    <3>1. objects \in [Sandboxes -> MaybeObjects]
      BY <1>1 DEF Clustered
    <3>2. /\ listed' \in [objects : [Sandboxes -> MaybeObjects], version : 0..MaxRevision]
          /\ listed'.version <= Revision
      BY <1>1, <2>1, <3>1, KubernetesAssumption DEF InformerList, Informed
    <3>3. ~synced /\ synced' = synced /\ informer' \in {"loop", "listed"}
      BY <2>1 DEF InformerList
    <3>4. direct' \in BOOLEAN
      BY <1>1, <2>1 DEF InformerList, Informed
    <3>5. UNCHANGED <<cache, cursor, stream>>
      BY <2>1 DEF InformerList
    <3> QED
      BY <1>1, <1>3, <3>2, <3>3, <3>4, <3>5 DEF Informed
  <2>2. CASE InformerSwap
    <3>1. /\ cursor' \in 0..MaxRevision /\ cursor' <= Revision
      BY <1>1, <2>2, KubernetesAssumption DEF InformerSwap, Advanced, Informed, NoVersion
    <3>2. cache' \in [Sandboxes -> MaybeObjects]
      BY <1>1, <2>2 DEF InformerSwap, Informed
    <3>3. /\ NothingListed \in [objects : [Sandboxes -> MaybeObjects], version : 0..MaxRevision]
          /\ NothingListed.version = 0
      BY ObjectsTyped, KubernetesAssumption DEF NothingListed, EmptyCache
    <3>4. cursor' # NoVersion /\ listed'.version <= Revision
      BY <1>1, <2>2, <3>1, <3>3, KubernetesAssumption DEF InformerSwap, NoVersion
    <3>5. synced' \in BOOLEAN /\ informer' = "loop" /\ UNCHANGED <<stream, direct>>
      BY <2>2 DEF InformerSwap
    <3> QED
      BY <1>1, <1>3, <2>2, <3>1, <3>2, <3>3, <3>4, <3>5 DEF InformerSwap, Informed
  <2>3. CASE InformerWatch
    <3>1. CASE cursor' = NoVersion
      <4>1. synced /\ cursor # NoVersion
        BY <1>1, <2>3 DEF InformerWatch, Informed
      <4>2. synced' = FALSE /\ UNCHANGED <<informer, stream>>
        BY <2>3, <3>1, <4>1 DEF InformerWatch
      <4>3. ~synced' /\ synced' \in BOOLEAN /\ informer' = "loop"
        BY <2>3, <4>2 DEF InformerWatch
      <4>4. cursor' <= Revision
        BY <1>1, <3>1, KubernetesAssumption DEF NoVersion
      <4>5. UNCHANGED <<cache, listed, direct>>
        BY <2>3 DEF InformerWatch
      <4> QED
        BY <1>1, <1>3, <3>1, <4>2, <4>3, <4>4, <4>5 DEF Informed
    <3>2. CASE cursor' # NoVersion
      <4>1. cursor' = cursor /\ synced' = synced /\ stream' = cursor /\ informer' = "watching" /\ synced
        BY <1>1, <2>3, <3>2 DEF InformerWatch
      <4>2. stream' \in 0..MaxRevision
        BY <1>1, <4>1 DEF Informed
      <4> QED
        BY <1>1, <1>3, <2>3, <4>1, <4>2 DEF InformerWatch, Informed
    <3> QED
      BY <3>1, <3>2
  <2>4. CASE InformerEvent
    <3>1. stream \in Nat /\ stream + 1 \in 1..Revision
      BY <1>1, <2>4, KubernetesAssumption DEF InformerEvent, Informed
    <3>2. history[stream + 1].box \in Sandboxes /\ history[stream + 1].object \in MaybeObjects
      BY <3>1, HistoryTyped
    <3>3. cache' \in [Sandboxes -> MaybeObjects]
      BY <1>1, <2>4, <3>2 DEF InformerEvent, Informed
    <3>4. stream' \in 0..MaxRevision /\ stream' <= Revision
      BY <1>1, <2>4, <3>1, KubernetesAssumption DEF InformerEvent
    <3>5. cursor' \in 0..MaxRevision /\ cursor' <= Revision
      BY <1>1, <2>4, <3>1, KubernetesAssumption DEF InformerEvent, Informed, Advanced, NoVersion
    <3>6. cursor' # NoVersion
      BY <3>5, KubernetesAssumption DEF NoVersion
    <3>7. UNCHANGED <<synced, informer, listed, direct>>
      BY <2>4 DEF InformerEvent
    <3> QED
      BY <1>1, <1>3, <3>3, <3>4, <3>5, <3>6, <3>7 DEF Informed
  <2>5. CASE InformerEnd
    <3>1. stream' = 0 /\ stream' \in 0..MaxRevision /\ stream' <= Revision
      BY <1>1, <2>5, KubernetesAssumption DEF InformerEnd
    <3>2. synced' \in BOOLEAN /\ (synced' => synced) /\ informer' = "loop"
      BY <1>1, <2>5 DEF InformerEnd, Informed
    <3> QED
      BY <1>1, <1>3, <2>5, <3>1, <3>2 DEF InformerEnd, Informed
  <2> QED
    BY <2>1, <2>2, <2>3, <2>4, <2>5 DEF InformerStep
<1> QED
  BY <1>3, <1>4, <1>6, <1>7, TypedParts, PTL

LEMMA NoShapeTyped == NoShape \in Shapes /\ \A t \in 1..(MaxTime + 1) : [NoShape EXCEPT !.expire = t] \in Shapes
<1>1. NoShape \in Shapes
  BY KubernetesAssumption DEF NoShape, Shapes, Expiries
<1>2. ASSUME NEW t \in 1..(MaxTime + 1)
      PROVE  [NoShape EXCEPT !.expire = t] \in Shapes
  <2>1. t \in Expiries
    BY KubernetesAssumption DEF Expiries
  <2> QED
    BY <1>1, <2>1 DEF Shapes
<1> QED
  BY <1>1, <1>2

LEMMA RequestTyped ==
  ASSUME Typed, Request
  PROVE  Typed'
<1>1. Clustered /\ Threaded /\ Informed /\ Answered /\ Revision \in 0..MaxRevision
  BY TypedParts, RevisionTyped
<1>2. UNCHANGED <<now, cluster, informing, gone, faults>>
  BY DEF Request, Create, Get, Renew, Delete
<1>3. Clustered' /\ Revision' = Revision
  BY <1>2, StaysClustered
<1>4. Informed'
  BY <1>1, <1>2, <1>3, StaysInformed
<1>5. outcome' \in [Sandboxes -> Outcomes]
  BY <1>1 DEF Request, Create, Get, Renew, Delete, Answered, Ended, Outcomes
<1>6. Answered'
  BY <1>1, <1>2, <1>5 DEF Answered
<1>7. Threaded'
  <2>1. CASE UNCHANGED at
    BY <1>1, <1>3, <2>1, StaysThreaded
  <2>2. CASE \E p \in Procs, op \in {"create", "get", "renew", "delete"}, step \in {"create", "look"},
                s \in Sandboxes, shape \in Shapes : Begin(p, op, step, s, shape)
    BY <1>1, <1>3, <2>2, BeginTyped DEF Ops, Steps
  <2>3. ASSUME NEW s \in Sandboxes, NEW shape \in Requests, Create(s, shape), ~UNCHANGED at
        PROVE  Begin(Server, "create", "create", s, shape) /\ shape \in Shapes
    BY <2>3, RequestsAssumption DEF Create
  <2>4. ASSUME NEW s \in Sandboxes, NEW p \in Procs, Get(p, s)
        PROVE  Begin(p, "get", "look", s, NoShape)
    BY <2>4 DEF Get
  <2>5. ASSUME NEW s \in Sandboxes, NEW t \in 1..(MaxTime + 1), Renew(s, t)
        PROVE  Begin(Server, "renew", "look", s, [NoShape EXCEPT !.expire = t])
    BY <2>5 DEF Renew
  <2>6. ASSUME NEW s \in Sandboxes, Delete(s)
        PROVE  Begin(Server, "delete", "look", s, NoShape)
    BY <2>6 DEF Delete
  <2> QED
    BY <2>1, <2>2, <2>3, <2>4, <2>5, <2>6, NoShapeTyped, Servers DEF Request
<1> QED
  BY <1>3, <1>4, <1>6, <1>7, TypedParts, PTL

LEMMA EnvironmentCluster ==
  ASSUME Typed, NEW s \in Sandboxes, Progress(s) \/ Hold(s) \/ Finalize(s) \/ Expire(s)
  PROVE  ClusterStep(s)
BY ControllerIs DEF ClusterStep, Amended

LEMMA EnvironmentTyped ==
  ASSUME Typed, Environment
  PROVE  Typed'
<1>1. Clustered /\ Threaded /\ Informed /\ Answered /\ Revision \in 0..MaxRevision
  BY TypedParts, RevisionTyped
<1>2. ASSUME NEW s \in Sandboxes, Progress(s) \/ Hold(s) \/ Finalize(s) \/ Expire(s)
      PROVE  Typed'
  <2>1. Clustered' /\ Revision <= Revision' /\ Revision' \in 0..MaxRevision
    BY <1>2, EnvironmentCluster, ClusterGrows
  <2>2. UNCHANGED <<now, informing, clients, faults>>
    BY <1>2, ControllerIs
  <2>3. Informed' /\ Threaded'
    BY <2>1, <2>2, StaysInformed, StaysThreaded DEF clients
  <2>4. Answered'
    BY <1>1, <2>2 DEF clients, Answered
  <2> QED
    BY <2>1, <2>3, <2>4, TypedParts, PTL
<1>3. CASE Tick
  <2>1. Clustered' /\ Revision' = Revision
    BY <1>3, StaysClustered DEF Tick
  <2>2. Informed' /\ Threaded'
    BY <1>1, <1>3, <2>1, StaysInformed, StaysThreaded DEF Tick, clients
  <2>3. Answered'
    BY <1>1, <1>3, KubernetesAssumption DEF Tick, clients, Answered
  <2> QED
    BY <2>1, <2>2, <2>3, TypedParts, PTL
<1>4. CASE Restart
  <2>1. Clustered' /\ Revision' = Revision
    BY <1>4, StaysClustered DEF Restart
  <2>2. NoObject \in MaybeObjects /\ NoObject.version = 0
    BY ObjectsTyped
  <2>3. Threaded'
    <3>1. Idle \in Threads /\ Idle.seen = NoObject /\ Idle.step = "idle"
      BY IdleTyped
    <3> QED
      BY <1>1, <1>4, <2>1, <2>2, <3>1 DEF Restart, Threaded
  <2>4. Informed'
    <3>1. EmptyCache \in [Sandboxes -> MaybeObjects]
      BY <2>2 DEF EmptyCache
    <3>2. /\ NothingListed \in [objects : [Sandboxes -> MaybeObjects], version : 0..MaxRevision]
          /\ NothingListed.version = 0
      BY <3>1, KubernetesAssumption DEF NothingListed
    <3>3. cursor' = NoVersion /\ cursor' <= Revision' /\ stream' = 0 /\ stream' <= Revision'
          /\ stream' \in 0..MaxRevision
      BY <1>1, <1>4, <2>1, KubernetesAssumption DEF Restart, NoVersion
    <3>4. synced' \in BOOLEAN /\ ~synced' /\ direct' \in BOOLEAN
      BY <1>4 DEF Restart
    <3>5. listed' = NothingListed /\ cache' = EmptyCache /\ informer' = "off"
      BY <1>4 DEF Restart
    <3>6. listed'.version <= Revision'
      BY <1>1, <2>1, <3>2, <3>5, KubernetesAssumption
    <3> QED
      BY <3>1, <3>2, <3>3, <3>4, <3>5, <3>6 DEF Informed
  <2>5. Answered'
    BY <1>1, <1>4, FailsTyped DEF Restart, Answered, Outcomes
  <2> QED
    BY <2>1, <2>3, <2>4, <2>5, TypedParts, PTL
<1> QED
  BY <1>2, <1>3, <1>4 DEF Environment

LEMMA TypedStep == Typed /\ [Next]_vars => Typed'
<1> SUFFICES ASSUME Typed, [Next]_vars PROVE Typed'
  OBVIOUS
<1>1. CASE UNCHANGED vars
  BY <1>1 DEF vars, cluster, informing, clients, Typed, TypeOK, Ordered, Revision
<1> QED
  BY <1>1, ServerTyped, InformerTyped, RequestTyped, EnvironmentTyped DEF Next

\* In every behaviour every variable keeps its type, whatever the bounds.
THEOREM TypeCorrect == Spec => []TypeOK
<1>1. Typed => TypeOK
  BY DEF Typed
<1> QED
  BY <1>1, InitTyped, TypedStep, PTL DEF Spec
-----------------------------------------------------------------------------
(* Requests, and what their answers promise of the cluster.                *)

LEMMA TurnMoves ==
  ASSUME Typed, InTurns, NEW p \in Procs, NEW t \in Threads, at' = [at EXCEPT ![p] = t],
         Turn(p, t, outcome'),
         \A s \in Sandboxes : outcome'[s] # outcome[s] => p = Server /\ outcome[s] # "ok"
  PROVE  InTurns'
<1>1. at \in [Procs -> Threads]
  BY ThreadsTyped DEF Typed
<1>2. ASSUME NEW q \in Procs
      PROVE  Turn(q, at'[q], outcome')
  <2>1. CASE q = p
    BY <1>1, <2>1
  <2>2. CASE q # p
    <3>1. at'[q] = at[q] /\ at[q].box \in Sandboxes /\ Turn(q, at[q], outcome)
      BY <1>1, <2>2 DEF Threads, InTurns
    <3>2. at[q].op = "create" => outcome'[at[q].box] = outcome[at[q].box]
      BY <2>2, <3>1 DEF Turn
    <3>3. outcome[at[q].box] = "ok" => outcome'[at[q].box] = "ok"
      BY <3>1
    <3> QED
      BY <3>1, <3>2, <3>3 DEF Turn
  <2> QED
    BY <2>1, <2>2
<1> QED
  BY <1>2 DEF InTurns

LEMMA IdleTurn == \A p, ended : Turn(p, Idle, ended)
BY IdleTyped DEF Turn

LEMMA GotoTurn ==
  ASSUME Typed, InTurns, NEW p \in Procs, NEW step \in Steps, Goto(p, step),
         Turn(p, [at[p] EXCEPT !.step = step], outcome), UNCHANGED outcome
  PROVE  InTurns'
<1>1. /\ at' = [at EXCEPT ![p] = [at[p] EXCEPT !.step = step]]
      /\ [at[p] EXCEPT !.step = step] \in Threads
  BY GotoThread, ThreadsTyped DEF Typed
<1> QED
  BY <1>1, TurnMoves

LEMMA FinishTurn ==
  ASSUME Typed, InTurns, NEW p \in Procs, Finish(p),
         \A s \in Sandboxes : outcome'[s] # outcome[s] => p = Server /\ outcome[s] # "ok"
  PROVE  InTurns'
BY IdleTyped, IdleTurn, TurnMoves DEF Finish

\* What a lookup does to the answers.
LEMMA FoundAnswers ==
  ASSUME Typed, InTurns, NEW p \in Procs, NEW object, at[p].step # "idle", Found(p, object)
  PROVE  /\ InTurns'
         /\ \A s \in Sandboxes :
              outcome'[s] # outcome[s] =>
                /\ p = Server /\ at[p].op = "create" /\ at[p].box = s
                /\ outcome[s] = "creating" /\ outcome'[s] \in {"ok", "unread"}
         /\ at'[Server] = at[Server] \/ at'[Server].op # "create"
         /\ \/ gone' = gone
            \/ at[p].op = "delete" /\ object = NoObject /\ gone' = gone \cup {at[p].box}
<1>1. at[p] \in Threads /\ at[p].op # "none" /\ at[p].box \in Sandboxes
  BY StepOp
<1>2. Turn(p, at[p], outcome) /\ at \in [Procs -> Threads]
  BY ThreadsTyped DEF InTurns, Typed
<1>3. PICK t \in Threads : AfterFound(p, t) /\ at' = [at EXCEPT ![p] = t]
  BY <1>1, FoundEffect
<1>4. IF at[p].op = "create"
        THEN outcome' = [outcome EXCEPT ![at[p].box] = IF object = NoObject THEN "unread" ELSE "ok"]
        ELSE outcome' = outcome
  BY <1>1, FoundEffect
<1>5. \A s \in Sandboxes :
        outcome'[s] # outcome[s] =>
          /\ p = Server /\ at[p].op = "create" /\ at[p].box = s
          /\ outcome[s] = "creating" /\ outcome'[s] \in {"ok", "unread"}
  BY <1>1, <1>2, <1>4 DEF Turn, Typed, TypeOK
<1>6. Turn(p, t, outcome')
  <2>1. CASE t = Idle
    BY <2>1, IdleTurn
  <2>2. CASE t # Idle
    <3>1. /\ t.op = at[p].op /\ t.box = at[p].box /\ t.shape = at[p].shape
          /\ t.op \in {"renew", "delete"}
          /\ t.step = "look" \/ (t.step = "patch" /\ t.op = "renew" /\ t.checked)
             \/ (t.step = "remove" /\ t.op = "delete")
      BY <1>1, <1>3, <2>2 DEF AfterFound, Threads
    <3>2. outcome' = outcome
      BY <1>4, <3>1
    <3> QED
      BY <1>2, <3>1, <3>2 DEF Turn
  <2> QED
    BY <2>1, <2>2
<1>7. InTurns'
  BY <1>3, <1>5, <1>6, TurnMoves
<1>8. at'[Server] = at[Server] \/ at'[Server].op # "create"
  <2>1. t.op # "create"
    BY <1>1, <1>3, IdleTyped DEF AfterFound, Threads
  <2> QED
    BY <1>2, <1>3, <2>1, Servers
<1>9. \/ gone' = gone
      \/ at[p].op = "delete" /\ object = NoObject /\ gone' = gone \cup {at[p].box}
  BY <1>1, FoundEffect
<1> QED
  BY <1>5, <1>7, <1>8, <1>9

\* A request moves from step to step as its handler does.
LEMMA ServerTurn ==
  ASSUME Typed, InTurns, ServerStep
  PROVE  /\ InTurns'
         /\ \A s \in Sandboxes :
              outcome'[s] # outcome[s] => s = at[Server].box /\ outcome[s] = "creating"
<1> DEFINE s == at[Server].box
<1>1. Turn(Server, at[Server], outcome) /\ at \in [Procs -> Threads] /\ at[Server] \in Threads
  BY Servers, ThreadsTyped DEF InTurns, Typed
<1>2. CASE CreateWorkload \/ CreateSecret \/ Rollback
  <2>1. at[Server].op = "create" /\ outcome[s] = "creating" /\ s \in Sandboxes
    BY <1>1, <1>2 DEF CreateWorkload, CreateSecret, Rollback, Turn, Threads
  <2>2. UNCHANGED outcome \/ \E how : Ended(s, how)
    BY <1>2 DEF CreateWorkload, CreateSecret, Rollback
  <2>3. \A x \in Sandboxes : outcome'[x] # outcome[x] => x = s /\ outcome[x] = "creating"
    <3>1. outcome \in [Sandboxes -> Outcomes]
      BY DEF Typed, TypeOK
    <3> QED
      BY <2>1, <2>2, <3>1 DEF Ended
  <2>4. CASE Finish(Server)
    BY <2>3, <2>4, FinishTurn, Servers
  <2>5. CASE \E step \in {"secret", "rollback", "look"} : Goto(Server, step) /\ UNCHANGED outcome
    <3>1. PICK step \in {"secret", "rollback", "look"} : Goto(Server, step) /\ UNCHANGED outcome
      BY <2>5
    <3>2. step \in Steps
      BY DEF Steps
    <3>3. Turn(Server, [at[Server] EXCEPT !.step = step], outcome)
      BY <1>1, <2>1 DEF Turn, Threads
    <3> QED
      BY <3>1, <3>2, <3>3, GotoTurn, Servers
  <2>6. InTurns'
    BY <1>2, <2>4, <2>5 DEF CreateWorkload, CreateSecret, Rollback
  <2> QED
    BY <2>3, <2>6
<1>3. CASE RenewPatch \/ DeleteRemove
  BY <1>3, FinishTurn, Servers DEF RenewPatch, DeleteRemove
<1>4. ASSUME NEW p \in Procs, Look(p) \/ Fetch(p) \/ Store(p)
      PROVE  /\ InTurns'
             /\ \A x \in Sandboxes : outcome'[x] # outcome[x] => x = s /\ outcome[x] = "creating"
  <2>1. at[p].step # "idle"
    BY <1>4 DEF Look, Fetch, Store
  <2>2. at[p] \in Threads /\ at[p].box \in Sandboxes /\ Turn(p, at[p], outcome)
    BY <2>1, StepOp DEF InTurns
  <2>3. CASE \E object : Found(p, object)
    BY <2>1, <2>3, FoundAnswers
  <2>4. CASE Goto(p, "fetch") /\ UNCHANGED outcome
    <3>1. Turn(p, [at[p] EXCEPT !.step = "fetch"], outcome)
      BY <2>2 DEF Turn, Threads
    <3> QED
      BY <2>4, <3>1, GotoTurn DEF Steps
  <2>5. CASE /\ at[p].step = "fetch" /\ objects[at[p].box] # NoObject /\ UNCHANGED outcome
             /\ at' = [at EXCEPT ![p].seen = objects[at[p].box], ![p].step = "store"]
    <3> DEFINE t == [at[p] EXCEPT !.seen = objects[at[p].box], !.step = "store"]
    <3>1. objects[at[p].box] \in MaybeObjects
      BY <2>2 DEF Typed, TypeOK
    <3>2. t \in Threads /\ at' = [at EXCEPT ![p] = t]
      BY <1>1, <2>2, <2>5, <3>1 DEF Threads, Steps
    <3>3. Turn(p, t, outcome)
      BY <2>2, <2>5 DEF Turn, Threads
    <3> QED
      BY <2>5, <3>2, <3>3, TurnMoves
  <2>6. CASE /\ Finish(p)
             /\ IF at[p].op = "create" THEN Ended(at[p].box, "unread") ELSE UNCHANGED outcome
    <3>1. ASSUME NEW x \in Sandboxes, outcome'[x] # outcome[x]
          PROVE  p = Server /\ x = s /\ outcome[x] = "creating"
      <4>1. at[p].op = "create" /\ x = at[p].box
        BY <2>2, <2>6, <3>1 DEF Ended, Typed, TypeOK
      <4> QED
        BY <2>2, <4>1 DEF Turn
    <3>2. InTurns'
      BY <2>6, <3>1, FinishTurn
    <3> QED
      BY <3>1, <3>2
  <2> QED
    BY <1>4, <2>3, <2>4, <2>5, <2>6 DEF Look, Fetch, Store
<1> QED
  BY <1>2, <1>3, <1>4 DEF ServerStep

\* A new request, and for which sandbox it may be made.
Begun(p, op, s) ==
  /\ at[p] = Idle
  /\ \E step \in {"create", "look"}, shape \in Shapes :
       Begin(p, op, step, s, shape) /\ (step = "create" <=> op = "create")
                                    /\ (op = "renew" => shape.expire # NoTTL)

LEMMA RequestBegins ==
  ASSUME Typed, Request
  PROVE  /\ UNCHANGED <<now, cluster, informing, gone, faults>>
         /\ \/ \E s \in Sandboxes : outcome[s] = "new" /\ Ended(s, "refused") /\ UNCHANGED at
            \/ \E s \in Sandboxes :
                 outcome[s] = "new" /\ Ended(s, "creating") /\ Begun(Server, "create", s)
            \/ /\ UNCHANGED outcome
               /\ \E s \in Sandboxes, p \in Procs, op \in {"get", "renew", "delete"} :
                    Known(s) /\ Begun(p, op, s) /\ (op # "get" => p = Server)
<1>1. UNCHANGED <<now, cluster, informing, gone, faults>>
  BY DEF Request, Create, Get, Renew, Delete
<1>2. ASSUME NEW s \in Sandboxes, NEW shape \in Requests, Create(s, shape)
      PROVE  \/ outcome[s] = "new" /\ Ended(s, "refused") /\ UNCHANGED at
             \/ outcome[s] = "new" /\ Ended(s, "creating") /\ Begun(Server, "create", s)
  BY <1>2, RequestsAssumption DEF Create, Begun
<1>3. ASSUME NEW s \in Sandboxes, NEW p \in Procs, Get(p, s)
      PROVE  UNCHANGED outcome /\ Known(s) /\ Begun(p, "get", s)
  BY <1>3, NoShapeTyped DEF Get, Begun
<1>4. ASSUME NEW s \in Sandboxes, NEW t \in 1..(MaxTime + 1), Renew(s, t)
      PROVE  UNCHANGED outcome /\ Known(s) /\ Begun(Server, "renew", s)
  <2>1. [NoShape EXCEPT !.expire = t].expire = t /\ t # NoTTL
    BY KubernetesAssumption DEF NoShape, NoTTL
  <2> QED
    BY <1>4, <2>1, NoShapeTyped DEF Renew, Begun
<1>5. ASSUME NEW s \in Sandboxes, Delete(s)
      PROVE  UNCHANGED outcome /\ Known(s) /\ Begun(Server, "delete", s)
  BY <1>5, NoShapeTyped DEF Delete, Begun
<1> QED
  BY <1>1, <1>2, <1>3, <1>4, <1>5, Servers DEF Request

LEMMA BegunThread ==
  ASSUME Typed, NEW p \in Procs, NEW s \in Sandboxes, NEW op \in {"create", "get", "renew", "delete"},
         Begun(p, op, s)
  PROVE  \E t \in Threads :
           /\ at' = [at EXCEPT ![p] = t] /\ t.op = op /\ t.box = s
           /\ t.seen = NoObject /\ ~t.checked
           /\ t.step = IF op = "create" THEN "create" ELSE "look"
           /\ op = "renew" => t.shape.expire # NoTTL
<1>1. PICK step \in {"create", "look"}, shape \in Shapes :
        Begin(p, op, step, s, shape) /\ (step = "create" <=> op = "create")
                                     /\ (op = "renew" => shape.expire # NoTTL)
  BY DEF Begun
<1> DEFINE t == [Idle EXCEPT !.op = op, !.step = step, !.box = s, !.shape = shape]
<1>2. t \in Threads
  BY BeginThread DEF Ops, Steps
<1>3. t.op = op /\ t.box = s /\ t.step = step /\ t.shape = shape /\ t.seen = NoObject /\ ~t.checked
  BY IdleTyped DEF Threads
<1> QED
  BY <1>1, <1>2, <1>3 DEF Begin

LEMMA InitTurns == Init => InTurns
BY IdleTurn DEF Init, InTurns

LEMMA TurnsStep == Typed /\ InTurns /\ [Next]_vars => InTurns'
<1> SUFFICES ASSUME Typed, InTurns, [Next]_vars PROVE InTurns'
  OBVIOUS
<1>1. CASE ServerStep
  BY <1>1, ServerTurn
<1>2. CASE UNCHANGED clients
  BY <1>2 DEF clients, InTurns
<1>3. CASE Request
  <2>1. CASE \E s \in Sandboxes : outcome[s] = "new" /\ Ended(s, "refused") /\ UNCHANGED at
    <3>1. PICK s \in Sandboxes : outcome[s] = "new" /\ Ended(s, "refused") /\ UNCHANGED at
      BY <2>1
    <3>2. ASSUME NEW p \in Procs
          PROVE  Turn(p, at'[p], outcome')
      <4>1. Turn(p, at[p], outcome) /\ at[p].box \in Sandboxes
        BY ThreadsTyped DEF InTurns, Typed, Threads
      <4> QED
        BY <3>1, <4>1 DEF Turn, Ended, Typed, TypeOK
    <3> QED
      BY <3>2 DEF InTurns
  <2>2. CASE \E s \in Sandboxes :
               outcome[s] = "new" /\ Ended(s, "creating") /\ Begun(Server, "create", s)
    <3>1. PICK s \in Sandboxes :
            outcome[s] = "new" /\ Ended(s, "creating") /\ Begun(Server, "create", s)
      BY <2>2
    <3>2. PICK t \in Threads : /\ at' = [at EXCEPT ![Server] = t] /\ t.op = "create" /\ t.box = s
                               /\ t.step = "create"
      BY <3>1, BegunThread, Servers
    <3>3. outcome' = [outcome EXCEPT ![s] = "creating"] /\ outcome'[s] = "creating"
      BY <3>1 DEF Ended, Typed, TypeOK
    <3>4. Turn(Server, t, outcome')
      BY <3>2, <3>3 DEF Turn
    <3> QED
      BY <3>1, <3>2, <3>3, <3>4, TurnMoves, Servers DEF Typed, TypeOK
  <2>3. CASE /\ UNCHANGED outcome
             /\ \E s \in Sandboxes, p \in Procs, op \in {"get", "renew", "delete"} :
                  Known(s) /\ Begun(p, op, s) /\ (op # "get" => p = Server)
    <3>1. PICK s \in Sandboxes, p \in Procs, op \in {"get", "renew", "delete"} :
            Known(s) /\ Begun(p, op, s) /\ (op # "get" => p = Server)
      BY <2>3
    <3>2. PICK t \in Threads : /\ at' = [at EXCEPT ![p] = t] /\ t.op = op /\ t.box = s
                               /\ t.step = "look" /\ (op = "renew" => t.shape.expire # NoTTL)
      BY <3>1, BegunThread
    <3>3. Turn(p, t, outcome')
      BY <2>3, <3>1, <3>2 DEF Turn, Known
    <3> QED
      BY <2>3, <3>2, <3>3, TurnMoves
  <2> QED
    BY <1>3, <2>1, <2>2, <2>3, RequestBegins
<1>4. CASE Restart
  BY <1>4, IdleTurn DEF Restart, InTurns
<1>5. ASSUME NEW s \in Sandboxes, Progress(s) \/ Hold(s) \/ Finalize(s) \/ Expire(s)
      PROVE  UNCHANGED clients
  BY <1>5, ControllerIs
<1> QED
  BY <1>1, <1>2, <1>3, <1>4, <1>5
  DEF Next, vars, InformerStep, InformerList, InformerSwap, InformerWatch, InformerEvent,
      InformerEnd, Environment, Tick, clients

\* What a change leaves in the cluster.
Wrote(s, o, x) ==
  /\ x # NoObject /\ x.secret = o.secret /\ x.expire = o.expire /\ x.hold = o.hold
  /\ objects' = [objects EXCEPT ![s] = x] /\ objects'[s] = x
  /\ history' = Append(history, [box |-> s, object |-> x])
  /\ secrets' = secrets

LEMMA PutWrites ==
  ASSUME Typed, NEW s \in Sandboxes, NEW o \in Drafts, Put(s, o)
  PROVE  \E x \in Objects : Wrote(s, o, x)
<1> DEFINE x == [o EXCEPT !.version = Revision + 1]
<1>1. x \in Objects /\ x # NoObject /\ Write(s, x) /\ secrets' = secrets
  BY PutEffect
<1>2. x.secret = o.secret /\ x.expire = o.expire /\ x.hold = o.hold
  BY DEF Drafts
<1>3. objects' = [objects EXCEPT ![s] = x] /\ objects'[s] = x
  BY <1>1 DEF Write, Typed, TypeOK
<1>4. history' = Append(history, [box |-> s, object |-> x])
  BY <1>1 DEF Write
<1> HIDE DEF x
<1> QED
  BY <1>1, <1>2, <1>3, <1>4 DEF Wrote

LEMMA DropWrites ==
  ASSUME Typed, NEW s \in Sandboxes, Drop(s)
  PROVE  /\ objects' = [objects EXCEPT ![s] = NoObject] /\ objects'[s] = NoObject
         /\ history' = Append(history, [box |-> s, object |-> NoObject])
         /\ secrets' = secrets \ {s}
BY DropEffect DEF Write, Typed, TypeOK

\* An object that is amended or dropped is not held if it was not, and a dying
\* one does not live again.
LEMMA AmendedHolds ==
  ASSUME Typed, NEW s \in Sandboxes, Drop(s) \/ \E o \in Drafts : Amended(s, o), NEW y \in Sandboxes
  PROVE  /\ objects[y].hold = "none" => objects'[y].hold = "none"
         /\ ~Alive(y) => ~Alive(y)'
<1>1. objects \in [Sandboxes -> MaybeObjects]
  BY DEF Typed, TypeOK
<1>2. CASE Drop(s)
  BY <1>1, <1>2, DropWrites, ObjectsTyped DEF Alive
<1>3. ASSUME NEW o \in Drafts, Amended(s, o)
      PROVE  /\ objects[y].hold = "none" => objects'[y].hold = "none"
             /\ ~Alive(y) => ~Alive(y)'
  <2>1. PICK x \in Objects : Wrote(s, o, x)
    BY <1>3, PutWrites DEF Amended
  <2> QED
    BY <1>1, <1>3, <2>1 DEF Amended, Amends, Alive, Wrote
<1> QED
  BY <1>2, <1>3

\* The secret and its rollback are steps of a creation without a task.
LEMMA UnheldStep == Typed /\ InTurns /\ Unheld /\ [Next]_vars => Unheld'
<1> SUFFICES ASSUME Typed, InTurns, Unheld, [Next]_vars, at'[Server].step \in {"secret", "rollback"}
             PROVE  objects'[at'[Server].box].hold = "none"
  BY DEF Unheld
<1>1. PICK b \in Sandboxes : b = at[Server].box
  BY Servers, ThreadsTyped DEF Typed, Threads
<1>2. /\ Turn(Server, at[Server], outcome) /\ at \in [Procs -> Threads] /\ at[Server] \in Threads
      /\ at[Server].shape \in Shapes
  BY Servers, ThreadsTyped DEF InTurns, Typed, Threads
<1>3. Idle \in Threads /\ Idle.step = "idle"
  BY IdleTyped
<1>4. ASSUME at'[Server].box = b, at[Server].step \in {"secret", "rollback"},
             objects[b].hold = "none" => objects'[b].hold = "none"
      PROVE  objects'[at'[Server].box].hold = "none"
  BY <1>1, <1>4 DEF Unheld
<1>5. CASE CreateWorkload
  <2>1. PICK o \in Drafts : o = NewObject(at[Server].shape)
    BY <1>1, <1>2, DraftsTyped
  <2>2. ~Finish(Server)
    BY <1>2, <1>3, Servers DEF Finish
  <2>3. Put(b, o) /\ Goto(Server, IF o.secret THEN "secret" ELSE "look")
    BY <1>1, <1>5, <2>1, <2>2 DEF CreateWorkload
  <2>4. at'[Server].step = (IF o.secret THEN "secret" ELSE "look") /\ at'[Server].box = b
    BY <1>1, <1>2, <2>3, Servers DEF Goto, Threads
  <2>5. o.secret
    BY <2>4
  <2>6. o.hold = "none"
    BY <2>1, <2>5 DEF NewObject
  <2>7. PICK x \in Objects : Wrote(b, o, x)
    BY <2>3, PutWrites
  <2> QED
    BY <2>4, <2>6, <2>7 DEF Wrote
<1>6. CASE CreateSecret
  <2>1. at[Server].step = "secret" /\ objects' = objects /\ \E step : Goto(Server, step)
    BY <1>6 DEF CreateSecret
  <2>2. at'[Server].box = b
    BY <1>1, <1>2, <2>1, Servers DEF Goto, Threads
  <2> QED
    BY <1>4, <2>1, <2>2
<1>7. ~(Rollback \/ RenewPatch \/ DeleteRemove \/ Restart)
  BY <1>2, <1>3, Servers DEF Rollback, RenewPatch, DeleteRemove, Restart, Finish
<1>8. CASE UNCHANGED <<objects, at>>
  BY <1>1, <1>8 DEF Unheld
<1>9. ASSUME UNCHANGED objects, NEW p \in Procs, NEW u \in Threads, at' = [at EXCEPT ![p] = u],
             u.step \notin {"secret", "rollback"}
      PROVE  objects'[at'[Server].box].hold = "none"
  <2>1. at'[Server] = at[Server]
    BY <1>2, <1>9, Servers
  <2> QED
    BY <1>1, <1>4, <1>9, <2>1
<1>10. ASSUME NEW p \in Procs, Look(p) \/ Fetch(p) \/ Store(p)
       PROVE  objects'[at'[Server].box].hold = "none"
  <2>1. at[p].step # "idle" /\ UNCHANGED objects
    BY <1>10 DEF Look, Fetch, Store, cluster
  <2>2. at[p] \in Threads /\ at[p].op # "none" /\ at[p].box \in Sandboxes
    BY <2>1, StepOp
  <2>3. ASSUME NEW object, Found(p, object)
        PROVE  objects'[at'[Server].box].hold = "none"
    <3>1. PICK u \in Threads : AfterFound(p, u) /\ at' = [at EXCEPT ![p] = u]
      BY <2>2, <2>3, FoundEffect
    <3>2. u.step \notin {"secret", "rollback"}
      BY <1>3, <2>2, <3>1 DEF AfterFound, Threads
    <3> QED
      BY <1>9, <2>1, <3>1, <3>2
  <2>4. CASE Goto(p, "fetch")
    <3>1. [at[p] EXCEPT !.step = "fetch"] \in Threads /\ [at[p] EXCEPT !.step = "fetch"].step = "fetch"
      BY <2>2 DEF Threads, Steps
    <3> QED
      BY <1>9, <2>1, <2>4, <3>1 DEF Goto
  <2>5. CASE at' = [at EXCEPT ![p].seen = objects[at[p].box], ![p].step = "store"]
    <3>1. objects[at[p].box] \in MaybeObjects
      BY <2>2 DEF Typed, TypeOK
    <3> DEFINE u == [at[p] EXCEPT !.seen = objects[at[p].box], !.step = "store"]
    <3>2. u \in Threads /\ u.step = "store"
      BY <2>2, <3>1 DEF Threads, Steps
    <3>3. at' = [at EXCEPT ![p] = u]
      BY <1>2, <2>5
    <3> HIDE DEF u
    <3> QED
      BY <1>9, <2>1, <3>2, <3>3
  <2>6. CASE Finish(p)
    BY <1>3, <1>9, <2>1, <2>6 DEF Finish
  <2> QED
    BY <1>10, <2>3, <2>4, <2>5, <2>6 DEF Look, Fetch, Store
<1>11. CASE Request
  <2>1. UNCHANGED objects
    BY <1>11, RequestBegins DEF cluster
  <2>2. ASSUME NEW s \in Sandboxes, NEW p \in Procs, NEW op \in {"create", "get", "renew", "delete"},
               Begun(p, op, s)
        PROVE  objects'[at'[Server].box].hold = "none"
    <3>1. PICK u \in Threads : /\ at' = [at EXCEPT ![p] = u]
                               /\ u.step = IF op = "create" THEN "create" ELSE "look"
      BY <2>2, BegunThread
    <3> QED
      BY <1>9, <2>1, <3>1
  <2> QED
    BY <1>8, <1>11, <2>1, <2>2, RequestBegins, Servers
<1>12. ASSUME NEW s \in Sandboxes, Progress(s) \/ Hold(s) \/ Finalize(s) \/ Expire(s)
       PROVE  objects'[at'[Server].box].hold = "none"
  <2>1. UNCHANGED at /\ (Drop(s) \/ \E o \in Drafts : Amended(s, o))
    BY <1>12, ControllerIs DEF clients
  <2>2. at[Server].step \in {"secret", "rollback"} /\ at'[Server].box = b
    BY <1>1, <2>1
  <2>3. objects[b].hold = "none" => objects'[b].hold = "none"
    BY <2>1, AmendedHolds
  <2> QED
    BY <1>4, <2>2, <2>3
<1> QED
  BY <1>5, <1>6, <1>7, <1>8, <1>10, <1>11, <1>12
  DEF Next, vars, ServerStep, InformerStep, InformerList, InformerSwap, InformerWatch, InformerEvent,
      InformerEnd, Environment, Tick, clients, cluster

LEMMA InitUnheld == Init => Unheld
BY IdleTyped, Servers DEF Init, Unheld

\* A thread of the event loop that moves on leaves no other creation behind.
LEMMA CreatingMoves ==
  ASSUME Typed, NEW p \in Procs, NEW t \in Threads, at' = [at EXCEPT ![p] = t],
         t = Idle \/ t.box = at[p].box
  PROVE  \A x \in Sandboxes : x # at[Server].box => (Creating(x)' => Creating(x))
<1>1. at'[Server] = at[Server] \/ at'[Server] = Idle \/ at'[Server].box = at[Server].box
  BY ThreadsTyped, Servers DEF Typed
<1> QED
  BY <1>1, IdleTyped DEF Creating

LEMMA OwnedQuiet ==
  ASSUME Owned, UNCHANGED <<objects, secrets>>,
         \A x \in Sandboxes : Creating(x)' => Creating(x),
         \A x \in Sandboxes : outcome'[x] # outcome[x] =>
           /\ outcome'[x] = "ok" => Creating(x)
           /\ outcome'[x] \in {"new", "refused", "undone"} => outcome[x] = "new"
  PROVE  Owned'
BY DEF Owned, OwnedBy

LEMMA OwnedChange ==
  ASSUME Typed, Owned, NEW s \in Sandboxes, OwnedBy(s)',
         \A x \in Sandboxes : x # s =>
           /\ objects'[x] = objects[x] /\ (x \in secrets' <=> x \in secrets)
           /\ outcome'[x] = outcome[x] /\ (Creating(x)' => Creating(x))
  PROVE  Owned'
BY DEF Owned, OwnedBy

\* An object that is amended or dropped: the secret that a pod names is never
\* changed, and goes with the object.
LEMMA OwnedAmends ==
  ASSUME Typed, Owned, NEW s \in Sandboxes, Drop(s) \/ \E o \in Drafts : Amended(s, o),
         UNCHANGED outcome, \A x \in Sandboxes : Creating(x)' => Creating(x)
  PROVE  Owned'
<1>1. CASE Drop(s)
  <2>1. objects' = [objects EXCEPT ![s] = NoObject] /\ objects'[s] = NoObject /\ secrets' = secrets \ {s}
    BY <1>1, DropWrites
  <2>2. OwnedBy(s)'
    BY <2>1, ObjectsTyped DEF OwnedBy
  <2> QED
    BY <2>1, <2>2, OwnedChange DEF Typed, TypeOK
<1>2. ASSUME NEW o \in Drafts, Amended(s, o)
      PROVE  Owned'
  <2>1. objects[s] # NoObject /\ Put(s, o) /\ o.secret = objects[s].secret
    BY <1>2 DEF Amended, Amends
  <2>2. PICK x \in Objects : Wrote(s, o, x)
    BY <2>1, PutWrites
  <2>3. OwnedBy(s)'
    BY <2>1, <2>2 DEF Owned, OwnedBy, Wrote
  <2> QED
    BY <2>2, <2>3, OwnedChange DEF Typed, TypeOK, Wrote
<1> QED
  BY <1>1, <1>2

LEMMA OwnedEnvironment ==
  ASSUME Typed, Owned, NEW s \in Sandboxes, Progress(s) \/ Hold(s) \/ Finalize(s) \/ Expire(s)
  PROVE  Owned'
<1>1. UNCHANGED <<at, outcome>> /\ (Drop(s) \/ \E o \in Drafts : Amended(s, o))
  BY ControllerIs DEF clients
<1> QED
  BY <1>1, OwnedAmends DEF Creating

LEMMA OwnedServer ==
  ASSUME Typed, InTurns, Unheld, Owned, ServerStep
  PROVE  Owned'
<1>0. PICK b \in Sandboxes : b = at[Server].box
  BY Servers, ThreadsTyped DEF Typed, Threads
<1>1. /\ Turn(Server, at[Server], outcome) /\ at \in [Procs -> Threads] /\ at[Server] \in Threads
      /\ at[Server].box = b /\ at[Server].shape \in Shapes /\ Server \in Procs
  BY <1>0, Servers, ThreadsTyped DEF InTurns, Typed, Threads
<1>2. /\ outcome \in [Sandboxes -> Outcomes] /\ objects \in [Sandboxes -> MaybeObjects]
      /\ Idle \in Threads /\ Idle.op = "none" /\ OwnedBy(b)
  BY <1>1, IdleTyped DEF Typed, TypeOK, Owned
<1>3. ASSUME NEW t \in Threads, at' = [at EXCEPT ![Server] = t], t = Idle \/ t.box = b
      PROVE  \A x \in Sandboxes : x # b => (Creating(x)' => Creating(x))
  BY <1>1, <1>3, CreatingMoves
<1>4. \A x \in Sandboxes : x # b => outcome'[x] = outcome[x]
  BY <1>1, ServerTurn
<1>5. CASE CreateWorkload
  <2>1. PICK o \in Drafts : o = NewObject(at[Server].shape)
    BY <1>1, DraftsTyped
  <2>2. at[Server].op = "create" /\ outcome[b] = "creating"
    BY <1>1, <1>5 DEF CreateWorkload, Turn
  <2>3. UNCHANGED cluster \/ Put(b, o)
    BY <1>1, <1>5, <2>1 DEF CreateWorkload, Put, Write
  <2>4. /\ \A x \in Sandboxes : x # b => objects'[x] = objects[x]
        /\ secrets' = secrets
        /\ objects'[b] = objects[b] \/ (objects'[b] # NoObject /\ objects'[b].secret = o.secret)
    <3>1. CASE UNCHANGED cluster
      BY <3>1 DEF cluster
    <3>2. CASE Put(b, o)
      <4>1. PICK x \in Objects : Wrote(b, o, x)
        BY <3>2, PutWrites
      <4> QED
        BY <1>2, <4>1 DEF Wrote
    <3> QED
      BY <2>3, <3>1, <3>2
  <2>5. CASE Finish(Server) /\ Ended(b, "failed")
    <3>1. outcome'[b] = "failed" /\ at' = [at EXCEPT ![Server] = Idle] /\ at'[Server] = Idle
      BY <1>1, <1>2, <2>5 DEF Ended, Finish
    <3>2. ~Creating(b)'
      BY <1>2, <3>1 DEF Creating
    <3>3. OwnedBy(b)'
      BY <1>2, <2>4, <3>1, <3>2 DEF OwnedBy
    <3>4. \A x \in Sandboxes : x # b => (Creating(x)' => Creating(x))
      BY <1>2, <1>3, <3>1
    <3> QED
      BY <1>1, <1>4, <2>4, <3>3, <3>4, OwnedChange
  <2>6. ASSUME Put(b, o), NEW step \in {"secret", "look"}, Goto(Server, step), UNCHANGED outcome,
               step = "look" => ~o.secret
        PROVE  Owned'
    <3> DEFINE t == [at[Server] EXCEPT !.step = step]
    <3>1. step \in Steps
      BY DEF Steps
    <3>2. t \in Threads /\ at' = [at EXCEPT ![Server] = t] /\ at'[Server] = t /\ t.box = b /\ t.step = step
      BY <1>1, <2>6, <3>1, GotoThread DEF Threads
    <3>3. objects'[b] # NoObject /\ objects'[b].secret = o.secret
      <4>1. PICK x \in Objects : Wrote(b, o, x)
        BY <2>6, PutWrites
      <4> QED
        BY <4>1 DEF Wrote
    <3>5. Creating(b)' => ~o.secret
      BY <2>6, <3>2 DEF Creating
    <3>6. OwnedBy(b)'
      BY <2>2, <2>6, <3>3, <3>5 DEF OwnedBy
    <3>7. \A x \in Sandboxes : x # b => (Creating(x)' => Creating(x))
      BY <1>3, <3>2
    <3> QED
      BY <1>1, <1>4, <2>4, <3>6, <3>7, OwnedChange
  <2>7. \/ Finish(Server) /\ Ended(b, "failed")
        \/ /\ Put(b, o) /\ UNCHANGED outcome
           /\ IF o.secret THEN Goto(Server, "secret") ELSE Goto(Server, "look")
    BY <1>1, <1>5, <2>1 DEF CreateWorkload, Put, Write, Ended, Goto
  <2> QED
    BY <2>5, <2>6, <2>7
<1>6. CASE CreateSecret
  <2>1. at[Server].op = "create" /\ outcome[b] = "creating" /\ UNCHANGED <<objects, outcome>>
    BY <1>1, <1>6 DEF CreateSecret, Turn
  <2>2. PICK step \in {"look", "rollback"} :
          /\ Goto(Server, step)
          /\ \/ secrets' = (IF objects[b] = NoObject THEN secrets ELSE secrets \cup {b})
             \/ step = "rollback" /\ secrets' = secrets
    BY <1>1, <1>6 DEF CreateSecret
  <2> DEFINE t == [at[Server] EXCEPT !.step = step]
  <2>3. t \in Threads /\ at' = [at EXCEPT ![Server] = t] /\ at'[Server] = t /\ t.box = b /\ t.step = step
    <3>1. step \in Steps
      BY DEF Steps
    <3>2. t \in Threads /\ at' = [at EXCEPT ![Server] = t]
      BY <1>1, <2>2, <3>1, GotoThread
    <3> QED
      BY <1>1, <3>2 DEF Threads
  <2>4. Creating(b)' => (objects[b] = NoObject \/ b \in secrets')
    BY <2>2, <2>3 DEF Creating
  <2>5. OwnedBy(b)'
    BY <1>2, <2>1, <2>2, <2>4, ObjectsTyped DEF OwnedBy
  <2>6. \A x \in Sandboxes : x # b => (Creating(x)' => Creating(x))
    BY <1>3, <2>3
  <2>7. \A x \in Sandboxes : x # b => (x \in secrets' <=> x \in secrets)
    BY <2>2
  <2> QED
    BY <1>1, <2>1, <2>5, <2>6, <2>7, OwnedChange
<1>7. CASE Rollback \/ RenewPatch \/ DeleteRemove
  <2>1. at' = [at EXCEPT ![Server] = Idle] /\ at'[Server] = Idle
    BY <1>1, <1>7 DEF Rollback, RenewPatch, DeleteRemove, Finish
  <2>2. \A x \in Sandboxes : Creating(x)' => Creating(x)
    BY <1>2, <2>1 DEF Creating
  <2>3. \/ UNCHANGED cluster
        \/ Drop(b)
        \/ ~Rollback /\ \E o \in Drafts : Amended(b, o)
    <3>1. CASE RenewPatch
      BY <1>1, <3>1, RenewIs DEF RenewPatch, Rollback
    <3>2. CASE DeleteRemove
      BY <1>1, <3>2, RemoveIs DEF DeleteRemove, Rollback
    <3>3. CASE Rollback
      <4>1. objects[b].hold = "none"
        BY <1>1, <3>3 DEF Rollback, Unheld
      <4> QED
        BY <1>1, <3>3, <4>1, RemoveIs DEF Rollback
    <3> QED
      BY <1>7, <3>1, <3>2, <3>3
  <2>4. CASE RenewPatch \/ DeleteRemove
    <3>1. UNCHANGED outcome /\ ~Rollback
      BY <2>4 DEF RenewPatch, DeleteRemove, Rollback
    <3>2. CASE UNCHANGED cluster
      BY <2>2, <3>1, <3>2, OwnedQuiet DEF cluster
    <3>3. CASE ~UNCHANGED cluster
      BY <2>2, <2>3, <3>1, <3>3, OwnedAmends
    <3> QED
      BY <3>2, <3>3
  <2>5. CASE Rollback
    <3>1. /\ \A x \in Sandboxes : x # b => objects'[x] = objects[x] /\ (x \in secrets' <=> x \in secrets)
          /\ \/ objects'[b] = objects[b] /\ secrets' = secrets
             \/ objects'[b] = NoObject /\ b \notin secrets'
      <4>1. CASE UNCHANGED cluster
        BY <4>1 DEF cluster
      <4>2. CASE Drop(b)
        BY <1>1, <1>2, <4>2, DropWrites
      <4> QED
        BY <2>3, <2>5, <4>1, <4>2
    <3>2. outcome'[b] = "kept" \/ (outcome'[b] = "undone" /\ objects'[b] = NoObject)
      <4>1. CASE Ended(b, "kept")
        BY <1>1, <1>2, <4>1 DEF Ended
      <4>2. CASE Remove(b) /\ Ended(b, "undone")
        <5>1. objects[b].hold = "none"
          BY <1>1, <2>5 DEF Rollback, Unheld
        <5>2. objects'[b] = NoObject
          BY <4>2, <5>1, DropWrites DEF Remove, cluster
        <5> QED
          BY <1>1, <1>2, <4>2, <5>2 DEF Ended
      <4> QED
        BY <1>1, <2>5, <4>1, <4>2 DEF Rollback
    <3>3. ~Creating(b)'
      BY <1>2, <2>1 DEF Creating
    <3>4. OwnedBy(b)'
      BY <1>2, <3>1, <3>2, <3>3, ObjectsTyped DEF OwnedBy
    <3> QED
      BY <1>1, <1>4, <2>2, <3>1, <3>4, OwnedChange
  <2> QED
    BY <1>7, <2>4, <2>5
<1>9. ASSUME NEW p \in Procs, Look(p) \/ Fetch(p) \/ Store(p)
      PROVE  Owned'
  <2>1. at[p].step \in {"look", "fetch", "store"} /\ UNCHANGED <<objects, secrets>>
    BY <1>9 DEF Look, Fetch, Store, cluster
  <2>2. at[p] \in Threads /\ at[p].op # "none" /\ at[p].box \in Sandboxes /\ Turn(p, at[p], outcome)
    BY <2>1, StepOp DEF InTurns
  <2>3. at[p].op = "create" => Creating(at[p].box)
    BY <2>1, <2>2 DEF Turn, Creating
  <2>4. CASE \E object : Found(p, object)
    <3>1. PICK object : Found(p, object)
      BY <2>4
    <3>2. at'[Server] = at[Server] \/ at'[Server].op # "create"
      BY <2>1, <3>1, FoundAnswers
    <3>3. \A x \in Sandboxes :
            outcome'[x] # outcome[x] => Creating(x) /\ outcome'[x] \in {"ok", "unread"}
      BY <2>1, <2>3, <3>1, FoundAnswers
    <3> QED
      BY <2>1, <3>2, <3>3, OwnedQuiet DEF Creating
  <2>5. CASE /\ UNCHANGED outcome
             /\ \E t \in Threads : /\ at' = [at EXCEPT ![p] = t] /\ t.op = at[p].op /\ t.box = at[p].box
    BY <1>1, <2>1, <2>5, OwnedQuiet DEF Creating
  <2>6. CASE /\ Finish(p)
             /\ IF at[p].op = "create" THEN Ended(at[p].box, "unread") ELSE UNCHANGED outcome
    <3>1. \A x \in Sandboxes : Creating(x)' => Creating(x)
      BY <1>1, <1>2, <2>6 DEF Creating, Finish
    <3>2. \A x \in Sandboxes : outcome'[x] # outcome[x] => outcome'[x] = "unread"
      BY <1>2, <2>2, <2>6 DEF Ended
    <3> QED
      BY <2>1, <3>1, <3>2, OwnedQuiet
  <2>7. Goto(p, "fetch") => \E t \in Threads : /\ at' = [at EXCEPT ![p] = t] /\ t.op = at[p].op
                                               /\ t.box = at[p].box
    <3>1. "fetch" \in Steps
      BY DEF Steps
    <3>2. [at[p] EXCEPT !.step = "fetch"].op = at[p].op /\ [at[p] EXCEPT !.step = "fetch"].box = at[p].box
      BY <2>2 DEF Threads
    <3> QED
      BY <1>1, <3>1, <3>2, GotoThread
  <2>8. at' = [at EXCEPT ![p].seen = objects[at[p].box], ![p].step = "store"]
        => \E t \in Threads : /\ at' = [at EXCEPT ![p] = t] /\ t.op = at[p].op /\ t.box = at[p].box
    <3> DEFINE t == [at[p] EXCEPT !.seen = objects[at[p].box], !.step = "store"]
    <3>1. t \in Threads /\ t.op = at[p].op /\ t.box = at[p].box
      BY <1>2, <2>2 DEF Threads, Steps
    <3>2. at' = [at EXCEPT ![p].seen = objects[at[p].box], ![p].step = "store"]
          => at' = [at EXCEPT ![p] = t]
      BY <1>1
    <3> QED
      BY <3>1, <3>2
  <2> QED
    BY <1>9, <2>4, <2>5, <2>6, <2>7, <2>8 DEF Look, Fetch, Store
<1> QED
  BY <1>5, <1>6, <1>7, <1>9 DEF ServerStep

LEMMA OwnedRequest ==
  ASSUME Typed, Owned, Request
  PROVE  Owned'
<1>1. UNCHANGED <<objects, secrets>>
  BY RequestBegins DEF cluster
<1>2. outcome \in [Sandboxes -> Outcomes] /\ at \in [Procs -> Threads]
  BY ThreadsTyped DEF Typed, TypeOK
<1>3. CASE \E s \in Sandboxes : outcome[s] = "new" /\ Ended(s, "refused") /\ UNCHANGED at
  BY <1>1, <1>2, <1>3, OwnedQuiet DEF Ended, Creating
<1>4. CASE \E s \in Sandboxes :
             outcome[s] = "new" /\ Ended(s, "creating") /\ Begun(Server, "create", s)
  <2>1. PICK s \in Sandboxes :
          outcome[s] = "new" /\ Ended(s, "creating") /\ Begun(Server, "create", s)
    BY <1>4
  <2>2. PICK t \in Threads : at' = [at EXCEPT ![Server] = t] /\ t.step = "create"
    BY <2>1, BegunThread, Servers
  <2>3. \A x \in Sandboxes : ~Creating(x)'
    BY <1>2, <2>2, Servers DEF Creating
  <2> QED
    BY <1>1, <1>2, <2>1, <2>3, OwnedQuiet DEF Ended
<1>5. CASE /\ UNCHANGED outcome
           /\ \E s \in Sandboxes, p \in Procs, op \in {"get", "renew", "delete"} :
                Known(s) /\ Begun(p, op, s) /\ (op # "get" => p = Server)
  <2>1. PICK s \in Sandboxes, p \in Procs, op \in {"get", "renew", "delete"} : Begun(p, op, s)
    BY <1>5
  <2>2. PICK t \in Threads : at' = [at EXCEPT ![p] = t] /\ t.op = op
    BY <2>1, BegunThread
  <2>3. \A x \in Sandboxes : Creating(x)' => Creating(x)
    BY <1>2, <2>2, Servers DEF Creating
  <2> QED
    BY <1>1, <1>5, <2>3, OwnedQuiet
<1> QED
  BY <1>3, <1>4, <1>5, RequestBegins

LEMMA InitOwned == Init => Owned
BY ObjectsTyped DEF Init, Owned, OwnedBy, EmptyCache

LEMMA OwnedStep == Typed /\ InTurns /\ Unheld /\ Owned /\ [Next]_vars => Owned'
<1> SUFFICES ASSUME Typed, InTurns, Unheld, Owned, [Next]_vars PROVE Owned'
  OBVIOUS
<1>1. CASE ServerStep
  BY <1>1, OwnedServer
<1>2. CASE UNCHANGED <<cluster, clients>>
  BY <1>2, OwnedQuiet DEF cluster, clients, Creating
<1>3. CASE Request
  BY <1>3, OwnedRequest
<1>4. CASE \E s \in Sandboxes : Progress(s) \/ Hold(s) \/ Finalize(s) \/ Expire(s)
  BY <1>4, OwnedEnvironment
<1>5. CASE Restart
  <2>1. \A x \in Sandboxes : ~Creating(x)'
    BY <1>5, IdleTyped, Servers DEF Restart, Creating
  <2>2. UNCHANGED <<objects, secrets>>
    BY <1>5 DEF Restart, cluster
  <2>3. \A x \in Sandboxes : outcome'[x] # outcome[x] => outcome'[x] = "crashed"
    BY <1>5 DEF Restart
  <2> QED
    BY <2>1, <2>2, <2>3, OwnedQuiet
<1> QED
  BY <1>1, <1>2, <1>3, <1>4, <1>5
  DEF Next, vars, InformerStep, InformerList, InformerSwap, InformerWatch, InformerEvent,
      InformerEnd, Environment, Tick

\* A sandbox answered as deleted is not made again.
LEMMA DeletedMoves ==
  ASSUME Deleted,
         \A s \in Sandboxes : outcome[s] = "ok" => outcome'[s] = "ok",
         gone \subseteq Sandboxes,
         \A s \in Sandboxes : outcome[s] = "ok" /\ ~Alive(s) => ~Alive(s)',
         \A s \in gone' : s \in gone \/ (outcome[s] = "ok" /\ ~Alive(s)' /\ s \in Sandboxes)
  PROVE  Deleted'
BY DEF Deleted

LEMMA DeletedServer ==
  ASSUME Typed, InTurns, Deleted, ServerStep
  PROVE  Deleted'
<1>1. \A s \in Sandboxes : outcome[s] = "ok" => outcome'[s] = "ok"
  BY ServerTurn
<1>2. gone \subseteq Sandboxes /\ objects \in [Sandboxes -> MaybeObjects]
  BY DEF Typed, TypeOK
<1>3. PICK b \in Sandboxes : b = at[Server].box
  BY Servers, ThreadsTyped DEF Typed, Threads
<1>4. Turn(Server, at[Server], outcome) /\ at[Server].shape \in Shapes
  BY Servers, ThreadsTyped DEF InTurns, Typed, Threads
<1>5. ASSUME UNCHANGED objects \/ Drop(b) \/ \E o \in Drafts : Amended(b, o)
      PROVE  \A s \in Sandboxes : ~Alive(s) => ~Alive(s)'
  BY <1>5, AmendedHolds DEF Alive
<1>6. ASSUME Remove(b)
      PROVE  ~Alive(b)' /\ (UNCHANGED objects \/ Drop(b) \/ \E o \in Drafts : Amended(b, o))
  <2>1. CASE UNCHANGED cluster /\ ~Alive(b)
    BY <2>1 DEF cluster, Alive
  <2>2. CASE Drop(b)
    BY <2>2, DropWrites DEF Alive
  <2>3. ASSUME NEW o \in Drafts, Amended(b, o), o.hold = "dying"
        PROVE  ~Alive(b)'
    <3>1. PICK x \in Objects : Wrote(b, o, x)
      BY <2>3, PutWrites DEF Amended
    <3> QED
      BY <2>3, <3>1 DEF Wrote, Alive
  <2> QED
    BY <1>6, <2>1, <2>2, <2>3, RemoveIs
<1>7. CASE CreateWorkload
  <2>1. PICK o \in Drafts : o = NewObject(at[Server].shape)
    BY <1>3, <1>4, DraftsTyped
  <2>2. UNCHANGED cluster \/ Put(b, o)
    BY <1>3, <1>7, <2>1 DEF CreateWorkload
  <2>3. outcome[b] # "ok" /\ gone' = gone
    BY <1>3, <1>4, <1>7 DEF CreateWorkload, Turn
  <2>4. \A s \in Sandboxes : s # b => objects'[s] = objects[s]
    <3>1. CASE UNCHANGED cluster
      BY <3>1 DEF cluster
    <3>2. CASE Put(b, o)
      <4>1. PICK x \in Objects : Wrote(b, o, x)
        BY <3>2, PutWrites
      <4> QED
        BY <1>2, <4>1 DEF Wrote
    <3> QED
      BY <2>2, <3>1, <3>2
  <2>5. \A s \in Sandboxes : outcome[s] = "ok" /\ ~Alive(s) => ~Alive(s)'
    BY <2>3, <2>4 DEF Alive
  <2> QED
    BY <1>1, <1>2, <2>3, <2>5, DeletedMoves
<1>8. CASE CreateSecret
  BY <1>1, <1>2, <1>5, <1>8, DeletedMoves DEF CreateSecret
<1>9. CASE Rollback
  <2>1. gone' = gone /\ (Remove(b) \/ UNCHANGED cluster)
    BY <1>3, <1>9 DEF Rollback
  <2> QED
    BY <1>1, <1>2, <1>5, <1>6, <2>1, DeletedMoves DEF cluster
<1>10. CASE RenewPatch
  <2>1. gone' = gone
    BY <1>10 DEF RenewPatch
  <2> QED
    BY <1>1, <1>2, <1>3, <1>4, <1>5, <1>10, <2>1, RenewIs, DeletedMoves DEF cluster
<1>11. CASE DeleteRemove
  <2>1. outcome[b] = "ok"
    BY <1>3, <1>4, <1>11 DEF DeleteRemove, Turn
  <2>2. \/ gone' = gone /\ (Remove(b) \/ UNCHANGED cluster)
        \/ gone' = gone \cup {b} /\ Remove(b)
    BY <1>3, <1>11 DEF DeleteRemove
  <2> QED
    BY <1>1, <1>2, <1>5, <1>6, <2>1, <2>2, DeletedMoves DEF cluster
<1>12. ASSUME NEW p \in Procs, Look(p) \/ Fetch(p) \/ Store(p)
       PROVE  Deleted'
  <2>1. at[p].step \in {"look", "fetch", "store"} /\ UNCHANGED objects
    BY <1>12 DEF Look, Fetch, Store, cluster
  <2>2. at[p].op # "none" /\ at[p].box \in Sandboxes /\ Turn(p, at[p], outcome)
    BY <2>1, StepOp DEF InTurns
  <2>3. CASE gone' = gone
    BY <1>1, <1>2, <1>5, <2>1, <2>3, DeletedMoves
  <2>4. ASSUME NEW object, Found(p, object), object = NoObject => objects[at[p].box] = NoObject
        PROVE  Deleted'
    <3>1. \/ gone' = gone
          \/ at[p].op = "delete" /\ object = NoObject /\ gone' = gone \cup {at[p].box}
      BY <2>1, <2>4, FoundAnswers
    <3>2. at[p].op = "delete" => outcome[at[p].box] = "ok"
      BY <2>2 DEF Turn
    <3> QED
      BY <1>1, <1>2, <1>5, <2>1, <2>2, <2>4, <3>1, <3>2, DeletedMoves DEF Alive
  <2>5. Store(p) => at[p].seen # NoObject
    BY <2>2 DEF Store, Turn
  <2> QED
    BY <1>12, <2>3, <2>4, <2>5 DEF Look, Fetch, Store
<1> QED
  BY <1>7, <1>8, <1>9, <1>10, <1>11, <1>12 DEF ServerStep

LEMMA InitDeleted == Init => Deleted
BY DEF Init, Deleted

LEMMA DeletedStep == Typed /\ InTurns /\ Deleted /\ [Next]_vars => Deleted'
<1> SUFFICES ASSUME Typed, InTurns, Deleted, [Next]_vars PROVE Deleted'
  OBVIOUS
<1>0. ASSUME UNCHANGED objects
      PROVE  \A s \in Sandboxes : ~Alive(s) => ~Alive(s)'
  BY <1>0 DEF Alive
<1>1. CASE ServerStep
  BY <1>1, DeletedServer
<1>2. CASE UNCHANGED <<cluster, clients>>
  BY <1>2 DEF cluster, clients, Deleted, Alive
<1>3. gone \subseteq Sandboxes /\ objects \in [Sandboxes -> MaybeObjects]
      /\ outcome \in [Sandboxes -> Outcomes]
  BY DEF Typed, TypeOK
<1>4. CASE Request
  <2>1. UNCHANGED <<objects, gone>>
    BY <1>4, RequestBegins DEF cluster
  <2>2. \A s \in Sandboxes : outcome[s] = "ok" => outcome'[s] = "ok"
    BY <1>3, <1>4, RequestBegins DEF Ended
  <2> QED
    BY <1>0, <1>3, <2>1, <2>2, DeletedMoves
<1>5. ASSUME NEW s \in Sandboxes, Progress(s) \/ Hold(s) \/ Finalize(s) \/ Expire(s)
      PROVE  Deleted'
  <2>1. UNCHANGED <<outcome, gone>> /\ (Drop(s) \/ \E o \in Drafts : Amended(s, o))
    BY <1>5, ControllerIs DEF clients
  <2>2. \A y \in Sandboxes : ~Alive(y) => ~Alive(y)'
    BY <2>1, AmendedHolds
  <2> QED
    BY <1>3, <2>1, <2>2, DeletedMoves
<1>6. CASE Restart
  <2>1. UNCHANGED <<objects, gone>>
    BY <1>6 DEF Restart, cluster
  <2>2. \A s \in Sandboxes : outcome[s] = "ok" => outcome'[s] = "ok"
    BY <1>6 DEF Restart
  <2> QED
    BY <1>0, <1>3, <2>1, <2>2, DeletedMoves
<1> QED
  BY <1>1, <1>2, <1>4, <1>5, <1>6
  DEF Next, vars, InformerStep, InformerList, InformerSwap, InformerWatch, InformerEvent,
      InformerEnd, Environment, Tick

\* A deletion that was answered 204 or 404 is true of the cluster, however stale
\* the cache is, and whatever faults and restarts come in between: the object is
\* gone for good, or its finalizer keeps it, dying, until its tasks are cleaned up
\* (delete_workload, FinalizerTaskCleanup).
THEOREM DeletionsTrue == Spec => []DeleteAnswerSound
<1>1. Deleted => DeleteAnswerSound
  BY DEF Deleted, DeleteAnswerSound
<1> QED
  BY <1>1, InitTyped, TypedStep, InitTurns, TurnsStep, InitDeleted, DeletedStep, PTL DEF Spec

\* A creation leaves all or nothing: its pull secret with its workload while it
\* exists, and neither when it was refused or rolled back.
THEOREM CreationsSettled == Spec => []CreateSettled
<1>1. Typed /\ Owned => CreateSettled
  BY DEF Typed, TypeOK, Owned, OwnedBy, CreateSettled, SecretBacked, UndoneIsGone
<1> QED
  BY <1>1, InitTyped, TypedStep, InitTurns, TurnsStep, InitUnheld, UnheldStep,
     InitOwned, OwnedStep, PTL DEF Spec
-----------------------------------------------------------------------------
(* What is written of a sandbox, and its expiration.                       *)

Changed(s, x) ==
  /\ objects' = [objects EXCEPT ![s] = x]
  /\ history' = Append(history, [box |-> s, object |-> x])

LEMMA HistoryIndices == Typed => DOMAIN history = 1..Revision /\ Revision \in Nat
BY DEF Typed, TypeOK, Revision

LEMMA Appended ==
  ASSUME Typed, NEW s \in Sandboxes, NEW x \in MaybeObjects,
         history' = Append(history, [box |-> s, object |-> x])
  PROVE  /\ Revision' = Revision + 1
         /\ DOMAIN history' = 1..(Revision + 1)
         /\ \A i \in 1..Revision : history'[i] = history[i]
         /\ history'[Revision + 1] = [box |-> s, object |-> x]
<1> DEFINE e == [box |-> s, object |-> x]
           changes == [box : Sandboxes, object : MaybeObjects]
<1>1. history \in Seq(changes) /\ e \in changes
  BY DEF Typed, TypeOK
<1>2. history' = Append(history, e)
  OBVIOUS
<1> HIDE DEF e, changes
<1>3. /\ Len(history') = Len(history) + 1
      /\ DOMAIN history' = 1..(Len(history) + 1)
      /\ \A i \in 1..Len(history) : history'[i] = history[i]
      /\ history'[Len(history) + 1] = e
  BY <1>1, <1>2
<1> QED
  BY <1>3 DEF Revision, e

\* The history grows, so that what was written stays written.
Grows ==
  \/ history' = history
  \/ \E s \in Sandboxes, x \in MaybeObjects : history' = Append(history, [box |-> s, object |-> x])

LEMMA HistoryKept ==
  ASSUME Typed, Grows
  PROVE  /\ DOMAIN history \subseteq DOMAIN history'
         /\ \A i \in DOMAIN history : history'[i] = history[i]
<1>1. CASE history' = history
  BY <1>1
<1>2. CASE \E s \in Sandboxes, x \in MaybeObjects : history' = Append(history, [box |-> s, object |-> x])
  <2>1. PICK s \in Sandboxes, x \in MaybeObjects : history' = Append(history, [box |-> s, object |-> x])
    BY <1>2
  <2>2. DOMAIN history = 1..Revision /\ Revision \in Nat
    BY HistoryIndices
  <2>3. DOMAIN history' = 1..(Revision + 1) /\ \A i \in 1..Revision : history'[i] = history[i]
    BY <2>1, Appended
  <2> QED
    BY <2>2, <2>3
<1> QED
  BY <1>1, <1>2 DEF Grows

LEMMA WrittenKept ==
  ASSUME Typed, Grows, NEW s, NEW o, Written(s, o)
  PROVE  Written(s, o)'
BY HistoryKept DEF Written

\* A change of the cluster is of an object that is there, and keeps its kind of
\* expiration, or it is the creation of an object that never was.
LEMMA StepChanges ==
  ASSUME Typed, InTurns, Lasting, Next
  PROVE  \/ UNCHANGED <<objects, history>>
         \/ \E s \in Sandboxes, x \in MaybeObjects :
              /\ Changed(s, x) /\ objects[s] # NoObject
              /\ x # NoObject => (x.expire = NoTTL <=> objects[s].expire = NoTTL)
         \/ \E s \in Sandboxes, x \in MaybeObjects :
              Changed(s, x) /\ CreateWorkload /\ at[Server].box = s /\ Unwritten(s)
<1> DEFINE Kept == \E s \in Sandboxes, x \in MaybeObjects :
              /\ Changed(s, x) /\ objects[s] # NoObject
              /\ x # NoObject => (x.expire = NoTTL <=> objects[s].expire = NoTTL)
<1>1. ASSUME NEW s \in Sandboxes, Drop(s), objects[s] # NoObject
      PROVE  Kept
  BY <1>1, DropWrites, ObjectsTyped DEF Changed
<1>2. ASSUME NEW s \in Sandboxes, NEW o \in Drafts, Put(s, o), objects[s] # NoObject,
             o.expire = NoTTL <=> objects[s].expire = NoTTL
      PROVE  Kept
  <2>1. PICK x \in Objects : Wrote(s, o, x)
    BY <1>2, PutWrites
  <2> QED
    BY <1>2, <2>1 DEF Wrote, Changed, MaybeObjects
<1> HIDE DEF Kept
<1>3. PICK b \in Sandboxes : b = at[Server].box
  BY Servers, ThreadsTyped DEF Typed, Threads
<1>4. Turn(Server, at[Server], outcome) /\ at[Server] \in Threads /\ at[Server].shape \in Shapes
  BY Servers, ThreadsTyped DEF InTurns, Typed, Threads
<1>5. CASE CreateWorkload
  <2>1. PICK o \in Drafts : o = NewObject(at[Server].shape)
    BY <1>3, <1>4, DraftsTyped
  <2>2. UNCHANGED cluster \/ Put(b, o)
    BY <1>3, <1>5, <2>1 DEF CreateWorkload, Put, Write
  <2>3. Unwritten(b)
    BY <1>3, <1>5 DEF CreateWorkload, Lasting, Unmade
  <2>4. CASE Put(b, o)
    <3>1. PICK x \in Objects : Wrote(b, o, x)
      BY <2>4, PutWrites
    <3> QED
      BY <1>3, <1>5, <2>3, <3>1 DEF Wrote, Changed, MaybeObjects
  <2> QED
    BY <2>2, <2>4 DEF cluster
<1>6. CASE CreateSecret
  BY <1>6 DEF CreateSecret
<1>7. CASE Rollback \/ DeleteRemove
  <2>1. UNCHANGED cluster \/ Remove(b)
    BY <1>3, <1>7 DEF Rollback, DeleteRemove
  <2> QED
    BY <1>1, <1>2, <2>1, RemoveIs DEF cluster, Kept, Amended
<1>8. CASE RenewPatch
  <2>1. PICK o \in Drafts : o = [objects[b] EXCEPT !.expire = at[Server].shape.expire]
    BY <1>4, DraftsTyped
  <2>2. UNCHANGED cluster \/ (objects[b] # NoObject /\ Put(b, o))
    BY <1>3, <1>8, <2>1 DEF RenewPatch, Put, Write
  <2>3. at[Server].op = "renew" /\ at[Server].checked /\ at[Server].shape.expire # NoTTL
    BY <1>4, <1>8 DEF RenewPatch, Turn
  <2>4. CASE objects[b] # NoObject /\ Put(b, o)
    <3>1. o.expire # NoTTL
      BY <2>1, <2>3, DraftsTyped, <1>4 DEF Drafts
    <3>2. PICK i \in DOMAIN history : /\ history[i].box = b /\ history[i].object # NoObject
                                      /\ history[i].object.expire # NoTTL
      BY <1>3, <2>3, Servers DEF Lasting, CheckedOnce
    <3>3. PICK j \in DOMAIN history : history[j] = [box |-> b, object |-> objects[b]]
      BY <2>4 DEF Lasting, Recalled, Written
    <3>4. objects[b].expire # NoTTL
      BY <2>4, <3>2, <3>3 DEF Lasting, OneKind
    <3> QED
      BY <1>2, <2>4, <3>1, <3>4 DEF Kept
  <2> QED
    BY <2>2, <2>4 DEF cluster
<1>9. ASSUME NEW s \in Sandboxes, Progress(s) \/ Hold(s) \/ Finalize(s) \/ Expire(s)
      PROVE  Kept
  BY <1>1, <1>2, <1>9, ControllerIs DEF Amended
<1>10. CASE UNCHANGED cluster
  BY <1>10 DEF cluster
<1>11. ASSUME NEW p \in Procs, Look(p) \/ Fetch(p) \/ Store(p)
       PROVE  UNCHANGED cluster
  BY <1>11 DEF Look, Fetch, Store
<1>12. InformerStep \/ Tick \/ Restart => UNCHANGED cluster
  BY DEF InformerStep, InformerList, InformerSwap, InformerWatch, InformerEvent, InformerEnd, Tick, Restart
<1>13. Request => UNCHANGED cluster
  BY RequestBegins
<1>14. CASE Kept
  BY <1>14 DEF Kept
<1> QED
  BY <1>5, <1>6, <1>7, <1>8, <1>9, <1>10, <1>11, <1>12, <1>13, <1>14
  DEF Next, ServerStep, Environment

\* A thread that moves remembers what it saw, or saw the object just now, or
\* nothing; and a renewal is let through for an object with an expiration.
Recalls(p, t) ==
  \/ t.seen = NoObject
  \/ t.seen = at[p].seen /\ t.box = at[p].box
  \/ t.seen = objects[t.box]

Checks(p, t) ==
  t.op = "renew" /\ t.checked =>
    \/ at[p].op = "renew" /\ at[p].checked /\ t.box = at[p].box
    \/ \E object : Written(t.box, object) /\ object # NoObject /\ object.expire # NoTTL

Moved(p, t) ==
  /\ at' = [at EXCEPT ![p] = t]
  /\ Recalls(p, t) /\ Checks(p, t)
  /\ t.step = "create" => p = Server /\ outcome[t.box] = "new"

LEMMA IdleMoved ==
  ASSUME NEW p, Finish(p)
  PROVE  Moved(p, Idle)
BY IdleTyped DEF Moved, Recalls, Checks, Finish

LEMMA GotoMoved ==
  ASSUME Typed, NEW p \in Procs, NEW step \in Steps, step # "create", Goto(p, step)
  PROVE  \E t \in Threads : Moved(p, t)
<1> DEFINE t == [at[p] EXCEPT !.step = step]
<1>1. at[p] \in Threads /\ at' = [at EXCEPT ![p] = t] /\ t \in Threads
  BY GotoThread, ThreadsTyped DEF Typed
<1>2. /\ t.step = step /\ t.seen = at[p].seen /\ t.box = at[p].box /\ t.op = at[p].op
      /\ t.checked = at[p].checked
  BY <1>1 DEF Threads
<1> QED
  BY <1>1, <1>2 DEF Moved, Recalls, Checks

LEMMA FoundMoved ==
  ASSUME Typed, InTurns, Recalled, NEW p \in Procs, at[p].step # "idle",
         NEW object, Found(p, object), Written(at[p].box, object)
  PROVE  \E t \in Threads : Moved(p, t)
<1>1. at[p] \in Threads /\ at[p].op # "none"
  BY StepOp
<1>2. PICK t \in Threads : /\ AfterFound(p, t) /\ at' = [at EXCEPT ![p] = t]
                           /\ at[p].op = "renew" /\ ~at[p].checked /\ t.checked
                                => object # NoObject /\ object.expire # NoTTL
  BY <1>1, FoundEffect
<1>3. CASE t = Idle
  BY <1>2, <1>3, IdleTyped DEF Moved, Recalls, Checks
<1>4. CASE t # Idle
  <2>1. t.seen = NoObject /\ t.box = at[p].box /\ t.op = at[p].op /\ t.step # "create"
    BY <1>1, <1>2, <1>4 DEF AfterFound, Threads
  <2>2. Checks(p, t)
    <3>1. CASE at[p].checked
      BY <2>1, <3>1 DEF Checks
    <3>2. CASE ~at[p].checked
      BY <1>2, <2>1, <3>2 DEF Checks
    <3> QED
      BY <3>1, <3>2
  <2> QED
    BY <1>2, <2>1, <2>2 DEF Moved, Recalls
<1> QED
  BY <1>3, <1>4

LEMMA StepThreads ==
  ASSUME Typed, InTurns, Recalled, Next
  PROVE  \/ UNCHANGED at
         \/ at' = [p \in Procs |-> Idle]
         \/ \E p \in Procs, t \in Threads : Moved(p, t)
<1>1. CASE CreateWorkload \/ CreateSecret \/ Rollback \/ RenewPatch \/ DeleteRemove
  <2>1. Finish(Server) \/ \E step \in Steps \ {"create"} : Goto(Server, step)
    BY <1>1 DEF CreateWorkload, CreateSecret, Rollback, RenewPatch, DeleteRemove, Steps
  <2>2. CASE Finish(Server)
    BY <2>2, IdleMoved, IdleTyped, Servers
  <2>3. CASE \E step \in Steps \ {"create"} : Goto(Server, step)
    BY <2>3, GotoMoved, Servers
  <2> QED
    BY <2>1, <2>2, <2>3
<1>2. ASSUME NEW p \in Procs, Look(p) \/ Fetch(p) \/ Store(p)
      PROVE  \E t \in Threads : Moved(p, t)
  <2>1. at[p].step # "idle"
    BY <1>2 DEF Look, Fetch, Store
  <2>2. /\ at[p] \in Threads /\ at[p].box \in Sandboxes /\ at \in [Procs -> Threads]
        /\ objects[at[p].box] \in MaybeObjects
    BY <2>1, StepOp, ThreadsTyped DEF Typed, TypeOK
  <2>3. /\ Written(at[p].box, cache[at[p].box]) /\ Written(at[p].box, at[p].seen)
        /\ Written(at[p].box, NoObject)
    BY <2>2 DEF Recalled, Written
  <2>4. CASE Look(p)
    <3>1. CASE Found(p, cache[at[p].box])
      BY <2>1, <2>3, <3>1, FoundMoved
    <3>2. CASE Goto(p, "fetch")
      BY <3>2, GotoMoved DEF Steps
    <3> QED
      BY <2>4, <3>1, <3>2 DEF Look
  <2>5. CASE Store(p)
    BY <2>1, <2>3, <2>5, FoundMoved DEF Store
  <2>6. CASE Fetch(p)
    <3>1. CASE Found(p, NoObject)
      BY <2>1, <2>3, <3>1, FoundMoved
    <3>2. CASE Finish(p)
      BY <3>2, IdleMoved, IdleTyped
    <3>3. CASE at' = [at EXCEPT ![p].seen = objects[at[p].box], ![p].step = "store"]
      <4> DEFINE t == [at[p] EXCEPT !.seen = objects[at[p].box], !.step = "store"]
      <4>1. /\ t \in Threads /\ t.seen = objects[at[p].box] /\ t.step = "store"
            /\ t.box = at[p].box /\ t.op = at[p].op /\ t.checked = at[p].checked
        BY <2>2 DEF Threads, Steps
      <4>2. at' = [at EXCEPT ![p] = t]
        BY <2>2, <3>3
      <4> HIDE DEF t
      <4> QED
        BY <4>1, <4>2 DEF Moved, Recalls, Checks
    <3> QED
      BY <2>6, <3>1, <3>2, <3>3 DEF Fetch
  <2> QED
    BY <1>2, <2>4, <2>5, <2>6
<1>3. ASSUME NEW p \in Procs, NEW s \in Sandboxes, NEW op \in {"create", "get", "renew", "delete"},
             Begun(p, op, s), op = "create" => p = Server /\ outcome[s] = "new"
      PROVE  \E t \in Threads : Moved(p, t)
  <2>1. PICK t \in Threads : /\ at' = [at EXCEPT ![p] = t] /\ t.op = op /\ t.box = s
                             /\ t.seen = NoObject /\ ~t.checked
                             /\ t.step = IF op = "create" THEN "create" ELSE "look"
    BY <1>3, BegunThread
  <2> QED
    BY <1>3, <2>1 DEF Moved, Recalls, Checks
<1>4. CASE Request
  BY <1>3, <1>4, RequestBegins, Servers
<1>5. CASE InformerStep \/ Environment
  BY <1>5 DEF InformerStep, InformerList, InformerSwap, InformerWatch, InformerEvent, InformerEnd,
              Environment, Tick, Progress, Hold, Finalize, Expire, Restart, clients
<1> QED
  BY <1>1, <1>2, <1>4, <1>5 DEF Next, ServerStep

\* What the cache and the list take over was written before.
LEMMA CacheRecalled ==
  ASSUME Typed, InTurns, Recalled, Next, NEW s \in Sandboxes
  PROVE  Written(s, cache'[s]) /\ Written(s, listed'.objects[s])
<1>1. /\ Written(s, cache[s]) /\ Written(s, listed.objects[s]) /\ Written(s, objects[s])
      /\ Written(s, NoObject)
  BY DEF Recalled, Written
<1>2. /\ cache \in [Sandboxes -> MaybeObjects]
      /\ EmptyCache[s] = NoObject /\ NothingListed.objects[s] = NoObject
  BY DEF Typed, TypeOK, EmptyCache, NothingListed
<1>3. CASE UNCHANGED <<cache, listed>>
  BY <1>1, <1>3
<1>4. ASSUME NEW p \in Procs, Store(p)
      PROVE  Written(s, cache'[s]) /\ listed' = listed
  <2>1. cache' = [cache EXCEPT ![at[p].box] = at[p].seen] /\ listed' = listed
    BY <1>4 DEF Store, UpdateCache
  <2>2. Written(at[p].box, at[p].seen)
    BY DEF Recalled
  <2>3. cache'[s] = IF s = at[p].box THEN at[p].seen ELSE cache[s]
    BY <1>2, <2>1
  <2> QED
    BY <1>1, <2>1, <2>2, <2>3 DEF Written
<1>5. CASE InformerList
  BY <1>1, <1>5 DEF InformerList
<1>6. CASE InformerSwap
  BY <1>1, <1>2, <1>6 DEF InformerSwap
<1>7. CASE InformerEvent
  <2> DEFINE event == history[stream + 1]
  <2>1. stream + 1 \in 1..Revision
    <3>1. stream \in 0..MaxRevision /\ stream < Revision /\ Revision \in 0..MaxRevision
      BY <1>7, RevisionTyped DEF InformerEvent, Typed, TypeOK
    <3> QED
      BY <3>1, KubernetesAssumption
  <2>2. event = [box |-> event.box, object |-> event.object] /\ stream + 1 \in DOMAIN history
    BY <2>1, HistoryTyped, HistoryIndices
  <2>3. Written(event.box, event.object)
    BY <2>2 DEF Written
  <2>4. cache' = [cache EXCEPT ![event.box] = event.object] /\ listed' = listed
    BY <1>7 DEF InformerEvent
  <2> HIDE DEF event
  <2>5. cache'[s] = IF s = event.box THEN event.object ELSE cache[s]
    BY <1>2, <2>4
  <2> QED
    BY <1>1, <2>3, <2>4, <2>5 DEF Written
<1>8. CASE Restart
  BY <1>1, <1>2, <1>8 DEF Restart
<1> QED
  BY <1>1, <1>3, <1>4, <1>5, <1>6, <1>7, <1>8, RequestBegins
  DEF Next, ServerStep, InformerStep, Environment, CreateWorkload, CreateSecret, Rollback, RenewPatch,
      DeleteRemove, Look, Fetch, InformerWatch, InformerEnd, Tick, Progress, Hold, Finalize, Expire,
      informing

LEMMA StepGrows ==
  ASSUME Typed, InTurns, Lasting, Next
  PROVE  Grows
BY StepChanges DEF Changed, Grows

LEMMA ChangedWritten ==
  ASSUME Typed, NEW s \in Sandboxes, NEW x \in MaybeObjects, Changed(s, x)
  PROVE  Written(s, x)'
<1>1. Revision + 1 \in DOMAIN history' /\ history'[Revision + 1] = [box |-> s, object |-> x]
  BY Appended, HistoryIndices DEF Changed
<1> QED
  BY <1>1 DEF Written

LEMMA RecalledStep ==
  ASSUME Typed, InTurns, Lasting, Next
  PROVE  Recalled'
<1>1. Grows /\ Recalled
  BY StepGrows DEF Lasting
<1>2. ASSUME NEW s \in Sandboxes
      PROVE  Written(s, objects[s])'
  <2>1. CASE UNCHANGED <<objects, history>>
    BY <1>1, <2>1 DEF Recalled, Written
  <2>2. CASE \E y \in Sandboxes, x \in MaybeObjects : Changed(y, x)
    <3>1. PICK y \in Sandboxes, x \in MaybeObjects : Changed(y, x)
      BY <2>2
    <3>2. Written(y, x)'
      BY <3>1, ChangedWritten
    <3>3. objects'[s] = IF s = y THEN x ELSE objects[s]
      BY <3>1 DEF Changed, Typed, TypeOK
    <3>4. PICK o : o = objects[s]
      OBVIOUS
    <3>5. Written(s, o)'
      BY <1>1, <3>4, WrittenKept DEF Recalled
    <3> QED
      BY <3>2, <3>3, <3>4, <3>5 DEF Written
  <2> QED
    BY <2>1, <2>2, StepChanges
<1>3. ASSUME NEW s \in Sandboxes
      PROVE  Written(s, cache[s])' /\ Written(s, listed.objects[s])'
  <2>1. PICK c, l : c = cache'[s] /\ l = listed'.objects[s]
    OBVIOUS
  <2>2. Written(s, c) /\ Written(s, l)
    BY <1>1, <2>1, CacheRecalled
  <2>3. Written(s, c)' /\ Written(s, l)'
    BY <1>1, <2>2, WrittenKept
  <2> QED
    BY <2>1, <2>3 DEF Written
<1>4. ASSUME NEW p \in Procs
      PROVE  Written(at[p].box, at[p].seen)'
  <2>1. \A q \in Procs : Written(at'[q].box, at'[q].seen)
    <3>1. at \in [Procs -> Threads] /\ \A q \in Procs : Written(at[q].box, at[q].seen)
      BY <1>1, ThreadsTyped DEF Typed, Recalled
    <3>2. CASE UNCHANGED at
      BY <3>1, <3>2
    <3>3. CASE at' = [q \in Procs |-> Idle]
      BY <3>3, IdleTyped DEF Written
    <3>4. CASE \E q \in Procs, t \in Threads : Moved(q, t)
      <4>1. PICK q \in Procs, t \in Threads : Moved(q, t)
        BY <3>4
      <4>2. t.box \in Sandboxes
        BY DEF Threads
      <4>3. Written(t.box, t.seen)
        BY <1>1, <3>1, <4>1, <4>2 DEF Moved, Recalls, Recalled, Written
      <4>4. \A r \in Procs : at'[r] = IF r = q THEN t ELSE at[r]
        BY <3>1, <4>1 DEF Moved
      <4> QED
        BY <3>1, <4>3, <4>4
    <3> QED
      BY <1>1, <3>2, <3>3, <3>4, StepThreads
  <2>2. PICK b, o : b = at'[p].box /\ o = at'[p].seen
    OBVIOUS
  <2>3. Written(b, o)'
    BY <1>1, <2>1, <2>2, WrittenKept
  <2> QED
    BY <2>2, <2>3 DEF Written
<1> QED
  BY <1>2, <1>3, <1>4 DEF Recalled

LEMMA OneKindStep ==
  ASSUME Typed, InTurns, Lasting, Next
  PROVE  OneKind'
<1>1. OneKind /\ Recalled /\ DOMAIN history = 1..Revision /\ Revision \in Nat
  BY HistoryIndices DEF Lasting
<1>2. CASE UNCHANGED <<objects, history>>
  BY <1>1, <1>2 DEF OneKind
<1>3. ASSUME NEW s \in Sandboxes, NEW x \in MaybeObjects, Changed(s, x),
             \A i \in DOMAIN history :
               history[i].box = s /\ history[i].object # NoObject /\ x # NoObject
               => (history[i].object.expire = NoTTL <=> x.expire = NoTTL)
      PROVE  OneKind'
  <2>1. /\ DOMAIN history' = 1..(Revision + 1)
        /\ \A i \in 1..Revision : history'[i] = history[i]
        /\ history'[Revision + 1].box = s /\ history'[Revision + 1].object = x
    <3>1. history' = Append(history, [box |-> s, object |-> x])
      BY <1>3 DEF Changed
    <3>2. /\ DOMAIN history' = 1..(Revision + 1)
          /\ \A i \in 1..Revision : history'[i] = history[i]
          /\ history'[Revision + 1] = [box |-> s, object |-> x]
      BY <3>1, Appended
    <3> QED
      BY <3>2
  <2>2. \A i \in 1..(Revision + 1) : i \in 1..Revision \/ i = Revision + 1
    BY <1>1
  <2>3. ASSUME NEW i \in DOMAIN history', NEW j \in DOMAIN history',
               history'[i].box = history'[j].box, history'[i].object # NoObject,
               history'[j].object # NoObject
        PROVE  history'[i].object.expire = NoTTL <=> history'[j].object.expire = NoTTL
    <3>1. CASE i \in 1..Revision /\ j \in 1..Revision
      BY <1>1, <2>1, <2>3, <3>1 DEF OneKind
    <3>2. CASE i = Revision + 1 /\ j \in 1..Revision
      BY <1>1, <1>3, <2>1, <2>3, <3>2
    <3>3. CASE i \in 1..Revision /\ j = Revision + 1
      BY <1>1, <1>3, <2>1, <2>3, <3>3
    <3>4. CASE i = Revision + 1 /\ j = Revision + 1
      BY <3>4
    <3> QED
      BY <2>1, <2>2, <3>1, <3>2, <3>3, <3>4
  <2> QED
    BY <2>3 DEF OneKind
<1>4. ASSUME NEW s \in Sandboxes, NEW x \in MaybeObjects, Changed(s, x), objects[s] # NoObject,
             x # NoObject => (x.expire = NoTTL <=> objects[s].expire = NoTTL)
      PROVE  OneKind'
  <2>1. PICK k \in DOMAIN history : history[k] = [box |-> s, object |-> objects[s]]
    BY <1>1, <1>4 DEF Recalled, Written
  <2>2. \A i \in DOMAIN history :
          history[i].box = s /\ history[i].object # NoObject /\ x # NoObject
          => (history[i].object.expire = NoTTL <=> x.expire = NoTTL)
    BY <1>1, <1>4, <2>1 DEF OneKind
  <2> QED
    BY <1>3, <1>4, <2>2
<1>5. ASSUME NEW s \in Sandboxes, NEW x \in MaybeObjects, Changed(s, x), Unwritten(s)
      PROVE  OneKind'
  BY <1>3, <1>5 DEF Unwritten
<1> QED
  BY <1>2, <1>4, <1>5, StepChanges

\* A creation is not taken back to where it may begin again.
LEMMA OutcomeBack ==
  ASSUME Typed, InTurns, Next, NEW s \in Sandboxes, outcome'[s] \in {"new", "refused"}
  PROVE  outcome[s] \in {"new", "refused"}
<1>1. outcome \in [Sandboxes -> Outcomes]
  BY DEF Typed, TypeOK
<1>2. CASE UNCHANGED outcome
  BY <1>2
<1>3. CASE CreateWorkload \/ CreateSecret \/ Rollback \/ RenewPatch \/ DeleteRemove
  BY <1>1, <1>3 DEF CreateWorkload, CreateSecret, Rollback, RenewPatch, DeleteRemove, Ended
<1>4. ASSUME NEW p \in Procs, Look(p) \/ Fetch(p) \/ Store(p)
      PROVE  outcome[s] \in {"new", "refused"}
  <2>1. at[p].step # "idle"
    BY <1>4 DEF Look, Fetch, Store
  <2>2. CASE \E object : Found(p, object)
    BY <2>1, <2>2, FoundAnswers
  <2>3. CASE IF at[p].op = "create" THEN Ended(at[p].box, "unread") ELSE UNCHANGED outcome
    BY <1>1, <2>3 DEF Ended
  <2> QED
    BY <1>2, <1>4, <2>2, <2>3 DEF Look, Fetch, Store
<1>5. CASE Request
  BY <1>1, <1>5, RequestBegins DEF Ended
<1>6. CASE Restart
  BY <1>1, <1>6 DEF Restart
<1> QED
  BY <1>2, <1>3, <1>4, <1>5, <1>6
  DEF Next, ServerStep, InformerStep, InformerList, InformerSwap, InformerWatch, InformerEvent,
      InformerEnd, Environment, Tick, Progress, Hold, Finalize, Expire, clients

LEMMA UnmadeStep ==
  ASSUME Typed, InTurns, Lasting, Next
  PROVE  Unmade'
<1>1. Recalled /\ Unmade /\ at \in [Procs -> Threads]
  BY ThreadsTyped DEF Lasting, Typed
<1>2. ASSUME NEW s \in Sandboxes,
             outcome'[s] \in {"new", "refused"} \/ (at'[Server].box = s /\ at'[Server].step = "create")
      PROVE  outcome[s] \in {"new", "refused"} \/ (at[Server].box = s /\ at[Server].step = "create")
  <2>1. CASE outcome'[s] \in {"new", "refused"}
    BY <2>1, OutcomeBack
  <2>2. CASE at'[Server].box = s /\ at'[Server].step = "create"
    <3>1. CASE UNCHANGED at
      BY <2>2, <3>1
    <3>2. CASE at' = [p \in Procs |-> Idle]
      BY <2>2, <3>2, IdleTyped, Servers
    <3>3. CASE \E p \in Procs, t \in Threads : Moved(p, t)
      <4>1. PICK p \in Procs, t \in Threads : Moved(p, t)
        BY <3>3
      <4>2. at'[Server] = IF p = Server THEN t ELSE at[Server]
        BY <1>1, <4>1, Servers DEF Moved
      <4> QED
        BY <2>2, <4>1, <4>2 DEF Moved
    <3> QED
      BY <1>1, <3>1, <3>2, <3>3, StepThreads
  <2> QED
    BY <1>2, <2>1, <2>2
<1>3. ASSUME NEW s \in Sandboxes,
             outcome'[s] \in {"new", "refused"} \/ (at'[Server].box = s /\ at'[Server].step = "create")
      PROVE  Unwritten(s)'
  <2>1. Unwritten(s)
    BY <1>1, <1>2, <1>3 DEF Unmade
  <2>2. CASE UNCHANGED <<objects, history>>
    BY <2>1, <2>2 DEF Unwritten
  <2>3. ASSUME NEW y \in Sandboxes, NEW x \in MaybeObjects, Changed(y, x), y # s
        PROVE  Unwritten(s)'
    <3>1. history' = Append(history, [box |-> y, object |-> x])
      BY <2>3 DEF Changed
    <3>2. /\ DOMAIN history' = 1..(Revision + 1)
          /\ \A i \in 1..Revision : history'[i] = history[i]
          /\ history'[Revision + 1] = [box |-> y, object |-> x]
      BY <3>1, Appended
    <3>3. \A i \in 1..(Revision + 1) : i \in 1..Revision \/ i = Revision + 1
      BY HistoryIndices
    <3>4. \A i \in 1..Revision : history[i].box # s
      BY <2>1, HistoryIndices DEF Unwritten
    <3> QED
      BY <2>3, <3>2, <3>3, <3>4 DEF Unwritten
  <2>4. objects[s] = NoObject
    BY <1>1, <2>1 DEF Recalled, Written, Unwritten
  <2>5. CASE CreateWorkload /\ at[Server].box = s
    <3>1. Turn(Server, at[Server], outcome) /\ outcome \in [Sandboxes -> Outcomes]
      BY Servers DEF InTurns, Typed, TypeOK
    <3>2. outcome[s] = "creating"
      BY <2>5, <3>1 DEF CreateWorkload, Turn
    <3>3. outcome'[s] \notin {"new", "refused"}
      BY <2>5, <3>1, <3>2 DEF CreateWorkload, Ended
    <3>4. at'[Server].step # "create"
      BY <1>1, <2>5, IdleTyped, Servers DEF CreateWorkload, Goto, Finish, Threads
    <3> QED
      BY <1>3, <3>3, <3>4
  <2> QED
    BY <2>2, <2>3, <2>4, <2>5, StepChanges
<1> QED
  BY <1>3 DEF Unmade

LEMMA CheckedOnceStep ==
  ASSUME Typed, InTurns, Lasting, Next
  PROVE  CheckedOnce'
<1>1. Recalled /\ CheckedOnce /\ Grows /\ at \in [Procs -> Threads]
  BY ThreadsTyped, StepGrows DEF Lasting, Typed
<1>2. ASSUME NEW p \in Procs, at'[p].op = "renew", at'[p].checked
      PROVE  \E i \in DOMAIN history : /\ history[i].box = at'[p].box /\ history[i].object # NoObject
                                       /\ history[i].object.expire # NoTTL
  <2>1. CASE UNCHANGED at
    BY <1>1, <1>2, <2>1 DEF CheckedOnce
  <2>2. CASE at' = [q \in Procs |-> Idle]
    BY <1>2, <2>2, IdleTyped
  <2>3. CASE \E q \in Procs, t \in Threads : Moved(q, t)
    <3>1. PICK q \in Procs, t \in Threads : Moved(q, t)
      BY <2>3
    <3>2. at'[p] = IF p = q THEN t ELSE at[p]
      BY <1>1, <3>1 DEF Moved
    <3>3. CASE p = q
      <4>1. at'[p] = t /\ Checks(p, t)
        BY <3>1, <3>2, <3>3 DEF Moved
      <4>2. CASE at[p].op = "renew" /\ at[p].checked /\ t.box = at[p].box
        BY <1>1, <4>1, <4>2 DEF CheckedOnce
      <4>3. CASE \E object : Written(t.box, object) /\ object # NoObject /\ object.expire # NoTTL
        <5>1. PICK object : Written(t.box, object) /\ object # NoObject /\ object.expire # NoTTL
          BY <4>3
        <5>2. PICK i \in DOMAIN history : history[i] = [box |-> t.box, object |-> object]
          BY <5>1 DEF Written
        <5> QED
          BY <4>1, <5>1, <5>2
      <4> QED
        BY <1>2, <4>1, <4>2, <4>3 DEF Checks
    <3>4. CASE p # q
      BY <1>1, <1>2, <3>2, <3>4 DEF CheckedOnce
    <3> QED
      BY <3>3, <3>4
  <2> QED
    BY <1>1, <2>1, <2>2, <2>3, StepThreads
<1> QED
  BY <1>1, <1>2, HistoryKept DEF CheckedOnce

LEMMA InitLasting == Init => Lasting
BY IdleTyped DEF Init, Lasting, Recalled, OneKind, Unmade, CheckedOnce, Written, Unwritten, EmptyCache,
                 NothingListed

LEMMA LastingStep == Typed /\ InTurns /\ Lasting /\ [Next]_vars => Lasting'
<1> SUFFICES ASSUME Typed, InTurns, Lasting, [Next]_vars PROVE Lasting'
  OBVIOUS
<1>1. CASE Next
  BY <1>1, RecalledStep, OneKindStep, UnmadeStep, CheckedOnceStep DEF Lasting
<1>2. CASE UNCHANGED vars
  BY <1>2 DEF vars, cluster, informing, clients, Lasting, Recalled, OneKind, Unmade, CheckedOnce,
              Written, Unwritten
<1> QED
  BY <1>1, <1>2

\* A sandbox made for manual cleanup never gets an expiration and one that has
\* an expiration never loses it, whatever stale object a renewal decided on.
THEOREM ManualKept == Spec => ManualStays
<1> DEFINE Stays == \A s \in Sandboxes : objects[s] # NoObject /\ objects'[s] # NoObject =>
                      (objects[s].expire = NoTTL <=> objects'[s].expire = NoTTL)
<1>1. ASSUME Typed, InTurns, Lasting, Next
      PROVE  Stays
  <2>1. objects \in [Sandboxes -> MaybeObjects]
    BY <1>1 DEF Typed, TypeOK
  <2>2. CASE UNCHANGED <<objects, history>>
    BY <2>2
  <2>3. ASSUME NEW y \in Sandboxes, NEW x \in MaybeObjects, Changed(y, x),
               objects[y] # NoObject /\ x # NoObject => (x.expire = NoTTL <=> objects[y].expire = NoTTL)
        PROVE  Stays
    BY <2>1, <2>3 DEF Changed
  <2>4. ASSUME NEW y \in Sandboxes, Unwritten(y)
        PROVE  objects[y] = NoObject
    BY <1>1, <2>4 DEF Lasting, Recalled, Written, Unwritten
  <2> QED
    BY <1>1, <2>2, <2>3, <2>4, StepChanges
<1>2. Typed /\ InTurns /\ Lasting /\ [Next]_vars => [Stays]_vars
  BY <1>1
<1> QED
  BY <1>2, InitTyped, TypedStep, InitTurns, TurnsStep, InitLasting, LastingStep, PTL
  DEF Spec, ManualStays
-----------------------------------------------------------------------------
(* The cache as a snapshot of the cluster.                                 *)

LEMMA LeastNatural ==
  ASSUME NEW T, T \subseteq Nat, T # {}
  PROVE  \E m \in T : \A k \in T : m <= k
<1>1. IsWellFoundedOn(OpToRel(<, Nat), Nat)
  BY NatLessThanWellFounded
<1>2. PICK m \in T : \A k \in T : ~ (<<k, m>> \in OpToRel(<, Nat))
  BY <1>1, WFMin
<1>3. \A k \in T : ~ (k < m)
  BY <1>2 DEF OpToRel
<1> QED
  BY <1>3

LEMMA GreatestIndex ==
  ASSUME NEW r \in Nat, NEW T, T \subseteq 1..r, T # {}
  PROVE  \E m \in T : \A k \in T : k <= m
<1> DEFINE below == {r - k : k \in T}
<1>1. \A k \in T : k \in 1..r /\ r - k \in Nat
  OBVIOUS
<1>2. below \subseteq Nat /\ below # {}
  BY <1>1
<1>3. PICK u \in below : \A k \in below : u <= k
  <2> HIDE DEF below
  <2> QED
    BY <1>2, LeastNatural
<1>4. PICK m \in T : u = r - m
  OBVIOUS
<1>5. \A k \in T : r - m <= r - k
  BY <1>3, <1>4
<1> QED
  BY <1>1, <1>5

\* Version, of any history.
WrittenIn(h, s, r) == {i \in 1..r : h[i].box = s}
Latest(written) == CHOOSE i \in written : \A j \in written : j <= i
VersionOf(h, s, r) ==
  IF WrittenIn(h, s, r) = {} THEN NoObject ELSE h[Latest(WrittenIn(h, s, r))].object

LEMMA VersionIs == \A s, r : Version(s, r) = VersionOf(history, s, r)
BY DEF Version, VersionOf, WrittenIn, Latest

LEMMA LatestIs ==
  ASSUME NEW r \in Nat, NEW T, T \subseteq 1..r, T # {}
  PROVE  Latest(T) \in T /\ \A j \in T : j <= Latest(T)
BY GreatestIndex DEF Latest

LEMMA VersionAgree ==
  ASSUME NEW h, NEW g, NEW s, NEW r \in Nat, \A i \in 1..r : h[i] = g[i]
  PROVE  VersionOf(h, s, r) = VersionOf(g, s, r)
<1>1. WrittenIn(h, s, r) = WrittenIn(g, s, r) /\ WrittenIn(h, s, r) \subseteq 1..r
  BY DEF WrittenIn
<1>2. WrittenIn(h, s, r) # {} => Latest(WrittenIn(h, s, r)) \in 1..r
  BY <1>1, LatestIs
<1> QED
  BY <1>1, <1>2 DEF VersionOf

LEMMA VersionNext ==
  ASSUME NEW h, NEW s, NEW r \in Nat
  PROVE  VersionOf(h, s, r + 1) = IF h[r + 1].box = s THEN h[r + 1].object ELSE VersionOf(h, s, r)
<1>1. \A i : i \in 1..(r + 1) <=> i \in 1..r \/ i = r + 1
  OBVIOUS
<1>2. CASE h[r + 1].box = s
  <2>1. r + 1 \in WrittenIn(h, s, r + 1) /\ WrittenIn(h, s, r + 1) \subseteq 1..(r + 1)
    BY <1>2 DEF WrittenIn
  <2>2. /\ Latest(WrittenIn(h, s, r + 1)) \in 1..(r + 1)
        /\ r + 1 <= Latest(WrittenIn(h, s, r + 1))
    BY <2>1, LatestIs
  <2>3. Latest(WrittenIn(h, s, r + 1)) = r + 1
    BY <2>2
  <2> QED
    BY <1>2, <2>1, <2>3 DEF VersionOf
<1>3. CASE h[r + 1].box # s
  <2>1. WrittenIn(h, s, r + 1) = WrittenIn(h, s, r)
    BY <1>1, <1>3 DEF WrittenIn
  <2> QED
    BY <1>3, <2>1 DEF VersionOf
<1> QED
  BY <1>2, <1>3

\* The past of the cluster does not change.
LEMMA VersionKept ==
  ASSUME Typed, Grows, NEW s, NEW r \in 0..Revision
  PROVE  Version(s, r)' = Version(s, r)
<1>1. DOMAIN history = 1..Revision /\ Revision \in Nat /\ r \in Nat
  BY HistoryIndices
<1>2. \A i \in 1..r : history'[i] = history[i]
  BY <1>1, HistoryKept
<1>3. VersionOf(history', s, r) = VersionOf(history, s, r)
  BY <1>1, <1>2, VersionAgree
<1> QED
  BY <1>3 DEF Version, VersionOf, WrittenIn, Latest

LEMMA ObjectsVersion ==
  ASSUME Typed, InTurns, Lasting, Snapshots, Next, NEW s \in Sandboxes
  PROVE  objects'[s] = Version(s, Revision)'
<1>1. objects[s] = Version(s, Revision) /\ Revision \in Nat
  BY HistoryIndices DEF Snapshots
<1>2. CASE UNCHANGED <<objects, history>>
  BY <1>1, <1>2 DEF Version, Revision
<1>3. CASE \E y \in Sandboxes, x \in MaybeObjects : Changed(y, x)
  <2>1. PICK y \in Sandboxes, x \in MaybeObjects : Changed(y, x)
    BY <1>3
  <2>2. history' = Append(history, [box |-> y, object |-> x])
    BY <2>1 DEF Changed
  <2>3. /\ Revision' = Revision + 1
        /\ \A i \in 1..Revision : history'[i] = history[i]
        /\ history'[Revision + 1].box = y /\ history'[Revision + 1].object = x
    <3>1. /\ Revision' = Revision + 1
          /\ \A i \in 1..Revision : history'[i] = history[i]
          /\ history'[Revision + 1] = [box |-> y, object |-> x]
      BY <2>2, Appended
    <3> QED
      BY <3>1
  <2>4. objects'[s] = IF s = y THEN x ELSE objects[s]
    BY <2>1 DEF Changed, Typed, TypeOK
  <2>5. VersionOf(history', s, Revision) = VersionOf(history, s, Revision)
    BY <1>1, <2>3, VersionAgree
  <2>6. VersionOf(history', s, Revision + 1)
          = IF history'[Revision + 1].box = s THEN history'[Revision + 1].object
            ELSE VersionOf(history', s, Revision)
    BY <1>1, VersionNext
  <2>7. objects'[s] = VersionOf(history', s, Revision')
    BY <1>1, <2>3, <2>4, <2>5, <2>6, VersionIs
  <2> QED
    BY <2>7 DEF Version, VersionOf, WrittenIn, Latest
<1> QED
  BY <1>2, <1>3, StepChanges

\* The actions that touch neither what the informer keeps nor the switch of a
\* lookup that starts it.
Quiet ==
  /\ UNCHANGED <<cache, cursor, synced, listed, stream, direct>>
  /\ informer' = informer \/ (informer = "off" /\ informer' = "loop")

LEMMA StepInforms ==
  ASSUME Typed, Next
  PROVE  Quiet \/ InformerStep \/ Restart \/ \E p \in Procs : Store(p)
<1>1. UNCHANGED informing => Quiet
  BY DEF informing, Quiet
<1>2. ASSUME NEW p \in Procs, Look(p)
      PROVE  Quiet
  BY <1>2 DEF Look, Quiet
<1>3. Request => UNCHANGED informing
  BY RequestBegins
<1> QED
  BY <1>1, <1>2, <1>3 DEF Next, ServerStep, Environment, CreateWorkload, CreateSecret, Rollback,
                          RenewPatch, DeleteRemove, Fetch, Tick, Progress, Hold, Finalize, Expire

LEMMA SnapshotsStep == Typed /\ InTurns /\ Lasting /\ Snapshots /\ [Next]_vars => Snapshots'
<1>0. Snapshots /\ UNCHANGED vars => Snapshots'
  <2> SUFFICES ASSUME Snapshots, UNCHANGED vars PROVE Snapshots'
    OBVIOUS
  <2>1. /\ UNCHANGED <<objects, history, cache, cursor, synced, informer, listed, stream, direct>>
        /\ Revision' = Revision
    BY DEF vars, cluster, informing, Revision
  <2>2. \A s, r : Version(s, r)' = Version(s, r)
    BY <2>1 DEF Version
  <2>3. CacheIsSnapshot'
    BY <2>1, <2>2 DEF Snapshots, CacheIsSnapshot, Version
  <2>4. \A s \in Sandboxes : objects'[s] = Version(s, Revision)'
    BY <2>1 DEF Snapshots, Version
  <2>5. \A s : Version(s, listed.version)' = Version(s, listed.version)
    BY <2>1 DEF Version
  <2> QED
    BY <2>1, <2>3, <2>4, <2>5 DEF Snapshots
<1> SUFFICES ASSUME Typed, InTurns, Lasting, Snapshots, Next PROVE Snapshots'
  BY <1>0
<1>1. Grows
  BY StepGrows
<1>2. \A s \in Sandboxes : objects'[s] = Version(s, Revision)'
  BY ObjectsVersion
<1>3. ASSUME NEW s, NEW r \in 0..Revision
      PROVE  Version(s, r)' = Version(s, r)
  BY <1>1, <1>3, VersionKept
<1>4. /\ Informed /\ Revision \in Nat
      /\ stream \in 0..Revision /\ listed.version \in 0..Revision
      /\ synced => cursor \in 0..Revision
  BY TypedParts, HistoryIndices, KubernetesAssumption DEF Informed, NoVersion
<1>5. PICK v, c, r, n : v = listed'.version /\ c = cursor' /\ r = stream' /\ n = informer'
  OBVIOUS
<1>6. ASSUME n = "listed" => v \in 0..Revision /\ \A s \in Sandboxes : listed'.objects[s] = Version(s, v),
             n = "listed" /\ ~direct' => c <= v,
             n = "watching" /\ ~direct' => r = c,
             synced' /\ ~direct' =>
               /\ (IF n = "watching" THEN r ELSE c) \in 0..Revision
               /\ \A s \in Sandboxes : cache'[s] = Version(s, IF n = "watching" THEN r ELSE c)
      PROVE  Snapshots'
  <2>1. n = "listed" => \A s \in Sandboxes : listed'.objects[s] = Version(s, v)'
    BY <1>3, <1>6
  <2>2. synced' /\ ~direct' =>
          \A s \in Sandboxes : cache'[s] = Version(s, IF n = "watching" THEN r ELSE c)'
    BY <1>3, <1>6
  <2>3. n = "listed" => \A s \in Sandboxes : listed'.objects[s] = Version(s, listed.version)'
    BY <1>5, <2>1 DEF Version
  <2>4. CacheIsSnapshot'
    BY <1>5, <2>2 DEF CacheIsSnapshot, Version
  <2> QED
    BY <1>2, <1>5, <1>6, <2>3, <2>4 DEF Snapshots
<1>7. CASE Quiet
  <2>1. n = "watching" <=> informer = "watching"
    BY <1>5, <1>7 DEF Quiet
  <2>2. n = "listed" => informer = "listed"
    BY <1>5, <1>7 DEF Quiet
  <2> QED
    BY <1>4, <1>5, <1>6, <1>7, <2>1, <2>2 DEF Quiet, Snapshots, CacheIsSnapshot
<1>8. CASE \E p \in Procs : Store(p)
  BY <1>4, <1>5, <1>6, <1>8 DEF Store, Snapshots
<1>9. CASE Restart
  BY <1>4, <1>5, <1>6, <1>9 DEF Restart
<1>10. CASE InformerList
  <2>1. CASE listed' = [objects |-> objects, version |-> Revision]
    BY <1>4, <1>5, <1>6, <1>10, <2>1 DEF InformerList, Snapshots, Informed
  <2>2. CASE UNCHANGED <<listed, informer, direct>>
    BY <1>4, <1>5, <1>6, <1>10, <2>2 DEF InformerList
  <2> QED
    BY <1>10, <2>1, <2>2 DEF InformerList
<1>11. CASE InformerSwap
  <2>1. n = "loop" /\ direct' = direct /\ cache' = listed.objects
    BY <1>5, <1>11 DEF InformerSwap
  <2>2. ~direct => c = listed.version
    BY <1>4, <1>5, <1>11, KubernetesAssumption
    DEF InformerSwap, Advanced, Snapshots, Informed, NoVersion
  <2>3. informer = "listed"
    BY <1>11 DEF InformerSwap
  <2> QED
    BY <1>4, <1>6, <2>1, <2>2, <2>3 DEF Snapshots
<1>12. CASE InformerWatch
  <2>1. synced /\ informer = "loop" /\ direct' = direct /\ cache' = cache
    BY <1>12 DEF InformerWatch
  <2>2. CASE n = "watching"
    <3>1. r = cursor /\ c = cursor
      BY <1>5, <1>12, <2>1, <2>2 DEF InformerWatch
    <3> QED
      BY <1>4, <1>6, <2>1, <2>2, <3>1 DEF Snapshots, CacheIsSnapshot
  <2>3. CASE n # "watching"
    <3>1. synced' = FALSE /\ n = "loop"
      BY <1>5, <1>12, <2>3 DEF InformerWatch
    <3> QED
      BY <1>6, <3>1
  <2> QED
    BY <2>2, <2>3
<1>13. CASE InformerEvent
  <2> DEFINE event == history[stream + 1]
  <2>1. /\ n = "watching" /\ informer = "watching" /\ r = stream + 1 /\ synced' = synced
        /\ direct' = direct /\ stream < Revision
        /\ cache' = [cache EXCEPT ![event.box] = event.object]
    BY <1>5, <1>13 DEF InformerEvent
  <2>2. synced
    BY <1>4, <2>1 DEF Informed
  <2>3. ~direct => c = r
    BY <1>4, <1>5, <1>13, <2>1, <2>2, KubernetesAssumption DEF InformerEvent, Advanced, Snapshots
  <2>4. stream \in Nat /\ r \in 0..Revision
    BY <1>4, <2>1
  <2>5. ASSUME NEW s \in Sandboxes, ~direct
        PROVE  cache'[s] = Version(s, r)
    <3>1. cache[s] = Version(s, stream)
      BY <2>1, <2>2, <2>5 DEF Snapshots, CacheIsSnapshot
    <3>2. VersionOf(history, s, stream + 1)
            = IF event.box = s THEN event.object ELSE VersionOf(history, s, stream)
      BY <2>4, VersionNext
    <3>3. cache'[s] = IF event.box = s THEN event.object ELSE cache[s]
      BY <1>4, <2>1 DEF Informed
    <3> QED
      BY <2>1, <3>1, <3>2, <3>3, VersionIs
  <2> QED
    BY <1>6, <2>1, <2>3, <2>4, <2>5
<1>14. CASE InformerEnd
  <2>1. /\ n = "loop" /\ informer = "watching" /\ c = cursor /\ direct' = direct /\ cache' = cache
        /\ synced' => synced
    BY <1>4, <1>5, <1>14 DEF InformerEnd, Informed
  <2>2. ~direct => stream = cursor
    BY <2>1 DEF Snapshots
  <2> QED
    BY <1>4, <1>6, <2>1, <2>2 DEF Snapshots, CacheIsSnapshot
<1> QED
  BY <1>7, <1>8, <1>9, <1>10, <1>11, <1>12, <1>13, <1>14, StepInforms DEF InformerStep

\* At the start nothing is read, cached or listed.
LEMMA InitSnapshots == Init => Snapshots
<1> SUFFICES ASSUME Init PROVE Snapshots
  OBVIOUS
<1>1. Revision = 0 /\ ~synced /\ informer = "off"
  BY DEF Init, Revision
<1>2. \A s \in Sandboxes : objects[s] = NoObject
  BY DEF Init, EmptyCache
<1>3. \A s \in Sandboxes : Version(s, 0) = NoObject
  BY DEF Version
<1> QED
  BY <1>1, <1>2, <1>3 DEF Snapshots, CacheIsSnapshot

\* While no get was stored since the last list the cache is the cluster as of
\* one revision, through lists, ended and broken watches, 410s and restarts.
THEOREM CacheSnapshots == Spec => []CacheIsSnapshot
<1>1. Snapshots => CacheIsSnapshot
  BY DEF Snapshots
<1> QED
  BY <1>1, InitTyped, TypedStep, InitTurns, TurnsStep, InitLasting, LastingStep, InitSnapshots,
     SnapshotsStep, PTL DEF Spec
-----------------------------------------------------------------------------
(* The life of a sandbox, as SandboxLife promises it.                      *)

Kind(o) == IF o.expire = NoTTL THEN "manual" ELSE "timed"
LifeOf(o) == IF o = NoObject \/ o.hold = "dying" THEN "over" ELSE Kind(o)
SameLife == UNCHANGED <<Lives, Answers, Deleting, gone>>

\* The mapped functions at one sandbox, before and after a step.
LEMMA LivesAre ==
  /\ \A s \in Sandboxes : Lives[s] = Living(s) /\ Answers[s] = Told(s)
  /\ \A s \in Sandboxes : Lives'[s] = Living(s)' /\ Answers'[s] = Told(s)'
BY DEF Lives, Answers

\* One life, one answer or none changes.
LEMMA OneLife ==
  ASSUME NEW s \in Sandboxes, NEW how, Living(s)' = how,
         \A y \in Sandboxes : y # s => Living(y)' = Living(y)
  PROVE  Lives' = [Lives EXCEPT ![s] = how]
BY DEF Lives

\* A creation that ends changes what is known of that sandbox alone.
LEMMA OneAnswer ==
  ASSUME Typed, NEW s \in Sandboxes, NEW how, Ended(s, how)
  PROVE  /\ Answers' = [Answers EXCEPT ![s] = IF how \in {"failed", "kept", "unread", "crashed"}
                                              THEN "unsure" ELSE how]
         /\ outcome'[s] = how /\ \A y \in Sandboxes : y # s => outcome'[y] = outcome[y]
BY DEF Typed, TypeOK, Ended, Answers, Told

\* The lives and answers depend on the cluster, its history and the outcomes only.
LEMMA SameLives ==
  ASSUME UNCHANGED <<objects, history, outcome>>
  PROVE  UNCHANGED <<Lives, Answers>>
BY DEF Lives, Answers, Living, Alive, Told, Unwritten

\* A creation that ends gives up what was not made.
LEMMA LifeSettles ==
  ASSUME Typed, UNCHANGED <<objects, history>>, NEW s \in Sandboxes, outcome[s] \in {"new", "creating"},
         NEW how, how \notin {"new", "creating"}, Ended(s, how)
  PROVE  Lives' = [Lives EXCEPT ![s] = IF Lives[s] = "none" THEN "over" ELSE Lives[s]]
<1>1. outcome'[s] = how /\ \A y \in Sandboxes : y # s => outcome'[y] = outcome[y]
  BY OneAnswer
<1>2. Living(s)' = IF Living(s) = "none" THEN "over" ELSE Living(s)
  BY <1>1 DEF Living, Alive, Unwritten
<1>3. \A y \in Sandboxes : y # s => Living(y)' = Living(y)
  BY <1>1 DEF Living, Alive, Unwritten
<1>4. Lives[s] = Living(s)
  BY LivesAre
<1> QED
  BY <1>2, <1>3, <1>4, OneLife

\* A change of the cluster is a change of that life alone.
LEMMA LifeChanges ==
  ASSUME Typed, NEW s \in Sandboxes, NEW x \in MaybeObjects, Changed(s, x),
         \A y \in Sandboxes : y # s => outcome'[y] = outcome[y]
  PROVE  Lives' = [Lives EXCEPT ![s] = LifeOf(x)]
<1>1. /\ objects'[s] = x /\ \A y \in Sandboxes : y # s => objects'[y] = objects[y]
      /\ history' = Append(history, [box |-> s, object |-> x])
  BY DEF Changed, Typed, TypeOK
<1>2. /\ DOMAIN history' = 1..(Revision + 1)
      /\ \A i \in 1..Revision : history'[i] = history[i]
      /\ history'[Revision + 1] = [box |-> s, object |-> x]
  BY <1>1, Appended
<1>3. DOMAIN history = 1..Revision /\ Revision \in Nat
  BY HistoryIndices
<1>4. ~Unwritten(s)'
  <2>1. Revision + 1 \in DOMAIN history' /\ history'[Revision + 1].box = s
    BY <1>2, <1>3
  <2> QED
    BY <2>1 DEF Unwritten
<1>5. ASSUME NEW y \in Sandboxes, y # s
      PROVE  Unwritten(y)' <=> Unwritten(y)
  <2>1. history'[Revision + 1].box # y
    BY <1>2, <1>5
  <2>2. \A i \in 1..(Revision + 1) : i \in 1..Revision \/ i = Revision + 1
    BY <1>3
  <2>3. \A i \in 1..Revision : i \in 1..(Revision + 1) /\ history'[i].box = history[i].box
    BY <1>2, <1>3
  <2>4. Unwritten(y)' <=> \A i \in 1..(Revision + 1) : history'[i].box # y
    BY <1>2 DEF Unwritten
  <2>5. Unwritten(y) <=> \A i \in 1..Revision : history[i].box # y
    BY <1>3 DEF Unwritten
  <2> QED
    BY <2>1, <2>2, <2>3, <2>4, <2>5
<1>6. \A y \in Sandboxes : y # s => Living(y)' = Living(y)
  BY <1>1, <1>5 DEF Living, Alive
<1>7. Living(s)' = LifeOf(x)
  BY <1>1, <1>4 DEF Living, Alive, LifeOf, Kind
<1> QED
  BY <1>6, <1>7, OneLife

\* What was made once is there, or is over.
LEMMA LivingIs ==
  ASSUME Typed, Lasting, NEW s \in Sandboxes
  PROVE  /\ objects[s] # NoObject => Lives[s] = LifeOf(objects[s])
         /\ ~Alive(s) /\ outcome[s] \notin {"new", "creating"} => Lives[s] = "over"
         /\ Unwritten(s) => objects[s] = NoObject
         /\ Unwritten(s) /\ outcome[s] \in {"new", "creating"} => Lives[s] = "none"
         /\ ~Unwritten(s) => Lives[s] # "none"
<1>1. Unwritten(s) => objects[s] = NoObject
  BY DEF Lasting, Recalled, Written, Unwritten
<1>2. Lives[s] = Living(s)
  BY LivesAre
<1> QED
  BY <1>1, <1>2 DEF Living, Alive, LifeOf, Kind

\* The lives of a step that renews or reports.
LEMMA KeptLives ==
  ASSUME Typed, Lasting, NEW s \in Sandboxes, NEW x \in Objects, Changed(s, x), objects[s] # NoObject,
         x.expire = NoTTL <=> objects[s].expire = NoTTL,
         x.hold = "dying" <=> objects[s].hold = "dying", UNCHANGED outcome
  PROVE  UNCHANGED <<Lives, Answers>>
<1>1. x \in MaybeObjects /\ x # NoObject
  BY ObjectsTyped DEF MaybeObjects
<1>2. Lives' = [Lives EXCEPT ![s] = LifeOf(x)]
  BY <1>1, LifeChanges
<1>3. Lives[s] = LifeOf(objects[s]) /\ LifeOf(x) = LifeOf(objects[s])
  BY <1>1, LivingIs DEF Kind, LifeOf
<1>4. Lives' = Lives
  BY <1>2, <1>3 DEF Lives
<1> QED
  BY <1>4 DEF Answers, Told

\* A deletion ends a life, or finds it over.
LEMMA RemovedLife ==
  ASSUME Typed, Lasting, NEW s \in Sandboxes, Remove(s),
         \A y \in Sandboxes : y # s => outcome'[y] = outcome[y],
         outcome'[s] \notin {"new", "creating"}
  PROVE  Lives' = [Lives EXCEPT ![s] = "over"]
<1>1. CASE UNCHANGED cluster /\ ~Alive(s)
  <2>1. \A y \in Sandboxes : y # s => Living(y)' = Living(y)
    BY <1>1 DEF cluster, Living, Alive, Unwritten
  <2>2. Living(s)' = "over"
    BY <1>1 DEF cluster, Living, Alive
  <2> QED
    BY <2>1, <2>2, OneLife
<1>2. CASE Drop(s)
  <2>1. Changed(s, NoObject) /\ NoObject \in MaybeObjects
    BY <1>2, DropWrites, ObjectsTyped DEF Changed
  <2> QED
    BY <2>1, LifeChanges DEF LifeOf
<1>3. ASSUME NEW o \in Drafts, Amended(s, o), o.hold = "dying"
      PROVE  Lives' = [Lives EXCEPT ![s] = "over"]
  <2>1. PICK x \in Objects : Wrote(s, o, x)
    BY <1>3, PutWrites DEF Amended
  <2>2. Changed(s, x) /\ x \in MaybeObjects /\ LifeOf(x) = "over"
    BY <1>3, <2>1 DEF Wrote, Changed, MaybeObjects, LifeOf
  <2> QED
    BY <2>2, LifeChanges
<1> QED
  BY <1>1, <1>2, <1>3, RemoveIs

\* A request that is at work on a deletion, and one that is not.
LEMMA DeletingIs ==
  ASSUME Typed
  PROVE  /\ at[Server].op = "delete" => Deleting = {at[Server].box}
         /\ at[Server].op # "delete" => Deleting = {}
         /\ at'[Server] = Idle => Deleting' = {}
BY IdleTyped, Servers, ThreadsTyped DEF Typed, Threads, Deleting

\* A creation that ends with an error leaves what there is, and gives up the rest.
LEMMA CreationFails ==
  ASSUME Typed, NEW s \in Sandboxes, outcome[s] = "creating", UNCHANGED <<objects, history, gone>>,
         UNCHANGED Deleting, NEW how \in {"failed", "kept", "unread"}, Ended(s, how)
  PROVE  Life!LifeNext
<1>1. Answers' = [Answers EXCEPT ![s] = "unsure"]
  BY OneAnswer
<1>2. Lives' = [Lives EXCEPT ![s] = IF Lives[s] = "none" THEN "over" ELSE Lives[s]]
  BY LifeSettles
<1>3. Answers[s] = "creating"
  BY LivesAre DEF Told
<1>4. Life!Settle(s, "creating", "unsure")
  BY <1>1, <1>3 DEF Life!Settle
<1>5. CASE Lives[s] = "none"
  BY <1>2, <1>4, <1>5 DEF Life!LifeNext, Life!Fail, Life!Ends
<1>6. CASE Lives[s] # "none"
  <2>1. Lives' = Lives
    BY <1>2, <1>6 DEF Lives
  <2> QED
    BY <1>4, <1>6, <2>1 DEF Life!LifeNext, Life!Fail
<1> QED
  BY <1>5, <1>6

\* CreateWorkload makes the sandbox, whether or not its answer arrives, or fails.
LEMMA WorkloadLife ==
  ASSUME Typed, InTurns, Lasting, CreateWorkload
  PROVE  Life!LifeNext
<1>1. PICK b \in Sandboxes : b = at[Server].box
  BY Servers, ThreadsTyped DEF Typed, Threads
<1>2. Turn(Server, at[Server], outcome) /\ at \in [Procs -> Threads] /\ at[Server].shape \in Shapes
  BY Servers, ThreadsTyped DEF InTurns, Typed, Threads
<1>3. at[Server].op = "create" /\ outcome[b] = "creating" /\ Unwritten(b)
  BY <1>1, <1>2 DEF CreateWorkload, Turn, Lasting, Unmade
<1>4. Lives[b] = "none" /\ Answers[b] = "creating"
  BY <1>3, LivingIs, LivesAre DEF Told
<1>5. UNCHANGED Deleting /\ UNCHANGED gone
  <2>1. Finish(Server) \/ \E step \in Steps : Goto(Server, step)
    BY DEF CreateWorkload, Steps
  <2>2. at'[Server].op # "delete"
    BY <1>2, <1>3, <2>1, IdleTyped, Servers DEF Finish, Goto, Threads
  <2> QED
    BY <1>3, <2>2 DEF Deleting, CreateWorkload
<1>6. PICK o \in Drafts : o = NewObject(at[Server].shape)
  BY <1>1, <1>2, DraftsTyped
<1>7. CASE Put(b, o)
  <2>1. PICK x \in Objects : Wrote(b, o, x)
    BY <1>7, PutWrites
  <2>2. Changed(b, x) /\ x \in MaybeObjects /\ LifeOf(x) = Kind(x)
    <3>1. o.hold # "dying"
      BY <1>6 DEF NewObject
    <3> QED
      BY <2>1, <3>1 DEF Wrote, Changed, MaybeObjects, LifeOf
  <2>3. UNCHANGED outcome \/ Ended(b, "failed")
    BY <1>1 DEF CreateWorkload
  <2>4. \A y \in Sandboxes : y # b => outcome'[y] = outcome[y]
    BY <2>3, OneAnswer
  <2>5. Lives' = [Lives EXCEPT ![b] = Kind(x)] /\ Kind(x) \in {"manual", "timed"}
    BY <2>2, <2>4, LifeChanges DEF Kind
  <2>6. UNCHANGED Answers \/ Life!Settle(b, "creating", "unsure")
    <3>1. CASE UNCHANGED outcome
      BY <3>1 DEF Answers, Told
    <3>2. CASE Ended(b, "failed")
      BY <1>4, <3>2, OneAnswer DEF Life!Settle
    <3> QED
      BY <2>3, <3>1, <3>2
  <2> QED
    BY <1>4, <1>5, <2>5, <2>6 DEF Life!LifeNext, Life!Make
<1>8. CASE UNCHANGED cluster
  <2>1. CASE Ended(b, "failed")
    BY <1>3, <1>5, <1>8, <2>1, CreationFails DEF cluster
  <2>2. CASE Put(b, o)
    BY <1>7, <2>2
  <2> QED
    BY <1>1, <1>6, <2>1, <2>2 DEF CreateWorkload, Put
<1> QED
  BY <1>1, <1>6, <1>7, <1>8 DEF CreateWorkload, Put, Write

\* Rollback takes back what was made, or fails and says so.
LEMMA RollbackLife ==
  ASSUME Typed, InTurns, Lasting, Rollback
  PROVE  Life!LifeNext
<1>1. PICK b \in Sandboxes : b = at[Server].box
  BY Servers, ThreadsTyped DEF Typed, Threads
<1>2. Turn(Server, at[Server], outcome) /\ at \in [Procs -> Threads]
  BY Servers, ThreadsTyped DEF InTurns, Typed
<1>3. at[Server].op = "create" /\ outcome[b] = "creating" /\ at'[Server] = Idle
  BY <1>1, <1>2, Servers DEF Rollback, Turn, Finish
<1>4. UNCHANGED <<Deleting, gone>>
  BY <1>3, DeletingIs DEF Rollback
<1>5. CASE UNCHANGED cluster /\ Ended(b, "kept")
  BY <1>3, <1>4, <1>5, CreationFails DEF cluster
<1>6. ASSUME Ended(b, "undone"), Lives' = [Lives EXCEPT ![b] = "over"]
      PROVE  Life!LifeNext
  <2>1. Answers' = [Answers EXCEPT ![b] = "undone"] /\ Answers[b] = "creating"
    BY <1>3, <1>6, OneAnswer, LivesAre DEF Told
  <2> QED
    BY <1>4, <1>6, <2>1 DEF Life!LifeNext, Life!Fail, Life!Settle, Life!Ends
<1>7. CASE Remove(b) /\ Ended(b, "undone")
  BY <1>6, <1>7, OneAnswer, RemovedLife
<1> QED
  BY <1>1, <1>5, <1>7 DEF Rollback

\* RenewPatch moves the end of a sandbox, and of no other.
LEMMA RenewLife ==
  ASSUME Typed, InTurns, Lasting, RenewPatch
  PROVE  SameLife
<1>1. PICK b \in Sandboxes : b = at[Server].box
  BY Servers, ThreadsTyped DEF Typed, Threads
<1>2. Turn(Server, at[Server], outcome) /\ at \in [Procs -> Threads] /\ at[Server].shape \in Shapes
  BY Servers, ThreadsTyped DEF InTurns, Typed, Threads
<1>3. at[Server].op = "renew" /\ at'[Server] = Idle /\ UNCHANGED <<outcome, gone>>
  BY <1>2, Servers DEF RenewPatch, Turn, Finish
<1>4. UNCHANGED Deleting
  BY <1>3, DeletingIs
<1>5. CASE UNCHANGED cluster
  BY <1>3, <1>4, <1>5, SameLives DEF cluster, SameLife
<1>6. CASE ~UNCHANGED cluster
  <2>1. PICK o \in Drafts : o = [objects[b] EXCEPT !.expire = at[Server].shape.expire]
    BY <1>2, DraftsTyped
  <2>2. objects[b] # NoObject /\ Put(b, o)
    BY <1>1, <1>6, <2>1 DEF RenewPatch, Put, Write
  <2>3. PICK x \in Objects : Wrote(b, o, x)
    BY <2>2, PutWrites
  <2>4. /\ Changed(b, x) /\ x \in MaybeObjects /\ x # NoObject
        /\ x.hold = "dying" <=> objects[b].hold = "dying"
    <3>1. o.hold = objects[b].hold
      BY <2>1, ObjectsTyped DEF Drafts, Typed, TypeOK
    <3> QED
      BY <2>3, <3>1 DEF Wrote, Changed, MaybeObjects
  <2>5. x.expire = NoTTL <=> objects[b].expire = NoTTL
    <3>1. Next
      BY DEF Next, ServerStep
    <3>2. CASE UNCHANGED <<objects, history>>
      <4>1. objects'[b] = x
        BY <2>3 DEF Wrote
      <4> QED
        BY <3>2, <4>1
    <3>3. ASSUME NEW s \in Sandboxes, NEW z \in MaybeObjects, Changed(s, z), objects[s] # NoObject,
                 z # NoObject => (z.expire = NoTTL <=> objects[s].expire = NoTTL)
          PROVE  x.expire = NoTTL <=> objects[b].expire = NoTTL
      <4>1. objects' = [objects EXCEPT ![s] = z] /\ objects' = [objects EXCEPT ![b] = x]
            /\ objects \in [Sandboxes -> MaybeObjects]
        BY <2>3, <3>3 DEF Wrote, Changed, Typed, TypeOK
      <4>2. CASE s = b
        <5>1. z = x
          BY <4>1, <4>2
        <5> QED
          BY <2>4, <3>3, <4>2, <5>1
      <4>3. CASE s # b
        <5>1. x = objects[b]
          BY <4>1, <4>3
        <5> QED
          BY <5>1
      <4> QED
        BY <4>2, <4>3
    <3>4. ~CreateWorkload
      BY DEF CreateWorkload, RenewPatch
    <3> QED
      BY <3>1, <3>2, <3>3, <3>4, StepChanges
  <2> QED
    BY <1>3, <1>4, <2>2, <2>4, <2>5, KeptLives DEF SameLife
<1> QED
  BY <1>5, <1>6

\* A deletion takes the sandbox away, or is given up.
LEMMA RemoveLife ==
  ASSUME Typed, InTurns, Lasting, DeleteRemove
  PROVE  Life!LifeNext
<1>1. PICK b \in Sandboxes : b = at[Server].box
  BY Servers, ThreadsTyped DEF Typed, Threads
<1>2. Turn(Server, at[Server], outcome) /\ at \in [Procs -> Threads]
  BY Servers, ThreadsTyped DEF InTurns, Typed
<1>3. at[Server].op = "delete" /\ outcome[b] = "ok" /\ at'[Server] = Idle /\ UNCHANGED outcome
  BY <1>1, <1>2, Servers DEF DeleteRemove, Turn, Finish
<1>4. Deleting = {b} /\ Deleting' = {} /\ UNCHANGED Answers
  BY <1>1, <1>3, DeletingIs DEF Answers, Told
<1>5. CASE UNCHANGED <<cluster, gone>>
  <2>1. UNCHANGED Lives
    BY <1>3, <1>5, SameLives DEF cluster
  <2> QED
    BY <1>4, <1>5, <2>1 DEF Life!LifeNext, Life!GiveUp
<1>6. ASSUME Lives' = [Lives EXCEPT ![b] = "over"], gone' = gone \/ gone' = gone \cup {b}
      PROVE  Life!LifeNext
  BY <1>4, <1>6 DEF Life!LifeNext, Life!Remove, Life!Ends
<1>7. CASE Remove(b) /\ (gone' = gone \/ gone' = gone \cup {b})
  BY <1>3, <1>6, <1>7, RemovedLife
<1> QED
  BY <1>1, <1>5, <1>7 DEF DeleteRemove

\* What a lookup has found decides what is told: success of a sandbox that was
\* made, and a deletion of one that is gone.
LEMMA FoundLife ==
  ASSUME Typed, InTurns, Lasting, NEW p \in Procs, at[p].step # "idle", NEW object, Found(p, object),
         Written(at[p].box, object), object = NoObject => objects[at[p].box] = NoObject,
         UNCHANGED <<objects, history>>
  PROVE  Life!LifeNext \/ SameLife
<1>1. at[p] \in Threads /\ at[p].op # "none" /\ at[p].box \in Sandboxes
  BY StepOp
<1>2. Turn(p, at[p], outcome) /\ at \in [Procs -> Threads]
  BY ThreadsTyped DEF InTurns, Typed
<1>3. PICK t \in Threads : AfterFound(p, t) /\ at' = [at EXCEPT ![p] = t]
  BY <1>1, FoundEffect
<1>4. PICK b \in Sandboxes : b = at[p].box
  BY <1>1
<1>5. CASE at[p].op = "create"
  <2>1. p = Server /\ outcome[b] = "creating" /\ Finish(p) /\ UNCHANGED gone
    BY <1>2, <1>4, <1>5 DEF Turn, Found
  <2>2. Ended(b, IF object = NoObject THEN "unread" ELSE "ok")
    BY <1>4, <1>5 DEF Found
  <2>3. UNCHANGED Deleting
    BY <1>2, <1>5, <2>1, DeletingIs, Servers DEF Finish
  <2>4. CASE object = NoObject
    BY <2>1, <2>2, <2>3, <2>4, CreationFails
  <2>5. CASE object # NoObject
    <3>1. ~Unwritten(b)
      BY <1>4, <2>5 DEF Written, Unwritten
    <3>2. Lives[b] # "none" /\ Answers[b] = "creating"
      BY <2>1, <3>1, LivingIs, LivesAre DEF Told
    <3>3. Lives' = [Lives EXCEPT ![b] = IF Lives[b] = "none" THEN "over" ELSE Lives[b]]
      BY <2>1, <2>2, <2>5, LifeSettles
    <3>4. Lives' = Lives
      BY <3>2, <3>3 DEF Lives
    <3>5. Answers' = [Answers EXCEPT ![b] = "ok"]
      BY <2>2, <2>5, OneAnswer
    <3> QED
      BY <2>1, <2>3, <3>2, <3>4, <3>5 DEF Life!LifeNext, Life!Tell, Life!Settle
  <2> QED
    BY <2>4, <2>5
<1>6. CASE at[p].op = "delete"
  <2>1. p = Server /\ outcome[b] = "ok" /\ UNCHANGED outcome /\ Deleting = {b}
    BY <1>2, <1>4, <1>6, DeletingIs DEF Turn, Found
  <2>2. UNCHANGED <<Lives, Answers>>
    BY <2>1, SameLives
  <2>3. CASE object = NoObject
    <3>1. at'[Server] = Idle /\ gone' = gone \cup {b}
      BY <1>2, <1>4, <1>6, <2>1, <2>3, Servers DEF Found, Finish
    <3>2. Lives[b] = "over" /\ Deleting' = {}
      BY <1>4, <2>1, <2>3, <3>1, LivingIs, DeletingIs DEF Alive
    <3>3. Lives' = [Lives EXCEPT ![b] = "over"]
      BY <2>2, <3>2 DEF Lives
    <3> QED
      BY <2>1, <2>2, <3>1, <3>2, <3>3 DEF Life!LifeNext, Life!Remove, Life!Ends
  <2>4. CASE object # NoObject
    <3>1. at' = [at EXCEPT ![p].step = "remove", ![p].seen = NoObject] /\ UNCHANGED gone
      BY <1>6, <2>4 DEF Found
    <3>2. at'[Server].op = "delete" /\ at'[Server].box = b
      BY <1>1, <1>2, <1>4, <1>6, <2>1, <3>1 DEF Threads
    <3>3. Deleting' = {b}
      BY <3>2 DEF Deleting
    <3> QED
      BY <2>1, <2>2, <3>1, <3>3 DEF SameLife
  <2> QED
    BY <2>3, <2>4
<1>7. CASE at[p].op \in {"get", "renew"}
  <2>1. UNCHANGED <<outcome, gone>>
    BY <1>7 DEF Found
  <2>2. UNCHANGED <<Lives, Answers>>
    BY <2>1, SameLives
  <2>3. t.op # "delete"
    BY <1>1, <1>3, <1>7, IdleTyped DEF AfterFound, Threads
  <2>4. UNCHANGED Deleting
    <3>1. CASE p = Server
      <4>1. at'[Server].op # "delete"
        BY <1>2, <1>3, <2>3, <3>1
      <4> QED
        BY <1>7, <3>1, <4>1 DEF Deleting
    <3>2. CASE p # Server
      <4>1. at'[Server] = at[Server]
        BY <1>2, <1>3, <3>2, Servers
      <4> QED
        BY <4>1 DEF Deleting
    <3> QED
      BY <3>1, <3>2
  <2> QED
    BY <2>1, <2>2, <2>4 DEF SameLife
<1> QED
  BY <1>1, <1>5, <1>6, <1>7 DEF Threads, Ops

\* The three steps of a lookup, and a get that the cluster refuses.
LEMMA LookLife ==
  ASSUME Typed, InTurns, Lasting, NEW p \in Procs, Look(p) \/ Fetch(p) \/ Store(p)
  PROVE  Life!LifeNext \/ SameLife
<1>1. at[p].step # "idle" /\ UNCHANGED <<objects, history>>
  BY DEF Look, Fetch, Store, cluster
<1>2. /\ at[p] \in Threads /\ at[p].op # "none" /\ at[p].box \in Sandboxes
      /\ Turn(p, at[p], outcome) /\ at \in [Procs -> Threads]
  BY <1>1, StepOp, ThreadsTyped DEF InTurns, Typed
<1>3. PICK b \in Sandboxes : b = at[p].box
  BY <1>2
<1>4. /\ Written(b, cache[b]) /\ Written(b, at[p].seen) /\ Written(b, NoObject)
  BY <1>3 DEF Lasting, Recalled, Written
<1>5. CASE Look(p) /\ cache[b] # NoObject /\ Found(p, cache[b])
  BY <1>1, <1>3, <1>4, <1>5, FoundLife
<1>6. CASE Store(p)
  <2>1. Found(p, at[p].seen) /\ at[p].seen # NoObject
    BY <1>2, <1>6 DEF Store, Turn
  <2> QED
    BY <1>1, <1>3, <1>4, <2>1, FoundLife
<1>7. CASE Fetch(p) /\ objects[b] = NoObject /\ Found(p, NoObject)
  BY <1>1, <1>3, <1>4, <1>7, FoundLife
<1>8. ASSUME UNCHANGED <<outcome, gone>>, at'[p].op = at[p].op, at'[p].box = at[p].box,
             \A q \in Procs : q # p => at'[q] = at[q]
      PROVE  SameLife
  <2>1. at'[Server].op = at[Server].op /\ at'[Server].box = at[Server].box
    BY <1>8, Servers
  <2>2. UNCHANGED Deleting
    BY <2>1 DEF Deleting
  <2> QED
    BY <1>1, <1>8, <2>2, SameLives DEF SameLife
<1>9. CASE Goto(p, "fetch") /\ UNCHANGED <<outcome, gone>>
  BY <1>2, <1>8, <1>9 DEF Goto, Threads
<1>10. CASE at' = [at EXCEPT ![p].seen = objects[b], ![p].step = "store"] /\ UNCHANGED <<outcome, gone>>
  BY <1>2, <1>8, <1>10 DEF Threads
<1>11. CASE /\ Finish(p) /\ UNCHANGED gone
            /\ IF at[p].op = "create" THEN Ended(b, "unread") ELSE UNCHANGED outcome
  <2>1. CASE at[p].op = "create"
    <3>1. p = Server /\ outcome[b] = "creating"
      BY <1>2, <1>3, <2>1 DEF Turn
    <3>2. UNCHANGED Deleting
      BY <1>2, <1>11, <2>1, <3>1, DeletingIs, Servers DEF Finish
    <3> QED
      BY <1>1, <1>11, <2>1, <3>1, <3>2, CreationFails
  <2>2. CASE at[p].op # "create"
    <3>1. UNCHANGED <<Lives, Answers, gone>>
      BY <1>1, <1>11, <2>2, SameLives
    <3>2. CASE p = Server /\ at[p].op = "delete"
      <4>1. Deleting = {b} /\ Deleting' = {}
        BY <1>2, <1>3, <1>11, <3>2, DeletingIs DEF Finish
      <4> QED
        BY <3>1, <4>1 DEF Life!LifeNext, Life!GiveUp
    <3>3. CASE p = Server /\ at[p].op # "delete"
      <4>1. Deleting = {} /\ Deleting' = {}
        BY <1>2, <1>11, <3>3, DeletingIs DEF Finish
      <4> QED
        BY <3>1, <4>1 DEF SameLife
    <3>4. CASE p # Server
      <4>1. at'[Server] = at[Server]
        BY <1>2, <1>11, <3>4, Servers DEF Finish
      <4>2. UNCHANGED Deleting
        BY <4>1 DEF Deleting
      <4> QED
        BY <3>1, <4>2 DEF SameLife
    <3> QED
      BY <3>2, <3>3, <3>4
  <2> QED
    BY <2>1, <2>2
<1> QED
  BY <1>3, <1>5, <1>6, <1>7, <1>9, <1>10, <1>11 DEF Look, Fetch

\* Requests begin: a creation is refused or accepted, a deletion gets under way.
LEMMA RequestLife ==
  ASSUME Typed, InTurns, Lasting, Request
  PROVE  Life!LifeNext \/ SameLife
<1>1. UNCHANGED <<objects, history, gone>> /\ at \in [Procs -> Threads]
  BY RequestBegins, ThreadsTyped DEF cluster, Typed
<1>2. ASSUME NEW s \in Sandboxes, outcome[s] = "new", Ended(s, "refused"), UNCHANGED at
      PROVE  Life!LifeNext
  <2>1. Answers' = [Answers EXCEPT ![s] = "refused"] /\ Answers[s] = "new"
    BY <1>2, OneAnswer, LivesAre DEF Told
  <2>2. Unwritten(s)
    BY <1>2 DEF Lasting, Unmade
  <2>3. Lives[s] = "none"
    BY <1>2, <2>2, LivingIs
  <2>4. Lives' = [Lives EXCEPT ![s] = "over"]
    BY <1>1, <1>2, <2>3, LifeSettles
  <2>5. UNCHANGED Deleting
    BY <1>2 DEF Deleting
  <2> QED
    BY <1>1, <2>1, <2>4, <2>5 DEF Life!LifeNext, Life!Refuse, Life!Settle, Life!Ends
<1>3. ASSUME NEW s \in Sandboxes, outcome[s] = "new", Ended(s, "creating"), Begun(Server, "create", s)
      PROVE  Life!LifeNext
  <2>1. Answers' = [Answers EXCEPT ![s] = "creating"] /\ Answers[s] = "new"
    BY <1>3, OneAnswer, LivesAre DEF Told
  <2>2. \A y \in Sandboxes : Living(y)' = Living(y)
    BY <1>1, <1>3, OneAnswer DEF Living, Alive, Unwritten
  <2>3. UNCHANGED Lives
    BY <2>2 DEF Lives
  <2>4. PICK t \in Threads : at' = [at EXCEPT ![Server] = t] /\ t.op = "create"
    BY <1>3, BegunThread, Servers
  <2>5. at[Server].op # "delete" /\ at'[Server].op # "delete"
    BY <1>1, <1>3, <2>4, IdleTyped, Servers DEF Begun
  <2>6. UNCHANGED Deleting
    BY <2>5 DEF Deleting
  <2> QED
    BY <1>1, <2>1, <2>3, <2>6 DEF Life!LifeNext, Life!Ask, Life!Settle
<1>4. ASSUME UNCHANGED outcome, NEW s \in Sandboxes, NEW p \in Procs, NEW op \in {"get", "renew", "delete"},
             Known(s), Begun(p, op, s), op # "get" => p = Server
      PROVE  Life!LifeNext \/ SameLife
  <2>1. UNCHANGED <<Lives, Answers>>
    BY <1>1, <1>4, SameLives
  <2>2. PICK t \in Threads : at' = [at EXCEPT ![p] = t] /\ t.op = op /\ t.box = s
    BY <1>4, BegunThread
  <2>3. CASE p = Server /\ op = "delete"
    <3>1. at[Server] = Idle /\ at'[Server].op = "delete" /\ at'[Server].box = s
      BY <1>1, <1>4, <2>2, <2>3, Servers DEF Begun
    <3>2. Deleting = {} /\ Deleting' = {s}
      BY <3>1, IdleTyped DEF Deleting
    <3>3. Answers[s] = "ok"
      BY <1>4, LivesAre DEF Told, Known
    <3> QED
      BY <1>1, <2>1, <3>2, <3>3 DEF Life!LifeNext, Life!Delete
  <2>4. CASE p = Server /\ op # "delete"
    <3>1. at[Server].op # "delete" /\ at'[Server].op # "delete"
      BY <1>1, <1>4, <2>2, <2>4, IdleTyped, Servers DEF Begun
    <3>2. UNCHANGED Deleting
      BY <3>1 DEF Deleting
    <3> QED
      BY <1>1, <2>1, <3>2 DEF SameLife
  <2>5. CASE p # Server
    <3>1. at'[Server] = at[Server]
      BY <1>1, <2>2, <2>5, Servers
    <3>2. UNCHANGED Deleting
      BY <3>1 DEF Deleting
    <3> QED
      BY <1>1, <2>1, <3>2 DEF SameLife
  <2> QED
    BY <2>3, <2>4, <2>5
<1> QED
  BY <1>2, <1>3, <1>4, RequestBegins

\* The controller ends what has expired, and nothing else: it finishes what is
\* over already.
LEMMA ControllerLife ==
  ASSUME Typed, InTurns, Lasting, NEW s \in Sandboxes,
         Progress(s) \/ Hold(s) \/ Finalize(s) \/ Expire(s)
  PROVE  Life!LifeNext \/ SameLife
<1>1. UNCHANGED <<at, outcome, gone>> /\ UNCHANGED Deleting
  BY ControllerIs DEF clients, Deleting
<1>2. UNCHANGED Answers /\ objects[s] \in Drafts
  BY <1>1, ObjectsTyped DEF Answers, Told, Typed, TypeOK
<1>3. ASSUME NEW o \in Drafts, objects[s] # NoObject, Put(s, o), o.expire = objects[s].expire,
             o.hold = "dying" <=> objects[s].hold = "dying"
      PROVE  SameLife
  <2>1. PICK x \in Objects : Wrote(s, o, x)
    BY <1>3, PutWrites
  <2>2. /\ Changed(s, x) /\ x.expire = objects[s].expire
        /\ x.hold = "dying" <=> objects[s].hold = "dying"
    BY <1>3, <2>1 DEF Wrote, Changed
  <2> QED
    BY <1>1, <1>3, <2>2, KeptLives DEF SameLife
<1>4. CASE Progress(s)
  <2>1. PICK o \in Drafts : o = [objects[s] EXCEPT !.phase = "Running"]
    BY DraftsTyped, NoShapeTyped
  <2>2. o.expire = objects[s].expire /\ o.hold = objects[s].hold
    BY <1>2, <2>1 DEF Drafts
  <2>3. objects[s] # NoObject /\ Put(s, o)
    BY <1>4, <2>1 DEF Progress
  <2> QED
    BY <1>3, <2>2, <2>3
<1>5. CASE Hold(s)
  <2>1. PICK o \in Drafts : o = [objects[s] EXCEPT !.hold = "held"]
    BY DraftsTyped, NoShapeTyped DEF Holds
  <2>2. o.expire = objects[s].expire /\ o.hold = "held"
    BY <1>2, <2>1 DEF Drafts
  <2>3. objects[s].hold = "task" /\ Put(s, o)
    BY <1>5, <2>1 DEF Hold
  <2> QED
    BY <1>3, <2>2, <2>3, ObjectsTyped
<1>6. CASE Finalize(s)
  <2>1. objects[s].hold = "dying" /\ Drop(s)
    BY <1>6 DEF Finalize
  <2>2. objects[s] # NoObject
    BY <2>1, ObjectsTyped
  <2>3. Changed(s, NoObject) /\ NoObject \in MaybeObjects
    BY <2>1, DropWrites, ObjectsTyped DEF Changed
  <2>4. Lives' = [Lives EXCEPT ![s] = "over"]
    BY <1>1, <2>3, LifeChanges DEF LifeOf
  <2>5. Lives[s] = "over"
    BY <2>1, <2>2, LivingIs DEF LifeOf
  <2>6. Lives' = Lives
    BY <2>4, <2>5 DEF Lives
  <2> QED
    BY <1>1, <1>2, <2>6 DEF SameLife
<1>7. CASE Expire(s)
  <2>1. /\ objects[s] # NoObject /\ objects[s].expire \in 0..now
        /\ objects[s].hold # "dying" /\ Remove(s)
    BY <1>7 DEF Expire
  <2>2. objects[s].expire # NoTTL
    BY <2>1 DEF NoTTL
  <2>3. Lives[s] = "timed"
    BY <2>1, <2>2, LivingIs DEF Kind, LifeOf
  <2>4. Lives' = [Lives EXCEPT ![s] = "over"]
    <3>1. CASE Drop(s)
      <4>1. Changed(s, NoObject) /\ NoObject \in MaybeObjects
        BY <3>1, DropWrites, ObjectsTyped DEF Changed
      <4> QED
        BY <1>1, <4>1, LifeChanges DEF LifeOf
    <3>2. ASSUME NEW o \in Drafts, Amended(s, o), o.hold = "dying"
          PROVE  Lives' = [Lives EXCEPT ![s] = "over"]
      <4>1. PICK x \in Objects : Wrote(s, o, x)
        BY <3>2, PutWrites DEF Amended
      <4>2. Changed(s, x) /\ x \in MaybeObjects /\ LifeOf(x) = "over"
        BY <3>2, <4>1 DEF Wrote, Changed, MaybeObjects, LifeOf
      <4> QED
        BY <1>1, <4>2, LifeChanges
    <3> QED
      BY <2>1, <3>1, <3>2, RemoveIs DEF Alive
  <2> QED
    BY <1>1, <1>2, <2>3, <2>4 DEF Life!LifeNext, Life!Expire, Life!Ends
<1> QED
  BY <1>4, <1>5, <1>6, <1>7

\* A restart of the server is its death.
LEMMA RestartLife ==
  ASSUME Typed, InTurns, Lasting, Restart
  PROVE  Life!LifeNext
<1>1. UNCHANGED <<objects, history, gone>> /\ Deleting' = {}
  BY IdleTyped, Servers DEF Restart, cluster, Deleting
<1>2. \A s \in Sandboxes : outcome'[s] = IF outcome[s] = "creating" THEN "crashed" ELSE outcome[s]
  BY DEF Restart
<1>3. Answers' = [s \in Sandboxes |-> IF Answers[s] = "creating" THEN "unsure" ELSE Answers[s]]
  BY <1>2 DEF Answers, Told
<1>4. Lives' = [s \in Sandboxes |->
                  IF Answers[s] = "creating" /\ Lives[s] = "none" THEN "over" ELSE Lives[s]]
  <2>1. ASSUME NEW s \in Sandboxes
        PROVE  Living(s)' = IF Told(s) = "creating" /\ Living(s) = "none" THEN "over" ELSE Living(s)
    BY <1>1, <1>2 DEF Living, Alive, Told, Unwritten
  <2> QED
    BY <2>1, LivesAre DEF Lives
<1> QED
  BY <1>1, <1>3, <1>4 DEF Life!LifeNext, Life!Die

\* Nothing is asked for or made at the start.
LEMMA LifeStarts == Init => Life!LifeInit
<1> SUFFICES ASSUME Init PROVE Life!LifeInit
  OBVIOUS
<1>1. ASSUME NEW s \in Sandboxes
      PROVE  Living(s) = "none" /\ Told(s) = "new"
  <2>1. objects[s] = NoObject /\ outcome[s] = "new"
    BY DEF Init, EmptyCache
  <2>2. Unwritten(s)
    BY DEF Init, Unwritten
  <2> QED
    BY <2>1, <2>2 DEF Living, Alive, Told
<1>2. Deleting = {} /\ gone = {}
  BY IdleTyped, Servers DEF Init, Deleting
<1> QED
  BY <1>1, <1>2 DEF Life!LifeInit, Lives, Answers

\* Every step of the runtime is a step of SandboxLife or leaves it alone.
LEMMA LifeStep == Typed /\ InTurns /\ Lasting /\ [Next]_vars => [Life!LifeNext]_(Life!promise)
<1> SUFFICES ASSUME Typed, InTurns, Lasting, [Next]_vars
             PROVE  Life!LifeNext \/ SameLife
  BY DEF SameLife, Life!promise
<1>1. CASE CreateSecret
  <2>1. UNCHANGED <<objects, history, outcome, gone>>
    BY <1>1 DEF CreateSecret
  <2>2. Turn(Server, at[Server], outcome) /\ at \in [Procs -> Threads]
    BY Servers, ThreadsTyped DEF InTurns, Typed
  <2>3. at[Server].op = "create" /\ \E step \in Steps : Goto(Server, step)
    BY <1>1, <2>2 DEF CreateSecret, Turn, Steps
  <2>4. at'[Server].op = "create"
    BY <2>2, <2>3, Servers DEF Goto, Threads
  <2>5. UNCHANGED Deleting
    BY <2>3, <2>4 DEF Deleting
  <2> QED
    BY <2>1, <2>5, SameLives DEF SameLife
<1>2. CASE UNCHANGED <<cluster, clients>>
  BY <1>2, SameLives DEF cluster, clients, SameLife, Deleting
<1> QED
  BY <1>1, <1>2, WorkloadLife, RollbackLife, RenewLife, RemoveLife, LookLife, RequestLife,
     ControllerLife, RestartLife
  DEF Next, vars, ServerStep, InformerStep, InformerList, InformerSwap, InformerWatch, InformerEvent,
      InformerEnd, Environment, Tick

\* The Kubernetes runtime implements SandboxLife: stale caches, lost answers and
\* restarts notwithstanding, a sandbox is made once, keeps its kind, ends only as
\* promised and never comes back, and what is answered of it is true
\* (create_sandbox, renew_expiration, delete_sandbox).
THEOREM LifeImplemented == Spec => ImplementsLife
<1>1. Typed /\ InTurns /\ Lasting /\ [Next]_vars => [Life!LifeNext]_(Life!promise)
  BY LifeStep
<1> QED
  BY <1>1, LifeStarts, InitTyped, TypedStep, InitTurns, TurnsStep, InitLasting, LastingStep, PTL
  DEF Spec, ImplementsLife, Life!LifeSpec

=============================================================================
