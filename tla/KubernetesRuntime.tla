-------------------------- MODULE KubernetesRuntime --------------------------
(***************************************************************************)
(* The Kubernetes runtime of the sandbox server                            *)
(* (services/k8s/kubernetes_service.py with batchsandbox_provider.py,      *)
(* client.py and informer.py): sandboxes are custom objects of the         *)
(* cluster, and the server reads them through a cache that an informer     *)
(* thread keeps with a list and a watch.                                   *)
(*                                                                         *)
(* Three kinds of threads interleave: the event loop of the server, which  *)
(* serves one request at a time (the handlers call the service without     *)
(* awaiting), the executor that a scan job reads its sandbox in, and the   *)
(* informer.  A step is a call of the cluster's API, or what a thread does *)
(* to the cache under the lock.  The cluster counts its changes: object    *)
(* versions are revisions, and a watch from a revision delivers every      *)
(* later change in order, or answers 410 when the history is compacted.    *)
(* The workload controller and the clock are the environment.              *)
(*                                                                         *)
(* A lookup that finds nothing asks for the name of a sandbox made before  *)
(* an upgrade as well; there are none here, so that second answer is the   *)
(* same "not found" and is left out.                                       *)
(***************************************************************************)
EXTENDS Integers, Sequences

CONSTANTS
  Sandboxes,   \* the ids that create_sandbox generates
  Requests,    \* the requests to create, of Shapes
  Server,      \* the event loop
  Executor,    \* a thread of its executor
  MaxTime,     \* bound of the clock
  MaxRevision, \* bound of the changes the cluster makes, the last one a removal
  Faults,      \* which faults happen, of AllFaults
  MaxFaults    \* bound of their number

AllFaults == {"refused", "lost", "watch", "gone", "restart"}

ASSUME KubernetesAssumption ==
  /\ Sandboxes # {}
  /\ Server # Executor
  /\ MaxTime \in Nat
  /\ MaxRevision \in Nat
  /\ Faults \subseteq AllFaults
  /\ MaxFaults \in Nat

Procs == {Server, Executor}

NoVersion == -1     \* _resource_version is None
NoTTL == -1         \* a sandbox for manual cleanup
Expiries == {NoTTL} \cup 0..(MaxTime + 1)

\* An object: its resourceVersion, its expireTime, the pull secret its pod
\* names, what the controller reports of its pod, and what keeps it from going
\* at once when it is deleted: nothing, a task that has no finalizer yet, a
\* finalizer; "dying" is its deletionTimestamp.
Phases == {"Pending", "Running"}
Holds == {"none", "task", "held", "dying"}
Objects == [version : 1..MaxRevision, expire : Expiries, secret : BOOLEAN,
            phase : Phases, hold : Holds]
NoObject == [version |-> 0, expire |-> NoTTL, secret |-> FALSE, phase |-> "Pending",
             hold |-> "none"]
MaybeObjects == Objects \cup {NoObject}

\* A request to create: its timeout, image.auth, poolRef and volumes.
Shapes == [expire : Expiries, auth : BOOLEAN, pool : BOOLEAN, volumes : BOOLEAN]
ASSUME RequestsAssumption == Requests \subseteq Shapes
NoShape == [expire |-> NoTTL, auth |-> FALSE, pool |-> FALSE, volumes |-> FALSE]

VARIABLES
  now,      \* the clock
  objects,  \* the objects of the cluster
  history,  \* its changes: history[r] is the object that revision r wrote
  secrets,  \* the sandboxes whose pull secret exists
  cache,    \* WorkloadInformer._cache
  cursor,   \* _resource_version
  synced,   \* _has_synced
  informer, \* what the informer thread does
  listed,   \* the answer of its list: objects and revision
  stream,   \* the revision up to which its watch delivered
  at,       \* what each server thread does
  outcome,  \* how the creation of each sandbox ended
  gone,     \* sandboxes whose deletion was answered 204 or 404
  direct,   \* a get was stored in the cache since the last list was asked
  faults    \* how many faults happened

cluster == <<objects, history, secrets>>
informing == <<cache, cursor, synced, informer, listed, stream, direct>>
clients == <<at, outcome, gone>>
vars == <<now, cluster, informing, clients, faults>>

Ops == {"none", "create", "get", "renew", "delete"}
Steps == {"idle", "create", "secret", "rollback", "look", "fetch", "store",
          "patch", "remove"}
Idle == [op |-> "none", step |-> "idle", box |-> CHOOSE s \in Sandboxes : TRUE,
         shape |-> NoShape, seen |-> NoObject, checked |-> FALSE]
Outcomes == {"new", "creating", "ok", "refused", "failed", "undone", "kept",
             "unread", "crashed"}

Revision == Len(history)
EmptyCache == [s \in Sandboxes |-> NoObject]
NothingListed == [objects |-> EmptyCache, version |-> 0]

\* The object of s as revision r of the cluster has it.
Version(s, r) ==
  LET written == {i \in 1..r : history[i].box = s}
  IN  IF written = {} THEN NoObject
      ELSE history[CHOOSE i \in written : \A j \in written : j <= i].object

TypeOK ==
  /\ now \in 0..MaxTime
  /\ objects \in [Sandboxes -> MaybeObjects]
  /\ history \in Seq([box : Sandboxes, object : MaybeObjects])
  /\ Revision <= MaxRevision
  /\ secrets \subseteq Sandboxes
  /\ cache \in [Sandboxes -> MaybeObjects]
  /\ cursor \in {NoVersion} \cup 0..MaxRevision
  /\ synced \in BOOLEAN
  /\ informer \in {"off", "loop", "listed", "watching"}
  /\ listed \in [objects : [Sandboxes -> MaybeObjects], version : 0..MaxRevision]
  /\ stream \in 0..MaxRevision
  /\ at \in [Procs -> [op : Ops, step : Steps, box : Sandboxes, shape : Shapes,
                       seen : MaybeObjects, checked : BOOLEAN]]
  /\ outcome \in [Sandboxes -> Outcomes]
  /\ gone \subseteq Sandboxes
  /\ direct \in BOOLEAN
  /\ faults \in 0..MaxFaults
-----------------------------------------------------------------------------
\* The cluster: every change of an object is one revision.
Write(s, o) ==
  /\ Revision < MaxRevision
  /\ objects' = [objects EXCEPT ![s] = o]
  /\ history' = Append(history, [box |-> s, object |-> o])

Put(s, o) ==
  /\ Revision + 1 < MaxRevision
  /\ Write(s, [o EXCEPT !.version = Revision + 1])
  /\ UNCHANGED secrets

\* A secret goes with the object that owns it.
Drop(s) == Write(s, NoObject) /\ secrets' = secrets \ {s}

\* What the cluster makes of a deletion: a finalizer keeps the object, which is
\* dying from then on; where there is nothing it answers "not found".
Remove(s) ==
  \/ (objects[s] = NoObject \/ objects[s].hold = "dying") /\ UNCHANGED cluster
  \/ objects[s].hold = "held" /\ Put(s, [objects[s] EXCEPT !.hold = "dying"])
  \/ objects[s] # NoObject /\ objects[s].hold \in {"none", "task"} /\ Drop(s)

Works == UNCHANGED faults
Fails(kind) ==
  /\ kind \in Faults
  /\ faults < MaxFaults
  /\ faults' = faults + 1

Goto(p, step) == at' = [at EXCEPT ![p].step = step]
Finish(p) == at' = [at EXCEPT ![p] = Idle]
Begin(p, op, step, s, shape) ==
  at' = [at EXCEPT ![p] = [Idle EXCEPT !.op = op, !.step = step, !.box = s, !.shape = shape]]
Ended(s, how) == outcome' = [outcome EXCEPT ![s] = how]

Init ==
  /\ now = 0
  /\ objects = EmptyCache
  /\ history = <<>>
  /\ secrets = {}
  /\ cache = EmptyCache
  /\ cursor = NoVersion
  /\ synced = FALSE
  /\ informer = "off"
  /\ listed = NothingListed
  /\ stream = 0
  /\ at = [p \in Procs |-> Idle]
  /\ outcome = [s \in Sandboxes |-> "new"]
  /\ gone = {}
  /\ direct = FALSE
  /\ faults = 0
-----------------------------------------------------------------------------
\* A plausible bug: renew does not refuse a sandbox without expiration.
FoundUnchecked(p, object) ==
  LET s == at[p].box
      missing == object = NoObject
  IN  CASE at[p].op = "create" ->
             Finish(p) /\ Ended(s, IF missing THEN "unread" ELSE "ok") /\ UNCHANGED gone
        [] at[p].op = "renew" ->
             /\ IF missing THEN Finish(p) ELSE at' = [at EXCEPT ![p].step = "patch"]
             /\ UNCHANGED <<outcome, gone>>
        [] OTHER -> Finish(p) /\ UNCHANGED <<outcome, gone>>

\* What the request does with the object that its lookup returned, in the same
\* thread and without another call: create and get answer, with an error when
\* nothing was found; renew refuses a sandbox without expiration, and looks the
\* object up once more for the name to patch; delete answers 404 or goes on.
Found(p, object) ==
  LET s == at[p].box
      missing == object = NoObject
  IN  CASE at[p].op = "create" ->
             Finish(p) /\ Ended(s, IF missing THEN "unread" ELSE "ok") /\ UNCHANGED gone
        [] at[p].op = "get" ->
             Finish(p) /\ UNCHANGED <<outcome, gone>>
        [] at[p].op = "renew" ->
             /\ IF missing \/ (~at[p].checked /\ object.expire = NoTTL)
                  THEN Finish(p)
                  ELSE at' = [at EXCEPT ![p].step = IF at[p].checked THEN "patch" ELSE "look",
                                        ![p].seen = NoObject, ![p].checked = TRUE]
             /\ UNCHANGED <<outcome, gone>>
        [] at[p].op = "delete" ->
             /\ IF missing THEN Finish(p)
                ELSE at' = [at EXCEPT ![p].step = "remove", ![p].seen = NoObject]
             /\ gone' = IF missing THEN gone \cup {s} ELSE gone
             /\ UNCHANGED outcome

\* get_custom_object: the cache when the informer has synced and holds the
\* object, else the API, whose answer is then put in the cache, whatever the
\* informer did in between.
Look(p) ==
  LET s == at[p].box
  IN  /\ at[p].step = "look"
      /\ IF informer # "off" /\ synced /\ cache[s] # NoObject
           THEN Found(p, cache[s])
           ELSE Goto(p, "fetch") /\ UNCHANGED <<outcome, gone>>
      /\ informer' = IF informer = "off" THEN "loop" ELSE informer
      /\ UNCHANGED <<now, cluster, cache, cursor, synced, listed, stream, direct, faults>>

Fetch(p) ==
  LET s == at[p].box
  IN  /\ at[p].step = "fetch"
      /\ \/ /\ Works
            /\ objects[s] = NoObject
            /\ Found(p, NoObject)
         \/ /\ Works
            /\ objects[s] # NoObject
            /\ at' = [at EXCEPT ![p].seen = objects[s], ![p].step = "store"]
            /\ UNCHANGED <<outcome, gone>>
         \/ /\ Fails("refused")
            /\ Finish(p)
            /\ IF at[p].op = "create" THEN Ended(s, "unread") ELSE UNCHANGED outcome
            /\ UNCHANGED gone
      /\ UNCHANGED <<now, cluster, informing>>

\* _advance_resource_version: only to a newer version.
Advanced(version) == IF version > cursor THEN version ELSE cursor

\* update_cache: the object is stored unconditionally.
UpdateCache(s, o) ==
  /\ cache' = [cache EXCEPT ![s] = o]
  /\ cursor' = Advanced(o.version)

Store(p) ==
  /\ at[p].step = "store"
  /\ UpdateCache(at[p].box, at[p].seen)
  /\ direct' = TRUE
  /\ Found(p, at[p].seen)
  /\ UNCHANGED <<now, cluster, synced, informer, listed, stream, faults>>
-----------------------------------------------------------------------------
\* create_sandbox: pool mode refuses volumes before anything is created, and
\* leaves the image, so its credentials too, to the pool.
Create(s, shape) ==
  /\ at[Server] = Idle
  /\ outcome[s] = "new"
  /\ shape.expire = NoTTL \/ shape.expire > now
  /\ IF shape.pool /\ shape.volumes
       THEN Ended(s, "refused") /\ UNCHANGED at
       ELSE Ended(s, "creating") /\ Begin(Server, "create", "create", s, shape)
  /\ UNCHANGED <<now, cluster, informing, gone, faults>>

NewObject(shape) ==
  [version |-> 0, expire |-> shape.expire, phase |-> "Pending",
   secret |-> shape.auth /\ ~shape.pool, hold |-> IF shape.pool THEN "task" ELSE "none"]

CreateWorkload ==
  LET s == at[Server].box
      shape == at[Server].shape
      made == Put(s, NewObject(shape))
  IN  /\ at[Server].step = "create"
      /\ \/ /\ Works
            /\ made
            /\ Goto(Server, IF NewObject(shape).secret THEN "secret" ELSE "look")
            /\ UNCHANGED outcome
         \/ /\ \/ Fails("refused") /\ UNCHANGED cluster
               \/ Fails("lost") /\ made
            /\ Finish(Server)
            /\ Ended(s, "failed")
      /\ UNCHANGED <<now, informing, gone>>

\* A plausible bug: the request fails without undoing the object.
RollbackNot ==
  /\ at[Server].step = "rollback"
  /\ Finish(Server)
  /\ Ended(at[Server].box, "undone")
  /\ UNCHANGED <<now, cluster, informing, gone, faults>>

\* The secret names the object as its owner, so it follows the object's
\* creation; when it fails the object is deleted again.
CreateSecret ==
  LET s == at[Server].box
      made == secrets' = IF objects[s] = NoObject THEN secrets ELSE secrets \cup {s}
  IN  /\ at[Server].step = "secret"
      /\ \/ Works /\ made /\ Goto(Server, "look")
         \/ Fails("refused") /\ UNCHANGED secrets /\ Goto(Server, "rollback")
         \/ Fails("lost") /\ made /\ Goto(Server, "rollback")
      /\ UNCHANGED <<now, objects, history, informing, outcome, gone>>

Rollback ==
  LET s == at[Server].box
  IN  /\ at[Server].step = "rollback"
      /\ Finish(Server)
      /\ \/ /\ Works
            /\ Remove(s)
            /\ Ended(s, "undone")
         \/ Fails("refused") /\ UNCHANGED cluster /\ Ended(s, "kept")
      /\ UNCHANGED <<now, informing, gone>>

-----------------------------------------------------------------------------
Known(s) == outcome[s] = "ok"

\* get_sandbox, and get_endpoint, which reads the same way.
Get(p, s) ==
  /\ at[p] = Idle
  /\ Known(s)
  /\ Begin(p, "get", "look", s, NoShape)
  /\ UNCHANGED <<now, cluster, informing, outcome, gone, faults>>

\* renew_expiration: a new expiration must lie in the future.
Renew(s, t) ==
  /\ at[Server] = Idle
  /\ Known(s)
  /\ t > now
  /\ Begin(Server, "renew", "look", s, [NoShape EXCEPT !.expire = t])
  /\ UNCHANGED <<now, cluster, informing, outcome, gone, faults>>

RenewPatch ==
  LET s == at[Server].box
      patched == IF objects[s] = NoObject THEN UNCHANGED cluster
                 ELSE Put(s, [objects[s] EXCEPT !.expire = at[Server].shape.expire])
  IN  /\ at[Server].step = "patch"
      /\ \/ Works /\ patched
         \/ Fails("refused") /\ UNCHANGED cluster
         \/ Fails("lost") /\ patched
      /\ Finish(Server)
      /\ UNCHANGED <<now, informing, outcome, gone>>

\* delete_sandbox answers 404 when the lookup, or the API, finds nothing.
Delete(s) ==
  /\ at[Server] = Idle
  /\ Known(s)
  /\ Begin(Server, "delete", "look", s, NoShape)
  /\ UNCHANGED <<now, cluster, informing, outcome, gone, faults>>

\* A plausible bug: whatever error the deletion meets is read as "not found".
DeleteRemoveAnyError ==
  LET s == at[Server].box
  IN  /\ at[Server].step = "remove"
      /\ \/ Works /\ Remove(s)
         \/ Fails("refused") /\ UNCHANGED cluster
         \/ Fails("lost") /\ Remove(s)
      /\ gone' = gone \cup {s}
      /\ Finish(Server)
      /\ UNCHANGED <<now, informing, outcome>>

\* delete_workload: an API answer "not found" is a 404, another error a 500. A 204
\* says that the deletion was taken: what has a finalizer is still there.
DeleteRemove ==
  LET s == at[Server].box
  IN  /\ at[Server].step = "remove"
      /\ \/ Works /\ Remove(s) /\ gone' = gone \cup {s}
         \/ Fails("refused") /\ UNCHANGED <<cluster, gone>>
         \/ Fails("lost") /\ Remove(s) /\ UNCHANGED gone
      /\ Finish(Server)
      /\ UNCHANGED <<now, informing, outcome>>
-----------------------------------------------------------------------------
\* The informer thread.  _full_resync lists without the lock, then replaces
\* the cache; the cursor only ever moves forward.
InformerList ==
  /\ informer = "loop"
  /\ ~synced
  /\ \/ /\ Works
        /\ listed' = [objects |-> objects, version |-> Revision]
        /\ informer' = "listed"
        /\ direct' = FALSE
     \/ Fails("watch") /\ UNCHANGED <<listed, informer, direct>>
  /\ UNCHANGED <<now, cluster, cache, cursor, synced, stream, clients>>

InformerSwap ==
  /\ informer = "listed"
  /\ cache' = listed.objects
  /\ cursor' = Advanced(listed.version)
  /\ synced' = TRUE
  /\ informer' = "loop"
  /\ listed' = NothingListed
  /\ UNCHANGED <<now, cluster, stream, direct, clients, faults>>

\* A plausible bug: a 410 clears the cursor without asking for a new list.
InformerWatchOn ==
  /\ informer = "loop"
  /\ synced
  /\ \/ /\ Works
        /\ informer' = "watching"
        /\ stream' = cursor
        /\ UNCHANGED cursor
     \/ /\ cursor < Revision
        /\ Fails("gone")
        /\ cursor' = NoVersion
        /\ UNCHANGED <<informer, stream>>
  /\ UNCHANGED <<now, cluster, cache, synced, listed, direct, clients>>

\* _run_watch_loop: a new stream starts at the cursor.
InformerWatch ==
  /\ informer = "loop"
  /\ synced
  /\ \/ /\ Works
        /\ informer' = "watching"
        /\ stream' = cursor
        /\ UNCHANGED <<cursor, synced>>
     \/ /\ cursor < Revision
        /\ Fails("gone")
        /\ cursor' = NoVersion
        /\ synced' = FALSE
        /\ UNCHANGED <<informer, stream>>
  /\ UNCHANGED <<now, cluster, cache, listed, direct, clients>>

\* Plausible bugs: the cursor does not follow the events, or a deletion is
\* not taken out of the cache.
InformerEventUncounted ==
  /\ informer = "watching"
  /\ stream < Revision
  /\ LET event == history[stream + 1]
     IN  cache' = [cache EXCEPT ![event.box] = event.object]
  /\ stream' = stream + 1
  /\ UNCHANGED <<now, cluster, cursor, synced, informer, listed, direct, clients, faults>>

InformerEventUndeleted ==
  /\ informer = "watching"
  /\ stream < Revision
  /\ LET event == history[stream + 1]
     IN  cache' = [cache EXCEPT ![event.box] = IF event.object = NoObject THEN @ ELSE event.object]
  /\ cursor' = Advanced(stream + 1)
  /\ stream' = stream + 1
  /\ UNCHANGED <<now, cluster, synced, informer, listed, direct, clients, faults>>

\* _handle_event: a deletion drops the object, any other event stores it.
InformerEvent ==
  /\ informer = "watching"
  /\ stream < Revision
  /\ LET event == history[stream + 1]
     IN  cache' = [cache EXCEPT ![event.box] = event.object]
  /\ cursor' = Advanced(stream + 1)
  /\ stream' = stream + 1
  /\ UNCHANGED <<now, cluster, synced, informer, listed, direct, clients, faults>>

\* The stream ends at its timeout, or breaks: then the next loop lists again.
InformerEnd ==
  /\ informer = "watching"
  /\ informer' = "loop"
  /\ stream' = 0
  /\ \/ Works /\ UNCHANGED synced
     \/ Fails("watch") /\ synced' = FALSE
  /\ UNCHANGED <<now, cluster, cache, cursor, listed, direct, clients>>
-----------------------------------------------------------------------------
\* The controller of the workloads reports a pod's progress, gives an object with
\* a task a finalizer, takes it off when the tasks of a dying one are cleaned up,
\* and deletes an object whose expireTime has passed.
Progress(s) ==
  /\ objects[s] # NoObject
  /\ objects[s].phase # "Running"
  /\ objects[s].hold # "task"
  /\ Put(s, [objects[s] EXCEPT !.phase = "Running"])
  /\ UNCHANGED <<now, informing, clients, faults>>

Hold(s) ==
  /\ objects[s].hold = "task"
  /\ Put(s, [objects[s] EXCEPT !.hold = "held"])
  /\ UNCHANGED <<now, informing, clients, faults>>

Finalize(s) ==
  /\ objects[s].hold = "dying"
  /\ Drop(s)
  /\ UNCHANGED <<now, informing, clients, faults>>

Expire(s) ==
  /\ objects[s] # NoObject
  /\ objects[s].expire \in 0..now
  /\ objects[s].hold # "dying"
  /\ Remove(s)
  /\ UNCHANGED <<now, informing, clients, faults>>

Tick ==
  /\ now < MaxTime
  /\ now' = now + 1
  /\ UNCHANGED <<cluster, informing, clients, faults>>

\* The server stops and starts again: what it kept in memory is lost.
Restart ==
  /\ Fails("restart")
  /\ at' = [p \in Procs |-> Idle]
  /\ outcome' = [s \in Sandboxes |-> IF outcome[s] = "creating" THEN "crashed" ELSE outcome[s]]
  /\ cache' = EmptyCache
  /\ cursor' = NoVersion
  /\ synced' = FALSE
  /\ informer' = "off"
  /\ listed' = NothingListed
  /\ stream' = 0
  /\ direct' = FALSE
  /\ UNCHANGED <<now, cluster, gone>>
-----------------------------------------------------------------------------
ServerStep ==
  \/ CreateWorkload \/ CreateSecret \/ Rollback \/ RenewPatch \/ DeleteRemove
  \/ \E p \in Procs : Look(p) \/ Fetch(p) \/ Store(p)

InformerStep ==
  InformerList \/ InformerSwap \/ InformerWatch \/ InformerEvent \/ InformerEnd

Request ==
  \/ \E s \in Sandboxes : \/ \E shape \in Requests : Create(s, shape)
                          \/ \E p \in Procs : Get(p, s)
                          \/ \E t \in 1..(MaxTime + 1) : Renew(s, t)
                          \/ Delete(s)

Environment ==
  \/ Tick \/ Restart
  \/ \E s \in Sandboxes : Progress(s) \/ Hold(s) \/ Finalize(s) \/ Expire(s)

Next == ServerStep \/ InformerStep \/ Request \/ Environment

Spec == Init /\ [][Next]_vars

\* The informer thread never stops; a watch that keeps ending still delivers
\* what it has before one of its timeouts.  A request in progress goes on.
Fairness ==
  /\ WF_vars(ServerStep)
  /\ WF_vars(InformerList \/ InformerSwap)
  /\ WF_vars(InformerWatch)
  /\ SF_vars(InformerEvent)

FairSpec == Spec /\ Fairness
-----------------------------------------------------------------------------
\* While no answer of a get was put in the cache since the last list, the
\* cache is the cluster as of one revision: where the watch stands, or where
\* the next one will start.  Lists, ended and broken streams, 410s and the
\* cursor that only moves forward must fit together for that (informer.py).
CacheIsSnapshot ==
  synced /\ ~direct =>
    LET seen == IF informer = "watching" THEN stream ELSE cursor
    IN  \A s \in Sandboxes : cache[s] = Version(s, seen)

\* _run_watch_loop: "Stream watch events to keep the cache fresh".  Once the
\* watch has delivered every change and no get is being stored, no cached
\* object is older than the cluster's, and none is of a deleted sandbox.
CacheFresh ==
  informer = "watching" /\ stream = Revision /\ (\A p \in Procs : at[p].step # "store") =>
    \A s \in Sandboxes : cache[s] # NoObject => cache[s] = objects[s]

\* A deletion answered 204 or 404 is true of the cluster, however stale the
\* cache was that the lookup read: nothing is left but an object that goes as
\* soon as its tasks are cleaned up (delete_sandbox, delete_workload).
Alive(s) == objects[s] # NoObject /\ objects[s].hold # "dying"
DeleteAnswerSound == \A s \in gone : ~Alive(s)

\* A creation leaves all or nothing: once it was answered the sandbox has the
\* pull secret that its pod names for as long as it exists, and when it was
\* refused, or rolled back because its secret failed, neither a workload nor a
\* secret remains (create_workload).
SecretBacked ==
  \A s \in Sandboxes : outcome[s] = "ok" /\ objects[s].secret => s \in secrets

UndoneIsGone ==
  \A s \in Sandboxes : outcome[s] \in {"new", "refused", "undone"} =>
    objects[s] = NoObject /\ s \notin secrets

CreateSettled == SecretBacked /\ UndoneIsGone

\* A sandbox made for manual cleanup never gets an expiration, and one with an
\* expiration never loses it, although renew decides on an object that may be
\* stale (renew_expiration's 409).
ManualStays ==
  [][\A s \in Sandboxes : objects[s] # NoObject /\ objects'[s] # NoObject =>
       (objects[s].expire = NoTTL <=> objects'[s].expire = NoTTL)]_vars

\* What is left of a sandbox, what its creator was told, and the deletion that
\* the event loop has under way. A dying sandbox is over: it never lives again.
Unwritten(s) == \A i \in DOMAIN history : history[i].box # s
Living(s) ==
  IF Alive(s) THEN (IF objects[s].expire = NoTTL THEN "manual" ELSE "timed")
  ELSE IF outcome[s] \in {"new", "creating"} /\ Unwritten(s) THEN "none" ELSE "over"
Told(s) ==
  IF outcome[s] \in {"failed", "kept", "unread", "crashed"} THEN "unsure" ELSE outcome[s]
Deleting == {s \in Sandboxes : at[Server].op = "delete" /\ at[Server].box = s}
Lives == [s \in Sandboxes |-> Living(s)]
Answers == [s \in Sandboxes |-> Told(s)]

\* However stale the cache is that a request decides on, whichever answers are
\* lost and whenever the server dies: a sandbox lives as SandboxLife promises
\* (create_sandbox, renew_expiration, delete_sandbox).
Life == INSTANCE SandboxLife WITH
  life <- Lives, told <- Answers, deleting <- Deleting, deleted <- gone
ImplementsLife == Life!LifeSpec

\* The cache catches up with every change, through ended streams, failed lists
\* and 410s, unless a get wrote to it since the last list (_run).
Converges ==
  \A s \in Sandboxes :
    informer # "off" ~> (cache[s] = objects[s] \/ direct \/ informer = "off")
=============================================================================
