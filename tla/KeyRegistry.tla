------------------------------ MODULE KeyRegistry ------------------------------
(***************************************************************************)
(* The API keys of apiServer/fastapi/codeinspectior_api.py: rows of a      *)
(* database and, beside it, a set in Redis that the replicas look at       *)
(* first.  Each replica is one event loop, whose handlers do not await     *)
(* between their calls, so it does one thing at a time; the replicas       *)
(* interleave at every call.                                               *)
(***************************************************************************)
EXTENDS Naturals, FiniteSets

CONSTANTS
  MaxKeys,    \* bounds the ids that uuid4 draws
  Users, Replicas,
  Quota,      \* 5 in create_api_key
  TTLs,       \* times to live that a key may be asked for
  MaxTime,    \* bounds the clock
  MaxFaults,  \* bounds the faults
  Faults,     \* which of AllFaults may happen
  UseRedis    \* REDIS_HOST is set

Keys == 1..MaxKeys  \* ids, named in the order in which they are drawn
AllFaults == {"call", "crash", "redisLoss"}

ASSUME RegistryAssumption ==
  /\ MaxKeys \in Nat /\ Quota \in Nat \ {0} /\ MaxTime \in Nat /\ MaxFaults \in Nat
  /\ TTLs \subseteq Nat /\ Faults \subseteq AllFaults /\ UseRedis \in BOOLEAN
  /\ IsFiniteSet(Replicas) /\ Replicas # {} /\ "none" \notin Users

VARIABLES
  now,
  key,       \* what was drawn for each id: its user and times; also the token's claims
  rows,      \* the ids in the table api_keys
  redis,     \* the set active_api_keys
  proc,      \* what each replica is doing
  issued,    \* the keys whose creation was answered: somebody has the token
  asked,     \* the keys whose owner's deletion reached the table
  dropped,   \* the keys whose deletion was answered
  rejected,  \* the keys answered deactivated, deleted or expired
  calm,      \* FALSE once something happened that DeletionSettled does not cover
  faults

vars == <<now, key, rows, redis, proc, issued, asked, dropped, rejected, calm, faults>>
clients == <<issued, asked, dropped, rejected>>

NoKey == [user |-> "none", created |-> 0, expires |-> 0]
Drawn(k) == key[k] # NoKey

\* Where a replica is: "down", "idle", or the next call of the handler it runs.
Steps == {"down", "idle", "sync", "member", "row", "heal", "evict",
          "insert", "add", "remove", "sweep", "purge"}

Down == [step |-> "down", ids |-> {}, base |-> 0]
Idle == [step |-> "idle", ids |-> {}, base |-> 0]

TypeOK ==
  /\ now \in 0..MaxTime
  /\ key \in [Keys -> [user : Users, created : Nat, expires : Nat] \cup {NoKey}]
  /\ rows \subseteq {k \in Keys : Drawn(k)}
  /\ redis \subseteq {k \in Keys : Drawn(k)}
  /\ proc \in [Replicas -> [step : Steps, ids : SUBSET Keys, base : 0..MaxTime]]
  /\ issued \subseteq Keys /\ asked \subseteq Keys
  /\ dropped \subseteq asked /\ rejected \subseteq Keys
  /\ calm \in BOOLEAN
  /\ faults \in 0..MaxFaults
-----------------------------------------------------------------------------
At(r, step) == proc[r].step = step
Goto(r, step, ids) == proc' = [proc EXCEPT ![r] = [step |-> step, ids |-> ids, base |-> 0]]
Finish(r) == proc' = [proc EXCEPT ![r] = Idle]

\* expires_at < now, and expires_at > now.
Expired(k, t) == key[k].expires < t
Active == {k \in rows : key[k].expires > now}
RowsOf(u) == {k \in rows : key[k].user = u}
ActiveOf(u) == {k \in Active : key[k].user = u}

Init ==
  /\ now = 0
  /\ key = [k \in Keys |-> NoKey]
  /\ rows = {} /\ redis = {}
  /\ proc = [r \in Replicas |-> Down]
  /\ issued = {} /\ asked = {} /\ dropped = {} /\ rejected = {}
  /\ calm = TRUE
  /\ faults = 0
-----------------------------------------------------------------------------
(* init_db, at the start of a replica: it replaces the set by what it has  *)
(* read, unless that is empty.                                             *)

Start(r) ==
  /\ At(r, "down")
  /\ IF UseRedis /\ Active # {}
       THEN Goto(r, "sync", Active) /\ calm' = FALSE
       ELSE Finish(r) /\ UNCHANGED calm
  /\ UNCHANGED <<now, key, rows, redis, clients, faults>>

Sync(r) ==
  /\ At(r, "sync")
  /\ redis' = proc[r].ids
  /\ Finish(r)
  /\ UNCHANGED <<now, key, rows, clients, calm, faults>>
-----------------------------------------------------------------------------
(* validate_token: the set first, then the row, which brings the key back  *)
(* into the set.  is_revoked is never set.                                 *)

Known(ids) == UseRedis /\ ids \subseteq redis

\* A request with the token of a key that is not in the set; a token is refused
\* at once after its time, and accepted at once when the set has its key.
Present(r, k) ==
  /\ At(r, "idle")
  /\ k \in issued /\ now < key[k].expires
  /\ ~Known({k})
  /\ Goto(r, "row", {k})
  /\ UNCHANGED <<now, key, rows, redis, clients, calm, faults>>

\* A request of a browser session is mapped to the user's latest key.
Session(r, u) ==
  /\ At(r, "idle")
  /\ \E k \in ActiveOf(u) :
       /\ \A j \in ActiveOf(u) : key[j].created <= key[k].created
       /\ Goto(r, "member", {k})
       /\ calm' = (calm /\ k \in issued)
  /\ UNCHANGED <<now, key, rows, redis, clients, faults>>

Member(r) ==
  /\ At(r, "member")
  /\ IF Known(proc[r].ids) THEN Finish(r) ELSE Goto(r, "row", proc[r].ids)
  /\ UNCHANGED <<now, key, rows, redis, clients, calm, faults>>

Rejects(r) == Finish(r) /\ rejected' = rejected \cup proc[r].ids /\ UNCHANGED <<issued, asked, dropped>>

\* A plausible bug: no fallback to the database.
RowNotAsked(r) ==
  /\ At(r, "row") /\ Rejects(r)
  /\ UNCHANGED <<now, key, rows, redis, calm, faults>>

Row(r) ==
  /\ At(r, "row")
  /\ \E k \in proc[r].ids :
       \/ k \notin rows /\ Rejects(r)
       \/ /\ k \in rows /\ Expired(k, now)
          /\ IF UseRedis THEN Goto(r, "evict", {k}) /\ UNCHANGED clients ELSE Rejects(r)
       \/ /\ k \in rows /\ ~Expired(k, now)
          /\ IF UseRedis THEN Goto(r, "heal", {k}) ELSE Finish(r)
          /\ UNCHANGED clients
  /\ UNCHANGED <<now, key, rows, redis, calm, faults>>

Heal(r) ==
  /\ At(r, "heal")
  /\ redis' = redis \cup proc[r].ids
  /\ Finish(r)
  /\ UNCHANGED <<now, key, rows, clients, calm, faults>>

Evict(r) ==
  /\ At(r, "evict")
  /\ redis' = redis \ proc[r].ids
  /\ Rejects(r)
  /\ UNCHANGED <<now, key, rows, calm, faults>>
-----------------------------------------------------------------------------
(* create_api_key: count, insert on another connection, add to the set.    *)

\* A plausible bug: off by one.
UnderOrAtQuota(u) == Cardinality(RowsOf(u)) <= Quota
UnderQuota(u) == Cardinality(RowsOf(u)) < Quota
Expiry(ttl) == now + ttl

Create(r, u, k, ttl) ==
  /\ At(r, "idle")
  /\ UnderQuota(u)
  /\ ~Drawn(k) /\ \A j \in 1..(k - 1) : Drawn(j)
  /\ key' = [key EXCEPT ![k] = [user |-> u, created |-> now, expires |-> Expiry(ttl)]]
  /\ Goto(r, "insert", {k})
  /\ UNCHANGED <<now, rows, redis, clients, calm, faults>>

Insert(r) ==
  /\ At(r, "insert")
  /\ rows' = rows \cup proc[r].ids
  /\ Goto(r, "add", proc[r].ids)
  /\ UNCHANGED <<now, key, redis, clients, calm, faults>>

Add(r) ==
  /\ At(r, "add")
  /\ redis' = IF UseRedis THEN redis \cup proc[r].ids ELSE redis
  /\ issued' = issued \cup proc[r].ids
  /\ Finish(r)
  /\ UNCHANGED <<now, key, rows, asked, dropped, rejected, calm, faults>>
-----------------------------------------------------------------------------
(* delete_api_key: the row, if it is the user's, then the set.  A user     *)
(* knows an id from its creation or from list_user_api_keys.               *)

Deletes(u, k) == k \in rows /\ key[k].user = u

Delete(r, u, k) ==
  /\ At(r, "idle")
  /\ Deletes(u, k)
  /\ rows' = rows \ {k}
  /\ asked' = asked \cup {k}
  /\ calm' = (calm /\ ~\E q \in Replicas : At(q, "add") /\ k \in proc[q].ids)
  /\ Goto(r, "remove", {k})
  /\ UNCHANGED <<now, key, redis, issued, dropped, rejected, faults>>

\* A plausible bug: the set is not told.
RemoveRowOnly(r) ==
  /\ At(r, "remove")
  /\ dropped' = dropped \cup proc[r].ids
  /\ Finish(r)
  /\ UNCHANGED <<now, key, rows, redis, issued, asked, rejected, calm, faults>>

Remove(r) ==
  /\ At(r, "remove")
  /\ redis' = IF UseRedis THEN redis \ proc[r].ids ELSE redis
  /\ dropped' = dropped \cup proc[r].ids
  /\ Finish(r)
  /\ UNCHANGED <<now, key, rows, issued, asked, rejected, calm, faults>>
-----------------------------------------------------------------------------
(* cleanup_expired_keys_task, once a minute in every replica: what has     *)
(* expired leaves the set one by one, and then the table, as of the time   *)
(* the task began.                                                         *)

Sweep(r) ==
  /\ At(r, "idle")
  /\ LET expired == {k \in rows : Expired(k, now)}
         next == IF UseRedis /\ expired # {} THEN "sweep" ELSE "purge"
     IN  proc' = [proc EXCEPT ![r] = [step |-> next, ids |-> expired, base |-> now]]
  /\ UNCHANGED <<now, key, rows, redis, clients, calm, faults>>

SweepOne(r) ==
  /\ At(r, "sweep")
  /\ \E k \in proc[r].ids :
       /\ redis' = redis \ {k}
       /\ proc' = [proc EXCEPT ![r] =
            [step |-> IF proc[r].ids = {k} THEN "purge" ELSE "sweep",
             ids |-> proc[r].ids \ {k}, base |-> proc[r].base]]
  /\ UNCHANGED <<now, key, rows, clients, calm, faults>>

Purge(r) ==
  /\ At(r, "purge")
  /\ rows' = {k \in rows : ~Expired(k, proc[r].base)}
  /\ Finish(r)
  /\ UNCHANGED <<now, key, redis, clients, calm, faults>>
-----------------------------------------------------------------------------
(* What may go wrong, and time.                                            *)

Fault(f) == f \in Faults /\ faults < MaxFaults /\ faults' = faults + 1

\* A call raises: the handler answers an error and the task waits for its next
\* turn, with what was committed in place; a replica that starts dies.
Fail(r) ==
  /\ Fault("call")
  /\ proc[r].step \notin {"down", "idle"}
  /\ proc' = [proc EXCEPT ![r] = IF At(r, "sync") THEN Down ELSE Idle]
  /\ UNCHANGED <<now, key, rows, redis, clients, calm>>

Crash(r) ==
  /\ Fault("crash")
  /\ ~At(r, "down")
  /\ proc' = [proc EXCEPT ![r] = Down]
  /\ UNCHANGED <<now, key, rows, redis, clients, calm>>

\* Redis keeps nothing on a volume (codeInspector/charts/apiServer/templates/redis.yaml).
RedisLoss ==
  /\ Fault("redisLoss")
  /\ redis' = {} /\ calm' = FALSE
  /\ UNCHANGED <<now, key, rows, proc, clients>>

Tick ==
  /\ now < MaxTime
  /\ now' = now + 1
  /\ UNCHANGED <<key, rows, redis, proc, clients, calm, faults>>

Continue(r) ==
  \/ Sync(r)   \/ Member(r) \/ Row(r) \/ Heal(r) \/ Evict(r)
  \/ Insert(r) \/ Add(r) \/ Remove(r) \/ SweepOne(r) \/ Purge(r)

Request(r) ==
  \/ \E k \in Keys : Present(r, k)
  \/ \E u \in Users : Session(r, u)
  \/ \E u \in Users, k \in Keys, ttl \in TTLs : Create(r, u, k, ttl)
  \/ \E u \in Users, k \in Keys : Delete(r, u, k)

Next ==
  \/ \E r \in Replicas : Start(r) \/ Request(r) \/ Sweep(r) \/ Continue(r) \/ Fail(r) \/ Crash(r)
  \/ RedisLoss
  \/ Tick

Spec == Init /\ [][Next]_vars

\* A handler that runs goes on; a replica that died is started again; the
\* cleaning task, which sleeps and is then queued by the event loop, gets its turn
\* however many requests arrive.
Fairness == \A r \in Replicas : WF_vars(Continue(r)) /\ WF_vars(Start(r)) /\ SF_vars(Sweep(r))

FairSpec == Spec /\ Fairness
-----------------------------------------------------------------------------
\* A key is answered "deactivated or deleted" or "expired" only if its owner has
\* deleted it or its time is over, whatever Redis has lost, and whichever of
\* the replicas, of their cleaning tasks and of the starts got in between.
RejectionTrue == \A k \in rejected : k \in asked \/ Expired(k, now)

\* "API Key limit reached (Max 5)": the count and the insert are separate calls, so
\* the limit may be passed, but only by one key for every further replica.
QuotaBounded ==
  \A u \in Users : Cardinality(RowsOf(u)) + 1 <= Quota + Cardinality(Replicas)

\* "Key has been permanently destroyed across the cluster": once that is answered
\* the key is in neither store, and no validation brings it back, unless
\* Redis lost its entries, a replica started over existing keys, or a key was used
\* by a session, or deleted, before its creation was answered.
DeletionSettled ==
  calm => \A k \in dropped : k \notin rows /\ k \notin redis

\* An expired key leaves the table in the end, although replicas crash and calls
\* fail (cleanup_expired_keys_task), so that it no longer counts for its user.
ExpiredPurged == \A k \in Keys : k \in rows /\ Expired(k, now) ~> k \notin rows
=============================================================================
