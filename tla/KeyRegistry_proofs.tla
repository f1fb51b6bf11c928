--------------------------- MODULE KeyRegistry_proofs ---------------------------
(***************************************************************************)
(* Proofs about KeyRegistry, for any users, replicas, quota, times to live *)
(* and faults: its types, that a key is refused for a reason, how far the  *)
(* quota may be passed, and when a deletion is settled.                    *)
(***************************************************************************)
EXTENDS KeyRegistry, FiniteSetTheorems, TLAPS

-----------------------------------------------------------------------------
(* The parts of the inductive invariants.                                  *)

\* What a replica works on was drawn, and was read no later than now; a request is
\* about one key, and only a key that was deleted is removed from the set.
Jobs == [step : Steps, ids : SUBSET Keys, base : 0..MaxTime]

Job(p) ==
  /\ \A k \in p.ids : Drawn(k)
  /\ p.base <= now
  /\ p.step \in {"member", "row", "insert"} => \E k \in Keys : p.ids = {k}
  /\ p.step = "remove" => p.ids \subseteq asked

Working == proc \in [Replicas -> Jobs] /\ \A r \in Replicas : Job(proc[r])

Stored ==
  /\ now \in 0..MaxTime
  /\ key \in [Keys -> [user : Users, created : Nat, expires : Nat] \cup {NoKey}]
  /\ \A k \in rows \cup redis \cup issued \cup asked : k \in Keys /\ Drawn(k)
  /\ dropped \subseteq asked /\ rejected \subseteq Keys
  /\ calm \in BOOLEAN
  /\ faults \in 0..MaxFaults

Typed == Stored /\ Working

\* A key that was inserted once is in the table, or was deleted, or has expired.
Accounted(k) == k \in rows \/ k \in asked \/ Expired(k, now)

Used(r) == proc[r].step \in {"member", "row", "heal", "add"}

Kept ==
  /\ \A k \in issued : Accounted(k)
  /\ \A k \in rejected : k \in asked \/ (Drawn(k) /\ Expired(k, now))
  /\ \A r \in Replicas : Used(r) => \A k \in proc[r].ids : Accounted(k)
  /\ \A r \in Replicas : At(r, "evict") \/ At(r, "sweep") => \A k \in proc[r].ids : Expired(k, now)

\* The creations of a user that have counted and not inserted yet.
Pending(u) == {r \in Replicas : At(r, "insert") /\ \E k \in proc[r].ids : key[k].user = u}

Within(u) == Cardinality(RowsOf(u)) + Cardinality(Pending(u)) + 1 <= Quota + Cardinality(Replicas)

Counted == \A u \in Users : Within(u)

\* Nobody else knows a key that is about to be inserted.
Fresh ==
  \A r \in Replicas : At(r, "insert") =>
    /\ proc[r].ids \cap (rows \cup redis \cup issued \cup asked) = {}
    /\ \A q \in Replicas : q # r => proc[r].ids \cap proc[q].ids = {}

\* A deleted row does not come back.
Ended == asked \cap rows = {}

\* Without Redis nothing touches the set.
Unused == UseRedis \/ (redis = {} /\ \A r \in Replicas : ~At(r, "heal") /\ ~At(r, "sync"))

\* While it is calm the set has every key that somebody has the token of, so no
\* validation finds a key that it would have to bring back.
Mirrored ==
  /\ \A k \in issued \cap rows : UseRedis => k \in redis \/ Expired(k, now)
  /\ \A r \in Replicas :
       /\ ~At(r, "sync") /\ (At(r, "heal") => ~UseRedis)
       /\ At(r, "member") => proc[r].ids \subseteq issued
       /\ At(r, "row") /\ UseRedis =>
            proc[r].ids \subseteq issued /\ \A k \in proc[r].ids : k \notin rows \/ Expired(k, now)
       /\ At(r, "add") => proc[r].ids \cap asked = {}
  /\ dropped \cap redis = {}

Settled == Ended /\ Fresh /\ Unused /\ (calm => Mirrored)
-----------------------------------------------------------------------------
(* Types.                                                                  *)

LEMMA InitTyped == Init => Typed
BY RegistryAssumption DEF Init, Typed, Stored, Working, Jobs, Job, Down, Steps

LEMMA TypesFollow == Typed => TypeOK
BY DEF Typed, Stored, Working, Jobs, TypeOK

JobNext(p) ==
  /\ \A k \in p.ids : Drawn(k)'
  /\ p.base <= now'
  /\ p.step \in {"member", "row", "insert"} => \E k \in Keys : p.ids = {k}
  /\ p.step = "remove" => p.ids \subseteq asked'

\* The world goes on: a step keeps what was drawn and what was asked.
Onward ==
  /\ \A k \in Keys : Drawn(k) => key'[k] = key[k]
  /\ asked \subseteq asked'
  /\ now <= now'

LEMMA OnwardStep == ASSUME Typed, Next PROVE Onward
<1> USE DEF Onward
<1>1. now \in Nat
  BY RegistryAssumption DEF Typed, Stored
<1>2. ASSUME NEW r \in Replicas, NEW u \in Users, NEW k \in Keys, NEW ttl \in TTLs, Create(r, u, k, ttl)
      PROVE  Onward
  BY <1>1, <1>2 DEF Create, Typed, Stored, clients
<1>3. ASSUME NEW r \in Replicas, NEW u \in Users, NEW k \in Keys, Delete(r, u, k)
      PROVE  Onward
  BY <1>1, <1>3 DEF Delete
<1>4. CASE Tick
  BY <1>1, <1>4 DEF Tick, clients
<1>5. CASE UNCHANGED <<now, key, asked>>
  BY <1>1, <1>5
<1> QED
  BY <1>2, <1>3, <1>4, <1>5
  DEF Next, Start, Request, Sweep, Continue, Fail, Crash, RedisLoss, Sync, Member, clients, Rejects,
      Row, Heal, Evict, Insert, Add, Remove, SweepOne, Purge, Present, Session

LEMMA DrawnStays ==
  ASSUME Typed, Onward, NEW k \in Keys, Drawn(k) PROVE Drawn(k)'
BY DEF Onward, Drawn

LEMMA WorkingStep ==
  ASSUME Typed, Onward, Stored', NEW r \in Replicas, NEW p \in Jobs,
         proc' = [proc EXCEPT ![r] = p], JobNext(p)
  PROVE  Working'
<1>1. proc \in [Replicas -> Jobs]
  BY DEF Typed, Working
<1>2. proc' \in [Replicas -> Jobs]
  BY <1>1
<1>3. ASSUME NEW q \in Replicas PROVE JobNext(proc'[q])
  <2>1. CASE q = r
    BY <1>1, <2>1 DEF JobNext
  <2>2. CASE q # r
    <3>1. proc'[q] = proc[q] /\ proc[q] \in Jobs /\ Job(proc[q])
      BY <1>1, <2>2 DEF Typed, Working
    <3>2. \A k \in proc[q].ids : Drawn(k)'
      BY <3>1, DrawnStays DEF Jobs, Job
    <3>3. proc[q].base <= now'
      BY <3>1, RegistryAssumption DEF Jobs, Job, Onward, Typed, Stored
    <3> QED
      BY <3>1, <3>2, <3>3 DEF Job, JobNext, Onward
  <2> QED
    BY <2>1, <2>2
<1> QED
  BY <1>2, <1>3 DEF Working, Job, JobNext

LEMMA WorkingStays ==
  ASSUME Typed, Onward, Stored', UNCHANGED proc PROVE Working'
<1>1. proc \in [Replicas -> Jobs]
  BY DEF Typed, Working
<1>2. ASSUME NEW r \in Replicas PROVE JobNext(proc[r])
  BY <1>1, RegistryAssumption, DrawnStays DEF Onward, Typed, Stored, Working, Jobs, Job, JobNext
<1> QED
  BY <1>1, <1>2 DEF Working, Job, JobNext

\* The records a step leaves.
LEMMA IdleJob == ASSUME Typed, Stored' PROVE Idle \in Jobs /\ JobNext(Idle) /\ Down \in Jobs /\ JobNext(Down)
BY RegistryAssumption DEF Idle, Down, Jobs, JobNext, Steps, Stored

LEMMA NextJob ==
  ASSUME Typed, Onward, Stored', NEW step \in Steps, NEW ids \in SUBSET Keys,
         \A k \in ids : Drawn(k)', step = "remove" => ids \subseteq asked',
         step \in {"member", "row", "insert"} => \E k \in Keys : ids = {k}
  PROVE  LET p == [step |-> step, ids |-> ids, base |-> 0] IN p \in Jobs /\ JobNext(p)
BY RegistryAssumption DEF Jobs, JobNext, Stored

LEMMA JobTyped ==
  ASSUME Typed, NEW r \in Replicas
  PROVE  /\ proc[r] \in Jobs /\ proc[r].step \in Steps /\ proc[r].ids \subseteq Keys
         /\ \A k \in proc[r].ids : Drawn(k)
         /\ proc[r].base \in 0..MaxTime /\ proc[r].base <= now
         /\ proc[r].step \in {"member", "row", "insert"} => \E k \in Keys : proc[r].ids = {k}
         /\ proc[r].step = "remove" => proc[r].ids \subseteq asked
BY DEF Typed, Working, Jobs, Job

LEMMA Finished ==
  ASSUME Typed, Onward, Stored', NEW r \in Replicas, Finish(r) PROVE Working'
BY IdleJob, WorkingStep DEF Finish

LEMMA Gone ==
  ASSUME Typed, Onward, Stored', NEW r \in Replicas, NEW step \in Steps, NEW ids \in SUBSET Keys,
         Goto(r, step, ids), \A k \in ids : Drawn(k)', step = "remove" => ids \subseteq asked',
         step \in {"member", "row", "insert"} => \E k \in Keys : ids = {k}
  PROVE  Working'
BY NextJob, WorkingStep DEF Goto

LEMMA TypedStep == Typed /\ [Next]_vars => Typed'
<1> SUFFICES ASSUME Typed, [Next]_vars PROVE Typed'
  OBVIOUS
<1>0. CASE UNCHANGED vars
  BY <1>0 DEF vars, Typed, Stored, Working, Job, Drawn
<1> SUFFICES ASSUME Next PROVE Typed'
  BY <1>0
<1>o. Onward
  BY OnwardStep
<1>s. Stored
  BY DEF Typed
<1>steps. {"idle", "down", "sync", "member", "row", "heal", "evict", "insert", "add", "remove",
           "sweep", "purge"} \subseteq Steps
  BY DEF Steps
<1>1. ASSUME NEW r \in Replicas, Start(r) PROVE Typed'
  <2>1. Stored' /\ UNCHANGED key
    BY <1>1, <1>s DEF Start, Stored, Drawn, clients
  <2>2. Active \subseteq Keys /\ \A k \in Active : Drawn(k)'
    BY <2>1, <1>s DEF Active, Stored, Drawn
  <2> QED
    BY <1>1, <1>o, <1>steps, <2>1, <2>2, Gone, Finished DEF Start, Typed
<1>2. ASSUME NEW r \in Replicas, NEW k \in Keys, Present(r, k) PROVE Typed'
  <2>1. Stored' /\ UNCHANGED key /\ Goto(r, "row", {k}) /\ Drawn(k)
    BY <1>2, <1>s DEF Present, Stored, Drawn, clients
  <2> QED
    BY <1>o, <1>steps, <2>1, Gone DEF Typed, Drawn
<1>3. ASSUME NEW r \in Replicas, NEW u \in Users, Session(r, u) PROVE Typed'
  <2>1. PICK k \in ActiveOf(u) : Goto(r, "member", {k}) /\ calm' = (calm /\ k \in issued)
    BY <1>3 DEF Session
  <2>2. k \in Keys /\ Drawn(k)
    BY <1>s DEF ActiveOf, Active, Stored
  <2>3. Stored' /\ UNCHANGED key
    BY <1>3, <1>s, <2>1 DEF Session, Stored, Drawn, clients
  <2> QED
    BY <1>o, <1>steps, <2>1, <2>2, <2>3, Gone DEF Typed, Drawn
<1>4. ASSUME NEW r \in Replicas, NEW u \in Users, NEW k \in Keys, NEW ttl \in TTLs, Create(r, u, k, ttl)
      PROVE  Typed'
  <2> DEFINE x == [user |-> u, created |-> now, expires |-> Expiry(ttl)]
  <2>1. x \in [user : Users, created : Nat, expires : Nat] /\ x # NoKey
    BY <1>s, RegistryAssumption DEF Stored, Expiry, NoKey
  <2>2. key' = [key EXCEPT ![k] = x] /\ Goto(r, "insert", {k}) /\ UNCHANGED <<now, rows, redis, clients, calm, faults>>
    BY <1>4 DEF Create
  <2>3. key' \in [Keys -> [user : Users, created : Nat, expires : Nat] \cup {NoKey}] /\ key'[k] = x
    BY <1>s, <2>1, <2>2 DEF Stored
  <2>4. Drawn(k)'
    BY <2>1, <2>3 DEF Drawn
  <2>5. \A j \in rows \cup redis \cup issued \cup asked : j \in Keys /\ Drawn(j)'
    BY <1>s, <1>o, DrawnStays DEF Stored
  <2>6. Stored'
    BY <1>s, <2>2, <2>3, <2>5 DEF Stored, clients
  <2> QED
    BY <1>o, <1>steps, <2>2, <2>4, <2>6, Gone DEF Typed
<1>5. ASSUME NEW r \in Replicas, NEW u \in Users, NEW k \in Keys, Delete(r, u, k) PROVE Typed'
  <2>1. Stored' /\ UNCHANGED key /\ Goto(r, "remove", {k}) /\ Drawn(k) /\ k \in asked'
    BY <1>5, <1>s DEF Delete, Deletes, Stored, Drawn
  <2> QED
    BY <1>o, <1>steps, <2>1, Gone DEF Typed, Drawn
<1>6. ASSUME NEW r \in Replicas, Sweep(r) PROVE Typed'
  <2> DEFINE expired == {k \in rows : Expired(k, now)}
             next == IF UseRedis /\ expired # {} THEN "sweep" ELSE "purge"
             p == [step |-> next, ids |-> expired, base |-> now]
  <2>1. proc' = [proc EXCEPT ![r] = p]
    BY <1>6 DEF Sweep
  <2>2. Stored' /\ UNCHANGED <<key, now>>
    BY <1>6, <1>s DEF Sweep, Stored, Drawn, clients
  <2>3. expired \subseteq Keys /\ \A k \in expired : Drawn(k)'
    BY <1>s, <2>2 DEF Stored, Drawn
  <2>4. p \in Jobs /\ JobNext(p)
    BY <1>s, <1>steps, <2>2, <2>3, RegistryAssumption DEF Jobs, JobNext, Stored
  <2> QED
    BY <1>o, <2>1, <2>2, <2>4, WorkingStep DEF Typed
<1>7. ASSUME NEW r \in Replicas, Sync(r) PROVE Typed'
  <2>1. Stored' /\ Finish(r)
    BY <1>7, <1>s, JobTyped DEF Sync, Stored, Drawn, clients
  <2> QED
    BY <1>o, <2>1, Finished DEF Typed
<1>8. ASSUME NEW r \in Replicas, Member(r) PROVE Typed'
  <2>1. Stored' /\ UNCHANGED key
    BY <1>8, <1>s DEF Member, Stored, Drawn, clients
  <2>2. proc[r].ids \in SUBSET Keys /\ (\A k \in proc[r].ids : Drawn(k)')
        /\ \E k \in Keys : proc[r].ids = {k}
    BY <1>8, <2>1, JobTyped DEF Drawn, Member, At
  <2> QED
    BY <1>8, <1>o, <1>steps, <2>1, <2>2, Finished, Gone DEF Typed, Member
<1>9. ASSUME NEW r \in Replicas, Row(r) PROVE Typed'
  <2>1. PICK k \in proc[r].ids :
          \/ k \notin rows /\ Rejects(r)
          \/ /\ k \in rows /\ Expired(k, now)
             /\ IF UseRedis THEN Goto(r, "evict", {k}) /\ UNCHANGED clients ELSE Rejects(r)
          \/ /\ k \in rows /\ ~Expired(k, now)
             /\ IF UseRedis THEN Goto(r, "heal", {k}) ELSE Finish(r)
             /\ UNCHANGED clients
    BY <1>9 DEF Row
  <2>2. k \in Keys /\ Drawn(k) /\ proc[r].ids \subseteq Keys
    BY JobTyped
  <2>3. UNCHANGED <<now, key, rows, redis, calm, faults, issued, asked, dropped>>
        /\ (rejected' = rejected \/ rejected' = rejected \cup proc[r].ids)
    BY <1>9, <2>1 DEF Row, Rejects, clients
  <2>4. Stored'
    BY <1>s, <2>2, <2>3 DEF Stored, Drawn
  <2>5. Finish(r) \/ Goto(r, "evict", {k}) \/ Goto(r, "heal", {k})
    BY <2>1 DEF Rejects
  <2>6. Drawn(k)'
    BY <2>2, <2>3 DEF Drawn
  <2>7. CASE Finish(r)
    BY <1>o, <2>4, <2>7, Finished DEF Typed
  <2>8. CASE Goto(r, "evict", {k})
    BY <1>o, <1>steps, <2>2, <2>4, <2>6, <2>8, Gone DEF Typed
  <2>9. CASE Goto(r, "heal", {k})
    BY <1>o, <1>steps, <2>2, <2>4, <2>6, <2>9, Gone DEF Typed
  <2> QED
    BY <2>5, <2>7, <2>8, <2>9
<1>10. ASSUME NEW r \in Replicas, Heal(r) \/ Evict(r) \/ Add(r) \/ Remove(r) \/ Purge(r) PROVE Typed'
  <2>1. Finish(r) /\ UNCHANGED <<now, key, calm, faults, asked>>
    BY <1>10 DEF Heal, Evict, Add, Remove, Purge, Rejects, clients
  <2>2. \A k \in proc[r].ids : k \in Keys /\ Drawn(k)
    BY JobTyped
  <2>3. /\ rows' \subseteq rows /\ redis' \subseteq redis \cup proc[r].ids
        /\ issued' \subseteq issued \cup proc[r].ids /\ rejected' \subseteq rejected \cup proc[r].ids
    BY <1>10 DEF Heal, Evict, Add, Remove, Purge, Rejects, clients
  <2>4. dropped' \subseteq asked
    BY <1>10, <1>s, JobTyped DEF Heal, Evict, Add, Remove, Purge, Rejects, clients, Stored, At
  <2>5. \A k \in rows' \cup redis' \cup issued' \cup asked' : k \in Keys /\ Drawn(k)'
    BY <1>s, <2>1, <2>2, <2>3 DEF Stored, Drawn
  <2>6. rejected' \subseteq Keys
    BY <1>s, <2>2, <2>3 DEF Stored
  <2>7. Stored'
    BY <1>s, <2>1, <2>4, <2>5, <2>6 DEF Stored
  <2> QED
    BY <1>o, <2>1, <2>7, Finished DEF Typed
<1>11. ASSUME NEW r \in Replicas, Insert(r) PROVE Typed'
  <2>1. proc[r].ids \in SUBSET Keys /\ \A k \in proc[r].ids : Drawn(k)
    BY JobTyped
  <2>2. Stored' /\ UNCHANGED key /\ Goto(r, "add", proc[r].ids)
    BY <1>11, <1>s, <2>1 DEF Insert, Stored, Drawn, clients
  <2> QED
    BY <1>o, <1>steps, <2>1, <2>2, Gone DEF Typed, Drawn
<1>12. ASSUME NEW r \in Replicas, SweepOne(r) PROVE Typed'
  <2>1. PICK k \in proc[r].ids :
          /\ redis' = redis \ {k}
          /\ proc' = [proc EXCEPT ![r] =
               [step |-> IF proc[r].ids = {k} THEN "purge" ELSE "sweep",
                ids |-> proc[r].ids \ {k}, base |-> proc[r].base]]
    BY <1>12 DEF SweepOne
  <2> DEFINE next == IF proc[r].ids = {k} THEN "purge" ELSE "sweep"
             p == [step |-> next, ids |-> proc[r].ids \ {k}, base |-> proc[r].base]
  <2>2. proc \in [Replicas -> Jobs]
    BY DEF Typed, Working
  <2>3. proc' = [proc EXCEPT ![r] = p]
    BY <2>1
  <2>4. Stored' /\ UNCHANGED <<key, now>>
    BY <1>12, <1>s, <2>1 DEF SweepOne, Stored, Drawn, clients
  <2>5. p \in Jobs
    BY <1>steps, JobTyped DEF Jobs
  <2>6. JobNext(p)
    BY <2>4, JobTyped DEF JobNext, Drawn
  <2> QED
    BY <1>o, <2>3, <2>4, <2>5, <2>6, WorkingStep DEF Typed
<1>13. ASSUME NEW r \in Replicas, Fail(r) \/ Crash(r) PROVE Typed'
  <2>1. Stored'
    BY <1>13, <1>s, RegistryAssumption DEF Fail, Crash, Fault, Stored, Drawn, clients
  <2>2. PICK p \in {Idle, Down} : proc' = [proc EXCEPT ![r] = p]
    BY <1>13 DEF Fail, Crash
  <2> QED
    BY <1>o, <2>1, <2>2, IdleJob, WorkingStep DEF Typed
<1>14. CASE RedisLoss \/ Tick
  <2>1. ASSUME RedisLoss PROVE Stored'
    <3>1. faults' \in 0..MaxFaults
      BY <1>s, <2>1, RegistryAssumption DEF RedisLoss, Fault, Stored
    <3>2. redis' = {} /\ calm' \in BOOLEAN /\ UNCHANGED <<now, key, rows, issued, asked, dropped, rejected>>
      BY <2>1 DEF RedisLoss, clients
    <3> QED
      BY <1>s, <3>1, <3>2 DEF Stored, Drawn
  <2>2. ASSUME Tick PROVE Stored'
    BY <1>s, <2>2, RegistryAssumption DEF Tick, Stored, Drawn, clients
  <2>3. UNCHANGED proc
    BY <1>14 DEF RedisLoss, Tick
  <2>4. Stored'
    BY <1>14, <2>1, <2>2
  <2>5. Working'
    BY <1>o, <2>3, <2>4, WorkingStays
  <2> QED
    BY <2>4, <2>5 DEF Typed
<1> QED
  BY <1>1, <1>2, <1>3, <1>4, <1>5, <1>6, <1>7, <1>8, <1>9, <1>10, <1>11, <1>12, <1>13, <1>14
  DEF Next, Request, Continue

\* The registry stays well formed for every user, replica, bound and fault.
THEOREM TypeCorrect == Spec => []TypeOK
BY InitTyped, TypedStep, TypesFollow, PTL DEF Spec
-----------------------------------------------------------------------------
(* A key is refused for a reason.                                          *)

LEMMA TimesTyped == ASSUME Typed, NEW k \in Keys PROVE key[k].expires \in Nat
BY DEF Typed, Stored, NoKey

LEMMA ExpiredStays ==
  ASSUME Typed, Next, Typed', NEW k \in Keys, Drawn(k), Expired(k, now) PROVE Expired(k, now)'
<1>1. key'[k] = key[k] /\ now <= now'
  BY OnwardStep DEF Onward
<1>2. now \in Nat /\ now' \in Nat /\ key[k].expires \in Nat
  BY TimesTyped, RegistryAssumption DEF Typed, Stored
<1> QED
  BY <1>1, <1>2 DEF Expired

LEMMA AccountedStays ==
  ASSUME Typed, Next, Typed', NEW k \in Keys, Drawn(k), Accounted(k) PROVE Accounted(k)'
<1>1. CASE Expired(k, now)
  BY <1>1, ExpiredStays DEF Accounted
<1>2. CASE k \in asked
  BY <1>2, OnwardStep DEF Onward, Accounted
<1>3. CASE k \in rows
  <2>1. ASSUME NEW r \in Replicas, NEW u \in Users, NEW j \in Keys, Delete(r, u, j) PROVE Accounted(k)'
    BY <1>3, <2>1 DEF Delete, Accounted
  <2>2. ASSUME NEW r \in Replicas, Purge(r) PROVE Accounted(k)'
    <3>1. CASE k \in rows'
      BY <3>1 DEF Accounted
    <3>2. CASE k \notin rows'
      <4>1. key[k].expires < proc[r].base /\ proc[r].base <= now
        BY <1>3, <2>2, <3>2, JobTyped DEF Purge, Expired
      <4>2. Expired(k, now)
        BY <4>1, TimesTyped, JobTyped, RegistryAssumption DEF Expired, Typed, Stored
      <4> QED
        BY <4>2, ExpiredStays DEF Accounted
    <3> QED
      BY <3>1, <3>2
  <2>3. CASE rows \subseteq rows'
    BY <1>3, <2>3 DEF Accounted
  <2> QED
    BY <2>1, <2>2, <2>3
    DEF Next, Start, Request, Sweep, Continue, Fail, Crash, RedisLoss, Tick, Sync, Member,
        Row, Heal, Evict, Insert, Add, Remove, SweepOne, Present, Session, Create
<1> QED
  BY <1>1, <1>2, <1>3 DEF Accounted

\* What a replica's new record must satisfy for Kept to go on.
KeptJob(p) ==
  /\ p.step \in {"member", "row", "heal", "add"} => \A k \in p.ids : Accounted(k)'
  /\ p.step \in {"evict", "sweep"} => \A k \in p.ids : Expired(k, now)'

Refused == \A k \in rejected' : k \in asked' \/ (Drawn(k)' /\ Expired(k, now)')

LEMMA KeptOn ==
  ASSUME Typed, Next, Typed', Kept, Refused, \A k \in issued' : Accounted(k)',
         NEW r \in Replicas, NEW p, proc' = [proc EXCEPT ![r] = p], KeptJob(p)
  PROVE  Kept'
<1>1. proc \in [Replicas -> Jobs]
  BY DEF Typed, Working
<1>2. ASSUME NEW q \in Replicas PROVE KeptJob(proc'[q])
  <2>1. CASE q = r
    BY <1>1, <2>1
  <2>2. CASE q # r
    BY <1>1, <2>2, JobTyped, AccountedStays, ExpiredStays DEF KeptJob, Kept, Used, At
  <2> QED
    BY <2>1, <2>2
<1> QED
  BY <1>2 DEF Kept, KeptJob, Used, At, Refused

LEMMA RefusedStays ==
  ASSUME Typed, Next, Typed', Kept, rejected' = rejected PROVE Refused
<1>1. ASSUME NEW k \in rejected PROVE k \in asked' \/ (Drawn(k)' /\ Expired(k, now)')
  <2>1. k \in Keys
    BY DEF Typed, Stored
  <2>2. CASE k \in asked
    BY <2>2, OnwardStep DEF Onward
  <2>3. CASE Drawn(k) /\ Expired(k, now)
    BY <2>1, <2>3, ExpiredStays, DrawnStays, OnwardStep
  <2> QED
    BY <2>2, <2>3 DEF Kept
<1> QED
  BY <1>1 DEF Refused

LEMMA IssuedStays ==
  ASSUME Typed, Next, Typed', Kept, issued' = issued PROVE \A k \in issued' : Accounted(k)'
BY AccountedStays DEF Kept, Typed, Stored

LEMMA IdleKept == KeptJob(Idle) /\ KeptJob(Down)
BY DEF KeptJob, Idle, Down

\* An answer that refuses keys which were deleted or have expired.
LEMMA RejectsKept ==
  ASSUME Typed, Next, Typed', Kept, NEW r \in Replicas, Rejects(r),
         \A k \in proc[r].ids : k \in asked \/ Expired(k, now)
  PROVE  Kept'
<1>1. rejected' = rejected \cup proc[r].ids /\ issued' = issued /\ proc' = [proc EXCEPT ![r] = Idle]
  BY DEF Rejects, Finish
<1>2. ASSUME NEW k \in rejected' PROVE k \in asked' \/ (Drawn(k)' /\ Expired(k, now)')
  <2>1. k \in asked \/ (Drawn(k) /\ Expired(k, now))
    BY <1>1, <1>2, JobTyped DEF Kept
  <2>2. CASE k \in asked
    BY <2>2, OnwardStep DEF Onward
  <2>3. CASE Drawn(k) /\ Expired(k, now)
    <3>1. k \in Keys
      BY <1>1, <1>2, JobTyped DEF Typed, Stored
    <3> QED
      BY <2>3, <3>1, ExpiredStays, DrawnStays, OnwardStep
  <2> QED
    BY <2>1, <2>2, <2>3
<1>3. Refused
  BY <1>2 DEF Refused
<1> QED
  BY <1>1, <1>3, IssuedStays, IdleKept, KeptOn

LEMMA InitKept == Init => Kept
BY DEF Init, Kept, Used, At, Down

LEMMA KeptStep == Typed /\ Typed' /\ Kept /\ [Next]_vars => Kept'
<1> SUFFICES ASSUME Typed, Typed', Kept, [Next]_vars PROVE Kept'
  OBVIOUS
<1>0. CASE UNCHANGED vars
  BY <1>0 DEF vars, Kept, Accounted, Used, At, Expired, Drawn
<1> SUFFICES ASSUME Next PROVE Kept'
  BY <1>0
<1>r. \A k \in rows : k \in Keys /\ Drawn(k) /\ Accounted(k)
  BY DEF Typed, Stored, Accounted
<1>i. \A k \in issued : k \in Keys /\ Drawn(k) /\ Accounted(k)
  BY DEF Typed, Stored, Kept
\* Steps that leave a replica idle, and answer nobody that a key is refused.
<1>1. ASSUME NEW r \in Replicas, UNCHANGED <<rejected, issued>>,
             proc' = [proc EXCEPT ![r] = Idle] \/ proc' = [proc EXCEPT ![r] = Down]
      PROVE  Kept'
  BY <1>1, RefusedStays, IssuedStays, IdleKept, KeptOn
\* Steps that go on with a key that is accounted for.
<1>2. ASSUME NEW r \in Replicas, NEW step, NEW ids \in SUBSET Keys, UNCHANGED <<rejected, issued>>,
             Goto(r, step, ids), step \in {"sync", "member", "row", "heal", "add", "insert", "remove"},
             step \in {"member", "row", "heal", "add"} => \A k \in ids : Drawn(k) /\ Accounted(k)
      PROVE  Kept'
  <2>1. KeptJob([step |-> step, ids |-> ids, base |-> 0])
    BY <1>2, AccountedStays DEF KeptJob
  <2> QED
    BY <1>2, <2>1, RefusedStays, IssuedStays, KeptOn DEF Goto
<1>3. ASSUME NEW r \in Replicas, Start(r) PROVE Kept'
  BY <1>1, <1>2, <1>3, <1>r DEF Start, Finish, Active, clients
<1>4. ASSUME NEW r \in Replicas, NEW k \in Keys, Present(r, k) PROVE Kept'
  BY <1>2, <1>4, <1>i DEF Present, clients
<1>5. ASSUME NEW r \in Replicas, NEW u \in Users, Session(r, u) PROVE Kept'
  BY <1>2, <1>5, <1>r DEF Session, ActiveOf, Active, clients
<1>6. ASSUME NEW r \in Replicas, NEW u \in Users, NEW k \in Keys, NEW ttl \in TTLs, Create(r, u, k, ttl)
      PROVE  Kept'
  BY <1>2, <1>6 DEF Create, clients
<1>7. ASSUME NEW r \in Replicas, NEW u \in Users, NEW k \in Keys, Delete(r, u, k) PROVE Kept'
  BY <1>2, <1>7 DEF Delete
<1>8. ASSUME NEW r \in Replicas, Sweep(r) PROVE Kept'
  <2> DEFINE expired == {k \in rows : Expired(k, now)}
             p == [step |-> IF UseRedis /\ expired # {} THEN "sweep" ELSE "purge",
                   ids |-> expired, base |-> now]
  <2>1. proc' = [proc EXCEPT ![r] = p] /\ UNCHANGED <<rejected, issued>>
    BY <1>8 DEF Sweep, clients
  <2>2. KeptJob(p)
    BY <1>r, ExpiredStays DEF KeptJob
  <2> QED
    BY <2>1, <2>2, RefusedStays, IssuedStays, KeptOn
<1>9. ASSUME NEW r \in Replicas, Sync(r) \/ Heal(r) \/ Remove(r) \/ Purge(r) \/ Fail(r) \/ Crash(r)
      PROVE  Kept'
  BY <1>1, <1>9 DEF Sync, Heal, Remove, Purge, Fail, Crash, Finish, clients
<1>10. ASSUME NEW r \in Replicas, Member(r) PROVE Kept'
  <2>1. proc[r].ids \in SUBSET Keys /\ \A k \in proc[r].ids : Drawn(k) /\ Accounted(k)
    BY <1>10, JobTyped DEF Member, Kept, Used, At
  <2> QED
    BY <1>1, <1>2, <1>10, <2>1 DEF Member, Finish, clients
<1>11. ASSUME NEW r \in Replicas, Row(r) PROVE Kept'
  <2>1. proc[r].ids \in SUBSET Keys /\ \A k \in proc[r].ids : Drawn(k) /\ Accounted(k)
    BY <1>11, JobTyped DEF Row, Kept, Used, At
  <2>2. PICK k \in proc[r].ids :
          \/ k \notin rows /\ Rejects(r)
          \/ /\ k \in rows /\ Expired(k, now)
             /\ IF UseRedis THEN Goto(r, "evict", {k}) /\ UNCHANGED clients ELSE Rejects(r)
          \/ /\ k \in rows /\ ~Expired(k, now)
             /\ IF UseRedis THEN Goto(r, "heal", {k}) ELSE Finish(r)
             /\ UNCHANGED clients
    BY <1>11 DEF Row
  <2>3. proc[r].ids = {k}
    BY <1>11, JobTyped DEF Row, At
  <2>4. CASE Rejects(r) /\ (k \notin rows \/ Expired(k, now))
    BY <2>1, <2>3, <2>4, RejectsKept DEF Accounted
  <2>5. CASE Goto(r, "evict", {k}) /\ Expired(k, now) /\ UNCHANGED clients
    <3>1. KeptJob([step |-> "evict", ids |-> {k}, base |-> 0])
      BY <2>1, <2>5, ExpiredStays DEF KeptJob
    <3> QED
      BY <2>5, <3>1, RefusedStays, IssuedStays, KeptOn DEF Goto, clients
  <2>6. CASE Goto(r, "heal", {k}) /\ UNCHANGED clients
    BY <1>2, <2>1, <2>3, <2>6 DEF clients
  <2>7. CASE Finish(r) /\ UNCHANGED clients
    BY <1>1, <2>7 DEF Finish, clients
  <2> QED
    BY <2>2, <2>4, <2>5, <2>6, <2>7
<1>12. ASSUME NEW r \in Replicas, Evict(r) PROVE Kept'
  BY <1>12, RejectsKept DEF Evict, Kept, At
<1>13. ASSUME NEW r \in Replicas, Insert(r) PROVE Kept'
  <2>1. proc[r].ids \in SUBSET Keys /\ \A k \in proc[r].ids : Drawn(k)
    BY JobTyped
  <2>2. KeptJob([step |-> "add", ids |-> proc[r].ids, base |-> 0])
    BY <1>13 DEF Insert, KeptJob, Accounted
  <2> QED
    BY <1>13, <2>2, RefusedStays, IssuedStays, KeptOn DEF Insert, Goto, clients
<1>14. ASSUME NEW r \in Replicas, Add(r) PROVE Kept'
  <2>1. \A k \in proc[r].ids : k \in Keys /\ Drawn(k) /\ Accounted(k)
    BY <1>14, JobTyped DEF Add, Kept, Used, At
  <2>2. \A k \in issued' : Accounted(k)'
    BY <1>14, <1>i, <2>1, AccountedStays DEF Add
  <2> QED
    BY <1>14, <2>2, RefusedStays, IdleKept, KeptOn DEF Add, Finish
<1>15. ASSUME NEW r \in Replicas, SweepOne(r) PROVE Kept'
  <2>1. PICK k \in proc[r].ids : proc' = [proc EXCEPT ![r] =
               [step |-> IF proc[r].ids = {k} THEN "purge" ELSE "sweep",
                ids |-> proc[r].ids \ {k}, base |-> proc[r].base]]
    BY <1>15 DEF SweepOne
  <2>2. \A j \in proc[r].ids : Expired(j, now)'
    BY <1>15, JobTyped, ExpiredStays DEF SweepOne, Kept, At
  <2>3. KeptJob([step |-> IF proc[r].ids = {k} THEN "purge" ELSE "sweep",
                 ids |-> proc[r].ids \ {k}, base |-> proc[r].base])
    BY <2>2 DEF KeptJob
  <2>4. UNCHANGED <<rejected, issued>>
    BY <1>15 DEF SweepOne, clients
  <2> QED
    BY <2>1, <2>3, <2>4, RefusedStays, IssuedStays, KeptOn
<1>16. CASE RedisLoss \/ Tick
  <2>1. UNCHANGED <<rejected, issued, proc>>
    BY <1>16 DEF RedisLoss, Tick, clients
  <2>2. ASSUME NEW r \in Replicas PROVE KeptJob(proc[r])
    BY JobTyped, AccountedStays, ExpiredStays DEF KeptJob, Kept, Used, At
  <2>3. (\A k \in issued' : Accounted(k)') /\ Refused
    BY <2>1, RefusedStays, IssuedStays
  <2> QED
    BY <2>1, <2>2, <2>3 DEF Kept, KeptJob, Used, At, Refused
<1> QED
  BY <1>3, <1>4, <1>5, <1>6, <1>7, <1>8, <1>9, <1>10, <1>11, <1>12, <1>13, <1>14, <1>15, <1>16
  DEF Next, Request, Continue

\* A key is answered deactivated or expired only if its owner deleted it or its
\* time is over, however the replicas interleave and whatever Redis lost.
THEOREM RejectionsTrue == Spec => []RejectionTrue
<1>1. Kept => RejectionTrue
  BY DEF Kept, RejectionTrue
<1> QED
  BY <1>1, InitTyped, TypedStep, InitKept, KeptStep, PTL DEF Spec
-----------------------------------------------------------------------------
(* How one replica moves.                                                  *)

Held == rows \cup redis \cup issued \cup asked

Others(r) == \A q \in Replicas : q # r => proc'[q] = proc[q]

LEMMA FinishMoves ==
  ASSUME Typed, NEW r \in Replicas, Finish(r) PROVE Others(r) /\ proc'[r] = Idle
BY DEF Typed, Working, Finish, Others

LEMMA GotoMoves ==
  ASSUME Typed, NEW r \in Replicas, NEW step, NEW ids, Goto(r, step, ids)
  PROVE  Others(r) /\ proc'[r] = [step |-> step, ids |-> ids, base |-> 0]
BY DEF Typed, Working, Goto, Others

LEMMA HeldDrawn == ASSUME Typed, NEW k \in Held PROVE k \in Keys /\ Drawn(k)
BY DEF Typed, Stored, Held

\* A replica that neither creates nor inserts works on keys that it or the stores
\* knew, and tells nobody else of another.
Moves(r) ==
  /\ Others(r)
  /\ proc'[r].step # "insert"
  /\ proc'[r].ids \subseteq Held \cup proc[r].ids
  /\ Held' \subseteq Held \cup proc[r].ids

Busy(r) ==
  \/ Start(r) \/ (\E k \in Keys : Present(r, k)) \/ (\E u \in Users : Session(r, u))
  \/ (\E u \in Users, k \in Keys : Delete(r, u, k)) \/ Sweep(r)
  \/ Sync(r) \/ Member(r) \/ Row(r) \/ Heal(r) \/ Evict(r) \/ Add(r) \/ Remove(r)
  \/ SweepOne(r) \/ Purge(r) \/ Fail(r) \/ Crash(r)

LEMMA BusyMoves ==
  ASSUME Typed, NEW r \in Replicas, Busy(r) PROVE Moves(r) /\ rows' \subseteq rows /\ UNCHANGED key
<1> USE DEF Moves, Held
<1>1. ASSUME Start(r) PROVE Moves(r)
  <2>1. Finish(r) \/ Goto(r, "sync", Active)
    BY <1>1 DEF Start
  <2>2. Others(r) /\ (proc'[r] = Idle \/ proc'[r] = [step |-> "sync", ids |-> Active, base |-> 0])
    BY <2>1, FinishMoves, GotoMoves
  <2>3. UNCHANGED <<rows, redis, issued, asked>> /\ Active \subseteq rows
    BY <1>1 DEF Start, Active, clients
  <2> QED
    BY <2>2, <2>3 DEF Idle
<1>2. ASSUME NEW k \in Keys, Present(r, k) PROVE Moves(r)
  <2>1. Others(r) /\ proc'[r] = [step |-> "row", ids |-> {k}, base |-> 0]
    BY <1>2, GotoMoves DEF Present
  <2>2. UNCHANGED <<rows, redis, issued, asked>> /\ k \in issued
    BY <1>2 DEF Present, clients
  <2> QED
    BY <2>1, <2>2
<1>3. ASSUME NEW u \in Users, Session(r, u) PROVE Moves(r)
  <2>1. PICK k \in ActiveOf(u) : Goto(r, "member", {k})
    BY <1>3 DEF Session
  <2>2. Others(r) /\ proc'[r] = [step |-> "member", ids |-> {k}, base |-> 0]
    BY <2>1, GotoMoves
  <2>3. UNCHANGED <<rows, redis, issued, asked>> /\ k \in rows
    BY <1>3 DEF Session, ActiveOf, Active, clients
  <2> QED
    BY <2>2, <2>3
<1>4. ASSUME NEW u \in Users, NEW k \in Keys, Delete(r, u, k) PROVE Moves(r)
  <2>1. Others(r) /\ proc'[r] = [step |-> "remove", ids |-> {k}, base |-> 0]
    BY <1>4, GotoMoves DEF Delete
  <2>2. Held' \subseteq Held /\ k \in Held
    BY <1>4 DEF Delete, Deletes
  <2> QED
    BY <2>1, <2>2
<1>5. ASSUME Sweep(r) PROVE Moves(r)
  <2> DEFINE expired == {k \in rows : Expired(k, now)}
             next == IF UseRedis /\ expired # {} THEN "sweep" ELSE "purge"
  <2>1. proc' = [proc EXCEPT ![r] = [step |-> next, ids |-> expired, base |-> now]]
        /\ UNCHANGED <<rows, redis, issued, asked>>
    BY <1>5 DEF Sweep, clients
  <2>2. Others(r) /\ proc'[r] = [step |-> next, ids |-> expired, base |-> now]
    BY <2>1 DEF Typed, Working, Others
  <2> QED
    BY <2>1, <2>2
<1>6. ASSUME Member(r) PROVE Moves(r)
  <2>1. Finish(r) \/ Goto(r, "row", proc[r].ids)
    BY <1>6 DEF Member
  <2>2. Others(r) /\ (proc'[r] = Idle \/ proc'[r] = [step |-> "row", ids |-> proc[r].ids, base |-> 0])
    BY <2>1, FinishMoves, GotoMoves
  <2>3. UNCHANGED <<rows, redis, issued, asked>>
    BY <1>6 DEF Member, clients
  <2> QED
    BY <2>2, <2>3 DEF Idle
<1>7. ASSUME Row(r) PROVE Moves(r)
  <2>1. UNCHANGED <<rows, redis, issued, asked>>
    BY <1>7 DEF Row, Rejects, clients
  <2>2. PICK k \in proc[r].ids : Finish(r) \/ Goto(r, "evict", {k}) \/ Goto(r, "heal", {k})
    BY <1>7 DEF Row, Rejects
  <2>3. Others(r) /\ proc'[r] \in {Idle, [step |-> "evict", ids |-> {k}, base |-> 0],
                                  [step |-> "heal", ids |-> {k}, base |-> 0]}
    BY <2>2, FinishMoves, GotoMoves
  <2> QED
    BY <2>1, <2>3 DEF Idle
<1>8. ASSUME Sync(r) \/ Heal(r) \/ Evict(r) \/ Add(r) \/ Remove(r) \/ Purge(r) PROVE Moves(r)
  <2>1. Others(r) /\ proc'[r] = Idle
    BY <1>8, FinishMoves DEF Sync, Heal, Evict, Add, Remove, Purge, Rejects
  <2>2. Held' \subseteq Held \cup proc[r].ids
    BY <1>8 DEF Sync, Heal, Evict, Add, Remove, Purge, Rejects, clients
  <2> QED
    BY <2>1, <2>2 DEF Idle
<1>9. ASSUME SweepOne(r) PROVE Moves(r)
  <2>1. PICK k \in proc[r].ids :
          /\ redis' = redis \ {k}
          /\ proc' = [proc EXCEPT ![r] =
               [step |-> IF proc[r].ids = {k} THEN "purge" ELSE "sweep",
                ids |-> proc[r].ids \ {k}, base |-> proc[r].base]]
    BY <1>9 DEF SweepOne
  <2>2. Others(r) /\ proc'[r] = [step |-> IF proc[r].ids = {k} THEN "purge" ELSE "sweep",
                                 ids |-> proc[r].ids \ {k}, base |-> proc[r].base]
    BY <2>1 DEF Typed, Working, Others
  <2>3. UNCHANGED <<rows, issued, asked>>
    BY <1>9 DEF SweepOne, clients
  <2> QED
    BY <2>1, <2>2, <2>3
<1>10. ASSUME Fail(r) \/ Crash(r) PROVE Moves(r)
  <2>1. proc' = [proc EXCEPT ![r] = Down] \/ Finish(r)
    BY <1>10 DEF Fail, Crash, Finish
  <2>2. Others(r) /\ (proc'[r] = Down \/ proc'[r] = Idle)
    BY <2>1, FinishMoves DEF Typed, Working, Others
  <2>3. UNCHANGED <<rows, redis, issued, asked>>
    BY <1>10 DEF Fail, Crash, clients
  <2> QED
    BY <2>2, <2>3 DEF Idle, Down
<1>11. rows' \subseteq rows /\ UNCHANGED key
  BY DEF Busy, Start, Present, Session, Delete, Sweep, Sync, Member, Row, Heal, Evict, Add, Remove,
     SweepOne, Purge, Fail, Crash
<1> QED
  BY <1>1, <1>2, <1>3, <1>4, <1>5, <1>6, <1>7, <1>8, <1>9, <1>10, <1>11 DEF Busy

\* Every step is one of these.
LEMMA Cases ==
  Next => \/ \E r \in Replicas : Busy(r) \/ Insert(r)
          \/ \E r \in Replicas, u \in Users, k \in Keys, ttl \in TTLs : Create(r, u, k, ttl)
          \/ RedisLoss \/ Tick
BY DEF Next, Request, Continue, Busy
-----------------------------------------------------------------------------
(* How far the quota may be passed.                                        *)

LEMMA SizesTyped ==
  ASSUME Typed, NEW u
  PROVE  /\ IsFiniteSet(RowsOf(u)) /\ Cardinality(RowsOf(u)) \in Nat
         /\ IsFiniteSet(Pending(u)) /\ Cardinality(Pending(u)) \in Nat
         /\ Cardinality(Pending(u)) <= Cardinality(Replicas) /\ Cardinality(Replicas) \in Nat
<1>1. IsFiniteSet(Keys)
  BY RegistryAssumption, FS_Interval DEF Keys
<1>2. RowsOf(u) \in SUBSET Keys
  BY DEF RowsOf, Typed, Stored
<1>3. Pending(u) \in SUBSET Replicas /\ IsFiniteSet(Replicas)
  BY RegistryAssumption DEF Pending
<1>4. IsFiniteSet(RowsOf(u))
  BY <1>1, <1>2, FS_Subset
<1>5. IsFiniteSet(Pending(u)) /\ Cardinality(Pending(u)) <= Cardinality(Replicas)
  BY <1>3, FS_Subset
<1> QED
  BY <1>3, <1>4, <1>5, FS_CardinalityType

\* At first every replica could still create a key.
LEMMA InitCounted == Init => Counted
<1> SUFFICES ASSUME Init, NEW u \in Users PROVE Within(u)
  BY DEF Counted
<1>1. RowsOf(u) = {} /\ Pending(u) = {}
  BY DEF Init, RowsOf, Pending, At, Down
<1>2. Cardinality(RowsOf(u)) = 0 /\ Cardinality(Pending(u)) = 0
  BY <1>1, FS_EmptySet
<1>3. Cardinality(Replicas) \in Nat
  BY RegistryAssumption, FS_CardinalityType
<1> QED
  BY <1>2, <1>3, RegistryAssumption DEF Within

\* A user without new rows and without new creations stays within the bound.
LEMMA WithinStays ==
  ASSUME Typed, Typed', NEW u \in Users, Within(u),
         RowsOf(u)' \subseteq RowsOf(u), Pending(u)' \subseteq Pending(u)
  PROVE  Within(u)'
<1>1. Cardinality(RowsOf(u)') <= Cardinality(RowsOf(u))
  BY SizesTyped, FS_Subset
<1>2. Cardinality(Pending(u)') <= Cardinality(Pending(u))
  BY SizesTyped, FS_Subset
<1>3. IsFiniteSet(RowsOf(u)') /\ IsFiniteSet(Pending(u)')
  BY SizesTyped, FS_Subset
<1>4. Cardinality(RowsOf(u)') \in Nat /\ Cardinality(Pending(u)') \in Nat
  BY <1>3, FS_CardinalityType
<1> QED
  BY <1>1, <1>2, <1>4, SizesTyped, RegistryAssumption DEF Within

\* One more creation is pending only where another is not yet: it takes a replica.
LEMMA PendingGrows ==
  ASSUME Typed, NEW u \in Users, Within(u), Typed', UNCHANGED rows, RowsOf(u)' = RowsOf(u),
         Cardinality(RowsOf(u)) < Quota
  PROVE  Within(u)'
<1>1. Pending(u)' \in SUBSET Replicas /\ IsFiniteSet(Replicas)
  BY RegistryAssumption DEF Pending
<1>2. IsFiniteSet(Pending(u)') /\ Cardinality(Pending(u)') <= Cardinality(Replicas)
  BY <1>1, FS_Subset
<1>3. Cardinality(Pending(u)') \in Nat
  BY <1>2, FS_CardinalityType
<1> QED
  BY <1>2, <1>3, SizesTyped, RegistryAssumption DEF Within

LEMMA CountedStep == Typed /\ Typed' /\ Counted /\ [Next]_vars => Counted'
<1> SUFFICES ASSUME Typed, Typed', Counted, [Next]_vars, NEW u \in Users PROVE Within(u)'
  BY DEF Counted
<1>w. Within(u)
  BY DEF Counted
<1>0. CASE UNCHANGED <<rows, key, proc>>
  BY <1>0, <1>w DEF Within, RowsOf, Pending, At
<1>1. ASSUME NEW r \in Replicas, Busy(r) PROVE Within(u)'
  <2>1. Others(r) /\ proc'[r].step # "insert" /\ rows' \subseteq rows /\ UNCHANGED key
    BY <1>1, BusyMoves DEF Moves
  <2>2. RowsOf(u)' \subseteq RowsOf(u)
    BY <2>1 DEF RowsOf
  <2>3. Pending(u)' \subseteq Pending(u)
    BY <2>1 DEF Pending, At, Others
  <2> QED
    BY <1>w, <2>2, <2>3, WithinStays
<1>2. ASSUME NEW r \in Replicas, NEW v \in Users, NEW k \in Keys, NEW ttl \in TTLs, Create(r, v, k, ttl)
      PROVE  Within(u)'
  <2>1. k \notin rows /\ \A j \in Keys : j # k => key'[j] = key[j]
    BY <1>2 DEF Create, Typed, Stored
  <2>2. UNCHANGED rows /\ rows \subseteq Keys
    BY <1>2 DEF Create, Typed, Stored
  <2>3. RowsOf(u)' = RowsOf(u)
    BY <2>1, <2>2 DEF RowsOf
  <2>4. Others(r) /\ proc'[r] = [step |-> "insert", ids |-> {k}, base |-> 0]
    BY <1>2, GotoMoves DEF Create
  <2>5. CASE u = v
    <3>1. Cardinality(RowsOf(u)) < Quota
      BY <1>2, <2>5 DEF Create, UnderQuota
    <3> QED
      BY <1>w, <2>2, <2>3, <3>1, PendingGrows
  <2>6. CASE u # v
    <3>1. key'[k].user = v
      BY <1>2 DEF Create, Typed, Stored
    <3>2. ASSUME NEW q \in Pending(u)' PROVE q \in Pending(u)
      <4>1. q \in Replicas /\ proc'[q].step = "insert" /\ \E j \in proc'[q].ids : key'[j].user = u
        BY DEF Pending, At
      <4>2. PICK j \in proc'[q].ids : key'[j].user = u
        BY <4>1
      <4>3. q # r
        BY <2>4, <2>6, <3>1, <4>2
      <4>4. proc'[q] = proc[q]
        BY <2>4, <4>1, <4>3 DEF Others
      <4>5. j \in Keys /\ Drawn(j)
        BY <4>1, <4>2, <4>4, JobTyped
      <4>6. j # k
        BY <1>2, <4>5 DEF Create
      <4> QED
        BY <2>1, <4>1, <4>2, <4>4, <4>5, <4>6 DEF Pending, At
    <3>3. Pending(u)' \subseteq Pending(u)
      BY <3>2
    <3> QED
      BY <1>w, <2>3, <3>3, WithinStays
  <2> QED
    BY <2>5, <2>6
<1>3. ASSUME NEW r \in Replicas, Insert(r) PROVE Within(u)'
  <2>1. PICK k \in Keys : proc[r].ids = {k}
    BY <1>3, JobTyped DEF Insert, At
  <2>2. rows' = rows \cup {k} /\ key' = key /\ Others(r)
        /\ proc'[r] = [step |-> "add", ids |-> {k}, base |-> 0]
    BY <1>3, <2>1, GotoMoves DEF Insert
  <2>3. Pending(u)' \subseteq Pending(u) \ {r}
    BY <2>2 DEF Pending, At, Others
  <2>4. CASE key[k].user # u
    <3>1. RowsOf(u)' \subseteq RowsOf(u)
      BY <2>2, <2>4 DEF RowsOf
    <3> QED
      BY <1>w, <2>3, <3>1, WithinStays
  <2>5. CASE key[k].user = u
    <3>1. RowsOf(u)' = RowsOf(u) \cup {k}
      BY <2>2, <2>5 DEF RowsOf
    <3>2. IsFiniteSet(RowsOf(u)) /\ Cardinality(RowsOf(u)) \in Nat
      BY SizesTyped
    <3>3. IsFiniteSet(RowsOf(u)') /\ (Cardinality(RowsOf(u)') = Cardinality(RowsOf(u))
                                      \/ Cardinality(RowsOf(u)') = Cardinality(RowsOf(u)) + 1)
      BY <3>1, <3>2, FS_AddElement
    <3>4. r \in Pending(u)
      BY <1>3, <2>1, <2>5 DEF Insert, Pending
    <3>5. IsFiniteSet(Pending(u)) /\ Cardinality(Pending(u)) \in Nat
      BY SizesTyped
    <3>6. Cardinality(Pending(u) \ {r}) = Cardinality(Pending(u)) - 1 /\ IsFiniteSet(Pending(u) \ {r})
      BY <3>4, <3>5, FS_RemoveElement
    <3>7. Cardinality(Pending(u)') <= Cardinality(Pending(u)) - 1 /\ IsFiniteSet(Pending(u)')
      BY <2>3, <3>6, FS_Subset
    <3>8. Cardinality(Pending(u)') \in Nat
      BY <3>7, FS_CardinalityType
    <3> QED
      BY <1>w, <3>2, <3>3, <3>5, <3>7, <3>8, SizesTyped, RegistryAssumption DEF Within
  <2> QED
    BY <2>4, <2>5
<1> QED
  BY <1>0, <1>1, <1>2, <1>3, Cases DEF vars, RedisLoss, Tick

\* However many creations race, a user has at most one key above the quota for
\* every replica but one.
THEOREM QuotaHolds == Spec => []QuotaBounded
<1>1. Typed /\ Counted => QuotaBounded
  <2> SUFFICES ASSUME Typed, Counted, NEW u \in Users
               PROVE  Cardinality(RowsOf(u)) + 1 <= Quota + Cardinality(Replicas)
    BY DEF QuotaBounded
  <2>1. Within(u)
    BY DEF Counted
  <2> QED
    BY <2>1, SizesTyped, RegistryAssumption DEF Within
<1> QED
  BY <1>1, InitTyped, TypedStep, InitCounted, CountedStep, PTL DEF Spec
-----------------------------------------------------------------------------
(* When a deletion is settled.                                             *)

LEMMA InitSettled == Init => Settled
BY DEF Init, Settled, Ended, Fresh, Unused, Mirrored, At, Down

LEMMA FreshStep == ASSUME Typed, Fresh, Next PROVE Fresh'
<1>f. \A q \in Replicas : proc[q].step = "insert" =>
        /\ proc[q].ids \cap Held = {}
        /\ \A x \in Replicas : x # q => proc[q].ids \cap proc[x].ids = {}
  BY DEF Fresh, At, Held
<1>0. CASE UNCHANGED proc /\ Held' \subseteq Held
  BY <1>0, <1>f DEF Fresh, At, Held
<1>1. ASSUME NEW r \in Replicas, Moves(r) PROVE Fresh'
  <2>1. ASSUME NEW q \in Replicas, proc'[q].step = "insert"
        PROVE  /\ proc'[q].ids \cap Held' = {}
               /\ \A x \in Replicas : x # q => proc'[q].ids \cap proc'[x].ids = {}
    <3>1. q # r /\ proc'[q] = proc[q]
      BY <1>1, <2>1 DEF Moves, Others
    <3>2. proc[q].ids \cap Held = {} /\ \A x \in Replicas : x # q => proc[q].ids \cap proc[x].ids = {}
      BY <1>f, <2>1, <3>1
    <3>3. proc[q].ids \cap Held' = {} /\ proc[q].ids \cap proc'[r].ids = {}
      BY <1>1, <3>1, <3>2 DEF Moves
    <3> QED
      BY <1>1, <3>1, <3>2, <3>3 DEF Moves, Others
  <2> QED
    BY <2>1 DEF Fresh, At, Held
<1>2. ASSUME NEW r \in Replicas, Insert(r) PROVE Fresh'
  <2>1. Others(r) /\ proc'[r] = [step |-> "add", ids |-> proc[r].ids, base |-> 0]
        /\ Held' \subseteq Held \cup proc[r].ids
    BY <1>2, GotoMoves DEF Insert, Held, clients
  <2> QED
    BY <1>1, <2>1 DEF Moves
<1>3. ASSUME NEW r \in Replicas, NEW v \in Users, NEW k \in Keys, NEW ttl \in TTLs, Create(r, v, k, ttl)
      PROVE  Fresh'
  <2>1. Held' = Held /\ ~Drawn(k)
    BY <1>3 DEF Create, clients, Held
  <2>2. k \notin Held /\ \A q \in Replicas : k \notin proc[q].ids
    BY <2>1, HeldDrawn, JobTyped
  <2>3. Others(r) /\ proc'[r] = [step |-> "insert", ids |-> {k}, base |-> 0]
    BY <1>3, GotoMoves DEF Create
  <2>4. ASSUME NEW q \in Replicas, proc'[q].step = "insert"
        PROVE  /\ proc'[q].ids \cap Held' = {}
               /\ \A x \in Replicas : x # q => proc'[q].ids \cap proc'[x].ids = {}
    <3>1. CASE q = r
      BY <2>1, <2>2, <2>3, <3>1 DEF Others
    <3>2. CASE q # r
      BY <1>f, <2>1, <2>2, <2>3, <2>4, <3>2 DEF Others
    <3> QED
      BY <3>1, <3>2
  <2> QED
    BY <2>4 DEF Fresh, At, Held
<1> QED
  BY <1>0, <1>1, <1>2, <1>3, Cases, BusyMoves DEF RedisLoss, Tick, Held, clients

LEMMA EndedStep == ASSUME Typed, Fresh, Ended, Next PROVE Ended'
<1>1. ASSUME NEW r \in Replicas, Insert(r) PROVE Ended'
  BY <1>1 DEF Insert, Fresh, Ended, clients
<1>2. ASSUME NEW r \in Replicas, NEW u \in Users, NEW k \in Keys, Delete(r, u, k) PROVE Ended'
  BY <1>2 DEF Delete, Ended
<1>3. ASSUME rows' \subseteq rows, UNCHANGED asked PROVE Ended'
  BY <1>3 DEF Ended
<1>4. ASSUME NEW r \in Replicas, Row(r) PROVE Ended'
  BY <1>3, <1>4 DEF Row, Rejects, clients
<1>5. ASSUME NEW r \in Replicas, Sweep(r) \/ Purge(r) PROVE Ended'
  BY <1>3, <1>5 DEF Sweep, Purge, clients
<1>6. CASE RedisLoss \/ Tick
  BY <1>3, <1>6 DEF RedisLoss, Tick, clients
<1>7. ASSUME NEW r \in Replicas,
             Start(r) \/ (\E k \in Keys : Present(r, k)) \/ (\E u \in Users : Session(r, u))
             \/ (\E u \in Users, k \in Keys, ttl \in TTLs : Create(r, u, k, ttl))
      PROVE  Ended'
  BY <1>3, <1>7 DEF Start, Present, Session, Create, clients
<1>8. ASSUME NEW r \in Replicas,
             Sync(r) \/ Member(r) \/ Heal(r) \/ Evict(r) \/ Add(r) \/ Remove(r) \/ SweepOne(r)
             \/ Fail(r) \/ Crash(r)
      PROVE  Ended'
  BY <1>3, <1>8 DEF Sync, Member, Heal, Evict, Add, Remove, SweepOne, Fail, Crash, Rejects, clients
<1> QED
  BY <1>1, <1>2, <1>4, <1>5, <1>6, <1>7, <1>8 DEF Next, Request, Continue

LEMMA UnusedStep == ASSUME Typed, Unused, Next PROVE Unused'
<1> USE DEF Unused, At
<1>0. CASE UseRedis
  BY <1>0
<1> SUFFICES ASSUME ~UseRedis PROVE redis' = {} /\ \A r \in Replicas : proc'[r].step \notin {"heal", "sync"}
  BY <1>0
<1>1. ASSUME redis' \subseteq redis, NEW r \in Replicas, Others(r), proc'[r].step \notin {"heal", "sync"}
      PROVE  redis' = {} /\ \A q \in Replicas : proc'[q].step \notin {"heal", "sync"}
  BY <1>1 DEF Others
<1>2. ASSUME NEW r \in Replicas, Start(r) PROVE redis' \subseteq redis /\ Finish(r)
  BY <1>2 DEF Start
<1>3. ASSUME NEW r \in Replicas, NEW k \in Keys, Present(r, k) PROVE redis' \subseteq redis /\ Goto(r, "row", {k})
  BY <1>3 DEF Present
<1>4. ASSUME NEW r \in Replicas, NEW u \in Users, Session(r, u)
      PROVE  redis' \subseteq redis /\ \E k \in Keys : Goto(r, "member", {k})
  BY <1>4 DEF Session, ActiveOf, Active, Typed, Stored
<1>5. ASSUME NEW r \in Replicas, NEW u \in Users, NEW k \in Keys, Delete(r, u, k)
      PROVE  redis' \subseteq redis /\ Goto(r, "remove", {k})
  BY <1>5 DEF Delete
<1>6. ASSUME NEW r \in Replicas, NEW u \in Users, NEW k \in Keys, NEW ttl \in TTLs, Create(r, u, k, ttl)
      PROVE  redis' \subseteq redis /\ Goto(r, "insert", {k})
  BY <1>6 DEF Create
<1>7. ASSUME NEW r \in Replicas, Sweep(r) \/ SweepOne(r)
      PROVE  redis' \subseteq redis /\ Others(r) /\ proc'[r].step \in {"sweep", "purge"}
  <2> DEFINE expired == {k \in rows : Expired(k, now)}
             next == IF UseRedis /\ expired # {} THEN "sweep" ELSE "purge"
  <2>1. proc \in [Replicas -> Jobs]
    BY DEF Typed, Working
  <2>2. ASSUME Sweep(r) PROVE redis' = redis /\ proc' = [proc EXCEPT ![r] = [step |-> next, ids |-> expired, base |-> now]]
    BY <2>2 DEF Sweep
  <2>4. CASE Sweep(r)
    BY <2>1, <2>2, <2>4 DEF Others
  <2>5. CASE SweepOne(r)
    <3>1. PICK k \in proc[r].ids :
            /\ redis' = redis \ {k}
            /\ proc' = [proc EXCEPT ![r] =
                 [step |-> IF proc[r].ids = {k} THEN "purge" ELSE "sweep",
                  ids |-> proc[r].ids \ {k}, base |-> proc[r].base]]
      BY <2>5 DEF SweepOne
    <3> QED
      BY <2>1, <3>1 DEF Others
  <2> QED
    BY <1>7, <2>4, <2>5
<1>8. ASSUME NEW r \in Replicas, Member(r)
      PROVE  redis' \subseteq redis /\ (Finish(r) \/ Goto(r, "row", proc[r].ids))
  BY <1>8 DEF Member
<1>9. ASSUME NEW r \in Replicas, Row(r) PROVE redis' \subseteq redis /\ Finish(r)
  BY <1>9 DEF Row, Rejects
<1>10. ASSUME NEW r \in Replicas, Insert(r)
       PROVE  redis' \subseteq redis /\ Goto(r, "add", proc[r].ids)
  BY <1>10 DEF Insert
<1>11. ASSUME NEW r \in Replicas,
              Sync(r) \/ Heal(r) \/ Evict(r) \/ Add(r) \/ Remove(r) \/ Purge(r)
       PROVE  redis' \subseteq redis /\ Finish(r)
  BY <1>11 DEF Sync, Heal, Evict, Add, Remove, Purge, Rejects
<1>12. ASSUME NEW r \in Replicas, Fail(r) \/ Crash(r)
       PROVE  redis' \subseteq redis /\ Others(r) /\ proc'[r].step \in {"idle", "down"}
  BY <1>12 DEF Fail, Crash, Typed, Working, Others, Idle, Down
<1>13. CASE RedisLoss \/ Tick
  BY <1>13 DEF RedisLoss, Tick
<1>14. ASSUME NEW r \in Replicas, redis' \subseteq redis, NEW step \in {"row", "member", "remove", "insert", "add"},
              NEW ids, Finish(r) \/ Goto(r, step, ids)
       PROVE  redis' = {} /\ \A q \in Replicas : proc'[q].step \notin {"heal", "sync"}
  <2>1. Others(r) /\ proc'[r].step \notin {"heal", "sync"}
    <3>1. CASE Finish(r)
      BY <3>1, FinishMoves DEF Idle
    <3>2. CASE Goto(r, step, ids)
      <4>1. Others(r) /\ proc'[r] = [step |-> step, ids |-> ids, base |-> 0]
        BY <3>2, GotoMoves
      <4> QED
        BY <1>14, <4>1
    <3> QED
      BY <1>14, <3>1, <3>2
  <2> QED
    BY <1>1, <1>14, <2>1
<1> QED
  BY <1>1, <1>2, <1>3, <1>4, <1>5, <1>6, <1>7, <1>8, <1>9, <1>10, <1>11, <1>12, <1>13, <1>14
  DEF Next, Request, Continue

\* The parts of Mirrored: the set, one replica's record, the answered deletions.
Listed(k) == UseRedis => k \in redis \/ Expired(k, now)

Quiet(p) ==
  /\ p.step # "sync" /\ (p.step = "heal" => ~UseRedis)
  /\ p.step = "member" => p.ids \subseteq issued
  /\ p.step = "row" /\ UseRedis => p.ids \subseteq issued /\ \A k \in p.ids : k \notin rows \/ Expired(k, now)
  /\ p.step = "add" => p.ids \cap asked = {}

LEMMA MirroredParts ==
  Mirrored <=> /\ \A k \in issued \cap rows : Listed(k)
               /\ \A r \in Replicas : Quiet(proc[r])
               /\ dropped \cap redis = {}
BY DEF Mirrored, Listed, Quiet, At

\* Quiet after the step.
QuietNext(p) ==
  /\ p.step # "sync" /\ (p.step = "heal" => ~UseRedis)
  /\ p.step = "member" => p.ids \subseteq issued'
  /\ p.step = "row" /\ UseRedis =>
       p.ids \subseteq issued' /\ \A k \in p.ids : k \notin rows' \/ Expired(k, now)'
  /\ p.step = "add" => p.ids \cap asked' = {}

LEMMA QuietStays ==
  ASSUME Typed, Next, Typed', NEW q \in Replicas, Quiet(proc[q]), issued \subseteq issued',
         \A k \in proc[q].ids : k \in rows' => k \in rows,
         proc[q].step = "add" => proc[q].ids \cap asked' \subseteq asked
  PROVE  QuietNext(proc[q])
<1>1. \A k \in proc[q].ids : k \in Keys /\ Drawn(k)
  BY JobTyped
<1>2. \A k \in proc[q].ids : Expired(k, now) => Expired(k, now)'
  BY <1>1, ExpiredStays
<1> QED
  BY <1>2 DEF Quiet, QuietNext

\* The common step: nobody learns of a key, no row is added, and what leaves the
\* set is not needed there.
LEMMA MirroredOn ==
  ASSUME Typed, Next, Typed', Mirrored, NEW r \in Replicas, Others(r), QuietNext(proc'[r]),
         UNCHANGED <<issued, asked>>, rows' \subseteq rows, redis' \subseteq redis,
         \A k \in redis \ redis' : k \notin rows' \/ Expired(k, now),
         dropped' \cap redis' = {}
  PROVE  Mirrored'
<1>1. ASSUME NEW k \in issued' \cap rows' PROVE Listed(k)'
  <2>1. k \in issued \cap rows /\ k \in Keys /\ Drawn(k)
    BY DEF Typed, Stored
  <2>2. Expired(k, now) => Expired(k, now)'
    BY <2>1, ExpiredStays
  <2>3. Listed(k)
    BY <2>1, MirroredParts
  <2> QED
    BY <2>2, <2>3 DEF Listed
<1>2. ASSUME NEW q \in Replicas PROVE QuietNext(proc'[q])
  <2>1. CASE q = r
    BY <2>1
  <2>2. CASE q # r
    <3>1. Quiet(proc[q])
      BY MirroredParts
    <3>2. QuietNext(proc[q])
      BY <3>1, QuietStays
    <3> QED
      BY <2>2, <3>2 DEF Others
  <2> QED
    BY <2>1, <2>2
<1> QED
  BY <1>1, <1>2 DEF Mirrored, Listed, QuietNext, At

LEMMA MirroredStep ==
  ASSUME Typed, Next, Typed', Kept, Ended, Fresh, Unused, calm => Mirrored, calm'
  PROVE  Mirrored'
<1>c. calm
  BY DEF Next, Start, Request, Sweep, Continue, Fail, Crash, RedisLoss, Tick, Sync, Member, Row, Heal, Evict,
     Insert, Add, Remove, SweepOne, Purge, Present, Session, Create, Delete, Typed, Stored
<1>m. /\ \A k \in issued \cap rows : Listed(k)
      /\ \A r \in Replicas : Quiet(proc[r])
      /\ dropped \cap redis = {}
  BY <1>c, MirroredParts
<1>idle. QuietNext(Idle) /\ QuietNext(Down)
  BY DEF QuietNext, Idle, Down
<1>1. ASSUME NEW r \in Replicas, Start(r) PROVE Mirrored'
  <2>1. Finish(r) /\ UNCHANGED <<issued, asked, rows, redis, dropped>>
    BY <1>1 DEF Start, clients
  <2> QED
    BY <1>c, <1>m, <1>idle, <2>1, FinishMoves, MirroredOn
<1>2. ASSUME NEW r \in Replicas, NEW ids \in SUBSET Keys, Goto(r, "row", ids), ~Known(ids), ids \subseteq issued,
             \E k \in Keys : ids = {k}, UNCHANGED <<issued, asked, rows, redis, dropped>>
      PROVE  Mirrored'
  <2>1. PICK k \in Keys : ids = {k}
    BY <1>2
  <2>2. UseRedis => k \notin rows \/ Expired(k, now)
    BY <1>2, <1>m, <2>1 DEF Known, Listed
  <2>3. Drawn(k)
    BY <1>2, <2>1 DEF Typed, Stored
  <2>4. UseRedis => k \notin rows' \/ Expired(k, now)'
    BY <1>2, <2>2, <2>3, ExpiredStays
  <2>5. Others(r) /\ proc'[r] = [step |-> "row", ids |-> ids, base |-> 0]
    BY <1>2, GotoMoves
  <2>6. QuietNext(proc'[r])
    BY <1>2, <2>1, <2>4, <2>5 DEF QuietNext
  <2> QED
    BY <1>c, <1>m, <1>2, <2>5, <2>6, MirroredOn
<1>3. ASSUME NEW r \in Replicas, NEW k \in Keys, Present(r, k) PROVE Mirrored'
  BY <1>2, <1>3 DEF Present, clients
<1>4. ASSUME NEW r \in Replicas, NEW u \in Users, Session(r, u) PROVE Mirrored'
  <2>1. PICK k \in ActiveOf(u) : Goto(r, "member", {k}) /\ calm' = (calm /\ k \in issued)
    BY <1>4 DEF Session
  <2>2. Others(r) /\ proc'[r] = [step |-> "member", ids |-> {k}, base |-> 0]
    BY <2>1, GotoMoves
  <2>3. k \in issued /\ UNCHANGED <<issued, asked, rows, redis, dropped>>
    BY <1>4, <1>c, <2>1 DEF Session, clients, Typed, Stored
  <2>4. QuietNext(proc'[r])
    BY <2>2, <2>3 DEF QuietNext
  <2> QED
    BY <1>c, <1>m, <2>2, <2>3, <2>4, MirroredOn
<1>5. ASSUME NEW r \in Replicas, Member(r) PROVE Mirrored'
  <2>1. UNCHANGED <<issued, asked, rows, redis, dropped>> /\ proc[r].step = "member"
    BY <1>5 DEF Member, clients, At
  <2>2. proc[r].ids \in SUBSET Keys /\ (\E k \in Keys : proc[r].ids = {k}) /\ proc[r].ids \subseteq issued
    BY <1>m, <2>1, JobTyped DEF Quiet
  <2>3. CASE Finish(r)
    BY <1>c, <1>m, <1>idle, <2>1, <2>3, FinishMoves, MirroredOn
  <2>4. CASE ~Known(proc[r].ids) /\ Goto(r, "row", proc[r].ids)
    BY <1>2, <2>1, <2>2, <2>4
  <2> QED
    BY <1>5, <2>3, <2>4 DEF Member
<1>6. ASSUME NEW r \in Replicas, Row(r) PROVE Mirrored'
  <2>1. UNCHANGED <<issued, asked, rows, redis, dropped>> /\ proc[r].step = "row"
    BY <1>6 DEF Row, Rejects, clients, At
  <2>2. CASE Finish(r)
    BY <1>c, <1>m, <1>idle, <2>1, <2>2, FinishMoves, MirroredOn
  <2>3. ASSUME NEW k \in proc[r].ids, Goto(r, "evict", {k}) PROVE Mirrored'
    <3>1. Others(r) /\ proc'[r] = [step |-> "evict", ids |-> {k}, base |-> 0]
      BY <2>3, GotoMoves
    <3>2. QuietNext(proc'[r])
      BY <3>1 DEF QuietNext
    <3> QED
      BY <1>c, <1>m, <2>1, <3>1, <3>2, MirroredOn
  <2>4. \A k \in proc[r].ids : UseRedis => k \notin rows \/ Expired(k, now)
    BY <1>m, <2>1 DEF Quiet
  <2> QED
    BY <1>6, <2>2, <2>3, <2>4 DEF Row, Rejects
<1>7. ASSUME NEW r \in Replicas, Sync(r) \/ Heal(r) PROVE FALSE
  BY <1>7, <1>m DEF Sync, Heal, Quiet, Unused, At
<1>8. ASSUME NEW r \in Replicas, Evict(r) PROVE Mirrored'
  <2>1. UNCHANGED <<issued, asked, rows, dropped>> /\ redis' = redis \ proc[r].ids /\ Finish(r)
    BY <1>8 DEF Evict, Rejects
  <2>2. \A k \in proc[r].ids : Expired(k, now)
    BY <1>8 DEF Evict, Kept
  <2> QED
    BY <1>c, <1>m, <1>idle, <2>1, <2>2, FinishMoves, MirroredOn
<1>9. ASSUME NEW r \in Replicas, NEW u \in Users, NEW k \in Keys, NEW ttl \in TTLs, Create(r, u, k, ttl)
      PROVE  Mirrored'
  <2>1. Others(r) /\ proc'[r] = [step |-> "insert", ids |-> {k}, base |-> 0]
    BY <1>9, GotoMoves DEF Create
  <2>2. UNCHANGED <<issued, asked, rows, redis, dropped>>
    BY <1>9 DEF Create, clients
  <2>3. QuietNext(proc'[r])
    BY <2>1 DEF QuietNext
  <2> QED
    BY <1>c, <1>m, <2>1, <2>2, <2>3, MirroredOn
<1>10. ASSUME NEW r \in Replicas, Sweep(r) PROVE Mirrored'
  <2> DEFINE expired == {k \in rows : Expired(k, now)}
             next == IF UseRedis /\ expired # {} THEN "sweep" ELSE "purge"
  <2>1. proc' = [proc EXCEPT ![r] = [step |-> next, ids |-> expired, base |-> now]]
    BY <1>10 DEF Sweep
  <2>2. Others(r) /\ proc'[r] = [step |-> next, ids |-> expired, base |-> now]
    BY <2>1 DEF Typed, Working, Others
  <2>3. UNCHANGED <<issued, asked, rows, redis, dropped>>
    BY <1>10 DEF Sweep, clients
  <2>4. QuietNext(proc'[r])
    BY <2>2 DEF QuietNext
  <2> QED
    BY <1>c, <1>m, <2>2, <2>3, <2>4, MirroredOn
<1>11. ASSUME NEW r \in Replicas, SweepOne(r) PROVE Mirrored'
  <2>1. PICK k \in proc[r].ids :
          /\ redis' = redis \ {k}
          /\ proc' = [proc EXCEPT ![r] =
               [step |-> IF proc[r].ids = {k} THEN "purge" ELSE "sweep",
                ids |-> proc[r].ids \ {k}, base |-> proc[r].base]]
    BY <1>11 DEF SweepOne
  <2>2. Others(r) /\ proc'[r].step \in {"purge", "sweep"}
    BY <2>1 DEF Typed, Working, Others
  <2>3. UNCHANGED <<issued, asked, rows, dropped>> /\ Expired(k, now)
    BY <1>11 DEF SweepOne, clients, Kept
  <2>4. QuietNext(proc'[r])
    BY <2>2 DEF QuietNext
  <2> QED
    BY <1>c, <1>m, <2>1, <2>2, <2>3, <2>4, MirroredOn
<1>12. ASSUME NEW r \in Replicas, Purge(r) PROVE Mirrored'
  <2>1. UNCHANGED <<issued, asked, redis, dropped>> /\ rows' \subseteq rows /\ Finish(r)
    BY <1>12 DEF Purge, clients
  <2> QED
    BY <1>c, <1>m, <1>idle, <2>1, FinishMoves, MirroredOn
<1>13. ASSUME NEW r \in Replicas, Fail(r) \/ Crash(r) PROVE Mirrored'
  <2>1. Others(r) /\ proc'[r] \in {Idle, Down} /\ UNCHANGED <<issued, asked, rows, redis, dropped>>
    BY <1>13 DEF Fail, Crash, clients, Typed, Working, Others
  <2> QED
    BY <1>c, <1>m, <1>idle, <2>1, MirroredOn
<1>14. ASSUME NEW r \in Replicas, Remove(r) PROVE Mirrored'
  <2>1. UNCHANGED <<issued, asked, rows>> /\ Finish(r) /\ dropped' = dropped \cup proc[r].ids
        /\ redis' = IF UseRedis THEN redis \ proc[r].ids ELSE redis
    BY <1>14 DEF Remove
  <2>2. proc[r].ids \subseteq asked
    BY <1>14, JobTyped DEF Remove, At
  <2>3. dropped' \cap redis' = {} /\ redis' \subseteq redis /\ \A k \in redis \ redis' : k \notin rows'
    BY <1>m, <2>1, <2>2 DEF Ended, Unused
  <2> QED
    BY <1>c, <1>idle, <2>1, <2>3, FinishMoves, MirroredOn
<1>15. ASSUME NEW r \in Replicas, Insert(r) PROVE Mirrored'
  <2>1. Others(r) /\ proc'[r] = [step |-> "add", ids |-> proc[r].ids, base |-> 0]
    BY <1>15, GotoMoves DEF Insert
  <2>2. UNCHANGED <<issued, asked, redis, dropped>> /\ rows' = rows \cup proc[r].ids
    BY <1>15 DEF Insert, clients
  <2>3. /\ proc[r].ids \cap (issued \cup asked) = {}
        /\ \A q \in Replicas : q # r => proc[r].ids \cap proc[q].ids = {}
    BY <1>15 DEF Insert, Fresh
  <2>4. ASSUME NEW q \in Replicas PROVE QuietNext(proc'[q])
    <3>1. CASE q = r
      BY <2>1, <2>2, <2>3, <3>1 DEF QuietNext
    <3>2. CASE q # r
      <4>1. QuietNext(proc[q])
        BY <1>m, <2>2, <2>3, <3>2, QuietStays
      <4> QED
        BY <2>1, <3>2, <4>1 DEF Others
    <3> QED
      BY <3>1, <3>2
  <2>5. ASSUME NEW k \in issued' \cap rows' PROVE Listed(k)'
    <3>1. k \in issued \cap rows /\ k \in Keys /\ Drawn(k)
      BY <2>2, <2>3 DEF Typed, Stored
    <3> QED
      BY <1>m, <2>2, <3>1, ExpiredStays DEF Listed
  <2> QED
    BY <1>m, <2>2, <2>4, <2>5 DEF Mirrored, Listed, QuietNext, At
<1>16. ASSUME NEW r \in Replicas, Add(r) PROVE Mirrored'
  <2>1. Others(r) /\ proc'[r] = Idle
    BY <1>16, FinishMoves DEF Add
  <2>2. UNCHANGED <<asked, rows, dropped>> /\ issued' = issued \cup proc[r].ids
        /\ redis' = IF UseRedis THEN redis \cup proc[r].ids ELSE redis
    BY <1>16 DEF Add
  <2>3. proc[r].ids \cap asked = {}
    BY <1>16, <1>m DEF Add, Quiet, At
  <2>4. ASSUME NEW q \in Replicas PROVE QuietNext(proc'[q])
    <3>1. CASE q = r
      BY <1>idle, <2>1, <3>1
    <3>2. CASE q # r
      <4>1. QuietNext(proc[q])
        BY <1>m, <2>2, QuietStays
      <4> QED
        BY <2>1, <3>2, <4>1 DEF Others
    <3> QED
      BY <3>1, <3>2
  <2>5. ASSUME NEW k \in issued' \cap rows' PROVE Listed(k)'
    <3>1. CASE k \in proc[r].ids
      BY <2>2, <3>1 DEF Listed
    <3>2. CASE k \in issued
      <4>1. k \in Keys /\ Drawn(k) /\ k \in rows
        BY <2>2, <3>2 DEF Typed, Stored
      <4> QED
        BY <1>m, <2>2, <3>2, <4>1, ExpiredStays DEF Listed
    <3> QED
      BY <2>2, <3>1, <3>2
  <2>6. dropped' \cap redis' = {}
    BY <1>m, <2>2, <2>3 DEF Typed, Stored
  <2> QED
    BY <2>4, <2>5, <2>6 DEF Mirrored, Listed, QuietNext, At
<1>17. ASSUME NEW r \in Replicas, NEW u \in Users, NEW k \in Keys, Delete(r, u, k) PROVE Mirrored'
  <2>1. Others(r) /\ proc'[r] = [step |-> "remove", ids |-> {k}, base |-> 0]
    BY <1>17, GotoMoves DEF Delete
  <2>2. UNCHANGED <<issued, redis, dropped>> /\ rows' \subseteq rows /\ asked' = asked \cup {k}
    BY <1>17 DEF Delete
  <2>3. \A q \in Replicas : proc[q].step = "add" => k \notin proc[q].ids
    BY <1>17, <1>c DEF Delete, At
  <2>4. ASSUME NEW q \in Replicas PROVE QuietNext(proc'[q])
    <3>1. CASE q = r
      BY <2>1, <3>1 DEF QuietNext
    <3>2. CASE q # r
      <4>1. QuietNext(proc[q])
        BY <1>m, <2>2, <2>3, QuietStays
      <4> QED
        BY <2>1, <3>2, <4>1 DEF Others
    <3> QED
      BY <3>1, <3>2
  <2>5. ASSUME NEW j \in issued' \cap rows' PROVE Listed(j)'
    <3>1. j \in issued \cap rows /\ j \in Keys /\ Drawn(j)
      BY <2>2 DEF Typed, Stored
    <3> QED
      BY <1>m, <2>2, <3>1, ExpiredStays DEF Listed
  <2> QED
    BY <1>m, <2>2, <2>4, <2>5 DEF Mirrored, Listed, QuietNext, At
<1>18. CASE Tick
  <2>1. UNCHANGED <<issued, asked, rows, redis, dropped, proc>>
    BY <1>18 DEF Tick, clients
  <2>2. ASSUME NEW q \in Replicas PROVE QuietNext(proc'[q])
    <3>1. QuietNext(proc[q])
      BY <1>m, <2>1, QuietStays
    <3> QED
      BY <2>1, <3>1
  <2>3. ASSUME NEW k \in issued' \cap rows' PROVE Listed(k)'
    <3>1. k \in issued \cap rows /\ k \in Keys /\ Drawn(k)
      BY <2>1 DEF Typed, Stored
    <3> QED
      BY <1>m, <2>1, <3>1, ExpiredStays DEF Listed
  <2> QED
    BY <1>m, <2>1, <2>2, <2>3 DEF Mirrored, Listed, QuietNext, At
<1>19. ~RedisLoss
  BY DEF RedisLoss
<1> QED
  BY <1>1, <1>3, <1>4, <1>5, <1>6, <1>7, <1>8, <1>9, <1>10, <1>11, <1>12, <1>13, <1>14, <1>15, <1>16,
     <1>17, <1>18, <1>19
  DEF Next, Request, Continue

LEMMA SettledStep == Typed /\ Typed' /\ Kept /\ Settled /\ [Next]_vars => Settled'
<1> SUFFICES ASSUME Typed, Typed', Kept, Settled, [Next]_vars PROVE Settled'
  OBVIOUS
<1>0. CASE UNCHANGED vars
  BY <1>0 DEF vars, clients, Settled, Ended, Fresh, Unused, Mirrored, At, Expired
<1>1. CASE Next
  BY <1>1, FreshStep, EndedStep, UnusedStep, MirroredStep DEF Settled
<1> QED
  BY <1>0, <1>1

\* A deletion that was answered is settled: the key is in neither store, and no
\* validation, creation or cleaning brings it back, under the conditions that
\* DeletionSettled names.
THEOREM DeletionsSettled == Spec => []DeletionSettled
<1>1. Typed /\ Settled => DeletionSettled
  BY DEF Typed, Stored, Settled, Ended, Mirrored, DeletionSettled
<1> QED
  BY <1>1, InitTyped, TypedStep, InitKept, KeptStep, InitSettled, SettledStep, PTL DEF Spec
=============================================================================
