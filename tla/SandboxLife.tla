----------------------------- MODULE SandboxLife -----------------------------
(***************************************************************************)
(* What a runtime promises of a sandbox, whatever is lost, late or dies:   *)
(* it is made once, after somebody asked for it, with an expiration or for *)
(* manual cleanup, and keeps to that kind; it ends by its expiration, by a *)
(* deletion that is under way, or with a creation that fails; and what has *)
(* ended, or was given up, never is again.  A creation is answered with    *)
(* success only if the sandbox was made, and as undone only if none is     *)
(* left; a deletion only of one that is over.                              *)
(***************************************************************************)
CONSTANT Sandboxes

VARIABLES
  life,      \* of each id: "none" yet, "manual", "timed", or "over" for good
  told,      \* what is known of its creation: "new", "creating", "ok",
             \* "refused", "undone", or "unsure" when the answer is an error
  deleting,  \* the sandboxes with a deletion under way
  deleted    \* the sandboxes whose deletion was answered

promise == <<life, told, deleting, deleted>>

LifeInit ==
  /\ life = [s \in Sandboxes |-> "none"]
  /\ told = [s \in Sandboxes |-> "new"]
  /\ deleting = {} /\ deleted = {}

Ends(s) == life' = [life EXCEPT ![s] = "over"]
Settle(s, old, new) == told[s] = old /\ told' = [told EXCEPT ![s] = new]

Ask(s)    == Settle(s, "new", "creating") /\ UNCHANGED <<life, deleting, deleted>>
Refuse(s) == Settle(s, "new", "refused") /\ Ends(s) /\ UNCHANGED <<deleting, deleted>>

Make(s) ==
  /\ told[s] = "creating" /\ life[s] = "none"
  /\ \E kind \in {"manual", "timed"} : life' = [life EXCEPT ![s] = kind]
  /\ UNCHANGED told \/ Settle(s, "creating", "unsure")
  /\ UNCHANGED <<deleting, deleted>>

Tell(s) == life[s] # "none" /\ Settle(s, "creating", "ok") /\ UNCHANGED <<life, deleting, deleted>>

\* A creation that fails takes the sandbox back, or leaves what there is.
Fail(s) ==
  /\ \/ Ends(s) /\ (Settle(s, "creating", "undone") \/ Settle(s, "creating", "unsure"))
     \/ life[s] # "none" /\ UNCHANGED life /\ Settle(s, "creating", "unsure")
  /\ UNCHANGED <<deleting, deleted>>

Expire(s) == life[s] = "timed" /\ Ends(s) /\ UNCHANGED <<told, deleting, deleted>>

Delete(s) ==
  /\ told[s] \in {"ok", "unsure"}
  /\ deleting' = deleting \cup {s}
  /\ UNCHANGED <<life, told, deleted>>

Remove(s) ==
  /\ s \in deleting
  /\ Ends(s)
  /\ \/ deleting' \in {deleting, deleting \ {s}} /\ UNCHANGED deleted
     \/ deleting' = deleting \ {s} /\ deleted' = deleted \cup {s}
  /\ UNCHANGED told

GiveUp(s) == deleting' = deleting \ {s} /\ UNCHANGED <<life, told, deleted>>

\* The server dies: nobody makes what was still to be made.
Die ==
  /\ life' = [s \in Sandboxes |->
                IF told[s] = "creating" /\ life[s] = "none" THEN "over" ELSE life[s]]
  /\ told' = [s \in Sandboxes |-> IF told[s] = "creating" THEN "unsure" ELSE told[s]]
  /\ deleting' = {} /\ UNCHANGED deleted

LifeNext ==
  \/ Die
  \/ \E s \in Sandboxes :
       \/ Ask(s) \/ Refuse(s) \/ Make(s) \/ Tell(s) \/ Fail(s)
       \/ Expire(s) \/ Delete(s) \/ Remove(s) \/ GiveUp(s)

LifeSpec == LifeInit /\ [][LifeNext]_promise
=============================================================================
