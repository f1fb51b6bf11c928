------------------------------- MODULE TaskSlot -------------------------------
(***************************************************************************)
(* What a task executor promises whoever creates and deletes its tasks,    *)
(* however often it dies: there is one slot, which a task takes when it is *)
(* created; a task that has left the slot, because it ended, failed, ran   *)
(* out of time or was to be deleted, never has it again; a creation that   *)
(* was answered is not undone; and a deletion is not forgotten.            *)
(***************************************************************************)
CONSTANT Names

VARIABLES
  status,  \* of each task: "none", "creating", "live", "deleting"
  holders  \* the tasks in the slot

slot == <<status, holders>>

SlotInit ==
  /\ status = [n \in Names |-> "none"]
  /\ holders = {}

Become(n, old, new) ==
  /\ status[n] = old
  /\ status' = [status EXCEPT ![n] = new]

\* Whatever happens, tasks may leave the slot.
Begin(n)  == Become(n, "none", "creating") /\ holders = {} /\ holders' \subseteq {n}
Fail(n)   == Become(n, "creating", "none") /\ holders' \subseteq holders \ {n}
Accept(n) == Become(n, "creating", "live") /\ holders' \subseteq holders
Mark(n)   == Become(n, "live", "deleting") /\ holders' \subseteq holders \ {n}
Remove(n) == Become(n, "deleting", "none") /\ holders' \subseteq holders
Leave     == UNCHANGED status /\ holders' \subseteq holders

SlotNext ==
  \/ Leave
  \/ \E n \in Names : Begin(n) \/ Fail(n) \/ Accept(n) \/ Mark(n) \/ Remove(n)

SlotSpec == SlotInit /\ [][SlotNext]_slot
=============================================================================
