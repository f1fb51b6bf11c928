------------------------------ MODULE PodLedger ------------------------------
(***************************************************************************)
(* What a pool promises the sandboxes that draw on it, whatever becomes of *)
(* the annotations, caches and retries behind it: a pod is lent to one     *)
(* sandbox at a time, only a sandbox that gives a pod back (or is deleted) *)
(* ends the loan, and a pod on loan is never retired.                      *)
(***************************************************************************)
CONSTANTS Pods, Sandboxes, Unassigned

VARIABLES
  borrower,  \* who each pod is lent to
  retired    \* the pods the pool has started to delete

ledger == <<borrower, retired>>

LedgerInit ==
  /\ borrower = [p \in Pods |-> Unassigned]
  /\ retired = {}

Lend(s, lent) ==
  /\ \A p \in lent : borrower[p] = Unassigned
  /\ borrower' = [p \in Pods |-> IF p \in lent THEN s ELSE borrower[p]]
  /\ UNCHANGED retired

Return(s, returned) ==
  /\ \A p \in returned : borrower[p] = s
  /\ borrower' = [p \in Pods |-> IF p \in returned THEN Unassigned ELSE borrower[p]]
  /\ UNCHANGED retired

Retire(old) ==
  /\ \A p \in old : borrower[p] = Unassigned
  /\ retired' = retired \cup old
  /\ UNCHANGED borrower

LedgerNext ==
  \/ \E s \in Sandboxes, change \in SUBSET Pods : Lend(s, change) \/ Return(s, change)
  \/ \E old \in SUBSET Pods : Retire(old)

LedgerSpec == LedgerInit /\ [][LedgerNext]_ledger
=============================================================================
