------------------------------ MODULE LeaveLedger ------------------------------
(***************************************************************************)
(* What the leave of a team member promises: a request is decided once and *)
(* for good, and the balance only changes by the days of a request that    *)
(* was approved, once for each.                                            *)
(***************************************************************************)
EXTENDS Integers

CONSTANTS Leaves,       \* ids of leave requests
          Entitlement,  \* the balance to begin with
          Days          \* the numbers of days a request may be for

VARIABLES balance,      \* the days left
          status,       \* per request: NONE, PENDING, APPROVED or REJECTED
          charged       \* the requests whose days were taken off the balance

vars == <<balance, status, charged>>

Init ==
  /\ balance = Entitlement
  /\ status = [l \in Leaves |-> "NONE"]
  /\ charged = {}

Ask(l) ==
  /\ status[l] = "NONE"
  /\ status' = [status EXCEPT ![l] = "PENDING"]
  /\ UNCHANGED <<balance, charged>>

Decide(l) ==
  /\ status[l] = "PENDING"
  /\ \E verdict \in {"APPROVED", "REJECTED"} : status' = [status EXCEPT ![l] = verdict]
  /\ UNCHANGED <<balance, charged>>

\* At some time after the approval, or never, should the office's request fail.
Charge(l) ==
  /\ status[l] = "APPROVED" /\ l \notin charged
  /\ \E days \in Days : balance' = balance - days
  /\ charged' = charged \union {l}
  /\ UNCHANGED status

Next == \E l \in Leaves : Ask(l) \/ Decide(l) \/ Charge(l)

Spec == Init /\ [][Next]_vars
===============================================================================
