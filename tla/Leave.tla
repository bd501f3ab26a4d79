-------------------------------- MODULE Leave ---------------------------------
(***************************************************************************)
(* Leave of one team member (LeaveService): the member applies for leave   *)
(* and changes what is still pending; the office approves or rejects it,   *)
(* and an approval takes the days off team_members.leaveBalance.           *)
(*                                                                         *)
(* Every handler reads, checks what it read, and writes later: one action  *)
(* is one storage call with the code up to the next await.  A mongoose     *)
(* save writes the fields whose new value differs from the copy that was   *)
(* read and nothing else, and looks at no version of the document; $inc is *)
(* atomic.                                                                 *)
(*                                                                         *)
(* Left out: the supporting document in Cloudinary, the reason, and the    *)
(* edits of leaveBalance by HR, which restart the account.                 *)
(***************************************************************************)
EXTENDS Integers

CONSTANTS Leaves,       \* ids of leave requests; their number is a bound
          Applicants,   \* slots for the member's requests in flight
          Reviewers,    \* slots for the office's requests in flight
          Entitlement,  \* the balance HR has granted
          Requested     \* the periods that are asked for; dates are numbers of days

ASSUME ConstantsAssumption ==
  /\ Entitlement \in Nat
  /\ Requested \subseteq [{"start", "end"} -> Int]
  /\ Applicants \intersect Reviewers = {}

VARIABLES balance,      \* team_members.leaveBalance
          leaves,       \* the leave requests, by id
          req,          \* the requests in flight
          charges       \* history: how often each leave was taken off the balance

vars == <<balance, leaves, req, charges>>
-------------------------------------------------------------------------------
Statuses == {"PENDING", "APPROVED", "REJECTED"}

\* startDate and endDate of the form; nothing says which is the earlier.
Ends == {"start", "end"}
Dates == {p[e] : p \in Requested, e \in Ends}
Period == [Ends -> Dates]

\* calculateDays takes the distance and counts both ends, so it is never zero.
DaysOf(p) ==
  1 + IF p["start"] <= p["end"] THEN p["end"] - p["start"] ELSE p["start"] - p["end"]

Days == {DaysOf(p) : p \in Period}

\* The dates that a save sets: those the handler has changed in the copy it read.
Changes == UNION {[ends -> Dates] : ends \in SUBSET Ends}

ChangesFrom(old, new) == [e \in {e \in Ends : new[e] # old[e]} |-> new[e]]

Changed(p, changes) == [e \in Ends |-> IF e \in DOMAIN changes THEN changes[e] ELSE p[e]]

LeaveRequest == [status : Statuses, dates : Period]

NoLeave == [status |-> "NONE"]

Idle == [pc |-> "idle"]

\* What the handlers have read or been sent, and still need.
Application == [pc : {"create"}, dates : Period]
Amendment == [pc : {"find"}, dates : Period, balance : Int]
               \union [pc : {"save"}, changes : Changes, leave : Leaves]
Verdict == [pc : {"save", "deduct"}, status : Statuses, days : Days, leave : Leaves]

TypeOK ==
  /\ balance \in Int
  /\ leaves \in [Leaves -> LeaveRequest \union {NoLeave}]
  /\ req \in [Applicants \union Reviewers -> Application \union Amendment \union Verdict \union {Idle}]
  /\ \A a \in Applicants : req[a] \in Application \union Amendment \union {Idle}
  /\ \A v \in Reviewers : req[v] \in Verdict \union {Idle}
  /\ charges \in [Leaves -> Nat]

Init ==
  /\ balance = Entitlement
  /\ leaves = [l \in Leaves |-> NoLeave]
  /\ req = [r \in Applicants \union Reviewers |-> Idle]
  /\ charges = [l \in Leaves |-> 0]

At(r, pc) == req[r].pc = pc

Becomes(r, record) == req' = [req EXCEPT ![r] = record]
-------------------------------------------------------------------------------
\* Faulty: the last day is stored as the first day back.
ApplyDayLate(a, dates) ==
  /\ At(a, "idle")
  /\ DaysOf(dates) <= balance
  /\ Becomes(a, [pc |-> "create", dates |-> [dates EXCEPT !["end"] = @ + 1]])
  /\ UNCHANGED <<balance, leaves, charges>>

\* applyLeave: the member's balance is read; it must cover the days.
Apply(a, dates) ==
  /\ At(a, "idle")
  /\ DaysOf(dates) <= balance
  /\ Becomes(a, [pc |-> "create", dates |-> dates])
  /\ UNCHANGED <<balance, leaves, charges>>

CreateLeave(a, l) ==
  /\ At(a, "create")
  /\ leaves[l] = NoLeave
  /\ leaves' = [leaves EXCEPT ![l] = [status |-> "PENDING", dates |-> req[a].dates]]
  /\ Becomes(a, Idle)
  /\ UNCHANGED <<balance, charges>>

\* updateLeave: the member is read, and with it the balance.
Amend(a, dates) ==
  /\ At(a, "idle")
  /\ Becomes(a, [pc |-> "find", dates |-> dates, balance |-> balance])
  /\ UNCHANGED <<balance, leaves, charges>>

\* Then the leave request, which must be pending.
AmendFind(a, l) ==
  /\ At(a, "find")
  /\ leaves[l].status = "PENDING"
  /\ DaysOf(req[a].dates) <= req[a].balance
  /\ Becomes(a, [pc |-> "save", leave |-> l,
                 changes |-> ChangesFrom(leaves[l].dates, req[a].dates)])
  /\ UNCHANGED <<balance, leaves, charges>>

\* Faulty: the amended request is put back to pending.
AmendSaveReopening(a) ==
  /\ At(a, "save")
  /\ leaves' = [leaves EXCEPT ![req[a].leave] =
                  [status |-> "PENDING", dates |-> Changed(@.dates, req[a].changes)]]
  /\ Becomes(a, Idle)
  /\ UNCHANGED <<balance, charges>>

\* save: only the dates are written, and only those that were changed, whatever became
\* of the status and of the other date.
AmendSave(a) ==
  /\ At(a, "save")
  /\ leaves' = [leaves EXCEPT ![req[a].leave].dates = Changed(@, req[a].changes)]
  /\ Becomes(a, Idle)
  /\ UNCHANGED <<balance, charges>>
-------------------------------------------------------------------------------
\* Faulty: an approved request can be looked at again.
ReviewFindNotRejected(v, l, status) ==
  /\ At(v, "idle")
  /\ leaves[l].status \in {"PENDING", "APPROVED"}
  /\ Becomes(v, [pc |-> "save", status |-> status, days |-> DaysOf(leaves[l].dates), leave |-> l])
  /\ UNCHANGED <<balance, leaves, charges>>

\* updateStatus: the leave request must be pending when it is read.
ReviewFind(v, l, status) ==
  /\ At(v, "idle")
  /\ leaves[l].status = "PENDING"
  /\ Becomes(v, [pc |-> "save", status |-> status, days |-> DaysOf(leaves[l].dates), leave |-> l])
  /\ UNCHANGED <<balance, leaves, charges>>

\* save of the new status.  PENDING, which the DTO admits, is what was read:
\* the document is not modified and nothing is written.
ReviewSave(v) ==
  /\ At(v, "save")
  /\ leaves' = IF req[v].status = "PENDING" THEN leaves
               ELSE [leaves EXCEPT ![req[v].leave].status = req[v].status]
  /\ Becomes(v, IF req[v].status = "APPROVED" THEN [req[v] EXCEPT !.pc = "deduct"] ELSE Idle)
  /\ UNCHANGED <<balance, charges>>

\* $inc by the days of the document as it was read.
Deduct(v) ==
  /\ At(v, "deduct")
  /\ balance' = balance - req[v].days
  /\ charges' = [charges EXCEPT ![req[v].leave] = @ + 1]
  /\ Becomes(v, Idle)
  /\ UNCHANGED leaves

\* The request is refused, a storage call throws, or the process dies.
Fail(r) ==
  /\ ~ At(r, "idle")
  /\ Becomes(r, Idle)
  /\ UNCHANGED <<balance, leaves, charges>>

Next ==
  \/ \E a \in Applicants :
       \/ \E dates \in Requested : Apply(a, dates) \/ Amend(a, dates)
       \/ \E l \in Leaves : CreateLeave(a, l) \/ AmendFind(a, l)
       \/ AmendSave(a)
  \/ \E v \in Reviewers :
       \/ \E l \in Leaves, status \in Statuses : ReviewFind(v, l, status)
       \/ ReviewSave(v)
       \/ Deduct(v)
  \/ \E r \in Applicants \union Reviewers : Fail(r)

Spec == Init /\ [][Next]_vars
-------------------------------------------------------------------------------
(* Properties that hold while the office reviews one request at a time,    *)
(* whatever the member sends meanwhile and whatever fails.                 *)

\* A decision stands: an amendment whose handler found the request pending
\* before the decision does not reopen it (updateLeave).
DecisionsFinal ==
  [][\A l \in Leaves : leaves[l].status \in {"APPROVED", "REJECTED"} =>
                         leaves'[l].status = leaves[l].status]_vars

\* A leave is taken off the balance at most once, and only if it is approved
\* (updateStatus: "Leave request is already processed").
NeverChargedTwice ==
  \A l \in Leaves : charges[l] > 0 => charges[l] = 1 /\ leaves[l].status = "APPROVED"

Ledger ==
  INSTANCE LeaveLedger WITH
    status <- [l \in Leaves |-> leaves[l].status],
    charged <- {l \in Leaves : charges[l] > 0}

\* Leave follows LeaveLedger: besides both of these, a request is asked for before it
\* is decided, and no handler touches the balance but for the days of an approved
\* leave, once (applyLeave, updateLeave, updateStatus).
ImplementsLedger == Ledger!Spec
-------------------------------------------------------------------------------
(* What every step keeps, and the proofs rest on.                          *)

\* Only a request that was found is amended or reviewed.
FoundInv ==
  /\ \A a \in Applicants : At(a, "save") => leaves[req[a].leave] # NoLeave
  /\ \A v \in Reviewers : req[v] # Idle => leaves[req[v].leave] # NoLeave

\* With one reviewer, what the review found still holds when it writes.
ReviewInv ==
  /\ NeverChargedTwice
  /\ \A v \in Reviewers :
       /\ At(v, "save") => leaves[req[v].leave].status = "PENDING"
       /\ At(v, "deduct") => leaves[req[v].leave].status = "APPROVED" /\ charges[req[v].leave] = 0

LeaveInv == TypeOK /\ FoundInv
===============================================================================
