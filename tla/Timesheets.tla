------------------------------ MODULE Timesheets ------------------------------
(***************************************************************************)
(* Timesheets of one assignment for one claim date (TimesheetsService):    *)
(* the engineers' sheets, the office's reviews, and the unlock requests    *)
(* that let an engineer write after the date has passed.  A sheet's key    *)
(* holds the project, the assignment, the engineer and the date, so sheets *)
(* of other assignments and dates do not interact with these.              *)
(*                                                                         *)
(* createForEngineer, updateOwn and requestUnlock check what they read in  *)
(* several MongoDB calls and write in the last one: one action is one call *)
(* with the code up to the next await.  submitOwn, updateStatus and        *)
(* reviewUnlockRequest are one conditional update each.                    *)
(*                                                                         *)
(* Left out: how items are priced (a content is what timesheetData makes   *)
(* of a request and the rate cards), the engineer's identity (it is the    *)
(* account's e-mail address), and listing.                                 *)
(***************************************************************************)
CONSTANTS Engineers,    \* team members of category ENGINEER
          Contents,     \* what a sheet may claim (items, totals, job)
          NoContent,
          Reviewers,    \* accounts of the office
          Nobody,
          Requests,     \* slots for requests in flight
          Unlocks,      \* ids of unlock requests; their number is a bound
          ClientsWait   \* whether an engineer's client waits for each answer

ASSUME ConstantsAssumption ==
  /\ NoContent \notin Contents
  /\ Nobody \notin Reviewers
  /\ ClientsWait \in BOOLEAN

VARIABLES past,         \* whether the claim date is before today
          assigned,     \* members of the assignment (whereabouts)
          sheets,       \* the timesheets, by engineer
          unlocks,      \* the unlock requests, by id
          req           \* the requests in flight

vars == <<past, assigned, sheets, unlocks, req>>
-------------------------------------------------------------------------------
Statuses == {"DRAFT", "SUBMITTED", "APPROVED", "REJECTED"}

\* submitted, late: history.  What the sheet claimed when it was submitted, and
\* whether a request that arrived after the date had passed has written it.
Sheet ==
  [status : Statuses, content : Contents, reason : BOOLEAN,
   reviewedBy : Reviewers \union {Nobody},
   submitted : Contents \union {NoContent}, late : BOOLEAN]

NoSheet ==
  [status |-> "NONE", content |-> NoContent, reason |-> FALSE, reviewedBy |-> Nobody,
   submitted |-> NoContent, late |-> FALSE]

Unlock == [engineer : Engineers, status : {"PENDING", "APPROVED", "REJECTED"}]

NoUnlock == [status |-> "NONE"]

Handlers == {"createForEngineer", "updateOwn", "requestUnlock"}

\* pc: the storage call that comes next.  late: history, see Sheet.
Request ==
  [pc : {"findAssignment", "findUnlocked", "findOpen", "write"},
   handler : Handlers, engineer : Engineers, late : BOOLEAN]

Idle == [pc |-> "idle"]

TypeOK ==
  /\ past \in BOOLEAN
  /\ assigned \subseteq Engineers
  /\ sheets \in [Engineers -> Sheet \union {NoSheet}]
  /\ unlocks \in [Unlocks -> Unlock \union {NoUnlock}]
  /\ req \in [Requests -> Request \union {Idle}]

Init ==
  /\ past \in BOOLEAN
  /\ assigned \in SUBSET Engineers
  /\ sheets = [e \in Engineers |-> NoSheet]
  /\ unlocks = [u \in Unlocks |-> NoUnlock]
  /\ req = [r \in Requests |-> Idle]
-------------------------------------------------------------------------------
Exists(e) == sheets[e] # NoSheet

Editable == {"DRAFT", "REJECTED"}

HasUnlock(e, statuses) ==
  \E u \in Unlocks : unlocks[u] # NoUnlock
                       /\ unlocks[u].engineer = e /\ unlocks[u].status \in statuses

Busy(e) == \E r \in Requests : req[r] # Idle /\ req[r].engineer = e

\* The environment: an engineer's client sends nothing while it waits.
MaySend(e) == ~ (ClientsWait /\ Busy(e))

Arrive(r, e, handler) ==
  /\ req[r] = Idle
  /\ MaySend(e)
  /\ req' = [req EXCEPT ![r] = [pc |-> "findAssignment", handler |-> handler,
                                engineer |-> e, late |-> past]]
  /\ UNCHANGED <<past, assigned, sheets, unlocks>>

Proceed(r, pc) == req' = [req EXCEPT ![r].pc = pc]

\* The request is answered: done, or refused.
Answer(r) == req' = [req EXCEPT ![r] = Idle]

At(r, pc) == req[r] # Idle /\ req[r].pc = pc

ReceiveCreate(r, e) == Arrive(r, e, "createForEngineer")

\* Faulty: a submitted sheet is accepted for editing.
ReceiveUpdateAnyStatus(r, e) ==
  /\ Exists(e)
  /\ Arrive(r, e, "updateOwn")

\* updateOwn: findDocument, then the checks of owner, status and key on it.
ReceiveUpdate(r, e) ==
  /\ Exists(e)
  /\ sheets[e].status \in Editable
  /\ Arrive(r, e, "updateOwn")

\* Only past dates require an unlock request.
ReceiveUnlock(r, e) ==
  /\ past
  /\ Arrive(r, e, "requestUnlock")

\* assertAssignment; assertSubmissionAllowed then looks at today's date.
AssertAssignment(r) ==
  /\ At(r, "findAssignment")
  /\ IF req[r].engineer \notin assigned THEN Answer(r)
     ELSE Proceed(r, IF req[r].handler = "requestUnlock" THEN "findOpen"
                     ELSE IF past THEN "findUnlocked" ELSE "write")
  /\ UNCHANGED <<past, assigned, sheets, unlocks>>

\* Faulty: any unlock request of the engineer will do.
AssertRequested(r) ==
  /\ At(r, "findUnlocked")
  /\ IF HasUnlock(req[r].engineer, {"PENDING", "APPROVED"}) THEN Proceed(r, "write") ELSE Answer(r)
  /\ UNCHANGED <<past, assigned, sheets, unlocks>>

\* assertSubmissionAllowed: past dates are locked without an approved unlock.
AssertUnlocked(r) ==
  /\ At(r, "findUnlocked")
  /\ IF HasUnlock(req[r].engineer, {"APPROVED"}) THEN Proceed(r, "write") ELSE Answer(r)
  /\ UNCHANGED <<past, assigned, sheets, unlocks>>

\* Faulty: only a pending request counts as one that exists.
AssertNonePending(r) ==
  /\ At(r, "findOpen")
  /\ IF HasUnlock(req[r].engineer, {"PENDING"}) THEN Answer(r) ELSE Proceed(r, "write")
  /\ UNCHANGED <<past, assigned, sheets, unlocks>>

\* requestUnlock: no pending or approved request may exist.
AssertNoneOpen(r) ==
  /\ At(r, "findOpen")
  /\ IF HasUnlock(req[r].engineer, {"PENDING", "APPROVED"}) THEN Answer(r) ELSE Proceed(r, "write")
  /\ UNCHANGED <<past, assigned, sheets, unlocks>>

\* Faulty: without the unique index, the sheet is replaced.
CreateReplacing(r, c) ==
  /\ At(r, "write")
  /\ req[r].handler = "createForEngineer"
  /\ sheets' = [sheets EXCEPT ![req[r].engineer] =
       [NoSheet EXCEPT !.status = "DRAFT", !.content = c, !.late = req[r].late]]
  /\ Answer(r)
  /\ UNCHANGED <<past, assigned, unlocks>>

\* create; the unique index refuses a second sheet of the engineer.
Create(r, c) ==
  /\ At(r, "write")
  /\ req[r].handler = "createForEngineer"
  /\ LET e == req[r].engineer
     IN  IF Exists(e) THEN UNCHANGED sheets
         ELSE sheets' = [sheets EXCEPT ![e] =
                [NoSheet EXCEPT !.status = "DRAFT", !.content = c, !.late = req[r].late]]
  /\ Answer(r)
  /\ UNCHANGED <<past, assigned, unlocks>>

\* findByIdAndUpdate by id alone: the status is the one read at the start.
Update(r, c) ==
  /\ At(r, "write")
  /\ req[r].handler = "updateOwn"
  /\ LET e == req[r].engineer
     IN  sheets' = [sheets EXCEPT ![e] =
           [@ EXCEPT !.content = c, !.late = sheets[e].late \/ req[r].late]]
  /\ Answer(r)
  /\ UNCHANGED <<past, assigned, unlocks>>

\* create of the unlock request: no index makes it the only one.
InsertUnlock(r, u) ==
  /\ At(r, "write")
  /\ req[r].handler = "requestUnlock"
  /\ unlocks[u] = NoUnlock
  /\ unlocks' = [unlocks EXCEPT ![u] = [engineer |-> req[r].engineer, status |-> "PENDING"]]
  /\ Answer(r)
  /\ UNCHANGED <<past, assigned, sheets>>

\* A storage call throws, or the process dies: nothing was written yet.
Fail(r) ==
  /\ req[r] # Idle
  /\ Answer(r)
  /\ UNCHANGED <<past, assigned, sheets, unlocks>>
-------------------------------------------------------------------------------
\* Faulty: the reviewer of the last submission stays on the sheet.
SubmitKeepingReview(e) ==
  /\ MaySend(e)
  /\ Exists(e)
  /\ sheets[e].status \in Editable
  /\ sheets' = [sheets EXCEPT ![e].status = "SUBMITTED", ![e].submitted = sheets[e].content]
  /\ UNCHANGED <<past, assigned, unlocks, req>>

\* submitOwn: neither the assignment nor the date is looked at.
SubmitOwn(e) ==
  /\ MaySend(e)
  /\ Exists(e)
  /\ sheets[e].status \in Editable
  /\ sheets' = [sheets EXCEPT ![e] =
       [@ EXCEPT !.status = "SUBMITTED", !.submitted = sheets[e].content,
                 !.reason = FALSE, !.reviewedBy = Nobody]]
  /\ UNCHANGED <<past, assigned, unlocks, req>>

\* Faulty: the update inserts the sheet it does not find.
UpdateStatusUpserting(e, status, reviewer) ==
  /\ sheets[e].status \in {"NONE", "SUBMITTED"}
  /\ status \in {"APPROVED", "REJECTED"}
  /\ sheets' = [sheets EXCEPT ![e] =
       [@ EXCEPT !.status = status, !.reviewedBy = reviewer, !.reason = (status = "REJECTED")]]
  /\ UNCHANGED <<past, assigned, unlocks, req>>

\* Faulty: found by id, whatever its status.
UpdateAnyStatus(e, status, reviewer) ==
  /\ Exists(e)
  /\ status \in {"APPROVED", "REJECTED"}
  /\ sheets' = [sheets EXCEPT ![e] =
       [@ EXCEPT !.status = status, !.reviewedBy = reviewer, !.reason = (status = "REJECTED")]]
  /\ UNCHANGED <<past, assigned, unlocks, req>>

\* updateStatus: a rejection without a reason is refused.
UpdateStatus(e, status, reviewer) ==
  /\ Exists(e)
  /\ sheets[e].status = "SUBMITTED"
  /\ status \in {"APPROVED", "REJECTED"}
  /\ sheets' = [sheets EXCEPT ![e] =
       [@ EXCEPT !.status = status, !.reviewedBy = reviewer, !.reason = (status = "REJECTED")]]
  /\ UNCHANGED <<past, assigned, unlocks, req>>

\* reviewUnlockRequest: only a pending request.
ReviewUnlock(u, status) ==
  /\ unlocks[u] # NoUnlock
  /\ unlocks[u].status = "PENDING"
  /\ status \in {"APPROVED", "REJECTED"}
  /\ unlocks' = [unlocks EXCEPT ![u].status = status]
  /\ UNCHANGED <<past, assigned, sheets, req>>

\* Midnight (UTC) of the claim date goes by.
DayPasses ==
  /\ ~ past
  /\ past' = TRUE
  /\ UNCHANGED <<assigned, sheets, unlocks, req>>

\* The team of the assignment is changed, by a team mate or by the office.
Reassign(team) ==
  /\ assigned' = team
  /\ UNCHANGED <<past, sheets, unlocks, req>>

RequestStep(r) ==
  \/ \E e \in Engineers : ReceiveCreate(r, e) \/ ReceiveUpdate(r, e) \/ ReceiveUnlock(r, e)
  \/ AssertAssignment(r)
  \/ AssertUnlocked(r)
  \/ AssertNoneOpen(r)
  \/ \E c \in Contents : Create(r, c) \/ Update(r, c)
  \/ \E u \in Unlocks : InsertUnlock(r, u)
  \/ Fail(r)

Next ==
  \/ \E r \in Requests : RequestStep(r)
  \/ \E e \in Engineers : SubmitOwn(e)
  \/ \E e \in Engineers, status \in Statuses, reviewer \in Reviewers : UpdateStatus(e, status, reviewer)
  \/ \E u \in Unlocks, status \in {"PENDING", "APPROVED", "REJECTED"} : ReviewUnlock(u, status)
  \/ DayPasses
  \/ \E team \in SUBSET Engineers : Reassign(team)

Spec == Init /\ [][Next]_vars
-------------------------------------------------------------------------------
(* Properties that hold however the requests of an engineer overlap.       *)

\* A sheet says who reviewed it and why it was sent back exactly while that
\* review stands: a new submission (submitOwn) wipes it, an edit does not.
ReviewsOnRecord ==
  \A e \in Engineers : Exists(e) =>
    /\ (sheets[e].reviewedBy # Nobody) <=> sheets[e].status \in {"APPROVED", "REJECTED"}
    /\ sheets[e].reason <=> sheets[e].status = "REJECTED"

\* What a request that arrived after the claim date has written rests on an
\* unlock the office approved and cannot take back, although the unlock is
\* looked up several calls before the write (assertSubmissionAllowed).
LateWritesUnlocked ==
  \A e \in Engineers : sheets[e].late => HasUnlock(e, {"APPROVED"})

\* Every verdict is on a submission nobody has decided yet, an approved sheet
\* is never moved again, and a sheet never disappears: whatever two reviewers
\* and the engineer send at the same time (submitOwn, updateStatus).
VerdictsFinal ==
  [][\A e \in Engineers : sheets'[e].status # sheets[e].status =>
       <<sheets[e].status, sheets'[e].status>> \in
         {<<"NONE", "DRAFT">>, <<"DRAFT", "SUBMITTED">>, <<"REJECTED", "SUBMITTED">>,
          <<"SUBMITTED", "APPROVED">>, <<"SUBMITTED", "REJECTED">>}]_vars
-------------------------------------------------------------------------------
(* Properties that need engineers' clients to wait for their answers.      *)

\* What is under review, or was approved for payment, is what was submitted
\* (updateOwn: only draft or rejected timesheets can be edited).
ReviewedAsSubmitted ==
  \A e \in Engineers : sheets[e].status \in {"SUBMITTED", "APPROVED"} =>
                         sheets[e].content = sheets[e].submitted

\* An engineer has at most one unlock request that is pending or approved
\* (requestUnlock checks, and nothing in the database enforces it).
OneOpenUnlock ==
  \A u, v \in Unlocks :
    unlocks[u] # NoUnlock /\ unlocks[v] # NoUnlock
      /\ unlocks[u].engineer = unlocks[v].engineer
      /\ {unlocks[u].status, unlocks[v].status} \subseteq {"PENDING", "APPROVED"}
    => u = v

Lifecycle ==
  INSTANCE TimesheetLifecycle WITH
    stage   <- [e \in Engineers |-> sheets[e].status],
    content <- [e \in Engineers |-> sheets[e].content],
    Blank   <- NoContent

\* Sheets follow TimesheetLifecycle: they are rewritten only while they are the
\* engineer's, submitted, reviewed once per submission and final when approved.
ImplementsLifecycle == Lifecycle!Spec
-------------------------------------------------------------------------------
(* What every step keeps, and the proofs rest on.                          *)

\* An edit is of a sheet there is, and a late write has found its unlock.
SheetInv ==
  /\ TypeOK
  /\ ReviewsOnRecord
  /\ LateWritesUnlocked
  /\ \A r \in Requests : req[r] # Idle =>
       /\ req[r].handler = "updateOwn" => Exists(req[r].engineer)
       /\ req[r].late => past
       /\ At(r, "findOpen") => req[r].handler = "requestUnlock"
       /\ At(r, "findUnlocked") => req[r].handler # "requestUnlock"
       /\ At(r, "write") /\ req[r].handler # "requestUnlock" /\ req[r].late =>
            HasUnlock(req[r].engineer, {"APPROVED"})

\* If clients wait, what a handler found still holds when it writes.
WaitInv ==
  /\ ReviewedAsSubmitted
  /\ OneOpenUnlock
  /\ \A r, q \in Requests :
       req[r] # Idle /\ req[q] # Idle /\ req[r].engineer = req[q].engineer => r = q
  /\ \A r \in Requests : req[r] # Idle =>
       /\ req[r].handler = "updateOwn" => sheets[req[r].engineer].status \in Editable
       /\ At(r, "write") /\ req[r].handler = "requestUnlock" =>
            ~ HasUnlock(req[r].engineer, {"PENDING", "APPROVED"})
===============================================================================
