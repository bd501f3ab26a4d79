----------------------------- MODULE VehicleChecks -----------------------------
(***************************************************************************)
(* The checks an engineer files for a vehicle, one a day and one a week    *)
(* (VehicleChecksService), and what the office makes of the defects.  The  *)
(* unique indexes hold the vehicle and the engineer, so checks of another  *)
(* pair do not interact with these.                                        *)
(*                                                                         *)
(* submit reads the clock some calls before it inserts; acknowledge and    *)
(* resolve read the status and then write by id.  One action is one call   *)
(* with the code up to the next await.                                     *)
(*                                                                         *)
(* Left out: whether the vehicle is found (a submission may be refused for *)
(* it), photographs, what a checklist says beyond having a defect, and who *)
(* acknowledged or resolved it and when.                                   *)
(***************************************************************************)
EXTENDS Integers

CONSTANTS FirstDay, LastDay,  \* days of London, day 0 a Sunday: a bound
          CheckSlots,         \* slots for requests in flight
          OfficeWaits         \* whether the office sends one request at a time

ASSUME CheckConstants ==
  /\ FirstDay \in Nat /\ LastDay \in Nat /\ FirstDay =< LastDay
  /\ OfficeWaits \in BOOLEAN

VARIABLES today,      \* the date in London
          checks,     \* the checks, by type and period
          checkReq    \* the requests in flight

checkVars == <<today, checks, checkReq>>
-------------------------------------------------------------------------------
Days == FirstDay .. LastDay

\* mondayOf: the Monday of the week of a day.
MondayOf(day) == day - ((day + 6) % 7)

CheckTypes == {"DAILY", "WEEKLY"}

\* The unique indexes: a daily check by its date, a weekly one by its Monday.
PeriodOf(type, day) == <<type, IF type = "DAILY" THEN day ELSE MondayOf(day)>>

Periods == {PeriodOf(type, day) : type \in CheckTypes, day \in Days}

CheckStatuses == {"COMPLETED", "OPEN", "ACKNOWLEDGED", "RESOLVED"}

\* by: history, the slot of the submission that filed it.
VehicleCheck == [status : CheckStatuses, defects : BOOLEAN, by : CheckSlots]

NoCheck == [status |-> "NONE"]

CheckRequest ==
  [pc : {"create"}, period : Periods, defects : BOOLEAN]
    \union [pc : {"acknowledge", "resolve"}, period : Periods]

NoCheckRequest == [pc |-> "idle"]

CheckTypeOK ==
  /\ today \in Days
  /\ checks \in [Periods -> VehicleCheck \union {NoCheck}]
  /\ checkReq \in [CheckSlots -> CheckRequest \union {NoCheckRequest}]

CheckInit ==
  /\ today = FirstDay
  /\ checks = [p \in Periods |-> NoCheck]
  /\ checkReq = [r \in CheckSlots |-> NoCheckRequest]
-------------------------------------------------------------------------------
CheckAt(r, pc) == checkReq[r].pc = pc

BeginCheck(r, request) ==
  /\ checkReq[r] = NoCheckRequest
  /\ checkReq' = [checkReq EXCEPT ![r] = request]

AnswerCheck(r) == checkReq' = [checkReq EXCEPT ![r] = NoCheckRequest]

OfficeBusy == \E r \in CheckSlots : CheckAt(r, "acknowledge") \/ CheckAt(r, "resolve")

\* What can be sent: only a daily check has a checklist, and so defects.
ValidSubmission(type, defects) == defects => type = "DAILY"

\* submit up to the insert: the day is read here.
SubmitCheck(r, type, defects) ==
  /\ ValidSubmission(type, defects)
  /\ BeginCheck(r, [pc |-> "create", period |-> PeriodOf(type, today), defects |-> defects])
  /\ UNCHANGED <<today, checks>>

NewCheck(r, defects) ==
  [status |-> IF defects THEN "OPEN" ELSE "COMPLETED", defects |-> defects, by |-> r]

\* Faulty: the check of the period is replaced.
CreateCheckReplacing(r) ==
  /\ CheckAt(r, "create")
  /\ checks' = [checks EXCEPT ![checkReq[r].period] = NewCheck(r, checkReq[r].defects)]
  /\ AnswerCheck(r)
  /\ UNCHANGED today

\* create; a second check of the period is a conflict.
CreateCheck(r) ==
  /\ CheckAt(r, "create")
  /\ LET p == checkReq[r].period
     IN  IF checks[p] # NoCheck THEN UNCHANGED checks
         ELSE checks' = [checks EXCEPT ![p] = NewCheck(r, checkReq[r].defects)]
  /\ AnswerCheck(r)
  /\ UNCHANGED today

\* Faulty: whatever is not completed can be acknowledged.
AcknowledgeFindAny(r, p) ==
  /\ ~ (OfficeWaits /\ OfficeBusy)
  /\ checks[p] # NoCheck /\ checks[p].defects
  /\ BeginCheck(r, [pc |-> "acknowledge", period |-> p])
  /\ UNCHANGED <<today, checks>>

\* acknowledge: only open defects.
AcknowledgeFind(r, p) ==
  /\ ~ (OfficeWaits /\ OfficeBusy)
  /\ checks[p].status = "OPEN"
  /\ BeginCheck(r, [pc |-> "acknowledge", period |-> p])
  /\ UNCHANGED <<today, checks>>

\* findByIdAndUpdate, whatever the status is by now.
AcknowledgeWrite(r) ==
  /\ CheckAt(r, "acknowledge")
  /\ checks' = [checks EXCEPT ![checkReq[r].period].status = "ACKNOWLEDGED"]
  /\ AnswerCheck(r)
  /\ UNCHANGED today

\* resolve: only open or acknowledged defects.
ResolveFind(r, p) ==
  /\ ~ (OfficeWaits /\ OfficeBusy)
  /\ checks[p].status \in {"OPEN", "ACKNOWLEDGED"}
  /\ BeginCheck(r, [pc |-> "resolve", period |-> p])
  /\ UNCHANGED <<today, checks>>

ResolveWrite(r) ==
  /\ CheckAt(r, "resolve")
  /\ checks' = [checks EXCEPT ![checkReq[r].period].status = "RESOLVED"]
  /\ AnswerCheck(r)
  /\ UNCHANGED today

\* A lookup fails, a call throws, or the process dies: nothing was written yet.
RefuseCheck(r) ==
  /\ checkReq[r] # NoCheckRequest
  /\ AnswerCheck(r)
  /\ UNCHANGED <<today, checks>>

Midnight ==
  /\ today < LastDay
  /\ today' = today + 1
  /\ UNCHANGED <<checks, checkReq>>

CheckNext ==
  \/ \E r \in CheckSlots :
       \/ \E type \in CheckTypes, defects \in BOOLEAN : SubmitCheck(r, type, defects)
       \/ \E p \in Periods : AcknowledgeFind(r, p) \/ ResolveFind(r, p)
       \/ CreateCheck(r) \/ AcknowledgeWrite(r) \/ ResolveWrite(r) \/ RefuseCheck(r)
  \/ Midnight

CheckSpec == CheckInit /\ [][CheckNext]_checkVars
-------------------------------------------------------------------------------
(* Properties.                                                             *)

\* dueState and overdueSummary: nothing is filed for the period of today.
Due(type) ==
  /\ checks[PeriodOf(type, today)] = NoCheck
  /\ type = "WEEKLY" => today >= MondayOf(today)

Advances ==
  {<<"OPEN", "ACKNOWLEDGED">>, <<"OPEN", "RESOLVED">>, <<"ACKNOWLEDGED", "RESOLVED">>}

\* What was filed first for a period stays, however many submissions overlap and
\* whatever midnight they straddle, so dueState does not ask for it again; and if
\* the office waits for its answers, a defect is only ever taken forward and a
\* check without one is left alone (submit, acknowledge, resolve).
ChecksOnlyAdvance ==
  [][/\ \A p \in Periods : checks[p] # NoCheck =>
          /\ checks'[p] # NoCheck
          /\ checks'[p].by = checks[p].by /\ checks'[p].defects = checks[p].defects
          /\ OfficeWaits /\ checks'[p].status # checks[p].status =>
               <<checks[p].status, checks'[p].status>> \in Advances
     /\ \A type \in CheckTypes :
          ~ Due(type) /\ PeriodOf(type, today') = PeriodOf(type, today) => ~ Due(type)']_checkVars
-------------------------------------------------------------------------------
(* What every step keeps, and the proofs rest on.                          *)

\* If the office waits, what a handler found still holds when it writes.
CheckWaitInv ==
  /\ \A r, q \in CheckSlots :
       CheckAt(r, "acknowledge") \/ CheckAt(r, "resolve") =>
         (CheckAt(q, "acknowledge") \/ CheckAt(q, "resolve") => q = r)
  /\ \A r \in CheckSlots :
       /\ CheckAt(r, "acknowledge") => checks[checkReq[r].period].status = "OPEN"
       /\ CheckAt(r, "resolve") => checks[checkReq[r].period].status \in {"OPEN", "ACKNOWLEDGED"}

CheckInv ==
  /\ CheckTypeOK
  /\ \A r \in CheckSlots :
       CheckAt(r, "acknowledge") \/ CheckAt(r, "resolve") => checks[checkReq[r].period] # NoCheck
  /\ OfficeWaits => CheckWaitInv
===============================================================================
