------------------------------ MODULE DutyOfCare ------------------------------
(***************************************************************************)
(* Shifts (DutyOfCareService): a member clocks in and out, the office may  *)
(* delete a record.  clockIn looks for an open shift and then inserts one; *)
(* clockOut reads a shift, changes the copy and saves it.  One action is   *)
(* one call with the code up to the next await.                            *)
(*                                                                         *)
(* How mongoose saves is external: scalars are set by id, without looking  *)
(* at the version, and the save throws when the document is gone.          *)
(*                                                                         *)
(* Left out: which member an account is (a request may be refused for it), *)
(* the project, and the wording of the notes.                              *)
(***************************************************************************)
CONSTANTS Members,
          ShiftIds,      \* ids of shifts; their number is a bound
          DutySlots,     \* slots for requests in flight
          MembersWait    \* whether a member's client waits for each answer

ASSUME DutyConstants == MembersWait \in BOOLEAN

VARIABLES shifts, dutyReq

dutyVars == <<shifts, dutyReq>>
-------------------------------------------------------------------------------
\* open: endTime is null.  overwritten: history, it was ended a second time.
Shift == [member : Members, open : BOOLEAN, overwritten : BOOLEAN]

\* UNUSED: not yet created; DELETED: an id is not given again.
NoShift == [open |-> FALSE, state |-> "UNUSED"]
Deleted == [open |-> FALSE, state |-> "DELETED"]

DutyRequest ==
  [pc : {"create"}, member : Members] \union [pc : {"save"}, member : Members, shift : ShiftIds]

NoDutyRequest == [pc |-> "idle"]

DutyTypeOK ==
  /\ shifts \in [ShiftIds -> Shift \union {NoShift, Deleted}]
  /\ dutyReq \in [DutySlots -> DutyRequest \union {NoDutyRequest}]

DutyInit ==
  /\ shifts = [s \in ShiftIds |-> NoShift]
  /\ dutyReq = [r \in DutySlots |-> NoDutyRequest]
-------------------------------------------------------------------------------
IsShift(s) == shifts[s] \notin {NoShift, Deleted}

DutyAt(r, pc) == dutyReq[r].pc = pc

\* The environment: a member's client sends nothing while it waits.
BeginDuty(r, request) ==
  /\ dutyReq[r] = NoDutyRequest
  /\ MembersWait => \A q \in DutySlots :
                      dutyReq[q] # NoDutyRequest => dutyReq[q].member # request.member
  /\ dutyReq' = [dutyReq EXCEPT ![r] = request]

AnswerDuty(r) == dutyReq' = [dutyReq EXCEPT ![r] = NoDutyRequest]

OnShift(m) == \E s \in ShiftIds : IsShift(s) /\ shifts[s].member = m /\ shifts[s].open

\* Faulty: an open shift is no obstacle.
ClockInFindAny(r, m) ==
  /\ BeginDuty(r, [pc |-> "create", member |-> m])
  /\ UNCHANGED shifts

\* clockIn: the member must have no open shift.
ClockInFind(r, m) ==
  /\ ~ OnShift(m)
  /\ BeginDuty(r, [pc |-> "create", member |-> m])
  /\ UNCHANGED shifts

ClockInCreate(r, s) ==
  /\ DutyAt(r, "create")
  /\ shifts[s] = NoShift
  /\ shifts' = [shifts EXCEPT ![s] = 
       [member |-> dutyReq[r].member, open |-> TRUE, overwritten |-> FALSE]]
  /\ AnswerDuty(r)

\* Faulty: a shift that has ended can be ended again.
ClockOutFindAny(r, m, s) ==
  /\ IsShift(s)
  /\ shifts[s].member = m
  /\ BeginDuty(r, [pc |-> "save", member |-> m, shift |-> s])
  /\ UNCHANGED shifts

\* clockOut: a shift of the member, and not ended.
ClockOutFind(r, m, s) ==
  /\ IsShift(s)
  /\ shifts[s].member = m /\ shifts[s].open
  /\ BeginDuty(r, [pc |-> "save", member |-> m, shift |-> s])
  /\ UNCHANGED shifts

\* The save sets endTime and the notes, also of a shift ended meanwhile.
ClockOutSave(r) ==
  /\ DutyAt(r, "save")
  /\ LET s == dutyReq[r].shift
     IN  IF IsShift(s)
         THEN shifts' = [shifts EXCEPT ![s] =
                [member |-> @.member, open |-> FALSE, overwritten |-> ~ @.open]]
         ELSE UNCHANGED shifts
  /\ AnswerDuty(r)

\* remove: found and deleted in one call, ended or not.
RemoveShift(s) ==
  /\ IsShift(s)
  /\ shifts' = [shifts EXCEPT ![s] = Deleted]
  /\ UNCHANGED dutyReq

\* A lookup fails, a call throws, or the process dies: nothing was written yet.
RefuseDuty(r) ==
  /\ dutyReq[r] # NoDutyRequest
  /\ AnswerDuty(r)
  /\ UNCHANGED shifts

DutyNext ==
  \/ \E r \in DutySlots :
       \/ \E m \in Members : ClockInFind(r, m) \/ \E s \in ShiftIds : ClockOutFind(r, m, s)
       \/ \E s \in ShiftIds : ClockInCreate(r, s)
       \/ ClockOutSave(r) \/ RefuseDuty(r)
  \/ \E s \in ShiftIds : RemoveShift(s)

DutySpec == DutyInit /\ [][DutyNext]_dutyVars
-------------------------------------------------------------------------------
(* Properties.                                                             *)

\* If clients wait: a member has one open shift at most, which no index of the
\* database enforces (clockIn: "You are already clocked in"), and the time at which
\* a shift ended is not overwritten (clockOut: "You have already clocked out"),
\* although clockOut saves a copy that it read before.
OneShiftAtATime ==
  MembersWait =>
    /\ \A s, t \in ShiftIds :
         shifts[s].open /\ shifts[t].open /\ shifts[s].member = shifts[t].member => s = t
    /\ \A s \in ShiftIds : IsShift(s) => ~ shifts[s].overwritten
-------------------------------------------------------------------------------
(* What every step keeps, and the proofs rest on.                          *)

DutyWaitInv ==
  /\ \A r, q \in DutySlots :
       dutyReq[r] # NoDutyRequest /\ dutyReq[q] # NoDutyRequest
         /\ dutyReq[r].member = dutyReq[q].member => r = q
  /\ \A r \in DutySlots :
       /\ DutyAt(r, "create") => ~ OnShift(dutyReq[r].member)
       /\ DutyAt(r, "save") /\ IsShift(dutyReq[r].shift) => shifts[dutyReq[r].shift].open

DutyInv ==
  /\ DutyTypeOK
  /\ \A r \in DutySlots : DutyAt(r, "save") =>
       /\ shifts[dutyReq[r].shift] # NoShift
       /\ IsShift(dutyReq[r].shift) => shifts[dutyReq[r].shift].member = dutyReq[r].member
  /\ MembersWait => DutyWaitInv
  /\ OneShiftAtATime
===============================================================================
