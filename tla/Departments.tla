------------------------------ MODULE Departments ------------------------------
(***************************************************************************)
(* Departments, and the plans and team members that belong to them         *)
(* (HrService).  MongoDB has no foreign keys: who is put in a department   *)
(* is looked up first and written some calls later, and a department is    *)
(* deleted some calls after its plans and its members have been counted.   *)
(* One action is one call with the code up to the next await.              *)
(*                                                                         *)
(* Left out: names (a department may be refused for its name), the dates   *)
(* of a plan, and what else a member has (TeamMembers).                    *)
(***************************************************************************)
CONSTANTS DeptIds, RecordIds,  \* ids that may be given: a bound
          DeptSlots            \* slots for requests in flight

VARIABLES departments,  \* the departments, by id
          records,      \* the plans and the team members, by id
          deptReq       \* the requests in flight

deptVars == <<departments, records, deptReq>>
-------------------------------------------------------------------------------
Kinds == {"plan", "member"}

\* late: history, the record was put in its department when the department was
\* gone, or about to go without a further look at records of this kind.
Record == [kind : Kinds, department : DeptIds, late : BOOLEAN]

\* Not yet created, and deleted: an id is not given again.
NoRecord == [kind |-> "none"]
GoneRecord == [kind |-> "gone"]

DeptRequest ==
  [pc : {"countPlans", "countMembers", "delete"}, department : DeptIds]
    \union [pc : {"create"}, kind : Kinds, department : DeptIds]
    \union [pc : {"update"}, record : RecordIds, department : DeptIds]

NoDeptRequest == [pc |-> "idle"]

DeptTypeOK ==
  /\ departments \in [DeptIds -> {"UNUSED", "KEPT", "DELETED"}]
  /\ records \in [RecordIds -> Record \union {NoRecord, GoneRecord}]
  /\ deptReq \in [DeptSlots -> DeptRequest \union {NoDeptRequest}]

DeptInit ==
  /\ departments = [d \in DeptIds |-> "UNUSED"]
  /\ records = [x \in RecordIds |-> NoRecord]
  /\ deptReq = [r \in DeptSlots |-> NoDeptRequest]
-------------------------------------------------------------------------------
IsRecord(x) == records[x] \notin {NoRecord, GoneRecord}

DeptAt(r, pc) == deptReq[r].pc = pc

BeginDept(r, request) ==
  /\ deptReq[r] = NoDeptRequest
  /\ deptReq' = [deptReq EXCEPT ![r] = request]

AnswerDept(r) == deptReq' = [deptReq EXCEPT ![r] = NoDeptRequest]

\* A removal of department d is past its count of this kind.
Counted(r, kind, d) ==
  /\ DeptAt(r, "delete") \/ (DeptAt(r, "countMembers") /\ kind = "plan")
  /\ deptReq[r].department = d

TooLate(kind, d) ==
  departments[d] = "DELETED" \/ \E r \in DeptSlots : Counted(r, kind, d)

\* createDepartment
CreateDepartment(d) ==
  /\ departments[d] = "UNUSED"
  /\ departments' = [departments EXCEPT ![d] = "KEPT"]
  /\ UNCHANGED <<records, deptReq>>

\* createPlan, createTeamMember: findDepartment.
CreateRecordFind(r, kind, d) ==
  /\ departments[d] = "KEPT"
  /\ BeginDept(r, [pc |-> "create", kind |-> kind, department |-> d])
  /\ UNCHANGED <<departments, records>>

CreateRecord(r, x) ==
  /\ DeptAt(r, "create")
  /\ records[x] = NoRecord
  /\ LET q == deptReq[r]
     IN  records' = [records EXCEPT ![x] =
           [kind |-> q.kind, department |-> q.department, late |-> TooLate(q.kind, q.department)]]
  /\ AnswerDept(r)
  /\ UNCHANGED departments

\* updatePlan, updateTeamMember, when the request names a department.
UpdateRecordFind(r, x, d) ==
  /\ IsRecord(x)
  /\ departments[d] = "KEPT"
  /\ BeginDept(r, [pc |-> "update", record |-> x, department |-> d])
  /\ UNCHANGED <<departments, records>>

\* By id; nothing is updated that has been deleted meanwhile.
UpdateRecord(r) ==
  /\ DeptAt(r, "update")
  /\ LET x == deptReq[r].record
         d == deptReq[r].department
     IN  IF IsRecord(x)
         THEN records' = [records EXCEPT ![x] =
                [@ EXCEPT !.department = d, !.late = TooLate(records[x].kind, d)]]
         ELSE UNCHANGED records
  /\ AnswerDept(r)
  /\ UNCHANGED departments

\* removePlan, removeTeamMember: what is deleted is gone, whoever else deletes it.
RemoveRecord(x) ==
  /\ IsRecord(x)
  /\ records' = [records EXCEPT ![x] = GoneRecord]
  /\ UNCHANGED <<departments, deptReq>>
-------------------------------------------------------------------------------
(* removeDepartment: found, two counts, deleted.                            *)

RemoveDepartmentFind(r, d) ==
  /\ departments[d] = "KEPT"
  /\ BeginDept(r, [pc |-> "countPlans", department |-> d])
  /\ UNCHANGED <<departments, records>>

Holds(d, kind) == \E x \in RecordIds : IsRecord(x) /\ records[x].kind = kind /\ records[x].department = d

ProceedDept(r, pc) == deptReq' = [deptReq EXCEPT ![r].pc = pc]

CountPlans(r) ==
  /\ DeptAt(r, "countPlans")
  /\ IF Holds(deptReq[r].department, "plan") THEN AnswerDept(r) ELSE ProceedDept(r, "countMembers")
  /\ UNCHANGED <<departments, records>>

\* Faulty: plans are counted again.
CountPlansTwice(r) ==
  /\ DeptAt(r, "countMembers")
  /\ IF Holds(deptReq[r].department, "plan") THEN AnswerDept(r) ELSE ProceedDept(r, "delete")
  /\ UNCHANGED <<departments, records>>

CountMembers(r) ==
  /\ DeptAt(r, "countMembers")
  /\ IF Holds(deptReq[r].department, "member") THEN AnswerDept(r) ELSE ProceedDept(r, "delete")
  /\ UNCHANGED <<departments, records>>

DeleteDepartment(r) ==
  /\ DeptAt(r, "delete")
  /\ departments' = [departments EXCEPT ![deptReq[r].department] = "DELETED"]
  /\ AnswerDept(r)
  /\ UNCHANGED records

\* A check refuses, a call throws, or the process dies: nothing was written yet.
RefuseDept(r) ==
  /\ deptReq[r] # NoDeptRequest
  /\ AnswerDept(r)
  /\ UNCHANGED <<departments, records>>

DeptNext ==
  \/ \E d \in DeptIds : CreateDepartment(d)
  \/ \E x \in RecordIds : RemoveRecord(x)
  \/ \E r \in DeptSlots :
       \/ \E d \in DeptIds :
            \/ RemoveDepartmentFind(r, d)
            \/ \E kind \in Kinds : CreateRecordFind(r, kind, d)
            \/ \E x \in RecordIds : UpdateRecordFind(r, x, d)
       \/ \E x \in RecordIds : CreateRecord(r, x)
       \/ UpdateRecord(r)
       \/ CountPlans(r) \/ CountMembers(r) \/ DeleteDepartment(r) \/ RefuseDept(r)

DeptSpec == DeptInit /\ [][DeptNext]_deptVars
-------------------------------------------------------------------------------
(* Properties.                                                             *)

\* A plan or a team member whose department is gone was put in it after the
\* removal had counted such records: whatever else overlaps, none is left behind
\* (removeDepartment, createPlan, updatePlan, createTeamMember, updateTeamMember).
OrphansOnlyRaced ==
  \A x \in RecordIds :
    IsRecord(x) /\ departments[records[x].department] = "DELETED" => records[x].late
-------------------------------------------------------------------------------
(* What every step keeps, and the proofs rest on.                          *)

\* Every record in a department that a removal no longer looks at is a late one.
CountedInv ==
  \A r \in DeptSlots, x \in RecordIds :
    IsRecord(x) /\ Counted(r, records[x].kind, records[x].department) => records[x].late

DeptInv == DeptTypeOK /\ CountedInv /\ OrphansOnlyRaced
===============================================================================
