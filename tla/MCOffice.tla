-------------------------------- MODULE MCOffice --------------------------------
(***************************************************************************)
(* A small instance of the components that the office works with.  They    *)
(* share no field that one writes and another reads: that members and      *)
(* accounts come and go is in each that depends on it.  No step of one     *)
(* changes what another may do, and a behaviour is one of some component,  *)
(* which scene names, while the others rest.                               *)
(***************************************************************************)
EXTENDS Leave, Departments, TeamMembers, UserAdmin, Registration, TLC

CONSTANTS m1, m2, s1, s2, jo, jon

VARIABLE scene

officeVars ==
  <<vars, deptVars, hrVars, adminVars, regVars, scene>>
-------------------------------------------------------------------------------
\* One day or two, from day 0.
OneDayOrTwo == {p \in [{"start", "end"} -> {0, 1}] : p["start"] = 0}

\* Two addresses; the user names are different.
Addresses == {"jo@a", "jon@b"}
Names == [e \in Addresses |-> IF e = "jo@a" THEN jo ELSE jon]

\* The members and accounts that may be, and their addresses.
ASSUME OfficeNames ==
  /\ Emails = Addresses /\ UserName = Names
  /\ m1 # m2 /\ MemberIds = {m1, m2} /\ AccountIds = {m1, m2}

NoHrRequests == hrReq = [r \in HrSlots |-> NoHrRequest] /\ torn = FALSE

Jon == [email |-> "jon@b", photo |-> None, stored |-> None, undone |-> FALSE]

\* Requests come one at a time.  Or they overlap, and there is an account of a member,
\* who has been removed, or is still there while every upload fails.
HrStart ==
  \/ HrInit /\ oneAtATime
  \/ /\ oneAtATime = FALSE /\ NoHrRequests
     /\ accounts = [a \in AccountIds |-> IF a = m1 THEN NoAccount
                      ELSE [email |-> "jon@b", username |-> jon, member |-> m2]]
     /\ \/ photos = {} /\ members = [m \in MemberIds |-> IF m = m1 THEN NoMember ELSE GoneMember]
        \/ photos = Images /\ members = [m \in MemberIds |-> IF m = m1 THEN NoMember ELSE Jon]

OfficeInit ==
  /\ scene \in {"leave", "departments", "hr", "users", "registration"}
  /\ Init /\ DeptInit /\ RegInit
  /\ AdminInit /\ users[m1] # NoUser
  /\ IF scene = "hr" THEN HrStart ELSE HrInit /\ oneAtATime

OfficeNext ==
  /\ UNCHANGED scene
  /\ \/ scene = "leave" /\ Next
        /\ UNCHANGED <<deptVars, hrVars, adminVars, regVars>>
     \/ scene = "departments" /\ DeptNext
        /\ UNCHANGED <<vars, hrVars, adminVars, regVars>>
     \/ scene = "hr" /\ HrNext
        /\ UNCHANGED <<vars, deptVars, adminVars, regVars>>
     \/ scene = "users" /\ AdminNext
        /\ UNCHANGED <<vars, deptVars, hrVars, regVars>>
     \/ scene = "registration" /\ RegNext
        /\ UNCHANGED <<vars, deptVars, hrVars, adminVars>>

OfficeSpec == OfficeInit /\ [][OfficeNext]_officeVars

OfficeTypeOK ==
  TypeOK /\ DeptTypeOK /\ HrTypeOK /\ AdminTypeOK /\ RegTypeOK

\* The ids of images are interchangeable, and so are the slots of requests.
Symmetry == Permutations(Images) \union Permutations({s1, s2})
===============================================================================
