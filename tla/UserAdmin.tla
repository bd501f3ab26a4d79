------------------------------- MODULE UserAdmin -------------------------------
(***************************************************************************)
(* Roles and statuses of the accounts, as administrators set them          *)
(* (UserService).  update reads the account, counts the administrators if  *)
(* one is to be deactivated, and writes some calls later: one action is    *)
(* one call with the code up to the next await.                            *)
(*                                                                         *)
(* Left out: names and addresses (a creation may be refused for one), the  *)
(* profile, the mail for a new account (Registration), and the sessions,   *)
(* which a change of status or role does not end (AuthSessions).           *)
(***************************************************************************)
EXTENDS FiniteSets, Naturals

CONSTANTS Users,        \* accounts that may exist: a bound
          AdminSlots    \* slots for requests in flight

ASSUME UsersFinite == IsFiniteSet(Users)

\* unguarded: history, an active administrator was taken away without a count, or
\* after a count that another request has made untrue since.
VARIABLES users,        \* the accounts
          adminReq,     \* the requests in flight
          unguarded

adminVars == <<users, adminReq, unguarded>>
-------------------------------------------------------------------------------
UserRoles == {"ADMINISTRATOR", "OTHER"}
UserStatuses == {"ACTIVE", "INACTIVE", "SUSPENDED"}

User == [role : UserRoles, status : UserStatuses]

NoUser == [role |-> "NONE", status |-> "NONE"]

\* role, status: what the request sets, if anything.  counted: it has passed the
\* count; stale: history, active administrators have become fewer since.
AdminRequest ==
  [pc : {"count", "write"}, user : Users, role : UserRoles \union {"KEPT"},
   status : UserStatuses \union {"KEPT"}, counted : BOOLEAN, stale : BOOLEAN]

NoAdminRequest == [pc |-> "idle"]

AdminTypeOK ==
  /\ users \in [Users -> User \union {NoUser}]
  /\ adminReq \in [AdminSlots -> AdminRequest \union {NoAdminRequest}]
  /\ unguarded \in BOOLEAN

\* scripts and seeds are no part of the program: it starts with an administrator.
AdminInit ==
  /\ \E u \in Users :
       users = [x \in Users |-> IF x = u THEN [role |-> "ADMINISTRATOR", status |-> "ACTIVE"] ELSE NoUser]
  /\ adminReq = [r \in AdminSlots |-> NoAdminRequest]
  /\ unguarded = FALSE
-------------------------------------------------------------------------------
AdminAt(r, pc) == adminReq[r].pc = pc

ActiveAdmins(all) == {u \in Users : all[u] = [role |-> "ADMINISTRATOR", status |-> "ACTIVE"]}

AnswerAdmin(r) == adminReq' = [adminReq EXCEPT ![r] = NoAdminRequest]

\* create: an active account of any role.
CreateUser(u, role) ==
  /\ users[u] = NoUser
  /\ users' = [users EXCEPT ![u] = [role |-> role, status |-> "ACTIVE"]]
  /\ UNCHANGED <<adminReq, unguarded>>

\* update, which deactivate calls with no more than the status.
UpdateUserFind(r, u, role, status) ==
  /\ AdminAt(r, "idle")
  /\ users[u] # NoUser
  /\ LET guarded == users[u].role = "ADMINISTRATOR" /\ status = "INACTIVE"
     IN  adminReq' = [adminReq EXCEPT ![r] =
           [pc |-> IF guarded THEN "count" ELSE "write", user |-> u, role |-> role, status |-> status,
            counted |-> FALSE, stale |-> FALSE]]
  /\ UNCHANGED <<users, unguarded>>

\* Faulty: inactive administrators are counted as well.
CountAnyAdmins(r) ==
  /\ AdminAt(r, "count")
  /\ IF Cardinality({u \in Users : users[u].role = "ADMINISTRATOR"}) <= 1 THEN AnswerAdmin(r)
     ELSE adminReq' = [adminReq EXCEPT ![r].pc = "write", ![r].counted = TRUE]
  /\ UNCHANGED <<users, unguarded>>

\* At least one active administrator is required: two before this one goes.
CountAdmins(r) ==
  /\ AdminAt(r, "count")
  /\ IF Cardinality(ActiveAdmins(users)) <= 1 THEN AnswerAdmin(r)
     ELSE adminReq' = [adminReq EXCEPT ![r].pc = "write", ![r].counted = TRUE]
  /\ UNCHANGED <<users, unguarded>>

Set(user, role, status) ==
  [role |-> IF role = "KEPT" THEN user.role ELSE role,
   status |-> IF status = "KEPT" THEN user.status ELSE status]

UpdateUserWrite(r) ==
  /\ AdminAt(r, "write")
  /\ LET q == adminReq[r]
         after == [users EXCEPT ![q.user] = Set(@, q.role, q.status)]
         fewer == ~ ActiveAdmins(users) \subseteq ActiveAdmins(after)
     IN  /\ users' = after
         /\ unguarded' = (unguarded \/ (fewer /\ (q.stale \/ ~ q.counted)))
         /\ adminReq' = [x \in AdminSlots |->
              IF x = r THEN NoAdminRequest
              ELSE IF AdminAt(x, "write") THEN [adminReq[x] EXCEPT !.stale = @ \/ fewer]
              ELSE adminReq[x]]

\* A call throws, or the process dies: nothing was written yet.
RefuseAdmin(r) ==
  /\ ~ AdminAt(r, "idle")
  /\ AnswerAdmin(r)
  /\ UNCHANGED <<users, unguarded>>

AdminNext ==
  \/ \E u \in Users, role \in UserRoles : CreateUser(u, role)
  \/ \E r \in AdminSlots :
       \/ \E u \in Users, role \in UserRoles \union {"KEPT"}, status \in UserStatuses \union {"KEPT"} :
            UpdateUserFind(r, u, role, status)
       \/ CountAdmins(r) \/ UpdateUserWrite(r) \/ RefuseAdmin(r)

AdminSpec == AdminInit /\ [][AdminNext]_adminVars
-------------------------------------------------------------------------------
(* Properties.                                                             *)

\* "At least one active administrator is required" (update): one remains, as long as
\* nobody demotes or suspends one, which update does not count, and no deactivation
\* goes by a count that another request has made untrue.
AdminRemains == ~ unguarded => ActiveAdmins(users) # {}
-------------------------------------------------------------------------------
(* What every step keeps, and the proof rests on.                          *)

\* A count that no other request has made untrue still stands.
CountStands ==
  \A r \in AdminSlots :
    AdminAt(r, "write") /\ adminReq[r].counted /\ ~ adminReq[r].stale =>
      \E a, b \in ActiveAdmins(users) : a # b

\* A request is about an account that there is.
AccountsKnown ==
  \A r \in AdminSlots : ~ AdminAt(r, "idle") => users[adminReq[r].user] # NoUser

AdminInv == AdminTypeOK /\ AccountsKnown /\ CountStands /\ AdminRemains
===============================================================================
