------------------------------ MODULE Assignments ------------------------------
(***************************************************************************)
(* The team of one assignment: the office writes it (WhereaboutsService),  *)
(* its own members add and remove each other (TimesheetsService).          *)
(*                                                                         *)
(* addTeamMember and removeTeamMember change a copy of the document and    *)
(* save it.  What mongoose makes of that is external: an array that was    *)
(* only pushed to is pushed to in the database; one that was assigned is   *)
(* replaced, provided that __v is still the one that was read; both move   *)
(* __v on, and a save of a document that is gone throws.  The office's     *)
(* findByIdAndUpdate neither compares __v nor moves it.                    *)
(*                                                                         *)
(* Left out: the project, the dates and the places, and how often a member *)
(* is listed (two additions may list one twice; every reader asks whether  *)
(* a member is listed, and a removal takes out all entries).               *)
(***************************************************************************)
CONSTANTS Staff,       \* team members
          Lists,       \* the lists of members that the office may send: a bound
          TeamSlots    \* slots for requests in flight

ASSUME TeamConstants == Lists \subseteq SUBSET Staff

\* decided: history, the team as the office last wrote it, with those whom members'
\* requests have added since and without those whom they removed.
VARIABLES assignment, teamReq, decided

teamVars == <<assignment, teamReq, decided>>
-------------------------------------------------------------------------------
Assignment == [engineers : SUBSET Staff, workers : SUBSET Staff]

\* Not yet created, and deleted: an id is not given again.
NoAssignment == [state |-> "UNUSED"]
Removed == [state |-> "DELETED"]

\* stale: a save has moved __v on since the copy was read; superseded: history,
\* the office has written since.
TeamRequest ==
  [pc : {"push"}, member : Staff]
    \union [pc : {"replace"}, member : Staff, copy : Assignment, stale : BOOLEAN,
            superseded : BOOLEAN]

NoTeamRequest == [pc |-> "idle"]

TeamTypeOK ==
  /\ assignment \in Assignment \union {NoAssignment, Removed}
  /\ teamReq \in [TeamSlots -> TeamRequest \union {NoTeamRequest}]
  /\ decided \in SUBSET Staff

TeamInit ==
  /\ assignment = NoAssignment
  /\ teamReq = [r \in TeamSlots |-> NoTeamRequest]
  /\ decided = {}
-------------------------------------------------------------------------------
IsAssignment == assignment \notin {NoAssignment, Removed}

Team(a) == a.engineers \union a.workers

TeamAt(r, pc) == teamReq[r].pc = pc

BeginTeam(r, request) ==
  /\ teamReq[r] = NoTeamRequest
  /\ teamReq' = [teamReq EXCEPT ![r] = request]
  /\ UNCHANGED <<assignment, decided>>

AnswerTeam(r) == teamReq' = [teamReq EXCEPT ![r] = NoTeamRequest]

\* The request is answered, and its save has moved __v on.
AnswerSaved(r) ==
  teamReq' = [q \in TeamSlots |->
    IF q = r THEN NoTeamRequest
    ELSE IF TeamAt(q, "replace") THEN [teamReq[q] EXCEPT !.stale = TRUE]
    ELSE teamReq[q]]

\* The team is written from what the writer knew, not from what is there.
Rewritten(a) ==
  /\ assignment' = a
  /\ decided' = Team(a)

\* create and update: one call writes.
OfficeWrites(a) ==
  /\ Rewritten(a)
  /\ teamReq' = [q \in TeamSlots |->
       IF TeamAt(q, "replace") THEN [teamReq[q] EXCEPT !.superseded = TRUE] ELSE teamReq[q]]

\* create
CreateAssignment(engineers, workers) ==
  /\ assignment = NoAssignment
  /\ OfficeWrites([engineers |-> engineers, workers |-> workers])

\* update: a list left out of the request stays as it is.
UpdateAssignment(engineers, workers) ==
  /\ IsAssignment
  /\ OfficeWrites([engineers |-> engineers, workers |-> workers])

\* remove
RemoveAssignment ==
  /\ IsAssignment
  /\ assignment' = Removed
  /\ UNCHANGED <<teamReq, decided>>

\* addTeamMember by e: on the team itself; a member who is on it already is left.
AddFind(r, e, m) ==
  /\ IsAssignment
  /\ e \in Team(assignment) /\ m \notin Team(assignment)
  /\ BeginTeam(r, [pc |-> "push", member |-> m])

AddSave(r) ==
  /\ TeamAt(r, "push")
  /\ LET m == teamReq[r].member
     IN  IF IsAssignment
         THEN /\ assignment' = [assignment EXCEPT !.engineers = @ \union {m}]
              /\ decided' = decided \union {m}
              /\ AnswerSaved(r)
         ELSE AnswerTeam(r) /\ UNCHANGED <<assignment, decided>>

\* removeTeamMember by e, not of itself; nothing is saved for one who is not listed.
RemoveFind(r, e, m) ==
  /\ IsAssignment
  /\ e \in Team(assignment) /\ m \in Team(assignment) /\ m # e
  /\ BeginTeam(r, [pc |-> "replace", member |-> m, copy |-> assignment,
                   stale |-> FALSE, superseded |-> FALSE])

\* Of the copy, the lists that held the member are written back without it.
Without(m, copy) ==
  [engineers |-> IF m \in copy.engineers THEN copy.engineers \ {m} ELSE assignment.engineers,
   workers   |-> IF m \in copy.workers THEN copy.workers \ {m} ELSE assignment.workers]

\* The member is taken off; or, if the office has written since the copy was read,
\* what the office wrote is overwritten.
Dropped(r, a) ==
  IF teamReq[r].superseded THEN Rewritten(a)
  ELSE /\ assignment' = a
       /\ decided' = decided \ {teamReq[r].member}

\* Faulty: the copy is written back whatever has been saved since.
RemoveSaveAnyVersion(r) ==
  /\ TeamAt(r, "replace")
  /\ IsAssignment
  /\ Dropped(r, Without(teamReq[r].member, teamReq[r].copy))
  /\ AnswerSaved(r)

\* The save: only if no other save has moved __v on.
RemoveSave(r) ==
  /\ TeamAt(r, "replace")
  /\ IsAssignment /\ ~ teamReq[r].stale
  /\ Dropped(r, Without(teamReq[r].member, teamReq[r].copy))
  /\ AnswerSaved(r)

\* A lookup fails, a save finds another version or no document, or the process dies.
RefuseTeam(r) ==
  /\ teamReq[r] # NoTeamRequest
  /\ AnswerTeam(r)
  /\ UNCHANGED <<assignment, decided>>

TeamNext ==
  \/ \E es, ws \in Lists : CreateAssignment(es, ws) \/ UpdateAssignment(es, ws)
  \/ RemoveAssignment
  \/ \E r \in TeamSlots :
       \/ \E e, m \in Staff : AddFind(r, e, m) \/ RemoveFind(r, e, m)
       \/ AddSave(r) \/ RemoveSave(r) \/ RefuseTeam(r)

TeamSpec == TeamInit /\ [][TeamNext]_teamVars
-------------------------------------------------------------------------------
(* Properties.                                                             *)

\* The team is what the office made of it, with those whom members have added since
\* and without those whom they removed: no request of a member undoes another's that
\* overlaps it, although a removal writes whole lists back (removeTeamMember).  Only
\* an update of the office can be overwritten by a removal that began before it.
TeamChangesKept ==
  IsAssignment => Team(assignment) = decided
-------------------------------------------------------------------------------
(* What every step keeps, and the proofs rest on.                          *)

\* A copy that nothing was written over is the assignment as it is.
CopyOfTeam(r) ==
  TeamAt(r, "replace") /\ IsAssignment /\ ~ teamReq[r].stale /\ ~ teamReq[r].superseded =>
    teamReq[r].copy = assignment

TeamInv ==
  /\ TeamTypeOK
  /\ \A r \in TeamSlots :
       /\ CopyOfTeam(r)
       /\ TeamAt(r, "push") \/ TeamAt(r, "replace") => assignment # NoAssignment
  /\ TeamChangesKept
===============================================================================
