------------------------------ MODULE TeamMembers ------------------------------
(***************************************************************************)
(* Team members, the accounts made for them and the photographs they are   *)
(* shown with (HrService): three stores, written one after the other by    *)
(* the same request.  A member and an account know each other by e-mail    *)
(* address alone.  One action is one call with the code up to the next     *)
(* await.                                                                  *)
(*                                                                         *)
(* Left out: the department (Departments), the documents, whose images are *)
(* handled like the photographs but never removed with the member, the     *)
(* profile of an account, and accounts that nobody made for a member.      *)
(***************************************************************************)
CONSTANTS Emails,
          UserName,     \* the part of an address before the @
          MemberIds, AccountIds, Images,  \* ids that may be given: a bound
          None,
          HrSlots       \* slots for requests in flight

\* A photograph that belongs to the account's profile and is never removed.
Avatar == "AVATAR"

ASSUME HrConstants ==
  /\ Avatar \notin Images
  /\ None \notin MemberIds \union AccountIds \union Images \union Emails

\* oneAtATime: environment, whether no request begins while another is in flight.
\* torn: history, whether an update has ended between its two writes.
VARIABLES members,     \* the team members, by id
          accounts,    \* the accounts, by id
          photos,      \* the images stored in Cloudinary
          hrReq,       \* the requests in flight
          oneAtATime,
          torn

hrVars == <<members, accounts, photos, hrReq, oneAtATime, torn>>
-------------------------------------------------------------------------------
\* photo: photoUrl; stored: photoPublicId.  undone: history, the request that set the
\* photograph failed later on and took the image back.
Member ==
  [email : Emails, photo : Images \union {None, Avatar}, stored : Images \union {None},
   undone : BOOLEAN]

\* Not yet created, and deleted: an id is not given again.
NoMember == [email |-> None, state |-> "UNUSED"]
GoneMember == [email |-> None, state |-> "DELETED"]

\* member: history, for whom the account was made.
Account == [email : Emails, username : {UserName[e] : e \in Emails}, member : MemberIds]

NoAccount == [email |-> None, username |-> None, member |-> None]

Steps ==
  {"upload", "insert", "findAccount", "createAccount", "findLinked", "findConflict", "checkEmail",
   "findPhoto", "write", "moveAccount", "delete", "removeOld", "discard"}

\* email: the address in the request, if any; wants: an account is asked for; photo: a
\* photograph came with it; before: the e-mail address that was read; image: what was uploaded; old: what is to go.
HrRequest ==
  [pc : Steps \union {"idle"}, member : MemberIds \union {None}, email : Emails \union {None},
   wants : BOOLEAN, photo : BOOLEAN, before : Emails \union {None},
   linked : AccountIds \union {None}, image : Images \union {None}, old : Images \union {None}]

NoHrRequest ==
  [pc |-> "idle", member |-> None, email |-> None, wants |-> FALSE, photo |-> FALSE,
   before |-> None, linked |-> None, image |-> None, old |-> None]

HrTypeOK ==
  /\ members \in [MemberIds -> Member \union {NoMember, GoneMember}]
  /\ accounts \in [AccountIds -> Account \union {NoAccount}]
  /\ photos \subseteq Images
  /\ hrReq \in [HrSlots -> HrRequest]
  /\ oneAtATime \in BOOLEAN /\ torn \in BOOLEAN

HrInit ==
  /\ members = [m \in MemberIds |-> NoMember]
  /\ accounts = [a \in AccountIds |-> NoAccount]
  /\ photos = {}
  /\ hrReq = [r \in HrSlots |-> NoHrRequest]
  /\ oneAtATime \in BOOLEAN
  /\ torn = FALSE
-------------------------------------------------------------------------------
HrAt(r, pc) == hrReq[r].pc = pc

HrIdle == \A r \in HrSlots : HrAt(r, "idle")

BeginHr(r, request) ==
  /\ HrAt(r, "idle")
  /\ oneAtATime => HrIdle
  /\ hrReq' = [hrReq EXCEPT ![r] = request]
  /\ UNCHANGED <<members, accounts, photos, oneAtATime, torn>>

StepHr(r, pc) == hrReq' = [hrReq EXCEPT ![r].pc = pc]

AnswerHr(r) == hrReq' = [hrReq EXCEPT ![r] = NoHrRequest]

\* The catch blocks; removePhoto does nothing without an image.
FailHr(r) ==
  hrReq' = [hrReq EXCEPT ![r] =
    IF hrReq[r].image = None THEN NoHrRequest
    ELSE [NoHrRequest EXCEPT !.pc = "discard", !.image = hrReq[r].image]]

\* A call of request r that only reads.
ReadHr(r, pc) == HrAt(r, pc) /\ UNCHANGED <<members, accounts, photos, oneAtATime, torn>>

IsMember(m) == members[m] \notin {NoMember, GoneMember}

MemberWith(email) == {m \in MemberIds : members[m].email = email}
AccountWith(email) == {a \in AccountIds : accounts[a].email = email}

\* An id that Cloudinary has not given yet.
NewImage(i) ==
  /\ i \notin photos
  /\ \A m \in MemberIds : IsMember(m) => i \notin {members[m].photo, members[m].stored}
  /\ \A r \in HrSlots : i \notin {hrReq[r].image, hrReq[r].old}

\* uploadTeamMemberPhoto, of a new member or of one that is there.
Upload(r, i) ==
  /\ HrAt(r, "upload") /\ NewImage(i)
  /\ photos' = photos \union {i}
  /\ hrReq' = [hrReq EXCEPT ![r].image = i,
                            ![r].pc = IF hrReq[r].member = None THEN "insert" ELSE "write"]
  /\ UNCHANGED <<members, accounts, oneAtATime, torn>>

\* What was uploaded is removed again, and the request has failed.
Discard(r) ==
  /\ HrAt(r, "discard")
  /\ photos' = photos \ {hrReq[r].image}
  /\ members' = [m \in MemberIds |->
       IF IsMember(m) /\ members[m].photo \in Images /\ members[m].photo = hrReq[r].image
       THEN [members[m] EXCEPT !.undone = TRUE] ELSE members[m]]
  /\ AnswerHr(r)
  /\ UNCHANGED <<accounts, oneAtATime, torn>>
-------------------------------------------------------------------------------
(* createTeamMember                                                        *)

\* assertWorkEmailAvailable
CreateMemberFind(r, email, photo, wants) ==
  /\ MemberWith(email) = {}
  /\ BeginHr(r, [NoHrRequest EXCEPT !.pc = IF photo THEN "upload" ELSE "insert",
                                    !.email = email, !.wants = wants])

\* create; the index refuses a second member with the address.
InsertMember(r) ==
  /\ HrAt(r, "insert")
  /\ LET q == hrReq[r]
     IN  IF MemberWith(q.email) # {} THEN FailHr(r) /\ UNCHANGED members
         ELSE \E m \in {x \in MemberIds : members[x] = NoMember} :
           /\ members' = [members EXCEPT ![m] = [email |-> q.email, photo |-> q.image,
                                                 stored |-> q.image, undone |-> FALSE]]
           /\ hrReq' = [hrReq EXCEPT ![r] =
                IF q.wants THEN [q EXCEPT !.pc = "findAccount", !.member = m] ELSE NoHrRequest]
  /\ UNCHANGED <<accounts, photos, oneAtATime, torn>>

\* An account that has the address already is left as it is.
FindAccount(r) ==
  /\ ReadHr(r, "findAccount")
  /\ IF AccountWith(hrReq[r].email) # {} THEN AnswerHr(r) ELSE StepHr(r, "createAccount")

\* create; addresses and user names are unique.  The account's profile may fail.
CreateAccount(r) ==
  /\ HrAt(r, "createAccount")
  /\ LET q == hrReq[r]
     IN  IF \E b \in AccountIds : accounts[b].email = q.email \/ accounts[b].username = UserName[q.email]
         THEN FailHr(r) /\ UNCHANGED accounts
         ELSE \E a \in {x \in AccountIds : accounts[x] = NoAccount} :
           /\ accounts' = [accounts EXCEPT ![a] =
                [email |-> q.email, username |-> UserName[q.email], member |-> q.member]]
           /\ AnswerHr(r) \/ FailHr(r)
  /\ UNCHANGED <<members, photos, oneAtATime, torn>>
-------------------------------------------------------------------------------
(* updateTeamMember                                                        *)

\* findTeamMember.  A request may leave the address out, or repeat the member's.
UpdateMemberFind(r, m, email, photo) ==
  /\ IsMember(m)
  /\ BeginHr(r, [NoHrRequest EXCEPT
       !.member = m, !.email = email, !.before = members[m].email, !.photo = photo,
       !.pc = CASE email = None -> IF photo THEN "findPhoto" ELSE "write"
                [] email = members[m].email -> "checkEmail"
                [] OTHER -> "findLinked"])

\* Faulty: the account is looked for at the new address.
FindLinkedNew(r) ==
  /\ ReadHr(r, "findLinked")
  /\ LET found == AccountWith(hrReq[r].email)
     IN  hrReq' = [hrReq EXCEPT
           ![r].linked = IF found = {} THEN None ELSE CHOOSE a \in found : TRUE,
           ![r].pc = IF found = {} THEN "checkEmail" ELSE "findConflict"]

\* The account is looked for at the address that was read.
FindLinked(r) ==
  /\ ReadHr(r, "findLinked")
  /\ LET found == AccountWith(hrReq[r].before)
     IN  hrReq' = [hrReq EXCEPT
           ![r].linked = IF found = {} THEN None ELSE CHOOSE a \in found : TRUE,
           ![r].pc = IF found = {} THEN "checkEmail" ELSE "findConflict"]

FindConflict(r) ==
  /\ ReadHr(r, "findConflict")
  /\ IF AccountWith(hrReq[r].email) \subseteq {hrReq[r].linked} THEN StepHr(r, "checkEmail") ELSE AnswerHr(r)

\* assertWorkEmailAvailable
CheckEmail(r) ==
  /\ ReadHr(r, "checkEmail")
  /\ IF MemberWith(hrReq[r].email) \subseteq {hrReq[r].member}
     THEN StepHr(r, IF hrReq[r].photo THEN "findPhoto" ELSE "write") ELSE AnswerHr(r)

FindPhoto(r) ==
  /\ ReadHr(r, "findPhoto")
  /\ LET m == hrReq[r].member
     IN  hrReq' = [hrReq EXCEPT ![r].old = IF IsMember(m) THEN members[m].stored ELSE None,
                                ![r].pc = "upload"]

\* What follows the last write: the image that was replaced is removed.
Finish(q) ==
  IF q.old = None THEN NoHrRequest
  ELSE [NoHrRequest EXCEPT !.pc = "removeOld", !.image = q.image, !.old = q.old]

\* update: nothing if the member is gone, refused if the address was taken meanwhile.
WriteMember(r) ==
  /\ HrAt(r, "write")
  /\ LET q == hrReq[r]
         m == q.member
     IN  IF IsMember(m) /\ q.email # None /\ ~ MemberWith(q.email) \subseteq {m}
         THEN FailHr(r) /\ UNCHANGED members
         ELSE /\ members' = IF ~ IsMember(m) THEN members ELSE
                   [members EXCEPT ![m] =
                     [email  |-> IF q.email = None THEN @.email ELSE q.email,
                      photo  |-> IF q.photo THEN q.image ELSE @.photo,
                      stored |-> IF q.photo THEN q.image ELSE @.stored,
                      undone |-> @.undone /\ ~ q.photo]]
              /\ hrReq' = [hrReq EXCEPT ![r] =
                   IF q.linked # None THEN [q EXCEPT !.pc = "moveAccount"] ELSE Finish(q)]
  /\ UNCHANGED <<accounts, photos, oneAtATime, torn>>

\* The linked account takes the new address, unless it was taken meanwhile.
MoveAccount(r) ==
  /\ HrAt(r, "moveAccount")
  /\ LET q == hrReq[r]
     IN  IF ~ AccountWith(q.email) \subseteq {q.linked} THEN FailHr(r) /\ UNCHANGED accounts
         ELSE /\ accounts' = [accounts EXCEPT ![q.linked].email = q.email]
              /\ hrReq' = [hrReq EXCEPT ![r] = Finish(q)]
  /\ UNCHANGED <<members, photos, oneAtATime, torn>>
-------------------------------------------------------------------------------
(* removeTeamMember; updateProfile of the member's account.                *)

RemoveMemberFind(r, m) ==
  /\ IsMember(m)
  /\ BeginHr(r, [NoHrRequest EXCEPT !.pc = "delete", !.member = m, !.old = members[m].stored])

DeleteMember(r) ==
  /\ HrAt(r, "delete")
  /\ members' = [members EXCEPT ![hrReq[r].member] = GoneMember]
  /\ hrReq' = [hrReq EXCEPT ![r] = Finish(hrReq[r])]
  /\ UNCHANGED <<accounts, photos, oneAtATime, torn>>

\* Faulty: the photograph is removed that was uploaded.
RemoveUploaded(r) ==
  /\ HrAt(r, "removeOld")
  /\ photos' = photos \ {hrReq[r].image}
  /\ AnswerHr(r)
  /\ UNCHANGED <<members, accounts, oneAtATime, torn>>

\* The last step of an update with a photograph and of a removal.
RemoveOld(r) ==
  /\ HrAt(r, "removeOld")
  /\ photos' = photos \ {hrReq[r].old}
  /\ AnswerHr(r)
  /\ UNCHANGED <<members, accounts, oneAtATime, torn>>

\* updateProfile (AuthService): a member with the account's address is shown with the
\* image of the profile, if there is one; photoPublicId stays.  The account, the profile
\* and the member are read and written in calls of their own, in one step here: no
\* property tells apart what may happen between them.
ProfileUpdated(a) ==
  /\ accounts[a] # NoAccount
  /\ \E m \in MemberWith(accounts[a].email) :
       members' = [members EXCEPT ![m].photo = Avatar]
  /\ UNCHANGED <<accounts, photos, hrReq, oneAtATime, torn>>

\* A call throws: after an upload it is caught, except in the last step.
Throw(r) ==
  /\ ~ HrAt(r, "idle")
  /\ torn' = (torn \/ HrAt(r, "moveAccount"))
  /\ IF hrReq[r].pc \in {"insert", "findAccount", "createAccount", "write", "moveAccount"}
     THEN FailHr(r) ELSE AnswerHr(r)
  /\ UNCHANGED <<members, accounts, photos, oneAtATime>>

\* The process dies, and with it every request.
Die ==
  /\ ~ HrIdle
  /\ torn' = (torn \/ \E r \in HrSlots : HrAt(r, "moveAccount"))
  /\ hrReq' = [r \in HrSlots |-> NoHrRequest]
  /\ UNCHANGED <<members, accounts, photos, oneAtATime>>

HrStep(r) ==
  \/ \E email \in Emails, photo, wants \in BOOLEAN : CreateMemberFind(r, email, photo, wants)
  \/ \E m \in MemberIds : RemoveMemberFind(r, m)
  \/ \E m \in MemberIds, email \in Emails \union {None}, photo \in BOOLEAN :
       UpdateMemberFind(r, m, email, photo)
  \/ \E i \in Images : Upload(r, i)
  \/ InsertMember(r) \/ FindAccount(r) \/ CreateAccount(r)
  \/ FindLinked(r) \/ FindConflict(r) \/ CheckEmail(r) \/ FindPhoto(r)
  \/ WriteMember(r) \/ MoveAccount(r) \/ DeleteMember(r) \/ RemoveOld(r) \/ Discard(r) \/ Throw(r)

HrNext ==
  \/ \E r \in HrSlots : HrStep(r)
  \/ \E a \in AccountIds : ProfileUpdated(a)
  \/ Die

HrSpec == HrInit /\ [][HrNext]_hrVars
-------------------------------------------------------------------------------
(* Properties.                                                             *)

\* The image a member is shown with is stored: what an update or a removal takes out
\* of Cloudinary was not put back on show meanwhile (updateTeamMember and
\* removeTeamMember remove what they read before they wrote).  Only a request that
\* fails after its write takes back what it left on show.
PhotosShown ==
  \A m \in MemberIds :
    IsMember(m) /\ members[m].photo \in Images /\ members[m].photo \notin photos => members[m].undone

\* As long as requests come one at a time and no update stops between its writes, the
\* account that was made for a member has the member's address, so that its holder
\* signs in with it and is found as that engineer (createTeamMember, updateTeamMember).
AccountsFollow ==
  oneAtATime /\ HrIdle /\ ~ torn =>
    \A a \in AccountIds :
      accounts[a] # NoAccount /\ IsMember(accounts[a].member) =>
        accounts[a].email = members[accounts[a].member].email
-------------------------------------------------------------------------------
(* What every step keeps, and the proof rests on.                          *)

\* What each step needs to have been done.
HrProgress(q) ==
  /\ q.pc \in {"insert", "findAccount", "createAccount"} \/ (q.pc = "upload" /\ q.member = None) =>
       q.email # None
  /\ q.pc # "idle" /\ q.pc \notin {"upload", "insert", "removeOld", "discard"} => q.member # None
  /\ q.old # None => q.pc \in {"upload", "write", "moveAccount", "delete", "removeOld"}
  /\ q.pc = "write" => (q.photo <=> q.image # None) /\ (q.old # None => q.photo)
  /\ q.pc = "upload" /\ q.member = None => q.old = None
  /\ q.pc \in {"findLinked", "findConflict", "checkEmail", "findPhoto", "upload"} => q.image = None
  /\ q.pc = "findPhoto" \/ (q.pc = "upload" /\ q.member # None) => q.photo
  /\ q.linked # None \/ q.pc = "findLinked" => q.email # None
  /\ q.pc = "moveAccount" => q.linked # None

Stores(m, i) == IsMember(m) /\ members[m].stored = i

\* An image that is about to be put on show is stored, and nobody else has to do
\* with it.
PendingOwn ==
  \A r \in HrSlots :
    hrReq[r].pc \in {"insert", "write"} /\ hrReq[r].image # None =>
      /\ hrReq[r].image \in photos
      /\ \A m \in MemberIds : ~ Stores(m, hrReq[r].image)
      /\ \A q \in HrSlots : hrReq[q].old # hrReq[r].image /\ (hrReq[q].image = hrReq[r].image => q = r)

\* What a request is to remove belongs to its own member, until it is replaced.
OldOwn ==
  \A r \in HrSlots, m \in MemberIds :
    hrReq[r].old # None /\ Stores(m, hrReq[r].old) =>
      m = hrReq[r].member /\ hrReq[r].pc \in {"upload", "write", "delete"}

\* No image is of two members, and the one on show is the one that is kept.
PhotosOwn ==
  \A m \in MemberIds : IsMember(m) =>
    /\ members[m].photo \in Images => members[m].photo = members[m].stored
    /\ \A x \in MemberIds : members[m].stored # None /\ Stores(x, members[m].stored) => x = m

PhotoInv ==
  /\ members \in [MemberIds -> Member \union {NoMember, GoneMember}]
  /\ hrReq \in [HrSlots -> HrRequest]
  /\ \A r \in HrSlots : HrProgress(hrReq[r])
  /\ PendingOwn /\ OldOwn /\ PhotosOwn
  /\ PhotosShown

\* Whoever has an account has an address.
AccountsAddressed ==
  /\ accounts \in [AccountIds -> [email : Emails \union {None},
                                 username : {UserName[e] : e \in Emails} \union {None},
                                 member : MemberIds \union {None}]]
  /\ \A a \in AccountIds : accounts[a] # NoAccount => accounts[a].email \in Emails

HrInv == PhotoInv /\ AccountsAddressed

\* No two members have one address, and no two accounts: the unique indexes of both
\* collections.
AddressesUnique ==
  /\ \A m, x \in MemberIds : IsMember(m) /\ IsMember(x) /\ members[m].email = members[x].email => m = x
  /\ \A a, b \in AccountIds :
       accounts[a] # NoAccount /\ accounts[b] # NoAccount /\ accounts[a].email = accounts[b].email => a = b

\* What a request refers to was there when it was found: a member may be gone by now.
HrRefers ==
  /\ \A r \in HrSlots :
       /\ hrReq[r].member # None => members[hrReq[r].member] # NoMember
       /\ hrReq[r].linked # None => accounts[hrReq[r].linked] # NoAccount
       /\ HrAt(r, "findLinked") => hrReq[r].before # None
  /\ \A a \in AccountIds : accounts[a] # NoAccount => members[accounts[a].member] # NoMember

\* What the only request in flight has found still holds.
HrFound(q) ==
  /\ q.pc \in {"findAccount", "createAccount", "moveAccount"} =>
       IsMember(q.member) /\ members[q.member].email = q.email
  /\ q.pc \in {"findLinked", "findConflict", "checkEmail", "findPhoto", "upload", "write"}
       /\ q.member # None /\ q.email # None =>
       IsMember(q.member) /\ members[q.member].email = q.before
  /\ q.pc \in {"findConflict", "moveAccount"} => q.linked # None
  /\ q.pc = "findConflict" => accounts[q.linked].email = q.before
  /\ q.pc \in {"checkEmail", "findPhoto", "upload", "write", "moveAccount"} /\ q.linked # None =>
       accounts[q.linked].email = q.before /\ AccountWith(q.email) \subseteq {q.linked}
  /\ q.pc \in {"checkEmail", "findPhoto", "upload", "write"} /\ q.linked = None
       /\ q.member # None /\ q.email # None =>
       q.email = q.before \/ AccountWith(q.before) = {}

\* Only an account that is about to be moved is behind its member, and only an account
\* of the member itself, or of one that is gone, is moved.
Followed(a) ==
  LET m == accounts[a].member
      moving == {r \in HrSlots : HrAt(r, "moveAccount") /\ hrReq[r].linked = a}
  IN  accounts[a] # NoAccount /\ IsMember(m) =>
        /\ \A r \in moving : hrReq[r].member = m
        /\ moving = {} => accounts[a].email = members[m].email

FollowInv ==
  /\ HrTypeOK
  /\ AddressesUnique /\ HrRefers
  /\ oneAtATime =>
       /\ \A r, q \in HrSlots : ~ HrAt(r, "idle") /\ ~ HrAt(q, "idle") => r = q
       /\ \A r \in HrSlots : HrFound(hrReq[r])
       /\ torn \/ \A a \in AccountIds : Followed(a)
===============================================================================
