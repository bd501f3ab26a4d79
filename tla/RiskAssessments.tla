---------------------------- MODULE RiskAssessments ----------------------------
(***************************************************************************)
(* One risk assessment (RiskAssessmentsService): written and submitted by   *)
(* the engineer who made it, signed by everyone on the assignment, reviewed *)
(* by the office.  Assessments do not interact.                             *)
(*                                                                         *)
(* Every handler reads the document and writes it some calls later.  update, *)
(* submit and review write by id (findByIdAndUpdate); signAndUpdate changes *)
(* the copy it read and saves that.  What a mongoose save does to an array  *)
(* is the external part: an array that was only pushed to is pushed to in   *)
(* the database, one that was changed otherwise is replaced, provided that  *)
(* no other save has touched it since it was read; else the save fails.     *)
(*                                                                         *)
(* Left out: who is on the assignment (it may change at any time, so that   *)
(* any check of it may pass), photographs, and the remarks of the office.   *)
(***************************************************************************)
EXTENDS Naturals, Sequences, Functions

CONSTANTS Engineers,
          Office,       \* who reviews; no engineer
          Requests,     \* slots for requests in flight
          ClientsWait   \* whether an engineer's client waits for each answer

ASSUME ConstantsAssumption ==
  /\ Office \notin Engineers
  /\ ClientsWait \in BOOLEAN

VARIABLES assessment, req

vars == <<assessment, req>>
-------------------------------------------------------------------------------
Statuses == {"DRAFT", "SUBMITTED", "REVIEWED"}

\* answered: there are answers; signed: signatureUrl is set; signatures: who has
\* signed, in the order of the array.
Assessment ==
  [status : Statuses, owner : Engineers, answered : BOOLEAN, signed : BOOLEAN,
   confirmed : BOOLEAN, signatures : Seq(Engineers)]

NoAssessment == [status |-> "NONE", signatures |-> <<>>]

\* A request about to write.
Writing == [pc : {"update", "submit", "review"}, by : Engineers \union {Office}]

\* signAndUpdate about to save: what it read, and whether the array has been saved
\* by another request since (a comparison of __v).
Signing ==
  [pc : {"sign"}, by : Engineers, signed : BOOLEAN, confirmed : BOOLEAN,
   signatures : Seq(Engineers), stale : BOOLEAN]

Idle == [pc |-> "idle"]

TypeOK ==
  /\ assessment \in Assessment \union {NoAssessment}
  /\ req \in [Requests -> Writing \union Signing \union {Idle}]

Init ==
  /\ assessment = NoAssessment
  /\ req = [r \in Requests |-> Idle]
-------------------------------------------------------------------------------
Exists == assessment # NoAssessment

At(r, pc) == req[r].pc = pc

\* Whose request it is.
By(r, e) == req[r] # Idle /\ req[r].by = e

\* The environment: an engineer's client sends nothing while it waits.
MaySend(r, e) ==
  /\ req[r] = Idle
  /\ ~ (ClientsWait /\ \E q \in Requests : By(q, e))

Begin(r, request) == req' = [req EXCEPT ![r] = request]
Answer(r) == req' = [req EXCEPT ![r] = Idle]

HasSigned(e, signatures) == e \in Range(signatures)

\* create: the one call that writes.  What the engineer signs at once is the first
\* signature as well.
Create(e, answered, signed, confirmed) ==
  /\ ~ Exists
  /\ assessment' = [status |-> "DRAFT", owner |-> e, answered |-> answered,
                    signed |-> signed, confirmed |-> confirmed,
                    signatures |-> IF signed THEN <<e>> ELSE <<>>]
  /\ UNCHANGED req
-------------------------------------------------------------------------------
(* update, submit: owned, then the checks of the status and the form.       *)

\* Faulty: the status is not checked.
UpdateFindAny(r, e) ==
  /\ Exists /\ MaySend(r, e)
  /\ assessment.owner = e
  /\ Begin(r, [pc |-> "update", by |-> e])
  /\ UNCHANGED assessment

UpdateFind(r, e) ==
  /\ Exists /\ MaySend(r, e)
  /\ assessment.owner = e /\ assessment.status = "DRAFT"
  /\ Begin(r, [pc |-> "update", by |-> e])
  /\ UNCHANGED assessment

\* A field left out of the form keeps its value; the signatures are no field of it.
UpdateWrite(r, answered, signed, confirmed) ==
  /\ At(r, "update")
  /\ assessment' = [assessment EXCEPT !.answered = answered, !.signed = signed,
                                      !.confirmed = confirmed]
  /\ Answer(r)

\* Faulty: only the form is checked.
SubmitFindAny(r, e) ==
  /\ Exists /\ MaySend(r, e)
  /\ assessment.owner = e
  /\ assessment.confirmed /\ assessment.signed /\ assessment.answered
  /\ Begin(r, [pc |-> "submit", by |-> e])
  /\ UNCHANGED assessment

SubmitFind(r, e) ==
  /\ Exists /\ MaySend(r, e)
  /\ assessment.owner = e /\ assessment.status = "DRAFT"
  /\ assessment.confirmed /\ assessment.signed /\ assessment.answered
  /\ Begin(r, [pc |-> "submit", by |-> e])
  /\ UNCHANGED assessment

SubmitWrite(r) ==
  /\ At(r, "submit")
  /\ assessment' = [assessment EXCEPT !.status = "SUBMITTED"]
  /\ Answer(r)
-------------------------------------------------------------------------------
(* signAndUpdate: any engineer of the assignment, whatever the status.      *)

SignFind(r, e) ==
  /\ Exists /\ MaySend(r, e)
  /\ Begin(r, [pc |-> "sign", by |-> e, signed |-> assessment.signed,
               confirmed |-> assessment.confirmed, signatures |-> assessment.signatures,
               stale |-> FALSE])
  /\ UNCHANGED assessment

\* Every save of the array moves __v on.
Saved(r) ==
  req' = [q \in Requests |-> IF q = r THEN Idle
                             ELSE IF At(q, "sign") THEN [req[q] EXCEPT !.stale = TRUE]
                             ELSE req[q]]

\* Faulty: every signer is pushed.
SavedSignaturesPushed(r) == Append(assessment.signatures, req[r].by)

\* The array after the save: the signer's entry in the copy that was read is replaced
\* and the copy written back, or an entry is pushed to what is there now.
SavedSignatures(r) ==
  IF HasSigned(req[r].by, req[r].signatures)
  THEN req[r].signatures
  ELSE Append(assessment.signatures, req[r].by)

\* Faulty: a copy is written back whatever has been saved since.
VersionIgnored(r) == req[r].stale \in BOOLEAN

\* Only a save that writes the copy back compares versions.
VersionHolds(r) == HasSigned(req[r].by, req[r].signatures) => ~ req[r].stale

\* signatureUrl and engineerConfirmed are set together, where the copy had no URL; a
\* save leaves a field alone that is assigned what the copy had.  The answers are
\* those of the request, or else those that were read are written again: any may
\* result.
SignSave(r, answered) ==
  /\ At(r, "sign") /\ VersionHolds(r)
  /\ \E first \in IF req[r].signed THEN {FALSE} ELSE BOOLEAN :
       assessment' = [assessment EXCEPT !.signatures = SavedSignatures(r),
                                        !.answered = answered,
                                        !.signed = @ \/ first,
                                        !.confirmed = @ \/ (first /\ ~ req[r].confirmed)]
  /\ Saved(r)
-------------------------------------------------------------------------------
(* review                                                                  *)

ReviewFind(r) ==
  /\ Exists /\ req[r] = Idle
  /\ assessment.status = "SUBMITTED"
  /\ Begin(r, [pc |-> "review", by |-> Office])
  /\ UNCHANGED assessment

\* Faulty: a status the schema does not have; an update by id is not validated.
ReviewWriteApproved(r) ==
  /\ At(r, "review")
  /\ assessment' = [assessment EXCEPT !.status = "APPROVED"]
  /\ Answer(r)

ReviewWrite(r) ==
  /\ At(r, "review")
  /\ assessment' = [assessment EXCEPT !.status = "REVIEWED"]
  /\ Answer(r)

\* A check fails, a save finds another version, or the process dies.
Refuse(r) ==
  /\ req[r] # Idle
  /\ Answer(r)
  /\ UNCHANGED assessment

Next ==
  \/ \E e \in Engineers, a, s, c \in BOOLEAN : Create(e, a, s, c)
  \/ \E r \in Requests :
       \/ \E e \in Engineers : UpdateFind(r, e) \/ SubmitFind(r, e) \/ SignFind(r, e)
       \/ \E a, s, c \in BOOLEAN : UpdateWrite(r, a, s, c)
       \/ \E a \in BOOLEAN : SignSave(r, a)
       \/ SubmitWrite(r) \/ ReviewFind(r) \/ ReviewWrite(r) \/ Refuse(r)

Spec == Init /\ [][Next]_vars
-------------------------------------------------------------------------------
(* Properties.                                                             *)

\* Nobody's signature is lost, whoever else signs, signs again or edits meanwhile:
\* signAndUpdate saves a copy it read several calls before.
SignaturesKept ==
  [][\A e \in Engineers : HasSigned(e, assessment.signatures) =>
                            HasSigned(e, assessment'.signatures)]_vars

\* If clients wait: nobody is in the signatures twice (signAndUpdate looks for the
\* signer in the copy it read).
OneSignatureEach ==
  ClientsWait =>
    \A i, j \in DOMAIN assessment.signatures :
      assessment.signatures[i] = assessment.signatures[j] => i = j

\* If clients wait: what was submitted or reviewed stays signed and confirmed, as
\* submit demanded, although update can take both away and checks the status some
\* calls before it writes.  (The answers may go: signAndUpdate writes them always.)
SubmittedSigned ==
  ClientsWait /\ Exists /\ assessment.status # "DRAFT" =>
    assessment.signed /\ assessment.confirmed

Rank == [s \in Statuses \union {"NONE"} |->
           CASE s = "NONE" -> 0 [] s = "DRAFT" -> 1 [] s = "SUBMITTED" -> 2 [] OTHER -> 3]

\* If clients wait: an assessment never goes back to being a draft or unreviewed
\* (submit, review), though both write by id what they found possible before.
StatusNeverGoesBack ==
  [][ClientsWait => Rank[assessment.status] <= Rank[assessment'.status]]_vars
-------------------------------------------------------------------------------
(* What every step keeps, and the proofs rest on.                          *)

\* A copy that is not stale holds the array as it is.
CopyInv(r) ==
  /\ req[r] # Idle => Exists
  /\ At(r, "sign") /\ ~ req[r].stale => req[r].signatures = assessment.signatures

\* If clients wait, what a handler found still holds when it writes.
WaitInv(r) ==
  /\ \A q \in Requests : req[q] # Idle /\ req[r] # Idle /\ req[q].by = req[r].by =>
       q = r \/ req[r].by = Office
  /\ At(r, "sign") /\ ~ HasSigned(req[r].by, req[r].signatures) =>
       ~ HasSigned(req[r].by, assessment.signatures)
  /\ At(r, "update") \/ At(r, "submit") =>
       req[r].by = assessment.owner /\ assessment.status = "DRAFT"
  /\ At(r, "submit") => assessment.signed /\ assessment.confirmed

IInv ==
  /\ TypeOK
  /\ \A r \in Requests :
       /\ CopyInv(r)
       /\ At(r, "review") => assessment.status # "DRAFT"
       /\ ClientsWait => WaitInv(r)
  /\ OneSignatureEach
  /\ SubmittedSigned
===============================================================================
