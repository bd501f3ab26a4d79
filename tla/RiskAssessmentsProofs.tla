------------------------ MODULE RiskAssessmentsProofs ------------------------
(***************************************************************************)
(* Safety of RiskAssessments for every value of its constants.  A step     *)
(* begins a request, ends one, or does both at once for Create: Begun and   *)
(* Ended say what each leaves true of the other requests, and what is left  *)
(* is the one request and the document.                                     *)
(***************************************************************************)
EXTENDS RiskAssessments, TLAPS

\* What a request is, by its pc.
LEMMA Kinds ==
  ASSUME TypeOK, NEW r \in Requests
  PROVE  /\ At(r, "sign") => req[r] \in Signing
         /\ At(r, "update") \/ At(r, "submit") \/ At(r, "review") => req[r] \in Writing
         /\ req[r] # Idle => req[r] \in Signing \union Writing
         /\ \A pc \in {"sign", "update", "submit", "review"} : At(r, pc) => req[r] # Idle
<1>1. req[r] \in Writing \union Signing \union {Idle}
  BY DEF TypeOK
<1>2. QED
  BY <1>1, SMT DEF At, Idle, Writing, Signing

\* An assessment that exists has all its fields.
LEMMA Fields ==
  ASSUME TypeOK, Exists
  PROVE  /\ assessment \in Assessment
         /\ assessment.status \in Statuses /\ assessment.owner \in Engineers
         /\ assessment.signatures \in Seq(Engineers)
         /\ {assessment.answered, assessment.signed, assessment.confirmed} \subseteq BOOLEAN
BY DEF TypeOK, Exists, Assessment, NoAssessment

\* One more signature: whose is in the array then.
LEMMA Pushed ==
  ASSUME NEW s \in Seq(Engineers), NEW e \in Engineers
  PROVE  /\ Append(s, e) \in Seq(Engineers)
         /\ \A x : HasSigned(x, Append(s, e)) <=> HasSigned(x, s) \/ x = e
         /\ ~ HasSigned(e, s) /\ (\A i, j \in DOMAIN s : s[i] = s[j] => i = j) =>
              \A i, j \in DOMAIN Append(s, e) : Append(s, e)[i] = Append(s, e)[j] => i = j
<1> DEFINE t == Append(s, e)
<1>1. /\ t \in Seq(Engineers) /\ Len(s) \in Nat /\ Len(t) = Len(s) + 1
      /\ DOMAIN s = 1 .. Len(s) /\ DOMAIN t = 1 .. Len(t)
      /\ t[Len(s) + 1] = e /\ \A i \in 1 .. Len(s) : t[i] = s[i]
  OBVIOUS
<1> HIDE DEF t
<1>2. \A x : HasSigned(x, s) <=> \E i \in 1 .. Len(s) : s[i] = x
  BY <1>1 DEF HasSigned, Range
<1>3. \A x : HasSigned(x, t) <=> \E i \in 1 .. Len(t) : t[i] = x
  BY <1>1 DEF HasSigned, Range
<1>4. \A x : HasSigned(x, t) <=> HasSigned(x, s) \/ x = e
  BY <1>1, <1>2, <1>3
<1>5. ASSUME ~ HasSigned(e, s), \A i, j \in DOMAIN s : s[i] = s[j] => i = j,
             NEW i \in DOMAIN t, NEW j \in DOMAIN t, t[i] = t[j]
      PROVE  i = j
  BY <1>1, <1>2, <1>5
<1>6. QED
  BY <1>1, <1>4, <1>5 DEF t
-------------------------------------------------------------------------------
\* Without an assessment, IInv holds.
THEOREM InitInv == Init => IInv
<1> SUFFICES ASSUME Init PROVE IInv
  OBVIOUS
<1>1. TypeOK
  BY DEF Init, TypeOK
<1>2. ~ Exists /\ assessment.signatures = <<>>
  BY DEF Init, Exists, NoAssessment
<1>3. \A r \in Requests : \A pc : At(r, pc) => pc = "idle"
  BY DEF Init, At, Idle
<1>4. OneSignatureEach /\ SubmittedSigned
  BY <1>2 DEF OneSignatureEach, SubmittedSigned
<1>5. \A r \in Requests : req[r] = Idle
  BY DEF Init
<1>6. QED
  BY <1>1, <1>3, <1>4, <1>5 DEF IInv, CopyInv, WaitInv

\* create: nothing is in flight yet.
LEMMA CreateKeepsInv ==
  ASSUME IInv, NEW e \in Engineers, NEW a \in BOOLEAN, NEW s \in BOOLEAN, NEW c \in BOOLEAN,
         Create(e, a, s, c)
  PROVE  IInv'
<1>1. \A r \in Requests : req[r] = Idle /\ req'[r] = Idle
  BY DEF IInv, CopyInv, Create
<1>2. \A r \in Requests : \A pc : At(r, pc)' => pc = "idle"
  BY <1>1 DEF At, Idle
<1>3. assessment' \in Assessment /\ assessment'.status = "DRAFT"
  <2>1. (IF s THEN <<e>> ELSE <<>>) \in Seq(Engineers)
    OBVIOUS
  <2>2. QED
    BY <2>1 DEF Create, Assessment, Statuses
<1>4. TypeOK'
  BY <1>3 DEF IInv, TypeOK, Create
<1>5. OneSignatureEach'
  <2>1. assessment'.signatures = <<e>> \/ assessment'.signatures = <<>>
    BY DEF Create
  <2>2. QED
    BY <2>1 DEF OneSignatureEach
<1>6. SubmittedSigned'
  BY <1>3 DEF SubmittedSigned
<1>7. QED
  BY <1>1, <1>2, <1>4, <1>5, <1>6 DEF IInv, CopyInv, WaitInv

\* A request begins: it is the only one of its client, and what it read is current.
LEMMA BeginKeepsInv ==
  ASSUME IInv, NEW r \in Requests, NEW x \in Signing \union Writing,
         req[r] = Idle, Begin(r, x), UNCHANGED assessment, Exists,
         x.pc = "sign" => x.signatures = assessment.signatures,
         x.pc = "review" => assessment.status # "DRAFT",
         ClientsWait => x.by = Office \/ \A q \in Requests : ~ By(q, x.by),
         x.pc \in {"update", "submit"} =>
           x.by = assessment.owner /\ assessment.status = "DRAFT",
         x.pc = "submit" => assessment.signed /\ assessment.confirmed
  PROVE  IInv'
<1>1. /\ req' \in [Requests -> Signing \union Writing \union {Idle}]
      /\ req'[r] = x /\ \A q \in Requests : q # r => req'[q] = req[q]
  BY DEF IInv, TypeOK, Begin
<1>2. TypeOK' /\ OneSignatureEach' /\ SubmittedSigned' /\ Exists'
  BY <1>1 DEF IInv, TypeOK, OneSignatureEach, SubmittedSigned, Exists
<1>3. x # Idle /\ x.by \in Engineers \union {Office}
  BY DEF Idle, Signing, Writing
<1>4. ASSUME NEW q \in Requests
      PROVE  CopyInv(q)' /\ (At(q, "review") => assessment.status # "DRAFT")'
  BY <1>1, <1>2 DEF IInv, CopyInv, At
<1>5. ASSUME ClientsWait, NEW q \in Requests
      PROVE  WaitInv(q)'
  <2>1. ASSUME NEW p \in Requests, req'[p] # Idle, req'[q] # Idle, req'[p].by = req'[q].by
        PROVE  p = q \/ req'[q].by = Office
    BY <1>1, <1>3, <1>5, <2>1 DEF IInv, WaitInv, By
  <2>2. CASE q = r
    BY <1>1, <2>1, <2>2 DEF WaitInv, At
  <2>3. CASE q # r
    BY <1>1, <1>5, <2>1, <2>3 DEF IInv, WaitInv, At
  <2>4. QED
    BY <2>2, <2>3
<1>6. QED
  BY <1>2, <1>4, <1>5 DEF IInv

LEMMA FindsKeepInv ==
  ASSUME IInv, NEW r \in Requests
  PROVE  /\ \A e \in Engineers : UpdateFind(r, e) \/ SubmitFind(r, e) \/ SignFind(r, e) => IInv'
         /\ ReviewFind(r) => IInv'
<1>1. ASSUME NEW e \in Engineers, UpdateFind(r, e) \/ SubmitFind(r, e)
      PROVE  IInv'
  <2>1. PICK pc \in {"update", "submit"} : Begin(r, [pc |-> pc, by |-> e])
                                           /\ (pc = "submit" => assessment.signed /\ assessment.confirmed)
    BY <1>1 DEF UpdateFind, SubmitFind
  <2> DEFINE x == [pc |-> pc, by |-> e]
  <2>2. x \in Writing /\ x.pc = pc /\ x.by = e
    BY DEF Writing
  <2> HIDE DEF x
  <2>3. /\ Exists /\ MaySend(r, e) /\ UNCHANGED assessment
        /\ assessment.owner = e /\ assessment.status = "DRAFT"
    BY <1>1 DEF UpdateFind, SubmitFind
  <2>4. Begin(r, x)
    BY <2>1 DEF x
  <2>5. req[r] = Idle /\ (ClientsWait => \A q \in Requests : ~ By(q, x.by))
    BY <2>2, <2>3 DEF MaySend
  <2>6. QED
    BY <2>1, <2>2, <2>3, <2>4, <2>5, BeginKeepsInv
<1>2. ASSUME NEW e \in Engineers, SignFind(r, e)
      PROVE  IInv'
  <2> DEFINE x == [pc |-> "sign", by |-> e, signed |-> assessment.signed,
                   confirmed |-> assessment.confirmed, signatures |-> assessment.signatures,
                   stale |-> FALSE]
  <2>1. Exists /\ MaySend(r, e) /\ Begin(r, x) /\ UNCHANGED assessment
    BY <1>2 DEF SignFind
  <2>2. x \in Signing /\ x.pc = "sign" /\ x.by = e /\ x.signatures = assessment.signatures
    BY <2>1, Fields DEF IInv, Signing
  <2> HIDE DEF x
  <2>3. req[r] = Idle /\ (ClientsWait => \A q \in Requests : ~ By(q, x.by))
    BY <2>1, <2>2 DEF MaySend
  <2>4. QED
    BY <2>1, <2>2, <2>3, BeginKeepsInv
<1>3. ASSUME ReviewFind(r)
      PROVE  IInv'
  <2> DEFINE x == [pc |-> "review", by |-> Office]
  <2>1. x \in Writing /\ x.pc = "review" /\ x.by = Office
    BY DEF Writing
  <2>2. /\ Exists /\ req[r] = Idle /\ Begin(r, x) /\ UNCHANGED assessment
        /\ assessment.status # "DRAFT"
    BY <1>3 DEF ReviewFind
  <2> HIDE DEF x
  <2>3. QED
    BY <2>1, <2>2, BeginKeepsInv
<1>4. QED
  BY <1>1, <1>2, <1>3
-------------------------------------------------------------------------------
\* A request ends that has left the array alone.
LEMMA EndKeepsInv ==
  ASSUME IInv, NEW r \in Requests, Answer(r), assessment' \in Assessment, Exists,
         assessment'.signatures = assessment.signatures,
         assessment'.owner = assessment.owner,
         \A q \in Requests : q # r /\ At(q, "review") => assessment'.status # "DRAFT",
         ClientsWait => \A q \in Requests :
           /\ q # r /\ (At(q, "update") \/ At(q, "submit")) => assessment'.status = "DRAFT"
           /\ q # r /\ At(q, "submit") => assessment'.signed /\ assessment'.confirmed,
         SubmittedSigned'
  PROVE  IInv'
<1>1. /\ req' \in [Requests -> Signing \union Writing \union {Idle}]
      /\ req'[r] = Idle /\ \A q \in Requests : q # r => req'[q] = req[q]
  BY DEF IInv, TypeOK, Answer
<1>2. Exists'
  BY DEF Exists, NoAssessment, Assessment, Statuses
<1>3. TypeOK' /\ OneSignatureEach'
  BY <1>1 DEF IInv, TypeOK, OneSignatureEach
<1>4. \A pc : At(r, pc)' => pc = "idle"
  BY <1>1 DEF At, Idle
<1>5. ASSUME NEW q \in Requests
      PROVE  CopyInv(q)' /\ (At(q, "review") => assessment.status # "DRAFT")'
  BY <1>1, <1>2, <1>4 DEF IInv, CopyInv, At
<1>6. ASSUME ClientsWait, NEW q \in Requests
      PROVE  WaitInv(q)'
  <2>1. ASSUME NEW p \in Requests, req'[p] # Idle, req'[q] # Idle, req'[p].by = req'[q].by
        PROVE  p = q \/ req'[q].by = Office
    BY <1>1, <1>6, <2>1 DEF IInv, WaitInv
  <2>2. CASE q = r
    BY <1>4, <2>1, <2>2 DEF WaitInv
  <2>3. CASE q # r
    <3>1. \A pc : At(q, pc)' <=> At(q, pc)
      BY <1>1, <2>3 DEF At
    <3>2. QED
      BY <1>1, <1>6, <2>1, <2>3, <3>1 DEF IInv, WaitInv
  <2>4. QED
    BY <2>2, <2>3
<1>7. QED
  BY <1>3, <1>5, <1>6 DEF IInv

\* If clients wait, nobody else acts for the owner.
LEMMA OwnerAlone ==
  ASSUME IInv, ClientsWait, NEW r \in Requests, NEW q \in Requests,
         At(r, "update") \/ At(r, "submit"), At(q, "update") \/ At(q, "submit")
  PROVE  q = r
<1>1. Exists /\ req[q] # Idle /\ req[r] # Idle
  BY Kinds DEF IInv, CopyInv
<1>2. req[q].by = assessment.owner /\ req[r].by = assessment.owner
  BY DEF IInv, WaitInv
<1>3. assessment.owner # Office
  BY <1>1, Fields, ConstantsAssumption DEF IInv
<1>4. QED
  BY <1>1, <1>2, <1>3 DEF IInv, WaitInv

LEMMA WritesKeepInv ==
  ASSUME IInv, NEW r \in Requests
  PROVE  /\ \A a, s, c \in BOOLEAN : UpdateWrite(r, a, s, c) => IInv'
         /\ SubmitWrite(r) \/ ReviewWrite(r) \/ Refuse(r) => IInv'
<1>1. ASSUME req[r] # Idle PROVE Exists /\ assessment \in Assessment
  BY <1>1, Fields DEF IInv, CopyInv
<1>2. ASSUME NEW a \in BOOLEAN, NEW s \in BOOLEAN, NEW c \in BOOLEAN, UpdateWrite(r, a, s, c)
      PROVE  IInv'
  <2>1. At(r, "update") /\ Answer(r)
    BY <1>2 DEF UpdateWrite
  <2>2. Exists /\ assessment \in Assessment
    BY <1>1, <2>1, Kinds DEF IInv
  <2>3. /\ assessment' \in Assessment /\ assessment'.signatures = assessment.signatures
        /\ assessment'.owner = assessment.owner /\ assessment'.status = assessment.status
    BY <1>2, <2>2 DEF UpdateWrite, Assessment
  <2>4. \A q \in Requests : At(q, "review") => assessment'.status # "DRAFT"
    BY <2>3 DEF IInv
  <2>5. ASSUME ClientsWait, NEW q \in Requests, q # r
        PROVE  ~ At(q, "update") /\ ~ At(q, "submit")
    BY <2>1, <2>5, OwnerAlone
  <2>6. SubmittedSigned'
    BY <2>1, <2>3 DEF IInv, WaitInv, SubmittedSigned
  <2>7. QED
    BY <2>1, <2>2, <2>3, <2>4, <2>5, <2>6, EndKeepsInv
<1>3. ASSUME SubmitWrite(r)
      PROVE  IInv'
  <2>1. At(r, "submit") /\ Answer(r)
    BY <1>3 DEF SubmitWrite
  <2>2. Exists /\ assessment \in Assessment
    BY <1>1, <2>1, Kinds DEF IInv
  <2>3. /\ assessment' \in Assessment /\ assessment'.signatures = assessment.signatures
        /\ assessment'.owner = assessment.owner /\ assessment'.status = "SUBMITTED"
        /\ assessment'.signed = assessment.signed
        /\ assessment'.confirmed = assessment.confirmed
    BY <1>3, <2>2 DEF SubmitWrite, Assessment, Statuses
  <2>4. ASSUME ClientsWait, NEW q \in Requests, q # r
        PROVE  ~ At(q, "update") /\ ~ At(q, "submit")
    BY <2>1, <2>4, OwnerAlone
  <2>5. SubmittedSigned'
    BY <2>1, <2>3 DEF IInv, WaitInv, SubmittedSigned
  <2>6. QED
    BY <2>1, <2>2, <2>3, <2>4, <2>5, EndKeepsInv
<1>4. ASSUME ReviewWrite(r)
      PROVE  IInv'
  <2>1. At(r, "review") /\ Answer(r) /\ assessment.status # "DRAFT"
    BY <1>4 DEF ReviewWrite, IInv
  <2>2. Exists /\ assessment \in Assessment
    BY <1>1, <2>1, Kinds DEF IInv
  <2>3. /\ assessment' \in Assessment /\ assessment'.signatures = assessment.signatures
        /\ assessment'.owner = assessment.owner /\ assessment'.status = "REVIEWED"
        /\ assessment'.signed = assessment.signed
        /\ assessment'.confirmed = assessment.confirmed
    BY <1>4, <2>2 DEF ReviewWrite, Assessment, Statuses
  <2>4. ASSUME ClientsWait, NEW q \in Requests
        PROVE  ~ At(q, "update") /\ ~ At(q, "submit")
    BY <2>1, <2>4 DEF IInv, WaitInv
  <2>5. SubmittedSigned'
    BY <2>1, <2>2, <2>3 DEF IInv, SubmittedSigned
  <2>6. QED
    BY <2>1, <2>2, <2>3, <2>4, <2>5, EndKeepsInv
<1>5. ASSUME Refuse(r)
      PROVE  IInv'
  <2>1. Exists /\ assessment \in Assessment /\ Answer(r) /\ assessment' = assessment
    BY <1>1, <1>5 DEF Refuse
  <2>2. SubmittedSigned'
    BY <2>1 DEF IInv, SubmittedSigned, Exists
  <2>3. ClientsWait => \A q \in Requests :
          /\ At(q, "update") \/ At(q, "submit") => assessment'.status = "DRAFT"
          /\ At(q, "submit") => assessment'.signed /\ assessment'.confirmed
    BY <2>1 DEF IInv, WaitInv
  <2>4. \A q \in Requests : At(q, "review") => assessment'.status # "DRAFT"
    BY <2>1 DEF IInv
  <2>5. QED
    BY <2>1, <2>2, <2>3, <2>4, EndKeepsInv
<1>6. QED
  BY <1>2, <1>3, <1>4, <1>5
-------------------------------------------------------------------------------
(* signAndUpdate                                                           *)

\* Whose signatures are in the array after a save: those that were, and the signer's.
LEMMA SignersAfter ==
  ASSUME IInv, NEW r \in Requests, At(r, "sign"), VersionHolds(r)
  PROVE  /\ req[r].by \in Engineers /\ Exists
         /\ SavedSignatures(r) \in Seq(Engineers)
         /\ \A e : HasSigned(e, SavedSignatures(r)) <=>
                     HasSigned(e, assessment.signatures) \/ e = req[r].by
         /\ OneSignatureEach /\ (ClientsWait => WaitInv(r)) =>
              (ClientsWait => \A i, j \in DOMAIN SavedSignatures(r) :
                                SavedSignatures(r)[i] = SavedSignatures(r)[j] => i = j)
<1>1. /\ req[r] \in Signing /\ req[r].by \in Engineers /\ Exists
      /\ assessment.signatures \in Seq(Engineers)
  <2>1. req[r] \in Signing /\ req[r] # Idle
    BY Kinds DEF IInv
  <2>2. Exists
    BY <2>1 DEF IInv, CopyInv
  <2>3. QED
    BY <2>1, <2>2, Fields DEF IInv, Signing
<1>2. CASE HasSigned(req[r].by, req[r].signatures)
  <2>1. SavedSignatures(r) = assessment.signatures
    BY <1>2 DEF SavedSignatures, VersionHolds, IInv, CopyInv
  <2>2. HasSigned(req[r].by, assessment.signatures)
    BY <1>2, <2>1 DEF SavedSignatures
  <2>3. QED
    BY <1>1, <2>1, <2>2 DEF OneSignatureEach
<1>3. CASE ~ HasSigned(req[r].by, req[r].signatures)
  <2>1. SavedSignatures(r) = Append(assessment.signatures, req[r].by)
    BY <1>3 DEF SavedSignatures
  <2>2. ClientsWait /\ WaitInv(r) => ~ HasSigned(req[r].by, assessment.signatures)
    BY <1>3 DEF WaitInv
  <2>3. QED
    BY <1>1, <2>1, <2>2, Pushed DEF OneSignatureEach
<1>4. QED
  BY <1>2, <1>3

LEMMA SignKeepsInv ==
  ASSUME IInv, NEW r \in Requests, NEW a \in BOOLEAN, SignSave(r, a)
  PROVE  IInv'
<1>1. At(r, "sign") /\ VersionHolds(r) /\ Saved(r)
  BY DEF SignSave
<1>2. /\ req[r].by \in Engineers /\ Exists
      /\ SavedSignatures(r) \in Seq(Engineers)
      /\ \A e : HasSigned(e, SavedSignatures(r)) <=>
                  HasSigned(e, assessment.signatures) \/ e = req[r].by
      /\ ClientsWait => \A i, j \in DOMAIN SavedSignatures(r) :
                          SavedSignatures(r)[i] = SavedSignatures(r)[j] => i = j
  BY <1>1, SignersAfter DEF IInv
<1>3. PICK first, confirms \in BOOLEAN :
        assessment' = [assessment EXCEPT !.signatures = SavedSignatures(r), !.answered = a,
                                         !.signed = @ \/ first, !.confirmed = @ \/ confirms]
  BY DEF SignSave
<1>4. /\ assessment' \in Assessment /\ assessment'.signatures = SavedSignatures(r)
      /\ assessment'.owner = assessment.owner /\ assessment'.status = assessment.status
      /\ assessment.signed => assessment'.signed
      /\ assessment.confirmed => assessment'.confirmed
  <2>1. assessment \in Assessment
    BY <1>2, Fields DEF IInv
  <2>2. /\ assessment'.status = assessment.status /\ assessment'.owner = assessment.owner
        /\ assessment'.signatures = SavedSignatures(r) /\ assessment'.answered = a
        /\ assessment'.signed = (assessment.signed \/ first)
        /\ assessment'.confirmed = (assessment.confirmed \/ confirms)
        /\ DOMAIN assessment' = DOMAIN assessment
    BY <1>3, <2>1 DEF Assessment
  <2>3. assessment' \in Assessment
    BY <1>2, <1>3, <2>1, Zenon DEF Assessment
  <2>4. QED
    BY <2>2, <2>3
<1>5. /\ req'[r] = Idle
      /\ \A q \in Requests : q # r =>
           req'[q] = IF At(q, "sign") THEN [req[q] EXCEPT !.stale = TRUE] ELSE req[q]
  BY <1>1 DEF Saved
<1>6. ASSUME NEW q \in Requests, q # r
      PROVE  /\ req'[q] \in Signing \union Writing \union {Idle}
             /\ \A pc : At(q, pc)' <=> At(q, pc)
             /\ req[q] = Idle <=> req'[q] = Idle
             /\ req[q] # Idle => req'[q].by = req[q].by
             /\ At(q, "sign") => /\ req'[q].signatures = req[q].signatures
                                 /\ req'[q].stale
  <2>1. CASE At(q, "sign")
    <3>1. req[q] \in Signing
      BY <2>1, Kinds DEF IInv
    <3>2. req'[q] = [req[q] EXCEPT !.stale = TRUE]
      BY <1>5, <1>6, <2>1
    <3>3. QED
      BY <2>1, <3>1, <3>2 DEF Signing, At, Idle
  <2>2. CASE ~ At(q, "sign")
    <3>1. req'[q] = req[q]
      BY <1>5, <1>6, <2>2
    <3>2. QED
      BY <2>2, <3>1 DEF IInv, TypeOK, At
  <2>3. QED
    BY <2>1, <2>2
<1>7. TypeOK'
  <2>1. req' \in [Requests -> Signing \union Writing \union {Idle}]
    BY <1>1, <1>5, <1>6 DEF Saved
  <2>2. QED
    BY <1>4, <2>1 DEF TypeOK
<1>8. Exists' /\ OneSignatureEach' /\ SubmittedSigned'
  <2>1. Exists'
    BY <1>4 DEF Exists, NoAssessment, Assessment, Statuses
  <2>2. OneSignatureEach'
    BY <1>2, <1>4 DEF OneSignatureEach
  <2>3. SubmittedSigned'
    BY <1>2, <1>4 DEF IInv, SubmittedSigned
  <2>4. QED
    BY <2>1, <2>2, <2>3
<1>9. \A pc : At(r, pc)' => pc = "idle"
  BY <1>5 DEF At, Idle
<1>10. ASSUME NEW q \in Requests
       PROVE  CopyInv(q)' /\ (At(q, "review") => assessment.status # "DRAFT")'
  <2>1. CASE q = r
    BY <1>5, <1>8, <1>9, <2>1 DEF CopyInv
  <2>2. CASE q # r
    BY <1>4, <1>6, <1>8, <2>2 DEF IInv, CopyInv
  <2>3. QED
    BY <2>1, <2>2
<1>11. ASSUME ClientsWait, NEW q \in Requests
       PROVE  WaitInv(q)'
  <2>1. \A p \in Requests : req'[p] # Idle => req[p] # Idle /\ req'[p].by = req[p].by
    BY <1>5, <1>6
  <2>2. ASSUME NEW p \in Requests, req'[p] # Idle, req'[q] # Idle, req'[p].by = req'[q].by
        PROVE  p = q \/ req'[q].by = Office
    BY <1>11, <2>1, <2>2 DEF IInv, WaitInv
  <2>3. CASE q = r
    BY <1>9, <2>2, <2>3 DEF WaitInv
  <2>4. CASE q # r
    <3>1. ASSUME At(q, "sign")
          PROVE  req[q].by # req[r].by
      BY <1>1, <1>2, <1>11, <2>4, <3>1, Kinds, ConstantsAssumption DEF IInv, WaitInv
    <3>2. WaitInv(q)
      BY <1>11 DEF IInv
    <3>3. (At(q, "sign") /\ ~ HasSigned(req[q].by, req[q].signatures) =>
             ~ HasSigned(req[q].by, assessment.signatures))'
      <4>1. At(q, "sign") => req[q] # Idle
        BY Kinds DEF IInv
      <4>2. QED
        BY <1>2, <1>4, <1>6, <2>4, <3>1, <3>2, <4>1 DEF WaitInv
    <3>4. QED
      BY <1>4, <1>6, <2>2, <2>4, <3>2, <3>3, Kinds DEF WaitInv, IInv
  <2>5. QED
    BY <2>3, <2>4
<1>12. QED
  BY <1>7, <1>8, <1>10, <1>11 DEF IInv
-------------------------------------------------------------------------------
\* Every step of create, update, submit, signAndUpdate and review keeps IInv.
THEOREM NextKeepsInv == IInv /\ [Next]_vars => IInv'
<1> SUFFICES ASSUME IInv, [Next]_vars PROVE IInv'
  OBVIOUS
<1>1. CASE UNCHANGED vars
  BY <1>1 DEF vars, IInv, TypeOK, CopyInv, WaitInv, OneSignatureEach, SubmittedSigned,
              Exists, At
<1>2. ASSUME NEW e \in Engineers, NEW a \in BOOLEAN, NEW s \in BOOLEAN, NEW c \in BOOLEAN,
             Create(e, a, s, c)
      PROVE  IInv'
  BY <1>2, CreateKeepsInv
<1>3. ASSUME NEW r \in Requests, NEW e \in Engineers,
             UpdateFind(r, e) \/ SubmitFind(r, e) \/ SignFind(r, e)
      PROVE  IInv'
  BY <1>3, FindsKeepInv
<1>4. ASSUME NEW r \in Requests, NEW a \in BOOLEAN, NEW s \in BOOLEAN, NEW c \in BOOLEAN,
             UpdateWrite(r, a, s, c)
      PROVE  IInv'
  BY <1>4, WritesKeepInv
<1>5. ASSUME NEW r \in Requests, NEW a \in BOOLEAN, SignSave(r, a)
      PROVE  IInv'
  BY <1>5, SignKeepsInv
<1>6. ASSUME NEW r \in Requests, SubmitWrite(r) \/ ReviewFind(r) \/ ReviewWrite(r) \/ Refuse(r)
      PROVE  IInv'
  BY <1>6, FindsKeepInv, WritesKeepInv
<1>7. QED
  BY <1>1, <1>2, <1>3, <1>4, <1>5, <1>6 DEF Next

\* IInv always holds.
THEOREM Invariance == Spec => []IInv
<1>1. QED
  BY InitInv, NextKeepsInv, PTL DEF Spec

\* The document and the requests in flight always have their types.
THEOREM TypeCorrect == Spec => []TypeOK
<1>1. IInv => TypeOK
  BY DEF IInv
<1>2. QED
  BY <1>1, Invariance, PTL

\* If clients wait, nobody's signature is in an assessment twice.
THEOREM OneEach == Spec => []OneSignatureEach
<1>1. IInv => OneSignatureEach
  BY DEF IInv
<1>2. QED
  BY <1>1, Invariance, PTL

\* If clients wait, what was submitted stays signed and confirmed.
THEOREM SubmittedStaySigned == Spec => []SubmittedSigned
<1>1. IInv => SubmittedSigned
  BY DEF IInv
<1>2. QED
  BY <1>1, Invariance, PTL

\* No step loses a signature, whether clients wait or not.
THEOREM NoSignatureLost == Spec => SignaturesKept
<1>1. IInv /\ [Next]_vars =>
        [\A e \in Engineers : HasSigned(e, assessment.signatures) =>
                                HasSigned(e, assessment'.signatures)]_vars
  <2> SUFFICES ASSUME IInv, Next, NEW e \in Engineers, HasSigned(e, assessment.signatures)
               PROVE  HasSigned(e, assessment'.signatures)
    OBVIOUS
  <2>1. Exists
    BY DEF IInv, TypeOK, Exists, NoAssessment, HasSigned, Range
  <2>2. ASSUME NEW r \in Requests, NEW a \in BOOLEAN, SignSave(r, a)
        PROVE  HasSigned(e, assessment'.signatures)
    <3>1. At(r, "sign") /\ VersionHolds(r)
      BY <2>2 DEF SignSave
    <3>2. assessment'.signatures = SavedSignatures(r)
      BY <2>1, <2>2, Fields DEF SignSave, IInv, Assessment
    <3>3. QED
      BY <3>1, <3>2, SignersAfter
  <2>3. ASSUME NEW r \in Requests,
               \/ \E f \in Engineers : UpdateFind(r, f) \/ SubmitFind(r, f) \/ SignFind(r, f)
               \/ \E a, s, c \in BOOLEAN : UpdateWrite(r, a, s, c)
               \/ SubmitWrite(r) \/ ReviewFind(r) \/ ReviewWrite(r) \/ Refuse(r)
        PROVE  assessment'.signatures = assessment.signatures
    BY <2>1, <2>3, Fields DEF IInv, Assessment, UpdateFind, SubmitFind, SignFind, UpdateWrite,
         SubmitWrite, ReviewFind, ReviewWrite, Refuse
  <2>4. QED
    BY <2>1, <2>2, <2>3 DEF Next, Create
<1>2. QED
  BY <1>1, Invariance, PTL DEF Spec, SignaturesKept

\* If clients wait, an assessment never goes back.
THEOREM NeverBack == Spec => StatusNeverGoesBack
<1>1. IInv /\ [Next]_vars =>
        [ClientsWait => Rank[assessment.status] <= Rank[assessment'.status]]_vars
  <2> SUFFICES ASSUME IInv, Next, ClientsWait
               PROVE  Rank[assessment.status] <= Rank[assessment'.status]
    OBVIOUS
  <2>1. Rank["NONE"] = 0 /\ Rank["DRAFT"] = 1 /\ Rank["SUBMITTED"] = 2 /\ Rank["REVIEWED"] = 3
    BY DEF Rank, Statuses
  <2>2. assessment.status \in Statuses \union {"NONE"}
    BY DEF IInv, TypeOK, Assessment, NoAssessment
  <2>3. CASE assessment'.status = assessment.status
    BY <2>1, <2>2, <2>3 DEF Statuses
  <2>4. ASSUME NEW e \in Engineers, NEW a \in BOOLEAN, NEW s \in BOOLEAN, NEW c \in BOOLEAN,
               Create(e, a, s, c)
        PROVE  assessment.status = "NONE" /\ assessment'.status = "DRAFT"
    BY <2>4 DEF Create, Exists, NoAssessment
  <2>5. ASSUME NEW r \in Requests, SubmitWrite(r)
        PROVE  assessment.status = "DRAFT" /\ assessment'.status = "SUBMITTED"
    <3>1. At(r, "submit") /\ Exists
      BY <2>5, Kinds DEF SubmitWrite, IInv, CopyInv
    <3>2. QED
      BY <2>5, <3>1, Fields DEF SubmitWrite, IInv, WaitInv, Assessment
  <2>6. ASSUME NEW r \in Requests, ReviewWrite(r)
        PROVE  assessment'.status = "REVIEWED"
    <3>1. Exists
      BY <2>6, Kinds DEF ReviewWrite, IInv, CopyInv
    <3>2. QED
      BY <2>6, <3>1, Fields DEF ReviewWrite, IInv, Assessment
  <2>7. ASSUME NEW r \in Requests,
               \/ \E f \in Engineers : UpdateFind(r, f) \/ SubmitFind(r, f) \/ SignFind(r, f)
               \/ \E a, s, c \in BOOLEAN : UpdateWrite(r, a, s, c)
               \/ \E a \in BOOLEAN : SignSave(r, a)
               \/ ReviewFind(r) \/ Refuse(r)
        PROVE  assessment'.status = assessment.status
    <3>1. req[r] # Idle => Exists
      BY DEF IInv, CopyInv
    <3>2. Exists
      BY <2>7, <3>1, Kinds DEF IInv, UpdateFind, SubmitFind, SignFind, UpdateWrite, SignSave,
           ReviewFind, Refuse
    <3>3. QED
      BY <2>7, <3>2, Fields DEF IInv, Assessment, UpdateFind, SubmitFind, SignFind, UpdateWrite,
           SignSave, ReviewFind, Refuse
  <2>8. QED
    BY <2>1, <2>2, <2>3, <2>4, <2>5, <2>6, <2>7 DEF Next, Statuses
<1>2. QED
  BY <1>1, Invariance, PTL DEF Spec, StatusNeverGoesBack
===============================================================================
