--------------------------- MODULE TimesheetsProofs ---------------------------
(***************************************************************************)
(* Proofs about Timesheets: the inductive invariants SheetInv and, when    *)
(* clients wait for their answers, WaitInv; the properties they imply; and *)
(* that the sheets follow TimesheetLifecycle.                              *)
(***************************************************************************)
EXTENDS Timesheets, TLAPS

-------------------------------------------------------------------------------
(* Records.                                                                *)

\* A sheet there is has one of the four statuses, and NoSheet has not.
LEMMA SheetFields ==
  ASSUME NEW s \in Sheet \union {NoSheet}
  PROVE  /\ s # NoSheet <=> s.status \in Statuses
         /\ s # NoSheet <=> s \in Sheet
         /\ s.status = "NONE" <=> s = NoSheet
         /\ s.late \in BOOLEAN /\ s.reason \in BOOLEAN
<1>1. NoSheet.status = "NONE" /\ NoSheet.late = FALSE /\ NoSheet.reason = FALSE
  BY DEF NoSheet
<1>2. "NONE" \notin Statuses
  BY DEF Statuses
<1>3. ASSUME s \in Sheet
      PROVE  s.status \in Statuses /\ s.late \in BOOLEAN /\ s.reason \in BOOLEAN
  BY <1>3 DEF Sheet
<1>4. QED
  BY <1>1, <1>2, <1>3

\* What SheetInv asks of a request.
Ready(x) ==
  x # Idle =>
    /\ x.handler = "updateOwn" => Exists(x.engineer)
    /\ x.late => past
    /\ x.pc = "findOpen" => x.handler = "requestUnlock"
    /\ x.pc = "findUnlocked" => x.handler # "requestUnlock"
    /\ x.pc = "write" /\ x.handler # "requestUnlock" /\ x.late =>
         HasUnlock(x.engineer, {"APPROVED"})

LEMMA SheetInvParts ==
  SheetInv <=> /\ TypeOK /\ ReviewsOnRecord /\ LateWritesUnlocked
               /\ \A r \in Requests : Ready(req[r])
BY DEF SheetInv, Ready, At

LEMMA RequestKinds ==
  ASSUME TypeOK, NEW r \in Requests, NEW pc, At(r, pc)
  PROVE  /\ req[r] \in Request /\ req[r] # Idle /\ req[r].pc = pc
         /\ req[r].engineer \in Engineers /\ req[r].handler \in Handlers
         /\ req[r].late \in BOOLEAN
BY DEF TypeOK, At, Request

\* A request that goes on is the same but for its pc.
LEMMA Proceeded ==
  ASSUME NEW x \in Request, NEW pc \in {"findAssignment", "findUnlocked", "findOpen", "write"}
  PROVE  /\ [x EXCEPT !.pc = pc] \in Request
         /\ [x EXCEPT !.pc = pc].pc = pc
         /\ [x EXCEPT !.pc = pc].handler = x.handler
         /\ [x EXCEPT !.pc = pc].engineer = x.engineer
         /\ [x EXCEPT !.pc = pc].late = x.late
BY DEF Request
-------------------------------------------------------------------------------
(* The three ways a step changes the state.                                *)

LEMMA RequestChanged ==
  ASSUME SheetInv, NEW r \in Requests, NEW x \in Request \union {Idle}, Ready(x),
         req' = [req EXCEPT ![r] = x], UNCHANGED <<past, assigned, sheets, unlocks>>
  PROVE  SheetInv'
<1>1. TypeOK'
  BY DEF SheetInv, TypeOK
<1>2. ReviewsOnRecord' /\ LateWritesUnlocked'
  BY DEF SheetInv, ReviewsOnRecord, LateWritesUnlocked, Exists, HasUnlock
<1>3. \A q \in Requests : req'[q] = req[q] \/ req'[q] = x
  BY DEF SheetInv, TypeOK
<1>4. \A q \in Requests : Ready(req[q])
  BY SheetInvParts
<1>5. \A q \in Requests : Ready(req[q])'
  BY <1>3, <1>4 DEF Ready, Exists, HasUnlock
<1>6. QED
  BY <1>1, <1>2, <1>5 DEF SheetInv, Ready, At

LEMMA SheetChanged ==
  ASSUME SheetInv, NEW e \in Engineers, NEW s \in Sheet,
         sheets' = [sheets EXCEPT ![e] = s],
         s.late => HasUnlock(e, {"APPROVED"}),
         s.reviewedBy # Nobody <=> s.status \in {"APPROVED", "REJECTED"},
         s.reason <=> s.status = "REJECTED",
         UNCHANGED <<past, assigned, unlocks>>,
         req' = req \/ \E r \in Requests : Answer(r)
  PROVE  SheetInv'
<1>1. sheets'[e] = s /\ \A f \in Engineers \ {e} : sheets'[f] = sheets[f]
  BY DEF SheetInv, TypeOK
<1>2. \A q \in Requests : req'[q] = req[q] \/ req'[q] = Idle
  BY DEF SheetInv, TypeOK, Answer
<1>3. TypeOK'
  BY DEF SheetInv, TypeOK, Answer
<1>4. s # NoSheet
  BY SheetFields
<1>5. ReviewsOnRecord'
  BY <1>1 DEF SheetInv, ReviewsOnRecord, Exists
<1>6. LateWritesUnlocked'
  BY <1>1 DEF SheetInv, LateWritesUnlocked, HasUnlock
<1>7. \A f \in Engineers : Exists(f) => Exists(f)'
  BY <1>1, <1>4 DEF Exists
<1>8. ASSUME NEW q \in Requests PROVE Ready(req[q])'
  <2>1. CASE req'[q] = Idle
    BY <2>1 DEF Ready
  <2>2. CASE req'[q] = req[q] /\ req[q] # Idle
    <3>1. req[q].engineer \in Engineers
      BY <2>2 DEF SheetInv, TypeOK, Request
    <3>2. Ready(req[q])
      BY SheetInvParts
    <3>3. QED
      BY <1>7, <2>2, <3>1, <3>2 DEF Ready, HasUnlock
  <2>3. QED
    BY <1>2, <2>1, <2>2
<1>9. QED
  BY <1>3, <1>5, <1>6, <1>8 DEF SheetInv, Ready, At

LEMMA UnlockChanged ==
  ASSUME SheetInv, NEW u \in Unlocks, NEW x \in Unlock,
         unlocks' = [unlocks EXCEPT ![u] = x],
         unlocks[u] = NoUnlock \/ unlocks[u].status # "APPROVED",
         UNCHANGED <<past, assigned, sheets>>,
         req' = req \/ \E r \in Requests : Answer(r)
  PROVE  SheetInv'
<1>1. \A v \in Unlocks \ {u} : unlocks'[v] = unlocks[v]
  BY DEF SheetInv, TypeOK
<1>2. \A f \in Engineers : HasUnlock(f, {"APPROVED"}) => HasUnlock(f, {"APPROVED"})'
  BY <1>1 DEF HasUnlock
<1>3. \A q \in Requests : req'[q] = req[q] \/ req'[q] = Idle
  BY DEF SheetInv, TypeOK, Answer
<1>4. TypeOK'
  BY DEF SheetInv, TypeOK, Answer
<1>5. ReviewsOnRecord' /\ LateWritesUnlocked'
  BY <1>2 DEF SheetInv, ReviewsOnRecord, LateWritesUnlocked, Exists
<1>6. ASSUME NEW q \in Requests PROVE Ready(req[q])'
  <2>1. CASE req'[q] = Idle
    BY <2>1 DEF Ready
  <2>2. CASE req'[q] = req[q] /\ req[q] # Idle
    <3>1. req[q].engineer \in Engineers
      BY <2>2 DEF SheetInv, TypeOK, Request
    <3>2. Ready(req[q])
      BY SheetInvParts
    <3>3. QED
      BY <1>2, <2>2, <3>1, <3>2 DEF Ready, Exists
  <2>3. QED
    BY <1>3, <2>1, <2>2
<1>7. QED
  BY <1>4, <1>5, <1>6 DEF SheetInv, Ready, At
-------------------------------------------------------------------------------
(* Every step keeps SheetInv.                                              *)

\* Without sheets and unlock requests, SheetInv holds.
THEOREM TimesheetsInitInv == Init => SheetInv
<1> SUFFICES ASSUME Init PROVE SheetInv
  OBVIOUS
<1>1. TypeOK
  BY DEF Init, TypeOK
<1>2. \A e \in Engineers : ~ Exists(e) /\ ~ sheets[e].late
  BY DEF Init, Exists, NoSheet
<1>3. \A r \in Requests : req[r] = Idle
  BY DEF Init
<1>4. QED
  BY <1>1, <1>2, <1>3 DEF SheetInv, ReviewsOnRecord, LateWritesUnlocked

LEMMA ArriveKeepsInv ==
  ASSUME SheetInv, NEW r \in Requests, NEW e \in Engineers,
         ReceiveCreate(r, e) \/ ReceiveUpdate(r, e) \/ ReceiveUnlock(r, e)
  PROVE  SheetInv'
<1>1. PICK handler \in Handlers :
        Arrive(r, e, handler) /\ (handler = "updateOwn" => Exists(e))
  BY DEF ReceiveCreate, ReceiveUpdate, ReceiveUnlock, Handlers
<1> DEFINE x == [pc |-> "findAssignment", handler |-> handler, engineer |-> e, late |-> past]
<1>2. x \in Request
  BY DEF SheetInv, TypeOK, Request
<1>3. Ready(x)
  BY <1>1 DEF Ready
<1>4. req' = [req EXCEPT ![r] = x] /\ UNCHANGED <<past, assigned, sheets, unlocks>>
  BY <1>1 DEF Arrive
<1> HIDE DEF x
<1>5. QED
  BY <1>2, <1>3, <1>4, RequestChanged

LEMMA AssertKeepsInv ==
  ASSUME SheetInv, NEW r \in Requests,
         AssertAssignment(r) \/ AssertUnlocked(r) \/ AssertNoneOpen(r)
  PROVE  SheetInv'
<1>1. PICK at \in {"findAssignment", "findUnlocked", "findOpen"} :
        /\ At(r, at)
        /\ \/ Answer(r)
           \/ \E pc \in {"findUnlocked", "findOpen", "write"} :
                /\ Proceed(r, pc)
                /\ pc = "findOpen" => req[r].handler = "requestUnlock"
                /\ pc = "findUnlocked" => req[r].handler # "requestUnlock"
                /\ pc = "write" /\ req[r].handler # "requestUnlock" =>
                     \/ at = "findAssignment" /\ ~ past
                     \/ at = "findUnlocked" /\ HasUnlock(req[r].engineer, {"APPROVED"})
                     \/ at = "findOpen"
  BY DEF AssertAssignment, AssertUnlocked, AssertNoneOpen
<1>2. UNCHANGED <<past, assigned, sheets, unlocks>>
  BY DEF AssertAssignment, AssertUnlocked, AssertNoneOpen
<1>3. Ready(req[r]) /\ req[r] \in Request /\ req[r] # Idle /\ req[r].pc = at
  BY <1>1, SheetInvParts, RequestKinds
<1>4. CASE Answer(r)
  <2>1. Ready(Idle)
    BY DEF Ready
  <2>2. QED
    BY <1>2, <1>4, <2>1, RequestChanged DEF Answer
<1>5. ASSUME NEW pc \in {"findUnlocked", "findOpen", "write"},
             Proceed(r, pc),
             pc = "findOpen" => req[r].handler = "requestUnlock",
             pc = "findUnlocked" => req[r].handler # "requestUnlock",
             pc = "write" /\ req[r].handler # "requestUnlock" =>
               \/ at = "findAssignment" /\ ~ past
               \/ at = "findUnlocked" /\ HasUnlock(req[r].engineer, {"APPROVED"})
               \/ at = "findOpen"
      PROVE  SheetInv'
  <2> DEFINE x == [req[r] EXCEPT !.pc = pc]
  <2>1. /\ x \in Request /\ x.pc = pc /\ x.handler = req[r].handler
        /\ x.engineer = req[r].engineer /\ x.late = req[r].late
    <3>1. pc \in {"findAssignment", "findUnlocked", "findOpen", "write"}
      OBVIOUS
    <3>2. QED
      BY <1>3, <3>1, Proceeded
  <2>2. req' = [req EXCEPT ![r] = x]
    BY <1>5 DEF Proceed
  <2> HIDE DEF x
  <2>3. Ready(x)
    BY <1>3, <1>5, <2>1 DEF Ready
  <2>4. QED
    BY <1>2, <2>1, <2>2, <2>3, RequestChanged
<1>6. QED
  BY <1>1, <1>4, <1>5

\* A request that is answered without a write.
LEMMA AnswerKeepsInv ==
  ASSUME SheetInv, NEW r \in Requests, Answer(r), UNCHANGED <<past, assigned, sheets, unlocks>>
  PROVE  SheetInv'
<1>1. Ready(Idle)
  BY DEF Ready
<1>2. QED
  BY <1>1, RequestChanged DEF Answer

LEMMA CreateKeepsInv ==
  ASSUME SheetInv, NEW r \in Requests, NEW c \in Contents, Create(r, c)
  PROVE  SheetInv'
<1> DEFINE e == req[r].engineer
<1>1. /\ At(r, "write") /\ req[r].handler # "requestUnlock" /\ Answer(r)
      /\ UNCHANGED <<past, assigned, unlocks>>
  BY DEF Create
<1>2. e \in Engineers /\ req[r].late \in BOOLEAN /\ (req[r].late => HasUnlock(e, {"APPROVED"}))
  BY <1>1, RequestKinds DEF SheetInv
<1>3. CASE Exists(e)
  BY <1>1, <1>3, AnswerKeepsInv DEF Create
<1>4. CASE ~ Exists(e)
  <2> DEFINE s == [NoSheet EXCEPT !.status = "DRAFT", !.content = c, !.late = req[r].late]
  <2>1. s \in Sheet
    BY <1>2 DEF Sheet, Statuses, NoSheet
  <2>2. sheets' = [sheets EXCEPT ![e] = s]
    BY <1>4 DEF Create
  <2>3. s.late = req[r].late /\ s.reviewedBy = Nobody /\ s.status = "DRAFT" /\ s.reason = FALSE
    BY DEF NoSheet
  <2> HIDE DEF e, s
  <2>4. QED
    BY <1>1, <1>2, <2>1, <2>2, <2>3, SheetChanged
<1>5. QED
  BY <1>3, <1>4

LEMMA UpdateKeepsInv ==
  ASSUME SheetInv, NEW r \in Requests, NEW c \in Contents, Update(r, c)
  PROVE  SheetInv'
<1> DEFINE e == req[r].engineer
<1>1. /\ At(r, "write") /\ req[r].handler = "updateOwn" /\ Answer(r)
      /\ UNCHANGED <<past, assigned, unlocks>>
  BY DEF Update
<1>2. e \in Engineers /\ req[r].late \in BOOLEAN /\ (req[r].late => HasUnlock(e, {"APPROVED"}))
  BY <1>1, RequestKinds DEF SheetInv
<1>3. Exists(e)
  BY <1>1, RequestKinds DEF SheetInv
<1>4. sheets[e] \in Sheet /\ sheets[e].late \in BOOLEAN
  BY <1>2, <1>3, SheetFields DEF Exists, SheetInv, TypeOK
<1>5. PICK late \in BOOLEAN : late = (sheets[e].late \/ req[r].late)
  OBVIOUS
<1> DEFINE s == [sheets[e] EXCEPT !.content = c, !.late = late]
<1>6. sheets' = [sheets EXCEPT ![e] = s]
  BY <1>5 DEF Update
<1>7. s \in Sheet
  BY <1>4 DEF Sheet
<1>8. /\ s.late = late /\ s.status = sheets[e].status /\ s.reason = sheets[e].reason
      /\ s.reviewedBy = sheets[e].reviewedBy
  BY <1>4 DEF Sheet
<1> HIDE DEF e, s
<1>9. s.late => HasUnlock(e, {"APPROVED"})
  BY <1>2, <1>5, <1>8 DEF SheetInv, LateWritesUnlocked
<1>10. /\ s.reviewedBy # Nobody <=> s.status \in {"APPROVED", "REJECTED"}
       /\ s.reason <=> s.status = "REJECTED"
  BY <1>2, <1>3, <1>8 DEF SheetInv, ReviewsOnRecord
<1>11. QED
  BY <1>1, <1>2, <1>6, <1>7, <1>9, <1>10, SheetChanged

LEMMA SubmitKeepsInv ==
  ASSUME SheetInv, NEW e \in Engineers, SubmitOwn(e)
  PROVE  SheetInv'
<1>1. sheets[e] \in Sheet
  BY SheetFields DEF SubmitOwn, Exists, SheetInv, TypeOK
<1> DEFINE s == [sheets[e] EXCEPT !.status = "SUBMITTED", !.submitted = sheets[e].content,
                                  !.reason = FALSE, !.reviewedBy = Nobody]
<1>2. sheets' = [sheets EXCEPT ![e] = s] /\ UNCHANGED <<past, assigned, unlocks, req>>
  BY DEF SubmitOwn
<1>3. s \in Sheet
  BY <1>1 DEF Sheet, Statuses
<1>4. s.late = sheets[e].late /\ s.status = "SUBMITTED" /\ s.reason = FALSE /\ s.reviewedBy = Nobody
  BY <1>1 DEF Sheet
<1> HIDE DEF s
<1>5. s.late => HasUnlock(e, {"APPROVED"})
  BY <1>4 DEF SheetInv, LateWritesUnlocked
<1>6. QED
  BY <1>2, <1>3, <1>4, <1>5, SheetChanged

LEMMA ReviewKeepsInv ==
  ASSUME SheetInv, NEW e \in Engineers, NEW status \in Statuses, NEW reviewer \in Reviewers,
         UpdateStatus(e, status, reviewer)
  PROVE  SheetInv'
<1>1. sheets[e] \in Sheet /\ status \in {"APPROVED", "REJECTED"}
  BY SheetFields DEF UpdateStatus, Exists, SheetInv, TypeOK
<1>2. PICK reason \in BOOLEAN : reason = (status = "REJECTED")
  OBVIOUS
<1> DEFINE s == [sheets[e] EXCEPT !.status = status, !.reviewedBy = reviewer, !.reason = reason]
<1>3. sheets' = [sheets EXCEPT ![e] = s] /\ UNCHANGED <<past, assigned, unlocks, req>>
  BY <1>2 DEF UpdateStatus
<1>4. s \in Sheet
  BY <1>1 DEF Sheet
<1>5. s.late = sheets[e].late /\ s.status = status /\ s.reason = reason /\ s.reviewedBy = reviewer
  BY <1>1 DEF Sheet
<1> HIDE DEF s
<1>6. s.late => HasUnlock(e, {"APPROVED"})
  BY <1>5 DEF SheetInv, LateWritesUnlocked
<1>7. s.reviewedBy # Nobody /\ (s.reason <=> s.status = "REJECTED")
  BY <1>2, <1>5, ConstantsAssumption
<1>8. QED
  BY <1>1, <1>3, <1>4, <1>5, <1>6, <1>7, SheetChanged

LEMMA UnlocksKeepInv ==
  ASSUME SheetInv, NEW u \in Unlocks,
         \/ \E r \in Requests : InsertUnlock(r, u)
         \/ \E status \in {"PENDING", "APPROVED", "REJECTED"} : ReviewUnlock(u, status)
  PROVE  SheetInv'
<1>1. ASSUME NEW r \in Requests, InsertUnlock(r, u)
      PROVE  SheetInv'
  <2> DEFINE x == [engineer |-> req[r].engineer, status |-> "PENDING"]
  <2>1. x \in Unlock
    BY <1>1, RequestKinds DEF InsertUnlock, Unlock, SheetInv
  <2>2. /\ unlocks' = [unlocks EXCEPT ![u] = x] /\ unlocks[u] = NoUnlock
        /\ Answer(r) /\ UNCHANGED <<past, assigned, sheets>>
    BY <1>1 DEF InsertUnlock
  <2> HIDE DEF x
  <2>3. QED
    BY <2>1, <2>2, UnlockChanged
<1>2. ASSUME NEW status \in {"PENDING", "APPROVED", "REJECTED"}, ReviewUnlock(u, status)
      PROVE  SheetInv'
  <2> DEFINE x == [unlocks[u] EXCEPT !.status = status]
  <2>1. x \in Unlock
    BY <1>2 DEF ReviewUnlock, Unlock, SheetInv, TypeOK
  <2>2. /\ unlocks' = [unlocks EXCEPT ![u] = x] /\ unlocks[u].status # "APPROVED"
        /\ UNCHANGED <<past, assigned, sheets, req>>
    BY <1>2 DEF ReviewUnlock
  <2> HIDE DEF x
  <2>3. QED
    BY <2>1, <2>2, UnlockChanged
<1>3. QED
  BY <1>1, <1>2

LEMMA OthersKeepInv ==
  ASSUME SheetInv, DayPasses \/ \E team \in SUBSET Engineers : Reassign(team)
  PROVE  SheetInv'
<1>1. /\ UNCHANGED <<sheets, unlocks, req>>
      /\ past' \in BOOLEAN /\ assigned' \subseteq Engineers /\ (past => past')
  BY DEF DayPasses, Reassign, SheetInv, TypeOK
<1>2. QED
  BY <1>1 DEF SheetInv, TypeOK, ReviewsOnRecord, LateWritesUnlocked, Exists, HasUnlock, At

\* Every step of the sheets and the unlock requests keeps SheetInv.
THEOREM TimesheetsNextKeepsInv == SheetInv /\ [Next]_vars => SheetInv'
<1> SUFFICES ASSUME SheetInv, [Next]_vars PROVE SheetInv'
  OBVIOUS
<1>1. CASE UNCHANGED vars
  BY <1>1 DEF vars, SheetInv, TypeOK, ReviewsOnRecord, LateWritesUnlocked, Exists, HasUnlock, At
<1>2. ASSUME NEW r \in Requests, NEW e \in Engineers,
             ReceiveCreate(r, e) \/ ReceiveUpdate(r, e) \/ ReceiveUnlock(r, e)
      PROVE  SheetInv'
  BY <1>2, ArriveKeepsInv
<1>3. ASSUME NEW r \in Requests, AssertAssignment(r) \/ AssertUnlocked(r) \/ AssertNoneOpen(r)
      PROVE  SheetInv'
  BY <1>3, AssertKeepsInv
<1>4. ASSUME NEW r \in Requests, NEW c \in Contents, Create(r, c) \/ Update(r, c)
      PROVE  SheetInv'
  BY <1>4, CreateKeepsInv, UpdateKeepsInv
<1>5. ASSUME NEW r \in Requests, Fail(r)
      PROVE  SheetInv'
  BY <1>5, AnswerKeepsInv DEF Fail
<1>6. ASSUME NEW e \in Engineers, SubmitOwn(e)
      PROVE  SheetInv'
  BY <1>6, SubmitKeepsInv
<1>7. ASSUME NEW e \in Engineers, NEW status \in Statuses, NEW reviewer \in Reviewers,
             UpdateStatus(e, status, reviewer)
      PROVE  SheetInv'
  BY <1>7, ReviewKeepsInv
<1>8. QED
  BY <1>1, <1>2, <1>3, <1>4, <1>5, <1>6, <1>7, UnlocksKeepInv, OthersKeepInv DEF Next, RequestStep

\* SheetInv always holds.
THEOREM TimesheetsInvariance == Spec => []SheetInv
<1>1. QED
  BY TimesheetsInitInv, TimesheetsNextKeepsInv, PTL DEF Spec
-------------------------------------------------------------------------------
(* What holds however the requests of an engineer overlap.                 *)

\* The sheets, the unlock requests and the requests in flight have their types.
THEOREM TimesheetsTypeCorrect == Spec => []TypeOK
<1>1. SheetInv => TypeOK
  BY DEF SheetInv
<1>2. QED
  BY <1>1, TimesheetsInvariance, PTL

\* A sheet says who reviewed it exactly while the review stands.
THEOREM ReviewsRecorded == Spec => []ReviewsOnRecord
<1>1. SheetInv => ReviewsOnRecord
  BY DEF SheetInv
<1>2. QED
  BY <1>1, TimesheetsInvariance, PTL

\* What was written after the claim date rests on an approved unlock.
THEOREM LateWrites == Spec => []LateWritesUnlocked
<1>1. SheetInv => LateWritesUnlocked
  BY DEF SheetInv
<1>2. QED
  BY <1>1, TimesheetsInvariance, PTL

\* What a step does to the sheets: one of them is created, written, submitted or
\* reviewed, or none changes.
LEMMA SheetSteps ==
  ASSUME SheetInv, [Next]_vars
  PROVE  \/ UNCHANGED sheets
         \/ \E r \in Requests, c \in Contents :
              /\ Create(r, c) \/ Update(r, c)
              /\ req[r].engineer \in Engineers
         \/ \E e \in Engineers : SubmitOwn(e)
         \/ \E e \in Engineers, status \in Statuses, reviewer \in Reviewers :
              UpdateStatus(e, status, reviewer)
<1>1. CASE UNCHANGED sheets
  BY <1>1
<1>2. ASSUME NEW r \in Requests, NEW c \in Contents, Create(r, c) \/ Update(r, c)
      PROVE  req[r].engineer \in Engineers
  BY <1>2, RequestKinds DEF Create, Update, SheetInv
<1>3. QED
  BY <1>1, <1>2 DEF vars, Next, RequestStep, ReceiveCreate, ReceiveUpdate, ReceiveUnlock, Arrive,
       AssertAssignment, AssertUnlocked, AssertNoneOpen, InsertUnlock, Fail, ReviewUnlock,
       DayPasses, Reassign

\* What becomes of the one sheet that is created or written.
LEMMA SheetWritten ==
  ASSUME SheetInv, NEW r \in Requests, NEW c \in Contents, Create(r, c) \/ Update(r, c),
         ~ UNCHANGED sheets
  PROVE  LET e == req[r].engineer
         IN  /\ e \in Engineers
             /\ \A f \in Engineers \ {e} : sheets'[f] = sheets[f]
             /\ sheets'[e].content = c
             /\ \/ sheets[e].status = "NONE" /\ sheets'[e].status = "DRAFT"
                \/ /\ req[r].handler = "updateOwn" /\ At(r, "write")
                   /\ Exists(e) /\ sheets'[e].status = sheets[e].status
<1> DEFINE e == req[r].engineer
<1>1. e \in Engineers
  BY RequestKinds DEF Create, Update, SheetInv
<1>2. CASE Create(r, c)
  <2> DEFINE s == [NoSheet EXCEPT !.status = "DRAFT", !.content = c, !.late = req[r].late]
  <2>1. sheets[e] = NoSheet /\ sheets' = [sheets EXCEPT ![e] = s]
    BY <1>2 DEF Create, Exists
  <2>2. s.content = c /\ s.status = "DRAFT" /\ NoSheet.status = "NONE"
    BY DEF NoSheet
  <2> HIDE DEF s, e
  <2>3. /\ sheets'[e] = s
        /\ \A f \in Engineers \ {e} : sheets'[f] = sheets[f]
    BY <1>1, <2>1 DEF SheetInv, TypeOK
  <2>4. QED
    BY <1>1, <2>1, <2>2, <2>3 DEF e
<1>3. CASE Update(r, c)
  <2>1. At(r, "write") /\ req[r].handler = "updateOwn"
    BY <1>3 DEF Update
  <2>2. Exists(e)
    BY <2>1, RequestKinds DEF SheetInv
  <2>3. sheets[e] \in Sheet
    BY <1>1, <2>2, SheetFields DEF Exists, SheetInv, TypeOK
  <2> DEFINE s == [sheets[e] EXCEPT !.content = c, !.late = sheets[e].late \/ req[r].late]
  <2>4. sheets' = [sheets EXCEPT ![e] = s]
    BY <1>3 DEF Update
  <2>5. s.content = c /\ s.status = sheets[e].status
    BY <2>3 DEF Sheet
  <2> HIDE DEF s, e
  <2>6. /\ sheets'[e] = s
        /\ \A f \in Engineers \ {e} : sheets'[f] = sheets[f]
    BY <1>1, <2>4 DEF SheetInv, TypeOK
  <2>7. QED
    BY <1>1, <2>1, <2>2, <2>5, <2>6 DEF e
<1>4. QED
  BY <1>2, <1>3

\* What becomes of the one sheet that is submitted or reviewed.
LEMMA SheetMoved ==
  ASSUME SheetInv, NEW e \in Engineers,
         \/ SubmitOwn(e)
         \/ \E status \in Statuses, reviewer \in Reviewers : UpdateStatus(e, status, reviewer)
  PROVE  /\ \A f \in Engineers \ {e} : sheets'[f] = sheets[f]
         /\ sheets'[e].content = sheets[e].content
         /\ UNCHANGED <<unlocks, req>>
         /\ \/ /\ sheets[e].status \in Editable /\ sheets'[e].status = "SUBMITTED"
               /\ sheets'[e].submitted = sheets[e].content /\ SubmitOwn(e)
            \/ /\ sheets[e].status = "SUBMITTED" /\ sheets'[e].status \in {"APPROVED", "REJECTED"}
               /\ sheets'[e].submitted = sheets[e].submitted
<1>1. sheets[e] \in Sheet
  BY SheetFields DEF SubmitOwn, UpdateStatus, Exists, SheetInv, TypeOK
<1>2. CASE SubmitOwn(e)
  <2> DEFINE s == [sheets[e] EXCEPT !.status = "SUBMITTED", !.submitted = sheets[e].content,
                                    !.reason = FALSE, !.reviewedBy = Nobody]
  <2>1. /\ sheets' = [sheets EXCEPT ![e] = s] /\ UNCHANGED <<unlocks, req>>
        /\ sheets[e].status \in Editable
    BY <1>2 DEF SubmitOwn
  <2>2. s.status = "SUBMITTED" /\ s.submitted = sheets[e].content /\ s.content = sheets[e].content
    BY <1>1 DEF Sheet
  <2> HIDE DEF s
  <2>3. QED
    BY <1>2, <2>1, <2>2 DEF SheetInv, TypeOK
<1>3. ASSUME NEW status \in Statuses, NEW reviewer \in Reviewers, UpdateStatus(e, status, reviewer)
      PROVE  /\ \A f \in Engineers \ {e} : sheets'[f] = sheets[f]
             /\ sheets'[e].content = sheets[e].content
             /\ UNCHANGED <<unlocks, req>>
             /\ sheets[e].status = "SUBMITTED" /\ sheets'[e].status \in {"APPROVED", "REJECTED"}
             /\ sheets'[e].submitted = sheets[e].submitted
  <2>1. PICK reason \in BOOLEAN : reason = (status = "REJECTED")
    OBVIOUS
  <2> DEFINE s == [sheets[e] EXCEPT !.status = status, !.reviewedBy = reviewer, !.reason = reason]
  <2>2. /\ sheets' = [sheets EXCEPT ![e] = s] /\ UNCHANGED <<unlocks, req>>
        /\ sheets[e].status = "SUBMITTED" /\ status \in {"APPROVED", "REJECTED"}
    BY <1>3, <2>1 DEF UpdateStatus
  <2>3. /\ s.status = status /\ s.submitted = sheets[e].submitted
        /\ s.content = sheets[e].content
    BY <1>1 DEF Sheet
  <2> HIDE DEF s
  <2>4. QED
    BY <2>2, <2>3 DEF SheetInv, TypeOK
<1>4. QED
  BY <1>2, <1>3

LEMMA VerdictStep ==
  ASSUME SheetInv, [Next]_vars, NEW e \in Engineers, sheets'[e].status # sheets[e].status
  PROVE  <<sheets[e].status, sheets'[e].status>> \in
           {<<"NONE", "DRAFT">>, <<"DRAFT", "SUBMITTED">>, <<"REJECTED", "SUBMITTED">>,
            <<"SUBMITTED", "APPROVED">>, <<"SUBMITTED", "REJECTED">>}
<1>1. ~ UNCHANGED sheets
  OBVIOUS
<1>2. ASSUME NEW r \in Requests, NEW c \in Contents, Create(r, c) \/ Update(r, c)
      PROVE  sheets[e].status = "NONE" /\ sheets'[e].status = "DRAFT"
  BY <1>1, <1>2, SheetWritten
<1>3. ASSUME NEW f \in Engineers,
             \/ SubmitOwn(f)
             \/ \E status \in Statuses, reviewer \in Reviewers : UpdateStatus(f, status, reviewer)
      PROVE  \/ sheets[e].status \in Editable /\ sheets'[e].status = "SUBMITTED"
             \/ sheets[e].status = "SUBMITTED" /\ sheets'[e].status \in {"APPROVED", "REJECTED"}
  BY <1>3, SheetMoved
<1>4. QED
  BY <1>1, <1>2, <1>3, SheetSteps DEF Editable

\* Each verdict is on a submission nobody has decided, and an approval is final.
THEOREM Verdicts == Spec => VerdictsFinal
<1>1. ASSUME SheetInv, [Next]_vars
      PROVE  [\A e \in Engineers : sheets'[e].status # sheets[e].status =>
                <<sheets[e].status, sheets'[e].status>> \in
                  {<<"NONE", "DRAFT">>, <<"DRAFT", "SUBMITTED">>, <<"REJECTED", "SUBMITTED">>,
                   <<"SUBMITTED", "APPROVED">>, <<"SUBMITTED", "REJECTED">>}]_vars
  BY <1>1, VerdictStep
<1>2. QED
  BY <1>1, TimesheetsInvariance, PTL DEF Spec, VerdictsFinal
-------------------------------------------------------------------------------
(* What holds if clients wait for their answers.                           *)

\* Without sheets and unlock requests, WaitInv holds.
THEOREM WaitInitInv == Init => WaitInv
<1> SUFFICES ASSUME Init PROVE WaitInv
  OBVIOUS
<1>1. \A e \in Engineers : sheets[e].status = "NONE"
  BY DEF Init, NoSheet
<1>2. \A r \in Requests : req[r] = Idle
  BY DEF Init
<1>3. \A u \in Unlocks : unlocks[u] = NoUnlock
  BY DEF Init
<1>4. QED
  BY <1>1, <1>2, <1>3 DEF WaitInv, ReviewedAsSubmitted, OneOpenUnlock

\* Requests that were in flight stay as they were or are answered.
LEMMA Answered ==
  ASSUME TypeOK, req' = req \/ \E r \in Requests : Answer(r)
  PROVE  \A q \in Requests : req'[q] # Idle => req[q] # Idle /\ req'[q] = req[q]
BY DEF TypeOK, Answer

LEMMA WaitArrive ==
  ASSUME SheetInv, WaitInv, ClientsWait, NEW r \in Requests, NEW e \in Engineers,
         ReceiveCreate(r, e) \/ ReceiveUpdate(r, e) \/ ReceiveUnlock(r, e)
  PROVE  WaitInv'
<1>1. PICK handler \in Handlers :
        Arrive(r, e, handler) /\ (handler = "updateOwn" => sheets[e].status \in Editable)
  BY DEF ReceiveCreate, ReceiveUpdate, ReceiveUnlock, Handlers
<1> DEFINE x == [pc |-> "findAssignment", handler |-> handler, engineer |-> e, late |-> past]
<1>2. req' = [req EXCEPT ![r] = x] /\ UNCHANGED <<past, assigned, sheets, unlocks>>
  BY <1>1 DEF Arrive
<1>3. x.engineer = e /\ x.handler = handler /\ x.pc = "findAssignment"
  OBVIOUS
<1>4. \A q \in Requests : req[q] # Idle => req[q].engineer # e
  BY <1>1 DEF Arrive, MaySend, Busy
<1> HIDE DEF x
<1>5. req'[r] = x /\ \A q \in Requests \ {r} : req'[q] = req[q]
  BY <1>2 DEF SheetInv, TypeOK
<1>6. \A q, p \in Requests :
        req'[q] # Idle /\ req'[p] # Idle /\ req'[q].engineer = req'[p].engineer => q = p
  BY <1>3, <1>4, <1>5 DEF WaitInv
<1>7. \A q \in Requests : req'[q] # Idle =>
        /\ req'[q].handler = "updateOwn" => sheets[req'[q].engineer].status \in Editable
        /\ req'[q].pc = "write" /\ req'[q].handler = "requestUnlock" =>
             ~ HasUnlock(req'[q].engineer, {"PENDING", "APPROVED"})
  BY <1>1, <1>3, <1>5 DEF WaitInv, At
<1>8. QED
  BY <1>2, <1>6, <1>7 DEF WaitInv, ReviewedAsSubmitted, OneOpenUnlock, HasUnlock, At

LEMMA WaitAssert ==
  ASSUME SheetInv, WaitInv, NEW r \in Requests,
         AssertAssignment(r) \/ AssertUnlocked(r) \/ AssertNoneOpen(r) \/ Fail(r)
  PROVE  WaitInv'
<1>1. UNCHANGED <<past, assigned, sheets, unlocks>>
  BY DEF AssertAssignment, AssertUnlocked, AssertNoneOpen, Fail
<1>2. CASE Answer(r)
  <2>1. \A q \in Requests : req'[q] # Idle => req[q] # Idle /\ req'[q] = req[q]
    BY <1>2, Answered DEF SheetInv
  <2>2. QED
    BY <1>1, <2>1 DEF WaitInv, ReviewedAsSubmitted, OneOpenUnlock, HasUnlock, At
<1>3. ASSUME ~ Answer(r)
      PROVE  WaitInv'
  <2>1. PICK pc \in {"findUnlocked", "findOpen", "write"} :
          /\ Proceed(r, pc)
          /\ pc = "write" /\ req[r].handler = "requestUnlock" =>
               ~ HasUnlock(req[r].engineer, {"PENDING", "APPROVED"})
    <3>1. At(r, "findUnlocked") => req[r].handler # "requestUnlock"
      BY DEF SheetInv, At
    <3>2. QED
      BY <1>3, <3>1 DEF AssertAssignment, AssertUnlocked, AssertNoneOpen, Fail
  <2>2. req[r] \in Request /\ req[r] # Idle
    BY <1>3, RequestKinds DEF AssertAssignment, AssertUnlocked, AssertNoneOpen, Fail, SheetInv
  <2> DEFINE x == [req[r] EXCEPT !.pc = pc]
  <2>3. /\ x.pc = pc /\ x.handler = req[r].handler /\ x.engineer = req[r].engineer
    BY <2>2, Proceeded
  <2>4. req' = [req EXCEPT ![r] = x]
    BY <2>1 DEF Proceed
  <2> HIDE DEF x
  <2>5. req'[r] = x /\ \A q \in Requests \ {r} : req'[q] = req[q]
    BY <2>4 DEF SheetInv, TypeOK
  <2>6. \A q, p \in Requests :
          req'[q] # Idle /\ req'[p] # Idle /\ req'[q].engineer = req'[p].engineer => q = p
    BY <2>2, <2>3, <2>5 DEF WaitInv
  <2>7. \A q \in Requests : req'[q] # Idle =>
          /\ req'[q].handler = "updateOwn" => sheets[req'[q].engineer].status \in Editable
          /\ req'[q].pc = "write" /\ req'[q].handler = "requestUnlock" =>
               ~ HasUnlock(req'[q].engineer, {"PENDING", "APPROVED"})
    BY <2>1, <2>2, <2>3, <2>5 DEF WaitInv, At
  <2>8. QED
    BY <1>1, <2>6, <2>7 DEF WaitInv, ReviewedAsSubmitted, OneOpenUnlock, HasUnlock, At
<1>4. QED
  BY <1>2, <1>3

LEMMA WaitWrite ==
  ASSUME SheetInv, WaitInv, NEW r \in Requests, NEW c \in Contents, Create(r, c) \/ Update(r, c)
  PROVE  WaitInv'
<1>1. At(r, "write") /\ Answer(r) /\ UNCHANGED <<past, assigned, unlocks>>
  BY DEF Create, Update
<1>2. \A q \in Requests : req'[q] # Idle => q # r /\ req[q] # Idle /\ req'[q] = req[q]
  BY <1>1, Answered DEF Answer, SheetInv, TypeOK
<1>3. CASE UNCHANGED sheets
  BY <1>1, <1>2, <1>3 DEF WaitInv, ReviewedAsSubmitted, OneOpenUnlock, HasUnlock, At
<1>4. CASE ~ UNCHANGED sheets
  <2> DEFINE e == req[r].engineer
  <2>1. /\ \A f \in Engineers \ {e} : sheets'[f] = sheets[f]
        /\ sheets'[e].status \in Editable
    BY <1>1, <1>4, SheetWritten, RequestKinds DEF WaitInv, Editable, SheetInv
  <2>2. ReviewedAsSubmitted'
    BY <2>1 DEF WaitInv, ReviewedAsSubmitted, Editable
  <2>3. \A q \in Requests : req[q] # Idle => req[q].engineer \in Engineers
    BY DEF SheetInv, TypeOK, Request
  <2>4. \A q \in Requests : req'[q] # Idle => sheets'[req'[q].engineer] = sheets[req[q].engineer]
    BY <1>1, <1>2, <2>1, <2>3, RequestKinds DEF WaitInv, SheetInv
  <2>5. QED
    BY <1>1, <1>2, <2>2, <2>4 DEF WaitInv, OneOpenUnlock, HasUnlock, At
<1>5. QED
  BY <1>3, <1>4

LEMMA WaitMove ==
  ASSUME SheetInv, WaitInv, ClientsWait, NEW e \in Engineers,
         \/ SubmitOwn(e)
         \/ \E status \in Statuses, reviewer \in Reviewers : UpdateStatus(e, status, reviewer)
  PROVE  WaitInv'
<1>1. ReviewedAsSubmitted'
  BY SheetMoved DEF WaitInv, ReviewedAsSubmitted
<1>2. \A q \in Requests : req[q] # Idle /\ req[q].handler = "updateOwn" => req[q].engineer # e
  BY SheetMoved DEF SubmitOwn, MaySend, Busy, WaitInv, Editable
<1>3. \A q \in Requests : req[q] # Idle => req[q].engineer \in Engineers
  BY DEF SheetInv, TypeOK, Request
<1>4. QED
  BY <1>1, <1>2, <1>3, SheetMoved DEF WaitInv, OneOpenUnlock, HasUnlock, At

LEMMA WaitUnlock ==
  ASSUME SheetInv, WaitInv, NEW u \in Unlocks,
         \/ \E r \in Requests : InsertUnlock(r, u)
         \/ \E status \in {"PENDING", "APPROVED", "REJECTED"} : ReviewUnlock(u, status)
  PROVE  WaitInv'
<1> DEFINE Open(v) == unlocks[v] # NoUnlock /\ unlocks[v].status \in {"PENDING", "APPROVED"}
<1>1. NoUnlock \notin Unlock
  BY DEF NoUnlock, Unlock
<1>2. ASSUME NEW r \in Requests, InsertUnlock(r, u)
      PROVE  WaitInv'
  <2> DEFINE e == req[r].engineer
             x == [engineer |-> e, status |-> "PENDING"]
  <2>1. /\ unlocks' = [unlocks EXCEPT ![u] = x]
        /\ At(r, "write") /\ req[r].handler = "requestUnlock" /\ Answer(r)
        /\ UNCHANGED <<past, assigned, sheets>>
    BY <1>2 DEF InsertUnlock
  <2>2. x.engineer = e /\ x.status = "PENDING"
    OBVIOUS
  <2>3. ~ HasUnlock(e, {"PENDING", "APPROVED"})
    BY <2>1, RequestKinds DEF WaitInv, SheetInv
  <2>4. \A q \in Requests : req'[q] # Idle => q # r /\ req[q] # Idle /\ req'[q] = req[q]
    BY <2>1, Answered DEF Answer, SheetInv, TypeOK
  <2>5. \A q \in Requests : req'[q] # Idle => req[q].engineer # e
    BY <2>1, <2>4, RequestKinds DEF WaitInv, SheetInv
  <2> HIDE DEF x, e
  <2>6. unlocks'[u] = x /\ \A v \in Unlocks \ {u} : unlocks'[v] = unlocks[v]
    BY <2>1 DEF SheetInv, TypeOK
  <2>7. OneOpenUnlock'
    BY <2>2, <2>3, <2>6 DEF WaitInv, OneOpenUnlock, HasUnlock
  <2>8. \A f : f # e /\ ~ HasUnlock(f, {"PENDING", "APPROVED"}) =>
          ~ HasUnlock(f, {"PENDING", "APPROVED"})'
    BY <2>2, <2>6 DEF HasUnlock
  <2>9. QED
    BY <2>1, <2>4, <2>5, <2>7, <2>8 DEF WaitInv, ReviewedAsSubmitted, At
<1>3. ASSUME NEW status \in {"PENDING", "APPROVED", "REJECTED"}, ReviewUnlock(u, status)
      PROVE  WaitInv'
  <2> DEFINE x == [unlocks[u] EXCEPT !.status = status]
  <2>1. /\ unlocks' = [unlocks EXCEPT ![u] = x] /\ unlocks[u] # NoUnlock
        /\ unlocks[u].status = "PENDING" /\ UNCHANGED <<past, assigned, sheets, req>>
    BY <1>3 DEF ReviewUnlock
  <2>2. x.engineer = unlocks[u].engineer
    BY <2>1 DEF SheetInv, TypeOK, Unlock
  <2> HIDE DEF x
  <2>3. unlocks'[u] = x /\ \A v \in Unlocks \ {u} : unlocks'[v] = unlocks[v]
    BY <2>1 DEF SheetInv, TypeOK
  <2>4. OneOpenUnlock'
    BY <2>1, <2>2, <2>3 DEF WaitInv, OneOpenUnlock
  <2>5. \A f : ~ HasUnlock(f, {"PENDING", "APPROVED"}) => ~ HasUnlock(f, {"PENDING", "APPROVED"})'
    BY <2>1, <2>2, <2>3 DEF HasUnlock
  <2>6. QED
    BY <2>1, <2>4, <2>5 DEF WaitInv, ReviewedAsSubmitted, At
<1>4. QED
  BY <1>2, <1>3

\* If clients wait, every step keeps WaitInv.
THEOREM WaitNextKeepsInv ==
  ASSUME ClientsWait
  PROVE  SheetInv /\ WaitInv /\ [Next]_vars => WaitInv'
<1> SUFFICES ASSUME SheetInv, WaitInv, [Next]_vars PROVE WaitInv'
  OBVIOUS
<1>1. CASE UNCHANGED vars
  BY <1>1 DEF vars, WaitInv, ReviewedAsSubmitted, OneOpenUnlock, HasUnlock, At
<1>2. CASE DayPasses \/ \E team \in SUBSET Engineers : Reassign(team)
  BY <1>2 DEF DayPasses, Reassign, WaitInv, ReviewedAsSubmitted, OneOpenUnlock, HasUnlock, At
<1>3. QED
  BY <1>1, <1>2, WaitArrive, WaitAssert, WaitWrite, WaitMove, WaitUnlock DEF Next, RequestStep

\* If clients wait for their answers, WaitInv always holds.
THEOREM WaitInvariance ==
  ASSUME ClientsWait
  PROVE  Spec => []WaitInv
<1>1. QED
  BY WaitInitInv, WaitNextKeepsInv, TimesheetsInvariance, PTL DEF Spec

\* If clients wait, what is under review or approved is what was submitted.
THEOREM Reviewed ==
  ASSUME ClientsWait
  PROVE  Spec => []ReviewedAsSubmitted
<1>1. WaitInv => ReviewedAsSubmitted
  BY DEF WaitInv
<1>2. QED
  BY <1>1, WaitInvariance, PTL

\* If clients wait, an engineer has at most one open unlock request.
THEOREM OneOpen ==
  ASSUME ClientsWait
  PROVE  Spec => []OneOpenUnlock
<1>1. WaitInv => OneOpenUnlock
  BY DEF WaitInv
<1>2. QED
  BY <1>1, WaitInvariance, PTL
-------------------------------------------------------------------------------
(* The sheets follow TimesheetLifecycle.                                   *)

Stage == [e \in Engineers |-> sheets[e].status]
Claimed == [e \in Engineers |-> sheets[e].content]

\* The step of the lifecycle that moves one engineer's sheet.
LEMMA LifecycleMove ==
  ASSUME NEW e \in Engineers,
         \A f \in Engineers \ {e} : sheets'[f] = sheets[f]
  PROVE  /\ Stage' = [Stage EXCEPT ![e] = sheets'[e].status]
         /\ Claimed' = [Claimed EXCEPT ![e] = sheets'[e].content]
         /\ sheets'[e].status = sheets[e].status => Stage' = Stage
         /\ sheets'[e].content = sheets[e].content => Claimed' = Claimed
BY DEF Stage, Claimed

LEMMA LifecycleInit == Init => Lifecycle!Init
BY DEF Init, Lifecycle!Init, NoSheet

LEMMA LifecycleStep ==
  ASSUME SheetInv, WaitInv, [Next]_vars
  PROVE  [Lifecycle!Next]_(Lifecycle!vars)
<1>1. CASE UNCHANGED sheets
  BY <1>1 DEF Lifecycle!vars
<1>2. ASSUME NEW r \in Requests, NEW c \in Contents, Create(r, c) \/ Update(r, c),
             ~ UNCHANGED sheets
      PROVE  Lifecycle!Next
  <2>1. PICK e \in Engineers :
          /\ \A f \in Engineers \ {e} : sheets'[f] = sheets[f]
          /\ sheets'[e].content = c
          /\ \/ sheets[e].status = "NONE" /\ sheets'[e].status = "DRAFT"
             \/ sheets[e].status \in {"DRAFT", "REJECTED"} /\ sheets'[e].status = sheets[e].status
    BY <1>2, SheetWritten, RequestKinds DEF WaitInv, Editable, SheetInv
  <2>2. Stage[e] = sheets[e].status
    BY <2>1 DEF Stage
  <2>3. /\ \/ Stage[e] \in {"NONE"} /\ Stage' = [Stage EXCEPT ![e] = "DRAFT"]
           \/ Stage[e] \in {"DRAFT", "REJECTED"} /\ Stage' = Stage
        /\ Claimed' = [Claimed EXCEPT ![e] = c]
    BY <2>1, <2>2, LifecycleMove
  <2>4. Lifecycle!Write(e)
    BY <2>3 DEF Lifecycle!Write, Lifecycle!Move, Stage, Claimed
  <2>5. QED
    BY <2>4 DEF Lifecycle!Next
<1>3. ASSUME NEW e \in Engineers,
             \/ SubmitOwn(e)
             \/ \E status \in Statuses, reviewer \in Reviewers : UpdateStatus(e, status, reviewer)
      PROVE  Lifecycle!Next
  <2>1. /\ \A f \in Engineers \ {e} : sheets'[f] = sheets[f]
        /\ sheets'[e].content = sheets[e].content
        /\ \/ sheets[e].status \in {"DRAFT", "REJECTED"} /\ sheets'[e].status = "SUBMITTED"
           \/ sheets[e].status = "SUBMITTED" /\ sheets'[e].status \in {"APPROVED", "REJECTED"}
    BY <1>3, SheetMoved DEF Editable
  <2>2. Stage[e] = sheets[e].status
    BY DEF Stage
  <2>3. Claimed' = Claimed /\ Stage' = [Stage EXCEPT ![e] = sheets'[e].status]
    BY <2>1, LifecycleMove
  <2>4. CASE sheets'[e].status = "SUBMITTED"
    <3>1. Lifecycle!Submit(e)
      BY <2>1, <2>2, <2>3, <2>4 DEF Lifecycle!Submit, Lifecycle!Move, Stage, Claimed
    <3>2. QED
      BY <3>1 DEF Lifecycle!Next
  <2>5. CASE sheets'[e].status \in {"APPROVED", "REJECTED"}
    <3>1. Lifecycle!Review(e)
      BY <2>1, <2>2, <2>3, <2>5 DEF Lifecycle!Review, Lifecycle!Move, Stage, Claimed
    <3>2. QED
      BY <3>1 DEF Lifecycle!Next
  <2>6. QED
    BY <2>1, <2>4, <2>5
<1>4. QED
  BY <1>1, <1>2, <1>3, SheetSteps

\* If clients wait for their answers, the sheets follow TimesheetLifecycle.
THEOREM FollowsLifecycle ==
  ASSUME ClientsWait
  PROVE  Spec => ImplementsLifecycle
<1>1. QED
  BY LifecycleInit, LifecycleStep, TimesheetsInvariance, WaitInvariance, PTL
     DEF Spec, ImplementsLifecycle, Lifecycle!Spec
===============================================================================
