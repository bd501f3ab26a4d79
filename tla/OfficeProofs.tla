------------------------------ MODULE OfficeProofs ------------------------------
(***************************************************************************)
(* Proofs about what the office works with: leave, departments and the     *)
(* administrators' accounts; and of these together with the components of  *)
(* AccountsProofs: each behaves as it does alone.                          *)
(***************************************************************************)
EXTENDS MCOffice, AccountsProofs, FiniteSetTheorems, TLAPS

-------------------------------------------------------------------------------
(* Leave.                                                                  *)

Slots == Applicants \union Reviewers

\* A leave there is has a status, and one of other dates or status is a leave.
LEMMA LeaveFields ==
  ASSUME NEW l \in LeaveRequest \union {NoLeave}
  PROVE  /\ l.status \in Statuses <=> l # NoLeave
         /\ l # NoLeave => l \in LeaveRequest /\ l.dates \in Period
<1>1. NoLeave.status = "NONE" /\ "NONE" \notin Statuses
  BY DEF NoLeave, Statuses
<1>2. l \in LeaveRequest => l.status \in Statuses /\ l.dates \in Period
  BY DEF LeaveRequest
<1>3. QED
  BY <1>1, <1>2

\* What the record of a request holds follows from its pc and from who sent it.
LEMMA LeaveKinds ==
  ASSUME TypeOK
  PROVE  /\ \A a \in Applicants :
              /\ At(a, "create") => req[a].dates \in Period
              /\ At(a, "find") => req[a].dates \in Period
              /\ At(a, "save") => req[a].changes \in Changes /\ req[a].leave \in Leaves
         /\ \A v \in Reviewers :
              /\ At(v, "save") \/ At(v, "deduct") => req[v] \in Verdict
              /\ req[v] # Idle => req[v] \in Verdict
              /\ At(v, "idle") <=> req[v] = Idle
BY DEF TypeOK, At, Application, Amendment, Verdict, Idle

\* What is asked for is a period, of dates that are numbers.
LEMMA RequestedArePeriods == Requested \subseteq Period /\ Dates \subseteq Int
BY ConstantsAssumption DEF Period, Dates, Ends

\* What a save sets is made of dates, and so is what it leaves.
LEMMA ChangesAreDates ==
  /\ \A p \in Period, new \in Period : ChangesFrom(p, new) \in Changes
  /\ \A p \in Period, changes \in Changes : Changed(p, changes) \in Period
<1>1. ASSUME NEW p \in Period, NEW new \in Period
      PROVE  ChangesFrom(p, new) \in Changes
  <2> DEFINE ends == {e \in Ends : new[e] # p[e]}
  <2>1. ends \in SUBSET Ends /\ ChangesFrom(p, new) \in [ends -> Dates]
    BY DEF ChangesFrom, Period
  <2> HIDE DEF ends
  <2>2. QED
    BY <2>1 DEF Changes
<1>2. ASSUME NEW p \in Period, NEW changes \in Changes
      PROVE  Changed(p, changes) \in Period
  <2>1. PICK ends \in SUBSET Ends : changes \in [ends -> Dates]
    BY DEF Changes
  <2>2. \A e \in Ends : (IF e \in DOMAIN changes THEN changes[e] ELSE p[e]) \in Dates
    BY <2>1 DEF Period
  <2>3. QED
    BY <2>2 DEF Changed, Period
<1>3. QED
  BY <1>1, <1>2

\* A leave is for a whole number of days.
LEMMA DaysAreNumbers ==
  /\ \A p \in Period : DaysOf(p) \in Days
  /\ Days \subseteq Int
<1>1. ASSUME NEW p \in Period
      PROVE  DaysOf(p) \in Int
  <2>1. p["start"] \in Int /\ p["end"] \in Int
    BY RequestedArePeriods DEF Period, Ends
  <2>2. QED
    BY <2>1 DEF DaysOf
<1>2. QED
  BY <1>1 DEF Days

\* A step that changes one request, and at most one leave that there is.
LEMMA LeaveMoves ==
  ASSUME LeaveInv, NEW r \in Slots,
         NEW x \in Application \union Amendment \union Verdict \union {Idle}, Becomes(r, x),
         r \in Applicants => x \in Application \union Amendment \union {Idle},
         r \in Reviewers => x \in Verdict \union {Idle},
         r \in Applicants /\ x.pc = "save" => leaves[x.leave] # NoLeave,
         r \in Reviewers /\ x # Idle => leaves[x.leave] # NoLeave,
         balance' \in Int, charges' \in [Leaves -> Nat],
         \/ UNCHANGED leaves
         \/ \E l \in Leaves, y \in LeaveRequest :
              leaves' = [leaves EXCEPT ![l] = y]
  PROVE  LeaveInv'
<1>1. leaves' \in [Leaves -> LeaveRequest \union {NoLeave}]
  BY DEF LeaveInv, TypeOK
<1>2. req'[r] = x /\ \A q \in Slots \ {r} : req'[q] = req[q]
  BY DEF LeaveInv, TypeOK, Becomes, Slots
<1>3. TypeOK'
  BY <1>1, <1>2 DEF LeaveInv, TypeOK, Becomes, Slots
<1>4. \A l \in Leaves : leaves[l] # NoLeave => leaves'[l] # NoLeave
  <2>1. \A y \in LeaveRequest : y # NoLeave
    BY LeaveFields DEF LeaveRequest
  <2>2. QED
    BY <2>1 DEF LeaveInv, TypeOK
<1>5. \A a \in Applicants : At(a, "save")' =>
        req'[a].leave \in Leaves /\ leaves[req'[a].leave] # NoLeave
  BY <1>2, <1>3 DEF LeaveInv, FoundInv, TypeOK, At, Application, Amendment, Idle, Slots
<1>6. \A v \in Reviewers : req'[v] # Idle =>
        req'[v].leave \in Leaves /\ leaves[req'[v].leave] # NoLeave
  BY <1>2, <1>3 DEF LeaveInv, FoundInv, TypeOK, Verdict, Slots
<1>7. FoundInv'
  BY <1>4, <1>5, <1>6 DEF FoundInv
<1>8. QED
  BY <1>3, <1>7 DEF LeaveInv

\* Without leaves and requests, LeaveInv holds.
THEOREM LeaveInitInv == Init => LeaveInv
<1> SUFFICES ASSUME Init PROVE LeaveInv
  OBVIOUS
<1>1. \A r \in Slots : req[r] = Idle
  BY DEF Init, Slots
<1>2. TypeOK
  BY <1>1, ConstantsAssumption DEF Init, TypeOK, Slots
<1>3. \A r \in Slots : ~ At(r, "save")
  BY <1>1 DEF At, Idle
<1>4. QED
  BY <1>1, <1>2, <1>3 DEF LeaveInv, FoundInv, Slots

\* A request that is answered without a write, or cut short.
LEMMA LeaveAnswered ==
  ASSUME LeaveInv, NEW r \in Slots, Becomes(r, Idle), balance' \in Int,
         charges' \in [Leaves -> Nat],
         \/ UNCHANGED leaves
         \/ \E l \in Leaves, y \in LeaveRequest :
              leaves' = [leaves EXCEPT ![l] = y]
  PROVE  LeaveInv'
<1>1. Idle.pc # "save"
  BY DEF Idle
<1>2. QED
  BY <1>1, LeaveMoves

LEMMA MemberAsksKeepsInv ==
  ASSUME LeaveInv, NEW a \in Applicants, NEW dates \in Requested, Apply(a, dates) \/ Amend(a, dates)
  PROVE  LeaveInv'
<1>1. a \in Slots /\ a \notin Reviewers
  BY ConstantsAssumption DEF Slots
<1>2. balance' \in Int /\ charges' \in [Leaves -> Nat]
  BY DEF LeaveInv, TypeOK, Apply, Amend
<1>3. CASE Apply(a, dates)
  <2> DEFINE x == [pc |-> "create", dates |-> dates]
  <2>1. x \in Application /\ x.pc # "save"
    BY RequestedArePeriods DEF Application
  <2>2. Becomes(a, x) /\ UNCHANGED leaves
    BY <1>3 DEF Apply
  <2> HIDE DEF x
  <2>3. QED
    BY <1>1, <1>2, <2>1, <2>2, LeaveMoves
<1>4. CASE Amend(a, dates)
  <2> DEFINE x == [pc |-> "find", dates |-> dates, balance |-> balance]
  <2>1. x \in Amendment /\ x.pc # "save"
    BY RequestedArePeriods DEF Amendment, LeaveInv, TypeOK
  <2>2. PICK y \in Amendment : y = x /\ y.pc # "save"
    BY <2>1
  <2>3. Becomes(a, y) /\ UNCHANGED leaves
    BY <1>4, <2>2 DEF Amend
  <2>4. QED
    BY <1>1, <1>2, <2>2, <2>3, LeaveMoves
<1>5. QED
  BY <1>3, <1>4

LEMMA MemberFindsKeepInv ==
  ASSUME LeaveInv, NEW a \in Applicants, NEW l \in Leaves, CreateLeave(a, l) \/ AmendFind(a, l)
  PROVE  LeaveInv'
<1>1. a \in Slots /\ a \notin Reviewers
  BY ConstantsAssumption DEF Slots
<1>2. balance' \in Int /\ charges' \in [Leaves -> Nat]
  BY DEF LeaveInv, TypeOK, CreateLeave, AmendFind
<1>3. CASE CreateLeave(a, l)
  <2> DEFINE y == [status |-> "PENDING", dates |-> req[a].dates]
  <2>1. y \in LeaveRequest
    BY <1>3, LeaveKinds DEF CreateLeave, LeaveInv, LeaveRequest, Statuses
  <2>2. Becomes(a, Idle) /\ leaves' = [leaves EXCEPT ![l] = y]
    BY <1>3 DEF CreateLeave
  <2> HIDE DEF y
  <2>3. QED
    BY <1>1, <1>2, <2>1, <2>2, LeaveAnswered
<1>4. CASE AmendFind(a, l)
  <2> DEFINE x == [pc |-> "save", leave |-> l,
                   changes |-> ChangesFrom(leaves[l].dates, req[a].dates)]
  <2>1. leaves[l] # NoLeave
    BY <1>4 DEF AmendFind, NoLeave
  <2>2. x \in Amendment /\ x.leave = l
    <3>1. leaves[l].dates \in Period /\ req[a].dates \in Period
      BY <1>4, <2>1, LeaveFields, LeaveKinds DEF AmendFind, LeaveInv, TypeOK
    <3>2. ChangesFrom(leaves[l].dates, req[a].dates) \in Changes
      BY <3>1, ChangesAreDates
    <3>3. QED
      BY <3>2 DEF Amendment
  <2>3. PICK y \in Amendment : y = x /\ y.leave = l
    BY <2>2
  <2>4. Becomes(a, y) /\ UNCHANGED leaves
    BY <1>4, <2>3 DEF AmendFind
  <2>5. QED
    BY <1>1, <1>2, <2>1, <2>3, <2>4, LeaveMoves
<1>5. QED
  BY <1>3, <1>4

LEMMA AmendSaveKeepsInv ==
  ASSUME LeaveInv, NEW a \in Applicants, AmendSave(a)
  PROVE  LeaveInv'
<1>1. a \in Slots /\ a \notin Reviewers
  BY ConstantsAssumption DEF Slots
<1>2. balance' \in Int /\ charges' \in [Leaves -> Nat]
  BY DEF LeaveInv, TypeOK, AmendSave
<1> DEFINE k == req[a].leave
           y == [leaves[k] EXCEPT !.dates = Changed(@, req[a].changes)]
<1>3. k \in Leaves /\ leaves[k] # NoLeave /\ req[a].changes \in Changes
  BY LeaveKinds DEF AmendSave, LeaveInv, FoundInv
<1>4. leaves[k] \in LeaveRequest
  BY <1>3 DEF LeaveInv, TypeOK
<1>5. y \in LeaveRequest
  <2>1. Changed(leaves[k].dates, req[a].changes) \in Period
    BY <1>3, <1>4, ChangesAreDates DEF LeaveRequest
  <2>2. QED
    BY <1>4, <2>1 DEF LeaveRequest
<1>6. Becomes(a, Idle) /\ leaves' = [leaves EXCEPT ![k] = y]
  BY DEF AmendSave
<1> HIDE DEF k, y
<1>7. QED
  BY <1>1, <1>2, <1>3, <1>5, <1>6, LeaveAnswered

LEMMA ReviewFindKeepsInv ==
  ASSUME LeaveInv, NEW v \in Reviewers, NEW l \in Leaves, NEW status \in Statuses,
         ReviewFind(v, l, status)
  PROVE  LeaveInv'
<1>1. v \in Slots /\ v \notin Applicants
  BY ConstantsAssumption DEF Slots
<1> DEFINE x == [pc |-> "save", status |-> status, days |-> DaysOf(leaves[l].dates), leave |-> l]
<1>2. leaves[l] # NoLeave
  BY DEF ReviewFind, NoLeave
<1>3. DaysOf(leaves[l].dates) \in Days
  BY <1>2, LeaveFields, DaysAreNumbers DEF LeaveInv, TypeOK
<1>4. x \in Verdict /\ x.leave = l
  BY <1>3 DEF Verdict
<1>5. PICK y \in Verdict : y = x /\ y.leave = l
  BY <1>4
<1>6. Becomes(v, y) /\ UNCHANGED <<balance, leaves, charges>>
  BY <1>5 DEF ReviewFind
<1>7. QED
  BY <1>1, <1>2, <1>5, <1>6, LeaveMoves DEF LeaveInv, TypeOK

LEMMA ReviewWritesKeepInv ==
  ASSUME LeaveInv, NEW v \in Reviewers, ReviewSave(v) \/ Deduct(v)
  PROVE  LeaveInv'
<1>1. v \in Slots /\ v \notin Applicants
  BY ConstantsAssumption DEF Slots
<1>2. CASE ReviewSave(v)
  <2> DEFINE k == req[v].leave
             y == [leaves[k] EXCEPT !.status = req[v].status]
             z == [req[v] EXCEPT !.pc = "deduct"]
  <2>1. req[v] \in Verdict /\ req[v] # Idle
    BY <1>2, LeaveKinds DEF ReviewSave, LeaveInv, At, Idle
  <2>2. k \in Leaves /\ leaves[k] # NoLeave /\ req[v].status \in Statuses
    BY <2>1 DEF LeaveInv, FoundInv, Verdict
  <2>3. leaves[k] \in LeaveRequest
    BY <2>2 DEF LeaveInv, TypeOK
  <2>4. y \in LeaveRequest
    BY <2>2, <2>3 DEF LeaveRequest
  <2>5. z \in Verdict /\ z.leave = k
    BY <2>1 DEF Verdict
  <2>6. UNCHANGED leaves \/ leaves' = [leaves EXCEPT ![k] = y]
    BY <1>2 DEF ReviewSave
  <2>7. UNCHANGED <<balance, charges>> /\ (Becomes(v, z) \/ Becomes(v, Idle))
    BY <1>2 DEF ReviewSave
  <2>8. PICK w \in Verdict : w = z /\ w.leave = k
    BY <2>5
  <2> HIDE DEF k, y, z
  <2>9. CASE Becomes(v, Idle)
    BY <1>1, <2>2, <2>4, <2>6, <2>7, <2>9, LeaveAnswered DEF LeaveInv, TypeOK
  <2>10. CASE Becomes(v, z)
    <3>1. Becomes(v, w) /\ leaves[w.leave] # NoLeave
      BY <2>2, <2>8, <2>10
    <3>2. QED
      BY <1>1, <2>2, <2>4, <2>6, <2>7, <3>1, LeaveMoves DEF LeaveInv, TypeOK
  <2>11. QED
    BY <2>7, <2>9, <2>10
<1>3. CASE Deduct(v)
  <2>1. req[v] \in Verdict
    BY <1>3, LeaveKinds DEF Deduct, LeaveInv
  <2>2. req[v].days \in Int
    BY <2>1, DaysAreNumbers DEF Verdict
  <2>3. /\ Becomes(v, Idle) /\ UNCHANGED leaves /\ balance' = balance - req[v].days
        /\ charges' = [charges EXCEPT ![req[v].leave] = @ + 1]
    BY <1>3 DEF Deduct
  <2>4. balance' \in Int /\ charges' \in [Leaves -> Nat]
    <3>1. req[v].leave \in Leaves /\ charges[req[v].leave] + 1 \in Nat
      BY <2>1 DEF Verdict, LeaveInv, TypeOK
    <3>2. QED
      BY <2>2, <2>3, <3>1 DEF LeaveInv, TypeOK
  <2>5. QED
    BY <1>1, <2>3, <2>4, LeaveAnswered
<1>4. QED
  BY <1>2, <1>3

\* Every step of applyLeave, updateLeave and updateStatus keeps LeaveInv.
THEOREM LeaveNextKeepsInv == LeaveInv /\ [Next]_vars => LeaveInv'
<1> SUFFICES ASSUME LeaveInv, [Next]_vars PROVE LeaveInv'
  OBVIOUS
<1>1. CASE UNCHANGED vars
  BY <1>1 DEF vars, LeaveInv, TypeOK, FoundInv, At
<1>2. ASSUME NEW r \in Slots, Fail(r)
      PROVE  LeaveInv'
  BY <1>2, LeaveAnswered DEF Fail, LeaveInv, TypeOK
<1>3. QED
  BY <1>1, <1>2, MemberAsksKeepsInv, MemberFindsKeepInv, AmendSaveKeepsInv, ReviewFindKeepsInv,
     ReviewWritesKeepInv DEF Next, Slots

\* LeaveInv always holds.
THEOREM LeaveInvariance == Spec => []LeaveInv
<1>1. QED
  BY LeaveInitInv, LeaveNextKeepsInv, PTL DEF Spec

\* The balance, the leaves and the requests in flight always have their types.
THEOREM LeaveTypeCorrect == Spec => []TypeOK
<1>1. LeaveInv => TypeOK
  BY DEF LeaveInv
<1>2. QED
  BY <1>1, LeaveInvariance, PTL

OneReviewer == \A v, w \in Reviewers : v = w

\* What the member sends leaves the status of a leave there is alone.
LEMMA MemberStep ==
  ASSUME LeaveInv, NEW a \in Applicants,
         \/ \E dates \in Requested : Apply(a, dates) \/ Amend(a, dates)
         \/ \E l \in Leaves : CreateLeave(a, l) \/ AmendFind(a, l)
         \/ AmendSave(a)
  PROVE  /\ UNCHANGED charges
         /\ \A v \in Reviewers : req'[v] = req[v]
         /\ \A l \in Leaves : leaves[l] # NoLeave => leaves'[l].status = leaves[l].status
<1>1. UNCHANGED charges /\ \E x : Becomes(a, x)
  BY DEF Apply, Amend, CreateLeave, AmendFind, AmendSave
<1>2. \A v \in Reviewers : req'[v] = req[v]
  BY <1>1, ConstantsAssumption DEF Becomes, LeaveInv, TypeOK
<1>3. CASE UNCHANGED leaves
  BY <1>1, <1>2, <1>3
<1>4. ASSUME NEW l \in Leaves, CreateLeave(a, l)
      PROVE  \A k \in Leaves : leaves[k] # NoLeave => leaves'[k].status = leaves[k].status
  BY <1>4 DEF CreateLeave, LeaveInv, TypeOK
<1>5. CASE AmendSave(a)
  <2> DEFINE k == req[a].leave
             y == [leaves[k] EXCEPT !.dates = Changed(@, req[a].changes)]
  <2>1. k \in Leaves /\ leaves[k] # NoLeave
    BY <1>5, LeaveKinds DEF AmendSave, LeaveInv, FoundInv
  <2>2. leaves[k] \in LeaveRequest
    BY <2>1 DEF LeaveInv, TypeOK
  <2>3. y.status = leaves[k].status
    BY <2>2 DEF LeaveRequest
  <2>4. leaves' = [leaves EXCEPT ![k] = y]
    BY <1>5 DEF AmendSave
  <2> HIDE DEF k, y
  <2>5. QED
    BY <1>1, <1>2, <2>1, <2>3, <2>4 DEF LeaveInv, TypeOK
<1>6. QED
  BY <1>1, <1>2, <1>3, <1>4, <1>5 DEF Apply, Amend, AmendFind

\* What the only reviewer sends.
LEMMA ReviewStep ==
  ASSUME LeaveInv, ReviewInv, OneReviewer, NEW v \in Reviewers,
         \/ \E l \in Leaves, status \in Statuses : ReviewFind(v, l, status)
         \/ ReviewSave(v) \/ Deduct(v)
  PROVE  /\ ReviewInv'
         /\ \A l \in Leaves : leaves[l].status # "PENDING" => leaves'[l] = leaves[l]
<1>1. \A w \in Reviewers : w = v
  BY DEF OneReviewer
<1>2. ASSUME NEW l \in Leaves, NEW status \in Statuses, ReviewFind(v, l, status)
      PROVE  ReviewInv'
  <2> DEFINE x == [pc |-> "save", status |-> status, days |-> DaysOf(leaves[l].dates), leave |-> l]
  <2>1. x.pc = "save" /\ x.leave = l
    OBVIOUS
  <2>2. /\ req' = [req EXCEPT ![v] = x] /\ leaves[l].status = "PENDING"
        /\ UNCHANGED <<leaves, charges>>
    BY <1>2 DEF ReviewFind, Becomes
  <2> HIDE DEF x
  <2>3. req'[v] = x
    BY <2>2 DEF LeaveInv, TypeOK
  <2>4. QED
    BY <1>1, <2>1, <2>2, <2>3 DEF ReviewInv, NeverChargedTwice, At
<1>3. CASE ReviewSave(v)
  <2> DEFINE k == req[v].leave
             y == [leaves[k] EXCEPT !.status = req[v].status]
             z == [req[v] EXCEPT !.pc = "deduct"]
  <2>1. req[v] \in Verdict /\ k \in Leaves /\ leaves[k].status = "PENDING"
    BY <1>3, LeaveKinds DEF ReviewSave, LeaveInv, ReviewInv, Verdict
  <2>2. charges[k] \in Nat /\ ~ charges[k] > 0
    BY <2>1 DEF ReviewInv, NeverChargedTwice, LeaveInv, TypeOK
  <2>3. leaves[k] \in LeaveRequest
    BY <2>1 DEF LeaveInv, TypeOK, NoLeave
  <2>4. y.status = req[v].status /\ z.pc = "deduct" /\ z.leave = k
    BY <2>1, <2>3 DEF Verdict, LeaveRequest
  <2>5. /\ leaves' = IF req[v].status = "PENDING" THEN leaves ELSE [leaves EXCEPT ![k] = y]
        /\ req' = [req EXCEPT ![v] = IF req[v].status = "APPROVED" THEN z ELSE Idle]
        /\ UNCHANGED charges
    BY <1>3 DEF ReviewSave, Becomes
  <2> HIDE DEF k, y, z
  <2>6. /\ \A l \in Leaves \ {k} : leaves'[l] = leaves[l]
        /\ leaves'[k] = IF req[v].status = "PENDING" THEN leaves[k] ELSE y
        /\ req'[v] = IF req[v].status = "APPROVED" THEN z ELSE Idle
    BY <2>1, <2>5 DEF LeaveInv, TypeOK
  <2>7. NeverChargedTwice'
    BY <2>2, <2>5, <2>6 DEF ReviewInv, NeverChargedTwice
  <2>8. charges[k] = 0
    BY <2>2
  <2>9. req'[v].pc # "save" /\ (req'[v].pc = "deduct" =>
          req[v].status = "APPROVED" /\ req'[v].leave = k)
    BY <2>4, <2>6 DEF Idle
  <2>10. ReviewInv'
    BY <1>1, <2>4, <2>5, <2>6, <2>7, <2>8, <2>9 DEF ReviewInv, At
  <2>11. QED
    BY <2>1, <2>6, <2>10
<1>4. CASE Deduct(v)
  <2>1. /\ req[v] \in Verdict /\ leaves[req[v].leave].status = "APPROVED"
        /\ charges[req[v].leave] = 0 /\ req[v].leave \in Leaves
    BY <1>4, LeaveKinds DEF Deduct, LeaveInv, ReviewInv, Verdict
  <2>2. /\ charges' = [charges EXCEPT ![req[v].leave] = 1] /\ UNCHANGED leaves
        /\ req' = [req EXCEPT ![v] = Idle]
    BY <1>4, <2>1 DEF Deduct, Becomes
  <2>3. /\ charges'[req[v].leave] = 1 /\ req'[v] = Idle
        /\ \A l \in Leaves \ {req[v].leave} : charges'[l] = charges[l]
    BY <2>1, <2>2 DEF LeaveInv, TypeOK
  <2>4. NeverChargedTwice'
    BY <2>1, <2>2, <2>3 DEF ReviewInv, NeverChargedTwice
  <2>5. QED
    BY <1>1, <2>2, <2>3, <2>4 DEF ReviewInv, At, Idle
<1>5. QED
  BY <1>2, <1>3, <1>4 DEF ReviewFind

LEMMA ReviewNext ==
  ASSUME LeaveInv, ReviewInv, OneReviewer, [Next]_vars
  PROVE  /\ ReviewInv'
         /\ \A l \in Leaves : leaves[l].status \in {"APPROVED", "REJECTED"} =>
              leaves'[l].status = leaves[l].status
<1>1. CASE UNCHANGED vars
  BY <1>1 DEF vars, ReviewInv, NeverChargedTwice, At
<1>2. ASSUME NEW a \in Applicants,
             \/ \E dates \in Requested : Apply(a, dates) \/ Amend(a, dates)
             \/ \E l \in Leaves : CreateLeave(a, l) \/ AmendFind(a, l)
             \/ AmendSave(a)
      PROVE  /\ ReviewInv'
             /\ \A l \in Leaves : leaves[l].status \in {"APPROVED", "REJECTED"} =>
                  leaves'[l].status = leaves[l].status
  <2>1. /\ UNCHANGED charges
        /\ \A v \in Reviewers : req'[v] = req[v]
        /\ \A l \in Leaves : leaves[l] # NoLeave => leaves'[l].status = leaves[l].status
    BY <1>2, MemberStep
  <2>2. NoLeave.status = "NONE"
    BY DEF NoLeave
  <2>3. \A l \in Leaves : leaves[l].status \in Statuses => leaves'[l].status = leaves[l].status
    BY <2>1, <2>2 DEF Statuses
  <2>4. \A v \in Reviewers : At(v, "save") \/ At(v, "deduct") => req[v].leave \in Leaves
    BY LeaveKinds DEF LeaveInv, Verdict
  <2>5. ReviewInv'
    BY <2>1, <2>3, <2>4 DEF ReviewInv, NeverChargedTwice, At, Statuses
  <2>6. QED
    BY <2>3, <2>5 DEF Statuses
<1>3. ASSUME NEW v \in Reviewers,
             \/ \E l \in Leaves, status \in Statuses : ReviewFind(v, l, status)
             \/ ReviewSave(v) \/ Deduct(v)
      PROVE  /\ ReviewInv'
             /\ \A l \in Leaves : leaves[l].status \in {"APPROVED", "REJECTED"} =>
                  leaves'[l].status = leaves[l].status
  BY <1>3, ReviewStep
<1>4. ASSUME NEW r \in Slots, Fail(r)
      PROVE  ReviewInv' /\ UNCHANGED leaves
  <2>1. /\ UNCHANGED <<leaves, charges>>
        /\ \A q \in Slots : req'[q] = req[q] \/ req'[q] = Idle
    BY <1>4 DEF Fail, Becomes, LeaveInv, TypeOK, Slots
  <2>2. QED
    BY <2>1 DEF ReviewInv, NeverChargedTwice, At, Idle, Slots
<1>5. QED
  BY <1>1, <1>2, <1>3, <1>4 DEF Next, Slots

\* With one reviewer, ReviewInv always holds.
THEOREM ReviewInvariance ==
  ASSUME OneReviewer
  PROVE  Spec => []ReviewInv
<1>1. Init => ReviewInv
  BY DEF Init, ReviewInv, NeverChargedTwice, At, Idle
<1>2. LeaveInv /\ ReviewInv /\ [Next]_vars => ReviewInv'
  BY ReviewNext
<1>3. QED
  BY <1>1, <1>2, LeaveInvariance, PTL DEF Spec

\* With one reviewer, no leave is taken off the balance twice, and none that was
\* not approved.
THEOREM ChargedOnce ==
  ASSUME OneReviewer
  PROVE  Spec => []NeverChargedTwice
<1>1. ReviewInv => NeverChargedTwice
  BY DEF ReviewInv
<1>2. QED
  BY <1>1, ReviewInvariance, PTL

\* With one reviewer, a decision on a leave stands.
THEOREM Decided ==
  ASSUME OneReviewer
  PROVE  Spec => DecisionsFinal
<1>1. LeaveInv /\ ReviewInv /\ [Next]_vars =>
        [\A l \in Leaves : leaves[l].status \in {"APPROVED", "REJECTED"} =>
           leaves'[l].status = leaves[l].status]_vars
  BY ReviewNext
<1>2. QED
  BY <1>1, LeaveInvariance, ReviewInvariance, PTL DEF Spec, DecisionsFinal

(* Leave follows LeaveLedger.                                              *)

\* A step that the ledger does not show.
LEMMA LedgerUnmoved ==
  ASSUME UNCHANGED <<balance, charges>>,
         \A l \in Leaves : leaves'[l].status = leaves[l].status
  PROVE  UNCHANGED Ledger!vars
<1>1. [l \in Leaves |-> leaves'[l].status] = [l \in Leaves |-> leaves[l].status]
  OBVIOUS
<1>2. {l \in Leaves : charges'[l] > 0} = {l \in Leaves : charges[l] > 0}
  OBVIOUS
<1>3. QED
  BY <1>1, <1>2 DEF Ledger!vars

\* A step that changes the status of one request.
LEMMA LedgerMove ==
  ASSUME NEW k \in Leaves, UNCHANGED charges,
         \A l \in Leaves \ {k} : leaves'[l].status = leaves[l].status
  PROVE  /\ [l \in Leaves |-> leaves'[l].status] =
              [[l \in Leaves |-> leaves[l].status] EXCEPT ![k] = leaves'[k].status]
         /\ {l \in Leaves : charges'[l] > 0} = {l \in Leaves : charges[l] > 0}
OBVIOUS

\* Of what the member sends, the ledger shows a new request only.
LEMMA MemberLedgerStep ==
  ASSUME LeaveInv, NEW a \in Applicants,
         \/ \E dates \in Requested : Apply(a, dates) \/ Amend(a, dates)
         \/ \E l \in Leaves : CreateLeave(a, l) \/ AmendFind(a, l)
         \/ AmendSave(a)
  PROVE  Ledger!Next \/ UNCHANGED Ledger!vars
<1>1. /\ UNCHANGED <<balance, charges>>
      /\ \A l \in Leaves : leaves[l] # NoLeave => leaves'[l].status = leaves[l].status
  BY MemberStep DEF Apply, Amend, CreateLeave, AmendFind, AmendSave
<1>2. ASSUME NEW l \in Leaves, CreateLeave(a, l)
      PROVE  Ledger!Next
  <2> DEFINE y == [status |-> "PENDING", dates |-> req[a].dates]
  <2>1. y.status = "PENDING" /\ leaves' = [leaves EXCEPT ![l] = y] /\ leaves[l] = NoLeave
    BY <1>2 DEF CreateLeave
  <2> HIDE DEF y
  <2>2. leaves'[l].status = "PENDING" /\ \A k \in Leaves \ {l} : leaves'[k] = leaves[k]
    BY <2>1 DEF LeaveInv, TypeOK
  <2>3. leaves[l].status = "NONE"
    BY <2>1 DEF NoLeave
  <2>4. Ledger!Ask(l)
    BY <1>1, <2>2, <2>3, LedgerMove DEF Ledger!Ask
  <2>5. QED
    BY <2>4 DEF Ledger!Next
<1>3. ASSUME UNCHANGED leaves
      PROVE  UNCHANGED Ledger!vars
  BY <1>1, <1>3, LedgerUnmoved
<1>4. CASE AmendSave(a)
  <2> DEFINE k == req[a].leave
             y == [leaves[k] EXCEPT !.dates = Changed(@, req[a].changes)]
  <2>1. k \in Leaves /\ leaves[k] # NoLeave
    BY <1>4, LeaveKinds DEF AmendSave, LeaveInv, FoundInv
  <2>2. leaves' = [leaves EXCEPT ![k] = y]
    BY <1>4 DEF AmendSave
  <2> HIDE DEF k, y
  <2>3. \A l \in Leaves \ {k} : leaves'[l] = leaves[l]
    BY <2>1, <2>2 DEF LeaveInv, TypeOK
  <2>4. QED
    BY <1>1, <2>1, <2>3, LedgerUnmoved
<1>5. QED
  BY <1>2, <1>3, <1>4 DEF Apply, Amend, AmendFind

\* Of what the only reviewer sends, it shows a decision and a charge.
LEMMA OfficeLedgerStep ==
  ASSUME LeaveInv, ReviewInv, NEW v \in Reviewers,
         \/ \E l \in Leaves, status \in Statuses : ReviewFind(v, l, status)
         \/ ReviewSave(v) \/ Deduct(v)
  PROVE  Ledger!Next \/ UNCHANGED Ledger!vars
<1>1. CASE \E l \in Leaves, status \in Statuses : ReviewFind(v, l, status)
  BY <1>1, LedgerUnmoved DEF ReviewFind
<1>2. CASE ReviewSave(v) /\ req[v].status = "PENDING"
  BY <1>2, LedgerUnmoved DEF ReviewSave
<1>3. CASE ReviewSave(v) /\ req[v].status # "PENDING"
  <2>1. req[v] \in Verdict
    BY <1>3, LeaveKinds DEF ReviewSave, LeaveInv
  <2>2. PICK k \in Leaves : k = req[v].leave
    BY <2>1 DEF Verdict
  <2>3. leaves[k].status = "PENDING"
    BY <1>3, <2>2 DEF ReviewSave, ReviewInv
  <2>4. req[v].status \in {"APPROVED", "REJECTED"}
    BY <1>3, <2>1 DEF Verdict, Statuses
  <2>5. leaves[k] \in LeaveRequest
    BY <2>3 DEF LeaveInv, TypeOK, NoLeave
  <2>6. leaves' = [leaves EXCEPT ![k].status = req[v].status] /\ UNCHANGED <<balance, charges>>
    BY <1>3, <2>2 DEF ReviewSave
  <2>7. leaves'[k].status = req[v].status /\ \A l \in Leaves \ {k} : leaves'[l] = leaves[l]
    BY <2>5, <2>6 DEF LeaveInv, TypeOK
  <2>8. Ledger!Decide(k)
    BY <2>3, <2>4, <2>6, <2>7, LedgerMove DEF Ledger!Decide
  <2>9. QED
    BY <2>8 DEF Ledger!Next
<1>4. CASE Deduct(v)
  <2>1. req[v] \in Verdict
    BY <1>4, LeaveKinds DEF Deduct, LeaveInv
  <2>2. PICK k \in Leaves : k = req[v].leave
    BY <2>1 DEF Verdict
  <2>3. leaves[k].status = "APPROVED" /\ charges[k] = 0 /\ req[v].days \in Days
    BY <1>4, <2>1, <2>2 DEF Deduct, ReviewInv, Verdict
  <2>4. /\ charges' = [charges EXCEPT ![k] = 1] /\ UNCHANGED leaves
        /\ balance' = balance - req[v].days
    BY <1>4, <2>2, <2>3 DEF Deduct
  <2>5. charges'[k] = 1 /\ \A l \in Leaves \ {k} : charges'[l] = charges[l]
    BY <2>4 DEF LeaveInv, TypeOK
  <2>6. /\ {l \in Leaves : charges'[l] > 0} = {l \in Leaves : charges[l] > 0} \union {k}
        /\ k \notin {l \in Leaves : charges[l] > 0}
    BY <2>3, <2>5
  <2>7. Ledger!Charge(k)
    BY <2>3, <2>4, <2>6 DEF Ledger!Charge
  <2>8. QED
    BY <2>7 DEF Ledger!Next
<1>5. QED
  BY <1>1, <1>2, <1>3, <1>4

LEMMA LedgerInit == Init => Ledger!Init
<1> SUFFICES ASSUME Init PROVE Ledger!Init
  OBVIOUS
<1>1. NoLeave.status = "NONE"
  BY DEF NoLeave
<1>2. [l \in Leaves |-> leaves[l].status] = [l \in Leaves |-> "NONE"]
  BY <1>1 DEF Init
<1>3. {l \in Leaves : charges[l] > 0} = {}
  BY DEF Init
<1>4. QED
  BY <1>2, <1>3 DEF Init, Ledger!Init

LEMMA LedgerStep == LeaveInv /\ ReviewInv /\ [Next]_vars => [Ledger!Next]_(Ledger!vars)
<1> SUFFICES ASSUME LeaveInv, ReviewInv, [Next]_vars
             PROVE  Ledger!Next \/ UNCHANGED Ledger!vars
  OBVIOUS
<1>1. CASE UNCHANGED vars
  BY <1>1, LedgerUnmoved DEF vars
<1>2. ASSUME NEW r \in Slots, Fail(r)
      PROVE  UNCHANGED Ledger!vars
  BY <1>2, LedgerUnmoved DEF Fail
<1>3. QED
  BY <1>1, <1>2, MemberLedgerStep, OfficeLedgerStep DEF Next, Slots

\* With one reviewer, leave follows LeaveLedger, whatever the member sends meanwhile
\* and whatever fails.
THEOREM FollowsLedger ==
  ASSUME OneReviewer
  PROVE  Spec => ImplementsLedger
<1>1. QED
  BY LedgerInit, LedgerStep, LeaveInvariance, ReviewInvariance, PTL
     DEF Spec, ImplementsLedger, Ledger!Spec
-------------------------------------------------------------------------------
(* Departments.                                                            *)

\* What the record of a request holds follows from its pc.
LEMMA DeptKinds ==
  ASSUME DeptTypeOK, NEW r \in DeptSlots
  PROVE  /\ DeptAt(r, "countPlans") \/ DeptAt(r, "countMembers") \/ DeptAt(r, "delete") =>
              deptReq[r] \in [pc : {"countPlans", "countMembers", "delete"}, department : DeptIds]
         /\ DeptAt(r, "create") => deptReq[r].kind \in Kinds /\ deptReq[r].department \in DeptIds
         /\ DeptAt(r, "update") => deptReq[r].record \in RecordIds /\ deptReq[r].department \in DeptIds
         /\ deptReq[r] = NoDeptRequest => DeptAt(r, "idle")
BY DEF DeptTypeOK, DeptRequest, NoDeptRequest, DeptAt

LEMMA RecordFields ==
  ASSUME DeptTypeOK, NEW x \in RecordIds
  PROVE  IsRecord(x) <=> records[x] \in Record
<1>1. NoRecord \notin Record /\ GoneRecord \notin Record
  BY DEF NoRecord, GoneRecord, Record, Kinds
<1>2. QED
  BY <1>1 DEF IsRecord, DeptTypeOK

\* A step that leaves the records alone, and moves a request to where it has
\* counted no more records than there are late ones.
LEMMA DeptMoves ==
  ASSUME DeptInv, NEW r \in DeptSlots, NEW q \in DeptRequest \union {NoDeptRequest},
         deptReq' = [deptReq EXCEPT ![r] = q], UNCHANGED <<departments, records>>,
         \A x \in RecordIds :
           /\ IsRecord(x)
           /\ q.pc = "delete" \/ (q.pc = "countMembers" /\ records[x].kind = "plan")
           /\ q.department = records[x].department
           => records[x].late
  PROVE  DeptInv'
<1>1. deptReq'[r] = q /\ \A p \in DeptSlots \ {r} : deptReq'[p] = deptReq[p]
  BY DEF DeptInv, DeptTypeOK
<1>2. DeptTypeOK'
  BY DEF DeptInv, DeptTypeOK
<1>3. OrphansOnlyRaced'
  BY DEF DeptInv, OrphansOnlyRaced, IsRecord
<1>4. CountedInv'
  BY <1>1 DEF DeptInv, CountedInv, Counted, DeptAt, IsRecord
<1>5. QED
  BY <1>2, <1>3, <1>4 DEF DeptInv

\* A step that writes or removes one record, and answers the request if it is one.
LEMMA RecordMoves ==
  ASSUME DeptInv, NEW x \in RecordIds, NEW y \in Record \union {GoneRecord},
         records' = [records EXCEPT ![x] = y], UNCHANGED departments,
         y # GoneRecord => (TooLate(y.kind, y.department) => y.late),
         deptReq' = deptReq \/ \E r \in DeptSlots : AnswerDept(r)
  PROVE  DeptInv'
<1>1. records'[x] = y /\ \A z \in RecordIds \ {x} : records'[z] = records[z]
  BY DEF DeptInv, DeptTypeOK
<1>2. \A r \in DeptSlots : deptReq'[r] = deptReq[r] \/ deptReq'[r] = NoDeptRequest
  BY DEF DeptInv, DeptTypeOK, AnswerDept
<1>3. DeptTypeOK'
  BY DEF DeptInv, DeptTypeOK, AnswerDept
<1>4. \A z \in RecordIds : IsRecord(z)' => (z = x /\ y # GoneRecord) \/ (z # x /\ IsRecord(z))
  BY <1>1 DEF IsRecord
<1>5. \A r \in DeptSlots : \A k, d : Counted(r, k, d)' => Counted(r, k, d)
  BY <1>2 DEF Counted, DeptAt, NoDeptRequest
<1>6. ASSUME NEW r \in DeptSlots, NEW z \in RecordIds, IsRecord(z)',
             Counted(r, records[z].kind, records[z].department)'
      PROVE  records'[z].late
  <2>1. Counted(r, records'[z].kind, records'[z].department)
    BY <1>2, <1>6 DEF Counted, DeptAt, NoDeptRequest
  <2>2. CASE z = x
    BY <1>1, <1>4, <1>6, <2>1, <2>2 DEF TooLate
  <2>3. CASE z # x
    BY <1>1, <1>4, <1>6, <2>1, <2>3 DEF DeptInv, CountedInv
  <2>4. QED
    BY <2>2, <2>3
<1>7. CountedInv'
  BY <1>6 DEF CountedInv
<1>8. OrphansOnlyRaced'
  BY <1>1, <1>4 DEF DeptInv, OrphansOnlyRaced, TooLate
<1>9. QED
  BY <1>3, <1>7, <1>8 DEF DeptInv

\* Without departments and records, DeptInv holds.
THEOREM DeptInitInv == DeptInit => DeptInv
<1> SUFFICES ASSUME DeptInit PROVE DeptInv
  OBVIOUS
<1>1. \A x \in RecordIds : ~ IsRecord(x)
  BY DEF DeptInit, IsRecord
<1>2. DeptTypeOK
  BY DEF DeptInit, DeptTypeOK
<1>3. QED
  BY <1>1, <1>2 DEF DeptInv, CountedInv, OrphansOnlyRaced

LEMMA DeptFindsKeepInv ==
  ASSUME DeptInv, NEW r \in DeptSlots, NEW d \in DeptIds,
         \/ RemoveDepartmentFind(r, d)
         \/ \E kind \in Kinds : CreateRecordFind(r, kind, d)
         \/ \E x \in RecordIds : UpdateRecordFind(r, x, d)
  PROVE  DeptInv'
<1>1. UNCHANGED <<departments, records>>
  BY DEF RemoveDepartmentFind, CreateRecordFind, UpdateRecordFind
<1>2. PICK q \in DeptRequest :
        q.pc \notin {"delete", "countMembers"} /\ deptReq' = [deptReq EXCEPT ![r] = q]
  <2>1. [pc |-> "countPlans", department |-> d] \in DeptRequest
    BY DEF DeptRequest
  <2>2. \A kind \in Kinds : [pc |-> "create", kind |-> kind, department |-> d] \in DeptRequest
    BY DEF DeptRequest
  <2>3. \A x \in RecordIds : [pc |-> "update", record |-> x, department |-> d] \in DeptRequest
    BY DEF DeptRequest
  <2>4. QED
    BY <2>1, <2>2, <2>3 DEF RemoveDepartmentFind, CreateRecordFind, UpdateRecordFind, BeginDept
<1>3. QED
  BY <1>1, <1>2, DeptMoves

LEMMA DeptAnswered ==
  ASSUME DeptInv, NEW r \in DeptSlots, AnswerDept(r), UNCHANGED <<departments, records>>
  PROVE  DeptInv'
<1>1. PICK q \in DeptRequest \union {NoDeptRequest} :
        q.pc \notin {"delete", "countMembers"} /\ deptReq' = [deptReq EXCEPT ![r] = q]
  BY DEF AnswerDept, NoDeptRequest
<1>2. QED
  BY <1>1, DeptMoves

LEMMA DeptWritesKeepInv ==
  ASSUME DeptInv, NEW r \in DeptSlots,
         (\E x \in RecordIds : CreateRecord(r, x)) \/ UpdateRecord(r)
  PROVE  DeptInv'
<1>1. ASSUME NEW x \in RecordIds, CreateRecord(r, x)
      PROVE  DeptInv'
  <2> DEFINE q == deptReq[r]
  <2>1. PICK late \in BOOLEAN : late = TooLate(q.kind, q.department)
    BY DEF TooLate
  <2> DEFINE y == [kind |-> q.kind, department |-> q.department, late |-> late]
  <2>2. y \in Record /\ y.kind = q.kind /\ y.department = q.department /\ y.late = late
    BY <1>1, DeptKinds DEF CreateRecord, DeptInv, Record
  <2>3. records' = [records EXCEPT ![x] = y] /\ AnswerDept(r) /\ UNCHANGED departments
    BY <1>1, <2>1 DEF CreateRecord
  <2>4. PICK z \in Record :
          /\ z.kind = q.kind /\ z.department = q.department /\ z.late = late
          /\ records' = [records EXCEPT ![x] = z]
    BY <2>2, <2>3
  <2>5. TooLate(z.kind, z.department) => z.late
    BY <2>1, <2>4
  <2>6. QED
    BY <2>3, <2>4, <2>5, RecordMoves
<1>2. CASE UpdateRecord(r)
  <2> DEFINE x == deptReq[r].record
             d == deptReq[r].department
  <2>1. CASE ~ IsRecord(x)
    BY <1>2, <2>1, DeptAnswered DEF UpdateRecord
  <2>2. CASE IsRecord(x)
    <3>1. x \in RecordIds /\ d \in DeptIds /\ records[x] \in Record
      BY <1>2, <2>2, DeptKinds, RecordFields DEF UpdateRecord, DeptInv
    <3>2. PICK late \in BOOLEAN : late = TooLate(records[x].kind, d)
      BY DEF TooLate
    <3> DEFINE y == [records[x] EXCEPT !.department = d, !.late = late]
    <3>3. y \in Record /\ y.kind = records[x].kind /\ y.department = d /\ y.late = late
      BY <3>1 DEF Record
    <3>4. records' = [records EXCEPT ![x] = y] /\ AnswerDept(r) /\ UNCHANGED departments
      BY <1>2, <2>2, <3>2 DEF UpdateRecord
    <3>5. PICK w \in RecordIds, z \in Record :
            /\ z.kind = records[x].kind /\ z.department = d /\ z.late = late
            /\ records' = [records EXCEPT ![w] = z]
      BY <3>1, <3>3, <3>4
    <3>6. TooLate(z.kind, z.department) => z.late
      BY <3>2, <3>5
    <3>7. QED
      BY <3>4, <3>5, <3>6, RecordMoves
  <2>3. QED
    BY <2>1, <2>2
<1>3. QED
  BY <1>1, <1>2

LEMMA CountsKeepInv ==
  ASSUME DeptInv, NEW r \in DeptSlots, CountPlans(r) \/ CountMembers(r)
  PROVE  DeptInv'
<1>1. UNCHANGED <<departments, records>>
  BY DEF CountPlans, CountMembers
<1>2. CASE AnswerDept(r)
  BY <1>1, <1>2, DeptAnswered
<1>3. ASSUME ~ AnswerDept(r)
      PROVE  DeptInv'
  <2> DEFINE d == deptReq[r].department
  <2>1. PICK pc \in {"countMembers", "delete"} :
          /\ ProceedDept(r, pc)
          /\ pc = "countMembers" => ~ Holds(d, "plan")
          /\ pc = "delete" => ~ Holds(d, "member") /\ DeptAt(r, "countMembers")
    BY <1>3 DEF CountPlans, CountMembers
  <2>2. deptReq[r] \in [pc : {"countPlans", "countMembers", "delete"}, department : DeptIds]
    BY DeptKinds DEF CountPlans, CountMembers, DeptInv
  <2>3. PICK q \in DeptRequest :
          /\ q.pc = pc /\ q.department = d
          /\ deptReq' = [deptReq EXCEPT ![r] = q]
    <3> DEFINE y == [deptReq[r] EXCEPT !.pc = pc]
    <3>1. y \in [pc : {"countPlans", "countMembers", "delete"}, department : DeptIds]
      BY <2>1, <2>2
    <3>2. y.pc = pc /\ y.department = d
      BY <2>2
    <3>3. y \in DeptRequest
      BY <3>1 DEF DeptRequest
    <3>4. deptReq' = [deptReq EXCEPT ![r] = y]
      BY <2>1 DEF ProceedDept
    <3>5. QED
      BY <3>2, <3>3, <3>4
  <2>4. ASSUME NEW x \in RecordIds, IsRecord(x), records[x].department = q.department,
               q.pc = "delete" \/ (q.pc = "countMembers" /\ records[x].kind = "plan")
        PROVE  records[x].late
    <3>1. records[x].kind \in Kinds
      BY <2>4, RecordFields DEF DeptInv, Record
    <3>2. pc = "delete" /\ records[x].kind = "plan"
      BY <2>1, <2>3, <2>4, <3>1 DEF Holds, Kinds
    <3>3. QED
      BY <2>1, <2>3, <2>4, <3>2 DEF DeptInv, CountedInv, Counted
  <2>5. deptReq' = [deptReq EXCEPT ![r] = q] /\ q \in DeptRequest \union {NoDeptRequest}
    BY <2>3
  <2> HIDE DEF d
  <2>6. QED
    BY <1>1, <2>4, <2>5, DeptMoves
<1>4. QED
  BY <1>2, <1>3

LEMMA DeleteKeepsInv ==
  ASSUME DeptInv, NEW r \in DeptSlots, DeleteDepartment(r)
  PROVE  DeptInv'
<1> DEFINE d == deptReq[r].department
<1>1. /\ departments' = [departments EXCEPT ![d] = "DELETED"] /\ UNCHANGED records
      /\ AnswerDept(r) /\ DeptAt(r, "delete")
  BY DEF DeleteDepartment
<1>2. d \in DeptIds
  BY <1>1, DeptKinds DEF DeptInv
<1>3. \A q \in DeptSlots : deptReq'[q] = deptReq[q] \/ deptReq'[q] = NoDeptRequest
  BY <1>1 DEF AnswerDept, DeptInv, DeptTypeOK
<1>4. DeptTypeOK'
  BY <1>1, <1>2 DEF DeptInv, DeptTypeOK, AnswerDept
<1>5. CountedInv'
  BY <1>1, <1>3 DEF DeptInv, CountedInv, Counted, DeptAt, NoDeptRequest, IsRecord
<1>6. ASSUME NEW x \in RecordIds, IsRecord(x), departments'[records[x].department] = "DELETED"
      PROVE  records[x].late
  <2>1. records[x].department \in DeptIds
    BY <1>6, RecordFields DEF DeptInv, Record
  <2>2. CASE records[x].department = d
    BY <1>1, <1>6, <2>2 DEF DeptInv, CountedInv, Counted
  <2>3. CASE records[x].department # d
    BY <1>1, <1>6, <2>1, <2>3 DEF DeptInv, OrphansOnlyRaced, DeptTypeOK
  <2>4. QED
    BY <2>2, <2>3
<1>7. OrphansOnlyRaced'
  BY <1>1, <1>6 DEF OrphansOnlyRaced, IsRecord
<1>8. QED
  BY <1>4, <1>5, <1>7 DEF DeptInv

\* Every step of the departments, plans and members keeps DeptInv.
THEOREM DeptNextKeepsInv == DeptInv /\ [DeptNext]_deptVars => DeptInv'
<1> SUFFICES ASSUME DeptInv, [DeptNext]_deptVars PROVE DeptInv'
  OBVIOUS
<1>1. CASE UNCHANGED deptVars
  BY <1>1 DEF deptVars, DeptInv, DeptTypeOK, CountedInv, OrphansOnlyRaced, Counted, DeptAt, IsRecord
<1>2. ASSUME NEW d \in DeptIds, CreateDepartment(d)
      PROVE  DeptInv'
  <2>1. /\ departments' = [departments EXCEPT ![d] = "KEPT"]
        /\ UNCHANGED <<records, deptReq>>
    BY <1>2 DEF CreateDepartment
  <2>2. \A e \in DeptIds : departments'[e] = "DELETED" => departments[e] = "DELETED"
    BY <2>1 DEF DeptInv, DeptTypeOK
  <2>3. \A x \in RecordIds : IsRecord(x) => records[x].department \in DeptIds
    BY RecordFields DEF DeptInv, Record
  <2>4. DeptTypeOK' /\ CountedInv'
    BY <2>1 DEF DeptInv, DeptTypeOK, CountedInv, Counted, DeptAt, IsRecord
  <2>5. QED
    BY <2>1, <2>2, <2>3, <2>4 DEF DeptInv, OrphansOnlyRaced, IsRecord
<1>3. ASSUME NEW x \in RecordIds, RemoveRecord(x)
      PROVE  DeptInv'
  BY <1>3, RecordMoves DEF RemoveRecord
<1>4. QED
  BY <1>1, <1>2, <1>3, DeptFindsKeepInv, DeptWritesKeepInv, CountsKeepInv, DeleteKeepsInv,
     DeptAnswered DEF DeptNext, RefuseDept

\* DeptInv always holds.
THEOREM DeptInvariance == DeptSpec => []DeptInv
<1>1. QED
  BY DeptInitInv, DeptNextKeepsInv, PTL DEF DeptSpec

\* Departments, records and requests in flight always have their types.
THEOREM DeptTypeCorrect == DeptSpec => []DeptTypeOK
<1>1. DeptInv => DeptTypeOK
  BY DEF DeptInv
<1>2. QED
  BY <1>1, DeptInvariance, PTL

\* No plan or member is left behind in a deleted department but by the race.
THEOREM Orphans == DeptSpec => []OrphansOnlyRaced
<1>1. DeptInv => OrphansOnlyRaced
  BY DEF DeptInv
<1>2. QED
  BY <1>1, DeptInvariance, PTL
-------------------------------------------------------------------------------
(* The administrators' accounts.                                           *)

LEMMA AdminKinds ==
  ASSUME AdminTypeOK, NEW r \in AdminSlots
  PROVE  /\ ~ AdminAt(r, "idle") => adminReq[r] \in AdminRequest
         /\ AdminAt(r, "count") \/ AdminAt(r, "write") => ~ AdminAt(r, "idle")
         /\ NoAdminRequest \notin AdminRequest
         /\ AdminAt(r, "idle") <=> adminReq[r] = NoAdminRequest
BY DEF AdminTypeOK, AdminAt, AdminRequest, NoAdminRequest

\* A step that changes no account, and one request to a sound one.
LEMMA AdminMoves ==
  ASSUME AdminInv, NEW r \in AdminSlots, NEW q \in AdminRequest \union {NoAdminRequest},
         adminReq' = [adminReq EXCEPT ![r] = q], UNCHANGED <<users, unguarded>>,
         q.pc = "write" /\ q.counted => \E a, b \in ActiveAdmins(users) : a # b,
         q.pc # "idle" => users[q.user] # NoUser
  PROVE  AdminInv'
<1>1. adminReq'[r] = q /\ \A x \in AdminSlots \ {r} : adminReq'[x] = adminReq[x]
  BY DEF AdminInv, AdminTypeOK
<1>2. AdminTypeOK'
  BY DEF AdminInv, AdminTypeOK
<1>3. CountStands'
  BY <1>1 DEF AdminInv, CountStands, AdminAt, ActiveAdmins
<1>4. AdminRemains'
  BY DEF AdminInv, AdminRemains, ActiveAdmins
<1>5. AccountsKnown'
  BY <1>1 DEF AdminInv, AccountsKnown, AdminAt
<1>6. QED
  BY <1>2, <1>3, <1>4, <1>5 DEF AdminInv

\* A count above one is a count of two different administrators.
LEMMA TwoAdmins ==
  ASSUME ~ (Cardinality(ActiveAdmins(users)) <= 1)
  PROVE  \E a, b \in ActiveAdmins(users) : a # b
<1> DEFINE S == ActiveAdmins(users)
<1>1. IsFiniteSet(S)
  BY UsersFinite, FS_Subset DEF ActiveAdmins
<1>2. Cardinality(S) # 0 /\ Cardinality(S) # 1
  BY DEF S
<1>3. S # {}
  BY <1>2, FS_EmptySet
<1>4. \A x : S # {x}
  BY <1>2, FS_Singleton
<1> HIDE DEF S
<1>5. \E a, b \in S : a # b
  BY <1>3, <1>4
<1>6. QED
  BY <1>5 DEF S

LEMMA FindAndCountKeepInv ==
  ASSUME AdminInv, NEW r \in AdminSlots,
         \/ \E u \in Users, role \in UserRoles \union {"KEPT"}, status \in UserStatuses \union {"KEPT"} :
              UpdateUserFind(r, u, role, status)
         \/ CountAdmins(r)
         \/ RefuseAdmin(r)
  PROVE  AdminInv'
<1>1. ASSUME NEW u \in Users, NEW role \in UserRoles \union {"KEPT"},
             NEW status \in UserStatuses \union {"KEPT"}, UpdateUserFind(r, u, role, status)
      PROVE  AdminInv'
  <2>1. PICK pc \in {"count", "write"} :
          /\ adminReq' = [adminReq EXCEPT ![r] =
               [pc |-> pc, user |-> u, role |-> role, status |-> status, counted |-> FALSE, stale |-> FALSE]]
          /\ UNCHANGED <<users, unguarded>>
    BY <1>1 DEF UpdateUserFind
  <2>2. PICK q \in AdminRequest :
          ~ q.counted /\ q.user = u /\ adminReq' = [adminReq EXCEPT ![r] = q]
    BY <2>1 DEF AdminRequest
  <2>3. users[u] # NoUser
    BY <1>1 DEF UpdateUserFind
  <2>4. QED
    BY <2>1, <2>2, <2>3, AdminMoves
<1>2. ASSUME AnswerAdmin(r), UNCHANGED <<users, unguarded>>
      PROVE  AdminInv'
  <2>1. PICK q \in AdminRequest \union {NoAdminRequest} :
          q.pc = "idle" /\ adminReq' = [adminReq EXCEPT ![r] = q]
    BY <1>2 DEF AnswerAdmin, NoAdminRequest
  <2>2. QED
    BY <1>2, <2>1, AdminMoves
<1>3. CASE CountAdmins(r)
  <2>1. CASE Cardinality(ActiveAdmins(users)) <= 1
    BY <1>2, <1>3, <2>1 DEF CountAdmins
  <2>2. CASE ~ (Cardinality(ActiveAdmins(users)) <= 1)
    <3> DEFINE y == [adminReq[r] EXCEPT !.pc = "write", !.counted = TRUE]
    <3>1. adminReq[r] \in AdminRequest
      BY <1>3, AdminKinds DEF CountAdmins, AdminInv
    <3>2. y \in AdminRequest
      BY <3>1 DEF AdminRequest
    <3>3. adminReq' = [adminReq EXCEPT ![r] = y] /\ UNCHANGED <<users, unguarded>>
      BY <1>3, <2>2 DEF CountAdmins, AdminInv, AdminTypeOK
    <3>4. users[adminReq[r].user] # NoUser
      BY <1>3, AdminKinds DEF CountAdmins, AdminInv, AccountsKnown
    <3>5. PICK q \in AdminRequest \union {NoAdminRequest} :
            users[q.user] # NoUser /\ adminReq' = [adminReq EXCEPT ![r] = q]
      BY <3>1, <3>2, <3>3, <3>4 DEF AdminRequest
    <3>6. QED
      BY <2>2, <3>3, <3>5, TwoAdmins, AdminMoves
  <2>3. QED
    BY <2>1, <2>2
<1>4. QED
  BY <1>1, <1>2, <1>3 DEF RefuseAdmin

LEMMA UpdateUserKeepsInv ==
  ASSUME AdminInv, NEW r \in AdminSlots, UpdateUserWrite(r)
  PROVE  AdminInv'
<1>1. adminReq[r] \in AdminRequest
  BY AdminKinds DEF UpdateUserWrite, AdminInv
<1>2. PICK u \in Users, role \in UserRoles \union {"KEPT"}, status \in UserStatuses \union {"KEPT"},
           counted \in BOOLEAN, stale \in BOOLEAN :
        /\ u = adminReq[r].user /\ role = adminReq[r].role /\ status = adminReq[r].status
        /\ counted = adminReq[r].counted /\ stale = adminReq[r].stale
  BY <1>1 DEF AdminRequest
<1>3. users' = [users EXCEPT ![u] = Set(users[u], role, status)]
  BY <1>2 DEF UpdateUserWrite, AdminInv, AdminTypeOK
<1>4. PICK fewer \in BOOLEAN : fewer = ~ ActiveAdmins(users) \subseteq ActiveAdmins(users')
  OBVIOUS
<1>5. unguarded' = (unguarded \/ (fewer /\ (stale \/ ~ counted)))
  BY <1>2, <1>4 DEF UpdateUserWrite
<1>6. adminReq' = [x \in AdminSlots |->
         IF x = r THEN NoAdminRequest
         ELSE IF AdminAt(x, "write") THEN [adminReq[x] EXCEPT !.stale = @ \/ fewer]
         ELSE adminReq[x]]
  BY <1>4 DEF UpdateUserWrite
<1>7. users[u] # NoUser /\ \A x \in AdminSlots : ~ AdminAt(x, "idle") => users[adminReq[x].user] # NoUser
  BY <1>2, AdminKinds DEF UpdateUserWrite, AdminInv, AccountsKnown
<1>8. users[u] \in User /\ Set(users[u], role, status) \in User
  BY <1>7 DEF AdminInv, AdminTypeOK, User, Set
<1>9. ASSUME NEW x \in AdminSlots, ~ AdminAt(x, "idle")'
      PROVE  /\ adminReq'[x] \in AdminRequest /\ adminReq[x] \in AdminRequest
             /\ adminReq'[x].pc = adminReq[x].pc /\ adminReq'[x].user = adminReq[x].user
             /\ adminReq'[x].counted = adminReq[x].counted
             /\ AdminAt(x, "write") => adminReq'[x].stale = (adminReq[x].stale \/ fewer)
             /\ ~ AdminAt(x, "idle")
  <2>1. x # r
    BY <1>6, <1>9 DEF AdminAt, NoAdminRequest
  <2>2. ~ AdminAt(x, "idle") /\ adminReq[x] \in AdminRequest
    BY <1>6, <1>9, <2>1, AdminKinds DEF AdminAt, AdminInv
  <2>3. CASE AdminAt(x, "write")
    <3>1. adminReq'[x] = [adminReq[x] EXCEPT !.stale = adminReq[x].stale \/ fewer]
      BY <1>6, <2>1, <2>3
    <3>2. PICK b \in BOOLEAN : b = (adminReq[x].stale \/ fewer)
      BY <1>4
    <3>3. adminReq'[x] = [adminReq[x] EXCEPT !.stale = b]
      BY <3>1, <3>2
    <3>4. /\ adminReq'[x] \in AdminRequest /\ adminReq'[x].stale = b
          /\ adminReq'[x].pc = adminReq[x].pc /\ adminReq'[x].user = adminReq[x].user
          /\ adminReq'[x].counted = adminReq[x].counted
      BY <2>2, <3>3 DEF AdminRequest
    <3>5. QED
      BY <2>2, <3>2, <3>4
  <2>4. CASE ~ AdminAt(x, "write")
    BY <1>6, <2>1, <2>2, <2>4
  <2>5. QED
    BY <2>3, <2>4
<1>10. AdminTypeOK'
  <2>1. users' \in [Users -> User \union {NoUser}]
    BY <1>3, <1>8 DEF AdminInv, AdminTypeOK
  <2>2. \A x \in AdminSlots : adminReq'[x] \in AdminRequest \union {NoAdminRequest}
    <3>1. ASSUME NEW x \in AdminSlots, AdminAt(x, "idle")'
          PROVE  adminReq'[x] = NoAdminRequest
      BY <1>6, <3>1, AdminKinds DEF AdminAt, AdminInv
    <3>2. QED
      BY <1>9, <3>1
  <2>3. adminReq' \in [AdminSlots -> AdminRequest \union {NoAdminRequest}]
    BY <1>6, <2>2
  <2>4. unguarded' \in BOOLEAN
    BY <1>5, Zenon DEF AdminInv, AdminTypeOK
  <2>5. QED
    BY <2>1, <2>3, <2>4 DEF AdminTypeOK
<1>11. AccountsKnown'
  <2>1. NoUser \notin User
    BY DEF NoUser, User, UserRoles
  <2>2. \A v \in Users : users[v] # NoUser => users'[v] # NoUser
    BY <1>3, <1>8, <2>1 DEF AdminInv, AdminTypeOK
  <2>3. QED
    BY <1>7, <1>9, <2>2 DEF AccountsKnown, AdminRequest
<1>12. CountStands'
  <2>1. ASSUME NEW x \in AdminSlots, AdminAt(x, "write")', adminReq'[x].counted, ~ adminReq'[x].stale
        PROVE  \E a, b \in ActiveAdmins(users') : a # b
    <3>1. AdminAt(x, "write") /\ adminReq[x].counted /\ ~ adminReq[x].stale /\ ~ fewer
      BY <1>9, <2>1 DEF AdminAt
    <3>2. ActiveAdmins(users) \subseteq ActiveAdmins(users')
      BY <1>4, <3>1
    <3>3. QED
      BY <3>1, <3>2 DEF AdminInv, CountStands
  <2>2. QED
    BY <2>1 DEF CountStands, AdminAt
<1>13. AdminRemains'
  <2>1. ASSUME ~ unguarded'
        PROVE  ActiveAdmins(users') # {}
    <3>1. ~ unguarded /\ (fewer => counted /\ ~ stale)
      BY <1>5, <2>1
    <3>2. CASE fewer
      <4>1. PICK a \in ActiveAdmins(users) : a # u
        BY <1>2, <3>1, <3>2 DEF UpdateUserWrite, AdminInv, CountStands
      <4>2. a \in ActiveAdmins(users')
        BY <1>3, <4>1 DEF ActiveAdmins, AdminInv, AdminTypeOK
      <4>3. QED
        BY <4>2
    <3>3. CASE ~ fewer
      BY <1>4, <3>1, <3>3 DEF AdminInv, AdminRemains
    <3>4. QED
      BY <3>2, <3>3
  <2>2. QED
    BY <2>1 DEF AdminRemains
<1>14. QED
  BY <1>10, <1>11, <1>12, <1>13 DEF AdminInv

\* With one active administrator, AdminInv holds.
THEOREM AdminInitInv == AdminInit => AdminInv
<1> SUFFICES ASSUME AdminInit PROVE AdminInv
  OBVIOUS
<1>1. PICK u \in Users :
        users = [x \in Users |-> IF x = u THEN [role |-> "ADMINISTRATOR", status |-> "ACTIVE"] ELSE NoUser]
  BY DEF AdminInit
<1>2. u \in ActiveAdmins(users)
  BY <1>1 DEF ActiveAdmins
<1>3. AdminTypeOK
  BY <1>1 DEF AdminInit, AdminTypeOK, User, UserRoles, UserStatuses
<1>4. AccountsKnown /\ CountStands
  BY DEF AdminInit, AccountsKnown, CountStands, AdminAt, NoAdminRequest
<1>5. QED
  BY <1>2, <1>3, <1>4 DEF AdminInv, AdminRemains

\* Every step of create, update and deactivate keeps AdminInv.
THEOREM AdminNextKeepsInv == AdminInv /\ [AdminNext]_adminVars => AdminInv'
<1> SUFFICES ASSUME AdminInv, [AdminNext]_adminVars PROVE AdminInv'
  OBVIOUS
<1>1. CASE UNCHANGED adminVars
  BY <1>1 DEF adminVars, AdminInv, AdminTypeOK, AccountsKnown, CountStands, AdminRemains, AdminAt, ActiveAdmins
<1>2. ASSUME NEW u \in Users, NEW role \in UserRoles, CreateUser(u, role)
      PROVE  AdminInv'
  <2>1. PICK y \in User : users' = [users EXCEPT ![u] = y]
    BY <1>2 DEF CreateUser, User, UserStatuses
  <2>2. users[u] = NoUser /\ UNCHANGED <<adminReq, unguarded>>
    BY <1>2 DEF CreateUser
  <2>3. NoUser \notin User
    BY DEF NoUser, User, UserRoles
  <2>4. \A v \in Users : users[v] # NoUser => users'[v] = users[v]
    BY <2>1, <2>2 DEF AdminInv, AdminTypeOK
  <2>5. ActiveAdmins(users) \subseteq ActiveAdmins(users')
    BY <2>4 DEF ActiveAdmins, NoUser
  <2>6. AdminTypeOK'
    BY <2>1, <2>2 DEF AdminInv, AdminTypeOK
  <2>7. AccountsKnown'
    BY <2>2, <2>4, AdminKinds DEF AdminInv, AccountsKnown, AdminAt, AdminRequest
  <2>8. CountStands' /\ AdminRemains'
    BY <2>2, <2>5 DEF AdminInv, CountStands, AdminRemains, AdminAt
  <2>9. QED
    BY <2>6, <2>7, <2>8 DEF AdminInv
<1>3. QED
  BY <1>1, <1>2, FindAndCountKeepInv, UpdateUserKeepsInv DEF AdminNext

\* AdminInv always holds.
THEOREM AdminInvariance == AdminSpec => []AdminInv
<1>1. QED
  BY AdminInitInv, AdminNextKeepsInv, PTL DEF AdminSpec

\* An active administrator remains, unless one is taken away without a count or by a
\* count that another request has made untrue.
THEOREM Remains == AdminSpec => []AdminRemains
<1>1. AdminInv => AdminRemains
  BY DEF AdminInv
<1>2. QED
  BY <1>1, AdminInvariance, PTL

\* Accounts and the requests about them always have their types.
THEOREM AdminTypeCorrect == AdminSpec => []AdminTypeOK
<1>1. AdminInv => AdminTypeOK
  BY DEF AdminInv
<1>2. QED
  BY <1>1, AdminInvariance, PTL
-------------------------------------------------------------------------------
(* The components together.                                                *)

\* The members and accounts that overlapping requests start from are ones that the
\* invariant allows.
LEMMA HrStartInv == HrStart => HrInv /\ FollowInv
<1> SUFFICES ASSUME HrStart PROVE HrInv /\ FollowInv
  OBVIOUS
<1>1. CASE HrInit
  BY <1>1, HrInitInv, FollowInitInv
<1>2. CASE ~ HrInit
  <2>1. PICK jons : jons = [email |-> "jon@b", username |-> jon, member |-> m2]
    OBVIOUS
  <2>2. /\ oneAtATime = FALSE /\ torn = FALSE /\ hrReq = [r \in HrSlots |-> NoHrRequest]
        /\ accounts = [a \in AccountIds |-> IF a = m1 THEN NoAccount ELSE jons]
        /\ \/ photos = {} /\ members = [m \in MemberIds |-> IF m = m1 THEN NoMember ELSE GoneMember]
           \/ photos = Images /\ members = [m \in MemberIds |-> IF m = m1 THEN NoMember ELSE Jon]
    BY <1>2, <2>1 DEF HrStart, NoHrRequests
  <2>3. jons \in Account /\ jons # NoAccount /\ jons.member = m2 /\ jons.email \in Emails
    <3>1. "jon@b" \in Emails /\ jon = UserName["jon@b"] /\ m2 \in MemberIds
      BY OfficeNames DEF Addresses, Names
    <3>2. jons \in Account /\ jons.member = m2 /\ jons.email \in Emails
      BY <2>1, <3>1 DEF Account
    <3>3. NoAccount.email = None /\ None \notin Emails
      BY HrConstants DEF NoAccount
    <3>4. QED
      BY <3>2, <3>3
  <2>4. /\ Jon \in Member /\ Jon \notin {NoMember, GoneMember}
        /\ Jon.photo = None /\ Jon.stored = None /\ NoMember # GoneMember
    <3>1. "jon@b" \in Emails
      BY OfficeNames DEF Addresses
    <3>2. Jon \in Member /\ Jon.photo = None /\ Jon.stored = None
      BY <3>1 DEF Jon, Member
    <3>3. NoMember # GoneMember
      BY DEF NoMember, GoneMember
    <3>4. QED
      BY <3>2, <3>3, HrMembers
  <2>5. /\ \A r \in HrSlots : /\ hrReq[r] \in HrRequest /\ hrReq[r].pc = "idle" /\ hrReq[r].old = None
                              /\ hrReq[r].image = None /\ hrReq[r].member = None
                              /\ hrReq[r].linked = None
        /\ hrReq \in [HrSlots -> HrRequest]
    BY <2>2, HrRequests
  <2>6. \A m \in MemberIds : IsMember(m) => m # m1 /\ members[m] = Jon
    BY <2>2, <2>4 DEF IsMember
  <2>7. \A r \in HrSlots : HrProgress(hrReq[r])
    BY <2>5 DEF HrProgress
  <2>8. PendingOwn /\ OldOwn
    BY <2>5 DEF PendingOwn, OldOwn
  <2>9. PhotosOwn /\ PhotosShown
    BY <2>4, <2>6, HrConstants DEF PhotosOwn, PhotosShown, Stores
  <2>10. members \in [MemberIds -> Member \union {NoMember, GoneMember}]
    BY <2>2, <2>4
  <2>11. AccountsAddressed
    BY <2>2, <2>3 DEF AccountsAddressed, Account, NoAccount
  <2>12. HrTypeOK
    BY <2>2, <2>3, <2>5, <2>10 DEF HrTypeOK
  <2>13. AddressesUnique
    BY <2>2, <2>6, OfficeNames DEF AddressesUnique
  <2>14. HrRefers
    BY <2>2, <2>3, <2>4, <2>5, OfficeNames DEF HrRefers, HrAt
  <2>15. QED
    BY <2>2, <2>5, <2>7, <2>8, <2>9, <2>10, <2>11, <2>12, <2>13, <2>14
    DEF HrInv, PhotoInv, FollowInv
<1>3. QED
  BY <1>1, <1>2

\* Where they are put together, every component behaves as it does alone; the team
\* members may be some already.
THEOREM OfficeComposes ==
  OfficeSpec => /\ Spec /\ DeptSpec /\ AdminSpec /\ RegSpec
                /\ (HrInit \/ HrStart) /\ [][HrNext]_hrVars
<1>1. OfficeInit => Init /\ DeptInit /\ AdminInit /\ RegInit /\ (HrInit \/ HrStart)
  BY DEF OfficeInit
<1>2. [OfficeNext]_officeVars =>
        [Next]_vars /\ [DeptNext]_deptVars /\ [AdminNext]_adminVars /\ [RegNext]_regVars
          /\ [HrNext]_hrVars
  BY DEF OfficeNext, officeVars
<1>3. QED
  BY <1>1, <1>2, PTL DEF OfficeSpec, Spec, DeptSpec, AdminSpec, RegSpec

\* Members, accounts and images keep their invariant, whatever is there to begin with.
THEOREM OfficeMembers == OfficeSpec => [](HrInv /\ FollowInv)
<1>1. HrInit \/ HrStart => HrInv /\ FollowInv
  BY HrInitInv, FollowInitInv, HrStartInv
<1>2. HrInv /\ FollowInv /\ [HrNext]_hrVars => HrInv' /\ FollowInv'
  BY HrNextKeepsInv, FollowNextKeepsInv
<1>3. QED
  BY <1>1, <1>2, OfficeComposes, PTL

\* Every document and request of the office always has its type.
THEOREM OfficeTypeCorrect == OfficeSpec => []OfficeTypeOK
<1>1. TypeOK /\ DeptTypeOK /\ AdminTypeOK /\ RegTypeOK /\ FollowInv => OfficeTypeOK
  BY DEF OfficeTypeOK, FollowInv
<1>2. QED
  BY <1>1, OfficeComposes, OfficeMembers, LeaveTypeCorrect, DeptTypeCorrect, AdminTypeCorrect,
     RegTypeCorrect, PTL

\* The office, of all handlers together: with one reviewer and one registration request
\* at a time, leave follows LeaveLedger, orphans are only raced, photographs on show are
\* stored, accounts follow their members, an administrator remains, and an account is
\* verified by the newest code.
THEOREM OfficeSafe ==
  ASSUME OneReviewer, OneRegistration
  PROVE  OfficeSpec =>
           /\ ImplementsLedger
           /\ [](NeverChargedTwice /\ OrphansOnlyRaced /\ PhotosShown /\ AccountsFollow)
           /\ [](AdminRemains /\ VerifiedByLatest)
<1>1. HrInv /\ FollowInv => PhotosShown /\ AccountsFollow
  BY AccountsInStep DEF HrInv, PhotoInv
<1>2. QED
  BY <1>1, OfficeComposes, OfficeMembers, FollowsLedger, ChargedOnce, Orphans, Remains,
     VerifiedLatest, PTL
===============================================================================
