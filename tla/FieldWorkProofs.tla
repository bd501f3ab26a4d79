---------------------------- MODULE FieldWorkProofs ----------------------------
(***************************************************************************)
(* Safety of DutyOfCare, Assignments, VehicleChecks and Pricing for every  *)
(* value of their constants.  Each has an inductive invariant, which says  *)
(* of every request in flight what its handler found and still holds.  Of  *)
(* the components together: each behaves as it does alone.                 *)
(***************************************************************************)
EXTENDS MCFieldWork, RiskAssessmentsProofs, FiniteSetTheorems, WellFoundedInduction, TLAPS

-------------------------------------------------------------------------------
(* DutyOfCare.                                                             *)

\* What a shift and a request are, by what is seen of them.
LEMMA DutyKinds ==
  ASSUME DutyTypeOK
  PROVE  /\ \A s \in ShiftIds : IsShift(s) => shifts[s] \in Shift
         /\ \A s \in ShiftIds : ~ IsShift(s) => ~ shifts[s].open
         /\ \A r \in DutySlots :
              /\ DutyAt(r, "create") => dutyReq[r] \in [pc : {"create"}, member : Members]
              /\ DutyAt(r, "save") =>
                   dutyReq[r] \in [pc : {"save"}, member : Members, shift : ShiftIds]
              /\ dutyReq[r] # NoDutyRequest <=> DutyAt(r, "create") \/ DutyAt(r, "save")
              /\ dutyReq[r] # NoDutyRequest => dutyReq[r].member \in Members
<1>1. ASSUME NEW s \in ShiftIds
      PROVE  /\ IsShift(s) => shifts[s] \in Shift
             /\ ~ IsShift(s) => ~ shifts[s].open
  BY DEF DutyTypeOK, IsShift, NoShift, Deleted
<1>2. ASSUME NEW r \in DutySlots
      PROVE  /\ DutyAt(r, "create") => dutyReq[r] \in [pc : {"create"}, member : Members]
             /\ DutyAt(r, "save") =>
                  dutyReq[r] \in [pc : {"save"}, member : Members, shift : ShiftIds]
             /\ dutyReq[r] # NoDutyRequest <=> DutyAt(r, "create") \/ DutyAt(r, "save")
             /\ dutyReq[r] # NoDutyRequest => dutyReq[r].member \in Members
  <2>1. dutyReq[r] \in DutyRequest \union {NoDutyRequest}
    BY DEF DutyTypeOK
  <2>2. QED
    BY <2>1 DEF DutyRequest, NoDutyRequest, DutyAt
<1>3. QED
  BY <1>1, <1>2

\* Without shifts and requests, DutyInv holds.
THEOREM DutyInitInv == DutyInit => DutyInv
<1> SUFFICES ASSUME DutyInit PROVE DutyInv
  OBVIOUS
<1>1. DutyTypeOK
  BY DEF DutyInit, DutyTypeOK
<1>2. \A s \in ShiftIds : ~ IsShift(s) /\ ~ shifts[s].open
  BY DEF DutyInit, IsShift, NoShift
<1>3. \A r \in DutySlots : dutyReq[r] = NoDutyRequest /\ ~ DutyAt(r, "create") /\ ~ DutyAt(r, "save")
  BY DEF DutyInit, DutyAt, NoDutyRequest
<1>4. QED
  BY <1>1, <1>2, <1>3 DEF DutyInv, DutyWaitInv, OneShiftAtATime

\* A request begins: the only one of its member, and what it found is current.
LEMMA DutyBegins ==
  ASSUME DutyInv, NEW r \in DutySlots, NEW x \in DutyRequest,
         BeginDuty(r, x), UNCHANGED shifts,
         x.pc = "create" => ~ OnShift(x.member),
         x.pc = "save" => /\ IsShift(x.shift)
                          /\ shifts[x.shift].member = x.member /\ shifts[x.shift].open
  PROVE  DutyInv'
<1>1. /\ dutyReq[r] = NoDutyRequest /\ dutyReq'[r] = x
      /\ \A q \in DutySlots : q # r => dutyReq'[q] = dutyReq[q]
      /\ dutyReq' \in [DutySlots -> DutyRequest \union {NoDutyRequest}]
  BY DEF DutyInv, DutyTypeOK, BeginDuty
<1>2. MembersWait => \A q \in DutySlots :
                       q # r /\ dutyReq'[q] # NoDutyRequest => dutyReq'[q].member # x.member
  BY <1>1 DEF BeginDuty
<1>3. DutyTypeOK'
  BY <1>1 DEF DutyInv, DutyTypeOK
<1>4. OneShiftAtATime'
  BY DEF DutyInv, OneShiftAtATime, IsShift
<1>5. ASSUME NEW q \in DutySlots, DutyAt(q, "save")'
      PROVE  /\ shifts'[dutyReq'[q].shift] # NoShift
             /\ IsShift(dutyReq[q].shift)' =>
                  shifts'[dutyReq'[q].shift].member = dutyReq'[q].member
  BY <1>1, <1>5 DEF DutyInv, DutyAt, IsShift
<1>6. ASSUME MembersWait
      PROVE  DutyWaitInv'
  <2>1. ASSUME NEW p \in DutySlots, NEW q \in DutySlots,
               dutyReq'[p] # NoDutyRequest, dutyReq'[q] # NoDutyRequest,
               dutyReq'[p].member = dutyReq'[q].member
        PROVE  p = q
    BY <1>1, <1>2, <1>6, <2>1 DEF DutyInv, DutyWaitInv
  <2>2. ASSUME NEW q \in DutySlots
        PROVE  /\ DutyAt(q, "create")' => ~ OnShift(dutyReq[q].member)'
               /\ DutyAt(q, "save")' /\ IsShift(dutyReq[q].shift)' => shifts'[dutyReq'[q].shift].open
    BY <1>1, <1>6 DEF DutyInv, DutyWaitInv, DutyAt, OnShift, IsShift
  <2>3. QED
    BY <2>1, <2>2 DEF DutyWaitInv, DutyAt, OnShift, IsShift
<1>7. QED
  BY <1>3, <1>4, <1>5, <1>6 DEF DutyInv, DutyAt, IsShift

\* The request that is answered leaves the others as they were.
LEMMA DutyAnswered ==
  ASSUME DutyTypeOK, NEW r \in DutySlots, AnswerDuty(r)
  PROVE  /\ dutyReq' \in [DutySlots -> DutyRequest \union {NoDutyRequest}]
         /\ dutyReq'[r] = NoDutyRequest
         /\ \A q \in DutySlots : q # r => dutyReq'[q] = dutyReq[q]
         /\ ~ DutyAt(r, "create")' /\ ~ DutyAt(r, "save")'
BY DEF DutyTypeOK, AnswerDuty, DutyAt, NoDutyRequest

LEMMA DutyFindsKeepInv ==
  ASSUME DutyInv, NEW r \in DutySlots, NEW m \in Members
  PROVE  /\ ClockInFind(r, m) => DutyInv'
         /\ \A s \in ShiftIds : ClockOutFind(r, m, s) => DutyInv'
<1>1. ASSUME ClockInFind(r, m)
      PROVE  DutyInv'
  <2>1. [pc |-> "create", member |-> m] \in DutyRequest
    BY DEF DutyRequest
  <2>2. QED
    BY <1>1, <2>1, DutyBegins DEF ClockInFind
<1>2. ASSUME NEW s \in ShiftIds, ClockOutFind(r, m, s)
      PROVE  DutyInv'
  <2>1. [pc |-> "save", member |-> m, shift |-> s] \in DutyRequest
    BY DEF DutyRequest
  <2>2. QED
    BY <1>2, <2>1, DutyBegins DEF ClockOutFind
<1>3. QED
  BY <1>1, <1>2

LEMMA ClockInKeepsInv ==
  ASSUME DutyInv, NEW r \in DutySlots, NEW s \in ShiftIds, ClockInCreate(r, s)
  PROVE  DutyInv'
<1> DEFINE new == [member |-> dutyReq[r].member, open |-> TRUE, overwritten |-> FALSE]
<1>1. /\ DutyAt(r, "create") /\ dutyReq[r].member \in Members /\ dutyReq[r] # NoDutyRequest
      /\ shifts[s] = NoShift /\ ~ IsShift(s) /\ ~ shifts[s].open
  BY DutyKinds DEF ClockInCreate, DutyInv, IsShift, NoShift
<1>2. new \in Shift /\ new \notin {NoShift, Deleted}
  BY <1>1 DEF Shift, NoShift, Deleted
<1>3. /\ shifts' \in [ShiftIds -> Shift \union {NoShift, Deleted}]
      /\ shifts'[s] = new /\ \A t \in ShiftIds : t # s => shifts'[t] = shifts[t]
  BY <1>2 DEF ClockInCreate, DutyInv, DutyTypeOK
<1> HIDE DEF new
<1>4. /\ IsShift(s)' /\ shifts'[s].member = dutyReq[r].member /\ shifts'[s].open
      /\ ~ shifts'[s].overwritten
      /\ \A t \in ShiftIds : t # s => (IsShift(t)' <=> IsShift(t))
  BY <1>2, <1>3 DEF IsShift, new
<1>5. /\ dutyReq' \in [DutySlots -> DutyRequest \union {NoDutyRequest}]
      /\ dutyReq'[r] = NoDutyRequest
      /\ \A q \in DutySlots : q # r => dutyReq'[q] = dutyReq[q]
      /\ ~ DutyAt(r, "create")' /\ ~ DutyAt(r, "save")'
  BY DutyAnswered DEF ClockInCreate, DutyInv
<1>6. DutyTypeOK'
  BY <1>3, <1>5 DEF DutyTypeOK
<1>7. ASSUME NEW q \in DutySlots, DutyAt(q, "save")'
      PROVE  /\ q # r /\ DutyAt(q, "save") /\ dutyReq'[q] = dutyReq[q]
             /\ dutyReq[q].shift \in ShiftIds /\ dutyReq[q].shift # s
             /\ shifts'[dutyReq[q].shift] = shifts[dutyReq[q].shift]
             /\ IsShift(dutyReq[q].shift)' <=> IsShift(dutyReq[q].shift)
  BY <1>1, <1>3, <1>4, <1>5, <1>7, DutyKinds DEF DutyInv, DutyAt
<1>8. ASSUME MembersWait
      PROVE  DutyWaitInv' /\ OneShiftAtATime'
  <2>1. ~ OnShift(dutyReq[r].member) /\ DutyWaitInv /\ OneShiftAtATime
    BY <1>1, <1>8 DEF DutyInv, DutyWaitInv
  <2>2. ASSUME NEW t \in ShiftIds, shifts'[t].open
        PROVE  t = s \/ (shifts[t].open /\ IsShift(t) /\ shifts'[t] = shifts[t]
                           /\ shifts'[t].member # dutyReq[r].member)
    BY <1>3, <2>1, <2>2, DutyKinds DEF OnShift, DutyInv
  <2>3. OneShiftAtATime'
    <3>1. ASSUME NEW t \in ShiftIds, NEW u \in ShiftIds, shifts'[t].open, shifts'[u].open,
                 shifts'[t].member = shifts'[u].member
          PROVE  t = u
      BY <1>4, <1>8, <2>1, <2>2, <3>1 DEF OneShiftAtATime
    <3>2. \A t \in ShiftIds : IsShift(t)' => ~ shifts'[t].overwritten
      BY <1>3, <1>4, <1>8, <2>1 DEF OneShiftAtATime
    <3>3. QED
      BY <3>1, <3>2 DEF OneShiftAtATime, IsShift
  <2>4. ASSUME NEW p \in DutySlots, NEW q \in DutySlots,
               dutyReq'[p] # NoDutyRequest, dutyReq'[q] # NoDutyRequest,
               dutyReq'[p].member = dutyReq'[q].member
        PROVE  p = q
    BY <1>5, <2>1, <2>4 DEF DutyWaitInv
  <2>5. ASSUME NEW q \in DutySlots, DutyAt(q, "create")'
        PROVE  ~ OnShift(dutyReq[q].member)'
    <3>1. q # r /\ DutyAt(q, "create") /\ dutyReq'[q] = dutyReq[q] /\ dutyReq[q] # NoDutyRequest
      BY <1>5, <2>5, DutyKinds DEF DutyAt, DutyInv
    <3>2. dutyReq[q].member # dutyReq[r].member /\ ~ OnShift(dutyReq[q].member)
      BY <1>1, <2>1, <3>1 DEF DutyWaitInv
    <3>3. QED
      BY <1>3, <1>4, <3>1, <3>2 DEF OnShift
  <2>6. ASSUME NEW q \in DutySlots, DutyAt(q, "save")', IsShift(dutyReq[q].shift)'
        PROVE  shifts'[dutyReq'[q].shift].open
    BY <1>7, <2>1, <2>6 DEF DutyWaitInv
  <2>7. QED
    BY <2>3, <2>4, <2>5, <2>6 DEF DutyWaitInv, DutyAt, OnShift, IsShift
<1>9. ASSUME NEW q \in DutySlots, DutyAt(q, "save")'
      PROVE  /\ shifts'[dutyReq'[q].shift] # NoShift
             /\ IsShift(dutyReq[q].shift)' =>
                  shifts'[dutyReq'[q].shift].member = dutyReq'[q].member
  BY <1>7, <1>9 DEF DutyInv
<1>10. QED
  BY <1>6, <1>8, <1>9 DEF DutyInv, OneShiftAtATime, DutyAt, IsShift

LEMMA ClockOutKeepsInv ==
  ASSUME DutyInv, NEW r \in DutySlots, ClockOutSave(r)
  PROVE  DutyInv'
<1> DEFINE s == dutyReq[r].shift
<1>1. DutyAt(r, "save") /\ s \in ShiftIds /\ shifts[s] # NoShift /\ dutyReq[r] # NoDutyRequest
  BY DutyKinds DEF ClockOutSave, DutyInv
<1>2. /\ dutyReq' \in [DutySlots -> DutyRequest \union {NoDutyRequest}]
      /\ dutyReq'[r] = NoDutyRequest
      /\ \A q \in DutySlots : q # r => dutyReq'[q] = dutyReq[q]
      /\ ~ DutyAt(r, "create")' /\ ~ DutyAt(r, "save")'
  BY DutyAnswered DEF ClockOutSave, DutyInv
<1> HIDE DEF s
<1>3. /\ shifts' \in [ShiftIds -> Shift \union {NoShift, Deleted}]
      /\ \A t \in ShiftIds :
           /\ IsShift(t)' <=> IsShift(t)
           /\ shifts[t] # NoShift => shifts'[t] # NoShift
           /\ IsShift(t) => shifts'[t].member = shifts[t].member
           /\ shifts'[t].open => shifts[t].open /\ t # s
           /\ t # s => shifts'[t] = shifts[t]
           /\ IsShift(s) /\ shifts[s].open => ~ shifts'[s].overwritten
  <2>1. CASE IsShift(s)
    <3>1. shifts[s] \in Shift
      BY <1>1, <2>1, DutyKinds DEF DutyInv
    <3>2. shifts' = [shifts EXCEPT ![s] =
                       [member |-> @.member, open |-> FALSE, overwritten |-> ~ @.open]]
      BY <2>1 DEF ClockOutSave, s
    <3>3. PICK o \in BOOLEAN : o = ~ shifts[s].open
      OBVIOUS
    <3>4. shifts'[s] = [member |-> shifts[s].member, open |-> FALSE, overwritten |-> o]
      BY <1>1, <3>2, <3>3 DEF DutyInv, DutyTypeOK
    <3>5. shifts'[s] \in Shift
      BY <3>1, <3>4 DEF Shift
    <3>6. shifts[s].open => ~ o
      BY <3>3
    <3>7. shifts'[s] # NoShift /\ shifts'[s] # Deleted
      BY <3>5 DEF Shift, NoShift, Deleted
    <3>8. \A t \in ShiftIds : t # s => shifts'[t] = shifts[t]
      BY <3>2 DEF DutyInv, DutyTypeOK
    <3>9. shifts' \in [ShiftIds -> Shift \union {NoShift, Deleted}]
      BY <3>2, <3>5, <3>8 DEF DutyInv, DutyTypeOK
    <3>10. QED
      BY <2>1, <3>4, <3>6, <3>7, <3>8, <3>9 DEF IsShift
  <2>2. CASE ~ IsShift(s)
    <3>1. UNCHANGED shifts /\ ~ shifts[s].open
      BY <1>1, <2>2, DutyKinds DEF ClockOutSave, DutyInv, s
    <3>2. QED
      BY <2>2, <3>1 DEF DutyInv, DutyTypeOK, IsShift
  <2>3. QED
    BY <2>1, <2>2
<1>4. DutyTypeOK'
  BY <1>2, <1>3 DEF DutyTypeOK
<1>5. ASSUME NEW q \in DutySlots, DutyAt(q, "save")'
      PROVE  q # r /\ DutyAt(q, "save") /\ dutyReq'[q] = dutyReq[q]
               /\ dutyReq[q].shift \in ShiftIds /\ dutyReq[q] # NoDutyRequest
  BY <1>2, <1>5, DutyKinds DEF DutyInv, DutyAt
<1>6. ASSUME MembersWait
      PROVE  DutyWaitInv' /\ OneShiftAtATime'
  <2>1. DutyWaitInv /\ OneShiftAtATime
    BY <1>6 DEF DutyInv
  <2>2. IsShift(s) => shifts[s].open /\ shifts[s].member = dutyReq[r].member
    BY <1>1, <2>1 DEF DutyWaitInv, DutyInv, s
  <2>3. \A t \in ShiftIds : shifts'[t].open => IsShift(t) /\ shifts'[t] = shifts[t]
    BY <1>3, DutyKinds DEF DutyInv
  <2>4. OneShiftAtATime'
    <3>1. ASSUME NEW t \in ShiftIds, NEW u \in ShiftIds, shifts'[t].open, shifts'[u].open,
                 shifts'[t].member = shifts'[u].member
          PROVE  t = u
      BY <1>3, <1>6, <2>1, <2>3, <3>1 DEF OneShiftAtATime
    <3>2. \A t \in ShiftIds : IsShift(t)' => ~ shifts'[t].overwritten
      BY <1>3, <1>6, <2>1, <2>2 DEF OneShiftAtATime
    <3>3. QED
      BY <3>1, <3>2 DEF OneShiftAtATime, IsShift
  <2>5. ASSUME NEW p \in DutySlots, NEW q \in DutySlots,
               dutyReq'[p] # NoDutyRequest, dutyReq'[q] # NoDutyRequest,
               dutyReq'[p].member = dutyReq'[q].member
        PROVE  p = q
    BY <1>2, <2>1, <2>5 DEF DutyWaitInv
  <2>6. ASSUME NEW q \in DutySlots, DutyAt(q, "create")'
        PROVE  ~ OnShift(dutyReq[q].member)'
    <3>1. q # r /\ DutyAt(q, "create") /\ dutyReq'[q] = dutyReq[q]
      BY <1>2, <2>6 DEF DutyAt
    <3>2. ~ OnShift(dutyReq[q].member)
      BY <2>1, <3>1 DEF DutyWaitInv
    <3>3. QED
      BY <1>3, <2>3, <3>1, <3>2 DEF OnShift
  <2>7. ASSUME NEW q \in DutySlots, DutyAt(q, "save")', IsShift(dutyReq[q].shift)'
        PROVE  shifts'[dutyReq'[q].shift].open
    <3>1. dutyReq[q].shift \in ShiftIds /\ dutyReq'[q] = dutyReq[q] /\ IsShift(dutyReq[q].shift)
      BY <1>3, <1>5, <2>7
    <3>2. shifts[dutyReq[q].shift].open /\ shifts[dutyReq[q].shift].member = dutyReq[q].member
      BY <1>5, <2>1, <2>7, <3>1 DEF DutyWaitInv, DutyInv
    <3>3. dutyReq[q].member # dutyReq[r].member
      BY <1>1, <1>5, <2>1, <2>7 DEF DutyWaitInv
    <3>4. dutyReq[q].shift # s
      BY <2>2, <3>1, <3>2, <3>3
    <3>5. QED
      BY <1>3, <3>1, <3>2, <3>4
  <2>8. QED
    BY <2>4, <2>5, <2>6, <2>7 DEF DutyWaitInv, DutyAt, OnShift, IsShift
<1>7. ASSUME NEW q \in DutySlots, DutyAt(q, "save")'
      PROVE  /\ shifts'[dutyReq'[q].shift] # NoShift
             /\ IsShift(dutyReq[q].shift)' =>
                  shifts'[dutyReq'[q].shift].member = dutyReq'[q].member
  BY <1>3, <1>5, <1>7 DEF DutyInv
<1>8. QED
  BY <1>4, <1>6, <1>7 DEF DutyInv, OneShiftAtATime, DutyAt, IsShift

LEMMA RemoveShiftKeepsInv ==
  ASSUME DutyInv, NEW s \in ShiftIds, RemoveShift(s)
  PROVE  DutyInv'
<1>1. /\ shifts' \in [ShiftIds -> Shift \union {NoShift, Deleted}]
      /\ \A t \in ShiftIds :
           /\ IsShift(t)' => IsShift(t) /\ shifts'[t] = shifts[t]
           /\ shifts'[t].open => IsShift(t)'
           /\ shifts[t] # NoShift => shifts'[t] # NoShift
      /\ UNCHANGED dutyReq
  <2>1. /\ shifts' \in [ShiftIds -> Shift \union {NoShift, Deleted}]
        /\ shifts'[s] = Deleted /\ \A t \in ShiftIds : t # s => shifts'[t] = shifts[t]
        /\ UNCHANGED dutyReq
    BY DEF RemoveShift, DutyInv, DutyTypeOK
  <2>2. Deleted # NoShift /\ ~ Deleted.open
    BY DEF Deleted, NoShift
  <2>3. QED
    BY <2>1, <2>2, DutyKinds DEF IsShift, DutyInv
<1>2. DutyTypeOK'
  BY <1>1 DEF DutyInv, DutyTypeOK
<1>3. MembersWait => OneShiftAtATime'
  BY <1>1 DEF DutyInv, OneShiftAtATime
<1>4. ASSUME MembersWait
      PROVE  DutyWaitInv'
  <2>1. \A m : OnShift(m)' => OnShift(m)
    BY <1>1 DEF OnShift
  <2>2. ASSUME NEW q \in DutySlots, DutyAt(q, "save"), IsShift(dutyReq[q].shift)'
        PROVE  shifts'[dutyReq[q].shift].open
    BY <1>1, <1>4, <2>2, DutyKinds DEF DutyInv, DutyWaitInv
  <2>3. QED
    BY <1>1, <1>4, <2>1, <2>2 DEF DutyInv, DutyWaitInv, DutyAt
<1>5. ASSUME NEW q \in DutySlots, DutyAt(q, "save")'
      PROVE  /\ shifts'[dutyReq'[q].shift] # NoShift
             /\ IsShift(dutyReq[q].shift)' =>
                  shifts'[dutyReq'[q].shift].member = dutyReq'[q].member
  BY <1>1, <1>5, DutyKinds DEF DutyInv, DutyAt
<1>6. QED
  BY <1>1, <1>2, <1>3, <1>4, <1>5 DEF DutyInv, OneShiftAtATime, DutyAt, IsShift

LEMMA RefuseDutyKeepsInv ==
  ASSUME DutyInv, NEW r \in DutySlots, RefuseDuty(r)
  PROVE  DutyInv'
<1>1. /\ dutyReq' \in [DutySlots -> DutyRequest \union {NoDutyRequest}]
      /\ dutyReq'[r] = NoDutyRequest
      /\ \A q \in DutySlots : q # r => dutyReq'[q] = dutyReq[q]
      /\ ~ DutyAt(r, "create")' /\ ~ DutyAt(r, "save")' /\ UNCHANGED shifts
  BY DutyAnswered DEF RefuseDuty, DutyInv
<1>2. \A q \in DutySlots : \A pc \in {"create", "save"} : DutyAt(q, pc)' => q # r /\ DutyAt(q, pc)
  BY <1>1 DEF DutyAt
<1>3. DutyTypeOK' /\ OneShiftAtATime'
  BY <1>1 DEF DutyInv, DutyTypeOK, OneShiftAtATime, IsShift
<1>4. MembersWait => DutyWaitInv'
  BY <1>1, <1>2 DEF DutyInv, DutyWaitInv, OnShift, IsShift
<1>5. QED
  BY <1>1, <1>2, <1>3, <1>4 DEF DutyInv, IsShift

\* Every step of clockIn, clockOut and remove keeps DutyInv.
THEOREM DutyNextKeepsInv == DutyInv /\ [DutyNext]_dutyVars => DutyInv'
<1> SUFFICES ASSUME DutyInv, [DutyNext]_dutyVars PROVE DutyInv'
  OBVIOUS
<1>1. CASE UNCHANGED dutyVars
  BY <1>1 DEF dutyVars, DutyInv, DutyTypeOK, DutyWaitInv, OneShiftAtATime, DutyAt, OnShift, IsShift
<1>2. CASE DutyNext
  BY <1>2, DutyFindsKeepInv, ClockInKeepsInv, ClockOutKeepsInv, RemoveShiftKeepsInv,
     RefuseDutyKeepsInv DEF DutyNext
<1>3. QED
  BY <1>1, <1>2

\* DutyInv always holds.
THEOREM DutyInvariance == DutySpec => []DutyInv
<1>1. QED
  BY DutyInitInv, DutyNextKeepsInv, PTL DEF DutySpec

\* Shifts and the requests in flight always have their types.
THEOREM DutyTypeCorrect == DutySpec => []DutyTypeOK
<1>1. DutyInv => DutyTypeOK
  BY DEF DutyInv
<1>2. QED
  BY <1>1, DutyInvariance, PTL

\* If clients wait, nobody is on two shifts, and no shift is ended twice.
THEOREM OneShift == DutySpec => []OneShiftAtATime
<1>1. DutyInv => OneShiftAtATime
  BY DEF DutyInv
<1>2. QED
  BY <1>1, DutyInvariance, PTL
-------------------------------------------------------------------------------
(* Assignments.                                                            *)

Pushing == [pc : {"push"}, member : Staff]
Replacing ==
  [pc : {"replace"}, member : Staff, copy : Assignment, stale : BOOLEAN, superseded : BOOLEAN]

\* What a request is, by its pc, and that an assignment has two lists.
LEMMA TeamKinds ==
  ASSUME TeamTypeOK
  PROVE  /\ IsAssignment <=> assignment \in Assignment
         /\ \A a \in Assignment : a # NoAssignment /\ a # Removed /\ Team(a) \in SUBSET Staff
         /\ \A r \in TeamSlots :
              /\ TeamAt(r, "push") => teamReq[r] \in Pushing
              /\ TeamAt(r, "replace") => teamReq[r] \in Replacing
<1>1. \A a \in Assignment : a # NoAssignment /\ a # Removed /\ Team(a) \in SUBSET Staff
  BY DEF Assignment, NoAssignment, Removed, Team
<1>2. IsAssignment <=> assignment \in Assignment
  BY <1>1 DEF TeamTypeOK, IsAssignment
<1>3. ASSUME NEW r \in TeamSlots
      PROVE  /\ TeamAt(r, "push") => teamReq[r] \in Pushing
             /\ TeamAt(r, "replace") => teamReq[r] \in Replacing
  <2>1. teamReq[r] \in TeamRequest \union {NoTeamRequest}
    BY DEF TeamTypeOK
  <2>2. QED
    BY <2>1 DEF TeamRequest, NoTeamRequest, TeamAt, Pushing, Replacing
<1>4. QED
  BY <1>1, <1>2, <1>3

\* Without an assignment and requests, TeamInv holds.
THEOREM TeamInitInv == TeamInit => TeamInv
<1> SUFFICES ASSUME TeamInit PROVE TeamInv
  OBVIOUS
<1>1. TeamTypeOK
  BY DEF TeamInit, TeamTypeOK
<1>2. \A r \in TeamSlots : ~ TeamAt(r, "push") /\ ~ TeamAt(r, "replace")
  BY DEF TeamInit, TeamAt, NoTeamRequest
<1>3. QED
  BY <1>1, <1>2 DEF TeamInit, TeamInv, CopyOfTeam, TeamChangesKept, IsAssignment

\* The office writes, whatever is in flight.
LEMMA OfficeKeepsInv ==
  ASSUME TeamInv, NEW a \in Assignment, OfficeWrites(a)
  PROVE  TeamInv'
<1>1. assignment' = a /\ decided' = Team(a)
  BY DEF OfficeWrites, Rewritten
<1>2. ASSUME NEW q \in TeamSlots
      PROVE  /\ teamReq'[q] \in TeamRequest \union {NoTeamRequest}
             /\ \A pc : TeamAt(q, pc)' <=> TeamAt(q, pc)
             /\ TeamAt(q, "replace") => teamReq'[q].superseded
  <2>1. CASE TeamAt(q, "replace")
    <3>1. teamReq[q] \in Replacing
      BY <2>1, TeamKinds DEF TeamInv
    <3>2. teamReq'[q] = [teamReq[q] EXCEPT !.superseded = TRUE]
      BY <2>1 DEF OfficeWrites
    <3>3. teamReq'[q] \in Replacing /\ teamReq'[q].superseded /\ teamReq'[q].pc = teamReq[q].pc
      BY <3>1, <3>2 DEF Replacing
    <3>4. QED
      BY <3>3 DEF TeamRequest, Replacing, TeamAt
  <2>2. CASE ~ TeamAt(q, "replace")
    <3>1. teamReq'[q] = teamReq[q]
      BY <2>2 DEF OfficeWrites
    <3>2. QED
      BY <2>2, <3>1 DEF TeamInv, TeamTypeOK, TeamAt
  <2>3. QED
    BY <2>1, <2>2
<1>3. TeamTypeOK'
  <2>1. teamReq' \in [TeamSlots -> TeamRequest \union {NoTeamRequest}]
    BY <1>2 DEF OfficeWrites
  <2>2. QED
    BY <1>1, <2>1, TeamKinds DEF TeamInv, TeamTypeOK
<1>4. \A r \in TeamSlots : CopyOfTeam(r)'
  BY <1>2 DEF CopyOfTeam
<1>5. assignment' # NoAssignment /\ TeamChangesKept'
  BY <1>1, TeamKinds DEF TeamInv, TeamChangesKept
<1>6. QED
  BY <1>3, <1>4, <1>5 DEF TeamInv

\* A request begins: what it read is current.
LEMMA TeamBegins ==
  ASSUME TeamInv, NEW r \in TeamSlots, NEW x \in Pushing \union Replacing,
         BeginTeam(r, x), IsAssignment,
         x.pc = "replace" => x.copy = assignment
  PROVE  TeamInv'
<1>1. /\ teamReq' \in [TeamSlots -> TeamRequest \union {NoTeamRequest}]
      /\ teamReq'[r] = x /\ \A q \in TeamSlots : q # r => teamReq'[q] = teamReq[q]
      /\ UNCHANGED <<assignment, decided>>
  BY DEF TeamInv, TeamTypeOK, BeginTeam, TeamRequest, Pushing, Replacing
<1>2. TeamTypeOK' /\ TeamChangesKept' /\ IsAssignment'
  BY <1>1 DEF TeamInv, TeamTypeOK, TeamChangesKept, IsAssignment
<1>3. ASSUME NEW q \in TeamSlots
      PROVE  CopyOfTeam(q)'
  BY <1>1, <1>2 DEF TeamInv, CopyOfTeam, TeamAt, Replacing, Pushing
<1>4. QED
  BY <1>2, <1>3 DEF TeamInv, IsAssignment

LEMMA TeamFindsKeepInv ==
  ASSUME TeamInv, NEW r \in TeamSlots, NEW e \in Staff, NEW m \in Staff
  PROVE  AddFind(r, e, m) \/ RemoveFind(r, e, m) => TeamInv'
<1>1. ASSUME AddFind(r, e, m)
      PROVE  TeamInv'
  <2>1. [pc |-> "push", member |-> m] \in Pushing
    BY DEF Pushing
  <2>2. QED
    BY <1>1, <2>1, TeamBegins DEF AddFind
<1>2. ASSUME RemoveFind(r, e, m)
      PROVE  TeamInv'
  <2> DEFINE x == [pc |-> "replace", member |-> m, copy |-> assignment,
                   stale |-> FALSE, superseded |-> FALSE]
  <2>1. x \in Replacing
    BY <1>2, TeamKinds DEF RemoveFind, Replacing, TeamInv
  <2>2. x.copy = assignment
    OBVIOUS
  <2>3. BeginTeam(r, x) /\ IsAssignment
    BY <1>2 DEF RemoveFind
  <2> HIDE DEF x
  <2>4. QED
    BY <2>1, <2>2, <2>3, TeamBegins
<1>3. QED
  BY <1>1, <1>2

\* A save of r that leaves decided true to the team: no other copy is current any more.
LEMMA TeamSaved ==
  ASSUME TeamInv, NEW r \in TeamSlots, AnswerSaved(r),
         assignment' \in Assignment, decided' = Team(assignment')
  PROVE  TeamInv'
<1>1. teamReq'[r] = NoTeamRequest /\ ~ TeamAt(r, "push")' /\ ~ TeamAt(r, "replace")'
  BY DEF AnswerSaved, TeamAt, NoTeamRequest
<1>2. ASSUME NEW q \in TeamSlots, q # r
      PROVE  /\ teamReq'[q] \in TeamRequest \union {NoTeamRequest}
             /\ TeamAt(q, "replace")' => teamReq'[q].stale
  <2>1. CASE TeamAt(q, "replace")
    <3>1. teamReq[q] \in Replacing
      BY <2>1, TeamKinds DEF TeamInv
    <3>2. teamReq'[q] = [teamReq[q] EXCEPT !.stale = TRUE]
      BY <1>2, <2>1 DEF AnswerSaved
    <3>3. teamReq'[q] \in Replacing /\ teamReq'[q].stale
      BY <3>1, <3>2 DEF Replacing
    <3>4. QED
      BY <3>3 DEF TeamRequest, Replacing
  <2>2. CASE ~ TeamAt(q, "replace")
    <3>1. teamReq'[q] = teamReq[q]
      BY <1>2, <2>2 DEF AnswerSaved
    <3>2. QED
      BY <2>2, <3>1 DEF TeamInv, TeamTypeOK, TeamAt
  <2>3. QED
    BY <2>1, <2>2
<1>3. TeamTypeOK'
  <2>1. teamReq' \in [TeamSlots -> TeamRequest \union {NoTeamRequest}]
    BY <1>1, <1>2 DEF AnswerSaved
  <2>2. QED
    BY <2>1, TeamKinds DEF TeamInv, TeamTypeOK
<1>4. \A q \in TeamSlots : CopyOfTeam(q)'
  BY <1>1, <1>2 DEF CopyOfTeam
<1>5. assignment' # NoAssignment /\ TeamChangesKept'
  BY TeamKinds DEF TeamInv, TeamChangesKept
<1>6. QED
  BY <1>3, <1>4, <1>5 DEF TeamInv

\* A request of r ends with nothing saved.
LEMMA TeamRefused ==
  ASSUME TeamInv, NEW r \in TeamSlots, AnswerTeam(r), UNCHANGED <<assignment, decided>>
  PROVE  TeamInv'
<1>1. /\ teamReq' \in [TeamSlots -> TeamRequest \union {NoTeamRequest}]
      /\ teamReq'[r] = NoTeamRequest /\ \A q \in TeamSlots : q # r => teamReq'[q] = teamReq[q]
  BY DEF TeamInv, TeamTypeOK, AnswerTeam
<1>2. TeamTypeOK' /\ TeamChangesKept'
  BY <1>1 DEF TeamInv, TeamTypeOK, TeamChangesKept, IsAssignment
<1>3. ASSUME NEW q \in TeamSlots
      PROVE  /\ CopyOfTeam(q)'
             /\ (TeamAt(q, "push") \/ TeamAt(q, "replace") => assignment # NoAssignment)'
  BY <1>1 DEF TeamInv, CopyOfTeam, TeamAt, IsAssignment, NoTeamRequest
<1>4. QED
  BY <1>2, <1>3 DEF TeamInv

LEMMA AddKeepsInv ==
  ASSUME TeamInv, NEW r \in TeamSlots, AddSave(r)
  PROVE  TeamInv'
<1>1. teamReq[r] \in Pushing
  BY TeamKinds DEF AddSave, TeamInv
<1>2. CASE IsAssignment
  <2> DEFINE m == teamReq[r].member
  <2>1. /\ assignment' = [assignment EXCEPT !.engineers = @ \union {m}]
        /\ decided' = decided \union {m} /\ AnswerSaved(r)
    BY <1>2 DEF AddSave
  <2>2. assignment \in Assignment /\ m \in Staff /\ decided = Team(assignment)
    BY <1>1, <1>2, TeamKinds DEF TeamInv, TeamChangesKept, Pushing
  <2> HIDE DEF m
  <2>3. assignment' \in Assignment /\ Team(assignment') = Team(assignment) \union {m}
    BY <2>1, <2>2 DEF Assignment, Team
  <2>4. QED
    BY <2>1, <2>2, <2>3, TeamSaved
<1>3. CASE ~ IsAssignment
  BY <1>3, TeamRefused DEF AddSave
<1>4. QED
  BY <1>2, <1>3

\* The lists that the removal writes leave the member out of what is there.
LEMMA RemoveKeepsInv ==
  ASSUME TeamInv, NEW r \in TeamSlots, RemoveSave(r)
  PROVE  TeamInv'
<1> DEFINE m == teamReq[r].member
           a == Without(m, teamReq[r].copy)
<1>1. teamReq[r] \in Replacing /\ assignment \in Assignment
  BY TeamKinds DEF RemoveSave, TeamInv
<1>2. m \in Staff /\ teamReq[r].copy \in Assignment /\ a \in Assignment
  BY <1>1 DEF Replacing, Without, Assignment
<1>3. Dropped(r, a) /\ AnswerSaved(r)
  BY DEF RemoveSave
<1>4. CASE teamReq[r].superseded
  <2>1. assignment' = a /\ decided' = Team(a)
    BY <1>3, <1>4 DEF Dropped, Rewritten
  <2>2. QED
    BY <1>2, <1>3, <2>1, TeamSaved
<1>5. CASE ~ teamReq[r].superseded
  <2>1. assignment' = a /\ decided' = decided \ {m}
    BY <1>3, <1>5 DEF Dropped
  <2>2. teamReq[r].copy = assignment /\ decided = Team(assignment)
    BY <1>5 DEF RemoveSave, TeamInv, CopyOfTeam, TeamChangesKept
  <2>3. Team(a) = Team(assignment) \ {m}
    BY <1>1, <2>2 DEF Without, Team, Assignment
  <2>4. QED
    BY <1>2, <1>3, <2>1, <2>2, <2>3, TeamSaved
<1>6. QED
  BY <1>4, <1>5

\* Every step of the office and of the team's members keeps TeamInv.
THEOREM TeamNextKeepsInv == TeamInv /\ [TeamNext]_teamVars => TeamInv'
<1> SUFFICES ASSUME TeamInv, [TeamNext]_teamVars PROVE TeamInv'
  OBVIOUS
<1>1. CASE UNCHANGED teamVars
  BY <1>1 DEF teamVars, TeamInv, TeamTypeOK, TeamChangesKept, CopyOfTeam, TeamAt, IsAssignment
<1>2. ASSUME NEW es \in Lists, NEW ws \in Lists,
             CreateAssignment(es, ws) \/ UpdateAssignment(es, ws)
      PROVE  TeamInv'
  <2>1. [engineers |-> es, workers |-> ws] \in Assignment
    BY TeamConstants DEF Assignment
  <2>2. QED
    BY <1>2, <2>1, OfficeKeepsInv DEF CreateAssignment, UpdateAssignment
<1>3. ASSUME RemoveAssignment
      PROVE  TeamInv'
  <2>1. assignment' = Removed /\ UNCHANGED <<teamReq, decided>>
    BY <1>3 DEF RemoveAssignment
  <2>2. Removed # NoAssignment /\ ~ IsAssignment'
    BY <2>1 DEF Removed, NoAssignment, IsAssignment
  <2>3. QED
    BY <2>1, <2>2 DEF TeamInv, TeamTypeOK, TeamChangesKept, CopyOfTeam, TeamAt
<1>4. ASSUME NEW r \in TeamSlots, NEW e \in Staff, NEW m \in Staff,
             AddFind(r, e, m) \/ RemoveFind(r, e, m)
      PROVE  TeamInv'
  BY <1>4, TeamFindsKeepInv
<1>5. ASSUME NEW r \in TeamSlots, AddSave(r) \/ RemoveSave(r) \/ RefuseTeam(r)
      PROVE  TeamInv'
  BY <1>5, AddKeepsInv, RemoveKeepsInv, TeamRefused DEF RefuseTeam
<1>6. QED
  BY <1>1, <1>2, <1>3, <1>4, <1>5 DEF TeamNext

\* TeamInv always holds.
THEOREM TeamInvariance == TeamSpec => []TeamInv
<1>1. QED
  BY TeamInitInv, TeamNextKeepsInv, PTL DEF TeamSpec

\* The assignment and the requests in flight always have their types.
THEOREM TeamTypeCorrect == TeamSpec => []TeamTypeOK
<1>1. TeamInv => TeamTypeOK
  BY DEF TeamInv
<1>2. QED
  BY <1>1, TeamInvariance, PTL

\* No member's change of the team undoes another's.
THEOREM TeamKept == TeamSpec => []TeamChangesKept
<1>1. TeamInv => TeamChangesKept
  BY DEF TeamInv
<1>2. QED
  BY <1>1, TeamInvariance, PTL
-------------------------------------------------------------------------------
(* Vehicle checks.                                                         *)

\* The period of any day there is, is one of Periods.
LEMMA PeriodsCover ==
  ASSUME NEW type \in CheckTypes, NEW day \in Days
  PROVE  PeriodOf(type, day) \in Periods
BY DEF Periods

\* What the record of a request holds follows from its pc.
LEMMA CheckKinds ==
  ASSUME CheckTypeOK, NEW r \in CheckSlots
  PROVE  /\ CheckAt(r, "create") =>
              /\ checkReq[r].period \in Periods /\ checkReq[r].defects \in BOOLEAN
              /\ ~ CheckAt(r, "acknowledge") /\ ~ CheckAt(r, "resolve")
         /\ CheckAt(r, "acknowledge") \/ CheckAt(r, "resolve") => checkReq[r].period \in Periods
         /\ checkReq[r] = NoCheckRequest =>
              ~ CheckAt(r, "create") /\ ~ CheckAt(r, "acknowledge") /\ ~ CheckAt(r, "resolve")
BY DEF CheckTypeOK, CheckRequest, NoCheckRequest, CheckAt

\* A check has a status, which NoCheck has not, and keeps its type in another.
LEMMA StatusesDiffer ==
  ASSUME NEW c \in VehicleCheck \union {NoCheck}
  PROVE  /\ c.status \in CheckStatuses => c # NoCheck
         /\ c # NoCheck => c \in VehicleCheck
         /\ \A status \in CheckStatuses : c # NoCheck =>
              /\ [c EXCEPT !.status = status] \in VehicleCheck
              /\ [c EXCEPT !.status = status] # NoCheck
              /\ [c EXCEPT !.status = status].status = status
              /\ [c EXCEPT !.status = status].by = c.by
              /\ [c EXCEPT !.status = status].defects = c.defects
<1>1. NoCheck.status \notin CheckStatuses
  BY DEF NoCheck, CheckStatuses
<1>2. ASSUME c # NoCheck, NEW status \in CheckStatuses
      PROVE  /\ [c EXCEPT !.status = status] \in VehicleCheck
             /\ [c EXCEPT !.status = status] # NoCheck
             /\ [c EXCEPT !.status = status].status = status
             /\ [c EXCEPT !.status = status].by = c.by
             /\ [c EXCEPT !.status = status].defects = c.defects
  <2>1. c \in VehicleCheck
    BY <1>2
  <2>2. [c EXCEPT !.status = status].status = status
    BY <2>1 DEF VehicleCheck
  <2>3. QED
    BY <1>1, <2>1, <2>2 DEF VehicleCheck
<1>3. QED
  BY <1>1, <1>2

\* On the first day, without checks, CheckInv holds.
THEOREM CheckInitInv == CheckInit => CheckInv
<1> SUFFICES ASSUME CheckInit PROVE CheckInv
  OBVIOUS
<1>1. \A r \in CheckSlots, pc \in {"create", "acknowledge", "resolve"} : ~ CheckAt(r, pc)
  BY DEF CheckInit, CheckAt, NoCheckRequest
<1>2. CheckTypeOK
  BY CheckConstants DEF CheckInit, CheckTypeOK, Days
<1>3. QED
  BY <1>1, <1>2 DEF CheckInv, CheckWaitInv

\* A request that is refused or answered leaves the invariant alone.
LEMMA CheckRefused ==
  ASSUME CheckInv, NEW r \in CheckSlots, AnswerCheck(r), UNCHANGED <<today, checks>>
  PROVE  CheckInv'
<1>1. checkReq' = [checkReq EXCEPT ![r] = NoCheckRequest]
  BY DEF AnswerCheck
<1>2. \A q \in CheckSlots : checkReq'[q] = checkReq[q] \/ checkReq'[q] = NoCheckRequest
  BY <1>1 DEF CheckInv, CheckTypeOK
<1>3. CheckTypeOK'
  BY <1>1 DEF CheckInv, CheckTypeOK
<1>4. \A q \in CheckSlots :
        /\ CheckAt(q, "acknowledge")' =>
             CheckAt(q, "acknowledge") /\ checkReq'[q] = checkReq[q]
        /\ CheckAt(q, "resolve")' => CheckAt(q, "resolve") /\ checkReq'[q] = checkReq[q]
  BY <1>2 DEF CheckAt, NoCheckRequest
<1>5. QED
  BY <1>3, <1>4 DEF CheckInv, CheckWaitInv

\* A submission that has read the clock keeps the invariant.
LEMMA SubmitKeepsInv ==
  ASSUME CheckInv, NEW r \in CheckSlots, NEW type \in CheckTypes, NEW defects \in BOOLEAN,
         SubmitCheck(r, type, defects)
  PROVE  CheckInv'
<1> DEFINE request == [pc |-> "create", period |-> PeriodOf(type, today), defects |-> defects]
<1>1. request \in CheckRequest /\ request.pc = "create"
  BY PeriodsCover DEF CheckInv, CheckTypeOK, CheckRequest
<1>2. checkReq' = [checkReq EXCEPT ![r] = request] /\ UNCHANGED <<today, checks>>
  BY DEF SubmitCheck, BeginCheck
<1> HIDE DEF request
<1>3. CheckTypeOK'
  BY <1>1, <1>2 DEF CheckInv, CheckTypeOK
<1>4. \A q \in CheckSlots :
        /\ CheckAt(q, "acknowledge")' =>
             CheckAt(q, "acknowledge") /\ checkReq'[q] = checkReq[q]
        /\ CheckAt(q, "resolve")' => CheckAt(q, "resolve") /\ checkReq'[q] = checkReq[q]
  BY <1>1, <1>2 DEF CheckInv, CheckTypeOK, CheckAt
<1>5. QED
  BY <1>2, <1>3, <1>4 DEF CheckInv, CheckWaitInv

\* A handler that found a defect it may work on keeps the invariant: if the
\* office waits, no other handler is at work.
LEMMA OfficeFindsKeepInv ==
  ASSUME CheckInv, NEW r \in CheckSlots, NEW p \in Periods,
         AcknowledgeFind(r, p) \/ ResolveFind(r, p)
  PROVE  CheckInv'
<1>1. PICK pc \in {"acknowledge", "resolve"} :
        /\ checkReq' = [checkReq EXCEPT ![r] = [pc |-> pc, period |-> p]]
        /\ pc = "acknowledge" => checks[p].status = "OPEN"
        /\ pc = "resolve" => checks[p].status \in {"OPEN", "ACKNOWLEDGED"}
  BY DEF AcknowledgeFind, ResolveFind, BeginCheck
<1>2. UNCHANGED <<today, checks>> /\ (OfficeWaits => ~ OfficeBusy)
  BY DEF AcknowledgeFind, ResolveFind
<1>3. checks[p].status \in CheckStatuses
  BY <1>1 DEF CheckStatuses
<1>4. checks[p] # NoCheck
  BY <1>3, StatusesDiffer DEF CheckInv, CheckTypeOK
<1>5. [pc |-> pc, period |-> p] \in CheckRequest
  BY DEF CheckRequest
<1>6. CheckTypeOK'
  BY <1>1, <1>2, <1>5 DEF CheckInv, CheckTypeOK
<1>7. checkReq'[r].pc = pc /\ checkReq'[r].period = p
  BY <1>1 DEF CheckInv, CheckTypeOK
<1>8. \A q \in CheckSlots : q # r => checkReq'[q] = checkReq[q]
  BY <1>1 DEF CheckInv, CheckTypeOK
<1>9. \A q \in CheckSlots : CheckAt(q, "acknowledge")' \/ CheckAt(q, "resolve")' =>
        checks'[checkReq'[q].period] # NoCheck
  BY <1>2, <1>4, <1>7, <1>8 DEF CheckInv, CheckAt
<1>10. ASSUME OfficeWaits
       PROVE  CheckWaitInv'
  <2>1. \A q \in CheckSlots : q # r => ~ CheckAt(q, "acknowledge")' /\ ~ CheckAt(q, "resolve")'
    BY <1>2, <1>8, <1>10 DEF OfficeBusy, CheckAt
  <2>2. QED
    BY <1>1, <1>2, <1>7, <2>1 DEF CheckWaitInv, CheckAt
<1>11. QED
  BY <1>6, <1>9, <1>10 DEF CheckInv

\* What changes when a submission inserts its check: a period that had none.
LEMMA CheckCreated ==
  ASSUME CheckInv, NEW r \in CheckSlots, CreateCheck(r)
  PROVE  /\ CheckTypeOK'
         /\ UNCHANGED today
         /\ \A p \in Periods : checks[p] # NoCheck => checks'[p] = checks[p]
<1> DEFINE p == checkReq[r].period
           c == NewCheck(r, checkReq[r].defects)
<1>1. p \in Periods /\ checkReq[r].defects \in BOOLEAN
  BY CheckKinds DEF CheckInv, CreateCheck
<1>2. c \in VehicleCheck
  BY <1>1 DEF NewCheck, VehicleCheck, CheckStatuses
<1>3. checkReq' \in [CheckSlots -> CheckRequest \union {NoCheckRequest}] /\ UNCHANGED today
  BY DEF CheckInv, CheckTypeOK, CreateCheck, AnswerCheck
<1>4. \/ UNCHANGED checks
      \/ checks[p] = NoCheck /\ checks' = [checks EXCEPT ![p] = c]
  BY DEF CreateCheck
<1> HIDE DEF p, c
<1>5. QED
  BY <1>1, <1>2, <1>3, <1>4 DEF CheckInv, CheckTypeOK

LEMMA CheckCreateKeepsInv ==
  ASSUME CheckInv, NEW r \in CheckSlots, CreateCheck(r)
  PROVE  CheckInv'
<1>1. checkReq' = [checkReq EXCEPT ![r] = NoCheckRequest]
  BY DEF CreateCheck, AnswerCheck
<1>2. \A q \in CheckSlots :
        /\ CheckAt(q, "acknowledge")' =>
             CheckAt(q, "acknowledge") /\ checkReq'[q] = checkReq[q]
        /\ CheckAt(q, "resolve")' => CheckAt(q, "resolve") /\ checkReq'[q] = checkReq[q]
  BY <1>1 DEF CheckInv, CheckTypeOK, CheckAt, NoCheckRequest
<1>3. \A q \in CheckSlots : CheckAt(q, "acknowledge") \/ CheckAt(q, "resolve") =>
        /\ checks[checkReq[q].period] # NoCheck
        /\ checks'[checkReq[q].period] = checks[checkReq[q].period]
  BY CheckCreated, CheckKinds DEF CheckInv
<1>4. QED
  BY <1>2, <1>3, CheckCreated DEF CheckInv, CheckWaitInv

\* What changes when the office acknowledges or resolves: the status of a check
\* there is, forwards if the office waits for its answers.
LEMMA CheckAdvanced ==
  ASSUME CheckInv, NEW r \in CheckSlots, AcknowledgeWrite(r) \/ ResolveWrite(r)
  PROVE  /\ CheckTypeOK'
         /\ UNCHANGED today
         /\ CheckAt(r, "acknowledge") \/ CheckAt(r, "resolve")
         /\ \A q \in Periods \ {checkReq[r].period} : checks'[q] = checks[q]
         /\ \A q \in Periods : checks[q] # NoCheck =>
              /\ checks'[q] # NoCheck
              /\ checks'[q].by = checks[q].by
              /\ checks'[q].defects = checks[q].defects
         /\ OfficeWaits => \A q \in Periods : checks'[q].status # checks[q].status =>
              <<checks[q].status, checks'[q].status>> \in Advances
<1> DEFINE p == checkReq[r].period
<1>1. PICK status \in {"ACKNOWLEDGED", "RESOLVED"} :
        /\ checks' = [checks EXCEPT ![p].status = status]
        /\ status = "ACKNOWLEDGED" => CheckAt(r, "acknowledge")
        /\ status = "RESOLVED" => CheckAt(r, "resolve")
  BY DEF AcknowledgeWrite, ResolveWrite
<1>2. AnswerCheck(r) /\ UNCHANGED today
  BY DEF AcknowledgeWrite, ResolveWrite
<1>3. p \in Periods /\ checks[p] # NoCheck
  BY <1>1, CheckKinds DEF CheckInv
<1>4. checks[p] \in VehicleCheck \union {NoCheck} /\ status \in CheckStatuses
  BY <1>3 DEF CheckInv, CheckTypeOK, CheckStatuses
<1>5. OfficeWaits =>
        /\ status = "ACKNOWLEDGED" => checks[p].status = "OPEN"
        /\ status = "RESOLVED" => checks[p].status \in {"OPEN", "ACKNOWLEDGED"}
  BY <1>1 DEF CheckInv, CheckWaitInv
<1> HIDE DEF p
<1> DEFINE c == [checks[p] EXCEPT !.status = status]
<1>6. c \in VehicleCheck /\ c # NoCheck /\ c.status = status
      /\ c.by = checks[p].by /\ c.defects = checks[p].defects
  BY <1>3, <1>4, StatusesDiffer
<1>7. checks' = [checks EXCEPT ![p] = c]
  BY <1>1
<1> HIDE DEF c
<1>8. checks'[p] = c /\ \A q \in Periods \ {p} : checks'[q] = checks[q]
  BY <1>3, <1>7 DEF CheckInv, CheckTypeOK
<1>9. CheckTypeOK'
  BY <1>2, <1>6, <1>7 DEF CheckInv, CheckTypeOK, AnswerCheck
<1>10. OfficeWaits => <<checks[p].status, status>> \in Advances
  BY <1>5 DEF Advances
<1>11. p = checkReq[r].period
  BY DEF p
<1>12. QED
  BY <1>1, <1>2, <1>6, <1>8, <1>9, <1>10, <1>11

LEMMA AdvanceKeepsInv ==
  ASSUME CheckInv, NEW r \in CheckSlots, AcknowledgeWrite(r) \/ ResolveWrite(r)
  PROVE  CheckInv'
<1>1. checkReq' = [checkReq EXCEPT ![r] = NoCheckRequest]
  BY DEF AcknowledgeWrite, ResolveWrite, AnswerCheck
<1>2. \A q \in CheckSlots :
        CheckAt(q, "acknowledge")' \/ CheckAt(q, "resolve")' =>
          q # r /\ checkReq'[q] = checkReq[q] /\ (CheckAt(q, "acknowledge") \/ CheckAt(q, "resolve"))
  BY <1>1 DEF CheckInv, CheckTypeOK, CheckAt, NoCheckRequest
<1>3. \A q \in CheckSlots : CheckAt(q, "acknowledge") \/ CheckAt(q, "resolve") =>
        checkReq[q].period \in Periods /\ checks[checkReq[q].period] # NoCheck
  BY CheckKinds DEF CheckInv
<1>4. \A q \in CheckSlots : CheckAt(q, "acknowledge")' \/ CheckAt(q, "resolve")' =>
        checks'[checkReq'[q].period] # NoCheck
  BY <1>2, <1>3, CheckAdvanced
<1>5. OfficeWaits => CheckWaitInv'
  BY <1>2, CheckAdvanced DEF CheckInv, CheckWaitInv
<1>6. QED
  BY <1>4, <1>5, CheckAdvanced DEF CheckInv

\* Every step of submit, acknowledge and resolve, and midnight, keep CheckInv.
THEOREM CheckNextKeepsInv == CheckInv /\ [CheckNext]_checkVars => CheckInv'
<1> SUFFICES ASSUME CheckInv, [CheckNext]_checkVars PROVE CheckInv'
  OBVIOUS
<1>1. CASE UNCHANGED checkVars
  BY <1>1 DEF checkVars, CheckInv, CheckWaitInv, CheckTypeOK, CheckAt
<1>2. CASE Midnight
  <2>1. today' \in Days /\ UNCHANGED <<checks, checkReq>>
    BY <1>2, CheckConstants DEF Midnight, CheckInv, CheckTypeOK, Days
  <2>2. QED
    BY <2>1 DEF CheckInv, CheckWaitInv, CheckTypeOK, CheckAt
<1>3. ASSUME NEW r \in CheckSlots, NEW type \in CheckTypes, NEW defects \in BOOLEAN,
             SubmitCheck(r, type, defects)
      PROVE  CheckInv'
  BY <1>3, SubmitKeepsInv
<1>4. ASSUME NEW r \in CheckSlots, NEW p \in Periods, AcknowledgeFind(r, p) \/ ResolveFind(r, p)
      PROVE  CheckInv'
  BY <1>4, OfficeFindsKeepInv
<1>5. ASSUME NEW r \in CheckSlots,
             CreateCheck(r) \/ AcknowledgeWrite(r) \/ ResolveWrite(r) \/ RefuseCheck(r)
      PROVE  CheckInv'
  BY <1>5, CheckCreateKeepsInv, AdvanceKeepsInv, CheckRefused DEF RefuseCheck
<1>6. QED
  BY <1>1, <1>2, <1>3, <1>4, <1>5 DEF CheckNext

\* CheckInv always holds.
THEOREM CheckInvariance == CheckSpec => []CheckInv
<1>1. QED
  BY CheckInitInv, CheckNextKeepsInv, PTL DEF CheckSpec

\* The day, the checks and the requests in flight always have their types.
THEOREM CheckTypeCorrect == CheckSpec => []CheckTypeOK
<1>1. CheckInv => CheckTypeOK
  BY DEF CheckInv
<1>2. QED
  BY <1>1, CheckInvariance, PTL

\* No Monday of a week comes after a day of it.
LEMMA MondayFirst ==
  ASSUME NEW day \in Days
  PROVE  MondayOf(day) =< day
<1>1. day \in Int /\ (day + 6) % 7 \in 0 .. 6
  BY CheckConstants DEF Days
<1>2. QED
  BY <1>1 DEF MondayOf

\* Every step leaves the checks that are filed where they are, and only takes a
\* defect forward.
LEMMA CheckStep ==
  ASSUME CheckInv, [CheckNext]_checkVars
  PROVE  \A p \in Periods : checks[p] # NoCheck =>
           /\ checks'[p] # NoCheck
           /\ checks'[p].by = checks[p].by /\ checks'[p].defects = checks[p].defects
           /\ OfficeWaits /\ checks'[p].status # checks[p].status =>
                <<checks[p].status, checks'[p].status>> \in Advances
<1>1. CASE UNCHANGED checks
  BY <1>1
<1>2. CASE \E r \in CheckSlots : CreateCheck(r)
  BY <1>2, CheckCreated
<1>3. CASE \E r \in CheckSlots : AcknowledgeWrite(r) \/ ResolveWrite(r)
  BY <1>3, CheckAdvanced
<1>4. QED
  BY <1>1, <1>2, <1>3 DEF CheckNext, checkVars, SubmitCheck, AcknowledgeFind, ResolveFind,
       RefuseCheck, Midnight

\* A type that has its check for today does not fall due again today.
LEMMA DueStep ==
  ASSUME CheckInv, CheckInv', [CheckNext]_checkVars, NEW type \in CheckTypes,
         ~ Due(type), PeriodOf(type, today') = PeriodOf(type, today)
  PROVE  ~ Due(type)'
<1>1. PeriodOf(type, today) \in Periods /\ today >= MondayOf(today)
  BY PeriodsCover, MondayFirst, CheckConstants DEF CheckInv, CheckTypeOK, Days, MondayOf
<1>2. checks[PeriodOf(type, today)] # NoCheck
  BY <1>1 DEF Due
<1>3. checks'[PeriodOf(type, today')] # NoCheck
  BY <1>1, <1>2, CheckStep
<1>4. QED
  BY <1>3 DEF Due

\* What was filed stays filed, and a defect is only taken forward.
THEOREM ChecksAdvance == CheckSpec => ChecksOnlyAdvance
<1>1. ASSUME CheckInv, CheckInv', [CheckNext]_checkVars
      PROVE  [/\ \A p \in Periods : checks[p] # NoCheck =>
                   /\ checks'[p] # NoCheck
                   /\ checks'[p].by = checks[p].by /\ checks'[p].defects = checks[p].defects
                   /\ OfficeWaits /\ checks'[p].status # checks[p].status =>
                        <<checks[p].status, checks'[p].status>> \in Advances
              /\ \A type \in CheckTypes :
                   ~ Due(type) /\ PeriodOf(type, today') = PeriodOf(type, today)
                     => ~ Due(type)']_checkVars
  BY <1>1, CheckStep, DueStep
<1>2. QED
  BY <1>1, CheckInvariance, PTL DEF CheckSpec, ChecksOnlyAdvance
-------------------------------------------------------------------------------
(* Pricing: the rate cards that sheets use.                                *)

\* What a card and a request are, by what is seen of them.
LEMMA CardKinds ==
  /\ NoCard \notin RateCard
  /\ \A x \in RateCard : x.price \in Prices /\ x.active \in BOOLEAN
  /\ \A q \in PriceRequest \union {NoPriceRequest} :
       /\ q.pc \in {"create", "update"} =>
            q.by \in Crew /\ DOMAIN q.prices \subseteq Codes
       /\ q.pc \in {"exists", "delete", "deactivate"} =>
            /\ q \in [pc : {"exists", "delete", "deactivate"}, code : Codes, active : BOOLEAN]
            /\ q.code \in Codes
       /\ q.pc \in {"idle", "create", "update", "exists", "delete", "deactivate"}
<1>1. NoCard \notin RateCard
  BY DEF NoCard, RateCard
<1>2. \A q \in PriceRequest \union {NoPriceRequest} :
        /\ q.pc \in {"create", "update"} =>
             q.by \in Crew /\ DOMAIN q.prices \subseteq Codes
        /\ q.pc \in {"exists", "delete", "deactivate"} =>
             /\ q \in [pc : {"exists", "delete", "deactivate"}, code : Codes, active : BOOLEAN]
             /\ q.code \in Codes
        /\ q.pc \in {"idle", "create", "update", "exists", "delete", "deactivate"}
  BY DEF PriceRequest, NoPriceRequest
<1>3. QED
  BY <1>1, <1>2 DEF RateCard

\* There is no card and no sheet at first.
THEOREM CardInitInv == PriceInit => CardInv
<1> SUFFICES ASSUME PriceInit PROVE CardInv
  OBVIOUS
<1>1. CodesKnown /\ UsedCardsKept
  BY DEF PriceInit, CodesKnown, UsedCardsKept, NoClaim
<1>2. RemovalsChecked
  BY DEF PriceInit, RemovalsChecked, PriceAt, NoPriceRequest
<1>3. QED
  BY <1>1, <1>2 DEF PriceInit, CardInv

\* A request begins, goes on or ends: only a removal past its check has to look at
\* the sheets.
LEMMA PriceMoves ==
  ASSUME CardInv, NEW r \in PriceSlots, NEW x \in PriceRequest \union {NoPriceRequest},
         priceReq' = [priceReq EXCEPT ![r] = x], UNCHANGED <<cards, claims>>,
         x.pc = "delete" =>
           \A e \in Crew : x.code \in claims[e].data.codes => x.code \in claims[e].raced
  PROVE  CardInv'
<1>1. CodesKnown' /\ UsedCardsKept'
  BY DEF CardInv, CodesKnown, UsedCardsKept
<1>2. RemovalsChecked'
  BY DEF CardInv, RemovalsChecked, PriceAt
<1>3. QED
  BY <1>1, <1>2 DEF CardInv

LEMMA PriceAnswered ==
  ASSUME CardInv, NEW r \in PriceSlots, AnswerPrice(r), UNCHANGED <<cards, claims>>
  PROVE  CardInv'
<1>1. NoPriceRequest.pc # "delete"
  BY DEF NoPriceRequest
<1>2. QED
  BY <1>1, PriceMoves DEF AnswerPrice

LEMMA PriceFindsKeepInv ==
  ASSUME CardInv, NEW r \in PriceSlots,
         \/ \E e \in Crew, codes \in SUBSET Codes : PriceClaim(r, e, codes)
         \/ \E c \in Codes : RemoveCardFind(r, c)
  PROVE  CardInv'
<1>1. ASSUME NEW e \in Crew, NEW codes \in SUBSET Codes, PriceClaim(r, e, codes)
      PROVE  CardInv'
  <2>1. \A c \in codes : cards[c].active
    BY <1>1 DEF PriceClaim
  <2>2. [c \in codes |-> cards[c].price] \in [codes -> Prices]
    BY <2>1, CardKinds DEF CardInv, NoCard
  <2>3. PICK prices : prices = [c \in codes |-> cards[c].price]
    OBVIOUS
  <2>4. prices \in UNION {[some -> Prices] : some \in SUBSET Codes}
    BY <2>2, <2>3
  <2>5. PICK x : x = [pc |-> IF claims[e] = NoClaim THEN "create" ELSE "update", by |-> e, prices |-> prices]
    OBVIOUS
  <2>6. x \in PriceRequest /\ x.pc # "delete"
    BY <2>4, <2>5 DEF PriceRequest
  <2>7. QED
    BY <1>1, <2>3, <2>5, <2>6, PriceMoves DEF PriceClaim, BeginPrice
<1>2. ASSUME NEW c \in Codes, RemoveCardFind(r, c)
      PROVE  CardInv'
  <2>1. cards[c].active \in BOOLEAN
    BY <1>2, CardKinds DEF CardInv, RemoveCardFind
  <2>2. PICK x : x = [pc |-> "exists", code |-> c, active |-> cards[c].active]
    OBVIOUS
  <2>3. x \in PriceRequest /\ x.pc # "delete"
    BY <2>1, <2>2 DEF PriceRequest
  <2>4. QED
    BY <1>2, <2>2, <2>3, PriceMoves DEF RemoveCardFind, BeginPrice
<1>3. QED
  BY <1>1, <1>2

\* The check lets a removal go on only if no sheet uses the card.
LEMMA RemoveCardCheckKeepsInv ==
  ASSUME CardInv, NEW r \in PriceSlots, RemoveCardCheck(r)
  PROVE  CardInv'
<1>1. priceReq[r] \in PriceRequest \union {NoPriceRequest} /\ priceReq[r].pc = "exists"
  BY DEF CardInv, RemoveCardCheck, PriceAt
<1>2. PICK used \in BOOLEAN : used <=> \E e \in Crew : priceReq[r].code \in claims[e].data.codes
  OBVIOUS
<1>3. PICK x : x = [priceReq[r] EXCEPT !.pc = IF used THEN "deactivate" ELSE "delete"]
  OBVIOUS
<1>4. /\ x \in PriceRequest /\ x.code = priceReq[r].code /\ (x.pc = "delete" => ~ used)
  BY <1>1, <1>3, CardKinds DEF PriceRequest
<1>5. priceReq' = [priceReq EXCEPT ![r] = x]
  BY <1>2, <1>3 DEF RemoveCardCheck, CardInv
<1>6. QED
  BY <1>2, <1>4, <1>5, PriceMoves DEF RemoveCardCheck

\* The card goes; the sheets that use it were written too late for the check.
LEMMA RemoveCardDeleteKeepsInv ==
  ASSUME CardInv, NEW r \in PriceSlots, RemoveCardDelete(r)
  PROVE  CardInv'
<1>1. PICK c : c = priceReq[r].code
  OBVIOUS
<1>2. c \in Codes /\ PriceAt(r, "delete") /\ UNCHANGED claims /\ cards' = [cards EXCEPT ![c] = NoCard]
  BY <1>1, CardKinds DEF CardInv, RemoveCardDelete, PriceAt
<1>3. /\ priceReq' \in [PriceSlots -> PriceRequest \union {NoPriceRequest}]
      /\ \A q \in PriceSlots : priceReq'[q] \in {priceReq[q], NoPriceRequest}
  BY DEF RemoveCardDelete, CardInv
<1>4. cards' \in [Codes -> RateCard \union {NoCard}] /\ CodesKnown'
  BY <1>2 DEF CardInv, CodesKnown
<1>5. RemovalsChecked'
  BY <1>2, <1>3 DEF CardInv, RemovalsChecked, PriceAt, NoPriceRequest
<1>6. UsedCardsKept'
  BY <1>1, <1>2 DEF CardInv, RemovalsChecked, UsedCardsKept, CodesKnown
<1>7. QED
  BY <1>3, <1>4, <1>5, <1>6 DEF CardInv

\* Cards are created and changed, never taken away.
LEMMA CardsKept ==
  ASSUME CardInv, NEW c \in Codes, NEW y \in RateCard, cards' = [cards EXCEPT ![c] = y],
         UNCHANGED claims,
         priceReq' \in [PriceSlots -> PriceRequest \union {NoPriceRequest}],
         \A q \in PriceSlots : priceReq'[q] \in {priceReq[q], NoPriceRequest}
  PROVE  CardInv'
<1>1. cards' \in [Codes -> RateCard \union {NoCard}] /\ CodesKnown'
  BY DEF CardInv, CodesKnown
<1>2. RemovalsChecked'
  BY DEF CardInv, RemovalsChecked, PriceAt, NoPriceRequest
<1>3. UsedCardsKept'
  BY CardKinds DEF CardInv, UsedCardsKept, CodesKnown
<1>4. QED
  BY <1>1, <1>2, <1>3 DEF CardInv

LEMMA CardWritesKeepInv ==
  ASSUME CardInv,
         \/ \E r \in PriceSlots : RemoveCardDeactivate(r)
         \/ \E c \in Codes, price \in Prices, active \in BOOLEAN :
              CreateCard(c, price, active) \/ UpdateCard(c, price, active)
  PROVE  CardInv'
<1>1. ASSUME NEW r \in PriceSlots, RemoveCardDeactivate(r)
      PROVE  CardInv'
  <2>1. PICK c : c = priceReq[r].code
    OBVIOUS
  <2>2. c \in Codes /\ cards[c] \in RateCard \union {NoCard}
    BY <1>1, <2>1, CardKinds DEF CardInv, RemoveCardDeactivate, PriceAt
  <2>3. CASE UNCHANGED cards
    BY <1>1, <2>3, PriceAnswered DEF RemoveCardDeactivate
  <2>4. CASE cards' = [cards EXCEPT ![c].active = FALSE]
    <3>1. CASE cards[c] = NoCard
      <4>1. [NoCard EXCEPT !.active = FALSE] = NoCard
        <5>1. ASSUME NEW price, NEW active, NEW removed
              PROVE  [[price |-> price, active |-> active, removed |-> removed] EXCEPT !.active = active] =
                       [price |-> price, active |-> active, removed |-> removed]
          OBVIOUS
        <5>2. QED
          BY <5>1, Zenon DEF NoCard
      <4>2. UNCHANGED cards
        BY <2>2, <2>4, <3>1, <4>1 DEF CardInv
      <4>3. QED
        BY <2>3, <4>2
    <3>2. CASE cards[c] \in RateCard
      <4>1. [cards[c] EXCEPT !.active = FALSE] \in RateCard
        BY <3>2 DEF RateCard
      <4>2. cards' = [cards EXCEPT ![c] = [cards[c] EXCEPT !.active = FALSE]]
        BY <2>2, <2>4 DEF CardInv
      <4>3. /\ priceReq' \in [PriceSlots -> PriceRequest \union {NoPriceRequest}]
            /\ \A q \in PriceSlots : priceReq'[q] \in {priceReq[q], NoPriceRequest}
        BY <1>1 DEF RemoveCardDeactivate, AnswerPrice, CardInv
      <4>4. QED
        BY <1>1, <2>2, <4>1, <4>2, <4>3, CardsKept DEF RemoveCardDeactivate
    <3>3. QED
      BY <2>2, <3>1, <3>2
  <2>5. QED
    BY <1>1, <2>1, <2>3, <2>4 DEF RemoveCardDeactivate
<1>2. ASSUME NEW c \in Codes, NEW price \in Prices, NEW active \in BOOLEAN,
             CreateCard(c, price, active) \/ UpdateCard(c, price, active)
      PROVE  CardInv'
  <2>1. PICK y \in RateCard : y = [price |-> price, active |-> active]
    BY DEF RateCard
  <2>2. cards' = [cards EXCEPT ![c] = y] /\ UNCHANGED <<claims, priceReq>>
    BY <1>2, <2>1 DEF CreateCard, UpdateCard
  <2>3. QED
    BY <2>2, CardsKept DEF CardInv
<1>3. QED
  BY <1>1, <1>2

\* A sheet is written: what is on its way out by then is on record with it.
LEMMA WriteClaimKeepsInv ==
  ASSUME CardInv, NEW r \in PriceSlots, WriteClaim(r)
  PROVE  CardInv'
<1>1. PICK job \in Jobs \union {BlankJob}, quantities \in [DOMAIN priceReq[r].prices -> Quantities] :
        \E data \in Priced(priceReq[r].prices, quantities, job) : CreateClaim(r, data) \/ UpdateClaim(r, data)
  BY DEF WriteClaim
<1>2. PICK data \in Priced(priceReq[r].prices, quantities, job) : CreateClaim(r, data) \/ UpdateClaim(r, data)
  BY <1>1
<1>3. data.codes = DOMAIN priceReq[r].prices
  BY <1>2 DEF Priced
<1>4. data.codes \subseteq Codes /\ priceReq[r].by \in Crew
  BY <1>3, CardKinds DEF CardInv, WriteClaim, PriceAt
<1>5. UNCHANGED cards /\ AnswerPrice(r)
  BY <1>2 DEF CreateClaim, UpdateClaim
<1>6. CASE UNCHANGED claims
  BY <1>5, <1>6, PriceAnswered
<1>7. CASE ~ UNCHANGED claims
  <2>1. PICK e \in Crew : e = priceReq[r].by
    BY <1>4
  <2>2. PICK status : claims' = [claims EXCEPT ![e] =
                        [status |-> status, data |-> data, raced |-> Leaving(data.codes)]]
    <3>1. CASE CreateClaim(r, data)
      BY <1>7, <2>1, <3>1 DEF CreateClaim
    <3>2. CASE UpdateClaim(r, data)
      <4>1. PICK y : y = claims[e]
        OBVIOUS
      <4>2. PICK status, d, raced : y = [status |-> status, data |-> d, raced |-> raced]
        BY <4>1 DEF CardInv, CodesKnown
      <4>3. claims' = [claims EXCEPT ![e] = [y EXCEPT !.data = data, !.raced = Leaving(data.codes)]]
        BY <2>1, <3>2, <4>1 DEF UpdateClaim
      <4>4. [y EXCEPT !.data = data, !.raced = Leaving(data.codes)] =
              [status |-> status, data |-> data, raced |-> Leaving(data.codes)]
        <5>1. PICK late : late = Leaving(data.codes)
          OBVIOUS
        <5>2. y \in [status : {status}, data : {d}, raced : {raced}]
          BY <4>2
        <5>3. [y EXCEPT !.data = data, !.raced = late] \in [status : {status}, data : {data}, raced : {late}]
          BY <5>2
        <5>4. PICK z : z = [y EXCEPT !.data = data, !.raced = late]
          OBVIOUS
        <5>5. z = [status |-> status, data |-> data, raced |-> late]
          BY <5>3, <5>4
        <5>6. QED
          BY <5>1, <5>4, <5>5, Zenon
      <4>5. QED
        BY <4>3, <4>4
    <3>3. QED
      BY <1>2, <3>1, <3>2
  <2>3. /\ claims'[e] = [status |-> status, data |-> data, raced |-> Leaving(data.codes)]
        /\ \A x \in Crew \ {e} : claims'[x] = claims[x]
        /\ claims' = [x \in Crew |-> claims'[x]]
    BY <2>2 DEF CardInv, CodesKnown
  <2>4. claims'[e].data = data /\ claims'[e].raced = Leaving(data.codes)
    BY <2>3
  <2>5. CodesKnown'
    BY <1>4, <2>3, <2>4 DEF CardInv, CodesKnown
  <2>6. \A q \in PriceSlots : priceReq'[q] \in {priceReq[q], NoPriceRequest}
    BY <1>5 DEF AnswerPrice, CardInv
  <2>7. RemovalsChecked'
    BY <2>3, <2>4, <2>6 DEF CardInv, RemovalsChecked, PriceAt, NoPriceRequest, Leaving
  <2>8. UsedCardsKept'
    BY <1>5, <2>3, <2>4 DEF CardInv, UsedCardsKept, Leaving
  <2>9. priceReq' \in [PriceSlots -> PriceRequest \union {NoPriceRequest}]
    BY <1>5 DEF AnswerPrice, CardInv
  <2>10. QED
    BY <1>5, <2>5, <2>7, <2>8, <2>9 DEF CardInv
<1>8. QED
  BY <1>6, <1>7

LEMMA MoveClaimKeepsInv ==
  ASSUME CardInv, NEW e \in Crew, NEW from, NEW to, MoveClaim(e, from, to)
  PROVE  CardInv'
<1>1. PICK y : y = claims[e]
  OBVIOUS
<1>2. PICK status, data, raced : y = [status |-> status, data |-> data, raced |-> raced]
  BY <1>1 DEF CardInv, CodesKnown
<1>3. claims' = [claims EXCEPT ![e] = [status |-> to, data |-> data, raced |-> raced]]
  <2>1. claims' = [claims EXCEPT ![e] = [y EXCEPT !.status = to]]
    BY <1>1 DEF MoveClaim
  <2>2. [y EXCEPT !.status = to] = [status |-> to, data |-> data, raced |-> raced]
    BY <1>2
  <2>3. QED
    BY <2>1, <2>2
<1>4. UNCHANGED <<cards, priceReq>>
  BY DEF MoveClaim
<1>5. /\ claims' = [x \in Crew |-> claims'[x]]
      /\ claims'[e] = [status |-> to, data |-> data, raced |-> raced]
      /\ \A x \in Crew \ {e} : claims'[x] = claims[x]
  BY <1>3 DEF CardInv, CodesKnown
<1>6. \A x \in Crew : claims'[x].data = claims[x].data /\ claims'[x].raced = claims[x].raced
  <2>1. /\ claims'[e].data = data /\ claims'[e].raced = raced
        /\ claims[e].data = data /\ claims[e].raced = raced
    BY <1>1, <1>2, <1>5
  <2>2. QED
    BY <1>5, <2>1
<1>7. CodesKnown'
  BY <1>5, <1>6 DEF CardInv, CodesKnown
<1>8. RemovalsChecked' /\ UsedCardsKept'
  BY <1>4, <1>6 DEF CardInv, RemovalsChecked, UsedCardsKept, PriceAt
<1>9. QED
  BY <1>4, <1>7, <1>8 DEF CardInv

\* Every call of the handlers that price a sheet and that change or remove a rate
\* card, and every decision about a sheet, keeps CardInv.
THEOREM CardNextKeepsInv == CardInv /\ [PriceNext]_priceVars => CardInv'
<1> SUFFICES ASSUME CardInv, [PriceNext]_priceVars PROVE CardInv'
  OBVIOUS
<1>1. CASE UNCHANGED priceVars
  BY <1>1 DEF priceVars, CardInv, CodesKnown, RemovalsChecked, UsedCardsKept, PriceAt
<1>2. ASSUME NEW e \in Crew, SubmitClaim(e) \/ ReviewClaim(e)
      PROVE  CardInv'
  BY <1>2, MoveClaimKeepsInv DEF SubmitClaim, ReviewClaim
<1>3. ASSUME NEW r \in PriceSlots, RefusePrice(r)
      PROVE  CardInv'
  BY <1>3, PriceAnswered DEF RefusePrice
<1>4. QED
  BY <1>1, <1>2, <1>3, PriceFindsKeepInv, WriteClaimKeepsInv, RemoveCardCheckKeepsInv,
     RemoveCardDeleteKeepsInv, CardWritesKeepInv DEF PriceNext

\* A rate card that a timesheet uses is never deleted, however many removals and
\* timesheets are in flight, unless the sheet was written while the card was being
\* deleted (removeRateCard, timesheetData).
THEOREM CardsInUseKept == PriceSpec => []UsedCardsKept
<1>1. CardInv => UsedCardsKept
  BY DEF CardInv
<1>2. QED
  BY <1>1, CardInitInv, CardNextKeepsInv, PTL DEF PriceSpec
-------------------------------------------------------------------------------
(* Pricing: what is added up.  SumOver is a function defined by recursion  *)
(* on the set; what it computes is proved by a smallest counterexample.    *)

\* The equation that the definition of SumOver solves, one number at a time.
IsSum(it, f, S) ==
  it = [s \in SUBSET S |-> IF s = {} THEN 0
                           ELSE f[CHOOSE x \in s : TRUE] + it[s \ {CHOOSE x \in s : TRUE}]]

\* SumOver is the operator of the library, unfolded.
LEMMA SumSolves ==
  ASSUME NEW f, NEW S
  PROVE  SumOver(f, S) = (CHOOSE it : IsSum(it, f, S))[S]
BY DEF SumOver, MapThenSumSet, MapThenFoldSet, IsSum

\* A sum depends on what is added up alone, of whatever set.
LEMMA SumsAgree ==
  ASSUME NEW f, NEW g, NEW S, \A x \in S : f[x] = g[x]
  PROVE  SumOver(f, S) = SumOver(g, S)
<1>1. ASSUME NEW s \in SUBSET S, s # {}
      PROVE  f[CHOOSE x \in s : TRUE] = g[CHOOSE x \in s : TRUE]
  BY <1>1
<1>2. \A it : IsSum(it, f, S) <=> IsSum(it, g, S)
  BY <1>1 DEF IsSum
<1>3. (CHOOSE it : IsSum(it, f, S)) = (CHOOSE it : IsSum(it, g, S))
  BY <1>2, Zenon
<1>4. QED
  BY <1>3, SumSolves

\* Of some subsets of a finite set, one has none of the others in it.
LEMMA Smallest ==
  ASSUME NEW S, IsFiniteSet(S), NEW T, T \subseteq SUBSET S, T # {}
  PROVE  \E s \in T : \A x \in s : s \ {x} \notin T
<1>1. T \subseteq FiniteSubsetsOf(S)
  BY FS_FiniteSubsetsOfFinite
<1>2. PICK s \in T : \A t \in T : ~ (<<t, s>> \in StrictSubsetOrdering(S))
  BY <1>1, FS_StrictSubsetOrderingWellFounded, WFMin
<1>3. ASSUME NEW x \in s, s \ {x} \in T
      PROVE  FALSE
  <2>1. PICK t \in T : t = s \ {x}
    BY <1>3
  <2>2. t \in SUBSET S /\ s \in SUBSET S /\ t \subseteq s /\ t # s
    BY <2>1
  <2>3. <<t, s>> \in StrictSubsetOrdering(S)
    BY <2>2 DEF StrictSubsetOrdering
  <2>4. QED
    BY <1>2, <2>3, Zenon
<1>4. QED
  BY <1>3

\* Of some numbers, one is the successor of none of the others.
LEMMA LeastNumber ==
  ASSUME NEW N \in Nat, NEW T, T \subseteq 0 .. N, T # {}
  PROVE  \E n \in T : n - 1 \notin T
<1> DEFINE Below == {1 .. n : n \in T}
<1>1. IsFiniteSet(1 .. N)
  BY FS_Interval
<1>2. Below \subseteq SUBSET (1 .. N) /\ Below # {}
  <2>1. \A n \in T : \A x \in 1 .. n : x \in 1 .. N
    OBVIOUS
  <2>2. \A n \in T : 1 .. n \in SUBSET (1 .. N)
    BY <2>1
  <2>3. QED
    BY <2>2
<1>3. PICK s \in Below : \A x \in s : s \ {x} \notin Below
  BY <1>1, <1>2, Smallest
<1>4. PICK n \in T : s = 1 .. n
  BY <1>3
<1>5. ASSUME n - 1 \in T
      PROVE  FALSE
  <2>1. n \in s /\ s \ {n} = 1 .. (n - 1)
    BY <1>4, <1>5
  <2>2. 1 .. (n - 1) \in Below
    BY <1>5
  <2>3. QED
    BY <1>3, <2>1, <2>2
<1>6. QED
  BY <1>5

\* What the equation says of the subsets that have no more than n elements.
Upto(S, n) == {s \in SUBSET S : Cardinality(s) <= n}

IsSumUpto(it, f, S, n) ==
  it = [s \in Upto(S, n) |-> IF s = {} THEN 0
                             ELSE f[CHOOSE x \in s : TRUE] + it[s \ {CHOOSE x \in s : TRUE}]]

\* The equation has a solution: were there numbers n for which it has none on the
\* subsets of n elements, there would be a least one, and a solution for n - 1 extends.
LEMMA SumExists ==
  ASSUME NEW f, NEW S, IsFiniteSet(S)
  PROVE  \E it : IsSum(it, f, S)
<1> DEFINE T == {n \in 0 .. Cardinality(S) : ~ \E it : IsSumUpto(it, f, S, n)}
<1>0. Cardinality(S) \in Nat
  BY FS_CardinalityType
<1>1. ASSUME NEW n \in T, n - 1 \notin T
      PROVE  FALSE
  <2>1. CASE n = 0
    <3>1. \A s \in Upto(S, 0) : s = {}
      BY FS_Subset, FS_EmptySet, FS_CardinalityType DEF Upto
    <3>2. PICK it : it = [s \in Upto(S, 0) |-> 0]
      OBVIOUS
    <3>3. IsSumUpto(it, f, S, 0)
      BY <3>1, <3>2 DEF IsSumUpto
    <3>4. QED
      BY <1>1, <2>1, <3>3
  <2>2. CASE n # 0
    <3>1. n - 1 \in 0 .. Cardinality(S)
      BY <1>0, <1>1, <2>2
    <3>2. PICK g : IsSumUpto(g, f, S, n - 1)
      BY <1>1, <3>1
    <3>3. PICK it : it = [s \in Upto(S, n) |-> IF s = {} THEN 0
                             ELSE f[CHOOSE x \in s : TRUE] + g[s \ {CHOOSE x \in s : TRUE}]]
      OBVIOUS
    <3>4. \A t \in Upto(S, n - 1) : t \in Upto(S, n) /\ it[t] = g[t]
      <4>1. \A t \in Upto(S, n - 1) : t \in Upto(S, n)
        BY <1>1, FS_Subset, FS_CardinalityType DEF Upto
      <4>2. QED
        BY <3>2, <3>3, <4>1 DEF IsSumUpto
    <3>5. \A s \in Upto(S, n) : s # {} => s \ {CHOOSE x \in s : TRUE} \in Upto(S, n - 1)
      <4>1. ASSUME NEW s \in Upto(S, n), s # {}
            PROVE  s \ {CHOOSE x \in s : TRUE} \in Upto(S, n - 1)
        <5>1. PICK x \in s : x = (CHOOSE y \in s : TRUE)
          BY <4>1
        <5>2. IsFiniteSet(s) /\ s \subseteq S /\ Cardinality(s) \in Nat /\ Cardinality(s) <= n
          BY FS_Subset, FS_CardinalityType DEF Upto
        <5>3. Cardinality(s \ {x}) = Cardinality(s) - 1
          BY <5>2, FS_RemoveElement
        <5>4. QED
          BY <1>1, <5>1, <5>2, <5>3 DEF Upto
      <4>2. QED
        BY <4>1
    <3>6. IsSumUpto(it, f, S, n)
      <4>1. \A s \in Upto(S, n) : s # {} =>
              g[s \ {CHOOSE x \in s : TRUE}] = it[s \ {CHOOSE x \in s : TRUE}]
        BY <3>4, <3>5
      <4>2. [s \in Upto(S, n) |-> IF s = {} THEN 0
               ELSE f[CHOOSE x \in s : TRUE] + g[s \ {CHOOSE x \in s : TRUE}]] =
            [s \in Upto(S, n) |-> IF s = {} THEN 0
               ELSE f[CHOOSE x \in s : TRUE] + it[s \ {CHOOSE x \in s : TRUE}]]
        BY <4>1
      <4>3. QED
        BY <3>3, <4>2, Zenon DEF IsSumUpto
    <3>7. QED
      BY <1>1, <3>6
  <2>3. QED
    BY <2>1, <2>2
<1>2. T = {}
  BY <1>0, <1>1, LeastNumber
<1>3. PICK it : IsSumUpto(it, f, S, Cardinality(S))
  BY <1>0, <1>2
<1>4. Upto(S, Cardinality(S)) = SUBSET S
  BY FS_Subset DEF Upto
<1>5. QED
  BY <1>3, <1>4 DEF IsSum, IsSumUpto

\* Naturals add up to a natural: a smallest subset for which they do not would have an
\* element, and without it they do.
LEMMA SumsCount ==
  ASSUME NEW f, NEW S, IsFiniteSet(S), \A x \in S : f[x] \in Nat
  PROVE  SumOver(f, S) \in Nat
<1>1. PICK it : it = (CHOOSE g : IsSum(g, f, S)) /\ IsSum(it, f, S)
  BY SumExists
<1> DEFINE T == {s \in SUBSET S : it[s] \notin Nat}
<1>2. ASSUME NEW s \in T, \A x \in s : s \ {x} \notin T
      PROVE  FALSE
  <2>1. it[s] = IF s = {} THEN 0 ELSE f[CHOOSE x \in s : TRUE] + it[s \ {CHOOSE x \in s : TRUE}]
    BY <1>1 DEF IsSum
  <2>2. s # {}
    BY <2>1
  <2>3. PICK x \in s : x = (CHOOSE y \in s : TRUE)
    BY <2>2
  <2>4. it[s \ {x}] \in Nat /\ f[x] \in Nat
    BY <1>2
  <2>5. QED
    BY <2>1, <2>2, <2>3, <2>4
<1>3. T = {}
  BY <1>2, Smallest
<1>4. QED
  BY <1>1, <1>3, SumSolves

\* To the nearest penny: a number of pence.
LEMMA NearestCounts ==
  ASSUME NEW a \in Nat, NEW b \in Nat \ {0}, NEW n \in Nearest(a, b)
  PROVE  n \in Nat /\ 2 * (a - n * b) <= b /\ 2 * (n * b - a) <= b
<1>1. a \div b \in Nat
  OBVIOUS
<1>2. QED
  BY <1>1 DEF Nearest

\* What timesheetData makes of a request.
LEMMA PricedTyped ==
  ASSUME NEW codes \in SUBSET Codes, NEW prices \in [codes -> Prices],
         NEW quantities \in [codes -> Quantities], NEW job \in Jobs \union {BlankJob},
         NEW data \in Priced(prices, quantities, job)
  PROVE  data \in Claimed
<1>1. PICK totals :
        /\ data = [working |-> codes # {}, job |-> job, codes |-> codes, total |-> SumOver(totals, codes)]
        /\ \A c \in codes : totals[c] \in Nearest(prices[c] * quantities[c], 100)
  BY DEF Priced
<1>2. \A c \in codes : totals[c] \in Nat
  <2>1. ASSUME NEW c \in codes
        PROVE  totals[c] \in Nat
    <3>1. prices[c] \in Nat /\ quantities[c] \in Nat
      BY PricingConstants
    <3>2. prices[c] * quantities[c] \in Nat
      BY <3>1
    <3>3. QED
      BY <1>1, <3>2, NearestCounts
  <2>2. QED
    BY <2>1
<1>3. IsFiniteSet(codes)
  BY PricingConstants, FS_Subset
<1>4. PICK total \in Nat : total = SumOver(totals, codes)
  BY <1>2, <1>3, SumsCount
<1>5. QED
  BY <1>1, <1>4 DEF Claimed

\* What the sheets of a day add up to.
LEMMA TotalCounts ==
  ASSUME PriceTypeOK, NEW group \in SUBSET Crew
  PROVE  DailyTotal(claims, group) \in Nat /\ IsFiniteSet(group) /\ Cardinality(group) \in Nat
<1>1. IsFiniteSet(group) /\ Cardinality(group) \in Nat
  BY PricingConstants, FS_Subset, FS_CardinalityType
<1>2. \A x \in group : claims[x].data.total \in Nat
  BY DEF PriceTypeOK, Claim, Claimed, NoClaim
<1>3. QED
  BY <1>1, <1>2, SumsCount DEF DailyTotal

\* With their types, SharesAddUp holds.
LEMMA SharesFollow ==
  ASSUME PriceTypeOK
  PROVE  SharesAddUp
<1> SUFFICES ASSUME NEW job \in Jobs, NEW group,
                    group = {x \in Crew : Counts(claims[x]) /\ claims[x].data.job = job},
                    NEW total, total = DailyTotal(claims, group),
                    NEW count, count = Cardinality(group),
                    NEW e \in group, NEW share \in PayableShare(claims, e)
             PROVE  2 * (count * share - total) <= count /\ 2 * (total - count * share) <= count
  BY DEF SharesAddUp
<1>1. total \in Nat /\ count \in Nat /\ count # 0
  BY TotalCounts, FS_EmptySet
<1>2. Group(claims, e) = group
  BY PricingConstants DEF Group
<1>3. share \in Nearest(total, count)
  BY <1>2 DEF PayableShare, Counts
<1>4. share \in Nat /\ 2 * (total - share * count) <= count /\ 2 * (share * count - total) <= count
  BY <1>1, <1>3, NearestCounts
<1>5. share * count = count * share
  BY <1>1, <1>4
<1>6. QED
  BY <1>1, <1>4, <1>5

\* A sheet that counts is not a draft, and no sheet is not one that counts.
LEMMA DraftsUnseen ==
  ASSUME claims = [x \in Crew |-> claims[x]], NEW v \in Crew, NEW e \in Crew, NEW others,
         others = [x \in Crew |-> IF x # v /\ claims[x].status = "DRAFT" THEN NoClaim ELSE claims[x]]
  PROVE  Shown(claims, v, e) = Shown(others, v, e)
<1>1. CASE e # v /\ claims[e].status = "DRAFT"
  <2>1. others[e] = NoClaim
    BY <1>1
  <2>2. QED
    BY <1>1, <2>1 DEF Shown
<1>2. CASE ~ (e # v /\ claims[e].status = "DRAFT")
  <2>1. others[e] = claims[e]
    BY <1>2
  <2>2. \A x \in Crew : Counts(claims[x]) \/ Counts(others[x]) => others[x] = claims[x]
    BY DEF Counts, NoClaim
  <2>3. Group(claims, e) = Group(others, e)
    BY <2>1, <2>2 DEF Group
  <2>4. DailyTotal(claims, Group(claims, e)) = DailyTotal(others, Group(claims, e))
    <3>1. \A x \in Group(claims, e) : x \in Crew /\ others[x] = claims[x]
      BY <2>2 DEF Group
    <3>2. PICK f, g : f = [x \in Crew |-> claims[x].data.total] /\ g = [x \in Crew |-> others[x].data.total]
      OBVIOUS
    <3>3. \A x \in Group(claims, e) : f[x] = g[x]
      BY <3>1, <3>2
    <3>4. SumOver(f, Group(claims, e)) = SumOver(g, Group(claims, e))
      BY <3>3, SumsAgree
    <3>5. QED
      BY <3>2, <3>4, Zenon DEF DailyTotal
  <2>5. PayableShare(claims, e) = PayableShare(others, e)
    BY <2>1, <2>3, <2>4 DEF PayableShare
  <2>6. QED
    BY <2>1, <2>5 DEF Shown
<1>3. QED
  BY <1>1, <1>2

\* A request begins or ends, and every sheet stays as it is or is written as one.
LEMMA PriceTyped ==
  ASSUME PriceInv, NEW r \in PriceSlots, NEW x \in PriceRequest \union {NoPriceRequest},
         priceReq' = [priceReq EXCEPT ![r] = x],
         x.pc = "update" => claims'[x.by] # NoClaim,
         cards' \in [Codes -> RateCard \union {NoCard}],
         claims' \in [Crew -> Claim \union {NoClaim}],
         \A e \in Crew : claims[e] # NoClaim => claims'[e] # NoClaim
  PROVE  PriceInv'
<1>1. /\ priceReq' \in [PriceSlots -> PriceRequest \union {NoPriceRequest}]
      /\ priceReq'[r] = x /\ \A q \in PriceSlots : q # r => priceReq'[q] = priceReq[q]
  BY DEF PriceInv, PriceTypeOK
<1>2. ASSUME NEW q \in PriceSlots, PriceAt(q, "update")'
      PROVE  claims'[priceReq'[q].by] # NoClaim
  <2>1. CASE q = r
    BY <1>1, <1>2, <2>1 DEF PriceAt
  <2>2. CASE q # r
    <3>1. priceReq[q] \in PriceRequest \union {NoPriceRequest} /\ priceReq[q].pc = "update"
      BY <1>1, <1>2, <2>2 DEF PriceAt, PriceInv, PriceTypeOK
    <3>2. priceReq[q].by \in Crew
      BY <3>1, CardKinds
    <3>3. QED
      BY <1>1, <2>2, <3>1, <3>2 DEF PriceInv, PriceAt
  <2>3. QED
    BY <2>1, <2>2
<1>3. QED
  BY <1>1, <1>2 DEF PriceInv, PriceTypeOK

\* The calls that price a sheet or look at a card, and those that end without a sheet
\* (a card is deactivated, a request is refused).
LEMMA PriceBeginsTyped ==
  ASSUME PriceInv, NEW r \in PriceSlots,
         \/ \E e \in Crew, codes \in SUBSET Codes : PriceClaim(r, e, codes)
         \/ \E c \in Codes : RemoveCardFind(r, c)
         \/ RemoveCardCheck(r) \/ RemoveCardDeactivate(r) \/ RefusePrice(r)
  PROVE  PriceInv'
<1> USE DEF PriceInv, PriceTypeOK
<1>1. ASSUME NEW e \in Crew, NEW codes \in SUBSET Codes, PriceClaim(r, e, codes)
      PROVE  PriceInv'
  <2>1. PICK x, prices, pc :
          /\ prices = [c \in codes |-> cards[c].price]
          /\ pc = IF claims[e] = NoClaim THEN "create" ELSE "update"
          /\ x = [pc |-> pc, by |-> e, prices |-> prices]
          /\ priceReq' = [priceReq EXCEPT ![r] = x]
    BY <1>1, Zenon DEF PriceClaim, BeginPrice
  <2>2. \A c \in codes : cards[c].price \in Prices
    BY <1>1, CardKinds DEF PriceClaim, NoCard
  <2>3. prices \in [codes -> Prices]
    BY <2>1, <2>2
  <2>4. x \in PriceRequest /\ x.pc = pc /\ x.by = e
    BY <2>1, <2>3 DEF PriceRequest
  <2>5. UNCHANGED <<cards, claims>>
    BY <1>1 DEF PriceClaim
  <2>6. QED
    BY <2>1, <2>4, <2>5, PriceTyped
<1>2. ASSUME NEW c \in Codes, RemoveCardFind(r, c)
      PROVE  PriceInv'
  <2>1. PICK x, active :
          /\ active = cards[c].active
          /\ x = [pc |-> "exists", code |-> c, active |-> active]
          /\ priceReq' = [priceReq EXCEPT ![r] = x]
    BY <1>2, Zenon DEF RemoveCardFind, BeginPrice
  <2>2. active \in BOOLEAN
    <3>1. cards[c] \in RateCard
      BY <1>2 DEF RemoveCardFind
    <3>2. QED
      BY <2>1, <3>1, CardKinds
  <2>3. x \in PriceRequest /\ x.pc = "exists"
    BY <2>1, <2>2 DEF PriceRequest
  <2>4. QED
    BY <1>2, <2>1, <2>3, PriceTyped DEF RemoveCardFind
<1>3. CASE RemoveCardCheck(r)
  <2>1. PICK q : q = priceReq[r]
    OBVIOUS
  <2>2. PICK pc \in {"deactivate", "delete"} : priceReq' = [priceReq EXCEPT ![r] = [q EXCEPT !.pc = pc]]
    BY <1>3, <2>1 DEF RemoveCardCheck
  <2>3. q \in [pc : {"exists", "delete", "deactivate"}, code : Codes, active : BOOLEAN]
    BY <1>3, <2>1, CardKinds DEF RemoveCardCheck, PriceAt
  <2>4. [q EXCEPT !.pc = pc] \in PriceRequest /\ [q EXCEPT !.pc = pc].pc = pc
    BY <2>3 DEF PriceRequest
  <2>5. QED
    BY <1>3, <2>2, <2>4, PriceTyped DEF RemoveCardCheck
<1>4. CASE RemoveCardDeactivate(r)
  <2>1. PICK c \in Codes : c = priceReq[r].code
    BY <1>4, CardKinds DEF RemoveCardDeactivate, PriceAt
  <2>2. cards' \in [Codes -> RateCard \union {NoCard}]
    <3>1. CASE UNCHANGED cards
      BY <3>1
    <3>2. CASE cards' = [cards EXCEPT ![c].active = FALSE]
      <4>1. [cards[c] EXCEPT !.active = FALSE] \in RateCard \union {NoCard}
        <5>1. CASE cards[c] = NoCard
          <6>1. PICK y \in [price : {0}, active : {FALSE}, removed : {TRUE}] : y = cards[c]
            BY <5>1 DEF NoCard
          <6>2. [y EXCEPT !.active = FALSE] = y
            BY <6>1
          <6>3. QED
            BY <5>1, <6>1, <6>2
        <5>2. CASE cards[c] \in RateCard
          BY <5>2 DEF RateCard
        <5>3. QED
          BY <5>1, <5>2
      <4>2. QED
        BY <3>2, <4>1
    <3>3. QED
      BY <1>4, <2>1, <3>1, <3>2 DEF RemoveCardDeactivate
  <2>3. NoPriceRequest.pc # "update" /\ UNCHANGED claims
    BY <1>4 DEF NoPriceRequest, RemoveCardDeactivate
  <2>4. QED
    BY <1>4, <2>2, <2>3, PriceTyped DEF RemoveCardDeactivate, AnswerPrice
<1>5. CASE RefusePrice(r)
  <2>1. NoPriceRequest.pc # "update" /\ UNCHANGED <<cards, claims>>
    BY <1>5 DEF NoPriceRequest, RefusePrice
  <2>2. QED
    BY <1>5, <2>1, PriceTyped DEF RefusePrice, AnswerPrice
<1>6. QED
  BY <1>1, <1>2, <1>3, <1>4, <1>5

\* The sheet that was priced is written.
LEMMA WriteClaimTyped ==
  ASSUME PriceInv, NEW r \in PriceSlots, WriteClaim(r)
  PROVE  PriceInv'
<1>1. PICK q : q = priceReq[r]
  OBVIOUS
<1>2. /\ q \in [pc : {"create", "update"}, by : Crew,
                prices : UNION {[codes -> Prices] : codes \in SUBSET Codes}]
      /\ PriceAt(r, "update") => claims[q.by] # NoClaim
  <2>1. q \in PriceRequest \union {NoPriceRequest} /\ q.pc \in {"create", "update"}
    BY <1>1 DEF PriceInv, PriceTypeOK, WriteClaim, PriceAt
  <2>2. QED
    BY <1>1, <2>1 DEF PriceRequest, NoPriceRequest, PriceInv
<1>3. PICK e \in Crew : e = q.by
  BY <1>2
<1>4. PICK codes \in SUBSET Codes : q.prices \in [codes -> Prices]
  BY <1>2
<1>5. PICK job \in Jobs \union {BlankJob}, quantities \in [codes -> Quantities] :
        \E data \in Priced(q.prices, quantities, job) : CreateClaim(r, data) \/ UpdateClaim(r, data)
  BY <1>1, <1>4 DEF WriteClaim
<1>6. PICK data \in Priced(q.prices, quantities, job) : CreateClaim(r, data) \/ UpdateClaim(r, data)
  BY <1>5
<1>7. data \in Claimed
  BY <1>4, <1>6, PricedTyped
<1>8. PICK late \in SUBSET Codes : late = Leaving(data.codes)
  BY <1>7 DEF Claimed, Leaving
<1>9. claims' \in [Crew -> Claim \union {NoClaim}] /\ \A x \in Crew : claims[x] # NoClaim => claims'[x] # NoClaim
  <2>1. CASE UNCHANGED claims
    BY <2>1 DEF PriceInv, PriceTypeOK
  <2>2. ASSUME NEW y \in Claim, claims' = [claims EXCEPT ![e] = y]
        PROVE  claims' \in [Crew -> Claim \union {NoClaim}] /\ \A x \in Crew : claims[x] # NoClaim => claims'[x] # NoClaim
    <3>1. y # NoClaim
      BY DEF Claim, NoClaim, ClaimStatuses
    <3>2. QED
      BY <2>2, <3>1 DEF PriceInv, PriceTypeOK
  <2>3. CASE CreateClaim(r, data) /\ ~ UNCHANGED claims
    <3>1. claims' = [claims EXCEPT ![e] = [status |-> "DRAFT", data |-> data, raced |-> late]]
      BY <1>1, <1>3, <1>8, <2>3 DEF CreateClaim
    <3>2. [status |-> "DRAFT", data |-> data, raced |-> late] \in Claim
      BY <1>7 DEF Claim, ClaimStatuses
    <3>3. QED
      BY <2>2, <3>1, <3>2
  <2>4. CASE UpdateClaim(r, data)
    <3>1. PICK y : y = claims[e]
      OBVIOUS
    <3>2. y \in Claim
      BY <1>1, <1>2, <1>3, <2>4, <3>1 DEF UpdateClaim, PriceInv, PriceTypeOK
    <3>3. claims' = [claims EXCEPT ![e] = [y EXCEPT !.data = data, !.raced = late]]
      BY <1>1, <1>3, <1>8, <2>4, <3>1 DEF UpdateClaim
    <3>4. [y EXCEPT !.data = data, !.raced = late] \in Claim
      BY <1>7, <3>2 DEF Claim
    <3>5. QED
      BY <2>2, <3>3, <3>4
  <2>5. QED
    BY <1>6, <2>1, <2>3, <2>4
<1>10. AnswerPrice(r) /\ UNCHANGED cards /\ NoPriceRequest.pc # "update"
  BY <1>6 DEF CreateClaim, UpdateClaim, NoPriceRequest
<1>11. cards' \in [Codes -> RateCard \union {NoCard}]
  BY <1>10 DEF PriceInv, PriceTypeOK
<1>12. QED
  BY <1>9, <1>10, <1>11, PriceTyped DEF AnswerPrice

\* A rate card is written or deleted.
LEMMA CardWritesTyped ==
  ASSUME PriceInv,
         \/ \E c \in Codes, price \in Prices, active \in BOOLEAN :
              CreateCard(c, price, active) \/ UpdateCard(c, price, active)
         \/ \E r \in PriceSlots : RemoveCardDelete(r)
  PROVE  PriceInv'
<1>1. ASSUME NEW c \in Codes, NEW y \in RateCard \union {NoCard}, cards' = [cards EXCEPT ![c] = y],
             UNCHANGED claims,
             \A q \in PriceSlots : priceReq'[q] \in {priceReq[q], NoPriceRequest},
             priceReq' = [q \in PriceSlots |-> priceReq'[q]]
      PROVE  PriceInv'
  <2>1. /\ cards' \in [Codes -> RateCard \union {NoCard}]
        /\ priceReq' \in [PriceSlots -> PriceRequest \union {NoPriceRequest}]
    BY <1>1 DEF PriceInv, PriceTypeOK
  <2>2. \A q \in PriceSlots : PriceAt(q, "update")' => PriceAt(q, "update") /\ priceReq'[q] = priceReq[q]
    BY <1>1 DEF PriceAt, NoPriceRequest
  <2>3. QED
    BY <1>1, <2>1, <2>2 DEF PriceInv, PriceTypeOK
<1>2. ASSUME NEW c \in Codes, NEW price \in Prices, NEW active \in BOOLEAN,
             CreateCard(c, price, active) \/ UpdateCard(c, price, active)
      PROVE  PriceInv'
  <2>1. [price |-> price, active |-> active] \in RateCard
    BY DEF RateCard
  <2>2. priceReq = [q \in PriceSlots |-> priceReq[q]]
    BY DEF PriceInv, PriceTypeOK
  <2>3. QED
    BY <1>1, <1>2, <2>1, <2>2 DEF CreateCard, UpdateCard
<1>3. ASSUME NEW r \in PriceSlots, RemoveCardDelete(r)
      PROVE  PriceInv'
  <2>1. PICK c \in Codes : c = priceReq[r].code
    BY <1>3, CardKinds DEF RemoveCardDelete, PriceAt, PriceInv, PriceTypeOK
  <2>2. QED
    BY <1>1, <1>3, <2>1 DEF RemoveCardDelete
<1>4. QED
  BY <1>2, <1>3

\* A sheet is submitted or reviewed.
LEMMA MoveClaimTyped ==
  ASSUME PriceInv, NEW e \in Crew, SubmitClaim(e) \/ ReviewClaim(e)
  PROVE  PriceInv'
<1>1. PICK to \in ClaimStatuses : /\ claims[e].status \in ClaimStatuses
                                  /\ claims' = [claims EXCEPT ![e].status = to]
                                  /\ UNCHANGED <<cards, priceReq>>
  BY DEF SubmitClaim, ReviewClaim, MoveClaim, ClaimStatuses
<1>2. PICK y \in Claim : y = claims[e]
  BY <1>1 DEF PriceInv, PriceTypeOK, NoClaim, ClaimStatuses
<1>3. [y EXCEPT !.status = to] \in Claim
  BY <1>2 DEF Claim
<1>4. \A z \in Claim : z # NoClaim
  BY DEF Claim, NoClaim, ClaimStatuses
<1>5. /\ claims' \in [Crew -> Claim \union {NoClaim}]
      /\ \A x \in Crew : claims[x] # NoClaim => claims'[x] # NoClaim
  BY <1>1, <1>2, <1>3, <1>4 DEF PriceInv, PriceTypeOK
<1>6. ASSUME NEW q \in PriceSlots, PriceAt(q, "update")
      PROVE  priceReq[q].by \in Crew
  BY <1>6, CardKinds DEF PriceInv, PriceTypeOK, PriceAt
<1>7. QED
  BY <1>1, <1>5, <1>6 DEF PriceInv, PriceTypeOK, PriceAt

\* The sheets, the cards and the requests in flight always have their types: what is
\* added up is a number, and a sheet that is changed is there.
THEOREM PriceInvariance == PriceSpec => []PriceInv
<1>1. PriceInit => PriceInv
  BY DEF PriceInit, PriceInv, PriceTypeOK, PriceAt, NoPriceRequest
<1>2. PriceInv /\ [PriceNext]_priceVars => PriceInv'
  <2> SUFFICES ASSUME PriceInv, [PriceNext]_priceVars PROVE PriceInv'
    OBVIOUS
  <2>1. CASE UNCHANGED priceVars
    BY <2>1 DEF priceVars, PriceInv, PriceTypeOK, PriceAt
  <2>2. QED
    BY <2>1, PriceBeginsTyped, WriteClaimTyped, CardWritesTyped, MoveClaimTyped DEF PriceNext
<1>3. QED
  BY <1>1, <1>2, PTL DEF PriceSpec

\* Cards, sheets and requests always have their types.
THEOREM PriceTypeCorrect == PriceSpec => []PriceTypeOK
<1>1. PriceInv => PriceTypeOK
  BY DEF PriceInv
<1>2. QED
  BY <1>1, PriceInvariance, PTL

\* The shares of the sheets of one job add up to what those claim, give or take half
\* a penny for each sheet, however many there are (response).
THEOREM SharesAdd == PriceSpec => []SharesAddUp
<1>1. PriceInv => SharesAddUp
  BY SharesFollow DEF PriceInv
<1>2. QED
  BY <1>1, PriceInvariance, PTL

\* What an engineer is shown does not depend on the drafts of the others, neither
\* their sheets nor the totals and shares (eligibleOwn, response).
THEOREM DraftsUnshown == PriceSpec => []DraftsPrivate
<1>1. PriceInv => DraftsPrivate
  <2>1. PriceInv => claims = [x \in Crew |-> claims[x]]
    BY DEF PriceInv, PriceTypeOK
  <2>2. QED
    BY <2>1, DraftsUnseen DEF DraftsPrivate
<1>2. QED
  BY <1>1, PriceInvariance, PTL
-------------------------------------------------------------------------------
(* The components together.                                                *)

\* Where they are put together, every component behaves as it does alone, so that
\* what is proved of each holds there.
THEOREM FieldComposes == FieldSpec => Spec /\ CheckSpec /\ DutySpec /\ TeamSpec /\ PriceSpec
<1>1. FieldInit => Init /\ CheckInit /\ DutyInit /\ TeamInit /\ PriceInit
  BY DEF FieldInit
<1>2. [FieldNext]_fieldVars =>
        [Next]_vars /\ [CheckNext]_checkVars /\ [DutyNext]_dutyVars /\ [TeamNext]_teamVars
          /\ [PriceNext]_priceVars
  BY DEF FieldNext, fieldVars
<1>3. QED
  BY <1>1, <1>2, PTL DEF FieldSpec, Spec, CheckSpec, DutySpec, TeamSpec, PriceSpec

\* Every document and request of the work on site always has its type.
THEOREM FieldTypeCorrect == FieldSpec => []FieldTypeOK
<1>1. TypeOK /\ CheckTypeOK /\ DutyTypeOK /\ TeamTypeOK /\ PriceTypeOK => FieldTypeOK
  BY DEF FieldTypeOK
<1>2. QED
  BY <1>1, FieldComposes, TypeCorrect, CheckTypeCorrect, DutyTypeCorrect, TeamTypeCorrect,
     PriceTypeCorrect, PTL

\* The work on site, of all handlers together: signatures are kept and doubled by no
\* one, shifts do not overlap, checks stay and team changes too, shares add up, drafts
\* are private and used rate cards kept.
THEOREM FieldWorkSafe ==
  FieldSpec => /\ [](OneSignatureEach /\ SubmittedSigned /\ OneShiftAtATime /\ TeamChangesKept)
               /\ [](DraftsPrivate /\ SharesAddUp /\ UsedCardsKept)
               /\ SignaturesKept /\ StatusNeverGoesBack /\ ChecksOnlyAdvance
<1>1. QED
  BY FieldComposes, OneEach, SubmittedStaySigned, NoSignatureLost, NeverBack, OneShift, TeamKept,
     ChecksAdvance, DraftsUnshown, SharesAdd, CardsInUseKept, PTL
===============================================================================
