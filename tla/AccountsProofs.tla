----------------------------- MODULE AccountsProofs -----------------------------
(***************************************************************************)
(* Proofs about the accounts of the office: the code that verifies one,    *)
(* the address of one made for a team member, and the photograph that      *)
(* member is shown with.                                                   *)
(***************************************************************************)
EXTENDS Registration, TeamMembers, TLAPS

-------------------------------------------------------------------------------
(* Registration.                                                           *)

OneRegistration == \A r, q \in RegSlots : r = q

\* A request with another pc is a request.
LEMMA RegMoved ==
  ASSUME NEW q \in RegRequest, NEW pc \in RegSteps
  PROVE  /\ [q EXCEPT !.pc = pc] \in RegRequest
         /\ [q EXCEPT !.pc = pc].pc = pc
         /\ [q EXCEPT !.pc = pc].code = q.code
         /\ [q EXCEPT !.pc = pc].copy = q.copy
         /\ [q EXCEPT !.pc = pc].handler = q.handler
BY DEF RegRequest

\* What a call of one request leaves behind.
LEMMA RegMoves ==
  ASSUME RegInv, OneRegistration, NEW r \in RegSlots, NEW x \in RegRequest,
         regReq' = [regReq EXCEPT ![r] = x],
         account' \in {"NONE", "UNVERIFIED", "VERIFIED"},
         codeIn' \in [{"redis", "mongo"} -> CodeOrNone],
         {hasSecurity', cooling', slipped'} \subseteq BOOLEAN,
         {issued', lastSent'} \union outdated' \union sent' \subseteq CodeOrNone,
         CodesInOrder', StoresInOrder', RegProgress(x)'
  PROVE  RegInv'
<1>1. regReq'[r] = x
  BY DEF RegInv, RegTypeOK
<1>2. \A q \in RegSlots : q = r
  BY DEF OneRegistration
<1>3. regReq' \in [RegSlots -> RegRequest]
  BY DEF RegInv, RegTypeOK
<1>4. RegTypeOK'
  BY <1>3 DEF RegTypeOK
<1>5. \A q \in RegSlots : regReq'[q] = x
  BY <1>1, <1>2
<1>6. \A q \in RegSlots : RegProgress(regReq[q])'
  BY <1>5 DEF RegProgress
<1>7. QED
  BY <1>4, <1>6 DEF RegInv

\* The next call of a request.
LEMMA RegProceeds ==
  ASSUME RegInv, NEW r \in RegSlots, NEW pc \in RegSteps, StepReg(r, pc)
  PROVE  \E x \in RegRequest :
           /\ regReq' = [regReq EXCEPT ![r] = x]
           /\ x.pc = pc /\ x.code = regReq[r].code /\ x.copy = regReq[r].copy
<1>1. regReq[r] \in RegRequest
  BY DEF RegInv, RegTypeOK
<1>2. regReq' = [regReq EXCEPT ![r] = [regReq[r] EXCEPT !.pc = pc]]
  BY DEF StepReg, RegInv, RegTypeOK
<1>3. QED
  BY <1>1, <1>2, RegMoved

\* An answered request knows nothing.
LEMMA RegAnswered ==
  /\ NoRegRequest \in RegRequest
  /\ NoRegRequest.pc = "idle"
BY RegConstants DEF NoRegRequest, RegRequest, RegSteps, CodeOrNone

\* A write to Redis does what it should, or nothing and it shows.
LEMMA RedisWritten ==
  ASSUME RegInv, NEW code \in CodeOrNone, RedisSets(code)
  PROVE  /\ codeIn' \in [{"redis", "mongo"} -> CodeOrNone]
         /\ slipped' \in BOOLEAN /\ (~ slipped' => ~ slipped)
         /\ codeIn'["mongo"] = codeIn["mongo"]
         /\ ~ slipped' => codeIn'["redis"] = code
<1>1. CASE codeIn' = [codeIn EXCEPT !["redis"] = code] /\ UNCHANGED slipped
  BY <1>1 DEF RegInv, RegTypeOK
<1>2. CASE UNCHANGED codeIn /\ slipped' = TRUE
  BY <1>2 DEF RegInv, RegTypeOK
<1>3. QED
  BY <1>1, <1>2 DEF RedisSets

\* Without an account, RegInv holds.
THEOREM RegInitInv == RegInit => RegInv
<1> SUFFICES ASSUME RegInit PROVE RegInv
  OBVIOUS
<1>1. RegTypeOK
  <2>1. 0 \in CodeOrNone
    BY RegConstants DEF CodeOrNone
  <2>2. regReq \in [RegSlots -> RegRequest]
    BY RegAnswered DEF RegInit
  <2>3. codeIn \in [{"redis", "mongo"} -> CodeOrNone]
    BY <2>1 DEF RegInit
  <2>4. {issued, lastSent} \union outdated \union sent \subseteq CodeOrNone
    BY <2>1 DEF RegInit
  <2>5. account \in {"NONE", "UNVERIFIED", "VERIFIED"} /\ {hasSecurity, cooling, slipped} \subseteq BOOLEAN
    BY DEF RegInit
  <2>6. QED
    BY <2>2, <2>3, <2>4, <2>5 DEF RegTypeOK
<1>2. \A r \in RegSlots : regReq[r].pc = "idle"
  BY RegAnswered DEF RegInit
<1>3. QED
  BY <1>1, <1>2 DEF RegInit, RegInv, CodesInOrder, StoresInOrder, RegProgress

LEMMA RegIssueKeepsInv ==
  ASSUME RegInv, OneRegistration, NEW r \in RegSlots,
         \/ \E handler \in {"register", "create"} : CreateAccountDoc(r, handler)
         \/ ResendFind(r)
  PROVE  RegInv'
<1>1. PICK x \in RegRequest :
        /\ regReq' = [regReq EXCEPT ![r] = x]
        /\ x.pc \in {"security", "mongo"} /\ x.code = issued + 1
        /\ issued < MaxCodes /\ issued' = issued + 1
  <2> DEFINE request(h, pc) == [pc |-> pc, handler |-> h, code |-> issued + 1, copy |-> 0]
  <2>1. issued \in Nat
    BY RegConstants DEF RegInv, RegTypeOK, CodeOrNone
  <2>2. ASSUME issued < MaxCodes, NEW h \in {"register", "create", "resend"}, NEW pc \in RegSteps
        PROVE  request(h, pc) \in RegRequest
    BY <2>1, <2>2, RegConstants DEF RegRequest, CodeOrNone
  <2>3. CASE \E handler \in {"register", "create"} : CreateAccountDoc(r, handler)
    <3>1. PICK h \in {"register", "create"} : CreateAccountDoc(r, h)
      BY <2>3
    <3>2. request(h, "security") \in RegRequest
      BY <2>2, <3>1 DEF CreateAccountDoc, BeginReg, RegSteps
    <3>3. QED
      BY <3>1, <3>2 DEF CreateAccountDoc, BeginReg
  <2>4. CASE ResendFind(r)
    <3>1. request("resend", "mongo") \in RegRequest
      BY <2>2, <2>4 DEF ResendFind, BeginReg, RegSteps
    <3>2. QED
      BY <2>4, <3>1 DEF ResendFind, BeginReg
  <2>5. QED
    BY <2>3, <2>4
<1>2. /\ account' \in {"NONE", "UNVERIFIED", "VERIFIED"}
      /\ UNCHANGED <<codeIn, hasSecurity, cooling, outdated, sent, lastSent, slipped>>
  BY DEF CreateAccountDoc, ResendFind, RegInv, RegTypeOK
<1>3. issued \in Nat /\ issued' \in CodeOrNone /\ sent \subseteq Nat /\ lastSent \in Nat
  BY <1>1, RegConstants DEF RegInv, RegTypeOK, CodeOrNone
<1>4. CodesInOrder' /\ x.code \notin sent /\ x.code # 0
  BY <1>1, <1>2, <1>3 DEF RegInv, CodesInOrder
<1>5. StoresInOrder'
  BY <1>2 DEF RegInv, StoresInOrder
<1>6. RegProgress(x)'
  BY <1>1, <1>2, <1>4 DEF RegProgress
<1>7. QED
  BY <1>1, <1>2, <1>3, <1>4, <1>5, <1>6, RegMoves DEF RegInv, RegTypeOK

LEMMA RegStoreKeepsInv ==
  ASSUME RegInv, OneRegistration, NEW r \in RegSlots,
         CreateSecurity(r) \/ IssueCodeMongo(r) \/ IssueCodeRedis(r) \/ MailCode(r)
  PROVE  RegInv'
<1>1. PICK q \in RegRequest : q = regReq[r] /\ RegProgress(q)
  BY DEF RegInv, RegTypeOK
<1>2. q.code \in CodeOrNone
  BY DEF RegRequest
<1>3. codeIn["mongo"] \in CodeOrNone /\ codeIn["redis"] \in CodeOrNone
  BY DEF RegInv, RegTypeOK
<1>4. CASE CreateSecurity(r) /\ q.handler = "register"
  <2>1. PICK x \in RegRequest :
          regReq' = [regReq EXCEPT ![r] = x] /\ x.pc = "redis" /\ x.code = q.code
    BY <1>1, <1>4, RegProceeds DEF CreateSecurity, RegSteps
  <2>2. /\ q.pc = "security" /\ hasSecurity' = TRUE /\ cooling' = TRUE
        /\ codeIn' = [codeIn EXCEPT !["mongo"] = q.code]
        /\ UNCHANGED <<account, issued, outdated, sent, lastSent, slipped>>
    BY <1>1, <1>4 DEF CreateSecurity, RegAt
  <2>3. /\ codeIn' \in [{"redis", "mongo"} -> CodeOrNone]
        /\ codeIn'["mongo"] = q.code /\ codeIn'["redis"] = codeIn["redis"]
    BY <1>2, <2>2 DEF RegInv, RegTypeOK
  <2>4. CodesInOrder'
    BY <2>2 DEF RegInv, CodesInOrder
  <2>5. StoresInOrder'
    BY <1>1, <2>2, <2>3 DEF RegInv, StoresInOrder, RegProgress
  <2>6. RegProgress(x)'
    BY <1>1, <2>1, <2>2, <2>3 DEF RegProgress
  <2>7. QED
    BY <2>1, <2>2, <2>3, <2>4, <2>5, <2>6, RegMoves DEF RegInv, RegTypeOK
<1>5. CASE CreateSecurity(r) /\ q.handler # "register"
  <2>1. PICK x \in RegRequest :
          regReq' = [regReq EXCEPT ![r] = x] /\ x.pc = "mongo" /\ x.code = q.code
    BY <1>1, <1>5, RegProceeds DEF CreateSecurity, RegSteps
  <2>2. /\ q.pc = "security" /\ hasSecurity' = TRUE
        /\ UNCHANGED <<account, codeIn, cooling, issued, outdated, sent, lastSent, slipped>>
    BY <1>1, <1>5 DEF CreateSecurity, RegAt
  <2>3. CodesInOrder'
    BY <2>2 DEF RegInv, CodesInOrder
  <2>4. StoresInOrder'
    BY <2>2 DEF RegInv, StoresInOrder
  <2>5. RegProgress(x)'
    BY <1>1, <2>1, <2>2 DEF RegProgress
  <2>6. QED
    BY <2>1, <2>2, <2>3, <2>4, <2>5, RegMoves DEF RegInv, RegTypeOK
<1>6. CASE IssueCodeMongo(r)
  <2>1. PICK x \in RegRequest :
          regReq' = [regReq EXCEPT ![r] = x] /\ x.pc = "redis" /\ x.code = q.code
    BY <1>1, <1>6, RegProceeds DEF IssueCodeMongo, RegSteps
  <2>2. /\ q.pc = "mongo" /\ cooling' = hasSecurity
        /\ UNCHANGED <<account, hasSecurity, issued, outdated, sent, lastSent, slipped>>
    BY <1>1, <1>6 DEF IssueCodeMongo, RegAt
  <2>3. codeIn' = IF hasSecurity THEN [codeIn EXCEPT !["mongo"] = q.code] ELSE codeIn
    BY <1>1, <1>6 DEF IssueCodeMongo, MongoSets
  <2>4. /\ codeIn' \in [{"redis", "mongo"} -> CodeOrNone]
        /\ codeIn'["mongo"] = IF hasSecurity THEN q.code ELSE codeIn["mongo"]
        /\ codeIn'["redis"] = codeIn["redis"]
    BY <1>2, <2>3 DEF RegInv, RegTypeOK
  <2>5. CodesInOrder'
    BY <2>2 DEF RegInv, CodesInOrder
  <2>6. StoresInOrder'
    BY <1>1, <2>2, <2>4 DEF RegInv, StoresInOrder, RegProgress
  <2>7. RegProgress(x)'
    BY <1>1, <2>1, <2>2, <2>4 DEF RegProgress, RegInv, StoresInOrder
  <2>8. cooling' \in BOOLEAN
    BY <2>2 DEF RegInv, RegTypeOK
  <2>9. QED
    BY <2>1, <2>2, <2>4, <2>5, <2>6, <2>7, <2>8, RegMoves DEF RegInv, RegTypeOK
<1>7. CASE IssueCodeRedis(r)
  <2>1. PICK x \in RegRequest :
          regReq' = [regReq EXCEPT ![r] = x] /\ x.pc = "mail" /\ x.code = q.code
    BY <1>1, <1>7, RegProceeds DEF IssueCodeRedis, RegSteps
  <2>2. /\ q.pc = "redis"
        /\ UNCHANGED <<account, hasSecurity, cooling, issued, outdated, sent, lastSent>>
    BY <1>1, <1>7 DEF IssueCodeRedis, RegAt
  <2>3. RedisSets(q.code)
    BY <1>1, <1>7 DEF IssueCodeRedis
  <2>4. /\ codeIn' \in [{"redis", "mongo"} -> CodeOrNone]
        /\ slipped' \in BOOLEAN /\ (~ slipped' => ~ slipped)
        /\ codeIn'["mongo"] = codeIn["mongo"]
        /\ ~ slipped' => codeIn'["redis"] = q.code
    BY <1>2, <2>3, RedisWritten
  <2>5. CodesInOrder'
    BY <2>2 DEF RegInv, CodesInOrder
  <2>6. StoresInOrder'
    BY <1>1, <2>2, <2>4 DEF RegInv, StoresInOrder, RegProgress
  <2>7. RegProgress(x)'
    BY <1>1, <2>1, <2>2, <2>4 DEF RegProgress
  <2>8. QED
    BY <2>1, <2>2, <2>4, <2>5, <2>6, <2>7, RegMoves DEF RegInv, RegTypeOK
<1>8. CASE MailCode(r)
  <2>1. /\ q.pc = "mail" /\ sent' = sent \union {q.code} /\ lastSent' = q.code
        /\ regReq' = [regReq EXCEPT ![r] = NoRegRequest]
        /\ UNCHANGED <<account, codeIn, hasSecurity, cooling, issued, outdated, slipped>>
    BY <1>1, <1>8 DEF MailCode, RegAt, AnswerReg
  <2>2. issued \in Nat /\ q.code = issued /\ q.code # 0
    BY <1>1, <2>1, RegConstants DEF RegInv, RegTypeOK, CodeOrNone, RegProgress
  <2>3. CodesInOrder'
    BY <2>1, <2>2 DEF RegInv, CodesInOrder
  <2>4. StoresInOrder'
    <3>1. 0 \notin sent'
      BY <2>1, <2>2, <2>3 DEF CodesInOrder
    <3>2. ~ slipped' => codeIn'["mongo"] \in {0, q.code} /\ codeIn'["redis"] \in {0, q.code}
      BY <1>1, <2>1 DEF RegProgress
    <3>3. QED
      BY <2>1, <3>1, <3>2 DEF RegInv, StoresInOrder
  <2>5. RegProgress(NoRegRequest)'
    BY RegAnswered DEF RegProgress
  <2>6. {issued', lastSent'} \union outdated' \union sent' \subseteq CodeOrNone
    BY <1>2, <2>1 DEF RegInv, RegTypeOK
  <2>7. QED
    BY <2>1, <2>3, <2>4, <2>5, <2>6, RegAnswered, RegMoves DEF RegInv, RegTypeOK
<1>9. QED
  BY <1>1, <1>4, <1>5, <1>6, <1>7, <1>8

\* A request of verifyEmail that goes on and has changed no code.
LEMMA RegVerifyKeepsInv ==
  ASSUME RegInv, OneRegistration, NEW r \in RegSlots,
         (\E code \in sent : VerifyFind(r, code)) \/ AuthorizeCode(r) \/ MarkVerified(r) \/ CrashReg(r)
  PROVE  RegInv'
<1>1. PICK q \in RegRequest : q = regReq[r] /\ RegProgress(q)
  BY DEF RegInv, RegTypeOK
<1>2. /\ account' \in {"NONE", "UNVERIFIED", "VERIFIED"}
      /\ UNCHANGED <<codeIn, hasSecurity, cooling, issued, outdated, sent, lastSent, slipped>>
  BY DEF VerifyFind, AuthorizeCode, MarkVerified, CrashReg, RegInv, RegTypeOK
<1>3. CodesInOrder' /\ StoresInOrder'
  BY <1>2 DEF RegInv, CodesInOrder, StoresInOrder
<1>4. ASSUME NEW x \in RegRequest, regReq' = [regReq EXCEPT ![r] = x], RegProgress(x)
      PROVE  RegInv'
  <2>1. RegProgress(x)'
    BY <1>2, <1>4 DEF RegProgress
  <2>2. QED
    BY <1>2, <1>3, <1>4, <2>1, RegMoves DEF RegInv, RegTypeOK
<1>5. CASE \E code \in sent : VerifyFind(r, code)
  <2>1. PICK code \in sent : VerifyFind(r, code)
    BY <1>5
  <2>2. PICK x :
          /\ x = [pc |-> IF account = "VERIFIED" THEN "clearRedis" ELSE "authorize",
                  handler |-> "verify", code |-> code, copy |-> codeIn["mongo"]]
          /\ regReq' = [regReq EXCEPT ![r] = x]
    BY <2>1 DEF VerifyFind
  <2>3. code \in CodeOrNone /\ codeIn["mongo"] \in CodeOrNone
    BY DEF RegInv, RegTypeOK
  <2>4. x \in RegRequest
    BY <2>2, <2>3 DEF RegRequest, RegSteps
  <2>5. RegProgress(x)
    BY <2>2 DEF RegProgress, RegInv, StoresInOrder
  <2>6. QED
    BY <1>4, <2>2, <2>4, <2>5
<1>6. ASSUME AnswerReg(r)
      PROVE  RegInv'
  <2>1. RegProgress(NoRegRequest)
    BY RegAnswered DEF RegProgress
  <2>2. QED
    BY <1>4, <1>6, <2>1, RegAnswered DEF AnswerReg
<1>7. CASE AuthorizeCode(r)
  <2>1. q.pc = "authorize"
    BY <1>1, <1>7 DEF AuthorizeCode, RegAt
  <2>2. PICK record \in {codeIn["redis"], q.copy} : JudgeCode(r, record, TRUE) \/ JudgeCode(r, record, FALSE)
    BY <1>1, <1>7 DEF AuthorizeCode
  <2>3. CASE StepReg(r, "verify") /\ record = q.code
    <3>1. PICK x \in RegRequest :
            regReq' = [regReq EXCEPT ![r] = x] /\ x.pc = "verify" /\ x.code = q.code
      BY <1>1, <2>3, RegProceeds DEF RegSteps
    <3>2. ~ slipped => q.code = lastSent
      BY <1>1, <2>1, <2>2, <2>3 DEF RegProgress, RegInv, StoresInOrder
    <3>3. RegProgress(x)
      BY <3>1, <3>2 DEF RegProgress
    <3>4. QED
      BY <1>4, <3>1, <3>3
  <2>4. CASE StepReg(r, "delExpired")
    <3>1. PICK x \in RegRequest : regReq' = [regReq EXCEPT ![r] = x] /\ x.pc = "delExpired"
      BY <2>4, RegProceeds DEF RegSteps
    <3>2. RegProgress(x)
      BY <3>1 DEF RegProgress
    <3>3. QED
      BY <1>4, <3>1, <3>2
  <2>5. QED
    BY <1>1, <1>6, <2>2, <2>3, <2>4 DEF JudgeCode
<1>8. CASE MarkVerified(r)
  <2>1. PICK x \in RegRequest : regReq' = [regReq EXCEPT ![r] = x] /\ x.pc = "clearRedis"
    BY <1>8, RegProceeds DEF MarkVerified, RegSteps
  <2>2. RegProgress(x)
    BY <2>1 DEF RegProgress
  <2>3. QED
    BY <1>4, <2>1, <2>2
<1>9. CASE CrashReg(r)
  BY <1>6, <1>9 DEF CrashReg
<1>10. QED
  BY <1>5, <1>7, <1>8, <1>9

\* Clearing the records of a code.
LEMMA RegClearKeepsInv ==
  ASSUME RegInv, OneRegistration, NEW r \in RegSlots,
         DeleteExpiredCode(r) \/ ClearCodeRedis(r) \/ ClearCodeMongo(r)
  PROVE  RegInv'
<1>1. 0 \in CodeOrNone
  BY RegConstants DEF CodeOrNone
<1>2. PICK x \in RegRequest :
        regReq' = [regReq EXCEPT ![r] = x] /\ x.pc \in {"idle", "clearMongo"}
  <2>1. CASE DeleteExpiredCode(r) \/ ClearCodeMongo(r)
    BY <2>1, RegAnswered DEF DeleteExpiredCode, ClearCodeMongo, AnswerReg
  <2>2. CASE ClearCodeRedis(r)
    BY <2>2, RegProceeds DEF ClearCodeRedis, RegSteps
  <2>3. QED
    BY <2>1, <2>2
<1>3. UNCHANGED <<account, hasSecurity, cooling, issued, outdated, sent, lastSent>>
  BY DEF DeleteExpiredCode, ClearCodeRedis, ClearCodeMongo
<1>4. /\ codeIn' \in [{"redis", "mongo"} -> CodeOrNone]
      /\ slipped' \in BOOLEAN /\ (~ slipped' => ~ slipped)
      /\ codeIn'["mongo"] \in {0, codeIn["mongo"]}
      /\ ~ slipped' => codeIn'["redis"] \in {0, codeIn["redis"]}
  <2>1. CASE RedisSets(0)
    BY <1>1, <2>1, RedisWritten
  <2>2. CASE MongoSets(0) /\ UNCHANGED slipped
    BY <1>1, <2>2 DEF MongoSets, RegInv, RegTypeOK
  <2>3. QED
    BY <2>1, <2>2 DEF DeleteExpiredCode, ClearCodeRedis, ClearCodeMongo
<1>5. CodesInOrder'
  BY <1>3 DEF RegInv, CodesInOrder
<1>6. StoresInOrder'
  <2>1. 0 \notin sent
    BY DEF RegInv, CodesInOrder
  <2>2. QED
    BY <1>3, <1>4, <2>1 DEF RegInv, StoresInOrder
<1>7. RegProgress(x)'
  BY <1>2 DEF RegProgress
<1>8. QED
  BY <1>2, <1>3, <1>4, <1>5, <1>6, <1>7, RegMoves DEF RegInv, RegTypeOK

\* Time passes, and Redis forgets.
LEMMA RegClockKeepsInv ==
  ASSUME RegInv, (\E code \in 1 .. MaxCodes : CodeExpires(code)) \/ LoseCode \/ CoolDown
  PROVE  RegInv'
<1>1. /\ UNCHANGED <<account, hasSecurity, issued, sent, lastSent, regReq, slipped>>
      /\ codeIn' = codeIn \/ codeIn' = [codeIn EXCEPT !["redis"] = 0]
      /\ cooling' \in {cooling, FALSE}
      /\ outdated' = outdated \/ \E code \in 1 .. MaxCodes : outdated' = outdated \union {code}
  BY DEF CodeExpires, LoseCode, CoolDown
<1>2. 0 \in CodeOrNone /\ 1 .. MaxCodes \subseteq CodeOrNone
  BY RegConstants DEF CodeOrNone
<1>3. /\ codeIn' \in [{"redis", "mongo"} -> CodeOrNone]
      /\ codeIn'["mongo"] = codeIn["mongo"]
      /\ codeIn'["redis"] \in {0, codeIn["redis"]}
  BY <1>1, <1>2 DEF RegInv, RegTypeOK
<1>4. RegTypeOK'
  BY <1>1, <1>2, <1>3 DEF RegInv, RegTypeOK
<1>5. CodesInOrder'
  BY <1>1 DEF RegInv, CodesInOrder
<1>6. StoresInOrder'
  <2>1. 0 \notin sent
    BY DEF RegInv, CodesInOrder
  <2>2. QED
    BY <1>1, <1>3, <2>1 DEF RegInv, StoresInOrder
<1>7. ASSUME NEW r \in RegSlots
      PROVE  RegProgress(regReq[r])'
  BY <1>1, <1>3 DEF RegInv, RegProgress
<1>8. QED
  BY <1>4, <1>5, <1>6, <1>7 DEF RegInv

\* If requests are served one at a time, every step of the registration and the
\* clock keeps RegInv.
THEOREM RegNextKeepsInv ==
  ASSUME OneRegistration
  PROVE  RegInv /\ [RegNext]_regVars => RegInv'
<1> SUFFICES ASSUME RegInv, [RegNext]_regVars PROVE RegInv'
  OBVIOUS
<1>1. CASE UNCHANGED regVars
  BY <1>1 DEF regVars, RegInv, RegTypeOK, CodesInOrder, StoresInOrder, RegProgress
<1>2. QED
  BY <1>1, RegIssueKeepsInv, RegStoreKeepsInv, RegVerifyKeepsInv, RegClearKeepsInv, RegClockKeepsInv
     DEF RegNext

\* If requests are served one at a time, RegInv always holds.
THEOREM RegInvariance ==
  ASSUME OneRegistration
  PROVE  RegSpec => []RegInv
<1>1. QED
  BY RegInitInv, RegNextKeepsInv, PTL DEF RegSpec

\* If requests are served one at a time, an account is verified by the code that
\* was mailed last, in whichever store it was found, until Redis fails to write.
THEOREM VerifiedLatest ==
  ASSUME OneRegistration
  PROVE  RegSpec => []VerifiedByLatest
<1>1. RegInv => VerifiedByLatest
  BY DEF RegInv, VerifiedByLatest, RegProgress, RegAt
<1>2. QED
  BY <1>1, RegInvariance, PTL

\* However many requests are served at a time, a step leaves everything of its type.
LEMMA RegTypeKept ==
  ASSUME RegTypeOK, [RegNext]_regVars
  PROVE  RegTypeOK'
<1> DEFINE Stored == [{"redis", "mongo"} -> CodeOrNone]
           Asked == [RegSlots -> RegRequest]
<1>1. /\ 0 \in CodeOrNone /\ 1 .. MaxCodes \subseteq CodeOrNone
      /\ issued \in CodeOrNone /\ (issued < MaxCodes => issued + 1 \in CodeOrNone)
  BY RegConstants DEF CodeOrNone, RegTypeOK
<1>2. /\ account \in {"NONE", "UNVERIFIED", "VERIFIED"} /\ codeIn \in Stored /\ regReq \in Asked
      /\ {hasSecurity, cooling, slipped} \subseteq BOOLEAN
      /\ {issued, lastSent} \union outdated \union sent \subseteq CodeOrNone
  BY DEF RegTypeOK
<1>3. ASSUME NEW r \in RegSlots, NEW pc \in RegSteps, StepReg(r, pc)
      PROVE  regReq' \in Asked
  <2>1. regReq' = [regReq EXCEPT ![r] = [regReq[r] EXCEPT !.pc = pc]]
    BY <1>2, <1>3 DEF StepReg
  <2>2. QED
    BY <1>2, <2>1, RegMoved
<1>4. ASSUME NEW r \in RegSlots, AnswerReg(r)
      PROVE  regReq' \in Asked
  BY <1>2, <1>4, RegAnswered DEF AnswerReg
<1>5. ASSUME NEW r \in RegSlots, NEW h \in {"register", "create", "resend"}, NEW pc \in RegSteps,
             BeginReg(r, h, pc)
      PROVE  regReq' \in Asked /\ issued' \in CodeOrNone
  <2>1. PICK x : /\ x = [pc |-> pc, handler |-> h, code |-> issued + 1, copy |-> 0]
                 /\ regReq' = [regReq EXCEPT ![r] = x]
    BY <1>5 DEF BeginReg
  <2>2. x \in RegRequest
    BY <1>1, <1>5, <2>1 DEF RegRequest, BeginReg
  <2>3. QED
    BY <1>1, <1>2, <1>5, <2>1, <2>2 DEF BeginReg
<1>6. ASSUME NEW code \in CodeOrNone, RedisSets(code)
      PROVE  codeIn' \in Stored /\ slipped' \in BOOLEAN
  <2>1. CASE codeIn' = [codeIn EXCEPT !["redis"] = code] /\ UNCHANGED slipped
    BY <1>2, <2>1
  <2>2. CASE UNCHANGED codeIn /\ slipped' = TRUE
    BY <1>2, <2>2
  <2>3. QED
    BY <1>6, <2>1, <2>2 DEF RedisSets
<1>7. ASSUME NEW code \in CodeOrNone, MongoSets(code)
      PROVE  codeIn' \in Stored
  BY <1>2, <1>7 DEF MongoSets
<1> HIDE DEF Stored, Asked
<1>8. ASSUME NEW r \in RegSlots
      PROVE  regReq[r].code \in CodeOrNone
  BY <1>2 DEF Asked, RegRequest
<1>9. ASSUME account' \in {"NONE", "UNVERIFIED", "VERIFIED"}, codeIn' \in Stored, regReq' \in Asked,
             hasSecurity' \in BOOLEAN, cooling' \in BOOLEAN, slipped' \in BOOLEAN,
             issued' \in CodeOrNone, lastSent' \in CodeOrNone,
             outdated' \subseteq CodeOrNone, sent' \subseteq CodeOrNone
      PROVE  RegTypeOK'
  BY <1>9 DEF RegTypeOK, Stored, Asked
<1>10. /\ hasSecurity \in BOOLEAN /\ cooling \in BOOLEAN /\ slipped \in BOOLEAN
       /\ issued \in CodeOrNone /\ lastSent \in CodeOrNone
       /\ outdated \subseteq CodeOrNone /\ sent \subseteq CodeOrNone
  BY <1>2
<1>11. CASE UNCHANGED regVars
  BY <1>2, <1>9, <1>10, <1>11 DEF regVars
<1>12. ASSUME NEW r \in RegSlots,
              (\E h \in {"register", "create"} : CreateAccountDoc(r, h)) \/ ResendFind(r)
       PROVE  RegTypeOK'
  BY <1>2, <1>5, <1>9, <1>10, <1>12 DEF CreateAccountDoc, ResendFind, RegSteps
<1>13. ASSUME NEW r \in RegSlots, CreateSecurity(r)
       PROVE  RegTypeOK'
  <2>1. codeIn' \in Stored
    BY <1>2, <1>8, <1>13 DEF CreateSecurity, Stored
  <2>2. regReq' \in Asked
    BY <1>3, <1>13 DEF CreateSecurity, RegSteps
  <2>3. cooling' \in BOOLEAN
    BY <1>10, <1>13 DEF CreateSecurity
  <2>4. QED
    BY <1>2, <1>9, <1>10, <1>13, <2>1, <2>2, <2>3 DEF CreateSecurity
<1>14. ASSUME NEW r \in RegSlots, IssueCodeMongo(r) \/ IssueCodeRedis(r) \/ MailCode(r)
       PROVE  RegTypeOK'
  <2>1. codeIn' \in Stored /\ slipped' \in BOOLEAN
    BY <1>2, <1>6, <1>7, <1>8, <1>10, <1>14 DEF IssueCodeMongo, IssueCodeRedis, MailCode
  <2>2. regReq' \in Asked
    BY <1>3, <1>4, <1>14 DEF IssueCodeMongo, IssueCodeRedis, MailCode, RegSteps
  <2>3. lastSent' \in CodeOrNone /\ sent' \subseteq CodeOrNone
    BY <1>8, <1>10, <1>14 DEF IssueCodeMongo, IssueCodeRedis, MailCode
  <2>4. cooling' \in BOOLEAN
    BY <1>10, <1>14 DEF IssueCodeMongo, IssueCodeRedis, MailCode
  <2>5. QED
    BY <1>2, <1>9, <1>10, <1>14, <2>1, <2>2, <2>3, <2>4 DEF IssueCodeMongo, IssueCodeRedis, MailCode
<1>15. ASSUME NEW r \in RegSlots, NEW code \in sent, VerifyFind(r, code)
       PROVE  RegTypeOK'
  <2>1. PICK x :
          /\ x = [pc |-> IF account = "VERIFIED" THEN "clearRedis" ELSE "authorize",
                  handler |-> "verify", code |-> code, copy |-> codeIn["mongo"]]
          /\ regReq' = [regReq EXCEPT ![r] = x]
    BY <1>15 DEF VerifyFind
  <2>2. code \in CodeOrNone /\ codeIn["mongo"] \in CodeOrNone
    BY <1>2 DEF Stored
  <2>3. x \in RegRequest
    BY <2>1, <2>2 DEF RegRequest, RegSteps
  <2>4. regReq' \in Asked
    BY <1>2, <2>1, <2>3 DEF Asked
  <2>5. QED
    BY <1>2, <1>9, <1>10, <1>15, <2>4 DEF VerifyFind
<1>16. ASSUME NEW r \in RegSlots, AuthorizeCode(r)
       PROVE  RegTypeOK'
  <2>1. regReq' \in Asked
    BY <1>3, <1>4, <1>16 DEF AuthorizeCode, JudgeCode, RegSteps
  <2>2. QED
    BY <1>2, <1>9, <1>10, <1>16, <2>1 DEF AuthorizeCode
<1>17. ASSUME NEW r \in RegSlots,
              \/ DeleteExpiredCode(r) \/ MarkVerified(r) \/ ClearCodeRedis(r) \/ ClearCodeMongo(r)
              \/ CrashReg(r)
       PROVE  RegTypeOK'
  <2>1. codeIn' \in Stored /\ slipped' \in BOOLEAN
    BY <1>1, <1>2, <1>6, <1>7, <1>10, <1>17
    DEF DeleteExpiredCode, MarkVerified, ClearCodeRedis, ClearCodeMongo, CrashReg
  <2>2. regReq' \in Asked
    BY <1>3, <1>4, <1>17
    DEF DeleteExpiredCode, MarkVerified, ClearCodeRedis, ClearCodeMongo, CrashReg, RegSteps
  <2>3. QED
    BY <1>2, <1>9, <1>10, <1>17, <2>1, <2>2
    DEF DeleteExpiredCode, MarkVerified, ClearCodeRedis, ClearCodeMongo, CrashReg
<1>18. CASE (\E code \in 1 .. MaxCodes : CodeExpires(code)) \/ LoseCode \/ CoolDown
  <2>1. codeIn' \in Stored
    BY <1>1, <1>2, <1>18 DEF CodeExpires, LoseCode, CoolDown, Stored
  <2>2. outdated' \subseteq CodeOrNone
    BY <1>1, <1>10, <1>18 DEF CodeExpires, LoseCode, CoolDown
  <2>3. QED
    BY <1>2, <1>9, <1>10, <1>18, <2>1, <2>2 DEF CodeExpires, LoseCode, CoolDown
<1>19. QED
  BY <1>11, <1>12, <1>13, <1>14, <1>15, <1>16, <1>17, <1>18 DEF RegNext

\* The account, its codes and the requests in flight always have their types,
\* however many requests there are.
THEOREM RegTypeCorrect == RegSpec => []RegTypeOK
<1>1. RegInit => RegTypeOK
  BY RegInitInv DEF RegInv
<1>2. QED
  BY <1>1, RegTypeKept, PTL DEF RegSpec
-------------------------------------------------------------------------------
(* The photographs of team members.                                        *)

LEMMA HrRequests ==
  /\ NoHrRequest \in HrRequest
  /\ NoHrRequest.pc = "idle" /\ NoHrRequest.old = None /\ NoHrRequest.image = None
  /\ NoHrRequest.member = None /\ NoHrRequest.linked = None
  /\ \A q \in HrRequest, pc \in Steps \union {"idle"} :
       /\ [q EXCEPT !.pc = pc] \in HrRequest
       /\ [q EXCEPT !.pc = pc].pc = pc /\ [q EXCEPT !.pc = pc].old = q.old
       /\ [q EXCEPT !.pc = pc].image = q.image /\ [q EXCEPT !.pc = pc].member = q.member
       /\ [q EXCEPT !.pc = pc].email = q.email /\ [q EXCEPT !.pc = pc].photo = q.photo
       /\ [q EXCEPT !.pc = pc].linked = q.linked
BY DEF NoHrRequest, HrRequest

LEMMA HrMembers ==
  /\ NoMember \notin Member /\ GoneMember \notin Member
  /\ \A x \in Member :
       x.stored \in Images \union {None} /\ x.photo \in Images \union {None, Avatar} /\ x.undone \in BOOLEAN
<1>1. \A x \in Member : x.email \in Emails
  BY DEF Member
<1>2. NoMember.email = None /\ GoneMember.email = None /\ None \notin Emails
  BY HrConstants DEF NoMember, GoneMember
<1>3. QED
  BY <1>1, <1>2 DEF Member

LEMMA HrMemberTyped ==
  ASSUME PhotoInv, NEW m \in MemberIds
  PROVE  IsMember(m) <=> members[m] \in Member
BY HrMembers DEF PhotoInv, IsMember

\* A step of one request that touches no member and no image.
LEMMA HrMoves ==
  ASSUME PhotoInv, NEW r \in HrSlots, NEW x \in HrRequest,
         hrReq' = [hrReq EXCEPT ![r] = x], UNCHANGED <<members, photos>>,
         HrProgress(x),
         x.image \in {None, hrReq[r].image},
         x.pc \in {"insert", "write"} => x.image = None,
         x.old # None =>
           /\ \A m \in MemberIds : Stores(m, x.old) => m = x.member /\ x.pc \in {"upload", "write", "delete"}
           /\ \A q \in HrSlots : hrReq[q].pc \in {"insert", "write"} => hrReq[q].image # x.old
  PROVE  PhotoInv'
<1>1. hrReq'[r] = x /\ \A q \in HrSlots \ {r} : hrReq'[q] = hrReq[q]
  BY DEF PhotoInv
<1>2. hrReq' \in [HrSlots -> HrRequest] /\ \A q \in HrSlots : HrProgress(hrReq'[q])
  BY <1>1 DEF PhotoInv
<1>3. \A m \in MemberIds : \A i : Stores(m, i)' <=> Stores(m, i)
  BY DEF Stores, IsMember
<1>4. PendingOwn'
  BY <1>1, <1>3 DEF PhotoInv, PendingOwn
<1>5. OldOwn'
  BY <1>1, <1>3 DEF PhotoInv, OldOwn
<1>6. PhotosOwn' /\ PhotosShown'
  BY DEF PhotoInv, PhotosOwn, PhotosShown, Stores, IsMember
<1>7. QED
  BY <1>2, <1>4, <1>5, <1>6 DEF PhotoInv, HrProgress

\* Requests that are answered, whatever they were about.
LEMMA HrEnds ==
  ASSUME PhotoInv, UNCHANGED <<members, photos>>,
         hrReq' \in [HrSlots -> HrRequest],
         \A q \in HrSlots : hrReq'[q] \in {hrReq[q], NoHrRequest}
  PROVE  PhotoInv'
<1>1. \A m \in MemberIds : \A i : Stores(m, i)' <=> Stores(m, i)
  BY DEF Stores, IsMember
<1>2. \A q \in HrSlots : HrProgress(hrReq'[q])
  BY HrRequests DEF PhotoInv, HrProgress
<1>3. PendingOwn'
  BY <1>1, HrRequests DEF PhotoInv, PendingOwn
<1>4. OldOwn'
  BY <1>1, HrRequests DEF PhotoInv, OldOwn
<1>5. PhotosOwn' /\ PhotosShown'
  BY DEF PhotoInv, PhotosOwn, PhotosShown, Stores, IsMember
<1>6. QED
  BY <1>2, <1>3, <1>4, <1>5 DEF PhotoInv, HrProgress

LEMMA HrAnswered ==
  ASSUME PhotoInv, NEW r \in HrSlots, UNCHANGED <<members, photos>>, AnswerHr(r)
  PROVE  PhotoInv'
<1>1. hrReq' \in [HrSlots -> HrRequest] /\ \A q \in HrSlots : hrReq'[q] \in {hrReq[q], NoHrRequest}
  BY HrRequests DEF AnswerHr, PhotoInv
<1>2. QED
  BY <1>1, HrEnds

LEMMA HrFailed ==
  ASSUME PhotoInv, NEW r \in HrSlots, UNCHANGED <<members, photos>>, FailHr(r)
  PROVE  PhotoInv'
<1>1. CASE hrReq[r].image = None
  BY <1>1, HrAnswered DEF FailHr, AnswerHr
<1>2. CASE hrReq[r].image # None
  <2>1. PICK x : x = [NoHrRequest EXCEPT !.pc = "discard", !.image = hrReq[r].image]
    OBVIOUS
  <2>2. /\ x \in HrRequest /\ x.pc = "discard" /\ x.image = hrReq[r].image
        /\ x.old = None /\ x.member = None /\ x.linked = None
    BY <2>1 DEF NoHrRequest, HrRequest, Steps, PhotoInv
  <2>3. HrProgress(x)
    BY <2>2 DEF HrProgress
  <2>4. hrReq' = [hrReq EXCEPT ![r] = x]
    BY <1>2, <2>1 DEF FailHr
  <2>5. QED
    BY <2>2, <2>3, <2>4, HrMoves
<1>3. QED
  BY <1>1, <1>2

\* A step to another call.
LEMMA HrProceeds ==
  ASSUME PhotoInv, NEW r \in HrSlots, NEW pc \in Steps, UNCHANGED <<members, photos>>, StepHr(r, pc),
         hrReq[r].pc \notin {"insert", "write"},
         hrReq[r].old = None,
         pc # "upload",
         pc \notin {"removeOld", "discard"} => hrReq[r].member # None,
         pc \in {"insert", "findAccount", "createAccount"} => hrReq[r].email # None,
         pc \in {"findLinked", "findConflict", "checkEmail", "findPhoto", "insert", "write"} =>
           hrReq[r].image = None,
         pc = "write" => ~ hrReq[r].photo,
         pc = "findPhoto" => hrReq[r].photo,
         pc = "findLinked" => hrReq[r].email # None,
         pc = "moveAccount" => hrReq[r].linked # None
  PROVE  PhotoInv'
<1>1. PICK x \in HrRequest :
        /\ hrReq' = [hrReq EXCEPT ![r] = x]
        /\ x.pc = pc /\ x.old = hrReq[r].old /\ x.image = hrReq[r].image
        /\ x.member = hrReq[r].member /\ x.email = hrReq[r].email /\ x.photo = hrReq[r].photo
        /\ x.linked = hrReq[r].linked
  <2>1. hrReq' = [hrReq EXCEPT ![r] = [hrReq[r] EXCEPT !.pc = pc]]
    BY DEF StepHr, PhotoInv
  <2>2. hrReq[r] \in HrRequest
    BY DEF PhotoInv
  <2>3. PICK x : x = [hrReq[r] EXCEPT !.pc = pc]
    OBVIOUS
  <2>4. /\ x \in HrRequest /\ x.pc = pc /\ x.old = hrReq[r].old /\ x.image = hrReq[r].image
        /\ x.member = hrReq[r].member /\ x.email = hrReq[r].email /\ x.photo = hrReq[r].photo
        /\ x.linked = hrReq[r].linked
    BY <2>2, <2>3, HrRequests
  <2>5. QED
    BY <2>1, <2>3, <2>4
<1>2. HrProgress(x)
  BY <1>1 DEF PhotoInv, HrProgress
<1>3. QED
  BY <1>1, <1>2, HrMoves

LEMMA HrBeginKeepsInv ==
  ASSUME PhotoInv, NEW r \in HrSlots,
         \/ \E email \in Emails, photo, wants \in BOOLEAN : CreateMemberFind(r, email, photo, wants)
         \/ \E m \in MemberIds : RemoveMemberFind(r, m)
         \/ \E m \in MemberIds, email \in Emails \union {None}, photo \in BOOLEAN :
              UpdateMemberFind(r, m, email, photo)
  PROVE  PhotoInv'
<1>1. UNCHANGED <<members, photos>>
  BY DEF CreateMemberFind, RemoveMemberFind, UpdateMemberFind, BeginHr
<1>2. ASSUME NEW x \in HrRequest, hrReq' = [hrReq EXCEPT ![r] = x], HrProgress(x),
             x.image = None, x.old = None
      PROVE  PhotoInv'
  BY <1>1, <1>2, HrMoves
<1>3. ASSUME NEW email \in Emails, NEW photo \in BOOLEAN, NEW wants \in BOOLEAN,
             CreateMemberFind(r, email, photo, wants)
      PROVE  PhotoInv'
  <2>1. PICK x : x = [NoHrRequest EXCEPT !.pc = IF photo THEN "upload" ELSE "insert",
                                         !.email = email, !.wants = wants]
    OBVIOUS
  <2>2. /\ x \in HrRequest /\ x.pc \in {"upload", "insert"} /\ x.email = email
        /\ x.old = None /\ x.image = None /\ x.member = None /\ x.linked = None
    BY <2>1 DEF NoHrRequest, HrRequest, Steps
  <2>3. HrProgress(x)
    BY <2>2, HrConstants DEF HrProgress
  <2>4. QED
    BY <1>2, <1>3, <2>1, <2>2, <2>3 DEF CreateMemberFind, BeginHr
<1>4. ASSUME NEW m \in MemberIds, NEW email \in Emails \union {None}, NEW photo \in BOOLEAN,
             UpdateMemberFind(r, m, email, photo)
      PROVE  PhotoInv'
  <2>1. members[m].email \in Emails
    BY <1>4, HrMemberTyped DEF UpdateMemberFind, Member
  <2>2. PICK x : x = [NoHrRequest EXCEPT
       !.member = m, !.email = email, !.before = members[m].email, !.photo = photo,
       !.pc = CASE email = None -> IF photo THEN "findPhoto" ELSE "write"
                [] email = members[m].email -> "checkEmail"
                [] OTHER -> "findLinked"]
    OBVIOUS
  <2>3. /\ x \in HrRequest /\ x.pc \in {"findPhoto", "write", "checkEmail", "findLinked"}
        /\ x.old = None /\ x.image = None /\ x.member = m /\ x.photo = photo
        /\ x.pc = "write" => ~ photo
        /\ x.pc = "findPhoto" => photo
        /\ x.linked = None /\ (x.pc = "findLinked" => x.email # None)
    BY <2>1, <2>2 DEF NoHrRequest, HrRequest, Steps
  <2>4. HrProgress(x)
    BY <2>3, HrConstants DEF HrProgress
  <2>5. QED
    BY <1>2, <1>4, <2>2, <2>3, <2>4 DEF UpdateMemberFind, BeginHr
<1>5. ASSUME NEW m \in MemberIds, RemoveMemberFind(r, m)
      PROVE  PhotoInv'
  <2>1. IsMember(m) /\ members[m].stored \in Images \union {None}
    BY <1>5, HrMemberTyped, HrMembers DEF RemoveMemberFind
  <2>2. PICK x : x = [NoHrRequest EXCEPT !.pc = "delete", !.member = m, !.old = members[m].stored]
    OBVIOUS
  <2>3. /\ x \in HrRequest /\ x.pc = "delete" /\ x.member = m
        /\ x.old = members[m].stored /\ x.image = None /\ x.linked = None
    BY <2>1, <2>2 DEF NoHrRequest, HrRequest, Steps
  <2>4. HrProgress(x)
    BY <2>3, HrConstants DEF HrProgress
  <2>5. hrReq' = [hrReq EXCEPT ![r] = x]
    BY <1>5, <2>2 DEF RemoveMemberFind, BeginHr
  <2>6. x.old # None =>
          /\ \A n \in MemberIds : Stores(n, x.old) => n = m
          /\ \A q \in HrSlots : hrReq[q].pc \in {"insert", "write"} => hrReq[q].image # x.old
    BY <2>1, <2>3 DEF PhotoInv, PhotosOwn, PendingOwn, Stores
  <2>7. QED
    BY <1>1, <2>3, <2>4, <2>5, <2>6, HrMoves
<1>6. QED
  BY <1>3, <1>4, <1>5

\* The calls of a request that only read, and the writes of accounts.
LEMMA HrReadKeepsInv ==
  ASSUME PhotoInv, NEW r \in HrSlots,
         FindAccount(r) \/ FindConflict(r) \/ CheckEmail(r) \/ CreateAccount(r)
  PROVE  PhotoInv'
<1>1. UNCHANGED <<members, photos>>
  BY DEF FindAccount, FindConflict, CheckEmail, CreateAccount, ReadHr
<1>2. HrProgress(hrReq[r])
  BY DEF PhotoInv
<1>3. CASE AnswerHr(r)
  BY <1>1, <1>3, HrAnswered
<1>4. CASE FailHr(r)
  BY <1>1, <1>4, HrFailed
<1>5. CASE FindAccount(r) /\ StepHr(r, "createAccount")
  BY <1>1, <1>2, <1>5, HrProceeds DEF FindAccount, ReadHr, HrAt, HrProgress, Steps
<1>6. CASE FindConflict(r) /\ StepHr(r, "checkEmail")
  BY <1>1, <1>2, <1>6, HrProceeds DEF FindConflict, ReadHr, HrAt, HrProgress, Steps
<1>7. CASE CheckEmail(r) /\ hrReq[r].photo /\ StepHr(r, "findPhoto")
  BY <1>1, <1>2, <1>7, HrProceeds DEF CheckEmail, ReadHr, HrAt, HrProgress, Steps
<1>8. CASE CheckEmail(r) /\ ~ hrReq[r].photo /\ StepHr(r, "write")
  BY <1>1, <1>2, <1>8, HrProceeds DEF CheckEmail, ReadHr, HrAt, HrProgress, Steps
<1>9. QED
  BY <1>3, <1>4, <1>5, <1>6, <1>7, <1>8 DEF FindAccount, FindConflict, CheckEmail, CreateAccount

LEMMA FindLinkedKeepsInv ==
  ASSUME PhotoInv, NEW r \in HrSlots, FindLinked(r)
  PROVE  PhotoInv'
<1>1. PICK found : found = AccountWith(hrReq[r].before)
  OBVIOUS
<1>2. PICK a : a = IF found = {} THEN None ELSE CHOOSE b \in found : TRUE
  OBVIOUS
<1>3. a \in AccountIds \union {None}
  BY <1>1, <1>2 DEF AccountWith
<1>4. PICK pc \in {"checkEmail", "findConflict"} : pc = IF found = {} THEN "checkEmail" ELSE "findConflict"
  OBVIOUS
<1>5. hrReq[r] \in HrRequest /\ HrProgress(hrReq[r]) /\ hrReq[r].pc = "findLinked"
  BY DEF PhotoInv, FindLinked, ReadHr, HrAt
<1>6. PICK x : x = [hrReq[r] EXCEPT !.linked = a, !.pc = pc]
  OBVIOUS
<1>7. /\ x \in HrRequest /\ x.pc = pc /\ x.old = hrReq[r].old /\ x.image = hrReq[r].image
      /\ x.member = hrReq[r].member /\ x.email = hrReq[r].email
  BY <1>3, <1>5, <1>6 DEF HrRequest, Steps
<1>8. hrReq' = [hrReq EXCEPT ![r] = x]
  BY <1>1, <1>2, <1>4, <1>6 DEF FindLinked, PhotoInv
<1>9. HrProgress(x) /\ x.old = None
  BY <1>4, <1>5, <1>7 DEF HrProgress
<1>10. QED
  BY <1>4, <1>7, <1>8, <1>9, HrMoves DEF FindLinked, ReadHr

\* What FindPhoto reads is kept by the member itself, or by nobody.
LEMMA FindPhotoKeepsInv ==
  ASSUME PhotoInv, NEW r \in HrSlots, FindPhoto(r)
  PROVE  PhotoInv'
<1>1. PICK m : m = hrReq[r].member
  OBVIOUS
<1>2. hrReq[r] \in HrRequest /\ HrProgress(hrReq[r]) /\ hrReq[r].pc = "findPhoto"
  BY DEF PhotoInv, FindPhoto, ReadHr, HrAt
<1>3. m \in MemberIds /\ m # None
  BY <1>1, <1>2 DEF HrRequest, HrProgress
<1>4. PICK i : i = IF IsMember(m) THEN members[m].stored ELSE None
  OBVIOUS
<1>5. i \in Images \union {None}
  BY <1>3, <1>4, HrMemberTyped, HrMembers
<1>6. PICK x : x = [hrReq[r] EXCEPT !.old = i, !.pc = "upload"]
  OBVIOUS
<1>7. /\ x \in HrRequest /\ x.pc = "upload" /\ x.old = i /\ x.image = hrReq[r].image
      /\ x.member = m /\ x.photo = hrReq[r].photo
      /\ x.email = hrReq[r].email /\ x.linked = hrReq[r].linked
  BY <1>1, <1>2, <1>5, <1>6 DEF HrRequest, Steps
<1>8. hrReq' = [hrReq EXCEPT ![r] = x]
  BY <1>1, <1>4, <1>6 DEF FindPhoto, PhotoInv
<1>9. HrProgress(x)
  BY <1>2, <1>3, <1>7 DEF HrProgress
<1>10. x.old # None =>
         /\ \A n \in MemberIds : Stores(n, x.old) => n = m
         /\ \A q \in HrSlots : hrReq[q].pc \in {"insert", "write"} => hrReq[q].image # x.old
  BY <1>3, <1>4, <1>7 DEF PhotoInv, PhotosOwn, PendingOwn, Stores
<1>11. QED
  BY <1>7, <1>8, <1>9, <1>10, HrMoves DEF FindPhoto, ReadHr

\* What a finished request still has to remove was already somebody's to remove.
LEMMA HrFinished ==
  ASSUME PhotoInv, NEW q \in HrRequest
  PROVE  /\ Finish(q) \in HrRequest /\ Finish(q).old = q.old
         /\ Finish(q).pc \in {"idle", "removeOld"} /\ Finish(q).image \in {None, q.image}
         /\ HrProgress(Finish(q))
<1>1. PICK x : x = Finish(q)
  OBVIOUS
<1>2. CASE q.old = None
  BY <1>2, HrRequests DEF Finish, HrProgress
<1>3. CASE q.old # None
  <2>1. /\ x \in HrRequest /\ x.old = q.old /\ x.pc = "removeOld" /\ x.image = q.image
        /\ x.linked = None
    BY <1>1, <1>3 DEF Finish, NoHrRequest, HrRequest, Steps
  <2>2. QED
    BY <1>1, <2>1 DEF HrProgress
<1>4. QED
  BY <1>2, <1>3

LEMMA MoveAccountKeepsInv ==
  ASSUME PhotoInv, NEW r \in HrSlots, MoveAccount(r)
  PROVE  PhotoInv'
<1>1. CASE FailHr(r)
  BY <1>1, HrFailed DEF MoveAccount
<1>2. CASE hrReq' = [hrReq EXCEPT ![r] = Finish(hrReq[r])]
  <2>1. PICK x : x = Finish(hrReq[r])
    OBVIOUS
  <2>2. hrReq[r] \in HrRequest /\ hrReq[r].pc = "moveAccount"
    BY DEF PhotoInv, MoveAccount, HrAt
  <2>3. /\ x \in HrRequest /\ x.old = hrReq[r].old /\ x.pc \in {"idle", "removeOld"}
        /\ x.image \in {None, hrReq[r].image} /\ HrProgress(x)
    BY <2>1, <2>2, HrFinished
  <2>4. x.old # None =>
          /\ \A n \in MemberIds : ~ Stores(n, x.old)
          /\ \A q \in HrSlots : hrReq[q].pc \in {"insert", "write"} => hrReq[q].image # x.old
    BY <2>2, <2>3 DEF PhotoInv, OldOwn, PendingOwn
  <2>5. QED
    BY <1>2, <2>1, <2>3, <2>4, HrMoves DEF MoveAccount
<1>3. QED
  BY <1>1, <1>2 DEF MoveAccount

\* A call that throws, and the end of the process.
LEMMA HrStopsKeepsInv ==
  ASSUME PhotoInv, Die \/ \E r \in HrSlots : Throw(r)
  PROVE  PhotoInv'
<1>1. CASE Die
  BY <1>1, HrEnds, HrRequests DEF Die
<1>2. ASSUME NEW r \in HrSlots, Throw(r)
      PROVE  PhotoInv'
  BY <1>2, HrFailed, HrAnswered DEF Throw
<1>3. QED
  BY <1>1, <1>2

\* An upload: the image is nobody's yet.
LEMMA UploadKeepsInv ==
  ASSUME PhotoInv, NEW r \in HrSlots, NEW i \in Images, Upload(r, i)
  PROVE  PhotoInv'
<1>1. PICK pc : pc = IF hrReq[r].member = None THEN "insert" ELSE "write"
  OBVIOUS
<1>2. PICK x : x = [hrReq[r] EXCEPT !.image = i, !.pc = pc]
  OBVIOUS
<1>3. hrReq[r] \in HrRequest /\ HrProgress(hrReq[r]) /\ hrReq[r].pc = "upload" /\ i # None
  BY HrConstants DEF PhotoInv, Upload, HrAt
<1>4. /\ x \in HrRequest /\ x.pc = pc /\ x.image = i /\ x.old = hrReq[r].old /\ x.member = hrReq[r].member
      /\ x.email = hrReq[r].email /\ x.photo = hrReq[r].photo /\ x.linked = hrReq[r].linked
  BY <1>1, <1>2, <1>3 DEF HrRequest, Steps
<1>5. hrReq' = [hrReq EXCEPT ![r] = x] /\ photos' = photos \union {i} /\ UNCHANGED members
  BY <1>1, <1>2 DEF Upload, PhotoInv
<1>6. hrReq'[r] = x /\ \A q \in HrSlots \ {r} : hrReq'[q] = hrReq[q]
  BY <1>5 DEF PhotoInv
<1>7. HrProgress(x)
  BY <1>1, <1>3, <1>4 DEF HrProgress
<1>8. hrReq' \in [HrSlots -> HrRequest] /\ \A q \in HrSlots : HrProgress(hrReq'[q])
  BY <1>4, <1>5, <1>6, <1>7 DEF PhotoInv
<1>9. \A m \in MemberIds : \A j : Stores(m, j)' <=> Stores(m, j)
  BY <1>5 DEF Stores, IsMember
<1>10. /\ \A m \in MemberIds : ~ Stores(m, i)
       /\ \A q \in HrSlots : hrReq[q].image # i /\ hrReq[q].old # i
  BY DEF Upload, NewImage, Stores
<1>11. PendingOwn'
  BY <1>4, <1>5, <1>6, <1>9, <1>10 DEF PhotoInv, PendingOwn
<1>12. OldOwn'
  BY <1>1, <1>3, <1>4, <1>6, <1>9 DEF PhotoInv, OldOwn, HrProgress
<1>13. PhotosOwn' /\ PhotosShown'
  BY <1>5 DEF PhotoInv, PhotosOwn, PhotosShown, Stores, IsMember
<1>14. QED
  BY <1>5, <1>8, <1>11, <1>12, <1>13 DEF PhotoInv, HrProgress

\* A request writes a member: either with the image it holds, or without touching
\* the photograph.
LEMMA HrWrites ==
  ASSUME PhotoInv, NEW r \in HrSlots, NEW x \in HrRequest, NEW m \in MemberIds, NEW y \in Member,
         hrReq' = [hrReq EXCEPT ![r] = x], members' = [members EXCEPT ![m] = y], UNCHANGED photos,
         HrProgress(x),
         x.pc \in {"idle", "findAccount", "moveAccount", "removeOld"},
         x.image \in {None, hrReq[r].image},
         hrReq[r].pc \in {"insert", "write"},
         \/ /\ y.photo = hrReq[r].image /\ y.stored = hrReq[r].image
            /\ x.old \in {None, hrReq[r].old}
            /\ x.old # None => \A n \in MemberIds : Stores(n, x.old) => n = m
         \/ /\ IsMember(m) /\ y.photo = members[m].photo /\ y.stored = members[m].stored
            /\ y.undone = members[m].undone /\ x.old = None
  PROVE  PhotoInv'
<1>1. hrReq'[r] = x /\ \A q \in HrSlots \ {r} : hrReq'[q] = hrReq[q]
  BY DEF PhotoInv
<1>2. hrReq' \in [HrSlots -> HrRequest] /\ \A q \in HrSlots : HrProgress(hrReq'[q])
  BY <1>1 DEF PhotoInv
<1>3. /\ members' \in [MemberIds -> Member \union {NoMember, GoneMember}]
      /\ members'[m] = y /\ \A n \in MemberIds \ {m} : members'[n] = members[n]
      /\ IsMember(m)'
  BY HrMembers DEF PhotoInv, IsMember
<1>4. \A n \in MemberIds \ {m} : (IsMember(n)' <=> IsMember(n)) /\ \A i : Stores(n, i)' <=> Stores(n, i)
  BY <1>3 DEF Stores, IsMember
<1>5. \A i : Stores(m, i)' <=> y.stored = i
  BY <1>3 DEF Stores
<1>6. y.stored \in Images \union {None} /\ y.photo \in Images \union {None, Avatar}
  BY HrMembers
<1>7. CASE /\ y.photo = hrReq[r].image /\ y.stored = hrReq[r].image
           /\ x.old \in {None, hrReq[r].old}
           /\ x.old # None => \A n \in MemberIds : Stores(n, x.old) => n = m
  <2>1. hrReq[r].image # None =>
          /\ hrReq[r].image \in photos
          /\ \A n \in MemberIds : ~ Stores(n, hrReq[r].image)
          /\ \A q \in HrSlots : hrReq[q].old # hrReq[r].image /\ (hrReq[q].image = hrReq[r].image => q = r)
    BY DEF PhotoInv, PendingOwn
  <2>2. PendingOwn'
    BY <1>1, <1>4, <1>5, <1>7, <2>1 DEF PhotoInv, PendingOwn
  <2>3. OldOwn'
    BY <1>1, <1>4, <1>5, <1>7, <2>1 DEF PhotoInv, OldOwn
  <2>4. PhotosOwn'
    <3>1. ASSUME NEW n \in MemberIds, IsMember(n)'
          PROVE  members'[n].photo \in Images => members'[n].photo = members'[n].stored
      BY <1>3, <1>4, <1>7, <3>1 DEF PhotoInv, PhotosOwn
    <3>2. ASSUME NEW n \in MemberIds, IsMember(n)', NEW z \in MemberIds,
                 (members[n].stored # None /\ Stores(z, members[n].stored))'
          PROVE  z = n
      <4>1. members'[z].stored = members'[n].stored /\ IsMember(z)'
        BY <3>2 DEF Stores
      <4>2. CASE n # m /\ z # m
        BY <1>3, <1>4, <3>2, <4>1, <4>2 DEF PhotoInv, PhotosOwn, Stores
      <4>3. CASE n = m /\ z # m
        BY <1>3, <1>4, <1>7, <2>1, <3>2, <4>1, <4>3 DEF Stores
      <4>4. CASE n # m /\ z = m
        BY <1>3, <1>4, <1>7, <2>1, <3>2, <4>1, <4>4 DEF Stores
      <4>5. QED
        BY <4>2, <4>3, <4>4
    <3>3. QED
      BY <3>1, <3>2 DEF PhotosOwn
  <2>5. PhotosShown'
    <3>1. None \notin Images
      BY HrConstants
    <3>2. QED
      BY <1>3, <1>4, <1>7, <2>1, <3>1 DEF PhotoInv, PhotosShown
  <2>6. QED
    BY <1>2, <1>3, <2>2, <2>3, <2>4, <2>5 DEF PhotoInv, HrProgress
<1>8. CASE /\ IsMember(m) /\ y.photo = members[m].photo /\ y.stored = members[m].stored
           /\ y.undone = members[m].undone /\ x.old = None
  <2>1. \A n \in MemberIds : \A i : Stores(n, i)' <=> Stores(n, i)
    BY <1>4, <1>5, <1>8 DEF Stores
  <2>2. \A n \in MemberIds :
          /\ IsMember(n)' <=> IsMember(n)
          /\ IsMember(n) => /\ members'[n].photo = members[n].photo /\ members'[n].stored = members[n].stored
                            /\ members'[n].undone = members[n].undone
    BY <1>3, <1>4, <1>8
  <2>3. PendingOwn'
    BY <1>1, <2>1 DEF PhotoInv, PendingOwn
  <2>4. OldOwn'
    BY <1>1, <1>8, <2>1 DEF PhotoInv, OldOwn
  <2>5. PhotosOwn'
    BY <2>1, <2>2 DEF PhotoInv, PhotosOwn
  <2>6. PhotosShown'
    BY <2>2 DEF PhotoInv, PhotosShown
  <2>7. QED
    BY <1>2, <1>3, <2>3, <2>4, <2>5, <2>6 DEF PhotoInv, HrProgress
<1>9. QED
  BY <1>7, <1>8

LEMMA InsertMemberKeepsInv ==
  ASSUME PhotoInv, NEW r \in HrSlots, InsertMember(r)
  PROVE  PhotoInv'
<1>1. CASE FailHr(r) /\ UNCHANGED members
  BY <1>1, HrFailed DEF InsertMember
<1>2. CASE ~ (FailHr(r) /\ UNCHANGED members)
  <2>1. PICK q : q = hrReq[r]
    OBVIOUS
  <2>2. q \in HrRequest /\ HrProgress(q) /\ q.pc = "insert" /\ q.email \in Emails /\ q.old = None
    BY <2>1 DEF PhotoInv, InsertMember, HrAt, HrProgress, HrRequest
  <2>3. PICK m \in MemberIds :
          /\ members' = [members EXCEPT ![m] = [email |-> q.email, photo |-> q.image,
                                                stored |-> q.image, undone |-> FALSE]]
          /\ hrReq' = [hrReq EXCEPT ![r] =
               IF q.wants THEN [q EXCEPT !.pc = "findAccount", !.member = m] ELSE NoHrRequest]
    BY <1>2, <2>1 DEF InsertMember
  <2>4. PICK y : y = [email |-> q.email, photo |-> q.image, stored |-> q.image, undone |-> FALSE]
    OBVIOUS
  <2>5. y \in Member /\ y.photo = q.image /\ y.stored = q.image
    BY <2>2, <2>4 DEF Member, HrRequest
  <2>6. PICK x : x = IF q.wants THEN [q EXCEPT !.pc = "findAccount", !.member = m] ELSE NoHrRequest
    OBVIOUS
  <2>7. /\ x \in HrRequest /\ x.pc \in {"idle", "findAccount"} /\ x.image \in {None, q.image}
        /\ x.old = None /\ HrProgress(x)
    <3>1. CASE q.wants
      <4>1. /\ x \in HrRequest /\ x.pc = "findAccount" /\ x.image = q.image /\ x.old = q.old
            /\ x.member = m /\ x.email = q.email /\ x.linked = q.linked
        BY <2>2, <2>6, <3>1 DEF HrRequest, Steps
      <4>2. m # None
        BY HrConstants
      <4>3. QED
        BY <2>2, <4>1, <4>2 DEF HrProgress
    <3>2. CASE ~ q.wants
      BY <2>6, <3>2, HrRequests DEF HrProgress
    <3>3. QED
      BY <3>1, <3>2
  <2>8. UNCHANGED photos
    BY DEF InsertMember
  <2>9. QED
    BY <2>1, <2>2, <2>3, <2>4, <2>5, <2>6, <2>7, <2>8, HrWrites
<1>3. QED
  BY <1>1, <1>2

\* The request moves on to the account, or to the image that it replaced.
LEMMA HrWritten ==
  ASSUME PhotoInv, NEW q \in HrRequest, HrProgress(q), q.pc = "write",
         NEW x, x = IF q.linked # None THEN [q EXCEPT !.pc = "moveAccount"] ELSE Finish(q)
  PROVE  /\ x \in HrRequest /\ x.pc \in {"idle", "moveAccount", "removeOld"}
         /\ x.image \in {None, q.image} /\ x.old = q.old /\ HrProgress(x)
<1>1. CASE q.linked # None
  <2>1. /\ x \in HrRequest /\ x.pc = "moveAccount" /\ x.image = q.image /\ x.old = q.old
        /\ x.member = q.member /\ x.email = q.email /\ x.linked = q.linked
    BY <1>1 DEF HrRequest, Steps
  <2>2. QED
    BY <1>1, <2>1 DEF HrProgress
<1>2. CASE q.linked = None
  BY <1>2, HrFinished
<1>3. QED
  BY <1>1, <1>2

\* An update of a member that is there, and of one that is gone.
LEMMA WriteMemberKeepsInv ==
  ASSUME PhotoInv, NEW r \in HrSlots, WriteMember(r)
  PROVE  PhotoInv'
<1>1. PICK q : q = hrReq[r]
  OBVIOUS
<1>2. PICK m : m = q.member
  OBVIOUS
<1>3. q \in HrRequest /\ HrProgress(q) /\ q.pc = "write" /\ m \in MemberIds /\ UNCHANGED photos
  BY <1>1, <1>2 DEF PhotoInv, WriteMember, HrAt, HrProgress, HrRequest
<1>4. PICK x : x = IF q.linked # None THEN [q EXCEPT !.pc = "moveAccount"] ELSE Finish(q)
  OBVIOUS
<1>5. /\ x \in HrRequest /\ x.pc \in {"idle", "moveAccount", "removeOld"}
      /\ x.image \in {None, q.image} /\ x.old = q.old /\ HrProgress(x)
  BY <1>3, <1>4, HrWritten
<1>6. x.old # None =>
        /\ \A n \in MemberIds : Stores(n, x.old) => n = m
        /\ \A z \in HrSlots : hrReq[z].pc \in {"insert", "write"} => hrReq[z].image # x.old
  BY <1>1, <1>2, <1>3, <1>5 DEF PhotoInv, OldOwn, PendingOwn
<1>7. CASE FailHr(r) /\ UNCHANGED members
  BY <1>3, <1>7, HrFailed
<1>8. CASE ~ IsMember(m) /\ UNCHANGED members /\ hrReq' = [hrReq EXCEPT ![r] = x]
  BY <1>1, <1>3, <1>5, <1>6, <1>8, HrMoves DEF Stores
<1>9. CASE /\ IsMember(m) /\ hrReq' = [hrReq EXCEPT ![r] = x]
           /\ members' = [members EXCEPT ![m] =
                     [email  |-> IF q.email = None THEN @.email ELSE q.email,
                      photo  |-> IF q.photo THEN q.image ELSE @.photo,
                      stored |-> IF q.photo THEN q.image ELSE @.stored,
                      undone |-> @.undone /\ ~ q.photo]]
  <2>1. members[m] \in Member
    BY <1>3, <1>9, HrMemberTyped
  <2>2. PICK y : y = [email  |-> IF q.email = None THEN members[m].email ELSE q.email,
                      photo  |-> IF q.photo THEN q.image ELSE members[m].photo,
                      stored |-> IF q.photo THEN q.image ELSE members[m].stored,
                      undone |-> members[m].undone /\ ~ q.photo]
    OBVIOUS
  <2>3. members' = [members EXCEPT ![m] = y] /\ IsMember(m) /\ hrReq' = [hrReq EXCEPT ![r] = x]
    BY <1>3, <1>9, <2>2 DEF PhotoInv
  <2>4. CASE q.photo
    <3>1. y \in Member /\ y.photo = q.image /\ y.stored = q.image
      BY <1>3, <2>1, <2>2, <2>4 DEF Member, HrRequest
    <3>2. QED
      BY <1>1, <1>3, <1>5, <1>6, <2>3, <3>1, HrWrites
  <2>5. CASE ~ q.photo
    <3>1. /\ y \in Member /\ y.photo = members[m].photo /\ y.stored = members[m].stored
          /\ y.undone = members[m].undone
      BY <1>3, <2>1, <2>2, <2>5 DEF Member, HrRequest
    <3>2. x.old = None
      BY <1>3, <1>5, <2>5 DEF HrProgress
    <3>3. QED
      BY <1>1, <1>3, <1>5, <2>3, <3>1, <3>2, HrWrites
  <2>6. QED
    BY <2>4, <2>5
<1>10. QED
  BY <1>1, <1>2, <1>4, <1>7, <1>8, <1>9 DEF WriteMember

LEMMA DeleteMemberKeepsInv ==
  ASSUME PhotoInv, NEW r \in HrSlots, DeleteMember(r)
  PROVE  PhotoInv'
<1>1. PICK q : q = hrReq[r]
  OBVIOUS
<1>2. PICK m : m = q.member
  OBVIOUS
<1>3. q \in HrRequest /\ q.pc = "delete" /\ m \in MemberIds /\ UNCHANGED photos
  BY <1>1, <1>2 DEF PhotoInv, DeleteMember, HrAt, HrProgress, HrRequest
<1>4. PICK x : x = Finish(q)
  OBVIOUS
<1>5. /\ x \in HrRequest /\ x.pc \in {"idle", "removeOld"} /\ x.old = q.old /\ HrProgress(x)
      /\ x.image \in {None, q.image}
  BY <1>3, <1>4, HrFinished
<1>6. hrReq' = [hrReq EXCEPT ![r] = x] /\ members' = [members EXCEPT ![m] = GoneMember]
  BY <1>1, <1>2, <1>4 DEF DeleteMember
<1>7. hrReq'[r] = x /\ \A z \in HrSlots \ {r} : hrReq'[z] = hrReq[z]
  BY <1>6 DEF PhotoInv
<1>8. hrReq' \in [HrSlots -> HrRequest] /\ \A z \in HrSlots : HrProgress(hrReq'[z])
  BY <1>5, <1>6, <1>7 DEF PhotoInv
<1>9. /\ members' \in [MemberIds -> Member \union {NoMember, GoneMember}] /\ ~ IsMember(m)'
      /\ \A n \in MemberIds \ {m} : members'[n] = members[n] /\ (IsMember(n)' <=> IsMember(n))
  BY <1>3, <1>6 DEF PhotoInv, IsMember
<1>10. \A n \in MemberIds : \A i : Stores(n, i)' <=> n # m /\ Stores(n, i)
  BY <1>9 DEF Stores
<1>11. PendingOwn'
  <2>1. \A z \in HrSlots : hrReq'[z].old = hrReq[z].old /\ hrReq'[z].image \in {None, hrReq[z].image}
    BY <1>1, <1>5, <1>7
  <2>2. \A z \in HrSlots : hrReq'[z].pc \in {"insert", "write"} => z # r /\ hrReq'[z] = hrReq[z]
    BY <1>5, <1>7
  <2>3. QED
    BY <1>3, <1>10, <2>1, <2>2 DEF PhotoInv, PendingOwn
<1>12. OldOwn'
  BY <1>1, <1>2, <1>5, <1>7, <1>10 DEF PhotoInv, OldOwn
<1>13. PhotosOwn' /\ PhotosShown'
  BY <1>3, <1>9, <1>10 DEF PhotoInv, PhotosOwn, PhotosShown
<1>14. QED
  BY <1>8, <1>9, <1>11, <1>12, <1>13 DEF PhotoInv, HrProgress

\* Images that go: the one that was replaced, which no member keeps any more, and
\* one that a failed request had uploaded.
LEMMA HrRemovesKeepsInv ==
  ASSUME PhotoInv, NEW r \in HrSlots, RemoveOld(r) \/ Discard(r)
  PROVE  PhotoInv'
<1>1. /\ hrReq' = [hrReq EXCEPT ![r] = NoHrRequest] /\ hrReq' \in [HrSlots -> HrRequest]
      /\ hrReq'[r] = NoHrRequest /\ \A z \in HrSlots \ {r} : hrReq'[z] = hrReq[z]
  BY HrRequests DEF RemoveOld, Discard, AnswerHr, PhotoInv
<1>2. \A z \in HrSlots : HrProgress(hrReq'[z])
  BY <1>1, HrRequests DEF PhotoInv, HrProgress
<1>3. CASE RemoveOld(r)
  <2>1. photos' = photos \ {hrReq[r].old} /\ UNCHANGED members /\ hrReq[r].pc = "removeOld"
    BY <1>3 DEF RemoveOld, HrAt
  <2>2. \A m \in MemberIds : \A i : Stores(m, i)' <=> Stores(m, i)
    BY <2>1 DEF Stores, IsMember
  <2>3. PendingOwn'
    BY <1>1, <2>1, <2>2, HrRequests DEF PhotoInv, PendingOwn
  <2>4. OldOwn'
    BY <1>1, <2>2, HrRequests DEF PhotoInv, OldOwn
  <2>5. PhotosOwn'
    BY <2>1 DEF PhotoInv, PhotosOwn, Stores, IsMember
  <2>6. PhotosShown'
    <3>1. None \notin Images
      BY HrConstants
    <3>2. \A m \in MemberIds : IsMember(m) /\ members[m].photo \in Images => members[m].photo # hrReq[r].old
      BY <2>1, <3>1 DEF PhotoInv, PhotosOwn, OldOwn, Stores
    <3>3. QED
      BY <2>1, <3>2 DEF PhotoInv, PhotosShown, IsMember
  <2>7. QED
    BY <1>1, <1>2, <2>1, <2>3, <2>4, <2>5, <2>6 DEF PhotoInv, HrProgress
<1>4. CASE Discard(r)
  <2>1. photos' = photos \ {hrReq[r].image} /\ hrReq[r].pc = "discard"
    BY <1>4 DEF Discard, HrAt
  <2>2. ASSUME NEW m \in MemberIds
        PROVE  /\ members'[m] \in Member \union {NoMember, GoneMember}
               /\ IsMember(m)' <=> IsMember(m)
               /\ ~ IsMember(m) => members'[m] = members[m]
               /\ IsMember(m) =>
                    /\ members'[m].photo = members[m].photo /\ members'[m].stored = members[m].stored
                    /\ members[m].photo \in Images /\ members[m].photo = hrReq[r].image => members'[m].undone
                    /\ members[m].undone => members'[m].undone
    <3>1. CASE IsMember(m) /\ members[m].photo \in Images /\ members[m].photo = hrReq[r].image
      <4>1. members'[m] = [members[m] EXCEPT !.undone = TRUE] /\ members[m] \in Member
        BY <1>4, <3>1, HrMemberTyped DEF Discard
      <4>2. /\ members'[m] \in Member /\ members'[m].photo = members[m].photo
            /\ members'[m].stored = members[m].stored /\ members'[m].undone = TRUE
        BY <4>1 DEF Member
      <4>3. QED
        BY <3>1, <4>2, HrMembers DEF IsMember
    <3>2. CASE ~ (IsMember(m) /\ members[m].photo \in Images /\ members[m].photo = hrReq[r].image)
      <4>1. members'[m] = members[m]
        BY <1>4, <3>2 DEF Discard
      <4>2. QED
        BY <3>2, <4>1 DEF PhotoInv, IsMember
    <3>3. QED
      BY <3>1, <3>2
  <2>3. members' \in [MemberIds -> Member \union {NoMember, GoneMember}]
    BY <1>4, <2>2 DEF Discard
  <2>4. \A m \in MemberIds : \A i : Stores(m, i)' <=> Stores(m, i)
    BY <2>2 DEF Stores
  <2>5. PendingOwn'
    BY <1>1, <2>1, <2>4, HrRequests DEF PhotoInv, PendingOwn
  <2>6. OldOwn'
    BY <1>1, <2>4, HrRequests DEF PhotoInv, OldOwn
  <2>7. PhotosOwn'
    BY <2>2, <2>4 DEF PhotoInv, PhotosOwn
  <2>8. PhotosShown'
    BY <2>1, <2>2 DEF PhotoInv, PhotosShown
  <2>9. QED
    BY <1>1, <1>2, <2>3, <2>5, <2>6, <2>7, <2>8 DEF PhotoInv, HrProgress
<1>5. QED
  BY <1>3, <1>4

\* The image of a profile is not one of the member's.
LEMMA ProfileKeepsInv ==
  ASSUME HrInv, NEW a \in AccountIds, ProfileUpdated(a)
  PROVE  PhotoInv'
<1>1. PICK m \in MemberIds :
        members[m].email = accounts[a].email /\ members' = [members EXCEPT ![m].photo = Avatar]
  BY DEF ProfileUpdated, MemberWith
<1>2. accounts[a].email \in Emails /\ UNCHANGED <<photos, hrReq>>
  BY DEF HrInv, AccountsAddressed, ProfileUpdated
<1>3. members[m] \in Member
  <2>1. NoMember.email = None /\ GoneMember.email = None /\ None \notin Emails
    BY HrConstants DEF NoMember, GoneMember
  <2>2. QED
    BY <1>1, <1>2, <2>1 DEF HrInv, PhotoInv
<1>4. members'[m] = [members[m] EXCEPT !.photo = Avatar] /\ \A n \in MemberIds \ {m} : members'[n] = members[n]
  BY <1>1 DEF HrInv, PhotoInv
<1>5. /\ members'[m] \in Member /\ members'[m].photo = Avatar
      /\ members'[m].stored = members[m].stored /\ members'[m].undone = members[m].undone
  BY <1>3, <1>4 DEF Member
<1>6. members' \in [MemberIds -> Member \union {NoMember, GoneMember}]
  BY <1>1, <1>4, <1>5 DEF HrInv, PhotoInv
<1>7. \A n \in MemberIds : (IsMember(n)' <=> IsMember(n)) /\ \A i : Stores(n, i)' <=> Stores(n, i)
  BY <1>3, <1>4, <1>5, HrMembers DEF IsMember, Stores
<1>8. PendingOwn' /\ OldOwn'
  BY <1>2, <1>7 DEF HrInv, PhotoInv, PendingOwn, OldOwn
<1>9. PhotosOwn' /\ PhotosShown'
  <2>1. members'[m].photo \notin Images
    BY <1>5, HrConstants
  <2>2. \A n \in MemberIds : IsMember(n) => members'[n].stored = members[n].stored
    BY <1>4, <1>5
  <2>3. PhotosOwn'
    BY <1>4, <1>7, <2>1, <2>2 DEF HrInv, PhotoInv, PhotosOwn
  <2>4. PhotosShown'
    BY <1>2, <1>4, <1>7, <2>1 DEF HrInv, PhotoInv, PhotosShown
  <2>5. QED
    BY <2>3, <2>4
<1>10. QED
  BY <1>2, <1>6, <1>8, <1>9 DEF HrInv, PhotoInv, HrProgress

LEMMA PhotoNextKeepsInv ==
  ASSUME HrInv, [HrNext]_hrVars
  PROVE  PhotoInv'
<1>1. PhotoInv
  BY DEF HrInv
<1>2. CASE UNCHANGED hrVars
  <2>1. UNCHANGED <<members, photos, hrReq>>
    BY <1>2 DEF hrVars
  <2>2. hrReq' \in [HrSlots -> HrRequest] /\ \A q \in HrSlots : hrReq'[q] \in {hrReq[q], NoHrRequest}
    BY <1>1, <2>1 DEF PhotoInv
  <2>3. QED
    BY <1>1, <2>1, <2>2, HrEnds
<1>3. ASSUME NEW r \in HrSlots, HrStep(r)
      PROVE  PhotoInv'
  BY <1>1, <1>3, HrBeginKeepsInv, UploadKeepsInv, InsertMemberKeepsInv, HrReadKeepsInv,
     FindLinkedKeepsInv, FindPhotoKeepsInv, WriteMemberKeepsInv, MoveAccountKeepsInv,
     DeleteMemberKeepsInv, HrRemovesKeepsInv, HrStopsKeepsInv DEF HrStep
<1>4. QED
  BY <1>1, <1>2, <1>3, ProfileKeepsInv, HrStopsKeepsInv DEF HrNext

\* An account keeps an address of its own: those of the member it is made for, and
\* of the update that moves it.
LEMMA AccountsStayAddressed ==
  ASSUME HrInv, [HrNext]_hrVars
  PROVE  AccountsAddressed'
<1>1. CASE UNCHANGED accounts
  BY <1>1 DEF HrInv, AccountsAddressed
<1>2. ASSUME NEW r \in HrSlots, CreateAccount(r)
      PROVE  AccountsAddressed'
  <2>1. hrReq[r] \in HrRequest /\ HrProgress(hrReq[r]) /\ hrReq[r].pc = "createAccount"
    BY <1>2 DEF HrInv, PhotoInv, CreateAccount, HrAt
  <2>2. hrReq[r].email \in Emails /\ hrReq[r].member \in MemberIds
    BY <2>1 DEF HrRequest, HrProgress
  <2>3. QED
    BY <1>2, <2>2 DEF CreateAccount, HrInv, AccountsAddressed
<1>3. ASSUME NEW r \in HrSlots, MoveAccount(r)
      PROVE  AccountsAddressed'
  <2>1. hrReq[r] \in HrRequest /\ HrProgress(hrReq[r]) /\ hrReq[r].pc = "moveAccount"
    BY <1>3 DEF HrInv, PhotoInv, MoveAccount, HrAt
  <2>2. hrReq[r].email \in Emails /\ hrReq[r].linked \in AccountIds
    BY <2>1 DEF HrRequest, HrProgress
  <2>3. QED
    BY <1>3, <2>2 DEF MoveAccount, HrInv, AccountsAddressed
<1>4. QED
  <2>1. CASE UNCHANGED hrVars
    BY <1>1, <2>1 DEF hrVars
  <2>2. CASE Die \/ \E a \in AccountIds : ProfileUpdated(a)
    BY <1>1, <2>2 DEF Die, ProfileUpdated
  <2>3. ASSUME NEW r \in HrSlots, HrStep(r)
        PROVE  AccountsAddressed'
    <3>1. UNCHANGED accounts \/ CreateAccount(r) \/ MoveAccount(r)
      BY <2>3 DEF HrStep, CreateMemberFind, RemoveMemberFind, UpdateMemberFind, BeginHr, Upload,
         InsertMember, FindAccount, FindLinked, FindConflict, CheckEmail, FindPhoto, ReadHr,
         WriteMember, DeleteMember, RemoveOld, Discard, Throw
    <3>2. QED
      BY <1>1, <1>2, <1>3, <3>1
  <2>4. QED
    BY <2>1, <2>2, <2>3 DEF HrNext

\* Nothing is stored and no request is in flight at first.
THEOREM HrInitInv == HrInit => HrInv
<1> SUFFICES ASSUME HrInit PROVE HrInv
  OBVIOUS
<1>1. \A m \in MemberIds : ~ IsMember(m)
  BY DEF HrInit, IsMember
<1>2. hrReq = [r \in HrSlots |-> NoHrRequest]
  BY DEF HrInit
<1>3. hrReq \in [HrSlots -> HrRequest] /\ \A r \in HrSlots : HrProgress(hrReq[r])
  BY <1>2, HrRequests DEF HrProgress
<1>4. PendingOwn /\ OldOwn
  BY <1>2, HrRequests DEF PendingOwn, OldOwn
<1>5. PhotosOwn /\ PhotosShown
  BY <1>1 DEF PhotosOwn, PhotosShown
<1>6. AccountsAddressed
  BY DEF HrInit, AccountsAddressed, NoAccount
<1>7. QED
  BY <1>3, <1>4, <1>5, <1>6 DEF HrInit, HrInv, PhotoInv

\* Every call of the requests that create, update and remove team members, the end
\* of a request or of the process at any of them, and an update of a profile keep
\* HrInv.
THEOREM HrNextKeepsInv == HrInv /\ [HrNext]_hrVars => HrInv'
<1>1. QED
  BY PhotoNextKeepsInv, AccountsStayAddressed DEF HrInv

\* However many requests overlap, the image a team member is shown with is stored
\* (updateTeamMember and removeTeamMember remove what they had read, and an update
\* that fails after its write removes what it had put on show).
THEOREM PhotosStayStored == HrSpec => []PhotosShown
<1>1. HrInv => PhotosShown
  BY DEF HrInv, PhotoInv
<1>2. QED
  BY <1>1, HrInitInv, HrNextKeepsInv, PTL DEF HrSpec
-------------------------------------------------------------------------------
(* The accounts of team members.                                           *)

LEMMA HrAccounts ==
  /\ NoAccount \notin Account
  /\ NoMember # GoneMember /\ NoMember \notin Member
  /\ \A x \in Account : x.email \in Emails /\ x.member \in MemberIds
<1>1. \A x \in Account : x.email \in Emails /\ x.member \in MemberIds
  BY DEF Account
<1>2. NoAccount.email = None /\ None \notin Emails
  BY HrConstants DEF NoAccount
<1>3. NoMember # GoneMember
  <2>1. NoMember.state = "UNUSED" /\ GoneMember.state = "DELETED"
    BY DEF NoMember, GoneMember
  <2>2. QED
    BY <2>1
<1>4. QED
  BY <1>1, <1>2, <1>3, HrMembers

\* An account that is there has the fields of one.
LEMMA HrAccountTyped ==
  ASSUME FollowInv, NEW a \in AccountIds, accounts[a] # NoAccount
  PROVE  /\ accounts[a] \in Account /\ accounts[a].email \in Emails /\ accounts[a].member \in MemberIds
         /\ members[accounts[a].member] # NoMember
BY HrAccounts DEF FollowInv, HrTypeOK, HrRefers

\* A step of one request: what is left to show is what the others need of it.
LEMMA FollowStep ==
  ASSUME HrInv, HrInv', FollowInv, HrTypeOK', NEW r \in HrSlots, NEW x,
         hrReq' = [hrReq EXCEPT ![r] = x], UNCHANGED oneAtATime,
         HrAt(r, "idle") => (oneAtATime => HrIdle),
         AddressesUnique',
         \A m \in MemberIds : members[m] # NoMember => members'[m] # NoMember,
         \A a \in AccountIds : accounts[a] # NoAccount => accounts'[a] # NoAccount,
         x.member # None => members'[x.member] # NoMember,
         x.linked # None => accounts'[x.linked] # NoAccount,
         x.pc = "findLinked" => x.before # None,
         \A a \in AccountIds : accounts'[a] # NoAccount => members'[accounts'[a].member] # NoMember,
         oneAtATime => HrFound(x)',
         oneAtATime => torn' \/ \A a \in AccountIds : Followed(a)'
  PROVE  FollowInv'
<1>1. hrReq'[r] = x /\ \A q \in HrSlots : q # r => hrReq'[q] = hrReq[q]
  BY DEF HrInv, PhotoInv
<1>2. \A q \in HrSlots : hrReq[q].member \in MemberIds \union {None} /\ hrReq[q].linked \in AccountIds \union {None}
  BY DEF HrInv, PhotoInv, HrRequest
<1>3. HrRefers'
  <2>1. ASSUME NEW q \in HrSlots
        PROVE  /\ hrReq'[q].member # None => members'[hrReq'[q].member] # NoMember
               /\ hrReq'[q].linked # None => accounts'[hrReq'[q].linked] # NoAccount
               /\ hrReq'[q].pc = "findLinked" => hrReq'[q].before # None
    BY <1>1, <1>2 DEF FollowInv, HrRefers, HrAt
  <2>2. QED
    BY <2>1 DEF HrRefers, HrAt
<1>4. ASSUME oneAtATime
      PROVE  \A q \in HrSlots : q # r => hrReq'[q].pc = "idle"
  BY <1>1, <1>4 DEF FollowInv, HrAt, HrIdle
<1>5. oneAtATime => \A z, q \in HrSlots : ~ HrAt(z, "idle")' /\ ~ HrAt(q, "idle")' => z = q
  BY <1>4 DEF HrAt
<1>6. ASSUME oneAtATime, NEW q \in HrSlots
      PROVE  HrFound(hrReq[q])'
  <2>1. CASE q = r
    BY <1>1, <1>6, <2>1
  <2>2. CASE q # r
    BY <1>4, <1>6, <2>2 DEF HrFound
  <2>3. QED
    BY <2>1, <2>2
<1>7. QED
  BY <1>3, <1>5, <1>6 DEF FollowInv

\* A step that has nothing to do with a moving account, and changes no address.
LEMMA FollowedKept ==
  ASSUME HrInv, NEW r \in HrSlots, NEW x, hrReq' = [hrReq EXCEPT ![r] = x],
         ~ HrAt(r, "moveAccount"), x.pc # "moveAccount",
         NEW a \in AccountIds, Followed(a), UNCHANGED accounts[a],
         LET m == accounts[a].member
         IN  accounts[a] # NoAccount /\ IsMember(m)' => IsMember(m) /\ members'[m].email = members[m].email
  PROVE  Followed(a)'
<1>1. \A q \in HrSlots : q # r => hrReq'[q] = hrReq[q]
  BY DEF HrInv, PhotoInv
<1>2. hrReq'[r] = x
  BY DEF HrInv, PhotoInv
<1>3. \A q \in HrSlots : HrAt(q, "moveAccount")' <=> HrAt(q, "moveAccount")
  BY <1>1, <1>2 DEF HrAt
<1>4. \A q \in HrSlots : HrAt(q, "moveAccount") => hrReq'[q] = hrReq[q]
  BY <1>1
<1>5. {q \in HrSlots : HrAt(q, "moveAccount") /\ hrReq[q].linked = a}'
        = {q \in HrSlots : HrAt(q, "moveAccount") /\ hrReq[q].linked = a}
  BY <1>3, <1>4
<1>6. QED
  BY <1>4, <1>5 DEF Followed

\* A step of one request that writes nothing.
LEMMA FollowMoves ==
  ASSUME HrInv, HrInv', FollowInv, HrTypeOK', NEW r \in HrSlots, NEW x,
         hrReq' = [hrReq EXCEPT ![r] = x], UNCHANGED <<members, accounts, oneAtATime>>,
         HrAt(r, "idle") => (oneAtATime => HrIdle),
         x.pc # "moveAccount", torn => torn', HrAt(r, "moveAccount") => torn',
         x.member # None => members[x.member] # NoMember,
         x.linked # None => accounts[x.linked] # NoAccount,
         x.pc = "findLinked" => x.before # None,
         oneAtATime => HrFound(x)
  PROVE  FollowInv'
<1>1. AddressesUnique'
  BY DEF FollowInv, AddressesUnique, IsMember
<1>2. oneAtATime => HrFound(x)'
  BY DEF HrFound, IsMember, AccountWith
<1>3. ASSUME oneAtATime, ~ torn', NEW a \in AccountIds
      PROVE  Followed(a)'
  <2>1. Followed(a) /\ ~ HrAt(r, "moveAccount")
    BY <1>3 DEF FollowInv
  <2>2. QED
    BY <2>1, FollowedKept DEF IsMember
<1>4. \A a \in AccountIds : accounts'[a] # NoAccount => members'[accounts'[a].member] # NoMember
  BY DEF FollowInv, HrRefers
<1>5. QED
  BY <1>1, <1>2, <1>3, <1>4, FollowStep

\* Requests that end, or have nothing left but an image to remove.
LEMMA FollowEnds ==
  ASSUME HrInv, HrInv', FollowInv, HrTypeOK', NEW r \in HrSlots,
         UNCHANGED <<members, accounts, oneAtATime>>,
         AnswerHr(r) \/ FailHr(r), ~ HrAt(r, "idle"),
         torn => torn', HrAt(r, "moveAccount") => torn'
  PROVE  FollowInv'
<1>1. PICK x : x = IF AnswerHr(r) \/ hrReq[r].image = None THEN NoHrRequest
                   ELSE [NoHrRequest EXCEPT !.pc = "discard", !.image = hrReq[r].image]
  OBVIOUS
<1>2. hrReq' = [hrReq EXCEPT ![r] = x]
  BY <1>1 DEF AnswerHr, FailHr
<1>3. x.pc \in {"idle", "discard"} /\ x.member = None /\ x.linked = None
  BY <1>1 DEF NoHrRequest
<1>4. HrFound(x)
  BY <1>3 DEF HrFound
<1>5. QED
  BY <1>2, <1>3, <1>4, FollowMoves

LEMMA FollowBegins ==
  ASSUME HrInv, HrInv', FollowInv, HrTypeOK', NEW r \in HrSlots,
         \/ \E email \in Emails, photo, wants \in BOOLEAN : CreateMemberFind(r, email, photo, wants)
         \/ \E m \in MemberIds : RemoveMemberFind(r, m)
         \/ \E m \in MemberIds, email \in Emails \union {None}, photo \in BOOLEAN :
              UpdateMemberFind(r, m, email, photo)
  PROVE  FollowInv'
<1>1. ASSUME NEW x, hrReq' = [hrReq EXCEPT ![r] = x], BeginHr(r, x),
             x.pc \notin {"idle", "moveAccount"},
             x.member # None => members[x.member] # NoMember, x.linked = None,
             x.pc = "findLinked" => x.before # None, HrFound(x)
      PROVE  FollowInv'
  BY <1>1, FollowMoves DEF BeginHr, HrAt
<1>2. ASSUME NEW email \in Emails, NEW photo \in BOOLEAN, NEW wants \in BOOLEAN,
             CreateMemberFind(r, email, photo, wants)
      PROVE  FollowInv'
  <2>1. PICK x : x = [NoHrRequest EXCEPT !.pc = IF photo THEN "upload" ELSE "insert",
                                         !.email = email, !.wants = wants]
    OBVIOUS
  <2>2. x.pc \in {"upload", "insert"} /\ x.member = None /\ x.linked = None
    BY <2>1 DEF NoHrRequest
  <2>3. HrFound(x)
    BY <2>2 DEF HrFound
  <2>4. BeginHr(r, x) /\ hrReq' = [hrReq EXCEPT ![r] = x]
    BY <1>2, <2>1 DEF CreateMemberFind, BeginHr
  <2>5. QED
    BY <1>1, <2>2, <2>3, <2>4
<1>3. ASSUME NEW m \in MemberIds, NEW email \in Emails \union {None}, NEW photo \in BOOLEAN,
             UpdateMemberFind(r, m, email, photo)
      PROVE  FollowInv'
  <2>1. IsMember(m) /\ members[m].email \in Emails /\ members[m] # NoMember
    BY <1>3, HrMemberTyped DEF UpdateMemberFind, Member, IsMember, HrInv
  <2>2. PICK x : x = [NoHrRequest EXCEPT
       !.member = m, !.email = email, !.before = members[m].email, !.photo = photo,
       !.pc = CASE email = None -> IF photo THEN "findPhoto" ELSE "write"
                [] email = members[m].email -> "checkEmail"
                [] OTHER -> "findLinked"]
    OBVIOUS
  <2>3. /\ x.pc \in {"findPhoto", "write", "checkEmail", "findLinked"}
        /\ x.member = m /\ x.linked = None /\ x.email = email /\ x.before = members[m].email
        /\ x.pc = "checkEmail" => email = members[m].email
        /\ x.pc \in {"findPhoto", "write"} => email = None
    BY <2>2 DEF NoHrRequest
  <2>4. HrFound(x)
    BY <2>1, <2>3 DEF HrFound
  <2>5. BeginHr(r, x) /\ hrReq' = [hrReq EXCEPT ![r] = x]
    BY <1>3, <2>2 DEF UpdateMemberFind, BeginHr
  <2>6. x.before # None
    BY <2>1, <2>3, HrConstants
  <2>7. QED
    BY <1>1, <2>1, <2>3, <2>4, <2>5, <2>6
<1>4. ASSUME NEW m \in MemberIds, RemoveMemberFind(r, m)
      PROVE  FollowInv'
  <2>1. PICK x : x = [NoHrRequest EXCEPT !.pc = "delete", !.member = m, !.old = members[m].stored]
    OBVIOUS
  <2>2. x.pc = "delete" /\ x.member = m /\ x.linked = None
    BY <2>1 DEF NoHrRequest
  <2>3. HrFound(x)
    BY <2>2 DEF HrFound
  <2>4. BeginHr(r, x) /\ hrReq' = [hrReq EXCEPT ![r] = x] /\ members[m] # NoMember
    BY <1>4, <2>1 DEF RemoveMemberFind, BeginHr, IsMember
  <2>5. QED
    BY <1>1, <2>2, <2>3, <2>4
<1>5. QED
  BY <1>2, <1>3, <1>4

\* What the only request finds is what is there.
LEMMA FollowReads ==
  ASSUME HrInv, HrInv', FollowInv, HrTypeOK', NEW r \in HrSlots,
         \/ FindAccount(r) \/ FindLinked(r) \/ FindConflict(r) \/ CheckEmail(r) \/ FindPhoto(r)
         \/ \E i \in Images : Upload(r, i)
         \/ RemoveOld(r)
  PROVE  FollowInv'
<1>1. PICK q : q = hrReq[r]
  OBVIOUS
<1>2. q \in HrRequest /\ HrProgress(q) /\ UNCHANGED <<members, accounts, oneAtATime, torn>>
  BY <1>1 DEF HrInv, PhotoInv, FindAccount, FindLinked, FindConflict, CheckEmail, FindPhoto,
     Upload, RemoveOld, ReadHr
<1>3. q.pc \in {"findAccount", "findLinked", "findConflict", "checkEmail", "findPhoto", "upload", "removeOld"}
  BY <1>1 DEF FindAccount, FindLinked, FindConflict, CheckEmail, FindPhoto, Upload, RemoveOld,
     ReadHr, HrAt
<1>4. ~ HrAt(r, "idle") /\ ~ HrAt(r, "moveAccount")
  BY <1>1, <1>3 DEF HrAt
<1>5. /\ q.member # None => members[q.member] # NoMember
      /\ q.linked # None => accounts[q.linked] # NoAccount
      /\ q.pc = "findLinked" => q.before # None
  BY <1>1 DEF FollowInv, HrRefers, HrAt
<1>6. oneAtATime => HrFound(q)
  BY <1>1 DEF FollowInv
<1>7. ASSUME NEW x, hrReq' = [hrReq EXCEPT ![r] = x], x.pc \notin {"moveAccount", "findLinked"},
             x.member = q.member, x.linked = None \/ accounts[x.linked] # NoAccount,
             oneAtATime => HrFound(x)
      PROVE  FollowInv'
  BY <1>2, <1>4, <1>5, <1>7, FollowMoves
<1>8. CASE AnswerHr(r)
  BY <1>2, <1>4, <1>8, FollowEnds
<1>9. ASSUME NEW pc \in Steps, StepHr(r, pc),
             \/ q.pc = "findAccount" /\ pc = "createAccount"
             \/ q.pc = "findConflict" /\ pc = "checkEmail" /\ AccountWith(q.email) \subseteq {q.linked}
             \/ q.pc = "checkEmail" /\ pc \in {"findPhoto", "write"}
      PROVE  FollowInv'
  <2>1. PICK x : x = [q EXCEPT !.pc = pc]
    OBVIOUS
  <2>2. /\ x.pc = pc /\ x.member = q.member /\ x.linked = q.linked /\ x.email = q.email
        /\ x.before = q.before
    BY <1>2, <2>1 DEF HrRequest
  <2>3. hrReq' = [hrReq EXCEPT ![r] = x]
    BY <1>1, <1>9, <2>1 DEF StepHr, HrInv, PhotoInv
  <2>4. oneAtATime => HrFound(x)
    BY <1>2, <1>6, <1>9, <2>2 DEF HrFound, HrProgress
  <2>5. QED
    BY <1>5, <1>7, <1>9, <2>2, <2>3, <2>4
<1>10. CASE FindLinked(r)
  <2>1. PICK found : found = AccountWith(q.before)
    OBVIOUS
  <2>2. PICK a : a = IF found = {} THEN None ELSE CHOOSE b \in found : TRUE
    OBVIOUS
  <2>3. /\ found = {} => a = None
        /\ found # {} => a \in AccountIds /\ accounts[a].email = q.before /\ a # None
    BY <2>1, <2>2, HrConstants DEF AccountWith
  <2>4. PICK pc \in {"checkEmail", "findConflict"} : pc = IF found = {} THEN "checkEmail" ELSE "findConflict"
    OBVIOUS
  <2>5. PICK x : x = [q EXCEPT !.linked = a, !.pc = pc]
    OBVIOUS
  <2>6. /\ x.pc = pc /\ x.member = q.member /\ x.linked = a /\ x.email = q.email
        /\ x.before = q.before
    BY <1>2, <2>5 DEF HrRequest
  <2>7. hrReq' = [hrReq EXCEPT ![r] = x] /\ q.pc = "findLinked"
    BY <1>1, <1>10, <2>1, <2>2, <2>4, <2>5 DEF FindLinked, ReadHr, HrAt, HrInv, PhotoInv
  <2>8. a = None \/ accounts[a] # NoAccount
    BY <1>5, <2>3, <2>7 DEF NoAccount
  <2>9. oneAtATime => HrFound(x)
    BY <1>2, <1>6, <2>1, <2>3, <2>4, <2>6, <2>7 DEF HrFound, HrProgress
  <2>10. QED
    BY <1>7, <2>4, <2>6, <2>7, <2>8, <2>9
<1>11. CASE FindPhoto(r)
  <2>1. PICK i : i = IF IsMember(q.member) THEN members[q.member].stored ELSE None
    OBVIOUS
  <2>2. PICK x : x = [q EXCEPT !.old = i, !.pc = "upload"]
    OBVIOUS
  <2>3. /\ x.pc = "upload" /\ x.member = q.member /\ x.linked = q.linked /\ x.email = q.email
        /\ x.before = q.before
    BY <1>2, <2>2 DEF HrRequest
  <2>4. hrReq' = [hrReq EXCEPT ![r] = x] /\ q.pc = "findPhoto"
    BY <1>1, <1>11, <2>1, <2>2 DEF FindPhoto, ReadHr, HrAt, HrInv, PhotoInv
  <2>5. oneAtATime => HrFound(x)
    BY <1>2, <1>6, <2>3, <2>4 DEF HrFound, HrProgress
  <2>6. QED
    BY <1>5, <1>7, <2>3, <2>4, <2>5
<1>12. ASSUME NEW i \in Images, Upload(r, i)
       PROVE  FollowInv'
  <2>1. PICK pc \in {"insert", "write"} : pc = IF q.member = None THEN "insert" ELSE "write"
    OBVIOUS
  <2>2. PICK x : x = [q EXCEPT !.image = i, !.pc = pc]
    OBVIOUS
  <2>3. /\ x.pc = pc /\ x.member = q.member /\ x.linked = q.linked /\ x.email = q.email
        /\ x.before = q.before
    BY <1>2, <2>2 DEF HrRequest
  <2>4. hrReq' = [hrReq EXCEPT ![r] = x] /\ q.pc = "upload"
    BY <1>1, <1>12, <2>1, <2>2 DEF Upload, HrAt, HrInv, PhotoInv
  <2>5. oneAtATime => HrFound(x)
    BY <1>2, <1>6, <2>1, <2>3, <2>4 DEF HrFound
  <2>6. QED
    BY <1>5, <1>7, <2>1, <2>3, <2>4, <2>5
<1>13. QED
  BY <1>1, <1>8, <1>9, <1>10, <1>11, <1>12 DEF FindAccount, FindConflict, CheckEmail, RemoveOld,
     ReadHr, HrAt, Steps

\* A member as it was, but for the photograph.
LEMMA FollowPhotos ==
  ASSUME HrInv, HrInv', FollowInv, HrTypeOK',
         \A m \in MemberIds : /\ IsMember(m)' <=> IsMember(m)
                              /\ members'[m].email = members[m].email
                              /\ members[m] # NoMember => members'[m] # NoMember
  PROVE  /\ UNCHANGED accounts => AddressesUnique'
         /\ \A x : /\ UNCHANGED accounts /\ HrFound(x) /\ x.member \in MemberIds \union {None}
                   /\ x.pc \in {"findAccount", "createAccount", "moveAccount"} => x.member # None
                   => HrFound(x)'
         /\ \A a \in AccountIds : accounts[a] # NoAccount => members'[accounts[a].member] # NoMember
<1>1. ASSUME UNCHANGED accounts
      PROVE  AddressesUnique'
  BY <1>1 DEF FollowInv, AddressesUnique
<1>2. ASSUME UNCHANGED accounts, NEW x, HrFound(x), x.member \in MemberIds \union {None},
             x.pc \in {"findAccount", "createAccount", "moveAccount"} => x.member # None
      PROVE  HrFound(x)'
  BY <1>2 DEF HrFound, AccountWith
<1>3. ASSUME NEW a \in AccountIds, accounts[a] # NoAccount
      PROVE  members'[accounts[a].member] # NoMember
  BY <1>3, HrAccountTyped
<1>4. QED
  BY <1>1, <1>2, <1>3

LEMMA FollowDiscards ==
  ASSUME HrInv, HrInv', FollowInv, HrTypeOK', NEW r \in HrSlots, Discard(r)
  PROVE  FollowInv'
<1>1. ASSUME NEW m \in MemberIds
      PROVE  /\ IsMember(m)' <=> IsMember(m)
             /\ members'[m].email = members[m].email
             /\ members[m] # NoMember => members'[m] # NoMember
  <2>1. members'[m] = members[m] \/ (IsMember(m) /\ members'[m] = [members[m] EXCEPT !.undone = TRUE])
    BY DEF Discard
  <2>2. CASE IsMember(m) /\ members'[m] = [members[m] EXCEPT !.undone = TRUE]
    <3>1. members[m] \in Member
      BY <2>2, HrMemberTyped DEF HrInv
    <3>2. members'[m] \in Member /\ members'[m].email = members[m].email
      BY <2>2, <3>1 DEF Member
    <3>3. QED
      BY <2>2, <3>2, HrMembers DEF IsMember
  <2>3. QED
    BY <2>1, <2>2 DEF IsMember
<1>2. PICK x : x = NoHrRequest
  OBVIOUS
<1>3. /\ hrReq' = [hrReq EXCEPT ![r] = x] /\ UNCHANGED <<accounts, oneAtATime, torn>>
      /\ ~ HrAt(r, "idle") /\ ~ HrAt(r, "moveAccount")
  BY <1>2 DEF Discard, AnswerHr, HrAt
<1>4. x.pc = "idle" /\ x.member = None /\ x.linked = None
  BY <1>2 DEF NoHrRequest
<1>5. HrFound(x)
  BY <1>4 DEF HrFound
<1>6. AddressesUnique' /\ HrFound(x)'
  BY <1>1, <1>3, <1>4, <1>5, FollowPhotos
<1>7. \A a \in AccountIds : accounts'[a] # NoAccount => members'[accounts'[a].member] # NoMember
  BY <1>1, <1>3, FollowPhotos
<1>8. ASSUME oneAtATime, ~ torn, NEW a \in AccountIds
      PROVE  Followed(a)'
  <2>1. Followed(a)
    BY <1>8 DEF FollowInv
  <2>2. accounts[a] # NoAccount => accounts[a].member \in MemberIds
    BY HrAccountTyped
  <2>3. QED
    BY <1>1, <1>3, <1>4, <2>1, <2>2, FollowedKept
<1>9. QED
  BY <1>1, <1>3, <1>4, <1>6, <1>7, <1>8, FollowStep

LEMMA FollowProfiles ==
  ASSUME HrInv, HrInv', FollowInv, HrTypeOK', NEW a \in AccountIds, ProfileUpdated(a)
  PROVE  FollowInv'
<1>1. PICK m \in MemberIds :
        members[m].email = accounts[a].email /\ members' = [members EXCEPT ![m].photo = Avatar]
  BY DEF ProfileUpdated, MemberWith
<1>2. accounts[a].email \in Emails /\ UNCHANGED <<accounts, hrReq, oneAtATime, torn>>
  BY DEF HrInv, AccountsAddressed, ProfileUpdated
<1>3. members[m] \in Member /\ members'[m] = [members[m] EXCEPT !.photo = Avatar]
  <2>1. NoMember.email = None /\ GoneMember.email = None /\ None \notin Emails
    BY HrConstants DEF NoMember, GoneMember
  <2>2. QED
    BY <1>1, <1>2, <2>1 DEF HrInv, PhotoInv
<1>4. members'[m] \in Member /\ members'[m].email = members[m].email
  BY <1>3 DEF Member
<1>5. ASSUME NEW n \in MemberIds
      PROVE  /\ IsMember(n)' <=> IsMember(n)
             /\ members'[n].email = members[n].email
             /\ members[n] # NoMember => members'[n] # NoMember
  <2>1. CASE n = m
    BY <1>3, <1>4, <2>1, HrMembers DEF IsMember
  <2>2. CASE n # m
    BY <1>1, <2>2 DEF IsMember, HrInv, PhotoInv
  <2>3. QED
    BY <2>1, <2>2
<1>6. AddressesUnique' /\ \A b \in AccountIds : accounts'[b] # NoAccount => members'[accounts'[b].member] # NoMember
  BY <1>2, <1>5, FollowPhotos
<1>7. \A r \in HrSlots : hrReq[r].member \in MemberIds \union {None}
  BY DEF HrInv, PhotoInv, HrRequest
<1>8. HrRefers'
  BY <1>2, <1>5, <1>6, <1>7 DEF FollowInv, HrRefers, HrAt
<1>9. ASSUME oneAtATime, NEW r \in HrSlots
      PROVE  HrFound(hrReq[r])'
  <2>1. PICK x : x = hrReq[r]
    OBVIOUS
  <2>2. /\ HrFound(x) /\ x.member \in MemberIds \union {None}
        /\ x.pc \in {"findAccount", "createAccount", "moveAccount"} => x.member # None
    BY <1>7, <1>9, <2>1 DEF FollowInv, HrInv, PhotoInv, HrProgress
  <2>3. HrFound(x)'
    BY <1>2, <1>5, <2>2, FollowPhotos
  <2>4. QED
    BY <1>2, <2>1, <2>3
<1>10. ASSUME NEW b \in AccountIds, Followed(b)
       PROVE  Followed(b)'
  <2>1. accounts[b] # NoAccount => accounts[b].member \in MemberIds
    BY HrAccountTyped
  <2>2. QED
    BY <1>2, <1>5, <1>10, <2>1 DEF Followed, HrAt
<1>11. QED
  BY <1>2, <1>6, <1>8, <1>9, <1>10 DEF FollowInv, HrAt

\* A new member has an address of its own, and no account yet.
LEMMA FollowInserts ==
  ASSUME HrInv, HrInv', FollowInv, HrTypeOK', NEW r \in HrSlots, InsertMember(r)
  PROVE  FollowInv'
<1>1. PICK q : q = hrReq[r]
  OBVIOUS
<1>2. /\ q \in HrRequest /\ HrProgress(q) /\ q.pc = "insert" /\ q.email \in Emails
      /\ ~ HrAt(r, "idle") /\ ~ HrAt(r, "moveAccount") /\ UNCHANGED <<accounts, oneAtATime, torn>>
      /\ (q.linked # None => accounts[q.linked] # NoAccount)
  BY <1>1 DEF HrInv, PhotoInv, FollowInv, HrRefers, InsertMember, HrAt, HrProgress, HrRequest
<1>3. CASE FailHr(r) /\ UNCHANGED members
  BY <1>2, <1>3, FollowEnds
<1>4. CASE ~ (FailHr(r) /\ UNCHANGED members)
  <2>1. PICK m \in MemberIds :
          /\ members[m] = NoMember
          /\ members' = [members EXCEPT ![m] = [email |-> q.email, photo |-> q.image,
                                                stored |-> q.image, undone |-> FALSE]]
          /\ hrReq' = [hrReq EXCEPT ![r] =
               IF q.wants THEN [q EXCEPT !.pc = "findAccount", !.member = m] ELSE NoHrRequest]
    BY <1>1, <1>4 DEF InsertMember
  <2>2. MemberWith(q.email) = {}
    BY <1>1, <1>4 DEF InsertMember
  <2>3. /\ members'[m] = [email |-> q.email, photo |-> q.image, stored |-> q.image, undone |-> FALSE]
        /\ \A n \in MemberIds : n # m => members'[n] = members[n]
    BY <2>1 DEF HrInv, PhotoInv
  <2>4. members'[m].email = q.email /\ members'[m] \in Member
    BY <1>2, <2>3 DEF Member, HrRequest
  <2>5. /\ IsMember(m)' /\ ~ IsMember(m) /\ members'[m] # NoMember
        /\ \A n \in MemberIds : n # m => (IsMember(n)' <=> IsMember(n))
    BY <2>1, <2>3, <2>4, HrMembers DEF IsMember
  <2>6. PICK x : x = IF q.wants THEN [q EXCEPT !.pc = "findAccount", !.member = m] ELSE NoHrRequest
    OBVIOUS
  <2>7. /\ x.pc \in {"findAccount", "idle"} /\ x.member \in {m, None} /\ x.linked \in {None, q.linked}
        /\ x.pc = "findAccount" => x.member = m /\ x.email = q.email
    BY <1>2, <2>6 DEF HrRequest, NoHrRequest
  <2>8. HrFound(x)'
    BY <2>4, <2>5, <2>7 DEF HrFound
  <2>9. AddressesUnique'
    BY <1>2, <2>2, <2>3, <2>4, <2>5 DEF FollowInv, AddressesUnique, MemberWith
  <2>10. \A a \in AccountIds : accounts[a] # NoAccount => accounts[a].member \in MemberIds \ {m}
    BY <2>1, HrAccountTyped
  <2>11. \A a \in AccountIds : accounts'[a] # NoAccount => members'[accounts'[a].member] # NoMember
    BY <1>2, <2>3, <2>10, HrAccountTyped
  <2>12. ASSUME oneAtATime, ~ torn, NEW a \in AccountIds
         PROVE  Followed(a)'
    <3>1. Followed(a)
      BY <2>12 DEF FollowInv
    <3>2. accounts[a] # NoAccount /\ IsMember(accounts[a].member)' =>
            IsMember(accounts[a].member) /\ members'[accounts[a].member].email = members[accounts[a].member].email
      BY <1>2, <2>3, <2>5, <2>10
    <3>3. QED
      BY <1>2, <2>1, <2>6, <2>7, <3>1, <3>2, FollowedKept
  <2>13. /\ x.member # None => members'[x.member] # NoMember
         /\ x.linked # None => accounts'[x.linked] # NoAccount
    BY <1>2, <2>5, <2>7
  <2>14. \A n \in MemberIds : members[n] # NoMember => members'[n] # NoMember
    BY <2>3, <2>5
  <2>15. QED
    BY <1>2, <2>1, <2>6, <2>7, <2>8, <2>9, <2>11, <2>12, <2>13, <2>14, FollowStep
<1>5. QED
  BY <1>3, <1>4

\* An account has an address of its own, that of the member it is made for.
LEMMA FollowAccounts ==
  ASSUME HrInv, HrInv', FollowInv, HrTypeOK', NEW r \in HrSlots, CreateAccount(r)
  PROVE  FollowInv'
<1>1. PICK q : q = hrReq[r]
  OBVIOUS
<1>2. /\ q \in HrRequest /\ HrProgress(q) /\ q.pc = "createAccount"
      /\ q.email \in Emails /\ q.member \in MemberIds /\ members[q.member] # NoMember
      /\ ~ HrAt(r, "idle") /\ ~ HrAt(r, "moveAccount") /\ UNCHANGED <<members, oneAtATime, torn>>
  BY <1>1 DEF HrInv, PhotoInv, FollowInv, HrRefers, CreateAccount, HrAt, HrProgress, HrRequest
<1>3. CASE FailHr(r) /\ UNCHANGED accounts
  BY <1>2, <1>3, FollowEnds
<1>4. CASE ~ (FailHr(r) /\ UNCHANGED accounts)
  <2>1. PICK a \in AccountIds :
          /\ accounts[a] = NoAccount
          /\ accounts' = [accounts EXCEPT ![a] =
                [email |-> q.email, username |-> UserName[q.email], member |-> q.member]]
    BY <1>1, <1>4 DEF CreateAccount
  <2>2. \A b \in AccountIds : accounts[b].email # q.email
    BY <1>1, <1>4 DEF CreateAccount
  <2>3. /\ accounts'[a].email = q.email /\ accounts'[a].member = q.member
        /\ accounts'[a] # NoAccount
        /\ \A b \in AccountIds : b # a => accounts'[b] = accounts[b]
    <3>1. accounts'[a] = [email |-> q.email, username |-> UserName[q.email], member |-> q.member]
      BY <2>1 DEF FollowInv, HrTypeOK
    <3>2. accounts'[a] # NoAccount
      <4>1. NoAccount.email = None
        BY DEF NoAccount
      <4>2. accounts'[a].email = q.email
        BY <3>1
      <4>3. QED
        BY <1>2, <4>1, <4>2, HrConstants
    <3>3. QED
      BY <2>1, <3>1, <3>2 DEF FollowInv, HrTypeOK
  <2>4. PICK x : x = IF AnswerHr(r) \/ hrReq[r].image = None THEN NoHrRequest
                     ELSE [NoHrRequest EXCEPT !.pc = "discard", !.image = hrReq[r].image]
    OBVIOUS
  <2>5. hrReq' = [hrReq EXCEPT ![r] = x]
    BY <1>4, <2>4 DEF CreateAccount, AnswerHr, FailHr
  <2>6. x.pc \in {"idle", "discard"} /\ x.member = None /\ x.linked = None
    BY <2>4 DEF NoHrRequest
  <2>7. HrFound(x)'
    BY <2>6 DEF HrFound
  <2>8. AddressesUnique'
    BY <1>2, <2>2, <2>3 DEF FollowInv, AddressesUnique, IsMember
  <2>9. \A b \in AccountIds : accounts'[b] # NoAccount => members'[accounts'[b].member] # NoMember
    BY <1>2, <2>3, HrAccountTyped
  <2>10. ASSUME oneAtATime, ~ torn, NEW b \in AccountIds
         PROVE  Followed(b)'
    <3>1. CASE b # a
      <4>1. Followed(b)
        BY <2>10 DEF FollowInv
      <4>2. QED
        BY <1>2, <2>3, <2>5, <2>6, <3>1, <4>1, FollowedKept DEF IsMember
    <3>2. CASE b = a
      <4>1. \A z \in HrSlots : ~ HrAt(z, "moveAccount")'
        BY <1>2, <2>5, <2>6, <2>10 DEF FollowInv, HrAt, HrInv, PhotoInv
      <4>2. members[q.member].email = q.email
        BY <1>1, <1>2, <2>10 DEF FollowInv, HrFound
      <4>3. QED
        BY <1>2, <2>3, <3>2, <4>1, <4>2 DEF Followed
    <3>3. QED
      BY <3>1, <3>2
  <2>11. QED
    BY <1>2, <2>3, <2>5, <2>6, <2>7, <2>8, <2>9, <2>10, FollowStep
<1>5. QED
  BY <1>3, <1>4

\* The account that takes the new address is the member's, if the member is there.
LEMMA FollowMoved ==
  ASSUME HrInv, HrInv', FollowInv, HrTypeOK', NEW r \in HrSlots, MoveAccount(r)
  PROVE  FollowInv'
<1>1. PICK q : q = hrReq[r]
  OBVIOUS
<1>2. /\ q \in HrRequest /\ HrProgress(q) /\ q.pc = "moveAccount"
      /\ q.email \in Emails /\ q.member \in MemberIds
      /\ q.linked \in AccountIds /\ accounts[q.linked] # NoAccount
      /\ ~ HrAt(r, "idle") /\ UNCHANGED <<members, oneAtATime, torn>>
  BY <1>1 DEF HrInv, PhotoInv, FollowInv, HrRefers, MoveAccount, HrAt, HrProgress, HrRequest
<1>3. PICK x : x = IF AccountWith(q.email) \subseteq {q.linked} THEN Finish(q)
                   ELSE IF q.image = None THEN NoHrRequest
                   ELSE [NoHrRequest EXCEPT !.pc = "discard", !.image = q.image]
  OBVIOUS
<1>4. hrReq' = [hrReq EXCEPT ![r] = x]
  BY <1>1, <1>3 DEF MoveAccount, FailHr
<1>5. x.pc \in {"idle", "discard", "removeOld"} /\ x.member = None /\ x.linked = None
  BY <1>3 DEF NoHrRequest, Finish
<1>6. HrFound(x)'
  BY <1>5 DEF HrFound
<1>7. CASE ~ AccountWith(q.email) \subseteq {q.linked}
  <2>1. ~ oneAtATime /\ UNCHANGED accounts
    BY <1>1, <1>2, <1>7 DEF FollowInv, HrFound, MoveAccount
  <2>2. AddressesUnique'
    BY <1>2, <2>1 DEF FollowInv, AddressesUnique, IsMember
  <2>3. \A b \in AccountIds : accounts'[b] # NoAccount => members'[accounts'[b].member] # NoMember
    BY <1>2, <2>1, HrAccountTyped
  <2>4. QED
    BY <1>2, <1>4, <1>5, <1>6, <2>1, <2>2, <2>3, FollowStep
<1>8. CASE AccountWith(q.email) \subseteq {q.linked}
  <2>1. /\ accounts' = [accounts EXCEPT ![q.linked].email = q.email]
        /\ accounts[q.linked] \in Account
    BY <1>1, <1>2, <1>8, HrAccountTyped DEF MoveAccount
  <2>2. /\ accounts'[q.linked].email = q.email /\ accounts'[q.linked].member = accounts[q.linked].member
        /\ \A b \in AccountIds : b # q.linked => accounts'[b] = accounts[b]
    BY <1>2, <2>1 DEF FollowInv, HrTypeOK, Account
  <2>3. accounts'[q.linked] # NoAccount
    <3>1. NoAccount.email = None
      BY DEF NoAccount
    <3>2. QED
      BY <1>2, <2>2, <3>1, HrConstants
  <2>4. AddressesUnique'
    BY <1>2, <1>8, <2>2 DEF FollowInv, AddressesUnique, IsMember, AccountWith
  <2>5. \A b \in AccountIds : accounts'[b] # NoAccount => members'[accounts'[b].member] # NoMember
    BY <1>2, <2>2, HrAccountTyped
  <2>6. ASSUME oneAtATime, ~ torn, NEW b \in AccountIds
        PROVE  Followed(b)'
    <3>1. \A z \in HrSlots : ~ HrAt(z, "moveAccount")'
      BY <1>2, <1>4, <1>5, <2>6 DEF FollowInv, HrAt, HrInv, PhotoInv
    <3>2. \A z \in HrSlots : HrAt(z, "moveAccount") => z = r
      BY <1>2, <2>6 DEF FollowInv, HrAt
    <3>3. Followed(b)
      BY <2>6 DEF FollowInv
    <3>4. CASE b # q.linked
      BY <1>1, <1>2, <2>2, <3>1, <3>2, <3>3, <3>4 DEF Followed, IsMember
    <3>5. CASE b = q.linked
      <4>1. IsMember(accounts[b].member) => accounts[b].member = q.member
        BY <1>1, <1>2, <3>3, <3>5 DEF Followed, HrAt
      <4>2. members[q.member].email = q.email
        BY <1>1, <1>2, <2>6 DEF FollowInv, HrFound
      <4>3. QED
        BY <1>2, <2>2, <3>1, <3>5, <4>1, <4>2 DEF Followed, IsMember
    <3>6. QED
      BY <3>4, <3>5
  <2>7. QED
    BY <1>2, <1>4, <1>5, <1>6, <2>2, <2>3, <2>4, <2>5, <2>6, FollowStep
<1>9. QED
  BY <1>7, <1>8

LEMMA FollowDeletes ==
  ASSUME HrInv, HrInv', FollowInv, HrTypeOK', NEW r \in HrSlots, DeleteMember(r)
  PROVE  FollowInv'
<1>1. PICK q : q = hrReq[r]
  OBVIOUS
<1>2. PICK m : m = q.member
  OBVIOUS
<1>3. /\ q \in HrRequest /\ HrProgress(q) /\ q.pc = "delete" /\ m \in MemberIds
      /\ ~ HrAt(r, "idle") /\ ~ HrAt(r, "moveAccount") /\ UNCHANGED <<accounts, oneAtATime, torn>>
  BY <1>1, <1>2 DEF HrInv, PhotoInv, DeleteMember, HrAt, HrProgress, HrRequest
<1>4. PICK x : x = Finish(q)
  OBVIOUS
<1>5. /\ hrReq' = [hrReq EXCEPT ![r] = x]
      /\ x.pc \in {"idle", "removeOld"} /\ x.member = None /\ x.linked = None
  BY <1>1, <1>4 DEF DeleteMember, Finish, NoHrRequest
<1>6. members'[m] = GoneMember /\ \A n \in MemberIds : n # m => members'[n] = members[n]
  BY <1>1, <1>2, <1>3 DEF DeleteMember, HrInv, PhotoInv
<1>7. \A n \in MemberIds : /\ IsMember(n)' => n # m /\ IsMember(n)
                           /\ members[n] # NoMember => members'[n] # NoMember
  BY <1>6, HrAccounts DEF IsMember
<1>8. HrFound(x)'
  BY <1>5 DEF HrFound
<1>9. AddressesUnique'
  BY <1>3, <1>6, <1>7 DEF FollowInv, AddressesUnique
<1>10. \A a \in AccountIds : accounts'[a] # NoAccount => members'[accounts'[a].member] # NoMember
  BY <1>3, <1>7, HrAccountTyped
<1>11. ASSUME oneAtATime, ~ torn, NEW a \in AccountIds
       PROVE  Followed(a)'
  <2>1. Followed(a)
    BY <1>11 DEF FollowInv
  <2>2. accounts[a] # NoAccount /\ IsMember(accounts[a].member)' =>
          IsMember(accounts[a].member) /\ members'[accounts[a].member].email = members[accounts[a].member].email
    BY <1>3, <1>6, <1>7, HrAccountTyped
  <2>3. QED
    BY <1>3, <1>5, <2>1, <2>2, FollowedKept
<1>12. QED
  BY <1>3, <1>5, <1>7, <1>8, <1>9, <1>10, <1>11, FollowStep

\* The account that is behind a member whose address has changed is the linked one.
LEMMA FollowWrites ==
  ASSUME HrInv, HrInv', FollowInv, HrTypeOK', NEW r \in HrSlots, WriteMember(r)
  PROVE  FollowInv'
<1>1. PICK q : q = hrReq[r]
  OBVIOUS
<1>2. PICK m : m = q.member
  OBVIOUS
<1>3. /\ q \in HrRequest /\ HrProgress(q) /\ q.pc = "write" /\ m \in MemberIds /\ m # None
      /\ ~ HrAt(r, "idle") /\ ~ HrAt(r, "moveAccount") /\ UNCHANGED <<accounts, oneAtATime, torn>>
      /\ members[m] # NoMember
      /\ q.linked # None => accounts[q.linked] # NoAccount /\ q.linked \in AccountIds /\ q.email # None
      /\ q.email \in Emails \union {None} /\ q.pc # "findLinked"
  BY <1>1, <1>2 DEF HrInv, PhotoInv, FollowInv, HrRefers, WriteMember, HrAt, HrProgress, HrRequest
<1>4. PICK x : x = IF q.linked # None THEN [q EXCEPT !.pc = "moveAccount"] ELSE Finish(q)
  OBVIOUS
<1>5. /\ q.linked # None => /\ x.pc = "moveAccount" /\ x.member = m /\ x.linked = q.linked
                            /\ x.email = q.email /\ x.before = q.before
      /\ q.linked = None => x.pc \in {"idle", "removeOld"} /\ x.member = None /\ x.linked = None
  BY <1>2, <1>3, <1>4 DEF HrRequest, Finish, NoHrRequest
<1>6. CASE FailHr(r) /\ UNCHANGED members
  BY <1>3, <1>6, FollowEnds
<1>7. ASSUME oneAtATime
      PROVE  HrFound(q) /\ \A z \in HrSlots : ~ HrAt(z, "moveAccount")
  BY <1>1, <1>3, <1>7 DEF FollowInv, HrAt
<1>8. CASE ~ IsMember(m) /\ UNCHANGED members /\ hrReq' = [hrReq EXCEPT ![r] = x]
  <2>1. oneAtATime => q.linked = None
    BY <1>2, <1>3, <1>7, <1>8 DEF HrFound
  <2>2. oneAtATime => HrFound(x)'
    BY <1>5, <2>1 DEF HrFound
  <2>3. AddressesUnique'
    BY <1>3, <1>8 DEF FollowInv, AddressesUnique, IsMember
  <2>4. \A a \in AccountIds : accounts'[a] # NoAccount => members'[accounts'[a].member] # NoMember
    BY <1>3, <1>8, HrAccountTyped
  <2>5. ASSUME oneAtATime, ~ torn, NEW a \in AccountIds
        PROVE  Followed(a)'
    <3>1. Followed(a)
      BY <2>5 DEF FollowInv
    <3>2. QED
      BY <1>3, <1>5, <1>8, <2>1, <2>5, <3>1, FollowedKept DEF IsMember
  <2>6. QED
    BY <1>3, <1>5, <1>8, <2>2, <2>3, <2>4, <2>5, FollowStep
<1>9. CASE /\ IsMember(m) /\ hrReq' = [hrReq EXCEPT ![r] = x]
           /\ members' = [members EXCEPT ![m] =
                     [email  |-> IF q.email = None THEN @.email ELSE q.email,
                      photo  |-> IF q.photo THEN q.image ELSE @.photo,
                      stored |-> IF q.photo THEN q.image ELSE @.stored,
                      undone |-> @.undone /\ ~ q.photo]]
           /\ q.email # None => MemberWith(q.email) \subseteq {m}
  <2>1. PICK e : e = IF q.email = None THEN members[m].email ELSE q.email
    OBVIOUS
  <2>2. members'[m].email = e /\ \A n \in MemberIds : n # m => members'[n] = members[n]
    BY <1>3, <1>9, <2>1 DEF HrInv, PhotoInv
  <2>3. e \in Emails
    BY <1>3, <1>9, <2>1, HrMemberTyped DEF Member, HrInv
  <2>4. IsMember(m)' /\ members'[m] # NoMember
    <3>1. NoMember.email = None /\ GoneMember.email = None
      BY DEF NoMember, GoneMember
    <3>2. QED
      BY <2>2, <2>3, <3>1, HrConstants DEF IsMember
  <2>5. \A n \in MemberIds : (IsMember(n)' <=> IsMember(n)) /\ (members[n] # NoMember => members'[n] # NoMember)
    BY <1>9, <2>2, <2>4 DEF IsMember
  <2>6. AddressesUnique'
    BY <1>3, <1>9, <2>1, <2>2, <2>5 DEF FollowInv, AddressesUnique, MemberWith
  <2>7. oneAtATime => HrFound(x)'
    <3>1. CASE q.linked = None
      BY <1>5, <3>1 DEF HrFound
    <3>2. ASSUME q.linked # None, oneAtATime
          PROVE  HrFound(x)'
      <4>1. accounts[q.linked].email = q.before /\ AccountWith(q.email) \subseteq {q.linked}
        BY <1>3, <1>7, <3>2 DEF HrFound
      <4>2. members'[m].email = q.email
        BY <1>3, <2>1, <2>2, <3>2
      <4>3. QED
        BY <1>3, <1>5, <2>4, <3>2, <4>1, <4>2 DEF HrFound, AccountWith
    <3>3. QED
      BY <3>1, <3>2
  <2>8. \A a \in AccountIds : accounts'[a] # NoAccount => members'[accounts'[a].member] # NoMember
    BY <1>3, <2>5, HrAccountTyped
  <2>9. ASSUME oneAtATime, ~ torn, NEW b \in AccountIds
        PROVE  Followed(b)'
    <3> DEFINE M == accounts[b].member
    <3>1. SUFFICES ASSUME accounts[b] # NoAccount, IsMember(M)
                   PROVE  /\ \A z \in HrSlots : HrAt(z, "moveAccount")' /\ hrReq'[z].linked = b => hrReq'[z].member = M
                          /\ \/ accounts[b].email = members'[M].email
                             \/ \E z \in HrSlots : HrAt(z, "moveAccount")' /\ hrReq'[z].linked = b
      BY <1>3, <2>5, HrAccountTyped DEF Followed
    <3>2. M \in MemberIds /\ accounts[b].email = members[M].email
      BY <1>7, <2>9, <3>1, HrAccountTyped DEF FollowInv, Followed
    <3>3. \A z \in HrSlots : z # r => hrReq'[z] = hrReq[z] /\ ~ HrAt(z, "moveAccount")'
      BY <1>7, <1>9, <2>9 DEF HrInv, PhotoInv, HrAt
    <3>4. hrReq'[r] = x
      BY <1>9 DEF HrInv, PhotoInv
    <3>5. HrFound(q)
      BY <1>7, <2>9
    <3>6. CASE q.linked = None
      <4>1. \A z \in HrSlots : ~ HrAt(z, "moveAccount")'
        BY <1>5, <3>3, <3>4, <3>6 DEF HrAt
      <4>2. CASE M = m
        BY <1>2, <1>3, <2>1, <2>2, <3>2, <3>5, <3>6, <4>1, <4>2 DEF HrFound, AccountWith
      <4>3. CASE M # m
        BY <2>2, <3>2, <4>1, <4>3
      <4>4. QED
        BY <4>2, <4>3
    <3>7. CASE q.linked # None
      <4>1. /\ members[m].email = q.before /\ accounts[q.linked].email = q.before
        BY <1>2, <1>3, <3>5, <3>7 DEF HrFound
      <4>2. M = m <=> b = q.linked
        BY <1>3, <1>9, <3>1, <3>2, <3>7, <4>1 DEF FollowInv, AddressesUnique
      <4>3. HrAt(r, "moveAccount")' /\ hrReq'[r].linked = q.linked /\ hrReq'[r].member = m
        BY <1>5, <3>4, <3>7 DEF HrAt
      <4>4. QED
        BY <2>2, <3>2, <3>3, <4>2, <4>3
    <3>8. QED
      BY <3>6, <3>7
  <2>10. /\ x.member # None => members'[x.member] # NoMember
         /\ x.linked # None => accounts'[x.linked] # NoAccount
         /\ x.pc # "findLinked"
    BY <1>3, <1>5, <2>4
  <2>11. QED
    BY <1>3, <1>9, <2>5, <2>6, <2>7, <2>8, <2>9, <2>10, FollowStep
<1>10. QED
  BY <1>1, <1>2, <1>4, <1>6, <1>8, <1>9 DEF WriteMember

\* A call that throws, or the end of the process, leaves an account behind only if
\* it is between the two writes.
LEMMA FollowStops ==
  ASSUME HrInv, HrInv', FollowInv, HrTypeOK', Die \/ \E r \in HrSlots : Throw(r)
  PROVE  FollowInv'
<1>1. ASSUME NEW r \in HrSlots, Throw(r)
      PROVE  FollowInv'
  BY <1>1, FollowEnds DEF Throw
<1>2. CASE Die
  <2>1. UNCHANGED <<members, accounts, oneAtATime>>
    BY <1>2 DEF Die
  <2>2. \A r \in HrSlots : hrReq'[r] = NoHrRequest
    BY <1>2 DEF Die
  <2>3. \A r \in HrSlots : hrReq'[r].pc = "idle" /\ hrReq'[r].member = None /\ hrReq'[r].linked = None
    BY <2>2 DEF NoHrRequest
  <2>4. AddressesUnique'
    BY <2>1 DEF FollowInv, AddressesUnique, IsMember
  <2>5. HrRefers'
    BY <2>1, <2>3 DEF FollowInv, HrRefers, HrAt
  <2>6. \A r \in HrSlots : HrFound(hrReq[r])'
    BY <2>3 DEF HrFound
  <2>7. ASSUME oneAtATime, ~ torn', NEW a \in AccountIds
        PROVE  Followed(a)'
    <3>1. \A r \in HrSlots : ~ HrAt(r, "moveAccount") /\ ~ HrAt(r, "moveAccount")'
      BY <1>2, <2>3, <2>7 DEF Die, HrAt
    <3>2. Followed(a)
      BY <1>2, <2>7 DEF FollowInv, Die
    <3>3. QED
      BY <2>1, <3>1, <3>2 DEF Followed, IsMember
  <2>8. QED
    BY <2>1, <2>3, <2>4, <2>5, <2>6, <2>7 DEF FollowInv, HrAt
<1>3. QED
  BY <1>1, <1>2

\* What is stored has its type.
LEMMA HrTypeKept ==
  ASSUME HrInv, HrInv', FollowInv, [HrNext]_hrVars
  PROVE  HrTypeOK'
<1>1. members' \in [MemberIds -> Member \union {NoMember, GoneMember}] /\ hrReq' \in [HrSlots -> HrRequest]
  BY DEF HrInv, PhotoInv
<1>2. oneAtATime' \in BOOLEAN /\ torn' \in BOOLEAN
  <2>1. oneAtATime \in BOOLEAN /\ torn \in BOOLEAN
    BY Zenon DEF FollowInv, HrTypeOK
  <2>2. oneAtATime' = oneAtATime
    BY DEF HrNext, HrStep, hrVars, CreateMemberFind, RemoveMemberFind,
       UpdateMemberFind, BeginHr, Upload, InsertMember, FindAccount, CreateAccount, FindLinked,
       FindConflict, CheckEmail, FindPhoto, ReadHr, WriteMember, MoveAccount, DeleteMember, RemoveOld,
       Discard, Throw, ProfileUpdated, Die
  <2>3. ASSUME NEW r \in HrSlots, Throw(r)
        PROVE  torn' \in BOOLEAN
    BY <2>3, Zenon DEF Throw
  <2>4. CASE Die
    <3>1. torn' = (torn \/ \E r \in HrSlots : HrAt(r, "moveAccount"))
      BY <2>4, Zenon DEF Die
    <3>2. (torn \/ \E r \in HrSlots : HrAt(r, "moveAccount")) \in BOOLEAN
      OBVIOUS
    <3>3. QED
      BY <2>1, <2>2, <3>1, <3>2, Zenon
  <2>5. CASE UNCHANGED torn
    BY <2>1, <2>2, <2>5
  <2>6. UNCHANGED torn \/ Die \/ \E r \in HrSlots : Throw(r)
    BY DEF HrNext, HrStep, hrVars, CreateMemberFind, RemoveMemberFind,
       UpdateMemberFind, BeginHr, Upload, InsertMember, FindAccount, CreateAccount, FindLinked,
       FindConflict, CheckEmail, FindPhoto, ReadHr, WriteMember, MoveAccount, DeleteMember, RemoveOld,
       Discard, ProfileUpdated
  <2>7. QED
    BY <2>1, <2>2, <2>3, <2>4, <2>5, <2>6, Zenon
<1>3. photos' \subseteq Images
  BY DEF FollowInv, HrTypeOK, HrNext, HrStep, hrVars, CreateMemberFind, RemoveMemberFind,
     UpdateMemberFind, BeginHr, Upload, InsertMember, FindAccount, CreateAccount, FindLinked,
     FindConflict, CheckEmail, FindPhoto, ReadHr, WriteMember, MoveAccount, DeleteMember, RemoveOld,
     Discard, Throw, ProfileUpdated, Die
<1>4. accounts' \in [AccountIds -> Account \union {NoAccount}]
  <2>1. accounts \in [AccountIds -> Account \union {NoAccount}]
    BY DEF FollowInv, HrTypeOK
  <2>2. ASSUME NEW r \in HrSlots, CreateAccount(r)
        PROVE  accounts' \in [AccountIds -> Account \union {NoAccount}]
    <3>1. PICK q : q = hrReq[r]
      OBVIOUS
    <3>2. q.email \in Emails /\ q.member \in MemberIds
      BY <2>2, <3>1 DEF HrInv, PhotoInv, CreateAccount, HrAt, HrProgress, HrRequest
    <3>3. [email |-> q.email, username |-> UserName[q.email], member |-> q.member] \in Account
      BY <3>2 DEF Account
    <3>4. QED
      BY <2>1, <2>2, <3>1, <3>3 DEF CreateAccount
  <2>3. ASSUME NEW r \in HrSlots, MoveAccount(r)
        PROVE  accounts' \in [AccountIds -> Account \union {NoAccount}]
    <3>1. PICK q : q = hrReq[r]
      OBVIOUS
    <3>2. /\ q.email \in Emails /\ q.linked \in AccountIds /\ accounts[q.linked] # NoAccount
      BY <2>3, <3>1 DEF HrInv, PhotoInv, MoveAccount, HrAt, HrProgress, HrRequest, FollowInv, HrRefers
    <3>3. [accounts[q.linked] EXCEPT !.email = q.email] \in Account
      BY <3>2, HrAccountTyped DEF Account
    <3>4. QED
      BY <2>1, <2>3, <3>1, <3>2, <3>3 DEF MoveAccount
  <2>4. UNCHANGED accounts \/ \E r \in HrSlots : CreateAccount(r) \/ MoveAccount(r)
    BY DEF HrNext, HrStep, hrVars, CreateMemberFind, RemoveMemberFind, UpdateMemberFind, BeginHr,
       Upload, InsertMember, FindAccount, FindLinked, FindConflict, CheckEmail, FindPhoto, ReadHr,
       WriteMember, DeleteMember, RemoveOld, Discard, Throw, ProfileUpdated, Die
  <2>5. QED
    BY <2>1, <2>2, <2>3, <2>4
<1>5. QED
  BY <1>1, <1>2, <1>3, <1>4 DEF HrTypeOK

LEMMA FollowNextKeepsInv ==
  ASSUME HrInv, HrInv', FollowInv, [HrNext]_hrVars
  PROVE  FollowInv'
<1>1. HrTypeOK'
  BY HrTypeKept
<1>2. CASE UNCHANGED hrVars
  BY <1>2 DEF hrVars, FollowInv, HrTypeOK, AddressesUnique, HrRefers, HrAt, HrFound, Followed, IsMember,
     AccountWith
<1>3. ASSUME NEW r \in HrSlots, HrStep(r)
      PROVE  FollowInv'
  BY <1>1, <1>3, FollowBegins, FollowReads, FollowDiscards, FollowInserts, FollowAccounts,
     FollowMoved, FollowDeletes, FollowWrites, FollowStops DEF HrStep
<1>4. QED
  BY <1>1, <1>2, <1>3, FollowProfiles, FollowStops DEF HrNext

\* Nobody has an account at first, and no request has found one.
LEMMA FollowInitInv == HrInit => FollowInv
<1> SUFFICES ASSUME HrInit PROVE FollowInv
  OBVIOUS
<1>1. \A r \in HrSlots : hrReq[r].pc = "idle" /\ hrReq[r].member = None /\ hrReq[r].linked = None
  BY DEF HrInit, NoHrRequest
<1>2. /\ \A a \in AccountIds : accounts[a] = NoAccount
      /\ \A m \in MemberIds : ~ IsMember(m)
  BY DEF HrInit, IsMember
<1>3. HrTypeOK
  BY HrRequests DEF HrInit, HrTypeOK
<1>4. QED
  BY <1>1, <1>2, <1>3 DEF FollowInv, AddressesUnique, HrRefers, HrAt, HrFound, Followed

\* The invariant of the team members and their accounts: HrInv and FollowInv.
THEOREM HrInvariance == HrSpec => [](HrInv /\ FollowInv)
<1>1. HrInv /\ FollowInv /\ [HrNext]_hrVars => HrInv' /\ FollowInv'
  BY HrNextKeepsInv, FollowNextKeepsInv
<1>2. QED
  BY <1>1, HrInitInv, FollowInitInv, PTL DEF HrSpec

\* Members, accounts, images and requests in flight always have their types.
THEOREM HrTypeCorrect == HrSpec => []HrTypeOK
<1>1. FollowInv => HrTypeOK
  BY DEF FollowInv
<1>2. QED
  BY <1>1, HrInvariance, PTL

\* Only in the middle of an update is an account behind its member.
LEMMA AccountsInStep == HrInv /\ FollowInv => AccountsFollow
<1> SUFFICES ASSUME HrInv, FollowInv, oneAtATime, HrIdle, ~ torn, NEW a \in AccountIds,
                    accounts[a] # NoAccount, IsMember(accounts[a].member)
             PROVE  accounts[a].email = members[accounts[a].member].email
  BY DEF AccountsFollow
<1>1. Followed(a) /\ \A r \in HrSlots : ~ HrAt(r, "moveAccount")
  BY DEF FollowInv, HrIdle, HrAt
<1>2. QED
  BY <1>1 DEF Followed

\* One request at a time and none cut off between its two writes, the account made
\* for a member has the member's address (updateTeamMember writes the member first
\* and then the account it had found at the address before).
THEOREM AccountsFollowMembers == HrSpec => []AccountsFollow
<1>1. QED
  BY AccountsInStep, HrInvariance, PTL
===============================================================================
