-------------------------- MODULE PasswordResetProofs --------------------------
(***************************************************************************)
(* Proofs about PasswordReset: SecretsInv is inductive for any number of   *)
(* requests in flight, and SerialInv for one, and together they imply what *)
(* the password reset promises of its codes and tokens.                    *)
(***************************************************************************)
EXTENDS PasswordReset, TLAPS

--------------------------------------------------------------------------------
(* Types.                                                                  *)

\* TypeOK but for the requests.
DataOK ==
  /\ secured \in BOOLEAN /\ cooling \in BOOLEAN
  /\ recent \in BOOLEAN /\ hurried \in BOOLEAN /\ slipped \in BOOLEAN
  /\ generated \in 0 .. MaxSecrets /\ latest \in 0 .. generated /\ outlived \in 0 .. generated
  /\ store \in [Places -> [Kinds -> 0 .. generated]]
  /\ expired \union mailed \union returned \union spent \subseteq 1 .. generated

LEMMA TypeParts == TypeOK <=> DataOK /\ req \in [Requests -> Request]
BY DEF TypeOK, DataOK

LEMMA RequestFields ==
  ASSUME NEW x \in Request
  PROVE  /\ x.pc \in PCs /\ x.kind \in Kinds
         /\ x.secret \in 0 .. MaxSecrets /\ x.fallback \in 0 .. MaxSecrets
         /\ x.minted \in 0 .. MaxSecrets
BY ConstantsAssumption DEF Request, Secrets, NoSecret

\* A request that goes on is the same but for its pc.
LEMMA Proceeded ==
  ASSUME NEW x \in Request, NEW pc \in PCs
  PROVE  LET y == [x EXCEPT !.pc = pc]
         IN  /\ y \in Request /\ y.pc = pc /\ y.handler = x.handler /\ y.kind = x.kind
             /\ y.secret = x.secret /\ y.fallback = x.fallback /\ y.minted = x.minted
BY DEF Request

LEMMA IdleFields ==
  /\ Idle \in Request /\ Idle.pc = "idle"
  /\ Idle.secret = NoSecret /\ Idle.fallback = NoSecret /\ Idle.minted = NoSecret
BY DEF Idle, Request, PCs, Kinds

\* A write of a secret that was generated, or of none, keeps the records' type.
LEMMA WritesTyped ==
  ASSUME DataOK, NEW kind \in Kinds, NEW secret \in 0 .. generated,
         RedisWrites(kind, secret) \/ MongoWrites(kind, secret)
  PROVE  /\ store' \in [Places -> [Kinds -> 0 .. generated]]
         /\ slipped' \in BOOLEAN
<1>1. ASSUME NEW place \in Places
      PROVE  [store EXCEPT ![place][kind] = secret] \in [Places -> [Kinds -> 0 .. generated]]
  BY DEF DataOK
<1>2. QED
  BY <1>1 DEF RedisWrites, MongoWrites, Places, DataOK
--------------------------------------------------------------------------------
(* Every step keeps SecretsInv.                                            *)

LEMMA RequestMoves ==
  ASSUME SecretsInv, DataOK', generated =< generated',
         NEW r \in Requests, NEW x \in Request, req' = [req EXCEPT ![r] = x],
         KnownSecrets(x)'
  PROVE  SecretsInv'
<1>1. req' \in [Requests -> Request] /\ req'[r] = x
      /\ \A q \in Requests \ {r} : req'[q] = req[q]
  BY DEF SecretsInv, TypeOK
<1>2. TypeOK'
  BY <1>1 DEF TypeOK, DataOK
<1>3. generated \in Nat /\ generated' \in Nat
  BY ConstantsAssumption DEF SecretsInv, TypeOK, DataOK
<1>4. ASSUME NEW q \in Requests PROVE KnownSecrets(req[q])'
  <2>1. CASE q = r
    BY <1>1, <2>1 DEF KnownSecrets
  <2>2. CASE q # r
    <3>1. req[q].minted \in Nat /\ req[q].secret \in Nat
      BY RequestFields, ConstantsAssumption DEF SecretsInv, TypeOK
    <3>2. QED
      BY <1>1, <1>3, <2>2, <3>1 DEF KnownSecrets, SecretsInv
  <2>3. QED
    BY <2>1, <2>2
<1>5. QED
  BY <1>2, <1>4 DEF SecretsInv

LEMMA RequestProceeds ==
  ASSUME SecretsInv, DataOK', UNCHANGED generated,
         NEW r \in Requests, NEW pc \in PCs, Proceed(r, pc),
         pc \in Issuing \union Tokening => req[r].minted # NoSecret,
         pc \notin Issuing \union {"idle"} => req[r].secret # NoSecret
  PROVE  SecretsInv'
<1>1. req[r] \in Request
  BY DEF SecretsInv, TypeOK
<1>2. PICK x \in Request :
        /\ x = [req[r] EXCEPT !.pc = pc]
        /\ x.pc = pc /\ x.secret = req[r].secret /\ x.minted = req[r].minted
  BY <1>1, Proceeded
<1>3. KnownSecrets(x)'
  BY <1>2 DEF KnownSecrets, SecretsInv
<1>4. generated =< generated'
  BY ConstantsAssumption DEF SecretsInv, TypeOK
<1>5. QED
  BY <1>2, <1>3, <1>4, RequestMoves DEF Proceed

LEMMA RequestAnswered ==
  ASSUME SecretsInv, DataOK', UNCHANGED generated, NEW r \in Requests, Answer(r)
  PROVE  SecretsInv'
<1>1. KnownSecrets(Idle)'
  BY IdleFields, ConstantsAssumption DEF KnownSecrets, SecretsInv, TypeOK, NoSecret, Issuing, Tokening
<1>2. generated =< generated'
  BY ConstantsAssumption DEF SecretsInv, TypeOK
<1>3. QED
  BY <1>1, <1>2, IdleFields, RequestMoves DEF Answer

\* Without secrets, SecretsInv holds.
THEOREM ResetInitInv == Init => SecretsInv
<1> SUFFICES ASSUME Init PROVE SecretsInv
  OBVIOUS
<1>1. generated = 0 /\ \A r \in Requests : req[r] = Idle
  BY DEF Init
<1>2. KnownSecrets(Idle)
  BY <1>1, IdleFields DEF KnownSecrets, Issuing, Tokening, NoSecret
<1>3. 0 .. generated = {0} /\ 0 \in 0 .. MaxSecrets
  BY <1>1, ConstantsAssumption
<1>4. store \in [Places -> [Kinds -> 0 .. generated]]
  BY <1>3 DEF Init, NoSecret
<1>5. DataOK
  BY <1>1, <1>3, <1>4 DEF Init, DataOK, NoSecret
<1>6. req \in [Requests -> Request]
  BY IdleFields DEF Init
<1>7. QED
  BY <1>1, <1>2, <1>5, <1>6, TypeParts DEF SecretsInv

\* One more secret is generated, and the data is otherwise left alone.
LEMMA OneMoreSecret ==
  ASSUME DataOK, generated < MaxSecrets, generated' = generated + 1,
         UNCHANGED <<secured, cooling, recent, hurried, latest, outlived>>,
         UNCHANGED <<expired, mailed, returned, spent>>,
         store' \in [Places -> [Kinds -> 0 .. generated]], slipped' \in BOOLEAN
  PROVE  DataOK' /\ generated =< generated'
<1>1. generated' \in 0 .. MaxSecrets
  BY ConstantsAssumption DEF DataOK
<1>2. 0 .. generated \subseteq 0 .. generated' /\ 1 .. generated \subseteq 1 .. generated'
  BY ConstantsAssumption DEF DataOK
<1>3. generated =< generated'
  BY ConstantsAssumption DEF DataOK
<1>4. QED
  BY <1>1, <1>2, <1>3 DEF DataOK

LEMMA IssueFindKeepsInv ==
  ASSUME SecretsInv, NEW r \in Requests, IssueFind(r)
  PROVE  SecretsInv'
<1>1. generated < MaxSecrets /\ generated' = generated + 1
  BY DEF IssueFind
<1>2. DataOK' /\ generated =< generated'
  BY <1>1, OneMoreSecret, TypeParts DEF IssueFind, SecretsInv, history, DataOK
<1>3. generated' \in Secrets /\ generated' # NoSecret
  BY <1>1, ConstantsAssumption DEF SecretsInv, TypeOK, Secrets, NoSecret
<1> DEFINE y == [Idle EXCEPT !.pc = "issueMongo", !.handler = "issue", !.minted = generated + 1]
<1>y. y \in Request /\ y.pc = "issueMongo" /\ y.minted = generated' /\ y.secret = NoSecret
  BY <1>1, <1>3 DEF Idle, Request, PCs, Kinds
<1>4. PICK x \in Request :
        x = y /\ x.pc = "issueMongo" /\ x.minted = generated' /\ x.secret = NoSecret
  BY <1>y
<1>5. KnownSecrets(x)'
  BY <1>3, <1>4, ConstantsAssumption DEF KnownSecrets, Issuing, NoSecret, Secrets
<1>6. QED
  BY <1>2, <1>4, <1>5, RequestMoves DEF IssueFind

LEMMA IssueStepsKeepInv ==
  ASSUME SecretsInv, NEW r \in Requests, IssueMongo(r) \/ IssueRedis(r) \/ IssueMail(r)
  PROVE  SecretsInv'
<1>1. DataOK /\ req[r] \in Request /\ KnownSecrets(req[r])
  BY TypeParts DEF SecretsInv
<1>2. req[r].pc \in Issuing
  BY DEF IssueMongo, IssueRedis, IssueMail, At, Issuing
<1>3. req[r].minted \in 1 .. generated /\ req[r].minted \in 0 .. generated
  BY <1>1, <1>2, RequestFields, ConstantsAssumption DEF KnownSecrets, DataOK, NoSecret
<1>4. CASE IssueMongo(r)
  <2>1. DataOK'
    BY <1>1, <1>3, <1>4, WritesTyped DEF IssueMongo, secretVars, DataOK, Kinds
  <2>2. Proceed(r, "issueRedis") /\ UNCHANGED generated
    BY <1>4 DEF IssueMongo, secretVars
  <2>3. QED
    BY <1>3, <2>1, <2>2, RequestProceeds DEF PCs, Issuing, NoSecret
<1>5. CASE IssueRedis(r)
  <2>1. DataOK'
    BY <1>1, <1>3, <1>5, WritesTyped DEF IssueRedis, secretVars, history, DataOK, Kinds
  <2>2. Proceed(r, "issueMail") /\ UNCHANGED generated
    BY <1>5 DEF IssueRedis, secretVars
  <2>3. QED
    BY <1>3, <2>1, <2>2, RequestProceeds DEF PCs, Issuing, NoSecret
<1>6. CASE IssueMail(r)
  <2>1. DataOK'
    BY <1>1, <1>3, <1>6, ConstantsAssumption DEF IssueMail, DataOK
  <2>2. Answer(r) /\ UNCHANGED generated
    BY <1>6 DEF IssueMail
  <2>3. QED
    BY <2>1, <2>2, RequestAnswered
<1>7. QED
  BY <1>4, <1>5, <1>6

LEMMA PresentKeepsInv ==
  ASSUME SecretsInv, NEW r \in Requests, NEW c \in Secrets, VerifyFind(r, c) \/ ResetFind(r, c)
  PROVE  SecretsInv'
<1>1. PICK kind \in Kinds, handler \in {"verify", "reset"} : Present(r, handler, kind, c)
  BY DEF VerifyFind, ResetFind, Kinds
<1>2. c =< generated /\ c # NoSecret
  BY ConstantsAssumption DEF VerifyFind, ResetFind, SecretsInv, TypeOK, Secrets, NoSecret
<1>3. store["mongo"][kind] \in Secrets \union {NoSecret}
  BY ConstantsAssumption DEF SecretsInv, TypeOK, Places, Secrets, NoSecret
<1> DEFINE y == [Idle EXCEPT !.pc = "authorize", !.handler = handler, !.kind = kind,
                             !.secret = c, !.fallback = store["mongo"][kind]]
<1>y. y \in Request /\ y.pc = "authorize" /\ y.secret = c /\ y.minted = NoSecret
  BY <1>3 DEF Idle, Request, PCs
<1>4. PICK x \in Request :
        x = y /\ x.pc = "authorize" /\ x.secret = c /\ x.minted = NoSecret
  BY <1>y
<1>5. DataOK' /\ UNCHANGED generated
  BY <1>1, TypeParts DEF Present, SecretsInv, DataOK, secretVars, history
<1>6. KnownSecrets(x)' /\ generated =< generated'
  BY <1>2, <1>4, <1>5, ConstantsAssumption
     DEF KnownSecrets, Issuing, Tokening, NoSecret, SecretsInv, TypeOK
<1>7. QED
  BY <1>1, <1>4, <1>5, <1>6, RequestMoves DEF Present

LEMMA AuthorizeKeepsInv ==
  ASSUME SecretsInv, NEW r \in Requests, Authorize(r) \/ WritePassword(r)
  PROVE  SecretsInv'
<1>1. DataOK' /\ UNCHANGED generated
  BY TypeParts DEF Authorize, WritePassword, SecretsInv, DataOK, secretVars, history
<1>2. req[r].secret # NoSecret
  BY DEF Authorize, WritePassword, At, SecretsInv, KnownSecrets, Issuing
<1>3. \/ Answer(r)
      \/ \E pc \in {"delExpired", "write", "clearRedisOtp"} : Proceed(r, pc)
  BY DEF Authorize, Judge, WritePassword
<1>4. QED
  BY <1>1, <1>2, <1>3, RequestAnswered, RequestProceeds DEF PCs, Issuing, Tokening

LEMMA ClearKeepsInv ==
  ASSUME SecretsInv, NEW r \in Requests,
         DeleteExpired(r) \/ ClearRedisOtp(r) \/ ClearRedisToken(r)
  PROVE  SecretsInv'
<1>1. DataOK /\ req[r] \in Request /\ NoSecret \in 0 .. generated
  BY TypeParts, ConstantsAssumption DEF SecretsInv, NoSecret, DataOK
<1>2. PICK kind \in Kinds : RedisWrites(kind, NoSecret)
  BY <1>1, RequestFields DEF DeleteExpired, ClearRedisOtp, ClearRedisToken, Kinds
<1>3. DataOK' /\ UNCHANGED generated
  BY <1>1, <1>2, WritesTyped
     DEF DeleteExpired, ClearRedisOtp, ClearRedisToken, DataOK, secretVars, history
<1>4. req[r].secret # NoSecret
  BY DEF DeleteExpired, ClearRedisOtp, ClearRedisToken, At, SecretsInv, KnownSecrets, Issuing
<1>5. Answer(r) \/ \E pc \in {"clearMongoOtp", "clearMongoToken"} : Proceed(r, pc)
  BY DEF DeleteExpired, ClearRedisOtp, ClearRedisToken
<1>6. QED
  BY <1>3, <1>4, <1>5, RequestAnswered, RequestProceeds DEF PCs, Issuing, Tokening

LEMMA ClearMongoOtpKeepsInv ==
  ASSUME SecretsInv, NEW r \in Requests, ClearMongoOtp(r)
  PROVE  SecretsInv'
<1>1. DataOK /\ req[r] \in Request /\ NoSecret \in 0 .. generated
  BY TypeParts, ConstantsAssumption DEF SecretsInv, NoSecret, DataOK
<1>2. /\ store' \in [Places -> [Kinds -> 0 .. generated]]
      /\ slipped' \in BOOLEAN
  BY <1>1, WritesTyped DEF ClearMongoOtp, Kinds
<1>3. req[r].secret # NoSecret /\ req[r].secret =< generated
  BY DEF ClearMongoOtp, At, SecretsInv, KnownSecrets, Issuing
<1>4. CASE req[r].handler = "reset"
  <2>1. Proceed(r, "clearRedisToken") /\ UNCHANGED generated
    BY <1>4 DEF ClearMongoOtp
  <2>2. DataOK'
    BY <1>1, <1>2, <2>1 DEF ClearMongoOtp, DataOK, history
  <2>3. QED
    BY <1>3, <2>1, <2>2, RequestProceeds DEF PCs, Issuing, Tokening
<1>5. CASE req[r].handler # "reset"
  <2>1. generated < MaxSecrets /\ generated' = generated + 1
    BY <1>5 DEF ClearMongoOtp
  <2>2. DataOK' /\ generated =< generated'
    BY <1>1, <1>2, <2>1, OneMoreSecret DEF ClearMongoOtp, history
  <2>3. generated' \in Secrets /\ generated' # NoSecret
    BY <2>1, ConstantsAssumption DEF SecretsInv, TypeOK, Secrets, NoSecret
  <2> DEFINE y == [req[r] EXCEPT !.pc = "tokenRedis", !.minted = generated + 1]
  <2>y. y \in Request /\ y.pc = "tokenRedis" /\ y.minted = generated' /\ y.secret = req[r].secret
    BY <1>1, <2>1, <2>3 DEF Request, PCs
  <2>4. PICK x \in Request :
          x = y /\ x.pc = "tokenRedis" /\ x.minted = generated' /\ x.secret = req[r].secret
    BY <2>y
  <2>5. req' = [req EXCEPT ![r] = x]
    BY <1>5, <2>4 DEF ClearMongoOtp
  <2>6. req[r].secret \in Nat /\ generated \in Nat /\ generated' \in Nat
    BY <1>1, <2>2, RequestFields, ConstantsAssumption DEF DataOK
  <2>7. KnownSecrets(x)'
    BY <1>3, <2>2, <2>3, <2>4, <2>6 DEF KnownSecrets
  <2>8. QED
    BY <2>2, <2>5, <2>7, RequestMoves
<1>6. QED
  BY <1>4, <1>5

LEMMA TokenKeepsInv ==
  ASSUME SecretsInv, NEW r \in Requests, TokenRedis(r) \/ TokenMongo(r) \/ ClearMongoToken(r)
  PROVE  SecretsInv'
<1>1. DataOK /\ req[r] \in Request /\ KnownSecrets(req[r]) /\ NoSecret \in 0 .. generated
  BY TypeParts, ConstantsAssumption DEF SecretsInv, NoSecret, DataOK
<1>2. req[r].secret \in 1 .. generated /\ req[r].secret # NoSecret
  BY <1>1, RequestFields, ConstantsAssumption
     DEF TokenRedis, TokenMongo, ClearMongoToken, At, KnownSecrets, Issuing, DataOK, NoSecret
<1>3. CASE TokenRedis(r) \/ TokenMongo(r)
  <2>1. req[r].minted \in 1 .. generated /\ req[r].minted \in 0 .. generated
    BY <1>1, <1>3, RequestFields, ConstantsAssumption
       DEF TokenRedis, TokenMongo, At, KnownSecrets, Tokening, DataOK, NoSecret
  <2>2. /\ store' \in [Places -> [Kinds -> 0 .. generated]]
        /\ slipped' \in BOOLEAN
    BY <1>1, <1>3, <2>1, WritesTyped DEF TokenRedis, TokenMongo, Kinds
  <2>3. DataOK' /\ UNCHANGED generated
    BY <1>1, <1>2, <1>3, <2>1, <2>2 DEF TokenRedis, TokenMongo, DataOK, secretVars, history
  <2>4. Answer(r) \/ Proceed(r, "tokenMongo")
    BY <1>3 DEF TokenRedis, TokenMongo
  <2>5. QED
    BY <1>2, <2>1, <2>3, <2>4, RequestAnswered, RequestProceeds DEF PCs, NoSecret
<1>4. CASE ClearMongoToken(r)
  <2>1. /\ store' \in [Places -> [Kinds -> 0 .. generated]]
        /\ slipped' \in BOOLEAN
    BY <1>1, <1>4, WritesTyped DEF ClearMongoToken, Kinds
  <2>2. generated \in 0 .. generated
    BY <1>1, ConstantsAssumption DEF DataOK
  <2>3. DataOK' /\ UNCHANGED generated
    BY <1>1, <1>2, <1>4, <2>1, <2>2 DEF ClearMongoToken, DataOK, secretVars
  <2>4. QED
    BY <1>4, <2>3, RequestAnswered DEF ClearMongoToken
<1>5. QED
  BY <1>3, <1>4

LEMMA ClockKeepsInv ==
  ASSUME SecretsInv,
         (\E c \in Secrets : Expire(c)) \/ (\E kind \in Kinds : LoseKey(kind)) \/ CoolDown
  PROVE  SecretsInv'
<1>1. DataOK /\ UNCHANGED <<generated, req>>
  BY TypeParts DEF SecretsInv, Expire, LoseKey, CoolDown, secretVars
<1>2. DataOK'
  <2>1. CASE \E c \in Secrets : Expire(c)
    <3>1. PICK c \in Secrets, place \in Places, kind \in Kinds :
            store[place][kind] = c /\ Expire(c)
      BY <2>1 DEF Expire
    <3>2. c \in 1 .. generated
      BY <1>1, <3>1, ConstantsAssumption DEF DataOK, Secrets
    <3>3. QED
      BY <1>1, <3>1, <3>2 DEF Expire, DataOK, history
  <2>2. CASE \E kind \in Kinds : LoseKey(kind)
    <3>1. PICK kind \in Kinds : store' = [store EXCEPT !["redis"][kind] = 0]
      BY <2>2 DEF LoseKey, NoSecret
    <3>2. 0 \in 0 .. generated
      BY <1>1, ConstantsAssumption DEF DataOK
    <3>3. store' \in [Places -> [Kinds -> 0 .. generated]]
      BY <1>1, <3>1, <3>2 DEF DataOK
    <3>4. QED
      BY <1>1, <2>2, <3>3 DEF LoseKey, DataOK, history, secretVars
  <2>3. CASE CoolDown
    BY <1>1, <2>3 DEF CoolDown, DataOK, secretVars
  <2>4. QED
    BY <2>1, <2>2, <2>3
<1>3. QED
  BY <1>1, <1>2 DEF SecretsInv, TypeOK, DataOK, KnownSecrets

\* Every step of the codes, the tokens and the clock keeps SecretsInv.
THEOREM ResetNextKeepsInv == SecretsInv /\ [Next]_vars => SecretsInv'
<1> SUFFICES ASSUME SecretsInv, [Next]_vars PROVE SecretsInv'
  OBVIOUS
<1>1. CASE UNCHANGED vars
  BY <1>1 DEF vars, secretVars, history, SecretsInv, TypeOK, KnownSecrets
<1>2. ASSUME NEW r \in Requests, Crash(r)
      PROVE  SecretsInv'
  <2>1. DataOK' /\ UNCHANGED generated /\ Answer(r)
    BY <1>2, TypeParts DEF Crash, SecretsInv, DataOK, secretVars, history
  <2>2. QED
    BY <2>1, RequestAnswered
<1>3. QED
  BY <1>1, <1>2, IssueFindKeepsInv, IssueStepsKeepInv, PresentKeepsInv, AuthorizeKeepsInv,
     ClearKeepsInv, ClearMongoOtpKeepsInv, TokenKeepsInv, ClockKeepsInv DEF Next, RequestStep

\* SecretsInv always holds.
THEOREM ResetInvariance == Spec => []SecretsInv
<1>1. QED
  BY ResetInitInv, ResetNextKeepsInv, PTL DEF Spec

\* The records, the secrets handed out and the requests always have their types.
THEOREM ResetTypeCorrect == Spec => []TypeOK
<1>1. SecretsInv => TypeOK
  BY DEF SecretsInv
<1>2. QED
  BY <1>1, ResetInvariance, PTL
--------------------------------------------------------------------------------
(* Requests served one at a time.                                          *)

OneAtATime == \A r, q \in Requests : r = q

\* Without secrets, SerialInv holds.
THEOREM SerialInitInv == Init => SerialInv
<1> SUFFICES ASSUME Init PROVE SerialInv
  OBVIOUS
<1>1. \A r \in Requests : req[r] = Idle
  BY DEF Init
<1>2. \A place \in Places, kind \in Kinds : store[place][kind] = NoSecret
  BY DEF Init
<1>3. \A r \in Requests : Progress(req[r]) /\ ~ At(r, "issueMongo")
  BY <1>1, IdleFields DEF Progress, Issuing, Tokening, At
<1>4. "mongo" \in Places
  BY DEF Places
<1>5. QED
  BY <1>2, <1>3, <1>4 DEF Init, SerialInv, Current, Kept

\* What is left to show of a step of the only request.
Paced(pc) == secured => cooling = recent /\ ~ hurried /\ (pc = "issueMongo" => ~ recent)

NoCopies == ~ secured => \A kind \in Kinds : Kept("mongo", kind, {})

AllCurrent == \A place \in Places, kind \in Kinds : Current(place, kind)

LEMMA SerialParts ==
  ASSUME OneAtATime, SecretsInv, SerialInv, NEW r \in Requests
  PROVE  /\ Paced(req[r].pc) /\ NoCopies
         /\ ~ slipped => AllCurrent /\ Progress(req[r])
BY DEF SerialInv, Paced, NoCopies, AllCurrent, At

LEMMA SerialStep ==
  ASSUME OneAtATime, SecretsInv, NEW r \in Requests, NEW x \in Request,
         req' = [req EXCEPT ![r] = x],
         Paced(x.pc)', NoCopies', ~ slipped' => AllCurrent' /\ Progress(x)'
  PROVE  SerialInv'
<1>1. \A q \in Requests : req'[q] = x
  BY DEF SecretsInv, TypeOK, OneAtATime
<1>2. QED
  BY <1>1 DEF SerialInv, Paced, NoCopies, AllCurrent, At

LEMMA Goes ==
  ASSUME SecretsInv, NEW r \in Requests, NEW pc \in PCs, Proceed(r, pc)
  PROVE  \E x \in Request :
           /\ req' = [req EXCEPT ![r] = x] /\ x.pc = pc /\ x.kind = req[r].kind
           /\ x.secret = req[r].secret /\ x.fallback = req[r].fallback
           /\ x.minted = req[r].minted
<1> DEFINE y == [req[r] EXCEPT !.pc = pc]
<1>1. req[r] \in Request
  BY DEF SecretsInv, TypeOK
<1>2. /\ y \in Request /\ y.pc = pc /\ y.kind = req[r].kind
      /\ y.secret = req[r].secret /\ y.fallback = req[r].fallback /\ y.minted = req[r].minted
  BY <1>1, Proceeded
<1>3. QED
  BY <1>2 DEF Proceed

\* What a write of Redis leaves in the records, unless Redis fails.
LEMMA RedisWritten ==
  ASSUME SecretsInv, NEW kind \in Kinds, NEW secret, RedisWrites(kind, secret), ~ slipped'
  PROVE  /\ ~ slipped
         /\ store'["redis"][kind] = secret
         /\ \A place \in Places, k \in Kinds :
              place # "redis" \/ k # kind => store'[place][k] = store[place][k]
BY DEF RedisWrites, SecretsInv, TypeOK, Places

\* The copies of an account that has none stay as they are: there are none.
LEMMA RedisLeavesCopies ==
  ASSUME SecretsInv, NoCopies, NEW kind \in Kinds, NEW secret, RedisWrites(kind, secret),
         UNCHANGED secured
  PROVE  NoCopies'
<1>1. \A k \in Kinds : store'["mongo"][k] = store["mongo"][k]
  BY DEF RedisWrites, SecretsInv, TypeOK, Places
<1>2. QED
  BY <1>1 DEF NoCopies, Kept

\* What a write of auth_security leaves in the records.
LEMMA MongoWritten ==
  ASSUME SecretsInv, NoCopies, NEW kind \in Kinds, NEW secret, MongoWrites(kind, secret),
         UNCHANGED secured
  PROVE  /\ NoCopies' /\ UNCHANGED slipped
         /\ store'["mongo"][kind] = IF secured THEN secret ELSE NoSecret
         /\ \A place \in Places, k \in Kinds :
              place # "mongo" \/ k # kind => store'[place][k] = store[place][k]
<1>1. UNCHANGED slipped
  BY DEF MongoWrites
<1>2. CASE secured
  BY <1>1, <1>2 DEF MongoWrites, SecretsInv, TypeOK, Places, NoCopies, Kept
<1>3. CASE ~ secured
  BY <1>1, <1>3 DEF MongoWrites, NoCopies, Kept
<1>4. QED
  BY <1>2, <1>3

\* Forgetting a secret in Redis keeps what is left current.
LEMMA ForgetKeepsCurrent ==
  ASSUME AllCurrent, UNCHANGED <<outlived, spent, latest, mailed>>,
         \A place \in Places, kind \in Kinds :
           store'[place][kind] = store[place][kind] \/ store'[place][kind] = NoSecret
  PROVE  AllCurrent'
BY DEF AllCurrent, Current

\* A request that is cut short or refused.
LEMMA SerialAnswered ==
  ASSUME OneAtATime, SecretsInv, SerialInv, NEW r \in Requests, Answer(r), NoCopies',
         ~ slipped' => AllCurrent',
         UNCHANGED <<secured, cooling, recent, hurried>>
  PROVE  SerialInv'
<1>1. Paced(Idle.pc)'
  BY SerialParts, IdleFields DEF Paced
<1>2. Progress(Idle)'
  BY IdleFields DEF Progress, Issuing, Tokening
<1>3. QED
  BY <1>1, <1>2, IdleFields, SerialStep DEF Answer

LEMMA SerialIssueFind ==
  ASSUME OneAtATime, SecretsInv, SerialInv, NEW r \in Requests, IssueFind(r)
  PROVE  SerialInv'
<1> DEFINE y == [Idle EXCEPT !.pc = "issueMongo", !.handler = "issue", !.minted = generated + 1]
<1>1. generated' = generated + 1 /\ generated' \in Secrets
  BY ConstantsAssumption DEF IssueFind, SecretsInv, TypeOK, Secrets
<1>2. y \in Request /\ y.pc = "issueMongo" /\ y.minted = generated'
  BY <1>1 DEF Idle, Request, PCs, Kinds
<1>3. PICK x \in Request : x = y /\ x.pc = "issueMongo" /\ x.minted = generated'
  BY <1>2
<1>4. /\ req' = [req EXCEPT ![r] = x] /\ ~ cooling
      /\ UNCHANGED <<secured, store, cooling, mailed, latest, spent, outlived>>
      /\ UNCHANGED <<recent, hurried, slipped>>
  BY <1>3 DEF IssueFind, history
<1>5. Paced(x.pc)' /\ NoCopies'
  BY <1>4, SerialParts DEF Paced, NoCopies, Kept
<1>6. x.minted \notin mailed /\ x.minted \notin spent /\ x.minted > outlived
  BY <1>1, <1>3, ConstantsAssumption DEF SecretsInv, TypeOK
<1>7. Progress(x)'
  BY <1>3, <1>4, <1>6 DEF Progress, Issuing, Tokening
<1>8. ~ slipped' => AllCurrent'
  BY <1>4, SerialParts, ForgetKeepsCurrent
<1>9. QED
  BY <1>4, <1>5, <1>7, <1>8, SerialStep

LEMMA SerialIssueMongo ==
  ASSUME OneAtATime, SecretsInv, SerialInv, NEW r \in Requests, IssueMongo(r)
  PROVE  SerialInv'
<1>1. PICK x \in Request :
        /\ req' = [req EXCEPT ![r] = x] /\ x.pc = "issueRedis" /\ x.minted = req[r].minted
  BY Goes DEF IssueMongo, PCs
<1>2. /\ NoCopies' /\ UNCHANGED slipped
      /\ store'["mongo"]["otp"] = IF secured THEN x.minted ELSE NoSecret
      /\ \A place \in Places, k \in Kinds :
           place # "mongo" \/ k # "otp" => store'[place][k] = store[place][k]
  BY <1>1, SerialParts, MongoWritten DEF IssueMongo, Kinds
<1>3. /\ UNCHANGED <<secured, generated, mailed, latest, spent, outlived>>
      /\ cooling' = secured /\ recent' = TRUE /\ hurried' = (hurried \/ recent)
      /\ req[r].pc = "issueMongo"
  BY DEF IssueMongo, secretVars, At
<1>4. Paced(x.pc)'
  BY <1>1, <1>3, SerialParts DEF Paced
<1>5. ASSUME ~ slipped'
      PROVE  AllCurrent' /\ Progress(x)'
  <2>1. /\ x.minted \notin mailed /\ x.minted = generated /\ x.minted > outlived
        /\ x.minted \notin spent
    BY <1>1, <1>2, <1>3, <1>5, SerialParts DEF Progress, Issuing
  <2>2. Progress(x)'
    BY <1>1, <1>2, <1>3, <2>1 DEF Progress, Issuing, Tokening, Kept
  <2>3. AllCurrent
    BY <1>2, <1>5, SerialParts
  <2>4. AllCurrent'
    BY <1>2, <1>3, <2>1, <2>3 DEF AllCurrent, Current
  <2>5. QED
    BY <2>2, <2>4
<1>6. QED
  BY <1>1, <1>2, <1>4, <1>5, SerialStep

LEMMA SerialIssueRedis ==
  ASSUME OneAtATime, SecretsInv, SerialInv, NEW r \in Requests, IssueRedis(r)
  PROVE  SerialInv'
<1>1. PICK x \in Request :
        /\ req' = [req EXCEPT ![r] = x] /\ x.pc = "issueMail" /\ x.minted = req[r].minted
  BY Goes DEF IssueRedis, PCs
<1>2. /\ RedisWrites("otp", x.minted) /\ req[r].pc = "issueRedis"
      /\ UNCHANGED <<secured, cooling, generated, mailed, latest, spent, outlived>>
      /\ UNCHANGED <<recent, hurried>>
  BY <1>1 DEF IssueRedis, secretVars, history, At
<1>3. Paced(x.pc)' /\ NoCopies'
  BY <1>1, <1>2, SerialParts, RedisLeavesCopies DEF Paced, Kinds
<1>4. ASSUME ~ slipped'
      PROVE  AllCurrent' /\ Progress(x)'
  <2>1. /\ ~ slipped /\ store'["redis"]["otp"] = x.minted
        /\ \A place \in Places, k \in Kinds :
             place # "redis" \/ k # "otp" => store'[place][k] = store[place][k]
    BY <1>2, <1>4, RedisWritten DEF Kinds
  <2>2. AllCurrent /\ Progress(req[r])
    BY <2>1, SerialParts
  <2>3. /\ x.minted \notin mailed /\ x.minted = generated /\ x.minted > outlived
        /\ x.minted \notin spent /\ Kept("mongo", "otp", {x.minted})
    BY <1>1, <1>2, <2>2 DEF Progress, Issuing
  <2>4. "mongo" \in Places /\ "otp" \in Kinds
    BY DEF Places, Kinds
  <2>5. Progress(x)'
    BY <1>1, <1>2, <2>1, <2>3, <2>4 DEF Progress, Issuing, Tokening, Kept
  <2>6. AllCurrent'
    BY <1>2, <2>1, <2>2, <2>3 DEF AllCurrent, Current
  <2>7. QED
    BY <2>5, <2>6
<1>5. QED
  BY <1>1, <1>3, <1>4, SerialStep

LEMMA SerialIssueMail ==
  ASSUME OneAtATime, SecretsInv, SerialInv, NEW r \in Requests, IssueMail(r)
  PROVE  SerialInv'
<1>1. /\ UNCHANGED <<secured, store, cooling, spent, outlived, recent, hurried, slipped>>
      /\ Answer(r) /\ req[r].pc = "issueMail"
      /\ mailed' = mailed \union {req[r].minted} /\ latest' = req[r].minted
  BY DEF IssueMail, At
<1>2. NoCopies'
  BY <1>1, SerialParts DEF NoCopies, Kept
<1>3. ASSUME ~ slipped'
      PROVE  AllCurrent'
  <2>1. AllCurrent /\ Kept("redis", "otp", {req[r].minted}) /\ Kept("mongo", "otp", {req[r].minted})
    BY <1>1, <1>3, SerialParts DEF Progress
  <2>2. QED
    BY <1>1, <2>1 DEF AllCurrent, Current, Kept, Places
<1>4. QED
  BY <1>1, <1>2, <1>3, SerialAnswered

LEMMA SerialPresent ==
  ASSUME OneAtATime, SecretsInv, SerialInv, NEW r \in Requests, NEW c \in Secrets,
         VerifyFind(r, c) \/ ResetFind(r, c)
  PROVE  SerialInv'
<1>1. PICK kind \in Kinds, handler \in {"verify", "reset"} :
        Present(r, handler, kind, c) /\ (kind = "otp" => c \in mailed)
  BY DEF VerifyFind, ResetFind, Kinds
<1>2. store["mongo"][kind] \in Secrets \union {NoSecret}
  BY ConstantsAssumption DEF SecretsInv, TypeOK, Places, Secrets, NoSecret
<1> DEFINE y == [Idle EXCEPT !.pc = "authorize", !.handler = handler, !.kind = kind,
                             !.secret = c, !.fallback = store["mongo"][kind]]
<1>3. /\ y \in Request /\ y.pc = "authorize" /\ y.secret = c /\ y.kind = kind
      /\ y.fallback = store["mongo"][kind]
  BY <1>2 DEF Idle, Request, PCs
<1>4. PICK x \in Request :
        /\ x = y /\ x.pc = "authorize" /\ x.secret = c /\ x.kind = kind
        /\ x.fallback = store["mongo"][kind]
  BY <1>3
<1>5. /\ req' = [req EXCEPT ![r] = x]
      /\ UNCHANGED <<secured, store, cooling, generated, mailed, latest, spent, outlived>>
      /\ UNCHANGED <<recent, hurried, slipped>>
  BY <1>1, <1>4 DEF Present, secretVars, history
<1>6. Paced(x.pc)' /\ NoCopies'
  BY <1>4, <1>5, SerialParts DEF Paced, NoCopies, Kept
<1>7. Progress(x)'
  BY <1>1, <1>4, <1>5 DEF Progress, Issuing, Tokening
<1>8. ~ slipped' => AllCurrent'
  BY <1>5, SerialParts, ForgetKeepsCurrent
<1>9. QED
  BY <1>5, <1>6, <1>7, <1>8, SerialStep

LEMMA SerialAuthorize ==
  ASSUME OneAtATime, SecretsInv, SerialInv, NEW r \in Requests, Authorize(r)
  PROVE  SerialInv'
<1>1. /\ UNCHANGED <<secured, store, cooling, generated, mailed, latest, spent, outlived>>
      /\ UNCHANGED <<recent, hurried, slipped>> /\ req[r].pc = "authorize"
  BY DEF Authorize, secretVars, history, At
<1>2. NoCopies' /\ (~ slipped' => AllCurrent')
  BY <1>1, SerialParts, ForgetKeepsCurrent DEF NoCopies, Kept
<1>3. CASE Answer(r)
  BY <1>1, <1>2, <1>3, SerialAnswered
<1>4. CASE ~ Answer(r)
  <2>1. PICK pc \in {"delExpired", "write", "clearRedisOtp"} :
          /\ Proceed(r, pc)
          /\ pc # "delExpired" =>
               /\ req[r].secret # NoSecret
               /\ req[r].secret \in {store["redis"][req[r].kind], req[r].fallback}
    BY <1>4 DEF Authorize, Judge
  <2>2. PICK x \in Request :
          /\ req' = [req EXCEPT ![r] = x] /\ x.pc = pc /\ x.kind = req[r].kind
          /\ x.secret = req[r].secret
    BY <2>1, Goes DEF PCs
  <2>3. Paced(x.pc)'
    BY <1>1, <2>2, SerialParts DEF Paced
  <2>4. ASSUME ~ slipped, pc # "delExpired"
        PROVE  /\ x.kind = "otp" => x.secret = latest
               /\ x.secret > outlived /\ x.secret \notin spent
    <3>1. AllCurrent /\ Progress(req[r]) /\ req[r].kind \in Kinds
      BY <2>4, SerialParts, RequestFields DEF SecretsInv, TypeOK
    <3>2. PICK place \in Places : req[r].secret = store[place][req[r].kind]
      BY <1>1, <2>1, <2>4, <3>1 DEF Progress, Places
    <3>3. Current(place, req[r].kind) /\ store[place][req[r].kind] # NoSecret
      BY <2>1, <2>4, <3>1, <3>2 DEF AllCurrent
    <3>4. req[r].kind = "otp" => req[r].secret \in mailed
      BY <1>1, <3>1 DEF Progress
    <3>5. QED
      BY <2>2, <3>2, <3>3, <3>4 DEF Current
  <2>5. ~ slipped' => Progress(x)'
    BY <1>1, <2>1, <2>2, <2>4 DEF Progress, Issuing, Tokening
  <2>6. QED
    BY <1>2, <2>2, <2>3, <2>5, SerialStep
<1>5. QED
  BY <1>3, <1>4

LEMMA SerialWritePassword ==
  ASSUME OneAtATime, SecretsInv, SerialInv, NEW r \in Requests, WritePassword(r) \/ Crash(r)
  PROVE  SerialInv'
<1>1. /\ UNCHANGED <<secured, store, cooling, generated, mailed, latest, spent, outlived>>
      /\ UNCHANGED <<recent, hurried, slipped>>
  BY DEF WritePassword, Crash, secretVars, history
<1>2. NoCopies' /\ (~ slipped' => AllCurrent')
  BY <1>1, SerialParts, ForgetKeepsCurrent DEF NoCopies, Kept
<1>3. CASE Answer(r)
  BY <1>1, <1>2, <1>3, SerialAnswered
<1>4. CASE Proceed(r, "clearRedisOtp") /\ req[r].pc = "write"
  <2>1. PICK x \in Request :
          /\ req' = [req EXCEPT ![r] = x] /\ x.pc = "clearRedisOtp" /\ x.kind = req[r].kind
          /\ x.secret = req[r].secret
    BY <1>4, Goes DEF PCs
  <2>2. Paced(x.pc)'
    BY <1>1, <2>1, SerialParts DEF Paced
  <2>3. ~ slipped' => Progress(x)'
    BY <1>1, <1>4, <2>1, SerialParts DEF Progress, Issuing, Tokening
  <2>4. QED
    BY <1>2, <2>1, <2>2, <2>3, SerialStep
<1>5. QED
  BY <1>3, <1>4 DEF WritePassword, Crash, At

LEMMA SerialDeleteExpired ==
  ASSUME OneAtATime, SecretsInv, SerialInv, NEW r \in Requests, DeleteExpired(r)
  PROVE  SerialInv'
<1>1. PICK kind \in Kinds : RedisWrites(kind, NoSecret)
  BY RequestFields DEF DeleteExpired, SecretsInv, TypeOK
<1>2. /\ UNCHANGED <<secured, cooling, mailed, latest, spent, outlived, recent, hurried>>
      /\ Answer(r)
  BY DEF DeleteExpired, secretVars, history
<1>3. NoCopies'
  BY <1>1, <1>2, SerialParts, RedisLeavesCopies
<1>4. ~ slipped' => AllCurrent'
  BY <1>1, <1>2, SerialParts, RedisWritten, ForgetKeepsCurrent
<1>5. QED
  BY <1>2, <1>3, <1>4, SerialAnswered

LEMMA SerialClearRedis ==
  ASSUME OneAtATime, SecretsInv, SerialInv, NEW r \in Requests,
         ClearRedisOtp(r) \/ ClearRedisToken(r)
  PROVE  SerialInv'
<1>1. PICK kind \in Kinds, pc \in {"clearMongoOtp", "clearMongoToken"} :
        /\ RedisWrites(kind, NoSecret) /\ Proceed(r, pc)
        /\ pc = "clearMongoOtp" => kind = "otp"
        /\ pc = "clearMongoToken" => kind = "token" /\ req[r].pc = "clearRedisToken"
  BY DEF ClearRedisOtp, ClearRedisToken, Kinds, At
<1>2. PICK x \in Request : req' = [req EXCEPT ![r] = x] /\ x.pc = pc
  BY <1>1, Goes DEF PCs
<1>3. /\ UNCHANGED <<secured, cooling, generated, mailed, latest, spent, outlived>>
      /\ UNCHANGED <<recent, hurried>>
  BY DEF ClearRedisOtp, ClearRedisToken, secretVars, history
<1>4. Paced(x.pc)' /\ NoCopies'
  BY <1>1, <1>2, <1>3, SerialParts, RedisLeavesCopies DEF Paced
<1>5. ASSUME ~ slipped'
      PROVE  AllCurrent' /\ Progress(x)'
  <2>1. /\ ~ slipped /\ store'["redis"][kind] = NoSecret
        /\ \A place \in Places, k \in Kinds :
             place # "redis" \/ k # kind => store'[place][k] = store[place][k]
    BY <1>1, <1>5, RedisWritten
  <2>2. AllCurrent /\ Progress(req[r])
    BY <2>1, SerialParts
  <2>3. AllCurrent'
    BY <1>3, <2>1, <2>2, ForgetKeepsCurrent
  <2>4. pc = "clearMongoToken" => \A place \in Places : Kept(place, "otp", {})'
    BY <1>1, <2>1, <2>2 DEF Progress, Kept, Kinds
  <2>5. Progress(x)'
    BY <1>1, <1>2, <2>1, <2>4 DEF Progress, Issuing, Tokening, Kept
  <2>6. QED
    BY <2>3, <2>5
<1>6. QED
  BY <1>2, <1>4, <1>5, SerialStep

LEMMA SerialClearMongoOtp ==
  ASSUME OneAtATime, SecretsInv, SerialInv, NEW r \in Requests, ClearMongoOtp(r)
  PROVE  SerialInv'
<1>1. /\ UNCHANGED <<secured, cooling, mailed, latest, spent, outlived, recent, hurried>>
      /\ req[r].pc = "clearMongoOtp" /\ MongoWrites("otp", NoSecret)
  BY DEF ClearMongoOtp, history, At
<1>2. /\ NoCopies' /\ UNCHANGED slipped
      /\ store'["mongo"]["otp"] = NoSecret
      /\ \A place \in Places, k \in Kinds :
           place # "mongo" \/ k # "otp" => store'[place][k] = store[place][k]
  BY <1>1, SerialParts, MongoWritten DEF Kinds
<1>3. \A place \in Places, k \in Kinds :
        store'[place][k] = store[place][k] \/ store'[place][k] = NoSecret
  BY <1>2
<1>4. ~ slipped' => AllCurrent' /\ \A place \in Places : Kept(place, "otp", {})'
  <2>1. ASSUME ~ slipped'
        PROVE  AllCurrent /\ Kept("redis", "otp", {})
    BY <1>1, <1>2, <2>1, SerialParts DEF Progress
  <2>2. QED
    BY <1>1, <1>2, <1>3, <2>1, ForgetKeepsCurrent DEF Kept, Places, Kinds
<1>5. CASE req[r].handler = "reset"
  <2>1. PICK x \in Request : req' = [req EXCEPT ![r] = x] /\ x.pc = "clearRedisToken"
    BY <1>5, Goes DEF ClearMongoOtp, PCs
  <2>2. Paced(x.pc)'
    BY <1>1, <2>1, SerialParts DEF Paced
  <2>3. ~ slipped' => Progress(x)'
    BY <1>4, <2>1 DEF Progress, Issuing, Tokening
  <2>4. QED
    BY <1>2, <1>4, <2>1, <2>2, <2>3, SerialStep
<1>6. CASE req[r].handler # "reset"
  <2> DEFINE y == [req[r] EXCEPT !.pc = "tokenRedis", !.minted = generated + 1]
  <2>1. generated < MaxSecrets /\ generated' = generated + 1
    BY <1>6 DEF ClearMongoOtp
  <2>2. generated' \in Secrets /\ req[r] \in Request /\ generated \in Nat /\ outlived \in 0 .. generated
    BY <2>1, ConstantsAssumption DEF SecretsInv, TypeOK, Secrets
  <2>3. y \in Request /\ y.pc = "tokenRedis" /\ y.minted = generated' /\ y.secret = req[r].secret
    BY <2>1, <2>2 DEF Request, PCs
  <2>4. PICK x \in Request :
          x = y /\ x.pc = "tokenRedis" /\ x.minted = generated' /\ x.secret = req[r].secret
    BY <2>3
  <2>5. req' = [req EXCEPT ![r] = x]
    BY <1>6, <2>4 DEF ClearMongoOtp
  <2>6. Paced(x.pc)'
    BY <1>1, <2>4, SerialParts DEF Paced
  <2>7. req[r].secret \in Nat /\ req[r].secret =< generated
    BY <2>2, RequestFields, ConstantsAssumption DEF SecretsInv, KnownSecrets
  <2>8. x.minted > outlived /\ x.minted \notin spent /\ x.minted # x.secret
    BY <2>1, <2>2, <2>4, <2>7 DEF SecretsInv, TypeOK
  <2>9. ~ slipped' => Progress(x)'
    BY <1>1, <1>4, <2>4, <2>8 DEF Progress, Issuing, Tokening
  <2>10. QED
    BY <1>2, <1>4, <2>5, <2>6, <2>9, SerialStep
<1>7. QED
  BY <1>5, <1>6

LEMMA SerialTokenRedis ==
  ASSUME OneAtATime, SecretsInv, SerialInv, NEW r \in Requests, TokenRedis(r)
  PROVE  SerialInv'
<1>1. PICK x \in Request :
        /\ req' = [req EXCEPT ![r] = x] /\ x.pc = "tokenMongo" /\ x.minted = req[r].minted
        /\ x.secret = req[r].secret
  BY Goes DEF TokenRedis, PCs
<1>2. /\ RedisWrites("token", x.minted) /\ req[r].pc = "tokenRedis"
      /\ UNCHANGED <<secured, cooling, generated, mailed, latest, spent, outlived>>
      /\ UNCHANGED <<recent, hurried>>
  BY <1>1 DEF TokenRedis, secretVars, history, At
<1>3. Paced(x.pc)' /\ NoCopies'
  BY <1>1, <1>2, SerialParts, RedisLeavesCopies DEF Paced, Kinds
<1>4. ASSUME ~ slipped'
      PROVE  AllCurrent' /\ Progress(x)'
  <2>1. /\ ~ slipped /\ store'["redis"]["token"] = x.minted
        /\ \A place \in Places, k \in Kinds :
             place # "redis" \/ k # "token" => store'[place][k] = store[place][k]
    BY <1>2, <1>4, RedisWritten DEF Kinds
  <2>2. AllCurrent /\ Progress(req[r])
    BY <2>1, SerialParts
  <2>3. /\ x.minted = generated /\ x.minted > outlived /\ x.minted # x.secret
        /\ x.minted \notin spent /\ \A place \in Places : Kept(place, "otp", {})
    BY <1>1, <1>2, <2>2 DEF Progress, Tokening
  <2>4. \A place \in Places : Kept(place, "otp", {})'
    BY <2>1, <2>3 DEF Kept, Kinds
  <2>5. Progress(x)'
    BY <1>1, <1>2, <2>1, <2>3, <2>4 DEF Progress, Issuing, Tokening, Kept
  <2>6. AllCurrent'
    BY <1>2, <2>1, <2>2, <2>3 DEF AllCurrent, Current
  <2>7. QED
    BY <2>5, <2>6
<1>5. QED
  BY <1>1, <1>3, <1>4, SerialStep

\* A token is returned, and the code it was exchanged for is spent: the records
\* hold no code, and no token but the new one.
LEMMA SerialTokenMongo ==
  ASSUME OneAtATime, SecretsInv, SerialInv, NEW r \in Requests, TokenMongo(r)
  PROVE  SerialInv'
<1>1. /\ UNCHANGED <<secured, cooling, mailed, latest, outlived, recent, hurried>>
      /\ spent' = spent \union {req[r].secret} /\ req[r].pc = "tokenMongo"
      /\ Answer(r) /\ MongoWrites("token", req[r].minted)
  BY DEF TokenMongo, At
<1>2. /\ NoCopies' /\ UNCHANGED slipped
      /\ store'["mongo"]["token"] \in {NoSecret, req[r].minted}
      /\ \A place \in Places, k \in Kinds :
           place # "mongo" \/ k # "token" => store'[place][k] = store[place][k]
  BY <1>1, SerialParts, MongoWritten DEF Kinds
<1>3. ASSUME ~ slipped'
      PROVE  AllCurrent'
  <2>1. /\ req[r].minted > outlived /\ req[r].minted # req[r].secret
        /\ req[r].minted \notin spent /\ Kept("redis", "token", {req[r].minted})
        /\ \A place \in Places : Kept(place, "otp", {})
    BY <1>1, <1>2, <1>3, SerialParts DEF Progress, Tokening
  <2>2. \A place \in Places :
          store'[place]["otp"] = NoSecret /\ store'[place]["token"] \in {NoSecret, req[r].minted}
    BY <1>2, <2>1 DEF Kept, Places, Kinds
  <2>3. QED
    BY <1>1, <2>1, <2>2 DEF AllCurrent, Current, Kinds
<1>4. QED
  BY <1>1, <1>2, <1>3, SerialAnswered

\* A reset is answered: the records hold nothing.
LEMMA SerialClearMongoToken ==
  ASSUME OneAtATime, SecretsInv, SerialInv, NEW r \in Requests, ClearMongoToken(r)
  PROVE  SerialInv'
<1>1. /\ UNCHANGED <<secured, cooling, recent, hurried>>
      /\ req[r].pc = "clearMongoToken" /\ Answer(r) /\ MongoWrites("token", NoSecret)
  BY DEF ClearMongoToken, At
<1>2. /\ NoCopies' /\ UNCHANGED slipped
      /\ store'["mongo"]["token"] = NoSecret
      /\ \A place \in Places, k \in Kinds :
           place # "mongo" \/ k # "token" => store'[place][k] = store[place][k]
  BY <1>1, SerialParts, MongoWritten DEF Kinds
<1>3. ASSUME ~ slipped'
      PROVE  AllCurrent'
  <2>1. Kept("redis", "token", {}) /\ \A place \in Places : Kept(place, "otp", {})
    BY <1>1, <1>2, <1>3, SerialParts DEF Progress
  <2>2. \A place \in Places, kind \in Kinds : store'[place][kind] = NoSecret
    BY <1>2, <2>1 DEF Kept, Places, Kinds
  <2>3. QED
    BY <2>2 DEF AllCurrent, Current
<1>4. QED
  BY <1>1, <1>2, <1>3, SerialAnswered

LEMMA SerialClock ==
  ASSUME OneAtATime, SecretsInv, SerialInv,
         (\E c \in Secrets : Expire(c)) \/ (\E kind \in Kinds : LoseKey(kind)) \/ CoolDown
  PROVE  SerialInv'
<1>1. UNCHANGED <<secured, generated, mailed, latest, spent, outlived, req, hurried, slipped>>
  BY DEF Expire, LoseKey, CoolDown, secretVars, history
<1>2. \/ UNCHANGED <<cooling, recent>>
      \/ cooling' = FALSE /\ recent' = FALSE
  BY DEF Expire, LoseKey, CoolDown, history
<1>3. /\ \A place \in Places, kind \in Kinds :
           store'[place][kind] = store[place][kind] \/ store'[place][kind] = NoSecret
      /\ \A kind \in Kinds : store'["mongo"][kind] = store["mongo"][kind]
  BY DEF Expire, LoseKey, CoolDown, SecretsInv, TypeOK, Places
<1>4. NoCopies => NoCopies'
  BY <1>1, <1>3 DEF NoCopies, Kept
<1>5. AllCurrent => AllCurrent'
  BY <1>1, <1>3, ForgetKeepsCurrent
<1>6. ASSUME NEW r \in Requests, Progress(req[r])
      PROVE  Progress(req[r])'
  <2>1. "redis" \in Places /\ "otp" \in Kinds /\ "token" \in Kinds /\ req[r].kind \in Kinds
    BY RequestFields DEF Places, Kinds, SecretsInv, TypeOK
  <2>2. QED
    BY <1>1, <1>3, <1>6, <2>1 DEF Progress, Kept
<1>7. secured' => /\ cooling' = recent' /\ ~ hurried'
                   /\ \A r \in Requests : At(r, "issueMongo")' => ~ recent'
  BY <1>1, <1>2 DEF SerialInv, At
<1>8. NoCopies'
  BY <1>4 DEF SerialInv, NoCopies
<1>9. ~ slipped' => AllCurrent' /\ \A r \in Requests : Progress(req[r])'
  BY <1>1, <1>5, <1>6 DEF SerialInv, AllCurrent
<1>10. QED
  BY <1>7, <1>8, <1>9 DEF SerialInv, NoCopies, AllCurrent

\* If requests are served one at a time, every step keeps SerialInv.
THEOREM SerialNextKeepsInv ==
  ASSUME OneAtATime
  PROVE  SecretsInv /\ SerialInv /\ [Next]_vars => SerialInv'
<1> SUFFICES ASSUME SecretsInv, SerialInv, [Next]_vars PROVE SerialInv'
  OBVIOUS
<1>1. CASE UNCHANGED vars
  BY <1>1 DEF vars, secretVars, history, SerialInv, Current, Progress, Kept, At
<1>2. QED
  BY <1>1, SerialIssueFind, SerialIssueMongo, SerialIssueRedis, SerialIssueMail, SerialPresent,
     SerialAuthorize, SerialDeleteExpired, SerialWritePassword, SerialClearRedis,
     SerialClearMongoOtp, SerialTokenRedis, SerialTokenMongo, SerialClearMongoToken, SerialClock
     DEF Next, RequestStep

\* If requests are served one at a time, SerialInv always holds.
THEOREM SerialInvariance ==
  ASSUME OneAtATime
  PROVE  Spec => []SerialInv
<1>1. QED
  BY SerialInitInv, SerialNextKeepsInv, ResetInvariance, PTL DEF Spec

\* A code or a token whose use was answered is not accepted again.
THEOREM SpentRefused ==
  ASSUME OneAtATime
  PROVE  Spec => []SpentNeverAccepted
<1>1. SerialInv => SpentNeverAccepted
  BY DEF SerialInv, Progress, SpentNeverAccepted, Accepted
<1>2. QED
  BY <1>1, SerialInvariance, PTL

\* Only the last code sent is accepted, and nothing a reset has outlived.
THEOREM LatestAccepted ==
  ASSUME OneAtATime
  PROVE  Spec => []OnlyLatestAccepted
<1>1. SerialInv => OnlyLatestAccepted
  BY DEF SerialInv, Progress, Current, OnlyLatestAccepted, Accepted
<1>2. QED
  BY <1>1, SerialInvariance, PTL

\* Codes are stored 60 s apart for an account that records when.
THEOREM SecuredUnhurried ==
  ASSUME OneAtATime
  PROVE  Spec => []SecuredNeverHurried
<1>1. SerialInv => SecuredNeverHurried
  BY DEF SerialInv, SecuredNeverHurried
<1>2. QED
  BY <1>1, SerialInvariance, PTL
================================================================================
