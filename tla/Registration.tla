------------------------------ MODULE Registration ------------------------------
(***************************************************************************)
(* The first days of one account: registered by its owner (AuthService) or *)
(* created by an administrator (UserService), and verified by a code that  *)
(* was sent to its e-mail address.  A code has a record in Redis and a     *)
(* copy in auth_security, which is asked only when Redis has no answer.    *)
(*                                                                         *)
(* One action is one storage call with the code up to the next await.  A   *)
(* request that stops leaves an account without auth_security, whose       *)
(* updates then do nothing.                                                *)
(*                                                                         *)
(* Left out: whether the address and the user name are free (a request may *)
(* be refused for them), guessed codes, the password, and the profile.     *)
(***************************************************************************)
EXTENDS Naturals

CONSTANTS RegSlots,   \* slots for requests in flight
          MaxCodes    \* bound on the codes generated

ASSUME RegConstants == MaxCodes \in Nat

VARIABLES account,    \* NONE, UNVERIFIED or VERIFIED
          codeIn,     \* the code that Redis and auth_security hold
          hasSecurity,  \* whether there is an auth_security document
          cooling,    \* whether it says that a code was sent under 60 s ago
          issued,     \* how many codes have been generated
          outdated,   \* the codes whose expiresAt has passed
          sent,       \* the codes sent by e-mail
          lastSent,   \* history: the code sent last
          regReq,     \* the requests in flight
          slipped     \* history: whether Redis has failed to write

regVars == <<account, codeIn, hasSecurity, cooling, issued, outdated, sent, lastSent, regReq, slipped>>
--------------------------------------------------------------------------------
\* Codes are numbered as they are generated; 0 is no code.
CodeOrNone == 0 .. MaxCodes

RegSteps ==
  {"idle", "security", "mongo", "redis", "mail", "authorize", "delExpired", "verify", "clearRedis", "clearMongo"}

\* code: generated or presented; copy: what auth_security held when it was read.
RegRequest ==
  [pc : RegSteps, handler : {"none", "register", "create", "resend", "verify"},
   code : CodeOrNone, copy : CodeOrNone]

NoRegRequest == [pc |-> "idle", handler |-> "none", code |-> 0, copy |-> 0]

RegTypeOK ==
  /\ account \in {"NONE", "UNVERIFIED", "VERIFIED"}
  /\ codeIn \in [{"redis", "mongo"} -> CodeOrNone]
  /\ {hasSecurity, cooling, slipped} \subseteq BOOLEAN
  /\ {issued, lastSent} \union outdated \union sent \subseteq CodeOrNone
  /\ regReq \in [RegSlots -> RegRequest]

RegInit ==
  /\ account = "NONE"
  /\ codeIn = [place \in {"redis", "mongo"} |-> 0]
  /\ hasSecurity = FALSE /\ cooling = FALSE /\ slipped = FALSE
  /\ issued = 0 /\ lastSent = 0
  /\ outdated = {} /\ sent = {}
  /\ regReq = [r \in RegSlots |-> NoRegRequest]
--------------------------------------------------------------------------------
RegAt(r, pc) == regReq[r].pc = pc
StepReg(r, pc) == regReq' = [regReq EXCEPT ![r].pc = pc]
AnswerReg(r) == regReq' = [regReq EXCEPT ![r] = NoRegRequest]

\* A new code, and the call that comes next.
BeginReg(r, handler, pc) ==
  /\ RegAt(r, "idle") /\ issued < MaxCodes
  /\ issued' = issued + 1
  /\ regReq' = [regReq EXCEPT ![r] = [pc |-> pc, handler |-> handler, code |-> issued + 1, copy |-> 0]]

\* redis.set and redis.del swallow their errors.
RedisSets(code) ==
  \/ codeIn' = [codeIn EXCEPT !["redis"] = code] /\ UNCHANGED slipped
  \/ UNCHANGED codeIn /\ slipped' = TRUE

MongoSets(code) ==
  codeIn' = IF hasSecurity THEN [codeIn EXCEPT !["mongo"] = code] ELSE codeIn

\* register, or create by an administrator: the account is inserted.
CreateAccountDoc(r, handler) ==
  /\ account = "NONE"
  /\ BeginReg(r, handler, "security")
  /\ account' = "UNVERIFIED"
  /\ UNCHANGED <<codeIn, hasSecurity, cooling, outdated, sent, lastSent, slipped>>

\* auth_security is created, by register with the code in it.
CreateSecurity(r) ==
  /\ RegAt(r, "security")
  /\ hasSecurity' = TRUE
  /\ IF regReq[r].handler = "register"
     THEN /\ codeIn' = [codeIn EXCEPT !["mongo"] = regReq[r].code]
          /\ cooling' = TRUE
          /\ StepReg(r, "redis")
     ELSE StepReg(r, "mongo") /\ UNCHANGED <<codeIn, cooling>>
  /\ UNCHANGED <<account, issued, outdated, sent, lastSent, slipped>>

\* resendOtp for an account that is not verified; assertCanResend.
ResendFind(r) ==
  /\ account = "UNVERIFIED" /\ ~ cooling
  /\ BeginReg(r, "resend", "mongo")
  /\ UNCHANGED <<account, codeIn, hasSecurity, cooling, outdated, sent, lastSent, slipped>>

\* issueEmailVerificationOtp, and the same two calls in resendOtp.
IssueCodeMongo(r) ==
  /\ RegAt(r, "mongo")
  /\ MongoSets(regReq[r].code)
  /\ cooling' = hasSecurity
  /\ StepReg(r, "redis")
  /\ UNCHANGED <<account, hasSecurity, issued, outdated, sent, lastSent, slipped>>

\* Faulty: a code that Redis holds already is kept.
IssueCodeRedisKeeping(r) ==
  /\ RegAt(r, "redis")
  /\ IF codeIn["redis"] = 0 THEN RedisSets(regReq[r].code) ELSE UNCHANGED <<codeIn, slipped>>
  /\ StepReg(r, "mail")
  /\ UNCHANGED <<account, hasSecurity, cooling, issued, outdated, sent, lastSent>>

\* storeOtpInRedis
IssueCodeRedis(r) ==
  /\ RegAt(r, "redis")
  /\ RedisSets(regReq[r].code)
  /\ StepReg(r, "mail")
  /\ UNCHANGED <<account, hasSecurity, cooling, issued, outdated, sent, lastSent>>

\* sendVerificationEmail; the e-mail history and the profile were written before.
MailCode(r) ==
  /\ RegAt(r, "mail")
  /\ sent' = sent \union {regReq[r].code}
  /\ lastSent' = regReq[r].code
  /\ AnswerReg(r)
  /\ UNCHANGED <<account, codeIn, hasSecurity, cooling, issued, outdated, slipped>>
--------------------------------------------------------------------------------
(* verifyEmail                                                              *)

\* The account and its auth_security are read.  One that is verified already only
\* has its code cleared, whatever was presented.
VerifyFind(r, code) ==
  /\ RegAt(r, "idle") /\ account # "NONE"
  /\ regReq' = [regReq EXCEPT ![r] =
       [pc |-> IF account = "VERIFIED" THEN "clearRedis" ELSE "authorize",
        handler |-> "verify", code |-> code, copy |-> codeIn["mongo"]]]
  /\ UNCHANGED <<account, codeIn, hasSecurity, cooling, issued, outdated, sent, lastSent, slipped>>

\* What the handler does with the record it found.
JudgeCode(r, record, inRedis) ==
  IF record = 0 THEN AnswerReg(r)
  ELSE IF record \in outdated THEN IF inRedis THEN StepReg(r, "delExpired") ELSE AnswerReg(r)
  ELSE IF record # regReq[r].code THEN AnswerReg(r)
  ELSE StepReg(r, "verify")

\* assertValidOtpForUser: the copy decides if Redis has none, or the get failed.
AuthorizeCode(r) ==
  /\ RegAt(r, "authorize")
  /\ \/ codeIn["redis"] # 0 /\ JudgeCode(r, codeIn["redis"], TRUE)
     \/ JudgeCode(r, regReq[r].copy, FALSE)
  /\ UNCHANGED <<account, codeIn, hasSecurity, cooling, issued, outdated, sent, lastSent, slipped>>

\* onExpired deletes the key, and the request is refused.
DeleteExpiredCode(r) ==
  /\ RegAt(r, "delExpired")
  /\ RedisSets(0)
  /\ AnswerReg(r)
  /\ UNCHANGED <<account, hasSecurity, cooling, issued, outdated, sent, lastSent>>

MarkVerified(r) ==
  /\ RegAt(r, "verify")
  /\ account' = "VERIFIED"
  /\ StepReg(r, "clearRedis")
  /\ UNCHANGED <<codeIn, hasSecurity, cooling, issued, outdated, sent, lastSent, slipped>>

\* clearStoredOtp
ClearCodeRedis(r) ==
  /\ RegAt(r, "clearRedis")
  /\ RedisSets(0)
  /\ StepReg(r, "clearMongo")
  /\ UNCHANGED <<account, hasSecurity, cooling, issued, outdated, sent, lastSent>>

ClearCodeMongo(r) ==
  /\ RegAt(r, "clearMongo")
  /\ MongoSets(0)
  /\ AnswerReg(r)
  /\ UNCHANGED <<account, hasSecurity, cooling, issued, outdated, sent, lastSent, slipped>>
--------------------------------------------------------------------------------
\* A day goes by; expiresAt is the same in both records of a code.
CodeExpires(code) ==
  /\ \E place \in {"redis", "mongo"} : codeIn[place] = code
  /\ code \notin outdated
  /\ outdated' = outdated \union {code}
  /\ UNCHANGED <<account, codeIn, hasSecurity, cooling, issued, sent, lastSent, regReq, slipped>>

\* Redis drops the key at the end of its time to live, or loses it before.
LoseCode ==
  /\ codeIn["redis"] # 0
  /\ codeIn' = [codeIn EXCEPT !["redis"] = 0]
  /\ UNCHANGED <<account, hasSecurity, cooling, issued, outdated, sent, lastSent, regReq, slipped>>

CoolDown ==
  /\ cooling
  /\ cooling' = FALSE
  /\ UNCHANGED <<account, codeIn, hasSecurity, issued, outdated, sent, lastSent, regReq, slipped>>

\* A call throws, or the process dies: the later steps never run.
CrashReg(r) ==
  /\ ~ RegAt(r, "idle")
  /\ AnswerReg(r)
  /\ UNCHANGED <<account, codeIn, hasSecurity, cooling, issued, outdated, sent, lastSent, slipped>>

RegNext ==
  \/ \E r \in RegSlots :
       \/ \E handler \in {"register", "create"} : CreateAccountDoc(r, handler)
       \/ CreateSecurity(r) \/ ResendFind(r)
       \/ IssueCodeMongo(r) \/ IssueCodeRedis(r) \/ MailCode(r)
       \/ \E code \in sent : VerifyFind(r, code)
       \/ AuthorizeCode(r) \/ DeleteExpiredCode(r) \/ MarkVerified(r)
       \/ ClearCodeRedis(r) \/ ClearCodeMongo(r) \/ CrashReg(r)
  \/ \E code \in 1 .. MaxCodes : CodeExpires(code)
  \/ LoseCode
  \/ CoolDown

RegSpec == RegInit /\ [][RegNext]_regVars
--------------------------------------------------------------------------------
(* Properties of requests served one at a time, however they are cut short *)
(* and Redis reads fail, until Redis first fails to write.                 *)

\* An account is verified by the code that was mailed last and has not expired in
\* the record that was asked, and by no earlier one, in whichever store it was found
\* (verifyEmail, resendOtp: each new code replaces the one before).
VerifiedByLatest ==
  ~ slipped => \A r \in RegSlots : RegAt(r, "verify") => regReq[r].code = lastSent
--------------------------------------------------------------------------------
(* What every step keeps, and the proof rests on.                          *)

CodesInOrder == lastSent <= issued /\ \A code \in sent : 0 < code /\ code <= issued

\* Where there is no auth_security, it holds no code; and of the codes that were
\* sent, a store holds the last one or none.
StoresInOrder ==
  /\ ~ hasSecurity => codeIn["mongo"] = 0
  /\ ~ slipped => \A place \in {"redis", "mongo"} : codeIn[place] \in sent => codeIn[place] = lastSent

\* Of requests served one at a time: how far each has got.
RegProgress(q) ==
  /\ q.pc \in {"security", "mongo", "redis", "mail"} =>
       q.code = issued /\ q.code # 0 /\ q.code \notin sent
  /\ ~ slipped =>
       /\ q.pc \in {"redis", "mail"} => codeIn["mongo"] \in {0, q.code}
       /\ q.pc = "mail" => codeIn["redis"] \in {0, q.code}
       /\ q.pc = "authorize" => q.code \in sent /\ (q.copy \in sent => q.copy = lastSent)
       /\ q.pc = "verify" => q.code = lastSent

RegInv ==
  /\ RegTypeOK /\ CodesInOrder /\ StoresInOrder
  /\ \A r \in RegSlots : RegProgress(regReq[r])
================================================================================
