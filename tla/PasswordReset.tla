----------------------------- MODULE PasswordReset -----------------------------
(***************************************************************************)
(* The secrets of a password reset of one account (AuthService): one-time  *)
(* codes sent by e-mail (forgotPassword, resendOtp), exchanged for a reset *)
(* token (verifyPasswordResetOtp), and either of them spent on a new       *)
(* password (resetPassword).  A code and a token have a record each in     *)
(* Redis and a copy in auth_security, which is asked only when Redis has   *)
(* no answer.                                                              *)
(*                                                                         *)
(* One action is one storage call with the code up to the next await.  The *)
(* auth_security document may be missing: HrService.createTeamMember makes *)
(* accounts without one, and an update of a missing document does nothing. *)
(*                                                                         *)
(* Left out: guessed codes (a secret is fresh and is presented only once   *)
(* handed out), the account's status, and what resetPassword does to the   *)
(* sessions (AuthSessions).  The code of an e-mail verification lives the  *)
(* same way under a key and fields of its own.                             *)
(***************************************************************************)
EXTENDS Naturals

CONSTANTS Requests,     \* slots for requests in flight
          MaxSecrets    \* bound on the codes and tokens generated

ASSUME ConstantsAssumption == MaxSecrets \in Nat

VARIABLES secured,      \* whether the account has an auth_security document
          store,        \* the records: in redis and mongo, of the otp and the token
          cooling,      \* whether auth_security says a code was sent under 60 s ago
          generated,    \* how many secrets have been generated
          expired,      \* the secrets whose expiresAt has passed
          mailed,       \* codes sent by e-mail
          returned,     \* tokens returned to the client
          req,          \* the requests in flight
          latest,       \* history: the code sent last
          spent,        \* history: the secrets whose use was answered
          outlived,     \* history: the secrets up to this one predate a reset
          recent,       \* history: whether a code was stored under 60 s ago
          hurried,      \* history: whether one was stored while recent
          slipped       \* history: whether Redis has failed to write

secretVars == <<generated, expired, mailed, returned>>
history == <<latest, spent, outlived, recent, hurried>>

vars == <<secured, store, cooling, secretVars, req, history, slipped>>
--------------------------------------------------------------------------------
\* Secrets are numbered as they are generated; 0 is no secret.
Secrets == 1 .. MaxSecrets
NoSecret == 0

Kinds == {"otp", "token"}
Places == {"redis", "mongo"}

PCs == {"idle", "issueMongo", "issueRedis", "issueMail", "authorize", "delExpired", "write",
        "clearRedisOtp", "clearMongoOtp", "tokenRedis", "tokenMongo",
        "clearRedisToken", "clearMongoToken"}

\* kind, secret: what the client presents; fallback: what the account's document
\* held when it was read; minted: a secret generated by this request.
Request ==
  [pc : PCs, handler : {"none", "issue", "verify", "reset"}, kind : Kinds,
   secret : Secrets \union {NoSecret}, fallback : Secrets \union {NoSecret},
   minted : Secrets \union {NoSecret}]

Idle == [pc |-> "idle", handler |-> "none", kind |-> "otp",
         secret |-> NoSecret, fallback |-> NoSecret, minted |-> NoSecret]

TypeOK ==
  /\ secured \in BOOLEAN /\ cooling \in BOOLEAN
  /\ recent \in BOOLEAN /\ hurried \in BOOLEAN /\ slipped \in BOOLEAN
  /\ generated \in 0 .. MaxSecrets /\ latest \in 0 .. generated /\ outlived \in 0 .. generated
  /\ store \in [Places -> [Kinds -> 0 .. generated]]
  /\ expired \union mailed \union returned \union spent \subseteq 1 .. generated
  /\ req \in [Requests -> Request]

Init ==
  /\ secured \in BOOLEAN
  /\ store = [p \in Places |-> [k \in Kinds |-> NoSecret]]
  /\ cooling = FALSE /\ recent = FALSE /\ hurried = FALSE /\ slipped = FALSE
  /\ generated = 0 /\ latest = NoSecret /\ outlived = NoSecret
  /\ expired = {} /\ mailed = {} /\ returned = {} /\ spent = {}
  /\ req = [r \in Requests |-> Idle]

At(r, pc) == req[r].pc = pc
Proceed(r, pc) == req' = [req EXCEPT ![r].pc = pc]
Answer(r) == req' = [req EXCEPT ![r] = Idle]

\* redis.set and redis.del swallow their errors.
RedisWrites(kind, secret) ==
  \/ store' = [store EXCEPT !["redis"][kind] = secret] /\ UNCHANGED slipped
  \/ UNCHANGED store /\ slipped' = TRUE

\* authSecurity.update finds no document to update in an account without one.
MongoWrites(kind, secret) ==
  /\ store' = IF secured THEN [store EXCEPT !["mongo"][kind] = secret] ELSE store
  /\ UNCHANGED slipped
--------------------------------------------------------------------------------
(* forgotPassword and resendOtp: issuePasswordResetOtp.                    *)

\* Faulty: assertCanResend is not called.
IssueFindAtOnce(r) ==
  /\ At(r, "idle")
  /\ generated < MaxSecrets
  /\ generated' = generated + 1
  /\ req' = [req EXCEPT ![r] = [Idle EXCEPT !.pc = "issueMongo", !.handler = "issue",
                                            !.minted = generated + 1]]
  /\ UNCHANGED <<secured, store, cooling, expired, mailed, returned, history, slipped>>

\* The account is read; assertCanResend; a code is generated and hashed.
IssueFind(r) ==
  /\ At(r, "idle")
  /\ ~ cooling
  /\ generated < MaxSecrets
  /\ generated' = generated + 1
  /\ req' = [req EXCEPT ![r] = [Idle EXCEPT !.pc = "issueMongo", !.handler = "issue",
                                            !.minted = generated + 1]]
  /\ UNCHANGED <<secured, store, cooling, expired, mailed, returned, history, slipped>>

IssueMongo(r) ==
  /\ At(r, "issueMongo")
  /\ MongoWrites("otp", req[r].minted)
  /\ cooling' = secured
  /\ recent' = TRUE
  /\ hurried' = (hurried \/ recent)
  /\ Proceed(r, "issueRedis")
  /\ UNCHANGED <<secured, secretVars, latest, spent, outlived>>

\* Faulty: a code already in Redis is kept (setNX).
IssueRedisKeeping(r) ==
  /\ At(r, "issueRedis")
  /\ IF store["redis"]["otp"] = NoSecret THEN RedisWrites("otp", req[r].minted)
     ELSE UNCHANGED <<store, slipped>>
  /\ Proceed(r, "issueMail")
  /\ UNCHANGED <<secured, cooling, secretVars, history>>

\* storeOtpInRedis
IssueRedis(r) ==
  /\ At(r, "issueRedis")
  /\ RedisWrites("otp", req[r].minted)
  /\ Proceed(r, "issueMail")
  /\ UNCHANGED <<secured, cooling, secretVars, history>>

\* recordEmail, which nothing here reads, and the job in the e-mail queue.
IssueMail(r) ==
  /\ At(r, "issueMail")
  /\ mailed' = mailed \union {req[r].minted}
  /\ latest' = req[r].minted
  /\ Answer(r)
  /\ UNCHANGED <<secured, store, cooling, generated, expired, returned>>
  /\ UNCHANGED <<spent, outlived, recent, hurried, slipped>>
--------------------------------------------------------------------------------
(* verifyPasswordResetOtp and resetPassword.                               *)

\* The account is read, and with it the copy in auth_security.
Present(r, handler, kind, secret) ==
  /\ At(r, "idle")
  /\ req' = [req EXCEPT ![r] = [Idle EXCEPT !.pc = "authorize", !.handler = handler, !.kind = kind,
                                            !.secret = secret, !.fallback = store["mongo"][kind]]]
  /\ UNCHANGED <<secured, store, cooling, secretVars, history, slipped>>

VerifyFind(r, c) == c \in mailed /\ Present(r, "verify", "otp", c)

\* resetPassword takes a token or, as before tokens existed, the code itself.
ResetFind(r, c) ==
  \/ c \in returned /\ Present(r, "reset", "token", c)
  \/ c \in mailed /\ Present(r, "reset", "otp", c)

\* What the handler does with the record it found.
Judge(r, record, inRedis) ==
  IF record = NoSecret THEN Answer(r)
  ELSE IF record \in expired THEN IF inRedis THEN Proceed(r, "delExpired") ELSE Answer(r)
  ELSE IF record # req[r].secret THEN Answer(r)
  ELSE Proceed(r, IF req[r].handler = "verify" THEN "clearRedisOtp" ELSE "write")

\* assertValidOtpForUser, assertValidPasswordResetToken: the record in Redis
\* decides; the copy is looked at when there is none, or the get failed.
Authorize(r) ==
  /\ At(r, "authorize")
  /\ \/ /\ store["redis"][req[r].kind] # NoSecret
        /\ Judge(r, store["redis"][req[r].kind], TRUE)
     \/ Judge(r, req[r].fallback, FALSE)
  /\ UNCHANGED <<secured, store, cooling, secretVars, history, slipped>>

\* onExpired deletes the key, and the request is refused.
DeleteExpired(r) ==
  /\ At(r, "delExpired")
  /\ RedisWrites(req[r].kind, NoSecret)
  /\ Answer(r)
  /\ UNCHANGED <<secured, cooling, secretVars, history>>

\* The password and tokenVersion are updated, unless the password is the old one.
WritePassword(r) ==
  /\ At(r, "write")
  /\ Proceed(r, "clearRedisOtp") \/ Answer(r)
  /\ UNCHANGED <<secured, store, cooling, secretVars, history, slipped>>

\* Faulty: only the copy in auth_security is cleared.
ClearRedisOtpSkipped(r) ==
  /\ At(r, "clearRedisOtp")
  /\ Proceed(r, "clearMongoOtp")
  /\ UNCHANGED <<secured, store, cooling, secretVars, history, slipped>>

\* clearStoredOtp, first call.
ClearRedisOtp(r) ==
  /\ At(r, "clearRedisOtp")
  /\ RedisWrites("otp", NoSecret)
  /\ Proceed(r, "clearMongoOtp")
  /\ UNCHANGED <<secured, cooling, secretVars, history>>

\* Faulty: the token is not there yet when its record is written.
ClearMongoOtpEarly(r) ==
  /\ At(r, "clearMongoOtp")
  /\ MongoWrites("otp", NoSecret)
  /\ Proceed(r, IF req[r].handler = "reset" THEN "clearRedisToken" ELSE "tokenRedis")
  /\ UNCHANGED <<secured, cooling, secretVars, history>>

\* clearStoredOtp, second call; verifyPasswordResetOtp then generates a token.
ClearMongoOtp(r) ==
  /\ At(r, "clearMongoOtp")
  /\ MongoWrites("otp", NoSecret)
  /\ IF req[r].handler = "reset"
       THEN Proceed(r, "clearRedisToken") /\ UNCHANGED generated
       ELSE /\ generated < MaxSecrets
            /\ generated' = generated + 1
            /\ req' = [req EXCEPT ![r].pc = "tokenRedis", ![r].minted = generated + 1]
  /\ UNCHANGED <<secured, cooling, expired, mailed, returned, history>>

\* issuePasswordResetToken
TokenRedis(r) ==
  /\ At(r, "tokenRedis")
  /\ RedisWrites("token", req[r].minted)
  /\ Proceed(r, "tokenMongo")
  /\ UNCHANGED <<secured, cooling, secretVars, history>>

TokenMongo(r) ==
  /\ At(r, "tokenMongo")
  /\ MongoWrites("token", req[r].minted)
  /\ returned' = returned \union {req[r].minted}
  /\ spent' = spent \union {req[r].secret}
  /\ Answer(r)
  /\ UNCHANGED <<secured, cooling, generated, expired, mailed, latest, outlived, recent, hurried>>

\* Faulty: a token is left to expire when the code itself was used.
ClearRedisTokenIfUsed(r) ==
  /\ At(r, "clearRedisToken")
  /\ IF req[r].kind = "token" THEN RedisWrites("token", NoSecret) ELSE UNCHANGED <<store, slipped>>
  /\ Proceed(r, "clearMongoToken")
  /\ UNCHANGED <<secured, cooling, secretVars, history>>

\* clearPasswordResetToken
ClearRedisToken(r) ==
  /\ At(r, "clearRedisToken")
  /\ RedisWrites("token", NoSecret)
  /\ Proceed(r, "clearMongoToken")
  /\ UNCHANGED <<secured, cooling, secretVars, history>>

ClearMongoToken(r) ==
  /\ At(r, "clearMongoToken")
  /\ MongoWrites("token", NoSecret)
  /\ spent' = spent \union {req[r].secret}
  /\ outlived' = generated
  /\ Answer(r)
  /\ UNCHANGED <<secured, cooling, secretVars, latest, recent, hurried, slipped>>
--------------------------------------------------------------------------------
\* Ten minutes go by: expiresAt is the same in both records of a secret.  The
\* expiry of a secret that neither holds changes nothing.
Expire(c) ==
  /\ \E place \in Places, kind \in Kinds : store[place][kind] = c
  /\ c \notin expired
  /\ expired' = expired \union {c}
  /\ UNCHANGED <<secured, store, cooling, generated, mailed, returned, req, history, slipped>>

\* Redis drops a key when its time to live has run out, or loses it before.
LoseKey(kind) ==
  /\ store["redis"][kind] # NoSecret
  /\ store' = [store EXCEPT !["redis"][kind] = NoSecret]
  /\ UNCHANGED <<secured, cooling, secretVars, req, history, slipped>>

\* Sixty seconds have passed since the last code was stored.
CoolDown ==
  /\ recent
  /\ recent' = FALSE
  /\ cooling' = FALSE
  /\ UNCHANGED <<secured, store, secretVars, req, latest, spent, outlived, hurried, slipped>>

\* A MongoDB call throws, or the process dies: the later steps never run.
Crash(r) ==
  /\ ~ At(r, "idle")
  /\ Answer(r)
  /\ UNCHANGED <<secured, store, cooling, secretVars, history, slipped>>

RequestStep(r) ==
  \/ IssueFind(r) \/ IssueMongo(r) \/ IssueRedis(r) \/ IssueMail(r)
  \/ \E c \in Secrets : VerifyFind(r, c) \/ ResetFind(r, c)
  \/ Authorize(r) \/ DeleteExpired(r) \/ WritePassword(r)
  \/ ClearRedisOtp(r) \/ ClearMongoOtp(r)
  \/ TokenRedis(r) \/ TokenMongo(r)
  \/ ClearRedisToken(r) \/ ClearMongoToken(r)
  \/ Crash(r)

Next ==
  \/ \E r \in Requests : RequestStep(r)
  \/ \E c \in Secrets : Expire(c)
  \/ \E kind \in Kinds : LoseKey(kind)
  \/ CoolDown

Spec == Init /\ [][Next]_vars
--------------------------------------------------------------------------------
(* Properties of requests served one at a time, with or without an         *)
(* auth_security document, however requests are cut short and Redis reads  *)
(* fail, until Redis first fails to write.                                 *)

\* Whether what r presented has been accepted.
Accepted(r) == req[r].pc \in {"write", "clearRedisOtp"}

\* A code buys one token or one password, a token one password: once its use
\* was answered, neither Redis nor the copy in auth_security accepts it again.
SpentNeverAccepted ==
  ~ slipped => \A r \in Requests : Accepted(r) => req[r].secret \notin spent

\* Of the codes sent only the last is accepted, and never a code or a token
\* older than a reset that was answered, in whichever record it was found: what
\* the reset left behind is in neither record.
OnlyLatestAccepted ==
  ~ slipped =>
    /\ \A r \in Requests : Accepted(r) =>
         /\ req[r].kind = "otp" => req[r].secret = latest
         /\ req[r].secret > outlived
    /\ (\A r \in Requests : At(r, "idle")) =>
         \A place \in Places, kind \in Kinds :
           store[place][kind] = NoSecret \/ store[place][kind] > outlived

\* No code is stored within 60 s of another for an account whose auth_security
\* says when the last one was (issuePasswordResetOtp, assertCanResend).
SecuredNeverHurried == secured => ~ hurried

--------------------------------------------------------------------------------
(* What every step keeps, and the proofs rest on.                          *)

Issuing == {"issueMongo", "issueRedis", "issueMail"}
Tokening == {"tokenRedis", "tokenMongo"}

\* A secret is handed out or presented only after it was generated.
KnownSecrets(x) ==
  /\ x.minted =< generated /\ x.secret =< generated
  /\ x.pc \in Issuing \union Tokening => x.minted # NoSecret
  /\ x.pc \notin Issuing \union {"idle"} => x.secret # NoSecret

SecretsInv ==
  /\ TypeOK
  /\ \A r \in Requests : KnownSecrets(req[r])

Kept(place, kind, secrets) == store[place][kind] \in secrets \union {NoSecret}

\* Of requests served one at a time: how far each has got with the records.
Progress(x) ==
  /\ x.pc \in Issuing => x.minted \notin mailed
  /\ x.pc \in Issuing \union Tokening => x.minted = generated /\ x.minted > outlived
  /\ x.pc \in Tokening => x.minted # x.secret
  /\ x.pc \in {"issueRedis", "issueMail"} => Kept("mongo", "otp", {x.minted})
  /\ x.pc = "issueMail" => Kept("redis", "otp", {x.minted})
  /\ x.pc = "authorize" => x.fallback = store["mongo"][x.kind]
                             /\ (x.kind = "otp" => x.secret \in mailed)
  /\ x.pc = "clearMongoOtp" => Kept("redis", "otp", {})
  /\ x.pc \in Tokening \union {"clearRedisToken", "clearMongoToken"} =>
       \A place \in Places : Kept(place, "otp", {})
  /\ x.pc = "tokenMongo" => Kept("redis", "token", {x.minted})
  /\ x.pc = "clearMongoToken" => Kept("redis", "token", {})
  /\ x.pc \in Issuing \union Tokening => x.minted \notin spent
  /\ x.pc \in {"write", "clearRedisOtp"} =>
       /\ x.kind = "otp" => x.secret = latest
       /\ x.secret > outlived /\ x.secret \notin spent

\* What is in a record was neither used nor generated before an answered reset,
\* and of the codes that were sent it is the last.
Current(place, kind) ==
  store[place][kind] # NoSecret =>
    /\ store[place][kind] > outlived /\ store[place][kind] \notin spent
    /\ kind = "otp" => store[place][kind] = latest \/ store[place][kind] \notin mailed

SerialInv ==
  /\ secured => /\ cooling = recent /\ ~ hurried
                /\ \A r \in Requests : At(r, "issueMongo") => ~ recent
  /\ ~ secured => \A kind \in Kinds : Kept("mongo", kind, {})
  /\ ~ slipped => /\ \A place \in Places, kind \in Kinds : Current(place, kind)
                  /\ \A r \in Requests : Progress(req[r])
================================================================================
