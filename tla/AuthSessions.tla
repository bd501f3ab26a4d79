---------------------------- MODULE AuthSessions -----------------------------
(***************************************************************************)
(* Sessions of one account: AuthService (login, refresh, logout, logoutAll,*)
(* changePassword and the end of resetPassword), AuthGuard in front of the *)
(* authenticated handlers, the status change of UserService.update, and    *)
(* the storage they share: the auth_users document in MongoDB and, in      *)
(* Redis, the token_version cache and one key per refresh token.  Every    *)
(* key carries the user's id, so accounts do not interact.                 *)
(*                                                                         *)
(* One action is one storage call together with the code up to the next    *)
(* await: other requests run between two actions of a request.  MongoDB    *)
(* applies one call atomically to one document.  RedisService swallows its *)
(* errors: a failed get reads null and a failed write returns normally.    *)
(*                                                                         *)
(* Left out: e-mail verification (the account is verified), the roles in   *)
(* the tokens, the expiry of the JWTs themselves, and the counters of      *)
(* auth_securities (failedAttempts, lastPasswordChange), which no handler  *)
(* reads.  A refused request changes nothing else and is no step here      *)
(* unless it had already taken one.                                        *)
(***************************************************************************)
EXTENDS Integers

CONSTANTS Requests,      \* slots for requests in flight
          Passwords,     \* what the account's password may be
          Seconds,       \* values of the iat claim (whole seconds)
          MaxVersion,    \* bound on auth_users.tokenVersion
          RedisMayFail   \* whether Redis calls may fail

ASSUME ConstantsAssumption ==
  /\ Seconds \subseteq Nat
  /\ MaxVersion \in Nat
  /\ RedisMayFail \in BOOLEAN

VARIABLES user,          \* the auth_users document
          cachedVersion, \* <prefix>:token_version:<userId>, or NoVersion
          refreshKeys,   \* the tokens t with a key <prefix>:refresh:<userId>:t
          issued,        \* token pairs handed to clients
          req,           \* the requests in flight
          revoked        \* history: version of the latest revocation answered

vars == <<user, cachedVersion, refreshKeys, issued, req, revoked>>
-----------------------------------------------------------------------------
NoVersion == -1

Versions == 0 .. MaxVersion

\* SUSPENDED is left out: here every test is for ACTIVE.
Statuses == {"ACTIVE", "INACTIVE"}

\* A pair (access, refresh) signed together: the payload has no id of its
\* own, so two pairs of one version signed in the same second are one token.
Token == [version : Versions, second : Seconds]

\* Where a request that may mint or admit after reading MongoDB is.
Signing == {"loginReread", "refreshRead", "storeKey", "cacheMinted", "guardRead", "guardCache"}

NoToken == [version |-> NoVersion, second |-> 0]

PCs == {"idle", "loginReread", "refreshRead", "storeKey", "cacheMinted",
        "guardRead", "guardCache", "admitted",
        "changeWrite", "cacheRevoked", "scan", "delete"}

\* token: the one presented; version, password, second, found: the locals the
\* handler has read or computed and still needs; floor, sawActive: history, the
\* revocation answered before it arrived and whether the account was active since.
Request ==
  [pc : PCs, token : Token \union {NoToken}, version : Versions \union {NoVersion},
   second : Seconds \union {0}, password : Passwords \union {""},
   found : SUBSET Token, floor : Versions, sawActive : BOOLEAN]

Idle == [pc |-> "idle", token |-> NoToken, version |-> NoVersion, second |-> 0,
         password |-> "", found |-> {}, floor |-> 0, sawActive |-> FALSE]

User == [password : Passwords, tokenVersion : Versions, status : Statuses]

TypeOK ==
  /\ user \in User
  /\ cachedVersion \in Versions \union {NoVersion}
  /\ refreshKeys \subseteq Token
  /\ issued \subseteq Token
  /\ req \in [Requests -> Request]
  /\ revoked \in Versions

Init ==
  /\ user \in [password : Passwords, tokenVersion : {0}, status : {"ACTIVE"}]
  /\ cachedVersion = NoVersion
  /\ refreshKeys = {}
  /\ issued = {}
  /\ req = [r \in Requests |-> Idle]
  /\ revoked = 0
-----------------------------------------------------------------------------
IsActive == user.status = "ACTIVE"

\* A request arrives and has done its first storage call.
Arrived(pc) == [Idle EXCEPT !.pc = pc, !.sawActive = IsActive]

\* It arrives presenting a token.
Presented(pc, t) == [Arrived(pc) EXCEPT !.token = t, !.floor = revoked]

Becomes(r, record) == req' = [req EXCEPT ![r] = record]

\* redis.set of the version cache: an error is logged and swallowed.
WriteCache(v) ==
  \/ cachedVersion' = v
  \/ RedisMayFail /\ UNCHANGED cachedVersion

\* jwt.sign stamps the current second; time does not run backwards.
Now(s) ==
  /\ \A t \in issued : t.second <= s
  /\ \A q \in Requests : req[q].second <= s
-----------------------------------------------------------------------------
(* login and refresh, and issueTokens which both end in.                   *)

\* login: findFirst, the status check and bcrypt.compare on what was read.
LoginFind(r, p) ==
  /\ req[r].pc = "idle"
  /\ IsActive
  /\ p = user.password
  /\ Becomes(r, Arrived("loginReread"))
  /\ UNCHANGED <<user, cachedVersion, refreshKeys, issued, revoked>>

\* Faulty: the version comes from the cache instead of the document.
LoginRereadFromCache(r) ==
  /\ req[r].pc = "loginReread"
  /\ Becomes(r, [req[r] EXCEPT !.pc = "storeKey", !.version = cachedVersion])
  /\ UNCHANGED <<user, cachedVersion, refreshKeys, issued, revoked>>

\* findUserWithProfile reads the account again; the tokens get this version.
LoginReread(r) ==
  /\ req[r].pc = "loginReread"
  /\ Becomes(r, [req[r] EXCEPT !.pc = "storeKey", !.version = user.tokenVersion])
  /\ UNCHANGED <<user, cachedVersion, refreshKeys, issued, revoked>>

\* refresh: the token's key must be in Redis.
RefreshGet(r, t) ==
  /\ req[r].pc = "idle"
  /\ t \in refreshKeys
  /\ Becomes(r, Presented("refreshRead", t))
  /\ UNCHANGED <<user, cachedVersion, refreshKeys, issued, revoked>>

\* Faulty: the key in Redis is taken as proof enough.
RefreshReadAnyVersion(r) ==
  /\ req[r].pc = "refreshRead"
  /\ Becomes(r, IF IsActive
                  THEN [req[r] EXCEPT !.pc = "storeKey", !.version = user.tokenVersion]
                  ELSE Idle)
  /\ UNCHANGED <<user, cachedVersion, refreshKeys, issued, revoked>>

\* Faulty: the status is not looked at.
RefreshReadAnyStatus(r) ==
  /\ req[r].pc = "refreshRead"
  /\ Becomes(r, IF req[r].token.version = user.tokenVersion
                  THEN [req[r] EXCEPT !.pc = "storeKey", !.version = user.tokenVersion]
                  ELSE Idle)
  /\ UNCHANGED <<user, cachedVersion, refreshKeys, issued, revoked>>

\* refresh: the account must be active and the token of its version.
RefreshRead(r) ==
  /\ req[r].pc = "refreshRead"
  /\ Becomes(r, IF IsActive /\ req[r].token.version = user.tokenVersion
                  THEN [req[r] EXCEPT !.pc = "storeKey", !.version = user.tokenVersion]
                  ELSE Idle)
  /\ UNCHANGED <<user, cachedVersion, refreshKeys, issued, revoked>>

\* issueTokens: sign the pair and store the refresh token's key.
StoreRefreshKey(r, s) ==
  /\ req[r].pc = "storeKey"
  /\ Now(s)
  /\ \/ refreshKeys' = refreshKeys \union {[version |-> req[r].version, second |-> s]}
     \/ RedisMayFail /\ UNCHANGED refreshKeys
  /\ Becomes(r, [req[r] EXCEPT !.pc = "cacheMinted", !.second = s])
  /\ UNCHANGED <<user, cachedVersion, issued, revoked>>

\* Faulty: the pair is returned without caching its version.
CacheMintedVersionSkipped(r) ==
  /\ req[r].pc = "cacheMinted"
  /\ issued' = issued \union {[version |-> req[r].version, second |-> req[r].second]}
  /\ Becomes(r, Idle)
  /\ UNCHANGED <<user, cachedVersion, refreshKeys, revoked>>

\* issueTokens: cacheTokenVersion, then the pair is returned to the client.
CacheMintedVersion(r) ==
  /\ req[r].pc = "cacheMinted"
  /\ WriteCache(req[r].version)
  /\ issued' = issued \union {[version |-> req[r].version, second |-> req[r].second]}
  /\ Becomes(r, Idle)
  /\ UNCHANGED <<user, refreshKeys, revoked>>
-----------------------------------------------------------------------------
(* AuthGuard.canActivate, in front of every authenticated handler.         *)

\* A hit decides at once; a miss, or a failed get, falls back to MongoDB.
GuardGet(r, t) ==
  /\ req[r].pc = "idle"
  /\ t \in issued
  /\ \/ /\ cachedVersion = t.version
        /\ Becomes(r, Presented("admitted", t))
     \/ /\ cachedVersion = NoVersion \/ RedisMayFail
        /\ Becomes(r, Presented("guardRead", t))
  /\ UNCHANGED <<user, cachedVersion, refreshKeys, issued, revoked>>

GuardRead(r) ==
  /\ req[r].pc = "guardRead"
  /\ Becomes(r, IF IsActive
                  THEN [req[r] EXCEPT !.pc = "guardCache", !.version = user.tokenVersion]
                  ELSE Idle)
  /\ UNCHANGED <<user, cachedVersion, refreshKeys, issued, revoked>>

\* The version read is cached, and compared with the token's.
GuardCache(r) ==
  /\ req[r].pc = "guardCache"
  /\ WriteCache(req[r].version)
  /\ Becomes(r, IF req[r].version = req[r].token.version
                  THEN [req[r] EXCEPT !.pc = "admitted", !.version = NoVersion]
                  ELSE Idle)
  /\ UNCHANGED <<user, refreshKeys, issued, revoked>>

\* A handler that leaves the sessions alone.
HandleOther(r) ==
  /\ req[r].pc = "admitted"
  /\ Becomes(r, Idle)
  /\ UNCHANGED <<user, cachedVersion, refreshKeys, issued, revoked>>
-----------------------------------------------------------------------------
(* logout, logoutAll, changePassword and resetPassword.                    *)

\* logout deletes the key of the refresh token the client sends, if any.
Logout(r, t) ==
  /\ req[r].pc = "admitted"
  /\ \/ refreshKeys' = refreshKeys \ {t}
     \/ RedisMayFail /\ UNCHANGED refreshKeys
  /\ Becomes(r, Idle)
  /\ UNCHANGED <<user, cachedVersion, issued, revoked>>

\* $inc of tokenVersion; the updated document gives the version to cache.
Increment(r, password) ==
  /\ user.tokenVersion < MaxVersion
  /\ user' = [user EXCEPT !.tokenVersion = @ + 1, !.password = password]
  /\ Becomes(r, [Idle EXCEPT !.pc = "cacheRevoked", !.version = user.tokenVersion + 1])
  /\ UNCHANGED <<cachedVersion, refreshKeys, issued, revoked>>

\* Faulty: the next version is cached although the document keeps its own.
LogoutAllWithoutUpdate(r) ==
  /\ req[r].pc = "admitted"
  /\ user.tokenVersion < MaxVersion
  /\ Becomes(r, [Idle EXCEPT !.pc = "cacheRevoked", !.version = user.tokenVersion + 1])
  /\ UNCHANGED <<user, cachedVersion, refreshKeys, issued, revoked>>

LogoutAllIncrement(r) ==
  /\ req[r].pc = "admitted"
  /\ Increment(r, user.password)

\* changePassword: current # new, and current must match what is stored.
ChangePasswordRead(r, current, new) ==
  /\ req[r].pc = "admitted"
  /\ current # new
  /\ current = user.password
  /\ Becomes(r, [Idle EXCEPT !.pc = "changeWrite", !.password = new])
  /\ UNCHANGED <<user, cachedVersion, refreshKeys, issued, revoked>>

\* resetPassword, once the OTP or the reset token has been accepted.
ResetPasswordRead(r, new) ==
  /\ req[r].pc = "idle"
  /\ IsActive
  /\ new # user.password
  /\ Becomes(r, [Idle EXCEPT !.pc = "changeWrite", !.password = new])
  /\ UNCHANGED <<user, cachedVersion, refreshKeys, issued, revoked>>

\* Faulty: the hash is set and the version kept.
ChangePasswordKeepingVersion(r) ==
  /\ req[r].pc = "changeWrite"
  /\ user' = [user EXCEPT !.password = req[r].password]
  /\ Becomes(r, [Idle EXCEPT !.pc = "cacheRevoked", !.version = user.tokenVersion])
  /\ UNCHANGED <<cachedVersion, refreshKeys, issued, revoked>>

\* One update by id sets the hash and increments the version.
ChangePasswordWrite(r) ==
  /\ req[r].pc = "changeWrite"
  /\ Increment(r, req[r].password)

\* Faulty: a revocation leaves the cached version to expire.
CacheRevokedVersionSkipped(r) ==
  /\ req[r].pc = "cacheRevoked"
  /\ Becomes(r, [req[r] EXCEPT !.pc = "scan"])
  /\ UNCHANGED <<user, cachedVersion, refreshKeys, issued, revoked>>

CacheRevokedVersion(r) ==
  /\ req[r].pc = "cacheRevoked"
  /\ WriteCache(req[r].version)
  /\ Becomes(r, [req[r] EXCEPT !.pc = "scan"])
  /\ UNCHANGED <<user, refreshKeys, issued, revoked>>

\* deleteByPattern walks the keys with SCAN: it finds every key that stays
\* throughout, and may find or miss one that is stored while it runs.
ScanRefreshKeys(r) ==
  /\ req[r].pc = "scan"
  /\ Becomes(r, [req[r] EXCEPT !.pc = "delete", !.found = refreshKeys])
  /\ UNCHANGED <<user, cachedVersion, refreshKeys, issued, revoked>>

\* Faulty: the pattern matches no key.
DeleteRefreshKeysOfNobody(r) ==
  /\ req[r].pc = "delete"
  /\ revoked' = IF req[r].version > revoked THEN req[r].version ELSE revoked
  /\ Becomes(r, Idle)
  /\ UNCHANGED <<user, cachedVersion, refreshKeys, issued>>

DeleteRefreshKeys(r) ==
  /\ req[r].pc = "delete"
  /\ \/ \E late \in SUBSET (refreshKeys \ req[r].found) :
          refreshKeys' = refreshKeys \ (req[r].found \union late)
     \/ RedisMayFail /\ refreshKeys' \in SUBSET refreshKeys
  /\ revoked' = IF req[r].version > revoked THEN req[r].version ELSE revoked
  /\ Becomes(r, Idle)
  /\ UNCHANGED <<user, cachedVersion, issued>>
-----------------------------------------------------------------------------
(* Everything else that reaches this state.                                *)

\* UserService.update writes the status and nothing in Redis.
SetStatus(s) ==
  /\ user' = [user EXCEPT !.status = s]
  /\ req' = [q \in Requests |->
               IF req[q].pc \in Signing THEN [req[q] EXCEPT !.sawActive = @ \/ s = "ACTIVE"]
               ELSE req[q]]
  /\ UNCHANGED <<cachedVersion, refreshKeys, issued, revoked>>

\* The version cache lives for an hour, a refresh key for seven days.
ExpireVersion ==
  /\ cachedVersion # NoVersion
  /\ cachedVersion' = NoVersion
  /\ UNCHANGED <<user, refreshKeys, issued, req, revoked>>

ExpireRefreshKey(t) ==
  /\ t \in refreshKeys
  /\ refreshKeys' = refreshKeys \ {t}
  /\ UNCHANGED <<user, cachedVersion, issued, req, revoked>>

\* The process dies, or a MongoDB call throws: the later steps never run.
Crash(r) ==
  /\ req[r].pc # "idle"
  /\ Becomes(r, Idle)
  /\ UNCHANGED <<user, cachedVersion, refreshKeys, issued, revoked>>

RequestStep(r) ==
  \/ \E p \in Passwords : LoginFind(r, p)
  \/ LoginReread(r)
  \/ \E t \in issued : RefreshGet(r, t)
  \/ RefreshRead(r)
  \/ \E s \in Seconds : StoreRefreshKey(r, s)
  \/ CacheMintedVersion(r)
  \/ \E t \in issued : GuardGet(r, t)
  \/ GuardRead(r)
  \/ GuardCache(r)
  \/ HandleOther(r)
  \/ \E t \in issued : Logout(r, t)
  \/ LogoutAllIncrement(r)
  \/ \E p, new \in Passwords : ChangePasswordRead(r, p, new)
  \/ \E new \in Passwords : ResetPasswordRead(r, new)
  \/ ChangePasswordWrite(r)
  \/ CacheRevokedVersion(r)
  \/ ScanRefreshKeys(r)
  \/ DeleteRefreshKeys(r)
  \/ Crash(r)

Next ==
  \/ \E r \in Requests : RequestStep(r)
  \/ \E s \in Statuses : SetStatus(s)
  \/ ExpireVersion
  \/ \E t \in refreshKeys : ExpireRefreshKey(t)

Spec == Init /\ [][Next]_vars
-----------------------------------------------------------------------------
(* Properties that hold whatever the requests in flight do.                *)

Minting(r) == req[r].pc \in {"storeKey", "cacheMinted"}

\* No copy of the version (the cache, a token, a handler's local) is ever
\* ahead of the document: tokenVersion + 1 revokes everything there is.
VersionsNeverAhead ==
  /\ cachedVersion <= user.tokenVersion
  /\ \A t \in refreshKeys \union issued : t.version <= user.tokenVersion
  /\ \A r \in Requests : req[r].version <= user.tokenVersion
  /\ revoked <= user.tokenVersion

\* A refresh that arrives after a revocation was answered mints nothing from
\* a token the revocation covers, though the token's key may still be in
\* Redis: AuthService.refresh reads the version from MongoDB.
RevokedNeverRefreshed ==
  \A r \in Requests :
    Minting(r) /\ req[r].token # NoToken => req[r].token.version >= req[r].floor

\* Tokens are minted, and the guard's fallback admits, only if the account
\* was active at some moment since the request arrived.
InactiveNeverMints ==
  \A r \in Requests : Minting(r) \/ req[r].pc = "guardCache" => req[r].sawActive

\* What a request may be granted: the version it read, "checked" from the
\* password check to that read, and nothing otherwise (AccountGrants!ticket).
Ticket(q) ==
  IF q.pc = "loginReread" THEN -2
  ELSE IF q.pc \in {"storeKey", "cacheMinted"} THEN q.version
  ELSE -1

Grants ==
  INSTANCE AccountGrants WITH
    password <- user.password,
    epoch    <- user.tokenVersion,
    active   <- IsActive,
    ticket   <- [r \in Requests |-> Ticket(req[r])],
    granted  <- issued

\* The service implements AccountGrants: the version cache adds nothing to what
\* login and refresh hand out, the password never changes without the version,
\* and no interleaving, swallowed Redis error or crash hands out a pair that
\* one check and one read of the account did not allow.
ImplementsGrants == Grants!Spec
-----------------------------------------------------------------------------
(* The inductive invariant the proofs use.                                 *)

\* What is known of a request q in flight: the locals its next step uses have
\* been read, nothing it read is ahead of the account, and what entitles it to
\* mint (an active account, a token at or above its floor) was established.
RequestInv(q) ==
  /\ q.version <= user.tokenVersion
  /\ q.floor <= user.tokenVersion
  /\ q.pc \in {"storeKey", "cacheMinted", "guardCache", "cacheRevoked", "scan", "delete"}
       => q.version \in Versions
  /\ q.pc = "cacheMinted" => q.second \in Seconds
  /\ q.pc = "changeWrite" => q.password \in Passwords
  /\ q.pc = "loginReread" => q.token = NoToken
  /\ q.pc \in {"loginReread", "storeKey", "cacheMinted", "guardCache"} => q.sawActive
  /\ q.pc \in Signing /\ IsActive => q.sawActive
  /\ q.pc \in {"storeKey", "cacheMinted"} /\ q.token # NoToken
       => q.token.version >= q.floor

IInv ==
  /\ TypeOK
  /\ VersionsNeverAhead
  /\ \A r \in Requests : RequestInv(req[r])
-----------------------------------------------------------------------------
(* Properties of requests served one at a time, while Redis answers.       *)

\* The guard admits no token that a revocation answered before the request
\* arrived covers ("revokes existing tokens", auth.service.spec.ts).
RevokedTokensRejected ==
  \A r \in Requests : req[r].pc = "admitted" => req[r].token.version >= req[r].floor

\* A revocation leaves no key of a refresh token it covers in Redis.
RevokedKeysGone == \A t \in refreshKeys : t.version >= revoked

\* Between requests the guard would refuse no token of the current version:
\* a cache entry a crash left behind is replaced before one is handed out.
CurrentTokensAdmitted ==
  (\A r \in Requests : req[r].pc = "idle") =>
    \A t \in issued : t.version = user.tokenVersion =>
                        cachedVersion \in {NoVersion, t.version}
-----------------------------------------------------------------------------
(* What every step keeps of requests served one at a time.                 *)

\* Whoever has read or written the version still has the account's; a revocation
\* about to be answered has replaced the cached version and seen every key.
SerialProgress(q) ==
  /\ q.pc \in {"storeKey", "cacheMinted", "guardCache", "cacheRevoked", "scan", "delete"} =>
       q.version = user.tokenVersion
  /\ q.pc \in {"scan", "delete"} => cachedVersion \in {NoVersion, user.tokenVersion}
  /\ q.pc = "delete" => refreshKeys \subseteq q.found
  /\ q.pc = "admitted" => q.token.version >= q.floor

SerialInv ==
  /\ RevokedKeysGone
  /\ cachedVersion # NoVersion => cachedVersion >= revoked
  /\ \A t \in issued : t.version = user.tokenVersion =>
       cachedVersion \in {NoVersion, user.tokenVersion}
  /\ \A r \in Requests : SerialProgress(req[r])
=============================================================================
