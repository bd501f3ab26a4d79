------------------------- MODULE AuthSessionsProofs --------------------------
(***************************************************************************)
(* Safety of AuthSessions for every value of its constants, and that it    *)
(* implements AccountGrants.  All of it rests on IInv: Init gives it, and  *)
(* every step keeps it.  Most steps rewrite one request and nothing else;  *)
(* LEMMA OneRequest takes care of the rest of the state for those.         *)
(***************************************************************************)
EXTENDS AuthSessions, TLAPS

\* A request's bounds are numbers.
LEMMA RequestNumbers ==
  ASSUME NEW q \in Request
  PROVE  q.floor \in Int /\ q.version \in Int
<1>1. q.floor \in Versions /\ q.version \in Versions \union {NoVersion}
  BY DEF Request
<1>2. QED
  BY <1>1, ConstantsAssumption DEF Versions, NoVersion

\* A free slot, as every ended request leaves it, is a request and satisfies
\* the invariant of requests.
LEMMA IdleRequest ==
  ASSUME TypeOK
  PROVE  Idle \in Request /\ RequestInv(Idle)
<1>1. 0 \in Versions
  BY ConstantsAssumption DEF Versions
<1>2. Idle \in Request
  BY <1>1 DEF Idle, Request, PCs
<1>3. user.tokenVersion \in Nat
  BY ConstantsAssumption DEF TypeOK, User, Versions
<1>4. RequestInv(Idle)
  BY <1>3 DEF Idle, RequestInv, Signing, NoVersion
<1>5. QED
  BY <1>2, <1>4

\* A step that gives one request a sound record and leaves the rest of the
\* state alone keeps the invariant.
LEMMA OneRequest ==
  ASSUME IInv, NEW r \in Requests, NEW record \in Request, RequestInv(record),
         Becomes(r, record),
         UNCHANGED <<user, cachedVersion, refreshKeys, issued, revoked>>
  PROVE  IInv'
<1>1. req' \in [Requests -> Request]
  BY DEF IInv, TypeOK, Becomes
<1>2. TypeOK'
  BY <1>1 DEF IInv, TypeOK
<1>3. \A q \in Requests : req'[q] = IF q = r THEN record ELSE req[q]
  BY DEF IInv, TypeOK, Becomes
<1>4. \A q \in Requests : RequestInv(req[q])'
  BY <1>3 DEF IInv, RequestInv, IsActive
<1>5. VersionsNeverAhead'
  BY <1>3 DEF IInv, VersionsNeverAhead, RequestInv
<1>6. QED
  BY <1>2, <1>4, <1>5 DEF IInv

\* A request that has just arrived with a token is sound.
LEMMA PresentedRequest ==
  ASSUME IInv, NEW t \in Token, NEW pc \in PCs \ {"loginReread", "storeKey", "cacheMinted",
         "guardCache", "cacheRevoked", "scan", "delete", "changeWrite"}
  PROVE  Presented(pc, t) \in Request /\ RequestInv(Presented(pc, t))
<1>1. Idle \in Request /\ RequestInv(Idle)
  BY IdleRequest DEF IInv
<1>2. revoked \in Versions /\ revoked <= user.tokenVersion
  BY DEF IInv, TypeOK, VersionsNeverAhead
<1>3. Arrived(pc) \in Request
  <2>1. pc \in PCs /\ IsActive \in BOOLEAN
    BY DEF IsActive
  <2>2. QED
    BY <1>1, <2>1 DEF Arrived, Request
<1>4. Presented(pc, t) \in Request
  BY <1>2, <1>3 DEF Presented, Request
<1>5. /\ Presented(pc, t).pc = pc /\ Presented(pc, t).version = Idle.version
      /\ Presented(pc, t).floor = revoked /\ Presented(pc, t).sawActive = IsActive
  BY DEF Presented, Arrived, Idle
<1>6. RequestInv(Presented(pc, t))
  <2> HIDE DEF Presented
  <2> QED
    BY <1>1, <1>2, <1>5 DEF RequestInv
<1>7. QED
  BY <1>4, <1>6

\* With an account and no tokens, IInv holds.
THEOREM InitInv == Init => IInv
<1> SUFFICES ASSUME Init PROVE IInv
  OBVIOUS
<1>1. TypeOK
  <2>1. 0 \in Versions
    BY ConstantsAssumption DEF Versions
  <2>2. user \in User
    BY <2>1 DEF Init, User, Statuses
  <2>3. req \in [Requests -> Request]
    BY <2>1 DEF Init, Idle, Request, PCs
  <2>4. QED
    BY <2>1, <2>2, <2>3 DEF Init, TypeOK
<1>2. \A r \in Requests : RequestInv(req[r])
  BY <1>1, IdleRequest DEF Init
<1>3. VersionsNeverAhead
  BY <1>2 DEF Init, VersionsNeverAhead, RequestInv, NoVersion
<1>4. QED
  BY <1>1, <1>2, <1>3 DEF IInv

-----------------------------------------------------------------------------
(* login, refresh and issueTokens.                                         *)

LEMMA LoginKeepsInv ==
  ASSUME IInv, NEW r \in Requests
  PROVE  /\ \A p \in Passwords : LoginFind(r, p) => IInv'
         /\ LoginReread(r) => IInv'
<1>1. ASSUME NEW p \in Passwords, LoginFind(r, p) PROVE IInv'
  <2> DEFINE record == Arrived("loginReread")
  <2>1. Idle \in Request /\ RequestInv(Idle)
    BY IdleRequest DEF IInv
  <2>2. record \in Request
    BY <2>1 DEF Arrived, Request, PCs, IsActive
  <2>3. RequestInv(record)
    BY <1>1, <2>1 DEF LoginFind, Arrived, RequestInv, Idle, Signing, NoVersion
  <2>4. QED
    BY <1>1, <2>2, <2>3, OneRequest DEF LoginFind
<1>2. ASSUME LoginReread(r) PROVE IInv'
  <2> DEFINE record == [req[r] EXCEPT !.pc = "storeKey", !.version = user.tokenVersion]
  <2>1. req[r] \in Request /\ RequestInv(req[r]) /\ user.tokenVersion \in Versions
    BY DEF IInv, TypeOK, User
  <2>2. record \in Request
    BY <2>1 DEF Request, PCs
  <2>3. RequestInv(record)
    <3>1. /\ record.pc = "storeKey" /\ record.version = user.tokenVersion
          /\ record.token = req[r].token /\ record.floor = req[r].floor
          /\ record.sawActive = req[r].sawActive
      BY <2>1 DEF Request
    <3>2. req[r].token = NoToken /\ req[r].sawActive /\ req[r].floor <= user.tokenVersion
      BY <1>2, <2>1 DEF LoginReread, RequestInv
    <3>3. user.tokenVersion <= user.tokenVersion
      BY <2>1, ConstantsAssumption DEF Versions
    <3> HIDE DEF record
    <3>4. QED
      BY <2>1, <3>1, <3>2, <3>3 DEF RequestInv
  <2>4. QED
    BY <1>2, <2>2, <2>3, OneRequest DEF LoginReread
<1>3. QED
  BY <1>1, <1>2

LEMMA RefreshKeepsInv ==
  ASSUME IInv, NEW r \in Requests
  PROVE  /\ \A t \in issued : RefreshGet(r, t) => IInv'
         /\ RefreshRead(r) => IInv'
<1>0. Idle \in Request /\ RequestInv(Idle)
  BY IdleRequest DEF IInv
<1>1. ASSUME NEW t \in issued, RefreshGet(r, t) PROVE IInv'
  <2>1. t \in Token /\ "refreshRead" \in PCs
    BY DEF IInv, TypeOK, PCs
  <2>2. Presented("refreshRead", t) \in Request /\ RequestInv(Presented("refreshRead", t))
    BY <2>1, PresentedRequest
  <2>3. QED
    BY <1>1, <2>2, OneRequest DEF RefreshGet
<1>2. ASSUME RefreshRead(r) PROVE IInv'
  <2> DEFINE record == [req[r] EXCEPT !.pc = "storeKey", !.version = user.tokenVersion]
  <2>1. req[r] \in Request /\ RequestInv(req[r]) /\ user.tokenVersion \in Versions
    BY DEF IInv, TypeOK, User
  <2>2. CASE IsActive /\ req[r].token.version = user.tokenVersion
    <3>1. record \in Request
      BY <2>1 DEF Request, PCs
    <3>2. RequestInv(record)
      <4>1. /\ record.pc = "storeKey" /\ record.version = user.tokenVersion
            /\ record.token = req[r].token /\ record.floor = req[r].floor
            /\ record.sawActive = req[r].sawActive
        BY <2>1 DEF Request
      <4>2. req[r].sawActive /\ req[r].floor <= user.tokenVersion
        BY <1>2, <2>1, <2>2 DEF RefreshRead, RequestInv, Signing
      <4>3. req[r].floor \in Int /\ user.tokenVersion \in Int
        BY <2>1, RequestNumbers, ConstantsAssumption DEF Versions
      <4>4. user.tokenVersion <= user.tokenVersion /\ req[r].token.version >= req[r].floor
        BY <2>2, <4>2, <4>3
      <4> HIDE DEF record
      <4>5. QED
        BY <2>1, <4>1, <4>2, <4>4 DEF RequestInv
    <3>3. QED
      BY <1>2, <2>2, <3>1, <3>2, OneRequest DEF RefreshRead
  <2>3. CASE ~ (IsActive /\ req[r].token.version = user.tokenVersion)
    BY <1>0, <1>2, <2>3, OneRequest DEF RefreshRead
  <2>4. QED
    BY <2>2, <2>3
<1>3. QED
  BY <1>1, <1>2

\* The two steps of issueTokens also write the key, the cache and the pair.
LEMMA IssueKeepsInv ==
  ASSUME IInv, NEW r \in Requests
  PROVE  /\ \A s \in Seconds : StoreRefreshKey(r, s) => IInv'
         /\ CacheMintedVersion(r) => IInv'
<1>0. req[r] \in Request /\ RequestInv(req[r]) /\ Idle \in Request /\ RequestInv(Idle)
  BY IdleRequest DEF IInv, TypeOK
<1>1. ASSUME NEW s \in Seconds, StoreRefreshKey(r, s) PROVE IInv'
  <2> DEFINE record == [req[r] EXCEPT !.pc = "cacheMinted", !.second = s]
             token == [version |-> req[r].version, second |-> s]
  <2>1. req[r].version \in Versions /\ req[r].version <= user.tokenVersion
    BY <1>0, <1>1 DEF StoreRefreshKey, RequestInv
  <2>2. token \in Token
    BY <2>1 DEF Token
  <2>3. record \in Request
    BY <1>0 DEF Request, PCs
  <2>4. RequestInv(record)
    BY <1>0, <1>1 DEF StoreRefreshKey, RequestInv, Signing, Request
  <2>5. \A q \in Requests : req'[q] = IF q = r THEN record ELSE req[q]
    BY <1>1 DEF StoreRefreshKey, Becomes, IInv, TypeOK
  <2>6. refreshKeys' \subseteq refreshKeys \union {token}
    BY <1>1 DEF StoreRefreshKey
  <2>7. TypeOK'
    BY <1>1, <2>2, <2>3, <2>6 DEF StoreRefreshKey, Becomes, IInv, TypeOK
  <2>8. \A q \in Requests : RequestInv(req[q])'
    BY <1>1, <2>4, <2>5 DEF StoreRefreshKey, IInv, RequestInv, IsActive
  <2>9. VersionsNeverAhead'
    <3>1. \A t \in refreshKeys' : t.version <= user.tokenVersion
      BY <2>1, <2>6 DEF IInv, VersionsNeverAhead
    <3>2. QED
      BY <1>1, <2>8, <3>1 DEF StoreRefreshKey, IInv, VersionsNeverAhead, RequestInv
  <2>10. QED
    BY <2>7, <2>8, <2>9 DEF IInv
<1>2. ASSUME CacheMintedVersion(r) PROVE IInv'
  <2> DEFINE token == [version |-> req[r].version, second |-> req[r].second]
  <2>1. req[r].version \in Versions /\ req[r].version <= user.tokenVersion
    BY <1>0, <1>2 DEF CacheMintedVersion, RequestInv
  <2>2. token \in Token
    BY <1>0, <1>2, <2>1 DEF CacheMintedVersion, RequestInv, Token
  <2>3. cachedVersion' \in {cachedVersion, req[r].version}
    BY <1>2 DEF CacheMintedVersion, WriteCache
  <2>4. \A q \in Requests : req'[q] = IF q = r THEN Idle ELSE req[q]
    BY <1>2 DEF CacheMintedVersion, Becomes, IInv, TypeOK
  <2>5. TypeOK'
    BY <1>0, <1>2, <2>1, <2>2, <2>3 DEF CacheMintedVersion, Becomes, IInv, TypeOK
  <2>6. \A q \in Requests : RequestInv(req[q])'
    BY <1>0, <1>2, <2>4 DEF CacheMintedVersion, IInv, RequestInv, IsActive
  <2>7. VersionsNeverAhead'
    BY <1>2, <2>1, <2>3, <2>6 DEF CacheMintedVersion, IInv, VersionsNeverAhead, RequestInv
  <2>8. QED
    BY <2>5, <2>6, <2>7 DEF IInv
<1>3. QED
  BY <1>1, <1>2

-----------------------------------------------------------------------------
(* AuthGuard.                                                              *)

LEMMA GuardKeepsInv ==
  ASSUME IInv, NEW r \in Requests
  PROVE  /\ \A t \in issued : GuardGet(r, t) => IInv'
         /\ GuardRead(r) => IInv'
         /\ GuardCache(r) => IInv'
         /\ HandleOther(r) => IInv'
<1>0. /\ req[r] \in Request /\ RequestInv(req[r])
      /\ Idle \in Request /\ RequestInv(Idle)
  BY IdleRequest DEF IInv, TypeOK
<1>1. ASSUME NEW t \in issued, GuardGet(r, t) PROVE IInv'
  <2>1. t \in Token /\ {"admitted", "guardRead"} \subseteq PCs
    BY DEF IInv, TypeOK, PCs
  <2>2. PICK pc \in {"admitted", "guardRead"} : Becomes(r, Presented(pc, t))
    BY <1>1 DEF GuardGet
  <2>3. Presented(pc, t) \in Request /\ RequestInv(Presented(pc, t))
    BY <2>1, PresentedRequest
  <2>4. QED
    BY <1>1, <2>2, <2>3, OneRequest DEF GuardGet
<1>2. ASSUME GuardRead(r) PROVE IInv'
  <2> DEFINE record == [req[r] EXCEPT !.pc = "guardCache", !.version = user.tokenVersion]
  <2>1. user.tokenVersion \in Versions
    BY DEF IInv, TypeOK, User
  <2>2. CASE IsActive
    <3>1. record \in Request
      BY <1>0, <2>1 DEF Request, PCs
    <3>2. /\ record.pc = "guardCache" /\ record.version = user.tokenVersion
          /\ record.token = req[r].token /\ record.floor = req[r].floor
          /\ record.sawActive = req[r].sawActive
      BY <1>0 DEF Request
    <3>3. req[r].sawActive /\ req[r].floor <= user.tokenVersion
      BY <1>0, <1>2, <2>2 DEF GuardRead, RequestInv, Signing
    <3>4. user.tokenVersion <= user.tokenVersion
      BY <2>1, ConstantsAssumption DEF Versions
    <3>5. RequestInv(record)
      <4> HIDE DEF record
      <4> QED
        BY <2>1, <3>2, <3>3, <3>4 DEF RequestInv
    <3>6. QED
      BY <1>2, <2>2, <3>1, <3>5, OneRequest DEF GuardRead
  <2>3. CASE ~IsActive
    BY <1>0, <1>2, <2>3, OneRequest DEF GuardRead
  <2>4. QED
    BY <2>2, <2>3
<1>3. ASSUME GuardCache(r) PROVE IInv'
  <2> DEFINE admitted == [req[r] EXCEPT !.pc = "admitted", !.version = NoVersion]
             record == IF req[r].version = req[r].token.version THEN admitted ELSE Idle
  <2>1. /\ req[r].version \in Versions /\ req[r].version <= user.tokenVersion
        /\ req[r].floor <= user.tokenVersion /\ user.tokenVersion \in Nat
    BY <1>0, <1>3, ConstantsAssumption
       DEF GuardCache, RequestInv, IInv, TypeOK, User, Versions
  <2>2. record \in Request
    <3>1. admitted \in Request
      BY <1>0 DEF Request, PCs
    <3>2. QED
      BY <1>0, <3>1
  <2>3. RequestInv(record)
    <3>1. admitted.pc = "admitted" /\ admitted.version = NoVersion /\ admitted.floor = req[r].floor
      BY <1>0 DEF Request
    <3> HIDE DEF admitted
    <3>2. RequestInv(admitted)
      BY <2>1, <3>1 DEF RequestInv, Signing, NoVersion
    <3>3. QED
      BY <1>0, <3>2
  <2>4. \A q \in Requests : req'[q] = IF q = r THEN record ELSE req[q]
    BY <1>3 DEF GuardCache, Becomes, IInv, TypeOK
  <2>5. cachedVersion' \in {cachedVersion, req[r].version}
    BY <1>3 DEF GuardCache, WriteCache
  <2> HIDE DEF record
  <2>6. req' \in [Requests -> Request]
    BY <1>3, <2>2 DEF GuardCache, Becomes, IInv, TypeOK, record, admitted
  <2>7. TypeOK'
    BY <1>3, <2>1, <2>5, <2>6 DEF GuardCache, IInv, TypeOK
  <2>8. \A q \in Requests : RequestInv(req[q])'
    BY <1>3, <2>3, <2>4 DEF GuardCache, IInv, RequestInv, IsActive
  <2>9. VersionsNeverAhead'
    BY <1>3, <2>1, <2>5, <2>8 DEF GuardCache, IInv, VersionsNeverAhead, RequestInv
  <2>10. QED
    BY <2>7, <2>8, <2>9 DEF IInv
<1>4. ASSUME HandleOther(r) PROVE IInv'
  BY <1>0, <1>4, OneRequest DEF HandleOther
<1>5. QED
  BY <1>1, <1>2, <1>3, <1>4

-----------------------------------------------------------------------------
(* Revocations.                                                            *)

\* $inc raises the version above everything read so far.
LEMMA IncrementKeepsInv ==
  ASSUME IInv, NEW r \in Requests, NEW password \in Passwords, Increment(r, password)
  PROVE  IInv'
<1> DEFINE record == [Idle EXCEPT !.pc = "cacheRevoked", !.version = user.tokenVersion + 1]
<1>1. /\ Idle \in Request /\ RequestInv(Idle)
      /\ user \in User /\ user.tokenVersion \in Versions /\ user.tokenVersion < MaxVersion
  BY IdleRequest DEF IInv, TypeOK, User, Increment
<1>2. /\ user.tokenVersion \in Int /\ user.tokenVersion + 1 \in Versions
      /\ (user.tokenVersion)' = user.tokenVersion + 1 /\ user'.status = user.status
      /\ user' \in User
  <2>1. user.tokenVersion \in Int /\ user.tokenVersion + 1 \in Versions
    BY <1>1, ConstantsAssumption DEF Versions
  <2>2. user' = [user EXCEPT !.tokenVersion = user.tokenVersion + 1, !.password = password]
    BY DEF Increment
  <2>3. QED
    BY <1>1, <2>1, <2>2 DEF User
<1>3. record \in Request
  BY <1>1, <1>2 DEF Request, PCs
<1>4. req' \in [Requests -> Request] /\ \A q \in Requests : req'[q] = IF q = r THEN record ELSE req[q]
  BY <1>3 DEF Increment, Becomes, IInv, TypeOK
<1>5. TypeOK'
  BY <1>2, <1>4 DEF Increment, IInv, TypeOK
<1>6. ASSUME NEW q \in Requests PROVE RequestInv(req[q])'
  <2>1. CASE q = r
    <3>1. /\ req'[q].pc = "cacheRevoked" /\ req'[q].version = user.tokenVersion + 1
          /\ req'[q].floor = 0
      BY <1>4, <2>1 DEF Idle
    <3>2. 0 <= user.tokenVersion + 1 /\ user.tokenVersion + 1 <= user.tokenVersion + 1
      BY <1>1, <1>2, ConstantsAssumption DEF Versions
    <3>3. QED
      BY <1>2, <3>1, <3>2 DEF RequestInv, Signing
  <2>2. CASE q # r
    <3>1. req'[q] = req[q] /\ RequestInv(req[q]) /\ req[q] \in Request
      BY <1>4, <2>2 DEF IInv, TypeOK
    <3>2. req[q].version <= user.tokenVersion + 1 /\ req[q].floor <= user.tokenVersion + 1
      BY <1>2, <3>1, RequestNumbers DEF RequestInv
    <3>3. QED
      BY <1>2, <3>1, <3>2 DEF RequestInv, IsActive
  <2>3. QED
    BY <2>1, <2>2
<1>7. VersionsNeverAhead'
  <2>1. cachedVersion \in Int /\ revoked \in Int /\ \A t \in refreshKeys \union issued : t.version \in Int
    BY ConstantsAssumption DEF IInv, TypeOK, Versions, NoVersion, Token
  <2>2. /\ cachedVersion <= user.tokenVersion + 1 /\ revoked <= user.tokenVersion + 1
        /\ \A t \in refreshKeys \union issued : t.version <= user.tokenVersion + 1
    BY <1>2, <2>1 DEF IInv, VersionsNeverAhead
  <2>3. QED
    BY <1>2, <1>6, <2>2 DEF Increment, VersionsNeverAhead, RequestInv
<1>8. QED
  BY <1>5, <1>6, <1>7 DEF IInv

LEMMA PasswordKeepsInv ==
  ASSUME IInv, NEW r \in Requests
  PROVE  /\ LogoutAllIncrement(r) => IInv'
         /\ \A p, new \in Passwords : ChangePasswordRead(r, p, new) => IInv'
         /\ \A new \in Passwords : ResetPasswordRead(r, new) => IInv'
         /\ ChangePasswordWrite(r) => IInv'
<1>0. /\ Idle \in Request /\ RequestInv(Idle) /\ RequestInv(req[r])
      /\ user.password \in Passwords
  BY IdleRequest DEF IInv, TypeOK, User
<1>1. ASSUME LogoutAllIncrement(r) PROVE IInv'
  BY <1>0, <1>1, IncrementKeepsInv DEF LogoutAllIncrement
<1>2. ASSUME NEW new \in Passwords
      PROVE  LET record == [Idle EXCEPT !.pc = "changeWrite", !.password = new]
             IN  record \in Request /\ RequestInv(record)
  <2> DEFINE record == [Idle EXCEPT !.pc = "changeWrite", !.password = new]
  <2>1. record \in Request
    BY <1>0 DEF Request, PCs
  <2>2. RequestInv(record)
    BY <1>0 DEF RequestInv, Idle, Signing
  <2>3. QED
    BY <2>1, <2>2
<1>3. ASSUME NEW p \in Passwords, NEW new \in Passwords, ChangePasswordRead(r, p, new)
      PROVE  IInv'
  BY <1>2, <1>3, OneRequest DEF ChangePasswordRead
<1>4. ASSUME NEW new \in Passwords, ResetPasswordRead(r, new) PROVE IInv'
  BY <1>2, <1>4, OneRequest DEF ResetPasswordRead
<1>5. ASSUME ChangePasswordWrite(r) PROVE IInv'
  <2>1. req[r].password \in Passwords
    BY <1>0, <1>5 DEF ChangePasswordWrite, RequestInv
  <2>2. QED
    BY <1>5, <2>1, IncrementKeepsInv DEF ChangePasswordWrite
<1>6. QED
  BY <1>1, <1>3, <1>4, <1>5

LEMMA CleanupKeepsInv ==
  ASSUME IInv, NEW r \in Requests
  PROVE  /\ CacheRevokedVersion(r) => IInv'
         /\ ScanRefreshKeys(r) => IInv'
         /\ DeleteRefreshKeys(r) => IInv'
<1>0. /\ req[r] \in Request /\ RequestInv(req[r])
      /\ Idle \in Request /\ RequestInv(Idle)
  BY IdleRequest DEF IInv, TypeOK
<1>1. ASSUME CacheRevokedVersion(r) PROVE IInv'
  <2> DEFINE record == [req[r] EXCEPT !.pc = "scan"]
  <2>1. req[r].version \in Versions /\ req[r].version <= user.tokenVersion
    BY <1>0, <1>1 DEF CacheRevokedVersion, RequestInv
  <2>2. record \in Request /\ record.pc = "scan" /\ record.version = req[r].version
        /\ record.floor = req[r].floor
    BY <1>0 DEF Request, PCs
  <2>3. cachedVersion' \in {cachedVersion, req[r].version}
    BY <1>1 DEF CacheRevokedVersion, WriteCache
  <2> HIDE DEF record
  <2>4. RequestInv(record)
    BY <1>0, <2>1, <2>2 DEF RequestInv, Signing
  <2>5. req' \in [Requests -> Request] /\ \A q \in Requests : req'[q] = IF q = r THEN record ELSE req[q]
    BY <1>1, <2>2 DEF CacheRevokedVersion, Becomes, IInv, TypeOK, record
  <2>6. TypeOK'
    BY <1>1, <2>1, <2>3, <2>5 DEF CacheRevokedVersion, IInv, TypeOK
  <2>7. \A q \in Requests : RequestInv(req[q])'
    BY <1>1, <2>4, <2>5 DEF CacheRevokedVersion, IInv, RequestInv, IsActive
  <2>8. VersionsNeverAhead'
    BY <1>1, <2>1, <2>3, <2>7 DEF CacheRevokedVersion, IInv, VersionsNeverAhead, RequestInv
  <2>9. QED
    BY <2>6, <2>7, <2>8 DEF IInv
<1>2. ASSUME ScanRefreshKeys(r) PROVE IInv'
  <2> DEFINE record == [req[r] EXCEPT !.pc = "delete", !.found = refreshKeys]
  <2>1. record \in Request /\ record.pc = "delete" /\ record.version = req[r].version
        /\ record.floor = req[r].floor
    BY <1>0 DEF Request, PCs, IInv, TypeOK
  <2> HIDE DEF record
  <2>2. RequestInv(record)
    BY <1>0, <1>2, <2>1 DEF ScanRefreshKeys, RequestInv, Signing
  <2>3. QED
    BY <1>2, <2>1, <2>2, OneRequest DEF ScanRefreshKeys, record
<1>3. ASSUME DeleteRefreshKeys(r) PROVE IInv'
  <2>1. req[r].version \in Versions /\ req[r].version <= user.tokenVersion
    BY <1>0, <1>3 DEF DeleteRefreshKeys, RequestInv
  <2>2. refreshKeys' \subseteq refreshKeys /\ revoked' \in {revoked, req[r].version}
    BY <1>3 DEF DeleteRefreshKeys
  <2>3. req' \in [Requests -> Request] /\ \A q \in Requests : req'[q] = IF q = r THEN Idle ELSE req[q]
    BY <1>0, <1>3 DEF DeleteRefreshKeys, Becomes, IInv, TypeOK
  <2>4. TypeOK'
    BY <1>3, <2>1, <2>2, <2>3 DEF DeleteRefreshKeys, IInv, TypeOK
  <2>5. \A q \in Requests : RequestInv(req[q])'
    BY <1>0, <1>3, <2>3 DEF DeleteRefreshKeys, IInv, RequestInv, IsActive
  <2>6. VersionsNeverAhead'
    BY <1>3, <2>1, <2>2, <2>5 DEF DeleteRefreshKeys, IInv, VersionsNeverAhead, RequestInv
  <2>7. QED
    BY <2>4, <2>5, <2>6 DEF IInv
<1>4. QED
  BY <1>1, <1>2, <1>3
-----------------------------------------------------------------------------
(* Logout, the administrator, expiry and crashes.                          *)

LEMMA EnvironmentKeepsInv ==
  ASSUME IInv
  PROVE  /\ \A r \in Requests, t \in issued : Logout(r, t) => IInv'
         /\ \A s \in Statuses : SetStatus(s) => IInv'
         /\ ExpireVersion => IInv'
         /\ \A t \in refreshKeys : ExpireRefreshKey(t) => IInv'
         /\ \A r \in Requests : Crash(r) => IInv'
<1>0. Idle \in Request /\ RequestInv(Idle)
  BY IdleRequest DEF IInv
<1>1. ASSUME NEW r \in Requests, NEW t \in issued, Logout(r, t) PROVE IInv'
  <2>1. req' \in [Requests -> Request] /\ \A q \in Requests : req'[q] = IF q = r THEN Idle ELSE req[q]
    BY <1>0, <1>1 DEF Logout, Becomes, IInv, TypeOK
  <2>2. refreshKeys' \subseteq refreshKeys
    BY <1>1 DEF Logout
  <2>3. TypeOK'
    BY <1>1, <2>1, <2>2 DEF Logout, IInv, TypeOK
  <2>4. \A q \in Requests : RequestInv(req[q])'
    BY <1>0, <1>1, <2>1 DEF Logout, IInv, RequestInv, IsActive
  <2>5. VersionsNeverAhead'
    BY <1>1, <2>2, <2>4 DEF Logout, IInv, VersionsNeverAhead, RequestInv
  <2>6. QED
    BY <2>3, <2>4, <2>5 DEF IInv
<1>2. ASSUME NEW s \in Statuses, SetStatus(s) PROVE IInv'
  <2>1. user' \in User /\ (user.tokenVersion)' = user.tokenVersion /\ user'.status = s
    BY <1>2 DEF SetStatus, IInv, TypeOK, User
  <2>2. ASSUME NEW q \in Requests PROVE req'[q] \in Request /\ RequestInv(req[q])'
    <3> DEFINE active == req[q].sawActive \/ s = "ACTIVE"
               record == [req[q] EXCEPT !.sawActive = active]
    <3>1. req[q] \in Request /\ RequestInv(req[q])
      BY DEF IInv, TypeOK
    <3>2. req'[q] = IF req[q].pc \in Signing THEN record ELSE req[q]
      BY <1>2 DEF SetStatus
    <3>3. CASE req[q].pc \in Signing
      <4>1. active \in BOOLEAN
        OBVIOUS
      <4> HIDE DEF active
      <4>2. record \in Request
        BY <3>1, <4>1 DEF Request
      <4>3. /\ record.pc = req[q].pc /\ record.version = req[q].version
            /\ record.token = req[q].token /\ record.floor = req[q].floor
            /\ record.second = req[q].second /\ record.password = req[q].password
        BY <3>1 DEF Request
      <4>4. record.sawActive = active
        BY <3>1 DEF Request
      <4> HIDE DEF record
      <4>5. record.sawActive <=> (req[q].sawActive \/ s = "ACTIVE")
        BY <4>4 DEF active
      <4>6. req'[q] = record
        BY <3>2, <3>3
      <4>7. RequestInv(req[q])'
        BY <2>1, <3>1, <4>3, <4>5, <4>6 DEF RequestInv, IsActive
      <4>8. QED
        BY <4>2, <4>6, <4>7
    <3>4. CASE req[q].pc \notin Signing
      BY <2>1, <3>1, <3>2, <3>4 DEF RequestInv, IsActive
    <3>5. QED
      BY <3>3, <3>4
  <2>3. req' \in [Requests -> Request]
    BY <1>2, <2>2 DEF SetStatus
  <2>4. TypeOK'
    BY <1>2, <2>1, <2>3 DEF SetStatus, IInv, TypeOK
  <2>5. VersionsNeverAhead'
    BY <1>2, <2>1, <2>2 DEF SetStatus, IInv, VersionsNeverAhead, RequestInv
  <2>6. QED
    BY <2>2, <2>4, <2>5 DEF IInv
<1>3. ASSUME ExpireVersion PROVE IInv'
  <2>1. TypeOK'
    BY <1>3 DEF ExpireVersion, IInv, TypeOK
  <2>2. user.tokenVersion \in Nat
    BY ConstantsAssumption DEF IInv, TypeOK, User, Versions
  <2>3. VersionsNeverAhead'
    BY <1>3, <2>2 DEF ExpireVersion, IInv, VersionsNeverAhead, NoVersion
  <2>4. QED
    BY <1>3, <2>1, <2>3 DEF ExpireVersion, IInv, RequestInv, IsActive
<1>4. ASSUME NEW t \in refreshKeys, ExpireRefreshKey(t) PROVE IInv'
  <2>1. TypeOK'
    BY <1>4 DEF ExpireRefreshKey, IInv, TypeOK
  <2>2. VersionsNeverAhead'
    BY <1>4 DEF ExpireRefreshKey, IInv, VersionsNeverAhead
  <2>3. QED
    BY <1>4, <2>1, <2>2 DEF ExpireRefreshKey, IInv, RequestInv, IsActive
<1>5. ASSUME NEW r \in Requests, Crash(r) PROVE IInv'
  BY <1>0, <1>5, OneRequest DEF Crash
<1>6. QED
  BY <1>1, <1>2, <1>3, <1>4, <1>5

-----------------------------------------------------------------------------
\* Every step keeps the invariant.
THEOREM NextInv == IInv /\ [Next]_vars => IInv'
<1> SUFFICES ASSUME IInv, [Next]_vars PROVE IInv'
  OBVIOUS
<1>1. ASSUME NEW r \in Requests, RequestStep(r) PROVE IInv'
  <2>1. CASE (\E p \in Passwords : LoginFind(r, p)) \/ LoginReread(r)
    BY <2>1, LoginKeepsInv
  <2>2. CASE (\E t \in issued : RefreshGet(r, t)) \/ RefreshRead(r)
    BY <2>2, RefreshKeepsInv
  <2>3. CASE (\E s \in Seconds : StoreRefreshKey(r, s)) \/ CacheMintedVersion(r)
    BY <2>3, IssueKeepsInv
  <2>4. CASE (\E t \in issued : GuardGet(r, t)) \/ GuardRead(r) \/ GuardCache(r) \/ HandleOther(r)
    BY <2>4, GuardKeepsInv
  <2>5. CASE \/ LogoutAllIncrement(r)
             \/ \E p, new \in Passwords : ChangePasswordRead(r, p, new)
             \/ \E new \in Passwords : ResetPasswordRead(r, new)
             \/ ChangePasswordWrite(r)
    BY <2>5, PasswordKeepsInv
  <2>6. CASE CacheRevokedVersion(r) \/ ScanRefreshKeys(r) \/ DeleteRefreshKeys(r)
    BY <2>6, CleanupKeepsInv
  <2>7. CASE (\E t \in issued : Logout(r, t)) \/ Crash(r)
    BY <2>7, EnvironmentKeepsInv
  <2>8. QED
    BY <1>1, <2>1, <2>2, <2>3, <2>4, <2>5, <2>6, <2>7 DEF RequestStep
<1>2. CASE (\E s \in Statuses : SetStatus(s)) \/ ExpireVersion \/ \E t \in refreshKeys : ExpireRefreshKey(t)
  BY <1>2, EnvironmentKeepsInv
<1>3. CASE UNCHANGED vars
  <2>1. TypeOK' /\ VersionsNeverAhead'
    BY <1>3 DEF vars, IInv, TypeOK, VersionsNeverAhead
  <2>2. QED
    BY <1>3, <2>1 DEF vars, IInv, RequestInv, IsActive
<1>4. QED
  BY <1>1, <1>2, <1>3 DEF Next

\* IInv always holds.
THEOREM Invariance == Spec => []IInv
BY InitInv, NextInv, PTL DEF Spec

\* The document, the Redis keys and the locals of every request stay in their
\* types, whatever the number of requests and versions.
THEOREM TypeCorrect == Spec => []TypeOK
<1>1. IInv => TypeOK
  BY DEF IInv
<1>2. QED
  BY <1>1, Invariance, PTL

\* No cached version, token or local is ever ahead of auth_users.tokenVersion.
THEOREM NeverAhead == Spec => []VersionsNeverAhead
<1>1. IInv => VersionsNeverAhead
  BY DEF IInv
<1>2. QED
  BY <1>1, Invariance, PTL

\* AuthService.refresh never mints from a token revoked before it was called.
THEOREM RevokedStayRevoked == Spec => []RevokedNeverRefreshed
<1>1. IInv => RevokedNeverRefreshed
  BY DEF IInv, RequestInv, RevokedNeverRefreshed, Minting
<1>2. QED
  BY <1>1, Invariance, PTL

\* login, refresh and the guard's fallback require an active account.
THEOREM InactiveMintNothing == Spec => []InactiveNeverMints
<1>1. IInv => InactiveNeverMints
  BY DEF IInv, RequestInv, InactiveNeverMints, Minting
<1>2. QED
  BY <1>1, Invariance, PTL

-----------------------------------------------------------------------------
(* Refinement: every step is a step of AccountGrants or changes nothing of *)
(* what AccountGrants speaks of.                                           *)

\* A step that rewrites one request changes at most that request's ticket.
LEMMA OneTicket ==
  ASSUME IInv, NEW r \in Requests, NEW record, Becomes(r, record)
  PROVE  [q \in Requests |-> Ticket(req[q])]'
           = [[q \in Requests |-> Ticket(req[q])] EXCEPT ![r] = Ticket(record)]
<1>1. \A q \in Requests : req'[q] = IF q = r THEN record ELSE req[q]
  BY DEF Becomes, IInv, TypeOK
<1>2. \A q \in Requests : Ticket(req'[q]) = IF q = r THEN Ticket(record) ELSE Ticket(req[q])
  BY <1>1
<1>3. QED
  BY <1>2

\* A step whose request keeps its ticket, and that touches neither the account
\* nor the issued pairs, is invisible.
LEMMA HiddenStep ==
  ASSUME IInv, NEW r \in Requests, NEW record, Becomes(r, record),
         Ticket(record) = Ticket(req[r]), UNCHANGED <<user, issued>>
  PROVE  UNCHANGED Grants!vars
<1>1. [q \in Requests |-> Ticket(req[q])]' = [q \in Requests |-> Ticket(req[q])]
  BY OneTicket
<1>2. QED
  BY <1>1 DEF Grants!vars, IsActive

\* The steps of login, refresh and issueTokens: Check, Stamp and HandOut.
LEMMA MintingRefines ==
  ASSUME IInv, NEW r \in Requests
  PROVE  /\ (\E p \in Passwords : LoginFind(r, p)) => Grants!Check(r)
         /\ LoginReread(r) => Grants!Stamp(r)
         /\ (\E t \in issued : RefreshGet(r, t)) => UNCHANGED Grants!vars
         /\ RefreshRead(r) => Grants!Stamp(r) \/ UNCHANGED Grants!vars
         /\ (\E s \in Seconds : StoreRefreshKey(r, s)) => UNCHANGED Grants!vars
         /\ CacheMintedVersion(r) => Grants!HandOut(r)
<1> DEFINE tickets == [q \in Requests |-> Ticket(req[q])]
<1>0. req[r] \in Request /\ RequestInv(req[r]) /\ tickets[r] = Ticket(req[r])
  BY DEF IInv, TypeOK
<1>1. ASSUME NEW p \in Passwords, LoginFind(r, p) PROVE Grants!Check(r)
  <2>1. Ticket(req[r]) = -1 /\ Ticket(Arrived("loginReread")) = -2
    BY <1>1 DEF LoginFind, Ticket, Arrived, Idle
  <2>2. tickets' = [tickets EXCEPT ![r] = -2]
    BY <1>1, <2>1, OneTicket DEF LoginFind
  <2>3. QED
    BY <1>0, <1>1, <2>1, <2>2 DEF LoginFind, Grants!Check, Grants!None, Grants!Checked, IsActive
<1>2. ASSUME LoginReread(r) PROVE Grants!Stamp(r)
  <2> DEFINE record == [req[r] EXCEPT !.pc = "storeKey", !.version = user.tokenVersion]
  <2>1. Ticket(req[r]) = -2 /\ Ticket(record) = user.tokenVersion
    BY <1>0, <1>2 DEF LoginReread, Ticket, Request
  <2>2. tickets' = [tickets EXCEPT ![r] = user.tokenVersion]
    BY <1>2, <2>1, OneTicket DEF LoginReread
  <2>3. QED
    BY <1>0, <1>2, <2>1, <2>2 DEF LoginReread, Grants!Stamp, Grants!Checked, IsActive
<1>3. ASSUME NEW t \in issued, RefreshGet(r, t) PROVE UNCHANGED Grants!vars
  <2>1. Ticket(req[r]) = -1 /\ Ticket(Presented("refreshRead", t)) = -1
    BY <1>3 DEF RefreshGet, Ticket, Presented, Arrived, Idle
  <2>2. QED
    BY <1>3, <2>1, HiddenStep DEF RefreshGet
<1>4. ASSUME RefreshRead(r) PROVE Grants!Stamp(r) \/ UNCHANGED Grants!vars
  <2> DEFINE record == [req[r] EXCEPT !.pc = "storeKey", !.version = user.tokenVersion]
  <2>1. Ticket(req[r]) = -1
    BY <1>4 DEF RefreshRead, Ticket
  <2>2. CASE IsActive /\ req[r].token.version = user.tokenVersion
    <3>1. Ticket(record) = user.tokenVersion
      BY <1>0 DEF Ticket, Request
    <3>2. tickets' = [tickets EXCEPT ![r] = user.tokenVersion]
      BY <1>4, <2>2, <3>1, OneTicket DEF RefreshRead
    <3>3. QED
      BY <1>0, <1>4, <2>1, <2>2, <3>2 DEF RefreshRead, Grants!Stamp, Grants!None, IsActive
  <2>3. CASE ~ (IsActive /\ req[r].token.version = user.tokenVersion)
    <3>1. Ticket(Idle) = -1
      BY DEF Ticket, Idle
    <3>2. QED
      BY <1>4, <2>1, <2>3, <3>1, HiddenStep DEF RefreshRead
  <2>4. QED
    BY <2>2, <2>3
<1>5. ASSUME NEW s \in Seconds, StoreRefreshKey(r, s) PROVE UNCHANGED Grants!vars
  <2> DEFINE record == [req[r] EXCEPT !.pc = "cacheMinted", !.second = s]
  <2>1. Ticket(record) = Ticket(req[r])
    BY <1>0, <1>5 DEF StoreRefreshKey, Ticket, Request
  <2>2. QED
    BY <1>5, <2>1, HiddenStep DEF StoreRefreshKey
<1>6. ASSUME CacheMintedVersion(r) PROVE Grants!HandOut(r)
  <2>1. /\ Ticket(req[r]) = req[r].version /\ req[r].version \in Versions
        /\ req[r].second \in Seconds /\ Ticket(Idle) = -1
    BY <1>0, <1>6 DEF CacheMintedVersion, Ticket, Idle, RequestInv
  <2>2. tickets' = [tickets EXCEPT ![r] = -1]
    BY <1>6, <2>1, OneTicket DEF CacheMintedVersion
  <2>3. QED
    BY <1>0, <1>6, <2>1, <2>2
       DEF CacheMintedVersion, Grants!HandOut, Grants!Epochs, Grants!None, Versions, IsActive
<1>7. QED
  BY <1>1, <1>2, <1>3, <1>4, <1>5, <1>6

\* The guard and the clean-up of a revocation: invisible.
LEMMA GuardingRefines ==
  ASSUME IInv, NEW r \in Requests,
         \/ \E t \in issued : GuardGet(r, t)
         \/ GuardRead(r) \/ GuardCache(r) \/ HandleOther(r)
         \/ \E t \in issued : Logout(r, t)
         \/ CacheRevokedVersion(r) \/ ScanRefreshKeys(r) \/ DeleteRefreshKeys(r)
  PROVE  UNCHANGED Grants!vars
<1>0. req[r] \in Request /\ Ticket(Idle) = -1
  BY DEF IInv, TypeOK, Ticket, Idle
<1>1. UNCHANGED <<user, issued>>
  BY DEF GuardGet, GuardRead, GuardCache, HandleOther, Logout, CacheRevokedVersion,
         ScanRefreshKeys, DeleteRefreshKeys
<1>2. Ticket(req[r]) = -1
  BY DEF Ticket, GuardGet, GuardRead, GuardCache, HandleOther, Logout, CacheRevokedVersion,
         ScanRefreshKeys, DeleteRefreshKeys
<1>3. ASSUME NEW pc \in {"admitted", "guardRead"}, NEW t \in issued, Becomes(r, Presented(pc, t))
      PROVE  UNCHANGED Grants!vars
  <2>1. Presented(pc, t).pc = pc
    BY DEF Presented, Arrived, Idle
  <2>2. Ticket(Presented(pc, t)) = -1
    BY <2>1 DEF Ticket
  <2>3. QED
    BY <1>1, <1>2, <1>3, <2>2, HiddenStep
<1>4. CASE \E t \in issued : GuardGet(r, t)
  BY <1>3, <1>4 DEF GuardGet
<1>5. CASE GuardRead(r)
  <2> DEFINE record == [req[r] EXCEPT !.pc = "guardCache", !.version = user.tokenVersion]
  <2>1. Ticket(record) = -1
    BY <1>0 DEF Ticket, Request
  <2>2. QED
    BY <1>0, <1>1, <1>2, <1>5, <2>1, HiddenStep DEF GuardRead
<1>6. CASE GuardCache(r)
  <2> DEFINE record == [req[r] EXCEPT !.pc = "admitted", !.version = NoVersion]
  <2>1. Ticket(record) = -1
    BY <1>0 DEF Ticket, Request
  <2>2. QED
    BY <1>0, <1>1, <1>2, <1>6, <2>1, HiddenStep DEF GuardCache
<1>7. CASE HandleOther(r) \/ (\E t \in issued : Logout(r, t)) \/ DeleteRefreshKeys(r)
  <2>1. Becomes(r, Idle)
    BY <1>7 DEF HandleOther, Logout, DeleteRefreshKeys
  <2>2. QED
    BY <1>0, <1>1, <1>2, <2>1, HiddenStep
<1>8. CASE CacheRevokedVersion(r)
  <2> DEFINE record == [req[r] EXCEPT !.pc = "scan"]
  <2>1. Ticket(record) = -1
    BY <1>0 DEF Ticket, Request
  <2>2. QED
    BY <1>1, <1>2, <1>8, <2>1, HiddenStep DEF CacheRevokedVersion
<1>9. CASE ScanRefreshKeys(r)
  <2> DEFINE record == [req[r] EXCEPT !.pc = "delete", !.found = refreshKeys]
  <2>1. Ticket(record) = -1
    BY <1>0 DEF Ticket, Request
  <2>2. QED
    BY <1>1, <1>2, <1>9, <2>1, HiddenStep DEF ScanRefreshKeys
<1>10. QED
  BY <1>4, <1>5, <1>6, <1>7, <1>8, <1>9

\* logoutAll, changePassword and resetPassword: hidden up to the update that
\* revokes, which is Revoke.
LEMMA RevokingRefines ==
  ASSUME IInv, NEW r \in Requests
  PROVE  /\ LogoutAllIncrement(r) \/ ChangePasswordWrite(r) => Grants!Revoke
         /\ (\E p, new \in Passwords : ChangePasswordRead(r, p, new)) => UNCHANGED Grants!vars
         /\ (\E new \in Passwords : ResetPasswordRead(r, new)) => UNCHANGED Grants!vars
<1> DEFINE tickets == [q \in Requests |-> Ticket(req[q])]
<1>0. req[r] \in Request /\ RequestInv(req[r]) /\ user \in User /\ tickets[r] = Ticket(req[r])
  BY DEF IInv, TypeOK
<1>1. ASSUME NEW p \in Passwords, Ticket(req[r]) = -1, Increment(r, p) PROVE Grants!Revoke
  <2> DEFINE record == [Idle EXCEPT !.pc = "cacheRevoked", !.version = user.tokenVersion + 1]
  <2>1. Ticket(record) = -1
    BY DEF Ticket, Idle
  <2>2. tickets' = [tickets EXCEPT ![r] = -1]
    BY <1>1, <2>1, OneTicket DEF Increment
  <2>3. tickets' = tickets
    BY <1>0, <1>1, <2>2
  <2>4. /\ (user.tokenVersion)' = user.tokenVersion + 1
        /\ user'.password = p /\ user'.status = user.status
    BY <1>0, <1>1 DEF Increment, User
  <2>5. UNCHANGED issued
    BY <1>1 DEF Increment
  <2>6. QED
    BY <1>1, <2>3, <2>4, <2>5 DEF Grants!Revoke, IsActive
<1>2. LogoutAllIncrement(r) => Grants!Revoke
  BY <1>0, <1>1 DEF LogoutAllIncrement, Ticket, User
<1>3. ChangePasswordWrite(r) => Grants!Revoke
  BY <1>0, <1>1 DEF ChangePasswordWrite, Ticket, RequestInv
<1>4. ASSUME NEW new, Ticket(req[r]) = -1, UNCHANGED <<user, issued>>,
             Becomes(r, [Idle EXCEPT !.pc = "changeWrite", !.password = new])
      PROVE  UNCHANGED Grants!vars
  <2> DEFINE record == [Idle EXCEPT !.pc = "changeWrite", !.password = new]
  <2>1. Ticket(record) = -1
    BY DEF Ticket, Idle
  <2>2. QED
    BY <1>4, <2>1, HiddenStep
<1>5. (\E p, new \in Passwords : ChangePasswordRead(r, p, new)) => UNCHANGED Grants!vars
  BY <1>4 DEF ChangePasswordRead, Ticket
<1>6. (\E new \in Passwords : ResetPasswordRead(r, new)) => UNCHANGED Grants!vars
  BY <1>4 DEF ResetPasswordRead, Ticket
<1>7. QED
  BY <1>2, <1>3, <1>5, <1>6

\* What requests do not do themselves: SetActive, Abandon, and hidden expiry.
LEMMA EnvironmentRefines ==
  ASSUME IInv
  PROVE  /\ (\E s \in Statuses : SetStatus(s)) => Grants!SetActive
         /\ ExpireVersion \/ (\E t \in refreshKeys : ExpireRefreshKey(t)) => UNCHANGED Grants!vars
         /\ \A r \in Requests : Crash(r) => Grants!Abandon(r)
<1> DEFINE tickets == [q \in Requests |-> Ticket(req[q])]
<1>1. ASSUME NEW s \in Statuses, SetStatus(s) PROVE Grants!SetActive
  <2>1. \A q \in Requests : Ticket(req'[q]) = Ticket(req[q])
    <3> TAKE q \in Requests
    <3>1. req[q] \in Request
      BY DEF IInv, TypeOK
    <3>2. req'[q].pc = req[q].pc /\ req'[q].version = req[q].version
      BY <1>1, <3>1 DEF SetStatus, Request
    <3>3. QED
      BY <3>2 DEF Ticket
  <2>2. tickets' = tickets
    BY <2>1
  <2>3. /\ (user.tokenVersion)' = user.tokenVersion /\ user'.password = user.password
        /\ UNCHANGED issued
    BY <1>1 DEF SetStatus, IInv, TypeOK, User
  <2>4. IsActive' \in BOOLEAN
    BY DEF IsActive
  <2>5. QED
    BY <2>2, <2>3, <2>4 DEF Grants!SetActive
<1>2. ExpireVersion \/ (\E t \in refreshKeys : ExpireRefreshKey(t)) => UNCHANGED Grants!vars
  BY DEF ExpireVersion, ExpireRefreshKey, Grants!vars, IsActive
<1>3. ASSUME NEW r \in Requests, Crash(r) PROVE Grants!Abandon(r)
  <2>1. Ticket(Idle) = -1
    BY DEF Ticket, Idle
  <2>2. tickets' = [tickets EXCEPT ![r] = -1]
    BY <1>3, <2>1, OneTicket DEF Crash
  <2>3. QED
    BY <1>3, <2>2 DEF Crash, Grants!Abandon, Grants!None, IsActive
<1>4. QED
  BY <1>1, <1>2, <1>3

\* AuthService, with its caches and keys, implements AccountGrants.
THEOREM Refinement == Spec => ImplementsGrants
<1>1. Init => Grants!Init
  <2> SUFFICES ASSUME Init PROVE Grants!Init
    OBVIOUS
  <2>1. [q \in Requests |-> Ticket(req[q])] = [q \in Requests |-> -1]
    BY DEF Init, Ticket, Idle
  <2>2. QED
    BY <2>1 DEF Init, Grants!Init, Grants!None, IsActive
<1>2. IInv /\ [Next]_vars => [Grants!Next]_(Grants!vars)
  <2> SUFFICES ASSUME IInv, [Next]_vars PROVE Grants!Next \/ UNCHANGED Grants!vars
    OBVIOUS
  <2>1. ASSUME NEW r \in Requests, RequestStep(r)
        PROVE  Grants!Next \/ UNCHANGED Grants!vars
    BY <2>1, MintingRefines, GuardingRefines, RevokingRefines, EnvironmentRefines
       DEF RequestStep, Grants!Next
  <2>2. CASE (\E s \in Statuses : SetStatus(s)) \/ ExpireVersion \/ \E t \in refreshKeys : ExpireRefreshKey(t)
    BY <2>2, EnvironmentRefines DEF Grants!Next
  <2>3. CASE UNCHANGED vars
    BY <2>3 DEF vars, Grants!vars, IsActive, Ticket
  <2>4. QED
    BY <2>1, <2>2, <2>3 DEF Next
<1>3. QED
  BY <1>1, <1>2, Invariance, PTL DEF Spec, ImplementsGrants, Grants!Spec
-----------------------------------------------------------------------------
(* Requests served one at a time, while Redis answers.                     *)

OneAtATime == ~ RedisMayFail /\ \A r, q \in Requests : r = q

\* A step that only moves the request on.
LEMMA SerialMoves ==
  ASSUME IInv, SerialInv, OneAtATime, NEW r \in Requests, NEW x, Becomes(r, x), SerialProgress(x),
         UNCHANGED <<user, cachedVersion, refreshKeys, issued, revoked>>
  PROVE  SerialInv'
<1>1. \A q \in Requests : req'[q] = x
  BY DEF OneAtATime, Becomes, IInv, TypeOK
<1>2. SerialProgress(x)'
  BY DEF SerialProgress
<1>3. \A q \in Requests : SerialProgress(req[q])'
  BY <1>1, <1>2 DEF SerialProgress
<1>4. QED
  BY <1>3 DEF SerialInv, RevokedKeysGone

\* The versions that are compared are numbers.
LEMMA SerialNumbers ==
  ASSUME IInv
  PROVE  /\ user.tokenVersion \in Nat /\ revoked \in Nat /\ revoked <= user.tokenVersion
         /\ cachedVersion \in Int /\ cachedVersion <= user.tokenVersion
         /\ \A t \in refreshKeys \union issued : t.version \in Nat /\ t.version <= user.tokenVersion
         /\ NoVersion \in Int
BY ConstantsAssumption DEF IInv, TypeOK, User, Versions, NoVersion, VersionsNeverAhead, Token

LEMMA SerialIdle == Idle.pc = "idle" /\ SerialProgress(Idle)
BY DEF Idle, SerialProgress

\* Requests that end, those that arrive, and those that only read the account.
LEMMA SerialEnds ==
  ASSUME IInv, SerialInv, OneAtATime, NEW r \in Requests,
         HandleOther(r) \/ Crash(r)
  PROVE  SerialInv'
<1>1. PICK x : x = Idle
  OBVIOUS
<1>2. QED
  BY <1>1, SerialIdle, SerialMoves DEF HandleOther, Crash

LEMMA SerialLogin ==
  ASSUME IInv, SerialInv, OneAtATime, NEW r \in Requests,
         (\E p \in Passwords : LoginFind(r, p)) \/ LoginReread(r)
  PROVE  SerialInv'
<1>1. CASE \E p \in Passwords : LoginFind(r, p)
  <2>1. PICK x : x = Arrived("loginReread")
    OBVIOUS
  <2>2. x.pc = "loginReread"
    BY <2>1 DEF Arrived, Idle
  <2>3. SerialProgress(x)
    BY <2>2 DEF SerialProgress
  <2>4. QED
    BY <1>1, <2>1, <2>3, SerialMoves DEF LoginFind
<1>2. CASE LoginReread(r)
  <2>1. PICK x : x = [req[r] EXCEPT !.pc = "storeKey", !.version = user.tokenVersion]
    OBVIOUS
  <2>2. x.pc = "storeKey" /\ x.version = user.tokenVersion
    BY <2>1 DEF IInv, TypeOK, Request
  <2>3. SerialProgress(x)
    BY <2>2 DEF SerialProgress
  <2>4. QED
    BY <1>2, <2>1, <2>3, SerialMoves DEF LoginReread
<1>3. QED
  BY <1>1, <1>2

LEMMA SerialRefresh ==
  ASSUME IInv, SerialInv, OneAtATime, NEW r \in Requests,
         (\E t \in issued : RefreshGet(r, t)) \/ RefreshRead(r)
  PROVE  SerialInv'
<1>1. ASSUME NEW t \in issued, RefreshGet(r, t)
      PROVE  SerialInv'
  <2>1. PICK x : x = Presented("refreshRead", t)
    OBVIOUS
  <2>2. x.pc = "refreshRead"
    BY <2>1 DEF Presented, Arrived, Idle
  <2>3. SerialProgress(x)
    BY <2>2 DEF SerialProgress
  <2>4. QED
    BY <1>1, <2>1, <2>3, SerialMoves DEF RefreshGet
<1>2. CASE RefreshRead(r)
  <2>1. PICK x : x = [req[r] EXCEPT !.pc = "storeKey", !.version = user.tokenVersion]
    OBVIOUS
  <2>2. x.pc = "storeKey" /\ x.version = user.tokenVersion
    BY <2>1 DEF IInv, TypeOK, Request
  <2>3. SerialProgress(x)
    BY <2>2 DEF SerialProgress
  <2>4. PICK y : y = Idle
    OBVIOUS
  <2>5. SerialProgress(y)
    BY <2>4, SerialIdle
  <2>6. Becomes(r, x) \/ Becomes(r, y)
    BY <1>2, <2>1, <2>4 DEF RefreshRead
  <2>7. QED
    BY <1>2, <2>3, <2>5, <2>6, SerialMoves DEF RefreshRead
<1>3. QED
  BY <1>1, <1>2

\* A key and a token of the account's own version, which is then cached.
LEMMA SerialIssue ==
  ASSUME IInv, SerialInv, OneAtATime, NEW r \in Requests,
         (\E s \in Seconds : StoreRefreshKey(r, s)) \/ CacheMintedVersion(r)
  PROVE  SerialInv'
<1>1. ~ RedisMayFail
  BY DEF OneAtATime
<1>2. ASSUME NEW s \in Seconds, StoreRefreshKey(r, s)
      PROVE  SerialInv'
  <2>1. PICK x : x = [req[r] EXCEPT !.pc = "cacheMinted", !.second = s]
    OBVIOUS
  <2>2. x.pc = "cacheMinted" /\ x.version = user.tokenVersion
    BY <1>2, <2>1 DEF IInv, TypeOK, Request, SerialInv, SerialProgress, StoreRefreshKey
  <2>3. \A q \in Requests : req'[q] = x
    BY <1>2, <2>1 DEF OneAtATime, StoreRefreshKey, Becomes, IInv, TypeOK
  <2>4. refreshKeys' = refreshKeys \union {[version |-> user.tokenVersion, second |-> s]}
    BY <1>1, <1>2 DEF StoreRefreshKey, SerialInv, SerialProgress
  <2>5. UNCHANGED <<user, cachedVersion, issued, revoked>>
    BY <1>2 DEF StoreRefreshKey
  <2>6. RevokedKeysGone'
    BY <2>4, <2>5, SerialNumbers DEF SerialInv, RevokedKeysGone
  <2>7. \A q \in Requests : SerialProgress(req[q])'
    BY <2>2, <2>3, <2>5 DEF SerialProgress
  <2>8. QED
    BY <2>5, <2>6, <2>7 DEF SerialInv
<1>3. CASE CacheMintedVersion(r)
  <2>1. req[r].version = user.tokenVersion
    BY <1>3 DEF SerialInv, SerialProgress, CacheMintedVersion
  <2>2. cachedVersion' = user.tokenVersion /\ UNCHANGED <<user, refreshKeys, revoked>>
    BY <1>1, <1>3, <2>1 DEF CacheMintedVersion, WriteCache
  <2>3. \A q \in Requests : req'[q] = Idle
    BY <1>3 DEF OneAtATime, CacheMintedVersion, Becomes, IInv, TypeOK
  <2>4. \A q \in Requests : SerialProgress(req[q])'
    BY <2>3, SerialIdle DEF SerialProgress
  <2>5. QED
    BY <2>2, <2>4, SerialNumbers DEF SerialInv, RevokedKeysGone
<1>4. QED
  BY <1>2, <1>3

\* The guard: from the cache, which holds nothing older than the latest revocation,
\* or from the account.
LEMMA SerialGuard ==
  ASSUME IInv, SerialInv, OneAtATime, NEW r \in Requests,
         (\E t \in issued : GuardGet(r, t)) \/ GuardRead(r) \/ GuardCache(r)
  PROVE  SerialInv'
<1>1. ~ RedisMayFail
  BY DEF OneAtATime
<1>2. PICK y : y = Idle
  OBVIOUS
<1>3. SerialProgress(y)
  BY <1>2, SerialIdle
<1>4. ASSUME NEW t \in issued, GuardGet(r, t)
      PROVE  SerialInv'
  <2>1. PICK pc \in {"admitted", "guardRead"} :
          Becomes(r, Presented(pc, t)) /\ (pc = "admitted" => cachedVersion = t.version)
    BY <1>4 DEF GuardGet
  <2>2. PICK x : x = Presented(pc, t)
    OBVIOUS
  <2>3. x.pc = pc /\ x.token = t /\ x.floor = revoked
    BY <2>2 DEF Presented, Arrived, Idle
  <2>4. cachedVersion = t.version => t.version >= revoked
    BY SerialNumbers DEF SerialInv, NoVersion
  <2>5. SerialProgress(x)
    BY <2>1, <2>3, <2>4 DEF SerialProgress
  <2>6. QED
    BY <1>4, <2>1, <2>2, <2>5, SerialMoves DEF GuardGet
<1>5. CASE GuardRead(r)
  <2>1. PICK x : x = [req[r] EXCEPT !.pc = "guardCache", !.version = user.tokenVersion]
    OBVIOUS
  <2>2. x.pc = "guardCache" /\ x.version = user.tokenVersion
    BY <2>1 DEF IInv, TypeOK, Request
  <2>3. SerialProgress(x)
    BY <2>2 DEF SerialProgress
  <2>4. Becomes(r, x) \/ Becomes(r, y)
    BY <1>2, <1>5, <2>1 DEF GuardRead
  <2>5. QED
    BY <1>3, <1>5, <2>3, <2>4, SerialMoves DEF GuardRead
<1>6. CASE GuardCache(r)
  <2>1. /\ req[r] \in Request /\ req[r].version = user.tokenVersion
        /\ req[r].floor \in Int /\ req[r].floor <= user.tokenVersion
    BY <1>6, RequestNumbers DEF IInv, TypeOK, RequestInv, SerialInv, SerialProgress, GuardCache
  <2>2. cachedVersion' = user.tokenVersion /\ UNCHANGED <<user, refreshKeys, issued, revoked>>
    BY <1>1, <1>6, <2>1 DEF GuardCache, WriteCache
  <2>3. PICK x : x = [req[r] EXCEPT !.pc = "admitted", !.version = NoVersion]
    OBVIOUS
  <2>4. x.pc = "admitted" /\ x.token = req[r].token /\ x.floor = req[r].floor
    BY <2>1, <2>3 DEF Request
  <2>5. PICK z : Becomes(r, z) /\ ((z = x /\ req[r].version = req[r].token.version) \/ z = y)
    BY <1>2, <1>6, <2>3 DEF GuardCache
  <2>6. \A q \in Requests : req'[q] = z
    BY <2>5 DEF OneAtATime, Becomes, IInv, TypeOK
  <2>7. \A q \in Requests : SerialProgress(req[q])'
    <3>1. CASE z = y
      BY <1>2, <2>6, <3>1, SerialIdle DEF SerialProgress
    <3>2. CASE z = x /\ req[r].version = req[r].token.version
      <4>1. z.pc = "admitted" /\ z.token.version >= z.floor
        BY <2>1, <2>4, <3>2, SerialNumbers
      <4>2. QED
        BY <2>6, <4>1 DEF SerialProgress
    <3>3. QED
      BY <2>5, <3>1, <3>2
  <2>8. QED
    BY <2>2, <2>7, SerialNumbers DEF SerialInv, RevokedKeysGone
<1>7. QED
  BY <1>4, <1>5, <1>6

\* A change of the password before its write.
LEMMA SerialChange ==
  ASSUME IInv, SerialInv, OneAtATime, NEW r \in Requests,
         \/ \E p, new \in Passwords : ChangePasswordRead(r, p, new)
         \/ \E new \in Passwords : ResetPasswordRead(r, new)
  PROVE  SerialInv'
<1>1. PICK new \in Passwords : Becomes(r, [Idle EXCEPT !.pc = "changeWrite", !.password = new])
  BY DEF ChangePasswordRead, ResetPasswordRead
<1>2. PICK x : x = [Idle EXCEPT !.pc = "changeWrite", !.password = new]
  OBVIOUS
<1>3. x.pc = "changeWrite"
  BY <1>2 DEF Idle
<1>4. SerialProgress(x)
  BY <1>3 DEF SerialProgress
<1>5. QED
  BY <1>1, <1>2, <1>4, SerialMoves DEF ChangePasswordRead, ResetPasswordRead

\* The increment: no token has the version that is new.
LEMMA SerialIncrement ==
  ASSUME IInv, SerialInv, OneAtATime, NEW r \in Requests,
         LogoutAllIncrement(r) \/ ChangePasswordWrite(r)
  PROVE  SerialInv'
<1>1. PICK password \in Passwords : Increment(r, password)
  BY DEF LogoutAllIncrement, ChangePasswordWrite, IInv, TypeOK, User, RequestInv
<1>2. PICK x : x = [Idle EXCEPT !.pc = "cacheRevoked", !.version = user.tokenVersion + 1]
  OBVIOUS
<1>3. x.pc = "cacheRevoked" /\ x.version = user.tokenVersion + 1
  BY <1>2 DEF Idle
<1>4. (user.tokenVersion)' = user.tokenVersion + 1 /\ UNCHANGED <<cachedVersion, refreshKeys, issued, revoked>>
  BY <1>1 DEF Increment, IInv, TypeOK, User
<1>5. \A q \in Requests : req'[q] = x
  BY <1>1, <1>2 DEF OneAtATime, Increment, Becomes, IInv, TypeOK
<1>6. \A q \in Requests : SerialProgress(req[q])'
  BY <1>3, <1>4, <1>5 DEF SerialProgress
<1>7. \A t \in issued : t.version # user.tokenVersion + 1
  BY SerialNumbers
<1>8. QED
  BY <1>4, <1>6, <1>7 DEF SerialInv, RevokedKeysGone

\* The rest of a revocation.
LEMMA SerialCleanup ==
  ASSUME IInv, SerialInv, OneAtATime, NEW r \in Requests,
         CacheRevokedVersion(r) \/ ScanRefreshKeys(r) \/ DeleteRefreshKeys(r)
  PROVE  SerialInv'
<1>1. ~ RedisMayFail
  BY DEF OneAtATime
<1>2. req[r] \in Request /\ SerialProgress(req[r])
  BY DEF IInv, TypeOK, SerialInv
<1>3. CASE CacheRevokedVersion(r)
  <2>1. PICK x : x = [req[r] EXCEPT !.pc = "scan"]
    OBVIOUS
  <2>2. x.pc = "scan" /\ x.version = user.tokenVersion /\ req[r].version = user.tokenVersion
    BY <1>2, <1>3, <2>1 DEF Request, SerialProgress, CacheRevokedVersion
  <2>3. cachedVersion' = user.tokenVersion /\ UNCHANGED <<user, refreshKeys, issued, revoked>>
    BY <1>1, <1>3, <2>2 DEF CacheRevokedVersion, WriteCache
  <2>4. \A q \in Requests : req'[q] = x
    BY <1>3, <2>1 DEF OneAtATime, CacheRevokedVersion, Becomes, IInv, TypeOK
  <2>5. \A q \in Requests : SerialProgress(req[q])'
    BY <2>2, <2>3, <2>4 DEF SerialProgress
  <2>6. QED
    BY <2>3, <2>5, SerialNumbers DEF SerialInv, RevokedKeysGone
<1>4. CASE ScanRefreshKeys(r)
  <2>1. PICK x : x = [req[r] EXCEPT !.pc = "delete", !.found = refreshKeys]
    OBVIOUS
  <2>2. x.pc = "delete" /\ x.version = req[r].version /\ x.found = refreshKeys
    BY <1>2, <2>1 DEF Request
  <2>3. SerialProgress(x)
    BY <1>2, <1>4, <2>2 DEF SerialProgress, ScanRefreshKeys
  <2>4. QED
    BY <1>4, <2>1, <2>3, SerialMoves DEF ScanRefreshKeys
<1>5. CASE DeleteRefreshKeys(r)
  <2>1. /\ req[r].version = user.tokenVersion /\ refreshKeys \subseteq req[r].found
        /\ cachedVersion \in {NoVersion, user.tokenVersion}
    BY <1>2, <1>5 DEF SerialProgress, DeleteRefreshKeys
  <2>2. refreshKeys' = {}
    BY <1>1, <1>5, <2>1 DEF DeleteRefreshKeys
  <2>3. revoked' = user.tokenVersion /\ UNCHANGED <<user, cachedVersion, issued>>
    BY <1>5, <2>1, SerialNumbers DEF DeleteRefreshKeys
  <2>4. \A q \in Requests : req'[q] = Idle
    BY <1>5 DEF OneAtATime, DeleteRefreshKeys, Becomes, IInv, TypeOK
  <2>5. \A q \in Requests : SerialProgress(req[q])'
    BY <2>4, SerialIdle DEF SerialProgress
  <2>6. QED
    BY <2>1, <2>2, <2>3, <2>5, SerialNumbers DEF SerialInv, RevokedKeysGone
<1>6. QED
  BY <1>3, <1>4, <1>5

\* Keys and the cached version go away, and the status changes.
LEMMA SerialEnvironment ==
  ASSUME IInv, SerialInv, OneAtATime,
         \/ \E r \in Requests, t \in issued : Logout(r, t)
         \/ \E s \in Statuses : SetStatus(s)
         \/ ExpireVersion
         \/ \E t \in refreshKeys : ExpireRefreshKey(t)
  PROVE  SerialInv'
<1>1. ASSUME NEW r \in Requests, NEW t \in issued, Logout(r, t)
      PROVE  SerialInv'
  <2>1. refreshKeys' \subseteq refreshKeys /\ UNCHANGED <<user, cachedVersion, issued, revoked>>
    BY <1>1 DEF Logout
  <2>2. \A q \in Requests : req'[q] = Idle
    BY <1>1 DEF OneAtATime, Logout, Becomes, IInv, TypeOK
  <2>3. \A q \in Requests : SerialProgress(req[q])'
    BY <2>2, SerialIdle DEF SerialProgress
  <2>4. QED
    BY <2>1, <2>3 DEF SerialInv, RevokedKeysGone
<1>2. ASSUME NEW s \in Statuses, SetStatus(s)
      PROVE  SerialInv'
  <2>1. (user.tokenVersion)' = user.tokenVersion /\ UNCHANGED <<cachedVersion, refreshKeys, issued, revoked>>
    BY <1>2 DEF SetStatus, IInv, TypeOK, User
  <2>2. ASSUME NEW q \in Requests
        PROVE  /\ req'[q].pc = req[q].pc /\ req'[q].version = req[q].version
               /\ req'[q].token = req[q].token /\ req'[q].floor = req[q].floor /\ req'[q].found = req[q].found
    BY <1>2 DEF SetStatus, IInv, TypeOK, Request
  <2>3. \A q \in Requests : SerialProgress(req[q])'
    BY <2>1, <2>2 DEF SerialInv, SerialProgress
  <2>4. QED
    BY <2>1, <2>3 DEF SerialInv, RevokedKeysGone
<1>3. CASE ExpireVersion \/ \E t \in refreshKeys : ExpireRefreshKey(t)
  <2>1. /\ cachedVersion' \in {cachedVersion, NoVersion} /\ refreshKeys' \subseteq refreshKeys
        /\ UNCHANGED <<user, issued, req, revoked>>
    BY <1>3 DEF ExpireVersion, ExpireRefreshKey
  <2>2. \A q \in Requests : SerialProgress(req[q])'
    BY <2>1 DEF SerialInv, SerialProgress
  <2>3. QED
    BY <2>1, <2>2 DEF SerialInv, RevokedKeysGone
<1>4. QED
  BY <1>1, <1>2, <1>3

\* If requests are served one at a time and Redis answers, every step keeps
\* SerialInv.
THEOREM SerialNextInv ==
  ASSUME OneAtATime
  PROVE  IInv /\ SerialInv /\ [Next]_vars => SerialInv'
<1> SUFFICES ASSUME IInv, SerialInv, [Next]_vars PROVE SerialInv'
  OBVIOUS
<1>1. CASE UNCHANGED vars
  BY <1>1 DEF vars, SerialInv, SerialProgress, RevokedKeysGone
<1>2. ASSUME NEW r \in Requests, RequestStep(r)
      PROVE  SerialInv'
  BY <1>2, SerialEnds, SerialLogin, SerialRefresh, SerialIssue, SerialGuard, SerialChange,
     SerialIncrement, SerialCleanup, SerialEnvironment DEF RequestStep
<1>3. QED
  BY <1>1, <1>2, SerialEnvironment DEF Next

\* If requests are served one at a time and Redis answers, SerialInv always holds.
THEOREM SerialInvariance ==
  ASSUME OneAtATime
  PROVE  Spec => []SerialInv
<1>1. Init => SerialInv
  BY SerialIdle DEF Init, SerialInv, RevokedKeysGone, SerialProgress
<1>2. QED
  BY <1>1, SerialNextInv, Invariance, PTL DEF Spec

\* The guard admits no token that a revocation answered before covers, although it
\* decides by the cached version alone where there is one.
THEOREM RevokedRejected ==
  ASSUME OneAtATime
  PROVE  Spec => []RevokedTokensRejected
<1>1. SerialInv => RevokedTokensRejected
  BY DEF SerialInv, SerialProgress, RevokedTokensRejected
<1>2. QED
  BY <1>1, SerialInvariance, PTL

\* A revocation that is answered has left no key of a refresh token it covers.
THEOREM KeysGone ==
  ASSUME OneAtATime
  PROVE  Spec => []RevokedKeysGone
<1>1. SerialInv => RevokedKeysGone
  BY DEF SerialInv
<1>2. QED
  BY <1>1, SerialInvariance, PTL

\* Between requests the cached version refuses no token of the account's version,
\* wherever the requests before broke off.
THEOREM CurrentAdmitted ==
  ASSUME OneAtATime
  PROVE  Spec => []CurrentTokensAdmitted
<1>1. SerialInv => CurrentTokensAdmitted
  BY DEF SerialInv, CurrentTokensAdmitted
<1>2. QED
  BY <1>1, SerialInvariance, PTL
=============================================================================
