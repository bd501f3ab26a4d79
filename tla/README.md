# TLA+ models of the field-service backend

This directory models, checks and proves properties of the NestJS backend in
`src/`: an HTTP API over MongoDB and Redis with which a telecoms contractor
runs accounts, timesheets, leave, vehicles and safety paperwork. The models are
written from the TypeScript source; `PROJECT.json` gives, for every definition
that models code, the file and lines it stands for (`map`).

To run: `tlc -workers 2 -config X.cfg M` with a pair of the table under *Runs*,
and `tlapm M.tla` with a module `...Proofs` for the proofs.

## 1. The system

The backend is one Node program, deployed in any number of processes. A request
is an `async` function: it runs alone up to the next `await` and everything else
may run there. All state is in four places:

- **MongoDB.** One call on one document is atomic. There are no transactions:
  `MongoService.$transaction` just calls its argument. `MongoService.updateOne`
  is `findOneAndUpdate` without `upsert`: nothing found, nothing written, no error.
- **Redis.** The version cache, a key per refresh token, one-time codes and reset
  tokens. `RedisService` swallows every error: a failed `get` is a miss, a failed
  `set` or `del` returns normally.
- **The tokens** held by clients: JWTs that carry `tokenVersion`.
- **The e-mail jobs** of BullMQ, which every process takes from.

So the hard behaviours are all of one family: a handler reads, decides, awaits and
writes, and in between another request, a crash, an expiry or a swallowed error
has changed what it read. The queue adds its own: a job is repeated, and its
worker may still be at work when it is.

### Inventory

| Component | State | Operations | What makes it correct | Modelled in |
|---|---|---|---|---|
| Auth sessions (`modules/auth`, `common/guards/auth.guard.ts`) | `auth_users` (password, tokenVersion, status); Redis `token_version`, `refresh:*` | login, refresh, logout, logoutAll, changePassword, end of resetPassword, the guard | a revocation revokes; nothing runs ahead of the version; no tokens for inactive accounts | `AuthSessions`, `AccountGrants` |
| Password reset (`modules/auth`) | codes and reset tokens in Redis with copies in `auth_security` | forgotPassword, resendOtp, verifyPasswordResetOtp, resetPassword | a secret is used once, only the newest works, a reset leaves none, a wait between codes | `PasswordReset` |
| Registration, e-mail verification | the account, `auth_security`, codes as above | register, an administrator's create, resendOtp, verifyEmail | only the newest code verifies, however little of the account was made | `Registration` |
| Timesheets (`modules/timesheets`) | `timesheets`, `timesheet_unlock_requests`, `rate_cards` | create, update, submit, review; request and review an unlock; rate cards; the share shown | what is reviewed is what was submitted; verdicts final; late writes unlocked; one open unlock; drafts private, shares add up; used cards kept | `Timesheets`, `TimesheetLifecycle`, `Pricing` |
| Leave (`modules/leave`) | `leave_requests`, `team_members.leaveBalance` | apply, amend, decide | decisions final; charged at most once, and nothing else touches the balance | `Leave`, `LeaveLedger` |
| User administration (`modules/user`) | `auth_users`, `user_profiles` | create, update, deactivate | at least one active administrator | `UserAdmin`; to the sessions, `AuthSessions` |
| HR (`modules/hr`) | departments, plans, team members, their accounts and photographs | create, update, remove | nothing left in a deleted department; member and account agree on the e-mail address; the photograph on show exists | `Departments`, `TeamMembers` |
| E-mail queue (`common/queues/email`, `recordEmail`) | BullMQ jobs, `email_history` | record and add; process with 3 attempts; retry, stall | every job ends; a second copy only for a fault; rows are settled, and for good | `EmailQueue`, `MailOutbox` |
| Duty of care | shifts | clockIn, clockOut, remove | one open shift per member, ended once | `DutyOfCare` |
| Risk assessments | drafts, signatures | create, sign, update, submit, review | no signature lost or doubled; what was submitted stays signed; never back to a draft | `RiskAssessments` |
| Vehicle checks | checks, defects | submit, acknowledge, resolve | one check per period, which stays; a defect only goes forward | `VehicleChecks` |
| Whereabouts and the team (`modules/whereabouts`, `modules/timesheets`) | assignments | create, update, remove; addTeamMember, removeTeamMember | members do not undo each other's changes | `Assignments`, and the team of `Timesheets` |
| Roles guard, throttler | none of its own | - | stateless | not modelled |
| Vehicles, incidents, projects, jobs, workspace files | single documents | CRUD | unique indexes | not modelled |
| Notifications, dashboard, metrics, activity log, shell | views, logs | - | - | not modelled |

Components meet in shared documents: the sessions and the administration in
`auth_users`, resets and sessions in `resetPassword`, timesheets and assignments
in the team, leave and HR in `leaveBalance`, resets and the e-mail queue in the
code that is mailed. The guard stands before every authenticated handler.

`PROJECT.json` lists the hazards of the code line by line, with the properties
that would catch each going wrong, or why none does yet. Two that are only named
here: `updateTeamMember` writes the array of documents from a copy read before the
uploads (`hr.service.ts:273`), and `updatePlan` compares the new dates with the
stored ones of a read copy.

## 2. Modules

Common conventions. A variable `req` holds the requests in flight, one record per
slot: `pc` names the storage call that comes next and the other fields are the
locals the handler still needs. **One action is one storage call with the code up
to the next `await`**, so TLC and the proofs see every interleaving the event loop
and several processes allow. A refused request that has changed nothing is no
step. Operators marked *Faulty* are not part of any `Next`: each is a plausible
bug, substituted for the operator after it to see that a property notices.
Variables and fields marked *history* are read by no guard.

**AccountGrants** is what the authentication service promises for one account: an
epoch (`tokenVersion`), tokens granted only for an epoch that was in force during
the request and only if the account was active when looked up, and a password
that changes only together with the epoch.

**AuthSessions** is one account: `user` is the `auth_users` document,
`cachedVersion` the Redis cache, `refreshKeys` the keys of refresh tokens,
`issued` what clients hold.

| Code | Actions |
|---|---|
| `login` | `LoginFind`, `LoginReread`, then `issueTokens` |
| `refresh` | `RefreshGet`, `RefreshRead`, then `issueTokens` |
| `issueTokens` | `StoreRefreshKey`, `CacheMintedVersion` |
| `AuthGuard` | `GuardGet` (a hit admits at once), `GuardRead`, `GuardCache` |
| `logout`, other handlers | `Logout`, `HandleOther` |
| `logoutAll` | `LogoutAllIncrement`, `CacheRevokedVersion`, `ScanRefreshKeys`, `DeleteRefreshKeys` |
| `changePassword`, `resetPassword` | `ChangePasswordRead` / `ResetPasswordRead`, `ChangePasswordWrite`, then as `logoutAll` |
| `UserService.update`, expiry, crash | `SetStatus`, `ExpireVersion`, `ExpireRefreshKey`, `Crash` |

Abstracted: a token pair is its version and the second it was signed in (there is
no `jti`: two of one second *are* the same token); e-mail verification and roles
are left out; JWTs do not expire, which only adds behaviours; in `resetPassword`
the clearing of codes is in `PasswordReset`.

**PasswordReset** is the codes and reset tokens of one account. Secrets are
numbered in the order they are generated; `store[place][kind]` is the record in
Redis or its copy in MongoDB. Each action is one call of `issuePasswordResetOtp`,
`assertValidOtpForUser`, `clearStoredOtp`, `issuePasswordResetToken` and
`clearPasswordResetToken`. `secured` says whether the account has an
`auth_security` document: accounts made by `HrService.createTeamMember` do not.

**TimesheetLifecycle** is what a timesheet promises: rewritten only while it is
the engineer's, reviewed as submitted, once per submission, final when approved.

**Timesheets** is one assignment and date (nothing crosses them: the unique index
is on project, assignment, engineer and date). `createForEngineer`, `updateOwn`
and `requestUnlock` share the calls `AssertAssignment`, `AssertUnlocked` /
`AssertNoneOpen` and end in `Create`, `Update` or `InsertUnlock`; `SubmitOwn`,
`UpdateStatus` and `ReviewUnlock` are single conditional updates, one action each.
`DayPasses` makes the date past while requests are in flight; `Reassign` is any
change of the team. A content stands for what `timesheetData` makes of a request
and the rate cards, which `Pricing` looks into.

**Pricing** is the rate cards and the sheets of one project and date with their
amounts. `PriceClaim` finds the cards (`timesheetData`), `WriteClaim` is the
create or update some calls later; `RemoveCardFind`, `RemoveCardCheck` and
`RemoveCardDelete` or `RemoveCardDeactivate` are `removeRateCard`. What an
engineer is shown is a function of the sheets: `Group`, `PayableShare` and
`Shown` are `response` and `eligibleOwn`. Money is in pence. `toFixed(2)` of a
double next to half a penny may round either way, so `Nearest` is a set.

**Assignments** is the team of one assignment. `addTeamMember` and
`removeTeamMember` read the document, change the arrays and save (`AddFind`,
`AddSave`, `RemoveFind`, `RemoveSave`); the office's `create`, `update` and
`remove` are one call each. As with the signatures below, what protects members
from each other is the version key of a mongoose array, and only their saves
take part in it: the office's update is overwritten by a removal that began
before it, which `TeamChangesKept` leaves out (`superseded`).

**DutyOfCare** is the shifts: `ClockInFind` and `ClockInCreate`, `ClockOutFind`
and `ClockOutSave`, `RemoveShift`. **VehicleChecks** is the checks of one engineer
and vehicle by type and period: `SubmitCheck` reads the clock, `CreateCheck`
inserts under the unique index, and `Midnight` may come between; `AcknowledgeFind`,
`AcknowledgeWrite`, `ResolveFind` and `ResolveWrite` are the office.

**LeaveLedger** is what leave promises: a request is decided once and for good, and
the balance changes by the days of an approved request, once, and by nothing else.

**Leave** is one team member: `applyLeave` (`Apply`, `CreateLeave`), `updateLeave`
(`Amend`, `AmendFind`, `AmendSave`) and `updateStatus` (`ReviewFind`,
`ReviewSave`, `Deduct`). A mongoose `save` compares no version and writes the
fields whose value differs from the copy that was read: `AmendFind` keeps what the
amendment changes (`ChangesFrom`) and `AmendSave` sets that and nothing else, so two
amendments may leave the start of one and the end of the other. `calculateDays` takes
the distance of the dates, in either order, and counts both ends (`DaysOf`).

**Departments** is the departments and what refers to them. `removeDepartment` is
four calls (`RemoveDepartmentFind`, `CountPlans`, `CountMembers`,
`DeleteDepartment`), and putting a plan or a member in a department is two
(`CreateRecordFind` and `CreateRecord`, `UpdateRecordFind` and `UpdateRecord`).

**TeamMembers** is three stores that one request writes in turn: members, accounts
and the images in Cloudinary.

| Code | Actions |
|---|---|
| `createTeamMember` | `CreateMemberFind`, `Upload`, `InsertMember`, `FindAccount`, `CreateAccount` |
| `updateTeamMember` | `UpdateMemberFind`, `FindLinked`, `FindConflict`, `CheckEmail`, `FindPhoto`, `Upload`, `WriteMember`, `MoveAccount`, `RemoveOld` |
| `removeTeamMember` | `RemoveMemberFind`, `DeleteMember`, `RemoveOld` |
| the catch blocks | `Discard`, which takes the uploaded image back |
| `AuthService.updateProfile` | `ProfileUpdated` |
| a call that throws, a crash | `Throw`, `Die` |

**UserAdmin** is the roles and statuses: `CreateUser`, and `UpdateUserFind`,
`CountAdmins`, `UpdateUserWrite` of `update`, which `deactivate` calls.

**Registration** is the first days of one account: `CreateAccountDoc` and
`CreateSecurity` of `register` and of an administrator's `create`, the code in
both stores (`IssueCodeMongo`, `IssueCodeRedis`, `MailCode`), `ResendFind`, and
`verifyEmail` from `VerifyFind` to `ClearCodeMongo`.

**MailOutbox** is what the queue and `email_history` promise together: an e-mail
asked for is queued once and its job ends once; the pending rows of one account
and type are settled together, only after a job of theirs was queued; a settled
row stays so.

**EmailQueue** is the queue, the workers and the rows. `mails` has, per e-mail, its
account and type, its row, and BullMQ's record of the job; `queue` is the waiting
jobs in order; `workers` is where each process is in `process(job)`.

| Code | Actions |
|---|---|
| `recordEmail`, then `EmailQueueService.add*` | `RecordEmail`, `AddRecorded`; a crash in between is `AddRecorded` never happening |
| `UserService.create`, the welcome e-mail | `AddUnrecorded` (no row) |
| `EmailService.sendEmail` | `Send` (skipped without SMTP), `SendFails`, `SendAnswerLost` |
| `process`: `updateMany` after the send | `Mark` |
| `process`: the catch block, then `throw` | `MarkFailed`, `Throw`; a failing `updateMany`: `MarkThrows` |
| `process`: the return | `Complete` |
| BullMQ (external) | `Take`, `Promote` (backoff over), `LoseLock`, `Stall` |
| a process that dies | `Die`; it is started again with nothing in hand |

Two things in the code shape this model. A job holds no reference to its row: every
settlement is of *all* pending rows of its account and type, so one job may settle
another's row. And a row once "failed" is not pending: when the retry of a job
succeeds, its row keeps saying "failed". Neither contradicts a statement in the
repository, so neither is a finding; `MailOutbox` and `SentMeansDelivered` state
exactly what is left of the connection between a row and its e-mail.

**RiskAssessments** is one assessment, which any number of engineers sign.

| Code | Actions |
|---|---|
| `create` | `Create` (one insert) |
| `update`, `submit` | `UpdateFind` / `SubmitFind` (`owned` and the checks), `UpdateWrite` / `SubmitWrite` (by id) |
| `signAndUpdate` | `SignFind` (`findById`), `SignSave` (`save` of the copy) |
| `review` | `ReviewFind`, `ReviewWrite` |
| a failed check, a `VersionError`, a crash | `Refuse` |

That two signers at once do not lose a signature is not in this code but in what
mongoose does with it: an array only pushed to becomes a `$push`, which needs no
version; one whose element was replaced becomes a `$set` of the whole array on the
condition that `__v` is still what was read. `SavedSignatures`, `VersionHolds` and
`Saved` model exactly this, and are marked external. Leave has no arrays, so its
saves compare nothing. A field that is assigned what the copy holds already is
not written: `SignSave` confirms only where the copy was not confirmed, and an update
that took the confirmation away meanwhile stands.

Anyone on the assignment may sign, in any status, and send answers along:
`signAndUpdate` can change the answers of an assessment that was submitted or
reviewed, although `update` says "Only drafts can be edited". The module allows it
(`SignSave` leaves `answered` open), so `SubmittedSigned` speaks of the signature
and the confirmation only.

## 3. Runs

| Run | Cfg (module `MC...`) | Bounds | Shows |
|---|---|---|---|
| `sessions_overlap` | `AuthSessions_overlap` | 2 requests, 2 passwords, 2 revocations, 1 second, Redis failing | versions never ahead, revoked never refreshed, inactive never minted for, refinement of `AccountGrants` |
| `sessions_serial` | `AuthSessions_serial` | 1 request, 2 seconds, Redis answering | the guard and the refresh keys honour an answered revocation; the cache locks nobody out |
| `sessions_stale_cache` | `AuthSessions_staleCache` | 2 requests, nothing failing, no tokens issued during a revocation | **violation**: a guard undoes a revocation's cache write, a revoked token is admitted |
| `reset_serial` | `PasswordReset_serial` | 1 request, 4 secrets | one use, newest only, nothing a reset has outlived, the wait |
| `reset_cooldown` | `PasswordReset_cooldown` | 1 request | **violation**: no wait for accounts made by HR |
| `timesheets_overlap` | `Timesheets_overlap` | 2 engineers, 2 requests, 2 unlocks, 1 content | reviews on record, late writes unlocked, verdicts final |
| `timesheets_waiting` | `Timesheets_waiting` | the same, 2 contents, clients wait | reviewed as submitted, one open unlock, refinement of `TimesheetLifecycle` |
| `timesheets_late_edit` | `Timesheets_lateEdit` | 1 engineer, 2 requests | **violation**: a submitted sheet is rewritten |
| `office_work` | `Office_work` (`MCOffice`) | 2 leaves, 1 reviewer, 2 departments, 2 records, 2 members, 2 addresses, 3 images, 2 users, 3 codes, 2 requests each (1 in registration) | charged once, refinement of `LeaveLedger`; orphans only raced; photographs stored, accounts follow; an administrator remains; the newest code verifies |
| `leave_two_reviewers` | `Leave_twoReviewers` | 2 reviewers | **violation**: charged twice |
| `email_retries` | `EmailQueue_retries` | 2 e-mails of one account, 2 workers, 3 attempts, 1 fault | every job ends, a second copy only for a fault, rows settled, refinement of `MailOutbox` |
| `field_work` | `FieldWork_waiting` (`MCFieldWork`) | 3 engineers, 3 signing requests, 2 days, 2 members, 3 shifts, 2 crew, 1 code, price and quantity, teams of 3, 2 requests each; clients wait | signatures kept, submitted stays signed, never back; one shift; checks stay and advance; team changes kept; drafts private, shares add up, used cards kept |

**Scenes.** `field_work` and `office_work` each put five components together that
share no field which one of them writes and another reads. (That a member or an
account comes and goes is several components' business, and each has actions of
its own for it.) A step of one then changes nothing that another depends on, so a
property, which speaks of one component, holds of all of them together exactly if
it holds of the component alone. The instance therefore
picks one component per behaviour (`scene`) while the others rest, and explores
602,701 and 1,029,748 states instead of their product. Components that do meet
are in one module (members, accounts and images), or one is an environment action
of the other (the team in `Timesheets`, the status in `AuthSessions`).

**Why the bounds are enough to be interesting.** Every race in this code is
between one handler's read and its write and one other handler; two slots have all
of them, and a slot is free again after each answer, so long histories of requests
occur. Two revocations allow a token two versions old. Two seconds allow equal and
different tokens of one version. Four secrets are a code, its token, and another
round. Two unlock ids are what a duplicate needs. Two leaves and an entitlement of
2 with requests of one or two days from day 0 (`Requested`) let the balance be spent
twice over, and an amendment that changes nothing leave standing what another has set
meanwhile; that both dates change is for the proofs. Two e-mails
of one account may have one type (they settle each other's rows) or two; two
workers are what a job taken away from a slow one needs, and one fault (a death, a
lost lock, a lost answer, a failing update) at any moment does so. With one fault a
job stalls at most once, so the stall limit itself (`Stall`'s second case) is
covered by the proofs and not by this run: a second fault makes the liveness check
too long. Three engineers are the author and two signers, so that a save falls between
another's read and save while the author edits or submits. Sunday and Monday
(days 0 and 1) are two days and two weeks; three shifts let two clock-ins meet
after one has ended; a price of 3 and a quantity of 0.50 make 1.5 pence, which is
where rounding may go either way, for a job and for no job number. Three images
are the one on show and two uploads under way. In the scene of the members,
requests come one at a time from nothing; or they overlap and there is an account
made for a member, who was removed, while another may come and have photographs;
or who is there beside the other, while no upload succeeds. Two members,
photographs and overlap in one start do not end in time. Likewise `Prices` and
`Quantities` have one element and `Codes` one code in the run.

Bounds that are guards: `MaxVersion` in `Increment`, `MaxSecrets` in `IssueFind`
and `ClearMongoOtp`, `MaxMails` in `IsNext` (the e-mails are `1 .. MaxMails`),
`MaxFaults` in `Faulted`, `MaxCodes` in `BeginReg`, `LastDay` in `Midnight`, and the finite sets of ids
(`Leaves`, `Unlocks`, `ShiftIds`, `DeptIds`, `RecordIds`, `MemberIds`, `AccountIds`,
`Images`, `Users`). `Attempts` and
`MaxStalls` are no bounds but options of the code and of BullMQ. `reset_serial`
also stops at the first swallowed Redis write (`Unslipped`), beyond which its
invariants claim nothing. `sessions_stale_cache` leaves out the states in which one
request issues tokens while another revokes (`IssuesOrRevokes`), so that the trace
is the guard's. Symmetry is over interchangeable slots, passwords,
engineers, contents and ids, and only with safety properties. Deadlock is checked
except in the two runs of `PasswordReset`, where using up `MaxSecrets` ends the
behaviour, in `field_work` and `office_work`, where using up the ids of a scene
does, and in `email_retries`, where nothing is left to do once every job has
ended and nobody asks for another e-mail.

**What serial and waiting mean.** Some promises of the code hold only when
requests do not overlap. Those are stated as such, in a run of their own whose
constants say so (one slot, `ClientsWait`, `MembersWait`, `OfficeWaits`, one reviewer), and, where a message or
test of the repository claims more, the overlapping run is the violation beside
it. `ClientsWait` is an assumption about the web client of one engineer; nothing
on the server enforces it. Where a promise fails only by one race that the code
leaves open, a history field marks the states it made (`late`, `superseded`,
`unguarded`, `raced`, `undone`, `torn`, `slipped`) and the property says that
nothing else breaks it.

### Disagreements found

1. *The version cache can go back* (`auth.guard.ts:108`). The guard misses, reads
   version `n`; a revocation sets and caches `n+1`; the guard caches `n`. For up
   to an hour tokens of version `n` are admitted. In the run's trace (15 states) a
   token of version 0 is handed out and its cached version expires; the guard of one
   request misses and reads version 0; the revocation of another (`logoutAll`, or
   `resetPassword`: both are as short) goes through and is answered; the guard
   caches 0; a request with the token arrives and is admitted. `issueTokens`
   (`auth.service.ts:568`) caches the version it signed just as late, and without
   `IssuesOrRevokes` TLC shows that, in fewer steps. Refresh is not affected: it
   reads MongoDB (`RevokedNeverRefreshed`, proved).
2. *Accounts made by HR never wait between codes* (`hr.service.ts:180`), because
   they have no `auth_security` document to record the last one in.
3. *An edit can reach a submitted timesheet* (`timesheets.service.ts:327`): the
   status is checked on a read, and the update is by id alone.
4. *A leave can be decided twice* (`leave.service.ts:187`), for the same reason.

## 4. Fairness and liveness

Only `EmailQueue` states fairness. The request handlers run to their end or fail
and never wait for each other: no lock, no queue, so "the request is eventually
answered" would only restate the assumption that Node schedules it.

A job, on the other hand, can wait, be put off, be taken away and be repeated, and
`JobsEnd` says that it ends all the same. `Fairness` is weak fairness of each
worker's `Process`, and of `Promote` and `Stall` for each e-mail. BullMQ's worker
asks for the next job as long as its process runs, moves delayed jobs whose time
has come and looks for stalled ones at an interval; a call to SMTP, MongoDB or
Redis returns or times out; a process that dies is started again. Nothing is
assumed of those who ask for e-mails, of the step from a row to its job, nor of
which way a call goes: an SMTP server that refuses every time is allowed, and it is
the limit on attempts that ends the job then (`ThrowUncounted` is the bug that
shows it). Faults are finitely many (`MaxFaults`), as some worker must finish once.

## 5. Proofs

### Sessions

`AuthSessionsProofs` proves, for every number of slots, passwords, times and
versions, with the assumption `ConstantsAssumption` (seconds and the version bound
are natural numbers, `RedisMayFail` is a Boolean), and for the three marked serial
with `OneAtATime`, that there is one slot and no write to Redis is lost:

| Theorem | States |
|---|---|
| `TypeCorrect` | `Spec => []TypeOK` |
| `NeverAhead` | `Spec => []VersionsNeverAhead` |
| `RevokedStayRevoked` | `Spec => []RevokedNeverRefreshed` |
| `InactiveMintNothing` | `Spec => []InactiveNeverMints` |
| `RevokedRejected` | serial: `Spec => []RevokedTokensRejected` |
| `KeysGone` | serial: `Spec => []RevokedKeysGone` |
| `CurrentAdmitted` | serial: `Spec => []CurrentTokensAdmitted` |
| `Invariance` | `Spec => []IInv` |
| `Refinement` | `Spec => ImplementsGrants`, that is `Grants!Spec` |

None of the first invariants is inductive: that a handler about to hand out tokens
holds a version the account has had is known only because of what it read one
call earlier. `IInv` adds to the type invariant and `VersionsNeverAhead` one
conjunct per request in flight, `RequestInv`: which locals have been read at each
`pc`, that neither they nor the revocation answered before the request arrived
exceed the account's version, and that what entitles it to mint (the account seen
active, a token at or above its floor) is established from the check on.

The argument: most actions rewrite one slot and at most the cache, so a lemma
(`OneRequest`) reduces them to `RequestInv` of the new record; the increment is
the one action that moves the bound, and it only moves it up; `SetStatus` is the
one that touches every slot. `Refinement` uses `IInv` as the invariant: each
action is either hidden (`HiddenStep`), a step of one ticket (`OneTicket`:
`Check`, `Stamp`, `HandOut`, `Abandon`), or `Revoke` / `SetActive`.

The serial theorems need their assumption: the run `sessions_stale_cache` has two
requests, a guard and a revocation, break the first of them. `SerialInv` adds to `IInv` that the cached version
is never below a revocation that was answered and, once a token of the account's
version has been issued, is that version or none; and of the one request
(`SerialProgress`) that what it has read or written is still the account's version,
and that a deletion of keys has seen all there are. A process may die at every step.

### E-mail queue

`EmailQueueProofs` proves, for every number of accounts, e-mails, workers, attempts,
stalls and faults, with `ConstantsAssumption` (these are natural numbers, there is
at least one attempt, `None` is no account and no worker):

| Theorem | States |
|---|---|
| `TypeCorrect` | `Spec => []TypeOK` |
| `SettledAtEnd` | `Spec => []EndedLeavesNoPending` |
| `SentWasDelivered` | `Spec => []SentMeansDelivered` |
| `CopiesCounted` | if `Workers` is finite, `Spec => []OneCopyPerFault` |
| `Invariance` | `Spec => []IInv` |
| `Refinement` | `Spec => OutboxSpec`, that is `Outbox!Spec` |

`EndedLeavesNoPending` is not inductive: that a job which met no fault is settled
when it ends depends on what its worker has just done, and on no other worker
holding a stale copy of it. `IInv` therefore adds `WorkerInv` (a worker about to
end a job that met no fault has settled its row), `MailInv` (an active job nobody
holds has met a fault; a job that has not ended has attempts left) and `QueueInv`
(the queue holds waiting jobs, each once, without which `Take` could hand out a job
that has ended).

The argument: a step changes one e-mail, or the rows of one key, and one worker.
What no step takes back from an e-mail is `Grows`: jobs stay queued, copies and
faults are only added, rows only get settled. It keeps `WorkerInv` for all other
workers (`OtherWorkers`); `OneMail` and `SettlingKeepsInv` do the two kinds of
steps, and three lemmas the queue. In `Refinement` a step is hidden (`Unseen`) or
shows at one e-mail (`OneSeen`), except a settlement, which is `Settle` of its key.

`OneCopyPerFault` needs an invariant of its own, because a worker that lost its lock
still sends the e-mail. `CopiesInv` counts the copies taken, the workers about to send
one, and one more as long as the job may be handed out again: never more than one
and the faults the job met. A step moves one unit of that sum from one place to
another, or adds one together with a fault (`CopiesWork`, `CopiesAsk`). Workers are
counted, hence the assumption.

### Risk assessments

`RiskAssessmentsProofs` proves, for every number of engineers and requests, with
clients that wait or do not (`ConstantsAssumption`: the office is no engineer):

| Theorem | States |
|---|---|
| `TypeCorrect` | `Spec => []TypeOK` |
| `NoSignatureLost` | `Spec => SignaturesKept` |
| `OneEach` | `Spec => []OneSignatureEach` |
| `SubmittedStaySigned` | `Spec => []SubmittedSigned` |
| `NeverBack` | `Spec => StatusNeverGoesBack` |
| `Invariance` | `Spec => []IInv` |

The run `field_work` has clients wait throughout; `NoSignatureLost` does not need it, and the
theorem covers the case the run leaves out. `IInv` says what a handler knows when
it writes: a copy that is not stale is the array as it is (`CopyInv`), and, if
clients wait, that what it found still holds (`WaitInv`: it is its client's only
request, its signer has not signed meanwhile, an update or a submission is of a
draft). A step begins a request, ends one that left the array alone
(`EndKeepsInv`) or is a save (`SignersAfter` says whose signatures it leaves).

### Timesheets

`TimesheetsProofs` proves, for every number of engineers, requests, contents and
unlock requests (`ConstantsAssumption` of `Timesheets`):

| Theorem | States |
|---|---|
| `TimesheetsTypeCorrect` | `Spec => []TypeOK` |
| `ReviewsRecorded` | `Spec => []ReviewsOnRecord` |
| `LateWrites` | `Spec => []LateWritesUnlocked` |
| `Verdicts` | `Spec => VerdictsFinal` |
| `Reviewed` | if `ClientsWait`, `Spec => []ReviewedAsSubmitted` |
| `OneOpen` | if `ClientsWait`, `Spec => []OneOpenUnlock` |
| `FollowsLifecycle` | if `ClientsWait`, `Spec => ImplementsLifecycle`, that is `Lifecycle!Spec` |

The first four need nothing of the clients. `SheetInv` adds what a handler about to
write has found: that a late write has seen an approved unlock, and an approval
is never taken back. `WaitInv` adds, for clients that wait, that an engineer has
one request in flight, so that the sheet it edits is still editable and no unlock
has been asked for since it looked. `SheetSteps` says what each step may do
to the sheets, and both action properties and the refinement follow from it.

### Password reset

`PasswordResetProofs` proves, for every number of secrets (`ConstantsAssumption`):
`ResetTypeCorrect` for any number of requests in flight, and with the assumption
`OneAtATime`, that there is one slot, `SpentRefused` (`[]SpentNeverAccepted`),
`LatestAccepted` (`[]OnlyLatestAccepted`) and `SecuredUnhurried`
(`[]SecuredNeverHurried`). `SecretsInv` says that nothing is presented before it is
generated. `SerialInv` says of each of the four records that what it holds is
current (neither spent nor outlived, and a code the latest, unless a handler is
about to replace or clear it), and of the one request in flight how far it has got
(`Progress`). All of it is under `~ slipped`: after a Redis write that did nothing
the code restores nothing.

### Fieldwork

`FieldWorkProofs` proves four components, each of its own specification, and then
the whole:

| Theorem | States |
|---|---|
| `DutyTypeCorrect`, `TeamTypeCorrect`, `CheckTypeCorrect`, `PriceTypeCorrect` | the type invariants |
| `OneShift` | `DutySpec => []OneShiftAtATime` |
| `TeamKept` | `TeamSpec => []TeamChangesKept` |
| `ChecksAdvance` | `CheckSpec => ChecksOnlyAdvance` |
| `CardsInUseKept` | `PriceSpec => []UsedCardsKept` |
| `SharesAdd` | `PriceSpec => []SharesAddUp` |
| `DraftsUnshown` | `PriceSpec => []DraftsPrivate` |
| `FieldComposes` | `FieldSpec => Spec /\ CheckSpec /\ DutySpec /\ TeamSpec /\ PriceSpec` |
| `FieldTypeCorrect` | `FieldSpec => []FieldTypeOK` |
| `FieldWorkSafe` | `FieldSpec` implies every other property of the run |

for every number of members, shifts, days, lists and requests (`DutyConstants`,
`TeamConstants`, `CheckConstants`, `PricingConstants`; `MembersWait` and `OfficeWaits` are in the
properties). `DutyInv`: a clock-in about to create is of a member on no shift, and
a member has one request. `TeamInv`: a copy that nothing was written over *is* the
assignment, so writing it back undoes nothing. `CheckInv`: what the office found
still holds when it writes. `ChecksAdvance` includes midnight: a check that is
filed is not due again in its period. `CardInv`: a removal past its check is of a
card that only sheets written since then use. `PriceInv`: the sheet that an update
is about to write is there.

`SharesAdd` and `DraftsUnshown` are about totals, which a fold of the community modules
adds up. What such a fold computes is an induction over data; the theorems of the library
for it take an operator as a parameter and cannot be used, so it is done by the smallest
counterexample. Strict inclusion of the subsets of a finite set is well-founded
(`FS_StrictSubsetOrderingWellFounded`), so were there subsets for which a fact about the
sum fails, there would be a smallest one (`Smallest`, `LeastNumber`). In this way the
equation of the fold has a solution (`SumExists`), and pence add up to pence (`SumsCount`);
for this the crew and the codes are finite (`PricingConstants`), as a team and a price
list are. `SumsAgree`, that a sum depends on what is added up and nothing else, holds of
any set. The argument for the shares: those whose sheets count for a job are one group
for each of them, so all get the same share, the total over their number to the
nearest penny, which times their number misses the total by half their number of pence
at most. The argument for the drafts: what is shown of a sheet is added up over the
sheets that count, and a draft does not.

`FieldComposes` is why the scenes of the run lose nothing: it carries every theorem
here, and those of `RiskAssessmentsProofs`, over to the components put together
(`FieldWorkSafe`).

### Office

`OfficeProofs` proves, for every number of leaves, departments, records, requests
and, being counted, every finite number of accounts (`UsersFinite`):

| Theorem | States |
|---|---|
| `LeaveTypeCorrect`, `DeptTypeCorrect`, `AdminTypeCorrect` | the type invariants |
| `ChargedOnce` | with `OneReviewer`, `Spec => []NeverChargedTwice` |
| `Decided` | with `OneReviewer`, `Spec => DecisionsFinal` |
| `FollowsLedger` | with `OneReviewer`, `Spec => ImplementsLedger`, that is `Ledger!Spec` |
| `Orphans` | `DeptSpec => []OrphansOnlyRaced` |
| `Remains` | `AdminSpec => []AdminRemains` |
| `OfficeComposes` | `OfficeSpec` implies the specification of each of the five components |
| `OfficeTypeCorrect` | `OfficeSpec => []OfficeTypeOK` |
| `OfficeSafe` | with `OneReviewer` and `OneRegistration`, `OfficeSpec` implies every other property of the run |

`ReviewInv`: the leave a reviewer is about to decide is pending, and one about to
be charged is approved and uncharged. `FollowsLedger` follows: the ledger shows a new
request, a decision and a charge, and no step of an amendment, of a verdict that is
PENDING, or of a request that fails. `DeptInv`: of a department whose removal has
counted a kind, every record of the kind came late. `AdminInv`: behind every count
that nothing has made untrue there are two active administrators, so the one that
is taken away leaves another.

In `OfficeComposes` the members may be those a behaviour of `OfficeSpec` starts with
instead of none (`HrStart`); LEMMA `HrStartInv` shows that the invariants of
`AccountsProofs` hold of them, so that what is proved there holds here. This is where the
names that the module gives the members and addresses matter (`OfficeNames`, which TLC
checks); of the other four components `OfficeSafe` holds for every value of the constants.

### Accounts

`AccountsProofs` proves, for every number of codes, members, accounts and images:

| Theorem | States |
|---|---|
| `VerifiedLatest` | with `OneRegistration`, `RegSpec => []VerifiedByLatest` |
| `RegTypeCorrect` | for any number of requests, `RegSpec => []RegTypeOK` |
| `HrTypeCorrect` | `HrSpec => []HrTypeOK` |
| `PhotosStayStored` | `HrSpec => []PhotosShown` |
| `AccountsFollowMembers` | `HrSpec => []AccountsFollow` |

`RegInv` orders the codes (`sent` are issued, the last one sent the greatest, each
store holds one that was sent or nothing) and says what the one request in flight
has generated, stored and found; `OneRegistration` is that there is one slot, as in
the run. `PhotosStayStored` needs nothing of the requests, which may overlap, throw
and be cut off by the end of the process. `PhotoInv` says whose an image is: one
that a request is about to put on show is stored and nobody else's (`PendingOwn`),
one that a request is to remove is kept by its own member at most, and only until
that request has written (`OldOwn`), no two members keep the same, and what is on
show is what is kept (`PhotosOwn`). So what `removeOld` takes out is on show
nowhere. That an update of a profile shows its image on a member who exists needs
`AccountsAddressed`: an account that exists has an address.

`AccountsFollow` needs `FollowInv`. That a member and the account made for it agree is
broken in the middle of an update, which writes the member first and the account
after; `Followed` says that the only account behind its member is the one that the one
request in flight is about to move, and to where. For that what it found must still
hold when it writes (`HrFound`: the account at the old address, nobody at the new
one), each request is about a member and an account that have been (`HrRefers`), and no
two members and no two accounts have one address (`AddressesUnique`, which is kept when
requests overlap too: both collections have a unique index). `HrFound` is under
`oneAtATime`, and `Followed` under `~ torn` besides, as the property is.

### Only model-checked

One property of the passing runs: that every job ends (`JobsEnd`), which is liveness
under fairness. Every other one, invariant, action property or refinement, is
the conclusion of a theorem. The type invariants of the sessions, the queue,
the timesheets and the resets are proved and no longer part of a run, and so is
`DecisionsFinal`, of which `ImplementsLedger` says more.

## 6. Not modelled, and why

Password hashing and JWT signatures are taken to work. Guessing is left out: a
presented secret is one that was handed out. `failedAttempts` and `lockExpiresAt`
are written by `login` and read by nothing. Listings, statistics, exports,
uploads, notifications and logs change no state a property here is about. The
throttler counts in its library. In `EmailQueue` an `updateMany` is one step,
though MongoDB updates one row after the other; the length of the backoff and the
removal of old jobs are left out. Suspended accounts behave as inactive ones to the
sessions: every test in the code is for `ACTIVE`.

Of HR, the documents of a member, names, and the dates of plans. Of `register` and
`create`, whether address and user name are free, and the profile. Vehicles and
tracking, incidents, projects, jobs and workspace files are single documents
changed by one call each under unique indexes: nothing relates two states of them
or two documents. The roles guard keeps no state. `docs`, seeds, scripts, GraphQL's
ping, configuration and the Swagger decorators are no behaviour of the system.

The map covers about 36 % of the lines of the implementation. Most of the rest is what
is named here: listings and statistics, decorators and DTO validation, logging and
metrics, wiring.

## 7. Plan

What remains, in this order:

1. **Abstract specifications** for what is stated by invariants and histories so far: a
   one-time secret for `PasswordReset` and `Registration`, with a refinement for each.
2. **Documents of a member**, which are uploaded like photographs but written as a
   whole array from a copy; two updates at once keep one set.
3. **The remaining overlap**: two reset requests at once, of which nothing in the
   repository says what they may do, and which today are a recorded hazard only.

Runs are few and each asks one question: components that share no state are
checked in one run, as scenes.
