------------------------------ MODULE EmailQueue ------------------------------
(***************************************************************************)
(* The e-mail queue: what AuthService and UserService ask for              *)
(* (EmailQueueService), the jobs as BullMQ hands them to the workers, what  *)
(* EmailProcessor does with one, and the rows of email_history it settles.  *)
(*                                                                         *)
(* A job holds no reference to a row: the processor settles every pending   *)
(* row of its account and type.  A job that throws is tried again after a   *)
(* delay, up to Attempts times; one whose worker died or lost its lock      *)
(* stalls and is handed out again, up to MaxStalls times.                   *)
(*                                                                         *)
(* Left out: the text of an e-mail, how long the delays are, and the        *)
(* removal of old jobs, which nothing reads.                                *)
(***************************************************************************)
EXTENDS Naturals, Sequences, FiniteSets

CONSTANTS Accounts,
          MaxMails,    \* bound on the e-mails asked for
          Workers,     \* the processes of the application, one worker each
          None,        \* no account, no e-mail, no worker
          Attempts,    \* the attempts of a job (3 in the code)
          MaxStalls,   \* how often BullMQ hands out a stalled job again (1)
          MaxFaults    \* bound on deaths, lost locks, lost answers, storage failures

ASSUME ConstantsAssumption ==
  /\ Attempts \in Nat \ {0}
  /\ {MaxMails, MaxStalls, MaxFaults} \subseteq Nat
  /\ None \notin Accounts \union Workers

VARIABLES configured,  \* whether SMTP is (canSendEmail)
          mails,       \* per e-mail: its key, its row and its job
          queue,       \* the waiting jobs, the next one first
          workers,     \* per worker: where it is in process(job)
          faults       \* how many faults there have been

vars == <<configured, mails, queue, workers, faults>>
-------------------------------------------------------------------------------
\* E-mails are numbered in the order they are asked for.
Mails == 1 .. MaxMails

\* The types a row records, which the queue calls verification and password-reset.
RecordedTypes == {"verification", "password_reset"}
Types == RecordedTypes \union {"welcome"}

JobStates == {"none", "waiting", "active", "delayed", "completed", "failed"}
Outcomes == {"sent", "skipped", "failed"}

\* made: attempts that threw; holder: the worker with the lock of an active job.
\* delivered, troubles: history; copies the SMTP server took, faults the job met.
Mail ==
  [type : Types \union {None}, account : Accounts \union {None},
   row : {"none", "pending"} \union Outcomes, job : JobStates,
   made : 0 .. Attempts, stalls : 0 .. MaxStalls, holder : Workers \union {None},
   delivered : Nat, troubles : 0 .. MaxFaults]

PCs == {"idle", "send", "mark", "markFailed", "complete", "throw"}

\* status: what sendEmail has returned.
Worker == [pc : PCs, mail : Mails \union {None}, status : {"none", "sent", "skipped"}]

TypeOK ==
  /\ configured \in BOOLEAN
  /\ mails \in [Mails -> Mail]
  /\ queue \in Seq(Mails)
  /\ workers \in [Workers -> Worker]
  /\ faults \in 0 .. MaxFaults

Unasked ==
  [type |-> None, account |-> None, row |-> "none", job |-> "none", made |-> 0,
   stalls |-> 0, holder |-> None, delivered |-> 0, troubles |-> 0]

Idle == [pc |-> "idle", mail |-> None, status |-> "none"]

Init ==
  /\ configured \in BOOLEAN
  /\ mails = [m \in Mails |-> Unasked]
  /\ queue = <<>>
  /\ workers = [w \in Workers |-> Idle]
  /\ faults = 0

Ended(m) == mails[m].job \in {"completed", "failed"}
SameKey(m, n) == mails[m].type = mails[n].type /\ mails[m].account = mails[n].account

At(w, pc) == workers[w].pc = pc
MailOf(w) == workers[w].mail
Goes(w, pc) == workers' = [workers EXCEPT ![w].pc = pc]
Rests(w) == workers' = [workers EXCEPT ![w] = Idle]
Holds(w) == mails[MailOf(w)].holder = w

Faulted == faults < MaxFaults /\ faults' = faults + 1
-------------------------------------------------------------------------------
(* Asking for an e-mail: register, resendOtp, issuePasswordResetOtp record  *)
(* it first; UserService.create and verifyEmail only queue it.              *)

IsNext(m) == mails[m] = Unasked /\ \A n \in 1 .. m - 1 : mails[n] # Unasked

\* recordEmail
RecordEmail(m, account, type) ==
  /\ IsNext(m)
  /\ type \in RecordedTypes
  /\ mails' = [mails EXCEPT ![m].account = account, ![m].type = type, ![m].row = "pending"]
  /\ UNCHANGED <<configured, queue, workers, faults>>

\* emailQueue.add, after recordEmail; a process that dies in between never gets here.
AddRecorded(m) ==
  /\ mails[m].row # "none" /\ mails[m].job = "none"
  /\ mails' = [mails EXCEPT ![m].job = "waiting"]
  /\ queue' = Append(queue, m)
  /\ UNCHANGED <<configured, workers, faults>>

\* emailQueue.add with no row before it.
AddUnrecorded(m, account, type) ==
  /\ IsNext(m)
  /\ type \in {"verification", "welcome"}
  /\ mails' = [mails EXCEPT ![m].account = account, ![m].type = type, ![m].job = "waiting"]
  /\ queue' = Append(queue, m)
  /\ UNCHANGED <<configured, workers, faults>>
-------------------------------------------------------------------------------
(* EmailProcessor.process                                                  *)

\* BullMQ hands the oldest waiting job to a worker, locked for it.
Take(w) ==
  /\ At(w, "idle") /\ queue # <<>>
  /\ workers' = [workers EXCEPT ![w] = [Idle EXCEPT !.pc = "send", !.mail = Head(queue)]]
  /\ mails' = [mails EXCEPT ![Head(queue)].job = "active", ![Head(queue)].holder = w]
  /\ queue' = Tail(queue)
  /\ UNCHANGED <<configured, faults>>

\* A welcome e-mail has no row to settle.
Returned(w, status) ==
  workers' = [workers EXCEPT ![w].pc = IF mails[MailOf(w)].type = "welcome"
                                       THEN "complete" ELSE "mark",
                             ![w].status = status]

\* ... and its failure is not thrown.
Threw(w) ==
  Goes(w, IF mails[MailOf(w)].type = "welcome" THEN "complete" ELSE "markFailed")

\* sendEmail: the SMTP server takes the e-mail, or there is none to send it to.
Send(w) ==
  /\ At(w, "send")
  /\ \/ /\ configured
        /\ mails' = [mails EXCEPT ![MailOf(w)].delivered = @ + 1]
        /\ Returned(w, "sent")
     \/ ~ configured /\ Returned(w, "skipped") /\ UNCHANGED mails
  /\ UNCHANGED <<configured, queue, faults>>

\* The SMTP server refuses it, or the template cannot be read.
SendFails(w) ==
  /\ At(w, "send")
  /\ Threw(w)
  /\ UNCHANGED <<configured, mails, queue, faults>>

\* The SMTP server takes it and its answer is lost.
SendAnswerLost(w) ==
  /\ At(w, "send") /\ configured
  /\ Faulted
  /\ mails' = [mails EXCEPT ![MailOf(w)].delivered = @ + 1, ![MailOf(w)].troubles = @ + 1]
  /\ Threw(w)
  /\ UNCHANGED <<configured, queue>>

\* Faulty: the rows are looked up under the name the queue has for the type.
SettledByJobType(w, status) ==
  [m \in Mails |-> IF SameKey(m, MailOf(w)) /\ mails[m].row = "pending"
                      /\ mails[m].type # "password_reset"
                   THEN [mails[m] EXCEPT !.row = status] ELSE mails[m]]

\* Faulty: the type is not looked at.
SettledByAccount(w, status) ==
  [m \in Mails |-> IF mails[m].account = mails[MailOf(w)].account /\ mails[m].row = "pending"
                   THEN [mails[m] EXCEPT !.row = status] ELSE mails[m]]

\* Faulty: rows that are settled are settled again.
SettledAgain(w, status) ==
  [m \in Mails |-> IF SameKey(m, MailOf(w)) /\ mails[m].row # "none"
                   THEN [mails[m] EXCEPT !.row = status] ELSE mails[m]]

\* updateMany: the pending rows of the job's account and type.
Settled(w, status) ==
  [m \in Mails |-> IF SameKey(m, MailOf(w)) /\ mails[m].row = "pending"
                   THEN [mails[m] EXCEPT !.row = status] ELSE mails[m]]

\* Faulty: an attempt that succeeded throws as well.
MarkAndThrow(w) ==
  /\ At(w, "mark")
  /\ mails' = Settled(w, workers[w].status)
  /\ Goes(w, "throw")
  /\ UNCHANGED <<configured, queue, faults>>

Mark(w) ==
  /\ At(w, "mark")
  /\ mails' = Settled(w, workers[w].status)
  /\ Goes(w, "complete")
  /\ UNCHANGED <<configured, queue, faults>>

\* The catch block, which also catches a failure of Mark.
MarkFailed(w) ==
  /\ At(w, "markFailed")
  /\ mails' = Settled(w, "failed")
  /\ Goes(w, "throw")
  /\ UNCHANGED <<configured, queue, faults>>

\* updateMany throws, in the try block or in the catch block.
MarkThrows(w) ==
  /\ \/ At(w, "mark") /\ Goes(w, "markFailed")
     \/ At(w, "markFailed") /\ Goes(w, "throw")
  /\ Faulted
  /\ mails' = [mails EXCEPT ![MailOf(w)].troubles = @ + 1]
  /\ UNCHANGED <<configured, queue>>

\* BullMQ refuses the result of a worker that lost the lock.
Complete(w) ==
  /\ At(w, "complete")
  /\ mails' = IF Holds(w)
              THEN [mails EXCEPT ![MailOf(w)].job = "completed", ![MailOf(w)].holder = None]
              ELSE mails
  /\ Rests(w)
  /\ UNCHANGED <<configured, queue, faults>>

\* Faulty: one attempt too many.
ThrowOnceMore(w) ==
  /\ At(w, "throw")
  /\ LET m == MailOf(w)
         more == mails[m].made + 1 <= Attempts
     IN  mails' = IF Holds(w)
                  THEN [mails EXCEPT ![m].made = @ + 1, ![m].holder = None,
                                     ![m].job = IF more THEN "delayed" ELSE "failed"]
                  ELSE mails
  /\ Rests(w)
  /\ UNCHANGED <<configured, queue, faults>>

\* Faulty: attempts are not counted.
ThrowUncounted(w) ==
  /\ At(w, "throw")
  /\ LET m == MailOf(w)
         more == mails[m].made + 1 < Attempts
     IN  mails' = IF Holds(w)
                  THEN [mails EXCEPT ![m].made = @, ![m].holder = None,
                                     ![m].job = IF more THEN "delayed" ELSE "failed"]
                  ELSE mails
  /\ Rests(w)
  /\ UNCHANGED <<configured, queue, faults>>

\* process throws: tried again after the backoff, until the attempts are used up.
Throw(w) ==
  /\ At(w, "throw")
  /\ LET m == MailOf(w)
         more == mails[m].made + 1 < Attempts
     IN  mails' = IF Holds(w)
                  THEN [mails EXCEPT ![m].made = @ + 1, ![m].holder = None,
                                     ![m].job = IF more THEN "delayed" ELSE "failed"]
                  ELSE mails
  /\ Rests(w)
  /\ UNCHANGED <<configured, queue, faults>>

\* The backoff is over.
Promote(m) ==
  /\ mails[m].job = "delayed"
  /\ mails' = [mails EXCEPT ![m].job = "waiting"]
  /\ queue' = Append(queue, m)
  /\ UNCHANGED <<configured, workers, faults>>
-------------------------------------------------------------------------------
(* Workers that die or stall.                                              *)

\* The process dies, and is started again with nothing in hand.
Die(w) ==
  /\ ~ At(w, "idle")
  /\ Faulted
  /\ Rests(w)
  /\ mails' = IF Holds(w)
              THEN [mails EXCEPT ![MailOf(w)].holder = None, ![MailOf(w)].troubles = @ + 1]
              ELSE mails
  /\ UNCHANGED <<configured, queue>>

\* A worker that is held up does not renew its lock in time, and goes on.
LoseLock(m) ==
  /\ mails[m].holder # None
  /\ Faulted
  /\ mails' = [mails EXCEPT ![m].holder = None, ![m].troubles = @ + 1]
  /\ UNCHANGED <<configured, queue, workers>>

\* An active job that nobody holds is handed out again, ahead of the others.
Stall(m) ==
  /\ mails[m].job = "active" /\ mails[m].holder = None
  /\ IF mails[m].stalls < MaxStalls
     THEN /\ mails' = [mails EXCEPT ![m].job = "waiting", ![m].stalls = @ + 1]
          /\ queue' = <<m>> \o queue
     ELSE mails' = [mails EXCEPT ![m].job = "failed"] /\ UNCHANGED queue
  /\ UNCHANGED <<configured, workers, faults>>

Process(w) ==
  \/ Take(w) \/ Send(w) \/ SendFails(w) \/ SendAnswerLost(w)
  \/ Mark(w) \/ MarkFailed(w) \/ MarkThrows(w) \/ Complete(w) \/ Throw(w)

Next ==
  \/ \E m \in Mails :
       \/ \E a \in Accounts, t \in Types : RecordEmail(m, a, t) \/ AddUnrecorded(m, a, t)
       \/ AddRecorded(m) \/ Promote(m) \/ LoseLock(m) \/ Stall(m)
  \/ \E w \in Workers : Process(w) \/ Die(w)

\* BullMQ hands out what waits, promotes what is due and looks for stalled jobs as
\* long as a process runs, and every call of a worker is answered or times out.
\* Nobody has to ask for an e-mail, and nothing has to fail.
Fairness ==
  /\ \A w \in Workers : WF_vars(Process(w))
  /\ \A m \in Mails : WF_vars(Promote(m)) /\ WF_vars(Stall(m))

Spec == Init /\ [][Next]_vars /\ Fairness
-------------------------------------------------------------------------------
(* Properties.                                                             *)

\* Every job the queue was given ends, completed or failed: attempts and stalls are
\* both limited (the options of emailQueue.add, the throw of EmailProcessor).
JobsEnd == \A m \in Mails : mails[m].job # "none" ~> Ended(m)

\* A recipient gets a second copy only for a fault that came after the first: a lost
\* answer, a row that could not be written, a worker that died or stalled.
OneCopyPerFault ==
  \A m \in Mails : mails[m].delivered <= 1 + mails[m].troubles

\* A job that met no fault leaves its own row settled, whatever other jobs of the
\* account do to that row meanwhile.
EndedLeavesNoPending ==
  \A m \in Mails : Ended(m) /\ mails[m].troubles = 0 => mails[m].row # "pending"

\* A row says "sent" only if the SMTP server took an e-mail of its account and type,
\* though not necessarily the one that it records.
SentMeansDelivered ==
  \A m \in Mails : mails[m].row = "sent" =>
    \E n \in Mails : SameKey(m, n) /\ mails[n].delivered > 0

\* What an e-mail looks like to MailOutbox.
KeyOf(mail) == <<mail.account, mail.type>>
StageOf(mail) ==
  IF mail.job = "none" THEN "none"
  ELSE IF mail.job \in {"completed", "failed"} THEN "ended" ELSE "queued"

keys == [m \in Mails |-> KeyOf(mails[m])]
rows == [m \in Mails |-> mails[m].row]
stages == [m \in Mails |-> StageOf(mails[m])]

\* The queue and email_history do together what MailOutbox promises: one end per
\* job, rows settled together and for good.
Outbox == INSTANCE MailOutbox WITH
  Keys <- Accounts \X Types, NoKey <- <<None, None>>,
  key <- keys, row <- rows, job <- stages

OutboxSpec == Outbox!Spec
-------------------------------------------------------------------------------
(* What every step keeps, and the proofs rest on.                          *)

\* Only what was asked for has a row or a job; an active job without a holder has
\* met a fault; a job that may still be tried has attempts left.
MailInv(m) ==
  /\ \/ mails[m] = Unasked
     \/ mails[m].type \in Types /\ mails[m].account \in Accounts
  /\ mails[m].row # "none" => mails[m].type \in RecordedTypes
  /\ mails[m].troubles <= faults
  /\ ~ Ended(m) => mails[m].made < Attempts
  /\ mails[m].holder # None => mails[m].job = "active"
  /\ mails[m].job = "active" /\ mails[m].holder = None => mails[m].troubles > 0
  /\ Ended(m) /\ mails[m].troubles = 0 => mails[m].row # "pending"

\* A worker about to end a job has settled its row, unless the job met a fault.
WorkerInv(w) ==
  LET m == MailOf(w)
  IN  ~ At(w, "idle") =>
        /\ m \in Mails /\ mails[m].job # "none"
        /\ At(w, "mark") => workers[w].status \in {"sent", "skipped"}
        /\ At(w, "mark") /\ workers[w].status = "sent" => mails[m].delivered > 0
        /\ workers[w].pc \in {"complete", "throw"} /\ mails[m].troubles = 0 =>
             mails[m].row # "pending"

\* The queue holds jobs that wait, each of them once.
QueueInv ==
  /\ \A i \in 1 .. Len(queue) : mails[queue[i]].job = "waiting"
  /\ \A i, j \in 1 .. Len(queue) : queue[i] = queue[j] => i = j

IInv ==
  /\ TypeOK
  /\ \A m \in Mails : MailInv(m)
  /\ \A w \in Workers : WorkerInv(w)
  /\ QueueInv
  /\ SentMeansDelivered

\* The workers about to send an e-mail, the one with its lock or others that lost it.
Sending(m) == {w \in Workers : At(w, "send") /\ MailOf(w) = m}

\* Nothing but a fault makes anyone else send it.
Spent(m) ==
  Ended(m) \/ (mails[m].holder # None /\ workers[mails[m].holder].pc \in {"send", "mark", "complete"})

HoldersBusy ==
  \A m \in Mails : LET w == mails[m].holder
                   IN  w # None => ~ At(w, "idle") /\ MailOf(w) = m

\* The copies taken, those about to be, and the one that may still be asked for.
CopyInv(m) ==
  mails[m].delivered + Cardinality(Sending(m)) + (IF Spent(m) THEN 0 ELSE 1) <= 1 + mails[m].troubles

CopiesInv == HoldersBusy /\ \A m \in Mails : CopyInv(m)
===============================================================================
