--------------------------- MODULE EmailQueueProofs ---------------------------
(***************************************************************************)
(* Safety of EmailQueue for every value of its constants, and that it      *)
(* implements MailOutbox.  All of it rests on IInv: Init gives it, and     *)
(* every step keeps it.  A step changes one e-mail, or the rows of one     *)
(* key, and one worker: the lemmas on Grows say what that leaves true of   *)
(* the other workers, the queue and the rows.  The copies of an e-mail are  *)
(* counted last (CopiesInv), on top of IInv.                               *)
(***************************************************************************)
EXTENDS EmailQueue, FiniteSetTheorems, TLAPS

\* What no step takes back from an e-mail.
Grows(m) ==
  /\ mails[m] # Unasked =>
       mails'[m].type = mails[m].type /\ mails'[m].account = mails[m].account
  /\ mails'[m].delivered >= mails[m].delivered
  /\ mails'[m].troubles >= mails[m].troubles
  /\ mails[m].job # "none" => mails'[m].job # "none"
  /\ mails'[m].row = "pending" => mails[m].row = "pending" \/ mails[m].job = "none"

\* What an e-mail counts are numbers.
LEMMA MailNumbers ==
  ASSUME NEW r \in Mail
  PROVE  /\ r.delivered \in Nat /\ r.troubles \in Nat /\ r.made \in Nat /\ r.stalls \in Nat
         /\ r.made <= Attempts /\ r.troubles <= MaxFaults
  BY ConstantsAssumption DEF Mail

\* A worker that the step leaves alone stays as sound as it was.
LEMMA OtherWorkers ==
  ASSUME IInv, TypeOK', \A m \in Mails : Grows(m), NEW w \in Workers, workers'[w] = workers[w]
  PROVE  WorkerInv(w)'
<1> DEFINE m == MailOf(w)
<1>1. WorkerInv(w) /\ m' = m
  BY DEF IInv, MailOf
<1>2. CASE At(w, "idle")
  BY <1>2 DEF WorkerInv, At
<1>3. CASE ~ At(w, "idle")
  <2>1. m \in Mails /\ Grows(m)
    BY <1>1, <1>3 DEF WorkerInv
  <2>2. mails[m] \in Mail /\ mails'[m] \in Mail
    BY <2>1 DEF IInv, TypeOK
  <2>3. mails[m].troubles \in Nat /\ mails'[m].troubles \in Nat
        /\ mails[m].delivered \in Nat /\ mails'[m].delivered \in Nat
    BY <2>2, ConstantsAssumption DEF Mail
  <2>4. QED
    BY <1>1, <1>3, <2>1, <2>3 DEF WorkerInv, Grows, At, MailOf
<1>4. QED
  BY <1>2, <1>3

\* A step that marks no row as sent leaves those that are with their reason.
LEMMA NothingNewSent ==
  ASSUME IInv, TypeOK', \A m \in Mails : Grows(m),
         \A m \in Mails : mails'[m].row = "sent" => mails[m].row = "sent"
  PROVE  SentMeansDelivered'
<1> SUFFICES ASSUME NEW m \in Mails, mails'[m].row = "sent"
             PROVE  \E n \in Mails : SameKey(m, n)' /\ mails'[n].delivered > 0
  BY DEF SentMeansDelivered
<1>1. mails[m].row = "sent"
  OBVIOUS
<1>2. PICK n \in Mails : SameKey(m, n) /\ mails[n].delivered > 0
  BY <1>1 DEF IInv, SentMeansDelivered
<1>3. mails[m] # Unasked /\ mails[n] # Unasked
  BY <1>1, <1>2 DEF Unasked
<1>4. mails[n].delivered \in Nat /\ mails'[n].delivered \in Nat
  BY DEF IInv, TypeOK, Mail
<1>5. SameKey(m, n)'
  BY <1>2, <1>3 DEF Grows, SameKey
<1>6. QED
  BY <1>2, <1>4, <1>5 DEF Grows

\* A step that leaves the queue and the waiting jobs alone keeps QueueInv.
LEMMA QueueUntouched ==
  ASSUME IInv, UNCHANGED queue,
         \A m \in Mails : mails[m].job = "waiting" => mails'[m].job = "waiting"
  PROVE  QueueInv'
<1>1. \A i \in 1 .. Len(queue) : queue[i] \in Mails
  BY DEF IInv, TypeOK
<1>2. QED
  BY <1>1 DEF IInv, QueueInv

\* One more job that waits, at the end of the queue.
LEMMA QueueAppend ==
  ASSUME IInv, NEW m \in Mails, mails[m].job # "waiting", mails'[m].job = "waiting",
         \A n \in Mails : n # m => mails'[n] = mails[n],
         queue' = Append(queue, m)
  PROVE  QueueInv' /\ queue' \in Seq(Mails)
<1>1. queue \in Seq(Mails)
  BY DEF IInv, TypeOK
<1>2. Len(queue') = Len(queue) + 1 /\ queue' \in Seq(Mails)
  BY <1>1
<1>3. \A i \in 1 .. Len(queue') :
        queue'[i] = IF i = Len(queue) + 1 THEN m ELSE queue[i]
  BY <1>1, <1>2
<1>4. \A i \in 1 .. Len(queue) : queue[i] \in Mails /\ queue[i] # m
  BY <1>1 DEF IInv, QueueInv
<1>5. \A i \in 1 .. Len(queue') : i = Len(queue) + 1 \/ i \in 1 .. Len(queue)
  BY <1>1, <1>2
<1>6. ASSUME NEW i \in 1 .. Len(queue') PROVE mails'[queue'[i]].job = "waiting"
  BY <1>3, <1>4, <1>5 DEF IInv, QueueInv
<1>7. ASSUME NEW i \in 1 .. Len(queue'), NEW j \in 1 .. Len(queue'), queue'[i] = queue'[j]
      PROVE  i = j
  BY <1>3, <1>4, <1>5, <1>7 DEF IInv, QueueInv
<1>8. QED
  BY <1>2, <1>6, <1>7 DEF QueueInv

\* One more job that waits, ahead of the queue.
LEMMA QueuePrepend ==
  ASSUME IInv, NEW m \in Mails, mails[m].job # "waiting", mails'[m].job = "waiting",
         \A n \in Mails : n # m => mails'[n] = mails[n],
         queue' = <<m>> \o queue
  PROVE  QueueInv' /\ queue' \in Seq(Mails)
<1>1. queue \in Seq(Mails)
  BY DEF IInv, TypeOK
<1>2. Len(queue') = Len(queue) + 1 /\ queue' \in Seq(Mails)
  BY <1>1
<1>3. \A i \in 1 .. Len(queue') : queue'[i] = IF i = 1 THEN m ELSE queue[i - 1]
  BY <1>1, <1>2
<1>4. \A i \in 1 .. Len(queue) : queue[i] \in Mails /\ queue[i] # m
  BY <1>1 DEF IInv, QueueInv
<1>5. \A i \in 1 .. Len(queue') : i = 1 \/ i - 1 \in 1 .. Len(queue)
  BY <1>1, <1>2
<1>6. ASSUME NEW i \in 1 .. Len(queue') PROVE mails'[queue'[i]].job = "waiting"
  BY <1>3, <1>4, <1>5 DEF IInv, QueueInv
<1>7. ASSUME NEW i \in 1 .. Len(queue'), NEW j \in 1 .. Len(queue'), queue'[i] = queue'[j]
      PROVE  i = j
  <2>1. i = 1 <=> j = 1
    BY <1>3, <1>4, <1>5, <1>7
  <2>2. CASE i # 1
    <3>1. queue[i - 1] = queue[j - 1] /\ i - 1 \in 1 .. Len(queue) /\ j - 1 \in 1 .. Len(queue)
      BY <1>3, <1>5, <1>7, <2>1, <2>2
    <3>2. i - 1 = j - 1
      BY <3>1 DEF IInv, QueueInv
    <3>3. QED
      BY <3>2
  <2>3. QED
    BY <2>1, <2>2
<1>8. QED
  BY <1>2, <1>6, <1>7 DEF QueueInv

\* The oldest job that waits leaves the queue.
LEMMA QueueTail ==
  ASSUME IInv, queue # <<>>, queue' = Tail(queue),
         \A n \in Mails : n # Head(queue) => mails'[n] = mails[n]
  PROVE  QueueInv' /\ queue' \in Seq(Mails) /\ Head(queue) \in Mails
         /\ mails[Head(queue)].job = "waiting"
<1>1. queue \in Seq(Mails) /\ Len(queue) \in Nat \ {0}
  BY DEF IInv, TypeOK
<1>2. Len(queue') = Len(queue) - 1 /\ queue' \in Seq(Mails)
  BY <1>1
<1>3. Head(queue) = queue[1] /\ 1 \in 1 .. Len(queue)
  BY <1>1
<1>4. \A i \in 1 .. Len(queue') : queue'[i] = queue[i + 1] /\ i + 1 \in 1 .. Len(queue)
  BY <1>1, <1>2
<1>5. \A i \in 1 .. Len(queue) : queue[i] \in Mails
  BY <1>1
<1>6. ASSUME NEW i \in 1 .. Len(queue') PROVE mails'[queue'[i]].job = "waiting"
  <2>1. queue[i + 1] # queue[1]
    BY <1>3, <1>4 DEF IInv, QueueInv
  <2>2. QED
    BY <1>3, <1>4, <1>5, <2>1 DEF IInv, QueueInv
<1>7. ASSUME NEW i \in 1 .. Len(queue'), NEW j \in 1 .. Len(queue'), queue'[i] = queue'[j]
      PROVE  i = j
  <2>1. i + 1 = j + 1
    BY <1>4, <1>7 DEF IInv, QueueInv
  <2>2. QED
    BY <2>1
<1>8. QED
  BY <1>2, <1>3, <1>5, <1>6, <1>7 DEF IInv, QueueInv
\* A step that changes one e-mail, and soundly, keeps the invariant if it also
\* leaves the queue and the workers it changes sound.
LEMMA OneMail ==
  ASSUME IInv, NEW m \in Mails, mails' \in [Mails -> Mail],
         \A n \in Mails : n # m => mails'[n] = mails[n],
         MailInv(m)', Grows(m), mails'[m].row = "sent" => mails[m].row = "sent",
         UNCHANGED configured, faults' \in 0 .. MaxFaults, faults' >= faults,
         queue' \in Seq(Mails), QueueInv', workers' \in [Workers -> Worker],
         \A w \in Workers : workers'[w] = workers[w] \/ WorkerInv(w)'
  PROVE  IInv'
<1>1. TypeOK'
  BY DEF IInv, TypeOK
<1>2. \A n \in Mails : Grows(n)
  <2>1. ASSUME NEW n \in Mails, n # m PROVE Grows(n)
    <3>1. mails[n].delivered \in Nat /\ mails[n].troubles \in Nat
      BY MailNumbers DEF IInv, TypeOK
    <3>2. QED
      BY <2>1, <3>1 DEF Grows
  <2>2. QED
    BY <2>1
<1>3. \A n \in Mails : MailInv(n)'
  <2>1. ASSUME NEW n \in Mails, n # m PROVE MailInv(n)'
    <3>1. mails'[n] = mails[n] /\ MailInv(n) /\ mails[n].troubles \in Nat
      BY <2>1, MailNumbers DEF IInv, TypeOK
    <3>2. faults \in Nat /\ faults' \in Nat
      BY ConstantsAssumption DEF IInv, TypeOK
    <3>3. QED
      BY <3>1, <3>2 DEF MailInv, Ended
  <2>2. QED
    BY <2>1
<1>4. \A w \in Workers : WorkerInv(w)'
  BY <1>1, <1>2, OtherWorkers
<1>5. SentMeansDelivered'
  BY <1>1, <1>2, NothingNewSent
<1>6. QED
  BY <1>1, <1>3, <1>4, <1>5 DEF IInv

\* With no e-mails and idle workers, IInv holds.
THEOREM InitInv == Init => IInv
<1> SUFFICES ASSUME Init PROVE IInv
  OBVIOUS
<1>1. TypeOK
  <2>1. Unasked \in Mail /\ Idle \in Worker
    BY ConstantsAssumption DEF Unasked, Idle, Mail, Worker, JobStates, PCs
  <2>2. QED
    BY <2>1, ConstantsAssumption DEF Init, TypeOK
<1>2. \A m \in Mails : MailInv(m)
  BY ConstantsAssumption DEF Init, MailInv, Unasked, Ended
<1>3. (\A w \in Workers : WorkerInv(w)) /\ QueueInv
  BY DEF Init, WorkerInv, Idle, At, QueueInv
<1>4. SentMeansDelivered
  BY DEF Init, SentMeansDelivered, Unasked
<1>5. QED
  BY <1>1, <1>2, <1>3, <1>4 DEF IInv
-------------------------------------------------------------------------------
(* Asking for an e-mail.                                                   *)

LEMMA AskingKeepsInv ==
  ASSUME IInv, NEW m \in Mails
  PROVE  /\ \A a \in Accounts, t \in Types :
              RecordEmail(m, a, t) \/ AddUnrecorded(m, a, t) => IInv'
         /\ AddRecorded(m) => IInv'
<1>1. /\ mails[m] \in Mail /\ MailInv(m)
      /\ {faults, mails[m].delivered, mails[m].troubles} \subseteq Nat
  BY MailNumbers, ConstantsAssumption DEF IInv, TypeOK
<1>2. ASSUME NEW a \in Accounts, NEW t \in Types, RecordEmail(m, a, t) PROVE IInv'
  <2> DEFINE r == [mails[m] EXCEPT !.account = a, !.type = t, !.row = "pending"]
  <2>1. mails[m] = Unasked /\ t \in RecordedTypes /\ mails' = [mails EXCEPT ![m] = r]
        /\ UNCHANGED <<configured, queue, workers, faults>>
    BY <1>2 DEF RecordEmail, IsNext, IInv, TypeOK
  <2>2. r \in Mail
    BY <1>1 DEF Mail
  <2>3. /\ mails'[m] = r /\ mails' \in [Mails -> Mail]
        /\ \A n \in Mails : n # m => mails'[n] = mails[n]
    BY <2>1, <2>2 DEF IInv, TypeOK
  <2>4. MailInv(m)' /\ Grows(m) /\ (mails'[m].row = "sent" => mails[m].row = "sent")
    BY <1>1, <2>1, <2>2, <2>3 DEF MailInv, Grows, Ended, Unasked, Mail
  <2>5. QueueInv'
    BY <2>1, <2>3, QueueUntouched DEF Unasked
  <2> HIDE DEF r
  <2> QED
    BY <1>1, <2>1, <2>3, <2>4, <2>5, OneMail DEF IInv, TypeOK
<1>3. ASSUME NEW a \in Accounts, NEW t \in Types, AddUnrecorded(m, a, t) PROVE IInv'
  <2> DEFINE r == [mails[m] EXCEPT !.account = a, !.type = t, !.job = "waiting"]
  <2>1. mails[m] = Unasked /\ mails' = [mails EXCEPT ![m] = r]
        /\ queue' = Append(queue, m) /\ UNCHANGED <<configured, workers, faults>>
    BY <1>3 DEF AddUnrecorded, IsNext, IInv, TypeOK
  <2>2. r \in Mail
    BY <1>1 DEF Mail, JobStates
  <2>3. /\ mails'[m] = r /\ mails' \in [Mails -> Mail]
        /\ \A n \in Mails : n # m => mails'[n] = mails[n]
    BY <2>1, <2>2 DEF IInv, TypeOK
  <2>4. MailInv(m)' /\ Grows(m) /\ (mails'[m].row = "sent" => mails[m].row = "sent")
    BY <1>1, <2>1, <2>2, <2>3 DEF MailInv, Grows, Ended, Unasked, Mail
  <2>5. QueueInv' /\ queue' \in Seq(Mails)
    BY <1>1, <2>1, <2>3, QueueAppend DEF Unasked
  <2> HIDE DEF r
  <2> QED
    BY <1>1, <2>1, <2>3, <2>4, <2>5, OneMail DEF IInv, TypeOK
<1>4. ASSUME AddRecorded(m) PROVE IInv'
  <2> DEFINE r == [mails[m] EXCEPT !.job = "waiting"]
  <2>1. mails[m].row # "none" /\ mails[m].job = "none" /\ mails' = [mails EXCEPT ![m] = r]
        /\ queue' = Append(queue, m) /\ UNCHANGED <<configured, workers, faults>>
    BY <1>4 DEF AddRecorded, IInv, TypeOK
  <2>2. r \in Mail
    BY <1>1 DEF Mail, JobStates
  <2>3. /\ mails'[m] = r /\ mails' \in [Mails -> Mail]
        /\ \A n \in Mails : n # m => mails'[n] = mails[n]
    BY <2>1, <2>2 DEF IInv, TypeOK
  <2>4. MailInv(m)' /\ Grows(m) /\ (mails'[m].row = "sent" => mails[m].row = "sent")
    BY <1>1, <2>1, <2>2, <2>3 DEF MailInv, Grows, Ended, Unasked, Mail
  <2>5. QueueInv' /\ queue' \in Seq(Mails)
    BY <1>1, <2>1, <2>3, QueueAppend DEF Mail
  <2> HIDE DEF r
  <2> QED
    BY <1>1, <2>1, <2>3, <2>4, <2>5, OneMail DEF IInv, TypeOK
<1>5. QED
  BY <1>2, <1>3, <1>4
-------------------------------------------------------------------------------
(* EmailProcessor.process                                                  *)

\* A busy worker has an e-mail whose job was queued.
LEMMA BusyWorker ==
  ASSUME IInv, NEW w \in Workers, ~ At(w, "idle")
  PROVE  /\ MailOf(w) \in Mails /\ mails[MailOf(w)] \in Mail /\ workers[w] \in Worker
         /\ MailInv(MailOf(w)) /\ WorkerInv(w)
         /\ mails[MailOf(w)].job # "none" /\ mails[MailOf(w)] # Unasked
         /\ {faults, mails[MailOf(w)].delivered, mails[MailOf(w)].troubles} \subseteq Nat
         /\ faults \in 0 .. MaxFaults
<1>1. MailOf(w) \in Mails /\ mails[MailOf(w)].job # "none"
  BY DEF IInv, WorkerInv
<1>2. mails[MailOf(w)] # Unasked
  BY <1>1 DEF Unasked
<1>3. QED
  BY <1>1, <1>2, MailNumbers, ConstantsAssumption DEF IInv, TypeOK

LEMMA TakeKeepsInv ==
  ASSUME IInv, NEW w \in Workers, Take(w)
  PROVE  IInv'
<1>0. PICK m \in Mails : m = Head(queue)
  BY DEF IInv, TypeOK, Take
<1> DEFINE r == [mails[m] EXCEPT !.job = "active", !.holder = w]
           v == [Idle EXCEPT !.pc = "send", !.mail = m]
<1>1. queue \in Seq(Mails) /\ queue # <<>>
  BY DEF IInv, TypeOK, Take
<1>2. mails' = [mails EXCEPT ![m] = r] /\ workers' = [workers EXCEPT ![w] = v]
      /\ queue' = Tail(queue) /\ UNCHANGED <<configured, faults>>
  BY <1>0, <1>1 DEF Take, IInv, TypeOK
<1>3. mails[m] \in Mail /\ MailInv(m) /\ {faults, mails[m].delivered, mails[m].troubles} \subseteq Nat
  BY <1>1, MailNumbers, ConstantsAssumption DEF IInv, TypeOK
<1>4. r \in Mail
  BY <1>3 DEF Mail, JobStates
<1>5. /\ mails'[m] = r /\ mails' \in [Mails -> Mail]
      /\ \A n \in Mails : n # m => mails'[n] = mails[n]
  BY <1>1, <1>2, <1>4 DEF IInv, TypeOK
<1>6. QueueInv' /\ queue' \in Seq(Mails) /\ mails[m].job = "waiting"
  BY <1>0, <1>1, <1>2, <1>5, QueueTail
<1>7. MailInv(m)' /\ Grows(m) /\ (mails'[m].row = "sent" => mails[m].row = "sent")
  <2>1. mails[m] # Unasked /\ w # None
    BY <1>6, ConstantsAssumption DEF Unasked
  <2>2. /\ r.type = mails[m].type /\ r.account = mails[m].account /\ r.row = mails[m].row
        /\ r.made = mails[m].made /\ r.delivered = mails[m].delivered
        /\ r.troubles = mails[m].troubles /\ r.job = "active" /\ r.holder = w
    BY <1>3 DEF Mail
  <2>3. faults' = faults
    BY <1>2
  <2> HIDE DEF r
  <2>4. QED
    BY <1>3, <1>5, <1>6, <2>1, <2>2, <2>3 DEF MailInv, Grows, Ended
<1>8. v \in Worker /\ workers' \in [Workers -> Worker]
  BY <1>1, <1>2 DEF Idle, Worker, PCs, IInv, TypeOK
<1>9. WorkerInv(w)' /\ \A u \in Workers : u # w => workers'[u] = workers[u]
  <2>1. workers'[w] = v /\ v.pc = "send" /\ v.mail = m /\ r.job = "active"
    BY <1>2, <1>3 DEF IInv, TypeOK, Idle, Mail
  <2>2. QED
    BY <1>1, <1>2, <1>5, <2>1 DEF WorkerInv, At, MailOf, IInv, TypeOK
<1> HIDE DEF r, v
<1>10. QED
  BY <1>1, <1>2, <1>3, <1>5, <1>6, <1>7, <1>8, <1>9, OneMail DEF IInv, TypeOK
\* A step of a busy worker on its e-mail that leaves the queue alone.
LEMMA BusyStep ==
  ASSUME IInv, NEW w \in Workers, NEW m \in Mails,
         mails' \in [Mails -> Mail], \A n \in Mails : n # m => mails'[n] = mails[n],
         workers' \in [Workers -> Worker], \A u \in Workers : u # w => workers'[u] = workers[u],
         configured' = configured, queue' = queue,
         faults' \in 0 .. MaxFaults, faults' >= faults,
         MailInv(m)', Grows(m), WorkerInv(w)', mails'[m].row = mails[m].row,
         mails[m].job = "waiting" => mails'[m].job = "waiting"
  PROVE  IInv'
<1>1. QueueInv'
  BY QueueUntouched
<1>2. QED
  BY <1>1, OneMail DEF IInv, TypeOK

\* ... and changes no e-mail either.
LEMMA IdleStep ==
  ASSUME IInv, NEW w \in Workers, NEW m \in Mails, mails' = mails,
         workers' \in [Workers -> Worker], \A u \in Workers : u # w => workers'[u] = workers[u],
         configured' = configured, queue' = queue,
         faults' \in 0 .. MaxFaults, faults' >= faults, WorkerInv(w)'
  PROVE  IInv'
<1>1. mails[m] \in Mail /\ MailInv(m) /\ mails \in [Mails -> Mail]
  BY DEF IInv, TypeOK
<1>2. {faults, faults', mails[m].delivered, mails[m].troubles} \subseteq Nat
  BY <1>1, MailNumbers, ConstantsAssumption DEF IInv, TypeOK
<1>3. MailInv(m)' /\ Grows(m)
  BY <1>1, <1>2 DEF MailInv, Grows, Ended
<1>4. QED
  BY <1>1, <1>3, BusyStep

\* What it means to replace one e-mail, or one worker.
LEMMA Replaced ==
  ASSUME TypeOK
  PROVE  /\ \A m \in Mails, r \in Mail : mails' = [mails EXCEPT ![m] = r] =>
              /\ mails' \in [Mails -> Mail] /\ mails'[m] = r
              /\ \A n \in Mails : n # m => mails'[n] = mails[n]
         /\ \A w \in Workers, v \in Worker : workers' = [workers EXCEPT ![w] = v] =>
              /\ workers' \in [Workers -> Worker] /\ workers'[w] = v
              /\ \A u \in Workers : u # w => workers'[u] = workers[u]
  BY DEF TypeOK

LEMMA SendKeepsInv ==
  ASSUME IInv, NEW w \in Workers
  PROVE  Send(w) \/ SendFails(w) \/ SendAnswerLost(w) => IInv'
<1> SUFFICES ASSUME At(w, "send"), Send(w) \/ SendFails(w) \/ SendAnswerLost(w) PROVE IInv'
  BY DEF Send, SendFails, SendAnswerLost
<1>0. PICK m \in Mails : m = MailOf(w)
  BY BusyWorker DEF At
<1>1. /\ mails[m] \in Mail /\ MailInv(m) /\ WorkerInv(w) /\ workers[w] \in Worker
      /\ workers[w].mail = m /\ mails[m].job # "none" /\ mails[m] # Unasked
      /\ {faults, mails[m].delivered, mails[m].troubles} \subseteq Nat
      /\ faults \in 0 .. MaxFaults
  BY <1>0, BusyWorker DEF At, MailOf
<1> DEFINE after(pc, status) == [workers[w] EXCEPT !.pc = pc, !.status = status]
<1>2. ASSUME NEW pc \in {"complete", "mark", "markFailed"},
             NEW status \in {"none", "sent", "skipped"}
      PROVE  /\ after(pc, status) \in Worker /\ after(pc, status).pc = pc
             /\ after(pc, status).status = status /\ after(pc, status).mail = m
  BY <1>1 DEF Worker, PCs
<1>3. mails[m].type = "welcome" => mails[m].row = "none"
  BY <1>1 DEF MailInv, RecordedTypes
<1>4. CASE Send(w) /\ configured
  <2> DEFINE r == [mails[m] EXCEPT !.delivered = @ + 1]
             pc == IF mails[m].type = "welcome" THEN "complete" ELSE "mark"
             v == after(pc, "sent")
  <2>1. /\ mails' = [mails EXCEPT ![m] = r] /\ workers' = [workers EXCEPT ![w] = v]
        /\ UNCHANGED <<configured, queue, faults>>
    BY <1>0, <1>4 DEF Send, Returned, IInv, TypeOK
  <2>2. r \in Mail
    BY <1>1 DEF Mail
  <2>3. /\ r.type = mails[m].type /\ r.account = mails[m].account /\ r.row = mails[m].row
        /\ r.job = mails[m].job /\ r.made = mails[m].made /\ r.holder = mails[m].holder
        /\ r.delivered = mails[m].delivered + 1 /\ r.troubles = mails[m].troubles
    BY <1>1 DEF Mail
  <2>4. v \in Worker /\ v.pc = pc /\ v.status = "sent" /\ v.mail = m /\ pc \in {"complete", "mark"}
    BY <1>2
  <2>5. /\ mails' \in [Mails -> Mail] /\ mails'[m] = r
        /\ \A n \in Mails : n # m => mails'[n] = mails[n]
        /\ workers' \in [Workers -> Worker] /\ workers'[w] = v
        /\ \A u \in Workers : u # w => workers'[u] = workers[u]
    BY <2>1, <2>2, <2>4, Replaced DEF IInv
  <2>6. pc = "complete" => r.row = "none"
    BY <1>3, <2>3
  <2> HIDE DEF r, v, pc
  <2>7. MailInv(m)' /\ Grows(m)
    BY <1>1, <2>1, <2>3, <2>5 DEF MailInv, Grows, Ended
  <2>8. WorkerInv(w)'
    BY <1>1, <2>3, <2>4, <2>5, <2>6 DEF WorkerInv, At, MailOf
  <2>9. QED
    BY <1>1, <2>1, <2>3, <2>5, <2>7, <2>8, BusyStep
<1>5. CASE Send(w) /\ ~ configured
  <2> DEFINE pc == IF mails[m].type = "welcome" THEN "complete" ELSE "mark"
             v == after(pc, "skipped")
  <2>1. workers' = [workers EXCEPT ![w] = v] /\ UNCHANGED <<configured, mails, queue, faults>>
    BY <1>0, <1>5 DEF Send, Returned, IInv, TypeOK
  <2>2. v \in Worker /\ v.pc = pc /\ v.status = "skipped" /\ v.mail = m /\ pc \in {"complete", "mark"}
    BY <1>2
  <2>3. /\ workers' \in [Workers -> Worker] /\ workers'[w] = v
        /\ \A u \in Workers : u # w => workers'[u] = workers[u]
        /\ pc = "complete" => mails[m].row = "none"
    BY <1>3, <2>1, <2>2, Replaced DEF IInv
  <2> HIDE DEF v, pc
  <2>4. WorkerInv(w)'
    BY <1>1, <2>1, <2>2, <2>3 DEF WorkerInv, At, MailOf
  <2>5. QED
    BY <1>1, <2>1, <2>3, <2>4, IdleStep
<1>6. CASE SendFails(w)
  <2> DEFINE pc == IF mails[m].type = "welcome" THEN "complete" ELSE "markFailed"
             v == after(pc, workers[w].status)
  <2>1. workers' = [workers EXCEPT ![w] = v] /\ UNCHANGED <<configured, mails, queue, faults>>
    BY <1>0, <1>1, <1>6 DEF SendFails, Threw, Goes, IInv, TypeOK, Worker
  <2>2. v \in Worker /\ v.pc = pc /\ v.mail = m /\ pc \in {"complete", "markFailed"}
    BY <1>1, <1>2 DEF Worker
  <2>3. /\ workers' \in [Workers -> Worker] /\ workers'[w] = v
        /\ \A u \in Workers : u # w => workers'[u] = workers[u]
        /\ pc = "complete" => mails[m].row = "none"
    BY <1>3, <2>1, <2>2, Replaced DEF IInv
  <2> HIDE DEF v, pc
  <2>4. WorkerInv(w)'
    BY <1>1, <2>1, <2>2, <2>3 DEF WorkerInv, At, MailOf
  <2>5. QED
    BY <1>1, <2>1, <2>3, <2>4, IdleStep
<1>7. CASE SendAnswerLost(w)
  <2> DEFINE r == [mails[m] EXCEPT !.delivered = @ + 1, !.troubles = @ + 1]
             pc == IF mails[m].type = "welcome" THEN "complete" ELSE "markFailed"
             v == after(pc, workers[w].status)
  <2>1. /\ mails' = [mails EXCEPT ![m] = r] /\ workers' = [workers EXCEPT ![w] = v]
        /\ faults < MaxFaults /\ faults' = faults + 1 /\ UNCHANGED <<configured, queue>>
    BY <1>0, <1>1, <1>7 DEF SendAnswerLost, Threw, Goes, Faulted, IInv, TypeOK, Worker
  <2>2. mails[m].troubles + 1 \in 0 .. MaxFaults /\ faults' \in 0 .. MaxFaults
    BY <1>1, <2>1, ConstantsAssumption DEF MailInv
  <2>3. r \in Mail
    <3>1. mails[m].delivered + 1 \in Nat
      BY <1>1
    <3>2. QED
      BY <1>1, <2>2, <3>1 DEF Mail
  <2>4. /\ r.type = mails[m].type /\ r.account = mails[m].account /\ r.row = mails[m].row
        /\ r.job = mails[m].job /\ r.made = mails[m].made /\ r.holder = mails[m].holder
        /\ r.delivered = mails[m].delivered + 1 /\ r.troubles = mails[m].troubles + 1
    BY <1>1 DEF Mail
  <2>5. v \in Worker /\ v.pc = pc /\ v.mail = m /\ pc \in {"complete", "markFailed"}
    BY <1>1, <1>2 DEF Worker
  <2>6. /\ mails' \in [Mails -> Mail] /\ mails'[m] = r
        /\ \A n \in Mails : n # m => mails'[n] = mails[n]
        /\ workers' \in [Workers -> Worker] /\ workers'[w] = v
        /\ \A u \in Workers : u # w => workers'[u] = workers[u]
    BY <2>1, <2>3, <2>5, Replaced DEF IInv
  <2>7. pc = "complete" => r.row = "none"
    BY <1>3, <2>4
  <2> HIDE DEF r, v, pc
  <2>8. MailInv(m)' /\ Grows(m)
    BY <1>1, <2>1, <2>4, <2>6 DEF MailInv, Grows, Ended
  <2>9. WorkerInv(w)'
    BY <1>1, <2>4, <2>5, <2>6, <2>7 DEF WorkerInv, At, MailOf
  <2>10. QED
    BY <1>1, <2>1, <2>2, <2>4, <2>6, <2>8, <2>9, BusyStep
<1>8. QED
  BY <1>4, <1>5, <1>6, <1>7
\* Settling the pending rows of a job's account and type keeps the invariant, and
\* leaves the job's own row settled.
LEMMA SettlingKeepsInv ==
  ASSUME IInv, NEW w \in Workers, NEW m \in Mails, m = MailOf(w), ~ At(w, "idle"),
         NEW status \in Outcomes, status = "sent" => mails[m].delivered > 0,
         NEW pc \in {"complete", "throw"}, Goes(w, pc),
         mails' = Settled(w, status), UNCHANGED <<configured, queue, faults>>
  PROVE  IInv'
<1>1. /\ WorkerInv(w) /\ workers[w] \in Worker /\ workers[w].mail = m
      /\ mails[m].job # "none" /\ mails[m] # Unasked /\ mails[m] \in Mail
  BY BusyWorker DEF At, MailOf
<1> DEFINE r(n) == [mails[n] EXCEPT !.row = status]
           hit(n) == SameKey(n, m) /\ mails[n].row = "pending"
<1>2. \A n \in Mails : mails'[n] = IF hit(n) THEN r(n) ELSE mails[n]
  BY DEF Settled
<1>3. ASSUME NEW n \in Mails
      PROVE  /\ mails[n] \in Mail /\ MailInv(n) /\ {faults, mails[n].delivered, mails[n].troubles} \subseteq Nat
             /\ r(n) \in Mail
             /\ r(n).type = mails[n].type /\ r(n).account = mails[n].account
             /\ r(n).job = mails[n].job /\ r(n).made = mails[n].made
             /\ r(n).holder = mails[n].holder /\ r(n).delivered = mails[n].delivered
             /\ r(n).troubles = mails[n].troubles /\ r(n).row = status
  <2>1. mails[n] \in Mail /\ MailInv(n)
    BY DEF IInv, TypeOK
  <2>2. {faults, mails[n].delivered, mails[n].troubles} \subseteq Nat
    BY <2>1, MailNumbers, ConstantsAssumption DEF IInv, TypeOK
  <2>3. QED
    BY <2>1, <2>2 DEF Mail
<1>4. mails' \in [Mails -> Mail]
  BY <1>3 DEF Settled
<1>5. /\ workers' \in [Workers -> Worker]
      /\ \A u \in Workers : u # w => workers'[u] = workers[u]
      /\ workers'[w].pc = pc /\ workers'[w].mail = m
  <2> DEFINE v == [workers[w] EXCEPT !.pc = pc]
  <2>1. v \in Worker /\ v.pc = pc /\ v.mail = m
    BY <1>1 DEF Worker, PCs
  <2>2. workers' = [workers EXCEPT ![w] = v]
    BY DEF Goes
  <2> HIDE DEF v
  <2>3. QED
    BY <2>1, <2>2, Replaced DEF IInv
<1> HIDE DEF r
<1>6. TypeOK'
  BY <1>4, <1>5 DEF IInv, TypeOK
<1>7. \A n \in Mails : MailInv(n)' /\ Grows(n)
  <2> SUFFICES ASSUME NEW n \in Mails PROVE MailInv(n)' /\ Grows(n)
    OBVIOUS
  <2>1. CASE ~ hit(n)
    <3>1. mails'[n] = mails[n]
      BY <1>2, <2>1
    <3>2. QED
      BY <1>3, <3>1 DEF MailInv, Grows, Ended
  <2>2. CASE hit(n)
    <3>1. mails'[n] = r(n) /\ mails[n].row = "pending" /\ status \notin {"none", "pending"}
      BY <1>2, <2>2 DEF Outcomes
    <3>2. mails[n] # Unasked
      BY <3>1 DEF Unasked
    <3>3. QED
      BY <1>3, <3>1, <3>2 DEF MailInv, Grows, Ended
  <2>3. QED
    BY <2>1, <2>2
<1>8. mails'[m].row # "pending" /\ mails'[m].job # "none"
  BY <1>1, <1>2, <1>3 DEF SameKey, Outcomes
<1>9. \A u \in Workers : WorkerInv(u)'
  <2>1. WorkerInv(w)'
    BY <1>5, <1>8 DEF WorkerInv, At, MailOf
  <2>2. QED
    BY <1>5, <1>6, <1>7, <2>1, OtherWorkers
<1>10. QueueInv'
  BY <1>2, <1>3, QueueUntouched
<1>11. SentMeansDelivered'
  <2>1. CASE status # "sent"
    <3>1. \A n \in Mails : mails'[n].row = "sent" => mails[n].row = "sent"
      BY <1>2, <1>3, <2>1
    <3>2. QED
      BY <1>6, <1>7, <3>1, NothingNewSent
  <2>2. CASE status = "sent"
    <3> SUFFICES ASSUME NEW n \in Mails, mails'[n].row = "sent"
                 PROVE  \E k \in Mails : SameKey(n, k)' /\ mails'[k].delivered > 0
      BY DEF SentMeansDelivered
    <3>1. \A k \in Mails : /\ mails'[k].type = mails[k].type
                           /\ mails'[k].account = mails[k].account
                           /\ mails'[k].delivered = mails[k].delivered
      BY <1>2, <1>3
    <3>2. \E k \in Mails : SameKey(n, k) /\ mails[k].delivered > 0
      <4>1. CASE hit(n)
        BY <2>2, <4>1
      <4>2. CASE ~ hit(n)
        BY <1>2, <4>2 DEF IInv, SentMeansDelivered
      <4>3. QED
        BY <4>1, <4>2
    <3>3. QED
      BY <3>1, <3>2 DEF SameKey
  <2>3. QED
    BY <2>1, <2>2
<1>12. QED
  BY <1>6, <1>7, <1>9, <1>10, <1>11 DEF IInv

LEMMA MarkKeepsInv ==
  ASSUME IInv, NEW w \in Workers
  PROVE  Mark(w) \/ MarkFailed(w) \/ MarkThrows(w) => IInv'
<1>1. ASSUME Mark(w) PROVE IInv'
  <2>1. PICK m \in Mails : m = MailOf(w)
    BY <1>1, BusyWorker DEF At, Mark
  <2>2. WorkerInv(w) /\ At(w, "mark") /\ ~ At(w, "idle")
    BY <1>1 DEF IInv, Mark, At
  <2>3. workers[w].status \in Outcomes
        /\ (workers[w].status = "sent" => mails[m].delivered > 0)
    BY <2>1, <2>2 DEF WorkerInv, Outcomes
  <2>4. QED
    BY <1>1, <2>1, <2>2, <2>3, SettlingKeepsInv DEF Mark
<1>2. ASSUME MarkFailed(w) PROVE IInv'
  <2>1. PICK m \in Mails : m = MailOf(w)
    BY <1>2, BusyWorker DEF At, MarkFailed
  <2>2. ~ At(w, "idle") /\ "failed" \in Outcomes
    BY <1>2 DEF MarkFailed, At, Outcomes
  <2>3. QED
    BY <1>2, <2>1, <2>2, SettlingKeepsInv DEF MarkFailed
<1>3. ASSUME MarkThrows(w) PROVE IInv'
  <2>0. PICK m \in Mails : m = MailOf(w)
    BY <1>3, BusyWorker DEF At, MarkThrows
  <2>1. /\ mails[m] \in Mail /\ MailInv(m) /\ workers[w] \in Worker
        /\ workers[w].mail = m /\ mails[m].job # "none" /\ mails[m] # Unasked
        /\ {faults, mails[m].delivered, mails[m].troubles} \subseteq Nat
    BY <1>3, <2>0, BusyWorker DEF At, MailOf, MarkThrows
  <2>2. PICK pc \in {"markFailed", "throw"} : Goes(w, pc)
    BY <1>3 DEF MarkThrows
  <2> DEFINE r == [mails[m] EXCEPT !.troubles = @ + 1]
             v == [workers[w] EXCEPT !.pc = pc]
  <2>3. /\ mails' = [mails EXCEPT ![m] = r] /\ workers' = [workers EXCEPT ![w] = v]
        /\ faults < MaxFaults /\ faults' = faults + 1 /\ UNCHANGED <<configured, queue>>
    BY <1>3, <2>0, <2>2 DEF MarkThrows, Goes, Faulted, IInv, TypeOK
  <2>4. mails[m].troubles + 1 \in 0 .. MaxFaults /\ faults' \in 0 .. MaxFaults
    BY <2>1, <2>3, ConstantsAssumption DEF MailInv
  <2>5. r \in Mail /\ v \in Worker /\ v.pc = pc /\ v.mail = m
    BY <2>1, <2>4 DEF Mail, Worker, PCs
  <2>6. /\ r.type = mails[m].type /\ r.account = mails[m].account /\ r.row = mails[m].row
        /\ r.job = mails[m].job /\ r.made = mails[m].made /\ r.holder = mails[m].holder
        /\ r.delivered = mails[m].delivered /\ r.troubles = mails[m].troubles + 1
    BY <2>1 DEF Mail
  <2>7. /\ mails' \in [Mails -> Mail] /\ mails'[m] = r
        /\ \A n \in Mails : n # m => mails'[n] = mails[n]
        /\ workers' \in [Workers -> Worker] /\ workers'[w] = v
        /\ \A u \in Workers : u # w => workers'[u] = workers[u]
    BY <2>3, <2>5, Replaced DEF IInv
  <2> HIDE DEF r, v
  <2>8. MailInv(m)' /\ Grows(m)
    BY <2>1, <2>3, <2>6, <2>7 DEF MailInv, Grows, Ended
  <2>9. WorkerInv(w)'
    BY <2>1, <2>5, <2>6, <2>7 DEF WorkerInv, At, MailOf
  <2>10. QED
    BY <2>1, <2>3, <2>4, <2>6, <2>7, <2>8, <2>9, BusyStep
<1>4. QED
  BY <1>1, <1>2, <1>3
\* The job of a finished attempt: ended, or put off to another attempt, if the worker
\* still holds it; in any case the worker rests.
LEMMA FinishKeepsInv ==
  ASSUME IInv, NEW w \in Workers
  PROVE  Complete(w) \/ Throw(w) => IInv'
<1> SUFFICES ASSUME Complete(w) \/ Throw(w) PROVE IInv'
  OBVIOUS
<1>0. PICK m \in Mails : m = MailOf(w)
  BY BusyWorker DEF At, Complete, Throw
<1>1. /\ mails[m] \in Mail /\ MailInv(m) /\ WorkerInv(w)
      /\ mails[m].job # "none" /\ mails[m] # Unasked
      /\ {faults, mails[m].delivered, mails[m].troubles} \subseteq Nat
      /\ faults \in 0 .. MaxFaults
  BY <1>0, BusyWorker DEF At, Complete, Throw
<1>2. Idle \in Worker /\ Idle.pc = "idle"
  BY DEF Idle, Worker, PCs
<1>3. Rests(w) /\ UNCHANGED <<configured, queue, faults>>
      /\ (mails[m].troubles = 0 => mails[m].row # "pending")
  BY <1>0, <1>1 DEF Complete, Throw, WorkerInv, At
<1>4. /\ workers' \in [Workers -> Worker] /\ workers'[w] = Idle
      /\ \A u \in Workers : u # w => workers'[u] = workers[u]
  BY <1>2, <1>3, Replaced DEF Rests, IInv, TypeOK
<1>5. WorkerInv(w)'
  BY <1>2, <1>4 DEF WorkerInv, At
<1>6. CASE ~ Holds(w)
  <2>1. mails' = mails
    BY <1>6 DEF Complete, Throw
  <2>2. QED
    BY <1>1, <1>3, <1>4, <1>5, <2>1, IdleStep
<1>7. ASSUME Holds(w), NEW r \in Mail, mails' = [mails EXCEPT ![m] = r],
             r.type = mails[m].type, r.account = mails[m].account, r.row = mails[m].row,
             r.delivered = mails[m].delivered, r.troubles = mails[m].troubles,
             r.holder = None,
             r.job \in {"completed", "failed"} \/ (r.job = "delayed" /\ r.made < Attempts)
      PROVE  IInv'
  <2>1. /\ mails' \in [Mails -> Mail] /\ mails'[m] = r
        /\ \A n \in Mails : n # m => mails'[n] = mails[n]
    BY <1>7, Replaced DEF IInv
  <2>2. mails[m].job = "active"
    BY <1>0, <1>1, <1>7, ConstantsAssumption DEF Holds, MailInv
  <2>3. MailInv(m)' /\ Grows(m)
    BY <1>1, <1>3, <1>7, <2>1, <2>2 DEF MailInv, Grows, Ended
  <2>4. QED
    BY <1>1, <1>3, <1>4, <1>5, <1>7, <2>1, <2>2, <2>3, BusyStep
<1>8. CASE Holds(w) /\ Complete(w)
  <2> DEFINE r == [mails[m] EXCEPT !.job = "completed", !.holder = None]
  <2>1. mails' = [mails EXCEPT ![m] = r]
    BY <1>0, <1>8 DEF Complete, IInv, TypeOK
  <2>2. r \in Mail
    BY <1>1 DEF Mail, JobStates
  <2>3. /\ r.type = mails[m].type /\ r.account = mails[m].account /\ r.row = mails[m].row
        /\ r.delivered = mails[m].delivered /\ r.troubles = mails[m].troubles
        /\ r.holder = None /\ r.job = "completed"
    BY <1>1 DEF Mail
  <2> HIDE DEF r
  <2>4. QED
    BY <1>7, <1>8, <2>1, <2>2, <2>3
<1>9. CASE Holds(w) /\ Throw(w)
  <2> DEFINE more == mails[m].made + 1 < Attempts
             r == [mails[m] EXCEPT !.made = @ + 1, !.holder = None,
                                   !.job = IF more THEN "delayed" ELSE "failed"]
  <2>1. mails' = [mails EXCEPT ![m] = r]
    BY <1>0, <1>9 DEF Throw, IInv, TypeOK
  <2>2. mails[m].job = "active" /\ mails[m].made \in Nat /\ mails[m].made < Attempts
    BY <1>0, <1>1, <1>9, MailNumbers, ConstantsAssumption DEF Holds, MailInv, Ended
  <2>3. mails[m].made + 1 \in 0 .. Attempts
    BY <2>2, ConstantsAssumption
  <2>4. r \in Mail
    BY <1>1, <2>3 DEF Mail, JobStates
  <2>5. /\ r.type = mails[m].type /\ r.account = mails[m].account /\ r.row = mails[m].row
        /\ r.delivered = mails[m].delivered /\ r.troubles = mails[m].troubles
        /\ r.holder = None /\ r.made = mails[m].made + 1
        /\ r.job = IF more THEN "delayed" ELSE "failed"
    BY <1>1 DEF Mail
  <2> HIDE DEF r
  <2>6. r.job \in {"completed", "failed"} \/ (r.job = "delayed" /\ r.made < Attempts)
    BY <2>5
  <2>7. QED
    BY <1>7, <1>9, <2>1, <2>4, <2>5, <2>6
<1>10. QED
  BY <1>6, <1>8, <1>9

LEMMA PromoteKeepsInv ==
  ASSUME IInv, NEW m \in Mails, Promote(m)
  PROVE  IInv'
<1> DEFINE r == [mails[m] EXCEPT !.job = "waiting"]
<1>1. /\ mails[m] \in Mail /\ MailInv(m) /\ mails[m] # Unasked
      /\ {faults, mails[m].delivered, mails[m].troubles} \subseteq Nat
      /\ faults \in 0 .. MaxFaults
  BY MailNumbers, ConstantsAssumption DEF IInv, TypeOK, Promote, Unasked
<1>2. /\ mails[m].job = "delayed" /\ mails' = [mails EXCEPT ![m] = r]
      /\ queue' = Append(queue, m) /\ UNCHANGED <<configured, workers, faults>>
  BY DEF Promote, IInv, TypeOK
<1>3. r \in Mail
  BY <1>1 DEF Mail, JobStates
<1>4. /\ r.type = mails[m].type /\ r.account = mails[m].account /\ r.row = mails[m].row
      /\ r.made = mails[m].made /\ r.holder = mails[m].holder /\ r.job = "waiting"
      /\ r.delivered = mails[m].delivered /\ r.troubles = mails[m].troubles
  BY <1>1 DEF Mail
<1> HIDE DEF r
<1>5. /\ mails' \in [Mails -> Mail] /\ mails'[m] = r
      /\ \A n \in Mails : n # m => mails'[n] = mails[n]
  BY <1>2, <1>3, Replaced DEF IInv
<1>6. MailInv(m)' /\ Grows(m)
  BY <1>1, <1>2, <1>4, <1>5 DEF MailInv, Grows, Ended
<1>7. QueueInv' /\ queue' \in Seq(Mails)
  BY <1>2, <1>4, <1>5, QueueAppend
<1>8. workers' \in [Workers -> Worker]
  BY <1>2 DEF IInv, TypeOK
<1>9. QED
  BY <1>1, <1>2, <1>4, <1>5, <1>6, <1>7, <1>8, OneMail
-------------------------------------------------------------------------------
(* Workers that die or stall.                                              *)

\* A holder that is gone leaves an active job that has met a fault.
LEMMA UnheldKeepsInv ==
  ASSUME IInv, NEW m \in Mails, NEW r \in Mail, mails[m].holder # None,
         r = [mails[m] EXCEPT !.holder = None, !.troubles = @ + 1],
         mails' = [mails EXCEPT ![m] = r], Faulted,
         UNCHANGED <<configured, queue>>, workers' \in [Workers -> Worker],
         \A u \in Workers : workers'[u] = workers[u] \/ WorkerInv(u)'
  PROVE  IInv'
<1>1. /\ mails[m] \in Mail /\ MailInv(m) /\ queue' \in Seq(Mails)
      /\ {faults, mails[m].delivered, mails[m].troubles} \subseteq Nat
  BY MailNumbers, ConstantsAssumption DEF IInv, TypeOK
<1>2. /\ r.type = mails[m].type /\ r.account = mails[m].account /\ r.row = mails[m].row
      /\ r.made = mails[m].made /\ r.holder = None /\ r.job = mails[m].job
      /\ r.delivered = mails[m].delivered /\ r.troubles = mails[m].troubles + 1
  BY <1>1 DEF Mail
<1>3. mails[m].job = "active" /\ mails[m] # Unasked
  BY <1>1 DEF MailInv, Unasked
<1>4. /\ mails' \in [Mails -> Mail] /\ mails'[m] = r
      /\ \A n \in Mails : n # m => mails'[n] = mails[n]
  BY Replaced DEF IInv
<1>5. faults' = faults + 1 /\ faults' \in 0 .. MaxFaults
  BY <1>1, ConstantsAssumption DEF Faulted
<1>6. MailInv(m)' /\ Grows(m)
  BY <1>1, <1>2, <1>3, <1>4, <1>5 DEF MailInv, Grows, Ended
<1>7. QueueInv'
  BY <1>2, <1>4, QueueUntouched
<1>8. QED
  BY <1>1, <1>2, <1>4, <1>5, <1>6, <1>7, OneMail

\* One more trouble is still within the bound on the faults.
LEMMA OneMoreTrouble ==
  ASSUME IInv, NEW m \in Mails, Faulted
  PROVE  [mails[m] EXCEPT !.holder = None, !.troubles = @ + 1] \in Mail
<1>1. mails[m] \in Mail /\ MailInv(m) /\ {faults, mails[m].troubles} \subseteq Nat
  BY MailNumbers, ConstantsAssumption DEF IInv, TypeOK
<1>2. mails[m].troubles + 1 \in 0 .. MaxFaults
  BY <1>1, ConstantsAssumption DEF MailInv, Faulted
<1>3. QED
  BY <1>1, <1>2 DEF Mail

LEMMA DeathsKeepInv ==
  ASSUME IInv
  PROVE  /\ \A w \in Workers : Die(w) => IInv'
         /\ \A m \in Mails : LoseLock(m) => IInv'
<1>1. ASSUME NEW w \in Workers, Die(w) PROVE IInv'
  <2>0. PICK m \in Mails : m = MailOf(w)
    BY <1>1, BusyWorker DEF Die
  <2>1. Idle \in Worker /\ Idle.pc = "idle"
    BY DEF Idle, Worker, PCs
  <2>2. Rests(w) /\ Faulted /\ UNCHANGED <<configured, queue>>
    BY <1>1 DEF Die
  <2>3. /\ workers' \in [Workers -> Worker] /\ workers'[w] = Idle
        /\ \A u \in Workers : u # w => workers'[u] = workers[u]
    BY <2>1, <2>2, Replaced DEF Rests, IInv, TypeOK
  <2>4. WorkerInv(w)'
    BY <2>1, <2>3 DEF WorkerInv, At
  <2>5. CASE Holds(w)
    <3> DEFINE r == [mails[m] EXCEPT !.holder = None, !.troubles = @ + 1]
    <3>1. mails' = [mails EXCEPT ![m] = r] /\ mails[m].holder # None
      BY <1>1, <2>0, <2>5, ConstantsAssumption DEF Die, Holds, IInv, TypeOK
    <3>2. r \in Mail
      BY <2>2, OneMoreTrouble
    <3>3. QED
      BY <2>2, <2>3, <2>4, <3>1, <3>2, UnheldKeepsInv
  <2>6. CASE ~ Holds(w)
    <3>1. mails' = mails
      BY <1>1, <2>6 DEF Die
    <3>2. faults' = faults + 1 /\ faults' \in 0 .. MaxFaults /\ faults \in Nat
      BY <2>2, ConstantsAssumption DEF Faulted, IInv, TypeOK
    <3>3. QED
      BY <2>0, <2>2, <2>3, <2>4, <3>1, <3>2, IdleStep
  <2>7. QED
    BY <2>5, <2>6
<1>2. ASSUME NEW m \in Mails, LoseLock(m) PROVE IInv'
  <2> DEFINE r == [mails[m] EXCEPT !.holder = None, !.troubles = @ + 1]
  <2>1. mails' = [mails EXCEPT ![m] = r] /\ mails[m].holder # None /\ Faulted
        /\ UNCHANGED <<configured, queue, workers>>
    BY <1>2 DEF LoseLock, IInv, TypeOK
  <2>2. r \in Mail
    BY <2>1, OneMoreTrouble
  <2>3. workers' \in [Workers -> Worker]
    BY <2>1 DEF IInv, TypeOK
  <2>4. QED
    BY <2>1, <2>2, <2>3, UnheldKeepsInv
<1>3. QED
  BY <1>1, <1>2

LEMMA StallKeepsInv ==
  ASSUME IInv, NEW m \in Mails, Stall(m)
  PROVE  IInv'
<1>1. /\ mails[m] \in Mail /\ MailInv(m) /\ mails[m].job = "active" /\ mails[m].holder = None
      /\ {faults, mails[m].delivered, mails[m].troubles, mails[m].stalls} \subseteq Nat
      /\ faults \in 0 .. MaxFaults /\ UNCHANGED <<configured, workers, faults>>
  BY MailNumbers, ConstantsAssumption DEF IInv, TypeOK, Stall
<1>2. mails[m] # Unasked /\ mails[m].troubles > 0 /\ workers' \in [Workers -> Worker]
  BY <1>1 DEF Unasked, MailInv, IInv, TypeOK
<1>3. CASE mails[m].stalls < MaxStalls
  <2> DEFINE r == [mails[m] EXCEPT !.job = "waiting", !.stalls = @ + 1]
  <2>1. mails' = [mails EXCEPT ![m] = r] /\ queue' = <<m>> \o queue
    BY <1>3 DEF Stall, IInv, TypeOK
  <2>2. mails[m].stalls + 1 \in 0 .. MaxStalls
    BY <1>1, <1>3, ConstantsAssumption
  <2>3. r \in Mail
    BY <1>1, <2>2 DEF Mail, JobStates
  <2>4. /\ r.type = mails[m].type /\ r.account = mails[m].account /\ r.row = mails[m].row
        /\ r.made = mails[m].made /\ r.holder = None /\ r.job = "waiting"
        /\ r.delivered = mails[m].delivered /\ r.troubles = mails[m].troubles
    BY <1>1 DEF Mail
  <2> HIDE DEF r
  <2>5. /\ mails' \in [Mails -> Mail] /\ mails'[m] = r
        /\ \A n \in Mails : n # m => mails'[n] = mails[n]
    BY <2>1, <2>3, Replaced DEF IInv
  <2>6. MailInv(m)' /\ Grows(m)
    BY <1>1, <1>2, <2>4, <2>5 DEF MailInv, Grows, Ended
  <2>7. QueueInv' /\ queue' \in Seq(Mails)
    BY <1>1, <2>1, <2>4, <2>5, QueuePrepend
  <2>8. QED
    BY <1>1, <1>2, <2>4, <2>5, <2>6, <2>7, OneMail
<1>4. CASE ~ (mails[m].stalls < MaxStalls)
  <2> DEFINE r == [mails[m] EXCEPT !.job = "failed"]
  <2>1. mails' = [mails EXCEPT ![m] = r] /\ queue' = queue
    BY <1>4 DEF Stall, IInv, TypeOK
  <2>2. r \in Mail
    BY <1>1 DEF Mail, JobStates
  <2>3. /\ r.type = mails[m].type /\ r.account = mails[m].account /\ r.row = mails[m].row
        /\ r.made = mails[m].made /\ r.holder = None /\ r.job = "failed"
        /\ r.delivered = mails[m].delivered /\ r.troubles = mails[m].troubles
    BY <1>1 DEF Mail
  <2> HIDE DEF r
  <2>4. /\ mails' \in [Mails -> Mail] /\ mails'[m] = r
        /\ \A n \in Mails : n # m => mails'[n] = mails[n]
    BY <2>1, <2>2, Replaced DEF IInv
  <2>5. MailInv(m)' /\ Grows(m)
    BY <1>1, <1>2, <2>3, <2>4 DEF MailInv, Grows, Ended
  <2>6. QueueInv' /\ queue' \in Seq(Mails)
    BY <1>1, <2>1, <2>4, QueueUntouched DEF IInv, TypeOK
  <2>7. QED
    BY <1>1, <1>2, <2>3, <2>4, <2>5, <2>6, OneMail
<1>5. QED
  BY <1>3, <1>4
-------------------------------------------------------------------------------
\* Every step keeps IInv.
THEOREM NextKeepsInv == IInv /\ [Next]_vars => IInv'
<1> SUFFICES ASSUME IInv, [Next]_vars PROVE IInv'
  OBVIOUS
<1>1. CASE UNCHANGED vars
  BY <1>1 DEF vars, IInv, TypeOK, MailInv, Ended, WorkerInv, At, MailOf, QueueInv,
              SentMeansDelivered, SameKey
<1>2. ASSUME NEW m \in Mails,
             \/ \E a \in Accounts, t \in Types : RecordEmail(m, a, t) \/ AddUnrecorded(m, a, t)
             \/ AddRecorded(m) \/ Promote(m) \/ LoseLock(m) \/ Stall(m)
      PROVE  IInv'
  BY <1>2, AskingKeepsInv, PromoteKeepsInv, DeathsKeepInv, StallKeepsInv
<1>3. ASSUME NEW w \in Workers, Process(w) \/ Die(w) PROVE IInv'
  BY <1>3, TakeKeepsInv, SendKeepsInv, MarkKeepsInv, FinishKeepsInv, DeathsKeepInv DEF Process
<1>4. QED
  BY <1>1, <1>2, <1>3 DEF Next

\* IInv holds in every reachable state.
THEOREM Invariance == Spec => []IInv
<1>1. QED
  BY InitInv, NextKeepsInv, PTL DEF Spec

\* Types, among them that no job is attempted or handed out too often.
THEOREM TypeCorrect == Spec => []TypeOK
<1>1. IInv => TypeOK
  BY DEF IInv
<1>2. QED
  BY <1>1, Invariance, PTL

\* A job that ends without a fault has settled its own row (EmailProcessor).
THEOREM SettledAtEnd == Spec => []EndedLeavesNoPending
<1>1. IInv => EndedLeavesNoPending
  BY DEF IInv, MailInv, EndedLeavesNoPending
<1>2. QED
  BY <1>1, Invariance, PTL

\* A row that says "sent" is about an account and a type that something was sent for.
THEOREM SentWasDelivered == Spec => []SentMeansDelivered
<1>1. IInv => SentMeansDelivered
  BY DEF IInv
<1>2. QED
  BY <1>1, Invariance, PTL
-------------------------------------------------------------------------------
(* EmailQueue implements MailOutbox.                                       *)

\* A step that shows nothing to MailOutbox.
LEMMA Unseen ==
  ASSUME \A m \in Mails : /\ KeyOf(mails'[m]) = KeyOf(mails[m])
                          /\ mails'[m].row = mails[m].row
                          /\ StageOf(mails'[m]) = StageOf(mails[m])
  PROVE  UNCHANGED Outbox!vars
BY DEF Outbox!vars, keys, rows, stages

\* A function that differs from another at one point.
LEMMA OnePoint ==
  ASSUME NEW S, NEW x \in S, NEW y, NEW f, NEW g,
         f = [n \in S |-> f[n]], g = [n \in S |-> g[n]],
         g[x] = y, \A n \in S : n # x => g[n] = f[n]
  PROVE  g = [f EXCEPT ![x] = y]
OBVIOUS

\* What MailOutbox sees of a step that replaces one e-mail.
LEMMA OneSeen ==
  ASSUME TypeOK, NEW m \in Mails, NEW r \in Mail, mails' = [mails EXCEPT ![m] = r]
  PROVE  /\ keys' = [keys EXCEPT ![m] = KeyOf(r)]
         /\ rows' = [rows EXCEPT ![m] = r.row]
         /\ stages' = [stages EXCEPT ![m] = StageOf(r)]
         /\ KeyOf(r) = KeyOf(mails[m]) => keys' = keys
         /\ r.row = mails[m].row => rows' = rows
         /\ StageOf(r) = StageOf(mails[m]) => stages' = stages
         /\ keys[m] = KeyOf(mails[m]) /\ rows[m] = mails[m].row /\ stages[m] = StageOf(mails[m])
<1>1. mails'[m] = r /\ \A n \in Mails : n # m => mails'[n] = mails[n]
  BY Replaced
<1>2. keys' = [keys EXCEPT ![m] = KeyOf(r)]
  <2>1. keys = [n \in Mails |-> keys[n]] /\ keys' = [n \in Mails |-> keys'[n]]
    BY DEF keys
  <2>2. keys'[m] = KeyOf(r) /\ \A n \in Mails : n # m => keys'[n] = keys[n]
    BY <1>1 DEF keys
  <2>3. QED
    BY <2>1, <2>2, OnePoint
<1>3. rows' = [rows EXCEPT ![m] = r.row]
  <2>1. rows = [n \in Mails |-> rows[n]] /\ rows' = [n \in Mails |-> rows'[n]]
    BY DEF rows
  <2>2. rows'[m] = r.row /\ \A n \in Mails : n # m => rows'[n] = rows[n]
    BY <1>1 DEF rows
  <2>3. QED
    BY <2>1, <2>2, OnePoint
<1>4. stages' = [stages EXCEPT ![m] = StageOf(r)]
  <2>1. stages = [n \in Mails |-> stages[n]] /\ stages' = [n \in Mails |-> stages'[n]]
    BY DEF stages
  <2>2. stages'[m] = StageOf(r) /\ \A n \in Mails : n # m => stages'[n] = stages[n]
    BY <1>1 DEF stages
  <2>3. QED
    BY <2>1, <2>2, OnePoint
<1>5. KeyOf(r) = KeyOf(mails[m]) => keys' = keys
  BY <1>1 DEF keys
<1>6. r.row = mails[m].row => rows' = rows
  BY <1>1 DEF rows
<1>7. StageOf(r) = StageOf(mails[m]) => stages' = stages
  BY <1>1 DEF stages
<1>8. keys[m] = KeyOf(mails[m]) /\ rows[m] = mails[m].row /\ stages[m] = StageOf(mails[m])
  BY DEF keys, rows, stages
<1>9. QED
  BY <1>2, <1>3, <1>4, <1>5, <1>6, <1>7, <1>8

LEMMA AskingRefines ==
  ASSUME IInv, NEW m \in Mails
  PROVE  /\ \A a \in Accounts, t \in Types : RecordEmail(m, a, t) => Outbox!Record(m)
         /\ \A a \in Accounts, t \in Types : AddUnrecorded(m, a, t) => Outbox!Enqueue(m)
         /\ AddRecorded(m) => Outbox!Enqueue(m)
<1>1. mails[m] \in Mail /\ MailInv(m) /\ TypeOK
  BY DEF IInv, TypeOK
<1>2. ASSUME NEW a \in Accounts, NEW t \in Types, RecordEmail(m, a, t) PROVE Outbox!Record(m)
  <2> DEFINE r == [mails[m] EXCEPT !.account = a, !.type = t, !.row = "pending"]
  <2>1. mails[m] = Unasked /\ mails' = [mails EXCEPT ![m] = r]
    BY <1>1, <1>2 DEF RecordEmail, IsNext, TypeOK
  <2>2. r \in Mail
    BY <1>1 DEF Mail
  <2>3. KeyOf(r) = <<a, t>> /\ r.row = "pending" /\ StageOf(r) = StageOf(mails[m])
        /\ KeyOf(mails[m]) = <<None, None>>
    BY <1>1, <2>1 DEF KeyOf, StageOf, Mail, Unasked
  <2> HIDE DEF r
  <2>4. /\ keys[m] = <<None, None>> /\ keys' = [keys EXCEPT ![m] = KeyOf(r)]
        /\ rows' = [rows EXCEPT ![m] = r.row] /\ stages' = stages
    BY <1>1, <2>1, <2>2, <2>3, OneSeen
  <2>5. KeyOf(r) \in Accounts \X Types
    BY <2>3
  <2>6. QED
    BY <2>3, <2>4, <2>5 DEF Outbox!Record, Outbox!AskFor
<1>3. ASSUME NEW a \in Accounts, NEW t \in Types, AddUnrecorded(m, a, t) PROVE Outbox!Enqueue(m)
  <2> DEFINE r == [mails[m] EXCEPT !.account = a, !.type = t, !.job = "waiting"]
  <2>1. mails[m] = Unasked /\ mails' = [mails EXCEPT ![m] = r]
    BY <1>1, <1>3 DEF AddUnrecorded, IsNext, TypeOK
  <2>2. r \in Mail
    BY <1>1 DEF Mail, JobStates
  <2>3. KeyOf(r) = <<a, t>> /\ r.row = mails[m].row /\ StageOf(r) = "queued"
        /\ KeyOf(mails[m]) = <<None, None>> /\ StageOf(mails[m]) = "none"
    BY <1>1, <2>1 DEF KeyOf, StageOf, Mail, Unasked
  <2> HIDE DEF r
  <2>4. /\ keys[m] = <<None, None>> /\ keys' = [keys EXCEPT ![m] = KeyOf(r)]
        /\ stages[m] = "none" /\ stages' = [stages EXCEPT ![m] = StageOf(r)] /\ rows' = rows
    BY <1>1, <2>1, <2>2, <2>3, OneSeen
  <2>5. KeyOf(r) \in Accounts \X Types
    BY <2>3
  <2>6. QED
    BY <2>3, <2>4, <2>5 DEF Outbox!Enqueue, Outbox!AskFor
<1>4. ASSUME AddRecorded(m) PROVE Outbox!Enqueue(m)
  <2> DEFINE r == [mails[m] EXCEPT !.job = "waiting"]
  <2>1. mails[m].row # "none" /\ mails[m].job = "none" /\ mails' = [mails EXCEPT ![m] = r]
    BY <1>1, <1>4 DEF AddRecorded, TypeOK
  <2>2. r \in Mail
    BY <1>1 DEF Mail, JobStates
  <2>3. KeyOf(r) = KeyOf(mails[m]) /\ r.row = mails[m].row /\ StageOf(r) = "queued"
        /\ StageOf(mails[m]) = "none"
    BY <1>1, <2>1 DEF KeyOf, StageOf, Mail
  <2>4. KeyOf(mails[m]) # <<None, None>>
    BY <1>1, <2>1, ConstantsAssumption DEF MailInv, Unasked, KeyOf
  <2> HIDE DEF r
  <2>5. QED
    BY <1>1, <2>1, <2>2, <2>3, <2>4, OneSeen DEF Outbox!Enqueue
<1>5. QED
  BY <1>2, <1>3, <1>4

\* Marking rows settles a key for which a job was queued.
LEMMA MarkingRefines ==
  ASSUME IInv, NEW w \in Workers, Mark(w) \/ MarkFailed(w)
  PROVE  Outbox!Next
<1>1. PICK m \in Mails : m = MailOf(w)
  BY BusyWorker DEF At, Mark, MarkFailed
<1>2. mails[m] \in Mail /\ MailInv(m) /\ WorkerInv(w) /\ mails[m].job # "none"
      /\ mails[m] # Unasked
  BY <1>1, BusyWorker DEF At, Mark, MarkFailed
<1>3. PICK status \in Outcomes : mails' = Settled(w, status)
  BY <1>1, <1>2 DEF Mark, MarkFailed, WorkerInv, At, Outcomes
<1> DEFINE k == <<mails[m].account, mails[m].type>>
           hit(n) == SameKey(n, m) /\ mails[n].row = "pending"
<1>4. ASSUME NEW n \in Mails
      PROVE  /\ KeyOf(mails'[n]) = KeyOf(mails[n]) /\ StageOf(mails'[n]) = StageOf(mails[n])
             /\ mails'[n].row = IF KeyOf(mails[n]) = KeyOf(mails[m]) /\ mails[n].row = "pending"
                                THEN status ELSE mails[n].row
  <2>1. mails[n] \in Mail
    BY DEF IInv, TypeOK
  <2>2. mails'[n] = IF hit(n) THEN [mails[n] EXCEPT !.row = status] ELSE mails[n]
    BY <1>1, <1>3 DEF Settled
  <2>3. SameKey(n, m) <=> KeyOf(mails[n]) = KeyOf(mails[m])
    BY DEF SameKey, KeyOf
  <2>4. CASE hit(n)
    <3>1. /\ mails'[n].type = mails[n].type /\ mails'[n].account = mails[n].account
          /\ mails'[n].job = mails[n].job /\ mails'[n].row = status
      BY <2>1, <2>2, <2>4 DEF Mail
    <3>2. QED
      BY <2>3, <2>4, <3>1 DEF KeyOf, StageOf
  <2>5. CASE ~ hit(n)
    BY <2>2, <2>3, <2>5
  <2>6. QED
    BY <2>4, <2>5
<1>5. KeyOf(mails[m]) \in Accounts \X Types /\ StageOf(mails[m]) # "none"
  BY <1>2 DEF MailInv, KeyOf, StageOf
<1>6. PICK key \in Accounts \X Types : key = KeyOf(mails[m])
  BY <1>5
<1>7. Outbox!Settle(key, status)
  <2>1. keys' = keys /\ stages' = stages
    BY <1>4 DEF keys, stages
  <2>2. rows' = [n \in Mails |-> IF keys[n] = key /\ rows[n] = "pending" THEN status ELSE rows[n]]
    BY <1>4, <1>6 DEF keys, rows
  <2>3. keys[m] = key /\ stages[m] # "none"
    BY <1>5, <1>6 DEF keys, stages
  <2>4. QED
    BY <2>1, <2>2, <2>3 DEF Outbox!Settle
<1>8. QED
  BY <1>6, <1>7 DEF Outbox!Next, Outcomes

\* A job in hand, or given up, ends or is put off.
LEMMA EndingRefines ==
  ASSUME IInv, NEW m \in Mails, NEW r \in Mail, mails' = [mails EXCEPT ![m] = r],
         KeyOf(r) = KeyOf(mails[m]), r.row = mails[m].row, StageOf(mails[m]) = "queued",
         StageOf(r) \in {"queued", "ended"}
  PROVE  Outbox!Next \/ UNCHANGED Outbox!vars
<1>0. /\ keys' = keys /\ rows' = rows /\ stages[m] = "queued"
      /\ stages' = [stages EXCEPT ![m] = StageOf(r)]
      /\ StageOf(r) = "queued" => stages' = stages
  <2>1. TypeOK
    BY DEF IInv
  <2>2. /\ stages' = [stages EXCEPT ![m] = StageOf(r)]
        /\ KeyOf(r) = KeyOf(mails[m]) => keys' = keys
        /\ r.row = mails[m].row => rows' = rows
        /\ StageOf(r) = StageOf(mails[m]) => stages' = stages
        /\ stages[m] = StageOf(mails[m])
    BY <2>1, OneSeen
  <2>3. QED
    BY <2>2
<1>1. CASE StageOf(r) = "ended"
  <2>1. Outbox!End(m)
    BY <1>0, <1>1 DEF Outbox!End
  <2>2. QED
    BY <2>1 DEF Outbox!Next
<1>2. CASE StageOf(r) = "queued"
  BY <1>0, <1>2 DEF Outbox!vars
<1>3. QED
  BY <1>1, <1>2

LEMMA FinishingRefines ==
  ASSUME IInv, NEW w \in Workers, Complete(w) \/ Throw(w)
  PROVE  Outbox!Next \/ UNCHANGED Outbox!vars
<1>0. PICK m \in Mails : m = MailOf(w)
  BY BusyWorker DEF At, Complete, Throw
<1>1. mails[m] \in Mail /\ MailInv(m)
  BY <1>0 DEF IInv, TypeOK
<1>2. CASE ~ Holds(w)
  <2>1. mails' = mails
    BY <1>2 DEF Complete, Throw
  <2>2. QED
    BY <2>1, Unseen
<1>3. CASE Holds(w)
  <2>1. mails[m].job = "active" /\ StageOf(mails[m]) = "queued"
    BY <1>0, <1>1, <1>3, ConstantsAssumption DEF Holds, MailInv, StageOf
  <2>2. mails[m].made + 1 \in 0 .. Attempts
    BY <1>1, <2>1, MailNumbers, ConstantsAssumption DEF MailInv, Ended
  <2>3. PICK r \in Mail : /\ mails' = [mails EXCEPT ![m] = r]
                          /\ KeyOf(r) = KeyOf(mails[m]) /\ r.row = mails[m].row
                          /\ StageOf(r) \in {"queued", "ended"}
    <3>1. CASE Complete(w)
      <4> DEFINE r == [mails[m] EXCEPT !.job = "completed", !.holder = None]
      <4>1. mails' = [mails EXCEPT ![m] = r]
        BY <1>0, <1>3, <3>1 DEF Complete, IInv, TypeOK
      <4>2. r \in Mail /\ r.type = mails[m].type /\ r.account = mails[m].account
            /\ r.row = mails[m].row /\ r.job = "completed"
        BY <1>1 DEF Mail, JobStates
      <4> HIDE DEF r
      <4>3. QED
        BY <4>1, <4>2 DEF KeyOf, StageOf
    <3>2. CASE Throw(w)
      <4> DEFINE more == mails[m].made + 1 < Attempts
                 r == [mails[m] EXCEPT !.made = @ + 1, !.holder = None,
                                       !.job = IF more THEN "delayed" ELSE "failed"]
      <4>1. mails' = [mails EXCEPT ![m] = r]
        BY <1>0, <1>3, <3>2 DEF Throw, IInv, TypeOK
      <4>2. r \in Mail /\ r.type = mails[m].type /\ r.account = mails[m].account
            /\ r.row = mails[m].row /\ r.job \in {"delayed", "failed"}
        BY <1>1, <2>2 DEF Mail, JobStates
      <4> HIDE DEF r
      <4>3. QED
        BY <4>1, <4>2 DEF KeyOf, StageOf
    <3>3. QED
      BY <3>1, <3>2
  <2>4. QED
    BY <2>1, <2>3, EndingRefines
<1>4. QED
  BY <1>2, <1>3

\* What a worker does before it marks a row, and what goes wrong, shows nothing.
LEMMA WorkingRefines ==
  ASSUME IInv, NEW w \in Workers,
         Take(w) \/ Send(w) \/ SendFails(w) \/ SendAnswerLost(w) \/ MarkThrows(w) \/ Die(w)
  PROVE  UNCHANGED Outbox!vars
<1>1. ASSUME NEW m \in Mails
      PROVE  /\ mails'[m].type = mails[m].type /\ mails'[m].account = mails[m].account
             /\ mails'[m].row = mails[m].row
             /\ \/ mails'[m].job = mails[m].job
                \/ mails[m].job = "waiting" /\ mails'[m].job = "active"
  <2>1. mails[m] \in Mail /\ mails \in [Mails -> Mail]
    BY DEF IInv, TypeOK
  <2>2. CASE Take(w)
    <3>1. queue # <<>> /\ queue \in Seq(Mails)
      BY <2>2 DEF Take, IInv, TypeOK
    <3>2. mails[Head(queue)].job = "waiting" /\ Head(queue) \in Mails
      BY <3>1 DEF IInv, QueueInv
    <3>3. CASE m = Head(queue)
      BY <2>1, <2>2, <3>2, <3>3 DEF Take, Mail
    <3>4. CASE m # Head(queue)
      BY <2>1, <2>2, <3>2, <3>4 DEF Take
    <3>5. QED
      BY <3>3, <3>4
  <2>3. CASE SendFails(w)
    BY <2>3 DEF SendFails
  <2>4. CASE Send(w)
    BY <2>1, <2>4 DEF Send, Mail
  <2>5. CASE SendAnswerLost(w)
    BY <2>1, <2>5 DEF SendAnswerLost, Mail
  <2>6. CASE MarkThrows(w)
    BY <2>1, <2>6 DEF MarkThrows, Mail
  <2>7. CASE Die(w)
    BY <2>1, <2>7 DEF Die, Mail
  <2>8. QED
    BY <2>2, <2>3, <2>4, <2>5, <2>6, <2>7
<1>2. QED
  BY <1>1, Unseen DEF KeyOf, StageOf

LEMMA WaitingRefines ==
  ASSUME IInv, NEW m \in Mails, Promote(m) \/ LoseLock(m) \/ Stall(m)
  PROVE  Outbox!Next \/ UNCHANGED Outbox!vars
<1>1. mails[m] \in Mail /\ MailInv(m) /\ mails[m].stalls \in Nat
  BY MailNumbers DEF IInv, TypeOK
<1>2. StageOf(mails[m]) = "queued"
  BY <1>1 DEF Promote, LoseLock, Stall, MailInv, StageOf
<1>3. PICK r \in Mail : /\ mails' = [mails EXCEPT ![m] = r]
                        /\ KeyOf(r) = KeyOf(mails[m]) /\ r.row = mails[m].row
                        /\ StageOf(r) \in {"queued", "ended"}
  <2>1. CASE Promote(m)
    <3> DEFINE r == [mails[m] EXCEPT !.job = "waiting"]
    <3>1. mails' = [mails EXCEPT ![m] = r]
      BY <2>1 DEF Promote, IInv, TypeOK
    <3>2. r \in Mail /\ r.type = mails[m].type /\ r.account = mails[m].account
          /\ r.row = mails[m].row /\ r.job = "waiting"
      BY <1>1 DEF Mail, JobStates
    <3> HIDE DEF r
    <3>3. QED
      BY <3>1, <3>2 DEF KeyOf, StageOf
  <2>2. CASE LoseLock(m)
    <3> DEFINE r == [mails[m] EXCEPT !.holder = None, !.troubles = @ + 1]
    <3>1. mails' = [mails EXCEPT ![m] = r] /\ r \in Mail
      BY <2>2, OneMoreTrouble DEF LoseLock, IInv, TypeOK
    <3>2. r.type = mails[m].type /\ r.account = mails[m].account
          /\ r.row = mails[m].row /\ r.job = mails[m].job
      BY <1>1 DEF Mail
    <3> HIDE DEF r
    <3>3. QED
      BY <1>2, <3>1, <3>2 DEF KeyOf, StageOf
  <2>3. CASE Stall(m) /\ mails[m].stalls < MaxStalls
    <3> DEFINE r == [mails[m] EXCEPT !.job = "waiting", !.stalls = @ + 1]
    <3>1. mails' = [mails EXCEPT ![m] = r]
      BY <2>3 DEF Stall, IInv, TypeOK
    <3>2. mails[m].stalls + 1 \in 0 .. MaxStalls
      BY <1>1, <2>3, ConstantsAssumption
    <3>3. r \in Mail /\ r.type = mails[m].type /\ r.account = mails[m].account
          /\ r.row = mails[m].row /\ r.job = "waiting"
      BY <1>1, <3>2 DEF Mail, JobStates
    <3> HIDE DEF r
    <3>4. QED
      BY <3>1, <3>3 DEF KeyOf, StageOf
  <2>4. CASE Stall(m) /\ ~ (mails[m].stalls < MaxStalls)
    <3> DEFINE r == [mails[m] EXCEPT !.job = "failed"]
    <3>1. mails' = [mails EXCEPT ![m] = r]
      BY <2>4 DEF Stall, IInv, TypeOK
    <3>2. r \in Mail /\ r.type = mails[m].type /\ r.account = mails[m].account
          /\ r.row = mails[m].row /\ r.job = "failed"
      BY <1>1 DEF Mail, JobStates
    <3> HIDE DEF r
    <3>3. QED
      BY <3>1, <3>2 DEF KeyOf, StageOf
  <2>5. QED
    BY <2>1, <2>2, <2>3, <2>4
<1>4. QED
  BY <1>2, <1>3, EndingRefines

\* The queue and email_history, whatever fails, do what MailOutbox promises.
THEOREM Refinement == Spec => OutboxSpec
<1>1. Init => Outbox!Init
  <2> SUFFICES ASSUME Init PROVE Outbox!Init
    OBVIOUS
  <2>1. \A m \in Mails : KeyOf(mails[m]) = <<None, None>> /\ mails[m].row = "none"
                         /\ StageOf(mails[m]) = "none"
    BY DEF Init, Unasked, KeyOf, StageOf
  <2>2. QED
    BY <2>1 DEF Outbox!Init, keys, rows, stages
<1>2. IInv /\ [Next]_vars => [Outbox!Next]_(Outbox!vars)
  <2> SUFFICES ASSUME IInv, [Next]_vars PROVE Outbox!Next \/ UNCHANGED Outbox!vars
    OBVIOUS
  <2>1. ASSUME NEW m \in Mails,
               \/ \E a \in Accounts, t \in Types : RecordEmail(m, a, t) \/ AddUnrecorded(m, a, t)
               \/ AddRecorded(m) \/ Promote(m) \/ LoseLock(m) \/ Stall(m)
        PROVE  Outbox!Next \/ UNCHANGED Outbox!vars
    BY <2>1, AskingRefines, WaitingRefines DEF Outbox!Next
  <2>2. ASSUME NEW w \in Workers, Process(w) \/ Die(w)
        PROVE  Outbox!Next \/ UNCHANGED Outbox!vars
    BY <2>2, WorkingRefines, MarkingRefines, FinishingRefines DEF Process
  <2>3. CASE UNCHANGED vars
    BY <2>3, Unseen DEF vars
  <2>4. QED
    BY <2>1, <2>2, <2>3 DEF Next
<1>3. QED
  BY <1>1, <1>2, Invariance, PTL DEF Spec, OutboxSpec, Outbox!Spec
-------------------------------------------------------------------------------
(* Copies.                                                                 *)

\* Some of what a step leaves alone of an e-mail.
Alike(n) ==
  /\ mails'[n].delivered = mails[n].delivered /\ mails'[n].troubles = mails[n].troubles
  /\ mails'[n].job = mails[n].job /\ mails'[n].holder = mails[n].holder

LEMMA SendingFinite ==
  ASSUME IsFiniteSet(Workers), NEW m
  PROVE  IsFiniteSet(Sending(m)) /\ Cardinality(Sending(m)) \in Nat
<1>1. Sending(m) \subseteq Workers
  BY DEF Sending
<1>2. QED
  BY <1>1, FS_Subset, FS_CardinalityType

\* A worker's step moves it into or out of one of those sets.
LEMMA SendingChanges ==
  ASSUME IInv, IsFiniteSet(Workers), NEW w \in Workers, NEW m \in Mails,
         workers' \in [Workers -> Worker], \A u \in Workers : u # w => workers'[u] = workers[u],
         At(w, "idle") \/ MailOf(w) = m,
         At(w, "idle")' \/ MailOf(w)' = m
  PROVE  /\ \A n \in Mails : n # m => Sending(n)' = Sending(n)
         /\ ~ At(w, "send") /\ ~ At(w, "send")' => Sending(m)' = Sending(m)
         /\ ~ At(w, "send") /\ At(w, "send")' =>
              Cardinality(Sending(m)') = Cardinality(Sending(m)) + 1
         /\ At(w, "send") /\ ~ At(w, "send")' =>
              Cardinality(Sending(m)) = Cardinality(Sending(m)') + 1
<1>1. ASSUME NEW n \in Mails, n # m
      PROVE  Sending(n)' = Sending(n)
  BY <1>1 DEF Sending, At, MailOf
<1>2. IsFiniteSet(Sending(m)) /\ Cardinality(Sending(m)) \in Nat
  BY SendingFinite
<1>3. ASSUME ~ At(w, "send"), ~ At(w, "send")'
      PROVE  Sending(m)' = Sending(m)
  BY <1>3 DEF Sending, At, MailOf
<1>4. ASSUME ~ At(w, "send"), At(w, "send")'
      PROVE  Cardinality(Sending(m)') = Cardinality(Sending(m)) + 1
  <2>1. Sending(m)' = Sending(m) \union {w} /\ w \notin Sending(m)
    BY <1>4 DEF Sending, At, MailOf
  <2>2. QED
    BY <1>2, <2>1, FS_AddElement
<1>5. ASSUME At(w, "send"), ~ At(w, "send")'
      PROVE  Cardinality(Sending(m)) = Cardinality(Sending(m)') + 1
  <2>1. Sending(m)' = Sending(m) \ {w} /\ w \in Sending(m)
    BY <1>5 DEF Sending, At, MailOf
  <2>2. Cardinality(Sending(m) \ {w}) = Cardinality(Sending(m)) - 1 /\ IsFiniteSet(Sending(m) \ {w})
    BY <1>2, <2>1, FS_RemoveElement
  <2>3. Cardinality(Sending(m) \ {w}) \in Nat
    BY <2>2, FS_CardinalityType
  <2>4. QED
    BY <1>2, <2>1, <2>2, <2>3
<1>6. QED
  BY <1>1, <1>3, <1>4, <1>5

\* A step of a worker: either it leaves the number of copies, taken and to come, or
\* it brings a trouble for each that it adds.
LEMMA CopiesWork ==
  ASSUME IInv, CopiesInv, IsFiniteSet(Workers), NEW w \in Workers, NEW m \in Mails,
         workers' \in [Workers -> Worker], \A u \in Workers : u # w => workers'[u] = workers[u],
         At(w, "idle") \/ MailOf(w) = m,
         At(w, "idle")' \/ MailOf(w)' = m,
         mails' \in [Mails -> Mail], \A n \in Mails : n # m => Alike(n),
         mails'[m].holder \in {None, w, mails[m].holder},
         mails'[m].holder = w => ~ At(w, "idle")',
         NEW before \in {0, 1}, At(w, "send") <=> before = 1,
         NEW after \in {0, 1}, At(w, "send")' <=> after = 1,
         ~ (before = 1 /\ after = 1),
         NEW slack \in {0, 1}, slack = 0 => (Spent(m) => Spent(m)'),
         NEW gain \in {0, 1}, gain = 1 => ~ Spent(m) /\ Spent(m)',
         mails'[m].delivered + after + slack + mails[m].troubles
           <= mails[m].delivered + before + gain + mails'[m].troubles
  PROVE  CopiesInv'
<1>1. \A n \in Mails : /\ Cardinality(Sending(n)) \in Nat
                       /\ mails[n].delivered \in Nat /\ mails[n].troubles \in Nat
                       /\ mails'[n].delivered \in Nat /\ mails'[n].troubles \in Nat
  BY SendingFinite, MailNumbers DEF IInv, TypeOK
<1>2. None \notin Workers
  BY ConstantsAssumption
<1>3. HoldersBusy'
  <2>1. ASSUME NEW n \in Mails, mails'[n].holder # None
        PROVE  (~ At(mails[n].holder, "idle") /\ MailOf(mails[n].holder) = n)'
    <3>1. mails'[n].holder \in Workers
      BY <2>1 DEF Mail
    <3>2. CASE n = m /\ mails'[n].holder = w
      BY <2>1, <3>2 DEF At, MailOf
    <3>3. CASE mails'[n].holder # w
      <4>1. mails'[n].holder = mails[n].holder
        BY <2>1, <3>3 DEF Alike
      <4>2. workers'[mails'[n].holder] = workers[mails[n].holder]
        BY <3>1, <3>3, <4>1
      <4>3. QED
        BY <2>1, <4>1, <4>2 DEF CopiesInv, HoldersBusy, At, MailOf
    <3>4. CASE n # m /\ mails'[n].holder = w
      <4>1. mails[n].holder = w
        BY <3>4 DEF Alike
      <4>2. ~ At(w, "idle") /\ MailOf(w) = n
        BY <1>2, <4>1 DEF CopiesInv, HoldersBusy
      <4>3. QED
        BY <3>4, <4>2
    <3>5. QED
      BY <3>2, <3>3, <3>4
  <2>2. QED
    BY <2>1 DEF HoldersBusy
<1>4. ASSUME NEW n \in Mails, n # m
      PROVE  CopyInv(n)'
  <2>1. Sending(n)' = Sending(n) /\ Alike(n)
    BY <1>4, SendingChanges
  <2>2. Spent(n) => Spent(n)'
    <3>1. CASE Ended(n)
      BY <2>1, <3>1 DEF Ended, Alike, Spent
    <3>2. CASE mails[n].holder # None /\ workers[mails[n].holder].pc \in {"send", "mark", "complete"}
      <4>1. mails[n].holder \in Workers
        BY <3>2 DEF IInv, TypeOK, Mail
      <4>2. mails[n].holder # w
        BY <1>4, <3>2 DEF CopiesInv, HoldersBusy, At, MailOf
      <4>3. workers'[mails'[n].holder] = workers[mails[n].holder] /\ mails'[n].holder = mails[n].holder
        BY <2>1, <4>1, <4>2 DEF Alike
      <4>4. QED
        BY <3>2, <4>3 DEF Spent
    <3>3. QED
      BY <3>1, <3>2 DEF Spent
  <2>3. CopyInv(n)
    BY DEF CopiesInv
  <2>4. QED
    BY <1>1, <2>1, <2>2, <2>3 DEF CopyInv, Alike
<1>5. CopyInv(m)'
  <2>1. PICK c \in Nat : c = Cardinality(Sending(m))
    BY <1>1
  <2>2. PICK d \in Nat : d = Cardinality(Sending(m)') /\ d + before = c + after
    <3>1. CASE before = 0 /\ after = 0
      BY <2>1, <3>1, SendingChanges
    <3>2. CASE before = 0 /\ after = 1
      BY <2>1, <3>2, SendingChanges
    <3>3. CASE before = 1 /\ after = 0
      <4>1. c = Cardinality(Sending(m)') + 1
        BY <2>1, <3>3, SendingChanges
      <4>2. Sending(m)' \subseteq Workers
        BY DEF Sending
      <4>3. Cardinality(Sending(m)') \in Nat
        BY <4>2, FS_Subset, FS_CardinalityType
      <4>4. QED
        BY <3>3, <4>1, <4>3
    <3>4. QED
      BY <3>1, <3>2, <3>3
  <2>3. PICK s \in {0, 1}, t \in {0, 1} : s = (IF Spent(m) THEN 0 ELSE 1) /\ t = (IF Spent(m)' THEN 0 ELSE 1)
    OBVIOUS
  <2>4. mails[m].delivered + c + s <= 1 + mails[m].troubles
    BY <2>1, <2>3 DEF CopiesInv, CopyInv
  <2>5. t + gain <= s + slack
    BY <2>3
  <2>6. mails'[m].delivered + d + t <= 1 + mails'[m].troubles
    BY <1>1, <2>2, <2>4, <2>5
  <2>7. QED
    BY <2>2, <2>3, <2>6 DEF CopyInv
<1>6. QED
  BY <1>3, <1>4, <1>5 DEF CopiesInv

\* A step that leaves the workers alone.
LEMMA CopiesAsk ==
  ASSUME IInv, CopiesInv, IsFiniteSet(Workers), UNCHANGED workers, NEW m \in Mails,
         mails' \in [Mails -> Mail], \A n \in Mails : n # m => Alike(n),
         mails'[m].holder \in {None, mails[m].holder},
         mails'[m].delivered = mails[m].delivered,
         \/ mails'[m].troubles = mails[m].troubles /\ (Spent(m) => Spent(m)')
         \/ mails'[m].troubles = mails[m].troubles + 1
  PROVE  CopiesInv'
<1>1. \A n \in Mails : /\ Sending(n)' = Sending(n) /\ Cardinality(Sending(n)) \in Nat
                       /\ mails[n].delivered \in Nat /\ mails[n].troubles \in Nat
  <2>1. \A n \in Mails : mails[n].delivered \in Nat /\ mails[n].troubles \in Nat
    BY MailNumbers DEF IInv, TypeOK
  <2>2. \A n \in Mails : Sending(n)' = Sending(n)
    BY DEF Sending, At, MailOf
  <2>3. QED
    BY <2>1, <2>2, SendingFinite
<1>2. HoldersBusy'
  BY DEF CopiesInv, HoldersBusy, Alike, At, MailOf
<1>3. ASSUME NEW n \in Mails, n # m
      PROVE  CopyInv(n)'
  <2>1. Spent(n) => Spent(n)'
    BY <1>3 DEF Spent, Alike, Ended
  <2>2. CopyInv(n) /\ Alike(n)
    BY <1>3 DEF CopiesInv
  <2>3. QED
    BY <1>1, <2>1, <2>2 DEF CopyInv, Alike
<1>4. CopyInv(m)'
  <2>1. CopyInv(m)
    BY DEF CopiesInv
  <2>2. QED
    BY <1>1, <2>1 DEF CopyInv
<1>5. QED
  BY <1>2, <1>3, <1>4 DEF CopiesInv

\* Asking for an e-mail, and what BullMQ does with a job that nobody works on.
LEMMA AskingKeepsCopies ==
  ASSUME IInv, CopiesInv, IsFiniteSet(Workers), TypeOK', NEW m \in Mails,
         \/ \E a \in Accounts, t \in Types : RecordEmail(m, a, t) \/ AddUnrecorded(m, a, t)
         \/ AddRecorded(m) \/ Promote(m) \/ Stall(m) \/ LoseLock(m)
  PROVE  CopiesInv'
<1>1. mails[m] \in Mail /\ MailInv(m) /\ mails' \in [Mails -> Mail]
  BY DEF IInv, TypeOK
<1>2. UNCHANGED workers /\ \A n \in Mails : n # m => Alike(n)
  BY DEF RecordEmail, AddUnrecorded, AddRecorded, Promote, Stall, LoseLock, Alike, IInv, TypeOK
<1>3. CASE \E a \in Accounts, t \in Types : RecordEmail(m, a, t) \/ AddUnrecorded(m, a, t)
  <2>1. PICK a \in Accounts, t \in Types : RecordEmail(m, a, t) \/ AddUnrecorded(m, a, t)
    BY <1>3
  <2>2. mails[m] = Unasked
    BY <2>1 DEF RecordEmail, AddUnrecorded, IsNext
  <2>3. mails[m].job = "none" /\ mails[m].holder = None
    BY <2>2 DEF Unasked
  <2>4. CASE RecordEmail(m, a, t)
    <3>1. mails'[m] = [mails[m] EXCEPT !.account = a, !.type = t, !.row = "pending"]
      BY <1>1, <2>4 DEF RecordEmail, IInv, TypeOK
    <3>2. /\ mails'[m].delivered = mails[m].delivered /\ mails'[m].holder = mails[m].holder
          /\ mails'[m].troubles = mails[m].troubles
      BY <1>1, <3>1 DEF Mail
    <3>3. ~ Spent(m)
      BY <2>3 DEF Spent, Ended
    <3>4. QED
      BY <1>1, <1>2, <3>2, <3>3, CopiesAsk
  <2>5. CASE AddUnrecorded(m, a, t)
    <3>1. mails'[m] = [mails[m] EXCEPT !.account = a, !.type = t, !.job = "waiting"]
      BY <1>1, <2>5 DEF AddUnrecorded, IInv, TypeOK
    <3>2. /\ mails'[m].delivered = mails[m].delivered /\ mails'[m].holder = mails[m].holder
          /\ mails'[m].troubles = mails[m].troubles
      BY <1>1, <3>1 DEF Mail
    <3>3. ~ Spent(m)
      BY <2>3 DEF Spent, Ended
    <3>4. QED
      BY <1>1, <1>2, <3>2, <3>3, CopiesAsk
  <2>6. QED
    BY <2>1, <2>4, <2>5
<1>4. CASE AddRecorded(m) \/ Promote(m)
  <2>1. mails'[m] = [mails[m] EXCEPT !.job = "waiting"]
    BY <1>1, <1>4 DEF AddRecorded, Promote, IInv, TypeOK
  <2>2. /\ mails'[m].delivered = mails[m].delivered /\ mails'[m].holder = mails[m].holder
        /\ mails'[m].troubles = mails[m].troubles
    BY <1>1, <2>1 DEF Mail
  <2>3. mails[m].job \in {"none", "delayed"}
    BY <1>4 DEF AddRecorded, Promote
  <2>4. ~ Spent(m)
    BY <1>1, <2>3 DEF Spent, Ended, MailInv
  <2>5. QED
    BY <1>1, <1>2, <2>2, <2>4, CopiesAsk
<1>5. CASE LoseLock(m)
  <2>1. mails'[m] = [mails[m] EXCEPT !.holder = None, !.troubles = @ + 1]
    BY <1>1, <1>5 DEF LoseLock, IInv, TypeOK
  <2>2. /\ mails'[m].delivered = mails[m].delivered /\ mails'[m].holder = None
        /\ mails'[m].troubles = mails[m].troubles + 1
    BY <1>1, <2>1 DEF Mail
  <2>3. QED
    BY <1>1, <1>2, <2>2, CopiesAsk
<1>6. CASE Stall(m)
  <2>1. \/ mails'[m] = [mails[m] EXCEPT !.job = "waiting", !.stalls = @ + 1]
        \/ mails'[m] = [mails[m] EXCEPT !.job = "failed"]
    BY <1>1, <1>6 DEF Stall, IInv, TypeOK
  <2>2. /\ mails'[m].delivered = mails[m].delivered /\ mails'[m].holder = mails[m].holder
        /\ mails'[m].troubles = mails[m].troubles
    BY <1>1, <2>1 DEF Mail
  <2>3. mails[m].job = "active" /\ mails[m].holder = None
    BY <1>6 DEF Stall
  <2>4. ~ Spent(m)
    BY <2>3 DEF Spent, Ended
  <2>5. QED
    BY <1>1, <1>2, <2>2, <2>4, CopiesAsk
<1>7. QED
  BY <1>3, <1>4, <1>5, <1>6

\* A job that is handed out is going to be sent once.
LEMMA TakeKeepsCopies ==
  ASSUME IInv, CopiesInv, IsFiniteSet(Workers), TypeOK', NEW w \in Workers, Take(w)
  PROVE  CopiesInv'
<1>1. PICK m \in Mails : m = Head(queue)
  BY DEF IInv, TypeOK, Take
<1>2. queue \in Seq(Mails) /\ queue # <<>> /\ At(w, "idle")
  BY DEF IInv, TypeOK, Take
<1>3. mails[m].job = "waiting"
  BY <1>1, <1>2 DEF IInv, QueueInv
<1>4. mails[m] \in Mail /\ MailInv(m)
  BY DEF IInv, TypeOK
<1>5. w # None
  BY ConstantsAssumption
<1>6. ~ Spent(m)
  BY <1>3, <1>4 DEF Spent, Ended, MailInv
<1>7. /\ \A n \in Mails : n # m => Alike(n)
      /\ mails'[m].holder = w /\ mails'[m].job = "active"
      /\ mails'[m].delivered = mails[m].delivered /\ mails'[m].troubles = mails[m].troubles
  BY <1>1, <1>4 DEF Take, Alike, IInv, TypeOK, Mail
<1>8. PICK v : v = [Idle EXCEPT !.pc = "send", !.mail = m]
  OBVIOUS
<1>9. v.pc = "send" /\ v.mail = m
  BY <1>8 DEF Idle
<1>10. /\ workers' \in [Workers -> Worker] /\ mails' \in [Mails -> Mail]
       /\ workers'[w] = v /\ \A u \in Workers : u # w => workers'[u] = workers[u]
  BY <1>1, <1>8 DEF Take, IInv, TypeOK
<1>11. Spent(m)'
  BY <1>5, <1>7, <1>9, <1>10 DEF Spent
<1>12. At(w, "send")' /\ MailOf(w)' = m /\ ~ At(w, "send") /\ ~ At(w, "idle")'
  BY <1>2, <1>9, <1>10 DEF At, MailOf
<1>13. mails[m].delivered \in Nat /\ mails[m].troubles \in Nat
  BY <1>4, MailNumbers
<1>14. PICK zero, one \in {0, 1} : zero = 0 /\ one = 1
  OBVIOUS
<1>15. mails'[m].delivered + one + zero + mails[m].troubles
         <= mails[m].delivered + zero + one + mails'[m].troubles
  BY <1>7, <1>13, <1>14
<1>16. QED
  BY <1>2, <1>6, <1>7, <1>10, <1>11, <1>12, <1>14, <1>15, CopiesWork

\* What a step of a busy worker leaves alone.
LEMMA WorkingFrame ==
  ASSUME IInv, TypeOK', NEW w \in Workers, NEW m \in Mails, m = MailOf(w), ~ At(w, "idle"),
         Send(w) \/ SendFails(w) \/ SendAnswerLost(w) \/ Mark(w) \/ MarkFailed(w) \/ MarkThrows(w)
  PROVE  /\ workers' \in [Workers -> Worker] /\ mails' \in [Mails -> Mail]
         /\ \A u \in Workers : u # w => workers'[u] = workers[u]
         /\ workers'[w].mail = m
         /\ \A n \in Mails : n # m => Alike(n)
         /\ mails'[m].job = mails[m].job /\ mails'[m].holder = mails[m].holder
<1>1. workers[w] \in Worker /\ mails[m] \in Mail /\ workers[w].mail = m
  BY DEF IInv, TypeOK, MailOf
<1>2. PICK pc, result : workers' = [workers EXCEPT ![w].pc = pc, ![w].status = result]
  <2>1. ASSUME NEW pc, Goes(w, pc)
        PROVE  workers' = [workers EXCEPT ![w].pc = pc, ![w].status = workers[w].status]
    BY <1>1, <2>1 DEF Goes, IInv, TypeOK, Worker
  <2>2. QED
    BY <2>1 DEF Send, SendFails, SendAnswerLost, Mark, MarkFailed, MarkThrows, Returned, Threw
<1>3. /\ workers'[w].mail = m /\ \A u \in Workers : u # w => workers'[u] = workers[u]
  BY <1>1, <1>2 DEF IInv, TypeOK, Worker
<1>4. /\ \A n \in Mails : n # m => Alike(n)
      /\ mails'[m].job = mails[m].job /\ mails'[m].holder = mails[m].holder
  <2>1. CASE \E status : mails' = Settled(w, status)
    <3>1. PICK status : mails' = Settled(w, status)
      BY <2>1
    <3>2. ASSUME NEW n \in Mails
          PROVE  Alike(n)
      <4>1. mails[n] \in Mail
        BY DEF IInv, TypeOK
      <4>2. mails'[n] = mails[n] \/ mails'[n] = [mails[n] EXCEPT !.row = status]
        BY <3>1 DEF Settled
      <4>3. QED
        BY <4>1, <4>2 DEF Alike, Mail
    <3>3. QED
      BY <3>2 DEF Alike
  <2>2. CASE UNCHANGED mails
    BY <2>2 DEF Alike
  <2>3. CASE mails' = [mails EXCEPT ![m].delivered = @ + 1]
    BY <1>1, <2>3 DEF Alike, IInv, TypeOK, Mail
  <2>4. CASE mails' = [mails EXCEPT ![m].troubles = @ + 1]
    BY <1>1, <2>4 DEF Alike, IInv, TypeOK, Mail
  <2>5. CASE mails' = [mails EXCEPT ![m].delivered = @ + 1, ![m].troubles = @ + 1]
    <3>1. mails'[m] = [mails[m] EXCEPT !.delivered = @ + 1, !.troubles = @ + 1]
      BY <1>1, <2>5 DEF IInv, TypeOK
    <3>2. \A n \in Mails : n # m => mails'[n] = mails[n]
      BY <2>5 DEF IInv, TypeOK
    <3>3. QED
      BY <1>1, <3>1, <3>2 DEF Alike, Mail
  <2>6. QED
    BY <2>1, <2>2, <2>3, <2>4, <2>5 DEF Send, SendFails, SendAnswerLost, Mark, MarkFailed, MarkThrows
<1>5. QED
  BY <1>3, <1>4 DEF TypeOK

LEMMA SendKeepsCopies ==
  ASSUME IInv, CopiesInv, IsFiniteSet(Workers), TypeOK', NEW w \in Workers,
         Send(w) \/ SendFails(w) \/ SendAnswerLost(w)
  PROVE  CopiesInv'
<1>1. At(w, "send") /\ ~ At(w, "idle")
  BY DEF Send, SendFails, SendAnswerLost, At
<1>2. PICK m \in Mails : m = MailOf(w)
  BY <1>1, BusyWorker
<1>3. /\ workers[w] \in Worker /\ mails[m] \in Mail /\ mails[m].delivered \in Nat /\ mails[m].troubles \in Nat
  BY MailNumbers DEF IInv, TypeOK
<1>4. /\ workers' \in [Workers -> Worker] /\ mails' \in [Mails -> Mail]
      /\ \A u \in Workers : u # w => workers'[u] = workers[u]
      /\ workers'[w].mail = m
      /\ \A n \in Mails : n # m => Alike(n)
      /\ mails'[m].job = mails[m].job /\ mails'[m].holder = mails[m].holder
  BY <1>1, <1>2, WorkingFrame
<1>5. /\ workers'[w].pc \in {"mark", "markFailed", "complete"}
      /\ Send(w) => workers'[w].pc \in {"mark", "complete"}
  BY <1>3 DEF Send, SendFails, SendAnswerLost, Returned, Threw, Goes, IInv, TypeOK, Worker
<1>6. /\ MailOf(w)' = m /\ ~ At(w, "send")' /\ ~ At(w, "idle")'
  BY <1>4, <1>5 DEF At, MailOf
<1>7. PICK zero, one \in {0, 1} : zero = 0 /\ one = 1
  OBVIOUS
<1>8. CASE Send(w)
  <2>1. Spent(m) => Spent(m)'
    BY <1>3, <1>4, <1>5, <1>8 DEF Spent, Ended, Mail
  <2>2. mails'[m].delivered <= mails[m].delivered + 1 /\ mails'[m].troubles = mails[m].troubles
    BY <1>2, <1>3, <1>8 DEF Send, IInv, TypeOK, Mail
  <2>3. mails'[m].delivered \in Nat
    BY <1>4, MailNumbers
  <2>4. mails'[m].delivered + zero + zero + mails[m].troubles
          <= mails[m].delivered + one + zero + mails'[m].troubles
    BY <1>3, <1>7, <2>2, <2>3
  <2>5. QED
    BY <1>1, <1>2, <1>4, <1>6, <1>7, <2>1, <2>4, CopiesWork
<1>9. CASE SendFails(w) \/ SendAnswerLost(w)
  <2>1. \/ mails'[m].delivered = mails[m].delivered /\ mails'[m].troubles = mails[m].troubles
        \/ mails'[m].delivered = mails[m].delivered + 1 /\ mails'[m].troubles = mails[m].troubles + 1
    BY <1>2, <1>3, <1>9 DEF SendFails, SendAnswerLost, IInv, TypeOK, Mail
  <2>2. mails'[m].delivered + zero + one + mails[m].troubles
          <= mails[m].delivered + one + zero + mails'[m].troubles
    BY <1>3, <1>7, <2>1
  <2>3. QED
    BY <1>1, <1>2, <1>4, <1>6, <1>7, <2>2, CopiesWork
<1>10. QED
  BY <1>8, <1>9

LEMMA MarkKeepsCopies ==
  ASSUME IInv, CopiesInv, IsFiniteSet(Workers), TypeOK', NEW w \in Workers,
         Mark(w) \/ MarkFailed(w) \/ MarkThrows(w)
  PROVE  CopiesInv'
<1>1. ~ At(w, "send") /\ ~ At(w, "idle")
  BY DEF Mark, MarkFailed, MarkThrows, At
<1>2. PICK m \in Mails : m = MailOf(w)
  BY <1>1, BusyWorker
<1>3. /\ workers[w] \in Worker /\ mails[m] \in Mail /\ mails[m].delivered \in Nat /\ mails[m].troubles \in Nat
  BY MailNumbers DEF IInv, TypeOK
<1>4. /\ workers' \in [Workers -> Worker] /\ mails' \in [Mails -> Mail]
      /\ \A u \in Workers : u # w => workers'[u] = workers[u]
      /\ workers'[w].mail = m
      /\ \A n \in Mails : n # m => Alike(n)
      /\ mails'[m].job = mails[m].job /\ mails'[m].holder = mails[m].holder
  BY <1>1, <1>2, WorkingFrame
<1>5. /\ workers'[w].pc \in {"markFailed", "complete", "throw"}
      /\ Mark(w) => workers'[w].pc = "complete"
  BY <1>3 DEF Mark, MarkFailed, MarkThrows, Goes, IInv, TypeOK, Worker
<1>6. /\ MailOf(w)' = m /\ ~ At(w, "send")' /\ ~ At(w, "idle")'
  BY <1>4, <1>5 DEF At, MailOf
<1>7. PICK zero, one \in {0, 1} : zero = 0 /\ one = 1
  OBVIOUS
<1>8. CASE Mark(w) \/ MarkFailed(w)
  <2>1. Spent(m) => Spent(m)'
    BY <1>3, <1>4, <1>5, <1>8 DEF Spent, Ended, Mail, MarkFailed, At
  <2>2. mails'[m].delivered = mails[m].delivered /\ mails'[m].troubles = mails[m].troubles
    <3>1. PICK status : mails' = Settled(w, status)
      BY <1>8 DEF Mark, MarkFailed
    <3>2. mails'[m] = mails[m] \/ mails'[m] = [mails[m] EXCEPT !.row = status]
      BY <3>1 DEF Settled
    <3>3. QED
      BY <1>3, <3>2 DEF Mail
  <2>3. mails'[m].delivered + zero + zero + mails[m].troubles
          <= mails[m].delivered + zero + zero + mails'[m].troubles
    BY <1>3, <1>7, <2>2
  <2>4. QED
    BY <1>1, <1>2, <1>4, <1>6, <1>7, <2>1, <2>3, CopiesWork
<1>9. CASE MarkThrows(w)
  <2>1. mails'[m].delivered = mails[m].delivered /\ mails'[m].troubles = mails[m].troubles + 1
    BY <1>2, <1>3, <1>9 DEF MarkThrows, IInv, TypeOK, Mail
  <2>2. mails'[m].delivered + zero + one + mails[m].troubles
          <= mails[m].delivered + zero + zero + mails'[m].troubles
    BY <1>3, <1>7, <2>1
  <2>3. QED
    BY <1>1, <1>2, <1>4, <1>6, <1>7, <2>2, CopiesWork
<1>10. QED
  BY <1>8, <1>9

\* A worker lets go of its e-mail: the attempt is over, or the process dies.
LEMMA FinishKeepsCopies ==
  ASSUME IInv, CopiesInv, IsFiniteSet(Workers), TypeOK', NEW w \in Workers,
         Complete(w) \/ Throw(w) \/ Die(w)
  PROVE  CopiesInv'
<1>1. ~ At(w, "idle")
  BY DEF Complete, Throw, Die, At
<1>2. PICK m \in Mails : m = MailOf(w)
  BY <1>1, BusyWorker
<1>3. /\ workers[w] \in Worker /\ mails[m] \in Mail /\ mails[m].delivered \in Nat /\ mails[m].troubles \in Nat
      /\ MailInv(m)
  BY MailNumbers DEF IInv, TypeOK
<1>4. /\ workers' \in [Workers -> Worker] /\ mails' \in [Mails -> Mail]
      /\ workers'[w] = Idle /\ \A u \in Workers : u # w => workers'[u] = workers[u]
  BY DEF Complete, Throw, Die, Rests, IInv, TypeOK
<1>5. At(w, "idle")' /\ ~ At(w, "send")'
  BY <1>4 DEF At, Idle
<1>6. w # None /\ (Holds(w) <=> mails[m].holder = w)
  BY <1>2, ConstantsAssumption DEF Holds
<1>7. PICK zero, one \in {0, 1} : zero = 0 /\ one = 1
  OBVIOUS
<1>8. PICK before \in {0, 1} : At(w, "send") <=> before = 1
  <2>1. CASE At(w, "send")
    BY <1>7, <2>1
  <2>2. CASE ~ At(w, "send")
    BY <1>7, <2>2
  <2>3. QED
    BY <2>1, <2>2
<1>9. CASE ~ Holds(w)
  <2>1. UNCHANGED mails
    BY <1>9 DEF Complete, Throw, Die
  <2>2. \A n \in Mails : Alike(n)
    BY <2>1 DEF Alike
  <2>3. Spent(m) => Spent(m)'
    BY <1>3, <1>4, <1>6, <1>9, <2>1 DEF Spent, Ended, Mail
  <2>4. mails'[m].delivered + zero + zero + mails[m].troubles
          <= mails[m].delivered + before + zero + mails'[m].troubles
    BY <1>3, <1>7, <1>8, <2>1
  <2>5. QED
    BY <1>2, <1>4, <1>5, <1>6, <1>7, <1>8, <1>9, <2>1, <2>2, <2>3, <2>4, CopiesWork
<1>10. CASE Holds(w)
  <2>1. /\ \A n \in Mails : n # m => Alike(n)
        /\ mails'[m].holder = None /\ mails'[m].delivered = mails[m].delivered
    <3>1. CASE Complete(w)
      <4>1. mails'[m] = [mails[m] EXCEPT !.job = "completed", !.holder = None]
        BY <1>2, <1>10, <3>1 DEF Complete, IInv, TypeOK
      <4>2. \A n \in Mails : n # m => mails'[n] = mails[n]
        BY <1>2, <1>10, <3>1 DEF Complete, IInv, TypeOK
      <4>3. QED
        BY <1>3, <4>1, <4>2 DEF Alike, Mail
    <3>2. CASE Throw(w)
      <4>1. PICK job : mails' = [mails EXCEPT ![m].made = @ + 1, ![m].holder = None, ![m].job = job]
        BY <1>2, <1>10, <3>2 DEF Throw
      <4>2. mails'[m] = [mails[m] EXCEPT !.made = @ + 1, !.holder = None, !.job = job]
        BY <4>1 DEF IInv, TypeOK
      <4>3. \A n \in Mails : n # m => mails'[n] = mails[n]
        BY <4>1 DEF IInv, TypeOK
      <4>4. QED
        BY <1>3, <4>2, <4>3 DEF Alike, Mail
    <3>3. CASE Die(w)
      <4>1. mails'[m] = [mails[m] EXCEPT !.holder = None, !.troubles = @ + 1]
        BY <1>2, <1>10, <3>3 DEF Die, IInv, TypeOK
      <4>2. \A n \in Mails : n # m => mails'[n] = mails[n]
        BY <1>2, <1>10, <3>3 DEF Die, IInv, TypeOK
      <4>3. QED
        BY <1>3, <4>1, <4>2 DEF Alike, Mail
    <3>4. QED
      BY <3>1, <3>2, <3>3
  <2>2. CASE Complete(w) \/ Throw(w)
    <3>1. mails'[m].troubles = mails[m].troubles /\ (Complete(w) => mails'[m].job = "completed")
      BY <1>2, <1>3, <1>10, <2>2 DEF Complete, Throw, IInv, TypeOK, Mail
    <3>2. Throw(w) => ~ Spent(m)
      BY <1>3, <1>6, <1>10 DEF Throw, At, Spent, Ended, MailInv
    <3>3. Spent(m) => Spent(m)'
      BY <2>2, <3>1, <3>2 DEF Spent, Ended
    <3>4. mails'[m].delivered + zero + zero + mails[m].troubles
            <= mails[m].delivered + before + zero + mails'[m].troubles
      BY <1>3, <1>7, <1>8, <2>1, <3>1
    <3>5. QED
      BY <1>2, <1>4, <1>5, <1>6, <1>7, <1>8, <2>1, <3>3, <3>4, CopiesWork
  <2>3. CASE Die(w)
    <3>1. mails'[m].troubles = mails[m].troubles + 1
      BY <1>2, <1>3, <1>10, <2>3 DEF Die, IInv, TypeOK, Mail
    <3>2. mails'[m].delivered + zero + one + mails[m].troubles
            <= mails[m].delivered + before + zero + mails'[m].troubles
      BY <1>3, <1>7, <1>8, <2>1, <3>1
    <3>3. QED
      BY <1>2, <1>4, <1>5, <1>6, <1>7, <1>8, <2>1, <3>2, CopiesWork
  <2>4. QED
    BY <2>2, <2>3
<1>11. QED
  BY <1>9, <1>10

\* Nobody sends anything at first.
LEMMA CopiesAtFirst ==
  ASSUME Init
  PROVE  CopiesInv
<1>1. HoldersBusy
  BY DEF Init, HoldersBusy, Unasked
<1>2. ASSUME NEW m \in Mails
      PROVE  CopyInv(m)
  <2>1. Sending(m) = {}
    BY DEF Init, Sending, At, Idle
  <2>2. Cardinality(Sending(m)) = 0
    BY <2>1, FS_EmptySet
  <2>3. mails[m].delivered = 0 /\ mails[m].troubles = 0
    BY DEF Init, Unasked
  <2>4. QED
    BY <2>2, <2>3 DEF CopyInv
<1>3. QED
  BY <1>1, <1>2 DEF CopiesInv

\* However many workers there are, and however they lose their locks and die, a
\* recipient gets one copy and at most one more for every fault that its job met.
THEOREM CopiesCounted ==
  ASSUME IsFiniteSet(Workers)
  PROVE  Spec => []OneCopyPerFault
<1>1. ASSUME IInv, IInv', CopiesInv, [Next]_vars
      PROVE  CopiesInv'
  <2>1. TypeOK'
    BY <1>1 DEF IInv
  <2>2. CASE UNCHANGED vars
    BY <1>1, <2>2 DEF vars, CopiesInv, HoldersBusy, CopyInv, Sending, Spent, Ended, At, MailOf
  <2>3. QED
    BY <1>1, <2>1, <2>2, AskingKeepsCopies, TakeKeepsCopies, SendKeepsCopies, MarkKeepsCopies,
       FinishKeepsCopies DEF Next, Process
<1>2. IInv /\ CopiesInv => OneCopyPerFault
  <2> SUFFICES ASSUME IInv, CopiesInv, NEW m \in Mails
               PROVE  mails[m].delivered <= 1 + mails[m].troubles
    BY DEF OneCopyPerFault
  <2>1. mails[m].delivered \in Nat /\ mails[m].troubles \in Nat
    BY MailNumbers DEF IInv, TypeOK
  <2>2. Cardinality(Sending(m)) \in Nat
    BY SendingFinite
  <2>3. QED
    BY <2>1, <2>2 DEF CopiesInv, CopyInv
<1>3. Init => CopiesInv
  BY CopiesAtFirst
<1>4. QED
  BY <1>1, <1>2, <1>3, Invariance, PTL DEF Spec
===============================================================================
