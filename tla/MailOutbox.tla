------------------------------ MODULE MailOutbox ------------------------------
(***************************************************************************)
(* What the e-mail queue and the email_history collection promise together: *)
(* an e-mail asked for is queued once and its job ends once, the rows of    *)
(* one account and type are settled together, and a settled row stays so.   *)
(***************************************************************************)
CONSTANTS Mails,   \* e-mails that may be asked for
          Keys,    \* what a row is found by: an account and a type
          NoKey    \* the key of an e-mail nobody has asked for yet

VARIABLES key,     \* per e-mail: its key
          row,     \* per e-mail: its row in email_history, if it has one
          job      \* per e-mail: whether its job is queued or has ended

vars == <<key, row, job>>

Init ==
  /\ key = [m \in Mails |-> NoKey]
  /\ row = [m \in Mails |-> "none"]
  /\ job = [m \in Mails |-> "none"]

AskFor(m) ==
  /\ key[m] = NoKey
  /\ \E k \in Keys : key' = [key EXCEPT ![m] = k]

\* The row is written before the job is queued; some e-mails have no row.
Record(m) ==
  /\ AskFor(m)
  /\ row' = [row EXCEPT ![m] = "pending"]
  /\ UNCHANGED job

Enqueue(m) ==
  /\ job[m] = "none"
  /\ \/ AskFor(m)
     \/ key[m] # NoKey /\ UNCHANGED key
  /\ job' = [job EXCEPT ![m] = "queued"]
  /\ UNCHANGED row

\* A job of the key has been queued, and the rows found pending are settled.
Settle(k, status) ==
  /\ \E m \in Mails : key[m] = k /\ job[m] # "none"
  /\ row' = [m \in Mails |-> IF key[m] = k /\ row[m] = "pending" THEN status ELSE row[m]]
  /\ UNCHANGED <<key, job>>

End(m) ==
  /\ job[m] = "queued"
  /\ job' = [job EXCEPT ![m] = "ended"]
  /\ UNCHANGED <<key, row>>

Next ==
  \/ \E m \in Mails : Record(m) \/ Enqueue(m) \/ End(m)
  \/ \E k \in Keys, status \in {"sent", "skipped", "failed"} : Settle(k, status)

Spec == Init /\ [][Next]_vars
===============================================================================
