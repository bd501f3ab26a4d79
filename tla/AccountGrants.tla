---------------------------- MODULE AccountGrants ----------------------------
(***************************************************************************)
(* What the authentication service promises about one account, with the    *)
(* caches, the Redis keys and the order of the storage calls left out.     *)
(*                                                                         *)
(* The account has an epoch (auth_users.tokenVersion).  A request may be   *)
(* granted a token pair only for an epoch that was in force during that    *)
(* request, and only if the account was active when it was looked up.      *)
(* The password changes only together with the epoch, and the epoch never  *)
(* goes back, so a grant that the account has outlived stays outlived.     *)
(***************************************************************************)
EXTENDS Integers

CONSTANTS Requests,      \* the requests that may be in flight together
          Passwords,     \* the passwords the account may have
          Seconds,       \* the times of issue (the iat claim)
          MaxVersion     \* bound on the epoch

VARIABLES password,      \* the account's password
          epoch,         \* the account's token version
          active,        \* whether the account may sign in
          ticket,        \* per request: None, Checked, or the epoch it may be granted
          granted        \* the token pairs handed out

vars == <<password, epoch, active, ticket, granted>>

None == -1
Checked == -2

Epochs == 0 .. MaxVersion

Grant == [version : Epochs, second : Seconds]

Init ==
  /\ password \in Passwords
  /\ epoch = 0
  /\ active \in BOOLEAN
  /\ ticket = [r \in Requests |-> None]
  /\ granted = {}

\* The account was looked up and found fit to be granted tokens.
Check(r) ==
  /\ ticket[r] = None
  /\ active
  /\ ticket' = [ticket EXCEPT ![r] = Checked]
  /\ UNCHANGED <<password, epoch, active, granted>>

\* The epoch the tokens will carry is read, with the check or after it.
Stamp(r) ==
  /\ \/ ticket[r] = Checked
     \/ ticket[r] = None /\ active
  /\ ticket' = [ticket EXCEPT ![r] = epoch]
  /\ UNCHANGED <<password, epoch, active, granted>>

\* The tokens are handed out.  The epoch may have moved on since the stamp.
HandOut(r) ==
  /\ ticket[r] \in Epochs
  /\ \E s \in Seconds : granted' = granted \union {[version |-> ticket[r], second |-> s]}
  /\ ticket' = [ticket EXCEPT ![r] = None]
  /\ UNCHANGED <<password, epoch, active>>

\* The request fails, or its process dies.
Abandon(r) ==
  /\ ticket' = [ticket EXCEPT ![r] = None]
  /\ UNCHANGED <<password, epoch, active, granted>>

\* Everything granted so far is outlived; the password may change with it.
Revoke ==
  /\ epoch' = epoch + 1
  /\ password' \in Passwords
  /\ UNCHANGED <<active, ticket, granted>>

SetActive ==
  /\ active' \in BOOLEAN
  /\ UNCHANGED <<password, epoch, ticket, granted>>

Next ==
  \/ \E r \in Requests : Check(r) \/ Stamp(r) \/ HandOut(r) \/ Abandon(r)
  \/ Revoke
  \/ SetActive

Spec == Init /\ [][Next]_vars
=============================================================================
