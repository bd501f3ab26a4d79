--------------------------- MODULE MCAuthSessions ----------------------------
(* Small instances of AuthSessions for TLC. *)
EXTENDS AuthSessions, TLC

CONSTANTS r1, r2, p1, p2

\* Requests are interchangeable, and so are passwords.
Symmetry == Permutations(Requests) \union Permutations(Passwords)

\* Narrows a run to the guard: no login or refresh is issuing tokens, whose
\* version issueTokens caches as well, while another request revokes.
IssuesOrRevokes ==
  \/ \A r \in Requests : req[r].pc \notin {"loginReread", "refreshRead", "storeKey", "cacheMinted"}
  \/ \A r \in Requests : req[r].pc \notin {"changeWrite", "cacheRevoked", "scan", "delete"}
=============================================================================
