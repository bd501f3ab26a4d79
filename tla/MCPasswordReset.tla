--------------------------- MODULE MCPasswordReset ---------------------------
(* A small instance of PasswordReset for TLC: with one slot there is nothing *)
(* to permute, and secrets are numbered in the order they are generated.     *)
EXTENDS PasswordReset

CONSTANT q1

\* What follows a swallowed write is not explored: the invariants about secrets
\* say nothing of it, and the cooldown does not depend on Redis.
Unslipped == ~ slipped
==============================================================================
