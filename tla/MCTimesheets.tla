---------------------------- MODULE MCTimesheets -----------------------------
(* Small instances of Timesheets for TLC. *)
EXTENDS Timesheets, TLC

CONSTANTS e1, e2, c1, c2, q1, q2, u1, u2, office

\* Engineers, contents, request slots and unlock ids are interchangeable.
Symmetry ==
  Permutations(Engineers) \union Permutations(Contents)
    \union Permutations(Requests) \union Permutations(Unlocks)
=============================================================================
