------------------------------- MODULE MCLeave --------------------------------
(* Small instances of Leave for TLC. *)
EXTENDS Leave, TLC

CONSTANTS l1, l2, a1, a2, v1, v2

\* One day or two, from day 0.
OneDayOrTwo == {p \in [{"start", "end"} -> {0, 1}] : p["start"] = 0}

\* Leave ids and the slots of either side are interchangeable.
Symmetry == Permutations(Leaves) \union Permutations(Applicants) \union Permutations(Reviewers)
===============================================================================
