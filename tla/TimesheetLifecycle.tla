-------------------------- MODULE TimesheetLifecycle --------------------------
(***************************************************************************)
(* What a timesheet promises the engineer who files it and the office that *)
(* pays it: its content is the engineer's to change while it is a draft or *)
(* has been sent back, what is reviewed is what was submitted, and a       *)
(* review happens once per submission and is final when it approves.       *)
(***************************************************************************)
CONSTANTS Engineers,
          Contents,  \* what a timesheet may claim
          Blank      \* the content of one that does not exist

VARIABLES stage,     \* per engineer: NONE, or the status of the timesheet
          content    \* per engineer: what the timesheet claims

vars == <<stage, content>>

Init ==
  /\ stage = [e \in Engineers |-> "NONE"]
  /\ content = [e \in Engineers |-> Blank]

Move(e, from, to) ==
  /\ stage[e] \in from
  /\ stage' = [stage EXCEPT ![e] = to]

\* Written for the first time, or rewritten while it is the engineer's.
Write(e) ==
  /\ \/ Move(e, {"NONE"}, "DRAFT")
     \/ stage[e] \in {"DRAFT", "REJECTED"} /\ UNCHANGED stage
  /\ \E c \in Contents : content' = [content EXCEPT ![e] = c]

Submit(e) == Move(e, {"DRAFT", "REJECTED"}, "SUBMITTED") /\ UNCHANGED content

Review(e) ==
  /\ \E verdict \in {"APPROVED", "REJECTED"} : Move(e, {"SUBMITTED"}, verdict)
  /\ UNCHANGED content

Next == \E e \in Engineers : Write(e) \/ Submit(e) \/ Review(e)

Spec == Init /\ [][Next]_vars
===============================================================================
