------------------------------ MODULE MCFieldWork ------------------------------
(***************************************************************************)
(* A small instance of the components that people on site work with.  They *)
(* share no document, so that no step of one changes what another may do:  *)
(* a behaviour is one of some component, which scene names, while the      *)
(* others rest.                                                            *)
(***************************************************************************)
EXTENDS RiskAssessments, VehicleChecks, DutyOfCare, Assignments, Pricing, TLC

CONSTANTS p1, p2, p3, s1, s2

VARIABLE scene

fieldVars == <<vars, checkVars, dutyVars, teamVars, priceVars, scene>>
-------------------------------------------------------------------------------
FieldInit ==
  /\ scene \in {"assessment", "checks", "duty", "team", "prices"}
  /\ Init /\ CheckInit /\ DutyInit /\ TeamInit /\ PriceInit

FieldNext ==
  /\ UNCHANGED scene
  /\ \/ scene = "assessment" /\ Next /\ UNCHANGED <<checkVars, dutyVars, teamVars, priceVars>>
     \/ scene = "checks" /\ CheckNext /\ UNCHANGED <<vars, dutyVars, teamVars, priceVars>>
     \/ scene = "duty" /\ DutyNext /\ UNCHANGED <<vars, checkVars, teamVars, priceVars>>
     \/ scene = "team" /\ TeamNext /\ UNCHANGED <<vars, checkVars, dutyVars, priceVars>>
     \/ scene = "prices" /\ PriceNext /\ UNCHANGED <<vars, checkVars, dutyVars, teamVars>>

FieldSpec == FieldInit /\ [][FieldNext]_fieldVars

FieldTypeOK == TypeOK /\ CheckTypeOK /\ DutyTypeOK /\ TeamTypeOK /\ PriceTypeOK

\* People are interchangeable, and so are the slots that most components have.
Symmetry == Permutations({p1, p2, p3}) \union Permutations({s1, s2})
===============================================================================
