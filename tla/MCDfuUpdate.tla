------------------------------ MODULE MCDfuUpdate ------------------------------
(***************************************************************************)
(* The session whose instance is of the kind that the theorems about       *)
(* updates speak of.                                                       *)
(***************************************************************************)
EXTENDS MCDfuSession

ASSUME InstanceIsRegular ==
  /\ LayoutRegular
  /\ \A i \in Images : ElementsAscend(i) /\ DataErasesInScope(i)
===============================================================================
