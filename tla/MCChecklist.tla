---------------------------- MODULE MCChecklist -----------------------------
(***************************************************************************)
(* Instances of Checklist for TLC.                                         *)
(***************************************************************************)
EXTENDS Checklist, TLC

CONSTANTS p1, p2, i1, i2, t1, t2, u1

\* The first plan has the checklist i2, whose template t2 has no checks.
MCItpOf == [i \in Itc |-> IF i = i1 THEN p2 ELSE p1]
MCTemplateOf == [i \in Itc |-> IF i = i1 THEN t1 ELSE t2]
MCOwnerOf == [t \in ItcCheckId |-> t1]
MCUserOf == [q \in Session |-> u1]

MCSymmetry ==
  Permutations(CheckId) \cup Permutations(Session) \cup Permutations(ItcCheckId)
=============================================================================
