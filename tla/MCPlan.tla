------------------------------- MODULE MCPlan -------------------------------
(***************************************************************************)
(* Instances of Plan for TLC: one deliverable type.                        *)
(***************************************************************************)
EXTENDS Plan, TLC

CONSTANT y1

MCTypeOf == [t \in ItcId |-> y1]

MCSymmetry == Permutations(ItcId) \cup Permutations(Group) \cup Permutations(MapId)
                \cup Permutations(ItcCheckId) \cup Permutations(GenericId)
=============================================================================
