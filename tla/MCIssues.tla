------------------------------ MODULE MCIssues ------------------------------
(***************************************************************************)
(* Instances of Issues for TLC.                                            *)
(***************************************************************************)
EXTENDS Issues, TLC

CONSTANTS a1, a2

\* Every asset is urgent enough for both kinds of notification, as far as its
\* site has them; a2 is only mailed.
MCPriority == [a \in Asset |-> 1]
MCEmailTrigger == [a \in Asset |-> 2]
MCCmmsTrigger == [a \in Asset |-> IF a = a1 THEN 2 ELSE 1]
MCCmmsEnabled == Asset \cap {a1}

\* Row ids, algorithms and users carry no structure.
MCSymmetry == Permutations(ResultId) \cup Permutations(Algorithm) \cup Permutations(User)
=============================================================================
