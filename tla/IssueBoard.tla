----------------------------- MODULE IssueBoard -----------------------------
(***************************************************************************)
(* What the issue engine promises its users, without rows, checks and      *)
(* transactions: an issue (an algorithm failing on an asset) is open from  *)
(* the moment it is raised until it has both gone away and been            *)
(* acknowledged, in whichever order.  Issues makes this of a table of      *)
(* results that the job and the pages share.                               *)
(***************************************************************************)
CONSTANT Issue

VARIABLES
  raised,   \* the issues the algorithms find now
  noted,    \* the raised issues that a user has acknowledged
  open      \* the issues on the pages

Init == raised = {} /\ noted = {} /\ open = {}

\* An issue appears, or comes back while its last occurrence is still unacknowledged.
Raise(i) ==
  /\ i \notin raised
  /\ raised' = raised \cup {i}
  /\ open' = open \cup {i}
  /\ UNCHANGED noted

\* Issues go away; those that were acknowledged are closed.
Clear(S) ==
  /\ raised' = raised \ S
  /\ noted' = noted \ S
  /\ open' = open \ (noted \cap S)

\* A user acknowledges the issues of T and takes back what he had said of those of N.
\* What has gone away is closed.
Note(T, N) ==
  /\ noted' = (noted \ N) \cup (T \cap raised)
  /\ open' = open \ (T \ raised)
  /\ UNCHANGED raised

Next ==
  \/ \E i \in Issue : Raise(i)
  \/ \E S \in SUBSET raised : Clear(S)
  \/ \E T \in SUBSET open, N \in SUBSET noted : Note(T, N)

Spec == Init /\ [][Next]_<<raised, noted, open>>
=============================================================================
