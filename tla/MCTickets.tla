----------------------------- MODULE MCTickets ------------------------------
(***************************************************************************)
(* Instances of Tickets for TLC: a user u1 with the windows s1 and s2, and *)
(* an admin u2 with the window s3.                                         *)
(***************************************************************************)
EXTENDS Tickets, TLC

CONSTANTS u1, u2, s1, s2, s3

MCUserOf == [s \in Session |-> IF s = s3 THEN u2 ELSE u1]

\* The two windows of u1 are interchangeable, and so are the texts.
MCSymmetry == Permutations(Session \cap {s1, s2}) \cup Permutations(Content)
=============================================================================
