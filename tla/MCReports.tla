----------------------------- MODULE MCReports ------------------------------
(***************************************************************************)
(* An instance of Reports for TLC: a window for reports of test plans, one *)
(* with a deliverable and one without, and a window for a report of two    *)
(* deliverables.                                                           *)
(***************************************************************************)
EXTENDS Reports

CONSTANTS plan, empty, list, w1, w2

MCKindOf == [r \in Report |-> IF r = list THEN "deliverables" ELSE "plan"]
MCDeliverables == [r \in Report |-> CASE r = plan -> 1 [] r = empty -> 0 [] OTHER -> 2]
MCOpens == [w \in Window |-> IF w = w1 THEN {plan, empty} ELSE {list}]
=============================================================================
