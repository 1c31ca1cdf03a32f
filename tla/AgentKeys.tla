----------------------------- MODULE AgentKeys ------------------------------
(***************************************************************************)
(* What the data agent page of a site promises: the AWS keys that are live *)
(* in somebody's hands, and the key the site's record names.  A request    *)
(* first revokes what is live and then, in one step, either hands out and  *)
(* records a key that is new or records that there is none.  The promise   *)
(* is made for requests that come one at a time and whose calls succeed:   *)
(* once that is no longer so, it is off.  DataAgent makes these steps of   *)
(* calls to AWS and to the database.                                       *)
(***************************************************************************)
CONSTANTS
  Key,      \* AWS access keys
  None      \* no key

VARIABLES
  calm,     \* have requests come one at a time, and all calls succeeded?
  live,     \* the keys AWS accepts, as far as anybody holds them
  record    \* the key the site's record names

Init == calm = TRUE /\ live = {} /\ record = None

Revoke ==
  /\ live' = {}
  /\ UNCHANGED <<calm, record>>

Issue(k) ==
  /\ live = {}
  /\ k # record
  /\ live' = {k}
  /\ record' = k
  /\ UNCHANGED calm

Withdraw ==
  /\ live = {}
  /\ record' = None
  /\ UNCHANGED <<calm, live>>

\* Something went wrong: nothing is said of live and record any more.
Disturbed == calm' = FALSE

Next == Revoke \/ (\E k \in Key : Issue(k)) \/ Withdraw \/ Disturbed

Spec == Init /\ [][Next]_<<calm, live, record>>

\* AWS accepts no key but the one the record names, and none once the agent is
\* disabled: what sitedataagent/controllers.py 60-72 is there for.
Agreed == calm => live \subseteq {record} \ {None}
=============================================================================
