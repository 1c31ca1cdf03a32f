----------------------------- MODULE DataAgent ------------------------------
(***************************************************************************)
(* The AWS user and key of one site's data agent.  The switch on the       *)
(* site's page sends a request that deletes the key and the user, makes    *)
(* both anew when the agent is to be enabled, and records the outcome.     *)
(* Each step below is one call to AWS or to the database; requests of two  *)
(* windows may overlap.  A delete that fails is swallowed, anything else   *)
(* that fails ends the request with an error page.                         *)
(*                                                                         *)
(* AWS is external: it holds at most two keys of a user, refuses to delete *)
(* a user that has a key or is in a group, and answers for a user that     *)
(* does not exist with an error.  One page of list_users holds every user. *)
(***************************************************************************)
CONSTANTS
  Key,           \* AWS access keys
  None,          \* no key
  Window         \* browser windows: each has at most one request in flight

ASSUME DataAgentAssumption == None \notin Key

VARIABLES
  user, member,  \* does the user exist at AWS, is it in the uploaders' group
  keys,          \* the user's access keys at AWS
  row,           \* the site's record in site_data_uploader
  request,       \* window -> the request in flight
  calm,          \* history: has no request overlapped another and no call failed?
  disables       \* history: undisturbed disabling requests since any other (2 is many)

aws == <<user, member, keys>>
history == <<calm, disables>>
vars == <<aws, row, request, history>>

Row == [exists : BOOLEAN, enabled : BOOLEAN, key : Key \cup {None}]
NoRow == [exists |-> FALSE, enabled |-> FALSE, key |-> None]

(***************************************************************************)
(* A request: the call it makes next, whether it enables the agent, what   *)
(* the calls before have told it, and whether a fault or another request   *)
(* came between its steps.                                                 *)
(***************************************************************************)
Call == {"idle", "list_access_keys", "delete_access_key", "remove_user_from_group",
         "delete_user", "list_users", "create_user", "add_user_to_group",
         "create_access_key", "load", "commit"}

Request ==
  [call : Call, enable : BOOLEAN, victim : Key \cup {None},
   access_key_id : Key \cup {None}, loaded : Row, disturbed : BOOLEAN]

Idle == [call |-> "idle", enable |-> FALSE, victim |-> None,
         access_key_id |-> None, loaded |-> NoRow, disturbed |-> FALSE]

Active == {w \in Window : request[w].call # "idle"}

TypeOK ==
  /\ user \in BOOLEAN
  /\ member \in BOOLEAN
  /\ keys \subseteq Key
  /\ row \in Row
  /\ request \in [Window -> Request]
  /\ calm \in BOOLEAN
  /\ disables \in {0, 1, 2}

Init ==
  /\ user = FALSE
  /\ member = FALSE
  /\ keys = {}
  /\ row = NoRow
  /\ request = [w \in Window |-> Idle]
  /\ calm = TRUE
  /\ disables = 0

-----------------------------------------------------------------------------
(* The steps of a request. *)

At(w, c) == request[w].call = c
Becomes(w, q) == request' = [request EXCEPT ![w] = q]
Go(w, c) == Becomes(w, [request[w] EXCEPT !.call = c])

\* The request ends without having committed: an error page.
GiveUp(w) ==
  /\ Becomes(w, Idle)
  /\ disables' = 0

\* Mutant of Start: the call of delete_access_key is forgotten.
StartWithoutRevoking(w, enable) ==
  /\ At(w, "idle")
  /\ request' = [v \in Window |->
       IF v = w
         THEN [Idle EXCEPT !.call = "remove_user_from_group", !.enable = enable,
                           !.disturbed = (Active # {})]
         ELSE [request[v] EXCEPT !.disturbed = v \in Active]]
  /\ calm' = (calm /\ Active = {})
  /\ UNCHANGED <<aws, row, disables>>

\* generate_access_keys begins; a request under way is no longer alone.
Start(w, enable) ==
  /\ At(w, "idle")
  /\ request' = [v \in Window |->
       IF v = w
         THEN [Idle EXCEPT !.call = "list_access_keys", !.enable = enable,
                           !.disturbed = (Active # {})]
         ELSE [request[v] EXCEPT !.disturbed = v \in Active]]
  /\ calm' = (calm /\ Active = {})
  /\ UNCHANGED <<aws, row, disables>>

\* delete_access_key: list the keys; with none, or no user, there is no more to do.
ListKeys(w) ==
  /\ At(w, "list_access_keys")
  /\ \/ keys = {} /\ Go(w, "remove_user_from_group")
     \/ \E k \in keys :
          Becomes(w, [request[w] EXCEPT !.call = "delete_access_key", !.victim = k])
  /\ UNCHANGED <<aws, row, history>>

\* Mutant of DeleteKey: the key is looked up but not deleted.
DeleteNoKey(w) ==
  /\ At(w, "delete_access_key")
  /\ Becomes(w, [request[w] EXCEPT !.call = "remove_user_from_group", !.victim = None])
  /\ UNCHANGED <<aws, row, history>>

\* The loop over the listed keys returns once it has deleted one.
DeleteKey(w) ==
  /\ At(w, "delete_access_key")
  /\ keys' = keys \ {request[w].victim}
  /\ Becomes(w, [request[w] EXCEPT !.call = "remove_user_from_group", !.victim = None])
  /\ UNCHANGED <<user, member, row, history>>

LeaveGroup(w) ==
  /\ At(w, "remove_user_from_group")
  /\ member' = FALSE
  /\ Go(w, "delete_user")
  /\ UNCHANGED <<user, keys, row, history>>

\* AWS refuses while the user has keys or a group; the handler goes on either way.
DeleteUser(w) ==
  /\ At(w, "delete_user")
  /\ user' = (user /\ (keys # {} \/ member))
  /\ Go(w, IF request[w].enable THEN "list_users" ELSE "load")
  /\ UNCHANGED <<member, keys, row, history>>

\* create_user: a user that is listed is neither created nor added to the group.
ListUsers(w) ==
  /\ At(w, "list_users")
  /\ Go(w, IF user THEN "create_access_key" ELSE "create_user")
  /\ UNCHANGED <<aws, row, history>>

CreateUser(w) ==
  /\ At(w, "create_user")
  /\ IF user
       THEN GiveUp(w) /\ UNCHANGED user
       ELSE /\ user' = TRUE
            /\ Go(w, "add_user_to_group")
            /\ UNCHANGED disables
  /\ UNCHANGED <<member, keys, row, calm>>

\* Mutant of JoinGroup: the new user is not added to the group.
JoinNoGroup(w) ==
  /\ At(w, "add_user_to_group")
  /\ IF user THEN Go(w, "create_access_key") /\ UNCHANGED disables ELSE GiveUp(w)
  /\ UNCHANGED <<aws, row, calm>>

JoinGroup(w) ==
  /\ At(w, "add_user_to_group")
  /\ IF user
       THEN /\ member' = TRUE
            /\ Go(w, "create_access_key")
            /\ UNCHANGED disables
       ELSE GiveUp(w) /\ UNCHANGED member
  /\ UNCHANGED <<user, keys, row, calm>>

TwoKeys == \E k1, k2 \in keys : k1 # k2

\* AWS never issues a key again: no key that anything here still names.
Fresh(k) ==
  /\ k \notin keys \cup {row.key}
  /\ \A v \in Window :
       k \notin {request[v].victim, request[v].access_key_id, request[v].loaded.key}

\* Mutant of CreateKey: the whole answer is kept in place of the key's id.
CreateKeyKeepAnswer(w) ==
  /\ At(w, "create_access_key")
  /\ IF user /\ ~TwoKeys
       THEN /\ \E k \in Key :
                 /\ Fresh(k)
                 /\ keys' = keys \cup {k}
                 /\ Becomes(w, [request[w] EXCEPT !.call = "load", !.access_key_id = {k}])
            /\ UNCHANGED disables
       ELSE GiveUp(w) /\ UNCHANGED keys
  /\ UNCHANGED <<user, member, row, calm>>

CreateKey(w) ==
  /\ At(w, "create_access_key")
  /\ IF user /\ ~TwoKeys
       THEN /\ \E k \in Key :
                 /\ Fresh(k)
                 /\ keys' = keys \cup {k}
                 /\ Becomes(w, [request[w] EXCEPT !.call = "load", !.access_key_id = k])
            /\ UNCHANGED disables
       ELSE GiveUp(w) /\ UNCHANGED keys
  /\ UNCHANGED <<user, member, row, calm>>

Load(w) ==
  /\ At(w, "load")
  /\ Becomes(w, [request[w] EXCEPT !.call = "commit", !.loaded = row])
  /\ UNCHANGED <<aws, row, history>>

\* Mutant of Written: a column is never set back to nothing.
WrittenIfAny(old, new, current) == IF new = None THEN current ELSE new

\* The object mapper writes the columns that differ from what was loaded.
Written(old, new, current) == IF new = old THEN current ELSE new

\* An undisturbed request that disables counts, any other starts the count anew.
Counted(w) ==
  CASE request[w].disturbed \/ request[w].enable -> 0
    [] OTHER -> IF disables = 0 THEN 1 ELSE 2

\* Two requests that both found no record both insert one, and the second breaks the
\* unique aws_username.
Commit(w) ==
  LET q == request[w]
  IN  /\ At(w, "commit")
      /\ IF row.exists /\ ~q.loaded.exists
           THEN GiveUp(w) /\ UNCHANGED row
           ELSE /\ row' = [exists  |-> TRUE,
                           enabled |-> Written(q.loaded.enabled, q.enable, row.enabled),
                           key     |-> Written(q.loaded.key, q.access_key_id, row.key)]
                /\ Becomes(w, Idle)
                /\ disables' = Counted(w)
      /\ UNCHANGED <<aws, calm>>

-----------------------------------------------------------------------------
(* Faults. *)

\* A call of the deleting half fails and is swallowed.  The handler goes on as after
\* a call that worked.
AfterFailed(w) ==
  CASE request[w].call \in {"list_access_keys", "delete_access_key"} -> "remove_user_from_group"
    [] request[w].call = "remove_user_from_group" -> "delete_user"
    [] OTHER -> IF request[w].enable THEN "list_users" ELSE "load"

Swallow(w) ==
  /\ request[w].call \in {"list_access_keys", "delete_access_key",
                          "remove_user_from_group", "delete_user"}
  /\ Becomes(w, [request[w] EXCEPT !.call = AfterFailed(w), !.victim = None,
                                   !.disturbed = TRUE])
  /\ calm' = FALSE
  /\ disables' = 0
  /\ UNCHANGED <<aws, row>>

\* Another call fails and raises, or the server process dies.
Die(w) ==
  /\ ~At(w, "idle")
  /\ GiveUp(w)
  /\ calm' = FALSE
  /\ UNCHANGED <<aws, row>>

-----------------------------------------------------------------------------
Step(w) ==
  \/ ListKeys(w) \/ DeleteKey(w) \/ LeaveGroup(w) \/ DeleteUser(w)
  \/ ListUsers(w) \/ CreateUser(w) \/ JoinGroup(w) \/ CreateKey(w)
  \/ Load(w) \/ Commit(w)

Next ==
  \E w \in Window :
    \/ \E enable \in BOOLEAN : Start(w, enable)
    \/ Step(w)
    \/ Swallow(w)
    \/ Die(w)

Spec == Init /\ [][Next]_vars

-----------------------------------------------------------------------------
(* What is checked. *)

\* The keys somebody holds: a key is in nobody's hands until its request commits.
Pending == {request[w].access_key_id : w \in Active}

Promise ==
  INSTANCE AgentKeys WITH
    live   <- keys \ Pending,
    record <- IF row.enabled THEN row.key ELSE None

\* As long as requests come one at a time and no call fails, the calls of
\* generate_access_keys (sitedataagent/controllers.py 60-91) amount to the abstract revoke
\* and issue: what was live is gone before a key is handed out, and the record names the
\* live key.
KeepsPromise == Promise!Spec

\* As long as requests come one at a time and no call fails, AWS accepts no key in
\* somebody's hands but the recorded one, and none at all once the record says disabled,
\* also between the calls of a request (sitedataagent/controllers.py 61-91).
NoStrayKey == Promise!Agreed

\* Likewise, an enabled agent works when no request is under way: AWS has the recorded
\* key and no other, and its user is in the group (iam.py 43-107).
EnabledWorks ==
  (calm /\ Active = {} /\ row.enabled) => (user /\ member /\ keys = {row.key})

\* Whatever has overlapped or failed before, disabling twice in a row undisturbed leaves
\* nothing at AWS, although a request deletes one key (iam.py 148) and AWS may hold two.
TwoDisablesRevoke ==
  (Active = {} /\ disables = 2)
    => (~user /\ keys = {} /\ ~row.enabled /\ row.key = None)
=============================================================================
