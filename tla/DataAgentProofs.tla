-------------------------- MODULE DataAgentProofs ---------------------------
(***************************************************************************)
(* Proofs about DataAgent, for any windows and keys: types and the         *)
(* recovery by two disables whatever overlaps and fails, and the           *)
(* refinement of AgentKeys.                                                *)
(***************************************************************************)
EXTENDS DataAgent, TLAPS

LEMMA IdleIsRequest == Idle \in Request /\ NoRow \in Row
BY DEF Idle, Request, Call, NoRow, Row

\* A request that replaces another is the only change.
LEMMA BecomesTyped ==
  ASSUME TypeOK, NEW w \in Window, NEW q \in Request, Becomes(w, q)
  PROVE  /\ request' \in [Window -> Request]
         /\ request'[w] = q
         /\ \A v \in Window : v # w => request'[v] = request[v]
BY DEF TypeOK, Becomes

\* The requests the steps make of a request.
LEMMA UpdatesTyped ==
  ASSUME NEW q \in Request, NEW c \in Call, NEW k \in Key \cup {None}, NEW r \in Row,
         NEW d \in BOOLEAN
  PROVE  /\ [q EXCEPT !.call = c] \in Request
         /\ [q EXCEPT !.call = c, !.victim = k] \in Request
         /\ [q EXCEPT !.call = c, !.access_key_id = k] \in Request
         /\ [q EXCEPT !.call = c, !.loaded = r] \in Request
         /\ [q EXCEPT !.call = c, !.victim = k, !.disturbed = d] \in Request
BY DEF Request

\* Every step keeps the types.
LEMMA TypeInductive == TypeOK /\ [Next]_vars => TypeOK'
<1> SUFFICES ASSUME TypeOK, [Next]_vars PROVE TypeOK' OBVIOUS
<1> USE DataAgentAssumption, IdleIsRequest
<1>1. CASE UNCHANGED vars BY <1>1 DEF TypeOK, vars, aws, history
<1>2. ASSUME NEW w \in Window, NEW enable \in BOOLEAN, Start(w, enable) PROVE TypeOK'
  <2>1. ASSUME NEW b \in BOOLEAN, NEW v \in Window
        PROVE [request[v] EXCEPT !.disturbed = b] \in Request
    BY DEF TypeOK, Request
  <2>2. ASSUME NEW b \in BOOLEAN
        PROVE [Idle EXCEPT !.call = "list_access_keys", !.enable = enable,
                           !.disturbed = b] \in Request
    BY DEF Idle, Request, Call
  <2>3. (Active # {}) \in BOOLEAN /\ \A v \in Window : (v \in Active) \in BOOLEAN
    OBVIOUS
  <2>4. \A v \in Window :
          (IF v = w
             THEN [Idle EXCEPT !.call = "list_access_keys", !.enable = enable,
                               !.disturbed = (Active # {})]
             ELSE [request[v] EXCEPT !.disturbed = v \in Active]) \in Request
    BY <2>1, <2>2, <2>3
  <2>5. request' \in [Window -> Request]
    BY <1>2, <2>4, Zenon DEF Start
  <2>6. calm' \in BOOLEAN BY <1>2, Zenon DEF Start
  <2> QED BY <1>2, <2>5, <2>6 DEF TypeOK, Start, aws
<1>3. ASSUME NEW w \in Window, Step(w) \/ Swallow(w) \/ Die(w)
      PROVE  request' \in [Window -> Request]
  <2>1. request[w] \in Request /\ row \in Row /\ keys \subseteq Key BY DEF TypeOK
  <2>2. PICK q \in Request : Becomes(w, q)
    <3>1. CASE ListKeys(w)
      BY <3>1, <2>1, UpdatesTyped DEF ListKeys, Go, Call
    <3>2. CASE DeleteKey(w) \/ LeaveGroup(w) \/ DeleteUser(w) \/ ListUsers(w)
      BY <3>2, <2>1, UpdatesTyped DEF DeleteKey, LeaveGroup, DeleteUser, ListUsers, Go, Call
    <3>3. CASE CreateUser(w) \/ JoinGroup(w)
      BY <3>3, <2>1, UpdatesTyped DEF CreateUser, JoinGroup, GiveUp, Go, Call
    <3>4. CASE CreateKey(w)
      BY <3>4, <2>1, UpdatesTyped DEF CreateKey, GiveUp, Call
    <3>5. CASE Load(w)
      BY <3>5, <2>1, UpdatesTyped DEF Load, Call
    <3>6. CASE Commit(w) \/ Die(w)
      BY <3>6 DEF Commit, Die, GiveUp
    <3>7. CASE Swallow(w)
      <4>1. AfterFailed(w) \in Call BY DEF AfterFailed, Call
      <4> QED BY <3>7, <2>1, <4>1, UpdatesTyped DEF Swallow
    <3> QED BY <1>3, <3>1, <3>2, <3>3, <3>4, <3>5, <3>6, <3>7 DEF Step
  <2> QED BY <2>2, BecomesTyped
<1>4. ASSUME NEW w \in Window, ListKeys(w) \/ ListUsers(w) \/ Load(w) \/ DeleteKey(w) \/ LeaveGroup(w)
      PROVE  TypeOK'
  BY <1>3, <1>4 DEF TypeOK, Step, ListKeys, ListUsers, Load, DeleteKey, LeaveGroup, aws,
     history
<1>5. ASSUME NEW w \in Window, DeleteUser(w) PROVE TypeOK'
  <2>1. user' \in BOOLEAN BY <1>5, Zenon DEF DeleteUser
  <2> QED BY <1>3, <1>5, <2>1 DEF TypeOK, Step, DeleteUser, history
<1>6. ASSUME NEW w \in Window, CreateUser(w) \/ JoinGroup(w) \/ CreateKey(w) PROVE TypeOK'
  <2>1. disables' \in {0, 1, 2} BY <1>6 DEF TypeOK, CreateUser, JoinGroup, CreateKey, GiveUp
  <2>2. user' \in BOOLEAN BY <1>6 DEF TypeOK, CreateUser, JoinGroup, CreateKey
  <2>3. member' \in BOOLEAN BY <1>6 DEF TypeOK, CreateUser, JoinGroup, CreateKey
  <2>4. keys' \subseteq Key BY <1>6 DEF TypeOK, CreateUser, JoinGroup, CreateKey
  <2> QED BY <1>3, <1>6, <2>1, <2>2, <2>3, <2>4
          DEF TypeOK, Step, CreateUser, JoinGroup, CreateKey
<1>7. ASSUME NEW w \in Window, Commit(w) PROVE TypeOK'
  <2>1. row' \in Row
    <3>1. request[w] \in Request /\ row \in Row BY DEF TypeOK
    <3>2. request[w].enable \in BOOLEAN /\ request[w].access_key_id \in Key \cup {None}
      BY <3>1 DEF Request
    <3>3. row.enabled \in BOOLEAN /\ row.key \in Key \cup {None}
      BY <3>1 DEF Row
    <3>4. \A a, b, c : Written(a, b, c) \in {b, c} BY DEF Written
    <3>5. \A e \in BOOLEAN, k \in Key \cup {None} :
            [exists |-> TRUE, enabled |-> e, key |-> k] \in Row
      BY DEF Row
    <3> QED BY <1>7, <3>1, <3>2, <3>3, <3>4, <3>5 DEF Commit
  <2>2. disables' \in {0, 1, 2}
    <3>1. Counted(w) \in {0, 1, 2} BY DEF Counted
    <3> QED BY <1>7, <3>1 DEF Commit, GiveUp
  <2> QED BY <1>3, <1>7, <2>1, <2>2 DEF TypeOK, Step, Commit, aws
<1>8. ASSUME NEW w \in Window, Swallow(w) \/ Die(w) PROVE TypeOK'
  <2>1. disables' \in {0, 1, 2} BY <1>8 DEF Swallow, Die, GiveUp
  <2>2. calm' \in BOOLEAN BY <1>8 DEF Swallow, Die
  <2> QED BY <1>3, <1>8, <2>1, <2>2 DEF TypeOK, Swallow, Die, aws
<1> QED BY <1>1, <1>2, <1>4, <1>5, <1>6, <1>7, <1>8 DEF Next, Step

LEMMA TypeInitially == Init => TypeOK
<1> SUFFICES ASSUME Init PROVE TypeOK OBVIOUS
<1>1. request \in [Window -> Request] BY IdleIsRequest DEF Init
<1>2. row \in Row BY IdleIsRequest DEF Init
<1> QED BY <1>1, <1>2 DEF Init, TypeOK

\* Type correctness of every behaviour of the data agent's requests.
THEOREM DataAgentTypes == Spec => []TypeOK
BY TypeInitially, TypeInductive, PTL DEF Spec

-----------------------------------------------------------------------------
(***************************************************************************)
(* While calm.  SerialInv says what each call finds at AWS: between the    *)
(* requests AWS agrees with the record, and the request under way has      *)
(* taken it apart up to its next call.                                     *)
(***************************************************************************)
Built == user /\ member
Gone == ~user /\ ~member /\ keys = {}

Settled == IF row.enabled THEN Built /\ keys = {row.key} ELSE Gone

RowNamesKey == (row.enabled => row.key \in Key) /\ (~row.enabled => row.key = None)

Alone == \A v, w \in Active : v = w

Progress(w) ==
  LET q == request[w]
  IN  /\ q.call = "list_access_keys" => Settled
      /\ q.call = "delete_access_key" => Settled /\ keys = {q.victim}
      /\ q.call = "remove_user_from_group" => keys = {}
      /\ q.call = "delete_user" => keys = {} /\ ~member
      /\ q.call \in {"list_users", "create_user"} => q.enable /\ Gone
      /\ q.call = "add_user_to_group" => q.enable /\ user /\ keys = {}
      /\ q.call = "create_access_key" => q.enable /\ Built /\ keys = {}
      /\ q.call \in {"load", "commit"} =>
           IF q.enable
             THEN /\ Built
                  /\ keys = {q.access_key_id}
                  /\ q.access_key_id \in Key
                  /\ q.access_key_id # row.key
             ELSE Gone /\ q.access_key_id = None
      /\ q.call \notin {"load", "commit"} => q.access_key_id = None
      /\ q.call = "commit" => q.loaded = row

SerialInv ==
  /\ RowNamesKey
  /\ Alone
  /\ Active = {} => Settled
  /\ \A w \in Active : Progress(w)

CalmInv == calm => SerialInv

LEMMA SerialInitially == Init => SerialInv
BY DEF Init, SerialInv, RowNamesKey, Alone, Active, Settled, Gone, NoRow, Idle

\* A request that moves on is the only one under way, before and after.
LEMMA OnlyOne ==
  ASSUME TypeOK, SerialInv, NEW w \in Active, NEW q \in Request, Becomes(w, q)
  PROVE  /\ Active = {w}
         /\ Active' = IF q.call = "idle" THEN {} ELSE {w}
         /\ request'[w] = q
         /\ request[w] \in Request
<1>1. w \in Window /\ request[w] \in Request BY DEF Active, TypeOK
<1>2. Active = {w} BY DEF SerialInv, Alone
<1>3. request'[w] = q /\ \A v \in Window : v # w => request'[v] = request[v]
  BY <1>1, BecomesTyped
<1> QED BY <1>1, <1>2, <1>3 DEF Active

\* The next request satisfies its part of the invariant.
LEMMA ProgressSuffices ==
  ASSUME TypeOK, SerialInv, NEW w \in Active, NEW q \in Request, Becomes(w, q),
         q.call # "idle", Progress(w)', UNCHANGED row
  PROVE  SerialInv'
<1>1. Active' = {w} BY OnlyOne
<1> QED BY <1>1 DEF SerialInv, RowNamesKey, Alone

\* What each call does to SerialInv when no call fails and no other request runs.
LEMMA SerialInductive ==
  ASSUME TypeOK, SerialInv, [Next]_vars, calm'
  PROVE  SerialInv'
<1> USE DataAgentAssumption
<1>1. CASE UNCHANGED vars
  BY <1>1 DEF vars, aws, history, SerialInv, RowNamesKey, Alone, Active, Settled, Built, Gone, Progress
<1>2. ASSUME NEW w \in Window, NEW enable \in BOOLEAN, Start(w, enable) PROVE SerialInv'
  <2>1. Active = {} /\ Settled BY <1>2 DEF Start, SerialInv
  <2>2. request'[w].call = "list_access_keys" /\ request'[w].access_key_id = None
    BY <1>2 DEF Start, Idle
  <2>3. \A v \in Window : v # w => request'[v].call = "idle"
    <3> SUFFICES ASSUME NEW v \in Window, v # w PROVE request'[v].call = "idle" OBVIOUS
    <3>1. request[v] \in Request /\ request[v].call = "idle" BY <2>1 DEF TypeOK, Active
    <3>2. request'[v] = [request[v] EXCEPT !.disturbed = v \in Active]
      BY <1>2 DEF Start
    <3> QED BY <3>1, <3>2 DEF Request
  <2>4. Active' = {w} BY <2>2, <2>3 DEF Active
  <2>5. Settled' /\ RowNamesKey'
    BY <1>2, <2>1 DEF Start, aws, Settled, Built, Gone, SerialInv, RowNamesKey
  <2> QED BY <2>2, <2>4, <2>5 DEF SerialInv, Alone, Progress
<1>3. ASSUME NEW w \in Window, Step(w) \/ Swallow(w) \/ Die(w) PROVE SerialInv'
  <2>2. w \in Active /\ Step(w)
    BY <1>3 DEF Active, Step, At, ListKeys, DeleteKey, LeaveGroup, DeleteUser,
       ListUsers, CreateUser, JoinGroup, CreateKey, Load, Commit, Swallow, Die
  <2>3. request[w] \in Request /\ row \in Row BY DEF TypeOK
  <2>4. Progress(w) BY <2>2 DEF SerialInv
  <2>5. CASE ListKeys(w)
    <3>1. Settled /\ request[w].access_key_id = None BY <2>4, <2>5 DEF ListKeys, At, Progress
    <3>2. CASE keys = {} /\ Go(w, "remove_user_from_group")
      <4> DEFINE q == [request[w] EXCEPT !.call = "remove_user_from_group"]
      <4>1. q \in Request /\ Becomes(w, q) BY <2>3, <3>2, UpdatesTyped DEF Go, Call
      <4>2. q.call = "remove_user_from_group" /\ q.access_key_id = None
        BY <2>3, <3>1 DEF Request
      <4>3. Progress(w)'
        BY <2>2, <2>5, <3>2, <4>1, <4>2, OnlyOne DEF Progress, ListKeys, aws
      <4> QED BY <2>2, <2>5, <4>1, <4>2, <4>3, ProgressSuffices DEF ListKeys
    <3>3. ASSUME NEW k \in keys,
                 Becomes(w, [request[w] EXCEPT !.call = "delete_access_key", !.victim = k])
          PROVE  SerialInv'
      <4> DEFINE q == [request[w] EXCEPT !.call = "delete_access_key", !.victim = k]
      <4>1. q \in Request BY <2>3, UpdatesTyped DEF Call, TypeOK
      <4>2. q.call = "delete_access_key" /\ q.access_key_id = None /\ q.victim = k
        BY <2>3, <3>1 DEF Request
      <4>3. keys = {k} /\ Settled' BY <2>5, <3>1 DEF Settled, Built, Gone, ListKeys, aws
      <4>4. Progress(w)'
        BY <2>2, <2>5, <3>3, <4>1, <4>2, <4>3, OnlyOne DEF Progress, ListKeys, aws
      <4> QED BY <2>2, <2>5, <3>3, <4>1, <4>2, <4>4, ProgressSuffices DEF ListKeys
    <3> QED BY <2>5, <3>2, <3>3 DEF ListKeys
  <2>6. CASE DeleteKey(w)
    <3> DEFINE q == [request[w] EXCEPT !.call = "remove_user_from_group", !.victim = None]
    <3>1. q \in Request /\ Becomes(w, q) BY <2>3, <2>6, UpdatesTyped DEF DeleteKey, Call
    <3>2. q.call = "remove_user_from_group" /\ q.access_key_id = None
      BY <2>3, <2>4, <2>6 DEF Request, Progress, DeleteKey, At
    <3>3. keys' = {} BY <2>4, <2>6 DEF DeleteKey, At, Progress
    <3>4. Progress(w)' BY <2>2, <3>1, <3>2, <3>3, OnlyOne DEF Progress
    <3> QED BY <2>2, <2>6, <3>1, <3>2, <3>4, ProgressSuffices DEF DeleteKey
  <2>7. CASE LeaveGroup(w)
    <3> DEFINE q == [request[w] EXCEPT !.call = "delete_user"]
    <3>1. q \in Request /\ Becomes(w, q) BY <2>3, <2>7, UpdatesTyped DEF LeaveGroup, Go, Call
    <3>2. q.call = "delete_user" /\ q.access_key_id = None
      BY <2>3, <2>4, <2>7 DEF Request, Progress, LeaveGroup, At
    <3>3. keys' = {} /\ ~member' BY <2>4, <2>7 DEF LeaveGroup, At, Progress
    <3>4. Progress(w)' BY <2>2, <3>1, <3>2, <3>3, OnlyOne DEF Progress
    <3> QED BY <2>2, <2>7, <3>1, <3>2, <3>4, ProgressSuffices DEF LeaveGroup
  <2>8. CASE DeleteUser(w)
    <3> DEFINE c == IF request[w].enable THEN "list_users" ELSE "load"
               q == [request[w] EXCEPT !.call = c]
    <3>1. q \in Request /\ Becomes(w, q) BY <2>3, <2>8, UpdatesTyped DEF DeleteUser, Go, Call
    <3>2. q.call = c /\ q.access_key_id = None /\ q.enable = request[w].enable
      BY <2>3, <2>4, <2>8 DEF Request, Progress, DeleteUser, At
    <3>3. keys = {} /\ ~member BY <2>4, <2>8 DEF DeleteUser, At, Progress
    <3>4. keys' = {} /\ ~member' /\ ~user'
      <4>1. user' = (user /\ (keys # {} \/ member)) /\ UNCHANGED <<keys, member>>
        BY <2>8, Zenon DEF DeleteUser
      <4> QED BY <3>3, <4>1, Zenon
    <3>5. request'[w] = q BY <2>2, <3>1, OnlyOne
    <3>6. Progress(w)'
      <4>1. CASE request[w].enable BY <3>2, <3>4, <3>5, <4>1 DEF Progress, Gone
      <4>2. CASE ~request[w].enable BY <3>2, <3>4, <3>5, <4>2 DEF Progress, Gone
      <4> QED BY <4>1, <4>2
    <3>7. q.call # "idle" /\ UNCHANGED row BY <2>8, <3>2 DEF DeleteUser
    <3> QED BY <2>2, <3>1, <3>6, <3>7, ProgressSuffices
  <2>9. CASE ListUsers(w)
    <3> DEFINE q == [request[w] EXCEPT !.call = "create_user"]
    <3>1. ~user /\ Gone /\ request[w].enable BY <2>4, <2>9 DEF ListUsers, At, Progress, Gone
    <3>2. q \in Request /\ Becomes(w, q) BY <2>3, <2>9, <3>1, UpdatesTyped DEF ListUsers, Go, Call
    <3>3. q.call = "create_user" /\ q.access_key_id = None /\ q.enable
      BY <2>3, <2>4, <2>9, <3>1 DEF Request, Progress, ListUsers, At
    <3>4. Gone' BY <2>9, <3>1 DEF ListUsers, Gone, aws
    <3>5. Progress(w)' BY <2>2, <3>2, <3>3, <3>4, OnlyOne DEF Progress
    <3> QED BY <2>2, <2>9, <3>2, <3>3, <3>5, ProgressSuffices DEF ListUsers
  <2>10. CASE CreateUser(w)
    <3> DEFINE q == [request[w] EXCEPT !.call = "add_user_to_group"]
    <3>1. ~user /\ Gone /\ request[w].enable BY <2>4, <2>10 DEF CreateUser, At, Progress, Gone
    <3>2. q \in Request /\ Becomes(w, q) BY <2>3, <2>10, <3>1, UpdatesTyped DEF CreateUser, Go, Call
    <3>3. q.call = "add_user_to_group" /\ q.access_key_id = None /\ q.enable
      BY <2>3, <2>4, <2>10, <3>1 DEF Request, Progress, CreateUser, At
    <3>4. user' /\ keys' = {} BY <2>10, <3>1 DEF CreateUser, Gone
    <3>5. Progress(w)' BY <2>2, <3>2, <3>3, <3>4, OnlyOne DEF Progress
    <3> QED BY <2>2, <2>10, <3>2, <3>3, <3>5, ProgressSuffices DEF CreateUser
  <2>11. CASE JoinGroup(w)
    <3> DEFINE q == [request[w] EXCEPT !.call = "create_access_key"]
    <3>1. user /\ keys = {} /\ request[w].enable BY <2>4, <2>11 DEF JoinGroup, At, Progress
    <3>2. q \in Request /\ Becomes(w, q) BY <2>3, <2>11, <3>1, UpdatesTyped DEF JoinGroup, Go, Call
    <3>3. q.call = "create_access_key" /\ q.access_key_id = None /\ q.enable
      BY <2>3, <2>4, <2>11, <3>1 DEF Request, Progress, JoinGroup, At
    <3>4. user' /\ member' /\ keys' = {} BY <2>11, <3>1 DEF JoinGroup
    <3>5. Progress(w)' BY <2>2, <3>2, <3>3, <3>4, OnlyOne DEF Progress, Built
    <3> QED BY <2>2, <2>11, <3>2, <3>3, <3>5, ProgressSuffices DEF JoinGroup
  <2>12. CASE CreateKey(w)
    <3>1. user /\ member /\ keys = {} /\ request[w].enable
      BY <2>4, <2>12 DEF CreateKey, At, Progress, Built
    <3>2. PICK k \in Key : /\ Fresh(k)
                           /\ keys' = keys \cup {k}
                           /\ Becomes(w, [request[w] EXCEPT !.call = "load", !.access_key_id = k])
      BY <2>12, <3>1 DEF CreateKey, TwoKeys
    <3> DEFINE q == [request[w] EXCEPT !.call = "load", !.access_key_id = k]
    <3>3. q \in Request BY <2>3, UpdatesTyped DEF Call
    <3>4. q.call = "load" /\ q.access_key_id = k /\ q.enable BY <2>3, <3>1 DEF Request
    <3>5. user' /\ member' /\ keys' = {k} /\ row' = row BY <2>12, <3>1, <3>2 DEF CreateKey
    <3>6. k # row.key BY <3>2 DEF Fresh
    <3>7. Progress(w)' BY <2>2, <3>2, <3>3, <3>4, <3>5, <3>6, OnlyOne DEF Progress, Built
    <3> QED BY <2>2, <3>2, <3>3, <3>4, <3>5, <3>7, ProgressSuffices
  <2>13. CASE Load(w)
    <3> DEFINE q == [request[w] EXCEPT !.call = "commit", !.loaded = row]
    <3>1. q \in Request /\ Becomes(w, q) BY <2>3, <2>13, UpdatesTyped DEF Load, Call
    <3>2. /\ q.call = "commit" /\ q.loaded = row
          /\ q.access_key_id = request[w].access_key_id /\ q.enable = request[w].enable
      BY <2>3 DEF Request
    <3>3. UNCHANGED <<user, member, keys, row>> BY <2>13 DEF Load, aws
    <3>4. request[w].call = "load" BY <2>13 DEF Load, At
    <3>5. request'[w] = q BY <2>2, <3>1, OnlyOne
    <3>6. Progress(w)'
      <4>1. CASE request[w].enable
        BY <2>4, <3>2, <3>3, <3>4, <3>5, <4>1 DEF Progress, Built
      <4>2. CASE ~request[w].enable
        BY <2>4, <3>2, <3>3, <3>4, <3>5, <4>2 DEF Progress, Gone
      <4> QED BY <4>1, <4>2
    <3> QED BY <2>2, <3>1, <3>2, <3>3, <3>6, ProgressSuffices
  <2>14. CASE Commit(w)
    <3>1. request[w].call = "commit" /\ request[w].loaded = row BY <2>4, <2>14 DEF Commit, At, Progress
    <3>2. /\ row'.enabled = request[w].enable
          /\ row'.key = request[w].access_key_id
          /\ Becomes(w, Idle)
          /\ UNCHANGED <<user, member, keys>>
      BY <2>14, <3>1 DEF Commit, Written, aws
    <3>3. Active' = {} BY <2>2, <3>2, OnlyOne, IdleIsRequest DEF Idle
    <3>4. Settled' /\ RowNamesKey'
      <4>1. CASE request[w].enable
        BY <2>4, <3>1, <3>2, <4>1 DEF Progress, Settled, RowNamesKey, Built
      <4>2. CASE ~request[w].enable
        BY <2>4, <3>1, <3>2, <4>2 DEF Progress, Settled, RowNamesKey, Gone
      <4> QED BY <4>1, <4>2
    <3> QED BY <3>3, <3>4 DEF SerialInv, Alone
  <2> QED BY <2>2, <2>5, <2>6, <2>7, <2>8, <2>9, <2>10, <2>11, <2>12, <2>13, <2>14 DEF Step
<1> QED BY <1>1, <1>2, <1>3 DEF Next

\* What was not calm does not become calm again.
LEMMA CalmBefore == ASSUME TypeOK, [Next]_vars, calm' PROVE calm
BY DEF TypeOK, Next, vars, Start, Step, ListKeys, DeleteKey, LeaveGroup, DeleteUser, ListUsers,
   CreateUser, JoinGroup, CreateKey, Load, Commit, Swallow, Die, history

\* CalmInv and the types are inductive.
LEMMA CalmInductive ==
  /\ Init => CalmInv /\ TypeOK
  /\ CalmInv /\ TypeOK /\ [Next]_vars => (CalmInv /\ TypeOK)'
<1>1. Init => CalmInv /\ TypeOK BY SerialInitially, TypeInitially DEF CalmInv
<1>2. ASSUME CalmInv, TypeOK, [Next]_vars PROVE CalmInv'
  <2> SUFFICES ASSUME calm' PROVE SerialInv' BY DEF CalmInv
  <2>1. SerialInv BY <1>2, CalmBefore DEF CalmInv
  <2> QED BY <1>2, <2>1, SerialInductive
<1> QED BY <1>1, <1>2, TypeInductive

\* As long as it is calm, the agent works whenever it is enabled and no request is under
\* way.
THEOREM EnabledAgentWorks == Spec => []EnabledWorks
<1>1. CalmInv => EnabledWorks BY DEF CalmInv, SerialInv, EnabledWorks, Settled, Built
<1> QED BY <1>1, CalmInductive, PTL DEF Spec

-----------------------------------------------------------------------------
(***************************************************************************)
(* The refinement.  Only DeleteKey and Commit are visible: a key is taken  *)
(* out of circulation with its deletion and enters it with the record.     *)
(***************************************************************************)

\* The keys in somebody's hands while w's request is the only one, before and after.
LEMMA LiveKeys ==
  ASSUME TypeOK, SerialInv, NEW w \in Active, NEW q \in Request, Becomes(w, q)
  PROVE  /\ keys \ Pending = keys \ {request[w].access_key_id}
         /\ (keys \ Pending)' = IF q.call = "idle" THEN keys' ELSE keys' \ {q.access_key_id}
<1>1. /\ Active = {w}
      /\ Active' = IF q.call = "idle" THEN {} ELSE {w}
      /\ request'[w] = q
  BY OnlyOne
<1> QED BY <1>1 DEF Pending

\* Every step of the code is a step of AgentKeys or none.
LEMMA RefinesStep ==
  ASSUME TypeOK, SerialInv, [Next]_vars, TypeOK', SerialInv', calm, calm'
  PROVE  [Promise!Next]_<<calm, keys \ Pending, IF row.enabled THEN row.key ELSE None>>
<1> USE DataAgentAssumption
<1>0. calm' = calm BY DEF TypeOK
<1> DEFINE live == keys \ Pending
           record == IF row.enabled THEN row.key ELSE None
<1>1. CASE UNCHANGED vars
  BY <1>1 DEF vars, aws, history, Pending, Active
<1>2. ASSUME NEW w \in Window, NEW enable \in BOOLEAN, Start(w, enable)
      PROVE  UNCHANGED <<live, record>>
  <2>1. Active = {} BY <1>2 DEF Start
  <2>2. request'[w].call = "list_access_keys" /\ request'[w].access_key_id = None
    BY <1>2 DEF Start, Idle
  <2>3. Active' = {w}
    <3>1. w \in Active' BY <2>2 DEF Active
    <3> QED BY <3>1 DEF SerialInv, Alone
  <2>4. Pending = {} /\ Pending' = {None} BY <2>1, <2>2, <2>3 DEF Pending
  <2>5. UNCHANGED <<keys, row>> BY <1>2 DEF Start, aws
  <2> QED BY <2>4, <2>5 DEF TypeOK
<1>3. ASSUME NEW w \in Window, Step(w) \/ Swallow(w) \/ Die(w)
      PROVE  [Promise!Next]_<<calm, live, record>>
  <2>2. w \in Active /\ Step(w)
    BY <1>3 DEF Active, Step, At, ListKeys, DeleteKey, LeaveGroup, DeleteUser,
       ListUsers, CreateUser, JoinGroup, CreateKey, Load, Commit, Swallow, Die
  <2>3. request[w] \in Request /\ row \in Row /\ keys \subseteq Key BY DEF TypeOK
  <2>4. Progress(w) BY <2>2 DEF SerialInv
  <2>5. ASSUME NEW c \in Call \ {"idle"}, Go(w, c), UNCHANGED <<keys, row>>
        PROVE  UNCHANGED <<live, record>>
    <3> DEFINE q == [request[w] EXCEPT !.call = c]
    <3>1. q \in Request /\ Becomes(w, q) BY <2>3, <2>5, UpdatesTyped DEF Go
    <3>2. q.call = c /\ q.access_key_id = request[w].access_key_id BY <2>3 DEF Request
    <3> QED BY <2>2, <2>5, <3>1, <3>2, LiveKeys
  <2>6. CASE ListKeys(w)
    <3>1. CASE Go(w, "remove_user_from_group") BY <2>5, <2>6, <3>1 DEF ListKeys, aws, Call
    <3>2. ASSUME NEW k \in keys,
                 Becomes(w, [request[w] EXCEPT !.call = "delete_access_key", !.victim = k])
          PROVE  UNCHANGED <<live, record>>
      <4> DEFINE q == [request[w] EXCEPT !.call = "delete_access_key", !.victim = k]
      <4>1. q \in Request BY <2>3, UpdatesTyped DEF Call
      <4>2. q.call = "delete_access_key" /\ q.access_key_id = request[w].access_key_id
        BY <2>3 DEF Request
      <4> QED BY <2>2, <2>6, <3>2, <4>1, <4>2, LiveKeys DEF ListKeys, aws
    <3> QED BY <2>6, <3>1, <3>2 DEF ListKeys
  <2>7. CASE DeleteKey(w)
    <3> DEFINE q == [request[w] EXCEPT !.call = "remove_user_from_group", !.victim = None]
    <3>1. q \in Request /\ Becomes(w, q) BY <2>3, <2>7, UpdatesTyped DEF DeleteKey, Call
    <3>2. q.call = "remove_user_from_group" BY <2>3 DEF Request
    <3>3. keys' = {} /\ row' = row BY <2>4, <2>7 DEF DeleteKey, At, Progress
    <3>4. live' = {} /\ record' = record BY <2>2, <3>1, <3>2, <3>3, LiveKeys
    <3>5. Promise!Revoke BY <3>4 DEF Promise!Revoke
    <3> QED BY <3>5 DEF Promise!Next
  <2>8. CASE LeaveGroup(w) BY <2>5, <2>8 DEF LeaveGroup, Call
  <2>9. CASE DeleteUser(w) BY <2>5, <2>9 DEF DeleteUser, Call
  <2>10. CASE ListUsers(w) BY <2>5, <2>10 DEF ListUsers, aws, Call
  <2>11. CASE CreateUser(w)
    <3>1. ~user BY <2>4, <2>11 DEF CreateUser, At, Progress, Gone
    <3> QED BY <2>5, <2>11, <3>1 DEF CreateUser, Call
  <2>12. CASE JoinGroup(w)
    <3>1. user BY <2>4, <2>12 DEF JoinGroup, At, Progress
    <3> QED BY <2>5, <2>12, <3>1 DEF JoinGroup, Call
  <2>13. CASE CreateKey(w)
    <3>1. user /\ keys = {} BY <2>4, <2>13 DEF CreateKey, At, Progress, Built
    <3>2. PICK k \in Key : /\ keys' = keys \cup {k}
                           /\ Becomes(w, [request[w] EXCEPT !.call = "load", !.access_key_id = k])
      BY <2>13, <3>1 DEF CreateKey, TwoKeys
    <3> DEFINE q == [request[w] EXCEPT !.call = "load", !.access_key_id = k]
    <3>3. q \in Request BY <2>3, UpdatesTyped DEF Call
    <3>4. q.call = "load" /\ q.access_key_id = k BY <2>3 DEF Request
    <3>5. keys' = {k} /\ row' = row BY <2>13, <3>1, <3>2 DEF CreateKey
    <3>6. live = {} /\ live' = {} BY <2>2, <3>1, <3>2, <3>3, <3>4, <3>5, LiveKeys
    <3> QED BY <3>5, <3>6
  <2>14. CASE Load(w)
    <3> DEFINE q == [request[w] EXCEPT !.call = "commit", !.loaded = row]
    <3>1. q \in Request /\ Becomes(w, q) BY <2>3, <2>14, UpdatesTyped DEF Load, Call
    <3>2. q.call = "commit" /\ q.access_key_id = request[w].access_key_id
      BY <2>3 DEF Request
    <3>3. UNCHANGED <<keys, row>> BY <2>14 DEF Load, aws
    <3> QED BY <2>2, <3>1, <3>2, <3>3, LiveKeys
  <2>15. CASE Commit(w)
    <3>1. request[w].call = "commit" /\ request[w].loaded = row
      BY <2>4, <2>15 DEF Commit, At, Progress
    <3>2. /\ row'.enabled = request[w].enable
          /\ row'.key = request[w].access_key_id
          /\ Becomes(w, Idle)
          /\ keys' = keys
      BY <2>15, <3>1 DEF Commit, Written, aws
    <3>3. live = keys \ {request[w].access_key_id} /\ live' = keys'
      BY <2>2, <3>2, LiveKeys, IdleIsRequest DEF Idle
    <3>4. CASE request[w].enable
      <4> DEFINE k == request[w].access_key_id
      <4>1. keys = {k} /\ k \in Key /\ k # row.key BY <2>4, <3>1, <3>4 DEF Progress
      <4>2. live = {} /\ live' = {k} /\ record' = k /\ k # record
        BY <3>2, <3>3, <3>4, <4>1
      <4>3. Promise!Issue(k) BY <4>2 DEF Promise!Issue
      <4> QED BY <4>1, <4>3 DEF Promise!Next
    <3>5. CASE ~request[w].enable
      <4>1. keys = {} BY <2>4, <3>1, <3>5 DEF Progress, Gone
      <4>2. live = {} /\ live' = {} /\ record' = None BY <3>2, <3>3, <3>5, <4>1
      <4>3. Promise!Withdraw BY <4>2 DEF Promise!Withdraw
      <4> QED BY <4>3 DEF Promise!Next
    <3> QED BY <3>4, <3>5
  <2> QED
    BY <2>2, <2>6, <2>7, <2>8, <2>9, <2>10, <2>11, <2>12, <2>13, <2>14, <2>15 DEF Step
<1> QED BY <1>1, <1>2, <1>3 DEF Next

LEMMA RefinesInitially == Init => Promise!Init
<1> SUFFICES ASSUME Init PROVE Promise!Init OBVIOUS
<1>1. calm = TRUE /\ keys = {} /\ row.enabled = FALSE BY DEF Init, NoRow
<1> QED BY <1>1 DEF Promise!Init

\* generate_access_keys and the IAM calls it makes implement AgentKeys: revoke, then issue
\* or withdraw, as long as requests come one at a time and no call fails.
THEOREM ImplementsAgentKeys == Spec => KeepsPromise
<1>1. ASSUME CalmInv, TypeOK, [Next]_vars
      PROVE  [Promise!Next]_<<calm, keys \ Pending, IF row.enabled THEN row.key ELSE None>>
  <2>1. CASE calm'
    <3>1. calm BY <1>1, <2>1, CalmBefore
    <3>2. SerialInv /\ SerialInv' /\ TypeOK' BY <1>1, <2>1, <3>1, CalmInductive DEF CalmInv
    <3> QED BY <1>1, <2>1, <3>1, <3>2, RefinesStep
  <2>2. CASE ~calm'
    <3>1. calm' = FALSE BY <1>1, <2>2, TypeInductive DEF TypeOK
    <3> QED BY <3>1 DEF Promise!Next, Promise!Disturbed
  <2> QED BY <2>1, <2>2
<1> QED
  BY <1>1, CalmInductive, RefinesInitially, PTL DEF Spec, KeepsPromise, Promise!Spec

\* As long as it is calm, at every step of a request the keys AWS accepts are at most the
\* recorded one.
THEOREM OnlyRecordedKeyLive == Spec => []NoStrayKey
<1> USE DataAgentAssumption
<1>1. CalmInv /\ TypeOK => NoStrayKey
  <2> SUFFICES ASSUME SerialInv, TypeOK, NEW k \in keys \ Pending
               PROVE  row.enabled /\ k = row.key /\ k # None
    BY DEF CalmInv, NoStrayKey, Promise!Agreed
  <2>1. k \in Key BY DEF TypeOK
  <2>2. CASE Active = {} BY <2>1, <2>2 DEF SerialInv, Settled, Gone
  <2>3. ASSUME NEW w \in Active PROVE row.enabled /\ k = row.key
    <3>1. Progress(w) /\ k # request[w].access_key_id BY DEF SerialInv, Pending
    <3>2. request[w].call \in Call \ {"idle"} BY DEF Active, TypeOK, Request
    <3> QED BY <3>1, <3>2 DEF Progress, Settled, Gone, Call
  <2> QED BY <2>1, <2>2, <2>3
<1> QED BY <1>1, CalmInductive, PTL DEF Spec

-----------------------------------------------------------------------------
(***************************************************************************)
(* Recovery, with overlapping requests and faults.  AWS holds at most two  *)
(* keys; an undisturbed disable leaves at most one and a second leaves     *)
(* none.  RecoveryInv follows the undisturbed disable under way.           *)
(***************************************************************************)
AtMostTwo == \A a, b, c \in keys : a = b \/ a = c \/ b = c
AtMostOne == \A a, b \in keys : a = b

\* The requests that ended last, one or more, were undisturbed disables.
Disabling == disables # 0

Recovered ==
  Disabling =>
    /\ AtMostOne
    /\ disables = 2 => ~user /\ keys = {} /\ ~row.enabled /\ row.key = None

Recovering(w) ==
  LET q == request[w]
  IN  /\ q.call \in {"list_access_keys", "delete_access_key", "remove_user_from_group",
                     "delete_user", "load", "commit"}
      /\ q.access_key_id = None
      /\ q.call \in {"list_access_keys", "delete_access_key"} => (Disabling => AtMostOne)
      /\ q.call = "delete_access_key" => q.victim \in keys
      /\ q.call \notin {"list_access_keys", "delete_access_key"} =>
           AtMostOne /\ (Disabling => keys = {})
      /\ q.call \in {"delete_user", "load", "commit"} => ~member
      /\ q.call \in {"load", "commit"} => (Disabling => ~user)
      /\ q.call = "commit" => q.loaded = row

RecoveryInv ==
  /\ AtMostTwo
  /\ \A w \in Active : ~request[w].disturbed => Active = {w}
  /\ Active = {} => Recovered
  /\ \A w \in Active : ~request[w].disturbed /\ ~request[w].enable => Recovering(w)

LEMMA RecoveryInitially == Init => RecoveryInv
BY DEF Init, RecoveryInv, AtMostTwo, Active, Recovered, Disabling, Idle

\* A request that moves on, and whether it has been disturbed, is all that changes.
LEMMA RecoverySuffices ==
  ASSUME TypeOK, RecoveryInv, NEW w \in Active, NEW q \in Request, Becomes(w, q),
         q.call # "idle", ~q.disturbed => ~request[w].disturbed, AtMostTwo',
         ~q.disturbed /\ ~q.enable => Recovering(w)'
  PROVE  RecoveryInv'
<1>1. w \in Window BY DEF Active
<1>2. request'[w] = q /\ \A v \in Window : v # w => request'[v] = request[v]
  BY <1>1, BecomesTyped
<1>3. Active' = Active BY <1>1, <1>2 DEF Active
<1>4. \A v \in Active : v # w => request[v].disturbed BY DEF RecoveryInv
<1> QED BY <1>1, <1>2, <1>3, <1>4 DEF RecoveryInv, Active

\* A request that ends leaves the others, which it has disturbed.
LEMMA RecoveryEnds ==
  ASSUME TypeOK, RecoveryInv, NEW w \in Active, Becomes(w, Idle), AtMostTwo', Recovered'
  PROVE  RecoveryInv'
<1>1. w \in Window BY DEF Active
<1>2. request'[w] = Idle /\ \A v \in Window : v # w => request'[v] = request[v]
  BY <1>1, BecomesTyped, IdleIsRequest
<1>3. Active' = Active \ {w} BY <1>1, <1>2 DEF Active, Idle
<1>4. \A v \in Active : v # w => request[v].disturbed BY DEF RecoveryInv
<1> QED BY <1>1, <1>2, <1>3, <1>4 DEF RecoveryInv, Active

LEMMA RecoveryInductive ==
  ASSUME TypeOK, RecoveryInv, [Next]_vars
  PROVE  RecoveryInv'
<1> USE DataAgentAssumption
<1>1. CASE UNCHANGED vars
  BY <1>1 DEF vars, aws, history, RecoveryInv, AtMostTwo, AtMostOne, Active, Recovered, Disabling,
     Recovering
<1>2. ASSUME NEW w \in Window, NEW enable \in BOOLEAN, Start(w, enable) PROVE RecoveryInv'
  <2>1. /\ request'[w].call = "list_access_keys"
        /\ request'[w].access_key_id = None
        /\ request'[w].disturbed = (Active # {})
    BY <1>2 DEF Start, Idle
  <2>2. \A v \in Window : v # w =>
          /\ request'[v].call = request[v].call
          /\ request'[v].disturbed = (v \in Active)
    <3> SUFFICES ASSUME NEW v \in Window, v # w
                 PROVE  /\ request'[v].call = request[v].call
                        /\ request'[v].disturbed = (v \in Active)
      OBVIOUS
    <3>1. request[v] \in Request BY DEF TypeOK
    <3>2. request'[v] = [request[v] EXCEPT !.disturbed = v \in Active] BY <1>2 DEF Start
    <3> QED BY <3>1, <3>2 DEF Request
  <2>3. w \notin Active /\ Active' = Active \cup {w} BY <1>2, <2>1, <2>2 DEF Active, Start, At
  <2>4. UNCHANGED <<user, member, keys, row, disables>> BY <1>2 DEF Start, aws
  <2>5. AtMostTwo' BY <2>4 DEF RecoveryInv, AtMostTwo
  <2>6. \A v \in Active : request'[v].disturbed BY <2>2, <2>3 DEF Active
  <2>7. CASE Active = {}
    <3>1. Active' = {w} BY <2>3, <2>7
    <3>2. Recovering(w)'
      BY <2>1, <2>4, <2>7 DEF Recovering, RecoveryInv, Recovered, Disabling, AtMostOne
    <3> QED BY <2>5, <3>1, <3>2 DEF RecoveryInv
  <2>8. CASE Active # {}
    <3>1. \A v \in Active' : request'[v].disturbed BY <2>1, <2>3, <2>6, <2>8
    <3> QED BY <2>3, <2>5, <3>1 DEF RecoveryInv
  <2> QED BY <2>7, <2>8
<1>3. ASSUME NEW w \in Window, Step(w) \/ Swallow(w) \/ Die(w) PROVE RecoveryInv'
  <2>1. w \in Active
    BY <1>3 DEF Active, Step, At, ListKeys, DeleteKey, LeaveGroup, DeleteUser,
       ListUsers, CreateUser, JoinGroup, CreateKey, Load, Commit, Swallow, Die
  <2>2. request[w] \in Request /\ row \in Row /\ keys \subseteq Key BY DEF TypeOK
  <2>3. AtMostTwo BY DEF RecoveryInv
  <2>4. ~request[w].disturbed /\ ~request[w].enable => Recovering(w)
    BY <2>1 DEF RecoveryInv
  <2>5. ASSUME GiveUp(w), keys' = keys PROVE RecoveryInv'
    <3>1. Recovered' /\ AtMostTwo'
      BY <2>3, <2>5 DEF GiveUp, Recovered, Disabling, AtMostTwo
    <3> QED BY <2>1, <2>5, <3>1, RecoveryEnds DEF GiveUp
  <2>6. CASE ListKeys(w)
    <3>1. UNCHANGED <<user, member, keys, row, disables>> /\ request[w].call = "list_access_keys"
      BY <2>6 DEF ListKeys, At, aws, history
    <3>2. AtMostTwo' BY <2>3, <3>1 DEF AtMostTwo
    <3>3. CASE keys = {} /\ Go(w, "remove_user_from_group")
      <4> DEFINE q == [request[w] EXCEPT !.call = "remove_user_from_group"]
      <4>1. q \in Request /\ Becomes(w, q) BY <2>2, <3>3, UpdatesTyped DEF Go, Call
      <4>2. /\ q.call = "remove_user_from_group" /\ q.access_key_id = request[w].access_key_id
            /\ q.disturbed = request[w].disturbed /\ q.enable = request[w].enable
        BY <2>2 DEF Request
      <4>3. request'[w] = q BY <4>1, BecomesTyped
      <4>4. ~q.disturbed /\ ~q.enable => Recovering(w)'
        BY <2>4, <3>1, <3>3, <4>2, <4>3 DEF Recovering, AtMostOne, Disabling
      <4> QED BY <2>1, <3>2, <4>1, <4>2, <4>4, RecoverySuffices
    <3>4. ASSUME NEW k \in keys,
                 Becomes(w, [request[w] EXCEPT !.call = "delete_access_key", !.victim = k])
          PROVE  RecoveryInv'
      <4> DEFINE q == [request[w] EXCEPT !.call = "delete_access_key", !.victim = k]
      <4>1. q \in Request BY <2>2, UpdatesTyped DEF Call
      <4>2. /\ q.call = "delete_access_key" /\ q.access_key_id = request[w].access_key_id
            /\ q.disturbed = request[w].disturbed /\ q.enable = request[w].enable
            /\ q.victim = k
        BY <2>2 DEF Request
      <4>3. request'[w] = q BY <3>4, <4>1, BecomesTyped
      <4>4. ~q.disturbed /\ ~q.enable => Recovering(w)'
        BY <2>4, <3>1, <3>4, <4>2, <4>3 DEF Recovering, AtMostOne, Disabling
      <4> QED BY <2>1, <3>2, <3>4, <4>1, <4>2, <4>4, RecoverySuffices
    <3> QED BY <2>6, <3>3, <3>4 DEF ListKeys
  <2>7. CASE DeleteKey(w)
    <3> DEFINE q == [request[w] EXCEPT !.call = "remove_user_from_group", !.victim = None]
    <3>1. q \in Request /\ Becomes(w, q) BY <2>2, <2>7, UpdatesTyped DEF DeleteKey, Call
    <3>2. /\ q.call = "remove_user_from_group" /\ q.access_key_id = request[w].access_key_id
          /\ q.disturbed = request[w].disturbed /\ q.enable = request[w].enable
      BY <2>2 DEF Request
    <3>3. request'[w] = q BY <3>1, BecomesTyped
    <3>4. /\ UNCHANGED <<user, member, row, disables>> /\ request[w].call = "delete_access_key"
          /\ keys' = keys \ {request[w].victim}
      BY <2>7 DEF DeleteKey, At, history
    <3>5. AtMostTwo' BY <2>3, <3>4 DEF AtMostTwo
    <3>6. ASSUME ~q.disturbed, ~q.enable PROVE Recovering(w)'
      <4>1. request[w].victim \in keys /\ (Disabling => AtMostOne) /\ request[w].access_key_id = None
        BY <2>4, <3>2, <3>4, <3>6 DEF Recovering
      <4>2. AtMostOne' BY <2>3, <3>4, <4>1 DEF AtMostTwo, AtMostOne
      <4>3. Disabling' => keys' = {} BY <3>4, <4>1 DEF Disabling, AtMostOne
      <4> QED BY <3>2, <3>3, <4>1, <4>2, <4>3 DEF Recovering
    <3> QED BY <2>1, <3>1, <3>2, <3>5, <3>6, RecoverySuffices
  <2>8. CASE LeaveGroup(w)
    <3> DEFINE q == [request[w] EXCEPT !.call = "delete_user"]
    <3>1. q \in Request /\ Becomes(w, q) BY <2>2, <2>8, UpdatesTyped DEF LeaveGroup, Go, Call
    <3>2. /\ q.call = "delete_user" /\ q.access_key_id = request[w].access_key_id
          /\ q.disturbed = request[w].disturbed /\ q.enable = request[w].enable
      BY <2>2 DEF Request
    <3>3. request'[w] = q BY <3>1, BecomesTyped
    <3>4. /\ UNCHANGED <<user, keys, row, disables>> /\ request[w].call = "remove_user_from_group"
          /\ ~member'
      BY <2>8 DEF LeaveGroup, At, history
    <3>5. AtMostTwo' BY <2>3, <3>4 DEF AtMostTwo
    <3>6. ~q.disturbed /\ ~q.enable => Recovering(w)'
      BY <2>4, <3>2, <3>3, <3>4 DEF Recovering, AtMostOne, Disabling
    <3> QED BY <2>1, <3>1, <3>2, <3>5, <3>6, RecoverySuffices
  <2>9. CASE DeleteUser(w)
    <3> DEFINE c == IF request[w].enable THEN "list_users" ELSE "load"
               q == [request[w] EXCEPT !.call = c]
    <3>1. q \in Request /\ Becomes(w, q) BY <2>2, <2>9, UpdatesTyped DEF DeleteUser, Go, Call
    <3>2. /\ q.call = c /\ q.access_key_id = request[w].access_key_id
          /\ q.disturbed = request[w].disturbed /\ q.enable = request[w].enable
      BY <2>2 DEF Request
    <3>3. request'[w] = q BY <3>1, BecomesTyped
    <3>4. UNCHANGED <<member, keys, row, disables>> /\ request[w].call = "delete_user"
      BY <2>9 DEF DeleteUser, At, history
    <3>5. (keys = {} /\ ~member) => ~user'
      BY <2>9, Zenon DEF DeleteUser
    <3>6. AtMostTwo' BY <2>3, <3>4 DEF AtMostTwo
    <3>7. ASSUME ~q.disturbed, ~q.enable PROVE Recovering(w)'
      <4>1. Recovering(w) BY <2>4, <3>2, <3>7
      <4>2. q.call = "load" BY <3>2, <3>7
      <4> QED BY <4>1, <4>2, <3>2, <3>3, <3>4, <3>5 DEF Recovering, AtMostOne, Disabling
    <3>8. q.call # "idle" BY <3>2
    <3> QED BY <2>1, <3>1, <3>2, <3>6, <3>7, <3>8, RecoverySuffices
  <2>10. ASSUME NEW c \in Call \ {"idle"}, Go(w, c), AtMostTwo',
                request[w].call \in {"list_users", "create_user", "add_user_to_group"}
         PROVE  RecoveryInv'
    <3> DEFINE q == [request[w] EXCEPT !.call = c]
    <3>1. q \in Request /\ Becomes(w, q) BY <2>2, <2>10, UpdatesTyped DEF Go
    <3>2. q.call = c /\ q.disturbed = request[w].disturbed /\ q.enable = request[w].enable
      BY <2>2 DEF Request
    <3>3. ~(~q.disturbed /\ ~q.enable) BY <2>4, <2>10, <3>2 DEF Recovering
    <3> QED BY <2>1, <2>10, <3>1, <3>2, <3>3, RecoverySuffices
  <2>11. CASE ListUsers(w)
    <3>1. AtMostTwo' BY <2>3, <2>11 DEF ListUsers, AtMostTwo, aws
    <3> QED BY <2>10, <2>11, <3>1 DEF ListUsers, At, Call
  <2>12. CASE CreateUser(w) \/ JoinGroup(w)
    <3>1. keys' = keys BY <2>12 DEF CreateUser, JoinGroup
    <3>2. AtMostTwo' BY <2>3, <3>1 DEF AtMostTwo
    <3> QED BY <2>5, <2>10, <2>12, <3>1, <3>2 DEF CreateUser, JoinGroup, At, Call
  <2>13. CASE CreateKey(w)
    <3>1. CASE ~(user /\ ~TwoKeys) BY <2>5, <2>13, <3>1 DEF CreateKey
    <3>2. CASE user /\ ~TwoKeys
      <4>1. PICK k \in Key :
              /\ keys' = keys \cup {k}
              /\ Becomes(w, [request[w] EXCEPT !.call = "load", !.access_key_id = k])
        BY <2>13, <3>2 DEF CreateKey
      <4> DEFINE q == [request[w] EXCEPT !.call = "load", !.access_key_id = k]
      <4>2. q \in Request BY <2>2, UpdatesTyped DEF Call
      <4>3. q.call = "load" /\ q.disturbed = request[w].disturbed /\ q.enable = request[w].enable
        BY <2>2 DEF Request
      <4>4. request[w].call = "create_access_key" BY <2>13 DEF CreateKey, At
      <4>5. ~(~q.disturbed /\ ~q.enable) BY <2>4, <4>3, <4>4 DEF Recovering
      <4>6. AtMostTwo' BY <3>2, <4>1 DEF TwoKeys, AtMostTwo
      <4> QED BY <2>1, <4>1, <4>2, <4>3, <4>5, <4>6, RecoverySuffices
    <3> QED BY <3>1, <3>2
  <2>14. CASE Load(w)
    <3> DEFINE q == [request[w] EXCEPT !.call = "commit", !.loaded = row]
    <3>1. q \in Request /\ Becomes(w, q) BY <2>2, <2>14, UpdatesTyped DEF Load, Call
    <3>2. /\ q.call = "commit" /\ q.access_key_id = request[w].access_key_id
          /\ q.disturbed = request[w].disturbed /\ q.enable = request[w].enable
          /\ q.loaded = row
      BY <2>2 DEF Request
    <3>3. request'[w] = q BY <3>1, BecomesTyped
    <3>4. UNCHANGED <<user, member, keys, row, disables>> /\ request[w].call = "load"
      BY <2>14 DEF Load, At, aws, history
    <3>5. AtMostTwo' BY <2>3, <3>4 DEF AtMostTwo
    <3>6. ~q.disturbed /\ ~q.enable => Recovering(w)'
      BY <2>4, <3>2, <3>3, <3>4 DEF Recovering, AtMostOne, Disabling
    <3> QED BY <2>1, <3>1, <3>2, <3>5, <3>6, RecoverySuffices
  <2>15. CASE Commit(w)
    <3>1. CASE row.exists /\ ~request[w].loaded.exists
      BY <2>5, <2>15, <3>1 DEF Commit, aws
    <3>2. CASE ~(row.exists /\ ~request[w].loaded.exists)
      <4>1. /\ Becomes(w, Idle) /\ disables' = Counted(w)
            /\ UNCHANGED <<user, member, keys>> /\ request[w].call = "commit"
            /\ row'.enabled = Written(request[w].loaded.enabled, request[w].enable, row.enabled)
            /\ row'.key = Written(request[w].loaded.key, request[w].access_key_id, row.key)
        BY <2>15, <3>2 DEF Commit, At, aws
      <4>2. AtMostTwo' BY <2>3, <4>1 DEF AtMostTwo
      <4>3. ASSUME Disabling'
            PROVE  /\ AtMostOne'
                   /\ disables' = 2 =>
                        ~user' /\ keys' = {} /\ ~row'.enabled /\ row'.key = None
        <5>1. /\ ~request[w].disturbed /\ ~request[w].enable
              /\ disables' = 2 => Disabling
          BY <4>1, <4>3 DEF Disabling, Counted, TypeOK, Request
        <5>2. Recovering(w) BY <2>4, <5>1
        <5>3. request[w].loaded = row /\ request[w].access_key_id = None
          BY <4>1, <5>2 DEF Recovering
        <5>4. ~row'.enabled /\ row'.key = None BY <4>1, <5>1, <5>3 DEF Written
        <5>5. AtMostOne' BY <4>1, <5>2 DEF Recovering, AtMostOne
        <5>6. disables' = 2 => ~user' /\ keys' = {}
          BY <4>1, <5>1, <5>2 DEF Recovering
        <5> QED BY <5>4, <5>5, <5>6
      <4> QED BY <2>1, <4>1, <4>2, <4>3, RecoveryEnds DEF Recovered
    <3> QED BY <3>1, <3>2
  <2>16. CASE Swallow(w)
    <3> DEFINE q == [request[w] EXCEPT !.call = AfterFailed(w), !.victim = None,
                                       !.disturbed = TRUE]
    <3>1. AfterFailed(w) \in Call \ {"idle"} BY DEF AfterFailed, Call
    <3>2. q \in Request /\ Becomes(w, q) BY <2>2, <2>16, <3>1, UpdatesTyped DEF Swallow
    <3>3. q.call # "idle" /\ q.disturbed BY <2>2, <3>1 DEF Request
    <3>4. AtMostTwo' BY <2>3, <2>16 DEF Swallow, AtMostTwo, aws
    <3> QED BY <2>1, <3>2, <3>3, <3>4, RecoverySuffices
  <2>17. CASE Die(w) BY <2>5, <2>17 DEF Die, aws
  <2> QED
    BY <1>3, <2>6, <2>7, <2>8, <2>9, <2>11, <2>12, <2>13, <2>14, <2>15, <2>16, <2>17 DEF Step
<1> QED BY <1>1, <1>2, <1>3 DEF Next

\* Whatever requests overlap and calls fail before, two undisturbed disables in a row
\* leave neither a key nor the user at AWS, and a record that says so.
THEOREM DisablingTwiceRevokes == Spec => []TwoDisablesRevoke
<1>1. Init => RecoveryInv /\ TypeOK BY RecoveryInitially, TypeInitially
<1>2. RecoveryInv /\ TypeOK /\ [Next]_vars => (RecoveryInv /\ TypeOK)'
  BY RecoveryInductive, TypeInductive
<1>3. RecoveryInv => TwoDisablesRevoke
  BY DEF RecoveryInv, TwoDisablesRevoke, Recovered, Disabling
<1> QED BY <1>1, <1>2, <1>3, PTL DEF Spec
=============================================================================
