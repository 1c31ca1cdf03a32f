--------------------------- MODULE TicketsProofs ----------------------------
(***************************************************************************)
(* Proofs about Tickets, for any users, sessions and texts.                *)
(***************************************************************************)
EXTENDS Tickets, FiniteSetTheorems, TLAPS

\* A started, advanced or finished request is a request.
LEMMA IdleIsRequest == Idle \in Request
BY DEF Idle, Request, Operation, Status

LEMMA BegunIsRequest ==
  ASSUME NEW op \in Operation
  PROVE  Begun(op) \in Request /\ Begun(op).op = op /\ Begun(op).stage = 1
BY DEF Begun, Idle, Request, Operation, Status

\* What TypeOK says of one request.
LEMMA StartTyped ==
  ASSUME TypeOK, NEW q \in Session, NEW req \in Request, Start(q, req),
         req.op = "assign" => req.arg \in User,
         req.op = "edit" => req.arg \in Content /\ req.stage = 1
  PROVE  TypeOK'
<1>1. request' \in [Session -> Request] /\ request' = [request EXCEPT ![q] = req]
  BY DEF TypeOK, Start
<1>2. \A p \in Session : request'[p] = IF p = q THEN req ELSE request[p]
  BY <1>1 DEF TypeOK
<1> QED BY <1>1, <1>2 DEF TypeOK, Start, core, text, meta

\* Every step keeps the types.
LEMMA TypeInductive == TypeOK /\ [Next]_vars => TypeOK'
<1> SUFFICES ASSUME TypeOK, [Next]_vars PROVE TypeOK' OBVIOUS
<1> USE TicketsAssumption
<1>1. CASE UNCHANGED vars
  BY <1>1 DEF TypeOK, vars, core, text, meta
<1>2. ASSUME NEW q \in Session, NEW c \in Content, Create(q, c) PROVE TypeOK'
  BY <1>2 DEF TypeOK, Create, Status, Action
<1>3. ASSUME NEW q \in Session, Delete(q) PROVE TypeOK'
  BY <1>3 DEF TypeOK, Delete, core, text
<1>4. ASSUME NEW q \in Session, NEW c \in Content, EditLoad(q, c) PROVE TypeOK'
  <2> DEFINE req == [Begun("edit") EXCEPT !.arg = c]
  <2>1. req \in Request /\ req.op = "edit" /\ req.arg = c /\ req.stage = 1
    BY DEF Begun, Idle, Request, Operation, Status
  <2>2. Start(q, req) BY <1>4 DEF EditLoad
  <2> QED BY <2>1, <2>2, StartTyped
<1>5. ASSUME NEW q \in Session, ClaimLoad(q) PROVE TypeOK'
  BY <1>5 DEF TypeOK, ClaimLoad, Start, Begun, Idle, Request, Operation, Status,
              core, text, meta
<1>6. ASSUME NEW q \in Session, ReleaseLoad(q) PROVE TypeOK'
  BY <1>6 DEF TypeOK, ReleaseLoad, Start, Begun, Idle, Request, Operation, Status,
              core, text, meta
<1>7. ASSUME NEW q \in Session, NEW u \in User, AssignLoad(q, u) PROVE TypeOK'
  BY <1>7 DEF TypeOK, AssignLoad, Start, Begun, Idle, Request, Operation, Status,
              core, text, meta
<1>8. ASSUME NEW q \in Session, CloseLoad(q) \/ ReopenLoad(q) PROVE TypeOK'
  <2>1. Start(q, Begun("close")) \/ Start(q, Begun("reopen"))
    BY <1>8 DEF CloseLoad, ReopenLoad
  <2> QED BY <2>1, BegunIsRequest, StartTyped DEF Operation
<1>9. ASSUME NEW q \in Session, ReplyLoad(q) \/ SubscribeLoad(q) PROVE TypeOK'
  <2> DEFINE req == [Begun("reply") EXCEPT !.subscribed = subscriptions[UserOf[q]] > 0]
  <2>1. req \in Request /\ req.op = "reply"
    <3>1. (subscriptions[UserOf[q]] > 0) \in BOOLEAN OBVIOUS
    <3>2. Begun("reply") \in Request /\ Begun("reply").op = "reply"
      BY BegunIsRequest DEF Operation
    <3> HIDE DEF req
    <3>3. \A b \in BOOLEAN : [Begun("reply") EXCEPT !.subscribed = b] \in Request
      BY <3>2 DEF Request
    <3>4. \A b \in BOOLEAN : [Begun("reply") EXCEPT !.subscribed = b].op = "reply"
      BY <3>2 DEF Request
    <3> QED BY <3>1, <3>3, <3>4 DEF req
  <2>2. Start(q, req) \/ Start(q, Begun("subscribe"))
    BY <1>9 DEF ReplyLoad, SubscribeLoad
  <2> QED BY <2>1, <2>2, BegunIsRequest, StartTyped DEF Operation
<1>10. ASSUME NEW q \in Session, Unsubscribe(q) PROVE TypeOK'
  BY <1>10 DEF TypeOK, Unsubscribe, core, text, meta
<1>11. ASSUME NEW q \in Session, ClaimCommit(q) PROVE TypeOK'
  BY <1>11 DEF TypeOK, ClaimCommit, Reached, Update, Advance, Begun, Idle, Request,
               Operation, Status, text, meta
<1>12. ASSUME NEW q \in Session, ReleaseCommit(q) PROVE TypeOK'
  BY <1>12 DEF TypeOK, ReleaseCommit, Reached, Update, Advance, Begun, Idle, Request,
               Operation, Status, text, meta
<1>13. ASSUME NEW q \in Session, RecordAction(q) PROVE TypeOK'
  BY <1>13, IdleIsRequest DEF TypeOK, RecordAction, Reached, Finish, Idle, Action,
               core, text, meta
<1>14. ASSUME NEW q \in Session, AssignCommit(q) PROVE TypeOK'
  <2>1. request[q] \in Request /\ request[q].arg \in User
    BY <1>14 DEF TypeOK, AssignCommit, Reached
  <2>2. (subscriptions[request[q].arg] > 0) \in BOOLEAN
    OBVIOUS
  <2>3. request' \in [Session -> Request]
    BY <1>14, <2>1, <2>2 DEF TypeOK, AssignCommit, Request, Status
  <2>4. \A p \in Session : request'[p].op = request[p].op /\ request'[p].arg = request[p].arg
    BY <1>14, <2>1 DEF TypeOK, AssignCommit, Request
  <2>5. \A p \in Session : p # q => request'[p] = request[p]
    BY <1>14 DEF TypeOK, AssignCommit
  <2>6. request[q].op = "assign"
    BY <1>14 DEF AssignCommit, Reached
  <2>7. \A p \in Session :
          /\ request'[p].op = "assign" => request'[p].arg \in User
          /\ request'[p].op = "edit" =>
               /\ request'[p].arg \in Content
               /\ request'[p].stage = 2 => request'[p].description \in Content
    BY <2>4, <2>5, <2>6 DEF TypeOK
  <2> QED BY <1>14, <2>1, <2>3, <2>7 DEF TypeOK, AssignCommit, Update, Status, Action, text, meta
<1>15. ASSUME NEW q \in Session, AssignSubscribe(q) PROVE TypeOK'
  BY <1>15, IdleIsRequest DEF TypeOK, AssignSubscribe, Reached, Finish, Idle,
               core, text, meta
<1>16. ASSUME NEW q \in Session, RecordFirst(q) PROVE TypeOK'
  BY <1>16 DEF TypeOK, RecordFirst, Reached, Advance, Begun, Idle, Request,
               Operation, Status, Action, core, text, meta
<1>17. ASSUME NEW q \in Session, CloseCommit(q) \/ ReopenCommit(q) PROVE TypeOK'
  <2>1. CASE CloseCommit(q)
    BY <2>1, IdleIsRequest DEF TypeOK, CloseCommit, Finish, Idle, Status, text, meta
  <2>2. CASE ReopenCommit(q)
    BY <2>2, IdleIsRequest DEF TypeOK, ReopenCommit, Finish, Idle, Status, text, meta
  <2> QED BY <1>17, <2>1, <2>2
<1>18. ASSUME NEW q \in Session, EditReload(q) PROVE TypeOK'
  <2>1. description \in Content
    BY <1>18 DEF TypeOK, EditReload, Reached
  <2>2. request' = [request EXCEPT ![q].stage = 2, ![q].status = status,
                                   ![q].description = description]
    BY <1>18 DEF EditReload
  <2>3. request' \in [Session -> Request]
    <3>1. request[q] \in Request /\ status \in Status BY DEF TypeOK
    <3>2. [request[q] EXCEPT !.stage = 2, !.status = status, !.description = description]
            \in Request
      BY <2>1, <3>1 DEF Request
    <3> QED BY <2>2, <3>2 DEF TypeOK
  <2>4. \A p \in Session :
          /\ request'[p].op = request[p].op
          /\ request'[p].arg = request[p].arg
          /\ request'[p].description = IF p = q THEN description ELSE request[p].description
          /\ p # q => request'[p].stage = request[p].stage
    BY <2>2 DEF TypeOK, Request
  <2> QED BY <1>18, <2>1, <2>3, <2>4 DEF TypeOK, EditReload, core, text, meta
<1>19. ASSUME NEW q \in Session, EditCommit(q) PROVE TypeOK'
  <2>1. request[q].arg \in Content /\ request[q].description \in Content
    BY <1>19 DEF TypeOK, EditCommit, Reached
  <2>2. /\ description' \in Content \cup {None}
        /\ exists => description' \in Content
        /\ description' \in Content
    BY <1>19, <2>1 DEF TypeOK, EditCommit, Update, Reached
  <2>3. originals' \subseteq Content /\ written' \subseteq Content
    BY <1>19, <2>1, <2>2 DEF TypeOK, EditCommit
  <2>4. status' \in Status
    BY <1>19 DEF TypeOK, EditCommit, Update, Status
  <2>5. /\ request' \in [Session -> Request]
        /\ \A p \in Session : request'[p] = IF p = q THEN Idle ELSE request[p]
    BY <1>19, IdleIsRequest DEF TypeOK, EditCommit, Finish
  <2>6. Idle.op = "idle" BY DEF Idle
  <2> QED BY <1>19, <2>2, <2>3, <2>4, <2>5, <2>6 DEF TypeOK, EditCommit, meta
<1>20. ASSUME NEW q \in Session, SubscribeCommit(q) PROVE TypeOK'
  BY <1>20, IdleIsRequest DEF TypeOK, SubscribeCommit, Reached, Finish, Idle,
               core, text, meta
<1>21. ASSUME NEW q \in Session, Abandon(q) PROVE TypeOK'
  BY <1>21, IdleIsRequest DEF TypeOK, Abandon, Finish, Idle, core, text, meta
<1> QED BY <1>1, <1>2, <1>3, <1>4, <1>5, <1>6, <1>7, <1>8, <1>9, <1>10, <1>11,
           <1>12, <1>13, <1>14, <1>15, <1>16, <1>17, <1>18, <1>19, <1>20, <1>21
        DEF Next, Begin, Continue

\* Every reachable state of a ticket and of its requests is well typed.
THEOREM TypeCorrect == Spec => []TypeOK
<1>1. Init => TypeOK
  <2> SUFFICES ASSUME Init PROVE TypeOK OBVIOUS
  <2>1. Idle.op = "idle" BY DEF Idle
  <2>2. exists = FALSE BY DEF Init
  <2>3. /\ request \in [Session -> Request]
        /\ \A q \in Session : request[q].op = "idle"
    BY <2>1, IdleIsRequest DEF Init
  <2>4. /\ author \in User \cup {None}
        /\ status \in Status
        /\ assigned \in User \cup {None}
        /\ resolved \in User \cup {None}
        /\ description \in Content \cup {None}
        /\ originals \subseteq Content
        /\ written \subseteq Content
        /\ action \in Action
        /\ subscriptions \in [User -> Nat]
    BY DEF Init, Status, Action
  <2> QED BY <2>2, <2>3, <2>4 DEF TypeOK
<1> QED BY <1>1, TypeInductive, PTL DEF Spec

-----------------------------------------------------------------------------
\* However requests overlap or end, a closed ticket names who resolved it.
THEOREM ClosedHasResolutionHolds == Spec => []ClosedHasResolution
<1>1. Init => ClosedHasResolution
  BY DEF Init, ClosedHasResolution
<1>2. ClosedHasResolution /\ [Next]_vars => ClosedHasResolution'
  <2> SUFFICES ASSUME ClosedHasResolution, [Next]_vars PROVE ClosedHasResolution'
    OBVIOUS
  <2>1. CASE UNCHANGED core
    BY <2>1 DEF core, ClosedHasResolution
  <2>2. ASSUME NEW q \in Session, CloseCommit(q) PROVE ClosedHasResolution'
    <3>1. UserOf[q] # None BY TicketsAssumption
    <3> QED BY <2>2, <3>1 DEF CloseCommit, ClosedHasResolution
  <2>3. ASSUME NEW q \in Session, ReopenCommit(q) PROVE ClosedHasResolution'
    BY <2>3 DEF ReopenCommit, ClosedHasResolution
  <2>4. ASSUME NEW q \in Session, NEW c \in Content, Create(q, c)
        PROVE  ClosedHasResolution'
    BY <2>4 DEF Create, ClosedHasResolution
  <2>5. ASSUME NEW q \in Session,
               ClaimCommit(q) \/ ReleaseCommit(q) \/ AssignCommit(q) \/ EditCommit(q)
        PROVE  ClosedHasResolution'
    BY <2>5 DEF ClaimCommit, ReleaseCommit, AssignCommit, EditCommit, Update,
                ClosedHasResolution
  <2>6. CASE UNCHANGED vars
    BY <2>1, <2>6 DEF vars
  <2>7. ASSUME NEW q \in Session,
               \/ Delete(q) \/ ClaimLoad(q) \/ ReleaseLoad(q) \/ CloseLoad(q)
               \/ ReopenLoad(q) \/ ReplyLoad(q) \/ SubscribeLoad(q) \/ Unsubscribe(q)
               \/ \E c \in Content : EditLoad(q, c)
               \/ \E u \in User : AssignLoad(q, u)
               \/ RecordAction(q) \/ AssignSubscribe(q) \/ RecordFirst(q)
               \/ EditReload(q) \/ SubscribeCommit(q) \/ Abandon(q)
        PROVE  UNCHANGED core
    BY <2>7 DEF Delete, ClaimLoad, ReleaseLoad, CloseLoad, ReopenLoad, ReplyLoad,
                SubscribeLoad, Unsubscribe, EditLoad, AssignLoad, Start, RecordAction,
                AssignSubscribe, RecordFirst, EditReload, SubscribeCommit, Abandon
  <2> QED BY <2>1, <2>2, <2>3, <2>4, <2>5, <2>6, <2>7 DEF Next, Begin, Continue
<1> QED BY <1>1, <1>2, PTL DEF Spec

-----------------------------------------------------------------------------
(***************************************************************************)
(* Subscriptions when requests overlap: the ways a step may change the     *)
(* rows of a user and the requests about to add one.                       *)
(***************************************************************************)
Fewer(u) == /\ subscriptions'[u] <= subscriptions[u]
            /\ Subscribing(u)' \subseteq Subscribing(u)
NoRow(u) == subscriptions'[u] = 0
OneIn(u) == \E q \in Subscribing(u) :
              /\ subscriptions'[u] = subscriptions[u] + 1
              /\ Subscribing(u)' \subseteq Subscribing(u) \ {q}
NoneLeft(u) == subscriptions'[u] \in {0, 1} /\ Subscribing(u)' = {}

\* Each of these ways keeps rows and requests together within the sessions.
LEMMA SubscriptionStep ==
  ASSUME TypeOK, TypeOK', SubscriptionInv, Session # {},
         \A u \in User : Fewer(u) \/ NoRow(u) \/ OneIn(u) \/ NoneLeft(u)
  PROVE  SubscriptionInv'
<1> SUFFICES ASSUME NEW u \in User
             PROVE  subscriptions'[u] + Cardinality(Subscribing(u)') <= Cardinality(Session)
  BY DEF SubscriptionInv
<1> DEFINE S == Subscribing(u)
           T == Subscribing(u)'
<1>1. IsFiniteSet(Session) /\ Cardinality(Session) \in Nat
  BY TicketsAssumption, FS_CardinalityType
<1>2. S \subseteq Session /\ T \subseteq Session
  BY DEF Subscribing
<1>3. IsFiniteSet(S) /\ Cardinality(S) \in Nat /\ IsFiniteSet(T) /\ Cardinality(T) \in Nat
  BY <1>1, <1>2, FS_Subset, FS_CardinalityType
<1>4. subscriptions[u] \in Nat /\ subscriptions'[u] \in Nat
  BY DEF TypeOK
<1>5. subscriptions[u] + Cardinality(S) <= Cardinality(Session)
  BY DEF SubscriptionInv
<1> HIDE DEF S, T
<1>6. CASE Fewer(u)
  <2>1. Cardinality(T) <= Cardinality(S) BY <1>3, <1>6, FS_Subset DEF Fewer, S, T
  <2>2. subscriptions'[u] <= subscriptions[u] BY <1>6 DEF Fewer
  <2> QED BY <1>1, <1>3, <1>4, <1>5, <2>1, <2>2 DEF T
<1>7. CASE NoRow(u)
  <2>1. Cardinality(T) <= Cardinality(Session) BY <1>1, <1>2, FS_Subset
  <2> QED BY <1>1, <1>3, <1>7, <2>1 DEF NoRow, T
<1>8. CASE OneIn(u)
  <2>1. PICK q \in S : subscriptions'[u] = subscriptions[u] + 1 /\ T \subseteq S \ {q}
    BY <1>8 DEF OneIn, S, T
  <2>2. IsFiniteSet(S \ {q}) /\ Cardinality(S \ {q}) = Cardinality(S) - 1
    BY <1>3, <2>1, FS_RemoveElement
  <2>3. Cardinality(T) <= Cardinality(S) - 1
    BY <2>1, <2>2, FS_Subset
  <2> QED BY <1>1, <1>3, <1>4, <1>5, <2>1, <2>3 DEF T
<1>9. CASE NoneLeft(u)
  <2>1. Cardinality(T) = 0 BY <1>9, FS_EmptySet DEF NoneLeft, T
  <2>2. Cardinality(Session) >= 1 BY <1>1, FS_EmptySet
  <2> QED BY <1>1, <1>9, <2>1, <2>2 DEF NoneLeft, T
<1> QED BY <1>6, <1>7, <1>8, <1>9 DEF Fewer, NoRow, OneIn, NoneLeft

\* Changing one request to r changes membership for that request alone.
LEMMA SubscribingAfter ==
  ASSUME TypeOK, NEW q \in Session, NEW r, request' = [request EXCEPT ![q] = r],
         NEW u \in User
  PROVE  /\ Subscribing(u)' \ {q} = Subscribing(u) \ {q}
         /\ r.op \notin {"assign", "reply", "subscribe"} => q \notin Subscribing(u)'
         /\ r.op = "assign" /\ r.stage # 2 => q \notin Subscribing(u)'
         /\ r.op = "assign" /\ r.arg # u => q \notin Subscribing(u)'
         /\ r.op \in {"reply", "subscribe"} /\ UserOf[q] # u => q \notin Subscribing(u)'
         /\ r.subscribed => q \notin Subscribing(u)'
<1>1. request'[q] = r /\ \A p \in Session : p # q => request'[p] = request[p]
  BY DEF TypeOK
<1> QED BY <1>1 DEF Subscribing

\* A step that changes one request to r, which inserts nothing, and no row.
LEMMA QuietStep ==
  ASSUME TypeOK, NEW q \in Session, NEW r, request' = [request EXCEPT ![q] = r],
         subscriptions' = subscriptions, NEW u \in User, q \notin Subscribing(u)'
  PROVE  Fewer(u)
<1>1. Subscribing(u)' \subseteq Subscribing(u) BY SubscribingAfter
<1> QED BY <1>1 DEF Fewer, TypeOK

\* A request that ends, having inserted a row if it was about to.
LEMMA InsertStep ==
  ASSUME TypeOK, NEW q \in Session, Finish(q), NEW v \in User,
         ~request[q].subscribed => q \in Subscribing(v),
         subscriptions' = IF request[q].subscribed THEN subscriptions
                          ELSE [subscriptions EXCEPT ![v] = @ + 1],
         NEW u \in User
  PROVE  Fewer(u) \/ OneIn(u)
<1>1. Idle.op = "idle" BY DEF Idle
<1>2. Subscribing(u)' \subseteq Subscribing(u) \ {q}
  BY <1>1, SubscribingAfter DEF Finish
<1>3. CASE request[q].subscribed \/ u # v
  BY <1>2, <1>3 DEF Fewer, TypeOK
<1>4. CASE ~request[q].subscribed /\ u = v
  BY <1>2, <1>4 DEF OneIn, TypeOK
<1> QED BY <1>3, <1>4

LEMMA SubscriptionInductive ==
  TypeOK /\ TypeOK' /\ SubscriptionInv /\ [Next]_vars => SubscriptionInv'
<1> SUFFICES ASSUME TypeOK, TypeOK', SubscriptionInv, [Next]_vars PROVE SubscriptionInv'
  OBVIOUS
<1> USE TicketsAssumption
<1> DEFINE Way(u) == Fewer(u) \/ NoRow(u) \/ OneIn(u) \/ NoneLeft(u)
<1>1. CASE UNCHANGED vars
  BY <1>1 DEF vars, SubscriptionInv, Subscribing
<1>2. ASSUME NEW q \in Session, NEW c \in Content, Create(q, c), NEW u \in User
      PROVE  Way(u)
  <2>1. Idle.op = "idle" BY DEF Idle
  <2>2. Subscribing(u)' = {} BY <1>2, <2>1 DEF Create, Subscribing
  <2>3. subscriptions'[u] \in {0, 1} BY <1>2 DEF Create
  <2> QED BY <2>2, <2>3 DEF NoneLeft
<1>3. ASSUME NEW q \in Session, Delete(q), NEW u \in User PROVE Way(u)
  BY <1>3 DEF Delete, NoRow
<1>4. ASSUME NEW q \in Session, NEW u \in User,
             NEW r, Start(q, r), r.op \notin {"reply", "subscribe"},
             r.op = "assign" => r.stage # 2
      PROVE  Way(u)
  BY <1>4, SubscribingAfter, QuietStep DEF Start
<1>5. ASSUME NEW q \in Session, NEW u \in User,
             \/ \E c \in Content : EditLoad(q, c)
             \/ ClaimLoad(q) \/ ReleaseLoad(q)
             \/ \E v \in User : AssignLoad(q, v)
             \/ CloseLoad(q) \/ ReopenLoad(q)
      PROVE  Way(u)
  <2>1. ASSUME NEW c \in Content, EditLoad(q, c) PROVE Way(u)
    <3> DEFINE r == [Begun("edit") EXCEPT !.arg = c]
    <3>1. r.op = "edit" BY DEF Begun, Idle
    <3> QED BY <1>4, <2>1, <3>1 DEF EditLoad
  <2>2. CASE ClaimLoad(q)
    <3> DEFINE r == [Begun("claim") EXCEPT !.status = status, !.assigned = assigned]
    <3>1. r.op = "claim" BY DEF Begun, Idle
    <3> QED BY <1>4, <2>2, <3>1 DEF ClaimLoad
  <2>3. CASE ReleaseLoad(q)
    <3> DEFINE r == [Begun("release") EXCEPT !.status = status]
    <3>1. r.op = "release" BY DEF Begun, Idle
    <3> QED BY <1>4, <2>3, <3>1 DEF ReleaseLoad
  <2>4. ASSUME NEW v \in User, AssignLoad(q, v) PROVE Way(u)
    <3> DEFINE r == [Begun("assign") EXCEPT !.status = status, !.arg = v]
    <3>1. r.op = "assign" /\ r.stage = 1 BY DEF Begun, Idle
    <3>2. Start(q, r) BY <2>4 DEF AssignLoad
    <3> HIDE DEF r, Way
    <3> QED BY <1>4, <3>1, <3>2
  <2>5. CASE CloseLoad(q) \/ ReopenLoad(q)
    <3>1. Begun("close").op = "close" /\ Begun("reopen").op = "reopen" BY DEF Begun, Idle
    <3> QED BY <1>4, <2>5, <3>1 DEF CloseLoad, ReopenLoad
  <2> QED BY <1>5, <2>1, <2>2, <2>3, <2>4, <2>5
<1>6. ASSUME NEW q \in Session, NEW u \in User, ReplyLoad(q) PROVE Way(u)
  <2> DEFINE b == subscriptions[UserOf[q]] > 0
             r == [Begun("reply") EXCEPT !.subscribed = b]
  <2>1. request' = [request EXCEPT ![q] = r] /\ subscriptions' = subscriptions
    BY <1>6 DEF ReplyLoad, Start
  <2>2. r.op = "reply" /\ (r.subscribed <=> b)
    <3>1. \A x \in BOOLEAN : [Begun("reply") EXCEPT !.subscribed = x].subscribed = x
      BY DEF Begun, Idle
    <3>2. \A x \in BOOLEAN : [Begun("reply") EXCEPT !.subscribed = x].op = "reply"
      BY DEF Begun, Idle
    <3>3. b \in BOOLEAN OBVIOUS
    <3> QED BY <3>1, <3>2, <3>3
  <2> HIDE DEF r
  <2>3. CASE UserOf[q] # u \/ b
    BY <2>1, <2>2, <2>3, SubscribingAfter, QuietStep
  <2>4. CASE UserOf[q] = u /\ ~b
    BY <2>1, <2>4 DEF NoRow, TypeOK
  <2> QED BY <2>3, <2>4
<1>7. ASSUME NEW q \in Session, NEW u \in User, SubscribeLoad(q) PROVE Way(u)
  <2>1. request' = [request EXCEPT ![q] = Begun("subscribe")]
        /\ subscriptions' = subscriptions /\ subscriptions[UserOf[q]] = 0
    BY <1>7 DEF SubscribeLoad, Start
  <2>2. Begun("subscribe").op = "subscribe" BY DEF Begun, Idle
  <2>3. CASE UserOf[q] # u
    BY <2>1, <2>2, <2>3, SubscribingAfter, QuietStep
  <2>4. CASE UserOf[q] = u
    BY <2>1, <2>4 DEF NoRow
  <2> QED BY <2>3, <2>4
<1>8. ASSUME NEW q \in Session, NEW u \in User, Unsubscribe(q) PROVE Way(u)
  <2>1. Subscribing(u)' = Subscribing(u) BY <1>8 DEF Unsubscribe, Subscribing
  <2>2. CASE UserOf[q] = u BY <1>8, <2>2 DEF Unsubscribe, NoRow, TypeOK
  <2>3. CASE UserOf[q] # u BY <1>8, <2>1, <2>3 DEF Unsubscribe, Fewer, TypeOK
  <2> QED BY <2>2, <2>3
<1>9. ASSUME NEW q \in Session, NEW u \in User,
             ClaimCommit(q) \/ ReleaseCommit(q) \/ RecordFirst(q)
      PROVE  Way(u)
  <2>1. PICK r : /\ request' = [request EXCEPT ![q] = r]
                 /\ r.op \in {"claim", "release", "close", "reopen"}
    BY <1>9 DEF ClaimCommit, ReleaseCommit, RecordFirst, Reached, Advance, Begun, Idle
  <2>2. subscriptions' = subscriptions
    BY <1>9 DEF ClaimCommit, ReleaseCommit, RecordFirst
  <2> QED BY <2>1, <2>2, SubscribingAfter, QuietStep
<1>10. ASSUME NEW q \in Session, NEW u \in User,
              \/ RecordAction(q) \/ CloseCommit(q) \/ ReopenCommit(q) \/ EditCommit(q)
              \/ Abandon(q)
       PROVE  Way(u)
  <2>1. Finish(q) /\ subscriptions' = subscriptions
    BY <1>10 DEF RecordAction, CloseCommit, ReopenCommit, EditCommit, Abandon
  <2>2. Idle.op = "idle" BY DEF Idle
  <2> QED BY <2>1, <2>2, SubscribingAfter, QuietStep DEF Finish
<1>11. ASSUME NEW q \in Session, NEW u \in User, AssignCommit(q) PROVE Way(u)
  <2> DEFINE v == request[q].arg
             b == subscriptions[v] > 0
             r == [request[q] EXCEPT !.stage = 2, !.status = "Open", !.subscribed = b]
  <2>1. request' = [request EXCEPT ![q] = r] /\ subscriptions' = subscriptions
    BY <1>11 DEF AssignCommit, TypeOK
  <2>2. request[q].op = "assign" /\ request[q] \in Request /\ v \in User
    BY <1>11 DEF AssignCommit, Reached, TypeOK
  <2>3. r.op = "assign" /\ r.arg = v /\ (r.subscribed <=> b)
    <3>1. \A x \in BOOLEAN :
            LET y == [request[q] EXCEPT !.stage = 2, !.status = "Open", !.subscribed = x] IN
            y.op = "assign" /\ y.arg = v /\ y.subscribed = x
      BY <2>2 DEF Request
    <3>2. b \in BOOLEAN OBVIOUS
    <3> QED BY <3>1, <3>2
  <2> HIDE DEF r
  <2>4. CASE v # u \/ b
    BY <2>1, <2>3, <2>4, SubscribingAfter, QuietStep
  <2>5. CASE v = u /\ ~b
    BY <2>1, <2>5 DEF NoRow, TypeOK
  <2> QED BY <2>4, <2>5
<1>12. ASSUME NEW q \in Session, NEW u \in User, AssignSubscribe(q) PROVE Way(u)
  <2>1. request[q].arg \in User BY <1>12 DEF AssignSubscribe, Reached, TypeOK
  <2>2. ~request[q].subscribed => q \in Subscribing(request[q].arg)
    BY <1>12 DEF AssignSubscribe, Reached, Subscribing
  <2> QED BY <1>12, <2>1, <2>2, InsertStep DEF AssignSubscribe
<1>13. ASSUME NEW q \in Session, NEW u \in User, SubscribeCommit(q) PROVE Way(u)
  <2>1. ~request[q].subscribed => q \in Subscribing(UserOf[q])
    BY <1>13 DEF SubscribeCommit, Reached, Subscribing
  <2> QED BY <1>13, <2>1, InsertStep DEF SubscribeCommit
<1>14. ASSUME NEW q \in Session, NEW u \in User, EditReload(q) PROVE Way(u)
  <2>1. Subscribing(u)' \subseteq Subscribing(u) /\ subscriptions' = subscriptions
    BY <1>14 DEF EditReload, Reached, Subscribing, TypeOK, Request
  <2> QED BY <2>1 DEF Fewer, TypeOK
<1>15. ASSUME NEW q \in Session, Begin(q) \/ Continue(q) \/ Abandon(q), NEW u \in User
       PROVE  Way(u)
  BY <1>15, <1>2, <1>3, <1>5, <1>6, <1>7, <1>8, <1>9, <1>10, <1>11, <1>12, <1>13, <1>14
     DEF Begin, Continue
<1>16. CASE Next
  BY <1>15, <1>16, SubscriptionStep DEF Next
<1> QED BY <1>1, <1>16

\* However requests overlap, a user has at most as many rows as there are
\* requests in flight at once.
THEOREM DuplicatesBoundedHolds ==
  ASSUME Session # {}
  PROVE  Spec => []DuplicatesBounded
<1>1. Init => SubscriptionInv
  <2> SUFFICES ASSUME Init, NEW u \in User
               PROVE  subscriptions[u] + Cardinality(Subscribing(u)) <= Cardinality(Session)
    BY DEF SubscriptionInv
  <2>1. Idle.op = "idle" BY DEF Idle
  <2>2. Subscribing(u) = {} /\ subscriptions[u] = 0
    BY <2>1 DEF Init, Subscribing
  <2> QED BY <2>2, FS_EmptySet, FS_CardinalityType, TicketsAssumption
<1>2. TypeOK /\ SubscriptionInv => DuplicatesBounded
  <2> SUFFICES ASSUME TypeOK, SubscriptionInv, NEW u \in User
               PROVE  subscriptions[u] <= Cardinality(Session)
    BY DEF DuplicatesBounded
  <2>1. subscriptions[u] \in Nat BY DEF TypeOK
  <2>2. IsFiniteSet(Subscribing(u))
    BY TicketsAssumption, FS_Subset DEF Subscribing
  <2>3. Cardinality(Subscribing(u)) \in Nat /\ Cardinality(Session) \in Nat
    BY <2>2, TicketsAssumption, FS_CardinalityType
  <2> QED BY <2>1, <2>3 DEF SubscriptionInv
<1> QED BY <1>1, <1>2, TypeCorrect, SubscriptionInductive, PTL DEF Spec

-----------------------------------------------------------------------------
(***************************************************************************)
(* Requests that do not overlap.                                           *)
(***************************************************************************)
Alone(q) == \A p \in Session \ {q} : request[p] = Idle

\* A request in flight is the only one, and what it has loaded is current.
LEMMA Solo ==
  ASSUME SerialInv, NEW q \in Session, request[q].op # "idle"
  PROVE  exists /\ Current(q) /\ Alone(q)
<1>1. Idle.op = "idle" BY DEF Idle
<1> QED BY <1>1 DEF SerialInv, Alone

\* A request that ends leaves nothing to say about requests.
LEMMA EndsSerial ==
  ASSUME TypeOK, NEW q \in Session, Alone(q), Finish(q), Consistent'
  PROVE  SerialInv'
<1>1. \A p \in Session : request'[p] = Idle
  BY DEF Alone, Finish, TypeOK
<1> QED BY <1>1 DEF SerialInv

\* A request that begins or goes on must have current values.
LEMMA GoesSerial ==
  ASSUME TypeOK, NEW q \in Session, Alone(q), NEW req,
         request' = [request EXCEPT ![q] = req],
         exists', Current(q)', Consistent'
  PROVE  SerialInv'
<1>1. \A p \in Session : p # q => request'[p] = Idle
  BY DEF Alone, TypeOK
<1> QED BY <1>1 DEF SerialInv

\* The same for the first step of a request, which changes nothing else.
LEMMA StartSerial ==
  ASSUME ~Interleaved, TypeOK, SerialInv, NEW q \in Session, MayStart(q), NEW req,
         Start(q, req), Current(q)'
  PROVE  SerialInv' /\ UNCHANGED <<core, text>>
<1>1. Alone(q) /\ exists BY DEF MayStart, Alone
<1>2. request' = [request EXCEPT ![q] = req] /\ UNCHANGED <<core, text>> /\ exists'
  BY <1>1 DEF Start, meta
<1>3. Consistent'
  BY DEF SerialInv, Consistent, Start, ResolvedIffClosed, InWorkIsAssigned, NoTextLost,
         CanUnsubscribe, core, text, meta
<1> QED BY <1>1, <1>2, <1>3, GoesSerial

\* A step of a ticket that is closed.
Frozen == exists /\ status = "Closed" =>
            \/ \E q \in Session : ReopenCommit(q)
            \/ UNCHANGED core /\ UNCHANGED <<description, originals>>

\* With requests that do not overlap, every step keeps SerialInv and leaves a
\* closed ticket alone unless it reopens it.
LEMMA SerialInductive ==
  ASSUME ~Interleaved
  PROVE  TypeOK /\ SerialInv /\ [Next]_vars => SerialInv' /\ Frozen
<1> SUFFICES ASSUME TypeOK, SerialInv, [Next]_vars PROVE SerialInv' /\ Frozen OBVIOUS
<1> USE TicketsAssumption
<1>1. CASE UNCHANGED vars
  BY <1>1 DEF vars, core, text, meta, SerialInv, Consistent, Current, Frozen,
     ResolvedIffClosed, InWorkIsAssigned, NoTextLost, CanUnsubscribe
<1>2. ASSUME NEW q \in Session, NEW c \in Content, Create(q, c)
      PROVE  SerialInv' /\ Frozen
  <2>1. \A p \in Session : request'[p] = Idle
    BY <1>2 DEF Create
  <2>2. Consistent'
    BY <1>2 DEF Create, Consistent, ResolvedIffClosed, InWorkIsAssigned, NoTextLost,
       CanUnsubscribe
  <2> QED BY <1>2, <2>1, <2>2 DEF SerialInv, Create, Frozen
<1>3. ASSUME NEW q \in Session, Delete(q) PROVE SerialInv' /\ Frozen
  <2>1. \A p \in Session : request'[p] = Idle
    BY <1>3 DEF Delete, MayStart
  <2>2. Consistent'
    <3>1. ResolvedIffClosed' /\ InWorkIsAssigned'
      BY <1>3 DEF Delete, SerialInv, Consistent, ResolvedIffClosed, InWorkIsAssigned, core
    <3>2. NoTextLost' BY <1>3 DEF Delete, NoTextLost
    <3>3. CanUnsubscribe' BY <1>3 DEF Delete, CanUnsubscribe
    <3> QED BY <3>1, <3>2, <3>3 DEF Consistent
  <2> QED BY <1>3, <2>1, <2>2 DEF SerialInv, Delete, Frozen, text
<1>4. ASSUME NEW q \in Session, NEW c \in Content, EditLoad(q, c)
      PROVE  SerialInv' /\ Frozen
  <2> DEFINE req == [Begun("edit") EXCEPT !.arg = c]
  <2>1. MayStart(q) /\ Start(q, req) BY <1>4 DEF EditLoad
  <2>2. request'[q] = req /\ status' = status
    BY <2>1 DEF Start, TypeOK, core
  <2>3. req.op = "edit" /\ req.stage = 1
    BY DEF Begun, Idle
  <2>4. Current(q)'
    BY <1>4, <2>2, <2>3 DEF Current, EditLoad
  <2> QED BY <2>1, <2>4, StartSerial DEF Frozen, text
<1>5. ASSUME NEW q \in Session, ClaimLoad(q) PROVE SerialInv' /\ Frozen
  <2> DEFINE req == [Begun("claim") EXCEPT !.status = status, !.assigned = assigned]
  <2>1. MayStart(q) /\ Start(q, req) BY <1>5 DEF ClaimLoad
  <2>2. request'[q] = req /\ status' = status /\ assigned' = assigned
    BY <2>1 DEF Start, TypeOK, core
  <2>3. req.op = "claim" /\ req.status = status /\ req.assigned = assigned
    BY DEF Begun, Idle
  <2>4. Current(q)'
    BY <1>5, <2>2, <2>3 DEF Current, ClaimLoad
  <2> QED BY <2>1, <2>4, StartSerial DEF Frozen, text
<1>6. ASSUME NEW q \in Session, ReleaseLoad(q) PROVE SerialInv' /\ Frozen
  <2> DEFINE req == [Begun("release") EXCEPT !.status = status]
  <2>1. MayStart(q) /\ Start(q, req) BY <1>6 DEF ReleaseLoad
  <2>2. request'[q] = req /\ status' = status
    BY <2>1 DEF Start, TypeOK, core
  <2>3. req.op = "release" /\ req.status = status
    BY DEF Begun, Idle
  <2>4. Current(q)'
    BY <1>6, <2>2, <2>3 DEF Current, ReleaseLoad
  <2> QED BY <2>1, <2>4, StartSerial DEF Frozen, text
<1>7. ASSUME NEW q \in Session, NEW u \in User, AssignLoad(q, u)
      PROVE  SerialInv' /\ Frozen
  <2> DEFINE req == [Begun("assign") EXCEPT !.status = status, !.arg = u]
  <2>1. MayStart(q) /\ Start(q, req) BY <1>7 DEF AssignLoad
  <2>2. request'[q] = req /\ status' = status
    BY <2>1 DEF Start, TypeOK, core
  <2>3. req.op = "assign" /\ req.status = status /\ req.stage = 1
    BY DEF Begun, Idle
  <2>4. Current(q)'
    BY <1>7, <2>2, <2>3 DEF Current, AssignLoad
  <2> QED BY <2>1, <2>4, StartSerial DEF Frozen, text
<1>8. ASSUME NEW q \in Session, CloseLoad(q) PROVE SerialInv' /\ Frozen
  <2>1. MayStart(q) /\ Start(q, Begun("close")) BY <1>8 DEF CloseLoad
  <2>2. request'[q] = Begun("close") /\ status' = status
    BY <2>1 DEF Start, TypeOK, core
  <2>3. Begun("close").op = "close" BY DEF Begun, Idle
  <2>4. Current(q)'
    BY <1>8, <2>2, <2>3 DEF Current, CloseLoad
  <2> QED BY <2>1, <2>4, StartSerial DEF Frozen, text
<1>9. ASSUME NEW q \in Session, ReopenLoad(q) PROVE SerialInv' /\ Frozen
  <2>1. MayStart(q) /\ Start(q, Begun("reopen")) BY <1>9 DEF ReopenLoad
  <2>2. request'[q] = Begun("reopen")
    BY <2>1 DEF Start, TypeOK
  <2>3. Begun("reopen").op = "reopen" BY DEF Begun, Idle
  <2>4. Current(q)'
    BY <2>2, <2>3 DEF Current
  <2> QED BY <2>1, <2>4, StartSerial DEF Frozen, text
<1>10. ASSUME NEW q \in Session, ReplyLoad(q) PROVE SerialInv' /\ Frozen
  <2> DEFINE req == [Begun("reply") EXCEPT !.subscribed = subscriptions[UserOf[q]] > 0]
  <2>1. MayStart(q) /\ Start(q, req) BY <1>10 DEF ReplyLoad
  <2>2. request'[q] = req /\ subscriptions' = subscriptions
    BY <2>1 DEF Start, TypeOK
  <2>3. req.op = "reply" /\ (req.subscribed <=> subscriptions[UserOf[q]] > 0)
    <3>1. \A b \in BOOLEAN : [Begun("reply") EXCEPT !.subscribed = b].subscribed = b
      BY DEF Begun, Idle
    <3>2. \A b \in BOOLEAN : [Begun("reply") EXCEPT !.subscribed = b].op = "reply"
      BY DEF Begun, Idle
    <3>3. (subscriptions[UserOf[q]] > 0) \in BOOLEAN OBVIOUS
    <3> QED BY <3>1, <3>2, <3>3
  <2>4. Current(q)'
    BY <2>2, <2>3 DEF Current
  <2> QED BY <2>1, <2>4, StartSerial DEF Frozen, text
<1>11. ASSUME NEW q \in Session, SubscribeLoad(q) PROVE SerialInv' /\ Frozen
  <2>1. MayStart(q) /\ Start(q, Begun("subscribe")) BY <1>11 DEF SubscribeLoad
  <2>2. request'[q] = Begun("subscribe") /\ subscriptions' = subscriptions
    BY <2>1 DEF Start, TypeOK
  <2>3. Begun("subscribe").op = "subscribe" /\ ~Begun("subscribe").subscribed
    BY DEF Begun, Idle
  <2>4. Current(q)'
    BY <1>11, <2>2, <2>3 DEF Current, SubscribeLoad
  <2> QED BY <2>1, <2>4, StartSerial DEF Frozen, text
<1>12. ASSUME NEW q \in Session, Unsubscribe(q) PROVE SerialInv' /\ Frozen
  <2>1. \A p \in Session : request'[p] = Idle
    BY <1>12 DEF Unsubscribe, MayStart
  <2>2. Consistent'
    <3>1. ResolvedIffClosed' /\ InWorkIsAssigned' /\ NoTextLost'
      BY <1>12 DEF Unsubscribe, SerialInv, Consistent, ResolvedIffClosed,
         InWorkIsAssigned, NoTextLost, core, text, meta
    <3>2. CanUnsubscribe'
      BY <1>12 DEF Unsubscribe, SerialInv, Consistent, CanUnsubscribe, TypeOK
    <3> QED BY <3>1, <3>2 DEF Consistent
  <2> QED BY <1>12, <2>1, <2>2 DEF SerialInv, Unsubscribe, Frozen, text
<1>13. ASSUME NEW q \in Session, ClaimCommit(q) PROVE SerialInv' /\ Frozen
  <2>1. request[q].op = "claim" /\ request[q].stage = 1
    BY <1>13 DEF ClaimCommit, Reached
  <2>2. exists /\ Current(q) /\ Alone(q) BY <2>1, Solo
  <2>3. status # "Closed" /\ status' = "In Work" /\ assigned' = UserOf[q]
    BY <1>13, <2>1, <2>2 DEF ClaimCommit, Current, Update
  <2>4. Consistent'
    BY <1>13, <2>3 DEF ClaimCommit, SerialInv, Consistent, ResolvedIffClosed,
       InWorkIsAssigned, NoTextLost, CanUnsubscribe, text, meta
  <2>5. Current(q)'
    <3>1. request'[q].op = "claim" /\ request'[q].stage = 2
      BY <1>13, <2>1 DEF ClaimCommit, Advance, Begun, Idle, TypeOK
    <3> QED BY <3>1 DEF Current
  <2>6. exists' BY <1>13, <2>2 DEF ClaimCommit, meta
  <2> QED BY <1>13, <2>2, <2>3, <2>4, <2>5, <2>6, GoesSerial
          DEF ClaimCommit, Advance, Frozen
<1>14. ASSUME NEW q \in Session, ReleaseCommit(q) PROVE SerialInv' /\ Frozen
  <2>1. request[q].op = "release" /\ request[q].stage = 1
    BY <1>14 DEF ReleaseCommit, Reached
  <2>2. exists /\ Current(q) /\ Alone(q) BY <2>1, Solo
  <2>3. status # "Closed" /\ status' = "Open"
    BY <1>14, <2>1, <2>2 DEF ReleaseCommit, Current, Update
  <2>4. Consistent'
    BY <1>14, <2>3 DEF ReleaseCommit, SerialInv, Consistent, ResolvedIffClosed,
       InWorkIsAssigned, NoTextLost, CanUnsubscribe, text, meta
  <2>5. Current(q)'
    <3>1. request'[q].op = "release" /\ request'[q].stage = 2
      BY <1>14, <2>1 DEF ReleaseCommit, Advance, Begun, Idle, TypeOK
    <3> QED BY <3>1 DEF Current
  <2>6. exists' BY <1>14, <2>2 DEF ReleaseCommit, meta
  <2> QED BY <1>14, <2>2, <2>3, <2>4, <2>5, <2>6, GoesSerial
          DEF ReleaseCommit, Advance, Frozen
<1>15. ASSUME NEW q \in Session, RecordAction(q) PROVE SerialInv' /\ Frozen
  <2>1. Alone(q) BY <1>15, Solo DEF RecordAction, Reached
  <2>2. Consistent'
    BY <1>15 DEF RecordAction, SerialInv, Consistent, ResolvedIffClosed,
       InWorkIsAssigned, NoTextLost, CanUnsubscribe, core, text, meta
  <2> QED BY <1>15, <2>1, <2>2, EndsSerial DEF RecordAction, Frozen, text
<1>16. ASSUME NEW q \in Session, AssignCommit(q) PROVE SerialInv' /\ Frozen
  <2> DEFINE r == request[q]
             b == subscriptions[r.arg] > 0
             req == [r EXCEPT !.stage = 2, !.status = "Open", !.subscribed = b]
  <2>1. r.op = "assign" /\ r.stage = 1 /\ r.arg \in User /\ r \in Request
    BY <1>16 DEF AssignCommit, Reached, TypeOK
  <2>2. exists /\ Current(q) /\ Alone(q) BY <2>1, Solo
  <2>3. status # "Closed" /\ status' = "In Work" /\ assigned' # None
    BY <1>16, <2>1, <2>2 DEF AssignCommit, Current, Update
  <2>4. Consistent'
    BY <1>16, <2>3 DEF AssignCommit, SerialInv, Consistent, ResolvedIffClosed,
       InWorkIsAssigned, NoTextLost, CanUnsubscribe, text, meta
  <2>5. request' = [request EXCEPT ![q] = req] /\ subscriptions' = subscriptions
    BY <1>16 DEF AssignCommit, TypeOK
  <2>6. request'[q] = req BY <2>5 DEF TypeOK
  <2>7. req.op = "assign" /\ req.arg = r.arg /\ req.stage = 2 /\ (req.subscribed <=> b)
    <3>1. b \in BOOLEAN OBVIOUS
    <3>2. \A x \in BOOLEAN :
            LET y == [r EXCEPT !.stage = 2, !.status = "Open", !.subscribed = x] IN
            y.op = "assign" /\ y.arg = r.arg /\ y.stage = 2 /\ y.subscribed = x
      BY <2>1 DEF Request
    <3> QED BY <3>1, <3>2
  <2>8. Current(q)'
    <3>1. /\ request'[q].op = "assign" /\ request'[q].stage = 2
          /\ request'[q].subscribed <=> subscriptions'[request'[q].arg] > 0
      BY <2>5, <2>6, <2>7
    <3> QED BY <3>1 DEF Current
  <2>9. exists' BY <1>16, <2>2 DEF AssignCommit, meta
  <2> QED BY <2>2, <2>3, <2>4, <2>5, <2>8, <2>9, GoesSerial DEF Frozen
<1>17. ASSUME NEW q \in Session, AssignSubscribe(q) PROVE SerialInv' /\ Frozen
  <2>1. request[q].op = "assign" /\ request[q].stage = 2 /\ request[q].arg \in User
    BY <1>17 DEF AssignSubscribe, Reached, TypeOK
  <2>2. Current(q) /\ Alone(q) BY <2>1, Solo
  <2>3. request[q].subscribed <=> subscriptions[request[q].arg] > 0
    BY <2>1, <2>2 DEF Current
  <2>4. CanUnsubscribe'
    BY <1>17, <2>1, <2>3 DEF AssignSubscribe, CanUnsubscribe, SerialInv, Consistent, TypeOK
  <2>5. Consistent'
    BY <1>17, <2>4 DEF AssignSubscribe, SerialInv, Consistent, ResolvedIffClosed,
       InWorkIsAssigned, NoTextLost, core, text, meta
  <2> QED BY <1>17, <2>2, <2>5, EndsSerial DEF AssignSubscribe, Frozen, text
<1>18. ASSUME NEW q \in Session, RecordFirst(q) PROVE SerialInv' /\ Frozen
  <2>1. request[q].op \in {"close", "reopen"}
    BY <1>18 DEF RecordFirst, Reached
  <2>2. exists /\ Current(q) /\ Alone(q) BY <2>1, Solo
  <2>3. Consistent'
    BY <1>18 DEF RecordFirst, SerialInv, Consistent, ResolvedIffClosed,
       InWorkIsAssigned, NoTextLost, CanUnsubscribe, core, text, meta
  <2>4. request'[q].op = request[q].op
    BY <1>18 DEF RecordFirst, Advance, Begun, Idle, TypeOK
  <2>5. Current(q)'
    BY <1>18, <2>1, <2>2, <2>4 DEF RecordFirst, Current, core
  <2>6. exists' BY <1>18, <2>2 DEF RecordFirst, meta
  <2> QED BY <1>18, <2>2, <2>3, <2>5, <2>6, GoesSerial
          DEF RecordFirst, Advance, Frozen, text
<1>19. ASSUME NEW q \in Session, CloseCommit(q) PROVE SerialInv' /\ Frozen
  <2>1. request[q].op = "close" BY <1>19 DEF CloseCommit, Reached
  <2>2. Current(q) /\ Alone(q) BY <2>1, Solo
  <2>3. status # "Closed" BY <2>1, <2>2 DEF Current
  <2>4. Consistent'
    BY <1>19 DEF CloseCommit, SerialInv, Consistent, ResolvedIffClosed,
       InWorkIsAssigned, NoTextLost, CanUnsubscribe, text, meta
  <2> QED BY <1>19, <2>2, <2>3, <2>4, EndsSerial DEF CloseCommit, Frozen
<1>20. ASSUME NEW q \in Session, ReopenCommit(q) PROVE SerialInv' /\ Frozen
  <2>1. Alone(q) BY <1>20, Solo DEF ReopenCommit, Reached
  <2>2. Consistent'
    BY <1>20 DEF ReopenCommit, SerialInv, Consistent, ResolvedIffClosed,
       InWorkIsAssigned, NoTextLost, CanUnsubscribe, text, meta
  <2> QED BY <1>20, <2>1, <2>2, EndsSerial DEF ReopenCommit, Frozen
<1>21. ASSUME NEW q \in Session, EditReload(q) PROVE SerialInv' /\ Frozen
  <2> DEFINE r == request[q]
             req == [r EXCEPT !.stage = 2, !.status = status, !.description = description]
  <2>1. r.op = "edit" /\ r.stage = 1 /\ r \in Request
    BY <1>21 DEF EditReload, Reached, TypeOK
  <2>2. exists /\ Current(q) /\ Alone(q) BY <2>1, Solo
  <2>3. status # "Closed" BY <2>1, <2>2 DEF Current
  <2>4. Consistent'
    BY <1>21 DEF EditReload, SerialInv, Consistent, ResolvedIffClosed,
       InWorkIsAssigned, NoTextLost, CanUnsubscribe, core, text, meta
  <2>5. request' = [request EXCEPT ![q] = req] /\ UNCHANGED <<core, text, meta>>
    BY <1>21 DEF EditReload, TypeOK
  <2>6. request'[q] = req BY <2>5 DEF TypeOK
  <2>7. req.op = "edit" /\ req.stage = 2 /\ req.status = status
        /\ req.description = description
    BY <2>1 DEF Request
  <2>8. Current(q)'
    BY <2>3, <2>5, <2>6, <2>7 DEF Current, core, text
  <2>9. exists' BY <2>2, <2>5 DEF meta
  <2> QED BY <2>2, <2>3, <2>4, <2>5, <2>8, <2>9, GoesSerial DEF Frozen
<1>22. ASSUME NEW q \in Session, EditCommit(q) PROVE SerialInv' /\ Frozen
  <2>1. request[q].op = "edit" /\ request[q].stage = 2
    BY <1>22 DEF EditCommit, Reached
  <2>2. exists /\ Current(q) /\ Alone(q) BY <2>1, Solo
  <2>3. status # "Closed" /\ status' = "Open" /\ request[q].description = description
    BY <1>22, <2>1, <2>2 DEF EditCommit, Current, Update
  <2>4. NoTextLost'
    <3>1. written \subseteq originals \cup {description}
      BY <2>2 DEF SerialInv, Consistent, NoTextLost
    <3>2. CASE request[q].arg = description
      BY <1>22, <2>3, <3>1, <3>2 DEF EditCommit, Update, NoTextLost
    <3>3. CASE request[q].arg # description
      BY <1>22, <2>3, <3>1, <3>3 DEF EditCommit, Update, NoTextLost
    <3> QED BY <3>2, <3>3
  <2>5. Consistent'
    BY <1>22, <2>3, <2>4 DEF EditCommit, SerialInv, Consistent, ResolvedIffClosed,
       InWorkIsAssigned, CanUnsubscribe
  <2> QED BY <1>22, <2>2, <2>3, <2>5, EndsSerial DEF EditCommit, Frozen
<1>23. ASSUME NEW q \in Session, SubscribeCommit(q) PROVE SerialInv' /\ Frozen
  <2>1. request[q].op \in {"reply", "subscribe"}
    BY <1>23 DEF SubscribeCommit, Reached
  <2>2. Current(q) /\ Alone(q) BY <2>1, Solo
  <2>3. request[q].subscribed <=> subscriptions[UserOf[q]] > 0
    BY <2>1, <2>2 DEF Current
  <2>4. CanUnsubscribe'
    BY <1>23, <2>3 DEF SubscribeCommit, CanUnsubscribe, SerialInv, Consistent, TypeOK
  <2>5. Consistent'
    BY <1>23, <2>4 DEF SubscribeCommit, SerialInv, Consistent, ResolvedIffClosed,
       InWorkIsAssigned, NoTextLost, core, text, meta
  <2> QED BY <1>23, <2>2, <2>5, EndsSerial DEF SubscribeCommit, Frozen, text
<1>24. ASSUME NEW q \in Session, Abandon(q) PROVE SerialInv' /\ Frozen
  <2>1. Alone(q) BY <1>24 DEF Abandon, Alone, SerialInv
  <2>2. Consistent'
    BY <1>24 DEF Abandon, SerialInv, Consistent, ResolvedIffClosed,
       InWorkIsAssigned, NoTextLost, CanUnsubscribe, core, text, meta
  <2> QED BY <1>24, <2>1, <2>2, EndsSerial DEF Abandon, Frozen, text
<1> QED BY <1>1, <1>2, <1>3, <1>4, <1>5, <1>6, <1>7, <1>8, <1>9, <1>10, <1>11, <1>12,
           <1>13, <1>14, <1>15, <1>16, <1>17, <1>18, <1>19, <1>20, <1>21, <1>22, <1>23,
           <1>24
        DEF Next, Begin, Continue

LEMMA SerialInvariant ==
  ASSUME ~Interleaved
  PROVE  Spec => [](TypeOK /\ SerialInv)
<1>1. Init => SerialInv
  BY TicketsAssumption DEF Init, SerialInv, Consistent, ResolvedIffClosed,
     InWorkIsAssigned, NoTextLost, CanUnsubscribe
<1>2. TypeOK /\ SerialInv /\ [Next]_vars => SerialInv'
  BY SerialInductive
<1> QED BY <1>1, <1>2, TypeCorrect, PTL DEF Spec

\* With requests that do not overlap, a ticket has a resolution iff it is closed,
\* whatever requests die half-way.
THEOREM ResolvedIffClosedHolds ==
  ASSUME ~Interleaved
  PROVE  Spec => []ResolvedIffClosed
<1>1. SerialInv => ResolvedIffClosed BY DEF SerialInv, Consistent
<1> QED BY <1>1, SerialInvariant, PTL

\* With requests that do not overlap, a ticket in work is assigned to somebody.
THEOREM InWorkIsAssignedHolds ==
  ASSUME ~Interleaved
  PROVE  Spec => []InWorkIsAssigned
<1>1. SerialInv => InWorkIsAssigned BY DEF SerialInv, Consistent
<1> QED BY <1>1, SerialInvariant, PTL

\* With requests that do not overlap, no description is overwritten without a
\* trace in the history.
THEOREM NoTextLostHolds ==
  ASSUME ~Interleaved
  PROVE  Spec => []NoTextLost
<1>1. SerialInv => NoTextLost BY DEF SerialInv, Consistent
<1> QED BY <1>1, SerialInvariant, PTL

\* With requests that do not overlap, nobody is subscribed twice.
THEOREM CanUnsubscribeHolds ==
  ASSUME ~Interleaved
  PROVE  Spec => []CanUnsubscribe
<1>1. SerialInv => CanUnsubscribe BY DEF SerialInv, Consistent
<1> QED BY <1>1, SerialInvariant, PTL

\* With requests that do not overlap, only open_status changes a closed ticket.
THEOREM ClosedIsFrozenHolds ==
  ASSUME ~Interleaved
  PROVE  Spec => ClosedIsFrozen
<1>1. TypeOK /\ SerialInv /\ [Next]_vars =>
        [exists /\ status = "Closed" =>
           \/ \E q \in Session : ReopenCommit(q)
           \/ UNCHANGED core /\ UNCHANGED <<description, originals>>]_vars
  BY SerialInductive DEF Frozen
<1> QED BY <1>1, SerialInvariant, PTL DEF Spec, ClosedIsFrozen

-----------------------------------------------------------------------------
(***************************************************************************)
(* What is on record about a closed ticket.                                *)
(***************************************************************************)

\* The first step of a request.
LEMMA RecordStart ==
  ASSUME TypeOK, RecordInv, NEW q \in Session, NEW req, req.stage = 1, Start(q, req)
  PROVE  RecordInv'
BY DEF RecordInv, ClosedIsRecorded, Start, TypeOK, core

\* The last step of a request that runs alone.
LEMMA RecordEnd ==
  ASSUME TypeOK, NEW q \in Session, Alone(q), Finish(q), ClosedIsRecorded'
  PROVE  RecordInv'
<1>1. \A p \in Session : request'[p] = Idle
  BY DEF Alone, Finish, TypeOK
<1>2. Idle.op = "idle" BY DEF Idle
<1> QED BY <1>1, <1>2 DEF RecordInv

LEMMA RecordInductive ==
  TypeOK /\ SerialInv /\ RecordInv /\ [Next]_vars => RecordInv'
<1> SUFFICES ASSUME TypeOK, SerialInv, RecordInv, [Next]_vars PROVE RecordInv' OBVIOUS
<1>1. CASE UNCHANGED vars
  BY <1>1 DEF vars, core, RecordInv, ClosedIsRecorded
<1>2. ASSUME NEW q \in Session, NEW c \in Content, Create(q, c) PROVE RecordInv'
  <2>1. \A p \in Session : request'[p].op = "idle" BY <1>2 DEF Create, Idle
  <2> QED BY <1>2, <2>1 DEF Create, RecordInv, ClosedIsRecorded
<1>3. ASSUME NEW q \in Session,
             \/ Delete(q)
             \/ Unsubscribe(q)
      PROVE  RecordInv'
  BY <1>3 DEF Delete, Unsubscribe, RecordInv, ClosedIsRecorded, core
<1>4. ASSUME NEW q \in Session,
             \/ \E c \in Content : EditLoad(q, c)
             \/ ClaimLoad(q) \/ ReleaseLoad(q)
             \/ \E u \in User : AssignLoad(q, u)
             \/ CloseLoad(q) \/ ReopenLoad(q)
             \/ ReplyLoad(q) \/ SubscribeLoad(q)
      PROVE  RecordInv'
  <2>1. PICK req : req.stage = 1 /\ Start(q, req)
    <3>1. CASE \E c \in Content : EditLoad(q, c)
      BY <3>1 DEF EditLoad, Begun, Idle
    <3>2. CASE ClaimLoad(q) BY <3>2 DEF ClaimLoad, Begun, Idle
    <3>3. CASE ReleaseLoad(q) BY <3>3 DEF ReleaseLoad, Begun, Idle
    <3>4. CASE \E u \in User : AssignLoad(q, u)
      BY <3>4 DEF AssignLoad, Begun, Idle
    <3>5. CASE CloseLoad(q) \/ ReopenLoad(q)
      BY <3>5 DEF CloseLoad, ReopenLoad, Begun, Idle
    <3>6. CASE ReplyLoad(q) BY <3>6 DEF ReplyLoad, Begun, Idle
    <3>7. CASE SubscribeLoad(q) BY <3>7 DEF SubscribeLoad, Begun, Idle
    <3> QED BY <1>4, <3>1, <3>2, <3>3, <3>4, <3>5, <3>6, <3>7
  <2> QED BY <2>1, RecordStart
<1>5. ASSUME NEW q \in Session, ClaimCommit(q) \/ ReleaseCommit(q) PROVE RecordInv'
  <2>1. request[q].op \in {"claim", "release"} /\ request[q].stage = 1
    BY <1>5 DEF ClaimCommit, ReleaseCommit, Reached
  <2>2. Current(q) /\ Alone(q) BY <2>1, Solo
  <2>3. status # "Closed" /\ request[q].status = status BY <2>1, <2>2 DEF Current
  <2>4. status' # "Closed" BY <1>5, <2>3 DEF ClaimCommit, ReleaseCommit, Update
  <2>5. \A p \in Session : p # q => request'[p].op = "idle"
    <3>1. \A p \in Session : p # q => request'[p] = Idle
      BY <1>5, <2>2 DEF ClaimCommit, ReleaseCommit, Advance, Alone, TypeOK
    <3> QED BY <3>1 DEF Idle
  <2>6. request'[q].op # "close"
    BY <1>5, <2>1 DEF ClaimCommit, ReleaseCommit, Advance, Begun, Idle, TypeOK
  <2> QED BY <2>4, <2>5, <2>6 DEF RecordInv, ClosedIsRecorded
<1>6. ASSUME NEW q \in Session, RecordAction(q) PROVE RecordInv'
  <2>1. request[q].op \in {"claim", "release"} /\ request[q].stage = 2
    BY <1>6 DEF RecordAction, Reached
  <2>2. Alone(q) BY <2>1, Solo
  <2>3. status' # "Closed" BY <1>6, <2>1 DEF RecordAction, RecordInv, core
  <2> QED BY <1>6, <2>2, <2>3, RecordEnd DEF RecordAction, ClosedIsRecorded
<1>7. ASSUME NEW q \in Session, AssignCommit(q) PROVE RecordInv'
  <2>1. request[q].op = "assign" /\ request[q].stage = 1
    BY <1>7 DEF AssignCommit, Reached
  <2>2. Current(q) /\ Alone(q) BY <2>1, Solo
  <2>3. status # "Closed" /\ request[q].status = status BY <2>1, <2>2 DEF Current
  <2>4. status' # "Closed" BY <1>7, <2>3 DEF AssignCommit, Update
  <2>5. \A p \in Session : p # q => request'[p].op = "idle"
    <3>1. \A p \in Session : p # q => request'[p] = Idle
      BY <1>7, <2>2 DEF AssignCommit, Alone, TypeOK
    <3> QED BY <3>1 DEF Idle
  <2>6. request'[q].op = "assign"
    BY <1>7, <2>1 DEF AssignCommit, TypeOK, Request
  <2> QED BY <2>4, <2>5, <2>6 DEF RecordInv, ClosedIsRecorded
<1>8. ASSUME NEW q \in Session, AssignSubscribe(q) \/ SubscribeCommit(q) \/ Abandon(q)
      PROVE  RecordInv'
  <2>1. Alone(q)
    BY <1>8, Solo DEF AssignSubscribe, SubscribeCommit, Abandon, Reached, Alone, SerialInv
  <2>2. Finish(q) /\ UNCHANGED <<status, action>>
    BY <1>8 DEF AssignSubscribe, SubscribeCommit, Abandon, core
  <2> QED BY <2>1, <2>2, RecordEnd DEF RecordInv, ClosedIsRecorded
<1>9. ASSUME NEW q \in Session, RecordFirst(q) PROVE RecordInv'
  <2>1. request[q].op \in {"close", "reopen"} /\ request[q].stage = 1
    BY <1>9 DEF RecordFirst, Reached
  <2>2. Alone(q) BY <2>1, Solo
  <2>3. action' \in {"close", "reopen"} /\ action' = request[q].op
    BY <1>9, <2>1 DEF RecordFirst
  <2>4. \A p \in Session : p # q => request'[p].op = "idle"
    <3>1. \A p \in Session : p # q => request'[p] = Idle
      BY <1>9, <2>2 DEF RecordFirst, Advance, Alone, TypeOK
    <3> QED BY <3>1 DEF Idle
  <2>5. request'[q].op = request[q].op
    BY <1>9 DEF RecordFirst, Advance, Begun, Idle, TypeOK
  <2> QED BY <2>1, <2>3, <2>4, <2>5 DEF RecordInv, ClosedIsRecorded
<1>10. ASSUME NEW q \in Session, CloseCommit(q) PROVE RecordInv'
  <2>1. request[q].op = "close" /\ request[q].stage = 2
    BY <1>10 DEF CloseCommit, Reached
  <2>2. Alone(q) BY <2>1, Solo
  <2>3. action' = "close" BY <1>10, <2>1 DEF CloseCommit, RecordInv
  <2> QED BY <1>10, <2>2, <2>3, RecordEnd DEF CloseCommit, ClosedIsRecorded
<1>11. ASSUME NEW q \in Session, ReopenCommit(q) PROVE RecordInv'
  <2>1. Alone(q) BY <1>11, Solo DEF ReopenCommit, Reached
  <2> QED BY <1>11, <2>1, RecordEnd DEF ReopenCommit, ClosedIsRecorded
<1>12. ASSUME NEW q \in Session, EditReload(q) PROVE RecordInv'
  <2>1. request[q].op = "edit" /\ UNCHANGED <<status, action>>
    BY <1>12 DEF EditReload, Reached, core
  <2>2. request'[q].op = "edit" /\ \A p \in Session : p # q => request'[p] = request[p]
    BY <1>12, <2>1 DEF EditReload, TypeOK, Request
  <2> QED BY <2>1, <2>2 DEF RecordInv, ClosedIsRecorded
<1>13. ASSUME NEW q \in Session, EditCommit(q) PROVE RecordInv'
  <2>1. request[q].op = "edit" /\ request[q].stage = 2
    BY <1>13 DEF EditCommit, Reached
  <2>2. Current(q) /\ Alone(q) BY <2>1, Solo
  <2>3. status' # "Closed" BY <1>13, <2>1, <2>2 DEF EditCommit, Current, Update
  <2> QED BY <1>13, <2>2, <2>3, RecordEnd DEF EditCommit, ClosedIsRecorded
<1> QED BY <1>1, <1>2, <1>3, <1>4, <1>5, <1>6, <1>7, <1>8, <1>9, <1>10, <1>11, <1>12,
           <1>13
        DEF Next, Begin, Continue

\* With requests that do not overlap, the latest action on record of a closed ticket
\* is its closing, or a reopening that ended half-way.
THEOREM ClosedIsRecordedHolds ==
  ASSUME ~Interleaved
  PROVE  Spec => []ClosedIsRecorded
<1>1. Init => RecordInv
  BY DEF Init, RecordInv, ClosedIsRecorded, Idle
<1>2. RecordInv => ClosedIsRecorded BY DEF RecordInv
<1> QED BY <1>1, <1>2, RecordInductive, SerialInvariant, PTL DEF Spec
=============================================================================
