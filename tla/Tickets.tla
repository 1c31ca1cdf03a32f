------------------------------ MODULE Tickets -------------------------------
(***************************************************************************)
(* The life of a ticket.  Every operation is a web request; uWSGI serves   *)
(* several at once.  A handler loads the ticket, tests what it loaded, and *)
(* commits later, in one or two transactions: the steps below are what one *)
(* handler does between two accesses to the database.  No handler touches  *)
(* two tickets, so the module follows one.                                 *)
(*                                                                         *)
(* The object mapper writes the columns that differ from what the session  *)
(* has loaded (Update), and every assigned column of an object that an     *)
(* earlier commit of the same request has expired.                         *)
(***************************************************************************)
EXTENDS Naturals, FiniteSets

CONSTANTS
  User,          \* the accounts
  Admin,         \* the accounts with the role admin
  Session,       \* browser windows: each has at most one request in flight
  UserOf,        \* session -> the user logged in
  Content,       \* texts of the ticket's description
  None,          \* nobody
  Interleaved,   \* may requests overlap?
  Failures       \* may a request end in the middle?

ASSUME TicketsAssumption ==
  /\ Admin \subseteq User
  /\ UserOf \in [Session -> User]
  /\ IsFiniteSet(Session)
  /\ None \notin User \cup Content
  /\ Interleaved \in BOOLEAN
  /\ Failures \in BOOLEAN

VARIABLES
  exists, author,            \* is the ticket in the table, who created it
  status, assigned,          \* current_status, assigned
  resolved,                  \* resolution, resolved_by, date_resolved: by whom
  description, originals,    \* the description, FlicketHistory.original_content
  action,                    \* the latest row of FlicketAction
  subscriptions,             \* user -> number of rows of FlicketSubscription
  written,                   \* every description the ticket has ever had
  request                    \* session -> the request in flight

core == <<status, assigned, resolved>>
text == <<description, originals, written>>
meta == <<exists, author>>
vars == <<meta, core, text, action, subscriptions, request>>

Status == {"Open", "In Work", "Closed"}
Action == {"none", "assign", "claim", "release", "close", "reopen"}
Operation == {"assign", "claim", "release", "close", "reopen", "edit", "reply",
              "subscribe"}

(***************************************************************************)
(* A request in flight: its operation, how far it is, its argument (whom   *)
(* to assign, what to write) and what it has loaded.                       *)
(***************************************************************************)
Request ==
  [op : Operation \cup {"idle"}, stage : {0, 1, 2}, arg : User \cup Content \cup {None},
   status : Status, assigned : User \cup {None},
   description : Content \cup {None}, subscribed : BOOLEAN]

Idle ==
  [op |-> "idle", stage |-> 0, arg |-> None, status |-> "Open", assigned |-> None,
   description |-> None, subscribed |-> FALSE]

TypeOK ==
  /\ exists \in BOOLEAN
  /\ author \in User \cup {None}
  /\ status \in Status
  /\ assigned \in User \cup {None}
  /\ resolved \in User \cup {None}
  /\ description \in Content \cup {None}
  /\ originals \subseteq Content
  /\ written \subseteq Content
  /\ action \in Action
  /\ subscriptions \in [User -> Nat]
  /\ request \in [Session -> Request]
  /\ \A q \in Session :
       /\ request[q].op = "assign" => request[q].arg \in User
       /\ request[q].op = "edit" =>
            /\ request[q].arg \in Content
            /\ request[q].stage = 2 => request[q].description \in Content
  /\ exists => author \in User /\ description \in Content

Init ==
  /\ exists = FALSE
  /\ author = None
  /\ status = "Open"
  /\ assigned = None
  /\ resolved = None
  /\ description = None
  /\ originals = {}
  /\ written = {}
  /\ action = "none"
  /\ subscriptions = [u \in User |-> 0]
  /\ request = [q \in Session |-> Idle]

-----------------------------------------------------------------------------
\* A new request is served at once, or after the ones in flight.
MayStart(q) ==
  /\ exists
  /\ request[q] = Idle
  /\ Interleaved \/ \A p \in Session : request[p] = Idle

\* The request starts with its argument and with those of the values in the
\* session that it still uses later.
Start(q, req) ==
  /\ request' = [request EXCEPT ![q] = req]
  /\ UNCHANGED <<meta, core, text, action, subscriptions>>

Begun(op) == [Idle EXCEPT !.op = op, !.stage = 1]

Reached(q, op, stage) ==
  exists /\ request[q].op = op /\ request[q].stage = stage

\* The request goes on; what it had loaded has been used.
Advance(q) ==
  request' = [request EXCEPT ![q] = [Begun(request[q].op) EXCEPT !.stage = 2]]

Finish(q) == request' = [request EXCEPT ![q] = Idle]

\* A column is written iff the new value is not the loaded one.
Update(loaded, new, stored) == IF new = loaded THEN stored ELSE new

\* ticket.user == current_user or ticket.assigned == current_user or admin
MayEdit(u) == u = author \/ u = assigned \/ u \in Admin

\* Mutant of Create: the ticket has no user.
CreateAnonymous(q, c) ==
  /\ ~exists
  /\ \A p \in Session : request[p] = Idle
  /\ exists' = TRUE
  /\ author' = None
  /\ description' = c
  /\ written' = {c}
  /\ UNCHANGED <<core, originals, action, subscriptions, request>>

\* ticket_create: the creator is subscribed.  After a deletion the module
\* follows the next ticket; requests about the old one have ended by then.
Create(q, c) ==
  /\ ~exists
  /\ \A p \in Session : request[p] = Idle
  /\ exists' = TRUE
  /\ author' = UserOf[q]
  /\ status' = "Open"
  /\ assigned' = None
  /\ resolved' = None
  /\ description' = c
  /\ originals' = {}
  /\ written' = {c}
  /\ action' = "none"
  /\ subscriptions' = [u \in User |-> IF u = UserOf[q] THEN 1 ELSE 0]
  /\ UNCHANGED request

\* delete_ticket: the rows that refer to the ticket lose it.
Delete(q) ==
  /\ MayStart(q)
  /\ UserOf[q] \in Admin
  /\ exists' = FALSE
  /\ subscriptions' = [u \in User |-> 0]
  /\ UNCHANGED <<author, core, text, action, request>>

-----------------------------------------------------------------------------
(***************************************************************************)
(* ticket_claim, release: commit the ticket, then the action.              *)
(***************************************************************************)
\* Mutant of ClaimLoad: a closed ticket can be claimed.
ClaimLoadClosed(q) ==
  /\ MayStart(q)
  /\ Start(q, [Begun("claim") EXCEPT !.status = status, !.assigned = assigned])

ClaimLoad(q) ==
  /\ MayStart(q)
  /\ status # "Closed"
  /\ Start(q, [Begun("claim") EXCEPT !.status = status, !.assigned = assigned])

ClaimCommit(q) ==
  /\ Reached(q, "claim", 1)
  /\ status' = Update(request[q].status, "In Work", status)
  /\ assigned' = Update(request[q].assigned, UserOf[q], assigned)
  /\ Advance(q)
  /\ UNCHANGED <<meta, resolved, text, action, subscriptions>>

ReleaseLoad(q) ==
  /\ MayStart(q)
  /\ status # "Closed"
  /\ assigned # None
  /\ assigned = UserOf[q] \/ UserOf[q] \in Admin
  /\ Start(q, [Begun("release") EXCEPT !.status = status])

\* Mutant of ReleaseCommit: the status is not set back.
ReleaseCommitInWork(q) ==
  /\ Reached(q, "release", 1)
  /\ assigned' = None
  /\ Advance(q)
  /\ UNCHANGED <<meta, status, resolved, text, action, subscriptions>>

ReleaseCommit(q) ==
  /\ Reached(q, "release", 1)
  /\ status' = Update(request[q].status, "Open", status)
  /\ assigned' = None
  /\ Advance(q)
  /\ UNCHANGED <<meta, resolved, text, action, subscriptions>>

\* add_action at the end of ticket_claim and release.
RecordAction(q) ==
  /\ Reached(q, "claim", 2) \/ Reached(q, "release", 2)
  /\ action' = request[q].op
  /\ Finish(q)
  /\ UNCHANGED <<meta, core, text, subscriptions>>

(***************************************************************************)
(* ticket_assign: the commit of add_action also commits the ticket; then   *)
(* the assignee is subscribed.                                             *)
(***************************************************************************)
AssignLoad(q, u) ==
  /\ MayStart(q)
  /\ status # "Closed"
  /\ assigned # u
  /\ Start(q, [Begun("assign") EXCEPT !.status = status, !.arg = u])

AssignCommit(q) ==
  /\ Reached(q, "assign", 1)
  /\ status' = Update(request[q].status, "In Work", status)
  /\ assigned' = request[q].arg
  /\ action' = "assign"
  /\ request' = [request EXCEPT ![q].stage = 2, ![q].status = "Open",
                                ![q].subscribed = subscriptions[request[q].arg] > 0]
  /\ UNCHANGED <<meta, resolved, text, subscriptions>>

\* Mutant of AssignSubscribe: is_subscribed is not asked.
AssignSubscribeAlways(q) ==
  /\ Reached(q, "assign", 2)
  /\ subscriptions' = [subscriptions EXCEPT ![request[q].arg] = @ + 1]
  /\ Finish(q)
  /\ UNCHANGED <<meta, core, text, action>>

AssignSubscribe(q) ==
  /\ Reached(q, "assign", 2)
  /\ subscriptions' = IF request[q].subscribed THEN subscriptions
                      ELSE [subscriptions EXCEPT ![request[q].arg] = @ + 1]
  /\ Finish(q)
  /\ UNCHANGED <<meta, core, text, action>>

(***************************************************************************)
(* close_status, open_status: the action is committed before the ticket is *)
(* touched.  That commit expires the ticket, so every column assigned      *)
(* afterwards is written.                                                  *)
(***************************************************************************)
CloseLoad(q) ==
  /\ MayStart(q)
  /\ MayEdit(UserOf[q])
  /\ status # "Closed"
  /\ Start(q, Begun("close"))

ReopenLoad(q) ==
  /\ MayStart(q)
  /\ MayEdit(UserOf[q])
  /\ Start(q, Begun("reopen"))

\* Mutant of RecordFirst: nothing is recorded.
RecordNothing(q) ==
  /\ Reached(q, "close", 1) \/ Reached(q, "reopen", 1)
  /\ Advance(q)
  /\ UNCHANGED <<meta, core, text, action, subscriptions>>

RecordFirst(q) ==
  /\ Reached(q, "close", 1) \/ Reached(q, "reopen", 1)
  /\ action' = request[q].op
  /\ Advance(q)
  /\ UNCHANGED <<meta, core, text, subscriptions>>

CloseCommit(q) ==
  /\ Reached(q, "close", 2)
  /\ status' = "Closed"
  /\ resolved' = UserOf[q]
  /\ Finish(q)
  /\ UNCHANGED <<meta, assigned, text, action, subscriptions>>

\* Mutant of ReopenCommit: the resolution is kept.
ReopenCommitKeepsResolution(q) ==
  /\ Reached(q, "reopen", 2)
  /\ status' = "Open"
  /\ Finish(q)
  /\ UNCHANGED <<meta, assigned, resolved, text, action, subscriptions>>

\* Mutant of ReopenCommit: the status is left alone, only the resolution goes.
ReopenCommitStatusKept(q) ==
  /\ Reached(q, "reopen", 2)
  /\ resolved' = None
  /\ Finish(q)
  /\ UNCHANGED <<meta, status, assigned, text, action, subscriptions>>

ReopenCommit(q) ==
  /\ Reached(q, "reopen", 2)
  /\ status' = "Open"
  /\ resolved' = None
  /\ Finish(q)
  /\ UNCHANGED <<meta, assigned, text, action, subscriptions>>

(***************************************************************************)
(* edit_ticket: the checks, a first commit (site, project, component) that *)
(* expires the ticket, then the description is read again and replaced.    *)
(* The status is set back to the row found for 'open', which MySQL's       *)
(* collation makes Open; the assignee stays.                               *)
(***************************************************************************)
EditLoad(q, c) ==
  /\ MayStart(q)
  /\ status # "Closed"
  /\ MayEdit(UserOf[q])
  /\ Start(q, [Begun("edit") EXCEPT !.arg = c])

EditReload(q) ==
  /\ Reached(q, "edit", 1)
  /\ request' = [request EXCEPT ![q].stage = 2, ![q].status = status,
                                ![q].description = description]
  /\ UNCHANGED <<meta, core, text, action, subscriptions>>

\* Mutant of EditCommit: no history.
EditCommitNoHistory(q) ==
  /\ Reached(q, "edit", 2)
  /\ description' = request[q].arg
  /\ written' = written \cup {description'}
  /\ status' = Update(request[q].status, "Open", status)
  /\ Finish(q)
  /\ UNCHANGED <<meta, originals, assigned, resolved, action, subscriptions>>

EditCommit(q) ==
  LET old == request[q].description
      new == request[q].arg
  IN
  /\ Reached(q, "edit", 2)
  /\ originals' = IF new = old THEN originals ELSE originals \cup {old}
  /\ description' = Update(old, new, description)
  /\ written' = written \cup {description'}
  /\ status' = Update(request[q].status, "Open", status)
  /\ Finish(q)
  /\ UNCHANGED <<meta, assigned, resolved, action, subscriptions>>

(***************************************************************************)
(* ticket_view with a reply, subscribe_ticket, unsubscribe_ticket.  There  *)
(* is no unique constraint on ticket and user.                             *)
(***************************************************************************)
ReplyLoad(q) ==
  /\ MayStart(q)
  /\ Start(q, [Begun("reply") EXCEPT !.subscribed = subscriptions[UserOf[q]] > 0])

SubscribeLoad(q) ==
  /\ MayStart(q)
  /\ subscriptions[UserOf[q]] = 0
  /\ Start(q, Begun("subscribe"))

\* Mutant of SubscribeCommit: is_subscribed is not asked.
SubscribeCommitAlways(q) ==
  /\ Reached(q, "reply", 1) \/ Reached(q, "subscribe", 1)
  /\ subscriptions' = [subscriptions EXCEPT ![UserOf[q]] = @ + 1]
  /\ Finish(q)
  /\ UNCHANGED <<meta, core, text, action>>

SubscribeCommit(q) ==
  /\ Reached(q, "reply", 1) \/ Reached(q, "subscribe", 1)
  /\ subscriptions' = IF request[q].subscribed THEN subscriptions
                      ELSE [subscriptions EXCEPT ![UserOf[q]] = @ + 1]
  /\ Finish(q)
  /\ UNCHANGED <<meta, core, text, action>>

\* query.one() raises if there are several rows.
Unsubscribe(q) ==
  /\ MayStart(q)
  /\ subscriptions[UserOf[q]] = 1
  /\ subscriptions' = [subscriptions EXCEPT ![UserOf[q]] = 0]
  /\ UNCHANGED <<meta, core, text, action, request>>

\* The request ends without its next commit: a missing form field (a close
\* without resolution, an edit without project), a mail that cannot be
\* rendered, a worker that is killed, a ticket that is gone.
Abandon(q) ==
  /\ request[q] # Idle
  /\ Failures \/ ~exists
  /\ Finish(q)
  /\ UNCHANGED <<meta, core, text, action, subscriptions>>

-----------------------------------------------------------------------------
\* What a session may begin, and what the server then does for it.
Begin(q) ==
  \/ \E c \in Content : Create(q, c) \/ EditLoad(q, c)
  \/ Delete(q)
  \/ ClaimLoad(q) \/ ReleaseLoad(q)
  \/ \E u \in User : AssignLoad(q, u)
  \/ CloseLoad(q) \/ ReopenLoad(q)
  \/ ReplyLoad(q) \/ SubscribeLoad(q) \/ Unsubscribe(q)

Continue(q) ==
  \/ ClaimCommit(q) \/ ReleaseCommit(q) \/ RecordAction(q)
  \/ AssignCommit(q) \/ AssignSubscribe(q)
  \/ RecordFirst(q) \/ CloseCommit(q) \/ ReopenCommit(q)
  \/ EditReload(q) \/ EditCommit(q)
  \/ SubscribeCommit(q)

Next == \E q \in Session : Begin(q) \/ Continue(q) \/ Abandon(q)

Spec == Init /\ [][Next]_vars

-----------------------------------------------------------------------------
(***************************************************************************)
(* Properties.                                                             *)
(***************************************************************************)

\* "If a ticket has been closed it can no longer be assigned, released or
\* edited, to reopen a ticket simply click the Reopen button": the only way out
\* of Closed is open_status, and until then assignee and description stay.
ClosedIsFrozen ==
  [][exists /\ status = "Closed" =>
       \/ \E q \in Session : ReopenCommit(q)
       \/ UNCHANGED core /\ UNCHANGED <<description, originals>>]_vars

\* The resolution is shown instead of the assignee: a ticket has one iff it is
\* closed.
ResolvedIffClosed == resolved # None <=> status = "Closed"

\* However requests overlap or end, a closed ticket names who resolved it:
\* close_status and open_status write status and resolution together.
ClosedHasResolution == status = "Closed" => resolved # None

\* A ticket in work has somebody working on it.
InWorkIsAssigned == status = "In Work" => assigned # None

\* "before we make any changes store the original post content in the history
\* table if it has changed": no description is ever overwritten without trace.
NoTextLost == exists => written \subseteq originals \cup {description}

\* close_status and open_status record the action in a transaction before the one
\* that changes the ticket (ticket/controllers.py 934).  Wherever a request ends
\* in between, the latest action of a closed ticket is its closing, or a
\* reopening that did not get through.
ClosedIsRecorded == status = "Closed" => action \in {"close", "reopen"}

\* "If already subscribed a user can unsubscribe by clicking the corresponding
\* button": unsubscribe_ticket finds the one row it deletes.
CanUnsubscribe == \A u \in User : subscriptions[u] <= 1

\* However requests overlap, is_subscribed keeps a user from collecting rows:
\* there are never more than requests that can be in flight at once.
DuplicatesBounded == \A u \in User : subscriptions[u] <= Cardinality(Session)

-----------------------------------------------------------------------------
(***************************************************************************)
(* The inductive invariants from which the properties are proved.          *)
(***************************************************************************)

\* The requests that are about to insert a subscription of u.
Subscribing(u) ==
  {q \in Session :
     LET r == request[q] IN
     /\ ~r.subscribed
     /\ \/ r.op = "assign" /\ r.stage = 2 /\ r.arg = u
        \/ r.op \in {"reply", "subscribe"} /\ UserOf[q] = u}

\* A request joins Subscribing only while its user has no row.
SubscriptionInv ==
  \A u \in User : subscriptions[u] + Cardinality(Subscribing(u)) <= Cardinality(Session)

\* What a request that runs alone has loaded is what the tables hold, and a
\* request that changes the ticket has found it not closed.
Current(q) ==
  LET r == request[q] IN
  /\ r.op \in {"claim", "release", "assign", "edit"} /\ r.stage = 1 =>
       status # "Closed"
  /\ r.op \in {"claim", "release", "assign"} /\ r.stage = 1 => r.status = status
  /\ r.op = "claim" /\ r.stage = 1 => r.assigned = assigned
  /\ r.op = "edit" /\ r.stage = 2 =>
       status # "Closed" /\ r.status = status /\ r.description = description
  /\ r.op = "close" => status # "Closed"
  /\ r.op = "assign" /\ r.stage = 2 => (r.subscribed <=> subscriptions[r.arg] > 0)
  /\ r.op \in {"reply", "subscribe"} => (r.subscribed <=> subscriptions[UserOf[q]] > 0)

Consistent == ResolvedIffClosed /\ InWorkIsAssigned /\ NoTextLost /\ CanUnsubscribe

\* When requests do not overlap, there is at most one, and it is up to date.
SerialInv ==
  /\ Consistent
  /\ \A p, q \in Session : request[p] # Idle /\ request[q] # Idle => p = q
  /\ \A q \in Session : request[q] # Idle => exists /\ Current(q)

\* The action of a closing is on record before the ticket is closed, and an action
\* that is recorded late finds the ticket not closed.
RecordInv ==
  /\ ClosedIsRecorded
  /\ \A q \in Session :
       LET r == request[q] IN
       /\ r.op = "close" /\ r.stage = 2 => action = "close"
       /\ r.op \in {"claim", "release"} /\ r.stage = 2 => status # "Closed"

=============================================================================
