------------------------------- MODULE Issues -------------------------------
(***************************************************************************)
(* The issue engine of Medusa.  A scheduled job (check_all, check_asset,   *)
(* save_result) runs the algorithms mapped to each asset and records their *)
(* outcome in the table of results; the event handler notifies the site of *)
(* a new issue by mail and by a CMMS work order; users acknowledge issues  *)
(* on web pages served by other processes.                                 *)
(*                                                                         *)
(* A Boolean column of the result table is modelled by the set of the rows *)
(* in which it is TRUE.  The job and the users share the table and nothing *)
(* else: what a process reads in one transaction and writes in its commit  *)
(* are different steps, and MySQL's repeatable reads let the job see the   *)
(* acknowledgements as they were when its transaction began.               *)
(***************************************************************************)
EXTENDS Naturals, FiniteSets

CONSTANTS
  Asset,          \* the assets Asset.query.all() returns
  Algorithm,      \* the algorithms that can be mapped to an asset
  ResultId,       \* primary keys of the result table
  User,           \* users working on issue pages
  Priority,       \* Asset.priority, copied to the rows of the asset
  EmailTrigger,   \* Site.email_trigger_priority of the asset's site
  CmmsTrigger,    \* Site.cmms_trigger_priority of the asset's site
  CmmsEnabled,    \* the assets whose site has Inbuildings enabled
  Interleaved,    \* may a user's commit fall inside a transaction of the job?
  Failures,       \* may the job die, an algorithm raise, a mail be refused?
  MaxChecks,      \* bound: the number of times the job is started
  None            \* no row, no asset

ASSUME IssuesAssumption ==
  /\ Priority \in [Asset -> Nat]
  /\ EmailTrigger \in [Asset -> Nat]
  /\ CmmsTrigger \in [Asset -> Nat]
  /\ CmmsEnabled \subseteq Asset
  /\ Interleaved \in BOOLEAN
  /\ Failures \in BOOLEAN
  /\ MaxChecks \in Nat
  /\ None \notin Asset \cup ResultId

VARIABLES
  \* the database
  results,        \* the rows of the result table
  issue,          \* row -> <<asset, algorithm>>, the issue the row is about
  active,         \* rows whose last check failed
  acknowledged,   \* rows a user has acknowledged
  recent,         \* rows written by the latest check of their asset
  occurances,     \* row -> how many checks have updated it
  mapped,         \* asset -> its algorithms that are not excluded
  health,         \* asset -> Asset.health, in percent
  \* the outside world
  mails,          \* row -> how many times its site was mailed about it
  jobs,           \* row -> how many work orders were raised for it
  \* the job
  pc, checks,     \* where it is, and how often it was started
  todo, current,  \* assets not checked to the end, the asset being checked
  attached,       \* are the assets of the list still bound to the session?
  algs,           \* algorithms still to be run on the current asset
  previously_active, unrecent, seen, row, ran,
  \* the users' requests
  phase, scope, page, loaded_ack, ticked

tables == <<results, issue, active, acknowledged, recent, occurances>>
assets == <<mapped, health>>
world == <<mails, jobs>>
local == <<algs, previously_active, unrecent, seen, row, ran>>
job == <<pc, checks, todo, current, attached, local>>
web == <<phase, scope, page, loaded_ack, ticked>>
vars == <<tables, assets, world, job, web>>

Pair == Asset \X Algorithm

\* Rows of an asset, of a set of assets, of an asset and an algorithm.
RowsOf(a) == {r \in results : issue[r][1] = a}
RowsIn(S) == {r \in results : issue[r][1] \in S}
RowsFor(a, g) == {r \in results : issue[r] = <<a, g>>}

\* Result.active == True or Result.acknowledged == False
Unresolved == {r \in results : r \in active \/ r \notin acknowledged}

\* The assets of an issue page: one asset, or a site (all sites of the user).
Scope == {{a} : a \in Asset} \cup {Asset}

TypeOK ==
  /\ results \subseteq ResultId
  /\ issue \in [ResultId -> Pair \cup {None}]
  /\ \A r \in results : issue[r] \in Pair
  /\ active \subseteq results
  /\ acknowledged \subseteq results
  /\ recent \subseteq results
  /\ occurances \in [ResultId -> Nat]
  /\ mapped \in [Asset -> SUBSET Algorithm]
  /\ health \in [Asset -> 0 .. 100]
  /\ mails \in [ResultId -> Nat]
  /\ jobs \in [ResultId -> Nat]
  /\ pc \in {"idle", "assets", "algorithms", "handle"}
  /\ checks \in Nat
  /\ todo \subseteq Asset
  /\ current \in Asset \cup {None}
  /\ pc \in {"algorithms", "handle"} => current \in todo
  /\ attached \in BOOLEAN
  /\ algs \subseteq Algorithm
  /\ previously_active \subseteq results
  /\ unrecent \subseteq results
  /\ seen \subseteq results
  /\ row \in results \cup {None}
  /\ pc = "handle" => row \in results
  /\ ran \in BOOLEAN
  /\ phase \in [User -> {"away", "page", "loaded"}]
  /\ scope \in [User -> SUBSET Asset]
  /\ page \in [User -> SUBSET results]
  /\ loaded_ack \in [User -> SUBSET results]
  /\ ticked \in [User -> SUBSET results]

Init ==
  /\ results = {}
  /\ issue = [r \in ResultId |-> None]
  /\ active = {}
  /\ acknowledged = {}
  /\ recent = {}
  /\ occurances = [r \in ResultId |-> 0]
  /\ mapped \in [Asset -> SUBSET Algorithm]
  /\ health = [a \in Asset |-> 0]
  /\ mails = [r \in ResultId |-> 0]
  /\ jobs = [r \in ResultId |-> 0]
  /\ pc = "idle"
  /\ checks = 0
  /\ todo = Asset
  /\ current = None
  /\ attached = TRUE
  /\ algs = {}
  /\ previously_active = {}
  /\ unrecent = {}
  /\ seen = {}
  /\ row = None
  /\ ran = FALSE
  /\ phase = [u \in User |-> "away"]
  /\ scope = [u \in User |-> {}]
  /\ page = [u \in User |-> {}]
  /\ loaded_ack = [u \in User |-> {}]
  /\ ticked = [u \in User |-> {}]

(***************************************************************************)
(* With Interleaved = FALSE a submit and the check of an asset exclude     *)
(* each other, as if one process served both.                              *)
(***************************************************************************)
JobMayStart == Interleaved \/ \A u \in User : phase[u] # "loaded"

SubmitMayStart(u) ==
  \/ Interleaved
  \/ pc \in {"idle", "assets"} /\ \A v \in User \ {u} : phase[v] # "loaded"

-----------------------------------------------------------------------------
(***************************************************************************)
(* The job.                                                                *)
(***************************************************************************)

\* check_all: Asset.query.all() binds every asset to the session.
CheckAll ==
  /\ pc = "idle"
  /\ checks < MaxChecks
  /\ checks' = checks + 1
  /\ pc' = "assets"
  /\ todo' = Asset
  /\ attached' = TRUE
  /\ UNCHANGED <<current, local, tables, assets, world, web>>

\* check_asset up to its loop: the flags it clears are flushed and not yet
\* committed (unrecent), the reads fix what the transaction sees (seen).
BeginAsset(a) ==
  /\ pc = "assets"
  /\ a \in todo
  /\ attached
  /\ JobMayStart
  /\ pc' = "algorithms"
  /\ current' = a
  /\ unrecent' = RowsOf(a) \cap recent
  /\ previously_active' = RowsOf(a) \cap active
  /\ algs' = mapped[a]
  /\ seen' = acknowledged
  /\ row' = None
  /\ ran' = FALSE
  /\ UNCHANGED <<checks, todo, attached, tables, assets, world, web>>

\* save_result on the row r of algorithm g, new or found; its commit also
\* commits the cleared flags.
SaveResult(r, g, passed) ==
  /\ active' = IF passed THEN active \ {r} ELSE active \cup {r}
  /\ occurances' = [occurances EXCEPT ![r] = @ + 1]
  /\ recent' = (recent \ unrecent) \cup {r}
  /\ unrecent' = {}
  /\ row' = r
  /\ algs' = algs \ {g}
  /\ pc' = "handle"
  /\ UNCHANGED <<checks, todo, current, attached, previously_active, seen, ran,
                 assets, world, web>>

\* Mutants of Open: only active rows are reused; resolved rows are reused too.
OpenActiveOnly(a, g) == RowsFor(a, g) \cap active
OpenAny(a, g) == RowsFor(a, g)

\* What save_result looks for: an active or unacknowledged row, as far as its
\* transaction can see.  The query has no ORDER BY: first() is any of them.
Open(a, g) == {r \in RowsFor(a, g) : r \in active \/ r \notin seen}

UpdateResult(g, passed) ==
  /\ pc = "algorithms"
  /\ g \in algs
  /\ \E r \in Open(current, g) : SaveResult(r, g, passed)
  /\ UNCHANGED <<results, issue, acknowledged>>

\* Mutant of CreateResult: the new row is not added to the session.
CreateResultUnsaved(g, passed) ==
  /\ pc = "algorithms"
  /\ g \in algs
  /\ Open(current, g) = {}
  /\ \E r \in ResultId \ results : SaveResult(r, g, passed)
  /\ UNCHANGED <<results, issue, acknowledged>>

\* Mutant of CreateResult: a first check that passes is not acknowledged by itself.
CreateResultUnnoted(g, passed) ==
  /\ pc = "algorithms"
  /\ g \in algs
  /\ Open(current, g) = {}
  /\ \E r \in ResultId \ results :
        /\ results' = results \cup {r}
        /\ issue' = [issue EXCEPT ![r] = <<current, g>>]
        /\ SaveResult(r, g, passed)
  /\ UNCHANGED acknowledged

CreateResult(g, passed) ==
  /\ pc = "algorithms"
  /\ g \in algs
  /\ Open(current, g) = {}
  /\ \E r \in ResultId \ results :
        /\ results' = results \cup {r}
        /\ issue' = [issue EXCEPT ![r] = <<current, g>>]
        /\ acknowledged' = IF passed THEN acknowledged \cup {r} ELSE acknowledged
        /\ SaveResult(r, g, passed)

\* Mutant of Larger: both triggers must be met.
LargerAsMin(m, n) == IF m < n THEN m ELSE n

Larger(m, n) == IF m < n THEN n ELSE m

\* Mutants of MustNotify: the count is not tested; it is tested before it counts.
MustNotifyAgain(r) ==
  /\ r \in active
  /\ Priority[current] < Larger(EmailTrigger[current], CmmsTrigger[current])

MustNotifyAtZero(r) == MustNotifyAgain(r) /\ occurances[r] = 0

\* test_for_notification; the row was just saved, so it passed iff it is not
\* active.
MustNotify(r) ==
  /\ r \in active
  /\ Priority[current] < Larger(EmailTrigger[current], CmmsTrigger[current])
  /\ occurances[r] = 1

SendsMail == Priority[current] < EmailTrigger[current]
SendsWorkOrder == Priority[current] < CmmsTrigger[current] /\ current \in CmmsEnabled

\* The loop goes on after handle_result.  Reading the row for handle_result
\* began the transaction in which the next save_result looks for its row.
NextAlgorithm ==
  /\ pc' = "algorithms"
  /\ previously_active' = previously_active \ {row}
  /\ ran' = TRUE
  /\ seen' = acknowledged
  /\ UNCHANGED <<checks, todo, current, attached, algs, unrecent, row,
                 tables, assets, web>>

HandleQuietly ==
  /\ pc = "handle"
  /\ ~MustNotify(row)
  /\ NextAlgorithm
  /\ UNCHANGED world

\* issue_notify; a ConnectionError while raising the job is swallowed.
HandleNotify ==
  /\ pc = "handle"
  /\ MustNotify(row)
  /\ mails' = IF SendsMail THEN [mails EXCEPT ![row] = @ + 1] ELSE mails
  /\ jobs' \in {jobs} \cup
       IF SendsWorkOrder THEN {[jobs EXCEPT ![row] = @ + 1]} ELSE {}
  /\ NextAlgorithm

\* The local variables of check_asset go out of scope.
ForgetLocals ==
  /\ current' = None
  /\ algs' = {}
  /\ previously_active' = {}
  /\ unrecent' = {}
  /\ seen' = {}
  /\ row' = None
  /\ ran' = FALSE

\* Mutant of FinishAsset: rows the check did not touch stay active.
FinishAssetNoCleanup ==
  /\ pc = "algorithms"
  /\ algs = {}
  /\ pc' = "assets"
  /\ todo' = todo \ {current}
  /\ attached' = FALSE
  /\ recent' = recent \ unrecent
  /\ health' = IF ran THEN health ELSE [health EXCEPT ![current] = 0]
  /\ ForgetLocals
  /\ UNCHANGED <<results, issue, active, acknowledged, occurances, mapped, world,
                 checks, web>>

\* The end of check_asset: what the check did not touch becomes inactive.  The
\* impact of the issues is summed up and Asset.health left as it was, except
\* that an asset without algorithms gets 0.  The commit expires and the close
\* detaches every asset of the list of check_all.
FinishAsset ==
  /\ pc = "algorithms"
  /\ algs = {}
  /\ pc' = "assets"
  /\ todo' = todo \ {current}
  /\ attached' = FALSE
  /\ active' = active \ previously_active
  /\ recent' = recent \ unrecent
  /\ health' = IF ran THEN health ELSE [health EXCEPT ![current] = 0]
  /\ ForgetLocals
  /\ UNCHANGED <<results, issue, acknowledged, occurances, mapped, world,
                 checks, web>>

\* The job leaves check_all without a commit, its open transaction is rolled
\* back.
StopJob ==
  /\ pc' = "idle"
  /\ ForgetLocals
  /\ UNCHANGED <<checks, todo, attached, tables, assets, web>>

EndCheckAll ==
  /\ pc = "assets"
  /\ todo = {}
  /\ StopJob
  /\ UNCHANGED world

\* The loop of check_all goes on to an asset that the first check_asset has
\* expired and detached: the query on it raises DetachedInstanceError.
DetachedAsset ==
  /\ pc = "assets"
  /\ todo # {}
  /\ ~attached
  /\ StopJob
  /\ UNCHANGED world

\* An algorithm raises, the mail server refuses, or the process dies.
AbortCheck ==
  /\ Failures
  /\ pc # "idle"
  /\ StopJob
  /\ UNCHANGED world

\* The mail is sent and raising the work order fails with something other than
\* a ConnectionError (no Inbuildings configuration, an answer that is no JSON).
AbortAfterMail ==
  /\ Failures
  /\ pc = "handle"
  /\ MustNotify(row)
  /\ SendsMail
  /\ Priority[current] < CmmsTrigger[current]
  /\ mails' = [mails EXCEPT ![row] = @ + 1]
  /\ UNCHANGED jobs
  /\ StopJob

\* edit_asset, or a change of its points, gives the asset other algorithms.
EditAlgorithms(a, S) ==
  /\ S # mapped[a]
  /\ mapped' = [mapped EXCEPT ![a] = S]
  /\ UNCHANGED <<health, tables, world, job, web>>

-----------------------------------------------------------------------------
(***************************************************************************)
(* The users.                                                              *)
(***************************************************************************)

\* unresolved_list_all, unresolved_list, asset_details
ViewIssues(u, S) ==
  /\ phase[u] # "loaded"
  /\ phase' = [phase EXCEPT ![u] = "page"]
  /\ scope' = [scope EXCEPT ![u] = S]
  /\ page' = [page EXCEPT ![u] = Unresolved \cap RowsIn(S)]
  /\ UNCHANGED <<loaded_ack, ticked, tables, assets, world, job>>

\* unresolved_issues_submit up to its commit: every unresolved row is loaded
\* and has its notes in the form.  A ticked row that is resolved by now is loaded
\* acknowledged and stays so: nothing is written for it.
SubmitLoad(u, T) ==
  LET rows == Unresolved \cap RowsIn(scope[u]) IN
  /\ phase[u] = "page"
  /\ SubmitMayStart(u)
  /\ rows \subseteq page[u]
  /\ phase' = [phase EXCEPT ![u] = "loaded"]
  /\ loaded_ack' = [loaded_ack EXCEPT ![u] = rows \cap acknowledged]
  /\ ticked' = [ticked EXCEPT ![u] = T \cap rows]
  /\ UNCHANGED <<scope, page, tables, assets, world, job>>

\* The request is over; the next one starts from a page of its own.
Leave(u) ==
  /\ phase' = [phase EXCEPT ![u] = "away"]
  /\ scope' = [scope EXCEPT ![u] = {}]
  /\ page' = [page EXCEPT ![u] = {}]
  /\ loaded_ack' = [loaded_ack EXCEPT ![u] = {}]
  /\ ticked' = [ticked EXCEPT ![u] = {}]

\* A row that appeared after the page was rendered has no notes in the form:
\* request.form raises and nothing is committed.
SubmitRejected(u) ==
  /\ phase[u] = "page"
  /\ SubmitMayStart(u)
  /\ ~(Unresolved \cap RowsIn(scope[u]) \subseteq page[u])
  /\ Leave(u)
  /\ UNCHANGED <<tables, assets, world, job>>

\* The commit writes the unresolved rows that differ from what was loaded, and
\* every one that is ticked: the query for it flushes the reset to False first.
SubmitCommit(u) ==
  /\ phase[u] = "loaded"
  /\ acknowledged' = (acknowledged \ (loaded_ack[u] \ ticked[u])) \cup ticked[u]
  /\ Leave(u)
  /\ UNCHANGED <<results, issue, active, recent, occurances, assets, world, job>>

-----------------------------------------------------------------------------
RunAlgorithm ==
  \E g \in Algorithm, passed \in BOOLEAN :
     UpdateResult(g, passed) \/ CreateResult(g, passed)

JobStep ==
  \/ \E a \in Asset : BeginAsset(a)
  \/ RunAlgorithm
  \/ HandleQuietly
  \/ HandleNotify
  \/ FinishAsset
  \/ EndCheckAll
  \/ DetachedAsset

UserStep(u) ==
  \/ \E S \in Scope : ViewIssues(u, S)
  \/ \E T \in SUBSET page[u] : SubmitLoad(u, T)
  \/ SubmitRejected(u)
  \/ SubmitCommit(u)

Next ==
  \/ CheckAll
  \/ JobStep
  \/ AbortCheck
  \/ AbortAfterMail
  \/ \E a \in Asset, S \in SUBSET Algorithm : EditAlgorithms(a, S)
  \/ \E u \in User : UserStep(u)

Spec == Init /\ [][Next]_vars

\* The job runs to the end of what it is doing unless it dies; nothing forces
\* the scheduler to start it or a user to do anything, except that a request
\* that is being served is answered.
FairSpec ==
  /\ Spec
  /\ WF_vars(JobStep)
  /\ \A u \in User : WF_vars(SubmitCommit(u))

-----------------------------------------------------------------------------
(***************************************************************************)
(* Properties.                                                             *)
(***************************************************************************)

\* One row per open issue: save_result reuses the row that is still active or
\* unacknowledged, so an asset and an algorithm never have two unresolved rows.
OneUnresolvedPerIssue ==
  \A r, s \in Unresolved : issue[r] = issue[s] => r = s

\* History is final: once a row is inactive and acknowledged, neither a check
\* nor a submit opens it again; a recurrence is a row of its own.
ResolvedIsFinal ==
  [][\A r \in results : r \notin Unresolved => r \notin Unresolved']_vars

\* The table as its users see it: the issues that are there now, those of them that are
\* acknowledged, and those on the pages.
Raised == {issue[r] : r \in active}
Noted == {issue[r] : r \in active \cap acknowledged}
Listed == {issue[r] : r \in Unresolved}

Board ==
  INSTANCE IssueBoard WITH Issue <- Pair, raised <- Raised, noted <- Noted, open <- Listed

\* Whichever rows save_result reuses or makes, wherever a check dies and whatever old page
\* a user submits, an issue is open from its first failed check until it has passed or lost
\* its algorithm and has been acknowledged (algorithms.py 218-239, controllers.py 462-479).
KeepsBoard == Board!Spec

\* test_for_notification: a site is mailed at most once and gets at most one
\* work order for a row, whatever fails and whoever edits it meanwhile.
NotifiedOnce ==
  \A r \in ResultId : mails[r] <= 1 /\ jobs[r] <= 1

\* Once check_asset has run to its end, the active rows of the asset are rows
\* this very check has written, at most one for each algorithm.
CheckedIsSettled ==
  \A a \in Asset \ todo :
     /\ RowsOf(a) \cap active \subseteq recent
     /\ \A r, s \in RowsOf(a) \cap active : issue[r] = issue[s] => r = s

\* Once check_asset has run to its end, every active issue of the asset that is
\* urgent enough for a mail has been mailed to the site.
ActiveIsMailed ==
  \A a \in Asset \ todo :
     Priority[a] < EmailTrigger[a] => \A r \in RowsOf(a) \cap active : mails[r] >= 1

\* As long as nothing fails, an issue urgent enough for a mail does not stay
\* active without the site being mailed about it.
IssueLeadsToMail ==
  \A r \in ResultId :
     (r \in active /\ Priority[issue[r][1]] < EmailTrigger[issue[r][1]]) ~> (mails[r] = 1)

-----------------------------------------------------------------------------
(***************************************************************************)
(* The inductive invariants from which the properties are proved.          *)
(***************************************************************************)

\* A row that no check has counted was never notified, and a row that has been
\* counted once is notified only by the handler that is about to look at it.
NotifyInv ==
  /\ NotifiedOnce
  /\ \A r \in ResultId : occurances[r] = 0 => mails[r] = 0 /\ jobs[r] = 0
  /\ \A r \in ResultId \ results : occurances[r] = 0
  /\ pc = "handle" /\ occurances[row] = 1 => mails[row] = 0 /\ jobs[row] = 0

\* The active rows of the current asset that this check has written.
Touched ==
  {r \in RowsOf(current) \cap active :
     r \notin previously_active \/ (pc = "handle" /\ r = row)}

\* In the middle of a check, what is active and not left over from earlier
\* checks was written by this one, one row for each algorithm already run.
SettledInv ==
  /\ CheckedIsSettled
  /\ pc \in {"algorithms", "handle"} =>
       /\ unrecent \subseteq RowsOf(current)
       /\ previously_active \subseteq RowsOf(current)
       /\ Touched \subseteq recent \ unrecent
       /\ \A r \in Touched : issue[r][2] \notin algs
       /\ \A r, s \in Touched : issue[r] = issue[s] => r = s

\* When submits and checks exclude each other, the job knows the current
\* acknowledgements and a submit can only unacknowledge active rows.
SerialInv ==
  /\ OneUnresolvedPerIssue
  /\ pc = "algorithms" => seen = acknowledged
  /\ \A u \in User : phase[u] = "loaded" =>
       /\ pc \in {"idle", "assets"}
       /\ loaded_ack[u] \subseteq active
       /\ \A v \in User : phase[v] = "loaded" => v = u

\* The site of the row's asset wants a mail.
Urgent(r) == Priority[issue[r][1]] < EmailTrigger[issue[r][1]]

\* Neither the job nor a submit under way can open the row again.
Silent(r) ==
  /\ r \notin active
  /\ r \in acknowledged
  /\ pc = "algorithms" => r \in seen
  /\ \A u \in User : r \notin loaded_ack[u]

\* As long as nothing fails, an urgent row without a mail is the one the event
\* handler is about to look at, or its only check passed and nobody opens it.
MailInv ==
  /\ pc = "handle" => issue[row][1] = current
  /\ \A r \in results :
       Urgent(r) /\ mails[r] = 0 =>
         \/ pc = "handle" /\ r = row /\ r \in active /\ occurances[r] = 1
         \/ Silent(r)

=============================================================================
