# A verification project for Medusa

Medusa is a Flask web application for building services: it runs fault-detection
algorithms on the assets of a site, keeps the issues they find, tracks tickets,
and drives the commissioning paperwork (inspection and test plans) of projects.
This directory holds TLA+ models of its core, the TLC configurations that check
them on small instances, and proofs checked by TLAPS.

## 1. The system

Deployment (docs/dev, `uwsgi.ini`, `scheduler.py`): nginx in front of several
uWSGI workers, `scheduler.py` as a uWSGI mule, a Celery worker, and one MySQL
database (InnoDB, repeatable read).  The processes share the database and the
file system, nothing else.  Every handler loads objects through SQLAlchemy's
session, changes them, and commits; the interval between the load and the commit
is where requests and jobs interleave.

### Inventory

| Component | State | Operations | What is hard, what makes it correct |
|---|---|---|---|
| Issue engine (`algorithms/algorithms.py`, `event_handler`, `notification/notifier.py`, `cmms/inbuildings.py`) | rows of `result`, mapping of algorithms to assets | `check_all`, `check_asset`, `save_result`, mail, work order, issue pages | job and pages share rows; a job may die between its commits. One unresolved row per issue, one notification per row, a check leaves only its own rows active |
| Tickets (`ticket/`) | ticket, history, actions, subscriptions, posts | create, delete, claim, release, assign, close, reopen, edit, reply, subscribe | overlapping requests test one state and change another. Status, assignee, resolution, texts and subscriptions agree |
| Checklists (`controllers.py` 1386-1738, 1878-1932, 2021-2033) | checks with four completion columns, stored percentages, checks of templates | add, start, view, save, complete all, edit, delete; checks added to and deleted from templates in use | stale forms, percentages derived by a later request, saves that fail half-way, checks that vanish with their template check. Stored numbers are those of the checks |
| Test plans and templates (`controllers.py` 1019-2033, `models/ITP.py`) | seven tables linked by foreign keys, group numbers | create, edit, delete of each | what a deletion takes along. No dangling or foreign row, numbering per group |
| Projects, dashboards, sites, site configuration (`controllers.py`) | names, dates, counts | forms and charts | read the tables above |
| Reports (`reports/controllers.py`, `loading_page.html`) | part files and report files with fixed names, the queue and the states of Celery tasks | start, poll, render, merge, download | tasks share file names, a dead worker's task is run again, a download removes the file. A task merges its own report, a page gets it, no page polls for ever |
| Site data agent (`sitedataagent`, `utils/aws/iam.py`) | one row per site, IAM users, groups and keys | enable, disable | up to eight remote calls, half of which may fail unnoticed, and two transactions. AWS accepts the key on record and no other |
| Asset mapping (`hvac_assets`, `models/__init__.py`) | asset, points, functions, mapping | add, edit asset | the mapping is derived in a flush hook |
| Scheduler, point registration, issue history | appended rows | jobs | only logged at this commit |
| ICT/Salt, weather, users, administration, building database | | thin clients or library code | |

The components meet in the database: the mapping feeds the issue engine, tickets
hang from projects, templates feed deliverables and checklists.

## 2. The modules

Each component has a module, an `MC` module that gives its constants values for
TLC, and a `Proofs` module (Reports has a second one, `DeliveryProofs`). `IssueBoard`
and `AgentKeys` are abstract specifications that `Issues` and `DataAgent` are shown to
implement.

**Issues.**  A Boolean column is the set of rows where it is true (`active`,
`acknowledged`, `recent`); `occurances` counts checks; `mails` and `jobs` record
what left the system.  The job is a program counter with the locals of
`check_asset`.  `BeginAsset` is the read of the mapping and of the rows that were
active; `UpdateResult` and `CreateResult` are `save_result` with its commit;
`HandleQuietly` and `HandleNotify` the event handler; `FinishAsset` the end of
`check_asset`, which deactivates the rows no algorithm has touched.  `seen` are
the acknowledgements of the transaction the job is in, which is what a repeatable
read shows.  `AbortCheck` and `AbortAfterMail` are an exception or a crash at any
step; the session rolls back.  A user opens a page (`ViewIssues`), posts it
(`SubmitLoad`), and the handler commits (`SubmitCommit`).  `Interleaved` says
whether a submit's commit may fall inside a transaction of the job, `Failures`
whether anything may fail.

**Tickets.**  One ticket, since no handler touches two.  A request in flight is a
record with its operation, stage and what it has loaded; each action is the part
of a handler between two accesses to the database.  `Update` is the object
mapper: a column is written only if its new value differs from the loaded one.
`Abandon` ends a request between two of its transactions.

**Checklist.**  The checks of checklists, the percentages derived from them, and
browser windows.  A window shows a form (`page`) that may be older than the
database, and follows a redirect in a request of its own (`redirect`), which is
when `ITC_testing` or the list page store a percentage.  A check is made from a
template check (`ITC_check`), and templates change while checklists exist:
`ItcCheckNew` adds a check that older checklists do not get, `ItcCheckDelete`
(`ITC_check_general_delete`) takes the checks made from it along and derives nothing,
`GenericCheckDelete` leaves them without text, after which the page of the checklist
raises (`ViewTesting` shows nothing) and so does a save that ticks one of them
(`SaveMissing`).  `stale` marks the checklists whose last save ended in an error page
or that have lost a check with its template check, until a page derives their numbers
again.  `ItcDelete` removes a checklist; its checks, which the code leaves in the table
without a checklist, are of no further interest here (`Plan` keeps them).

**Plan.**  The same tables as foreign keys only: which rows exist, what they
refer to, and the number of a checklist in its group.  `Unlinked` and `Orphaned`
are what SQLAlchemy does with the children of a deleted row when the relationship
has no cascade.  Rows of `Deliverable_check_map` are the pairs of their two keys.  A
template whose group is not found has none, and the templates without a group are
counted like those of a group.

**IssueBoard.**  The issue engine without rows, checks and transactions: the sets
of issues that are raised, acknowledged while raised, and open.  An issue is open
from the moment it is raised until it is both gone and acknowledged.  `Issues`
implements it with `raised <- Raised`, `noted <- Noted`, `open <- Listed`, the
images of the row sets under `issue`.

**Reports.**  The queue of RabbitMQ, the states the result backend answers, one
worker with the locals of the running task, the files, and the windows.  `Take` to
`Ack` are the worker: `Announce` is the first `update_state`, without meta;
`Render`, `Merge` and `RemovePart` go part by part; `OpenOutput` and `WriteOutput`
are the two halves of `merger.write`.  The later `update_state` calls of a task
all store PROGRESS and are one with `Prepare`.  `DaemonDies` puts the message back
(late acknowledgement), `ChildLost` stores FAILURE, even over a SUCCESS that the daemon
has not heard of.  A page posts (`Open`), polls (`Poll`) and downloads in three steps:
`send_file` opens the file, the `after_this_request` hook removes its name, the server
sends the body.  If there is no file, `send_file` raises and the hook is not run.  The user may leave a page for another at any time.  One assumption is
made about it, on which `OwnPages` and `WholeReport` rest: a download request that the
user leaves behind has either removed the name by the time the window asks anew, or
never reaches the server; one that is served late behaves like the request of another
window, with which the kind of report is then shared.  A report
file is an inode, so that a file that is removed or emptied while it is read
behaves as on Linux.  Task ids and inodes that nothing leads to are used again,
which stands for the new ones of the real system and keeps the model finite.

**DataAgent.**  One site.  `generate_access_keys` is one action per call to AWS
(named after the calls) and per transaction (`Load`, `Commit`).  `Swallow` is a
failing call of the deleting half, whose exceptions are caught; `Die` is any other
failing call or the death of the server.  `Written` is the object mapper: only
columns that differ from what was loaded are written.  `calm` says that no request
has overlapped another and nothing has failed so far; `disables` counts the
undisturbed requests to disable since then.  AWS is modelled as used: at most two
keys of a user, no user deleted who has keys or a group, a deletion that takes
effect at once; one page of `list_users` is assumed to hold all users.

**AgentKeys.**  What the page promises: it revokes what is live, then issues and
records a new key, or records none.  `DataAgent` implements it with
`live <- keys \ Pending` (a key is in nobody's hands until its request commits) and
`record <-` the recorded key of an enabled row.

## 3. Runs

| Run | Shows | Bounds |
|---|---|---|
| IssuesSerial | one unresolved row per issue, a resolved row stays resolved, the table implements `IssueBoard`, with failures and submits that do not overlap the job | 1 asset, 2 algorithms, 4 rows, 1 user, 3 checks |
| IssuesConcurrent | no row notified twice; a completed check leaves only rows of its own active; overlap, failures, edits of the mapping | 4 rows, 2 users, 4 checks |
| IssuesReliable | without failures an urgent issue is mailed, and eventually | 2 assets, 2 rows, 2 checks |
| IssuesLostMail | *violation*: a check that dies before the mail is never made up for | |
| TicketsSerial | status, assignee, resolution, record of actions, texts, subscriptions agree; a closed ticket is frozen; with failures, no overlap | 2 users, 2 windows, 3 texts |
| TicketsConcurrent | with overlap a closed ticket has its resolution, duplicates are bounded | 2 users, 2 windows, 1 text |
| TicketsFrozen | *violation*: a late commit changes a closed ticket | |
| ChecklistSerial | percentages, both ways of counting, signatures, numbering | 2 checklists of two templates (2 checks and none), 3 check ids, 2 windows, numbers to 2 |
| PlanSerial | foreign keys, templates, group numbers | 1 deliverable, 3 templates, with a group and without, 3 checklists, 1 template check, numbers to 3 |
| PlanOrphans | *violation*: deleting a generic check orphans checks | |
| Reports | a task merges its own report; a window that shares its kind of report with nobody downloads its own pages, all of them unless the worker died; no page polls for ever | a plan with one deliverable, one without, a list of two deliverables; 2 windows, 2 tasks alive, 1 death |
| DataAgent | undisturbed requests implement `AgentKeys`, an enabled agent works; two undisturbed disables clean up after anything | 2 windows, 6 keys, any number of overlaps and failures |

Three checks on an issue are needed for a row to be opened, resolved and opened
again by another row; the fourth meets that row after an abort.  Two windows give
every pair of overlapping requests; a ticket knows no third party beyond its
author, its assignee and an admin.  Three rows are the fewest that tell a move to
the end, to the front and to the middle apart, which `PlanSerial` has; in
`ChecklistSerial` two checks are as many as a run can take together with changing
templates, and longer checklists are covered by the theorem.  The first plan of
`ChecklistSerial` starts without checklists, so `site_project_update` divides by
zero until `i2` is added.  Symmetry is used for ids, texts and windows, never in
the liveness runs.  `CHECK_DEADLOCK` stays on everywhere: every module can
always take another request.  Six keys are more than AWS, the row and two requests
can name at once, so a new one is always found.  The report without deliverables
makes its task fail half-way and leave a part file behind; two tasks let one wait
for, or run between, the tries of the other.  A download that finds no file needs two
windows that share a kind; with a third window for that (and no deaths) the invariants
hold as well, in 1.4 million states, too many for a run with liveness; the theorems cover
any number of windows.

**Fairness.**  `FairSpec` of Issues (IssuesReliable) assumes weak fairness
of the steps of a job that has been started and of the commit of a submit that
has been received: the mule and the worker are processes the operating system
schedules, and neither waits for anything but the database.  Starting a job and
posting a form are not assumed to happen.  `FairSpec` of Reports assumes weak
fairness of the worker, which is a daemon that is started again when it dies (at
most `MaxCrashes` times: a worker that dies for ever makes no progress), and of
each page's next step, which a timer of two seconds or the browser takes; a page
that was closed is one that takes its steps unseen.  Nobody has to open a page.

## 4. Where code and documentation disagree

Three runs end in a violation, each with its quotation in `PROJECT.json`:

- `event_handler.py:23` says an issue must not have been notified already; the code
  tests for the first occurrence, which is committed before the mail goes out.
- `docs/user/Tickets.md:30` says a closed ticket cannot be changed; a request that
  has passed its test can.
- `docs/dev/ITP.md:32` says a deletion takes care of what relies on the object;
  `generic_check_delete` does not.

Other observations, made with the same modules and kept out of the run list:

- `check_asset` ends with a commit and a close of the session, which expire and detach
  the assets `check_all` still has on its list: the job ends with an exception after
  its first asset (`DetachedAsset`), although `algorithms.py:143` says all are checked.
- `ITC_check_general_delete` deletes the checks made from a template check from live
  checklists and leads to a page that derives nothing (`controllers.py:1927`): of two
  checks, one of them done, the stored percentage stays 50 when the other is deleted,
  until somebody opens the checklist or its list, although `docs/user/project.md:54`
  says it is automatically updated.  The numbers of the remaining checks keep the gap.
  `PercentageFresh` and `NumberingKept` name this exception.
- A check that `generic_check_delete` has orphaned makes the page of its checklist and
  every save that ticks it raise (`specific_ITC/ITC.html:66`, `controllers.py:1553`),
  until the testing is started anew, which regenerates the checks.
- The percentage of a plan is computed before that of the checklist is stored, and
  only for the first plan of a project (`UpdateProject`); `docs/user/project.md:54`
  says that all views show the latest.
- Two windows that ask for the same kind of report share its file: a download may be
  the other's report, or an error page if the other has fetched it first.
- A page that polls between the last `update_state` ("Complete") and the end of the
  task stops with "Result: Complete" and no download; one that polls between the first
  `update_state` and the second gets an error from `taskstatus`, which reads the meta
  that is not there, and never asks again.
- A worker that dies between storing SUCCESS and the acknowledgement runs the task
  again and empties the file while it is being downloaded.
- One swallowed failure of `delete_access_key` leaves AWS with two keys once the agent
  is enabled again: `delete_access_key` removes one per request, `delete_user` is
  refused while another is left and has already taken the user out of the group, and
  `create_user` adds only new users to it.  Enabling again never repairs this,
  disabling twice does (`TwoDisablesRevoke`); the comment at
  `sitedataagent/controllers.py:60` says user and keys are deleted first.
- `map_asset_on_update` still sees the points that `edit_asset` has just deleted, and
  keeps algorithms that need them mapped until the next edit.  `add_asset` computes
  the exclusions inside the loop over the ticked algorithms.
- With `Interleaved = TRUE` TLC refutes `ResolvedIsFinal` and
  `OneUnresolvedPerIssue`: `save_result` reopens a row acknowledged since its
  transaction began.  For the same reason the hypothesis `~Interleaved` cannot be dropped from
  the theorems on `NoTextLost`, `CanUnsubscribe`, `InWorkIsAssigned` and
  `ResolvedIffClosed`: with overlapping requests TLC refutes each of them.
- `close_status` commits its action before it reads the resolution from the form;
  if the form has none, the history says closed and the ticket is open.
- Two windows on a checklist: a save takes back every check that is done and not
  ticked in its own form, the other user's included.
- A check set to Completed by `check_edit` has no completion date, and
  `site_project_ITP` compares dates.
- Moving a check or checklist backwards, but not to the end, duplicates a number;
  deleting a checklist renumbers all groups (`Misnumbers` of Checklist and of Plan list
  every such case, and `NumberingKept` and `GroupsKept` say there is no other).
- `Asset.health` is computed and never assigned.
- Editing a specific checklist renames its template; editing a generic check adds
  a new text and leaves the old.

## 5. Proofs

| Module | Theorems | Argument |
|---|---|---|
| IssuesProofs | `TypeCorrect`, `NotifiedOnceHolds`, `CheckedIsSettledHolds`; without overlap `OneUnresolvedHolds`, `ResolvedIsFinalHolds`, `ImplementsBoard`; without failures `ActiveIsMailedHolds` | below |
| TicketsProofs | `TypeCorrect`, `ClosedHasResolutionHolds`, `DuplicatesBoundedHolds`; without overlap `ResolvedIffClosedHolds`, `InWorkIsAssignedHolds`, `NoTextLostHolds`, `CanUnsubscribeHolds`, `ClosedIsFrozenHolds`, `ClosedIsRecordedHolds` | below |
| ChecklistProofs | `TypeCorrect`, `ViewsAgreeHolds`, `UndoneIsUnsignedHolds`, `PercentageFreshHolds`, `NumberingKeptHolds`, `HundredMeansAll` | below |
| PlanProofs | `TypeCorrect`, `ChecklistHasTemplateHolds`, `SameTemplateHolds`, `GroupsKeptHolds` | below |
| ReportsProofs | `ReportsTypes`, `MergedIsWholeHolds` | below |
| DeliveryProofs | `OwnPagesHolds`, `WholeReportHolds` | below |
| DataAgentProofs | `DataAgentTypes`, `ImplementsAgentKeys`, `OnlyRecordedKeyLive`, `EnabledAgentWorks`, `DisablingTwiceRevokes` | below |

They hold for every value of the constants that satisfies the named `ASSUME` of the
component's module: sets of any size, any priorities and templates.

- `NotifiedOnce` is not inductive: a second mail is excluded by the *count* of the
  row.  `NotifyInv` says that a row that has been notified has been counted, and
  that a row waiting for its handler with count 1 has not been notified yet.
- `CheckedIsSettled` speaks of a finished check; `SettledInv` says what holds in the
  middle of one: every active row of the asset is either one that the check has
  written or one that it still has on its list.
- Without overlap, `SerialInv` of Issues says that what the transaction has seen of
  the acknowledgements is what the table holds, so `save_result` finds exactly the
  unresolved row.
- `ActiveIsMailed` is proved for `Failures = FALSE` (with failures `IssuesLostMail`
  refutes it) from `MailInv`, which also covers rows that are not active: an urgent row
  without a mail is the one the event handler is about to look at, or its check passed,
  it is acknowledged in the table and in what the job has seen, and no submit under way
  can open it again.
- `SubscriptionInv` bounds the rows of a user by the windows that are not about to
  insert another; the bound of `DuplicatesBounded` follows by counting windows.
- `SerialInv` of Tickets says that at most one request is in flight and that it has
  loaded what is still in the table (`Current`): each commit then acts on the state
  its test has seen.
- `AgreeInv` extends `ViewsAgree` and `UndoneIsUnsigned` to the ids not in use, which
  come back as new checks.
- `FreshInv` adds to `PercentageFresh` that what a window shows and still exists is on
  the checklist the window shows (`ShownIsOwn`).  A save works on the ids of its form,
  so without it a save could disturb the percentage of a checklist other than the one
  it derives afterwards.
- The exceptions of `PercentageFresh` are in the state: `stale` grows by the checklist of
  a save that raises and by those that lose a check with its template check, and shrinks
  when a page derives the percentage.  For every other step the proof shows that it
  leaves the checks of a settled checklist alone, or sends its window to such a page.
- `NumberingKept` and `GroupsKept` are action properties: one lemma per renumbering
  (add, move, delete) shows that the new numbers are again between 1 and the count and
  still differ.  `GroupsKept` needs one more fact, `CountsArePeers`: the handlers count
  the different *templates* of a group, which are as many as its checklists as long as
  no template is listed twice.
- `TemplateInv` is `ChecklistHasTemplate` and `SameTemplate`, inductive relative to
  `TypeOK`.  The work is in the type invariant: it says that an id not in use is
  referred to by nobody and refers to nothing, without which a new row would
  inherit the checks of a deleted one that had its id.
- `ImplementsBoard` needs `SerialInv` for one reason: with at most one unresolved row
  per issue the images of row sets under `issue` behave like the row sets, so taking
  rows away takes their issues away.
- `RecordInv` adds to `ClosedIsRecorded` that a closing about to be committed is on
  record, and that an action recorded late finds the ticket not closed.
- `WorkerInv` says that the parts a task has rendered hold its own pages and that what
  it has merged is the beginning of its report; what earlier tasks left in the part
  files plays no role because a task renders every part before it merges the first.
  The type invariant of Reports needs a free inode for each new file: two names, the
  worker and every window use at most `Cardinality(Window) + 3`, and when a name has
  none, one fewer.
- `OwnPages` and `WholeReport` speak of the end of a download, the proof follows the
  file from the task to the window in four layers.  `FileInv`: the two names never
  lead to the same inode, the worker writes to the file of its own kind or to one that
  has lost its name, and what it has written is its whole report.  `PollInv`: the task a
  window polls is the last of its kind in the queue, and while it runs nothing of its
  kind is queued and its file keeps its name, because only this window could remove it.
  `OwnInv`: once the report is ready, all that is queued, running, in the file or on its
  way is of this report; after a crash the same task may run again.  `WholeInv`: as long
  as nothing died, nothing of the kind is queued or running any more, so the inode that
  the window has opened is written by nobody and is given to no new file.  The first
  section of `DeliveryProofs` says once what each action does to the fields involved;
  the invariants are then proved from these statements.
- `SerialInv` and `CalmInv` of DataAgent say, for each call, what AWS holds when an
  undisturbed request gets there: no key after the deletion, no user before the
  creation.  `RecoveryInv` says the same of the first and the second of two requests to
  disable, starting from at most two keys.

Checked by TLC only: liveness (`IssueLeadsToMail`, `PollingEnds`), which is out of the
prover's reach, and the three violations.  Every invariant and every action property of
the passing runs is stated by a theorem.

## 6. Not modelled

Requests on checklists and plans do not overlap in the models (stale windows do).
Details of overlapping requests on which no property depends: an assignment whose form
names no existing user (the page cannot send one), the separate transaction in which
`assign` looks for a subscription, and transactions that begin with the read of the
logged-in user (`DataAgent`) or of the list of assets (`Issues`) a little before the
action that stands for their first read.
Names, comments, dates and locations; deletion of projects; dashboards and filters;
editing and deleting of posts; uploads; mails about tickets; categories and
departments.  What derives the algorithms of an asset from its points: `Issues` lets
the mapping become any set at any time, which covers every derivation.  The
synchronisation with the CMMS.  `src/redis-4.0.6` is the vendored source of Redis,
third-party code that the application only uses, unchanged and through Celery, to
store the states of tasks; `Reports` models that use of it.  Components without core
logic of their own are listed in `PROJECT.json` with the reason.

## 7. Plan

1. The mapping of algorithms to assets (`before_flush`, add and edit of assets),
   composed with `Issues` in place of `EditAlgorithms`.
2. The order in which `site_project_update` derives the percentages of a plan, with
   all plans of a project.
3. What a window that shares its kind of report with another is still promised.
