------------------------------ MODULE Reports -------------------------------
(***************************************************************************)
(* The PDF reports of test plans.  A page queues a task and polls its      *)
(* state; a single Celery worker renders the parts of the report into      *)
(* files, merges them into one file under a name that is the same for all  *)
(* reports of a kind, and removes the parts; the page then downloads the   *)
(* file, and the download removes it.                                      *)
(*                                                                         *)
(* External, from how app/__init__.py 59-63 sets them up: RabbitMQ hands   *)
(* out the tasks in order, one at a time, and hands out again what was not *)
(* acknowledged when the worker died; Celery stores SUCCESS or FAILURE     *)
(* before it acknowledges.  A file that is removed while it is open keeps  *)
(* its contents for those who opened it.                                   *)
(***************************************************************************)
EXTENDS Naturals, Sequences, FiniteSets

CONSTANTS
  Report,        \* the reports that can be asked for
  KindOf,        \* report -> "plan" or "deliverables": which of the two tasks makes it
  Deliverables,  \* report -> number of deliverables in it
  Window,        \* browser windows
  Opens,         \* window -> the reports it asks for
  MaxTasks,      \* bound on the tasks that are queued, running or polled
  MaxCrashes,    \* bound on the deaths of the worker
  None           \* no report

Task == 1 .. MaxTasks
Kind == {"plan", "deliverables"}

ASSUME ReportsAssumption ==
  /\ KindOf \in [Report -> Kind]
  /\ Deliverables \in [Report -> Nat]
  /\ Opens \in [Window -> SUBSET Report]
  /\ IsFiniteSet(Window)
  /\ MaxCrashes \in Nat
  /\ MaxTasks \in Nat
  /\ None \notin Report

VARIABLES
  queue,      \* the messages RabbitMQ holds, first the next to hand out
  argument,   \* task -> the report it makes
  state,      \* task -> what the result backend answers
  worker,     \* what the worker is doing
  parts,      \* name -> the report whose page is in the file of that name
  output,     \* kind -> the inode of its report file, 0 for none
  inode,      \* inode -> the pages in it; a file being written has none yet
  page,       \* window -> what it shows
  crashes     \* how often the worker has died

tasks == <<queue, argument, state>>
files == <<parts, output, inode>>
vars == <<tasks, worker, files, page, crashes>>

-----------------------------------------------------------------------------
(* Reports and their parts. *)

ITP_base == 0
ITP_report_end == 1
pdf(x) == x + 2

\* The part files of a report, in the order in which they are merged.
Parts(r) ==
  LET pdfs == [x \in 1 .. Deliverables[r] |-> pdf(x - 1)]
  IN  IF KindOf[r] = "plan" THEN <<ITP_base>> \o pdfs \o <<ITP_report_end>> ELSE pdfs

Name == {ITP_base, ITP_report_end} \cup {pdf(x) : x \in UNION {0 .. Deliverables[r] : r \in Report}}

\* All the pages of a report.
Whole(r) == [i \in 1 .. Len(Parts(r)) |-> <<r, Parts(r)[i]>>]

\* How many parts a task renders before it divides by the number of deliverables.
FirstDeliverable(r) == IF KindOf[r] = "plan" THEN 2 ELSE 1

Pages == Seq(Report \X Name)
Inode == 1 .. Cardinality(Window) + 3

State == {"PENDING", "PROGRESS, no meta", "PROGRESS", "Complete", "SUCCESS", "FAILURE"}

\* What the worker is doing: the task, how far it is, the part it is at, what it has merged
\* and the file it has open.
Working ==
  [task : Task \cup {0},
   at : {"rest", "announce", "prepare", "render", "merge", "open", "write", "remove",
         "complete", "succeed", "ack"},
   part : Nat, merged : Pages, file : Inode \cup {0}]

\* What a window shows: the task it polls, the report it asked for, the file its download
\* reads, what was in the file when its length was taken, and what has arrived.
Showing ==
  {p \in [stage : {"closed", "polling", "link", "opened", "sending", "done", "stopped",
                   "stalled"},
          task : Task \cup {0}, report : Report \cup {None}, file : Inode \cup {0},
          body : Pages, received : Pages] :
     p.stage # "closed" => p.report # None}

Resting == [task |-> 0, at |-> "rest", part |-> 0, merged |-> <<>>, file |-> 0]
Closed == [stage |-> "closed", task |-> 0, report |-> None, file |-> 0,
           body |-> <<>>, received |-> <<>>]

TypeOK ==
  /\ queue \in Seq(Task)
  /\ argument \in [Task -> Report \cup {None}]
  /\ state \in [Task -> State]
  /\ worker \in Working
  /\ parts \in [Name -> Report \cup {None}]
  /\ output \in [Kind -> Inode \cup {0}]
  /\ inode \in [Inode -> Pages]
  /\ page \in [Window -> Showing]
  /\ crashes \in 0 .. MaxCrashes

Init ==
  /\ queue = <<>>
  /\ argument = [t \in Task |-> None]
  /\ state = [t \in Task |-> "PENDING"]
  /\ worker = Resting
  /\ parts = [n \in Name |-> None]
  /\ output = [k \in Kind |-> 0]
  /\ inode = [i \in Inode |-> <<>>]
  /\ page = [w \in Window |-> Closed]
  /\ crashes = 0

-----------------------------------------------------------------------------
(* The worker. *)

At(step) == worker.at = step
Now == worker.task
Making == argument[Now]

\* update_state
Reported(s) == state' = [state EXCEPT ![Now] = s]

\* Mutant of Fail: nothing is stored.
FailSilently == worker' = [worker EXCEPT !.at = "ack"] /\ UNCHANGED state

\* The task raises: Celery stores FAILURE and acknowledges.
Fail ==
  /\ Reported("FAILURE")
  /\ worker' = [worker EXCEPT !.at = "ack"]

Take ==
  /\ At("rest")
  /\ queue # <<>>
  /\ worker' = [Resting EXCEPT !.task = Head(queue), !.at = "announce"]
  /\ queue' = Tail(queue)
  /\ UNCHANGED <<argument, state, files, page, crashes>>

\* Mutant of Announce: a state the page does not know.
AnnounceStarted ==
  /\ At("announce")
  /\ Reported("STARTED")
  /\ worker' = [worker EXCEPT !.at = "prepare"]
  /\ UNCHANGED <<queue, argument, files, page, crashes>>

\* The first update_state has no meta.
Announce ==
  /\ At("announce")
  /\ Reported("PROGRESS, no meta")
  /\ worker' = [worker EXCEPT !.at = "prepare"]
  /\ UNCHANGED <<queue, argument, files, page, crashes>>

Prepare ==
  /\ At("prepare")
  /\ Reported("PROGRESS")
  /\ worker' = [worker EXCEPT !.at = "render", !.part = 1]
  /\ UNCHANGED <<queue, argument, files, page, crashes>>

\* Mutant of Render: a part whose file is there is not rendered again.
RenderMissing ==
  LET n == Parts(Making)[worker.part]
  IN  /\ At("render")
      /\ IF Deliverables[Making] = 0 /\ worker.part = FirstDeliverable(Making)
           THEN Fail /\ UNCHANGED parts
           ELSE /\ parts' = [parts EXCEPT ![n] = IF @ = None THEN Making ELSE @]
                /\ worker' = IF worker.part = Len(Parts(Making))
                               THEN [worker EXCEPT !.at = "merge", !.part = 1]
                               ELSE [worker EXCEPT !.part = @ + 1]
                /\ UNCHANGED state
      /\ UNCHANGED <<queue, argument, output, inode, page, crashes>>

\* write_pdf, part by part; without deliverables there is a division by zero after the
\* parts that come before them.
Render ==
  /\ At("render")
  /\ IF Deliverables[Making] = 0 /\ worker.part = FirstDeliverable(Making)
       THEN Fail /\ UNCHANGED parts
       ELSE /\ parts' = [parts EXCEPT ![Parts(Making)[worker.part]] = Making]
            /\ worker' = IF worker.part = Len(Parts(Making))
                           THEN [worker EXCEPT !.at = "merge", !.part = 1]
                           ELSE [worker EXCEPT !.part = @ + 1]
            /\ UNCHANGED state
  /\ UNCHANGED <<queue, argument, output, inode, page, crashes>>

\* merger.append reads the file; every part is there, this task has rendered it.
Merge ==
  LET n == Parts(Making)[worker.part]
  IN  /\ At("merge")
      /\ worker' =
           [worker EXCEPT
              !.merged = Append(@, <<parts[n], n>>),
              !.at     = IF worker.part = Len(Parts(Making)) THEN "open" ELSE @,
              !.part   = @ + 1]
      /\ UNCHANGED <<tasks, files, page, crashes>>

\* The inodes that a name leads to, or that the worker or one of the windows ws has open.
InUse(ws) == {output[k] : k \in Kind} \cup {worker.file} \cup {page[w].file : w \in ws}

\* An inode for a new file.
FreeInode == CHOOSE i \in Inode : i \notin InUse(Window)

\* Mutants of OpenOutput: both tasks write test_plan.pdf; the task goes on before the file
\* is filled.
OpenPlanOutput ==
  LET i == IF output["plan"] = 0 THEN FreeInode ELSE output["plan"]
  IN  /\ At("open")
      /\ output' = [output EXCEPT !["plan"] = i]
      /\ inode' = [inode EXCEPT ![i] = <<>>]
      /\ worker' = [worker EXCEPT !.at = "write", !.file = i]
      /\ UNCHANGED <<tasks, parts, page, crashes>>

OpenOutputOnly ==
  LET k == KindOf[Making]
      i == IF output[k] = 0 THEN FreeInode ELSE output[k]
  IN  /\ At("open")
      /\ output' = [output EXCEPT ![k] = i]
      /\ inode' = [inode EXCEPT ![i] = <<>>]
      /\ worker' = [worker EXCEPT !.at = "remove", !.part = 1]
      /\ UNCHANGED <<tasks, parts, page, crashes>>

\* merger.write opens the report file, which empties it or makes a new one, ...
OpenOutput ==
  LET k == KindOf[Making]
      i == IF output[k] = 0 THEN FreeInode ELSE output[k]
  IN  /\ At("open")
      /\ output' = [output EXCEPT ![k] = i]
      /\ inode' = [inode EXCEPT ![i] = <<>>]
      /\ worker' = [worker EXCEPT !.at = "write", !.file = i]
      /\ UNCHANGED <<tasks, parts, page, crashes>>

\* ... and fills it, wherever the name leads by then.
WriteOutput ==
  /\ At("write")
  /\ inode' = [inode EXCEPT ![worker.file] = worker.merged]
  /\ worker' = [worker EXCEPT !.at = "remove", !.part = 1, !.file = 0]
  /\ UNCHANGED <<tasks, parts, output, page, crashes>>

RemovePart ==
  /\ At("remove")
  /\ parts' = [parts EXCEPT ![Parts(Making)[worker.part]] = None]
  /\ worker' = IF worker.part = Len(Parts(Making))
                 THEN [worker EXCEPT !.at = "complete"]
                 ELSE [worker EXCEPT !.part = @ + 1]
  /\ UNCHANGED <<tasks, output, inode, page, crashes>>

\* The last update_state, and what Celery stores when the task returns.
Complete ==
  /\ At("complete")
  /\ Reported("Complete")
  /\ worker' = [worker EXCEPT !.at = "succeed"]
  /\ UNCHANGED <<queue, argument, files, page, crashes>>

Succeed ==
  /\ At("succeed")
  /\ Reported("SUCCESS")
  /\ worker' = [worker EXCEPT !.at = "ack"]
  /\ UNCHANGED <<queue, argument, files, page, crashes>>

Ack ==
  /\ At("ack")
  /\ worker' = Resting
  /\ UNCHANGED <<tasks, files, page, crashes>>

\* The daemon dies and is started again: the message comes back in front.
DaemonDies ==
  /\ ~At("rest")
  /\ crashes < MaxCrashes
  /\ crashes' = crashes + 1
  /\ queue' = <<Now>> \o queue
  /\ worker' = Resting
  /\ UNCHANGED <<argument, state, files, page>>

\* The process that runs the task dies and the daemon notices: FAILURE, and no retry, also
\* when the task had stored another result and the daemon had not heard of it yet.
ChildLost ==
  /\ ~At("rest")
  /\ crashes < MaxCrashes
  /\ crashes' = crashes + 1
  /\ Fail
  /\ UNCHANGED <<queue, argument, files, page>>

-----------------------------------------------------------------------------
(* The page. *)

Stage(w, s) == page[w].stage = s
Turns(w, s) == page' = [page EXCEPT ![w].stage = s]

\* Polling ends, and with it the interest in the task.
Ends(w, s) == page' = [page EXCEPT ![w].stage = s, ![w].task = 0]

\* The window closes the file it reads, whose pages are gone if it has no name.
Closes(w) ==
  inode' = [i \in Inode |-> IF i \in InUse(Window \ {w}) THEN inode[i] ELSE <<>>]

\* The tasks that are queued or running, or polled by one of the windows ws.
Alive(ws) ==
  {queue[i] : i \in 1 .. Len(queue)} \cup {worker.task} \cup {page[w].task : w \in ws}

\* onpageshow posts to longtask or longtaskDeliverables.  The user may open the page anew,
\* or another, at any time, and what the window showed is given up.  Assumed: a download
\* that has opened its file removes the name before the window asks anew; one that is left
\* behind and removes it later is that of another window.  An id that nothing refers to
\* stands for a new one, for which the backend answers PENDING.
Open(w, r) ==
  LET free == Task \ Alive(Window)
      gone == Task \ Alive(Window \ {w})
      t    == CHOOSE u \in free : TRUE
  IN  /\ ~Stage(w, "opened")
      /\ r \in Opens[w]
      /\ free # {}
      /\ argument' = [u \in Task |-> CASE u = t -> r [] u \in gone \ {t} -> None
                                       [] OTHER -> argument[u]]
      /\ state' = [u \in Task |-> IF u \in gone THEN "PENDING" ELSE state[u]]
      /\ queue' = Append(queue, t)
      /\ page' = [page EXCEPT ![w] = [Closed EXCEPT !.stage = "polling", !.task = t,
                                                    !.report = r]]
      /\ Closes(w)
      /\ UNCHANGED <<worker, parts, output, crashes>>

\* What the page does with the answer of taskstatus.  PENDING and PROGRESS are asked again;
\* without meta taskstatus raises, and the page hears nothing and asks no more.
Poll(w) ==
  LET s == state[page[w].task]
  IN  /\ Stage(w, "polling")
      /\ \/ s = "SUCCESS" /\ Ends(w, "link")
         \/ s \in {"Complete", "FAILURE"} /\ Ends(w, "stopped")
         \/ s = "PROGRESS, no meta" /\ Ends(w, "stalled")
      /\ UNCHANGED <<tasks, worker, files, crashes>>

\* download_report, download_Deliverable_report: send_file opens the file, or raises when
\* there is none, and then the hook that removes it is not run; ...
DownloadOpen(w) ==
  LET i == output[KindOf[page[w].report]]
  IN  /\ Stage(w, "link")
      /\ page' = IF i = 0
                   THEN [page EXCEPT ![w].stage = "done", ![w].received = <<>>]
                   ELSE [page EXCEPT ![w].stage = "opened", ![w].file = i, ![w].body = inode[i]]
      /\ UNCHANGED <<tasks, worker, files, crashes>>

\* ... remove_file removes the name, wherever it leads by then, ...
DownloadRemove(w) ==
  /\ Stage(w, "opened")
  /\ output' = [output EXCEPT ![KindOf[page[w].report]] = 0]
  /\ Turns(w, "sending")
  /\ UNCHANGED <<tasks, worker, parts, inode, crashes>>

\* ... and the body goes out: the file if it is still what it was when its length was
\* taken, or rubbish.
DownloadSend(w) ==
  LET p == page[w]
      intact == inode[p.file] = p.body
  IN  /\ Stage(w, "sending")
      /\ page' = [page EXCEPT ![w] = [p EXCEPT !.stage = "done", !.file = 0, !.body = <<>>,
                                        !.received = IF intact THEN p.body ELSE <<>>]]
      /\ Closes(w)
      /\ UNCHANGED <<tasks, worker, parts, output, crashes>>

-----------------------------------------------------------------------------
WorkerStep ==
  \/ Take \/ Announce \/ Prepare \/ Render \/ Merge \/ OpenOutput \/ WriteOutput
  \/ RemovePart \/ Complete \/ Succeed \/ Ack

PageStep(w) == Poll(w) \/ DownloadOpen(w) \/ DownloadRemove(w) \/ DownloadSend(w)

Next ==
  \/ WorkerStep
  \/ DaemonDies
  \/ ChildLost
  \/ \E w \in Window :
       \/ PageStep(w)
       \/ \E r \in Report : Open(w, r)

Spec == Init /\ [][Next]_vars

\* The daemon runs the tasks it is given, and a page polls every two seconds and follows
\* its link; nobody has to open a page.
FairSpec == Spec /\ WF_vars(WorkerStep) /\ \A w \in Window : WF_vars(PageStep(w))

-----------------------------------------------------------------------------
(* What is checked. *)

\* Nobody else asks for reports of the kinds this window asks for.
Unshared(w) ==
  \A v \in Window \ {w} : \A r \in Opens[w], s \in Opens[v] : KindOf[r] # KindOf[s]

\* What a task has merged (reports/controllers.py 283-304, 403-422) is its own report, every
\* page in order, although the part files have the same names for all tasks and a task that
\* died or failed leaves them behind.
MergedIsWhole ==
  worker.at \in {"open", "write", "remove", "complete", "succeed"}
    => worker.merged = Whole(Making)

\* A window that shares its kinds of report with nobody downloads pages of the report it
\* asked for and of no other, also when it gave up an earlier page or download, tasks of
\* other kinds ran in between and the worker died and ran a task again.  Windows that share
\* a kind overwrite and remove each other's file; nothing is said of them.
OwnPages ==
  \A w \in Window :
    Stage(w, "done") /\ Unshared(w)
      => \A i \in 1 .. Len(page[w].received) : page[w].received[i][1] = page[w].report

\* As long as the worker never died, such a window downloads the whole report: the file is
\* there when SUCCESS is seen, it is complete, and nobody removes it or writes to it.
WholeReport ==
  \A w \in Window :
    Stage(w, "done") /\ Unshared(w) /\ crashes = 0
      => page[w].received = Whole(page[w].report)

\* A page does not poll the same task for ever (loading_page.html 61-91): the worker gets to
\* it, also past tasks that fail and die, and leaves a state that ends the polling.
PollingEnds ==
  \A w \in Window, t \in Task :
    (Stage(w, "polling") /\ page[w].task = t) ~> ~(Stage(w, "polling") /\ page[w].task = t)
-----------------------------------------------------------------------------
(* The inductive invariant from which MergedIsWhole is proved. *)

\* The task has rendered its first n parts; the worker has merged the first n pages.
Rendered(n) == \A i \in 1 .. n : parts[Parts(Making)[i]] = Making
Merged(n) ==
  /\ Len(worker.merged) = n
  /\ \A i \in 1 .. n : worker.merged[i] = <<Making, Parts(Making)[i]>>

\* What is queued or running has a report to make, and what the worker has done of it is
\* of that report, whatever lay in the part files when it began.
WorkerInv ==
  /\ \A i \in 1 .. Len(queue) : argument[queue[i]] \in Report
  /\ ~At("rest") => Now \in Task /\ Making \in Report
  /\ worker.at \in {"announce", "prepare", "render"} => worker.merged = <<>>
  /\ At("render") =>
       /\ worker.part > 0
       /\ \/ worker.part <= Len(Parts(Making))
          \/ Deliverables[Making] = 0 /\ worker.part = FirstDeliverable(Making)
       /\ Rendered(worker.part - 1)
  /\ At("merge") =>
       /\ worker.part \in 1 .. Len(Parts(Making))
       /\ Rendered(Len(Parts(Making)))
       /\ Merged(worker.part - 1)
  /\ MergedIsWhole

-----------------------------------------------------------------------------
(* The inductive invariants from which OwnPages and WholeReport are proved. *)

Asked(w) == KindOf[page[w].report]
Queued(k) == {i \in 1 .. Len(queue) : KindOf[argument[queue[i]]] = k}
Running(k) == ~At("rest") /\ KindOf[Making] = k

\* The steps of a task after it has written its report.
Written == {"remove", "complete", "succeed"}

\* The two report files never share an inode, and the worker writes to the one of its own
\* kind or to one that has lost its name; once it has written, its report is what the name
\* leads to, if it leads anywhere.
FileInv ==
  /\ \A k, l \in Kind : k # l /\ output[k] # 0 => output[k] # output[l]
  /\ At("write") =>
       /\ worker.file # 0
       /\ output[KindOf[Making]] \in {0, worker.file}
       /\ \A l \in Kind \ {KindOf[Making]} : output[l] # worker.file
  /\ worker.at \in Written /\ output[KindOf[Making]] # 0
       => inode[output[KindOf[Making]]] = Whole(Making)

\* What such a window polls is the last task of its kind: none is behind it in the queue,
\* and none is queued while it runs.
LastOfItsKind(w) ==
  /\ page[w].task \in Task
  /\ argument[page[w].task] = page[w].report
  /\ \A i \in 1 .. Len(queue), j \in Queued(Asked(w)) : queue[i] = page[w].task => j <= i
  /\ Now = page[w].task =>
       /\ Queued(Asked(w)) = {}
       /\ At("write") => output[Asked(w)] = worker.file
       /\ worker.at \in Written => output[Asked(w)] # 0

PollInv ==
  \A w \in Window :
    /\ ~Stage(w, "closed") => page[w].report \in Opens[w]
    /\ Stage(w, "polling") /\ Unshared(w) => LastOfItsKind(w)

\* The window has a link to the report, or will see one.
Served(w) ==
  \/ Stage(w, "link")
  \/ Stage(w, "polling") /\ state[page[w].task] = "SUCCESS"

Only(s, r) == \A i \in 1 .. Len(s) : s[i][1] = r

\* When the report is ready, what is still to come of its kind is the same report again,
\* after a crash, and no page of another report is in the file or on its way.
OnlyOwn(w) ==
  /\ Served(w) =>
       /\ \A i \in Queued(Asked(w)) : argument[queue[i]] = page[w].report
       /\ Running(Asked(w)) => Making = page[w].report
       /\ output[Asked(w)] # 0 => Only(inode[output[Asked(w)]], page[w].report)
  /\ page[w].stage \in {"opened", "sending"} => Only(page[w].body, page[w].report)
  /\ Stage(w, "done") => Only(page[w].received, page[w].report)

OwnInv == \A w \in Window : Unshared(w) => OnlyOwn(w)

\* Nothing of the window's kind is queued, and what runs of it is about to be acknowledged.
Alone(w) == Queued(Asked(w)) = {} /\ (Running(Asked(w)) => At("ack"))

\* As long as the worker never died, the file is there until the window has opened it,
\* and nobody writes to it until the window has sent it.
AllOfIt(w) ==
  /\ Served(w) =>
       /\ Alone(w)
       /\ output[Asked(w)] # 0
       /\ inode[output[Asked(w)]] = Whole(page[w].report)
  /\ page[w].stage \in {"opened", "sending"} =>
       /\ Alone(w)
       /\ page[w].file # 0
       /\ page[w].body = Whole(page[w].report)
       /\ inode[page[w].file] = page[w].body
       /\ At("write") => worker.file # page[w].file
       /\ \A k \in Kind : output[k] = page[w].file => Stage(w, "opened") /\ k = Asked(w)
  /\ Stage(w, "done") => page[w].received = Whole(page[w].report)

WholeInv == crashes = 0 => \A w \in Window : Unshared(w) => AllOfIt(w)
=============================================================================
