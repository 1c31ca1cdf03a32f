--------------------------- MODULE ReportsProofs ----------------------------
(***************************************************************************)
(* What TLAPS shows of Reports: the types, and that a task merges its own  *)
(* report and all of it, for any reports, windows, tasks and crashes.      *)
(***************************************************************************)
EXTENDS Reports, SequenceTheorems, FiniteSetTheorems, TLAPS

\* The parts of a report are files with names; without deliverables the rendering ends
\* before the first of them.
LEMMA PartsTyped ==
  ASSUME NEW r \in Report
  PROVE  /\ Parts(r) \in Seq(Name)
         /\ Deliverables[r] # 0 => Len(Parts(r)) \in Nat \ {0}
         /\ Deliverables[r] = 0 /\ FirstDeliverable(r) = 2 => Len(Parts(r)) = 2
<1> DEFINE n == Deliverables[r]
           pdfs == [x \in 1 .. n |-> pdf(x - 1)]
<1>1. n \in Nat BY ReportsAssumption
<1>2. pdfs \in Seq(Name)
  <2>1. ASSUME NEW x \in 1 .. n PROVE pdf(x - 1) \in Name
    <3>1. x - 1 \in 0 .. n BY <1>1
    <3> QED BY <3>1 DEF Name
  <2> QED BY <1>1, <2>1, IsASeq
<1>3. Len(pdfs) = n BY <1>1
<1>4. ITP_base \in Name /\ ITP_report_end \in Name BY DEF Name
<1>5. <<ITP_base>> \in Seq(Name) /\ Len(<<ITP_base>>) = 1 BY <1>4
<1>6. <<ITP_report_end>> \in Seq(Name) /\ Len(<<ITP_report_end>>) = 1 BY <1>4
<1>7. CASE KindOf[r] = "plan"
  <2> DEFINE front == <<ITP_base>> \o pdfs
  <2>1. front \in Seq(Name) /\ Len(front) = 1 + n
    BY <1>1, <1>2, <1>3, <1>5, ConcatProperties
  <2>2. front \o <<ITP_report_end>> \in Seq(Name) /\ Len(front \o <<ITP_report_end>>) = n + 2
    <3> HIDE DEF front
    <3> QED BY <1>1, <2>1, <1>6, ConcatProperties
  <2>3. Parts(r) = front \o <<ITP_report_end>> BY <1>7 DEF Parts
  <2> HIDE DEF front
  <2> QED BY <1>1, <2>2, <2>3
<1>8. CASE KindOf[r] # "plan"
  <2>1. Parts(r) = pdfs BY <1>8 DEF Parts
  <2>2. FirstDeliverable(r) = 1 BY <1>8 DEF FirstDeliverable
  <2> HIDE DEF pdfs
  <2> QED BY <1>1, <1>2, <1>3, <2>1, <2>2
<1> QED BY <1>7, <1>8

\* There are more inodes than anybody can be using when a new file is made.
LEMMA FreeInodeTyped ==
  ASSUME TypeOK, NEW k \in Kind, output[k] = 0
  PROVE  FreeInode \in Inode /\ FreeInode \notin InUse(Window)
<1> DEFINE N == Cardinality(Window)
           names == {output[j] : j \in Kind}
           read == {page[w].file : w \in Window}
           open == [w \in Window |-> page[w].file]
<1>1. IsFiniteSet(Window) /\ N \in Nat BY ReportsAssumption, FS_CardinalityType
<1>2. IsFiniteSet(Inode) /\ Cardinality(Inode) = N + 3
  BY <1>1, FS_Interval DEF Inode
<1>3. IsFiniteSet(Inode \cup {0}) /\ Cardinality(Inode \cup {0}) = N + 4
  <2>1. 0 \notin Inode BY <1>1 DEF Inode
  <2> QED BY <1>1, <1>2, <2>1, FS_AddElement
<1>4. IsFiniteSet(read) /\ Cardinality(read) <= N
  <2>1. open \in Surjection(Window, read) BY DEF Surjection
  <2> QED BY <1>1, <2>1, FS_Surjection
<1>5. IsFiniteSet(names) /\ Cardinality(names) <= 2
  <2>1. names = {output["plan"]} \cup {output["deliverables"]} BY DEF Kind
  <2>2. IsFiniteSet({output["plan"]}) /\ Cardinality({output["plan"]}) = 1
    BY FS_Singleton
  <2>3. ASSUME NEW S, NEW x, IsFiniteSet(S), Cardinality(S) = 1
        PROVE  IsFiniteSet(S \cup {x}) /\ Cardinality(S \cup {x}) <= 2
    <3>1. /\ IsFiniteSet(S \cup {x})
          /\ Cardinality(S \cup {x}) = IF x \in S THEN Cardinality(S) ELSE Cardinality(S) + 1
      BY <2>3, FS_AddElement, Zenon
    <3> QED BY <2>3, <3>1, SMT
  <2> QED BY <2>1, <2>2, <2>3
<1>6. IsFiniteSet(names \cup {worker.file}) /\ Cardinality(names \cup {worker.file}) <= 3
  <2>1. Cardinality(names) \in Nat BY <1>5, FS_CardinalityType
  <2> HIDE DEF names
  <2> QED BY <1>5, <2>1, FS_AddElement
<1>7. IsFiniteSet(InUse(Window)) /\ Cardinality(InUse(Window)) <= N + 3
  <2> DEFINE S == names \cup {worker.file}
  <2>1. InUse(Window) = S \cup read BY DEF InUse
  <2>2. IsFiniteSet(S) /\ Cardinality(S) <= 3 BY <1>6
  <2> HIDE DEF S, read
  <2>3. IsFiniteSet(S \cap read) BY <1>4, FS_Subset
  <2>4. Cardinality(S) \in Nat /\ Cardinality(read) \in Nat /\ Cardinality(S \cap read) \in Nat
    BY <1>4, <2>2, <2>3, FS_CardinalityType
  <2>5. /\ IsFiniteSet(S \cup read)
        /\ Cardinality(S \cup read) =
             Cardinality(S) + Cardinality(read) - Cardinality(S \cap read)
    BY <1>4, <2>2, FS_Union
  <2> QED BY <1>1, <1>4, <2>1, <2>2, <2>4, <2>5
<1>8. 0 \in InUse(Window) BY DEF InUse
<1>9. \E i \in Inode : i \notin InUse(Window)
  <2>1. SUFFICES ASSUME Inode \subseteq InUse(Window) PROVE FALSE OBVIOUS
  <2>2. Inode \cup {0} \in SUBSET InUse(Window) BY <2>1, <1>8
  <2>3. Cardinality(Inode \cup {0}) <= Cardinality(InUse(Window))
    BY <1>7, <2>2, FS_Subset
  <2>4. Cardinality(InUse(Window)) \in Nat BY <1>7, FS_CardinalityType
  <2> QED BY <1>1, <1>3, <1>7, <2>3, <2>4
<1> QED BY <1>9 DEF FreeInode

-----------------------------------------------------------------------------
(* The types of what the steps assign. *)

LEMMA InitialTyped == Resting \in Working /\ Closed \in Showing
<1>1. <<>> \in Pages BY EmptySeq DEF Pages
<1> QED BY <1>1 DEF Resting, Working, Closed, Showing

\* State of the task the worker runs.
LEMMA ReportedTyped ==
  ASSUME TypeOK, NEW s \in State, Reported(s)
  PROVE  state' \in [Task -> State]
BY DEF TypeOK, Reported

\* Another part is merged.
LEMMA MergingTyped ==
  ASSUME NEW v \in Working, NEW m \in Pages, NEW a \in {"merge", "open"}, NEW n \in Nat
  PROVE  [v EXCEPT !.merged = m, !.at = a, !.part = n] \in Working
BY DEF Working

\* A window opens a page, polls, opens the file, sends it.
LEMMA OpenTyped ==
  ASSUME NEW p \in Showing, NEW t \in Task, NEW r \in Report
  PROVE  [p EXCEPT !.stage = "polling", !.task = t, !.report = r] \in Showing
BY ReportsAssumption DEF Showing

LEMMA StageTyped ==
  ASSUME NEW p \in Showing, p.stage # "closed", NEW s \in {"link", "stopped", "stalled", "sending"}
  PROVE  /\ [p EXCEPT !.stage = s] \in Showing
         /\ [p EXCEPT !.stage = s, !.task = 0] \in Showing
BY DEF Showing

LEMMA OpenedTyped ==
  ASSUME NEW p \in Showing, p.stage # "closed", NEW i \in Inode \cup {0}, NEW b \in Pages
  PROVE  [p EXCEPT !.stage = "opened", !.file = i, !.body = b] \in Showing
BY DEF Showing

LEMMA SentTyped ==
  ASSUME NEW p \in Showing, p.stage # "closed", NEW b \in Pages, NEW c \in Pages
  PROVE  /\ [p EXCEPT !.stage = "done", !.file = 0, !.body = b, !.received = c] \in Showing
         /\ [p EXCEPT !.stage = "done", !.received = c] \in Showing
BY DEF Showing

\* What is left in the files when a window has closed its own.
LEMMA ClosesTyped ==
  ASSUME TypeOK, NEW w \in Window, Closes(w)
  PROVE  inode' \in [Inode -> Pages]
<1>1. <<>> \in Pages BY EmptySeq DEF Pages
<1> QED BY <1>1 DEF TypeOK, Closes

\* The part the worker is at is a page of its report.
LEMMA PartTyped ==
  ASSUME Making \in Report, NEW n \in 1 .. Len(Parts(Making))
  PROVE  Parts(Making)[n] \in Name
BY PartsTyped, ElementOfSeq

-----------------------------------------------------------------------------
(* Every step keeps the types and WorkerInv. *)

\* The worker does nothing it has anything to show for, and what is queued has its report.
LEMMA QuietWorker ==
  ASSUME worker'.at \in {"rest", "ack"},
         worker'.at = "ack" => worker'.task \in Task /\ argument'[worker'.task] \in Report,
         \A i \in 1 .. Len(queue') : argument'[queue'[i]] \in Report
  PROVE  WorkerInv'
BY DEF WorkerInv, At, Now, Making, MergedIsWhole

\* A step that leaves the worker, its parts, the queue and the reports of the tasks alone.
LEMMA OthersStep ==
  ASSUME WorkerInv, UNCHANGED <<worker, parts, queue, argument>>
  PROVE  WorkerInv'
BY DEF WorkerInv, At, Now, Making, MergedIsWhole, Rendered, Merged

\* Celery's part: a task is taken from the queue, ended, put back or given up.
LEMMA CeleryKeeps ==
  ASSUME TypeOK, WorkerInv, Take \/ Ack \/ DaemonDies \/ ChildLost
  PROVE  TypeOK' /\ WorkerInv'
<1> USE InitialTyped
<1>1. CASE Take
  <2>1. queue # <<>> /\ worker' = [Resting EXCEPT !.task = Head(queue), !.at = "announce"]
        /\ queue' = Tail(queue) /\ UNCHANGED <<argument, state, parts, output, inode, page, crashes>>
    BY <1>1 DEF Take, files
  <2>2. /\ Head(queue) \in Task /\ queue' \in Seq(Task) /\ Head(queue) = queue[1]
        /\ Len(queue) \in Nat \ {0} /\ Len(queue') = Len(queue) - 1
        /\ \A i \in 1 .. Len(queue') : queue'[i] = queue[i + 1]
    BY <2>1, HeadTailProperties DEF TypeOK
  <2>3. /\ worker' \in Working /\ worker'.at = "announce" /\ worker'.merged = <<>>
        /\ worker'.task = queue[1]
    BY <2>1, <2>2 DEF Resting, Working
  <2>4. TypeOK' BY <2>1, <2>2, <2>3 DEF TypeOK
  <2>5. argument'[queue[1]] \in Report /\ queue[1] \in Task
    BY <2>1, <2>2 DEF WorkerInv
  <2>6. \A i \in 1 .. Len(queue') : argument'[queue'[i]] \in Report
    BY <2>1, <2>2 DEF WorkerInv
  <2>7. WorkerInv'
    BY <2>3, <2>5, <2>6 DEF WorkerInv, At, Now, Making, MergedIsWhole
  <2> QED BY <2>4, <2>7
<1>2. CASE Ack
  <2>1. worker' = Resting /\ UNCHANGED <<queue, argument, state, parts, output, inode, page, crashes>>
    BY <1>2 DEF Ack, tasks, files
  <2>2. TypeOK' BY <2>1 DEF TypeOK
  <2>3. worker'.at = "rest" BY <2>1 DEF Resting
  <2> QED BY <2>1, <2>2, <2>3, QuietWorker DEF WorkerInv
<1>3. CASE DaemonDies
  <2>1. /\ worker' = Resting /\ queue' = <<Now>> \o queue /\ crashes' = crashes + 1
        /\ crashes < MaxCrashes /\ ~At("rest")
        /\ UNCHANGED <<argument, state, parts, output, inode, page>>
    BY <1>3 DEF DaemonDies, files
  <2>2. Now \in Task /\ Making \in Report BY <2>1 DEF WorkerInv
  <2>3. <<Now>> \in Seq(Task) /\ Len(<<Now>>) = 1 BY <2>2
  <2>4. /\ queue' \in Seq(Task) /\ Len(queue') = 1 + Len(queue) /\ Len(queue) \in Nat
        /\ \A i \in 1 .. Len(queue') : queue'[i] = IF i <= 1 THEN <<Now>>[i] ELSE queue[i - 1]
    BY <2>1, <2>3, ConcatProperties, LenProperties DEF TypeOK
  <2>5. crashes' \in 0 .. MaxCrashes BY <2>1, ReportsAssumption DEF TypeOK
  <2>6. TypeOK' BY <2>1, <2>4, <2>5 DEF TypeOK
  <2>7. ASSUME NEW i \in 1 .. Len(queue') PROVE argument'[queue'[i]] \in Report
    <3>1. CASE i = 1 BY <2>1, <2>2, <2>4, <3>1 DEF Making
    <3>2. CASE i # 1
      <4>1. i - 1 \in 1 .. Len(queue) /\ queue'[i] = queue[i - 1] BY <2>4, <3>2
      <4> QED BY <2>1, <4>1 DEF WorkerInv
    <3> QED BY <3>1, <3>2
  <2>8. worker'.at = "rest" BY <2>1 DEF Resting
  <2> QED BY <2>6, <2>7, <2>8, QuietWorker
<1>4. CASE ChildLost
  <2>1. /\ worker' = [worker EXCEPT !.at = "ack"] /\ Reported("FAILURE") /\ ~At("rest")
        /\ crashes < MaxCrashes /\ crashes' = crashes + 1
        /\ UNCHANGED <<queue, argument, parts, output, inode, page>>
    BY <1>4 DEF ChildLost, Fail, files, At
  <2>2. worker' \in Working /\ worker'.at = "ack" /\ worker'.task = Now
    BY <2>1 DEF TypeOK, Working, Now
  <2>3. state' \in [Task -> State] BY <2>1, ReportedTyped DEF State
  <2>4. crashes' \in 0 .. MaxCrashes BY <2>1, ReportsAssumption DEF TypeOK
  <2>5. TypeOK' BY <2>1, <2>2, <2>3, <2>4 DEF TypeOK
  <2>6. Now \in Task /\ argument'[Now] \in Report BY <2>1 DEF WorkerInv, Making
  <2> QED BY <2>1, <2>2, <2>5, <2>6, QuietWorker DEF WorkerInv
<1> QED BY <1>1, <1>2, <1>3, <1>4

\* The steps of a task before it merges.
LEMMA RenderKeeps ==
  ASSUME TypeOK, WorkerInv, Announce \/ Prepare \/ Render
  PROVE  TypeOK' /\ WorkerInv'
<1>1. Now \in Task /\ Making \in Report /\ worker.merged = <<>> /\ ~At("rest")
  BY DEF Announce, Prepare, Render, WorkerInv, At
<1>2. Parts(Making) \in Seq(Name) /\ Len(Parts(Making)) \in Nat
  BY <1>1, PartsTyped, LenProperties
<1>3. worker \in Working /\ worker.part \in Nat BY DEF TypeOK, Working
<1>4. \A i \in 1 .. Len(queue) : argument[queue[i]] \in Report BY DEF WorkerInv
<1>5. CASE Announce
  <2>1. /\ worker' = [worker EXCEPT !.at = "prepare"] /\ Reported("PROGRESS, no meta")
        /\ UNCHANGED <<queue, argument, parts, output, inode, page, crashes>>
    BY <1>5 DEF Announce, files
  <2>2. /\ worker' \in Working /\ worker'.at = "prepare" /\ worker'.merged = <<>>
        /\ worker'.task = Now
    BY <1>1, <1>3, <2>1 DEF Working, Now
  <2>3. state' \in [Task -> State] BY <2>1, ReportedTyped DEF State
  <2>4. TypeOK' BY <2>1, <2>2, <2>3 DEF TypeOK
  <2>5. Now' \in Task /\ Making' \in Report BY <1>1, <2>1, <2>2 DEF Now, Making
  <2>6. WorkerInv' BY <1>4, <2>1, <2>2, <2>5 DEF WorkerInv, At, MergedIsWhole
  <2> QED BY <2>4, <2>6
<1>6. CASE Prepare
  <2>1. /\ worker' = [worker EXCEPT !.at = "render", !.part = 1] /\ Reported("PROGRESS")
        /\ UNCHANGED <<queue, argument, parts, output, inode, page, crashes>>
    BY <1>6 DEF Prepare, files
  <2>2. /\ worker' \in Working /\ worker'.at = "render" /\ worker'.merged = <<>>
        /\ worker'.task = Now /\ worker'.part = 1
    BY <1>1, <1>3, <2>1 DEF Working, Now
  <2>3. state' \in [Task -> State] BY <2>1, ReportedTyped DEF State
  <2>4. TypeOK' BY <2>1, <2>2, <2>3 DEF TypeOK
  <2>5. Now' = Now /\ Making' = Making BY <2>1, <2>2 DEF Now, Making
  <2>6. \/ 1 <= Len(Parts(Making))
        \/ Deliverables[Making] = 0 /\ 1 = FirstDeliverable(Making)
    BY <1>1, <1>2, PartsTyped DEF FirstDeliverable
  <2>7. Rendered(worker.part - 1)' BY <2>2 DEF Rendered
  <2>8. WorkerInv'
    BY <1>1, <1>4, <2>1, <2>2, <2>5, <2>6, <2>7 DEF WorkerInv, At, MergedIsWhole
  <2> QED BY <2>4, <2>8
<1>7. CASE Render
  <2>1. /\ At("render") /\ UNCHANGED <<queue, argument, output, inode, page, crashes>>
    BY <1>7 DEF Render
  <2>2. CASE Deliverables[Making] = 0 /\ worker.part = FirstDeliverable(Making)
    <3>1. worker' = [worker EXCEPT !.at = "ack"] /\ Reported("FAILURE") /\ UNCHANGED parts
      BY <1>7, <2>2 DEF Render, Fail
    <3>2. worker' \in Working /\ worker'.at = "ack" /\ worker'.task = Now
      BY <1>3, <3>1 DEF Working, Now
    <3>3. state' \in [Task -> State] BY <3>1, ReportedTyped DEF State
    <3>4. TypeOK' BY <2>1, <3>1, <3>2, <3>3 DEF TypeOK
    <3>5. argument'[Now] \in Report BY <1>1, <2>1 DEF Making
    <3> QED BY <1>1, <1>4, <2>1, <3>2, <3>4, <3>5, QuietWorker
  <2>3. CASE ~(Deliverables[Making] = 0 /\ worker.part = FirstDeliverable(Making))
    <3> DEFINE n == Parts(Making)[worker.part]
    <3>1. /\ parts' = [parts EXCEPT ![n] = Making] /\ UNCHANGED state
          /\ worker' = IF worker.part = Len(Parts(Making))
                          THEN [worker EXCEPT !.at = "merge", !.part = 1]
                          ELSE [worker EXCEPT !.part = @ + 1]
      BY <1>7, <2>3 DEF Render
    <3>2. worker.part \in 1 .. Len(Parts(Making)) /\ Rendered(worker.part - 1)
      BY <1>2, <1>3, <2>1, <2>3 DEF WorkerInv
    <3>3. worker' \in Working /\ worker'.merged = <<>> /\ worker'.task = Now
      <4>1. CASE worker.part = Len(Parts(Making))
        BY <1>1, <1>3, <3>1, <4>1 DEF Working, Now
      <4>2. CASE worker.part # Len(Parts(Making))
        <5>1. worker' = [worker EXCEPT !.part = worker.part + 1] BY <3>1, <4>2
        <5> QED BY <1>1, <1>3, <5>1 DEF Working, Now
      <4> QED BY <4>1, <4>2
    <3>4. parts' \in [Name -> Report \cup {None}] BY <1>1, <3>1 DEF TypeOK
    <3>5. TypeOK' BY <2>1, <3>1, <3>3, <3>4 DEF TypeOK
    <3>6. Now' = Now /\ Making' = Making BY <2>1, <3>3 DEF Now, Making
    <3>7. ASSUME NEW i \in 1 .. worker.part PROVE parts'[Parts(Making)[i]] = Making
      <4>1. i \in 1 .. Len(Parts(Making)) BY <1>2, <1>3, <3>2
      <4>2. Parts(Making)[i] \in Name BY <1>1, <4>1, PartTyped
      <4>3. CASE Parts(Making)[i] = n BY <3>1, <4>2, <4>3 DEF TypeOK
      <4>4. CASE Parts(Making)[i] # n
        <5>1. i \in 1 .. worker.part - 1 BY <1>3, <4>4
        <5> QED BY <3>1, <3>2, <4>2, <4>4, <5>1 DEF Rendered, TypeOK
      <4> QED BY <4>3, <4>4
    <3>8. CASE worker.part = Len(Parts(Making))
      <4>1. worker'.at = "merge" /\ worker'.part = 1 BY <1>3, <3>1, <3>8 DEF Working
      <4>2. Rendered(Len(Parts(Making)))' BY <3>6, <3>7, <3>8 DEF Rendered
      <4>3. Merged(worker.part - 1)' BY <3>3, <4>1 DEF Merged
      <4>4. 1 \in 1 .. Len(Parts(Making)) BY <1>2, <3>2
      <4>5. WorkerInv'
        BY <1>1, <1>4, <2>1, <3>3, <3>6, <4>1, <4>2, <4>3, <4>4
           DEF WorkerInv, At, MergedIsWhole
      <4> QED BY <3>5, <4>5
    <3>9. CASE worker.part # Len(Parts(Making))
      <4>1. worker'.at = "render" /\ worker'.part = worker.part + 1
        BY <1>3, <2>1, <3>1, <3>9 DEF Working, At
      <4>2. Rendered(worker.part - 1)' BY <1>3, <3>6, <3>7, <4>1 DEF Rendered
      <4>3. worker'.part <= Len(Parts(Making)) /\ worker'.part > 0 BY <1>2, <1>3, <3>2, <3>9, <4>1
      <4>4. WorkerInv'
        BY <1>1, <1>4, <2>1, <3>3, <3>6, <4>1, <4>2, <4>3 DEF WorkerInv, At, MergedIsWhole
      <4> QED BY <3>5, <4>4
    <3> QED BY <3>8, <3>9
  <2> QED BY <2>2, <2>3
<1> QED BY <1>5, <1>6, <1>7

\* The steps of a task from the first merged part on.
LEMMA MergeKeeps ==
  ASSUME TypeOK, WorkerInv,
         Merge \/ OpenOutput \/ WriteOutput \/ RemovePart \/ Complete \/ Succeed
  PROVE  TypeOK' /\ WorkerInv'
<1>1. Now \in Task /\ Making \in Report /\ ~At("rest")
  BY DEF Merge, OpenOutput, WriteOutput, RemovePart, Complete, Succeed, WorkerInv, At
<1>2. Parts(Making) \in Seq(Name) /\ Len(Parts(Making)) \in Nat
  BY <1>1, PartsTyped, LenProperties
<1>3. worker \in Working /\ worker.part \in Nat /\ worker.merged \in Pages
  BY DEF TypeOK, Working
<1>4. \A i \in 1 .. Len(queue) : argument[queue[i]] \in Report BY DEF WorkerInv
<1>5. ASSUME worker'.at \in {"open", "write", "remove", "complete", "succeed", "ack"},
             worker'.task = Now, worker'.merged = Whole(Making), UNCHANGED <<queue, argument>>
      PROVE  WorkerInv'
  <2>1. Now' = Now /\ Making' = Making BY <1>5 DEF Now, Making
  <2> QED BY <1>1, <1>4, <1>5, <2>1 DEF WorkerInv, At, MergedIsWhole
<1>6. CASE Merge
  <2> DEFINE n == Parts(Making)[worker.part]
             L == Len(Parts(Making))
             m == Append(worker.merged, <<Making, n>>)
  <2>1. worker.part \in 1 .. L /\ Rendered(L) /\ Merged(worker.part - 1)
    BY <1>6 DEF Merge, WorkerInv
  <2>2. n \in Name /\ parts[n] = Making BY <1>1, <2>1, PartTyped DEF Rendered
  <2>3. /\ worker' = [worker EXCEPT !.merged = m, !.at = IF worker.part = L THEN "open" ELSE @,
                                    !.part = @ + 1]
        /\ At("merge")
        /\ UNCHANGED <<queue, argument, state, parts, output, inode, page, crashes>>
    BY <1>6, <2>2 DEF Merge, tasks, files
  <2>4. <<Making, n>> \in Report \X Name BY <1>1, <2>2
  <2>5. /\ m \in Pages /\ Len(m) = worker.part
        /\ \A i \in 1 .. worker.part - 1 : m[i] = worker.merged[i]
        /\ m[worker.part] = <<Making, n>>
    BY <1>3, <2>1, <2>4, AppendProperties DEF Pages, Merged
  <2>6. \A i \in 1 .. worker.part : m[i] = <<Making, Parts(Making)[i]>>
    <3> SUFFICES ASSUME NEW i \in 1 .. worker.part
                 PROVE  m[i] = <<Making, Parts(Making)[i]>>
      OBVIOUS
    <3> HIDE DEF m
    <3>1. CASE i = worker.part BY <2>5, <3>1
    <3>2. CASE i # worker.part
      <4>1. i \in 1 .. worker.part - 1 BY <1>3, <3>2
      <4> QED BY <2>1, <2>5, <4>1 DEF Merged
    <3> QED BY <3>1, <3>2
  <2> HIDE DEF m
  <2>7. /\ worker' \in Working /\ worker'.merged = m /\ worker'.task = Now
        /\ worker'.part = worker.part + 1
        /\ worker'.at = IF worker.part = L THEN "open" ELSE "merge"
    <3>1. CASE worker.part = L
      <4>1. worker' = [worker EXCEPT !.merged = m, !.at = "open", !.part = worker.part + 1]
        BY <2>3, <3>1
      <4>2. worker.part + 1 \in Nat BY <1>3
      <4>3. worker' \in Working BY <1>3, <2>5, <4>1, <4>2, MergingTyped, Zenon
      <4>4. /\ worker'.merged = m /\ worker'.task = Now /\ worker'.at = "open"
            /\ worker'.part = worker.part + 1
        BY <1>3, <4>1 DEF Working, Now
      <4> QED BY <3>1, <4>3, <4>4
    <3>2. CASE worker.part # L
      <4>1. worker' = [worker EXCEPT !.merged = m, !.at = "merge", !.part = worker.part + 1]
        BY <2>3, <3>2 DEF At
      <4>2. worker.part + 1 \in Nat BY <1>3
      <4>3. worker' \in Working BY <1>3, <2>5, <4>1, <4>2, MergingTyped, Zenon
      <4>4. /\ worker'.merged = m /\ worker'.task = Now /\ worker'.at = "merge"
            /\ worker'.part = worker.part + 1
        BY <1>3, <4>1 DEF Working, Now
      <4> QED BY <3>2, <4>3, <4>4
    <3> QED BY <3>1, <3>2
  <2>8. TypeOK' BY <2>3, <2>7 DEF TypeOK
  <2>9. Now' = Now /\ Making' = Making BY <2>3, <2>7 DEF Now, Making
  <2>10. CASE worker.part = L
    <3>1. worker'.merged = Whole(Making)
      <4>1. m \in Pages /\ Len(m) = L BY <2>5, <2>10
      <4>2. DOMAIN m = 1 .. L BY <4>1, LenProperties DEF Pages
      <4>3. m = [i \in 1 .. L |-> m[i]] BY <4>1, <4>2, LenProperties DEF Pages
      <4> QED BY <2>6, <2>7, <2>10, <4>3 DEF Whole
    <3> QED BY <1>5, <2>3, <2>7, <2>8, <2>10, <3>1
  <2>11. CASE worker.part # L
    <3>1. Merged(worker.part - 1)' BY <1>3, <2>5, <2>6, <2>7, <2>9 DEF Merged
    <3>2. Rendered(Len(Parts(Making)))' BY <2>1, <2>3, <2>9 DEF Rendered
    <3>3. worker'.part \in 1 .. L BY <1>2, <1>3, <2>1, <2>7, <2>11
    <3>4. worker'.at = "merge" BY <2>7, <2>11
    <3>5. WorkerInv'
      BY <1>1, <1>4, <2>3, <2>9, <3>1, <3>2, <3>3, <3>4 DEF WorkerInv, At, MergedIsWhole
    <3> QED BY <2>8, <3>5
  <2> QED BY <2>10, <2>11
<1>7. CASE OpenOutput
  <2> DEFINE k == KindOf[Making]
             i == IF output[k] = 0 THEN FreeInode ELSE output[k]
  <2>1. k \in Kind BY <1>1, ReportsAssumption
  <2>2. i \in Inode BY <2>1, FreeInodeTyped DEF TypeOK
  <2>3. /\ At("open") /\ output' = [output EXCEPT ![k] = i]
        /\ inode' = [inode EXCEPT ![i] = <<>>]
        /\ worker' = [worker EXCEPT !.at = "write", !.file = i]
        /\ UNCHANGED <<queue, argument, state, parts, page, crashes>>
    BY <1>7 DEF OpenOutput, tasks
  <2> HIDE DEF i
  <2>4. worker.merged = Whole(Making) BY <2>3 DEF WorkerInv, MergedIsWhole, At
  <2>5. /\ worker' \in Working /\ worker'.at = "write" /\ worker'.task = Now
        /\ worker'.merged = worker.merged
    BY <1>3, <2>2, <2>3 DEF Working, Now
  <2>6. <<>> \in Pages BY EmptySeq DEF Pages
  <2>7. output' \in [Kind -> Inode \cup {0}] /\ inode' \in [Inode -> Pages]
    BY <2>1, <2>2, <2>3, <2>6 DEF TypeOK
  <2>8. TypeOK' BY <2>3, <2>5, <2>7 DEF TypeOK
  <2> QED BY <1>5, <2>3, <2>4, <2>5, <2>8
<1>8. CASE WriteOutput
  <2>1. /\ At("write") /\ inode' = [inode EXCEPT ![worker.file] = worker.merged]
        /\ worker' = [worker EXCEPT !.at = "remove", !.part = 1, !.file = 0]
        /\ UNCHANGED <<queue, argument, state, parts, output, page, crashes>>
    BY <1>8 DEF WriteOutput, tasks
  <2>2. worker.merged = Whole(Making) BY <2>1 DEF WorkerInv, MergedIsWhole, At
  <2>3. /\ worker' \in Working /\ worker'.at = "remove" /\ worker'.task = Now
        /\ worker'.merged = worker.merged
    BY <1>3, <2>1 DEF Working, Now
  <2>4. TypeOK' BY <1>3, <2>1, <2>3 DEF TypeOK
  <2> QED BY <1>5, <2>1, <2>2, <2>3, <2>4
<1>9. CASE RemovePart
  <2>1. /\ At("remove") /\ parts' = [parts EXCEPT ![Parts(Making)[worker.part]] = None]
        /\ worker' = IF worker.part = Len(Parts(Making))
                        THEN [worker EXCEPT !.at = "complete"]
                        ELSE [worker EXCEPT !.part = worker.part + 1]
        /\ UNCHANGED <<queue, argument, state, output, inode, page, crashes>>
    BY <1>9 DEF RemovePart, tasks
  <2>2. worker.merged = Whole(Making) BY <2>1 DEF WorkerInv, MergedIsWhole, At
  <2>3. /\ worker' \in Working /\ worker'.at \in {"remove", "complete"}
        /\ worker'.task = Now /\ worker'.merged = worker.merged
    <3>1. CASE worker.part = Len(Parts(Making)) BY <1>3, <2>1, <3>1 DEF Working, Now
    <3>2. CASE worker.part # Len(Parts(Making)) BY <1>3, <2>1, <3>2 DEF Working, Now, At
    <3> QED BY <3>1, <3>2
  <2>4. parts' \in [Name -> Report \cup {None}] BY <2>1 DEF TypeOK
  <2>5. TypeOK' BY <2>1, <2>3, <2>4 DEF TypeOK
  <2> QED BY <1>5, <2>1, <2>2, <2>3, <2>5
<1>10. CASE Complete \/ Succeed
  <2>1. PICK a \in {"succeed", "ack"}, s \in State :
          /\ worker' = [worker EXCEPT !.at = a] /\ Reported(s)
          /\ UNCHANGED <<queue, argument, parts, output, inode, page, crashes>>
    BY <1>10 DEF Complete, Succeed, State, files
  <2>2. worker.merged = Whole(Making)
    BY <1>10 DEF Complete, Succeed, WorkerInv, MergedIsWhole, At
  <2>3. /\ worker' \in Working /\ worker'.at = a /\ worker'.task = Now
        /\ worker'.merged = worker.merged
    BY <1>3, <2>1 DEF Working, Now
  <2>4. state' \in [Task -> State] BY <2>1, ReportedTyped
  <2>5. TypeOK' BY <2>1, <2>3, <2>4 DEF TypeOK
  <2> QED BY <1>5, <2>1, <2>2, <2>3, <2>5
<1> QED BY <1>6, <1>7, <1>8, <1>9, <1>10

\* A page asks for a report: the id it gets is nobody's, and the tasks that are queued or
\* running keep theirs.
LEMMA OpenKeeps ==
  ASSUME TypeOK, WorkerInv, NEW w \in Window, NEW r \in Report, Open(w, r)
  PROVE  TypeOK' /\ WorkerInv'
<1> DEFINE free == Task \ Alive(Window)
           gone == Task \ Alive(Window \ {w})
           t    == CHOOSE u \in free : TRUE
<1>1. /\ free # {}
      /\ argument' = [u \in Task |-> CASE u = t -> r [] u \in gone \ {t} -> None
                                       [] OTHER -> argument[u]]
      /\ state' = [u \in Task |-> IF u \in gone THEN "PENDING" ELSE state[u]]
      /\ queue' = Append(queue, t)
      /\ page' = [page EXCEPT ![w] = [Closed EXCEPT !.stage = "polling", !.task = t,
                                                    !.report = r]]
      /\ Closes(w)
      /\ UNCHANGED <<worker, parts, output, crashes>>
  BY DEF Open
<1>2. t \in free BY <1>1
<1> HIDE DEF t
<1>3. t \in Task /\ t \notin Alive(Window) BY <1>2
<1>4. \A u \in Task : \/ argument'[u] = r /\ u = t
                      \/ argument'[u] = None /\ u # t /\ u \in gone
                      \/ argument'[u] = argument[u] /\ u # t
  BY <1>1
<1>5. argument' \in [Task -> Report \cup {None}]
  <2>1. \A u \in Task : argument'[u] \in Report \cup {None} BY <1>4 DEF TypeOK
  <2>2. argument' = [u \in Task |-> argument'[u]] BY <1>1
  <2> HIDE DEF gone
  <2> QED BY <2>1, <2>2
<1>6. state' \in [Task -> State] BY <1>1 DEF TypeOK, State
<1>7. /\ queue' \in Seq(Task) /\ Len(queue') = Len(queue) + 1 /\ Len(queue) \in Nat
      /\ \A i \in 1 .. Len(queue) : queue'[i] = queue[i]
      /\ queue'[Len(queue) + 1] = t
  BY <1>1, <1>3, AppendProperties, LenProperties DEF TypeOK
<1>8. [Closed EXCEPT !.stage = "polling", !.task = t, !.report = r] \in Showing
  BY <1>3, InitialTyped, OpenTyped
<1>9. page' \in [Window -> Showing] BY <1>1, <1>8 DEF TypeOK
<1>10. TypeOK' BY <1>1, <1>5, <1>6, <1>7, <1>9, ClosesTyped DEF TypeOK
<1>11. ASSUME NEW u \in Task, u \in Alive({}), argument[u] \in Report
       PROVE  argument'[u] = argument[u]
  <2>1. u \in Alive(Window) /\ u \in Alive(Window \ {w}) BY <1>11 DEF Alive
  <2> QED BY <1>3, <1>4, <2>1
<1>12. ASSUME NEW i \in 1 .. Len(queue') PROVE argument'[queue'[i]] \in Report
  <2>1. CASE i \in 1 .. Len(queue)
    <3>1. queue[i] \in Task /\ argument[queue[i]] \in Report
      BY <2>1, ElementOfSeq DEF TypeOK, WorkerInv
    <3>2. queue[i] \in Alive({}) BY <2>1 DEF Alive
    <3> QED BY <1>7, <1>11, <2>1, <3>1, <3>2
  <2>2. CASE i = Len(queue) + 1 BY <1>3, <1>4, <1>7, <2>2
  <2> QED BY <1>7, <2>1, <2>2
<1>13. Now' = Now /\ (~At("rest") => Making' = Making)
  <2>1. Now' = Now BY <1>1 DEF Now
  <2>2. Now \in Alive({}) BY DEF Alive, Now
  <2> QED BY <1>11, <2>1, <2>2 DEF WorkerInv, Making
<1>14. WorkerInv'
  BY <1>1, <1>12, <1>13 DEF WorkerInv, At, MergedIsWhole, Rendered, Merged
<1> QED BY <1>10, <1>14

\* A page polls or downloads.
LEMMA PageKeeps ==
  ASSUME TypeOK, WorkerInv, NEW w \in Window, PageStep(w)
  PROVE  TypeOK' /\ WorkerInv'
<1> DEFINE p == page[w]
<1>1. p \in Showing /\ p.stage # "closed"
  BY DEF TypeOK, PageStep, Poll, DownloadOpen, DownloadRemove, DownloadSend, Stage
<1>2. <<>> \in Pages BY EmptySeq DEF Pages
<1>3. ASSUME NEW q \in Showing, page' = [page EXCEPT ![w] = q]
      PROVE  page' \in [Window -> Showing]
  BY <1>3 DEF TypeOK
<1>4. CASE Poll(w)
  <2>1. PICK s \in {"link", "stopped", "stalled"} : Ends(w, s) BY <1>4 DEF Poll
  <2>2. page' = [page EXCEPT ![w] = [p EXCEPT !.stage = s, !.task = 0]]
    BY <2>1 DEF Ends
  <2>3. page' \in [Window -> Showing] BY <1>1, <1>3, <2>2, StageTyped
  <2>4. UNCHANGED <<queue, argument, state, worker, parts, output, inode, crashes>>
    BY <1>4 DEF Poll, tasks, files
  <2> QED BY <2>3, <2>4, OthersStep DEF TypeOK
<1>5. CASE DownloadOpen(w) /\ output[KindOf[p.report]] # 0
  <2> DEFINE i == output[KindOf[p.report]]
             b == inode[i]
  <2>1. /\ page' = [page EXCEPT ![w] = [p EXCEPT !.stage = "opened", !.file = i, !.body = b]]
        /\ i # 0
    BY <1>5 DEF DownloadOpen
  <2>2. page' \in [Window -> Showing]
    <3>1. KindOf[p.report] \in Kind BY <1>1, ReportsAssumption DEF Showing
    <3>2. i \in Inode \cup {0} /\ b \in Pages BY <2>1, <3>1 DEF TypeOK
    <3> QED BY <1>1, <1>3, <2>1, <3>2, OpenedTyped
  <2>3. UNCHANGED <<queue, argument, state, worker, parts, output, inode, crashes>>
    BY <1>5 DEF DownloadOpen, tasks, files
  <2> QED BY <2>2, <2>3, OthersStep DEF TypeOK
<1>6. CASE DownloadRemove(w)
  <2>1. page' = [page EXCEPT ![w] = [p EXCEPT !.stage = "sending"]]
    BY <1>6 DEF DownloadRemove, Turns
  <2>2. page' \in [Window -> Showing] BY <1>1, <1>3, <2>1, StageTyped
  <2>3. /\ output' = [output EXCEPT ![KindOf[p.report]] = 0]
        /\ UNCHANGED <<queue, argument, state, worker, parts, inode, crashes>>
    BY <1>6 DEF DownloadRemove, tasks
  <2>4. output' \in [Kind -> Inode \cup {0}] BY <2>3 DEF TypeOK
  <2> QED BY <2>2, <2>3, <2>4, OthersStep DEF TypeOK
<1>7. CASE DownloadSend(w)
  <2>1. PICK c \in Pages :
          page' = [page EXCEPT ![w] = [p EXCEPT !.stage = "done", !.file = 0, !.body = <<>>,
                                                !.received = c]]
    <3>1. p.body \in Pages BY <1>1 DEF Showing
    <3> QED BY <1>2, <1>7, <3>1 DEF DownloadSend
  <2>2. page' \in [Window -> Showing] BY <1>1, <1>2, <1>3, <2>1, SentTyped
  <2>3. Closes(w) /\ UNCHANGED <<queue, argument, state, worker, parts, output, crashes>>
    BY <1>7 DEF DownloadSend, tasks
  <2> QED BY <2>2, <2>3, ClosesTyped, OthersStep DEF TypeOK
<1>8. CASE DownloadOpen(w) /\ output[KindOf[p.report]] = 0
  <2>1. /\ page' = [page EXCEPT ![w] = [p EXCEPT !.stage = "done", !.received = <<>>]]
        /\ UNCHANGED <<queue, argument, state, worker, parts, output, inode, crashes>>
    BY <1>8 DEF DownloadOpen, tasks, files
  <2>2. page' \in [Window -> Showing] BY <1>1, <1>2, <1>3, <2>1, SentTyped
  <2> QED BY <2>1, <2>2, OthersStep DEF TypeOK
<1> QED BY <1>4, <1>5, <1>6, <1>7, <1>8 DEF PageStep

LEMMA ReportsInvariant == Spec => [](TypeOK /\ WorkerInv)
<1>1. Init => TypeOK /\ WorkerInv
  <2> SUFFICES ASSUME Init PROVE TypeOK /\ WorkerInv OBVIOUS
  <2>1. <<>> \in Pages /\ <<>> \in Seq(Task) BY EmptySeq DEF Pages
  <2>2. TypeOK
    BY <2>1, InitialTyped, ReportsAssumption DEF Init, TypeOK, State
  <2>3. worker.at = "rest" BY DEF Init, Resting
  <2>4. \A i \in 1 .. Len(queue) : argument[queue[i]] \in Report BY DEF Init
  <2>5. WorkerInv BY <2>3, <2>4 DEF WorkerInv, At, MergedIsWhole
  <2> QED BY <2>2, <2>5
<1>2. TypeOK /\ WorkerInv /\ [Next]_vars => TypeOK' /\ WorkerInv'
  <2> SUFFICES ASSUME TypeOK, WorkerInv, [Next]_vars PROVE TypeOK' /\ WorkerInv' OBVIOUS
  <2>1. CASE UNCHANGED vars
    <3>1. UNCHANGED <<queue, argument, state, worker, parts, output, inode, page, crashes>>
      BY <2>1 DEF vars, tasks, files
    <3> QED BY <3>1, OthersStep DEF TypeOK
  <2>2. CASE WorkerStep
    BY <2>2, CeleryKeeps, RenderKeeps, MergeKeeps DEF WorkerStep
  <2>3. CASE DaemonDies \/ ChildLost BY <2>3, CeleryKeeps
  <2>4. CASE \E w \in Window : PageStep(w) \/ \E r \in Report : Open(w, r)
    BY <2>4, PageKeeps, OpenKeeps
  <2> QED BY <2>1, <2>2, <2>3, <2>4 DEF Next
<1> QED BY <1>1, <1>2, PTL DEF Spec

\* The variables of the report generator keep their types; that a new report file always
\* finds an inode that nobody uses is part of it.
THEOREM ReportsTypes == Spec => []TypeOK
BY ReportsInvariant, PTL

\* Whatever tasks died or failed before and left their part files behind, what a task of
\* reports/controllers.py merges is its own report, every page of it and in order.
THEOREM MergedIsWholeHolds == Spec => []MergedIsWhole
<1>1. WorkerInv => MergedIsWhole BY DEF WorkerInv
<1> QED BY <1>1, ReportsInvariant, PTL
=============================================================================
