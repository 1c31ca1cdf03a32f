--------------------------- MODULE DeliveryProofs ---------------------------
(***************************************************************************)
(* What TLAPS shows of the delivery of reports: a window that shares its   *)
(* kinds of report with nobody downloads its own report and no other, and  *)
(* all of it as long as the worker never died.                             *)
(*                                                                         *)
(* The first section says what each step does to the fields the argument   *)
(* is about; the others take the layers of the invariant one by one.       *)
(***************************************************************************)
EXTENDS ReportsProofs

\* The worker goes on with its task, or ends it without a report, and touches no report
\* file.
Works ==
  /\ ~At("rest")
  /\ crashes' = 0 => ~At("ack")
  /\ worker'.task = Now
  /\ worker'.at \notin {"rest", "write"}
  /\ worker'.at \in Written => worker.at \in Written
  /\ \A t \in Task : state'[t] = "SUCCESS" => state[t] = "SUCCESS"
  /\ UNCHANGED <<queue, argument, output, inode, page>>
  /\ crashes' = 0 => crashes = 0

LEMMA WorksSteps ==
  ASSUME TypeOK, WorkerInv,
         Announce \/ Prepare \/ Render \/ Merge \/ RemovePart \/ Complete \/ ChildLost
  PROVE  Works
<1>1. worker \in Working /\ crashes \in Nat
  BY ReportsAssumption DEF TypeOK
<1>2. Now \in Task
  BY DEF WorkerInv, At, Announce, Prepare, Render, Merge, RemovePart, Complete, ChildLost
<1>3. ASSUME NEW s, s # "SUCCESS", Reported(s)
      PROVE  \A t \in Task : state'[t] = "SUCCESS" => state[t] = "SUCCESS"
  BY <1>2, <1>3 DEF Reported, TypeOK
<1>4. CASE Announce
  <2>1. worker' = [worker EXCEPT !.at = "prepare"]
    BY <1>4 DEF Announce
  <2> QED BY <1>1, <1>3, <1>4, <2>1 DEF Announce, Works, Working, At, Now, Written, files
<1>5. CASE Prepare
  <2>1. worker' = [worker EXCEPT !.at = "render", !.part = 1]
    BY <1>5 DEF Prepare
  <2> QED BY <1>1, <1>3, <1>5, <2>1 DEF Prepare, Works, Working, At, Now, Written, files
<1>6. CASE Render
  <2>1. /\ worker'.task = Now /\ worker'.at \in {"ack", "merge", "render"}
        /\ \A t \in Task : state'[t] = "SUCCESS" => state[t] = "SUCCESS"
    <3>1. CASE Deliverables[Making] = 0 /\ worker.part = FirstDeliverable(Making)
      <4>1. worker' = [worker EXCEPT !.at = "ack"] /\ Reported("FAILURE")
        BY <1>6, <3>1 DEF Render, Fail
      <4> QED BY <1>1, <1>3, <4>1 DEF Working, Now
    <3>2. CASE ~(Deliverables[Making] = 0 /\ worker.part = FirstDeliverable(Making))
      <4>1. /\ worker' \in {[worker EXCEPT !.at = "merge", !.part = 1],
                            [worker EXCEPT !.part = @ + 1]}
            /\ state' = state /\ At("render")
        BY <1>6, <3>2 DEF Render
      <4> QED BY <1>1, <4>1 DEF Working, Now, At
    <3> QED BY <3>1, <3>2
  <2> QED BY <1>6, <2>1 DEF Render, Works, At, Written
<1>7. CASE Merge
  <2> DEFINE n == Parts(Making)[worker.part]
             m == Append(worker.merged, <<parts[n], n>>)
             a == IF worker.part = Len(Parts(Making)) THEN "open" ELSE worker.at
  <2>1. worker' = [worker EXCEPT !.merged = m, !.at = a, !.part = @ + 1] /\ At("merge")
    BY <1>7 DEF Merge
  <2> HIDE DEF m
  <2>2. worker'.task = Now /\ worker'.at \in {"open", "merge"}
    BY <1>1, <2>1 DEF Working, Now, At
  <2> QED BY <1>7, <2>2 DEF Merge, Works, At, Written, tasks, files
<1>8. CASE RemovePart
  <2>1. /\ worker' \in {[worker EXCEPT !.at = "complete"], [worker EXCEPT !.part = @ + 1]}
        /\ At("remove")
    BY <1>8 DEF RemovePart
  <2>2. worker'.task = Now /\ worker'.at \in {"complete", "remove"}
    BY <1>1, <2>1 DEF Working, Now, At
  <2> QED BY <1>8, <2>2 DEF RemovePart, Works, At, Written, tasks
<1>9. CASE Complete
  <2>1. worker' = [worker EXCEPT !.at = "succeed"]
    BY <1>9 DEF Complete
  <2> QED BY <1>1, <1>3, <1>9, <2>1 DEF Complete, Works, Working, At, Now, Written, files
<1>10. CASE ChildLost
  <2>1. worker' = [worker EXCEPT !.at = "ack"] /\ Reported("FAILURE") /\ crashes' = crashes + 1
    BY <1>10 DEF ChildLost, Fail
  <2>2. worker'.task = Now /\ worker'.at = "ack" /\ crashes' # 0
    BY <1>1, <2>1 DEF Working, Now
  <2> QED BY <1>3, <1>10, <2>1, <2>2 DEF ChildLost, Works, At, Written, files
<1> QED BY <1>4, <1>5, <1>6, <1>7, <1>8, <1>9, <1>10

LEMMA TakeStep ==
  ASSUME TypeOK, WorkerInv, Take
  PROVE  /\ At("rest") /\ worker'.at = "announce"
         /\ Len(queue) \in Nat \ {0} /\ Len(queue') = Len(queue) - 1
         /\ \A i \in 1 .. Len(queue') : queue'[i] = queue[i + 1]
         /\ worker'.task = queue[1]
         /\ UNCHANGED <<argument, state, output, inode, page, crashes>>
<1>1. /\ worker' = [Resting EXCEPT !.task = Head(queue), !.at = "announce"]
      /\ queue # <<>> /\ queue' = Tail(queue) /\ queue \in Seq(Task)
  BY DEF Take, TypeOK
<1>2. /\ Head(queue) = queue[1] /\ Len(queue) \in Nat \ {0} /\ Len(queue') = Len(queue) - 1
      /\ \A i \in 1 .. Len(queue') : queue'[i] = queue[i + 1]
  BY <1>1, HeadTailProperties
<1>3. worker'.at = "announce" /\ worker'.task = Head(queue)
  BY <1>1 DEF Resting
<1> QED BY <1>2, <1>3 DEF Take, files

LEMMA DieStep ==
  ASSUME TypeOK, WorkerInv, DaemonDies
  PROVE  /\ ~At("rest") /\ worker'.at = "rest" /\ worker'.task = 0
         /\ Len(queue) \in Nat /\ Len(queue') = Len(queue) + 1
         /\ queue'[1] = Now
         /\ \A i \in 2 .. Len(queue') : i - 1 \in 1 .. Len(queue) /\ queue'[i] = queue[i - 1]
         /\ crashes' # 0
         /\ UNCHANGED <<argument, state, output, inode, page>>
<1>1. /\ worker' = Resting /\ queue' = <<Now>> \o queue /\ crashes' = crashes + 1
      /\ ~At("rest") /\ UNCHANGED <<argument, state, output, inode, page>>
  BY DEF DaemonDies, files
<1>2. Now \in Task /\ crashes \in Nat
  BY <1>1, ReportsAssumption DEF WorkerInv, TypeOK
<1>3. <<Now>> \in Seq(Task) /\ Len(<<Now>>) = 1
  BY <1>2
<1>4. /\ Len(queue') = 1 + Len(queue) /\ Len(queue) \in Nat
      /\ \A i \in 1 .. Len(queue') : queue'[i] = IF i <= 1 THEN <<Now>>[i] ELSE queue[i - 1]
  BY <1>1, <1>3, ConcatProperties, LenProperties DEF TypeOK
<1>5. queue'[1] = Now
  BY <1>4
<1>6. \A i \in 2 .. Len(queue') : i - 1 \in 1 .. Len(queue) /\ queue'[i] = queue[i - 1]
  BY <1>4
<1>7. worker'.at = "rest" /\ worker'.task = 0
  BY <1>1 DEF Resting
<1> QED BY <1>1, <1>2, <1>4, <1>5, <1>6, <1>7

LEMMA AckStep ==
  ASSUME Ack
  PROVE  /\ At("ack") /\ worker'.at = "rest" /\ worker'.task = 0
         /\ UNCHANGED <<queue, argument, state, output, inode, page, crashes>>
BY DEF Ack, Resting, tasks, files

\* The report file is emptied or made; a new one has an inode nobody uses.
LEMMA OpenOutputStep ==
  ASSUME TypeOK, WorkerInv, FileInv, OpenOutput
  PROVE  \E i \in Inode :
           LET k == KindOf[Making] IN
           /\ At("open") /\ Making \in Report /\ k \in Kind
           /\ worker'.at = "write" /\ worker'.task = Now /\ worker'.file = i
           /\ i = output[k] \/ i \notin InUse(Window)
           /\ output'[k] = i
           /\ \A l \in Kind \ {k} : output'[l] = output[l] /\ output[l] # i
           /\ inode'[i] = <<>>
           /\ \A j \in Inode \ {i} : inode'[j] = inode[j]
           /\ UNCHANGED <<queue, argument, state, page, crashes>>
<1> DEFINE k == KindOf[Making]
           i == IF output[k] = 0 THEN FreeInode ELSE output[k]
<1>1. At("open") /\ Making \in Report /\ k \in Kind
  BY ReportsAssumption DEF OpenOutput, WorkerInv, At
<1>2. i \in Inode /\ (i = output[k] \/ i \notin InUse(Window))
  BY <1>1, FreeInodeTyped DEF TypeOK
<1>3. \A l \in Kind \ {k} : output[l] # i
  <2>1. \A l \in Kind : output[l] \in InUse(Window)
    BY DEF InUse
  <2>2. CASE output[k] = 0
    BY <1>1, <2>1, <2>2, FreeInodeTyped
  <2>3. CASE output[k] # 0
    BY <1>1, <2>3 DEF FileInv
  <2> QED BY <2>2, <2>3
<1>4. /\ output' = [output EXCEPT ![k] = i]
      /\ inode' = [inode EXCEPT ![i] = <<>>]
      /\ worker' = [worker EXCEPT !.at = "write", !.file = i]
      /\ UNCHANGED <<queue, argument, state, page, crashes>>
  BY DEF OpenOutput, tasks
<1> HIDE DEF i
<1>5. worker'.at = "write" /\ worker'.task = Now /\ worker'.file = i
  BY <1>4 DEF TypeOK, Working, Now
<1>6. output'[k] = i /\ \A l \in Kind \ {k} : output'[l] = output[l]
  BY <1>1, <1>4 DEF TypeOK
<1>7. inode'[i] = <<>> /\ \A j \in Inode \ {i} : inode'[j] = inode[j]
  BY <1>2, <1>4 DEF TypeOK
<1> QED BY <1>1, <1>2, <1>3, <1>4, <1>5, <1>6, <1>7

LEMMA WriteStep ==
  ASSUME TypeOK, WorkerInv, FileInv, WriteOutput
  PROVE  /\ At("write") /\ Making \in Report /\ KindOf[Making] \in Kind
         /\ worker'.at = "remove" /\ worker'.task = Now
         /\ worker.file \in Inode
         /\ inode'[worker.file] = Whole(Making)
         /\ \A j \in Inode \ {worker.file} : inode'[j] = inode[j]
         /\ UNCHANGED <<queue, argument, state, output, page, crashes>>
<1>1. At("write") /\ Making \in Report /\ KindOf[Making] \in Kind
  BY ReportsAssumption DEF WriteOutput, WorkerInv, At
<1>2. worker.merged = Whole(Making)
  BY <1>1 DEF WorkerInv, MergedIsWhole, At
<1>3. worker.file \in Inode
  BY <1>1 DEF FileInv, TypeOK, Working
<1>4. /\ inode' = [inode EXCEPT ![worker.file] = worker.merged]
      /\ worker' = [worker EXCEPT !.at = "remove", !.part = 1, !.file = 0]
      /\ UNCHANGED <<queue, argument, state, output, page, crashes>>
  BY DEF WriteOutput, tasks
<1>5. worker'.at = "remove" /\ worker'.task = Now
  BY <1>4 DEF TypeOK, Working, Now
<1>6. /\ inode'[worker.file] = Whole(Making)
      /\ \A j \in Inode \ {worker.file} : inode'[j] = inode[j]
  BY <1>2, <1>3, <1>4 DEF TypeOK
<1> QED BY <1>1, <1>3, <1>4, <1>5, <1>6

LEMMA SucceedStep ==
  ASSUME TypeOK, WorkerInv, Succeed
  PROVE  /\ At("succeed") /\ Making \in Report
         /\ worker'.at = "ack" /\ worker'.task = Now
         /\ \A t \in Task \ {Now} : state'[t] = state[t]
         /\ UNCHANGED <<queue, argument, output, inode, page, crashes>>
<1>1. At("succeed") /\ Making \in Report /\ Now \in Task
  BY DEF Succeed, WorkerInv, At
<1>2. worker' = [worker EXCEPT !.at = "ack"] /\ state' = [state EXCEPT ![Now] = "SUCCESS"]
  BY DEF Succeed, Reported
<1>3. worker'.at = "ack" /\ worker'.task = Now
  BY <1>2 DEF TypeOK, Working, Now
<1>4. \A t \in Task \ {Now} : state'[t] = state[t]
  BY <1>1, <1>2 DEF TypeOK
<1> QED BY <1>1, <1>3, <1>4 DEF Succeed, files

\* A window closes its file: the files that have a name or are read by others stay.
LEMMA ClosesStep ==
  ASSUME TypeOK, NEW w \in Window, Closes(w)
  PROVE  /\ \A k \in Kind : output[k] # 0 => inode'[output[k]] = inode[output[k]]
         /\ \A v \in Window \ {w} : page[v].file # 0 => inode'[page[v].file] = inode[page[v].file]
<1>1. inode' = [i \in Inode |-> IF i \in InUse(Window \ {w}) THEN inode[i] ELSE <<>>]
  BY DEF Closes
<1>2. ASSUME NEW k \in Kind, output[k] # 0 PROVE inode'[output[k]] = inode[output[k]]
  <2>1. output[k] \in Inode /\ output[k] \in InUse(Window \ {w})
    BY <1>2 DEF TypeOK, InUse
  <2> QED BY <1>1, <2>1
<1>3. ASSUME NEW v \in Window \ {w}, page[v].file # 0
      PROVE  inode'[page[v].file] = inode[page[v].file]
  <2>1. page[v].file \in Inode /\ page[v].file \in InUse(Window \ {w})
    BY <1>3 DEF TypeOK, InUse, Showing
  <2> QED BY <1>1, <2>1
<1> QED BY <1>2, <1>3

\* A window asks for a report: its task has an id that nothing refers to, comes last in the
\* queue, and is not confused with what is queued, running or polled by other windows.
LEMMA OpenStep ==
  ASSUME TypeOK, WorkerInv, NEW w \in Window, NEW r \in Report, Open(w, r)
  PROVE  \E t \in Task :
           /\ r \in Opens[w]
           /\ page'[w].stage = "polling" /\ page'[w].task = t /\ page'[w].report = r
           /\ \A v \in Window \ {w} : page'[v] = page[v]
           /\ argument'[t] = r /\ state'[t] = "PENDING" /\ Now # t
           /\ Len(queue) \in Nat /\ Len(queue') = Len(queue) + 1 /\ queue'[Len(queue) + 1] = t
           /\ \A i \in 1 .. Len(queue) : /\ queue'[i] = queue[i] /\ queue[i] # t
                                         /\ argument'[queue[i]] = argument[queue[i]]
           /\ ~At("rest") => Making' = Making
           /\ \A v \in Window \ {w} : page[v].task \in Task =>
                /\ page[v].task # t
                /\ argument'[page[v].task] = argument[page[v].task]
                /\ state'[page[v].task] = state[page[v].task]
           /\ \A k \in Kind : output[k] # 0 => inode'[output[k]] = inode[output[k]]
           /\ \A v \in Window \ {w} : page[v].file # 0 => inode'[page[v].file] = inode[page[v].file]
           /\ UNCHANGED <<worker, output, crashes>>
<1> DEFINE free == Task \ Alive(Window)
           gone == Task \ Alive(Window \ {w})
           t    == CHOOSE u \in free : TRUE
<1>1. /\ free # {} /\ r \in Opens[w]
      /\ argument' = [u \in Task |-> CASE u = t -> r [] u \in gone \ {t} -> None
                                       [] OTHER -> argument[u]]
      /\ state' = [u \in Task |-> IF u \in gone THEN "PENDING" ELSE state[u]]
      /\ queue' = Append(queue, t)
      /\ page' = [page EXCEPT ![w] = [Closed EXCEPT !.stage = "polling", !.task = t,
                                                    !.report = r]]
      /\ Closes(w)
      /\ UNCHANGED <<worker, output, crashes>>
  BY DEF Open
<1>2. t \in free
  BY <1>1
<1> HIDE DEF t
<1>3. t \in Task /\ t \notin Alive(Window) /\ t \in gone
  BY <1>2 DEF Alive
<1>4. argument'[t] = r /\ state'[t] = "PENDING"
  BY <1>1, <1>3
<1>5. \A u \in Task \cap Alive(Window \ {w}) :
        u # t /\ argument'[u] = argument[u] /\ state'[u] = state[u]
  BY <1>1, <1>3
<1>6. /\ Len(queue') = Len(queue) + 1 /\ Len(queue) \in Nat
      /\ \A i \in 1 .. Len(queue) : queue'[i] = queue[i]
      /\ queue'[Len(queue) + 1] = t
  BY <1>1, <1>3, AppendProperties, LenProperties DEF TypeOK
<1>7. ASSUME NEW i \in 1 .. Len(queue)
      PROVE  queue[i] # t /\ argument'[queue[i]] = argument[queue[i]]
  <2>1. queue[i] \in Task /\ queue[i] \in Alive(Window \ {w})
    BY ElementOfSeq DEF TypeOK, Alive
  <2> QED BY <1>5, <2>1
<1>8. Now # t /\ (~At("rest") => Making' = Making)
  <2>1. Now \in Alive(Window) /\ Now \in Alive(Window \ {w})
    BY DEF Alive, Now
  <2>2. Now' = Now
    BY <1>1 DEF Now
  <2> QED BY <1>3, <1>5, <2>1, <2>2 DEF WorkerInv, Making
<1>9. ASSUME NEW v \in Window \ {w}, page[v].task \in Task
      PROVE  /\ page[v].task # t
             /\ argument'[page[v].task] = argument[page[v].task]
             /\ state'[page[v].task] = state[page[v].task]
  <2>1. page[v].task \in Alive(Window \ {w})
    BY DEF Alive
  <2> QED BY <1>5, <1>9, <2>1
<1>10. /\ page'[w].stage = "polling" /\ page'[w].task = t /\ page'[w].report = r
       /\ \A v \in Window \ {w} : page'[v] = page[v]
  BY <1>1 DEF TypeOK, Closed
<1> QED BY <1>1, <1>3, <1>4, <1>6, <1>7, <1>8, <1>9, <1>10, ClosesStep

LEMMA PollStep ==
  ASSUME TypeOK, NEW w \in Window, Poll(w)
  PROVE  /\ Stage(w, "polling")
         /\ page'[w].stage \in {"link", "stopped", "stalled"}
         /\ page'[w].stage = "link" => state[page[w].task] = "SUCCESS"
         /\ page'[w].report = page[w].report
         /\ \A v \in Window \ {w} : page'[v] = page[v]
         /\ UNCHANGED <<queue, argument, state, worker, output, inode, crashes>>
<1>1. PICK s \in {"link", "stopped", "stalled"} :
        Ends(w, s) /\ (s = "link" => state[page[w].task] = "SUCCESS")
  BY DEF Poll
<1>2. page' = [page EXCEPT ![w] = [page[w] EXCEPT !.stage = s, !.task = 0]]
  BY <1>1 DEF Ends
<1>3. page[w] \in Showing
  BY DEF TypeOK
<1>4. /\ page'[w].stage = s /\ page'[w].report = page[w].report
      /\ \A v \in Window \ {w} : page'[v] = page[v]
  BY <1>2, <1>3 DEF TypeOK, Showing
<1> QED BY <1>1, <1>4 DEF Poll, tasks, files

LEMMA DownloadMissingStep ==
  ASSUME TypeOK, NEW w \in Window, DownloadOpen(w), output[Asked(w)] = 0
  PROVE  /\ Stage(w, "link") /\ output[Asked(w)] = 0
         /\ page'[w].stage = "done" /\ page'[w].report = page[w].report
         /\ page'[w].received = <<>>
         /\ \A v \in Window \ {w} : page'[v] = page[v]
         /\ UNCHANGED <<queue, argument, state, worker, output, inode, crashes>>
<1>1. page' = [page EXCEPT ![w] = [page[w] EXCEPT !.stage = "done", !.received = <<>>]]
  BY DEF DownloadOpen, Asked
<1>2. page[w] \in Showing
  BY DEF TypeOK
<1>3. /\ page'[w].stage = "done" /\ page'[w].report = page[w].report
      /\ page'[w].received = <<>>
      /\ \A v \in Window \ {w} : page'[v] = page[v]
  BY <1>1, <1>2 DEF TypeOK, Showing
<1> QED BY <1>3 DEF DownloadOpen, Asked, tasks, files

LEMMA DownloadOpenStep ==
  ASSUME TypeOK, NEW w \in Window, DownloadOpen(w), output[Asked(w)] # 0
  PROVE  /\ Stage(w, "link") /\ Asked(w) \in Kind
         /\ page'[w].stage = "opened" /\ page'[w].report = page[w].report
         /\ page'[w].file = output[Asked(w)]
         /\ output[Asked(w)] # 0 /\ page'[w].body = inode[output[Asked(w)]]
         /\ \A v \in Window \ {w} : page'[v] = page[v]
         /\ UNCHANGED <<queue, argument, state, worker, output, inode, crashes>>
<1> DEFINE i == output[Asked(w)]
           b == inode[i]
<1>1. page' = [page EXCEPT ![w] = [page[w] EXCEPT !.stage = "opened", !.file = i, !.body = b]]
  BY DEF DownloadOpen, Asked
<1>2. page[w] \in Showing /\ Stage(w, "link")
  BY DEF TypeOK, DownloadOpen
<1>3. Asked(w) \in Kind
  BY <1>2, ReportsAssumption DEF Showing, Asked, Stage
<1> HIDE DEF i, b
<1>4. /\ page'[w].stage = "opened" /\ page'[w].report = page[w].report
      /\ page'[w].file = i /\ page'[w].body = b
      /\ \A v \in Window \ {w} : page'[v] = page[v]
  BY <1>1, <1>2 DEF TypeOK, Showing
<1> QED BY <1>2, <1>3, <1>4 DEF DownloadOpen, Asked, tasks, files, i, b

LEMMA DownloadRemoveStep ==
  ASSUME TypeOK, NEW w \in Window, DownloadRemove(w)
  PROVE  /\ Stage(w, "opened") /\ Asked(w) \in Kind
         /\ output'[Asked(w)] = 0
         /\ \A l \in Kind \ {Asked(w)} : output'[l] = output[l]
         /\ page'[w].stage = "sending" /\ page'[w].report = page[w].report
         /\ page'[w].file = page[w].file /\ page'[w].body = page[w].body
         /\ \A v \in Window \ {w} : page'[v] = page[v]
         /\ UNCHANGED <<queue, argument, state, worker, inode, crashes>>
<1>1. page' = [page EXCEPT ![w] = [page[w] EXCEPT !.stage = "sending"]]
  BY DEF DownloadRemove, Turns
<1>2. page[w] \in Showing /\ Stage(w, "opened")
  BY DEF TypeOK, DownloadRemove
<1>3. Asked(w) \in Kind
  BY <1>2, ReportsAssumption DEF Showing, Asked, Stage
<1>4. output' = [output EXCEPT ![Asked(w)] = 0]
  BY DEF DownloadRemove, Asked
<1>5. output'[Asked(w)] = 0 /\ \A l \in Kind \ {Asked(w)} : output'[l] = output[l]
  BY <1>3, <1>4 DEF TypeOK
<1>6. /\ page'[w].stage = "sending" /\ page'[w].report = page[w].report
      /\ page'[w].file = page[w].file /\ page'[w].body = page[w].body
      /\ \A v \in Window \ {w} : page'[v] = page[v]
  BY <1>1, <1>2 DEF TypeOK, Showing
<1> QED BY <1>2, <1>3, <1>5, <1>6 DEF DownloadRemove, tasks

LEMMA DownloadSendStep ==
  ASSUME TypeOK, NEW w \in Window, DownloadSend(w)
  PROVE  /\ Stage(w, "sending")
         /\ page'[w].stage = "done" /\ page'[w].report = page[w].report
         /\ page'[w].received =
              IF inode[page[w].file] = page[w].body THEN page[w].body ELSE <<>>
         /\ \A v \in Window \ {w} : page'[v] = page[v]
         /\ \A k \in Kind : output[k] # 0 => inode'[output[k]] = inode[output[k]]
         /\ \A v \in Window \ {w} : page[v].file # 0 => inode'[page[v].file] = inode[page[v].file]
         /\ UNCHANGED <<queue, argument, state, worker, output, crashes>>
<1> DEFINE b == IF inode[page[w].file] = page[w].body THEN page[w].body ELSE <<>>
<1>1. page' = [page EXCEPT ![w] = [page[w] EXCEPT !.stage = "done", !.file = 0,
                                                  !.body = <<>>, !.received = b]]
  BY DEF DownloadSend
<1>2. page[w] \in Showing
  BY DEF TypeOK
<1> HIDE DEF b
<1>3. /\ page'[w].stage = "done" /\ page'[w].report = page[w].report /\ page'[w].received = b
      /\ \A v \in Window \ {w} : page'[v] = page[v]
  BY <1>1, <1>2 DEF TypeOK, Showing
<1>4. /\ Stage(w, "sending") /\ Closes(w)
      /\ UNCHANGED <<queue, argument, state, worker, output, crashes>>
  BY DEF DownloadSend, tasks
<1> QED BY <1>3, <1>4, ClosesStep DEF b

-----------------------------------------------------------------------------
(* The files. *)

LEMMA FileInductive ==
  ASSUME TypeOK, WorkerInv, FileInv, [Next]_vars
  PROVE  FileInv'
<1> DEFINE Apart == \A k, l \in Kind : k # l /\ output[k] # 0 => output[k] # output[l]
<1>0. Apart
  BY DEF FileInv
<1>1. ASSUME Apart', worker'.at \notin {"write"} \cup Written
      PROVE  FileInv'
  BY <1>1 DEF FileInv, At
\* The worker stays where it is, with its task.
<1>2. ASSUME worker' = worker, ~At("rest") => Making' = Making, output' = output,
             \A k \in Kind : output[k] # 0 => inode'[output[k]] = inode[output[k]]
      PROVE  FileInv'
  <2>1. At("write") => FileInv'
    <3> SUFFICES ASSUME At("write") PROVE FileInv' OBVIOUS
    <3>1. Making' = Making /\ worker'.at = "write" BY <1>2 DEF At
    <3> QED BY <1>2, <3>1 DEF FileInv, At, Written
  <2>2. worker.at \in Written => FileInv'
    <3> SUFFICES ASSUME worker.at \in Written PROVE FileInv' OBVIOUS
    <3>1. Making' = Making /\ Making \in Report /\ ~At("write")
      BY <1>2 DEF At, Written, WorkerInv
    <3>2. KindOf[Making] \in Kind BY <3>1, ReportsAssumption
    <3> QED BY <1>2, <3>1, <3>2 DEF FileInv, At, Written
  <2>3. worker.at \notin {"write"} \cup Written => FileInv'
    BY <1>0, <1>1, <1>2
  <2> QED BY <2>1, <2>2, <2>3 DEF At
<1>3. CASE UNCHANGED vars
  BY <1>2, <1>3 DEF vars, tasks, files, Making, Now
<1>4. CASE Works
  <2>1. Making' = Making
    BY <1>4 DEF Works, Making, Now
  <2>2. CASE worker'.at \in Written
    BY <1>4, <2>1, <2>2 DEF Works, FileInv, At, Written
  <2>3. CASE worker'.at \notin Written
    BY <1>0, <1>1, <1>4, <2>3 DEF Works
  <2> QED BY <2>2, <2>3
<1>5. CASE Take
  BY <1>0, <1>1, <1>5, TakeStep DEF Written
<1>6. CASE Ack
  BY <1>0, <1>1, <1>6, AckStep DEF Written
<1>7. CASE DaemonDies
  BY <1>0, <1>1, <1>7, DieStep DEF Written
<1>8. CASE OpenOutput
  <2> DEFINE k == KindOf[Making]
  <2>1. PICK i \in Inode :
           /\ k \in Kind
           /\ worker'.at = "write" /\ worker'.task = Now /\ worker'.file = i
           /\ output'[k] = i
           /\ \A l \in Kind \ {k} : output'[l] = output[l] /\ output[l] # i
           /\ argument' = argument
    BY <1>8, OpenOutputStep
  <2>2. Making' = Making
    BY <2>1 DEF Making, Now
  <2>3. i # 0
    BY DEF Inode
  <2>4. Apart'
    BY <1>0, <2>1
  <2> QED BY <2>1, <2>2, <2>3, <2>4 DEF FileInv, At, Written
<1>9. CASE WriteOutput
  <2>1. /\ At("write") /\ worker'.at = "remove" /\ worker'.task = Now
        /\ inode'[worker.file] = Whole(Making)
        /\ argument' = argument /\ output' = output
    BY <1>9, WriteStep
  <2>2. Making' = Making
    BY <2>1 DEF Making, Now
  <2>3. output[KindOf[Making]] \in {0, worker.file}
    BY <2>1 DEF FileInv
  <2> QED BY <1>0, <2>1, <2>2, <2>3 DEF FileInv, At, Written
<1>10. CASE Succeed
  BY <1>0, <1>1, <1>10, SucceedStep DEF Written
<1>11. ASSUME NEW w \in Window, NEW r \in Report, Open(w, r) PROVE FileInv'
  <2>1. /\ UNCHANGED <<worker, output>> /\ (~At("rest") => Making' = Making)
        /\ \A k \in Kind : output[k] # 0 => inode'[output[k]] = inode[output[k]]
    BY <1>11, OpenStep
  <2> QED BY <1>2, <2>1
<1>12. ASSUME NEW w \in Window, Poll(w) PROVE FileInv'
  BY <1>2, <1>12, PollStep DEF Making, Now
<1>13. ASSUME NEW w \in Window, DownloadOpen(w), output[Asked(w)] # 0 PROVE FileInv'
  BY <1>2, <1>13, DownloadOpenStep DEF Making, Now
<1>14. ASSUME NEW w \in Window, DownloadRemove(w) PROVE FileInv'
  <2>1. /\ Asked(w) \in Kind /\ output'[Asked(w)] = 0
        /\ \A l \in Kind \ {Asked(w)} : output'[l] = output[l]
        /\ UNCHANGED <<argument, worker, inode>>
    BY <1>14, DownloadRemoveStep
  <2>2. \A l \in Kind : output'[l] \in {output[l], 0}
    BY <2>1
  <2>3. Apart'
    BY <1>0, <2>2
  <2>4. Making' = Making
    BY <2>1 DEF Making, Now
  <2>5. ~At("rest") => KindOf[Making] \in Kind
    BY ReportsAssumption DEF WorkerInv
  <2> QED BY <2>1, <2>2, <2>3, <2>4, <2>5 DEF FileInv, At, Written
<1>15. ASSUME NEW w \in Window, DownloadSend(w) PROVE FileInv'
  BY <1>2, <1>15, DownloadSendStep DEF Making, Now
<1>16. ASSUME NEW w \in Window, DownloadOpen(w), output[Asked(w)] = 0 PROVE FileInv'
  BY <1>2, <1>16, DownloadMissingStep DEF Making, Now
<1> QED
  BY <1>3, <1>4, <1>5, <1>6, <1>7, <1>8, <1>9, <1>10, <1>11, <1>12, <1>13, <1>14, <1>15,
     <1>16, WorksSteps
  DEF Next, WorkerStep, PageStep

-----------------------------------------------------------------------------
(* The queue. *)

\* What a window has asked for is of none of the kinds of a window that shares with nobody.
LEMMA KindsDiffer ==
  ASSUME PollInv, NEW w \in Window, Unshared(w), ~Stage(w, "closed"),
         NEW v \in Window \ {w}
  PROVE  /\ ~Stage(v, "closed") => Asked(v) # Asked(w)
         /\ \A r \in Opens[v] : KindOf[r] # Asked(w)
BY DEF PollInv, Unshared, Asked

\* A task of such a window's kind is not queued by another.
LEMMA QueuedByOthers ==
  ASSUME TypeOK, WorkerInv, PollInv, NEW w \in Window, Unshared(w), ~Stage(w, "closed"),
         NEW v \in Window \ {w}, NEW r \in Report, Open(v, r)
  PROVE  /\ page'[w] = page[w] /\ Asked(w)' = Asked(w)
         /\ Queued(Asked(w))' = Queued(Asked(w))
         /\ \A i \in Queued(Asked(w)) : argument'[queue'[i]] = argument[queue[i]]
<1>1. PICK t \in Task :
        /\ r \in Opens[v] /\ page'[w] = page[w]
        /\ argument'[t] = r
        /\ Len(queue) \in Nat /\ Len(queue') = Len(queue) + 1 /\ queue'[Len(queue) + 1] = t
        /\ \A i \in 1 .. Len(queue) : /\ queue'[i] = queue[i]
                                      /\ argument'[queue[i]] = argument[queue[i]]
  BY OpenStep
<1>2. KindOf[r] # Asked(w)
  BY <1>1, KindsDiffer
<1>3. Asked(w)' = Asked(w)
  BY <1>1 DEF Asked
<1>4. \A i \in 1 .. Len(queue') :
        KindOf[argument'[queue'[i]]] = Asked(w) <=>
          i \in 1 .. Len(queue) /\ KindOf[argument[queue[i]]] = Asked(w)
  BY <1>1, <1>2
<1>5. Queued(Asked(w))' = Queued(Asked(w))
  BY <1>1, <1>3, <1>4 DEF Queued
<1>6. \A i \in Queued(Asked(w)) : argument'[queue'[i]] = argument[queue[i]]
  BY <1>1 DEF Queued
<1> QED BY <1>1, <1>3, <1>5, <1>6

LEMMA PollInductive ==
  ASSUME TypeOK, WorkerInv, FileInv, PollInv, [Next]_vars
  PROVE  PollInv'
<1> SUFFICES ASSUME NEW w \in Window
             PROVE  /\ ~Stage(w, "closed")' => page'[w].report \in Opens[w]
                    /\ Stage(w, "polling")' /\ Unshared(w) => LastOfItsKind(w)'
  BY DEF PollInv, Unshared
<1> DEFINE Goal == /\ ~Stage(w, "closed")' => page'[w].report \in Opens[w]
                   /\ Stage(w, "polling")' /\ Unshared(w) => LastOfItsKind(w)'
           t == page[w].task
           k == Asked(w)
<1>0. /\ ~Stage(w, "closed") => page[w].report \in Opens[w]
      /\ Stage(w, "polling") /\ Unshared(w) => LastOfItsKind(w)
  BY DEF PollInv
<1>a. Stage(w, "polling") => ~Stage(w, "closed")
  BY DEF Stage
\* The window does nothing.
<1>1. ASSUME page'[w] = page[w],
             Stage(w, "polling") /\ Unshared(w) /\ LastOfItsKind(w) => LastOfItsKind(w)'
      PROVE  Goal
  BY <1>0, <1>1 DEF Stage
<1>2. ASSUME page'[w] = page[w], UNCHANGED <<queue, argument>>,
             worker'.task = Now, worker'.at = "write" => worker' = worker,
             worker'.at \in Written => worker.at \in Written,
             Stage(w, "polling") /\ Unshared(w) => output'[k] = output[k]
      PROVE  Goal
  <2> SUFFICES ASSUME Stage(w, "polling"), Unshared(w), LastOfItsKind(w)
               PROVE  LastOfItsKind(w)'
    BY <1>1, <1>2
  <2>1. Asked(w)' = k /\ Queued(k)' = Queued(k) /\ Now' = Now
    BY <1>2 DEF Asked, Queued, Now
  <2> QED BY <1>2, <2>1 DEF LastOfItsKind, At
\* The window shows another page than before, and does not poll.
<1>3. ASSUME page'[w].report = page[w].report, ~Stage(w, "closed"),
             page'[w].stage # "polling"
      PROVE  Goal
  BY <1>0, <1>3 DEF Stage
<1>4. CASE UNCHANGED vars
  BY <1>2, <1>4 DEF vars, tasks, files, Now
<1>5. CASE Works
  BY <1>2, <1>5 DEF Works
<1>6. CASE Take
  <2>1. /\ worker'.at = "announce"
        /\ Len(queue) \in Nat \ {0} /\ Len(queue') = Len(queue) - 1
        /\ \A i \in 1 .. Len(queue') : queue'[i] = queue[i + 1]
        /\ worker'.task = queue[1]
        /\ argument' = argument /\ page' = page
    BY <1>6, TakeStep
  <2> SUFFICES ASSUME Stage(w, "polling"), Unshared(w), LastOfItsKind(w)
               PROVE  LastOfItsKind(w)'
    BY <1>1, <2>1
  <2>2. Asked(w)' = k
    BY <2>1 DEF Asked
  <2>3. ASSUME NEW j \in Queued(k)'
        PROVE  j \in 1 .. Len(queue') /\ j + 1 \in Queued(k)
    <3>1. j \in 1 .. Len(queue') /\ KindOf[argument[queue'[j]]] = k
      BY <2>1, <2>2 DEF Queued
    <3>2. j + 1 \in 1 .. Len(queue) /\ queue'[j] = queue[j + 1]
      BY <2>1, <3>1
    <3> QED BY <3>1, <3>2 DEF Queued
  <2>4. \A i \in 1 .. Len(queue'), j \in Queued(k)' : queue'[i] = t => j <= i
    <3> SUFFICES ASSUME NEW i \in 1 .. Len(queue'), NEW j \in Queued(k)', queue'[i] = t
                 PROVE  j <= i
      OBVIOUS
    <3>1. i + 1 \in 1 .. Len(queue) /\ queue[i + 1] = t /\ j + 1 \in Queued(k) /\ j \in Int
      BY <2>1, <2>3
    <3>2. j + 1 <= i + 1
      BY <3>1 DEF LastOfItsKind
    <3> QED BY <3>1, <3>2
  <2>5. queue[1] = t => Queued(k)' = {}
    <3> SUFFICES ASSUME queue[1] = t, NEW j \in Queued(k)' PROVE FALSE OBVIOUS
    <3>1. 1 \in 1 .. Len(queue) /\ j + 1 \in Queued(k) /\ j \in Nat \ {0}
      BY <2>1, <2>3
    <3>2. j + 1 <= 1
      BY <3>1 DEF LastOfItsKind
    <3> QED BY <3>1, <3>2
  <2> QED BY <2>1, <2>2, <2>4, <2>5 DEF LastOfItsKind, At, Written, Now
<1>7. CASE Ack
  <2>1. worker'.task = 0 /\ UNCHANGED <<queue, argument, page>>
    BY <1>7, AckStep
  <2> SUFFICES ASSUME Stage(w, "polling"), Unshared(w), LastOfItsKind(w)
               PROVE  LastOfItsKind(w)'
    BY <1>1, <2>1
  <2>2. Asked(w)' = k /\ Queued(k)' = Queued(k)
    BY <2>1 DEF Asked, Queued
  <2>3. Now' # page'[w].task
    BY <2>1, ReportsAssumption DEF LastOfItsKind, Now, Task
  <2> QED BY <2>1, <2>2, <2>3 DEF LastOfItsKind
<1>8. CASE DaemonDies
  <2>1. /\ worker'.task = 0
        /\ Len(queue) \in Nat /\ Len(queue') = Len(queue) + 1
        /\ queue'[1] = Now
        /\ \A i \in 2 .. Len(queue') : i - 1 \in 1 .. Len(queue) /\ queue'[i] = queue[i - 1]
        /\ UNCHANGED <<argument, page>>
    BY <1>8, DieStep
  <2> SUFFICES ASSUME Stage(w, "polling"), Unshared(w), LastOfItsKind(w)
               PROVE  LastOfItsKind(w)'
    BY <1>1, <2>1
  <2>2. Asked(w)' = k /\ page'[w] = page[w]
    BY <2>1 DEF Asked
  <2>3. Now' # page'[w].task
    BY <2>1, ReportsAssumption DEF LastOfItsKind, Now, Task
  <2>4. ASSUME NEW j \in Queued(k)'
        PROVE  j \in 1 .. Len(queue') /\ (j = 1 \/ j - 1 \in Queued(k))
    <3>1. j \in 1 .. Len(queue') /\ KindOf[argument[queue'[j]]] = k
      BY <2>1, <2>2 DEF Queued
    <3>2. j # 1 => j - 1 \in 1 .. Len(queue) /\ queue'[j] = queue[j - 1]
      BY <2>1, <3>1
    <3> QED BY <3>1, <3>2 DEF Queued
  <2>5. \A i \in 1 .. Len(queue'), j \in Queued(k)' : queue'[i] = t => j <= i
    <3> SUFFICES ASSUME NEW i \in 1 .. Len(queue'), NEW j \in Queued(k)', queue'[i] = t
                 PROVE  j <= i
      OBVIOUS
    <3>1. CASE j = 1
      BY <2>1, <3>1
    <3>2. CASE i = 1 /\ j # 1
      BY <2>1, <2>4, <3>2 DEF LastOfItsKind
    <3>3. CASE i # 1 /\ j # 1
      <4>1. i - 1 \in 1 .. Len(queue) /\ queue[i - 1] = t /\ j - 1 \in Queued(k) /\ j \in Int
        BY <2>1, <2>4, <3>3
      <4>2. j - 1 <= i - 1
        BY <4>1 DEF LastOfItsKind
      <4> QED BY <4>1, <4>2
    <3> QED BY <3>1, <3>2, <3>3
  <2> QED BY <2>1, <2>2, <2>3, <2>5 DEF LastOfItsKind
<1>9. CASE OpenOutput
  <2>1. PICK i \in Inode :
           /\ worker'.at = "write" /\ worker'.task = Now /\ worker'.file = i
           /\ output'[KindOf[Making]] = i
           /\ UNCHANGED <<queue, argument, page>>
    BY <1>9, OpenOutputStep
  <2> SUFFICES ASSUME Stage(w, "polling"), Unshared(w), LastOfItsKind(w)
               PROVE  LastOfItsKind(w)'
    BY <1>1, <2>1
  <2>2. Asked(w)' = k /\ Queued(k)' = Queued(k) /\ Now' = Now
    BY <2>1 DEF Asked, Queued, Now
  <2>3. Now = t => KindOf[Making] = k
    BY DEF LastOfItsKind, Making, Asked
  <2> QED BY <2>1, <2>2, <2>3 DEF LastOfItsKind, At, Written
<1>10. CASE WriteOutput
  <2>1. /\ At("write") /\ worker'.at = "remove" /\ worker'.task = Now
        /\ UNCHANGED <<queue, argument, output, page>>
    BY <1>10, WriteStep
  <2> SUFFICES ASSUME Stage(w, "polling"), Unshared(w), LastOfItsKind(w)
               PROVE  LastOfItsKind(w)'
    BY <1>1, <2>1
  <2>2. Asked(w)' = k /\ Queued(k)' = Queued(k) /\ Now' = Now
    BY <2>1 DEF Asked, Queued, Now
  <2>3. worker.file # 0
    BY <2>1 DEF FileInv
  <2> QED BY <2>1, <2>2, <2>3 DEF LastOfItsKind, At
<1>11. CASE Succeed
  BY <1>2, <1>11, SucceedStep DEF Written
<1>12. ASSUME NEW v \in Window, NEW r \in Report, Open(v, r) PROVE Goal
  <2>1. PICK u \in Task :
           /\ r \in Opens[v]
           /\ page'[v].stage = "polling" /\ page'[v].task = u /\ page'[v].report = r
           /\ \A x \in Window \ {v} : page'[x] = page[x]
           /\ argument'[u] = r /\ Now # u
           /\ Len(queue) \in Nat /\ Len(queue') = Len(queue) + 1 /\ queue'[Len(queue) + 1] = u
           /\ \A i \in 1 .. Len(queue) : queue'[i] = queue[i] /\ queue[i] # u
           /\ \A x \in Window \ {v} : page[x].task \in Task =>
                /\ page[x].task # u
                /\ argument'[page[x].task] = argument[page[x].task]
           /\ UNCHANGED <<worker, output>>
    BY <1>12, OpenStep
  <2>2. CASE v = w
    <3>1. \A i \in 1 .. Len(queue'), j \in Queued(Asked(w))' : queue'[i] = u => j <= i
      <4> SUFFICES ASSUME NEW i \in 1 .. Len(queue'), NEW j \in Queued(Asked(w))', queue'[i] = u
                   PROVE  j <= i
        OBVIOUS
      <4>1. i = Len(queue) + 1
        BY <2>1
      <4>2. j \in 1 .. Len(queue) + 1
        BY <2>1 DEF Queued
      <4> QED BY <2>1, <4>1, <4>2
    <3>2. Now' # u
      BY <2>1 DEF Now
    <3>3. LastOfItsKind(w)'
      BY <2>1, <2>2, <3>1, <3>2 DEF LastOfItsKind
    <3> QED BY <2>1, <2>2, <3>3 DEF Stage
  <2>3. CASE v # w
    <3> SUFFICES ASSUME Stage(w, "polling"), Unshared(w), LastOfItsKind(w)
                 PROVE  LastOfItsKind(w)'
      BY <1>1, <2>1, <2>3
    <3>1. page'[w] = page[w] /\ Asked(w)' = k /\ Queued(k)' = Queued(k)
      BY <1>12, <1>a, <2>3, QueuedByOthers
    <3>2. t \in Task /\ t # u /\ argument'[t] = page[w].report
      BY <2>1, <2>3 DEF LastOfItsKind
    <3>3. \A i \in 1 .. Len(queue'), j \in Queued(k) : queue'[i] = t => j <= i
      <4> SUFFICES ASSUME NEW i \in 1 .. Len(queue'), NEW j \in Queued(k), queue'[i] = t
                   PROVE  j <= i
        OBVIOUS
      <4>1. i \in 1 .. Len(queue) /\ queue[i] = t
        BY <2>1, <3>2
      <4> QED BY <4>1 DEF LastOfItsKind
    <3>4. Now' = Now
      BY <2>1 DEF Now
    <3> QED BY <2>1, <3>1, <3>2, <3>3, <3>4 DEF LastOfItsKind, At
  <2> QED BY <2>2, <2>3
<1>13. ASSUME NEW v \in Window, Poll(v) PROVE Goal
  <2>1. CASE v = w
    BY <1>3, <1>13, <1>a, <2>1, PollStep
  <2>2. CASE v # w
    <3>1. page'[w] = page[w] /\ UNCHANGED <<queue, argument, worker, output>>
      BY <1>13, <2>2, PollStep
    <3> QED BY <1>2, <3>1 DEF Now
  <2> QED BY <2>1, <2>2
<1>14. ASSUME NEW v \in Window, DownloadOpen(v), output[Asked(v)] # 0 PROVE Goal
  <2>1. CASE v = w
    BY <1>3, <1>14, <2>1, DownloadOpenStep DEF Stage
  <2>2. CASE v # w
    <3>1. page'[w] = page[w] /\ UNCHANGED <<queue, argument, worker, output>>
      BY <1>14, <2>2, DownloadOpenStep
    <3> QED BY <1>2, <3>1 DEF Now
  <2> QED BY <2>1, <2>2
<1>15. ASSUME NEW v \in Window, DownloadRemove(v) PROVE Goal
  <2>1. CASE v = w
    BY <1>3, <1>15, <2>1, DownloadRemoveStep DEF Stage
  <2>2. CASE v # w
    <3>1. /\ page'[w] = page[w] /\ UNCHANGED <<queue, argument, worker>>
          /\ Stage(v, "opened") /\ \A l \in Kind \ {Asked(v)} : output'[l] = output[l]
      BY <1>15, <2>2, DownloadRemoveStep
    <3>2. Stage(w, "polling") /\ Unshared(w) => output'[k] = output[k]
      <4> SUFFICES ASSUME Stage(w, "polling"), Unshared(w) PROVE output'[k] = output[k]
        OBVIOUS
      <4>1. Asked(v) # k
        BY <1>a, <2>2, <3>1, KindsDiffer DEF Stage
      <4>2. k \in Kind
        BY <1>0, <1>a, ReportsAssumption DEF Asked
      <4> QED BY <3>1, <4>1, <4>2
    <3> QED BY <1>2, <3>1, <3>2 DEF Now
  <2> QED BY <2>1, <2>2
<1>16. ASSUME NEW v \in Window, DownloadSend(v) PROVE Goal
  <2>1. CASE v = w
    BY <1>3, <1>16, <2>1, DownloadSendStep DEF Stage
  <2>2. CASE v # w
    <3>1. page'[w] = page[w] /\ UNCHANGED <<queue, argument, worker, output>>
      BY <1>16, <2>2, DownloadSendStep
    <3> QED BY <1>2, <3>1 DEF Now
  <2> QED BY <2>1, <2>2
<1>17. ASSUME NEW v \in Window, DownloadOpen(v), output[Asked(v)] = 0 PROVE Goal
  <2>1. CASE v = w
    BY <1>3, <1>17, <2>1, DownloadMissingStep DEF Stage
  <2>2. CASE v # w
    <3>1. page'[w] = page[w] /\ UNCHANGED <<queue, argument, worker, output>>
      BY <1>17, <2>2, DownloadMissingStep
    <3> QED BY <1>2, <3>1 DEF Now
  <2> QED BY <2>1, <2>2
<1> QED
  BY <1>4, <1>5, <1>6, <1>7, <1>8, <1>9, <1>10, <1>11, <1>12, <1>13, <1>14, <1>15, <1>16,
     <1>17, WorksSteps
  DEF Next, WorkerStep, PageStep

-----------------------------------------------------------------------------
(* The pages are of the window's own report. *)

LEMMA OnlyWhole ==
  ASSUME NEW r \in Report
  PROVE  Only(Whole(r), r)
<1>1. Len(Parts(r)) \in Nat
  BY PartsTyped, LenProperties
<1>2. Len(Whole(r)) = Len(Parts(r))
  BY <1>1 DEF Whole
<1> QED BY <1>1, <1>2 DEF Only, Whole

LEMMA OnlyEmpty == \A r : Only(<<>>, r)
BY DEF Only

LEMMA AskedTyped ==
  ASSUME TypeOK, PollInv, NEW w \in Window, ~Stage(w, "closed")
  PROVE  page[w].report \in Report /\ Asked(w) \in Kind
BY ReportsAssumption DEF PollInv, Asked

LEMMA OwnInductive ==
  ASSUME TypeOK, WorkerInv, FileInv, PollInv, OwnInv, [Next]_vars
  PROVE  OwnInv'
<1> SUFFICES ASSUME NEW w \in Window, Unshared(w) PROVE OnlyOwn(w)'
  BY DEF OwnInv, Unshared
<1> DEFINE r == page[w].report
           k == Asked(w)
           Queue == \A i \in 1 .. Len(queue) :
                      KindOf[argument[queue[i]]] = k => argument[queue[i]] = r
           Run == worker.at # "rest" /\ KindOf[argument[worker.task]] = k
                    => argument[worker.task] = r
           File == output[k] # 0 => Only(inode[output[k]], r)
<1>0. OnlyOwn(w)
  BY DEF OwnInv
<1>a. Served(w) => Queue /\ Run /\ File
  BY <1>0 DEF OnlyOwn, Queued, Running, At, Making, Now
<1>b. /\ Served(w) => r \in Report /\ k \in Kind
      /\ Served(w) => ~Stage(w, "closed")
  BY AskedTyped DEF Served, Stage
\* The window does nothing.
<1>1. ASSUME page'[w] = page[w], Served(w)' => Queue' /\ Run' /\ File'
      PROVE  OnlyOwn(w)'
  BY <1>0, <1>1 DEF OnlyOwn, Stage, Queued, Running, At, Making, Now
<1>2. ASSUME page'[w] = page[w], Stage(w, "polling") => state'[page[w].task] = state[page[w].task]
      PROVE  Served(w)' = Served(w) /\ r' = r /\ k' = k
  BY <1>2 DEF Served, Stage, Asked
<1>3. CASE UNCHANGED vars
  <2>1. UNCHANGED <<queue, argument, state, worker, output, inode, page>>
    BY <1>3 DEF vars, tasks, files
  <2>2. Served(w)' = Served(w) /\ r' = r /\ k' = k
    BY <1>2, <2>1
  <2> QED BY <1>1, <1>a, <2>1, <2>2
<1>4. CASE Works
  <2>1. /\ ~At("rest") /\ worker'.task = worker.task
        /\ UNCHANGED <<queue, argument, output, inode, page>>
    BY <1>4 DEF Works, Now
  <2>2. r' = r /\ k' = k
    BY <2>1 DEF Asked
  <2>3. Served(w)' => Served(w)
    BY <1>4, <2>1 DEF Works, Served, Stage, PollInv, LastOfItsKind
  <2> QED BY <1>1, <1>a, <2>1, <2>2, <2>3 DEF At
<1>5. CASE Take
  <2>1. /\ Len(queue) \in Nat \ {0} /\ Len(queue') = Len(queue) - 1
        /\ \A i \in 1 .. Len(queue') : queue'[i] = queue[i + 1]
        /\ worker'.task = queue[1]
        /\ UNCHANGED <<argument, state, output, inode, page>>
    BY <1>5, TakeStep
  <2>2. Served(w)' = Served(w) /\ r' = r /\ k' = k
    BY <1>2, <2>1
  <2>3. \A i \in 1 .. Len(queue') : i + 1 \in 1 .. Len(queue)
    BY <2>1
  <2>4. Queue => Queue' /\ Run'
    <3>1. Queue => Queue' BY <2>1, <2>2, <2>3
    <3>2. 1 \in 1 .. Len(queue) BY <2>1
    <3>3. Queue => Run' BY <2>1, <2>2, <3>2
    <3> QED BY <3>1, <3>3
  <2> QED BY <1>1, <1>a, <2>1, <2>2, <2>4
<1>6. CASE Ack
  <2>1. worker'.at = "rest" /\ UNCHANGED <<queue, argument, state, output, inode, page>>
    BY <1>6, AckStep
  <2>2. Served(w)' = Served(w) /\ r' = r /\ k' = k
    BY <1>2, <2>1
  <2> QED BY <1>1, <1>a, <2>1, <2>2
<1>7. CASE DaemonDies
  <2>1. /\ ~At("rest") /\ worker'.at = "rest"
        /\ Len(queue) \in Nat /\ Len(queue') = Len(queue) + 1
        /\ queue'[1] = worker.task
        /\ \A i \in 2 .. Len(queue') : i - 1 \in 1 .. Len(queue) /\ queue'[i] = queue[i - 1]
        /\ UNCHANGED <<argument, state, output, inode, page>>
    BY <1>7, DieStep DEF Now
  <2>2. Served(w)' = Served(w) /\ r' = r /\ k' = k
    BY <1>2, <2>1
  <2>3. Queue /\ Run => Queue'
    <3> SUFFICES ASSUME Queue, Run, NEW i \in 1 .. Len(queue'),
                        KindOf[argument[queue'[i]]] = k
                 PROVE  argument[queue'[i]] = r
      BY <2>1, <2>2
    <3>1. CASE i = 1
      BY <2>1, <3>1 DEF At
    <3>2. CASE i # 1
      <4>1. i - 1 \in 1 .. Len(queue) /\ queue'[i] = queue[i - 1]
        BY <2>1, <3>2
      <4> QED BY <4>1
    <3> QED BY <3>1, <3>2
  <2> QED BY <1>1, <1>a, <2>1, <2>2, <2>3
<1>8. CASE OpenOutput
  <2> DEFINE m == KindOf[Making]
  <2>1. PICK i \in Inode :
           /\ At("open") /\ m \in Kind
           /\ worker'.at = "write" /\ worker'.task = Now
           /\ output'[m] = i
           /\ \A l \in Kind \ {m} : output'[l] = output[l] /\ output[l] # i
           /\ inode'[i] = <<>>
           /\ \A j \in Inode \ {i} : inode'[j] = inode[j]
           /\ UNCHANGED <<queue, argument, state, page>>
    BY <1>8, OpenOutputStep
  <2>2. Served(w)' = Served(w) /\ r' = r /\ k' = k
    BY <1>2, <2>1
  <2>3. Run => Run'
    BY <2>1, <2>2 DEF Now, At
  <2>4. Served(w) /\ File => File'
    <3> SUFFICES ASSUME Served(w), File, output'[k] # 0 PROVE Only(inode'[output'[k]], r)
      BY <2>2
    <3>1. CASE k = m
      BY <2>1, <3>1, OnlyEmpty
    <3>2. CASE k # m
      <4>1. output'[k] = output[k] /\ output[k] # i /\ output[k] \in Inode
        BY <1>b, <2>1, <3>2 DEF TypeOK
      <4> QED BY <2>1, <4>1
    <3> QED BY <3>1, <3>2
  <2> QED BY <1>1, <1>a, <2>1, <2>2, <2>3, <2>4
<1>9. CASE WriteOutput
  <2>1. /\ At("write") /\ Making \in Report
        /\ worker'.task = Now
        /\ worker.file \in Inode
        /\ inode'[worker.file] = Whole(Making)
        /\ \A j \in Inode \ {worker.file} : inode'[j] = inode[j]
        /\ UNCHANGED <<queue, argument, state, output, page>>
    BY <1>9, WriteStep
  <2>2. Served(w)' = Served(w) /\ r' = r /\ k' = k
    BY <1>2, <2>1
  <2>3. Run => Run'
    BY <2>1, <2>2 DEF Now, At
  <2>4. Served(w) /\ Run /\ File => File'
    <3> SUFFICES ASSUME Served(w), Run, File, output[k] # 0 PROVE Only(inode'[output[k]], r)
      BY <2>1, <2>2
    <3>1. CASE output[k] = worker.file
      <4>1. KindOf[Making] = k
        BY <1>b, <2>1, <3>1 DEF FileInv
      <4>2. Making = r
        BY <2>1, <4>1 DEF Making, Now, At
      <4> QED BY <2>1, <3>1, <4>2, OnlyWhole
    <3>2. CASE output[k] # worker.file
      <4>1. output[k] \in Inode
        BY <1>b DEF TypeOK
      <4> QED BY <2>1, <3>2, <4>1
    <3> QED BY <3>1, <3>2
  <2> QED BY <1>1, <1>a, <2>1, <2>2, <2>3, <2>4
<1>10. CASE Succeed
  <2>1. /\ At("succeed") /\ Making \in Report /\ worker'.task = Now
        /\ \A t \in Task \ {Now} : state'[t] = state[t]
        /\ UNCHANGED <<queue, argument, output, inode, page>>
    BY <1>10, SucceedStep
  <2>2. r' = r /\ k' = k
    BY <2>1 DEF Asked
  <2>3. CASE Served(w)
    <3>1. Run => Run'
      BY <2>1, <2>2 DEF Now, At
    <3> QED BY <1>1, <1>a, <2>1, <2>2, <2>3, <3>1
  <2>4. CASE ~Served(w) /\ Served(w)'
    <3>1. Stage(w, "polling") /\ LastOfItsKind(w)
      BY <2>1, <2>4 DEF Served, Stage, PollInv
    <3>2. page[w].task = Now
      BY <2>1, <2>4, <3>1 DEF Served, Stage, LastOfItsKind
    <3>3. Making = r /\ KindOf[Making] = k /\ Queued(k) = {}
      BY <3>1, <3>2 DEF LastOfItsKind, Making, Asked
    <3>4. Queue'
      BY <2>1, <2>2, <3>3 DEF Queued
    <3>5. Run'
      BY <2>1, <2>2, <3>3 DEF Making
    <3>6. File'
      <4>1. output[k] # 0 => inode[output[k]] = Whole(r)
        BY <2>1, <3>3 DEF FileInv, At, Written
      <4>2. r \in Report
        BY <2>1, <3>3
      <4> QED BY <2>1, <2>2, <4>1, <4>2, OnlyWhole
    <3> QED BY <1>1, <2>1, <3>4, <3>5, <3>6
  <2>5. CASE ~Served(w)'
    BY <1>1, <2>1, <2>5
  <2> QED BY <2>3, <2>4, <2>5
<1>11. ASSUME NEW v \in Window, NEW s \in Report, Open(v, s) PROVE OnlyOwn(w)'
  <2>1. PICK u \in Task :
           /\ page'[v].stage = "polling" /\ page'[v].task = u
           /\ \A x \in Window \ {v} : page'[x] = page[x]
           /\ state'[u] = "PENDING"
           /\ ~At("rest") => Making' = Making
           /\ \A x \in Window \ {v} : page[x].task \in Task =>
                state'[page[x].task] = state[page[x].task]
           /\ \A l \in Kind : output[l] # 0 => inode'[output[l]] = inode[output[l]]
           /\ UNCHANGED <<worker, output>>
    BY <1>11, OpenStep
  <2>2. CASE v = w
    BY <2>1, <2>2 DEF OnlyOwn, Served, Stage
  <2>3. CASE v # w
    <3>1. Stage(w, "polling") => page[w].task \in Task
      BY DEF PollInv, LastOfItsKind
    <3>2. page'[w] = page[w] /\ Served(w)' = Served(w) /\ r' = r /\ k' = k
      BY <1>2, <2>1, <2>3, <3>1
    <3>3. ASSUME Served(w) PROVE Queue' /\ Run' /\ File'
      <4>1. /\ Queued(Asked(w))' = Queued(Asked(w))
            /\ \A i \in Queued(Asked(w)) : argument'[queue'[i]] = argument[queue[i]]
        BY <1>11, <1>b, <2>3, <3>3, QueuedByOthers
      <4>2. \A i \in Queued(Asked(w)) : argument[queue[i]] = r
        BY <3>3, <1>0 DEF OnlyOwn
      <4>3. Queue'
        BY <3>2, <4>1, <4>2 DEF Queued
      <4>4. Run'
        BY <1>a, <2>1, <3>2, <3>3 DEF Making, Now, At
      <4>5. File'
        BY <1>a, <1>b, <2>1, <3>2, <3>3
      <4> QED BY <4>3, <4>4, <4>5
    <3> QED BY <1>1, <3>2, <3>3
  <2> QED BY <2>2, <2>3
\* Another window does something that leaves tasks and worker alone.
<1>12. ASSUME page'[w] = page[w], UNCHANGED <<queue, argument, state, worker>>,
              Served(w) /\ File => File'
       PROVE  OnlyOwn(w)'
  <2>1. Served(w)' = Served(w) /\ r' = r /\ k' = k
    BY <1>2, <1>12
  <2> QED BY <1>1, <1>a, <1>12, <2>1
<1>13. ASSUME NEW v \in Window, Poll(v) PROVE OnlyOwn(w)'
  <2>1. /\ Stage(v, "polling")
        /\ page'[v].stage \in {"link", "stopped", "stalled"}
        /\ page'[v].stage = "link" => state[page[v].task] = "SUCCESS"
        /\ page'[v].report = page[v].report
        /\ \A x \in Window \ {v} : page'[x] = page[x]
        /\ UNCHANGED <<queue, argument, state, worker, output, inode>>
    BY <1>13, PollStep
  <2>2. CASE v = w
    <3>1. r' = r /\ k' = k
      BY <2>1, <2>2 DEF Asked
    <3>2. Served(w)' => Served(w)
      BY <2>1, <2>2 DEF Served, Stage
    <3>3. Served(w)' => Queue' /\ Run' /\ File'
      BY <1>a, <2>1, <3>1, <3>2
    <3> QED
      BY <2>1, <2>2, <3>1, <3>3 DEF OnlyOwn, Stage, Queued, Running, At, Making, Now
  <2>3. CASE v # w
    <3>1. page'[w] = page[w] /\ r' = r /\ k' = k
      BY <2>1, <2>3 DEF Asked
    <3> QED BY <1>12, <2>1, <3>1
  <2> QED BY <2>2, <2>3
<1>14. ASSUME NEW v \in Window, DownloadOpen(v), output[Asked(v)] # 0 PROVE OnlyOwn(w)'
  <2>1. /\ Stage(v, "link") /\ Asked(v) \in Kind
        /\ page'[v].stage = "opened" /\ page'[v].report = page[v].report
        /\ output[Asked(v)] # 0 /\ page'[v].body = inode[output[Asked(v)]]
        /\ \A x \in Window \ {v} : page'[x] = page[x]
        /\ UNCHANGED <<queue, argument, state, worker, output, inode>>
    BY <1>14, DownloadOpenStep
  <2>2. CASE v = w
    <3>1. Served(w)
      BY <2>1, <2>2 DEF Served
    <3>2. Only(page'[w].body, r)
      BY <1>a, <2>1, <2>2, <3>1
    <3> QED BY <2>1, <2>2, <3>2 DEF OnlyOwn, Served, Stage
  <2>3. CASE v # w
    <3>1. page'[w] = page[w] /\ r' = r /\ k' = k
      BY <2>1, <2>3 DEF Asked
    <3> QED BY <1>12, <2>1, <3>1
  <2> QED BY <2>2, <2>3
<1>15. ASSUME NEW v \in Window, DownloadRemove(v) PROVE OnlyOwn(w)'
  <2>1. /\ Stage(v, "opened") /\ Asked(v) \in Kind
        /\ output'[Asked(v)] = 0
        /\ \A l \in Kind \ {Asked(v)} : output'[l] = output[l]
        /\ page'[v].stage = "sending" /\ page'[v].report = page[v].report
        /\ page'[v].body = page[v].body
        /\ \A x \in Window \ {v} : page'[x] = page[x]
        /\ UNCHANGED <<queue, argument, state, worker, inode>>
    BY <1>15, DownloadRemoveStep
  <2>2. CASE v = w
    <3>1. Only(page[w].body, r)
      BY <1>0, <2>1, <2>2 DEF OnlyOwn, Stage
    <3> QED BY <2>1, <2>2, <3>1 DEF OnlyOwn, Served, Stage
  <2>3. CASE v # w
    <3>1. page'[w] = page[w] /\ r' = r /\ k' = k
      BY <2>1, <2>3 DEF Asked
    <3>2. Served(w) => output'[k] \in {output[k], 0}
      BY <1>b, <2>1
    <3>3. Served(w) /\ File => File'
      BY <2>1, <3>1, <3>2
    <3> QED BY <1>12, <2>1, <3>1, <3>3
  <2> QED BY <2>2, <2>3
<1>16. ASSUME NEW v \in Window, DownloadSend(v) PROVE OnlyOwn(w)'
  <2>1. /\ Stage(v, "sending")
        /\ page'[v].stage = "done" /\ page'[v].report = page[v].report
        /\ page'[v].received \in {page[v].body, <<>>}
        /\ \A x \in Window \ {v} : page'[x] = page[x]
        /\ \A l \in Kind : output[l] # 0 => inode'[output[l]] = inode[output[l]]
        /\ UNCHANGED <<queue, argument, state, worker, output>>
    BY <1>16, DownloadSendStep
  <2>2. CASE v = w
    <3>1. Only(page[w].body, r)
      BY <1>0, <2>1, <2>2 DEF OnlyOwn, Stage
    <3>2. Only(page'[w].received, r)
      BY <2>1, <2>2, <3>1, OnlyEmpty
    <3> QED BY <2>1, <2>2, <3>2 DEF OnlyOwn, Served, Stage
  <2>3. CASE v # w
    <3>1. page'[w] = page[w] /\ r' = r /\ k' = k
      BY <2>1, <2>3 DEF Asked
    <3>2. Served(w) /\ File => File'
      BY <1>b, <2>1, <3>1
    <3> QED BY <1>12, <2>1, <3>1, <3>2
  <2> QED BY <2>2, <2>3
<1>17. ASSUME NEW v \in Window, DownloadOpen(v), output[Asked(v)] = 0 PROVE OnlyOwn(w)'
  <2>1. /\ page'[v].stage = "done" /\ page'[v].received = <<>>
        /\ \A x \in Window \ {v} : page'[x] = page[x]
        /\ UNCHANGED <<queue, argument, state, worker, output, inode>>
    BY <1>17, DownloadMissingStep
  <2>2. CASE v = w
    BY <2>1, <2>2, OnlyEmpty DEF OnlyOwn, Served, Stage
  <2>3. CASE v # w
    <3>1. page'[w] = page[w] /\ r' = r /\ k' = k
      BY <2>1, <2>3 DEF Asked
    <3> QED BY <1>12, <2>1, <3>1
  <2> QED BY <2>2, <2>3
<1> QED
  BY <1>3, <1>4, <1>5, <1>6, <1>7, <1>8, <1>9, <1>10, <1>11, <1>13, <1>14, <1>15, <1>16,
     <1>17, WorksSteps
  DEF Next, WorkerStep, PageStep

-----------------------------------------------------------------------------
(* The report is whole. *)

\* The worker has not died now, so it had not died before.
LEMMA NoCrashBefore ==
  ASSUME TypeOK, WorkerInv, FileInv, [Next]_vars, crashes' = 0
  PROVE  crashes = 0 /\ ~DaemonDies
<1>1. ~DaemonDies
  BY DieStep
<1>2. CASE UNCHANGED vars
  BY <1>1, <1>2 DEF vars
<1>3. CASE Works
  BY <1>1, <1>3 DEF Works
<1>4. CASE Take \/ OpenOutput \/ WriteOutput \/ Succeed \/ Ack
  BY <1>1, <1>4, TakeStep, OpenOutputStep, WriteStep, SucceedStep, AckStep
<1>5. ASSUME NEW w \in Window, PageStep(w) PROVE crashes = 0
  BY <1>5, PollStep, DownloadMissingStep, DownloadOpenStep, DownloadRemoveStep, DownloadSendStep
  DEF PageStep
<1>6. ASSUME NEW w \in Window, NEW r \in Report, Open(w, r) PROVE crashes = 0
  BY <1>6, OpenStep
<1> QED
  BY <1>1, <1>2, <1>3, <1>4, <1>5, <1>6, WorksSteps DEF Next, WorkerStep

LEMMA WholeInductive ==
  ASSUME TypeOK, WorkerInv, FileInv, PollInv, WholeInv, [Next]_vars
  PROVE  WholeInv'
<1> SUFFICES ASSUME crashes' = 0, NEW w \in Window, Unshared(w) PROVE AllOfIt(w)'
  BY DEF WholeInv, Unshared
<1> DEFINE r == page[w].report
           k == Asked(w)
           f == page[w].file
           Getting == page[w].stage \in {"opened", "sending"}
           Queue == \A i \in 1 .. Len(queue) : KindOf[argument[queue[i]]] # k
           Run == worker.at # "rest" /\ KindOf[argument[worker.task]] = k => worker.at = "ack"
           File == output[k] # 0 /\ inode[output[k]] = Whole(r)
           Held == /\ f # 0 /\ page[w].body = Whole(r) /\ inode[f] = page[w].body
                   /\ worker.at = "write" => worker.file # f
                   /\ \A l \in Kind : output[l] = f => page[w].stage = "opened" /\ l = k
<1>0. AllOfIt(w)
  BY NoCrashBefore DEF WholeInv
<1>a. /\ Served(w) => Queue /\ Run /\ File
      /\ Getting => Queue /\ Run /\ Held
  BY <1>0 DEF AllOfIt, Alone, Queued, Running, At, Making, Now, Stage
<1>b. Served(w) \/ Getting => ~Stage(w, "closed") /\ r \in Report /\ k \in Kind
  <2>1. Served(w) \/ Getting => ~Stage(w, "closed")
    BY DEF Served, Stage
  <2> QED BY <2>1, AskedTyped
<1>c. Getting => f \in Inode \cup {0}
  BY DEF TypeOK, Showing
<1>d. /\ Served(w) => output[k] \in Inode \cup {0}
      /\ f \in InUse(Window)
  BY <1>b DEF TypeOK, InUse
\* The window does nothing.
<1>1. ASSUME page'[w] = page[w], Served(w)' => Queue' /\ Run' /\ File',
             Getting => Queue' /\ Run' /\ Held'
      PROVE  AllOfIt(w)'
  <2>1. Getting' = Getting
    BY <1>1
  <2>2. Stage(w, "done")' => page'[w].received = Whole(page'[w].report)
    BY <1>0, <1>1 DEF AllOfIt, Stage
  <2>3. Alone(w)' <=> Queue' /\ Run'
    BY DEF Alone, Queued, Running, At, Making, Now
  <2> QED BY <1>1, <2>1, <2>2, <2>3 DEF AllOfIt, Stage, At
<1>2. ASSUME page'[w] = page[w], Stage(w, "polling") => state'[page[w].task] = state[page[w].task]
      PROVE  Served(w)' = Served(w) /\ r' = r /\ k' = k /\ f' = f
  BY <1>2 DEF Served, Stage, Asked
<1>3. CASE UNCHANGED vars
  <2>1. UNCHANGED <<queue, argument, state, worker, output, inode, page>>
    BY <1>3 DEF vars, tasks, files
  <2>2. Served(w)' = Served(w) /\ r' = r /\ k' = k /\ f' = f
    BY <1>2, <2>1
  <2> QED BY <1>1, <1>a, <2>1, <2>2
<1>4. CASE Works
  <2>1. /\ ~At("rest") /\ ~At("ack") /\ worker'.task = worker.task
        /\ worker'.at # "write"
        /\ UNCHANGED <<queue, argument, output, inode, page>>
    BY <1>4 DEF Works, Now
  <2>2. r' = r /\ k' = k /\ f' = f
    BY <2>1 DEF Asked
  <2>3. Served(w)' => Served(w)
    BY <1>4, <2>1 DEF Works, Served, Stage, PollInv, LastOfItsKind
  <2>4. Run => Run'
    BY <2>1, <2>2 DEF At
  <2> QED BY <1>1, <1>a, <2>1, <2>2, <2>3, <2>4
<1>5. CASE Take
  <2>1. /\ Len(queue) \in Nat \ {0} /\ Len(queue') = Len(queue) - 1
        /\ \A i \in 1 .. Len(queue') : queue'[i] = queue[i + 1]
        /\ worker'.task = queue[1] /\ worker'.at = "announce"
        /\ UNCHANGED <<argument, state, output, inode, page>>
    BY <1>5, TakeStep
  <2>2. Served(w)' = Served(w) /\ r' = r /\ k' = k /\ f' = f
    BY <1>2, <2>1
  <2>3. \A i \in 1 .. Len(queue') : i + 1 \in 1 .. Len(queue)
    BY <2>1
  <2>4. Queue => Queue' /\ Run'
    <3>1. Queue => Queue' BY <2>1, <2>2, <2>3
    <3>2. 1 \in 1 .. Len(queue) BY <2>1
    <3>3. Queue => Run' BY <2>1, <2>2, <3>2
    <3> QED BY <3>1, <3>3
  <2> QED BY <1>1, <1>a, <2>1, <2>2, <2>4
<1>6. CASE Ack
  <2>1. worker'.at = "rest" /\ UNCHANGED <<queue, argument, state, output, inode, page>>
    BY <1>6, AckStep
  <2>2. Served(w)' = Served(w) /\ r' = r /\ k' = k /\ f' = f
    BY <1>2, <2>1
  <2> QED BY <1>1, <1>a, <2>1, <2>2
<1>7. CASE OpenOutput
  <2> DEFINE m == KindOf[Making]
  <2>1. PICK i \in Inode :
           /\ At("open") /\ m \in Kind
           /\ worker'.at = "write" /\ worker'.task = Now /\ worker'.file = i
           /\ i = output[m] \/ i \notin InUse(Window)
           /\ output'[m] = i
           /\ \A l \in Kind \ {m} : output'[l] = output[l] /\ output[l] # i
           /\ \A j \in Inode \ {i} : inode'[j] = inode[j]
           /\ UNCHANGED <<queue, argument, state, page>>
    BY <1>7, OpenOutputStep
  <2>2. Served(w)' = Served(w) /\ r' = r /\ k' = k /\ f' = f
    BY <1>2, <2>1
  <2>3. Run => m # k
    BY <2>1 DEF At, Making, Now
  <2>4. Run => Run'
    BY <2>1, <2>2, <2>3 DEF Making, Now
  <2>5. Served(w) /\ Run /\ File => File'
    <3> SUFFICES ASSUME Served(w), Run, File PROVE File'
      OBVIOUS
    <3>1. output'[k] = output[k] /\ output[k] # i
      BY <1>b, <2>1, <2>3
    <3>2. inode'[output[k]] = inode[output[k]]
      BY <1>d, <2>1, <3>1
    <3> QED BY <2>2, <3>1, <3>2
  <2>6. Getting /\ Run /\ Held => Held'
    <3> SUFFICES ASSUME Getting, Run, Held PROVE Held'
      OBVIOUS
    <3>1. f # i
      <4>1. CASE i = output[m]
        BY <2>1, <2>3, <4>1
      <4>2. CASE i \notin InUse(Window)
        BY <1>d, <4>2
      <4> QED BY <2>1, <4>1, <4>2
    <3>2. inode'[f] = inode[f]
      BY <1>c, <2>1, <3>1
    <3>3. \A l \in Kind : output'[l] = f => output[l] = f
      BY <2>1, <3>1
    <3> QED BY <2>1, <2>2, <3>1, <3>2, <3>3
  <2> QED BY <1>1, <1>a, <2>1, <2>2, <2>4, <2>5, <2>6
<1>8. CASE WriteOutput
  <2> DEFINE m == KindOf[Making]
  <2>1. /\ At("write") /\ worker'.at = "remove" /\ worker'.task = Now
        /\ \A j \in Inode \ {worker.file} : inode'[j] = inode[j]
        /\ UNCHANGED <<queue, argument, state, output, page>>
    BY <1>8, WriteStep
  <2>2. Served(w)' = Served(w) /\ r' = r /\ k' = k /\ f' = f
    BY <1>2, <2>1
  <2>3. Run => m # k
    BY <2>1 DEF At, Making, Now
  <2>4. Run => Run'
    BY <2>1, <2>2, <2>3 DEF Making, Now
  <2>5. Served(w) /\ Run /\ File => File'
    <3> SUFFICES ASSUME Served(w), Run, File PROVE File'
      OBVIOUS
    <3>1. output[k] # worker.file
      BY <1>b, <2>1, <2>3 DEF FileInv
    <3>2. inode'[output[k]] = inode[output[k]]
      BY <1>d, <2>1, <3>1
    <3> QED BY <2>1, <2>2, <3>2
  <2>6. Getting /\ Run /\ Held => Held'
    <3> SUFFICES ASSUME Getting, Run, Held PROVE Held'
      OBVIOUS
    <3>1. inode'[f] = inode[f]
      BY <1>c, <2>1 DEF At
    <3> QED BY <2>1, <2>2, <3>1
  <2> QED BY <1>1, <1>a, <2>1, <2>2, <2>4, <2>5, <2>6
<1>9. CASE Succeed
  <2>1. /\ At("succeed") /\ Making \in Report /\ worker'.task = Now /\ worker'.at = "ack"
        /\ \A t \in Task \ {Now} : state'[t] = state[t]
        /\ UNCHANGED <<queue, argument, output, inode, page>>
    BY <1>9, SucceedStep
  <2>2. r' = r /\ k' = k /\ f' = f
    BY <2>1 DEF Asked
  <2>3. CASE Served(w) \/ Getting
    <3>1. Getting => ~Served(w)'
      BY <2>1 DEF Served, Stage
    <3>2. Served(w)' => Served(w)
      BY <2>3, <3>1
    <3> QED BY <1>1, <1>a, <2>1, <2>2, <3>2
  <2>4. CASE ~Served(w) /\ Served(w)'
    <3>1. Stage(w, "polling") /\ LastOfItsKind(w)
      BY <2>1, <2>4 DEF Served, Stage, PollInv
    <3>2. page[w].task = Now
      BY <2>1, <2>4, <3>1 DEF Served, Stage, LastOfItsKind
    <3>3. KindOf[Making] = k /\ Making = r /\ Queued(k) = {} /\ output[k] # 0
      BY <2>1, <3>1, <3>2 DEF LastOfItsKind, Making, Asked, At, Written
    <3>4. Queue'
      BY <2>1, <2>2, <3>3 DEF Queued
    <3>5. File'
      BY <2>1, <2>2, <3>3 DEF FileInv, At, Written
    <3>6. ~Getting
      BY <3>1 DEF Stage
    <3> QED BY <1>1, <2>1, <3>4, <3>5, <3>6
  <2>5. CASE ~Served(w)' /\ ~Getting
    BY <1>1, <2>1, <2>5
  <2> QED BY <2>3, <2>4, <2>5
<1>10. ASSUME NEW v \in Window, NEW s \in Report, Open(v, s) PROVE AllOfIt(w)'
  <2>1. PICK u \in Task :
           /\ page'[v].stage = "polling" /\ page'[v].task = u
           /\ \A x \in Window \ {v} : page'[x] = page[x]
           /\ state'[u] = "PENDING"
           /\ ~At("rest") => Making' = Making
           /\ \A x \in Window \ {v} : page[x].task \in Task =>
                state'[page[x].task] = state[page[x].task]
           /\ \A l \in Kind : output[l] # 0 => inode'[output[l]] = inode[output[l]]
           /\ \A x \in Window \ {v} : page[x].file # 0 => inode'[page[x].file] = inode[page[x].file]
           /\ UNCHANGED <<worker, output>>
    BY <1>10, OpenStep
  <2>2. CASE v = w
    BY <2>1, <2>2 DEF AllOfIt, Served, Stage
  <2>3. CASE v # w
    <3>1. Stage(w, "polling") => page[w].task \in Task
      BY DEF PollInv, LastOfItsKind
    <3>2. page'[w] = page[w] /\ Served(w)' = Served(w) /\ r' = r /\ k' = k /\ f' = f
      BY <1>2, <2>1, <2>3, <3>1
    <3>3. ASSUME Served(w) \/ Getting PROVE Queue' /\ Run'
      <4>1. Queued(Asked(w))' = Queued(Asked(w))
        BY <1>10, <1>b, <2>3, <3>3, QueuedByOthers
      <4>2. Queued(Asked(w)) = {}
        BY <3>3, <1>0 DEF AllOfIt, Alone
      <4>3. Queue'
        BY <3>2, <4>1, <4>2 DEF Queued
      <4>4. Run'
        BY <1>a, <2>1, <3>2, <3>3 DEF Making, Now, At
      <4> QED BY <4>3, <4>4
    <3>4. Served(w) => File'
      BY <1>a, <1>b, <2>1, <3>2
    <3>5. Getting => Held'
      BY <1>a, <2>1, <2>3, <3>2
    <3> QED BY <1>1, <3>2, <3>3, <3>4, <3>5
  <2> QED BY <2>2, <2>3
\* Another window does something that leaves tasks and worker alone.
<1>11. ASSUME page'[w] = page[w], UNCHANGED <<queue, argument, state, worker>>,
              Served(w) /\ File => File', Getting /\ Held => Held'
       PROVE  AllOfIt(w)'
  <2>1. Served(w)' = Served(w) /\ r' = r /\ k' = k /\ f' = f
    BY <1>2, <1>11
  <2> QED BY <1>1, <1>a, <1>11, <2>1
<1>12. ASSUME NEW v \in Window, Poll(v) PROVE AllOfIt(w)'
  <2>1. /\ Stage(v, "polling")
        /\ page'[v].stage \in {"link", "stopped", "stalled"}
        /\ page'[v].stage = "link" => state[page[v].task] = "SUCCESS"
        /\ page'[v].report = page[v].report
        /\ \A x \in Window \ {v} : page'[x] = page[x]
        /\ UNCHANGED <<queue, argument, state, worker, output, inode>>
    BY <1>12, PollStep
  <2>2. CASE v = w
    <3>1. r' = r /\ k' = k
      BY <2>1, <2>2 DEF Asked
    <3>2. Served(w)' => Served(w)
      BY <2>1, <2>2 DEF Served, Stage
    <3>3. Served(w)' => Queue' /\ Run' /\ File'
      BY <1>a, <2>1, <3>1, <3>2
    <3> QED
      BY <2>1, <2>2, <3>1, <3>3 DEF AllOfIt, Alone, Stage, Queued, Running, At, Making, Now
  <2>3. CASE v # w
    <3>1. page'[w] = page[w] /\ r' = r /\ k' = k
      BY <2>1, <2>3 DEF Asked
    <3> QED BY <1>11, <2>1, <3>1
  <2> QED BY <2>2, <2>3
<1>13. ASSUME NEW v \in Window, DownloadOpen(v), output[Asked(v)] # 0 PROVE AllOfIt(w)'
  <2>1. /\ Stage(v, "link") /\ Asked(v) \in Kind
        /\ page'[v].stage = "opened" /\ page'[v].report = page[v].report
        /\ page'[v].file = output[Asked(v)]
        /\ output[Asked(v)] # 0 /\ page'[v].body = inode[output[Asked(v)]]
        /\ \A x \in Window \ {v} : page'[x] = page[x]
        /\ UNCHANGED <<queue, argument, state, worker, output, inode>>
    BY <1>13, DownloadOpenStep
  <2>2. CASE v = w
    <3>1. Served(w) /\ k \in Kind /\ Queue /\ Run /\ File
      BY <1>a, <2>1, <2>2 DEF Served
    <3>2. r' = r /\ k' = k
      BY <2>1, <2>2 DEF Asked
    <3>3. Queue' /\ Run'
      BY <2>1, <3>1, <3>2
    <3>4. worker.at = "write" => worker.file # output[k]
      BY <3>1 DEF FileInv, At, Making, Now
    <3>5. \A l \in Kind : output[l] = output[k] => l = k
      BY <3>1 DEF FileInv
    <3>6. Held'
      BY <2>1, <2>2, <3>1, <3>2, <3>4, <3>5
    <3>7. Alone(w)'
      BY <3>3 DEF Alone, Queued, Running, At, Making, Now
    <3> QED BY <2>1, <2>2, <3>6, <3>7 DEF AllOfIt, Served, Stage, At
  <2>3. CASE v # w
    <3>1. page'[w] = page[w] /\ r' = r /\ k' = k
      BY <2>1, <2>3 DEF Asked
    <3> QED BY <1>11, <2>1, <3>1
  <2> QED BY <2>2, <2>3
<1>14. ASSUME NEW v \in Window, DownloadRemove(v) PROVE AllOfIt(w)'
  <2>1. /\ Stage(v, "opened") /\ Asked(v) \in Kind
        /\ output'[Asked(v)] = 0
        /\ \A l \in Kind \ {Asked(v)} : output'[l] = output[l]
        /\ page'[v].stage = "sending" /\ page'[v].report = page[v].report
        /\ page'[v].file = page[v].file /\ page'[v].body = page[v].body
        /\ \A x \in Window \ {v} : page'[x] = page[x]
        /\ UNCHANGED <<queue, argument, state, worker, inode>>
    BY <1>14, DownloadRemoveStep
  <2>2. CASE v = w
    <3>1. Getting /\ Queue /\ Run /\ Held
      BY <1>a, <2>1, <2>2 DEF Stage
    <3>2. r' = r /\ k' = k /\ f' = f
      BY <2>1, <2>2 DEF Asked
    <3>3. Queue' /\ Run'
      BY <2>1, <3>1, <3>2
    <3>4. \A l \in Kind : output'[l] # f
      BY <2>1, <2>2, <3>1
    <3>5. Held'
      BY <2>1, <2>2, <3>1, <3>2, <3>4
    <3>6. Alone(w)'
      BY <3>3 DEF Alone, Queued, Running, At, Making, Now
    <3> QED BY <2>1, <2>2, <3>5, <3>6 DEF AllOfIt, Served, Stage, At
  <2>3. CASE v # w
    <3>1. page'[w] = page[w] /\ r' = r /\ k' = k /\ f' = f
      BY <2>1, <2>3 DEF Asked
    <3>2. Served(w) => output'[k] = output[k]
      <4>1. ~Stage(v, "closed")
        BY <2>1 DEF Stage
      <4>2. Served(w) => Asked(v) # k
        BY <1>b, <2>3, <4>1, KindsDiffer
      <4> QED BY <1>b, <2>1, <4>2
    <3>3. Served(w) /\ File => File'
      BY <2>1, <3>1, <3>2
    <3>4. Held => Held'
      <4>1. \A l \in Kind : output'[l] # 0 => output[l] = output'[l]
        BY <2>1
      <4> QED BY <2>1, <3>1, <4>1
    <3> QED BY <1>11, <2>1, <3>1, <3>3, <3>4
  <2> QED BY <2>2, <2>3
<1>15. ASSUME NEW v \in Window, DownloadSend(v) PROVE AllOfIt(w)'
  <2>1. /\ Stage(v, "sending")
        /\ page'[v].stage = "done" /\ page'[v].report = page[v].report
        /\ page'[v].received =
             IF inode[page[v].file] = page[v].body THEN page[v].body ELSE <<>>
        /\ \A x \in Window \ {v} : page'[x] = page[x]
        /\ \A l \in Kind : output[l] # 0 => inode'[output[l]] = inode[output[l]]
        /\ \A x \in Window \ {v} : page[x].file # 0 => inode'[page[x].file] = inode[page[x].file]
        /\ UNCHANGED <<queue, argument, state, worker, output>>
    BY <1>15, DownloadSendStep
  <2>2. CASE v = w
    <3>1. Held
      BY <1>a, <2>1, <2>2 DEF Stage
    <3>2. page'[w].received = Whole(r)
      BY <2>1, <2>2, <3>1
    <3> QED BY <2>1, <2>2, <3>2 DEF AllOfIt, Served, Stage
  <2>3. CASE v # w
    <3>1. page'[w] = page[w] /\ r' = r /\ k' = k /\ f' = f
      BY <2>1, <2>3 DEF Asked
    <3>2. Served(w) /\ File => File'
      BY <1>b, <2>1, <3>1
    <3>3. Held => Held'
      BY <2>1, <2>3, <3>1
    <3> QED BY <1>11, <2>1, <3>1, <3>2, <3>3
  <2> QED BY <2>2, <2>3
<1>16. ASSUME NEW v \in Window, DownloadOpen(v), output[Asked(v)] = 0 PROVE AllOfIt(w)'
  <2>1. /\ Stage(v, "link") /\ output[Asked(v)] = 0
        /\ \A x \in Window \ {v} : page'[x] = page[x]
        /\ UNCHANGED <<queue, argument, state, worker, output, inode>>
    BY <1>16, DownloadMissingStep
  <2>2. v # w
    BY <1>a, <2>1 DEF Served
  <2>3. page'[w] = page[w] /\ r' = r /\ k' = k
    BY <2>1, <2>2 DEF Asked
  <2> QED BY <1>11, <2>1, <2>3
<1> QED
  BY <1>3, <1>4, <1>5, <1>6, <1>7, <1>8, <1>9, <1>10, <1>12, <1>13, <1>14, <1>15, <1>16,
     WorksSteps, NoCrashBefore
  DEF Next, WorkerStep, PageStep

-----------------------------------------------------------------------------
(* The theorems. *)

LEMMA DeliveryInvariant == Spec => [](FileInv /\ PollInv /\ OwnInv /\ WholeInv)
<1>1. Init => FileInv /\ PollInv /\ OwnInv /\ WholeInv
  <2> SUFFICES ASSUME Init PROVE FileInv /\ PollInv /\ OwnInv /\ WholeInv
    OBVIOUS
  <2>1. worker.at = "rest" /\ \A k \in Kind : output[k] = 0
    BY DEF Init, Resting
  <2>2. \A w \in Window : page[w].stage = "closed"
    BY DEF Init, Closed
  <2>3. FileInv
    BY <2>1 DEF FileInv, At, Written
  <2>4. PollInv
    BY <2>2 DEF PollInv, Stage
  <2>5. \A w \in Window : OnlyOwn(w) /\ AllOfIt(w)
    BY <2>2 DEF OnlyOwn, AllOfIt, Served, Stage
  <2> QED BY <2>3, <2>4, <2>5 DEF OwnInv, WholeInv
<1>2. /\ TypeOK /\ WorkerInv /\ FileInv /\ PollInv /\ OwnInv /\ WholeInv
      /\ [Next]_vars
      => FileInv' /\ PollInv' /\ OwnInv' /\ WholeInv'
  BY FileInductive, PollInductive, OwnInductive, WholeInductive
<1> QED BY <1>1, <1>2, ReportsInvariant, PTL DEF Spec

\* A window that shares its kinds of report with nobody never downloads a page of another
\* report, although all reports of a kind are written to the same name, pages are given up
\* and opened anew, and a worker that died runs its task again (reports/controllers.py).
THEOREM OwnPagesHolds == Spec => []OwnPages
<1>1. OwnInv => OwnPages
  BY DEF OwnInv, OnlyOwn, OwnPages, Only
<1> QED BY <1>1, DeliveryInvariant, PTL

\* As long as the worker never died, such a window downloads its whole report: when it sees
\* SUCCESS the file is there and complete, and until the body has gone out nobody empties,
\* fills or removes the file, whatever the other windows and the tasks of the other kind do.
THEOREM WholeReportHolds == Spec => []WholeReport
<1>1. WholeInv => WholeReport
  BY DEF WholeInv, AllOfIt, WholeReport
<1> QED BY <1>1, DeliveryInvariant, PTL
=============================================================================
