---------------------------- MODULE IssuesProofs ----------------------------
(***************************************************************************)
(* Theorems about Issues, for any assets, algorithms, rows and users.      *)
(***************************************************************************)
EXTENDS Issues, TLAPS

\* A check of an asset only ever writes rows of that asset, and every step of
\* the job and of a user keeps every variable in its type.
LEMMA TypeInductive == TypeOK /\ [Next]_vars => TypeOK'
<1> SUFFICES ASSUME TypeOK, [Next]_vars PROVE TypeOK'
  OBVIOUS
<1> USE IssuesAssumption
<1>1. CASE CheckAll
  BY <1>1 DEF CheckAll, TypeOK, tables, assets, world, local, web
<1>2. ASSUME NEW a \in Asset, BeginAsset(a) PROVE TypeOK'
  BY <1>2 DEF BeginAsset, TypeOK, tables, assets, world, web, RowsOf
<1>3. ASSUME NEW g \in Algorithm, NEW passed \in BOOLEAN, UpdateResult(g, passed)
      PROVE TypeOK'
  BY <1>3 DEF UpdateResult, SaveResult, Open, RowsFor, TypeOK, assets, world, web
<1>4. ASSUME NEW g \in Algorithm, NEW passed \in BOOLEAN, CreateResult(g, passed)
      PROVE TypeOK'
  BY <1>4 DEF CreateResult, SaveResult, TypeOK, assets, world, web, Pair
<1>5. CASE HandleQuietly
  BY <1>5 DEF HandleQuietly, NextAlgorithm, TypeOK, tables, assets, world, web
<1>6. CASE HandleNotify
  <2>1. row \in ResultId
    BY <1>6 DEF HandleNotify, TypeOK
  <2>2. mails' \in [ResultId -> Nat]
    BY <1>6, <2>1 DEF HandleNotify, TypeOK
  <2>3. jobs' \in [ResultId -> Nat]
    <3>1. CASE SendsWorkOrder
      BY <1>6, <2>1, <3>1 DEF HandleNotify, TypeOK
    <3>2. CASE ~SendsWorkOrder
      BY <1>6, <3>2 DEF HandleNotify, TypeOK
    <3> QED BY <3>1, <3>2
  <2> QED
    BY <1>6, <2>2, <2>3 DEF HandleNotify, NextAlgorithm, TypeOK, tables, assets, web
<1>7. CASE FinishAsset
  <2>1. health' \in [Asset -> 0 .. 100]
    <3>1. 0 \in 0 .. 100
      OBVIOUS
    <3>2. CASE ran
      BY <1>7, <3>2 DEF FinishAsset, TypeOK
    <3>3. CASE ~ran
      BY <1>7, <3>1, <3>3 DEF FinishAsset, TypeOK
    <3> QED BY <3>2, <3>3
  <2> QED
    BY <1>7, <2>1 DEF FinishAsset, ForgetLocals, TypeOK, world, web
<1>8. CASE EndCheckAll \/ DetachedAsset \/ AbortCheck
  BY <1>8 DEF EndCheckAll, DetachedAsset, AbortCheck, StopJob, ForgetLocals,
              TypeOK, tables, assets, world, web
<1>9. CASE AbortAfterMail
  <2>1. row \in ResultId
    BY <1>9 DEF AbortAfterMail, TypeOK
  <2>2. mails' \in [ResultId -> Nat]
    BY <1>9, <2>1 DEF AbortAfterMail, TypeOK
  <2> QED
    BY <1>9, <2>2 DEF AbortAfterMail, StopJob, ForgetLocals, TypeOK, tables, assets, web
<1>10. ASSUME NEW a \in Asset, NEW S \in SUBSET Algorithm, EditAlgorithms(a, S)
       PROVE TypeOK'
  BY <1>10 DEF EditAlgorithms, TypeOK, tables, world, job, local, web
<1>11. ASSUME NEW u \in User, UserStep(u) PROVE TypeOK'
  <2>1. ASSUME NEW S \in Scope, ViewIssues(u, S) PROVE TypeOK'
    BY <1>11, <2>1 DEF ViewIssues, Scope, Unresolved, TypeOK, tables, assets, world,
                job, local
  <2>2. ASSUME NEW T \in SUBSET page[u], SubmitLoad(u, T) PROVE TypeOK'
    BY <1>11, <2>2 DEF SubmitLoad, Unresolved, TypeOK, tables, assets, world, job,
                local
  <2>3. CASE SubmitRejected(u)
    BY <1>11, <2>3 DEF SubmitRejected, Leave, TypeOK, tables, assets, world, job, local
  <2>4. CASE SubmitCommit(u)
    BY <1>11, <2>4 DEF SubmitCommit, Leave, TypeOK, assets, world, job, local
  <2> QED BY <1>11, <2>1, <2>2, <2>3, <2>4 DEF UserStep
<1>12. CASE UNCHANGED vars
  BY <1>12 DEF vars, tables, assets, world, job, local, web, TypeOK
<1> QED
  BY <1>1, <1>2, <1>3, <1>4, <1>5, <1>6, <1>7, <1>8, <1>9, <1>10, <1>11, <1>12
  DEF Next, JobStep, RunAlgorithm

\* The engine is well typed: every row belongs to an asset and an algorithm,
\* the job works on an asset it has not finished and on a row that exists.
THEOREM TypeCorrect == Spec => []TypeOK
<1>1. Init => TypeOK
  <2>1. 0 \in 0 .. 100
    OBVIOUS
  <2>2. Init => health \in [Asset -> 0 .. 100]
    BY <2>1 DEF Init
  <2>3. Init => /\ page \in [User -> SUBSET results]
                /\ loaded_ack \in [User -> SUBSET results]
                /\ ticked \in [User -> SUBSET results]
                /\ scope \in [User -> SUBSET Asset]
                /\ phase \in [User -> {"away", "page", "loaded"}]
    BY DEF Init
  <2>4. Init => /\ issue \in [ResultId -> Pair \cup {None}]
                /\ occurances \in [ResultId -> Nat]
                /\ mails \in [ResultId -> Nat]
                /\ jobs \in [ResultId -> Nat]
    BY DEF Init
  <2>5. Init => attached \in BOOLEAN /\ ran \in BOOLEAN
    BY DEF Init
  <2>6. Init => /\ results \subseteq ResultId
                /\ \A r \in results : issue[r] \in Pair
                /\ active \subseteq results
                /\ acknowledged \subseteq results
                /\ recent \subseteq results
                /\ mapped \in [Asset -> SUBSET Algorithm]
                /\ algs \subseteq Algorithm
                /\ previously_active \subseteq results
                /\ unrecent \subseteq results
                /\ seen \subseteq results
    BY DEF Init
  <2>7. Init => /\ pc \in {"idle", "assets", "algorithms", "handle"}
                /\ pc \notin {"algorithms", "handle"}
                /\ checks \in Nat
                /\ todo \subseteq Asset
                /\ current \in Asset \cup {None}
                /\ row \in results \cup {None}
    BY DEF Init
  <2> QED
    BY <2>2, <2>3, <2>4, <2>5, <2>6, <2>7 DEF TypeOK
<1> QED
  BY <1>1, TypeInductive, PTL DEF Spec

-----------------------------------------------------------------------------
\* Only save_result counts a check, and only the handler of a row that was just
\* saved notifies: what NotifyInv says survives every step.
LEMMA NotifyInductive == TypeOK /\ NotifyInv /\ [Next]_vars => NotifyInv'
<1> SUFFICES ASSUME TypeOK, NotifyInv, [Next]_vars PROVE NotifyInv'
  OBVIOUS
<1> USE IssuesAssumption DEF NotifyInv, NotifiedOnce
<1>1. ASSUME UNCHANGED <<results, occurances, mails, jobs>>,
             pc' = "handle" => pc = "handle" /\ row' = row
      PROVE  NotifyInv'
  BY <1>1 DEF TypeOK
<1>2. ASSUME NEW r \in ResultId, NEW g \in Algorithm, NEW passed \in BOOLEAN,
             SaveResult(r, g, passed), results' = results \cup {r}
      PROVE  NotifyInv'
  BY <1>2 DEF SaveResult, TypeOK, world
<1>3. ASSUME pc = "handle", MustNotify(row), UNCHANGED <<results, occurances>>,
             pc' # "handle",
             mails' \in {mails, [mails EXCEPT ![row] = @ + 1]},
             jobs' \in {jobs, [jobs EXCEPT ![row] = @ + 1]}
      PROVE  NotifyInv'
  <2>1. row \in results /\ row \in ResultId
    BY <1>3 DEF TypeOK
  <2>2. occurances[row] = 1 /\ mails[row] = 0 /\ jobs[row] = 0
    BY <1>3 DEF MustNotify
  <2>3. \A r \in ResultId : /\ mails'[r] \in {mails[r], IF r = row THEN 1 ELSE mails[r]}
                            /\ jobs'[r] \in {jobs[r], IF r = row THEN 1 ELSE jobs[r]}
    BY <1>3, <2>1, <2>2 DEF TypeOK
  <2> QED
    BY <1>3, <2>1, <2>2, <2>3 DEF TypeOK
<1>4. CASE CheckAll
  BY <1>1, <1>4 DEF CheckAll, tables, world
<1>5. ASSUME NEW a \in Asset, BeginAsset(a) PROVE NotifyInv'
  BY <1>1, <1>5 DEF BeginAsset, tables, world
<1>6. ASSUME NEW g \in Algorithm, NEW passed \in BOOLEAN, UpdateResult(g, passed)
      PROVE  NotifyInv'
  <2> PICK r \in Open(current, g) : SaveResult(r, g, passed)
    BY <1>6 DEF UpdateResult
  <2>1. r \in ResultId /\ results' = results \cup {r}
    BY <1>6 DEF UpdateResult, Open, RowsFor, TypeOK
  <2> QED BY <1>2, <2>1
<1>7. ASSUME NEW g \in Algorithm, NEW passed \in BOOLEAN, CreateResult(g, passed)
      PROVE  NotifyInv'
  BY <1>2, <1>7 DEF CreateResult
<1>8. CASE HandleQuietly
  BY <1>1, <1>8 DEF HandleQuietly, NextAlgorithm, tables, world
<1>9. CASE HandleNotify
  BY <1>3, <1>9 DEF HandleNotify, NextAlgorithm, tables
<1>10. CASE FinishAsset
  BY <1>1, <1>10 DEF FinishAsset, world
<1>11. CASE EndCheckAll \/ DetachedAsset \/ AbortCheck
  BY <1>1, <1>11 DEF EndCheckAll, DetachedAsset, AbortCheck, StopJob, tables, world
<1>12. CASE AbortAfterMail
  BY <1>3, <1>12 DEF AbortAfterMail, StopJob, tables
<1>13. ASSUME NEW a \in Asset, NEW S \in SUBSET Algorithm, EditAlgorithms(a, S)
       PROVE  NotifyInv'
  BY <1>1, <1>13 DEF EditAlgorithms, tables, world, job, local
<1>14. ASSUME NEW u \in User, UserStep(u) PROVE NotifyInv'
  BY <1>1, <1>14 DEF UserStep, ViewIssues, SubmitLoad, SubmitRejected, SubmitCommit,
                     tables, world, job, local
<1>15. CASE UNCHANGED vars
  BY <1>1, <1>15 DEF vars, tables, world, job, local
<1> QED
  BY <1>4, <1>5, <1>6, <1>7, <1>8, <1>9, <1>10, <1>11, <1>12, <1>13, <1>14, <1>15
  DEF Next, JobStep, RunAlgorithm

\* A site is never mailed twice, and never gets two work orders, for a row of
\* the result table, however requests and failures interleave with the job.
THEOREM NotifiedOnceHolds == Spec => []NotifiedOnce
<1>1. Init => NotifyInv
  BY DEF Init, NotifyInv, NotifiedOnce
<1>2. NotifyInv => NotifiedOnce
  BY DEF NotifyInv
<1> QED
  BY <1>1, <1>2, TypeCorrect, NotifyInductive, PTL DEF Spec

-----------------------------------------------------------------------------
LEMMA NotifyInvariant == Spec => []NotifyInv
<1>1. Init => NotifyInv
  BY DEF Init, NotifyInv, NotifiedOnce
<1> QED
  BY <1>1, TypeCorrect, NotifyInductive, PTL DEF Spec

\* A row is opened again only by a check that does not know its acknowledgement
\* or by a submit that loaded it while it was active; a row whose only check
\* passed is acknowledged from the start and was never active.
LEMMA MailInductive ==
  ASSUME Failures = FALSE, TypeOK, NotifyInv, MailInv, [Next]_vars
  PROVE  MailInv'
<1> USE IssuesAssumption
<1> DEFINE Pending(r) == pc = "handle" /\ r = row /\ r \in active /\ occurances[r] = 1
<1>0. /\ results \subseteq ResultId /\ active \subseteq results
      /\ \A u \in User : loaded_ack[u] \subseteq results
      /\ \A r \in results : Urgent(r) /\ mails[r] = 0 => Pending(r) \/ Silent(r)
  BY DEF TypeOK, MailInv
<1>1. ASSUME UNCHANGED <<results, issue, active, acknowledged, occurances, mails>>,
             \A u \in User : loaded_ack'[u] \subseteq loaded_ack[u] \cup active,
             pc' = pc, row' = row, current' = current, seen' = seen
      PROVE  MailInv'
  <2>1. ASSUME NEW r \in results, Silent(r) PROVE Silent(r)'
    BY <1>1, <2>1 DEF Silent
  <2> QED BY <1>1, <2>1 DEF MailInv, Urgent
\* The job moves on from a place where nothing is pending.
<1>2. ASSUME UNCHANGED <<results, issue, acknowledged, occurances, mails, loaded_ack>>,
             pc # "handle", pc' # "handle", active' \subseteq active,
             pc' = "algorithms" => pc # "algorithms" /\ seen' = acknowledged
      PROVE  MailInv'
  <2>1. ASSUME NEW r \in results, Silent(r) PROVE Silent(r)'
    BY <1>2, <2>1 DEF Silent
  <2> QED BY <1>0, <1>2, <2>1 DEF MailInv, Urgent
\* A check is saved to the row r of the current asset.
<1>3. ASSUME NEW g \in Algorithm, NEW passed \in BOOLEAN, NEW r \in ResultId,
             SaveResult(r, g, passed), pc = "algorithms",
             results' = results \cup {r}, issue'[r][1] = current,
             \A s \in results \ {r} : issue'[s] = issue[s],
             acknowledged \subseteq acknowledged',
             r \notin results /\ passed => r \in acknowledged',
             r \in results => issue' = issue /\ ~Silent(r)
      PROVE  MailInv'
  <2>1. /\ active' = IF passed THEN active \ {r} ELSE active \cup {r}
        /\ occurances' = [occurances EXCEPT ![r] = @ + 1]
        /\ row' = r /\ pc' = "handle" /\ current' = current
        /\ mails' = mails /\ loaded_ack' = loaded_ack
    BY <1>3 DEF SaveResult, world, web
  <2>2. ASSUME NEW s \in results', Urgent(s)', mails'[s] = 0
        PROVE  Pending(s)' \/ Silent(s)'
    <3>1. CASE s # r
      <4>1. s \in results /\ Urgent(s) /\ mails[s] = 0
        BY <1>3, <2>1, <2>2, <3>1 DEF Urgent
      <4>2. Silent(s)
        BY <1>0, <1>3, <4>1
      <4> QED BY <1>3, <2>1, <3>1, <4>2 DEF Silent
    <3>2. CASE s = r /\ r \notin results
      <4>1. occurances'[r] = 1
        BY <2>1, <3>2 DEF NotifyInv, TypeOK
      <4>2. CASE ~passed
        BY <2>1, <3>2, <4>1, <4>2
      <4>3. CASE passed
        BY <1>0, <1>3, <2>1, <3>2, <4>3 DEF Silent
      <4> QED BY <4>2, <4>3
    <3>3. CASE s = r /\ r \in results
      BY <1>0, <1>3, <2>1, <2>2, <3>3 DEF Urgent
    <3> QED BY <3>1, <3>2, <3>3
  <2> QED BY <1>3, <2>1, <2>2 DEF MailInv
<1>4. CASE CheckAll
  BY <1>2, <1>4 DEF CheckAll, tables, world, web
<1>5. ASSUME NEW a \in Asset, BeginAsset(a) PROVE MailInv'
  BY <1>2, <1>5 DEF BeginAsset, tables, world, web
<1>6. ASSUME NEW g \in Algorithm, NEW passed \in BOOLEAN, UpdateResult(g, passed)
      PROVE  MailInv'
  <2>1. PICK r \in Open(current, g) : SaveResult(r, g, passed)
    BY <1>6 DEF UpdateResult
  <2>2. pc = "algorithms" /\ UNCHANGED <<results, issue, acknowledged>>
    BY <1>6 DEF UpdateResult
  <2>3. r \in results /\ r \in ResultId /\ issue[r][1] = current
    BY <1>0 DEF Open, RowsFor
  <2>4. ~Silent(r)
    BY <2>2 DEF Open, Silent
  <2> QED BY <1>3, <2>1, <2>2, <2>3, <2>4
<1>7. ASSUME NEW g \in Algorithm, NEW passed \in BOOLEAN, CreateResult(g, passed)
      PROVE  MailInv'
  <2>1. PICK r \in ResultId \ results :
          /\ results' = results \cup {r}
          /\ issue' = [issue EXCEPT ![r] = <<current, g>>]
          /\ acknowledged' = IF passed THEN acknowledged \cup {r} ELSE acknowledged
          /\ SaveResult(r, g, passed)
    BY <1>7 DEF CreateResult
  <2>2. pc = "algorithms"
    BY <1>7 DEF CreateResult
  <2>3. issue'[r][1] = current /\ \A s \in results \ {r} : issue'[s] = issue[s]
    BY <2>1, <1>0 DEF TypeOK
  <2> QED BY <1>3, <2>1, <2>2, <2>3
\* The event handler has looked at the row, and has mailed what it must.
<1>8. ASSUME pc = "handle", NextAlgorithm,
             \A s \in results : s # row => mails'[s] = mails[s],
             Urgent(row) /\ Pending(row) => mails'[row] # 0,
             mails[row] # 0 => mails'[row] # 0
      PROVE  MailInv'
  <2>1. /\ UNCHANGED <<results, issue, active, acknowledged, occurances, loaded_ack>>
        /\ pc' = "algorithms" /\ seen' = acknowledged
    BY <1>8 DEF NextAlgorithm, tables, web
  <2>2. ASSUME NEW s \in results', Urgent(s)', mails'[s] = 0 PROVE Silent(s)'
    <3>1. s \in results /\ Urgent(s) /\ mails[s] = 0 /\ ~Pending(s)
      BY <1>8, <2>1, <2>2 DEF Urgent
    <3> QED BY <1>0, <2>1, <3>1 DEF Silent
  <2> QED BY <2>1, <2>2 DEF MailInv
<1>9. CASE HandleQuietly
  <2>1. pc = "handle" /\ NextAlgorithm /\ ~MustNotify(row) /\ mails' = mails
    BY <1>9 DEF HandleQuietly, world
  <2>2. ~(Urgent(row) /\ Pending(row))
    <3> SUFFICES ASSUME Urgent(row), Pending(row) PROVE MustNotify(row)
      BY <2>1
    <3>1. issue[row][1] = current /\ current \in Asset
      BY <2>1 DEF MailInv, TypeOK
    <3>2. Priority[current] < Larger(EmailTrigger[current], CmmsTrigger[current])
      BY <3>1 DEF Urgent, Larger
    <3> QED BY <3>2 DEF MustNotify
  <2> QED BY <1>8, <2>1, <2>2
<1>10. CASE HandleNotify
  <2>1. /\ pc = "handle" /\ NextAlgorithm
        /\ mails' = IF SendsMail THEN [mails EXCEPT ![row] = @ + 1] ELSE mails
    BY <1>10 DEF HandleNotify
  <2>2. row \in results /\ row \in ResultId /\ mails \in [ResultId -> Nat]
    BY <2>1 DEF TypeOK
  <2>3. \A s \in results : s # row => mails'[s] = mails[s]
    BY <1>0, <2>1, <2>2
  <2>4. Urgent(row) => SendsMail
    BY <2>1 DEF Urgent, SendsMail, MailInv
  <2>5. SendsMail => mails'[row] # 0
    <3> SUFFICES ASSUME SendsMail PROVE mails'[row] # 0 OBVIOUS
    <3>1. mails'[row] = mails[row] + 1 BY <2>1, <2>2
    <3> QED BY <2>2, <3>1
  <2>6. ~SendsMail => mails' = mails
    BY <2>1
  <2> QED BY <1>8, <2>1, <2>3, <2>4, <2>5, <2>6
<1>11. CASE FinishAsset
  BY <1>2, <1>11 DEF FinishAsset, world, web
<1>12. CASE EndCheckAll \/ DetachedAsset
  BY <1>2, <1>12 DEF EndCheckAll, DetachedAsset, StopJob, tables, world, web
<1>13. ASSUME NEW a \in Asset, NEW S \in SUBSET Algorithm, EditAlgorithms(a, S)
       PROVE  MailInv'
  <2>1. /\ UNCHANGED <<results, issue, active, acknowledged, occurances, mails>>
        /\ pc' = pc /\ row' = row /\ current' = current /\ seen' = seen
        /\ loaded_ack' = loaded_ack
    BY <1>13 DEF EditAlgorithms, tables, world, job, local, web
  <2> QED BY <1>1, <2>1
<1>14. ASSUME NEW u \in User, UserStep(u) PROVE MailInv'
  <2>1. /\ UNCHANGED <<results, issue, active, occurances, mails>>
        /\ pc' = pc /\ row' = row /\ current' = current /\ seen' = seen
    BY <1>14 DEF UserStep, ViewIssues, SubmitLoad, SubmitRejected, SubmitCommit,
                 tables, world, job, local
  <2>2. ASSUME acknowledged' = acknowledged,
               \A v \in User : loaded_ack'[v] \subseteq loaded_ack[v] \cup active
        PROVE  MailInv'
    BY <1>1, <2>1, <2>2
  <2>3. ASSUME NEW S \in Scope, ViewIssues(u, S) PROVE MailInv'
    BY <2>2, <2>3 DEF ViewIssues, tables
  <2>4. ASSUME NEW T \in SUBSET page[u], SubmitLoad(u, T) PROVE MailInv'
    <3>1. loaded_ack' = [loaded_ack EXCEPT ![u] =
                           Unresolved \cap RowsIn(scope[u]) \cap acknowledged]
      BY <2>4 DEF SubmitLoad
    <3>2. Unresolved \cap RowsIn(scope[u]) \cap acknowledged \subseteq active
      BY DEF Unresolved
    <3>3. \A v \in User : loaded_ack'[v] \subseteq loaded_ack[v] \cup active
      BY <3>1, <3>2 DEF TypeOK
    <3> QED BY <2>2, <2>4, <3>3 DEF SubmitLoad, tables
  <2>5. CASE SubmitRejected(u)
    <3>1. \A v \in User : loaded_ack'[v] \subseteq loaded_ack[v]
      BY <2>5 DEF SubmitRejected, Leave, TypeOK
    <3> QED BY <2>2, <2>5, <3>1 DEF SubmitRejected, tables
  <2>6. CASE SubmitCommit(u)
    <3>1. acknowledged' = (acknowledged \ (loaded_ack[u] \ ticked[u])) \cup ticked[u]
      BY <2>6 DEF SubmitCommit
    <3>2. \A v \in User : loaded_ack'[v] \subseteq loaded_ack[v]
      BY <2>6 DEF SubmitCommit, Leave, TypeOK
    <3>3. ASSUME NEW r \in results, Silent(r) PROVE Silent(r)'
      BY <2>1, <3>1, <3>2, <3>3 DEF Silent
    <3> QED BY <2>1, <3>3 DEF MailInv, Urgent
  <2> QED BY <1>14, <2>3, <2>4, <2>5, <2>6 DEF UserStep
<1>15. CASE UNCHANGED vars
  <2>1. /\ UNCHANGED <<results, issue, active, acknowledged, occurances, mails>>
        /\ pc' = pc /\ row' = row /\ current' = current /\ seen' = seen
        /\ loaded_ack' = loaded_ack
    BY <1>15 DEF vars, tables, world, job, local, web
  <2> QED BY <1>1, <2>1
<1> QED
  BY <1>4, <1>5, <1>6, <1>7, <1>9, <1>10, <1>11, <1>12, <1>13, <1>14, <1>15
  DEF Next, JobStep, RunAlgorithm, AbortCheck, AbortAfterMail

\* As long as no algorithm raises, no mail is refused and the job does not die,
\* a check that has run to its end leaves no active row of an urgent asset
\* without a mail, whatever is acknowledged while the check is under way.
THEOREM ActiveIsMailedHolds ==
  ASSUME Failures = FALSE PROVE Spec => []ActiveIsMailed
<1>1. Init => MailInv
  BY DEF Init, MailInv
<1>2. TypeOK /\ NotifyInv /\ MailInv /\ [Next]_vars => MailInv'
  BY MailInductive
<1>3. TypeOK /\ MailInv => ActiveIsMailed
  <2> SUFFICES ASSUME TypeOK, MailInv, NEW a \in Asset \ todo,
                      Priority[a] < EmailTrigger[a], NEW r \in RowsOf(a) \cap active
               PROVE  mails[r] >= 1
    BY DEF ActiveIsMailed
  <2>1. r \in results /\ issue[r][1] = a /\ Urgent(r) /\ mails[r] \in Nat
    BY DEF RowsOf, Urgent, TypeOK
  <2>2. ~Silent(r)
    BY DEF Silent
  <2>3. ~(pc = "handle" /\ r = row)
    BY <2>1 DEF MailInv, TypeOK
  <2>4. mails[r] # 0
    BY <2>1, <2>2, <2>3 DEF MailInv
  <2> QED BY <2>1, <2>4
<1> QED
  BY <1>1, <1>2, <1>3, TypeCorrect, NotifyInvariant, PTL DEF Spec

-----------------------------------------------------------------------------
\* The job writes rows of the asset it is checking and no others, so what it
\* has settled stays settled; users touch neither active nor recent.
LEMMA SettledInductive == TypeOK /\ SettledInv /\ [Next]_vars => SettledInv'
<1> SUFFICES ASSUME TypeOK, SettledInv, [Next]_vars PROVE SettledInv'
  OBVIOUS
<1> DEFINE Busy == pc \in {"algorithms", "handle"}
<1>1. ASSUME UNCHANGED <<results, issue, active, recent>>,
             todo' = todo \/ todo' = Asset,
             Busy' => UNCHANGED <<pc, current, algs, previously_active, unrecent, row>>
      PROVE  SettledInv'
  <2>1. CheckedIsSettled'
    BY <1>1 DEF SettledInv, CheckedIsSettled, RowsOf
  <2>2. ASSUME Busy' PROVE Busy /\ Touched' = Touched /\ RowsOf(current)' = RowsOf(current)
    BY <1>1, <2>2 DEF Touched, RowsOf
  <2> QED
    BY <1>1, <2>1, <2>2 DEF SettledInv
<1>2. CASE CheckAll
  BY <1>1, <1>2 DEF CheckAll, tables
<1>3. ASSUME NEW a \in Asset, BeginAsset(a) PROVE SettledInv'
  <2>1. CheckedIsSettled'
    BY <1>3 DEF BeginAsset, tables, SettledInv, CheckedIsSettled, RowsOf
  <2>2. Touched' = {} /\ RowsOf(current)' = RowsOf(a)
    BY <1>3 DEF BeginAsset, tables, Touched, RowsOf
  <2>3. unrecent' \subseteq RowsOf(a) /\ previously_active' \subseteq RowsOf(a)
    BY <1>3 DEF BeginAsset
  <2> QED
    BY <2>1, <2>2, <2>3 DEF SettledInv
<1>4. ASSUME NEW r \in ResultId, NEW g \in Algorithm, NEW passed \in BOOLEAN,
             pc = "algorithms", g \in algs, SaveResult(r, g, passed),
             results' = results \cup {r}, issue'[r] = <<current, g>>,
             \A s \in results : issue'[s] = issue[s],
             issue' \in [ResultId -> Pair \cup {None}]
      PROVE  SettledInv'
  <2> USE <1>4
  <2>1. /\ current' = current /\ todo' = todo /\ row' = r /\ unrecent' = {}
        /\ previously_active' = previously_active
        /\ algs' = algs \ {g} /\ pc' = "handle"
        /\ recent' = (recent \ unrecent) \cup {r}
        /\ active' \subseteq active \cup {r} /\ active \ {r} \subseteq active'
    BY DEF SaveResult
  <2>2. issue'[r][1] = current /\ issue'[r][2] = g
    OBVIOUS
  <2>3. \A s : s \in results \ {r} =>
                 (s \in active' <=> s \in active) /\ issue'[s] = issue[s]
    BY <2>1
  <2>4. current \in todo
    BY DEF TypeOK
  <2>5. CheckedIsSettled'
    <3> SUFFICES ASSUME NEW a \in Asset \ todo
                 PROVE  /\ RowsOf(a)' \cap active' \subseteq recent'
                        /\ \A s, t \in RowsOf(a)' \cap active' :
                              issue'[s] = issue'[t] => s = t
      BY <2>1 DEF CheckedIsSettled
    <3>1. RowsOf(a)' \cap active' \subseteq RowsOf(a) \cap active
      BY <2>1, <2>2, <2>3, <2>4 DEF RowsOf
    <3>2. RowsOf(a) \cap unrecent = {}
      BY <2>4 DEF SettledInv, RowsOf
    <3> QED
      BY <3>1, <3>2, <2>1, <2>3 DEF SettledInv, CheckedIsSettled, RowsOf
  <2>6. RowsOf(current)' = RowsOf(current) \cup {r}
    BY <2>1, <2>2, <2>3 DEF RowsOf
  <2>7. Touched' \subseteq Touched \cup {r}
    BY <2>1, <2>3, <2>6 DEF Touched, RowsOf
  <2>8. \A s \in Touched \ {r} : /\ s \in results
                                 /\ issue'[s][2] = issue[s][2]
                                 /\ issue[s][2] \notin algs
    BY DEF SettledInv, Touched, RowsOf
  <2>9. \A s \in Touched' : issue'[s][2] \notin algs'
    BY <2>1, <2>2, <2>7, <2>8
  <2>10. \A s, t \in Touched' : issue'[s] = issue'[t] => s = t
    <3> SUFFICES ASSUME NEW s \in Touched', NEW t \in Touched', issue'[s] = issue'[t]
                 PROVE  s = t
      OBVIOUS
    <3>1. CASE s = r \/ t = r
      BY <3>1, <2>2, <2>7, <2>8
    <3>2. CASE s # r /\ t # r
      BY <3>2, <2>7, <2>8 DEF SettledInv
    <3> QED BY <3>1, <3>2
  <2> QED
    BY <2>1, <2>5, <2>6, <2>7, <2>9, <2>10 DEF SettledInv, Touched
<1>5. ASSUME NEW g \in Algorithm, NEW passed \in BOOLEAN, UpdateResult(g, passed)
      PROVE  SettledInv'
  <2> PICK r \in Open(current, g) : SaveResult(r, g, passed)
    BY <1>5 DEF UpdateResult
  <2> QED
    BY <1>4, <1>5 DEF UpdateResult, Open, RowsFor, TypeOK
<1>6. ASSUME NEW g \in Algorithm, NEW passed \in BOOLEAN, CreateResult(g, passed)
      PROVE  SettledInv'
  <2> PICK r \in ResultId \ results :
             /\ results' = results \cup {r}
             /\ issue' = [issue EXCEPT ![r] = <<current, g>>]
             /\ SaveResult(r, g, passed)
    BY <1>6 DEF CreateResult
  <2>1. <<current, g>> \in Pair
    BY <1>6 DEF CreateResult, TypeOK, Pair
  <2> QED
    BY <1>4, <1>6, <2>1 DEF CreateResult, TypeOK
<1>7. ASSUME pc = "handle", NextAlgorithm PROVE SettledInv'
  <2>1. CheckedIsSettled'
    BY <1>7 DEF NextAlgorithm, tables, SettledInv, CheckedIsSettled, RowsOf
  <2>2. Touched' = Touched /\ RowsOf(current)' = RowsOf(current)
    BY <1>7 DEF NextAlgorithm, tables, Touched, RowsOf
  <2> QED
    BY <1>7, <2>1, <2>2 DEF NextAlgorithm, tables, SettledInv
<1>8. CASE FinishAsset
  <2>1. /\ pc = "algorithms" /\ pc' = "assets" /\ todo' = todo \ {current}
        /\ UNCHANGED <<results, issue>>
        /\ active' = active \ previously_active
        /\ recent' = recent \ unrecent
    BY <1>8 DEF FinishAsset
  <2>2. ASSUME NEW a \in Asset \ todo'
        PROVE  /\ RowsOf(a) \cap active' \subseteq recent'
               /\ \A s, t \in RowsOf(a) \cap active' : issue[s] = issue[t] => s = t
    <3>1. CASE a = current
      BY <2>1, <3>1 DEF SettledInv, Touched
    <3>2. CASE a # current
      BY <2>1, <2>2, <3>2 DEF SettledInv, CheckedIsSettled, RowsOf
    <3> QED BY <3>1, <3>2
  <2>3. CheckedIsSettled'
    BY <2>1, <2>2 DEF CheckedIsSettled, RowsOf
  <2> QED
    BY <2>1, <2>3 DEF SettledInv
<1>9. CASE EndCheckAll \/ DetachedAsset \/ AbortCheck \/ AbortAfterMail
  BY <1>1, <1>9 DEF EndCheckAll, DetachedAsset, AbortCheck, AbortAfterMail, StopJob,
                    tables
<1>10. ASSUME NEW a \in Asset, NEW S \in SUBSET Algorithm, EditAlgorithms(a, S)
       PROVE  SettledInv'
  BY <1>1, <1>10 DEF EditAlgorithms, tables, job, local
<1>11. ASSUME NEW u \in User, UserStep(u) PROVE SettledInv'
  BY <1>1, <1>11 DEF UserStep, ViewIssues, SubmitLoad, SubmitRejected, SubmitCommit,
                     tables, job, local
<1>12. CASE UNCHANGED vars
  BY <1>1, <1>12 DEF vars, tables, job, local
<1> QED
  BY <1>2, <1>3, <1>5, <1>6, <1>7, <1>8, <1>9, <1>10, <1>11, <1>12
  DEF Next, JobStep, RunAlgorithm, HandleQuietly, HandleNotify

\* After a complete check of an asset its active rows are the ones that check
\* wrote, one for each algorithm, whatever users submitted during the check
\* and even if earlier races had left several open rows.
THEOREM CheckedIsSettledHolds == Spec => []CheckedIsSettled
<1>1. Init => SettledInv
  BY DEF Init, SettledInv, CheckedIsSettled
<1>2. SettledInv => CheckedIsSettled
  BY DEF SettledInv
<1> QED
  BY <1>1, <1>2, TypeCorrect, SettledInductive, PTL DEF Spec

-----------------------------------------------------------------------------
\* With submits and checks excluding each other, every step keeps SerialInv and
\* opens no resolved row.
LEMMA SerialInductive ==
  ASSUME Interleaved = FALSE
  PROVE  TypeOK /\ SerialInv /\ [Next]_vars =>
           /\ SerialInv'
           /\ \A r \in results : r \notin Unresolved => r \notin Unresolved'
<1> DEFINE Final == \A r \in results : r \notin Unresolved => r \notin Unresolved'
<1> SUFFICES ASSUME TypeOK, SerialInv, [Next]_vars PROVE SerialInv' /\ Final
  OBVIOUS
<1> USE IssuesAssumption
<1>1. ASSUME UNCHANGED <<results, issue>>, Unresolved' \subseteq Unresolved
      PROVE  Final /\ OneUnresolvedPerIssue'
  BY <1>1 DEF SerialInv, OneUnresolvedPerIssue
<1>2. ASSUME UNCHANGED <<tables, web>>,
             pc' \in {"idle", "assets"}
      PROVE  SerialInv' /\ Final
  <2>1. UNCHANGED <<results, issue, active, acknowledged, phase, loaded_ack>>
    BY <1>2 DEF tables, web
  <2>2. Unresolved' = Unresolved
    BY <2>1 DEF Unresolved
  <2> QED
    BY <1>1, <1>2, <2>1, <2>2 DEF SerialInv
<1>3. CASE CheckAll
  BY <1>2, <1>3 DEF CheckAll
<1>4. ASSUME NEW a \in Asset, BeginAsset(a) PROVE SerialInv' /\ Final
  <2>1. UNCHANGED <<results, issue, active, acknowledged, phase, loaded_ack>>
    BY <1>4 DEF BeginAsset, tables, web
  <2>2. Unresolved' = Unresolved
    BY <2>1 DEF Unresolved
  <2>3. \A u \in User : phase[u] # "loaded"
    BY <1>4 DEF BeginAsset, JobMayStart
  <2> QED
    BY <1>1, <1>4, <2>1, <2>2, <2>3 DEF SerialInv, BeginAsset
<1>5. ASSUME NEW r \in ResultId, NEW g \in Algorithm, NEW passed \in BOOLEAN,
             pc = "algorithms", SaveResult(r, g, passed),
             r \in results => r \in Unresolved,
             results' = results \cup {r},
             acknowledged' \in {acknowledged, acknowledged \cup {r}},
             \A s \in results : issue'[s] = issue[s],
             \A s \in Unresolved : issue'[s] = issue'[r] => s = r
      PROVE  SerialInv' /\ Final
  <2>1. pc' = "handle" /\ UNCHANGED phase
    BY <1>5 DEF SaveResult, web
  <2>2. \A u \in User : phase[u] # "loaded"
    BY <1>5 DEF SerialInv
  <2>3. Unresolved' \subseteq Unresolved \cup {r}
    BY <1>5 DEF Unresolved, SaveResult
  <2>4. Final
    BY <1>5, <2>3
  <2>5. OneUnresolvedPerIssue'
    BY <1>5, <2>3 DEF SerialInv, OneUnresolvedPerIssue, Unresolved
  <2> QED
    BY <2>1, <2>2, <2>4, <2>5 DEF SerialInv
<1>6. ASSUME pc = "algorithms", NEW g \in Algorithm
      PROVE  Open(current, g) = {s \in Unresolved : issue[s] = <<current, g>>}
  BY <1>6 DEF SerialInv, Open, RowsFor, Unresolved
<1>7. ASSUME NEW g \in Algorithm, NEW passed \in BOOLEAN, UpdateResult(g, passed)
      PROVE  SerialInv' /\ Final
  <2> PICK r \in Open(current, g) : SaveResult(r, g, passed)
    BY <1>7 DEF UpdateResult
  <2>1. pc = "algorithms" /\ UNCHANGED <<results, issue, acknowledged>>
    BY <1>7 DEF UpdateResult
  <2>2. r \in Unresolved /\ issue[r] = <<current, g>>
    BY <1>6, <2>1
  <2>3. r \in results /\ r \in ResultId
    BY <2>2 DEF Unresolved, TypeOK
  <2>4. \A s \in Unresolved : issue[s] = issue[r] => s = r
    BY <2>2 DEF SerialInv, OneUnresolvedPerIssue
  <2> QED
    BY <1>5, <2>1, <2>2, <2>3, <2>4
<1>8. ASSUME NEW g \in Algorithm, NEW passed \in BOOLEAN, CreateResult(g, passed)
      PROVE  SerialInv' /\ Final
  <2> PICK r \in ResultId \ results :
             /\ results' = results \cup {r}
             /\ issue' = [issue EXCEPT ![r] = <<current, g>>]
             /\ acknowledged' = IF passed THEN acknowledged \cup {r} ELSE acknowledged
             /\ SaveResult(r, g, passed)
    BY <1>8 DEF CreateResult
  <2>1. pc = "algorithms" /\ Open(current, g) = {}
    BY <1>8 DEF CreateResult
  <2>2. issue'[r] = <<current, g>> /\ \A s \in results : issue'[s] = issue[s]
    BY DEF TypeOK
  <2>3. \A s \in Unresolved : issue'[s] # issue'[r]
    BY <1>6, <2>1, <2>2 DEF Unresolved
  <2>4. acknowledged' \in {acknowledged, acknowledged \cup {r}}
    OBVIOUS
  <2> QED
    BY <1>5, <2>1, <2>2, <2>3, <2>4
<1>9. ASSUME pc = "handle", NextAlgorithm PROVE SerialInv' /\ Final
  <2>1. UNCHANGED <<results, issue, active, acknowledged, phase, loaded_ack>>
    BY <1>9 DEF NextAlgorithm, tables, web
  <2>2. Unresolved' = Unresolved
    BY <2>1 DEF Unresolved
  <2>3. \A u \in User : phase[u] # "loaded"
    BY <1>9 DEF SerialInv
  <2> QED
    BY <1>1, <1>9, <2>1, <2>2, <2>3 DEF SerialInv, NextAlgorithm
<1>10. CASE FinishAsset
  <2>1. /\ pc = "algorithms" /\ pc' = "assets"
        /\ UNCHANGED <<results, issue, acknowledged, phase>>
        /\ active' \subseteq active
    BY <1>10 DEF FinishAsset, web
  <2>2. Unresolved' \subseteq Unresolved
    BY <2>1 DEF Unresolved
  <2>3. \A u \in User : phase[u] # "loaded"
    BY <2>1 DEF SerialInv
  <2> QED
    BY <1>1, <2>1, <2>2, <2>3 DEF SerialInv
<1>11. CASE EndCheckAll \/ DetachedAsset \/ AbortCheck \/ AbortAfterMail
  BY <1>2, <1>11 DEF EndCheckAll, DetachedAsset, AbortCheck, AbortAfterMail, StopJob
<1>12. ASSUME UNCHANGED <<results, issue, active, acknowledged, pc, seen, phase, loaded_ack>>
       PROVE  SerialInv' /\ Final
  <2>1. Unresolved' = Unresolved
    BY <1>12 DEF Unresolved
  <2> QED
    BY <1>1, <1>12, <2>1 DEF SerialInv
<1>13. ASSUME NEW a \in Asset, NEW S \in SUBSET Algorithm, EditAlgorithms(a, S)
       PROVE  SerialInv' /\ Final
  BY <1>12, <1>13 DEF EditAlgorithms, tables, job, local, web
<1>14. ASSUME NEW u \in User, UserStep(u) PROVE SerialInv' /\ Final
  <2>1. ASSUME NEW S \in Scope, ViewIssues(u, S) PROVE SerialInv' /\ Final
    <3>1. UNCHANGED <<results, issue, active, acknowledged, pc, seen, loaded_ack>>
      BY <2>1 DEF ViewIssues, tables, job, local
    <3>2. Unresolved' = Unresolved
      BY <3>1 DEF Unresolved
    <3>3. \A v \in User : phase'[v] = "loaded" => phase[v] = "loaded"
      BY <2>1 DEF ViewIssues, TypeOK
    <3> QED
      BY <1>1, <3>1, <3>2, <3>3 DEF SerialInv
  <2>2. ASSUME NEW T \in SUBSET page[u], SubmitLoad(u, T) PROVE SerialInv' /\ Final
    <3>1. UNCHANGED <<results, issue, active, acknowledged, pc, seen>>
      BY <2>2 DEF SubmitLoad, tables, job, local
    <3>2. Unresolved' = Unresolved
      BY <3>1 DEF Unresolved
    <3>3. pc \in {"idle", "assets"} /\ \A v \in User \ {u} : phase[v] # "loaded"
      BY <2>2 DEF SubmitLoad, SubmitMayStart
    <3>4. \A v \in User : phase'[v] = "loaded" => v = u
      BY <2>2, <3>3 DEF SubmitLoad, TypeOK
    <3>5. loaded_ack'[u] = Unresolved \cap RowsIn(scope[u]) \cap acknowledged
      BY <2>2 DEF SubmitLoad, TypeOK
    <3>6. loaded_ack'[u] \subseteq active
      BY <3>5 DEF Unresolved
    <3> QED
      BY <1>1, <3>1, <3>2, <3>3, <3>4, <3>6 DEF SerialInv
  <2>3. CASE SubmitRejected(u)
    <3>1. UNCHANGED <<results, issue, active, acknowledged, pc, seen>>
      BY <2>3 DEF SubmitRejected, tables, job, local
    <3>2. Unresolved' = Unresolved
      BY <3>1 DEF Unresolved
    <3>3. \A v \in User : phase'[v] = "loaded" =>
                            phase[v] = "loaded" /\ loaded_ack'[v] = loaded_ack[v]
      BY <2>3 DEF SubmitRejected, Leave, TypeOK
    <3> QED
      BY <1>1, <3>1, <3>2, <3>3 DEF SerialInv
  <2>4. CASE SubmitCommit(u)
    <3>1. UNCHANGED <<results, issue, active, pc, seen>> /\ phase[u] = "loaded"
      BY <2>4 DEF SubmitCommit, job, local
    <3>2. loaded_ack[u] \subseteq active /\ pc \in {"idle", "assets"}
      BY <3>1 DEF SerialInv
    <3>3. Unresolved' \subseteq Unresolved
      BY <2>4, <3>1, <3>2 DEF SubmitCommit, Unresolved
    <3>4. \A v \in User : phase'[v] # "loaded"
      BY <2>4, <3>1 DEF SubmitCommit, Leave, TypeOK, SerialInv
    <3> QED
      BY <1>1, <3>1, <3>2, <3>3, <3>4 DEF SerialInv
  <2> QED
    BY <1>14, <2>1, <2>2, <2>3, <2>4 DEF UserStep
<1>15. CASE UNCHANGED vars
  BY <1>12, <1>15 DEF vars, tables, job, local, web
<1> QED
  BY <1>3, <1>4, <1>7, <1>8, <1>9, <1>10, <1>11, <1>13, <1>14, <1>15
  DEF Next, JobStep, RunAlgorithm, HandleQuietly, HandleNotify

\* When submits and checks exclude each other, SerialInv holds in every state.
LEMMA SerialInvariant ==
  ASSUME Interleaved = FALSE PROVE Spec => []SerialInv
<1>1. Init => SerialInv
  BY DEF Init, SerialInv, OneUnresolvedPerIssue, Unresolved
<1>2. TypeOK /\ SerialInv /\ [Next]_vars => SerialInv'
  BY SerialInductive
<1> QED
  BY <1>1, <1>2, TypeCorrect, PTL DEF Spec

\* When submits and checks exclude each other, an asset and an algorithm have at
\* most one unresolved row.
THEOREM OneUnresolvedHolds ==
  ASSUME Interleaved = FALSE PROVE Spec => []OneUnresolvedPerIssue
<1>1. SerialInv => OneUnresolvedPerIssue
  BY DEF SerialInv
<1> QED
  BY <1>1, SerialInvariant, PTL

\* When submits and checks exclude each other, a resolved row is never opened
\* again.
THEOREM ResolvedIsFinalHolds ==
  ASSUME Interleaved = FALSE PROVE Spec => ResolvedIsFinal
<1>1. TypeOK /\ SerialInv /\ [Next]_vars =>
        [\A r \in results : r \notin Unresolved => r \notin Unresolved']_vars
  BY SerialInductive
<1> QED
  BY <1>1, TypeCorrect, SerialInvariant, PTL DEF Spec, ResolvedIsFinal

-----------------------------------------------------------------------------
\* Every step of the job and of the users is a step of the board, or none.
LEMMA BoardStep ==
  ASSUME Interleaved = FALSE, TypeOK, SerialInv, [Next]_vars
  PROVE  [Board!Next]_<<Raised, Noted, Listed>>
<1> USE IssuesAssumption
<1> DEFINE Goal == Board!Next \/ UNCHANGED <<Raised, Noted, Listed>>
<1>0. /\ active \subseteq Unresolved /\ Unresolved \subseteq results
      /\ \A r \in results : issue[r] \in Pair
      /\ \A r, s \in Unresolved : issue[r] = issue[s] => r = s
  BY DEF TypeOK, SerialInv, OneUnresolvedPerIssue, Unresolved
<1>1. ASSUME \A r \in results : issue'[r] = issue[r],
             active' = active,
             active' \cap acknowledged' = active \cap acknowledged,
             Unresolved' = Unresolved
      PROVE  Goal
  <2>1. Raised' = Raised BY <1>0, <1>1 DEF Raised
  <2>2. Noted' = Noted BY <1>0, <1>1 DEF Noted
  <2>3. Listed' = Listed BY <1>0, <1>1 DEF Listed
  <2> QED BY <2>1, <2>2, <2>3
<1>2. ASSUME UNCHANGED <<results, issue, active, acknowledged>> PROVE Goal
  BY <1>1, <1>2 DEF Unresolved
<1>3. ASSUME NEW r \in ResultId, issue'[r] \in Pair,
             \A s \in results : issue'[s] = issue[s],
             \A s \in Unresolved : issue'[s] = issue'[r] => s = r,
             r \notin active,
             active' = active \cup {r},
             active \cap acknowledged = active' \cap acknowledged',
             Unresolved' = Unresolved \cup {r}
      PROVE  Goal
  <2> DEFINE i == issue'[r]
  <2>1. i \notin Raised BY <1>0, <1>3 DEF Raised
  <2>2. Raised' = Raised \cup {i} BY <1>0, <1>3 DEF Raised
  <2>3. Noted' = Noted BY <1>0, <1>3 DEF Noted
  <2>4. Listed' = Listed \cup {i} BY <1>0, <1>3 DEF Listed
  <2>5. Board!Raise(i) BY <2>1, <2>2, <2>3, <2>4 DEF Board!Raise
  <2> QED BY <1>3, <2>5 DEF Board!Next
<1>4. ASSUME NEW gone \in SUBSET active,
             UNCHANGED <<results, issue, acknowledged>>,
             active' = active \ gone
      PROVE  Goal
  <2> DEFINE S == {issue[r] : r \in gone}
  <2>1. S \subseteq Raised BY DEF Raised
  <2>2. Raised' = Raised \ S BY <1>0, <1>4 DEF Raised
  <2>3. Noted' = Noted \ S BY <1>0, <1>4 DEF Noted
  <2>4. Unresolved' = Unresolved \ (gone \cap acknowledged)
    BY <1>0, <1>4 DEF Unresolved
  <2>5. Noted \cap S = {issue[r] : r \in gone \cap acknowledged}
    BY <1>0 DEF Noted
  <2>6. Listed' = Listed \ (Noted \cap S)
    BY <1>0, <1>4, <2>4, <2>5 DEF Listed
  <2>7. Board!Clear(S) BY <2>2, <2>3, <2>6 DEF Board!Clear
  <2> QED BY <2>1, <2>7 DEF Board!Next
<1>5. ASSUME pc = "algorithms", NEW g \in Algorithm
      PROVE  Open(current, g) = {s \in Unresolved : issue[s] = <<current, g>>}
  BY <1>5 DEF SerialInv, Open, RowsFor, Unresolved
<1>6. ASSUME NEW g \in Algorithm, NEW passed \in BOOLEAN, UpdateResult(g, passed)
      PROVE  Goal
  <2> PICK r \in Open(current, g) : SaveResult(r, g, passed)
    BY <1>6 DEF UpdateResult
  <2>1. pc = "algorithms" /\ UNCHANGED <<results, issue, acknowledged>>
    BY <1>6 DEF UpdateResult
  <2>2. r \in Unresolved BY <1>5, <2>1
  <2>3. r \in ResultId /\ issue[r] \in Pair BY <1>0, <2>2 DEF TypeOK
  <2>4. CASE passed
    <3>1. active' = active \ ({r} \cap active) BY <2>4 DEF SaveResult
    <3> QED BY <1>4, <2>1, <3>1
  <2>5. CASE ~passed /\ r \in active
    <3>1. active' = active BY <2>5 DEF SaveResult
    <3> QED BY <1>2, <2>1, <3>1
  <2>6. CASE ~passed /\ r \notin active
    <3>1. active' = active \cup {r} BY <2>6 DEF SaveResult
    <3>2. r \notin acknowledged BY <2>2, <2>6 DEF Unresolved
    <3>3. Unresolved' = Unresolved \cup {r}
      BY <1>0, <2>1, <2>2, <3>1 DEF Unresolved
    <3>4. active \cap acknowledged = active' \cap acknowledged' BY <2>1, <3>1, <3>2
    <3> QED BY <1>0, <1>3, <2>1, <2>2, <2>3, <2>6, <3>1, <3>3, <3>4
  <2> QED BY <2>4, <2>5, <2>6
<1>7. ASSUME NEW g \in Algorithm, NEW passed \in BOOLEAN, CreateResult(g, passed)
      PROVE  Goal
  <2> PICK r \in ResultId \ results :
             /\ results' = results \cup {r}
             /\ issue' = [issue EXCEPT ![r] = <<current, g>>]
             /\ acknowledged' = IF passed THEN acknowledged \cup {r} ELSE acknowledged
             /\ SaveResult(r, g, passed)
    BY <1>7 DEF CreateResult
  <2>1. pc = "algorithms" /\ Open(current, g) = {}
    BY <1>7 DEF CreateResult
  <2>2. current \in Asset BY <2>1 DEF TypeOK
  <2>3. issue'[r] = <<current, g>> /\ \A s \in results : issue'[s] = issue[s]
    BY DEF TypeOK
  <2>4. issue'[r] \in Pair BY <2>2, <2>3 DEF Pair
  <2>5. \A s \in Unresolved : issue'[s] # issue'[r]
    BY <1>0, <1>5, <2>1, <2>3
  <2>6. r \notin active /\ r \notin acknowledged BY DEF TypeOK
  <2>7. CASE passed
    <3>1. active' = active BY <2>6, <2>7 DEF SaveResult
    <3>2. active' \cap acknowledged' = active \cap acknowledged BY <2>6, <2>7, <3>1
    <3>3. Unresolved' = Unresolved BY <2>6, <2>7, <3>1 DEF Unresolved
    <3> QED BY <1>1, <2>3, <3>1, <3>2, <3>3
  <2>8. CASE ~passed
    <3>1. active' = active \cup {r} /\ acknowledged' = acknowledged
      BY <2>8 DEF SaveResult
    <3>2. active' \cap acknowledged' = active \cap acknowledged BY <2>6, <3>1
    <3>3. Unresolved' = Unresolved \cup {r} BY <2>6, <3>1 DEF Unresolved
    <3> QED BY <1>3, <2>3, <2>4, <2>5, <2>6, <3>1, <3>2, <3>3
  <2> QED BY <2>7, <2>8
<1>8. CASE FinishAsset
  <2>1. /\ UNCHANGED <<results, issue, acknowledged>>
        /\ active' = active \ (previously_active \cap active)
    BY <1>8 DEF FinishAsset
  <2> QED BY <1>4, <2>1
<1>9. ASSUME NEW u \in User, SubmitCommit(u) PROVE Goal
  <2> DEFINE rows == ticked[u] \cap Unresolved
             back == (loaded_ack[u] \ ticked[u]) \cap acknowledged
             T == {issue[r] : r \in rows}
             N == {issue[r] : r \in back}
  <2>1. /\ UNCHANGED <<results, issue, active>>
        /\ acknowledged' = (acknowledged \ (loaded_ack[u] \ ticked[u])) \cup ticked[u]
    BY <1>9 DEF SubmitCommit
  <2>2. loaded_ack[u] \subseteq active /\ ticked[u] \subseteq results
    BY <1>9 DEF SubmitCommit, SerialInv, TypeOK
  <2>3. T \subseteq Listed BY DEF Listed
  <2>4. N \subseteq Noted BY <2>2 DEF Noted
  <2>5. active' \cap acknowledged' = ((active \cap acknowledged) \ back) \cup (rows \cap active)
    BY <1>0, <2>1, <2>2
  <2>6. Unresolved' = Unresolved \ (rows \ active)
    BY <1>0, <2>1, <2>2 DEF Unresolved
  <2>7. T \cap Raised = {issue[r] : r \in rows \cap active}
    BY <1>0 DEF Raised
  <2>8. T \ Raised = {issue[r] : r \in rows \ active}
    BY <1>0 DEF Raised
  <2>9. Raised' = Raised BY <2>1 DEF Raised
  <2>10. Noted' = (Noted \ N) \cup (T \cap Raised)
    BY <1>0, <2>1, <2>2, <2>5, <2>7 DEF Noted
  <2>11. Listed' = Listed \ (T \ Raised)
    BY <1>0, <2>1, <2>6, <2>8 DEF Listed
  <2>12. Board!Note(T, N) BY <2>9, <2>10, <2>11 DEF Board!Note
  <2> QED BY <2>3, <2>4, <2>12 DEF Board!Next
<1>10. ASSUME NEW u \in User, UserStep(u), ~SubmitCommit(u) PROVE Goal
  BY <1>2, <1>10 DEF UserStep, ViewIssues, SubmitLoad, SubmitRejected, tables
<1>11. CASE CheckAll \/ (\E a \in Asset : BeginAsset(a)) \/ HandleQuietly \/ HandleNotify
  BY <1>2, <1>11 DEF CheckAll, BeginAsset, HandleQuietly, HandleNotify, NextAlgorithm, tables
<1>12. CASE EndCheckAll \/ DetachedAsset \/ AbortCheck \/ AbortAfterMail
  BY <1>2, <1>12 DEF EndCheckAll, DetachedAsset, AbortCheck, AbortAfterMail, StopJob, tables
<1>13. CASE \E a \in Asset, S \in SUBSET Algorithm : EditAlgorithms(a, S)
  BY <1>2, <1>13 DEF EditAlgorithms, tables
<1>14. CASE UNCHANGED vars
  BY <1>2, <1>14 DEF vars, tables
<1> QED
  BY <1>6, <1>7, <1>8, <1>9, <1>10, <1>11, <1>12, <1>13, <1>14 DEF Next, JobStep, RunAlgorithm

\* When submits and checks exclude each other, the table of results implements the board:
\* an issue is open from its first failed check until it is both gone and acknowledged.
THEOREM ImplementsBoard ==
  ASSUME Interleaved = FALSE PROVE Spec => KeepsBoard
<1>1. Init => Board!Init
  BY DEF Init, Board!Init, Raised, Noted, Listed, Unresolved
<1>2. TypeOK /\ SerialInv /\ [Next]_vars => [Board!Next]_<<Raised, Noted, Listed>>
  BY BoardStep
<1> QED
  BY <1>1, <1>2, TypeCorrect, SerialInvariant, PTL DEF Spec, KeepsBoard, Board!Spec
=============================================================================
