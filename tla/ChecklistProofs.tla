--------------------------- MODULE ChecklistProofs --------------------------
(***************************************************************************)
(* Proofs about Checklist, for any checklists, users and windows: the two  *)
(* ways of counting completed checks agree, the stored percentages are     *)
(* those of the checks, and the checks stay numbered.                      *)
(***************************************************************************)
EXTENDS Checklist, FiniteSetTheorems, TLAPS

\* Generating a checklist anew leaves no trace of the rows it replaces.
LEMMA GenerateAgrees ==
  ASSUME AgreeInv, NEW q, NEW i, NEW old, Generate(q, i, old)
  PROVE  AgreeInv'
<1>1. PICK new \in SUBSET Fresh(q, old) :
        /\ checks' = (checks \ old) \cup new
        /\ done' = done \ old
        /\ status' = [c \in CheckId |-> IF c \in old THEN "Not Started" ELSE status[c]]
        /\ by' = [c \in CheckId |-> IF c \in old THEN None ELSE by[c]]
  BY DEF Generate
<1>2. checks' \subseteq CheckId /\ done' \subseteq checks'
  BY <1>1 DEF Fresh, AgreeInv
<1>3. status' \in [CheckId -> Status] /\ by' \in [CheckId -> User \cup {None}]
  BY <1>1 DEF AgreeInv, Status
<1>4. \A c \in CheckId : c \in done' <=> status'[c] = "Completed"
  BY <1>1 DEF AgreeInv
<1>5. \A c \in CheckId : c \notin done' => by'[c] = None
  BY <1>1 DEF AgreeInv
<1> QED BY <1>2, <1>3, <1>4, <1>5 DEF AgreeInv

\* Completing checks and taking checks back sets the three columns together.
LEMMA CompleteAgrees ==
  ASSUME AgreeInv, NEW u \in User, NEW S \in SUBSET checks, NEW R \in SUBSET done,
         S \cap R = {}, Complete(u, S, R)
  PROVE  AgreeInv'
<1>1. /\ checks' = checks
      /\ done' = (done \ R) \cup S
      /\ status' = [c \in CheckId |-> IF c \in S \ done THEN "Completed"
                                      ELSE IF c \in R THEN "In Progress" ELSE status[c]]
      /\ by' = [c \in CheckId |-> IF c \in S \ done THEN u
                                  ELSE IF c \in R THEN None ELSE by[c]]
  BY DEF Complete
<1>2. checks' \subseteq CheckId /\ done' \subseteq checks'
  BY <1>1 DEF AgreeInv
<1>3. status' \in [CheckId -> Status] /\ by' \in [CheckId -> User \cup {None}]
  BY <1>1 DEF AgreeInv, Status
<1>4. \A c \in CheckId : c \in done' <=> status'[c] = "Completed"
  BY <1>1 DEF AgreeInv
<1>5. \A c \in CheckId : c \notin done' => by'[c] = None
  BY <1>1 DEF AgreeInv
<1> QED BY <1>2, <1>3, <1>4, <1>5 DEF AgreeInv

\* Nor does deleting rows leave a trace of them.
LEMMA DeleteRowsAgrees ==
  ASSUME AgreeInv, NEW S, DeleteRows(S)
  PROVE  AgreeInv'
<1>1. checks' \subseteq CheckId /\ done' \subseteq checks'
  BY DEF DeleteRows, AgreeInv
<1>2. status' \in [CheckId -> Status] /\ by' \in [CheckId -> User \cup {None}]
  BY DEF DeleteRows, AgreeInv, Status
<1>3. \A c \in CheckId : c \in done' <=> status'[c] = "Completed"
  BY DEF DeleteRows, AgreeInv
<1>4. \A c \in CheckId : c \notin done' => by'[c] = None
  BY DEF DeleteRows, AgreeInv
<1> QED BY <1>1, <1>2, <1>3, <1>4 DEF AgreeInv

LEMMA AgreeInductive == AgreeInv /\ [Next]_vars => AgreeInv'
<1> SUFFICES ASSUME AgreeInv, [Next]_vars PROVE AgreeInv' OBVIOUS
<1>1. CASE UNCHANGED vars
  BY <1>1 DEF AgreeInv, vars, rows, derived
<1>2. ASSUME NEW q \in Session, NEW i \in Itc, AddItc(q, i) PROVE AgreeInv'
  BY <1>2, GenerateAgrees DEF AddItc
<1>3. ASSUME NEW q \in Session, NEW i \in Itc, StartTesting(q, i) PROVE AgreeInv'
  BY <1>3, GenerateAgrees DEF StartTesting
<1>4. ASSUME NEW q \in Session, NEW i \in Itc, ViewTesting(q, i) PROVE AgreeInv'
  BY <1>4 DEF ViewTesting, AgreeInv, rows
<1>5. ASSUME NEW q \in Session, NEW p \in Itp, ViewList(q, p) PROVE AgreeInv'
  BY <1>5 DEF ViewList, AgreeInv, rows
<1>6. ASSUME NEW q \in Session, NEW i \in Itc, CompleteAllChecks(q, i) PROVE AgreeInv'
  <2>1. UserOf[q] \in User BY ChecklistAssumption
  <2>2. ChecksOf(i) \in SUBSET checks BY DEF ChecksOf
  <2> QED BY <1>6, <2>1, <2>2, CompleteAgrees DEF CompleteAllChecks
<1>7. ASSUME NEW q \in Session, NEW T \in SUBSET page[q].shown, Save(q, T)
      PROVE  AgreeInv'
  <2>1. UserOf[q] \in User BY ChecklistAssumption
  <2>2. T \in SUBSET checks BY <1>7 DEF Save, Readable
  <2>3. DoneOf(page[q].itc) \ T \in SUBSET done BY DEF DoneOf
  <2>4. Complete(UserOf[q], T, DoneOf(page[q].itc) \ T) BY <1>7 DEF Save
  <2> QED BY <2>1, <2>2, <2>3, <2>4, CompleteAgrees
<1>8. ASSUME NEW q \in Session, NEW T \in SUBSET page[q].shown, NEW S \in SUBSET T,
             SaveMissing(q, T, S)
      PROVE  AgreeInv'
  <2>1. UserOf[q] \in User BY ChecklistAssumption
  <2>2. S \in SUBSET checks /\ Complete(UserOf[q], S, {}) BY <1>8 DEF SaveMissing, Readable
  <2> QED BY <2>1, <2>2, CompleteAgrees
<1>9. ASSUME NEW q \in Session, NEW c \in page[q].shown, NEW st \in Status,
             NEW n \in 0 .. MaxNumber, CheckEdit(q, c, st, n)
      PROVE  AgreeInv'
  <2>1. /\ c \in checks
        /\ checks' = checks /\ by' = by
        /\ status' = IF Edited(c, st) THEN [status EXCEPT ![c] = st] ELSE status
        /\ done' = IF Edited(c, st) /\ st = "Completed" THEN done \cup {c} ELSE done
    BY <1>9 DEF CheckEdit
  <2> QED BY <2>1 DEF AgreeInv, Edited
<1>10. ASSUME NEW q \in Session, NEW c \in page[q].shown, CheckDelete(q, c)
       PROVE  AgreeInv'
  <2>1. /\ c \in checks
        /\ checks' = checks \ {c} /\ done' = done \ {c}
        /\ status' = [status EXCEPT ![c] = "Not Started"]
        /\ by' = [by EXCEPT ![c] = None]
    BY <1>10 DEF CheckDelete
  <2> QED BY <2>1 DEF AgreeInv, Status
<1>11. ASSUME NEW q \in Session, NEW i \in Itc, NEW st \in Status, ItcEdit(q, i, st)
       PROVE  AgreeInv'
  BY <1>11 DEF ItcEdit, AgreeInv, rows
<1>12. ASSUME NEW i \in Itc, ItcDelete(i) PROVE AgreeInv'
  BY <1>12, DeleteRowsAgrees DEF ItcDelete
<1>13. ASSUME NEW t \in ItcCheckId, ItcCheckNew(t) PROVE AgreeInv'
  BY <1>13 DEF ItcCheckNew, AgreeInv, rows
<1>14. ASSUME NEW t \in ItcCheckId, ItcCheckDelete(t) PROVE AgreeInv'
  BY <1>14, DeleteRowsAgrees DEF ItcCheckDelete
<1>15. ASSUME NEW T \in SUBSET ItcCheckId, GenericCheckDelete(T) PROVE AgreeInv'
  BY <1>15 DEF GenericCheckDelete, AgreeInv
<1> QED BY <1>1, <1>2, <1>3, <1>4, <1>5, <1>6, <1>7, <1>8, <1>9, <1>10, <1>11,
           <1>12, <1>13, <1>14, <1>15 DEF Next

\* The pages that count by is_done and those that count by status agree.
THEOREM ViewsAgreeHolds == Spec => []ViewsAgree
<1>1. Init => AgreeInv
  BY DEF Init, AgreeInv, Status
<1>2. AgreeInv => ViewsAgree
  BY DEF AgreeInv, ViewsAgree
<1> QED BY <1>1, <1>2, AgreeInductive, PTL DEF Spec

\* A check that is not done names nobody as the one who completed it.
THEOREM UndoneIsUnsignedHolds == Spec => []UndoneIsUnsigned
<1>1. Init => AgreeInv
  BY DEF Init, AgreeInv, Status
<1>2. AgreeInv => UndoneIsUnsigned
  BY DEF AgreeInv, UndoneIsUnsigned
<1> QED BY <1>1, <1>2, AgreeInductive, PTL DEF Spec

\* A rounded percentage of 100, which is what site_project_update compares,
\* means that all of a checklist is done as long as it has fewer than 200 checks.
THEOREM HundredMeansAll ==
  ASSUME NEW n \in 1 .. 199, NEW m \in 0 .. n, Percent(m, n) = 100
  PROVE  m = n
<1>1. (200 * m + n) \div (2 * n) = 100
  BY DEF Percent
<1>2. 2 * n * 100 <= 200 * m + n
  BY <1>1
<1> QED BY <1>2

-----------------------------------------------------------------------------
(***************************************************************************)
(* Types.                                                                  *)
(***************************************************************************)

\* A rounded share lies between 0 and 100.
LEMMA PercentRange ==
  ASSUME NEW n \in Nat, NEW m \in 0 .. n
  PROVE  Percent(m, n) \in 0 .. 100
<1>1. CASE n = 0
  BY <1>1 DEF Percent
<1>2. CASE n # 0
  <2> DEFINE d == (200 * m + n) \div (2 * n)
  <2>1. d \in Int /\ d >= 0 /\ 2 * n * d <= 200 * m + n
    BY <1>2
  <2>2. d <= 100
    <3> SUFFICES ASSUME d >= 101 PROVE FALSE
      BY <2>1
    <3> HIDE DEF d
    <3>1. 2 * n * d >= 202 * n
      BY <2>1, <1>2
    <3> QED BY <3>1, <2>1, <1>2
  <2> QED BY <1>2, <2>1, <2>2 DEF Percent
<1> QED BY <1>1, <1>2

\* A part of a finite set is a share of it.
LEMMA ShareRange ==
  ASSUME NEW S, IsFiniteSet(S), NEW T \in SUBSET S
  PROVE  Percent(Cardinality(T), Cardinality(S)) \in 0 .. 100
<1>1. /\ Cardinality(S) \in Nat /\ Cardinality(T) \in Nat
      /\ Cardinality(T) <= Cardinality(S)
  BY FS_Subset, FS_CardinalityType
<1> QED BY <1>1, PercentRange

LEMMA CheckPercentRange ==
  ASSUME TypeOK, NEW i
  PROVE  /\ IsFiniteSet(ChecksOf(i))
         /\ Cardinality(ChecksOf(i)) \in Nat
         /\ CheckPercent(i) \in 0 .. 100
<1>1. IsFiniteSet(ChecksOf(i))
  BY FS_Subset, ChecklistAssumption DEF ChecksOf, TypeOK
<1>2. DoneOf(i) \in SUBSET ChecksOf(i)
  BY DEF DoneOf
<1> QED BY <1>1, <1>2, ShareRange, FS_CardinalityType DEF CheckPercent

\* The part of TypeOK that is about the table of checks, and the one that is about windows.
RowTypes ==
  /\ template_checks \subseteq ItcCheckId
  /\ checks \subseteq CheckId
  /\ itc \in [CheckId -> Itc \cup {None}]
  /\ ITC_check \in [CheckId -> template_checks \cup {None}]
  /\ \A c \in checks : itc[c] \in itcs
  /\ \A c \in CheckId \ checks : ITC_check[c] = None
  /\ number \in [CheckId -> Nat]
  /\ done \subseteq checks
  /\ status \in [CheckId -> Status]
  /\ by \in [CheckId -> User \cup {None}]

WindowTypes ==
  /\ page \in [Session -> [itc : Itc \cup {None}, shown : SUBSET CheckId]]
  /\ redirect \in [Session -> [to : {"nowhere", "testing", "list"}, itc : Itc \cup {None}]]
  /\ \A q \in Session :
       /\ page[q].itc # None => page[q].itc \in itcs
       /\ redirect[q] # Nowhere => redirect[q].itc \in itcs
  /\ stale \subseteq itcs

LEMMA GenerateTypes ==
  ASSUME TypeOK, NEW q \in Session, NEW i \in Itc, NEW old \in SUBSET checks,
         Generate(q, i, old), itcs \subseteq itcs', i \in itcs'
  PROVE  RowTypes'
<1>1. PICK new \in SUBSET Fresh(q, old) :
        /\ \E f \in [new -> 1 .. Cardinality(new)] :
             /\ \A c, d \in new : f[c] = f[d] => c = d
             /\ number' = [c \in CheckId |-> IF c \in new THEN f[c]
                                             ELSE IF c \in old THEN 0 ELSE number[c]]
        /\ checks' = (checks \ old) \cup new
        /\ itc' = [c \in CheckId |-> IF c \in new THEN i
                                     ELSE IF c \in old THEN None ELSE itc[c]]
        /\ done' = done \ old
        /\ status' = [c \in CheckId |-> IF c \in old THEN "Not Started" ELSE status[c]]
        /\ by' = [c \in CheckId |-> IF c \in old THEN None ELSE by[c]]
        /\ \E of \in [new -> TemplateChecks(i)] :
             /\ \A c, d \in new : of[c] = of[d] => c = d
             /\ ITC_check' = [c \in CheckId |-> IF c \in new THEN of[c]
                                                ELSE IF c \in old THEN None ELSE ITC_check[c]]
        /\ UNCHANGED template_checks
  BY Zenon DEF Generate
<1>2. new \subseteq CheckId
  BY DEF Fresh
<1>0. /\ ITC_check' \in [CheckId -> template_checks' \cup {None}]
      /\ \A c \in CheckId \ checks' : ITC_check'[c] = None
      /\ template_checks' \subseteq ItcCheckId
  <2>1. PICK of \in [new -> TemplateChecks(i)] :
          ITC_check' = [c \in CheckId |-> IF c \in new THEN of[c]
                                          ELSE IF c \in old THEN None ELSE ITC_check[c]]
    BY <1>1
  <2>2. \A c \in new : of[c] \in template_checks
    BY DEF TemplateChecks
  <2> QED BY <1>1, <2>1, <2>2 DEF TypeOK
<1>3. checks' \subseteq CheckId /\ done' \subseteq checks'
  BY <1>1, <1>2 DEF TypeOK
<1>4. itc' \in [CheckId -> Itc \cup {None}]
  BY <1>1 DEF TypeOK
<1>5. \A c \in checks' : itc'[c] \in itcs'
  BY <1>1, <1>2 DEF TypeOK
<1>6. number' \in [CheckId -> Nat]
  <2>1. PICK f \in [new -> 1 .. Cardinality(new)] :
          number' = [c \in CheckId |-> IF c \in new THEN f[c]
                                       ELSE IF c \in old THEN 0 ELSE number[c]]
    BY <1>1
  <2>2. Cardinality(new) \in Nat
    BY <1>2, FS_Subset, FS_CardinalityType, ChecklistAssumption
  <2>3. \A c \in new : f[c] \in Nat
    BY <2>2
  <2> QED BY <2>1, <2>3 DEF TypeOK
<1>7. status' \in [CheckId -> Status] /\ by' \in [CheckId -> User \cup {None}]
  BY <1>1 DEF TypeOK, Status
<1> QED BY <1>0, <1>3, <1>4, <1>5, <1>6, <1>7 DEF RowTypes

LEMMA SendTypes ==
  ASSUME TypeOK, NEW q \in Session, NEW to \in {"testing", "list"}, NEW i \in itcs',
         Send(q, to, i), itcs \subseteq itcs', itcs' \subseteq Itc
  PROVE  WindowTypes'
<1>1. NoPage \in [itc : Itc \cup {None}, shown : SUBSET CheckId]
  BY DEF NoPage
<1>2. page' \in [Session -> [itc : Itc \cup {None}, shown : SUBSET CheckId]]
  BY <1>1 DEF Send, TypeOK
<1>3. redirect' \in [Session -> [to : {"nowhere", "testing", "list"}, itc : Itc \cup {None}]]
  BY DEF Send, TypeOK
<1>4. \A w \in Session :
        /\ page'[w].itc # None => page'[w].itc \in itcs'
        /\ redirect'[w] # Nowhere => redirect'[w].itc \in itcs'
  BY DEF Send, TypeOK, NoPage
<1>5. stale' \subseteq itcs'
  BY DEF Send, TypeOK
<1> QED BY <1>2, <1>3, <1>4, <1>5 DEF WindowTypes

LEMMA FailTypes ==
  ASSUME TypeOK, NEW q \in Session, NEW i \in itcs, Fail(q, i), UNCHANGED itcs
  PROVE  WindowTypes'
<1>1. NoPage \in [itc : Itc \cup {None}, shown : SUBSET CheckId]
  BY DEF NoPage
<1>2. page' \in [Session -> [itc : Itc \cup {None}, shown : SUBSET CheckId]]
  BY <1>1 DEF Fail, TypeOK
<1> QED BY <1>2 DEF Fail, TypeOK, NoPage, WindowTypes

LEMMA UpdateProjectTypes ==
  ASSUME TypeOK, NEW q \in Session, NEW to \in {"testing", "list"}, NEW i \in itcs,
         UpdateProject(q, to, i), UNCHANGED itcs
  PROVE  WindowTypes' /\ itp_percentage' \in [Itp -> 0 .. 100]
<1>1. CASE FirstItcs = {}
  BY <1>1, FailTypes DEF UpdateProject, TypeOK
<1>2. CASE FirstItcs # {}
  <2>1. IsFiniteSet(FirstItcs)
    BY FS_Subset, ChecklistAssumption DEF FirstItcs, TypeOK
  <2> DEFINE share == Percent(Cardinality({j \in FirstItcs : percentage[j] = 100}),
                              Cardinality(FirstItcs))
  <2>2. share \in 0 .. 100
    BY <2>1, ShareRange
  <2>3. itp_percentage' = [itp_percentage EXCEPT ![FirstItp] = share] /\ Send(q, to, i)
    BY <1>2 DEF UpdateProject
  <2>4. WindowTypes'
    BY <2>3, SendTypes DEF TypeOK
  <2> HIDE DEF share
  <2> QED BY <2>2, <2>3, <2>4 DEF TypeOK
<1> QED BY <1>1, <1>2

LEMMA CompleteTypes ==
  ASSUME TypeOK, NEW u \in User, NEW S \in SUBSET checks, NEW R, Complete(u, S, R),
         UNCHANGED itcs
  PROVE  RowTypes'
BY DEF Complete, TypeOK, RowTypes, Status

LEMMA RenumberTypes ==
  ASSUME TypeOK, NEW c \in checks, NEW n \in Nat
  PROVE  Renumber(c, n) \in [CheckId -> Nat]
<1> DEFINE peers == ChecksOf(itc[c])
           counts == Cardinality(peers)
<1>1. counts \in Nat
  BY CheckPercentRange
<1>2. number \in [CheckId -> Nat] /\ c \in CheckId
  BY DEF TypeOK
<1> HIDE DEF peers, counts
<1>3. CASE n = number[c]
  BY <1>3, <1>2 DEF Renumber
<1>4. CASE n # number[c]
  <2>1. Renumber(c, n) =
          [d \in CheckId |->
             IF d = c THEN IF n >= counts THEN counts ELSE n
             ELSE IF d \in peers /\ n >= counts /\ number[d] > number[c] THEN number[d] - 1
             ELSE IF d \in peers /\ n < counts /\ number[d] >= n /\ number[d] < number[c]
                  THEN number[d] + 1
             ELSE number[d]]
    BY <1>4 DEF Renumber, peers, counts
  <2> QED BY <2>1, <1>1, <1>2
<1> QED BY <1>3, <1>4

\* Rows are deleted whose template checks and checklists may go with them.
LEMMA DeleteRowsTypes ==
  ASSUME TypeOK, NEW S \in SUBSET checks, DeleteRows(S),
         template_checks' \subseteq ItcCheckId,
         \A c \in checks \ S : itc[c] \in itcs' /\ ITC_check[c] \in template_checks' \cup {None}
  PROVE  RowTypes'
<1>1. checks' \subseteq CheckId /\ done' \subseteq checks'
  BY DEF DeleteRows, TypeOK
<1>2. itc' \in [CheckId -> Itc \cup {None}] /\ \A c \in checks' : itc'[c] \in itcs'
  BY DEF DeleteRows, TypeOK
<1>3. /\ ITC_check' \in [CheckId -> template_checks' \cup {None}]
      /\ \A c \in CheckId \ checks' : ITC_check'[c] = None
  BY DEF DeleteRows, TypeOK
<1>4. number' \in [CheckId -> Nat]
  BY DEF DeleteRows, TypeOK
<1>5. status' \in [CheckId -> Status] /\ by' \in [CheckId -> User \cup {None}]
  BY DEF DeleteRows, TypeOK, Status
<1> QED BY <1>1, <1>2, <1>3, <1>4, <1>5 DEF RowTypes

LEMMA TypeInductive == TypeOK /\ [Next]_vars => TypeOK'
<1> SUFFICES ASSUME TypeOK, [Next]_vars PROVE TypeOK' OBVIOUS
<1> DEFINE Rest ==
      /\ itcs' \subseteq Itc
      /\ percentage' \in [Itc -> 0 .. 100]
      /\ itc_status' \in [Itc -> Status]
      /\ itp_percentage' \in [Itp -> 0 .. 100]
<1>0. Rest /\ RowTypes' /\ WindowTypes' => TypeOK'
  BY DEF TypeOK, RowTypes, WindowTypes
<1>1. CASE UNCHANGED vars
  BY <1>1 DEF TypeOK, vars, rows, derived
<1>2. ASSUME NEW q \in Session, NEW i \in Itc, AddItc(q, i) PROVE TypeOK'
  <2>1. Rest /\ itcs \subseteq itcs' /\ i \in itcs'
    BY <1>2 DEF AddItc, TypeOK, derived
  <2>2. RowTypes'
    BY <1>2, <2>1, GenerateTypes DEF AddItc
  <2>3. WindowTypes'
    BY <1>2, <2>1, SendTypes DEF AddItc
  <2> QED BY <1>0, <2>1, <2>2, <2>3
<1>3. ASSUME NEW q \in Session, NEW i \in Itc, StartTesting(q, i) PROVE TypeOK'
  <2>1. Rest /\ itcs' = itcs /\ i \in itcs
    BY <1>3 DEF StartTesting, TypeOK, Status
  <2>2. RowTypes'
    <3>1. ChecksOf(i) \in SUBSET checks BY DEF ChecksOf
    <3> QED BY <1>3, <2>1, <3>1, GenerateTypes DEF StartTesting
  <2>3. WindowTypes'
    BY <1>3, <2>1, SendTypes DEF StartTesting
  <2> QED BY <1>0, <2>1, <2>2, <2>3
<1>4. ASSUME NEW q \in Session, NEW i \in Itc, ViewTesting(q, i) PROVE TypeOK'
  <2>1. CheckPercent(i) \in 0 .. 100
    BY CheckPercentRange
  <2>2. Rest
    BY <1>4, <2>1 DEF ViewTesting, TypeOK, Status
  <2>3. RowTypes'
    BY <1>4 DEF ViewTesting, rows, TypeOK, RowTypes
  <2>4. [itc |-> i, shown |-> ChecksOf(i)] \in [itc : Itc \cup {None}, shown : SUBSET CheckId]
    BY DEF TypeOK, ChecksOf
  <2>5. Nowhere \in [to : {"nowhere", "testing", "list"}, itc : Itc \cup {None}]
    BY DEF Nowhere
  <2>6. NoPage \in [itc : Itc \cup {None}, shown : SUBSET CheckId]
    BY DEF NoPage
  <2>7. WindowTypes'
    BY <1>4, <2>4, <2>5, <2>6 DEF ViewTesting, TypeOK, WindowTypes, NoPage
  <2> QED BY <1>0, <2>2, <2>3, <2>7
<1>5. ASSUME NEW q \in Session, NEW p \in Itp, ViewList(q, p) PROVE TypeOK'
  <2>1. \A i \in Itc : CheckPercent(i) \in 0 .. 100
    BY CheckPercentRange
  <2>2. Rest
    BY <1>5, <2>1 DEF ViewList, TypeOK, Status
  <2>3. RowTypes'
    BY <1>5 DEF ViewList, rows, TypeOK, RowTypes
  <2>4. NoPage \in [itc : Itc \cup {None}, shown : SUBSET CheckId]
    BY DEF NoPage
  <2>5. Nowhere \in [to : {"nowhere", "testing", "list"}, itc : Itc \cup {None}]
    BY DEF Nowhere
  <2>6. WindowTypes'
    BY <1>5, <2>4, <2>5 DEF ViewList, TypeOK, WindowTypes, NoPage
  <2> QED BY <1>0, <2>2, <2>3, <2>6
<1>6. ASSUME NEW q \in Session, NEW i \in Itc, CompleteAllChecks(q, i) PROVE TypeOK'
  <2>1. UserOf[q] \in User /\ ChecksOf(i) \in SUBSET checks
    BY ChecklistAssumption DEF ChecksOf
  <2>2. RowTypes'
    BY <1>6, <2>1, CompleteTypes DEF CompleteAllChecks
  <2>3. WindowTypes' /\ itp_percentage' \in [Itp -> 0 .. 100]
    BY <1>6, UpdateProjectTypes DEF CompleteAllChecks
  <2>4. Rest
    BY <1>6, <2>3 DEF CompleteAllChecks, derived, TypeOK
  <2> QED BY <1>0, <2>2, <2>3, <2>4
<1>7. ASSUME NEW q \in Session, NEW T \in SUBSET page[q].shown, Save(q, T)
      PROVE  TypeOK'
  <2>1. UserOf[q] \in User /\ T \in SUBSET checks /\ page[q].itc \in itcs
    BY <1>7, ChecklistAssumption DEF Save, Readable, TypeOK
  <2>2. RowTypes'
    BY <1>7, <2>1, CompleteTypes DEF Save
  <2>3. WindowTypes' /\ itp_percentage' \in [Itp -> 0 .. 100]
    BY <1>7, <2>1, UpdateProjectTypes DEF Save
  <2>4. Rest
    BY <1>7, <2>3 DEF Save, derived, TypeOK
  <2> QED BY <1>0, <2>2, <2>3, <2>4
<1>8. ASSUME NEW q \in Session, NEW T \in SUBSET page[q].shown, NEW S \in SUBSET T,
             SaveMissing(q, T, S)
      PROVE  TypeOK'
  <2>1. UserOf[q] \in User /\ S \in SUBSET checks /\ page[q].itc \in itcs
    BY <1>8, ChecklistAssumption DEF SaveMissing, Readable, TypeOK
  <2>2. RowTypes'
    BY <1>8, <2>1, CompleteTypes DEF SaveMissing
  <2>3. WindowTypes'
    BY <1>8, <2>1, FailTypes DEF SaveMissing
  <2>4. Rest
    BY <1>8 DEF SaveMissing, derived, TypeOK
  <2> QED BY <1>0, <2>2, <2>3, <2>4
<1>9. ASSUME NEW q \in Session, NEW c \in page[q].shown, NEW st \in Status,
             NEW n \in 0 .. MaxNumber, CheckEdit(q, c, st, n)
      PROVE  TypeOK'
  <2>1. c \in checks /\ itc[c] \in itcs /\ n \in Nat
    BY <1>9, ChecklistAssumption DEF CheckEdit, TypeOK
  <2>2. number' \in [CheckId -> Nat]
    BY <1>9, <2>1, RenumberTypes DEF CheckEdit
  <2>3. RowTypes'
    BY <1>9, <2>1, <2>2 DEF CheckEdit, TypeOK, RowTypes, derived
  <2>4. Rest
    BY <1>9 DEF CheckEdit, derived, TypeOK
  <2>5. WindowTypes'
    <3>1. itcs' = itcs /\ Send(q, "testing", itc[c]) BY <1>9 DEF CheckEdit
    <3> QED BY <2>1, <2>4, <3>1, SendTypes
  <2> QED BY <1>0, <2>3, <2>4, <2>5
<1>10. ASSUME NEW q \in Session, NEW c \in page[q].shown, CheckDelete(q, c)
       PROVE  TypeOK'
  <2>1. c \in checks /\ itc[c] \in itcs
    BY <1>10 DEF CheckDelete, TypeOK
  <2>2. number' \in [CheckId -> Nat]
    <3> DEFINE peers == ChecksOf(itc[c])
    <3>1. number' = [d \in CheckId |->
            IF d = c THEN 0
            ELSE IF /\ d \in peers
                    /\ number[c] < Cardinality(peers)
                    /\ number[d] > number[c]
                 THEN number[d] - 1 ELSE number[d]]
      BY <1>10 DEF CheckDelete
    <3> HIDE DEF peers
    <3>2. number \in [CheckId -> Nat] /\ c \in CheckId
      BY <2>1 DEF TypeOK
    <3> QED BY <3>1, <3>2
  <2>3. RowTypes'
    BY <1>10, <2>1, <2>2 DEF CheckDelete, TypeOK, RowTypes, Status
  <2>4. Rest
    BY <1>10 DEF CheckDelete, derived, TypeOK
  <2>5. WindowTypes'
    <3>1. itcs' = itcs /\ Send(q, "testing", itc[c]) BY <1>10 DEF CheckDelete
    <3> QED BY <2>1, <2>4, <3>1, SendTypes
  <2> QED BY <1>0, <2>3, <2>4, <2>5
<1>11. ASSUME NEW q \in Session, NEW i \in Itc, NEW st \in Status, ItcEdit(q, i, st)
       PROVE  TypeOK'
  <2>1. Rest /\ itcs' = itcs /\ i \in itcs
    BY <1>11 DEF ItcEdit, TypeOK
  <2>2. RowTypes'
    BY <1>11 DEF ItcEdit, TypeOK, RowTypes, rows
  <2>3. WindowTypes'
    BY <1>11, <2>1, SendTypes DEF ItcEdit
  <2> QED BY <1>0, <2>1, <2>2, <2>3
<1>12. ASSUME NEW i \in Itc, ItcDelete(i) PROVE TypeOK'
  <2>1. itcs' = itcs \ {i} /\ template_checks' = template_checks /\ DeleteRows(ChecksOf(i))
    BY <1>12 DEF ItcDelete
  <2>2. Rest
    <3>1. 0 \in 0 .. 100 OBVIOUS
    <3> QED BY <1>12, <3>1 DEF ItcDelete, TypeOK, Status
  <2>3. RowTypes'
    <3>1. ChecksOf(i) \in SUBSET checks BY DEF ChecksOf
    <3>2. \A c \in checks \ ChecksOf(i) :
            itc[c] \in itcs' /\ ITC_check[c] \in template_checks' \cup {None}
      BY <2>1 DEF ChecksOf, TypeOK
    <3>3. template_checks' \subseteq ItcCheckId BY <2>1 DEF TypeOK
    <3> QED BY <2>1, <3>1, <3>2, <3>3, DeleteRowsTypes
  <2>4. WindowTypes'
    <3>1. NoPage \in [itc : Itc \cup {None}, shown : SUBSET CheckId]
      BY DEF NoPage
    <3>2. Nowhere \in [to : {"nowhere", "testing", "list"}, itc : Itc \cup {None}]
      BY DEF Nowhere
    <3>3. /\ page' = [q \in Session |-> IF page[q].itc = i THEN NoPage ELSE page[q]]
          /\ redirect' = [q \in Session |->
                            IF redirect[q].itc = i THEN Nowhere ELSE redirect[q]]
          /\ stale' = stale \ {i}
      BY <1>12 DEF ItcDelete
    <3>4. \A q \in Session : page'[q].itc # None => page'[q].itc \in itcs'
      BY <2>1, <3>3 DEF TypeOK, NoPage
    <3>5. \A q \in Session : redirect'[q] # Nowhere => redirect'[q].itc \in itcs'
      BY <2>1, <3>3 DEF TypeOK
    <3> QED BY <2>1, <3>1, <3>2, <3>3, <3>4, <3>5 DEF TypeOK, WindowTypes
  <2> QED BY <1>0, <2>2, <2>3, <2>4
<1>13. ASSUME NEW t \in ItcCheckId, ItcCheckNew(t) PROVE TypeOK'
  BY <1>13 DEF ItcCheckNew, TypeOK, derived, rows
<1>14. ASSUME NEW t \in ItcCheckId, ItcCheckDelete(t) PROVE TypeOK'
  <2> DEFINE gone == {c \in checks : ITC_check[c] = t}
  <2>1. /\ itcs' = itcs /\ template_checks' = template_checks \ {t} /\ DeleteRows(gone)
        /\ page' = page /\ redirect' = redirect /\ stale' = stale \cup {itc[c] : c \in gone}
    BY <1>14 DEF ItcCheckDelete
  <2>2. Rest
    BY <1>14 DEF ItcCheckDelete, TypeOK, derived
  <2>3. RowTypes'
    <3>1. gone \in SUBSET checks OBVIOUS
    <3>2. \A c \in checks \ gone :
            itc[c] \in itcs' /\ ITC_check[c] \in template_checks' \cup {None}
      BY <2>1 DEF TypeOK
    <3>3. template_checks' \subseteq ItcCheckId BY <2>1 DEF TypeOK
    <3> HIDE DEF gone
    <3> QED BY <2>1, <3>1, <3>2, <3>3, DeleteRowsTypes
  <2>4. WindowTypes'
    BY <2>1 DEF TypeOK, WindowTypes
  <2> QED BY <1>0, <2>2, <2>3, <2>4
<1>15. ASSUME NEW T \in SUBSET ItcCheckId, GenericCheckDelete(T) PROVE TypeOK'
  <2>1. Rest
    BY <1>15 DEF GenericCheckDelete, TypeOK, derived
  <2>2. RowTypes'
    BY <1>15 DEF GenericCheckDelete, TypeOK, RowTypes
  <2>3. WindowTypes'
    BY <1>15 DEF GenericCheckDelete, TypeOK, WindowTypes
  <2> QED BY <1>0, <2>1, <2>2, <2>3
<1> QED BY <1>1, <1>2, <1>3, <1>4, <1>5, <1>6, <1>7, <1>8, <1>9, <1>10, <1>11,
           <1>12, <1>13, <1>14, <1>15 DEF Next

\* Percentages stay between 0 and 100, a check always belongs to a checklist
\* that exists, and so does every form that is shown and every redirect.
THEOREM TypeCorrect == Spec => []TypeOK
<1>1. Init => TypeOK
  <2> SUFFICES ASSUME Init PROVE TypeOK OBVIOUS
  <2>1. NoPage \in [itc : Itc \cup {None}, shown : SUBSET CheckId]
    BY DEF NoPage
  <2>2. Nowhere \in [to : {"nowhere", "testing", "list"}, itc : Itc \cup {None}]
    BY DEF Nowhere
  <2>3. RowTypes
    BY DEF Init, RowTypes, Status
  <2>4. WindowTypes
    BY <2>1, <2>2 DEF Init, WindowTypes, NoPage
  <2>0. 0 \in 0 .. 100
    OBVIOUS
  <2>5. percentage \in [Itc -> 0 .. 100]
    BY <2>0, Zenon DEF Init
  <2>6. itp_percentage \in [Itp -> 0 .. 100]
    BY <2>0, Zenon DEF Init
  <2>7. itcs \subseteq Itc /\ itc_status \in [Itc -> Status]
    BY DEF Init, Status
  <2> QED BY <2>3, <2>4, <2>5, <2>6, <2>7 DEF TypeOK, RowTypes, WindowTypes
<1> QED BY <1>1, TypeInductive, PTL DEF Spec

-----------------------------------------------------------------------------
(***************************************************************************)
(* Percentages.                                                            *)
(***************************************************************************)

\* The stored numbers of i are those of its checks.
Derived(i) ==
  /\ percentage[i] = CheckPercent(i)
  /\ IsFull(i) => itc_status[i] = "Completed"

\* The step leaves the checks of j alone.
Spared(j) == ChecksOf(j)' = ChecksOf(j) /\ DoneOf(j)' = DoneOf(j)

LEMMA SparedStaysDerived ==
  ASSUME NEW j, Derived(j), Spared(j),
         percentage'[j] = percentage[j], itc_status'[j] = itc_status[j]
  PROVE  Derived(j)'
<1>1. CheckPercent(j)' = CheckPercent(j)
  BY DEF Spared, CheckPercent
<1>2. IsFull(j)' = IsFull(j)
  <2>1. IsFull(j) <=> ChecksOf(j) # {} /\ ChecksOf(j) \subseteq DoneOf(j)
    BY DEF IsFull, DoneOf
  <2>2. IsFull(j)' <=> ChecksOf(j)' # {} /\ ChecksOf(j)' \subseteq DoneOf(j)'
    BY DEF IsFull, DoneOf
  <2>3. IsFull(j) \in BOOLEAN /\ IsFull(j)' \in BOOLEAN
    BY DEF IsFull
  <2> QED BY <2>1, <2>2, <2>3 DEF Spared
<1> QED BY <1>1, <1>2 DEF Derived

\* A checklist that is settled after a redirect was settled before it, and is
\* not the one the window has been sent to.
LEMMA SendUnsettles ==
  ASSUME TypeOK, NEW q \in Session, Ready(q), NEW to, NEW i, Send(q, to, i),
         NEW j \in Itc, Settled(j)'
  PROVE  Settled(j) /\ j # i
<1>1. redirect' = [redirect EXCEPT ![q] = [to |-> to, itc |-> i]] /\ stale' = stale
  BY DEF Send
<1>2. redirect[q].itc # j
  BY ChecklistAssumption DEF Ready, Nowhere
<1>3. redirect'[q].itc = i /\ \A w \in Session \ {q} : redirect'[w] = redirect[w]
  BY <1>1 DEF TypeOK
<1> QED BY <1>1, <1>2, <1>3 DEF Settled

LEMMA FailUnsettles ==
  ASSUME NEW q, NEW i, Fail(q, i), NEW j, Settled(j)'
  PROVE  Settled(j) /\ j # i
BY DEF Fail, Settled

LEMMA UpdateUnsettles ==
  ASSUME TypeOK, NEW q \in Session, Ready(q), NEW to, NEW i, UpdateProject(q, to, i),
         NEW j \in Itc, Settled(j)'
  PROVE  Settled(j) /\ j # i
BY SendUnsettles, FailUnsettles DEF UpdateProject

\* In all three the window shows no form any more.
LEMMA FormGone ==
  ASSUME NEW q, NEW to, NEW i,
         Send(q, to, i) \/ Fail(q, i) \/ UpdateProject(q, to, i)
  PROVE  page' = [page EXCEPT ![q] = NoPage]
BY DEF Send, Fail, UpdateProject

LEMMA ShownKept ==
  ASSUME TypeOK, ShownIsOwn, NEW q \in Session, page' = [page EXCEPT ![q] = NoPage],
         \A w \in Session \ {q} : \A c \in page[w].shown \cap checks' :
           c \in checks /\ itc'[c] = itc[c]
  PROVE  ShownIsOwn'
<1> SUFFICES ASSUME NEW w \in Session, NEW c \in page'[w].shown \cap checks'
             PROVE  itc'[c] = page'[w].itc
  BY DEF ShownIsOwn
<1>1. CASE w = q
  BY <1>1 DEF TypeOK, NoPage
<1>2. CASE w # q
  BY <1>2 DEF TypeOK, ShownIsOwn
<1> QED BY <1>1, <1>2

\* New rows get ids that no other window shows, and are rows of i.
LEMMA GenerateSpares ==
  ASSUME TypeOK, NEW q \in Session, NEW i \in Itc, NEW old \in SUBSET ChecksOf(i),
         Generate(q, i, old)
  PROVE  /\ \A j : j # i => Spared(j)
         /\ \A w \in Session \ {q} : \A c \in page[w].shown \cap checks' :
              c \in checks /\ itc'[c] = itc[c]
<1>1. PICK new \in SUBSET Fresh(q, old) :
        /\ checks' = (checks \ old) \cup new
        /\ itc' = [c \in CheckId |-> IF c \in new THEN i
                                     ELSE IF c \in old THEN None ELSE itc[c]]
        /\ done' = done \ old
  BY DEF Generate
<1>2. new \subseteq CheckId /\ new \cap (checks \ old) = {}
  BY DEF Fresh
<1>3. \A c \in checks \ old : c \in checks' /\ itc'[c] = itc[c]
  BY <1>1, <1>2 DEF TypeOK
<1>4. \A c \in new : itc'[c] = i
  BY <1>1, <1>2
<1>5. ASSUME NEW j, j # i PROVE Spared(j)
  <2>1. ChecksOf(j)' = ChecksOf(j)
    BY <1>1, <1>3, <1>4, <1>5 DEF ChecksOf
  <2>2. old \cap ChecksOf(j) = {}
    BY <1>5 DEF ChecksOf
  <2>3. DoneOf(j)' = DoneOf(j)
    BY <1>1, <2>1, <2>2 DEF DoneOf
  <2> QED BY <2>1, <2>3 DEF Spared
<1>6. ASSUME NEW w \in Session \ {q}, NEW c \in page[w].shown \cap checks'
      PROVE  c \in checks /\ itc'[c] = itc[c]
  <2>1. c \notin new
    BY DEF Fresh
  <2> QED BY <1>1, <1>3, <2>1
<1> QED BY <1>5, <1>6

LEMMA CompleteSpares ==
  ASSUME NEW u, NEW i, NEW S \in SUBSET ChecksOf(i), NEW R \in SUBSET ChecksOf(i),
         Complete(u, S, R)
  PROVE  \A j : j # i => Spared(j)
<1> SUFFICES ASSUME NEW j, j # i PROVE Spared(j) OBVIOUS
<1>1. ChecksOf(j)' = ChecksOf(j)
  BY DEF Complete, ChecksOf
<1>2. ChecksOf(j) \cap ChecksOf(i) = {}
  BY DEF ChecksOf
<1>3. DoneOf(j)' = DoneOf(j)
  BY <1>1, <1>2 DEF DoneOf, Complete
<1> QED BY <1>1, <1>3 DEF Spared

\* Deleting rows leaves the checklists alone that none of the rows is on.
LEMMA DeleteRowsSpares ==
  ASSUME TypeOK, NEW S \in SUBSET checks, DeleteRows(S)
  PROVE  /\ checks' = checks \ S
         /\ \A c \in checks \ S : itc'[c] = itc[c] /\ number'[c] = number[c]
         /\ \A j : ChecksOf(j)' = ChecksOf(j) \ S
         /\ \A j : ChecksOf(j) \cap S = {} => Spared(j)
<1>1. checks' = checks \ S /\ done' = done \ S
  BY DEF DeleteRows
<1>2. \A c \in checks \ S : itc'[c] = itc[c] /\ number'[c] = number[c]
  BY DEF DeleteRows, TypeOK
<1>3. \A j : ChecksOf(j)' = ChecksOf(j) \ S
  BY <1>1, <1>2 DEF ChecksOf
<1>4. ASSUME NEW j, ChecksOf(j) \cap S = {} PROVE Spared(j)
  <2>1. ChecksOf(j)' = ChecksOf(j)
    BY <1>3, <1>4
  <2>2. DoneOf(j)' = DoneOf(j)
    BY <1>1, <1>4, <2>1 DEF DoneOf
  <2> QED BY <2>1, <2>2 DEF Spared
<1> QED BY <1>1, <1>2, <1>3, <1>4

\* A step keeps the stored numbers fresh if it spares the checklists it leaves settled.
LEMMA SettledStayFresh ==
  ASSUME PercentageFresh,
         \A j \in itcs' : Settled(j)' =>
           /\ j \in itcs /\ Settled(j) /\ Spared(j)
           /\ percentage'[j] = percentage[j] /\ itc_status'[j] = itc_status[j]
  PROVE  PercentageFresh'
<1> SUFFICES ASSUME NEW j \in itcs', Settled(j)' PROVE Derived(j)'
  BY DEF PercentageFresh, Derived
<1>1. Derived(j)
  BY DEF PercentageFresh, Derived
<1> QED BY <1>1, SparedStaysDerived

\* What a handler that ends in a redirect or an error page leaves fresh.
LEMMA OthersStayFresh ==
  ASSUME TypeOK, TypeOK', PercentageFresh, NEW i,
         \A j \in Itc : Settled(j)' => Settled(j) /\ j # i,
         itcs' \subseteq itcs \cup {i},
         \A j \in itcs \ {i} : /\ Spared(j)
                               /\ percentage'[j] = percentage[j]
                               /\ itc_status'[j] = itc_status[j]
  PROVE  PercentageFresh'
<1>1. \A j \in itcs' : Settled(j)' => j \in itcs /\ j # i /\ Settled(j)
  BY DEF TypeOK
<1> QED BY <1>1, SettledStayFresh

LEMMA FreshInductive == TypeOK /\ TypeOK' /\ FreshInv /\ [Next]_vars => FreshInv'
<1> SUFFICES ASSUME TypeOK, TypeOK', ShownIsOwn, PercentageFresh, [Next]_vars
             PROVE  ShownIsOwn' /\ PercentageFresh'
  BY DEF FreshInv
<1>0. itcs \subseteq Itc
  BY DEF TypeOK
<1>1. CASE UNCHANGED vars
  <2>1. ShownIsOwn'
    BY <1>1 DEF ShownIsOwn, vars, rows
  <2>2. \A j : Spared(j)
    BY <1>1 DEF Spared, vars, rows, ChecksOf, DoneOf
  <2>3. ASSUME NEW j \in itcs', Settled(j)' PROVE Derived(j)'
    <3>1. j \in itcs /\ Settled(j) /\ percentage' = percentage /\ itc_status' = itc_status
      BY <1>1, <2>3 DEF vars, derived, Settled
    <3>2. Derived(j)
      BY <3>1 DEF PercentageFresh, Derived
    <3> QED BY <2>2, <3>1, <3>2, SparedStaysDerived
  <2> QED BY <2>1, <2>3 DEF PercentageFresh, Derived
<1>2. ASSUME NEW q \in Session, NEW i \in Itc, AddItc(q, i)
      PROVE  ShownIsOwn' /\ PercentageFresh'
  <2>1. Ready(q) /\ Generate(q, i, {}) /\ Send(q, "list", i)
    BY <1>2 DEF AddItc
  <2>2. /\ \A j : j # i => Spared(j)
        /\ \A w \in Session \ {q} : \A c \in page[w].shown \cap checks' :
             c \in checks /\ itc'[c] = itc[c]
    <3>1. {} \in SUBSET ChecksOf(i) OBVIOUS
    <3> QED BY <2>1, <3>1, GenerateSpares
  <2>3. ShownIsOwn'
    BY <2>1, <2>2, FormGone, ShownKept
  <2>4. \A j \in Itc : Settled(j)' => Settled(j) /\ j # i
    BY <2>1, SendUnsettles
  <2>5. itcs' \subseteq itcs \cup {i} /\ percentage' = percentage /\ itc_status' = itc_status
    BY <1>2 DEF AddItc, derived
  <2> QED BY <2>2, <2>3, <2>4, <2>5, OthersStayFresh
<1>3. ASSUME NEW q \in Session, NEW i \in Itc, StartTesting(q, i)
      PROVE  ShownIsOwn' /\ PercentageFresh'
  <2>1. Ready(q) /\ Generate(q, i, ChecksOf(i)) /\ Send(q, "testing", i)
    BY <1>3 DEF StartTesting
  <2>2. /\ \A j : j # i => Spared(j)
        /\ \A w \in Session \ {q} : \A c \in page[w].shown \cap checks' :
             c \in checks /\ itc'[c] = itc[c]
    BY <2>1, GenerateSpares
  <2>3. ShownIsOwn'
    BY <2>1, <2>2, FormGone, ShownKept
  <2>4. \A j \in Itc : Settled(j)' => Settled(j) /\ j # i
    BY <2>1, SendUnsettles
  <2>5. /\ itcs' \subseteq itcs \cup {i} /\ percentage' = percentage
        /\ \A j \in itcs \ {i} : itc_status'[j] = itc_status[j]
    BY <1>3, <1>0 DEF StartTesting, TypeOK
  <2> QED BY <2>2, <2>3, <2>4, <2>5, OthersStayFresh
<1>4. ASSUME NEW q \in Session, NEW i \in Itc, ViewTesting(q, i)
      PROVE  ShownIsOwn' /\ PercentageFresh'
  <2>1. \A j : Spared(j) /\ CheckPercent(j)' = CheckPercent(j) /\ IsFull(j)' = IsFull(j)
    BY <1>4 DEF ViewTesting, rows, Spared, ChecksOf, DoneOf, CheckPercent, IsFull
  <2>2. ShownIsOwn'
    <3> SUFFICES ASSUME NEW w \in Session, NEW c \in page'[w].shown \cap checks
                 PROVE  itc[c] = page'[w].itc
      BY <1>4 DEF ViewTesting, rows, ShownIsOwn
    <3>1. CASE w = q
      BY <1>4, <3>1 DEF ViewTesting, TypeOK, ChecksOf, NoPage
    <3>2. CASE w # q
      BY <1>4, <3>2 DEF ViewTesting, TypeOK, ShownIsOwn
    <3> QED BY <3>1, <3>2
  <2>3. ASSUME NEW j \in itcs', Settled(j)' PROVE Derived(j)'
    <3>1. j \in itcs /\ j \in Itc
      BY <1>4, <1>0 DEF ViewTesting
    <3>2. CASE j = i
      <4>1. /\ percentage'[i] = CheckPercent(i)
            /\ IsFull(i) => itc_status'[i] = "Completed"
        BY <1>4 DEF ViewTesting, TypeOK
      <4> QED BY <2>1, <3>2, <4>1 DEF Derived
    <3>3. CASE j # i
      <4>1. percentage'[j] = percentage[j] /\ itc_status'[j] = itc_status[j]
        BY <1>4, <3>1, <3>3 DEF ViewTesting, TypeOK
      <4>2. redirect[q].itc # j
        <5>1. redirect[q] \in {Nowhere, [to |-> "testing", itc |-> i]}
          BY <1>4 DEF ViewTesting
        <5>2. redirect[q].itc \in {None, i}
          BY <5>1 DEF Nowhere
        <5> QED BY <5>2, <3>1, <3>3, ChecklistAssumption
      <4>3. Settled(j)
        BY <1>4, <2>3, <3>1, <3>3, <4>2 DEF ViewTesting, Settled, TypeOK
      <4>4. Derived(j)
        BY <3>1, <4>3 DEF PercentageFresh, Derived
      <4> QED BY <2>1, <4>1, <4>4, SparedStaysDerived
    <3> QED BY <3>2, <3>3
  <2> QED BY <2>2, <2>3 DEF PercentageFresh, Derived
<1>5. ASSUME NEW q \in Session, NEW p \in Itp, ViewList(q, p)
      PROVE  ShownIsOwn' /\ PercentageFresh'
  <2> DEFINE listed == {i \in itcs : ItpOf[i] = p}
  <2>1. \A j : Spared(j) /\ CheckPercent(j)' = CheckPercent(j) /\ IsFull(j)' = IsFull(j)
    BY <1>5 DEF ViewList, rows, Spared, ChecksOf, DoneOf, CheckPercent, IsFull
  <2>2. ShownIsOwn'
    <3>1. page' = [page EXCEPT ![q] = NoPage] /\ checks' = checks /\ itc' = itc
      BY <1>5 DEF ViewList, rows
    <3> QED BY <3>1, ShownKept
  <2>3. ASSUME NEW j \in itcs', Settled(j)' PROVE Derived(j)'
    <3>1. j \in itcs /\ j \in Itc
      BY <1>5, <1>0 DEF ViewList
    <3>2. CASE j \in listed
      <4>1. /\ percentage'[j] = CheckPercent(j)
            /\ IsFull(j) => itc_status'[j] = "Completed"
        BY <1>5, <3>1, <3>2 DEF ViewList
      <4> QED BY <2>1, <4>1 DEF Derived
    <3>3. CASE j \notin listed
      <4>1. percentage'[j] = percentage[j] /\ itc_status'[j] = itc_status[j]
        BY <1>5, <3>1, <3>3 DEF ViewList
      <4>2. redirect[q].itc # j
        <5>1. Ready(q) \/ \E i \in listed : redirect[q] = [to |-> "list", itc |-> i]
          BY <1>5 DEF ViewList
        <5>2. CASE Ready(q)
          BY <5>2, <3>1, ChecklistAssumption DEF Ready, Nowhere
        <5>3. ASSUME NEW i \in listed, redirect[q] = [to |-> "list", itc |-> i]
              PROVE  redirect[q].itc # j
          BY <5>3, <3>3
        <5> QED BY <5>1, <5>2, <5>3
      <4>3. Settled(j)
        BY <1>5, <2>3, <3>1, <3>3, <4>2 DEF ViewList, Settled, TypeOK
      <4>4. Derived(j)
        BY <3>1, <4>3 DEF PercentageFresh, Derived
      <4> QED BY <2>1, <4>1, <4>4, SparedStaysDerived
    <3> QED BY <3>2, <3>3
  <2> QED BY <2>2, <2>3 DEF PercentageFresh, Derived
<1>6. ASSUME NEW q \in Session, NEW i \in Itc, CompleteAllChecks(q, i)
      PROVE  ShownIsOwn' /\ PercentageFresh'
  <2>1. /\ Ready(q) /\ Complete(UserOf[q], ChecksOf(i), {}) /\ UpdateProject(q, "list", i)
        /\ itcs' = itcs /\ percentage' = percentage /\ itc_status' = itc_status
    BY <1>6 DEF CompleteAllChecks, derived
  <2>2. \A j : j # i => Spared(j)
    <3>1. {} \in SUBSET ChecksOf(i) OBVIOUS
    <3> QED BY <2>1, <3>1, CompleteSpares
  <2>3. ShownIsOwn'
    <3>1. checks' = checks /\ itc' = itc BY <2>1 DEF Complete
    <3> QED BY <2>1, <3>1, FormGone, ShownKept
  <2>4. \A j \in Itc : Settled(j)' => Settled(j) /\ j # i
    BY <2>1, UpdateUnsettles
  <2> QED BY <2>1, <2>2, <2>3, <2>4, OthersStayFresh
<1>7. ASSUME NEW q \in Session, NEW T \in SUBSET page[q].shown, Save(q, T)
      PROVE  ShownIsOwn' /\ PercentageFresh'
  <2> DEFINE i == page[q].itc
  <2>1. /\ Ready(q) /\ Complete(UserOf[q], T, DoneOf(i) \ T) /\ UpdateProject(q, "testing", i)
        /\ itcs' = itcs /\ percentage' = percentage /\ itc_status' = itc_status
    BY <1>7 DEF Save, derived
  <2>2. T \in SUBSET ChecksOf(i)
    BY <1>7 DEF Save, Readable, ShownIsOwn, ChecksOf
  <2>3. DoneOf(i) \ T \in SUBSET ChecksOf(i)
    BY DEF DoneOf
  <2> HIDE DEF i
  <2>4. \A j : j # i => Spared(j)
    BY <2>1, <2>2, <2>3, CompleteSpares
  <2>5. ShownIsOwn'
    <3>1. checks' = checks /\ itc' = itc BY <2>1 DEF Complete
    <3> QED BY <2>1, <3>1, FormGone, ShownKept
  <2>6. \A j \in Itc : Settled(j)' => Settled(j) /\ j # i
    BY <2>1, UpdateUnsettles
  <2> QED BY <2>1, <2>4, <2>5, <2>6, OthersStayFresh
<1>8. ASSUME NEW q \in Session, NEW T \in SUBSET page[q].shown, NEW S \in SUBSET T,
             SaveMissing(q, T, S)
      PROVE  ShownIsOwn' /\ PercentageFresh'
  <2> DEFINE i == page[q].itc
  <2>1. /\ Complete(UserOf[q], S, {}) /\ Fail(q, i)
        /\ itcs' = itcs /\ percentage' = percentage /\ itc_status' = itc_status
    BY <1>8 DEF SaveMissing, derived
  <2>2. S \in SUBSET ChecksOf(i) /\ {} \in SUBSET ChecksOf(i)
    BY <1>8 DEF SaveMissing, Readable, ShownIsOwn, ChecksOf
  <2> HIDE DEF i
  <2>3. \A j : j # i => Spared(j)
    BY <2>1, <2>2, CompleteSpares
  <2>4. ShownIsOwn'
    <3>1. checks' = checks /\ itc' = itc BY <2>1 DEF Complete
    <3>2. page' = [page EXCEPT ![q] = NoPage] BY <2>1 DEF Fail
    <3> QED BY <3>1, <3>2, ShownKept
  <2>5. \A j \in Itc : Settled(j)' => Settled(j) /\ j # i
    BY <2>1, FailUnsettles
  <2> QED BY <2>1, <2>3, <2>4, <2>5, OthersStayFresh
<1>9. ASSUME NEW q \in Session, NEW c \in page[q].shown, NEW st \in Status,
             NEW n \in 0 .. MaxNumber, CheckEdit(q, c, st, n)
      PROVE  ShownIsOwn' /\ PercentageFresh'
  <2> DEFINE i == itc[c]
  <2>1. /\ Ready(q) /\ Send(q, "testing", i) /\ checks' = checks /\ itc' = itc
        /\ done' \in {done, done \cup {c}}
        /\ itcs' = itcs /\ percentage' = percentage /\ itc_status' = itc_status
    BY <1>9 DEF CheckEdit, derived
  <2>2. ASSUME NEW j, j # i PROVE Spared(j)
    <3>1. ChecksOf(j)' = ChecksOf(j) BY <2>1 DEF ChecksOf
    <3>2. c \notin ChecksOf(j) BY <2>2 DEF ChecksOf
    <3>3. DoneOf(j)' = DoneOf(j) BY <2>1, <3>1, <3>2 DEF DoneOf
    <3> QED BY <3>1, <3>3 DEF Spared
  <2> HIDE DEF i
  <2>3. ShownIsOwn'
    BY <2>1, FormGone, ShownKept
  <2>4. \A j \in Itc : Settled(j)' => Settled(j) /\ j # i
    BY <2>1, SendUnsettles
  <2> QED BY <2>1, <2>2, <2>3, <2>4, OthersStayFresh
<1>10. ASSUME NEW q \in Session, NEW c \in page[q].shown, CheckDelete(q, c)
       PROVE  ShownIsOwn' /\ PercentageFresh'
  <2> DEFINE i == itc[c]
  <2>1. /\ Ready(q) /\ Send(q, "testing", i) /\ checks' = checks \ {c}
        /\ itc' = [itc EXCEPT ![c] = None] /\ done' = done \ {c}
        /\ itcs' = itcs /\ percentage' = percentage /\ itc_status' = itc_status
    BY <1>10 DEF CheckDelete, derived
  <2>2. \A d \in checks \ {c} : itc'[d] = itc[d]
    BY <2>1 DEF TypeOK
  <2>3. ASSUME NEW j, j # i PROVE Spared(j)
    <3>1. c \notin ChecksOf(j) BY <2>3 DEF ChecksOf
    <3>2. ChecksOf(j)' = ChecksOf(j) BY <2>1, <2>2, <3>1 DEF ChecksOf
    <3>3. DoneOf(j)' = DoneOf(j) BY <2>1, <3>1, <3>2 DEF DoneOf
    <3> QED BY <3>2, <3>3 DEF Spared
  <2> HIDE DEF i
  <2>4. ShownIsOwn'
    BY <2>1, <2>2, FormGone, ShownKept
  <2>5. \A j \in Itc : Settled(j)' => Settled(j) /\ j # i
    BY <2>1, SendUnsettles
  <2> QED BY <2>1, <2>3, <2>4, <2>5, OthersStayFresh
<1>11. ASSUME NEW q \in Session, NEW i \in Itc, NEW st \in Status, ItcEdit(q, i, st)
       PROVE  ShownIsOwn' /\ PercentageFresh'
  <2>1. /\ Ready(q) /\ Send(q, "list", i) /\ checks' = checks /\ itc' = itc /\ done' = done
        /\ itcs' = itcs /\ percentage' = percentage
        /\ \A j \in itcs \ {i} : itc_status'[j] = itc_status[j]
    BY <1>11, <1>0 DEF ItcEdit, rows, TypeOK
  <2>2. \A j : Spared(j)
    BY <2>1 DEF Spared, ChecksOf, DoneOf
  <2>3. ShownIsOwn'
    BY <2>1, FormGone, ShownKept
  <2>4. \A j \in Itc : Settled(j)' => Settled(j) /\ j # i
    BY <2>1, SendUnsettles
  <2> QED BY <2>1, <2>2, <2>3, <2>4, OthersStayFresh
<1>12. ASSUME NEW i \in Itc, ItcDelete(i) PROVE ShownIsOwn' /\ PercentageFresh'
  <2>1. DeleteRows(ChecksOf(i)) /\ itcs' = itcs \ {i} /\ stale' = stale \ {i}
    BY <1>12 DEF ItcDelete
  <2>2. /\ page' = [q \in Session |-> IF page[q].itc = i THEN NoPage ELSE page[q]]
        /\ redirect' = [q \in Session |->
                          IF redirect[q].itc = i THEN Nowhere ELSE redirect[q]]
    BY <1>12 DEF ItcDelete
  <2>3. ChecksOf(i) \in SUBSET checks
    BY DEF ChecksOf
  <2>4. /\ \A c \in checks' : c \in checks /\ itc'[c] = itc[c]
        /\ \A j : ChecksOf(j) \cap ChecksOf(i) = {} => Spared(j)
    BY <2>1, <2>3, DeleteRowsSpares
  <2>5. \A j : j # i => Spared(j)
    <3>1. \A j : j # i => ChecksOf(j) \cap ChecksOf(i) = {} BY DEF ChecksOf
    <3> QED BY <2>4, <3>1
  <2>6. ShownIsOwn'
    BY <2>2, <2>4 DEF ShownIsOwn, NoPage
  <2>7. ASSUME NEW j \in itcs', Settled(j)'
        PROVE  /\ j \in itcs /\ Settled(j) /\ Spared(j)
               /\ percentage'[j] = percentage[j] /\ itc_status'[j] = itc_status[j]
    <3>1. j \in itcs /\ j # i /\ j \in Itc
      BY <1>0, <2>1
    <3>2. Settled(j)
      BY <2>1, <2>2, <2>7, <3>1 DEF Settled
    <3>3. percentage'[j] = percentage[j] /\ itc_status'[j] = itc_status[j]
      BY <1>12, <3>1 DEF ItcDelete, TypeOK
    <3> QED BY <2>5, <3>1, <3>2, <3>3
  <2> QED BY <2>6, <2>7, SettledStayFresh
<1>13. ASSUME NEW t \in ItcCheckId, ItcCheckNew(t) PROVE ShownIsOwn' /\ PercentageFresh'
  <2>1. ShownIsOwn'
    BY <1>13 DEF ItcCheckNew, rows, ShownIsOwn
  <2>2. \A j : Spared(j) /\ (Settled(j)' => Settled(j))
    BY <1>13 DEF ItcCheckNew, rows, Spared, ChecksOf, DoneOf, Settled
  <2>3. itcs' = itcs /\ percentage' = percentage /\ itc_status' = itc_status
    BY <1>13 DEF ItcCheckNew, derived
  <2> QED BY <2>1, <2>2, <2>3, SettledStayFresh
<1>14. ASSUME NEW t \in ItcCheckId, ItcCheckDelete(t)
       PROVE  ShownIsOwn' /\ PercentageFresh'
  <2> DEFINE gone == {c \in checks : ITC_check[c] = t}
  <2>1. /\ itcs' = itcs /\ percentage' = percentage /\ itc_status' = itc_status
        /\ DeleteRows(gone) /\ page' = page /\ redirect' = redirect
        /\ stale' = stale \cup {itc[c] : c \in gone}
    BY <1>14 DEF ItcCheckDelete, derived
  <2>2. gone \in SUBSET checks
    OBVIOUS
  <2> HIDE DEF gone
  <2>3. /\ \A c \in checks' : c \in checks /\ itc'[c] = itc[c]
        /\ \A j : ChecksOf(j) \cap gone = {} => Spared(j)
    BY <2>1, <2>2, DeleteRowsSpares
  <2>4. ShownIsOwn'
    BY <2>1, <2>3 DEF ShownIsOwn
  <2>5. \A j : Settled(j)' => Settled(j) /\ ChecksOf(j) \cap gone = {}
    BY <2>1 DEF Settled, ChecksOf
  <2> QED BY <2>1, <2>3, <2>4, <2>5, SettledStayFresh
<1>15. ASSUME NEW T \in SUBSET ItcCheckId, GenericCheckDelete(T)
       PROVE  ShownIsOwn' /\ PercentageFresh'
  <2>1. ShownIsOwn'
    BY <1>15 DEF GenericCheckDelete, ShownIsOwn
  <2>2. \A j : Spared(j) /\ (Settled(j)' => Settled(j))
    BY <1>15 DEF GenericCheckDelete, Spared, ChecksOf, DoneOf, Settled
  <2>3. itcs' = itcs /\ percentage' = percentage /\ itc_status' = itc_status
    BY <1>15 DEF GenericCheckDelete, derived
  <2> QED BY <2>1, <2>2, <2>3, SettledStayFresh
<1> QED BY <1>1, <1>2, <1>3, <1>4, <1>5, <1>6, <1>7, <1>8, <1>9, <1>10, <1>11,
           <1>12, <1>13, <1>14, <1>15 DEF Next

\* Once the redirects are followed, the percentage and the status on the page
\* are those of the checks, whichever old forms have been saved in between and
\* whatever has happened to the templates, except where a save has failed or
\* ITC_check_general_delete has taken a check away since the last look.
THEOREM PercentageFreshHolds == Spec => []PercentageFresh
<1>1. Init => FreshInv
  BY DEF Init, FreshInv, ShownIsOwn, PercentageFresh, NoPage
<1>2. FreshInv => PercentageFresh
  BY DEF FreshInv
<1> QED BY <1>1, <1>2, FreshInductive, TypeCorrect, PTL DEF Spec

-----------------------------------------------------------------------------
(***************************************************************************)
(* Numbers.                                                                *)
(***************************************************************************)

LEMMA SameNumbers ==
  ASSUME NEW j, Numbered(j), ChecksOf(j)' = ChecksOf(j),
         \A c \in ChecksOf(j) : number'[c] = number[c]
  PROVE  Numbered(j)'
BY DEF Numbered

\* New checks are numbered from 1, and the numbers of other checklists stay.
LEMMA GenerateNumbers ==
  ASSUME TypeOK, NEW q \in Session, NEW i \in Itc, NEW old \in SUBSET ChecksOf(i),
         Generate(q, i, old)
  PROVE  /\ \A j : j # i /\ Numbered(j) => Numbered(j)'
         /\ old = ChecksOf(i) => Numbered(i)'
<1>1. PICK new \in SUBSET Fresh(q, old) :
        /\ \E f \in [new -> 1 .. Cardinality(new)] :
             /\ \A c, d \in new : f[c] = f[d] => c = d
             /\ number' = [c \in CheckId |-> IF c \in new THEN f[c]
                                             ELSE IF c \in old THEN 0 ELSE number[c]]
        /\ checks' = (checks \ old) \cup new
        /\ itc' = [c \in CheckId |-> IF c \in new THEN i
                                     ELSE IF c \in old THEN None ELSE itc[c]]
        /\ done' = done \ old
        /\ status' = [c \in CheckId |-> IF c \in old THEN "Not Started" ELSE status[c]]
        /\ by' = [c \in CheckId |-> IF c \in old THEN None ELSE by[c]]
  BY Zenon DEF Generate
<1>2. PICK f \in [new -> 1 .. Cardinality(new)] :
        /\ \A c, d \in new : f[c] = f[d] => c = d
        /\ number' = [c \in CheckId |-> IF c \in new THEN f[c]
                                        ELSE IF c \in old THEN 0 ELSE number[c]]
  BY <1>1
<1>3. new \subseteq CheckId /\ new \cap (checks \ old) = {}
  BY DEF Fresh
<1>4. ASSUME NEW j, j # i, Numbered(j) PROVE Numbered(j)'
  <2>1. ChecksOf(j)' = ChecksOf(j)
    BY <1>4, GenerateSpares DEF Spared
  <2>2. \A c \in ChecksOf(j) : c \in CheckId /\ c \notin new /\ c \notin old
    BY <1>3, <1>4 DEF ChecksOf, TypeOK
  <2>3. \A c \in ChecksOf(j) : number'[c] = number[c]
    BY <1>2, <2>2
  <2> QED BY <1>4, <2>1, <2>3, SameNumbers
<1>5. ASSUME old = ChecksOf(i) PROVE Numbered(i)'
  <2>1. ChecksOf(i)' = new
    <3>1. \A c \in new : c \in checks' /\ itc'[c] = i
      BY <1>1, <1>3
    <3>2. \A c \in checks' \ new : itc'[c] # i
      BY <1>1, <1>5 DEF ChecksOf, TypeOK
    <3>3. new \subseteq checks'
      BY <1>1
    <3> QED BY <3>1, <3>2, <3>3 DEF ChecksOf
  <2>2. \A c \in new : number'[c] = f[c]
    BY <1>2, <1>3
  <2>3. \A c \in new : number'[c] \in 1 .. Cardinality(new)
    BY <1>1, <2>2
  <2> QED BY <1>2, <2>1, <2>2, <2>3 DEF Numbered
<1> QED BY <1>4, <1>5

\* Moving a check towards the front or to the end keeps the numbers.
LEMMA RenumberKeeps ==
  ASSUME TypeOK, NEW c \in checks, NEW n \in Nat, Numbered(itc[c]), MovesWithin(c, n),
         number' = Renumber(c, n), UNCHANGED <<checks, itc>>
  PROVE  Numbered(itc[c])'
<1> DEFINE P == ChecksOf(itc[c])
           counts == Cardinality(P)
<1>1. ChecksOf(itc[c])' = P
  BY DEF ChecksOf
<1>2. counts \in Nat
  BY CheckPercentRange
<1>3. /\ \A d \in P : d \in CheckId /\ number[d] \in 1 .. counts
      /\ \A d, e \in P : number[d] = number[e] => d = e
      /\ c \in P /\ c \in CheckId
  BY DEF Numbered, ChecksOf, TypeOK
<1>4. n >= 1 /\ (n <= number[c] \/ n >= counts)
  BY DEF MovesWithin
<1>5. CASE n = number[c]
  BY <1>1, <1>5, SameNumbers DEF Renumber
<1>6. CASE n # number[c]
  <2>1. number' =
          [d \in CheckId |->
             IF d = c THEN IF n >= counts THEN counts ELSE n
             ELSE IF d \in P /\ n >= counts /\ number[d] > number[c] THEN number[d] - 1
             ELSE IF d \in P /\ n < counts /\ number[d] >= n /\ number[d] < number[c]
                  THEN number[d] + 1
             ELSE number[d]]
    BY <1>6 DEF Renumber
  <2> HIDE DEF P, counts
  <2>2. \A d \in P :
          number'[d] =
             IF d = c THEN IF n >= counts THEN counts ELSE n
             ELSE IF n >= counts /\ number[d] > number[c] THEN number[d] - 1
             ELSE IF n < counts /\ number[d] >= n /\ number[d] < number[c]
                  THEN number[d] + 1
             ELSE number[d]
    BY <2>1, <1>3
  <2>3. \A d \in P : number'[d] \in 1 .. counts
    BY <2>2, <1>2, <1>3, <1>4
  <2>4. ASSUME NEW d \in P, NEW e \in P, number'[d] = number'[e] PROVE d = e
    <3>1. number[d] # number[c] \/ d = c
      BY <1>3
    <3>2. number[e] # number[c] \/ e = c
      BY <1>3
    <3>3. number[d] # number[e] \/ d = e
      BY <1>3
    <3>4. CASE n >= counts
      BY <2>2, <2>4, <3>1, <3>2, <3>3, <3>4, <1>2, <1>3
    <3>5. CASE n < counts
      BY <2>2, <2>4, <3>1, <3>2, <3>3, <3>5, <1>2, <1>3, <1>4
    <3> QED BY <3>4, <3>5, <1>2
  <2>5. \A d \in ChecksOf(itc[c])' : number'[d] \in 1 .. Cardinality(ChecksOf(itc[c])')
    BY <1>1, <2>3 DEF counts
  <2>6. \A d, e \in ChecksOf(itc[c])' : number'[d] = number'[e] => d = e
    BY <1>1, <2>4
  <2>7. itc'[c] = itc[c]
    OBVIOUS
  <2> QED BY <2>5, <2>6, <2>7 DEF Numbered
<1> QED BY <1>5, <1>6

\* Deleting a check closes the gap it leaves.
LEMMA DeleteKeepsNumbers ==
  ASSUME TypeOK, NEW q, NEW c \in checks, CheckDelete(q, c), NEW i, i = itc[c], Numbered(i)
  PROVE  Numbered(i)'
<1> DEFINE P == ChecksOf(i)
           counts == Cardinality(P)
<1>0. c \in P /\ P \subseteq CheckId
  BY DEF ChecksOf, TypeOK
<1>1. ChecksOf(i)' = P \ {c}
  <2>1. checks' = checks \ {c} /\ itc' = [itc EXCEPT ![c] = None]
    BY DEF CheckDelete
  <2>2. \A d \in checks \ {c} : itc'[d] = itc[d]
    BY <2>1 DEF TypeOK
  <2> QED BY <2>1, <2>2 DEF ChecksOf
<1>2. counts \in Nat /\ Cardinality(P \ {c}) = counts - 1
  BY <1>0, CheckPercentRange, FS_RemoveElement
<1>3. /\ \A d \in P : number[d] \in 1 .. counts
      /\ \A d, e \in P : number[d] = number[e] => d = e
  BY DEF Numbered
<1>4. number' = [d \in CheckId |->
         IF d = c THEN 0
         ELSE IF d \in P /\ number[c] < counts /\ number[d] > number[c]
              THEN number[d] - 1 ELSE number[d]]
  BY DEF CheckDelete
<1> HIDE DEF P, counts
<1>5. \A d \in P \ {c} :
        number'[d] = IF number[c] < counts /\ number[d] > number[c]
                     THEN number[d] - 1 ELSE number[d]
  BY <1>0, <1>4
<1>6. \A d \in P \ {c} : number[d] # number[c]
  BY <1>0, <1>3
<1>7. \A d \in P \ {c} : number'[d] \in 1 .. counts - 1
  BY <1>0, <1>2, <1>3, <1>5, <1>6
<1>8. ASSUME NEW d \in P \ {c}, NEW e \in P \ {c}, number'[d] = number'[e] PROVE d = e
  <2>1. number[d] # number[e] \/ d = e
    BY <1>3
  <2> QED BY <2>1, <1>0, <1>2, <1>3, <1>5, <1>6, <1>8
<1>9. \A d \in ChecksOf(i)' : number'[d] \in 1 .. Cardinality(ChecksOf(i)')
  BY <1>1, <1>2, <1>7
<1>10. \A d, e \in ChecksOf(i)' : number'[d] = number'[e] => d = e
  BY <1>1, <1>8
<1> QED BY <1>9, <1>10 DEF Numbered

\* A template check whose check is the last of i, if it has one, can be deleted.
LEMMA LastGoneKeepsNumbers ==
  ASSUME TypeOK, NEW i, Numbered(i), NEW S \in SUBSET checks, DeleteRows(S),
         \A c \in ChecksOf(i) \cap S : ~(number[c] < Cardinality(ChecksOf(i)))
  PROVE  Numbered(i)'
<1> DEFINE P == ChecksOf(i)
           counts == Cardinality(P)
<1>1. ChecksOf(i)' = P \ S /\ \A c \in P \ S : number'[c] = number[c]
  BY DeleteRowsSpares DEF ChecksOf
<1>2. IsFiniteSet(P) /\ counts \in Nat
  BY CheckPercentRange
<1>3. /\ \A c \in P : number[c] \in 1 .. counts
      /\ \A c, d \in P : number[c] = number[d] => c = d
  BY DEF Numbered
<1>4. \A c \in P \cap S : ~(number[c] < counts)
  OBVIOUS
<1> HIDE DEF P, counts
<1>5. CASE P \cap S = {}
  <2>1. P \ S = P BY <1>5
  <2> QED BY <1>1, <1>3, <2>1 DEF Numbered, counts
<1>6. ASSUME NEW c \in P \cap S PROVE Numbered(i)'
  <2>1. number[c] = counts
    BY <1>2, <1>3, <1>4
  <2>2. \A d \in P \cap S : d = c
    BY <1>2, <1>3, <1>4, <2>1
  <2>3. P \ S = P \ {c}
    BY <2>2
  <2>4. Cardinality(P \ {c}) = counts - 1
    BY <1>2, FS_RemoveElement DEF counts
  <2>5. \A d \in P \ {c} : number[d] \in 1 .. counts - 1
    BY <1>2, <1>3, <2>1
  <2>6. \A d \in P \ {c} : number'[d] \in 1 .. Cardinality(P \ {c})
    BY <1>1, <2>3, <2>4, <2>5
  <2>7. \A d, e \in P \ {c} : number'[d] = number'[e] => d = e
    BY <1>1, <1>3, <2>3
  <2> QED BY <1>1, <2>3, <2>6, <2>7 DEF Numbered
<1> QED BY <1>5, <1>6

LEMMA NumberingStep ==
  ASSUME TypeOK, Next, NEW i \in itcs, Numbered(i)
  PROVE  Numbered(i)' \/ Misnumbers(i)
<1>0. i \in Itc
  BY DEF TypeOK
<1>1. ASSUME checks' = checks, itc' = itc, number' = number PROVE Numbered(i)'
  BY <1>1, SameNumbers DEF ChecksOf
<1>2. ASSUME NEW q \in Session, NEW j \in Itc, AddItc(q, j) PROVE Numbered(i)'
  <2>1. i # j /\ Generate(q, j, {})
    BY <1>2 DEF AddItc
  <2>2. {} \in SUBSET ChecksOf(j)
    OBVIOUS
  <2> QED BY <2>1, <2>2, GenerateNumbers
<1>3. ASSUME NEW q \in Session, NEW j \in Itc, StartTesting(q, j) PROVE Numbered(i)'
  <2>1. Generate(q, j, ChecksOf(j))
    BY <1>3 DEF StartTesting
  <2> QED BY <2>1, GenerateNumbers
<1>4. ASSUME NEW q \in Session, NEW j \in Itc, ViewTesting(q, j) PROVE Numbered(i)'
  BY <1>1, <1>4 DEF ViewTesting, rows
<1>5. ASSUME NEW q \in Session, NEW p \in Itp, ViewList(q, p) PROVE Numbered(i)'
  BY <1>1, <1>5 DEF ViewList, rows
<1>6. ASSUME NEW q \in Session, NEW j \in Itc, CompleteAllChecks(q, j) PROVE Numbered(i)'
  BY <1>1, <1>6 DEF CompleteAllChecks, Complete
<1>7. ASSUME NEW q \in Session, NEW T \in SUBSET page[q].shown, Save(q, T)
      PROVE  Numbered(i)'
  BY <1>1, <1>7 DEF Save, Complete
<1>8. ASSUME NEW q \in Session, NEW T \in SUBSET page[q].shown, NEW S \in SUBSET T,
             SaveMissing(q, T, S)
      PROVE  Numbered(i)'
  BY <1>1, <1>8 DEF SaveMissing, Complete
<1>9. ASSUME NEW q \in Session, NEW c \in page[q].shown, NEW st \in Status,
             NEW n \in 0 .. MaxNumber, CheckEdit(q, c, st, n)
      PROVE  Numbered(i)' \/ Misnumbers(i)
  <2>1. c \in checks /\ number' = Renumber(c, n) /\ checks' = checks /\ itc' = itc
    BY <1>9 DEF CheckEdit
  <2>2. n \in Nat
    BY ChecklistAssumption
  <2>3. CASE itc[c] # i
    <3>1. \A d \in ChecksOf(i) : d \in CheckId /\ d # c /\ d \notin ChecksOf(itc[c])
      BY <2>3 DEF ChecksOf, TypeOK
    <3>2. \A d \in ChecksOf(i) : number'[d] = number[d]
      BY <2>1, <3>1 DEF Renumber
    <3> QED BY <2>1, <3>2, SameNumbers DEF ChecksOf
  <2>4. CASE itc[c] = i /\ MovesWithin(c, n)
    BY <2>1, <2>2, <2>4, RenumberKeeps
  <2>5. CASE itc[c] = i /\ ~MovesWithin(c, n)
    <3>1. c \in page[q].shown \cap ChecksOf(i)
      BY <2>1, <2>5 DEF ChecksOf
    <3> QED BY <1>9, <2>5, <3>1 DEF Misnumbers
  <2> QED BY <2>3, <2>4, <2>5
<1>10. ASSUME NEW q \in Session, NEW c \in page[q].shown, CheckDelete(q, c)
       PROVE  Numbered(i)'
  <2>1. c \in checks
    BY <1>10 DEF CheckDelete
  <2>2. CASE itc[c] = i
    BY <1>10, <2>1, <2>2, DeleteKeepsNumbers
  <2>3. CASE itc[c] # i
    <3>1. \A d \in ChecksOf(i) : d \in CheckId /\ d # c /\ d \notin ChecksOf(itc[c])
      BY <2>3 DEF ChecksOf, TypeOK
    <3>2. \A d \in ChecksOf(i) : number'[d] = number[d]
      BY <1>10, <3>1 DEF CheckDelete
    <3>3. ChecksOf(i)' = ChecksOf(i)
      <4>1. checks' = checks \ {c} /\ itc' = [itc EXCEPT ![c] = None]
        BY <1>10 DEF CheckDelete
      <4>2. \A d \in checks \ {c} : itc'[d] = itc[d]
        BY <4>1 DEF TypeOK
      <4> QED BY <2>3, <4>1, <4>2 DEF ChecksOf
    <3> QED BY <3>2, <3>3, SameNumbers
  <2> QED BY <2>2, <2>3
<1>11. ASSUME NEW q \in Session, NEW j \in Itc, NEW st \in Status, ItcEdit(q, j, st)
       PROVE  Numbered(i)'
  BY <1>1, <1>11 DEF ItcEdit, rows
<1>12. ASSUME NEW j \in Itc, ItcDelete(j) PROVE Numbered(i)'
  <2>1. DeleteRows(ChecksOf(j)) /\ ChecksOf(j) \in SUBSET checks
    BY <1>12 DEF ItcDelete, ChecksOf
  <2>2. CASE i = j
    <3>1. ChecksOf(i)' = {}
      BY <2>1, <2>2, DeleteRowsSpares
    <3> QED BY <3>1 DEF Numbered
  <2>3. CASE i # j
    <3>1. ChecksOf(i) \cap ChecksOf(j) = {}
      BY <2>3 DEF ChecksOf
    <3> QED BY <2>1, <3>1, LastGoneKeepsNumbers
  <2> QED BY <2>2, <2>3
<1>13. ASSUME NEW t \in ItcCheckId, ItcCheckNew(t) PROVE Numbered(i)'
  BY <1>1, <1>13 DEF ItcCheckNew, rows
<1>14. ASSUME NEW t \in ItcCheckId, ItcCheckDelete(t) PROVE Numbered(i)' \/ Misnumbers(i)
  <2> DEFINE gone == {c \in checks : ITC_check[c] = t}
  <2>1. DeleteRows(gone) /\ gone \in SUBSET checks
    BY <1>14 DEF ItcCheckDelete
  <2>2. CASE \E c \in ChecksOf(i) : ITC_check[c] = t /\ number[c] < Cardinality(ChecksOf(i))
    BY <1>14, <2>2 DEF Misnumbers
  <2>3. CASE \A c \in ChecksOf(i) \cap gone : ~(number[c] < Cardinality(ChecksOf(i)))
    <3> HIDE DEF gone
    <3> QED BY <2>1, <2>3, LastGoneKeepsNumbers
  <2> QED BY <2>2, <2>3
<1>15. ASSUME NEW T \in SUBSET ItcCheckId, GenericCheckDelete(T) PROVE Numbered(i)'
  BY <1>1, <1>15 DEF GenericCheckDelete
<1> QED BY <1>2, <1>3, <1>4, <1>5, <1>6, <1>7, <1>8, <1>9, <1>10, <1>11,
           <1>12, <1>13, <1>14, <1>15 DEF Next

\* Whatever is generated, edited and deleted, the checks of a checklist stay
\* numbered 1, 2, 3 ..., except after one of the requests of Misnumbers: a check
\* moved backwards and not to the end, or to 0, and ITC_check_general_delete for a
\* check that is not the last.
THEOREM NumberingKeptHolds == Spec => NumberingKept
<1>1. TypeOK /\ [Next]_vars =>
        [\A i \in itcs : Numbered(i) => Numbered(i)' \/ Misnumbers(i)]_vars
  BY NumberingStep
<1> QED BY <1>1, TypeCorrect, PTL DEF Spec, NumberingKept
=============================================================================
