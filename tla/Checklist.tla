------------------------------ MODULE Checklist -----------------------------
(***************************************************************************)
(* Commissioning: the inspection and test checklists (ITCs) of the         *)
(* deliverables of a project, and the percentages the pages derive from    *)
(* them.  Requests do not overlap here; what overlaps is the page a        *)
(* browser window shows, which may be older than the database when its     *)
(* form is saved, and the redirect a handler ends with, which the window   *)
(* follows in a request of its own.                                        *)
(*                                                                         *)
(* A test plan (ITP) has one deliverable.  The id of a deleted check is    *)
(* used again once no window shows it.  The checks of a checklist are made *)
(* from those of its template, which others change in the meantime.        *)
(***************************************************************************)
EXTENDS Naturals, FiniteSets

CONSTANTS
  Itp,            \* the test plans of the project
  FirstItp,       \* the one ITP.query.filter_by(project_id).first() returns
  Itc,            \* checklists that can be added to their deliverables
  ItpOf,          \* checklist -> the plan of its deliverable
  Template,       \* rows of ITC, the templates
  TemplateOf,     \* checklist -> its template
  ItcCheckId,     \* primary keys of ITC_check_map, the checks of templates
  OwnerOf,        \* template check -> its template
  CheckId,        \* primary keys of Deliverable_check_map
  Session,        \* browser windows
  User, UserOf,   \* the users, and who is logged in in a window
  MaxNumber,      \* bound: the largest check number typed into a form
  None

ASSUME ChecklistAssumption ==
  /\ FirstItp \in Itp
  /\ ItpOf \in [Itc -> Itp]
  /\ TemplateOf \in [Itc -> Template]
  /\ OwnerOf \in [ItcCheckId -> Template]
  /\ UserOf \in [Session -> User]
  /\ MaxNumber \in Nat
  /\ None \notin Itc \cup User \cup ItcCheckId
  /\ IsFiniteSet(ItcCheckId)
  /\ IsFiniteSet(CheckId)
  /\ IsFiniteSet(Itc)

VARIABLES
  template_checks,    \* rows of ITC_check_map
  itcs,               \* rows of Deliverable_ITC_map
  percentage,         \* checklist -> percentage_complete
  itc_status,         \* checklist -> status
  checks,             \* rows of Deliverable_check_map
  itc, ITC_check,     \* check -> its checklist, the template check it is made from
  number,             \* check -> check_number
  done, status, by,   \* is_done, status, completion_by_user_id
  itp_percentage,     \* plan -> ITP.percentage_complete
  page,               \* window -> the form it shows
  redirect,           \* window -> the page it has been sent to
  stale               \* checklists whose last save ended in an error page, or
                      \* that have lost a check with its template check, as
                      \* long as nobody has looked at them since

rows == <<checks, itc, ITC_check, number, done, status, by>>
derived == <<percentage, itc_status>>
vars == <<template_checks, itcs, derived, rows, itp_percentage, page, redirect, stale>>

\* No handler tells Not Applicable, which a form also offers, from In Progress.
Status == {"Not Started", "In Progress", "Completed"}

NoPage == [itc |-> None, shown |-> {}]
Nowhere == [to |-> "nowhere", itc |-> None]

ChecksOf(i) == {c \in checks : itc[c] = i}
DoneOf(i) == ChecksOf(i) \cap done

\* An integer column stores a quotient rounded.
Percent(m, n) == IF n = 0 THEN 0 ELSE (200 * m + n) \div (2 * n)

TypeOK ==
  /\ template_checks \subseteq ItcCheckId
  /\ itcs \subseteq Itc
  /\ percentage \in [Itc -> 0 .. 100]
  /\ itc_status \in [Itc -> Status]
  /\ checks \subseteq CheckId
  /\ itc \in [CheckId -> Itc \cup {None}]
  /\ ITC_check \in [CheckId -> template_checks \cup {None}]
  /\ \A c \in checks : itc[c] \in itcs
  /\ \A c \in CheckId \ checks : ITC_check[c] = None
  /\ number \in [CheckId -> Nat]
  /\ done \subseteq checks
  /\ status \in [CheckId -> Status]
  /\ by \in [CheckId -> User \cup {None}]
  /\ itp_percentage \in [Itp -> 0 .. 100]
  /\ page \in [Session -> [itc : Itc \cup {None}, shown : SUBSET CheckId]]
  /\ redirect \in [Session -> [to : {"nowhere", "testing", "list"}, itc : Itc \cup {None}]]
  /\ \A q \in Session :
       /\ page[q].itc # None => page[q].itc \in itcs
       /\ redirect[q] # Nowhere => redirect[q].itc \in itcs
  /\ stale \subseteq itcs

Init ==
  /\ template_checks = {}
  /\ itcs = {}
  /\ percentage = [i \in Itc |-> 0]
  /\ itc_status = [i \in Itc |-> "Not Started"]
  /\ checks = {}
  /\ itc = [c \in CheckId |-> None]
  /\ ITC_check = [c \in CheckId |-> None]
  /\ number = [c \in CheckId |-> 0]
  /\ done = {}
  /\ status = [c \in CheckId |-> "Not Started"]
  /\ by = [c \in CheckId |-> None]
  /\ itp_percentage = [p \in Itp |-> 0]
  /\ page = [q \in Session |-> NoPage]
  /\ redirect = [q \in Session |-> Nowhere]
  /\ stale = {}

-----------------------------------------------------------------------------
Ready(q) == redirect[q] = Nowhere

\* The handler ends with a redirect to the checklist i, or to the list it is on.
Send(q, to, i) ==
  /\ redirect' = [redirect EXCEPT ![q] = [to |-> to, itc |-> i]]
  /\ page' = [page EXCEPT ![q] = NoPage]
  /\ UNCHANGED stale

\* The handler raises after it has committed checks of i.
Fail(q, i) ==
  /\ page' = [page EXCEPT ![q] = NoPage]
  /\ stale' = stale \cup {i}
  /\ UNCHANGED redirect

\* Ids that the window q can be given for new rows when those of old are deleted.
Fresh(q, old) ==
  CheckId \ ((checks \ old) \cup UNION {page[w].shown : w \in Session \ {q}})

\* ITC_check_map.query.filter_by(ITC_id=deliver_ITC.ITC_id)
TemplateChecks(i) == {t \in template_checks : OwnerOf[t] = TemplateOf[i]}

\* The rows of old give way to one row for each check of the template of i,
\* numbered from 1 in the order the query returns them.
Generate(q, i, old) ==
  \E new \in SUBSET Fresh(q, old) :
    /\ Cardinality(new) = Cardinality(TemplateChecks(i))
    /\ \E f \in [new -> 1 .. Cardinality(new)] :
         /\ \A c, d \in new : f[c] = f[d] => c = d
         /\ number' = [c \in CheckId |-> IF c \in new THEN f[c]
                                         ELSE IF c \in old THEN 0 ELSE number[c]]
    /\ \E of \in [new -> TemplateChecks(i)] :
         /\ \A c, d \in new : of[c] = of[d] => c = d
         /\ ITC_check' = [c \in CheckId |-> IF c \in new THEN of[c]
                                            ELSE IF c \in old THEN None ELSE ITC_check[c]]
    /\ checks' = (checks \ old) \cup new
    /\ itc' = [c \in CheckId |-> IF c \in new THEN i
                                 ELSE IF c \in old THEN None ELSE itc[c]]
    /\ done' = done \ old
    /\ status' = [c \in CheckId |-> IF c \in old THEN "Not Started" ELSE status[c]]
    /\ by' = [c \in CheckId |-> IF c \in old THEN None ELSE by[c]]
    /\ UNCHANGED template_checks

\* Mutant of AddItc: the row of the checklist is not added.
AddItcUnsaved(q, i) ==
  /\ Ready(q)
  /\ i \notin itcs
  /\ Generate(q, i, {})
  /\ Send(q, "list", i)
  /\ UNCHANGED <<itcs, derived, itp_percentage>>

\* site_project_ITP_deliverable_ITC_add, and the loop body of
\* site_project_ITP_deliverable_new, for one checklist.
AddItc(q, i) ==
  /\ Ready(q)
  /\ i \notin itcs
  /\ itcs' = itcs \cup {i}
  /\ Generate(q, i, {})
  /\ Send(q, "list", i)
  /\ UNCHANGED <<derived, itp_percentage>>

\* start_ITC_testing
StartTesting(q, i) ==
  /\ Ready(q)
  /\ i \in itcs
  /\ Generate(q, i, ChecksOf(i))
  /\ itc_status' = [itc_status EXCEPT ![i] = "In Progress"]
  /\ Send(q, "testing", i)
  /\ UNCHANGED <<itcs, percentage, itp_percentage>>

-----------------------------------------------------------------------------
(***************************************************************************)
(* The pages that derive percentages and states from the checks.           *)
(***************************************************************************)
IsFull(i) == ChecksOf(i) # {} /\ ChecksOf(i) \subseteq done
CheckPercent(i) == Percent(Cardinality(DoneOf(i)), Cardinality(ChecksOf(i)))

\* The pages and the save handler read the text of a check through the template
\* check it is made from.
HasText(c) == ITC_check[c] # None

\* ITC_testing.  A checklist with nothing done keeps its status.  The numbers are
\* committed before the page is rendered, which fails over a check without text.
ViewTesting(q, i) ==
  /\ redirect[q] \in {Nowhere, [to |-> "testing", itc |-> i]}
  /\ i \in itcs
  /\ percentage' = [percentage EXCEPT ![i] = CheckPercent(i)]
  /\ itc_status' = [itc_status EXCEPT ![i] =
       IF IsFull(i) THEN "Completed" ELSE IF DoneOf(i) # {} THEN "In Progress" ELSE @]
  /\ page' = [page EXCEPT ![q] = IF \A c \in ChecksOf(i) : HasText(c)
                                 THEN [itc |-> i, shown |-> ChecksOf(i)] ELSE NoPage]
  /\ redirect' = [redirect EXCEPT ![q] = Nowhere]
  /\ stale' = stale \ {i}
  /\ UNCHANGED <<template_checks, itcs, rows, itp_percentage>>

\* site_project_ITP_deliverable_ITC_list
ViewList(q, p) ==
  LET listed == {i \in itcs : ItpOf[i] = p} IN
  /\ Ready(q) \/ \E i \in listed : redirect[q] = [to |-> "list", itc |-> i]
  /\ percentage' = [i \in Itc |-> IF i \in listed THEN CheckPercent(i) ELSE percentage[i]]
  /\ itc_status' = [i \in Itc |->
       IF i \in listed /\ IsFull(i) THEN "Completed"
       ELSE IF i \in listed /\ itc_status[i] = "Completed" THEN "In Progress"
       ELSE itc_status[i]]
  /\ page' = [page EXCEPT ![q] = NoPage]
  /\ redirect' = [redirect EXCEPT ![q] = Nowhere]
  /\ stale' = stale \ listed
  /\ UNCHANGED <<template_checks, itcs, rows, itp_percentage>>

-----------------------------------------------------------------------------
(***************************************************************************)
(* Completing checks.                                                      *)
(***************************************************************************)
FirstItcs == {i \in itcs : ItpOf[i] = FirstItp}

\* site_project_update, and the redirect of the handler that has called it: the
\* first plan of the project gets the share of the checklists whose stored
\* percentage is 100.  A plan without checklists makes it divide by zero.
UpdateProject(q, to, i) ==
  IF FirstItcs = {}
  THEN Fail(q, i) /\ UNCHANGED itp_percentage
  ELSE /\ itp_percentage' = [itp_percentage EXCEPT ![FirstItp] =
            Percent(Cardinality({j \in FirstItcs : percentage[j] = 100}),
                    Cardinality(FirstItcs))]
       /\ Send(q, to, i)

\* The checks of S are completed by u, those of R are taken back.
Complete(u, S, R) ==
  /\ done' = (done \ R) \cup S
  /\ status' = [c \in CheckId |-> IF c \in S \ done THEN "Completed"
                                  ELSE IF c \in R THEN "In Progress" ELSE status[c]]
  /\ by' = [c \in CheckId |-> IF c \in S \ done THEN u
                              ELSE IF c \in R THEN None ELSE by[c]]
  /\ UNCHANGED <<template_checks, checks, itc, ITC_check, number>>

\* The boxes that a save can find the check of, and print its text.
Readable == {c \in checks : HasText(c)}

\* Mutant of Save: what is not ticked keeps its user.
SaveKeepsUser(q, T) ==
  LET i == page[q].itc
      R == DoneOf(i) \ T
  IN
  /\ Ready(q)
  /\ i # None
  /\ T \subseteq page[q].shown \cap Readable
  /\ done' = (done \ R) \cup T
  /\ status' = [c \in CheckId |-> IF c \in T \ done THEN "Completed"
                                  ELSE IF c \in R THEN "In Progress" ELSE status[c]]
  /\ by' = [c \in CheckId |-> IF c \in T \ done THEN UserOf[q] ELSE by[c]]
  /\ UpdateProject(q, "testing", i)
  /\ UNCHANGED <<template_checks, itcs, derived, checks, itc, ITC_check, number>>

\* site_project_ITP_deliverable_ITC_change with the boxes T ticked: every check
\* of the checklist that is now done and not ticked is taken back.
Save(q, T) ==
  LET i == page[q].itc IN
  /\ Ready(q)
  /\ i # None
  /\ T \subseteq page[q].shown \cap Readable
  /\ Complete(UserOf[q], T, DoneOf(i) \ T)
  /\ UpdateProject(q, "testing", i)
  /\ UNCHANGED <<itcs, derived>>

\* The same with a box of a check that is gone or has lost its text: the boxes
\* before it are committed, then the handler raises.
SaveMissing(q, T, S) ==
  /\ Ready(q)
  /\ page[q].itc # None
  /\ T \subseteq page[q].shown
  /\ ~(T \subseteq Readable)
  /\ S \subseteq T \cap Readable
  /\ Complete(UserOf[q], S, {})
  /\ Fail(q, page[q].itc)
  /\ UNCHANGED <<itcs, derived, itp_percentage>>

\* site_project_ITP_deliverable_ITC_completeAllChecks
CompleteAllChecks(q, i) ==
  /\ Ready(q)
  /\ i \in itcs
  /\ Complete(UserOf[q], ChecksOf(i), {})
  /\ UpdateProject(q, "list", i)
  /\ UNCHANGED <<itcs, derived>>

\* The status of site_project_ITP_deliverable_ITC_edit; Plan has its number.
ItcEdit(q, i, st) ==
  /\ Ready(q)
  /\ i \in itcs
  /\ itc_status' = [itc_status EXCEPT ![i] = st]
  /\ Send(q, "list", i)
  /\ UNCHANGED <<template_checks, itcs, percentage, rows, itp_percentage>>

-----------------------------------------------------------------------------
(***************************************************************************)
(* Editing and deleting a check.                                           *)
(***************************************************************************)
\* Mutant of Renumber: the rows behind a check moved to the end stay.
RenumberNoGap(c, n) ==
  LET counts == Cardinality(ChecksOf(itc[c])) IN
  IF n >= counts THEN [number EXCEPT ![c] = counts] ELSE number

\* The check numbers once c has been given the number n: a move to the end
\* closes the gap c leaves, a move to the front makes room for it.
Renumber(c, n) ==
  LET peers == ChecksOf(itc[c])
      counts == Cardinality(peers)
      Behind(d) == n >= counts /\ number[d] > number[c]
      Passed(d) == n < counts /\ number[d] >= n /\ number[d] < number[c]
  IN
  IF n = number[c] THEN number
  ELSE [d \in CheckId |->
          IF d = c THEN IF n >= counts THEN counts ELSE n
          ELSE IF d \in peers /\ Behind(d) THEN number[d] - 1
          ELSE IF d \in peers /\ Passed(d) THEN number[d] + 1
          ELSE number[d]]

\* A check that is done keeps its status.
Edited(c, st) == st # status[c] /\ c \notin done

\* Mutant of CheckEdit: a check set to Completed is not done.
CheckEditNotDone(q, c, st, n) ==
  /\ Ready(q)
  /\ c \in page[q].shown \cap checks
  /\ status' = IF Edited(c, st) THEN [status EXCEPT ![c] = st] ELSE status
  /\ number' = Renumber(c, n)
  /\ Send(q, "testing", itc[c])
  /\ UNCHANGED <<template_checks, itcs, derived, checks, itc, ITC_check, done, by, itp_percentage>>

\* site_project_ITP_deliverable_ITC_check_edit
CheckEdit(q, c, st, n) ==
  /\ Ready(q)
  /\ c \in page[q].shown \cap checks
  /\ status' = IF Edited(c, st) THEN [status EXCEPT ![c] = st] ELSE status
  /\ done' = IF Edited(c, st) /\ st = "Completed" THEN done \cup {c} ELSE done
  /\ number' = Renumber(c, n)
  /\ Send(q, "testing", itc[c])
  /\ UNCHANGED <<template_checks, itcs, derived, checks, itc, ITC_check, by, itp_percentage>>

\* Mutant of CheckDelete: the window goes to the form it came from.
CheckDeleteNoRefresh(q, c) ==
  /\ Ready(q)
  /\ c \in page[q].shown \cap checks
  /\ checks' = checks \ {c}
  /\ itc' = [itc EXCEPT ![c] = None]
  /\ ITC_check' = [ITC_check EXCEPT ![c] = None]
  /\ number' = [number EXCEPT ![c] = 0]
  /\ done' = done \ {c}
  /\ status' = [status EXCEPT ![c] = "Not Started"]
  /\ by' = [by EXCEPT ![c] = None]
  /\ UNCHANGED <<template_checks, itcs, derived, itp_percentage, page, redirect, stale>>

\* site_project_ITP_deliverable_ITC_check_delete
CheckDelete(q, c) ==
  LET peers == ChecksOf(itc[c]) IN
  /\ Ready(q)
  /\ c \in page[q].shown \cap checks
  /\ number' = [d \in CheckId |->
       IF d = c THEN 0
       ELSE IF /\ d \in peers
               /\ number[c] < Cardinality(peers)
               /\ number[d] > number[c]
            THEN number[d] - 1 ELSE number[d]]
  /\ checks' = checks \ {c}
  /\ itc' = [itc EXCEPT ![c] = None]
  /\ ITC_check' = [ITC_check EXCEPT ![c] = None]
  /\ done' = done \ {c}
  /\ status' = [status EXCEPT ![c] = "Not Started"]
  /\ by' = [by EXCEPT ![c] = None]
  /\ Send(q, "testing", itc[c])
  /\ UNCHANGED <<template_checks, itcs, derived, itp_percentage>>

-----------------------------------------------------------------------------
(***************************************************************************)
(* Deleting checklists, and changing templates that are in use.  The pages *)
(* of templates derive nothing; a window that works there counts for none  *)
(* of the windows of this module.                                          *)
(***************************************************************************)
\* The rows S of Deliverable_check_map are gone, and nothing is renumbered.
DeleteRows(S) ==
  /\ checks' = checks \ S
  /\ itc' = [c \in CheckId |-> IF c \in S THEN None ELSE itc[c]]
  /\ ITC_check' = [c \in CheckId |-> IF c \in S THEN None ELSE ITC_check[c]]
  /\ number' = [c \in CheckId |-> IF c \in S THEN 0 ELSE number[c]]
  /\ done' = done \ S
  /\ status' = [c \in CheckId |-> IF c \in S THEN "Not Started" ELSE status[c]]
  /\ by' = [c \in CheckId |-> IF c \in S THEN None ELSE by[c]]

\* site_project_ITP_deliverable_ITC_delete, and ITC_general_delete for one of the
\* checklists made from the template.  Its checks stay in the table, where no page
\* finds them again; a form of the checklist can no longer be sent, since every
\* handler raises when it finds no checklist, and a page of it leads to the list.
ItcDelete(i) ==
  /\ i \in itcs
  /\ itcs' = itcs \ {i}
  /\ percentage' = [percentage EXCEPT ![i] = 0]
  /\ itc_status' = [itc_status EXCEPT ![i] = "Not Started"]
  /\ DeleteRows(ChecksOf(i))
  /\ page' = [q \in Session |-> IF page[q].itc = i THEN NoPage ELSE page[q]]
  /\ redirect' = [q \in Session |-> IF redirect[q].itc = i THEN Nowhere ELSE redirect[q]]
  /\ stale' = stale \ {i}
  /\ UNCHANGED <<template_checks, itp_percentage>>

\* ITC_check_general_new: checklists made earlier do not get the check.
ItcCheckNew(t) ==
  /\ t \in ItcCheckId \ template_checks
  /\ template_checks' = template_checks \cup {t}
  /\ UNCHANGED <<itcs, derived, rows, itp_percentage, page, redirect, stale>>

\* ITC_check_general_delete: the checks made from t go with it, on whatever
\* checklist they are; their numbers and the percentages are left as they are.
ItcCheckDelete(t) ==
  LET gone == {c \in checks : ITC_check[c] = t} IN
  /\ t \in template_checks
  /\ template_checks' = template_checks \ {t}
  /\ DeleteRows(gone)
  /\ stale' = stale \cup {itc[c] : c \in gone}
  /\ UNCHANGED <<itcs, derived, itp_percentage, page, redirect>>

\* generic_check_delete for a text that the template checks T have: they go, and
\* the checks made from them stay without text.
GenericCheckDelete(T) ==
  /\ T # {}
  /\ T \subseteq template_checks
  /\ template_checks' = template_checks \ T
  /\ ITC_check' = [c \in CheckId |-> IF ITC_check[c] \in T THEN None ELSE ITC_check[c]]
  /\ UNCHANGED <<itcs, derived, checks, itc, number, done, status, by,
                 itp_percentage, page, redirect, stale>>

-----------------------------------------------------------------------------
Next ==
  \/ \E q \in Session :
       \/ \E i \in Itc : \/ AddItc(q, i)
                         \/ StartTesting(q, i)
                         \/ ViewTesting(q, i)
                         \/ CompleteAllChecks(q, i)
                         \/ \E st \in Status : ItcEdit(q, i, st)
       \/ \E p \in Itp : ViewList(q, p)
       \/ \E T \in SUBSET page[q].shown :
            \/ Save(q, T)
            \/ \E S \in SUBSET T : SaveMissing(q, T, S)
       \/ \E c \in page[q].shown :
            \/ \E st \in Status, n \in 0 .. MaxNumber : CheckEdit(q, c, st, n)
            \/ CheckDelete(q, c)
  \/ \E i \in Itc : ItcDelete(i)
  \/ \E t \in ItcCheckId : ItcCheckNew(t) \/ ItcCheckDelete(t)
  \/ \E T \in SUBSET ItcCheckId : GenericCheckDelete(T)

Spec == Init /\ [][Next]_vars

-----------------------------------------------------------------------------
(***************************************************************************)
(* Properties.                                                             *)
(***************************************************************************)

\* No window is on its way to a page that derives the numbers of i again or has
\* got an error page instead, and no check of i has gone with its template check.
Settled(i) ==
  /\ i \notin stale
  /\ \A q \in Session : redirect[q].itc # i

\* "the percentage complete portion of the ITC is automatically updated": once
\* the redirects are followed, the stored percentage is that of the checks, and a
\* checklist with all its checks done is Completed, whatever older forms were
\* saved.  There are two exceptions, until somebody looks at the checklist again:
\* a save that failed, and ITC_check_general_delete, which takes checks away and
\* leads to no page that derives the percentage.
PercentageFresh ==
  \A i \in itcs : Settled(i) =>
    /\ percentage[i] = CheckPercent(i)
    /\ IsFull(i) => itc_status[i] = "Completed"

\* Some pages count checks by is_done and others by status: they agree.
ViewsAgree == \A c \in checks : c \in done <=> status[c] = "Completed"

\* "the completed by and date will be removed": a check that is not done names
\* nobody.
UndoneIsUnsigned == \A c \in checks : c \notin done => by[c] = None

\* The checks of i are numbered 1, 2, 3 ... without gap and repetition.
Numbered(i) ==
  /\ \A c \in ChecksOf(i) : number[c] \in 1 .. Cardinality(ChecksOf(i))
  /\ \A c, d \in ChecksOf(i) : number[c] = number[d] => c = d

\* A check moves to a number no larger than its own, or to the end.
MovesWithin(c, n) ==
  n >= 1 /\ (n <= number[c] \/ n >= Cardinality(ChecksOf(itc[c])))

\* The requests that leave a gap or a repetition in the numbers of i: an edit that
\* moves a check backwards and not to the end, or to 0, where nothing makes room;
\* and a template check deleted, unless the check made from it is the last.
Misnumbers(i) ==
  \/ \E q \in Session : \E c \in page[q].shown \cap ChecksOf(i) :
       \E st \in Status, n \in 0 .. MaxNumber :
          CheckEdit(q, c, st, n) /\ ~MovesWithin(c, n)
  \/ \E t \in ItcCheckId :
       /\ ItcCheckDelete(t)
       /\ \E c \in ChecksOf(i) : ITC_check[c] = t /\ number[c] < Cardinality(ChecksOf(i))

\* Every other request keeps the checks of a checklist numbered: regenerating
\* them, moving one to the front or to the end, and deleting one.
NumberingKept == [][\A i \in itcs : Numbered(i) => Numbered(i)' \/ Misnumbers(i)]_vars

-----------------------------------------------------------------------------
\* The inductive invariant behind ViewsAgree and UndoneIsUnsigned: it also
\* covers the ids that are not in use.
AgreeInv ==
  /\ checks \subseteq CheckId
  /\ done \subseteq checks
  /\ status \in [CheckId -> Status]
  /\ by \in [CheckId -> User \cup {None}]
  /\ \A c \in CheckId : c \in done <=> status[c] = "Completed"
  /\ \A c \in CheckId : c \notin done => by[c] = None

\* What a window shows and still exists is on the checklist the window shows.
ShownIsOwn ==
  \A q \in Session : \A c \in page[q].shown \cap checks : itc[c] = page[q].itc

\* The inductive invariant behind PercentageFresh: a save works on ids, and yet
\* changes the checks of no other checklist than the one it then derives.
FreshInv == ShownIsOwn /\ PercentageFresh
=============================================================================
