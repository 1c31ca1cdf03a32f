-------------------------------- MODULE Plan --------------------------------
(***************************************************************************)
(* The tables behind the inspection and test plans: what is created for a  *)
(* deliverable from the templates, what a deletion takes along, and the    *)
(* numbers of the checklists (ITCs) within their group.  One request at a  *)
(* time.                                                                   *)
(*                                                                         *)
(* When a row is deleted, the object mapper sets to NULL the foreign keys  *)
(* of the rows its relationships lead to, except in rows the handler       *)
(* deletes as well.  A foreign key that is NULL is None below.             *)
(***************************************************************************)
EXTENDS Naturals, FiniteSets

CONSTANTS
  ItpId,           \* ids of ITP, the test plans
  DeliverableId,   \* ids of Deliverable
  ItcId,           \* ids of ITC, the templates of checklists
  Type, TypeOf,    \* deliverable types, and the one a template is made for
  Group,           \* rows of ITC_group
  GenericId,       \* ids of Check_generic, the texts of checks
  ItcCheckId,      \* ids of ITC_check_map, the checks of templates
  MapId,           \* ids of Deliverable_ITC_map, the checklists
  MaxNumber,       \* bound: the largest group number typed into a form
  None

ASSUME PlanAssumption ==
  /\ TypeOf \in [ItcId -> Type]
  /\ MaxNumber \in Nat
  /\ IsFiniteSet(ItcId)
  /\ IsFiniteSet(MapId)
  /\ None \notin ItpId \cup DeliverableId \cup ItcId \cup Group
                 \cup GenericId \cup ItcCheckId \cup MapId

VARIABLES
  plans,                              \* rows of ITP
  deliverables, itp,                  \* rows of Deliverable, ITP_id
  itcs, group,                        \* rows of ITC, ITC_group_id
  generics,                           \* rows of Check_generic
  itc_checks, check_itc, check_text,  \* rows of ITC_check_map, ITC_id, check_generic
  maps, deliverable, itc,             \* rows of Deliverable_ITC_map, deliverable_id, ITC_id
  number,                             \* ITC_group_number
  checks                              \* the pairs <<deliverable_ITC_map_id, ITC_check_id>>
                                      \* of the rows of Deliverable_check_map

plan == <<plans, deliverables, itp>>
templates == <<itcs, group>>
texts == <<generics, itc_checks, check_itc, check_text>>
lists == <<maps, deliverable, itc, number>>
vars == <<plan, templates, texts, lists, checks>>

Or(S) == S \cup {None}

\* Every foreign key is NULL or the id of a row, and an unused id has none.
TypeOK ==
  /\ plans \subseteq ItpId
  /\ deliverables \subseteq DeliverableId
  /\ itp \in [DeliverableId -> Or(plans)]
  /\ itcs \subseteq ItcId
  /\ group \in [ItcId -> Or(Group)]
  /\ generics \subseteq GenericId
  /\ itc_checks \subseteq ItcCheckId
  /\ check_itc \in [ItcCheckId -> Or(itcs)]
  /\ check_text \in [ItcCheckId -> Or(generics)]
  /\ maps \subseteq MapId
  /\ deliverable \in [MapId -> Or(deliverables)]
  /\ itc \in [MapId -> Or(itcs)]
  /\ number \in [MapId -> Nat]
  /\ checks \subseteq Or(maps) \X Or(itc_checks)
  /\ \A d \in DeliverableId \ deliverables : itp[d] = None
  /\ \A c \in ItcCheckId \ itc_checks : check_itc[c] = None /\ check_text[c] = None
  /\ \A m \in MapId \ maps : deliverable[m] = None /\ itc[m] = None

Init ==
  /\ plans = {}
  /\ deliverables = {}
  /\ itp = [d \in DeliverableId |-> None]
  /\ itcs = {}
  /\ group = [t \in ItcId |-> None]
  /\ generics = {}
  /\ itc_checks = {}
  /\ check_itc = [c \in ItcCheckId |-> None]
  /\ check_text = [c \in ItcCheckId |-> None]
  /\ maps = {}
  /\ deliverable = [m \in MapId |-> None]
  /\ itc = [m \in MapId |-> None]
  /\ number = [m \in MapId |-> 0]
  /\ checks = {}

-----------------------------------------------------------------------------
\* f with the ids of S back to NULL, as an unused id is.
Cleared(f, S) == [x \in DOMAIN f |-> IF x \in S THEN None ELSE f[x]]

\* f with the references to S set to NULL.
Unlinked(f, S) == [x \in DOMAIN f |-> IF f[x] \in S THEN None ELSE f[x]]

\* The rows of Deliverable_check_map once the checklists of M and the template
\* checks of C are gone and nobody has deleted them too.
Orphaned(M, C) ==
  {<<IF k[1] \in M THEN None ELSE k[1], IF k[2] \in C THEN None ELSE k[2]>> : k \in checks}

\* A page finds a deliverable through its plan, a checklist through its deliverable.
Shown(d) == d \in deliverables /\ itp[d] # None
MapsOf(d) == {m \in maps : deliverable[m] = d}
Listed(m) == m \in maps /\ deliverable[m] # None /\ Shown(deliverable[m])

\* The rows a checklist of the template t gets: one for each check of t.
\* Mutant: the query is not filtered.
ChecksForAll(m, t) == {m} \X itc_checks
ChecksFor(m, t) == {m} \X {c \in itc_checks : check_itc[c] = t}

\* counts[itc.group]: how many different templates of the group g have the ids S.
Counts(S, g) == Cardinality({t \in S : group[t] = g})

-----------------------------------------------------------------------------
(***************************************************************************)
(* Plans and deliverables.                                                 *)
(***************************************************************************)
ItpNew(p) ==
  /\ p \notin plans
  /\ plans' = plans \cup {p}
  /\ UNCHANGED <<deliverables, itp, templates, texts, lists, checks>>

ItpDelete(p) ==
  /\ p \in plans
  /\ plans' = plans \ {p}
  /\ itp' = Unlinked(itp, {p})
  /\ UNCHANGED <<deliverables, templates, texts, lists, checks>>

\* The checklists new of d are made from the templates of, with the numbers num.
MakeLists(d, new, of, num) ==
  /\ maps' = maps \cup new
  /\ deliverable' = [m \in MapId |-> IF m \in new THEN d ELSE deliverable[m]]
  /\ itc' = [m \in MapId |-> IF m \in new THEN of[m] ELSE itc[m]]
  /\ number' = [m \in MapId |-> IF m \in new THEN num[m] ELSE number[m]]
  /\ checks' = checks \cup UNION {ChecksFor(m, of[m]) : m \in new}

\* site_project_ITP_deliverable_new: a checklist for each template of the type,
\* numbered within its group in the order the query returns them.
DeliverableNew(p, d, y) ==
  LET made == {t \in itcs : TypeOf[t] = y} IN
  /\ p \in plans
  /\ d \notin deliverables
  /\ deliverables' = deliverables \cup {d}
  /\ itp' = [itp EXCEPT ![d] = p]
  /\ \E new \in SUBSET (MapId \ maps) :
       \E of \in [new -> made], num \in [new -> 1 .. Cardinality(made)] :
         /\ Cardinality(new) = Cardinality(made)
         /\ \A m, n \in new : m # n =>
              of[m] # of[n] /\ (group[of[m]] = group[of[n]] => num[m] # num[n])
         /\ \A m \in new : num[m] <= Counts(made, group[of[m]])
         /\ MakeLists(d, new, of, num)
  /\ UNCHANGED <<plans, templates, texts>>

DeliverableDelete(d) ==
  /\ Shown(d)
  /\ deliverables' = deliverables \ {d}
  /\ itp' = Cleared(itp, {d})
  /\ deliverable' = Unlinked(deliverable, {d})
  /\ UNCHANGED <<plans, templates, texts, maps, itc, number, checks>>

-----------------------------------------------------------------------------
(***************************************************************************)
(* The checklists of a deliverable.                                        *)
(***************************************************************************)
\* site_project_ITP_deliverable_ITC_add
ItcAdd(m, d, t) ==
  /\ Shown(d)
  /\ t \in itcs
  /\ m \in MapId \ maps
  /\ maps' = maps \cup {m}
  /\ deliverable' = [deliverable EXCEPT ![m] = d]
  /\ itc' = [itc EXCEPT ![m] = t]
  /\ number' = [number EXCEPT ![m] = Counts({itc[n] : n \in MapsOf(d)} \cup {t}, group[t])]
  /\ checks' = checks \cup ChecksFor(m, t)
  /\ UNCHANGED <<plan, templates, texts>>

\* Mutant of Moved: the checklists behind the one moved to the end stay.
MovedNoGap(m, n) ==
  LET counts == Counts({itc[k] : k \in MapsOf(deliverable[m])}, group[itc[m]]) IN
  [number EXCEPT ![m] = IF n >= counts THEN counts ELSE n]

\* The group numbers once m has been given the number n.
Moved(m, n) ==
  LET all == MapsOf(deliverable[m])
      counts == Counts({itc[k] : k \in all}, group[itc[m]])
      Peer(k) == k \in all /\ group[itc[k]] = group[itc[m]]
      Behind(k) == n >= counts /\ number[k] > number[m]
      Passed(k) == n < counts /\ number[k] >= n /\ number[k] < number[m]
  IN
  IF n = number[m] THEN number
  ELSE [k \in MapId |->
          IF k = m THEN IF n >= counts THEN counts ELSE n
          ELSE IF Peer(k) /\ Behind(k) THEN number[k] - 1
          ELSE IF Peer(k) /\ Passed(k) THEN number[k] + 1
          ELSE number[k]]

\* site_project_ITP_deliverable_ITC_edit
ItcEdit(m, n) ==
  /\ Listed(m)
  /\ number' = Moved(m, n)
  /\ UNCHANGED <<plan, templates, texts, maps, deliverable, itc, checks>>

\* site_project_ITP_deliverable_ITC_delete: the numbers behind it move up, in
\* whatever group they are.
ItcDelete(m) ==
  LET all == MapsOf(deliverable[m])
      counts == Counts({itc[k] : k \in all}, group[itc[m]])
  IN
  /\ Listed(m)
  /\ maps' = maps \ {m}
  /\ deliverable' = Cleared(deliverable, {m})
  /\ itc' = Cleared(itc, {m})
  /\ number' = [k \in MapId |->
       IF k = m THEN 0
       ELSE IF number[m] < counts /\ k \in all /\ number[k] > number[m]
            THEN number[k] - 1 ELSE number[k]]
  /\ checks' = Orphaned({m}, {})
  /\ UNCHANGED <<plan, templates, texts>>

\* start_ITC_testing: the checks of the checklist are made anew.
StartTesting(m) ==
  /\ Listed(m)
  /\ checks' = {k \in checks : k[1] # m} \cup ChecksFor(m, itc[m])
  /\ UNCHANGED <<plan, templates, texts, lists>>

-----------------------------------------------------------------------------
(***************************************************************************)
(* Templates.                                                              *)
(***************************************************************************)
\* ITC_general_new, ITC_general_edit: the form may name no group, and first() then
\* returns None, which is not the empty text the handlers test for.
ItcGeneralNew(t, g) ==
  /\ t \notin itcs
  /\ itcs' = itcs \cup {t}
  /\ group' = [group EXCEPT ![t] = g]
  /\ UNCHANGED <<plan, texts, lists, checks>>

ItcGeneralEdit(t, g) ==
  /\ t \in itcs
  /\ group' = [group EXCEPT ![t] = g]
  /\ UNCHANGED <<plan, itcs, texts, lists, checks>>

\* Mutant of ItcGeneralDelete: the checklists stay, without template.
ItcGeneralDeleteKeepsLists(t) ==
  /\ t \in itcs
  /\ itcs' = itcs \ {t}
  /\ group' = Cleared(group, {t})
  /\ check_itc' = Unlinked(check_itc, {t})
  /\ itc' = Unlinked(itc, {t})
  /\ UNCHANGED <<plan, generics, itc_checks, check_text, maps, deliverable, number, checks>>

\* ITC_general_delete: the checklists made from the template go with it.
ItcGeneralDelete(t) ==
  LET gone == {m \in maps : itc[m] = t} IN
  /\ t \in itcs
  /\ itcs' = itcs \ {t}
  /\ group' = Cleared(group, {t})
  /\ check_itc' = Unlinked(check_itc, {t})
  /\ maps' = maps \ gone
  /\ deliverable' = Cleared(deliverable, gone)
  /\ itc' = Cleared(itc, gone)
  /\ number' = [m \in MapId |-> IF m \in gone THEN 0 ELSE number[m]]
  /\ checks' = Orphaned(gone, {})
  /\ UNCHANGED <<plan, generics, itc_checks, check_text>>

\* ITC_check_general_new
ItcCheckNew(c, t, x) ==
  /\ t \in itcs
  /\ x \in generics
  /\ c \notin itc_checks
  /\ itc_checks' = itc_checks \cup {c}
  /\ check_itc' = [check_itc EXCEPT ![c] = t]
  /\ check_text' = [check_text EXCEPT ![c] = x]
  /\ UNCHANGED <<plan, templates, generics, lists, checks>>

\* ITC_check_general_edit: the check gets the text x, which is added if it is new.
ItcCheckEdit(c, x) ==
  /\ c \in itc_checks
  /\ check_itc[c] # None
  /\ generics' = generics \cup {x}
  /\ check_text' = [check_text EXCEPT ![c] = x]
  /\ UNCHANGED <<plan, templates, itc_checks, check_itc, lists, checks>>

\* Mutant of ItcCheckDelete: the checks made from it keep its id.
ItcCheckDeleteAlone(c) ==
  /\ c \in itc_checks
  /\ check_itc[c] # None
  /\ itc_checks' = itc_checks \ {c}
  /\ check_itc' = Cleared(check_itc, {c})
  /\ check_text' = Cleared(check_text, {c})
  /\ UNCHANGED <<plan, templates, generics, lists, checks>>

\* ITC_check_general_delete: the checks made from it go with it.
ItcCheckDelete(c) ==
  /\ c \in itc_checks
  /\ check_itc[c] # None
  /\ itc_checks' = itc_checks \ {c}
  /\ check_itc' = Cleared(check_itc, {c})
  /\ check_text' = Cleared(check_text, {c})
  /\ checks' = {k \in checks : k[2] # c}
  /\ UNCHANGED <<plan, templates, generics, lists>>

\* generic_check_new, and generic_check_edit, which adds a text as well and
\* leaves the one edited alone.
GenericCheckNew(x) ==
  /\ x \notin generics
  /\ generics' = generics \cup {x}
  /\ UNCHANGED <<plan, templates, itc_checks, check_itc, check_text, lists, checks>>

\* generic_check_delete: the checks of templates go with the text.
GenericCheckDelete(x) ==
  LET gone == {c \in itc_checks : check_text[c] = x} IN
  /\ x \in generics
  /\ generics' = generics \ {x}
  /\ itc_checks' = itc_checks \ gone
  /\ check_itc' = Cleared(check_itc, gone)
  /\ check_text' = Cleared(check_text, gone)
  /\ checks' = Orphaned({}, gone)
  /\ UNCHANGED <<plan, templates, lists>>

-----------------------------------------------------------------------------
Next ==
  \/ \E p \in ItpId : ItpNew(p) \/ ItpDelete(p)
  \/ \E d \in DeliverableId :
       \/ \E p \in ItpId, y \in Type : DeliverableNew(p, d, y)
       \/ DeliverableDelete(d)
       \/ \E m \in MapId, t \in ItcId : ItcAdd(m, d, t)
  \/ \E m \in MapId :
       \/ \E n \in 0 .. MaxNumber : ItcEdit(m, n)
       \/ ItcDelete(m)
       \/ StartTesting(m)
  \/ \E t \in ItcId :
       \/ \E g \in Or(Group) : ItcGeneralNew(t, g) \/ ItcGeneralEdit(t, g)
       \/ ItcGeneralDelete(t)
       \/ \E c \in ItcCheckId, x \in GenericId : ItcCheckNew(c, t, x)
  \/ \E c \in ItcCheckId :
       \/ \E x \in GenericId : ItcCheckEdit(c, x)
       \/ ItcCheckDelete(c)
  \/ \E x \in GenericId : GenericCheckNew(x) \/ GenericCheckDelete(x)

Spec == Init /\ [][Next]_vars

-----------------------------------------------------------------------------
(***************************************************************************)
(* Properties.                                                             *)
(***************************************************************************)

\* "if a template ITC is deleted then the corresponding specific ITCs will be
\* deleted": no checklist is left without its template, which the pages
\* dereference for the name and the group of a checklist.
ChecklistHasTemplate == \A m \in maps : itc[m] # None

\* Whatever is created, regenerated and deleted, a check that a checklist shows
\* is one of the checks of the template of this checklist.
SameTemplate ==
  \A k \in checks : k[1] # None /\ k[2] # None => check_itc[k[2]] = itc[k[1]]

Peers(d, g) == {m \in MapsOf(d) : group[itc[m]] = g}

\* No template is listed twice, and the checklists of each group of d are
\* numbered 1, 2, 3 ..., those without a group too.
Numbered(d) ==
  /\ \A m, n \in MapsOf(d) : itc[m] = itc[n] => m = n
  /\ \A g \in Or(Group) :
       /\ \A m \in Peers(d, g) : number[m] \in 1 .. Cardinality(Peers(d, g))
       /\ \A m, n \in Peers(d, g) : number[m] = number[n] => m = n

\* The ways in which a request is known to break the numbers of d: a template
\* added twice, a move backwards and not to the end, a deletion in one group that
\* renumbers another, a template that changes its group or is deleted.
Misnumbers(d) ==
  \/ \E m \in MapId, t \in {itc[n] : n \in MapsOf(d)} : ItcAdd(m, d, t)
  \/ \E m \in MapsOf(d), n \in 0 .. MaxNumber :
       /\ ItcEdit(m, n)
       /\ n = 0 \/ (n > number[m] /\ n < Cardinality(Peers(d, group[itc[m]])))
  \/ \E m \in MapsOf(d) :
       /\ ItcDelete(m)
       /\ \E k \in MapsOf(d) : group[itc[k]] # group[itc[m]] /\ number[k] > number[m]
  \/ \E t \in {itc[n] : n \in MapsOf(d)} :
       ItcGeneralDelete(t) \/ \E g \in Or(Group) : ItcGeneralEdit(t, g)

\* Every other request keeps the checklists of a deliverable numbered within
\* their groups.
GroupsKept ==
  [][\A d \in deliverables \cap deliverables' :
       Numbered(d) => Numbered(d)' \/ Misnumbers(d)]_vars

\* "When deleting objects we need to ensure that any other object that may rely
\* on that one gets deleted or updated": a check of a checklist still has the
\* template check whose text the pages and the save handler read.
ChecksHaveText == \A k \in checks : k[1] # None => k[2] # None

=============================================================================
