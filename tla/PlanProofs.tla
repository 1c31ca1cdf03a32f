----------------------------- MODULE PlanProofs -----------------------------
(***************************************************************************)
(* Proofs about Plan, for any tables and any number of templates.          *)
(***************************************************************************)
EXTENDS Plan, FiniteSetTheorems, TLAPS

\* The rows that are left after a deletion refer to rows that are left.
LEMMA OrphanedTyped ==
  ASSUME TypeOK, NEW M, NEW C
  PROVE  Orphaned(M, C) \subseteq Or(maps \ M) \X Or(itc_checks \ C)
BY DEF Orphaned, TypeOK, Or

\* Checks made for a checklist refer to checks of the template.
LEMMA ChecksForTyped ==
  ASSUME NEW m, NEW t
  PROVE  ChecksFor(m, t) \subseteq {m} \X itc_checks
BY DEF ChecksFor

LEMMA CountsTyped ==
  ASSUME NEW S \in SUBSET Or(ItcId), NEW g
  PROVE  Counts(S, g) \in Nat
<1>1. IsFiniteSet(Or(ItcId))
  BY PlanAssumption, FS_AddElement DEF Or
<1>2. IsFiniteSet({t \in S : group[t] = g})
  BY <1>1, FS_Subset
<1> QED BY <1>2, FS_CardinalityType DEF Counts

LEMMA TypeInductive == TypeOK /\ [Next]_vars => TypeOK'
<1> SUFFICES ASSUME TypeOK, [Next]_vars PROVE TypeOK' OBVIOUS
<1> USE PlanAssumption
<1>1. CASE UNCHANGED vars
  BY <1>1 DEF TypeOK, vars, plan, templates, texts, lists, Or
<1>2. ASSUME NEW p \in ItpId, ItpNew(p) PROVE TypeOK'
  BY <1>2 DEF TypeOK, ItpNew, templates, texts, lists, Or
<1>3. ASSUME NEW p \in ItpId, ItpDelete(p) PROVE TypeOK'
  BY <1>3 DEF TypeOK, ItpDelete, Unlinked, templates, texts, lists, Or
<1>4. ASSUME NEW p \in ItpId, NEW d \in DeliverableId, NEW y \in Type,
             DeliverableNew(p, d, y)
      PROVE  TypeOK'
  <2> DEFINE made == {t \in itcs : TypeOf[t] = y}
  <2>1. PICK new \in SUBSET (MapId \ maps) :
          \E of \in [new -> made], num \in [new -> 1 .. Cardinality(made)] :
            MakeLists(d, new, of, num)
    BY <1>4 DEF DeliverableNew
  <2>2. PICK of \in [new -> made], num \in [new -> 1 .. Cardinality(made)] :
          MakeLists(d, new, of, num)
    BY <2>1
  <2>3. /\ plans' = plans /\ deliverables' = deliverables \cup {d}
        /\ itp' = [itp EXCEPT ![d] = p] /\ p \in plans
        /\ UNCHANGED <<itcs, group, generics, itc_checks, check_itc, check_text>>
    BY <1>4 DEF DeliverableNew, templates, texts
  <2>4. /\ deliverable' \in [MapId -> Or(deliverables')]
        /\ itc' \in [MapId -> Or(itcs')]
        /\ maps' \subseteq MapId
    BY <2>2, <2>3 DEF TypeOK, Or, MakeLists
  <2>5. number' \in [MapId -> Nat]
    <3>1. made \in SUBSET ItcId BY DEF TypeOK
    <3>2. Cardinality(made) \in Nat BY <3>1, FS_Subset, FS_CardinalityType
    <3>3. \A m \in new : num[m] \in Nat BY <3>2
    <3> QED BY <2>2, <3>3 DEF TypeOK, MakeLists
  <2>6. checks' \subseteq Or(maps') \X Or(itc_checks')
    <3>1. \A m \in new : ChecksFor(m, of[m]) \subseteq Or(maps') \X Or(itc_checks')
      BY <2>2, <2>3, ChecksForTyped DEF Or, MakeLists
    <3>2. checks \subseteq Or(maps') \X Or(itc_checks')
      BY <2>2, <2>3 DEF TypeOK, Or, MakeLists
    <3>3. checks' = checks \cup UNION {ChecksFor(m, of[m]) : m \in new}
      BY <2>2 DEF MakeLists
    <3>4. ASSUME NEW k \in checks' PROVE k \in Or(maps') \X Or(itc_checks')
      <4>1. CASE k \in checks BY <3>2, <4>1
      <4>2. CASE k \notin checks
        <5>1. PICK m \in new : k \in ChecksFor(m, of[m]) BY <3>3, <4>2
        <5> QED BY <3>1, <5>1
      <4> QED BY <4>1, <4>2
    <3> QED BY <3>4
  <2>7. itp' \in [DeliverableId -> Or(plans')]
    BY <2>3 DEF TypeOK, Or
  <2>8. \A m \in MapId \ maps' : deliverable'[m] = None /\ itc'[m] = None
    BY <2>2 DEF TypeOK, MakeLists
  <2>9. \A e \in DeliverableId \ deliverables' : itp'[e] = None
    BY <2>3 DEF TypeOK
  <2>10. deliverables' \subseteq DeliverableId BY <2>3 DEF TypeOK
  <2> QED BY <2>3, <2>4, <2>5, <2>6, <2>7, <2>8, <2>9, <2>10 DEF TypeOK
<1>5. ASSUME NEW d \in DeliverableId, DeliverableDelete(d) PROVE TypeOK'
  BY <1>5 DEF TypeOK, DeliverableDelete, Unlinked, Cleared, templates, texts, Or
<1>6. ASSUME NEW d \in DeliverableId, NEW m \in MapId, NEW t \in ItcId, ItcAdd(m, d, t)
      PROVE  TypeOK'
  <2> DEFINE S == {itc[n] : n \in MapsOf(d)} \cup {t}
  <2>1. /\ m \in MapId \ maps /\ t \in itcs /\ d \in deliverables
        /\ maps' = maps \cup {m}
        /\ deliverable' = [deliverable EXCEPT ![m] = d]
        /\ itc' = [itc EXCEPT ![m] = t]
        /\ number' = [number EXCEPT ![m] = Counts(S, group[t])]
        /\ checks' = checks \cup ChecksFor(m, t)
        /\ UNCHANGED <<plans, deliverables, itp, itcs, group, generics, itc_checks,
                       check_itc, check_text>>
    BY <1>6 DEF ItcAdd, Shown, plan, templates, texts
  <2>2. S \in SUBSET Or(ItcId) BY DEF TypeOK, MapsOf, Or
  <2>3. Counts(S, group[t]) \in Nat BY <2>2, CountsTyped
  <2>4. number' \in [MapId -> Nat] BY <2>1, <2>3 DEF TypeOK
  <2>5. checks' \subseteq Or(maps') \X Or(itc_checks')
    BY <2>1, ChecksForTyped DEF TypeOK, Or
  <2> QED BY <2>1, <2>4, <2>5 DEF TypeOK, Or
<1>7. ASSUME NEW m \in MapId, NEW n \in 0 .. MaxNumber, ItcEdit(m, n) PROVE TypeOK'
  <2> DEFINE S == {itc[k] : k \in MapsOf(deliverable[m])}
  <2>1. S \in SUBSET Or(ItcId) BY DEF TypeOK, MapsOf, Or
  <2>2. Counts(S, group[itc[m]]) \in Nat BY <2>1, CountsTyped
  <2>3. number \in [MapId -> Nat] /\ n \in Nat BY DEF TypeOK
  <2>4. Moved(m, n) \in [MapId -> Nat]
    <3>1. CASE n = number[m] BY <2>3, <3>1 DEF Moved
    <3>2. CASE n # number[m]
      <4>1. DOMAIN Moved(m, n) = MapId BY <3>2 DEF Moved
      <4>2. ASSUME NEW k \in MapId PROVE Moved(m, n)[k] \in Nat
        BY <2>2, <2>3, <3>2 DEF Moved
      <4>3. Moved(m, n) = [k \in MapId |-> Moved(m, n)[k]]
        BY <3>2 DEF Moved
      <4> QED BY <4>2, <4>3
    <3> QED BY <3>1, <3>2
  <2> QED BY <1>7, <2>4 DEF TypeOK, ItcEdit, plan, templates, texts
<1>8. ASSUME NEW m \in MapId, ItcDelete(m) PROVE TypeOK'
  <2>1. checks' \subseteq Or(maps') \X Or(itc_checks')
    <3>1. checks' = Orphaned({m}, {}) /\ maps' = maps \ {m} /\ itc_checks' = itc_checks
      BY <1>8 DEF ItcDelete, texts
    <3>2. Orphaned({m}, {}) \subseteq Or(maps \ {m}) \X Or(itc_checks \ {})
      BY OrphanedTyped
    <3> QED BY <3>1, <3>2
  <2>2. number' \in [MapId -> Nat]
    <3>1. number \in [MapId -> Nat] BY DEF TypeOK
    <3>2. \A k \in MapId : number[k] > number[m] => number[k] - 1 \in Nat BY <3>1
    <3> QED BY <1>8, <3>1, <3>2 DEF ItcDelete
  <2> QED BY <1>8, <2>1, <2>2 DEF TypeOK, ItcDelete, Cleared, plan, templates, texts, Or
<1>9. ASSUME NEW m \in MapId, StartTesting(m) PROVE TypeOK'
  <2>1. checks' \subseteq Or(maps') \X Or(itc_checks')
    BY <1>9, ChecksForTyped DEF StartTesting, Listed, lists, texts, TypeOK, Or
  <2> QED BY <1>9, <2>1 DEF TypeOK, StartTesting, plan, templates, texts, lists
<1>10. ASSUME NEW t \in ItcId, NEW g \in Or(Group), ItcGeneralNew(t, g) PROVE TypeOK'
  BY <1>10 DEF TypeOK, ItcGeneralNew, plan, texts, lists, Or
<1>11. ASSUME NEW t \in ItcId, NEW g \in Or(Group), ItcGeneralEdit(t, g) PROVE TypeOK'
  BY <1>11 DEF TypeOK, ItcGeneralEdit, plan, texts, lists, Or
<1>12. ASSUME NEW t \in ItcId, ItcGeneralDelete(t) PROVE TypeOK'
  <2> DEFINE gone == {m \in maps : itc[m] = t}
  <2>1. checks' \subseteq Or(maps') \X Or(itc_checks')
    <3>1. checks' = Orphaned(gone, {}) /\ maps' = maps \ gone /\ itc_checks' = itc_checks
      BY <1>12 DEF ItcGeneralDelete
    <3>2. Orphaned(gone, {}) \subseteq Or(maps \ gone) \X Or(itc_checks \ {})
      BY OrphanedTyped
    <3> QED BY <3>1, <3>2
  <2>2. /\ itcs' = itcs \ {t} /\ check_itc' = Unlinked(check_itc, {t})
        /\ itc' = Cleared(itc, gone)
        /\ \A m \in MapId : itc[m] = t => m \in gone \/ m \notin maps
    BY <1>12 DEF ItcGeneralDelete
  <2>3. itc' \in [MapId -> Or(itcs')]
    BY <2>2 DEF TypeOK, Cleared, Or
  <2> QED BY <1>12, <2>1, <2>2, <2>3
          DEF TypeOK, ItcGeneralDelete, Cleared, Unlinked, plan, Or
<1>13. ASSUME NEW c \in ItcCheckId, NEW t \in ItcId, NEW x \in GenericId, ItcCheckNew(c, t, x)
       PROVE  TypeOK'
  BY <1>13 DEF TypeOK, ItcCheckNew, plan, templates, lists, Or
<1>14. ASSUME NEW c \in ItcCheckId, NEW x \in GenericId, ItcCheckEdit(c, x) PROVE TypeOK'
  BY <1>14 DEF TypeOK, ItcCheckEdit, plan, templates, lists, Or
<1>15. ASSUME NEW c \in ItcCheckId, ItcCheckDelete(c) PROVE TypeOK'
  BY <1>15 DEF TypeOK, ItcCheckDelete, Cleared, plan, templates, lists, Or
<1>16. ASSUME NEW x \in GenericId, GenericCheckNew(x) PROVE TypeOK'
  BY <1>16 DEF TypeOK, GenericCheckNew, plan, templates, lists, Or
<1>17. ASSUME NEW x \in GenericId, GenericCheckDelete(x) PROVE TypeOK'
  <2> DEFINE gone == {c \in itc_checks : check_text[c] = x}
  <2>1. /\ generics' = generics \ {x} /\ itc_checks' = itc_checks \ gone
        /\ check_itc' = Cleared(check_itc, gone) /\ check_text' = Cleared(check_text, gone)
        /\ checks' = Orphaned({}, gone)
        /\ UNCHANGED <<plan, templates, lists>>
    BY <1>17 DEF GenericCheckDelete
  <2>2. checks' \subseteq Or(maps') \X Or(itc_checks')
    <3>1. Orphaned({}, gone) \subseteq Or(maps \ {}) \X Or(itc_checks \ gone)
      BY OrphanedTyped
    <3> QED BY <2>1, <3>1 DEF lists
  <2>3. check_text' \in [ItcCheckId -> Or(generics')]
    BY <2>1 DEF TypeOK, Cleared, Or
  <2> QED BY <2>1, <2>2, <2>3 DEF TypeOK, Cleared, plan, templates, lists, Or
<1> QED BY <1>1, <1>2, <1>3, <1>4, <1>5, <1>6, <1>7, <1>8, <1>9, <1>10, <1>11, <1>12,
           <1>13, <1>14, <1>15, <1>16, <1>17 DEF Next

\* No foreign key ever refers to a row that is gone.
THEOREM TypeCorrect == Spec => []TypeOK
<1>1. Init => TypeOK
  BY DEF Init, TypeOK, Or
<1> QED BY <1>1, TypeInductive, PTL DEF Spec

-----------------------------------------------------------------------------
\* Orphaned rows and rows that lose both references say nothing about templates;
\* the others are as before.
LEMMA OrphanedSame ==
  ASSUME TypeOK, SameTemplate, NEW M, NEW C, checks' = Orphaned(M, C),
         \A m \in maps \ M : itc'[m] = itc[m],
         \A m \in maps \ M, c \in itc_checks \ C :
            check_itc[c] = itc[m] => check_itc'[c] = check_itc[c]
  PROVE  SameTemplate'
<1> SUFFICES ASSUME NEW k \in checks', k[1] # None, k[2] # None
             PROVE  check_itc'[k[2]] = itc'[k[1]]
  BY DEF SameTemplate
<1>1. PICK j \in checks : k = <<IF j[1] \in M THEN None ELSE j[1],
                                IF j[2] \in C THEN None ELSE j[2]>>
  BY DEF Orphaned
<1>2. k[1] = j[1] /\ k[2] = j[2] /\ j[1] \notin M /\ j[2] \notin C
  BY <1>1
<1>3. j[1] \in maps \ M /\ j[2] \in itc_checks \ C
  BY <1>2 DEF TypeOK, Or
<1>4. check_itc[j[2]] = itc[j[1]]
  BY <1>2 DEF SameTemplate
<1> QED BY <1>2, <1>3, <1>4

\* The checks made for a checklist are those of its template.
LEMMA ChecksForSame ==
  ASSUME NEW m, NEW t, NEW k \in ChecksFor(m, t)
  PROVE  k[1] = m /\ k[2] \in itc_checks /\ check_itc[k[2]] = t
BY DEF ChecksFor

TemplateInv == ChecklistHasTemplate /\ SameTemplate

LEMMA TemplateInductive == TypeOK /\ TemplateInv /\ [Next]_vars => TemplateInv'
<1> SUFFICES ASSUME TypeOK, TemplateInv, [Next]_vars PROVE TemplateInv' OBVIOUS
<1> USE PlanAssumption DEF TemplateInv
<1>1. CASE UNCHANGED <<maps, itc, check_itc, checks>>
  BY <1>1 DEF ChecklistHasTemplate, SameTemplate
<1>2. ASSUME NEW p \in ItpId, NEW d \in DeliverableId, NEW y \in Type,
             DeliverableNew(p, d, y)
      PROVE  TemplateInv'
  <2> DEFINE made == {t \in itcs : TypeOf[t] = y}
  <2>1. PICK new \in SUBSET (MapId \ maps) :
          \E of \in [new -> made], num \in [new -> 1 .. Cardinality(made)] :
            MakeLists(d, new, of, num)
    BY <1>2 DEF DeliverableNew
  <2>2. PICK of \in [new -> made], num \in [new -> 1 .. Cardinality(made)] :
          MakeLists(d, new, of, num)
    BY <2>1
  <2>3. check_itc' = check_itc BY <1>2 DEF DeliverableNew, texts
  <2>4. ChecklistHasTemplate'
    BY <2>2 DEF ChecklistHasTemplate, MakeLists, TypeOK
  <2>5. ASSUME NEW k \in checks', k[1] # None, k[2] # None
        PROVE  check_itc'[k[2]] = itc'[k[1]]
    <3>1. CASE k \in checks
      <4>1. k[1] \in maps BY <2>5, <3>1 DEF TypeOK, Or
      <4>2. itc'[k[1]] = itc[k[1]] BY <2>2, <4>1 DEF MakeLists, TypeOK
      <4> QED BY <2>3, <2>5, <3>1, <4>2 DEF SameTemplate
    <3>2. CASE k \notin checks
      <4>1. PICK m \in new : k \in ChecksFor(m, of[m])
        BY <2>2, <2>5, <3>2 DEF MakeLists
      <4>2. k[1] = m /\ check_itc[k[2]] = of[m] BY <4>1, ChecksForSame
      <4> QED BY <2>2, <2>3, <4>2 DEF MakeLists
    <3> QED BY <3>1, <3>2
  <2> QED BY <2>4, <2>5 DEF SameTemplate
<1>3. ASSUME NEW d \in DeliverableId, NEW m \in MapId, NEW t \in ItcId, ItcAdd(m, d, t)
      PROVE  TemplateInv'
  <2>1. /\ m \in MapId \ maps /\ maps' = maps \cup {m} /\ itc' = [itc EXCEPT ![m] = t]
        /\ checks' = checks \cup ChecksFor(m, t) /\ check_itc' = check_itc
    BY <1>3 DEF ItcAdd, texts
  <2>2. ChecklistHasTemplate'
    BY <2>1 DEF ChecklistHasTemplate, TypeOK
  <2>3. ASSUME NEW k \in checks', k[1] # None, k[2] # None
        PROVE  check_itc'[k[2]] = itc'[k[1]]
    <3>1. CASE k \in checks
      <4>1. k[1] \in maps BY <2>3, <3>1 DEF TypeOK, Or
      <4> QED BY <2>1, <2>3, <3>1, <4>1 DEF SameTemplate, TypeOK
    <3>2. CASE k \in ChecksFor(m, t)
      BY <2>1, <3>2, ChecksForSame DEF TypeOK
    <3> QED BY <2>1, <3>1, <3>2
  <2> QED BY <2>2, <2>3 DEF SameTemplate
<1>4. ASSUME NEW m \in MapId, ItcDelete(m) PROVE TemplateInv'
  <2>1. /\ maps' = maps \ {m} /\ itc' = Cleared(itc, {m})
        /\ checks' = Orphaned({m}, {}) /\ check_itc' = check_itc
    BY <1>4 DEF ItcDelete, texts
  <2>2. \A k \in maps \ {m} : itc'[k] = itc[k]
    BY <2>1 DEF Cleared, TypeOK
  <2>3. ChecklistHasTemplate'
    BY <2>1, <2>2 DEF ChecklistHasTemplate
  <2> QED BY <2>1, <2>2, <2>3, OrphanedSame
<1>5. ASSUME NEW m \in MapId, StartTesting(m) PROVE TemplateInv'
  <2>1. /\ checks' = {k \in checks : k[1] # m} \cup ChecksFor(m, itc[m])
        /\ UNCHANGED <<maps, itc, check_itc>>
    BY <1>5 DEF StartTesting, lists, texts
  <2>2. ASSUME NEW k \in checks', k[1] # None, k[2] # None
        PROVE  check_itc'[k[2]] = itc'[k[1]]
    <3>1. CASE k \in checks BY <2>1, <2>2, <3>1 DEF SameTemplate
    <3>2. CASE k \in ChecksFor(m, itc[m]) BY <2>1, <3>2, ChecksForSame
    <3> QED BY <2>1, <3>1, <3>2
  <2> QED BY <2>1, <2>2 DEF SameTemplate, ChecklistHasTemplate
<1>6. ASSUME NEW t \in ItcId, ItcGeneralDelete(t) PROVE TemplateInv'
  <2> DEFINE gone == {m \in maps : itc[m] = t}
  <2>1. /\ maps' = maps \ gone /\ itc' = Cleared(itc, gone)
        /\ checks' = Orphaned(gone, {}) /\ check_itc' = Unlinked(check_itc, {t})
    BY <1>6 DEF ItcGeneralDelete
  <2>2. \A m \in maps \ gone : itc'[m] = itc[m]
    BY <2>1 DEF Cleared, TypeOK
  <2>3. \A c \in itc_checks : check_itc[c] # t => check_itc'[c] = check_itc[c]
    BY <2>1 DEF Unlinked, TypeOK
  <2>4. \A m \in maps \ gone, c \in itc_checks \ {} :
          check_itc[c] = itc[m] => check_itc'[c] = check_itc[c]
    BY <2>3
  <2>5. ChecklistHasTemplate'
    BY <2>1, <2>2 DEF ChecklistHasTemplate
  <2> HIDE DEF gone
  <2>6. SameTemplate'
    <3>1. checks' = Orphaned(gone, {}) /\ SameTemplate BY <2>1
    <3> HIDE DEF TemplateInv
    <3> QED BY <2>2, <2>4, <3>1, OrphanedSame
  <2> QED BY <2>5, <2>6
<1>7. ASSUME NEW c \in ItcCheckId, NEW t \in ItcId, NEW x \in GenericId, ItcCheckNew(c, t, x)
      PROVE  TemplateInv'
  <2>1. /\ c \notin itc_checks /\ check_itc' = [check_itc EXCEPT ![c] = t]
        /\ UNCHANGED <<maps, itc, checks>>
    BY <1>7 DEF ItcCheckNew, lists
  <2>2. ASSUME NEW k \in checks, k[1] # None, k[2] # None
        PROVE  check_itc'[k[2]] = itc[k[1]]
    <3>1. k[2] \in itc_checks BY <2>2 DEF TypeOK, Or
    <3> QED BY <2>1, <2>2, <3>1 DEF SameTemplate, TypeOK
  <2> QED BY <2>1, <2>2 DEF SameTemplate, ChecklistHasTemplate
<1>8. ASSUME NEW c \in ItcCheckId, ItcCheckDelete(c) PROVE TemplateInv'
  <2>1. /\ check_itc' = Cleared(check_itc, {c}) /\ checks' = {k \in checks : k[2] # c}
        /\ UNCHANGED <<maps, itc>>
    BY <1>8 DEF ItcCheckDelete, lists
  <2>2. ASSUME NEW k \in checks', k[1] # None, k[2] # None
        PROVE  check_itc'[k[2]] = itc'[k[1]]
    <3>1. k \in checks /\ k[2] # c /\ k[2] \in itc_checks
      BY <2>1, <2>2 DEF TypeOK, Or
    <3> QED BY <2>1, <2>2, <3>1 DEF SameTemplate, Cleared, TypeOK
  <2> QED BY <2>1, <2>2 DEF SameTemplate, ChecklistHasTemplate
<1>9. ASSUME NEW x \in GenericId, GenericCheckDelete(x) PROVE TemplateInv'
  <2> DEFINE gone == {c \in itc_checks : check_text[c] = x}
  <2>1. /\ check_itc' = Cleared(check_itc, gone) /\ checks' = Orphaned({}, gone)
        /\ UNCHANGED <<maps, itc>>
    BY <1>9 DEF GenericCheckDelete, lists
  <2>2. \A c \in itc_checks \ gone : check_itc'[c] = check_itc[c]
    BY <2>1 DEF Cleared, TypeOK
  <2>3. /\ \A m \in maps \ {} : itc'[m] = itc[m]
        /\ \A m \in maps \ {}, c \in itc_checks \ gone :
             check_itc[c] = itc[m] => check_itc'[c] = check_itc[c]
    BY <2>1, <2>2
  <2> HIDE DEF gone
  <2>4. SameTemplate'
    BY <2>1, <2>3, OrphanedSame
  <2> QED BY <2>1, <2>4 DEF ChecklistHasTemplate
<1>10. ASSUME \/ UNCHANGED vars
              \/ \E p \in ItpId : ItpNew(p) \/ ItpDelete(p)
              \/ \E d \in DeliverableId : DeliverableDelete(d)
              \/ \E m \in MapId, n \in 0 .. MaxNumber : ItcEdit(m, n)
              \/ \E t \in ItcId, g \in Or(Group) : ItcGeneralNew(t, g) \/ ItcGeneralEdit(t, g)
              \/ \E c \in ItcCheckId, x \in GenericId : ItcCheckEdit(c, x)
              \/ \E x \in GenericId : GenericCheckNew(x)
       PROVE  UNCHANGED <<maps, itc, check_itc, checks>>
  BY <1>10 DEF vars, ItpNew, ItpDelete, DeliverableDelete, ItcEdit, ItcGeneralNew,
     ItcGeneralEdit, ItcCheckEdit, GenericCheckNew, texts, lists
<1> QED BY <1>1, <1>2, <1>3, <1>4, <1>5, <1>6, <1>7, <1>8, <1>9, <1>10 DEF Next

LEMMA TemplateInvariant == Spec => []TemplateInv
<1>1. Init => TemplateInv
  BY DEF Init, TemplateInv, ChecklistHasTemplate, SameTemplate
<1> QED BY <1>1, TypeCorrect, TemplateInductive, PTL DEF Spec

\* No deletion leaves a checklist without its template.
THEOREM ChecklistHasTemplateHolds == Spec => []ChecklistHasTemplate
<1>1. TemplateInv => ChecklistHasTemplate BY DEF TemplateInv
<1> QED BY <1>1, TemplateInvariant, PTL

\* A check that a checklist shows is one of its template.
THEOREM SameTemplateHolds == Spec => []SameTemplate
<1>1. TemplateInv => SameTemplate BY DEF TemplateInv
<1> QED BY <1>1, TemplateInvariant, PTL

-----------------------------------------------------------------------------
(* The numbers of the checklists within their groups. *)

\* The two halves of Numbered: no template twice, and one group numbered 1, 2, 3 ...
Distinct(d) == \A m, n \in MapsOf(d) : itc[m] = itc[n] => m = n
NumberedIn(d, g) ==
  /\ \A m \in Peers(d, g) : number[m] \in 1 .. Cardinality(Peers(d, g))
  /\ \A m, n \in Peers(d, g) : number[m] = number[n] => m = n

LEMMA NumberedParts ==
  ASSUME NEW d
  PROVE  Numbered(d) <=> Distinct(d) /\ \A g \in Or(Group) : NumberedIn(d, g)
BY DEF Numbered, Distinct, NumberedIn

LEMMA NumberedPartsNext ==
  ASSUME NEW d
  PROVE  Numbered(d)' <=> Distinct(d)' /\ \A g \in Or(Group) : NumberedIn(d, g)'
BY DEF Numbered, Distinct, NumberedIn

\* A request that leaves the checklists of d, their numbers and their groups alone.
LEMMA SameNumbered ==
  ASSUME NEW d, Numbered(d), MapsOf(d)' = MapsOf(d),
         \A m \in MapsOf(d) : /\ itc'[m] = itc[m] /\ number'[m] = number[m]
                              /\ group'[itc[m]] = group[itc[m]]
  PROVE  Numbered(d)'
<1>1. \A g : Peers(d, g)' = Peers(d, g)
  BY DEF Peers
<1>2. \A g : Peers(d, g) \subseteq MapsOf(d)
  BY DEF Peers
<1>3. Distinct(d)'
  BY NumberedParts DEF Distinct
<1>4. ASSUME NEW g \in Or(Group) PROVE NumberedIn(d, g)'
  <2>1. NumberedIn(d, g)
    BY NumberedParts
  <2> QED BY <1>1, <1>2, <2>1 DEF NumberedIn
<1> QED BY <1>3, <1>4, NumberedPartsNext

LEMMA PeersFinite ==
  ASSUME TypeOK, NEW d, NEW g
  PROVE  /\ IsFiniteSet(Peers(d, g)) /\ Cardinality(Peers(d, g)) \in Nat
         /\ Peers(d, g) \subseteq MapId
<1>1. Peers(d, g) \subseteq MapId
  BY DEF Peers, MapsOf, TypeOK
<1> QED BY <1>1, PlanAssumption, FS_Subset, FS_CardinalityType

\* Where no template is listed twice, the handlers' count of a group's templates is the
\* number of its checklists.
LEMMA CountsArePeers ==
  ASSUME TypeOK, NEW d, Distinct(d), NEW g
  PROVE  Counts({itc[k] : k \in MapsOf(d)}, g) = Cardinality(Peers(d, g))
<1> DEFINE S == Peers(d, g)
           T == {t \in {itc[k] : k \in MapsOf(d)} : group[t] = g}
           b == [m \in S |-> itc[m]]
<1>1. b \in [S -> T]
  BY DEF Peers
<1>2. \A m, n \in S : b[m] = b[n] => m = n
  BY DEF Distinct, Peers
<1>3. \A t \in T : \E m \in S : b[m] = t
  BY DEF Peers
<1> HIDE DEF S, T, b
<1>4. b \in Bijection(S, T)
  BY <1>1, <1>2, <1>3 DEF Bijection, Injection, IsInjective, Surjection
<1>5. ExistsBijection(S, T)
  BY <1>4 DEF ExistsBijection
<1>6. IsFiniteSet(S)
  BY PeersFinite DEF S
<1> QED BY <1>5, <1>6, FS_Bijection DEF S, T, Counts

\* A template that is not listed yet gets the number behind the others of its group.
LEMMA AddKeepsNumbers ==
  ASSUME TypeOK, NEW d \in deliverables, Numbered(d), NEW m \in MapId,
         NEW t \in ItcId, t \notin {itc[n] : n \in MapsOf(d)}, ItcAdd(m, d, t)
  PROVE  Numbered(d)'
<1> DEFINE S == {itc[n] : n \in MapsOf(d)}
           c == Cardinality(Peers(d, group[t]))
<1>1. /\ m \in MapId \ maps /\ maps' = maps \cup {m}
      /\ deliverable' = [deliverable EXCEPT ![m] = d]
      /\ itc' = [itc EXCEPT ![m] = t]
      /\ number' = [number EXCEPT ![m] = Counts(S \cup {t}, group[t])]
      /\ group' = group
  BY DEF ItcAdd, templates
<1>2. Distinct(d) /\ \A g \in Or(Group) : NumberedIn(d, g)
  BY NumberedParts
<1>3. /\ m \notin MapsOf(d) /\ MapsOf(d) \subseteq MapId
      /\ MapsOf(d)' = MapsOf(d) \cup {m}
  BY <1>1 DEF MapsOf, TypeOK
<1>4. itc'[m] = t /\ \A n \in MapsOf(d) : itc'[n] = itc[n]
  BY <1>1, <1>3 DEF TypeOK
<1>5. Counts(S \cup {t}, group[t]) = c + 1
  <2> DEFINE T == {u \in S : group[u] = group[t]}
  <2>1. {u \in S \cup {t} : group[u] = group[t]} = T \cup {t} /\ t \notin T
    OBVIOUS
  <2>2. Cardinality(T) = c
    BY <1>2, CountsArePeers DEF Counts
  <2>3. IsFiniteSet(T)
    <3>1. S \subseteq Or(ItcId)
      BY <1>3 DEF TypeOK, Or
    <3>2. IsFiniteSet(Or(ItcId))
      BY PlanAssumption, FS_AddElement DEF Or
    <3> QED BY <3>1, <3>2, FS_Subset
  <2> HIDE DEF T
  <2> QED BY <2>1, <2>2, <2>3, FS_AddElement DEF Counts
<1> HIDE DEF S, c
<1>6. number'[m] = c + 1 /\ \A n \in MapsOf(d) : number'[n] = number[n]
  BY <1>1, <1>3, <1>5 DEF TypeOK
<1>7. Distinct(d)'
  <2>1. \A n \in MapsOf(d) : itc[n] # t
    OBVIOUS
  <2> QED BY <1>2, <1>3, <1>4, <2>1 DEF Distinct
<1>8. ASSUME NEW g \in Or(Group), g # group[t] PROVE NumberedIn(d, g)'
  <2>1. Peers(d, g)' = Peers(d, g)
    BY <1>1, <1>3, <1>4, <1>8 DEF Peers
  <2>2. \A n \in Peers(d, g) : number'[n] = number[n]
    BY <1>6 DEF Peers
  <2>3. NumberedIn(d, g)
    BY <1>2
  <2> QED BY <2>1, <2>2, <2>3 DEF NumberedIn
<1>9. ASSUME NEW g \in Or(Group), g = group[t] PROVE NumberedIn(d, g)'
  <2> DEFINE P == Peers(d, g)
  <2>1. Peers(d, g)' = P \cup {m} /\ m \notin P
    BY <1>1, <1>3, <1>4, <1>9 DEF Peers
  <2>2. c \in Nat /\ Cardinality(P \cup {m}) = c + 1 /\ c = Cardinality(P)
    BY <1>9, <2>1, PeersFinite, FS_AddElement DEF c
  <2>3. \A n \in P : number'[n] = number[n]
    BY <1>6 DEF Peers
  <2>4. /\ \A n \in P : number[n] \in 1 .. c
        /\ \A x, y \in P : number[x] = number[y] => x = y
    BY <1>2, <2>2 DEF NumberedIn
  <2> HIDE DEF P
  <2>5. \A n \in P \cup {m} : number'[n] \in 1 .. c + 1
    BY <1>6, <2>2, <2>3, <2>4
  <2>6. \A x, y \in P \cup {m} : number'[x] = number'[y] => x = y
    BY <1>6, <2>2, <2>3, <2>4
  <2> QED BY <2>1, <2>2, <2>5, <2>6 DEF NumberedIn
<1> QED BY <1>7, <1>8, <1>9, NumberedPartsNext

\* A checklist that is moved towards the front or to the end of its group.
LEMMA MoveKeepsNumbers ==
  ASSUME TypeOK, NEW d \in deliverables, Numbered(d), NEW m \in MapsOf(d),
         NEW n \in Nat \ {0},
         n <= number[m] \/ n >= Cardinality(Peers(d, group[itc[m]])), ItcEdit(m, n)
  PROVE  Numbered(d)'
<1> DEFINE h == group[itc[m]]
           P == Peers(d, h)
           c == Cardinality(P)
<1>1. /\ number' = Moved(m, n) /\ deliverable[m] = d
      /\ UNCHANGED <<group, maps, deliverable, itc>>
  BY DEF ItcEdit, MapsOf, templates
<1>2. MapsOf(d)' = MapsOf(d) /\ MapsOf(d) \subseteq MapId
  BY <1>1 DEF MapsOf, TypeOK
<1>3. Distinct(d) /\ \A g \in Or(Group) : NumberedIn(d, g)
  BY NumberedParts
<1>4. CASE n = number[m]
  <2>1. number' = number
    BY <1>1, <1>4 DEF Moved
  <2> QED BY <1>1, <1>2, <2>1, SameNumbered
<1>5. CASE n # number[m]
  <2>1. Counts({itc[k] : k \in MapsOf(d)}, h) = c
    BY <1>3, CountsArePeers
  <2>2. number' =
          [k \in MapId |->
             IF k = m THEN IF n >= c THEN c ELSE n
             ELSE IF /\ k \in MapsOf(d) /\ group[itc[k]] = h
                     /\ n >= c /\ number[k] > number[m] THEN number[k] - 1
             ELSE IF /\ k \in MapsOf(d) /\ group[itc[k]] = h
                     /\ n < c /\ number[k] >= n /\ number[k] < number[m] THEN number[k] + 1
             ELSE number[k]]
    BY <1>1, <1>5, <2>1 DEF Moved
  <2>3. \A g : Peers(d, g)' = Peers(d, g) /\ Peers(d, g) \subseteq MapsOf(d)
    BY <1>1, <1>2 DEF Peers
  <2>4. Distinct(d)'
    BY <1>1, <1>2, <1>3 DEF Distinct
  <2>5. ASSUME NEW g \in Or(Group), g # h PROVE NumberedIn(d, g)'
    <3>1. \A k \in Peers(d, g) : k \in MapId /\ k # m /\ group[itc[k]] # h
      BY <1>2, <2>5 DEF Peers
    <3>2. \A k \in Peers(d, g) : number'[k] = number[k]
      BY <2>2, <3>1
    <3>3. NumberedIn(d, g)
      BY <1>3
    <3> QED BY <2>3, <3>2, <3>3 DEF NumberedIn
  <2>6. ASSUME h \in Or(Group) PROVE NumberedIn(d, h)'
    <3>1. c \in Nat /\ m \in P /\ P \subseteq MapId
      BY PeersFinite DEF Peers
    <3>2. /\ \A k \in P : number[k] \in 1 .. c
          /\ \A x, y \in P : number[x] = number[y] => x = y
      BY <1>3, <2>6 DEF NumberedIn
    <3>3. \A k \in P :
            number'[k] =
              IF k = m THEN IF n >= c THEN c ELSE n
              ELSE IF n >= c /\ number[k] > number[m] THEN number[k] - 1
              ELSE IF n < c /\ number[k] >= n /\ number[k] < number[m] THEN number[k] + 1
              ELSE number[k]
      <4>1. \A k \in P : k \in MapId /\ k \in MapsOf(d) /\ group[itc[k]] = h
        BY <3>1 DEF Peers
      <4> HIDE DEF P, c, h
      <4> QED BY <2>2, <4>1
    <3>4. n <= number[m] \/ n >= c
      OBVIOUS
    <3> HIDE DEF P, c
    <3>5. \A k \in P : number'[k] \in 1 .. c
      BY <3>1, <3>2, <3>3, <3>4
    <3>6. ASSUME NEW x \in P, NEW y \in P, number'[x] = number'[y] PROVE x = y
      <4>1. /\ number[x] # number[m] \/ x = m
            /\ number[y] # number[m] \/ y = m
            /\ number[x] # number[y] \/ x = y
        BY <3>1, <3>2
      <4>2. CASE n >= c
        BY <3>1, <3>2, <3>3, <3>6, <4>1, <4>2
      <4>3. CASE n < c
        BY <3>1, <3>2, <3>3, <3>4, <3>6, <4>1, <4>3
      <4> QED BY <3>1, <4>2, <4>3
    <3>7. Peers(d, h)' = P /\ h' = h
      BY <1>1, <2>3 DEF P
    <3> QED BY <3>5, <3>6, <3>7 DEF NumberedIn, P, c
  <2>7. \A g \in Or(Group) : NumberedIn(d, g)'
    <3>1. SUFFICES ASSUME NEW g \in Or(Group) PROVE NumberedIn(d, g)'
      OBVIOUS
    <3>2. CASE g = h
      <4>1. NumberedIn(d, h)' /\ h' = h
        BY <1>1, <2>6, <3>2
      <4> QED BY <3>2, <4>1 DEF NumberedIn, Peers
    <3> QED BY <2>5, <3>2
  <2> QED BY <2>4, <2>7, NumberedPartsNext
<1> QED BY <1>4, <1>5

\* A checklist is deleted behind which there are only checklists of its own group.
LEMMA DeleteKeepsNumbers ==
  ASSUME TypeOK, NEW d \in deliverables, Numbered(d), NEW m \in MapsOf(d), ItcDelete(m),
         \A k \in MapsOf(d) : group[itc[k]] # group[itc[m]] => ~(number[k] > number[m])
  PROVE  Numbered(d)'
<1> DEFINE h == group[itc[m]]
           P == Peers(d, h)
           c == Cardinality(P)
<1>1. Distinct(d) /\ \A g \in Or(Group) : NumberedIn(d, g)
  BY NumberedParts
<1>2. Counts({itc[k] : k \in MapsOf(d)}, h) = c
  BY <1>1, CountsArePeers
<1>3. /\ maps' = maps \ {m} /\ deliverable' = Cleared(deliverable, {m})
      /\ itc' = Cleared(itc, {m}) /\ group' = group
      /\ number' = [k \in MapId |->
           IF k = m THEN 0
           ELSE IF number[m] < c /\ k \in MapsOf(d) /\ number[k] > number[m]
                THEN number[k] - 1 ELSE number[k]]
  BY <1>2 DEF ItcDelete, MapsOf, templates
<1>4. MapsOf(d) \subseteq MapId /\ MapsOf(d)' = MapsOf(d) \ {m}
  BY <1>3 DEF MapsOf, TypeOK, Cleared
<1>5. \A k \in MapsOf(d) \ {m} : itc'[k] = itc[k]
  BY <1>3, <1>4 DEF TypeOK, Cleared
<1>6. \A g : Peers(d, g)' = Peers(d, g) \ {m}
  BY <1>3, <1>4, <1>5 DEF Peers
<1>7. Distinct(d)'
  BY <1>1, <1>4, <1>5 DEF Distinct
<1>8. ASSUME NEW g \in Or(Group), g # h PROVE NumberedIn(d, g)'
  <2>1. m \notin Peers(d, g) /\ Peers(d, g) \subseteq MapId
    BY <1>4, <1>8 DEF Peers
  <2>2. \A k \in Peers(d, g) : ~(number[k] > number[m])
    BY <1>8 DEF Peers
  <2>3. \A k \in Peers(d, g) : number'[k] = number[k]
    BY <1>3, <2>1, <2>2
  <2>4. Peers(d, g)' = Peers(d, g) /\ NumberedIn(d, g)
    BY <1>1, <1>6, <2>1
  <2> QED BY <2>3, <2>4 DEF NumberedIn
<1>9. ASSUME NEW g \in Or(Group), g = h PROVE NumberedIn(d, g)'
  <2>1. c \in Nat /\ m \in P /\ P \subseteq MapId /\ Cardinality(P \ {m}) = c - 1
    <3>1. c \in Nat /\ IsFiniteSet(P) /\ P \subseteq MapId
      BY PeersFinite
    <3>2. m \in P
      BY DEF Peers
    <3> HIDE DEF P
    <3> QED BY <3>1, <3>2, FS_RemoveElement
  <2>2. /\ \A k \in P : number[k] \in 1 .. c
        /\ \A x, y \in P : number[x] = number[y] => x = y
    BY <1>1, <1>9 DEF NumberedIn
  <2>3. \A k \in P \ {m} :
          number'[k] = IF number[m] < c /\ number[k] > number[m] THEN number[k] - 1
                       ELSE number[k]
    <3>1. \A k \in P \ {m} : k \in MapId /\ k # m /\ k \in MapsOf(d)
      BY <2>1 DEF Peers
    <3> HIDE DEF P, c
    <3> QED BY <1>3, <3>1
  <2> HIDE DEF P, c
  <2>4. \A k \in P \ {m} : number[k] # number[m]
    BY <2>1, <2>2
  <2>5. \A k \in P \ {m} : number'[k] \in 1 .. c - 1
    BY <2>1, <2>2, <2>3, <2>4
  <2>6. \A x, y \in P \ {m} : number'[x] = number'[y] => x = y
    BY <2>1, <2>2, <2>3, <2>4
  <2>7. Peers(d, g)' = P \ {m}
    BY <1>6, <1>9 DEF P
  <2> QED BY <2>1, <2>5, <2>6, <2>7 DEF NumberedIn
<1> QED BY <1>7, <1>8, <1>9, NumberedPartsNext

LEMMA GroupsStep ==
  ASSUME TypeOK, ChecklistHasTemplate, [Next]_vars, NEW d \in deliverables \cap deliverables',
         Numbered(d)
  PROVE  Numbered(d)' \/ Misnumbers(d)
<1> DEFINE Mine == MapsOf(d)
<1>0. d \in DeliverableId /\ d # None
  BY PlanAssumption DEF TypeOK
<1>a. Mine \subseteq MapId /\ \A m \in Mine : itc[m] \in itcs
  BY DEF TypeOK, MapsOf, ChecklistHasTemplate, Or
<1>1. CASE UNCHANGED <<maps, deliverable, itc, number, group>>
  <2>1. MapsOf(d)' = MapsOf(d)
    BY <1>1 DEF MapsOf
  <2> QED BY <1>1, <2>1, SameNumbered
<1>2. ASSUME NEW p \in ItpId, NEW e \in DeliverableId, NEW y \in Type, DeliverableNew(p, e, y)
      PROVE  Numbered(d)'
  <2> DEFINE made == {t \in itcs : TypeOf[t] = y}
  <2>1. PICK new \in SUBSET (MapId \ maps) :
          \E of \in [new -> made], num \in [new -> 1 .. Cardinality(made)] :
            MakeLists(e, new, of, num)
    BY <1>2 DEF DeliverableNew
  <2>2. PICK of \in [new -> made], num \in [new -> 1 .. Cardinality(made)] :
          MakeLists(e, new, of, num)
    BY <2>1
  <2>3. e # d /\ group' = group
    BY <1>2 DEF DeliverableNew, templates
  <2>4. MapsOf(d)' = MapsOf(d)
    BY <2>2, <2>3 DEF MakeLists, MapsOf, TypeOK
  <2>5. \A m \in MapsOf(d) : m \in MapId /\ m \notin new
    BY <1>a DEF MapsOf
  <2>6. \A m \in MapsOf(d) : itc'[m] = itc[m] /\ number'[m] = number[m]
    BY <2>2, <2>5 DEF MakeLists
  <2> QED BY <2>3, <2>4, <2>6, SameNumbered
<1>3. ASSUME NEW e \in DeliverableId, DeliverableDelete(e) PROVE Numbered(d)'
  <2>1. /\ deliverables' = deliverables \ {e} /\ deliverable' = Unlinked(deliverable, {e})
        /\ UNCHANGED <<group, maps, itc, number>>
    BY <1>3 DEF DeliverableDelete, templates
  <2>2. e # d
    BY <2>1
  <2>3. MapsOf(d)' = MapsOf(d)
    BY <1>0, <2>1, <2>2 DEF MapsOf, Unlinked, TypeOK
  <2> QED BY <2>1, <2>3, SameNumbered
<1>4. ASSUME NEW m \in MapId, NEW e \in DeliverableId, NEW t \in ItcId, ItcAdd(m, e, t)
      PROVE  Numbered(d)' \/ Misnumbers(d)
  <2>1. CASE e # d
    <3> DEFINE c == Counts({itc[n] : n \in MapsOf(e)} \cup {t}, group[t])
    <3>1. /\ m \in MapId \ maps /\ maps' = maps \cup {m}
          /\ deliverable' = [deliverable EXCEPT ![m] = e]
          /\ itc' = [itc EXCEPT ![m] = t] /\ number' = [number EXCEPT ![m] = c]
          /\ group' = group
      BY <1>4 DEF ItcAdd, templates
    <3> HIDE DEF c
    <3>2. MapsOf(d)' = MapsOf(d)
      BY <2>1, <3>1 DEF MapsOf, TypeOK
    <3>3. \A n \in MapsOf(d) : itc'[n] = itc[n] /\ number'[n] = number[n]
      BY <3>1 DEF MapsOf, TypeOK
    <3> QED BY <3>1, <3>2, <3>3, SameNumbered
  <2>2. CASE e = d /\ t \in {itc[n] : n \in MapsOf(d)}
    BY <1>4, <2>2 DEF Misnumbers
  <2>3. CASE e = d /\ t \notin {itc[n] : n \in MapsOf(d)}
    BY <1>4, <2>3, AddKeepsNumbers
  <2> QED BY <2>1, <2>2, <2>3
<1>5. ASSUME NEW m \in MapId, NEW n \in 0 .. MaxNumber, ItcEdit(m, n)
      PROVE  Numbered(d)' \/ Misnumbers(d)
  <2>1. number' = Moved(m, n) /\ m \in maps /\ UNCHANGED <<group, maps, deliverable, itc>>
    BY <1>5 DEF ItcEdit, Listed, templates
  <2>2. MapsOf(d)' = MapsOf(d)
    BY <2>1 DEF MapsOf
  <2>3. CASE m \notin MapsOf(d)
    <3>1. \A k \in MapsOf(d) : k \in MapId /\ k # m /\ k \notin MapsOf(deliverable[m])
      BY <1>a, <2>1, <2>3 DEF MapsOf
    <3>2. \A k \in MapsOf(d) : number'[k] = number[k]
      BY <2>1, <3>1 DEF Moved
    <3> QED BY <2>1, <2>2, <3>2, SameNumbered
  <2>4. CASE m \in MapsOf(d)
    <3> DEFINE c == Cardinality(Peers(d, group[itc[m]]))
    <3>1. CASE n = 0 \/ (n > number[m] /\ n < c)
      BY <1>5, <2>4, <3>1 DEF Misnumbers
    <3>2. CASE ~(n = 0 \/ (n > number[m] /\ n < c))
      <4>1. n \in Nat \ {0} /\ number[m] \in Nat /\ c \in Nat
        BY <1>a, <2>4, <3>2, PlanAssumption, PeersFinite DEF TypeOK
      <4> HIDE DEF c
      <4>2. n <= number[m] \/ n >= c
        BY <3>2, <4>1
      <4> QED BY <1>5, <2>4, <4>1, <4>2, MoveKeepsNumbers DEF c
    <3> QED BY <3>1, <3>2
  <2> QED BY <2>3, <2>4
<1>6. ASSUME NEW m \in MapId, ItcDelete(m) PROVE Numbered(d)' \/ Misnumbers(d)
  <2>1. CASE m \notin MapsOf(d)
    <3> DEFINE all == MapsOf(deliverable[m])
               c == Counts({itc[k] : k \in all}, group[itc[m]])
    <3>1. /\ m \in maps /\ maps' = maps \ {m} /\ deliverable' = Cleared(deliverable, {m})
          /\ itc' = Cleared(itc, {m}) /\ group' = group
          /\ number' = [k \in MapId |->
               IF k = m THEN 0
               ELSE IF number[m] < c /\ k \in all /\ number[k] > number[m]
                    THEN number[k] - 1 ELSE number[k]]
      BY <1>6 DEF ItcDelete, Listed, templates
    <3> HIDE DEF c
    <3>2. \A k \in MapsOf(d) : k \in MapId /\ k # m /\ k \notin all
      BY <1>a, <2>1, <3>1 DEF MapsOf
    <3>3. MapsOf(d)' = MapsOf(d)
      BY <1>0, <2>1, <3>1 DEF MapsOf, TypeOK, Cleared
    <3>4. \A k \in MapsOf(d) : itc'[k] = itc[k] /\ number'[k] = number[k]
      BY <3>1, <3>2 DEF TypeOK, Cleared
    <3> QED BY <3>1, <3>3, <3>4, SameNumbered
  <2>2. CASE m \in MapsOf(d)
    <3>1. CASE \E k \in MapsOf(d) : group[itc[k]] # group[itc[m]] /\ number[k] > number[m]
      BY <1>6, <2>2, <3>1 DEF Misnumbers
    <3>2. CASE ~\E k \in MapsOf(d) : group[itc[k]] # group[itc[m]] /\ number[k] > number[m]
      BY <1>6, <2>2, <3>2, DeleteKeepsNumbers
    <3> QED BY <3>1, <3>2
  <2> QED BY <2>1, <2>2
<1>7. ASSUME NEW t \in ItcId, NEW g \in Or(Group), ItcGeneralNew(t, g) \/ ItcGeneralEdit(t, g)
      PROVE  Numbered(d)' \/ Misnumbers(d)
  <2>1. group' = [group EXCEPT ![t] = g] /\ UNCHANGED <<maps, deliverable, itc, number>>
    BY <1>7 DEF ItcGeneralNew, ItcGeneralEdit, lists
  <2>2. MapsOf(d)' = MapsOf(d)
    BY <2>1 DEF MapsOf
  <2>3. CASE t \notin {itc[n] : n \in MapsOf(d)}
    <3>1. \A m \in MapsOf(d) : itc[m] # t /\ itc[m] \in ItcId
      BY <1>a, <2>3 DEF TypeOK
    <3>2. \A m \in MapsOf(d) : group'[itc[m]] = group[itc[m]]
      BY <2>1, <3>1 DEF TypeOK
    <3> QED BY <2>1, <2>2, <3>2, SameNumbered
  <2>4. CASE t \in {itc[n] : n \in MapsOf(d)}
    <3>1. ~ItcGeneralNew(t, g)
      BY <1>a, <2>4 DEF ItcGeneralNew
    <3> QED BY <1>7, <2>4, <3>1 DEF Misnumbers
  <2> QED BY <2>3, <2>4
<1>8. ASSUME NEW t \in ItcId, ItcGeneralDelete(t) PROVE Numbered(d)' \/ Misnumbers(d)
  <2> DEFINE gone == {m \in maps : itc[m] = t}
  <2>1. CASE t \in {itc[n] : n \in MapsOf(d)}
    BY <1>8, <2>1 DEF Misnumbers
  <2>2. CASE t \notin {itc[n] : n \in MapsOf(d)}
    <3>1. /\ maps' = maps \ gone /\ deliverable' = Cleared(deliverable, gone)
          /\ itc' = Cleared(itc, gone) /\ group' = Cleared(group, {t})
          /\ number' = [m \in MapId |-> IF m \in gone THEN 0 ELSE number[m]]
      BY <1>8 DEF ItcGeneralDelete
    <3>2. \A m \in MapsOf(d) : m \in MapId /\ m \notin gone /\ itc[m] # t /\ itc[m] \in ItcId
      BY <1>a, <2>2 DEF TypeOK
    <3> HIDE DEF gone
    <3>3. MapsOf(d)' = MapsOf(d)
      BY <1>0, <3>1, <3>2 DEF MapsOf, TypeOK, Cleared
    <3>4. \A m \in MapsOf(d) : /\ itc'[m] = itc[m] /\ number'[m] = number[m]
                               /\ group'[itc[m]] = group[itc[m]]
      BY <3>1, <3>2 DEF TypeOK, Cleared
    <3> QED BY <3>3, <3>4, SameNumbered
  <2> QED BY <2>1, <2>2
<1>9. ASSUME \/ UNCHANGED vars
             \/ \E p \in ItpId : ItpNew(p) \/ ItpDelete(p)
             \/ \E m \in MapId : StartTesting(m)
             \/ \E c \in ItcCheckId, t \in ItcId, x \in GenericId : ItcCheckNew(c, t, x)
             \/ \E c \in ItcCheckId :
                  ItcCheckDelete(c) \/ \E x \in GenericId : ItcCheckEdit(c, x)
             \/ \E x \in GenericId : GenericCheckNew(x) \/ GenericCheckDelete(x)
      PROVE  UNCHANGED <<maps, deliverable, itc, number, group>>
  BY <1>9 DEF vars, ItpNew, ItpDelete, StartTesting, ItcCheckNew, ItcCheckDelete,
     ItcCheckEdit, GenericCheckNew, GenericCheckDelete, templates, lists
<1> QED BY <1>1, <1>2, <1>3, <1>4, <1>5, <1>6, <1>7, <1>8, <1>9 DEF Next

\* Whatever is created, moved and deleted, the checklists of a deliverable stay numbered
\* 1, 2, 3 ... within their groups, except by the requests that Misnumbers names: apart
\* from those, the renumbering in app/controllers.py is right for any number of checklists.
THEOREM GroupsKeptHolds == Spec => GroupsKept
<1>1. TypeOK /\ TemplateInv /\ [Next]_vars
        => [\A d \in deliverables \cap deliverables' :
              Numbered(d) => Numbered(d)' \/ Misnumbers(d)]_vars
  BY GroupsStep DEF TemplateInv
<1> QED BY <1>1, TypeCorrect, TemplateInvariant, PTL DEF Spec, GroupsKept
=============================================================================
