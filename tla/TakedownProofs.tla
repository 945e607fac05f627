--------------------------- MODULE TakedownProofs ---------------------------
(***************************************************************************)
(* Theorems about Takedown, for any number of threads, incidents, cases    *)
(* and restarts.                                                           *)
(***************************************************************************)
EXTENDS Takedown, TLAPS

USE TakedownAssumption

(* Types hold at the start.                                                *)
LEMMA TypeInit == Init => TypeOK
BY DEF Init, TypeOK, NoIncidents, NoCases, NoIncident, NoCase,
       IncidentRecord, CaseRecord, IncidentStatus, CaseStatus, Place,
       Persisting

(* Changing one field of a record keeps its section well typed.            *)
LEMMA IncidentUpdate ==
    ASSUME incidents \in [Incident -> IncidentRecord], NEW i,
           NEW s \in IncidentStatus, NEW c \in Case \cup {None}
    PROVE  /\ [incidents EXCEPT ![i].status = s]
                  \in [Incident -> IncidentRecord]
           /\ [incidents EXCEPT ![i].case = c] \in [Incident -> IncidentRecord]
BY DEF IncidentRecord

(* Moving a case on, or logging it, keeps the types of the cases.          *)
LEMMA CaseStep ==
    ASSUME cases \in [Case -> CaseRecord], NEW c, NEW s \in CaseStatus
    PROVE  /\ [cases EXCEPT ![c].status = s] \in [Case -> CaseRecord]
           /\ [cases EXCEPT ![c].logged = s] \in [Case -> CaseRecord]
BY DEF CaseRecord

(* Types are kept by every step.                                           *)
LEMMA TypeNext == TypeOK /\ LocalsFit /\ [Next]_vars => TypeOK'
<1> SUFFICES ASSUME TypeOK, LocalsFit, [Next]_vars PROVE TypeOK'
  OBVIOUS
<1> USE DEF TypeOK, Goto, Save, Leave, Forget, Place, Persisting,
            memory, disk, locals, snapshots
<1>1. ASSUME NEW t \in Thread, NEW i \in Incident, OpenIncident(t, i)
      PROVE  TypeOK'
  BY <1>1, IncidentUpdate DEF OpenIncident, IncidentStatus
<1>2. ASSUME NEW t \in Thread, OtherRequest(t) PROVE TypeOK'
  BY <1>2 DEF OtherRequest
<1>3. ASSUME NEW t \in Thread, NEW i \in Incident,
             NEW d \in {"allow", "remove"}, Decide(t, i, d)
      PROVE  TypeOK'
  BY <1>3 DEF Decide
<1>4. ASSUME NEW t \in Thread, Allow(t) PROVE TypeOK'
  BY <1>4, IncidentUpdate DEF Allow, IncidentStatus
<1>5. ASSUME NEW t \in Thread, RequestRemoval(t) PROVE TypeOK'
  BY <1>5, IncidentUpdate DEF RequestRemoval, IncidentStatus
<1>6. ASSUME NEW t \in Thread, NEW c \in Case, FileCase(t, c) PROVE TypeOK'
  <2>1. cases' \in [Case -> CaseRecord]
    BY <1>6 DEF FileCase, CaseRecord, CaseStatus
  <2>. QED  BY <1>6, <2>1 DEF FileCase, CaseStatus
<1>7. ASSUME NEW t \in Thread, NEW c \in Case, NEW s \in CaseUpdate,
             UpdateCase(t, c, s)
      PROVE  TypeOK'
  BY <1>7 DEF UpdateCase
<1>8. ASSUME NEW t \in Thread, SetStatus(t) PROVE TypeOK'
  BY <1>8, CaseStep DEF SetStatus, LocalsFit
<1>9. ASSUME NEW t \in Thread, AppendHistory(t) PROVE TypeOK'
  <2>1. cases' \in [Case -> CaseRecord]
    BY <1>9, CaseStep DEF AppendHistory, LocalsFit
  <2>2. CASE inc[t] # None
    BY <1>9, <2>1, <2>2 DEF AppendHistory
  <2>3. CASE inc[t] = None
    BY <1>9, <2>1, <2>3 DEF AppendHistory
  <2>. QED  BY <2>2, <2>3
<1>10. ASSUME NEW t \in Thread, LinkCase(t) PROVE TypeOK'
  BY <1>10, IncidentUpdate DEF LinkCase, IncidentStatus
<1>11. ASSUME NEW t \in Thread, CloseIncident(t) PROVE TypeOK'
  BY <1>11, IncidentUpdate DEF CloseIncident, IncidentStatus
<1>12. ASSUME NEW t \in Thread, SaveAgain(t) PROVE TypeOK'
  BY <1>12 DEF SaveAgain
<1>13. ASSUME NEW t \in Thread, WalkIncidents(t) PROVE TypeOK'
  BY <1>13 DEF WalkIncidents
<1>14. ASSUME NEW t \in Thread, WalkCases(t) PROVE TypeOK'
  BY <1>14 DEF WalkCases
<1>15. NoIncidents \in [Incident -> IncidentRecord]
       /\ NoCases \in [Case -> CaseRecord]
  BY DEF NoIncidents, NoCases, NoIncident, NoCase, IncidentRecord, CaseRecord
<1>16. ASSUME NEW t \in Thread, ReplaceFile(t) PROVE TypeOK'
  <2>1. /\ diskIncidents' \in [Incident -> IncidentRecord]
        /\ diskCases' \in [Case -> CaseRecord]
        /\ snapIncidents' \in [Thread -> [Incident -> IncidentRecord]]
        /\ snapCases' \in [Thread -> [Case -> CaseRecord]]
        /\ UNCHANGED <<memory, restarts>>
    BY <1>15, <1>16 DEF ReplaceFile
  <2>2. /\ pc' \in [Thread -> Place] /\ arg' \in [Thread -> {"none", "allow",
                                              "remove"} \cup CaseStatus]
        /\ inc' \in [Thread -> Incident \cup {None}]
        /\ case' \in [Thread -> Case \cup {None}]
        /\ todo' \in [Thread -> {"idle", "save", "link"}]
    <3>1. CASE todo[t] = "idle"
      <4>1. Leave(t)
        BY <1>16, <3>1 DEF ReplaceFile
      <4>. QED  BY <4>1
    <3>2. CASE todo[t] # "idle"
      <4>1. pc' = [pc EXCEPT ![t] = todo[t]] /\ UNCHANGED locals
        BY <1>16, <3>2 DEF ReplaceFile
      <4>. QED  BY <3>2, <4>1
    <3>. QED  BY <3>1, <3>2
  <2>. QED  BY <2>1, <2>2
<1>17. ASSUME NEW t \in Thread, PersistFails(t) PROVE TypeOK'
  BY <1>15, <1>17 DEF PersistFails
<1>18. ASSUME Restart PROVE TypeOK'
  BY <1>15, <1>18 DEF Restart
<1>19. CASE UNCHANGED vars
  BY <1>19 DEF vars
<1>. QED
  BY <1>1, <1>2, <1>3, <1>4, <1>5, <1>6, <1>7, <1>8, <1>9, <1>10, <1>11,
     <1>12, <1>13, <1>14, <1>16, <1>17, <1>18, <1>19
  DEF Next, Request, Continue

-----------------------------------------------------------------------------
(* Cases that keep their incidents, or gain one, keep every link valid.    *)
LEMMA LinksSurvive ==
    ASSUME NEW incs \in [Incident -> IncidentRecord],
           NEW before, NEW after,
           \A c \in Case : before[c].incident # None
                              => after[c].incident = before[c].incident,
           LinkedCase(incs, before)
    PROVE  LinkedCase(incs, after)
BY DEF LinkedCase, IncidentRecord

(* No incident names a case when there is none.                            *)
LEMMA EmptyIsLinked == \A cs : LinkedCase(NoIncidents, cs)
BY DEF LinkedCase, NoIncidents, NoIncident

(* At the start no incident names a case.                                  *)
LEMMA LinkInit == Init => LinkInv
<1> SUFFICES ASSUME Init PROVE LinkInv
  OBVIOUS
<1>1. TypeOK
  BY TypeInit
<1>2. LocalsFit
  BY DEF Init, LocalsFit
<1>3. AbsentCasesUnowned
  BY DEF Init, AbsentCasesUnowned, NoCases, NoCase
<1>4. PartialSnapshotsLinked /\ LinkedCaseExists
  BY EmptyIsLinked DEF Init, PartialSnapshotsLinked, LinkedCaseExists
<1>. QED  BY <1>1, <1>2, <1>3, <1>4 DEF LinkInv

(* A step that changes neither the owners of cases nor the links of        *)
(* incidents nor the saved state leaves every link as it is.               *)
LEMMA QuietStep ==
    ASSUME LinkInv, NEW t \in Thread, TypeOK', LocalsFit',
           \A i \in Incident : incidents'[i].case = incidents[i].case,
           \A c \in Case : cases'[c].incident = cases[c].incident,
           \A c \in Case : cases[c].status # "absent"
                              => cases'[c].status # "absent",
           UNCHANGED <<disk, snapshots>>,
           \A u \in Thread : pc'[u] = "replace" => pc[u] = "replace"
    PROVE  LinkInv'
<1>1. AbsentCasesUnowned'
  BY DEF LinkInv, AbsentCasesUnowned, disk, snapshots
<1>2. PartialSnapshotsLinked'
  <2> SUFFICES ASSUME NEW u \in Thread
               PROVE  /\ LinkedCase(snapIncidents[u], cases')
                      /\ pc'[u] = "replace"
                            => LinkedCase(snapIncidents[u], snapCases[u])
    BY DEF PartialSnapshotsLinked, snapshots
  <2>1. /\ LinkedCase(snapIncidents[u], cases)
        /\ pc[u] = "replace" => LinkedCase(snapIncidents[u], snapCases[u])
        /\ snapIncidents[u] \in [Incident -> IncidentRecord]
    BY DEF LinkInv, PartialSnapshotsLinked, TypeOK
  <2>. QED  BY <2>1, LinksSurvive
<1>3. LinkedCaseExists'
  <2>1. LinkedCase(incidents, cases')
    <3>1. LinkedCase(incidents, cases)
          /\ incidents \in [Incident -> IncidentRecord]
      BY DEF LinkInv, LinkedCaseExists, TypeOK
    <3>. QED  BY <3>1, LinksSurvive
  <2>2. LinkedCase(incidents', cases')
    BY <2>1 DEF LinkedCase
  <2>. QED  BY <2>2 DEF LinkInv, LinkedCaseExists, disk
<1>. QED  BY <1>1, <1>2, <1>3 DEF LinkInv

(* Every step keeps the named cases in existence.                          *)
LEMMA LinkNext == LinkInv /\ [Next]_vars => LinkInv'
<1> SUFFICES ASSUME LinkInv, [Next]_vars PROVE LinkInv'
  OBVIOUS
<1>1. TypeOK' /\ TypeOK
  BY TypeNext DEF LinkInv
<1> USE DEF Goto, Save, Leave, Forget, memory, locals
<1>2. ASSUME NEW t \in Thread, NEW i \in Incident, OpenIncident(t, i)
      PROVE  LinkInv'
  <2>1. LocalsFit'
    BY <1>1, <1>2 DEF OpenIncident, LinkInv, LocalsFit, TypeOK
  <2>. QED  BY <1>1, <1>2, <2>1, QuietStep
            DEF OpenIncident, TypeOK, IncidentRecord
<1>3. ASSUME NEW t \in Thread, OtherRequest(t) PROVE LinkInv'
  <2>1. LocalsFit'
    BY <1>1, <1>3 DEF OtherRequest, LinkInv, LocalsFit, TypeOK
  <2>. QED  BY <1>1, <1>3, <2>1, QuietStep DEF OtherRequest, TypeOK
<1>4. ASSUME NEW t \in Thread, NEW i \in Incident,
             NEW d \in {"allow", "remove"}, Decide(t, i, d)
      PROVE  LinkInv'
  <2>1. LocalsFit'
    BY <1>1, <1>4 DEF Decide, LinkInv, LocalsFit, TypeOK
  <2>. QED  BY <1>1, <1>4, <2>1, QuietStep DEF Decide, TypeOK
<1>5. ASSUME NEW t \in Thread, Allow(t) PROVE LinkInv'
  <2>1. LocalsFit'
    BY <1>1, <1>5 DEF Allow, LinkInv, LocalsFit, TypeOK
  <2>. QED  BY <1>1, <1>5, <2>1, QuietStep DEF Allow, TypeOK, IncidentRecord
<1>6. ASSUME NEW t \in Thread, RequestRemoval(t) PROVE LinkInv'
  <2>1. LocalsFit'
    BY <1>1, <1>6 DEF RequestRemoval, LinkInv, LocalsFit, TypeOK
  <2>. QED  BY <1>1, <1>6, <2>1, QuietStep
            DEF RequestRemoval, TypeOK, IncidentRecord
<1>7. ASSUME NEW t \in Thread, NEW c \in Case, FileCase(t, c) PROVE LinkInv'
  <2>1. /\ inc[t] \in Incident /\ case[t] = None
        /\ cases[c].incident = None
        /\ cases'[c] = [incident |-> inc[t], status |-> "open",
                        logged |-> "open"]
        /\ \A d \in Case : d # c => cases'[d] = cases[d]
        /\ UNCHANGED <<incidents, disk, snapshots, inc>>
    BY <1>1, <1>7
       DEF FileCase, Exists, LinkInv, LocalsFit, AbsentCasesUnowned, TypeOK
  <2>2. \A d \in Case : cases[d].incident # None
                           => cases'[d].incident = cases[d].incident
    BY <2>1
  <2>3. LocalsFit'
    <3>1. ASSUME NEW u \in Thread, u # t
          PROVE  /\ pc'[u] = pc[u] /\ inc'[u] = inc[u]
                 /\ case'[u] = case[u] /\ arg'[u] = arg[u]
      BY <1>1, <1>7, <3>1 DEF FileCase, TypeOK
    <3>2. /\ pc'[t] = "transition" /\ case'[t] = c /\ arg'[t] = "reported"
          /\ inc'[t] = inc[t]
      BY <1>1, <1>7 DEF FileCase, TypeOK
    <3>3. \A u \in Thread : inc[u] # None /\ case[u] # None
                               => cases'[case[u]].incident = inc[u]
      BY <1>1, <2>2 DEF LinkInv, LocalsFit, TypeOK
    <3>. QED  BY <2>1, <3>1, <3>2, <3>3
              DEF LinkInv, LocalsFit, CaseStatus
  <2>4. AbsentCasesUnowned'
    BY <2>1 DEF LinkInv, AbsentCasesUnowned, disk, snapshots
  <2>5. \A u \in Thread : pc'[u] = "replace" => pc[u] = "replace"
    BY <1>1, <1>7 DEF FileCase, TypeOK
  <2>6. PartialSnapshotsLinked'
    <3> SUFFICES ASSUME NEW u \in Thread
                 PROVE  /\ LinkedCase(snapIncidents[u], cases')
                        /\ pc'[u] = "replace"
                              => LinkedCase(snapIncidents[u], snapCases[u])
      BY <2>1 DEF PartialSnapshotsLinked, snapshots
    <3>1. /\ LinkedCase(snapIncidents[u], cases)
          /\ pc[u] = "replace" => LinkedCase(snapIncidents[u], snapCases[u])
          /\ snapIncidents[u] \in [Incident -> IncidentRecord]
      BY <1>1 DEF LinkInv, PartialSnapshotsLinked, TypeOK
    <3>. QED  BY <2>2, <2>5, <3>1, LinksSurvive
  <2>7. LinkedCaseExists'
    BY <1>1, <2>1, <2>2, LinksSurvive
       DEF LinkInv, LinkedCaseExists, disk, TypeOK
  <2>. QED  BY <1>1, <2>3, <2>4, <2>6, <2>7 DEF LinkInv
<1>8. ASSUME NEW t \in Thread, NEW c \in Case, NEW s \in CaseUpdate,
             UpdateCase(t, c, s)
      PROVE  LinkInv'
  <2>1. LocalsFit'
    BY <1>1, <1>8 DEF UpdateCase, LinkInv, LocalsFit, TypeOK
  <2>. QED  BY <1>1, <1>8, <2>1, QuietStep DEF UpdateCase, TypeOK
<1>9. ASSUME NEW t \in Thread, SetStatus(t) PROVE LinkInv'
  <2>1. \A c \in Case : cases'[c].incident = cases[c].incident
    BY <1>1, <1>9 DEF SetStatus, TypeOK, CaseRecord
  <2>2. LocalsFit'
    BY <1>1, <1>9, <2>1 DEF SetStatus, LinkInv, LocalsFit, TypeOK
  <2>3. \A c \in Case : cases[c].status # "absent"
                           => cases'[c].status # "absent"
    BY <1>1, <1>9
       DEF SetStatus, LinkInv, LocalsFit, TypeOK, CaseRecord, CaseStatus
  <2>. QED  BY <1>1, <1>9, <2>1, <2>2, <2>3, QuietStep DEF SetStatus, TypeOK
<1>10. ASSUME NEW t \in Thread, AppendHistory(t) PROVE LinkInv'
  <2>1. \A c \in Case : /\ cases'[c].incident = cases[c].incident
                        /\ cases'[c].status = cases[c].status
    BY <1>1, <1>10 DEF AppendHistory, TypeOK, CaseRecord
  <2>2. /\ pc'[t] \in {"walk_incidents", "close"}
        /\ \A u \in Thread : u # t => pc'[u] = pc[u]
        /\ UNCHANGED <<incidents, disk, snapshots, inc, case, arg>>
    <3>1. CASE inc[t] # None
      BY <1>1, <1>10, <3>1 DEF AppendHistory, TypeOK
    <3>2. CASE inc[t] = None
      BY <1>1, <1>10, <3>2 DEF AppendHistory, TypeOK
    <3>. QED  BY <3>1, <3>2
  <2>3. LocalsFit'
    <3>1. \A u \in Thread : inc[u] # None /\ case[u] # None
                               => cases'[case[u]].incident = inc[u]
      BY <1>1, <2>1 DEF LinkInv, LocalsFit, TypeOK
    <3>. QED  BY <1>10, <2>2, <3>1 DEF AppendHistory, LinkInv, LocalsFit
  <2>. QED  BY <1>1, <2>1, <2>2, <2>3, QuietStep
<1>11. ASSUME NEW t \in Thread, LinkCase(t) PROVE LinkInv'
  <2>1. LocalsFit'
    BY <1>1, <1>11 DEF LinkCase, LinkInv, LocalsFit, TypeOK
  <2>2. UNCHANGED <<cases, disk, snapshots>>
        /\ \A u \in Thread : pc'[u] = "replace" => pc[u] = "replace"
    BY <1>1, <1>11 DEF LinkCase, TypeOK
  <2>3. AbsentCasesUnowned' /\ PartialSnapshotsLinked'
    BY <2>2 DEF LinkInv, AbsentCasesUnowned, PartialSnapshotsLinked, disk,
                snapshots
  <2>4. LinkedCase(incidents', cases)
    <3> SUFFICES ASSUME NEW i \in Incident, incidents'[i].case # None
                 PROVE  cases[incidents'[i].case].incident = i
      BY DEF LinkedCase
    <3>1. CASE i = inc[t]
      <4>1. incidents'[i].case = case[t]
        BY <1>1, <1>11, <3>1 DEF LinkCase, TypeOK, IncidentRecord
      <4>. QED  BY <3>1, <4>1 DEF LinkInv, LocalsFit
    <3>2. CASE i # inc[t]
      <4>1. incidents'[i].case = incidents[i].case
        BY <1>1, <1>11, <3>2 DEF LinkCase, TypeOK, IncidentRecord
      <4>. QED  BY <4>1 DEF LinkInv, LinkedCaseExists, LinkedCase
    <3>. QED  BY <3>1, <3>2
  <2>5. LinkedCaseExists'
    BY <2>2, <2>4 DEF LinkInv, LinkedCaseExists, disk
  <2>. QED  BY <1>1, <2>1, <2>3, <2>5 DEF LinkInv
<1>12. ASSUME NEW t \in Thread, CloseIncident(t) PROVE LinkInv'
  <2>1. \A i \in Incident : incidents'[i].case = incidents[i].case
    BY <1>1, <1>12 DEF CloseIncident, TypeOK, IncidentRecord
  <2>2. LocalsFit'
    BY <1>1, <1>12 DEF CloseIncident, LinkInv, LocalsFit, TypeOK
  <2>. QED  BY <1>1, <1>12, <2>1, <2>2, QuietStep DEF CloseIncident, TypeOK
<1>13. ASSUME NEW t \in Thread, SaveAgain(t) PROVE LinkInv'
  <2>1. LocalsFit'
    BY <1>1, <1>13 DEF SaveAgain, LinkInv, LocalsFit, TypeOK
  <2>. QED  BY <1>1, <1>13, <2>1, QuietStep DEF SaveAgain, TypeOK
<1>14. ASSUME NEW t \in Thread, WalkIncidents(t) PROVE LinkInv'
  <2>1. LocalsFit'
    BY <1>1, <1>14 DEF WalkIncidents, LinkInv, LocalsFit, TypeOK
  <2>2. /\ UNCHANGED <<incidents, cases, disk, snapCases>>
        /\ snapIncidents'[t] = incidents
        /\ pc'[t] = "walk_cases"
        /\ \A u \in Thread : u # t => /\ snapIncidents'[u] = snapIncidents[u]
                                      /\ pc'[u] = pc[u]
    BY <1>1, <1>14 DEF WalkIncidents, TypeOK
  <2>3. AbsentCasesUnowned' /\ LinkedCaseExists'
    BY <2>2 DEF LinkInv, AbsentCasesUnowned, LinkedCaseExists, disk
  <2>4. PartialSnapshotsLinked'
    BY <2>2 DEF LinkInv, PartialSnapshotsLinked, LinkedCaseExists
  <2>. QED  BY <1>1, <2>1, <2>3, <2>4 DEF LinkInv
<1>15. ASSUME NEW t \in Thread, WalkCases(t) PROVE LinkInv'
  <2>1. LocalsFit'
    BY <1>1, <1>15 DEF WalkCases, LinkInv, LocalsFit, TypeOK
  <2>2. /\ UNCHANGED <<incidents, cases, disk, snapIncidents>>
        /\ snapCases'[t] = cases
        /\ \A u \in Thread : u # t => /\ snapCases'[u] = snapCases[u]
                                      /\ pc'[u] = pc[u]
    BY <1>1, <1>15 DEF WalkCases, TypeOK
  <2>3. AbsentCasesUnowned' /\ LinkedCaseExists'
    BY <2>2 DEF LinkInv, AbsentCasesUnowned, LinkedCaseExists, disk
  <2>4. PartialSnapshotsLinked'
    BY <2>2 DEF LinkInv, PartialSnapshotsLinked
  <2>. QED  BY <1>1, <2>1, <2>3, <2>4 DEF LinkInv
<1>16. ASSUME NEW t \in Thread, ReplaceFile(t) PROVE LinkInv'
  <2>1. /\ UNCHANGED memory
        /\ diskIncidents' = snapIncidents[t] /\ diskCases' = snapCases[t]
        /\ pc[t] = "replace"
        /\ snapIncidents'[t] = NoIncidents /\ snapCases'[t] = NoCases
        /\ \A u \in Thread : u # t => /\ snapIncidents'[u] = snapIncidents[u]
                                      /\ snapCases'[u] = snapCases[u]
    BY <1>1, <1>16 DEF ReplaceFile, TypeOK
  <2>2. /\ LocalsFit' /\ pc'[t] # "replace"
        /\ \A u \in Thread : u # t => pc'[u] = pc[u]
    <3>1. CASE todo[t] = "idle"
      <4>1. Leave(t)
        BY <1>16, <3>1 DEF ReplaceFile
      <4>. QED  BY <1>1, <2>1, <4>1 DEF LinkInv, LocalsFit, TypeOK
    <3>2. CASE todo[t] # "idle"
      <4>1. pc' = [pc EXCEPT ![t] = todo[t]] /\ UNCHANGED <<inc, case, arg>>
        BY <1>16, <3>2 DEF ReplaceFile
      <4>2. todo[t] \in {"save", "link"}
        BY <1>1, <3>2 DEF TypeOK
      <4>. QED  BY <1>1, <2>1, <4>1, <4>2 DEF LinkInv, LocalsFit, TypeOK
    <3>. QED  BY <3>1, <3>2
  <2>3. AbsentCasesUnowned'
    BY <2>1 DEF LinkInv, AbsentCasesUnowned, NoCases, NoCase
  <2>4. LinkedCaseExists'
    BY <2>1 DEF LinkInv, LinkedCaseExists, PartialSnapshotsLinked
  <2>5. PartialSnapshotsLinked'
    BY <2>1, <2>2, EmptyIsLinked DEF LinkInv, PartialSnapshotsLinked
  <2>. QED  BY <1>1, <2>2, <2>3, <2>4, <2>5 DEF LinkInv
<1>17. ASSUME NEW t \in Thread, PersistFails(t) PROVE LinkInv'
  <2>1. LocalsFit'
    BY <1>1, <1>17 DEF PersistFails, LinkInv, LocalsFit, TypeOK
  <2>2. /\ UNCHANGED <<incidents, cases, disk>>
        /\ snapIncidents'[t] = NoIncidents /\ snapCases'[t] = NoCases
        /\ pc'[t] # "replace"
        /\ \A u \in Thread : u # t => /\ snapIncidents'[u] = snapIncidents[u]
                                      /\ snapCases'[u] = snapCases[u]
                                      /\ pc'[u] = pc[u]
    BY <1>1, <1>17 DEF PersistFails, TypeOK
  <2>3. AbsentCasesUnowned' /\ LinkedCaseExists'
    BY <2>2 DEF LinkInv, AbsentCasesUnowned, NoCases, NoCase,
                LinkedCaseExists, disk
  <2>4. PartialSnapshotsLinked'
    BY <2>2, EmptyIsLinked DEF LinkInv, PartialSnapshotsLinked
  <2>. QED  BY <1>1, <2>1, <2>3, <2>4 DEF LinkInv
<1>18. ASSUME Restart PROVE LinkInv'
  <2>1. LocalsFit'
    BY <1>18 DEF Restart, LocalsFit
  <2>2. AbsentCasesUnowned' /\ LinkedCaseExists'
    BY <1>18 DEF Restart, LinkInv, AbsentCasesUnowned, LinkedCaseExists,
                 NoCases, NoCase, disk
  <2>3. PartialSnapshotsLinked'
    BY <1>18, EmptyIsLinked DEF Restart, PartialSnapshotsLinked
  <2>. QED  BY <1>1, <2>1, <2>2, <2>3 DEF LinkInv
<1>19. CASE UNCHANGED vars
  BY <1>1, <1>19 DEF vars, disk, snapshots, LinkInv, LocalsFit,
     AbsentCasesUnowned, PartialSnapshotsLinked, LinkedCaseExists
<1>. QED
  BY <1>2, <1>3, <1>4, <1>5, <1>6, <1>7, <1>8, <1>9, <1>10, <1>11, <1>12,
     <1>13, <1>14, <1>15, <1>16, <1>17, <1>18, <1>19
  DEF Next, Request, Continue

(* Type correctness of the consent workflow.                               *)
THEOREM WorkflowTypeCorrect == Spec => []TypeOK
<1>1. LinkInv => TypeOK
  BY DEF LinkInv
<1>. QED  BY <1>1, LinkInit, LinkNext, PTL DEF Spec

(* However handlers interleave, fail and die, the takedown case an         *)
(* incident names exists and is its own, in memory and in the file.        *)
THEOREM LinkedCaseAlwaysExists == Spec => []LinkedCaseExists
<1>1. LinkInv => LinkedCaseExists
  BY DEF LinkInv
<1>. QED  BY <1>1, LinkInit, LinkNext, PTL DEF Spec

-----------------------------------------------------------------------------
(* Only a restart takes a decision back.                                   *)
LEMMA DecisionStays ==
    ASSUME TypeOK, NEW t \in Thread, Request(t) \/ Continue(t),
           NEW i \in Incident, Decided(i)
    PROVE  Decided(i)'
<1> USE DEF TypeOK, Decided, IncidentRecord, memory
<1>1. ASSUME NEW j \in Incident, OpenIncident(t, j) PROVE Decided(i)'
  BY <1>1 DEF OpenIncident, Exists
<1>2. CASE Allow(t)
  BY <1>2 DEF Allow
<1>3. CASE RequestRemoval(t)
  BY <1>3 DEF RequestRemoval
<1>4. CASE LinkCase(t)
  BY <1>4 DEF LinkCase
<1>5. CASE CloseIncident(t)
  BY <1>5 DEF CloseIncident
<1>6. CASE UNCHANGED incidents
  BY <1>6
<1>. QED
  BY <1>1, <1>2, <1>3, <1>4, <1>5, <1>6
  DEF Request, Continue, OtherRequest, Decide, UpdateCase, FileCase, SetStatus,
      AppendHistory, SaveAgain, WalkIncidents, WalkCases, ReplaceFile,
      PersistFails

(* A step that files no case and leaves the handlers at work on a case     *)
(* where they are keeps cases with decided incidents.                      *)
LEMMA CasesStayDecided ==
    ASSUME LinkInv, LinkInv', DecidedInv, restarts = 0,
           \A i \in Incident : Decided(i) => Decided(i)',
           \A c \in Case : cases'[c].incident = cases[c].incident,
           \A c \in Case : (cases'[c].status = "absent")
                              = (cases[c].status = "absent"),
           \A u \in Thread : \/ pc'[u] \notin {"file", "transition", "log"}
                             \/ /\ pc'[u] = pc[u]
                                /\ inc'[u] = inc[u] /\ case'[u] = case[u]
    PROVE  DecidedInv'
<1>1. ASSUME NEW c \in Case, Exists(cases, c)'
      PROVE  cases'[c].incident \in Incident /\ Decided(cases[c].incident)'
  <2>1. cases[c].incident \in Incident /\ Decided(cases[c].incident)
    BY <1>1 DEF DecidedInv, Exists
  <2>. QED  BY <2>1 DEF Decided
<1>2. ASSUME NEW u \in Thread
      PROVE  /\ pc'[u] = "file" => Decided(inc[u])'
             /\ pc'[u] \in {"transition", "log"} =>
                   case'[u] \in Case /\ Exists(cases, case[u])'
  <2>1. CASE pc'[u] \notin {"file", "transition", "log"}
    BY <2>1
  <2>2. CASE pc'[u] = pc[u] /\ inc'[u] = inc[u] /\ case'[u] = case[u]
    <3>1. pc[u] = "file" => inc[u] \in Incident /\ Decided(inc[u])
      BY DEF LinkInv, LocalsFit, DecidedInv
    <3>2. pc[u] \in {"transition", "log"} =>
             case[u] \in Case /\ Exists(cases, case[u])
      BY DEF DecidedInv
    <3>. QED  BY <2>2, <3>1, <3>2 DEF Exists, Decided
  <2>. QED  BY <2>1, <2>2
<1>. QED  BY <1>1, <1>2 DEF DecidedInv

(* At the start there is no case.                                          *)
LEMMA DecidedInit == Init => DecidedInv
BY DEF Init, DecidedInv, Exists, NoCases, NoCase

(* Until a restart, every step keeps cases to decided incidents.           *)
LEMMA DecidedNext ==
    LinkInv /\ LinkInv' /\ DecidedInv /\ [Next]_vars => DecidedInv'
<1> SUFFICES ASSUME LinkInv, LinkInv', DecidedInv, [Next]_vars, restarts' = 0
             PROVE  DecidedInv'
  BY DEF DecidedInv
<1>1. TypeOK
  BY DEF LinkInv
<1> DEFINE Kept == DecidedInv'
<1>2. ASSUME NEW t \in Thread, Request(t) \/ Continue(t) PROVE Kept
  <2>1. /\ restarts = 0
        /\ \A i \in Incident : Decided(i) => Decided(i)'
    BY <1>1, <1>2, DecisionStays
       DEF Request, Continue, OpenIncident, OtherRequest, Decide, UpdateCase,
           Allow, RequestRemoval, FileCase, SetStatus, AppendHistory, LinkCase,
           CloseIncident, SaveAgain, WalkIncidents, WalkCases, ReplaceFile,
           PersistFails
  <2> USE <2>1, <1>1 DEF TypeOK, Goto, Save, Leave, memory, locals
  <2>2. ASSUME UNCHANGED cases,
               \A u \in Thread : u # t => /\ pc'[u] = pc[u] /\ inc'[u] = inc[u]
                                          /\ case'[u] = case[u],
               pc'[t] \notin {"file", "transition", "log"}
        PROVE  Kept
    BY <2>2, CasesStayDecided
  <2>3. ASSUME NEW i \in Incident, OpenIncident(t, i) PROVE Kept
    BY <2>2, <2>3 DEF OpenIncident
  <2>4. CASE OtherRequest(t)
    BY <2>2, <2>4 DEF OtherRequest
  <2>5. ASSUME NEW i \in Incident, NEW d \in {"allow", "remove"}, Decide(t, i, d)
        PROVE  Kept
    BY <2>2, <2>5 DEF Decide
  <2>6. CASE Allow(t)
    BY <2>2, <2>6 DEF Allow
  <2>7. CASE LinkCase(t)
    BY <2>2, <2>7 DEF LinkCase
  <2>8. CASE CloseIncident(t)
    BY <2>2, <2>8 DEF CloseIncident
  <2>9. CASE SaveAgain(t)
    BY <2>2, <2>9 DEF SaveAgain
  <2>10. CASE WalkIncidents(t)
    BY <2>2, <2>10 DEF WalkIncidents
  <2>11. CASE WalkCases(t)
    BY <2>2, <2>11 DEF WalkCases
  <2>12. CASE ReplaceFile(t)
    <3>1. CASE todo[t] = "idle"
      BY <2>2, <2>12, <3>1 DEF ReplaceFile
    <3>2. CASE todo[t] # "idle"
      <4>1. /\ pc' = [pc EXCEPT ![t] = todo[t]]
            /\ UNCHANGED <<cases, inc, case>>
        BY <2>12, <3>2 DEF ReplaceFile
      <4>2. todo[t] \in {"save", "link"}
        BY <3>2
      <4>. QED  BY <2>2, <4>1, <4>2
    <3>. QED  BY <3>1, <3>2
  <2>13. CASE PersistFails(t)
    BY <2>2, <2>13 DEF PersistFails
  <2>14. CASE RequestRemoval(t)
    <3>1. Decided(inc[t])' /\ pc[t] = "decided" /\ UNCHANGED <<cases, inc, case>>
      BY <2>14 DEF RequestRemoval, LinkInv, LocalsFit, Decided, IncidentRecord
    <3>2. pc' = [pc EXCEPT ![t] = "file"]
      BY <2>14 DEF RequestRemoval
    <3>. QED  BY <3>1, <3>2 DEF DecidedInv, LinkInv, LocalsFit, Exists, Decided
  <2>15. ASSUME NEW c \in Case, FileCase(t, c) PROVE Kept
    <3>1. /\ inc[t] \in Incident /\ Decided(inc[t])'
          /\ cases'[c].incident = inc[t] /\ Exists(cases, c)'
          /\ \A d \in Case : d # c => cases'[d] = cases[d]
      BY <2>15 DEF FileCase, LinkInv, LocalsFit, DecidedInv, Exists
    <3>2. /\ pc' = [pc EXCEPT ![t] = "transition"]
          /\ case' = [case EXCEPT ![t] = c]
          /\ UNCHANGED inc
      BY <2>15 DEF FileCase
    <3>3. \A u \in Thread : u # t => /\ pc'[u] = pc[u] /\ inc'[u] = inc[u]
                                      /\ case'[u] = case[u]
      BY <3>2
    <3>4. \A d \in Case : (Exists(cases, d) =>
             cases[d].incident \in Incident /\ Decided(cases[d].incident))'
      <4> SUFFICES ASSUME NEW d \in Case, cases'[d].status # "absent"
                   PROVE  (cases[d].incident \in Incident
                             /\ Decided(cases[d].incident))'
        BY DEF Exists
      <4>1. CASE d = c
        BY <3>1, <3>2, <4>1 DEF Decided
      <4>2. CASE d # c
        <5>1. cases'[d] = cases[d] /\ UNCHANGED incidents
          BY <2>15, <3>1, <4>2 DEF FileCase
        <5>2. cases[d].incident \in Incident /\ Decided(cases[d].incident)
          BY <5>1 DEF DecidedInv, Exists
        <5>. QED  BY <5>1, <5>2 DEF Decided
      <4>. QED  BY <4>1, <4>2
    <3>5. \A u \in Thread : u # t =>
             /\ pc'[u] = "file" => Decided(inc[u])'
             /\ pc'[u] \in {"transition", "log"} =>
                   case'[u] \in Case /\ Exists(cases, case[u])'
      <4> SUFFICES ASSUME NEW u \in Thread, u # t
                   PROVE  /\ pc[u] = "file" => Decided(inc[u])'
                          /\ pc[u] \in {"transition", "log"} =>
                                case[u] \in Case /\ cases'[case[u]].status # "absent"
        BY <3>3 DEF Exists
      <4>1. pc[u] = "file" => inc[u] \in Incident /\ Decided(inc[u])
        BY DEF DecidedInv, LinkInv, LocalsFit
      <4>2. pc[u] \in {"transition", "log"} =>
               case[u] \in Case /\ Exists(cases, case[u])
        BY DEF DecidedInv
      <4>3. UNCHANGED <<incidents, inc>>
        BY <2>15 DEF FileCase
      <4>. QED  BY <3>1, <4>1, <4>2, <4>3 DEF Exists, Decided
    <3>6. pc'[t] = "transition" /\ case'[t] = c
      BY <3>2
    <3>7. \A u \in Thread :
             /\ pc'[u] = "file" => Decided(inc[u])'
             /\ pc'[u] \in {"transition", "log"} =>
                   case'[u] \in Case /\ Exists(cases, case[u])'
      BY <3>1, <3>5, <3>6 DEF Exists
    <3>. QED  BY <3>4, <3>7 DEF DecidedInv
  <2>16. ASSUME NEW c \in Case, NEW s \in CaseUpdate, UpdateCase(t, c, s)
         PROVE  Kept
    <3>1. /\ pc' = [pc EXCEPT ![t] = "transition"]
          /\ case' = [case EXCEPT ![t] = c]
          /\ UNCHANGED <<cases, inc>> /\ Exists(cases, c)
      BY <2>16 DEF UpdateCase
    <3>. QED  BY <3>1 DEF DecidedInv, LinkInv, LocalsFit, Exists, Decided
  <2>17. CASE SetStatus(t)
    <3>1. /\ pc' = [pc EXCEPT ![t] = "log"] /\ pc[t] = "transition"
          /\ UNCHANGED <<inc, case>>
      BY <2>17 DEF SetStatus
    <3>2. /\ case[t] \in Case /\ Exists(cases, case[t])
          /\ arg[t] # "absent"
      BY <3>1 DEF DecidedInv, LinkInv, LocalsFit, CaseStatus
    <3>3. \A d \in Case : /\ cases'[d].incident = cases[d].incident
                          /\ Exists(cases, d)' <=> Exists(cases, d)
      BY <2>17, <3>2 DEF SetStatus, CaseRecord, Exists
    <3>. QED  BY <3>1, <3>2, <3>3
              DEF DecidedInv, LinkInv, LocalsFit, Exists, Decided
  <2>18. CASE AppendHistory(t)
    <3>1. /\ pc'[t] \in {"walk_incidents", "close"}
          /\ \A u \in Thread : u # t => pc'[u] = pc[u]
          /\ UNCHANGED <<inc, case>>
      BY <2>18 DEF AppendHistory
    <3>2. \A d \in Case : /\ cases'[d].incident = cases[d].incident
                          /\ cases'[d].status = cases[d].status
      BY <2>18 DEF AppendHistory, CaseRecord
    <3>. QED  BY <3>1, <3>2, CasesStayDecided
  <2>. HIDE DEF Kept
  <2>. QED
    BY <1>2, <2>3, <2>4, <2>5, <2>6, <2>7, <2>8, <2>9, <2>10, <2>11, <2>12,
       <2>13, <2>14, <2>15, <2>16, <2>17, <2>18 DEF Request, Continue
<1>3. CASE Restart
  BY <1>1, <1>3 DEF Restart, TypeOK, TakedownAssumption
<1>4. CASE UNCHANGED vars
  BY <1>4 DEF vars, memory, locals, DecidedInv, Exists, Decided
<1>. QED  BY <1>2, <1>3, <1>4 DEF Next

(* Until a restart, every takedown case belongs to an incident that exists *)
(* and that its owner has decided.                                         *)
THEOREM CasesBelongToDecisions == Spec => []CaseImpliesDecided
<1>1. DecidedInv => CaseImpliesDecided
  BY DEF DecidedInv, CaseImpliesDecided, Decided
<1>. QED  BY <1>1, LinkInit, LinkNext, DecidedInit, DecidedNext, PTL DEF Spec

-----------------------------------------------------------------------------
(* Requests are served one at a time.                                      *)
Serial == \A t, u \in Thread : t = u

(* The status of an incident after each handler that sets it.              *)
LEMMA StatusUpdate ==
    ASSUME incidents \in [Incident -> IncidentRecord], NEW i, NEW s,
           incidents' = [incidents EXCEPT ![i].status = s]
    PROVE  \A j \in Incident : incidents'[j].status
                                  = IF j = i THEN s ELSE incidents[j].status
BY DEF IncidentRecord

(* Sections whose cases keep their incidents have the same cases of an     *)
(* incident.                                                               *)
LEMMA SameCases ==
    ASSUME NEW before, NEW after, NEW i,
           \A c \in Case : after[c].incident = before[c].incident
    PROVE  CasesOf(after, i) = CasesOf(before, i)
BY DEF CasesOf

(* With one thread, the invariant is established part by part.             *)
LEMMA Assemble ==
    ASSUME Serial, LinkInv', NEW t \in Thread,
           HandlerInv(t)', SnapshotInv(t)',
           \A i \in Incident :
              /\ Settled(diskIncidents', diskCases', i)
              /\ Settled(incidents', cases', i) \/ (pc'[t] = "file" /\ inc'[t] = i)
              /\ Later(diskIncidents'[i].status, incidents'[i].status)
    PROVE  WorkflowInv'
<1>1. \A u \in Thread : u = t
  BY DEF Serial
<1>2. \A u \in Thread : HandlerInv(u)' /\ SnapshotInv(u)'
  BY <1>1
<1>. QED  BY <1>2 DEF WorkflowInv

(* What the invariant says while no refusal is being filed.                *)
LEMMA AllSettled ==
    ASSUME Serial, WorkflowInv, NEW t \in Thread, pc[t] # "file"
    PROVE  \A i \in Incident : Settled(incidents, cases, i)
BY DEF Serial, WorkflowInv

(* A step of a handler that changes no status, no owner of a case and not  *)
(* the file.                                                               *)
LEMMA QuietWorkflow ==
    ASSUME Serial, WorkflowInv, LinkInv', NEW t \in Thread, pc[t] # "file",
           \A i \in Incident : incidents'[i].status = incidents[i].status,
           \A c \in Case : cases'[c].incident = cases[c].incident,
           UNCHANGED disk,
           HandlerInv(t)', SnapshotInv(t)'
    PROVE  WorkflowInv'
<1> SUFFICES ASSUME NEW i \in Incident
             PROVE  /\ Settled(diskIncidents', diskCases', i)
                    /\ Settled(incidents', cases', i)
                    /\ Later(diskIncidents'[i].status, incidents'[i].status)
  BY Assemble
<1>1. CasesOf(cases', i) = CasesOf(cases, i)
  BY SameCases
<1>. QED  BY <1>1, AllSettled DEF WorkflowInv, Settled, disk

(* At the start no incident is decided.                                    *)
LEMMA WorkflowInit == Init => WorkflowInv
<1> SUFFICES ASSUME Init PROVE WorkflowInv
  OBVIOUS
<1>1. \A i \in Incident : CasesOf(NoCases, i) = {}
  BY DEF CasesOf, NoCases, NoCase
<1>2. \A i \in Incident : /\ Settled(NoIncidents, NoCases, i)
                          /\ Later(NoIncidents[i].status, NoIncidents[i].status)
  BY <1>1 DEF Settled, Later, NoIncidents, NoIncident
<1>3. \A t \in Thread : HandlerInv(t) /\ SnapshotInv(t)
  BY DEF Init, HandlerInv, SnapshotInv
<1>. QED  BY <1>2, <1>3, LinkInit DEF Init, WorkflowInv

(* With one request at a time, a step of a handler keeps the workflow.     *)
LEMMA WorkflowStep ==
    ASSUME Serial, WorkflowInv, LinkInv', NEW t \in Thread,
           Request(t) \/ Continue(t)
    PROVE  WorkflowInv'
<1> DEFINE Kept == WorkflowInv'
<1>1. TypeOK /\ LocalsFit /\ AbsentCasesUnowned
  BY DEF WorkflowInv, LinkInv
<1>2. HandlerInv(t) /\ SnapshotInv(t)
  BY DEF WorkflowInv
<1>3. \A i \in Incident :
         /\ Settled(diskIncidents, diskCases, i)
         /\ Later(diskIncidents[i].status, incidents[i].status)
         /\ incidents[i].status \in IncidentStatus \cup {"absent"}
  BY <1>1 DEF WorkflowInv, TypeOK, IncidentRecord
<1> USE DEF Goto, Save, Leave, Forget, memory, locals, snapshots
<1>4. ASSUME NEW i \in Incident, OpenIncident(t, i) PROVE Kept
  <2>1. HandlerInv(t)' /\ SnapshotInv(t)'
    BY <1>1, <1>4 DEF OpenIncident, HandlerInv, SnapshotInv, TypeOK
  <2>2. \A j \in Incident : incidents'[j].status
              = IF j = i THEN "pending_owner_review" ELSE incidents[j].status
    BY <1>1, <1>4, StatusUpdate DEF OpenIncident, TypeOK
  <2>3. incidents[i].status = "absent" /\ pc[t] # "file"
        /\ UNCHANGED <<cases, diskIncidents, diskCases>>
    BY <1>4 DEF OpenIncident, Exists, disk
  <2>4. ASSUME NEW j \in Incident
        PROVE  /\ Settled(incidents', cases', j)
               /\ Later(diskIncidents'[j].status, incidents'[j].status)
    BY <1>3, <2>2, <2>3, AllSettled DEF Settled, Later
  <2>. QED  BY <1>3, <2>1, <2>3, <2>4, Assemble
<1>5. CASE OtherRequest(t)
  <2>1. HandlerInv(t)' /\ SnapshotInv(t)'
    BY <1>1, <1>5 DEF OtherRequest, HandlerInv, SnapshotInv, TypeOK
  <2>. QED  BY <1>5, <2>1, QuietWorkflow DEF OtherRequest
<1>6. ASSUME NEW i \in Incident, NEW d \in {"allow", "remove"}, Decide(t, i, d)
      PROVE  Kept
  <2>1. HandlerInv(t)' /\ SnapshotInv(t)'
    BY <1>1, <1>6 DEF Decide, HandlerInv, SnapshotInv, TypeOK
  <2>. QED  BY <1>6, <2>1, QuietWorkflow DEF Decide
<1>7. ASSUME NEW c \in Case, NEW s \in CaseUpdate, UpdateCase(t, c, s)
      PROVE  Kept
  <2>1. HandlerInv(t)' /\ SnapshotInv(t)'
    BY <1>1, <1>7 DEF UpdateCase, HandlerInv, SnapshotInv, TypeOK
  <2>. QED  BY <1>7, <2>1, QuietWorkflow DEF UpdateCase
<1>8. CASE Allow(t)
  <2>1. HandlerInv(t)' /\ SnapshotInv(t)'
    BY <1>1, <1>8 DEF Allow, HandlerInv, SnapshotInv, TypeOK
  <2>2. \A j \in Incident : incidents'[j].status
              = IF j = inc[t] THEN "allowed_by_owner" ELSE incidents[j].status
    BY <1>1, <1>8, StatusUpdate DEF Allow, TypeOK
  <2>3. /\ incidents[inc[t]].status = "pending_owner_review" /\ pc[t] # "file"
        /\ UNCHANGED <<cases, diskIncidents, diskCases>>
    BY <1>8, <1>2 DEF Allow, HandlerInv, disk
  <2>4. ASSUME NEW j \in Incident
        PROVE  /\ Settled(incidents', cases', j)
               /\ Later(diskIncidents'[j].status, incidents'[j].status)
    BY <1>3, <2>2, <2>3, AllSettled DEF Settled, Later
  <2>. QED  BY <1>3, <2>1, <2>3, <2>4, Assemble
<1>9. CASE RequestRemoval(t)
  <2>1. inc[t] \in Incident /\ inc' = inc /\ pc'[t] = "file"
    BY <1>1, <1>9 DEF RequestRemoval, LocalsFit, TypeOK
  <2>2. \A j \in Incident : incidents'[j].status
              = IF j = inc[t] THEN "removal_requested" ELSE incidents[j].status
    BY <1>1, <1>9, StatusUpdate DEF RequestRemoval, TypeOK
  <2>3. /\ incidents[inc[t]].status = "pending_owner_review" /\ pc[t] # "file"
        /\ UNCHANGED <<cases, diskIncidents, diskCases>>
    BY <1>9, <1>2 DEF RequestRemoval, HandlerInv, disk
  <2>4. ASSUME NEW j \in Incident
        PROVE  /\ Settled(incidents', cases', j) \/ j = inc[t]
               /\ Later(diskIncidents'[j].status, incidents'[j].status)
    BY <1>3, <2>2, <2>3, AllSettled DEF Settled, Later
  <2>5. CasesOf(cases, inc[t]) = {}
    BY <2>1, <2>3, AllSettled DEF Settled
  <2>6. HandlerInv(t)' /\ SnapshotInv(t)'
    BY <2>1, <2>2, <2>3, <2>5 DEF HandlerInv, SnapshotInv
  <2>. QED  BY <1>3, <2>1, <2>3, <2>4, <2>6, Assemble
<1>10. ASSUME NEW c \in Case, FileCase(t, c) PROVE Kept
  <2>1. /\ inc[t] \in Incident /\ cases[c].incident = None
        /\ incidents[inc[t]].status = "removal_requested"
        /\ CasesOf(cases, inc[t]) = {}
    BY <1>1, <1>10, <1>2
       DEF FileCase, Exists, LocalsFit, AbsentCasesUnowned, HandlerInv
  <2>2. /\ cases'[c].incident = inc[t]
        /\ \A d \in Case : d # c => cases'[d] = cases[d]
        /\ UNCHANGED <<incidents, diskIncidents, diskCases, inc>>
        /\ pc'[t] = "transition" /\ case'[t] = c
    BY <1>1, <1>10 DEF FileCase, TypeOK, disk
  <2>3. HandlerInv(t)' /\ SnapshotInv(t)'
    BY <2>2 DEF HandlerInv, SnapshotInv
  <2>4. c \in CasesOf(cases', inc[t])
    BY <2>2 DEF CasesOf
  <2>5. \A j \in Incident : j # inc[t] => CasesOf(cases', j) = CasesOf(cases, j)
    BY <2>1, <2>2 DEF CasesOf
  <2>6. \A j \in Incident : j # inc[t] => Settled(incidents, cases, j)
    BY DEF WorkflowInv, Serial
  <2>7. \A j \in Incident : Settled(incidents', cases', j)
    BY <2>1, <2>2, <2>4, <2>5, <2>6 DEF Settled
  <2>. QED  BY <1>3, <2>2, <2>3, <2>7, Assemble
<1>11. CASE SetStatus(t)
  <2>1. HandlerInv(t)' /\ SnapshotInv(t)'
    BY <1>1, <1>11, <1>2 DEF SetStatus, HandlerInv, SnapshotInv, TypeOK
  <2>2. \A d \in Case : cases'[d].incident = cases[d].incident
    BY <1>1, <1>11 DEF SetStatus, TypeOK, CaseRecord
  <2>. QED  BY <1>11, <2>1, <2>2, QuietWorkflow DEF SetStatus
<1>12. CASE AppendHistory(t)
  <2>1. /\ pc'[t] \in {"walk_incidents", "close"} /\ pc[t] = "log"
        /\ UNCHANGED <<incidents, diskIncidents, diskCases, case>>
    <3>1. CASE inc[t] # None
      BY <1>1, <1>12, <3>1 DEF AppendHistory, TypeOK, disk
    <3>2. CASE inc[t] = None
      BY <1>1, <1>12, <3>2 DEF AppendHistory, TypeOK, disk
    <3>. QED  BY <3>1, <3>2
  <2>2. HandlerInv(t)' /\ SnapshotInv(t)'
    BY <1>2, <2>1 DEF HandlerInv, SnapshotInv
  <2>3. \A d \in Case : cases'[d].incident = cases[d].incident
    BY <1>1, <1>12 DEF AppendHistory, TypeOK, CaseRecord
  <2>. QED  BY <2>1, <2>2, <2>3, QuietWorkflow DEF disk
<1>13. CASE LinkCase(t)
  <2>1. HandlerInv(t)' /\ SnapshotInv(t)'
    BY <1>1, <1>13 DEF LinkCase, HandlerInv, SnapshotInv, TypeOK
  <2>2. \A i \in Incident : incidents'[i].status = incidents[i].status
    BY <1>1, <1>13 DEF LinkCase, TypeOK, IncidentRecord
  <2>. QED  BY <1>13, <2>1, <2>2, QuietWorkflow DEF LinkCase
<1>14. CASE CloseIncident(t)
  <2>1. HandlerInv(t)' /\ SnapshotInv(t)'
    BY <1>1, <1>14 DEF CloseIncident, HandlerInv, SnapshotInv, TypeOK
  <2>2. PICK i : i = cases[case[t]].incident
    OBVIOUS
  <2>3. /\ case[t] \in Case /\ pc[t] # "file"
        /\ UNCHANGED <<cases, diskIncidents, diskCases>>
    BY <1>14, <1>2 DEF CloseIncident, HandlerInv, disk
  <2>4. case[t] \in CasesOf(cases, i)
    BY <2>2, <2>3 DEF CasesOf
  <2>5. CASE UNCHANGED incidents
    BY <2>1, <2>3, <2>5, QuietWorkflow DEF disk
  <2>6. CASE incidents' = [incidents EXCEPT ![i].status = "closed"]
    <3>1. \A j \in Incident : incidents'[j].status
              = IF j = i THEN "closed" ELSE incidents[j].status
      BY <1>1, <2>6, StatusUpdate DEF TypeOK
    <3>2. i \in Incident =>
             incidents[i].status \in {"removal_requested", "closed"}
      BY <2>3, <2>4, AllSettled DEF Settled
    <3>3. ASSUME NEW j \in Incident
          PROVE  /\ Settled(incidents', cases', j)
                 /\ Later(diskIncidents'[j].status, incidents'[j].status)
      <4>1. CASE j = i
        <5>1. diskIncidents[j].status \in {"absent", "pending_owner_review",
                                           "removal_requested", "closed"}
          BY <1>3, <3>2, <4>1 DEF Later
        <5>. QED  BY <2>3, <2>4, <3>1, <4>1, <5>1 DEF Settled, Later
      <4>2. CASE j # i
        BY <1>3, <2>3, <3>1, <4>2, AllSettled DEF Settled
      <4>. QED  BY <4>1, <4>2
    <3>. QED  BY <1>3, <2>1, <2>3, <3>3, Assemble
  <2>. QED  BY <1>14, <2>2, <2>5, <2>6 DEF CloseIncident
<1>15. CASE SaveAgain(t)
  <2>1. HandlerInv(t)' /\ SnapshotInv(t)'
    BY <1>1, <1>15 DEF SaveAgain, HandlerInv, SnapshotInv, TypeOK
  <2>. QED  BY <1>15, <2>1, QuietWorkflow DEF SaveAgain
<1>16. CASE WalkIncidents(t)
  <2>1. HandlerInv(t)' /\ SnapshotInv(t)'
    BY <1>1, <1>16 DEF WalkIncidents, HandlerInv, SnapshotInv, TypeOK
  <2>. QED  BY <1>16, <2>1, QuietWorkflow DEF WalkIncidents
<1>17. CASE WalkCases(t)
  <2>1. HandlerInv(t)' /\ SnapshotInv(t)'
    BY <1>1, <1>17, <1>2 DEF WalkCases, HandlerInv, SnapshotInv, TypeOK
  <2>. QED  BY <1>17, <2>1, QuietWorkflow DEF WalkCases
<1>18. CASE ReplaceFile(t)
  <2>1. /\ diskIncidents' = incidents /\ diskCases' = cases
        /\ UNCHANGED <<incidents, cases>> /\ pc[t] # "file"
    BY <1>18, <1>2 DEF ReplaceFile, SnapshotInv
  <2>2. pc'[t] \in {"idle", "save", "link"}
    <3>1. CASE todo[t] = "idle"
      BY <1>1, <1>18, <3>1 DEF ReplaceFile, TypeOK
    <3>2. CASE todo[t] # "idle"
      <4>1. pc' = [pc EXCEPT ![t] = todo[t]]
        BY <1>18, <3>2 DEF ReplaceFile
      <4>2. todo[t] \in {"save", "link"}
        BY <1>1, <3>2 DEF TypeOK
      <4>. QED  BY <1>1, <4>1, <4>2 DEF TypeOK
    <3>. QED  BY <3>1, <3>2
  <2>3. HandlerInv(t)' /\ SnapshotInv(t)'
    BY <2>2 DEF HandlerInv, SnapshotInv
  <2>4. ASSUME NEW j \in Incident
        PROVE  /\ Settled(incidents', cases', j)
               /\ Settled(diskIncidents', diskCases', j)
               /\ Later(diskIncidents'[j].status, incidents'[j].status)
    BY <2>1, AllSettled DEF Later
  <2>. QED  BY <2>3, <2>4, Assemble
<1>19. CASE PersistFails(t)
  <2>1. HandlerInv(t)' /\ SnapshotInv(t)'
    BY <1>1, <1>19 DEF PersistFails, HandlerInv, SnapshotInv, TypeOK
  <2>. QED  BY <1>19, <2>1, QuietWorkflow DEF PersistFails
<1>. HIDE DEF Kept
<1>. QED
  BY <1>4, <1>5, <1>6, <1>7, <1>8, <1>9, <1>10, <1>11, <1>12, <1>13, <1>14,
     <1>15, <1>16, <1>17, <1>18, <1>19 DEF Request, Continue, Kept

(* With one request at a time, every step keeps the workflow.              *)
LEMMA WorkflowNext ==
    ASSUME Serial
    PROVE  LinkInv' /\ WorkflowInv /\ [Next]_vars => WorkflowInv'
<1> SUFFICES ASSUME LinkInv', WorkflowInv, [Next]_vars PROVE WorkflowInv'
  OBVIOUS
<1>1. CASE Restart
  <2>1. \A t \in Thread : HandlerInv(t)' /\ SnapshotInv(t)'
    BY <1>1 DEF Restart, HandlerInv, SnapshotInv
  <2>2. /\ incidents' = diskIncidents /\ cases' = diskCases
        /\ diskIncidents' = diskIncidents /\ diskCases' = diskCases
    BY <1>1 DEF Restart, disk
  <2>3. ASSUME NEW i \in Incident
        PROVE  /\ Settled(incidents', cases', i)
               /\ Settled(diskIncidents', diskCases', i)
               /\ Later(diskIncidents'[i].status, incidents'[i].status)
    BY <2>2 DEF WorkflowInv, Later
  <2>. QED  BY <2>1, <2>3 DEF WorkflowInv
<1>2. CASE UNCHANGED vars
  BY <1>2 DEF vars, memory, disk, locals, snapshots, WorkflowInv, HandlerInv,
              SnapshotInv
<1>. QED  BY <1>1, <1>2, WorkflowStep DEF Next

(* When requests are served one at a time, every refused incident has its  *)
(* takedown case once no handler runs, whatever failed before.             *)
THEOREM SerialRemovalHasCase ==
    ASSUME Serial PROVE Spec => []RemovalHasCase
<1>1. WorkflowInv => RemovalHasCase
  <2> SUFFICES ASSUME WorkflowInv, Idle, NEW i \in Incident,
                      incidents[i].status = "removal_requested"
               PROVE  CasesOf(cases, i) # {}
    BY DEF RemovalHasCase
  <2>1. Settled(incidents, cases, i)
    BY DEF WorkflowInv, Idle
  <2>. QED  BY <2>1 DEF Settled
<1>. QED  BY <1>1, LinkInit, LinkNext, WorkflowInit, WorkflowNext, PTL
          DEF Spec

(* When requests are served one at a time, a decision is final: until a    *)
(* restart an incident that its owner has decided keeps its status or is   *)
(* closed.                                                                 *)
THEOREM SerialDecisionIsFinal ==
    ASSUME Serial PROVE Spec => DecisionIsFinal
<1> DEFINE Final == restarts' = restarts =>
                       \A i \in Incident :
                          \/ ~Exists(incidents, i)
                          \/ incidents[i].status = "pending_owner_review"
                          \/ incidents'[i].status
                                \in {incidents[i].status, "closed"}
<1>1. WorkflowInv /\ [Next]_vars => [Final]_vars
  <2> SUFFICES ASSUME WorkflowInv, Next, restarts' = restarts,
                      NEW i \in Incident, Decided(i)
               PROVE  incidents'[i].status \in {incidents[i].status, "closed"}
    BY DEF Decided, Exists
  <2>1. /\ incidents \in [Incident -> IncidentRecord] /\ restarts \in Nat
        /\ \A t \in Thread : HandlerInv(t)
    BY DEF WorkflowInv, LinkInv, TypeOK
  <2>2. PICK t \in Thread : Request(t) \/ Continue(t)
    BY <2>1 DEF Next, Restart
  <2>3. ASSUME NEW j \in Incident, OpenIncident(t, j)
        PROVE  incidents'[i].status \in {incidents[i].status, "closed"}
    <3>1. j # i
      BY <2>3 DEF OpenIncident, Exists, Decided
    <3>. QED  BY <2>1, <2>3, <3>1, StatusUpdate DEF OpenIncident
  <2>4. CASE Allow(t)
    <3>1. inc[t] # i
      BY <2>1, <2>4 DEF Allow, HandlerInv, Decided
    <3>. QED  BY <2>1, <2>4, <3>1, StatusUpdate DEF Allow
  <2>5. CASE RequestRemoval(t)
    <3>1. inc[t] # i
      BY <2>1, <2>5 DEF RequestRemoval, HandlerInv, Decided
    <3>. QED  BY <2>1, <2>5, <3>1, StatusUpdate DEF RequestRemoval
  <2>6. CASE LinkCase(t)
    BY <2>1, <2>6 DEF LinkCase, IncidentRecord
  <2>7. CASE CloseIncident(t)
    BY <2>1, <2>7, StatusUpdate DEF CloseIncident
  <2>8. CASE UNCHANGED incidents
    BY <2>8
  <2>. QED
    BY <2>2, <2>3, <2>4, <2>5, <2>6, <2>7, <2>8
    DEF Request, Continue, OtherRequest, Decide, UpdateCase, FileCase,
        SetStatus, AppendHistory, SaveAgain, WalkIncidents, WalkCases,
        ReplaceFile, PersistFails, memory
<1>. QED  BY <1>1, LinkInit, LinkNext, WorkflowInit, WorkflowNext, PTL
          DEF Spec, DecisionIsFinal

(* A look at the file that finds an incident settled before and after, and *)
(* further on its way, is one move of the workflow.                        *)
LEMMA MoveOn ==
    ASSUME NEW i \in Incident,
           diskIncidents \in [Incident -> IncidentRecord],
           diskIncidents' \in [Incident -> IncidentRecord],
           Settled(diskIncidents, diskCases, i),
           Settled(diskIncidents', diskCases', i),
           Later(diskIncidents[i].status, diskIncidents'[i].status)
    PROVE  Saved!Opens(i) \/ Saved!Allows(i) \/ Saved!Refuses(i)
              \/ Saved!Closes(i) \/ Saved!Stays(i)
<1> DEFINE from == diskIncidents[i].status
           to == diskIncidents'[i].status
<1>1. from \in IncidentStatus \cup {"absent"}
      /\ to \in IncidentStatus \cup {"absent"}
  BY DEF IncidentRecord
<1>2. CASE to = from
  BY <1>2 DEF Saved!Stays, Settled
<1>3. CASE to # from /\ to = "pending_owner_review"
  BY <1>1, <1>3 DEF Saved!Opens, Saved!Moves, Settled, Later
<1>4. CASE to # from /\ to = "allowed_by_owner"
  BY <1>1, <1>4 DEF Saved!Allows, Saved!Moves, Saved!Undecided, Settled, Later
<1>5. CASE to # from /\ to = "removal_requested"
  BY <1>1, <1>5 DEF Saved!Refuses, Saved!Moves, Saved!Undecided, Settled, Later
<1>6. CASE to # from /\ to = "closed"
  BY <1>1, <1>6 DEF Saved!Closes, Saved!Moves, Saved!Undecided, Settled, Later
<1>7. to # "absent" \/ to = from
  BY <1>1 DEF Later
<1>. QED  BY <1>1, <1>2, <1>3, <1>4, <1>5, <1>6, <1>7 DEF IncidentStatus

(* The saved state, seen as stages, starts and moves as the workflow does. *)
LEMMA SavedInit == Init => Saved!Init
<1> SUFFICES ASSUME Init PROVE Saved!Init
  OBVIOUS
<1>1. \A i \in Incident : CasesOf(diskCases, i) = {}
  BY DEF Init, CasesOf, NoCases, NoCase
<1>2. \A i \in Incident : diskIncidents[i].status = "absent"
  BY DEF Init, NoIncidents, NoIncident
<1>3. \A i \in Incident : (CasesOf(diskCases, i) # {}) = FALSE
  BY <1>1
<1>. QED  BY <1>2, <1>3 DEF Saved!Init

(* Every step is one of the abstract workflow, or leaves its state alone.  *)
LEMMA SavedNext ==
    ASSUME Serial, WorkflowInv, LinkInv', [Next]_vars
    PROVE  Saved!Next
<1>1. /\ diskIncidents \in [Incident -> IncidentRecord]
      /\ diskIncidents' \in [Incident -> IncidentRecord]
  BY DEF WorkflowInv, LinkInv, TypeOK
<1>2. ASSUME NEW i \in Incident
      PROVE  /\ Settled(diskIncidents, diskCases, i)
             /\ Settled(diskIncidents', diskCases', i)
             /\ Later(diskIncidents[i].status, diskIncidents'[i].status)
  <2>1. CASE UNCHANGED disk
    BY <2>1 DEF WorkflowInv, disk, Later
  <2>2. CASE \E t \in Thread : ReplaceFile(t)
    <3>1. PICK t \in Thread : ReplaceFile(t)
      BY <2>2
    <3>2. diskIncidents' = incidents /\ diskCases' = cases /\ pc[t] # "file"
      BY <3>1 DEF ReplaceFile, WorkflowInv, SnapshotInv
    <3>. QED  BY <3>2, AllSettled DEF WorkflowInv
  <2>. QED
    BY <2>1, <2>2
    DEF Next, Request, Continue, OpenIncident, OtherRequest, Decide, UpdateCase,
        Allow, RequestRemoval, FileCase, SetStatus, AppendHistory, LinkCase,
        CloseIncident, SaveAgain, WalkIncidents, WalkCases, PersistFails,
        Restart, vars
<1>3. \A i \in Incident : diskIncidents'[i].status \in Saved!Phase
  BY <1>1 DEF Saved!Phase, IncidentRecord, IncidentStatus
<1>4. \A i \in Incident :
         Saved!Opens(i) \/ Saved!Allows(i) \/ Saved!Refuses(i)
            \/ Saved!Closes(i) \/ Saved!Stays(i)
  BY <1>1, <1>2, MoveOn
<1>. QED  BY <1>3, <1>4 DEF Saved!Next

(* When requests are served one at a time, what a client sees in the saved *)
(* state follows the consent workflow, restarts and failed saves included. *)
THEOREM SerialFollowsWorkflow ==
    ASSUME Serial PROVE Spec => FollowsWorkflow
<1>1. WorkflowInv /\ LinkInv' /\ [Next]_vars => Saved!Next
  BY SavedNext
<1>. QED  BY <1>1, SavedInit, LinkInit, LinkNext, WorkflowInit, WorkflowNext,
             PTL DEF Spec, FollowsWorkflow, Saved!Spec
=============================================================================
