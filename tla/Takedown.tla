------------------------------ MODULE Takedown ------------------------------
(***************************************************************************)
(* The owner-consent workflow (services/takedown.py) with the handlers     *)
(* that drive it: opening an incident, the owner's decision, the status    *)
(* updates of a takedown case.  Each runs in a thread of the request pool  *)
(* over shared records without a lock, and saves them with the snapshot    *)
(* store, whose persist() walks the incidents before the cases.            *)
(*                                                                         *)
(* A step is the code between two points at which the interpreter may      *)
(* switch threads and another thread can tell the difference.  persist()   *)
(* walks a section in one step: no property relates two records of one     *)
(* section, and a walk that an insertion disturbs raises (PersistFails).   *)
(***************************************************************************)
EXTENDS Naturals

CONSTANTS
    Thread,        \* threads of the request pool
    Incident,      \* incident identifiers
    Case,          \* takedown case identifiers
    None,          \* no incident, no case
    CaseUpdate,    \* the statuses that status updates carry
    MaxRestarts    \* bound on the number of process restarts

CaseStatus == {"open", "reported", "removed", "rejected"}

ASSUME TakedownAssumption ==
    /\ None \notin Incident \cup Case
    /\ CaseUpdate \subseteq CaseStatus
    /\ MaxRestarts \in Nat

VARIABLES
    incidents,      \* incidents[i]: its status and takedown_case_id
    cases,          \* cases[c]: its incident, status, last status logged
    diskIncidents,  \* the same two sections in the snapshot file
    diskCases,
    pc,             \* pc[t]: where thread t stands in its handler
    inc,            \* inc[t]: the incident the handler holds
    case,           \* case[t]: the case it holds
    arg,            \* arg[t]: the decision or the status it was given
    todo,           \* todo[t]: where it goes on after persist()
    snapIncidents,  \* snapIncidents[t], snapCases[t]: what the running
    snapCases,      \*   persist() has serialised
    restarts        \* restarts so far

memory == <<incidents, cases>>
disk == <<diskIncidents, diskCases>>
locals == <<inc, case, arg, todo>>
snapshots == <<snapIncidents, snapCases>>
vars == <<memory, disk, pc, locals, snapshots, restarts>>

IncidentStatus == {"pending_owner_review", "allowed_by_owner",
                   "removal_requested", "closed"}

NoIncident == [status |-> "absent", case |-> None]
NoCase == [incident |-> None, status |-> "absent", logged |-> "absent"]

Exists(records, x) == records[x].status # "absent"

NoIncidents == [i \in Incident |-> NoIncident]
NoCases == [c \in Case |-> NoCase]

-----------------------------------------------------------------------------
Init ==
    /\ incidents = NoIncidents
    /\ cases = NoCases
    /\ diskIncidents = NoIncidents
    /\ diskCases = NoCases
    /\ pc = [t \in Thread |-> "idle"]
    /\ inc = [t \in Thread |-> None]
    /\ case = [t \in Thread |-> None]
    /\ arg = [t \in Thread |-> "none"]
    /\ todo = [t \in Thread |-> "idle"]
    /\ snapIncidents = [t \in Thread |-> NoIncidents]
    /\ snapCases = [t \in Thread |-> NoCases]
    /\ restarts = 0

Goto(t, to) == pc' = [pc EXCEPT ![t] = to]

(* Call persist(), then go on at `next'.                                   *)
Save(t, next) ==
    /\ Goto(t, "walk_incidents")
    /\ todo' = [todo EXCEPT ![t] = next]

(* The handler is over: the thread goes back to the pool.                  *)
Leave(t) ==
    /\ Goto(t, "idle")
    /\ inc' = [inc EXCEPT ![t] = None]
    /\ case' = [case EXCEPT ![t] = None]
    /\ arg' = [arg EXCEPT ![t] = "none"]
    /\ todo' = [todo EXCEPT ![t] = "idle"]

(*********************************** Handlers ******************************)

(* _open_incident: the incident is inserted, the notification saves it,    *)
(* and the handler saves again.                                            *)
OpenIncident(t, i) ==
    /\ pc[t] = "idle"
    /\ ~Exists(incidents, i)
    /\ incidents' = [incidents EXCEPT ![i].status = "pending_owner_review"]
    /\ Save(t, "save")
    /\ UNCHANGED <<cases, disk, inc, case, arg, snapshots, restarts>>

(* Any other handler that reaches persist() without touching an incident   *)
(* or a case: a registration, a sign-in, a notification.                   *)
OtherRequest(t) ==
    /\ pc[t] = "idle"
    /\ Save(t, "idle")
    /\ UNCHANGED <<memory, disk, inc, case, arg, snapshots, restarts>>

(* Faults that the properties are tried against: no check that the         *)
(* incident is undecided, a refusal saved before its case is filed, a      *)
(* refusal noted only once it is.                                          *)
DecideAgain(t, i, decision) ==
    /\ pc[t] = "idle"
    /\ Exists(incidents, i)
    /\ Goto(t, "decided")
    /\ inc' = [inc EXCEPT ![t] = i]
    /\ arg' = [arg EXCEPT ![t] = decision]
    /\ UNCHANGED <<memory, disk, case, todo, snapshots, restarts>>

RefuseAndSave(t) ==
    /\ pc[t] = "decided"
    /\ arg[t] = "remove"
    /\ incidents' = [incidents EXCEPT ![inc[t]].status = "removal_requested"]
    /\ Save(t, "file")
    /\ UNCHANGED <<cases, disk, inc, case, arg, snapshots, restarts>>

RefuseLater(t) ==
    /\ pc[t] = "decided"
    /\ arg[t] = "remove"
    /\ Goto(t, "file")
    /\ UNCHANGED <<memory, disk, locals, snapshots, restarts>>

(* decide_incident and apply_owner_decision up to the status check: a      *)
(* decided incident answers 409.                                           *)
Decide(t, i, decision) ==
    /\ pc[t] = "idle"
    /\ incidents[i].status = "pending_owner_review"
    /\ Goto(t, "decided")
    /\ inc' = [inc EXCEPT ![t] = i]
    /\ arg' = [arg EXCEPT ![t] = decision]
    /\ UNCHANGED <<memory, disk, case, todo, snapshots, restarts>>

(* "allow": the status is set, the notification saves, the handler saves.  *)
Allow(t) ==
    /\ pc[t] = "decided"
    /\ arg[t] = "allow"
    /\ incidents' = [incidents EXCEPT ![inc[t]].status = "allowed_by_owner"]
    /\ Save(t, "save")
    /\ UNCHANGED <<cases, disk, inc, case, arg, snapshots, restarts>>

(* "remove": the status is set before the case exists.                     *)
RequestRemoval(t) ==
    /\ pc[t] = "decided"
    /\ arg[t] = "remove"
    /\ incidents' = [incidents EXCEPT ![inc[t]].status = "removal_requested"]
    /\ Goto(t, "file")
    /\ UNCHANGED <<cases, disk, locals, snapshots, restarts>>

(* _open_takedown_case inserts an open case under a fresh identifier and   *)
(* has it reported to the platforms.                                       *)
FileCase(t, c) ==
    /\ pc[t] = "file"
    /\ ~Exists(cases, c)
    /\ cases' = [cases EXCEPT ![c] = [incident |-> inc[t],
                                      status   |-> "open",
                                      logged   |-> "open"]]
    /\ case' = [case EXCEPT ![t] = c]
    /\ arg' = [arg EXCEPT ![t] = "reported"]
    /\ Goto(t, "transition")
    /\ UNCHANGED <<incidents, disk, inc, todo, snapshots, restarts>>

(* update_takedown and update_case_status up to the transition: any status *)
(* may be given to any case.                                               *)
UpdateCase(t, c, status) ==
    /\ pc[t] = "idle"
    /\ Exists(cases, c)
    /\ case' = [case EXCEPT ![t] = c]
    /\ arg' = [arg EXCEPT ![t] = status]
    /\ Goto(t, "transition")
    /\ UNCHANGED <<memory, disk, inc, todo, snapshots, restarts>>

(* _transition, first statement.                                           *)
SetStatus(t) ==
    /\ pc[t] = "transition"
    /\ cases' = [cases EXCEPT ![case[t]].status = arg[t]]
    /\ Goto(t, "log")
    /\ UNCHANGED <<incidents, disk, locals, snapshots, restarts>>

(* _transition, second statement.  A case being filed then notifies its    *)
(* owner, which saves; a status update goes on to the incident.            *)
AppendHistory(t) ==
    /\ pc[t] = "log"
    /\ cases' = [cases EXCEPT ![case[t]].logged = arg[t]]
    /\ IF inc[t] # None
       THEN Save(t, "link")
       ELSE Goto(t, "close") /\ UNCHANGED todo
    /\ UNCHANGED <<incidents, disk, inc, case, arg, snapshots, restarts>>

(* apply_owner_decision notes the case in the incident and saves.          *)
LinkCase(t) ==
    /\ pc[t] = "link"
    /\ incidents' = [incidents EXCEPT ![inc[t]].case = case[t]]
    /\ Save(t, "idle")
    /\ UNCHANGED <<cases, disk, inc, case, arg, snapshots, restarts>>

(* A fault: the incident receives the status of its case.                  *)
CopyOutcome(t) ==
    /\ pc[t] = "close"
    /\ LET i == cases[case[t]].incident IN
       incidents' = IF Exists(incidents, i) /\ arg[t] \in {"removed", "rejected"}
                    THEN [incidents EXCEPT ![i].status = arg[t]]
                    ELSE incidents
    /\ Save(t, "idle")
    /\ UNCHANGED <<cases, disk, inc, case, arg, snapshots, restarts>>

(* update_case_status closes the incident of a case with an outcome, and   *)
(* saves.                                                                  *)
CloseIncident(t) ==
    /\ pc[t] = "close"
    /\ LET i == cases[case[t]].incident IN
       incidents' = IF Exists(incidents, i) /\ arg[t] \in {"removed", "rejected"}
                    THEN [incidents EXCEPT ![i].status = "closed"]
                    ELSE incidents
    /\ Save(t, "idle")
    /\ UNCHANGED <<cases, disk, inc, case, arg, snapshots, restarts>>

(* A handler's second save in a row.                                       *)
SaveAgain(t) ==
    /\ pc[t] = "save"
    /\ Save(t, "idle")
    /\ UNCHANGED <<memory, disk, inc, case, arg, snapshots, restarts>>

(********************************** persist() ******************************)

WalkIncidents(t) ==
    /\ pc[t] = "walk_incidents"
    /\ snapIncidents' = [snapIncidents EXCEPT ![t] = incidents]
    /\ Goto(t, "walk_cases")
    /\ UNCHANGED <<memory, disk, locals, snapCases, restarts>>

WalkCases(t) ==
    /\ pc[t] = "walk_cases"
    /\ snapCases' = [snapCases EXCEPT ![t] = cases]
    /\ Goto(t, "replace")
    /\ UNCHANGED <<memory, disk, locals, snapIncidents, restarts>>

Forget(t) ==
    /\ snapIncidents' = [snapIncidents EXCEPT ![t] = NoIncidents]
    /\ snapCases' = [snapCases EXCEPT ![t] = NoCases]

(* os.replace; the handler returns or goes on.                             *)
ReplaceFile(t) ==
    /\ pc[t] = "replace"
    /\ diskIncidents' = snapIncidents[t]
    /\ diskCases' = snapCases[t]
    /\ Forget(t)
    /\ IF todo[t] = "idle"
       THEN Leave(t)
       ELSE Goto(t, todo[t]) /\ UNCHANGED locals
    /\ UNCHANGED <<memory, restarts>>

(* persist() raises: the request is answered 500 where it stands, and what *)
(* it changed in memory stays.                                             *)
PersistFails(t) ==
    /\ pc[t] \in {"walk_incidents", "walk_cases", "replace"}
    /\ Forget(t)
    /\ Leave(t)
    /\ UNCHANGED <<memory, disk, restarts>>

(* The process dies and starts again from the snapshot file.               *)
Restart ==
    /\ restarts < MaxRestarts
    /\ restarts' = restarts + 1
    /\ incidents' = diskIncidents
    /\ cases' = diskCases
    /\ pc' = [t \in Thread |-> "idle"]
    /\ inc' = [t \in Thread |-> None]
    /\ case' = [t \in Thread |-> None]
    /\ arg' = [t \in Thread |-> "none"]
    /\ todo' = [t \in Thread |-> "idle"]
    /\ snapIncidents' = [t \in Thread |-> NoIncidents]
    /\ snapCases' = [t \in Thread |-> NoCases]
    /\ UNCHANGED disk

-----------------------------------------------------------------------------
Request(t) ==
    \/ \E i \in Incident : OpenIncident(t, i)
    \/ \E i \in Incident, d \in {"allow", "remove"} : Decide(t, i, d)
    \/ \E c \in Case, s \in CaseUpdate : UpdateCase(t, c, s)
    \/ OtherRequest(t)

Continue(t) ==
    \/ Allow(t)
    \/ RequestRemoval(t)
    \/ \E c \in Case : FileCase(t, c)
    \/ SetStatus(t)
    \/ AppendHistory(t)
    \/ LinkCase(t)
    \/ CloseIncident(t)
    \/ SaveAgain(t)
    \/ WalkIncidents(t)
    \/ WalkCases(t)
    \/ ReplaceFile(t)
    \/ PersistFails(t)

Next == (\E t \in Thread : Request(t) \/ Continue(t)) \/ Restart

Spec == Init /\ [][Next]_vars

-----------------------------------------------------------------------------
IncidentRecord == [status : IncidentStatus \cup {"absent"},
                   case   : Case \cup {None}]

CaseRecord == [incident : Incident \cup {None},
               status   : CaseStatus \cup {"absent"},
               logged   : CaseStatus \cup {"absent"}]

Persisting == {"walk_incidents", "walk_cases", "replace"}
Place == {"idle", "decided", "file", "transition", "log", "link", "close",
          "save"} \cup Persisting

(* Every variable keeps to its domain.                                     *)
TypeOK ==
    /\ incidents \in [Incident -> IncidentRecord]
    /\ cases \in [Case -> CaseRecord]
    /\ diskIncidents \in [Incident -> IncidentRecord]
    /\ diskCases \in [Case -> CaseRecord]
    /\ pc \in [Thread -> Place]
    /\ inc \in [Thread -> Incident \cup {None}]
    /\ case \in [Thread -> Case \cup {None}]
    /\ arg \in [Thread -> {"none", "allow", "remove"} \cup CaseStatus]
    /\ todo \in [Thread -> {"idle", "save", "link"}]
    /\ snapIncidents \in [Thread -> [Incident -> IncidentRecord]]
    /\ snapCases \in [Thread -> [Case -> CaseRecord]]
    /\ restarts \in 0 .. MaxRestarts

CasesOf(records, i) == {c \in Case : records[c].incident = i}

Idle == \A t \in Thread : pc[t] = "idle"

(* Whatever handlers interleave, fail and die, the case an incident names  *)
(* exists and is that incident's case, in memory and in the file: the      *)
(* owner can always open it.  It rests on the case being inserted before   *)
(* it is linked and on persist() walking the incidents before the cases.   *)
LinkedCase(incs, cs) ==
    \A i \in Incident : incs[i].case # None => cs[incs[i].case].incident = i

LinkedCaseExists ==
    /\ LinkedCase(incidents, cases)
    /\ LinkedCase(diskIncidents, diskCases)

(* Until the process restarts, no case exists for an incident whose owner  *)
(* has not decided, and an incident with a case never reopens.             *)
CaseImpliesDecided ==
    restarts = 0 =>
        \A c \in Case : Exists(cases, c) =>
            incidents[cases[c].incident].status
                \notin {"absent", "pending_owner_review"}

(* A decision is final: after it only a platform's outcome changes the     *)
(* incident, by closing it.                                                *)
DecisionIsFinal ==
    [][restarts' = restarts =>
         \A i \in Incident :
            \/ ~Exists(incidents, i)
            \/ incidents[i].status = "pending_owner_review"
            \/ incidents'[i].status \in {incidents[i].status, "closed"}]_vars

(* When no handler runs, every refused incident has its case.              *)
RemovalHasCase ==
    Idle => \A i \in Incident : incidents[i].status = "removal_requested"
                                    => CasesOf(cases, i) # {}

(* With one request at a time the saved state follows the workflow,        *)
(* restarts and failed saves included.                                     *)
Saved == INSTANCE ConsentWorkflow WITH
    phase <- [i \in Incident |-> diskIncidents[i].status],
    filed <- [i \in Incident |-> CasesOf(diskCases, i) # {}]

FollowsWorkflow == Saved!Spec

-----------------------------------------------------------------------------
(* The inductive strengthening of LinkedCaseExists and CaseImpliesDecided. *)

(* What a handler holds at each place: nothing while idle, a status while  *)
(* it changes a case, an undecided incident turned decided while it files. *)
LocalsFit ==
    \A t \in Thread :
        /\ pc[t] = "idle" => inc[t] = None /\ case[t] = None
        /\ pc[t] \in {"decided", "file"} =>
              inc[t] \in Incident /\ case[t] = None
        /\ pc[t] \in {"transition", "log"} => arg[t] \in CaseStatus
        /\ inc[t] # None /\ case[t] # None => cases[case[t]].incident = inc[t]

(* A case that does not exist belongs to no incident.                      *)
AbsentCasesUnowned ==
    \A c \in Case :
        /\ cases[c].status = "absent" => cases[c].incident = None
        /\ diskCases[c].status = "absent" => diskCases[c].incident = None
        /\ \A t \in Thread : snapCases[t][c].status = "absent"
                                => snapCases[t][c].incident = None

(* The incidents a running persist() has serialised name cases that exist, *)
(* and that its snapshot has once the cases are serialised too.            *)
PartialSnapshotsLinked ==
    \A t \in Thread :
        /\ LinkedCase(snapIncidents[t], cases)
        /\ pc[t] = "replace" => LinkedCase(snapIncidents[t], snapCases[t])

LinkInv ==
    /\ TypeOK
    /\ LocalsFit
    /\ AbsentCasesUnowned
    /\ PartialSnapshotsLinked
    /\ LinkedCaseExists

Decided(i) ==
    incidents[i].status \notin {"absent", "pending_owner_review"}

(* Until the process restarts, cases and the handlers about to file one    *)
(* belong to decided incidents, and an undecided incident that a handler   *)
(* holds exists.                                                           *)
DecidedInv ==
    restarts = 0 =>
        /\ \A c \in Case : Exists(cases, c) =>
              cases[c].incident \in Incident /\ Decided(cases[c].incident)
        /\ \A t \in Thread :
              /\ pc[t] = "file" => Decided(inc[t])
              /\ pc[t] \in {"transition", "log"} =>
                    case[t] \in Case /\ Exists(cases, case[t])

-----------------------------------------------------------------------------
(* The inductive strengthening of RemovalHasCase, DecisionIsFinal and      *)
(* FollowsWorkflow, for one request at a time.                             *)

(* An incident has a takedown case exactly if its owner has refused it.    *)
Settled(incs, cs, i) ==
    CasesOf(cs, i) # {} <=> incs[i].status \in {"removal_requested", "closed"}

(* The stages an incident that was last saved as `from' may have reached.  *)
Later(from, to) ==
    \/ to = from
    \/ from = "absent" /\ to # "absent"
    \/ from = "pending_owner_review" /\ to # "absent"
    \/ from = "removal_requested" /\ to = "closed"

(* The handler holds a pending incident until its owner's refusal is noted *)
(* and one without a case until that is filed; afterwards it holds a case. *)
HandlerInv(t) ==
    /\ pc[t] = "decided" => incidents[inc[t]].status = "pending_owner_review"
    /\ pc[t] = "file" => /\ incidents[inc[t]].status = "removal_requested"
                         /\ CasesOf(cases, inc[t]) = {}
    /\ pc[t] \in {"transition", "log", "close"} => case[t] \in Case

(* Nothing changes under a persist().                                      *)
SnapshotInv(t) ==
    /\ pc[t] \in {"walk_cases", "replace"} => snapIncidents[t] = incidents
    /\ pc[t] = "replace" => snapCases[t] = cases

(* Incidents are settled in the file, and in memory but for the one whose  *)
(* refusal is being filed; the file is behind memory on its way.           *)
WorkflowInv ==
    /\ LinkInv
    /\ \A t \in Thread : HandlerInv(t) /\ SnapshotInv(t)
    /\ \A i \in Incident :
          /\ Settled(diskIncidents, diskCases, i)
          /\ \/ Settled(incidents, cases, i)
             \/ \E t \in Thread : pc[t] = "file" /\ inc[t] = i
          /\ Later(diskIncidents[i].status, incidents[i].status)
=============================================================================
