---------------------------- MODULE SnapshotStore ----------------------------
(***************************************************************************)
(* The JSON snapshot store (storage.py) under concurrent request handlers. *)
(*                                                                         *)
(* A handler runs in a thread of the server's pool, writes records into    *)
(* the shared in-memory sections without any lock, and calls persist(),    *)
(* which serialises the sections one after the other and then replaces the *)
(* snapshot file.  Two handlers may therefore be anywhere inside their     *)
(* writes and inside persist() at the same time, persist() may fail, and   *)
(* the process may die and restart from the file.                          *)
(*                                                                         *)
(* The sections modelled are the ones that refer to one another.  The      *)
(* chain is the development ledger, whose records are one of the sections. *)
(* The notification list and the usage counters, which nothing refers to,  *)
(* are left out with the saves that concern only them.                     *)
(*                                                                         *)
(* A record is represented by the identifier of the request that created   *)
(* it: the registration, its certificate and its ledger entry carry the    *)
(* same identifier because one handler creates the three.                  *)
(***************************************************************************)
EXTENDS Naturals, Sequences

CONSTANTS
    Thread,       \* threads of the request pool
    Id,           \* identifiers of requests, each used by one request
    NoId,         \* stands for no request
    MaxRestarts   \* bound on the number of process restarts

ASSUME SnapshotAssumption ==
    /\ MaxRestarts \in Nat
    /\ NoId \notin Id

VARIABLES
    mem,        \* mem[s]: identifiers of the records of section s in memory
    disk,       \* the same for the snapshot file
    kind,       \* kind[k]: the request that uses identifier k
    target,     \* target[k]: the record the request k is about
    id,         \* id[t]: the request thread t is serving, NoId when idle
    pc,         \* pc[t]: its next step
    pos,        \* pos[t]: sections the running persist() has serialised
    snap,       \* snap[t]: what it has serialised
    base,       \* base[t]: requests answered before that persist() began
    acked,      \* requests answered with success since the process started
    diskBase,   \* base of the persist() that wrote the file
    restarts    \* restarts so far

vars == <<mem, disk, kind, target, id, pc, pos, snap, base, acked, diskBase,
          restarts>>

-----------------------------------------------------------------------------
(* Faults that the properties are tried against: a section forgotten by    *)
(* persist(), a registration inserted first, an incident saved before its  *)
(* evidence, or not saved.                                                 *)
ForgetfulOrder == <<"registrations", "incidents", "takedown_cases",
                    "certificates", "blockchain_records">>

RegistrationFirst == <<"registrations", "blockchain_records", "certificates",
                       "persist">>

IncidentFirst == <<"incidents", "persist", "evidence_reports", "persist",
                   "persist">>

IncidentUnsaved == <<"evidence_reports", "persist", "incidents">>

(* The sections that refer to one another, in the order persist() reads    *)
(* them.  The ledger comes last although it is named second: the snapshot  *)
(* holds that dict itself, and json.dump walks it after all the others     *)
(* have been dumped.                                                       *)
ReadOrder == <<"registrations", "evidence_reports", "incidents",
               "takedown_cases", "certificates", "blockchain_records">>

Section == {"registrations", "evidence_reports", "incidents",
            "takedown_cases", "certificates", "blockchain_records"}

Kind == {"register", "detect", "remove"}

(* What each mutating handler does to the store, in program order: the     *)
(* name of a section stands for inserting this request's record there.     *)
RegisterSteps == <<"blockchain_records", "certificates", "registrations",
                   "persist">>

DetectSteps == <<"evidence_reports", "persist", "incidents", "persist",
                 "persist">>

RemoveSteps == <<"takedown_cases", "persist", "persist">>

Program == [register |-> RegisterSteps,
            detect   |-> DetectSteps,
            remove   |-> RemoveSteps]

(* The sections a request of kind d writes.                                *)
Writes(d) == {Program[d][n] : n \in DOMAIN Program[d]} \cap Section

Empty == [s \in Section |-> {}]

Busy(t) == id[t] # NoId
StepsOf(t) == Program[kind[id[t]]]
At(t) == StepsOf(t)[pc[t]]
Running(t) == Busy(t) /\ pc[t] \in DOMAIN StepsOf(t)

(* The record a request is about: a detection matches a registration, an   *)
(* owner's removal decision names an incident.                             *)
Subject(d) == CASE d = "detect" -> "registrations"
                [] d = "remove" -> "incidents"
                [] OTHER        -> "none"

(* A fault: a request about a record that is not there is served, too.     *)
FoundOrNot(d) ==
    IF Subject(d) = "none" THEN {NoId} ELSE mem[Subject(d)] \cup {NoId}

(* The records a request of kind d can be about: those its handler finds   *)
(* in memory, the matched registration or the incident of the URL.         *)
Found(d) == IF Subject(d) = "none" THEN {NoId} ELSE mem[Subject(d)]

-----------------------------------------------------------------------------
Init ==
    /\ mem = Empty
    /\ disk = Empty
    /\ kind = [k \in Id |-> "unused"]
    /\ target = [k \in Id |-> NoId]
    /\ id = [t \in Thread |-> NoId]
    /\ pc = [t \in Thread |-> 0]
    /\ pos = [t \in Thread |-> 0]
    /\ snap = [t \in Thread |-> Empty]
    /\ base = [t \in Thread |-> {}]
    /\ acked = {}
    /\ diskBase = {}
    /\ restarts = 0

(* A request arrives.  Its identifier is fresh (the handlers draw uuid4),  *)
(* and it is served if the record it is about is found.                    *)
Start(t, k, d) ==
    /\ ~Busy(t)
    /\ kind[k] = "unused"
    /\ \E x \in Found(d) : target' = [target EXCEPT ![k] = x]
    /\ kind' = [kind EXCEPT ![k] = d]
    /\ id' = [id EXCEPT ![t] = k]
    /\ pc' = [pc EXCEPT ![t] = 1]
    /\ UNCHANGED <<mem, disk, pos, snap, base, acked, diskBase, restarts>>

(* The handler inserts its record into one section.                        *)
Put(t) ==
    /\ Running(t)
    /\ At(t) \in Section
    /\ mem' = [mem EXCEPT ![At(t)] = @ \cup {id[t]}]
    /\ pc' = [pc EXCEPT ![t] = @ + 1]
    /\ UNCHANGED <<disk, kind, target, id, pos, snap, base, acked, diskBase,
                   restarts>>

(* persist() serialises the next section.  Walking a dict while another    *)
(* thread inserts into it raises, so a section that is read at all is read *)
(* as it was at one moment; the failure is PersistFails.                   *)
ReadSection(t) ==
    /\ Running(t)
    /\ At(t) = "persist"
    /\ pos[t] < Len(ReadOrder)
    /\ LET s == ReadOrder[pos[t] + 1] IN
       snap' = [snap EXCEPT ![t] = [@ EXCEPT ![s] = mem[s]]]
    /\ base' = [base EXCEPT ![t] = IF pos[t] = 0 THEN acked ELSE @]
    /\ pos' = [pos EXCEPT ![t] = @ + 1]
    /\ UNCHANGED <<mem, disk, kind, target, id, pc, acked, diskBase, restarts>>

(* os.replace makes the finished temporary file the snapshot; the handler  *)
(* continues after its call of persist().                                  *)
ReplaceFile(t) ==
    /\ Running(t)
    /\ At(t) = "persist"
    /\ pos[t] = Len(ReadOrder)
    /\ disk' = snap[t]
    /\ diskBase' = base[t]
    /\ pos' = [pos EXCEPT ![t] = 0]
    /\ pc' = [pc EXCEPT ![t] = @ + 1]
    /\ snap' = [snap EXCEPT ![t] = Empty]
    /\ base' = [base EXCEPT ![t] = {}]
    /\ UNCHANGED <<mem, kind, target, id, acked, restarts>>

(* persist() raises (a section changed size under the walk, the disk is    *)
(* full, ...): the temporary file is removed, the exception ends the       *)
(* request with a 500, and what it wrote in memory stays there.            *)
PersistFails(t) ==
    /\ Running(t)
    /\ At(t) = "persist"
    /\ id' = [id EXCEPT ![t] = NoId]
    /\ pc' = [pc EXCEPT ![t] = 0]
    /\ pos' = [pos EXCEPT ![t] = 0]
    /\ snap' = [snap EXCEPT ![t] = Empty]
    /\ base' = [base EXCEPT ![t] = {}]
    /\ UNCHANGED <<mem, disk, kind, target, acked, diskBase, restarts>>

(* The handler returns and the client receives its success.                *)
Respond(t) ==
    /\ Busy(t)
    /\ pc[t] > Len(StepsOf(t))
    /\ acked' = acked \cup {id[t]}
    /\ id' = [id EXCEPT ![t] = NoId]
    /\ pc' = [pc EXCEPT ![t] = 0]
    /\ UNCHANGED <<mem, disk, kind, target, pos, snap, base, diskBase,
                   restarts>>

(* A fault: load() overlooks a section.                                    *)
LoadOverlooks == [disk EXCEPT !["certificates"] = {}]

(* load(): the sections a new process starts with.                         *)
Load == disk

(* The process dies at any moment and starts again from the file.          *)
Restart ==
    /\ restarts < MaxRestarts
    /\ restarts' = restarts + 1
    /\ mem' = Load
    /\ id' = [t \in Thread |-> NoId]
    /\ pc' = [t \in Thread |-> 0]
    /\ pos' = [t \in Thread |-> 0]
    /\ snap' = [t \in Thread |-> Empty]
    /\ base' = [t \in Thread |-> {}]
    /\ acked' = {}
    /\ diskBase' = {}
    /\ UNCHANGED <<disk, kind, target>>

ThreadStep(t) ==
    \/ \E k \in Id, d \in Kind : Start(t, k, d)
    \/ Put(t)
    \/ ReadSection(t)
    \/ ReplaceFile(t)
    \/ PersistFails(t)
    \/ Respond(t)

Next == (\E t \in Thread : ThreadStep(t)) \/ Restart

Spec == Init /\ [][Next]_vars

-----------------------------------------------------------------------------
Sections == [Section -> SUBSET Id]

(* Every variable keeps to its domain, and a request that is served has    *)
(* the record that it is about.                                            *)
TypeOK ==
    /\ mem \in Sections
    /\ disk \in Sections
    /\ kind \in [Id -> Kind \cup {"unused"}]
    /\ target \in [Id -> Id \cup {NoId}]
    /\ \A k \in Id : Subject(kind[k]) # "none" => target[k] \in Id
    /\ id \in [Thread -> Id \cup {NoId}]
    /\ pc \in [Thread -> Nat]
    /\ pos \in [Thread -> 0 .. Len(ReadOrder)]
    /\ snap \in [Thread -> Sections]
    /\ base \in [Thread -> SUBSET Id]
    /\ acked \in SUBSET Id
    /\ diskBase \in SUBSET Id
    /\ restarts \in 0 .. MaxRestarts

(* A registration that survives a restart can always be shown with its     *)
(* certificate and verified against the dev ledger: whatever the handlers  *)
(* interleave, the file holds no registration without both.  It rests on   *)
(* register_media writing the registration last and on persist() reading   *)
(* the registrations first.                                                *)
RegistrationsComplete ==
    disk["registrations"] \subseteq
        disk["certificates"] \cap disk["blockchain_records"]

(* The snapshot file contains every record of every request that had been  *)
(* answered when the persist() that wrote it began; it may lack later      *)
(* ones.  This is all that concurrent handlers can rely on.                *)
SnapshotCoversBase ==
    \A k \in diskBase : \A s \in Writes(kind[k]) : k \in disk[s]

-----------------------------------------------------------------------------
(* The inductive strengthening of the two invariants above.                *)

(* Memory holds no registration without certificate and ledger entry.      *)
MemoryComplete ==
    mem["registrations"] \subseteq
        mem["certificates"] \cap mem["blockchain_records"]

(* A busy thread's past insertions are in memory.                          *)
ProgressInMemory ==
    \A t \in Thread : Busy(t) =>
        /\ kind[id[t]] \in Kind
        /\ \A n \in DOMAIN StepsOf(t) :
              n < pc[t] /\ StepsOf(t)[n] \in Section
                  => id[t] \in mem[StepsOf(t)[n]]

(* The registrations a running persist() has read are complete in memory,  *)
(* and in its snapshot as far as that has been filled.                     *)
PartialSnapshotsComplete ==
    \A t \in Thread :
        LET read == snap[t]["registrations"] IN
        /\ read \subseteq mem["certificates"] \cap mem["blockchain_records"]
        /\ pos[t] >= 5 => read \subseteq snap[t]["certificates"]
        /\ pos[t] >= 6 => read \subseteq snap[t]["blockchain_records"]

(* Everything answered since the process started is in memory.             *)
AckedInMemory ==
    \A k \in acked :
        /\ kind[k] \in Kind
        /\ \A s \in Writes(kind[k]) : k \in mem[s]

(* A running persist() has read, in the sections it has passed, the        *)
(* records of every request answered before it began.                      *)
PartialSnapshotsCover ==
    \A t \in Thread :
        /\ base[t] \subseteq acked
        /\ \A k \in base[t] : \A n \in 1 .. pos[t] :
              ReadOrder[n] \in Writes(kind[k]) => k \in snap[t][ReadOrder[n]]

CompletenessInv ==
    /\ TypeOK
    /\ MemoryComplete
    /\ ProgressInMemory
    /\ PartialSnapshotsComplete
    /\ RegistrationsComplete

CoverageInv ==
    /\ AckedInMemory
    /\ PartialSnapshotsCover
    /\ diskBase \subseteq acked
    /\ SnapshotCoversBase

-----------------------------------------------------------------------------
(* The class's claim: what a mutating request wrote before its answer is   *)
(* in the file, so it survives a restart.                                  *)
AckedDurable ==
    \A k \in acked : \A s \in Writes(kind[k]) : k \in disk[s]

(* Records are closed under every reference they hold: an incident's       *)
(* evidence report and matched media, a takedown case's incident.          *)
Closed(records) ==
    /\ records["incidents"] \subseteq records["evidence_reports"]
    /\ \A k \in records["incidents"] : target[k] \in records["registrations"]
    /\ \A k \in records["takedown_cases"] : target[k] \in records["incidents"]

(* With one request at a time the file is closed under references.         *)
ReferencesComplete == Closed(disk)

(* With one request at a time no replacement of the file drops a record    *)
(* an earlier one had made durable, restarts included.                     *)
NothingDropped ==
    [][\A s \in Section : disk[s] \subseteq disk'[s]]_disk

-----------------------------------------------------------------------------
(* The inductive strengthening that serial requests allow.                 *)

DiskInMemory == \A s \in Section : disk[s] \subseteq mem[s]

(* A persist() in progress belongs to a thread that stands at a persist    *)
(* step, and what it has read is still what memory holds.                  *)
PartialSnapshotsCurrent ==
    \A t \in Thread :
        /\ pos[t] > 0 => Running(t) /\ At(t) = "persist"
        /\ \A n \in 1 .. pos[t] :
              snap[t][ReadOrder[n]] = mem[ReadOrder[n]]

(* An insertion followed by a completed persist() is in the file.          *)
PersistedIsDurable ==
    \A t \in Thread : Busy(t) =>
        \A n, m \in DOMAIN StepsOf(t) :
            /\ n < m /\ m < pc[t]
            /\ StepsOf(t)[n] \in Section
            /\ StepsOf(t)[m] = "persist"
            => id[t] \in disk[StepsOf(t)[n]]

SerialInv ==
    /\ DiskInMemory
    /\ PartialSnapshotsCurrent
    /\ PersistedIsDurable
    /\ AckedDurable

(* Memory is closed too, records belong to requests that came, and what a  *)
(* handler found to be about is still there.                               *)
ReferencesInv ==
    /\ Closed(mem)
    /\ \A s \in Section : \A k \in mem[s] : kind[k] # "unused"
    /\ \A t \in Thread : Busy(t) /\ Subject(kind[id[t]]) # "none"
                             => target[id[t]] \in mem[Subject(kind[id[t]])]
    /\ ReferencesComplete
=============================================================================
