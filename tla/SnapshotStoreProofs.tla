------------------------- MODULE SnapshotStoreProofs -------------------------
(***************************************************************************)
(* Theorems about SnapshotStore, for any number of threads, requests and   *)
(* restarts.                                                               *)
(***************************************************************************)
EXTENDS SnapshotStore, TLAPS

(* The handlers' programs and the read order, as facts the provers use     *)
(* without looking at the tuples again.                                    *)
LEMMA StepsAreSequences ==
    ASSUME NEW d \in Kind
    PROVE  /\ Len(Program[d]) \in Nat
           /\ DOMAIN Program[d] = 1 .. Len(Program[d])
           /\ Program[d] \in Seq(Section \cup {"persist"})
<1>1. CASE d = "register"
  BY <1>1 DEF Program, RegisterSteps, Section
<1>2. CASE d = "detect"
  BY <1>2 DEF Program, DetectSteps, Section
<1>3. CASE d = "remove"
  BY <1>3 DEF Program, RemoveSteps, Section
<1>. QED  BY <1>1, <1>2, <1>3 DEF Kind

(* A handler that inserts a registration has inserted its ledger entry and *)
(* its certificate before (register_media).                                *)
LEMMA RegistrationIsWrittenLast ==
    ASSUME NEW d \in Kind, NEW n \in DOMAIN Program[d],
           Program[d][n] = "registrations"
    PROVE  /\ \E m \in DOMAIN Program[d] :
                 m < n /\ Program[d][m] = "certificates"
           /\ \E m \in DOMAIN Program[d] :
                 m < n /\ Program[d][m] = "blockchain_records"
<1>1. d = "register"
  <2>1. CASE d = "detect"
    BY <2>1 DEF Program, DetectSteps
  <2>2. CASE d = "remove"
    BY <2>2 DEF Program, RemoveSteps
  <2>. QED  BY <2>1, <2>2 DEF Kind
<1>2. Program[d] = RegisterSteps
  BY <1>1 DEF Program
<1>3. n = 3
  BY <1>2 DEF RegisterSteps
<1>4. /\ 1 \in DOMAIN Program[d] /\ Program[d][1] = "blockchain_records"
      /\ 2 \in DOMAIN Program[d] /\ Program[d][2] = "certificates"
  BY <1>2 DEF RegisterSteps
<1>. QED  BY <1>3, <1>4

(* The order in which persist() reads the sections.                        *)
LEMMA ReadOrderFacts ==
    /\ Len(ReadOrder) = 6
    /\ \A n \in 1 .. 6 : ReadOrder[n] \in Section
    /\ \A s \in Section : \E n \in 1 .. 6 : ReadOrder[n] = s
    /\ ReadOrder[1] = "registrations"
    /\ ReadOrder[5] = "certificates"
    /\ ReadOrder[6] = "blockchain_records"
    /\ \A n \in 1 .. 6 : ReadOrder[n] = "registrations" => n = 1
    /\ \A n \in 1 .. 6 : ReadOrder[n] = "certificates" => n = 5
    /\ \A n \in 1 .. 6 : ReadOrder[n] = "blockchain_records" => n = 6
BY DEF ReadOrder, Section

-----------------------------------------------------------------------------
(* Types hold at the start.                                                *)
LEMMA TypeInit == Init => TypeOK
<1>1. Subject("unused") = "none"
  BY DEF Subject
<1>. QED
  BY <1>1, SnapshotAssumption, ReadOrderFacts
  DEF Init, TypeOK, Sections, Empty, Section, Kind

(* Types are kept by every step.                                           *)
LEMMA TypeNext == TypeOK /\ [Next]_vars => TypeOK'
<1> SUFFICES ASSUME TypeOK, [Next]_vars PROVE TypeOK'
  OBVIOUS
<1> USE SnapshotAssumption, ReadOrderFacts
<1>1. ASSUME NEW t \in Thread, NEW k \in Id, NEW d \in Kind, Start(t, k, d)
      PROVE  TypeOK'
  <2>1. PICK x \in Found(d) : target' = [target EXCEPT ![k] = x]
    BY <1>1 DEF Start
  <2>2. /\ x \in Id \cup {NoId}
        /\ Subject(d) # "none" => x \in Id
    <3>1. Subject(d) \in Section \cup {"none"}
      BY DEF Subject, Section, Kind
    <3>. QED  BY <2>1, <3>1 DEF Found, TypeOK, Sections
  <2>3. kind' = [kind EXCEPT ![k] = d]
    BY <1>1 DEF Start
  <2>4. \A j \in Id : Subject(kind'[j]) # "none" => target'[j] \in Id
    BY <2>1, <2>2, <2>3 DEF TypeOK
  <2>. QED  BY <1>1, <2>1, <2>2, <2>4 DEF Start, TypeOK
<1>2. ASSUME NEW t \in Thread, Put(t) PROVE TypeOK'
  <2>1. mem' \in Sections
    BY <1>2 DEF Put, Running, Busy, TypeOK, Sections
  <2>. QED  BY <1>2, <2>1 DEF Put, TypeOK
<1>3. ASSUME NEW t \in Thread, ReadSection(t) PROVE TypeOK'
  <2>1. snap' \in [Thread -> Sections]
    <3>. DEFINE s == ReadOrder[pos[t] + 1]
    <3>1. s \in Section
      BY <1>3 DEF ReadSection, TypeOK
    <3>2. [snap[t] EXCEPT ![s] = mem[s]] \in Sections
      BY <3>1 DEF TypeOK, Sections
    <3>3. snap' = [snap EXCEPT ![t] = [snap[t] EXCEPT ![s] = mem[s]]]
      BY <1>3 DEF ReadSection
    <3>. QED  BY <3>2, <3>3 DEF TypeOK
  <2>2. pos' \in [Thread -> 0 .. Len(ReadOrder)]
    BY <1>3 DEF ReadSection, TypeOK
  <2>3. base' \in [Thread -> SUBSET Id]
    BY <1>3 DEF ReadSection, TypeOK
  <2>. QED  BY <1>3, <2>1, <2>2, <2>3 DEF ReadSection, TypeOK
<1>4. ASSUME NEW t \in Thread, ReplaceFile(t) PROVE TypeOK'
  BY <1>4 DEF ReplaceFile, TypeOK, Sections, Empty
<1>5. ASSUME NEW t \in Thread, PersistFails(t) PROVE TypeOK'
  BY <1>5 DEF PersistFails, TypeOK, Sections, Empty
<1>6. ASSUME NEW t \in Thread, Respond(t) PROVE TypeOK'
  BY <1>6 DEF Respond, Busy, TypeOK
<1>7. ASSUME Restart PROVE TypeOK'
  BY <1>7 DEF Restart, Load, TypeOK, Sections, Empty
<1>8. CASE UNCHANGED vars
  BY <1>8 DEF vars, TypeOK
<1>. QED  BY <1>1, <1>2, <1>3, <1>4, <1>5, <1>6, <1>7, <1>8
          DEF Next, ThreadStep

(* Type correctness of the store.                                          *)
THEOREM StoreTypeCorrect == Spec => []TypeOK
BY TypeInit, TypeNext, PTL DEF Spec

-----------------------------------------------------------------------------
(* A thread other than the one that takes a fresh identifier keeps its     *)
(* request, and every request already started keeps its kind.              *)
LEMMA StartKeepsKinds ==
    ASSUME TypeOK, NEW t \in Thread, NEW k \in Id, NEW d \in Kind,
           Start(t, k, d)
    PROVE  \A j \in Id : kind[j] \in Kind => kind'[j] = kind[j]
BY DEF Start, TypeOK, Kind

(* Memory only grows while the process runs.                               *)
LEMMA PutGrowsMemory ==
    ASSUME TypeOK, NEW t \in Thread, Put(t)
    PROVE  /\ \A s \in Section : mem[s] \subseteq mem'[s]
           /\ id[t] \in Id
           /\ id[t] \in mem'[At(t)]
           /\ \A s \in Section : s # At(t) => mem'[s] = mem[s]
           /\ mem'[At(t)] = mem[At(t)] \cup {id[t]}
BY DEF Put, Running, Busy, TypeOK, Sections

(* persist() fills the next section of its own snapshot from memory.       *)
LEMMA ReadSectionEffect ==
    ASSUME TypeOK, NEW t \in Thread, ReadSection(t)
    PROVE  LET p == pos[t] + 1
               s == ReadOrder[p]
           IN  /\ p \in 1 .. 6 /\ s \in Section
               /\ pos'[t] = p
               /\ snap'[t][s] = mem[s]
               /\ \A r \in Section : r # s => snap'[t][r] = snap[t][r]
               /\ \A u \in Thread : u # t => /\ snap'[u] = snap[u]
                                             /\ pos'[u] = pos[u]
               /\ mem' = mem
<1> DEFINE p == pos[t] + 1
           s == ReadOrder[p]
<1>1. p \in 1 .. 6 /\ pos'[t] = p
  BY ReadOrderFacts DEF ReadSection, TypeOK
<1>2. s \in Section
  BY <1>1, ReadOrderFacts
<1>3. snap'[t] = [snap[t] EXCEPT ![s] = mem[s]]
  BY DEF ReadSection, TypeOK
<1>4. snap[t] \in Sections
  BY DEF TypeOK
<1>5. /\ snap'[t][s] = mem[s]
      /\ \A r \in Section : r # s => snap'[t][r] = snap[t][r]
  BY <1>2, <1>3, <1>4 DEF Sections
<1>6. \A u \in Thread : u # t => snap'[u] = snap[u] /\ pos'[u] = pos[u]
  BY DEF ReadSection, TypeOK
<1>. QED  BY <1>1, <1>2, <1>5, <1>6 DEF ReadSection

(* The empty store is complete.                                            *)
LEMMA CompletenessInit == Init => CompletenessInv
<1> SUFFICES ASSUME Init PROVE CompletenessInv
  OBVIOUS
<1>1. TypeOK
  BY TypeInit
<1>2. MemoryComplete /\ RegistrationsComplete
  BY DEF Init, Empty, Section, MemoryComplete, RegistrationsComplete
<1>3. ProgressInMemory
  BY DEF Init, ProgressInMemory, Busy
<1>4. PartialSnapshotsComplete
  BY DEF Init, Empty, Section, PartialSnapshotsComplete
<1>. QED  BY <1>1, <1>2, <1>3, <1>4 DEF CompletenessInv

(* Every step keeps memory, snapshots and the file complete.               *)
LEMMA CompletenessNext == CompletenessInv /\ [Next]_vars => CompletenessInv'
<1> SUFFICES ASSUME CompletenessInv, [Next]_vars PROVE CompletenessInv'
  OBVIOUS
<1> USE DEF CompletenessInv
<1>0. TypeOK'
  BY TypeNext
<1>1. ASSUME NEW t \in Thread, NEW k \in Id, NEW d \in Kind, Start(t, k, d)
      PROVE  CompletenessInv'
  <2>1. MemoryComplete' /\ RegistrationsComplete'
    BY <1>1 DEF Start, MemoryComplete, RegistrationsComplete
  <2>2. PartialSnapshotsComplete'
    BY <1>1 DEF Start, PartialSnapshotsComplete
  <2>3. ProgressInMemory'
    <3> SUFFICES ASSUME NEW u \in Thread, Busy(u)'
                 PROVE  /\ kind'[id'[u]] \in Kind
                        /\ \A n \in DOMAIN Program[kind'[id'[u]]] :
                             /\ n < pc'[u]
                             /\ Program[kind'[id'[u]]][n] \in Section
                             => id'[u] \in mem'[Program[kind'[id'[u]]][n]]
      BY DEF ProgressInMemory, StepsOf
    <3>1. CASE u = t
      <4>1. id'[u] = k /\ kind'[k] = d /\ pc'[u] = 1
        BY <1>1, <3>1 DEF Start, TypeOK
      <4>. QED  BY <4>1, StepsAreSequences
    <3>2. CASE u # t
      <4>1. id'[u] = id[u] /\ pc'[u] = pc[u] /\ mem' = mem
        BY <1>1, <3>2 DEF Start, TypeOK
      <4>2. Busy(u) /\ id[u] \in Id /\ kind[id[u]] \in Kind
        BY <4>1 DEF Busy, ProgressInMemory, TypeOK
      <4>3. kind'[id[u]] = kind[id[u]]
        BY <1>1, <4>2, StartKeepsKinds
      <4>. QED  BY <4>1, <4>2, <4>3 DEF ProgressInMemory, StepsOf
    <3>. QED  BY <3>1, <3>2
  <2>. QED  BY <1>0, <2>1, <2>2, <2>3
<1>2. ASSUME NEW t \in Thread, Put(t) PROVE CompletenessInv'
  <2>1. /\ Busy(t) /\ kind[id[t]] \in Kind
        /\ pc[t] \in DOMAIN StepsOf(t)
        /\ At(t) = Program[kind[id[t]]][pc[t]]
    BY <1>2 DEF Put, Running, ProgressInMemory, At, StepsOf
  <2>2. RegistrationsComplete'
    BY <1>2 DEF Put, RegistrationsComplete
  <2>3. MemoryComplete'
    <3>1. CASE At(t) = "registrations"
      <4>1. PICK m \in DOMAIN StepsOf(t) :
               m < pc[t] /\ StepsOf(t)[m] = "certificates"
        BY <2>1, <3>1, RegistrationIsWrittenLast DEF StepsOf
      <4>2. PICK n \in DOMAIN StepsOf(t) :
               n < pc[t] /\ StepsOf(t)[n] = "blockchain_records"
        BY <2>1, <3>1, RegistrationIsWrittenLast DEF StepsOf
      <4>3. id[t] \in mem["certificates"] \cap mem["blockchain_records"]
        BY <2>1, <4>1, <4>2 DEF ProgressInMemory, Section
      <4>. QED  BY <1>2, <3>1, <4>3, PutGrowsMemory DEF MemoryComplete, Section
    <3>2. CASE At(t) # "registrations"
      <4>1. mem'["registrations"] = mem["registrations"]
        BY <1>2, <3>2, PutGrowsMemory DEF Section
      <4>. QED  BY <1>2, <4>1, PutGrowsMemory DEF MemoryComplete, Section
    <3>. QED  BY <3>1, <3>2
  <2>4. PartialSnapshotsComplete'
    <3>1. snap' = snap /\ pos' = pos
      BY <1>2 DEF Put
    <3>. QED  BY <1>2, <3>1, PutGrowsMemory
              DEF PartialSnapshotsComplete, Section
  <2>5. ProgressInMemory'
    <3> SUFFICES ASSUME NEW u \in Thread, Busy(u)'
                 PROVE  /\ kind'[id'[u]] \in Kind
                        /\ \A n \in DOMAIN Program[kind'[id'[u]]] :
                             /\ n < pc'[u]
                             /\ Program[kind'[id'[u]]][n] \in Section
                             => id'[u] \in mem'[Program[kind'[id'[u]]][n]]
      BY DEF ProgressInMemory, StepsOf
    <3>1. id' = id /\ kind' = kind /\ Busy(u)
      BY <1>2 DEF Put, Busy
    <3>2. CASE u = t
      <4>1. pc'[t] = pc[t] + 1 /\ pc[t] \in Nat
        BY <1>2 DEF Put, TypeOK
      <4>2. DOMAIN Program[kind[id[t]]] \subseteq Nat
        BY <2>1, StepsAreSequences
      <4>3. ASSUME NEW n \in DOMAIN Program[kind[id[t]]], n < pc'[t],
                   Program[kind[id[t]]][n] \in Section
            PROVE  id[t] \in mem'[Program[kind[id[t]]][n]]
        <5>1. CASE n = pc[t]
          BY <1>2, <2>1, <5>1, PutGrowsMemory
        <5>2. CASE n # pc[t]
          <6>1. n < pc[t]
            BY <4>1, <4>2, <4>3, <5>2
          <6>2. id[t] \in mem[Program[kind[id[t]]][n]]
            BY <2>1, <4>3, <6>1 DEF ProgressInMemory, StepsOf
          <6>. QED  BY <1>2, <4>3, <6>2, PutGrowsMemory
        <5>. QED  BY <5>1, <5>2
      <4>. QED  BY <2>1, <3>1, <3>2, <4>3
    <3>3. CASE u # t
      <4>1. pc'[u] = pc[u]
        BY <1>2, <3>3 DEF Put, TypeOK
      <4>. QED  BY <1>2, <3>1, <4>1, PutGrowsMemory
                DEF ProgressInMemory, StepsOf
    <3>. QED  BY <3>2, <3>3
  <2>. QED  BY <1>0, <2>2, <2>3, <2>4, <2>5
<1>3. ASSUME NEW t \in Thread, ReadSection(t) PROVE CompletenessInv'
  <2>1. MemoryComplete' /\ RegistrationsComplete' /\ ProgressInMemory'
    BY <1>3 DEF ReadSection, MemoryComplete, RegistrationsComplete,
                ProgressInMemory, Busy, StepsOf
  <2>2. PartialSnapshotsComplete'
    <3> DEFINE p == pos[t] + 1
               s == ReadOrder[p]
    <3>1. /\ p \in 1 .. 6 /\ s \in Section
          /\ pos'[t] = p
          /\ snap'[t][s] = mem[s]
          /\ \A r \in Section : r # s => snap'[t][r] = snap[t][r]
          /\ mem' = mem
      BY <1>3, ReadSectionEffect
    <3>2. \A u \in Thread : u # t => snap'[u] = snap[u] /\ pos'[u] = pos[u]
      BY <1>3, ReadSectionEffect
    <3>3. /\ snap[t]["registrations"]
                \subseteq mem["certificates"] \cap mem["blockchain_records"]
          /\ pos[t] >= 5 => snap[t]["registrations"]
                               \subseteq snap[t]["certificates"]
      BY DEF PartialSnapshotsComplete
    <3>4. /\ snap'[t]["registrations"]
                \subseteq mem["certificates"] \cap mem["blockchain_records"]
          /\ p >= 5 => snap'[t]["registrations"]
                          \subseteq snap'[t]["certificates"]
          /\ p >= 6 => snap'[t]["registrations"]
                          \subseteq snap'[t]["blockchain_records"]
      <4>1. CASE p = 1
        <5>1. s = "registrations"
          BY <4>1, ReadOrderFacts
        <5>2. snap'[t]["registrations"] = mem["registrations"]
          BY <3>1, <5>1
        <5>. QED  BY <4>1, <5>2 DEF MemoryComplete
      <4>2. CASE p \in {2, 3, 4}
        <5>1. s # "registrations"
          BY <3>1, <4>2, ReadOrderFacts
        <5>2. snap'[t]["registrations"] = snap[t]["registrations"]
          BY <3>1, <5>1 DEF Section
        <5>. QED  BY <3>3, <4>2, <5>2
      <4>3. CASE p = 5
        <5>1. s = "certificates"
          BY <4>3, ReadOrderFacts
        <5>2. /\ snap'[t]["registrations"] = snap[t]["registrations"]
              /\ snap'[t]["certificates"] = mem["certificates"]
          BY <3>1, <5>1 DEF Section
        <5>. QED  BY <3>3, <4>3, <5>2
      <4>4. CASE p = 6
        <5>1. s = "blockchain_records"
          BY <4>4, ReadOrderFacts
        <5>2. /\ snap'[t]["registrations"] = snap[t]["registrations"]
              /\ snap'[t]["certificates"] = snap[t]["certificates"]
              /\ snap'[t]["blockchain_records"] = mem["blockchain_records"]
          BY <3>1, <5>1 DEF Section
        <5>3. pos[t] >= 5
          BY <4>4, <3>1 DEF TypeOK
        <5>. QED  BY <3>3, <4>4, <5>2, <5>3
      <4>. QED  BY <3>1, <4>1, <4>2, <4>3, <4>4
    <3>5. SUFFICES ASSUME NEW u \in Thread
                   PROVE  LET read == snap'[u]["registrations"] IN
                          /\ read \subseteq mem["certificates"]
                                            \cap mem["blockchain_records"]
                          /\ pos'[u] >= 5 => read \subseteq
                                               snap'[u]["certificates"]
                          /\ pos'[u] >= 6 => read \subseteq
                                               snap'[u]["blockchain_records"]
      BY <3>1 DEF PartialSnapshotsComplete
    <3>6. CASE u = t
      BY <3>1, <3>4, <3>6
    <3>7. CASE u # t
      BY <3>2, <3>7 DEF PartialSnapshotsComplete
    <3>. QED  BY <3>6, <3>7
  <2>. QED  BY <1>0, <2>1, <2>2
<1>4. ASSUME NEW t \in Thread, ReplaceFile(t) PROVE CompletenessInv'
  <2>1. MemoryComplete'
    BY <1>4 DEF ReplaceFile, MemoryComplete
  <2>2. RegistrationsComplete'
    BY <1>4, ReadOrderFacts
       DEF ReplaceFile, RegistrationsComplete, PartialSnapshotsComplete
  <2>3. PartialSnapshotsComplete'
    BY <1>4 DEF ReplaceFile, PartialSnapshotsComplete, Empty, Section, TypeOK
  <2>4. ProgressInMemory'
    <3> SUFFICES ASSUME NEW u \in Thread, Busy(u)'
                 PROVE  /\ kind'[id'[u]] \in Kind
                        /\ \A n \in DOMAIN Program[kind'[id'[u]]] :
                             /\ n < pc'[u]
                             /\ Program[kind'[id'[u]]][n] \in Section
                             => id'[u] \in mem'[Program[kind'[id'[u]]][n]]
      BY DEF ProgressInMemory, StepsOf
    <3>1. id' = id /\ kind' = kind /\ mem' = mem /\ Busy(u)
      BY <1>4 DEF ReplaceFile, Busy
    <3>2. kind[id[u]] \in Kind /\ DOMAIN Program[kind[id[u]]] \subseteq Nat
      BY <3>1, StepsAreSequences DEF ProgressInMemory
    <3>3. CASE u = t
      <4>1. /\ pc'[t] = pc[t] + 1 /\ pc[t] \in Nat
            /\ Program[kind[id[t]]][pc[t]] \notin Section
        BY <1>4 DEF ReplaceFile, TypeOK, At, StepsOf, Section
      <4>2. \A n \in DOMAIN Program[kind[id[u]]] :
               n < pc'[u] => n < pc[u] \/ n = pc[u]
        BY <3>2, <3>3, <4>1
      <4>. QED  BY <3>1, <3>2, <3>3, <4>1, <4>2 DEF ProgressInMemory, StepsOf
    <3>4. CASE u # t
      <4>1. pc'[u] = pc[u]
        BY <1>4, <3>4 DEF ReplaceFile, TypeOK
      <4>. QED  BY <3>1, <4>1 DEF ProgressInMemory, StepsOf
    <3>. QED  BY <3>3, <3>4
  <2>. QED  BY <1>0, <2>1, <2>2, <2>3, <2>4
<1>5. ASSUME NEW t \in Thread, PersistFails(t) \/ Respond(t)
      PROVE  CompletenessInv'
  <2>1. MemoryComplete' /\ RegistrationsComplete'
    BY <1>5 DEF PersistFails, Respond, MemoryComplete, RegistrationsComplete
  <2>2. PartialSnapshotsComplete'
    <3>1. CASE PersistFails(t)
      BY <3>1 DEF PersistFails, PartialSnapshotsComplete, Empty, Section,
                  TypeOK
    <3>2. CASE Respond(t)
      BY <3>2 DEF Respond, PartialSnapshotsComplete
    <3>. QED  BY <1>5, <3>1, <3>2
  <2>3. ProgressInMemory'
    <3>1. \A u \in Thread : Busy(u)' => u # t
      BY <1>5 DEF PersistFails, Respond, Busy, TypeOK
    <3>2. \A u \in Thread : u # t => id'[u] = id[u] /\ pc'[u] = pc[u]
      BY <1>5 DEF PersistFails, Respond, TypeOK
    <3>3. kind' = kind /\ mem' = mem
      BY <1>5 DEF PersistFails, Respond
    <3>. QED  BY <3>1, <3>2, <3>3 DEF ProgressInMemory, Busy, StepsOf
  <2>. QED  BY <1>0, <2>1, <2>2, <2>3
<1>6. ASSUME Restart PROVE CompletenessInv'
  <2>1. MemoryComplete' /\ RegistrationsComplete'
    BY <1>6 DEF Restart, Load, MemoryComplete, RegistrationsComplete
  <2>2. PartialSnapshotsComplete'
    BY <1>6 DEF Restart, PartialSnapshotsComplete, Empty, Section
  <2>3. ProgressInMemory'
    BY <1>6 DEF Restart, ProgressInMemory, Busy
  <2>. QED  BY <1>0, <2>1, <2>2, <2>3
<1>7. CASE UNCHANGED vars
  BY <1>0, <1>7 DEF vars, MemoryComplete, RegistrationsComplete,
     PartialSnapshotsComplete, ProgressInMemory, Busy, StepsOf
<1>. QED  BY <1>1, <1>2, <1>3, <1>4, <1>5, <1>6, <1>7 DEF Next, ThreadStep

(* However many handlers run, fail and die, the snapshot file never holds  *)
(* a registration without its certificate and its ledger entry.            *)
THEOREM RegistrationsCompleteOnDisk == Spec => []RegistrationsComplete
<1>1. CompletenessInv => RegistrationsComplete
  BY DEF CompletenessInv
<1>. QED  BY <1>1, CompletenessInit, CompletenessNext, PTL DEF Spec

-----------------------------------------------------------------------------
(* A request that has run to its end has every record it writes in memory. *)
LEMMA FinishedIsInMemory ==
    ASSUME CompletenessInv, NEW t \in Thread, Busy(t),
           pc[t] > Len(StepsOf(t)), NEW s \in Writes(kind[id[t]])
    PROVE  s \in Section /\ id[t] \in mem[s]
<1>1. kind[id[t]] \in Kind
  BY DEF CompletenessInv, ProgressInMemory
<1>2. PICK n \in DOMAIN Program[kind[id[t]]] : Program[kind[id[t]]][n] = s
  BY DEF Writes
<1>3. s \in Section
  BY DEF Writes
<1>4. n < pc[t]
  BY <1>1, StepsAreSequences DEF StepsOf, CompletenessInv, TypeOK
<1>. QED  BY <1>2, <1>3, <1>4
          DEF CompletenessInv, ProgressInMemory, StepsOf

(* At the start nothing is answered.                                       *)
LEMMA CoverageInit == Init => CoverageInv
BY DEF Init, CoverageInv, AckedInMemory, PartialSnapshotsCover,
       SnapshotCoversBase

(* Every step keeps what is answered covered.                              *)
LEMMA CoverageNext ==
    CompletenessInv /\ CoverageInv /\ [Next]_vars => CoverageInv'
<1> SUFFICES ASSUME CompletenessInv, CoverageInv, [Next]_vars
             PROVE  CoverageInv'
  OBVIOUS
<1>0. TypeOK
  BY DEF CompletenessInv
<1> USE DEF CoverageInv
<1>1. ASSUME NEW t \in Thread, NEW k \in Id, NEW d \in Kind, Start(t, k, d)
      PROVE  CoverageInv'
  <2>1. \A j \in acked : kind'[j] = kind[j]
    BY <1>0, <1>1, StartKeepsKinds DEF AckedInMemory, TypeOK
  <2>2. UNCHANGED <<mem, disk, pos, snap, base, acked, diskBase>>
    BY <1>1 DEF Start
  <2>3. AckedInMemory'
    BY <2>1, <2>2 DEF AckedInMemory
  <2>4. PartialSnapshotsCover'
    BY <2>1, <2>2 DEF PartialSnapshotsCover
  <2>5. SnapshotCoversBase'
    BY <2>1, <2>2 DEF SnapshotCoversBase
  <2>. QED  BY <2>2, <2>3, <2>4, <2>5
<1>2. ASSUME NEW t \in Thread, Put(t) PROVE CoverageInv'
  <2>1. UNCHANGED <<disk, kind, pos, snap, base, acked, diskBase>>
    BY <1>2 DEF Put
  <2>2. AckedInMemory'
    BY <1>0, <1>2, <2>1, PutGrowsMemory DEF AckedInMemory, Writes
  <2>3. PartialSnapshotsCover' /\ SnapshotCoversBase'
    BY <2>1 DEF PartialSnapshotsCover, SnapshotCoversBase
  <2>. QED  BY <2>1, <2>2, <2>3
<1>3. ASSUME NEW t \in Thread, ReadSection(t) PROVE CoverageInv'
  <2> DEFINE p == pos[t] + 1
             s == ReadOrder[p]
  <2>1. UNCHANGED <<mem, disk, kind, acked, diskBase>>
    BY <1>3 DEF ReadSection
  <2>2. AckedInMemory' /\ SnapshotCoversBase'
    BY <2>1 DEF AckedInMemory, SnapshotCoversBase
  <2>3. PartialSnapshotsCover'
    <3> SUFFICES ASSUME NEW u \in Thread
                 PROVE  /\ base'[u] \subseteq acked
                        /\ \A k \in base'[u] : \A n \in 1 .. pos'[u] :
                              ReadOrder[n] \in Writes(kind[k])
                                 => k \in snap'[u][ReadOrder[n]]
      BY <2>1 DEF PartialSnapshotsCover
    <3>1. CASE u # t
      <4>1. snap'[u] = snap[u] /\ pos'[u] = pos[u]
        BY <1>0, <1>3, <3>1, ReadSectionEffect
      <4>2. base'[u] = base[u]
        BY <1>0, <1>3, <3>1 DEF ReadSection, TypeOK
      <4>. QED  BY <4>1, <4>2 DEF PartialSnapshotsCover
    <3>2. CASE u = t
      <4>1. /\ p \in 1 .. 6 /\ s \in Section /\ pos'[t] = p
            /\ snap'[t][s] = mem[s]
            /\ \A r \in Section : r # s => snap'[t][r] = snap[t][r]
        BY <1>0, <1>3, ReadSectionEffect
      <4>2. base'[t] = IF pos[t] = 0 THEN acked ELSE base[t]
        BY <1>0, <1>3 DEF ReadSection, TypeOK
      <4>3. base'[t] \subseteq acked
        BY <4>2 DEF PartialSnapshotsCover
      <4>4. ASSUME NEW k \in base'[t], NEW n \in 1 .. p,
                   ReadOrder[n] \in Writes(kind[k])
            PROVE  k \in snap'[t][ReadOrder[n]]
        <5>1. k \in mem[ReadOrder[n]]
          BY <4>3, <4>4 DEF AckedInMemory
        <5>2. CASE ReadOrder[n] = s
          BY <4>1, <5>1, <5>2
        <5>3. CASE ReadOrder[n] # s
          <6>1. n \in 1 .. pos[t]
            BY <1>0, <4>1, <5>3 DEF TypeOK
          <6>2. k \in base[t]
            BY <4>2, <6>1
          <6>3. k \in snap[t][ReadOrder[n]]
            BY <4>4, <6>1, <6>2 DEF PartialSnapshotsCover
          <6>4. ReadOrder[n] \in Section
            BY <4>4 DEF Writes
          <6>. QED  BY <4>1, <5>3, <6>3, <6>4
        <5>. QED  BY <5>2, <5>3
      <4>. QED  BY <3>2, <4>1, <4>3, <4>4
    <3>. QED  BY <3>1, <3>2
  <2>. QED  BY <2>1, <2>2, <2>3
<1>4. ASSUME NEW t \in Thread, ReplaceFile(t) PROVE CoverageInv'
  <2>1. /\ UNCHANGED <<mem, kind, acked>>
        /\ disk' = snap[t] /\ diskBase' = base[t]
        /\ pos[t] = 6
    BY <1>4, ReadOrderFacts DEF ReplaceFile
  <2>2. AckedInMemory' /\ diskBase' \subseteq acked
    BY <2>1 DEF AckedInMemory, PartialSnapshotsCover
  <2>3. SnapshotCoversBase'
    <3> SUFFICES ASSUME NEW k \in base[t], NEW s \in Writes(kind[k])
                 PROVE  k \in snap[t][s]
      BY <2>1 DEF SnapshotCoversBase
    <3>1. PICK n \in 1 .. 6 : ReadOrder[n] = s
      BY ReadOrderFacts DEF Writes
    <3>. QED  BY <2>1, <3>1 DEF PartialSnapshotsCover
  <2>4. PartialSnapshotsCover'
    <3>1. \A u \in Thread : u # t => /\ snap'[u] = snap[u]
                                     /\ pos'[u] = pos[u]
                                     /\ base'[u] = base[u]
      BY <1>0, <1>4 DEF ReplaceFile, TypeOK
    <3>2. base'[t] = {}
      BY <1>0, <1>4 DEF ReplaceFile, TypeOK
    <3>. QED  BY <2>1, <3>1, <3>2 DEF PartialSnapshotsCover
  <2>. QED  BY <2>1, <2>2, <2>3, <2>4
<1>5. ASSUME NEW t \in Thread, PersistFails(t) PROVE CoverageInv'
  <2>1. UNCHANGED <<mem, disk, kind, acked, diskBase>>
    BY <1>5 DEF PersistFails
  <2>2. AckedInMemory' /\ SnapshotCoversBase'
    BY <2>1 DEF AckedInMemory, SnapshotCoversBase
  <2>3. PartialSnapshotsCover'
    <3>1. \A u \in Thread : u # t => /\ snap'[u] = snap[u]
                                     /\ pos'[u] = pos[u]
                                     /\ base'[u] = base[u]
      BY <1>0, <1>5 DEF PersistFails, TypeOK
    <3>2. base'[t] = {}
      BY <1>0, <1>5 DEF PersistFails, TypeOK
    <3>. QED  BY <2>1, <3>1, <3>2 DEF PartialSnapshotsCover
  <2>. QED  BY <2>1, <2>2, <2>3
<1>6. ASSUME NEW t \in Thread, Respond(t) PROVE CoverageInv'
  <2>1. /\ UNCHANGED <<mem, disk, kind, pos, snap, base, diskBase>>
        /\ acked' = acked \cup {id[t]}
    BY <1>6 DEF Respond
  <2>2. Busy(t) /\ pc[t] > Len(StepsOf(t)) /\ kind[id[t]] \in Kind
    BY <1>6 DEF Respond, CompletenessInv, ProgressInMemory
  <2>3. AckedInMemory'
    BY <2>1, <2>2, FinishedIsInMemory DEF AckedInMemory
  <2>4. PartialSnapshotsCover' /\ SnapshotCoversBase'
    BY <2>1 DEF PartialSnapshotsCover, SnapshotCoversBase
  <2>. QED  BY <2>1, <2>3, <2>4
<1>7. ASSUME Restart PROVE CoverageInv'
  BY <1>7 DEF Restart, AckedInMemory, PartialSnapshotsCover,
              SnapshotCoversBase
<1>8. CASE UNCHANGED vars
  BY <1>8 DEF vars, AckedInMemory, PartialSnapshotsCover, SnapshotCoversBase
<1>. QED  BY <1>1, <1>2, <1>3, <1>4, <1>5, <1>6, <1>7, <1>8
          DEF Next, ThreadStep

(* However many handlers run, fail and die, the file contains everything   *)
(* that had been answered when the persist() that wrote it began.          *)
THEOREM SnapshotCoversEarlierAnswers == Spec => []SnapshotCoversBase
<1>1. CompletenessInv /\ CoverageInv => SnapshotCoversBase
  BY DEF CoverageInv
<1>. QED  BY <1>1, CompletenessInit, CompletenessNext, CoverageInit,
             CoverageNext, PTL DEF Spec

-----------------------------------------------------------------------------
(* Every handler calls persist() after its last insertion.                 *)
LEMMA EveryWriteIsPersisted ==
    ASSUME NEW d \in Kind, NEW n \in DOMAIN Program[d],
           Program[d][n] \in Section
    PROVE  \E m \in DOMAIN Program[d] : n < m /\ Program[d][m] = "persist"
<1>1. CASE d = "register"
  <2>1. Program[d] = RegisterSteps
    BY <1>1 DEF Program
  <2>2. 4 \in DOMAIN Program[d] /\ Program[d][4] = "persist"
    BY <2>1 DEF RegisterSteps
  <2>3. n \in 1 .. 3
    BY <2>1 DEF RegisterSteps, Section
  <2>. QED  BY <2>2, <2>3
<1>2. CASE d = "detect"
  <2>1. Program[d] = DetectSteps
    BY <1>2 DEF Program
  <2>2. 5 \in DOMAIN Program[d] /\ Program[d][5] = "persist"
    BY <2>1 DEF DetectSteps
  <2>3. n \in 1 .. 4
    BY <2>1 DEF DetectSteps, Section
  <2>. QED  BY <2>2, <2>3
<1>3. CASE d = "remove"
  <2>1. Program[d] = RemoveSteps
    BY <1>3 DEF Program
  <2>2. 3 \in DOMAIN Program[d] /\ Program[d][3] = "persist"
    BY <2>1 DEF RemoveSteps
  <2>3. n \in 1 .. 2
    BY <2>1 DEF RemoveSteps, Section
  <2>. QED  BY <2>2, <2>3
<1>. QED  BY <1>1, <1>2, <1>3 DEF Kind

(* Requests are served one at a time.                                      *)
Serial == \A t, u \in Thread : t = u

(* At the start nothing is inserted.                                       *)
LEMMA SerialInit == Init => SerialInv
BY DEF Init, SerialInv, DiskInMemory, PartialSnapshotsCurrent,
       PersistedIsDurable, AckedDurable, Busy, Empty

(* Serial requests: replacing the file makes it equal to memory.           *)
LEMMA SerialReplace ==
    ASSUME TypeOK, PartialSnapshotsCurrent, NEW t \in Thread, ReplaceFile(t)
    PROVE  \A s \in Section : disk'[s] = mem[s]
<1>1. pos[t] = 6 /\ disk' = snap[t]
  BY ReadOrderFacts DEF ReplaceFile
<1>2. TAKE s \in Section
<1>3. PICK n \in 1 .. 6 : ReadOrder[n] = s
  BY ReadOrderFacts
<1>. QED  BY <1>1, <1>3 DEF PartialSnapshotsCurrent

(* With one request at a time, every step keeps the snapshot true.         *)
LEMMA SerialNext ==
    ASSUME Serial
    PROVE  CompletenessInv /\ CoverageInv /\ SerialInv /\ [Next]_vars
              => SerialInv'
<1> SUFFICES ASSUME CompletenessInv, CoverageInv, SerialInv, [Next]_vars
             PROVE  SerialInv'
  OBVIOUS
<1>0. /\ TypeOK /\ ProgressInMemory /\ AckedInMemory
      /\ DiskInMemory /\ PartialSnapshotsCurrent /\ PersistedIsDurable
      /\ AckedDurable
      /\ \A t \in Thread : Busy(t) =>
            kind[id[t]] \in Kind /\ DOMAIN StepsOf(t) \subseteq Nat
  BY StepsAreSequences
     DEF CompletenessInv, CoverageInv, SerialInv, ProgressInMemory, StepsOf
<1> USE DEF SerialInv, Serial
<1>1. ASSUME NEW t \in Thread, NEW k \in Id, NEW d \in Kind, Start(t, k, d)
      PROVE  SerialInv'
  <2>1. UNCHANGED <<mem, disk, pos, snap, acked>> /\ ~Busy(t)
    BY <1>1 DEF Start
  <2>2. \A j \in acked : kind'[j] = kind[j]
    BY <1>0, <1>1, StartKeepsKinds DEF AckedInMemory, TypeOK
  <2>3. DiskInMemory' /\ AckedDurable'
    BY <1>0, <2>1, <2>2 DEF DiskInMemory, AckedDurable
  <2>4. pos[t] = 0
    BY <1>0, <2>1, ReadOrderFacts
       DEF PartialSnapshotsCurrent, Running, TypeOK
  <2>5. PartialSnapshotsCurrent'
    BY <2>1, <2>4 DEF PartialSnapshotsCurrent
  <2>6. PersistedIsDurable'
    <3>1. pc'[t] = 1 /\ id'[t] = k /\ kind'[k] = d
      BY <1>0, <1>1 DEF Start, TypeOK
    <3>2. DOMAIN Program[d] \subseteq Nat \ {0}
      BY StepsAreSequences
    <3>. QED  BY <3>1, <3>2 DEF PersistedIsDurable, StepsOf
  <2>. QED  BY <2>3, <2>5, <2>6
<1>2. ASSUME NEW t \in Thread, Put(t) PROVE SerialInv'
  <2>1. UNCHANGED <<disk, kind, id, pos, snap, acked>> /\ Busy(t)
    BY <1>2 DEF Put, Running
  <2>2. DiskInMemory' /\ AckedDurable'
    BY <1>0, <1>2, <2>1, PutGrowsMemory DEF DiskInMemory, AckedDurable
  <2>3. pos[t] = 0
    BY <1>0, <1>2, ReadOrderFacts
       DEF PartialSnapshotsCurrent, Put, Section, TypeOK
  <2>4. PartialSnapshotsCurrent'
    BY <2>1, <2>3 DEF PartialSnapshotsCurrent
  <2>5. PersistedIsDurable'
    <3>1. pc'[t] = pc[t] + 1 /\ StepsOf(t)[pc[t]] # "persist"
      BY <1>0, <1>2 DEF Put, TypeOK, At, Section
    <3>2. \A m \in DOMAIN StepsOf(t) :
             m < pc'[t] /\ StepsOf(t)[m] = "persist" => m < pc[t]
      BY <1>0, <2>1, <3>1 DEF TypeOK
    <3>3. UNCHANGED StepsOf(t)
      BY <2>1 DEF StepsOf
    <3>. QED  BY <1>0, <2>1, <3>2, <3>3 DEF PersistedIsDurable
  <2>. QED  BY <2>2, <2>4, <2>5
<1>3. ASSUME NEW t \in Thread, ReadSection(t) PROVE SerialInv'
  <2> DEFINE p == pos[t] + 1
             s == ReadOrder[p]
  <2>1. /\ UNCHANGED <<mem, disk, kind, id, pc, acked>>
        /\ Running(t) /\ At(t) = "persist"
    BY <1>3 DEF ReadSection
  <2>2. DiskInMemory' /\ AckedDurable' /\ PersistedIsDurable'
    BY <1>0, <2>1 DEF DiskInMemory, AckedDurable, PersistedIsDurable, Busy,
                      StepsOf
  <2>3. /\ p \in 1 .. 6 /\ s \in Section /\ pos'[t] = p
        /\ snap'[t][s] = mem[s]
        /\ \A r \in Section : r # s => snap'[t][r] = snap[t][r]
    BY <1>0, <1>3, ReadSectionEffect
  <2>4. ASSUME NEW n \in 1 .. p
        PROVE  snap'[t][ReadOrder[n]] = mem[ReadOrder[n]]
    <3>1. CASE ReadOrder[n] = s
      BY <2>3, <3>1
    <3>2. CASE ReadOrder[n] # s
      <4>1. n \in 1 .. pos[t]
        BY <1>0, <2>3, <3>2 DEF TypeOK
      <4>2. ReadOrder[n] \in Section
        BY <2>3, ReadOrderFacts
      <4>. QED  BY <1>0, <2>3, <3>2, <4>1, <4>2 DEF PartialSnapshotsCurrent
    <3>. QED  BY <3>1, <3>2
  <2>5. PartialSnapshotsCurrent'
    BY <2>1, <2>3, <2>4
       DEF PartialSnapshotsCurrent, Running, Busy, At, StepsOf
  <2>. QED  BY <2>2, <2>5
<1>4. ASSUME NEW t \in Thread, ReplaceFile(t) PROVE SerialInv'
  <2>1. /\ UNCHANGED <<mem, kind, id, acked>> /\ Busy(t)
        /\ pc'[t] = pc[t] + 1 /\ pos'[t] = 0
        /\ StepsOf(t)[pc[t]] = "persist"
    BY <1>0, <1>4 DEF ReplaceFile, Running, At, TypeOK
  <2>2. \A s \in Section : disk'[s] = mem[s]
    BY <1>0, <1>4, SerialReplace
  <2>3. DiskInMemory'
    BY <2>1, <2>2 DEF DiskInMemory
  <2>4. AckedDurable'
    BY <1>0, <2>1, <2>2 DEF AckedDurable, AckedInMemory, Writes
  <2>5. PartialSnapshotsCurrent'
    BY <2>1 DEF PartialSnapshotsCurrent
  <2>6. PersistedIsDurable'
    <3>1. UNCHANGED StepsOf(t)
      BY <2>1 DEF StepsOf
    <3>2. \A n, m \in DOMAIN StepsOf(t) :
             n < m /\ m < pc'[t] => n < pc[t]
      BY <1>0, <2>1 DEF TypeOK
    <3>. QED  BY <1>0, <2>1, <2>2, <3>1, <3>2
              DEF PersistedIsDurable, ProgressInMemory
  <2>. QED  BY <2>3, <2>4, <2>5, <2>6
<1>5. ASSUME NEW t \in Thread, PersistFails(t) PROVE SerialInv'
  <2>1. /\ UNCHANGED <<mem, disk, kind, acked>>
        /\ id'[t] = NoId /\ pos'[t] = 0
    BY <1>0, <1>5 DEF PersistFails, TypeOK
  <2>. QED  BY <1>0, <2>1
            DEF DiskInMemory, AckedDurable, PartialSnapshotsCurrent,
                PersistedIsDurable, Busy
<1>6. ASSUME NEW t \in Thread, Respond(t) PROVE SerialInv'
  <2>1. /\ UNCHANGED <<mem, disk, kind, pos, snap>>
        /\ acked' = acked \cup {id[t]}
        /\ id'[t] = NoId
        /\ Busy(t) /\ pc[t] > Len(StepsOf(t))
    BY <1>0, <1>6 DEF Respond, TypeOK
  <2>2. \A s \in Writes(kind[id[t]]) : id[t] \in disk[s]
    <3> TAKE s \in Writes(kind[id[t]])
    <3>1. PICK n \in DOMAIN StepsOf(t) : StepsOf(t)[n] = s /\ s \in Section
      BY DEF Writes, StepsOf
    <3>2. PICK m \in DOMAIN StepsOf(t) : n < m /\ StepsOf(t)[m] = "persist"
      BY <1>0, <2>1, <3>1, EveryWriteIsPersisted DEF StepsOf
    <3>3. m < pc[t]
      BY <1>0, <2>1, StepsAreSequences DEF StepsOf, TypeOK
    <3>. QED  BY <1>0, <2>1, <3>1, <3>2, <3>3 DEF PersistedIsDurable
  <2>3. AckedDurable'
    BY <1>0, <2>1, <2>2 DEF AckedDurable
  <2>4. pos[t] = 0
    BY <1>0, <2>1, ReadOrderFacts
       DEF PartialSnapshotsCurrent, Running, TypeOK, StepsOf
  <2>5. DiskInMemory' /\ PersistedIsDurable' /\ PartialSnapshotsCurrent'
    BY <1>0, <2>1, <2>4 DEF DiskInMemory, PersistedIsDurable, Busy,
                            PartialSnapshotsCurrent
  <2>. QED  BY <2>3, <2>5
<1>7. ASSUME Restart PROVE SerialInv'
  BY <1>7 DEF Restart, Load, DiskInMemory, PartialSnapshotsCurrent,
              PersistedIsDurable, AckedDurable, Busy
<1>8. CASE UNCHANGED vars
  BY <1>8 DEF vars, DiskInMemory, PartialSnapshotsCurrent,
     PersistedIsDurable, AckedDurable, Running, Busy, At, StepsOf
<1>. QED  BY <1>1, <1>2, <1>3, <1>4, <1>5, <1>6, <1>7, <1>8
          DEF Next, ThreadStep

(* When requests are served one at a time, what a mutating request wrote   *)
(* before its answer is in the file: the store's claim holds.              *)
THEOREM SerialAnswersAreDurable ==
    ASSUME Serial PROVE Spec => []AckedDurable
<1>1. SerialInv => AckedDurable
  BY DEF SerialInv
<1>. QED  BY <1>1, CompletenessInit, CompletenessNext, CoverageInit,
             CoverageNext, SerialInit, SerialNext, PTL DEF Spec

(* When requests are served one at a time, no record leaves the file.      *)
THEOREM SerialFileOnlyGrows ==
    ASSUME Serial PROVE Spec => NothingDropped
<1>1. CompletenessInv /\ SerialInv /\ [Next]_vars
         => [\A s \in Section : disk[s] \subseteq disk'[s]]_disk
  <2> SUFFICES ASSUME CompletenessInv, SerialInv, [Next]_vars, disk' # disk
               PROVE  \A s \in Section : disk[s] \subseteq disk'[s]
    OBVIOUS
  <2>1. PICK t \in Thread : ReplaceFile(t)
    BY DEF Next, ThreadStep, vars, Start, Put, ReadSection, PersistFails,
           Respond, Restart
  <2>2. \A s \in Section : disk'[s] = mem[s]
    BY <2>1, SerialReplace DEF CompletenessInv, SerialInv
  <2>. QED  BY <2>2 DEF SerialInv, DiskInMemory
<1>. QED  BY <1>1, CompletenessInit, CompletenessNext, CoverageInit,
             CoverageNext, SerialInit, SerialNext, PTL
          DEF Spec, NothingDropped

-----------------------------------------------------------------------------
(* An incident is inserted by a detection after its evidence report, a     *)
(* takedown case by a removal.                                             *)
LEMMA ReferencesAreWrittenFirst ==
    ASSUME NEW d \in Kind, NEW n \in DOMAIN Program[d]
    PROVE  /\ Program[d][n] = "incidents" =>
                 /\ Subject(d) = "registrations"
                 /\ \E m \in DOMAIN Program[d] :
                       m < n /\ Program[d][m] = "evidence_reports"
           /\ Program[d][n] = "takedown_cases" => Subject(d) = "incidents"
<1>1. CASE d = "register"
  BY <1>1 DEF Program, RegisterSteps
<1>2. CASE d = "detect"
  BY <1>2 DEF Program, DetectSteps, Subject
<1>3. CASE d = "remove"
  BY <1>3 DEF Program, RemoveSteps, Subject
<1>. QED  BY <1>1, <1>2, <1>3 DEF Kind

(* What a request is about is in a section, if it is about anything.       *)
LEMMA SubjectIsSection ==
    ASSUME NEW d, Subject(d) # "none"
    PROVE  Subject(d) \in Section
BY DEF Subject, Section

(* At the start nothing is referred to.                                    *)
LEMMA ReferencesInit == Init => ReferencesInv
BY DEF Init, ReferencesInv, ReferencesComplete, Closed, Empty, Section, Busy

(* With one request at a time, every step keeps the references.            *)
LEMMA ReferencesNext ==
    ASSUME Serial
    PROVE  CompletenessInv /\ SerialInv /\ ReferencesInv /\ [Next]_vars
              => ReferencesInv'
<1> SUFFICES ASSUME CompletenessInv, SerialInv, ReferencesInv, [Next]_vars
             PROVE  ReferencesInv'
  OBVIOUS
<1>0. /\ TypeOK /\ ProgressInMemory /\ DiskInMemory /\ PartialSnapshotsCurrent
      /\ Closed(mem) /\ Closed(disk)
      /\ \A s \in Section : \A k \in mem[s] : kind[k] # "unused"
      /\ \A t \in Thread : Busy(t) /\ Subject(kind[id[t]]) # "none"
            => target[id[t]] \in mem[Subject(kind[id[t]])]
  BY DEF CompletenessInv, SerialInv, ReferencesInv, ReferencesComplete
<1>1. ASSUME NEW t \in Thread, NEW k \in Id, NEW d \in Kind, Start(t, k, d)
      PROVE  ReferencesInv'
  <2>1. /\ UNCHANGED <<mem, disk>> /\ kind[k] = "unused"
        /\ id'[t] = k /\ kind'[k] = d
        /\ \A j \in Id \ {k} : target'[j] = target[j] /\ kind'[j] = kind[j]
        /\ Subject(d) # "none" => target'[k] \in mem[Subject(d)]
    <3>1. \E x \in Found(d) : target' = [target EXCEPT ![k] = x]
      BY <1>1 DEF Start
    <3>. QED  BY <1>0, <1>1, <3>1 DEF Start, Found, TypeOK
  <2>2. \A s \in Section : mem[s] \subseteq Id \ {k} /\ disk[s] \subseteq Id \ {k}
    BY <1>0, <2>1 DEF DiskInMemory, TypeOK, Sections
  <2>3. /\ \A j \in mem["incidents"] \cup mem["takedown_cases"] :
              target'[j] = target[j]
        /\ \A j \in disk["incidents"] \cup disk["takedown_cases"] :
              target'[j] = target[j]
    BY <2>1, <2>2 DEF Section
  <2>4. Closed(mem)' /\ ReferencesComplete'
    BY <1>0, <2>1, <2>3 DEF Closed, ReferencesComplete
  <2>5. \A s \in Section : \A j \in mem'[s] : kind'[j] # "unused"
    BY <1>0, <2>1, <2>2
  <2>6. \A u \in Thread : (Busy(u) /\ Subject(kind[id[u]]) # "none"
            => target[id[u]] \in mem[Subject(kind[id[u]])])'
    BY <2>1 DEF Serial
  <2>. QED  BY <2>4, <2>5, <2>6 DEF ReferencesInv
<1>2. ASSUME NEW t \in Thread, Put(t) PROVE ReferencesInv'
  <2> DEFINE k == id[t]
             n == pc[t]
             s == At(t)
  <2>1. /\ UNCHANGED <<disk, kind, id, target>> /\ Busy(t)
        /\ k \in Id /\ kind[k] \in Kind
        /\ s \in Section /\ n \in DOMAIN Program[kind[k]]
        /\ s = Program[kind[k]][n]
        /\ \A r \in Section : mem'[r] = IF r = s THEN mem[r] \cup {k} ELSE mem[r]
    BY <1>0, <1>2, PutGrowsMemory
       DEF Put, Running, At, StepsOf, TypeOK, Sections, ProgressInMemory
  <2>2. \A r \in Section : \A j \in mem'[r] : kind'[j] # "unused"
    BY <1>0, <2>1 DEF Kind
  <2>3. \A u \in Thread : (Busy(u) /\ Subject(kind[id[u]]) # "none"
            => target[id[u]] \in mem[Subject(kind[id[u]])])'
    BY <1>0, <2>1, SubjectIsSection DEF Busy
  <2>4. s = "incidents" => /\ k \in mem["evidence_reports"]
                           /\ target[k] \in mem["registrations"]
    <3> SUFFICES ASSUME s = "incidents"
                 PROVE  /\ k \in mem["evidence_reports"]
                        /\ target[k] \in mem["registrations"]
      OBVIOUS
    <3>1. /\ Subject(kind[k]) = "registrations"
          /\ \E m \in DOMAIN Program[kind[k]] :
                m < n /\ Program[kind[k]][m] = "evidence_reports"
      BY <2>1, ReferencesAreWrittenFirst
    <3>. QED  BY <1>0, <2>1, <3>1 DEF ProgressInMemory, StepsOf, Section
  <2>5. s = "takedown_cases" => target[k] \in mem["incidents"]
    <3>1. Program[kind[k]][n] = "takedown_cases" => Subject(kind[k]) = "incidents"
      BY ONLY <2>1, ReferencesAreWrittenFirst, Zenon
    <3>. QED  BY <1>0, <2>1, <3>1
  <2>6. Closed(mem)'
    <3>1. mem'["incidents"] \subseteq mem'["evidence_reports"]
      BY <1>0, <2>1, <2>4 DEF Closed, Section
    <3>2. \A j \in mem'["incidents"] : target'[j] \in mem'["registrations"]
      BY <1>0, <2>1, <2>4 DEF Closed, Section
    <3>3. \A j \in mem'["takedown_cases"] : target'[j] \in mem'["incidents"]
      BY <1>0, <2>1, <2>5 DEF Closed, Section
    <3>. QED  BY <3>1, <3>2, <3>3 DEF Closed
  <2>7. ReferencesComplete'
    BY <1>0, <2>1 DEF ReferencesComplete, Closed
  <2>. QED  BY <2>2, <2>3, <2>6, <2>7 DEF ReferencesInv
<1>3. ASSUME NEW t \in Thread, ReplaceFile(t) PROVE ReferencesInv'
  <2>1. UNCHANGED <<mem, kind, id, target>>
    BY <1>3 DEF ReplaceFile
  <2>2. \A s \in Section : disk'[s] = mem[s]
    BY <1>0, <1>3, SerialReplace
  <2>3. Closed(mem)' /\ ReferencesComplete'
    BY <1>0, <2>1, <2>2 DEF Closed, ReferencesComplete, Section
  <2>. QED  BY <1>0, <2>1, <2>3 DEF ReferencesInv, Busy
<1>4. ASSUME NEW t \in Thread, ReadSection(t) PROVE ReferencesInv'
  BY <1>0, <1>4 DEF ReadSection, ReferencesInv, ReferencesComplete, Closed, Busy
<1>5. ASSUME NEW t \in Thread, PersistFails(t) \/ Respond(t)
      PROVE  ReferencesInv'
  <2>1. UNCHANGED <<mem, disk, kind, target>> /\ id'[t] = NoId
    BY <1>0, <1>5 DEF PersistFails, Respond, TypeOK
  <2>2. \A u \in Thread : ~ Busy(u)'
    BY <2>1 DEF Serial, Busy
  <2>. QED  BY <1>0, <2>1, <2>2 DEF ReferencesInv, ReferencesComplete, Closed
<1>6. ASSUME Restart PROVE ReferencesInv'
  <2>1. mem' = disk /\ UNCHANGED <<disk, kind, target>>
        /\ \A u \in Thread : ~ Busy(u)'
    BY <1>6 DEF Restart, Load, Busy
  <2>2. \A s \in Section : \A k \in mem'[s] : kind'[k] # "unused"
    BY <1>0, <2>1 DEF DiskInMemory
  <2>. QED  BY <1>0, <2>1, <2>2 DEF ReferencesInv, ReferencesComplete, Closed
<1>7. CASE UNCHANGED vars
  BY <1>0, <1>7 DEF vars, ReferencesInv, ReferencesComplete, Closed, Busy
<1>. QED  BY <1>1, <1>2, <1>3, <1>4, <1>5, <1>6, <1>7 DEF Next, ThreadStep

(* When requests are served one at a time, no record in the file refers to *)
(* one that is not there.                                                  *)
THEOREM SerialReferencesComplete ==
    ASSUME Serial PROVE Spec => []ReferencesComplete
<1>1. ReferencesInv => ReferencesComplete
  BY DEF ReferencesInv
<1>. QED  BY <1>1, CompletenessInit, CompletenessNext, CoverageInit,
             CoverageNext, SerialInit, SerialNext, ReferencesInit,
             ReferencesNext, PTL DEF Spec
=============================================================================
