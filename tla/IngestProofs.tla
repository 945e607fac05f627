---------------------------- MODULE IngestProofs ----------------------------
(***************************************************************************)
(* Theorems about the connections of MediaIngest, for any number of        *)
(* threads, providers, states and connectors.                              *)
(***************************************************************************)
EXTENDS MediaIngest, TLAPS

USE VaultAssumption, IngestAssumption DEF disk

Steps == {"idle", "prune", "exchange", "vault", "token", "refresh",
          "refreshed", "save", "write", "item", "lookup", "submit", "store"}

(* The steps at which a handler has no use for what job[t] says.           *)
Calm == Steps \ {"exchange", "vault", "refresh", "refreshed", "write"}

Local == [conn : Connector \cup {None}, state : State \cup {None},
          prov : Provider \cup {None}, token : Nat,
          next : {"idle", "token", "item"}]

Picture == [connected : SUBSET Connector, vault : [Connector -> Nat],
            newest : BOOLEAN]

(* The pictures that a restart or a later step may see.                    *)
OnDisk == {file} \cup {picture[t] : t \in Thread}

(* Where a picture may come from.                                          *)
Stems(p) ==
    \/ \E q \in OnDisk : p.connected = q.connected /\ p.vault = q.vault
    \/ p.connected = connected /\ p.vault = vault
    \/ p.connected = {} /\ p.vault = [c \in Connector |-> 0]

(* An identifier that no connector has had.                                *)
Unused(c) ==
    /\ origin[c] = None
    /\ vault[c] = 0 /\ live[c] = 0 /\ c \notin connected
    /\ \A p \in OnDisk : p.vault[c] = 0 /\ c \notin p.connected
    /\ \A t \in Thread : job[t].conn # c

Types ==
    /\ flow \subseteq State
    /\ asked \in [State -> Provider \cup {None}]
    /\ connected \subseteq Connector
    /\ provider \in [Connector -> Provider \cup {None}]
    /\ origin \in [Connector -> State \cup {None}]
    /\ vault \in [Connector -> Nat]
    /\ file \in Picture
    /\ picture \in [Thread -> Picture]
    /\ live \in [Connector -> Nat]
    /\ pc \in [Thread -> Steps]
    /\ job \in [Thread -> Local]

TypeInv ==
    /\ Types
    /\ \A t \in Thread : pc[t] \in {"vault", "refresh", "refreshed"}
                            => job[t].conn \in Connector
    /\ \A c \in Connector : provider[c] = None => Unused(c)

(* A state is pending, in the hands of one handler, or in a connector.     *)
StateInv ==
    /\ \A s \in flow :
          /\ asked[s] # None
          /\ \A c \in Connector : origin[c] # s
          /\ \A t \in Thread : pc[t] = "exchange" => job[t].state # s
    /\ \A t \in Thread : pc[t] = "exchange" =>
          /\ job[t].state \in State
          /\ job[t].prov \in Provider
          /\ asked[job[t].state] = job[t].prov
          /\ \A c \in Connector : origin[c] # job[t].state
          /\ \A u \in Thread :
                pc[u] = "exchange" /\ job[u].state = job[t].state => u = t
    /\ \A c \in Connector : origin[c] # None => provider[c] = asked[origin[c]]
    /\ \A c, d \in Connector : origin[c] = origin[d] /\ origin[c] # None
                                  => c = d

(* Thread t has an answer of c's platform in hand.                         *)
Answered(t, c) == pc[t] = "refreshed" /\ job[t].conn = c

(* The answer is the platform's token; and if the platform rotates tokens, *)
(* no other handler has it, nor the entry.                                 *)
Newest(t, c) ==
    /\ job[t].token = live[c]
    /\ provider[c] \in Rotating =>
          /\ vault[c] < live[c]
          /\ \A u \in Thread :
                /\ Answered(u, c) => u = t
                /\ pc[u] = "refresh" /\ job[u].conn = c
                      => job[u].token < live[c]

(* Nobody has a newer token than the platform, and an answer in hand is    *)
(* the newest unless one was lost.                                         *)
TokenInv ==
    /\ \A c \in Connector : vault[c] <= live[c]
    /\ \A t \in Thread : pc[t] \in {"refresh", "refreshed"}
                            => job[t].token <= live[job[t].conn]
    /\ \A c \in Connector \ broken, t \in Thread :
          Answered(t, c) => Newest(t, c)

MemoryFollows ==
    \A c \in connected :
       \/ vault[c] = live[c]
       \/ c \in broken
       \/ \E t \in Thread : job[t].conn = c /\ pc[t] = "refreshed"

(* What VaultFollowsPlatform says of the file, for any picture.            *)
Follows(p) ==
    p.newest =>
        \A c \in p.connected :
           \/ p.vault[c] = live[c]
           \/ c \in broken
           \/ \E t \in Thread :
                 job[t].conn = c /\ pc[t] \in {"refreshed", "save"}

DiskInv ==
    \A p \in OnDisk :
        /\ Follows(p)
        /\ \A c \in Connector : p.vault[c] <= live[c]

TokenParts == TokenInv /\ MemoryFollows /\ DiskInv

ConnectionInv == TypeInv /\ StateInv /\ TokenParts

-----------------------------------------------------------------------------
(* What all the other steps of thread t have in common.                    *)
Quiet(t) ==
    /\ flow' \subseteq flow /\ connected' \subseteq connected
    /\ UNCHANGED <<asked, provider, origin, vault, disk, live, broken>>
    /\ pc[t] \notin {"refreshed", "save", "write"}
    /\ \E step \in Calm : pc' = [pc EXCEPT ![t] = step]
    /\ \/ UNCHANGED job
       \/ job' = [job EXCEPT ![t] = NoJob]
       \/ \E step \in {"idle", "item"} : job' = [job EXCEPT ![t].next = step]

(* Only the clock moves, or nothing.                                       *)
Still ==
    UNCHANGED <<flow, asked, accounts, vault, disk, grants, pc, job>>

(* A sync takes up its connector.                                          *)
Takes(t, c) ==
    /\ pc[t] = "idle"
    /\ c \in connected
    /\ job' = [job EXCEPT ![t].conn = c]
    /\ Goto(t, "vault")
    /\ UNCHANGED <<flow, asked, accounts, vault, disk, grants>>

Move(t) ==
    \/ \E p \in Provider, s \in State : Start(t, p, s) \/ Callback(t, p, s)
    \/ \E c \in Connector, p \in Provider : Connect(t, c, p)
    \/ \E c \in Connector : Takes(t, c) \/ Exchange(t, c)
    \/ TokenStale(t) \/ Refreshed(t) \/ RefreshLost(t) \/ StoreToken(t)
    \/ Capture(t) \/ Replace(t) \/ SaveFails(t)
    \/ Quiet(t)

(* Requests that are quiet when they are taken up.                         *)
LEMMA QuietRequests ==
    ASSUME TypeInv, NEW t \in Thread,
           \/ \E c \in Connector : Disconnect(t, c)
           \/ \E c \in Connector, m \in Content : Post(t, c, m)
           \/ \E d \in Deliveries : t = Loop /\ Webhook(d)
    PROVE  Quiet(t)
<1>1. CASE \E c \in Connector : Disconnect(t, c)
  BY <1>1 DEF Disconnect, Arrives, Idle, SaveThen, Goto, flows, grants, Quiet,
              Calm, Steps
<1>2. CASE \E c \in Connector, m \in Content : Post(t, c, m)
  BY <1>2 DEF Post, Begin, Arrives, Idle, Goto, Aside, flows, accounts, grants,
              Quiet, Calm, Steps
<1>3. CASE \E d \in Deliveries : t = Loop /\ Webhook(d)
  BY <1>3 DEF Webhook, Begin, Arrives, Idle, Goto, Aside, flows, accounts,
              grants, Quiet, Calm, Steps
<1>. QED  BY <1>1, <1>2, <1>3

(* Quiet steps of the handlers of PlatformVault.                           *)
LEMMA QuietVault ==
    ASSUME TypeInv, NEW t \in Thread,
           \/ TokenFresh(t) \/ Prune(t) \/ ExchangeFails(t)
           \/ TokenMissing(t) \/ RefreshFails(t)
    PROVE  Quiet(t)
<1>1. CASE TokenFresh(t)
  BY <1>1 DEF TokenFresh, Goto, flows, accounts, grants, Quiet, Calm, Steps
<1>2. CASE Prune(t)
  BY <1>2 DEF Prune, End, Goto, accounts, grants, Quiet, Calm, Steps
<1>3. CASE ExchangeFails(t)
  BY <1>3 DEF ExchangeFails, End, Goto, flows, accounts, grants, Quiet, Calm,
              Steps
<1>4. CASE TokenMissing(t)
  BY <1>4 DEF TokenMissing, End, Goto, flows, accounts, grants, Quiet, Calm,
              Steps
<1>5. CASE RefreshFails(t)
  BY <1>5 DEF RefreshFails, End, Goto, flows, accounts, grants, Quiet, Calm,
              Steps
<1>. QED  BY <1>1, <1>2, <1>3, <1>4, <1>5

(* Quiet steps of the handlers that ingest.                                *)
LEMMA QuietItems ==
    ASSUME TypeInv, NEW t \in Thread,
           \/ List(t) \/ ListFails(t) \/ SkipItem(t) \/ TakeItem(t)
           \/ Finish(t) \/ Lookup(t) \/ Submitted(t) \/ SubmitLost(t)
           \/ SubmitFails(t) \/ Store(t)
    PROVE  Quiet(t)
<1>. USE DEF TypeInv, Types, Goto, EndRun, Within, Aside, flows, accounts,
             grants, Quiet, Calm, Steps
<1>1. CASE List(t)
  BY <1>1 DEF List
<1>2. CASE ListFails(t)
  BY <1>2 DEF ListFails
<1>3. CASE SkipItem(t)
  BY <1>3 DEF SkipItem, AtItem
<1>4. CASE TakeItem(t)
  BY <1>4 DEF TakeItem, AtItem
<1>5. CASE Finish(t)
  BY <1>5 DEF Finish
<1>6. CASE Lookup(t)
  BY <1>6 DEF Lookup
<1>7. CASE Submitted(t)
  BY <1>7 DEF Submitted
<1>8. CASE SubmitLost(t)
  BY <1>8 DEF SubmitLost, TryAgain
<1>9. CASE SubmitFails(t)
  BY <1>9 DEF SubmitFails, TryAgain
<1>10. CASE Store(t)
  BY <1>10 DEF Store, SaveThen
<1>. QED  BY <1>1, <1>2, <1>3, <1>4, <1>5, <1>6, <1>7, <1>8, <1>9, <1>10

(* Every step is one of the moves.                                         *)
LEMMA Moves ==
    ASSUME TypeInv, [Next]_allVars
    PROVE  (\E t \in Thread : Move(t)) \/ Restart \/ Still
<1>1. CASE Arrival
  <2>1. CASE \E t \in Pool : VaultRequest(t)
    BY <2>1, QuietRequests DEF Pool, VaultRequest, Move
  <2>2. CASE \E t \in Pool, c \in Connector : Sync(t, c)
    <3>1. PICK t \in Thread, c \in Connector : Sync(t, c)
      BY <2>2 DEF Pool
    <3>2. Takes(t, c)
      BY <3>1 DEF Sync, Begin, Arrives, Idle, Aside, flows, Takes
    <3>. QED  BY <3>2 DEF Move
  <2>3. CASE \E t \in Pool, c \in Connector, m \in Content : Post(t, c, m)
    BY <2>3, QuietRequests DEF Pool, Move
  <2>4. CASE \E d \in Deliveries : Webhook(d)
    <3>1. Quiet(Loop)
      BY <2>4, QuietRequests
    <3>. QED  BY <3>1 DEF Move
  <2>. QED  BY <1>1, <2>1, <2>2, <2>3, <2>4 DEF Arrival
<1>2. ASSUME NEW t \in Thread, Progress(t)
      PROVE  Move(t)
  <2>1. CASE VaultStep(t)
    BY <2>1, QuietVault DEF VaultStep, Move
  <2>2. CASE VaultEnd(t)
    BY <2>2, QuietVault DEF VaultEnd, Move
  <2>3. CASE CaptureAll(t) \/ InstallAll(t)
    BY <2>3 DEF CaptureAll, InstallAll, Move
  <2>4. CASE ~VaultStep(t) /\ ~VaultEnd(t) /\ ~CaptureAll(t) /\ ~InstallAll(t)
    <3>1. Quiet(t)
      BY <1>2, <2>4, QuietItems DEF Progress
    <3>. QED  BY <3>1 DEF Move
  <2>. QED  BY <2>1, <2>2, <2>3, <2>4
<1>3. CASE TimePasses
  BY <1>3 DEF TimePasses, Age, accounts, grants, Still
<1>4. CASE RestartAll
  BY <1>4 DEF RestartAll
<1>5. CASE UNCHANGED allVars
  BY <1>5 DEF allVars, vaultVars, flows, accounts, grants, Still
<1>. QED  BY <1>1, <1>2, <1>3, <1>4, <1>5 DEF Next

-----------------------------------------------------------------------------
(* The invariant holds when the process starts, whatever its file has.     *)
LEMMA ConnectionInit == IngestInit => ConnectionInv
<1>. SUFFICES ASSUME VaultInit PROVE ConnectionInv
  BY DEF IngestInit
<1>. USE DEF VaultInit
<1>1. TypeInv
  BY DEF TypeInv, Types, Unused, Steps, Local, NoJob, OnDisk, Picture,
         NoPicture
<1>2. StateInv
  BY DEF StateInv
<1>3. TokenInv
  <2>1. vault \in [Connector -> Nat] /\ live = vault
    OBVIOUS
  <2>2. \A c \in Connector : vault[c] <= live[c]
    BY <2>1
  <2>. QED  BY <2>2 DEF TokenInv, Answered
<1>4. MemoryFollows
  BY DEF MemoryFollows
<1>5. DiskInv
  <2>. SUFFICES ASSUME NEW p \in OnDisk
                PROVE  /\ Follows(p)
                       /\ \A c \in Connector : p.vault[c] <= live[c]
    BY DEF DiskInv
  <2>1. CASE p = file
    BY <2>1 DEF Follows
  <2>2. CASE p = NoPicture
    BY <2>2 DEF Follows, NoPicture
  <2>. QED  BY <2>1, <2>2 DEF OnDisk
<1>. QED  BY <1>1, <1>2, <1>3, <1>4, <1>5 DEF ConnectionInv, TokenParts

(* Values that the handlers' local variables may get.                      *)
Keeps(j) ==
    /\ j \in [Thread -> Local]
    /\ \A u \in Thread : j[u].conn \in {job[u].conn, None}

(* What handlers write into their local variables.                         *)
LEMMA Writes ==
    ASSUME job \in [Thread -> Local], NEW t \in Thread
    PROVE  /\ Keeps(job)
           /\ Keeps([job EXCEPT ![t] = NoJob])
           /\ \A k \in Nat : Keeps([job EXCEPT ![t].token = k])
           /\ \A n \in {"idle", "token", "item"} :
                 Keeps([job EXCEPT ![t].next = n])
           /\ \A s \in State, p \in Provider :
                 Keeps([job EXCEPT ![t].state = s, ![t].prov = p])
           /\ \A c \in Connector :
                 [job EXCEPT ![t].conn = c] \in [Thread -> Local]
<1>1. job[t] \in Local
  OBVIOUS
<1>2. Keeps(job)
  BY DEF Keeps
<1>3. Keeps([job EXCEPT ![t] = NoJob])
  BY DEF NoJob, Local, Keeps
<1>4. ASSUME NEW k \in Nat
      PROVE  Keeps([job EXCEPT ![t].token = k])
  <2>1. /\ [job[t] EXCEPT !.token = k] \in Local
        /\ [job[t] EXCEPT !.token = k].conn = job[t].conn
    BY <1>1 DEF Local
  <2>. QED  BY <2>1 DEF Keeps
<1>5. ASSUME NEW n \in {"idle", "token", "item"}
      PROVE  Keeps([job EXCEPT ![t].next = n])
  <2>1. /\ [job[t] EXCEPT !.next = n] \in Local
        /\ [job[t] EXCEPT !.next = n].conn = job[t].conn
    BY <1>1 DEF Local
  <2>. QED  BY <2>1 DEF Keeps
<1>6. ASSUME NEW s \in State, NEW p \in Provider
      PROVE  Keeps([job EXCEPT ![t].state = s, ![t].prov = p])
  <2>. DEFINE new == [[job[t] EXCEPT !.state = s] EXCEPT !.prov = p]
  <2>1. new \in Local /\ new.conn = job[t].conn
    BY <1>1 DEF Local
  <2>2. [job EXCEPT ![t].state = s, ![t].prov = p]
           = [job EXCEPT ![t] = new]
    OBVIOUS
  <2>. HIDE DEF new
  <2>. QED  BY <2>1, <2>2 DEF Keeps
<1>7. ASSUME NEW c \in Connector
      PROVE  [job EXCEPT ![t].conn = c] \in [Thread -> Local]
  <2>1. [job[t] EXCEPT !.conn = c] \in Local
    BY <1>1 DEF Local
  <2>. QED  BY <2>1
<1>. QED  BY <1>2, <1>3, <1>4, <1>5, <1>6, <1>7

(* What the steps do to the pictures.                                      *)
LEMMA Outdates ==
    ASSUME NEW p \in Picture
    PROVE  /\ Outdated(p) \in Picture /\ ~Outdated(p).newest
           /\ p \in OnDisk => Stems(p) /\ Stems(Outdated(p))
BY DEF Outdated, Picture, Stems

LEMMA NoPictureFits ==
    NoPicture \in Picture /\ Stems(NoPicture) /\ ~NoPicture.newest
BY DEF NoPicture, Picture, Stems

LEMMA Captured ==
    ASSUME Types, NEW t \in Thread, Capture(t)
    PROVE  /\ file' \in Picture /\ picture' \in [Thread -> Picture]
           /\ \A p \in OnDisk' : Stems(p)
           /\ \A p \in OnDisk' :
                 p.newest => p.connected = connected /\ p.vault = vault
<1>. DEFINE now == [connected |-> connected, vault |-> vault, newest |-> TRUE]
<1>1. now \in Picture /\ Stems(now)
  BY DEF Types, Picture, Stems
<1>2. /\ file' = Outdated(file)
      /\ picture' = [u \in Thread |-> IF u = t THEN now
                                      ELSE Outdated(picture[u])]
  BY DEF Capture
<1>3. now.connected = connected /\ now.vault = vault
  OBVIOUS
<1>. HIDE DEF now
<1>4. \A p \in OnDisk' : p = now \/ (\E q \in OnDisk : p = Outdated(q))
  BY <1>2 DEF OnDisk
<1>5. file' \in Picture /\ picture' \in [Thread -> Picture]
  BY <1>1, <1>2, Outdates DEF Types
<1>6. OnDisk \subseteq Picture
  BY DEF OnDisk, Types
<1>. QED  BY <1>1, <1>3, <1>4, <1>5, <1>6, Outdates

LEMMA Replaced ==
    ASSUME Types, NEW t \in Thread,
           \/ file' = picture[t] \/ file' = file,
           picture' = [picture EXCEPT ![t] = NoPicture]
    PROVE  /\ file' \in Picture /\ picture' \in [Thread -> Picture]
           /\ \A p \in OnDisk' : Stems(p)
           /\ \A p \in OnDisk' : p \in OnDisk \/ ~p.newest
<1>1. \A p \in OnDisk' : p \in OnDisk \/ p = NoPicture
  BY DEF OnDisk
<1>2. file' \in Picture /\ picture' \in [Thread -> Picture]
  BY NoPictureFits DEF Types
<1>3. OnDisk \subseteq Picture
  BY DEF OnDisk, Types
<1>. QED  BY <1>1, <1>2, <1>3, NoPictureFits, Outdates

LEMMA AllOutdated ==
    ASSUME Types, picture' = [u \in Thread |-> Outdated(picture[u])],
           file' = Outdated(file)
    PROVE  /\ file' \in Picture /\ picture' \in [Thread -> Picture]
           /\ \A p \in OnDisk' : Stems(p)
           /\ \A p \in OnDisk' : ~p.newest
<1>1. \A p \in OnDisk' : \E q \in OnDisk : p = Outdated(q)
  BY DEF OnDisk
<1>2. file' \in Picture /\ picture' \in [Thread -> Picture]
  BY Outdates DEF Types
<1>3. OnDisk \subseteq Picture
  BY DEF OnDisk, Types
<1>. QED  BY <1>1, <1>2, <1>3, Outdates

LEMMA Reloaded ==
    ASSUME Types, file' = [file EXCEPT !.newest = TRUE],
           picture' = [u \in Thread |-> NoPicture]
    PROVE  /\ file' \in Picture /\ picture' \in [Thread -> Picture]
           /\ \A p \in OnDisk' : Stems(p)
           /\ file'.connected = file.connected /\ file'.vault = file.vault
           /\ \A p \in OnDisk' : p = file' \/ p = NoPicture
<1>1. /\ file' \in Picture
      /\ file'.connected = file.connected /\ file'.vault = file.vault
  BY DEF Types, Picture
<1>2. \A p \in OnDisk' : p = file' \/ p = NoPicture
  BY DEF OnDisk
<1>3. Stems(file')
  BY <1>1 DEF OnDisk, Stems
<1>. QED  BY <1>1, <1>2, <1>3, NoPictureFits

LEMMA OnDiskTypes ==
    ASSUME Types
    PROVE  OnDisk \subseteq Picture
BY DEF OnDisk, Types

LEMMA DiskKept ==
    ASSUME UNCHANGED disk
    PROVE  OnDisk' = OnDisk /\ \A p \in OnDisk' : Stems(p)
BY DEF OnDisk, Stems

(* No step but Exchange and Connect gives an identifier a use.             *)
LEMMA StaysUnused ==
    ASSUME TypeInv, Keeps(job'), UNCHANGED <<provider, origin, live>>,
           connected' \subseteq connected \cup file.connected,
           vault' \in {vault, file.vault},
           \A p \in OnDisk' : Stems(p)
    PROVE  \A d \in Connector : provider[d]' = None => Unused(d)'
<1>. SUFFICES ASSUME NEW d \in Connector, provider[d] = None
              PROVE  Unused(d)'
  OBVIOUS
<1>1. Unused(d)
  BY DEF TypeInv
<1>2. \A u \in Thread : job'[u].conn # d
  BY <1>1 DEF Keeps, Unused
<1>3. vault'[d] = 0 /\ d \notin connected'
  BY <1>1 DEF Unused, OnDisk
<1>4. \A p \in OnDisk' : p.vault[d] = 0 /\ d \notin p.connected
  BY <1>1 DEF Unused, Stems
<1>. QED  BY <1>1, <1>2, <1>3, <1>4 DEF Unused

(* Types are kept, and identifiers stay unused until a connector takes     *)
(* them.                                                                   *)
LEMMA TypeNext ==
    ASSUME TypeInv, StateInv, [Next]_allVars
    PROVE  TypeInv'
<1>. Types
  BY DEF TypeInv
<1>. job \in [Thread -> Local]
  BY DEF Types
<1>1. ASSUME NEW t \in Thread, NEW p \in Provider, NEW s \in State,
             Start(t, p, s)
      PROVE  TypeInv'
  <2>. USE DEF Start, Arrives, Goto, accounts, grants
  <2>1. Keeps(job')
    BY <1>1, Writes
  <2>2. Types'
    BY <1>1, <2>1 DEF Types, Steps, Keeps
  <2>3. \A u \in Thread : pc[u]' \in {"vault", "refresh", "refreshed"}
                             => job[u].conn' \in Connector
    BY <1>1, <2>1 DEF TypeInv, Types, Keeps
  <2>4. \A d \in Connector : provider[d]' = None => Unused(d)'
    BY <1>1, <2>1 DEF TypeInv, Types, Unused, OnDisk, Keeps
  <2>. QED  BY <2>2, <2>3, <2>4 DEF TypeInv
<1>2. ASSUME NEW t \in Thread, NEW p \in Provider, NEW s \in State,
             Callback(t, p, s)
      PROVE  TypeInv'
  <2>. USE DEF Callback, TakeState, Arrives, Goto, accounts, grants
  <2>1. Keeps(job') /\ pc' \in [Thread -> Steps]
    <3>1. CASE Accepts(p, s)
      <4>1. /\ pc' = [pc EXCEPT ![t] = "exchange"]
            /\ job' = [job EXCEPT ![t].state = s, ![t].prov = p]
        BY <1>2, <3>1
      <4>. QED  BY <4>1, Writes DEF Types, Steps
    <3>2. CASE ~Accepts(p, s)
      BY <1>2, <3>2, Writes DEF Types
    <3>. QED  BY <3>1, <3>2
  <2>2. Types'
    BY <1>2, <2>1 DEF Types, Keeps
  <2>3. \A u \in Thread : pc[u]' \in {"vault", "refresh", "refreshed"}
                             => job[u].conn' \in Connector
    BY <1>2, <2>1 DEF TypeInv, Types, Keeps
  <2>4. \A d \in Connector : provider[d]' = None => Unused(d)'
    BY <1>2, <2>1, DiskKept, StaysUnused
  <2>. QED  BY <2>2, <2>3, <2>4 DEF TypeInv
<1>3. ASSUME NEW t \in Thread, NEW c \in Connector, NEW p \in Provider,
             Connect(t, c, p)
      PROVE  TypeInv'
  <2>. USE DEF Connect, Arrives, SaveThen, Goto, flows, grants
  <2>1. Keeps(job')
    BY <1>3, Writes
  <2>2. Types'
    BY <1>3, <2>1 DEF Types, Steps, Keeps
  <2>3. \A u \in Thread : pc[u]' \in {"vault", "refresh", "refreshed"}
                             => job[u].conn' \in Connector
    BY <1>3, <2>1 DEF TypeInv, Types, Keeps
  <2>4. \A d \in Connector : provider[d]' = None => Unused(d)'
    BY <1>3, <2>1 DEF TypeInv, Types, Unused, OnDisk, Keeps
  <2>. QED  BY <2>2, <2>3, <2>4 DEF TypeInv
<1>4. ASSUME NEW t \in Thread, NEW c \in Connector, Takes(t, c)
      PROVE  TypeInv'
  <2>. USE DEF Takes, Goto, accounts, grants
  <2>1. job' \in [Thread -> Local]
    BY <1>4, Writes
  <2>2. \A u \in Thread : job'[u].conn = IF u = t THEN c ELSE job[u].conn
    BY <1>4 DEF Local
  <2>3. Types'
    BY <1>4, <2>1 DEF Types, Steps
  <2>4. \A u \in Thread : pc[u]' \in {"vault", "refresh", "refreshed"}
                             => job[u].conn' \in Connector
    BY <1>4, <2>2 DEF TypeInv, Types
  <2>5. \A d \in Connector : provider[d]' = None => Unused(d)'
    BY <1>4, <2>2 DEF TypeInv, Types, Unused, OnDisk
  <2>. QED  BY <2>3, <2>4, <2>5 DEF TypeInv
<1>5. ASSUME NEW t \in Thread, NEW c \in Connector, Exchange(t, c)
      PROVE  TypeInv'
  <2>. USE DEF Exchange, SaveThen, Goto, flows
  <2>1. Keeps(job')
    BY <1>5, Writes
  <2>2. Types'
    BY <1>5, <2>1 DEF Types, Steps, Keeps, StateInv
  <2>3. \A u \in Thread : pc[u]' \in {"vault", "refresh", "refreshed"}
                             => job[u].conn' \in Connector
    BY <1>5, <2>1 DEF TypeInv, Types, Keeps
  <2>4. ASSUME NEW d \in Connector, provider[d]' = None
        PROVE  Unused(d)'
    <3>1. d # c /\ provider[d] = None
      BY <1>5, <2>4 DEF Types, StateInv
    <3>2. Unused(d)
      BY <3>1 DEF TypeInv
    <3>3. d # None
      OBVIOUS
    <3>. QED  BY <1>5, <2>1, <3>1, <3>2, <3>3 DEF Types, Unused, OnDisk, Keeps
  <2>. QED  BY <2>2, <2>3, <2>4 DEF TypeInv
<1>6. ASSUME NEW t \in Thread, TokenStale(t)
      PROVE  TypeInv'
  <2>. USE DEF TokenStale, Goto, flows, accounts, grants
  <2>1. Keeps(job')
    BY <1>6, Writes DEF Types, TypeInv
  <2>2. Types'
    BY <1>6, <2>1 DEF Types, Steps, Keeps
  <2>3. \A u \in Thread : pc[u]' \in {"vault", "refresh", "refreshed"}
                             => job[u].conn' \in Connector
    BY <1>6, <2>1 DEF TypeInv, Types, Keeps
  <2>4. \A d \in Connector : provider[d]' = None => Unused(d)'
    BY <1>6, <2>1 DEF TypeInv, Types, Unused, OnDisk, Keeps
  <2>. QED  BY <2>2, <2>3, <2>4 DEF TypeInv
<1>7. ASSUME NEW t \in Thread, Refreshed(t)
      PROVE  TypeInv'
  <2>. USE DEF Refreshed, Goto, flows, accounts
  <2>. DEFINE c == job[t].conn
  <2>1. c \in Connector /\ Served(c) \in Nat
    BY <1>7 DEF TypeInv, Types, Served
  <2>2. live' = [live EXCEPT ![c] = Served(c)] /\ provider' = provider
    BY <1>7
  <2>3. live' \in [Connector -> Nat]
    BY <2>1, <2>2 DEF Types
  <2>4. Keeps(job')
    BY <1>7, <2>1, Writes
  <2>5. Types'
    BY <1>7, <2>3, <2>4 DEF Types, Steps, Keeps
  <2>6. \A u \in Thread : pc[u]' \in {"vault", "refresh", "refreshed"}
                             => job[u].conn' \in Connector
    BY <1>7, <2>4 DEF TypeInv, Types, Keeps
  <2>7. \A d \in Connector : provider[d]' = None => Unused(d)'
    BY <1>7, <2>4 DEF TypeInv, Types, Unused, OnDisk, Keeps
  <2>. QED  BY <2>5, <2>6, <2>7 DEF TypeInv
<1>8. ASSUME NEW t \in Thread, RefreshLost(t)
      PROVE  TypeInv'
  <2>. USE DEF RefreshLost, End, Goto, flows, accounts
  <2>. DEFINE c == job[t].conn
  <2>1. c \in Connector /\ Served(c) \in Nat
    BY <1>8 DEF TypeInv, Types, Served
  <2>2. live' = [live EXCEPT ![c] = Served(c)] /\ provider' = provider
    BY <1>8
  <2>3. live' \in [Connector -> Nat]
    BY <2>1, <2>2 DEF Types
  <2>4. Keeps(job')
    BY <1>8, Writes
  <2>5. Types'
    BY <1>8, <2>3, <2>4 DEF Types, Steps, Keeps
  <2>6. \A u \in Thread : pc[u]' \in {"vault", "refresh", "refreshed"}
                             => job[u].conn' \in Connector
    BY <1>8, <2>4 DEF TypeInv, Types, Keeps
  <2>7. \A d \in Connector : provider[d]' = None => Unused(d)'
    BY <1>8, <2>4 DEF TypeInv, Types, Unused, OnDisk, Keeps
  <2>. QED  BY <2>5, <2>6, <2>7 DEF TypeInv
<1>9. ASSUME NEW t \in Thread, StoreToken(t)
      PROVE  TypeInv'
  <2>. USE DEF StoreToken, NewEntry, SaveThen, Goto, flows, accounts, grants
  <2>1. job[t] \in Local /\ job[t].conn \in Connector
    BY <1>9 DEF TypeInv, Types
  <2>2. vault' \in [Connector -> Nat]
    BY <1>9, <2>1 DEF Types, Local
  <2>3. Keeps(job')
    BY <1>9, Writes
  <2>4. Types'
    BY <1>9, <2>2, <2>3 DEF Types, Steps, Keeps
  <2>5. \A u \in Thread : pc[u]' \in {"vault", "refresh", "refreshed"}
                             => job[u].conn' \in Connector
    BY <1>9, <2>3 DEF TypeInv, Types, Keeps
  <2>6. \A d \in Connector : provider[d]' = None => Unused(d)'
    BY <1>9, <2>3 DEF TypeInv, Types, Unused, OnDisk, Keeps
  <2>. QED  BY <2>4, <2>5, <2>6 DEF TypeInv
<1>10. ASSUME NEW t \in Thread, Capture(t) \/ Replace(t)
      PROVE  TypeInv'
  <2>. USE DEF Capture, Replace, End, Goto, flows, accounts, grants
  <2>1. /\ Keeps(job')
        /\ \E step \in {"idle", "token", "item", "write"} :
              pc' = [pc EXCEPT ![t] = step]
    <3>1. job[t].next \in {"idle", "token", "item"}
      BY DEF Local
    <3>2. CASE job' = [job EXCEPT ![t] = NoJob] /\ pc' = [pc EXCEPT ![t] = "idle"]
      BY <3>2, Writes
    <3>3. CASE /\ job' = job
               /\ \/ pc' = [pc EXCEPT ![t] = job[t].next]
                  \/ pc' = [pc EXCEPT ![t] = "write"]
      BY <3>1, <3>3, Writes
    <3>. QED  BY <1>10, <3>2, <3>3
  <2>2. PICK step \in {"idle", "token", "item", "write"} :
               pc' = [pc EXCEPT ![t] = step]
    BY <2>1
  <2>3. /\ file' \in Picture /\ picture' \in [Thread -> Picture]
        /\ \A p \in OnDisk' : Stems(p)
    BY <1>10, Captured, Replaced
  <2>4. Types'
    BY <1>10, <2>1, <2>2, <2>3 DEF Types, Steps, Keeps
  <2>5. \A u \in Thread : pc[u]' \in {"vault", "refresh", "refreshed"}
                             => job[u].conn' \in Connector
    <3>1. \A u \in Thread \ {t} : job'[u] = job[u]
      BY <1>10
    <3>. QED  BY <2>2, <3>1 DEF TypeInv, Types
  <2>6. \A d \in Connector : provider[d]' = None => Unused(d)'
    BY <1>10, <2>1, <2>3, StaysUnused
  <2>. QED  BY <2>4, <2>5, <2>6 DEF TypeInv
<1>11. ASSUME NEW t \in Thread, SaveFails(t)
      PROVE  TypeInv'
  <2>. USE DEF SaveFails, End, Goto, flows, accounts, grants
  <2>1. Keeps(job')
    BY <1>11, Writes
  <2>2. /\ file' \in Picture /\ picture' \in [Thread -> Picture]
        /\ \A p \in OnDisk' : Stems(p)
    BY <1>11, AllOutdated, Replaced
  <2>3. Types'
    BY <1>11, <2>1, <2>2 DEF Types, Steps, Keeps
  <2>4. \A u \in Thread : pc[u]' \in {"vault", "refresh", "refreshed"}
                             => job[u].conn' \in Connector
    BY <1>11, <2>1 DEF TypeInv, Types, Keeps
  <2>5. \A d \in Connector : provider[d]' = None => Unused(d)'
    BY <1>11, <2>1, <2>2, StaysUnused
  <2>. QED  BY <2>3, <2>4, <2>5 DEF TypeInv
<1>12. ASSUME NEW t \in Thread, Quiet(t)
      PROVE  TypeInv'
  <2>. USE DEF Quiet, Calm
  <2>1. Keeps(job')
    <3>1. CASE UNCHANGED job
      BY <3>1, Writes
    <3>2. CASE job' = [job EXCEPT ![t] = NoJob]
      BY <3>2, Writes
    <3>3. CASE \E step \in {"idle", "item"} :
                  job' = [job EXCEPT ![t].next = step]
      <4>1. PICK step \in {"idle", "item"} :
                  job' = [job EXCEPT ![t].next = step]
        BY <3>3
      <4>. QED  BY <4>1, Writes
    <3>. QED  BY <1>12, <3>1, <3>2, <3>3
  <2>2. PICK step \in Calm : pc' = [pc EXCEPT ![t] = step]
    BY <1>12
  <2>3. Types'
    BY <1>12, <2>1, <2>2 DEF Types, Steps, Keeps
  <2>4. \A u \in Thread : pc[u]' \in {"vault", "refresh", "refreshed"}
                             => job[u].conn' \in Connector
    BY <1>12, <2>1 DEF TypeInv, Types, Keeps
  <2>5. \A d \in Connector : provider[d]' = None => Unused(d)'
    BY <1>12, <2>1, DiskKept, StaysUnused
  <2>. QED  BY <2>3, <2>4, <2>5 DEF TypeInv
<1>13. CASE Restart
  <2>. USE DEF Restart
  <2>1. Keeps(job')
    BY <1>13 DEF Keeps, Local, NoJob
  <2>2. /\ file' \in Picture /\ picture' \in [Thread -> Picture]
        /\ \A p \in OnDisk' : Stems(p)
    BY <1>13, Reloaded
  <2>6. file.vault \in [Connector -> Nat] /\ file.connected \subseteq Connector
    BY DEF Types, Picture
  <2>3. Types'
    BY <1>13, <2>1, <2>2, <2>6 DEF Types, Steps, Keeps
  <2>4. \A u \in Thread : pc[u]' \in {"vault", "refresh", "refreshed"}
                             => job[u].conn' \in Connector
    BY <1>13, <2>1 DEF TypeInv, Types, Keeps
  <2>5. \A d \in Connector : provider[d]' = None => Unused(d)'
    BY <1>13, <2>1, <2>2, StaysUnused
  <2>. QED  BY <2>3, <2>4, <2>5 DEF TypeInv
<1>14. CASE Still
  <2>. USE DEF Still, accounts, grants
  <2>1. Keeps(job')
    BY <1>14, Writes
  <2>2. Types'
    BY <1>14, <2>1 DEF Types, Steps, Keeps
  <2>3. \A u \in Thread : pc[u]' \in {"vault", "refresh", "refreshed"}
                             => job[u].conn' \in Connector
    BY <1>14, <2>1 DEF TypeInv, Types, Keeps
  <2>4. \A d \in Connector : provider[d]' = None => Unused(d)'
    BY <1>14, <2>1 DEF TypeInv, Types, Unused, OnDisk, Keeps
  <2>. QED  BY <2>2, <2>3, <2>4 DEF TypeInv
<1>. QED
  BY Moves, <1>1, <1>2, <1>3, <1>4, <1>5, <1>6, <1>7, <1>8, <1>9, <1>10,
      <1>11, <1>12, <1>13, <1>14 DEF Move

(* Steps that draw no state, take none and make no connector of one.       *)
LEMMA StateKept ==
    ASSUME StateInv, flow' \subseteq flow,
           UNCHANGED <<asked, provider, origin>>,
           \A u \in Thread : pc'[u] = "exchange"
                                => pc[u] = "exchange" /\ job'[u] = job[u]
    PROVE  StateInv'
BY DEF StateInv

(* A state is drawn, taken out by one callback, and becomes the origin of  *)
(* one connector.                                                          *)
LEMMA StateNext ==
    ASSUME TypeInv, StateInv, [Next]_allVars
    PROVE  StateInv'
<1>. Types
  BY DEF TypeInv
<1>. job \in [Thread -> Local] /\ pc \in [Thread -> Steps]
  BY DEF Types
<1>1. ASSUME NEW t \in Thread, NEW p \in Provider, NEW s \in State,
             Start(t, p, s)
      PROVE  StateInv'
  <2>1. /\ asked[s] = None /\ asked' = [asked EXCEPT ![s] = p]
        /\ flow' = flow \cup {s} /\ job' = job
        /\ provider' = provider /\ origin' = origin
    BY <1>1 DEF Start, accounts
  <2>2. \A u \in Thread : pc'[u] = "exchange" => pc[u] = "exchange"
    BY <1>1 DEF Start, Goto
  <2>3. ASSUME NEW c \in Connector, origin[c] = s
        PROVE  FALSE
    <3>1. provider[c] = None
      BY <2>1, <2>3 DEF StateInv
    <3>2. Unused(c)
      BY <3>1 DEF TypeInv
    <3>. QED  BY <2>3, <3>2 DEF Unused
  <2>4. \A u \in Thread : pc[u] = "exchange" => job[u].state # s
    BY <2>1 DEF StateInv
  <2>5. p # None /\ s # None /\ asked \in [State -> Provider \cup {None}]
    BY DEF Types
  <2>. QED  BY <2>1, <2>2, <2>3, <2>4, <2>5 DEF StateInv, Types
<1>2. ASSUME NEW t \in Thread, NEW p \in Provider, NEW s \in State,
             Callback(t, p, s)
      PROVE  StateInv'
  <2>1. CASE ~Accepts(p, s)
    BY <1>2, <2>1, StateKept DEF Callback, TakeState, accounts
  <2>2. CASE Accepts(p, s)
    <3>1. /\ s \in flow /\ flow' = flow \ {s} /\ asked[s] = p
          /\ pc' = [pc EXCEPT ![t] = "exchange"]
          /\ job' = [job EXCEPT ![t].state = s, ![t].prov = p]
          /\ asked' = asked /\ provider' = provider /\ origin' = origin
      BY <1>2, <2>2 DEF Callback, TakeState, Accepts, Goto, accounts
    <3>2. /\ job'[t].state = s /\ job'[t].prov = p
          /\ \A u \in Thread \ {t} : job'[u] = job[u] /\ pc'[u] = pc[u]
      BY <3>1 DEF Local
    <3>3. \A c \in Connector : origin[c] # s
      BY <3>1 DEF StateInv
    <3>4. \A u \in Thread : pc[u] = "exchange" => job[u].state # s
      BY <3>1 DEF StateInv
    <3>5. \A u \in Thread : pc'[u] = "exchange" =>
             /\ job'[u].state \in State
             /\ job'[u].prov \in Provider
             /\ asked[job'[u].state] = job'[u].prov
             /\ \A c \in Connector : origin[c] # job'[u].state
             /\ \A w \in Thread :
                   pc'[w] = "exchange" /\ job'[w].state = job'[u].state
                      => w = u
      <4>. TAKE u \in Thread
      <4>1. CASE u = t
        BY <3>1, <3>2, <3>3, <3>4, <4>1
      <4>2. CASE u # t
        BY <3>1, <3>2, <3>4, <4>2 DEF StateInv
      <4>. QED  BY <4>1, <4>2
    <3>6. \A q \in flow' : \A u \in Thread :
             pc'[u] = "exchange" => job'[u].state # q
      BY <3>1, <3>2 DEF StateInv
    <3>. QED  BY <3>1, <3>5, <3>6 DEF StateInv
  <2>. QED  BY <2>1, <2>2
<1>3. ASSUME NEW t \in Thread, NEW c \in Connector, NEW p \in Provider,
             Connect(t, c, p)
      PROVE  StateInv'
  <2>1. /\ flow' = flow /\ asked' = asked /\ origin' = origin
        /\ provider' = [provider EXCEPT ![c] = p]
        /\ provider[c] = None
    BY <1>3 DEF Connect, flows
  <2>2. \A u \in Thread : pc'[u] = "exchange"
                             => pc[u] = "exchange" /\ job'[u] = job[u]
    BY <1>3 DEF Connect, SaveThen, Goto
  <2>3. origin[c] = None
    BY <2>1 DEF TypeInv, Unused
  <2>. QED  BY <2>1, <2>2, <2>3 DEF StateInv, Types
<1>4. ASSUME NEW t \in Thread, NEW c \in Connector, Takes(t, c)
      PROVE  StateInv'
  BY <1>4, StateKept DEF Takes, Goto, accounts
<1>5. ASSUME NEW t \in Thread, NEW c \in Connector, Exchange(t, c)
      PROVE  StateInv'
  <2>1. /\ pc[t] = "exchange" /\ flow' = flow /\ asked' = asked
        /\ provider' = [provider EXCEPT ![c] = job[t].prov]
        /\ origin' = [origin EXCEPT ![c] = job[t].state]
        /\ provider[c] = None
    BY <1>5 DEF Exchange, flows
  <2>2. /\ \A u \in Thread \ {t} : pc'[u] = pc[u] /\ job'[u] = job[u]
        /\ pc'[t] # "exchange"
    BY <1>5 DEF Exchange, SaveThen, Goto
  <2>3. origin[c] = None
    BY <2>1 DEF TypeInv, Unused
  <2>4. /\ job[t].state \in State /\ job[t].state # None
        /\ asked[job[t].state] = job[t].prov
        /\ \A d \in Connector : origin[d] # job[t].state
        /\ \A u \in Thread \ {t} :
              pc[u] = "exchange" => job[u].state # job[t].state
        /\ job[t].state \notin flow
    BY <2>1 DEF StateInv
  <2>5. /\ provider'[c] = job[t].prov /\ origin'[c] = job[t].state
        /\ \A d \in Connector \ {c} :
              provider'[d] = provider[d] /\ origin'[d] = origin[d]
    BY <2>1 DEF Types
  <2>6. \A d \in Connector : origin'[d] # None =>
           provider'[d] = asked'[origin'[d]]
    BY <2>1, <2>4, <2>5 DEF StateInv
  <2>7. \A d, e \in Connector : origin'[d] = origin'[e] /\ origin'[d] # None
                                   => d = e
    BY <2>4, <2>5 DEF StateInv
  <2>8. \A s \in flow' :
           /\ asked'[s] # None
           /\ \A d \in Connector : origin'[d] # s
           /\ \A u \in Thread : pc'[u] = "exchange" => job'[u].state # s
    BY <2>1, <2>2, <2>4, <2>5 DEF StateInv
  <2>9. \A u \in Thread : pc'[u] = "exchange" =>
           /\ job'[u].state \in State
           /\ job'[u].prov \in Provider
           /\ asked'[job'[u].state] = job'[u].prov
           /\ \A d \in Connector : origin'[d] # job'[u].state
           /\ \A w \in Thread :
                 pc'[w] = "exchange" /\ job'[w].state = job'[u].state => w = u
    BY <2>1, <2>2, <2>4, <2>5 DEF StateInv
  <2>. QED  BY <2>6, <2>7, <2>8, <2>9 DEF StateInv
<1>6. ASSUME NEW t \in Thread,
             TokenStale(t) \/ Refreshed(t) \/ RefreshLost(t) \/ StoreToken(t)
      PROVE  StateInv'
  BY <1>6, StateKept DEF TokenStale, Refreshed, RefreshLost, StoreToken, End,
                         SaveThen, Goto, flows, accounts
<1>7. ASSUME NEW t \in Thread, Capture(t) \/ Replace(t) \/ SaveFails(t)
      PROVE  StateInv'
  <2>1. /\ pc'[t] # "exchange"
        /\ \A u \in Thread \ {t} : pc'[u] = pc[u] /\ job'[u] = job[u]
    BY <1>7 DEF Capture, Replace, SaveFails, End, Goto, Local
  <2>. QED  BY <1>7, <2>1, StateKept DEF Capture, Replace, SaveFails, flows,
                                         accounts
<1>8. ASSUME NEW t \in Thread, Quiet(t)
      PROVE  StateInv'
  <2>1. PICK step \in Calm : pc' = [pc EXCEPT ![t] = step]
    BY <1>8 DEF Quiet
  <2>2. \A u \in Thread \ {t} : job'[u] = job[u]
    BY <1>8 DEF Quiet
  <2>. QED  BY <1>8, <2>1, <2>2, StateKept DEF Quiet, Calm
<1>9. CASE Restart
  BY <1>9, StateKept DEF Restart
<1>10. CASE Still
  BY <1>10, StateKept DEF Still, accounts
<1>. QED
  BY Moves, <1>1, <1>2, <1>3, <1>4, <1>5, <1>6, <1>7, <1>8, <1>9, <1>10
     DEF Move

-----------------------------------------------------------------------------
(* A newest answer stays one if the step does not reach its connector.     *)
LEMMA NewestKept ==
    ASSUME NEW t \in Thread, NEW c \in Connector, Newest(t, c),
           live'[c] = live[c], vault'[c] = vault[c],
           provider'[c] = provider[c],
           job'[t].token = job[t].token,
           \A u \in Thread : Answered(u, c)' => Answered(u, c),
           \A u \in Thread : pc'[u] = "refresh" /\ job'[u].conn = c =>
               \/ /\ pc[u] = "refresh" /\ job[u].conn = c
                  /\ job'[u].token = job[u].token
               \/ job'[u].token = vault[c]
    PROVE  Newest(t, c)'
<1>1. provider'[c] \in Rotating =>
         /\ vault'[c] < live'[c]
         /\ \A u \in Thread : Answered(u, c)' => u = t
  BY DEF Newest
<1>2. ASSUME NEW u \in Thread, provider'[c] \in Rotating,
             pc'[u] = "refresh", job'[u].conn = c
      PROVE  job'[u].token < live'[c]
  BY <1>2 DEF Newest
<1>. QED  BY <1>1, <1>2 DEF Newest

(* What a step does to the pictures, in general.                           *)
LEMMA BoundKept ==
    ASSUME TokenParts, \A p \in OnDisk' : Stems(p), OnDisk \subseteq Picture,
           \A c \in Connector : /\ vault[c] \in Nat /\ live[c] \in Nat
                                /\ live'[c] \in Nat /\ live[c] <= live'[c]
    PROVE  \A p \in OnDisk', c \in Connector : p.vault[c] <= live'[c]
<1>. SUFFICES ASSUME NEW p \in OnDisk', NEW c \in Connector
              PROVE  p.vault[c] <= live'[c]
  OBVIOUS
<1>1. CASE \E q \in OnDisk : p.vault = q.vault
  <2>1. PICK q \in OnDisk : p.vault = q.vault
    BY <1>1
  <2>2. q.vault[c] <= live[c] /\ q.vault[c] \in Nat
    BY DEF TokenParts, DiskInv, Picture
  <2>. QED  BY <2>1, <2>2
<1>2. CASE p.vault = vault
  BY <1>2 DEF TokenParts, TokenInv
<1>3. CASE p.vault = [d \in Connector |-> 0]
  BY <1>3
<1>. QED  BY <1>1, <1>2, <1>3 DEF Stems

LEMMA FollowsKept ==
    ASSUME NEW p, Follows(p), broken \subseteq broken',
           \A c \in p.connected :
              \/ live'[c] = live[c]
              \/ c \in broken'
              \/ \E u \in Thread : job'[u].conn = c /\ pc'[u] = "refreshed",
           \A u \in Thread : pc[u] \in {"refreshed", "save"} =>
               pc'[u] \in {"refreshed", "save"} /\ job'[u].conn = job[u].conn
    PROVE  Follows(p)'
BY DEF Follows

(* Steps that leave the tokens alone, and the handlers that have one.      *)
LEMMA TokensKept ==
    ASSUME TokenParts, connected' \subseteq connected,
           UNCHANGED <<provider, vault, disk, live, broken>>,
           \A u \in Thread : pc'[u] \in {"refresh", "refreshed"} =>
               /\ pc[u] = pc'[u]
               /\ job'[u].conn = job[u].conn /\ job'[u].token = job[u].token,
           \A u \in Thread : pc[u] \in {"refreshed", "save"} =>
               pc'[u] = pc[u] /\ job'[u].conn = job[u].conn
    PROVE  TokenParts'
<1>1. TokenInv'
  <2>1. \A u \in Thread, c \in Connector : Answered(u, c)' => Answered(u, c)
    BY DEF Answered
  <2>2. \A u \in Thread, c \in Connector : Answered(u, c)' /\ Newest(u, c)
                                             => Newest(u, c)'
    BY <2>1, NewestKept DEF Answered
  <2>3. \A u \in Thread : pc'[u] \in {"refresh", "refreshed"} =>
           job'[u].token <= live'[job'[u].conn]
    BY DEF TokenParts, TokenInv
  <2>. QED  BY <2>1, <2>2, <2>3 DEF TokenParts, TokenInv
<1>2. MemoryFollows'
  BY DEF TokenParts, MemoryFollows
<1>3. DiskInv'
  BY DiskKept, FollowsKept DEF TokenParts, DiskInv
<1>. QED  BY <1>1, <1>2, <1>3 DEF TokenParts

(* Each step that grants, presents, stores or saves a platform token.      *)
LEMMA TokenNext ==
    ASSUME TypeInv, StateInv, TokenParts, [Next]_allVars
    PROVE  TokenParts'
<1>. Types
  BY DEF TypeInv
<1>. job \in [Thread -> Local] /\ pc \in [Thread -> Steps]
  BY DEF Types
<1>. connected \subseteq Connector
  BY DEF Types
<1>1. ASSUME NEW t \in Thread, NEW p \in Provider, NEW s \in State,
             Start(t, p, s)
      PROVE  TokenParts'
  BY <1>1, TokensKept DEF Start, Arrives, Idle, Goto, accounts, grants
<1>2. ASSUME NEW t \in Thread, NEW p \in Provider, NEW s \in State,
             Callback(t, p, s)
      PROVE  TokenParts'
  <2>1. /\ pc[t] = "idle" /\ pc'[t] \in {"idle", "exchange"}
        /\ \A u \in Thread \ {t} : pc'[u] = pc[u] /\ job'[u] = job[u]
    BY <1>2 DEF Callback, Arrives, Idle, Goto
  <2>2. UNCHANGED <<connected, provider, vault, disk, live, broken>>
    BY <1>2 DEF Callback, accounts, grants
  <2>. QED  BY <2>1, <2>2, TokensKept
<1>3. ASSUME NEW t \in Thread, NEW c \in Connector, NEW p \in Provider,
             Connect(t, c, p)
      PROVE  TokenParts'
  <2>1. /\ connected' = connected \cup {c}
        /\ provider' = [provider EXCEPT ![c] = p]
        /\ provider[c] = None
        /\ UNCHANGED <<vault, disk, live, broken>>
    BY <1>3 DEF Connect, grants
  <2>2. /\ pc[t] = "idle" /\ pc'[t] = "save"
        /\ \A u \in Thread \ {t} : pc'[u] = pc[u] /\ job'[u] = job[u]
    BY <1>3 DEF Connect, Arrives, Idle, SaveThen, Goto
  <2>3. Unused(c)
    BY <2>1 DEF TypeInv
  <2>4. \A u \in Thread, d \in Connector :
           Answered(u, d)' <=> Answered(u, d) /\ d # c
    BY <2>2, <2>3 DEF Answered, Unused
  <2>5. \A d \in Connector \ {c} : provider'[d] = provider[d]
    BY <2>1 DEF Types
  <2>6. TokenInv'
    <3>1. \A u \in Thread, d \in Connector :
             Answered(u, d)' /\ Newest(u, d) => Newest(u, d)'
      <4>. SUFFICES ASSUME NEW u \in Thread, NEW d \in Connector,
                           Answered(u, d)', Newest(u, d)
                    PROVE  Newest(u, d)'
        OBVIOUS
      <4>1. u # t /\ d # c
        BY <2>2, <2>4 DEF Answered
      <4>. QED  BY <2>1, <2>2, <2>4, <2>5, <4>1, NewestKept
    <3>2. \A u \in Thread : pc'[u] \in {"refresh", "refreshed"} =>
             job'[u].token <= live'[job'[u].conn]
      BY <2>1, <2>2 DEF TokenParts, TokenInv
    <3>. QED  BY <2>1, <2>4, <3>1, <3>2 DEF TokenParts, TokenInv
  <2>7. MemoryFollows'
    <3>1. vault[c] = live[c]
      BY <2>3 DEF Unused
    <3>2. \A u \in Thread : pc[u] = "refreshed"
                               => pc'[u] = "refreshed" /\ job'[u] = job[u]
      BY <2>2
    <3>. QED  BY <2>1, <3>1, <3>2 DEF TokenParts, MemoryFollows
  <2>8. DiskInv'
    BY <2>1, <2>2, DiskKept, FollowsKept DEF TokenParts, DiskInv
  <2>. QED  BY <2>6, <2>7, <2>8 DEF TokenParts
<1>4. ASSUME NEW t \in Thread, NEW c \in Connector, Takes(t, c)
      PROVE  TokenParts'
  BY <1>4, TokensKept DEF Takes, Goto, accounts, grants
<1>5. ASSUME NEW t \in Thread, NEW c \in Connector, Exchange(t, c)
      PROVE  TokenParts'
  <2>1. /\ connected' = connected \cup {c}
        /\ provider' = [provider EXCEPT ![c] = job[t].prov]
        /\ vault' = [vault EXCEPT ![c] = 1]
        /\ live' = [live EXCEPT ![c] = 1]
        /\ provider[c] = None
        /\ UNCHANGED <<disk, broken>>
    BY <1>5 DEF Exchange
  <2>2. /\ pc[t] = "exchange" /\ pc'[t] = "save"
        /\ \A u \in Thread \ {t} : pc'[u] = pc[u] /\ job'[u] = job[u]
    BY <1>5 DEF Exchange, SaveThen, Goto
  <2>3. Unused(c)
    BY <2>1 DEF TypeInv
  <2>4. \A u \in Thread, d \in Connector :
           Answered(u, d)' <=> Answered(u, d) /\ d # c
    BY <2>2, <2>3 DEF Answered, Unused
  <2>5. /\ vault'[c] = 1 /\ live'[c] = 1
        /\ \A d \in Connector \ {c} : /\ provider'[d] = provider[d]
                                      /\ vault'[d] = vault[d]
                                      /\ live'[d] = live[d]
    BY <2>1 DEF Types
  <2>6. TokenInv'
    <3>1. \A d \in Connector : vault'[d] <= live'[d]
      BY <2>1, <2>3, <2>5 DEF TokenParts, TokenInv, Unused
    <3>2. \A u \in Thread : pc'[u] \in {"refresh", "refreshed"} =>
             job'[u].token <= live'[job'[u].conn]
      BY <2>2, <2>3, <2>5 DEF TypeInv, TokenParts, TokenInv, Unused
    <3>3. \A u \in Thread, d \in Connector :
             Answered(u, d)' /\ Newest(u, d) => Newest(u, d)'
      <4>. SUFFICES ASSUME NEW u \in Thread, NEW d \in Connector,
                           Answered(u, d)', Newest(u, d)
                    PROVE  Newest(u, d)'
        OBVIOUS
      <4>1. u # t /\ d # c
        BY <2>2, <2>4 DEF Answered
      <4>. QED  BY <2>2, <2>4, <2>5, <4>1, NewestKept
    <3>. QED  BY <2>1, <2>4, <3>1, <3>2, <3>3 DEF TokenParts, TokenInv
  <2>7. MemoryFollows'
    BY <2>1, <2>2, <2>5 DEF TokenParts, MemoryFollows
  <2>8. DiskInv'
    <3>1. \A p \in OnDisk', d \in Connector : p.vault[d] <= live'[d]
      <4>1. \A p \in OnDisk : p.vault[c] = 0
        BY <2>3 DEF Unused
      <4>2. \A p \in OnDisk, d \in Connector \ {c} : p.vault[d] <= live'[d]
        BY <2>5 DEF TokenParts, DiskInv
      <4>3. OnDisk' = OnDisk
        BY <2>1, DiskKept
      <4>. QED  BY <2>5, <4>1, <4>2, <4>3
    <3>2. \A p \in OnDisk : \A d \in p.connected : live'[d] = live[d]
      BY <2>3, <2>5, OnDiskTypes DEF Unused, Picture
    <3>3. \A p \in OnDisk : Follows(p)'
      BY <2>1, <2>2, <3>2, FollowsKept DEF TokenParts, DiskInv
    <3>. QED  BY <2>1, <3>1, <3>3, DiskKept DEF DiskInv
  <2>. QED  BY <2>6, <2>7, <2>8 DEF TokenParts
<1>6. ASSUME NEW t \in Thread, TokenStale(t)
      PROVE  TokenParts'
  <2>. DEFINE c == job[t].conn
  <2>1. /\ pc[t] = "vault" /\ pc'[t] = "refresh"
        /\ job'[t].conn = c /\ job'[t].token = vault[c]
        /\ \A u \in Thread \ {t} : pc'[u] = pc[u] /\ job'[u] = job[u]
    BY <1>6 DEF TokenStale, Goto, Local
  <2>2. UNCHANGED <<connected, provider, vault, disk, live, broken>>
    BY <1>6 DEF TokenStale, accounts, grants
  <2>3. c \in Connector
    BY <2>1 DEF TypeInv
  <2>4. \A u \in Thread, d \in Connector : Answered(u, d)' <=> Answered(u, d)
    BY <2>1 DEF Answered
  <2>5. TokenInv'
    <3>1. \A u \in Thread, d \in Connector :
             Answered(u, d)' /\ Newest(u, d) => Newest(u, d)'
      BY <2>1, <2>2, <2>4 DEF Newest, Answered
    <3>2. \A u \in Thread : pc'[u] \in {"refresh", "refreshed"} =>
             job'[u].token <= live'[job'[u].conn]
      BY <2>1, <2>2, <2>3 DEF TokenParts, TokenInv
    <3>. QED  BY <2>2, <2>4, <3>1, <3>2 DEF TokenParts, TokenInv
  <2>6. MemoryFollows'
    BY <2>1, <2>2 DEF TokenParts, MemoryFollows
  <2>7. DiskInv'
    BY <2>1, <2>2, DiskKept, FollowsKept DEF TokenParts, DiskInv
  <2>. QED  BY <2>5, <2>6, <2>7 DEF TokenParts
<1>7. ASSUME NEW t \in Thread, Refreshed(t)
      PROVE  TokenParts'
  <2>. DEFINE c == job[t].conn
  <2>1. /\ pc[t] = "refresh" /\ pc'[t] = "refreshed"
        /\ job[t].token = live[c]
        /\ job'[t].conn = c /\ job'[t].token = Served(c)
        /\ \A u \in Thread \ {t} : pc'[u] = pc[u] /\ job'[u] = job[u]
    BY <1>7 DEF Refreshed, Goto, Local
  <2>2. /\ live' = [live EXCEPT ![c] = Served(c)]
        /\ UNCHANGED <<connected, provider, vault, disk, broken>>
    BY <1>7 DEF Refreshed, accounts
  <2>3. c \in Connector
    BY <2>1 DEF TypeInv
  <2>4. /\ live'[c] = Served(c)
        /\ \A d \in Connector \ {c} : live'[d] = live[d]
        /\ \A d \in Connector : live[d] <= live'[d]
        /\ provider[c] \in Rotating => live[c] < live'[c]
        /\ provider[c] \notin Rotating => live[c] = live'[c]
    BY <2>2, <2>3 DEF Types, Served
  <2>5. \A d \in Connector : Answered(t, d)' => d = c
    BY <2>1 DEF Answered
  <2>6. \A u \in Thread \ {t}, d \in Connector :
           Answered(u, d)' <=> Answered(u, d)
    BY <2>1 DEF Answered
  <2>7. c \notin broken /\ provider[c] \in Rotating
           => \A u \in Thread : ~Answered(u, c)
    <3>1. ASSUME c \notin broken, provider[c] \in Rotating,
                 NEW u \in Thread, Answered(u, c)
          PROVE  FALSE
      <4>1. job[t].token < live[c]
        BY <2>1, <2>3, <3>1 DEF TokenParts, TokenInv, Newest
      <4>2. live[c] \in Nat
        BY <2>3 DEF Types
      <4>. QED  BY <2>1, <4>1, <4>2
    <3>. QED  BY <3>1
  <2>8. \A d \in Connector : /\ vault[d] \in Nat
                            /\ live[d] \in Nat /\ live'[d] \in Nat
    <3>1. \A d \in Connector : vault[d] \in Nat /\ live[d] \in Nat
      BY DEF Types
    <3>2. Served(c) \in Nat
      BY <2>3, <3>1 DEF Served
    <3>. QED  BY <2>3, <2>4, <3>1, <3>2
  <2>9. \A u \in Thread : job[u].token \in Nat
    BY DEF Local
  <2>. HIDE DEF c
  <2>10. \A d \in Connector : vault'[d] <= live'[d]
    BY <2>2, <2>4, <2>8 DEF TokenParts, TokenInv
  <2>11. ASSUME NEW u \in Thread, pc'[u] \in {"refresh", "refreshed"}
         PROVE  job'[u].token <= live'[job'[u].conn]
    <3>1. CASE u = t
      BY <2>1, <2>3, <2>4, <2>8, <3>1
    <3>2. CASE u # t
      <4>1. /\ job[u].conn \in Connector /\ job[u].token <= live[job[u].conn]
            /\ job'[u] = job[u]
        BY <2>1, <2>11, <3>2 DEF TypeInv, TokenParts, TokenInv
      <4>. QED  BY <2>4, <2>8, <2>9, <4>1
    <3>. QED  BY <3>1, <3>2
  <2>12. ASSUME NEW d \in Connector \ broken, NEW u \in Thread, Answered(u, d)'
         PROVE  Newest(u, d)'
    <3>1. CASE u = t
      <4>1. d = c
        BY <2>5, <2>12, <3>1
      <4>2. ASSUME provider[d] \in Rotating
            PROVE  /\ vault[d] < live'[d]
                   /\ \A w \in Thread :
                         /\ Answered(w, d)' => w = t
                         /\ pc'[w] = "refresh" /\ job'[w].conn = d
                               => job'[w].token < live'[d]
        <5>1. live[d] < live'[d] /\ vault[d] <= live[d]
          BY <2>3, <2>4, <4>1, <4>2 DEF TokenParts, TokenInv
        <5>2. \A w \in Thread : Answered(w, d)' => w = t
          BY <2>6, <2>7, <4>1, <4>2
        <5>3. ASSUME NEW w \in Thread, pc'[w] = "refresh", job'[w].conn = d
              PROVE  job[w].token <= live[d] /\ job'[w] = job[w]
          BY <2>1, <5>3 DEF TokenParts, TokenInv
        <5>4. /\ vault[d] \in Nat /\ live[d] \in Nat /\ live'[d] \in Nat
              /\ \A w \in Thread : job[w].token \in Nat
          BY <2>8, <2>9
        <5>5. ASSUME NEW w \in Thread, pc'[w] = "refresh", job'[w].conn = d
              PROVE  job'[w].token < live'[d]
          BY <5>1, <5>3, <5>4, <5>5
        <5>. QED  BY <5>1, <5>2, <5>4, <5>5
      <4>3. job'[t].token = live'[c]
        BY <2>1, <2>4
      <4>. QED  BY <2>2, <3>1, <4>1, <4>2, <4>3 DEF Newest
    <3>2. CASE u # t
      <4>1. Answered(u, d) /\ Newest(u, d)
        BY <2>6, <2>12, <3>2 DEF TokenParts, TokenInv
      <4>2. provider[d] \in Rotating => d # c
        BY <2>7, <2>12, <4>1
      <4>3. live'[d] = live[d]
        BY <2>4, <4>2
      <4>. QED  BY <2>1, <2>2, <2>5, <2>6, <3>2, <4>1, <4>2, <4>3 DEF Newest
    <3>. QED  BY <3>1, <3>2
  <2>13. TokenInv'
    BY <2>2, <2>10, <2>11, <2>12 DEF TokenInv
  <2>14. MemoryFollows'
    <3>1. \A d \in Connector :
             \/ live'[d] = live[d]
             \/ \E u \in Thread : job'[u].conn = d /\ pc'[u] = "refreshed"
      BY <2>1, <2>4
    <3>2. \A u \in Thread : pc[u] = "refreshed"
                               => pc'[u] = "refreshed" /\ job'[u] = job[u]
      BY <2>1
    <3>. QED  BY <2>2, <3>1, <3>2 DEF TokenParts, MemoryFollows
  <2>15. DiskInv'
    <3>1. \A p \in OnDisk', d \in Connector : p.vault[d] <= live'[d]
      BY <2>2, <2>4, <2>8, BoundKept, DiskKept, OnDiskTypes
    <3>2. \A p \in OnDisk : Follows(p)'
      <4>1. \A d \in Connector :
               \/ live'[d] = live[d]
               \/ \E u \in Thread : job'[u].conn = d /\ pc'[u] = "refreshed"
        BY <2>1, <2>4
      <4>2. \A u \in Thread : pc[u] \in {"refreshed", "save"} =>
               pc'[u] \in {"refreshed", "save"} /\ job'[u].conn = job[u].conn
        BY <2>1
      <4>. QED  BY <2>2, <4>1, <4>2, FollowsKept, OnDiskTypes
                   DEF TokenParts, DiskInv, Picture
    <3>. QED  BY <2>2, <3>1, <3>2, DiskKept DEF DiskInv
  <2>. QED  BY <2>13, <2>14, <2>15 DEF TokenParts
<1>8. ASSUME NEW t \in Thread, RefreshLost(t)
      PROVE  TokenParts'
  <2>. DEFINE c == job[t].conn
  <2>1. /\ pc[t] = "refresh" /\ pc'[t] = "idle"
        /\ \A u \in Thread \ {t} : pc'[u] = pc[u] /\ job'[u] = job[u]
    BY <1>8 DEF RefreshLost, End, Goto
  <2>2. /\ live' = [live EXCEPT ![c] = Served(c)]
        /\ broken' = IF provider[c] \in Rotating
                     THEN broken \cup {c} ELSE broken
        /\ UNCHANGED <<connected, provider, vault, disk>>
    BY <1>8 DEF RefreshLost, accounts
  <2>3. c \in Connector
    BY <2>1 DEF TypeInv
  <2>4. /\ \A d \in Connector : live[d] <= live'[d]
        /\ \A d \in Connector \ broken' : live'[d] = live[d]
        /\ broken \subseteq broken'
    BY <2>2, <2>3 DEF Types, Served
  <2>5. \A u \in Thread, d \in Connector :
           Answered(u, d)' => Answered(u, d) /\ u # t
    BY <2>1 DEF Answered
  <2>6. \A d \in Connector : /\ vault[d] \in Nat
                            /\ live[d] \in Nat /\ live'[d] \in Nat
    BY <2>2, <2>3 DEF Types, Served
  <2>7. \A u \in Thread : job[u].token \in Nat
    BY DEF Local
  <2>. HIDE DEF c
  <2>8. TokenInv'
    <3>1. \A d \in Connector : vault'[d] <= live'[d]
      BY <2>2, <2>4, <2>6 DEF TokenParts, TokenInv
    <3>2. ASSUME NEW u \in Thread, pc'[u] \in {"refresh", "refreshed"}
          PROVE  job'[u].token <= live'[job'[u].conn]
      <4>1. /\ job[u].conn \in Connector /\ job[u].token <= live[job[u].conn]
            /\ job'[u] = job[u]
        BY <2>1, <3>2 DEF TypeInv, TokenParts, TokenInv
      <4>. QED  BY <2>4, <2>6, <2>7, <4>1
    <3>3. ASSUME NEW d \in Connector \ broken', NEW u \in Thread,
                 Answered(u, d)'
          PROVE  Newest(u, d)'
      <4>1. u # t /\ Answered(u, d) /\ Newest(u, d) /\ live'[d] = live[d]
        BY <2>4, <2>5, <3>3 DEF TokenParts, TokenInv
      <4>. QED  BY <2>1, <2>2, <2>5, <4>1 DEF Newest
    <3>. QED  BY <3>1, <3>2, <3>3 DEF TokenInv
  <2>9. MemoryFollows'
    BY <2>1, <2>2, <2>3, <2>4 DEF TokenParts, MemoryFollows
  <2>10. DiskInv'
    <3>1. \A p \in OnDisk', d \in Connector : p.vault[d] <= live'[d]
      BY <2>2, <2>4, <2>6, BoundKept, DiskKept, OnDiskTypes
    <3>2. \A p \in OnDisk : Follows(p)'
      <4>1. \A d \in Connector : live'[d] = live[d] \/ d \in broken'
        BY <2>4
      <4>2. \A u \in Thread : pc[u] \in {"refreshed", "save"} =>
               pc'[u] \in {"refreshed", "save"} /\ job'[u].conn = job[u].conn
        BY <2>1
      <4>. QED  BY <2>4, <4>1, <4>2, FollowsKept, OnDiskTypes
                   DEF TokenParts, DiskInv, Picture
    <3>. QED  BY <2>2, <3>1, <3>2, DiskKept DEF DiskInv
  <2>. QED  BY <2>8, <2>9, <2>10 DEF TokenParts
<1>9. ASSUME NEW t \in Thread, StoreToken(t)
      PROVE  TokenParts'
  <2>. DEFINE c == job[t].conn
  <2>1. /\ pc[t] = "refreshed" /\ pc'[t] = "save" /\ job'[t].conn = c
        /\ \A u \in Thread \ {t} : pc'[u] = pc[u] /\ job'[u] = job[u]
    BY <1>9 DEF StoreToken, SaveThen, Goto, Local
  <2>2. /\ vault' = [vault EXCEPT ![c] = job[t].token]
        /\ UNCHANGED <<connected, provider, disk, live, broken>>
    BY <1>9 DEF StoreToken, NewEntry, accounts, grants
  <2>3. c \in Connector /\ Answered(t, c)
    BY <2>1 DEF TypeInv, Answered
  <2>4. /\ vault'[c] = job[t].token
        /\ \A d \in Connector \ {c} : vault'[d] = vault[d]
        /\ vault'[c] <= live[c]
        /\ c \notin broken => vault'[c] = live[c]
    BY <2>1, <2>2, <2>3 DEF Types, TokenParts, TokenInv, Newest
  <2>5. \A u \in Thread, d \in Connector :
           Answered(u, d)' => Answered(u, d) /\ u # t
    BY <2>1 DEF Answered
  <2>. HIDE DEF c
  <2>6. TokenInv'
    <3>1. \A d \in Connector : vault'[d] <= live'[d]
      BY <2>2, <2>4 DEF TokenParts, TokenInv
    <3>2. \A u \in Thread : pc'[u] \in {"refresh", "refreshed"} =>
             job'[u].token <= live'[job'[u].conn]
      BY <2>1, <2>2 DEF TokenParts, TokenInv
    <3>3. ASSUME NEW d \in Connector \ broken, NEW u \in Thread,
                 Answered(u, d)'
          PROVE  Newest(u, d)'
      <4>1. u # t /\ Answered(u, d) /\ Newest(u, d)
        BY <2>5, <3>3 DEF TokenParts, TokenInv
      <4>2. provider[d] \in Rotating => d # c
        BY <2>3, <4>1 DEF Newest
      <4>. QED  BY <2>1, <2>2, <2>4, <2>5, <4>1, <4>2 DEF Newest
    <3>. QED  BY <2>2, <3>1, <3>2, <3>3 DEF TokenInv
  <2>7. MemoryFollows'
    <3>1. ASSUME NEW d \in connected
          PROVE  \/ vault'[d] = live[d]
                 \/ d \in broken
                 \/ \E u \in Thread : job'[u].conn = d /\ pc'[u] = "refreshed"
      <4>1. CASE d = c
        BY <2>4, <4>1
      <4>2. CASE d # c
        BY <2>1, <2>4, <4>2 DEF c, TokenParts, MemoryFollows
      <4>. QED  BY <4>1, <4>2
    <3>. QED  BY <2>2, <3>1 DEF MemoryFollows
  <2>8. DiskInv'
    <3>1. \A u \in Thread : pc[u] \in {"refreshed", "save"} =>
             pc'[u] \in {"refreshed", "save"} /\ job'[u].conn = job[u].conn
      BY <2>1 DEF c
    <3>. QED  BY <2>2, <3>1, DiskKept, FollowsKept DEF TokenParts, DiskInv
  <2>. QED  BY <2>6, <2>7, <2>8 DEF TokenParts
<1>10. ASSUME NEW t \in Thread, Capture(t) \/ Replace(t) \/ SaveFails(t)
       PROVE  TokenParts'
  <2>1. /\ pc[t] \in {"save", "write"}
        /\ pc'[t] \in {"idle", "token", "item", "write"}
        /\ \A u \in Thread \ {t} : pc'[u] = pc[u] /\ job'[u] = job[u]
    BY <1>10 DEF Capture, Replace, SaveFails, End, Goto, Local
  <2>2. UNCHANGED <<connected, provider, vault, live, broken>>
    BY <1>10 DEF Capture, Replace, SaveFails, accounts, grants
  <2>3. \A u \in Thread, d \in Connector :
           Answered(u, d)' => Answered(u, d) /\ u # t
    BY <2>1 DEF Answered
  <2>4. TokenInv'
    BY <2>1, <2>2, <2>3 DEF TokenParts, TokenInv, Newest
  <2>5. MemoryFollows'
    BY <2>1, <2>2 DEF TokenParts, MemoryFollows
  <2>6. \A p \in OnDisk' : Stems(p)
    BY <1>10, Captured, Replaced, AllOutdated DEF Replace, SaveFails
  <2>7. \A p \in OnDisk', d \in Connector : p.vault[d] <= live'[d]
    <3>1. \A d \in Connector : vault[d] \in Nat /\ live[d] \in Nat
      BY DEF Types
    <3>. QED  BY <2>2, <2>6, <3>1, BoundKept, OnDiskTypes
  <2>8. ASSUME NEW p \in OnDisk'
        PROVE  Follows(p)'
    <3>1. CASE ~p.newest
      BY <3>1 DEF Follows
    <3>2. CASE p.connected = connected /\ p.vault = vault
      BY <2>2, <2>5, <3>2 DEF MemoryFollows, Follows
    <3>3. CASE p \in OnDisk /\ pc[t] # "save"
      BY <2>1, <2>2, <3>3, FollowsKept DEF TokenParts, DiskInv
    <3>4. \/ ~p.newest
          \/ p.connected = connected /\ p.vault = vault
          \/ p \in OnDisk /\ pc[t] = "write"
      BY <1>10, Captured, Replaced, AllOutdated DEF Replace, SaveFails
    <3>. QED  BY <3>1, <3>2, <3>3, <3>4
  <2>9. DiskInv'
    BY <2>7, <2>8 DEF DiskInv
  <2>. QED  BY <2>4, <2>5, <2>9 DEF TokenParts
<1>12. ASSUME NEW t \in Thread, Quiet(t)
       PROVE  TokenParts'
  <2>1. PICK step \in Calm : pc' = [pc EXCEPT ![t] = step]
    BY <1>12 DEF Quiet
  <2>2. /\ \A u \in Thread \ {t} : pc'[u] = pc[u] /\ job'[u] = job[u]
        /\ pc'[t] \notin {"refresh", "refreshed"}
        /\ pc[t] \notin {"refreshed", "save", "write"}
    BY <1>12, <2>1 DEF Quiet, Calm
  <2>. QED  BY <1>12, <2>2, TokensKept DEF Quiet
<1>13. CASE Restart
  <2>1. /\ connected' = file.connected /\ vault' = file.vault
        /\ broken' =
              broken \cup {c \in file.connected : file.vault[c] # live[c]}
        /\ UNCHANGED <<provider, live>>
        /\ \A u \in Thread : pc'[u] = "idle"
    BY <1>13 DEF Restart
  <2>2. /\ \A p \in OnDisk' : Stems(p) /\ (p = file' \/ p = NoPicture)
        /\ file'.connected = file.connected /\ file'.vault = file.vault
    BY <1>13, Reloaded DEF Restart
  <2>3. file \in OnDisk
    BY DEF OnDisk
  <2>4. TokenInv'
    BY <2>1, <2>3 DEF TokenParts, TokenInv, DiskInv, Answered
  <2>5. MemoryFollows'
    BY <2>1 DEF MemoryFollows
  <2>6. DiskInv'
    <3>1. \A p \in OnDisk', d \in Connector : p.vault[d] <= live'[d]
      <4>1. \A d \in Connector : vault[d] \in Nat /\ live[d] \in Nat
        BY DEF Types
      <4>. QED  BY <2>1, <2>2, <4>1, BoundKept, OnDiskTypes
    <3>2. ASSUME NEW p \in OnDisk'
          PROVE  Follows(p)'
      <4>1. \/ p.connected = file.connected /\ p.vault = file.vault
            \/ ~p.newest
        BY <2>2 DEF NoPicture
      <4>. QED  BY <2>1, <4>1 DEF Follows
    <3>. QED  BY <3>1, <3>2 DEF DiskInv
  <2>. QED  BY <2>4, <2>5, <2>6 DEF TokenParts
<1>14. CASE Still
  BY <1>14, TokensKept DEF Still, accounts, grants
<1>. QED
  BY Moves, <1>1, <1>2, <1>3, <1>4, <1>5, <1>6, <1>7, <1>8, <1>9, <1>10,
     <1>12, <1>13, <1>14 DEF Move

-----------------------------------------------------------------------------
(* The inductive invariant of the connections.                             *)
LEMMA ConnectionsInvariant == Spec => []ConnectionInv
<1>1. ConnectionInv /\ [Next]_allVars => ConnectionInv'
  BY TypeNext, StateNext, TokenNext DEF ConnectionInv
<1>. QED  BY ConnectionInit, <1>1, PTL DEF Spec

(* However callbacks repeat and race, and whatever else runs, a state      *)
(* stands behind one connector at most, of the provider it was drawn for:  *)
(* callback() takes its entry out before it looks at it.                   *)
THEOREM OneConnectorHolds == Spec => []OneConnectorPerState
<1>1. ConnectionInv => OneConnectorPerState
  BY DEF ConnectionInv, StateInv, OneConnectorPerState, Used
<1>. QED  BY ConnectionsInvariant, <1>1, PTL

(* With any number of handlers that refresh platform tokens, saves that    *)
(* fail or overtake each other, lost answers and restarts, the entries     *)
(* hold the tokens the platforms accept, but for those                     *)
(* VaultFollowsPlatform excepts: access_token() needs no lock for it,      *)
(* because a platform serves a rotated token once.  The file needs the     *)
(* newest save to be the one that replaced it; nothing in persist() sees   *)
(* to that.                                                                *)
THEOREM VaultHolds == Spec => []VaultFollowsPlatform
<1>1. ConnectionInv => VaultFollowsPlatform
  BY DEF ConnectionInv, TokenParts, MemoryFollows, DiskInv, OnDisk, Follows,
         VaultFollowsPlatform
<1>. QED  BY ConnectionsInvariant, <1>1, PTL
=============================================================================
