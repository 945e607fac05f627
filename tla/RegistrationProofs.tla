------------------------- MODULE RegistrationProofs --------------------------
(***************************************************************************)
(* Theorems about what MediaIngest registers, for any number of threads,   *)
(* connectors, media and deliveries and any limits.                        *)
(***************************************************************************)
EXTENDS IngestProofs, FiniteSetTheorems

USE VaultAssumption, IngestAssumption

Fields == {"id", "kind", "items", "pos", "known", "owner", "attempt",
           "before", "late"}

(* Thread t runs a request that ingests, and will go on with it.           *)
InRun(t) ==
    \/ pc[t] \in {"vault", "token", "refresh", "refreshed", "item", "lookup",
                  "submit", "store"}
    \/ pc[t] \in {"save", "write"} /\ job[t].next # "idle"

(* It has its list of items.                                               *)
Listed(t) ==
    \/ pc[t] \in {"item", "lookup", "submit", "store"}
    \/ pc[t] \in {"save", "write"} /\ job[t].next = "item"

(* It has one of them under way.                                           *)
UnderWay(t) == pc[t] \in {"lookup", "submit", "store"}

(* The local variables of thread t.                                        *)
RunPart(t) ==
    /\ DOMAIN run[t] = Fields
    /\ run[t].id \in 0 .. runs
    /\ run[t].pos \in Nat \ {0}
    /\ run[t].attempt \in Nat
    /\ InRun(t) => run[t].id # 0
    /\ UnderWay(t) => run[t].pos \in DOMAIN run[t].items

DrawnInv == drawn = [t \in Thread |-> drawn[t]]

RunInv ==
    /\ runs \in Nat
    /\ run = [t \in Thread |-> run[t]]
    /\ \A t \in Thread : RunPart(t)
    /\ \A t, u \in Thread : run[t].id = run[u].id /\ run[t].id # 0 => t = u

(* A sync has collected at least what was registered when it came in.      *)
SkipPart(t) ==
    run[t].kind = "sync" =>
        /\ run[t].before \subseteq Contents(regs)
        /\ Listed(t) => run[t].before \subseteq run[t].known
        /\ UnderWay(t) => Item(t).content \notin run[t].known

(* The connectors without which the request of t has stored an item are    *)
(* gone for good, so that no other item of theirs passes Lookup.           *)
LatePart(t) ==
    /\ run[t].late \in Seq(Connector)
    /\ IsInjective(run[t].late)
    /\ \A n \in DOMAIN run[t].late : run[t].late[n] \in Used \ connected
    /\ pc[t] \in {"submit", "store"} =>
          /\ Item(t).conn \in Used
          /\ \A n \in DOMAIN run[t].late : run[t].late[n] # Item(t).conn

(* The registrations there are, in memory, in the file or on the way there.*)
Registered == regs \cup saved \cup UNION {drawn[t] : t \in Thread}

LEMMA NothingLate ==
    /\ <<>> \in Seq(Connector)
    /\ IsInjective(<<>>)
    /\ DOMAIN <<>> = {}
BY DEF IsInjective

SameItem(x, y) == x.id = y.id /\ x.item = y.item

(* Transaction x belongs to an item its request has come to; the attempts  *)
(* for an item follow one another.                                         *)
Reached(x, t) ==
    x.id = run[t].id =>
        /\ x.item <= run[t].pos
        /\ pc[t] \notin {"submit", "store"} => x.item < run[t].pos
        /\ pc[t] = "submit" /\ x.item = run[t].pos
              => x.attempt < run[t].attempt
        /\ pc[t] = "store" /\ x.item = run[t].pos
              => x.attempt <= run[t].attempt

(* Registration r belongs to an item that its request has left behind.     *)
Passed(r, t) == r.id = run[t].id => r.item < run[t].pos

(* A registration names the last attempt to register its item.             *)
LedgerInv ==
    /\ \A x \in ledger :
          /\ x.id \in 1 .. runs /\ x.item \in Nat /\ x.attempt \in Nat
          /\ \A t \in Thread : Reached(x, t)
    /\ \A t \in Thread : pc[t] = "store" => Transaction(t) \in ledger
    /\ \A r \in Registered :
          /\ r \in ledger
          /\ \A x \in ledger : SameItem(x, r) => x.attempt <= r.attempt
          /\ \A t \in Thread : Passed(r, t)

Parts(t) == SkipPart(t) /\ LatePart(t)

RegistrationInv == RunInv /\ (\A t \in Thread : Parts(t)) /\ LedgerInv

-----------------------------------------------------------------------------
(* Steps of thread t that neither begin a request nor take it to an item   *)
(* or its transaction: the handlers of PlatformVault, a save, the end.     *)
Outside(t) ==
    /\ UNCHANGED <<ledger, regs, runs>>
    /\ Registered' \subseteq Registered
    /\ run' \in {run, [run EXCEPT ![t] = NoRun]}
    /\ \A u \in Thread \ {t} : pc'[u] = pc[u] /\ job'[u] = job[u]
    /\ InRun(t)' => InRun(t) /\ run' = run /\ (Listed(t)' <=> Listed(t))
    /\ ~UnderWay(t)'
    /\ pc[t] \notin {"submit", "store"} \/ run'[t] = NoRun

(* No step gives a connector back that is gone.                            *)
GoneForGood == Used \subseteq Used' /\ connected' \cap Used \subseteq connected

LEMMA RecordsKept ==
    ASSUME UNCHANGED records
    PROVE  regs' = regs /\ drawn' = drawn /\ Registered' = Registered
BY DEF records, Registered

(* A save that is taken, or ends, brings no registration into being.       *)
LEMMA RecordsSaved ==
    ASSUME DrawnInv, NEW t \in Thread, regs' = regs,
           \/ saved' = saved /\ drawn' = [drawn EXCEPT ![t] = {}]
           \/ saved' = saved /\ drawn' = [drawn EXCEPT ![t] = regs]
           \/ saved' = drawn[t] /\ drawn' = [drawn EXCEPT ![t] = {}]
    PROVE  Registered' \subseteq Registered
<1>1. drawn = [u \in Thread |-> drawn[u]]
  BY DEF DrawnInv
<1>2. \A u \in Thread : drawn'[u] \in {drawn[u], {}, regs}
  BY <1>1
<1>3. saved' \in {saved, drawn[t]}
  OBVIOUS
<1>. QED  BY <1>1, <1>2, <1>3 DEF Registered

(* Handlers of PlatformVault that a request starts with.                   *)
LEMMA OutsideRequests ==
    ASSUME TypeInv, RunInv, NEW t \in Pool, VaultRequest(t)
    PROVE  Outside(t)
<1>. USE DEF TypeInv, Types, Pool, Arrives, Idle, Goto, Outside, InRun,
             Listed, UnderWay, ingest
<1>1. /\ UNCHANGED <<ledger, regs, runs, run>>
      /\ Registered' \subseteq Registered
  BY RecordsKept DEF VaultRequest
<1>2. ASSUME NEW p \in Provider, NEW s \in State, Start(t, p, s)
      PROVE  Outside(t)
  BY <1>1, <1>2 DEF Start
<1>3. ASSUME NEW p \in Provider, NEW s \in State, Callback(t, p, s)
      PROVE  Outside(t)
  <2>1. CASE Accepts(p, s)
    BY <1>1, <1>3, <2>1 DEF Callback
  <2>2. CASE ~Accepts(p, s)
    BY <1>1, <1>3, <2>2 DEF Callback
  <2>. QED  BY <2>1, <2>2
<1>4. ASSUME NEW c \in Connector, NEW p \in Provider, Connect(t, c, p)
      PROVE  Outside(t)
  BY <1>1, <1>4 DEF Connect, SaveThen, Local
<1>5. ASSUME NEW c \in Connector, Disconnect(t, c)
      PROVE  Outside(t)
  BY <1>1, <1>5 DEF Disconnect, SaveThen, Local
<1>. QED  BY <1>2, <1>3, <1>4, <1>5 DEF VaultRequest

(* The other steps that are outside.                                       *)
LEMMA OutsideSteps ==
    ASSUME TypeInv, RunInv, DrawnInv, NEW t \in Thread,
           \/ VaultStep(t) \/ VaultEnd(t) \/ CaptureAll(t) \/ InstallAll(t)
           \/ ListFails(t) \/ Finish(t)
    PROVE  Outside(t)
<1>0. UNCHANGED records => regs' = regs /\ Registered' \subseteq Registered
  BY RecordsKept
<1>. USE DEF TypeInv, Types, Goto, Outside, InRun, Listed, UnderWay, ingest
<1>1. CASE VaultStep(t)
  <2>. USE <1>0, <1>1 DEF VaultStep
  <2>1. ASSUME NEW c \in Connector, Exchange(t, c)
        PROVE  Outside(t)
    BY <2>1 DEF Exchange, SaveThen, Local
  <2>2. CASE TokenFresh(t)
    BY <2>2 DEF TokenFresh
  <2>3. CASE TokenStale(t)
    BY <2>3 DEF TokenStale
  <2>4. CASE Refreshed(t)
    BY <2>4 DEF Refreshed
  <2>5. CASE StoreToken(t)
    BY <2>5 DEF StoreToken, SaveThen, Local
  <2>. QED  BY <2>1, <2>2, <2>3, <2>4, <2>5
<1>2. CASE VaultEnd(t)
  <2>1. pc'[t] = "idle" /\ pc[t] \notin {"submit", "store"}
        /\ \A u \in Thread \ {t} : pc'[u] = pc[u] /\ job'[u] = job[u]
    BY <1>2 DEF VaultEnd, Prune, ExchangeFails, TokenMissing, RefreshLost,
                RefreshFails, SaveFails, End
  <2>2. Registered' \subseteq Registered
    BY <1>2, RecordsSaved DEF VaultEnd
  <2>. QED  BY <1>2, <2>1, <2>2 DEF VaultEnd
<1>3. CASE CaptureAll(t)
  <2>1. Registered' \subseteq Registered
    BY <1>3, RecordsSaved DEF CaptureAll
  <2>2. /\ pc[t] = "save" /\ pc'[t] = "write" /\ job' = job
        /\ \A u \in Thread \ {t} : pc'[u] = pc[u]
    BY <1>3 DEF CaptureAll, Capture
  <2>. QED  BY <1>3, <2>1, <2>2 DEF CaptureAll
<1>4. CASE InstallAll(t)
  <2>1. Registered' \subseteq Registered
    BY <1>4, RecordsSaved DEF InstallAll
  <2>2. CASE job[t].next = "idle"
    BY <1>4, <2>1, <2>2 DEF InstallAll, Replace, End
  <2>3. CASE job[t].next # "idle"
    <3>1. job[t].next \in {"token", "item"}
      BY <2>3 DEF Local
    <3>. QED  BY <1>4, <2>1, <2>3, <3>1 DEF InstallAll, Replace
  <2>. QED  BY <2>2, <2>3
<1>5. CASE ListFails(t)
  BY <1>0, <1>5 DEF ListFails, EndRun, Within
<1>6. CASE Finish(t)
  BY <1>0, <1>6 DEF Finish, EndRun, Within
<1>. QED  BY <1>1, <1>2, <1>3, <1>4, <1>5, <1>6

(* Connectors are made with identifiers that none has had.                 *)
LEMMA Gone ==
    ASSUME TypeInv,
           \/ Arrival
           \/ \E t \in Thread : Progress(t)
           \/ TimePasses
           \/ UNCHANGED allVars
    PROVE  GoneForGood
<1>. USE DEF accounts, GoneForGood, Used
<1>1. UNCHANGED accounts => GoneForGood
  OBVIOUS
<1>2. ASSUME NEW t \in Thread, VaultRequest(t)
      PROVE  GoneForGood
  BY <1>2 DEF VaultRequest, Start, Callback, Connect, Disconnect, TypeInv,
              Types
<1>3. ASSUME NEW t \in Thread, VaultStep(t) \/ VaultEnd(t) \/ CaptureAll(t)
                             \/ InstallAll(t)
      PROVE  GoneForGood
  <2>1. ASSUME NEW c \in Connector, Exchange(t, c)
        PROVE  GoneForGood
    BY <2>1 DEF Exchange, TypeInv, Types
  <2>. QED
    BY <1>3, <2>1
    DEF VaultStep, VaultEnd, CaptureAll, InstallAll, Prune, ExchangeFails,
        TokenFresh, TokenStale, TokenMissing, Refreshed, RefreshLost,
        RefreshFails, StoreToken, Capture, Replace, SaveFails
<1>4. CASE Arrival
  BY <1>1, <1>2, <1>4 DEF Arrival, Pool, Sync, Post, Webhook, Aside
<1>5. ASSUME NEW t \in Thread, Progress(t)
      PROVE  GoneForGood
  BY <1>1, <1>3, <1>5
  DEF Progress, List, ListFails, SkipItem, TakeItem, Finish, Lookup,
      Submitted, SubmitLost, SubmitFails, Store, Within, Aside
<1>6. TimePasses => UNCHANGED accounts
  BY DEF TimePasses, Age
<1>7. UNCHANGED allVars => UNCHANGED accounts
  BY DEF allVars, vaultVars
<1>. QED  BY <1>1, <1>4, <1>5, <1>6, <1>7

-----------------------------------------------------------------------------
(* No request runs and nothing is registered when the process starts first.*)
LEMMA RegistrationInit == IngestInit => RegistrationInv
<1>. SUFFICES ASSUME IngestInit PROVE RegistrationInv
  OBVIOUS
<1>. USE DEF IngestInit, VaultInit, NoRun, InRun, Listed, UnderWay
<1>1. RunInv
  BY DEF RunInv, RunPart, Fields
<1>2. ASSUME NEW t \in Thread PROVE Parts(t)
  BY NothingLate DEF Parts, SkipPart, LatePart
<1>3. LedgerInv
  BY DEF LedgerInv, Registered
<1>. QED  BY <1>1, <1>2, <1>3 DEF RegistrationInv

(* Only thread t takes a step.                                             *)
Alone(t) ==
    /\ run' = [run EXCEPT ![t] = run'[t]]
    /\ \A u \in Thread \ {t} : pc'[u] = pc[u] /\ job'[u] = job[u]

(* The other threads keep their parts, whatever t does.                    *)
LEMMA OthersKeep ==
    ASSUME RegistrationInv, GoneForGood, NEW t \in Thread, Alone(t),
           regs \subseteq regs', Parts(t)'
    PROVE  \A u \in Thread : Parts(u)'
<1>. SUFFICES ASSUME NEW u \in Thread, u # t PROVE Parts(u)'
  OBVIOUS
<1>1. run'[u] = run[u] /\ pc'[u] = pc[u] /\ job'[u] = job[u]
  BY DEF Alone, RegistrationInv, RunInv
<1>2. /\ InRun(u)' <=> InRun(u)
      /\ Listed(u)' <=> Listed(u)
      /\ UnderWay(u)' <=> UnderWay(u)
      /\ Item(u)' = Item(u)
  BY <1>1 DEF InRun, Listed, UnderWay, Item
<1>3. SkipPart(u)'
  BY <1>1, <1>2 DEF SkipPart, Contents, RegistrationInv, Parts
<1>4. LatePart(u)'
  BY <1>1, <1>2 DEF LatePart, GoneForGood, RegistrationInv, Parts
<1>. QED  BY <1>3, <1>4 DEF Parts

(* Requests keep their numbers apart.                                      *)
LEMMA RunsKept ==
    ASSUME RegistrationInv, NEW t \in Thread, Alone(t), RunPart(t)',
           \/ runs' = runs /\ run'[t].id \in {0, run[t].id}
           \/ runs' = runs + 1 /\ run'[t].id = runs'
    PROVE  RunInv'
<1>1. /\ run' = [u \in Thread |-> run'[u]]
      /\ \A u \in Thread \ {t} : /\ run'[u] = run[u] /\ pc'[u] = pc[u]
                                 /\ job'[u] = job[u]
  BY DEF Alone, RegistrationInv, RunInv
<1>2. runs \in Nat /\ \A u \in Thread : run[u].id \in 0 .. runs
  BY DEF RegistrationInv, RunInv, RunPart
<1>3. ASSUME NEW u \in Thread \ {t}
      PROVE  RunPart(u)'
  <2>1. RunPart(u) /\ runs' \in {runs, runs + 1}
    BY DEF RegistrationInv, RunInv
  <2>2. (InRun(u)' <=> InRun(u)) /\ (UnderWay(u)' <=> UnderWay(u))
    BY <1>1 DEF InRun, UnderWay
  <2>3. run'[u] = run[u] /\ run[u].id \in 0 .. runs'
    BY <1>1, <1>2, <2>1
  <2>. QED  BY <2>1, <2>2, <2>3 DEF RunPart
<1>4. \A u \in Thread \ {t} : run'[u].id = run'[t].id => run'[u].id = 0
  BY <1>1, <1>2 DEF RegistrationInv, RunInv
<1>5. \A u, w \in Thread : run'[u].id = run'[w].id /\ run'[u].id # 0 => u = w
  BY <1>1, <1>4 DEF RegistrationInv, RunInv
<1>. QED  BY <1>1, <1>2, <1>3, <1>5 DEF RunInv

(* A step that leaves the ledger alone and does not go on to store.        *)
LEMMA LedgerKept ==
    ASSUME RegistrationInv, NEW t \in Thread, Alone(t), pc'[t] # "store",
           ledger' = ledger, Registered' \subseteq Registered,
           runs' \in {runs, runs + 1},
           \A x \in ledger : Reached(x, t)',
           \A r \in Registered : Passed(r, t)'
    PROVE  LedgerInv'
<1>. LedgerInv /\ runs \in Nat
  BY DEF RegistrationInv, RunInv
<1>1. \A u \in Thread \ {t} : run'[u] = run[u] /\ pc'[u] = pc[u]
  BY DEF Alone, RegistrationInv, RunInv
<1>2. ASSUME NEW x \in ledger
      PROVE  /\ x.id \in 1 .. runs' /\ x.item \in Nat /\ x.attempt \in Nat
             /\ \A u \in Thread : Reached(x, u)'
  BY <1>1 DEF LedgerInv, Reached
<1>3. ASSUME NEW u \in Thread, pc'[u] = "store"
      PROVE  Transaction(u)' \in ledger
  BY <1>1, <1>3 DEF LedgerInv, Transaction, Item
<1>4. ASSUME NEW r \in Registered
      PROVE  /\ r \in ledger
             /\ \A x \in ledger : SameItem(x, r) => x.attempt <= r.attempt
             /\ \A u \in Thread : Passed(r, u)'
  BY <1>1 DEF LedgerInv, Passed
<1>. QED  BY <1>2, <1>3, <1>4 DEF LedgerInv

(* An outside step keeps the invariant.                                    *)
LEMMA OutsideKeeps ==
    ASSUME RegistrationInv, NEW t \in Thread, Outside(t), GoneForGood
    PROVE  RegistrationInv'
<1>1. run'[t] \in {run[t], NoRun} /\ Alone(t)
  BY DEF Outside, Alone, RegistrationInv, RunInv
<1>2. CASE run'[t] = run[t] /\ pc[t] \notin {"submit", "store"}
  <2>1. RunPart(t)' /\ runs' = runs
    BY <1>2 DEF RunPart, Outside, RegistrationInv, RunInv
  <2>2. Parts(t)'
    <3>1. /\ Listed(t)' => Listed(t)
          /\ InRun(t)' /\ ~Listed(t)' => InRun(t) /\ ~Listed(t)
          /\ ~UnderWay(t)' /\ pc'[t] \notin {"submit", "store"}
      BY DEF Outside, InRun, Listed, UnderWay
    <3>2. SkipPart(t)'
      BY <1>2, <3>1 DEF Parts, SkipPart, Outside, RegistrationInv
    <3>3. LatePart(t)'
      BY <1>2, <3>1 DEF Parts, LatePart, GoneForGood, RegistrationInv
    <3>. QED  BY <3>2, <3>3 DEF Parts
  <2>3. \A x \in ledger : Reached(x, t)'
    BY <1>2 DEF Reached, Outside, UnderWay, RegistrationInv, LedgerInv
  <2>4. \A r \in Registered : Passed(r, t)'
    BY <1>2 DEF Passed, RegistrationInv, LedgerInv
  <2>5. RunInv' /\ LedgerInv' /\ \A u \in Thread : Parts(u)'
    BY <1>1, <1>2, <2>1, <2>2, <2>3, <2>4, RunsKept, LedgerKept, OthersKeep
    DEF Outside, UnderWay
  <2>. QED  BY <2>5 DEF RegistrationInv
<1>3. CASE run'[t] = NoRun
  <2>1. RunPart(t)' /\ runs' = runs /\ run'[t].id = 0
    BY <1>3 DEF RunPart, NoRun, Fields, Outside, RegistrationInv, RunInv
  <2>2. Parts(t)'
    BY <1>3, NothingLate
    DEF Parts, SkipPart, LatePart, NoRun, Outside, UnderWay
  <2>3. /\ \A x \in ledger : Reached(x, t)'
        /\ \A r \in Registered : Passed(r, t)'
    BY <2>1 DEF Reached, Passed, RegistrationInv, LedgerInv
  <2>4. RunInv' /\ LedgerInv' /\ \A u \in Thread : Parts(u)'
    BY <1>1, <2>1, <2>2, <2>3, RunsKept, LedgerKept, OthersKeep
    DEF Outside, UnderWay
  <2>. QED  BY <2>4 DEF RegistrationInv
<1>. QED  BY <1>1, <1>2, <1>3 DEF Outside

-----------------------------------------------------------------------------
(* A request that ingests is taken up, with the next number.               *)
LEMMA Begins ==
    ASSUME RegistrationInv, GoneForGood, NEW t \in Thread, NEW kind,
           NEW items, NEW step \in {"vault", "item", "lookup"},
           Begin(t, kind, items), Goto(t, step),
           \A u \in Thread \ {t} : job'[u] = job[u],
           kind = "sync" => step = "vault",
           step = "lookup" => 1 \in DOMAIN items,
           pc = [u \in Thread |-> pc[u]],
           UNCHANGED <<ledger, records>>
    PROVE  RegistrationInv'
<1>1. /\ run'[t].id = runs' /\ run'[t].kind = kind /\ run'[t].items = items
      /\ run'[t].pos = 1 /\ run'[t].attempt = 1 /\ run'[t].late = <<>>
      /\ DOMAIN run'[t] = Fields
      /\ kind = "sync" => run'[t].before = Contents(regs)
      /\ runs' = runs + 1 /\ runs \in Nat
  BY DEF Begin, NoRun, Fields, RegistrationInv, RunInv
<1>2. Alone(t) /\ pc'[t] = step
  BY DEF Alone, Begin, Goto, RegistrationInv, RunInv
<1>3. RunPart(t)'
  BY <1>1, <1>2 DEF RunPart, UnderWay
<1>4. Parts(t)'
  <2>1. SkipPart(t)'
    BY <1>1, <1>2, RecordsKept DEF SkipPart, Listed, UnderWay
  <2>2. LatePart(t)'
    BY <1>1, <1>2, NothingLate DEF LatePart
  <2>. QED  BY <2>1, <2>2 DEF Parts
<1>5. /\ \A x \in ledger : Reached(x, t)'
      /\ \A r \in Registered : Passed(r, t)'
  BY <1>1 DEF Reached, Passed, RegistrationInv, LedgerInv
<1>6. RunInv' /\ LedgerInv' /\ \A u \in Thread : Parts(u)'
  BY <1>1, <1>2, <1>3, <1>4, <1>5, RecordsKept, RunsKept,
       LedgerKept, OthersKeep
<1>. QED  BY <1>6 DEF RegistrationInv

(* The listing of a sync arrives.                                          *)
LEMMA ListKeeps ==
    ASSUME TypeInv, RegistrationInv, GoneForGood, NEW t \in Thread, List(t)
    PROVE  RegistrationInv'
<1>. DEFINE old == run[t]
<1>1. PICK media \in Listings :
         run' = [run EXCEPT
                    ![t].items =
                        [n \in 1 .. Min({MaxItems, Len(media)}) |->
                            [conn |-> job[t].conn, content |-> media[n]]],
                    ![t].known = KnownHashes(t)]
  BY DEF List
<1>2. /\ Alone(t) /\ pc[t] = "token" /\ pc'[t] = "item"
      /\ UNCHANGED <<ledger, records, runs>>
  BY <1>1 DEF Alone, List, Goto, Within, RegistrationInv, RunInv, TypeInv,
              Types
<1>3. DOMAIN old = Fields
  BY DEF RegistrationInv, RunInv, RunPart
<1>4. /\ DOMAIN run'[t] = Fields
      /\ run'[t].id = old.id /\ run'[t].pos = old.pos
      /\ run'[t].kind = old.kind /\ run'[t].attempt = old.attempt
      /\ run'[t].before = old.before /\ run'[t].late = old.late
      /\ run'[t].known = Contents(regs)
      /\ run'[t].items = [n \in 1 .. Min({MaxItems, Len(media)}) |->
                             [conn |-> job[t].conn, content |-> media[n]]]
  BY <1>1, <1>3 DEF KnownHashes, Fields, RegistrationInv, RunInv
<1>. HIDE DEF old
<1>6. /\ InRun(t) /\ ~Listed(t)
      /\ ~UnderWay(t)'
  BY <1>2 DEF InRun, Listed, UnderWay
<1>7. RunPart(t)'
  BY <1>2, <1>4, <1>6 DEF RunPart, old, RegistrationInv, RunInv
<1>8. Parts(t)'
  <2>1. SkipPart(t)'
    <3>1. old.kind = "sync" => old.before \subseteq Contents(regs)
      BY DEF SkipPart, old, RegistrationInv, Parts
    <3>2. Contents(regs)' = Contents(regs)
      BY <1>2, RecordsKept
    <3>. QED  BY <1>4, <1>6, <3>1, <3>2 DEF SkipPart
  <2>2. LatePart(t)'
    BY <1>2, <1>4 DEF LatePart, old, GoneForGood, RegistrationInv, Parts
  <2>. QED  BY <2>1, <2>2 DEF Parts
<1>9. /\ \A x \in ledger : Reached(x, t)'
      /\ \A r \in Registered : Passed(r, t)'
  BY <1>2, <1>4 DEF Reached, Passed, old, RegistrationInv, LedgerInv
<1>10. RunInv' /\ LedgerInv' /\ \A u \in Thread : Parts(u)'
  BY <1>2, <1>4, <1>7, <1>8, <1>9, RecordsKept, RunsKept,
       LedgerKept, OthersKeep DEF old
<1>. QED  BY <1>10 DEF RegistrationInv

(* Steps on the items of a request, before anything is submitted.          *)
LEMMA ItemKeeps ==
    ASSUME TypeInv, RegistrationInv, GoneForGood, NEW t \in Thread,
           \/ SkipItem(t)
           \/ TakeItem(t)
           \/ Lookup(t) /\ FindConnector(Item(t).conn)
    PROVE  RegistrationInv'
<1>. DEFINE old == run[t]
<1>0. DOMAIN old = Fields /\ old.pos \in Nat \ {0}
  BY DEF RegistrationInv, RunInv, RunPart
<1>1. /\ Alone(t) /\ pc[t] \in {"item", "lookup"}
      /\ pc'[t] \in {"item", "lookup", "submit"}
      /\ UNCHANGED <<ledger, records, runs>>
      /\ UNCHANGED job
  BY DEF Alone, SkipItem, TakeItem, Lookup, AtItem, Goto, Within,
         RegistrationInv, RunInv, TypeInv, Types
<1>2. /\ DOMAIN run'[t] = Fields
      /\ run'[t].id = old.id /\ run'[t].pos \in {old.pos, old.pos + 1}
      /\ run'[t].kind = old.kind /\ run'[t].attempt \in {old.attempt, 1}
      /\ run'[t].before = old.before /\ run'[t].late = old.late
      /\ run'[t].known = old.known /\ run'[t].items = old.items
  <2>1. CASE SkipItem(t)
    BY <1>0, <2>1 DEF SkipItem, AtItem, Fields, RegistrationInv, RunInv
  <2>2. CASE TakeItem(t)
    BY <1>0, <2>2 DEF TakeItem
  <2>3. CASE Lookup(t) /\ FindConnector(Item(t).conn)
    BY <1>0, <2>3 DEF Lookup, Fields, RegistrationInv, RunInv
  <2>. QED  BY <2>1, <2>2, <2>3
<1>3. CASE SkipItem(t)
  <2>1. pc'[t] = "item" /\ pc[t] = "item"
    BY <1>3 DEF SkipItem, AtItem
  <2>2. RunPart(t)'
    <3>1. run'[t].pos \in Nat \ {0}
      BY <1>0, <1>2
    <3>2. /\ old.id \in 0 .. runs /\ old.attempt \in Nat
          /\ InRun(t) /\ old.id # 0
      BY <2>1 DEF InRun, RegistrationInv, RunInv, RunPart
    <3>3. ~UnderWay(t)'
      BY <2>1 DEF UnderWay
    <3>. HIDE DEF old
    <3>. QED  BY <1>1, <1>2, <3>1, <3>2, <3>3 DEF RunPart
  <2>3. Parts(t)'
    BY <1>1, <1>2, <2>1, RecordsKept
    DEF Parts, SkipPart, LatePart, InRun, Listed, UnderWay, GoneForGood,
        RegistrationInv
  <2>4. /\ \A x \in ledger : Reached(x, t)'
        /\ \A r \in Registered : Passed(r, t)'
    BY <1>0, <1>2, <2>1 DEF Reached, Passed, RegistrationInv, LedgerInv
  <2>5. RunInv' /\ LedgerInv' /\ \A u \in Thread : Parts(u)'
    BY <1>1, <1>2, <2>1, <2>2, <2>3, <2>4, RecordsKept, RunsKept,
       LedgerKept, OthersKeep
  <2>. QED  BY <2>5 DEF RegistrationInv
<1>4. CASE TakeItem(t)
  <2>1. /\ pc'[t] = "lookup" /\ pc[t] = "item" /\ run' = run
        /\ old.pos \in DOMAIN old.items
        /\ old.kind = "sync" => Item(t).content \notin old.known
    BY <1>1, <1>4 DEF TakeItem, AtItem, Goto, TypeInv, Types
  <2>2. RunPart(t)'
    BY <1>1, <2>1 DEF RunPart, InRun, UnderWay, RegistrationInv, RunInv
  <2>3. Parts(t)'
    BY <1>1, <2>1, RecordsKept
    DEF Parts, SkipPart, LatePart, InRun, Listed, UnderWay, Item,
        GoneForGood, RegistrationInv
  <2>4. /\ \A x \in ledger : Reached(x, t)'
        /\ \A r \in Registered : Passed(r, t)'
    BY <2>1 DEF Reached, Passed, RegistrationInv, LedgerInv
  <2>5. RunInv' /\ LedgerInv' /\ \A u \in Thread : Parts(u)'
    BY <1>1, <1>2, <2>1, <2>2, <2>3, <2>4, RecordsKept, RunsKept,
       LedgerKept, OthersKeep
  <2>. QED  BY <2>5 DEF RegistrationInv
<1>5. CASE Lookup(t) /\ FindConnector(Item(t).conn)
  <2>1. /\ pc'[t] = "submit" /\ pc[t] = "lookup"
        /\ run'[t].pos = old.pos /\ run'[t].attempt = 1
    <3>1. /\ run' = [run EXCEPT ![t].owner = Item(t).conn, ![t].attempt = 1]
          /\ pc[t] = "lookup" /\ Goto(t, "submit")
      BY <1>5 DEF Lookup
    <3>2. pc'[t] = "submit"
      BY <3>1 DEF Goto, TypeInv, Types
    <3>3. run'[t].pos = old.pos /\ run'[t].attempt = 1
      BY <1>0, <3>1 DEF Fields, RegistrationInv, RunInv
    <3>. QED  BY <3>1, <3>2, <3>3
  <2>2. /\ Item(t).conn \in connected /\ Item(t).conn \in Used
        /\ Item(t)' = Item(t)
    BY <1>2, <1>5, <2>1
    DEF FindConnector, Item, Used, TypeInv, Types, Unused
  <2>3. old.pos \in DOMAIN old.items
    BY <2>1 DEF UnderWay, RegistrationInv, RunInv, RunPart
  <2>4. \A n \in DOMAIN old.late : old.late[n] # Item(t).conn
    BY <2>2 DEF RegistrationInv, Parts, LatePart
  <2>5. RunPart(t)'
    BY <1>0, <1>1, <1>2, <2>1, <2>3
    DEF RunPart, InRun, UnderWay, RegistrationInv, RunInv
  <2>6. SkipPart(t)'
    BY <1>1, <1>2, <2>1, <2>2, RecordsKept
    DEF Parts, SkipPart, Listed, UnderWay, RegistrationInv
  <2>7. LatePart(t)'
    BY <1>1, <1>2, <2>1, <2>2, <2>4
    DEF Parts, LatePart, Listed, GoneForGood, RegistrationInv
  <2>8. /\ \A x \in ledger : Reached(x, t)'
        /\ \A r \in Registered : Passed(r, t)'
    BY <1>0, <1>2, <2>1 DEF Reached, Passed, RegistrationInv, LedgerInv
  <2>9. RunInv' /\ LedgerInv' /\ \A u \in Thread : Parts(u)'
    BY <1>1, <1>2, <2>1, <2>5, <2>6, <2>7, <2>8, RecordsKept, RunsKept,
       LedgerKept, OthersKeep DEF Parts
  <2>. QED  BY <2>9 DEF RegistrationInv
<1>. QED  BY <1>3, <1>4, <1>5

-----------------------------------------------------------------------------
(* What TryAgain does: the handler ends, or the next attempt is due.       *)
LEMMA Retried ==
    ASSUME TypeInv, RegistrationInv, NEW t \in Thread, pc[t] = "submit",
           TryAgain(t)
    PROVE  /\ Alone(t)
           /\ \/ /\ pc'[t] = "idle"
                 /\ run'[t] = NoRun
              \/ /\ pc'[t] = "submit"
                 /\ run'[t] = [run[t] EXCEPT !.attempt = @ + 1]
<1>1. CASE run[t].attempt < Attempts
  BY <1>1 DEF TryAgain, Alone, RegistrationInv, RunInv
<1>2. CASE ~(run[t].attempt < Attempts)
  BY <1>2 DEF TryAgain, EndRun, Goto, Alone, RegistrationInv, RunInv, TypeInv,
              Types
<1>. QED  BY <1>1, <1>2

(* An attempt that the node has taken, answered or not.                    *)
LEMMA LedgerGrows ==
    ASSUME RegistrationInv, NEW t \in Thread, Alone(t), pc[t] = "submit",
           ledger' = ledger \cup {Transaction(t)},
           UNCHANGED <<records, runs>>,
           \/ pc'[t] = "store" /\ run'[t] = run[t]
           \/ pc'[t] = "idle" /\ run'[t] = NoRun
           \/ pc'[t] = "submit" /\ run'[t] = [run[t] EXCEPT !.attempt = @ + 1]
    PROVE  LedgerInv'
<1>. DEFINE new == Transaction(t)
<1>. LedgerInv /\ RunInv
  BY DEF RegistrationInv
<1>1. /\ run[t].id \in 1 .. runs /\ run[t].pos \in Nat
      /\ run[t].attempt \in Nat /\ DOMAIN run[t] = Fields
  BY DEF RunInv, RunPart, InRun
<1>2. /\ new.id = run[t].id /\ new.item = run[t].pos
      /\ new.attempt = run[t].attempt
  BY DEF Transaction
<1>3. \A u \in Thread \ {t} :
         /\ run'[u] = run[u] /\ pc'[u] = pc[u]
         /\ run[u].id # run[t].id
  BY <1>1 DEF Alone, RunInv
<1>4. \/ pc'[t] = "store" /\ run'[t] = run[t]
      \/ pc'[t] = "idle" /\ run'[t].id = 0
      \/ /\ pc'[t] = "submit"
         /\ run'[t].id = run[t].id /\ run'[t].pos = run[t].pos
         /\ run'[t].attempt = run[t].attempt + 1
  BY <1>1 DEF NoRun, Fields
<1>5. ASSUME NEW u \in Thread, pc'[u] = "store"
      PROVE  Transaction(u)' \in ledger'
  BY <1>3, <1>4, <1>5 DEF Transaction, Item, LedgerInv
<1>. HIDE DEF new
<1>6. ASSUME NEW x \in ledger'
      PROVE  /\ x.id \in 1 .. runs' /\ x.item \in Nat /\ x.attempt \in Nat
             /\ \A u \in Thread : Reached(x, u)'
  <2>1. CASE x \in ledger
    <3>1. /\ x.id \in 1 .. runs /\ x.item \in Nat /\ x.attempt \in Nat
          /\ \A u \in Thread : Reached(x, u)
      BY <2>1 DEF LedgerInv
    <3>2. Reached(x, t)'
      <4>1. Reached(x, t) /\ x.id # 0
        BY <3>1
      <4>2. CASE pc'[t] = "store" /\ run'[t] = run[t]
        BY <1>1, <3>1, <4>1, <4>2 DEF Reached
      <4>3. CASE pc'[t] = "idle" /\ run'[t].id = 0
        BY <4>1, <4>3 DEF Reached
      <4>4. CASE /\ pc'[t] = "submit"
                 /\ run'[t].id = run[t].id /\ run'[t].pos = run[t].pos
                 /\ run'[t].attempt = run[t].attempt + 1
        BY <1>1, <3>1, <4>1, <4>4 DEF Reached
      <4>. QED  BY <1>4, <4>2, <4>3, <4>4
    <3>. QED  BY <1>3, <3>1, <3>2 DEF Reached
  <2>2. CASE x = new
    <3>1. Reached(x, t)'
      BY <1>1, <1>2, <1>4, <2>2 DEF Reached
    <3>. QED  BY <1>1, <1>2, <1>3, <2>2, <3>1 DEF Reached
  <2>. QED  BY <2>1, <2>2 DEF new
<1>7. ASSUME NEW r \in Registered
      PROVE  /\ r \in ledger'
             /\ \A x \in ledger' : SameItem(x, r) => x.attempt <= r.attempt
             /\ \A u \in Thread : Passed(r, u)'
  <2>1. /\ r \in ledger
        /\ r.id \in 1 .. runs /\ r.item \in Nat
        /\ \A x \in ledger : SameItem(x, r) => x.attempt <= r.attempt
        /\ \A u \in Thread : Passed(r, u)
    BY DEF LedgerInv
  <2>2. ~SameItem(new, r)
    BY <1>1, <1>2, <2>1 DEF SameItem, Passed
  <2>3. Passed(r, t)'
    BY <1>1, <1>4, <2>1 DEF Passed
  <2>. QED  BY <1>3, <2>1, <2>2, <2>3 DEF Passed, new
<1>. QED  BY <1>5, <1>6, <1>7, RecordsKept DEF LedgerInv

(* The steps of _submit_rpc.                                               *)
LEMMA SubmitKeeps ==
    ASSUME TypeInv, RegistrationInv, GoneForGood, NEW t \in Thread,
           Submitted(t) \/ SubmitLost(t) \/ SubmitFails(t)
    PROVE  RegistrationInv'
<1>1. /\ pc[t] = "submit" /\ UNCHANGED <<records, runs>>
      /\ ledger' \in {ledger, ledger \cup {Transaction(t)}}
  BY DEF Submitted, SubmitLost, SubmitFails, Within
<1>2. /\ Alone(t)
      /\ \/ /\ pc'[t] = "store" /\ run'[t] = run[t]
            /\ ledger' = ledger \cup {Transaction(t)}
         \/ pc'[t] = "idle" /\ run'[t] = NoRun
         \/ /\ pc'[t] = "submit"
            /\ run'[t] = [run[t] EXCEPT !.attempt = @ + 1]
  <2>1. CASE Submitted(t)
    BY <2>1 DEF Submitted, Goto, Alone, RegistrationInv, RunInv, TypeInv,
                Types
  <2>2. CASE SubmitLost(t) \/ SubmitFails(t)
    BY <1>1, <2>2, Retried DEF SubmitLost, SubmitFails
  <2>. QED  BY <2>1, <2>2
<1>3. /\ DOMAIN run[t] = Fields /\ run[t].attempt \in Nat
      /\ run[t].pos \in Nat \ {0} /\ run[t].id \in 0 .. runs
      /\ run[t].id # 0 /\ run[t].pos \in DOMAIN run[t].items /\ runs \in Nat
  BY <1>1 DEF RegistrationInv, RunInv, RunPart, InRun, UnderWay
<1>4. \/ /\ pc'[t] = "idle" /\ run'[t].id = 0 /\ run'[t] = NoRun
      \/ /\ pc'[t] \in {"submit", "store"}
         /\ DOMAIN run'[t] = Fields
         /\ run'[t].id = run[t].id /\ run'[t].pos = run[t].pos
         /\ run'[t].kind = run[t].kind /\ run'[t].items = run[t].items
         /\ run'[t].before = run[t].before /\ run'[t].known = run[t].known
         /\ run'[t].late = run[t].late
         /\ run'[t].attempt \in {run[t].attempt, run[t].attempt + 1}
  <2>1. CASE pc'[t] = "store" /\ run'[t] = run[t]
    BY <1>3, <2>1
  <2>2. CASE pc'[t] = "idle" /\ run'[t] = NoRun
    BY <2>2 DEF NoRun
  <2>3. CASE /\ pc'[t] = "submit"
             /\ run'[t] = [run[t] EXCEPT !.attempt = @ + 1]
    BY <1>3, <2>3 DEF Fields
  <2>. QED  BY <1>2, <2>1, <2>2, <2>3
<1>5. ASSUME pc'[t] = "idle", run'[t] = NoRun
      PROVE  RunPart(t)' /\ Parts(t)'
  <2>1. RunPart(t)'
    BY <1>1, <1>3, <1>5 DEF RunPart, InRun, UnderWay, NoRun, Fields
  <2>2. Parts(t)'
    BY <1>5, NothingLate
    DEF Parts, SkipPart, LatePart, InRun, Listed, UnderWay, NoRun
  <2>. QED  BY <2>1, <2>2
<1>6. ASSUME pc'[t] \in {"submit", "store"}
      PROVE  RunPart(t)' /\ Parts(t)'
  <2>1. RunPart(t)'
    BY <1>1, <1>3, <1>4, <1>6 DEF RunPart
  <2>2. Item(t)' = Item(t)
    BY <1>4, <1>6 DEF Item
  <2>3. SkipPart(t)'
    BY <1>1, <1>4, <1>6, <2>2, RecordsKept
    DEF SkipPart, Listed, UnderWay, RegistrationInv, Parts
  <2>4. LatePart(t)'
    BY <1>1, <1>4, <1>6, <2>2
    DEF LatePart, Listed, GoneForGood, RegistrationInv, Parts
  <2>. QED  BY <2>1, <2>3, <2>4 DEF Parts
<1>7. RunPart(t)' /\ Parts(t)'
  BY <1>4, <1>5, <1>6
<1>8. LedgerInv'
  <2>1. CASE ledger' = ledger \cup {Transaction(t)}
    BY <1>1, <1>2, <2>1, LedgerGrows
  <2>2. CASE ledger' = ledger /\ pc'[t] # "store"
    <3>1. \A x \in ledger : Reached(x, t) /\ x.id # 0 /\ x.attempt \in Nat
      BY DEF RegistrationInv, LedgerInv
    <3>2. \A r \in Registered : Passed(r, t) /\ r.id # 0
      BY DEF RegistrationInv, LedgerInv
    <3>3. \/ run'[t].id = 0
          \/ /\ pc'[t] = "submit"
             /\ run'[t].id = run[t].id /\ run'[t].pos = run[t].pos
             /\ run'[t].attempt \in {run[t].attempt, run[t].attempt + 1}
      BY <1>4, <2>2
    <3>4. \A x \in ledger : Reached(x, t)'
      BY <1>1, <1>3, <3>1, <3>3 DEF Reached
    <3>5. \A r \in Registered : Passed(r, t)'
      BY <3>2, <3>3 DEF Passed
    <3>. QED  BY RecordsKept, <1>1, <1>2, <2>2, <3>4, <3>5, LedgerKept
  <2>. QED  BY <1>1, <1>2, <2>1, <2>2
<1>9. RunInv' /\ \A u \in Thread : Parts(u)'
  BY RecordsKept, <1>1, <1>2, <1>4, <1>7, RunsKept, OthersKeep
<1>. QED  BY <1>8, <1>9 DEF RegistrationInv

(* Another connector comes to those that a request went on without.        *)
LEMMA OneMoreLate ==
    ASSUME NEW s \in Seq(Connector), IsInjective(s), NEW c \in Connector,
           \A n \in DOMAIN s : s[n] # c
    PROVE  /\ Append(s, c) \in Seq(Connector)
           /\ IsInjective(Append(s, c))
           /\ \A n \in DOMAIN Append(s, c) :
                 Append(s, c)[n] = c \/ \E m \in DOMAIN s : Append(s, c)[n] = s[m]
<1>1. /\ Append(s, c) \in Seq(Connector) /\ Len(s) \in Nat
      /\ DOMAIN s = 1 .. Len(s)
      /\ DOMAIN Append(s, c) = 1 .. Len(s) + 1
      /\ Append(s, c)[Len(s) + 1] = c
      /\ \A n \in 1 .. Len(s) : Append(s, c)[n] = s[n]
  OBVIOUS
<1>2. \A n \in DOMAIN Append(s, c) : n = Len(s) + 1 \/ n \in DOMAIN s
  BY <1>1
<1>3. ASSUME NEW n \in DOMAIN Append(s, c), NEW m \in DOMAIN Append(s, c),
             Append(s, c)[n] = Append(s, c)[m]
      PROVE  n = m
  BY <1>1, <1>2, <1>3 DEF IsInjective
<1>4. IsInjective(Append(s, c))
  BY <1>3 DEF IsInjective
<1>. QED  BY <1>1, <1>2, <1>4

(* A registration is stored.                                               *)
LEMMA StoreKeeps ==
    ASSUME TypeInv, RegistrationInv, GoneForGood, NEW t \in Thread, Store(t)
    PROVE  RegistrationInv'
<1>0. PICK new : new = Transaction(t)
  OBVIOUS
<1>1. /\ pc[t] = "store" /\ pc'[t] = "save" /\ job'[t].next = "item"
      /\ Alone(t)
      /\ regs' = regs \cup {new}
      /\ UNCHANGED <<ledger, saved, drawn, runs, connected>>
  <2>1. pc[t] = "store" /\ regs' = regs \cup {new}
        /\ UNCHANGED <<ledger, saved, drawn, runs, connected>>
    BY <1>0 DEF Store, Within, Aside, accounts, Record
  <2>2. pc'[t] = "save" /\ \A u \in Thread \ {t} : pc'[u] = pc[u]
    BY DEF Store, SaveThen, Goto, TypeInv, Types
  <2>3. job' = [job EXCEPT ![t].next = "item"] /\ job \in [Thread -> Local]
    BY DEF Store, SaveThen, TypeInv, Types
  <2>4. job'[t].next = "item" /\ \A u \in Thread \ {t} : job'[u] = job[u]
    BY <2>3 DEF Local
  <2>5. run' = [run EXCEPT ![t] = run'[t]]
    BY DEF Store, RegistrationInv, RunInv
  <2>. QED  BY <2>1, <2>2, <2>4, <2>5 DEF Alone
<1>2. /\ DOMAIN run[t] = Fields /\ run[t].attempt \in Nat
      /\ run[t].pos \in Nat \ {0} /\ run[t].id \in 0 .. runs
      /\ run[t].id # 0 /\ run[t].pos \in DOMAIN run[t].items /\ runs \in Nat
  BY <1>1 DEF RegistrationInv, RunInv, RunPart, InRun, UnderWay
<1>3. /\ Item(t).conn \in Used /\ run[t].late \in Seq(Connector)
      /\ IsInjective(run[t].late)
      /\ \A n \in DOMAIN run[t].late : run[t].late[n] \in Used \ connected
      /\ \A n \in DOMAIN run[t].late : run[t].late[n] # Item(t).conn
  BY <1>1 DEF RegistrationInv, Parts, LatePart
<1>4. run' = [run EXCEPT ![t].pos = @ + 1,
                         ![t].owner = None,
                         ![t].attempt = 1,
                         ![t].late = IF Item(t).conn \in connected
                                     THEN @ ELSE Append(@, Item(t).conn)]
  BY DEF Store
<1>5. /\ DOMAIN run'[t] = Fields
      /\ run'[t].id = run[t].id /\ run'[t].pos = run[t].pos + 1
      /\ run'[t].kind = run[t].kind /\ run'[t].items = run[t].items
      /\ run'[t].before = run[t].before /\ run'[t].known = run[t].known
      /\ run'[t].attempt = 1
      /\ run'[t].late = IF Item(t).conn \in connected THEN run[t].late
                        ELSE Append(run[t].late, Item(t).conn)
  BY <1>2, <1>3, <1>4 DEF Fields, RegistrationInv, RunInv
<1>6. RunPart(t)'
  BY <1>1, <1>2, <1>5 DEF RunPart, UnderWay
<1>7. SkipPart(t)'
  <2>1. Contents(regs) \subseteq Contents(regs')
    BY <1>1 DEF Contents
  <2>2. Listed(t) /\ ~UnderWay(t)' /\ SkipPart(t)
    BY <1>1 DEF Listed, UnderWay, RegistrationInv, Parts
  <2>. QED  BY <1>5, <2>1, <2>2 DEF SkipPart
<1>8. LatePart(t)'
  <2>1. Used \subseteq Used' /\ Item(t).conn \in Connector
    BY <1>3 DEF GoneForGood, Used
  <2>2. /\ run'[t].late \in Seq(Connector) /\ IsInjective(run'[t].late)
        /\ \A n \in DOMAIN run'[t].late :
              run'[t].late[n] \in Used \ connected
    <3>1. CASE Item(t).conn \in connected
      BY <1>3, <1>5, <3>1
    <3>2. CASE Item(t).conn \notin connected
      <4>. DEFINE s == run[t].late
                  c == Item(t).conn
      <4>1. /\ s \in Seq(Connector) /\ IsInjective(s) /\ c \in Used \ connected
            /\ c \in Connector /\ \A n \in DOMAIN s : s[n] # c
            /\ \A n \in DOMAIN s : s[n] \in Used \ connected
        BY <1>3, <2>1, <3>2
      <4>2. run'[t].late = Append(s, c)
        BY <1>5, <3>2
      <4>. HIDE DEF s, c
      <4>. QED  BY <4>1, <4>2, OneMoreLate
    <3>. QED  BY <3>1, <3>2
  <2>. QED  BY <1>1, <2>1, <2>2 DEF LatePart
<1>9. LedgerInv'
  <2>. LedgerInv
    BY DEF RegistrationInv
  <2>1. /\ new.id = run[t].id /\ new.item = run[t].pos
        /\ new.attempt = run[t].attempt
        /\ new \in ledger
    BY <1>0, <1>1 DEF Transaction, LedgerInv
  <2>2. \A u \in Thread \ {t} : /\ run'[u] = run[u] /\ pc'[u] = pc[u]
                               /\ run[u].id # run[t].id
    BY <1>1, <1>2 DEF Alone, RegistrationInv, RunInv
  <2>3. ASSUME NEW x \in ledger
        PROVE  /\ x.id \in 1 .. runs /\ x.item \in Nat /\ x.attempt \in Nat
               /\ \A u \in Thread : Reached(x, u)'
    <3>1. /\ x.id \in 1 .. runs /\ x.item \in Nat /\ x.attempt \in Nat
          /\ \A u \in Thread : Reached(x, u)
      BY DEF LedgerInv
    <3>2. Reached(x, t)'
      BY <1>1, <1>2, <1>5, <3>1 DEF Reached
    <3>. QED  BY <2>2, <3>1, <3>2 DEF Reached
  <2>4. ASSUME NEW u \in Thread, pc'[u] = "store"
        PROVE  Transaction(u)' \in ledger
    BY <1>1, <2>2, <2>4 DEF Transaction, Item, LedgerInv
  <2>5. ASSUME NEW r \in Registered
        PROVE  /\ r \in ledger
               /\ \A x \in ledger : SameItem(x, r) => x.attempt <= r.attempt
               /\ \A u \in Thread : Passed(r, u)'
    <3>1. /\ r \in ledger /\ r.item \in Nat
          /\ \A x \in ledger : SameItem(x, r) => x.attempt <= r.attempt
          /\ \A u \in Thread : Passed(r, u)
      BY DEF LedgerInv
    <3>2. Passed(r, t)'
      BY <1>2, <1>5, <3>1 DEF Passed
    <3>. QED  BY <2>2, <3>1, <3>2 DEF Passed
  <2>6. /\ \A x \in ledger : SameItem(x, new) => x.attempt <= new.attempt
        /\ \A u \in Thread : Passed(new, u)'
    <3>1. \A x \in ledger : Reached(x, t)
      BY DEF LedgerInv
    <3>2. \A x \in ledger : SameItem(x, new) => x.attempt <= new.attempt
      BY <1>1, <2>1, <3>1 DEF Reached, SameItem
    <3>3. Passed(new, t)'
      BY <1>2, <1>5, <2>1 DEF Passed
    <3>. QED  BY <2>1, <2>2, <3>2, <3>3 DEF Passed
  <2>7. Registered' = Registered \cup {new}
    BY <1>1 DEF Registered
  <2>. QED  BY <1>1, <2>1, <2>3, <2>4, <2>5, <2>6, <2>7 DEF LedgerInv
<1>10. RunInv' /\ \A u \in Thread : Parts(u)'
  BY <1>1, <1>5, <1>6, <1>7, <1>8, RunsKept, OthersKeep DEF Parts
<1>. QED  BY <1>9, <1>10 DEF RegistrationInv

(* The process dies, and with it every request.                            *)
LEMMA RestartKeeps ==
    ASSUME RegistrationInv, RestartAll
    PROVE  RegistrationInv'
<1>1. /\ run' = [t \in Thread |-> NoRun]
      /\ \A t \in Thread : pc'[t] = "idle"
      /\ regs' = saved /\ UNCHANGED <<ledger, saved, runs>>
      /\ drawn' = [t \in Thread |-> {}] /\ Registered' \subseteq Registered
      /\ runs \in Nat
  BY DEF RestartAll, Restart, RegistrationInv, RunInv, Registered
<1>2. RunInv'
  BY <1>1 DEF RunInv, RunPart, InRun, UnderWay, NoRun, Fields
<1>3. ASSUME NEW t \in Thread PROVE Parts(t)'
  BY <1>1, NothingLate DEF Parts, SkipPart, LatePart, NoRun
<1>4. LedgerInv'
  BY <1>1 DEF LedgerInv, Reached, Passed, NoRun, RegistrationInv
<1>. QED  BY <1>2, <1>3, <1>4 DEF RegistrationInv

-----------------------------------------------------------------------------
(* Every step keeps the invariant.                                         *)
LEMMA RegistrationNext ==
    ASSUME TypeInv, DrawnInv, RegistrationInv, [Next]_allVars
    PROVE  RegistrationInv'
<1>0. pc = [u \in Thread |-> pc[u]]
  BY DEF TypeInv, Types
<1>1. CASE Arrival
  <2>. GoneForGood
    BY <1>1, Gone
  <2>1. ASSUME NEW t \in Pool, VaultRequest(t)
        PROVE  RegistrationInv'
    BY <2>1, OutsideRequests, OutsideKeeps DEF Pool, RegistrationInv
  <2>2. ASSUME NEW t \in Pool, NEW c \in Connector, Sync(t, c)
        PROVE  RegistrationInv'
    <3>1. /\ t \in Thread /\ Begin(t, "sync", <<>>) /\ Goto(t, "vault")
          /\ \A u \in Thread \ {t} : job'[u] = job[u]
          /\ UNCHANGED <<ledger, records>>
      BY <2>2 DEF Sync, Pool, TypeInv, Types
    <3>. QED  BY <1>0, <3>1, Begins
  <2>3. ASSUME NEW t \in Pool, NEW c \in Connector, NEW m \in Content,
               Post(t, c, m)
        PROVE  RegistrationInv'
    <3>. DEFINE items == <<[conn |-> c, content |-> m]>>
    <3>1. /\ t \in Thread /\ Begin(t, "post", items) /\ Goto(t, "lookup")
          /\ \A u \in Thread \ {t} : job'[u] = job[u]
          /\ UNCHANGED <<ledger, records>>
      BY <2>3 DEF Post, Pool
    <3>2. 1 \in DOMAIN items
      OBVIOUS
    <3>. HIDE DEF items
    <3>. QED  BY <1>0, <3>1, <3>2, Begins
  <2>4. ASSUME NEW d \in Deliveries, Webhook(d)
        PROVE  RegistrationInv'
    <3>. DEFINE items == ExtractEvents(d.events)
    <3>1. /\ Begin(Loop, "webhook", items) /\ Goto(Loop, "item")
          /\ \A u \in Thread \ {Loop} : job'[u] = job[u]
          /\ UNCHANGED <<ledger, records>>
      BY <2>4 DEF Webhook
    <3>. HIDE DEF items
    <3>. QED  BY <1>0, <3>1, Begins
  <2>. QED  BY <1>1, <2>1, <2>2, <2>3, <2>4 DEF Arrival
<1>2. ASSUME NEW t \in Thread, Progress(t)
      PROVE  RegistrationInv'
  <2>. GoneForGood
    BY <1>2, Gone
  <2>1. CASE VaultStep(t) \/ VaultEnd(t) \/ CaptureAll(t) \/ InstallAll(t)
             \/ ListFails(t) \/ Finish(t)
    BY <2>1, OutsideSteps, OutsideKeeps DEF RegistrationInv
  <2>2. CASE List(t)
    BY <2>2, ListKeeps
  <2>3. CASE SkipItem(t) \/ TakeItem(t)
    BY <2>3, ItemKeeps
  <2>4. CASE Lookup(t)
    <3>1. CASE FindConnector(Item(t).conn)
      BY <2>4, <3>1, ItemKeeps
    <3>2. CASE ~FindConnector(Item(t).conn)
      <4>1. Outside(t)
        BY <2>4, <3>2, RecordsKept
        DEF RegistrationInv, RunInv, Lookup, EndRun, Goto, Within, Outside, InRun, Listed, UnderWay,
            TypeInv, Types
      <4>. QED  BY <4>1, OutsideKeeps
    <3>. QED  BY <3>1, <3>2
  <2>5. CASE Submitted(t) \/ SubmitLost(t) \/ SubmitFails(t)
    BY <2>5, SubmitKeeps
  <2>6. CASE Store(t)
    BY <2>6, StoreKeeps
  <2>. QED  BY <1>2, <2>1, <2>2, <2>3, <2>4, <2>5, <2>6 DEF Progress
<1>3. CASE TimePasses \/ UNCHANGED allVars
  <2>1. UNCHANGED <<connected, provider, pc, job, ingest>>
    BY <1>3 DEF TimePasses, Age, allVars, vaultVars, accounts
  <2>2. RunInv' /\ LedgerInv'
    BY <2>1 DEF RegistrationInv, RunInv, RunPart, InRun, UnderWay, LedgerInv,
                Reached, Passed, Transaction, Item, ingest, records,
                Registered
  <2>3. \A t \in Thread : Parts(t)'
    BY <2>1 DEF RegistrationInv, Parts, SkipPart, LatePart, InRun, Listed,
                UnderWay, Item, Used, ingest, records
  <2>. QED  BY <2>2, <2>3 DEF RegistrationInv
<1>4. CASE RestartAll
  BY <1>4, RestartKeeps
<1>. QED  BY <1>1, <1>2, <1>3, <1>4 DEF Next

(* Only saves and restarts touch what the pictures have.                   *)
LEMMA DrawnInvariant == Spec => []DrawnInv
<1>1. IngestInit => DrawnInv
  BY DEF IngestInit, DrawnInv
<1>2. ASSUME [Next]_allVars
      PROVE  \/ drawn' = drawn
             \/ \E t, x : drawn' = [drawn EXCEPT ![t] = x]
             \/ drawn' = [t \in Thread |-> {}]
  <2>. USE DEF records, ingest
  <2>1. CASE Arrival
    BY <2>1 DEF Arrival, VaultRequest, Sync, Post, Webhook
  <2>2. ASSUME NEW t \in Thread, Progress(t)
        PROVE  drawn' = drawn \/ \E x : drawn' = [drawn EXCEPT ![t] = x]
    BY <2>2 DEF Progress, VaultStep, VaultEnd, CaptureAll, InstallAll, List,
                ListFails, SkipItem, TakeItem, Finish, Lookup, Submitted,
                SubmitLost, SubmitFails, Store
  <2>3. CASE TimePasses \/ RestartAll \/ UNCHANGED allVars
    BY <2>3 DEF TimePasses, RestartAll, allVars
  <2>. QED  BY <1>2, <2>1, <2>2, <2>3 DEF Next
<1>3. DrawnInv /\ [Next]_allVars => DrawnInv'
  <2>. SUFFICES ASSUME DrawnInv, [Next]_allVars PROVE DrawnInv'
    OBVIOUS
  <2>1. CASE drawn' = drawn \/ drawn' = [t \in Thread |-> {}]
    BY <2>1 DEF DrawnInv
  <2>2. ASSUME NEW t, NEW x, drawn' = [drawn EXCEPT ![t] = x]
        PROVE  DrawnInv'
    BY <2>2 DEF DrawnInv
  <2>. QED  BY <1>2, <2>1, <2>2
<1>. QED  BY <1>1, <1>3, PTL DEF Spec

(* The inductive invariant of the registrations.                           *)
LEMMA RegistrationsInvariant == Spec => []RegistrationInv
<1>1. ConnectionInv => TypeInv
  BY DEF ConnectionInv
<1>. QED
  BY ConnectionsInvariant, DrawnInvariant, RegistrationInit, RegistrationNext, <1>1, PTL
  DEF Spec

(* Whatever answers are lost and whenever the process dies, a registration *)
(* can be verified on the chain, and names the last of the transactions    *)
(* for its item (_submit_rpc and register_media).                          *)
THEOREM RegistrationsAnchored == Spec => []EveryRegistrationAnchored
<1>1. RegistrationInv => EveryRegistrationAnchored
  BY DEF RegistrationInv, LedgerInv, EveryRegistrationAnchored, Verified,
         GetTransaction, Txid, SameItem, Registered
<1>. QED  BY RegistrationsInvariant, <1>1, PTL

(* A sync submits nothing that was registered when its request came in,    *)
(* whatever other requests register meanwhile (sync_media).                *)
THEOREM SyncsSkipKnown == Spec => []SyncSkipsKnown
<1>1. RegistrationInv => SyncSkipsKnown
  BY DEF RegistrationInv, Parts, SkipPart, Listed, UnderWay, SyncSkipsKnown
<1>. QED  BY RegistrationsInvariant, <1>1, PTL

(* Once a connector is gone, a request stores at most the item of it that  *)
(* was under way, for lists and deliveries of any length, whichever        *)
(* connectors their items name (ingest_from_connector).                    *)
THEOREM DisconnectHolds == Spec => []DisconnectStops
<1>1. RegistrationInv => DisconnectStops
  BY DEF RegistrationInv, Parts, LatePart, DisconnectStops
<1>. QED  BY RegistrationsInvariant, <1>1, PTL
-----------------------------------------------------------------------------
(* The positions in the lists, and the bounds of the instances.            *)

(* Thread t goes through a list, at one of its positions or past its end.  *)
RangePart(t) ==
    /\ Len(run[t].items) \in Nat
    /\ DOMAIN run[t].items = 1 .. Len(run[t].items)
    /\ run[t].pos \in 1 .. Len(run[t].items) + 1
    /\ run[t].attempt \in 1 .. Attempts
    /\ run[t].id # 0 => InRun(t)
    /\ ~Listed(t) => run[t].pos = 1

RangeInv ==
    /\ \A t \in Thread : RangePart(t)
    /\ \A c \in Connector : live[c] <= MaxTokens

(* An operation that goes through the first n elements, or all.            *)
LEMMA FirstItems ==
    ASSUME NEW n \in Nat
    PROVE  Min({MaxItems, n}) \in Nat
<1>1. \E x \in {MaxItems, n} : \A y \in {MaxItems, n} : x <= y
  BY IngestAssumption
<1>2. Min({MaxItems, n}) \in {MaxItems, n}
  BY <1>1 DEF Min
<1>. QED  BY <1>2, IngestAssumption

(* A list made from positions of another.                                  *)
LEMMA ChosenLength ==
    ASSUME NEW s, NEW T, s \in Seq(T), NEW positions \in SUBSET DOMAIN s
    PROVE  /\ Len(Chosen(s, positions)) \in Nat
           /\ DOMAIN Chosen(s, positions) = 1 .. Len(Chosen(s, positions))
<1>1. DOMAIN s = 1 .. Len(s) /\ Len(s) \in Nat
  OBVIOUS
<1>2. IsFiniteSet(1 .. Len(s))
  BY ONLY <1>1, FS_Interval
<1>3. Cardinality(positions) \in Nat
  BY ONLY <1>1, <1>2, FS_Subset, FS_CardinalityType
<1> DEFINE k == Cardinality(positions)
           list == Chosen(s, positions)
<1>4. list = [n \in 1 .. k |-> s[InOrder(positions)[n]]]
  BY DEF Chosen
<1>. HIDE DEF k, list
<1>5. Len(list) = k /\ DOMAIN list = 1 .. k
  BY ONLY <1>3, <1>4 DEF k
<1>. QED  BY ONLY <1>3, <1>5 DEF k, list

(* The others stay in range.                                               *)
LEMMA RangeElsewhere ==
    ASSUME RangeInv, NEW t \in Thread, RangePart(t)',
           \A u \in Thread \ {t} : /\ run'[u] = run[u] /\ pc'[u] = pc[u]
                                   /\ job'[u] = job[u]
    PROVE  \A u \in Thread : RangePart(u)'
<1>. SUFFICES ASSUME NEW u \in Thread, u # t PROVE RangePart(u)'
  OBVIOUS
<1>1. run'[u] = run[u] /\ pc'[u] = pc[u] /\ job'[u] = job[u]
  OBVIOUS
<1>2. RangePart(u)
  BY DEF RangeInv
<1>. QED  BY ONLY <1>1, <1>2 DEF RangePart, InRun, Listed

(* A handler that ends leaves nothing behind.                              *)
LEMMA RangeEnds ==
    ASSUME NEW t, run'[t] = NoRun
    PROVE  RangePart(t)'
<1>1. /\ run'[t].items = <<>> /\ run'[t].pos = 1 /\ run'[t].attempt = 1
      /\ run'[t].id = 0
  BY DEF NoRun
<1>. QED  BY <1>1 DEF RangePart

(* A handler that keeps its list and its place in it.                      *)
LEMMA RangeStays ==
    ASSUME NEW t, RangePart(t), run'[t] = run[t],
           run[t].id # 0 => InRun(t)', Listed(t) => Listed(t)'
    PROVE  RangePart(t)'
BY DEF RangePart

-----------------------------------------------------------------------------
(* Each step keeps the thread that takes it in range.                      *)
LEMMA RangeRequests ==
    ASSUME TypeInv, RegistrationInv, RangeInv, NEW t \in Pool, VaultRequest(t)
    PROVE  \A u \in Thread : RangePart(u)'
<1>1. t \in Thread /\ RangePart(t) /\ Outside(t) /\ RunInv
  BY OutsideRequests DEF RangeInv, Pool, RegistrationInv
<1>2. run' = run
  BY DEF VaultRequest, ingest
<1>3. pc[t] = "idle"
  BY DEF VaultRequest, Start, Callback, Connect, Disconnect, Arrives, Idle
<1>4. ~InRun(t) /\ ~Listed(t)
  BY <1>3 DEF InRun, Listed
<1>5. RangePart(t)'
  BY <1>1, <1>2, <1>4, RangeStays DEF RangePart
<1>6. \A u \in Thread \ {t} : pc'[u] = pc[u] /\ job'[u] = job[u]
  BY <1>1 DEF Outside
<1>. QED  BY <1>1, <1>2, <1>5, <1>6, RangeElsewhere

LEMMA RangeVault ==
    ASSUME TypeInv, DrawnInv, RegistrationInv, RangeInv, NEW t \in Thread,
           VaultStep(t) \/ CaptureAll(t) \/ InstallAll(t)
    PROVE  \A u \in Thread : RangePart(u)'
<1>1. RangePart(t) /\ Outside(t) /\ RunInv
  BY OutsideSteps DEF RangeInv, RegistrationInv
<1>2. run' = run
  BY DEF VaultStep, CaptureAll, InstallAll, ingest
<1>3. /\ pc \in [Thread -> Steps] /\ job \in [Thread -> Local]
  BY DEF TypeInv, Types
<1>4. /\ InRun(t) => InRun(t)'
      /\ Listed(t) => Listed(t)'
  <2>1. ASSUME NEW c \in Connector, Exchange(t, c)
        PROVE  ~InRun(t) /\ ~Listed(t)
    BY <2>1 DEF Exchange, InRun, Listed
  <2>2. CASE TokenFresh(t) \/ TokenStale(t) \/ Refreshed(t)
    BY <1>3, <2>2 DEF TokenFresh, TokenStale, Refreshed, Goto, InRun, Listed
  <2>3. CASE StoreToken(t)
    <3>1. pc[t] = "refreshed" /\ pc'[t] = "save" /\ job'[t].next = "token"
      BY <1>3, <2>3 DEF StoreToken, SaveThen, Goto, Local
    <3>. QED  BY <3>1 DEF InRun, Listed
  <2>4. CASE InstallAll(t)
    <3>1. pc[t] = "write" /\ (job[t].next # "idle" => pc'[t] = job[t].next)
      BY <1>3, <2>4 DEF InstallAll, Replace, Goto
    <3>2. job[t].next \in {"idle", "token", "item"}
      BY <1>3 DEF Local
    <3>. QED  BY <3>1, <3>2 DEF InRun, Listed
  <2>5. CASE CaptureAll(t)
    <3>1. pc[t] = "save" /\ pc'[t] = "write" /\ job' = job
      BY <1>3, <2>5 DEF CaptureAll, Capture, Goto
    <3>. QED  BY <3>1 DEF InRun, Listed
  <2>. QED  BY <2>1, <2>2, <2>3, <2>4, <2>5 DEF VaultStep
<1>5. RangePart(t)'
  BY <1>1, <1>2, <1>4, RangeStays DEF RangePart
<1>6. \A u \in Thread \ {t} : pc'[u] = pc[u] /\ job'[u] = job[u]
  BY <1>1 DEF Outside
<1>. QED  BY <1>1, <1>2, <1>5, <1>6, RangeElsewhere

(* Handlers that end.                                                      *)
LEMMA RangeReleased ==
    ASSUME TypeInv, RangeInv, RegistrationInv, NEW t \in Thread,
           run' = [run EXCEPT ![t] = NoRun],
           \A u \in Thread \ {t} : pc'[u] = pc[u] /\ job'[u] = job[u]
    PROVE  \A u \in Thread : RangePart(u)'
<1>1. run = [u \in Thread |-> run[u]]
  BY DEF RegistrationInv, RunInv
<1>2. run'[t] = NoRun /\ \A u \in Thread \ {t} : run'[u] = run[u]
  BY ONLY <1>1, t \in Thread, run' = [run EXCEPT ![t] = NoRun]
<1>3. RangePart(t)'
  BY <1>2, RangeEnds
<1>. QED  BY <1>2, <1>3, RangeElsewhere

(* A request begins with a list of its own.                                *)
LEMMA RangeBegins ==
    ASSUME RangeInv, RegistrationInv, NEW t \in Thread, NEW kind, NEW items,
           NEW step \in {"vault", "item", "lookup"},
           Len(items) \in Nat, DOMAIN items = 1 .. Len(items),
           Begin(t, kind, items), Goto(t, step),
           \A u \in Thread \ {t} : job'[u] = job[u],
           pc = [u \in Thread |-> pc[u]]
    PROVE  \A u \in Thread : RangePart(u)'
<1>1. run = [u \in Thread |-> run[u]]
  BY DEF RegistrationInv, RunInv
<1>2. /\ run'[t].items = items /\ run'[t].pos = 1 /\ run'[t].attempt = 1
      /\ \A u \in Thread \ {t} : run'[u] = run[u]
  BY <1>1 DEF Begin, NoRun
<1>3. pc'[t] = step /\ \A u \in Thread \ {t} : pc'[u] = pc[u]
  BY DEF Goto
<1>4. InRun(t)'
  BY <1>3 DEF InRun
<1>5. RangePart(t)'
  BY <1>2, <1>4, Len(items) \in Nat, DOMAIN items = 1 .. Len(items)
  DEF RangePart
<1>. QED  BY <1>2, <1>3, <1>5, RangeElsewhere

(* The listing of a sync, cut off after MaxItems.                          *)
LEMMA RangeListed ==
    ASSUME TypeInv, RangeInv, RegistrationInv, NEW t \in Thread, List(t)
    PROVE  \A u \in Thread : RangePart(u)'
<1>. DEFINE old == run[t]
<1>1. PICK media \in Listings :
         run' = [run EXCEPT
                    ![t].items =
                        [n \in 1 .. Min({MaxItems, Len(media)}) |->
                            [conn |-> job[t].conn, content |-> media[n]]],
                    ![t].known = KnownHashes(t)]
  BY DEF List
<1>. DEFINE k == Min({MaxItems, Len(media)})
<1>2. /\ run = [u \in Thread |-> run[u]] /\ DOMAIN old = Fields
      /\ pc \in [Thread -> Steps] /\ job \in [Thread -> Local]
  BY DEF RegistrationInv, RunInv, RunPart, TypeInv, Types
<1>3. /\ run'[t].items = [n \in 1 .. k |->
                             [conn |-> job[t].conn, content |-> media[n]]]
      /\ run'[t].pos = old.pos /\ run'[t].attempt = old.attempt
      /\ run'[t].id = old.id
      /\ \A u \in Thread \ {t} : run'[u] = run[u]
  BY <1>1, <1>2 DEF Fields
<1>4. k \in Nat
  <2>1. PICK positions \in SUBSET DOMAIN Uploads :
           media = Chosen(Uploads, positions)
    BY DEF Listings
  <2>2. Len(media) \in Nat
    BY <2>1, ChosenLength
  <2>. QED  BY <2>2, FirstItems
<1>. HIDE DEF k
<1>5. Len(run'[t].items) = k /\ DOMAIN run'[t].items = 1 .. k
  BY ONLY <1>3, <1>4
<1>6. /\ pc[t] = "token" /\ pc'[t] = "item"
      /\ \A u \in Thread \ {t} : pc'[u] = pc[u] /\ job'[u] = job[u]
  BY <1>2 DEF List, Goto
<1>7. old.pos = 1 /\ old.attempt \in 1 .. Attempts
  BY <1>6 DEF RangeInv, RangePart, Listed
<1>8. InRun(t)' /\ Listed(t)'
  BY <1>6 DEF InRun, Listed
<1>. HIDE DEF old
<1>9. RangePart(t)'
  BY ONLY <1>3, <1>4, <1>5, <1>7, <1>8 DEF RangePart
<1>. QED  BY <1>3, <1>6, <1>9, RangeElsewhere

(* A thread goes to another item or attempt of its list.                   *)
LEMMA RangeMoves ==
    ASSUME RangeInv, NEW t \in Thread, Listed(t)', InRun(t)',
           run'[t].items = run[t].items,
           run'[t].pos \in {run[t].pos, run[t].pos + 1},
           run'[t].pos # run[t].pos => run[t].pos \in DOMAIN run[t].items,
           run'[t].attempt \in 1 .. Attempts,
           \A u \in Thread \ {t} : /\ run'[u] = run[u] /\ pc'[u] = pc[u]
                                   /\ job'[u] = job[u]
    PROVE  \A u \in Thread : RangePart(u)'
<1>1. /\ Len(run[t].items) \in Nat
      /\ DOMAIN run[t].items = 1 .. Len(run[t].items)
      /\ run[t].pos \in 1 .. Len(run[t].items) + 1
  BY DEF RangeInv, RangePart
<1>2. run'[t].pos \in 1 .. Len(run[t].items) + 1
  BY <1>1
<1>3. RangePart(t)'
  BY ONLY <1>1, <1>2, Listed(t)', InRun(t)', run'[t].items = run[t].items,
          run'[t].attempt \in 1 .. Attempts
  DEF RangePart
<1>. QED  BY <1>3, RangeElsewhere

LEMMA RangeItems ==
    ASSUME TypeInv, RangeInv, RegistrationInv, NEW t \in Thread,
           \/ SkipItem(t) \/ TakeItem(t) \/ Submitted(t) \/ Store(t)
           \/ Lookup(t) /\ FindConnector(Item(t).conn)
           \/ (SubmitLost(t) \/ SubmitFails(t)) /\ run[t].attempt < Attempts
    PROVE  \A u \in Thread : RangePart(u)'
<1>1. /\ run = [u \in Thread |-> run[u]] /\ DOMAIN run[t] = Fields
      /\ pc \in [Thread -> Steps] /\ job \in [Thread -> Local]
      /\ run[t].attempt \in 1 .. Attempts
      /\ UnderWay(t) => run[t].pos \in DOMAIN run[t].items
      /\ Attempts \in Nat \ {0}
  BY IngestAssumption
  DEF RegistrationInv, RunInv, RunPart, TypeInv, Types, RangeInv, RangePart
<1>2. CASE SkipItem(t)
  <2>1. /\ run' = [run EXCEPT ![t].pos = @ + 1] /\ pc[t] = "item"
        /\ run[t].pos \in DOMAIN run[t].items /\ UNCHANGED <<pc, job>>
    BY <1>2 DEF SkipItem, AtItem
  <2>2. /\ run'[t].items = run[t].items /\ run'[t].pos = run[t].pos + 1
        /\ run'[t].attempt = run[t].attempt
        /\ \A u \in Thread \ {t} : run'[u] = run[u]
    BY ONLY <1>1, <2>1, t \in Thread DEF Fields
  <2>3. Listed(t)' /\ InRun(t)'
    BY ONLY <2>1 DEF Listed, InRun
  <2>. QED  BY <1>1, <2>1, <2>2, <2>3, RangeMoves
<1>3. CASE TakeItem(t) \/ Submitted(t)
  <2>1. run' = run /\ job' = job /\ pc'[t] \in {"lookup", "store"}
        /\ \A u \in Thread \ {t} : pc'[u] = pc[u]
    BY <1>1, <1>3 DEF TakeItem, Submitted, Goto
  <2>2. Listed(t)' /\ InRun(t)'
    BY ONLY <2>1 DEF Listed, InRun
  <2>3. /\ run'[t].items = run[t].items /\ run'[t].pos = run[t].pos
        /\ run'[t].attempt \in 1 .. Attempts
        /\ \A u \in Thread \ {t} : /\ run'[u] = run[u] /\ pc'[u] = pc[u]
                                   /\ job'[u] = job[u]
    BY ONLY <1>1, <2>1
  <2>. QED  BY ONLY RangeInv, t \in Thread, <2>2, <2>3, RangeMoves
<1>4. CASE Store(t)
  <2>1. /\ run' = [run EXCEPT ![t].pos = @ + 1,
                              ![t].owner = None,
                              ![t].attempt = 1,
                              ![t].late = IF Item(t).conn \in connected
                                          THEN @ ELSE Append(@, Item(t).conn)]
        /\ pc[t] = "store" /\ pc' = [pc EXCEPT ![t] = "save"]
        /\ job' = [job EXCEPT ![t].next = "item"]
    BY <1>4 DEF Store, SaveThen, Goto
  <2>2. /\ run'[t].items = run[t].items /\ run'[t].pos = run[t].pos + 1
        /\ run'[t].attempt = 1
        /\ \A u \in Thread \ {t} : run'[u] = run[u]
    BY ONLY <1>1, <2>1, t \in Thread DEF Fields
  <2>3. /\ pc'[t] = "save" /\ job'[t].next = "item"
        /\ \A u \in Thread \ {t} : pc'[u] = pc[u] /\ job'[u] = job[u]
    BY ONLY <1>1, <2>1, t \in Thread DEF Local
  <2>4. Listed(t)' /\ InRun(t)'
    BY ONLY <2>3 DEF Listed, InRun
  <2>5. run[t].pos \in DOMAIN run[t].items
    BY <1>1, <2>1 DEF UnderWay
  <2>6. /\ run'[t].pos \in {run[t].pos, run[t].pos + 1}
        /\ run'[t].attempt \in 1 .. Attempts
    BY ONLY <1>1, <2>2
  <2>7. \A u \in Thread \ {t} : /\ run'[u] = run[u] /\ pc'[u] = pc[u]
                                /\ job'[u] = job[u]
    BY ONLY <2>2, <2>3, Zenon
  <2>8. run'[t].items = run[t].items
    BY ONLY <2>2
  <2>9. run'[t].pos # run[t].pos => run[t].pos \in DOMAIN run[t].items
    BY ONLY <2>5
  <2>. QED
    BY ONLY RangeInv, t \in Thread, <2>4, <2>6, <2>7, <2>8, <2>9, RangeMoves,
            Zenon
<1>5. CASE Lookup(t) /\ FindConnector(Item(t).conn)
  <2>1. /\ run' = [run EXCEPT ![t].owner = Item(t).conn, ![t].attempt = 1]
        /\ pc' = [pc EXCEPT ![t] = "submit"] /\ job' = job
    BY <1>5 DEF Lookup, Goto
  <2>2. /\ run'[t].items = run[t].items /\ run'[t].pos = run[t].pos
        /\ run'[t].attempt = 1
        /\ \A u \in Thread \ {t} : run'[u] = run[u]
    BY ONLY <1>1, <2>1, t \in Thread DEF Fields
  <2>3. pc'[t] = "submit" /\ \A u \in Thread \ {t} : pc'[u] = pc[u]
    BY ONLY <1>1, <2>1, t \in Thread
  <2>4. Listed(t)' /\ InRun(t)'
    BY ONLY <2>3 DEF Listed, InRun
  <2>5. /\ run'[t].pos \in {run[t].pos, run[t].pos + 1}
        /\ run'[t].attempt \in 1 .. Attempts
        /\ run'[t].pos # run[t].pos => run[t].pos \in DOMAIN run[t].items
    BY ONLY <1>1, <2>2
  <2>6. \A u \in Thread \ {t} : /\ run'[u] = run[u] /\ pc'[u] = pc[u]
                                /\ job'[u] = job[u]
    BY ONLY <2>1, <2>2, <2>3, Zenon
  <2>7. run'[t].items = run[t].items
    BY ONLY <2>2
  <2>. QED
    BY ONLY RangeInv, t \in Thread, <2>4, <2>5, <2>6, <2>7, RangeMoves, Zenon
<1>6. CASE (SubmitLost(t) \/ SubmitFails(t)) /\ run[t].attempt < Attempts
  <2>1. /\ run' = [run EXCEPT ![t].attempt = @ + 1] /\ UNCHANGED <<pc, job>>
        /\ pc[t] = "submit"
    BY <1>6 DEF SubmitLost, SubmitFails, TryAgain
  <2>2. /\ run'[t].items = run[t].items /\ run'[t].pos = run[t].pos
        /\ run'[t].attempt = run[t].attempt + 1
        /\ \A u \in Thread \ {t} : run'[u] = run[u]
    BY ONLY <1>1, <2>1, t \in Thread DEF Fields
  <2>3. run'[t].attempt \in 1 .. Attempts
    BY ONLY <1>1, <1>6, <2>2
  <2>4. Listed(t)' /\ InRun(t)'
    BY ONLY <2>1 DEF Listed, InRun
  <2>. QED  BY <1>1, <2>1, <2>2, <2>3, <2>4, RangeMoves
<1>. QED  BY <1>2, <1>3, <1>4, <1>5, <1>6

(* No platform goes beyond the generations that are explored.              *)
LEMMA LiveKept ==
    ASSUME TypeInv, RangeInv, [Next]_allVars
    PROVE  \A c \in Connector : live'[c] <= MaxTokens
<1>1. /\ MaxTokens \in Nat \ {0} /\ job \in [Thread -> Local]
      /\ live = [c \in Connector |-> live[c]]
      /\ \A c \in Connector : live[c] <= MaxTokens
  BY VaultAssumption DEF TypeInv, Types, RangeInv
<1>2. \/ live' = live
      \/ \E c : live' = [live EXCEPT ![c] = 1]
      \/ \E c : Served(c) <= MaxTokens /\ live' = [live EXCEPT ![c] = Served(c)]
  <2>. USE DEF grants
  <2>1. CASE Arrival
    BY <2>1 DEF Arrival, VaultRequest, Start, Callback, Connect, Disconnect,
                Sync, Post, Webhook, Aside
  <2>2. ASSUME NEW t \in Thread, Progress(t)
        PROVE  \/ live' = live
               \/ \E c : live' = [live EXCEPT ![c] = 1]
               \/ \E c : /\ Served(c) <= MaxTokens
                        /\ live' = [live EXCEPT ![c] = Served(c)]
    <3>1. CASE VaultStep(t)
      BY <3>1 DEF VaultStep, Exchange, TokenFresh, TokenStale, Refreshed,
                  StoreToken
    <3>2. CASE VaultEnd(t) \/ CaptureAll(t) \/ InstallAll(t)
      BY <3>2 DEF VaultEnd, CaptureAll, InstallAll, Prune, ExchangeFails,
                  TokenMissing, RefreshLost, RefreshFails, SaveFails,
                  Capture, Replace
    <3>3. CASE \/ List(t) \/ ListFails(t) \/ SkipItem(t) \/ TakeItem(t)
               \/ Finish(t) \/ Lookup(t) \/ Submitted(t) \/ SubmitLost(t)
               \/ SubmitFails(t) \/ Store(t)
      BY <3>3 DEF List, ListFails, SkipItem, TakeItem, Finish, Lookup,
                  Submitted, SubmitLost, SubmitFails, Store, Within, Aside
    <3>. QED  BY <2>2, <3>1, <3>2, <3>3 DEF Progress
  <2>3. CASE TimePasses \/ RestartAll \/ UNCHANGED allVars
    BY <2>3 DEF TimePasses, Age, RestartAll, Restart, allVars, vaultVars
  <2>. QED  BY <2>1, <2>2, <2>3 DEF Next
<1>3. CASE live' = live
  BY ONLY <1>1, <1>3
<1>4. ASSUME NEW c, live' = [live EXCEPT ![c] = 1]
      PROVE  \A d \in Connector : live'[d] <= MaxTokens
  BY ONLY <1>1, <1>4
<1>5. ASSUME NEW c, Served(c) <= MaxTokens,
             live' = [live EXCEPT ![c] = Served(c)]
      PROVE  \A d \in Connector : live'[d] <= MaxTokens
  BY ONLY <1>1, <1>5
<1>. QED  BY <1>2, <1>3, <1>4, <1>5

(* Every step keeps the ranges.                                            *)
LEMMA RangeNext ==
    ASSUME TypeInv, DrawnInv, RegistrationInv, RangeInv, [Next]_allVars
    PROVE  RangeInv'
<1>1. pc = [u \in Thread |-> pc[u]] /\ pc \in [Thread -> Steps]
      /\ job \in [Thread -> Local] /\ run = [u \in Thread |-> run[u]]
  BY DEF TypeInv, Types, RegistrationInv, RunInv
<1>2. CASE Arrival
  <2>1. ASSUME NEW t \in Pool, VaultRequest(t)
        PROVE  \A u \in Thread : RangePart(u)'
    BY <2>1, RangeRequests
  <2>2. ASSUME NEW t \in Pool, NEW c \in Connector, Sync(t, c)
        PROVE  \A u \in Thread : RangePart(u)'
    <3>1. /\ t \in Thread /\ Begin(t, "sync", <<>>) /\ Goto(t, "vault")
          /\ \A u \in Thread \ {t} : job'[u] = job[u]
      BY <1>1, <2>2 DEF Sync, Pool
    <3>2. Len(<<>>) = 0 /\ DOMAIN <<>> = 1 .. 0
      OBVIOUS
    <3>. QED  BY <1>1, <3>1, <3>2, RangeBegins
  <2>3. ASSUME NEW t \in Pool, NEW c \in Connector, NEW m \in Content,
               Post(t, c, m)
        PROVE  \A u \in Thread : RangePart(u)'
    <3>. DEFINE items == <<[conn |-> c, content |-> m]>>
    <3>1. /\ t \in Thread /\ Begin(t, "post", items) /\ Goto(t, "lookup")
          /\ \A u \in Thread \ {t} : job'[u] = job[u]
      BY <2>3 DEF Post, Pool
    <3>2. Len(items) = 1 /\ DOMAIN items = 1 .. 1
      OBVIOUS
    <3>. HIDE DEF items
    <3>. QED  BY <1>1, <3>1, <3>2, RangeBegins
  <2>4. ASSUME NEW d \in Deliveries, Webhook(d)
        PROVE  \A u \in Thread : RangePart(u)'
    <3>. DEFINE kept == {n \in DOMAIN d.events : d.events[n].content # None}
                items == ExtractEvents(d.events)
    <3>1. /\ Begin(Loop, "webhook", items) /\ Goto(Loop, "item")
          /\ \A u \in Thread \ {Loop} : job'[u] = job[u]
          /\ Loop \in Thread
      BY <2>4, IngestAssumption DEF Webhook
    <3>2. Len(items) \in Nat /\ DOMAIN items = 1 .. Len(items)
      <4>1. /\ d.events \in Seq([conn : Connector \cup {None},
                                 content : Content \cup {None}])
            /\ kept \in SUBSET DOMAIN d.events
            /\ items = Chosen(d.events, kept)
        BY IngestAssumption DEF ExtractEvents
      <4>. HIDE DEF kept, items
      <4>. QED  BY ONLY <4>1, ChosenLength
    <3>. HIDE DEF items
    <3>. QED  BY <1>1, <3>1, <3>2, RangeBegins
  <2>. QED  BY <1>2, <2>1, <2>2, <2>3, <2>4, LiveKept DEF Arrival, RangeInv
<1>3. ASSUME NEW t \in Thread, Progress(t)
      PROVE  RangeInv'
  <2>1. CASE VaultStep(t) \/ CaptureAll(t) \/ InstallAll(t)
    BY <2>1, RangeVault, LiveKept DEF RangeInv
  <2>2. CASE VaultEnd(t) \/ ListFails(t) \/ Finish(t)
    <3>1. run' = [run EXCEPT ![t] = NoRun]
      BY <2>2 DEF VaultEnd, ListFails, Finish, EndRun
    <3>2. \A u \in Thread \ {t} : pc'[u] = pc[u] /\ job'[u] = job[u]
      BY <2>2, OutsideSteps DEF Outside, RegistrationInv
    <3>. QED  BY <3>1, <3>2, RangeReleased, LiveKept DEF RangeInv
  <2>3. CASE List(t)
    BY <2>3, RangeListed, LiveKept DEF RangeInv
  <2>4. CASE \/ SkipItem(t) \/ TakeItem(t) \/ Submitted(t) \/ Store(t)
             \/ Lookup(t) /\ FindConnector(Item(t).conn)
             \/ /\ SubmitLost(t) \/ SubmitFails(t)
                /\ run[t].attempt < Attempts
    BY <2>4, RangeItems, LiveKept DEF RangeInv
  <2>5. CASE \/ Lookup(t) /\ ~FindConnector(Item(t).conn)
             \/ /\ SubmitLost(t) \/ SubmitFails(t)
                /\ ~(run[t].attempt < Attempts)
    <3>1. EndRun(t)
      BY <2>5 DEF Lookup, SubmitLost, SubmitFails, TryAgain
    <3>2. \A u \in Thread \ {t} : pc'[u] = pc[u] /\ job'[u] = job[u]
      BY <1>1, <3>1 DEF EndRun, Goto
    <3>. QED  BY <3>1, <3>2, RangeReleased, LiveKept DEF RangeInv, EndRun
  <2>. QED  BY <1>3, <2>1, <2>2, <2>3, <2>4, <2>5 DEF Progress
<1>4. CASE TimePasses \/ UNCHANGED allVars
  <2>1. UNCHANGED <<pc, job, run>>
    BY <1>4 DEF TimePasses, Age, allVars, vaultVars, ingest
  <2>2. ASSUME NEW t \in Thread PROVE RangePart(t)'
    BY <2>1 DEF RangeInv, RangePart, InRun, Listed
  <2>. QED  BY <2>2, LiveKept DEF RangeInv
<1>5. CASE RestartAll
  <2>1. ASSUME NEW t \in Thread PROVE RangePart(t)'
    <3>1. run'[t] = NoRun
      BY <1>5 DEF RestartAll
    <3>. QED  BY <3>1, RangeEnds
  <2>. QED  BY <2>1, LiveKept DEF RangeInv
<1>. QED  BY <1>2, <1>3, <1>4, <1>5 DEF Next

(* Every variable keeps to its domain: each handler is at a position of    *)
(* its list or just past it, and within the attempts of _submit_rpc, and   *)
(* a request that ingests is never left without its handler (sync.py,      *)
(* webhooks.py, hikmalayer.py).                                            *)
THEOREM IngestTypeCorrect == Spec => []TypeOK
<1>1. IngestInit => RangeInv
  <2>. SUFFICES ASSUME IngestInit PROVE RangeInv
    OBVIOUS
  <2>1. \A t \in Thread : run[t] = NoRun
    BY DEF IngestInit
  <2>2. ASSUME NEW t \in Thread PROVE RangePart(t)
    BY <2>1, IngestAssumption DEF RangePart, NoRun
  <2>3. \A c \in Connector : live[c] <= MaxTokens
    BY VaultAssumption DEF IngestInit, VaultInit
  <2>. QED  BY <2>2, <2>3 DEF RangeInv
<1>2. ConnectionInv => TypeInv
  BY DEF ConnectionInv
<1>3. Spec => []RangeInv
  BY ConnectionsInvariant, DrawnInvariant, RegistrationsInvariant, RangeNext, <1>1, <1>2, PTL
  DEF Spec
<1>4. ConnectionInv /\ RangeInv => TypeOK
  <2>. SUFFICES ASSUME ConnectionInv, RangeInv PROVE TypeOK
    OBVIOUS
  <2>1. /\ flow \subseteq State /\ connected \subseteq Connector
        /\ vault \in [Connector -> Nat] /\ live \in [Connector -> Nat]
        /\ job \in [Thread -> Local]
    BY DEF ConnectionInv, TypeInv, Types
  <2>2. \A c \in Connector : vault[c] <= live[c] /\ live[c] <= MaxTokens
    BY DEF ConnectionInv, TokenParts, TokenInv, RangeInv
  <2>3. MaxTokens \in Nat
    BY VaultAssumption
  <2>4. /\ vault \in [Connector -> 0 .. MaxTokens]
        /\ live \in [Connector -> 0 .. MaxTokens]
    BY ONLY <2>1, <2>2, <2>3
  <2>5. ASSUME NEW t \in Thread
        PROVE  /\ job[t].conn \in Connector \cup {None}
               /\ run[t].attempt \in 1 .. Attempts
               /\ run[t].pos \in 1 .. Len(run[t].items) + 1
               /\ Busy(t) => ~Idle(t)
    <3>1. job[t].conn \in Connector \cup {None}
      BY <2>1 DEF Local
    <3>2. RangePart(t)
      BY DEF RangeInv
    <3>3. InRun(t) => ~Idle(t)
      BY DEF InRun, Idle
    <3>. QED  BY <3>1, <3>2, <3>3 DEF RangePart, Busy
  <2>. QED  BY <2>1, <2>4, <2>5 DEF TypeOK
<1>. QED  BY ConnectionsInvariant, <1>3, <1>4, PTL
=============================================================================
