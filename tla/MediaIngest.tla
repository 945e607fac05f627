----------------------------- MODULE MediaIngest ----------------------------
(***************************************************************************)
(* What arrives over the connections of PlatformVault: a sync that pulls   *)
(* the media of a platform (integrations/sync.py), events that a platform  *)
(* pushes (integrations/webhooks.py), and single items posted to           *)
(* /api/connectors/ingest.  Each goes through ingest_from_connector and    *)
(* register_media, which submits a transaction to the Hikmalayer node      *)
(* (hikmalayer.py, rpc mode) before it stores the registration.            *)
(*                                                                         *)
(* A handler that raises ends with a 500, whatever it has done so far.     *)
(* Webhooks run on the event loop itself, one at a time.  While one runs   *)
(* the loop hands no request to the thread pool, but what it has handed    *)
(* over before may start there at any time; a request begins here when its *)
(* handler does.                                                           *)
(***************************************************************************)
EXTENDS PlatformVault, Sequences, SequencesExt, Functions, FiniteSetsExt

CONSTANTS
    Loop,          \* the thread of the event loop
    Content,       \* media, told apart by their hashes
    Uploads,       \* what a platform lists, in its order
    Deliveries,    \* what platforms push: credentials and events, each with
                   \* a connector and a medium, None if it does not name one
    Signing,       \* whether a secret to check signatures is configured
    MaxRuns,       \* bound on the number of requests that ingest
    MaxItems,      \* MAX_ITEMS_PER_SYNC
    Attempts       \* submissions of one transaction: 1 + len(RETRY_DELAYS)

ASSUME IngestAssumption ==
    /\ Loop \in Thread
    /\ None \notin Content
    /\ Uploads \in Seq(Content)
    /\ \A d \in Deliveries :
          /\ {d.signature, d.secret} \subseteq {"none", "valid", "invalid"}
          /\ d.events \in Seq([conn : Connector \cup {None},
                               content : Content \cup {None}])
    /\ Signing \in BOOLEAN
    /\ MaxRuns \in Nat
    /\ MaxItems \in Nat
    /\ Attempts \in Nat \ {0}

VARIABLES
    ledger,   \* the transactions of the Hikmalayer node
    regs,     \* registrations in memory
    saved,    \* registrations in the snapshot file
    drawn,    \* drawn[t]: those in the picture that the save of t has taken
    runs,     \* requests that ingest, so far
    run       \* run[t]: the local variables of the ingesting handler of t

records == <<regs, saved, drawn>>
ingest == <<ledger, records, runs, run>>
allVars == <<vaultVars, ingest>>

Pool == Thread \ {Loop}

NoRun == [id |-> 0, kind |-> "none", items |-> <<>>, pos |-> 1,
          known |-> {}, owner |-> None, attempt |-> 1,
          before |-> {}, late |-> <<>>]

Contents(rs) == {r.content : r \in rs}
Item(t) == run[t].items[run[t].pos]
Busy(t) == run[t].id # 0

(* The handler returns, or an exception ends it.                           *)
EndRun(t) ==
    /\ Goto(t, "idle")
    /\ job' = [job EXCEPT ![t] = NoJob]
    /\ run' = [run EXCEPT ![t] = NoRun]

(* The part of the state that an ingesting step does not reach.            *)
Aside == <<flows, accounts, vault, disk, grants, restarts>>
Within == <<Aside, served, runs>>

-----------------------------------------------------------------------------
IngestInit ==
    /\ VaultInit
    /\ ledger = {}
    /\ regs = {}
    /\ saved = {}
    /\ drawn = [t \in Thread |-> {}]
    /\ runs = 0
    /\ run = [t \in Thread |-> NoRun]

(* A request that ingests is taken up.                                     *)
Begin(t, kind, items) ==
    /\ Arrives(t)
    /\ runs < MaxRuns
    /\ runs' = runs + 1
    /\ run' = [run EXCEPT ![t] =
                  [NoRun EXCEPT !.id = runs', !.kind = kind, !.items = items,
                                !.before = IF kind = "sync" THEN Contents(regs)
                                           ELSE {}]]

(* POST /api/connectors/{id}/sync.                                         *)
Sync(t, c) ==
    /\ t \in Pool
    /\ c \in connected
    /\ Begin(t, "sync", <<>>)
    /\ job' = [job EXCEPT ![t].conn = c]
    /\ Goto(t, "vault")
    /\ UNCHANGED <<Aside, ledger, records>>

(* _authenticate: the signature counts where there is one and a secret to  *)
(* check it with, and otherwise the shared secret does.                    *)
Authentic(d) ==
    IF d.signature # "none" /\ Signing
    THEN d.signature = "valid"
    ELSE d.secret = "valid"

(* The elements of s at some positions, in the order of s.                 *)
InOrder(positions) == SetToSortSeq(positions, <)
Chosen(s, positions) ==
    [n \in 1 .. Cardinality(positions) |-> s[InOrder(positions)[n]]]

(* _extract_events.                                                        *)
ExtractEvents(events) ==
    Chosen(events, {n \in DOMAIN events : events[n].content # None})

(* POST /api/webhooks/{provider}; a delivery that is not authentic is      *)
(* refused.                                                                *)
Webhook(d) ==
    /\ Authentic(d)
    /\ Begin(Loop, "webhook", ExtractEvents(d.events))
    /\ Goto(Loop, "item")
    /\ UNCHANGED <<Aside, job, ledger, records>>

(* POST /api/connectors/ingest, with the medium in its body.               *)
Post(t, c, m) ==
    /\ t \in Pool
    /\ Begin(t, "post", <<[conn |-> c, content |-> m]>>)
    /\ Goto(t, "lookup")
    /\ UNCHANGED <<Aside, job, ledger, records>>

(* What an adapter returns: the uploads it can use, in the order of the    *)
(* platform.  Entries without an address, of another type or without a     *)
(* temporary link are left out.                                            *)
Listings == {Chosen(Uploads, usable) : usable \in SUBSET DOMAIN Uploads}

(* A fault: only what came through this connector counts as known.         *)
KnownHere(t) == Contents({r \in regs : r.owner = job[t].conn})

(* The hashes a sync skips, collected once, after the listing.             *)
KnownHashes(t) == Contents(regs)

(* The listing arrives; the sync will go through its first MaxItems.       *)
List(t) ==
    /\ pc[t] = "token"
    /\ \E media \in Listings :
          run' = [run EXCEPT
                     ![t].items =
                         [n \in 1 .. Min({MaxItems, Len(media)}) |->
                             [conn |-> job[t].conn, content |-> media[n]]],
                     ![t].known = KnownHashes(t)]
    /\ Goto(t, "item")
    /\ job' = [job EXCEPT ![t] = NoJob]
    /\ UNCHANGED <<Within, ledger, records>>

(* The platform answers with an error, or the walk over the registrations  *)
(* raises because another handler stores one meanwhile.                    *)
ListFails(t) ==
    /\ pc[t] = "token"
    /\ EndRun(t)
    /\ UNCHANGED <<Within, ledger, records>>

-----------------------------------------------------------------------------
(* The loop over the items of a sync or a delivery.                        *)

AtItem(t) == pc[t] = "item" /\ run[t].pos \in DOMAIN run[t].items

(* The item is passed over: its download failed, a sync knows its content, *)
(* or the connector of an event is unknown.                                *)
SkipItem(t) ==
    /\ AtItem(t)
    /\ run' = [run EXCEPT ![t].pos = @ + 1]
    /\ UNCHANGED <<Within, pc, job, ledger, records>>

(* A fault: a connector that once existed is good enough.                  *)
KnownConnector(c) == c \in Used

(* store.connectors.get(connector_id).                                     *)
FindConnector(c) == c \in connected

(* The item is downloaded and goes to the pipeline.                        *)
TakeItem(t) ==
    /\ AtItem(t)
    /\ run[t].kind = "sync" => Item(t).content \notin run[t].known
    /\ run[t].kind = "webhook" => FindConnector(Item(t).conn)
    /\ Goto(t, "lookup")
    /\ UNCHANGED <<Within, job, ledger, records, run>>

(* The last item is done and the handler returns.                          *)
Finish(t) ==
    /\ pc[t] = "item"
    /\ run[t].pos \notin DOMAIN run[t].items
    /\ EndRun(t)
    /\ UNCHANGED <<Within, ledger, records>>

(* ingest_from_connector: the connector gives the owner of the medium; one *)
(* that is gone ends the request, a sync in the middle of its list too.    *)
Lookup(t) ==
    /\ pc[t] = "lookup"
    /\ IF FindConnector(Item(t).conn)
       THEN /\ run' = [run EXCEPT ![t].owner = Item(t).conn, ![t].attempt = 1]
            /\ Goto(t, "submit")
            /\ UNCHANGED job
       ELSE EndRun(t)
    /\ UNCHANGED <<Within, ledger, records>>

-----------------------------------------------------------------------------
(* _submit_rpc.                                                            *)

Transaction(t) ==
    [id |-> run[t].id, item |-> run[t].pos, attempt |-> run[t].attempt,
     content |-> Item(t).content, owner |-> run[t].owner]

(* The node takes the transaction and its answer arrives.                  *)
Submitted(t) ==
    /\ pc[t] = "submit"
    /\ ledger' = ledger \cup {Transaction(t)}
    /\ Goto(t, "store")
    /\ UNCHANGED <<Within, job, records, run>>

(* get_transaction, while the node can be reached: the identifier is       *)
(* answered for one attempt to register one item.                          *)
Txid(x) == <<x.id, x.item, x.attempt>>
GetTransaction(txid) == {x \in ledger : Txid(x) = txid}

(* verify_registration: the transaction is found, and agrees.              *)
Verified(r) ==
    \E x \in GetTransaction(Txid(r)) :
        x.content = r.content /\ x.owner = r.owner

(* A fault: one attempt too many.                                          *)
TryOnceMore(t) ==
    IF run[t].attempt <= Attempts
    THEN run' = [run EXCEPT ![t].attempt = @ + 1] /\ UNCHANGED <<pc, job>>
    ELSE EndRun(t)

(* The attempt failed: another one after a pause, or a RuntimeError after  *)
(* the last.                                                               *)
TryAgain(t) ==
    IF run[t].attempt < Attempts
    THEN run' = [run EXCEPT ![t].attempt = @ + 1] /\ UNCHANGED <<pc, job>>
    ELSE EndRun(t)

(* The node takes the transaction and the answer does not arrive.          *)
SubmitLost(t) ==
    /\ pc[t] = "submit"
    /\ ledger' = ledger \cup {Transaction(t)}
    /\ TryAgain(t)
    /\ UNCHANGED <<Within, records>>

(* The node refuses or is not reached.                                     *)
SubmitFails(t) ==
    /\ pc[t] = "submit"
    /\ TryAgain(t)
    /\ UNCHANGED <<Within, ledger, records>>

(* A fault: the identifier of the first attempt is kept for the record.    *)
FirstAttempt(t) == [Transaction(t) EXCEPT !.attempt = 1]

(* The record of the registration, with the transaction's identifier.      *)
Record(t) == Transaction(t)

(* The certificate is issued and the registration stored.                  *)
Store(t) ==
    /\ pc[t] = "store"
    /\ regs' = regs \cup {Record(t)}
    /\ run' = [run EXCEPT ![t].pos = @ + 1,
                          ![t].owner = None,
                          ![t].attempt = 1,
                          ![t].late = IF Item(t).conn \in connected
                                      THEN @ ELSE Append(@, Item(t).conn)]
    /\ SaveThen(t, "item")
    /\ UNCHANGED <<Within, ledger, saved, drawn>>

-----------------------------------------------------------------------------
(* The steps of PlatformVault, in this system.                             *)

(* Requests of the thread pool.                                            *)
VaultRequest(t) ==
    /\ t \in Pool
    /\ \/ \E p \in Provider, s \in State : Start(t, p, s) \/ Callback(t, p, s)
       \/ \E c \in Connector, p \in Provider : Connect(t, c, p)
       \/ \E c \in Connector : Disconnect(t, c)
    /\ UNCHANGED ingest

(* Steps that go on to another one of the same handler.                    *)
VaultStep(t) ==
    /\ \/ \E c \in Connector : Exchange(t, c)
       \/ TokenFresh(t)
       \/ TokenStale(t)
       \/ Refreshed(t)
       \/ StoreToken(t)
    /\ UNCHANGED ingest

(* Steps that end the handler.                                             *)
VaultEnd(t) ==
    /\ \/ Prune(t)
       \/ ExchangeFails(t)
       \/ TokenMissing(t)
       \/ RefreshLost(t)
       \/ RefreshFails(t)
       \/ SaveFails(t)
    /\ run' = [run EXCEPT ![t] = NoRun]
    /\ drawn' = [drawn EXCEPT ![t] = {}]
    /\ UNCHANGED <<ledger, regs, saved, runs>>

(* persist(), of which the registrations are a section too.                *)
CaptureAll(t) ==
    /\ Capture(t)
    /\ drawn' = [drawn EXCEPT ![t] = regs]
    /\ UNCHANGED <<ledger, regs, saved, runs, run>>

InstallAll(t) ==
    /\ Replace(t)
    /\ saved' = drawn[t]
    /\ drawn' = [drawn EXCEPT ![t] = {}]
    /\ UNCHANGED <<ledger, regs, runs, run>>

RestartAll ==
    /\ Restart
    /\ regs' = saved
    /\ drawn' = [t \in Thread |-> {}]
    /\ run' = [t \in Thread |-> NoRun]
    /\ UNCHANGED <<ledger, saved, runs>>

TimePasses == (\E s \in State : Age(s)) /\ UNCHANGED ingest

Arrival ==
    \/ \E t \in Pool : VaultRequest(t)
    \/ \E t \in Pool, c \in Connector : Sync(t, c)
    \/ \E t \in Pool, c \in Connector, m \in Content : Post(t, c, m)
    \/ \E d \in Deliveries : Webhook(d)

Progress(t) ==
    \/ VaultStep(t)
    \/ VaultEnd(t)
    \/ CaptureAll(t)
    \/ InstallAll(t)
    \/ List(t)
    \/ ListFails(t)
    \/ SkipItem(t)
    \/ TakeItem(t)
    \/ Finish(t)
    \/ Lookup(t)
    \/ Submitted(t)
    \/ SubmitLost(t)
    \/ SubmitFails(t)
    \/ Store(t)

Next ==
    \/ Arrival
    \/ \E t \in Thread : Progress(t)
    \/ TimePasses
    \/ RestartAll

Spec == IngestInit /\ [][Next]_allVars

-----------------------------------------------------------------------------
TypeOK ==
    /\ flow \subseteq State
    /\ connected \subseteq Connector
    /\ vault \in [Connector -> 0 .. MaxTokens]
    /\ live \in [Connector -> 0 .. MaxTokens]
    /\ \A t \in Thread :
          /\ job[t].conn \in Connector \cup {None}
          /\ run[t].attempt \in 1 .. Attempts
          /\ run[t].pos \in 1 .. Len(run[t].items) + 1
          /\ Busy(t) => ~Idle(t)

(* Every registration, in memory or in the file, can be verified: the node *)
(* has its transaction, with its content and its owner, and no attempt was *)
(* made after the one that was answered (_submit_rpc, verify_registration).*)
(* Transactions that no registration names come from lost answers.         *)
EveryRegistrationAnchored ==
    \A r \in regs \cup saved :
        /\ Verified(r)
        /\ \A x \in ledger : x.id = r.id /\ x.item = r.item
                                => x.attempt <= r.attempt

(* A sync does not submit anything that was registered when its handler    *)
(* began (the promise of sync.py: registered items are skipped).           *)
SyncSkipsKnown ==
    \A t \in Thread :
        run[t].kind = "sync" /\ pc[t] \in {"lookup", "submit", "store"}
            => Item(t).content \notin run[t].before

(* A connector that was disconnected stops the requests that run over it:  *)
(* each stores at most the one item of it that was under way, whichever    *)
(* connectors its other items name and whoever disconnects them meanwhile. *)
DisconnectStops == \A t \in Thread : IsInjective(run[t].late)
=============================================================================
