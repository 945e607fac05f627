------------------------------- MODULE Billing -------------------------------
(***************************************************************************)
(* Plans, metering, registration slots and API keys of one account         *)
(* (billing.py; accounts do not share any of them).  The request handlers  *)
(* run in the threads of the pool without a lock and check a limit before  *)
(* they use it up; the payment provider's events arrive on the event loop, *)
(* possibly twice, late or out of order; months pass meanwhile.            *)
(*                                                                         *)
(* A step is the code between two points at which another thread can tell  *)
(* the difference.  Saves, and what a restart finds, are left to           *)
(* SnapshotStore: here a save only decides whether an analysis is          *)
(* answered.  Time is counted in months; signatures and checkout sessions  *)
(* are left out.                                                           *)
(***************************************************************************)
EXTENDS Naturals, FiniteSets, FiniteSetsExt, Functions

CONSTANTS
    Thread,        \* threads of the request pool
    Entry,         \* usage entries: one more than threads, those out of use
                   \* are taken again
    None,          \* no entry
    Quota,         \* Quota[p], Slots[p], Keys[p]: the limits of plan p
    Slots,
    Keys,
    MaxMonth,      \* bound on the months that pass
    MaxMade,       \* bound on the entries made for a month
    MaxIngested    \* bound on the registrations made by connectors

Plan == {"free", "pro", "enterprise"}

ASSUME BillingAssumption ==
    /\ None \notin Entry
    /\ IsFiniteSet(Thread) /\ IsFiniteSet(Entry) /\ Thread # {}
    /\ Cardinality(Entry) = Cardinality(Thread) + 1
    /\ Quota \in [Plan -> Nat]
    /\ Slots \in [Plan -> Nat]
    /\ Keys \in [Plan -> Nat]
    /\ \A p \in Plan : /\ Quota["free"] <= Quota[p]
                       /\ Slots["free"] <= Slots[p]
    /\ Keys["free"] = 0
    /\ MaxMonth \in Nat /\ MaxMade \in Nat /\ MaxIngested \in Nat

VARIABLES
    month,      \* the calendar month
    account,    \* plan, status of the subscription, month its period ends in
    usage,      \* the entry that the store holds, None if none
    entries,    \* entries[e]: month and analyses of entry e
    regs,       \* registrations of the account through POST /api/registrations
    ingested,   \* registrations of the account by its connectors
    keys,       \* its API keys
    pc,         \* pc[t]: where thread t stands in its handler
    goal,       \* goal[t]: the handler
    limit,      \* limit[t]: the quota it has read
    hold,       \* hold[t]: the usage entry it has in hand
    made,       \* made[m]: entries ever made for month m
    charged     \* charged[m]: analyses answered and charged to month m

meter == <<usage, entries, made>>
slots == <<regs, ingested>>
locals == <<goal, limit, hold>>
vars == <<month, account, meter, slots, keys, pc, locals, charged>>

NoUse == [month |-> 0, analyses |-> 0]
Free == [plan |-> "free", status |-> "none", until |-> 0]

(* plan_for: a paid plan that has lapsed is the free plan.                 *)
PlanFor(a) ==
    IF a.plan # "free" /\ (a.status # "active" \/ a.until < month)
    THEN "free" ELSE a.plan

-----------------------------------------------------------------------------
Init ==
    /\ month = 0
    /\ account = Free
    /\ usage = None
    /\ entries = [e \in Entry |-> NoUse]
    /\ made = [m \in 0 .. MaxMonth |-> 0]
    /\ regs = 0
    /\ ingested = 0
    /\ keys = 0
    /\ pc = [t \in Thread |-> "idle"]
    /\ goal = [t \in Thread |-> "none"]
    /\ limit = [t \in Thread |-> 0]
    /\ hold = [t \in Thread |-> None]
    /\ charged = [m \in 0 .. MaxMonth |-> 0]

Goto(t, to) == pc' = [pc EXCEPT ![t] = to]

(* Thread t takes a request that needs the usage of the month.             *)
Begin(t, g, to) ==
    /\ pc[t] = "idle"
    /\ goal' = [goal EXCEPT ![t] = g]
    /\ Goto(t, to)

(* An entry that is referred to no more is as good as new.                 *)
Swept == [e \in Entry |-> IF e \in Range(hold') \cup {usage'}
                          THEN entries[e] ELSE NoUse]

Leave(t) ==
    /\ Goto(t, "idle")
    /\ goal' = [goal EXCEPT ![t] = "none"]
    /\ limit' = [limit EXCEPT ![t] = 0]
    /\ hold' = [hold EXCEPT ![t] = None]
    /\ UNCHANGED <<usage, made>>
    /\ entries' = Swept

(********************************** Metering *******************************)

(* check_and_count_analysis reads the plan.                                *)
Analyse(t) ==
    /\ Begin(t, "analyse", "lookup")
    /\ limit' = [limit EXCEPT ![t] = Quota[PlanFor(account)]]
    /\ UNCHANGED <<month, account, meter, slots, keys, hold, charged>>

(* account_summary reads the plan too, and counts nothing.                 *)
Summary(t) ==
    /\ Begin(t, "summary", "lookup")
    /\ UNCHANGED <<month, account, meter, slots, keys, limit, hold, charged>>

EntryOfMonth == usage # None /\ entries[usage].month = month

(* _usage: the entry in the store is this month's, or a new one is made.   *)
LookUp(t) ==
    /\ pc[t] = "lookup"
    /\ EntryOfMonth
    /\ hold' = [hold EXCEPT ![t] = usage]
    /\ Goto(t, "count")
    /\ UNCHANGED <<month, account, meter, slots, keys, goal, limit, charged>>

MakeEntry(t, e) ==
    /\ pc[t] = "lookup"
    /\ ~EntryOfMonth
    /\ made[month] < MaxMade
    /\ e \notin Range(hold) \cup {usage}
    /\ made' = [made EXCEPT ![month] = @ + 1]
    /\ entries' = [entries EXCEPT ![e] = [month |-> month, analyses |-> 0]]
    /\ hold' = [hold EXCEPT ![t] = e]
    /\ Goto(t, "install")
    /\ UNCHANGED <<month, account, usage, slots, keys, goal, limit, charged>>

(* A fault: the store gets a copy of the new entry.                        *)
InstallCopy(t) ==
    /\ pc[t] = "install"
    /\ \E e \in Entry \ (Range(hold) \cup {usage}) :
          /\ entries' = [entries EXCEPT ![e] = entries[hold[t]]]
          /\ usage' = e
    /\ Goto(t, "count")
    /\ UNCHANGED <<month, account, made, slots, keys, locals, charged>>

(* The new entry is put into the store, whatever the store holds by now.   *)
Install(t) ==
    /\ pc[t] = "install"
    /\ usage' = hold[t]
    /\ UNCHANGED hold
    /\ entries' = Swept
    /\ Goto(t, "count")
    /\ UNCHANGED <<month, account, made, slots, keys, goal, limit, charged>>

(* A fault: the limit may be reached once more.                            *)
CountOver(t) ==
    /\ pc[t] = "count"
    /\ goal[t] = "analyse"
    /\ entries[hold[t]].analyses <= limit[t]
    /\ entries' = [entries EXCEPT ![hold[t]].analyses = @ + 1]
    /\ Goto(t, "save")
    /\ UNCHANGED <<month, account, usage, made, slots, keys, locals, charged>>

(* The check and the increment, between which no thread can be switched.   *)
Count(t) ==
    /\ pc[t] = "count"
    /\ goal[t] = "analyse"
    /\ entries[hold[t]].analyses < limit[t]
    /\ entries' = [entries EXCEPT ![hold[t]].analyses = @ + 1]
    /\ Goto(t, "save")
    /\ UNCHANGED <<month, account, usage, made, slots, keys, locals, charged>>

(* The quota is used up, 402; or the summary is answered.                  *)
QuotaReached(t) ==
    /\ pc[t] = "count"
    /\ goal[t] = "summary" \/ entries[hold[t]].analyses >= limit[t]
    /\ Leave(t)
    /\ UNCHANGED <<month, account, slots, keys, charged>>

(* persist(), and the analysis is answered.                                *)
Answer(t) ==
    /\ pc[t] = "save"
    /\ charged' = [charged EXCEPT ![entries[hold[t]].month] = @ + 1]
    /\ Leave(t)
    /\ UNCHANGED <<month, account, slots, keys>>

(* persist() raises: 500, and what was counted stays counted.              *)
SaveFails(t) ==
    /\ pc[t] = "save"
    /\ Leave(t)
    /\ UNCHANGED <<month, account, slots, keys, charged>>

(******************************* Slots and keys ****************************)

(* A thread counts what the account has against the limit of its plan.     *)
HasRoom(t, used, limits, to) ==
    /\ pc[t] = "idle"
    /\ used < limits[PlanFor(account)]
    /\ Goto(t, to)
    /\ UNCHANGED <<month, account, meter, slots, keys, locals, charged>>

(* A fault: the slots are compared with one to spare.                      *)
RegisterOver(t) ==
    HasRoom(t, IF regs = 0 THEN 0 ELSE regs - 1, Slots, "insert")

(* require_registration_slot counts whatever the account has registered;   *)
(* the media is registered afterwards.                                     *)
Register(t) == HasRoom(t, regs + ingested, Slots, "insert")

InsertRegistration(t) ==
    /\ pc[t] = "insert"
    /\ regs' = regs + 1
    /\ Goto(t, "idle")
    /\ UNCHANGED <<month, account, meter, ingested, keys, locals, charged>>

(* The registration fails: no chain, no certificate, a bad signature.      *)
RegistrationFails(t) ==
    /\ pc[t] = "insert"
    /\ Goto(t, "idle")
    /\ UNCHANGED <<month, account, meter, slots, keys, locals, charged>>

(* ingest_from_connector: a sync, a webhook or a posted item registers for *)
(* the owner of the connector and asks for no slot.                        *)
Ingest ==
    /\ ingested < MaxIngested
    /\ ingested' = ingested + 1
    /\ UNCHANGED <<month, account, meter, regs, keys, pc, locals, charged>>

(* mint_api_key up to its checks: a plan without API access has no keys.   *)
Mint(t) == HasRoom(t, keys, Keys, "mint")

InsertKey(t) ==
    /\ pc[t] = "mint"
    /\ keys' = keys + 1
    /\ Goto(t, "idle")
    /\ UNCHANGED <<month, account, meter, slots, locals, charged>>

RevokeKey ==
    /\ keys > 0
    /\ keys' = keys - 1
    /\ UNCHANGED <<month, account, meter, slots, pc, locals, charged>>

(*********************************** Plans *********************************)

(* activate_license with a licence that runs until month m.                *)
ActivateLicense(m) ==
    /\ m >= month
    /\ account' = [plan |-> "enterprise", status |-> "active", until |-> m]
    /\ UNCHANGED <<month, meter, slots, keys, pc, locals, charged>>

(* handle_stripe_webhook, checkout.session.completed and                   *)
(* customer.subscription.updated with a period that ends in month m.       *)
PaymentEvent(m) ==
    /\ account' = [plan |-> "pro", status |-> "active", until |-> m]
    /\ UNCHANGED <<month, meter, slots, keys, pc, locals, charged>>

(* customer.subscription.deleted.                                          *)
CancelEvent ==
    /\ account' = [account EXCEPT !.plan = "free", !.status = "canceled"]
    /\ UNCHANGED <<month, meter, slots, keys, pc, locals, charged>>

(* dev_set_plan: plan p until month m, or back to the free plan.           *)
SetPlan(p, m) ==
    /\ account' = IF p = "free" THEN Free
                  ELSE [plan |-> p, status |-> "active", until |-> m]
    /\ UNCHANGED <<month, meter, slots, keys, pc, locals, charged>>

(* The month rolls over.                                                   *)
Rollover ==
    /\ month < MaxMonth
    /\ month' = month + 1
    /\ UNCHANGED <<account, meter, slots, keys, pc, locals, charged>>

-----------------------------------------------------------------------------
ThreadStep(t) ==
    \/ Analyse(t) \/ Summary(t) \/ LookUp(t) \/ Install(t) \/ Count(t)
    \/ QuotaReached(t) \/ Answer(t) \/ SaveFails(t)
    \/ \E e \in Entry : MakeEntry(t, e)
    \/ Register(t) \/ InsertRegistration(t) \/ RegistrationFails(t)
    \/ Mint(t) \/ InsertKey(t)

Next ==
    \/ \E t \in Thread : ThreadStep(t)
    \/ Ingest
    \/ RevokeKey
    \/ \E m \in 0 .. MaxMonth : ActivateLicense(m) \/ PaymentEvent(m)
    \/ \E p \in Plan, m \in month .. MaxMonth : SetPlan(p, m)
    \/ CancelEvent
    \/ Rollover

Spec == Init /\ [][Next]_vars

-----------------------------------------------------------------------------
AccountRecord == [plan : Plan, status : {"none", "active", "canceled"},
                  until : 0 .. MaxMonth]
Largest(limits) == Max({limits[p] : p \in Plan})
Use == [month : 0 .. MaxMonth, analyses : 0 .. Largest(Quota)]

(* Every variable keeps to its domain, and no usage entry counts more      *)
(* analyses than the largest plan allows.                                  *)
TypeOK ==
    /\ month \in 0 .. MaxMonth
    /\ account \in AccountRecord
    /\ usage \in Entry \cup {None}
    /\ entries \in [Entry -> Use]
    /\ made \in [0 .. MaxMonth -> 0 .. MaxMade]
    /\ regs \in Nat
    /\ ingested \in 0 .. MaxIngested
    /\ keys \in Nat
    /\ pc \in [Thread -> {"idle", "lookup", "install", "count", "save",
                          "insert", "mint"}]
    /\ goal \in [Thread -> {"none", "analyse", "summary"}]
    /\ limit \in [Thread -> Nat]
    /\ hold \in [Thread -> Entry \cup {None}]
    /\ charged \in [0 .. MaxMonth -> Nat]

(* The analyses answered in a month never exceed the quota of the largest  *)
(* plan, once for every entry made for that month: threads that find no    *)
(* entry of the month each start to count from nothing.                    *)
QuotaKept == \A m \in DOMAIN charged : charged[m] <= made[m] * Largest(Quota)

(* If one entry only was made for the month that the store is at, it has   *)
(* counted every analysis that was answered in the month.                  *)
Metered ==
    \A e \in Entry \cap {usage} :
        LET m == entries[e].month IN
        made[m] = 1 => charged[m] <= entries[e].analyses

At(place) == Cardinality({t \in Thread : pc[t] = place})

(* The registrations that asked for a slot and the keys, with those under  *)
(* way, exceed what the largest plan allows by less than the number of     *)
(* threads, whatever the connectors register and however the plan changes. *)
LimitsBounded ==
    /\ regs + At("insert") < Largest(Slots) + Cardinality(Thread)
    /\ keys + At("mint") < Largest(Keys) + Cardinality(Thread)

(*************************** The inductive invariant ***********************)

(* The entries of month m that the store or a thread refers to, and the    *)
(* analyses that entry e has counted and that are not answered yet.        *)
InUse(m) == {e \in Entry \cap (Range(hold) \cup {usage}) : entries[e].month = m}
Saving(e) == Cardinality({t \in Thread : pc[t] = "save" /\ hold[t] = e})

(* The answered analyses of month m can be laid out in rows, one for each  *)
(* entry that was made for it and as long as the largest quota; the row of *)
(* an entry in use holds no more of them than it has counted, less those   *)
(* that are not answered yet.                                              *)
Row(paid, n) == {q \in 1 .. Largest(Quota) : <<n, q>> \in paid}

Ledger(m, row, paid) ==
    /\ Cardinality(paid) = charged[m]
    /\ \A e \in InUse(m) :
          /\ row[e] # 0
          /\ Cardinality(Row(paid, row[e])) + Saving(e) <= entries[e].analyses
    /\ \A e, f \in InUse(m) : row[e] = row[f] => e = f

(* A thread has read the quota of some plan, and counts on an entry.       *)
FitsInv ==
    /\ TypeOK
    /\ \A t \in Thread :
          /\ limit[t] <= Largest(Quota)
          /\ pc[t] \in {"install", "count", "save"} => hold[t] \in Entry

Laid(m) ==
    \E row \in [Entry -> 0 .. made[m]],
       paid \in SUBSET ((1 .. made[m]) \X (1 .. Largest(Quota))) :
          Ledger(m, row, paid)

MeterInv ==
    /\ FitsInv
    /\ \A m \in 0 .. MaxMonth : Laid(m)
=============================================================================
