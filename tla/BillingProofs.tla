---------------------------- MODULE BillingProofs ----------------------------
(***************************************************************************)
(* Theorems about Billing, for any number of threads and all limits: how   *)
(* far the slots and the API keys of an account may exceed its plan, and   *)
(* that the answered analyses of a month stay within what was counted.     *)
(***************************************************************************)
EXTENDS Billing, FiniteSetTheorems, TLAPS

USE BillingAssumption DEF slots

(* What the bound needs of the state: where the threads are, what is       *)
(* counted, and that the account has one of the plans at every time.       *)
LimitsInv ==
    /\ pc = [t \in Thread |-> pc[t]]
    /\ regs \in Nat /\ ingested \in 0 .. MaxIngested /\ keys \in Nat
    /\ month \in 0 .. MaxMonth
    /\ account \in AccountRecord
    /\ LimitsBounded

-----------------------------------------------------------------------------
(* The largest of the limits is a number, and no plan allows more.         *)
LEMMA LargestBounds ==
    ASSUME NEW limits \in [Plan -> Nat]
    PROVE  /\ Largest(limits) \in Nat
           /\ \A p \in Plan : limits[p] <= Largest(limits)
<1> DEFINE values == {limits[p] : p \in Plan}
<1>1. PICK top \in values : \A v \in values : top >= v
  <2>1. /\ limits["free"] \in Nat /\ limits["pro"] \in Nat
        /\ limits["enterprise"] \in Nat
    BY DEF Plan
  <2>2. values = {limits["free"], limits["pro"], limits["enterprise"]}
    BY DEF Plan
  <2>3. \A a, b, c \in Nat :
          \E x \in {a, b, c} : x >= a /\ x >= b /\ x >= c
    OBVIOUS
  <2>4. \E x \in values : /\ x >= limits["free"] /\ x >= limits["pro"]
                          /\ x >= limits["enterprise"]
    BY <2>1, <2>2, <2>3
  <2>. QED  BY <2>2, <2>4
<1>2. Max(values) \in values /\ \A v \in values : Max(values) >= v
  BY <1>1 DEF Max
<1>. QED  BY <1>2 DEF Largest

(* A lapsed plan is the free plan: the plan in force is one of the three.  *)
LEMMA PlanInForce ==
    ASSUME account \in AccountRecord
    PROVE  PlanFor(account) \in Plan
BY DEF PlanFor, AccountRecord, Plan

(* At counts threads.                                                      *)
LEMMA AtType == \A step : At(step) \in Nat
BY FS_CardinalityType, FS_Subset DEF At

(* A thread arrives at a step: all the others were not enough to fill it.  *)
LEMMA AtGains ==
    ASSUME pc = [u \in Thread |-> pc[u]], NEW t \in Thread, NEW step,
           pc[t] # step, Goto(t, step)
    PROVE  At(step)' = At(step) + 1 /\ At(step) < Cardinality(Thread)
<1> DEFINE before == {u \in Thread : pc[u] = step}
           after == {u \in Thread : pc'[u] = step}
<1>1. after = before \cup {t}
  BY DEF Goto
<1>2. t \notin before /\ IsFiniteSet(before)
  BY FS_Subset
<1>3. Cardinality(after) = Cardinality(before) + 1
  BY <1>1, <1>2, FS_AddElement
<1>4. Cardinality(after) <= Cardinality(Thread)
  BY FS_Subset
<1>5. Cardinality(Thread) \in Nat /\ Cardinality(before) \in Nat
  BY <1>2, FS_CardinalityType
<1>. QED  BY <1>3, <1>4, <1>5 DEF At

(* A thread leaves a step.                                                 *)
LEMMA AtLoses ==
    ASSUME pc = [u \in Thread |-> pc[u]], NEW t \in Thread, NEW step,
           pc[t] = step, NEW next, next # step, Goto(t, next)
    PROVE  At(step)' = At(step) - 1
<1> DEFINE before == {u \in Thread : pc[u] = step}
           after == {u \in Thread : pc'[u] = step}
<1>1. after = before \ {t}
  BY DEF Goto
<1>2. t \in before /\ IsFiniteSet(before)
  BY FS_Subset
<1> HIDE DEF before, after
<1>3. Cardinality(after) = Cardinality(before) - 1
  BY <1>1, <1>2, FS_RemoveElement
<1>. QED  BY <1>3 DEF At, before, after

(* A thread moves between other steps.                                     *)
LEMMA AtKeeps ==
    ASSUME pc = [u \in Thread |-> pc[u]], NEW t \in Thread, NEW step,
           pc[t] # step, NEW next, next # step, Goto(t, next)
    PROVE  At(step)' = At(step)
<1>1. \A u \in Thread : pc'[u] = step <=> pc[u] = step
  BY DEF Goto
<1>. QED  BY <1>1 DEF At

-----------------------------------------------------------------------------
(* Nothing is held and no thread is under way at the start.                *)
LEMMA LimitsInit == Init => LimitsInv
<1> SUFFICES ASSUME Init PROVE LimitsInv
  OBVIOUS
<1>1. At("insert") = 0 /\ At("mint") = 0
  <2>1. /\ {t \in Thread : pc[t] = "insert"} = {}
        /\ {t \in Thread : pc[t] = "mint"} = {}
    BY DEF Init
  <2>. QED  BY <2>1, FS_EmptySet DEF At
<1>2. Cardinality(Thread) \in Nat \ {0}
  BY FS_CardinalityType, FS_EmptySet
<1>3. Largest(Slots) \in Nat /\ Largest(Keys) \in Nat
  BY LargestBounds
<1>4. LimitsBounded
  BY <1>1, <1>2, <1>3 DEF LimitsBounded, Init
<1>5. account \in AccountRecord
  BY DEF Init, Free, AccountRecord, Plan
<1>. QED  BY <1>4, <1>5 DEF LimitsInv, Init

(* A handler that has to do with neither limit.                            *)
LEMMA Elsewhere ==
    ASSUME LimitsInv, NEW t \in Thread, NEW next, Goto(t, next),
           pc[t] \notin {"insert", "mint"}, next \notin {"insert", "mint"},
           UNCHANGED <<month, account, slots, keys>>
    PROVE  LimitsInv'
<1>1. At("insert")' = At("insert") /\ At("mint")' = At("mint")
  BY AtKeeps DEF LimitsInv
<1>2. pc' = [u \in Thread |-> pc'[u]]
  BY DEF Goto, LimitsInv
<1>. QED  BY <1>1, <1>2 DEF LimitsInv, LimitsBounded

(* A thread that has seen room takes what it saw at most the largest limit *)
(* less one, and at most all other threads did so as well.                 *)
LEMMA RoomSeen ==
    ASSUME LimitsInv, NEW t \in Thread, NEW used \in Nat,
           NEW limits \in [Plan -> Nat], NEW step,
           step # "idle", HasRoom(t, used, limits, step)
    PROVE  used + At(step)' < Largest(limits) + Cardinality(Thread)
<1>1. used < limits[PlanFor(account)]
  BY DEF HasRoom
<1>2. PlanFor(account) \in Plan
  BY PlanInForce DEF LimitsInv
<1>3. limits[PlanFor(account)] \in Nat /\ Largest(limits) \in Nat
      /\ limits[PlanFor(account)] <= Largest(limits)
  BY <1>2, LargestBounds
<1>4. At(step)' = At(step) + 1 /\ At(step) < Cardinality(Thread)
  BY AtGains DEF HasRoom, LimitsInv
<1>5. At(step) \in Nat /\ Cardinality(Thread) \in Nat
  BY AtType, FS_CardinalityType
<1>. QED  BY <1>1, <1>3, <1>4, <1>5

(* Every step keeps the bound.                                             *)
LEMMA LimitsNext == LimitsInv /\ [Next]_vars => LimitsInv'
<1> SUFFICES ASSUME LimitsInv, [Next]_vars PROVE LimitsInv'
  OBVIOUS
<1>1. /\ At("insert") \in Nat /\ At("mint") \in Nat
      /\ Cardinality(Thread) \in Nat
      /\ Largest(Slots) \in Nat /\ Largest(Keys) \in Nat
      /\ regs \in Nat /\ ingested \in Nat /\ keys \in Nat
  BY AtType, FS_CardinalityType, LargestBounds DEF LimitsInv
<1>2. ASSUME NEW t \in Thread, Register(t) PROVE LimitsInv'
  <2>1. regs + At("insert")' < Largest(Slots) + Cardinality(Thread)
    <3>1. regs + ingested + At("insert")' < Largest(Slots) + Cardinality(Thread)
      BY <1>1, <1>2, RoomSeen DEF Register
    <3>2. At("insert")' \in Nat
      BY <1>2, <1>1, AtGains DEF Register, HasRoom, LimitsInv
    <3>. QED  BY ONLY <1>1, <3>1, <3>2
  <2>2. At("mint")' = At("mint")
    BY <1>2, AtKeeps DEF Register, HasRoom, LimitsInv
  <2>3. pc' = [u \in Thread |-> pc'[u]]
    BY <1>2 DEF Register, HasRoom, Goto, LimitsInv
  <2>. QED
    BY <1>2, <2>1, <2>2, <2>3
    DEF Register, HasRoom, LimitsInv, LimitsBounded
<1>3. ASSUME NEW t \in Thread, Mint(t) PROVE LimitsInv'
  <2>1. keys + At("mint")' < Largest(Keys) + Cardinality(Thread)
    BY <1>1, <1>3, RoomSeen DEF Mint
  <2>2. At("insert")' = At("insert")
    BY <1>3, AtKeeps DEF Mint, HasRoom, LimitsInv
  <2>3. pc' = [u \in Thread |-> pc'[u]]
    BY <1>3 DEF Mint, HasRoom, Goto, LimitsInv
  <2>. QED
    BY <1>3, <2>1, <2>2, <2>3
    DEF Mint, HasRoom, LimitsInv, LimitsBounded
<1>4. ASSUME NEW t \in Thread, InsertRegistration(t) \/ RegistrationFails(t)
      PROVE  LimitsInv'
  <2>1. At("insert")' = At("insert") - 1 /\ At("mint")' = At("mint")
    BY <1>4, AtLoses, AtKeeps
    DEF InsertRegistration, RegistrationFails, LimitsInv
  <2>2. pc' = [u \in Thread |-> pc'[u]]
    BY <1>4 DEF InsertRegistration, RegistrationFails, Goto, LimitsInv
  <2>3. regs' \in {regs, regs + 1} /\ UNCHANGED <<month, account, ingested, keys>>
    BY <1>4 DEF InsertRegistration, RegistrationFails
  <2>. QED
    BY <1>1, <2>1, <2>2, <2>3 DEF LimitsInv, LimitsBounded
<1>5. ASSUME NEW t \in Thread, InsertKey(t) PROVE LimitsInv'
  <2>1. At("mint")' = At("mint") - 1 /\ At("insert")' = At("insert")
    BY <1>5, AtLoses, AtKeeps DEF InsertKey, LimitsInv
  <2>2. pc' = [u \in Thread |-> pc'[u]]
    BY <1>5 DEF InsertKey, Goto, LimitsInv
  <2>3. keys' = keys + 1 /\ UNCHANGED <<month, account, slots>>
    BY <1>5 DEF InsertKey
  <2>. QED
    BY <1>1, <2>1, <2>2, <2>3 DEF LimitsInv, LimitsBounded
<1>6. CASE RevokeKey
  <2>1. keys' \in Nat /\ keys' <= keys
    BY <1>1, <1>6 DEF RevokeKey
  <2>2. UNCHANGED <<month, account, slots, pc>>
    BY <1>6 DEF RevokeKey
  <2>3. At("insert")' = At("insert") /\ At("mint")' = At("mint")
    BY <2>2 DEF At
  <2>. QED
    BY <1>1, <2>1, <2>2, <2>3 DEF LimitsInv, LimitsBounded
<1>7. ASSUME NEW t \in Thread, Analyse(t) \/ Summary(t) PROVE LimitsInv'
  BY <1>7, Elsewhere DEF Analyse, Summary, Begin
<1>8. ASSUME NEW t \in Thread,
             \/ LookUp(t) \/ Install(t) \/ Count(t)
             \/ \E e \in Entry : MakeEntry(t, e)
      PROVE  LimitsInv'
  BY <1>8, Elsewhere DEF LookUp, Install, Count, MakeEntry
<1>9. ASSUME NEW t \in Thread, QuotaReached(t) \/ Answer(t) \/ SaveFails(t)
      PROVE  LimitsInv'
  BY <1>9, Elsewhere DEF QuotaReached, Answer, SaveFails, Leave
<1>10. ASSUME UNCHANGED <<pc, slots, keys>>, month' \in 0 .. MaxMonth,
             account' \in AccountRecord
      PROVE  LimitsInv'
  BY <1>10 DEF LimitsInv, LimitsBounded, At
<1>11. ASSUME NEW m \in 0 .. MaxMonth, ActivateLicense(m) \/ PaymentEvent(m)
       PROVE  LimitsInv'
  BY <1>10, <1>11
  DEF ActivateLicense, PaymentEvent, AccountRecord, Plan, LimitsInv
<1>12. ASSUME NEW p \in Plan, NEW m \in month .. MaxMonth, SetPlan(p, m)
       PROVE  LimitsInv'
  <2>1. m \in 0 .. MaxMonth
    BY DEF LimitsInv
  <2>2. account' \in AccountRecord
    BY <1>12, <2>1 DEF SetPlan, Free, AccountRecord, Plan
  <2>. QED  BY <1>10, <1>12, <2>2 DEF SetPlan, LimitsInv
<1>13. CASE CancelEvent
  <2>1. account' \in AccountRecord
    BY <1>13 DEF CancelEvent, AccountRecord, Plan, LimitsInv
  <2>. QED  BY <1>10, <1>13, <2>1 DEF CancelEvent, LimitsInv
<1>14. CASE Rollover
  BY <1>10, <1>14 DEF Rollover, LimitsInv
<1>15. CASE UNCHANGED vars
  BY <1>10, <1>15 DEF vars, LimitsInv
<1>16. CASE Ingest
  <2>1. At("insert")' = At("insert") /\ At("mint")' = At("mint")
    BY <1>16 DEF Ingest, At
  <2>2. ingested' \in 0 .. MaxIngested
    BY <1>16 DEF Ingest, LimitsInv
  <2>. QED  BY <1>16, <2>1, <2>2 DEF Ingest, LimitsInv, LimitsBounded
<1>. QED
  BY <1>2, <1>3, <1>4, <1>5, <1>6, <1>7, <1>8, <1>9, <1>11, <1>12, <1>13,
     <1>14, <1>15, <1>16
  DEF Next, ThreadStep

(* The registrations that asked for a slot and the API keys of an account  *)
(* exceed what the largest plan allows by less than the number of threads, *)
(* whatever the plans allow, however they change between the check and the *)
(* insertion and whatever connectors register without asking               *)
(* (require_registration_slot and mint_api_key in billing.py).             *)
THEOREM LimitsHold == Spec => []LimitsBounded
<1>1. LimitsInv => LimitsBounded
  BY DEF LimitsInv
<1>. QED  BY <1>1, LimitsInit, LimitsNext, PTL DEF Spec

-----------------------------------------------------------------------------
(* Metering.                                                               *)

(* Types, and the entries in hand, at the start.                           *)
LEMMA FitsInit == Init => FitsInv
<1> SUFFICES ASSUME Init PROVE FitsInv
  OBVIOUS
<1>1. Largest(Quota) \in Nat
  BY LargestBounds
<1>2. NoUse \in Use /\ Free \in AccountRecord
  BY <1>1 DEF NoUse, Use, Free, AccountRecord, Plan
<1>. QED  BY <1>1, <1>2 DEF Init, FitsInv, TypeOK

(* What is in use keeps its entry when the rest is swept.                  *)
LEMMA SweptKeeps ==
    ASSUME FitsInv, entries' = Swept
    PROVE  /\ entries' \in [Entry -> Use]
           /\ \A e \in Entry : e \in Range(hold') \cup {usage'}
                                  => entries'[e] = entries[e]
<1>1. NoUse \in Use
  BY LargestBounds DEF NoUse, Use
<1>. QED  BY <1>1 DEF Swept, FitsInv, TypeOK

(* The places of a thread in its handler.                                  *)
Place == {"idle", "lookup", "install", "count", "save", "insert", "mint"}

(* A step of a thread keeps the types.                                     *)
LEMMA ThreadFits ==
    ASSUME FitsInv, NEW t \in Thread, ThreadStep(t)
    PROVE  FitsInv'
<1>1. /\ month \in 0 .. MaxMonth /\ account \in AccountRecord
      /\ usage \in Entry \cup {None} /\ entries \in [Entry -> Use]
      /\ made \in [0 .. MaxMonth -> 0 .. MaxMade]
      /\ regs \in Nat /\ ingested \in 0 .. MaxIngested /\ keys \in Nat
      /\ pc \in [Thread -> Place]
      /\ goal \in [Thread -> {"none", "analyse", "summary"}]
      /\ limit \in [Thread -> Nat]
      /\ hold \in [Thread -> Entry \cup {None}]
      /\ charged \in [0 .. MaxMonth -> Nat]
      /\ \A u \in Thread :
            /\ limit[u] <= Largest(Quota)
            /\ pc[u] \in {"install", "count", "save"} => hold[u] \in Entry
      /\ Largest(Quota) \in Nat
  BY LargestBounds DEF FitsInv, TypeOK, Place
<1> USE DEF Goto, meter, locals, Place
<1>2. CASE Analyse(t)
  <2>1. PlanFor(account) \in Plan
    BY <1>1, PlanInForce
  <2>2. Quota[PlanFor(account)] \in 0 .. Largest(Quota)
    BY <2>1, LargestBounds
  <2>3. /\ UNCHANGED <<month, account, meter, slots, keys, hold, charged>>
        /\ pc' = [pc EXCEPT ![t] = "lookup"]
        /\ goal' = [goal EXCEPT ![t] = "analyse"]
        /\ limit' = [limit EXCEPT ![t] = Quota[PlanFor(account)]]
    BY <1>2 DEF Analyse, Begin
  <2>. HIDE BillingAssumption
  <2>. QED  BY <1>1, <2>2, <2>3 DEF FitsInv, TypeOK
<1>3. CASE Summary(t)
  BY <1>1, <1>3 DEF Summary, Begin, FitsInv, TypeOK
<1>4. CASE LookUp(t)
  BY <1>1, <1>4 DEF LookUp, EntryOfMonth, FitsInv, TypeOK
<1>5. ASSUME NEW e \in Entry, MakeEntry(t, e) PROVE FitsInv'
  <2>1. [month |-> month, analyses |-> 0] \in Use
    BY <1>1 DEF Use
  <2>2. made[month] + 1 \in 0 .. MaxMade
    BY <1>1, <1>5 DEF MakeEntry
  <2>3. /\ UNCHANGED <<month, account, usage, slots, keys, goal, limit, charged>>
        /\ made' = [made EXCEPT ![month] = made[month] + 1]
        /\ entries' = [entries EXCEPT ![e] = [month |-> month, analyses |-> 0]]
        /\ hold' = [hold EXCEPT ![t] = e]
        /\ pc' = [pc EXCEPT ![t] = "install"]
    BY <1>5 DEF MakeEntry
  <2>. HIDE BillingAssumption
  <2>4. made' \in [0 .. MaxMonth -> 0 .. MaxMade] /\ entries' \in [Entry -> Use]
    BY <1>1, <2>1, <2>2, <2>3
  <2>. QED  BY <1>1, <2>3, <2>4 DEF FitsInv, TypeOK
<1>6. CASE Install(t)
  <2>1. entries' \in [Entry -> Use]
    BY <1>6, SweptKeeps DEF Install
  <2>. QED  BY <1>1, <1>6, <2>1 DEF Install, FitsInv, TypeOK
<1>7. CASE Count(t)
  <2>1. /\ pc[t] = "count" /\ hold[t] \in Entry
        /\ entries[hold[t]].analyses < limit[t]
        /\ entries' = [entries EXCEPT ![hold[t]].analyses = @ + 1]
        /\ pc' = [pc EXCEPT ![t] = "save"]
        /\ UNCHANGED <<month, account, usage, made, slots, keys, locals, charged>>
    BY <1>1, <1>7 DEF Count
  <2>2. entries' \in [Entry -> Use]
    <3>1. entries[hold[t]] \in Use
      BY <1>1, <2>1
    <3> DEFINE use == entries[hold[t]]
    <3>2. use.analyses \in Nat /\ use.analyses + 1 <= Largest(Quota)
      <4>1. use.analyses < limit[t] /\ limit[t] \in Nat /\ limit[t] <= Largest(Quota)
        BY <1>1, <2>1
      <4>2. use.analyses \in Nat
        BY <1>1, <3>1 DEF Use
      <4>. HIDE DEF use
      <4>. QED  BY ONLY <1>1, <4>1, <4>2
    <3>3. [use EXCEPT !.analyses = @ + 1] \in Use
      <4>1. use \in Use
        BY <3>1
      <4>. HIDE DEF use
      <4>2. use.analyses + 1 \in 0 .. Largest(Quota)
        BY ONLY <1>1, <3>2
      <4>. QED  BY ONLY <4>1, <4>2 DEF Use
    <3>. QED  BY <1>1, <2>1, <3>3
  <2>. QED  BY <1>1, <2>1, <2>2 DEF FitsInv, TypeOK
<1>8. ASSUME Leave(t), UNCHANGED <<month, account, slots, keys>>,
              entries' \in [Entry -> Use], charged' \in [0 .. MaxMonth -> Nat]
       PROVE  FitsInv'
  <2>1. /\ pc' = [pc EXCEPT ![t] = "idle"] /\ goal' = [goal EXCEPT ![t] = "none"]
        /\ limit' = [limit EXCEPT ![t] = 0] /\ hold' = [hold EXCEPT ![t] = None]
        /\ UNCHANGED <<usage, made>>
    BY <1>8 DEF Leave
  <2>. HIDE BillingAssumption
  <2>. QED  BY <1>1, <1>8, <2>1 DEF FitsInv, TypeOK
<1>9. CASE QuotaReached(t) \/ SaveFails(t)
  <2>1. entries' \in [Entry -> Use]
    BY <1>9, SweptKeeps DEF QuotaReached, SaveFails, Leave
  <2>2. Leave(t) /\ UNCHANGED <<month, account, slots, keys, charged>>
    BY <1>9 DEF QuotaReached, SaveFails
  <2>. QED  BY <1>1, <1>8, <2>1, <2>2
<1>10. CASE Answer(t)
  <2>1. entries' \in [Entry -> Use]
    BY <1>10, SweptKeeps DEF Answer, Leave
  <2>2. hold[t] \in Entry /\ entries[hold[t]].month \in 0 .. MaxMonth
    BY <1>1, <1>10 DEF Answer, Use
  <2>3. charged' \in [0 .. MaxMonth -> Nat]
    <3>1. charged' = [charged EXCEPT ![entries[hold[t]].month] = @ + 1]
      BY <1>10 DEF Answer
    <3>2. \A m \in 0 .. MaxMonth : charged[m] + 1 \in Nat
      BY <1>1
    <3>. QED  BY ONLY <1>1, <2>2, <3>1, <3>2
  <2>4. Leave(t) /\ UNCHANGED <<month, account, slots, keys>>
    BY <1>10 DEF Answer
  <2>. QED  BY <1>1, <1>8, <2>1, <2>3, <2>4
<1>11. CASE \/ Register(t) \/ InsertRegistration(t) \/ RegistrationFails(t)
           \/ Mint(t) \/ InsertKey(t)
  <2>1. /\ UNCHANGED <<month, account, meter, ingested, locals, charged>>
        /\ regs' \in {regs, regs + 1} /\ keys' \in {keys, keys + 1}
        /\ \E to \in {"idle", "insert", "mint"} : pc' = [pc EXCEPT ![t] = to]
    BY <1>11 DEF Register, InsertRegistration, RegistrationFails, Mint,
       InsertKey, HasRoom
  <2>. HIDE BillingAssumption
  <2>. QED  BY <1>1, <2>1 DEF FitsInv, TypeOK
<1>. QED
  BY <1>2, <1>3, <1>4, <1>5, <1>6, <1>7, <1>9, <1>10, <1>11 DEF ThreadStep

(* Every step keeps the types.                                             *)
LEMMA FitsNext == FitsInv /\ [Next]_vars => FitsInv'
<1> SUFFICES ASSUME FitsInv, [Next]_vars PROVE FitsInv'
  OBVIOUS
<1>1. ASSUME UNCHANGED <<meter, pc, locals, charged, slots>>, keys' \in Nat,
             month' \in 0 .. MaxMonth, account' \in AccountRecord
      PROVE  FitsInv'
  BY <1>1 DEF FitsInv, TypeOK, meter, locals
<1>2. /\ month \in 0 .. MaxMonth /\ MaxMonth \in Nat /\ keys \in Nat
      /\ account \in AccountRecord
  BY DEF FitsInv, TypeOK
<1>3. CASE RevokeKey
  BY <1>1, <1>2, <1>3 DEF RevokeKey
<1>4. ASSUME NEW m \in 0 .. MaxMonth, ActivateLicense(m) \/ PaymentEvent(m)
      PROVE  FitsInv'
  <2>1. account' \in AccountRecord
    BY <1>4 DEF ActivateLicense, PaymentEvent, AccountRecord, Plan
  <2>. QED  BY <1>1, <1>2, <1>4, <2>1 DEF ActivateLicense, PaymentEvent
<1>5. ASSUME NEW p \in Plan, NEW m \in month .. MaxMonth, SetPlan(p, m)
      PROVE  FitsInv'
  <2>1. account' \in AccountRecord
    BY <1>2, <1>5 DEF SetPlan, Free, AccountRecord, Plan
  <2>. QED  BY <1>1, <1>2, <1>5, <2>1 DEF SetPlan
<1>6. CASE CancelEvent
  <2>1. account' \in AccountRecord
    BY <1>2, <1>6 DEF CancelEvent, AccountRecord, Plan
  <2>. QED  BY <1>1, <1>2, <1>6, <2>1 DEF CancelEvent
<1>7. CASE Rollover
  BY <1>1, <1>2, <1>7 DEF Rollover
<1>8. CASE UNCHANGED vars
  BY <1>1, <1>2, <1>8 DEF vars
<1>9. CASE Ingest
  <2>1. ingested' \in 0 .. MaxIngested
    BY <1>9 DEF Ingest, FitsInv, TypeOK
  <2>. QED  BY <1>9, <2>1 DEF Ingest, FitsInv, TypeOK, meter, locals
<1>. QED
  BY <1>3, <1>4, <1>5, <1>6, <1>7, <1>8, <1>9, ThreadFits DEF Next

(* Every variable keeps to its domain; in particular no usage entry counts *)
(* more than the largest quota, although plans change between the reading  *)
(* of the quota and the counting (check_and_count_analysis in billing.py). *)
THEOREM BillingTypeCorrect == Spec => []TypeOK
<1>1. FitsInv => TypeOK
  BY DEF FitsInv
<1>. QED  BY <1>1, FitsInit, FitsNext, PTL DEF Spec

-----------------------------------------------------------------------------
(* What the ledger is kept by.                                             *)
HIDE BillingAssumption

(* An entry is in use when the store or a thread refers to it.             *)
LEMMA InUseMember ==
    ASSUME FitsInv, NEW m, NEW e
    PROVE  e \in InUse(m) <=> /\ e \in Entry
                              /\ entries[e].month = m
                              /\ e = usage \/ \E t \in Thread : hold[t] = e
<1>1. hold \in [Thread -> Entry \cup {None}]
  BY DEF FitsInv, TypeOK
<1>. QED  BY <1>1 DEF InUse, Range

(* And after a step.                                                       *)
LEMMA InUseNext ==
    ASSUME FitsInv', NEW m, NEW e
    PROVE  e \in InUse(m)' <=> /\ e \in Entry
                               /\ entries'[e].month = m
                               /\ e = usage' \/ \E t \in Thread : hold'[t] = e
<1>1. hold' \in [Thread -> Entry \cup {None}]
  BY DEF FitsInv, TypeOK
<1>. QED  BY <1>1 DEF InUse, Range

(* An entry counts at most the largest quota, for one of the months.       *)
LEMMA EntryType ==
    ASSUME FitsInv, NEW e \in Entry
    PROVE  /\ entries[e].month \in 0 .. MaxMonth
           /\ entries[e].analyses \in Nat
           /\ entries[e].analyses <= Largest(Quota)
           /\ Largest(Quota) \in Nat
<1>1. Largest(Quota) \in Nat
  BY LargestBounds, BillingAssumption
<1>2. entries[e] \in Use
  BY DEF FitsInv, TypeOK
<1>. QED  BY <1>1, <1>2 DEF Use

(* The analyses under way on an entry are a number.                        *)
LEMMA SavingType ==
    ASSUME NEW e
    PROVE  /\ Saving(e) \in Nat
           /\ IsFiniteSet({t \in Thread : pc[t] = "save" /\ hold[t] = e})
BY FS_Subset, FS_CardinalityType, BillingAssumption DEF Saving

(* No thread comes to save on an entry.                                    *)
LEMMA SavingFalls ==
    ASSUME NEW e,
           \A t \in Thread : pc'[t] = "save" /\ hold'[t] = e
                                => pc[t] = "save" /\ hold[t] = e
    PROVE  Saving(e)' \in Nat /\ Saving(e)' <= Saving(e)
<1> DEFINE before == {t \in Thread : pc[t] = "save" /\ hold[t] = e}
           after == {t \in Thread : pc'[t] = "save" /\ hold'[t] = e}
<1>1. after \subseteq before /\ IsFiniteSet(before)
  BY SavingType
<1>2. Cardinality(after) \in Nat /\ Cardinality(after) <= Cardinality(before)
  BY <1>1, FS_Subset, FS_CardinalityType
<1>. QED  BY <1>2 DEF Saving

(* A thread that has counted on an entry starts to save.                   *)
LEMMA SavingGains ==
    ASSUME FitsInv, NEW t \in Thread, pc[t] # "save",
           pc' = [pc EXCEPT ![t] = "save"], hold' = hold
    PROVE  Saving(hold[t])' = Saving(hold[t]) + 1
<1> DEFINE before == {u \in Thread : pc[u] = "save" /\ hold[u] = hold[t]}
           after == {u \in Thread : pc'[u] = "save" /\ hold'[u] = hold'[t]}
<1>1. pc \in [Thread -> Place]
  BY DEF FitsInv, TypeOK, Place
<1>2. after = before \cup {t} /\ t \notin before
  BY <1>1
<1>3. IsFiniteSet(before)
  BY SavingType
<1> HIDE DEF before, after
<1>4. Cardinality(after) = Cardinality(before) + 1
  BY <1>2, <1>3, FS_AddElement
<1>. QED  BY <1>4 DEF Saving, before, after

(* A thread is done with saving.                                           *)
LEMMA SavingLoses ==
    ASSUME FitsInv, NEW t \in Thread, pc[t] = "save", NEW e, hold[t] = e,
           pc' = [pc EXCEPT ![t] = "idle"], hold' = [hold EXCEPT ![t] = None]
    PROVE  Saving(e)' \in Nat /\ Saving(e)' + 1 = Saving(e)
<1> DEFINE before == {u \in Thread : pc[u] = "save" /\ hold[u] = e}
           after == {u \in Thread : pc'[u] = "save" /\ hold'[u] = e}
<1>1. pc \in [Thread -> Place] /\ hold \in [Thread -> Entry \cup {None}]
  BY DEF FitsInv, TypeOK, Place
<1>2. before = after \cup {t} /\ t \notin after
  BY <1>1
<1>3. IsFiniteSet(before) /\ after \subseteq before
  BY <1>2, SavingType
<1> HIDE DEF before, after
<1>4. Cardinality(before) = Cardinality(after) + 1 /\ Cardinality(after) \in Nat
  BY <1>2, <1>3, FS_AddElement, FS_CardinalityType, FS_Subset
<1>. QED  BY <1>4 DEF Saving, before, after

(* What is laid out is finite, and so is each row.                         *)
LEMMA PaidFinite ==
    ASSUME NEW n \in Nat,
           NEW paid \in SUBSET ((1 .. n) \X (1 .. Largest(Quota)))
    PROVE  /\ IsFiniteSet(paid) /\ Cardinality(paid) \in Nat
           /\ Cardinality(paid) <= n * Largest(Quota)
           /\ \A i : /\ IsFiniteSet(Row(paid, i))
                     /\ Cardinality(Row(paid, i)) \in 0 .. Largest(Quota)
<1>1. Largest(Quota) \in Nat
  BY LargestBounds, BillingAssumption
<1>2. /\ IsFiniteSet(1 .. n) /\ Cardinality(1 .. n) = n
      /\ IsFiniteSet(1 .. Largest(Quota))
      /\ Cardinality(1 .. Largest(Quota)) = Largest(Quota)
  <2>1. \A k \in Nat : IsFiniteSet(1 .. k) /\ Cardinality(1 .. k) = k
    BY FS_Interval
  <2>. QED  BY <1>1, <2>1
<1>3. /\ IsFiniteSet((1 .. n) \X (1 .. Largest(Quota)))
      /\ Cardinality((1 .. n) \X (1 .. Largest(Quota))) = n * Largest(Quota)
  <2>1. \A S, T : IsFiniteSet(S) /\ IsFiniteSet(T)
           => /\ IsFiniteSet(S \X T)
              /\ Cardinality(S \X T) = Cardinality(S) * Cardinality(T)
    BY FS_Product, Zenon
  <2> DEFINE rows == 1 .. n
             places == 1 .. Largest(Quota)
  <2>2. /\ IsFiniteSet(rows) /\ Cardinality(rows) = n
        /\ IsFiniteSet(places) /\ Cardinality(places) = Largest(Quota)
    BY <1>2
  <2> HIDE DEF rows, places
  <2>3. /\ IsFiniteSet(rows \X places)
        /\ Cardinality(rows \X places) = n * Largest(Quota)
    BY ONLY <2>1, <2>2, Zenon
  <2>. QED  BY ONLY <2>3 DEF rows, places
<1>4. IsFiniteSet(paid) /\ Cardinality(paid) <= n * Largest(Quota)
  BY <1>3, FS_Subset
<1>5. ASSUME NEW i
      PROVE  /\ IsFiniteSet(Row(paid, i))
             /\ Cardinality(Row(paid, i)) \in 0 .. Largest(Quota)
  <2>1. Row(paid, i) \subseteq 1 .. Largest(Quota)
    BY DEF Row
  <2>2. /\ IsFiniteSet(Row(paid, i)) /\ Cardinality(Row(paid, i)) \in Nat
        /\ Cardinality(Row(paid, i)) <= Largest(Quota)
    BY <1>2, <2>1, FS_Subset, FS_CardinalityType
  <2>. QED  BY <1>1, <2>2
<1>. QED  BY <1>4, <1>5, FS_CardinalityType

(* A ledger stays right while nothing is answered, no entry comes into     *)
(* use, and no entry in use loses more counted than unanswered analyses.   *)
LEMMA LaidStays ==
    ASSUME FitsInv, FitsInv', NEW m \in 0 .. MaxMonth, Laid(m),
           made'[m] = made[m], charged'[m] = charged[m],
           \A e \in InUse(m)' :
              /\ e \in InUse(m)
              /\ Saving(e)' \in Nat
              /\ Saving(e)' + entries[e].analyses
                    <= entries'[e].analyses + Saving(e)
    PROVE  Laid(m)'
<1>1. PICK row \in [Entry -> 0 .. made[m]],
           paid \in SUBSET ((1 .. made[m]) \X (1 .. Largest(Quota))) :
              Ledger(m, row, paid)
  BY DEF Laid
<1>2. made[m] \in Nat
  BY BillingAssumption DEF FitsInv, TypeOK
<1>3. ASSUME NEW e \in InUse(m)'
      PROVE  Cardinality(Row(paid, row[e])) + Saving(e)' <= entries'[e].analyses
  <2>1. e \in InUse(m) /\ e \in Entry
    BY InUseMember
  <2>2. /\ Cardinality(Row(paid, row[e])) + Saving(e) <= entries[e].analyses
        /\ Saving(e)' + entries[e].analyses <= entries'[e].analyses + Saving(e)
        /\ Saving(e)' \in Nat
    BY <1>1, <2>1 DEF Ledger
  <2>3. Saving(e) \in Nat
    BY SavingType
  <2>4. Cardinality(Row(paid, row[e])) \in Nat
    <3>1. Cardinality(Row(paid, row[e])) \in 0 .. Largest(Quota)
      BY <1>2, PaidFinite
    <3>2. Largest(Quota) \in Nat
      BY LargestBounds, BillingAssumption
    <3>. QED  BY <3>1, <3>2
  <2>5. entries[e].analyses \in Nat /\ entries'[e].analyses \in Nat
    BY <2>1 DEF FitsInv, TypeOK, Use
  <2>. QED  BY ONLY <2>2, <2>3, <2>4, <2>5
<1>4. Ledger(m, row, paid)'
  BY <1>1, <1>3 DEF Ledger
<1>. QED  BY <1>4 DEF Laid

(* Handlers, plans and months that answer nothing and make no entry.       *)
LEMMA OthersKeep ==
    ASSUME FitsInv, FitsInv', NEW m \in 0 .. MaxMonth, Laid(m),
           made'[m] = made[m], charged'[m] = charged[m],
           \A t \in Thread : \/ hold'[t] = hold[t]
                             \/ hold'[t] \in {None, usage},
           usage' = usage \/ \E t \in Thread : usage' = hold[t],
           \A t \in Thread : pc'[t] = "save" =>
                                pc[t] = "save" /\ hold'[t] = hold[t],
           \A e \in Entry :
              e = usage' \/ (\E t \in Thread : hold'[t] = e)
                 => entries'[e] = entries[e]
    PROVE  Laid(m)'
<1>1. ASSUME NEW e \in InUse(m)'
      PROVE  /\ e \in InUse(m)
             /\ Saving(e)' \in Nat
             /\ Saving(e)' + entries[e].analyses
                   <= entries'[e].analyses + Saving(e)
  <2>1. /\ e \in Entry /\ entries'[e].month = m
        /\ e = usage' \/ \E t \in Thread : hold'[t] = e
    BY InUseNext
  <2>2. entries'[e] = entries[e]
    BY <2>1
  <2>3. e # None
    BY <2>1, BillingAssumption
  <2>4. e = usage \/ \E t \in Thread : hold[t] = e
    BY <2>1, <2>3
  <2>5. Saving(e)' \in Nat /\ Saving(e)' <= Saving(e)
    BY SavingFalls
  <2>6. Saving(e) \in Nat /\ entries[e].analyses \in Nat
    BY <2>1, SavingType, EntryType
  <2>7. e \in InUse(m)
    BY <2>1, <2>2, <2>4, InUseMember
  <2>. QED  BY <2>2, <2>5, <2>6, <2>7
<1>. QED  BY <1>1, LaidStays

(* Count: what is counted is not answered yet.                             *)
LEMMA CountKeeps ==
    ASSUME FitsInv, FitsInv', NEW m \in 0 .. MaxMonth, Laid(m),
           NEW t \in Thread, Count(t)
    PROVE  Laid(m)'
<1> DEFINE h == hold[t]
<1>1. /\ pc[t] = "count" /\ h \in Entry
      /\ entries' = [entries EXCEPT ![h].analyses = @ + 1]
      /\ pc' = [pc EXCEPT ![t] = "save"]
      /\ hold' = hold /\ usage' = usage /\ made' = made /\ charged' = charged
  BY DEF Count, FitsInv, Goto, locals
<1>2. entries \in [Entry -> Use] /\ pc \in [Thread -> Place]
  BY DEF FitsInv, TypeOK, Place
<1>3. /\ entries'[h].month = entries[h].month
      /\ entries'[h].analyses = entries[h].analyses + 1
      /\ \A e \in Entry \ {h} : entries'[e] = entries[e]
  BY <1>1, <1>2 DEF Use
<1>4. ASSUME NEW e \in InUse(m)'
      PROVE  /\ e \in InUse(m)
             /\ Saving(e)' \in Nat
             /\ Saving(e)' + entries[e].analyses
                   <= entries'[e].analyses + Saving(e)
  <2>1. /\ e \in Entry /\ entries'[e].month = m
        /\ e = usage' \/ \E u \in Thread : hold'[u] = e
    BY InUseNext
  <2>2. e \in InUse(m)
    BY <1>1, <1>3, <2>1, InUseMember
  <2>3. Saving(e) \in Nat /\ entries[e].analyses \in Nat
    BY <2>1, SavingType, EntryType
  <2>4. CASE e = h
    <3>1. Saving(e)' = Saving(e) + 1
      BY <1>1, <2>4, SavingGains
    <3>. QED  BY <1>3, <2>2, <2>3, <2>4, <3>1
  <2>5. CASE e # h
    <3>1. \A u \in Thread : pc'[u] = "save" /\ hold'[u] = e
                               => pc[u] = "save" /\ hold[u] = e
      BY <1>1, <1>2, <2>5
    <3>2. Saving(e)' \in Nat /\ Saving(e)' <= Saving(e)
      BY <3>1, SavingFalls
    <3>. QED  BY <1>3, <2>1, <2>2, <2>3, <2>5, <3>2
  <2>. QED  BY <2>4, <2>5
<1>. QED  BY <1>1, <1>4, LaidStays

(* MakeEntry: the new entry starts a row of its own.                       *)
LEMMA MakeEntryKeeps ==
    ASSUME FitsInv, FitsInv', NEW m \in 0 .. MaxMonth, Laid(m),
           NEW t \in Thread, NEW n \in Entry, MakeEntry(t, n)
    PROVE  Laid(m)'
<1>1. /\ pc[t] = "lookup"
      /\ n # usage /\ \A u \in Thread : hold[u] # n
      /\ made' = [made EXCEPT ![month] = made[month] + 1]
      /\ entries' = [entries EXCEPT ![n] = [month |-> month, analyses |-> 0]]
      /\ hold' = [hold EXCEPT ![t] = n]
      /\ pc' = [pc EXCEPT ![t] = "install"]
      /\ usage' = usage /\ charged' = charged
  BY DEF MakeEntry, Goto, FitsInv, TypeOK, Range
<1>2. /\ entries \in [Entry -> Use] /\ pc \in [Thread -> Place]
      /\ hold \in [Thread -> Entry \cup {None}]
      /\ made \in [0 .. MaxMonth -> Nat] /\ month \in 0 .. MaxMonth
  <2>1. made \in [0 .. MaxMonth -> 0 .. MaxMade]
    BY DEF FitsInv, TypeOK
  <2>2. \A k \in 0 .. MaxMade : k \in Nat
    BY BillingAssumption
  <2>3. made \in [0 .. MaxMonth -> Nat]
    BY <2>1, <2>2
  <2>. QED  BY <2>3 DEF FitsInv, TypeOK, Place
<1>3. ASSUME NEW e \in InUse(m)', e # n
      PROVE  /\ e \in Entry /\ e \in InUse(m)
             /\ entries'[e] = entries[e]
             /\ Saving(e)' \in Nat /\ Saving(e)' <= Saving(e)
  <2>1. /\ e \in Entry /\ entries'[e].month = m
        /\ e = usage' \/ \E u \in Thread : hold'[u] = e
    BY InUseNext
  <2>2. /\ entries'[e] = entries[e]
        /\ e = usage \/ \E u \in Thread : hold[u] = e
    BY <1>1, <1>2, <1>3, <2>1
  <2>3. \A u \in Thread : pc'[u] = "save" /\ hold'[u] = e
                             => pc[u] = "save" /\ hold[u] = e
    BY <1>1, <1>2
  <2>4. Saving(e)' \in Nat /\ Saving(e)' <= Saving(e)
    BY <2>3, SavingFalls
  <2>. QED  BY <2>1, <2>2, <2>4, InUseMember
<1>4. CASE m # month
  <2>1. made'[m] = made[m]
    BY <1>1, <1>2, <1>4
  <2>2. n \notin InUse(m)'
    BY <1>1, <1>2, <1>4, InUseNext
  <2>3. ASSUME NEW e \in InUse(m)'
        PROVE  /\ e \in InUse(m)
               /\ Saving(e)' \in Nat
               /\ Saving(e)' + entries[e].analyses
                     <= entries'[e].analyses + Saving(e)
    <3>1. /\ e \in Entry /\ e \in InUse(m)
          /\ entries'[e] = entries[e]
          /\ Saving(e)' \in Nat /\ Saving(e)' <= Saving(e)
      BY <1>3, <2>2
    <3>2. Saving(e) \in Nat /\ entries[e].analyses \in Nat
      BY <3>1, SavingType, EntryType
    <3>. QED  BY <3>1, <3>2
  <2>. QED  BY <1>1, <2>1, <2>3, LaidStays
<1>5. CASE m = month
  <2>1. PICK row \in [Entry -> 0 .. made[m]],
             paid \in SUBSET ((1 .. made[m]) \X (1 .. Largest(Quota))) :
                Ledger(m, row, paid)
    BY DEF Laid
  <2>2. PICK k \in Nat : k = made[m] /\ made'[m] = k + 1
    BY <1>1, <1>2, <1>5
  <2>3. PICK new : new = [row EXCEPT ![n] = k + 1]
    OBVIOUS
  <2>4. /\ \A e \in Entry \ {n} : new[e] = row[e] /\ row[e] \in 0 .. k
        /\ new[n] = k + 1
    BY <2>1, <2>2, <2>3
  <2>5. new \in [Entry -> 0 .. made'[m]]
    BY <2>1, <2>2, <2>3
  <2>6. paid \in SUBSET ((1 .. made'[m]) \X (1 .. Largest(Quota)))
    BY <2>1, <2>2
  <2>7. Cardinality(Row(paid, k + 1)) = 0
    <3>1. Row(paid, k + 1) = {}
      BY <2>1, <2>2 DEF Row
    <3>. QED  BY <3>1, FS_EmptySet
  <2>8. Saving(n)' = 0 /\ entries'[n].analyses = 0
    <3>1. {u \in Thread : pc'[u] = "save" /\ hold'[u] = n} = {}
      BY <1>1, <1>2
    <3>2. entries'[n].analyses = 0
      BY <1>1, <1>2
    <3>. QED  BY <3>1, <3>2, FS_EmptySet DEF Saving
  <2>9. ASSUME NEW e \in InUse(m)', e # n
        PROVE  /\ row[e] # 0
               /\ Cardinality(Row(paid, row[e])) + Saving(e)'
                     <= entries'[e].analyses
    <3>1. /\ e \in Entry /\ e \in InUse(m) /\ entries'[e] = entries[e]
          /\ Saving(e)' \in Nat /\ Saving(e)' <= Saving(e)
      BY <1>3, <2>9
    <3>2. /\ row[e] # 0
          /\ Cardinality(Row(paid, row[e])) + Saving(e) <= entries[e].analyses
      BY <2>1, <3>1 DEF Ledger
    <3>3. Cardinality(Row(paid, row[e])) \in 0 .. Largest(Quota)
      BY <2>1, <2>2, PaidFinite
    <3>4. Saving(e) \in Nat /\ entries[e].analyses \in Nat
          /\ Largest(Quota) \in Nat
      BY <3>1, SavingType, EntryType
    <3>. QED  BY ONLY <3>1, <3>2, <3>3, <3>4
  <2>10. \A e \in InUse(m)' :
           /\ new[e] # 0
           /\ Cardinality(Row(paid, new[e])) + Saving(e)' <= entries'[e].analyses
    <3>1. ASSUME NEW e \in InUse(m)'
          PROVE  /\ new[e] # 0
                 /\ Cardinality(Row(paid, new[e])) + Saving(e)'
                       <= entries'[e].analyses
      <4>1. e \in Entry
        BY InUseNext
      <4>2. CASE e = n
        BY <2>2, <2>4, <2>7, <2>8, <4>2
      <4>3. CASE e # n
        BY <2>4, <2>9, <4>1, <4>3
      <4>. QED  BY <4>2, <4>3
    <3>. QED  BY <3>1
  <2>11. \A e, f \in InUse(m)' : new[e] = new[f] => e = f
    <3>1. ASSUME NEW e \in InUse(m)', NEW f \in InUse(m)', new[e] = new[f]
          PROVE  e = f
      <4>1. e \in Entry /\ f \in Entry
        BY InUseNext
      <4>2. e # n => e \in InUse(m) /\ new[e] = row[e] /\ row[e] \in 0 .. k
        BY <1>3, <2>4, <4>1
      <4>3. f # n => f \in InUse(m) /\ new[f] = row[f] /\ row[f] \in 0 .. k
        BY <1>3, <2>4, <4>1
      <4>4. \A i \in 0 .. k : i # k + 1
        BY <2>2
      <4>5. e = n <=> f = n
        BY <2>4, <3>1, <4>2, <4>3, <4>4
      <4>. QED  BY <2>1, <3>1, <4>2, <4>3, <4>5 DEF Ledger
    <3>. QED  BY <3>1
  <2>12. Cardinality(paid) = charged'[m]
    BY <1>1, <2>1 DEF Ledger
  <2>13. Ledger(m, new, paid)'
    BY <2>10, <2>11, <2>12 DEF Ledger
  <2>. QED  BY <2>5, <2>6, <2>13 DEF Laid
<1>. QED  BY <1>4, <1>5

(* Answer: the analysis is laid into the row of its entry, which has room. *)
LEMMA AnswerKeeps ==
    ASSUME FitsInv, FitsInv', NEW m \in 0 .. MaxMonth, Laid(m),
           NEW t \in Thread, Answer(t)
    PROVE  Laid(m)'
<1>1. PICK h \in Entry : h = hold[t]
  BY DEF Answer, FitsInv
<1>2. /\ pc[t] = "save"
      /\ charged' = [charged EXCEPT ![entries[h].month] = @ + 1]
      /\ pc' = [pc EXCEPT ![t] = "idle"]
      /\ hold' = [hold EXCEPT ![t] = None]
      /\ usage' = usage /\ made' = made
      /\ \A e \in Entry : e \in Range(hold') \cup {usage'}
                             => entries'[e] = entries[e]
  <2>1. entries' = Swept
    BY DEF Answer, Leave
  <2>. QED  BY <1>1, <2>1 DEF Answer, Leave, Goto, Swept
<1>3. /\ entries \in [Entry -> Use] /\ pc \in [Thread -> Place]
      /\ hold \in [Thread -> Entry \cup {None}]
      /\ charged \in [0 .. MaxMonth -> Nat]
  BY DEF FitsInv, TypeOK, Place
<1>4. ASSUME NEW e \in InUse(m)'
      PROVE  /\ e \in Entry /\ e \in InUse(m)
             /\ entries'[e] = entries[e]
             /\ Saving(e)' \in Nat /\ Saving(e)' <= Saving(e)
             /\ e = h => Saving(e)' + 1 = Saving(e)
  <2>1. /\ e \in Entry /\ entries'[e].month = m
        /\ e = usage' \/ \E u \in Thread : hold'[u] = e
    BY InUseNext
  <2>2. e # None
    BY <2>1, BillingAssumption
  <2>3. e = usage \/ \E u \in Thread : hold[u] = e
    BY <1>2, <1>3, <2>1, <2>2
  <2>4. e \in Range(hold') \cup {usage'}
    BY <2>1, <1>2, <1>3 DEF Range
  <2>5. entries'[e] = entries[e]
    BY <1>2, <2>1, <2>4
  <2>6. \A u \in Thread : pc'[u] = "save" /\ hold'[u] = e
                             => pc[u] = "save" /\ hold[u] = e
    BY <1>2, <1>3
  <2>7. Saving(e)' \in Nat /\ Saving(e)' <= Saving(e)
    BY <2>6, SavingFalls
  <2>8. e = h => Saving(e)' + 1 = Saving(e)
    BY <1>1, <1>2, SavingLoses
  <2>9. e \in InUse(m)
    BY <2>1, <2>3, <2>5, InUseMember
  <2>. QED  BY <2>1, <2>5, <2>7, <2>8, <2>9
<1>5. CASE m # entries[h].month
  <2>1. charged'[m] = charged[m]
    BY <1>2, <1>3, <1>5
  <2>2. ASSUME NEW e \in InUse(m)'
        PROVE  /\ e \in InUse(m)
               /\ Saving(e)' \in Nat
               /\ Saving(e)' + entries[e].analyses
                     <= entries'[e].analyses + Saving(e)
    <3>1. /\ e \in Entry /\ e \in InUse(m)
          /\ entries'[e] = entries[e]
          /\ Saving(e)' \in Nat /\ Saving(e)' <= Saving(e)
      BY <1>4
    <3>2. Saving(e) \in Nat /\ entries[e].analyses \in Nat
      BY <3>1, SavingType, EntryType
    <3>. QED  BY <3>1, <3>2
  <2>. QED  BY <1>2, <2>1, <2>2, LaidStays
<1>6. CASE m = entries[h].month
  <2>1. PICK row \in [Entry -> 0 .. made[m]],
             paid \in SUBSET ((1 .. made[m]) \X (1 .. Largest(Quota))) :
                Ledger(m, row, paid)
    BY DEF Laid
  <2>2. PICK n \in Nat : n = made[m] /\ made'[m] = n
    <3>1. made[m] \in 0 .. MaxMade
      BY DEF FitsInv, TypeOK
    <3>. QED  BY <1>2, <3>1, BillingAssumption
  <2>3. h \in InUse(m)
    BY <1>1, <1>6, InUseMember
  <2>4. PICK r \in 1 .. n : r = row[h]
    <3>1. row[h] \in 0 .. n /\ row[h] # 0
      BY <2>1, <2>2, <2>3 DEF Ledger
    <3>. QED  BY <2>2, <3>1
  <2>5. \A i : /\ IsFiniteSet(Row(paid, i))
               /\ Cardinality(Row(paid, i)) \in 0 .. Largest(Quota)
    BY <2>1, <2>2, PaidFinite
  <2>6. Largest(Quota) \in Nat
    BY EntryType
  <2>7. Cardinality(Row(paid, r)) < Largest(Quota)
    <3>1. Cardinality(Row(paid, r)) + Saving(h) <= entries[h].analyses
      BY <2>1, <2>3, <2>4 DEF Ledger
    <3>2. Saving(h) \in Nat \ {0}
      <4>1. Saving(h)' \in Nat /\ Saving(h)' + 1 = Saving(h)
        BY <1>1, <1>2, SavingLoses
      <4>. QED  BY ONLY <4>1
    <3>3. entries[h].analyses \in Nat
          /\ entries[h].analyses <= Largest(Quota)
      BY EntryType
    <3>. QED  BY ONLY <2>5, <2>6, <3>1, <3>2, <3>3
  <2>8. PICK q \in 1 .. Largest(Quota) : q \notin Row(paid, r)
    <3>1. Cardinality(1 .. Largest(Quota)) = Largest(Quota)
      BY <2>6, FS_Interval
    <3>2. Row(paid, r) # 1 .. Largest(Quota)
      BY <2>5, <2>6, <2>7, <3>1
    <3>. QED  BY <3>2 DEF Row
  <2>9. PICK more : more = paid \cup {<<r, q>>}
    OBVIOUS
  <2>10. more \in SUBSET ((1 .. made'[m]) \X (1 .. Largest(Quota)))
    BY <2>1, <2>2, <2>4, <2>8, <2>9
  <2>11. Cardinality(more) = charged'[m]
    <3>1. <<r, q>> \notin paid
      BY <2>8 DEF Row
    <3>2. Cardinality(more) = Cardinality(paid) + 1
      BY <2>1, <2>2, <2>9, <3>1, PaidFinite, FS_AddElement
    <3>3. Cardinality(paid) = charged[m]
      BY <2>1 DEF Ledger
    <3>. QED  BY <1>2, <1>3, <1>6, <3>2, <3>3
  <2>12. Cardinality(Row(more, r)) = Cardinality(Row(paid, r)) + 1
    <3>1. Row(more, r) = Row(paid, r) \cup {q}
      BY <2>8, <2>9 DEF Row
    <3>. QED  BY <2>5, <2>8, <3>1, FS_AddElement
  <2>13. \A i : i # r => Row(more, i) = Row(paid, i)
    BY <2>9 DEF Row
  <2>14. ASSUME NEW e \in InUse(m)'
         PROVE  /\ row[e] # 0
                /\ Cardinality(Row(more, row[e])) + Saving(e)'
                      <= entries'[e].analyses
    <3>1. /\ e \in Entry /\ e \in InUse(m)
          /\ entries'[e] = entries[e]
          /\ Saving(e)' \in Nat /\ Saving(e)' <= Saving(e)
          /\ e = h => Saving(e)' + 1 = Saving(e)
      BY <1>4
    <3>2. /\ row[e] # 0
          /\ Cardinality(Row(paid, row[e])) + Saving(e) <= entries[e].analyses
      BY <2>1, <3>1 DEF Ledger
    <3>3. Saving(e) \in Nat /\ entries[e].analyses \in Nat
      BY <3>1, SavingType, EntryType
    <3>4. Cardinality(Row(paid, row[e])) \in Nat
      BY <2>5, <2>6
    <3>5. CASE e = h
      BY ONLY <2>4, <2>12, <3>1, <3>2, <3>3, <3>4, <3>5
    <3>6. CASE e # h
      <4>1. row[e] # r
        BY <2>1, <2>3, <2>4, <3>1, <3>6 DEF Ledger
      <4>2. Row(more, row[e]) = Row(paid, row[e])
        BY <2>13, <4>1
      <4>. QED  BY ONLY <3>1, <3>2, <3>3, <3>4, <4>2
    <3>. QED  BY <3>5, <3>6
  <2>15. \A e, f \in InUse(m)' : row[e] = row[f] => e = f
    BY <1>4, <2>1 DEF Ledger
  <2>16. Ledger(m, row, more)'
    BY <2>11, <2>14, <2>15 DEF Ledger
  <2>17. row \in [Entry -> 0 .. made'[m]]
    BY <2>1, <2>2
  <2>. QED  BY <2>10, <2>16, <2>17 DEF Laid
<1>. QED  BY <1>5, <1>6

(* No entry is in use and nothing is charged at the start.                 *)
LEMMA MeterInit == Init => MeterInv
<1> SUFFICES ASSUME Init PROVE MeterInv
  OBVIOUS
<1>1. FitsInv
  BY FitsInit
<1>2. ASSUME NEW m \in 0 .. MaxMonth
      PROVE  Laid(m)
  <2>1. PICK row : row = [e \in Entry |-> 0]
    OBVIOUS
  <2>2. InUse(m) = {}
    <3>1. usage \notin Entry /\ \A t \in Thread : hold[t] \notin Entry
      BY BillingAssumption DEF Init
    <3>. QED  BY <1>1, <3>1, InUseMember
  <2>3. charged[m] = 0 /\ made[m] = 0
    BY DEF Init
  <2>4. Ledger(m, row, {})
    BY <2>2, <2>3, FS_EmptySet DEF Ledger
  <2>5. row \in [Entry -> 0 .. made[m]]
    BY <2>1, <2>3
  <2>. QED  BY <2>4, <2>5 DEF Laid
<1>. QED  BY <1>1, <1>2 DEF MeterInv

(* Every step keeps the ledger of every month.                             *)
LEMMA MeterNext == MeterInv /\ [Next]_vars => MeterInv'
<1> SUFFICES ASSUME MeterInv, [Next]_vars PROVE MeterInv'
  OBVIOUS
<1>1. FitsInv /\ FitsInv'
  BY FitsNext DEF MeterInv
<1>2. ASSUME NEW m \in 0 .. MaxMonth
      PROVE  Laid(m)'
  <2>1. Laid(m)
    BY DEF MeterInv
  <2>2. /\ hold \in [Thread -> Entry \cup {None}] /\ pc \in [Thread -> Place]
        /\ entries \in [Entry -> Use]
    BY <1>1 DEF FitsInv, TypeOK, Place
  <2>3. ASSUME NEW t \in Thread, UNCHANGED <<made, charged>>,
               hold' = hold \/ hold' = [hold EXCEPT ![t] = usage]
                            \/ hold' = [hold EXCEPT ![t] = None],
               usage' = usage \/ usage' = hold[t],
               NEW to, to # "save", Goto(t, to),
               entries' = entries \/ entries' = Swept
        PROVE  Laid(m)'
    <3>1. \A u \in Thread : \/ hold'[u] = hold[u]
                            \/ hold'[u] \in {None, usage}
      BY <2>2, <2>3
    <3>2. \A u \in Thread : pc'[u] = "save" =>
                               pc[u] = "save" /\ hold'[u] = hold[u]
      BY <2>2, <2>3 DEF Goto
    <3>3. \A e \in Entry : e = usage' \/ (\E u \in Thread : hold'[u] = e)
                              => entries'[e] = entries[e]
      BY <2>2, <2>3 DEF Swept, Range
    <3>. QED  BY <1>1, <2>1, <2>3, <3>1, <3>2, <3>3, OthersKeep
  <2>4. ASSUME NEW t \in Thread, ThreadStep(t)
        PROVE  Laid(m)'
    <3>1. CASE Count(t)
      BY <1>1, <2>1, <3>1, CountKeeps
    <3>2. CASE \E e \in Entry : MakeEntry(t, e)
      BY <1>1, <2>1, <3>2, MakeEntryKeeps
    <3>3. CASE Answer(t)
      BY <1>1, <2>1, <3>3, AnswerKeeps
    <3>4. CASE Analyse(t) \/ Summary(t)
      BY <2>3, <3>4 DEF Analyse, Summary, Begin, meter
    <3>5. CASE LookUp(t)
      BY <2>3, <3>5 DEF LookUp, meter
    <3>6. CASE Install(t)
      BY <2>3, <3>6 DEF Install
    <3>7. CASE QuotaReached(t) \/ SaveFails(t)
      BY <2>3, <3>7 DEF QuotaReached, SaveFails, Leave
    <3>8. CASE \/ Register(t) \/ InsertRegistration(t) \/ RegistrationFails(t)
               \/ Mint(t) \/ InsertKey(t)
      BY <2>3, <3>8
      DEF Register, InsertRegistration, RegistrationFails, Mint, InsertKey,
          HasRoom, meter, locals
    <3>. QED
      BY <2>4, <3>1, <3>2, <3>3, <3>4, <3>5, <3>6, <3>7, <3>8 DEF ThreadStep
  <2>5. ASSUME UNCHANGED <<meter, pc, locals, charged>>
        PROVE  Laid(m)'
    BY <1>1, <2>1, <2>5, OthersKeep DEF meter, locals
  <2>6. CASE UNCHANGED vars
    BY <2>5, <2>6 DEF vars
  <2>7. CASE Ingest \/ RevokeKey \/ CancelEvent \/ Rollover
    BY <2>5, <2>7 DEF Ingest, RevokeKey, CancelEvent, Rollover
  <2>8. CASE \E n \in 0 .. MaxMonth : ActivateLicense(n) \/ PaymentEvent(n)
    BY <2>5, <2>8 DEF ActivateLicense, PaymentEvent
  <2>9. CASE \E p \in Plan, n \in month .. MaxMonth : SetPlan(p, n)
    BY <2>5, <2>9 DEF SetPlan
  <2>. QED  BY <2>4, <2>6, <2>7, <2>8, <2>9 DEF Next
<1>. QED  BY <1>1, <1>2 DEF MeterInv

(* The rows of a month bound what is answered in it.                       *)
LEMMA MeterImpliesQuota == MeterInv => QuotaKept
<1> SUFFICES ASSUME MeterInv, NEW m \in DOMAIN charged
             PROVE  charged[m] <= made[m] * Largest(Quota)
  BY DEF QuotaKept
<1>1. m \in 0 .. MaxMonth /\ made[m] \in 0 .. MaxMade
  BY DEF MeterInv, FitsInv, TypeOK
<1>2. PICK row \in [Entry -> 0 .. made[m]],
           paid \in SUBSET ((1 .. made[m]) \X (1 .. Largest(Quota))) :
              Ledger(m, row, paid)
  BY <1>1 DEF MeterInv, Laid
<1>3. made[m] \in Nat
  BY <1>1, BillingAssumption
<1>4. Cardinality(paid) <= made[m] * Largest(Quota)
  BY <1>3, PaidFinite
<1>. QED  BY <1>2, <1>4 DEF Ledger

(* A single row holds all that is answered in the month.                   *)
LEMMA MeterImpliesMetered == MeterInv => Metered
<1> SUFFICES ASSUME MeterInv, NEW e \in Entry, e = usage,
                    NEW m, m = entries[e].month, made[m] = 1
             PROVE  charged[m] <= entries[e].analyses
  BY DEF Metered
<1>1. FitsInv
  BY DEF MeterInv
<1>2. m \in 0 .. MaxMonth /\ entries[e].analyses \in Nat
  BY <1>1, EntryType
<1>3. PICK row \in [Entry -> 0 .. made[m]],
           paid \in SUBSET ((1 .. made[m]) \X (1 .. Largest(Quota))) :
              Ledger(m, row, paid)
  BY <1>2 DEF MeterInv, Laid
<1>4. e \in InUse(m)
  BY <1>1, InUseMember
<1>5. /\ row[e] # 0 /\ Cardinality(paid) = charged[m]
      /\ Cardinality(Row(paid, row[e])) + Saving(e) <= entries[e].analyses
  BY <1>3, <1>4 DEF Ledger
<1>6. row[e] = 1
  BY <1>3, <1>5
<1>7. Cardinality(paid) <= Cardinality(Row(paid, 1))
  <2> DEFINE cell == [q \in Row(paid, 1) |-> <<1, q>>]
  <2>1. \A x \in paid : x = <<1, x[2]>> /\ x[2] \in Row(paid, 1)
    BY <1>3 DEF Row
  <2>2. cell \in Surjection(Row(paid, 1), paid)
    BY <2>1 DEF Surjection, Row
  <2>3. IsFiniteSet(Row(paid, 1))
    BY PaidFinite
  <2>. QED  BY <2>2, <2>3, FS_Surjection DEF ExistsSurjection
<1>8. /\ Cardinality(Row(paid, 1)) \in 0 .. Largest(Quota)
      /\ Cardinality(paid) \in Nat /\ Largest(Quota) \in Nat
  BY <1>1, PaidFinite, EntryType
<1>9. Saving(e) \in Nat
  BY SavingType
<1>. QED  BY ONLY <1>2, <1>5, <1>6, <1>7, <1>8, <1>9

(* The analyses answered in a month never exceed the quota of the largest  *)
(* plan once for every usage entry made for it, however many threads find  *)
(* no entry of the month and start to count from nothing (_usage and       *)
(* check_and_count_analysis in billing.py).                                *)
THEOREM QuotaHolds == Spec => []QuotaKept
BY MeterInit, MeterNext, MeterImpliesQuota, PTL DEF Spec

(* When a single entry was made for the month, it has counted every        *)
(* analysis that was answered in it, whatever the interleaving of counts,  *)
(* failed saves and answers.                                               *)
THEOREM AnalysesMetered == Spec => []Metered
BY MeterInit, MeterNext, MeterImpliesMetered, PTL DEF Spec
=============================================================================
