--------------------------- MODULE AnalysisProofs ---------------------------
(***************************************************************************)
(* Theorems about Analysis, for any number of threads and registrations,   *)
(* any media and every limit: the cache of reports stays within its        *)
(* bounds; no registration scores more than the one that is reported; and  *)
(* what was cut from a registered video is found in it.                    *)
(***************************************************************************)
EXTENDS Analysis, FiniteSetTheorems, SequenceTheorems, WellFoundedInduction,
        TLAPS

USE AnalysisAssumption

(* The reports in the cache and those about to be inserted.                *)
Kept == Len(cache) + At("insert")

Evicting == {"iter", "oldest", "pop"}

(* A handler that looks for a report to evict has seen the cache full, and *)
(* what is kept never becomes less: an eviction is followed by an          *)
(* insertion.                                                              *)
CacheInv ==
    /\ pc = [t \in Thread |-> pc[t]]
    /\ \E S : cache \in Seq(S)
    /\ stored \in Nat
    /\ \A t \in Thread : pc[t] \in Evicting => Kept >= Limit
    /\ CacheBounded

-----------------------------------------------------------------------------
(* How many threads are at a step, when one of them goes on.               *)

(* At counts threads.                                                      *)
LEMMA AtType == \A step : At(step) \in Nat
BY FS_CardinalityType, FS_Subset DEF At

(* A thread arrives at a step.                                             *)
LEMMA AtGains ==
    ASSUME pc = [u \in Thread |-> pc[u]], NEW t \in Thread, NEW step,
           pc[t] # step, Goto(t, step)
    PROVE  At(step)' = At(step) + 1 /\ At(step)' <= Cardinality(Thread)
<1> DEFINE before == {u \in Thread : pc[u] = step}
           after == {u \in Thread : pc'[u] = step}
<1>1. after = before \cup {t}
  BY DEF Goto
<1>2. t \notin before /\ before \subseteq Thread /\ after \subseteq Thread
  OBVIOUS
<1>3. Cardinality(before) = At(step) /\ Cardinality(after) = At(step)'
  BY DEF At
<1>4. IsFiniteSet(Thread)
  OBVIOUS
<1>. HIDE DEF before, after
<1>5. /\ IsFiniteSet(before)
      /\ Cardinality(after) <= Cardinality(Thread)
  BY ONLY <1>2, <1>4, FS_Subset
<1>6. Cardinality(after) = Cardinality(before) + 1
  BY ONLY <1>1, <1>2, <1>5, FS_AddElement
<1>. QED  BY ONLY <1>3, <1>5, <1>6

(* A thread leaves a step.                                                 *)
LEMMA AtLoses ==
    ASSUME pc = [u \in Thread |-> pc[u]], NEW t \in Thread, NEW step,
           pc[t] = step, NEW next, next # step, Goto(t, next)
    PROVE  At(step)' = At(step) - 1
<1> DEFINE before == {u \in Thread : pc[u] = step}
           after == {u \in Thread : pc'[u] = step}
<1>1. after = before \ {t}
  BY DEF Goto
<1>2. t \in before /\ before \subseteq Thread /\ IsFiniteSet(Thread)
  OBVIOUS
<1>3. Cardinality(before) = At(step) /\ Cardinality(after) = At(step)'
  BY DEF At
<1>. HIDE DEF before, after
<1>4. IsFiniteSet(before)
  BY ONLY <1>2, FS_Subset
<1>5. Cardinality(after) = Cardinality(before) - 1
  BY ONLY <1>1, <1>2, <1>4, FS_RemoveElement
<1>. QED  BY ONLY <1>3, <1>5

(* A thread moves between other steps.                                     *)
LEMMA AtKeeps ==
    ASSUME pc = [u \in Thread |-> pc[u]], NEW t \in Thread, NEW step,
           pc[t] # step, NEW next, next # step, Goto(t, next)
    PROVE  At(step)' = At(step)
<1>1. \A u \in Thread : pc'[u] = step <=> pc[u] = step
  BY DEF Goto
<1>. QED  BY <1>1 DEF At

(* One report out of the cache.                                            *)
LEMMA OneOut ==
    ASSUME NEW S, NEW seq \in Seq(S), NEW n \in DOMAIN seq
    PROVE  /\ RemoveAt(seq, n) \in Seq(S)
           /\ Len(RemoveAt(seq, n)) = Len(seq) - 1
<1>1. n \in 1 .. Len(seq) /\ Len(seq) \in Nat
  BY LenProperties
<1>2. /\ SubSeq(seq, 1, n - 1) \in Seq(S)
      /\ Len(SubSeq(seq, 1, n - 1)) = n - 1
  BY <1>1, ElementOfSeq, SubSeqProperties
<1>3. /\ SubSeq(seq, n + 1, Len(seq)) \in Seq(S)
      /\ Len(SubSeq(seq, n + 1, Len(seq))) = Len(seq) - n
  BY <1>1, ElementOfSeq, SubSeqProperties
<1>4. Len(seq) - n + n = Len(seq) /\ n - 1 + (Len(seq) - n) = Len(seq) - 1
  BY <1>1
<1> DEFINE front == SubSeq(seq, 1, n - 1)
           back == SubSeq(seq, n + 1, Len(seq))
<1>5. RemoveAt(seq, n) = front \o back
  BY ONLY DEF RemoveAt
<1>. HIDE DEF front, back
<1>6. /\ front \o back \in Seq(S)
      /\ Len(front \o back) = Len(front) + Len(back)
  <2>1. front \in Seq(S) /\ back \in Seq(S)
    BY ONLY <1>2, <1>3 DEF front, back
  <2>. QED  BY ONLY <2>1, ConcatProperties, Zenon
<1>7. Len(front) = n - 1 /\ Len(back) = Len(seq) - n
  BY ONLY <1>2, <1>3 DEF front, back
<1>. QED  BY ONLY <1>4, <1>5, <1>6, <1>7

-----------------------------------------------------------------------------
(* The cache starts empty.                                                 *)
LEMMA CacheInit == Init => CacheInv
<1> SUFFICES ASSUME Init PROVE CacheInv
  OBVIOUS
<1>1. cache \in Seq(Int) /\ Len(cache) = stored /\ stored \in 0 .. Limit
  <2>1. stored \in Nat /\ stored \in 0 .. Limit
    BY DEF Init
  <2>2. \A n \in 1 .. stored : -n \in Int
    BY <2>1
  <2>3. [n \in 1 .. stored |-> -n] \in Seq(Int)
    BY <2>1, <2>2
  <2>4. Len([n \in 1 .. stored |-> -n]) = stored
    BY <2>1
  <2>. QED  BY <2>1, <2>3, <2>4 DEF Init
<1>2. At("insert") = 0
  <2>1. {t \in Thread : pc[t] = "insert"} = {}
    BY DEF Init
  <2>. QED  BY <2>1, FS_EmptySet DEF At
<1>3. Cardinality(Thread) \in Nat \ {0}
  BY FS_CardinalityType, FS_EmptySet
<1>4. CacheBounded
  BY <1>1, <1>2, <1>3 DEF CacheBounded
<1>5. \A t \in Thread : pc[t] \notin Evicting
  BY DEF Init, Evicting
<1>6. pc = [t \in Thread |-> pc[t]]
  BY DEF Init
<1>7. \E S : cache \in Seq(S)
  BY <1>1
<1>8. stored \in Nat
  BY <1>1
<1>. QED  BY <1>4, <1>5, <1>6, <1>7, <1>8 DEF CacheInv

(* A handler that neither enters nor leaves the step before an insertion   *)
(* leaves what is kept as it is.                                           *)
LEMMA Elsewhere ==
    ASSUME CacheInv, NEW t \in Thread, NEW next, Goto(t, next),
           pc[t] # "insert", next # "insert",
           next \in Evicting => pc[t] \in Evicting \/ Kept >= Limit,
           UNCHANGED reports
    PROVE  CacheInv'
<1>1. At("insert")' = At("insert")
  BY AtKeeps DEF CacheInv
<1>2. Kept' = Kept
  BY <1>1 DEF Kept, reports
<1>3. pc' = [u \in Thread |-> pc'[u]]
      /\ \A u \in Thread : pc'[u] = IF u = t THEN next ELSE pc[u]
  BY DEF Goto, CacheInv
<1>. QED  BY <1>1, <1>2, <1>3 DEF CacheInv, CacheBounded, reports, Kept

(* Only look-ups and evictions touch the count of reports.                 *)
LEMMA CacheNext == CacheInv /\ [Next]_vars => CacheInv'
<1> SUFFICES ASSUME CacheInv, [Next]_vars PROVE CacheInv'
  OBVIOUS
<1> USE DEF store, reports, Evicting
<1>1. At("insert") \in Nat /\ Len(cache) \in Nat /\ Kept \in Nat
  BY AtType, LenProperties DEF Kept, CacheInv
<1>2. ASSUME NEW t \in Thread, Search(t) \/ LookAtCache(t) \/ StartWalk(t)
                               \/ Oldest(t)
      PROVE  CacheInv'
  <2>1. CASE LookAtCache(t)
    <3>1. CASE Full
      BY <1>1, <2>1, <3>1, Elsewhere DEF LookAtCache, Full, Kept
    <3>2. CASE ~Full
      <4>1. pc[t] # "insert" /\ Goto(t, "insert") /\ UNCHANGED reports
        BY <2>1, <3>2 DEF LookAtCache
      <4>2. /\ At("insert")' = At("insert") + 1
            /\ At("insert")' <= Cardinality(Thread)
        BY <4>1, AtGains DEF CacheInv
      <4>3. Len(cache) < Limit
        BY <1>1, <3>2 DEF Full
      <4>4. Cardinality(Thread) \in Nat
        BY FS_CardinalityType
      <4>5. CacheBounded'
        BY <1>1, <4>1, <4>2, <4>3, <4>4 DEF CacheBounded, CacheInv
      <4>6. pc' = [u \in Thread |-> pc'[u]]
            /\ \A u \in Thread : u # t => pc'[u] = pc[u]
        BY <4>1 DEF Goto, CacheInv
      <4>7. pc'[t] = "insert"
        BY <4>1 DEF Goto, CacheInv
      <4>. QED
        BY <1>1, <4>1, <4>2, <4>5, <4>6, <4>7 DEF CacheInv, Kept
    <3>. QED  BY <3>1, <3>2
  <2>2. CASE StartWalk(t) \/ Oldest(t)
    BY <2>2, Elsewhere DEF StartWalk, Oldest, End
  <2>3. CASE ReadKey(t) \/ StartList(t) \/ EndList(t) \/ StoreIndex(t)
    BY <2>3, Elsewhere DEF ReadKey, StartList, EndList, StoreIndex, End
  <2>4. CASE Pick(t) \/ StartScan(t) \/ CollectUrls(t) \/ Detect(t)
    BY <2>4, Elsewhere DEF Pick, StartScan, CollectUrls, Detect, End
  <2>5. CASE EndScan(t)
    <3>1. pc[t] = "scanning" /\ UNCHANGED reports
          /\ (Goto(t, "urls") \/ Goto(t, "idle"))
      BY <2>5 DEF EndScan, End
    <3>. QED  BY <3>1, Elsewhere
  <2>. QED  BY <1>2, <2>1, <2>2, <2>3, <2>4, <2>5 DEF Search
<1>3. ASSUME NEW t \in Thread, Evict(t) PROVE CacheInv'
  <2>1. CASE /\ Goto(t, "idle")
             /\ UNCHANGED reports
    BY <1>3, <2>1, Elsewhere DEF Evict
  <2>2. ASSUME NEW n \in DOMAIN cache, cache' = RemoveAt(cache, n),
               Goto(t, "insert")
        PROVE  CacheInv'
    <3>1. PICK S : cache \in Seq(S)
      BY DEF CacheInv
    <3>2. cache' \in Seq(S) /\ Len(cache') = Len(cache) - 1
      BY <2>2, <3>1, OneOut
    <3>3. At("insert")' = At("insert") + 1
      BY <1>3, <2>2, AtGains DEF Evict, CacheInv
    <3>4. Kept' = Kept /\ Kept >= Limit
      BY <1>1, <1>3, <3>2, <3>3 DEF Evict, CacheInv, Kept
    <3>5. pc' = [u \in Thread |-> pc'[u]] /\ stored' = stored
      <4>1. stored' = stored
        BY ONLY <1>3 DEF Evict
      <4>2. pc' = [pc EXCEPT ![t] = "insert"]
        BY ONLY <2>2 DEF Goto
      <4>3. pc = [u \in Thread |-> pc[u]]
        BY ONLY CacheInv DEF CacheInv
      <4>. QED  BY ONLY <4>1, <4>2, <4>3
    <3>6. CacheBounded'
      BY <3>4 DEF CacheBounded, CacheInv, Kept
    <3>. QED  BY <3>2, <3>4, <3>5, <3>6 DEF CacheInv
  <2>. QED  BY <1>3, <2>1, <2>2 DEF Evict, End
<1>4. ASSUME NEW t \in Thread, Insert(t) PROVE CacheInv'
  <2>1. PICK S : cache \in Seq(S)
    BY DEF CacheInv
  <2>2. cache \in Seq(S \cup {job[t].id})
    BY <2>1, SeqMonotonic
  <2>3. /\ cache' \in Seq(S \cup {job[t].id})
        /\ Len(cache') = Len(cache) + 1
    BY <1>4, <2>2, AppendProperties DEF Insert
  <2>4. At("insert")' = At("insert") - 1
    BY <1>4, AtLoses DEF Insert, End, CacheInv
  <2>5. Kept' = Kept
    BY <1>1, <2>3, <2>4 DEF Kept
  <2>6. pc' = [u \in Thread |-> pc'[u]] /\ stored' = stored + 1
        /\ \A u \in Thread : pc'[u] = IF u = t THEN "idle" ELSE pc[u]
    <3>1. stored' = stored + 1 /\ pc' = [pc EXCEPT ![t] = "idle"]
      BY ONLY <1>4 DEF Insert, End, Goto
    <3>2. pc = [u \in Thread |-> pc[u]]
      BY ONLY CacheInv DEF CacheInv
    <3>. QED  BY ONLY t \in Thread, <3>1, <3>2
  <2>7. CacheBounded'
    BY <1>1, <2>3, <2>5, <2>6 DEF CacheBounded, CacheInv, Kept
  <2>. QED  BY <2>3, <2>5, <2>6, <2>7 DEF CacheInv
<1>5. ASSUME NEW t \in Thread, NEW route, NEW m,
             route \in {"analyze", "cycle"},
             Begin(t, route, m)
      PROVE  CacheInv'
  <2>1. pc[t] = "idle" /\ UNCHANGED reports
        /\ (Goto(t, "urls") \/ Goto(t, "key") \/ Goto(t, "scan"))
    BY <1>5 DEF Begin
  <2>. QED  BY <2>1, Elsewhere
<1>6. CASE UNCHANGED <<pc, reports>>
  <2>1. pc' = pc /\ cache' = cache /\ stored' = stored
    BY <1>6 DEF reports
  <2>2. At("insert")' = At("insert")
    BY ONLY <2>1 DEF At
  <2>3. Kept' = Kept
    BY ONLY <2>1, <2>2 DEF Kept
  <2>4. CacheBounded'
    BY ONLY CacheInv, <2>1, <2>2, <2>3 DEF CacheInv, CacheBounded
  <2>5. \E S : cache' \in Seq(S)
    BY ONLY CacheInv, <2>1 DEF CacheInv
  <2>. QED  BY ONLY CacheInv, <2>1, <2>3, <2>4, <2>5 DEF CacheInv
<1>7. ASSUME NEW m, Register(m) \/ Sight(m) PROVE UNCHANGED <<pc, reports>>
  BY <1>7 DEF Register, Sight
<1>8. UNCHANGED vars => UNCHANGED <<pc, reports>>
  BY DEF vars
<1>. QED
  BY <1>2, <1>3, <1>4, <1>5, <1>6, <1>7, <1>8 DEF Next, Report

(* The cache and the reports about to be inserted never exceed the limit   *)
(* by as much as the number of threads, and never fall below the limit     *)
(* once it is reached (the end of analyze() in main.py).                   *)
THEOREM CacheIsBounded == Spec => []CacheBounded
<1>1. CacheInv => CacheBounded
  BY DEF CacheInv
<1>. QED  BY <1>1, CacheInit, CacheNext, PTL DEF Spec

HIDE AnalysisAssumption

-----------------------------------------------------------------------------
(* Numbers and fractions.                                                  *)

(* A set of naturals that is not empty has a least member.                 *)
LEMMA LeastNatural ==
    ASSUME NEW T, T \subseteq Nat, T # {}
    PROVE  \E x \in T : \A y \in T : ~ (y < x)
<1>1. IsWellFoundedOn(OpToRel(<, Nat), Nat)
  BY NatLessThanWellFounded
<1>2. PICK x \in T : \A y \in T : ~ (<<y, x>> \in OpToRel(<, Nat))
  BY <1>1, WFMin, Zenon
<1>. QED  BY <1>2 DEF OpToRel

(* Min of integers with a bound below.                                     *)
LEMMA MinProperties ==
    ASSUME NEW S, S \subseteq Int, S # {}, NEW low, low \in Int,
           \A x \in S : low <= x
    PROVE  Min(S) \in S /\ \A x \in S : Min(S) <= x
<1> DEFINE T == {n \in Nat : n + low \in S}
<1>1. T \subseteq Nat /\ T # {}
  <2>1. PICK x \in S : TRUE
    OBVIOUS
  <2>2. x - low \in Nat /\ (x - low) + low = x
    OBVIOUS
  <2>. QED  BY <2>2
<1>2. PICK n \in T : \A k \in T : ~ (k < n)
  BY <1>1, LeastNatural
<1>3. ASSUME NEW y \in S PROVE n + low <= y
  <2>1. y \in Int /\ y - low \in Nat /\ (y - low) + low = y
    OBVIOUS
  <2>2. y - low \in T
    BY <2>1
  <2>3. ~ (y - low < n) /\ n \in Nat
    BY <1>2, <2>2
  <2>. QED  BY <2>1, <2>3
<1>4. n + low \in S
  BY <1>2
<1>5. \E m \in S : \A y \in S : m <= y
  BY <1>3, <1>4
<1>. QED  BY <1>5 DEF Min

(* Max of integers with a bound above.                                     *)
LEMMA MaxProperties ==
    ASSUME NEW S, S \subseteq Int, S # {}, NEW high, high \in Int,
           \A x \in S : x <= high
    PROVE  Max(S) \in S /\ \A x \in S : x <= Max(S)
<1> DEFINE T == {n \in Nat : high - n \in S}
<1>1. T \subseteq Nat /\ T # {}
  <2>1. PICK x \in S : TRUE
    OBVIOUS
  <2>2. high - x \in Nat /\ high - (high - x) = x
    OBVIOUS
  <2>. QED  BY <2>2
<1>2. PICK n \in T : \A k \in T : ~ (k < n)
  BY <1>1, LeastNatural
<1>3. ASSUME NEW y \in S PROVE high - n >= y
  <2>1. y \in Int /\ high - y \in Nat /\ high - (high - y) = y
    OBVIOUS
  <2>2. high - y \in T
    BY <2>1
  <2>3. ~ (high - y < n) /\ n \in Nat
    BY <1>2, <2>2
  <2>. QED  BY <2>1, <2>3
<1>4. high - n \in S
  BY <1>2
<1>5. \E m \in S : \A y \in S : m >= y
  BY <1>3, <1>4
<1>. QED  BY <1>5 DEF Max

(* Products and quotients of a positive number.                            *)
LEMMA TimesMonotone ==
    ASSUME NEW d \in Nat, NEW q \in Int, NEW r \in Int, q <= r
    PROVE  d * q <= d * r
<1>1. d * (r - q) >= 0
  OBVIOUS
<1>2. d * (r - q) = d * r - d * q
  OBVIOUS
<1>. QED  BY <1>1, <1>2

LEMMA QuotientBounds ==
    ASSUME NEW x \in Int, NEW d \in Nat \ {0}
    PROVE  /\ x \div d \in Int
           /\ d * (x \div d) <= x
           /\ x < d * (x \div d) + d
OBVIOUS

(* The greatest quotient below.                                            *)
LEMMA QuotientGreatest ==
    ASSUME NEW x \in Int, NEW d \in Nat \ {0}, NEW c \in Int, d * c <= x
    PROVE  c <= x \div d
<1> DEFINE q == x \div d
<1>1. q \in Int /\ x < d * q + d
  BY QuotientBounds
<1>. HIDE DEF q
<1>2. SUFFICES ASSUME q + 1 <= c PROVE FALSE
  BY <1>1 DEF q
<1>3. d * (q + 1) <= d * c
  BY <1>1, <1>2, TimesMonotone
<1>4. d * (q + 1) = d * q + d
  BY <1>1
<1>. QED  BY <1>1, <1>3, <1>4

(* A fraction of at most one, in tenths of a percent.                      *)
Fraction(f) == f[1] \in Nat /\ f[2] \in Nat \ {0} /\ f[1] <= f[2]

LEMMA RoundedType ==
    ASSUME NEW f, Fraction(f)
    PROVE  Rounded(f) \in 0 .. 1000 /\ (f[1] = f[2] => Rounded(f) = 1000)
<1> DEFINE p == f[1]
           w == f[2]
           x == 2 * 1000 * p + w
           d == 2 * w
<1>1. p \in Nat /\ w \in Nat \ {0} /\ p <= w
  BY DEF Fraction
<1>2. x \in Nat /\ d \in Nat \ {0} /\ x < 1001 * d /\ (p = w => 1000 * d <= x)
  BY <1>1
<1>3. Rounded(f) = x \div d
  BY DEF Rounded
<1>. HIDE DEF x, d
<1>4. x \div d \in Int /\ d * (x \div d) <= x /\ x < d * (x \div d) + d
  BY <1>2, QuotientBounds
<1>5. 0 <= x \div d
  BY <1>2, QuotientGreatest
<1>6. x \div d <= 1000
  <2>1. SUFFICES ASSUME 1001 <= x \div d PROVE FALSE
    BY <1>4
  <2>2. d * 1001 <= d * (x \div d)
    BY <1>2, <1>4, <2>1, TimesMonotone
  <2>. QED  BY <1>2, <1>4, <2>2
<1>7. p = w => 1000 <= x \div d
  BY <1>2, QuotientGreatest
<1>. QED  BY <1>3, <1>4, <1>5, <1>6, <1>7

(* Of two fractions with one whole, the larger is not rounded lower.       *)
LEMMA RoundedMonotone ==
    ASSUME NEW f, NEW g, Fraction(f), Fraction(g), f[2] = g[2], f[1] <= g[1]
    PROVE  Rounded(f) <= Rounded(g)
<1> DEFINE d == 2 * f[2]
           x == 2 * 1000 * f[1] + f[2]
           y == 2 * 1000 * g[1] + g[2]
<1>1. x \in Nat /\ y \in Nat /\ x <= y /\ d \in Nat \ {0}
  BY DEF Fraction
<1>2. Rounded(f) = x \div d /\ Rounded(g) = y \div d
  BY DEF Rounded
<1>. HIDE DEF x, y, d
<1>3. d * (x \div d) <= y /\ x \div d \in Int
  BY <1>1, QuotientBounds
<1>. QED  BY <1>1, <1>2, <1>3, QuotientGreatest


LEMMA TimesStrict ==
    ASSUME NEW d \in Nat \ {0}, NEW q \in Int, NEW r \in Int, q < r
    PROVE  d * q < d * r
<1>1. d * (q + 1) <= d * r
  BY TimesMonotone
<1>2. d * (q + 1) = d * q + d
  OBVIOUS
<1>. QED  BY <1>1, <1>2

LEMMA TimesCancel ==
    ASSUME NEW d \in Nat \ {0}, NEW q \in Int, NEW r \in Int, d * q < d * r
    PROVE  q < r
<1>1. r <= q => d * r <= d * q
  BY TimesMonotone
<1>. QED  BY <1>1

(* The order of fractions.                                                 *)
LEMMA LessTransitive ==
    ASSUME NEW f, NEW g, NEW h, Fraction(f), Fraction(g), Fraction(h),
           Less(f, g), Less(g, h)
    PROVE  Less(f, h)
<1> DEFINE a == f[1]  b == f[2]  c == g[1]  d == g[2]  e == h[1]  w == h[2]
<1>1. /\ a \in Nat /\ c \in Nat /\ e \in Nat
      /\ b \in Nat \ {0} /\ d \in Nat \ {0} /\ w \in Nat \ {0}
      /\ a * d < c * b /\ c * w < e * d
  BY DEF Fraction, Less
<1>. HIDE DEF a, b, c, d, e, w
<1>2. w * (a * d) < w * (c * b)
  BY <1>1, TimesStrict
<1>3. b * (c * w) < b * (e * d)
  BY <1>1, TimesStrict
<1>4. w * (a * d) = d * (a * w) /\ w * (c * b) = b * (c * w)
      /\ b * (e * d) = d * (e * b)
  BY <1>1
<1>5. d * (a * w) < d * (e * b)
  BY <1>1, <1>2, <1>3, <1>4
<1>6. a * w < e * b
  BY <1>1, <1>5, TimesCancel
<1>. QED  BY <1>6 DEF Less, a, b, e, w

(* A finite set of fractions has one that no other exceeds.                *)
LEMMA Unbeaten ==
    ASSUME NEW F, IsFiniteSet(F), F # {}, \A f \in F : Fraction(f)
    PROVE  \E f \in F : \A g \in F : ~Less(f, g)
<1> DEFINE Above(f) == {g \in F : Less(f, g)}
           C == {n \in Nat : \E f \in F : Cardinality(Above(f)) = n}
<1>1. \A f \in F : IsFiniteSet(Above(f)) /\ Cardinality(Above(f)) \in Nat
  BY FS_Subset, FS_CardinalityType
<1>2. C # {}
  BY <1>1
<1>3. PICK n \in C : \A k \in C : ~ (k < n)
  BY <1>2, LeastNatural
<1>4. PICK f \in F : Cardinality(Above(f)) = n
  BY <1>3
<1>5. ASSUME NEW g \in F, Less(f, g) PROVE FALSE
  <2>1. ~Less(g, g)
    BY DEF Less, Fraction
  <2>2. Above(g) \subseteq Above(f) /\ g \in Above(f) /\ g \notin Above(g)
    BY <1>5, <2>1, LessTransitive
  <2>3. Cardinality(Above(g)) <= n /\ Cardinality(Above(g)) # n
    BY <1>1, <1>4, <2>2, FS_Subset
  <2>4. Cardinality(Above(g)) \in C
    BY <1>1
  <2>5. Cardinality(Above(g)) \in Nat /\ n \in Nat
    BY <1>1
  <2>. HIDE DEF C, Above
  <2>6. ~ (Cardinality(Above(g)) < n)
    BY <1>3, <2>4
  <2>. QED  BY <2>3, <2>5, <2>6
<1>. QED  BY <1>5

LEMMA MaxOfTwo ==
    ASSUME NEW x \in Int, NEW y \in Int
    PROVE  /\ Max({x, y}) \in {x, y}
           /\ x <= Max({x, y}) /\ y <= Max({x, y})
<1> DEFINE high == IF x <= y THEN y ELSE x
<1>1. high \in Int /\ x <= high /\ y <= high
  OBVIOUS
<1>. QED  BY <1>1, MaxProperties

LEMMA MinOfTwo ==
    ASSUME NEW x \in Int, NEW y \in Int
    PROVE  /\ Min({x, y}) \in {x, y}
           /\ Min({x, y}) <= x /\ Min({x, y}) <= y
<1> DEFINE low == IF x <= y THEN x ELSE y
<1>1. low \in Int /\ low <= x /\ low <= y
  OBVIOUS
<1>. QED  BY <1>1, MinProperties

LEMMA RescaledFraction ==
    ASSUME NEW f, f[1] \in Int, f[2] \in Nat \ {0}, f[1] <= f[2]
    PROVE  /\ Fraction(Rescaled(f)) /\ Rescaled(f)[2] = f[2]
           /\ f[1] = f[2] => Rescaled(f)[1] = Rescaled(f)[2]
<1> DEFINE x == 2 * f[1] - f[2]
<1>1. x \in Int /\ x <= f[2] /\ (f[1] = f[2] => x = f[2])
  OBVIOUS
<1>2. Rescaled(f)[1] = Max({0, x}) /\ Rescaled(f)[2] = f[2]
  BY DEF Rescaled
<1>. HIDE DEF x
<1>3. 0 \in Int /\ x \in Int
  BY <1>1
<1>4. Max({0, x}) \in {0, x} /\ 0 <= Max({0, x}) /\ x <= Max({0, x})
  BY ONLY <1>3, MaxOfTwo, Zenon
<1>. QED  BY <1>1, <1>2, <1>4 DEF Fraction

-----------------------------------------------------------------------------
(* What a fingerprint consists of.                                         *)

(* The values of a function of a finite set.                               *)
LEMMA FiniteValues ==
    ASSUME NEW S, IsFiniteSet(S), NEW T, NEW f \in [S -> T],
           \A y \in T : \E x \in S : f[x] = y
    PROVE  IsFiniteSet(T)
<1>1. f \in Surjection(S, T)
  BY DEF Surjection
<1>. QED  BY <1>1, FS_Surjection

LEMMA PHashType == \A coeffs : PHash(coeffs) \subseteq Bit
BY DEF PHash

LEMMA DHashFinite ==
    ASSUME NEW pixels \in Seq(Seq(Int))
    PROVE  IsFiniteSet(DHash(pixels))
<1> DEFINE Brighter(r) == {c \in 2 .. Len(pixels[r]) :
                              pixels[r][c] > pixels[r][c - 1]}
           Row(r) == {<<r, c>> : c \in Brighter(r)}
           rows == {Row(r) : r \in DOMAIN pixels}
<1>1. IsFiniteSet(DOMAIN pixels)
  BY FS_Interval
<1>2. IsFiniteSet(rows)
  <2> DEFINE f == [r \in DOMAIN pixels |-> Row(r)]
  <2>1. f \in [DOMAIN pixels -> rows]
    OBVIOUS
  <2>2. \A y \in rows : \E r \in DOMAIN pixels : f[r] = y
    OBVIOUS
  <2>. HIDE DEF f, rows
  <2>. QED  BY <1>1, <2>1, <2>2, FiniteValues
<1>3. ASSUME NEW r \in DOMAIN pixels PROVE IsFiniteSet(Row(r))
  <2> DEFINE S == Brighter(r)
             f == [c \in S |-> <<r, c>>]
  <2>1. pixels[r] \in Seq(Int) /\ Len(pixels[r]) \in Nat
    OBVIOUS
  <2>2. IsFiniteSet(S)
    <3>1. IsFiniteSet(2 .. Len(pixels[r]))
      BY <2>1, FS_Interval
    <3>2. S \in SUBSET (2 .. Len(pixels[r]))
      OBVIOUS
    <3>. HIDE DEF S
    <3>. QED  BY ONLY <3>1, <3>2, FS_Subset
  <2>3. f \in [S -> Row(r)] /\ \A y \in Row(r) : \E c \in S : f[c] = y
    OBVIOUS
  <2>. HIDE DEF f, S, Row
  <2>. QED  BY <2>2, <2>3, FiniteValues
<1>4. DHash(pixels) = UNION rows
  BY DEF DHash
<1>5. \A y \in rows : IsFiniteSet(y)
  BY <1>3
<1>. HIDE DEF rows
<1>. QED  BY <1>2, <1>4, <1>5, FS_UNION

LEMMA ChunksFinite ==
    ASSUME NEW S, NEW blocks \in Seq(S)
    PROVE  IsFiniteSet(Chunks(blocks)) /\ Chunks(blocks) # {}
<1>1. CASE Len(blocks) <= 2
  BY <1>1, FS_Singleton DEF Chunks
<1>2. CASE ~ (Len(blocks) <= 2)
  <2> DEFINE D == 1 .. Len(blocks) - 1
             T == {SubSeq(blocks, n, n + 1) : n \in D}
             f == [n \in D |-> SubSeq(blocks, n, n + 1)]
  <2>1. Len(blocks) \in Nat
    OBVIOUS
  <2>2. Chunks(blocks) = T
    BY <1>2 DEF Chunks
  <2>3. IsFiniteSet(D) /\ 1 \in D
    BY <1>2, <2>1, FS_Interval
  <2>4. f \in [D -> T] /\ \A y \in T : \E n \in D : f[n] = y
    OBVIOUS
  <2>5. T # {}
    BY <2>3
  <2>. HIDE DEF f, D, T
  <2>. QED  BY <2>2, <2>3, <2>4, <2>5, FiniteValues
<1>. QED  BY <1>1, <1>2

LEMMA FirstType ==
    ASSUME NEW S, NEW s \in Seq(S), NEW most \in Nat
    PROVE  /\ First(s, most) \in Seq(S)
           /\ Len(First(s, most)) <= Len(s) /\ Len(First(s, most)) <= most
           /\ Len(s) <= most => First(s, most) = s
           /\ \A n \in 1 .. Len(First(s, most)) : First(s, most)[n] = s[n]
<1> DEFINE k == Min({Len(s), most})
<1>1. Len(s) \in Int /\ most \in Int
  BY LenProperties
<1>2. k \in {Len(s), most} /\ k <= Len(s) /\ k <= most
  BY ONLY <1>1, MinOfTwo, Zenon
<1>3. k \in Nat /\ k \in 0 .. Len(s)
  BY <1>2, LenProperties
<1>4. First(s, most) = SubSeq(s, 1, k)
  BY DEF First
<1>. HIDE DEF k
<1>5. /\ First(s, most) \in Seq(S) /\ Len(First(s, most)) = k
      /\ \A n \in 1 .. Len(First(s, most)) : First(s, most)[n] = s[n]
  BY <1>3, <1>4, SubSeqProperties
<1>6. Len(s) <= most => First(s, most) = s
  <2>1. Len(s) <= most => k = Len(s)
    BY <1>1, <1>2
  <2>. QED  BY <1>4, <2>1, SubSeqFull
<1>. QED  BY <1>2, <1>5, <1>6

-----------------------------------------------------------------------------
(* Hashes and prints laid over each other.                                 *)

(* Bits cannot disagree more than there are bits.                          *)
LEMMA AgreeingBound ==
    ASSUME NEW bits, IsFiniteSet(bits), NEW h, NEW k,
           IsFiniteSet(h), IsFiniteSet(k)
    PROVE  /\ Agreeing(h, k, bits) \in Int
           /\ Agreeing(h, k, bits) <= Cardinality(bits)
           /\ h \subseteq bits /\ k \subseteq bits =>
                 Agreeing(h, k, bits) \in Nat
           /\ h = k => Agreeing(h, k, bits) = Cardinality(bits)
<1> DEFINE D == SymDiff(h, k)
<1>1. IsFiniteSet(h \cup k)
  BY FS_Union
<1>2. D \in SUBSET (h \cup k) /\ (h = k => D = {})
  BY DEF SymDiff
<1>3. h \subseteq bits /\ k \subseteq bits => D \in SUBSET bits
  BY DEF SymDiff
<1>4. Agreeing(h, k, bits) = Cardinality(bits) - Cardinality(D)
  BY DEF Agreeing
<1>. HIDE DEF D
<1>5. Cardinality(D) \in Nat /\ Cardinality(bits) \in Nat
  BY <1>1, <1>2, FS_Subset, FS_CardinalityType
<1>6. D \in SUBSET bits => Cardinality(D) <= Cardinality(bits)
  BY FS_Subset
<1>7. D = {} => Cardinality(D) = 0
  BY FS_EmptySet
<1>. QED  BY <1>2, <1>3, <1>4, <1>5, <1>6, <1>7

(* The elements that lie over others are numbered.                         *)
LEMMA OverlapFinite ==
    ASSUME NEW S, NEW a \in Seq(S), NEW b, NEW k
    PROVE  /\ Overlap(a, b, k) \subseteq 1 .. Len(a)
           /\ IsFiniteSet(Overlap(a, b, k))
           /\ Cardinality(Overlap(a, b, k)) \in Nat
<1>1. Overlap(a, b, k) \in SUBSET (1 .. Len(a))
  BY DEF Overlap
<1>2. IsFiniteSet(1 .. Len(a))
  BY FS_Interval
<1>. QED  BY <1>1, <1>2, FS_Subset, FS_CardinalityType

(* The similarity at an offset, and when it is full.                       *)
LEMMA AlignedFraction ==
    ASSUME NEW S, NEW a \in Seq(S), NEW b, NEW k,
           NEW bits, IsFiniteSet(bits), bits # {}, Overlap(a, b, k) # {}
    PROVE  /\ Fraction(Aligned(a, b, k, bits))
           /\ (\A n \in Overlap(a, b, k) : a[n] = b[n + k]) =>
                 Aligned(a, b, k, bits)[1] = Aligned(a, b, k, bits)[2]
<1> DEFINE over == Overlap(a, b, k)
           All == over \X bits
           Same == {x \in All : x[2] \in a[x[1]] <=> x[2] \in b[x[1] + k]}
<1>1. IsFiniteSet(over) /\ over # {}
  BY OverlapFinite
<1>2. /\ Cardinality(over) \in Nat \ {0}
      /\ Cardinality(bits) \in Nat \ {0}
  BY <1>1, FS_EmptySet, FS_CardinalityType
<1>3. Same \in SUBSET All /\ ((\A n \in over : a[n] = b[n + k]) => Same = All)
  OBVIOUS
<1>4. Aligned(a, b, k, bits)
        = <<Cardinality(Same), Cardinality(over) * Cardinality(bits)>>
  BY DEF Aligned
<1>. HIDE DEF over, Same
<1>5. /\ IsFiniteSet(All)
      /\ Cardinality(All) = Cardinality(over) * Cardinality(bits)
  BY <1>1, FS_Product
<1>. HIDE DEF All
<1>6. Cardinality(Same) \in Nat /\ Cardinality(Same) <= Cardinality(All)
  BY <1>3, <1>5, FS_Subset, FS_CardinalityType
<1>7. Cardinality(All) \in Nat \ {0}
  BY <1>2, <1>5
<1>8. Fraction(<<Cardinality(Same), Cardinality(All)>>)
  BY <1>6, <1>7 DEF Fraction
<1>9. (\A n \in over : a[n] = b[n + k]) => Cardinality(Same) = Cardinality(All)
  BY <1>3
<1>. QED  BY <1>4, <1>5, <1>8, <1>9 DEF over

(* The best of the similarities at some offsets.                           *)
LEMMA BestAlignedFraction ==
    ASSUME NEW S, NEW a \in Seq(S), NEW b, NEW ks, IsFiniteSet(ks),
           NEW bits, IsFiniteSet(bits), bits # {},
           \A k \in ks : Overlap(a, b, k) # {}
    PROVE  /\ Fraction(BestAligned(a, b, ks, bits))
           /\ \A k \in ks :
                 ~Less(BestAligned(a, b, ks, bits), Aligned(a, b, k, bits))
<1>1. CASE ks = {}
  <2>1. Fraction(<<0, 1>>)
    BY DEF Fraction
  <2>. QED  BY <1>1, <2>1 DEF BestAligned
<1>2. CASE ks # {}
  <2> DEFINE parts == {Aligned(a, b, k, bits) : k \in ks}
             f == [k \in ks |-> Aligned(a, b, k, bits)]
             best == CHOOSE g \in parts : \A h \in parts : ~Less(g, h)
  <2>1. \A g \in parts : Fraction(g)
    BY AlignedFraction
  <2>2. parts # {}
    BY <1>2
  <2>3. IsFiniteSet(parts)
    <3>1. f \in [ks -> parts] /\ \A y \in parts : \E k \in ks : f[k] = y
      OBVIOUS
    <3>. HIDE DEF parts, f
    <3>. QED  BY <3>1, FiniteValues
  <2>4. BestAligned(a, b, ks, bits) = best
    BY <1>2 DEF BestAligned
  <2>5. \A k \in ks : Aligned(a, b, k, bits) \in parts
    OBVIOUS
  <2>. HIDE DEF parts
  <2>6. \E g \in parts : \A h \in parts : ~Less(g, h)
    BY <2>1, <2>2, <2>3, Unbeaten
  <2>7. best \in parts /\ \A h \in parts : ~Less(best, h)
    BY <2>6
  <2>. QED  BY <2>1, <2>4, <2>5, <2>7
<1>. QED  BY <1>1, <1>2

(* Enough elements lie over others at each of finitely many offsets.       *)
LEMMA OffsetsFinite ==
    ASSUME NEW S, NEW a \in Seq(S), NEW T, NEW b \in Seq(T),
           NEW least \in Nat \ {0}
    PROVE  /\ IsFiniteSet(Offsets(a, b, least))
           /\ \A k \in Offsets(a, b, least) :
                 /\ k \in -(Len(a) - least) .. Len(b) - least
                 /\ Overlap(a, b, k) # {}
<1> DEFINE low == -(Len(a) - least)
           high == Len(b) - least
<1>1. low \in Int /\ high \in Int
  BY LenProperties
<1>2. Offsets(a, b, least) \in SUBSET (low .. high)
  BY DEF Offsets
<1>. HIDE DEF low, high
<1>3. IsFiniteSet(Offsets(a, b, least))
  BY <1>1, <1>2, FS_Interval, FS_Subset
<1>4. ASSUME NEW k \in Offsets(a, b, least) PROVE Overlap(a, b, k) # {}
  <2>1. Cardinality(Overlap(a, b, k)) >= least
    BY DEF Offsets
  <2>2. Cardinality({}) = 0
    BY FS_EmptySet
  <2>3. ASSUME Overlap(a, b, k) = {} PROVE Cardinality(Overlap(a, b, k)) = 0
    BY <2>2, <2>3, Zenon
  <2>. QED  BY <2>1, <2>3
<1>. QED  BY <1>2, <1>3, <1>4 DEF low, high

-----------------------------------------------------------------------------
(* Every comparison is a number of tenths of a percent.                    *)

LEMMA FramesScoreFraction ==
    ASSUME NEW S, NEW a \in Seq(S), NEW T, NEW b \in Seq(T)
    PROVE  Fraction(FramesScore(a, b))
<1> DEFINE best == BestAligned(a, b, Offsets(a, b, MinFrames), Bit)
<1>1. MinFrames \in Nat \ {0} /\ IsFiniteSet(Bit) /\ Bit # {}
  BY MatchingAssumption
<1>2. Fraction(best)
  BY <1>1, OffsetsFinite, BestAlignedFraction
<1>3. FramesScore(a, b) = Rescaled(best)
  BY DEF FramesScore
<1>. HIDE DEF best
<1>. QED  BY <1>2, <1>3, RescaledFraction DEF Fraction

LEMMA SoundsScoreFraction ==
    ASSUME NEW S, NEW a \in Seq(S), NEW T, NEW b \in Seq(T)
    PROVE  Fraction(SoundsScore(a, b))
<1> DEFINE near == CoarseBest(a, b) - 3 .. CoarseBest(a, b) + 3
           ks == Offsets(a, b, MinSounds) \cap near
           best == BestAligned(a, b, ks, Band)
<1>1. MinSounds \in Nat \ {0} /\ IsFiniteSet(Band) /\ Band # {}
  BY MatchingAssumption
<1>2. ks \in SUBSET Offsets(a, b, MinSounds)
  OBVIOUS
<1>3. SoundsScore(a, b) = Rescaled(best)
  BY DEF SoundsScore
<1>. HIDE DEF ks
<1>4. IsFiniteSet(ks) /\ \A k \in ks : Overlap(a, b, k) # {}
  BY <1>1, <1>2, OffsetsFinite, FS_Subset
<1>5. Fraction(best)
  BY <1>1, <1>4, BestAlignedFraction
<1>. HIDE DEF best
<1>. QED  BY <1>3, <1>5, RescaledFraction DEF Fraction

LEMMA TogetherType ==
    ASSUME NEW v, NEW s, v \in 0 .. 1000, s \in 0 .. 1000
    PROVE  Together(v, s) \in 0 .. 1000
<1>1. v \in Int /\ s \in Int
  OBVIOUS
<1>2. PICK high \in {v, s} : high = Max({v, s})
  BY ONLY <1>1, MaxOfTwo, Zenon
<1>3. PICK low \in {v, s} : low = Min({v, s})
  BY ONLY <1>1, MinOfTwo, Zenon
<1> DEFINE p == 8 * high + 2 * low
           w == 10 * 1000
<1>4. Together(v, s) = Rounded(<<p, w>>) \/ Together(v, s) = high
  BY <1>2, <1>3 DEF Together
<1>5. high \in 0 .. 1000 /\ low \in 0 .. 1000
  BY ONLY v \in 0 .. 1000, s \in 0 .. 1000, high \in {v, s}, low \in {v, s}
<1>6. p \in Nat /\ w \in Nat \ {0} /\ p <= w
  BY <1>5
<1>. HIDE DEF p, w
<1>7. Fraction(<<p, w>>)
  BY <1>6 DEF Fraction
<1>8. Rounded(<<p, w>>) \in 0 .. 1000
  BY ONLY <1>7, RoundedType
<1>. QED  BY ONLY <1>4, <1>5, <1>8

(* Match percentages, in tenths.                                           *)
Percents == 0 .. 1000

LEMMA PercentsInt == \A x \in Percents : x \in Int
BY DEF Percents

LEMMA PercentsBounded ==
    ASSUME NEW S, S \subseteq Percents, S # {}
    PROVE  Max(S) \in S /\ \A x \in S : x <= Max(S)
<1>1. S \subseteq Int
  BY PercentsInt
<1>2. PICK high \in Int : \A x \in Percents : x <= high
  <2>1. 1000 \in Int /\ \A x \in Percents : x <= 1000
    BY DEF Percents
  <2>. QED  BY ONLY <2>1
<1>3. \A x \in S : x <= high
  BY ONLY <1>2, S \subseteq Percents
<1>. QED  BY ONLY <1>1, <1>3, S # {}, high \in Int, MaxProperties, Zenon

LEMMA RoundedPercent ==
    ASSUME NEW f, Fraction(f)
    PROVE  Rounded(f) \in Percents
<1>1. Rounded(f) \in 0 .. 1000
  BY ONLY Fraction(f), RoundedType
<1>. QED  BY ONLY <1>1 DEF Percents

LEMMA TogetherPercent ==
    ASSUME NEW v, NEW s, v \in Percents, s \in Percents
    PROVE  Together(v, s) \in Percents
<1>1. v \in 0 .. 1000 /\ s \in 0 .. 1000
  BY ONLY v \in Percents, s \in Percents DEF Percents
<1>2. Together(v, s) \in 0 .. 1000
  BY ONLY <1>1, TogetherType
<1>. QED  BY ONLY <1>2 DEF Percents

(* The hashes of a picture and the cosine of two embeddings.               *)
IsPrint(p) == p.phash \subseteq Bit /\ IsFiniteSet(p.dhash)

LEMMA EmbeddingPart ==
    ASSUME NEW x, x \in -100 .. 100
    PROVE  Max({0, x - 40}) \in 0 .. 60
<1>1. PICK c \in Int : c = x - 40
  OBVIOUS
<1>2. PICK none \in Int : none = 0
  OBVIOUS
<1>3. Max({none, c}) \in {none, c} /\ none <= Max({none, c})
  BY ONLY none \in Int, c \in Int, MaxOfTwo, Zenon
<1>. QED  BY ONLY <1>1, <1>2, <1>3, x \in -100 .. 100

LEMMA ImageScoreFraction ==
    ASSUME NEW a, NEW b, IsPrint(a), IsPrint(b),
           Cosine[a.embedding][b.embedding] \in -100 .. 100
    PROVE  /\ Fraction(ImageScore(a, b))
           /\ ImageScore(a, b)[2] = 100 * 60 * Cardinality(Bit)
<1> DEFINE w == Cardinality(Bit)
           p == Rescaled(Similarity(a.phash, b.phash))
           d == Rescaled(Similarity(a.dhash, b.dhash))
           c == Cosine[a.embedding][b.embedding] - 40
           e == Max({0, c})
<1>1. w \in Nat \ {0} /\ IsFiniteSet(Bit)
  BY MatchingAssumption, FS_EmptySet, FS_CardinalityType
<1>2. IsFiniteSet(a.phash) /\ IsFiniteSet(b.phash)
  BY <1>1, FS_Subset DEF IsPrint
<1>3. p[1] \in 0 .. w /\ d[1] \in 0 .. w
  <2>1. ASSUME NEW h, NEW k, IsFiniteSet(h), IsFiniteSet(k)
        PROVE  Rescaled(Similarity(h, k))[1] \in 0 .. w
    <3>1. Agreeing(h, k, Bit) \in Int /\ Agreeing(h, k, Bit) <= w
      BY <1>1, <2>1, AgreeingBound
    <3>2. /\ Similarity(h, k)[1] = Agreeing(h, k, Bit)
          /\ Similarity(h, k)[2] = w
      BY DEF Similarity
    <3>. HIDE DEF w
    <3>3. Fraction(Rescaled(Similarity(h, k)))
          /\ Rescaled(Similarity(h, k))[2] = w
      BY <1>1, <3>1, <3>2, RescaledFraction
    <3>. QED  BY <1>1, <3>3 DEF Fraction
  <2>. QED  BY <1>2, <2>1 DEF IsPrint
<1>4. e \in 0 .. 60
  BY ONLY Cosine[a.embedding][b.embedding] \in -100 .. 100, EmbeddingPart
<1>5. ImageScore(a, b)
        = <<60 * (45 * p[1] + 20 * d[1]) + 35 * e * w, 100 * 60 * w>>
  BY DEF ImageScore
<1>. HIDE DEF w, p, d, e
<1>6. /\ w * e <= w * 60 /\ 0 <= w * e /\ w * e \in Int
      /\ 35 * e * w = 35 * (w * e)
  BY <1>1, <1>4, TimesMonotone
<1> DEFINE part == 60 * (45 * p[1] + 20 * d[1]) + 35 * e * w
<1>7. part \in Nat /\ part <= 6000 * w
  BY ONLY <1>1, <1>3, <1>4, <1>6, SMTT(20)
<1>. HIDE DEF part
<1>8. Fraction(<<part, 100 * 60 * w>>)
  BY <1>1, <1>7 DEF Fraction
<1>. QED  BY <1>5, <1>8 DEF part, w

(* The frame most like a picture agrees with it at most wholly.            *)
LEMMA FrameGrabFraction ==
    ASSUME NEW p, p.phash \subseteq Bit,
           NEW frames \in Seq(SUBSET Bit), frames # <<>>
    PROVE  /\ Fraction(FrameGrab(p, frames))
           /\ p.phash \in Range(frames) =>
                 FrameGrab(p, frames)[1] = FrameGrab(p, frames)[2]
<1> DEFINE w == Cardinality(Bit)
           all == {Agreeing(p.phash, f, Bit) : f \in Range(frames)}
<1>1. w \in Nat \ {0} /\ IsFiniteSet(Bit)
  BY MatchingAssumption, FS_EmptySet, FS_CardinalityType
<1>2. Range(frames) \subseteq SUBSET Bit /\ Range(frames) # {}
  <2>1. \A n \in 1 .. Len(frames) : frames[n] \in SUBSET Bit
    BY ElementOfSeq
  <2>2. DOMAIN frames = 1 .. Len(frames) /\ Len(frames) \in Nat \ {0}
    BY EmptySeq, LenProperties
  <2>. QED  BY <2>1, <2>2 DEF Range
<1>3. ASSUME NEW f \in Range(frames)
      PROVE  /\ Agreeing(p.phash, f, Bit) \in Nat
             /\ Agreeing(p.phash, f, Bit) <= w
             /\ p.phash = f => Agreeing(p.phash, f, Bit) = w
  <2>1. f \in SUBSET Bit /\ IsFiniteSet(f) /\ IsFiniteSet(p.phash)
    BY <1>1, <1>2, FS_Subset
  <2>. QED  BY <1>1, <2>1, AgreeingBound
<1>4. all \subseteq Int /\ all # {} /\ \A x \in all : 0 <= x /\ x <= w
  BY <1>2, <1>3
<1>5. p.phash \in Range(frames) => w \in all
  BY <1>3
<1>6. FrameGrab(p, frames) = Rescaled(<<Max(all), w>>)
  BY DEF FrameGrab
<1>. HIDE DEF w, all
<1>7. w \in Int /\ all \subseteq Int /\ all # {} /\ \A x \in all : x <= w
  BY <1>1, <1>4
<1>8. Max(all) \in all /\ \A x \in all : x <= Max(all)
  BY ONLY <1>7, MaxProperties
<1> DEFINE most == Max(all)
<1>9. most \in Nat /\ most <= w /\ (w \in all => most = w)
  <2>1. most \in all /\ \A x \in all : x <= most
    BY <1>8
  <2>. HIDE DEF most
  <2>. QED  BY <1>1, <1>4, <2>1
<1> DEFINE f == <<Max(all), w>>
<1>10. /\ f[1] \in Int /\ f[2] \in Nat \ {0} /\ f[1] <= f[2]
       /\ w \in all => f[1] = f[2]
  BY <1>1, <1>9
<1>. HIDE DEF f
<1>. QED  BY <1>5, <1>6, <1>10, RescaledFraction DEF f

LEMMA ChunkScoreFraction ==
    ASSUME NEW a, NEW b, IsFiniteSet(a), IsFiniteSet(b), a # {}
    PROVE  Fraction(ChunkScore(a, b))
<1>1. IsFiniteSet(a \cup b) /\ a \cup b # {} /\ a \cap b \in SUBSET (a \cup b)
  BY FS_Union
<1> DEFINE x == Cardinality(a \cap b)
           y == Cardinality(a \cup b)
<1>2. x \in Nat /\ y \in Nat \ {0} /\ x <= y
  BY <1>1, FS_Subset, FS_CardinalityType, FS_EmptySet
<1>3. ChunkScore(a, b) = <<x, y>>
  BY DEF ChunkScore
<1>. HIDE DEF x, y
<1>. QED  BY <1>2, <1>3 DEF Fraction

(* What a fingerprint consists of.                                         *)
Printed(p) ==
    /\ p.kind = "image" => IsPrint(p.picture) /\ p.frames = <<>>
    /\ p.frames \in Seq(SUBSET Bit)
    /\ p.sounds \in Seq(SUBSET Band)
    /\ IsFiniteSet(p.chunks) /\ p.chunks # {}

LEMMA FrameHashesType ==
    ASSUME NEW frames \in Seq([Bit -> Int])
    PROVE  /\ FrameHashes(frames) \in Seq(SUBSET Bit)
           /\ Len(FrameHashes(frames)) = Len(First(frames, MaxFrames))
           /\ \A n \in 1 .. Len(FrameHashes(frames)) :
                 FrameHashes(frames)[n] = PHash(First(frames, MaxFrames)[n])
<1> DEFINE sampled == First(frames, MaxFrames)
<1>1. sampled \in Seq([Bit -> Int])
  BY FirstType, MatchingAssumption
<1>2. Len(sampled) \in Nat /\ DOMAIN sampled = 1 .. Len(sampled)
  BY <1>1, LenProperties
<1>3. FrameHashes(frames) = [n \in 1 .. Len(sampled) |-> PHash(sampled[n])]
  BY <1>2 DEF FrameHashes
<1>4. \A n \in 1 .. Len(sampled) : PHash(sampled[n]) \in SUBSET Bit
  BY PHashType
<1>. HIDE DEF sampled
<1>. QED  BY <1>2, <1>3, <1>4 DEF sampled

LEMMA SoundPrintsType ==
    ASSUME NEW energies \in Seq(Seq(Int))
    PROVE  LET heard == First(energies, MaxSound) IN
           /\ SoundPrints(energies) \in Seq(SUBSET Band)
           /\ Len(heard) = 0 => Len(SoundPrints(energies)) = 0
           /\ Len(heard) # 0 => Len(SoundPrints(energies)) = Len(heard) - 1
           /\ \A n \in 1 .. Len(SoundPrints(energies)) :
                 SoundPrints(energies)[n] = {b \in Band :
                     heard[n + 1][b] - heard[n + 1][b + 1] >
                         heard[n][b] - heard[n][b + 1]}
<1> DEFINE heard == First(energies, MaxSound)
           Grown(n) == {b \in Band : heard[n + 1][b] - heard[n + 1][b + 1] >
                                        heard[n][b] - heard[n][b + 1]}
<1>1. heard \in Seq(Seq(Int))
  BY FirstType, MatchingAssumption
<1>2. Len(heard) \in Nat
  BY <1>1, LenProperties
<1>3. SoundPrints(energies) = [n \in 1 .. Len(heard) - 1 |-> Grown(n)]
  BY DEF SoundPrints
<1>4. \A n \in 1 .. Len(heard) - 1 : Grown(n) \in SUBSET Band
  OBVIOUS
<1>5. SUFFICES /\ SoundPrints(energies) \in Seq(SUBSET Band)
               /\ Len(heard) = 0 => Len(SoundPrints(energies)) = 0
               /\ Len(heard) # 0 =>
                     Len(SoundPrints(energies)) = Len(heard) - 1
               /\ \A n \in 1 .. Len(SoundPrints(energies)) :
                     SoundPrints(energies)[n] = Grown(n)
  OBVIOUS
<1>. HIDE DEF heard, Grown
<1>6. CASE Len(heard) = 0
  <2>1. 1 .. Len(heard) - 1 = 1 .. 0
    BY <1>6
  <2>2. SoundPrints(energies) = [n \in 1 .. 0 |-> Grown(n)]
    BY <1>3, <2>1, Zenon
  <2>3. SoundPrints(energies) = <<>>
    BY <2>2
  <2>. QED  BY <1>6, <2>3
<1>7. CASE Len(heard) # 0
  BY <1>2, <1>3, <1>4, <1>7
<1>. QED  BY <1>6, <1>7

LEMMA HashesPrinted ==
    ASSUME NEW m \in Media
    PROVE  /\ Printed(Hashes[m])
           /\ Hashes[m].kind = "image" <=> Raw[m].picture # Nothing
           /\ Hashes[m].kind = "image" =>
                 Hashes[m].picture.embedding = Raw[m].picture.embedding
<1> DEFINE raw == Raw[m]
           frames == FrameHashes(raw.frames)
           sounds == SoundPrints(raw.sound)
           chunks == Chunks(raw.blocks)
<1>1. frames \in Seq(SUBSET Bit)
  BY MatchingAssumption, FrameHashesType
<1>2. sounds \in Seq(SUBSET Band)
  BY MatchingAssumption, SoundPrintsType
<1>3. IsFiniteSet(chunks) /\ chunks # {}
  BY MatchingAssumption, ChunksFinite
<1>4. <<>> \in Seq(SUBSET Bit) /\ <<>> \in Seq(SUBSET Band)
  BY EmptySeq
<1>5. raw.picture # Nothing =>
        /\ PHash(raw.picture.coeffs) \subseteq Bit
        /\ IsFiniteSet(DHash(raw.picture.pixels))
  BY MatchingAssumption, PHashType, DHashFinite
<1>6. Hashes[m] = Fingerprint(raw)
  BY DEF Hashes
<1>. HIDE DEF raw
<1>7. CASE raw.picture # Nothing
  <2> DEFINE p == [phash     |-> PHash(raw.picture.coeffs),
                   dhash     |-> DHash(raw.picture.pixels),
                   embedding |-> raw.picture.embedding]
  <2>1. Hashes[m] = [kind |-> "image", picture |-> p, frames |-> <<>>,
                     sounds |-> <<>>, chunks |-> chunks]
    BY <1>6, <1>7 DEF Fingerprint
  <2>2. IsPrint(p)
    BY <1>5, <1>7 DEF IsPrint
  <2>. HIDE DEF chunks
  <2>. QED  BY <1>3, <1>4, <1>7, <2>1, <2>2 DEF Printed, raw
<1>8. CASE raw.picture = Nothing
  <2> DEFINE av == AVFingerprint(raw)
  <2>1. av.kind \in {"video", "audio", "none"}
        /\ av.frames = frames /\ av.sounds = sounds
    BY DEF AVFingerprint
  <2>. HIDE DEF av, frames, sounds, chunks
  <2>2. CASE av.kind # "none"
    <3>1. Hashes[m] = [kind |-> av.kind, picture |-> Nothing,
                       frames |-> av.frames, sounds |-> av.sounds,
                       chunks |-> chunks]
      BY <1>6, <1>8, <2>2 DEF Fingerprint, av, chunks
    <3>. QED  BY <1>1, <1>2, <1>3, <1>8, <2>1, <3>1 DEF Printed, raw
  <2>3. CASE av.kind = "none"
    <3>1. Hashes[m] = [kind |-> "binary", picture |-> Nothing,
                       frames |-> <<>>, sounds |-> <<>>, chunks |-> chunks]
      BY <1>6, <1>8, <2>3 DEF Fingerprint, av, chunks
    <3>. QED  BY <1>3, <1>4, <1>8, <3>1 DEF Printed, raw
  <2>. QED  BY <2>2, <2>3
<1>. QED  BY <1>7, <1>8

LEMMA ScoreType ==
    ASSUME NEW m \in Media, NEW n \in Media
    PROVE  Score[m][n] \in Percents
<1> DEFINE a == Hashes[m]
           b == Hashes[n]
<1>1. Printed(a) /\ Printed(b)
  BY HashesPrinted
<1>2. a.kind = "image" /\ b.kind = "image" =>
        Cosine[a.picture.embedding][b.picture.embedding] \in -100 .. 100
  BY HashesPrinted, MatchingAssumption
<1>3. Score[m][n] = MatchPercentage(a, b)
  BY DEF Score
<1>. HIDE DEF a, b
<1>4. /\ a.frames \in Seq(SUBSET Bit) /\ b.frames \in Seq(SUBSET Bit)
      /\ a.sounds \in Seq(SUBSET Band) /\ b.sounds \in Seq(SUBSET Band)
      /\ a.kind = "image" => IsPrint(a.picture) /\ a.frames = <<>>
      /\ b.kind = "image" => IsPrint(b.picture) /\ b.frames = <<>>
  BY <1>1 DEF Printed
<1>5. ASSUME a.kind = "image", b.kind = "image"
      PROVE  Rounded(ImageScore(a.picture, b.picture)) \in Percents
  <2>1. Fraction(ImageScore(a.picture, b.picture))
    BY <1>2, <1>4, <1>5, ImageScoreFraction
  <2>. QED  BY ONLY <2>1, RoundedPercent, Zenon
<1>6. ASSUME a.kind = "image", b.frames # <<>>
      PROVE  Rounded(FrameGrab(a.picture, b.frames)) \in Percents
  <2>1. Fraction(FrameGrab(a.picture, b.frames))
    BY <1>4, <1>6, FrameGrabFraction DEF IsPrint
  <2>. QED  BY ONLY <2>1, RoundedPercent, Zenon
<1>7. ASSUME b.kind = "image", a.frames # <<>>
      PROVE  Rounded(FrameGrab(b.picture, a.frames)) \in Percents
  <2>1. Fraction(FrameGrab(b.picture, a.frames))
    BY <1>4, <1>7, FrameGrabFraction DEF IsPrint
  <2>. QED  BY ONLY <2>1, RoundedPercent, Zenon
<1>8. Together(Rounded(FramesScore(a.frames, b.frames)),
               Rounded(SoundsScore(a.sounds, b.sounds))) \in Percents
  <2>1. Fraction(FramesScore(a.frames, b.frames))
    BY <1>4, FramesScoreFraction
  <2>2. Fraction(SoundsScore(a.sounds, b.sounds))
    BY <1>4, SoundsScoreFraction
  <2>3. Rounded(FramesScore(a.frames, b.frames)) \in Percents
    BY ONLY <2>1, RoundedPercent, Zenon
  <2>4. Rounded(SoundsScore(a.sounds, b.sounds)) \in Percents
    BY ONLY <2>2, RoundedPercent, Zenon
  <2>. QED  BY ONLY <2>3, <2>4, TogetherPercent, Zenon
<1>9. Rounded(ChunkScore(a.chunks, b.chunks)) \in Percents
  <2>1. Fraction(ChunkScore(a.chunks, b.chunks))
    BY <1>1, ChunkScoreFraction DEF Printed
  <2>. QED  BY ONLY <2>1, RoundedPercent, Zenon
<1>10. MatchPercentage(a, b) \in Percents
  <2>1. CASE a.kind = "image" /\ b.kind = "image"
    <3>1. MatchPercentage(a, b) = Rounded(ImageScore(a.picture, b.picture))
      BY <1>4, <2>1 DEF MatchPercentage
    <3>. QED  BY ONLY <1>5, <2>1, <3>1, Zenon
  <2>2. CASE a.kind = "image" /\ b.kind # "image" /\ b.frames # <<>>
    <3>1. MatchPercentage(a, b) = Rounded(FrameGrab(a.picture, b.frames))
      BY <2>2 DEF MatchPercentage
    <3>. QED  BY ONLY <1>6, <2>2, <3>1, Zenon
  <2>3. CASE a.kind = "image" /\ b.kind # "image" /\ b.frames = <<>>
    <3>1. MatchPercentage(a, b) = Rounded(ChunkScore(a.chunks, b.chunks))
      BY <2>3 DEF MatchPercentage
    <3>. QED  BY ONLY <1>9, <3>1, Zenon
  <2>4. CASE a.kind # "image" /\ b.kind = "image" /\ a.frames # <<>>
    <3>1. MatchPercentage(a, b) = Rounded(FrameGrab(b.picture, a.frames))
      BY <2>4 DEF MatchPercentage
    <3>. QED  BY ONLY <1>7, <2>4, <3>1, Zenon
  <2>5. CASE a.kind # "image" /\ b.kind = "image" /\ a.frames = <<>>
    <3>1. MatchPercentage(a, b) = Rounded(ChunkScore(a.chunks, b.chunks))
      BY <2>5 DEF MatchPercentage
    <3>. QED  BY ONLY <1>9, <3>1, Zenon
  <2>6. CASE a.kind # "image" /\ b.kind # "image"
    <3>1. \/ MatchPercentage(a, b)
                 = Together(Rounded(FramesScore(a.frames, b.frames)),
                            Rounded(SoundsScore(a.sounds, b.sounds)))
          \/ MatchPercentage(a, b) = Rounded(ChunkScore(a.chunks, b.chunks))
      BY <2>6 DEF MatchPercentage
    <3>. QED  BY ONLY <1>8, <1>9, <3>1, Zenon
  <2>. QED  BY <2>1, <2>2, <2>3, <2>4, <2>5, <2>6
<1>. QED  BY ONLY <1>3, <1>10, Zenon

-----------------------------------------------------------------------------
(* What the searches find.                                                 *)

(* A picture scores as its combined similarity says.                       *)
LEMMA PictureScore ==
    ASSUME NEW m \in Media, NEW n \in Media, IsPicture(m), IsPicture(n)
    PROVE  /\ Fraction(ImageScore(Hashes[m].picture, Hashes[n].picture))
           /\ ImageScore(Hashes[m].picture, Hashes[n].picture)[2]
                = 100 * 60 * Cardinality(Bit)
           /\ Score[m][n]
                = Rounded(ImageScore(Hashes[m].picture, Hashes[n].picture))
<1> DEFINE a == Hashes[m]
           b == Hashes[n]
<1>1. a.kind = "image" /\ b.kind = "image"
  BY DEF IsPicture
<1>2. IsPrint(a.picture) /\ IsPrint(b.picture)
      /\ a.frames = <<>> /\ b.frames = <<>>
  BY <1>1, HashesPrinted DEF Printed
<1>3. Cosine[a.picture.embedding][b.picture.embedding] \in -100 .. 100
  BY <1>1, HashesPrinted, MatchingAssumption
<1>4. Score[m][n] = MatchPercentage(a, b)
  BY DEF Score
<1>. HIDE DEF a, b
<1>5. MatchPercentage(a, b) = Rounded(ImageScore(a.picture, b.picture))
  BY <1>1, <1>2 DEF MatchPercentage
<1>6. /\ Fraction(ImageScore(a.picture, b.picture))
      /\ ImageScore(a.picture, b.picture)[2] = 100 * 60 * Cardinality(Bit)
  BY <1>2, <1>3, ImageScoreFraction
<1>. QED  BY <1>4, <1>5, <1>6 DEF a, b

(* The media in the store have hashes.                                     *)
LEMMA Registered ==
    ASSUME TypeInv
    PROVE  /\ Len(regs) \in Nat /\ DOMAIN regs = 1 .. Len(regs)
           /\ \A n \in DOMAIN regs : regs[n] \in Media
           /\ Pictures \subseteq 1 .. Len(regs)
<1>1. regs \in Seq(Originals) /\ Originals \subseteq Media
  BY AnalysisAssumption DEF TypeInv
<1>2. Len(regs) \in Nat /\ DOMAIN regs = 1 .. Len(regs)
  BY <1>1, LenProperties
<1>3. \A n \in DOMAIN regs : regs[n] \in Media
  BY <1>1, <1>2, ElementOfSeq
<1>4. Pictures \subseteq 1 .. Len(regs)
  BY <1>2 DEF Pictures
<1>. QED  BY <1>2, <1>3, <1>4

LEMMA ScoreOfType ==
    ASSUME TypeInv, NEW t, Probe(t) \in Probes
    PROVE  \A n \in DOMAIN regs : ScoreOf(t, regs[n]) \in Percents
<1>1. Probe(t) \in Media
  BY AnalysisAssumption
<1>2. \A n \in DOMAIN regs : regs[n] \in Media
  BY Registered
<1>3. \A m \in Media, k \in Media : Score[m][k] \in Percents
  BY ScoreType, Zenon
<1>4. \A n \in DOMAIN regs : Score[Probe(t)][regs[n]] \in Percents
  BY ONLY <1>1, <1>2, <1>3, Zenon
<1>. QED  BY ONLY <1>4, Zenon DEF ScoreOf

(* The picture that argmax finds is as good as each of them.               *)
LEMMA BestPictureCovers ==
    ASSUME TypeInv, NEW t, Probe(t) \in Probes, IsPicture(Probe(t)),
           NEW P, P \subseteq Pictures, P # {}
    PROVE  /\ BestPicture(t, P) \in P
           /\ \A k \in P :
                 ScoreOf(t, regs[k]) <= ScoreOf(t, regs[BestPicture(t, P)])
<1> DEFINE Combined(n) == ImageScore(Hashes[Probe(t)].picture,
                                     Hashes[regs[n]].picture)
           Best == {n \in P : ~ \E k \in P : Less(Combined(n), Combined(k))}
           fractions == {Combined(n) : n \in P}
           f == [n \in P |-> Combined(n)]
           whole == 100 * 60 * Cardinality(Bit)
<1>1. Probe(t) \in Media
  BY AnalysisAssumption
<1>2. Len(regs) \in Nat /\ P \in SUBSET (1 .. Len(regs))
  BY Registered
<1>3. IsFiniteSet(P)
  <2>1. IsFiniteSet(1 .. Len(regs))
    BY <1>2, FS_Interval
  <2>. QED  BY ONLY <1>2, <2>1, FS_Subset
<1>4. ASSUME NEW n \in P
      PROVE  /\ Fraction(Combined(n)) /\ Combined(n)[2] = whole
             /\ ScoreOf(t, regs[n]) = Rounded(Combined(n))
  <2>1. regs[n] \in Media /\ IsPicture(regs[n])
    BY Registered DEF Pictures
  <2>. QED  BY <1>1, <2>1, PictureScore DEF ScoreOf
<1>5. f \in [P -> fractions] /\ \A y \in fractions : \E n \in P : f[n] = y
  OBVIOUS
<1>6. fractions # {} /\ \A y \in fractions : Fraction(y)
  BY <1>4
<1>7. BestPicture(t, P) = Min(Best)
  BY DEF BestPicture
<1>8. \A n \in P : Combined(n) \in fractions
  OBVIOUS
<1>9. \A y \in fractions : \E n \in P : y = Combined(n)
  OBVIOUS
<1>. HIDE DEF fractions, f, whole, Combined
<1>10. PICK y \in fractions : \A z \in fractions : ~Less(y, z)
  BY <1>3, <1>5, <1>6, FiniteValues, Unbeaten
<1>11. Best # {} /\ Best \subseteq P
  BY <1>8, <1>9, <1>10
<1>12. Best \subseteq Int /\ 1 \in Int /\ \A n \in Best : 1 <= n
  <2>. HIDE DEF Best
  <2>. QED  BY <1>2, <1>11
<1>13. Min(Best) \in Best
  <2>. HIDE DEF Best
  <2>. QED  BY <1>11, <1>12, MinProperties
<1>14. ASSUME NEW k \in P
       PROVE  ScoreOf(t, regs[k]) <= ScoreOf(t, regs[Min(Best)])
  <2> DEFINE b == Min(Best)
  <2>1. b \in P /\ ~Less(Combined(b), Combined(k))
    BY <1>13
  <2>. HIDE DEF b, Best
  <2>2. /\ Fraction(Combined(b)) /\ Fraction(Combined(k))
        /\ Combined(b)[2] = whole /\ Combined(k)[2] = whole
    BY <1>4, <2>1
  <2>3. Combined(k)[1] <= Combined(b)[1]
    <3>1. /\ Combined(b)[1] \in Nat /\ Combined(k)[1] \in Nat
          /\ whole \in Nat \ {0}
      BY <2>2 DEF Fraction
    <3>2. ~ (Combined(b)[1] * whole < Combined(k)[1] * whole)
      BY <2>1, <2>2 DEF Less
    <3>3. Combined(b)[1] < Combined(k)[1] =>
            whole * Combined(b)[1] < whole * Combined(k)[1]
      BY <3>1, TimesStrict
    <3>4. whole * Combined(b)[1] = Combined(b)[1] * whole
          /\ whole * Combined(k)[1] = Combined(k)[1] * whole
      BY <3>1
    <3>. QED  BY <3>1, <3>2, <3>3, <3>4
  <2>4. Rounded(Combined(k)) <= Rounded(Combined(b))
    BY <2>2, <2>3, RoundedMonotone
  <2>. QED  BY <1>4, <2>1, <2>4 DEF b
<1>. QED  BY <1>7, <1>11, <1>13, <1>14

(* The loop over the others finds one as good as each of them.             *)
LEMMA BestOtherCovers ==
    ASSUME TypeInv, NEW t, Probe(t) \in Probes, Others(t) # {}
    PROVE  /\ BestOther(t) \in Others(t) /\ BestOther(t) \in DOMAIN regs
           /\ \A k \in Others(t) :
                 ScoreOf(t, regs[k]) <= ScoreOf(t, regs[BestOther(t)])
<1> DEFINE V == {ScoreOf(t, regs[n]) : n \in Others(t)}
           Best == {n \in Others(t) : \A k \in Others(t) :
                                   ScoreOf(t, regs[k]) <= ScoreOf(t, regs[n])}
<1>1. /\ Others(t) \subseteq DOMAIN regs
      /\ DOMAIN regs = 1 .. Len(regs) /\ Len(regs) \in Nat
  BY Registered DEF Others
<1>2. \A n \in Others(t) : ScoreOf(t, regs[n]) \in Percents
  <2>1. \A n \in DOMAIN regs : ScoreOf(t, regs[n]) \in Percents
    BY ScoreOfType, Zenon
  <2>. QED  BY ONLY <1>1, <2>1, Zenon
<1>3. V \subseteq Percents /\ V # {}
  BY ONLY <1>2, Others(t) # {}, Zenon
<1>4. Max(V) \in V /\ \A x \in V : x <= Max(V)
  <2>. HIDE DEF V
  <2>. QED  BY ONLY <1>3, PercentsBounded, Zenon
<1>5. PICK n \in Others(t) : ScoreOf(t, regs[n]) = Max(V)
  BY <1>4
<1>6. \A k \in Others(t) : ScoreOf(t, regs[k]) <= ScoreOf(t, regs[n])
  BY <1>4, <1>5
<1>7. n \in Best /\ Best \subseteq Others(t)
  BY <1>6
<1>8. Best \subseteq Int /\ Best # {} /\ 1 \in Int /\ \A x \in Best : 1 <= x
  <2>. HIDE DEF Best
  <2>. QED  BY <1>1, <1>7
<1>9. Min(Best) \in Best
  <2>. HIDE DEF Best
  <2>. QED  BY <1>8, MinProperties
<1>10. BestOther(t) = Min(Best)
  BY DEF BestOther
<1>. QED  BY <1>1, <1>9, <1>10

-----------------------------------------------------------------------------
(* The invariant of the searches.                                          *)

LEMMA AnswerInit == Init => AnswerInv
<1> SUFFICES ASSUME Init PROVE AnswerInv
  OBVIOUS
<1>1. MaxAnalyses \in Nat /\ Limit \in Nat \ {0}
  BY AnalysisAssumption
<1>2. regs = <<>> /\ regs \in Seq(Originals) /\ Len(regs) = 0
  BY EmptySeq DEF Init
<1>3. Pictures = {}
  BY <1>2 DEF Pictures
<1>4. cache \in Seq(-Limit .. MaxAnalyses)
  <2>1. stored \in Nat /\ stored \in 0 .. Limit
    BY <1>1 DEF Init
  <2>2. \A n \in 1 .. stored : -n \in -Limit .. MaxAnalyses
    BY <1>1, <2>1
  <2>3. [n \in 1 .. stored |-> -n] \in Seq(-Limit .. MaxAnalyses)
    BY <2>1, <2>2
  <2>. QED  BY <2>3 DEF Init
<1>5. NoJob \in Local
  BY <1>1 DEF NoJob, Local
<1>6. TypeInv
  <2>1. job \in [Thread -> Local] /\ \A t \in Thread : job[t] = NoJob
    BY <1>5 DEF Init
  <2>2. pc \in [Thread -> Steps] /\ \A t \in Thread : pc[t] = "idle"
    BY DEF Init, Steps
  <2>3. index \in [key : Int, pictures : SUBSET Nat] /\ index.key = -1
    BY DEF Init
  <2>4. sightings \subseteq Probes /\ served \in 0 .. MaxAnalyses
    BY <1>1 DEF Init
  <2>. QED  BY <1>2, <1>4, <2>1, <2>2, <2>3, <2>4 DEF TypeInv, Picking
<1>7. Lists(index.pictures, index.key)
  BY <1>3 DEF Init, Lists
<1>8. ASSUME NEW t \in Thread PROVE SearchInv(t)
  <2>1. pc[t] = "idle" /\ job[t] = NoJob
    BY DEF Init
  <2>. QED  BY <1>2, <2>1 DEF SearchInv, NoJob, Searched
<1>. QED  BY <1>6, <1>7, <1>8 DEF AnswerInv

(* What a thread has found is not disturbed by the others.                 *)
LEMMA SearchElsewhere ==
    ASSUME NEW u, SearchInv(u), regs' = regs, job'[u] = job[u], pc'[u] = pc[u]
    PROVE  SearchInv(u)'
<1>1. Pictures' = Pictures
  BY DEF Pictures
<1>2. \A n : Covers(u, n)' = Covers(u, n)
  BY DEF Covers, ScoreOf, Probe
<1>3. \A P, n : Lists(P, n)' = Lists(P, n)
  BY <1>1 DEF Lists
<1>. QED  BY <1>1, <1>2, <1>3 DEF SearchInv, Searched, ScoreOf, Probe

(* A thread goes on to a step with new local variables.                    *)
Becomes(t, step, local) ==
    /\ pc' = [pc EXCEPT ![t] = step]
    /\ job' = [job EXCEPT ![t] = local]

(* It suffices that what it has then is right, and what it has shared.     *)
LEMMA ThreadMoves ==
    ASSUME AnswerInv, NEW t \in Thread,
           NEW step \in Steps, NEW local \in Local, Becomes(t, step, local),
           step # "idle" => local.probe \in Probes,
           step \in Picking => IsPicture(local.probe),
           regs' = regs, sightings' = sightings,
           served' \in 0 .. MaxAnalyses,
           cache' \in Seq(-Limit .. MaxAnalyses),
           index' \in [key : Int, pictures : SUBSET Nat],
           index'.key \in -1 .. Len(regs),
           Lists(index'.pictures, index'.key),
           SearchInv(t)'
    PROVE  AnswerInv'
<1>1. /\ pc \in [Thread -> Steps] /\ job \in [Thread -> Local]
      /\ regs \in Seq(Originals) /\ sightings \subseteq Probes
      /\ \A u \in Thread : pc[u] # "idle" => Probe(u) \in Probes
      /\ \A u \in Thread : pc[u] \in Picking => IsPicture(Probe(u))
      /\ \A u \in Thread : SearchInv(u)
  BY DEF AnswerInv, TypeInv
<1>2. /\ pc' \in [Thread -> Steps] /\ pc'[t] = step
      /\ \A u \in Thread : u # t => pc'[u] = pc[u]
  BY <1>1 DEF Becomes
<1>3. /\ job' \in [Thread -> Local] /\ job'[t] = local
      /\ \A u \in Thread : u # t => job'[u] = job[u]
  BY <1>1 DEF Becomes
<1>4. TypeInv'
  <2>1. \A u \in Thread : pc'[u] # "idle" => job'[u].probe \in Probes
    BY <1>1, <1>2, <1>3 DEF Probe
  <2>2. \A u \in Thread : pc'[u] \in Picking => IsPicture(job'[u].probe)
    BY <1>1, <1>2, <1>3 DEF Probe
  <2>. QED  BY <1>1, <1>2, <1>3, <2>1, <2>2 DEF TypeInv, Probe, IsPicture
<1>5. ASSUME NEW u \in Thread PROVE SearchInv(u)'
  BY <1>1, <1>2, <1>3, SearchElsewhere
<1>6. Lists(index.pictures, index.key)'
  BY DEF Lists, Pictures
<1>. QED  BY <1>4, <1>5, <1>6 DEF AnswerInv

(* A registration is added behind the others.                              *)
LEMMA RegisterKeeps ==
    ASSUME AnswerInv, NEW m \in Originals, Register(m)
    PROVE  AnswerInv'
<1>1. /\ regs' = Append(regs, m) /\ pc' = pc /\ job' = job /\ index' = index
      /\ cache' = cache /\ served' = served /\ sightings' = sightings
  BY DEF Register, reports
<1>2. TypeInv /\ regs \in Seq(Originals) /\ index.key \in -1 .. Len(regs)
  BY DEF AnswerInv, TypeInv
<1>3. /\ Len(regs) \in Nat /\ DOMAIN regs = 1 .. Len(regs)
      /\ Pictures \subseteq 1 .. Len(regs)
  BY <1>2, Registered
<1>4. /\ regs' \in Seq(Originals) /\ Len(regs') = Len(regs) + 1
      /\ \A n \in 1 .. Len(regs) : regs'[n] = regs[n]
      /\ DOMAIN regs' = 1 .. Len(regs) + 1
  BY <1>1, <1>2, <1>3
<1>5. /\ Pictures \subseteq Pictures'
      /\ \A n \in Pictures' : n <= Len(regs) => n \in Pictures
      /\ Pictures' \subseteq 1 .. Len(regs) + 1
  BY <1>3, <1>4 DEF Pictures, IsPicture
<1>6. ASSUME NEW P, NEW n \in Int, n <= Len(regs), Lists(P, n)
      PROVE  P \subseteq Pictures' /\ \A k \in Pictures' : k <= n => k \in P
  BY <1>3, <1>5, <1>6 DEF Lists
<1>7. TypeInv'
  <2>1. index.key \in -1 .. Len(regs')
    BY <1>2, <1>3, <1>4
  <2>. QED  BY <1>1, <1>4, <2>1 DEF AnswerInv, TypeInv, Probe, IsPicture
<1>8. Lists(index.pictures, index.key)'
  <2>1. index.key \in Int /\ index.key <= Len(regs)
    BY <1>2, <1>3
  <2>2. Lists(index.pictures, index.key)
    BY DEF AnswerInv
  <2>. QED  BY <1>1, <1>6, <2>1, <2>2 DEF Lists
<1>9. ASSUME NEW t \in Thread PROVE SearchInv(t)'
  <2>1. SearchInv(t)
    BY DEF AnswerInv
  <2>2. job[t].since \in Nat /\ job[t].since <= Len(regs)
    BY <1>2, <2>1 DEF TypeInv, Local, SearchInv
  <2>3. \A n \in 1 .. Len(regs) : Covers(t, n) => Covers(t, n)'
    BY <1>1, <1>4 DEF Covers, ScoreOf, Probe
  <2>4. job'[t].since <= Len(regs')
    BY <1>1, <1>3, <1>4, <2>2
  <2>5. job'[t].best # 0 =>
          /\ job'[t].best \in DOMAIN regs'
          /\ job'[t].score = ScoreOf(t, regs[job[t].best])'
    BY <1>1, <1>3, <1>4, <2>1 DEF SearchInv, ScoreOf, Probe
  <2>6. pc[t] \in {"list", "listing", "index"} =>
          job[t].key \in job[t].since .. Len(regs')
    BY <1>3, <1>4, <2>1, <2>2 DEF SearchInv
  <2>7. pc[t] = "listing" => job[t].size \in job[t].key .. Len(regs')
    <3>1. job[t].key \in Nat /\ job[t].size \in Nat
      BY <1>2 DEF TypeInv, Local
    <3>. QED  BY <1>3, <1>4, <2>1, <3>1 DEF SearchInv
  <2>8. pc[t] = "index" => Lists(job[t].pictures, job[t].key)'
    <3>1. SUFFICES ASSUME pc[t] = "index"
                   PROVE  Lists(job[t].pictures, job[t].key)'
      OBVIOUS
    <3>2. job[t].key \in job[t].since .. Len(regs)
          /\ Lists(job[t].pictures, job[t].key)
      BY <2>1, <3>1 DEF SearchInv
    <3>3. job[t].key \in Int /\ job[t].key <= Len(regs)
      BY <1>3, <2>2, <3>2
    <3>. QED  BY <1>1, <1>6, <3>2, <3>3 DEF Lists
  <2>9. pc[t] = "pick" => Lists(job[t].pictures, job[t].since)'
    BY <1>1, <1>6, <2>1, <2>2 DEF Lists, SearchInv
  <2>10. pc[t] \in {"scan", "scanning"} /\ IsPicture(job[t].probe) =>
            \A n \in Pictures' : n <= job[t].since => Covers(t, n)'
    <3>1. SUFFICES ASSUME pc[t] \in {"scan", "scanning"},
                          IsPicture(job[t].probe),
                          NEW n \in Pictures', n <= job[t].since
                   PROVE  Covers(t, n)'
      OBVIOUS
    <3>2. n <= Len(regs) /\ n \in Pictures /\ n \in 1 .. Len(regs)
      BY <1>3, <1>5, <2>2, <3>1
    <3>3. Covers(t, n)
      BY <2>1, <3>1, <3>2 DEF SearchInv, Probe
    <3>. QED  BY <2>3, <3>2, <3>3
  <2>11. Searched(t) => \A n \in 1 .. job[t].since : Covers(t, n)'
    BY <1>3, <2>1, <2>2, <2>3 DEF SearchInv
  <2>. QED
    BY <1>1, <2>4, <2>5, <2>6, <2>7, <2>8, <2>9, <2>10, <2>11
    DEF SearchInv, Searched, Probe, IsPicture
<1>. QED  BY <1>7, <1>8, <1>9 DEF AnswerInv

LEMMA NoJobType == NoJob \in Local
BY AnalysisAssumption DEF NoJob, Local

(* The assignments to local variables.                                     *)
LEMMA LocalNumbers ==
    ASSUME NEW l \in Local, NEW n, n \in Nat
    PROVE  /\ [l EXCEPT !.key = n] \in Local
           /\ [l EXCEPT !.size = n] \in Local
           /\ [l EXCEPT !.best = n] \in Local
           /\ [l EXCEPT !.since = n] \in Local
BY DEF Local

LEMMA LocalIdentifier ==
    ASSUME NEW l \in Local, NEW n, n \in 0 .. MaxAnalyses
    PROVE  [l EXCEPT !.id = n] \in Local
BY DEF Local

LEMMA LocalRequest ==
    ASSUME NEW l \in Local, NEW route \in {"analyze", "cycle"}, NEW m \in Probes
    PROVE  /\ [l EXCEPT !.route = route] \in Local
           /\ [l EXCEPT !.probe = m] \in Local
BY DEF Local

LEMMA LocalScore ==
    ASSUME NEW l \in Local, NEW s, s \in 0 .. 1000
    PROVE  [l EXCEPT !.score = s] \in Local
BY DEF Local

LEMMA LocalSets ==
    ASSUME NEW l \in Local, NEW S
    PROVE  /\ S \in SUBSET Nat => [l EXCEPT !.pictures = S] \in Local
           /\ S \in SUBSET Probes => [l EXCEPT !.urls = S] \in Local
BY DEF Local

LEMMA LocalVictim ==
    ASSUME NEW l \in Local, NEW v, v \in Int
    PROVE  [l EXCEPT !.victim = v] \in Local
BY DEF Local

LEMMA LocalListed ==
    ASSUME NEW l \in Local, NEW S, S \in SUBSET Nat
    PROVE  [l EXCEPT !.size = 0, !.pictures = S] \in Local
<1> DEFINE k == [l EXCEPT !.size = 0]
<1>1. k \in Local
  BY LocalNumbers
<1>2. [l EXCEPT !.size = 0, !.pictures = S] = [k EXCEPT !.pictures = S]
  BY Zenon
<1>. HIDE DEF k
<1>. QED  BY ONLY <1>1, <1>2, S \in SUBSET Nat, LocalSets

LEMMA LocalFound ==
    ASSUME NEW l \in Local, NEW n, n \in Nat, NEW s, s \in 0 .. 1000
    PROVE  [l EXCEPT !.best = n, !.score = s] \in Local
<1> DEFINE k == [l EXCEPT !.best = n]
<1>1. k \in Local
  BY LocalNumbers
<1>2. [l EXCEPT !.best = n, !.score = s] = [k EXCEPT !.score = s]
  BY Zenon
<1>. HIDE DEF k
<1>. QED  BY ONLY <1>1, <1>2, s \in 0 .. 1000, LocalScore

LEMMA LocalPicked ==
    ASSUME NEW l \in Local, NEW n, n \in Nat, NEW s, s \in 0 .. 1000
    PROVE  [l EXCEPT !.pictures = {}, !.best = n, !.score = s] \in Local
<1> DEFINE k == [l EXCEPT !.pictures = {}]
<1>1. k \in Local
  <2>1. {} \in SUBSET Nat
    OBVIOUS
  <2>. QED  BY ONLY l \in Local, <2>1, LocalSets, Zenon
<1>2. [l EXCEPT !.pictures = {}, !.best = n, !.score = s]
        = [k EXCEPT !.best = n, !.score = s]
  BY Zenon
<1>. HIDE DEF k
<1>. QED  BY ONLY <1>1, <1>2, n \in Nat, s \in 0 .. 1000, LocalFound

LEMMA LocalImproved ==
    ASSUME NEW l \in Local, NEW n, n \in Nat, NEW s, s \in 0 .. 1000
    PROVE  [l EXCEPT !.size = 0, !.best = n, !.score = s] \in Local
<1> DEFINE k == [l EXCEPT !.size = 0]
<1>1. k \in Local
  BY LocalNumbers
<1>2. [l EXCEPT !.size = 0, !.best = n, !.score = s]
        = [k EXCEPT !.best = n, !.score = s]
  BY Zenon
<1>. HIDE DEF k
<1>. QED  BY ONLY <1>1, <1>2, n \in Nat, s \in 0 .. 1000, LocalFound

LEMMA LocalOldest ==
    ASSUME NEW l \in Local, NEW v, v \in Int
    PROVE  [l EXCEPT !.size = 0, !.victim = v] \in Local
<1> DEFINE k == [l EXCEPT !.size = 0]
<1>1. k \in Local
  BY LocalNumbers
<1>2. [l EXCEPT !.size = 0, !.victim = v] = [k EXCEPT !.victim = v]
  BY Zenon
<1>. HIDE DEF k
<1>. QED  BY ONLY <1>1, <1>2, v \in Int, LocalVictim

LEMMA LocalBegun ==
    ASSUME NEW n, n \in 0 .. MaxAnalyses, NEW route \in {"analyze", "cycle"},
           NEW m \in Probes, NEW k, k \in Nat
    PROVE  [NoJob EXCEPT !.id = n, !.route = route, !.probe = m, !.since = k]
             \in Local
<1> DEFINE a == [NoJob EXCEPT !.id = n]
           b == [a EXCEPT !.route = route]
           c == [b EXCEPT !.probe = m]
<1>1. [NoJob EXCEPT !.id = n, !.route = route, !.probe = m, !.since = k]
        = [c EXCEPT !.since = k]
  BY Zenon
<1>2. a \in Local
  BY NoJobType, LocalIdentifier
<1>. HIDE DEF a
<1>3. b \in Local
  BY <1>2, LocalRequest
<1>. HIDE DEF b
<1>4. c \in Local
  BY <1>3, LocalRequest
<1>. HIDE DEF c
<1>. QED  BY <1>1, <1>4, LocalNumbers

LEMMA Became ==
    ASSUME AnswerInv, NEW t \in Thread, NEW step, NEW local,
           Becomes(t, step, local)
    PROVE  pc'[t] = step /\ job'[t] = local
<1>1. pc \in [Thread -> Steps] /\ job \in [Thread -> Local]
  BY DEF AnswerInv, TypeInv
<1>. QED  BY <1>1 DEF Becomes

(* A step that leaves what is shared as it is, but for the reports.        *)
LEMMA ThreadSteps ==
    ASSUME AnswerInv, NEW t \in Thread,
           NEW step \in Steps, NEW local \in Local, Becomes(t, step, local),
           step # "idle" => local.probe \in Probes,
           step \in Picking => IsPicture(local.probe),
           regs' = regs, sightings' = sightings, served' = served,
           cache' \in Seq(-Limit .. MaxAnalyses), index' = index,
           SearchInv(t)'
    PROVE  AnswerInv'
<1>1. /\ served \in 0 .. MaxAnalyses
      /\ index \in [key : Int, pictures : SUBSET Nat]
      /\ index.key \in -1 .. Len(regs)
      /\ Lists(index.pictures, index.key)
  BY DEF AnswerInv, TypeInv
<1>2. /\ served' \in 0 .. MaxAnalyses
      /\ index' \in [key : Int, pictures : SUBSET Nat]
      /\ index'.key \in -1 .. Len(regs)
      /\ Lists(index'.pictures, index'.key)
  BY <1>1
<1>. QED  BY <1>2, ThreadMoves

(* A handler is done.                                                      *)
LEMMA ThreadEnds ==
    ASSUME AnswerInv, NEW t \in Thread, End(t),
           regs' = regs, sightings' = sightings, served' = served,
           cache' \in Seq(-Limit .. MaxAnalyses), index' = index
    PROVE  AnswerInv'
<1>1. Becomes(t, "idle", NoJob)
  BY DEF End, Goto, Becomes
<1>2. pc'[t] = "idle" /\ job'[t] = NoJob
  BY <1>1, Became
<1>3. Len(regs) \in Nat
  BY Registered DEF AnswerInv
<1>4. SearchInv(t)'
  BY <1>2, <1>3 DEF SearchInv, Searched, NoJob
<1>5. "idle" \in Steps /\ "idle" \notin Picking
  BY DEF Steps, Picking
<1>. QED  BY <1>1, <1>4, <1>5, NoJobType, ThreadSteps

(* What holds of a thread that is not idle.                                *)
LEMMA ThreadState ==
    ASSUME AnswerInv, NEW t \in Thread, pc[t] # "idle"
    PROVE  /\ TypeInv /\ SearchInv(t) /\ job[t] \in Local
           /\ Probe(t) \in Probes /\ job[t].probe = Probe(t)
           /\ pc[t] \in Picking => IsPicture(Probe(t))
           /\ Len(regs) \in Nat /\ DOMAIN regs = 1 .. Len(regs)
           /\ Pictures \subseteq 1 .. Len(regs)
           /\ cache \in Seq(-Limit .. MaxAnalyses)
<1>1. TypeInv /\ SearchInv(t)
  BY DEF AnswerInv
<1>2. job[t] \in Local /\ Probe(t) \in Probes /\ job[t].probe = Probe(t)
  BY <1>1 DEF TypeInv, Probe
<1>3. pc[t] \in Picking => IsPicture(Probe(t))
  BY <1>1 DEF TypeInv
<1>4. cache \in Seq(-Limit .. MaxAnalyses)
  BY <1>1 DEF TypeInv
<1>. QED  BY <1>1, <1>2, <1>3, <1>4, Registered

LEMMA BeginKeeps ==
    ASSUME AnswerInv, NEW t \in Thread, NEW route \in {"analyze", "cycle"},
           NEW m \in Probes, Begin(t, route, m)
    PROVE  AnswerInv'
<1> DEFINE local == [NoJob EXCEPT !.id = served', !.route = route, !.probe = m,
                                  !.since = Len(regs)]
           step == IF regs = <<>> THEN "urls"
                   ELSE IF IsPicture(m) THEN "key" ELSE "scan"
<1>1. Becomes(t, step, local)
  BY DEF Begin, Goto, Becomes
<1>2. TypeInv /\ regs \in Seq(Originals) /\ Len(regs) \in Nat
  BY Registered DEF AnswerInv, TypeInv
<1>3. served' \in 0 .. MaxAnalyses
  <2>1. served < MaxAnalyses /\ served' = served + 1
    BY DEF Begin
  <2>2. served \in 0 .. MaxAnalyses
    BY <1>2 DEF TypeInv
  <2>3. MaxAnalyses \in Nat
    BY AnalysisAssumption
  <2>. QED  BY ONLY <2>1, <2>2, <2>3
<1>4. /\ local \in Local /\ local.probe = m /\ local.since = Len(regs)
      /\ local.best = 0
  <2>1. local \in Local
    BY <1>2, <1>3, LocalBegun
  <2>. QED  BY <2>1 DEF NoJob
<1>5. /\ step \in {"urls", "key", "scan"}
      /\ step = "urls" => Len(regs) = 0
      /\ step = "scan" => ~IsPicture(m)
      /\ step = "key" => IsPicture(m)
  BY <1>2
<1>6. step \in Steps /\ (step \in Picking => step = "key")
  BY <1>5 DEF Steps, Picking
<1>7. pc'[t] = step /\ job'[t] = local
  BY <1>1, Became
<1>8. /\ regs' = regs /\ sightings' = sightings /\ cache' = cache
      /\ index' = index
  BY DEF Begin, store, reports
<1>. HIDE DEF local, step
<1>9. SearchInv(t)'
  BY <1>2, <1>4, <1>5, <1>7, <1>8 DEF SearchInv, Searched, Probe, IsPicture
<1>10. /\ cache' \in Seq(-Limit .. MaxAnalyses)
       /\ index' \in [key : Int, pictures : SUBSET Nat]
       /\ index'.key \in -1 .. Len(regs)
       /\ Lists(index'.pictures, index'.key)
  BY <1>8 DEF AnswerInv, TypeInv
<1>. QED
  BY <1>1, <1>3, <1>4, <1>5, <1>6, <1>8, <1>9, <1>10, ThreadMoves

LEMMA ReadKeyKeeps ==
    ASSUME AnswerInv, NEW t \in Thread, ReadKey(t)
    PROVE  AnswerInv'
<1>1. pc[t] = "key" /\ pc[t] # "idle" /\ pc[t] \in Picking
  BY DEF ReadKey, Picking
<1>2. /\ TypeInv /\ SearchInv(t) /\ job[t] \in Local
      /\ Probe(t) \in Probes /\ job[t].probe = Probe(t)
      /\ IsPicture(Probe(t)) /\ Len(regs) \in Nat
      /\ cache \in Seq(-Limit .. MaxAnalyses)
  BY <1>1, ThreadState
<1>3. /\ regs' = regs /\ sightings' = sightings /\ served' = served
      /\ index' = index /\ cache' = cache
  BY DEF ReadKey, store, reports
<1>4. Pictures' = Pictures
  BY <1>3 DEF Pictures
<1>5. CASE index.key = Len(regs)
  <2> DEFINE local == [job[t] EXCEPT !.pictures = index.pictures]
  <2>1. Becomes(t, "pick", local)
    BY <1>5 DEF ReadKey, Goto, Becomes
  <2>2. local \in Local /\ "pick" \in Steps
    <3>1. index.pictures \in SUBSET Nat
      BY <1>2 DEF TypeInv
    <3>. QED  BY <1>2, <3>1, LocalSets DEF Steps
  <2>3. /\ local.since = job[t].since /\ local.best = job[t].best
        /\ local.score = job[t].score /\ local.probe = job[t].probe
        /\ local.pictures = index.pictures
    BY <1>2 DEF Local
  <2>4. pc'[t] = "pick" /\ job'[t] = local
    BY <2>1, Became
  <2>5. Lists(index.pictures, Len(regs)) /\ job[t].since <= Len(regs)
        /\ job[t].since \in Nat
    BY <1>2, <1>5 DEF AnswerInv, SearchInv, Local
  <2>. HIDE DEF local
  <2>6. Lists(index.pictures, job[t].since)
    BY <1>2, <2>5, Registered DEF Lists
  <2>7. SearchInv(t)'
    BY <1>2, <1>3, <1>4, <2>3, <2>4, <2>6
    DEF SearchInv, Searched, Lists, ScoreOf, Probe
  <2>. QED  BY <1>2, <1>3, <2>1, <2>2, <2>3, <2>7, ThreadSteps
<1>6. CASE index.key # Len(regs)
  <2> DEFINE local == [job[t] EXCEPT !.key = Len(regs)]
  <2>1. Becomes(t, "list", local)
    BY <1>6 DEF ReadKey, Goto, Becomes
  <2>2. local \in Local /\ "list" \in Steps
    BY <1>2, LocalNumbers DEF Steps
  <2>3. /\ local.since = job[t].since /\ local.best = job[t].best
        /\ local.score = job[t].score /\ local.probe = job[t].probe
        /\ local.key = Len(regs)
    BY <1>2 DEF Local
  <2>4. pc'[t] = "list" /\ job'[t] = local
    BY <2>1, Became
  <2>5. job[t].since <= Len(regs) /\ job[t].since \in Nat
    BY <1>2 DEF SearchInv, Local
  <2>. HIDE DEF local
  <2>6. SearchInv(t)'
    BY <1>2, <1>3, <1>4, <2>3, <2>4, <2>5
    DEF SearchInv, Searched, ScoreOf, Probe
  <2>. QED  BY <1>2, <1>3, <2>1, <2>2, <2>3, <2>6, ThreadSteps
<1>. QED  BY <1>5, <1>6

LEMMA StartListKeeps ==
    ASSUME AnswerInv, NEW t \in Thread, StartList(t)
    PROVE  AnswerInv'
<1>1. pc[t] = "list" /\ pc[t] # "idle" /\ pc[t] \in Picking
  BY DEF StartList, Picking
<1>2. /\ TypeInv /\ SearchInv(t) /\ job[t] \in Local
      /\ Probe(t) \in Probes /\ job[t].probe = Probe(t)
      /\ IsPicture(Probe(t)) /\ Len(regs) \in Nat
      /\ cache \in Seq(-Limit .. MaxAnalyses)
  BY <1>1, ThreadState
<1>3. /\ regs' = regs /\ sightings' = sightings /\ served' = served
      /\ index' = index /\ cache' = cache
  BY DEF StartList, store, reports
<1> DEFINE local == [job[t] EXCEPT !.size = Len(regs)]
<1>4. Becomes(t, "listing", local)
  BY DEF StartList, Goto, Becomes
<1>5. local \in Local /\ "listing" \in Steps
  BY <1>2, LocalNumbers DEF Steps
<1>6. /\ local.since = job[t].since /\ local.best = job[t].best
      /\ local.score = job[t].score /\ local.probe = job[t].probe
      /\ local.key = job[t].key /\ local.size = Len(regs)
  BY <1>2 DEF Local
<1>7. pc'[t] = "listing" /\ job'[t] = local
  BY <1>4, Became
<1>8. job[t].key \in job[t].since .. Len(regs) /\ job[t].key \in Nat
      /\ job[t].since \in Nat
  BY <1>1, <1>2 DEF SearchInv, Local
<1>. HIDE DEF local
<1>9. SearchInv(t)'
  BY <1>2, <1>3, <1>6, <1>7, <1>8 DEF SearchInv, Searched, ScoreOf, Probe
<1>. QED  BY <1>2, <1>3, <1>4, <1>5, <1>6, <1>9, ThreadSteps

LEMMA EndListKeeps ==
    ASSUME AnswerInv, NEW t \in Thread, EndList(t)
    PROVE  AnswerInv'
<1>1. pc[t] = "listing" /\ pc[t] # "idle" /\ pc[t] \in Picking
  BY DEF EndList, Picking
<1>2. /\ TypeInv /\ SearchInv(t) /\ job[t] \in Local
      /\ Probe(t) \in Probes /\ job[t].probe = Probe(t)
      /\ IsPicture(Probe(t)) /\ Len(regs) \in Nat
      /\ Pictures \subseteq 1 .. Len(regs)
      /\ cache \in Seq(-Limit .. MaxAnalyses)
  BY <1>1, ThreadState
<1>3. /\ regs' = regs /\ sightings' = sightings /\ served' = served
      /\ index' = index /\ cache' = cache
  BY DEF EndList, store, reports
<1>4. Pictures' = Pictures
  BY <1>3 DEF Pictures
<1>5. CASE job[t].size # Len(regs)
  <2>1. End(t)
    BY <1>5 DEF EndList
  <2>. QED  BY <1>2, <1>3, <2>1, ThreadEnds
<1>6. CASE job[t].size = Len(regs)
  <2> DEFINE local == [job[t] EXCEPT !.size = 0, !.pictures = Pictures]
  <2>1. Becomes(t, "index", local)
    BY <1>6 DEF EndList, Goto, Becomes
  <2>2. Pictures \in SUBSET Nat
    BY <1>2
  <2>3. local \in Local /\ "index" \in Steps
    BY <1>2, <2>2, LocalListed DEF Steps
  <2>4. /\ local.since = job[t].since /\ local.best = job[t].best
        /\ local.score = job[t].score /\ local.probe = job[t].probe
        /\ local.key = job[t].key /\ local.pictures = Pictures
    BY <1>2 DEF Local
  <2>5. pc'[t] = "index" /\ job'[t] = local
    BY <2>1, Became
  <2>6. job[t].key \in job[t].since .. Len(regs)
    BY <1>1, <1>2 DEF SearchInv
  <2>. HIDE DEF local
  <2>7. SearchInv(t)'
    BY <1>2, <1>3, <1>4, <2>4, <2>5, <2>6
    DEF SearchInv, Searched, Lists, ScoreOf, Probe
  <2>. QED  BY <1>2, <1>3, <2>1, <2>3, <2>4, <2>7, ThreadSteps
<1>. QED  BY <1>5, <1>6

LEMMA StoreIndexKeeps ==
    ASSUME AnswerInv, NEW t \in Thread, StoreIndex(t)
    PROVE  AnswerInv'
<1>1. pc[t] = "index" /\ pc[t] # "idle" /\ pc[t] \in Picking
  BY DEF StoreIndex, Picking
<1>2. /\ TypeInv /\ SearchInv(t) /\ job[t] \in Local
      /\ Probe(t) \in Probes /\ job[t].probe = Probe(t)
      /\ IsPicture(Probe(t)) /\ Len(regs) \in Nat
      /\ Pictures \subseteq 1 .. Len(regs)
      /\ cache \in Seq(-Limit .. MaxAnalyses)
  BY <1>1, ThreadState
<1>3. /\ regs' = regs /\ sightings' = sightings /\ served' = served
      /\ cache' = cache
      /\ index' = [key |-> job[t].key, pictures |-> job[t].pictures]
  BY DEF StoreIndex, IndexKey, store, reports
<1>4. Pictures' = Pictures
  BY <1>3 DEF Pictures
<1> DEFINE local == [job[t] EXCEPT !.key = 0]
<1>5. Becomes(t, "pick", local)
  BY DEF StoreIndex, Goto, Becomes
<1>6. local \in Local /\ "pick" \in Steps
  BY <1>2, LocalNumbers DEF Steps
<1>7. /\ local.since = job[t].since /\ local.best = job[t].best
      /\ local.score = job[t].score /\ local.probe = job[t].probe
      /\ local.pictures = job[t].pictures
  BY <1>2 DEF Local
<1>8. pc'[t] = "pick" /\ job'[t] = local
  BY <1>5, Became
<1>9. /\ job[t].key \in job[t].since .. Len(regs)
      /\ job[t].key \in Nat /\ job[t].since \in Nat
      /\ job[t].pictures \in SUBSET Nat
      /\ Lists(job[t].pictures, job[t].key)
  BY <1>1, <1>2 DEF SearchInv, Local
<1>. HIDE DEF local
<1>10. Lists(job[t].pictures, job[t].since)
  <2>1. \A k \in Pictures : k <= job[t].since => k <= job[t].key
    BY <1>2, <1>9
  <2>. QED  BY <1>9, <2>1 DEF Lists
<1>11. SearchInv(t)'
  BY <1>2, <1>3, <1>4, <1>7, <1>8, <1>10
  DEF SearchInv, Searched, Lists, ScoreOf, Probe
<1>12. /\ index' \in [key : Int, pictures : SUBSET Nat]
       /\ index'.key \in -1 .. Len(regs)
       /\ Lists(index'.pictures, index'.key)
  BY <1>2, <1>3, <1>9
<1>13. served' \in 0 .. MaxAnalyses
  BY <1>2, <1>3 DEF TypeInv
<1>. QED
  BY <1>2, <1>3, <1>5, <1>6, <1>7, <1>11, <1>12, <1>13, ThreadMoves

LEMMA ScoresCompare ==
    \A x, y, z \in Int :
        /\ x <= y /\ z > y => x <= z
        /\ x <= y /\ ~ (y > z) => x <= z
OBVIOUS

LEMMA PickKeeps ==
    ASSUME AnswerInv, NEW t \in Thread, Pick(t)
    PROVE  AnswerInv'
<1>1. pc[t] = "pick" /\ pc[t] # "idle" /\ pc[t] \in Picking
  BY DEF Pick, Picking
<1>2. /\ TypeInv /\ SearchInv(t) /\ job[t] \in Local
      /\ Probe(t) \in Probes /\ job[t].probe = Probe(t)
      /\ IsPicture(Probe(t)) /\ Len(regs) \in Nat
      /\ DOMAIN regs = 1 .. Len(regs)
      /\ cache \in Seq(-Limit .. MaxAnalyses)
  BY <1>1, ThreadState
<1>3. /\ regs' = regs /\ sightings' = sightings /\ served' = served
      /\ index' = index /\ cache' = cache
  BY DEF Pick, store, reports
<1>4. Pictures' = Pictures
  BY <1>3 DEF Pictures
<1>5. "scan" \in Steps /\ "scan" \notin Picking
  BY DEF Steps, Picking
<1> DEFINE P == job[t].pictures
<1>6. /\ P \subseteq Pictures /\ P \in SUBSET Nat
      /\ \A k \in Pictures : k <= job[t].since => k \in P
      /\ job[t].since <= Len(regs)
  BY <1>1, <1>2 DEF SearchInv, Lists, Local
<1>7. CASE P = {}
  <2>1. job' = job /\ pc' = [pc EXCEPT ![t] = "scan"]
    BY <1>7 DEF Pick, Goto
  <2>2. Becomes(t, "scan", job[t])
    BY <1>2, <2>1 DEF Becomes, TypeInv
  <2>3. pc'[t] = "scan" /\ job'[t] = job[t]
    BY <2>2, Became
  <2>4. SearchInv(t)'
    BY <1>2, <1>3, <1>4, <1>6, <1>7, <2>3
    DEF SearchInv, Searched, ScoreOf, Probe
  <2>. QED  BY <1>2, <1>3, <1>5, <2>2, <2>4, ThreadSteps
<1>8. CASE P # {}
  <2> DEFINE best == BestPicture(t, P)
             score == ScoreOf(t, regs[best])
             local == [job[t] EXCEPT !.pictures = {}, !.best = best,
                                     !.score = score]
  <2>1. Becomes(t, "scan", local)
    BY <1>8 DEF Pick, Goto, Becomes
  <2>2. /\ best \in P
        /\ \A k \in P : ScoreOf(t, regs[k]) <= score
    BY <1>2, <1>6, <1>8, BestPictureCovers
  <2>3. best \in Nat /\ best # 0 /\ best \in DOMAIN regs
    BY <1>2, <1>6, <2>2, Registered DEF Pictures
  <2>4. score \in 0 .. 1000
    <3>1. \A k \in DOMAIN regs : ScoreOf(t, regs[k]) \in Percents
      BY <1>2, ScoreOfType, Zenon
    <3>2. score \in Percents
      BY ONLY <2>3, <3>1, Zenon
    <3>. HIDE DEF score
    <3>. QED  BY ONLY <3>2 DEF Percents
  <2>. HIDE DEF best, score
  <2>5. local \in Local
    BY <1>2, <2>3, <2>4, LocalPicked
  <2>6. /\ local.since = job[t].since /\ local.best = best
        /\ local.score = score /\ local.probe = job[t].probe
    BY <1>2 DEF Local
  <2>7. pc'[t] = "scan" /\ job'[t] = local
    BY <2>1, Became
  <2>. HIDE DEF local
  <2>8. \A n \in Pictures : n <= job[t].since =>
           ScoreOf(t, regs[n]) <= score
    BY <1>6, <2>2
  <2>9. score = Score[job[t].probe][regs[best]]
    BY <1>2 DEF score, ScoreOf
  <2>10. SearchInv(t)'
    BY <1>2, <1>3, <1>4, <1>6, <2>3, <2>6, <2>7, <2>8, <2>9
    DEF SearchInv, Searched, Covers, ScoreOf, Probe
  <2>. QED  BY <1>2, <1>3, <1>5, <2>1, <2>5, <2>6, <2>10, ThreadSteps
<1>. QED  BY <1>7, <1>8

LEMMA StartScanKeeps ==
    ASSUME AnswerInv, NEW t \in Thread, StartScan(t)
    PROVE  AnswerInv'
<1>1. pc[t] = "scan" /\ pc[t] # "idle"
  BY DEF StartScan
<1>2. /\ TypeInv /\ SearchInv(t) /\ job[t] \in Local
      /\ Probe(t) \in Probes /\ job[t].probe = Probe(t)
      /\ Len(regs) \in Nat
      /\ cache \in Seq(-Limit .. MaxAnalyses)
  BY <1>1, ThreadState
<1>3. /\ regs' = regs /\ sightings' = sightings /\ served' = served
      /\ index' = index /\ cache' = cache
  BY DEF StartScan, store, reports
<1>4. Pictures' = Pictures
  BY <1>3 DEF Pictures
<1> DEFINE local == [job[t] EXCEPT !.size = Len(regs)]
<1>5. Becomes(t, "scanning", local)
  BY DEF StartScan, Goto, Becomes
<1>6. local \in Local /\ "scanning" \in Steps /\ "scanning" \notin Picking
  BY <1>2, LocalNumbers DEF Steps, Picking
<1>7. /\ local.since = job[t].since /\ local.best = job[t].best
      /\ local.score = job[t].score /\ local.probe = job[t].probe
  BY <1>2 DEF Local
<1>8. pc'[t] = "scanning" /\ job'[t] = local
  BY <1>5, Became
<1>. HIDE DEF local
<1>9. SearchInv(t)'
  BY <1>1, <1>2, <1>3, <1>4, <1>7, <1>8
  DEF SearchInv, Searched, Covers, ScoreOf, Probe
<1>. QED  BY <1>2, <1>3, <1>5, <1>6, <1>7, <1>9, ThreadSteps

(* What a thread remembers is in range.                                    *)
LEMMA JobNumbers ==
    ASSUME NEW t, SearchInv(t), job[t] \in Local
    PROVE  /\ job[t].since \in Nat /\ job[t].since <= Len(regs)
           /\ job[t].score \in Percents /\ job[t].score \in Int
<1>1. job[t].since \in Nat
  BY ONLY job[t] \in Local DEF Local
<1>2. job[t].since <= Len(regs)
  BY ONLY SearchInv(t) DEF SearchInv
<1>3. job[t].score \in Percents
  BY ONLY job[t] \in Local DEF Local, Percents
<1>. QED  BY ONLY <1>1, <1>2, <1>3, PercentsInt, Zenon

(* After the loop, what is best is as good as each registration that was   *)
(* there when the handler began: the pictures were compared before, and    *)
(* the loop has compared the others.                                       *)
LEMMA EndScanKeeps ==
    ASSUME AnswerInv, NEW t \in Thread, EndScan(t)
    PROVE  AnswerInv'
<1>1. pc[t] = "scanning" /\ pc[t] # "idle"
  BY DEF EndScan
<1>2. /\ TypeInv /\ SearchInv(t) /\ job[t] \in Local
      /\ Probe(t) \in Probes /\ job[t].probe = Probe(t)
      /\ Len(regs) \in Nat /\ DOMAIN regs = 1 .. Len(regs)
      /\ cache \in Seq(-Limit .. MaxAnalyses)
  BY <1>1, ThreadState
<1>3. /\ regs' = regs /\ sightings' = sightings /\ served' = served
      /\ index' = index /\ cache' = cache
  BY DEF EndScan, store, reports
<1>4. "urls" \in Steps /\ "urls" \notin Picking
  BY DEF Steps, Picking
<1>5. CASE ~ (job[t].size = Len(regs) /\ (Improves(t) \/ job[t].best # 0))
  <2>1. End(t)
    BY <1>5 DEF EndScan
  <2>. QED  BY <1>2, <1>3, <2>1, ThreadEnds
<1>6. /\ job[t].since \in Nat /\ job[t].since <= Len(regs)
      /\ job[t].score \in Int
  BY <1>2, JobNumbers, Zenon
<1>7. ASSUME NEW n \in 1 .. job[t].since, n \notin Others(t)
      PROVE  /\ job[t].best # 0
             /\ ScoreOf(t, regs[n]) <= job[t].score
  <2>1. n \in DOMAIN regs /\ n <= job[t].since
    BY <1>2, <1>6
  <2>2. IsPicture(Probe(t)) /\ n \in Pictures
    BY <1>7, <2>1 DEF Others, Pictures
  <2>3. Covers(t, n)
    BY <1>1, <1>2, <2>1, <2>2 DEF SearchInv
  <2>. QED  BY <2>3 DEF Covers
<1>8. ASSUME NEW n \in 1 .. job[t].since
      PROVE  ScoreOf(t, regs[n]) \in Int
  <2>1. n \in DOMAIN regs
    BY ONLY <1>2, <1>6, n \in 1 .. job[t].since
  <2>2. \A k \in DOMAIN regs : ScoreOf(t, regs[k]) \in Percents
    BY <1>2, ScoreOfType, Zenon
  <2>. QED  BY ONLY <2>1, <2>2, PercentsInt, Zenon
<1>9. CASE job[t].size = Len(regs) /\ Improves(t)
  <2> DEFINE best == BestOther(t)
             score == ScoreOf(t, regs[best])
             local == [job[t] EXCEPT !.size = 0, !.best = best,
                                     !.score = score]
  <2>1. Becomes(t, "urls", local)
    BY <1>9 DEF EndScan, Goto, Becomes
  <2>2. /\ best \in DOMAIN regs
        /\ \A k \in Others(t) : ScoreOf(t, regs[k]) <= score
    BY <1>2, <1>9, BestOtherCovers DEF Improves
  <2>3. score \in 0 .. 1000
    <3>1. \A k \in DOMAIN regs : ScoreOf(t, regs[k]) \in Percents
      BY <1>2, ScoreOfType, Zenon
    <3>2. score \in Percents
      BY ONLY <2>2, <3>1, Zenon
    <3>. HIDE DEF score
    <3>. QED  BY ONLY <3>2 DEF Percents
  <2>4. job[t].best # 0 => score > job[t].score
    BY <1>9 DEF Improves
  <2>. HIDE DEF best, score
  <2>5. best \in Nat /\ best # 0
    BY <1>2, <2>2
  <2>6. local \in Local
    BY <1>2, <2>3, <2>5, LocalImproved
  <2>7. /\ local.since = job[t].since /\ local.best = best
        /\ local.score = score /\ local.probe = job[t].probe
    BY <1>2 DEF Local
  <2>8. pc'[t] = "urls" /\ job'[t] = local
    BY <2>1, Became
  <2>. HIDE DEF local
  <2>9. \A n \in 1 .. job[t].since : ScoreOf(t, regs[n]) <= score
    <3>1. SUFFICES ASSUME NEW n \in 1 .. job[t].since
                   PROVE  ScoreOf(t, regs[n]) <= score
      OBVIOUS
    <3>2. CASE n \in Others(t)
      BY <2>2, <3>2
    <3>3. CASE n \notin Others(t)
      <4>1. job[t].best # 0 /\ ScoreOf(t, regs[n]) <= job[t].score
        BY <1>7, <3>3
      <4>2. score > job[t].score
        BY <2>4, <4>1
      <4>3. ScoreOf(t, regs[n]) \in Int
        BY ONLY <1>8, n \in 1 .. job[t].since, Zenon
      <4>4. score \in Int
        BY ONLY <2>3
      <4>5. job[t].score \in Int
        BY <1>6
      <4>. QED  BY ONLY <4>1, <4>2, <4>3, <4>4, <4>5, ScoresCompare, Zenon
    <3>. QED  BY <3>2, <3>3
  <2>10. score = Score[job[t].probe][regs[best]]
    BY <1>2 DEF score, ScoreOf
  <2>11. SearchInv(t)'
    BY <1>2, <1>3, <1>6, <2>2, <2>5, <2>7, <2>8, <2>9, <2>10
    DEF SearchInv, Searched, Covers, ScoreOf, Probe
  <2>. QED  BY <1>2, <1>3, <1>4, <2>1, <2>6, <2>7, <2>11, ThreadSteps
<1>10. CASE job[t].size = Len(regs) /\ ~Improves(t) /\ job[t].best # 0
  <2> DEFINE local == [job[t] EXCEPT !.size = 0]
  <2>1. Becomes(t, "urls", local)
    BY <1>10 DEF EndScan, Goto, Becomes
  <2>2. local \in Local
    BY <1>2, LocalNumbers
  <2>3. /\ local.since = job[t].since /\ local.best = job[t].best
        /\ local.score = job[t].score /\ local.probe = job[t].probe
    BY <1>2 DEF Local
  <2>4. pc'[t] = "urls" /\ job'[t] = local
    BY <2>1, Became
  <2>. HIDE DEF local
  <2>5. ASSUME NEW n \in 1 .. job[t].since
        PROVE  ScoreOf(t, regs[n]) <= job[t].score
    <3>1. CASE n \in Others(t)
      <4>1. /\ BestOther(t) \in DOMAIN regs
            /\ ScoreOf(t, regs[n]) <= ScoreOf(t, regs[BestOther(t)])
        BY <1>2, <3>1, BestOtherCovers
      <4>2. ScoreOf(t, regs[BestOther(t)]) \in Percents
        <5>1. \A k \in DOMAIN regs : ScoreOf(t, regs[k]) \in Percents
          BY <1>2, ScoreOfType, Zenon
        <5>. QED  BY ONLY <4>1, <5>1, Zenon
      <4>3. ~ (ScoreOf(t, regs[BestOther(t)]) > job[t].score)
        BY <1>10, <3>1 DEF Improves
      <4>4. ScoreOf(t, regs[n]) \in Int
        BY ONLY <1>8, n \in 1 .. job[t].since, Zenon
      <4>5. job[t].score \in Int
        BY <1>6
      <4>6. ScoreOf(t, regs[BestOther(t)]) \in Int
        BY ONLY <4>2, PercentsInt, Zenon
      <4>. QED
        BY ONLY <4>1, <4>3, <4>4, <4>5, <4>6, ScoresCompare, Zenon
    <3>2. CASE n \notin Others(t)
      BY <1>7, <3>2
    <3>. QED  BY <3>1, <3>2
  <2>6. SearchInv(t)'
    BY <1>2, <1>3, <1>6, <1>10, <2>3, <2>4, <2>5
    DEF SearchInv, Searched, Covers, ScoreOf, Probe
  <2>. QED  BY <1>2, <1>3, <1>4, <2>1, <2>2, <2>3, <2>6, ThreadSteps
<1>. QED  BY <1>5, <1>9, <1>10

LEMMA CollectUrlsKeeps ==
    ASSUME AnswerInv, NEW t \in Thread, CollectUrls(t)
    PROVE  AnswerInv'
<1>1. pc[t] = "urls" /\ pc[t] # "idle"
  BY DEF CollectUrls
<1>2. /\ TypeInv /\ SearchInv(t) /\ job[t] \in Local
      /\ Probe(t) \in Probes /\ job[t].probe = Probe(t)
      /\ cache \in Seq(-Limit .. MaxAnalyses)
  BY <1>1, ThreadState
<1>3. /\ regs' = regs /\ sightings' = sightings /\ served' = served
      /\ index' = index /\ cache' = cache
  BY DEF CollectUrls, store, reports
<1> DEFINE urls == {m \in sightings : ScoreOf(t, m) >= 650}
           local == [job[t] EXCEPT !.urls = urls]
           step == IF job[t].route = "analyze" THEN "report" ELSE "cycle"
<1>4. Becomes(t, step, local)
  BY DEF CollectUrls, Goto, Becomes
<1>5. urls \in SUBSET Probes
  BY <1>2 DEF TypeInv
<1>. HIDE DEF urls
<1>6. local \in Local
  BY <1>2, <1>5, LocalSets
<1>7. /\ local.since = job[t].since /\ local.best = job[t].best
      /\ local.score = job[t].score /\ local.probe = job[t].probe
  BY <1>2 DEF Local
<1>8. /\ step \in {"report", "cycle"} /\ step \in Steps
      /\ step \notin Picking
  BY DEF Steps, Picking
<1>9. pc'[t] = step /\ job'[t] = local
  BY <1>4, Became
<1>. HIDE DEF local, step
<1>10. \A n \in 1 .. job[t].since : Covers(t, n)
  BY <1>1, <1>2 DEF SearchInv, Searched
<1>11. SearchInv(t)'
  BY <1>2, <1>3, <1>7, <1>8, <1>9, <1>10
  DEF SearchInv, Searched, Covers, ScoreOf, Probe
<1>. QED  BY <1>2, <1>3, <1>4, <1>6, <1>7, <1>8, <1>11, ThreadSteps

(* The steps of the report leave what was found as it is.                  *)
LEMMA ReportKeeps ==
    ASSUME AnswerInv, NEW t \in Thread, pc[t] # "idle",
           NEW step \in {"iter", "oldest", "pop", "insert"},
           NEW local \in Local, Becomes(t, step, local),
           local.since = job[t].since, local.best = job[t].best,
           local.score = job[t].score, local.probe = job[t].probe,
           regs' = regs, sightings' = sightings, served' = served,
           cache' \in Seq(-Limit .. MaxAnalyses), index' = index
    PROVE  AnswerInv'
<1>1. SearchInv(t) /\ Probe(t) \in Probes /\ job[t].probe = Probe(t)
  BY ThreadState
<1>2. step \in Steps /\ step \notin Picking
  BY DEF Steps, Picking
<1>3. pc'[t] = step /\ job'[t] = local
  BY Became
<1>4. SearchInv(t)'
  BY <1>1, <1>3 DEF SearchInv, Searched, ScoreOf, Probe
<1>. QED  BY <1>1, <1>2, <1>4, ThreadSteps

LEMMA LookAtCacheKeeps ==
    ASSUME AnswerInv, NEW t \in Thread, LookAtCache(t)
    PROVE  AnswerInv'
<1>1. /\ pc[t] # "idle" /\ job[t] \in Local
      /\ cache \in Seq(-Limit .. MaxAnalyses) /\ TypeInv
  BY ThreadState DEF LookAtCache
<1>2. /\ regs' = regs /\ sightings' = sightings /\ served' = served
      /\ index' = index /\ cache' = cache /\ job' = job
  BY DEF LookAtCache, store, reports
<1> DEFINE step == IF Full THEN "iter" ELSE "insert"
<1>3. job' = [job EXCEPT ![t] = job[t]]
  BY <1>1, <1>2 DEF TypeInv
<1>4. Becomes(t, step, job[t])
  BY <1>3 DEF LookAtCache, Goto, Becomes
<1>5. step \in {"iter", "oldest", "pop", "insert"}
  OBVIOUS
<1>. HIDE DEF step
<1>. QED  BY <1>1, <1>2, <1>4, <1>5, ReportKeeps

LEMMA StartWalkKeeps ==
    ASSUME AnswerInv, NEW t \in Thread, StartWalk(t)
    PROVE  AnswerInv'
<1>1. /\ pc[t] # "idle" /\ job[t] \in Local
      /\ cache \in Seq(-Limit .. MaxAnalyses)
  BY ThreadState DEF StartWalk
<1>2. /\ regs' = regs /\ sightings' = sightings /\ served' = served
      /\ index' = index /\ cache' = cache
  BY DEF StartWalk, store, reports
<1> DEFINE local == [job[t] EXCEPT !.size = Len(cache)]
<1>3. Becomes(t, "oldest", local)
  BY DEF StartWalk, Goto, Becomes
<1>4. Len(cache) \in Nat
  BY <1>1, LenProperties
<1>5. local \in Local
  BY <1>1, <1>4, LocalNumbers
<1>6. /\ local.since = job[t].since /\ local.best = job[t].best
      /\ local.score = job[t].score /\ local.probe = job[t].probe
  BY <1>1 DEF Local
<1>. HIDE DEF local
<1>. QED  BY <1>1, <1>2, <1>3, <1>5, <1>6, ReportKeeps

LEMMA OldestKeeps ==
    ASSUME AnswerInv, NEW t \in Thread, Oldest(t)
    PROVE  AnswerInv'
<1>1. /\ pc[t] # "idle" /\ job[t] \in Local
      /\ cache \in Seq(-Limit .. MaxAnalyses)
  BY ThreadState DEF Oldest
<1>2. /\ regs' = regs /\ sightings' = sightings /\ served' = served
      /\ index' = index /\ cache' = cache
  BY DEF Oldest, store, reports
<1>3. CASE ~ (Len(cache) = job[t].size /\ cache # <<>>)
  <2>1. End(t)
    BY <1>3 DEF Oldest
  <2>. QED  BY <1>1, <1>2, <2>1, ThreadEnds
<1>4. CASE Len(cache) = job[t].size /\ cache # <<>>
  <2> DEFINE local == [job[t] EXCEPT !.size = 0, !.victim = cache[1]]
  <2>1. Becomes(t, "pop", local)
    BY <1>4 DEF Oldest, Goto, Becomes
  <2>2. cache[1] \in Int
    <3>1. Limit \in Nat /\ MaxAnalyses \in Nat
      BY AnalysisAssumption
    <3>2. cache[1] \in -Limit .. MaxAnalyses
      <4>1. 1 \in 1 .. Len(cache)
        BY <1>1, <1>4
      <4>. QED  BY <1>1, <4>1, ElementOfSeq
    <3>. QED  BY <3>1, <3>2
  <2>3. local \in Local
    BY <1>1, <2>2, LocalOldest
  <2>4. /\ local.since = job[t].since /\ local.best = job[t].best
        /\ local.score = job[t].score /\ local.probe = job[t].probe
    BY <1>1 DEF Local
  <2>. HIDE DEF local
  <2>. QED  BY <1>1, <1>2, <2>1, <2>3, <2>4, ReportKeeps
<1>. QED  BY <1>3, <1>4

LEMMA EvictKeeps ==
    ASSUME AnswerInv, NEW t \in Thread, Evict(t)
    PROVE  AnswerInv'
<1>1. /\ pc[t] # "idle" /\ job[t] \in Local
      /\ cache \in Seq(-Limit .. MaxAnalyses) /\ TypeInv
  BY ThreadState DEF Evict
<1>2. /\ regs' = regs /\ sightings' = sightings /\ served' = served
      /\ index' = index
  BY DEF Evict, store
<1>3. ASSUME NEW n \in DOMAIN cache, cache' = RemoveAt(cache, n),
             Goto(t, "insert"), job' = job
      PROVE  AnswerInv'
  <2>1. cache' \in Seq(-Limit .. MaxAnalyses)
    BY <1>1, <1>3, OneOut
  <2>2. job' = [job EXCEPT ![t] = job[t]]
    BY <1>1, <1>3 DEF TypeInv
  <2>3. Becomes(t, "insert", job[t])
    BY <1>3, <2>2 DEF Goto, Becomes
  <2>. QED  BY <1>1, <1>2, <2>1, <2>3, ReportKeeps
<1>4. ASSUME End(t), cache' = cache PROVE AnswerInv'
  BY <1>1, <1>2, <1>4, ThreadEnds
<1>. QED  BY <1>3, <1>4 DEF Evict

LEMMA InsertKeeps ==
    ASSUME AnswerInv, NEW t \in Thread, Insert(t)
    PROVE  AnswerInv'
<1>1. /\ pc[t] # "idle" /\ job[t] \in Local
      /\ cache \in Seq(-Limit .. MaxAnalyses)
  BY ThreadState DEF Insert
<1>2. /\ regs' = regs /\ sightings' = sightings /\ served' = served
      /\ index' = index /\ End(t) /\ cache' = Append(cache, job[t].id)
  BY DEF Insert, store
<1>3. job[t].id \in -Limit .. MaxAnalyses
  <2>1. job[t].id \in 0 .. MaxAnalyses
    BY <1>1 DEF Local
  <2>. QED  BY <2>1, AnalysisAssumption
<1>4. cache' \in Seq(-Limit .. MaxAnalyses)
  BY <1>1, <1>2, <1>3, AppendProperties
<1>. QED  BY <1>2, <1>4, ThreadEnds

LEMMA AnswerNext == AnswerInv /\ [Next]_vars => AnswerInv'
<1> SUFFICES ASSUME AnswerInv, [Next]_vars PROVE AnswerInv'
  OBVIOUS
<1>1. ASSUME NEW m \in Originals, Register(m) PROVE AnswerInv'
  BY <1>1, RegisterKeeps
<1>2. ASSUME sightings' \subseteq Probes, regs' = regs, index' = index,
             cache' = cache, served' = served, pc' = pc, job' = job
      PROVE  AnswerInv'
  <2>1. TypeInv'
    BY <1>2 DEF AnswerInv, TypeInv, Probe, IsPicture
  <2>2. Lists(index.pictures, index.key)'
    BY <1>2 DEF AnswerInv, Lists, Pictures
  <2>3. \A t \in Thread : SearchInv(t)'
    BY <1>2, SearchElsewhere DEF AnswerInv
  <2>. QED  BY <2>1, <2>2, <2>3 DEF AnswerInv
<1>3. ASSUME NEW m \in Probes, Sight(m) PROVE AnswerInv'
  BY <1>2, <1>3 DEF Sight, reports, AnswerInv, TypeInv
<1>4. ASSUME NEW t \in Thread, NEW m \in Probes,
             Begin(t, "analyze", m) \/ Begin(t, "cycle", m)
      PROVE  AnswerInv'
  BY <1>4, BeginKeeps
<1>5. ASSUME NEW t \in Thread, Search(t) PROVE AnswerInv'
  <2>1. CASE Detect(t)
    <3>1. /\ pc[t] # "idle" /\ End(t)
          /\ regs' = regs /\ sightings' = sightings /\ served' = served
          /\ index' = index /\ cache' = cache
      BY <2>1 DEF Detect, store, reports
    <3>. QED  BY <3>1, ThreadState, ThreadEnds
  <2>. QED
    BY <1>5, <2>1, ReadKeyKeeps, StartListKeeps, EndListKeeps,
       StoreIndexKeeps, PickKeeps, StartScanKeeps, EndScanKeeps,
       CollectUrlsKeeps DEF Search
<1>6. ASSUME NEW t \in Thread, Report(t) PROVE AnswerInv'
  BY <1>6, LookAtCacheKeeps, StartWalkKeeps, OldestKeeps, EvictKeeps,
     InsertKeeps DEF Report
<1>7. CASE UNCHANGED vars
  BY <1>2, <1>7 DEF vars, AnswerInv, TypeInv
<1>. QED  BY <1>1, <1>3, <1>4, <1>5, <1>6, <1>7 DEF Next

LEMMA AnswerInvariant == Spec => []AnswerInv
BY AnswerInit, AnswerNext, PTL DEF Spec

(* The types of TypeOK hold: the index of pictures names registrations, a  *)
(* report says one that exists, and a score lies between 0 and 100 % (the  *)
(* state of AIService).                                                    *)
THEOREM AnalysisTypeCorrect == Spec => []TypeOK
<1>1. AnswerInv => TypeOK
  <2> SUFFICES ASSUME AnswerInv PROVE TypeOK
    OBVIOUS
  <2>1. TypeInv /\ Lists(index.pictures, index.key)
    BY DEF AnswerInv
  <2>2. index.pictures \subseteq DOMAIN regs
    BY <2>1 DEF Lists, Pictures
  <2>3. ASSUME NEW t \in Thread
        PROVE  /\ job[t].id \in 0 .. MaxAnalyses
               /\ job[t].best \in 0 .. Len(regs)
               /\ job[t].score \in 0 .. 1000
    <3>1. job[t] \in Local /\ SearchInv(t)
      BY <2>1 DEF AnswerInv, TypeInv
    <3>2. DOMAIN regs = 1 .. Len(regs) /\ Len(regs) \in Nat
      BY <2>1, Registered
    <3>3. job[t].best # 0 => job[t].best \in 1 .. Len(regs)
      BY <3>1, <3>2 DEF SearchInv
    <3>4. /\ job[t].id \in 0 .. MaxAnalyses /\ job[t].best \in Nat
          /\ job[t].score \in 0 .. 1000
      BY ONLY <3>1, SMTT(20) DEF Local
    <3>5. job[t].best \in 0 .. Len(regs)
      BY ONLY <3>2, <3>3, <3>4
    <3>. QED  BY <3>4, <3>5
  <2>. QED  BY <2>1, <2>2, <2>3 DEF TypeOK, TypeInv
<1>. QED  BY <1>1, AnswerInvariant, PTL

(* No registration that was there when an analysis began scores more than  *)
(* the one it reports, for any number of threads, registrations and media  *)
(* (_image_index, _best_image_registration, _find_best_match).             *)
THEOREM AnswersAreComplete == Spec => []AnswersComplete
<1>1. AnswerInv => AnswersComplete
  BY DEF AnswerInv, SearchInv, AnswersComplete, Covers
<1>. QED  BY <1>1, AnswerInvariant, PTL

-----------------------------------------------------------------------------
(* What is cut from a video is found in it.                                *)

LEMMA UpTo ==
    ASSUME NEW n, n \in Nat
    PROVE  IsFiniteSet(1 .. n) /\ Cardinality(1 .. n) = n
<1>1. 1 \in Int /\ n \in Int
  OBVIOUS
<1>2. /\ IsFiniteSet(1 .. n)
      /\ Cardinality(1 .. n) = IF 1 > n THEN 0 ELSE n - 1 + 1
  BY ONLY <1>1, FS_Interval, Zenon
<1>. QED  BY <1>2

(* Everything agrees.                                                      *)
IsFull(f) == Fraction(f) /\ f[1] = f[2]

(* Nothing exceeds what is full but what is full.                          *)
LEMMA FullIsBest ==
    ASSUME NEW f, NEW g, Fraction(f), IsFull(g), ~Less(f, g)
    PROVE  IsFull(f)
<1> DEFINE x == f[1]  y == f[2]  w == g[1]
<1>1. x \in Nat /\ y \in Nat \ {0} /\ x <= y /\ w \in Nat \ {0} /\ g[2] = w
  BY DEF IsFull, Fraction
<1>2. ~ (x * w < w * y)
  BY <1>1 DEF Less
<1>. HIDE DEF x, y, w
<1>3. x < y => w * x < w * y
  BY <1>1, TimesStrict
<1>4. x * w = w * x
  BY <1>1
<1>5. x = y
  BY <1>1, <1>2, <1>3, <1>4
<1>. QED  BY <1>5 DEF IsFull, x, y

LEMMA FullScore ==
    ASSUME NEW f, IsFull(f)
    PROVE  /\ IsFull(Rescaled(f))
           /\ Rounded(f) = 1000 /\ Rounded(Rescaled(f)) = 1000
<1>1. IsFull(Rescaled(f))
  BY RescaledFraction DEF IsFull, Fraction
<1>. QED  BY <1>1, RoundedType DEF IsFull

(* The elements of a are those of b from the one after k on.               *)
Within(a, b, k) ==
    /\ Len(a) + k <= Len(b)
    /\ \A n \in 1 .. Len(a) : a[n] = b[n + k]

LEMMA PartIsWithin ==
    ASSUME NEW S, NEW a \in Seq(S), NEW b \in Seq(S), NEW k, k \in Nat,
           PartAt(a, b, k)
    PROVE  Within(a, b, k)
<1>1. Len(a) \in Nat /\ Len(b) \in Nat /\ Len(a) + k <= Len(b)
  BY DEF PartAt
<1>2. a = SubSeq(b, k + 1, k + Len(a))
  BY DEF PartAt
<1>3. ASSUME NEW n \in 1 .. Len(a) PROVE a[n] = b[n + k]
  <2>1. \A i \in k + 1 .. k + Len(a) : b[i] \in S
    BY <1>1, ElementOfSeq
  <2>2. k + 1 \in Int /\ k + Len(a) \in Int
    BY <1>1
  <2>3. \A i \in 1 .. (k + Len(a)) - (k + 1) + 1 :
           SubSeq(b, k + 1, k + Len(a))[i] = b[(k + 1) + i - 1]
    BY <2>1, <2>2, SubSeqProperties
  <2>4. (k + Len(a)) - (k + 1) + 1 = Len(a) /\ (k + 1) + n - 1 = n + k
    BY <1>1
  <2>5. SubSeq(b, k + 1, k + Len(a))[n] = b[n + k]
    BY <2>3, <2>4
  <2>. QED  BY <1>2, <2>5
<1>. QED  BY <1>1, <1>3 DEF Within

(* At the offset where it was cut, a part is wholly like what it was cut   *)
(* from, and that is one of the offsets that are tried.                    *)
LEMMA CutOffset ==
    ASSUME NEW S, NEW a \in Seq(S), NEW b \in Seq(S), NEW k, k \in Nat,
           Within(a, b, k), NEW least, least \in Nat \ {0}, least <= Len(a),
           NEW bits, IsFiniteSet(bits), bits # {}
    PROVE  k \in Offsets(a, b, least) /\ IsFull(Aligned(a, b, k, bits))
<1>1. /\ Len(a) \in Nat /\ Len(b) \in Nat /\ Len(a) + k <= Len(b)
      /\ DOMAIN a = 1 .. Len(a) /\ DOMAIN b = 1 .. Len(b)
  BY LenProperties DEF Within
<1>2. Overlap(a, b, k) = 1 .. Len(a)
  BY <1>1 DEF Overlap
<1>3. Cardinality(1 .. Len(a)) = Len(a)
  BY <1>1, UpTo
<1>4. k \in -(Len(a) - least) .. Len(b) - least
  BY <1>1
<1>5. Cardinality(Overlap(a, b, k)) >= least
  BY <1>2, <1>3
<1>6. k \in Offsets(a, b, least)
  BY <1>4, <1>5 DEF Offsets
<1>7. Overlap(a, b, k) # {}
  BY <1>1, <1>2
<1>8. \A n \in Overlap(a, b, k) : a[n] = b[n + k]
  BY <1>2 DEF Within
<1>. QED  BY <1>6, <1>7, <1>8, AlignedFraction DEF IsFull

LEMMA FramesFound ==
    ASSUME NEW S, NEW a \in Seq(S), NEW b \in Seq(S), NEW k, k \in Nat,
           Within(a, b, k), MinFrames <= Len(a)
    PROVE  Rounded(FramesScore(a, b)) = 1000
<1> DEFINE ks == Offsets(a, b, MinFrames)
           best == BestAligned(a, b, ks, Bit)
<1>1. MinFrames \in Nat \ {0} /\ IsFiniteSet(Bit) /\ Bit # {}
  BY MatchingAssumption
<1>2. k \in ks /\ IsFull(Aligned(a, b, k, Bit))
  BY <1>1, CutOffset
<1>3. FramesScore(a, b) = Rescaled(best)
  BY DEF FramesScore
<1>4. IsFiniteSet(ks) /\ \A l \in ks : Overlap(a, b, l) # {}
  BY <1>1, OffsetsFinite
<1>. HIDE DEF ks
<1>5. Fraction(best) /\ ~Less(best, Aligned(a, b, k, Bit))
  BY <1>1, <1>2, <1>4, BestAlignedFraction
<1>. HIDE DEF best
<1>6. IsFull(best)
  BY <1>2, <1>5, FullIsBest
<1>. QED  BY <1>3, <1>6, FullScore

(* The coarse search settles on an offset of full similarity, when it      *)
(* passes one.                                                             *)
LEMMA SoundsFound ==
    ASSUME NEW S, NEW a \in Seq(S), NEW b \in Seq(S), NEW k, k \in Nat,
           Within(a, b, k), MinSounds <= Len(a),
           (k + Len(a) - MinSounds) % 4 = 0
    PROVE  Rounded(SoundsScore(a, b)) = 1000
<1> DEFINE offsets == Offsets(a, b, MinSounds)
           Part(l) == Aligned(a, b, l, Band)
           found == {l \in Coarse(a, b) :
                       /\ Part(l)[1] > 0
                       /\ \A m \in Coarse(a, b) : ~Less(Part(l), Part(m))}
           c == CoarseBest(a, b)
           ks == offsets \cap (c - 3 .. c + 3)
           best == BestAligned(a, b, ks, Band)
<1>1. MinSounds \in Nat \ {0} /\ IsFiniteSet(Band) /\ Band # {}
  BY MatchingAssumption
<1>2. k \in offsets /\ IsFull(Part(k))
  BY <1>1, CutOffset
<1>3. IsFiniteSet(offsets) /\ \A l \in offsets : Overlap(a, b, l) # {}
  BY <1>1, OffsetsFinite
<1>4. \A l \in offsets : l \in -(Len(a) - MinSounds) .. Len(b) - MinSounds
  BY <1>1, OffsetsFinite
<1>5. Coarse(a, b) \subseteq offsets /\ k \in Coarse(a, b)
  BY <1>2 DEF Coarse
<1>6. ASSUME NEW l \in offsets PROVE Fraction(Part(l))
  BY <1>1, <1>3, AlignedFraction
<1>7. SoundsScore(a, b) = Rescaled(best)
  BY DEF SoundsScore
<1>8. CoarseBest(a, b) = IF found = {} THEN 0 ELSE Min(found)
  BY DEF CoarseBest
<1>. HIDE DEF offsets, c, Part
<1>9. k \in found
  <2>1. Part(k)[1] > 0
    BY <1>2 DEF IsFull, Fraction
  <2>2. ASSUME NEW m \in Coarse(a, b) PROVE ~Less(Part(k), Part(m))
    <3> DEFINE f == Part(k)  g == Part(m)
    <3>1. IsFull(f) /\ Fraction(g)
      BY <1>2, <1>5, <1>6
    <3>. HIDE DEF f, g
    <3> DEFINE w == f[1]  x == g[1]  y == g[2]
    <3>2. w \in Nat \ {0} /\ f[2] = w /\ x \in Nat /\ y \in Nat \ {0} /\ x <= y
      BY <3>1 DEF IsFull, Fraction
    <3>. HIDE DEF w, x, y
    <3>3. w * x <= w * y /\ x * w = w * x
      BY <3>2, TimesMonotone
    <3>4. ~ (w * y < x * w)
      BY <3>2, <3>3
    <3>5. ~Less(f, g)
      BY <3>2, <3>4 DEF Less, w, x, y
    <3>. QED  BY <3>5 DEF f, g
  <2>. QED  BY <1>5, <2>1, <2>2
<1>10. c \in found
  <2>1. found \subseteq offsets
    BY <1>5
  <2> DEFINE low == -(Len(a) - MinSounds)
  <2>2. low \in Int /\ Len(b) - MinSounds \in Int
    BY <1>1, LenProperties
  <2>3. c = Min(found)
    BY <1>8, <1>9 DEF c
  <2>. HIDE DEF found
  <2>4. found \subseteq Int /\ \A l \in found : low <= l
    BY <1>4, <2>1, <2>2
  <2>. HIDE DEF low
  <2>5. found # {}
    BY <1>9
  <2>6. Min(found) \in found
    BY <2>2, <2>4, <2>5, MinProperties
  <2>. QED  BY <2>3, <2>6
<1>11. IsFull(Part(c)) /\ c \in offsets
  <2>1. c \in offsets /\ ~Less(Part(c), Part(k))
    BY <1>5, <1>10
  <2>2. Fraction(Part(c))
    BY <1>6, <2>1
  <2>. HIDE DEF found
  <2>. QED  BY <1>2, <2>1, <2>2, FullIsBest
<1>12. c \in ks
  <2>1. Len(a) \in Int /\ Len(b) \in Int /\ MinSounds \in Int
    BY <1>1, LenProperties
  <2>2. c \in Int
    BY <1>4, <1>11, <2>1
  <2>. QED  BY <1>11, <2>2
<1>13. IsFiniteSet(ks) /\ \A l \in ks : Overlap(a, b, l) # {}
  <2>1. ks \in SUBSET offsets
    OBVIOUS
  <2>. HIDE DEF ks
  <2>. QED  BY <1>3, <2>1, FS_Subset
<1>. HIDE DEF ks
<1>14. Fraction(best) /\ ~Less(best, Part(c))
  BY <1>1, <1>12, <1>13, BestAlignedFraction DEF Part
<1>. HIDE DEF best
<1>15. IsFull(best)
  BY <1>11, <1>14, FullIsBest
<1>. QED  BY <1>7, <1>15, FullScore

(* Too little sound is not compared.                                       *)
LEMMA NoSounds ==
    ASSUME NEW S, NEW a \in Seq(S), NEW b \in Seq(S), Len(a) < MinSounds
    PROVE  Rounded(SoundsScore(a, b)) = 0
<1>1. MinSounds \in Nat \ {0}
  BY MatchingAssumption
<1>2. Offsets(a, b, MinSounds) = {}
  <2>1. SUFFICES ASSUME NEW k \in Offsets(a, b, MinSounds) PROVE FALSE
    OBVIOUS
  <2>2. Cardinality(Overlap(a, b, k)) >= MinSounds
    BY <2>1 DEF Offsets
  <2>3. Overlap(a, b, k) \in SUBSET (1 .. Len(a))
    BY OverlapFinite
  <2>4. Len(a) \in Nat /\ IsFiniteSet(1 .. Len(a))
        /\ Cardinality(1 .. Len(a)) = Len(a)
    BY UpTo, LenProperties
  <2>5. Cardinality(Overlap(a, b, k)) <= Len(a)
    BY <2>3, <2>4, FS_Subset
  <2>6. Cardinality(Overlap(a, b, k)) \in Nat
    BY OverlapFinite
  <2>. QED  BY <1>1, <2>2, <2>4, <2>5, <2>6
<1>3. SoundsScore(a, b) = Rescaled(<<0, 1>>)
  BY <1>2 DEF SoundsScore, BestAligned
<1>4. Max({0, -1}) = 0
  <2>1. 0 \in Int /\ -1 \in Int
    OBVIOUS
  <2>2. Max({0, -1}) \in {0, -1} /\ 0 <= Max({0, -1})
    BY ONLY <2>1, MaxOfTwo, Zenon
  <2>. QED  BY <2>2
<1>5. Rescaled(<<0, 1>>) = <<0, 1>>
  BY <1>4 DEF Rescaled
<1>6. Rounded(<<0, 1>>) = 0
  BY DEF Rounded
<1>. QED  BY <1>3, <1>5, <1>6

(* The fingerprints of a picture and of a video.                           *)
LEMMA Fingerprints ==
    ASSUME NEW m \in Media
    PROVE  LET frames == FrameHashes(Raw[m].frames) IN
           /\ Raw[m].picture # Nothing =>
                 /\ Hashes[m].kind = "image"
                 /\ Hashes[m].picture.phash = PHash(Raw[m].picture.coeffs)
           /\ Raw[m].picture = Nothing /\ frames # <<>> =>
                 /\ Hashes[m].kind = "video"
                 /\ Hashes[m].frames = frames
                 /\ Hashes[m].sounds = SoundPrints(Raw[m].sound)
<1> DEFINE raw == Raw[m]
           frames == FrameHashes(raw.frames)
           sounds == SoundPrints(raw.sound)
<1>1. Hashes[m] = Fingerprint(raw)
  BY DEF Hashes
<1>. HIDE DEF raw
<1>2. raw.picture # Nothing =>
        /\ Hashes[m].kind = "image"
        /\ Hashes[m].picture.phash = PHash(raw.picture.coeffs)
  BY <1>1 DEF Fingerprint
<1>3. raw.picture = Nothing /\ frames # <<>> =>
        /\ Hashes[m].kind = "video" /\ Hashes[m].frames = frames
        /\ Hashes[m].sounds = sounds
  <2> SUFFICES ASSUME raw.picture = Nothing, frames # <<>>
               PROVE  /\ Hashes[m].kind = "video" /\ Hashes[m].frames = frames
                      /\ Hashes[m].sounds = sounds
    OBVIOUS
  <2> DEFINE av == AVFingerprint(raw)
  <2>1. av.kind = "video" /\ av.frames = frames /\ av.sounds = sounds
    BY DEF AVFingerprint
  <2>. HIDE DEF av, frames, sounds
  <2>2. Hashes[m] = [kind |-> av.kind, picture |-> Nothing,
                     frames |-> av.frames, sounds |-> av.sounds,
                     chunks |-> Chunks(raw.blocks)]
    BY <1>1, <2>1 DEF Fingerprint, av
  <2>. QED  BY <2>1, <2>2
<1>. QED  BY <1>2, <1>3 DEF raw

(* The prints of a part are those of the whole from the same place on.     *)
LEMMA PrintsWithin ==
    ASSUME NEW e \in Seq(Seq(Int)), NEW f \in Seq(Seq(Int)), NEW k, k \in Nat,
           Len(e) > 1, PartAt(e, First(f, MaxSound), k)
    PROVE  /\ Within(SoundPrints(e), SoundPrints(f), k)
           /\ Len(SoundPrints(e)) = Len(e) - 1
<1> DEFINE heard == First(f, MaxSound)
           a == SoundPrints(e)
           b == SoundPrints(f)
<1>1. MaxSound \in Nat
  BY MatchingAssumption
<1>2. heard \in Seq(Seq(Int)) /\ Len(heard) <= MaxSound
  BY <1>1, FirstType
<1>3. Within(e, heard, k)
  BY <1>2, PartIsWithin
<1>4. Len(e) \in Nat /\ Len(heard) \in Nat
  BY <1>2, LenProperties
<1>5. Len(e) + k <= Len(heard) /\ \A n \in 1 .. Len(e) : e[n] = heard[n + k]
  BY <1>3 DEF Within
<1>6. First(e, MaxSound) = e
  <2>1. Len(e) <= MaxSound
    BY <1>1, <1>2, <1>4, <1>5
  <2>. QED  BY <1>1, <2>1, FirstType
<1>7. /\ Len(a) = Len(e) - 1
      /\ \A n \in 1 .. Len(a) :
            a[n] = {x \in Band : e[n + 1][x] - e[n + 1][x + 1] >
                                    e[n][x] - e[n][x + 1]}
  <2>1. Len(e) # 0
    BY <1>4
  <2>2. /\ Len(a) = Len(First(e, MaxSound)) - 1
        /\ \A n \in 1 .. Len(a) :
              a[n] = {x \in Band :
                        First(e, MaxSound)[n + 1][x]
                          - First(e, MaxSound)[n + 1][x + 1]
                        > First(e, MaxSound)[n][x]
                          - First(e, MaxSound)[n][x + 1]}
    BY <1>6, <2>1, SoundPrintsType
  <2>. HIDE DEF a
  <2>. QED  BY ONLY <1>6, <2>2
<1>8. /\ Len(b) = Len(heard) - 1
      /\ \A n \in 1 .. Len(b) :
            b[n] = {x \in Band : heard[n + 1][x] - heard[n + 1][x + 1] >
                                    heard[n][x] - heard[n][x + 1]}
  <2>1. Len(heard) # 0
    BY <1>4, <1>5
  <2>. QED  BY <2>1, SoundPrintsType
<1>. HIDE DEF heard, a, b
<1>9. Len(a) + k <= Len(b)
  BY <1>4, <1>5, <1>7, <1>8
<1>10. ASSUME NEW n \in 1 .. Len(a) PROVE a[n] = b[n + k]
  <2>1. /\ n \in 1 .. Len(e) /\ n + 1 \in 1 .. Len(e)
        /\ n + k \in 1 .. Len(b) /\ (n + 1) + k = (n + k) + 1
    BY <1>4, <1>7, <1>8, <1>9
  <2>2. e[n] = heard[n + k] /\ e[n + 1] = heard[(n + k) + 1]
    BY <1>5, <2>1
  <2>3. b[n + k] = {x \in Band :
                      heard[(n + k) + 1][x] - heard[(n + k) + 1][x + 1] >
                        heard[n + k][x] - heard[n + k][x + 1]}
    BY <1>8, <2>1
  <2>. QED  BY <1>7, <2>2, <2>3
<1>. QED  BY <1>7, <1>9, <1>10 DEF Within, a, b

(* A part of a video scores 100 %.                                         *)
LEMMA ClipScore ==
    ASSUME NEW m \in Media, NEW n \in Media, TakenFrom(Raw[m], Raw[n])
    PROVE  Score[m][n] = 1000
<1> DEFINE a == Raw[m]
           b == Raw[n]
           frames == First(b.frames, MaxFrames)
           sound == First(b.sound, MaxSound)
           fa == FrameHashes(a.frames)
           fb == FrameHashes(b.frames)
           sa == SoundPrints(a.sound)
           sb == SoundPrints(b.sound)
<1>1. /\ MaxFrames \in Nat /\ MaxSound \in Nat
      /\ MinFrames \in Nat \ {0} /\ MinSounds \in Nat \ {0}
      /\ a.frames \in Seq([Bit -> Int]) /\ b.frames \in Seq([Bit -> Int])
      /\ a.sound \in Seq(Seq(Int)) /\ b.sound \in Seq(Seq(Int))
  BY MatchingAssumption
<1>2. frames \in Seq([Bit -> Int]) /\ Len(frames) <= MaxFrames
  BY <1>1, FirstType
<1>3. /\ fa \in Seq(SUBSET Bit) /\ fb \in Seq(SUBSET Bit)
      /\ Len(fb) = Len(frames)
      /\ \A i \in 1 .. Len(fb) : fb[i] = PHash(frames[i])
  BY <1>1, FrameHashesType
<1>4. sa \in Seq(SUBSET Band) /\ sb \in Seq(SUBSET Band)
  BY <1>1, SoundPrintsType
<1>5. b.picture = Nothing
  BY DEF TakenFrom
<1>6. /\ b.picture = Nothing /\ fb # <<>> =>
            /\ Hashes[n].kind = "video"
            /\ Hashes[n].frames = fb /\ Hashes[n].sounds = sb
      /\ a.picture = Nothing /\ fa # <<>> =>
            /\ Hashes[m].kind = "video"
            /\ Hashes[m].frames = fa /\ Hashes[m].sounds = sa
      /\ a.picture # Nothing =>
            /\ Hashes[m].kind = "image"
            /\ Hashes[m].picture.phash = PHash(a.picture.coeffs)
  BY Fingerprints
<1>7. Score[m][n] = MatchPercentage(Hashes[m], Hashes[n])
  BY DEF Score
<1>8. \/ /\ a.picture = Nothing
         /\ Len(a.frames) >= MinFrames
         /\ \E k \in 0 .. Len(frames) : PartAt(a.frames, frames, k)
         /\ \/ Len(a.sound) <= MinSounds
            \/ \E k \in 0 .. Len(sound) :
                  /\ (k + Len(a.sound) - 1 - MinSounds) % 4 = 0
                  /\ PartAt(a.sound, sound, k)
      \/ /\ a.picture # Nothing
         /\ a.picture.coeffs \in Range(frames)
  BY DEF TakenFrom
<1>. HIDE DEF a, b
<1>9. CASE a.picture # Nothing /\ a.picture.coeffs \in Range(frames)
  <2> DEFINE p == Hashes[m].picture
  <2>1. p.phash = PHash(a.picture.coeffs)
    BY <1>6, <1>9
  <2>. HIDE DEF frames, fb
  <2>2. DOMAIN frames = 1 .. Len(frames) /\ Len(frames) \in Nat
    BY <1>2, LenProperties
  <2>3. PICK i \in 1 .. Len(frames) : a.picture.coeffs = frames[i]
    BY <1>9, <2>2 DEF Range
  <2>4. fb[i] = p.phash /\ i \in DOMAIN fb /\ fb # <<>>
    <3>1. i \in 1 .. Len(fb) /\ DOMAIN fb = 1 .. Len(fb)
      BY <1>3, <2>3, LenProperties
    <3>2. fb[i] = p.phash
      BY <1>3, <2>1, <2>3, <3>1
    <3>3. i \in DOMAIN fb
      BY <3>1
    <3>4. fb # <<>>
      BY <3>3
    <3>. QED  BY <3>2, <3>3, <3>4
  <2>5. p.phash \in Range(fb) /\ p.phash \subseteq Bit
    BY <2>1, <2>4, PHashType DEF Range
  <2>. HIDE DEF p
  <2>6. Fraction(FrameGrab(p, fb)) /\ FrameGrab(p, fb)[1] = FrameGrab(p, fb)[2]
    BY <1>3, <2>4, <2>5, FrameGrabFraction
  <2>7. Rounded(FrameGrab(p, fb)) = 1000
    BY <2>6, RoundedType
  <2>8. Hashes[m].kind = "image" /\ Hashes[n].kind = "video"
        /\ Hashes[n].frames = fb
    BY <1>5, <1>6, <1>9, <2>4
  <2>9. MatchPercentage(Hashes[m], Hashes[n]) = Rounded(FrameGrab(p, fb))
    BY <2>4, <2>8 DEF MatchPercentage, p
  <2>. QED  BY <1>7, <2>7, <2>9
<1>10. ASSUME a.picture = Nothing, Len(a.frames) >= MinFrames,
              NEW k, k \in 0 .. Len(frames), PartAt(a.frames, frames, k),
              \/ Len(a.sound) <= MinSounds
              \/ \E l \in 0 .. Len(sound) :
                    /\ (l + Len(a.sound) - 1 - MinSounds) % 4 = 0
                    /\ PartAt(a.sound, sound, l)
       PROVE  Score[m][n] = 1000
  <2>. HIDE DEF frames, sound
  <2>1. k \in Nat /\ Len(frames) \in Nat /\ Len(a.frames) \in Nat
    BY <1>1, <1>2, <1>10, LenProperties
  <2>2. Within(a.frames, frames, k)
    BY <1>1, <1>2, <1>10, <2>1, PartIsWithin
  <2>3. /\ Len(a.frames) + k <= Len(frames)
        /\ \A i \in 1 .. Len(a.frames) : a.frames[i] = frames[i + k]
    BY <2>2 DEF Within
  <2>4. First(a.frames, MaxFrames) = a.frames
    <3>1. Len(a.frames) <= MaxFrames
      BY <1>1, <1>2, <2>1, <2>3
    <3>. QED  BY <1>1, <3>1, FirstType
  <2>5. /\ Len(fa) = Len(a.frames)
        /\ \A i \in 1 .. Len(fa) : fa[i] = PHash(a.frames[i])
    BY <1>1, <2>4, FrameHashesType
  <2>. HIDE DEF fa, fb
  <2>6. Within(fa, fb, k)
    <3>1. Len(fa) + k <= Len(fb)
      BY <1>3, <2>3, <2>5
    <3>2. ASSUME NEW i \in 1 .. Len(fa) PROVE fa[i] = fb[i + k]
      <4>1. i + k \in 1 .. Len(fb)
        BY <1>3, <2>1, <2>3, <2>5
      <4>. QED  BY <1>3, <2>3, <2>5, <4>1
    <3>. QED  BY <3>1, <3>2 DEF Within
  <2>7. Rounded(FramesScore(fa, fb)) = 1000
    BY <1>3, <1>10, <2>1, <2>5, <2>6, FramesFound
  <2>8. fa # <<>> /\ fb # <<>>
    <3>1. Len(fa) > 0 /\ Len(fb) > 0
      BY <1>1, <1>3, <1>10, <2>1, <2>3, <2>5
    <3>. QED  BY <3>1
  <2>9. Rounded(SoundsScore(sa, sb)) \in {0, 1000}
    <3>. HIDE DEF sa, sb
    <3>1. CASE Len(a.sound) <= MinSounds
      <4>1. Len(sa) < MinSounds
        <5>1. Len(First(a.sound, MaxSound)) <= Len(a.sound)
              /\ Len(First(a.sound, MaxSound)) \in Nat
          BY <1>1, FirstType, LenProperties
        <5>2. /\ Len(First(a.sound, MaxSound)) = 0 => Len(sa) = 0
              /\ Len(First(a.sound, MaxSound)) # 0 =>
                    Len(sa) = Len(First(a.sound, MaxSound)) - 1
          BY <1>1, SoundPrintsType DEF sa
        <5>3. Len(a.sound) \in Nat
          BY <1>1, LenProperties
        <5>. QED  BY <1>1, <3>1, <5>1, <5>2, <5>3
      <4>. QED  BY <1>4, <4>1, NoSounds
    <3>2. ASSUME Len(a.sound) > MinSounds,
                 NEW l, l \in 0 .. Len(sound),
                 (l + Len(a.sound) - 1 - MinSounds) % 4 = 0,
                 PartAt(a.sound, sound, l)
          PROVE  Rounded(SoundsScore(sa, sb)) = 1000
      <4>1. Len(a.sound) \in Nat
        BY <1>1, LenProperties
      <4>2. l \in Nat
        <5>1. sound \in Seq(Seq(Int))
          BY <1>1, FirstType DEF sound
        <5>2. Len(sound) \in Nat
          BY <5>1, LenProperties
        <5>. QED  BY <3>2, <5>2
      <4>3. Len(a.sound) > 1
        BY <1>1, <3>2, <4>1
      <4>4. Within(sa, sb, l) /\ Len(sa) = Len(a.sound) - 1
        BY <1>1, <3>2, <4>2, <4>3, PrintsWithin DEF sa, sb, sound
      <4>5. /\ MinSounds <= Len(sa)
            /\ l + Len(sa) - MinSounds = l + Len(a.sound) - 1 - MinSounds
        BY <1>1, <3>2, <4>1, <4>2, <4>4
      <4>6. (l + Len(sa) - MinSounds) % 4 = 0
        BY <3>2, <4>5
      <4>. QED  BY <1>4, <4>2, <4>4, <4>5, <4>6, SoundsFound
    <3>3. Len(a.sound) \in Nat /\ MinSounds \in Nat
      BY <1>1, LenProperties
    <3>4. CASE ~ (Len(a.sound) <= MinSounds)
      <4>1. PICK l \in 0 .. Len(sound) :
              /\ (l + Len(a.sound) - 1 - MinSounds) % 4 = 0
              /\ PartAt(a.sound, sound, l)
        BY <1>10, <3>4
      <4>2. Len(a.sound) > MinSounds
        BY <3>3, <3>4
      <4>3. Rounded(SoundsScore(sa, sb)) = 1000
        BY <3>2, <4>1, <4>2
      <4>. QED  BY <4>3
    <3>. QED  BY <3>1, <3>4
  <2>10. Together(1000, 0) = 1000 /\ Together(1000, 1000) = 1000
    <3>1. PICK all \in Int : all = 1000
      OBVIOUS
    <3>2. PICK none \in Int : none = 0
      OBVIOUS
    <3>3. Max({all, none}) \in {all, none} /\ all <= Max({all, none})
      BY ONLY all \in Int, none \in Int, MaxOfTwo, Zenon
    <3>4. Max({all, all}) \in {all, all}
      BY ONLY all \in Int, MaxOfTwo, Zenon
    <3>5. Min({all, all}) \in {all, all}
      BY ONLY all \in Int, MinOfTwo, Zenon
    <3>6. Max({all, none}) = all /\ Max({all, all}) = all
          /\ Min({all, all}) = all
      BY ONLY <3>1, <3>2, <3>3, <3>4, <3>5
    <3>7. Rounded(<<8 * all + 2 * all, 10 * 1000>>) = 1000
      BY ONLY <3>1 DEF Rounded
    <3>8. Together(all, none) = Max({all, none})
      BY ONLY <3>2 DEF Together
    <3>9. Together(all, all)
            = Rounded(<<8 * Max({all, all}) + 2 * Min({all, all}),
                        10 * 1000>>)
      BY ONLY <3>1 DEF Together
    <3>10. Together(all, none) = 1000 /\ Together(all, all) = 1000
      BY ONLY <3>1, <3>6, <3>7, <3>8, <3>9
    <3>. QED  BY ONLY <3>1, <3>2, <3>10
  <2>11. Together(Rounded(FramesScore(fa, fb)), Rounded(SoundsScore(sa, sb)))
           = 1000
    BY <2>7, <2>9, <2>10
  <2>12. /\ Hashes[m].kind = "video" /\ Hashes[n].kind = "video"
         /\ Hashes[m].frames = fa /\ Hashes[n].frames = fb
         /\ Hashes[m].sounds = sa /\ Hashes[n].sounds = sb
    BY <1>5, <1>6, <1>10, <2>8
  <2>13. MatchPercentage(Hashes[m], Hashes[n])
           = Together(Rounded(FramesScore(fa, fb)), Rounded(SoundsScore(sa, sb)))
    BY <2>12 DEF MatchPercentage
  <2>. QED  BY <1>7, <2>11, <2>13
<1>. QED  BY <1>8, <1>9, <1>10

(* What was cut from a registered video is found for every cut, video,     *)
(* number of bits and order of the threads (phash, audio_fingerprint_bits, *)
(* match_frame_sequences, match_audio_bits, _match_image_to_frames).       *)
THEOREM ClipsAreFound == Spec => []ClipFound
<1>1. AnswerInv => ClipFound
  <2> SUFFICES ASSUME AnswerInv, NEW t \in Thread, Searched(t),
                      NEW n \in 1 .. job[t].since,
                      TakenFrom(Raw[Probe(t)], Raw[regs[n]])
               PROVE  Outcome(t) = "match" /\ job[t].score = 1000
    BY DEF ClipFound
  <2>1. pc[t] # "idle"
    BY DEF Searched
  <2>2. /\ TypeInv /\ SearchInv(t) /\ job[t] \in Local
        /\ Probe(t) \in Probes /\ Len(regs) \in Nat
        /\ DOMAIN regs = 1 .. Len(regs)
    BY <2>1, ThreadState
  <2>3. job[t].since \in Nat /\ job[t].since <= Len(regs)
        /\ job[t].score \in Percents
    BY <2>2, JobNumbers, Zenon
  <2>4. regs[n] \in Media /\ Probe(t) \in Media
    <3>1. n \in DOMAIN regs
      BY <2>2, <2>3
    <3>. QED  BY <2>2, <3>1, Registered, AnalysisAssumption
  <2>5. ScoreOf(t, regs[n]) = 1000
    BY <2>4, ClipScore DEF ScoreOf
  <2>6. Covers(t, n)
    BY <2>2 DEF SearchInv
  <2>7. job[t].best # 0 /\ job[t].score = 1000
    <3>1. job[t].best # 0 /\ 1000 <= job[t].score
      BY <2>5, <2>6 DEF Covers
    <3>2. \A x \in Percents : 1000 <= x => x = 1000
      BY DEF Percents
    <3>. QED  BY ONLY <2>3, <3>1, <3>2
  <2>8. Confirmed \in 0 .. 1000 /\ Review \in 0 .. Confirmed
    BY AnalysisAssumption
  <2>9. job[t].score >= Confirmed /\ job[t].score \notin Review .. Confirmed - 1
    BY <2>7, <2>8
  <2>10. Outcome(t) = "match"
    BY <2>7, <2>9 DEF Outcome
  <2>. QED  BY <2>7, <2>10
<1>. QED  BY <1>1, AnswerInvariant, PTL
=============================================================================
