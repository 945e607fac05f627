---------------------------- MODULE CrawlerProofs ----------------------------
(***************************************************************************)
(* Theorems about Crawler, for any web, any number of jobs, pages, levels, *)
(* redirects and restarts.                                                 *)
(***************************************************************************)
EXTENDS Crawler, SequenceTheorems, WellFoundedInduction, TLAPS

USE DEF traffic

(* A set of naturals that is not empty has a least member.                 *)
LEMMA LeastNatural ==
    ASSUME NEW T, T \subseteq Nat, T # {}
    PROVE  \E x \in T : \A y \in T : ~ (y < x)
<1>1. IsWellFoundedOn(OpToRel(<, Nat), Nat)
  BY NatLessThanWellFounded
<1>2. PICK x \in T : \A y \in T : ~ (<<y, x>> \in OpToRel(<, Nat))
  BY <1>1, WFMin, Zenon
<1>. QED  BY <1>2 DEF OpToRel

(* Induction over the naturals, for a set that stands for the property.    *)
LEMMA Induction ==
    ASSUME NEW T, 0 \in T, \A n \in Nat : n \in T => n + 1 \in T
    PROVE  \A n \in Nat : n \in T
<1> SUFFICES ASSUME Nat \ T # {} PROVE FALSE
  OBVIOUS
<1>1. PICK x \in Nat \ T : \A y \in Nat \ T : ~ (y < x)
  BY LeastNatural
<1>2. x - 1 \in Nat /\ x - 1 < x
  OBVIOUS
<1>. QED  BY <1>1, <1>2

(* A function that is given by its first value and by a step.              *)
Iterates(f, s, F, n) ==
    f[0] = s /\ \A i \in Nat : i < n => f[i + 1] = F[<<i + 1, f[i]>>]

(* Two functions with the same first value and the same step agree.        *)
LEMMA IteratesAgree ==
    ASSUME NEW s, NEW F, NEW n \in Nat, NEW f, NEW g,
           Iterates(f, s, F, n), Iterates(g, s, F, n)
    PROVE  f[n] = g[n]
<1> DEFINE T == {i \in Nat : i <= n => f[i] = g[i]}
<1>1. 0 \in T
  BY DEF Iterates
<1>2. ASSUME NEW i \in Nat, i \in T PROVE i + 1 \in T
  <2> SUFFICES ASSUME i + 1 <= n PROVE f[i + 1] = g[i + 1]
    OBVIOUS
  <2>1. i < n /\ f[i] = g[i]
    BY <1>2
  <2>2. f[i + 1] = F[<<i + 1, f[i]>>] /\ g[i + 1] = F[<<i + 1, g[i]>>]
    BY <2>1 DEF Iterates
  <2>. QED  BY <2>1, <2>2
<1>. HIDE DEF T
<1>3. n \in T
  BY <1>1, <1>2, Induction
<1>. QED  BY <1>3 DEF T

(* A recursive definition over the naturals has a function that satisfies  *)
(* it.                                                                     *)
Recursion(f, T, s, F) ==
    /\ f \in [Nat -> T]
    /\ \A n \in Nat : f[n] = IF n = 0 THEN s ELSE F[<<n, f[n - 1]>>]

(* There is a function with a given first value and a given step.          *)
LEMMA RecursionExists ==
    ASSUME NEW T, NEW s, s \in T, NEW F, F \in [Nat \X T -> T]
    PROVE  \E f : Recursion(f, T, s, F)
<1> DEFINE Upto(n) == {g \in [0 .. n -> T] : Iterates(g, s, F, n)}
           P == {n \in Nat : Upto(n) # {}}
<1>1. 0 \in P
  <2>1. [i \in 0 .. 0 |-> s] \in Upto(0)
    BY DEF Iterates
  <2>. QED  BY <2>1
<1>2. ASSUME NEW n \in Nat, n \in P PROVE n + 1 \in P
  <2>1. PICK g \in [0 .. n -> T] : Iterates(g, s, F, n)
    BY <1>2
  <2> DEFINE h == [i \in 0 .. (n + 1) |-> IF i <= n THEN g[i]
                                           ELSE F[<<n + 1, g[n]>>]]
  <2>2. h \in [0 .. (n + 1) -> T]
    <3>1. F[<<n + 1, g[n]>>] \in T
      OBVIOUS
    <3>. QED  BY <3>1
  <2>3. Iterates(h, s, F, n + 1)
    <3>1. h[0] = s
      BY <2>1 DEF Iterates
    <3>2. ASSUME NEW i \in Nat, i < n + 1 PROVE h[i + 1] = F[<<i + 1, h[i]>>]
      <4>1. CASE i < n
        <5>1. h[i] = g[i] /\ h[i + 1] = g[i + 1]
          BY <4>1
        <5>. HIDE DEF h
        <5>. QED  BY <2>1, <4>1, <5>1 DEF Iterates
      <4>2. CASE i = n
        BY <4>2
      <4>. QED  BY <3>2, <4>1, <4>2
    <3>. HIDE DEF h
    <3>. QED  BY <3>1, <3>2 DEF Iterates
  <2>. QED  BY <2>2, <2>3
<1>. HIDE DEF P
<1>3. \A n \in Nat : n \in P
  BY <1>1, <1>2, Induction
<1> DEFINE G(n) == CHOOSE g \in [0 .. n -> T] : Iterates(g, s, F, n)
           f == [n \in Nat |-> G(n)[n]]
<1>4. \A n \in Nat : G(n) \in [0 .. n -> T] /\ Iterates(G(n), s, F, n)
  BY <1>3 DEF P
<1>. HIDE DEF G
<1>5. f \in [Nat -> T]
  BY <1>4
<1>6. f[0] = s
  BY <1>4 DEF Iterates
<1>7. ASSUME NEW n \in Nat PROVE f[n + 1] = F[<<n + 1, f[n]>>]
  <2>1. Iterates(G(n + 1), s, F, n) /\ Iterates(G(n), s, F, n)
    BY <1>4 DEF Iterates
  <2>2. G(n + 1)[n] = G(n)[n]
    BY <2>1, IteratesAgree
  <2>3. G(n + 1)[n + 1] = F[<<n + 1, G(n + 1)[n]>>]
    BY <1>4 DEF Iterates
  <2>. QED  BY <2>2, <2>3
<1>. HIDE DEF f
<1>8. ASSUME NEW n \in Nat, n # 0 PROVE f[n] = F[<<n, f[n - 1]>>]
  <2>1. n - 1 \in Nat /\ (n - 1) + 1 = n
    BY <1>8
  <2>. QED  BY <1>7, <2>1
<1>. QED  BY <1>5, <1>6, <1>8 DEF Recursion


-----------------------------------------------------------------------------
-----------------------------------------------------------------------------
(* Appending adds one member.                                              *)
LEMMA AppendMembers ==
    ASSUME NEW A, NEW s \in Seq(A), NEW x \in A
    PROVE  Append(s, x) \in Seq(A) /\ ToSet(Append(s, x)) = ToSet(s) \cup {x}
<1>1. DOMAIN Append(s, x) = DOMAIN s \cup {Len(s) + 1}
  OBVIOUS
<1>2. \A n \in DOMAIN s : Append(s, x)[n] = s[n]
  OBVIOUS
<1>3. Append(s, x)[Len(s) + 1] = x
  OBVIOUS
<1>. QED  BY <1>1, <1>2, <1>3 DEF ToSet

(* The members of what Among keeps.                                        *)
LEMMA AmongKeeps ==
    ASSUME NEW A, NEW s \in Seq(A), NEW S
    PROVE  /\ Among(s, S) \in Seq(A)
           /\ ToSet(Among(s, S)) = ToSet(s) \cap S
<1> DEFINE kept == CHOOSE g : g = [n \in 0 .. Len(s) |->
                      IF n = 0 THEN <<>>
                      ELSE IF s[n] \in S THEN Append(g[n - 1], s[n])
                      ELSE g[n - 1]]
           F == [p \in Nat \X Seq(A) |->
                    IF p[1] \in 1 .. Len(s) /\ s[p[1]] \in S
                    THEN Append(p[2], s[p[1]]) ELSE p[2]]
           T == Seq(A)
<1>1. Len(s) \in Nat /\ \A n \in 1 .. Len(s) : s[n] \in A
  OBVIOUS
<1>2. Among(s, S) = kept[Len(s)]
  BY DEF Among
<1>3. F \in [Nat \X T -> T] /\ <<>> \in T
  BY <1>1
<1>4. \A n \in Nat, q \in T :
         F[<<n, q>>] = IF n \in 1 .. Len(s) /\ s[n] \in S
                       THEN Append(q, s[n]) ELSE q
  OBVIOUS
<1>. HIDE DEF F, T, kept
<1>5. PICK f : Recursion(f, T, <<>>, F)
  BY <1>3, RecursionExists, Zenon
<1>6. \A n \in 0 .. Len(s) :
         f[n] = IF n = 0 THEN <<>>
                ELSE IF s[n] \in S THEN Append(f[n - 1], s[n])
                ELSE f[n - 1]
  <2> SUFFICES ASSUME NEW n \in 0 .. Len(s), n # 0
               PROVE  f[n] = IF s[n] \in S THEN Append(f[n - 1], s[n])
                             ELSE f[n - 1]
    <3>1. 0 \in Nat
      OBVIOUS
    <3>. QED  BY <1>5, <3>1 DEF Recursion
  <2>1. n \in Nat /\ n - 1 \in Nat /\ n \in 1 .. Len(s)
    BY <1>1
  <2>2. f[n] = F[<<n, f[n - 1]>>] /\ f[n - 1] \in T
    BY <1>5, <2>1 DEF Recursion
  <2>. QED  BY <1>4, <2>1, <2>2
<1>7. \E g : g = [n \in 0 .. Len(s) |->
                      IF n = 0 THEN <<>>
                      ELSE IF s[n] \in S THEN Append(g[n - 1], s[n])
                      ELSE g[n - 1]]
  <2> DEFINE g == [n \in 0 .. Len(s) |-> f[n]]
  <2>1. \A n \in 0 .. Len(s) : n # 0 => n - 1 \in 0 .. Len(s)
    BY <1>1
  <2>2. g = [n \in 0 .. Len(s) |->
                      IF n = 0 THEN <<>>
                      ELSE IF s[n] \in S THEN Append(g[n - 1], s[n])
                      ELSE g[n - 1]]
    BY <1>6, <2>1
  <2>. QED  BY <2>2
<1>8. kept = [n \in 0 .. Len(s) |->
                      IF n = 0 THEN <<>>
                      ELSE IF s[n] \in S THEN Append(kept[n - 1], s[n])
                      ELSE kept[n - 1]]
  BY <1>7, Zenon DEF kept
<1>9. /\ kept[0] = <<>>
      /\ \A n \in 1 .. Len(s) : kept[n] = IF s[n] \in S
                                           THEN Append(kept[n - 1], s[n])
                                           ELSE kept[n - 1]
  <2>1. 0 \in 0 .. Len(s)
    BY <1>1
  <2>2. \A n \in 1 .. Len(s) : n \in 0 .. Len(s) /\ n # 0
    BY <1>1
  <2>. QED  BY <1>8, <2>1, <2>2
<1> DEFINE P == {n \in Nat : n <= Len(s) =>
                    /\ kept[n] \in Seq(A)
                    /\ ToSet(kept[n]) = {s[i] : i \in 1 .. n} \cap S}
<1>10. 0 \in P
  <2>1. kept[0] \in Seq(A) /\ ToSet(kept[0]) = {}
    BY <1>9 DEF ToSet
  <2>2. {s[i] : i \in 1 .. 0} = {}
    OBVIOUS
  <2>. QED  BY <2>1, <2>2
<1>11. ASSUME NEW n \in Nat, n \in P PROVE n + 1 \in P
  <2> SUFFICES ASSUME n + 1 <= Len(s)
               PROVE  /\ kept[n + 1] \in Seq(A)
                      /\ ToSet(kept[n + 1]) = {s[i] : i \in 1 .. (n + 1)} \cap S
    <3>1. n + 1 \in Nat
      OBVIOUS
    <3>. QED  BY <3>1, Zenon
  <2>1. n <= Len(s)
    BY <1>1
  <2>2. kept[n] \in Seq(A) /\ ToSet(kept[n]) = {s[i] : i \in 1 .. n} \cap S
    BY <1>11, <2>1, Zenon
  <2>. HIDE DEF P
  <2>3. n + 1 \in 1 .. Len(s) /\ (n + 1) - 1 = n /\ s[n + 1] \in A
    BY <1>1
  <2>4. kept[n + 1] = IF s[n + 1] \in S THEN Append(kept[n], s[n + 1])
                      ELSE kept[n]
    BY <1>9, <2>3
  <2>5. {s[i] : i \in 1 .. (n + 1)} = {s[i] : i \in 1 .. n} \cup {s[n + 1]}
    <3>1. \A i : i \in 1 .. (n + 1) <=> i \in 1 .. n \/ i = n + 1
      BY SMT
    <3>. QED  BY <3>1
  <2>6. CASE s[n + 1] \in S
    <3> DEFINE k == kept[n]
               x == s[n + 1]
    <3>1. kept[n + 1] = Append(k, x)
      BY <2>4, <2>6
    <3>2. k \in Seq(A) /\ x \in A
      BY <2>2, <2>3
    <3>. HIDE DEF k, x
    <3>3. Append(k, x) \in Seq(A) /\ ToSet(Append(k, x)) = ToSet(k) \cup {x}
      BY <3>2, AppendMembers
    <3>. QED  BY <2>2, <2>5, <2>6, <3>1, <3>3, Zenon DEF k, x
  <2>7. CASE s[n + 1] \notin S
    <3>1. kept[n + 1] = kept[n]
      BY <2>4, <2>7
    <3>. QED  BY <2>2, <2>5, <2>7, <3>1, Zenon
  <2>. QED  BY <2>6, <2>7
<1>. HIDE DEF P
<1>12. Len(s) \in P
  BY <1>1, <1>10, <1>11, Induction
<1>13. ToSet(s) = {s[i] : i \in 1 .. Len(s)}
  BY DEF ToSet
<1>. QED  BY <1>1, <1>2, <1>12, <1>13 DEF P

(* The pages of n + 1 links are those of n and what they link to.          *)
LEMMA ReachSteps ==
    /\ Reach[0] = SeedPages
    /\ \A n \in Nat : Reach[n + 1] = Reach[n] \cup LinkedFrom(Reach[n])
    /\ \A n \in Nat : Reach[n] \subseteq Scope
<1> DEFINE T == SUBSET Scope
           F == [p \in Nat \X T |-> p[2] \cup LinkedFrom(p[2])]
<1>1. F \in [Nat \X T -> T] /\ SeedPages \in T
  BY DEF LinkedFrom, SeedPages
<1>2. \A n \in Nat, S \in T : F[<<n, S>>] = S \cup LinkedFrom(S)
  OBVIOUS
<1>. HIDE DEF F, T
<1>3. PICK f : Recursion(f, T, SeedPages, F)
  BY <1>1, RecursionExists, Zenon
<1>4. \A n \in Nat : f[n] = IF n = 0 THEN SeedPages
                            ELSE f[n - 1] \cup LinkedFrom(f[n - 1])
  <2>1. \A n \in Nat : n # 0 => n - 1 \in Nat /\ f[n - 1] \in T
    BY <1>3 DEF Recursion
  <2>. QED  BY <1>2, <1>3, <2>1 DEF Recursion
<1>5. f = [n \in Nat |->
              IF n = 0 THEN SeedPages
              ELSE f[n - 1] \cup LinkedFrom(f[n - 1])]
  BY <1>3, <1>4, Zenon DEF Recursion
<1>6. Reach = [n \in Nat |->
              IF n = 0 THEN SeedPages
              ELSE Reach[n - 1] \cup LinkedFrom(Reach[n - 1])]
  BY <1>5, Zenon DEF Reach
<1>7. \A n \in Nat : n + 1 \in Nat /\ n + 1 # 0 /\ (n + 1) - 1 = n
  OBVIOUS
<1> DEFINE P == {m \in Nat : Reach[m] \in T}
<1>8. 0 \in P
  BY <1>1, <1>6
<1>9. ASSUME NEW n \in Nat, n \in P PROVE n + 1 \in P
  BY <1>6, <1>7, <1>9 DEF T, LinkedFrom
<1>. HIDE DEF P
<1>10. \A n \in Nat : n \in P
  BY <1>8, <1>9, Induction
<1>. QED  BY <1>6, <1>7, <1>10 DEF T, P

(* The same with the robots files honoured.                                *)
LEMMA ReachPoliteSteps ==
    /\ ReachPolite[0] = SeedPages
    /\ \A n \in Nat :
          ReachPolite[n + 1] = ReachPolite[n]
                                 \cup LinkedFrom(ReachPolite[n] \ Disallowed)
    /\ \A n \in Nat : ReachPolite[n] \subseteq Scope
<1> DEFINE T == SUBSET Scope
           F == [p \in Nat \X T |-> p[2] \cup LinkedFrom(p[2] \ Disallowed)]
<1>1. F \in [Nat \X T -> T] /\ SeedPages \in T
  BY DEF LinkedFrom, SeedPages
<1>2. \A n \in Nat, S \in T : F[<<n, S>>] = S \cup LinkedFrom(S \ Disallowed)
  OBVIOUS
<1>. HIDE DEF F, T
<1>3. PICK f : Recursion(f, T, SeedPages, F)
  BY <1>1, RecursionExists, Zenon
<1>4. \A n \in Nat : f[n] = IF n = 0 THEN SeedPages
                            ELSE f[n - 1] \cup LinkedFrom(f[n - 1] \ Disallowed)
  <2>1. \A n \in Nat : n # 0 => n - 1 \in Nat /\ f[n - 1] \in T
    BY <1>3 DEF Recursion
  <2>. QED  BY <1>2, <1>3, <2>1 DEF Recursion
<1>5. f = [n \in Nat |->
              IF n = 0 THEN SeedPages
              ELSE f[n - 1] \cup LinkedFrom(f[n - 1] \ Disallowed)]
  BY <1>3, <1>4, Zenon DEF Recursion
<1>6. ReachPolite = [n \in Nat |->
              IF n = 0 THEN SeedPages
              ELSE ReachPolite[n - 1] \cup LinkedFrom(ReachPolite[n - 1] \ Disallowed)]
  BY <1>5, Zenon DEF ReachPolite
<1>7. \A n \in Nat : n + 1 \in Nat /\ n + 1 # 0 /\ (n + 1) - 1 = n
  OBVIOUS
<1> DEFINE P == {m \in Nat : ReachPolite[m] \in T}
<1>8. 0 \in P
  BY <1>1, <1>6
<1>9. ASSUME NEW n \in Nat, n \in P PROVE n + 1 \in P
  BY <1>6, <1>7, <1>9 DEF T, LinkedFrom
<1>. HIDE DEF P
<1>10. \A n \in Nat : n \in P
  BY <1>8, <1>9, Induction
<1>. QED  BY <1>6, <1>7, <1>10 DEF T, P

(* A sequence of sets that grows at each step grows.                       *)
LEMMA Growing ==
    ASSUME NEW f, \A n \in Nat : f[n] \subseteq f[n + 1],
           NEW m \in Nat, NEW n \in Nat, m <= n
    PROVE  f[m] \subseteq f[n]
<1> DEFINE P == {d \in Nat : f[m] \subseteq f[m + d]}
<1>1. 0 \in P
  OBVIOUS
<1>2. ASSUME NEW d \in Nat, d \in P PROVE d + 1 \in P
  <2>1. m + d \in Nat /\ m + (d + 1) = (m + d) + 1
    OBVIOUS
  <2>. QED  BY <1>2, <2>1
<1>. HIDE DEF P
<1>3. n - m \in P
  <2>1. n - m \in Nat
    OBVIOUS
  <2>. QED  BY <1>1, <1>2, <2>1, Induction
<1>4. m + (n - m) = n
  OBVIOUS
<1>. QED  BY <1>3, <1>4 DEF P

(* A level that links to nothing new is the last.                          *)
LEMMA LastLevel ==
    ASSUME NEW m \in Nat, NEW n \in Nat, m <= n,
           LinkedFrom(ReachPolite[m] \ Disallowed) \subseteq ReachPolite[m]
    PROVE  ReachPolite[n] = ReachPolite[m]
<1> DEFINE P == {d \in Nat : ReachPolite[m + d] = ReachPolite[m]}
<1>1. 0 \in P
  OBVIOUS
<1>2. ASSUME NEW d \in Nat, d \in P PROVE d + 1 \in P
  <2>1. m + d \in Nat /\ m + (d + 1) = (m + d) + 1
    OBVIOUS
  <2>2. ReachPolite[(m + d) + 1] = ReachPolite[m + d]
                             \cup LinkedFrom(ReachPolite[m + d] \ Disallowed)
    BY <2>1, ReachPoliteSteps
  <2>. QED  BY <1>2, <2>1, <2>2
<1>. HIDE DEF P
<1>3. n - m \in P
  <2>1. n - m \in Nat
    OBVIOUS
  <2>. QED  BY <1>1, <1>2, <2>1, Induction
<1>4. m + (n - m) = n
  OBVIOUS
<1>. QED  BY <1>3, <1>4 DEF P

(* Where a page redirects to lands where the page does, with one redirect  *)
(* fewer.                                                                  *)
LEMMA LandingSteps ==
    /\ \A n \in 0 .. MaxRedirects, u \in Url :
          Redirect[u] = None => Landing[n][u] = u
    /\ \A n \in 1 .. MaxRedirects, u \in Url :
          Redirect[u] \notin Blocked \cup {None}
             => Landing[n][u] = Landing[n - 1][Redirect[u]]
<1> USE CrawlerAssumption
<1> DEFINE T == [Url -> Url \cup {None}]
           start == [u \in Url |-> IF Redirect[u] = None THEN u ELSE None]
           F == [p \in Nat \X T |->
                   [u \in Url |-> IF Redirect[u] = None THEN u
                                 ELSE IF Redirect[u] \in Blocked THEN None
                                 ELSE p[2][Redirect[u]]]]
<1>1. F \in [Nat \X T -> T] /\ start \in T
  OBVIOUS
<1>2. \A n \in Nat, g \in T :
         F[<<n, g>>] = [u \in Url |-> IF Redirect[u] = None THEN u
                                     ELSE IF Redirect[u] \in Blocked THEN None
                                     ELSE g[Redirect[u]]]
  OBVIOUS
<1>. HIDE DEF F, T
<1>3. PICK f : Recursion(f, T, start, F)
  <2>. HIDE DEF start
  <2>. QED  BY <1>1, RecursionExists, Zenon
<1> DEFINE Entry(g, n) == [u \in Url |->
                             IF Redirect[u] = None THEN u
                             ELSE IF n = 0 \/ Redirect[u] \in Blocked THEN None
                             ELSE g[n - 1][Redirect[u]]]
<1>4. \A n \in 0 .. MaxRedirects : f[n] = Entry(f, n)
  <2>1. f[0] = start /\ start = Entry(f, 0)
    BY <1>3 DEF Recursion
  <2>2. ASSUME NEW n \in 1 .. MaxRedirects PROVE f[n] = Entry(f, n)
    <3>1. n \in Nat /\ n - 1 \in Nat /\ n # 0
      OBVIOUS
    <3>2. f[n] = F[<<n, f[n - 1]>>] /\ f[n - 1] \in T
      BY <1>3, <3>1 DEF Recursion
    <3>3. f[n] = [u \in Url |-> IF Redirect[u] = None THEN u
                               ELSE IF Redirect[u] \in Blocked THEN None
                               ELSE f[n - 1][Redirect[u]]]
      BY <1>2, <3>1, <3>2
    <3>. QED  BY <3>1, <3>3
  <2>3. \A n \in 0 .. MaxRedirects : n = 0 \/ n \in 1 .. MaxRedirects
    OBVIOUS
  <2>. QED  BY <2>1, <2>2, <2>3, Zenon
<1> DEFINE g == [n \in 0 .. MaxRedirects |-> f[n]]
<1>5. \A n \in 0 .. MaxRedirects : Entry(f, n) = Entry(g, n)
  <2>1. \A n \in 0 .. MaxRedirects : n # 0 => n - 1 \in 0 .. MaxRedirects
    OBVIOUS
  <2>. QED  BY <2>1
<1>6. g = [n \in 0 .. MaxRedirects |-> Entry(g, n)]
  <2>. HIDE DEF Entry
  <2>. QED  BY <1>4, <1>5
<1>. HIDE DEF g
<1>7. Landing = [n \in 0 .. MaxRedirects |-> Entry(Landing, n)]
  BY <1>6, Zenon DEF Landing
<1>8. ASSUME NEW n \in 0 .. MaxRedirects, NEW u \in Url
      PROVE  Landing[n][u] = IF Redirect[u] = None THEN u
                             ELSE IF n = 0 \/ Redirect[u] \in Blocked THEN None
                             ELSE Landing[n - 1][Redirect[u]]
  <2>1. Landing[n] = Entry(Landing, n)
    <3>. HIDE DEF Entry
    <3>. QED  BY <1>7
  <2>. QED  BY <2>1
<1>9. \A n \in 1 .. MaxRedirects : n \in 0 .. MaxRedirects /\ n # 0
  OBVIOUS
<1>. QED  BY <1>8, <1>9, Zenon

-----------------------------------------------------------------------------
(* What the invariants say of job k is the same after the step, save that  *)
(* a failure may have been noted.                                          *)
Same(k) ==
    /\ status'[k] = status[k] /\ pc'[k] = pc[k]
    /\ queue'[k] = queue[k] /\ visited'[k] = visited[k]
    /\ pages'[k] = pages[k] /\ depth'[k] = depth[k]
    /\ target'[k] = target[k] /\ at'[k] = at[k] /\ hops'[k] = hops[k]
    /\ clean'[k] => clean[k]

(* The places a task is at.                                                *)
Place == {"none", "start", "next", "robots", "asleep", "get", "media"}

(* What Approach and Consult do for job j and URL u.                       *)
Approached(j, kind, u) ==
    /\ pc' \in [Job -> Place]
    /\ target' \in [Job -> [kind : {"none", "page", "media"},
                            url  : Url \cup {None}]]
    /\ at' \in [Job -> Url \cup {None}]
    /\ window' \in [Host -> Seq(Job)]
    /\ unnoted' \in [Host -> Nat \cup {None}]
    /\ awaited' \in [Job -> Job \cup {None}]
    /\ hops' = hops
    /\ \A k \in Job \ {j} :
          /\ pc'[k] = pc[k] /\ target'[k] = target[k]
          /\ at'[k] = at[k] /\ awaited'[k] = awaited[k]
    /\ \/ /\ pc'[j] = IF kind = "page" THEN "next" ELSE "media"
          /\ u \in Disallowed
          /\ window' = window
       \/ /\ pc'[j] = "robots"
          /\ target'[j] = [kind |-> kind, url |-> u]
          /\ window' = window
       \/ /\ pc'[j] = "asleep"
          /\ target'[j] = [kind |-> kind, url |-> u]
          /\ window' = window /\ window[HostOf[u]] # <<>>
          /\ awaited'[j] = Last(window[HostOf[u]])
       \/ /\ pc'[j] = "get"
          /\ target'[j] = [kind |-> kind, url |-> u]
          /\ at'[j] = u
          /\ window[HostOf[u]] = <<>>
          /\ window' = [window EXCEPT ![HostOf[u]] = Append(@, j)]

(* _robots_allowed and _be_polite.                                         *)
LEMMA ConsultEffect ==
    ASSUME TypeOK, NEW j \in Job, NEW kind \in {"page", "media"},
           NEW u \in Url, NEW r, Consult(j, kind, u, r)
    PROVE  /\ Approached(j, kind, u)
           /\ r = "found" /\ pc'[j] \in {"asleep", "get"}
                 => u \notin Disallowed
           /\ pc'[j] # "robots"
<1> USE CrawlerAssumption
<1>1. HostOf[u] \in Host /\ window[HostOf[u]] \in Seq(Job)
  BY DEF TypeOK
<1>2. CASE r = "found" /\ u \in Disallowed
  <2>1. /\ hops' = hops /\ unnoted' = unnoted
        /\ target' = [target EXCEPT ![j] = NoTarget]
        /\ pc' = [pc EXCEPT ![j] = IF kind = "page" THEN "next" ELSE "media"]
        /\ at' = at /\ awaited' = awaited /\ window' = window
    BY <1>2 DEF Consult, Goto
  <2>2. NoTarget \in [kind : {"none", "page", "media"}, url : Url \cup {None}]
    BY DEF NoTarget
  <2>3. pc' \in [Job -> Place]
    BY <2>1 DEF TypeOK, Place
  <2>4. /\ target' \in [Job -> [kind : {"none", "page", "media"},
                                url  : Url \cup {None}]]
        /\ at' \in [Job -> Url \cup {None}]
        /\ window' \in [Host -> Seq(Job)]
        /\ unnoted' \in [Host -> Nat \cup {None}]
        /\ awaited' \in [Job -> Job \cup {None}]
    BY <2>1, <2>2 DEF TypeOK
  <2>5. \A k \in Job \ {j} :
          /\ pc'[k] = pc[k] /\ target'[k] = target[k]
          /\ at'[k] = at[k] /\ awaited'[k] = awaited[k]
    BY <2>1 DEF TypeOK
  <2>6. pc'[j] = IF kind = "page" THEN "next" ELSE "media"
    BY <2>1 DEF TypeOK
  <2>. QED  BY <1>2, <2>1, <2>3, <2>4, <2>5, <2>6 DEF Approached
<1>3. CASE ~ (r = "found" /\ u \in Disallowed)
  <2>1. /\ hops' = hops /\ unnoted' = unnoted
        /\ target' = [target EXCEPT ![j] = [kind |-> kind, url |-> u]]
        /\ BePolite(j, u)
    BY <1>3, Zenon DEF Consult
  <2>2. CASE window[HostOf[u]] = <<>>
    <3>1. Send(j, u)
      BY <2>1, <2>2, Zenon DEF BePolite
    <3>2. Append(window[HostOf[u]], j) \in Seq(Job)
      BY <1>1
    <3>. QED  BY <1>1, <1>3, <2>1, <2>2, <3>1, <3>2
              DEF Send, Goto, TypeOK, Approached, Place
  <2>3. CASE window[HostOf[u]] # <<>>
    <3>1. /\ awaited' = [awaited EXCEPT ![j] = Last(window[HostOf[u]])]
          /\ Goto(j, "asleep")
          /\ UNCHANGED <<at, window>>
      BY <2>1, <2>3, Zenon DEF BePolite
    <3>2. Last(window[HostOf[u]]) \in Job
      BY <1>1, <2>3 DEF Last
    <3>. QED  BY <1>1, <1>3, <2>1, <2>3, <3>1, <3>2
              DEF Goto, TypeOK, Approached, Place
  <2>. QED  BY <2>2, <2>3
<1>. QED  BY <1>2, <1>3

(* Going for a page: what changes, and what robots.txt is asked.           *)
LEMMA ApproachEffect ==
    ASSUME TypeOK, NEW j \in Job, NEW kind \in {"page", "media"},
           NEW u \in Url, Approach(j, kind, u)
    PROVE  /\ Approached(j, kind, u)
           /\ robots[HostOf[u]] # "missing" /\ pc'[j] \in {"asleep", "get"}
                 => u \notin Disallowed
<1> USE CrawlerAssumption
<1>1. CASE robots[HostOf[u]] = "unknown"
  <2>1. /\ hops' = hops
        /\ target' = [target EXCEPT ![j] = [kind |-> kind, url |-> u]]
        /\ pc' = [pc EXCEPT ![j] = "robots"]
        /\ at' = at /\ awaited' = awaited /\ window' = window
        /\ unnoted' = [unnoted EXCEPT ![HostOf[u]] = Len(window[HostOf[u]])]
    BY <1>1 DEF Approach, Goto, SendUnnoted
  <2>2. pc' \in [Job -> Place]
    BY <2>1 DEF TypeOK, Place
  <2>3. /\ target' \in [Job -> [kind : {"none", "page", "media"},
                                url  : Url \cup {None}]]
        /\ at' \in [Job -> Url \cup {None}]
        /\ window' \in [Host -> Seq(Job)]
        /\ unnoted' \in [Host -> Nat \cup {None}]
        /\ awaited' \in [Job -> Job \cup {None}]
    <3>1. Len(window[HostOf[u]]) \in Nat
      BY DEF TypeOK
    <3>. QED  BY <2>1, <3>1 DEF TypeOK
  <2>4. \A k \in Job \ {j} :
          /\ pc'[k] = pc[k] /\ target'[k] = target[k]
          /\ at'[k] = at[k] /\ awaited'[k] = awaited[k]
    BY <2>1 DEF TypeOK
  <2>5. pc'[j] = "robots" /\ target'[j] = [kind |-> kind, url |-> u]
    BY <2>1 DEF TypeOK
  <2>6. Approached(j, kind, u)
    BY <2>1, <2>2, <2>3, <2>4, <2>5 DEF Approached
  <2>. QED  BY <2>5, <2>6
<1>2. CASE robots[HostOf[u]] # "unknown"
  <2>1. robots[HostOf[u]] \in {"found", "missing"}
    BY <1>2 DEF TypeOK
  <2>2. Consult(j, kind, u, robots[HostOf[u]])
    BY <1>2 DEF Approach
  <2>. QED  BY <2>1, <2>2, ConsultEffect
<1>. QED  BY <1>1, <1>2

(* A queue whose members change keeps to its domain.                       *)
LEMMA QueueTyped ==
    ASSUME TypeOK, NEW j \in Job, NEW q \in Seq(Url \X (0 .. MaxDepth[j])),
           queue' = [queue EXCEPT ![j] = q]
    PROVE  /\ queue' \in [Job -> Seq(Url \X Nat)]
           /\ \A k \in Job : queue'[k] \in Seq(Url \X (0 .. MaxDepth[k]))
<1>1. q \in Seq(Url \X Nat)
  <2>1. \A n \in 1 .. Len(q) : q[n] \in Url \X Nat
    OBVIOUS
  <2>2. q = [n \in 1 .. Len(q) |-> q[n]] /\ Len(q) \in Nat
    OBVIOUS
  <2>. QED  BY <2>1, <2>2
<1>. QED  BY <1>1 DEF TypeOK

(* The first of the queue.                                                 *)
LEMMA QueueHead ==
    ASSUME TypeOK, NEW j \in Job, queue[j] # <<>>
    PROVE  /\ Head(queue[j])[1] \in Url
           /\ Head(queue[j])[2] \in 0 .. MaxDepth[j]
           /\ Tail(queue[j]) \in Seq(Url \X (0 .. MaxDepth[j]))
<1>1. queue[j] \in Seq(Url \X (0 .. MaxDepth[j]))
  BY DEF TypeOK
<1>2. Head(queue[j]) \in Url \X (0 .. MaxDepth[j])
  BY <1>1
<1>. QED  BY <1>1, <1>2

(* The pages that the page in hand adds to the queue.                      *)
LEMMA FollowedTyped ==
    ASSUME NEW j \in Job, NEW u \in Url
    PROVE  /\ Fresh(j, u) \in Seq(Url)
           /\ ToSet(Fresh(j, u)) = ToSet(Links[u]) \cap (Scope \ visited[j])
           /\ Followed(j, u) \in Seq(Url) /\ Downloaded(j, u) \in Seq(Url)
           /\ ToSet(Followed(j, u)) = (ToSet(Links[u]) \cap (Scope \ visited[j]))
                                         \cap (Scope \ MediaFile)
<1>1. Links[u] \in Seq(Url)
  BY CrawlerAssumption
<1>2. /\ Fresh(j, u) \in Seq(Url)
      /\ ToSet(Fresh(j, u)) = ToSet(Links[u]) \cap (Scope \ visited[j])
  BY <1>1, AmongKeeps, Zenon DEF Fresh
<1>3. /\ Followed(j, u) \in Seq(Url) /\ Downloaded(j, u) \in Seq(Url)
      /\ ToSet(Followed(j, u)) = ToSet(Fresh(j, u)) \cap (Scope \ MediaFile)
  BY <1>2, AmongKeeps, Zenon DEF Followed, Downloaded
<1>. QED  BY <1>2, <1>3

(* The seed pages of a crawl: those given that may be fetched.             *)
LEMMA SeedsTyped ==
    LET seeds == Among(Seeds, Url \ Blocked)
    IN  seeds \in Seq(Url) /\ ToSet(seeds) = ToSet(Seeds) \ Blocked
<1>1. Seeds \in Seq(Url)
  BY CrawlerAssumption
<1>2. ToSet(Seeds) \subseteq Url
  BY <1>1 DEF ToSet
<1>. QED  BY <1>1, <1>2, AmongKeeps

-----------------------------------------------------------------------------
(* The parts of the type invariant.                                        *)
JobTypes ==
    /\ status \in [Job -> Status]
    /\ disk \in [Job -> Status]
    /\ pc \in [Job -> Place]

WalkTypes ==
    /\ queue \in [Job -> Seq(Url \X Nat)]
    /\ \A j \in Job : queue[j] \in Seq(Url \X (0 .. MaxDepth[j]))
    /\ visited \in [Job -> SUBSET Url]
    /\ seen \in [Job -> SUBSET Url]
    /\ pages \in [Job -> Nat] /\ \A j \in Job : pages[j] <= MaxPages[j]
    /\ depth \in [Job -> Nat] /\ \A j \in Job : depth[j] <= MaxDepth[j]
    /\ pending \in [Job -> Seq(Url)]

RequestTypes ==
    /\ target \in [Job -> [kind : {"none", "page", "media"},
                           url  : Url \cup {None}]]
    /\ at \in [Job -> Url \cup {None}]
    /\ hops \in [Job -> 0 .. MaxRedirects]

SharedTypes ==
    /\ robots \in [Host -> {"unknown", "found", "missing"}]
    /\ window \in [Host -> Seq(Job)]
    /\ unnoted \in [Host -> Nat \cup {None}]
    /\ awaited \in [Job -> Job \cup {None}]
    /\ clean \in [Job -> BOOLEAN]
    /\ restarts \in 0 .. MaxRestarts

(* The types in four groups of variables, now and after a step.            *)
LEMMA TypeParts ==
    /\ TypeOK <=> JobTypes /\ WalkTypes /\ RequestTypes /\ SharedTypes
    /\ TypeOK' <=> JobTypes' /\ WalkTypes' /\ RequestTypes' /\ SharedTypes'
BY Zenon DEF TypeOK, JobTypes, WalkTypes, RequestTypes, SharedTypes, Place

(* A step of job j keeps the types and its own place, and is no step of    *)
(* another job.                                                            *)
Fits(j) ==
    /\ TypeOK'
    /\ PlaceInv(j)'
    /\ \A k \in Job \ {j} : Same(k)

(* A new job has a task that is to start.                                  *)
LEMMA CreateFits ==
    ASSUME TypeInv, NEW j \in Job, Create(j)
    PROVE  Fits(j)
<1> USE CrawlerAssumption DEF TypeInv, Create, SetStatus, Goto, walk, request
<1>1. TypeOK'
  <2>1. JobTypes /\ WalkTypes /\ RequestTypes /\ SharedTypes
    BY TypeParts, Zenon
  <2>2. JobTypes'
    BY <2>1 DEF JobTypes, Status, Place
  <2>3. WalkTypes'
    BY <2>1 DEF WalkTypes
  <2>4. RequestTypes'
    BY <2>1 DEF RequestTypes, PlaceInv
  <2>5. SharedTypes'
    BY <2>1 DEF SharedTypes, RequestTypes, PlaceInv, Requesting
  <2>. QED  BY ONLY <2>2, <2>3, <2>4, <2>5, TypeParts, Zenon
<1>2. PlaceInv(j)'
  BY DEF TypeOK, PlaceInv, InHand, Requesting, Walking
<1>3. \A k \in Job \ {j} : Same(k)
  BY DEF TypeOK, Same
<1>. QED  BY <1>1, <1>2, <1>3 DEF Fits

(* A job that could not be saved is in memory, and has no task.            *)
LEMMA CreateUnsavedFits ==
    ASSUME TypeInv, NEW j \in Job, CreateUnsaved(j)
    PROVE  Fits(j)
<1> USE CrawlerAssumption DEF TypeInv, CreateUnsaved, SetStatus, walk, request
<1>1. TypeOK'
  <2>1. JobTypes /\ WalkTypes /\ RequestTypes /\ SharedTypes
    BY TypeParts, Zenon
  <2>2. JobTypes'
    BY <2>1 DEF JobTypes, Status, Place
  <2>3. WalkTypes'
    BY <2>1 DEF WalkTypes
  <2>4. RequestTypes'
    BY <2>1 DEF RequestTypes, PlaceInv
  <2>5. SharedTypes'
    BY <2>1 DEF SharedTypes, RequestTypes, PlaceInv, Requesting
  <2>. QED  BY ONLY <2>2, <2>3, <2>4, <2>5, TypeParts, Zenon
<1>2. PlaceInv(j)'
  BY DEF TypeOK, PlaceInv, InHand, Requesting, Walking
<1>3. \A k \in Job \ {j} : Same(k)
  BY DEF TypeOK, Same
<1>. QED  BY <1>1, <1>2, <1>3 DEF Fits

(* A task that could not save its start is gone; its job says running.     *)
LEMMA BeginUnsavedFits ==
    ASSUME TypeInv, NEW j \in Job, BeginUnsaved(j)
    PROVE  Fits(j)
<1> USE CrawlerAssumption DEF TypeInv, BeginUnsaved, SetStatus, Goto, walk, request
<1>1. TypeOK'
  <2>1. JobTypes /\ WalkTypes /\ RequestTypes /\ SharedTypes
    BY TypeParts, Zenon
  <2>2. JobTypes'
    BY <2>1 DEF JobTypes, Status, Place
  <2>3. WalkTypes'
    BY <2>1 DEF WalkTypes
  <2>4. RequestTypes'
    BY <2>1 DEF RequestTypes, PlaceInv
  <2>5. SharedTypes'
    BY <2>1 DEF SharedTypes, RequestTypes, PlaceInv, Requesting
  <2>. QED  BY ONLY <2>2, <2>3, <2>4, <2>5, TypeParts, Zenon
<1>2. PlaceInv(j)'
  BY DEF TypeOK, PlaceInv, InHand, Requesting, Walking
<1>3. \A k \in Job \ {j} : Same(k)
  BY DEF TypeOK, Same
<1>. QED  BY <1>1, <1>2, <1>3 DEF Fits

(* The report of a walk ends its task.                                     *)
LEMMA CompleteFits ==
    ASSUME TypeInv, NEW j \in Job, Complete(j)
    PROVE  Fits(j)
<1> USE CrawlerAssumption
    DEF TypeInv, Complete, End, SetStatus, Goto, Release, NoTarget, walk,
        request
<1>1. TypeOK'
  <2>1. JobTypes /\ WalkTypes /\ RequestTypes /\ SharedTypes
    BY TypeParts, Zenon
  <2>2. JobTypes'
    BY <2>1 DEF JobTypes, Status, Place
  <2>3. WalkTypes'
    BY <2>1 DEF WalkTypes
  <2>4. RequestTypes'
    BY <2>1 DEF RequestTypes, PlaceInv
  <2>5. SharedTypes'
    BY <2>1 DEF SharedTypes, RequestTypes, PlaceInv, Requesting
  <2>. QED  BY ONLY <2>2, <2>3, <2>4, <2>5, TypeParts, Zenon
<1>2. PlaceInv(j)'
  BY DEF TypeOK, PlaceInv, InHand, Requesting, Walking
<1>3. \A k \in Job \ {j} : Same(k)
  BY DEF TypeOK, Same
<1>. QED  BY <1>1, <1>2, <1>3 DEF Fits

(* An exception that escapes the walk ends its task.                       *)
LEMMA CollapseFits ==
    ASSUME TypeInv, NEW j \in Job, Collapse(j)
    PROVE  Fits(j)
<1> USE CrawlerAssumption
    DEF TypeInv, Collapse, End, SetStatus, Goto, Release, NoTarget, walk,
        request
<1>1. TypeOK'
  <2>1. JobTypes /\ WalkTypes /\ RequestTypes /\ SharedTypes
    BY TypeParts, Zenon
  <2>2. JobTypes'
    BY <2>1 DEF JobTypes, Status, Place
  <2>3. WalkTypes'
    <3>1. UNCHANGED <<queue, visited, seen, pages, depth>>
      OBVIOUS
    <3>2. pending' \in [Job -> Seq(Url)]
      BY <2>1 DEF WalkTypes
    <3>. QED  BY ONLY <2>1, <3>1, <3>2 DEF WalkTypes
  <2>4. RequestTypes'
    BY <2>1 DEF RequestTypes, PlaceInv
  <2>5. SharedTypes'
    BY <2>1 DEF SharedTypes, RequestTypes, PlaceInv, Requesting
  <2>. QED  BY ONLY <2>2, <2>3, <2>4, <2>5, TypeParts, Zenon
<1>2. PlaceInv(j)'
  BY DEF TypeOK, PlaceInv, InHand, Requesting, Walking
<1>3. \A k \in Job \ {j} : Same(k)
  BY DEF TypeOK, Same
<1>. QED  BY <1>1, <1>2, <1>3 DEF Fits

(* A task that slept sends its request, and is in the window.              *)
LEMMA WakeFits ==
    ASSUME TypeInv, NEW j \in Job, Wake(j)
    PROVE  Fits(j)
<1> USE CrawlerAssumption DEF TypeInv, Wake, Send, Goto, jobs, walk
<1>1. TypeOK'
  <2>1. JobTypes /\ WalkTypes /\ RequestTypes /\ SharedTypes
    BY TypeParts, Zenon
  <2>2. JobTypes'
    BY <2>1 DEF JobTypes, Status, Place
  <2>3. WalkTypes'
    BY <2>1 DEF WalkTypes
  <2>4. RequestTypes'
    BY <2>1 DEF RequestTypes, PlaceInv
  <2>5. SharedTypes'
    BY <2>1 DEF SharedTypes, RequestTypes, PlaceInv, Requesting
  <2>. QED  BY ONLY <2>2, <2>3, <2>4, <2>5, TypeParts, Zenon
<1>2. PlaceInv(j)'
  BY DEF TypeOK, PlaceInv, InHand, Requesting, Walking
<1>3. \A k \in Job \ {j} : Same(k)
  BY DEF TypeOK, Same
<1>. QED  BY <1>1, <1>2, <1>3 DEF Fits

(* A redirect is followed to a page that may be fetched.                   *)
LEMMA HopFits ==
    ASSUME TypeInv, NEW j \in Job, Hop(j)
    PROVE  Fits(j)
<1> USE CrawlerAssumption DEF TypeInv, Hop, jobs, walk
<1>1. TypeOK'
  <2>1. JobTypes /\ WalkTypes /\ RequestTypes /\ SharedTypes
    BY TypeParts, Zenon
  <2>2. JobTypes'
    BY <2>1 DEF JobTypes, Status, Place
  <2>3. WalkTypes'
    BY <2>1 DEF WalkTypes
  <2>4. RequestTypes'
    BY <2>1 DEF RequestTypes, PlaceInv
  <2>5. SharedTypes'
    <3>1. HostOf[Redirect[at[j]]] \in Host
      BY <2>1 DEF RequestTypes, PlaceInv
    <3>2. Len(window[HostOf[Redirect[at[j]]]]) \in Nat
      BY <2>1, <3>1 DEF SharedTypes
    <3>3. unnoted' \in [Host -> Nat \cup {None}]
      BY <2>1, <3>1, <3>2 DEF SharedTypes, SendUnnoted
    <3>. QED  BY <2>1, <3>3 DEF SharedTypes
  <2>. QED  BY ONLY <2>2, <2>3, <2>4, <2>5, TypeParts, Zenon
<1>2. PlaceInv(j)'
  <2>1. PlaceInv(j)
    OBVIOUS
  <2>2. /\ pc[j] = "get" /\ at'[j] \in Url
        /\ UNCHANGED <<pc, status, target, pages, queue, visited, depth>>
    <3>1. pc[j] = "get" /\ at[j] \in Url
      BY DEF PlaceInv
    <3>2. Redirect[at[j]] \in Url
      BY <3>1
    <3>3. at' = [at EXCEPT ![j] = Redirect[at[j]]] /\ at \in [Job -> Url \cup {None}]
      BY DEF TypeOK
    <3>4. at'[j] \in Url
      BY ONLY <3>2, <3>3, j \in Job
    <3>. QED  BY <3>1, <3>4
  <2>. QED  BY ONLY <2>1, <2>2 DEF PlaceInv, InHand, Requesting, Walking
<1>3. \A k \in Job \ {j} : Same(k)
  BY DEF TypeOK, Same
<1>. QED  BY <1>1, <1>2, <1>3 DEF Fits

(* A request that failed gives its page or file up.                        *)
LEMMA FetchFailsFits ==
    ASSUME TypeInv, NEW j \in Job, FetchFails(j)
    PROVE  Fits(j)
<1> USE CrawlerAssumption
    DEF TypeInv, FetchFails, Goto, Back, Release, NoTarget, Spoil, jobs, walk
<1>1. TypeOK'
  <2>1. JobTypes /\ WalkTypes /\ RequestTypes /\ SharedTypes
    BY TypeParts, Zenon
  <2>2. JobTypes'
    BY <2>1 DEF JobTypes, Status, Place
  <2>3. WalkTypes'
    BY <2>1 DEF WalkTypes
  <2>4. RequestTypes'
    BY <2>1 DEF RequestTypes, PlaceInv
  <2>5. SharedTypes'
    BY <2>1 DEF SharedTypes, RequestTypes, PlaceInv, Requesting
  <2>. QED  BY ONLY <2>2, <2>3, <2>4, <2>5, TypeParts, Zenon
<1>2. PlaceInv(j)'
  BY DEF TypeOK, PlaceInv, InHand, Requesting, Walking
<1>3. \A k \in Job \ {j} : Same(k)
  BY DEF TypeOK, Same
<1>. QED  BY <1>1, <1>2, <1>3 DEF Fits

(* A page that cannot be parsed is given up.                               *)
LEMMA UnreadableFits ==
    ASSUME TypeInv, NEW j \in Job, Unreadable(j)
    PROVE  Fits(j)
<1> USE CrawlerAssumption DEF TypeInv, Unreadable, Goto, Release, NoTarget, Spoil, jobs
<1>1. TypeOK'
  <2>1. JobTypes /\ WalkTypes /\ RequestTypes /\ SharedTypes
    BY TypeParts, Zenon
  <2>2. JobTypes'
    BY <2>1 DEF JobTypes, Status, Place
  <2>3. WalkTypes'
    <3>1. pages[j] < MaxPages[j]
      BY DEF PlaceInv, InHand, Requesting
    <3>2. pages' \in [Job -> Nat] /\ \A k \in Job : pages'[k] <= MaxPages[k]
      BY <2>1, <3>1 DEF WalkTypes
    <3>3. UNCHANGED <<queue, visited, seen, depth, pending>>
      OBVIOUS
    <3>. QED  BY ONLY <2>1, <3>2, <3>3 DEF WalkTypes
  <2>4. RequestTypes'
    BY <2>1 DEF RequestTypes, PlaceInv
  <2>5. SharedTypes'
    BY <2>1 DEF SharedTypes, RequestTypes, PlaceInv, Requesting
  <2>. QED  BY ONLY <2>2, <2>3, <2>4, <2>5, TypeParts, Zenon
<1>2. PlaceInv(j)'
  BY DEF TypeOK, PlaceInv, InHand, Requesting, Walking
<1>3. \A k \in Job \ {j} : Same(k)
  BY DEF TypeOK, Same
<1>. QED  BY <1>1, <1>2, <1>3 DEF Fits

(* A file that arrived goes to the index.                                  *)
LEMMA IndexMediaFits ==
    ASSUME TypeInv, NEW j \in Job, IndexMedia(j)
    PROVE  Fits(j)
<1> USE CrawlerAssumption DEF TypeInv, IndexMedia, Goto, Release, NoTarget, walk
<1>1. TypeOK'
  <2>1. JobTypes /\ WalkTypes /\ RequestTypes /\ SharedTypes
    BY TypeParts, Zenon
  <2>2. JobTypes'
    BY <2>1 DEF JobTypes, Status, Place
  <2>3. WalkTypes'
    BY <2>1 DEF WalkTypes
  <2>4. RequestTypes'
    BY <2>1 DEF RequestTypes, PlaceInv
  <2>5. SharedTypes'
    BY <2>1 DEF SharedTypes, RequestTypes, PlaceInv, Requesting
  <2>. QED  BY ONLY <2>2, <2>3, <2>4, <2>5, TypeParts, Zenon
<1>2. PlaceInv(j)'
  <2>1. PlaceInv(j)
    OBVIOUS
  <2>2. /\ pc[j] = "get" /\ pc'[j] = "media" /\ hops'[j] = 0
        /\ UNCHANGED <<status, pages, queue, visited, depth>>
    BY DEF TypeOK
  <2>. QED  BY ONLY <2>1, <2>2 DEF PlaceInv, InHand, Requesting, Walking
<1>3. \A k \in Job \ {j} : Same(k)
  BY DEF TypeOK, Same
<1>. QED  BY <1>1, <1>2, <1>3 DEF Fits

(* A page whose files are all looked at is done.                           *)
LEMMA PageDoneFits ==
    ASSUME TypeInv, NEW j \in Job, PageDone(j)
    PROVE  Fits(j)
<1> USE CrawlerAssumption DEF TypeInv, PageDone, Goto, walk, request
<1>1. TypeOK'
  <2>1. JobTypes /\ WalkTypes /\ RequestTypes /\ SharedTypes
    BY TypeParts, Zenon
  <2>2. JobTypes'
    BY <2>1 DEF JobTypes, Status, Place
  <2>3. WalkTypes'
    BY <2>1 DEF WalkTypes
  <2>4. RequestTypes'
    BY <2>1 DEF RequestTypes, PlaceInv
  <2>5. SharedTypes'
    BY <2>1 DEF SharedTypes, RequestTypes, PlaceInv, Requesting
  <2>. QED  BY ONLY <2>2, <2>3, <2>4, <2>5, TypeParts, Zenon
<1>2. PlaceInv(j)'
  BY DEF TypeOK, PlaceInv, InHand, Requesting, Walking
<1>3. \A k \in Job \ {j} : Same(k)
  BY DEF TypeOK, Same
<1>. QED  BY <1>1, <1>2, <1>3 DEF Fits

(* Pages that are given a level.                                           *)
LEMMA LevelTyped ==
    ASSUME NEW j \in Job, NEW s \in Seq(Url), NEW d \in 0 .. MaxDepth[j]
    PROVE  AtDepth(s, d) \in Seq(Url \X (0 .. MaxDepth[j]))
<1>1. DOMAIN s = 1 .. Len(s) /\ Len(s) \in Nat /\ \A n \in DOMAIN s : s[n] \in Url
  OBVIOUS
<1>. QED  BY <1>1 DEF AtDepth

(* The seeds are queued at level 0.                                        *)
LEMMA BeginFits ==
    ASSUME TypeInv, NEW j \in Job, Begin(j)
    PROVE  Fits(j)
<1> USE CrawlerAssumption DEF TypeInv, Begin, SetStatus, Goto, request
<1> DEFINE seeds == Among(Seeds, Url \ Blocked)
           q == AtDepth(seeds, 0)
<1>1. queue' = [queue EXCEPT ![j] = q]
  OBVIOUS
<1>2. q \in Seq(Url \X (0 .. MaxDepth[j]))
  <2>1. seeds \in Seq(Url) /\ 0 \in 0 .. MaxDepth[j]
    BY SeedsTyped
  <2>. HIDE DEF seeds
  <2>. QED  BY <2>1, LevelTyped
<1>. HIDE DEF q
<1>3. TypeOK'
  <2>1. JobTypes /\ WalkTypes /\ RequestTypes /\ SharedTypes
    BY TypeParts, Zenon
  <2>2. JobTypes'
    BY <2>1 DEF JobTypes, Status, Place
  <2>3. WalkTypes'
    BY <1>1, <1>2, <2>1, QueueTyped DEF WalkTypes
  <2>4. RequestTypes'
    BY <2>1 DEF RequestTypes
  <2>5. SharedTypes'
    BY <2>1 DEF SharedTypes
  <2>. QED  BY ONLY <2>2, <2>3, <2>4, <2>5, TypeParts, Zenon
<1>4. PlaceInv(j)'
  BY DEF TypeOK, PlaceInv, InHand, Requesting, Walking
<1>5. \A k \in Job \ {j} : Same(k)
  BY DEF TypeOK, Same
<1>. QED  BY <1>3, <1>4, <1>5 DEF Fits

(* A page that is passed over leaves the queue.                            *)
LEMMA SkipFits ==
    ASSUME TypeInv, NEW j \in Job, Skip(j)
    PROVE  Fits(j)
<1> USE CrawlerAssumption DEF TypeInv, Skip, Continues, jobs, request
<1> DEFINE q == Tail(queue[j])
<1>1. queue' = [queue EXCEPT ![j] = q]
  BY DEF TypeOK
<1>2. q \in Seq(Url \X (0 .. MaxDepth[j]))
  BY QueueHead
<1>. HIDE DEF q
<1>3. TypeOK'
  <2>1. JobTypes /\ WalkTypes /\ RequestTypes /\ SharedTypes
    BY TypeParts, Zenon
  <2>2. JobTypes'
    BY <2>1 DEF JobTypes, Status, Place
  <2>3. WalkTypes'
    BY <1>1, <1>2, <2>1, QueueTyped DEF WalkTypes
  <2>4. RequestTypes'
    BY <2>1 DEF RequestTypes
  <2>5. SharedTypes'
    BY <2>1 DEF SharedTypes
  <2>. QED  BY ONLY <2>2, <2>3, <2>4, <2>5, TypeParts, Zenon
<1>4. PlaceInv(j)'
  BY DEF TypeOK, PlaceInv, InHand, Requesting, Walking
<1>5. \A k \in Job \ {j} : Same(k)
  BY DEF TypeOK, Same
<1>. QED  BY <1>3, <1>4, <1>5 DEF Fits

(* A task that has approached a URL is in its place.                       *)
LEMMA ApproachedPlace ==
    ASSUME TypeOK, NEW j \in Job, NEW kind \in {"page", "media"},
           NEW u \in Url, u \notin Blocked, Approached(j, kind, u),
           status'[j] = "running", hops[j] = 0,
           kind = "page" => pages'[j] < MaxPages[j]
    PROVE  PlaceInv(j)'
<1>1. pc'[j] \in {"next", "media", "robots", "asleep", "get"}
  BY DEF Approached
<1>2. hops'[j] = 0
  BY DEF Approached
<1>3. pc'[j] \in Requesting => target'[j] = [kind |-> kind, url |-> u]
  BY DEF Approached, Requesting
<1>4. pc'[j] = "get" => at'[j] = u
  BY DEF Approached
<1>. QED  BY <1>1, <1>2, <1>3, <1>4 DEF PlaceInv, InHand, Requesting, Walking

(* A visited page is the target of a request, or robots.txt is asked.      *)
LEMMA VisitFits ==
    ASSUME TypeInv, NEW j \in Job, Visit(j)
    PROVE  Fits(j)
<1> USE CrawlerAssumption DEF TypeInv
<1> DEFINE u == Head(queue[j])[1]
           d == Head(queue[j])[2]
           q == Tail(queue[j])
<1>1. /\ pc[j] = "next" /\ queue[j] # <<>> /\ pages[j] < MaxPages[j]
      /\ queue' = [queue EXCEPT ![j] = q]
      /\ visited' = [visited EXCEPT ![j] = @ \cup {u}]
      /\ depth' = [depth EXCEPT ![j] = d]
      /\ UNCHANGED <<status, disk, seen, pages, pending, robots, clean, restarts>>
  BY DEF TypeOK, Visit, Continues, jobs
<1>2. q \in Seq(Url \X (0 .. MaxDepth[j])) /\ u \in Url /\ d \in 0 .. MaxDepth[j]
  BY <1>1, QueueHead
<1>3. IF u \in Blocked THEN UNCHANGED <<pc, request, traffic>>
                       ELSE Approach(j, "page", u)
  BY DEF Visit
<1>4. \/ /\ u \in Blocked
         /\ UNCHANGED <<pc, target, at, hops, awaited, window, unnoted>>
      \/ u \notin Blocked /\ Approached(j, "page", u)
  <2>1. CASE u \in Blocked
    <3>1. UNCHANGED <<pc, request, traffic>>
      BY <1>3, <2>1, Zenon
    <3>. QED  BY <2>1, <3>1 DEF request
  <2>2. CASE u \notin Blocked
    BY <1>2, <2>2, ApproachEffect DEF Visit
  <2>. QED  BY <2>1, <2>2
<1>. HIDE DEF q, u, d
<1>5. TypeOK'
  <2>1. JobTypes /\ WalkTypes /\ RequestTypes /\ SharedTypes
    BY TypeParts, Zenon
  <2>2. JobTypes'
    <3>1. pc' \in [Job -> Place]
      BY <1>4, <2>1 DEF JobTypes, Approached
    <3>. QED  BY <1>1, <2>1, <3>1 DEF JobTypes
  <2>3. WalkTypes'
    <3>1. /\ queue' \in [Job -> Seq(Url \X Nat)]
          /\ \A k \in Job : queue'[k] \in Seq(Url \X (0 .. MaxDepth[k]))
      BY <1>1, <1>2, QueueTyped
    <3>2. visited' \in [Job -> SUBSET Url]
      <4>1. visited \in [Job -> SUBSET Url]
        BY <2>1 DEF WalkTypes
      <4>. QED  BY ONLY <1>1, <1>2, <4>1
    <3>3. depth' \in [Job -> Nat] /\ \A k \in Job : depth'[k] <= MaxDepth[k]
      <4>1. depth \in [Job -> Nat] /\ \A k \in Job : depth[k] <= MaxDepth[k]
        BY <2>1 DEF WalkTypes
      <4>2. MaxDepth[j] \in Nat
        OBVIOUS
      <4>. QED  BY ONLY <1>1, <1>2, <4>1, <4>2
    <3>. QED  BY <1>1, <2>1, <3>1, <3>2, <3>3 DEF WalkTypes
  <2>4. RequestTypes'
    BY <1>4, <2>1 DEF RequestTypes, Approached
  <2>5. SharedTypes'
    BY <1>1, <1>4, <2>1 DEF SharedTypes, Approached
  <2>. QED  BY ONLY <2>2, <2>3, <2>4, <2>5, TypeParts, Zenon
<1>6. PlaceInv(j)'
  <2>1. CASE /\ u \in Blocked
             /\ UNCHANGED <<pc, target, at, hops, awaited, window, unnoted>>
    BY <1>1, <2>1 DEF TypeOK, PlaceInv, InHand, Requesting, Walking
  <2>2. CASE u \notin Blocked /\ Approached(j, "page", u)
    <3>1. status[j] = "running" /\ hops[j] = 0
      BY <1>1 DEF PlaceInv, Walking
    <3>2. status'[j] = "running" /\ pages'[j] = pages[j]
      BY <1>1, <3>1
    <3>. QED  BY <1>1, <1>2, <2>2, <3>1, <3>2, ApproachedPlace
  <2>. QED  BY <1>4, <2>1, <2>2
<1>7. \A k \in Job \ {j} : Same(k)
  <2> SUFFICES ASSUME NEW k \in Job \ {j} PROVE Same(k)
    OBVIOUS
  <2>1. UNCHANGED <<status[k], queue[k], visited[k], pages[k], depth[k], clean[k]>>
    BY <1>1 DEF TypeOK
  <2>2. UNCHANGED <<pc[k], target[k], at[k], hops[k], awaited[k]>>
    BY <1>4 DEF TypeOK, Approached
  <2>. QED  BY <2>1, <2>2 DEF Same
<1>. QED  BY <1>5, <1>6, <1>7 DEF Fits

(* The next file of a page is the target, or is passed over.               *)
LEMMA NextMediaFits ==
    ASSUME TypeInv, NEW j \in Job, NextMedia(j)
    PROVE  Fits(j)
<1> USE CrawlerAssumption DEF TypeInv
<1> DEFINE u == Head(pending[j])
           rest == Tail(pending[j])
<1>1. /\ pc[j] = "media" /\ pending[j] # <<>>
      /\ pending' = [pending EXCEPT ![j] = rest]
      /\ UNCHANGED <<status, disk, queue, visited, pages, depth, robots, clean,
                     restarts>>
  BY DEF TypeOK, NextMedia, jobs
<1>2. rest \in Seq(Url) /\ u \in Url
  BY <1>1 DEF TypeOK
<1>3. \/ UNCHANGED <<pc, seen, target, at, hops, awaited, window, unnoted>>
      \/ /\ u \notin Blocked /\ Approached(j, "media", u)
         /\ seen' = [seen EXCEPT ![j] = @ \cup {u}]
  <2>1. CASE u \in seen[j] \cup Blocked
    BY <2>1 DEF NextMedia, request
  <2>2. CASE u \notin seen[j] \cup Blocked
    BY <1>2, <2>2, ApproachEffect DEF NextMedia
  <2>. QED  BY <2>1, <2>2
<1>. HIDE DEF rest, u
<1>4. TypeOK'
  <2>1. JobTypes /\ WalkTypes /\ RequestTypes /\ SharedTypes
    BY TypeParts, Zenon
  <2>2. JobTypes'
    BY <1>1, <1>3, <2>1 DEF JobTypes, Approached
  <2>3. WalkTypes'
    <3>1. pending' \in [Job -> Seq(Url)]
      BY <1>1, <1>2, <2>1 DEF WalkTypes
    <3>2. seen' \in [Job -> SUBSET Url]
      <4>1. CASE seen' = seen
        BY <2>1, <4>1 DEF WalkTypes
      <4>2. CASE seen' = [seen EXCEPT ![j] = @ \cup {u}]
        BY <1>2, <2>1, <4>2 DEF WalkTypes
      <4>. QED  BY <1>3, <4>1, <4>2
    <3>. QED  BY <1>1, <2>1, <3>1, <3>2 DEF WalkTypes
  <2>4. RequestTypes'
    BY <1>3, <2>1 DEF RequestTypes, Approached
  <2>5. SharedTypes'
    BY <1>1, <1>3, <2>1 DEF SharedTypes, Approached
  <2>. QED  BY ONLY <2>2, <2>3, <2>4, <2>5, TypeParts, Zenon
<1>5. PlaceInv(j)'
  <2>1. CASE UNCHANGED <<pc, seen, target, at, hops, awaited, window, unnoted>>
    BY <1>1, <2>1 DEF TypeOK, PlaceInv, InHand, Requesting, Walking
  <2>2. CASE u \notin Blocked /\ Approached(j, "media", u)
    <3>1. status[j] = "running" /\ hops[j] = 0
      BY <1>1 DEF PlaceInv, Walking
    <3>2. status'[j] = "running" /\ pages'[j] = pages[j]
      BY <1>1, <3>1
    <3>. QED  BY <1>1, <1>2, <2>2, <3>1, <3>2, ApproachedPlace
  <2>. QED  BY <1>3, <2>1, <2>2
<1>6. \A k \in Job \ {j} : Same(k)
  BY <1>1, <1>3 DEF TypeOK, Same, Approached
<1>. QED  BY <1>4, <1>5, <1>6 DEF Fits

(* The robots file that a task asked for, and what the task does then.     *)
LEMMA RobotsAnswerEffect ==
    ASSUME TypeInv, NEW j \in Job, RobotsAnswer(j)
    PROVE  /\ pc[j] = "robots"
           /\ target[j].url \in Url /\ HostOf[target[j].url] \in Host
           /\ target[j].kind \in {"page", "media"}
           /\ UNCHANGED <<jobs, walk, pending, restarts>>
           /\ \E r \in {"found", "missing"} :
                 /\ robots' = [robots EXCEPT ![HostOf[target[j].url]] = r]
                 /\ clean' = [i \in Job |-> clean[i] /\ r = "found"]
                 /\ Approached(j, target[j].kind, target[j].url)
                 /\ pc'[j] # "robots"
                 /\ r = "found" /\ pc'[j] \in {"asleep", "get"}
                       => target[j].url \notin Disallowed
<1>1. pc[j] = "robots" /\ UNCHANGED <<jobs, walk, pending, restarts>>
  BY DEF RobotsAnswer
<1>2. target[j].url \in Url /\ target[j].kind \in {"page", "media"}
  BY <1>1 DEF TypeInv, PlaceInv, Requesting
<1>3. HostOf[target[j].url] \in Host
  BY <1>2, CrawlerAssumption
<1>4. PICK r \in {"found", "missing"} :
         /\ robots' = [robots EXCEPT ![HostOf[target[j].url]] = r]
         /\ Consult(j, target[j].kind, target[j].url, r)
         /\ clean' = [i \in Job |-> clean[i] /\ r = "found"]
  BY DEF RobotsAnswer
<1>5. /\ Approached(j, target[j].kind, target[j].url)
      /\ pc'[j] # "robots"
      /\ r = "found" /\ pc'[j] \in {"asleep", "get"}
            => target[j].url \notin Disallowed
  BY <1>2, <1>4, ConsultEffect DEF TypeInv
<1>. QED  BY <1>1, <1>2, <1>3, <1>4, <1>5

(* The answer to robots.txt lets the request go, or ends it.               *)
LEMMA RobotsAnswerFits ==
    ASSUME TypeInv, NEW j \in Job, RobotsAnswer(j)
    PROVE  Fits(j)
<1> USE CrawlerAssumption DEF TypeInv
<1> DEFINE u == target[j].url
           kind == target[j].kind
<1>1. /\ pc[j] = "robots" /\ u \in Url /\ HostOf[u] \in Host
      /\ kind \in {"page", "media"}
      /\ UNCHANGED <<status, disk, queue, visited, seen, pages, depth, pending,
                     restarts>>
  BY RobotsAnswerEffect DEF jobs, walk
<1>2. PICK r \in {"found", "missing"} :
         /\ robots' = [robots EXCEPT ![HostOf[u]] = r]
         /\ clean' = [i \in Job |-> clean[i] /\ r = "found"]
         /\ Approached(j, kind, u)
         /\ pc'[j] # "robots"
  BY RobotsAnswerEffect
<1>3. u \notin Blocked /\ status[j] = "running" /\ hops[j] = 0
      /\ (kind = "page" => pages[j] < MaxPages[j])
  BY <1>1 DEF PlaceInv, Requesting, InHand, Walking
<1>. HIDE DEF u, kind
<1>4. TypeOK'
  <2>1. JobTypes /\ WalkTypes /\ RequestTypes /\ SharedTypes
    BY TypeParts, Zenon
  <2>2. JobTypes'
    BY <1>1, <1>2, <2>1 DEF JobTypes, Approached
  <2>3. WalkTypes'
    BY <1>1, <2>1 DEF WalkTypes
  <2>4. RequestTypes'
    BY <1>2, <2>1 DEF RequestTypes, Approached
  <2>5. SharedTypes'
    <3>1. clean' \in [Job -> BOOLEAN]
      BY <1>2
    <3>2. robots' \in [Host -> {"unknown", "found", "missing"}]
      BY <1>1, <1>2, <2>1 DEF SharedTypes
    <3>. QED  BY <1>1, <1>2, <2>1, <3>1, <3>2 DEF SharedTypes, Approached
  <2>. QED  BY ONLY <2>2, <2>3, <2>4, <2>5, TypeParts, Zenon
<1>5. PlaceInv(j)'
  BY <1>1, <1>2, <1>3, ApproachedPlace
<1>6. \A k \in Job \ {j} : Same(k)
  <2>1. \A k \in Job : clean'[k] => clean[k]
    BY <1>2, Zenon
  <2>. QED  BY <1>1, <1>2, <2>1 DEF Same, Approached
<1>. QED  BY <1>4, <1>5, <1>6 DEF Fits

(* A page that arrived adds its links and its files.                       *)
LEMMA ArriveFits ==
    ASSUME TypeInv, NEW j \in Job, Arrive(j)
    PROVE  Fits(j)
<1> USE CrawlerAssumption DEF TypeInv
<1> DEFINE u == at[j]
           deeper == depth[j] < MaxDepth[j]
           next == IF deeper THEN Followed(j, u) ELSE <<>>
           files == IF deeper THEN Downloaded(j, u) ELSE <<>>
           found == AtDepth(next, depth[j] + 1)
           q == queue[j] \o found
           rest == Media[u] \o files
<1>1. /\ pc[j] = "get" /\ target[j].kind = "page"
      /\ pages' = [pages EXCEPT ![j] = @ + 1]
      /\ pending' = [pending EXCEPT ![j] = rest]
      /\ queue' = [queue EXCEPT ![j] = q]
      /\ pc' = [pc EXCEPT ![j] = "media"]
      /\ UNCHANGED <<status, disk, visited, seen, depth, robots, window, unnoted,
                     clean, restarts>>
  BY DEF TypeOK, Arrive, Goto, jobs
<1>2. /\ target' = [target EXCEPT ![j] = NoTarget]
      /\ at' = [at EXCEPT ![j] = None]
      /\ hops' = [hops EXCEPT ![j] = 0]
      /\ awaited' = [awaited EXCEPT ![j] = None]
  BY DEF Arrive, Release
<1>3. u \in Url
  BY <1>1 DEF PlaceInv
<1>4. next \in Seq(Url) /\ files \in Seq(Url) /\ Media[u] \in Seq(Url)
  BY <1>3, FollowedTyped
<1>5. rest \in Seq(Url)
  <2>. HIDE DEF files
  <2>. QED  BY <1>4
<1>6. found \in Seq(Url \X (0 .. MaxDepth[j]))
  <2>1. CASE deeper
    <3>1. depth[j] + 1 \in 0 .. MaxDepth[j]
      BY <2>1 DEF TypeOK
    <3>. HIDE DEF next
    <3>. QED  BY <1>4, <3>1, LevelTyped
  <2>2. CASE ~ deeper
    <3>1. next = <<>>
      BY <2>2
    <3>. HIDE DEF next
    <3>2. found = <<>>
      BY <3>1 DEF AtDepth
    <3>. HIDE DEF found
    <3>. QED  BY <3>2
  <2>. QED  BY <2>1, <2>2
<1>7. q \in Seq(Url \X (0 .. MaxDepth[j]))
  <2>1. queue[j] \in Seq(Url \X (0 .. MaxDepth[j]))
    BY DEF TypeOK
  <2>. HIDE DEF found
  <2>. QED  BY <1>6, <2>1
<1>8. pages[j] < MaxPages[j]
  BY <1>1 DEF PlaceInv, InHand, Requesting
<1>. HIDE DEF q, rest, u
<1>9. TypeOK'
  <2>1. JobTypes /\ WalkTypes /\ RequestTypes /\ SharedTypes
    BY TypeParts, Zenon
  <2>2. JobTypes'
    BY <1>1, <2>1 DEF JobTypes, Place
  <2>3. WalkTypes'
    <3>1. /\ queue' \in [Job -> Seq(Url \X Nat)]
          /\ \A k \in Job : queue'[k] \in Seq(Url \X (0 .. MaxDepth[k]))
      BY <1>1, <1>7, QueueTyped
    <3>2. pending' \in [Job -> Seq(Url)]
      BY <1>1, <1>5, <2>1 DEF WalkTypes
    <3>3. pages' \in [Job -> Nat] /\ \A k \in Job : pages'[k] <= MaxPages[k]
      BY <1>1, <1>8, <2>1 DEF WalkTypes
    <3>. QED  BY <1>1, <2>1, <3>1, <3>2, <3>3 DEF WalkTypes
  <2>4. RequestTypes'
    BY <1>2, <2>1 DEF RequestTypes, NoTarget
  <2>5. SharedTypes'
    BY <1>1, <1>2, <2>1 DEF SharedTypes
  <2>. QED  BY ONLY <2>2, <2>3, <2>4, <2>5, TypeParts, Zenon
<1>10. PlaceInv(j)'
  BY <1>1, <1>2 DEF TypeOK, PlaceInv, InHand, Requesting, Walking, NoTarget
<1>11. \A k \in Job \ {j} : Same(k)
  BY <1>1, <1>2 DEF TypeOK, Same
<1>. QED  BY <1>9, <1>10, <1>11 DEF Fits

-----------------------------------------------------------------------------
JobStep(j) == Create(j) \/ CreateUnsaved(j) \/ TaskStep(j)

(* Every step of a job keeps the types and the places.                     *)
LEMMA StepFits ==
    ASSUME TypeInv, NEW j \in Job, JobStep(j)
    PROVE  Fits(j)
BY CreateFits, CreateUnsavedFits, BeginFits, BeginUnsavedFits, SkipFits,
   VisitFits, CompleteFits, RobotsAnswerFits, WakeFits, HopFits,
   FetchFailsFits, UnreadableFits, ArriveFits, IndexMediaFits, NextMediaFits,
   PageDoneFits, CollapseFits
   DEF JobStep, TaskStep

(* Time passes for every job alike.                                        *)
LEMMA CoolFits ==
    ASSUME TypeInv, NEW h \in Host, Cool(h)
    PROVE  TypeOK' /\ \A k \in Job : Same(k)
<1> USE CrawlerAssumption DEF TypeInv, Cool, jobs, walk
<1>1. JobTypes /\ WalkTypes /\ RequestTypes /\ SharedTypes
  BY TypeParts, Zenon
<1>2. JobTypes' /\ WalkTypes' /\ RequestTypes'
  BY <1>1 DEF JobTypes, WalkTypes, RequestTypes
<1>3. SharedTypes'
  BY <1>1 DEF SharedTypes
<1>4. TypeOK'
  BY ONLY <1>2, <1>3, TypeParts, Zenon
<1>. QED  BY <1>4 DEF Same

(* An unnoted request leaves the window.                                   *)
LEMMA CoolUnnotedFits ==
    ASSUME TypeInv, NEW h \in Host, CoolUnnoted(h)
    PROVE  TypeOK' /\ \A k \in Job : Same(k)
<1> USE CrawlerAssumption DEF TypeInv, CoolUnnoted, jobs, walk, request
<1>1. JobTypes /\ WalkTypes /\ RequestTypes /\ SharedTypes
  BY TypeParts, Zenon
<1>2. JobTypes' /\ WalkTypes' /\ RequestTypes'
  BY <1>1 DEF JobTypes, WalkTypes, RequestTypes
<1>3. SharedTypes'
  BY <1>1 DEF SharedTypes
<1>4. TypeOK'
  BY ONLY <1>2, <1>3, TypeParts, Zenon
<1>. QED  BY <1>4 DEF Same

(* A rule set that expires is asked for again; no task moves.              *)
LEMMA ForgetRobotsFits ==
    ASSUME TypeInv, NEW h \in Host, ForgetRobots(h)
    PROVE  TypeOK' /\ \A k \in Job : Same(k)
<1> USE CrawlerAssumption DEF TypeInv, ForgetRobots, jobs, walk, request
<1>1. JobTypes /\ WalkTypes /\ RequestTypes /\ SharedTypes
  BY TypeParts, Zenon
<1>2. JobTypes' /\ WalkTypes' /\ RequestTypes'
  BY <1>1 DEF JobTypes, WalkTypes, RequestTypes
<1>3. SharedTypes'
  BY <1>1 DEF SharedTypes
<1>4. TypeOK'
  BY ONLY <1>2, <1>3, TypeParts, Zenon
<1>. QED  BY <1>4 DEF Same

(* A job keeps its place when another one steps.                           *)
LEMMA PlaceFrame ==
    ASSUME NEW k, PlaceInv(k), Same(k)
    PROVE  PlaceInv(k)'
BY DEF PlaceInv, Same, InHand, Walking, Requesting

(* After a restart no task runs, and the jobs are read from the disk.      *)
LEMMA RestartFits ==
    ASSUME TypeInv, Restart
    PROVE  TypeInv'
<1> USE CrawlerAssumption DEF TypeInv, Restart
<1>1. JobTypes /\ WalkTypes /\ RequestTypes /\ SharedTypes
  BY TypeParts, Zenon
<1>2. JobTypes' /\ WalkTypes'
  BY <1>1 DEF JobTypes, WalkTypes, Place
<1>3. RequestTypes' /\ SharedTypes'
  BY <1>1 DEF RequestTypes, SharedTypes, NoTarget
<1>4. TypeOK'
  BY ONLY <1>2, <1>3, TypeParts, Zenon
<1>5. \A j \in Job : PlaceInv(j)'
  BY DEF PlaceInv, InHand, Walking, Requesting
<1>. QED  BY <1>4, <1>5

(* At the start there is no job and no task.                               *)
LEMMA TypeInit == Init => TypeInv
<1> SUFFICES ASSUME Init PROVE TypeInv
  OBVIOUS
<1> USE CrawlerAssumption DEF Init
<1>1. JobTypes /\ WalkTypes
  BY DEF JobTypes, WalkTypes, Place, Status
<1>2. RequestTypes /\ SharedTypes
  BY DEF RequestTypes, SharedTypes, NoTarget
<1>3. TypeOK
  BY ONLY <1>1, <1>2, TypeParts, Zenon
<1>4. \A j \in Job : PlaceInv(j)
  BY DEF PlaceInv, InHand, Walking, Requesting
<1>. QED  BY <1>3, <1>4 DEF TypeInv

(* The step of a job, of its surroundings, or none.                        *)
LEMMA NextCases ==
    ASSUME [Next]_vars
    PROVE  \/ \E j \in Job : JobStep(j)
           \/ \E h \in Host : Cool(h) \/ CoolUnnoted(h) \/ ForgetRobots(h)
           \/ Restart
           \/ UNCHANGED vars
BY Zenon DEF Next, JobStep

(* Types and places are kept by every step.                                *)
LEMMA TypeNext == TypeInv /\ [Next]_vars => TypeInv'
<1> SUFFICES ASSUME TypeInv, [Next]_vars PROVE TypeInv'
  OBVIOUS
<1>1. ASSUME NEW j \in Job, JobStep(j) PROVE TypeInv'
  <2>1. Fits(j)
    BY <1>1, StepFits
  <2>2. \A k \in Job \ {j} : PlaceInv(k)'
    BY <2>1, PlaceFrame DEF TypeInv, Fits
  <2>. QED  BY <2>1, <2>2 DEF TypeInv, Fits
<1>2. ASSUME NEW h \in Host, Cool(h) \/ CoolUnnoted(h) \/ ForgetRobots(h)
      PROVE  TypeInv'
  <2>1. TypeOK' /\ \A k \in Job : Same(k)
    BY <1>2, CoolFits, CoolUnnotedFits, ForgetRobotsFits
  <2>. QED  BY <2>1, PlaceFrame DEF TypeInv
<1>3. CASE Restart
  BY <1>3, RestartFits
<1>4. CASE UNCHANGED vars
  <2>1. TypeOK'
    BY <1>4 DEF TypeInv, TypeOK, vars, jobs, walk, request
  <2>2. \A k \in Job : Same(k)
    BY <1>4 DEF vars, jobs, walk, request, Same
  <2>. QED  BY <2>1, <2>2, PlaceFrame DEF TypeInv
<1>. QED  BY <1>1, <1>2, <1>3, <1>4, NextCases, Zenon

(* Every variable keeps to its domain: a job crawls no more pages than it  *)
(* may, at no greater depth, and follows no more redirects than the guard. *)
THEOREM TypeCorrect == Spec => []TypeOK
<1>1. TypeInv => TypeOK
  BY DEF TypeInv
<1>. QED  BY <1>1, TypeInit, TypeNext, PTL DEF Spec

-----------------------------------------------------------------------------
(* Politeness.                                                             *)

(* A step that sends nothing and puts nobody to sleep.                     *)
LEMMA QuietPolite ==
    ASSUME PoliteInv, window' = window, NEW j \in Job, pc'[j] # "asleep",
           \A k \in Job \ {j} : /\ pc'[k] = pc[k] /\ target'[k] = target[k]
                                /\ awaited'[k] = awaited[k]
    PROVE  PoliteInv'
<1>1. \A h \in Host : IsInjective(window[h])'
  BY DEF PoliteInv
<1>2. ASSUME NEW k \in Job PROVE Waits(k)'
  BY DEF PoliteInv, Waits
<1>. QED  BY <1>1, <1>2 DEF PoliteInv

(* The items of a sequence that is appended to.                            *)
LEMMA AppendItems ==
    ASSUME NEW A, NEW s \in Seq(A), NEW x \in A
    PROVE  /\ \A n \in DOMAIN s : /\ n \in DOMAIN Append(s, x)
                                /\ Append(s, x)[n] = s[n]
           /\ \A n \in DOMAIN Append(s, x) :
                 \/ n \in DOMAIN s /\ Append(s, x)[n] = s[n]
                 \/ n = Len(s) + 1 /\ Append(s, x)[n] = x
OBVIOUS

(* A request is appended to the window of its host, where none of the same *)
(* job is left.                                                            *)
LEMMA SendPolite ==
    ASSUME TypeInv, PoliteInv, NEW j \in Job, NEW u \in Url,
           window' = [window EXCEPT ![HostOf[u]] = Append(@, j)],
           \A n \in DOMAIN window[HostOf[u]] : window[HostOf[u]][n] # j,
           pc'[j] # "asleep",
           \A k \in Job \ {j} : /\ pc'[k] = pc[k] /\ target'[k] = target[k]
                                /\ awaited'[k] = awaited[k]
    PROVE  PoliteInv'
<1> USE CrawlerAssumption
<1> DEFINE g == HostOf[u]
           w == window[g]
<1>1. g \in Host /\ w \in Seq(Job) /\ window \in [Host -> Seq(Job)]
  BY DEF TypeInv, TypeOK
<1>2. window'[g] = Append(w, j) /\ \A h \in Host \ {g} : window'[h] = window[h]
  BY <1>1
<1>3. IsInjective(w) /\ \A n \in DOMAIN w : w[n] # j
  BY <1>1 DEF PoliteInv
<1>. HIDE DEF w, g
<1>4. /\ \A n \in DOMAIN w : /\ n \in DOMAIN Append(w, j)
                             /\ Append(w, j)[n] = w[n]
      /\ \A n \in DOMAIN Append(w, j) :
            \/ n \in DOMAIN w /\ Append(w, j)[n] = w[n]
            \/ n = Len(w) + 1 /\ Append(w, j)[n] = j
  BY <1>1, AppendItems
<1>5. IsInjective(Append(w, j))
  <2> SUFFICES ASSUME NEW m \in DOMAIN Append(w, j),
                      NEW n \in DOMAIN Append(w, j),
                      Append(w, j)[m] = Append(w, j)[n]
               PROVE  m = n
    BY Zenon DEF IsInjective
  <2>1. CASE m \in DOMAIN w /\ Append(w, j)[m] = w[m]
    <3>1. n \in DOMAIN w /\ Append(w, j)[n] = w[n]
      BY <1>3, <1>4, <2>1, Zenon
    <3>. QED  BY <1>3, <2>1, <3>1, Zenon DEF IsInjective
  <2>2. CASE m = Len(w) + 1 /\ Append(w, j)[m] = j
    <3>1. ~ (n \in DOMAIN w /\ Append(w, j)[n] = w[n])
      BY <1>3, <2>2, Zenon
    <3>. QED  BY <1>4, <2>2, <3>1, Zenon
  <2>. QED  BY <1>4, <2>1, <2>2, Zenon
<1>6. ASSUME NEW h \in Host PROVE IsInjective(window'[h])
  BY <1>2, <1>5 DEF PoliteInv
<1>7. ASSUME NEW k \in Job PROVE Waits(k)'
  <2> SUFFICES ASSUME pc'[k] = "asleep",
                      NEW n \in DOMAIN window'[HostOf[target'[k].url]],
                      window'[HostOf[target'[k].url]][n] = k
               PROVE  \E m \in DOMAIN window'[HostOf[target'[k].url]] :
                         n <= m /\ window'[HostOf[target'[k].url]][m] = awaited'[k]
    BY DEF Waits
  <2>1. /\ k # j /\ pc[k] = "asleep" /\ target'[k] = target[k]
        /\ awaited'[k] = awaited[k]
    OBVIOUS
  <2>2. target[k].url \in Url
    BY <2>1 DEF TypeInv, PlaceInv, Requesting
  <2> DEFINE h == HostOf[target[k].url]
  <2>3. h \in Host
    BY <2>2
  <2>4. \A i \in DOMAIN window[h] : window[h][i] = k =>
           \E m \in DOMAIN window[h] : i <= m /\ window[h][m] = awaited[k]
    BY <2>1 DEF PoliteInv, Waits
  <2>5. n \in DOMAIN window'[h] /\ window'[h][n] = k
    BY <2>1
  <2>. HIDE DEF h
  <2>6. \E m \in DOMAIN window'[h] : n <= m /\ window'[h][m] = awaited[k]
    <3>1. CASE h # g
      <4>1. window'[h] = window[h]
        BY <1>2, <2>3, <3>1
      <4>2. n \in DOMAIN window[h] /\ window[h][n] = k
        BY <2>5, <4>1, Zenon
      <4>3. PICK m \in DOMAIN window[h] : n <= m /\ window[h][m] = awaited[k]
        BY <2>4, <4>2, Zenon
      <4>. QED  BY <4>1, <4>3, Zenon
    <3>2. CASE h = g
      <4>1. window[h] = w /\ window'[h] = Append(w, j)
        BY <1>2, <3>2 DEF w
      <4>2. n \in DOMAIN w /\ w[n] = k
        <5>1. n \in DOMAIN Append(w, j) /\ Append(w, j)[n] = k
          BY ONLY <2>5, <4>1
        <5>2. k # j
          BY ONLY <2>1
        <5>. HIDE DEF w
        <5>. QED  BY ONLY <1>4, <5>1, <5>2, Zenon
      <4>3. PICK m \in DOMAIN w : n <= m /\ w[m] = awaited[k]
        <5>1. \A i \in DOMAIN w : w[i] = k =>
                 \E m \in DOMAIN w : i <= m /\ w[m] = awaited[k]
          BY ONLY <2>4, <4>1
        <5>. QED  BY ONLY <4>2, <5>1, Zenon
      <4>4. m \in DOMAIN Append(w, j) /\ Append(w, j)[m] = w[m]
        BY <1>4, <4>3, Zenon
      <4>. QED  BY <4>1, <4>3, <4>4
    <3>. QED  BY <3>1, <3>2
  <2>. QED  BY <2>1, <2>6 DEF h
<1>. QED  BY <1>6, <1>7 DEF PoliteInv

(* Going for a page keeps every host polite: the request is sent when the  *)
(* window allows, or awaits the oldest one.                                *)
LEMMA ApproachedPolite ==
    ASSUME TypeInv, PoliteInv, NEW j \in Job, NEW kind \in {"page", "media"},
           NEW u \in Url, Approached(j, kind, u)
    PROVE  PoliteInv'
<1> USE CrawlerAssumption
<1>1. HostOf[u] \in Host /\ window[HostOf[u]] \in Seq(Job)
  BY DEF TypeInv, TypeOK
<1>2. \A k \in Job \ {j} : /\ pc'[k] = pc[k] /\ target'[k] = target[k]
                           /\ awaited'[k] = awaited[k]
  BY DEF Approached
<1>3. CASE pc'[j] = "get"
  <2>1. /\ window[HostOf[u]] = <<>>
        /\ window' = [window EXCEPT ![HostOf[u]] = Append(@, j)]
    BY <1>3 DEF Approached
  <2>2. \A n \in DOMAIN window[HostOf[u]] : window[HostOf[u]][n] # j
    BY <2>1
  <2>. QED  BY <1>2, <1>3, <2>1, <2>2, SendPolite
<1>4. CASE pc'[j] = "asleep"
  <2>1. /\ window' = window /\ window[HostOf[u]] # <<>>
        /\ target'[j].url = u /\ awaited'[j] = Last(window[HostOf[u]])
    BY <1>4 DEF Approached
  <2>2. ASSUME NEW k \in Job PROVE Waits(k)'
    <3>1. CASE k = j
      <4> DEFINE w == window[HostOf[u]]
      <4>1. Len(w) \in DOMAIN w /\ w[Len(w)] = awaited'[j]
            /\ \A n \in DOMAIN w : n <= Len(w)
        BY <1>1, <2>1 DEF Last
      <4>2. window'[HostOf[target'[j].url]] = w
        BY <2>1
      <4>. HIDE DEF w
      <4>. QED  BY <3>1, <4>1, <4>2 DEF Waits
    <3>2. CASE k # j
      <4>1. Waits(k) /\ window' = window
        BY <2>1 DEF PoliteInv
      <4>2. pc'[k] = pc[k] /\ target'[k] = target[k] /\ awaited'[k] = awaited[k]
        BY <1>2, <3>2
      <4>. QED  BY ONLY <4>1, <4>2, Zenon DEF Waits
    <3>. QED  BY <3>1, <3>2
  <2>. QED  BY <2>1, <2>2 DEF PoliteInv
<1>5. CASE pc'[j] \notin {"get", "asleep"}
  <2>1. window' = window
    BY <1>5 DEF Approached
  <2>. QED  BY <1>2, <1>5, <2>1, QuietPolite
<1>. QED  BY <1>3, <1>4, <1>5

(* Visiting a page keeps every host polite.                                *)
LEMMA VisitPolite ==
    ASSUME TypeInv, PoliteInv, NEW j \in Job, Visit(j)
    PROVE  PoliteInv'
<1> DEFINE u == Head(queue[j])[1]
<1>1. u \in Url
  BY QueueHead DEF TypeInv, Visit, Continues
<1>2. \/ UNCHANGED <<pc, request, traffic>>
      \/ Approach(j, "page", u)
  BY DEF Visit
<1>3. CASE UNCHANGED <<pc, request, traffic>>
  <2>1. pc[j] = "next"
    BY DEF Visit, Continues
  <2>. QED  BY <1>3, <2>1, QuietPolite DEF request
<1>4. CASE Approach(j, "page", u)
  <2>. HIDE DEF u
  <2>1. Approached(j, "page", u)
    BY <1>1, <1>4, ApproachEffect DEF TypeInv
  <2>. QED  BY <1>1, <2>1, ApproachedPolite
<1>. QED  BY <1>2, <1>3, <1>4

(* Going for a file keeps every host polite.                               *)
LEMMA NextMediaPolite ==
    ASSUME TypeInv, PoliteInv, NEW j \in Job, NextMedia(j)
    PROVE  PoliteInv'
<1> DEFINE u == Head(pending[j])
<1>1. u \in Url
  BY DEF TypeInv, TypeOK, NextMedia
<1>2. \/ UNCHANGED <<pc, request, traffic>>
      \/ Approach(j, "media", u)
  BY DEF NextMedia
<1>3. CASE UNCHANGED <<pc, request, traffic>>
  <2>1. pc[j] = "media"
    BY DEF NextMedia
  <2>. QED  BY <1>3, <2>1, QuietPolite DEF request
<1>4. CASE Approach(j, "media", u)
  <2>. HIDE DEF u
  <2>1. Approached(j, "media", u)
    BY <1>1, <1>4, ApproachEffect DEF TypeInv
  <2>. QED  BY <1>1, <2>1, ApproachedPolite
<1>. QED  BY <1>2, <1>3, <1>4

(* Who wakes awaits nobody, so none of its own requests is in the window.  *)
LEMMA WakePolite ==
    ASSUME TypeInv, PoliteInv, NEW j \in Job, Wake(j)
    PROVE  PoliteInv'
<1> USE CrawlerAssumption
<1> DEFINE u == target[j].url
           w == window[HostOf[u]]
<1>1. pc[j] = "asleep" /\ awaited[j] = None
  BY DEF Wake
<1>2. u \in Url
  BY <1>1 DEF TypeInv, PlaceInv, Requesting
<1>3. w \in Seq(Job) /\ None \notin Job
  BY <1>2 DEF TypeInv, TypeOK
<1>4. ASSUME NEW n \in DOMAIN w, w[n] = j PROVE FALSE
  <2>1. PICK m \in DOMAIN w : w[m] = None
    BY <1>1, <1>4 DEF PoliteInv, Waits
  <2>. HIDE DEF w
  <2>. QED  BY <1>3, <2>1
<1>5. /\ window' = [window EXCEPT ![HostOf[u]] = Append(@, j)]
      /\ pc' = [pc EXCEPT ![j] = "get"] /\ target' = target
      /\ awaited' = [awaited EXCEPT ![j] = None]
  BY DEF Wake, Send, Goto
<1>6. /\ pc'[j] # "asleep"
      /\ \A k \in Job \ {j} : /\ pc'[k] = pc[k] /\ target'[k] = target[k]
                              /\ awaited'[k] = awaited[k]
  BY <1>5 DEF TypeInv, TypeOK
<1>. QED  BY <1>2, <1>4, <1>5, <1>6, SendPolite

(* Going on after robots.txt keeps every host polite.                      *)
LEMMA RobotsAnswerPolite ==
    ASSUME TypeInv, PoliteInv, NEW j \in Job, RobotsAnswer(j)
    PROVE  PoliteInv'
BY RobotsAnswerEffect, ApproachedPolite

(* The other steps of a job send nothing.                                  *)
LEMMA OtherPolite ==
    ASSUME TypeInv, PoliteInv, NEW j \in Job,
           \/ Create(j) \/ CreateUnsaved(j) \/ Begin(j) \/ BeginUnsaved(j)
           \/ Skip(j) \/ Complete(j) \/ Hop(j) \/ FetchFails(j)
           \/ Unreadable(j) \/ Arrive(j) \/ IndexMedia(j) \/ PageDone(j)
           \/ Collapse(j)
    PROVE  PoliteInv'
<1>1. /\ pc \in [Job -> Place] /\ target = [k \in Job |-> target[k]]
      /\ awaited = [k \in Job |-> awaited[k]]
      /\ status[j] = "none" => pc[j] = "none"
  BY DEF TypeInv, TypeOK, PlaceInv, Place
<1>2. window' = window
  BY DEF Create, CreateUnsaved, Begin, BeginUnsaved, Skip, Complete, Hop,
         FetchFails, Unreadable, Arrive, IndexMedia, PageDone, Collapse, End
<1>3. pc'[j] # "asleep"
  BY <1>1 DEF Create, CreateUnsaved, Begin, BeginUnsaved, Skip, Continues,
         Complete, Hop, FetchFails, Unreadable, Arrive, IndexMedia, PageDone,
         Collapse, End, Goto, Back
<1>4. \A k \in Job \ {j} : pc'[k] = pc[k]
  BY <1>1 DEF Create, CreateUnsaved, Begin, BeginUnsaved, Skip,
         Complete, Hop, FetchFails, Unreadable, Arrive, IndexMedia, PageDone,
         Collapse, End, Goto
<1>5. \A k \in Job \ {j} : target'[k] = target[k] /\ awaited'[k] = awaited[k]
  BY <1>1 DEF Create, CreateUnsaved, Begin, BeginUnsaved, Skip,
         Complete, Hop, FetchFails, Unreadable, Arrive, IndexMedia, PageDone,
         Collapse, End, Release, request
<1>. QED  BY <1>2, <1>3, <1>4, <1>5, QuietPolite

(* The oldest request leaves the window: whoever awaits it is due, and has *)
(* none of its own left; whoever awaits another one still finds it.        *)
LEMMA CoolPolite ==
    ASSUME TypeInv, PoliteInv, NEW h \in Host, Cool(h)
    PROVE  PoliteInv'
<1> USE CrawlerAssumption
<1> DEFINE w == window[h]
<1>1. w \in Seq(Job) /\ w # <<>> /\ window \in [Host -> Seq(Job)]
  BY DEF TypeInv, TypeOK, Cool
<1>2. window'[h] = Tail(w) /\ \A g \in Host \ {h} : window'[g] = window[g]
  BY <1>1 DEF Cool
<1>3. IsInjective(w)
  BY DEF PoliteInv
<1>4. pc' = pc /\ target' = target
  BY DEF Cool
<1>5. \A k \in Job : awaited'[k] = IF /\ pc[k] = "asleep"
                                      /\ HostOf[target[k].url] = h
                                      /\ awaited[k] = Head(w)
                                   THEN None ELSE awaited[k]
  BY DEF Cool
<1>. HIDE DEF w
<1>6. \A n \in DOMAIN Tail(w) : n + 1 \in DOMAIN w /\ Tail(w)[n] = w[n + 1]
  BY <1>1
<1>7. \A m \in DOMAIN w : m # 1 => m - 1 \in DOMAIN Tail(w)
                                   /\ Tail(w)[m - 1] = w[m]
  BY <1>1
<1>8. Head(w) = w[1] /\ 1 \in DOMAIN w /\ DOMAIN w \subseteq Nat
      /\ DOMAIN Tail(w) \subseteq Nat \ {0}
  BY <1>1
<1>9. ASSUME NEW g \in Host PROVE IsInjective(window'[g])
  <2>1. CASE g # h
    BY <1>2, <2>1 DEF PoliteInv
  <2>2. CASE g = h
    <3>1. IsInjective(Tail(w))
      BY <1>3, <1>6, <1>8 DEF IsInjective
    <3>. QED  BY <1>2, <2>2, <3>1
  <2>. QED  BY <2>1, <2>2
<1>10. ASSUME NEW k \in Job PROVE Waits(k)'
  <2>1. CASE pc[k] = "asleep" /\ HostOf[target[k].url] = h
    <3> SUFFICES ASSUME NEW n \in DOMAIN Tail(w), Tail(w)[n] = k
                 PROVE  \E m \in DOMAIN Tail(w) :
                           n <= m /\ Tail(w)[m] = awaited'[k]
      <4>1. window'[HostOf[target'[k].url]] = Tail(w)
        BY <1>2, <1>4, <2>1
      <4>. QED  BY <4>1, Zenon DEF Waits
    <3>1. n + 1 \in DOMAIN w /\ w[n + 1] = k /\ n \in Nat \ {0}
      BY <1>6, <1>8
    <3>2. PICK m \in DOMAIN w : n + 1 <= m /\ w[m] = awaited[k]
      <4>1. Waits(k) /\ window[HostOf[target[k].url]] = w
        BY <2>1 DEF PoliteInv, w
      <4>. QED  BY <2>1, <3>1, <4>1, Zenon DEF Waits
    <3>3. m \in Nat /\ m # 1 /\ n <= m - 1
      BY <1>8, <3>1, <3>2
    <3>4. awaited[k] # Head(w)
      BY <1>3, <1>8, <3>2, <3>3 DEF IsInjective
    <3>5. awaited'[k] = awaited[k]
      BY <1>5, <3>4
    <3>. QED  BY <1>7, <3>2, <3>3, <3>5
  <2>2. CASE pc[k] # "asleep"
    BY <1>4, <2>2 DEF Waits
  <2>3. CASE pc[k] = "asleep" /\ HostOf[target[k].url] # h
    <3>1. target[k].url \in Url
      BY <2>3 DEF TypeInv, PlaceInv, Requesting
    <3>2. window'[HostOf[target[k].url]] = window[HostOf[target[k].url]]
      BY <1>2, <2>3, <3>1
    <3>3. awaited'[k] = awaited[k]
      BY <1>5, <2>3
    <3>4. Waits(k)
      BY DEF PoliteInv
    <3>. QED  BY ONLY <1>4, <3>2, <3>3, <3>4, Zenon DEF Waits
  <2>. QED  BY <2>1, <2>2, <2>3
<1>. QED  BY <1>9, <1>10 DEF PoliteInv

(* No host has been sent a request at the start.                           *)
LEMMA PoliteInit == Init => PoliteInv
BY DEF Init, PoliteInv, Waits, IsInjective

(* Every step keeps every host polite.                                     *)
LEMMA PoliteNext == TypeInv /\ PoliteInv /\ [Next]_vars => PoliteInv'
<1> SUFFICES ASSUME TypeInv, PoliteInv, [Next]_vars PROVE PoliteInv'
  OBVIOUS
<1>1. ASSUME NEW j \in Job, JobStep(j) PROVE PoliteInv'
  BY <1>1, VisitPolite, NextMediaPolite, WakePolite, RobotsAnswerPolite,
     OtherPolite DEF JobStep, TaskStep
<1>2. ASSUME NEW h \in Host, Cool(h) \/ CoolUnnoted(h) \/ ForgetRobots(h)
      PROVE  PoliteInv'
  <2>1. CASE ForgetRobots(h) \/ CoolUnnoted(h)
    BY <2>1 DEF ForgetRobots, CoolUnnoted, request, PoliteInv, Waits
  <2>. QED  BY <1>2, <2>1, CoolPolite
<1>3. CASE Restart
  BY <1>3 DEF Restart, PoliteInv, Waits, IsInjective
<1>4. CASE UNCHANGED vars
  BY <1>4 DEF vars, request, PoliteInv, Waits
<1>. QED  BY <1>1, <1>2, <1>3, <1>4, NextCases, Zenon

(* Of the requests to one host that _be_polite noted within                *)
(* POLITENESS_SECONDS no two are of the same job, however the tasks of     *)
(* other jobs interleave with it.  Requests for robots.txt and the hops of *)
(* redirects are not noted.                                                *)
THEOREM NotedRequestsAreSpaced == Spec => []SpacedPerJob
<1>1. PoliteInv => SpacedPerJob
  BY DEF PoliteInv, SpacedPerJob
<1>. QED  BY <1>1, TypeInit, TypeNext, PoliteInit, PoliteNext, PTL DEF Spec

-----------------------------------------------------------------------------
(* Robots files.                                                           *)

(* A step of job j that leaves the robots files alone.                     *)
LEMMA AllowedFrame ==
    ASSUME NEW k, Allowed(k), Same(k), UNCHANGED robots
    PROVE  Allowed(k)'
BY DEF Allowed, Same

(* Going for a page or file, only an allowed one gets further.             *)
LEMMA ApproachAllowed ==
    ASSUME TypeInv, NEW j \in Job, Allowed(j), NEW kind \in {"page", "media"},
           NEW u \in Url, Approach(j, kind, u), UNCHANGED <<robots, clean>>
    PROVE  Allowed(j)'
<1>1. /\ Approached(j, kind, u)
      /\ robots[HostOf[u]] # "missing" /\ pc'[j] \in {"asleep", "get"}
            => u \notin Disallowed
  BY ApproachEffect DEF TypeInv
<1>2. HostOf[u] \in Host
  BY CrawlerAssumption
<1>3. pc'[j] \in {"asleep", "get"} => target'[j].url = u
  BY <1>1 DEF Approached
<1>4. pc'[j] = "get" => at'[j] = u
  BY <1>1 DEF Approached
<1>. QED  BY <1>1, <1>2, <1>3, <1>4 DEF Allowed

(* A page that is visited is requested only if allowed.                    *)
LEMMA VisitAllowed ==
    ASSUME TypeInv, NEW j \in Job, Allowed(j), Visit(j)
    PROVE  Allowed(j)'
<1> DEFINE u == Head(queue[j])[1]
<1>1. u \in Url
  BY QueueHead DEF TypeInv, Visit, Continues
<1>2. \/ UNCHANGED <<pc, request, traffic>>
      \/ Approach(j, "page", u)
  BY DEF Visit
<1>3. UNCHANGED <<robots, clean>> /\ pc[j] = "next"
  BY DEF Visit, Continues
<1>4. CASE UNCHANGED <<pc, request, traffic>>
  BY <1>3, <1>4 DEF request, Allowed
<1>5. CASE Approach(j, "page", u)
  <2>. HIDE DEF u
  <2>. QED  BY <1>1, <1>3, <1>5, ApproachAllowed
<1>. QED  BY <1>2, <1>4, <1>5

(* A file is requested only if allowed.                                    *)
LEMMA NextMediaAllowed ==
    ASSUME TypeInv, NEW j \in Job, Allowed(j), NextMedia(j)
    PROVE  Allowed(j)'
<1> DEFINE u == Head(pending[j])
<1>1. u \in Url
  BY DEF TypeInv, TypeOK, NextMedia
<1>2. \/ UNCHANGED <<pc, request, traffic>>
      \/ Approach(j, "media", u)
  BY DEF NextMedia
<1>3. UNCHANGED <<robots, clean>> /\ pc[j] = "media"
  BY DEF NextMedia
<1>4. CASE UNCHANGED <<pc, request, traffic>>
  BY <1>3, <1>4 DEF request, Allowed
<1>5. CASE Approach(j, "media", u)
  <2>. HIDE DEF u
  <2>. QED  BY <1>1, <1>3, <1>5, ApproachAllowed
<1>. QED  BY <1>2, <1>4, <1>5

(* The answer about a robots file concerns every job.                      *)
LEMMA RobotsAnswerAllowed ==
    ASSUME TypeInv, NEW j \in Job, RobotsAnswer(j), \A k \in Job : Allowed(k)
    PROVE  \A k \in Job : Allowed(k)'
<1> DEFINE u == target[j].url
           h == HostOf[u]
<1>1. pc[j] = "robots" /\ u \in Url /\ h \in Host
      /\ target[j].kind \in {"page", "media"}
  BY RobotsAnswerEffect
<1>2. PICK r \in {"found", "missing"} :
         /\ robots' = [robots EXCEPT ![h] = r]
         /\ clean' = [i \in Job |-> clean[i] /\ r = "found"]
         /\ Approached(j, target[j].kind, u)
         /\ r = "found" /\ pc'[j] \in {"asleep", "get"} => u \notin Disallowed
  BY RobotsAnswerEffect
<1>3. robots \in [Host -> {"unknown", "found", "missing"}]
  BY DEF TypeInv, TypeOK
<1>. HIDE DEF u, h
<1>4. ASSUME NEW k \in Job, clean'[k]
      PROVE  clean[k] /\ r = "found" /\ \A g \in Host : robots'[g] # "missing"
  <2>1. clean[k] /\ r = "found"
    BY <1>2, <1>4, Zenon
  <2>2. \A g \in Host : robots[g] # "missing"
    BY <2>1 DEF Allowed
  <2>. QED  BY <1>1, <1>2, <1>3, <2>1, <2>2
<1>5. ASSUME NEW k \in Job \ {j} PROVE Allowed(k)'
  <2>1. pc'[k] = pc[k] /\ target'[k] = target[k] /\ at'[k] = at[k] /\ hops' = hops
    BY <1>2 DEF Approached
  <2>. QED  BY <1>4, <2>1 DEF Allowed
<1>6. Allowed(j)'
  <2>1. pc'[j] \in {"asleep", "get"} => target'[j].url = u
    BY <1>2 DEF Approached
  <2>2. pc'[j] = "get" => at'[j] = u
    BY <1>2 DEF Approached
  <2>. QED  BY <1>2, <1>4, <2>1, <2>2 DEF Allowed
<1>. QED  BY <1>5, <1>6

(* A task that slept requests what it was going for.                       *)
LEMMA WakeAllowed ==
    ASSUME TypeInv, NEW j \in Job, Allowed(j), Wake(j)
    PROVE  Allowed(j)'
<1>1. /\ pc[j] = "asleep" /\ pc' = [pc EXCEPT ![j] = "get"]
      /\ at' = [at EXCEPT ![j] = target[j].url]
      /\ UNCHANGED <<target, hops, robots, clean>>
  BY DEF Wake, Send, Goto
<1>2. pc'[j] = "get" /\ at'[j] = target[j].url
  BY <1>1 DEF TypeInv, TypeOK
<1>. QED  BY <1>1, <1>2 DEF Allowed

(* A redirect does not change what the task went for.                      *)
LEMMA HopAllowed ==
    ASSUME TypeInv, NEW j \in Job, Allowed(j), Hop(j)
    PROVE  Allowed(j)'
<1>1. /\ pc[j] = "get" /\ hops'[j] # 0
      /\ UNCHANGED <<pc, target, robots, clean>>
  BY DEF Hop, TypeInv, TypeOK
<1>. QED  BY <1>1 DEF Allowed

(* The other steps request nothing new.                                    *)
LEMMA OtherAllowed ==
    ASSUME TypeInv, NEW j \in Job, Allowed(j),
           \/ Create(j) \/ CreateUnsaved(j) \/ Begin(j) \/ BeginUnsaved(j)
           \/ Skip(j) \/ Complete(j) \/ FetchFails(j)
           \/ Unreadable(j) \/ Arrive(j) \/ IndexMedia(j) \/ PageDone(j)
           \/ Collapse(j)
    PROVE  Allowed(j)'
<1>1. /\ pc \in [Job -> Place] /\ clean \in [Job -> BOOLEAN]
      /\ status[j] = "none" => pc[j] = "none"
  BY DEF TypeInv, TypeOK, PlaceInv, Place
<1>2. robots' = robots
  BY DEF Create, CreateUnsaved, Begin, BeginUnsaved, Skip, Complete,
         FetchFails, Unreadable, Arrive, IndexMedia, PageDone, Collapse, End
<1>3. pc'[j] \notin {"asleep", "get"}
  BY <1>1 DEF Create, CreateUnsaved, Begin, BeginUnsaved, Skip, Continues,
         Complete, FetchFails, Unreadable, Arrive, IndexMedia, PageDone,
         Collapse, End, Goto, Back
<1>4. clean'[j] => clean[j]
  BY <1>1 DEF Create, CreateUnsaved, Begin, BeginUnsaved, Skip, Spoil,
         Complete, FetchFails, Unreadable, Arrive, IndexMedia, PageDone,
         Collapse, End
<1>. QED  BY <1>2, <1>3, <1>4 DEF Allowed

(* Nothing is requested at the start.                                      *)
LEMMA AllowedInit == Init => \A j \in Job : Allowed(j)
BY DEF Init, Allowed

(* Every step keeps what is requested allowed.                             *)
LEMMA AllowedNext ==
    TypeInv /\ (\A j \in Job : Allowed(j)) /\ [Next]_vars
        => \A j \in Job : Allowed(j)'
<1> SUFFICES ASSUME TypeInv, \A j \in Job : Allowed(j), [Next]_vars
             PROVE  \A j \in Job : Allowed(j)'
  OBVIOUS
<1>1. ASSUME NEW j \in Job, JobStep(j) PROVE \A k \in Job : Allowed(k)'
  <2>1. CASE RobotsAnswer(j)
    BY <2>1, RobotsAnswerAllowed
  <2>2. ASSUME ~ RobotsAnswer(j) PROVE Allowed(j)'
    BY <1>1, <2>2, VisitAllowed, NextMediaAllowed, WakeAllowed, HopAllowed,
       OtherAllowed DEF JobStep, TaskStep
  <2>3. ASSUME ~ RobotsAnswer(j), NEW k \in Job \ {j} PROVE Allowed(k)'
    <3>1. Same(k)
      BY <1>1, StepFits DEF Fits
    <3>2. UNCHANGED robots
      BY <1>1, <2>3 DEF JobStep, TaskStep, Create, CreateUnsaved, Begin,
         BeginUnsaved, Skip, Visit, Complete, Wake, Hop, FetchFails,
         Unreadable, Arrive, IndexMedia, NextMedia, PageDone, Collapse, End
    <3>. QED  BY <3>1, <3>2, AllowedFrame
  <2>. QED  BY <2>1, <2>2, <2>3
<1>2. ASSUME NEW h \in Host, Cool(h) \/ CoolUnnoted(h) \/ ForgetRobots(h)
      PROVE  \A k \in Job : Allowed(k)'
  <2>1. CASE Cool(h) \/ CoolUnnoted(h)
    BY <2>1, CoolFits, CoolUnnotedFits, AllowedFrame DEF Cool, CoolUnnoted
  <2>2. CASE ForgetRobots(h)
    BY <2>2 DEF ForgetRobots, request, Allowed, TypeInv, TypeOK
  <2>. QED  BY <1>2, <2>1, <2>2
<1>3. ASSUME Restart PROVE \A k \in Job : Allowed(k)'
  BY <1>3 DEF Restart, Allowed
<1>4. ASSUME UNCHANGED vars PROVE \A k \in Job : Allowed(k)'
  BY <1>4 DEF vars, request, Allowed
<1>. QED  BY <1>1, <1>2, <1>3, <1>4, NextCases, Zenon

(* While no robots file has failed to arrive, no task asks for what the    *)
(* robots file of its host disallows, although every task believes what    *)
(* another has found out.                                                  *)
THEOREM RobotsHonoured == Spec => []RobotsKept
<1> DEFINE I == TypeInv /\ \A j \in Job : Allowed(j)
<1>1. I => RobotsKept
  BY DEF Allowed, RobotsKept
<1>2. Init => I
  BY TypeInit, AllowedInit
<1>3. I /\ [Next]_vars => I'
  BY TypeNext, AllowedNext
<1>. HIDE DEF I
<1>. QED  BY <1>1, <1>2, <1>3, PTL DEF Spec

-----------------------------------------------------------------------------
(* The end of a task.                                                      *)

(* A walk that ends without a restart ends with a report or a failure.     *)
LEMMA ReportStep ==
    ASSUME TypeInv, [Next]_vars, restarts' = restarts, NEW j \in Job,
           Walking(j), pc'[j] = "none"
    PROVE  status'[j] \in {"completed", "failed"}
<1>1. pc \in [Job -> Place] /\ status \in [Job -> Status] /\ restarts \in Nat
  BY DEF TypeInv, TypeOK, Place
<1>2. ASSUME NEW i \in Job, JobStep(i)
      PROVE  status'[j] \in {"completed", "failed"}
  <2>1. CASE i # j
    <3>1. Same(j)
      BY <1>2, <2>1, StepFits DEF Fits
    <3>. QED  BY <3>1 DEF Same, Walking
  <2>2. CASE i = j
    <3>1. CASE Complete(j) \/ Collapse(j)
      BY <1>1, <3>1 DEF Complete, Collapse, End, SetStatus
    <3>2. CASE Create(j) \/ CreateUnsaved(j) \/ Begin(j) \/ BeginUnsaved(j)
      <4>1. pc[j] \in {"none", "start"}
        BY <3>2 DEF Create, CreateUnsaved, Begin, BeginUnsaved, TypeInv, PlaceInv
      <4>. QED  BY <4>1 DEF Walking
    <3>3. CASE Visit(j) \/ NextMedia(j) \/ RobotsAnswer(j)
      <4>1. /\ Visit(j) => pc'[j] # "none"
            /\ NextMedia(j) => pc'[j] # "none"
        <5>1. CASE pc' = pc
          BY <5>1 DEF Walking
        <5>2. ASSUME NEW kind \in {"page", "media"}, NEW u \in Url,
                     Approach(j, kind, u)
              PROVE  pc'[j] # "none"
          <6>1. Approached(j, kind, u)
            BY <5>2, ApproachEffect DEF TypeInv
          <6>. QED  BY <6>1 DEF Approached
        <5>3. Visit(j) /\ pc' # pc => Approach(j, "page", Head(queue[j])[1])
          BY DEF Visit
        <5>4. NextMedia(j) /\ pc' # pc => Approach(j, "media", Head(pending[j]))
          BY DEF NextMedia
        <5>5. Visit(j) => Head(queue[j])[1] \in Url
          BY QueueHead DEF TypeInv, Visit, Continues
        <5>6. NextMedia(j) => Head(pending[j]) \in Url
          BY DEF TypeInv, TypeOK, NextMedia
        <5>. QED  BY <5>1, <5>2, <5>3, <5>4, <5>5, <5>6
      <4>2. RobotsAnswer(j) => pc'[j] # "none"
        BY RobotsAnswerEffect DEF Approached
      <4>. QED  BY <3>3, <4>1, <4>2
    <3>4. CASE \/ Skip(j) \/ Wake(j) \/ Hop(j) \/ FetchFails(j) \/ Unreadable(j)
               \/ Arrive(j) \/ IndexMedia(j) \/ PageDone(j)
      BY <1>1, <3>4 DEF Skip, Continues, Wake, Send, Hop, FetchFails,
         Unreadable, Arrive, IndexMedia, PageDone, Goto, Back
    <3>. QED  BY <1>2, <2>2, <3>1, <3>2, <3>3, <3>4 DEF JobStep, TaskStep
  <2>. QED  BY <2>1, <2>2
<1>3. ASSUME NEW h \in Host, Cool(h) \/ CoolUnnoted(h) \/ ForgetRobots(h)
      PROVE  FALSE
  BY <1>3 DEF Cool, CoolUnnoted, ForgetRobots, Walking
<1>4. ASSUME Restart PROVE FALSE
  BY <1>1, <1>4 DEF Restart
<1>5. ASSUME UNCHANGED vars PROVE FALSE
  BY <1>5 DEF vars, Walking
<1>. QED  BY <1>2, <1>3, <1>4, <1>5, NextCases, Zenon

(* A task that was walking ends only with the report that its job is       *)
(* completed or has failed, unless the process dies.                       *)
THEOREM WalkEndsWithReport == Spec => EndsWithReport
<1>1. TypeInv /\ [Next]_vars =>
         [restarts' = restarts =>
            \A j \in Job :
               pc[j] \notin {"none", "start"} /\ pc'[j] = "none"
                  => status'[j] \in {"completed", "failed"}]_vars
  BY ReportStep DEF Walking
<1>. QED  BY <1>1, TypeInit, TypeNext, PTL DEF Spec, EndsWithReport

-----------------------------------------------------------------------------
(* The walk: what pages link to.                                           *)

(* More links reach more pages.                                            *)
LEMMA ReachGrows ==
    ASSUME NEW m \in Nat, NEW n \in Nat, m <= n
    PROVE  Reach[m] \subseteq Reach[n] /\ ReachPolite[m] \subseteq ReachPolite[n]
<1>1. /\ \A i \in Nat : Reach[i] \subseteq Reach[i + 1]
      /\ \A i \in Nat : ReachPolite[i] \subseteq ReachPolite[i + 1]
  BY ReachSteps, ReachPoliteSteps
<1>. QED  BY <1>1, Growing

(* More pages link to more pages.                                          *)
LEMMA LinkedGrows ==
    ASSUME NEW S, NEW T, S \subseteq T
    PROVE  LinkedFrom(S) \subseteq LinkedFrom(T)
BY DEF LinkedFrom

(* What a page within n links links to is within n + 1.                    *)
LEMMA LinkedDeeper ==
    ASSUME NEW u, NEW n \in Nat
    PROVE  /\ u \in Reach[n] => LinkedFrom({u}) \subseteq Reach[n + 1]
           /\ u \in ReachPolite[n] \ Disallowed
                 => LinkedFrom({u}) \subseteq ReachPolite[n + 1]
<1>1. u \in Reach[n] => LinkedFrom({u}) \subseteq LinkedFrom(Reach[n])
  BY LinkedGrows
<1>2. u \in ReachPolite[n] \ Disallowed
         => LinkedFrom({u}) \subseteq LinkedFrom(ReachPolite[n] \ Disallowed)
  BY LinkedGrows
<1>. QED  BY <1>1, <1>2, ReachSteps, ReachPoliteSteps

(* What the pages of S link to, one of them links to.                      *)
LEMMA LinkedFromOne ==
    ASSUME NEW S, NEW v \in LinkedFrom(S \ Disallowed)
    PROVE  \E u \in S : v \in LinkedFrom({u} \ Disallowed)
<1>1. PICK u \in (S \ Disallowed) \ Blocked :
         LET end == Landing[MaxRedirects][u] IN
         end # None /\ v \in ToSet(Links[end])
  BY DEF LinkedFrom
<1>2. u \in S /\ u \in ({u} \ Disallowed) \ Blocked /\ v \in Scope \ MediaFile
  BY <1>1 DEF LinkedFrom
<1>3. v \in LinkedFrom({u} \ Disallowed)
  BY <1>1, <1>2, Zenon DEF LinkedFrom
<1>. QED  BY <1>2, <1>3

(* Only links within the scope are followed.                               *)
LEMMA LinkedInScope ==
    ASSUME NEW S
    PROVE  LinkedFrom(S) \subseteq Scope
BY DEF LinkedFrom

(* Nothing is expected of a page that is not requested.                    *)
LEMMA NothingLinked ==
    ASSUME NEW u \in Blocked \cup Disallowed
    PROVE  LinkedFrom({u} \ Disallowed) = {}
BY DEF LinkedFrom

(* What a page that has landed links to.                                   *)
LEMMA LinkedFromLanded ==
    ASSUME NEW u, u \notin Blocked, NEW end, end # None,
           Landing[MaxRedirects][u] = end
    PROVE  LinkedFrom({u}) = (Scope \ MediaFile) \cap ToSet(Links[end])
BY DEF LinkedFrom

-----------------------------------------------------------------------------
(* The queue.                                                              *)

(* The items of a sequence, and those of its tail.                         *)
LEMMA TailItems ==
    ASSUME NEW A, NEW q \in Seq(A), q # <<>>
    PROVE  /\ Head(q) = q[1] /\ 1 \in DOMAIN q /\ DOMAIN q \subseteq Nat
           /\ \A n \in DOMAIN q : \/ n = 1
                                  \/ /\ n - 1 \in DOMAIN Tail(q)
                                     /\ q[n] = Tail(q)[n - 1]
           /\ \A n \in DOMAIN Tail(q) : /\ n \in Nat /\ n + 1 \in DOMAIN q
                                        /\ Tail(q)[n] = q[n + 1]
           /\ \A n \in DOMAIN q : 1 <= n
<1>1. /\ DOMAIN q = 1 .. Len(q) /\ Len(q) \in Nat /\ Len(q) # 0
      /\ DOMAIN Tail(q) = 1 .. (Len(q) - 1) /\ Head(q) = q[1]
  OBVIOUS
<1>2. \A n \in 1 .. (Len(q) - 1) : Tail(q)[n] = q[n + 1]
  OBVIOUS
<1>3. ASSUME NEW n \in DOMAIN q, n # 1
      PROVE  n - 1 \in DOMAIN Tail(q) /\ q[n] = Tail(q)[n - 1]
  <2>1. n - 1 \in 1 .. (Len(q) - 1) /\ (n - 1) + 1 = n
    BY <1>1, <1>3
  <2>. QED  BY <1>1, <1>2, <2>1
<1>4. \A n \in DOMAIN Tail(q) : n \in Nat /\ n + 1 \in DOMAIN q
  BY <1>1
<1>5. \A n \in DOMAIN q : 1 <= n
  BY <1>1
<1>6. 1 \in DOMAIN q /\ DOMAIN q \subseteq Nat
  BY <1>1
<1>. QED  BY <1>1, <1>2, <1>3, <1>4, <1>5, <1>6

(* A queue: its pages, each with its level.                                *)
IsQueue(q) == q \in Seq(Url \X Nat)

(* What the queue t and the page h have of a queue q that is h and then t. *)
WithoutHead(q, h, t) ==
    /\ Queued(q) = {h[1]} \cup Queued(t)
    /\ \A d : QueuedAt(q, d) \subseteq {h[1]} \cup QueuedAt(t, d)
    /\ \A R : InReach(q, R) => /\ InReach(t, R)
                               /\ h[1] \in Scope => h[1] \in R[h[2]]

(* The queue without its first page.                                       *)
LEMMA TailQueue ==
    ASSUME NEW q, IsQueue(q), q # <<>>,
           NEW h, h = Head(q), NEW t, t = Tail(q)
    PROVE  WithoutHead(q, h, t)
<1>1. /\ h = q[1] /\ 1 \in DOMAIN q
      /\ \A n \in DOMAIN q : n = 1 \/ (n - 1 \in DOMAIN t /\ q[n] = t[n - 1])
      /\ \A n \in DOMAIN t : n + 1 \in DOMAIN q /\ t[n] = q[n + 1]
  BY TailItems DEF IsQueue
<1>2. Queued(q) \subseteq {h[1]} \cup Queued(t)
  <2> SUFFICES ASSUME NEW n \in DOMAIN q PROVE q[n][1] \in {h[1]} \cup Queued(t)
    BY DEF Queued
  <2>1. CASE n = 1
    BY <1>1, <2>1
  <2>2. CASE n - 1 \in DOMAIN t /\ q[n] = t[n - 1]
    BY <2>2 DEF Queued
  <2>. QED  BY <1>1, <2>1, <2>2
<1>3. h[1] \in Queued(q)
  BY <1>1 DEF Queued
<1>4. Queued(t) \subseteq Queued(q)
  <2> SUFFICES ASSUME NEW n \in DOMAIN t PROVE t[n][1] \in Queued(q)
    BY DEF Queued
  <2>1. n + 1 \in DOMAIN q /\ t[n] = q[n + 1]
    BY <1>1
  <2>. QED  BY <2>1 DEF Queued
<1>5. ASSUME NEW d PROVE QueuedAt(q, d) \subseteq {h[1]} \cup QueuedAt(t, d)
  <2> SUFFICES ASSUME NEW n \in DOMAIN q, q[n][2] = d
               PROVE  q[n][1] \in {h[1]} \cup QueuedAt(t, d)
    BY DEF QueuedAt
  <2>1. CASE n = 1
    BY <1>1, <2>1
  <2>2. CASE n - 1 \in DOMAIN t /\ q[n] = t[n - 1]
    BY <2>2 DEF QueuedAt
  <2>. QED  BY <1>1, <2>1, <2>2
<1>6. ASSUME NEW R, InReach(q, R)
      PROVE  InReach(t, R) /\ (h[1] \in Scope => h[1] \in R[h[2]])
  <2>1. \A n \in DOMAIN q : q[n][1] \in Scope => q[n][1] \in R[q[n][2]]
    BY <1>6, Zenon DEF InReach
  <2>2. \A n \in DOMAIN t : t[n][1] \in Scope => t[n][1] \in R[t[n][2]]
    BY <1>1, <2>1
  <2>. QED  BY <1>1, <2>1, <2>2 DEF InReach
<1>. QED  BY <1>2, <1>3, <1>4, <1>5, <1>6 DEF WithoutHead

(* The first page of the queue is at the level of the walk; or at the next *)
(* one, and then all are.                                                  *)
LEMMA TailLevelled ==
    ASSUME NEW q, IsQueue(q), q # <<>>, NEW d \in Nat, Levelled(q, d),
           NEW h, h = Head(q), NEW t, t = Tail(q)
    PROVE  /\ Levelled(t, d) /\ Levelled(t, h[2])
           /\ h[2] \in {d, d + 1}
           /\ h[2] = d + 1 => QueuedAt(q, d) = {} /\ Queued(q) = QueuedAt(q, d + 1)
<1>1. /\ h = q[1] /\ 1 \in DOMAIN q
      /\ \A n \in DOMAIN t : /\ n \in Nat /\ n + 1 \in DOMAIN q
                             /\ t[n] = q[n + 1]
      /\ \A n \in DOMAIN q : 1 <= n
  BY TailItems DEF IsQueue
<1>2. \A n \in DOMAIN q : /\ q[n][2] \in {d, d + 1}
                          /\ q[1][2] <= q[n][2]
                          /\ \A m \in DOMAIN q : n <= m => q[n][2] <= q[m][2]
  BY <1>1, Zenon DEF Levelled
<1>3. h[2] \in {d, d + 1}
  BY <1>1, <1>2
<1>4. \A n, m \in DOMAIN t : n <= m => t[n][2] <= t[m][2]
  <2> SUFFICES ASSUME NEW n \in DOMAIN t, NEW m \in DOMAIN t, n <= m
               PROVE  q[n + 1][2] <= q[m + 1][2]
    BY <1>1
  <2>1. n + 1 <= m + 1
    BY <1>1
  <2>. QED  BY <1>1, <1>2, <2>1
<1>5. Levelled(t, d)
  BY <1>1, <1>2, <1>4 DEF Levelled
<1>6. h[2] = d + 1 => \A n \in DOMAIN q : q[n][2] = d + 1
  BY <1>1, <1>2
<1>7. Levelled(t, h[2])
  <2>1. CASE h[2] = d
    BY <1>5, <2>1
  <2>2. CASE h[2] = d + 1
    <3>1. \A n \in DOMAIN t : t[n][2] = h[2]
      BY <1>1, <1>6, <2>2
    <3>. QED  BY <1>4, <3>1 DEF Levelled
  <2>. QED  BY <1>3, <2>1, <2>2
<1>8. h[2] = d + 1 => QueuedAt(q, d) = {} /\ Queued(q) = QueuedAt(q, d + 1)
  BY <1>6 DEF Queued, QueuedAt
<1>. QED  BY <1>3, <1>5, <1>7, <1>8

(* The items of a concatenation.                                           *)
LEMMA ConcatItems ==
    ASSUME NEW A, NEW s \in Seq(A), NEW t \in Seq(A), NEW r, r = s \o t
    PROVE  /\ \A n \in DOMAIN s : n \in DOMAIN r /\ r[n] = s[n]
           /\ \A n \in DOMAIN t : /\ n + Len(s) \in DOMAIN r
                                  /\ r[n + Len(s)] = t[n]
           /\ \A n \in DOMAIN r :
                 \/ n \in DOMAIN s /\ r[n] = s[n]
                 \/ /\ n > Len(s) /\ n - Len(s) \in DOMAIN t
                    /\ r[n] = t[n - Len(s)]
           /\ \A n \in DOMAIN s : n <= Len(s)
           /\ Len(s) \in Nat /\ DOMAIN s \subseteq Nat /\ DOMAIN r \subseteq Nat
OBVIOUS

(* What a queue r has of q, when r is q and the pages of s, a level deeper. *)
Extended(r, q, s, d) ==
    /\ Queued(r) = Queued(q) \cup ToSet(s)
    /\ QueuedAt(q, d) \subseteq QueuedAt(r, d)
    /\ Levelled(q, d) => Levelled(r, d)
    /\ \A R : InReach(q, R) /\ ToSet(s) \subseteq R[d + 1] => InReach(r, R)

(* The queue with the pages of s at the end, a level deeper.               *)
LEMMA ConcatQueue ==
    ASSUME NEW q, IsQueue(q), NEW s \in Seq(Url), NEW d \in Nat,
           NEW r, r = q \o AtDepth(s, d + 1)
    PROVE  Extended(r, q, s, d)
<1> DEFINE t == AtDepth(s, d + 1)
<1>1. /\ t \in Seq(Url \X Nat) /\ DOMAIN t = DOMAIN s
      /\ \A n \in DOMAIN t : t[n][1] = s[n] /\ t[n][2] = d + 1
  <2>1. DOMAIN s = 1 .. Len(s) /\ Len(s) \in Nat /\ \A n \in DOMAIN s : s[n] \in Url
    OBVIOUS
  <2>2. t = [n \in DOMAIN s |-> <<s[n], d + 1>>]
    BY DEF AtDepth
  <2>. HIDE DEF t
  <2>3. DOMAIN t = DOMAIN s /\ \A n \in DOMAIN t : t[n] = <<s[n], d + 1>>
    BY <2>2
  <2>4. \A n \in 1 .. Len(s) : <<s[n], d + 1>> \in Url \X Nat
    BY <2>1
  <2>5. t \in Seq(Url \X Nat)
    BY <2>1, <2>2, <2>4
  <2>. QED  BY <2>3, <2>5
<1>. HIDE DEF t
<1>2. /\ \A n \in DOMAIN q : n \in DOMAIN r /\ r[n] = q[n]
      /\ \A n \in DOMAIN t : n + Len(q) \in DOMAIN r /\ r[n + Len(q)] = t[n]
      /\ \A n \in DOMAIN r : \/ n \in DOMAIN q /\ r[n] = q[n]
                             \/ /\ n > Len(q) /\ n - Len(q) \in DOMAIN t
                                /\ r[n] = t[n - Len(q)]
      /\ \A n \in DOMAIN q : n <= Len(q)
      /\ Len(q) \in Nat /\ DOMAIN q \subseteq Nat /\ DOMAIN r \subseteq Nat
  <2>1. r = q \o t
    BY DEF t
  <2>. QED  BY <1>1, <2>1, ConcatItems DEF IsQueue
<1>3. ToSet(s) = {t[n][1] : n \in DOMAIN t}
  BY <1>1 DEF ToSet
<1>4. Queued(r) \subseteq Queued(q) \cup ToSet(s)
  <2> SUFFICES ASSUME NEW n \in DOMAIN r
               PROVE  r[n][1] \in Queued(q) \cup ToSet(s)
    BY DEF Queued
  <2>1. CASE n \in DOMAIN q /\ r[n] = q[n]
    BY <2>1 DEF Queued
  <2>2. CASE n - Len(q) \in DOMAIN t /\ r[n] = t[n - Len(q)]
    BY <1>3, <2>2
  <2>. QED  BY <1>2, <2>1, <2>2
<1>5. Queued(q) \subseteq Queued(r)
  <2> SUFFICES ASSUME NEW n \in DOMAIN q PROVE q[n][1] \in Queued(r)
    BY DEF Queued
  <2>1. n \in DOMAIN r /\ r[n] = q[n]
    BY <1>2
  <2>. QED  BY <2>1 DEF Queued
<1>6. ToSet(s) \subseteq Queued(r)
  <2> SUFFICES ASSUME NEW n \in DOMAIN t PROVE t[n][1] \in Queued(r)
    BY <1>3
  <2>1. n + Len(q) \in DOMAIN r /\ r[n + Len(q)] = t[n]
    BY <1>2
  <2>. QED  BY <2>1 DEF Queued
<1>7. QueuedAt(q, d) \subseteq QueuedAt(r, d)
  BY <1>2 DEF QueuedAt
<1>8. ASSUME Levelled(q, d) PROVE Levelled(r, d)
  <2>1. \A n \in DOMAIN q : /\ q[n][2] \in {d, d + 1}
                            /\ \A m \in DOMAIN q : n <= m => q[n][2] <= q[m][2]
    BY <1>8, Zenon DEF Levelled
  <2>2. ASSUME NEW n \in DOMAIN r PROVE r[n][2] \in {d, d + 1}
    BY <1>1, <1>2, <2>1
  <2>3. ASSUME NEW n \in DOMAIN r, NEW m \in DOMAIN r, n <= m
        PROVE  r[n][2] <= r[m][2]
    <3>1. CASE n \in DOMAIN q /\ r[n] = q[n] /\ m \in DOMAIN q /\ r[m] = q[m]
      BY <2>1, <2>3, <3>1
    <3>2. CASE m - Len(q) \in DOMAIN t /\ r[m] = t[m - Len(q)]
      <4>1. r[m][2] = d + 1
        BY <1>1, <3>2
      <4>2. r[n][2] \in {d, d + 1}
        BY <2>2
      <4>. QED  BY <4>1, <4>2
    <3>3. CASE n > Len(q) /\ m \in DOMAIN q
      BY <1>2, <2>3, <3>3
    <3>. QED  BY <1>2, <3>1, <3>2, <3>3
  <2>. QED  BY <2>2, <2>3 DEF Levelled
<1>9. ASSUME NEW R, InReach(q, R), ToSet(s) \subseteq R[d + 1]
      PROVE  InReach(r, R)
  <2> SUFFICES ASSUME NEW n \in DOMAIN r, r[n][1] \in Scope
               PROVE  r[n][1] \in R[r[n][2]]
    BY DEF InReach
  <2>1. CASE n \in DOMAIN q /\ r[n] = q[n]
    BY <1>9, <2>1 DEF InReach
  <2>2. CASE n - Len(q) \in DOMAIN t /\ r[n] = t[n - Len(q)]
    BY <1>1, <1>3, <1>9, <2>2
  <2>. QED  BY <1>2, <2>1, <2>2
<1>. QED  BY <1>4, <1>5, <1>6, <1>7, <1>8, <1>9 DEF Extended

-----------------------------------------------------------------------------
(* The walk: its steps.                                                    *)

(* The walk of a job is as it was when another one steps.                  *)
LEMMA WalkFrame ==
    ASSUME NEW k, WalkInv(k), Same(k)
    PROVE  WalkInv(k)'
<1> USE DEF Same
<1>1. InHand(k)' <=> InHand(k)
  BY DEF InHand
<1>2. Walking(k)' <=> Walking(k)
  BY DEF Walking
<1>3. WithinReach(k)'
  BY <1>1 DEF WalkInv, WithinReach
<1>4. Walking(k)' => Levelled(queue'[k], depth'[k])
  BY <1>2 DEF WalkInv
<1>5. Walking(k)' /\ clean'[k] => Exhaustive(k)'
  BY <1>1, <1>2 DEF WalkInv, Exhaustive
<1>6. InHand(k)' => target'[k].url \in visited'[k]
  BY <1>1 DEF WalkInv
<1>7. status'[k] = "completed" /\ clean'[k] /\ pages'[k] < MaxPages[k]
          => visited'[k] = ReachPolite[MaxDepth[k]]
  BY DEF WalkInv
<1>. QED  BY <1>3, <1>4, <1>5, <1>6, <1>7, Zenon DEF WalkInv

(* A step that visits and finds no page, and loses the page in hand only   *)
(* if nothing is expected of it.                                           *)
Steady(j) ==
    /\ queue'[j] = queue[j] /\ visited'[j] = visited[j] /\ depth'[j] = depth[j]
    /\ status'[j] # "completed"
    /\ Walking(j)' => Walking(j)
    /\ clean'[j] => clean[j]
    /\ InHand(j)' => InHand(j) /\ target'[j] = target[j]
    /\ InHand(j)' /\ pc'[j] = "get" =>
          Landing[MaxRedirects][target[j].url]
             = Landing[MaxRedirects - hops'[j]][at'[j]]
    /\ InHand(j) /\ ~ InHand(j)' /\ Walking(j)' /\ clean'[j]
          => target[j].url \in Disallowed

(* A step that leaves what is queued and visited alone keeps the walk.     *)
LEMMA SteadyWalk ==
    ASSUME NEW j \in Job, WalkInv(j), Steady(j)
    PROVE  WalkInv(j)'
<1>1. WithinReach(j)'
  BY DEF Steady, WalkInv, WithinReach
<1>2. Walking(j)' => Levelled(queue'[j], depth'[j])
  BY DEF Steady, WalkInv
<1>3. ASSUME Walking(j)', clean'[j] PROVE Exhaustive(j)'
  <2>1. Exhaustive(j)
    BY <1>3 DEF Steady, WalkInv
  <2>2. /\ visited'[j] \subseteq ReachPolite[depth'[j]]
        /\ ReachPolite[depth'[j]]
              \subseteq visited'[j] \cup QueuedAt(queue'[j], depth'[j])
        /\ InReach(queue'[j], ReachPolite)
    BY <2>1 DEF Exhaustive, Steady
  <2>3. ASSUME depth'[j] < MaxDepth[j], NEW u \in visited'[j]
        PROVE  \/ LinkedFrom({u} \ Disallowed)
                     \subseteq visited'[j] \cup Queued(queue'[j])
               \/ InHand(j)' /\ u = target'[j].url
    <3>1. \/ LinkedFrom({u} \ Disallowed) \subseteq visited[j] \cup Queued(queue[j])
          \/ InHand(j) /\ u = target[j].url
      BY <2>1, <2>3 DEF Exhaustive, Steady
    <3>2. CASE InHand(j) /\ u = target[j].url /\ ~ InHand(j)'
      <4>1. u \in Disallowed
        BY <1>3, <3>2 DEF Steady
      <4>. QED  BY <4>1, NothingLinked
    <3>. QED  BY <3>1, <3>2 DEF Steady
  <2>. QED  BY <2>2, <2>3, Zenon DEF Exhaustive
<1>4. InHand(j)' => target'[j].url \in visited'[j]
  BY DEF Steady, WalkInv
<1>. QED  BY <1>1, <1>2, <1>3, <1>4 DEF Steady, WalkInv

(* A job that does not walk yet has visited nothing.                       *)
LEMMA BeforeWalkSteady ==
    ASSUME TypeInv, NEW j \in Job, WalkInv(j),
           Create(j) \/ CreateUnsaved(j) \/ BeginUnsaved(j)
    PROVE  Steady(j)
<1>1. /\ pc \in [Job -> Place] /\ status \in [Job -> Status]
      /\ status[j] = "none" => pc[j] = "none"
  BY DEF TypeInv, TypeOK, PlaceInv, Place
<1>2. pc'[j] \in {"none", "start"} /\ status'[j] \in {"queued", "running"}
  BY <1>1 DEF Create, CreateUnsaved, BeginUnsaved, Goto, SetStatus
<1>3. UNCHANGED <<queue, visited, depth, clean>>
  BY DEF Create, CreateUnsaved, BeginUnsaved, walk
<1>. QED  BY <1>2, <1>3 DEF Steady, Walking, InHand, Requesting

(* A walk that collapsed has failed, and promises no more than its reach.  *)
LEMMA CollapseSteady ==
    ASSUME TypeInv, NEW j \in Job, WalkInv(j), Collapse(j)
    PROVE  Steady(j)
<1>1. pc'[j] = "none" /\ status'[j] = "failed"
  BY DEF Collapse, End, Goto, SetStatus, TypeInv, TypeOK
<1>2. UNCHANGED <<queue, visited, depth, clean>>
  BY DEF Collapse, End, walk
<1>. QED  BY <1>1, <1>2 DEF Steady, Walking, InHand, Requesting

(* The page in hand is asked for where it is.                              *)
LEMMA AskSteady ==
    ASSUME TypeInv, NEW j \in Job, WalkInv(j), Wake(j) \/ RobotsAnswer(j)
    PROVE  Steady(j)
<1>1. /\ pc[j] \in Requesting /\ pc[j] # "get" /\ hops[j] = 0
      /\ status[j] = "running"
  <2>1. pc[j] \in {"robots", "asleep"}
    BY DEF Wake, RobotsAnswer
  <2>. QED  BY <2>1 DEF TypeInv, PlaceInv, Walking, Requesting
<1>2. CASE Wake(j)
  <2>1. /\ pc'[j] = "get" /\ at'[j] = target[j].url
        /\ UNCHANGED <<target, hops>>
        /\ UNCHANGED <<status, queue, visited, depth, clean>>
    BY <1>2 DEF Wake, Send, Goto, TypeInv, TypeOK, jobs, walk
  <2>2. MaxRedirects - 0 = MaxRedirects
    BY CrawlerAssumption
  <2>. QED  BY <1>1, <2>1, <2>2 DEF Steady, Walking, InHand, Requesting
<1>3. CASE RobotsAnswer(j)
  <2> DEFINE u == target[j].url
             kind == target[j].kind
  <2>1. PICK r \in {"found", "missing"} :
           /\ clean' = [i \in Job |-> clean[i] /\ r = "found"]
           /\ Approached(j, kind, u)
    BY <1>3, RobotsAnswerEffect
  <2>2. UNCHANGED <<status, queue, visited, depth>>
    BY <1>3 DEF RobotsAnswer, jobs, walk
  <2>3. clean'[j] => clean[j]
    BY <2>1, Zenon
  <2>4. kind \in {"page", "media"} /\ [kind |-> kind, url |-> u] = target[j]
    BY <1>1 DEF TypeInv, TypeOK, PlaceInv
  <2>. HIDE DEF u, kind
  <2>5. hops' = hops /\ (pc'[j] = "get" => at'[j] = u)
    BY <2>1 DEF Approached
  <2>6. pc'[j] \in Requesting => target'[j] = target[j]
    BY <2>1, <2>4 DEF Approached, Requesting
  <2>7. pc'[j] \notin Requesting => u \in Disallowed
    BY <2>1 DEF Approached, Requesting
  <2>8. Walking(j)
    BY <1>1 DEF Walking, Requesting
  <2>9. InHand(j)' => InHand(j) /\ target'[j] = target[j]
    BY <1>1, <2>6 DEF InHand
  <2>10. InHand(j) /\ ~ InHand(j)' => u \in Disallowed
    BY <2>6, <2>7 DEF InHand
  <2>11. InHand(j)' /\ pc'[j] = "get" =>
            Landing[MaxRedirects][u] = Landing[MaxRedirects - hops'[j]][at'[j]]
    <3>1. MaxRedirects - 0 = MaxRedirects
      BY CrawlerAssumption
    <3>. QED  BY <1>1, <2>5, <3>1
  <2>. QED  BY <1>1, <2>2, <2>3, <2>8, <2>9, <2>10, <2>11 DEF Steady, u
<1>. QED  BY <1>2, <1>3

(* A redirect leads where the chain of the first page leads.               *)
LEMMA HopSteady ==
    ASSUME TypeInv, NEW j \in Job, WalkInv(j), Hop(j)
    PROVE  Steady(j)
<1> USE CrawlerAssumption
<1>1. /\ pc[j] = "get" /\ Redirect[at[j]] \notin Blocked \cup {None}
      /\ hops[j] < MaxRedirects
      /\ at'[j] = Redirect[at[j]] /\ hops'[j] = hops[j] + 1
      /\ UNCHANGED <<pc, target, status, queue, visited, depth, clean>>
  BY DEF Hop, TypeInv, TypeOK, jobs, walk
<1>2. at[j] \in Url /\ status[j] = "running"
  BY <1>1 DEF TypeInv, PlaceInv, Walking
<1>3. hops[j] \in 0 .. MaxRedirects
  BY DEF TypeInv, TypeOK
<1>4. Landing[MaxRedirects - hops[j]][at[j]]
         = Landing[(MaxRedirects - hops[j]) - 1][Redirect[at[j]]]
  <2>1. MaxRedirects - hops[j] \in 1 .. MaxRedirects
    BY <1>1, <1>3
  <2>. QED  BY <1>1, <1>2, <2>1, LandingSteps
<1>5. (MaxRedirects - hops[j]) - 1 = MaxRedirects - hops'[j]
  BY <1>1, <1>3
<1>6. InHand(j)' <=> InHand(j)
  BY <1>1 DEF InHand
<1>7. InHand(j) => Landing[MaxRedirects][target[j].url]
                      = Landing[MaxRedirects - hops'[j]][at'[j]]
  BY <1>1, <1>4, <1>5 DEF WalkInv, WithinReach
<1>. QED  BY <1>1, <1>2, <1>6, <1>7 DEF Steady, Walking

(* The page or the media file in hand is done with.                        *)
LEMMA DoneSteady ==
    ASSUME TypeInv, NEW j \in Job, WalkInv(j),
           FetchFails(j) \/ Unreadable(j) \/ IndexMedia(j) \/ PageDone(j)
    PROVE  Steady(j)
<1>1. /\ UNCHANGED <<status, queue, visited, depth>>
      /\ pc'[j] \in {"next", "media"} /\ pc[j] \in {"get", "media"}
  BY DEF FetchFails, Unreadable, IndexMedia, PageDone, jobs, walk, Goto, Back,
         TypeInv, TypeOK
<1>2. status[j] = "running" /\ Walking(j)
  BY <1>1 DEF TypeInv, PlaceInv, Walking
<1>3. (clean'[j] => clean[j]) /\ (InHand(j) => ~ clean'[j])
  BY DEF FetchFails, Unreadable, IndexMedia, PageDone, Spoil, InHand,
         Requesting, TypeInv, TypeOK
<1>4. ~ InHand(j)'
  BY <1>1 DEF InHand, Requesting
<1>. QED  BY <1>1, <1>2, <1>3, <1>4 DEF Steady

(* A file is no page of the walk.                                          *)
LEMMA NextMediaSteady ==
    ASSUME TypeInv, NEW j \in Job, WalkInv(j), NextMedia(j)
    PROVE  Steady(j)
<1> DEFINE u == Head(pending[j])
<1>1. /\ pc[j] = "media"
      /\ UNCHANGED <<status, queue, visited, depth, clean>>
      /\ u \in Url
  BY DEF NextMedia, jobs, TypeInv, TypeOK
<1>2. pc' = pc \/ Approach(j, "media", u)
  BY DEF NextMedia
<1>. HIDE DEF u
<1>3. pc'[j] \in Requesting => target'[j].kind = "media"
  <2>1. CASE pc' = pc
    BY <1>1, <2>1 DEF Requesting
  <2>2. CASE Approach(j, "media", u)
    <3>1. Approached(j, "media", u)
      BY <1>1, <2>2, ApproachEffect DEF TypeInv
    <3>. QED  BY <3>1 DEF Approached, Requesting
  <2>. QED  BY <1>2, <2>1, <2>2
<1>4. status[j] = "running" /\ Walking(j) /\ ~ InHand(j) /\ ~ InHand(j)'
  BY <1>1, <1>3 DEF TypeInv, PlaceInv, Walking, InHand, Requesting
<1>. QED  BY <1>1, <1>4 DEF Steady

(* The seeds are queued.                                                   *)
LEMMA BeginWalk ==
    ASSUME TypeInv, NEW j \in Job, WalkInv(j), Begin(j)
    PROVE  WalkInv(j)'
<1> USE CrawlerAssumption
<1> DEFINE seeds == Among(Seeds, Url \ Blocked)
           q == AtDepth(seeds, 0)
<1>1. /\ pc[j] = "start" /\ pc'[j] = "next" /\ status'[j] = "running"
      /\ queue'[j] = q
      /\ UNCHANGED <<visited, depth>>
  BY DEF Begin, Goto, SetStatus, TypeInv, TypeOK
<1>2. visited[j] = {} /\ depth[j] = 0
  BY <1>1 DEF TypeInv, PlaceInv
<1>3. seeds \in Seq(Url) /\ ToSet(seeds) = ToSet(Seeds) \ Blocked
  BY SeedsTyped
<1>. HIDE DEF seeds
<1>4. /\ DOMAIN q = DOMAIN seeds
      /\ \A n \in DOMAIN q : q[n][1] = seeds[n] /\ q[n][2] = 0
  BY <1>3 DEF AtDepth
<1>. HIDE DEF q
<1>5. \A n \in DOMAIN q : q[n][1] \in ToSet(Seeds) \ Blocked
  BY <1>3, <1>4 DEF ToSet
<1>6. Reach[0] = SeedPages /\ ReachPolite[0] = SeedPages
  BY ReachSteps, ReachPoliteSteps
<1>7. InReach(q, Reach) /\ InReach(q, ReachPolite)
  BY <1>4, <1>5, <1>6 DEF InReach, SeedPages
<1>8. Levelled(q, 0)
  BY <1>4 DEF Levelled
<1>9. ReachPolite[0] \subseteq QueuedAt(q, 0)
  <2>1. ASSUME NEW v \in ToSet(seeds) PROVE v \in QueuedAt(q, 0)
    <3>1. PICK n \in DOMAIN seeds : seeds[n] = v
      BY Zenon DEF ToSet
    <3>2. n \in DOMAIN q /\ q[n][1] = v /\ q[n][2] = 0
      BY <1>4, <3>1, Zenon
    <3>. QED  BY ONLY <3>2 DEF QueuedAt
  <2>2. ToSet(seeds) \subseteq QueuedAt(q, 0)
    BY <2>1
  <2>. QED  BY <1>3, <1>6, <2>2 DEF SeedPages
<1>10. ~ InHand(j)'
  BY <1>1 DEF InHand, Requesting
<1>11. WithinReach(j)'
  BY <1>1, <1>2, <1>7, <1>10 DEF WithinReach
<1>12. Exhaustive(j)'
  BY <1>1, <1>2, <1>7, <1>9 DEF Exhaustive
<1>. QED  BY <1>1, <1>2, <1>8, <1>10, <1>11, <1>12 DEF WalkInv

(* A page that was visited before, or is out of scope, adds nothing.       *)
LEMMA SkipWalk ==
    ASSUME TypeInv, NEW j \in Job, WalkInv(j), Skip(j)
    PROVE  WalkInv(j)'
<1> DEFINE q == queue[j]
           t == Tail(q)
           h == Head(q)
           u == h[1]
           d == depth[j]
<1>1. /\ pc[j] = "next" /\ q # <<>> /\ (u \in visited[j] \/ u \notin Scope)
      /\ queue'[j] = t
      /\ UNCHANGED <<pc, status, visited, depth, clean, target, pages>>
  BY DEF Skip, Continues, jobs, request, TypeInv, TypeOK
<1>2. IsQueue(q) /\ d \in Nat
  BY DEF TypeInv, TypeOK, IsQueue
<1>3. /\ Queued(q) = {u} \cup Queued(t)
      /\ \A c : QueuedAt(q, c) \subseteq {u} \cup QueuedAt(t, c)
      /\ \A R : InReach(q, R) => InReach(t, R)
  <2>1. h = Head(q) /\ t = Tail(q)
    OBVIOUS
  <2>. HIDE DEF h, t, q
  <2>2. q # <<>> /\ IsQueue(q)
    BY <1>1, <1>2
  <2>3. WithoutHead(q, h, t)
    BY <2>1, <2>2, TailQueue
  <2>. QED  BY <2>3 DEF WithoutHead
<1>4. Levelled(q, d) => Levelled(t, d)
  BY <1>1, <1>2, TailLevelled
<1>5. Walking(j) /\ ~ InHand(j) /\ ~ InHand(j)' /\ status[j] = "running"
  BY <1>1 DEF Walking, InHand, Requesting, TypeInv, PlaceInv
<1>6. WithinReach(j) /\ Levelled(q, d)
  BY <1>5 DEF WalkInv
<1>. HIDE DEF u, t
<1>7. WithinReach(j)'
  BY <1>1, <1>3, <1>5, <1>6 DEF WithinReach
<1>8. ASSUME clean[j] PROVE Exhaustive(j)'
  <2>1. Exhaustive(j)
    BY <1>5, <1>8 DEF WalkInv
  <2>2. ReachPolite[d] \subseteq Scope
    BY <1>2, ReachPoliteSteps
  <2>3. ReachPolite[d] \subseteq visited[j] \cup QueuedAt(t, d)
    BY <1>1, <1>3, <2>1, <2>2 DEF Exhaustive
  <2>4. ASSUME d < MaxDepth[j], NEW v \in visited[j]
        PROVE  LinkedFrom({v} \ Disallowed) \subseteq visited[j] \cup Queued(t)
    <3>1. LinkedFrom({v} \ Disallowed) \subseteq visited[j] \cup Queued(q)
      BY <1>5, <2>1, <2>4 DEF Exhaustive
    <3>2. LinkedFrom({v} \ Disallowed) \subseteq Scope
      BY LinkedInScope
    <3>. QED  BY <1>1, <1>3, <3>1, <3>2
  <2>. QED  BY <1>1, <1>3, <2>1, <2>3, <2>4 DEF Exhaustive
<1>. QED  BY <1>1, <1>4, <1>5, <1>6, <1>7, <1>8 DEF WalkInv

(* Before the first page of the next level is taken, the level is done.    *)
LEMMA LevelDone ==
    ASSUME NEW j \in Job, NEW d \in Nat, NEW V, NEW Q,
           ReachPolite[d] = V,
           \A v \in V : LinkedFrom({v} \ Disallowed) \subseteq V \cup Q
    PROVE  ReachPolite[d + 1] \subseteq V \cup Q
<1>1. ReachPolite[d + 1] = V \cup LinkedFrom(V \ Disallowed)
  BY ReachPoliteSteps
<1>2. ASSUME NEW v \in LinkedFrom(V \ Disallowed) PROVE v \in V \cup Q
  <2>1. PICK w \in V : v \in LinkedFrom({w} \ Disallowed)
    BY LinkedFromOne
  <2>. QED  BY <2>1
<1>. QED  BY <1>1, <1>2

(* A visited page is in reach, and is in hand until its links are queued.  *)
LEMMA VisitWalk ==
    ASSUME TypeInv, NEW j \in Job, WalkInv(j), Visit(j)
    PROVE  WalkInv(j)'
<1> USE CrawlerAssumption
<1> DEFINE q == queue[j]
           t == Tail(q)
           h == Head(q)
           u == h[1]
           e == h[2]
           d == depth[j]
           V == visited[j]
<1>1. /\ pc[j] = "next" /\ q # <<>> /\ u \in Scope
      /\ queue'[j] = t /\ visited'[j] = V \cup {u} /\ depth'[j] = e
      /\ UNCHANGED <<status, clean, pages>>
  BY DEF Visit, Continues, jobs, TypeInv, TypeOK
<1>2. IsQueue(q) /\ d \in Nat /\ u \in Url /\ e \in 0 .. MaxDepth[j]
      /\ MaxDepth[j] \in Nat /\ e \in Nat
  <2>1. u \in Url /\ e \in 0 .. MaxDepth[j]
    BY <1>1, QueueHead DEF TypeInv
  <2>2. IsQueue(q) /\ d \in Nat /\ MaxDepth[j] \in Nat
    BY DEF TypeInv, TypeOK, IsQueue
  <2>. HIDE DEF u, e, q, d
  <2>. QED  BY <2>1, <2>2
<1>3. /\ Queued(q) = {u} \cup Queued(t)
      /\ \A c : QueuedAt(q, c) \subseteq {u} \cup QueuedAt(t, c)
      /\ \A R : InReach(q, R) => InReach(t, R) /\ u \in R[e]
  <2>1. h = Head(q) /\ t = Tail(q)
    OBVIOUS
  <2>. HIDE DEF h, t, q
  <2>2. q # <<>> /\ IsQueue(q) /\ u \in Scope
    BY <1>1, <1>2
  <2>3. WithoutHead(q, h, t)
    BY <2>1, <2>2, TailQueue
  <2>. QED  BY <2>2, <2>3 DEF WithoutHead
<1>4. Walking(j) /\ ~ InHand(j) /\ status[j] = "running" /\ hops[j] = 0
  BY <1>1 DEF Walking, InHand, Requesting, TypeInv, PlaceInv
<1>5. WithinReach(j) /\ Levelled(q, d)
  BY <1>4 DEF WalkInv
<1>6. /\ Levelled(t, e) /\ e \in {d, d + 1}
      /\ e = d + 1 => QueuedAt(q, d) = {} /\ Queued(q) = QueuedAt(q, d + 1)
  <2>1. h = Head(q) /\ t = Tail(q)
    OBVIOUS
  <2>. HIDE DEF h, t, q, d
  <2>2. q # <<>> /\ IsQueue(q) /\ d \in Nat /\ Levelled(q, d)
    BY <1>1, <1>2, <1>5
  <2>. QED  BY <2>1, <2>2, TailLevelled, Zenon
<1>7. \/ u \in Blocked /\ UNCHANGED <<pc, request, traffic>>
      \/ u \notin Blocked /\ Approach(j, "page", u)
  BY DEF Visit
<1>. HIDE DEF u, t, e
<1>8. /\ Walking(j)'
      /\ InHand(j)' => target'[j].url = u
      /\ ~ InHand(j)' => u \in Blocked \cup Disallowed
      /\ pc'[j] = "get" => at'[j] = u /\ hops'[j] = 0
  <2>1. CASE u \in Blocked /\ UNCHANGED <<pc, request, traffic>>
    BY <1>1, <2>1 DEF Walking, InHand, Requesting
  <2>2. CASE u \notin Blocked /\ Approach(j, "page", u)
    <3>1. Approached(j, "page", u)
      BY <1>2, <2>2, ApproachEffect DEF TypeInv
    <3>2. hops'[j] = 0
      BY <1>4, <3>1 DEF Approached
    <3>. QED  BY <3>1, <3>2 DEF Approached, Walking, InHand, Requesting
  <2>. QED  BY <1>7, <2>1, <2>2
<1>9. WithinReach(j)'
  <2>1. u \in Reach[e] /\ InReach(t, Reach)
    BY <1>3, <1>5 DEF WithinReach
  <2>2. Reach[e] \subseteq Reach[MaxDepth[j]]
    BY <1>2, ReachGrows
  <2>3. visited'[j] \subseteq Reach[MaxDepth[j]]
    BY <1>1, <1>5, <2>1, <2>2 DEF WithinReach
  <2>4. pc'[j] = "get" /\ InHand(j)' =>
           Landing[MaxRedirects][target'[j].url]
              = Landing[MaxRedirects - hops'[j]][at'[j]]
    <3>1. MaxRedirects - 0 = MaxRedirects
      OBVIOUS
    <3>. QED  BY <1>8, <3>1
  <2>. QED  BY <1>1, <1>8, <2>1, <2>3, <2>4 DEF WithinReach
<1>10. ASSUME clean[j] PROVE Exhaustive(j)'
  <2>1. Exhaustive(j)
    BY <1>4, <1>10 DEF WalkInv
  <2>2. u \in ReachPolite[e] /\ InReach(t, ReachPolite)
    BY <1>3, <2>1 DEF Exhaustive
  <2>3. V \subseteq ReachPolite[d] /\ ReachPolite[d] \subseteq ReachPolite[e]
    BY <1>2, <1>6, <2>1, ReachGrows DEF Exhaustive
  <2>4. d < MaxDepth[j] =>
           \A v \in V : LinkedFrom({v} \ Disallowed) \subseteq V \cup Queued(q)
    BY <1>4, <2>1 DEF Exhaustive
  <2>5. ReachPolite[e] \subseteq V \cup ({u} \cup QueuedAt(t, e))
    <3>1. CASE e = d
      BY <1>3, <2>1, <3>1 DEF Exhaustive
    <3>2. CASE e = d + 1
      <4>1. ReachPolite[d] = V
        BY <1>6, <2>1, <2>3, <3>2 DEF Exhaustive
      <4>2. d < MaxDepth[j]
        BY <1>2, <3>2
      <4>3. ReachPolite[d + 1] \subseteq V \cup Queued(q)
        <5>. HIDE DEF V, q, d
        <5>. QED  BY <1>2, <2>4, <4>1, <4>2, LevelDone
      <4>. QED  BY <1>3, <1>6, <3>2, <4>3
    <3>. QED  BY <1>6, <3>1, <3>2
  <2>6. ASSUME e < MaxDepth[j], NEW v \in V \cup {u}
        PROVE  \/ LinkedFrom({v} \ Disallowed) \subseteq V \cup {u} \cup Queued(t)
               \/ InHand(j)' /\ v = target'[j].url
    <3>1. CASE v \in V
      <4>1. d < MaxDepth[j]
        BY <1>2, <1>6, <2>6
      <4>. QED  BY <1>3, <2>4, <3>1, <4>1
    <3>2. CASE v = u /\ InHand(j)'
      BY <1>8, <3>2
    <3>3. CASE v = u /\ ~ InHand(j)'
      <4>1. LinkedFrom({v} \ Disallowed) = {}
        BY <1>8, <3>3, NothingLinked
      <4>. QED  BY <4>1
    <3>. QED  BY <2>6, <3>1, <3>2, <3>3
  <2>7. visited'[j] \subseteq ReachPolite[e]
    BY <1>1, <2>2, <2>3
  <2>8. ReachPolite[e] \subseteq visited'[j] \cup QueuedAt(t, e)
    BY <1>1, <2>5
  <2>. QED  BY <1>1, <2>2, <2>6, <2>7, <2>8 DEF Exhaustive
<1>. QED  BY <1>1, <1>4, <1>6, <1>8, <1>9, <1>10 DEF WalkInv

(* The walk is complete when its queue is empty.                           *)
LEMMA CompleteWalk ==
    ASSUME TypeInv, NEW j \in Job, WalkInv(j), Complete(j)
    PROVE  WalkInv(j)'
<1> USE CrawlerAssumption
<1> DEFINE d == depth[j]
           V == visited[j]
<1>1. /\ pc[j] = "next" /\ (queue[j] = <<>> \/ pages[j] >= MaxPages[j])
      /\ pc'[j] = "none"
      /\ UNCHANGED <<queue, visited, depth, pages, clean>>
  BY DEF Complete, End, Goto, walk, TypeInv, TypeOK
<1>2. Walking(j) /\ ~ InHand(j) /\ ~ InHand(j)' /\ ~ Walking(j)'
  BY <1>1 DEF Walking, InHand, Requesting
<1>3. WithinReach(j)'
  BY <1>1, <1>2 DEF WalkInv, WithinReach
<1>4. d \in Nat /\ MaxDepth[j] \in Nat /\ d <= MaxDepth[j]
      /\ pages[j] \in Nat /\ MaxPages[j] \in Nat
  BY DEF TypeInv, TypeOK
<1>5. ASSUME clean[j], pages[j] < MaxPages[j]
      PROVE  V = ReachPolite[MaxDepth[j]]
  <2>1. Exhaustive(j) /\ queue[j] = <<>>
    BY <1>1, <1>2, <1>4, <1>5 DEF WalkInv
  <2>2. Queued(queue[j]) = {} /\ QueuedAt(queue[j], d) = {}
    BY <2>1 DEF Queued, QueuedAt
  <2>3. ReachPolite[d] = V
    BY <2>1, <2>2 DEF Exhaustive
  <2>4. CASE d = MaxDepth[j]
    BY <2>3, <2>4
  <2>5. CASE d # MaxDepth[j]
    <3>1. d < MaxDepth[j]
      BY <1>4, <2>5
    <3>2. \A v \in V : LinkedFrom({v} \ Disallowed) \subseteq V
      BY <1>2, <2>1, <2>2, <3>1 DEF Exhaustive
    <3>3. LinkedFrom(V \ Disallowed) \subseteq V
      BY <3>2, LinkedFromOne
    <3>. HIDE DEF d, V
    <3>. QED  BY <1>4, <2>3, <3>3, LastLevel
  <2>. QED  BY <2>4, <2>5
<1>. QED  BY <1>1, <1>2, <1>3, <1>5 DEF WalkInv

(* The links of a page that arrived are queued a level deeper.             *)
LEMMA ArriveWalk ==
    ASSUME TypeInv, NEW j \in Job, WalkInv(j), Allowed(j), Arrive(j)
    PROVE  WalkInv(j)'
<1> USE CrawlerAssumption
<1> DEFINE u == target[j].url
           end == at[j]
           q == queue[j]
           d == depth[j]
           V == visited[j]
           next == IF d < MaxDepth[j] THEN Followed(j, end) ELSE <<>>
           r == q \o AtDepth(next, d + 1)
<1>1. /\ pc[j] = "get" /\ target[j].kind = "page" /\ Redirect[end] = None
      /\ pc'[j] = "media" /\ queue'[j] = r
      /\ UNCHANGED <<status, visited, depth, clean>>
  BY DEF Arrive, Goto, jobs, TypeInv, TypeOK
<1>2. /\ InHand(j) /\ Walking(j) /\ ~ InHand(j)' /\ status[j] = "running"
      /\ end \in Url /\ end # None /\ u \notin Blocked
  BY <1>1 DEF TypeInv, PlaceInv, InHand, Walking, Requesting
<1>3. /\ IsQueue(q) /\ d \in Nat /\ MaxDepth[j] \in Nat
      /\ hops[j] \in 0 .. MaxRedirects
  BY DEF TypeInv, TypeOK, IsQueue
<1>4. Landing[MaxRedirects][u] = end
  <2>1. MaxRedirects - hops[j] \in 0 .. MaxRedirects
    BY <1>3
  <2>2. Landing[MaxRedirects - hops[j]][end] = end
    BY <1>1, <1>2, <2>1, LandingSteps
  <2>. QED  BY <1>1, <1>2, <2>2 DEF WalkInv, WithinReach
<1>5. LinkedFrom({u}) = (Scope \ MediaFile) \cap ToSet(Links[end])
  BY <1>2, <1>4, LinkedFromLanded
<1>6. /\ next \in Seq(Url)
      /\ ToSet(next) = IF d < MaxDepth[j] THEN LinkedFrom({u}) \ V ELSE {}
  <2>1. CASE d < MaxDepth[j]
    <3>1. /\ Followed(j, end) \in Seq(Url)
          /\ ToSet(Followed(j, end)) = (ToSet(Links[end]) \cap (Scope \ V))
                                         \cap (Scope \ MediaFile)
      BY <1>2, FollowedTyped
    <3>. QED  BY <1>5, <2>1, <3>1
  <2>2. CASE ~ (d < MaxDepth[j])
    BY <2>2 DEF ToSet
  <2>. QED  BY <2>1, <2>2
<1>. HIDE DEF next
<1>7. /\ Queued(r) = Queued(q) \cup ToSet(next)
      /\ QueuedAt(q, d) \subseteq QueuedAt(r, d)
      /\ Levelled(q, d) => Levelled(r, d)
      /\ \A R : InReach(q, R) /\ ToSet(next) \subseteq R[d + 1] => InReach(r, R)
  <2>1. r = q \o AtDepth(next, d + 1)
    OBVIOUS
  <2>. HIDE DEF q, d, r
  <2>2. IsQueue(q) /\ next \in Seq(Url) /\ d \in Nat
    BY <1>3, <1>6
  <2>3. Extended(r, q, next, d)
    BY <2>1, <2>2, ConcatQueue
  <2>. QED  BY <2>3 DEF Extended
<1>. HIDE DEF r, u, end
<1>8. WithinReach(j) /\ u \in V /\ Levelled(q, d)
  BY <1>2 DEF WalkInv, u
<1>9. WithinReach(j)'
  <2>1. u \in Reach[d]
    BY <1>2, <1>8 DEF WithinReach, u
  <2>2. LinkedFrom({u}) \subseteq Reach[d + 1]
    BY ONLY <1>3, <2>1, LinkedDeeper
  <2>3. InReach(r, Reach)
    BY <1>6, <1>7, <1>8, <2>2 DEF WithinReach
  <2>. QED  BY <1>1, <1>2, <1>8, <2>3 DEF WithinReach
<1>10. ASSUME clean[j] PROVE Exhaustive(j)'
  <2>1. Exhaustive(j)
    BY <1>2, <1>10 DEF WalkInv
  <2>2. u \notin Disallowed
    BY <1>1, <1>10 DEF Allowed, u
  <2>3. u \in ReachPolite[d] \ Disallowed
    BY <1>8, <2>1, <2>2 DEF Exhaustive
  <2>4. LinkedFrom({u}) \subseteq ReachPolite[d + 1]
    BY ONLY <1>3, <2>3, LinkedDeeper
  <2>5. InReach(r, ReachPolite)
    BY <1>6, <1>7, <2>1, <2>4 DEF Exhaustive
  <2>6. ReachPolite[d] \subseteq V \cup QueuedAt(r, d)
    BY <1>7, <2>1 DEF Exhaustive
  <2>7. ASSUME d < MaxDepth[j], NEW v \in V
        PROVE  LinkedFrom({v} \ Disallowed) \subseteq V \cup Queued(r)
    <3>1. CASE v = u
      <4>1. LinkedFrom({v} \ Disallowed) \subseteq LinkedFrom({u})
        BY <3>1, LinkedGrows
      <4>. QED  BY <1>6, <1>7, <2>7, <4>1
    <3>2. CASE v # u
      <4>1. LinkedFrom({v} \ Disallowed) \subseteq V \cup Queued(q)
        BY <2>1, <2>7, <3>2 DEF Exhaustive, u
      <4>. QED  BY <1>7, <4>1
    <3>. QED  BY <3>1, <3>2
  <2>. QED  BY <1>1, <2>1, <2>5, <2>6, <2>7 DEF Exhaustive
<1>. QED  BY <1>1, <1>2, <1>7, <1>8, <1>9, <1>10 DEF WalkInv

(* There is no walk at the start.                                          *)
LEMMA WalkInit == Init => \A j \in Job : WalkInv(j)
BY DEF Init, WalkInv, WithinReach, InReach, InHand, Walking, Requesting

(* A restart ends every walk.                                              *)
LEMMA RestartWalk ==
    ASSUME Restart, NEW j \in Job
    PROVE  WalkInv(j)'
<1>1. /\ pc'[j] = "none" /\ queue'[j] = <<>> /\ visited'[j] = {}
      /\ clean'[j] => status'[j] = "none"
  BY DEF Restart
<1>2. ~ InHand(j)' /\ ~ Walking(j)'
  BY <1>1 DEF InHand, Walking, Requesting
<1>3. WithinReach(j)'
  BY <1>1, <1>2 DEF WithinReach, InReach
<1>. QED  BY <1>1, <1>2, <1>3 DEF WalkInv

(* Every step of a job keeps its walk.                                     *)
LEMMA WalkStep ==
    ASSUME TypeInv, NEW j \in Job, WalkInv(j), Allowed(j), JobStep(j)
    PROVE  WalkInv(j)'
<1>1. CASE \/ Create(j) \/ CreateUnsaved(j) \/ BeginUnsaved(j) \/ Collapse(j)
           \/ Wake(j) \/ RobotsAnswer(j) \/ Hop(j) \/ FetchFails(j)
           \/ Unreadable(j) \/ IndexMedia(j) \/ PageDone(j) \/ NextMedia(j)
  BY <1>1, BeforeWalkSteady, CollapseSteady, AskSteady, HopSteady, DoneSteady,
     NextMediaSteady, SteadyWalk
<1>2. CASE Begin(j) \/ Skip(j) \/ Visit(j) \/ Complete(j) \/ Arrive(j)
  BY <1>2, BeginWalk, SkipWalk, VisitWalk, CompleteWalk, ArriveWalk
<1>. QED  BY <1>1, <1>2 DEF JobStep, TaskStep

(* Every step keeps every walk.                                            *)
LEMMA WalkNext ==
    TypeInv /\ (\A j \in Job : Allowed(j) /\ WalkInv(j)) /\ [Next]_vars
        => \A j \in Job : WalkInv(j)'
<1> SUFFICES ASSUME TypeInv, \A j \in Job : Allowed(j) /\ WalkInv(j),
                    [Next]_vars, NEW k \in Job
             PROVE  WalkInv(k)'
  OBVIOUS
<1>1. ASSUME NEW j \in Job, JobStep(j) PROVE WalkInv(k)'
  <2>1. CASE k = j
    BY <1>1, <2>1, WalkStep
  <2>2. CASE k # j
    <3>1. Same(k)
      BY <1>1, <2>2, StepFits DEF Fits
    <3>. QED  BY <3>1, WalkFrame
  <2>. QED  BY <2>1, <2>2
<1>2. ASSUME NEW h \in Host, Cool(h) \/ CoolUnnoted(h) \/ ForgetRobots(h)
      PROVE  WalkInv(k)'
  BY <1>2, CoolFits, CoolUnnotedFits, ForgetRobotsFits, WalkFrame
<1>3. ASSUME Restart PROVE WalkInv(k)'
  BY <1>3, RestartWalk
<1>4. ASSUME UNCHANGED vars PROVE WalkInv(k)'
  <2>1. Same(k)
    BY <1>4 DEF vars, jobs, walk, request, Same
  <2>. QED  BY <2>1, WalkFrame
<1>. QED  BY <1>1, <1>2, <1>3, <1>4, NextCases, Zenon

(* Whatever the pages link to and redirect to, whichever requests fail,    *)
(* and however the tasks interleave, a job visits no page that is out of   *)
(* reach; and one that completes with no request failed and pages to spare *)
(* has visited every page within its depth that the robots files leave in  *)
(* reach.                                                                  *)
THEOREM WalkIsExact == Spec => []WalkExact
<1>1. CrawlInv => WalkExact
  BY DEF CrawlInv, WalkInv, WithinReach, WalkExact
<1>2. Init => CrawlInv
  BY TypeInit, PoliteInit, AllowedInit, WalkInit DEF CrawlInv
<1>3. CrawlInv /\ [Next]_vars => CrawlInv'
  BY TypeNext, PoliteNext, AllowedNext, WalkNext DEF CrawlInv
<1>. QED  BY <1>1, <1>2, <1>3, PTL DEF Spec
=============================================================================
