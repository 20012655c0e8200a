----------------------------- MODULE DataProofs -----------------------------
(***************************************************************************)
(* Induction over the naturals for sets, in a form the provers can use: a  *)
(* set stands for the predicate.  With it, what the recursive helpers of   *)
(* the models compute.                                                     *)
(***************************************************************************)
EXTENDS BoundedMap, FiniteSetTheorems, WellFoundedInduction, TLAPS

(* The least number principle. *)
LEMMA LeastNatural ==
  ASSUME NEW T \in SUBSET Nat, T # {}
  PROVE  \E n \in T : \A m \in T : n <= m
<1> DEFINE R == OpToRel(<, Nat)
<1>1. IsWellFoundedOn(R, Nat)
  BY NatLessThanWellFounded
<1>2. \A m, n \in Nat : m < n => <<m, n>> \in R
  BY DEF OpToRel
<1> HIDE DEF R
<1>3. PICK n \in T : \A m \in T : ~(<<m, n>> \in R)
  BY <1>1, WFMin
<1>4. \A m \in T : ~(m < n)
  BY <1>2, <1>3
<1>5. \A m \in T : n <= m
  BY <1>4
<1> QED
  BY <1>5

(* A bounded set of natural numbers has a greatest element. *)
LEMMA GreatestNatural ==
  ASSUME NEW n \in Nat, NEW S, S # {}, \A x \in S : x \in Nat /\ x <= n
  PROVE  \E m \in S : \A x \in S : m >= x
<1> DEFINE T == {d \in Nat : n - d \in S}
<1>1. T # {}
  <2>1. PICK x \in S : x \in Nat /\ x <= n
    OBVIOUS
  <2>2. n - x \in Nat /\ n - (n - x) = x
    BY <2>1
  <2> QED
    BY <2>1, <2>2
<1>2. PICK d \in T : \A e \in T : d <= e
  <2>1. T \in SUBSET Nat
    OBVIOUS
  <2> HIDE DEF T
  <2> QED
    BY <1>1, <2>1, LeastNatural
<1>3. ASSUME NEW x \in S PROVE n - d >= x
  <2>1. x \in Nat /\ n - x \in Nat /\ n - (n - x) = x
    OBVIOUS
  <2>2. n - x \in T
    BY <2>1
  <2>3. d <= n - x /\ d \in Nat
    BY <1>2, <2>2
  <2> QED
    BY <2>1, <2>3
<1>4. n - d \in S
  BY <1>2
<1> QED
  BY <1>3, <1>4

(* A set that holds 0 and, with n, n + 1, holds every natural number. *)
LEMMA SetInduction ==
  ASSUME NEW T, 0 \in T, \A n \in T \cap Nat : n + 1 \in T
  PROVE  Nat \subseteq T
<1> DEFINE U == Nat \ T
<1> SUFFICES ASSUME U # {} PROVE FALSE
  OBVIOUS
<1>1. PICK n \in U : \A m \in U : n <= m
  <2>1. U \in SUBSET Nat
    OBVIOUS
  <2> HIDE DEF U
  <2> QED
    BY <2>1, LeastNatural
<1>2. n \in Nat /\ n # 0 /\ n - 1 \in Nat /\ (n - 1) + 1 = n /\ ~(n <= n - 1)
  OBVIOUS
<1>3. n - 1 \in T
  BY <1>1, <1>2
<1>4. n \in T
  BY <1>2, <1>3
<1> QED
  BY <1>4

(* A recursive function over 0 .. m exists: g gives its step at each n. *)
Recurs(V, a, m, g) ==
  \E f \in [0 .. m -> V] : f[0] = a /\ \A n \in 1 .. m : f[n] = g[n][f[n - 1]]

(* A step function for each position and a start value determine a sequence of values:
   definition by recursion along 1 .. m. *)
LEMMA Recursion ==
  ASSUME NEW V, NEW a \in V, NEW m \in Nat, NEW g \in [1 .. m -> [V -> V]]
  PROVE  Recurs(V, a, m, g)
<1> DEFINE P(f, j) == f[0] = a /\ \A n \in 1 .. j : f[n] = g[n][f[n - 1]]
           T == {j \in Nat : j <= m => \E f \in [0 .. j -> V] : P(f, j)}
<1>1. 0 \in T
  <2>1. [n \in 0 .. 0 |-> a] \in [0 .. 0 -> V] /\ P([n \in 0 .. 0 |-> a], 0)
    OBVIOUS
  <2> QED
    BY <2>1
<1>2. ASSUME NEW j \in T PROVE j + 1 \in T
  <2>0. j \in Nat
    BY <1>2
  <2>9. j + 1 \in Nat
    BY <2>0
  <2> SUFFICES ASSUME j + 1 <= m PROVE \E f \in [0 .. j + 1 -> V] : P(f, j + 1)
    <3> HIDE DEF P
    <3> QED
      BY <2>9
  <2>1. PICK f \in [0 .. j -> V] : P(f, j)
    BY <1>2, <2>0
  <2> DEFINE h == [n \in 0 .. j + 1 |-> IF n <= j THEN f[n] ELSE g[j + 1][f[j]]]
  <2>2. f[j] \in V /\ g[j + 1] \in [V -> V]
    BY <2>0, <2>1
  <2>3. h \in [0 .. j + 1 -> V]
    BY <2>0, <2>1, <2>2
  <2>4. h[0] = a
    BY <2>0, <2>1
  <2>5. ASSUME NEW n \in 1 .. j + 1 PROVE h[n] = g[n][h[n - 1]]
    <3>1. CASE n = j + 1
      <4>1. h[j] = f[j] /\ (j + 1) - 1 = j /\ h[j + 1] = g[j + 1][f[j]]
        BY <2>0
      <4> QED
        BY <3>1, <4>1
    <3>2. CASE n <= j
      <4>1. h[n] = f[n] /\ h[n - 1] = f[n - 1] /\ n \in 1 .. j
        BY <2>0, <3>2
      <4> QED
        BY <2>1, <4>1
    <3> QED
      BY <2>0, <3>1, <3>2
  <2> QED
    BY <2>3, <2>4, <2>5
<1>3. m \in T
  <2> HIDE DEF T
  <2>1. Nat \subseteq T
    BY <1>1, <1>2, SetInduction
  <2> QED
    BY <2>1
<1> QED
  BY <1>3 DEF Recurs

-----------------------------------------------------------------------------
(* retain()                                                                *)

(* f is the recursion of Retain up to m. *)
RetainsUpTo(s, S, f, m) ==
  f = [n \in 0 .. m |-> IF n = 0 THEN <<>>
                        ELSE IF s[n] \in S THEN Append(f[n - 1], s[n]) ELSE f[n - 1]]

(* The recursion of Retain defines a function. *)
LEMMA RetainDefined ==
  ASSUME NEW D, NEW s \in Seq(D), NEW S
  PROVE  \E f : RetainsUpTo(s, S, f, Len(s)) /\ Retain(s, S) = f[Len(s)]
<1> DEFINE m == Len(s)
           g == [n \in 1 .. m |-> [t \in Seq(D) |-> IF s[n] \in S THEN Append(t, s[n]) ELSE t]]
<1>1. m \in Nat /\ <<>> \in Seq(D) /\ g \in [1 .. m -> [Seq(D) -> Seq(D)]]
  OBVIOUS
<1>2. PICK f \in [0 .. m -> Seq(D)] : f[0] = <<>> /\ \A n \in 1 .. m : f[n] = g[n][f[n - 1]]
  <2> DEFINE V == Seq(D)
             a == <<>>
  <2>1. m \in Nat /\ a \in V /\ g \in [1 .. m -> [V -> V]]
    BY <1>1
  <2> HIDE DEF g, m, V, a
  <2>2. Recurs(V, a, m, g)
    BY <2>1, Recursion
  <2> QED
    BY <2>2 DEF Recurs, V, a
<1>3. RetainsUpTo(s, S, f, Len(s))
  <2>1. \A n \in 1 .. m : f[n - 1] \in Seq(D)
    BY <1>1
  <2>2. \A n \in 0 .. m : f[n] = IF n = 0 THEN <<>>
                                 ELSE IF s[n] \in S THEN Append(f[n - 1], s[n]) ELSE f[n - 1]
    <3>1. f[0] = <<>>
      BY <1>2
    <3>2. ASSUME NEW n \in 1 .. m
          PROVE  f[n] = IF s[n] \in S THEN Append(f[n - 1], s[n]) ELSE f[n - 1]
      BY <1>2, <2>1
    <3>3. \A n \in 0 .. m : n = 0 \/ (n # 0 /\ n \in 1 .. m)
      BY <1>1
    <3> HIDE DEF g, m
    <3> QED
      BY <3>1, <3>2, <3>3
  <2> QED
    BY <2>2 DEF RetainsUpTo
<1> DEFINE h == CHOOSE e : RetainsUpTo(s, S, e, Len(s))
<1>4. RetainsUpTo(s, S, h, Len(s))
  BY <1>3
<1>5. Retain(s, S) = h[Len(s)]
  BY DEF Retain, RetainsUpTo
<1> QED
  BY <1>4, <1>5

(* What the elements of a sequence become when one is appended. *)
LEMMA AppendElements ==
  ASSUME NEW D, NEW t \in Seq(D), NEW x \in D
  PROVE  /\ Append(t, x) \in Seq(D) /\ Len(Append(t, x)) = Len(t) + 1
         /\ Range(Append(t, x)) = Range(t) \cup {x}
         /\ IsInjective(t) /\ x \notin Range(t) => IsInjective(Append(t, x))
<1> DEFINE a == Append(t, x)
           k == Len(t)
<1>1. /\ a \in Seq(D) /\ k \in Nat /\ Len(a) = k + 1
      /\ DOMAIN t = 1 .. k /\ DOMAIN a = 1 .. k + 1
      /\ \A i \in 1 .. k : a[i] = t[i]
      /\ a[k + 1] = x
  OBVIOUS
<1>2. \A i \in 1 .. k + 1 : i \in 1 .. k \/ i = k + 1
  BY <1>1
<1>3. \A i \in 1 .. k : i \in 1 .. k + 1 /\ i # k + 1
  BY <1>1
<1>4. k + 1 \in 1 .. k + 1
  BY <1>1
<1> HIDE DEF a, k
<1>5. Range(a) = Range(t) \cup {x}
  BY <1>1, <1>2, <1>3, <1>4 DEF Range
<1>6. ASSUME IsInjective(t), x \notin Range(t) PROVE IsInjective(a)
  <2>1. \A i \in 1 .. k : t[i] # x
    BY <1>1, <1>6 DEF Range
  <2>2. \A i, j \in 1 .. k + 1 : a[i] = a[j] => i = j
    BY <1>1, <1>2, <1>6, <2>1 DEF IsInjective
  <2> QED
    BY <1>1, <2>2 DEF IsInjective
<1> QED
  BY <1>1, <1>5, <1>6 DEF a, k

(* f has kept what retain() keeps of the first n elements of s. *)
RetainedWell(D, s, S, f, n) ==
  /\ f[n] \in Seq(D) /\ Len(f[n]) <= n
  /\ Range(f[n]) = {s[i] : i \in 1 .. n} \cap S
  /\ IsInjective(s) => IsInjective(f[n])

(* retain() keeps exactly the elements it is told to, keeps a sequence     *)
(* without repetitions so, and does not make it longer.                    *)
LEMMA RetainProperties ==
  ASSUME NEW D, NEW s \in Seq(D), NEW S
  PROVE  /\ Retain(s, S) \in Seq(D)
         /\ Range(Retain(s, S)) = Range(s) \cap S
         /\ IsInjective(s) => IsInjective(Retain(s, S))
         /\ Len(Retain(s, S)) <= Len(s)
<1>0. Len(s) \in Nat /\ DOMAIN s = 1 .. Len(s) /\ \A i \in 1 .. Len(s) : s[i] \in D
  OBVIOUS
<1>1. PICK f : RetainsUpTo(s, S, f, Len(s)) /\ Retain(s, S) = f[Len(s)]
  BY RetainDefined
<1>2. /\ f[0] = <<>>
      /\ \A n \in 1 .. Len(s) : f[n] = IF s[n] \in S THEN Append(f[n - 1], s[n]) ELSE f[n - 1]
  <2>1. \A n \in 0 .. Len(s) :
          f[n] = IF n = 0 THEN <<>>
                 ELSE IF s[n] \in S THEN Append(f[n - 1], s[n]) ELSE f[n - 1]
    BY <1>1 DEF RetainsUpTo
  <2>2. 0 \in 0 .. Len(s) /\ \A n \in 1 .. Len(s) : n \in 0 .. Len(s) /\ n # 0
    BY <1>0
  <2> QED
    BY <2>1, <2>2
<1> DEFINE T == {n \in Nat : n <= Len(s) => RetainedWell(D, s, S, f, n)}
<1>3. 0 \in T
  <2>1. <<>> \in Seq(D) /\ Len(<<>>) = 0 /\ Range(<<>>) = {} /\ IsInjective(<<>>)
    BY DEF Range, IsInjective
  <2>2. {s[i] : i \in 1 .. 0} = {}
    OBVIOUS
  <2>3. RetainedWell(D, s, S, f, 0)
    BY <1>2, <2>1, <2>2 DEF RetainedWell
  <2> QED
    BY <2>3
<1>4. ASSUME NEW n \in T PROVE n + 1 \in T
  <2>0. n \in Nat
    BY <1>4
  <2> SUFFICES ASSUME n + 1 <= Len(s) PROVE RetainedWell(D, s, S, f, n + 1)
    BY <2>0
  <2>1. RetainedWell(D, s, S, f, n) /\ n + 1 \in 1 .. Len(s) /\ (n + 1) - 1 = n
    BY <1>0, <1>4, <2>0
  <2>2. f[n + 1] = IF s[n + 1] \in S THEN Append(f[n], s[n + 1]) ELSE f[n]
    BY <1>2, <2>1
  <2>3. {s[i] : i \in 1 .. n + 1} = {s[i] : i \in 1 .. n} \cup {s[n + 1]}
    <3>1. \A i \in 1 .. n + 1 : i \in 1 .. n \/ i = n + 1
      BY <2>0
    <3>2. \A i \in 1 .. n : i \in 1 .. n + 1
      BY <2>0
    <3> QED
      BY <2>0, <3>1, <3>2
  <2>4. CASE s[n + 1] \notin S
    BY <2>0, <2>1, <2>2, <2>3, <2>4 DEF RetainedWell
  <2>5. CASE s[n + 1] \in S
    <3>1. s[n + 1] \in D /\ f[n + 1] = Append(f[n], s[n + 1]) /\ f[n] \in Seq(D)
      BY <1>0, <2>1, <2>2, <2>5 DEF RetainedWell
    <3>2. /\ f[n + 1] \in Seq(D) /\ Len(f[n + 1]) = Len(f[n]) + 1
          /\ Range(f[n + 1]) = Range(f[n]) \cup {s[n + 1]}
          /\ IsInjective(f[n]) /\ s[n + 1] \notin Range(f[n]) => IsInjective(f[n + 1])
      BY <3>1, AppendElements
    <3>3. ASSUME IsInjective(s) PROVE s[n + 1] \notin Range(f[n])
      <4>1. \A i \in 1 .. n : i \in DOMAIN s /\ i # n + 1
        BY <1>0, <2>0, <2>1
      <4>2. \A i \in 1 .. n : s[i] # s[n + 1]
        BY <1>0, <2>1, <3>3, <4>1 DEF IsInjective
      <4> QED
        BY <2>1, <4>2 DEF RetainedWell
    <3>4. Len(f[n + 1]) <= n + 1
      BY <2>0, <2>1, <3>1, <3>2 DEF RetainedWell
    <3>5. Range(f[n + 1]) = {s[i] : i \in 1 .. n + 1} \cap S
      BY <2>1, <2>3, <2>5, <3>2 DEF RetainedWell
    <3> QED
      BY <2>1, <3>2, <3>3, <3>4, <3>5 DEF RetainedWell
  <2> QED
    BY <2>4, <2>5
<1>5. RetainedWell(D, s, S, f, Len(s))
  <2>1. Nat \subseteq T
    <3> HIDE DEF T
    <3> QED
      BY <1>3, <1>4, SetInduction
  <2> QED
    BY <1>0, <2>1
<1>6. Range(s) = {s[i] : i \in 1 .. Len(s)}
  BY <1>0 DEF Range
<1> QED
  BY <1>1, <1>5, <1>6 DEF RetainedWell

(* A sequence has finitely many elements, as many as it is long when none  *)
(* is repeated.                                                            *)
LEMMA SequenceElements ==
  ASSUME NEW D, NEW s \in Seq(D)
  PROVE  /\ IsFiniteSet(Range(s))
         /\ Cardinality(Range(s)) <= Len(s)
         /\ IsInjective(s) => Cardinality(Range(s)) = Len(s)
<1>1. Len(s) \in Nat /\ DOMAIN s = 1 .. Len(s) /\ s = [i \in 1 .. Len(s) |-> s[i]]
  OBVIOUS
<1>2. s \in Surjection(1 .. Len(s), Range(s))
  BY <1>1 DEF Surjection, Range
<1>3. ExistsSurjection(1 .. Len(s), Range(s))
  BY <1>2 DEF ExistsSurjection
<1>4. IsFiniteSet(Range(s)) /\ Cardinality(Range(s)) <= Len(s)
  BY <1>1, <1>3, FS_NatSurjection, FS_SurjCardinalityBound
<1>5. ASSUME IsInjective(s) PROVE Cardinality(Range(s)) = Len(s)
  <2>1. s \in Bijection(1 .. Len(s), Range(s))
    BY <1>1, <1>2, <1>5 DEF Bijection, Injection, Surjection, IsInjective
  <2>2. ExistsBijection(1 .. Len(s), Range(s))
    BY <2>1 DEF ExistsBijection
  <2> QED
    BY <1>1, <2>2, FS_CountingElements
<1> QED
  BY <1>4, <1>5

(* f has kept, of the first n elements of s, those after the first d. *)
KeptAfter(D, s, f, d, n) ==
  /\ f[n] \in Seq(D)
  /\ Len(f[n]) = IF n <= d THEN 0 ELSE n - d
  /\ \A i \in 1 .. Len(f[n]) : f[n][i] = s[d + i]

(* retain() of exactly the elements after the first d leaves them as they  *)
(* stand.                                                                  *)
LEMMA RetainSuffix ==
  ASSUME NEW D, NEW s \in Seq(D), NEW S, NEW d \in 0 .. Len(s),
         \A i \in 1 .. Len(s) : s[i] \in S <=> i > d
  PROVE  /\ Len(Retain(s, S)) = Len(s) - d
         /\ \A i \in 1 .. Len(s) - d : Retain(s, S)[i] = s[d + i]
<1>0. Len(s) \in Nat /\ d \in Nat /\ d <= Len(s) /\ \A i \in 1 .. Len(s) : s[i] \in D
  OBVIOUS
<1>1. PICK f : RetainsUpTo(s, S, f, Len(s)) /\ Retain(s, S) = f[Len(s)]
  BY RetainDefined
<1>2. /\ f[0] = <<>>
      /\ \A n \in 1 .. Len(s) : f[n] = IF s[n] \in S THEN Append(f[n - 1], s[n]) ELSE f[n - 1]
  <2>1. \A n \in 0 .. Len(s) :
          f[n] = IF n = 0 THEN <<>>
                 ELSE IF s[n] \in S THEN Append(f[n - 1], s[n]) ELSE f[n - 1]
    BY <1>1 DEF RetainsUpTo
  <2>2. 0 \in 0 .. Len(s) /\ \A n \in 1 .. Len(s) : n \in 0 .. Len(s) /\ n # 0
    BY <1>0
  <2> QED
    BY <2>1, <2>2
<1> DEFINE T == {n \in Nat : n <= Len(s) => KeptAfter(D, s, f, d, n)}
<1>3. 0 \in T
  <2>1. <<>> \in Seq(D) /\ Len(<<>>) = 0 /\ 0 <= d /\ \A i \in 1 .. 0 : FALSE
    BY <1>0
  <2>2. KeptAfter(D, s, f, d, 0)
    BY <1>2, <2>1 DEF KeptAfter
  <2> QED
    BY <2>2
<1>4. ASSUME NEW n \in T PROVE n + 1 \in T
  <2>0. n \in Nat
    BY <1>4
  <2> SUFFICES ASSUME n + 1 <= Len(s) PROVE KeptAfter(D, s, f, d, n + 1)
    BY <2>0
  <2>1. KeptAfter(D, s, f, d, n) /\ n + 1 \in 1 .. Len(s) /\ (n + 1) - 1 = n /\ n \in 0 .. Len(s)
    BY <1>0, <1>4, <2>0
  <2>2. f[n] \in Seq(D) /\ s[n + 1] \in D
    BY <1>0, <2>1 DEF KeptAfter
  <2>3. CASE n + 1 <= d
    <3>0. ~(n + 1 > d)
      BY <1>0, <2>0, <2>3
    <3>1. f[n + 1] = f[n]
      BY <1>2, <2>1, <3>0
    <3> QED
      BY <1>0, <2>0, <2>1, <2>3, <3>1 DEF KeptAfter
  <2>4. CASE n + 1 > d
    <3> DEFINE t == f[n]
               x == s[n + 1]
    <3>1. f[n + 1] = Append(t, x)
      BY <1>2, <2>1, <2>4
    <3>2. t \in Seq(D) /\ x \in D /\ Len(t) = n - d /\ n - d \in Nat
      BY <1>0, <2>0, <2>1, <2>2, <2>4 DEF KeptAfter
    <3>3. \A i \in 1 .. Len(t) : t[i] = s[d + i]
      BY <2>1 DEF KeptAfter
    <3>4. x = s[d + (Len(t) + 1)]
      BY <1>0, <2>0, <3>2
    <3> HIDE DEF t, x
    <3>5. Len(Append(t, x)) = Len(t) + 1 /\ Append(t, x) \in Seq(D)
      BY <3>2
    <3>6. \A i \in 1 .. Len(t) + 1 : Append(t, x)[i] = s[d + i]
      <4>1. \A i \in 1 .. Len(t) : Append(t, x)[i] = t[i]
        BY <3>2
      <4>2. Append(t, x)[Len(t) + 1] = x
        BY <3>2
      <4>3. \A i \in 1 .. Len(t) + 1 : i \in 1 .. Len(t) \/ i = Len(t) + 1
        BY <3>2
      <4> QED
        BY <3>3, <3>4, <4>1, <4>2, <4>3
    <3>7. Len(t) + 1 = IF n + 1 <= d THEN 0 ELSE (n + 1) - d
      BY <1>0, <2>0, <2>4, <3>2
    <3> QED
      BY <3>1, <3>5, <3>6, <3>7 DEF KeptAfter
  <2> QED
    BY <1>0, <2>0, <2>3, <2>4
<1>5. KeptAfter(D, s, f, d, Len(s))
  <2>1. Nat \subseteq T
    <3> HIDE DEF T
    <3> QED
      BY <1>3, <1>4, SetInduction
  <2> QED
    BY <1>0, <2>1
<1>6. Len(f[Len(s)]) = Len(s) - d
  BY <1>0, <1>5 DEF KeptAfter
<1> QED
  BY <1>1, <1>5, <1>6 DEF KeptAfter

(* Finitely many numbers in a row have an upper bound. *)
LEMMA SequenceBounded ==
  ASSUME NEW s \in Seq(Nat)
  PROVE  \E b \in Nat : \A i \in 1 .. Len(s) : s[i] <= b
<1>0. Len(s) \in Nat /\ \A i \in 1 .. Len(s) : s[i] \in Nat
  OBVIOUS
<1> DEFINE T == {n \in Nat : n <= Len(s) => \E b \in Nat : \A i \in 1 .. n : s[i] <= b}
<1>1. 0 \in T
  OBVIOUS
<1>2. ASSUME NEW n \in T PROVE n + 1 \in T
  <2>0. n \in Nat
    BY <1>2
  <2> SUFFICES ASSUME n + 1 <= Len(s)
               PROVE  \E b \in Nat : \A i \in 1 .. n + 1 : s[i] <= b
    BY <2>0
  <2>1. PICK b \in Nat : \A i \in 1 .. n : s[i] <= b
    BY <1>0, <1>2, <2>0
  <2>2. s[n + 1] \in Nat
    BY <1>0, <2>0
  <2>3. \A i \in 1 .. n + 1 : i \in 1 .. n \/ i = n + 1
    BY <2>0
  <2>4. \A i \in 1 .. n : s[i] \in Nat
    BY <1>0, <2>0
  <2>5. CASE s[n + 1] <= b
    BY <2>1, <2>3, <2>5
  <2>6. CASE b <= s[n + 1]
    <3>1. \A i \in 1 .. n : s[i] <= s[n + 1]
      BY <2>1, <2>2, <2>4, <2>6
    <3>2. \A i \in 1 .. n + 1 : s[i] <= s[n + 1]
      BY <2>2, <2>3, <3>1
    <3> QED
      BY <2>2, <3>2
  <2>7. s[n + 1] <= b \/ b <= s[n + 1]
    BY <2>2
  <2> QED
    BY <2>5, <2>6, <2>7
<1>3. Len(s) \in T
  <2> HIDE DEF T
  <2> QED
    BY <1>0, <1>1, <1>2, SetInduction
<1> QED
  BY <1>0, <1>3

-----------------------------------------------------------------------------
(* The bounded tables.  They stay well kept for every capacity, key and    *)
(* value: `while len >= capacity` never pops more than one key and never   *)
(* falls back to clearing the table.                                       *)


(* A table with a finite number of keys of K. *)
IsTable(t, K) ==
  /\ t = [entries |-> t.entries, order |-> t.order]
  /\ t.order \in Seq(K)
  /\ IsFiniteSet(DOMAIN t.entries)

(* The entries left when n keys are popped. *)
LEMMA PoppedDomain ==
  ASSUME NEW K, NEW t, IsTable(t, K), NEW n \in 0 .. Len(t.order)
  PROVE  DOMAIN Popped(t, n).entries = DOMAIN t.entries \ {t.order[i] : i \in 1 .. n}
<1>1. SubSeq(t.order, 1, n) = [i \in 1 .. n |-> t.order[i]]
  BY DEF IsTable
<1>2. Range(SubSeq(t.order, 1, n)) = {t.order[i] : i \in 1 .. n}
  BY <1>1 DEF Range
<1> QED
  BY <1>2 DEF Popped, MapRemove, Restrict

(* The least of some naturals is one of them. *)
LEMMA MinOfNaturals ==
  ASSUME NEW S \in SUBSET Nat, S # {}
  PROVE  Min(S) \in S /\ \A n \in S : Min(S) <= n
  BY LeastNatural DEF Min

(* What remains of a well kept table is one whose order and entries agree. *)
LEMMA PoppedAgrees ==
  ASSUME NEW K, NEW t, IsTable(t, K), NEW n \in 0 .. Len(t.order),
         Range(t.order) = DOMAIN t.entries, IsInjective(t.order)
  PROVE  LET p == Popped(t, n)
         IN  /\ p.order \in Seq(K)
             /\ Range(p.order) = DOMAIN p.entries
             /\ IsInjective(p.order)
<1> DEFINE o == t.order
           rest == SubSeq(o, n + 1, Len(o))
<1>0. o \in Seq(K) /\ Len(o) \in Nat /\ DOMAIN o = 1 .. Len(o) /\ n \in Nat /\ n <= Len(o)
  BY DEF IsTable
<1>1. rest \in Seq(K) /\ DOMAIN rest = 1 .. (Len(o) - n)
  BY <1>0
<1>2. \A i \in 1 .. (Len(o) - n) : rest[i] = o[n + i]
  BY <1>0
<1>3. IsInjective(rest)
  <2> SUFFICES ASSUME NEW a \in 1 .. (Len(o) - n), NEW b \in 1 .. (Len(o) - n), rest[a] = rest[b]
               PROVE  a = b
    BY <1>1 DEF IsInjective
  <2>1. n + a \in DOMAIN o /\ n + b \in DOMAIN o /\ o[n + a] = o[n + b]
    BY <1>0, <1>2
  <2>2. n + a = n + b
    BY <2>1 DEF IsInjective
  <2> QED
    BY <1>0, <2>2
<1>4. Range(rest) = DOMAIN t.entries \ {o[i] : i \in 1 .. n}
  <2>1. Range(rest) = {o[n + i] : i \in 1 .. (Len(o) - n)}
    BY <1>1, <1>2 DEF Range
  <2>2. DOMAIN t.entries = {o[i] : i \in 1 .. Len(o)}
    BY <1>0 DEF Range
  <2>3. \A i \in 1 .. (Len(o) - n) : n + i \in 1 .. Len(o) /\ n + i \notin 1 .. n
    BY <1>0
  <2>4. \A j \in 1 .. Len(o) : j \notin 1 .. n => j - n \in 1 .. (Len(o) - n) /\ n + (j - n) = j
    BY <1>0
  <2>5. \A i, j \in 1 .. Len(o) : o[i] = o[j] => i = j
    BY <1>0 DEF IsInjective
  <2>6. ASSUME NEW x \in Range(rest)
        PROVE  x \in DOMAIN t.entries \ {o[i] : i \in 1 .. n}
    <3>1. PICK i \in 1 .. (Len(o) - n) : x = o[n + i]
      BY <2>1, <2>6
    <3>2. x \in DOMAIN t.entries
      BY <2>2, <2>3, <3>1
    <3>3. \A j \in 1 .. n : j \in 1 .. Len(o)
      BY <1>0
    <3> QED
      BY <2>3, <2>5, <3>1, <3>2, <3>3
  <2>7. ASSUME NEW x \in DOMAIN t.entries \ {o[i] : i \in 1 .. n}
        PROVE  x \in Range(rest)
    <3>1. PICK j \in 1 .. Len(o) : x = o[j]
      BY <2>2, <2>7
    <3>2. j \notin 1 .. n
      BY <2>7, <3>1
    <3> QED
      BY <2>1, <2>4, <3>1, <3>2
  <2> QED
    BY <2>6, <2>7
<1>5. Popped(t, n).order = rest
  BY DEF Popped
<1>6. DOMAIN Popped(t, n).entries = DOMAIN t.entries \ {o[i] : i \in 1 .. n}
  BY PoppedDomain
<1> HIDE DEF rest
<1> QED
  BY <1>1, <1>3, <1>4, <1>5, <1>6

(* p is t with k inserted and perhaps some other entries evicted. *)
InsertedInto(t, p, K, k, v) ==
  /\ IsTable(p, K)
  /\ p.entries = [x \in DOMAIN p.entries |-> p.entries[x]]
  /\ k \in DOMAIN p.entries /\ p.entries[k] = v
  /\ DOMAIN p.entries \subseteq DOMAIN t.entries \cup {k}
  /\ \A x \in DOMAIN p.entries \ {k} : p.entries[x] = t.entries[x]

(* What an insertion does to the entries, whatever it has to evict: the new *)
(* one is there, the others are some of those that were.                   *)
LEMMA PutEffect ==
  ASSUME NEW K, NEW t, IsTable(t, K), NEW cap \in Nat, NEW k \in K, NEW v
  PROVE  InsertedInto(t, Put(t, cap, k, v), K, k, v)
<1> DEFINE p == Put(t, cap, k, v)
<1>1. PICK r : /\ r.order \in Seq(K) /\ DOMAIN r.entries \subseteq DOMAIN t.entries
               /\ \A x \in DOMAIN r.entries : r.entries[x] = t.entries[x]
               /\ p = [entries |-> MapInsert(r.entries, k, v),
                       order |-> IF Holds(t, k) THEN r.order ELSE Append(r.order, k)]
  <2>1. CASE Holds(t, k)
    <3>1. p = [t EXCEPT !.entries = MapInsert(@, k, v)]
      BY <2>1 DEF Put
    <3>2. p = [entries |-> MapInsert(t.entries, k, v), order |-> t.order]
      BY <3>1 DEF IsTable
    <3> QED
      BY <2>1, <3>2 DEF IsTable
  <2>2. CASE ~Holds(t, k) /\ RoomAfter(t, cap) = {}
    <3>1. MakeRoom(t, cap) = EmptyTable
      BY <2>2 DEF MakeRoom
    <3>2. /\ EmptyTable.order = <<>> /\ EmptyTable.entries = EmptyMap
          /\ DOMAIN EmptyMap = {} /\ <<>> \in Seq(K)
      BY DEF EmptyTable, EmptyMap
    <3> HIDE DEF p
    <3>3. p = [entries |-> MapInsert(EmptyTable.entries, k, v), order |-> Append(EmptyTable.order, k)]
      BY <2>2, <3>1 DEF p, Put
    <3> QED
      BY <2>2, <3>2, <3>3
  <2>3. CASE ~Holds(t, k) /\ RoomAfter(t, cap) # {}
    <3> DEFINE n == Min(RoomAfter(t, cap))
               q == Popped(t, n)
    <3>1. n \in 0 .. Len(t.order)
      <4>1. RoomAfter(t, cap) \subseteq 0 .. Len(t.order) /\ RoomAfter(t, cap) \in SUBSET Nat
        BY DEF RoomAfter
      <4> QED
        BY <2>3, <4>1, MinOfNaturals
    <3>2. MakeRoom(t, cap) = q
      BY <2>3 DEF MakeRoom
    <3>3. DOMAIN q.entries = DOMAIN t.entries \ {t.order[i] : i \in 1 .. n}
      BY <3>1, PoppedDomain
    <3>4. \A x \in DOMAIN q.entries : q.entries[x] = t.entries[x]
      BY DEF Popped, MapRemove, Restrict
    <3>5. q.order \in Seq(K)
      BY <3>1 DEF Popped, IsTable
    <3>6. p = [entries |-> MapInsert(q.entries, k, v), order |-> Append(q.order, k)]
      BY <2>3, <3>2 DEF Put
    <3> HIDE DEF p, q
    <3> QED
      BY <2>3, <3>3, <3>4, <3>5, <3>6
  <2> QED
    BY <2>1, <2>2, <2>3
<1> HIDE DEF p
<1>2. /\ p.entries = MapInsert(r.entries, k, v) /\ p = [entries |-> p.entries, order |-> p.order]
      /\ p.order = IF Holds(t, k) THEN r.order ELSE Append(r.order, k)
  BY <1>1
<1>3. p.order \in Seq(K)
  BY <1>1, <1>2
<1>4. DOMAIN p.entries = DOMAIN r.entries \cup {k}
  BY <1>2 DEF MapInsert
<1>5. IsFiniteSet(DOMAIN p.entries)
  <2>1. IsFiniteSet(DOMAIN r.entries)
    BY <1>1, FS_Subset DEF IsTable
  <2> QED
    BY <1>4, <2>1, FS_AddElement
<1>6. p.entries = [x \in DOMAIN p.entries |-> p.entries[x]]
  BY <1>2 DEF MapInsert
<1>7. p.entries[k] = v /\ \A x \in DOMAIN p.entries \ {k} : p.entries[x] = t.entries[x]
  BY <1>1, <1>2 DEF MapInsert
<1> QED
  BY <1>1, <1>2, <1>3, <1>4, <1>5, <1>6, <1>7 DEF p, IsTable, InsertedInto

(* The loop that makes room pops nothing where there is room, and the oldest *)
(* key of a full table.                                                    *)
LEMMA MakeRoomPops ==
  ASSUME NEW K, NEW t, IsTable(t, K), NEW cap \in Nat \ {0}, WellKept(t, cap)
  PROVE  \E n \in 0 .. Len(t.order) :
           /\ n \in RoomAfter(t, cap) /\ MakeRoom(t, cap) = Popped(t, n)
           /\ n = IF Cardinality(DOMAIN t.entries) < cap THEN 0 ELSE 1
<1> DEFINE size == Cardinality(DOMAIN t.entries)
<1>0. /\ size \in Nat /\ size <= cap /\ Len(t.order) \in Nat /\ DOMAIN t.order = 1 .. Len(t.order)
      /\ Range(t.order) = DOMAIN t.entries /\ IsInjective(t.order)
  BY FS_CardinalityType DEF IsTable, WellKept
<1>1. DOMAIN Popped(t, 0).entries = DOMAIN t.entries
  <2>1. 0 \in 0 .. Len(t.order) /\ {t.order[i] : i \in 1 .. 0} = {}
    BY <1>0
  <2>2. DOMAIN Popped(t, 0).entries = DOMAIN t.entries \ {t.order[i] : i \in 1 .. 0}
    BY <2>1, PoppedDomain
  <2> QED
    BY <2>1, <2>2
<1>2. \A n \in 0 .. Len(t.order) : n \in RoomAfter(t, cap)
                                     <=> Cardinality(DOMAIN Popped(t, n).entries) < cap
  BY DEF RoomAfter
<1>3. CASE size < cap
  <2>1. 0 \in RoomAfter(t, cap)
    BY <1>0, <1>1, <1>2, <1>3
  <2>2. \A y \in RoomAfter(t, cap) : 0 <= y
    BY DEF RoomAfter
  <2>3. Min(RoomAfter(t, cap)) = 0
    BY <2>1, <2>2 DEF Min, RoomAfter
  <2> QED
    BY <1>0, <1>3, <2>1, <2>3 DEF MakeRoom
<1>4. CASE size = cap
  <2>1. DOMAIN t.entries # {}
    BY <1>0, <1>4, FS_EmptySet
  <2>2. 1 \in 0 .. Len(t.order) /\ t.order[1] \in DOMAIN t.entries
    BY <1>0, <2>1 DEF Range
  <2>3. DOMAIN Popped(t, 1).entries = DOMAIN t.entries \ {t.order[1]}
    <3>1. {t.order[i] : i \in 1 .. 1} = {t.order[1]}
      OBVIOUS
    <3> QED
      BY <2>2, <3>1, PoppedDomain
  <2>4. Cardinality(DOMAIN Popped(t, 1).entries) = size - 1
    BY <2>2, <2>3, FS_RemoveElement DEF IsTable
  <2>5. 1 \in RoomAfter(t, cap)
    BY <1>0, <1>2, <1>4, <2>2, <2>4
  <2>6. 0 \notin RoomAfter(t, cap)
    BY <1>0, <1>1, <1>2, <1>4
  <2>7. \A y \in RoomAfter(t, cap) : y \in Nat /\ 1 <= y
    BY <1>0, <2>6 DEF RoomAfter
  <2>8. Min(RoomAfter(t, cap)) = 1
    BY <2>5, <2>7 DEF Min
  <2> QED
    BY <1>0, <1>4, <2>2, <2>5, <2>8 DEF MakeRoom
<1> QED
  BY <1>0, <1>3, <1>4

(* insert, record, observe and bump: a well kept table is well kept after  *)
(* every insertion, for every capacity.                                    *)
THEOREM PutKeepsTables ==
  ASSUME NEW K, NEW t, IsTable(t, K), NEW cap \in Nat \ {0}, WellKept(t, cap), NEW k \in K, NEW v
  PROVE  WellKept(Put(t, cap, k, v), cap)
<1> DEFINE size == Cardinality(DOMAIN t.entries)
<1>0. /\ size \in Nat /\ size <= cap /\ Len(t.order) \in Nat /\ DOMAIN t.order = 1 .. Len(t.order)
      /\ Range(t.order) = DOMAIN t.entries /\ IsInjective(t.order)
  BY FS_CardinalityType DEF IsTable, WellKept
<1>2. CASE Holds(t, k)
  <2>1. Put(t, cap, k, v) = [t EXCEPT !.entries = MapInsert(@, k, v)]
    BY <1>2 DEF Put
  <2>2. Put(t, cap, k, v).entries = MapInsert(t.entries, k, v) /\ Put(t, cap, k, v).order = t.order
    BY <2>1 DEF IsTable
  <2>3. DOMAIN MapInsert(t.entries, k, v) = DOMAIN t.entries
    BY <1>2 DEF MapInsert, Holds
  <2> QED
    BY <1>0, <2>2, <2>3 DEF WellKept
<1>3. CASE ~Holds(t, k)
  <2>1. \A n \in 0 .. Len(t.order) : n \in RoomAfter(t, cap)
                                       <=> Cardinality(DOMAIN Popped(t, n).entries) < cap
    BY DEF RoomAfter
  <2>2. PICK n \in 0 .. Len(t.order) : n \in RoomAfter(t, cap) /\ MakeRoom(t, cap) = Popped(t, n)
    BY MakeRoomPops
  <2> DEFINE room == Popped(t, n)
  <2>3. room.order \in Seq(K) /\ Range(room.order) = DOMAIN room.entries /\ IsInjective(room.order)
    BY <1>0, PoppedAgrees
  <2>4. /\ DOMAIN room.entries \subseteq DOMAIN t.entries
        /\ k \notin DOMAIN room.entries
        /\ Cardinality(DOMAIN room.entries) < cap
    BY <1>3, <2>1, <2>2, PoppedDomain DEF Holds
  <2>5. IsFiniteSet(DOMAIN room.entries)
    BY <2>4, FS_Subset DEF IsTable
  <2>6. /\ Put(t, cap, k, v).entries = MapInsert(room.entries, k, v)
        /\ Put(t, cap, k, v).order = Append(room.order, k)
    BY <1>3, <2>2 DEF Put
  <2>7. DOMAIN MapInsert(room.entries, k, v) = DOMAIN room.entries \cup {k}
    BY DEF MapInsert
  <2>8. Cardinality(DOMAIN room.entries \cup {k}) <= cap
    <3>1. Cardinality(DOMAIN room.entries) \in Nat
      BY <2>5, FS_CardinalityType
    <3>2. Cardinality(DOMAIN room.entries \cup {k}) = Cardinality(DOMAIN room.entries) + 1
      BY <2>4, <2>5, FS_AddElement
    <3> QED
      BY <2>4, <3>1, <3>2
  <2> HIDE DEF room
  <2>9. /\ Range(Append(room.order, k)) = Range(room.order) \cup {k}
        /\ IsInjective(Append(room.order, k))
    BY <2>3, <2>4, AppendElements
  <2> QED
    BY <2>3, <2>6, <2>7, <2>8, <2>9 DEF WellKept
<1> QED
  BY <1>2, <1>3
=============================================================================
