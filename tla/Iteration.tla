------------------------------- MODULE Iteration -------------------------------
(***************************************************************************)
(* Facts the proofs need about loops and finite sets: induction along an   *)
(* interval for a set instead of a predicate, that a function defined by   *)
(* what it does with its previous value exists (the loops of the models,   *)
(* settling, walks over waiters, marking, are functions of the turn of     *)
(* this form), and that the members of a finite set can be put in order.   *)
(***************************************************************************)
EXTENDS Integers, Sequences, FiniteSets, FiniteSetTheorems, WellFoundedInduction, TLAPS

(* A set that has 0 and, with any n below K, n + 1, has all of 0 .. K.     *)
LEMMA SetInduction ==
  ASSUME NEW T, NEW K \in Nat, 0 \in T, \A n \in 0 .. K - 1 : n \in T => n + 1 \in T
  PROVE  \A n \in 0 .. K : n \in T
  <1> DEFINE Bad == {n \in 0 .. K : n \notin T}
  <1>1. SUFFICES ASSUME Bad # {} PROVE FALSE
    OBVIOUS
  <1>2. Bad \subseteq Nat
    BY SMT
  <1>3. PICK x \in Bad : \A y \in Bad : ~(<<y, x>> \in OpToRel(<, Nat))
    <2> HIDE DEF Bad
    <2> QED
      BY <1>1, <1>2, NatLessThanWellFounded, WFMin, Zenon
  <1>4. \A y \in Bad : ~(y < x)
    BY <1>2, <1>3 DEF OpToRel
  <1>5. x # 0 /\ x - 1 \in 0 .. K - 1
    BY SMT
  <1>6. x - 1 \in T
    BY <1>4, <1>5, SMT
  <1> QED
    BY <1>5, <1>6, SMT

(* g makes its n-th value of the one before it.                            *)
Iterating(g, K, S, b, F) ==
  /\ g \in [0 .. K -> S]
  /\ g[0] = b
  /\ \A n \in 1 .. K : g[n] = F[<<n, g[n - 1]>>]

(* Such a function exists.                                                 *)
LEMMA Iterates ==
  ASSUME NEW K \in Nat, NEW S, NEW b \in S, NEW F \in [(1 .. K) \X S -> S]
  PROVE  \E g : Iterating(g, K, S, b, F)
  <1> DEFINE Body(g, m) == [n \in 0 .. m |-> IF n = 0 THEN b ELSE F[<<n, g[n - 1]>>]]
             T == {m \in 0 .. K : \E g \in [0 .. m -> S] : g = Body(g, m)}
  <1>1. 0 \in T
    <2> DEFINE g == [n \in 0 .. 0 |-> b]
    <2>1. g = Body(g, 0) /\ g \in [0 .. 0 -> S]
      BY SMT
    <2> HIDE DEF g
    <2> QED
      BY <2>1, SMT
  <1>2. ASSUME NEW m \in 0 .. K - 1, m \in T PROVE m + 1 \in T
    <2>1. PICK g \in [0 .. m -> S] : g = Body(g, m)
      BY <1>2
    <2> DEFINE h == Body(g, m + 1)
    <2>2. \A n \in 1 .. m + 1 : g[n - 1] \in S /\ n \in 1 .. K
      BY SMT
    <2>3. \A n \in 1 .. m + 1 : F[<<n, g[n - 1]>>] \in S
      BY <2>2, Zenon
    <2>4. h \in [0 .. m + 1 -> S]
      BY <2>3, SMT
    <2>5. \A n \in 0 .. m : g[n] = IF n = 0 THEN b ELSE F[<<n, g[n - 1]>>]
      BY <2>1, Zenon
    <2>6. \A n \in 0 .. m + 1 : h[n] = IF n = 0 THEN b ELSE F[<<n, g[n - 1]>>]
      BY SMT
    <2> HIDE DEF h
    <2>7. \A n \in 0 .. m : n \in 0 .. m + 1
      BY SMT
    <2>8. \A n \in 0 .. m : h[n] = g[n]
      BY <2>7, <2>5, <2>6, Zenon
    <2>9. \A n \in 0 .. m + 1 : n # 0 => n - 1 \in 0 .. m
      BY SMT
    <2>10. \A n \in 0 .. m + 1 : n # 0 => h[n - 1] = g[n - 1]
      BY <2>8, <2>9, Zenon
    <2>11. h = [n \in 0 .. m + 1 |-> h[n]]
      BY <2>4, Zenon
    <2>12. \A n \in 0 .. m + 1 : h[n] = IF n = 0 THEN b ELSE F[<<n, h[n - 1]>>]
      BY <2>6, <2>10, Zenon
    <2>13. h = Body(h, m + 1)
      BY <2>11, <2>12, SMT
    <2>14. m + 1 \in 0 .. K
      BY SMT
    <2> QED
      BY <2>4, <2>13, <2>14
  <1>3. K \in T
    <2> HIDE DEF T
    <2>1. \A m \in 0 .. K - 1 : m \in T => m + 1 \in T
      BY <1>2
    <2> QED
      BY <1>1, <2>1, SetInduction, SMT
  <1>4. PICK g \in [0 .. K -> S] : g = Body(g, K)
    BY <1>3
  <1>5. \A n \in 0 .. K : g[n] = IF n = 0 THEN b ELSE F[<<n, g[n - 1]>>]
    BY <1>4, Zenon
  <1>6. 0 \in 0 .. K /\ \A n \in 1 .. K : n \in 0 .. K /\ n # 0
    BY SMT
  <1>7. Iterating(g, K, S, b, F)
    BY <1>4, <1>5, <1>6, Zenon DEF Iterating
  <1> QED
    BY <1>7, Zenon

-----------------------------------------------------------------------------
(* A set of naturals that is not empty has a least element.                *)
LEMMA LeastExists ==
  ASSUME NEW S \in SUBSET Nat, S # {}
  PROVE  \E x \in S : \A y \in S : x <= y
  <1>1. PICK x \in S : \A y \in S : ~(<<y, x>> \in OpToRel(<, Nat))
    BY NatLessThanWellFounded, WFMin, Zenon
  <1>2. \A y \in S : ~(y < x)
    BY <1>1 DEF OpToRel
  <1>3. \A y \in S : y \in Nat /\ x \in Nat
    OBVIOUS
  <1> QED
    BY <1>2, <1>3, SMT

(* A finite number of finite sets makes a finite set.                      *)
LEMMA FiniteUnion ==
  ASSUME NEW S, IsFiniteSet(S), NEW g, \A x \in S : IsFiniteSet(g[x])
  PROVE  IsFiniteSet(UNION {g[x] : x \in S})
  <1> DEFINE T == {g[x] : x \in S}
             f == [x \in S |-> g[x]]
  <1>1. f \in Surjection(S, T)
    BY DEF Surjection
  <1>2. IsFiniteSet(T)
    <2> HIDE DEF f, T
    <2> QED
      BY <1>1, FS_Surjection
  <1>3. \A U \in T : IsFiniteSet(U)
    OBVIOUS
  <1> HIDE DEF T
  <1>4. IsFiniteSet(UNION T)
    BY <1>2, <1>3, FS_UNION
  <1> QED
    BY <1>4 DEF T

-----------------------------------------------------------------------------
(* A set put in order is a sequence that names each member once.           *)
Enumerates(s, S) ==
  /\ s \in Seq(S)
  /\ \A i, j \in 1 .. Len(s) : i # j => s[i] # s[j]
  /\ \A c \in S : \E i \in 1 .. Len(s) : s[i] = c

(* below says which members come before each, and orders them all.         *)
Ordering(below, S) ==
  /\ \A c \in S : below[c] \subseteq S \ {c}
  /\ \A c, e \in S : c # e => \/ c \in below[e] /\ below[c] \subseteq below[e]
                              \/ e \in below[c] /\ below[e] \subseteq below[c]

(* How many come before tells the members apart and uses each number below *)
(* the size of the set.                                                    *)
LEMMA Ranks ==
  ASSUME NEW S, IsFiniteSet(S), NEW below, Ordering(below, S)
  PROVE  /\ Cardinality(S) \in Nat
         /\ \A c \in S : Cardinality(below[c]) \in 0 .. Cardinality(S) - 1
         /\ \A c, e \in S : Cardinality(below[c]) = Cardinality(below[e]) => c = e
         /\ \A i \in 0 .. Cardinality(S) - 1 : \E c \in S : Cardinality(below[c]) = i
  <1> DEFINE n == Cardinality(S)
             f == [c \in S |-> Cardinality(below[c])]
  <1>1. n \in Nat
    BY FS_CardinalityType
  <1>2. ASSUME NEW c \in S PROVE IsFiniteSet(below[c]) /\ Cardinality(below[c]) \in 0 .. n - 1
    <2>1. below[c] \in SUBSET (S \ {c})
      BY DEF Ordering
    <2>2. IsFiniteSet(S \ {c}) /\ Cardinality(S \ {c}) = n - 1
      BY FS_RemoveElement
    <2>3. Cardinality(below[c]) <= n - 1 /\ IsFiniteSet(below[c])
      BY <2>1, <2>2, FS_Subset, ZenonT(60)
    <2>4. Cardinality(below[c]) \in Nat
      BY <2>3, FS_CardinalityType, Zenon
    <2> QED
      BY <1>1, <2>3, <2>4
  <1>3. ASSUME NEW c \in S, NEW e \in S, c \in below[e], below[c] \subseteq below[e]
        PROVE  Cardinality(below[c]) # Cardinality(below[e])
    <2>1. c \notin below[c]
      BY DEF Ordering
    <2> QED
      BY <1>2, <1>3, <2>1, FS_Subset
  <1>4. \A c, e \in S : Cardinality(below[c]) = Cardinality(below[e]) => c = e
    BY <1>3, Zenon DEF Ordering
  <1>5. f \in Injection(S, 0 .. n - 1)
    <2>1. f \in [S -> 0 .. n - 1]
      BY <1>2
    <2>2. \A c, e \in S : f[c] = f[e] => c = e
      BY <1>4
    <2> QED
      BY <2>1, <2>2, Zenon DEF Injection, IsInjective
  <1>6. IsFiniteSet(0 .. n - 1) /\ Cardinality(0 .. n - 1) = n
    <2>1. 0 \in Int /\ n - 1 \in Int
      BY <1>1
    <2> QED
      BY <1>1, <2>1, FS_Interval
  <1>7. f \in Surjection(S, 0 .. n - 1)
    <2> HIDE DEF f
    <2> QED
      BY <1>5, <1>6, FS_Injection
  <1>8. \A i \in 0 .. n - 1 : \E c \in S : Cardinality(below[c]) = i
    BY <1>7 DEF Surjection
  <1> QED
    BY <1>1, <1>2, <1>4, <1>8

(* So listing the members by how many come before enumerates the set.      *)
LEMMA Listing ==
  ASSUME NEW S, IsFiniteSet(S), NEW below, Ordering(below, S)
  PROVE  \A a : a = [i \in 1 .. Cardinality(S) |-> CHOOSE c \in S : Cardinality(below[c]) = i - 1]
                  => Enumerates(a, S) /\ Len(a) = Cardinality(S)
  <1> DEFINE n == Cardinality(S)
  <1>1. SUFFICES ASSUME NEW a, a = [i \in 1 .. n |-> CHOOSE c \in S : Cardinality(below[c]) = i - 1]
                 PROVE  Enumerates(a, S) /\ Len(a) = n
    OBVIOUS
  <1>2. /\ n \in Nat
        /\ \A c \in S : Cardinality(below[c]) \in 0 .. n - 1
        /\ \A c, e \in S : Cardinality(below[c]) = Cardinality(below[e]) => c = e
        /\ \A i \in 0 .. n - 1 : \E c \in S : Cardinality(below[c]) = i
    BY Ranks
  <1> HIDE DEF n
  <1>3. ASSUME NEW i \in 1 .. n PROVE a[i] \in S /\ Cardinality(below[a[i]]) = i - 1
    <2>1. i - 1 \in 0 .. n - 1
      BY <1>2
    <2>2. \E c \in S : Cardinality(below[c]) = i - 1
      BY <1>2, <2>1, Zenon
    <2>3. a[i] = CHOOSE c \in S : Cardinality(below[c]) = i - 1
      BY <1>1
    <2> QED
      BY <2>2, <2>3, Zenon
  <1>4. a \in [1 .. n -> S]
    <2>1. a = [i \in 1 .. n |-> a[i]]
      BY <1>1
    <2> QED
      BY <1>3, <2>1, Zenon
  <1>5. a \in Seq(S) /\ Len(a) = n
    BY <1>2, <1>4
  <1>6. \A i, j \in 1 .. n : i # j => a[i] # a[j]
    <2>1. \A i, j \in 1 .. n : i # j => i - 1 # j - 1
      BY <1>2
    <2> QED
      BY <1>3, <2>1, Zenon
  <1>7. \A c \in S : \E i \in 1 .. n : a[i] = c
    <2>1. SUFFICES ASSUME NEW c \in S PROVE \E i \in 1 .. n : a[i] = c
      OBVIOUS
    <2> DEFINE r == Cardinality(below[c])
    <2>2. r \in 0 .. n - 1
      BY <1>2, Zenon
    <2>3. r + 1 \in 1 .. n /\ (r + 1) - 1 = r
      BY <1>2, <2>2, SMT
    <2>4. a[r + 1] \in S /\ Cardinality(below[a[r + 1]]) = r
      BY <1>3, <2>3
    <2> QED
      BY <1>2, <2>3, <2>4, Zenon
  <1> QED
    BY <1>5, <1>6, <1>7 DEF Enumerates, n
=============================================================================
