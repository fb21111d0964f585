------------------------------ MODULE SchedProofs ------------------------------
(***************************************************************************)
(* Proofs about the scheduler of module Sched, for any regions, any        *)
(* worlds and any bounds.                                                  *)
(***************************************************************************)
EXTENDS SchedProperties, Iteration, SequenceTheorems

(***************************************************************************)
(* A list of waiters sorted: the loop over it does what its body says.     *)
(***************************************************************************)
SortedStep(ws, i, before) ==
  IF ws[i].kind = "cont"
  THEN [before EXCEPT !.cont = Append(@, ws[i].id)]
  ELSE [before EXCEPT !.promise = Append(@, ws[i].id)]

SortedAcc == [cont : Seq(Nat), promise : Seq(Nat)]

(* Sorted is the function its definition describes: it starts empty and    *)
(* takes one waiter a turn.                                                *)
LEMMA SortedDef ==
  ASSUME NEW ws \in Seq(Waiter)
  PROVE  /\ Sorted(ws) \in [0 .. Len(ws) -> SortedAcc]
         /\ Sorted(ws)[0] = [cont |-> <<>>, promise |-> <<>>]
         /\ \A i \in 1 .. Len(ws) : Sorted(ws)[i] = SortedStep(ws, i, Sorted(ws)[i - 1])
  <1> DEFINE S == SortedAcc
             K == Len(ws)
             b == [cont |-> <<>>, promise |-> <<>>]
             F == [x \in (1 .. K) \X S |-> SortedStep(ws, x[1], x[2])]
             Is(g) == g = [i \in 0 .. K |-> IF i = 0 THEN b ELSE SortedStep(ws, i, g[i - 1])]
  <1>1. K \in Nat
    BY LenProperties
  <1>2. b \in S
    BY EmptySeq DEF SortedAcc
  <1>3. ASSUME NEW i \in 1 .. K, NEW a \in S PROVE SortedStep(ws, i, a) \in S
    <2>1. ws[i] \in Waiter
      BY ElementOfSeq
    <2>2. ws[i].id \in Nat
      BY <2>1 DEF Waiter
    <2>3. Append(a.cont, ws[i].id) \in Seq(Nat) /\ Append(a.promise, ws[i].id) \in Seq(Nat)
      BY <2>2, AppendProperties DEF SortedAcc
    <2> QED
      BY <2>3 DEF SortedStep, SortedAcc
  <1> HIDE DEF S, b
  <1>4. F \in [(1 .. K) \X S -> S]
    <2>1. \A x \in (1 .. K) \X S : SortedStep(ws, x[1], x[2]) \in S
      BY <1>3, SMT
    <2> QED
      BY <2>1, Zenon
  <1> HIDE DEF F, K
  <1>a. PICK g : Iterating(g, K, S, b, F)
    BY <1>1, <1>2, <1>4, Iterates, Zenon
  <1>5. g \in [0 .. K -> S] /\ g[0] = b /\ \A i \in 1 .. K : g[i] = F[<<i, g[i - 1]>>]
    BY <1>a, Zenon DEF Iterating
  <1>6. \A i \in 0 .. K : i # 0 => i \in 1 .. K /\ i - 1 \in 0 .. K
    BY <1>1, SMT
  <1>7. \A i \in 1 .. K, a \in S : F[<<i, a>>] = SortedStep(ws, i, a)
    BY Zenon DEF F
  <1>8. Is(g)
    <2>1. \A i \in 0 .. K : g[i] = IF i = 0 THEN b ELSE SortedStep(ws, i, g[i - 1])
      BY <1>5, <1>6, <1>7, Zenon
    <2>2. g = [i \in 0 .. K |-> g[i]]
      BY <1>5, Zenon
    <2> QED
      BY <2>1, <2>2, Zenon
  <1>9. Is(Sorted(ws))
    <2>1. Sorted(ws) = CHOOSE f : Is(f)
      BY Zenon DEF Sorted, SortedStep, K, b
    <2> QED
      BY <1>8, <2>1, Zenon
  <1> DEFINE h == Sorted(ws)
  <1>10. h = [i \in 0 .. K |-> IF i = 0 THEN b ELSE SortedStep(ws, i, h[i - 1])]
    BY <1>9
  <1> HIDE DEF h, Is
  <1>11. \A i \in 0 .. K : h[i] = IF i = 0 THEN b ELSE SortedStep(ws, i, h[i - 1])
    BY <1>10, Zenon
  <1>12. 0 \in 0 .. K /\ \A i \in 1 .. K : i \in 0 .. K /\ i # 0
    BY <1>1, SMT
  <1>13. h[0] = b /\ \A i \in 1 .. K : h[i] = SortedStep(ws, i, h[i - 1])
    BY <1>11, <1>12, Zenon
  <1>14. \A i \in 0 .. K : h[i] \in S
    <2> DEFINE T == {i \in 0 .. K : h[i] \in S}
    <2>1. 0 \in T
      BY <1>2, <1>12, <1>13
    <2>2. \A i \in 0 .. K - 1 : i \in T => i + 1 \in T
      BY <1>1, <1>3, <1>13, SMT
    <2> HIDE DEF T
    <2>3. \A i \in 0 .. K : i \in T
      BY <1>1, <2>1, <2>2, SetInduction
    <2> QED
      BY <2>3 DEF T
  <1>15. h \in [0 .. K -> S]
    BY <1>10, <1>14, Zenon
  <1> QED
    BY <1>13, <1>15 DEF h, S, K, b

(* What has been sorted out of the first i waiters: each once, in order.    *)
SortedUpTo(ws, i, r) ==
  /\ \A k, l \in 1 .. Len(r.cont) : k < l =>
       \E j, m \in 1 .. i : j < m /\ ws[j] = Frame(r.cont[k]) /\ ws[m] = Frame(r.cont[l])
  /\ \A k \in 1 .. Len(r.cont) : \E j \in 1 .. i : ws[j] = Frame(r.cont[k])
  /\ \A j \in 1 .. i : ws[j].kind = "cont" => \E k \in 1 .. Len(r.cont) : r.cont[k] = ws[j].id
  /\ \A k \in 1 .. Len(r.promise) : \E j \in 1 .. i : ws[j] = Adopter(r.promise[k])
  /\ \A j \in 1 .. i : ws[j].kind = "promise" =>
       \E k \in 1 .. Len(r.promise) : r.promise[k] = ws[j].id
  /\ Len(r.promise) = Cardinality({j \in 1 .. i : ws[j].kind = "promise"})

(* A waiter is a frame or an adopter of its own number.                    *)
LEMMA WaiterForms ==
  ASSUME NEW w \in Waiter
  PROVE  /\ w.id \in Nat
         /\ w.kind = "cont" => w = Frame(w.id)
         /\ w.kind # "cont" => w.kind = "promise" /\ w = Adopter(w.id)
  BY DEF Waiter, Frame, Adopter

(* One more waiter sorted keeps what is said of those sorted so far.       *)
LEMMA SortedStepKeeps ==
  ASSUME NEW ws \in Seq(Waiter), NEW i \in Nat, i + 1 <= Len(ws),
         NEW r \in SortedAcc, SortedUpTo(ws, i, r)
  PROVE  SortedUpTo(ws, i + 1, SortedStep(ws, i + 1, r))
  <1> DEFINE w == ws[i + 1]
             n == SortedStep(ws, i + 1, r)
  <1>1. w \in Waiter /\ r.cont \in Seq(Nat) /\ r.promise \in Seq(Nat) /\ w.id \in Nat
    <2>1. i + 1 \in 1 .. Len(ws)
      BY LenProperties
    <2>2. w \in Waiter
      BY <2>1, ElementOfSeq
    <2> QED
      BY <2>2 DEF SortedAcc, Waiter
  <1>f. /\ Len(r.cont) \in Nat /\ Len(r.promise) \in Nat
    BY <1>1, LenProperties
  <1>2. CASE w.kind = "cont"
    <2>1. w = Frame(w.id) /\ w.kind # "promise"
      BY <1>1, <1>2, WaiterForms
    <2>2. n.cont = Append(r.cont, w.id) /\ n.promise = r.promise
      BY <1>2 DEF SortedStep, SortedAcc
    <2> HIDE DEF n
    <2>3. /\ Len(n.cont) = Len(r.cont) + 1
          /\ n.cont[Len(r.cont) + 1] = w.id
          /\ \A k \in 1 .. Len(r.cont) : n.cont[k] = r.cont[k]
      BY <1>1, <2>2, AppendProperties
    <2>4. \A k, l \in 1 .. Len(n.cont) : k < l =>
            \E j, m \in 1 .. i + 1 : j < m /\ ws[j] = Frame(n.cont[k]) /\ ws[m] = Frame(n.cont[l])
      <3>1. SUFFICES ASSUME NEW k \in 1 .. Len(n.cont), NEW l \in 1 .. Len(n.cont), k < l
                     PROVE  \E j, m \in 1 .. i + 1 :
                              j < m /\ ws[j] = Frame(n.cont[k]) /\ ws[m] = Frame(n.cont[l])
        OBVIOUS
      <3>2. k \in 1 .. Len(r.cont) /\ n.cont[k] = r.cont[k]
        BY <1>f, <2>3, <3>1
      <3>3. CASE l \in 1 .. Len(r.cont)
        BY <2>3, <3>1, <3>2, <3>3 DEF SortedUpTo
      <3>4. CASE l = Len(r.cont) + 1
        <4>1. PICK j \in 1 .. i : ws[j] = Frame(r.cont[k])
          BY <3>2 DEF SortedUpTo
        <4>2. j < i + 1 /\ j \in 1 .. i + 1 /\ i + 1 \in 1 .. i + 1
          BY <4>1
        <4>3. ws[i + 1] = Frame(n.cont[l])
          BY <2>1, <2>3, <3>4
        <4> QED
          BY <3>2, <4>1, <4>2, <4>3
      <3> QED
        BY <1>f, <2>3, <3>3, <3>4
    <2>5. \A k \in 1 .. Len(n.cont) : \E j \in 1 .. i + 1 : ws[j] = Frame(n.cont[k])
      <3>1. TAKE k \in 1 .. Len(n.cont)
      <3>2. CASE k \in 1 .. Len(r.cont)
        BY <2>3, <3>2 DEF SortedUpTo
      <3>3. CASE k = Len(r.cont) + 1
        BY <2>1, <2>3, <3>3
      <3>4. k \in 1 .. Len(r.cont) \/ k = Len(r.cont) + 1
        BY <1>f, <2>3
      <3> QED
        BY <3>2, <3>3, <3>4, Zenon
    <2>6. \A j \in 1 .. i + 1 : ws[j].kind = "cont" =>
            \E k \in 1 .. Len(n.cont) : n.cont[k] = ws[j].id
      <3>1. TAKE j \in 1 .. i + 1
      <3>2. CASE j \in 1 .. i
        <4>1. ws[j].kind = "cont" => \E k \in 1 .. Len(r.cont) : r.cont[k] = ws[j].id
          BY <3>2, Zenon DEF SortedUpTo
        <4>2. \A k \in 1 .. Len(r.cont) : k \in 1 .. Len(n.cont) /\ n.cont[k] = r.cont[k]
          BY <1>f, <2>3
        <4> QED
          BY <4>1, <4>2, Zenon
      <3>3. CASE j = i + 1
        BY <1>f, <2>3, <3>3
      <3> QED
        BY <3>2, <3>3
    <2>7. \A j \in 1 .. i + 1 : ws[j].kind = "promise" => j \in 1 .. i
      BY <2>1
    <2>8. {j \in 1 .. i + 1 : ws[j].kind = "promise"} = {j \in 1 .. i : ws[j].kind = "promise"}
      BY <2>7
    <2>9. \A k \in 1 .. Len(n.promise) : \E j \in 1 .. i + 1 : ws[j] = Adopter(n.promise[k])
      BY <2>2 DEF SortedUpTo
    <2>10. \A j \in 1 .. i + 1 : ws[j].kind = "promise" =>
             \E k \in 1 .. Len(n.promise) : n.promise[k] = ws[j].id
      BY <2>2, <2>7 DEF SortedUpTo
    <2>11. Len(n.promise) = Cardinality({j \in 1 .. i + 1 : ws[j].kind = "promise"})
      BY <2>2, <2>8 DEF SortedUpTo
    <2> QED
      BY <2>4, <2>5, <2>6, <2>9, <2>10, <2>11 DEF SortedUpTo, n
  <1>3. CASE w.kind # "cont"
    <2>1. w = Adopter(w.id) /\ w.kind = "promise"
      BY <1>1, <1>3, WaiterForms
    <2>2. n.promise = Append(r.promise, w.id) /\ n.cont = r.cont
      BY <1>3 DEF SortedStep, SortedAcc
    <2> HIDE DEF n
    <2>3. /\ Len(n.promise) = Len(r.promise) + 1
          /\ n.promise[Len(r.promise) + 1] = w.id
          /\ \A k \in 1 .. Len(r.promise) : n.promise[k] = r.promise[k]
      BY <1>1, <2>2, AppendProperties
    <2>4. \A k, l \in 1 .. Len(n.cont) : k < l =>
            \E j, m \in 1 .. i + 1 : j < m /\ ws[j] = Frame(n.cont[k]) /\ ws[m] = Frame(n.cont[l])
      BY <2>2 DEF SortedUpTo
    <2>5. \A k \in 1 .. Len(n.cont) : \E j \in 1 .. i + 1 : ws[j] = Frame(n.cont[k])
      BY <2>2 DEF SortedUpTo
    <2>6. \A j \in 1 .. i + 1 : ws[j].kind = "cont" => \E k \in 1 .. Len(n.cont) : n.cont[k] = ws[j].id
      BY <2>1, <2>2 DEF SortedUpTo
    <2>9. \A k \in 1 .. Len(n.promise) : \E j \in 1 .. i + 1 : ws[j] = Adopter(n.promise[k])
      <3>1. TAKE k \in 1 .. Len(n.promise)
      <3>2. CASE k \in 1 .. Len(r.promise)
        BY <2>3, <3>2 DEF SortedUpTo
      <3>3. CASE k = Len(r.promise) + 1
        BY <2>1, <2>3, <3>3
      <3>4. k \in 1 .. Len(r.promise) \/ k = Len(r.promise) + 1
        BY <1>f, <2>3
      <3> QED
        BY <3>2, <3>3, <3>4, Zenon
    <2>10. \A j \in 1 .. i + 1 : ws[j].kind = "promise" =>
             \E k \in 1 .. Len(n.promise) : n.promise[k] = ws[j].id
      <3>1. TAKE j \in 1 .. i + 1
      <3>2. CASE j \in 1 .. i
        <4>1. ws[j].kind = "promise" => \E k \in 1 .. Len(r.promise) : r.promise[k] = ws[j].id
          BY <3>2, Zenon DEF SortedUpTo
        <4>2. \A k \in 1 .. Len(r.promise) : k \in 1 .. Len(n.promise) /\ n.promise[k] = r.promise[k]
          BY <1>f, <2>3
        <4> QED
          BY <4>1, <4>2, Zenon
      <3>3. CASE j = i + 1
        BY <1>f, <2>3, <3>3
      <3> QED
        BY <3>2, <3>3
    <2>11. Len(n.promise) = Cardinality({j \in 1 .. i + 1 : ws[j].kind = "promise"})
      <3> DEFINE A == {j \in 1 .. i : ws[j].kind = "promise"}
      <3>1. {j \in 1 .. i + 1 : ws[j].kind = "promise"} = A \cup {i + 1} /\ i + 1 \notin A
        BY <2>1
      <3>2. IsFiniteSet(A)
        <4>1. IsFiniteSet(1 .. i) /\ A \subseteq 1 .. i
          BY FS_Interval
        <4> QED
          BY <4>1, FS_Subset, Zenon
      <3> HIDE DEF A
      <3>3. Cardinality(A \cup {i + 1}) = Cardinality(A) + 1
        BY <3>1, <3>2, FS_AddElement
      <3>4. Len(r.promise) = Cardinality(A)
        BY DEF SortedUpTo, A
      <3> QED
        BY <2>3, <3>1, <3>3, <3>4
    <2> QED
      BY <2>4, <2>5, <2>6, <2>9, <2>10, <2>11 DEF SortedUpTo, n
  <1> QED
    BY <1>2, <1>3

(* Sorting a whole list: what is woken is each parked frame, in the order   *)
(* they were parked, and what is pushed is each adopter.                    *)
LEMMA Sorting ==
  ASSUME NEW ws \in Seq(Waiter)
  PROVE  /\ FramesOf(ws) \in Seq(Nat) /\ AdoptersOf(ws) \in Seq(Nat)
         /\ SortedUpTo(ws, Len(ws), [cont |-> FramesOf(ws), promise |-> AdoptersOf(ws)])
  <1> DEFINE T == {i \in 0 .. Len(ws) : SortedUpTo(ws, i, Sorted(ws)[i])}
  <1>1. Len(ws) \in Nat
    BY LenProperties
  <1>2. 0 \in T
    <2>1. Sorted(ws)[0] = [cont |-> <<>>, promise |-> <<>>]
      BY SortedDef
    <2>2. {j \in 1 .. 0 : ws[j].kind = "promise"} = {}
      OBVIOUS
    <2>3. Cardinality({}) = 0
      BY FS_EmptySet
    <2>4. SortedUpTo(ws, 0, [cont |-> <<>>, promise |-> <<>>])
      BY <2>2, <2>3 DEF SortedUpTo
    <2> QED
      BY <1>1, <2>1, <2>4
  <1>3. \A i \in 0 .. Len(ws) - 1 : i \in T => i + 1 \in T
    <2>1. SUFFICES ASSUME NEW i \in 0 .. Len(ws) - 1, i \in T PROVE i + 1 \in T
      OBVIOUS
    <2>2. i \in Nat /\ i + 1 <= Len(ws) /\ i + 1 \in 1 .. Len(ws) /\ i + 1 \in 0 .. Len(ws)
          /\ (i + 1) - 1 = i /\ i \in 0 .. Len(ws)
      BY <1>1
    <2>3. Sorted(ws)[i] \in SortedAcc
      BY <2>2, SortedDef
    <2>4. Sorted(ws)[i + 1] = SortedStep(ws, i + 1, Sorted(ws)[i])
      BY <2>2, SortedDef, Zenon
    <2>5. SortedUpTo(ws, i + 1, SortedStep(ws, i + 1, Sorted(ws)[i]))
      BY <2>1, <2>2, <2>3, SortedStepKeeps
    <2> QED
      BY <2>2, <2>4, <2>5
  <1> HIDE DEF T
  <1>4. Len(ws) \in T
    <2>1. \A i \in 0 .. Len(ws) : i \in T
      BY <1>1, <1>2, <1>3, SetInduction
    <2> QED
      BY <1>1, <2>1
  <1>5. Sorted(ws)[Len(ws)] \in SortedAcc
    BY <1>1, SortedDef
  <1>6. Sorted(ws)[Len(ws)] = [cont |-> FramesOf(ws), promise |-> AdoptersOf(ws)]
    BY <1>5 DEF FramesOf, AdoptersOf, SortedAcc
  <1> QED
    BY <1>4, <1>5, <1>6 DEF T, SortedAcc, FramesOf, AdoptersOf

(***************************************************************************)
(* The adopters of a table are finitely many, and a promise that settles   *)
(* takes its own out of them: what bounds the loop of settle.              *)
(***************************************************************************)
LEMMA AdoptionsFinite ==
  ASSUME NEW ws \in Seq(Seq(Waiter))
  PROVE  IsFiniteSet(Adoptions(ws)) /\ Cardinality(Adoptions(ws)) \in Nat
  <1> DEFINE N == 1 .. Len(ws)
             Own(p) == {p} \X {i \in 1 .. Len(ws[p]) : ws[p][i].kind = "promise"}
             All == {Own(p) : p \in N}
             f == [p \in N |-> Own(p)]
  <1>1. Len(ws) \in Nat
    BY LenProperties
  <1>2. IsFiniteSet(N)
    BY <1>1, FS_Interval
  <1>3. ASSUME NEW p \in N PROVE IsFiniteSet(Own(p))
    <2>1. ws[p] \in Seq(Waiter)
      BY ElementOfSeq
    <2>2. Len(ws[p]) \in Nat
      BY <2>1, LenProperties
    <2>3. IsFiniteSet(1 .. Len(ws[p]))
      BY <2>2, FS_Interval
    <2>4. IsFiniteSet({i \in 1 .. Len(ws[p]) : ws[p][i].kind = "promise"})
      BY <2>3, FS_Subset, Zenon
    <2>5. IsFiniteSet({p})
      BY FS_Singleton
    <2> QED
      BY <2>4, <2>5, FS_Product, Zenon
  <1>4. Adoptions(ws) = UNION All
    BY Zenon DEF Adoptions
  <1>5. IsFiniteSet(All)
    <2>1. f \in Surjection(N, All)
      BY Zenon DEF Surjection
    <2> HIDE DEF All, f, N
    <2> QED
      BY <1>2, <2>1, FS_Surjection, Zenon
  <1>6. \A T \in All : IsFiniteSet(T)
    BY <1>3, Zenon
  <1> HIDE DEF All
  <1>7. IsFiniteSet(Adoptions(ws))
    BY <1>4, <1>5, <1>6, FS_UNION, Zenon
  <1> QED
    BY <1>7, FS_CardinalityType, Zenon

(* Taking a promise's waiters removes as many adoptions as it had adopters.*)
LEMMA AdoptionsTaken ==
  ASSUME NEW ws \in Seq(Seq(Waiter)), NEW p \in 1 .. Len(ws)
  PROVE  LET rest == [ws EXCEPT ![p] = <<>>]
         IN  /\ rest \in Seq(Seq(Waiter))
             /\ Cardinality(Adoptions(ws)) = Cardinality(Adoptions(rest)) + Len(AdoptersOf(ws[p]))
  <1> DEFINE rest == [ws EXCEPT ![p] = <<>>]
             At(v, q) == {i \in 1 .. Len(v[q]) : v[q][i].kind = "promise"}
             Own == {p} \X At(ws, p)
  <1>1. <<>> \in Seq(Waiter) /\ Len(<<>>) = 0 /\ Len(ws) \in Nat
    BY EmptySeq, LenProperties
  <1>2. /\ rest \in Seq(Seq(Waiter)) /\ Len(rest) = Len(ws)
        /\ \A q \in 1 .. Len(ws) : rest[q] = IF q = p THEN <<>> ELSE ws[q]
    BY <1>1, ExceptSeq, SMT
  <1> HIDE DEF rest
  <1>3. ws[p] \in Seq(Waiter)
    BY ElementOfSeq
  <1>4. Adoptions(ws) = Adoptions(rest) \cup Own /\ Adoptions(rest) \cap Own = {}
    <2>1. \A x : /\ x \in Adoptions(ws) <=> \E q \in 1 .. Len(ws) : x \in {q} \X At(ws, q)
                 /\ x \in Adoptions(rest) <=> \E q \in 1 .. Len(ws) : x \in {q} \X At(rest, q)
      <3>1. /\ Adoptions(ws) = UNION {{q} \X At(ws, q) : q \in 1 .. Len(ws)}
            /\ Adoptions(rest) = UNION {{q} \X At(rest, q) : q \in 1 .. Len(rest)}
        BY Zenon DEF Adoptions
      <3> HIDE DEF At, rest
      <3> QED
        BY <1>2, <3>1, Zenon
    <2>2. At(rest, p) = {}
      BY <1>1, <1>2
    <2>3. \A q \in 1 .. Len(ws) : q # p => At(rest, q) = At(ws, q)
      BY <1>2
    <2> HIDE DEF At
    <2>4. \A x : x \in Adoptions(ws) <=> x \in Adoptions(rest) \/ x \in Own
      BY <2>1, <2>2, <2>3
    <2>5. \A x : ~(x \in Adoptions(rest) /\ x \in Own)
      BY <2>1, <2>2
    <2> QED
      BY <2>4, <2>5
  <1>5. IsFiniteSet(Adoptions(rest)) /\ Cardinality(Adoptions(rest)) \in Nat
    BY <1>2, AdoptionsFinite
  <1>6. IsFiniteSet(Own) /\ Cardinality(Own) = Len(AdoptersOf(ws[p]))
    <2>1. Len(ws[p]) \in Nat
      BY <1>3, LenProperties
    <2>2. IsFiniteSet(At(ws, p))
      <3>1. IsFiniteSet(1 .. Len(ws[p]))
        BY <2>1, FS_Interval
      <3>2. At(ws, p) \in SUBSET (1 .. Len(ws[p]))
        OBVIOUS
      <3> QED
        BY <3>1, <3>2, FS_Subset, Zenon
    <2>3. Len(AdoptersOf(ws[p])) = Cardinality(At(ws, p))
      BY <1>3, Sorting DEF SortedUpTo
    <2>4. IsFiniteSet({p}) /\ Cardinality({p}) = 1
      BY FS_Singleton
    <2> HIDE DEF At
    <2>5. IsFiniteSet(Own) /\ Cardinality(Own) = Cardinality({p}) * Cardinality(At(ws, p))
      BY <2>2, <2>4, FS_Product, Zenon
    <2>6. Cardinality(At(ws, p)) \in Nat
      BY <2>2, FS_CardinalityType, Zenon
    <2> QED
      BY <2>3, <2>4, <2>5, <2>6
  <1>7. Cardinality(Own) \in Nat
    BY <1>6, FS_CardinalityType, Zenon
  <1> HIDE DEF Own
  <1>8. Cardinality(Adoptions(ws))
          = Cardinality(Adoptions(rest)) + Cardinality(Own) - Cardinality(Adoptions(rest) \cap Own)
    BY <1>4, <1>5, <1>6, FS_Union, Zenon
  <1>9. Cardinality(Adoptions(rest) \cap Own) = 0
    BY <1>4, FS_EmptySet, Zenon
  <1> QED
    BY <1>2, <1>5, <1>6, <1>7, <1>8, <1>9 DEF rest

(***************************************************************************)
(* The walk of would_cycle: what it has seen in the end is closed under    *)
(* waiting, and is the least such set.  A walk of as many turns as there   *)
(* are promises is long enough, for each turn that is not the last sees a  *)
(* promise more.                                                           *)
(***************************************************************************)
Closed(S) == \A p \in S : \A q \in Promise : Waits(q, p) => q \in S

SeenStep(S) == S \cup {q \in Promise : \E p \in S : Waits(q, p)}

(* Seen is the function its definition describes: the walk starts at one   *)
(* promise and widens each turn.                                           *)
LEMMA SeenDef ==
  ASSUME NEW id \in Promise, Len(state) \in Nat
  PROVE  /\ Seen(id) \in [0 .. Len(state) -> SUBSET Promise]
         /\ Seen(id)[0] = {id}
         /\ \A n \in 1 .. Len(state) : Seen(id)[n] = SeenStep(Seen(id)[n - 1])
  <1> DEFINE K == Len(state)
             S == SUBSET Promise
             b == {id}
             F == [x \in (1 .. K) \X S |-> SeenStep(x[2])]
             Is(g) == g = [n \in 0 .. K |-> IF n = 0 THEN b ELSE SeenStep(g[n - 1])]
  <1>1. K \in Nat /\ b \in S
    OBVIOUS
  <1>3. ASSUME NEW a \in S PROVE SeenStep(a) \in S
    BY DEF SeenStep
  <1> HIDE DEF S, b
  <1>4. F \in [(1 .. K) \X S -> S]
    <2>1. \A x \in (1 .. K) \X S : SeenStep(x[2]) \in S
      BY <1>3, SMT
    <2> QED
      BY <2>1, Zenon
  <1> HIDE DEF F, K
  <1>5. PICK g : Iterating(g, K, S, b, F)
    BY <1>1, <1>4, Iterates, Zenon
  <1>6. g \in [0 .. K -> S] /\ g[0] = b /\ \A n \in 1 .. K : g[n] = F[<<n, g[n - 1]>>]
    BY <1>5, Zenon DEF Iterating
  <1>7. \A n \in 0 .. K : n # 0 => n \in 1 .. K /\ n - 1 \in 0 .. K
    BY <1>1, SMT
  <1>8. \A n \in 1 .. K, a \in S : F[<<n, a>>] = SeenStep(a)
    BY Zenon DEF F
  <1>9. Is(g)
    <2>1. \A n \in 0 .. K : g[n] = IF n = 0 THEN b ELSE SeenStep(g[n - 1])
      BY <1>6, <1>7, <1>8, Zenon
    <2>2. g = [n \in 0 .. K |-> g[n]]
      BY <1>6, Zenon
    <2> QED
      BY <2>1, <2>2, Zenon
  <1>10. Is(Seen(id))
    <2>1. Seen(id) = CHOOSE f : Is(f)
      BY Zenon DEF Seen, SeenStep, K, b
    <2> QED
      BY <1>9, <2>1, Zenon
  <1> DEFINE h == Seen(id)
  <1>11. h = [n \in 0 .. K |-> IF n = 0 THEN b ELSE SeenStep(h[n - 1])]
    BY <1>10
  <1> HIDE DEF h, Is
  <1>12. \A n \in 0 .. K : h[n] = IF n = 0 THEN b ELSE SeenStep(h[n - 1])
    BY <1>11, Zenon
  <1>13. 0 \in 0 .. K /\ \A n \in 1 .. K : n \in 0 .. K /\ n # 0
    BY <1>1, SMT
  <1>14. h[0] = b /\ \A n \in 1 .. K : h[n] = SeenStep(h[n - 1])
    BY <1>12, <1>13, Zenon
  <1>15. \A n \in 0 .. K : h[n] \in S
    <2> DEFINE T == {n \in 0 .. K : h[n] \in S}
    <2>1. 0 \in T
      BY <1>1, <1>13, <1>14
    <2>2. \A n \in 0 .. K - 1 : n \in T => n + 1 \in T
      BY <1>1, <1>3, <1>14, SMT
    <2> HIDE DEF T
    <2>3. \A n \in 0 .. K : n \in T
      BY <1>1, <2>1, <2>2, SetInduction
    <2> QED
      BY <2>3 DEF T
  <1>16. h \in [0 .. K -> S]
    BY <1>11, <1>15, Zenon
  <1> QED
    BY <1>14, <1>16 DEF h, S, K, b

(* What a promise would settle is a set of promises, has the promise       *)
(* itself, and is closed under waiting.                                    *)
LEMMA WouldSettleClosed ==
  ASSUME NEW id \in Promise, Len(state) \in Nat
  PROVE  WouldSettle(id) \subseteq Promise /\ id \in WouldSettle(id) /\ Closed(WouldSettle(id))
  <1> DEFINE K == Len(state)
             h == Seen(id)
             T == {n \in 0 .. K : /\ id \in h[n]
                                  /\ Closed(h[n]) \/ Cardinality(h[n]) >= n + 1}
  <1>1. /\ h \in [0 .. K -> SUBSET Promise] /\ h[0] = {id}
        /\ \A n \in 1 .. K : h[n] = SeenStep(h[n - 1])
    BY SeenDef
  <1>2. IsFiniteSet(Promise) /\ Cardinality(Promise) = K
    <2>1. Promise = 1 .. K /\ K \in Nat /\ 1 \in Int /\ K \in Int
      BY DEF Promise
    <2>2. IsFiniteSet(1 .. K) /\ Cardinality(1 .. K) = IF 1 > K THEN 0 ELSE K - 1 + 1
      BY <2>1, FS_Interval, Zenon
    <2> QED
      BY <2>1, <2>2
  <1> HIDE DEF h
  <1>3. ASSUME NEW S \in SUBSET Promise PROVE IsFiniteSet(S) /\ Cardinality(S) \in Nat /\ Cardinality(S) <= K
    BY <1>2, FS_Subset, FS_CardinalityType
  <1>4. 0 \in T
    <2>1. Cardinality({id}) = 1
      BY FS_Singleton
    <2>2. id \in h[0] /\ Cardinality(h[0]) >= 0 + 1 /\ 0 \in 0 .. K
      BY <1>1, <2>1
    <2> QED
      BY <2>2
  <1>5. \A n \in 0 .. K - 1 : n \in T => n + 1 \in T
    <2>1. SUFFICES ASSUME NEW n \in 0 .. K - 1, n \in T PROVE n + 1 \in T
      OBVIOUS
    <2>2. n + 1 \in 1 .. K /\ n + 1 \in 0 .. K /\ (n + 1) - 1 = n /\ n \in 0 .. K /\ n \in Nat
      OBVIOUS
    <2>3. h[n + 1] = SeenStep(h[n])
      BY <1>1, <2>2, Zenon
    <2>4. h[n] \subseteq h[n + 1] /\ id \in h[n + 1] /\ h[n] \in SUBSET Promise /\ h[n + 1] \in SUBSET Promise
      BY <1>1, <2>1, <2>2, <2>3 DEF SeenStep
    <2>5. CASE Closed(h[n])
      <3>1. h[n + 1] = h[n]
        BY <2>3, <2>4, <2>5 DEF SeenStep, Closed
      <3> QED
        BY <2>2, <2>4, <2>5, <3>1
    <2>6. CASE ~Closed(h[n])
      <3>1. h[n + 1] # h[n]
        BY <2>3, <2>6 DEF SeenStep, Closed
      <3>2. Cardinality(h[n]) >= n + 1
        BY <2>1, <2>6
      <3>3. Cardinality(h[n]) # Cardinality(h[n + 1]) /\ Cardinality(h[n]) <= Cardinality(h[n + 1])
        <4>1. IsFiniteSet(h[n + 1]) /\ h[n] \in SUBSET h[n + 1]
          BY <1>3, <2>4
        <4> QED
          BY <3>1, <4>1, FS_Subset, Zenon
      <3>4. Cardinality(h[n]) \in Nat /\ Cardinality(h[n + 1]) \in Nat
        BY <1>3, <2>4
      <3>5. Cardinality(h[n + 1]) >= (n + 1) + 1
        BY <2>2, <3>2, <3>3, <3>4
      <3> QED
        BY <2>2, <2>4, <3>5
    <2> QED
      BY <2>5, <2>6
  <1>6. K \in T
    <2> HIDE DEF T
    <2>1. \A n \in 0 .. K : n \in T
      BY <1>4, <1>5, SetInduction
    <2> QED
      BY <2>1
  <1>7. h[K] \in SUBSET Promise
    BY <1>1
  <1>8. Closed(h[K])
    BY <1>3, <1>6, <1>7
  <1> QED
    BY <1>6, <1>7, <1>8 DEF WouldSettle, h

(* Nothing is in it that a closed set around the promise leaves out.       *)
LEMMA WouldSettleLeast ==
  ASSUME NEW id \in Promise, Len(state) \in Nat, NEW S, id \in S, Closed(S)
  PROVE  WouldSettle(id) \subseteq S
  <1> DEFINE K == Len(state)
             h == Seen(id)
             T == {n \in 0 .. K : h[n] \subseteq S}
  <1>1. /\ h[0] = {id}
        /\ \A n \in 1 .. K : h[n] = SeenStep(h[n - 1])
    BY SeenDef
  <1> HIDE DEF h
  <1>2. 0 \in T
    BY <1>1
  <1>3. \A n \in 0 .. K - 1 : n \in T => n + 1 \in T
    <2>1. SUFFICES ASSUME NEW n \in 0 .. K - 1, n \in T PROVE n + 1 \in T
      OBVIOUS
    <2>2. n + 1 \in 1 .. K /\ n + 1 \in 0 .. K /\ (n + 1) - 1 = n
      OBVIOUS
    <2>3. h[n + 1] = SeenStep(h[n])
      BY <1>1, <2>2, Zenon
    <2>4. SeenStep(h[n]) \subseteq S
      BY <2>1 DEF SeenStep, Closed
    <2> QED
      BY <2>2, <2>3, <2>4
  <1>4. K \in T
    <2> HIDE DEF T
    <2>1. \A n \in 0 .. K : n \in T
      BY <1>2, <1>3, SetInduction
    <2> QED
      BY <2>1
  <1> QED
    BY <1>4 DEF WouldSettle, h

(* What would_cycle answers, before and after a step.                       *)
Reaches == Len(state) \in Nat =>
  \A id \in Promise :
    /\ WouldSettle(id) \subseteq Promise /\ id \in WouldSettle(id) /\ Closed(WouldSettle(id))
    /\ \A S \in SUBSET Promise : id \in S /\ Closed(S) => WouldSettle(id) \subseteq S

(* Both facts at once, for every promise.                                  *)
LEMMA WalkReaches == Reaches
  BY WouldSettleClosed, WouldSettleLeast DEF Reaches
(* And the same after a step.                                              *)
LEMMA WalkReachesThen == Reaches'
  BY WalkReaches, PTL

(***************************************************************************)
(* The loop of settle, turn by turn.  What it holds: the two tables as     *)
(* they are so far, what was woken, and the promises still to look at.     *)
(***************************************************************************)
Status == {"pending"} \cup Settlement

TablesOK(st, ws) ==
  /\ st \in Seq(Status) /\ Len(st) = Len(state)
  /\ ws \in Seq(Seq(Waiter)) /\ Len(ws) = Len(state)
  /\ \A p \in Promise : \A i \in 1 .. Len(ws[p]) : WaiterIn(ws[p][i])

Acc ==
  {a \in [state : Seq(Status), waiters : Seq(Seq(Waiter)), woken : Seq(Cont), stack : Seq(Promise)] :
     TablesOK(a.state, a.waiters)}

(* The parts of the loop's state, each with its type.                      *)
LEMMA AccFields ==
  ASSUME NEW a \in Acc, Len(state) \in Nat
  PROVE  /\ a.state \in Seq(Status) /\ Len(a.state) = Len(state)
         /\ a.waiters \in Seq(Seq(Waiter)) /\ Len(a.waiters) = Len(state)
         /\ \A p \in Promise : /\ a.state[p] \in Status
                               /\ a.waiters[p] \in Seq(Waiter) /\ Len(a.waiters[p]) \in Nat
                               /\ \A i \in 1 .. Len(a.waiters[p]) : WaiterIn(a.waiters[p][i])
         /\ a.woken \in Seq(Cont) /\ Len(a.woken) \in Nat
         /\ a.stack \in Seq(Promise) /\ Len(a.stack) \in Nat
         /\ a.stack = <<>> <=> Len(a.stack) = 0
         /\ \A k \in 1 .. Len(a.stack) : a.stack[k] \in Promise
         /\ \A k \in 1 .. Len(a.woken) : a.woken[k] \in Cont
  <1>1. /\ a.state \in Seq(Status) /\ a.waiters \in Seq(Seq(Waiter))
        /\ a.woken \in Seq(Cont) /\ a.stack \in Seq(Promise)
        /\ TablesOK(a.state, a.waiters)
    BY DEF Acc
  <1>2. \A p \in Promise : a.state[p] \in Status /\ a.waiters[p] \in Seq(Waiter)
    BY <1>1, ElementOfSeq DEF TablesOK, Promise
  <1>3. \A p \in Promise : Len(a.waiters[p]) \in Nat
    BY <1>2, LenProperties
  <1>4. /\ Len(a.woken) \in Nat /\ Len(a.stack) \in Nat
        /\ a.stack = <<>> <=> Len(a.stack) = 0
    BY <1>1, LenProperties, EmptySeq
  <1>5. /\ \A k \in 1 .. Len(a.stack) : a.stack[k] \in Promise
        /\ \A k \in 1 .. Len(a.woken) : a.woken[k] \in Cont
    BY <1>1, ElementOfSeq
  <1> QED
    BY <1>1, <1>2, <1>3, <1>4, <1>5 DEF TablesOK

(* The stack without its top.                                              *)
LEMMA FrontOfStack ==
  ASSUME NEW S, NEW s \in Seq(S), s # <<>>
  PROVE  /\ Last(s) \in S /\ Last(s) = s[Len(s)] /\ Len(s) \in Nat /\ Len(s) >= 1
         /\ Front(s) \in Seq(S) /\ Len(Front(s)) = Len(s) - 1
         /\ \A k \in 1 .. Len(s) - 1 : Front(s)[k] = s[k]
  <1>1. Len(s) \in Nat /\ Len(s) >= 1
    BY LenProperties, EmptySeq
  <1>2. \A i \in 1 .. Len(s) - 1 : s[i] \in S
    BY <1>1, ElementOfSeq
  <1>3. Last(s) \in S /\ Last(s) = s[Len(s)]
    BY <1>1, ElementOfSeq DEF Last
  <1>4. SubSeq(s, 1, Len(s) - 1) \in Seq(S)
    BY <1>1, SMT
  <1>5. Len(SubSeq(s, 1, Len(s) - 1)) = Len(s) - 1
    BY <1>1, SMTT(60)
  <1>6. \A k \in 1 .. Len(s) - 1 : SubSeq(s, 1, Len(s) - 1)[k] = s[k]
    BY <1>1, SMT
  <1> QED
    BY <1>1, <1>3, <1>4, <1>5, <1>6 DEF Front

(* Two lists joined, place by place.                                       *)
Joins(u, s, t) ==
  /\ Len(u) = Len(s) + Len(t) /\ Len(s) \in Nat /\ Len(t) \in Nat
  /\ \A k \in 1 .. Len(s) : k \in 1 .. Len(u) /\ u[k] = s[k]
  /\ \A k \in 1 .. Len(t) : Len(s) + k \in 1 .. Len(u) /\ u[Len(s) + k] = t[k]
  /\ \A k \in 1 .. Len(u) :
       \/ k \in 1 .. Len(s) /\ u[k] = s[k]
       \/ k > Len(s) /\ k - Len(s) \in 1 .. Len(t) /\ u[k] = t[k - Len(s)]

(* Where the elements of a joined sequence come from.                      *)
LEMMA Joined ==
  ASSUME NEW S, NEW s \in Seq(S), NEW t \in Seq(S), NEW u, u = s \o t
  PROVE  u \in Seq(S) /\ Joins(u, s, t)
  <1>1. Len(s) \in Nat /\ Len(t) \in Nat
    BY LenProperties
  <1>2. /\ u \in Seq(S) /\ Len(u) = Len(s) + Len(t)
        /\ \A k \in 1 .. Len(s) + Len(t) : u[k] = IF k <= Len(s) THEN s[k] ELSE t[k - Len(s)]
    BY ConcatProperties, Zenon
  <1>3. \A k \in 1 .. Len(s) : k \in 1 .. Len(u) /\ u[k] = s[k]
    BY <1>1, <1>2
  <1>4. \A k \in 1 .. Len(t) : Len(s) + k \in 1 .. Len(u) /\ u[Len(s) + k] = t[k]
    <2>1. TAKE k \in 1 .. Len(t)
    <2>2. Len(s) + k \in 1 .. Len(u) /\ ~(Len(s) + k <= Len(s)) /\ (Len(s) + k) - Len(s) = k
      BY <1>1, <1>2
    <2> QED
      BY <1>2, <2>2
  <1>5. \A k \in 1 .. Len(u) :
          \/ k \in 1 .. Len(s)
          \/ k > Len(s) /\ ~(k <= Len(s)) /\ k - Len(s) \in 1 .. Len(t)
    BY <1>1, <1>2
  <1>6. \A k \in 1 .. Len(u) :
          \/ k \in 1 .. Len(s) /\ u[k] = s[k]
          \/ k > Len(s) /\ k - Len(s) \in 1 .. Len(t) /\ u[k] = t[k - Len(s)]
    BY <1>2, <1>3, <1>5
  <1> QED
    BY <1>1, <1>2, <1>3, <1>4, <1>6 DEF Joins

(* A list every element of which is in S is a list over S.                 *)
LEMMA ListOver ==
  ASSUME NEW T, NEW s \in Seq(T), NEW S, \A k \in 1 .. Len(s) : s[k] \in S
  PROVE  s \in Seq(S)
  <1>1. Len(s) \in Nat /\ s \in [1 .. Len(s) -> T]
    BY LenProperties
  <1>2. s \in [1 .. Len(s) -> S]
    BY <1>1, Zenon
  <1>3. Seq(S) = UNION {[1 .. n -> S] : n \in Nat}
    BY SeqDef, Zenon
  <1> QED
    BY <1>1, <1>2, <1>3, Zenon

(* A turn that meets a settled promise only takes it off.                  *)
LEMMA PopSkips ==
  ASSUME NEW a \in Acc, Len(state) \in Nat, NEW how \in Settlement,
         a.stack # <<>>, a.state[Last(a.stack)] # "pending"
  PROVE  LET n == Pop(a, how)
         IN  /\ n \in Acc
             /\ n.state = a.state /\ n.waiters = a.waiters /\ n.woken = a.woken
             /\ n.stack = Front(a.stack)
  <1>1. Front(a.stack) \in Seq(Promise)
    BY AccFields, FrontOfStack
  <1>2. Pop(a, how) = [a EXCEPT !.stack = Front(a.stack)]
    BY DEF Pop
  <1> QED
    BY <1>1, <1>2 DEF Acc

(* A turn that meets a pending one settles it and takes its waiters.       *)
LEMMA PopSettles ==
  ASSUME NEW a \in Acc, Len(state) \in Nat, NEW how \in Settlement,
         a.stack # <<>>, a.state[Last(a.stack)] = "pending"
  PROVE  LET n == Pop(a, how)
             q == Last(a.stack)
             F == FramesOf(a.waiters[q])
             G == AdoptersOf(a.waiters[q])
         IN  /\ n \in Acc /\ q \in Promise
             /\ F \in Seq(Cont) /\ G \in Seq(Promise)
             /\ \A r \in Promise : n.state[r] = IF r = q THEN how ELSE a.state[r]
             /\ n.waiters = [a.waiters EXCEPT ![q] = <<>>]
             /\ \A r \in Promise : n.waiters[r] = IF r = q THEN <<>> ELSE a.waiters[r]
             /\ n.woken = a.woken \o F
             /\ n.stack = Front(a.stack) \o G
  <1> DEFINE q == Last(a.stack)
             ws == a.waiters[q]
             F == FramesOf(ws)
             G == AdoptersOf(ws)
             n == Pop(a, how)
  <1>1. /\ q \in Promise /\ Front(a.stack) \in Seq(Promise)
    BY AccFields, FrontOfStack
  <1>2. /\ ws \in Seq(Waiter) /\ Len(ws) \in Nat /\ \A i \in 1 .. Len(ws) : WaiterIn(ws[i])
    BY <1>1, AccFields
  <1>3. /\ F \in Seq(Nat) /\ G \in Seq(Nat)
        /\ SortedUpTo(ws, Len(ws), [cont |-> F, promise |-> G])
    BY <1>2, Sorting
  <1> HIDE DEF F, G
  <1>4. F \in Seq(Cont)
    <2>1. \A k \in 1 .. Len(F) : F[k] \in Cont
      <3>1. TAKE k \in 1 .. Len(F)
      <3>2. PICK i \in 1 .. Len(ws) : ws[i] = Frame(F[k])
        BY <1>3 DEF SortedUpTo
      <3> QED
        BY <1>2, <3>2 DEF WaiterIn, Frame
    <2> QED
      BY <1>3, <2>1, ListOver, Zenon
  <1>5. G \in Seq(Promise)
    <2>1. \A k \in 1 .. Len(G) : G[k] \in Promise
      <3>1. TAKE k \in 1 .. Len(G)
      <3>2. PICK i \in 1 .. Len(ws) : ws[i] = Adopter(G[k])
        BY <1>3 DEF SortedUpTo
      <3> QED
        BY <1>2, <3>2 DEF WaiterIn, Adopter
    <2> QED
      BY <1>3, <2>1, ListOver, Zenon
  <1>6. n = [state   |-> [a.state EXCEPT ![q] = how],
             waiters |-> [a.waiters EXCEPT ![q] = <<>>],
             woken   |-> a.woken \o F,
             stack   |-> Front(a.stack) \o G]
    BY DEF Pop, F, G
  <1>7. /\ [a.state EXCEPT ![q] = how] \in Seq(Status)
        /\ Len([a.state EXCEPT ![q] = how]) = Len(state)
        /\ \A r \in Promise : [a.state EXCEPT ![q] = how][r] = IF r = q THEN how ELSE a.state[r]
    <2>1. how \in Status /\ q \in 1 .. Len(a.state) /\ Promise = 1 .. Len(a.state)
      BY <1>1, AccFields DEF Status, Promise
    <2> QED
      BY <2>1, AccFields, ExceptSeq
  <1>8. /\ [a.waiters EXCEPT ![q] = <<>>] \in Seq(Seq(Waiter))
        /\ Len([a.waiters EXCEPT ![q] = <<>>]) = Len(state)
        /\ \A r \in Promise : [a.waiters EXCEPT ![q] = <<>>][r] = IF r = q THEN <<>> ELSE a.waiters[r]
    <2>1. <<>> \in Seq(Waiter) /\ q \in 1 .. Len(a.waiters) /\ Promise = 1 .. Len(a.waiters)
      BY <1>1, AccFields, EmptySeq DEF Promise
    <2> QED
      BY <2>1, AccFields, ExceptSeq
  <1>9. a.woken \o F \in Seq(Cont) /\ Front(a.stack) \o G \in Seq(Promise)
    BY <1>1, <1>4, <1>5, AccFields, ConcatProperties
  <1>10. TablesOK(n.state, n.waiters)
    <2>1. Len(<<>>) = 0
      BY EmptySeq
    <2>2. \A r \in Promise : \A i \in 1 .. Len(n.waiters[r]) : WaiterIn(n.waiters[r][i])
      BY <1>6, <1>8, <2>1, AccFields, SMTT(60)
    <2> QED
      BY <1>6, <1>7, <1>8, <2>2 DEF TablesOK
  <1>11. n \in Acc
    <2>1. n \in [state : Seq(Status), waiters : Seq(Seq(Waiter)), woken : Seq(Cont), stack : Seq(Promise)]
      BY <1>6, <1>7, <1>8, <1>9
    <2> HIDE DEF n
    <2> QED
      BY <1>10, <2>1, Zenon DEF Acc
  <1>12. /\ n.state = [a.state EXCEPT ![q] = how] /\ n.waiters = [a.waiters EXCEPT ![q] = <<>>]
         /\ n.woken = a.woken \o F /\ n.stack = Front(a.stack) \o G
    BY <1>6
  <1> HIDE DEF n, q, ws
  <1>13. /\ \A r \in Promise : n.state[r] = IF r = q THEN how ELSE a.state[r]
         /\ \A r \in Promise : n.waiters[r] = IF r = q THEN <<>> ELSE a.waiters[r]
    BY <1>7, <1>8, <1>12, Zenon
  <1> QED
    BY <1>1, <1>4, <1>5, <1>11, <1>12, <1>13, Zenon DEF F, G, n, q, ws

(* A turn of the loop keeps the types.                                     *)
LEMMA PopType ==
  ASSUME NEW a \in Acc, Len(state) \in Nat, NEW how \in Settlement
  PROVE  Pop(a, how) \in Acc
  <1>1. CASE a.stack = <<>>
    BY <1>1 DEF Pop
  <1>2. CASE a.stack # <<>> /\ a.state[Last(a.stack)] # "pending"
    BY <1>2, PopSkips, Zenon
  <1>3. CASE a.stack # <<>> /\ a.state[Last(a.stack)] = "pending"
    BY <1>3, PopSettles, Zenon
  <1> QED
    BY <1>1, <1>2, <1>3, Zenon

(***************************************************************************)
(* Settling(p, how): the loop as a function of the turn.                   *)
(***************************************************************************)
Start(p) == [state |-> state, waiters |-> waiters, woken |-> <<>>, stack |-> <<p>>]

(* The state the loop starts from is well typed.                           *)
LEMMA StartType ==
  ASSUME TypeOK, NEW p \in Promise
  PROVE  Start(p) \in Acc /\ Len(state) \in Nat /\ Turns \in Nat
  <1>1. /\ state \in Seq(Status) /\ waiters \in Seq(Seq(Waiter))
        /\ TablesOK(state, waiters)
    BY DEF TypeOK, TablesOK, Status
  <1>2. Len(state) \in Nat
    BY <1>1, LenProperties
  <1>3. <<>> \in Seq(Cont)
    BY EmptySeq
  <1>4. <<p>> \in Seq(Promise)
    OBVIOUS
  <1>5. Start(p) \in [state : Seq(Status), waiters : Seq(Seq(Waiter)), woken : Seq(Cont), stack : Seq(Promise)]
    BY <1>1, <1>3, <1>4 DEF Start
  <1>6. Start(p).state = state /\ Start(p).waiters = waiters
    BY DEF Start
  <1>7. Start(p) \in Acc
    BY <1>1, <1>5, <1>6, Zenon DEF Acc
  <1>8. Turns \in Nat
    BY <1>1, AdoptionsFinite DEF Turns
  <1> QED
    BY <1>2, <1>7, <1>8

(* Settling is the function its definition describes: it starts with one   *)
(* promise and takes a turn at a time.                                     *)
LEMMA SettlingDef ==
  ASSUME TypeOK, NEW p \in Promise, NEW how \in Settlement
  PROVE  /\ Settling(p, how) \in [0 .. Turns -> Acc]
         /\ Settling(p, how)[0] = Start(p)
         /\ \A n \in 1 .. Turns : Settling(p, how)[n] = Pop(Settling(p, how)[n - 1], how)
  <1> DEFINE K == Turns
             S == Acc
             b == Start(p)
             F == [x \in (1 .. K) \X S |-> Pop(x[2], how)]
             Is(g) == g = [n \in 0 .. K |-> IF n = 0 THEN b ELSE Pop(g[n - 1], how)]
  <1>1. K \in Nat /\ b \in S /\ Len(state) \in Nat
    BY StartType, Zenon
  <1>3. ASSUME NEW a \in S PROVE Pop(a, how) \in S
    BY <1>1, PopType, Zenon
  <1> HIDE DEF S, b
  <1>4. F \in [(1 .. K) \X S -> S]
    <2>1. \A x \in (1 .. K) \X S : Pop(x[2], how) \in S
      BY <1>3, SMT
    <2> QED
      BY <2>1, Zenon
  <1> HIDE DEF F, K
  <1>5. PICK g : Iterating(g, K, S, b, F)
    BY <1>1, <1>4, Iterates, Zenon
  <1>6. g \in [0 .. K -> S] /\ g[0] = b /\ \A n \in 1 .. K : g[n] = F[<<n, g[n - 1]>>]
    BY <1>5, Zenon DEF Iterating
  <1>7. \A n \in 0 .. K : n # 0 => n \in 1 .. K /\ n - 1 \in 0 .. K
    BY <1>1, SMT
  <1>8. \A n \in 1 .. K, a \in S : F[<<n, a>>] = Pop(a, how)
    BY Zenon DEF F
  <1>9. Is(g)
    <2>1. \A n \in 0 .. K : g[n] = IF n = 0 THEN b ELSE Pop(g[n - 1], how)
      BY <1>6, <1>7, <1>8, Zenon
    <2>2. g = [n \in 0 .. K |-> g[n]]
      BY <1>6, Zenon
    <2> QED
      BY <2>1, <2>2, Zenon
  <1>10. Is(Settling(p, how))
    <2>1. Settling(p, how) = CHOOSE f : Is(f)
      BY Zenon DEF Settling, Start, K, b
    <2> QED
      BY <1>9, <2>1, Zenon
  <1> DEFINE h == Settling(p, how)
  <1>11. h = [n \in 0 .. K |-> IF n = 0 THEN b ELSE Pop(h[n - 1], how)]
    BY <1>10
  <1> HIDE DEF h, Is
  <1>12. \A n \in 0 .. K : h[n] = IF n = 0 THEN b ELSE Pop(h[n - 1], how)
    BY <1>11, Zenon
  <1>13. 0 \in 0 .. K /\ \A n \in 1 .. K : n \in 0 .. K /\ n # 0
    BY <1>1, SMT
  <1>14. h[0] = b /\ \A n \in 1 .. K : h[n] = Pop(h[n - 1], how)
    BY <1>12, <1>13, Zenon
  <1>15. \A n \in 0 .. K : h[n] \in S
    <2> DEFINE T == {n \in 0 .. K : h[n] \in S}
    <2>1. 0 \in T
      BY <1>1, <1>13, <1>14
    <2>2. \A n \in 0 .. K - 1 : n \in T => n + 1 \in T
      BY <1>1, <1>3, <1>14, SMT
    <2> HIDE DEF T
    <2>3. \A n \in 0 .. K : n \in T
      BY <1>1, <2>1, <2>2, SetInduction
    <2> QED
      BY <2>3 DEF T
  <1>16. h \in [0 .. K -> S]
    BY <1>11, <1>15, Zenon
  <1> QED
    BY <1>14, <1>16 DEF h, S, K, b

(***************************************************************************)
(* What the loop keeps.  First the tables and the list of waiters as they  *)
(* are between two calls: a settled promise has none, and the frames of a  *)
(* pending one are those parked on it, in that order.                      *)
(***************************************************************************)
SettledAreBare == \A p \in Promise : state[p] # "pending" => waiters[p] = <<>>
FramesAreTheirs ==
  \A p \in Promise, c \in Cont : \A i \in 1 .. Len(waiters[p]) : waiters[p][i] = Frame(c) => conts[c] = p
FramesInOrder ==
  \A p \in Promise, c, d \in Cont : \A i, j \in 1 .. Len(waiters[p]) :
    i < j /\ waiters[p][i] = Frame(c) /\ waiters[p][j] = Frame(d) => c < d
PendingWait ==
  \A c \in Cont : state[conts[c]] = "pending"
    => \E i \in 1 .. Len(waiters[conts[c]]) : waiters[conts[c]][i] = Frame(c)
Parked == SettledAreBare /\ FramesAreTheirs /\ FramesInOrder /\ PendingWait

(* Adopters wait because they adopted.                                     *)
WaitsAdopted == \A p, q \in Promise : Waits(q, p) => <<q, p>> \in adopted

(* A promise follows itself, and whoever adopted a promise follows what    *)
(* that one follows.                                                       *)
LEMMA FollowsSelf ==
  ASSUME NEW p \in Promise
  PROVE  p \in Follows(p)
  BY DEF Follows

LEMMA FollowsOn ==
  ASSUME NEW p \in Promise, NEW q \in Promise, NEW r \in Promise, <<r, q>> \in adopted, p \in Follows(q)
  PROVE  p \in Follows(r)
  <1>1. SUFFICES ASSUME NEW T \in SUBSET Promise, r \in T, \A pair \in adopted : pair[1] \in T => pair[2] \in T
                 PROVE  p \in T
    BY DEF Follows
  <1>2. q \in T
    BY <1>1
  <1> QED
    BY <1>1, <1>2 DEF Follows

Newly(a, q)   == state[q] = "pending" /\ a.state[q] # "pending"
OnStack(a, q) == \E k \in 1 .. Len(a.stack) : a.stack[k] = q

LoopTables(a) ==
  \A q \in Promise : /\ state[q] # "pending" => a.state[q] = state[q]
                     /\ a.state[q] = "pending" => a.waiters[q] = waiters[q]
                     /\ a.state[q] # "pending" => a.waiters[q] = <<>>
LoopWoken(a) == \A k \in 1 .. Len(a.woken) : Newly(a, conts[a.woken[k]])
LoopOrder(a) ==
  \A k, l \in 1 .. Len(a.woken) :
    k < l /\ conts[a.woken[k]] = conts[a.woken[l]] => a.woken[k] < a.woken[l]
LoopAll(a) ==
  \A c \in Cont : Newly(a, conts[c]) => \E k \in 1 .. Len(a.woken) : a.woken[k] = c
LoopStack(a, p) ==
  /\ a.state[p] # "pending" \/ OnStack(a, p)
  /\ \A q, r \in Promise : Newly(a, q) /\ Waits(r, q) => a.state[r] # "pending" \/ OnStack(a, r)
LoopOwners(a, p) ==
  WaitsAdopted => /\ \A k \in 1 .. Len(a.stack) : p \in Follows(a.stack[k])
                  /\ \A k \in 1 .. Len(a.woken) : p \in Follows(conts[a.woken[k]])
LoopAlone(a, p) ==
  waiters[p] = <<>> => /\ \A k \in 1 .. Len(a.stack) : a.stack[k] = p
                       /\ a.woken = <<>>
                       /\ \A q \in Promise : Newly(a, q) => q = p

LoopInv(a, p) ==
  /\ LoopTables(a) /\ LoopWoken(a) /\ LoopOrder(a) /\ LoopAll(a)
  /\ LoopStack(a, p) /\ LoopOwners(a, p) /\ LoopAlone(a, p)

(* The invariant of the loop holds at its start,                           *)
LEMMA LoopStarts ==
  ASSUME TypeOK, Parked, NEW p \in Promise
  PROVE  LoopInv(Start(p), p)
  <1>1. /\ Start(p).state = state /\ Start(p).waiters = waiters
        /\ Start(p).woken = <<>> /\ Start(p).stack = <<p>>
    BY DEF Start
  <1>2. Len(<<>>) = 0 /\ Len(<<p>>) = 1 /\ <<p>>[1] = p
    OBVIOUS
  <1>3. LoopTables(Start(p))
    BY <1>1 DEF LoopTables, Parked, SettledAreBare
  <1>4. LoopWoken(Start(p)) /\ LoopOrder(Start(p)) /\ LoopAll(Start(p))
    BY <1>1, <1>2 DEF LoopWoken, LoopOrder, LoopAll, Newly
  <1>5. LoopStack(Start(p), p)
    BY <1>1, <1>2 DEF LoopStack, OnStack, Newly
  <1>6. LoopOwners(Start(p), p) /\ LoopAlone(Start(p), p)
    BY <1>1, <1>2, FollowsSelf DEF LoopOwners, LoopAlone, Newly
  <1> QED
    BY <1>3, <1>4, <1>5, <1>6 DEF LoopInv

(* is kept by a turn that finds its promise settled,                       *)
LEMMA LoopSkips ==
  ASSUME TypeOK, Parked, NEW p \in Promise, NEW how \in Settlement, NEW a \in Acc, LoopInv(a, p),
         a.stack # <<>>, a.state[Last(a.stack)] # "pending"
  PROVE  LoopInv(Pop(a, how), p)
  <1> DEFINE n == Pop(a, how)
  <1>1. /\ n \in Acc
        /\ n.state = a.state /\ n.waiters = a.waiters /\ n.woken = a.woken
        /\ n.stack = Front(a.stack)
    BY StartType, PopSkips
  <1>2. /\ Len(a.stack) \in Nat /\ Len(a.stack) >= 1 /\ Last(a.stack) = a.stack[Len(a.stack)]
        /\ Len(n.stack) = Len(a.stack) - 1
        /\ \A k \in 1 .. Len(a.stack) - 1 : n.stack[k] = a.stack[k]
    <2>1. a.stack \in Seq(Promise)
      BY StartType, AccFields, Zenon
    <2>2. /\ Len(a.stack) \in Nat /\ Len(a.stack) >= 1 /\ Last(a.stack) = a.stack[Len(a.stack)]
          /\ Len(Front(a.stack)) = Len(a.stack) - 1
          /\ \A k \in 1 .. Len(a.stack) - 1 : Front(a.stack)[k] = a.stack[k]
      BY <2>1, FrontOfStack, Zenon
    <2> HIDE DEF n
    <2> QED
      BY <1>1, <2>2
  <1> HIDE DEF n
  <1>3. \A q \in Promise : OnStack(a, q) => a.state[q] # "pending" \/ OnStack(n, q)
    <2>1. SUFFICES ASSUME NEW q \in Promise, NEW k \in 1 .. Len(a.stack), a.stack[k] = q, a.state[q] = "pending"
                   PROVE  OnStack(n, q)
      BY DEF OnStack
    <2>2. k # Len(a.stack)
      BY <1>2, <2>1
    <2>3. k \in 1 .. Len(n.stack) /\ n.stack[k] = q
      BY <1>2, <2>1, <2>2
    <2> QED
      BY <2>3 DEF OnStack
  <1>4. \A q \in Promise : Newly(n, q) <=> Newly(a, q)
    BY <1>1 DEF Newly
  <1>5. LoopTables(n) /\ LoopOrder(n)
    BY <1>1 DEF LoopInv, LoopTables, LoopOrder
  <1>6. LoopWoken(n) /\ LoopAll(n)
    BY <1>1 DEF LoopInv, LoopWoken, LoopAll, Newly
  <1>7. LoopStack(n, p)
    BY <1>1, <1>3, <1>4 DEF LoopInv, LoopStack
  <1>8. \A k \in 1 .. Len(n.stack) : k \in 1 .. Len(a.stack) /\ n.stack[k] = a.stack[k]
    BY <1>2
  <1>9. LoopOwners(n, p)
    BY <1>1, <1>8 DEF LoopInv, LoopOwners
  <1>10. LoopAlone(n, p)
    BY <1>1, <1>4, <1>8 DEF LoopInv, LoopAlone
  <1> QED
    BY <1>5, <1>6, <1>7, <1>9, <1>10 DEF LoopInv, n

(* and by one that settles its promise.                                    *)
LEMMA LoopSettles ==
  ASSUME TypeOK, Parked, NEW p \in Promise, NEW how \in Settlement, NEW a \in Acc, LoopInv(a, p),
         a.stack # <<>>, a.state[Last(a.stack)] = "pending"
  PROVE  LoopInv(Pop(a, how), p)
  <1> DEFINE n == Pop(a, how)
             q == Last(a.stack)
             F == FramesOf(a.waiters[q])
             G == AdoptersOf(a.waiters[q])
  <1>0. Len(state) \in Nat
    BY StartType
  <1>1. /\ n \in Acc /\ q \in Promise
        /\ F \in Seq(Cont) /\ G \in Seq(Promise)
        /\ \A r \in Promise : n.state[r] = IF r = q THEN how ELSE a.state[r]
        /\ \A r \in Promise : n.waiters[r] = IF r = q THEN <<>> ELSE a.waiters[r]
        /\ n.woken = a.woken \o F
        /\ n.stack = Front(a.stack) \o G
    BY <1>0, PopSettles, Zenon
  <1>2. state[q] = "pending" /\ a.waiters[q] = waiters[q]
    BY <1>1 DEF LoopInv, LoopTables
  <1>3. waiters[q] \in Seq(Waiter) /\ Len(waiters[q]) \in Nat
    BY <1>0, <1>1, <1>2, AccFields
  <1>4. SortedUpTo(waiters[q], Len(waiters[q]), [cont |-> F, promise |-> G])
    BY <1>2, <1>3, Sorting
  <1>5. /\ a.stack \in Seq(Promise) /\ a.woken \in Seq(Cont) /\ Len(a.woken) \in Nat
    BY <1>0, AccFields
  <1>6. /\ Front(a.stack) \in Seq(Promise) /\ Len(a.stack) \in Nat /\ Len(a.stack) >= 1
        /\ Len(Front(a.stack)) = Len(a.stack) - 1 /\ q = a.stack[Len(a.stack)]
        /\ \A k \in 1 .. Len(a.stack) - 1 : Front(a.stack)[k] = a.stack[k]
    BY <1>5, FrontOfStack, Zenon
  <1> HIDE DEF n, F, G
  <1>7. Len(F) \in Nat /\ Len(G) \in Nat
    BY <1>1, LenProperties
  <1>8. /\ \A k \in 1 .. Len(F) : F[k] \in Cont
        /\ \A k \in 1 .. Len(G) : G[k] \in Promise
        /\ \A k \in 1 .. Len(a.woken) : a.woken[k] \in Cont
    BY <1>1, <1>5, ElementOfSeq
  (* What F and G hold of q's waiters.                                     *)
  <1>9. \A k \in 1 .. Len(F) : conts[F[k]] = q
    <2>1. TAKE k \in 1 .. Len(F)
    <2>2. PICK i \in 1 .. Len(waiters[q]) : waiters[q][i] = Frame(F[k])
      BY <1>4 DEF SortedUpTo
    <2> QED
      BY <1>1, <1>8, <2>2 DEF Parked, FramesAreTheirs
  <1>10. \A k, l \in 1 .. Len(F) : k < l => F[k] < F[l]
    <2>1. SUFFICES ASSUME NEW k \in 1 .. Len(F), NEW l \in 1 .. Len(F), k < l PROVE F[k] < F[l]
      OBVIOUS
    <2>2. PICK i, j \in 1 .. Len(waiters[q]) :
            i < j /\ waiters[q][i] = Frame(F[k]) /\ waiters[q][j] = Frame(F[l])
      BY <1>4, <2>1 DEF SortedUpTo
    <2> QED
      BY <1>1, <1>8, <2>2 DEF Parked, FramesInOrder
  <1>11. \A c \in Cont : conts[c] = q => \E k \in 1 .. Len(F) : F[k] = c
    <2>1. SUFFICES ASSUME NEW c \in Cont, conts[c] = q PROVE \E k \in 1 .. Len(F) : F[k] = c
      OBVIOUS
    <2>2. PICK i \in 1 .. Len(waiters[q]) : waiters[q][i] = Frame(c)
      BY <1>2, <2>1 DEF Parked, PendingWait
    <2>3. waiters[q][i].kind = "cont" /\ waiters[q][i].id = c
      BY <2>2 DEF Frame
    <2> QED
      BY <1>4, <2>3 DEF SortedUpTo
  <1>12. \A r \in Promise : Waits(r, q) => \E k \in 1 .. Len(G) : G[k] = r
    <2>1. SUFFICES ASSUME NEW r \in Promise, Waits(r, q) PROVE \E k \in 1 .. Len(G) : G[k] = r
      OBVIOUS
    <2>2. PICK i \in 1 .. Len(waiters[q]) : waiters[q][i] = Adopter(r)
      BY <2>1 DEF Waits
    <2>3. waiters[q][i].kind = "promise" /\ waiters[q][i].id = r
      BY <2>2 DEF Adopter
    <2> QED
      BY <1>4, <2>3 DEF SortedUpTo
  <1>13. \A k \in 1 .. Len(G) : Waits(G[k], q)
    BY <1>4 DEF SortedUpTo, Waits
  (* The new lists, place by place.                                        *)
  <1> DEFINE f == Front(a.stack)
  <1>j. Joins(n.woken, a.woken, F) /\ Joins(n.stack, f, G)
    BY <1>1, <1>5, <1>6, Joined, Zenon
  <1>16. \A k \in 1 .. Len(n.woken) :
           \/ k \in 1 .. Len(a.woken) /\ n.woken[k] = a.woken[k]
           \/ k > Len(a.woken) /\ k - Len(a.woken) \in 1 .. Len(F) /\ n.woken[k] = F[k - Len(a.woken)]
    BY <1>j DEF Joins
  <1>18. /\ \A k \in 1 .. Len(a.woken) : k \in 1 .. Len(n.woken) /\ n.woken[k] = a.woken[k]
         /\ \A k \in 1 .. Len(F) : Len(a.woken) + k \in 1 .. Len(n.woken) /\ n.woken[Len(a.woken) + k] = F[k]
    BY <1>j DEF Joins
  <1>15. /\ \A k \in 1 .. Len(f) : k \in 1 .. Len(n.stack) /\ n.stack[k] = f[k]
         /\ \A k \in 1 .. Len(G) : Len(f) + k \in 1 .. Len(n.stack) /\ n.stack[Len(f) + k] = G[k]
         /\ \A k \in 1 .. Len(n.stack) :
              \/ k \in 1 .. Len(f) /\ n.stack[k] = f[k]
              \/ k > Len(f) /\ k - Len(f) \in 1 .. Len(G) /\ n.stack[k] = G[k - Len(f)]
    BY <1>j DEF Joins
  <1>14. \A k \in 1 .. Len(f) : k \in 1 .. Len(a.stack) /\ f[k] = a.stack[k]
    BY <1>6
  <1>17. \A k \in 1 .. Len(n.stack) :
           (\E l \in 1 .. Len(a.stack) : n.stack[k] = a.stack[l]) \/ (\E l \in 1 .. Len(G) : n.stack[k] = G[l])
    BY <1>14, <1>15, Zenon
  <1> HIDE DEF f
  <1>20. how # "pending"
    BY DEF Settlement
  <1>21. \A r \in Promise : Newly(n, r) <=> r = q \/ Newly(a, r)
    BY <1>1, <1>2, <1>20 DEF Newly
  <1>22. ~Newly(a, q)
    BY DEF Newly
  <1>23. \A c \in Cont : conts[c] \in Promise
    BY ElementOfSeq DEF TypeOK, Cont
  (* Each part in turn.                                                    *)
  <1>24. LoopTables(n)
    BY <1>1, <1>2, <1>20 DEF LoopInv, LoopTables
  <1>25. LoopWoken(n)
    BY <1>1, <1>8, <1>9, <1>16, <1>21, <1>23, ZenonT(60) DEF LoopInv, LoopWoken
  <1>26. LoopOrder(n)
    <2>1. SUFFICES ASSUME NEW k \in 1 .. Len(n.woken), NEW l \in 1 .. Len(n.woken),
                          k < l, conts[n.woken[k]] = conts[n.woken[l]]
                   PROVE  n.woken[k] < n.woken[l]
      BY DEF LoopOrder
    <2>2. CASE l \in 1 .. Len(a.woken)
      <3>1. k \in 1 .. Len(a.woken)
        BY <2>1, <2>2
      <3> QED
        BY <1>18, <2>1, <2>2, <3>1 DEF LoopInv, LoopOrder
    <2>3. CASE l > Len(a.woken) /\ l - Len(a.woken) \in 1 .. Len(F) /\ n.woken[l] = F[l - Len(a.woken)]
      <3>1. conts[n.woken[l]] = q
        BY <1>9, <2>3
      <3>2. k \notin 1 .. Len(a.woken)
        BY <1>18, <1>22, <2>1, <3>1 DEF LoopInv, LoopWoken
      <3>3. k > Len(a.woken) /\ k - Len(a.woken) \in 1 .. Len(F) /\ n.woken[k] = F[k - Len(a.woken)]
        BY <1>16, <3>2, Zenon
      <3>4. k - Len(a.woken) < l - Len(a.woken)
        BY <1>5, <2>1
      <3> QED
        BY <1>10, <2>3, <3>3, <3>4
    <2> QED
      BY <1>16, <2>2, <2>3, Zenon
  <1>27. LoopAll(n)
    <2>1. SUFFICES ASSUME NEW c \in Cont, Newly(n, conts[c])
                   PROVE  \E k \in 1 .. Len(n.woken) : n.woken[k] = c
      BY DEF LoopAll
    <2>2. CASE conts[c] = q
      <3>1. PICK k \in 1 .. Len(F) : F[k] = c
        BY <1>11, <2>2
      <3> QED
        BY <1>18, <3>1
    <2>3. CASE Newly(a, conts[c])
      <3>1. PICK k \in 1 .. Len(a.woken) : a.woken[k] = c
        BY <2>3 DEF LoopInv, LoopAll
      <3> QED
        BY <1>18, <3>1
    <2> QED
      BY <1>21, <1>23, <2>1, <2>2, <2>3
  <1>28. \A r \in Promise : OnStack(a, r) => r = q \/ OnStack(n, r)
    <2>1. SUFFICES ASSUME NEW r \in Promise, NEW k \in 1 .. Len(a.stack), a.stack[k] = r, r # q
                   PROVE  OnStack(n, r)
      BY DEF OnStack
    <2>2. k \in 1 .. Len(f) /\ f[k] = r
      BY <1>6, <2>1 DEF f
    <2> QED
      BY <1>15, <2>2 DEF OnStack
  <1>29. \A r \in Promise : Waits(r, q) => OnStack(n, r)
    <2>1. SUFFICES ASSUME NEW r \in Promise, Waits(r, q) PROVE OnStack(n, r)
      OBVIOUS
    <2>2. PICK k \in 1 .. Len(G) : G[k] = r
      BY <1>12, <2>1
    <2> QED
      BY <1>15, <2>2 DEF OnStack
  <1>30. \A r \in Promise : a.state[r] # "pending" \/ r = q => n.state[r] # "pending"
    BY <1>1, <1>20
  <1>31. LoopStack(n, p)
    <2>1. n.state[p] # "pending" \/ OnStack(n, p)
      BY <1>28, <1>30 DEF LoopInv, LoopStack
    <2>2. ASSUME NEW t \in Promise, NEW r \in Promise, Newly(n, t), Waits(r, t)
          PROVE  n.state[r] # "pending" \/ OnStack(n, r)
      <3>1. CASE t = q
        BY <1>29, <2>2, <3>1
      <3>2. CASE Newly(a, t)
        BY <1>28, <1>30, <2>2, <3>2 DEF LoopInv, LoopStack
      <3> QED
        BY <1>21, <2>2, <3>1, <3>2
    <2> QED
      BY <2>1, <2>2 DEF LoopStack
  <1>32. LoopOwners(n, p)
    <2>1. SUFFICES ASSUME WaitsAdopted
                   PROVE  /\ \A k \in 1 .. Len(n.stack) : p \in Follows(n.stack[k])
                          /\ \A k \in 1 .. Len(n.woken) : p \in Follows(conts[n.woken[k]])
      BY DEF LoopOwners
    <2>2. /\ \A k \in 1 .. Len(a.stack) : p \in Follows(a.stack[k])
          /\ \A k \in 1 .. Len(a.woken) : p \in Follows(conts[a.woken[k]])
      BY <2>1 DEF LoopInv, LoopOwners
    <2>3. p \in Follows(q)
      BY <1>6, <2>2
    <2>4. \A k \in 1 .. Len(G) : p \in Follows(G[k])
      BY <1>1, <1>8, <1>13, <2>1, <2>3, FollowsOn DEF WaitsAdopted
    <2>5. \A k \in 1 .. Len(n.stack) : p \in Follows(n.stack[k])
      BY <1>17, <2>2, <2>4, Zenon
    <2>6. \A k \in 1 .. Len(n.woken) : p \in Follows(conts[n.woken[k]])
      BY <1>9, <1>16, <2>2, <2>3
    <2> QED
      BY <2>5, <2>6
  <1>33. LoopAlone(n, p)
    <2>1. SUFFICES ASSUME waiters[p] = <<>>
                   PROVE  /\ \A k \in 1 .. Len(n.stack) : n.stack[k] = p
                          /\ n.woken = <<>>
                          /\ \A r \in Promise : Newly(n, r) => r = p
      BY DEF LoopAlone
    <2>2. /\ \A k \in 1 .. Len(a.stack) : a.stack[k] = p
          /\ a.woken = <<>>
          /\ \A r \in Promise : Newly(a, r) => r = p
      BY <2>1 DEF LoopInv, LoopAlone
    <2>3. q = p /\ Len(waiters[q]) = 0
      BY <1>6, <2>1, <2>2
    <2>4. Len(F) = 0 /\ Len(G) = 0
      <3>1. \A k \in 1 .. Len(F) : \E i \in 1 .. Len(waiters[q]) : waiters[q][i] = Frame(F[k])
        BY <1>4 DEF SortedUpTo
      <3>2. \A k \in 1 .. Len(G) : \E i \in 1 .. Len(waiters[q]) : waiters[q][i] = Adopter(G[k])
        BY <1>4 DEF SortedUpTo
      <3> QED
        BY <1>7, <2>3, <3>1, <3>2
    <2>5. n.woken = <<>>
      BY <1>1, <1>7, <2>2, <2>4
    <2>6. \A k \in 1 .. Len(n.stack) : n.stack[k] = p
      BY <1>17, <2>2, <2>4, SMTT(60)
    <2> QED
      BY <1>21, <2>2, <2>3, <2>5, <2>6
  <1> QED
    BY <1>24, <1>25, <1>26, <1>27, <1>31, <1>32, <1>33 DEF LoopInv, n

(* So it holds after every turn.                                           *)
LEMMA LoopKeeps ==
  ASSUME TypeOK, Parked, NEW p \in Promise, NEW how \in Settlement
  PROVE  \A n \in 0 .. Turns : LoopInv(Settling(p, how)[n], p)
  <1> DEFINE h == Settling(p, how)
             T == {n \in 0 .. Turns : LoopInv(h[n], p)}
  <1>1. Turns \in Nat
    BY StartType
  <1>2. /\ h \in [0 .. Turns -> Acc] /\ h[0] = Start(p)
        /\ \A n \in 1 .. Turns : h[n] = Pop(h[n - 1], how)
    BY SettlingDef
  <1> HIDE DEF h
  <1>3. ASSUME NEW a \in Acc, LoopInv(a, p) PROVE LoopInv(Pop(a, how), p)
    <2>1. CASE a.stack = <<>>
      BY <1>3, <2>1 DEF Pop
    <2>2. CASE a.stack # <<>> /\ a.state[Last(a.stack)] # "pending"
      BY <1>3, <2>2, LoopSkips, Zenon
    <2>3. CASE a.stack # <<>> /\ a.state[Last(a.stack)] = "pending"
      BY <1>3, <2>3, LoopSettles, Zenon
    <2> QED
      BY <2>1, <2>2, <2>3, Zenon
  <1>4. 0 \in T
    BY <1>1, <1>2, LoopStarts
  <1>5. \A n \in 0 .. Turns - 1 : n \in T => n + 1 \in T
    <2>1. SUFFICES ASSUME NEW n \in 0 .. Turns - 1, n \in T PROVE n + 1 \in T
      OBVIOUS
    <2>2. n + 1 \in 1 .. Turns /\ n + 1 \in 0 .. Turns /\ (n + 1) - 1 = n /\ n \in 0 .. Turns
      BY <1>1
    <2>3. h[n + 1] = Pop(h[n], how) /\ h[n] \in Acc
      BY <1>2, <2>2
    <2>4. LoopInv(h[n + 1], p)
      BY <1>3, <2>1, <2>3
    <2> QED
      BY <2>2, <2>4
  <1> HIDE DEF T
  <1>6. \A n \in 0 .. Turns : n \in T
    BY <1>1, <1>4, <1>5, SetInduction
  <1> QED
    BY <1>6 DEF T, h

(***************************************************************************)
(* The loop ends: each turn takes a promise off the stack, and pushes only *)
(* adopters it takes out of the table.                                     *)
(***************************************************************************)
Left(a) == Len(a.stack) + Cardinality(Adoptions(a.waiters))

(* Each turn has one promise less to look at, counting the adoptions still *)
(* in the table.                                                           *)
LEMMA LeftShrinks ==
  ASSUME NEW a \in Acc, Len(state) \in Nat, NEW how \in Settlement, a.stack # <<>>
  PROVE  Left(a) \in Nat /\ Left(Pop(a, how)) \in Nat /\ Left(Pop(a, how)) = Left(a) - 1
  <1> DEFINE n == Pop(a, how)
             q == Last(a.stack)
  <1>1. n \in Acc
    BY PopType
  <1>2. \A b \in Acc : /\ Len(b.stack) \in Nat
                       /\ b.waiters \in Seq(Seq(Waiter)) /\ Cardinality(Adoptions(b.waiters)) \in Nat
    BY AccFields, AdoptionsFinite
  <1>3. Left(a) \in Nat /\ Left(n) \in Nat
    BY <1>1, <1>2 DEF Left
  <1>4. a.stack \in Seq(Promise)
    BY AccFields, Zenon
  <1>5. /\ Front(a.stack) \in Seq(Promise) /\ Len(Front(a.stack)) = Len(a.stack) - 1
    BY <1>4, FrontOfStack, Zenon
  <1>s. SUFFICES Left(n) = Left(a) - 1
    BY <1>3
  <1>l. /\ Left(a) = Len(a.stack) + Cardinality(Adoptions(a.waiters))
        /\ Left(n) = Len(n.stack) + Cardinality(Adoptions(n.waiters))
    BY Zenon DEF Left
  <1>t. /\ Len(a.stack) \in Nat /\ Cardinality(Adoptions(a.waiters)) \in Nat
        /\ Len(n.stack) \in Nat /\ Cardinality(Adoptions(n.waiters)) \in Nat
        /\ a.waiters \in Seq(Seq(Waiter))
    BY <1>1, <1>2, Zenon
  <1>6. CASE a.state[q] # "pending"
    <2>1. n.waiters = a.waiters /\ n.stack = Front(a.stack)
      BY <1>6, PopSkips, Zenon
    <2> HIDE DEF n
    <2> QED
      BY <1>t, <1>l, <1>5, <2>1
  <1>7. CASE a.state[q] = "pending"
    <2> DEFINE G == AdoptersOf(a.waiters[q])
    <2>1. /\ q \in Promise /\ G \in Seq(Promise)
          /\ n.waiters = [a.waiters EXCEPT ![q] = <<>>]
          /\ n.stack = Front(a.stack) \o G
      BY <1>7, PopSettles, Zenon
    <2>2. q \in 1 .. Len(a.waiters)
      BY <2>1, AccFields DEF Promise
    <2> HIDE DEF n, q
    <2>3. Cardinality(Adoptions(a.waiters)) = Cardinality(Adoptions(n.waiters)) + Len(G)
      BY <1>t, <2>1, <2>2, AdoptionsTaken
    <2> HIDE DEF G
    <2>4. Joins(n.stack, Front(a.stack), G)
      BY <1>5, <2>1, Joined, Zenon
    <2> QED
      BY <1>t, <1>l, <1>5, <2>3, <2>4, SMTT(60) DEF Joins
  <1>8. a.state[q] = "pending" \/ a.state[q] # "pending"
    OBVIOUS
  <1> QED
    BY <1>6, <1>7, <1>8, Zenon

(* So the turns modelled are enough: the stack is empty at the end.        *)
LEMMA LoopEnds ==
  ASSUME TypeOK, NEW p \in Promise, NEW how \in Settlement
  PROVE  TableSettle(p, how) \in Acc /\ TableSettle(p, how).stack = <<>>
  <1> DEFINE h == Settling(p, how)
             T == {n \in 0 .. Turns : h[n].stack = <<>> \/ Left(h[n]) + n <= Turns}
  <1>1. Turns \in Nat /\ Len(state) \in Nat
    BY StartType
  <1>2. /\ h \in [0 .. Turns -> Acc] /\ h[0] = Start(p)
        /\ \A n \in 1 .. Turns : h[n] = Pop(h[n - 1], how)
    BY SettlingDef
  <1> HIDE DEF h
  <1>3. 0 \in T
    <2>1. Left(h[0]) = Turns
      <3>1. h[0].stack = <<p>> /\ h[0].waiters = waiters
        BY <1>2 DEF Start
      <3>2. Len(<<p>>) = 1
        OBVIOUS
      <3> QED
        BY <3>1, <3>2 DEF Left, Turns
    <2> QED
      BY <1>1, <2>1
  <1>4. \A n \in 0 .. Turns - 1 : n \in T => n + 1 \in T
    <2>1. SUFFICES ASSUME NEW n \in 0 .. Turns - 1, n \in T PROVE n + 1 \in T
      OBVIOUS
    <2>2. n + 1 \in 1 .. Turns /\ n + 1 \in 0 .. Turns /\ (n + 1) - 1 = n /\ n \in 0 .. Turns
      BY <1>1
    <2>3. h[n + 1] = Pop(h[n], how) /\ h[n] \in Acc
      BY <1>2, <2>2
    <2>4. CASE h[n].stack = <<>>
      <3>1. h[n + 1] = h[n]
        BY <2>3, <2>4 DEF Pop
      <3> QED
        BY <2>2, <2>4, <3>1
    <2>5. CASE h[n].stack # <<>>
      <3>1. Left(h[n]) \in Nat /\ Left(h[n + 1]) \in Nat /\ Left(h[n + 1]) = Left(h[n]) - 1
        BY <1>1, <2>3, <2>5, LeftShrinks
      <3>2. Left(h[n]) + n <= Turns
        BY <2>1, <2>5
      <3>3. Left(h[n + 1]) + (n + 1) <= Turns
        BY <1>1, <2>2, <3>1, <3>2
      <3> QED
        BY <2>2, <3>3
    <2> QED
      BY <2>4, <2>5
  <1>5. Turns \in T
    <2> HIDE DEF T
    <2>1. \A n \in 0 .. Turns : n \in T
      BY <1>1, <1>3, <1>4, SetInduction
    <2> QED
      BY <1>1, <2>1
  <1>6. h[Turns] \in Acc
    BY <1>1, <1>2
  <1>7. h[Turns].stack = <<>>
    <2>1. /\ Len(h[Turns].stack) \in Nat
          /\ h[Turns].stack = <<>> <=> Len(h[Turns].stack) = 0
          /\ h[Turns].waiters \in Seq(Seq(Waiter))
      BY <1>1, <1>6, AccFields
    <2>2. Cardinality(Adoptions(h[Turns].waiters)) \in Nat
      BY <2>1, AdoptionsFinite
    <2> QED
      BY <1>1, <1>5, <2>1, <2>2 DEF Left
  <1> QED
    BY <1>6, <1>7 DEF TableSettle, h

(***************************************************************************)
(* What settle does to the table, all of it (promise.rs:170-204): the      *)
(* promise settles with every promise that adopted it, directly or not;    *)
(* what had settled is left alone and so is what waits on a pending one;   *)
(* the frames woken are those parked on what settled, each once, those of  *)
(* one promise in the order they were parked.                              *)
(***************************************************************************)
LEMMA Settles ==
  ASSUME TypeOK, Parked, NEW p \in Promise, NEW how \in Settlement
  PROVE  LET a == TableSettle(p, how)
         IN  /\ a \in Acc
             /\ LoopTables(a) /\ LoopWoken(a) /\ LoopOrder(a) /\ LoopAll(a)
             /\ LoopOwners(a, p) /\ LoopAlone(a, p)
             /\ a.state[p] # "pending"
             /\ \A q, r \in Promise : Newly(a, q) /\ Waits(r, q) => a.state[r] # "pending"
  <1> DEFINE a == TableSettle(p, how)
  <1>1. a \in Acc /\ a.stack = <<>>
    BY LoopEnds
  <1>2. LoopInv(a, p)
    BY StartType, LoopKeeps DEF TableSettle
  <1> HIDE DEF a
  <1>3. \A q : ~OnStack(a, q)
    BY <1>1 DEF OnStack
  <1> QED
    BY <1>1, <1>2, <1>3 DEF LoopInv, LoopStack, a

(***************************************************************************)
(* The inductive invariant.  Its parts, from the tables up:                *)
(*   - types, and the frames as settle finds them (Parked above);          *)
(*   - the adoptions: a chain has an end, a parked adoption is either      *)
(*     waiting or over, whoever waits on a promise adopted it, and frames  *)
(*     parked late waited on nothing;                                      *)
(*   - the places a frame can be at once it is woken: only frames of       *)
(*     settled promises, each at one place, in a region it belongs to;     *)
(*   - the order among frames parked on one promise, in a parcel, in a     *)
(*     queue, between a queue and what ran, and in what ran.               *)
(***************************************************************************)
Run(c) == [kind |-> "cont", id |-> c]

RanOK == \A s \in Region : \A i \in 1 .. Len(ran[s]) :
           ran[s][i].kind = "cont" => ran[s][i].id \in Cont

TypeInv == TypeOK /\ RanOK /\ Parked

Acyclic == \A p, q \in Promise : Waits(q, p) => p \notin WouldSettle(q)
AdoptedWait ==
  \A pair \in adopted : IF state[pair[2]] = "pending" THEN Waits(pair[1], pair[2])
                                                      ELSE state[pair[1]] # "pending"
LateSettled == \A c \in Cont : Late(c) => state[conts[c]] # "pending"
ChainInv == Acyclic /\ AdoptedWait /\ WaitsAdopted /\ LateSettled

(* The region is one the frame belongs to, said of the tables it is read   *)
(* from so that it can be said of a step's next tables too.                *)
Reach(P, A, p) ==
  {q \in P : \A T \in SUBSET P : p \in T /\ (\A pair \in A : pair[1] \in T => pair[2] \in T) => q \in T}
Held(P, A, L, O, C, s, c) ==
  \/ <<c, s>> \in L
  \/ ~(\E t \in Region : <<c, t>> \in L) /\ \E q \in Reach(P, A, C[c]) : O[q] = s
Its(s, c) == Held(Promise, adopted, late, owner, conts, s, c)
Woken(c)  == state[conts[c]] # "pending"

LEMMA ItsBelongs == \A s, c : Its(s, c) <=> Belongs(c, s)
  BY DEF Its, Held, Reach, Belongs, Late, Follows

ReadyWoken == \A s \in Region : \A i \in 1 .. Len(ready[s]) : Woken(ready[s][i]) /\ Its(s, ready[s][i])
RanWoken   == \A s \in Region, c \in Cont : \A i \in 1 .. Len(ran[s]) :
                ran[s][i] = Run(c) => Woken(c) /\ Its(s, c)
SentWoken  == \A k \in 1 .. Len(parcels) : \A i \in 1 .. Len(parcels[k].conts) :
                Woken(parcels[k].conts[i]) /\ Its(parcels[k].to, parcels[k].conts[i])

OnceReady == \A s, t \in Region : \A i \in 1 .. Len(ready[s]), j \in 1 .. Len(ready[t]) :
               ready[s][i] = ready[t][j] => s = t /\ i = j
OnceRan   == \A s, t \in Region, c \in Cont : \A i \in 1 .. Len(ran[s]), j \in 1 .. Len(ran[t]) :
               ran[s][i] = Run(c) /\ ran[t][j] = Run(c) => s = t /\ i = j
OnceSent  == \A k, l \in 1 .. Len(parcels) :
               \A i \in 1 .. Len(parcels[k].conts), j \in 1 .. Len(parcels[l].conts) :
                 parcels[k].conts[i] = parcels[l].conts[j] => k = l /\ i = j
ReadyNotRan  == \A s, t \in Region : \A i \in 1 .. Len(ready[s]), j \in 1 .. Len(ran[t]) :
                  ran[t][j] # Run(ready[s][i])
ReadyNotSent == \A s \in Region, k \in 1 .. Len(parcels) :
                  \A i \in 1 .. Len(ready[s]), j \in 1 .. Len(parcels[k].conts) :
                    ~parcels[k].accepted => parcels[k].conts[j] # ready[s][i]
RanNotSent   == \A s \in Region, k \in 1 .. Len(parcels) :
                  \A i \in 1 .. Len(ran[s]), j \in 1 .. Len(parcels[k].conts) :
                    ~parcels[k].accepted => ran[s][i] # Run(parcels[k].conts[j])

IsReady(c) == \E s \in Region : \E i \in 1 .. Len(ready[s]) : ready[s][i] = c
HasRun(c)  == \E s \in Region : \E i \in 1 .. Len(ran[s]) : ran[s][i] = Run(c)
OnItsWay(c) == \E k \in 1 .. Len(parcels) : \E i \in 1 .. Len(parcels[k].conts) :
                 ~parcels[k].accepted /\ parcels[k].conts[i] = c
Off(c) == \E s \in Region : c \in cancelled[s] /\ Its(s, c)
Found  == "settled" \in Uses \/
          \A c \in Cont : Woken(c) => IsReady(c) \/ HasRun(c) \/ OnItsWay(c) \/ Off(c)

PlaceInv == /\ ReadyWoken /\ RanWoken /\ SentWoken
            /\ OnceReady /\ OnceRan /\ OnceSent
            /\ ReadyNotRan /\ ReadyNotSent /\ RanNotSent /\ Found

(* c was parked before d on the same promise, and no parcel could make the *)
(* two take different ways.                                                *)
Before(c, d) == c < d /\ conts[c] = conts[d]
Aligned(c, d) == Before(c, d) /\ (Sent(c) => Sent(d))

SentInOrder  == \A c, d \in Cont : Before(c, d) =>
                  \A k \in 1 .. Len(parcels) : \A j \in 1 .. Len(parcels[k].conts) :
                    parcels[k].conts[j] = d =>
                      \E i \in 1 .. Len(parcels[k].conts) : i < j /\ parcels[k].conts[i] = c
ReadyInOrder == \A s \in Region, c, d \in Cont : Aligned(c, d) =>
                  \A i, j \in 1 .. Len(ready[s]) : ready[s][i] = c /\ ready[s][j] = d => i < j
RunsFirst    == \A s \in Region, c, d \in Cont : Aligned(c, d) =>
                  \A i \in 1 .. Len(ready[s]), j \in 1 .. Len(ran[s]) :
                    ~(ready[s][i] = c /\ ran[s][j] = Run(d))
RanInOrder   == \A s \in Region, c, d \in Cont : Aligned(c, d) =>
                  \A i, j \in 1 .. Len(ran[s]) : ran[s][i] = Run(c) /\ ran[s][j] = Run(d) => i < j
OrderInv == SentInOrder /\ ReadyInOrder /\ RunsFirst /\ RanInOrder

(* What the types say of one place of a table.                             *)
LEMMA Shapes ==
  ASSUME TypeOK
  PROVE  /\ Len(state) \in Nat /\ Len(conts) \in Nat /\ Len(parcels) \in Nat
         /\ Len(owner) = Len(state) /\ Len(waiters) = Len(state)
         /\ \A p \in Promise : /\ state[p] \in Status /\ owner[p] \in Region
                               /\ waiters[p] \in Seq(Waiter) /\ Len(waiters[p]) \in Nat
         /\ \A c \in Cont : conts[c] \in Promise
         /\ \A s \in Region : /\ ready[s] \in Seq(Cont) /\ Len(ready[s]) \in Nat
                              /\ ran[s] \in Seq(Ran) /\ Len(ran[s]) \in Nat
                              /\ tasks[s] \in Seq(Nat) /\ cancelled[s] \in SUBSET Cont
                              /\ \A i \in 1 .. Len(ready[s]) : ready[s][i] \in Cont
         /\ \A k \in 1 .. Len(parcels) : /\ parcels[k].to \in Region /\ parcels[k].accepted \in BOOLEAN
                                         /\ parcels[k].conts \in Seq(Cont)
                                         /\ Len(parcels[k].conts) \in Nat
                                         /\ \A i \in 1 .. Len(parcels[k].conts) : parcels[k].conts[i] \in Cont
  <1>1. Len(state) \in Nat /\ Len(conts) \in Nat /\ Len(parcels) \in Nat
    BY LenProperties DEF TypeOK
  <1>2. Len(owner) = Len(state) /\ Len(waiters) = Len(state)
    BY DEF TypeOK
  <1>3. \A p \in Promise : /\ state[p] \in Status /\ owner[p] \in Region
                           /\ waiters[p] \in Seq(Waiter)
    BY <1>2, ElementOfSeq DEF TypeOK, Promise, Status
  <1>4. \A p \in Promise : Len(waiters[p]) \in Nat
    BY <1>3, LenProperties
  <1>5. \A c \in Cont : conts[c] \in Promise
    BY ElementOfSeq DEF TypeOK, Cont
  <1>6. \A s \in Region : /\ ready[s] \in Seq(Cont) /\ ran[s] \in Seq(Ran)
                          /\ tasks[s] \in Seq(Nat) /\ cancelled[s] \in SUBSET Cont
    BY DEF TypeOK
  <1>7. \A s \in Region : /\ Len(ready[s]) \in Nat /\ Len(ran[s]) \in Nat
                          /\ \A i \in 1 .. Len(ready[s]) : ready[s][i] \in Cont
    BY <1>6, LenProperties, ElementOfSeq
  <1>8. \A k \in 1 .. Len(parcels) : parcels[k] \in [to : Region, conts : Seq(Cont), accepted : BOOLEAN]
    BY ElementOfSeq DEF TypeOK
  <1>9. \A k \in 1 .. Len(parcels) : /\ parcels[k].to \in Region /\ parcels[k].accepted \in BOOLEAN
                                     /\ parcels[k].conts \in Seq(Cont)
    BY <1>8
  <1>10. \A k \in 1 .. Len(parcels) : /\ Len(parcels[k].conts) \in Nat
                                      /\ \A i \in 1 .. Len(parcels[k].conts) : parcels[k].conts[i] \in Cont
    BY <1>9, LenProperties, ElementOfSeq
  <1> QED
    BY <1>1, <1>2, <1>3, <1>4, <1>5, <1>6, <1>7, <1>9, <1>10

(* A list over a set is one over any larger set.                           *)
LEMMA Wider ==
  ASSUME NEW S, NEW T, S \subseteq T
  PROVE  Seq(S) \subseteq Seq(T)
  BY ListOver, ElementOfSeq

(***************************************************************************)
(* What a step leaves of the past: promises and frames keep their names, a *)
(* settled promise stays as it settled, owners and cancellations stay.     *)
(***************************************************************************)
Kept ==
  /\ Promise \subseteq Promise' /\ Cont \subseteq Cont'
  /\ \A p \in Promise : /\ owner'[p] = owner[p]
                        /\ state[p] # "pending" => state'[p] = state[p]
  /\ \A c \in Cont : conts'[c] = conts[c]
  /\ adopted \subseteq adopted'
  /\ \A c \in Cont, s \in Region : <<c, s>> \in late' <=> <<c, s>> \in late

(* The two tables as a settlement leaves them.                             *)
TablesSettled(a) ==
  /\ state' = a.state /\ waiters' = a.waiters
  /\ UNCHANGED <<owner, conts, adopted, late>>

(* What a settling leaves of the two tables of promises.                   *)
LEMMA SettledTables ==
  ASSUME TypeOK, Parked, NEW a \in Acc, TablesSettled(a), LoopTables(a)
  PROVE  /\ Kept /\ Promise' = Promise /\ Cont' = Cont
         /\ state' \in Seq(Status) /\ Len(state') = Len(state)
         /\ waiters' \in Seq(Seq(Waiter)) /\ Len(waiters') = Len(state')
         /\ \A p \in Promise : waiters'[p] = waiters[p] \/ waiters'[p] = <<>>
         /\ (\A p \in Promise : \A i \in 1 .. Len(waiters[p]) : WaiterIn(waiters[p][i]))'
         /\ Parked'
  <1>1. Len(state) \in Nat
    BY Shapes
  <1>2. /\ state' \in Seq(Status) /\ Len(state') = Len(state)
        /\ waiters' \in Seq(Seq(Waiter)) /\ Len(waiters') = Len(state)
        /\ \A p \in Promise : \A i \in 1 .. Len(waiters'[p]) : WaiterIn(waiters'[p][i])
    BY <1>1, AccFields DEF TablesSettled
  <1>3. /\ Promise' = Promise /\ Cont' = Cont /\ owner' = owner /\ conts' = conts
        /\ adopted' = adopted /\ late' = late
    BY <1>2 DEF Promise, Cont, TablesSettled
  <1>4. Kept
    BY <1>3 DEF Kept, TablesSettled, LoopTables
  <1>5. \A p \in Promise : /\ state'[p] # "pending" => waiters'[p] = <<>>
                           /\ state'[p] = "pending" => waiters'[p] = waiters[p] /\ state[p] = "pending"
    BY DEF TablesSettled, LoopTables
  <1>6. \A p \in Promise : waiters'[p] = waiters[p] \/ waiters'[p] = <<>>
    BY <1>5
  <1>7. (\A p \in Promise : \A i \in 1 .. Len(waiters[p]) : WaiterIn(waiters[p][i]))'
    BY <1>2, <1>3 DEF WaiterIn
  <1>8. SettledAreBare'
    BY <1>3, <1>5 DEF SettledAreBare
  <1>9. Len(<<>>) = 0
    OBVIOUS
  <1>10. FramesAreTheirs' /\ FramesInOrder'
    <2>1. FramesAreTheirs'
      BY <1>3, <1>6, <1>9 DEF FramesAreTheirs, Parked, Frame
    <2>2. FramesInOrder'
      BY <1>3, <1>6, <1>9 DEF FramesInOrder, Parked, Frame
    <2> QED
      BY <2>1, <2>2
  <1>11. PendingWait'
    <2>1. \A c \in Cont : conts[c] \in Promise
      BY Shapes
    <2> QED
      BY <1>3, <1>5, <2>1, ZenonT(60) DEF PendingWait, Parked, Frame
  <1> QED
    BY <1>2, <1>3, <1>4, <1>6, <1>7, <1>8, <1>10, <1>11 DEF Parked

(* The types in two halves: the table of promises, and the queues.         *)
TableType ==
  /\ state \in Seq({"pending"} \cup Settlement)
  /\ owner \in Seq(Region) /\ Len(owner) = Len(state)
  /\ waiters \in Seq(Seq(Waiter)) /\ Len(waiters) = Len(state)
  /\ \A p \in Promise : \A i \in 1 .. Len(waiters[p]) : WaiterIn(waiters[p][i])
  /\ conts \in Seq(Promise)
  /\ adopted \subseteq Promise \X Promise
QueueType ==
  /\ ready \in [Region -> Seq(Cont)]
  /\ tasks \in [Region -> Seq(Nat)]
  /\ cancelled \in [Region -> SUBSET Cont]
  /\ parcels \in Seq([to : Region, conts : Seq(Cont), accepted : BOOLEAN])
  /\ late \subseteq Cont \X Region
  /\ ran \in [Region -> Seq(Ran)]

(* The type invariant as what is said of the promises and of the queues.   *)
LEMMA TypeHalves == TypeOK <=> TableType /\ QueueType
  BY DEF TypeOK, TableType, QueueType

(* Create keeps the types,                                                 *)
LEMMA CreateTypes ==
  ASSUME TypeInv, NEW s \in Region, Create(s)
  PROVE  TypeInv' /\ Kept
  <1>1. /\ state' = Append(state, "pending") /\ waiters' = Append(waiters, <<>>)
        /\ owner' = Append(owner, s)
        /\ UNCHANGED <<ready, tasks, cancelled, parcels, conts, adopted, late, ran>>
    BY DEF Create
  <1>2. TypeOK
    BY DEF TypeInv
  <1>3. /\ state \in Seq(Status) /\ owner \in Seq(Region) /\ waiters \in Seq(Seq(Waiter))
        /\ Len(state) \in Nat /\ Len(owner) = Len(state) /\ Len(waiters) = Len(state)
    BY <1>2, Shapes DEF TypeOK, Status
  <1>4. /\ state' \in Seq(Status) /\ Len(state') = Len(state) + 1
        /\ state'[Len(state) + 1] = "pending"
        /\ \A p \in 1 .. Len(state) : state'[p] = state[p]
    BY <1>1, <1>3, AppendProperties DEF Status
  <1>5. /\ owner' \in Seq(Region) /\ Len(owner') = Len(state')
        /\ \A p \in 1 .. Len(state) : owner'[p] = owner[p]
    BY <1>1, <1>3, <1>4, AppendProperties
  <1>6. /\ waiters' \in Seq(Seq(Waiter)) /\ Len(waiters') = Len(state')
        /\ waiters'[Len(state) + 1] = <<>>
        /\ \A p \in 1 .. Len(state) : waiters'[p] = waiters[p]
    <2>1. <<>> \in Seq(Waiter)
      BY EmptySeq
    <2> QED
      BY <1>1, <1>3, <1>4, <2>1, AppendProperties
  <1>7. Promise = 1 .. Len(state) /\ Promise' = 1 .. Len(state) + 1 /\ Cont' = Cont /\ Promise \subseteq Promise'
    BY <1>1, <1>3, <1>4 DEF Promise, Cont
  <1>8. \A p \in Promise' : p \in Promise \/ p = Len(state) + 1
    BY <1>3, <1>7
  <1>9. Kept
    BY <1>1, <1>4, <1>5, <1>7 DEF Kept
  <1>10. Len(<<>>) = 0
    OBVIOUS
  <1>11. TableType'
    <2>1. (\A p \in Promise : \A i \in 1 .. Len(waiters[p]) : WaiterIn(waiters[p][i]))'
      <3>1. \A p \in Promise : \A i \in 1 .. Len(waiters[p]) : WaiterIn(waiters[p][i])
        BY <1>2 DEF TypeOK
      <3>2. \A p \in Promise : \A i \in 1 .. Len(waiters[p]) :
              /\ waiters[p][i] \in Waiter
              /\ waiters[p][i].kind = "cont" => waiters[p][i].id \in Cont'
              /\ waiters[p][i].kind = "promise" => waiters[p][i].id \in Promise'
        BY <1>7, <3>1 DEF WaiterIn
      <3>3. \A p \in Promise' : \A i \in 1 .. Len(waiters'[p]) : p \in Promise /\ waiters'[p] = waiters[p]
        BY <1>6, <1>7, <1>8, <1>10
      <3> QED
        BY <3>2, <3>3 DEF WaiterIn
    <2>2. conts' \in Seq(Promise')
      BY <1>1, <1>2, <1>7, Wider DEF TypeOK
    <2>3. adopted' \subseteq Promise' \X Promise'
      BY <1>1, <1>2, <1>7 DEF TypeOK
    <2> QED
      BY <1>4, <1>5, <1>6, <2>1, <2>2, <2>3 DEF TableType, Status
  <1>12. QueueType'
    BY <1>1, <1>2, <1>7 DEF QueueType, TypeOK
  <1>13. RanOK'
    BY <1>1, <1>7 DEF RanOK, TypeInv
  <1>14. Parked'
    <2>1. SettledAreBare'
      BY <1>4, <1>6, <1>7, <1>8 DEF SettledAreBare, TypeInv, Parked
    <2>2. FramesAreTheirs'
      BY <1>1, <1>6, <1>7, <1>8, <1>10 DEF FramesAreTheirs, TypeInv, Parked, Frame
    <2>3. FramesInOrder'
      BY <1>1, <1>6, <1>7, <1>8, <1>10 DEF FramesInOrder, TypeInv, Parked, Frame
    <2>4. PendingWait'
      <3>1. \A c \in Cont : conts[c] \in Promise
        BY <1>2, Shapes
      <3>2. \A c \in Cont : /\ conts'[c] = conts[c] /\ state'[conts[c]] = state[conts[c]]
                            /\ waiters'[conts[c]] = waiters[conts[c]]
        BY <1>1, <1>4, <1>6, <1>7, <3>1
      <3> QED
        <4>1. \A c \in Cont : state[conts[c]] = "pending"
                => \E i \in 1 .. Len(waiters[conts[c]]) : waiters[conts[c]][i] = Frame(c)
          BY DEF PendingWait, TypeInv, Parked
        <4>2. \A c \in Cont : state'[conts'[c]] = "pending"
                => \E i \in 1 .. Len(waiters'[conts'[c]]) : waiters'[conts'[c]][i] = Frame(c)
          <5>1. TAKE c \in Cont
          <5>2. HAVE state'[conts'[c]] = "pending"
          <5>3. state'[conts'[c]] = state[conts[c]] /\ waiters'[conts'[c]] = waiters[conts[c]]
            BY <3>2
          <5>4. PICK i \in 1 .. Len(waiters[conts[c]]) : waiters[conts[c]][i] = Frame(c)
            BY <4>1, <5>2, <5>3
          <5> QED
            BY <5>3, <5>4
        <4> QED
          BY <1>7, <4>2, Zenon DEF PendingWait, Frame
    <2> QED
      BY <2>1, <2>2, <2>3, <2>4 DEF Parked
  <1> QED
    BY <1>9, <1>11, <1>12, <1>13, <1>14, TypeHalves DEF TypeInv, TypeOK, TableType, QueueType

(* so does Settle,                                                         *)
LEMMA SettleTypes ==
  ASSUME TypeInv, NEW s \in Region, NEW p \in Promise, NEW how \in Settlement, Settle(s, p, how)
  PROVE  TypeInv' /\ Kept
  <1> DEFINE a == TableSettle(p, how)
  <1>1. /\ TablesSettled(a) /\ Deliver(s, p, a.woken)
        /\ UNCHANGED <<owner, tasks, cancelled, conts, adopted, late, ran>>
    BY DEF Settle, TablesSettled
  <1>2. TypeOK /\ Parked
    BY DEF TypeInv
  <1>3. a \in Acc /\ LoopTables(a)
    BY <1>2, Settles
  <1> HIDE DEF a
  <1>4. /\ Kept /\ Promise' = Promise /\ Cont' = Cont
        /\ state' \in Seq(Status) /\ Len(state') = Len(state)
        /\ waiters' \in Seq(Seq(Waiter)) /\ Len(waiters') = Len(state')
        /\ (\A q \in Promise : \A i \in 1 .. Len(waiters[q]) : WaiterIn(waiters[q][i]))'
        /\ Parked'
    BY <1>1, <1>2, <1>3, SettledTables
  <1>5. a.woken \in Seq(Cont)
    BY <1>2, <1>3, Shapes, AccFields
  <1>6. TableType'
    BY <1>1, <1>2, <1>4 DEF TableType, TypeOK, Status
  <1>7. QueueType'
    <2>1. ready' \in [Region -> Seq(Cont)]
      <3>1. ready \in [Region -> Seq(Cont)] /\ ready[s] \o a.woken \in Seq(Cont)
        BY <1>2, <1>5, Shapes, ConcatProperties DEF TypeOK
      <3>2. ready' = ready \/ ready' = [ready EXCEPT ![s] = @ \o a.woken]
        BY <1>1 DEF Deliver
      <3> HIDE DEF Cont
      <3> QED
        BY <3>1, <3>2, Zenon
    <2>2. parcels' \in Seq([to : Region, conts : Seq(Cont), accepted : BOOLEAN])
      <3> DEFINE Parcel == [to : Region, conts : Seq(Cont), accepted : BOOLEAN]
      <3>1. [to |-> owner[p], conts |-> a.woken, accepted |-> FALSE] \in Parcel
        BY <1>2, <1>5, Shapes
      <3>2. \/ parcels' = parcels
            \/ parcels' = Append(parcels, [to |-> owner[p], conts |-> a.woken, accepted |-> FALSE])
        BY <1>1 DEF Deliver
      <3>3. parcels \in Seq(Parcel)
        BY <1>2 DEF TypeOK
      <3> HIDE DEF Parcel
      <3>4. parcels' \in Seq(Parcel)
        BY <3>1, <3>2, <3>3, AppendProperties, ZenonT(60)
      <3> QED
        BY <3>4 DEF Parcel
    <2> QED
      BY <1>1, <1>2, <1>4, <2>1, <2>2 DEF QueueType, TypeOK
  <1>8. RanOK'
    BY <1>1, <1>4 DEF RanOK, TypeInv
  <1> QED
    BY <1>4, <1>6, <1>7, <1>8, TypeHalves DEF TypeInv, TypeOK, TableType, QueueType

(* Steps that only move what the queues hold.                              *)
LEMMA QueueSteps ==
  ASSUME TypeInv, UNCHANGED <<state, waiters, owner, conts, adopted, late>>, QueueType', RanOK'
  PROVE  TypeInv' /\ Kept
  <1>1. Promise' = Promise /\ Cont' = Cont
    BY DEF Promise, Cont
  <1>2. Kept
    BY <1>1 DEF Kept
  <1>3. TableType'
    BY <1>1 DEF TableType, TypeInv, TypeOK, WaiterIn
  <1>4. Parked'
    BY <1>1 DEF TypeInv, Parked, SettledAreBare, FramesAreTheirs, FramesInOrder, PendingWait, Frame
  <1> QED
    BY <1>2, <1>3, <1>4, TypeHalves DEF TypeInv, TypeOK, TableType, QueueType

(* so does Accept,                                                         *)
LEMMA AcceptTypes ==
  ASSUME TypeInv, NEW k \in 1 .. Len(parcels), Accept(k)
  PROVE  TypeInv' /\ Kept
  <1> DEFINE Parcel == [to : Region, conts : Seq(Cont), accepted : BOOLEAN]
  <1>1. /\ parcels' = [parcels EXCEPT ![k].accepted = TRUE]
        /\ ready' = [ready EXCEPT ![parcels[k].to] = @ \o parcels[k].conts]
        /\ UNCHANGED <<state, waiters, owner, tasks, cancelled, conts, adopted, late, ran>>
    BY DEF Accept
  <1>2. TypeOK /\ Cont' = Cont
    BY <1>1 DEF TypeInv, Cont
  <1>3. parcels \in Seq(Parcel) /\ parcels[k] \in Parcel
    BY <1>2, ElementOfSeq DEF TypeOK
  <1>4. [parcels[k] EXCEPT !.accepted = TRUE] \in Parcel
    BY <1>3
  <1>5. parcels[k].to \in Region /\ parcels[k].conts \in Seq(Cont)
    BY <1>3
  <1> HIDE DEF Parcel
  <1>6. parcels' \in Seq(Parcel)
    <2>1. parcels' = [parcels EXCEPT ![k] = [parcels[k] EXCEPT !.accepted = TRUE]]
      BY <1>1
    <2> QED
      BY <1>3, <1>4, <2>1, ExceptSeq
  <1>7. ready' \in [Region -> Seq(Cont)]
    <2>1. ready \in [Region -> Seq(Cont)] /\ ready[parcels[k].to] \o parcels[k].conts \in Seq(Cont)
      BY <1>2, <1>5, Shapes, ConcatProperties DEF TypeOK
    <2> HIDE DEF Cont
    <2> QED
      BY <1>1, <2>1, Zenon
  <1>8. QueueType'
    BY <1>1, <1>2, <1>6, <1>7 DEF QueueType, TypeOK, Parcel
  <1>9. RanOK'
    BY <1>1, <1>2 DEF RanOK, TypeInv
  <1> QED
    BY <1>1, <1>8, <1>9, QueueSteps

(* so do ScheduleTask and Cancel,                                          *)
LEMMA OtherTypes ==
  ASSUME TypeInv, NEW s \in Region, ScheduleTask(s) \/ \E c \in Cont : Cancel(s, c)
  PROVE  TypeInv' /\ Kept
  <1>1. /\ tasks' = tasks \/ tasks' = [tasks EXCEPT ![s] = Append(@, 1)]
        /\ cancelled' = cancelled \/ \E c \in Cont : cancelled' = [cancelled EXCEPT ![s] = @ \cup {c}]
        /\ UNCHANGED <<state, waiters, owner, ready, parcels, conts, adopted, late, ran>>
    BY DEF ScheduleTask, Cancel
  <1>2. TypeOK /\ Cont' = Cont
    BY <1>1 DEF TypeInv, Cont
  <1>3. tasks' \in [Region -> Seq(Nat)]
    <2>1. Append(tasks[s], 1) \in Seq(Nat) /\ tasks \in [Region -> Seq(Nat)]
      BY <1>2, Shapes, AppendProperties DEF TypeOK
    <2> QED
      BY <1>1, <2>1, Zenon
  <1>4. cancelled' \in [Region -> SUBSET Cont]
    <2>1. cancelled \in [Region -> SUBSET Cont]
      BY <1>2 DEF TypeOK
    <2>2. CASE cancelled' = cancelled
      BY <2>1, <2>2
    <2>3. ASSUME NEW c \in Cont, cancelled' = [cancelled EXCEPT ![s] = @ \cup {c}]
          PROVE  cancelled' \in [Region -> SUBSET Cont]
      <3>1. cancelled[s] \cup {c} \in SUBSET Cont
        BY <2>1
      <3> HIDE DEF Cont
      <3> QED
        BY <2>1, <2>3, <3>1, Zenon
    <2> QED
      BY <1>1, <2>2, <2>3
  <1>5. QueueType'
    BY <1>1, <1>2, <1>3, <1>4 DEF QueueType, TypeOK
  <1>6. RanOK'
    BY <1>1, <1>2 DEF RanOK, TypeInv
  <1> QED
    BY <1>1, <1>5, <1>6, QueueSteps

(* The two ways next goes: the first frame not cancelled, or a task.       *)
NextFrame(s, i) ==
  /\ ready[s][i] \notin cancelled[s]
  /\ \A j \in 1 .. (i - 1) : ready[s][j] \in cancelled[s]
  /\ ready' = [ready EXCEPT ![s] = SubSeq(@, i + 1, Len(@))]
  /\ ran' = [ran EXCEPT ![s] = Append(@, Run(ready[s][i]))]
  /\ UNCHANGED tasks
NextTask(s) ==
  /\ AllCancelled(s)
  /\ ready' = [ready EXCEPT ![s] = <<>>]
  /\ RunTask(s)

(* The two ways of RunNext.                                                *)
LEMMA TwoWays ==
  ASSUME NEW s \in Region, RunNext(s)
  PROVE  /\ NextTask(s) \/ \E i \in 1 .. Len(ready[s]) : NextFrame(s, i)
         /\ UNCHANGED <<state, waiters, owner, cancelled, parcels, conts, adopted, late>>
  BY DEF RunNext, NextFrame, NextTask, Run

(* What is left of the queue once its first i entries are gone.            *)
LEMMA Rest ==
  ASSUME NEW S, NEW s \in Seq(S), NEW i \in 1 .. Len(s), NEW u, u = SubSeq(s, i + 1, Len(s))
  PROVE  /\ u \in Seq(S) /\ Len(u) = Len(s) - i
         /\ \A j \in 1 .. Len(u) : i + j \in 1 .. Len(s) /\ u[j] = s[i + j]
  <1>1. Len(s) \in Nat
    BY LenProperties
  <1>2. u \in Seq(S)
    BY <1>1, SMT
  <1>3. Len(u) = Len(s) - i
    BY <1>1, SMT
  <1>4. \A j \in 1 .. Len(u) : i + j \in 1 .. Len(s)
    BY <1>1, <1>3
  <1>5. \A j \in 1 .. Len(u) : u[j] = s[i + j]
    BY <1>1, <1>3, SMT
  <1> QED
    BY <1>2, <1>3, <1>4, <1>5

(* RunNext keeps the types,                                                *)
LEMMA RunTypes ==
  ASSUME TypeInv, NEW s \in Region, RunNext(s)
  PROVE  TypeInv' /\ Kept
  <1>1. UNCHANGED <<state, waiters, owner, cancelled, parcels, conts, adopted, late>>
    BY TwoWays
  <1>2. TypeOK /\ Cont' = Cont
    BY <1>1 DEF TypeInv, Cont
  <1>3. /\ ready \in [Region -> Seq(Cont)] /\ ran \in [Region -> Seq(Ran)] /\ tasks \in [Region -> Seq(Nat)]
        /\ ready[s] \in Seq(Cont) /\ ran[s] \in Seq(Ran) /\ tasks[s] \in Seq(Nat)
    BY <1>2 DEF TypeOK
  <1>4. ASSUME NEW r \in Ran, r.kind = "cont" => r.id \in Cont, ran' = [ran EXCEPT ![s] = Append(@, r)]
        PROVE  ran' \in [Region -> Seq(Ran)] /\ RanOK'
    <2>1. /\ Append(ran[s], r) \in Seq(Ran) /\ Len(Append(ran[s], r)) = Len(ran[s]) + 1
          /\ \A i \in 1 .. Len(ran[s]) : Append(ran[s], r)[i] = ran[s][i]
          /\ Append(ran[s], r)[Len(ran[s]) + 1] = r
      BY <1>3, <1>4, AppendProperties
    <2>2. ran' \in [Region -> Seq(Ran)]
      BY <1>3, <1>4, <2>1, Zenon
    <2>3. \A t \in Region : ran'[t] = IF t = s THEN Append(ran[s], r) ELSE ran[t]
      BY <1>3, <1>4
    <2>4. Len(ran[s]) \in Nat
      BY <1>3, LenProperties
    <2>5. \A t \in Region : \A i \in 1 .. Len(ran'[t]) : ran'[t][i].kind = "cont" => ran'[t][i].id \in Cont
      <3>1. SUFFICES ASSUME NEW t \in Region, NEW i \in 1 .. Len(ran'[t]), ran'[t][i].kind = "cont"
                     PROVE  ran'[t][i].id \in Cont
        OBVIOUS
      <3>2. CASE t # s \/ i \in 1 .. Len(ran[s])
        BY <2>1, <2>3, <3>1, <3>2 DEF TypeInv, RanOK
      <3>3. CASE t = s /\ i = Len(ran[s]) + 1
        BY <1>4, <2>1, <2>3, <3>1, <3>3
      <3>4. t # s \/ i \in 1 .. Len(ran[s]) \/ (t = s /\ i = Len(ran[s]) + 1)
        <4>1. t = s => Len(ran'[t]) = Len(ran[s]) + 1
          BY <2>1, <2>3
        <4> QED
          BY <2>4, <3>1, <4>1
      <3> QED
        BY <3>2, <3>3, <3>4, Zenon
    <2> QED
      BY <1>2, <2>2, <2>5 DEF RanOK
  <1>5. ASSUME NEW i \in 1 .. Len(ready[s]), NextFrame(s, i) PROVE QueueType' /\ RanOK'
    <2>1. ready[s][i] \in Cont
      BY <1>3, ElementOfSeq
    <2>2. Run(ready[s][i]) \in Ran /\ Run(ready[s][i]).id = ready[s][i]
      BY <2>1 DEF Run, Ran, Cont
    <2>3. ran' \in [Region -> Seq(Ran)] /\ RanOK'
      BY <1>4, <1>5, <2>1, <2>2 DEF NextFrame
    <2>4. SubSeq(ready[s], i + 1, Len(ready[s])) \in Seq(Cont)
      BY <1>3, Rest
    <2>5. ready' \in [Region -> Seq(Cont)]
      BY <1>3, <1>5, <2>4 DEF NextFrame
    <2> QED
      BY <1>1, <1>2, <1>5, <2>3, <2>5 DEF NextFrame, QueueType, TypeOK
  <1>6. ASSUME NextTask(s) PROVE QueueType' /\ RanOK'
    <2> DEFINE r == [kind |-> "task", id |-> Head(tasks[s])]
    <2>1. tasks[s] # <<>> /\ tasks' = [tasks EXCEPT ![s] = Tail(@)] /\ ran' = [ran EXCEPT ![s] = Append(@, r)]
      BY <1>6 DEF NextTask, RunTask
    <2>2. Head(tasks[s]) \in Nat /\ Tail(tasks[s]) \in Seq(Nat)
      BY <1>3, <2>1, HeadTailProperties
    <2>3. r \in Ran /\ r.kind # "cont"
      BY <2>2 DEF Ran
    <2> HIDE DEF r
    <2>4. ran' \in [Region -> Seq(Ran)] /\ RanOK'
      BY <1>4, <2>1, <2>3
    <2>5. ready' \in [Region -> Seq(Cont)]
      BY <1>3, <1>6, EmptySeq DEF NextTask
    <2>6. tasks' \in [Region -> Seq(Nat)]
      BY <1>3, <2>1, <2>2
    <2> QED
      BY <1>1, <1>2, <2>4, <2>5, <2>6 DEF QueueType, TypeOK
  <1>7. QueueType' /\ RanOK'
    BY <1>5, <1>6, TwoWays
  <1> QED
    BY <1>1, <1>7, QueueSteps

(* so does Park,                                                           *)
LEMMA ParkTypes ==
  ASSUME TypeInv, NEW s \in Region, NEW p \in Promise, Park(s, p)
  PROVE  TypeInv' /\ Kept
  <1> DEFINE c == Len(conts) + 1
  <1>1. /\ conts' = Append(conts, p)
        /\ UNCHANGED <<state, owner, tasks, cancelled, parcels, adopted, ran>>
    BY DEF Park
  <1>2. TypeOK
    BY DEF TypeInv
  <1>3. /\ Len(conts) \in Nat /\ conts \in Seq(Promise) /\ Promise' = Promise
        /\ waiters \in Seq(Seq(Waiter)) /\ Len(waiters) = Len(state) /\ Promise = 1 .. Len(waiters)
        /\ ready \in [Region -> Seq(Cont)] /\ waiters[p] \in Seq(Waiter) /\ Len(waiters[p]) \in Nat
    BY <1>1, <1>2, Shapes DEF TypeOK, Promise
  <1>4. /\ conts' \in Seq(Promise) /\ Len(conts') = c /\ conts'[c] = p
        /\ \A d \in Cont : conts'[d] = conts[d]
    BY <1>1, <1>3, AppendProperties DEF Cont
  <1>5. Cont \subseteq Cont' /\ c \in Cont' /\ \A d \in Cont' : d \in Cont \/ d = c
    <2>1. Cont = 1 .. Len(conts) /\ Cont' = 1 .. Len(conts) + 1
      BY <1>4 DEF Cont
    <2> QED
      BY <1>3, <2>1
  <1>6. Kept /\ late' \subseteq Cont' \X Region
    <2>1. late' = late \/ late' = late \cup {<<c, s>>}
      BY DEF Park
    <2>2. late \subseteq Cont \X Region
      BY <1>2 DEF TypeOK
    <2>3. c \notin Cont
      BY <1>3 DEF Cont
    <2> HIDE DEF c
    <2>4. late' \subseteq Cont' \X Region
      BY <1>5, <2>1, <2>2
    <2>5. \A d \in Cont, t \in Region : <<d, t>> \in late' <=> <<d, t>> \in late
      BY <2>1, <2>3
    <2> QED
      BY <1>1, <1>3, <1>4, <1>5, <2>4, <2>5 DEF Kept
  <1>7. Seq(Cont) \subseteq Seq(Cont')
    BY <1>5, Wider
  <1>8. RanOK'
    BY <1>1, <1>5 DEF RanOK, TypeInv
  <1>9. ready' \in [Region -> Seq(Cont')]
    <2>1. ready \in [Region -> Seq(Cont')]
      BY <1>3, <1>7
    <2>2. Append(ready[s], c) \in Seq(Cont')
      BY <1>5, <2>1, AppendProperties
    <2>3. ready' = ready \/ ready' = [ready EXCEPT ![s] = Append(@, c)]
      BY DEF Park
    <2> HIDE DEF c
    <2> QED
      BY <2>1, <2>2, <2>3, Zenon
  <1>10. QueueType'
    <2>1. cancelled' \in [Region -> SUBSET Cont']
      BY <1>1, <1>2, <1>5 DEF TypeOK
    <2>2. parcels' \in Seq([to : Region, conts : Seq(Cont'), accepted : BOOLEAN])
      <3>1. [to : Region, conts : Seq(Cont), accepted : BOOLEAN]
              \subseteq [to : Region, conts : Seq(Cont'), accepted : BOOLEAN]
        BY <1>7
      <3> QED
        BY <1>1, <1>2, <3>1, Wider, ZenonT(60) DEF TypeOK
    <2> QED
      BY <1>1, <1>2, <1>6, <1>9, <2>1, <2>2 DEF QueueType, TypeOK
  (* The waiters, whether the frame waits or not.                          *)
  <1>11. CASE state[p] = "pending"
    <2> DEFINE ws == Append(waiters[p], Frame(c))
    <2>1. waiters' = [waiters EXCEPT ![p] = ws] /\ ready' = ready
      BY <1>11 DEF Park
    <2>2. Frame(c) \in Waiter /\ Frame(c).kind = "cont" /\ Frame(c).id = c
      BY <1>3 DEF Frame, Waiter
    <2>3. /\ ws \in Seq(Waiter) /\ Len(ws) = Len(waiters[p]) + 1
          /\ \A i \in 1 .. Len(waiters[p]) : ws[i] = waiters[p][i]
          /\ ws[Len(waiters[p]) + 1] = Frame(c)
      BY <1>3, <2>2, AppendProperties
    <2> HIDE DEF ws
    <2>4. /\ waiters' \in Seq(Seq(Waiter)) /\ Len(waiters') = Len(state)
          /\ \A q \in Promise : waiters'[q] = IF q = p THEN ws ELSE waiters[q]
      BY <1>3, <2>1, <2>3, ExceptSeq
    <2> HIDE DEF c
    <2>5. \A q \in Promise : \A i \in 1 .. Len(waiters'[q]) :
            \/ i \in 1 .. Len(waiters[q]) /\ waiters'[q][i] = waiters[q][i]
            \/ q = p /\ i = Len(waiters[p]) + 1 /\ waiters'[q][i] = Frame(c)
      <3>0. TAKE q \in Promise
      <3>1. TAKE i \in 1 .. Len(waiters'[q])
      <3>2. CASE q # p
        BY <2>4, <3>1, <3>2
      <3>3. CASE q = p
        <4>1. waiters'[q] = ws /\ i \in 1 .. Len(ws)
          BY <2>4, <3>1, <3>3
        <4>2. i \in 1 .. Len(waiters[p]) \/ i = Len(waiters[p]) + 1
          BY <1>3, <2>3, <4>1, SMTT(60)
        <4> QED
          BY <2>3, <3>3, <4>1, <4>2
      <3> QED
        BY <3>2, <3>3, Zenon
    <2>6. (\A q \in Promise : \A i \in 1 .. Len(waiters[q]) : WaiterIn(waiters[q][i]))'
      <3>1. \A q \in Promise : \A i \in 1 .. Len(waiters'[q]) :
              /\ waiters'[q][i] \in Waiter
              /\ waiters'[q][i].kind = "cont" => waiters'[q][i].id \in Cont'
              /\ waiters'[q][i].kind = "promise" => waiters'[q][i].id \in Promise
        BY <1>2, <1>5, <2>2, <2>5 DEF TypeOK, WaiterIn
      <3> QED
        BY <1>3, <3>1 DEF WaiterIn
    <2>7. TableType'
      BY <1>1, <1>2, <1>3, <1>4, <2>4, <2>6 DEF TableType, TypeOK
    <2>8. \A d \in Cont : d < c
      BY <1>3 DEF Cont, c
    <2>9. \A d, e : Frame(d) = Frame(e) => d = e
      BY DEF Frame
    <2>10. \A d \in Cont, q \in Promise : \A i \in 1 .. Len(waiters'[q]) :
             waiters'[q][i] = Frame(d) => i \in 1 .. Len(waiters[q]) /\ waiters[q][i] = Frame(d)
      BY <2>5, <2>8, <2>9, SMT DEF Cont
    <2>11. \A q \in Promise : \A i \in 1 .. Len(waiters'[q]) :
             waiters'[q][i] = Frame(c) => q = p /\ i = Len(waiters[p]) + 1
      <3>1. \A q \in Promise : \A i \in 1 .. Len(waiters[q]) : waiters[q][i] # Frame(c)
        <4>1. \A q \in Promise : \A i \in 1 .. Len(waiters[q]) : waiters[q][i].kind = "cont" => waiters[q][i].id \in Cont
          BY <1>2 DEF TypeOK, WaiterIn
        <4> QED
          BY <1>3, <2>2, <2>8, <4>1 DEF Cont
      <3> QED
        BY <2>5, <3>1, Zenon
    <2>12. SettledAreBare'
      BY <1>1, <1>3, <1>11, <2>4 DEF SettledAreBare, TypeInv, Parked
    <2>13. FramesAreTheirs'
      <3>1. \A q \in Promise, d \in Cont' : \A i \in 1 .. Len(waiters'[q]) : waiters'[q][i] = Frame(d) => conts'[d] = q
        BY <1>4, <1>5, <2>10, <2>11 DEF FramesAreTheirs, TypeInv, Parked
      <3> QED
        BY <1>3, <3>1, Zenon DEF FramesAreTheirs, Frame
    <2>14. FramesInOrder'
      <3>1. SUFFICES ASSUME NEW q \in Promise, NEW d \in Cont', NEW e \in Cont',
                            NEW i \in 1 .. Len(waiters'[q]), NEW j \in 1 .. Len(waiters'[q]),
                            i < j, waiters'[q][i] = Frame(d), waiters'[q][j] = Frame(e)
                     PROVE  d < e
        BY <1>3 DEF FramesInOrder, Frame
      <3>2. d # c
        <4>1. ASSUME d = c PROVE FALSE
          <5>1. q = p /\ i = Len(waiters[p]) + 1 /\ Len(waiters'[p]) = Len(waiters[p]) + 1
            BY <2>3, <2>4, <2>11, <3>1, <4>1
          <5> QED
            BY <1>3, <3>1, <5>1
        <4> QED
          BY <4>1
      <3>3. d \in Cont
        BY <1>5, <3>2
      <3>4. CASE e = c
        BY <2>8, <3>3, <3>4
      <3>5. CASE e \in Cont
        BY <2>10, <3>1, <3>3, <3>5 DEF FramesInOrder, TypeInv, Parked
      <3> QED
        BY <1>5, <3>4, <3>5
    <2>15. PendingWait'
      <3>1. SUFFICES ASSUME NEW d \in Cont', state[conts'[d]] = "pending"
                     PROVE  \E i \in 1 .. Len(waiters'[conts'[d]]) : waiters'[conts'[d]][i] = Frame(d)
        BY <1>1 DEF PendingWait, Frame
      <3>2. CASE d = c
        <4>1. Len(waiters[p]) + 1 \in 1 .. Len(waiters'[p])
          BY <1>3, <2>3, <2>4, SMTT(60)
        <4>2. waiters'[p][Len(waiters[p]) + 1] = Frame(c) /\ conts'[d] = p
          BY <1>4, <2>3, <2>4, <3>2
        <4> QED
          BY <3>2, <4>1, <4>2
      <3>3. CASE d \in Cont
        <4>1. conts'[d] = conts[d] /\ conts[d] \in Promise
          BY <1>2, <1>4, <3>3, Shapes
        <4>2. PICK i \in 1 .. Len(waiters[conts[d]]) : waiters[conts[d]][i] = Frame(d)
          BY <3>1, <3>3, <4>1 DEF PendingWait, TypeInv, Parked
        <4>3. i \in 1 .. Len(waiters'[conts[d]]) /\ waiters'[conts[d]][i] = Frame(d)
          <5>1. \A q \in Promise : \A j \in 1 .. Len(waiters[q]) :
                  j \in 1 .. Len(waiters'[q]) /\ waiters'[q][j] = waiters[q][j]
            <6>0. TAKE q \in Promise
            <6>1. TAKE j \in 1 .. Len(waiters[q])
            <6>2. CASE q # p
              BY <2>4, <6>2
            <6>3. CASE q = p
              <7>0. waiters'[q] = ws
                BY <2>4, <6>3, Zenon
              <7>2. j \in 1 .. Len(waiters[p])
                BY <6>1, <6>3, Zenon
              <7>1. waiters'[q] = ws /\ j \in 1 .. Len(ws)
                BY <2>3, <7>0, <7>2, LenProperties
              <7> QED
                BY <2>3, <6>3, <7>1
            <6> QED
              BY <6>2, <6>3, Zenon
          <5> QED
            BY <4>1, <4>2, <5>1, Zenon
        <4> QED
          BY <4>1, <4>3
      <3> QED
        BY <1>5, <3>2, <3>3
    <2> QED
      BY <1>6, <1>8, <1>10, <2>7, <2>12, <2>13, <2>14, <2>15, TypeHalves DEF TypeInv, Parked, TypeOK, TableType, QueueType
  <1>12. CASE state[p] # "pending"
    <2>1. waiters' = waiters
      BY <1>12 DEF Park
    <2>2. TableType'
      <3>1. \A q \in Promise : \A i \in 1 .. Len(waiters[q]) : WaiterIn(waiters[q][i])
        BY <1>2 DEF TypeOK
      <3> QED
        BY <1>1, <1>2, <1>3, <1>4, <1>5, <2>1, <3>1 DEF TableType, TypeOK, WaiterIn
    <2> HIDE DEF c
    <2>3. \A q \in Promise, d \in Cont' : \A i \in 1 .. Len(waiters[q]) : waiters[q][i] = Frame(d) => d \in Cont
      <3>1. \A q \in Promise : \A i \in 1 .. Len(waiters[q]) : waiters[q][i].kind = "cont" => waiters[q][i].id \in Cont
        BY <1>2 DEF TypeOK, WaiterIn
      <3>2. \A d : Frame(d).kind = "cont" /\ Frame(d).id = d
        BY DEF Frame
      <3> QED
        BY <3>1, <3>2, Zenon
    <2>4. SettledAreBare'
      BY <1>1, <1>3, <2>1 DEF SettledAreBare, TypeInv, Parked
    <2>5. FramesAreTheirs'
      <3>1. \A q \in Promise, d \in Cont' : \A i \in 1 .. Len(waiters'[q]) : waiters'[q][i] = Frame(d) => conts'[d] = q
        BY <1>4, <2>1, <2>3 DEF FramesAreTheirs, TypeInv, Parked
      <3> QED
        BY <1>3, <3>1, Zenon DEF FramesAreTheirs, Frame
    <2>6. FramesInOrder'
      <3>1. \A q \in Promise, d, e \in Cont' : \A i, j \in 1 .. Len(waiters[q]) :
              i < j /\ waiters[q][i] = Frame(d) /\ waiters[q][j] = Frame(e) => d < e
        BY <2>3, Zenon DEF FramesInOrder, TypeInv, Parked
      <3> QED
        BY <1>3, <2>1, <3>1, ZenonT(60) DEF FramesInOrder, Frame
    <2>7. PendingWait'
      <3>1. SUFFICES ASSUME NEW d \in Cont', state[conts'[d]] = "pending"
                     PROVE  \E i \in 1 .. Len(waiters[conts'[d]]) : waiters[conts'[d]][i] = Frame(d)
        BY <1>1, <2>1 DEF PendingWait, Frame
      <3>2. d # c
        BY <1>4, <1>12, <3>1
      <3>3. d \in Cont
        BY <1>5, <3>2
      <3> QED
        BY <1>4, <3>1, <3>3 DEF PendingWait, TypeInv, Parked
    <2> QED
      BY <1>6, <1>8, <1>10, <2>2, <2>4, <2>5, <2>6, <2>7, TypeHalves DEF TypeInv, Parked, TypeOK, TableType, QueueType
  <1> QED
    BY <1>11, <1>12

(* so does the adoption of a settled promise,                              *)
LEMMA AdoptSettledTypes ==
  ASSUME TypeInv, NEW p \in Promise, NEW q \in Promise, AdoptSettled(p, q)
  PROVE  TypeInv' /\ Kept
  <1> DEFINE a == TableSettle(p, state[q])
  <1>1. /\ TablesSettled(a) /\ state[q] # "pending"
        /\ UNCHANGED <<owner, ready, tasks, cancelled, parcels, conts, adopted, late, ran>>
    BY DEF AdoptSettled, TablesSettled
  <1>2. TypeOK /\ Parked
    BY DEF TypeInv
  <1>3. a \in Acc /\ LoopTables(a)
    <2>1. state[q] \in Settlement
      BY <1>1, <1>2, Shapes DEF Status
    <2> QED
      BY <1>2, <2>1, Settles, Zenon
  <1> HIDE DEF a
  <1>4. /\ Kept /\ Promise' = Promise /\ Cont' = Cont
        /\ state' \in Seq(Status) /\ Len(state') = Len(state)
        /\ waiters' \in Seq(Seq(Waiter)) /\ Len(waiters') = Len(state')
        /\ (\A r \in Promise : \A i \in 1 .. Len(waiters[r]) : WaiterIn(waiters[r][i]))'
        /\ Parked'
    BY <1>1, <1>2, <1>3, SettledTables
  <1>5. TableType'
    BY <1>1, <1>2, <1>4 DEF TableType, TypeOK, Status
  <1>6. QueueType'
    BY <1>1, <1>2, <1>4 DEF QueueType, TypeOK
  <1>7. RanOK'
    BY <1>1, <1>4 DEF RanOK, TypeInv
  <1> QED
    BY <1>4, <1>5, <1>6, <1>7, TypeHalves DEF TypeInv, TypeOK, TableType, QueueType

(* and so does that of a pending one.                                      *)
LEMMA AdoptPendingTypes ==
  ASSUME TypeInv, NEW p \in Promise, NEW q \in Promise, AdoptPending(p, q)
  PROVE  TypeInv' /\ Kept
  <1> DEFINE ws == Append(waiters[q], Adopter(p))
  <1>1. /\ waiters' = [waiters EXCEPT ![q] = ws] /\ state[q] = "pending"
        /\ adopted' = adopted \cup {<<p, q>>}
        /\ UNCHANGED <<state, owner, ready, tasks, cancelled, parcels, conts, late, ran>>
    BY DEF AdoptPending
  <1>2. TypeOK
    BY DEF TypeInv
  <1>3. /\ Promise' = Promise /\ Cont' = Cont
        /\ waiters \in Seq(Seq(Waiter)) /\ Len(waiters) = Len(state) /\ Promise = 1 .. Len(waiters)
        /\ waiters[q] \in Seq(Waiter) /\ \A r \in Promise : Len(waiters[r]) \in Nat
    BY <1>1, <1>2, Shapes DEF TypeOK, Promise, Cont
  <1>4. Adopter(p) \in Waiter /\ Adopter(p).kind = "promise" /\ Adopter(p).id = p
    BY <1>2, Shapes DEF Adopter, Waiter, Promise
  <1>5. /\ ws \in Seq(Waiter) /\ Len(ws) = Len(waiters[q]) + 1
        /\ \A i \in 1 .. Len(waiters[q]) : ws[i] = waiters[q][i]
        /\ ws[Len(waiters[q]) + 1] = Adopter(p)
    BY <1>3, <1>4, AppendProperties
  <1> HIDE DEF ws
  <1>6. /\ waiters' \in Seq(Seq(Waiter)) /\ Len(waiters') = Len(state)
        /\ \A r \in Promise : waiters'[r] = IF r = q THEN ws ELSE waiters[r]
    BY <1>1, <1>3, <1>5, ExceptSeq
  <1>7. \A r \in Promise : \A i \in 1 .. Len(waiters'[r]) :
          \/ i \in 1 .. Len(waiters[r]) /\ waiters'[r][i] = waiters[r][i]
          \/ r = q /\ waiters'[r][i] = Adopter(p)
    <2>1. TAKE r \in Promise
    <2>2. TAKE i \in 1 .. Len(waiters'[r])
    <2>3. CASE r # q
      BY <1>6, <2>2, <2>3
    <2>4. CASE r = q
      <3>1. waiters'[r] = ws /\ i \in 1 .. Len(ws)
        BY <1>6, <2>2, <2>4
      <3>2. i \in 1 .. Len(waiters[q]) \/ i = Len(waiters[q]) + 1
        BY <1>3, <1>5, <3>1, SMTT(60)
      <3> QED
        BY <1>5, <2>4, <3>1, <3>2
    <2> QED
      BY <2>3, <2>4, Zenon
  <1>8. \A r \in Promise : \A i \in 1 .. Len(waiters[r]) :
          i \in 1 .. Len(waiters'[r]) /\ waiters'[r][i] = waiters[r][i]
    <2>1. TAKE r \in Promise
    <2>2. TAKE i \in 1 .. Len(waiters[r])
    <2>3. CASE r # q
      BY <1>6, <2>2, <2>3
    <2>4. CASE r = q
      <3>1. waiters'[r] = ws /\ i \in 1 .. Len(ws)
        BY <1>3, <1>5, <1>6, <2>2, <2>4, SMTT(60)
      <3> QED
        BY <1>5, <2>2, <2>4, <3>1
    <2> QED
      BY <2>3, <2>4, Zenon
  <1>9. Kept
    BY <1>1, <1>3 DEF Kept
  <1>10. (\A r \in Promise : \A i \in 1 .. Len(waiters[r]) : WaiterIn(waiters[r][i]))'
    <2>1. \A r \in Promise : \A i \in 1 .. Len(waiters'[r]) :
            /\ waiters'[r][i] \in Waiter
            /\ waiters'[r][i].kind = "cont" => waiters'[r][i].id \in Cont
            /\ waiters'[r][i].kind = "promise" => waiters'[r][i].id \in Promise
      <3>1. \A r \in Promise : \A i \in 1 .. Len(waiters[r]) : WaiterIn(waiters[r][i])
        BY <1>2 DEF TypeOK
      <3> QED
        BY <1>4, <1>7, <3>1 DEF WaiterIn
    <2> QED
      BY <1>3, <2>1 DEF WaiterIn
  <1>11. TableType'
    <2>1. adopted' \in SUBSET (Promise \X Promise)
      <3>1. adopted \subseteq Promise \X Promise /\ <<p, q>> \in Promise \X Promise
        BY <1>2 DEF TypeOK
      <3> HIDE DEF Promise
      <3> QED
        BY <1>1, <3>1, Zenon
    <2> QED
      BY <1>1, <1>2, <1>3, <1>6, <1>10, <2>1 DEF TableType, TypeOK
  <1>12. QueueType'
    BY <1>1, <1>2, <1>3 DEF QueueType, TypeOK
  <1>13. RanOK'
    BY <1>1, <1>3 DEF RanOK, TypeInv
  <1>14. \A r \in Promise, c \in Cont : \A i \in 1 .. Len(waiters'[r]) :
           waiters'[r][i] = Frame(c) => i \in 1 .. Len(waiters[r]) /\ waiters[r][i] = Frame(c)
    <2>1. \A c : Frame(c) # Adopter(p)
      BY DEF Frame, Adopter
    <2> QED
      BY <1>7, <2>1
  <1>15. SettledAreBare'
    BY <1>1, <1>3, <1>6 DEF SettledAreBare, TypeInv, Parked
  <1>16. FramesAreTheirs'
    <2>1. \A r \in Promise, c \in Cont : \A i \in 1 .. Len(waiters'[r]) : waiters'[r][i] = Frame(c) => conts[c] = r
      BY <1>14, Zenon DEF FramesAreTheirs, TypeInv, Parked
    <2> QED
      BY <1>1, <1>3, <2>1, Zenon DEF FramesAreTheirs, Frame
  <1>17. FramesInOrder'
    <2>1. \A r \in Promise, c, d \in Cont : \A i, j \in 1 .. Len(waiters'[r]) :
            i < j /\ waiters'[r][i] = Frame(c) /\ waiters'[r][j] = Frame(d) => c < d
      <3>1. FramesInOrder
        BY DEF TypeInv, Parked
      <3>2. SUFFICES ASSUME NEW r \in Promise, NEW c \in Cont, NEW d \in Cont,
                            NEW i \in 1 .. Len(waiters'[r]), NEW j \in 1 .. Len(waiters'[r]),
                            i < j, waiters'[r][i] = Frame(c), waiters'[r][j] = Frame(d)
                     PROVE  c < d
        BY Zenon
      <3>3. /\ i \in 1 .. Len(waiters[r]) /\ waiters[r][i] = Frame(c)
            /\ j \in 1 .. Len(waiters[r]) /\ waiters[r][j] = Frame(d)
        BY <1>14, <3>2, Zenon
      <3> QED
        BY <3>1, <3>2, <3>3, Zenon DEF FramesInOrder
    <2> QED
      BY <1>3, <2>1, Zenon DEF FramesInOrder, Frame
  <1>18. PendingWait'
    <2>1. SUFFICES ASSUME NEW c \in Cont, state[conts[c]] = "pending"
                   PROVE  \E i \in 1 .. Len(waiters'[conts[c]]) : waiters'[conts[c]][i] = Frame(c)
      BY <1>1, <1>3 DEF PendingWait, Frame
    <2>2. conts[c] \in Promise
      BY <1>2, Shapes
    <2>3. PICK i \in 1 .. Len(waiters[conts[c]]) : waiters[conts[c]][i] = Frame(c)
      BY <2>1 DEF PendingWait, TypeInv, Parked
    <2> QED
      BY <1>8, <2>2, <2>3
  <1> QED
    BY <1>9, <1>11, <1>12, <1>13, <1>15, <1>16, <1>17, <1>18, TypeHalves
       DEF TypeInv, Parked, TypeOK, TableType, QueueType

(* The steps, one by one: the shape every proof about Next below follows.  *)
LEMMA Steps ==
  ASSUME [Next]_vars
  PROVE  \/ \E s \in Region : Create(s)
         \/ \E s \in Region : RunNext(s)
         \/ \E s \in Region : ScheduleTask(s) \/ \E c \in Cont : Cancel(s, c)
         \/ \E s \in Region, p \in Promise : Park(s, p)
         \/ \E s \in Region, p \in Promise, how \in Settlement : Settle(s, p, how)
         \/ \E p, q \in Promise : AdoptPending(p, q)
         \/ \E p, q \in Promise : AdoptSettled(p, q)
         \/ \E k \in 1 .. Len(parcels) : Accept(k)
         \/ UNCHANGED vars
  <1>1. CASE Next
    <2>1. Active \subseteq Region
      BY DEF Active
    <2> QED
      BY <1>1, <2>1, Zenon DEF Next
  <1>2. CASE UNCHANGED vars
    BY <1>2
  <1> QED
    BY <1>1, <1>2

(* Every step keeps the types, and takes nothing back.                     *)
LEMMA TypeNext ==
  ASSUME TypeInv, [Next]_vars
  PROVE  TypeInv' /\ Kept
  <1>1. ASSUME UNCHANGED vars PROVE TypeInv' /\ Kept
    <2>1. UNCHANGED <<state, waiters, owner, conts, adopted, late>>
      BY <1>1 DEF vars
    <2>2. Cont' = Cont
      BY <2>1 DEF Cont
    <2>3. QueueType' /\ RanOK'
      BY <1>1, <2>2 DEF vars, QueueType, RanOK, TypeInv, TypeOK
    <2> QED
      BY <2>1, <2>3, QueueSteps
  <1> QED
    BY <1>1, Steps, CreateTypes, RunTypes, OtherTypes, ParkTypes, SettleTypes, AdoptPendingTypes,
       AdoptSettledTypes, AcceptTypes, Zenon

(* The types hold at the start,                                            *)
LEMMA TypeInit == Init => TypeInv
  <1>1. SUFFICES ASSUME Init PROVE TypeInv
    OBVIOUS
  <1>2. Promise = {} /\ Cont = {}
    BY <1>1 DEF Init, Promise, Cont
  <1>3. /\ <<>> \in Seq({"pending"} \cup Settlement) /\ <<>> \in Seq(Region) /\ <<>> \in Seq(Seq(Waiter))
        /\ <<>> \in Seq(Promise) /\ <<>> \in Seq(Cont) /\ <<>> \in Seq(Nat) /\ <<>> \in Seq(Ran)
        /\ <<>> \in Seq([to : Region, conts : Seq(Cont), accepted : BOOLEAN])
    BY EmptySeq
  <1>4. TypeOK
    BY <1>1, <1>2, <1>3 DEF Init, TypeOK
  <1>5. Len(<<>>) = 0
    OBVIOUS
  <1>6. RanOK
    BY <1>1, <1>5 DEF Init, RanOK
  <1>7. Parked
    BY <1>2 DEF Parked, SettledAreBare, FramesAreTheirs, FramesInOrder, PendingWait
  <1> QED
    BY <1>4, <1>6, <1>7 DEF TypeInv

(* and always.                                                             *)
LEMMA TypeAlways == Spec => []TypeInv
  BY TypeInit, TypeNext, PTL DEF Spec

(***************************************************************************)
(* Every identifier in every table names what it should, whatever clients  *)
(* ask of the scheduler (TypeOK).                                          *)
(***************************************************************************)
THEOREM SchedTypes == Spec => []TypeOK
  <1>1. TypeInv => TypeOK
    BY DEF TypeInv
  <1> QED
    BY <1>1, TypeAlways, PTL

(***************************************************************************)
(* The adoptions.  A step that adds no waiting adopter makes no cycle.     *)
(***************************************************************************)
LEMMA FewerWaits ==
  ASSUME TypeInv, TypeInv', Kept, Acyclic,
         \A p, q \in Promise' : Waits(q, p)' => p \in Promise /\ q \in Promise /\ Waits(q, p)
  PROVE  Acyclic'
  <1>1. Len(state) \in Nat /\ (Len(state) \in Nat)'
    BY LenProperties DEF TypeInv, TypeOK
  <1>2. SUFFICES ASSUME NEW p \in Promise', NEW q \in Promise', Waits(q, p)'
                 PROVE  p \notin WouldSettle(q)'
    BY DEF Acyclic
  <1>3. p \in Promise /\ q \in Promise /\ Waits(q, p)
    BY <1>2, Zenon
  <1> DEFINE S == WouldSettle(q)
  <1>4. S \in SUBSET Promise /\ q \in S /\ Closed(S) /\ p \notin S
    BY <1>1, <1>3, WalkReaches DEF Reaches, Acyclic
  <1>5. S \in SUBSET Promise'
    BY <1>4 DEF Kept
  <1>6. \A x \in S : \A y \in Promise' : Waits(y, x)' => y \in S
    BY <1>4, <1>5 DEF Closed
  <1> HIDE DEF S
  <1>7. WouldSettle(q)' \subseteq S
    BY <1>1, <1>4, <1>5, <1>6, WalkReachesThen, Zenon DEF Reaches, Closed
  <1> QED
    BY <1>4, <1>7

(* One that adds an adopter asked first.                                   *)
LEMMA MoreWaits ==
  ASSUME TypeInv, TypeInv', Acyclic, Promise' = Promise, NEW p \in Promise, NEW q \in Promise,
         ~WouldCycle(p, q),
         \A x, y \in Promise : Waits(y, x)' => Waits(y, x) \/ (y = p /\ x = q)
  PROVE  Acyclic'
  <1>1. Len(state) \in Nat /\ (Len(state) \in Nat)'
    BY LenProperties DEF TypeInv, TypeOK
  <1>2. \A r \in Promise : /\ WouldSettle(r) \in SUBSET Promise /\ r \in WouldSettle(r)
                           /\ Closed(WouldSettle(r))
    BY <1>1, WalkReaches DEF Reaches
  <1>3. \A r \in Promise : \A T \in SUBSET Promise : r \in T /\ Closed(T) => WouldSettle(r) \subseteq T
    BY <1>1, WalkReaches DEF Reaches
  <1>4. q \notin WouldSettle(p)
    BY DEF WouldCycle
  <1>5. ASSUME NEW r \in Promise, NEW T \in SUBSET Promise, r \in T, Closed(T), q \in T => p \in T
        PROVE  WouldSettle(r)' \subseteq T
    <2>1. \A x \in T : \A y \in Promise' : Waits(y, x)' => y \in T
      BY <1>5 DEF Closed
    <2> QED
      BY <1>1, <1>5, <2>1, WalkReachesThen, Zenon DEF Reaches, Closed
  <1>6. \A r \in Promise : q \notin WouldSettle(r) => WouldSettle(r)' \subseteq WouldSettle(r)
    BY <1>2, <1>5
  <1>7. \A r \in Promise : WouldSettle(r)' \subseteq WouldSettle(r) \cup WouldSettle(p)
    <2>1. TAKE r \in Promise
    <2> DEFINE T == WouldSettle(r) \cup WouldSettle(p)
    <2>2. T \in SUBSET Promise /\ r \in T /\ p \in T
      BY <1>2
    <2>3. Closed(T)
      BY <1>2 DEF Closed
    <2> HIDE DEF T
    <2>4. WouldSettle(r)' \subseteq T
      BY <1>5, <2>2, <2>3
    <2> QED
      BY <2>4 DEF T
  <1>8. SUFFICES ASSUME NEW x \in Promise, NEW y \in Promise, Waits(y, x)'
                 PROVE  x \notin WouldSettle(y)'
    BY DEF Acyclic
  <1>9. CASE y = p /\ x = q
    BY <1>4, <1>6, <1>9
  <1>10. CASE Waits(y, x) /\ q \notin WouldSettle(y)
    BY <1>6, <1>10 DEF Acyclic
  <1>11. CASE Waits(y, x) /\ q \in WouldSettle(y)
    <2>1. x \notin WouldSettle(y)
      BY <1>11 DEF Acyclic
    <2>2. x \notin WouldSettle(p)
      <3>1. SUFFICES ASSUME x \in WouldSettle(p) PROVE FALSE
        OBVIOUS
      <3>2. y \in WouldSettle(p)
        BY <1>2, <1>11, <3>1 DEF Closed
      <3>3. WouldSettle(y) \subseteq WouldSettle(p)
        BY <1>2, <1>3, <3>2, Zenon
      <3> QED
        BY <1>4, <1>11, <3>3
    <2> QED
      BY <1>7, <2>1, <2>2
  <1> QED
    BY <1>8, <1>9, <1>10, <1>11

(* A settlement, whichever operation asked for it.                         *)
LEMMA ChainSettles ==
  ASSUME TypeInv, TypeInv', Kept, ChainInv, NEW p \in Promise, NEW how \in Settlement,
         TablesSettled(TableSettle(p, how)), UNCHANGED adopted
  PROVE  ChainInv'
  <1> DEFINE a == TableSettle(p, how)
  <1>1. TypeOK /\ Parked
    BY DEF TypeInv
  <1>2. /\ a \in Acc /\ LoopTables(a)
        /\ \A q, r \in Promise : Newly(a, q) /\ Waits(r, q) => a.state[r] # "pending"
    BY <1>1, Settles
  <1> HIDE DEF a
  <1>3. /\ TablesSettled(a) /\ Promise' = Promise
        /\ \A q \in Promise : waiters'[q] = waiters[q] \/ waiters'[q] = <<>>
    BY <1>1, <1>2, SettledTables DEF a
  <1>4. Len(<<>>) = 0
    OBVIOUS
  <1>5. \A q, r \in Promise : Waits(r, q)' => Waits(r, q)
    BY <1>3, <1>4 DEF Waits, Adopter
  <1>6. Acyclic'
    BY <1>3, <1>5, FewerWaits DEF ChainInv
  <1>7. AdoptedWait'
    <2>1. SUFFICES ASSUME NEW pair \in adopted
                   PROVE  IF state'[pair[2]] = "pending" THEN Waits(pair[1], pair[2])' ELSE state'[pair[1]] # "pending"
      BY DEF AdoptedWait
    <2>2. pair[1] \in Promise /\ pair[2] \in Promise
      BY <1>1 DEF TypeOK
    <2>3. state' = a.state /\ waiters' = a.waiters
      BY <1>3 DEF TablesSettled
    <2>4. CASE state[pair[2]] # "pending"
      BY <1>2, <2>2, <2>3, <2>4 DEF ChainInv, AdoptedWait, LoopTables
    <2>5. CASE state[pair[2]] = "pending" /\ state'[pair[2]] # "pending"
      BY <1>2, <2>2, <2>3, <2>5 DEF ChainInv, AdoptedWait, Newly
    <2>6. CASE state[pair[2]] = "pending" /\ state'[pair[2]] = "pending"
      <3>1. waiters'[pair[2]] = waiters[pair[2]]
        BY <1>2, <2>2, <2>3, <2>6 DEF LoopTables
      <3> QED
        BY <2>6, <3>1 DEF ChainInv, AdoptedWait, Waits, Adopter
    <2> QED
      BY <2>4, <2>5, <2>6
  <1>8. WaitsAdopted'
    BY <1>3, <1>5 DEF ChainInv, WaitsAdopted, TablesSettled
  <1>9. LateSettled'
    <2>1. \A c \in Cont : conts[c] \in Promise
      BY <1>1, Shapes
    <2>2. state' = a.state /\ conts' = conts /\ late' = late /\ Cont' = Cont
      BY <1>3 DEF TablesSettled, Cont
    <2>3. \A q \in Promise : state[q] # "pending" => a.state[q] # "pending"
      BY <1>2 DEF LoopTables
    <2>4. \A c \in Cont : state[conts[c]] # "pending" => a.state[conts[c]] # "pending"
      BY <2>1, <2>3
    <2> QED
      BY <2>2, <2>4 DEF ChainInv, LateSettled, Late
  <1> QED
    BY <1>6, <1>7, <1>8, <1>9 DEF ChainInv

(* Steps that leave what adopts what alone.                                *)
LEMMA ChainStays ==
  ASSUME TypeInv, TypeInv', Kept, ChainInv, UNCHANGED adopted,
         \A p, q \in Promise' : Waits(q, p)' <=> p \in Promise /\ q \in Promise /\ Waits(q, p),
         \A p \in Promise : state'[p] = state[p],
         \A c \in Cont', s \in Region : <<c, s>> \in late' => c \in Cont \/ state'[conts'[c]] # "pending"
  PROVE  ChainInv'
  <1>1. Acyclic'
    BY FewerWaits DEF ChainInv
  <1>2. adopted \subseteq Promise \X Promise
    BY DEF TypeInv, TypeOK
  <1>3. AdoptedWait'
    <2>1. SUFFICES ASSUME NEW pair \in adopted
                   PROVE  IF state'[pair[2]] = "pending" THEN Waits(pair[1], pair[2])' ELSE state'[pair[1]] # "pending"
      BY DEF AdoptedWait
    <2>2. pair[1] \in Promise /\ pair[2] \in Promise /\ pair[1] \in Promise' /\ pair[2] \in Promise'
      BY <1>2 DEF Kept
    <2>3. IF state[pair[2]] = "pending" THEN Waits(pair[1], pair[2]) ELSE state[pair[1]] # "pending"
      BY DEF ChainInv, AdoptedWait
    <2>4. Waits(pair[1], pair[2]) => Waits(pair[1], pair[2])'
      BY <2>2, Zenon
    <2> QED
      BY <2>2, <2>3, <2>4
  <1>4. WaitsAdopted'
    <2>1. \A p, q \in Promise' : Waits(q, p)' => <<q, p>> \in adopted'
      BY DEF ChainInv, WaitsAdopted
    <2> QED
      BY <2>1 DEF WaitsAdopted
  <1>5. LateSettled'
    <2>1. \A c \in Cont : conts[c] \in Promise /\ conts'[c] = conts[c]
      BY Shapes DEF TypeInv, Kept
    <2>2. ASSUME NEW c \in Cont', NEW s \in Region, <<c, s>> \in late' PROVE state'[conts'[c]] # "pending"
      <3>1. CASE c \in Cont
        <4>1. Late(c)
          BY <2>2, <3>1 DEF Late, Kept
        <4>2. state[conts[c]] # "pending"
          BY <3>1, <4>1 DEF ChainInv, LateSettled
        <4> QED
          BY <2>1, <3>1, <4>2
      <3> QED
        BY <2>2, <3>1
    <2> QED
      BY <2>2 DEF LateSettled, Late
  <1> QED
    BY <1>1, <1>3, <1>4, <1>5 DEF ChainInv

(* Every step keeps the chains.                                            *)
LEMMA ChainNext ==
  ASSUME TypeInv, TypeInv', Kept, ChainInv, [Next]_vars
  PROVE  ChainInv'
  <1>1. /\ TypeOK /\ Len(state) \in Nat /\ Promise = 1 .. Len(waiters) /\ Promise = 1 .. Len(state)
        /\ waiters \in Seq(Seq(Waiter)) /\ state \in Seq(Status) /\ Len(waiters) = Len(state)
        /\ \A p \in Promise : waiters[p] \in Seq(Waiter) /\ Len(waiters[p]) \in Nat
    BY Shapes DEF TypeInv, TypeOK, Promise, Status
  <1>2. \A q \in Promise : \A p : Waits(p, q) => p \in Promise
    <2>1. \A q \in Promise : \A i \in 1 .. Len(waiters[q]) :
            waiters[q][i].kind = "promise" => waiters[q][i].id \in Promise
      BY <1>1 DEF TypeOK, WaiterIn
    <2>2. \A p : Adopter(p).kind = "promise" /\ Adopter(p).id = p
      BY DEF Adopter
    <2> QED
      BY <2>1, <2>2, Zenon DEF Waits
  <1>3. ASSUME NEW s \in Region, Create(s) PROVE ChainInv'
    <2>1. /\ state' = Append(state, "pending") /\ waiters' = Append(waiters, <<>>) /\ adopted' = adopted
      BY <1>3 DEF Create
    <2>2. <<>> \in Seq(Waiter) /\ Len(<<>>) = 0
      BY EmptySeq
    <2>3. /\ Len(state') = Len(state) + 1
          /\ \A p \in Promise : waiters'[p] = waiters[p] /\ state'[p] = state[p]
          /\ waiters'[Len(state) + 1] = <<>>
      BY <1>1, <2>1, <2>2, AppendProperties DEF Status
    <2>4. \A p \in Promise' : p \in Promise \/ p = Len(state) + 1
      BY <1>1, <2>3 DEF Promise
    <2>5. \A p, q \in Promise' : Waits(q, p)' <=> p \in Promise /\ q \in Promise /\ Waits(q, p)
      BY <1>2, <2>2, <2>3, <2>4 DEF Waits, Adopter
    <2>6. late' = late /\ conts' = conts /\ Cont' = Cont
      BY <1>3 DEF Create, Cont
    <2> QED
      BY <2>1, <2>3, <2>5, <2>6, ChainStays
  <1>4. ASSUME NEW s \in Region, NEW p \in Promise, Park(s, p) PROVE ChainInv'
    <2> DEFINE w == Frame(Len(conts) + 1)
    <2>1. /\ state' = state /\ adopted' = adopted /\ Promise' = Promise
          /\ waiters' = waiters \/ waiters' = [waiters EXCEPT ![p] = Append(@, w)]
      BY <1>4 DEF Park, Promise
    <2>2. w \in Waiter /\ \A q : w # Adopter(q)
      <3>1. Len(conts) + 1 \in Nat
        BY <1>1, Shapes
      <3> QED
        BY <3>1 DEF Frame, Waiter, Adopter
    <2> HIDE DEF w
    <2>5. \A c \in Cont', t \in Region : <<c, t>> \in late' => c \in Cont \/ state'[conts'[c]] # "pending"
      <3>1. late \subseteq Cont \X Region /\ conts \in Seq(Promise)
        BY <1>1 DEF TypeOK
      <3>2. conts' = Append(conts, p) /\ conts'[Len(conts) + 1] = p
        BY <1>4, <3>1 DEF Park
      <3>3. \/ late' = late
            \/ late' = late \cup {<<Len(conts) + 1, s>>} /\ state[p] # "pending"
        BY <1>4 DEF Park
      <3>4. PICK n : n = Len(conts) + 1
        OBVIOUS
      <3> QED
        BY ONLY <2>1, <3>1, <3>2, <3>3, <3>4
    <2>3. CASE waiters' = waiters
      BY <1>2, <2>1, <2>3, <2>5, ChainStays DEF Waits, Adopter
    <2>4. CASE waiters' = [waiters EXCEPT ![p] = Append(@, w)]
      <3>1. /\ Len(Append(waiters[p], w)) = Len(waiters[p]) + 1
            /\ \A i \in 1 .. Len(waiters[p]) : Append(waiters[p], w)[i] = waiters[p][i]
            /\ Append(waiters[p], w)[Len(waiters[p]) + 1] = w
        BY <1>1, <2>2, AppendProperties
      <3>2. \A r \in Promise : waiters'[r] = IF r = p THEN Append(waiters[p], w) ELSE waiters[r]
        BY <1>1, <2>4
      <3> DEFINE ws == Append(waiters[p], w)
      <3> HIDE DEF ws
      <3>3. \A q : (\E i \in 1 .. Len(ws) : ws[i] = Adopter(q)) <=> Waits(q, p)
        <4>1. TAKE q
        <4>2. ASSUME NEW i \in 1 .. Len(ws), ws[i] = Adopter(q) PROVE Waits(q, p)
          <5>1. i # Len(waiters[p]) + 1
            BY <2>2, <3>1, <4>2 DEF ws
          <5>2. i \in 1 .. Len(waiters[p]) /\ waiters[p][i] = Adopter(q)
            BY <1>1, <3>1, <4>2, <5>1 DEF ws
          <5> QED
            BY <5>2 DEF Waits
        <4>3. ASSUME NEW i \in 1 .. Len(waiters[p]), waiters[p][i] = Adopter(q)
              PROVE  \E j \in 1 .. Len(ws) : ws[j] = Adopter(q)
          BY <1>1, <3>1, <4>3 DEF ws
        <4> QED
          BY <4>2, <4>3 DEF Waits
      <3>4. \A r, q \in Promise : Waits(q, r)' <=> Waits(q, r)
        <4>1. TAKE r \in Promise
        <4>2. TAKE q \in Promise
        <4>3. CASE r = p
          <5>1. waiters'[r] = ws
            BY <3>2, <4>3 DEF ws
          <5> QED
            BY <3>3, <4>3, <5>1 DEF Waits, Adopter
        <4>4. CASE r # p
          BY <3>2, <4>4 DEF Waits, Adopter
        <4> QED
          BY <4>3, <4>4
      <3> QED
        BY <2>1, <2>5, <3>4, ChainStays
    <2> QED
      BY <2>1, <2>3, <2>4
  <1>5. ASSUME NEW p \in Promise, NEW q \in Promise, AdoptPending(p, q) PROVE ChainInv'
    <2> DEFINE w == Adopter(p)
               ws == Append(waiters[q], w)
    <2>1. /\ state' = state /\ owner' = owner /\ Promise' = Promise
          /\ waiters' = [waiters EXCEPT ![q] = ws]
          /\ adopted' = adopted \cup {<<p, q>>} /\ state[q] = "pending"
          /\ ~WouldCycle(p, q) /\ MayAdopt(p, q)
      BY <1>5 DEF AdoptPending, Promise
    <2>2. w \in Waiter
      BY <1>1 DEF Adopter, Waiter, Promise
    <2>3. /\ Len(ws) = Len(waiters[q]) + 1
          /\ \A i \in 1 .. Len(waiters[q]) : ws[i] = waiters[q][i]
          /\ ws[Len(waiters[q]) + 1] = w
      BY <1>1, <2>2, AppendProperties
    <2> HIDE DEF ws
    <2>4. \A r \in Promise : waiters'[r] = IF r = q THEN ws ELSE waiters[r]
      BY <1>1, <2>1
    <2>5. \A r : (\E i \in 1 .. Len(ws) : ws[i] = Adopter(r)) <=> Waits(r, q) \/ r = p
      <3>1. TAKE r
      <3>2. ASSUME NEW i \in 1 .. Len(ws), ws[i] = Adopter(r) PROVE Waits(r, q) \/ r = p
        <4>1. CASE i = Len(waiters[q]) + 1
          BY <2>3, <3>2, <4>1 DEF Adopter
        <4>2. CASE i \in 1 .. Len(waiters[q])
          BY <2>3, <3>2, <4>2 DEF Waits
        <4> QED
          BY <1>1, <2>3, <4>1, <4>2
      <3>3. ASSUME NEW i \in 1 .. Len(waiters[q]), waiters[q][i] = Adopter(r)
            PROVE  \E j \in 1 .. Len(ws) : ws[j] = Adopter(r)
        <4>1. i \in 1 .. Len(ws) /\ ws[i] = Adopter(r)
          BY <1>1, <2>3, <3>3
        <4> QED
          BY <4>1
      <3>4. Len(waiters[q]) + 1 \in 1 .. Len(ws) /\ ws[Len(waiters[q]) + 1] = Adopter(p)
        BY <1>1, <2>3
      <3> QED
        BY <3>2, <3>3, <3>4 DEF Waits
    <2>6. \A x, y \in Promise : Waits(y, x)' <=> Waits(y, x) \/ (y = p /\ x = q)
      <3>1. TAKE x \in Promise
      <3>2. TAKE y \in Promise
      <3>3. CASE x = q
        BY <2>4, <2>5, <3>3 DEF Waits, Adopter
      <3>4. CASE x # q
        BY <2>4, <3>4 DEF Waits, Adopter
      <3> QED
        BY <3>3, <3>4
    <2>7. Acyclic'
      BY <2>1, <2>6, MoreWaits DEF ChainInv
    <2>8. AdoptedWait'
      <3>1. SUFFICES ASSUME NEW pair \in adopted'
                     PROVE  IF state'[pair[2]] = "pending" THEN Waits(pair[1], pair[2])' ELSE state'[pair[1]] # "pending"
        BY DEF AdoptedWait
      <3>2. CASE pair = <<p, q>>
        BY <2>1, <2>6, <3>2
      <3>3. CASE pair \in adopted
        <4>1. pair[1] \in Promise /\ pair[2] \in Promise
          BY <1>1, <3>3 DEF TypeOK
        <4>2. IF state[pair[2]] = "pending" THEN Waits(pair[1], pair[2]) ELSE state[pair[1]] # "pending"
          BY <3>3 DEF ChainInv, AdoptedWait
        <4>3. Waits(pair[1], pair[2]) => Waits(pair[1], pair[2])'
          BY <2>6, <4>1, Zenon
        <4> QED
          BY <2>1, <4>2, <4>3
      <3> QED
        BY <2>1, <3>1, <3>2, <3>3
    <2>9. WaitsAdopted' /\ LateSettled'
      <3>1. \A x, y \in Promise : Waits(y, x)' => <<y, x>> \in adopted'
        BY <2>1, <2>6 DEF ChainInv, WaitsAdopted
      <3>2. WaitsAdopted'
        BY <2>1, <3>1 DEF WaitsAdopted
      <3>3. LateSettled'
        <4>1. state' = state /\ conts' = conts /\ late' = late /\ Cont' = Cont
          BY <1>5 DEF AdoptPending, Cont
        <4> QED
          BY <4>1 DEF ChainInv, LateSettled, Late
      <3> QED
        BY <3>2, <3>3
    <2> QED
      BY <2>7, <2>8, <2>9 DEF ChainInv
  <1>6. ASSUME NEW s \in Region, NEW p \in Promise, NEW how \in Settlement, Settle(s, p, how) PROVE ChainInv'
    <2>1. TablesSettled(TableSettle(p, how)) /\ UNCHANGED adopted
      BY <1>6 DEF Settle, TablesSettled
    <2> QED
      BY <2>1, ChainSettles
  <1>7. ASSUME NEW p \in Promise, NEW q \in Promise, AdoptSettled(p, q) PROVE ChainInv'
    <2>1. TablesSettled(TableSettle(p, state[q])) /\ UNCHANGED adopted
      BY <1>7 DEF AdoptSettled, TablesSettled
    <2>2. state[q] \in Settlement
      BY <1>1, <1>7, Shapes DEF AdoptSettled, Status
    <2> QED
      BY <2>1, <2>2, ChainSettles
  <1>8. ASSUME UNCHANGED <<state, waiters, owner, conts, adopted, late>> PROVE ChainInv'
    <2>1. Promise' = Promise
      BY <1>8 DEF Promise
    <2>2. \A p, q \in Promise' : Waits(q, p)' <=> p \in Promise /\ q \in Promise /\ Waits(q, p)
      BY <1>8, <2>1 DEF Waits, Adopter
    <2>3. Cont' = Cont
      BY <1>8 DEF Cont
    <2> QED
      BY <1>8, <2>1, <2>2, <2>3, ChainStays
  <1>9. ASSUME NEW s \in Region, RunNext(s) \/ ScheduleTask(s) \/ \E c \in Cont : Cancel(s, c) PROVE ChainInv'
    BY <1>8, <1>9, TwoWays DEF ScheduleTask, Cancel
  <1>10. ASSUME NEW k \in 1 .. Len(parcels), Accept(k) PROVE ChainInv'
    BY <1>8, <1>10 DEF Accept
  <1>11. ASSUME UNCHANGED vars PROVE ChainInv'
    BY <1>8, <1>11 DEF vars
  <1> QED
    BY <1>3, <1>4, <1>5, <1>6, <1>7, <1>9, <1>10, <1>11, Steps, Zenon

(* They hold at the start,                                                 *)
LEMMA ChainInit == Init => ChainInv
  BY DEF Init, ChainInv, Acyclic, AdoptedWait, WaitsAdopted, LateSettled, Late, Promise, Cont

(* and always.                                                             *)
LEMMA ChainAlways == Spec => []ChainInv
  <1>1. TypeInv /\ TypeInv' /\ ChainInv /\ [Next]_vars => ChainInv'
    BY TypeNext, ChainNext
  <1> QED
    BY <1>1, ChainInit, TypeAlways, PTL DEF Spec

(***************************************************************************)
(* Adoption chains end, and what adopted a settled promise has settled:    *)
(* with would_cycle asked before every adoption, no pending promise waits  *)
(* on itself through others (ChainsEnd).                                   *)
(***************************************************************************)
THEOREM SchedChains == Spec => []ChainsEnd
  <1>1. ChainInv => ChainsEnd
    <2>1. SUFFICES ASSUME ChainInv PROVE ChainsEnd
      OBVIOUS
    <2>2. \A pair \in adopted : state[pair[2]] # "pending" => state[pair[1]] # "pending"
      BY <2>1 DEF ChainInv, AdoptedWait
    <2> QED
      BY <2>1, <2>2, Zenon DEF ChainInv, Acyclic, ChainsEnd
  <1> QED
    BY <1>1, ChainAlways, PTL

(***************************************************************************)
(* The places of woken frames.  What every step leaves of them.            *)
(***************************************************************************)
WokenThen(c)  == state'[conts'[c]] # "pending"
ItsThen(s, c) == Held(Promise', adopted', late', owner', conts', s, c)

(* A frame belongs to every region it belonged to: adoptions are only      *)
(* added, and only a new frame is parked late.                             *)
LEMMA StillIts ==
  ASSUME TypeInv, Kept, NEW s \in Region, NEW c \in Cont, Its(s, c)
  PROVE  ItsThen(s, c)
  <1>1. conts[c] \in Promise /\ conts'[c] = conts[c] /\ adopted \subseteq Promise \X Promise
    BY Shapes DEF TypeInv, TypeOK, Kept
  <1>2. \A t \in Region : <<c, t>> \in late' <=> <<c, t>> \in late
    BY DEF Kept
  <1>3. ASSUME NEW q \in Reach(Promise, adopted, conts[c]), owner[q] = s
        PROVE  q \in Reach(Promise', adopted', conts'[c]) /\ owner'[q] = s
    <2>1. q \in Promise /\ Promise \subseteq Promise' /\ owner'[q] = owner[q]
      BY <1>3 DEF Reach, Kept
    <2>2. ASSUME NEW T \in SUBSET Promise', conts'[c] \in T, \A pair \in adopted' : pair[1] \in T => pair[2] \in T
          PROVE  q \in T
      <3>1. \A pair \in adopted : pair \in adopted' /\ pair[1] \in Promise /\ pair[2] \in Promise
        BY <1>1 DEF Kept
      <3>2. \A pair \in adopted : pair[1] \in T \cap Promise => pair[2] \in T \cap Promise
        BY <2>2, <3>1
      <3>3. conts[c] \in T \cap Promise /\ T \cap Promise \in SUBSET Promise
        BY <1>1, <2>2
      <3>4. q \in T \cap Promise
        BY <1>3, <3>2, <3>3, Zenon DEF Reach
      <3> QED
        BY <3>4
    <2> QED
      BY <1>3, <2>1, <2>2, Zenon DEF Reach
  <1>4. CASE <<c, s>> \in late
    BY <1>2, <1>4 DEF ItsThen, Held
  <1>5. CASE /\ ~(\E t \in Region : <<c, t>> \in late)
             /\ \E q \in Reach(Promise, adopted, conts[c]) : owner[q] = s
    <2>1. PICK q \in Reach(Promise, adopted, conts[c]) : owner[q] = s
      BY <1>5
    <2>2. q \in Reach(Promise', adopted', conts'[c]) /\ owner'[q] = s
      BY <1>3, <2>1
    <2> QED
      BY <1>2, <1>5, <2>2, Zenon DEF ItsThen, Held
  <1> QED
    BY <1>4, <1>5, Zenon DEF Its, Held

(* A frame that was woken stays woken, and belongs where it belonged.      *)
LEMMA StaysWoken ==
  ASSUME TypeInv, Kept
  PROVE  \A c \in Cont : /\ c \in Cont'
                         /\ Woken(c) => WokenThen(c)
                         /\ \A s \in Region : Its(s, c) => ItsThen(s, c)
  <1>1. \A c \in Cont : conts[c] \in Promise
    BY Shapes DEF TypeInv
  <1>2. \A c \in Cont : c \in Cont' /\ (Woken(c) => WokenThen(c))
    BY <1>1 DEF Kept, Woken, WokenThen
  <1> QED
    BY <1>2, StillIts

(* Frames put at the end of a region's queue, place by place.              *)
Queued(s, W) ==
  \A t \in Region :
    /\ \A i \in 1 .. Len(ready[t]) : i \in 1 .. Len(ready'[t]) /\ ready'[t][i] = ready[t][i]
    /\ \A i \in 1 .. Len(ready'[t]) :
         \/ i \in 1 .. Len(ready[t]) /\ ready'[t][i] = ready[t][i]
         \/ /\ t = s /\ i > Len(ready[t]) /\ i - Len(ready[t]) \in 1 .. Len(W)
            /\ ready'[t][i] = W[i - Len(ready[t])]
    /\ t = s => \A k \in 1 .. Len(W) : /\ Len(ready[t]) + k \in 1 .. Len(ready'[t])
                                       /\ ready'[t][Len(ready[t]) + k] = W[k]

(* Appending to one region's queue adds those frames there and nothing     *)
(* else.                                                                   *)
LEMMA Queues ==
  ASSUME TypeInv, NEW s \in Region, NEW S, Cont \subseteq S, NEW W \in Seq(S),
         ready' = [ready EXCEPT ![s] = @ \o W]
  PROVE  Queued(s, W)
  <1>1. ready \in [Region -> Seq(Cont)] /\ ready[s] \in Seq(S) /\ \A t \in Region : Len(ready[t]) \in Nat
    <2>1. TypeOK
      BY DEF TypeInv
    <2> QED
      BY <2>1, Wider, Shapes DEF TypeOK
  <1>2. \A t \in Region : ready'[t] = IF t = s THEN ready[s] \o W ELSE ready[t]
    BY <1>1
  <1>3. Joins(ready'[s], ready[s], W)
    BY <1>1, <1>2, Joined, Zenon
  <1>4. SUFFICES ASSUME NEW t \in Region
                 PROVE  /\ \A i \in 1 .. Len(ready[t]) : i \in 1 .. Len(ready'[t]) /\ ready'[t][i] = ready[t][i]
                        /\ \A i \in 1 .. Len(ready'[t]) :
                             \/ i \in 1 .. Len(ready[t]) /\ ready'[t][i] = ready[t][i]
                             \/ /\ t = s /\ i > Len(ready[t]) /\ i - Len(ready[t]) \in 1 .. Len(W)
                                /\ ready'[t][i] = W[i - Len(ready[t])]
                        /\ t = s => \A k \in 1 .. Len(W) : /\ Len(ready[t]) + k \in 1 .. Len(ready'[t])
                                                           /\ ready'[t][Len(ready[t]) + k] = W[k]
    BY DEF Queued
  <1>5. CASE t = s
    BY <1>3, <1>5 DEF Joins
  <1>6. CASE t # s
    BY <1>2, <1>6
  <1> QED
    BY <1>5, <1>6

(* Frames nowhere yet, put in a queue.                                     *)
LEMMA QueueKeeps ==
  ASSUME TypeInv, Kept, PlaceInv, NEW s \in Region, NEW W, Queued(s, W), ran' = ran,
         \A k \in 1 .. Len(W) : WokenThen(W[k]) /\ ItsThen(s, W[k]),
         \A k, l \in 1 .. Len(W) : W[k] = W[l] => k = l,
         \A k \in 1 .. Len(W) : ~IsReady(W[k]) /\ ~HasRun(W[k])
  PROVE  ReadyWoken' /\ OnceReady' /\ ReadyNotRan'
  <1>1. \A t \in Region : /\ Len(ready[t]) \in Nat
                          /\ \A i \in 1 .. Len(ready[t]) : ready[t][i] \in Cont
    BY Shapes DEF TypeInv
  <1>2. \A t \in Region : \A i \in 1 .. Len(ready'[t]) :
          \/ i \in 1 .. Len(ready[t]) /\ ready'[t][i] = ready[t][i]
          \/ \E k \in 1 .. Len(W) : t = s /\ k = i - Len(ready[t]) /\ ready'[t][i] = W[k]
    BY DEF Queued
  <1>3. ReadyWoken'
    <2>1. SUFFICES ASSUME NEW t \in Region, NEW i \in 1 .. Len(ready'[t])
                   PROVE  WokenThen(ready'[t][i]) /\ ItsThen(t, ready'[t][i])
      BY DEF ReadyWoken, Woken, Its, WokenThen, ItsThen
    <2>2. CASE i \in 1 .. Len(ready[t]) /\ ready'[t][i] = ready[t][i]
      <3>1. ready[t][i] \in Cont /\ Woken(ready[t][i]) /\ Its(t, ready[t][i])
        BY <1>1, <2>2 DEF PlaceInv, ReadyWoken
      <3> QED
        BY <2>2, <3>1, StaysWoken
    <2>3. ASSUME NEW k \in 1 .. Len(W), t = s, ready'[t][i] = W[k]
          PROVE  WokenThen(ready'[t][i]) /\ ItsThen(t, ready'[t][i])
      BY <2>3
    <2> QED
      BY <1>2, <2>2, <2>3
  <1>4. OnceReady'
    <2>1. SUFFICES ASSUME NEW t \in Region, NEW u \in Region,
                          NEW i \in 1 .. Len(ready'[t]), NEW j \in 1 .. Len(ready'[u]), ready'[t][i] = ready'[u][j]
                   PROVE  t = u /\ i = j
      BY DEF OnceReady
    <2>2. \/ i \in 1 .. Len(ready[t]) /\ ready'[t][i] = ready[t][i]
          \/ \E k \in 1 .. Len(W) : t = s /\ k = i - Len(ready[t]) /\ ready'[t][i] = W[k]
      BY <1>2
    <2>3. \/ j \in 1 .. Len(ready[u]) /\ ready'[u][j] = ready[u][j]
          \/ \E k \in 1 .. Len(W) : u = s /\ k = j - Len(ready[u]) /\ ready'[u][j] = W[k]
      BY <1>2
    <2>4. CASE i \in 1 .. Len(ready[t]) /\ ready'[t][i] = ready[t][i]
      <3>1. IsReady(ready'[u][j])
        BY <2>1, <2>4 DEF IsReady
      <3>2. j \in 1 .. Len(ready[u]) /\ ready'[u][j] = ready[u][j]
        BY <2>3, <3>1
      <3>3. ready[t][i] = ready[u][j]
        BY <2>1, <2>4, <3>2
      <3> QED
        BY <2>4, <3>2, <3>3 DEF PlaceInv, OnceReady
    <2>5. ASSUME NEW k \in 1 .. Len(W), t = s, k = i - Len(ready[t]), ready'[t][i] = W[k]
          PROVE  t = u /\ i = j
      <3>1. ~IsReady(ready'[u][j])
        BY <2>1, <2>5
      <3>2. PICK l \in 1 .. Len(W) : u = s /\ l = j - Len(ready[u]) /\ ready'[u][j] = W[l]
        BY <2>3, <3>1 DEF IsReady
      <3>3. k = l
        BY <2>1, <2>5, <3>2
      <3> QED
        BY <1>1, <2>5, <3>2, <3>3
    <2> QED
      BY <2>2, <2>4, <2>5
  <1>5. ReadyNotRan'
    <2>1. SUFFICES ASSUME NEW t \in Region, NEW u \in Region,
                          NEW i \in 1 .. Len(ready'[t]), NEW j \in 1 .. Len(ran[u]), ran[u][j] = Run(ready'[t][i])
                   PROVE  FALSE
      BY DEF ReadyNotRan, Run
    <2>2. HasRun(ready'[t][i])
      BY <2>1 DEF HasRun
    <2>3. i \in 1 .. Len(ready[t]) /\ ready'[t][i] = ready[t][i]
      BY <1>2, <2>2
    <2> QED
      BY <2>1, <2>3 DEF PlaceInv, ReadyNotRan
  <1> QED
    BY <1>3, <1>4, <1>5

(* What ran and what was sent, where neither list changed.                 *)
LEMMA RanStays ==
  ASSUME TypeInv, Kept, PlaceInv, ran' = ran
  PROVE  RanWoken' /\ OnceRan'
  <1>1. \A s \in Region, c \in Cont' : \A i \in 1 .. Len(ran[s]) : ran[s][i] = Run(c) => c \in Cont
    BY DEF TypeInv, RanOK, Run
  <1>2. RanWoken'
    <2>1. SUFFICES ASSUME NEW s \in Region, NEW c \in Cont', NEW i \in 1 .. Len(ran[s]), ran[s][i] = Run(c)
                   PROVE  WokenThen(c) /\ ItsThen(s, c)
      BY DEF RanWoken, Run, Woken, Its, WokenThen, ItsThen
    <2>2. c \in Cont
      BY <1>1, <2>1
    <2> QED
      BY <2>1, <2>2, StaysWoken DEF PlaceInv, RanWoken
  <1>3. OnceRan'
    BY <1>1 DEF PlaceInv, OnceRan, Run
  <1> QED
    BY <1>2, <1>3

(* What was sent stays sent where no parcel changes.                       *)
LEMMA SentStays ==
  ASSUME TypeInv, Kept, PlaceInv, Len(parcels') = Len(parcels),
         \A k \in 1 .. Len(parcels) : parcels'[k].conts = parcels[k].conts /\ parcels'[k].to = parcels[k].to
  PROVE  SentWoken' /\ OnceSent'
  <1>1. SentWoken'
    <2>1. SUFFICES ASSUME NEW k \in 1 .. Len(parcels), NEW i \in 1 .. Len(parcels[k].conts)
                   PROVE  WokenThen(parcels[k].conts[i]) /\ ItsThen(parcels[k].to, parcels[k].conts[i])
      BY DEF SentWoken, Woken, Its, WokenThen, ItsThen
    <2> QED
      BY StaysWoken, Shapes DEF PlaceInv, SentWoken, TypeInv
  <1>2. OnceSent'
    BY SMTT(60) DEF PlaceInv, OnceSent
  <1> QED
    BY <1>1, <1>2

(* A frame that is not woken is nowhere but among the waiters.             *)
LEMMA Unwoken ==
  ASSUME TypeInv, PlaceInv, NEW c, ~(c \in Cont /\ Woken(c))
  PROVE  ~IsReady(c) /\ ~HasRun(c) /\ ~Sent(c) /\ ~OnItsWay(c)
  <1>1. ~IsReady(c)
    BY Shapes DEF TypeInv, PlaceInv, ReadyWoken, IsReady
  <1>2. ~HasRun(c)
    <2>1. SUFFICES ASSUME NEW s \in Region, NEW i \in 1 .. Len(ran[s]), ran[s][i] = Run(c)
                   PROVE  FALSE
      BY DEF HasRun
    <2>2. ran[s][i].kind = "cont" /\ ran[s][i].id = c
      BY <2>1 DEF Run
    <2>3. c \in Cont
      BY <2>2 DEF TypeInv, RanOK
    <2> QED
      BY <2>1, <2>3 DEF PlaceInv, RanWoken
  <1>3. ~Sent(c)
    BY Shapes DEF TypeInv, PlaceInv, SentWoken, Sent
  <1> QED
    BY <1>1, <1>2, <1>3, Zenon DEF Sent, OnItsWay

(* Steps that move no frame from one place to another.                     *)
PlacesKept ==
  /\ ReadyWoken' /\ RanWoken' /\ SentWoken' /\ OnceReady' /\ OnceRan' /\ OnceSent'
  /\ ReadyNotRan' /\ ReadyNotSent' /\ RanNotSent'

(* Where no queue, parcel or run changes, every frame stays where it is.   *)
LEMMA PlacesStay ==
  ASSUME TypeInv, Kept, PlaceInv, UNCHANGED <<ready, ran, parcels>>
  PROVE  PlacesKept
  <1>1. ReadyWoken'
    <2>1. SUFFICES ASSUME NEW t \in Region, NEW i \in 1 .. Len(ready[t])
                   PROVE  WokenThen(ready[t][i]) /\ ItsThen(t, ready[t][i])
      BY DEF ReadyWoken, Woken, Its, WokenThen, ItsThen
    <2> QED
      BY StaysWoken, Shapes DEF PlaceInv, ReadyWoken, TypeInv
  <1>2. RanWoken' /\ OnceRan'
    BY RanStays
  <1>3. SentWoken' /\ OnceSent'
    BY SentStays
  <1>4. OnceReady'
    BY DEF PlaceInv, OnceReady
  <1>5. ReadyNotRan'
    BY DEF PlaceInv, ReadyNotRan
  <1>6. ReadyNotSent'
    BY DEF PlaceInv, ReadyNotSent
  <1>7. RanNotSent'
    BY DEF PlaceInv, RanNotSent
  <1> QED
    BY <1>1, <1>2, <1>3, <1>4, <1>5, <1>6, <1>7 DEF PlacesKept

(* ... and wake none.                                                      *)
LEMMA FoundStays ==
  ASSUME TypeInv, Kept, Found, \A s \in Region : cancelled[s] \subseteq cancelled'[s],
         \A c \in Cont' : WokenThen(c) => (c \in Cont /\ Woken(c)) \/ IsReady(c)' \/ OnItsWay(c)',
         \A c \in Cont : /\ IsReady(c) => IsReady(c)' \/ HasRun(c)' \/ Off(c)'
                         /\ HasRun(c) => HasRun(c)'
                         /\ OnItsWay(c) => OnItsWay(c)' \/ IsReady(c)'
  PROVE  Found'
  <1>1. CASE "settled" \in Uses
    BY <1>1 DEF Found
  <1>2. CASE "settled" \notin Uses
    <2>1. SUFFICES ASSUME NEW c \in Cont', WokenThen(c)
                   PROVE  IsReady(c)' \/ HasRun(c)' \/ OnItsWay(c)' \/ Off(c)'
      BY <1>2 DEF Found, Woken, WokenThen
    <2>2. SUFFICES ASSUME c \in Cont, Woken(c)
                   PROVE  IsReady(c)' \/ HasRun(c)' \/ OnItsWay(c)' \/ Off(c)'
      BY <2>1, Zenon
    <2>3. IsReady(c) \/ HasRun(c) \/ OnItsWay(c) \/ Off(c)
      BY <1>2, <2>2, Zenon DEF Found
    <2>4. Off(c) => Off(c)'
      <3>1. \A s \in Region : Its(s, c) => ItsThen(s, c)
        BY <2>2, StaysWoken
      <3> QED
        BY <3>1 DEF Off, ItsThen, Its
    <2> QED
      BY <2>2, <2>3, <2>4, Zenon
  <1> QED
    BY <1>1, <1>2

(* A step that moves no frame and wakes none keeps the places.             *)
LEMMA Stands ==
  ASSUME TypeInv, Kept, PlaceInv, UNCHANGED <<ready, ran, parcels>>,
         \A s \in Region : cancelled[s] \subseteq cancelled'[s],
         \A c \in Cont' : WokenThen(c) => c \in Cont /\ Woken(c)
  PROVE  PlaceInv'
  <1>1. PlacesKept
    BY PlacesStay
  <1>2. \A c \in Cont : /\ IsReady(c) => IsReady(c)'
                        /\ HasRun(c) => HasRun(c)'
                        /\ OnItsWay(c) => OnItsWay(c)'
    BY DEF IsReady, HasRun, OnItsWay, Run
  <1>3. Found'
    BY <1>2, FoundStays, Zenon DEF PlaceInv
  <1> QED
    BY <1>1, <1>3 DEF PlacesKept, PlaceInv

(* Frames of which nothing is known yet to any queue.                      *)
Fresh(s, W) ==
  /\ \A k \in 1 .. Len(W) : /\ WokenThen(W[k]) /\ ItsThen(s, W[k])
                           /\ ~IsReady(W[k]) /\ ~HasRun(W[k]) /\ ~Sent(W[k])
  /\ \A k, l \in 1 .. Len(W) : W[k] = W[l] => k = l

(* Frames put in a queue are found there, once.                            *)
LEMMA Enqueued ==
  ASSUME TypeInv, Kept, PlaceInv, NEW s \in Region, NEW W, Queued(s, W), UNCHANGED <<ran, parcels>>, Fresh(s, W)
  PROVE  PlacesKept
  <1>1. ReadyWoken' /\ OnceReady' /\ ReadyNotRan'
    BY QueueKeeps DEF Fresh
  <1>2. RanWoken' /\ OnceRan'
    BY RanStays
  <1>3. SentWoken' /\ OnceSent'
    BY SentStays
  <1>4. ReadyNotSent'
    <2>1. SUFFICES ASSUME NEW t \in Region, NEW k \in 1 .. Len(parcels), NEW i \in 1 .. Len(ready'[t]),
                          NEW j \in 1 .. Len(parcels[k].conts),
                          ~parcels[k].accepted, parcels[k].conts[j] = ready'[t][i]
                   PROVE  FALSE
      BY DEF ReadyNotSent
    <2>2. Sent(ready'[t][i])
      BY <2>1 DEF Sent
    <2>3. i \in 1 .. Len(ready[t]) /\ ready'[t][i] = ready[t][i]
      BY <2>2 DEF Fresh, Queued
    <2> QED
      BY <2>1, <2>3 DEF PlaceInv, ReadyNotSent
  <1>5. RanNotSent'
    BY DEF PlaceInv, RanNotSent, Run
  <1> QED
    BY <1>1, <1>2, <1>3, <1>4, <1>5 DEF PlacesKept

(* Frames handed over are found in their parcel, once.                     *)
LEMMA Parcelled ==
  ASSUME TypeInv, Kept, PlaceInv, NEW s \in Region, NEW W \in Seq(Cont), UNCHANGED <<ready, ran>>, Fresh(s, W),
         parcels' = Append(parcels, [to |-> s, conts |-> W, accepted |-> FALSE])
  PROVE  PlacesKept
  <1> DEFINE n == Len(parcels) + 1
             Parcel == [to : Region, conts : Seq(Cont), accepted : BOOLEAN]
  <1>1. /\ Len(parcels) \in Nat /\ Len(parcels') = n
        /\ \A k \in 1 .. Len(parcels) : parcels'[k] = parcels[k]
        /\ parcels'[n].to = s /\ parcels'[n].conts = W /\ ~parcels'[n].accepted
    <2>1. parcels \in Seq(Parcel) /\ [to |-> s, conts |-> W, accepted |-> FALSE] \in Parcel
      BY DEF TypeInv, TypeOK
    <2> HIDE DEF Parcel
    <2> QED
      BY <2>1, AppendProperties, LenProperties
  <1>2. \A k \in 1 .. Len(parcels') : k \in 1 .. Len(parcels) \/ k = n
    BY <1>1
  <1> HIDE DEF n
  <1>3. \A k \in 1 .. Len(parcels') : \A i \in 1 .. Len(parcels'[k].conts) :
          \/ k \in 1 .. Len(parcels) /\ parcels'[k] = parcels[k] /\ Sent(parcels'[k].conts[i])
          \/ k = n /\ i \in 1 .. Len(W) /\ parcels'[k].conts[i] = W[i] /\ ~Sent(parcels'[k].conts[i])
    BY <1>1, <1>2 DEF Sent, Fresh
  <1>4. ReadyWoken' /\ OnceReady' /\ ReadyNotRan'
    <2>1. \A t \in Region : \A i \in 1 .. Len(ready[t]) : WokenThen(ready[t][i]) /\ ItsThen(t, ready[t][i])
      BY StaysWoken, Shapes DEF PlaceInv, ReadyWoken, TypeInv
    <2>2. ReadyWoken'
      BY <2>1 DEF ReadyWoken, Woken, Its, WokenThen, ItsThen
    <2>3. OnceReady' /\ ReadyNotRan'
      BY DEF PlaceInv, OnceReady, ReadyNotRan, Run
    <2> QED
      BY <2>2, <2>3
  <1>5. RanWoken' /\ OnceRan'
    BY RanStays
  <1>6. SentWoken'
    <2>1. \A k \in 1 .. Len(parcels) : \A i \in 1 .. Len(parcels[k].conts) :
            WokenThen(parcels[k].conts[i]) /\ ItsThen(parcels[k].to, parcels[k].conts[i])
      BY StaysWoken, Shapes DEF PlaceInv, SentWoken, TypeInv
    <2>2. \A k \in 1 .. Len(parcels') : \A i \in 1 .. Len(parcels'[k].conts) :
            WokenThen(parcels'[k].conts[i]) /\ ItsThen(parcels'[k].to, parcels'[k].conts[i])
      BY <1>1, <1>3, <2>1 DEF Fresh
    <2> QED
      BY <2>2 DEF SentWoken, Woken, Its, WokenThen, ItsThen
  <1>7. OnceSent'
    <2>1. SUFFICES ASSUME NEW k \in 1 .. Len(parcels'), NEW l \in 1 .. Len(parcels'),
                          NEW i \in 1 .. Len(parcels'[k].conts), NEW j \in 1 .. Len(parcels'[l].conts),
                          parcels'[k].conts[i] = parcels'[l].conts[j]
                   PROVE  k = l /\ i = j
      BY DEF OnceSent
    <2>2. CASE Sent(parcels'[k].conts[i])
      BY <1>3, <2>1, <2>2 DEF PlaceInv, OnceSent
    <2>3. CASE ~Sent(parcels'[k].conts[i])
      BY <1>3, <2>1, <2>3, SMTT(60) DEF Fresh
    <2> QED
      BY <2>2, <2>3
  <1>8. ReadyNotSent'
    <2>1. SUFFICES ASSUME NEW t \in Region, NEW k \in 1 .. Len(parcels'), NEW i \in 1 .. Len(ready[t]),
                          NEW j \in 1 .. Len(parcels'[k].conts),
                          ~parcels'[k].accepted, parcels'[k].conts[j] = ready[t][i]
                   PROVE  FALSE
      BY DEF ReadyNotSent
    <2>2. IsReady(parcels'[k].conts[j])
      BY <2>1 DEF IsReady
    <2>3. k \in 1 .. Len(parcels) /\ parcels'[k] = parcels[k]
      BY <1>3, <2>2 DEF Fresh
    <2> QED
      BY <2>1, <2>3 DEF PlaceInv, ReadyNotSent
  <1>9. RanNotSent'
    <2>1. SUFFICES ASSUME NEW t \in Region, NEW k \in 1 .. Len(parcels'), NEW i \in 1 .. Len(ran[t]),
                          NEW j \in 1 .. Len(parcels'[k].conts),
                          ~parcels'[k].accepted, ran[t][i] = Run(parcels'[k].conts[j])
                   PROVE  FALSE
      BY DEF RanNotSent, Run
    <2>2. HasRun(parcels'[k].conts[j])
      BY <2>1 DEF HasRun
    <2>3. k \in 1 .. Len(parcels) /\ parcels'[k] = parcels[k]
      BY <1>3, <2>2 DEF Fresh
    <2> QED
      BY <2>1, <2>3 DEF PlaceInv, RanNotSent
  <1> QED
    BY <1>4, <1>5, <1>6, <1>7, <1>8, <1>9 DEF PlacesKept

(* What a settlement wakes is fresh, and is all there is to wake.          *)
LEMMA WokenFresh ==
  ASSUME TypeInv, ChainInv, PlaceInv, Kept, NEW p \in Promise, NEW how \in Settlement,
         NEW a, a = TableSettle(p, how), TablesSettled(a)
  PROVE  /\ a.woken \in Seq(Cont) /\ Fresh(owner[p], a.woken)
         /\ \A c \in Cont : WokenThen(c) => Woken(c) \/ \E k \in 1 .. Len(a.woken) : a.woken[k] = c
         /\ waiters[p] = <<>> => a.woken = <<>>
  <1>1. TypeOK /\ Parked
    BY DEF TypeInv
  <1>2. /\ a \in Acc /\ LoopWoken(a) /\ LoopOrder(a) /\ LoopAll(a)
        /\ LoopOwners(a, p) /\ LoopAlone(a, p)
    BY <1>1, Settles
  <1>3. /\ a.woken \in Seq(Cont) /\ \A k \in 1 .. Len(a.woken) : a.woken[k] \in Cont
    BY <1>1, <1>2, Shapes, AccFields, ElementOfSeq
  <1>4. state' = a.state /\ UNCHANGED <<owner, conts, adopted, late>>
    BY DEF TablesSettled
  <1>5. \A k \in 1 .. Len(a.woken) : WokenThen(a.woken[k]) /\ ~Woken(a.woken[k])
    BY <1>2, <1>4 DEF LoopWoken, Newly, WokenThen, Woken
  <1>6. \A k \in 1 .. Len(a.woken) : ~IsReady(a.woken[k]) /\ ~HasRun(a.woken[k]) /\ ~Sent(a.woken[k])
    BY <1>5, Unwoken, Zenon
  <1>7. \A k \in 1 .. Len(a.woken) : ItsThen(owner[p], a.woken[k])
    <2>1. SUFFICES ASSUME NEW k \in 1 .. Len(a.woken) PROVE ItsThen(owner[p], a.woken[k])
      OBVIOUS
    <2>2. p \in Follows(conts[a.woken[k]])
      BY <1>2 DEF ChainInv, LoopOwners
    <2>3. ~Late(a.woken[k])
      BY <1>3, <1>5 DEF ChainInv, LateSettled, Woken
    <2>4. a.woken[k] \in Cont /\ owner[p] \in Region
      BY <1>1, <1>3, Shapes
    <2>5. Its(owner[p], a.woken[k])
      BY <2>2, <2>3, ItsBelongs, Zenon DEF Belongs
    <2> QED
      BY <2>4, <2>5, StaysWoken
  <1>8. \A k, l \in 1 .. Len(a.woken) : a.woken[k] = a.woken[l] => k = l
    <2>1. \A k, l \in 1 .. Len(a.woken) : k < l \/ l < k \/ k = l
      OBVIOUS
    <2>2. \A k \in 1 .. Len(a.woken) : a.woken[k] \in Int
      BY <1>3 DEF Cont
    <2>3. SUFFICES ASSUME NEW k \in 1 .. Len(a.woken), NEW l \in 1 .. Len(a.woken), k < l, a.woken[k] = a.woken[l]
                   PROVE  FALSE
      BY <2>1, Zenon
    <2>4. a.woken[k] < a.woken[l]
      BY <1>2, <2>3, Zenon DEF LoopOrder
    <2> QED
      BY <2>2, <2>3, <2>4
  <1>9. \A c \in Cont : WokenThen(c) => Woken(c) \/ \E k \in 1 .. Len(a.woken) : a.woken[k] = c
    BY <1>2, <1>4 DEF LoopAll, Newly, Woken, WokenThen
  <1> QED
    BY <1>2, <1>3, <1>5, <1>6, <1>7, <1>8, <1>9 DEF Fresh, LoopAlone

(* Settle keeps the places.                                                *)
LEMMA SettlePlaces ==
  ASSUME TypeInv, Kept, ChainInv, PlaceInv, Cont' = Cont,
         NEW s \in Region, NEW p \in Promise, NEW how \in Settlement, Settle(s, p, how)
  PROVE  PlaceInv'
  <1> DEFINE a == TableSettle(p, how)
  <1>1. /\ TablesSettled(a) /\ Deliver(s, p, a.woken)
        /\ UNCHANGED <<owner, tasks, cancelled, conts, adopted, late, ran>>
    BY DEF Settle, TablesSettled
  <1>2. /\ a.woken \in Seq(Cont) /\ Fresh(owner[p], a.woken)
        /\ \A c \in Cont : WokenThen(c) => Woken(c) \/ \E k \in 1 .. Len(a.woken) : a.woken[k] = c
    BY <1>1, WokenFresh
  <1> HIDE DEF a
  <1>3. PICK W : W = a.woken
    OBVIOUS
  <1>4. Len(<<>>) = 0 /\ owner[p] \in Region
    BY Shapes DEF TypeInv
  <1>5. CASE ready' = [ready EXCEPT ![s] = @ \o W] /\ UNCHANGED parcels /\ (owner[p] = s \/ W = <<>>)
    <2>1. Queued(s, W)
      BY <1>2, <1>3, <1>5, Queues
    <2>2. Fresh(s, W)
      BY <1>2, <1>3, <1>4, <1>5 DEF Fresh
    <2>3. PlacesKept
      BY <1>1, <1>5, <2>1, <2>2, Enqueued
    <2>4. \A c \in Cont : /\ IsReady(c) => IsReady(c)'
                          /\ HasRun(c) => HasRun(c)'
                          /\ OnItsWay(c) => OnItsWay(c)'
      BY <1>1, <1>5, <2>1 DEF IsReady, HasRun, OnItsWay, Run, Queued
    <2>5. ASSUME NEW c \in Cont, WokenThen(c), ~Woken(c) PROVE IsReady(c)'
      <3>1. PICK k \in 1 .. Len(W) : W[k] = c
        BY <1>2, <1>3, <2>5
      <3>2. Len(ready[s]) + k \in 1 .. Len(ready'[s]) /\ ready'[s][Len(ready[s]) + k] = c
        BY <2>1, <3>1 DEF Queued
      <3> QED
        BY <3>2 DEF IsReady
    <2>6. Found'
      BY <1>1, <2>4, <2>5, FoundStays, Zenon DEF PlaceInv
    <2> QED
      BY <2>3, <2>6 DEF PlaceInv, PlacesKept
  <1>6. CASE UNCHANGED ready /\ parcels' = Append(parcels, [to |-> owner[p], conts |-> W, accepted |-> FALSE])
    <2>1. PICK o : o = owner[p]
      OBVIOUS
    <2>2. o \in Region /\ W \in Seq(Cont) /\ Fresh(o, W)
          /\ parcels' = Append(parcels, [to |-> o, conts |-> W, accepted |-> FALSE])
      BY <1>2, <1>3, <1>4, <1>6, <2>1
    <2>3. PlacesKept
      BY <1>1, <1>6, <2>2, Parcelled
    <2>4. /\ Len(parcels) \in Nat /\ Len(parcels') = Len(parcels) + 1
          /\ \A k \in 1 .. Len(parcels) : parcels'[k] = parcels[k]
          /\ parcels'[Len(parcels) + 1].conts = W /\ ~parcels'[Len(parcels) + 1].accepted
      <3> DEFINE Parcel == [to : Region, conts : Seq(Cont), accepted : BOOLEAN]
      <3>1. parcels \in Seq(Parcel) /\ [to |-> o, conts |-> W, accepted |-> FALSE] \in Parcel
        BY <2>2 DEF TypeInv, TypeOK
      <3> HIDE DEF Parcel
      <3> QED
        BY <2>2, <3>1, AppendProperties, LenProperties
    <2>5. \A c \in Cont : /\ IsReady(c) => IsReady(c)'
                          /\ HasRun(c) => HasRun(c)'
                          /\ OnItsWay(c) => OnItsWay(c)'
      BY <1>1, <1>6, <2>4 DEF IsReady, HasRun, OnItsWay, Run
    <2>6. \A c \in Cont : WokenThen(c) => Woken(c) \/ OnItsWay(c)'
      <3>1. Len(parcels) + 1 \in 1 .. Len(parcels')
        BY <2>4
      <3> QED
        BY <1>2, <1>3, <2>4, <3>1 DEF OnItsWay
    <2>7. Found'
      BY <1>1, <2>5, <2>6, FoundStays, Zenon DEF PlaceInv
    <2> QED
      BY <2>3, <2>7 DEF PlaceInv, PlacesKept
  <1> QED
    BY <1>1, <1>3, <1>5, <1>6 DEF Deliver

(* A parcel accepted: its frames come from it to the owner's queue.        *)
LEMMA AcceptPlaces ==
  ASSUME TypeInv, Kept, PlaceInv, Cont' = Cont, NEW k \in 1 .. Len(parcels), Accept(k)
  PROVE  PlaceInv'
  <1> DEFINE Parcel == [to : Region, conts : Seq(Cont), accepted : BOOLEAN]
  <1>1. /\ ~parcels[k].accepted
        /\ parcels' = [parcels EXCEPT ![k].accepted = TRUE]
        /\ ready' = [ready EXCEPT ![parcels[k].to] = @ \o parcels[k].conts]
        /\ UNCHANGED <<state, waiters, owner, tasks, cancelled, conts, adopted, late, ran>>
    BY DEF Accept
  <1>2. PICK s, W : s = parcels[k].to /\ W = parcels[k].conts
    OBVIOUS
  <1>3. s \in Region /\ W \in Seq(Cont)
    BY <1>2, Shapes DEF TypeInv
  <1>4. Queued(s, W)
    BY <1>1, <1>2, <1>3, Queues
  <1>5. /\ Len(parcels') = Len(parcels)
        /\ \A l \in 1 .. Len(parcels) : /\ parcels'[l].conts = parcels[l].conts
                                        /\ parcels'[l].to = parcels[l].to
                                        /\ ~parcels'[l].accepted => l # k /\ ~parcels[l].accepted
                                        /\ l # k => parcels'[l] = parcels[l]
    <2>1. parcels \in Seq(Parcel) /\ parcels[k] \in Parcel
      BY ElementOfSeq DEF TypeInv, TypeOK
    <2>2. [parcels[k] EXCEPT !.accepted = TRUE] \in Parcel
      BY <2>1
    <2> DEFINE o == [parcels[k] EXCEPT !.accepted = TRUE]
    <2>3. o.conts = parcels[k].conts /\ o.to = parcels[k].to /\ o.accepted = TRUE
      BY <2>1
    <2>4. parcels' = [parcels EXCEPT ![k] = o]
      BY <1>1
    <2> HIDE DEF o, Parcel
    <2>5. /\ Len(parcels') = Len(parcels)
          /\ \A l \in 1 .. Len(parcels) : parcels'[l] = IF l = k THEN o ELSE parcels[l]
      BY <2>1, <2>4, ExceptSeq
    <2> QED
      BY <2>3, <2>5
  <1>6. /\ \A m \in 1 .. Len(W) : WokenThen(W[m]) /\ ItsThen(s, W[m])
        /\ \A m, n \in 1 .. Len(W) : W[m] = W[n] => m = n
        /\ \A m \in 1 .. Len(W) : ~IsReady(W[m]) /\ ~HasRun(W[m])
    <2>1. \A m \in 1 .. Len(W) : WokenThen(W[m]) /\ ItsThen(s, W[m])
      BY <1>2, StaysWoken, Shapes DEF PlaceInv, SentWoken, TypeInv
    <2>2. \A m, n \in 1 .. Len(W) : W[m] = W[n] => m = n
      BY <1>2 DEF PlaceInv, OnceSent
    <2>3. \A m \in 1 .. Len(W) : ~IsReady(W[m])
      BY <1>1, <1>2 DEF PlaceInv, ReadyNotSent, IsReady
    <2>4. \A m \in 1 .. Len(W) : ~HasRun(W[m])
      BY <1>1, <1>2 DEF PlaceInv, RanNotSent, HasRun
    <2> QED
      BY <2>1, <2>2, <2>3, <2>4
  <1>7. ReadyWoken' /\ OnceReady' /\ ReadyNotRan'
    BY <1>1, <1>3, <1>4, <1>6, QueueKeeps
  <1>8. RanWoken' /\ OnceRan'
    BY <1>1, RanStays
  <1>9. SentWoken' /\ OnceSent'
    BY <1>5, SentStays
  <1>10. ReadyNotSent'
    <2>1. SUFFICES ASSUME NEW t \in Region, NEW l \in 1 .. Len(parcels), NEW i \in 1 .. Len(ready'[t]),
                          NEW j \in 1 .. Len(parcels[l].conts),
                          ~parcels'[l].accepted, parcels[l].conts[j] = ready'[t][i]
                   PROVE  FALSE
      BY <1>5 DEF ReadyNotSent
    <2>2. l # k /\ ~parcels[l].accepted
      BY <1>5, <2>1
    <2>3. CASE i \in 1 .. Len(ready[t]) /\ ready'[t][i] = ready[t][i]
      BY <2>1, <2>2, <2>3 DEF PlaceInv, ReadyNotSent
    <2>4. ASSUME NEW m \in 1 .. Len(W), ready'[t][i] = W[m] PROVE FALSE
      BY <1>2, <2>1, <2>2, <2>4 DEF PlaceInv, OnceSent
    <2> QED
      BY <1>4, <2>3, <2>4 DEF Queued
  <1>11. RanNotSent'
    BY <1>1, <1>5 DEF PlaceInv, RanNotSent, Run
  <1>12. \A c \in Cont : /\ IsReady(c) => IsReady(c)'
                         /\ HasRun(c) => HasRun(c)'
    <2>1. \A c \in Cont : IsReady(c) => IsReady(c)'
      BY <1>4 DEF IsReady, Queued
    <2>2. \A c \in Cont : HasRun(c) => HasRun(c)'
      BY <1>1 DEF HasRun, Run
    <2> QED
      BY <2>1, <2>2, Zenon
  <1>13. ASSUME NEW c \in Cont, OnItsWay(c) PROVE OnItsWay(c)' \/ IsReady(c)'
    <2>1. PICK l \in 1 .. Len(parcels) :
            \E i \in 1 .. Len(parcels[l].conts) : ~parcels[l].accepted /\ parcels[l].conts[i] = c
      BY <1>13, Zenon DEF OnItsWay
    <2>2. CASE l = k
      <3>1. PICK i \in 1 .. Len(W) : W[i] = c
        BY <1>2, <2>1, <2>2
      <3>2. Len(ready[s]) + i \in 1 .. Len(ready'[s]) /\ ready'[s][Len(ready[s]) + i] = c
        BY <1>3, <1>4, <3>1 DEF Queued
      <3> QED
        BY <1>3, <3>2 DEF IsReady
    <2>3. CASE l # k
      BY <1>5, <2>1, <2>3 DEF OnItsWay
    <2> QED
      BY <2>2, <2>3
  <1>14. \A c \in Cont : WokenThen(c) => Woken(c)
    BY <1>1 DEF WokenThen, Woken
  <1>15. Found'
    BY <1>1, <1>12, <1>13, <1>14, FoundStays, Zenon DEF PlaceInv
  <1> QED
    BY <1>7, <1>8, <1>9, <1>10, <1>11, <1>15 DEF PlaceInv

(* A frame parked on a settled promise goes straight in the queue.         *)
LEMMA ParkPlaces ==
  ASSUME TypeInv, TypeInv', Kept, PlaceInv, NEW s \in Region, NEW p \in Promise, Park(s, p)
  PROVE  PlaceInv'
  <1>0. PICK c : c = Len(conts) + 1
    OBVIOUS
  <1>1. /\ conts' = Append(conts, p)
        /\ UNCHANGED <<state, owner, tasks, cancelled, parcels, adopted, ran>>
        /\ IF state[p] = "pending" THEN UNCHANGED ready
           ELSE late' = late \cup {<<c, s>>} /\ ready' = [ready EXCEPT ![s] = Append(@, c)]
    BY <1>0 DEF Park
  <1>2. /\ TypeOK /\ conts \in Seq(Promise) /\ Len(conts) \in Nat
        /\ \A t \in Region : ready[t] \in Seq(Cont)
    BY Shapes DEF TypeInv, TypeOK
  <1>3. /\ Len(conts') = Len(conts) + 1 /\ conts'[c] = p
        /\ \A d \in Cont : conts'[d] = conts[d]
    BY <1>0, <1>1, <1>2, AppendProperties DEF Cont
  <1>4. c \notin Cont /\ \A d \in Cont' : d \in Cont \/ d = c
    BY <1>0, <1>2, <1>3 DEF Cont
  <1>5. c \in Nat
    BY <1>0, <1>2
  <1>6. CASE state[p] = "pending"
    <2>1. \A d \in Cont' : WokenThen(d) => d \in Cont /\ Woken(d)
      BY <1>1, <1>3, <1>4, <1>6 DEF WokenThen, Woken
    <2> QED
      BY <1>1, <1>6, <2>1, Stands
  <1>7. CASE state[p] # "pending"
    <2>1. PICK W : W = <<c>>
      OBVIOUS
    <2>2. W \in Seq(Cont \cup {c}) /\ Len(W) = 1 /\ W[1] = c
      BY <2>1
    <2>3. ready[s] \in Seq(Cont \cup {c})
      BY <1>2, Wider
    <2>4. Append(ready[s], c) = ready[s] \o W
      BY <2>1, <2>3
    <2>5. Queued(s, W)
      <3>1. ready' = [ready EXCEPT ![s] = @ \o W]
        BY <1>1, <1>7, <2>4
      <3>2. PICK S : S = Cont \cup {c}
        OBVIOUS
      <3> QED
        BY <2>2, <3>1, <3>2, Queues
    <2>6. ~IsReady(c) /\ ~HasRun(c) /\ ~Sent(c)
      BY <1>4, Unwoken, Zenon
    <2>7. Fresh(s, W)
      <3>1. WokenThen(c) /\ ItsThen(s, c)
        BY <1>1, <1>3, <1>7 DEF WokenThen, ItsThen, Held
      <3> QED
        BY <2>2, <2>6, <3>1 DEF Fresh
    <2>8. PlacesKept
      BY <1>1, <2>5, <2>7, Enqueued
    <2>9. \A d \in Cont : /\ IsReady(d) => IsReady(d)'
                          /\ HasRun(d) => HasRun(d)'
                          /\ OnItsWay(d) => OnItsWay(d)'
      BY <1>1, <2>5 DEF IsReady, HasRun, OnItsWay, Run, Queued
    <2>10. IsReady(c)'
      <3>1. Len(ready[s]) + 1 \in 1 .. Len(ready'[s]) /\ ready'[s][Len(ready[s]) + 1] = c
        BY <2>2, <2>5 DEF Queued
      <3> QED
        BY <3>1 DEF IsReady
    <2>11. \A d \in Cont' : WokenThen(d) => (d \in Cont /\ Woken(d)) \/ IsReady(d)'
      BY <1>1, <1>3, <1>4, <2>10 DEF WokenThen, Woken
    <2>12. Found'
      BY <1>1, <2>9, <2>11, FoundStays, Zenon DEF PlaceInv
    <2> QED
      BY <2>8, <2>12 DEF PlaceInv, PlacesKept
  <1> QED
    BY <1>6, <1>7

(***************************************************************************)
(* A step of next, place by place: the first n entries of the queue gone,  *)
(* of which all were cancelled but the one that runs, and what runs put    *)
(* at the end of what ran.                                                 *)
(***************************************************************************)
Dequeued(s, n) ==
  \A t \in Region :
    /\ t # s => ready'[t] = ready[t]
    /\ t = s => /\ \A j \in 1 .. Len(ready'[t]) : /\ n + j \in 1 .. Len(ready[t])
                                                  /\ ready'[t][j] = ready[t][n + j]
                /\ \A j \in 1 .. Len(ready[t]) : j > n => /\ j - n \in 1 .. Len(ready'[t])
                                                          /\ ready'[t][j - n] = ready[t][j]
Logged(s, r) ==
  \A t \in Region :
    /\ t # s => ran'[t] = ran[t]
    /\ t = s => /\ Len(ran'[t]) = Len(ran[t]) + 1 /\ ran'[t][Len(ran[t]) + 1] = r
                /\ \A j \in 1 .. Len(ran[t]) : ran'[t][j] = ran[t][j]
Runs(s, n, r) ==
  /\ n \in 0 .. Len(ready[s]) /\ Dequeued(s, n) /\ Logged(s, r)
  /\ r.kind = "cont" => n > 0 /\ r = Run(ready[s][n])
  /\ \A j \in 1 .. n : ready[s][j] \in cancelled[s] \/ (j = n /\ r = Run(ready[s][j]))
  /\ UNCHANGED <<state, waiters, owner, cancelled, parcels, conts, adopted, late>>

(* RunNext as the removal of a front part of a queue, and what runs.       *)
LEMMA RunSteps ==
  ASSUME TypeInv, NEW s \in Region, RunNext(s)
  PROVE  \E n, r : Runs(s, n, r)
  <1>1. UNCHANGED <<state, waiters, owner, cancelled, parcels, conts, adopted, late>>
    BY TwoWays
  <1>2. /\ ready \in [Region -> Seq(Cont)] /\ ran \in [Region -> Seq(Ran)]
        /\ ready[s] \in Seq(Cont) /\ ran[s] \in Seq(Ran) /\ Len(ready[s]) \in Nat /\ tasks[s] \in Seq(Nat)
    BY Shapes DEF TypeInv, TypeOK
  <1>3. ASSUME NEW r \in Ran, ran' = [ran EXCEPT ![s] = Append(@, r)] PROVE Logged(s, r)
    <2>1. \A t \in Region : ran'[t] = IF t = s THEN Append(ran[s], r) ELSE ran[t]
      BY <1>2, <1>3
    <2>2. PICK u : u = Append(ran[s], r)
      OBVIOUS
    <2>3. Len(u) = Len(ran[s]) + 1 /\ u[Len(ran[s]) + 1] = r /\ \A j \in 1 .. Len(ran[s]) : u[j] = ran[s][j]
      BY <1>2, <2>2, AppendProperties
    <2> QED
      BY <2>1, <2>2, <2>3 DEF Logged
  <1>4. ASSUME NEW i \in 1 .. Len(ready[s]), NextFrame(s, i) PROVE \E n, r : Runs(s, n, r)
    <2>1. ready[s][i] \in Cont
      BY <1>2, ElementOfSeq
    <2>2. PICK r : r = Run(ready[s][i])
      OBVIOUS
    <2>3. r \in Ran
      BY <2>1, <2>2 DEF Run, Ran, Cont
    <2>4. Logged(s, r)
      BY <1>3, <1>4, <2>2, <2>3 DEF NextFrame
    <2>5. Dequeued(s, i)
      <3>1. \A t \in Region : ready'[t] = IF t = s THEN SubSeq(ready[s], i + 1, Len(ready[s])) ELSE ready[t]
        BY <1>2, <1>4 DEF NextFrame
      <3>2. PICK u : u = SubSeq(ready[s], i + 1, Len(ready[s]))
        OBVIOUS
      <3>3. /\ Len(u) = Len(ready[s]) - i
            /\ \A j \in 1 .. Len(u) : i + j \in 1 .. Len(ready[s]) /\ u[j] = ready[s][i + j]
        BY <1>2, <3>2, Rest
      <3>4. ready'[s] = u /\ \A t \in Region : t # s => ready'[t] = ready[t]
        BY <3>1, <3>2
      <3>5. \A j \in 1 .. Len(ready[s]) : j > i => j - i \in 1 .. Len(u) /\ u[j - i] = ready[s][j]
        <4>1. SUFFICES ASSUME NEW j \in 1 .. Len(ready[s]), j > i
                       PROVE  j - i \in 1 .. Len(u) /\ u[j - i] = ready[s][j]
          OBVIOUS
        <4>2. j - i \in 1 .. Len(u) /\ i + (j - i) = j
          BY <1>2, <3>3, <4>1
        <4> QED
          BY <3>3, <4>2
      <3> QED
        BY <3>3, <3>4, <3>5 DEF Dequeued
    <2>6. r.kind = "cont" => i > 0 /\ r = Run(ready[s][i])
      BY <2>2
    <2>7. \A j \in 1 .. i : ready[s][j] \in cancelled[s] \/ (j = i /\ r = Run(ready[s][j]))
      <3>1. \A j \in 1 .. i : j \in 1 .. (i - 1) \/ j = i
        OBVIOUS
      <3> QED
        BY <1>4, <2>2, <3>1 DEF NextFrame
    <2>8. i \in 0 .. Len(ready[s])
      BY <1>2
    <2>9. Runs(s, i, r)
      BY <1>1, <2>4, <2>5, <2>6, <2>7, <2>8, Zenon DEF Runs
    <2> QED
      BY <2>9, Zenon
  <1>5. ASSUME NextTask(s) PROVE \E n, r : Runs(s, n, r)
    <2>1. PICK r : r = [kind |-> "task", id |-> Head(tasks[s])]
      OBVIOUS
    <2>2. Head(tasks[s]) \in Nat
      BY <1>2, <1>5, HeadTailProperties DEF NextTask, RunTask
    <2>3. r \in Ran /\ r.kind # "cont"
      BY <2>1, <2>2 DEF Ran
    <2>4. Logged(s, r)
      BY <1>3, <1>5, <2>1, <2>3 DEF NextTask, RunTask
    <2>5. Dequeued(s, Len(ready[s]))
      <3>1. \A t \in Region : ready'[t] = IF t = s THEN <<>> ELSE ready[t]
        BY <1>2, <1>5 DEF NextTask
      <3>2. Len(<<>>) = 0
        OBVIOUS
      <3> QED
        BY <1>2, <3>1, <3>2 DEF Dequeued
    <2>6. \A j \in 1 .. Len(ready[s]) : ready[s][j] \in cancelled[s]
      BY <1>5 DEF NextTask, AllCancelled
    <2>7. PICK n : n = Len(ready[s])
      OBVIOUS
    <2>8. n \in 0 .. Len(ready[s])
      BY <1>2, <2>7
    <2>9. Runs(s, n, r)
      BY <1>1, <2>3, <2>4, <2>5, <2>6, <2>7, <2>8, Zenon DEF Runs
    <2> QED
      BY <2>9, Zenon
  <1> QED
    BY <1>4, <1>5, TwoWays

(* Where each entry of the queues and of what ran was before the step.     *)
LEMMA RunOrigins ==
  ASSUME TypeInv, NEW s \in Region, NEW n, NEW r, Runs(s, n, r)
  PROVE  /\ \A t \in Region : \A j \in 1 .. Len(ready'[t]) :
              \E m \in 1 .. Len(ready[t]) : /\ ready'[t][j] = ready[t][m]
                                            /\ t = s => m = n + j
                                            /\ t # s => m = j
         /\ \A t \in Region : \A j \in 1 .. Len(ran'[t]) :
              \/ j \in 1 .. Len(ran[t]) /\ ran'[t][j] = ran[t][j]
              \/ t = s /\ j = Len(ran[s]) + 1 /\ ran'[t][j] = r
         /\ \A c : r = Run(c) => n \in 1 .. Len(ready[s]) /\ ready[s][n] = c
  <1>1. \A t \in Region : Len(ready[t]) \in Nat /\ Len(ran[t]) \in Nat
    BY Shapes DEF TypeInv
  <1>2. \A t \in Region : \A j \in 1 .. Len(ready'[t]) :
          \E m \in 1 .. Len(ready[t]) : /\ ready'[t][j] = ready[t][m]
                                        /\ t = s => m = n + j
                                        /\ t # s => m = j
    <2>1. SUFFICES ASSUME NEW t \in Region, NEW j \in 1 .. Len(ready'[t])
                   PROVE  \E m \in 1 .. Len(ready[t]) : /\ ready'[t][j] = ready[t][m]
                                                        /\ t = s => m = n + j
                                                        /\ t # s => m = j
      OBVIOUS
    <2>2. CASE t = s
      BY <2>1, <2>2 DEF Runs, Dequeued
    <2>3. CASE t # s
      BY <2>1, <2>3 DEF Runs, Dequeued
    <2> QED
      BY <2>2, <2>3
  <1>3. \A t \in Region : \A j \in 1 .. Len(ran'[t]) :
          \/ j \in 1 .. Len(ran[t]) /\ ran'[t][j] = ran[t][j]
          \/ t = s /\ j = Len(ran[s]) + 1 /\ ran'[t][j] = r
    <2>1. SUFFICES ASSUME NEW t \in Region, NEW j \in 1 .. Len(ran'[t])
                   PROVE  \/ j \in 1 .. Len(ran[t]) /\ ran'[t][j] = ran[t][j]
                          \/ t = s /\ j = Len(ran[s]) + 1 /\ ran'[t][j] = r
      OBVIOUS
    <2>2. CASE t = s
      BY <1>1, <2>1, <2>2 DEF Runs, Logged
    <2>3. CASE t # s
      BY <2>1, <2>3 DEF Runs, Logged
    <2> QED
      BY <2>2, <2>3
  <1>4. \A c : r = Run(c) => n \in 1 .. Len(ready[s]) /\ ready[s][n] = c
    <2>1. SUFFICES ASSUME NEW c, r = Run(c) PROVE n \in 1 .. Len(ready[s]) /\ ready[s][n] = c
      OBVIOUS
    <2>2. r.kind = "cont" /\ r.id = c
      BY <2>1 DEF Run
    <2>3. n > 0 /\ r = Run(ready[s][n])
      BY <2>2 DEF Runs
    <2>4. Run(ready[s][n]).id = ready[s][n]
      BY DEF Run
    <2> QED
      BY <1>1, <2>2, <2>3, <2>4 DEF Runs
  <1> QED
    BY <1>2, <1>3, <1>4

(* RunNext keeps the places.                                               *)
LEMMA RunPlaces ==
  ASSUME TypeInv, Kept, PlaceInv, Cont' = Cont, NEW s \in Region, NEW n, NEW r, Runs(s, n, r)
  PROVE  PlaceInv'
  <1>1. UNCHANGED <<state, owner, cancelled, parcels, conts, adopted, late>> /\ Promise' = Promise
    BY DEF Runs, Promise
  <1>2. \A t \in Region : /\ Len(ready[t]) \in Nat /\ Len(ran[t]) \in Nat
                          /\ \A i \in 1 .. Len(ready[t]) : ready[t][i] \in Cont
    BY Shapes DEF TypeInv
  <1>3. \A t \in Region : \A j \in 1 .. Len(ready'[t]) :
          \E m \in 1 .. Len(ready[t]) : /\ ready'[t][j] = ready[t][m]
                                        /\ t = s => m = n + j
                                        /\ t # s => m = j
    BY RunOrigins
  <1>4. \A t \in Region : \A j \in 1 .. Len(ran'[t]) :
          \/ j \in 1 .. Len(ran[t]) /\ ran'[t][j] = ran[t][j]
          \/ t = s /\ j = Len(ran[s]) + 1 /\ ran'[t][j] = r
    BY RunOrigins
  <1>5. \A c : r = Run(c) => n \in 1 .. Len(ready[s]) /\ ready[s][n] = c
    BY RunOrigins
  <1>6. \A c \in Cont : /\ WokenThen(c) <=> Woken(c)
                        /\ \A t : ItsThen(t, c) <=> Its(t, c)
    BY <1>1 DEF WokenThen, Woken, ItsThen, Its
  <1>7. ReadyWoken'
    <2>1. \A t \in Region : \A j \in 1 .. Len(ready'[t]) : WokenThen(ready'[t][j]) /\ ItsThen(t, ready'[t][j])
      BY <1>2, <1>3, <1>6, SMTT(60) DEF PlaceInv, ReadyWoken
    <2> QED
      BY <2>1 DEF ReadyWoken, WokenThen, Woken, ItsThen, Its
  <1>8. RanWoken'
    <2>1. SUFFICES ASSUME NEW t \in Region, NEW c \in Cont, NEW j \in 1 .. Len(ran'[t]), ran'[t][j] = Run(c)
                   PROVE  WokenThen(c) /\ ItsThen(t, c)
      BY DEF RanWoken, Run, WokenThen, Woken, ItsThen, Its
    <2>2. CASE j \in 1 .. Len(ran[t]) /\ ran'[t][j] = ran[t][j]
      BY <1>6, <2>1, <2>2 DEF PlaceInv, RanWoken
    <2>3. CASE t = s /\ ran'[t][j] = r
      BY <1>5, <1>6, <2>1, <2>3 DEF PlaceInv, ReadyWoken
    <2> QED
      BY <1>4, <2>2, <2>3
  <1>9. OnceReady'
    <2>1. SUFFICES ASSUME NEW t \in Region, NEW u \in Region,
                          NEW i \in 1 .. Len(ready'[t]), NEW j \in 1 .. Len(ready'[u]), ready'[t][i] = ready'[u][j]
                   PROVE  t = u /\ i = j
      BY DEF OnceReady
    <2>2. PICK l \in 1 .. Len(ready[t]) : /\ ready'[t][i] = ready[t][l]
                                          /\ t = s => l = n + i
                                          /\ t # s => l = i
      BY <1>3
    <2>3. PICK m \in 1 .. Len(ready[u]) : /\ ready'[u][j] = ready[u][m]
                                          /\ u = s => m = n + j
                                          /\ u # s => m = j
      BY <1>3
    <2>4. t = u /\ l = m
      <3>1. ready[t][l] = ready[u][m]
        BY <2>1, <2>2, <2>3
      <3> QED
        BY <3>1, ZenonT(60) DEF PlaceInv, OnceReady
    <2> QED
      BY <1>2, <2>2, <2>3, <2>4 DEF Runs
  <1>10. OnceRan'
    <2>1. SUFFICES ASSUME NEW t \in Region, NEW u \in Region, NEW c \in Cont,
                          NEW i \in 1 .. Len(ran'[t]), NEW j \in 1 .. Len(ran'[u]),
                          ran'[t][i] = Run(c), ran'[u][j] = Run(c)
                   PROVE  t = u /\ i = j
      BY DEF OnceRan, Run
    <2>2. CASE r = Run(c)
      <3>1. ~HasRun(c)
        BY <1>5, <2>2 DEF PlaceInv, ReadyNotRan, HasRun
      <3>2. t = s /\ i = Len(ran[s]) + 1
        BY <1>4, <2>1, <3>1 DEF HasRun
      <3>3. u = s /\ j = Len(ran[s]) + 1
        BY <1>4, <2>1, <3>1 DEF HasRun
      <3> QED
        BY <3>2, <3>3
    <2>3. CASE r # Run(c)
      <3>1. i \in 1 .. Len(ran[t]) /\ ran'[t][i] = ran[t][i]
        BY <1>4, <2>1, <2>3
      <3>2. j \in 1 .. Len(ran[u]) /\ ran'[u][j] = ran[u][j]
        BY <1>4, <2>1, <2>3
      <3>3. ran[t][i] = Run(c) /\ ran[u][j] = Run(c)
        BY <2>1, <3>1, <3>2
      <3>4. \A v, w \in Region : \A k \in 1 .. Len(ran[v]), l \in 1 .. Len(ran[w]) :
              ran[v][k] = Run(c) /\ ran[w][l] = Run(c) => v = w /\ k = l
        BY Zenon DEF PlaceInv, OnceRan
      <3>5. i \in 1 .. Len(ran[t]) /\ j \in 1 .. Len(ran[u])
        BY <3>1, <3>2
      <3> QED
        BY <3>3, <3>4, <3>5, Zenon
    <2> QED
      BY <2>2, <2>3
  <1>11. SentWoken' /\ OnceSent'
    BY <1>1, SentStays
  <1>12. ReadyNotRan'
    <2>1. SUFFICES ASSUME NEW t \in Region, NEW u \in Region,
                          NEW i \in 1 .. Len(ready'[t]), NEW j \in 1 .. Len(ran'[u]), ran'[u][j] = Run(ready'[t][i])
                   PROVE  FALSE
      BY DEF ReadyNotRan, Run
    <2>2. PICK l \in 1 .. Len(ready[t]) : /\ ready'[t][i] = ready[t][l]
                                          /\ t = s => l = n + i
      BY <1>3
    <2>3. CASE j \in 1 .. Len(ran[u]) /\ ran'[u][j] = ran[u][j]
      BY <2>1, <2>2, <2>3 DEF PlaceInv, ReadyNotRan
    <2>4. CASE ran'[u][j] = r
      <3>1. n \in 1 .. Len(ready[s]) /\ ready[s][n] = ready[t][l]
        BY <1>5, <2>1, <2>2, <2>4
      <3>2. t = s /\ l = n
        BY <3>1 DEF PlaceInv, OnceReady
      <3> QED
        BY <2>2, <3>1, <3>2
    <2> QED
      BY <1>4, <2>3, <2>4
  <1>13. ReadyNotSent'
    <2>1. SUFFICES ASSUME NEW t \in Region, NEW k \in 1 .. Len(parcels), NEW i \in 1 .. Len(ready'[t]),
                          NEW j \in 1 .. Len(parcels[k].conts),
                          ~parcels[k].accepted, parcels[k].conts[j] = ready'[t][i]
                   PROVE  FALSE
      BY <1>1 DEF ReadyNotSent
    <2>2. PICK l \in 1 .. Len(ready[t]) : ready'[t][i] = ready[t][l]
      BY <1>3
    <2> QED
      BY <2>1, <2>2 DEF PlaceInv, ReadyNotSent
  <1>14. RanNotSent'
    <2>1. SUFFICES ASSUME NEW t \in Region, NEW k \in 1 .. Len(parcels), NEW i \in 1 .. Len(ran'[t]),
                          NEW j \in 1 .. Len(parcels[k].conts),
                          ~parcels[k].accepted, ran'[t][i] = Run(parcels[k].conts[j])
                   PROVE  FALSE
      BY <1>1 DEF RanNotSent, Run
    <2>2. CASE i \in 1 .. Len(ran[t]) /\ ran'[t][i] = ran[t][i]
      BY <2>1, <2>2 DEF PlaceInv, RanNotSent
    <2>3. CASE ran'[t][i] = r
      <3>1. n \in 1 .. Len(ready[s]) /\ ready[s][n] = parcels[k].conts[j]
        BY <1>5, <2>1, <2>3
      <3> QED
        BY <2>1, <3>1 DEF PlaceInv, ReadyNotSent
    <2> QED
      BY <1>4, <2>2, <2>3
  <1>15. \A c \in Cont : HasRun(c) => HasRun(c)'
    <2>1. \A t \in Region : \A j \in 1 .. Len(ran[t]) : j \in 1 .. Len(ran'[t]) /\ ran'[t][j] = ran[t][j]
      BY <1>2 DEF Runs, Logged
    <2> QED
      BY <2>1 DEF HasRun, Run
  <1>16. ASSUME NEW c \in Cont, IsReady(c) PROVE IsReady(c)' \/ HasRun(c)' \/ Off(c)'
    <2>1. PICK t \in Region : \E j \in 1 .. Len(ready[t]) : ready[t][j] = c
      BY <1>16 DEF IsReady
    <2>2. PICK j \in 1 .. Len(ready[t]) : ready[t][j] = c
      BY <2>1
    <2>3. CASE t # s
      BY <2>2, <2>3 DEF IsReady, Runs, Dequeued
    <2>4. CASE t = s /\ j > n
      <3>1. j - n \in 1 .. Len(ready'[s]) /\ ready'[s][j - n] = c
        BY <2>2, <2>4 DEF Runs, Dequeued
      <3> QED
        BY <3>1 DEF IsReady
    <2>5. CASE t = s /\ j \in 1 .. n /\ c \in cancelled[s]
      <3>1. Its(s, c)
        BY <2>2, <2>5 DEF PlaceInv, ReadyWoken
      <3>2. ItsThen(s, c) /\ c \in cancelled'[s]
        BY <1>1, <1>6, <2>5, <3>1
      <3> QED
        BY <3>2 DEF Off, ItsThen, Its
    <2>6. CASE t = s /\ r = Run(c)
      <3>1. Len(ran[s]) + 1 \in 1 .. Len(ran'[s]) /\ ran'[s][Len(ran[s]) + 1] = Run(c)
        BY <1>2, <2>6 DEF Runs, Logged
      <3> QED
        BY <3>1 DEF HasRun, Run
    <2>7. t # s \/ (t = s /\ j > n) \/ (t = s /\ j \in 1 .. n /\ c \in cancelled[s]) \/ (t = s /\ r = Run(c))
      BY <1>2, <2>2 DEF Runs
    <2> QED
      BY <2>3, <2>4, <2>5, <2>6, <2>7, Zenon
  <1>17. \A c \in Cont : OnItsWay(c) => OnItsWay(c)'
    BY <1>1 DEF OnItsWay
  <1>18. Found'
    BY <1>1, <1>6, <1>15, <1>16, <1>17, FoundStays, Zenon DEF PlaceInv
  <1> QED
    BY <1>7, <1>8, <1>9, <1>10, <1>11, <1>12, <1>13, <1>14, <1>18 DEF PlaceInv

(***************************************************************************)
(* Every step keeps woken frames at one place each.                        *)
(***************************************************************************)
LEMMA PlaceNext ==
  ASSUME TypeInv, TypeInv', Kept, ChainInv, PlaceInv, [Next]_vars
  PROVE  PlaceInv'
  <1>1. /\ TypeOK /\ \A c \in Cont : conts[c] \in Promise
    BY Shapes DEF TypeInv
  <1>2. conts' = conts => Cont' = Cont
    BY DEF Cont
  <1>3. ASSUME UNCHANGED <<ready, ran, parcels, conts>>, \A q \in Promise : state'[q] = state[q],
               \A t \in Region : cancelled[t] \subseteq cancelled'[t]
        PROVE  PlaceInv'
    <2>1. \A c \in Cont' : WokenThen(c) => c \in Cont /\ Woken(c)
      BY <1>1, <1>2, <1>3 DEF WokenThen, Woken
    <2> QED
      BY <1>3, <2>1, Stands
  <1>4. ASSUME NEW s \in Region, Create(s) PROVE PlaceInv'
    <2>1. \A q \in Promise : state'[q] = state[q]
      <3>1. state \in Seq(Status) /\ "pending" \in Status /\ state' = Append(state, "pending")
        BY <1>1, <1>4 DEF TypeOK, Status, Create
      <3> QED
        BY <3>1, AppendProperties DEF Promise
    <2> QED
      BY <1>3, <1>4, <2>1 DEF Create
  <1>5. ASSUME NEW s \in Region, RunNext(s) PROVE PlaceInv'
    <2>1. PICK n, r : Runs(s, n, r)
      BY <1>5, RunSteps
    <2> QED
      BY <1>2, <2>1, RunPlaces DEF Runs
  <1>6. ASSUME NEW s \in Region, ScheduleTask(s) \/ \E c \in Cont : Cancel(s, c) PROVE PlaceInv'
    <2>1. /\ UNCHANGED <<ready, ran, parcels, conts, state>>
          /\ cancelled' = cancelled \/ \E c \in Cont : cancelled' = [cancelled EXCEPT ![s] = @ \cup {c}]
      BY <1>6 DEF ScheduleTask, Cancel
    <2>2. \A t \in Region : cancelled[t] \subseteq cancelled'[t]
      BY <1>1, <2>1 DEF TypeOK
    <2> QED
      BY <1>3, <2>1, <2>2
  <1>7. ASSUME NEW s \in Region, NEW p \in Promise, Park(s, p) PROVE PlaceInv'
    BY <1>7, ParkPlaces
  <1>8. ASSUME NEW s \in Region, NEW p \in Promise, NEW how \in Settlement, Settle(s, p, how) PROVE PlaceInv'
    BY <1>2, <1>8, SettlePlaces DEF Settle
  <1>9. ASSUME NEW p \in Promise, NEW q \in Promise, AdoptPending(p, q) PROVE PlaceInv'
    BY <1>3, <1>9 DEF AdoptPending
  <1>10. ASSUME NEW p \in Promise, NEW q \in Promise, AdoptSettled(p, q) PROVE PlaceInv'
    <2>1. PICK how : how = state[q]
      OBVIOUS
    <2>2. how \in Settlement
      BY <1>1, <1>10, <2>1, Shapes DEF AdoptSettled, Status
    <2>3. PICK a : a = TableSettle(p, how)
      OBVIOUS
    <2>4. /\ TablesSettled(a) /\ UNCHANGED <<ready, cancelled, parcels, conts, ran>>
          /\ waiters[p] = <<>> \/ "settled" \in Uses
      BY <1>10, <2>1, <2>3 DEF AdoptSettled, MayAdopt, TablesSettled
    <2>5. CASE waiters[p] = <<>>
      <3>1. /\ \A c \in Cont : WokenThen(c) => Woken(c) \/ \E k \in 1 .. Len(a.woken) : a.woken[k] = c
            /\ a.woken = <<>>
        BY <2>2, <2>3, <2>4, <2>5, WokenFresh
      <3>2. \A c \in Cont' : WokenThen(c) => c \in Cont /\ Woken(c)
        BY <1>2, <2>4, <3>1
      <3> QED
        BY <2>4, <3>2, Stands
    <2>6. CASE "settled" \in Uses
      BY <2>4, <2>6, PlacesStay DEF PlaceInv, PlacesKept, Found
    <2> QED
      BY <2>4, <2>5, <2>6
  <1>11. ASSUME NEW k \in 1 .. Len(parcels), Accept(k) PROVE PlaceInv'
    BY <1>2, <1>11, AcceptPlaces DEF Accept
  <1>12. ASSUME UNCHANGED vars PROVE PlaceInv'
    BY <1>3, <1>12 DEF vars
  <1> QED
    BY <1>4, <1>5, <1>6, <1>7, <1>8, <1>9, <1>10, <1>11, <1>12, Steps, Zenon

(* The places hold at the start,                                           *)
LEMMA PlaceInit == Init => PlaceInv
  <1>1. SUFFICES ASSUME Init PROVE PlaceInv
    OBVIOUS
  <1>2. Cont = {} /\ Len(parcels) = 0 /\ \A s \in Region : Len(ready[s]) = 0 /\ Len(ran[s]) = 0
    BY <1>1 DEF Init, Cont
  <1>3. ReadyWoken /\ RanWoken /\ SentWoken
    BY <1>2 DEF ReadyWoken, RanWoken, SentWoken
  <1>4. OnceReady /\ OnceRan /\ OnceSent
    BY <1>2 DEF OnceReady, OnceRan, OnceSent
  <1>5. ReadyNotRan /\ ReadyNotSent /\ RanNotSent
    BY <1>2 DEF ReadyNotRan, ReadyNotSent, RanNotSent
  <1>6. Found
    BY <1>2 DEF Found
  <1> QED
    BY <1>3, <1>4, <1>5, <1>6 DEF PlaceInv

(* and always.                                                             *)
LEMMA PlaceAlways == Spec => []PlaceInv
  <1>1. TypeInv /\ TypeInv' /\ Kept /\ ChainInv /\ PlaceInv /\ [Next]_vars => PlaceInv'
    BY PlaceNext
  <1>2. TypeInv /\ [Next]_vars => Kept
    BY TypeNext
  <1> QED
    BY <1>1, <1>2, PlaceInit, TypeAlways, ChainAlways, PTL DEF Spec

(***************************************************************************)
(* A waiter runs in a region it belongs to, and in no other: the owner of  *)
(* the promise it waited on or of one that promise follows through its     *)
(* adoptions, or the region that parked it late (RunsWhereOwned), whatever *)
(* is adopted from wherever and however the promise came to settle.        *)
(***************************************************************************)
THEOREM SchedOwners == Spec => []RunsWhereOwned
  <1>1. TypeInv /\ PlaceInv => RunsWhereOwned
    <2>1. SUFFICES ASSUME TypeInv, PlaceInv, NEW s \in Region, NEW i \in 1 .. Len(ran[s]), ran[s][i].kind = "cont"
                   PROVE  Belongs(ran[s][i].id, s)
      BY DEF RunsWhereOwned
    <2>2. ran[s][i] \in Ran
      BY <2>1, Shapes, ElementOfSeq DEF TypeInv
    <2>3. ran[s][i] = Run(ran[s][i].id)
      BY <2>1, <2>2 DEF Ran, Run
    <2>4. ran[s][i].id \in Cont
      BY <2>1 DEF TypeInv, RanOK
    <2> QED
      BY <2>1, <2>3, <2>4, ItsBelongs DEF PlaceInv, RanWoken
  <1> QED
    BY <1>1, TypeAlways, PlaceAlways, PTL

(* The places of a frame, one kind of place at a time.                     *)
AtWait(c, x)  == \E p \in Promise : /\ \E i \in 1 .. Len(waiters[p]) : waiters[p][i] = Frame(c)
                                    /\ x = <<"wait", p, 0>>
AtReady(c, x) == \E s \in Region : \E i \in 1 .. Len(ready[s]) : ready[s][i] = c /\ x = <<"ready", s, i>>
AtRan(c, x)   == \E s \in Region : \E i \in 1 .. Len(ran[s]) : ran[s][i] = Run(c) /\ x = <<"ran", s, i>>
AtSent(c, x)  == \E k \in 1 .. Len(parcels) : \E i \in 1 .. Len(parcels[k].conts) :
                   parcels[k].conts[i] = c /\ ~parcels[k].accepted /\ x = <<"sent", k, i>>

(* Places as the four tables a frame may be in.                            *)
LEMMA PlacesDef ==
  ASSUME NEW c
  PROVE  \A x : x \in Places(c) <=> AtWait(c, x) \/ AtReady(c, x) \/ AtRan(c, x) \/ AtSent(c, x)
  <1>1. \A x : x \in AmongWaiters(c) <=> AtWait(c, x)
    BY DEF AtWait, AmongWaiters
  <1>2. \A x : x \in InQueues(c) <=> AtReady(c, x)
    BY DEF AtReady, InQueues
  <1>3. \A x : x \in AmongRan(c) <=> AtRan(c, x)
    BY DEF AtRan, Run, AmongRan, RanAt
  <1>4. \A x : x \in InParcels(c) <=> AtSent(c, x)
    BY DEF AtSent, InParcels
  <1> QED
    BY <1>1, <1>2, <1>3, <1>4 DEF Places

(***************************************************************************)
(* No waiter is forgotten or woken twice, however settling, parking,       *)
(* adopting, cancelling and hand-overs interleave (NoneForgotten), as long *)
(* as no promise somebody waits on adopts one already settled: what that   *)
(* wakes is dropped.                                                       *)
(***************************************************************************)
THEOREM SchedForgetsNone ==
  ASSUME "settled" \notin Uses
  PROVE  Spec => []NoneForgotten
  <1>1. TypeInv /\ PlaceInv => NoneForgotten
    <2>1. SUFFICES ASSUME TypeInv, PlaceInv, NEW c \in Cont
                   PROVE  IF state[conts[c]] = "pending"
                          THEN Places(c) = {<<"wait", conts[c], 0>>}
                          ELSE \/ \E place \in Places(c) : Places(c) = {place} /\ place[1] # "wait"
                               \/ Dropped(c)
      BY DEF NoneForgotten
    <2>2. TypeOK /\ Parked /\ conts[c] \in Promise
      BY <2>1, Shapes DEF TypeInv
    <2>3. \A x : AtWait(c, x) => x = <<"wait", conts[c], 0>> /\ ~Woken(c)
      <3>1. SUFFICES ASSUME NEW p \in Promise, NEW i \in 1 .. Len(waiters[p]), waiters[p][i] = Frame(c)
                     PROVE  p = conts[c] /\ ~Woken(c)
        BY DEF AtWait
      <3>2. p = conts[c]
        BY <2>2, <3>1 DEF Parked, FramesAreTheirs
      <3>3. waiters[p] # <<>>
        OBVIOUS
      <3> QED
        BY <2>2, <3>2, <3>3 DEF Parked, SettledAreBare, Woken
    <2>4. CASE ~Woken(c)
      <3>1. ~IsReady(c) /\ ~HasRun(c) /\ ~Sent(c)
        BY <2>1, <2>4, Unwoken, Zenon
      <3>2. \A x : ~AtReady(c, x) /\ ~AtRan(c, x) /\ ~AtSent(c, x)
        BY <3>1, Zenon DEF AtReady, AtRan, AtSent, IsReady, HasRun, Sent
      <3>3. AtWait(c, <<"wait", conts[c], 0>>)
        BY <2>2, <2>4 DEF AtWait, Parked, PendingWait, Woken
      <3>4. \A x : x \in Places(c) <=> x = <<"wait", conts[c], 0>>
        BY <2>3, <3>2, <3>3, PlacesDef, Zenon
      <3>5. Places(c) = {<<"wait", conts[c], 0>>}
        BY <3>4
      <3> QED
        BY <2>4, <3>5 DEF Woken
    <2>5. CASE Woken(c)
      <3>1. \A x : ~AtWait(c, x)
        BY <2>3, <2>5
      <3>2. \A x, y : AtReady(c, x) /\ AtReady(c, y) => x = y
        BY <2>1 DEF AtReady, PlaceInv, OnceReady
      <3>3. \A x, y : AtRan(c, x) /\ AtRan(c, y) => x = y
        BY <2>1 DEF AtRan, PlaceInv, OnceRan
      <3>4. \A x, y : AtSent(c, x) /\ AtSent(c, y) => x = y
        BY <2>1 DEF AtSent, PlaceInv, OnceSent
      <3>5. \A x, y : ~(AtReady(c, x) /\ AtRan(c, y))
        BY <2>1 DEF AtReady, AtRan, PlaceInv, ReadyNotRan
      <3>6. \A x, y : ~(AtReady(c, x) /\ AtSent(c, y))
        BY <2>1 DEF AtReady, AtSent, PlaceInv, ReadyNotSent
      <3>7. \A x, y : ~(AtRan(c, x) /\ AtSent(c, y))
        BY <2>1 DEF AtRan, AtSent, PlaceInv, RanNotSent
      <3>8. \A x, y : x \in Places(c) /\ y \in Places(c) => x = y
        BY <3>1, <3>2, <3>3, <3>4, <3>5, <3>6, <3>7, PlacesDef, Zenon
      <3>9. \A x : x \in Places(c) => x[1] # "wait"
        <4>1. \A x : AtReady(c, x) \/ AtRan(c, x) \/ AtSent(c, x) => x[1] # "wait"
          BY DEF AtReady, AtRan, AtSent
        <4> QED
          BY <3>1, <4>1, PlacesDef, Zenon
      <3>10. CASE \E x : x \in Places(c)
        <4>1. PICK x : x \in Places(c)
          BY <3>10
        <4>2. Places(c) = {x} /\ x[1] # "wait"
          BY <3>8, <3>9, <4>1
        <4> QED
          BY <2>5, <4>1, <4>2 DEF Woken
      <3>11. CASE ~\E x : x \in Places(c)
        <4>1. Places(c) = {}
          BY <3>11
        <4>2. ~IsReady(c) /\ ~HasRun(c) /\ ~OnItsWay(c)
          <5>1. \A x : ~AtReady(c, x) /\ ~AtRan(c, x) /\ ~AtSent(c, x)
            BY <3>11, PlacesDef, Zenon
          <5>2. ~IsReady(c)
            BY <5>1, Zenon DEF AtReady, IsReady
          <5>3. ~HasRun(c)
            BY <5>1, Zenon DEF AtRan, HasRun
          <5>4. ~OnItsWay(c)
            BY <5>1, Zenon DEF AtSent, OnItsWay
          <5> QED
            BY <5>2, <5>3, <5>4
        <4>3. Off(c)
          BY <2>1, <2>5, <4>2 DEF PlaceInv, Found
        <4> QED
          BY <2>5, <4>1, <4>3 DEF Off, Dropped, Woken
      <3> QED
        BY <3>10, <3>11
    <2> QED
      BY <2>4, <2>5
  <1> QED
    BY <1>1, TypeAlways, PlaceAlways, PTL

(***************************************************************************)
(* Every frame that belongs to a region alone, of every promise settled so *)
(* far, has run or been cancelled when a task runs there                   *)
(* (TasksObserveSettled); frames another region's settling sent by parcel  *)
(* are apart, and so are those that adopting a settled promise loses.      *)
(***************************************************************************)
THEOREM SchedTasksLast ==
  ASSUME "settled" \notin Uses
  PROVE  Spec => TasksObserveSettled
  <1> DEFINE Observes == \A s \in Region : RanTask(s) =>
               \A c \in Cont : /\ state[conts[c]] # "pending" /\ ~Sent(c)
                               /\ \A t \in Region : Belongs(c, t) => t = s
                               => RanAt(s, c) # {} \/ c \in cancelled[s]
  <1>1. TypeInv /\ PlaceInv /\ [Next]_vars => Observes
    <2>1. SUFFICES ASSUME TypeInv, PlaceInv, [Next]_vars, NEW s \in Region, RanTask(s), NEW c \in Cont,
                          state[conts[c]] # "pending", ~Sent(c), \A t \in Region : Belongs(c, t) => t = s
                   PROVE  RanAt(s, c) # {} \/ c \in cancelled[s]
      OBVIOUS
    <2>2. Len(ran[s]) \in Nat /\ ran \in [Region -> Seq(Ran)]
      BY <2>1, Shapes DEF TypeInv, TypeOK
    <2>3. ran' # ran
      BY <2>1, <2>2 DEF RanTask
    <2>4. \E u \in Region : RunNext(u)
      BY <2>1, <2>3, Steps, Zenon DEF Create, ScheduleTask, Cancel, Park, Settle, AdoptPending, AdoptSettled,
         Accept, vars
    <2>5. PICK u \in Region : RunNext(u)
      BY <2>4
    <2>6. AllCancelled(s)
      <3>1. ASSUME NEW i \in 1 .. Len(ready[u]), NextFrame(u, i) PROVE FALSE
        <4>1. PICK r : r = Run(ready[u][i])
          OBVIOUS
        <4>2. r \in Ran /\ r.kind = "cont"
          <5>1. ready[u][i] \in Cont
            BY <2>1, Shapes DEF TypeInv
          <5> QED
            BY <4>1, <5>1 DEF Run, Ran, Cont
        <4>3. ran' = [ran EXCEPT ![u] = Append(@, r)]
          BY <3>1, <4>1 DEF NextFrame
        <4>4. PICK w : w = Append(ran[s], r)
          OBVIOUS
        <4>5. Len(w) = Len(ran[s]) + 1 /\ w[Len(ran[s]) + 1] = r
          BY <2>2, <4>2, <4>4, AppendProperties
        <4>6. ran'[s] = ran[s] \/ ran'[s] = w
          BY <2>2, <4>3, <4>4
        <4> QED
          BY <2>1, <2>2, <4>2, <4>5, <4>6 DEF RanTask
      <3>2. NextTask(u)
        BY <2>5, <3>1, TwoWays
      <3>3. u = s
        <4>1. u # s => ran'[s] = ran[s]
          BY <2>2, <3>2 DEF NextTask, RunTask
        <4> QED
          BY <2>1, <2>2, <4>1 DEF RanTask
      <3> QED
        BY <3>2, <3>3 DEF NextTask
    <2>7. IsReady(c) \/ HasRun(c) \/ OnItsWay(c) \/ Off(c)
      BY <2>1 DEF PlaceInv, Found, Woken
    <2>8. ~OnItsWay(c)
      BY <2>1 DEF OnItsWay, Sent
    <2>9. \A t \in Region : Its(t, c) => t = s
      BY <2>1, ItsBelongs
    <2>10. IsReady(c) => c \in cancelled[s]
      BY <2>1, <2>6, <2>9 DEF IsReady, PlaceInv, ReadyWoken, AllCancelled
    <2>11. Off(c) => c \in cancelled[s]
      BY <2>9 DEF Off
    <2>12. HasRun(c) => RanAt(s, c) # {}
      <3>1. SUFFICES ASSUME NEW t \in Region, NEW i \in 1 .. Len(ran[t]), ran[t][i] = Run(c) PROVE RanAt(s, c) # {}
        BY DEF HasRun
      <3>2. t = s
        BY <2>1, <2>9, <3>1 DEF PlaceInv, RanWoken
      <3> QED
        BY <3>1, <3>2 DEF RanAt, Run
    <2> QED
      BY <2>7, <2>8, <2>10, <2>11, <2>12
  <1>2. Spec => [][Observes]_vars
    BY <1>1, TypeAlways, PlaceAlways, PTL DEF Spec
  <1> QED
    BY <1>2 DEF TasksObserveSettled

(***************************************************************************)
(* The order of frames parked on one promise.  What names and lists say of *)
(* two frames before and after a step.                                     *)
(***************************************************************************)
LEMMA Names ==
  ASSUME TypeInv, Kept
  PROVE  /\ \A c, d \in Cont : Before(c, d)' <=> Before(c, d)
         /\ \A c \in Cont', d \in Cont : c < d => c \in Cont
         /\ \A s \in Region : \A c : \A i \in 1 .. Len(ready[s]) : ready[s][i] = c => c \in Cont
         /\ \A s \in Region : \A c : \A i \in 1 .. Len(ran[s]) : ran[s][i] = Run(c) => c \in Cont
         /\ \A c : Sent(c) => c \in Cont
  <1>1. \A c, d \in Cont : Before(c, d)' <=> Before(c, d)
    BY DEF Kept, Before
  <1>2. Len(conts) \in Nat /\ TypeOK
    BY Shapes DEF TypeInv
  <1>3. \A c \in Cont', d \in Cont : c < d => c \in Cont
    BY <1>2 DEF Cont
  <1>4. \A s \in Region : \A c : \A i \in 1 .. Len(ready[s]) : ready[s][i] = c => c \in Cont
    BY <1>2, Shapes
  <1>5. \A s \in Region : \A c : \A i \in 1 .. Len(ran[s]) : ran[s][i] = Run(c) => c \in Cont
    BY DEF TypeInv, RanOK, Run
  <1>6. \A c : Sent(c) => c \in Cont
    BY <1>2, Shapes DEF Sent
  <1> QED
    BY <1>1, <1>3, <1>4, <1>5, <1>6

(* The parcels hold what they held.                                        *)
LEMMA SameSent ==
  ASSUME Len(parcels') = Len(parcels), \A k \in 1 .. Len(parcels) : parcels'[k].conts = parcels[k].conts
  PROVE  \A c : Sent(c)' <=> Sent(c)
  BY DEF Sent

(* The order in parcels stays where no parcel changes,                     *)
LEMMA SentOrderStays ==
  ASSUME TypeInv, Kept, OrderInv,
         Len(parcels') = Len(parcels), \A k \in 1 .. Len(parcels) : parcels'[k].conts = parcels[k].conts
  PROVE  SentInOrder'
  <1>1. SUFFICES ASSUME NEW c \in Cont', NEW d \in Cont', Before(c, d)', NEW k \in 1 .. Len(parcels),
                        NEW j \in 1 .. Len(parcels[k].conts), parcels[k].conts[j] = d
                 PROVE  \E i \in 1 .. Len(parcels[k].conts) : i < j /\ parcels[k].conts[i] = c
    <2>1. SUFFICES ASSUME NEW c \in Cont', NEW d \in Cont', Before(c, d)', NEW k \in 1 .. Len(parcels'),
                          NEW j \in 1 .. Len(parcels'[k].conts), parcels'[k].conts[j] = d
                   PROVE  \E i \in 1 .. Len(parcels'[k].conts) : i < j /\ parcels'[k].conts[i] = c
      BY Zenon DEF SentInOrder
    <2>2. k \in 1 .. Len(parcels) /\ parcels'[k].conts = parcels[k].conts
      BY <2>1
    <2> QED
      BY <1>1, <2>1, <2>2
  <1>2. d \in Cont
    BY <1>1, Names DEF Sent
  <1>3. c \in Cont
    BY <1>1, <1>2, Names DEF Before
  <1>4. Before(c, d)
    BY <1>1, <1>2, <1>3, Names
  <1> QED
    BY <1>1, <1>2, <1>3, <1>4 DEF OrderInv, SentInOrder

(* and the order of what ran where nothing runs.                           *)
LEMMA RanOrderStays ==
  ASSUME TypeInv, Kept, OrderInv, ran' = ran,
         \A c \in Cont : HasRun(c) => (Sent(c)' <=> Sent(c))
  PROVE  RanInOrder'
  <1>1. SUFFICES ASSUME NEW s \in Region, NEW c \in Cont', NEW d \in Cont', Aligned(c, d)',
                        NEW i \in 1 .. Len(ran[s]), NEW j \in 1 .. Len(ran[s]), ran[s][i] = Run(c), ran[s][j] = Run(d)
                 PROVE  i < j
    BY DEF RanInOrder, Run
  <1>2. c \in Cont /\ d \in Cont
    BY <1>1, Names
  <1>3. HasRun(c) /\ HasRun(d)
    BY <1>1 DEF HasRun
  <1>4. Before(c, d)
    BY <1>1, <1>2, Names DEF Aligned
  <1>5. Aligned(c, d)
    BY <1>1, <1>2, <1>3, <1>4 DEF Aligned
  <1> QED
    BY <1>1, <1>2, <1>5, Zenon DEF OrderInv, RanInOrder

(* What sends nothing that is queued or ran, and moves nothing, keeps the  *)
(* order.                                                                  *)
LEMMA OrderStays ==
  ASSUME TypeInv, Kept, OrderInv, UNCHANGED <<ready, ran>>, SentInOrder',
         \A c \in Cont : IsReady(c) \/ HasRun(c) => (Sent(c)' <=> Sent(c))
  PROVE  OrderInv'
  <1>1. RanInOrder'
    BY RanOrderStays
  <1>2. ReadyInOrder'
    <2>1. SUFFICES ASSUME NEW s \in Region, NEW c \in Cont', NEW d \in Cont', Aligned(c, d)',
                          NEW i \in 1 .. Len(ready[s]), NEW j \in 1 .. Len(ready[s]), ready[s][i] = c, ready[s][j] = d
                   PROVE  i < j
      BY DEF ReadyInOrder
    <2>2. c \in Cont /\ d \in Cont
      BY <2>1, Names
    <2>3. IsReady(c) /\ IsReady(d)
      BY <2>1 DEF IsReady
    <2>4. Aligned(c, d)
      BY <2>1, <2>2, <2>3, Names DEF Aligned
    <2> QED
      BY <2>1, <2>2, <2>4 DEF OrderInv, ReadyInOrder
  <1>3. RunsFirst'
    <2>1. SUFFICES ASSUME NEW s \in Region, NEW c \in Cont', NEW d \in Cont', Aligned(c, d)',
                          NEW i \in 1 .. Len(ready[s]), NEW j \in 1 .. Len(ran[s]), ready[s][i] = c, ran[s][j] = Run(d)
                   PROVE  FALSE
      BY DEF RunsFirst, Run
    <2>2. c \in Cont /\ d \in Cont
      BY <2>1, Names
    <2>3. IsReady(c) /\ HasRun(d)
      BY <2>1 DEF IsReady, HasRun
    <2>4. Aligned(c, d)
      BY <2>1, <2>2, <2>3, Names DEF Aligned
    <2> QED
      BY <2>1, <2>2, <2>4 DEF OrderInv, RunsFirst
  <1> QED
    BY <1>1, <1>2, <1>3 DEF OrderInv

(***************************************************************************)
(* Frames put at the end of a queue: in the order they were parked, and    *)
(* after every frame of their promise that was parked before them.         *)
(***************************************************************************)
LEMMA OrderQueues ==
  ASSUME TypeInv, Kept, PlaceInv, OrderInv, NEW s \in Region, NEW W, Queued(s, W), ran' = ran,
         Len(parcels') = Len(parcels), \A k \in 1 .. Len(parcels) : parcels'[k].conts = parcels[k].conts,
         \A k, l \in 1 .. Len(W) : Aligned(W[k], W[l])' => k < l,
         \A d \in Cont : \A k \in 1 .. Len(W) : Aligned(W[k], d)' => ~IsReady(d) /\ ~HasRun(d)
  PROVE  OrderInv'
  <1>1. \A c : Sent(c)' <=> Sent(c)
    BY SameSent
  <1>2. SentInOrder' /\ RanInOrder'
    BY <1>1, SentOrderStays, RanOrderStays
  <1>3. \A t \in Region : Len(ready[t]) \in Nat
    BY Shapes DEF TypeInv
  <1>4. \A t \in Region : \A i \in 1 .. Len(ready'[t]) :
          \/ i \in 1 .. Len(ready[t]) /\ ready'[t][i] = ready[t][i]
          \/ \E k \in 1 .. Len(W) : t = s /\ k = i - Len(ready[t]) /\ ready'[t][i] = W[k]
    BY DEF Queued
  <1>5. ReadyInOrder'
    <2>1. SUFFICES ASSUME NEW t \in Region, NEW c \in Cont', NEW d \in Cont', Aligned(c, d)',
                          NEW i \in 1 .. Len(ready'[t]), NEW j \in 1 .. Len(ready'[t]),
                          ready'[t][i] = c, ready'[t][j] = d
                   PROVE  i < j
      BY DEF ReadyInOrder
    <2>2. CASE i \in 1 .. Len(ready[t]) /\ ready'[t][i] = ready[t][i]
      <3>1. CASE j \in 1 .. Len(ready[t]) /\ ready'[t][j] = ready[t][j]
        <4>1. ready[t][i] = c /\ ready[t][j] = d
          BY <2>1, <2>2, <3>1
        <4>2. c \in Cont /\ d \in Cont
          BY <2>2, <3>1, <4>1, Names
        <4>3. Aligned(c, d)
          BY <1>1, <2>1, <4>2, Names DEF Aligned
        <4> QED
          BY <2>2, <3>1, <4>1, <4>2, <4>3, Zenon DEF OrderInv, ReadyInOrder
      <3>2. ASSUME NEW l \in 1 .. Len(W), l = j - Len(ready[t]) PROVE i < j
        BY <1>3, <2>2, <3>2
      <3> QED
        BY <1>4, <3>1, <3>2
    <2>3. ASSUME NEW k \in 1 .. Len(W), t = s, k = i - Len(ready[t]), ready'[t][i] = W[k] PROVE i < j
      <3>1. CASE j \in 1 .. Len(ready[t]) /\ ready'[t][j] = ready[t][j]
        <4>1. d \in Cont /\ IsReady(d) /\ W[k] = c
          BY <2>1, <2>3, <3>1, Names DEF IsReady
        <4> QED
          BY <2>1, <4>1, Zenon
      <3>2. ASSUME NEW l \in 1 .. Len(W), l = j - Len(ready[t]), ready'[t][j] = W[l] PROVE i < j
        <4>1. W[k] = c /\ W[l] = d
          BY <2>1, <2>3, <3>2
        <4>2. k < l
          BY <2>1, <4>1, Zenon
        <4> QED
          BY <1>3, <2>3, <3>2, <4>2
      <3> QED
        BY <1>4, <3>1, <3>2
    <2> QED
      BY <1>4, <2>2, <2>3
  <1>6. RunsFirst'
    <2>1. SUFFICES ASSUME NEW t \in Region, NEW c \in Cont', NEW d \in Cont', Aligned(c, d)',
                          NEW i \in 1 .. Len(ready'[t]), NEW j \in 1 .. Len(ran[t]),
                          ready'[t][i] = c, ran[t][j] = Run(d)
                   PROVE  FALSE
      BY DEF RunsFirst, Run
    <2>2. d \in Cont /\ HasRun(d)
      BY <2>1, Names DEF HasRun
    <2>3. CASE i \in 1 .. Len(ready[t]) /\ ready'[t][i] = ready[t][i]
      <3>1. c \in Cont /\ ready[t][i] = c
        BY <2>1, <2>3, Names
      <3>2. Aligned(c, d)
        BY <1>1, <2>1, <2>2, <3>1, Names DEF Aligned
      <3> QED
        BY <2>1, <2>2, <2>3, <3>1, <3>2, Zenon DEF OrderInv, RunsFirst
    <2>4. ASSUME NEW k \in 1 .. Len(W), ready'[t][i] = W[k] PROVE FALSE
      <3>1. W[k] = c
        BY <2>1, <2>4
      <3> QED
        BY <2>1, <2>2, <3>1, Zenon
    <2> QED
      BY <1>4, <2>3, <2>4
  <1> QED
    BY <1>2, <1>5, <1>6 DEF OrderInv

(* What a settlement wakes had not been woken, and comes in order.         *)
LEMMA WokenInOrder ==
  ASSUME TypeInv, Kept, NEW p \in Promise, NEW how \in Settlement,
         NEW a, a = TableSettle(p, how), TablesSettled(a)
  PROVE  /\ \A k, l \in 1 .. Len(a.woken) : Before(a.woken[k], a.woken[l]) => k < l
         /\ \A k \in 1 .. Len(a.woken) : a.woken[k] \in Cont /\ ~Woken(a.woken[k])
         /\ \A c, d \in Cont : \A l \in 1 .. Len(a.woken) : Before(c, d) /\ a.woken[l] = d
              => \E k \in 1 .. Len(a.woken) : k < l /\ a.woken[k] = c
  <1>1. TypeOK /\ Parked
    BY DEF TypeInv
  <1>2. a \in Acc /\ LoopWoken(a) /\ LoopOrder(a) /\ LoopAll(a)
    BY <1>1, Settles
  <1>3. \A k \in 1 .. Len(a.woken) : a.woken[k] \in Cont /\ a.woken[k] \in Int
    BY <1>1, <1>2, Shapes, AccFields, ElementOfSeq DEF Cont
  <1>4. \A k \in 1 .. Len(a.woken) : ~Woken(a.woken[k])
    BY <1>2 DEF LoopWoken, Newly, Woken
  <1>5. \A k, l \in 1 .. Len(a.woken) : Before(a.woken[k], a.woken[l]) => k < l
    <2>1. SUFFICES ASSUME NEW k \in 1 .. Len(a.woken), NEW l \in 1 .. Len(a.woken),
                          a.woken[k] < a.woken[l], conts[a.woken[k]] = conts[a.woken[l]]
                   PROVE  k < l
      BY DEF Before
    <2>2. k # l
      BY <1>3, <2>1
    <2>3. ~(l < k)
      <3>1. l < k => a.woken[l] < a.woken[k]
        BY <1>2, <2>1 DEF LoopOrder
      <3> QED
        BY <1>3, <2>1, <3>1
    <2> QED
      BY <2>2, <2>3
  <1>6. ASSUME NEW c \in Cont, NEW d \in Cont, NEW l \in 1 .. Len(a.woken), Before(c, d), a.woken[l] = d
        PROVE  \E k \in 1 .. Len(a.woken) : k < l /\ a.woken[k] = c
    <2>1. Newly(a, conts[c])
      BY <1>2, <1>6 DEF LoopWoken, Before
    <2>2. PICK k \in 1 .. Len(a.woken) : a.woken[k] = c
      BY <1>2, <2>1 DEF LoopAll
    <2> QED
      BY <1>5, <1>6, <2>2
  <1> QED
    BY <1>3, <1>4, <1>5, <1>6

(* Settle keeps the order,                                                 *)
LEMMA SettleOrder ==
  ASSUME TypeInv, Kept, ChainInv, PlaceInv, OrderInv, Cont' = Cont,
         NEW s \in Region, NEW p \in Promise, NEW how \in Settlement, Settle(s, p, how)
  PROVE  OrderInv'
  <1>1. PICK a : a = TableSettle(p, how)
    OBVIOUS
  <1>2. /\ TablesSettled(a) /\ Deliver(s, p, a.woken)
        /\ UNCHANGED <<owner, conts, ran>>
    BY <1>1 DEF Settle, TablesSettled
  <1>3. PICK W : W = a.woken
    OBVIOUS
  <1>4. /\ W \in Seq(Cont) /\ Fresh(owner[p], W)
        /\ \A k, l \in 1 .. Len(W) : Before(W[k], W[l]) => k < l
        /\ \A k \in 1 .. Len(W) : W[k] \in Cont /\ ~Woken(W[k])
        /\ \A c, d \in Cont : \A l \in 1 .. Len(W) : Before(c, d) /\ W[l] = d
              => \E k \in 1 .. Len(W) : k < l /\ W[k] = c
    BY <1>1, <1>2, <1>3, WokenFresh, WokenInOrder
  <1>5. CASE ready' = [ready EXCEPT ![s] = @ \o W] /\ UNCHANGED parcels
    <2>1. Queued(s, W)
      BY <1>4, <1>5, Queues
    <2>2. \A k, l \in 1 .. Len(W) : Aligned(W[k], W[l])' => k < l
      BY <1>4, Names DEF Aligned
    <2>3. ASSUME NEW d \in Cont, NEW k \in 1 .. Len(W), Aligned(W[k], d)' PROVE ~IsReady(d) /\ ~HasRun(d)
      <3>1. Before(W[k], d)
        BY <1>4, <2>3, Names DEF Aligned
      <3>2. ~Woken(d)
        BY <1>4, <3>1 DEF Woken, Before
      <3> QED
        BY <3>2, Unwoken, Zenon
    <2> QED
      BY <1>2, <1>5, <2>1, <2>2, <2>3, OrderQueues
  <1>6. CASE UNCHANGED ready /\ parcels' = Append(parcels, [to |-> owner[p], conts |-> W, accepted |-> FALSE])
    <2>1. PICK o : o = owner[p]
      OBVIOUS
    <2> DEFINE n == Len(parcels) + 1
    <2>2. /\ Len(parcels) \in Nat /\ Len(parcels') = n
          /\ \A k \in 1 .. Len(parcels) : parcels'[k] = parcels[k]
          /\ parcels'[n].conts = W
      <3> DEFINE Parcel == [to : Region, conts : Seq(Cont), accepted : BOOLEAN]
      <3>1. o \in Region
        BY <2>1, Shapes DEF TypeInv
      <3>2. parcels \in Seq(Parcel) /\ [to |-> o, conts |-> W, accepted |-> FALSE] \in Parcel
        BY <1>4, <3>1 DEF TypeInv, TypeOK
      <3> HIDE DEF Parcel
      <3> QED
        BY <1>6, <2>1, <3>2, AppendProperties, LenProperties
    <2>3. \A k \in 1 .. Len(parcels') : k \in 1 .. Len(parcels) \/ k = n
      BY <2>2
    <2>4. \A k \in 1 .. Len(parcels) : k \in 1 .. Len(parcels')
      BY <2>2
    <2> HIDE DEF n
    <2>5. SentInOrder'
      <3>1. SUFFICES ASSUME NEW c \in Cont, NEW d \in Cont, Before(c, d), NEW k \in 1 .. Len(parcels'),
                            NEW j \in 1 .. Len(parcels'[k].conts), parcels'[k].conts[j] = d
                     PROVE  \E i \in 1 .. Len(parcels'[k].conts) : i < j /\ parcels'[k].conts[i] = c
        BY <1>2 DEF SentInOrder, Before
      <3>2. CASE k \in 1 .. Len(parcels)
        BY <2>2, <3>1, <3>2 DEF OrderInv, SentInOrder
      <3>3. CASE k = n
        BY <1>4, <2>2, <3>1, <3>3
      <3> QED
        BY <2>3, <3>2, <3>3
    <2>6. \A c : Sent(c)' => Sent(c) \/ \E i \in 1 .. Len(W) : W[i] = c
      <3>1. SUFFICES ASSUME NEW k \in 1 .. Len(parcels'), NEW j \in 1 .. Len(parcels'[k].conts)
                     PROVE  Sent(parcels'[k].conts[j]) \/ \E i \in 1 .. Len(W) : W[i] = parcels'[k].conts[j]
        BY SMTT(60) DEF Sent
      <3>2. CASE k \in 1 .. Len(parcels)
        BY <2>2, <3>1, <3>2 DEF Sent
      <3>3. CASE k = n
        BY <2>2, <3>1, <3>3
      <3> QED
        BY <2>3, <3>2, <3>3
    <2>7. \A c : Sent(c) => Sent(c)'
      <3>1. SUFFICES ASSUME NEW c, Sent(c) PROVE Sent(c)'
        OBVIOUS
      <3>2. PICK k \in 1 .. Len(parcels) : \E i \in 1 .. Len(parcels[k].conts) : parcels[k].conts[i] = c
        BY <3>1 DEF Sent
      <3> QED
        BY <2>2, <2>4, <3>2 DEF Sent
    <2>8. \A c \in Cont : IsReady(c) \/ HasRun(c) => (Sent(c)' <=> Sent(c))
      BY <1>4, <2>6, <2>7 DEF Fresh
    <2> QED
      BY <1>2, <1>6, <2>5, <2>8, OrderStays
  <1> QED
    BY <1>2, <1>3, <1>5, <1>6 DEF Deliver

(* so does Accept,                                                         *)
LEMMA AcceptOrder ==
  ASSUME TypeInv, Kept, PlaceInv, OrderInv, Cont' = Cont, NEW k \in 1 .. Len(parcels), Accept(k)
  PROVE  OrderInv'
  <1>1. /\ ~parcels[k].accepted
        /\ parcels' = [parcels EXCEPT ![k].accepted = TRUE]
        /\ ready' = [ready EXCEPT ![parcels[k].to] = @ \o parcels[k].conts]
        /\ UNCHANGED <<conts, ran>>
    BY DEF Accept
  <1>2. PICK s, W : s = parcels[k].to /\ W = parcels[k].conts
    OBVIOUS
  <1>3. s \in Region /\ W \in Seq(Cont) /\ \A i \in 1 .. Len(W) : W[i] \in Cont
    BY <1>2, Shapes DEF TypeInv
  <1>4. Queued(s, W)
    BY <1>1, <1>2, <1>3, Queues
  <1>5. /\ Len(parcels') = Len(parcels)
        /\ \A l \in 1 .. Len(parcels) : parcels'[l].conts = parcels[l].conts
    <2> DEFINE Parcel == [to : Region, conts : Seq(Cont), accepted : BOOLEAN]
               o == [parcels[k] EXCEPT !.accepted = TRUE]
    <2>1. parcels \in Seq(Parcel) /\ parcels[k] \in Parcel
      BY ElementOfSeq DEF TypeInv, TypeOK
    <2>2. o \in Parcel /\ o.conts = parcels[k].conts
      BY <2>1
    <2>3. parcels' = [parcels EXCEPT ![k] = o]
      BY <1>1
    <2> HIDE DEF o, Parcel
    <2>4. /\ Len(parcels') = Len(parcels)
          /\ \A l \in 1 .. Len(parcels) : parcels'[l] = IF l = k THEN o ELSE parcels[l]
      BY <2>1, <2>2, <2>3, ExceptSeq
    <2> QED
      BY <2>2, <2>4
  <1>6. \A c : Sent(c)' <=> Sent(c)
    BY <1>5, SameSent
  <1>7. ASSUME NEW d \in Cont, NEW i \in 1 .. Len(W), Aligned(W[i], d)'
        PROVE  \E j \in 1 .. Len(W) : i < j /\ W[j] = d
    <2>1. Before(W[i], d) /\ Sent(W[i])
      BY <1>2, <1>3, <1>7, Names DEF Aligned, Sent
    <2>2. Sent(d)
      BY <1>6, <1>7, <2>1 DEF Aligned
    <2>3. PICK l \in 1 .. Len(parcels) : \E j \in 1 .. Len(parcels[l].conts) : parcels[l].conts[j] = d
      BY <2>2 DEF Sent
    <2>4. PICK j \in 1 .. Len(parcels[l].conts) : parcels[l].conts[j] = d
      BY <2>3
    <2>5. PICK m \in 1 .. Len(parcels[l].conts) : m < j /\ parcels[l].conts[m] = W[i]
      <3>1. \A c, e \in Cont : Before(c, e) =>
              \A n \in 1 .. Len(parcels) : \A q \in 1 .. Len(parcels[n].conts) :
                parcels[n].conts[q] = e => \E x \in 1 .. Len(parcels[n].conts) : x < q /\ parcels[n].conts[x] = c
        BY DEF OrderInv, SentInOrder
      <3> QED
        BY <1>3, <2>1, <2>4, <3>1, Zenon
    <2>6. l = k /\ m = i
      BY <1>2, <2>5 DEF PlaceInv, OnceSent
    <2> QED
      BY <1>2, <2>4, <2>5, <2>6
  <1>8. \A i, j \in 1 .. Len(W) : Aligned(W[i], W[j])' => i < j
    <2>1. SUFFICES ASSUME NEW i \in 1 .. Len(W), NEW j \in 1 .. Len(W), Aligned(W[i], W[j])' PROVE i < j
      OBVIOUS
    <2>2. PICK l \in 1 .. Len(W) : i < l /\ W[l] = W[j]
      BY <1>3, <1>7, <2>1, Zenon
    <2>3. l = j
      BY <1>2, <2>2 DEF PlaceInv, OnceSent
    <2> QED
      BY <2>2, <2>3
  <1>9. \A d \in Cont : \A i \in 1 .. Len(W) : Aligned(W[i], d)' => ~IsReady(d) /\ ~HasRun(d)
    <2>1. SUFFICES ASSUME NEW d \in Cont, NEW i \in 1 .. Len(W), Aligned(W[i], d)'
                   PROVE  ~IsReady(d) /\ ~HasRun(d)
      OBVIOUS
    <2>2. PICK j \in 1 .. Len(parcels[k].conts) : parcels[k].conts[j] = d
      BY <1>2, <1>7, <2>1
    <2>3. ~IsReady(d)
      BY <1>1, <2>2 DEF PlaceInv, ReadyNotSent, IsReady
    <2>4. ~HasRun(d)
      BY <1>1, <2>2 DEF PlaceInv, RanNotSent, HasRun
    <2> QED
      BY <2>3, <2>4
  <1> QED
    BY <1>1, <1>3, <1>4, <1>5, <1>8, <1>9, OrderQueues

(* and so does Park.                                                       *)
LEMMA ParkOrder ==
  ASSUME TypeInv, TypeInv', Kept, PlaceInv, OrderInv, NEW s \in Region, NEW p \in Promise, Park(s, p)
  PROVE  OrderInv'
  <1>1. PICK c : c = Len(conts) + 1
    OBVIOUS
  <1>2. /\ UNCHANGED <<parcels, ran>>
        /\ IF state[p] = "pending" THEN UNCHANGED ready
           ELSE ready' = [ready EXCEPT ![s] = Append(@, c)]
    BY <1>1 DEF Park
  <1>3. /\ c \in Nat /\ c \notin Cont /\ \A d \in Cont : d < c
        /\ \A t \in Region : ready[t] \in Seq(Cont)
    BY <1>1, Shapes DEF Cont, TypeInv
  <1>4. CASE state[p] = "pending"
    <2>1. SentInOrder'
      BY <1>2, SentOrderStays
    <2>2. \A d : Sent(d)' <=> Sent(d)
      BY <1>2, SameSent
    <2> QED
      BY <1>2, <1>4, <2>1, <2>2, OrderStays
  <1>5. CASE state[p] # "pending"
    <2>1. PICK W : W = <<c>>
      OBVIOUS
    <2>2. W \in Seq(Cont \cup {c}) /\ Len(W) = 1 /\ W[1] = c
      BY <2>1
    <2>3. ready[s] \in Seq(Cont \cup {c})
      BY <1>3, Wider
    <2>4. Append(ready[s], c) = ready[s] \o W
      BY <2>1, <2>3
    <2>5. Queued(s, W)
      <3>1. ready' = [ready EXCEPT ![s] = @ \o W]
        BY <1>2, <1>5, <2>4
      <3>2. PICK S : S = Cont \cup {c}
        OBVIOUS
      <3> QED
        BY <2>2, <3>1, <3>2, Queues
    <2>6. \A k, l \in 1 .. Len(W) : Aligned(W[k], W[l])' => k < l
      BY <1>3, <2>2 DEF Aligned, Before
    <2>7. \A d \in Cont : \A k \in 1 .. Len(W) : ~Aligned(W[k], d)'
      <3>1. \A d \in Cont : ~(c < d)
        BY <1>3 DEF Cont
      <3> QED
        BY <2>2, <3>1 DEF Aligned, Before
    <2> QED
      BY <1>2, <2>5, <2>6, <2>7, OrderQueues
  <1> QED
    BY <1>4, <1>5

(* What runs was ahead in its queue of what is left there, and behind what *)
(* ran.                                                                    *)
LEMMA RunOrder ==
  ASSUME TypeInv, Kept, PlaceInv, OrderInv, Cont' = Cont, NEW s \in Region, NEW n, NEW r, Runs(s, n, r)
  PROVE  OrderInv'
  <1>1. UNCHANGED <<parcels, conts>>
    BY DEF Runs
  <1>2. \A t \in Region : Len(ready[t]) \in Nat /\ Len(ran[t]) \in Nat
    BY Shapes DEF TypeInv
  <1>3. /\ \A t \in Region : \A j \in 1 .. Len(ready'[t]) :
             \E m \in 1 .. Len(ready[t]) : /\ ready'[t][j] = ready[t][m]
                                           /\ t = s => m = n + j
                                           /\ t # s => m = j
        /\ \A t \in Region : \A j \in 1 .. Len(ran'[t]) :
             \/ j \in 1 .. Len(ran[t]) /\ ran'[t][j] = ran[t][j]
             \/ t = s /\ j = Len(ran[s]) + 1 /\ ran'[t][j] = r
        /\ \A c : r = Run(c) => n \in 1 .. Len(ready[s]) /\ ready[s][n] = c
    BY RunOrigins
  <1>4. \A c, d \in Cont : Aligned(c, d)' <=> Aligned(c, d)
    BY <1>1, Names, SameSent DEF Aligned
  <1>5. SentInOrder'
    BY <1>1, SentOrderStays
  <1>6. ReadyInOrder'
    <2>1. SUFFICES ASSUME NEW t \in Region, NEW c \in Cont, NEW d \in Cont, Aligned(c, d),
                          NEW i \in 1 .. Len(ready'[t]), NEW j \in 1 .. Len(ready'[t]),
                          ready'[t][i] = c, ready'[t][j] = d
                   PROVE  i < j
      BY <1>4 DEF ReadyInOrder
    <2>2. PICK l \in 1 .. Len(ready[t]) : /\ ready'[t][i] = ready[t][l]
                                          /\ t = s => l = n + i
                                          /\ t # s => l = i
      BY <1>3
    <2>3. PICK m \in 1 .. Len(ready[t]) : /\ ready'[t][j] = ready[t][m]
                                          /\ t = s => m = n + j
                                          /\ t # s => m = j
      BY <1>3
    <2>4. ready[t][l] = c /\ ready[t][m] = d
      BY <2>1, <2>2, <2>3
    <2>5. l < m
      BY <2>1, <2>4, Zenon DEF OrderInv, ReadyInOrder
    <2> QED
      BY <1>2, <2>2, <2>3, <2>5 DEF Runs
  <1>7. RunsFirst'
    <2>1. SUFFICES ASSUME NEW t \in Region, NEW c \in Cont, NEW d \in Cont, Aligned(c, d),
                          NEW i \in 1 .. Len(ready'[t]), NEW j \in 1 .. Len(ran'[t]),
                          ready'[t][i] = c, ran'[t][j] = Run(d)
                   PROVE  FALSE
      BY <1>4 DEF RunsFirst, Run
    <2>2. PICK l \in 1 .. Len(ready[t]) : /\ ready'[t][i] = ready[t][l]
                                          /\ t = s => l = n + i
      BY <1>3
    <2>3. ready[t][l] = c
      BY <2>1, <2>2
    <2>4. CASE j \in 1 .. Len(ran[t]) /\ ran'[t][j] = ran[t][j]
      <3>1. ran[t][j] = Run(d)
        BY <2>1, <2>4
      <3> QED
        BY <2>1, <2>3, <2>4, <3>1, Zenon DEF OrderInv, RunsFirst
    <2>5. CASE t = s /\ ran'[t][j] = r
      <3>1. n \in 1 .. Len(ready[t]) /\ ready[t][n] = d
        BY <1>3, <2>1, <2>5
      <3>2. l < n
        BY <2>1, <2>3, <3>1, Zenon DEF OrderInv, ReadyInOrder
      <3> QED
        BY <2>2, <2>5, <3>1, <3>2
    <2> QED
      BY <1>3, <2>4, <2>5
  <1>8. RanInOrder'
    <2>1. SUFFICES ASSUME NEW t \in Region, NEW c \in Cont, NEW d \in Cont, Aligned(c, d),
                          NEW i \in 1 .. Len(ran'[t]), NEW j \in 1 .. Len(ran'[t]),
                          ran'[t][i] = Run(c), ran'[t][j] = Run(d)
                   PROVE  i < j
      BY <1>4 DEF RanInOrder, Run
    <2>2. CASE i \in 1 .. Len(ran[t]) /\ ran'[t][i] = ran[t][i]
      <3>1. CASE j \in 1 .. Len(ran[t]) /\ ran'[t][j] = ran[t][j]
        <4>1. ran[t][i] = Run(c) /\ ran[t][j] = Run(d)
          BY <2>1, <2>2, <3>1
        <4> QED
          BY <2>1, <2>2, <3>1, <4>1, Zenon DEF OrderInv, RanInOrder
      <3>2. CASE t = s /\ j = Len(ran[s]) + 1
        BY <1>2, <2>2, <3>2
      <3> QED
        BY <1>3, <3>1, <3>2
    <2>3. CASE t = s /\ i = Len(ran[s]) + 1 /\ ran'[t][i] = r
      <3>1. n \in 1 .. Len(ready[t]) /\ ready[t][n] = c
        BY <1>3, <2>1, <2>3
      <3>2. CASE j \in 1 .. Len(ran[t]) /\ ran'[t][j] = ran[t][j]
        <4>1. ran[t][j] = Run(d)
          BY <2>1, <3>2
        <4> QED
          BY <2>1, <3>1, <3>2, <4>1, Zenon DEF OrderInv, RunsFirst
      <3>3. CASE j = Len(ran[s]) + 1
        <4>1. Run(c) = Run(d) /\ Run(c).id = c /\ Run(d).id = d
          BY <2>1, <2>3, <3>3 DEF Run
        <4>2. c = d
          BY <4>1
        <4> QED
          BY <2>1, <4>2 DEF Aligned, Before, Cont
      <3> QED
        BY <1>3, <3>2, <3>3
    <2> QED
      BY <1>3, <2>2, <2>3
  <1> QED
    BY <1>5, <1>6, <1>7, <1>8 DEF OrderInv

(* Every step keeps the order.                                             *)
LEMMA OrderNext ==
  ASSUME TypeInv, TypeInv', Kept, ChainInv, PlaceInv, OrderInv, [Next]_vars
  PROVE  OrderInv'
  <1>1. conts' = conts => Cont' = Cont
    BY DEF Cont
  <1>2. ASSUME UNCHANGED <<ready, ran, parcels>> PROVE OrderInv'
    <2>1. SentInOrder'
      BY <1>2, SentOrderStays
    <2>2. \A c : Sent(c)' <=> Sent(c)
      BY <1>2, SameSent
    <2> QED
      BY <1>2, <2>1, <2>2, OrderStays
  <1>3. ASSUME NEW s \in Region, RunNext(s) PROVE OrderInv'
    <2>1. PICK n, r : Runs(s, n, r)
      BY <1>3, RunSteps
    <2> QED
      BY <1>1, <2>1, RunOrder DEF Runs
  <1>4. ASSUME NEW s \in Region, NEW p \in Promise, NEW how \in Settlement, Settle(s, p, how) PROVE OrderInv'
    BY <1>1, <1>4, SettleOrder DEF Settle
  <1>5. ASSUME NEW k \in 1 .. Len(parcels), Accept(k) PROVE OrderInv'
    BY <1>1, <1>5, AcceptOrder DEF Accept
  <1>6. ASSUME NEW s \in Region, NEW p \in Promise, Park(s, p) PROVE OrderInv'
    BY <1>6, ParkOrder
  <1>7. (\E s \in Region : Create(s)) => UNCHANGED <<ready, ran, parcels>>
    BY DEF Create
  <1>8. (\E s \in Region : ScheduleTask(s) \/ \E c \in Cont : Cancel(s, c)) => UNCHANGED <<ready, ran, parcels>>
    BY DEF ScheduleTask, Cancel
  <1>9. (\E p, q \in Promise : AdoptPending(p, q)) => UNCHANGED <<ready, ran, parcels>>
    BY DEF AdoptPending
  <1>10. (\E p, q \in Promise : AdoptSettled(p, q)) => UNCHANGED <<ready, ran, parcels>>
    BY DEF AdoptSettled
  <1>11. UNCHANGED vars => UNCHANGED <<ready, ran, parcels>>
    BY DEF vars
  <1> QED
    BY <1>2, <1>3, <1>4, <1>5, <1>6, <1>7, <1>8, <1>9, <1>10, <1>11, Steps, Zenon

(* The order always holds.                                                 *)
LEMMA OrderAlways == Spec => []OrderInv
  <1>1. TypeInv /\ TypeInv' /\ Kept /\ ChainInv /\ PlaceInv /\ OrderInv /\ [Next]_vars => OrderInv'
    BY OrderNext
  <1>2. TypeInv /\ [Next]_vars => Kept
    BY TypeNext
  <1>3. Init => OrderInv
    <2>1. SUFFICES ASSUME Init PROVE OrderInv
      OBVIOUS
    <2>2. Cont = {}
      BY <2>1 DEF Init, Cont
    <2> QED
      BY <2>2 DEF OrderInv, SentInOrder, ReadyInOrder, RunsFirst, RanInOrder
  <1> QED
    BY <1>1, <1>2, <1>3, TypeAlways, ChainAlways, PlaceAlways, PTL DEF Spec

(***************************************************************************)
(* Frames parked on one promise run in the order they were parked, but for *)
(* those another region's settling sent (InParkingOrder): wherever they    *)
(* are parked from, however the promise settled, whatever was cancelled.   *)
(***************************************************************************)
THEOREM SchedKeepsOrder == Spec => []InParkingOrder
  <1>1. OrderInv => InParkingOrder
    <2>1. SUFFICES ASSUME OrderInv, NEW s \in Region, NEW c \in Cont, NEW d \in Cont, Aligned(c, d),
                          NEW i \in RanAt(s, c), NEW j \in RanAt(s, d)
                   PROVE  i < j
      BY DEF InParkingOrder, Aligned, Before
    <2>2. i \in 1 .. Len(ran[s]) /\ j \in 1 .. Len(ran[s]) /\ ran[s][i] = Run(c) /\ ran[s][j] = Run(d)
      BY DEF RanAt, Run
    <2> QED
      BY <2>1, <2>2, Zenon DEF OrderInv, RanInOrder
  <1> QED
    BY <1>1, OrderAlways, PTL
=============================================================================
