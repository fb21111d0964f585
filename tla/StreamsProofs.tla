---------------------------- MODULE StreamsProofs ----------------------------
(***************************************************************************)
(* Proofs of what module StreamsProperties states of node:stream: each     *)
(* step keeps each part of the invariant IInv of module StreamsLemmas.     *)
(***************************************************************************)
EXTENDS StreamsLemmas

-----------------------------------------------------------------------------
(***************************************************************************)
(* Chunks are placed once, and queues keep their order.                    *)
(***************************************************************************)
LEMMA WeighedStep ==
  ASSUME Typed, Owed, Weighed, Next
  PROVE  Weighed'
  <1>0. readable \in Reading /\ readable.buf \in Seq(Chunk) /\ readable.length \in Nat
    BY DEF Typed, Reading
  <1>1. ChunkFlow
    BY ChunksFlow
  <1>2. PICK q, L : q = readable.buf /\ L = readable.length /\ q \in Seq(Chunk) /\ L \in Nat /\ L = Total(q)
    BY <1>0 DEF Weighed
  <1>3. \A i \in 1 .. Len(q) : q[i] \in Chunk /\ q[i].size \in Nat
    BY <1>2, ChunkIs
  <1>4. CASE BufSame
    BY <1>4, <1>2 DEF BufSame, Bufs, Weighed
  <1>5. CASE BufTaken
    <2>1. PICK t : t = Tail(q) /\ t = readable'.buf /\ q # <<>>
      BY <1>2, <1>5 DEF BufTaken
    <2>2. Len(t) \in Nat /\ Len(q) = Len(t) + 1 /\ Head(q) = q[1] /\ \A i \in 1 .. Len(t) : t[i] = q[i + 1]
      BY <1>2, <2>1
    <2>3. /\ \A i \in 1 .. Len(q) : q[i].size \in Nat
          /\ \A i \in 1 .. Len(t) : t[i].size = q[i + 1].size
      BY <1>3, <2>2
    <2>4. Total(t) \in Nat /\ Total(q) = q[1].size + Total(t)
      BY <2>2, <2>3, TotalHead
    <2>5. readable'.length = IF L > q[1].size THEN L - q[1].size ELSE 0
      BY <1>2, <1>5, <2>2 DEF BufTaken
    <2>6. PICK T, h : T = Total(t) /\ h = q[1].size /\ T \in Nat /\ h \in Nat /\ L = h + T
      BY <1>2, <1>3, <2>2, <2>4
    <2>7. readable'.length = T
      BY <1>2, <2>5, <2>6
    <2> QED
      BY <2>1, <2>6, <2>7 DEF Weighed
  <1>6. CASE \E c \in Chunk : BufGrown(c)
    <2>1. PICK c \in Chunk : BufGrown(c)
      BY <1>6
    <2>2. PICK t : t = Append(q, c) /\ t = readable'.buf /\ readable'.length = L + c.size
      BY <1>2, <2>1 DEF BufGrown
    <2>3. c.size \in Nat
      BY ChunkIs
    <2>4. Len(t) = Len(q) + 1 /\ Len(q) \in Nat /\ t[Len(t)] = c /\ \A i \in 1 .. Len(q) : t[i] = q[i]
      <3>1. PICK S : S = Chunk /\ q \in Seq(S) /\ c \in S
        BY <1>2, <2>1
      <3>2. PICK n \in Nat : n = Len(q)
        BY <3>1
      <3>3. Len(t) = n + 1 /\ t[n + 1] = c /\ \A i \in 1 .. n : t[i] = q[i]
        <4>1. PICK u : u = Append(q, c)
          OBVIOUS
        <4>2. Len(u) = n + 1 /\ u[n + 1] = c /\ \A i \in 1 .. n : u[i] = q[i]
          BY <3>1, <3>2, <4>1
        <4>3. t = u
          BY <2>2, <4>1
        <4> QED
          BY <4>2, <4>3
      <3> QED
        BY <3>2, <3>3
    <2>5. /\ \A i \in 1 .. Len(t) : t[i].size \in Nat
          /\ \A i \in 1 .. Len(q) : q[i].size = t[i].size
      BY <1>3, <2>3, <2>4
    <2>6. Total(q) \in Nat /\ Total(t) = Total(q) + t[Len(t)].size
      BY <2>4, <2>5, TotalAppend
    <2> QED
      BY <1>2, <2>2, <2>4, <2>6 DEF Weighed
  <1> QED
    BY <1>1, <1>4, <1>5, <1>6 DEF ChunkFlow, Quiet, Take

LEMMA ToSetAppend ==
  ASSUME NEW S, NEW q \in Seq(S), NEW x \in S
  PROVE  ToSet(Append(q, x)) = ToSet(q) \cup {x} /\ Len(Append(q, x)) = Len(q) + 1 /\ Len(q) \in Nat
  <1>1. PICK n \in Nat : n = Len(q)
    OBVIOUS
  <1>2. PICK t : t = Append(q, x)
    OBVIOUS
  <1>3. Len(t) = n + 1 /\ t[n + 1] = x /\ DOMAIN t = 1 .. n + 1 /\ DOMAIN q = 1 .. n /\ \A i \in 1 .. n : t[i] = q[i]
    BY <1>1, <1>2
  <1>4. ToSet(t) = {t[i] : i \in 1 .. n + 1} /\ ToSet(q) = {q[i] : i \in 1 .. n}
    BY <1>3 DEF ToSet
  <1>5. ToSet(t) = ToSet(q) \cup {x}
    BY <1>3, <1>4
  <1> QED
    BY <1>1, <1>2, <1>3, <1>5

LEMMA IdsAppend ==
  ASSUME NEW S, NEW q \in Seq(S), NEW c \in S
  PROVE  Ids(Append(q, c)) = Ids(q) \cup {c.id} /\ Len(Append(q, c)) = Len(q) + 1 /\ Len(q) \in Nat
  <1>1. PICK n \in Nat : n = Len(q)
    OBVIOUS
  <1>2. PICK t : t = Append(q, c)
    OBVIOUS
  <1>3. Len(t) = n + 1 /\ t[n + 1] = c /\ DOMAIN t = 1 .. n + 1 /\ DOMAIN q = 1 .. n /\ \A i \in 1 .. n : t[i] = q[i]
    BY <1>1, <1>2
  <1>4. Ids(t) = {t[i].id : i \in 1 .. n + 1} /\ Ids(q) = {q[i].id : i \in 1 .. n}
    BY <1>3 DEF Ids
  <1>5. Ids(t) = Ids(q) \cup {c.id}
    BY <1>3, <1>4
  <1> QED
    BY <1>1, <1>2, <1>3, <1>5

LEMMA IdsTail ==
  ASSUME NEW S, NEW q \in Seq(S), q # <<>>
  PROVE  /\ Ids(q) = {Head(q).id} \cup Ids(Tail(q)) /\ Len(Tail(q)) = Len(q) - 1 /\ Len(q) \in Nat
         /\ Head(q) \in S /\ Tail(q) \in Seq(S)
  <1>1. PICK n \in Nat : n = Len(q) /\ n >= 1
    OBVIOUS
  <1>2. PICK t : t = Tail(q)
    OBVIOUS
  <1>3. Len(t) = n - 1 /\ Head(q) = q[1] /\ DOMAIN t = 1 .. n - 1 /\ DOMAIN q = 1 .. n /\ \A i \in 1 .. n - 1 : t[i] = q[i + 1]
    BY <1>1, <1>2
  <1>4. Ids(t) = {t[i].id : i \in 1 .. n - 1} /\ Ids(q) = {q[i].id : i \in 1 .. n}
    BY <1>3 DEF Ids
  <1>5. ASSUME NEW j \in 1 .. n, j # 1 PROVE j - 1 \in 1 .. n - 1 /\ t[j - 1] = q[j]
    BY <1>1, <1>3, <1>5
  <1>6. Ids(q) = {q[1].id} \cup Ids(t)
    BY <1>1, <1>3, <1>4, <1>5
  <1> QED
    BY <1>1, <1>2, <1>3, <1>6

LEMMA PlacedStep ==
  ASSUME Typed, Owed, Placed, Next
  PROVE  Placed'
  <1>0. /\ readable.buf \in Seq(Chunk) /\ accepted \subseteq 1 .. made /\ made \in Nat
        /\ got \in Seq(1 .. made)
    BY DEF Typed, Reading, Noted
  <1>1. ChunkFlow
    BY ChunksFlow
  <1>2. PICK H, N, q, g : /\ H = Chunks(stack, Hand) /\ N = InHand(stack) /\ q = readable.buf /\ g = got
                          /\ q \in Seq(Chunk) /\ g \in Seq(1 .. made) /\ N \in Nat
    <2>1. InHand(stack) \in Nat
      BY TopIs, Finite DEF InHand
    <2> QED
      BY <1>0, <2>1
  <1>3. accepted = ToSet(g) \cup Ids(q) \cup H /\ Cardinality(accepted) = Len(g) + Len(q) + N
    BY <1>2 DEF Placed, InHand
  <1>4. PICK G, Q, A : /\ G = Len(g) /\ Q = Len(q) /\ A = Cardinality(accepted)
                       /\ G \in Nat /\ Q \in Nat /\ N \in Nat /\ A = G + Q + N
    <2>1. Len(g) \in Nat /\ Len(q) \in Nat
      BY <1>2
    <2>2. PICK G, Q, A : G = Len(g) /\ Q = Len(q) /\ A = Cardinality(accepted)
      OBVIOUS
    <2>3. A = G + Q + N
      BY <1>3, <2>2
    <2> QED
      BY <1>2, <2>1, <2>2, <2>3
  <1>5. PICK H2, N2 : H2 = Chunks(stack', Hand) /\ N2 = InHand(stack')
    OBVIOUS
  <1>6. SUFFICES /\ accepted' = ToSet(got') \cup Ids(readable'.buf) \cup H2
                 /\ Cardinality(accepted') = Len(got') + Len(readable'.buf) + N2
    BY <1>5, Zenon DEF Placed, InHand
  <1>7. HandSame => H2 = H /\ N2 = N
    BY <1>2, <1>5 DEF HandSame
  <1>8. \A id : /\ HandMore(id) => H2 = H \cup {id} /\ N2 = N + 1
                /\ HandLess(id) => H = H2 \cup {id} /\ N2 = N - 1
    BY <1>2, <1>5 DEF HandMore, HandLess
  <1>9. \A x \in 1 .. made : /\ ToSet(Append(g, x)) = ToSet(g) \cup {x}
                             /\ Len(Append(g, x)) = Len(g) + 1
    <2>1. PICK S : S = 1 .. made /\ g \in Seq(S)
      BY <1>2
    <2>2. ASSUME NEW x \in S PROVE ToSet(Append(g, x)) = ToSet(g) \cup {x} /\ Len(Append(g, x)) = Len(g) + 1
      <3>1. g \in Seq(S)
        BY <2>1
      <3>2. x \in S
        BY <2>2
      <3> QED
        BY ONLY <3>1, <3>2, ToSetAppend
    <2> QED
      BY <2>1, <2>2
  <1>10. CASE Quiet /\ HandSame
    BY <1>2, <1>3, <1>7, <1>10 DEF Quiet, BufSame, Bufs
  <1>11. BufTaken => /\ q # <<>> /\ readable'.buf = Tail(q) /\ Head(q).id \in 1 .. made
                     /\ Ids(q) = {Head(q).id} \cup Ids(Tail(q)) /\ Len(Tail(q)) = Len(q) - 1
    <2>1. ASSUME BufTaken PROVE q # <<>> /\ readable'.buf = Tail(q)
      BY <1>2, <2>1 DEF BufTaken
    <2>2. ASSUME BufTaken
          PROVE  /\ Ids(q) = {Head(q).id} \cup Ids(Tail(q)) /\ Len(Tail(q)) = Len(q) - 1
                 /\ Head(q) \in Chunk
      BY <1>2, <2>1, <2>2, IdsTail
    <2>3. Head(q) \in Chunk => Head(q).id \in 1 .. made
      BY ChunkIs
    <2> QED
      BY <2>1, <2>2, <2>3
  <1>12. CASE Take /\ HandSame
    <2>1. BufTaken /\ got' = Append(g, Head(q).id) /\ accepted' = accepted
      BY <1>2, <1>12 DEF Take
    <2>2. ToSet(got') = ToSet(g) \cup {Head(q).id} /\ Len(got') = Len(g) + 1
      BY <1>9, <1>11, <2>1
    <2>3. accepted' = ToSet(got') \cup Ids(readable'.buf) \cup H2
      BY <1>3, <1>7, <1>11, <1>12, <2>1, <2>2
    <2>4. Cardinality(accepted') = Len(got') + Len(readable'.buf) + N2
      <3>1. Cardinality(accepted') = A
        BY <1>2, <1>3, <1>4, <1>7, <1>11, <1>12, <2>1, <2>2
      <3>2. Len(got') = G + 1
        BY <1>2, <1>3, <1>4, <1>7, <1>11, <1>12, <2>1, <2>2
      <3>3. Len(readable'.buf) = Q - 1
        BY <1>2, <1>3, <1>4, <1>7, <1>11, <1>12, <2>1, <2>2
      <3>4. N2 = N
        BY <1>2, <1>3, <1>4, <1>7, <1>11, <1>12, <2>1, <2>2
      <3> QED
        BY <1>4, <3>1, <3>2, <3>3, <3>4
    <2> QED
      BY <2>3, <2>4
  <1>13. Accepts => /\ Cardinality(accepted') = Cardinality(accepted) + 1
                    /\ accepted' = accepted \cup {made + 1} /\ Cardinality(accepted) \in Nat
    <2>1. PICK m \in Nat : m = made
      BY <1>0
    <2>2. IsFiniteSet(1 .. m)
      BY FS_Interval
    <2>3. IsFiniteSet(accepted)
      BY <1>0, <2>1, <2>2, FS_Subset
    <2>4. m + 1 \notin accepted
      BY <1>0, <2>1
    <2> QED
      BY <2>1, <2>3, <2>4, FS_AddElement, FS_CardinalityType DEF Accepts
  <1>14. CASE BufSame /\ Accepts /\ got' = Append(got, made + 1) /\ HandSame
    <2>1. PICK S, x : S = 1 .. made + 1 /\ x = made + 1 /\ x \in S /\ g \in Seq(S)
      <3>1. made + 1 \in 1 .. made + 1 /\ g \in Seq(1 .. made + 1)
        BY <1>0, <1>2
      <3> QED
        BY <3>1
    <2>2. ToSet(got') = ToSet(g) \cup {x} /\ Len(got') = Len(g) + 1
      BY <1>2, <1>14, <2>1, ToSetAppend
    <2>3. readable'.buf = q
      BY <1>2, <1>14 DEF BufSame, Bufs
    <2>4. accepted' = ToSet(got') \cup Ids(readable'.buf) \cup H2
      BY <1>3, <1>7, <1>13, <1>14, <2>1, <2>2, <2>3
    <2>5. Cardinality(accepted') = Len(got') + Len(readable'.buf) + N2
      <3>1. Cardinality(accepted') = A + 1
        BY <1>2, <1>3, <1>4, <1>7, <1>13, <1>14, <2>2, <2>3
      <3>2. Len(got') = G + 1
        BY <1>2, <1>3, <1>4, <1>7, <1>13, <1>14, <2>2, <2>3
      <3>3. Len(readable'.buf) = Q
        BY <1>2, <1>3, <1>4, <1>7, <1>13, <1>14, <2>2, <2>3
      <3>4. N2 = N
        BY <1>2, <1>3, <1>4, <1>7, <1>13, <1>14, <2>2, <2>3
      <3> QED
        BY <1>4, <3>1, <3>2, <3>3, <3>4
    <2> QED
      BY <2>4, <2>5
  <1>15. CASE BufSame /\ Accepts /\ UNCHANGED got /\ HandMore(made + 1)
    <2>1. readable'.buf = q /\ got' = g
      BY <1>2, <1>15 DEF BufSame, Bufs
    <2>2. H2 = H \cup {made + 1} /\ N2 = N + 1
      BY <1>8, <1>15
    <2>3. accepted' = ToSet(got') \cup Ids(readable'.buf) \cup H2
      BY <1>3, <1>13, <1>15, <2>1, <2>2
    <2>4. Cardinality(accepted') = Len(got') + Len(readable'.buf) + N2
      <3>1. Cardinality(accepted') = A + 1
        BY <1>2, <1>3, <1>4, <1>13, <1>15, <2>1, <2>2
      <3>2. Len(got') = G
        BY <1>2, <1>3, <1>4, <1>13, <1>15, <2>1, <2>2
      <3>3. Len(readable'.buf) = Q
        BY <1>2, <1>3, <1>4, <1>13, <1>15, <2>1, <2>2
      <3>4. N2 = N + 1
        BY <1>2, <1>3, <1>4, <1>13, <1>15, <2>1, <2>2
      <3> QED
        BY <1>4, <3>1, <3>2, <3>3, <3>4
    <2> QED
      BY <2>3, <2>4
  <1>16. CASE \E c \in Chunk : BufGrown(c) /\ UNCHANGED <<got, accepted>> /\ HandLess(c.id)
    <2>1. PICK c \in Chunk : BufGrown(c) /\ UNCHANGED <<got, accepted>> /\ HandLess(c.id)
      BY <1>16
    <2>2. readable'.buf = Append(q, c) /\ got' = g /\ accepted' = accepted
      BY <1>2, <2>1 DEF BufGrown
    <2>3. H = H2 \cup {c.id} /\ N2 = N - 1
      BY <1>8, <2>1
    <2>4. Ids(Append(q, c)) = Ids(q) \cup {c.id} /\ Len(Append(q, c)) = Len(q) + 1
      BY <1>2, IdsAppend
    <2>5. accepted' = ToSet(got') \cup Ids(readable'.buf) \cup H2
      BY <1>3, <2>2, <2>3, <2>4
    <2>6. Cardinality(accepted') = Len(got') + Len(readable'.buf) + N2
      <3>1. Cardinality(accepted') = A
        BY <1>2, <1>3, <1>4, <2>2, <2>3, <2>4
      <3>2. Len(got') = G
        BY <1>2, <1>3, <1>4, <2>2, <2>3, <2>4
      <3>3. Len(readable'.buf) = Q + 1
        BY <1>2, <1>3, <1>4, <2>2, <2>3, <2>4
      <3>4. N2 = N - 1
        BY <1>2, <1>3, <1>4, <2>2, <2>3, <2>4
      <3> QED
        BY <1>4, <3>1, <3>2, <3>3, <3>4
    <2> QED
      BY <2>5, <2>6
  <1>17. CASE BufTaken /\ UNCHANGED <<got, accepted>> /\ HandMore(Head(readable.buf).id)
    <2>1. H2 = H \cup {Head(q).id} /\ N2 = N + 1
      BY <1>2, <1>8, <1>17
    <2>2. accepted' = ToSet(got') \cup Ids(readable'.buf) \cup H2
      BY <1>2, <1>3, <1>11, <1>17, <2>1
    <2>3. Cardinality(accepted') = Len(got') + Len(readable'.buf) + N2
      <3>1. Cardinality(accepted') = A
        BY <1>2, <1>3, <1>4, <1>11, <1>17, <2>1
      <3>2. Len(got') = G
        BY <1>2, <1>3, <1>4, <1>11, <1>17, <2>1
      <3>3. Len(readable'.buf) = Q - 1
        BY <1>2, <1>3, <1>4, <1>11, <1>17, <2>1
      <3>4. N2 = N + 1
        BY <1>2, <1>3, <1>4, <1>11, <1>17, <2>1
      <3> QED
        BY <1>4, <3>1, <3>2, <3>3, <3>4
    <2> QED
      BY <2>2, <2>3
  <1>18. CASE \E c \in Chunk : BufSame /\ UNCHANGED accepted /\ got' = Append(got, c.id) /\ HandLess(c.id)
    <2>1. PICK c \in Chunk : BufSame /\ UNCHANGED accepted /\ got' = Append(got, c.id) /\ HandLess(c.id)
      BY <1>18
    <2>2. H = H2 \cup {c.id} /\ N2 = N - 1
      BY <1>8, <2>1
    <2>3. c.id \in 1 .. made
      BY ChunkIs
    <2>4. ToSet(got') = ToSet(g) \cup {c.id} /\ Len(got') = Len(g) + 1
      BY <1>2, <1>9, <2>1, <2>3
    <2>5. readable'.buf = q /\ accepted' = accepted
      BY <1>2, <2>1 DEF BufSame, Bufs
    <2>6. accepted' = ToSet(got') \cup Ids(readable'.buf) \cup H2
      BY <1>3, <2>2, <2>4, <2>5
    <2>7. Cardinality(accepted') = Len(got') + Len(readable'.buf) + N2
      <3>1. Cardinality(accepted') = A
        BY <1>2, <1>3, <1>4, <2>2, <2>4, <2>5
      <3>2. Len(got') = G + 1
        BY <1>2, <1>3, <1>4, <2>2, <2>4, <2>5
      <3>3. Len(readable'.buf) = Q
        BY <1>2, <1>3, <1>4, <2>2, <2>4, <2>5
      <3>4. N2 = N - 1
        BY <1>2, <1>3, <1>4, <2>2, <2>4, <2>5
      <3> QED
        BY <1>4, <3>1, <3>2, <3>3, <3>4
    <2> QED
      BY <2>6, <2>7
  <1> QED
    BY <1>1, <1>10, <1>12, <1>14, <1>15, <1>16, <1>17, <1>18, Zenon DEF ChunkFlow

-----------------------------------------------------------------------------
(***************************************************************************)
(* The Writables: what each step leaves of them.                           *)
(***************************************************************************)
Fields(v, q, n, e, f, c) ==
  v.queue = q /\ v.length = n /\ v.ended = e /\ v.finished = f /\ v.corked = c

LEMMA WritableFields ==
  ASSUME Typed, NEW x \in Dsts, NEW d \in Dsts, NEW w, w = writable[d]
  PROVE  /\ \A n, k : writable' = [writable EXCEPT ![x].length = n, ![x].callbacks = k] =>
              Fields(writable'[d], w.queue, IF d = x THEN n ELSE w.length, w.ended, w.finished, w.corked)
         /\ \A b : writable' = [writable EXCEPT ![x].needDrain = b] =>
              Fields(writable'[d], w.queue, w.length, w.ended, w.finished, w.corked)
         /\ \A b : writable' = [writable EXCEPT ![x].finalCalled = b] =>
              Fields(writable'[d], w.queue, w.length, w.ended, w.finished, w.corked)
         /\ \A b : writable' = [writable EXCEPT ![x].ended = b] =>
              Fields(writable'[d], w.queue, w.length, IF d = x THEN b ELSE w.ended, w.finished, w.corked)
         /\ \A b : writable' = [writable EXCEPT ![x].finished = b] =>
              Fields(writable'[d], w.queue, w.length, w.ended, IF d = x THEN b ELSE w.finished, w.corked)
         /\ \A q : writable' = [writable EXCEPT ![x].queue = q] =>
              Fields(writable'[d], IF d = x THEN q ELSE w.queue, w.length, w.ended, w.finished, w.corked)
         /\ \A k : writable' = [writable EXCEPT ![x].corked = k] =>
              Fields(writable'[d], w.queue, w.length, w.ended, w.finished, IF d = x THEN k ELSE w.corked)
         /\ \A q, n, b, k : writable' = [writable EXCEPT ![x].queue = q, ![x].length = n, ![x].needDrain = b, ![x].callbacks = k] =>
              Fields(writable'[d], IF d = x THEN q ELSE w.queue, IF d = x THEN n ELSE w.length, w.ended, w.finished, w.corked)
  <1>0. w \in Writing /\ writable \in [Dsts -> Writing] /\ w = writable[d]
    BY DEF Typed
  <1>1. ASSUME NEW n, NEW k, writable' = [writable EXCEPT ![x].length = n, ![x].callbacks = k]
        PROVE  Fields(writable'[d], w.queue, IF d = x THEN n ELSE w.length, w.ended, w.finished, w.corked)
    <2>1. writable'[d] = IF d = x THEN [w EXCEPT !.length = n, !.callbacks = k] ELSE w
      BY <1>0, <1>1, Zenon
    <2>2. PICK u : u = [w EXCEPT !.length = n, !.callbacks = k]
      OBVIOUS
    <2>3. Fields(u, w.queue, n, w.ended, w.finished, w.corked)
      BY <1>0, <2>2 DEF Writing, Fields
    <2> QED
      BY <2>1, <2>2, <2>3 DEF Fields
  <1>2. ASSUME NEW b, writable' = [writable EXCEPT ![x].needDrain = b]
        PROVE  Fields(writable'[d], w.queue, w.length, w.ended, w.finished, w.corked)
    <2>1. writable'[d] = IF d = x THEN [w EXCEPT !.needDrain = b] ELSE w
      BY <1>0, <1>2, Zenon
    <2>2. PICK u : u = [w EXCEPT !.needDrain = b]
      OBVIOUS
    <2>3. Fields(u, w.queue, w.length, w.ended, w.finished, w.corked)
      BY <1>0, <2>2 DEF Writing, Fields
    <2> QED
      BY <2>1, <2>2, <2>3 DEF Fields
  <1>3. ASSUME NEW b, writable' = [writable EXCEPT ![x].finalCalled = b]
        PROVE  Fields(writable'[d], w.queue, w.length, w.ended, w.finished, w.corked)
    <2>1. writable'[d] = IF d = x THEN [w EXCEPT !.finalCalled = b] ELSE w
      BY <1>0, <1>3, Zenon
    <2>2. PICK u : u = [w EXCEPT !.finalCalled = b]
      OBVIOUS
    <2>3. Fields(u, w.queue, w.length, w.ended, w.finished, w.corked)
      BY <1>0, <2>2 DEF Writing, Fields
    <2> QED
      BY <2>1, <2>2, <2>3 DEF Fields
  <1>4. ASSUME NEW b, writable' = [writable EXCEPT ![x].ended = b]
        PROVE  Fields(writable'[d], w.queue, w.length, IF d = x THEN b ELSE w.ended, w.finished, w.corked)
    <2>1. writable'[d] = IF d = x THEN [w EXCEPT !.ended = b] ELSE w
      BY <1>0, <1>4, Zenon
    <2>2. PICK u : u = [w EXCEPT !.ended = b]
      OBVIOUS
    <2>3. Fields(u, w.queue, w.length, b, w.finished, w.corked)
      BY <1>0, <2>2 DEF Writing, Fields
    <2> QED
      BY <2>1, <2>2, <2>3 DEF Fields
  <1>5. ASSUME NEW b, writable' = [writable EXCEPT ![x].finished = b]
        PROVE  Fields(writable'[d], w.queue, w.length, w.ended, IF d = x THEN b ELSE w.finished, w.corked)
    <2>1. writable'[d] = IF d = x THEN [w EXCEPT !.finished = b] ELSE w
      BY <1>0, <1>5, Zenon
    <2>2. PICK u : u = [w EXCEPT !.finished = b]
      OBVIOUS
    <2>3. Fields(u, w.queue, w.length, w.ended, b, w.corked)
      BY <1>0, <2>2 DEF Writing, Fields
    <2> QED
      BY <2>1, <2>2, <2>3 DEF Fields
  <1>6. ASSUME NEW q, writable' = [writable EXCEPT ![x].queue = q]
        PROVE  Fields(writable'[d], IF d = x THEN q ELSE w.queue, w.length, w.ended, w.finished, w.corked)
    <2>1. writable'[d] = IF d = x THEN [w EXCEPT !.queue = q] ELSE w
      BY <1>0, <1>6, Zenon
    <2>2. PICK u : u = [w EXCEPT !.queue = q]
      OBVIOUS
    <2>3. Fields(u, q, w.length, w.ended, w.finished, w.corked)
      BY <1>0, <2>2 DEF Writing, Fields
    <2> QED
      BY <2>1, <2>2, <2>3 DEF Fields
  <1>7. ASSUME NEW k, writable' = [writable EXCEPT ![x].corked = k]
        PROVE  Fields(writable'[d], w.queue, w.length, w.ended, w.finished, IF d = x THEN k ELSE w.corked)
    <2>1. writable'[d] = IF d = x THEN [w EXCEPT !.corked = k] ELSE w
      BY <1>0, <1>7, Zenon
    <2>2. PICK u : u = [w EXCEPT !.corked = k]
      OBVIOUS
    <2>3. Fields(u, w.queue, w.length, w.ended, w.finished, k)
      BY <1>0, <2>2 DEF Writing, Fields
    <2> QED
      BY <2>1, <2>2, <2>3 DEF Fields
  <1>8. ASSUME NEW q, NEW n, NEW b, NEW k, writable' = [writable EXCEPT ![x].queue = q, ![x].length = n, ![x].needDrain = b, ![x].callbacks = k]
        PROVE  Fields(writable'[d], IF d = x THEN q ELSE w.queue, IF d = x THEN n ELSE w.length, w.ended, w.finished, w.corked)
    <2>1. writable'[d] = IF d = x THEN [w EXCEPT !.queue = q, !.length = n, !.needDrain = b, !.callbacks = k] ELSE w
      BY <1>0, <1>8, Zenon
    <2>2. PICK u : u = [w EXCEPT !.queue = q, !.length = n, !.needDrain = b, !.callbacks = k]
      OBVIOUS
    <2>3. Fields(u, q, n, w.ended, w.finished, w.corked)
      BY <1>0, <2>2 DEF Writing, Fields
    <2> QED
      BY <2>1, <2>2, <2>3 DEF Fields
  <1> QED
    BY <1>1, <1>2, <1>3, <1>4, <1>5, <1>6, <1>7, <1>8, Zenon

Kept(d) ==
  LET v == writable'[d]
      w == writable[d] IN
  /\ WriteStarts \/ Dispatch \/ v.queue = w.queue
  /\ WriteStarts \/ FinalizeShrinks \/ v.length = w.length
  /\ EndSets \/ v.ended = w.ended
  /\ Finish \/ v.finished = w.finished
  /\ Cork \/ Uncork \/ v.corked = w.corked

LEMMA WritersKept ==
  ASSUME Typed, Owed, Next
  PROVE  \A d \in Dsts : Kept(d)
  <1>1. CASE UNCHANGED writable
    BY <1>1 DEF Kept
  <1>2. CASE WriteStarts
    <2>1. CASE UNCHANGED writable
      BY <1>1, <2>1
    <2>2. CASE ~UNCHANGED writable
      <3>1. PICK b, k : writable' = [writable EXCEPT ![Top.dst].queue = Append(@, Top.chunk),
                       ![Top.dst].length = @ + Top.chunk.size, ![Top.dst].needDrain = b,
                       ![Top.dst].callbacks = k]
        BY <1>2, <2>2, WriteStartsTyped, Zenon
      <3>2. PICK x, q, n : x \in Dsts /\ writable' = [writable EXCEPT ![x].queue = q, ![x].length = n,
                                             ![x].needDrain = b, ![x].callbacks = k]
        <4>1. Top.dst \in Dsts
          BY <1>2, WriteStartsTyped
        <4>2. \E q, n : writable' = [writable EXCEPT ![Top.dst].queue = q, ![Top.dst].length = n,
                                             ![Top.dst].needDrain = b, ![Top.dst].callbacks = k]
          BY <3>1
        <4> QED
          BY <4>1, <4>2, Zenon
      <3>3. ASSUME NEW d \in Dsts PROVE Kept(d)
        <4>1. PICK w : w = writable[d]
          OBVIOUS
        <4>2. Fields(writable'[d], IF d = x THEN q ELSE w.queue, IF d = x THEN n ELSE w.length, w.ended, w.finished, w.corked)
          BY <3>2, <4>1, WritableFields, Zenon
        <4> QED
          BY <1>2, <4>1, <4>2 DEF Kept, Fields
      <3> QED
        BY <3>3
    <2> QED
      BY <2>1, <2>2
  <1>3. CASE Dispatch
    <2>1. PICK x \in Dsts : \E q : writable' = [writable EXCEPT ![x].queue = q]
      BY <1>3, DispatchTyped, Zenon DEF Dispatch
    <2>2. PICK q : writable' = [writable EXCEPT ![x].queue = q]
      BY <2>1
    <2>3. ASSUME NEW d \in Dsts PROVE Kept(d)
      <3>1. PICK w : w = writable[d]
        OBVIOUS
      <3>2. Fields(writable'[d], IF d = x THEN q ELSE w.queue, w.length, w.ended, w.finished, w.corked)
        BY <2>2, <3>1, WritableFields, Zenon
      <3> QED
        BY <1>3, <3>1, <3>2 DEF Kept, Fields
    <2> QED
      BY <2>3
  <1>4. CASE FinalizeShrinks
    <2>1. PICK x \in Dsts : \E n, k : writable' = [writable EXCEPT ![x].length = n, ![x].callbacks = k]
      BY <1>4, ShrinksTyped, Zenon
    <2>2. PICK n, k : writable' = [writable EXCEPT ![x].length = n, ![x].callbacks = k]
      BY <2>1
    <2>3. ASSUME NEW d \in Dsts PROVE Kept(d)
      <3>1. PICK w : w = writable[d]
        OBVIOUS
      <3>2. Fields(writable'[d], w.queue, IF d = x THEN n ELSE w.length, w.ended, w.finished, w.corked)
        BY <2>2, <3>1, WritableFields, Zenon
      <3> QED
        BY <1>4, <3>1, <3>2 DEF Kept, Fields
    <2> QED
      BY <2>3
  <1>5. CASE FinalizeDrains
    <2>1. PICK x \in Dsts : \E b : writable' = [writable EXCEPT ![x].needDrain = b]
      BY <1>5, DrainsTyped, Zenon
    <2>2. PICK b : writable' = [writable EXCEPT ![x].needDrain = b]
      BY <2>1
    <2>3. ASSUME NEW d \in Dsts PROVE Kept(d)
      <3>1. PICK w : w = writable[d]
        OBVIOUS
      <3>2. Fields(writable'[d], w.queue, w.length, w.ended, w.finished, w.corked)
        BY <2>2, <3>1, WritableFields, Zenon
      <3> QED
        BY <1>5, <3>1, <3>2 DEF Kept, Fields
    <2> QED
      BY <2>3
  <1>6. CASE EndSets
    <2>1. PICK x \in Dsts : \E b : writable' = [writable EXCEPT ![x].ended = b]
      BY <1>6, EndSetsTyped, Zenon
    <2>2. PICK b : writable' = [writable EXCEPT ![x].ended = b]
      BY <2>1
    <2>3. ASSUME NEW d \in Dsts PROVE Kept(d)
      <3>1. PICK w : w = writable[d]
        OBVIOUS
      <3>2. Fields(writable'[d], w.queue, w.length, IF d = x THEN b ELSE w.ended, w.finished, w.corked)
        BY <2>2, <3>1, WritableFields, Zenon
      <3> QED
        BY <1>6, <3>1, <3>2 DEF Kept, Fields
    <2> QED
      BY <2>3
  <1>7. CASE MaybeFinishes /\ ~UNCHANGED writable
    <2>1. PICK x \in Dsts : \E b : writable' = [writable EXCEPT ![x].finalCalled = b]
      BY <1>7, MaybeFinishesTyped, Zenon
    <2>2. PICK b : writable' = [writable EXCEPT ![x].finalCalled = b]
      BY <2>1
    <2>3. ASSUME NEW d \in Dsts PROVE Kept(d)
      <3>1. PICK w : w = writable[d]
        OBVIOUS
      <3>2. Fields(writable'[d], w.queue, w.length, w.ended, w.finished, w.corked)
        BY <2>2, <3>1, WritableFields, Zenon
      <3> QED
        BY <1>7, <3>1, <3>2 DEF Kept, Fields
    <2> QED
      BY <2>3
  <1>8. CASE Finish
    <2>1. PICK x \in Dsts : \E b : writable' = [writable EXCEPT ![x].finished = b]
      BY <1>8, FinishTyped, Zenon
    <2>2. PICK b : writable' = [writable EXCEPT ![x].finished = b]
      BY <2>1
    <2>3. ASSUME NEW d \in Dsts PROVE Kept(d)
      <3>1. PICK w : w = writable[d]
        OBVIOUS
      <3>2. Fields(writable'[d], w.queue, w.length, w.ended, IF d = x THEN b ELSE w.finished, w.corked)
        BY <2>2, <3>1, WritableFields, Zenon
      <3> QED
        BY <1>8, <3>1, <3>2 DEF Kept, Fields
    <2> QED
      BY <2>3
  <1>9. CASE Cork \/ Uncork
    <2>1. PICK x \in Dsts : \E k : writable' = [writable EXCEPT ![x].corked = k]
      BY <1>9, Zenon DEF Cork, Uncork, Mine
    <2>2. PICK k : writable' = [writable EXCEPT ![x].corked = k]
      BY <2>1
    <2>3. ASSUME NEW d \in Dsts PROVE Kept(d)
      <3>1. PICK w : w = writable[d]
        OBVIOUS
      <3>2. Fields(writable'[d], w.queue, w.length, w.ended, w.finished, IF d = x THEN k ELSE w.corked)
        BY <2>2, <3>1, WritableFields, Zenon
      <3> QED
        BY <1>9, <3>1, <3>2 DEF Kept, Fields
    <2> QED
      BY <2>3
  <1>10. CASE QueueDrained \/ Completing \/ CodeEnds \/ Writes \/ Ends \/ Reads
    <2>1. UNCHANGED writable
      BY <1>10, ReadsKeep, Zenon DEF QueueDrained, Completing, Completes, CompletesLater, CodeEnds, Writes, Ends
    <2> QED
      BY <1>1, <2>1
  <1> QED
    BY NextParts, <1>1, <1>2, <1>3, <1>4, <1>5, <1>6, <1>7, <1>8, <1>9, <1>10 DEF Wrote, Asks

LEMMA IdsOfSeq ==
  ASSUME Typed, NEW q \in Seq(Chunk)
  PROVE  /\ IdsOf(q) \in Seq(Nat) /\ Len(IdsOf(q)) = Len(q) /\ Len(q) \in Nat
         /\ \A i \in 1 .. Len(q) : IdsOf(q)[i] = q[i].id /\ q[i].id \in Nat
  <1>1. PICK n \in Nat : n = Len(q) /\ DOMAIN q = 1 .. n
    OBVIOUS
  <1>2. \A i \in 1 .. n : q[i] \in Chunk
    BY <1>1
  <1>3. \A i \in 1 .. n : q[i].id \in Nat
    BY <1>2, ChunkIs
  <1>4. PICK t : t = IdsOf(q)
    OBVIOUS
  <1>5. t = [i \in 1 .. n |-> q[i].id]
    BY <1>1, <1>4 DEF IdsOf
  <1>6. t \in [1 .. n -> Nat] /\ \A i \in 1 .. n : t[i] = q[i].id
    BY <1>3, <1>5
  <1>7. t \in Seq(Nat) /\ Len(t) = n
    BY <1>1, <1>6
  <1> QED
    BY <1>1, <1>3, <1>4, <1>6, <1>7

LEMMA ConcatMore ==
  ASSUME NEW a \in Seq(Nat), NEW u \in Seq(Nat), NEW k \in Nat
  PROVE  a \o Append(u, k) = Append(a \o u, k)
  <1>1. PICK e : e = <<k>> /\ e \in Seq(Nat)
    <2>1. <<k>> \in Seq(Nat)
      OBVIOUS
    <2> QED
      BY <2>1, Zenon
  <1>2. PICK x \in Seq(Nat) : x = a \o u
    BY ConcatProperties
  <1>3. Append(u, k) = u \o e /\ Append(x, k) = x \o e
    BY <1>1, AppendIsConcat
  <1>4. (a \o u) \o e = a \o (u \o e)
    BY <1>1, ConcatAssociative
  <1> QED
    BY <1>2, <1>3, <1>4

LEMMA ConcatLess ==
  ASSUME NEW a \in Seq(Nat), NEW u \in Seq(Nat), u # <<>>
  PROVE  a \o u = Append(a, Head(u)) \o Tail(u)
  <1>1. PICK k \in Nat, t \in Seq(Nat) : k = Head(u) /\ t = Tail(u)
    BY HeadTailProperties
  <1>2. PICK e : e = <<k>> /\ e \in Seq(Nat) /\ Len(e) = 1 /\ e[1] = k
    <2>1. <<k>> \in Seq(Nat)
      OBVIOUS
    <2>2. Len(<<k>>) = 1 /\ <<k>>[1] = k
      OBVIOUS
    <2> QED
      BY <2>1, <2>2, Zenon
  <1>3. PICK n \in Nat : n = Len(t) /\ Len(u) = n + 1 /\ u[1] = k /\ \A i \in 1 .. n : t[i] = u[i + 1]
    <2>1. PICK n \in Nat : n = Len(t)
      BY LenProperties
    <2>2. Len(t) = Len(u) - 1 /\ \A i \in 1 .. Len(t) : t[i] = u[i + 1]
      BY <1>1, HeadTailProperties
    <2>3. Len(u) \in Nat
      BY LenProperties
    <2>4. u[1] = k
      BY <1>1
    <2>5. Len(u) = n + 1
      BY <2>1, <2>2, <2>3
    <2>6. \A i \in 1 .. n : t[i] = u[i + 1]
      BY <2>1, <2>2
    <2> QED
      BY <2>1, <2>4, <2>5, <2>6, Zenon
  <1>4. PICK y : y = e \o t
    OBVIOUS
  <1>5. y \in Seq(Nat) /\ Len(y) = 1 + n /\ \A i \in 1 .. 1 + n : y[i] = IF i <= 1 THEN e[i] ELSE t[i - 1]
    BY <1>1, <1>2, <1>3, <1>4, ConcatProperties
  <1>6. ASSUME NEW i \in 1 .. 1 + n PROVE y[i] = u[i]
    <2>1. CASE i = 1
      BY <1>2, <1>3, <1>5, <2>1
    <2>2. CASE i # 1
      <3>1. i - 1 \in 1 .. n /\ (i - 1) + 1 = i
        BY <1>3, <2>2
      <3>2. ~(i <= 1)
        BY <1>3, <2>2
      <3>3. y[i] = t[i - 1]
        BY <1>5, <3>2
      <3>4. t[i - 1] = u[(i - 1) + 1]
        BY <1>3, <3>1
      <3> QED
        BY <3>1, <3>3, <3>4
    <2> QED
      BY <2>1, <2>2
  <1>7. y = u
    <2>1. Len(y) = Len(u) /\ \A i \in 1 .. Len(y) : y[i] = u[i]
      BY <1>3, <1>5, <1>6
    <2> QED
      BY <1>5, <2>1, SeqEqual, Zenon
  <1>8. (a \o e) \o t = a \o (e \o t)
    <2>1. e \in Seq(Nat) /\ t \in Seq(Nat) /\ a \in Seq(Nat)
      BY <1>1, <1>2
    <2> QED
      BY ONLY <2>1, ConcatAssociative, SMTT(60)
  <1>9. Append(a, k) = a \o e
    BY <1>2, AppendIsConcat
  <1> QED
    BY <1>1, <1>4, <1>7, <1>8, <1>9

LEMMA OneMoreOffered ==
  ASSUME Typed, NEW q \in Seq(Chunk), NEW a \in Seq(Nat), NEW c \in Chunk
  PROVE  Append(a \o IdsOf(q), c.id) = a \o IdsOf(Append(q, c))
  <1>1. PICK t : t = Append(q, c) /\ t \in Seq(Chunk) /\ Len(t) = Len(q) + 1
    <2>1. PICK S : S = Chunk /\ q \in Seq(S) /\ c \in S
      OBVIOUS
    <2>2. Append(q, c) \in Seq(S) /\ Len(Append(q, c)) = Len(q) + 1
      BY <2>1
    <2> QED
      BY <2>1, <2>2
  <1>2. PICK n \in Nat : n = Len(q)
    OBVIOUS
  <1>3. t[n + 1] = c /\ \A i \in 1 .. n : t[i] = q[i]
    <2>1. PICK S : S = Chunk /\ q \in Seq(S) /\ c \in S
      OBVIOUS
    <2> QED
      BY <1>1, <1>2, <2>1, AppendProperties
  <1>4. PICK u, v, k : u = IdsOf(q) /\ v = IdsOf(t) /\ k = c.id /\ k \in Nat
    BY ChunkIs
  <1>5. /\ u \in Seq(Nat) /\ Len(u) = n /\ \A i \in 1 .. n : u[i] = q[i].id
        /\ v \in Seq(Nat) /\ Len(v) = n + 1 /\ \A i \in 1 .. n + 1 : v[i] = t[i].id
    BY <1>1, <1>2, <1>4, IdsOfSeq
  <1>6. PICK w : w = Append(u, k)
    OBVIOUS
  <1>7. w \in Seq(Nat) /\ Len(w) = n + 1 /\ w[n + 1] = k /\ \A i \in 1 .. n : w[i] = u[i]
    BY <1>4, <1>5, <1>6
  <1>8. \A i \in 1 .. n : i \in 1 .. n + 1
    BY <1>2
  <1>9. n + 1 \in 1 .. n + 1
    BY <1>2
  <1>10. ASSUME NEW i \in 1 .. n + 1 PROVE w[i] = v[i]
    <2>1. CASE i = n + 1
      BY <1>3, <1>4, <1>5, <1>7, <1>9, <2>1, Zenon
    <2>2. CASE i \in 1 .. n
      BY <1>3, <1>5, <1>7, <1>8, <2>2, Zenon
    <2> QED
      BY <1>2, <2>1, <2>2
  <1>11. w = v
    BY <1>5, <1>7, <1>10, SeqEqual
  <1>12. a \o Append(u, k) = Append(a \o u, k)
    BY <1>4, <1>5, ConcatMore, Zenon
  <1> QED
    BY <1>1, <1>4, <1>6, <1>11, <1>12, Zenon

LEMMA OneLessOffered ==
  ASSUME Typed, NEW q \in Seq(Chunk), NEW a \in Seq(Nat), q # <<>>
  PROVE  a \o IdsOf(q) = Append(a, Head(q).id) \o IdsOf(Tail(q))
  <1>1. PICK t : t = Tail(q) /\ t \in Seq(Chunk) /\ Len(q) # 0
    <2>1. PICK S : S = Chunk /\ q \in Seq(S)
      OBVIOUS
    <2> QED
      BY <2>1, HeadTailProperties, EmptySeq
  <1>2. PICK n \in Nat : n = Len(t)
    BY <1>1
  <1>3. Len(q) = n + 1 /\ Head(q) = q[1] /\ \A i \in 1 .. n : t[i] = q[i + 1]
    <2>1. PICK S : S = Chunk /\ q \in Seq(S)
      OBVIOUS
    <2> QED
      BY <1>1, <1>2, <2>1
  <1>4. PICK u, v, k : u = IdsOf(q) /\ v = IdsOf(t) /\ k = Head(q).id
    OBVIOUS
  <1>5. /\ u \in Seq(Nat) /\ Len(u) = n + 1 /\ \A i \in 1 .. n + 1 : u[i] = q[i].id
        /\ v \in Seq(Nat) /\ Len(v) = n /\ \A i \in 1 .. n : v[i] = t[i].id
    BY <1>1, <1>2, <1>3, <1>4, IdsOfSeq
  <1>6. u # <<>>
    BY <1>2, <1>5
  <1>7. PICK w : w = Tail(u)
    OBVIOUS
  <1>8. w \in Seq(Nat) /\ Len(w) = n /\ Head(u) = u[1] /\ \A i \in 1 .. n : w[i] = u[i + 1]
    BY <1>2, <1>5, <1>6, <1>7
  <1>9. ASSUME NEW i \in 1 .. n PROVE w[i] = v[i]
    <2>1. i + 1 \in 1 .. n + 1
      BY <1>2
    <2> QED
      BY <1>3, <1>5, <1>8, <2>1, Zenon
  <1>10. w = v
    BY <1>5, <1>8, <1>9, SeqEqual
  <1>11. Head(u) = k
    <2>1. 1 \in 1 .. n + 1
      BY <1>2
    <2> QED
      BY <1>3, <1>4, <1>5, <1>8, <2>1, Zenon
  <1>12. a \o u = Append(a, Head(u)) \o Tail(u)
    BY <1>5, <1>6, ConcatLess, Zenon
  <1> QED
    BY <1>1, <1>4, <1>7, <1>10, <1>11, <1>12, Zenon

LEMMA OfferedStep ==
  ASSUME Typed, Owed, Offered, Next
  PROVE  Offered'
  <1>0. \A d \in Dsts : /\ writable[d].queue \in Seq(Chunk) /\ offered[d] \in Seq(Nat)
                        /\ arrived[d] \in Seq(Nat) /\ offered[d] = arrived[d] \o IdsOf(writable[d].queue)
    BY DEF Typed, Writing, Noted, Offered
  <1>1. SUFFICES ASSUME NEW d \in Dsts
                 PROVE  offered'[d] = arrived'[d] \o IdsOf(writable'[d].queue)
    BY Zenon DEF Offered, IdsOf
  <1>2. Kept(d)
    BY WritersKept
  <1>3. PICK q, o, a : q = writable[d].queue /\ o = offered[d] /\ a = arrived[d]
    OBVIOUS
  <1>4. q \in Seq(Chunk) /\ o \in Seq(Nat) /\ a \in Seq(Nat) /\ o = a \o IdsOf(q)
    BY <1>0, <1>3
  <1>5. CASE ~(WriteStarts \/ Dispatch)
    <2>1. writable'[d].queue = q
      BY <1>2, <1>3, <1>5 DEF Kept
    <2>2. offered' = offered /\ arrived' = arrived
      <3>1. CASE Reads \/ Asks
        BY <3>1, ReadsKeep, AsksKeep
      <3>2. CASE Wrote
        <4>1. UNCHANGED writes
          BY <1>5, <3>2, Zenon DEF Wrote, QueueDrained, FinalizeShrinks, FinalizeDrains,
             EndSets, MaybeFinishes, Finish, Completing, Completes, CompletesLater, CodeEnds
        <4> QED
          BY <4>1 DEF writes
      <3> QED
        BY <3>1, <3>2, NextParts
    <2> QED
      BY <1>3, <1>4, <2>1, <2>2
  <1>6. CASE WriteStarts
    <2>1. arrived' = arrived
      BY <1>6 DEF WriteStarts
    <2>2. CASE UNCHANGED <<writable, offered>>
      BY <1>3, <1>4, <2>1, <2>2
    <2>3. CASE ~UNCHANGED <<writable, offered>>
      <3>1. PICK x \in Dsts : x = Top.dst
        BY <1>6, WriteStartsTyped
      <3>2. PICK c \in Chunk : c = Top.chunk
        <4>1. Top \in WriteFrame
          BY <1>6, WriteStartsTyped
        <4> QED
          BY <4>1 DEF WriteFrame
      <3>3. /\ offered' = [offered EXCEPT ![x] = Append(@, c.id)]
            /\ \E b, k : writable' = [writable EXCEPT ![x].queue = Append(@, c),
                       ![x].length = @ + c.size, ![x].needDrain = b, ![x].callbacks = k]
        <4>1. /\ offered' = [offered EXCEPT ![Top.dst] = Append(@, Top.chunk.id)]
              /\ \E b \in BOOLEAN, k \in Nat :
                    writable' = [writable EXCEPT ![Top.dst].queue = Append(@, Top.chunk),
                       ![Top.dst].length = @ + Top.chunk.size, ![Top.dst].needDrain = b,
                       ![Top.dst].callbacks = k]
          BY <1>6, <2>3, WriteStartsTyped, Zenon
        <4> QED
          BY <3>1, <3>2, <4>1
      <3>4. PICK b, k : writable' = [writable EXCEPT ![x].queue = Append(@, c),
                       ![x].length = @ + c.size, ![x].needDrain = b, ![x].callbacks = k]
        BY <3>3
      <3>5. CASE d = x
        <4>1. writable'[d].queue = Append(q, c)
          <5>1. writable \in [Dsts -> Writing]
            BY DEF Typed
          <5> QED
            BY <1>3, <3>4, <3>5, <5>1 DEF Writing
        <4>2. offered'[d] = Append(o, c.id)
          <5>1. offered \in [Dsts -> Seq(Nat)]
            BY DEF Typed, Noted
          <5> QED
            BY <1>3, <3>3, <3>5, <5>1, Zenon
        <4>3. Append(a \o IdsOf(q), c.id) = a \o IdsOf(Append(q, c))
          BY <1>4, OneMoreOffered
        <4> QED
          BY <1>3, <1>4, <2>1, <4>1, <4>2, <4>3
      <3>6. CASE d # x
        <4>1. writable'[d] = writable[d]
          <5>1. writable \in [Dsts -> Writing]
            BY DEF Typed
          <5> QED
            BY <3>4, <3>6, <5>1
        <4>2. offered'[d] = o
          <5>1. offered \in [Dsts -> Seq(Nat)]
            BY DEF Typed, Noted
          <5> QED
            BY <1>3, <3>3, <3>6, <5>1, Zenon
        <4> QED
          BY <1>3, <1>4, <2>1, <4>1, <4>2
      <3> QED
        BY <3>5, <3>6
    <2> QED
      BY <2>2, <2>3
  <1>7. CASE Dispatch
    <2>1. PICK x \in Dsts : x = Top.dst /\ writable[x].queue # <<>>
      BY <1>7, DispatchTyped
    <2>2. /\ writable' = [writable EXCEPT ![x].queue = Tail(@)] /\ offered' = offered
          /\ arrived' = [arrived EXCEPT ![x] = Append(@, Head(writable[x].queue).id)]
      BY <1>7, <2>1, Zenon DEF Dispatch
    <2>3. writable \in [Dsts -> Writing] /\ arrived \in [Dsts -> Seq(Nat)]
      BY DEF Typed, Noted
    <2>4. CASE d = x
      <3>1. writable'[d].queue = Tail(q)
        BY <1>3, <2>2, <2>3, <2>4 DEF Writing
      <3>2. arrived'[d] = Append(a, Head(q).id)
        BY <1>3, <2>2, <2>3, <2>4, Zenon
      <3>3. a \o IdsOf(q) = Append(a, Head(q).id) \o IdsOf(Tail(q))
        BY <1>3, <1>4, <2>1, <2>4, OneLessOffered
      <3> QED
        BY <1>3, <1>4, <2>2, <3>1, <3>2, <3>3
    <2>5. CASE d # x
      <3>1. writable'[d] = writable[d] /\ arrived'[d] = a
        BY <1>3, <2>2, <2>3, <2>5
      <3> QED
        BY <1>3, <1>4, <2>2, <3>1
    <2> QED
      BY <2>4, <2>5
  <1> QED
    BY <1>5, <1>6, <1>7

-----------------------------------------------------------------------------
(***************************************************************************)
(* A Writable finishes with nothing in its queue.                          *)
(***************************************************************************)
Done2(d) == writable'[d].ended /\ writable'[d].queue = <<>>

LEMMA DoneStays ==
  ASSUME Typed, Owed, Next, NEW d \in Dsts, Done(d)
  PROVE  Done2(d)
  <1>1. Kept(d) /\ writable[d].ended /\ writable[d].queue = <<>>
    BY WritersKept DEF Done
  <1>2. writable \in [Dsts -> Writing]
    BY DEF Typed
  <1>3. CASE WriteStarts
    <2>1. writable' = writable \/ \E x : x # d /\ \E q, n, b, k :
            writable' = [writable EXCEPT ![x].queue = q, ![x].length = n, ![x].needDrain = b, ![x].callbacks = k]
      <3>1. CASE writable[Top.dst].ended
        BY <1>3, <3>1, WriteStartsTyped
      <3>2. CASE ~writable[Top.dst].ended
        <4>1. Top.dst # d
          BY <1>1, <3>2
        <4>2. PICK b, k : writable' = [writable EXCEPT ![Top.dst].queue = Append(@, Top.chunk),
                       ![Top.dst].length = @ + Top.chunk.size, ![Top.dst].needDrain = b,
                       ![Top.dst].callbacks = k]
          BY <1>3, <3>2, WriteStartsTyped, Zenon
        <4> QED
          BY <4>1, <4>2
      <3> QED
        BY <3>1, <3>2
    <2>2. writable'[d] = writable[d]
      <3>1. CASE writable' = writable
        BY <3>1
      <3>2. CASE ~(writable' = writable)
        <4>1. PICK x : x # d /\ \E q, n, b, k :
                writable' = [writable EXCEPT ![x].queue = q, ![x].length = n, ![x].needDrain = b, ![x].callbacks = k]
          BY <2>1, <3>2
        <4>2. PICK q, n, b, k :
                writable' = [writable EXCEPT ![x].queue = q, ![x].length = n, ![x].needDrain = b, ![x].callbacks = k]
          BY <4>1
        <4> QED
          BY <1>2, <4>1, <4>2, Zenon
      <3> QED
        BY <3>1, <3>2
    <2> QED
      BY <1>1, <2>2 DEF Done2
  <1>4. CASE Dispatch
    <2>1. Top.dst # d
      BY <1>1, <1>4, DispatchTyped
    <2>2. writable' = [writable EXCEPT ![Top.dst].queue = Tail(@)]
      BY <1>4, Zenon DEF Dispatch
    <2>3. writable'[d] = writable[d]
      BY <1>2, <2>1, <2>2
    <2> QED
      BY <1>1, <2>3 DEF Done2
  <1>5. CASE EndSets
    <2>1. PICK x \in Dsts : writable' = [writable EXCEPT ![x].ended = TRUE]
      BY <1>5, EndSetsTyped
    <2>2. PICK w : w = writable[d]
      OBVIOUS
    <2>3. Fields(writable'[d], w.queue, w.length, IF d = x THEN TRUE ELSE w.ended, w.finished, w.corked)
      BY <2>1, <2>2, WritableFields, Zenon
    <2> QED
      BY <1>1, <2>2, <2>3 DEF Fields, Done2
  <1>6. CASE ~(WriteStarts \/ Dispatch \/ EndSets)
    BY <1>1, <1>6, Zenon DEF Kept, Done2
  <1> QED
    BY <1>3, <1>4, <1>5, <1>6

LEMMA DstOf ==
  ASSUME Typed, NEW i \in Where(stack, {"finish"})
  PROVE  stack[i].dst \in Dsts /\ stack[i] \in Frame
  <1>1. stack \in Seq(Frame) /\ i \in 1 .. Len(stack) /\ Kind(stack[i]) = "finish"
    BY TopIs DEF Where
  <1>2. stack[i] \in Frame
    BY <1>1
  <1>3. stack[i].at = "finish"
    BY <1>1 DEF Kind
  <1>4. stack[i] \in DstFrame
    BY <1>2, <1>3, KindOf
  <1> QED
    BY <1>2, <1>4 DEF DstFrame

LEMMA FinishFrames ==
  ASSUME Typed, Owed, Finishing, Next, NEW i \in Where(stack', {"finish"})
  PROVE  Done2(stack'[i].dst)
  <1>1. PICK n \in Nat : n = Len(stack) /\ n >= 1
    BY TopIs
  <1>2. PICK K : K = {"finish"}
    OBVIOUS
  <1>3. PICK X : X = Where(stack, K) /\ \A j \in X : Done(stack[j].dst) /\ stack[j].dst \in Dsts /\ j \in 1 .. n
    BY <1>1, <1>2, DstOf DEF Finishing, Where
  <1>4. "code" \notin K /\ i \in Where(stack', K)
    BY <1>2
  <1>5. SUFFICES stack'[i].dst \in Dsts /\ (Done(stack'[i].dst) \/ Done2(stack'[i].dst))
    BY DoneStays
  <1>6. CASE MaybeFinishes
    <2>1. Kind(Top) = "maybeFinish" /\ Top.dst \in Dsts
      BY <1>6, MaybeFinishesTyped
    <2>2. \/ Left
          \/ \E f : Became(f) /\ Kind(f) = "owing"
          \/ FinishMayBe(Top.dst) /\ \E f : Became(f) /\ Kind(f) = "finish" /\ f.dst = Top.dst
      BY <1>6, MaybeFinishesTyped
    <2>3. CASE Left
      <3>1. i \in X \ {n} /\ \A j \in 1 .. n - 1 : stack'[j] = stack[j]
        BY <1>1, <1>3, <1>4, <2>3, Leaving
      <3> QED
        BY <1>3, <3>1
    <2>4. CASE \E f : Became(f) /\ Kind(f) = "owing"
      <3>1. PICK f : Became(f) /\ Kind(f) = "owing"
        BY <2>4
      <3>2. i \in (X \ {n}) \cup (IF Kind(f) \in K THEN {n} ELSE {}) /\ \A j \in 1 .. n - 1 : stack'[j] = stack[j]
        BY <1>1, <1>3, <1>4, <3>1, Becoming
      <3>3. i \in X \ {n}
        BY <1>2, <3>1, <3>2
      <3> QED
        BY <1>3, <3>2, <3>3
    <2>5. CASE FinishMayBe(Top.dst) /\ \E f : Became(f) /\ Kind(f) = "finish" /\ f.dst = Top.dst
      <3>1. PICK f : Became(f) /\ Kind(f) = "finish" /\ f.dst = Top.dst
        BY <2>5
      <3>2. /\ i \in (X \ {n}) \cup (IF Kind(f) \in K THEN {n} ELSE {})
            /\ stack'[n] = f /\ \A j \in 1 .. n - 1 : stack'[j] = stack[j]
        BY <1>1, <1>3, <1>4, <3>1, Becoming
      <3>3. CASE i = n
        BY <2>1, <2>5, <3>1, <3>2, <3>3 DEF FinishMayBe, Done
      <3>4. CASE i \in X \ {n}
        BY <1>3, <3>2, <3>4
      <3> QED
        BY <1>2, <3>1, <3>2, <3>3, <3>4
    <2> QED
      BY <2>2, <2>3, <2>4, <2>5
  <1>7. CASE Finish
    <2>1. i \in X \ {n} /\ \A j \in 1 .. n - 1 : stack'[j] = stack[j]
      BY <1>1, <1>3, <1>4, <1>7, FinishTyped, Leaving
    <2> QED
      BY <1>3, <2>1
  <1>8. CASE Completing
    <2>0. Top.at = "code" /\ pending # <<>> /\ WriteDone /\ held' \in Nat /\ UNCHANGED <<writable, writes>> /\ OnlyWritable
      BY <1>8, EntryToPop
    <2>1. PICK e : e = Last(pending)
      OBVIOUS
    <2>2. PICK more : /\ Turned(Len(stack) - 1, more, {Kind(Top), "code", "finish", "finalize"})
                      /\ Len(more) = 2 /\ Kind(more[1]) = "code"
                      /\ IF e.final THEN more[2] = [at |-> "finish", dst |-> e.dst]
                         ELSE more[2] = [at |-> "finalize", stage |-> "shrink", dst |-> e.dst,
                                         size |-> e.size, remaining |-> 0]
      BY <2>0, <2>1, DoneTyped, Zenon
    <2>3. Grew(stack, stack', n - 1, more)
      BY <1>1, <2>2 DEF Turned, Moved
    <2>4. i \in {j \in X : j <= n - 1} \cup {(n - 1) + j : j \in Where(more, K)}
      BY <1>1, <1>3, <1>4, <2>3, WhereGrew
    <2>5. CASE i \in X /\ i <= n - 1
      <3>1. stack'[i] = stack[i]
        BY <1>3, <2>3, <2>5 DEF Grew
      <3> QED
        BY <1>3, <2>5, <3>1
    <2>6. CASE i \in {(n - 1) + j : j \in Where(more, K)}
      <3>1. PICK j \in Where(more, K) : i = (n - 1) + j
        BY <2>6
      <3>2. j \in 1 .. 2 /\ Kind(more[j]) = "finish"
        BY <1>2, <2>2 DEF Where
      <3>3. j = 2 /\ stack'[i] = more[2]
        <4>1. j = 2
          BY <2>2, <3>2
        <4>2. stack'[(n - 1) + 2] = more[2]
          BY <2>2, <2>3 DEF Grew
        <4> QED
          BY <3>1, <4>1, <4>2
      <3>4. Kind(more[2]) = "finish"
        BY <3>2, <3>3
      <3>5. e.final
        BY <2>2, <3>4 DEF Kind
      <3>6. stack'[i].dst = e.dst
        BY <2>2, <3>3, <3>5
      <3>7. PICK m \in Nat : m = Len(pending) /\ m \in DOMAIN pending /\ e = pending[m] /\ e \in Entry
        <4>1. e \in Entry /\ Len(pending) \in Nat /\ Len(pending) >= 1 /\ e = pending[Len(pending)]
          BY <2>0, <2>1, DoneTyped, Zenon
        <4>2. pending \in Seq(Entry)
          BY DEF Typed
        <4> QED
          BY <4>1, <4>2
      <3>8. Done(e.dst)
        BY <3>5, <3>7 DEF Finishing
      <3>9. e.dst \in Dsts
        BY <3>7 DEF Entry
      <3> QED
        BY <3>6, <3>8, <3>9
    <2> QED
      BY <2>4, <2>5, <2>6
  <1>9. CASE ~(MaybeFinishes \/ Finish \/ Completing)
    <2>1. Same(stack, stack', K)
      BY <1>2, <1>9, Undisturbed
    <2>2. i \in X /\ stack'[i] = stack[i]
      BY <1>3, <1>4, <2>1 DEF Same
    <2> QED
      BY <1>3, <2>2
  <1> QED
    BY <1>6, <1>7, <1>8, <1>9

LEMMA FinishEntries ==
  ASSUME Typed, Owed, Finishing, Next, NEW i \in DOMAIN pending', pending'[i].final
  PROVE  Done2(pending'[i].dst) /\ pending'[i].size = 0
  <1>1. pending \in Seq(Entry)
    BY DEF Typed
  <1>2. PICK n \in Nat : n = Len(pending) /\ DOMAIN pending = 1 .. n /\ \A j \in 1 .. n : pending[j] \in Entry
    BY <1>1
  <1>3. \A j \in 1 .. n : pending[j].final =>
           Done(pending[j].dst) /\ pending[j].size = 0 /\ pending[j].dst \in Dsts
    <2>1. \A e \in Entry : e.dst \in Dsts
      BY DEF Entry
    <2> QED
      BY <1>2, <2>1 DEF Finishing
  <1>4. ASSUME i \in 1 .. n, pending'[i] = pending[i]
        PROVE  Done2(pending'[i].dst) /\ pending'[i].size = 0
    BY <1>3, <1>4, DoneStays
  <1>5. CASE \E e \in Entry : pending' = Append(pending, e) /\ (e.final => e.dst \in Dsts /\ Done(e.dst) /\ e.size = 0)
    <2>1. PICK e \in Entry : pending' = Append(pending, e) /\ (e.final => e.dst \in Dsts /\ Done(e.dst) /\ e.size = 0)
      BY <1>5
    <2>2. i \in 1 .. n + 1 /\ (i \in 1 .. n => pending'[i] = pending[i]) /\ (i = n + 1 => pending'[i] = e)
      BY <1>1, <1>2, <2>1
    <2>3. CASE i \in 1 .. n
      BY <1>4, <2>2, <2>3
    <2>4. CASE i = n + 1
      BY <2>1, <2>2, <2>4, DoneStays
    <2> QED
      BY <1>2, <2>2, <2>3, <2>4
  <1>6. CASE UNCHANGED pending
    BY <1>2, <1>4, <1>6
  <1>7. CASE Completing
    <2>1. Top.at = "code" /\ pending # <<>> /\ WriteDone /\ held' \in Nat /\ UNCHANGED <<writable, writes>> /\ OnlyWritable
      BY <1>7, EntryToPop
    <2>2. /\ pending' \in Seq(Entry) /\ Len(pending') = n - 1
          /\ \A j \in 1 .. Len(pending') : pending'[j] = pending[j]
      BY <1>2, <2>1, DoneTyped
    <2>3. i \in 1 .. Len(pending')
      BY <2>2
    <2>4. i \in 1 .. n /\ pending'[i] = pending[i]
      BY <1>2, <2>2, <2>3
    <2> QED
      BY <1>4, <2>4
  <1>8. CASE Dispatch
    <2>1. PICK d, s : /\ pending' = Append(pending, [dst |-> d, size |-> s, final |-> FALSE])
                      /\ [dst |-> d, size |-> s, final |-> FALSE] \in Entry
      BY <1>8, DispatchTyped, Zenon
    <2> QED
      BY <1>5, <2>1
  <1>9. CASE MaybeFinishes
    <2>1. CASE UNCHANGED pending
      BY <1>6, <2>1
    <2>2. CASE ~UNCHANGED pending
      <3>1. PICK d : /\ pending' = Append(pending, [dst |-> d, size |-> 0, final |-> TRUE])
                     /\ [dst |-> d, size |-> 0, final |-> TRUE] \in Entry
                     /\ FinishMayBe(d) /\ d \in Dsts
        BY <1>9, <2>2, MaybeFinishesTyped, Zenon
      <3>2. PICK e : e = [dst |-> d, size |-> 0, final |-> TRUE]
        OBVIOUS
      <3>3. e.dst = d /\ e.size = 0
        BY <3>2
      <3>4. Done(d)
        BY <3>1 DEF FinishMayBe, Done
      <3> QED
        BY <1>5, <3>1, <3>2, <3>3, <3>4
    <2> QED
      BY <2>1, <2>2
  <1>10. CASE CodeEnds
    BY <1>6, <1>10 DEF CodeEnds
  <1>11. CASE ~(Dispatch \/ MaybeFinishes \/ Completing \/ CodeEnds)
    BY <1>6, <1>11, SinkKept
  <1> QED
    BY <1>7, <1>8, <1>9, <1>10, <1>11

LEMMA FinishingStep ==
  ASSUME Typed, Owed, Finishing, Next
  PROVE  Finishing'
  <1>1. ASSUME NEW d \in Dsts, writable'[d].finished PROVE Done2(d)
    <2>1. CASE Finish
      <3>1. PICK n : n = Len(stack) /\ Top = stack[n] /\ n \in Nat /\ n >= 1
        BY TopIs
      <3>2. Kind(Top) = "finish" /\ Top.dst \in Dsts /\ writable' = [writable EXCEPT ![Top.dst].finished = TRUE]
        BY <2>1, FinishTyped
      <3>3. n \in Where(stack, {"finish"})
        BY <3>1, <3>2 DEF Where
      <3>4. Done(Top.dst)
        BY <3>1, <3>3 DEF Finishing
      <3>5. PICK w : w = writable[d]
        OBVIOUS
      <3>6. Fields(writable'[d], w.queue, w.length, w.ended, IF d = Top.dst THEN TRUE ELSE w.finished, w.corked)
        BY <3>2, <3>5, WritableFields, Zenon
      <3>7. CASE d = Top.dst
        BY <3>4, <3>7, DoneStays
      <3>8. CASE d # Top.dst
        <4>1. Done(d)
          BY <1>1, <3>5, <3>6, <3>8 DEF Fields, Finishing
        <4> QED
          BY <4>1, DoneStays
      <3> QED
        BY <3>7, <3>8
    <2>2. CASE ~Finish
      <3>1. writable[d].finished
        BY <1>1, <2>2, WritersKept DEF Kept
      <3>2. Done(d)
        BY <3>1 DEF Finishing
      <3> QED
        BY <3>2, DoneStays
    <2> QED
      BY <2>1, <2>2
  <1> QED
    BY <1>1, FinishFrames, FinishEntries, Zenon DEF Finishing, Done, Done2, Where

-----------------------------------------------------------------------------
(***************************************************************************)
(* The calls of next().                                                    *)
(***************************************************************************)
WaiterSame == UNCHANGED given /\ readable'.waiter = readable.waiter
WaiterLeft == /\ readable.waiter # 0 /\ readable'.waiter = 0
              /\ \E what \in {"chunk", "done"} : given' = [given EXCEPT ![readable.waiter] = what]

LEMMA WaiterFields ==
  ASSUME NEW r, r \in Reading
  PROVE  /\ \A x : [r EXCEPT !.ended = x].waiter = r.waiter
         /\ \A x : [r EXCEPT !.readableEnded = x].waiter = r.waiter
         /\ \A x : [r EXCEPT !.consumed = x].waiter = r.waiter
         /\ \A x : [r EXCEPT !.flowing = x].waiter = r.waiter
         /\ \A x : [r EXCEPT !.pipes = x].waiter = r.waiter
         /\ \A x : [r EXCEPT !.destroyed = x].waiter = r.waiter
         /\ \A x : [r EXCEPT !.waiter = x].waiter = x
         /\ \A x, y : [r EXCEPT !.consumed = x, !.flowing = y].waiter = r.waiter
         /\ Shifted(r).waiter = r.waiter
         /\ \A x : [Shifted(r) EXCEPT !.waiter = x].waiter = x
         /\ \A x, y : [r EXCEPT !.buf = x, !.length = y].waiter = r.waiter
  BY DEF Reading, Shifted

LEMMA WaiterSteps ==
  ASSUME Typed, Next, ~Nexts
  PROVE  WaiterSame \/ WaiterLeft
  <1>0. readable \in Reading
    BY DEF Typed
  <1>1. CASE UNCHANGED <<given, readable>>
    BY <1>1 DEF WaiterSame
  <1>2. UNCHANGED reads => UNCHANGED given
    BY DEF reads
  <1>3. ASSUME NEW r \in Reading, r.waiter = readable.waiter, NEW what \in {"chunk", "done"},
               Answer(r, what), readable.waiter # 0
        PROVE  WaiterLeft
    BY <1>3, WaiterFields, Zenon DEF WaiterLeft, Answer
  <1>4. ASSUME NEW r \in Reading, r.waiter = readable.waiter, EndWaiter(r)
        PROVE  WaiterSame \/ WaiterLeft
    BY <1>3, <1>4 DEF WaiterSame, EndWaiter
  <1>5. CASE Wrote \/ Asks
    BY <1>1, <1>5, WroteKeeps, AsksKeep
  <1>6. CASE PushNull \/ IteratorReturn
    <2>1. PICK r \in Reading : EndWaiter(r) /\ r.waiter = readable.waiter
      <3>1. [readable EXCEPT !.ended = TRUE] \in Reading /\ [readable EXCEPT !.destroyed = TRUE] \in Reading
        BY <1>0 DEF Reading
      <3>2. [readable EXCEPT !.ended = TRUE].waiter = readable.waiter /\ [readable EXCEPT !.destroyed = TRUE].waiter = readable.waiter
        BY <1>0, WaiterFields, Zenon
      <3> QED
        BY <1>6, <3>1, <3>2, Zenon DEF PushNull, IteratorReturn
    <2> QED
      BY <1>4, <2>1
  <1>7. CASE Push
    <2>1. \/ UNCHANGED <<readable, given>>
          \/ Answer(readable, "chunk") /\ readable.waiter # 0
      BY <1>7, Zenon DEF Push
    <2> QED
      BY <1>0, <1>1, <1>3, <2>1
  <1>8. CASE PumpServes \/ PumpServesProdded
    <2>1. PICK retry \in BOOLEAN : Serve(retry)
      BY <1>8, Zenon DEF PumpServes, PumpServesProdded
    <2>2. CASE readable.waiter = 0
      BY <1>1, <2>1, <2>2 DEF Serve
    <2>3. CASE readable.waiter # 0 /\ readable.destroyed /\ ~retry
      <3>1. Answer(readable, "done")
        BY <2>1, <2>3 DEF Serve
      <3> QED
        BY <1>0, <1>3, <2>3, <3>1
    <2>4. CASE readable.waiter # 0 /\ ~(readable.destroyed /\ ~retry) /\ readable.buf # <<>>
      <3>1. Answer(Shifted(readable), "chunk")
        BY <2>1, <2>4 DEF Serve
      <3>2. Shifted(readable).waiter = readable.waiter
        BY <1>0, WaiterFields
      <3>3. readable' = [Shifted(readable) EXCEPT !.waiter = 0] /\ given' = [given EXCEPT ![readable.waiter] = "chunk"]
        BY <3>1 DEF Answer
      <3>4. readable'.waiter = 0
        <4>1. [Shifted(readable) EXCEPT !.waiter = 0].waiter = 0
          <5>1. PICK z : z = 0
            OBVIOUS
          <5>2. [Shifted(readable) EXCEPT !.waiter = z].waiter = z
            BY <1>0 DEF Shifted, Reading
          <5> QED
            BY <5>1, <5>2
        <4> QED
          BY <3>3, <4>1, Zenon
      <3> QED
        BY <2>4, <3>3, <3>4 DEF WaiterLeft
    <2>5. CASE readable.waiter # 0 /\ ~(readable.destroyed /\ ~retry) /\ readable.buf = <<>> /\ readable.ended
      <3>1. Answer(readable, "done")
        BY <2>1, <2>5 DEF Serve
      <3> QED
        BY <1>0, <1>3, <2>5, <3>1
    <2>6. CASE readable.waiter # 0 /\ ~(readable.destroyed /\ ~retry) /\ readable.buf = <<>> /\ ~readable.ended
      BY <1>1, <2>1, <2>6 DEF Serve
    <2> QED
      BY <2>2, <2>3, <2>4, <2>5, <2>6
  <1>9. CASE Resumes \/ Unpipe \/ Drained \/ DeliverData \/ DeliverLooksUpPipes \/ DeliverWrites \/ Delivered
             \/ UnpipeLooks \/ EndLooksUpPipes \/ EndsPipe \/ HostPumps \/ HostCalls
    <2>1. UNCHANGED <<readable, given>>
      BY <1>2, <1>9, Zenon DEF Resumes, Unpipe, Drained, DeliverData, DeliverLooksUpPipes,
         DeliverWrites, Delivered, UnpipeLooks, EndLooksUpPipes, EndsPipe, HostPumps, HostCalls
    <2> QED
      BY <1>1, <2>1
  <1>10. CASE Read
    <2>1. PICK r : r = [readable EXCEPT !.consumed = TRUE] /\ r \in Reading /\ r.waiter = readable.waiter
      <3>1. [readable EXCEPT !.consumed = TRUE] \in Reading
        BY <1>0 DEF Reading
      <3>2. [readable EXCEPT !.consumed = TRUE].waiter = readable.waiter
        BY <1>0, WaiterFields, Zenon
      <3> QED
        BY <3>1, <3>2
    <2>2. (readable' = r \/ readable' = Shifted(r)) /\ given' = given
      BY <1>10, <2>1 DEF Read
    <2> QED
      BY <2>1, <2>2, WaiterFields DEF WaiterSame
  <1>11. CASE Pause \/ DeliverPauses \/ Pipe \/ Destroy \/ PlacePushed \/ ResumeStarts \/ DrainOne
              \/ Unpiped \/ PipesEnded \/ PumpEnd
    <2>1. given' = given
      BY <1>2, <1>11, Zenon DEF Pause, DeliverPauses, Pipe, Destroy, PlacePushed, ResumeStarts, DrainOne,
         Unpiped, PipesEnded, PumpEnd
    <2>2. CASE Pause \/ DeliverPauses
      <3>1. readable'.waiter = readable.waiter
        <4>1. PICK x : readable' = [readable EXCEPT !.flowing = x]
          BY <2>2, Zenon DEF Pause, DeliverPauses, Paused
        <4> QED
          BY <1>0, <4>1, WaiterFields, Zenon
      <3> QED
        BY <2>1, <3>1 DEF WaiterSame
    <2>3. CASE Pipe \/ Unpiped \/ PipesEnded
      <3>1. PICK p : readable' = [readable EXCEPT !.pipes = p]
        <4>1. CASE Pipe
          BY <4>1, PipeTyped
        <4>2. CASE Unpiped \/ PipesEnded
          BY <4>2, Zenon DEF Unpiped, PipesEnded
        <4> QED
          BY <2>3, <4>1, <4>2
      <3>2. readable'.waiter = readable.waiter
        BY <1>0, <3>1, WaiterFields, Zenon
      <3> QED
        BY <2>1, <3>2 DEF WaiterSame
    <2>4. CASE Destroy \/ ResumeStarts
      <3>1. readable'.waiter = readable.waiter
        <4>1. CASE Destroy
          BY <1>0, <4>1, WaiterFields, Zenon DEF Destroy
        <4>2. CASE ResumeStarts
          <5>1. PICK x, y : readable' = [readable EXCEPT !.consumed = x, !.flowing = y]
            BY <4>2, Zenon DEF ResumeStarts
          <5> QED
            BY <1>0, <5>1 DEF Reading
        <4> QED
          BY <2>4, <4>1, <4>2
      <3> QED
        BY <2>1, <3>1 DEF WaiterSame
    <2>5. CASE PlacePushed
      <3>1. readable' = readable \/ \E x, y : readable' = [readable EXCEPT !.buf = x, !.length = y]
        BY <2>5 DEF PlacePushed, Buffered
      <3>2. readable'.waiter = readable.waiter
        <4>1. CASE readable' = readable
          BY <4>1
        <4>2. CASE \E x, y : readable' = [readable EXCEPT !.buf = x, !.length = y]
          <5>1. PICK x, y : readable' = [readable EXCEPT !.buf = x, !.length = y]
            BY <4>2
          <5> QED
            BY <1>0, <5>1 DEF Reading
        <4> QED
          BY <3>1, <4>1, <4>2
      <3> QED
        BY <2>1, <3>2 DEF WaiterSame
    <2>6. CASE DrainOne
      <3>1. readable'.waiter = readable.waiter
        BY <1>0, <2>6, WaiterFields, Zenon DEF DrainOne
      <3> QED
        BY <2>1, <3>1 DEF WaiterSame
    <2>7. CASE PumpEnd
      <3>1. readable' = readable \/ readable' = [readable EXCEPT !.readableEnded = TRUE]
        BY <2>7 DEF PumpEnd
      <3>2. readable'.waiter = readable.waiter
        <4>1. [readable EXCEPT !.readableEnded = TRUE].waiter = readable.waiter
          BY <1>0, WaiterFields, Zenon
        <4> QED
          BY <3>1, <4>1
      <3> QED
        BY <2>1, <3>2 DEF WaiterSame
    <2> QED
      BY <1>11, <2>2, <2>3, <2>4, <2>5, <2>6, <2>7
  <1> QED
    BY <1>5, <1>6, <1>7, <1>8, <1>9, <1>10, <1>11, NextParts DEF Reads, Nexts

Callers(s) == {s[i].call : i \in Where(s, {"next"})}
One(X) == \A i, j \in X : i = j
Orderly(g, w, C) ==
  /\ \A i \in DOMAIN g : g[i] = "pending" <=> w = i
  /\ \A i, j \in DOMAIN g : g[i] \in {"asked", "pending"} /\ g[j] \in {"asked", "pending"} => i = j
  /\ \A c \in C : g[c] = "asked"

LEMMA AskingKept ==
  ASSUME Typed, Next, ~Nexts, Same(stack, stack', {"next"}), One(Where(stack, {"next"})),
         Orderly(given, readable.waiter, Callers(stack))
  PROVE  Orderly(given', readable'.waiter, Callers(stack')) /\ One(Where(stack', {"next"}))
  <1>1. Where(stack', {"next"}) = Where(stack, {"next"})
    BY DEF Same
  <1>2. Callers(stack') = Callers(stack)
    BY <1>1 DEF Callers, Same
  <1>3. PICK g, w, C : g = given /\ w = readable.waiter /\ C = Callers(stack)
    OBVIOUS
  <1>4. Orderly(g, w, C)
    BY <1>3
  <1>5. /\ DOMAIN g = 1 .. Len(given) /\ Len(given) \in Nat
        /\ w \in 0 .. Len(given) /\ \A c \in C : c \in 1 .. Len(given)
    <2>1. DOMAIN g = 1 .. Len(given) /\ Len(given) \in Nat
      BY <1>3 DEF Typed, Noted
    <2>2. w \in 0 .. Len(given)
      BY <1>3 DEF Typed, Reading
    <2>3. ASSUME NEW i \in Where(stack, {"next"}) PROVE stack[i].call \in 1 .. Len(given)
      <3>1. stack \in Seq(Frame) /\ i \in 1 .. Len(stack) /\ Kind(stack[i]) = "next"
        BY TopIs DEF Where
      <3>2. stack[i] \in Frame
        BY <3>1
      <3>3. stack[i].at = "next"
        BY <3>1 DEF Kind
      <3>4. stack[i] \in NextFrame
        BY <3>2, <3>3, KindOf
      <3> QED
        BY <3>4 DEF NextFrame
    <2>4. \A c \in C : c \in 1 .. Len(given)
      BY <1>3, <2>3 DEF Callers
    <2> QED
      BY <2>1, <2>2, <2>4
  <1>6. PICK m \in Nat : m = Len(given)
    BY <1>5
  <1>7. CASE WaiterSame
    BY <1>1, <1>2, <1>7 DEF WaiterSame
  <1>8. CASE WaiterLeft
    <2>1. PICK what \in {"chunk", "done"} : given' = [given EXCEPT ![readable.waiter] = what]
      BY <1>8 DEF WaiterLeft
    <2>2. PICK h : h = [g EXCEPT ![w] = what]
      OBVIOUS
    <2>3. w # 0 /\ readable'.waiter = 0 /\ w \in 1 .. m
      BY <1>3, <1>5, <1>6, <1>8 DEF WaiterLeft
    <2>4. DOMAIN h = DOMAIN g /\ h[w] = what /\ \A i \in DOMAIN g : i # w => h[i] = g[i]
      BY <1>5, <1>6, <2>2, <2>3
    <2>5. g[w] = "pending"
      BY <1>4, <1>5, <1>6, <2>3 DEF Orderly
    <2>6. Orderly(h, 0, C)
      <3>1. ASSUME NEW i \in DOMAIN h PROVE ~(h[i] = "pending") /\ ~(0 = i)
        <4>1. i \in DOMAIN g /\ (g[i] = "pending" <=> w = i)
          BY <1>4, <2>4 DEF Orderly
        <4> QED
          BY <1>5, <1>6, <2>4, <4>1
      <3>2. ASSUME NEW i \in DOMAIN h, NEW j \in DOMAIN h, h[i] \in {"asked", "pending"}, h[j] \in {"asked", "pending"}
            PROVE  i = j
        <4>1. i \in DOMAIN g /\ j \in DOMAIN g /\ i # w /\ j # w
          BY <2>4, <3>2
        <4>2. g[i] \in {"asked", "pending"} /\ g[j] \in {"asked", "pending"}
          BY <2>4, <3>2, <4>1
        <4> QED
          BY <1>4, <4>1, <4>2, Zenon DEF Orderly
      <3>3. ASSUME NEW c \in C PROVE h[c] = "asked"
        BY <1>4, <1>5, <1>6, <2>4, <2>5 DEF Orderly
      <3> QED
        BY <3>1, <3>2, <3>3 DEF Orderly
    <2>7. given' = h /\ readable'.waiter = 0 /\ Callers(stack') = C
      BY <1>2, <1>3, <2>1, <2>2, <2>3
    <2> QED
      BY <1>1, <2>6, <2>7
  <1> QED
    BY <1>7, <1>8, WaiterSteps

LEMMA NextAsks ==
  ASSUME Typed, Next_, "race" \notin uses, Orderly(given, readable.waiter, Callers(stack))
  PROVE  Orderly(given', readable'.waiter, Callers(stack')) /\ One(Where(stack', {"next"}))
  <1>1. PICK m \in Nat : m = Len(given) /\ DOMAIN given = 1 .. m /\ given \in Seq(Answers4)
    BY DEF Typed, Noted, Answers4
  <1>2. \A i \in 1 .. m : given[i] \notin {"asked", "pending"}
    BY <1>1 DEF Next_
  <1>3. readable.waiter = 0
    <2>1. readable.waiter \in 0 .. m
      BY <1>1 DEF Typed, Reading
    <2> QED
      BY <1>1, <1>2, <2>1 DEF Orderly
  <1>4. readable' = [readable EXCEPT !.consumed = TRUE] /\ given' = Append(given, "asked")
    BY <1>3 DEF Next_
  <1>5. readable'.waiter = 0
    BY <1>3, <1>4, WaiterFields, Zenon DEF Typed
  <1>6. PICK f : f = [at |-> "next", stage |-> "pumped", call |-> m + 1]
    OBVIOUS
  <1>7. Turned(Len(stack), <<f, Pump>>, {"next", "pump"})
    BY <1>1, <1>3, <1>6, NextTyped
  <1>8. PICK n \in Nat : n = Len(stack)
    BY TopIs
  <1>9. Grew(stack, stack', n, <<f, Pump>>)
    BY <1>7, <1>8 DEF Turned, Moved
  <1>10. ASSUME NEW i \in Where(stack, {"next"}) PROVE FALSE
    <2>1. given[stack[i].call] = "asked"
      BY DEF Orderly, Callers
    <2>2. stack[i].call \in 1 .. m
      <3>1. stack \in Seq(Frame) /\ i \in 1 .. Len(stack) /\ Kind(stack[i]) = "next"
        BY TopIs DEF Where
      <3>2. stack[i] \in Frame
        BY <3>1
      <3>3. stack[i].at = "next"
        BY <3>1 DEF Kind
      <3>4. stack[i] \in NextFrame
        BY <3>2, <3>3, KindOf
      <3> QED
        BY <1>1, <3>4 DEF NextFrame
    <2> QED
      BY <1>2, <2>1, <2>2
  <1>11. Where(stack', {"next"}) = {n + 1} /\ stack'[n + 1] = f
    <2>1. Len(<<f, Pump>>) = 2 /\ <<f, Pump>>[1] = f /\ <<f, Pump>>[2] = Pump
      OBVIOUS
    <2>2. PICK more : more = <<f, Pump>> /\ Len(more) = 2 /\ more[1] = f /\ more[2] = Pump
      BY <2>1
    <2>3. Kind(f) = "next" /\ Kind(Pump) = "pump"
      BY <1>6, PlainFrames DEF Kind
    <2>4. Where(more, {"next"}) = {1}
      <3>1. ASSUME NEW j \in 1 .. 2 PROVE Kind(more[j]) \in {"next"} <=> j = 1
        <4>1. j = 1 \/ j = 2
          OBVIOUS
        <4> QED
          BY <2>2, <2>3, <4>1
      <3> QED
        BY <2>2, <3>1 DEF Where
    <2>5. Where(stack', {"next"}) = {i \in Where(stack, {"next"}) : i <= n} \cup {n + j : j \in Where(more, {"next"})}
      BY <1>8, <1>9, <2>2, WhereGrew
    <2>6. Where(stack', {"next"}) = {n + 1}
      BY <1>10, <2>4, <2>5
    <2>7. stack'[n + 1] = more[1]
      BY <1>9, <2>2 DEF Grew
    <2> QED
      BY <2>2, <2>6, <2>7
  <1>12. Callers(stack') = {m + 1}
    BY <1>6, <1>11 DEF Callers
  <1>13. PICK h : h = Append(given, "asked")
    OBVIOUS
  <1>14. DOMAIN h = 1 .. m + 1 /\ h[m + 1] = "asked" /\ \A i \in 1 .. m : h[i] = given[i]
    BY <1>1, <1>13 DEF Answers4
  <1>15. Orderly(h, 0, {m + 1})
    <2>1. \A i \in 1 .. m + 1 : i \in 1 .. m \/ i = m + 1
      OBVIOUS
    <2>2. \A i \in 1 .. m : h[i] \notin {"asked", "pending"}
      BY <1>2, <1>14
    <2>3. \A i \in 1 .. m + 1 : ~(h[i] = "pending") /\ ~(0 = i)
      BY <1>14, <2>1, <2>2
    <2>4. \A i \in 1 .. m + 1 : h[i] \in {"asked", "pending"} => i = m + 1
      BY <2>1, <2>2
    <2> QED
      BY <1>14, <2>3, <2>4 DEF Orderly
  <1> QED
    BY <1>4, <1>5, <1>11, <1>12, <1>13, <1>15 DEF One

LEMMA NextGoesOn ==
  ASSUME Typed, NextLooks \/ NextAnswers, One(Where(stack, {"next"})),
         Orderly(given, readable.waiter, Callers(stack))
  PROVE  Orderly(given', readable'.waiter, Callers(stack')) /\ One(Where(stack', {"next"}))
  <1>1. PICK m \in Nat : m = Len(given) /\ DOMAIN given = 1 .. m
    BY DEF Typed, Noted
  <1>2. Top.at = "next"
    BY DEF NextLooks, NextAnswers
  <1>3. PICK c \in 1 .. m : c = Top.call
    BY <1>1, <1>2, NextTop
  <1>4. PICK n \in Nat : n = Len(stack) /\ n >= 1 /\ Top = stack[n]
    BY TopIs
  <1>5. PICK X : X = Where(stack, {"next"})
    OBVIOUS
  <1>6. n \in X /\ \A i \in X : i = n
    BY <1>2, <1>4, <1>5, NextTop DEF Where, One
  <1>7. given[c] = "asked"
    BY <1>3, <1>4, <1>5, <1>6 DEF Orderly, Callers
  <1>8. \A i \in 1 .. m : given[i] \in {"asked", "pending"} => i = c
    BY <1>1, <1>7 DEF Orderly
  <1>9. readable.waiter = 0 /\ readable \in Reading
    <2>1. readable.waiter \in 0 .. m /\ readable \in Reading
      BY <1>1 DEF Typed, Reading
    <2>2. readable.waiter # 0 => given[readable.waiter] = "pending"
      BY <1>1, <2>1 DEF Orderly
    <2> QED
      BY <1>7, <1>8, <2>1, <2>2
  <1>10. ASSUME Left PROVE Where(stack', {"next"}) = {} /\ Callers(stack') = {} /\ One(Where(stack', {"next"}))
    <2>1. Where(stack', {"next"}) = X \ {n}
      <3>1. PICK K : K = {"next"} /\ "code" \notin K
        OBVIOUS
      <3> QED
        BY <1>4, <1>5, <1>10, <3>1, Leaving
    <2>2. Where(stack', {"next"}) = {}
      BY <1>6, <2>1
    <2> QED
      BY <2>2 DEF Callers, One
  <1>11. ASSUME NEW what, what # "asked", what # "pending", given' = [given EXCEPT ![c] = what], readable'.waiter = 0, Left
         PROVE  Orderly(given', readable'.waiter, Callers(stack'))
    <2>1. PICK h : h = given' /\ DOMAIN h = 1 .. m /\ h[c] = what /\ \A i \in 1 .. m : i # c => h[i] = given[i]
      BY <1>1, <1>11
    <2>2. \A i \in 1 .. m : h[i] \notin {"asked", "pending"} /\ ~(0 = i)
      BY <1>8, <1>11, <2>1
    <2>3. Orderly(h, 0, {})
      BY <2>1, <2>2 DEF Orderly
    <2> QED
      BY <1>10, <1>11, <2>1, <2>3
  <1>12. ASSUME given' = [given EXCEPT ![c] = "pending"], readable'.waiter = c, Left
         PROVE  Orderly(given', readable'.waiter, Callers(stack'))
    <2>1. PICK h : h = given' /\ DOMAIN h = 1 .. m /\ h[c] = "pending" /\ \A i \in 1 .. m : i # c => h[i] = given[i]
      BY <1>1, <1>12
    <2>2. \A i \in 1 .. m : i # c => h[i] \notin {"asked", "pending"}
      BY <1>8, <2>1
    <2>3. Orderly(h, c, {})
      BY <2>1, <2>2 DEF Orderly
    <2> QED
      BY <1>10, <1>12, <2>1, <2>3
  <1>13. ASSUME UNCHANGED given, readable'.waiter = 0, NEW g, Became(g), Kind(g) = "next", g.call = c
         PROVE  Orderly(given', readable'.waiter, Callers(stack')) /\ One(Where(stack', {"next"}))
    <2>1. PICK K : K = {"next"} /\ "code" \notin K
      OBVIOUS
    <2>2. Where(stack', K) = (X \ {n}) \cup (IF Kind(g) \in K THEN {n} ELSE {}) /\ stack'[n] = g
      BY <1>4, <1>5, <1>13, <2>1, Becoming
    <2>3. Where(stack', {"next"}) = {n} /\ stack'[n].call = c
      BY <1>6, <1>13, <2>1, <2>2
    <2>4. Callers(stack') = {c} /\ Callers(stack) = {c}
      BY <1>3, <1>4, <1>5, <1>6, <2>3 DEF Callers
    <2> QED
      BY <1>9, <1>13, <2>3, <2>4 DEF One
  <1>14. CASE NextLooks
    <2>1. readable'.waiter = 0
      <3>1. readable' = readable \/ readable' = Shifted(readable)
        BY <1>14, Zenon DEF NextLooks, Hands
      <3>2. Shifted(readable).waiter = readable.waiter
        BY <1>9, WaiterFields
      <3> QED
        BY <1>9, <3>1, <3>2
    <2>2. CASE Left /\ \E what \in {"chunk", "done"} : given' = [given EXCEPT ![Top.call] = what]
      <3>1. PICK what \in {"chunk", "done"} : given' = [given EXCEPT ![c] = what]
        BY <1>3, <2>2
      <3> QED
        BY <1>10, <1>11, <2>1, <2>2, <3>1
    <2>3. CASE UNCHANGED given /\ Left
      <3>1. PICK what : what = given[c]
        OBVIOUS
      <3>2. given = given'
        BY <2>3
      <3>3. /\ \A i \in DOMAIN given : given[i] = "pending" <=> 0 = i
            /\ \A i, j \in DOMAIN given : given[i] \in {"asked", "pending"} /\ given[j] \in {"asked", "pending"} => i = j
        BY <1>9 DEF Orderly
      <3>4. Orderly(given, 0, {})
        BY <3>3, Zenon DEF Orderly
      <3> QED
        BY <1>10, <2>1, <2>3, <3>4
    <2>4. CASE UNCHANGED given /\ \E g : Became(g) /\ Kind(g) = "next" /\ g.call = Top.call
      BY <1>3, <1>13, <2>1, <2>4
    <2> QED
      BY <1>14, <2>2, <2>3, <2>4, NextLooksTyped
  <1>15. CASE NextAnswers
    <2>0. Left
      BY <1>15, NextAnswersTyped
    <2>1. CASE readable.buf # <<>>
      <3>1. readable' = Shifted(readable) /\ given' = [given EXCEPT ![c] = "chunk"]
        BY <1>3, <1>15, <2>1 DEF NextAnswers, Hands
      <3>2. readable'.waiter = 0
        BY <1>9, <3>1, WaiterFields
      <3> QED
        BY <1>10, <1>11, <2>0, <3>1, <3>2
    <2>2. CASE readable.buf = <<>> /\ readable.ended
      <3>1. given' = [given EXCEPT ![c] = "done"]
        BY <1>3, <1>15, <2>2 DEF NextAnswers
      <3>2. readable'.waiter = 0
        <4>1. PICK x : x = readable.waiter
          OBVIOUS
        <4>2. readable' = [readable EXCEPT !.waiter = x]
          BY <1>15, <2>2, <4>1 DEF NextAnswers
        <4>3. [readable EXCEPT !.waiter = x].waiter = x
          BY <1>9 DEF Reading
        <4> QED
          BY <1>9, <4>1, <4>2, <4>3
      <3> QED
        BY <1>10, <1>11, <2>0, <3>1, <3>2
    <2>3. CASE readable.buf = <<>> /\ ~readable.ended
      <3>1. readable' = [readable EXCEPT !.waiter = c] /\ given' = [given EXCEPT ![c] = "pending"]
        BY <1>3, <1>15, <2>3 DEF NextAnswers
      <3>2. readable'.waiter = c
        BY <1>9, <3>1 DEF Reading
      <3> QED
        BY <1>10, <1>12, <2>0, <3>1, <3>2
    <2> QED
      BY <2>1, <2>2, <2>3
  <1> QED
    BY <1>14, <1>15

LEMMA AskingStep ==
  ASSUME Typed, Owed, Asking, Next
  PROVE  Asking'
  <1>1. SUFFICES ASSUME "race" \notin uses PROVE Orderly(given', readable'.waiter, Callers(stack')) /\ One(Where(stack', {"next"}))
    <2>1. Orderly(given', readable'.waiter, Callers(stack')) /\ One(Where(stack', {"next"})) => Asking'
      BY DEF Orderly, Callers, One, Asking, Open
    <2> QED
      BY <2>1, UsesKept DEF Asking
  <1>2. Orderly(given, readable.waiter, Callers(stack)) /\ One(Where(stack, {"next"}))
    BY <1>1 DEF Orderly, Callers, One, Asking, Open
  <1>3. CASE ~Nexts
    BY <1>2, <1>3, AskingKept, Undisturbed
  <1>4. CASE Next_
    BY <1>1, <1>2, <1>4, NextAsks
  <1>5. CASE NextLooks \/ NextAnswers
    BY <1>2, <1>5, NextGoesOn
  <1> QED
    BY <1>3, <1>4, <1>5 DEF Nexts

-----------------------------------------------------------------------------
(***************************************************************************)
(* Where nobody iterates the pump is called by the host alone.             *)
(***************************************************************************)
Shallow(P, E, N, two, three) ==
  /\ \A i \in P : i = 2
  /\ \A i \in E : i = 3 /\ two = "pump"
  /\ "end" \notin uses => \A i \in N : i = 4 /\ three = "ended"
Depths(s) == Shallow(Where(s, {"pump"}), Where(s, {"ended"}), Where(s, {"end"}), s[2].at, s[3].at)

LEMMA DeepIs ==
  ASSUME Next
  PROVE  /\ Deep <=> (~Pulls => Where(stack, {"next"}) = {} /\ Depths(stack))
         /\ Deep' <=> (~Pulls => Where(stack', {"next"}) = {} /\ Depths(stack'))
  <1>1. uses' = uses
    BY UsesKept
  <1>2. Pulls' <=> Pulls
    BY <1>1 DEF Pulls
  <1> QED
    BY <1>1, <1>2 DEF Deep, Depths, Shallow

LEMMA DeepSame ==
  ASSUME Typed, Depths(stack), Same(stack, stack', {"pump", "ended"}),
         "end" \in uses \/ Same(stack, stack', {"end"})
  PROVE  Depths(stack')
  <1>1. PICK K : K = {"pump", "ended"}
    OBVIOUS
  <1>2. Where(stack', K) = Where(stack, K) /\ \A i \in Where(stack, K) : stack'[i] = stack[i]
    BY <1>1 DEF Same
  <1>3. PICK n, m : n = Len(stack) /\ m = Len(stack')
    OBVIOUS
  <1>4. ASSUME NEW k \in {"pump", "ended"}
        PROVE  Where(stack', {k}) = Where(stack, {k}) /\ \A i \in Where(stack, {k}) : stack'[i] = stack[i]
    <2>1. \A i \in Where(stack, {k}) : i \in Where(stack, K) /\ stack'[i] = stack[i]
      BY <1>1, <1>2 DEF Where
    <2>2. \A i \in Where(stack', {k}) : i \in Where(stack', K) /\ i \in Where(stack, K) /\ stack'[i] = stack[i]
      BY <1>1, <1>2 DEF Where
    <2>3. Where(stack, {k}) \subseteq Where(stack', {k})
      BY <1>2, <2>1 DEF Where
    <2>4. Where(stack', {k}) \subseteq Where(stack, {k})
      BY <1>2, <2>2 DEF Where
    <2> QED
      BY <2>1, <2>3, <2>4
  <1>5. Where(stack', {"pump"}) = Where(stack, {"pump"}) /\ Where(stack', {"ended"}) = Where(stack, {"ended"})
    BY <1>4
  <1>6. ASSUME NEW j \in {2, 3}, stack[j].at \in {"pump", "ended"}, \E i \in Where(stack, {"ended", "end"}) : i = j + 1
        PROVE  stack'[j] = stack[j]
    <2>1. j \in 1 .. Len(stack)
      BY <1>6, TopIs DEF Where
    <2>2. j \in Where(stack, K)
      BY <1>1, <1>6, <2>1 DEF Where, Kind
    <2> QED
      BY <1>2, <2>2
  <1>7. ASSUME NEW i \in Where(stack', {"ended"}) PROVE i = 3 /\ stack'[2].at = "pump"
    <2>1. i \in Where(stack, {"ended"}) /\ i = 3 /\ stack[2].at = "pump"
      BY <1>5, <1>7 DEF Depths, Shallow
    <2>2. stack'[2] = stack[2]
      <3>1. PICK j \in {2, 3} : j = 2
        OBVIOUS
      <3>2. i \in Where(stack, {"ended", "end"}) /\ i = j + 1
        BY <2>1, <3>1 DEF Where
      <3> QED
        BY <1>6, <2>1, <3>1, <3>2
    <2> QED
      BY <2>1, <2>2
  <1>8. ASSUME "end" \notin uses, NEW i \in Where(stack', {"end"}) PROVE i = 4 /\ stack'[3].at = "ended"
    <2>1. i \in Where(stack, {"end"}) /\ i = 4 /\ stack[3].at = "ended"
      BY <1>8 DEF Depths, Shallow, Same
    <2>2. stack'[3] = stack[3]
      <3>1. PICK j \in {2, 3} : j = 3
        OBVIOUS
      <3>2. i \in Where(stack, {"ended", "end"}) /\ i = j + 1
        BY <2>1, <3>1 DEF Where
      <3> QED
        BY <1>6, <2>1, <3>1, <3>2
    <2> QED
      BY <2>1, <2>2
  <1> QED
    BY <1>5, <1>7, <1>8 DEF Depths, Shallow

LEMMA DeepLeft ==
  ASSUME Typed, Depths(stack), NEW n, n = Len(stack),
         \A K : "code" \notin K => Where(stack', K) = Where(stack, K) \ {n},
         \A i \in 1 .. n - 1 : stack'[i] = stack[i]
  PROVE  Depths(stack')
  <1>1. n \in Nat
    BY TopIs
  <1>2. /\ Where(stack', {"pump"}) = Where(stack, {"pump"}) \ {n}
        /\ Where(stack', {"ended"}) = Where(stack, {"ended"}) \ {n}
        /\ Where(stack', {"end"}) = Where(stack, {"end"}) \ {n}
    <2>1. "code" \notin {"pump"} /\ "code" \notin {"ended"} /\ "code" \notin {"end"}
      OBVIOUS
    <2> QED
      BY <2>1
  <1>3. \A K : \A i \in Where(stack, K) : i \in 1 .. n
    BY DEF Where
  <1>4. \A i \in Where(stack', {"ended"}) : i = 3 /\ 3 < n /\ stack[2].at = "pump"
    BY <1>1, <1>2, <1>3 DEF Depths, Shallow
  <1>5. \A i \in Where(stack', {"ended"}) : i = 3 /\ stack'[2].at = "pump"
    BY <1>1, <1>4
  <1>6. "end" \notin uses => \A i \in Where(stack', {"end"}) : i = 4 /\ 4 < n /\ stack[3].at = "ended"
    BY <1>1, <1>2, <1>3 DEF Depths, Shallow
  <1>7. "end" \notin uses => \A i \in Where(stack', {"end"}) : i = 4 /\ stack'[3].at = "ended"
    BY <1>1, <1>6
  <1> QED
    BY <1>2, <1>5, <1>7 DEF Depths, Shallow

LEMMA DeepStep ==
  ASSUME Typed, Owed, Deep, Next
  PROVE  Deep'
  <1>0. ASSUME "next" \notin uses, Where(stack, {"next"}) = {} PROVE ~Nexts /\ Where(stack', {"next"}) = {}
    <2>1. PICK n \in Nat : n = Len(stack) /\ n >= 1 /\ Top = stack[n]
      BY TopIs
    <2>2. Kind(Top) # "next"
      BY <1>0, <2>1 DEF Where
    <2>3. ~NextLooks /\ ~NextAnswers
      BY <2>2, NextTop DEF NextLooks, NextAnswers
    <2>4. ~Next_
      BY <1>0 DEF Next_, Does
    <2>5. ~Nexts
      BY <2>3, <2>4 DEF Nexts
    <2>6. Same(stack, stack', {"next"})
      BY <2>5, Undisturbed
    <2> QED
      BY <1>0, <2>5, <2>6 DEF Same
  <1>1. SUFFICES ASSUME ~Nexts, Depths(stack) PROVE Depths(stack')
    BY <1>0, DeepIs DEF Pulls
  <1>2. PICK n \in Nat : n = Len(stack) /\ n >= 1 /\ Top = stack[n]
    BY TopIs
  <1>3. PICK P, E, N : /\ P = Where(stack, {"pump"}) /\ E = Where(stack, {"ended"}) /\ N = Where(stack, {"end"})
                       /\ P \subseteq 1 .. n /\ E \subseteq 1 .. n /\ N \subseteq 1 .. n
    <2>1. \A K : Where(stack, K) \subseteq 1 .. n
      BY <1>2 DEF Where
    <2> QED
      BY <2>1
  <1>4. PICK Kp, Ke, Kn : Kp = {"pump"} /\ Ke = {"ended"} /\ Kn = {"end"}
    OBVIOUS
  <1>5. "code" \notin Kp /\ "code" \notin Ke /\ "code" \notin Kn
    BY <1>4
  <1>6. \A k : Kind(Top) = k => n \in Where(stack, {k})
    BY <1>2 DEF Where
  <1>7. ASSUME NEW g, Became(g) PROVE
            /\ Where(stack', Kp) = (P \ {n}) \cup (IF Kind(g) \in Kp THEN {n} ELSE {})
            /\ Where(stack', Ke) = (E \ {n}) \cup (IF Kind(g) \in Ke THEN {n} ELSE {})
            /\ Where(stack', Kn) = (N \ {n}) \cup (IF Kind(g) \in Kn THEN {n} ELSE {})
            /\ stack'[n] = g /\ \A i \in 1 .. n - 1 : stack'[i] = stack[i]
    BY <1>2, <1>3, <1>4, <1>5, <1>7, Becoming, Zenon
  <1>8. ASSUME NEW g, NEW f, Called(g, f) PROVE
            /\ Where(stack', Kp) = (P \ {n}) \cup (IF Kind(g) \in Kp THEN {n} ELSE {}) \cup (IF Kind(f) \in Kp THEN {n + 1} ELSE {})
            /\ Where(stack', Ke) = (E \ {n}) \cup (IF Kind(g) \in Ke THEN {n} ELSE {}) \cup (IF Kind(f) \in Ke THEN {n + 1} ELSE {})
            /\ Where(stack', Kn) = (N \ {n}) \cup (IF Kind(g) \in Kn THEN {n} ELSE {}) \cup (IF Kind(f) \in Kn THEN {n + 1} ELSE {})
            /\ stack'[n] = g /\ stack'[n + 1] = f /\ \A i \in 1 .. n - 1 : stack'[i] = stack[i]
    BY <1>2, <1>3, <1>4, <1>5, <1>8, Calling, Zenon
  <1>9. ASSUME Left PROVE Depths(stack')
    <2>1. \A K : "code" \notin K => Where(stack', K) = Where(stack, K) \ {n}
      BY <1>2, <1>9, Leaving
    <2>2. "code" \notin Kp /\ \A i \in 1 .. n - 1 : stack'[i] = stack[i]
      BY <1>2, <1>5, <1>9, Leaving
    <2> QED
      BY <1>1, <1>2, <2>1, <2>2, DeepLeft
  <1>10. Kind(Top) = "pump" => n = 2 /\ E = {} /\ ("end" \notin uses => N = {})
    <2>1. ASSUME Kind(Top) = "pump" PROVE n = 2
      BY <1>1, <1>6, <2>1 DEF Depths, Shallow
    <2> QED
      BY <1>1, <1>3, <2>1 DEF Depths, Shallow
  <1>11. Kind(Top) = "ended" => n = 3 /\ stack[2].at = "pump" /\ ("end" \notin uses => N = {})
    <2>1. ASSUME Kind(Top) = "ended" PROVE n = 3 /\ stack[2].at = "pump"
      BY <1>1, <1>6, <2>1 DEF Depths, Shallow
    <2> QED
      BY <1>1, <1>3, <2>1 DEF Depths, Shallow
  <1>12. \A k \in {"pump", "ended", "end"} : \A g : Kind(g) = k => g.at = k
    BY DEF Kind
  <1>13. /\ \A i \in P : i = 2
         /\ \A i \in E : i = 3 /\ stack[2].at = "pump"
         /\ "end" \notin uses => \A i \in N : i = 4 /\ stack[3].at = "ended"
    BY <1>1, <1>3 DEF Depths, Shallow
  <1>14. ASSUME NEW g, Became(g), Kind(Top) = Kind(g), Kind(g) \in {"pump", "ended"} PROVE Depths(stack')
    <2>1. CASE Kind(g) = "pump"
      <3>1. Where(stack', Kp) \subseteq {2} /\ Where(stack', Ke) = {} /\ ("end" \notin uses => Where(stack', Kn) = {})
        BY <1>4, <1>7, <1>10, <1>13, <1>14, <2>1
      <3> QED
        BY <1>4, <3>1 DEF Depths, Shallow
    <2>2. CASE Kind(g) = "ended"
      <3>1. Where(stack', Kp) \subseteq {2} /\ Where(stack', Ke) \subseteq {3} /\ ("end" \notin uses => Where(stack', Kn) = {})
        BY <1>4, <1>7, <1>11, <1>13, <1>14, <2>2
      <3>2. stack'[2].at = "pump"
        BY <1>7, <1>11, <1>14, <2>2
      <3> QED
        BY <1>4, <3>1, <3>2 DEF Depths, Shallow
    <2> QED
      BY <1>14, <2>1, <2>2
  <1>15. CASE HostPumps
    <2>1. n = 1
      BY <1>2, <1>15, TopIs DEF HostPumps
    <2>2. Grew(stack, stack', 1, <<Pump>>)
      BY <1>15, HostPumpsTyped DEF Turned, Moved
    <2>3. PICK more : more = <<Pump>> /\ Len(more) = 1 /\ more[1] = Pump /\ Kind(Pump) = "pump"
      <3>1. Kind(Pump) = "pump"
        BY PlainFrames
      <3>2. Len(<<Pump>>) = 1 /\ <<Pump>>[1] = Pump
        OBVIOUS
      <3> QED
        BY <3>1, <3>2
    <2>4. \A K : Where(stack', K) = {i \in Where(stack, K) : i <= 1} \cup {1 + j : j \in Where(more, K)}
      <3>1. PICK one : one = 1
        OBVIOUS
      <3>2. Grew(stack, stack', one, more)
        BY <2>2, <2>3, <3>1
      <3>3. Len(stack) \in Nat
        BY <1>2
      <3>4. \A K : Where(stack', K) = {i \in Where(stack, K) : i <= one} \cup {one + j : j \in Where(more, K)}
        BY <3>2, <3>3, WhereGrew
      <3> QED
        BY <3>1, <3>4
    <2>5. Where(more, Kp) = {1} /\ Where(more, Ke) = {} /\ Where(more, Kn) = {}
      BY <1>4, <2>3 DEF Where
    <2>6. \A i \in P \cup E \cup N : i = 1
      BY <1>3, <2>1
    <2>7. P = {} /\ E = {} /\ ("end" \notin uses => N = {})
      BY <1>13, <2>6
    <2>8. Where(stack', Kp) \subseteq {2} /\ Where(stack', Ke) = {} /\ ("end" \notin uses => Where(stack', Kn) = {})
      <3>1. Where(stack', Kp) = {i \in P : i <= 1} \cup {1 + j : j \in {1}}
        BY <1>3, <1>4, <2>4, <2>5
      <3>2. Where(stack', Ke) = {i \in E : i <= 1} \cup {1 + j : j \in {}}
        BY <1>3, <1>4, <2>4, <2>5
      <3>3. Where(stack', Kn) = {i \in N : i <= 1} \cup {1 + j : j \in {}}
        BY <1>3, <1>4, <2>4, <2>5
      <3> QED
        BY <2>7, <3>1, <3>2, <3>3
    <2> QED
      BY <1>4, <2>8 DEF Depths, Shallow
  <1>16. CASE PumpServes \/ PumpServesProdded
    <2>1. PICK retry \in BOOLEAN : Serve(retry) /\ Top.at = "pump" /\ UNCHANGED <<made, accepted, program>> /\ OnlyReadable
      BY <1>16, Zenon DEF PumpServes, PumpServesProdded
    <2>2. Kind(Top) = "pump" /\ (Left \/ \E g : Became(g) /\ Kind(g) = "pump")
      BY <2>1, ServeTyped
    <2> QED
      BY <1>9, <1>14, <2>2
  <1>17. CASE PumpEnd
    <2>1. PICK g : /\ Kind(Top) = "pump" /\ Kind(g) = "pump"
                   /\ Became(g) \/ \E f : Called(g, f) /\ Kind(f) = "ended"
      BY <1>17, PumpEndTyped
    <2>2. CASE Became(g)
      BY <1>14, <2>1, <2>2
    <2>3. CASE \E f : Called(g, f) /\ Kind(f) = "ended"
      <3>1. PICK f : Called(g, f) /\ Kind(f) = "ended"
        BY <2>3
      <3>2. n = 2 /\ E = {} /\ ("end" \notin uses => N = {})
        BY <1>10, <2>1
      <3>3. Where(stack', Kp) \subseteq {2}
        BY <1>4, <1>8, <1>13, <2>1, <3>1, <3>2
      <3>4. Where(stack', Ke) \subseteq {3} /\ ("end" \notin uses => Where(stack', Kn) = {})
        BY <1>4, <1>8, <2>1, <3>1, <3>2
      <3>5. stack'[2].at = "pump"
        BY <1>8, <1>12, <2>1, <3>1, <3>2
      <3> QED
        BY <1>4, <3>3, <3>4, <3>5 DEF Depths, Shallow
    <2> QED
      BY <2>1, <2>2, <2>3
  <1>18. CASE EndsPipes
    <2>1. /\ Kind(Top) = "ended"
          /\ \/ Left
             \/ \E g : Kind(g) = "ended" /\ (Became(g) \/ \E d \in Dsts : Called(g, End(d)) /\ Kind(End(d)) = "end")
      BY <1>18, EndLooksUpTyped, EndsPipeTyped, PipesEndedTyped DEF EndsPipes
    <2>2. CASE Left
      BY <1>9, <2>2
    <2>3. CASE \E g : Kind(g) = "ended" /\ Became(g)
      BY <1>14, <2>1, <2>3
    <2>4. CASE \E g : Kind(g) = "ended" /\ \E d \in Dsts : Called(g, End(d)) /\ Kind(End(d)) = "end"
      <3>1. PICK g, f : Kind(g) = "ended" /\ Called(g, f) /\ Kind(f) = "end"
        BY <2>4
      <3>2. n = 3 /\ stack[2].at = "pump" /\ ("end" \notin uses => N = {})
        BY <1>11, <2>1
      <3>3. Where(stack', Kp) \subseteq {2}
        BY <1>4, <1>8, <1>13, <3>1, <3>2
      <3>4. Where(stack', Ke) \subseteq {3}
        BY <1>4, <1>8, <1>13, <3>1, <3>2
      <3>5. "end" \notin uses => Where(stack', Kn) \subseteq {4}
        BY <1>4, <1>8, <3>1, <3>2
      <3>6. stack'[2].at = "pump" /\ stack'[3].at = "ended"
        BY <1>8, <1>12, <3>1, <3>2
      <3> QED
        BY <1>4, <3>3, <3>4, <3>5, <3>6 DEF Depths, Shallow
    <2> QED
      BY <2>1, <2>2, <2>3, <2>4
  <1>19. CASE Ends
    <2>1. Spares({"end", "write"}) /\ "end" \in uses
      BY <1>19, EndsTyped
    <2>2. Same(stack, stack', {"pump", "ended"})
      BY <2>1 DEF Spares
    <2> QED
      BY <1>1, <2>1, <2>2, DeepSame
  <1>20. CASE EndSets
    <2>1. PICK f : Became(f) /\ Kind(f) = "maybeFinish"
      BY <1>20, EndSetsTyped
    <2>2. Where(stack', Kp) = P \ {n} /\ Where(stack', Ke) = E \ {n} /\ Where(stack', Kn) = N \ {n}
      BY <1>4, <1>7, <2>1
    <2>3. \A i \in Where(stack', Ke) : i = 3 /\ 2 \in 1 .. n - 1 /\ stack[2].at = "pump"
      BY <1>3, <1>13, <2>2
    <2>4. \A i \in Where(stack', Ke) : i = 3 /\ stack'[2].at = "pump"
      BY <1>7, <2>1, <2>3
    <2>5. "end" \notin uses => \A i \in Where(stack', Kn) : i = 4 /\ 3 \in 1 .. n - 1 /\ stack[3].at = "ended"
      BY <1>3, <1>13, <2>2
    <2>6. "end" \notin uses => \A i \in Where(stack', Kn) : i = 4 /\ stack'[3].at = "ended"
      BY <1>7, <2>1, <2>5
    <2> QED
      BY <1>4, <1>13, <2>2, <2>4, <2>6 DEF Depths, Shallow
  <1>22. CASE Same(stack, stack', {"pump", "ended", "end"})
    <2>1. Same(stack, stack', {"pump", "ended"}) /\ Same(stack, stack', {"end"})
      <3>1. ASSUME NEW L, L \subseteq {"pump", "ended", "end"} PROVE Same(stack, stack', L)
        <4>1. PICK K : K = {"pump", "ended", "end"}
          OBVIOUS
        <4>2. Where(stack', K) = Where(stack, K) /\ \A i \in Where(stack, K) : stack'[i] = stack[i]
          BY <1>22, <4>1 DEF Same
        <4>3. \A i \in Where(stack, L) : i \in Where(stack, K)
          BY <3>1, <4>1 DEF Where
        <4>4. \A i \in Where(stack', L) : i \in Where(stack', K)
          BY <3>1, <4>1 DEF Where
        <4>5. Where(stack', L) = Where(stack, L)
          BY <4>2, <4>3, <4>4 DEF Where
        <4> QED
          BY <4>2, <4>3, <4>5 DEF Same
      <3> QED
        BY <3>1
    <2> QED
      BY <1>1, <2>1, DeepSame
  <1> QED
    BY <1>1, <1>15, <1>16, <1>17, <1>18, <1>19, <1>20, <1>22, Undisturbed DEF Serves

-----------------------------------------------------------------------------
(***************************************************************************)
(* Who changes the marks of the Readable.                                  *)
(***************************************************************************)
Marks(q, f, e, t, p) == q.flowing = f /\ q.ended = e /\ q.readableEnded = t /\ q.pipes = p
Unmarked(q, r) == Marks(q, r.flowing, r.ended, r.readableEnded, r.pipes)

LEMMA MarkFields ==
  ASSUME NEW r, r \in Reading
  PROVE  /\ \A x : Marks([r EXCEPT !.ended = x], r.flowing, x, r.readableEnded, r.pipes)
         /\ \A x : Marks([r EXCEPT !.readableEnded = x], r.flowing, r.ended, x, r.pipes)
         /\ \A x : Marks([r EXCEPT !.flowing = x], x, r.ended, r.readableEnded, r.pipes)
         /\ \A x : Marks([r EXCEPT !.pipes = x], r.flowing, r.ended, r.readableEnded, x)
         /\ \A x : Unmarked([r EXCEPT !.consumed = x], r)
         /\ \A x : Unmarked([r EXCEPT !.waiter = x], r)
         /\ \A x : Unmarked([r EXCEPT !.destroyed = x], r)
         /\ \A x, y : Marks([r EXCEPT !.consumed = x, !.flowing = y], y, r.ended, r.readableEnded, r.pipes)
         /\ \A x, y : Unmarked([r EXCEPT !.buf = x, !.length = y], r)
         /\ Unmarked(Shifted(r), r) /\ Unmarked(r, r)
         /\ \A x : Unmarked([Shifted(r) EXCEPT !.waiter = x], r)
         /\ Unmarked(Shifted([r EXCEPT !.consumed = TRUE]), r)
  BY DEF Reading, Marks, Unmarked, Shifted

MarksKept ==
  LET q == readable'
      r == readable IN
  /\ ResumeStarts \/ (r.flowing # "on" => q.flowing # "on")
  /\ r.ended => q.ended
  /\ PumpEnd \/ q.readableEnded = r.readableEnded
  /\ Pipe \/ Unpiped \/ PipesEnded \/ q.pipes = r.pipes

LEMMA AnswersUnmarked ==
  ASSUME NEW r \in Reading, NEW what, Answer(r, what) \/ EndWaiter(r) \/ readable' = r
  PROVE  Unmarked(readable', r)
  <1>1. \A x : Unmarked([r EXCEPT !.waiter = x], r)
    BY MarkFields, Zenon
  <1>2. Unmarked(r, r)
    BY MarkFields, Zenon
  <1>3. readable' = r \/ \E x : readable' = [r EXCEPT !.waiter = x]
    BY Zenon DEF Answer, EndWaiter
  <1> QED
    BY <1>1, <1>2, <1>3, Zenon

LEMMA ReaderMarks ==
  ASSUME Typed, Next
  PROVE  MarksKept
  <1>0. readable \in Reading
    BY DEF Typed
  <1>1. ASSUME Unmarked(readable', readable) PROVE MarksKept
    BY <1>1 DEF Unmarked, Marks, MarksKept
  <1>2. CASE UNCHANGED readable
    BY <1>2 DEF MarksKept
  <1>3. CASE Wrote \/ Asks
    BY <1>2, <1>3, WroteKeeps, AsksKeep
  <1>4. CASE Resumes \/ Unpipe \/ Drained \/ DeliverData \/ DeliverLooksUpPipes \/ DeliverWrites \/ Delivered
             \/ UnpipeLooks \/ EndLooksUpPipes \/ EndsPipe \/ HostPumps \/ HostCalls
    <2>1. UNCHANGED readable
      BY <1>4, Zenon DEF Resumes, Unpipe, Drained, DeliverData, DeliverLooksUpPipes,
         DeliverWrites, Delivered, UnpipeLooks, EndLooksUpPipes, EndsPipe, HostPumps, HostCalls
    <2> QED
      BY <1>2, <2>1
  <1>5. CASE Pause \/ DeliverPauses
    <2>1. PICK x : x = IF Flows THEN "off" ELSE readable.flowing
      OBVIOUS
    <2>2. readable' = [readable EXCEPT !.flowing = x]
      BY <1>5, <2>1, Zenon DEF Pause, DeliverPauses, Paused
    <2>3. Marks(readable', x, readable.ended, readable.readableEnded, readable.pipes)
      BY <1>0, <2>2, MarkFields, Zenon
    <2> QED
      BY <2>1, <2>3 DEF MarksKept, Marks, Flows
  <1>6. CASE ResumeStarts
    <2>1. PICK x, y : readable' = [readable EXCEPT !.consumed = x, !.flowing = y]
      BY <1>6, Zenon DEF ResumeStarts
    <2>2. Marks(readable', y, readable.ended, readable.readableEnded, readable.pipes)
      BY <1>0, <2>1, MarkFields, Zenon
    <2> QED
      BY <1>6, <2>2 DEF MarksKept, Marks
  <1>7. CASE PushNull
    <2>1. PICK t : t = TRUE
      OBVIOUS
    <2>2. PICK r : r = [readable EXCEPT !.ended = t]
      OBVIOUS
    <2>3. r \in Reading
      BY <1>0, <2>1, <2>2 DEF Reading
    <2>4. Marks(r, readable.flowing, t, readable.readableEnded, readable.pipes)
      BY <1>0, <2>2, MarkFields, Zenon
    <2>5. EndWaiter(r)
      BY <1>7, <2>1, <2>2, Zenon DEF PushNull
    <2>6. Unmarked(readable', r)
      BY <2>3, <2>5, AnswersUnmarked, Zenon
    <2> QED
      BY <2>1, <2>4, <2>6 DEF Marks, Unmarked, MarksKept
  <1>8. CASE IteratorReturn
    <2>1. PICK r : r = [readable EXCEPT !.destroyed = TRUE]
      OBVIOUS
    <2>2. r \in Reading
      BY <1>0, <2>1 DEF Reading
    <2>3. Unmarked(r, readable)
      BY <1>0, <2>1, MarkFields, Zenon
    <2>4. EndWaiter(r)
      BY <1>8, <2>1, Zenon DEF IteratorReturn
    <2>5. Unmarked(readable', r)
      BY <2>2, <2>4, AnswersUnmarked, Zenon
    <2> QED
      BY <1>1, <2>3, <2>5 DEF Marks, Unmarked
  <1>9. CASE PumpEnd
    <2>1. readable' = readable \/ \E x : readable' = [readable EXCEPT !.readableEnded = x]
      BY <1>9, Zenon DEF PumpEnd
    <2>2. CASE \E x : readable' = [readable EXCEPT !.readableEnded = x]
      <3>1. PICK x : readable' = [readable EXCEPT !.readableEnded = x]
        BY <2>2
      <3>2. Marks(readable', readable.flowing, readable.ended, x, readable.pipes)
        BY <1>0, <3>1, MarkFields, Zenon
      <3> QED
        BY <1>9, <3>2 DEF MarksKept, Marks
    <2> QED
      BY <1>2, <2>1, <2>2
  <1>10. CASE Pipe \/ Unpiped \/ PipesEnded
    <2>1. PICK p : readable' = [readable EXCEPT !.pipes = p]
      <3>1. CASE Pipe
        BY <3>1, PipeTyped
      <3>2. CASE Unpiped \/ PipesEnded
        BY <3>2, Zenon DEF Unpiped, PipesEnded
      <3> QED
        BY <1>10, <3>1, <3>2
    <2>2. Marks(readable', readable.flowing, readable.ended, readable.readableEnded, p)
      BY <1>0, <2>1, MarkFields, Zenon
    <2> QED
      BY <1>10, <2>2 DEF MarksKept, Marks
  <1>11. CASE Read
    <2>1. readable' = [readable EXCEPT !.consumed = TRUE] \/ readable' = Shifted([readable EXCEPT !.consumed = TRUE])
      BY <1>11 DEF Read
    <2>2. Unmarked(readable', readable)
      <3>1. Unmarked([readable EXCEPT !.consumed = TRUE], readable)
        BY <1>0, MarkFields, Zenon
      <3>2. Unmarked(Shifted([readable EXCEPT !.consumed = TRUE]), readable)
        BY <1>0, MarkFields
      <3> QED
        BY <2>1, <3>1, <3>2
    <2> QED
      BY <1>1, <2>2
  <1>12. CASE Push
    <2>1. UNCHANGED readable \/ Answer(readable, "chunk")
      BY <1>12, Zenon DEF Push
    <2> QED
      BY <1>0, <1>1, <2>1, AnswersUnmarked
  <1>13. CASE PumpServes \/ PumpServesProdded
    <2>1. PICK retry \in BOOLEAN : Serve(retry)
      BY <1>13, Zenon DEF PumpServes, PumpServesProdded
    <2>2. UNCHANGED readable \/ Answer(readable, "done") \/ Answer(Shifted(readable), "chunk")
      BY <2>1, Zenon DEF Serve
    <2>3. CASE UNCHANGED readable
      BY <1>2, <2>3
    <2>4. CASE Answer(readable, "done")
      BY <1>0, <1>1, <2>4, AnswersUnmarked
    <2>5. CASE Answer(Shifted(readable), "chunk")
      <3>1. readable' = [Shifted(readable) EXCEPT !.waiter = 0]
        BY <2>5 DEF Answer
      <3>2. \A x : Unmarked([Shifted(readable) EXCEPT !.waiter = x], readable)
        BY <1>0, MarkFields
      <3> QED
        BY <1>1, <3>1, <3>2
    <2> QED
      BY <2>2, <2>3, <2>4, <2>5
  <1>14. CASE Next_
    <2>1. \/ \E x : readable' = [readable EXCEPT !.waiter = x]
          \/ \E x : readable' = [readable EXCEPT !.consumed = x]
      BY <1>14, Zenon DEF Next_
    <2> QED
      BY <1>0, <1>1, <2>1, MarkFields, Zenon
  <1>15. CASE NextLooks \/ NextAnswers
    <2>1. \/ UNCHANGED readable \/ readable' = Shifted(readable)
          \/ \E x : readable' = [readable EXCEPT !.waiter = x]
      BY <1>15, Zenon DEF NextLooks, NextAnswers, Hands
    <2>2. Unmarked(Shifted(readable), readable)
      BY <1>0, MarkFields
    <2>3. \A x : Unmarked([readable EXCEPT !.waiter = x], readable)
      BY <1>0, MarkFields, Zenon
    <2> QED
      BY <1>1, <1>2, <2>1, <2>2, <2>3
  <1>16. CASE PlacePushed
    <2>1. UNCHANGED readable \/ \E x, y : readable' = [readable EXCEPT !.buf = x, !.length = y]
      BY <1>16 DEF PlacePushed, Buffered
    <2>2. CASE \E x, y : readable' = [readable EXCEPT !.buf = x, !.length = y]
      <3>1. PICK x, y : readable' = [readable EXCEPT !.buf = x, !.length = y]
        BY <2>2
      <3>2. Unmarked(readable', readable)
        BY <1>0, <3>1 DEF Reading, Unmarked, Marks
      <3> QED
        BY <1>1, <3>2
    <2> QED
      BY <1>2, <2>1, <2>2
  <1>17. CASE DrainOne
    <2>1. readable' = Shifted(readable)
      BY <1>17, Zenon DEF DrainOne
    <2>2. Unmarked(Shifted(readable), readable)
      BY <1>0, MarkFields
    <2> QED
      BY <1>1, <2>1, <2>2
  <1>18. CASE Destroy
    <2>1. \E x : readable' = [readable EXCEPT !.destroyed = x]
      BY <1>18, Zenon DEF Destroy
    <2> QED
      BY <1>0, <1>1, <2>1, MarkFields, Zenon
  <1> QED
    BY <1>3, <1>4, <1>5, <1>6, <1>7, <1>8, <1>9, <1>10, <1>11, <1>12, <1>13, <1>14, <1>15, <1>16, <1>17,
       <1>18, NextParts DEF Reads

-----------------------------------------------------------------------------
(***************************************************************************)
(* Where nothing flows a push is placed at once.                           *)
(***************************************************************************)
LEMMA PushIsPlaced ==
  ASSUME Next, Top.at = "push"
  PROVE  PlacePushed
  <1>1. ~ProgramSteps
    BY DEF ProgramSteps, Does, Push, PushNull, Read, Resumes, Pause, Pipe, Unpipe, Destroy, Next_,
       IteratorReturn, Writes, Ends, Cork, Uncork, CompletesLater, HostCalls
  <1>2. StreamSteps => PlacePushed
    BY DEF StreamSteps, ResumeStarts, DrainOne, Drained, Delivering, DeliverData, DeliverLooksUpPipes,
       DeliverWrites, DeliverPauses, Delivered, UnpipeLooks, Unpiped, EndLooksUpPipes, EndsPipe,
       PipesEnded, PumpEnd, PumpServes, PumpServesProdded, NextLooks, NextAnswers, WriteStarts,
       Dispatch, QueueDrained, FinalizeShrinks, FinalizeDrains, EndSets, MaybeFinishes, Finish,
       Completes, CodeEnds, HostPumps
  <1> QED
    BY <1>1, <1>2 DEF Next

LEMMA QueuesAddNone ==
  ASSUME Typed, Queues, NEW K, Where(stack, K) = {}, "code" \notin K, "drainQueue" \notin K
  PROVE  Where(stack', K) = {}
  <1>1. PICK n \in Nat : n = Len(stack)
    BY TopIs
  <1>2. CASE Answered
    BY <1>2 DEF Answered
  <1>3. CASE \E f : Became(f) /\ Kind(f) = "drainQueue"
    <2>1. PICK f : Became(f) /\ Kind(f) = "drainQueue"
      BY <1>3
    <2>2. Where(stack', K) = (Where(stack, K) \ {n}) \cup (IF Kind(f) \in K THEN {n} ELSE {})
      BY <1>1, <2>1, Becoming
    <2> QED
      BY <2>1, <2>2
  <1>4. CASE Uncork
    <2>1. PICK A : A = {"drainQueue"} /\ A \cap K = {}
      OBVIOUS
    <2>2. Spares(A)
      BY <1>4, <2>1, UncorkTyped
    <2> QED
      BY <2>1, <2>2 DEF Spares, Same
  <1> QED
    BY <1>2, <1>3, <1>4, WriteStartsTyped, QueueDrainedTyped DEF Queues

Flowings == {"data", "deliver", "resume"}

LEMMA StillFrames ==
  ASSUME Typed, Owed, Next, ~Flows, Where(stack, Flowings) = {}, ~Resumes, ~Pipe
  PROVE  Where(stack', Flowings) = {} /\ ~ResumeStarts
  <1>1. PICK n \in Nat : n = Len(stack) /\ n >= 1 /\ Top = stack[n]
    BY TopIs
  <1>2. Kind(Top) \notin Flowings
    BY <1>1 DEF Where
  <1>3. ~ResumeStarts /\ ~DeliverData /\ ~Pipes
    <2>1. ResumeStarts => Kind(Top) = "resume"
      BY ResumeStartsTyped
    <2>2. DeliverData => Kind(Top) = "data"
      BY DeliverDataTyped
    <2>3. Pipes => Kind(Top) = "deliver"
      BY LooksUpTyped, PausesTyped, DeliveredTyped, DeliverWritesTyped DEF Pipes
    <2> QED
      BY <1>2, <2>1, <2>2, <2>3 DEF Flowings
  <1>4. ~DrainOne
    BY DEF DrainOne
  <1>5. "code" \notin Flowings
    BY DEF Flowings
  <1>6. ASSUME Left PROVE Where(stack', Flowings) = {}
    BY <1>5, <1>6, Leaving
  <1>8. CASE PlacePushed
    <2>1. Left
      BY <1>8, PlacePushedTyped
    <2> QED
      BY <1>3, <1>6, <2>1
  <1>9. CASE Drained
    BY <1>3, <1>6, <1>9, DrainedTyped
  <1>10. CASE Queues
    <2>1. "drainQueue" \notin Flowings
      BY DEF Flowings
    <2> QED
      BY <1>3, <1>5, <1>10, <2>1, QueuesAddNone
  <1>11. CASE Same(stack, stack', {"data", "deliver"}) /\ Same(stack, stack', {"resume"})
    <2>1. Where(stack', {"data", "deliver"}) = {} /\ Where(stack', {"resume"}) = {}
      BY <1>11 DEF Same, Where, Flowings
    <2> QED
      BY <1>3, <2>1 DEF Where, Flowings
  <1>12. CASE PlacePushed \/ DrainOne \/ DeliverData \/ Queues \/ Pipes \/ Starts
    BY <1>3, <1>4, <1>8, <1>9, <1>10, <1>12 DEF Starts
  <1> QED
    BY <1>3, <1>11, <1>12, Undisturbed

LEMMA StillPushes ==
  ASSUME Typed, Owed, Next, ~Flows, \A i \in Where(stack, {"push"}) : i = Len(stack)
  PROVE  \A i \in Where(stack', {"push"}) : i = Len(stack')
  <1>1. PICK n \in Nat : n = Len(stack) /\ n >= 1 /\ Top = stack[n]
    BY TopIs
  <1>2. PICK K : K = {"push"} /\ "code" \notin K
    <2>1. "code" \notin {"push"}
      OBVIOUS
    <2> QED
      BY <2>1
  <1>3. CASE PlacePushed
    <2>1. Left
      BY <1>3, PlacePushedTyped
    <2>2. Where(stack', K) = Where(stack, K) \ {n}
      BY <1>1, <1>2, <2>1, Leaving
    <2> QED
      BY <1>1, <1>2, <2>2
  <1>4. ASSUME ~PlacePushed PROVE Where(stack, K) = {}
    <2>1. Top.at # "push"
      BY <1>4, PushIsPlaced
    <2>2. Kind(Top) # "push"
      BY <2>1 DEF Kind
    <2> QED
      BY <1>1, <1>2, <2>2 DEF Where
  <1>5. CASE Push
    <2>1. Where(stack, K) = {}
      BY <1>4, <1>5 DEF Push, Does, PlacePushed
    <2>2. PICK c : LET f == [at |-> "push", chunk |-> c] IN
              /\ f \in Frame' /\ Kind(f) = "push"
              /\ \/ Turned(Len(stack), <<>>, {}) /\ UNCHANGED stack
                 \/ Turned(Len(stack), <<f>> \o <<>>, {"push"})
      BY <1>5, PushTyped
    <2>3. PICK f : /\ f = [at |-> "push", chunk |-> c] /\ f \in Frame'
                   /\ UNCHANGED stack \/ Turned(Len(stack), <<f>> \o <<>>, {"push"})
      BY <2>2
    <2>4. CASE UNCHANGED stack
      BY <1>2, <2>1, <2>4
    <2>5. CASE Turned(Len(stack), <<f>> \o <<>>, {"push"})
      <3>1. PICK more : more = <<f>> \o <<>> /\ Len(more) = 1
        <4>1. <<f>> \in Seq(Frame')
          BY <2>3
        <4>2. <<f>> \o <<>> = <<f>>
          BY <4>1, ConcatEmptySeq
        <4>3. Len(<<f>>) = 1
          OBVIOUS
        <4> QED
          BY <4>2, <4>3
      <3>2. Grew(stack, stack', n, more) /\ Len(stack') = n + 1
        BY <1>1, <2>5, <3>1 DEF Turned, Moved, Grew
      <3>3. Where(stack', K) = {i \in Where(stack, K) : i <= n} \cup {n + j : j \in Where(more, K)}
        BY <1>1, <3>2, WhereGrew
      <3>4. \A j \in Where(more, K) : j = 1
        BY <3>1 DEF Where
      <3>5. \A i \in Where(stack', K) : i = n + 1
        BY <2>1, <3>3, <3>4
      <3> QED
        BY <1>2, <3>2, <3>5
    <2> QED
      BY <2>3, <2>4, <2>5
  <1>6. CASE ~Push /\ ~PlacePushed
    <2>1. Same(stack, stack', K)
      BY <1>2, <1>6, Undisturbed
    <2>2. Where(stack', K) = {}
      BY <1>4, <1>6, <2>1 DEF Same
    <2> QED
      BY <1>2, <2>2
  <1> QED
    BY <1>3, <1>5, <1>6

LEMMA StillStep ==
  ASSUME Typed, Owed, Still, Next
  PROVE  Still'
  <1>1. uses' = uses
    BY UsesKept
  <1>2. SUFFICES ASSUME ~MayFlow
                 PROVE  /\ ~Flows' /\ Where(stack', Flowings) = {}
                        /\ \A i \in Where(stack', {"push"}) : i = Len(stack')
    BY <1>1 DEF Still, MayFlow, Flowings
  <1>3. /\ ~Flows /\ Where(stack, Flowings) = {}
        /\ \A i \in Where(stack, {"push"}) : i = Len(stack)
    BY <1>2 DEF Still, Flowings
  <1>4. ~Resumes /\ ~Pipe
    BY <1>2 DEF MayFlow, Resumes, Pipe, Does
  <1>5. Where(stack', Flowings) = {} /\ ~ResumeStarts
    BY <1>3, <1>4, StillFrames
  <1>6. ~Flows'
    BY <1>3, <1>5, ReaderMarks DEF MarksKept, Flows
  <1> QED
    BY <1>3, <1>5, <1>6, StillPushes

-----------------------------------------------------------------------------
(***************************************************************************)
(* The end is told when all has been handed over.                          *)
(***************************************************************************)
LEMMA NothingWeighed ==
  ASSUME Typed, Weighed, readable.length = 0
  PROVE  \A i \in 1 .. Len(readable.buf) : readable.buf[i].size = 0
  <1>1. PICK q, S : q = readable.buf /\ S = Chunk /\ q \in Seq(S)
    BY DEF Typed, Reading
  <1>2. PICK K \in Nat : K = Len(q)
    BY <1>1
  <1>3. ASSUME NEW i \in 1 .. K PROVE q[i].size \in Nat
    <2>1. q[i] \in Chunk
      BY <1>1, <1>2
    <2> QED
      BY <2>1, ChunkIs
  <1>4. PICK g : Sums(g, q) /\ Total(q) = g[K]
    BY <1>2, <1>3, TotalIs
  <1>5. /\ \A n \in 0 .. K : g[n] \in Nat
        /\ \A n \in 1 .. K : g[n] = g[n - 1] + q[n].size
        /\ g[K] = 0
    BY <1>1, <1>2, <1>4 DEF Sums, Weighed
  <1> DEFINE T == {n \in 0 .. K : g[K - n] = 0}
  \* A sum that comes to nothing came to nothing before.
  <1>6. \A n \in 0 .. K : n \in T
    <2>1. 0 \in T
      BY <1>2, <1>5
    <2>2. ASSUME NEW n \in 0 .. K - 1, n \in T PROVE n + 1 \in T
      <3>1. PICK m \in 1 .. K : m = K - n /\ m - 1 = K - (n + 1) /\ n + 1 \in 0 .. K
        BY <1>2, <2>2
      <3>2. g[m] = 0 /\ g[m] = g[m - 1] + q[m].size /\ g[m - 1] \in Nat /\ q[m].size \in Nat
        <4>1. m - 1 \in 0 .. K
          BY <1>2, <3>1
        <4> QED
          BY <1>3, <1>5, <2>2, <3>1, <4>1
      <3>3. g[m - 1] = 0
        <4>1. PICK x \in Nat, y \in Nat : x = g[m - 1] /\ y = q[m].size
          BY <3>2
        <4> QED
          BY <3>2, <4>1
      <3> QED
        BY <3>1, <3>3
    <2> HIDE DEF T
    <2> QED
      BY <1>2, <2>1, <2>2, SetInduction
  <1>7. ASSUME NEW i \in 1 .. K PROVE q[i].size = 0
    <2>1. K - i \in T /\ K - (i - 1) \in T /\ K - (K - i) = i /\ K - (K - (i - 1)) = i - 1
      BY <1>2, <1>6
    <2>2. g[i] = 0 /\ g[i - 1] = 0
      BY <2>1
    <2>3. PICK y \in Nat : y = q[i].size
      BY <1>3
    <2>4. 0 = 0 + y
      BY <1>5, <2>2, <2>3
    <2> QED
      BY <2>3, <2>4
  <1> QED
    BY <1>1, <1>2, <1>7

OnTheWay == {"push", "data", "deliver"}

LEMMA OnTheWayApart ==
  ASSUME NEW s
  PROVE  /\ Where(s, OnTheWay) = Where(s, {"push"}) \cup Where(s, {"data", "deliver"})
         /\ Where(s, Hand) \subseteq Where(s, OnTheWay)
  BY DEF OnTheWay, Where, Hand

LEMMA PumpIsAlone ==
  ASSUME Typed, Deep, Still, ~(Pulls /\ MayFlow), Top.at = "pump"
  PROVE  Where(stack, OnTheWay) = {}
  <1>1. PICK n \in Nat : n = Len(stack) /\ n >= 1 /\ Top = stack[n]
    BY TopIs
  <1>2. Kind(Top) = "pump"
    BY PumpTop
  <1>3. CASE ~MayFlow
    <2>1. Where(stack, {"data", "deliver"}) = {}
      BY <1>3 DEF Still, Where
    <2>2. \A i \in Where(stack, {"push"}) : i = n /\ Kind(stack[i]) = "push"
      BY <1>1, <1>3 DEF Still, Where
    <2>3. Where(stack, {"push"}) = {}
      BY <1>1, <1>2, <2>2
    <2> QED
      BY <2>1, <2>3, OnTheWayApart
  <1>4. CASE ~Pulls
    <2>1. n \in Where(stack, {"pump"})
      BY <1>1, <1>2 DEF Where
    <2>2. n = 2
      BY <1>4, <2>1 DEF Deep
    <2>3. stack[1].at = "host"
      BY <1>1 DEF Typed, Stacked
    <2>4. Kind(stack[1]) = "host"
      BY <2>3 DEF Kind
    <2>5. ASSUME NEW i \in Where(stack, OnTheWay) PROVE FALSE
      <3>1. i \in 1 .. 2 /\ Kind(stack[i]) \in OnTheWay
        BY <1>1, <2>2 DEF Where
      <3>2. i = 1 \/ i = 2
        BY <3>1
      <3> QED
        BY <1>1, <1>2, <2>2, <2>4, <3>1, <3>2 DEF OnTheWay
    <2> QED
      BY <2>5
  <1> QED
    BY <1>3, <1>4

\* What is left when the end is told.
Empties(q) == \A i \in 1 .. Len(q) : q[i].size = 0
Carries(s) == \A i \in Where(s, {"data"}) : s[i].chunk.size = 0

LEMMA BufferStaysEmpty ==
  ASSUME Typed, Owed, Next, ~PlacePushed, Empties(readable.buf)
  PROVE  Empties(readable'.buf)
  <1>1. BufSame \/ BufTaken
    BY ChunksFlow DEF ChunkFlow, Quiet, Take
  <1>2. CASE BufSame
    BY <1>2 DEF BufSame, Bufs, Empties
  <1>3. CASE BufTaken
    <2>1. PICK q, S : q = readable.buf /\ q \in Seq(S) /\ q # <<>>
      BY <1>3 DEF Typed, Reading, BufTaken
    <2>2. PICK t : t = Tail(q)
      OBVIOUS
    <2>3. Len(t) \in Nat /\ Len(q) = Len(t) + 1 /\ \A i \in 1 .. Len(t) : t[i] = q[i + 1]
      BY <2>1, <2>2
    <2>4. ASSUME NEW i \in 1 .. Len(t) PROVE t[i].size = 0
      <3>1. i + 1 \in 1 .. Len(q) /\ t[i] = q[i + 1]
        BY <2>3
      <3> QED
        BY <2>1, <3>1 DEF Empties
    <2> QED
      BY <1>3, <2>1, <2>2, <2>4 DEF BufTaken, Empties
  <1> QED
    BY <1>1, <1>2, <1>3

LEMMA DeliveriesStayEmpty ==
  ASSUME Typed, Owed, Next, readable.ended, ~PlacePushed, Empties(readable.buf), Carries(stack)
  PROVE  Carries(stack')
  <1>1. PICK n \in Nat : n = Len(stack) /\ n >= 1 /\ Top = stack[n]
    BY TopIs
  <1>2. PICK K, X, Z : /\ K = {"data"} /\ X = Where(stack, K) /\ Z = Where(stack', K)
                       /\ "code" \notin K /\ "drainQueue" \notin K /\ "deliver" \notin K
    <2>1. "code" \notin {"data"} /\ "drainQueue" \notin {"data"} /\ "deliver" \notin {"data"}
      OBVIOUS
    <2> QED
      BY <2>1
  <1>3. X \subseteq 1 .. n /\ \A i \in X : stack[i].chunk.size = 0
    BY <1>1, <1>2 DEF Where, Carries
  <1>4. SUFFICES \A i \in Z : stack'[i].chunk.size = 0
    BY <1>2 DEF Carries
  <1>5. ASSUME NEW f, Became(f), Kind(f) \notin K
        PROVE  \A i \in Z : stack'[i].chunk.size = 0
    <2>1. Z = (X \ {n}) \cup (IF Kind(f) \in K THEN {n} ELSE {})
          /\ \A i \in 1 .. n - 1 : stack'[i] = stack[i]
      BY <1>1, <1>2, <1>5, Becoming
    <2>2. ASSUME NEW i \in Z PROVE i \in X /\ i \in 1 .. n - 1
      <3>1. i \in X /\ i # n
        BY <1>5, <2>1
      <3> QED
        BY <1>1, <1>3, <3>1
    <2> QED
      BY <1>3, <2>1, <2>2
  <1>6. CASE DrainOne
    <2>1. PICK f : /\ Topped(f) /\ f.chunk = Head(readable.buf) /\ readable.buf # <<>>
      BY <1>6, DrainOneTyped, Zenon
    <2>2. PICK q, S : q = readable.buf /\ q \in Seq(S) /\ q # <<>>
      BY <2>1 DEF Typed, Reading
    <2>3. Head(q) = q[1] /\ 1 \in 1 .. Len(q)
      BY <2>2
    <2>4. f.chunk.size = 0
      BY <2>1, <2>2, <2>3 DEF Empties
    <2>5. /\ Z = X \cup (IF Kind(f) \in K THEN {n + 1} ELSE {})
          /\ stack'[n + 1] = f /\ \A i \in 1 .. n : stack'[i] = stack[i]
      BY <1>1, <1>2, <2>1, Topping
    <2>6. ASSUME NEW i \in Z PROVE i \in X \/ i = n + 1
      BY <2>5
    <2> QED
      BY <1>3, <2>4, <2>5, <2>6
  <1>7. CASE DeliverData
    <2>1. PICK f : Became(f) /\ Kind(f) = "deliver"
      BY <1>7, DeliverDataTyped, Zenon
    <2> QED
      BY <1>2, <1>5, <2>1
  <1>8. CASE Same(stack, stack', Hand)
    <2>1. ASSUME NEW i \in Z PROVE i \in X /\ stack'[i] = stack[i]
      <3>1. i \in Where(stack', Hand) /\ Kind(stack'[i]) = "data"
        BY <1>2 DEF Where, Hand
      <3>2. i \in Where(stack, Hand) /\ stack'[i] = stack[i]
        BY <1>8, <3>1 DEF Same
      <3> QED
        BY <1>2, <3>1, <3>2 DEF Where
    <2> QED
      BY <1>3, <2>1
  <1>9. CASE Queues
    <2>1. CASE Answered
      <3>1. Z = X \ {n} /\ \A i \in 1 .. n - 1 : Alike(stack[i], stack'[i])
        BY <1>1, <1>2, <2>1 DEF Answered
      <3>2. ASSUME NEW i \in Z PROVE stack'[i].chunk.size = 0
        <4>1. i \in X /\ i \in 1 .. n - 1
          BY <1>1, <1>3, <3>1
        <4>2. stack'[i].chunk = stack[i].chunk
          BY <3>1, <4>1, Zenon DEF Alike
        <4> QED
          BY <1>3, <4>1, <4>2
      <3> QED
        BY <3>2
    <2>2. CASE \E f : Became(f) /\ Kind(f) = "drainQueue"
      BY <1>2, <1>5, <2>2
    <2>3. CASE Uncork
      <3>1. Same(stack, stack', Hand)
        <4>1. Spares({"drainQueue"}) /\ Hand \cap {"drainQueue"} = {}
          BY <2>3, UncorkTyped DEF Hand
        <4> QED
          BY <4>1 DEF Spares
      <3> QED
        BY <1>8, <3>1
    <2> QED
      BY <1>9, <2>1, <2>2, <2>3, WriteStartsTyped, QueueDrainedTyped DEF Queues
  <1>10. CASE Push
    <2>1. UNCHANGED stack
      BY <1>10, Zenon DEF Push
    <2> QED
      BY <1>2, <1>3, <2>1
  <1> QED
    BY <1>6, <1>7, <1>8, <1>9, <1>10, Undisturbed

LEMMA NobodyPushes ==
  ASSUME Typed, Owed, Next, readable.ended, Where(stack, {"push"}) = {}
  PROVE  ~PlacePushed /\ Where(stack', {"push"}) = {}
  <1>1. ~PlacePushed
    <2>1. PlacePushed => Kind(Top) = "push"
      BY DEF PlacePushed, Kind
    <2> QED
      BY <2>1, TopIs DEF Where
  <1>2. ASSUME Push PROVE Where(stack', {"push"}) = {}
    <2>1. UNCHANGED stack
      BY <1>2, Zenon DEF Push
    <2> QED
      BY <2>1
  <1>3. ASSUME Same(stack, stack', {"push"}) PROVE Where(stack', {"push"}) = {}
    BY <1>3 DEF Same
  <1> QED
    BY <1>1, <1>2, <1>3, Undisturbed

LEMMA ToldStep ==
  ASSUME Typed, Owed, Weighed, Deep, Still, Told, Next
  PROVE  Told'
  <1>1. uses' = uses
    BY UsesKept
  <1>2. SUFFICES ASSUME ~(Pulls /\ MayFlow), readable'.readableEnded
                 PROVE  readable'.ended /\ Where(stack', {"push"}) = {} /\ Empties(readable'.buf) /\ Carries(stack')
    BY <1>1, Zenon DEF Told, MayFlow, Pulls, Empties, Carries
  <1>3. SUFFICES readable.ended /\ Where(stack, {"push"}) = {} /\ Empties(readable.buf) /\ Carries(stack)
    BY NobodyPushes, BufferStaysEmpty, DeliveriesStayEmpty, ReaderMarks DEF MarksKept
  <1>4. CASE readable.readableEnded
    BY <1>2, <1>4, Zenon DEF Told, Empties, Carries
  <1>5. CASE ~readable.readableEnded
    <2>1. PumpEnd
      BY <1>2, <1>5, ReaderMarks DEF MarksKept
    <2>2. EndIsDue /\ Top.at = "pump"
      BY <1>2, <1>5, <2>1 DEF PumpEnd
    <2>3. readable.ended /\ readable.length = 0
      BY <2>2 DEF EndIsDue
    <2>4. Empties(readable.buf)
      BY <2>3, NothingWeighed DEF Empties
    <2>5. Where(stack, {"push"}) = {} /\ Where(stack, {"data"}) = {}
      BY <1>2, <2>2, PumpIsAlone DEF Where, OnTheWay
    <2> QED
      BY <2>3, <2>4, <2>5 DEF Carries
  <1> QED
    BY <1>4, <1>5

-----------------------------------------------------------------------------
(***************************************************************************)
(* Pipes, and what they are still to be written.                           *)
(***************************************************************************)
LEMMA EndedTouched ==
  ASSUME Typed, Owed, Next
  PROVE  PumpEnd \/ EndsPipes \/ Same(stack, stack', {"ended"})
  <1>1. PICK A : Spares(A) /\ Touched(A)
    BY Touches
  <1>2. "ended" \in A => PumpEnd \/ EndsPipes
    BY <1>1, KindsTouched
  <1> QED
    BY <1>1, <1>2 DEF Spares

LEMMA ToldStays ==
  ASSUME Typed, Next, readable.readableEnded
  PROVE  readable'.readableEnded
  <1>1. CASE PumpEnd
    <2>1. UNCHANGED readable \/ EndIsDue
      BY <1>1, PumpEndTyped
    <2> QED
      BY <2>1 DEF EndIsDue
  <1>2. CASE ~PumpEnd
    BY <1>2, ReaderMarks DEF MarksKept
  <1> QED
    BY <1>1, <1>2

LEMMA LateStep ==
  ASSUME Typed, Owed, Late, Next
  PROVE  Late'
  <1>1. PICK n \in Nat : n = Len(stack) /\ n >= 1 /\ Top = stack[n]
    BY TopIs
  <1>2. SUFFICES ASSUME ~readable.readableEnded, ~readable'.readableEnded PROVE Where(stack', {"ended"}) = {}
    BY ToldStays DEF Late
  <1>3. Where(stack, {"ended"}) = {}
    BY <1>2 DEF Late
  <1>4. ~EndsPipes
    <2>1. EndsPipes => Kind(Top) = "ended"
      BY EndLooksUpTyped, EndsPipeTyped, PipesEndedTyped DEF EndsPipes
    <2> QED
      BY <1>1, <1>3, <2>1 DEF Where
  <1>5. CASE PumpEnd
    <2>1. ~(EndIsDue /\ readable' = [readable EXCEPT !.readableEnded = TRUE])
      BY <1>2 DEF Typed, Reading
    <2>2. PICK g : Kind(g) = "pump" /\ Became(g)
      BY <1>5, <2>1, PumpEndTyped
    <2>3. PICK K : K = {"ended"} /\ "code" \notin K /\ "pump" \notin K
      <3>1. "code" \notin {"ended"} /\ "pump" \notin {"ended"}
        OBVIOUS
      <3> QED
        BY <3>1
    <2>4. Where(stack', K) = (Where(stack, K) \ {n}) \cup (IF Kind(g) \in K THEN {n} ELSE {})
      BY <1>1, <2>2, <2>3, Becoming
    <2> QED
      BY <1>3, <2>2, <2>3, <2>4
  <1>6. CASE Same(stack, stack', {"ended"})
    BY <1>3, <1>6 DEF Same
  <1> QED
    BY <1>4, <1>5, <1>6, EndedTouched

Feeding == {"data", "deliver", "write"}
Feeds(f, d) == \/ f.at = "deliver" /\ (f.stage # "write" \/ d \in ToSet(f.left))
               \/ f.at = "write" /\ f.dst = d
Fed(s, d, x) == \E i \in Where(s, Feeding) : Feeds(s[i], d) /\ s[i].chunk.id = x

LEMMA FeederKind ==
  ASSUME NEW f, NEW d, Feeds(f, d)
  PROVE  Kind(f) \in Feeding
  BY DEF Feeds, Kind, Feeding

LEMMA StillIs ==
  ASSUME NEW d, DOMAIN stack = 1 .. Len(stack), DOMAIN stack' = 1 .. Len(stack')
  PROVE  /\ \A x : x \in StillToWrite(d) <=> Fed(stack, d, x)
         /\ \A x : x \in StillToWrite(d)' <=> Fed(stack', d, x)
  <1>1. \A i \in 1 .. Len(stack) : Feeds(stack[i], d) => i \in Where(stack, Feeding)
    BY FeederKind DEF Where
  <1>2. \A i \in 1 .. Len(stack') : Feeds(stack'[i], d) => i \in Where(stack', Feeding)
    BY FeederKind DEF Where
  <1>3. StillToWrite(d) = {stack[i].chunk.id : i \in {j \in 1 .. Len(stack) : Feeds(stack[j], d)}}
    BY DEF StillToWrite, Feeds
  <1>4. StillToWrite(d)' = {stack'[i].chunk.id : i \in {j \in 1 .. Len(stack') : Feeds(stack'[j], d)}}
    BY DEF StillToWrite, Feeds
  <1>5. \A x : x \in StillToWrite(d) <=> Fed(stack, d, x)
    BY <1>1, <1>3 DEF Fed, Where
  <1>6. \A x : x \in StillToWrite(d)' <=> Fed(stack', d, x)
    BY <1>2, <1>4 DEF Fed, Where
  <1> QED
    BY <1>5, <1>6

LEMMA AlikeFeeds ==
  ASSUME NEW f, NEW g, NEW d, Alike(f, g), Feeds(f, d)
  PROVE  Feeds(g, d) /\ g.chunk.id = f.chunk.id
  <1>1. CASE g = f
    BY <1>1
  <1>2. CASE /\ f \in DeliverFrame /\ g \in DeliverFrame /\ g.chunk = f.chunk
             /\ g.stage = f.stage /\ g.left = f.left
    <2>1. f.at = "deliver" /\ g.at = "deliver"
      BY <1>2 DEF DeliverFrame
    <2> QED
      BY <1>2, <2>1 DEF Feeds
  <1> QED
    BY <1>1, <1>2 DEF Alike

LEMMA FeedersStay ==
  ASSUME Typed, Owed, Next, NEW d \in Dsts, d \notin unfed', NEW i \in Where(stack, Feeding),
         Feeds(stack[i], d), DeliverLooksUpPipes => d \in Targets(readable.pipes)
  PROVE  Fed(stack', d, stack[i].chunk.id) \/ (stack[i].chunk.id \in ToSet(offered'[d]))
  <1>1. PICK n \in Nat : n = Len(stack) /\ n >= 1 /\ Top = stack[n] /\ i \in 1 .. n
    BY TopIs DEF Where
  <1>2. "code" \notin Feeding /\ "drainQueue" \notin Feeding /\ "push" \notin Feeding
    BY DEF Feeding
  <1>3. PICK K : K = Feeding
    OBVIOUS
  <1>4. PICK X, Z : X = Where(stack, K) /\ Z = Where(stack', K) /\ i \in X /\ "code" \notin K
    BY <1>2, <1>3
  <1>5. ASSUME NEW j \in Z, Feeds(stack'[j], d), stack'[j].chunk.id = stack[i].chunk.id
        PROVE  Fed(stack', d, stack[i].chunk.id)
    BY <1>3, <1>4, <1>5 DEF Fed
  <1>6. ASSUME i \in Z, Alike(stack[i], stack'[i])
        PROVE  Fed(stack', d, stack[i].chunk.id)
    BY <1>5, <1>6, AlikeFeeds
  <1>7. ASSUME i \in Z, stack'[i] = stack[i]
        PROVE  Fed(stack', d, stack[i].chunk.id)
    BY <1>6, <1>7 DEF Alike
  <1>8. ASSUME i # n PROVE i \in 1 .. n - 1
    BY <1>1, <1>8
  <1>9. ASSUME NEW f, Became(f)
        PROVE  /\ Z = (X \ {n}) \cup (IF Kind(f) \in K THEN {n} ELSE {})
               /\ stack'[n] = f /\ \A j \in 1 .. n - 1 : stack'[j] = stack[j]
    BY <1>1, <1>4, <1>9, Becoming
  <1>10. ASSUME Left \/ \E f : Became(f), i # n
         PROVE  Fed(stack', d, stack[i].chunk.id)
    <2>1. CASE Left
      <3>1. Z = X \ {n} /\ \A j \in 1 .. n - 1 : stack'[j] = stack[j]
        BY <1>1, <1>4, <2>1, Leaving
      <3> QED
        BY <1>4, <1>7, <1>8, <1>10, <3>1
    <2>2. CASE \E f : Became(f)
      <3>1. PICK f : Became(f)
        BY <2>2
      <3> QED
        BY <1>4, <1>7, <1>8, <1>9, <1>10, <3>1
    <2> QED
      BY <1>10, <2>1, <2>2
  <1>11. ASSUME NEW f, Became(f), Feeds(f, d), f.chunk = Top.chunk
         PROVE  Fed(stack', d, stack[i].chunk.id)
    <2>1. CASE i = n
      <3>1. n \in Z /\ stack'[n] = f
        BY <1>3, <1>9, <1>11, FeederKind
      <3> QED
        BY <1>1, <1>5, <1>11, <2>1, <3>1
    <2>2. CASE i # n
      BY <1>10, <1>11, <2>2
    <2> QED
      BY <2>1, <2>2
  <1>12. ASSUME Answered, i # n PROVE Fed(stack', d, stack[i].chunk.id)
    <2>1. Z = X \ {n} /\ \A j \in 1 .. n - 1 : Alike(stack[j], stack'[j])
      BY <1>1, <1>4, <1>12 DEF Answered
    <2> QED
      BY <1>4, <1>6, <1>8, <1>12, <2>1
  <1>13. Kind(Top) \notin Feeding => i # n
    BY <1>1 DEF Where
  <1>14. ASSUME NEW more, Moved(Len(stack), more) PROVE Fed(stack', d, stack[i].chunk.id)
    <2>1. Grew(stack, stack', n, more)
      BY <1>1, <1>14 DEF Moved
    <2>2. stack'[i] = stack[i]
      BY <1>1, <2>1 DEF Grew
    <2>3. Z = {j \in X : j <= n} \cup {n + j : j \in Where(more, K)}
      BY <1>1, <1>4, <2>1, WhereGrew
    <2>4. i \in Z
      BY <1>1, <1>4, <2>3
    <2> QED
      BY <1>7, <2>2, <2>4
  <1>15. CASE PlacePushed
    <2>1. Left \/ \E f : Became(f)
      BY <1>15, PlacePushedTyped
    <2>2. Kind(Top) = "push"
      BY <1>15 DEF PlacePushed, Kind
    <2> QED
      BY <1>2, <1>10, <1>13, <2>1, <2>2
  <1>16. CASE DrainOne
    <2>1. PICK f : Topped(f)
      BY <1>16, DrainOneTyped
    <2>2. \E more : Moved(Len(stack), more)
      BY <2>1 DEF Topped, Turned
    <2> QED
      BY <1>14, <2>2
  <1>17. CASE DeliverData
    <2>1. PICK f : /\ f = [Top EXCEPT !.stage = "pipes"] /\ Became(f) /\ f \in DeliverFrame /\ Top \in DeliverFrame
      BY <1>17, DeliverDataTyped
    <2>2. f.at = "deliver" /\ f.stage = "pipes" /\ f.chunk = Top.chunk
      BY <2>1 DEF DeliverFrame
    <2>3. Feeds(f, d)
      BY <2>2 DEF Feeds
    <2> QED
      BY <1>11, <2>1, <2>2, <2>3
  <1>18. CASE DeliverLooksUpPipes
    <2>1. PICK f \in DeliverFrame : /\ Became(f) /\ f.chunk = Top.chunk
                                    /\ ToSet(f.left) = Targets(readable.pipes)
      BY <1>18, LooksUpTyped
    <2>2. f.at = "deliver" /\ d \in ToSet(f.left)
      BY <1>18, <2>1 DEF DeliverFrame
    <2>3. Feeds(f, d)
      BY <2>2 DEF Feeds
    <2> QED
      BY <1>11, <2>1, <2>3
  <1>19. CASE DeliverPauses
    <2>1. PICK f \in DeliverFrame : /\ Became(f) /\ f.chunk = Top.chunk /\ f.stage = "write"
                                    /\ f.left = Top.left /\ Top.stage = "write" /\ Top \in DeliverFrame
      BY <1>19, PausesTyped
    <2>2. CASE i = n
      <3>1. f.at = "deliver" /\ Top.at = "deliver"
        BY <2>1 DEF DeliverFrame
      <3>2. Feeds(f, d)
        BY <1>1, <2>1, <2>2, <3>1 DEF Feeds
      <3> QED
        BY <1>11, <2>1, <3>2
    <2>3. CASE i # n
      BY <1>10, <2>1, <2>3
    <2> QED
      BY <2>2, <2>3
  <1>20. CASE Delivered
    <2>1. Left /\ Top.at = "deliver" /\ Top.stage = "write" /\ Top.left = <<>>
      BY <1>20, DeliveredTyped DEF Delivered, Delivering
    <2>2. ~Feeds(Top, d)
      BY <2>1 DEF Feeds, ToSet
    <2> QED
      BY <1>1, <1>10, <2>1, <2>2
  <1>21. CASE DeliverWrites
    <2>1. PICK g \in DeliverFrame, f \in WriteFrame :
              /\ Called(g, f) /\ Kind(g) = "deliver" /\ Kind(f) = "write"
              /\ g.stage = "write" /\ g.left = Tail(Top.left) /\ g.chunk = Top.chunk
              /\ f.dst = Head(Top.left) /\ f.chunk = Top.chunk
              /\ Top \in DeliverFrame /\ Top.stage = "write" /\ Top.left # <<>>
      BY <1>21, DeliverWritesTyped
    <2>2. /\ Z = (X \ {n}) \cup (IF Kind(g) \in K THEN {n} ELSE {}) \cup (IF Kind(f) \in K THEN {n + 1} ELSE {})
          /\ stack'[n] = g /\ stack'[n + 1] = f /\ \A j \in 1 .. n - 1 : stack'[j] = stack[j]
      <3>1. Called(g, f) /\ "code" \notin K
        BY <1>4, <2>1
      <3>2. /\ Where(stack', K) = (Where(stack, K) \ {Len(stack)})
                    \cup (IF Kind(g) \in K THEN {Len(stack)} ELSE {})
                    \cup (IF Kind(f) \in K THEN {Len(stack) + 1} ELSE {})
            /\ stack'[Len(stack)] = g /\ stack'[Len(stack) + 1] = f
            /\ \A j \in 1 .. Len(stack) - 1 : stack'[j] = stack[j]
        BY <3>1, Calling, Zenon
      <3> QED
        BY ONLY <1>1, <1>4, <3>2, Zenon
    <2>3. n \in Z /\ n + 1 \in Z /\ (i # n => i \in Z)
      BY <1>3, <1>4, <2>1, <2>2 DEF Feeding
    <2>4. CASE i # n
      BY <1>7, <1>8, <2>2, <2>3, <2>4
    <2>5. CASE i = n
      <3>1. g.at = "deliver" /\ Top.at = "deliver" /\ f.at = "write"
        BY <2>1 DEF DeliverFrame, WriteFrame
      <3>2. d \in ToSet(Top.left)
        BY <1>1, <2>1, <2>5, <3>1 DEF Feeds
      <3>3. d = Head(Top.left) \/ d \in ToSet(Tail(Top.left))
        <4>1. PICK q, S : q = Top.left /\ S = Dsts /\ q \in Seq(S) /\ q # <<>>
          BY <2>1 DEF DeliverFrame
        <4>2. PICK j \in 1 .. Len(q) : d = q[j]
          BY <3>2, <4>1 DEF ToSet
        <4>3. PICK t : t = Tail(q)
          OBVIOUS
        <4>4. CASE j = 1
          BY <4>1, <4>2, <4>4
        <4>5. CASE j # 1
          <5>1. j - 1 \in 1 .. Len(t) /\ t[j - 1] = q[j] /\ t \in Seq(S)
            BY <4>1, <4>2, <4>3, <4>5
          <5>2. d \in ToSet(t)
            BY <4>2, <5>1 DEF ToSet
          <5> QED
            BY <4>1, <4>3, <5>2
        <4> QED
          BY <4>4, <4>5
      <3>4. CASE d = Head(Top.left)
        <4>1. Feeds(f, d)
          BY <2>1, <3>1, <3>4 DEF Feeds
        <4> QED
          BY <1>1, <1>5, <2>1, <2>2, <2>3, <2>5, <4>1
      <3>5. CASE d \in ToSet(Tail(Top.left))
        <4>1. Feeds(g, d)
          BY <2>1, <3>1, <3>5 DEF Feeds
        <4> QED
          BY <1>1, <1>5, <2>1, <2>2, <2>3, <2>5, <4>1
      <3> QED
        BY <3>3, <3>4, <3>5
    <2> QED
      BY <2>4, <2>5
  <1>22. CASE Writes
    <2>1. \E more : Moved(Len(stack), more)
      BY <1>22, WritesTyped DEF Turned
    <2> QED
      BY <1>14, <2>1
  <1>23. CASE Ends
    BY <1>14, <1>23, EndsTyped
  <1>24. CASE WriteStarts
    <2>1. CASE i # n
      <3>1. Answered \/ \E f : Became(f)
        BY <1>24, WriteStartsTyped
      <3> QED
        BY <1>10, <1>12, <2>1, <3>1
    <2>2. CASE i = n
      <3>1. Top.at = "write" /\ Top.dst = d
        BY <1>1, <1>24, <2>2 DEF Feeds, WriteStarts
      <3>2. offered' = [offered EXCEPT ![d] = Append(@, Top.chunk.id)]
        <4>1. ~(unfed' = unfed \cup {Top.dst})
          BY <3>1
        <4> QED
          BY <1>24, <3>1, <4>1, WriteStartsTyped
      <3>3. PICK S, q, x : S = Nat /\ q = offered[d] /\ x = Top.chunk.id /\ q \in Seq(S) /\ x \in S
        BY <3>1, WriteTop DEF Typed, Noted
      <3>4. offered'[d] = Append(q, x)
        BY <3>2, <3>3 DEF Typed, Noted
      <3>5. ToSet(Append(q, x)) = ToSet(q) \cup {x}
        BY <3>3, ToSetAppend
      <3>6. x \in ToSet(offered'[d])
        BY <3>4, <3>5
      <3> QED
        BY <1>1, <2>2, <3>3, <3>6
    <2> QED
      BY <2>1, <2>2
  <1>25. CASE QueueDrained
    <2>1. Answered /\ Kind(Top) = "drainQueue"
      BY <1>25, QueueDrainedTyped
    <2> QED
      BY <1>2, <1>12, <1>13, <2>1
  <1>26. CASE Same(stack, stack', K)
    <2>1. i \in Z /\ stack'[i] = stack[i]
      BY <1>4, <1>26 DEF Same
    <2> QED
      BY <1>7, <2>1
  <1>27. CASE Uncork
    <2>1. Spares({"drainQueue"}) /\ {"drainQueue"} \cap K = {}
      BY <1>2, <1>3, <1>27, UncorkTyped
    <2>2. Same(stack, stack', K)
      <3>1. PICK A : A = {"drainQueue"}
        OBVIOUS
      <3>2. Spares(A) /\ K \cap A = {}
        BY <2>1, <3>1
      <3> QED
        BY <3>2 DEF Spares
    <2> QED
      BY <1>26, <2>2
  <1> QED
    BY <1>3, <1>15, <1>16, <1>17, <1>18, <1>19, <1>20, <1>21, <1>22, <1>23, <1>24, <1>25, <1>26, <1>27,
       Undisturbed DEF Pipes, Queues, Feeding

LEMMA GotGrows ==
  ASSUME Typed, Next, readable.waiter = 0, ~Read, ~Nexts
  PROVE  /\ UNCHANGED <<got, offered>> \/ DeliverData \/ Wrote
         /\ DeliverData => got' = Append(got, Top.chunk.id)
  <1>1. CASE Wrote \/ Asks
    BY <1>1, AsksKeep, WroteKeeps DEF Wrote, DeliverData, Delivering, WriteStarts, Dispatch, QueueDrained,
       FinalizeShrinks, FinalizeDrains, EndSets, MaybeFinishes, Finish, Completing, Completes,
       CompletesLater, CodeEnds, Asks, Writes, Ends, Cork, Uncork, Does
  <1>2. CASE Reads
    <2>1. UNCHANGED offered
      BY <1>2, ReadsKeep
    <2>2. UNCHANGED reads => UNCHANGED got
      BY DEF reads
    <2>3. CASE Push
      BY <1>2, <2>1, <2>3 DEF Push, Does, DeliverData, Delivering
    <2>4. CASE PumpServes \/ PumpServesProdded
      <3>1. PICK retry \in BOOLEAN : Serve(retry) /\ Top.at = "pump"
        BY <2>4, Zenon DEF PumpServes, PumpServesProdded
      <3> QED
        BY <2>1, <3>1 DEF Serve, DeliverData, Delivering
    <2>5. CASE PlacePushed \/ DrainOne
      BY <2>1, <2>2, <2>5 DEF PlacePushed, DrainOne, DeliverData, Delivering
    <2>6. CASE DeliverData
      BY <2>6 DEF DeliverData
    <2>7. CASE ~DeliverData /\ Quiet
      BY <2>1, <2>7 DEF Quiet
    <2>8. \/ Push \/ PumpServes \/ PumpServesProdded \/ PlacePushed \/ DrainOne \/ DeliverData \/ Quiet
      BY <1>2, QuietReads DEF Reads, Nexts
    <2> QED
      BY <2>3, <2>4, <2>5, <2>6, <2>7, <2>8
  <1> QED
    BY <1>1, <1>2, NextParts

LEMMA OfferedGrows ==
  ASSUME Typed, Next, NEW d \in Dsts
  PROVE  ToSet(offered[d]) \subseteq ToSet(offered'[d])
  <1>1. CASE UNCHANGED offered
    BY <1>1
  <1>2. CASE WriteStarts /\ ~UNCHANGED offered
    <2>1. PICK x, S, k : /\ x \in Dsts /\ offered' = [offered EXCEPT ![x] = Append(@, k)] /\ S = Nat /\ k \in S
      <3>1. offered' = [offered EXCEPT ![Top.dst] = Append(@, Top.chunk.id)] /\ Top.dst \in Dsts
        BY <1>2, WriteStartsTyped
      <3>2. Top.chunk.id \in Nat
        BY <1>2, WriteTop DEF WriteStarts
      <3> QED
        BY <3>1, <3>2
    <2>2. PICK q : q = offered[d] /\ q \in Seq(S) /\ offered'[d] = IF d = x THEN Append(q, k) ELSE q
      BY <2>1 DEF Typed, Noted
    <2>3. ToSet(Append(q, k)) = ToSet(q) \cup {k}
      BY <2>1, <2>2, ToSetAppend
    <2> QED
      BY <2>2, <2>3
  <1>3. CASE ~WriteStarts
    <2>1. UNCHANGED offered
      <3>1. CASE Reads \/ Asks
        BY <3>1, ReadsKeep, AsksKeep
      <3>2. CASE Wrote
        BY <1>3, <3>2 DEF Wrote, writes, Dispatch, QueueDrained, FinalizeShrinks, FinalizeDrains, EndSets,
           MaybeFinishes, Finish, Completing, Completes, CompletesLater, CodeEnds
      <3> QED
        BY <3>1, <3>2, NextParts
    <2> QED
      BY <1>1, <2>1
  <1> QED
    BY <1>1, <1>2, <1>3

\* The parts of Piped, for one Writable.
Unpiping(s, d) == \A i \in Where(s, {"unpipe"}) :
                    d \notin s[i].which /\ d \in Targets(s[i].left) \cup Targets(s[i].kept)

LEMMA UnfedGrows ==
  ASSUME Typed, Next
  PROVE  Pipe \/ unfed \subseteq unfed'
  <1>1. UNCHANGED writes => unfed' = unfed
    BY DEF writes
  <1>2. OnlyReadable => UNCHANGED writes
    BY DEF OnlyReadable
  <1>3. CASE Asks
    BY <1>3, AsksKeep
  <1>4. CASE Wrote
    <2>1. CASE WriteStarts
      BY <2>1, WriteStartsTyped
    <2>2. CASE Dispatch
      BY <2>2 DEF Dispatch
    <2>3. CASE ~WriteStarts /\ ~Dispatch
      BY <1>1, <1>4, <2>3, Zenon DEF Wrote, QueueDrained, FinalizeShrinks, FinalizeDrains, EndSets,
         MaybeFinishes, Finish, Completing, Completes, CompletesLater, CodeEnds
    <2> QED
      BY <2>1, <2>2, <2>3
  <1>5. CASE Reads
    <2>1. CASE Unpipe
      BY <2>1, UnpipeTyped
    <2>2. CASE Unpiped
      BY <2>2 DEF Unpiped
    <2>3. CASE Push \/ PushNull \/ Read \/ Resumes \/ Pause \/ Destroy \/ Next_ \/ IteratorReturn
      BY <1>1, <1>2, <2>3, Zenon DEF Push, PushNull, Read, Resumes, Pause, Destroy, Next_, IteratorReturn
    <2>4. CASE PlacePushed \/ ResumeStarts \/ DrainOne \/ Drained \/ DeliverData
      BY <1>1, <1>2, <2>4, Zenon DEF PlacePushed, ResumeStarts, DrainOne, Drained, DeliverData
    <2>5. CASE DeliverLooksUpPipes \/ DeliverWrites \/ DeliverPauses \/ Delivered \/ UnpipeLooks
      BY <1>1, <1>2, <2>5, Zenon DEF DeliverLooksUpPipes, DeliverWrites, DeliverPauses, Delivered, UnpipeLooks
    <2>6. CASE EndLooksUpPipes \/ EndsPipe \/ PipesEnded \/ PumpEnd \/ PumpServes \/ PumpServesProdded
      BY <1>1, <1>2, <2>6, Zenon DEF EndLooksUpPipes, EndsPipe, PipesEnded, PumpEnd, PumpServes, PumpServesProdded
    <2>7. CASE NextLooks \/ NextAnswers \/ HostPumps \/ HostCalls
      BY <1>1, <1>2, <2>7, Zenon DEF NextLooks, NextAnswers, HostPumps, HostCalls
    <2> QED
      BY <1>5, <2>1, <2>2, <2>3, <2>4, <2>5, <2>6, <2>7 DEF Reads
  <1> QED
    BY <1>3, <1>4, <1>5, NextParts

LEMMA TargetsOf ==
  ASSUME NEW S, NEW q \in Seq(S), NEW p \in S
  PROVE  /\ Targets(Append(q, p)) = Targets(q) \cup {p.dst}
         /\ q # <<>> => Targets(q) = {Head(q).dst} \cup Targets(Tail(q))
  <1>1. PICK n \in Nat : n = Len(q)
    OBVIOUS
  <1>2. PICK a : a = Append(q, p)
    OBVIOUS
  <1>3. DOMAIN a = 1 .. n + 1 /\ a[n + 1] = p /\ \A i \in 1 .. n : a[i] = q[i]
    BY <1>1, <1>2
  <1>4. Targets(a) = Targets(q) \cup {p.dst}
    <2>1. 1 .. n + 1 = (1 .. n) \cup {n + 1}
      OBVIOUS
    <2> QED
      BY <1>1, <1>3, <2>1 DEF Targets
  <1>5. ASSUME q # <<>> PROVE Targets(q) = {Head(q).dst} \cup Targets(Tail(q))
    <2>1. PICK t, h : t = Tail(q) /\ h = Head(q)
      OBVIOUS
    <2>2. n >= 1 /\ DOMAIN q = 1 .. n /\ q[1] = h
      BY <1>1, <1>5, <2>1
    <2>3. DOMAIN t = 1 .. n - 1
      BY <1>1, <1>5, <2>1
    <2>4. \A i \in 1 .. n - 1 : t[i] = q[i + 1]
      BY <1>1, <1>5, <2>1
    <2>5. \A i \in 1 .. n : i = 1 \/ (i - 1 \in 1 .. n - 1 /\ q[i] = t[i - 1])
      BY <2>4
    <2>6. \A i \in 1 .. n - 1 : i + 1 \in 1 .. n
      OBVIOUS
    <2>7. 1 \in 1 .. n
      BY <2>2
    <2>8. ASSUME NEW x \in Targets(q) PROVE x = h.dst \/ x \in Targets(t)
      <3>1. PICK i \in 1 .. n : x = q[i].dst
        BY <2>2 DEF Targets
      <3> QED
        BY <2>2, <2>3, <2>5, <3>1 DEF Targets
    <2>9. h.dst \in Targets(q)
      BY <2>2, <2>7 DEF Targets
    <2>10. ASSUME NEW x \in Targets(t) PROVE x \in Targets(q)
      <3>1. PICK i \in 1 .. n - 1 : x = t[i].dst
        BY <2>3 DEF Targets
      <3>2. i + 1 \in DOMAIN q /\ x = q[i + 1].dst
        BY <2>2, <2>4, <2>6, <3>1
      <3> QED
        BY <3>2 DEF Targets
    <2> QED
      BY <2>1, <2>8, <2>9, <2>10
  <1> QED
    BY <1>2, <1>4, <1>5

LEMMA UnpipingStep ==
  ASSUME Typed, Owed, Next, NEW d \in Dsts, d \notin unfed', d \in Targets(readable.pipes),
         Unpiping(stack, d)
  PROVE  Unpiping(stack', d)
  <1>1. PICK n \in Nat : n = Len(stack) /\ n >= 1 /\ Top = stack[n]
    BY TopIs
  <1>2. PICK K : K = {"unpipe"} /\ "code" \notin K
    <2>1. "code" \notin {"unpipe"}
      OBVIOUS
    <2> QED
      BY <2>1
  <1>3. PICK X, Z : X = Where(stack, K) /\ Z = Where(stack', K) /\ X \subseteq 1 .. n
    <2>1. Where(stack, K) \subseteq 1 .. n
      BY <1>1 DEF Where
    <2> QED
      BY <2>1
  <1>4. \A i \in X : d \notin stack[i].which /\ d \in Targets(stack[i].left) \cup Targets(stack[i].kept)
    BY <1>2, <1>3 DEF Unpiping
  <1>5. SUFFICES ASSUME NEW i \in Z
                 PROVE  d \notin stack'[i].which /\ d \in Targets(stack'[i].left) \cup Targets(stack'[i].kept)
    BY <1>2, <1>3 DEF Unpiping
  <1>6. ASSUME i \in X, stack'[i] = stack[i]
        PROVE  d \notin stack'[i].which /\ d \in Targets(stack'[i].left) \cup Targets(stack'[i].kept)
    BY <1>4, <1>6
  <1>7. CASE ~Unpipes
    <2>1. Same(stack, stack', K)
      BY <1>2, <1>7, Undisturbed
    <2>2. i \in X /\ stack'[i] = stack[i]
      BY <1>3, <1>5, <2>1 DEF Same
    <2> QED
      BY <1>6, <2>2
  <1>8. CASE Unpipe
    <2>1. PICK D \in SUBSET Dsts :
              /\ unfed' = unfed \cup D
              /\ Turned(Len(stack), <<[at |-> "unpipe", which |-> D, left |-> readable.pipes,
                                       kept |-> <<>>]>>, {"unpipe"})
      BY <1>8, UnpipeTyped
    <2>2. PICK f : f = [at |-> "unpipe", which |-> D, left |-> readable.pipes, kept |-> <<>>]
      OBVIOUS
    <2>3. PICK more : more = <<f>> /\ Len(more) = 1 /\ more[1] = f
      <3>1. Len(<<f>>) = 1 /\ <<f>>[1] = f
        OBVIOUS
      <3> QED
        BY <3>1
    <2>4. Grew(stack, stack', n, more)
      BY <1>1, <2>1, <2>2, <2>3 DEF Turned, Moved
    <2>5. Z = {j \in X : j <= n} \cup {n + j : j \in Where(more, K)}
      <3>1. Len(stack) \in Nat
        BY <1>1
      <3>2. \A L : Where(stack', L) = {j \in Where(stack, L) : j <= n} \cup {n + j : j \in Where(more, L)}
        BY <2>4, <3>1, WhereGrew
      <3> QED
        BY <1>3, <3>2
    <2>6. CASE i \in X
      <3>1. stack'[i] = stack[i]
        BY <1>3, <2>4, <2>6 DEF Grew
      <3> QED
        BY <1>6, <2>6, <3>1
    <2>7. CASE i \notin X
      <3>1. PICK j \in Where(more, K) : i = n + j
        BY <1>5, <2>5, <2>7
      <3>2. j = 1
        BY <2>3 DEF Where
      <3>3. 1 \in 1 .. Len(more)
        BY <2>3
      <3>4. stack'[n + 1] = more[1]
        BY <2>4, <3>3 DEF Grew
      <3>5. stack'[i] = f
        BY <2>3, <3>1, <3>2, <3>4
      <3>6. f.which = D /\ f.left = readable.pipes
        BY <2>2
      <3> QED
        BY <2>1, <3>5, <3>6
    <2> QED
      BY <2>6, <2>7
  <1>9. CASE UnpipeLooks
    <2>1. PICK f \in UnpipeFrame :
              /\ Became(f) /\ Kind(f) = "unpipe" /\ f.which = Top.which /\ f.left = Tail(Top.left)
              /\ \/ f.kept = Top.kept /\ Head(Top.left).dst \in Top.which
                 \/ f.kept = Append(Top.kept, Head(Top.left))
      BY <1>9, UnpipeLooksTyped
    <2>2. Kind(Top) = "unpipe" /\ Top \in UnpipeFrame /\ Top.left # <<>>
      BY <1>9, UnpipeLooksTyped
    <2>3. /\ Z = (X \ {n}) \cup (IF Kind(f) \in K THEN {n} ELSE {})
          /\ stack'[n] = f /\ \A j \in 1 .. n - 1 : stack'[j] = stack[j]
      BY <1>1, <1>2, <1>3, <2>1, Becoming
    <2>4. CASE i # n
      <3>1. i \in X /\ i \in 1 .. n - 1
        BY <1>3, <1>5, <2>3, <2>4
      <3> QED
        BY <1>6, <2>3, <3>1
    <2>5. CASE i = n
      <3>1. n \in X
        BY <1>1, <1>2, <1>3, <2>2 DEF Where
      <3>2. d \notin Top.which /\ d \in Targets(Top.left) \cup Targets(Top.kept)
        BY <1>1, <1>4, <3>1
      <3>3. PICK S, q, k : S = PipeTo /\ q = Top.left /\ k = Top.kept /\ q \in Seq(S) /\ k \in Seq(S) /\ q # <<>>
        BY <2>2 DEF UnpipeFrame
      <3>4. PICK h : h = Head(q) /\ h \in S
        BY <3>3
      <3>5. Targets(q) = {h.dst} \cup Targets(Tail(q)) /\ Targets(Append(k, h)) = Targets(k) \cup {h.dst}
        BY <3>3, <3>4, TargetsOf
      <3>6. d \in Targets(f.left) \cup Targets(f.kept)
        BY <2>1, <3>2, <3>3, <3>4, <3>5
      <3> QED
        BY <2>1, <2>3, <2>5, <3>2, <3>6
    <2> QED
      BY <2>4, <2>5
  <1>10. CASE Unpiped
    <2>1. Z = X \ {n} /\ \A j \in 1 .. n - 1 : stack'[j] = stack[j]
      BY <1>1, <1>2, <1>3, <1>10, UnpipedTyped, Leaving
    <2>2. i \in X /\ i \in 1 .. n - 1
      BY <1>3, <1>5, <2>1
    <2> QED
      BY <1>6, <2>1, <2>2
  <1> QED
    BY <1>7, <1>8, <1>9, <1>10 DEF Unpipes

LEMMA PipesStep ==
  ASSUME Typed, Late, Next, NEW d \in Dsts, d \notin unfed', d \in Targets(readable.pipes),
         ~readable.readableEnded
  PROVE  d \in Targets(readable'.pipes)
  <1>1. CASE Pipe
    <2>1. PICK S, q, p : /\ S = PipeTo /\ q = readable.pipes /\ q \in Seq(S) /\ p \in S
                         /\ readable'.pipes = Append(q, p)
      <3>1. PICK x \in Dsts, ends \in BOOLEAN :
                readable' = [readable EXCEPT !.pipes = Append(@, [dst |-> x, ends |-> ends])]
        BY <1>1, PipeTyped
      <3>2. [dst |-> x, ends |-> ends] \in PipeTo
        BY DEF PipeTo
      <3>3. readable \in Reading
        BY DEF Typed
      <3>4. PICK a : a = Append(readable.pipes, [dst |-> x, ends |-> ends])
        OBVIOUS
      <3>5. readable' = [readable EXCEPT !.pipes = a]
        BY <3>1, <3>4
      <3>6. Marks(readable', readable.flowing, readable.ended, readable.readableEnded, a)
        BY <3>3, <3>5, MarkFields, Zenon
      <3>7. readable'.pipes = a /\ readable.pipes \in Seq(PipeTo)
        BY <3>3, <3>6 DEF Marks, Reading
      <3> QED
        BY <3>2, <3>4, <3>7
    <2>2. Targets(Append(q, p)) = Targets(q) \cup {p.dst}
      BY <2>1, TargetsOf
    <2> QED
      BY <2>1, <2>2
  <1>2. CASE Unpiped
    <2>1. d \in {Top.kept[i].dst : i \in DOMAIN Top.kept}
      BY <1>2 DEF Unpiped
    <2>2. PICK k : k = Top.kept
      OBVIOUS
    <2>3. readable' = [readable EXCEPT !.pipes = k]
      BY <1>2, <2>2, Zenon DEF Unpiped
    <2>4. Marks(readable', readable.flowing, readable.ended, readable.readableEnded, k)
      BY <2>3, MarkFields, Zenon DEF Typed
    <2> QED
      BY <2>1, <2>2, <2>4 DEF Marks, Targets
  <1>3. CASE PipesEnded
    <2>1. Kind(Top) = "ended"
      BY <1>3, PipesEndedTyped
    <2>2. Len(stack) \in Where(stack, {"ended"})
      BY <2>1, TopIs DEF Where
    <2> QED
      BY <2>2 DEF Late
  <1>4. CASE ~(Pipe \/ Unpiped \/ PipesEnded)
    BY <1>4, ReaderMarks DEF MarksKept
  <1> QED
    BY <1>1, <1>2, <1>3, <1>4

LEMMA GotIsFed ==
  ASSUME Typed, Owed, Next, readable.waiter = 0, ~Read, ~Nexts, NEW d \in Dsts, d \notin unfed',
         DeliverLooksUpPipes => d \in Targets(readable.pipes),
         \A x \in ToSet(got) : x \in ToSet(offered[d]) \/ Fed(stack, d, x)
  PROVE  \A x \in ToSet(got') : x \in ToSet(offered'[d]) \/ Fed(stack', d, x)
  <1>1. ASSUME NEW x \in ToSet(got) PROVE x \in ToSet(offered'[d]) \/ Fed(stack', d, x)
    <2>1. CASE x \in ToSet(offered[d])
      BY <2>1, OfferedGrows
    <2>2. CASE Fed(stack, d, x)
      <3>1. PICK i \in Where(stack, Feeding) : Feeds(stack[i], d) /\ stack[i].chunk.id = x
        BY <2>2 DEF Fed
      <3>2. Fed(stack', d, stack[i].chunk.id) \/ (stack[i].chunk.id \in ToSet(offered'[d]))
        BY <3>1, FeedersStay
      <3> QED
        BY <3>1, <3>2
    <2> QED
      BY <1>1, <2>1, <2>2
  <1>2. CASE DeliverData
    <2>1. PICK x : x = Top.chunk.id
      OBVIOUS
    <2>2. PICK S, q : S = Nat /\ q = got /\ q \in Seq(S) /\ x \in S /\ got' = Append(q, x)
      <3>1. got \in Seq(Nat)
        BY DEF Typed, Noted
      <3>2. Top.chunk.id \in Nat
        <4>1. Top \in DeliverFrame
          BY <1>2, DeliverDataTyped
        <4>2. made \in Nat
          BY DEF Typed, Noted
        <4> QED
          BY <4>1, <4>2 DEF DeliverFrame, Chunk
      <3>3. got' = Append(got, Top.chunk.id)
        BY <1>2 DEF DeliverData
      <3> QED
        BY <2>1, <3>1, <3>2, <3>3
    <2>3. ToSet(got') = ToSet(got) \cup {x}
      BY <2>2, ToSetAppend
    <2>4. Fed(stack', d, x)
      <3>1. PICK f : /\ f = [Top EXCEPT !.stage = "pipes"] /\ Became(f) /\ f \in DeliverFrame /\ Top \in DeliverFrame
        BY <1>2, DeliverDataTyped
      <3>2. f.at = "deliver" /\ f.stage = "pipes" /\ f.chunk = Top.chunk
        BY <3>1 DEF DeliverFrame
      <3>3. Feeds(f, d)
        BY <3>2 DEF Feeds
      <3>4. Kind(f) \in Feeding /\ "code" \notin Feeding
        BY <3>3, FeederKind DEF Feeding
      <3>5. PICK n, K : n = Len(stack) /\ K = Feeding
        OBVIOUS
      <3>6. n \in Where(stack', K) /\ stack'[n] = f
        BY <3>1, <3>4, <3>5, Becoming
      <3> QED
        BY <2>1, <3>2, <3>3, <3>5, <3>6 DEF Fed
    <2> QED
      BY <1>1, <2>3, <2>4
  <1>3. CASE ~DeliverData
    <2>1. got' = got
      BY <1>3, GotGrows, WroteKeeps
    <2> QED
      BY <1>1, <2>1
  <1> QED
    BY <1>2, <1>3

\* What Piped says of one destination.
Served(g, s, o, pipes, d) ==
  /\ \A x \in ToSet(g) : x \in ToSet(o[d]) \/ Fed(s, d, x)
  /\ d \in Targets(pipes) /\ Unpiping(s, d)

LEMMA PipedIs ==
  ASSUME Next, DOMAIN stack = 1 .. Len(stack), DOMAIN stack' = 1 .. Len(stack')
  PROVE  /\ Piped <=> (uses \cap {"read", "next"} = {} =>
              readable.waiter = 0 /\ (~readable.readableEnded => \A d \in Dsts \ unfed :
                Served(got, stack, offered, readable.pipes, d)))
         /\ Piped' <=> (uses \cap {"read", "next"} = {} =>
              readable'.waiter = 0 /\ (~readable'.readableEnded => \A d \in Dsts \ unfed' :
                Served(got', stack', offered', readable'.pipes, d)))
  <1>1. uses' = uses
    BY UsesKept
  <1>2. ASSUME NEW d
        PROVE  /\ \A x : x \in StillToWrite(d) <=> Fed(stack, d, x)
               /\ \A x : x \in StillToWrite(d)' <=> Fed(stack', d, x)
    BY StillIs, Zenon
  <1>3. ASSUME NEW d
        PROVE  Served(got, stack, offered, readable.pipes, d) <=>
                 /\ ToSet(got) \subseteq ToSet(offered[d]) \cup StillToWrite(d)
                 /\ d \in Targets(readable.pipes) /\ Unpiping(stack, d)
    BY <1>2, Zenon DEF Served
  <1>4. ASSUME NEW d
        PROVE  Served(got', stack', offered', readable'.pipes, d) <=>
                 /\ ToSet(got') \subseteq ToSet(offered'[d]) \cup StillToWrite(d)'
                 /\ d \in Targets(readable'.pipes) /\ Unpiping(stack', d)
    BY <1>2, Zenon DEF Served
  <1>5. Piped <=> (uses \cap {"read", "next"} = {} =>
              readable.waiter = 0 /\ (~readable.readableEnded => \A d \in Dsts \ unfed :
                Served(got, stack, offered, readable.pipes, d)))
    BY <1>3, Zenon DEF Piped, Unpiping
  <1>6. Piped' <=> (uses' \cap {"read", "next"} = {} =>
              readable'.waiter = 0 /\ (~readable'.readableEnded => \A d \in Dsts \ unfed' :
                Served(got', stack', offered', readable'.pipes, d)))
    BY <1>4, Zenon DEF Piped, Unpiping
  <1> QED
    BY <1>1, <1>5, <1>6

LEMMA PipeStarts ==
  ASSUME Typed, Owed, Next, Pipe, NEW d \in unfed, d \notin unfed'
  PROVE  Served(got', stack', offered', readable'.pipes, d)
  <1>1. got = <<>> /\ \A i \in DOMAIN stack : stack[i].at # "unpipe"
    BY DEF Pipe
  <1>2. PICK x \in Dsts, ends \in BOOLEAN :
              /\ readable' = [readable EXCEPT !.pipes = Append(@, [dst |-> x, ends |-> ends])]
              /\ d = x
    <2>1. PICK x \in Mine, ends \in BOOLEAN :
              /\ readable' = [readable EXCEPT !.pipes = Append(@, [dst |-> x, ends |-> ends])]
              /\ unfed' = IF got = <<>> /\ \A i \in DOMAIN stack : stack[i].at # "unpipe"
                          THEN unfed \ {x} ELSE unfed
      BY Zenon DEF Pipe
    <2>2. d = x /\ x \in Dsts
      BY <2>1 DEF Mine
    <2> QED
      BY <2>1, <2>2
  <1>3. d \in Targets(readable'.pipes)
    <2>1. [dst |-> d, ends |-> ends] \in PipeTo
      BY <1>2 DEF PipeTo
    <2>2. readable \in Reading /\ readable.pipes \in Seq(PipeTo)
      BY DEF Typed, Reading
    <2>3. PICK S, q, p, a : S = PipeTo /\ q = readable.pipes /\ p = [dst |-> d, ends |-> ends]
                            /\ a = Append(q, p) /\ q \in Seq(S) /\ p \in S
      BY <2>1, <2>2
    <2>4. readable' = [readable EXCEPT !.pipes = a]
      BY <1>2, <2>3
    <2>5. Marks(readable', readable.flowing, readable.ended, readable.readableEnded, a)
      BY <2>2, <2>4, MarkFields, Zenon
    <2>6. Targets(a) = Targets(q) \cup {p.dst}
      BY <2>3, TargetsOf
    <2> QED
      BY <2>3, <2>5, <2>6 DEF Marks
  <1>4. \A c \in ToSet(got') : c \in ToSet(offered'[d]) \/ Fed(stack', d, c)
    <2>1. Quiet
      BY QuietReads
    <2>2. got' = <<>>
      BY <1>1, <2>1 DEF Quiet
    <2>3. ToSet(got') = {}
      BY <2>2 DEF ToSet
    <2> QED
      BY <2>3
  <1>5. Unpiping(stack', d)
    <2>1. Where(stack, {"unpipe"}) = {}
      <3>1. SUFFICES ASSUME NEW i \in Where(stack, {"unpipe"}) PROVE FALSE
        OBVIOUS
      <3>2. stack[i].at = "unpipe" /\ i \in DOMAIN stack
        BY TopIs DEF Where, Kind
      <3> QED
        BY <1>1, <3>2
    <2>2. Same(stack, stack', {"unpipe"})
      <3>1. ~Unpipes
        BY DEF Pipe, Unpipes, Unpipe, UnpipeLooks, Unpiped, Does
      <3> QED
        BY <3>1, Undisturbed
    <2> QED
      BY <2>1, <2>2 DEF Same, Unpiping
  <1> QED
    BY <1>3, <1>4, <1>5 DEF Served

LEMMA PipedStep ==
  ASSUME Typed, Owed, Deep, Late, Piped, Next
  PROVE  Piped'
  <1>1. DOMAIN stack = 1 .. Len(stack) /\ DOMAIN stack' = 1 .. Len(stack') /\ Typed'
    <2>1. Typed'
      BY Touches
    <2> QED
      BY <2>1 DEF Typed, Stacked
  <1>2. SUFFICES ASSUME uses \cap {"read", "next"} = {}
                 PROVE  readable'.waiter = 0 /\ (~readable'.readableEnded => \A d \in Dsts \ unfed' :
                          Served(got', stack', offered', readable'.pipes, d))
    BY <1>1, PipedIs
  <1>3. readable.waiter = 0 /\ (~readable.readableEnded => \A d \in Dsts \ unfed :
          Served(got, stack, offered, readable.pipes, d))
    BY <1>1, <1>2, PipedIs
  <1>4. ~Pulls /\ ~Read /\ ~Next_
    BY <1>2 DEF Pulls, Read, Next_, Does
  <1>5. ~Nexts
    <2>1. Where(stack, {"next"}) = {}
      BY <1>4 DEF Deep
    <2>2. Top.at # "next"
      BY <2>1, TopIs, TopKind DEF Where
    <2> QED
      BY <1>4, <2>2 DEF Nexts, NextLooks, NextAnswers
  <1>6. readable'.waiter = 0
    <2>1. WaiterSame \/ WaiterLeft
      BY <1>5, WaiterSteps
    <2> QED
      BY <1>3, <2>1 DEF WaiterSame, WaiterLeft
  <1>7. ASSUME ~readable'.readableEnded, NEW d \in Dsts \ unfed'
        PROVE  Served(got', stack', offered', readable'.pipes, d)
    <2>1. CASE d \in unfed
      <3>1. Pipe
        BY <1>7, <2>1, UnfedGrows
      <3> QED
        BY <1>7, <2>1, <3>1, PipeStarts
    <2>2. CASE d \notin unfed
      <3>1. ~readable.readableEnded
        BY <1>7, ToldStays
      <3>2. Served(got, stack, offered, readable.pipes, d)
        BY <1>3, <1>7, <2>2, <3>1
      <3>3. /\ d \in Dsts /\ d \notin unfed' /\ d \in Targets(readable.pipes) /\ Unpiping(stack, d)
            /\ \A x \in ToSet(got) : x \in ToSet(offered[d]) \/ Fed(stack, d, x)
        BY <1>7, <3>2 DEF Served
      <3>4. \A x \in ToSet(got') : x \in ToSet(offered'[d]) \/ Fed(stack', d, x)
        BY <1>3, <1>4, <1>5, <3>3, GotIsFed
      <3>5. d \in Targets(readable'.pipes)
        BY <3>1, <3>3, PipesStep
      <3>6. Unpiping(stack', d)
        BY <3>3, UnpipingStep
      <3> QED
        BY <3>4, <3>5, <3>6 DEF Served
    <2> QED
      BY <2>1, <2>2
  <1> QED
    BY <1>6, <1>7

-----------------------------------------------------------------------------
(***************************************************************************)
(* What a Writable is said to hold is what its sink has not completed.     *)
(***************************************************************************)
LEMMA Appended ==
  ASSUME NEW S, NEW q \in Seq(S), NEW c \in S
  PROVE  /\ Len(q) \in Nat /\ Len(Append(q, c)) = Len(q) + 1 /\ Append(q, c)[Len(q) + 1] = c
         /\ \A i \in 1 .. Len(q) : Append(q, c)[i] = q[i] /\ q[i] \in S
  OBVIOUS

LEMMA ChunkTotals ==
  ASSUME Typed, NEW q \in Seq(Chunk), NEW c \in Chunk
  PROVE  /\ Total(q) \in Nat /\ Total(Append(q, c)) = Total(q) + c.size
         /\ q # <<>> => /\ Total(Tail(q)) \in Nat /\ Total(q) = Head(q).size + Total(Tail(q))
                        /\ Head(q).size \in Nat
  <1>1. PICK S : S = Chunk /\ q \in Seq(S) /\ c \in S /\ \A x \in S : x.size \in Nat
    <2>1. \A x \in Chunk : x.size \in Nat
      BY ChunkIs
    <2> QED
      BY <2>1
  <1>2. PICK n \in Nat : n = Len(q) /\ \A i \in 1 .. n : q[i] \in S
    BY <1>1
  <1>3. PICK t : t = Append(q, c)
    OBVIOUS
  <1>4. Len(t) = n + 1 /\ t[n + 1] = c /\ \A i \in 1 .. n : t[i] = q[i]
    BY <1>1, <1>2, <1>3, Appended
  <1>5. /\ \A i \in 1 .. Len(t) : t[i].size \in Nat
        /\ \A i \in 1 .. Len(q) : q[i].size = t[i].size
    BY <1>1, <1>2, <1>4
  <1>6. Total(q) \in Nat /\ Total(t) = Total(q) + t[Len(t)].size
    BY <1>2, <1>4, <1>5, TotalAppend
  <1>7. ASSUME q # <<>>
        PROVE  Total(Tail(q)) \in Nat /\ Total(q) = Head(q).size + Total(Tail(q)) /\ Head(q).size \in Nat
    <2>1. PICK u : u = Tail(q)
      OBVIOUS
    <2>2. Len(u) \in Nat /\ n = Len(u) + 1 /\ Head(q) = q[1] /\ \A i \in 1 .. Len(u) : u[i] = q[i + 1]
      BY <1>1, <1>2, <1>7, <2>1
    <2>3. /\ \A i \in 1 .. Len(q) : q[i].size \in Nat
          /\ \A i \in 1 .. Len(u) : u[i].size = q[i + 1].size
      BY <1>1, <1>2, <2>2
    <2>4. Total(u) \in Nat /\ Total(q) = q[1].size + Total(u)
      BY <1>2, <2>2, <2>3, TotalHead
    <2>5. q[1].size \in Nat
      BY <1>2, <2>2, <2>3
    <2> QED
      BY <2>1, <2>2, <2>4, <2>5
  <1> QED
    BY <1>3, <1>4, <1>6, <1>7

Share(e, d) == IF e.dst = d THEN e.size ELSE 0

LEMMA SharesAre ==
  ASSUME NEW p \in Seq(Entry), NEW d
  PROVE  /\ Len(Shares(p, d)) = Len(p) /\ Len(p) \in Nat
         /\ \A i \in 1 .. Len(p) : Shares(p, d)[i].size = Share(p[i], d) /\ Share(p[i], d) \in Nat
  <1>1. PICK n \in Nat : n = Len(p) /\ DOMAIN p = 1 .. n
    OBVIOUS
  <1>2. \A i \in 1 .. n : p[i] \in Entry
    BY <1>1
  <1>3. \A i \in 1 .. n : Share(p[i], d) \in Nat
    BY <1>2 DEF Share, Entry
  <1>4. PICK t : t = Shares(p, d)
    OBVIOUS
  <1>5. t = [i \in 1 .. n |-> [size |-> Share(p[i], d)]]
    BY <1>1, <1>4, Zenon DEF Shares, Share
  <1>6. \A i \in 1 .. n : t[i] = [size |-> Share(p[i], d)]
    BY <1>5
  <1>7. Len(t) = n
    <2>1. DOMAIN t = 1 .. n
      BY <1>5
    <2>2. t \in [1 .. n -> {t[i] : i \in 1 .. n}]
      BY <1>5, <2>1
    <2>3. t \in Seq({t[i] : i \in 1 .. n})
      BY <2>2
    <2> QED
      BY <2>1, <2>3
  <1>8. \A i \in 1 .. n : t[i].size = Share(p[i], d)
    <2>1. SUFFICES ASSUME NEW i \in 1 .. n PROVE t[i].size = Share(p[i], d)
      OBVIOUS
    <2>2. PICK z : z = Share(p[i], d)
      OBVIOUS
    <2>3. t[i] = [size |-> z]
      BY <1>6, <2>1, <2>2
    <2> QED
      BY <2>2, <2>3
  <1> QED
    BY <1>1, <1>3, <1>4, <1>7, <1>8

LEMMA SharesAppend ==
  ASSUME NEW p \in Seq(Entry), NEW e \in Entry, NEW d
  PROVE  /\ Total(Shares(p, d)) \in Nat /\ Share(e, d) \in Nat
         /\ Total(Shares(Append(p, e), d)) = Total(Shares(p, d)) + Share(e, d)
  <1>0. PICK S : S = Entry /\ p \in Seq(S) /\ e \in S
    OBVIOUS
  <1>1. PICK n \in Nat : S = Entry /\ p \in Seq(S) /\ e \in S /\ n = Len(p)
    BY <1>0
  <1>2. PICK t : t = Append(p, e)
    OBVIOUS
  <1>3. Len(t) = n + 1 /\ t[n + 1] = e /\ (\A i \in 1 .. n : t[i] = p[i]) /\ t \in Seq(S)
    <2>1. t \in Seq(S)
      BY <1>1, <1>2
    <2> QED
      BY <1>1, <1>2, <2>1, Appended
  <1>4. PICK s, u : s = Shares(p, d) /\ u = Shares(t, d)
    OBVIOUS
  <1>5. /\ Len(s) = n /\ Len(u) = n + 1
        /\ \A i \in 1 .. n : s[i].size = Share(p[i], d)
        /\ \A i \in 1 .. n + 1 : u[i].size = Share(t[i], d) /\ Share(t[i], d) \in Nat
    BY <1>1, <1>3, <1>4, SharesAre
  <1>6. /\ \A i \in 1 .. Len(u) : u[i].size \in Nat
        /\ \A i \in 1 .. Len(s) : s[i].size = u[i].size
    BY <1>3, <1>5
  <1>7. Total(s) \in Nat /\ Total(u) = Total(s) + u[Len(u)].size
    BY <1>5, <1>6, TotalAppend
  <1>8. u[Len(u)].size = Share(e, d) /\ Share(e, d) \in Nat
    BY <1>3, <1>5
  <1> QED
    BY <1>2, <1>4, <1>7, <1>8

LEMMA SharesNone ==
  ASSUME NEW d
  PROVE  Total(Shares(<<>>, d)) = 0
  <1>1. <<>> \in Seq(Entry) /\ Len(<<>>) = 0
    OBVIOUS
  <1>2. Len(Shares(<<>>, d)) = 0
    BY <1>1, SharesAre
  <1> QED
    BY <1>2, TotalEmpty

LEMMA ShrinksNow ==
  ASSUME Next, Shrinks(Top)
  PROVE  FinalizeShrinks
  <1>1. Top.at = "finalize" /\ Top.stage = "shrink"
    BY DEF Shrinks
  <1>2. ~ProgramSteps
    BY <1>1 DEF ProgramSteps, Does, Push, PushNull, Read, Resumes, Pause, Pipe, Unpipe, Destroy, Next_,
       IteratorReturn, Writes, Ends, Cork, Uncork, CompletesLater, HostCalls
  <1>3. StreamSteps => FinalizeShrinks
    BY <1>1 DEF StreamSteps, PlacePushed, ResumeStarts, DrainOne, Drained, Delivering, DeliverData,
       DeliverLooksUpPipes, DeliverWrites, DeliverPauses, Delivered, UnpipeLooks, Unpiped,
       EndLooksUpPipes, EndsPipe, PipesEnded, PumpEnd, PumpServes, PumpServesProdded, NextLooks,
       NextAnswers, WriteStarts, Dispatch, QueueDrained, FinalizeDrains, EndSets, MaybeFinishes,
       Finish, Completes, CodeEnds, HostPumps
  <1> QED
    BY <1>2, <1>3 DEF Next

OnlyTop(s) == \A i \in 1 .. Len(s) : Shrinks(s[i]) => i = Len(s)
NoShrink(s) == \A i \in 1 .. Len(s) : ~Shrinks(s[i])
ToShrink(f, d) == IF Shrinks(f) /\ f.dst = d THEN f.size ELSE 0

\* Where completions add a frame, and what it is.
LEMMA CompletingTop ==
  ASSUME Typed, Owed, Completing
  PROVE  \E more, e :
            /\ Grew(stack, stack', Len(stack) - 1, more) /\ Len(more) = 2 /\ Kind(more[1]) = "code"
            /\ e \in Entry /\ pending' \in Seq(Entry) /\ pending = Append(pending', e)
            /\ Len(pending) \in Nat /\ Len(pending) >= 1 /\ e = pending[Len(pending)]
            /\ IF e.final THEN more[2] = [at |-> "finish", dst |-> e.dst]
               ELSE more[2] = [at |-> "finalize", stage |-> "shrink", dst |-> e.dst,
                               size |-> e.size, remaining |-> 0]
  <1>1. Top.at = "code" /\ pending # <<>> /\ WriteDone /\ held' \in Nat /\ UNCHANGED <<writable, writes>> /\ OnlyWritable
    BY EntryToPop
  <1>2. PICK e : e = Last(pending)
    OBVIOUS
  <1>3. /\ pending = Append(pending', e) /\ pending' \in Seq(Entry) /\ e \in Entry
        /\ Len(pending) \in Nat /\ Len(pending) >= 1 /\ e = pending[Len(pending)]
    BY <1>1, <1>2, DoneTyped, Zenon
  <1>4. PICK more : /\ Turned(Len(stack) - 1, more, {Kind(Top), "code", "finish", "finalize"})
                    /\ Len(more) = 2 /\ Kind(more[1]) = "code"
                    /\ IF e.final THEN more[2] = [at |-> "finish", dst |-> e.dst]
                       ELSE more[2] = [at |-> "finalize", stage |-> "shrink", dst |-> e.dst,
                                       size |-> e.size, remaining |-> 0]
    BY <1>1, <1>2, DoneTyped, Zenon
  <1>5. Grew(stack, stack', Len(stack) - 1, more)
    BY <1>4 DEF Turned, Moved
  <1> QED
    BY <1>3, <1>4, <1>5

LEMMA ShrinksAre ==
  ASSUME NEW f
  PROVE  Shrinks(f) => Kind(f) = "finalize"
  BY DEF Shrinks, Kind

LEMMA ShrinkSteps ==
  ASSUME Typed, Owed, Next, OnlyTop(stack)
  PROVE  /\ ~FinalizeShrinks => NoShrink(stack)
         /\ ~Completing => NoShrink(stack')
  <1>1. PICK n \in Nat : n = Len(stack) /\ n >= 1 /\ Top = stack[n]
    BY TopIs
  <1>2. ~FinalizeShrinks => NoShrink(stack)
    BY <1>1, ShrinksNow DEF OnlyTop, NoShrink
  <1>3. PICK K : K = {"finalize"} /\ "code" \notin K
    <2>1. "code" \notin {"finalize"}
      OBVIOUS
    <2> QED
      BY <2>1
  <1>4. PICK X : X = Where(stack, K) /\ X \subseteq 1 .. n
    BY <1>1 DEF Where
  <1>5. SUFFICES ASSUME ~Completing, NEW i \in 1 .. Len(stack'), Shrinks(stack'[i]) PROVE FALSE
    BY <1>2 DEF NoShrink
  <1>6. i \in Where(stack', K)
    BY <1>3, <1>5, ShrinksAre DEF Where
  <1>7. ASSUME i \in X, i # n, stack'[i] = stack[i] PROVE FALSE
    BY <1>1, <1>4, <1>5, <1>7 DEF OnlyTop
  <1>8. CASE FinalizeShrinks
    <2>1. PICK f : Became(f) /\ Kind(f) = "finalize" /\ f.stage = "drain"
      BY <1>8, ShrinksTyped
    <2>2. /\ i \in (X \ {n}) \cup (IF Kind(f) \in K THEN {n} ELSE {})
          /\ stack'[n] = f /\ \A j \in 1 .. n - 1 : stack'[j] = stack[j]
      BY <1>1, <1>3, <1>4, <1>6, <2>1, Becoming
    <2>3. i # n
      BY <1>5, <2>1, <2>2 DEF Shrinks
    <2> QED
      BY <1>4, <1>7, <2>2, <2>3
  <1>9. CASE FinalizeDrains
    <2>1. PICK f : Became(f) /\ Kind(f) = "maybeFinish"
      BY <1>9, DrainsTyped
    <2>2. /\ i \in (X \ {n}) \cup (IF Kind(f) \in K THEN {n} ELSE {})
          /\ \A j \in 1 .. n - 1 : stack'[j] = stack[j]
      BY <1>1, <1>3, <1>4, <1>6, <2>1, Becoming
    <2> QED
      BY <1>3, <1>4, <1>7, <2>1, <2>2
  <1>10. CASE ~Finalizes
    <2>1. Same(stack, stack', K)
      BY <1>3, <1>5, <1>10, Undisturbed
    <2>2. i \in X /\ stack'[i] = stack[i]
      BY <1>4, <1>6, <2>1 DEF Same
    <2>3. NoShrink(stack)
      BY <1>2, <1>10 DEF Finalizes
    <2> QED
      BY <1>1, <1>4, <1>5, <2>2, <2>3 DEF NoShrink
  <1> QED
    BY <1>8, <1>9, <1>10 DEF Finalizes

LEMMA ShrinkTop ==
  ASSUME Typed, Owed, Next, OnlyTop(stack), NEW d
  PROVE  /\ OnlyTop(stack')
         /\ ~FinalizeShrinks => ToShrink(Top, d) = 0
         /\ ~Completing => ToShrink(stack'[Len(stack')], d) = 0
         /\ Completing => \E e \in Entry :
              /\ pending' \in Seq(Entry) /\ pending = Append(pending', e) /\ e = pending[Len(pending)]
              /\ ToShrink(stack'[Len(stack')], d) = IF e.final THEN 0 ELSE Share(e, d)
  <1>1. PICK n \in Nat : n = Len(stack) /\ n >= 1 /\ Top = stack[n]
    BY TopIs
  <1>2. /\ ~FinalizeShrinks => NoShrink(stack)
        /\ ~Completing => NoShrink(stack')
    BY ShrinkSteps
  <1>3. ~FinalizeShrinks => ToShrink(Top, d) = 0
    BY <1>1, <1>2 DEF NoShrink, ToShrink
  <1>4. CASE ~Completing
    <2>1. Len(stack') \in 1 .. Len(stack')
      <3>1. Typed'
        BY Touches
      <3> QED
        BY <3>1 DEF Typed, Stacked
    <2> QED
      BY <1>2, <1>3, <1>4, <2>1 DEF NoShrink, ToShrink, OnlyTop
  <1>5. CASE Completing
    <2>1. PICK more, e :
            /\ Grew(stack, stack', n - 1, more) /\ Len(more) = 2 /\ Kind(more[1]) = "code"
            /\ e \in Entry /\ pending' \in Seq(Entry) /\ pending = Append(pending', e)
            /\ e = pending[Len(pending)]
            /\ IF e.final THEN more[2] = [at |-> "finish", dst |-> e.dst]
               ELSE more[2] = [at |-> "finalize", stage |-> "shrink", dst |-> e.dst,
                               size |-> e.size, remaining |-> 0]
      BY <1>1, <1>5, CompletingTop
    <2>2. Len(stack') = n + 1 /\ stack'[n] = more[1] /\ stack'[n + 1] = more[2]
          /\ \A j \in 1 .. n - 1 : stack'[j] = stack[j]
      <3>1. Len(stack') = (n - 1) + 2
        BY <2>1 DEF Grew
      <3>2. stack'[(n - 1) + 1] = more[1] /\ stack'[(n - 1) + 2] = more[2]
        BY <2>1 DEF Grew
      <3>3. \A j \in 1 .. n - 1 : stack'[j] = stack[j]
        BY <2>1 DEF Grew
      <3> QED
        BY <3>1, <3>2, <3>3
    <2>3. OnlyTop(stack')
      <3>1. ~Shrinks(more[1])
        BY <2>1, ShrinksAre
      <3>2. NoShrink(stack)
        BY <1>2, <1>5 DEF Completing, Completes, CompletesLater, FinalizeShrinks
      <3> QED
        BY <1>1, <2>2, <3>1, <3>2 DEF OnlyTop, NoShrink
    <2>4. ToShrink(more[2], d) = IF e.final THEN 0 ELSE Share(e, d)
      <3>1. CASE e.final
        BY <2>1, <3>1 DEF ToShrink, Shrinks
      <3>2. CASE ~e.final
        <4>1. PICK z : z = e.size
          OBVIOUS
        <4>2. more[2] = [at |-> "finalize", stage |-> "shrink", dst |-> e.dst,
                         size |-> z, remaining |-> 0]
          BY <2>1, <3>2, <4>1
        <4>3. Shrinks(more[2]) /\ more[2].dst = e.dst /\ more[2].size = z
          BY <4>2 DEF Shrinks
        <4> QED
          BY <3>2, <4>1, <4>3 DEF ToShrink, Share
      <3> QED
        BY <3>1, <3>2
    <2> QED
      BY <1>3, <1>5, <2>1, <2>2, <2>3, <2>4
  <1> QED
    BY <1>4, <1>5

Ahead(s, w, d) == w.queue # <<>> => \E i \in Where(s, {"drainQueue"}) : s[i].dst = d
Emptied(w) == w.ended => w.queue = <<>> /\ w.length = 0

\* What a write puts in the queue, and what a dispatch takes out of it.
LEMMA QueueMoves ==
  ASSUME Typed, NEW d \in Dsts
  PROVE  LET w == writable[d]
             v == writable'[d] IN
         /\ WriteStarts /\ (w.ended \/ Top.dst # d) => v.queue = w.queue /\ v.length = w.length /\ v.ended = w.ended
         /\ WriteStarts /\ ~w.ended /\ Top.dst = d =>
              v.queue = Append(w.queue, Top.chunk) /\ v.length = w.length + Top.chunk.size /\ ~v.ended
         /\ Dispatch /\ Top.dst # d => v.queue = w.queue /\ v.length = w.length
         /\ Dispatch /\ Top.dst = d => v.queue = Tail(w.queue) /\ v.length = w.length
         /\ FinalizeShrinks => v.queue = w.queue /\ v.ended = w.ended
              /\ v.length = IF Top.dst # d THEN w.length
                            ELSE IF w.length > Top.size THEN w.length - Top.size ELSE 0
  <1>1. PICK w : w = writable[d]
    OBVIOUS
  <1>2. writable \in [Dsts -> Writing]
    BY DEF Typed
  <1>3. ASSUME WriteStarts, w.ended \/ Top.dst # d
        PROVE  writable'[d] = w
    <2>1. CASE writable[Top.dst].ended
      BY <1>1, <1>3, <2>1, WriteStartsTyped
    <2>2. CASE ~writable[Top.dst].ended
      <3>1. Top.dst # d
        BY <1>1, <1>3, <2>2
      <3>2. PICK b, k : writable' = [writable EXCEPT ![Top.dst].queue = Append(@, Top.chunk),
                       ![Top.dst].length = @ + Top.chunk.size, ![Top.dst].needDrain = b,
                       ![Top.dst].callbacks = k]
        BY <1>3, <2>2, WriteStartsTyped, Zenon
      <3> QED
        BY <1>1, <1>2, <3>1, <3>2
    <2> QED
      BY <2>1, <2>2
  <1>4. ASSUME WriteStarts, ~w.ended, Top.dst = d
        PROVE  /\ writable'[d].queue = Append(w.queue, Top.chunk)
               /\ writable'[d].length = w.length + Top.chunk.size /\ ~writable'[d].ended
    <2>0. ~writable[Top.dst].ended
      BY <1>1, <1>4
    <2>1. PICK b, k : writable' = [writable EXCEPT ![Top.dst].queue = Append(@, Top.chunk),
                       ![Top.dst].length = @ + Top.chunk.size, ![Top.dst].needDrain = b,
                       ![Top.dst].callbacks = k]
      BY <1>4, <2>0, WriteStartsTyped, Zenon
    <2>2. PICK q, m : q = Append(w.queue, Top.chunk) /\ m = w.length + Top.chunk.size
      OBVIOUS
    <2>3. writable' = [writable EXCEPT ![d].queue = q, ![d].length = m, ![d].needDrain = b, ![d].callbacks = k]
      BY <1>1, <1>2, <1>4, <2>1, <2>2
    <2>4. Fields(writable'[d], IF d = d THEN q ELSE w.queue, IF d = d THEN m ELSE w.length, w.ended, w.finished, w.corked)
      BY <1>1, <2>3, WritableFields, Zenon
    <2> QED
      BY <1>4, <2>2, <2>4 DEF Fields
  <1>5. ASSUME Dispatch
        PROVE  /\ writable'[d].queue = IF d = Top.dst THEN Tail(w.queue) ELSE w.queue
               /\ writable'[d].length = w.length
    <2>1. PICK x \in Dsts : x = Top.dst
      BY <1>5, DispatchTyped
    <2>2. writable' = [writable EXCEPT ![x].queue = Tail(@)]
      BY <1>5, <2>1, Zenon DEF Dispatch
    <2>3. PICK q : q = Tail(writable[x].queue)
      OBVIOUS
    <2>4. writable' = [writable EXCEPT ![x].queue = q]
      BY <1>2, <2>1, <2>2, <2>3
    <2>5. Fields(writable'[d], IF d = x THEN q ELSE w.queue, w.length, w.ended, w.finished, w.corked)
      BY <1>1, <2>4, WritableFields, Zenon
    <2> QED
      BY <1>1, <2>1, <2>3, <2>5 DEF Fields
  <1>6. ASSUME FinalizeShrinks
        PROVE  /\ writable'[d].queue = w.queue /\ writable'[d].ended = w.ended
               /\ writable'[d].length = IF Top.dst # d THEN w.length
                                        ELSE IF w.length > Top.size THEN w.length - Top.size ELSE 0
    <2>1. PICK x, m, k : x \in Dsts /\ x = Top.dst
              /\ m = (IF writable[x].length > Top.size THEN writable[x].length - Top.size ELSE 0)
              /\ writable' = [writable EXCEPT ![x].length = m, ![x].callbacks = k]
      BY <1>6, ShrinksTyped, Zenon
    <2>2. x \in Dsts /\ writable' = [writable EXCEPT ![x].length = m, ![x].callbacks = k]
      BY <2>1
    <2>3. Fields(writable'[d], w.queue, IF d = x THEN m ELSE w.length, w.ended, w.finished, w.corked)
      BY ONLY <1>1, <2>2, Typed, WritableFields, d \in Dsts, Zenon
    <2> QED
      BY <1>1, <2>1, <2>3 DEF Fields
  <1> QED
    BY <1>1, <1>3, <1>4, <1>5, <1>6

LEMMA DrainersStay ==
  ASSUME Typed, Owed, Next, "cork" \notin uses, \A x \in Dsts : writable[x].corked = 0,
         NEW d \in Dsts, Ahead(stack, writable[d], d)
  PROVE  Ahead(stack', writable'[d], d)
  <1>1. PICK n \in Nat : n = Len(stack) /\ n >= 1 /\ Top = stack[n]
    BY TopIs
  <1>2. PICK K : K = {"drainQueue"} /\ "code" \notin K
    <2>1. "code" \notin {"drainQueue"}
      OBVIOUS
    <2> QED
      BY <2>1
  <1>3. PICK X : X = Where(stack, K) /\ X \subseteq 1 .. n
    BY <1>1 DEF Where
  <1>4. SUFFICES ASSUME writable'[d].queue # <<>>
                 PROVE  \E i \in Where(stack', K) : stack'[i].dst = d
    BY <1>2 DEF Ahead
  <1>5. ASSUME writable[d].queue # <<>> PROVE \E i \in X : stack[i].dst = d
    BY <1>2, <1>3, <1>5 DEF Ahead
  <1>6. ASSUME Answered, NEW i \in X, i # n PROVE i \in Where(stack', K) /\ stack'[i].dst = stack[i].dst
    <2>1. i \in Where(stack', K)
      BY <1>1, <1>2, <1>3, <1>6 DEF Answered
    <2>2. Alike(stack[i], stack'[i])
      BY <1>1, <1>3, <1>6 DEF Answered
    <2>3. Kind(stack[i]) = "drainQueue"
      BY <1>2, <1>3, <1>6 DEF Where
    <2>4. stack[i] \notin DeliverFrame
      BY <2>3 DEF DeliverFrame, Kind
    <2> QED
      BY <2>1, <2>2, <2>4 DEF Alike
  <1>7. CASE WriteStarts
    <2>1. Kind(Top) = "write" /\ n \notin X
      BY <1>1, <1>2, <1>3, <1>7, WriteStartsTyped DEF Where
    <2>2. CASE writable[Top.dst].ended
      <3>1. Answered /\ writable' = writable
        BY <1>7, <2>2, WriteStartsTyped
      <3>2. PICK i \in X : stack[i].dst = d
        BY <1>4, <1>5, <3>1
      <3> QED
        BY <1>6, <2>1, <3>1, <3>2
    <2>3. CASE ~writable[Top.dst].ended
      <3>1. PICK f : Became(f) /\ Kind(f) = "drainQueue" /\ f.dst = Top.dst
        BY <1>7, <2>3, WriteStartsTyped
      <3>2. /\ Where(stack', K) = (X \ {n}) \cup (IF Kind(f) \in K THEN {n} ELSE {})
            /\ stack'[n] = f /\ \A j \in 1 .. n - 1 : stack'[j] = stack[j]
        BY <1>1, <1>2, <1>3, <3>1, Becoming
      <3>3. CASE Top.dst = d
        BY <1>2, <3>1, <3>2, <3>3
      <3>4. CASE Top.dst # d
        <4>1. writable[d].queue # <<>>
          BY <1>4, <1>7, <3>4, QueueMoves
        <4>2. PICK i \in X : stack[i].dst = d
          BY <1>5, <4>1
        <4>3. i \in 1 .. n - 1
          BY <1>3, <2>1, <4>2
        <4> QED
          BY <2>1, <3>2, <4>2, <4>3
      <3> QED
        BY <3>3, <3>4
    <2> QED
      BY <2>2, <2>3
  <1>8. CASE QueueDrained
    <2>1. Answered /\ writable' = writable /\ Top.dst \in Dsts /\ ~Drains(Top.dst)
      BY <1>8, QueueDrainedTyped DEF QueueDrained
    <2>2. writable[Top.dst].queue = <<>>
      BY <2>1 DEF Drains
    <2>3. PICK i \in X : stack[i].dst = d
      BY <1>4, <1>5, <2>1
    <2>4. i # n
      BY <1>1, <1>4, <2>1, <2>2, <2>3
    <2> QED
      BY <1>6, <2>1, <2>3, <2>4
  <1>9. ~Uncork
    BY DEF Uncork, Does
  <1>10. CASE ~Queues
    <2>1. writable[d].queue # <<>>
      <3>1. CASE Dispatch
        BY <1>4, <3>1, DispatchTyped, QueueMoves
      <3>2. CASE ~Dispatch
        BY <1>4, <1>10, <3>2, WritersKept DEF Kept, Queues
      <3> QED
        BY <3>1, <3>2
    <2>2. Same(stack, stack', K)
      BY <1>2, <1>10, Undisturbed
    <2> QED
      BY <1>3, <1>5, <2>1, <2>2 DEF Same
  <1> QED
    BY <1>7, <1>8, <1>9, <1>10 DEF Queues

Even(s, w, p, d) ==
  w.length = Total(w.queue) + Total(Shares(p, d)) + ToShrink(s[Len(s)], d)

\* Only the pump ends a Writable here, and nothing but the host is below it.
LEMMA EndIsAlone ==
  ASSUME Typed, Owed, Deep, SinksAnswer, EndSets, NEW d \in Dsts,
         Ahead(stack, writable[d], d), Even(stack, writable[d], pending, d)
  PROVE  writable[d].queue = <<>> /\ writable[d].length = 0
  <1>1. PICK n \in Nat : n = Len(stack) /\ n >= 1 /\ Top = stack[n]
    BY TopIs
  <1>2. Top.at = "end" /\ Kind(Top) = "end"
    BY EndSetsTyped DEF EndSets
  <1>3. "end" \notin uses /\ "defer" \notin uses /\ ~Pulls
    BY DEF SinksAnswer, Pulls
  <1>4. n \in Where(stack, {"end"})
    BY <1>1, <1>2 DEF Where
  <1>5. n = 4 /\ stack[3].at = "ended"
    BY <1>3, <1>4 DEF Deep
  <1>6. Kind(stack[3]) = "ended"
    BY <1>1, <1>5 DEF Kind
  <1>7. 3 \in Where(stack, {"ended"})
    BY <1>1, <1>5, <1>6 DEF Where
  <1>8. stack[2].at = "pump"
    BY <1>3, <1>7 DEF Deep
  <1>9. stack[1].at = "host"
    BY DEF Typed, Stacked
  <1>10. \A i \in 1 .. Len(stack) : Kind(stack[i]) \notin {"drainQueue", "owing"}
    <2>1. Kind(stack[1]) = "host" /\ Kind(stack[2]) = "pump" /\ Kind(stack[3]) = "ended" /\ Kind(stack[4]) = "end"
      BY <1>1, <1>2, <1>5, <1>8, <1>9 DEF Kind
    <2>2. SUFFICES ASSUME NEW i \in 1 .. 4 PROVE Kind(stack[i]) \notin {"drainQueue", "owing"}
      BY <1>1, <1>5
    <2>3. i = 1 \/ i = 2 \/ i = 3 \/ i = 4
      BY <2>2
    <2> QED
      BY <2>1, <2>3
  <1>11. Where(stack, {"drainQueue"}) = {} /\ Where(stack, {"owing"}) = {}
    BY <1>10 DEF Where
  <1>12. writable[d].queue = <<>>
    BY <1>11 DEF Ahead
  <1>13. pending = <<>>
    <2>1. Cardinality(Where(stack, {"owing"})) = 0
      BY <1>11, FS_EmptySet
    <2>2. Len(pending) = 0
      BY <1>3, <2>1 DEF Owed
    <2>3. pending \in Seq(Entry)
      BY DEF Typed
    <2> QED
      BY <2>2, <2>3, EmptySeq
  <1>14. Total(Shares(pending, d)) = 0
    BY <1>13, SharesNone
  <1>15. Total(writable[d].queue) = 0
    <2>1. Len(writable[d].queue) = 0
      BY <1>12
    <2> QED
      BY <2>1, TotalEmpty
  <1>16. ToShrink(Top, d) = 0
    BY <1>2 DEF ToShrink, Shrinks
  <1>17. writable[d].length = 0 + 0 + 0
    BY <1>14, <1>15, <1>16 DEF Even, Top
  <1> QED
    BY <1>12, <1>17

LEMMA EmptiedStep ==
  ASSUME Typed, Owed, Deep, SinksAnswer, Next, NEW d \in Dsts, Ahead(stack, writable[d], d),
         Even(stack, writable[d], pending, d), Emptied(writable[d])
  PROVE  Emptied(writable'[d])
  <1>1. PICK w, v : w = writable[d] /\ v = writable'[d]
    OBVIOUS
  <1>2. Kept(d)
    BY WritersKept
  <1>3. SUFFICES ASSUME v.ended PROVE v.queue = <<>> /\ v.length = 0
    BY <1>1 DEF Emptied
  <1>4. CASE EndSets
    <2>1. w.queue = <<>> /\ w.length = 0
      BY <1>1, <1>4, EndIsAlone
    <2>2. ~WriteStarts /\ ~Dispatch /\ ~FinalizeShrinks
      BY <1>4 DEF EndSets, WriteStarts, Dispatch, FinalizeShrinks
    <2> QED
      BY <1>1, <1>2, <2>1, <2>2 DEF Kept
  <1>5. CASE ~EndSets
    <2>1. w.ended /\ w.queue = <<>> /\ w.length = 0
      BY <1>1, <1>2, <1>3, <1>5 DEF Kept, Emptied
    <2>2. CASE WriteStarts
      BY <1>1, <2>1, <2>2, QueueMoves
    <2>3. CASE Dispatch
      <3>1. Top.dst # d
        BY <1>1, <2>1, <2>3, DispatchTyped
      <3> QED
        BY <1>1, <2>1, <2>3, <3>1, QueueMoves
    <2>4. CASE FinalizeShrinks
      <3>1. Top.size \in Nat
        BY <2>4, ShrinksTyped
      <3>2. v.queue = w.queue /\ v.length = IF Top.dst # d THEN w.length
                            ELSE IF w.length > Top.size THEN w.length - Top.size ELSE 0
        BY <1>1, <2>4, QueueMoves
      <3> QED
        BY <2>1, <3>1, <3>2
    <2>5. CASE ~(WriteStarts \/ Dispatch \/ FinalizeShrinks)
      BY <1>1, <1>2, <2>1, <2>5 DEF Kept
    <2> QED
      BY <2>2, <2>3, <2>4, <2>5
  <1> QED
    BY <1>4, <1>5

LEMMA EvenStep ==
  ASSUME Typed, Owed, Finishing, Next, OnlyTop(stack), NEW d \in Dsts,
         Even(stack, writable[d], pending, d)
  PROVE  Even(stack', writable'[d], pending', d)
  <1>1. PICK w, v, p, q, f, g : /\ w = writable[d] /\ v = writable'[d] /\ p = pending /\ q = pending'
                                /\ f = Top /\ g = stack'[Len(stack')]
    OBVIOUS
  <1>2. w.queue \in Seq(Chunk) /\ w.length \in Nat /\ p \in Seq(Entry)
    BY <1>1 DEF Typed, Writing
  <1>3. PICK T, P \in Nat : T = Total(w.queue) /\ P = Total(Shares(p, d))
    <2>1. Total(w.queue) \in Nat
      <3>1. CASE w.queue = <<>>
        <4>1. Len(w.queue) = 0
          BY <3>1
        <4> QED
          BY <4>1, TotalEmpty
      <3>2. CASE w.queue # <<>>
        <4>1. Head(w.queue) \in Chunk
          BY <1>2, <3>2
        <4> QED
          BY <1>2, <4>1, ChunkTotals
      <3> QED
        BY <3>1, <3>2
    <2>2. Total(Shares(p, d)) \in Nat
      <3>1. [dst |-> d, size |-> 0, final |-> FALSE] \in Entry
        BY DEF Entry
      <3>2. PICK e : e \in Entry
        BY <3>1
      <3> QED
        BY <1>2, <3>2, SharesAppend
    <2> QED
      BY <2>1, <2>2
  <1>4. w.length = T + P + ToShrink(f, d)
    BY <1>1, <1>3 DEF Even, Top
  <1>5. SUFFICES v.length = Total(v.queue) + Total(Shares(q, d)) + ToShrink(g, d)
    BY <1>1 DEF Even
  <1>6. /\ ~FinalizeShrinks => ToShrink(f, d) = 0
        /\ ~Completing => ToShrink(g, d) = 0
        /\ Completing => \E e \in Entry :
             /\ q \in Seq(Entry) /\ p = Append(q, e) /\ e = p[Len(p)]
             /\ ToShrink(g, d) = IF e.final THEN 0 ELSE Share(e, d)
    BY <1>1, ShrinkTop
  <1>7. Kept(d)
    BY WritersKept
  <1>8. ASSUME ~FinalizeShrinks, ~Completing, v.queue = w.queue, v.length = w.length, q = p
        PROVE  v.length = Total(v.queue) + Total(Shares(q, d)) + ToShrink(g, d)
    BY <1>3, <1>4, <1>6, <1>8
  <1>9. CASE WriteStarts
    <2>1. q = p /\ ~FinalizeShrinks /\ ~Completing
      BY <1>1, <1>9 DEF WriteStarts, FinalizeShrinks, Completing, Completes, CompletesLater
    <2>2. CASE w.ended \/ Top.dst # d
      <3>1. v.queue = w.queue /\ v.length = w.length
        BY <1>1, <1>9, <2>2, QueueMoves
      <3> QED
        BY <1>8, <2>1, <3>1
    <2>3. CASE ~w.ended /\ Top.dst = d
      <3>1. PICK c \in Chunk : c = Top.chunk /\ c.size \in Nat
        BY <1>9, WriteTop DEF WriteStarts
      <3>2. v.queue = Append(w.queue, c) /\ v.length = w.length + c.size
        BY <1>1, <1>9, <2>3, <3>1, QueueMoves
      <3>3. Total(v.queue) = T + c.size
        BY <1>2, <1>3, <3>2, ChunkTotals
      <3>4. Total(Shares(q, d)) = P /\ ToShrink(f, d) = 0 /\ ToShrink(g, d) = 0
        BY <1>3, <1>6, <2>1
      <3> QED
        BY <1>3, <1>4, <3>1, <3>2, <3>3, <3>4
    <2> QED
      BY <2>2, <2>3
  <1>10. CASE Dispatch
    <2>1. ToShrink(f, d) = 0 /\ ToShrink(g, d) = 0
      BY <1>6, <1>10 DEF Dispatch, FinalizeShrinks, Completing, Completes, CompletesLater
    <2>2. PICK x \in Dsts, c \in Chunk, e \in Entry :
            /\ x = Top.dst /\ c = Head(writable[x].queue) /\ c.size \in Nat /\ writable[x].queue # <<>>
            /\ e = [dst |-> x, size |-> c.size, final |-> FALSE] /\ q = Append(p, e)
      BY <1>1, <1>10, DispatchTyped
    <2>3. Total(Shares(q, d)) = P + Share(e, d) /\ Share(e, d) = IF x = d THEN c.size ELSE 0
      <3>1. Total(Shares(Append(p, e), d)) = Total(Shares(p, d)) + Share(e, d)
        BY <1>2, SharesAppend
      <3>2. PICK z : z = c.size
        OBVIOUS
      <3>3. e = [dst |-> x, size |-> z, final |-> FALSE]
        BY <2>2, <3>2
      <3>4. e.dst = x /\ e.size = z
        BY <3>3
      <3> QED
        BY <1>3, <2>2, <3>1, <3>2, <3>4 DEF Share
    <2>4. CASE x # d
      <3>1. v.queue = w.queue /\ v.length = w.length
        BY <1>1, <1>10, <2>2, <2>4, QueueMoves
      <3> QED
        BY <1>3, <1>4, <2>1, <2>3, <2>4, <3>1
    <2>5. CASE x = d
      <3>1. v.queue = Tail(w.queue) /\ v.length = w.length
        BY <1>1, <1>10, <2>2, <2>5, QueueMoves
      <3>2. w.queue # <<>> /\ c = Head(w.queue)
        BY <1>1, <2>2, <2>5
      <3>3. Total(v.queue) \in Nat /\ T = c.size + Total(v.queue)
        BY <1>2, <1>3, <3>1, <3>2, ChunkTotals
      <3> QED
        BY <1>3, <1>4, <2>1, <2>2, <2>3, <2>5, <3>1, <3>3, SMTT(60)
    <2> QED
      BY <2>4, <2>5
  <1>11. CASE FinalizeShrinks
    <2>1. q = p /\ ToShrink(g, d) = 0
      BY <1>1, <1>6, <1>11 DEF FinalizeShrinks, Completing, Completes, CompletesLater
    <2>2. Shrinks(f) /\ f.size \in Nat
      BY <1>1, <1>11, ShrinksTyped
    <2>3. v.queue = w.queue /\ v.length = IF f.dst # d THEN w.length
                            ELSE IF w.length > f.size THEN w.length - f.size ELSE 0
      BY <1>1, <1>11, QueueMoves
    <2>4. ToShrink(f, d) = IF f.dst = d THEN f.size ELSE 0
      BY <2>2 DEF ToShrink
    <2> QED
      BY <1>2, <1>3, <1>4, <2>1, <2>2, <2>3, <2>4
  <1>12. CASE Completing
    <2>1. writable' = writable
      BY <1>12, EntryToPop
    <2>2. PICK e \in Entry :
             /\ q \in Seq(Entry) /\ p = Append(q, e) /\ e = p[Len(p)]
             /\ ToShrink(g, d) = IF e.final THEN 0 ELSE Share(e, d)
      BY <1>6, <1>12
    <2>3. Share(e, d) \in Nat /\ Total(Shares(q, d)) \in Nat /\ P = Total(Shares(q, d)) + Share(e, d)
      BY <1>3, <2>2, SharesAppend
    <2>4. e.final => Share(e, d) = 0
      <3>1. Len(p) \in DOMAIN pending
        <4>1. p # <<>>
          BY <2>2
        <4> QED
          BY <1>1, <1>2, <4>1
      <3>2. e.final => e.size = 0
        BY <1>1, <2>2, <3>1 DEF Finishing
      <3> QED
        BY <3>2 DEF Share
    <2>5. ToShrink(f, d) = 0
      BY <1>6, <1>12 DEF FinalizeShrinks, Completing, Completes, CompletesLater
    <2> QED
      BY <1>1, <1>3, <1>4, <2>1, <2>2, <2>3, <2>4, <2>5
  <1>13. CASE MaybeFinishes
    <2>1. v.queue = w.queue /\ v.length = w.length /\ ToShrink(f, d) = 0 /\ ToShrink(g, d) = 0
      BY <1>1, <1>6, <1>7, <1>13 DEF Kept, MaybeFinishes, WriteStarts, Dispatch, FinalizeShrinks,
                                     Completing, Completes, CompletesLater
    <2>2. CASE q = p
      BY <1>3, <1>4, <2>1, <2>2
    <2>3. CASE q # p
      <3>1. PICK x : /\ q = Append(p, [dst |-> x, size |-> 0, final |-> TRUE])
                     /\ [dst |-> x, size |-> 0, final |-> TRUE] \in Entry
        BY <1>1, <1>13, <2>3, MaybeFinishesTyped, Zenon
      <3>2. PICK e \in Entry : e = [dst |-> x, size |-> 0, final |-> TRUE]
        BY <3>1
      <3>3. Share(e, d) = 0
        BY <3>2 DEF Share
      <3>4. Total(Shares(Append(p, e), d)) = Total(Shares(p, d)) + Share(e, d)
        BY <1>2, SharesAppend
      <3>5. Total(Shares(q, d)) = P + 0
        BY <1>3, <3>1, <3>2, <3>3, <3>4
      <3> QED
        BY <1>3, <1>4, <2>1, <3>5
    <2> QED
      BY <2>2, <2>3
  <1>14. CASE CodeEnds
    <2>1. (v = w /\ q = p /\ ~FinalizeShrinks /\ ~Completing) \/ Completing
      BY <1>1, <1>14 DEF CodeEnds, FinalizeShrinks
    <2> QED
      BY <1>8, <1>12, <2>1
  <1>15. CASE ~(WriteStarts \/ Dispatch \/ FinalizeShrinks \/ Completing \/ MaybeFinishes \/ CodeEnds)
    <2>1. q = p
      BY <1>1, <1>15, SinkKept
    <2>2. v.queue = w.queue /\ v.length = w.length
      BY <1>1, <1>7, <1>15 DEF Kept
    <2> QED
      BY <1>8, <1>15, <2>1, <2>2
  <1> QED
    BY <1>9, <1>10, <1>11, <1>12, <1>13, <1>14, <1>15

LEMMA SettlingIs ==
  ASSUME Next
  PROVE  /\ Settling <=> (SinksAnswer => OnlyTop(stack) /\ \A d \in Dsts :
              /\ writable[d].corked = 0 /\ Ahead(stack, writable[d], d)
              /\ Even(stack, writable[d], pending, d) /\ Emptied(writable[d]))
         /\ Settling' <=> (SinksAnswer => OnlyTop(stack') /\ \A d \in Dsts :
              /\ writable'[d].corked = 0 /\ Ahead(stack', writable'[d], d)
              /\ Even(stack', writable'[d], pending', d) /\ Emptied(writable'[d]))
  <1>1. SinksAnswer' <=> SinksAnswer
    BY UsesKept DEF SinksAnswer
  <1>2. Settling <=> (SinksAnswer => OnlyTop(stack) /\ \A d \in Dsts :
              /\ writable[d].corked = 0 /\ Ahead(stack, writable[d], d)
              /\ Even(stack, writable[d], pending, d) /\ Emptied(writable[d]))
    BY Zenon DEF Settling, OnlyTop, Ahead, Even, Emptied, Shrinking, ToShrink, Top
  <1>3. Settling' <=> (SinksAnswer' => OnlyTop(stack') /\ \A d \in Dsts :
              /\ writable'[d].corked = 0 /\ Ahead(stack', writable'[d], d)
              /\ Even(stack', writable'[d], pending', d) /\ Emptied(writable'[d]))
    BY Zenon DEF Settling, OnlyTop, Ahead, Even, Emptied, Shrinking, ToShrink, Top
  <1> QED
    BY <1>1, <1>2, <1>3, Zenon

LEMMA SettlingStep ==
  ASSUME Typed, Owed, Deep, Finishing, Settling, Next
  PROVE  Settling'
  <1>1. SUFFICES ASSUME SinksAnswer
                 PROVE  OnlyTop(stack') /\ \A d \in Dsts :
                          /\ writable'[d].corked = 0 /\ Ahead(stack', writable'[d], d)
                          /\ Even(stack', writable'[d], pending', d) /\ Emptied(writable'[d])
    BY SettlingIs
  <1>2. OnlyTop(stack) /\ \A d \in Dsts :
              /\ writable[d].corked = 0 /\ Ahead(stack, writable[d], d)
              /\ Even(stack, writable[d], pending, d) /\ Emptied(writable[d])
    BY <1>1, SettlingIs
  <1>3. OnlyTop(stack')
    BY <1>2, ShrinkTop
  <1>4. "cork" \notin uses /\ ~Cork /\ ~Uncork
    BY <1>1 DEF SinksAnswer, Cork, Uncork, Does
  <1>5. ASSUME NEW d \in Dsts
        PROVE  /\ writable'[d].corked = 0 /\ Ahead(stack', writable'[d], d)
               /\ Even(stack', writable'[d], pending', d) /\ Emptied(writable'[d])
    <2>1. writable'[d].corked = 0
      BY <1>2, <1>4, WritersKept DEF Kept
    <2>2. Ahead(stack', writable'[d], d)
      BY <1>2, <1>4, DrainersStay
    <2>3. Even(stack', writable'[d], pending', d)
      BY <1>2, EvenStep
    <2>4. Emptied(writable'[d])
      BY <1>1, <1>2, EmptiedStep
    <2> QED
      BY <2>1, <2>2, <2>3, <2>4
  <1> QED
    BY <1>3, <1>5

-----------------------------------------------------------------------------
(***************************************************************************)
(* The invariant and what it gives.                                        *)
(***************************************************************************)
LEMMA NothingStarted ==
  ASSUME Init
  PROVE  /\ Len(stack) = 2 /\ stack[1] = [at |-> "host"] /\ stack[2] = Code("entry")
         /\ Kind(stack[1]) = "host" /\ Kind(stack[2]) = "code" /\ Top = stack[2]
         /\ ~Shrinks(stack[1]) /\ ~Shrinks(stack[2])
         /\ \A K : K \cap {"host", "code"} = {} => Where(stack, K) = {}
  <1>1. Len(stack) = 2 /\ stack[1] = [at |-> "host"] /\ stack[2] = Code("entry")
    BY DEF Init
  <1>2. stack[1].at = "host" /\ stack[2].at = "code" /\ ~stack[2].owes
    <2>1. [at |-> "host"].at = "host"
      OBVIOUS
    <2>2. Code("entry").at = "code" /\ ~Code("entry").owes
      BY DEF Code
    <2> QED
      BY <1>1, <2>1, <2>2, Zenon
  <1>3. Kind(stack[1]) = "host" /\ Kind(stack[2]) = "code"
    BY <1>2 DEF Kind
  <1>4. ~Shrinks(stack[1]) /\ ~Shrinks(stack[2])
    BY <1>2 DEF Shrinks
  <1>5. ASSUME NEW K, K \cap {"host", "code"} = {} PROVE Where(stack, K) = {}
    <2>1. SUFFICES ASSUME NEW i \in 1 .. 2 PROVE Kind(stack[i]) \notin K
      BY <1>1 DEF Where
    <2>2. i = 1 \/ i = 2
      BY <2>1
    <2> QED
      BY <1>3, <1>5, <2>2
  <1> QED
    BY <1>1, <1>3, <1>4, <1>5 DEF Top

LEMMA InitTyped ==
  ASSUME Init
  PROVE  Typed
  <1>1. readable \in Reading
    <2>1. given = <<>> /\ Len(given) = 0
      BY DEF Init
    <2>2. <<>> \in Seq(Chunk) /\ <<>> \in Seq(PipeTo)
      OBVIOUS
    <2> QED
      BY <2>1, <2>2 DEF Init, Reading
  <1>2. writable \in [Dsts -> Writing]
    <2>1. <<>> \in Seq(Chunk)
      OBVIOUS
    <2> QED
      BY <2>1 DEF Init, Writing
  <1>3. Stacked
    <2>1. [at |-> "host"] \in Frame /\ Code("entry") \in Frame
      <3>1. [at |-> "host"] \in PlainFrame
        BY DEF PlainFrame
      <3>2. Code("entry") \in CodeFrame
        BY DEF CodeFrame, Code, Events
      <3> QED
        BY <3>1, <3>2, FrameIs
    <2>2. PICK S, h, c : S = Frame /\ h = [at |-> "host"] /\ c = Code("entry") /\ h \in S /\ c \in S
      BY <2>1
    <2>3. <<h, c>> \in Seq(S)
      BY <2>2
    <2>4. stack = <<h, c>>
      BY <2>2 DEF Init
    <2>5. stack[1].at = "host" /\ stack[2].at = "code" /\ Len(stack) = 2
      BY NothingStarted DEF Code
    <2>6. ASSUME NEW i \in 1 .. 2 PROVE stack[i].at = "host" <=> i = 1
      <3>1. i = 1 \/ i = 2
        OBVIOUS
      <3> QED
        BY <2>5, <3>1
    <2> QED
      BY <2>2, <2>3, <2>4, <2>5, <2>6 DEF Stacked
  <1>4. Noted
    BY DEF Init, Noted
  <1>5. pending \in Seq(Entry) /\ ending \in BOOLEAN /\ held \in Nat
    <2>1. pending = <<>> /\ ending = FALSE /\ held = 0
      BY DEF Init
    <2>2. <<>> \in Seq(Entry)
      OBVIOUS
    <2> QED
      BY <2>1, <2>2
  <1> QED
    BY <1>1, <1>2, <1>3, <1>4, <1>5 DEF Typed

LEMMA InitIInv ==
  ASSUME Init
  PROVE  IInv
  <1>1. Typed
    BY InitTyped
  <1>2. \A K : K \cap {"host", "code"} = {} => Where(stack, K) = {}
    BY NothingStarted
  <1>3. readable.buf = <<>> /\ readable.length = 0 /\ ~readable.ended /\ ~readable.readableEnded
        /\ readable.pipes = <<>> /\ readable.waiter = 0 /\ readable.flowing = "none"
    BY DEF Init
  <1>4. pending = <<>> /\ held = 0 /\ accepted = {} /\ got = <<>> /\ given = <<>> /\ unfed = Dsts
    BY DEF Init
  <1>5. ASSUME NEW d \in Dsts
        PROVE  /\ writable[d].queue = <<>> /\ writable[d].length = 0 /\ writable[d].corked = 0
               /\ ~writable[d].ended /\ ~writable[d].finished
               /\ offered[d] = <<>> /\ arrived[d] = <<>>
    BY DEF Init
  <1>6. /\ Where(stack, {"owing"}) = {} /\ Where(stack, Hand) = {} /\ Where(stack, {"next"}) = {}
        /\ Where(stack, {"pump"}) = {} /\ Where(stack, {"ended"}) = {} /\ Where(stack, {"end"}) = {}
        /\ Where(stack, {"data", "deliver", "resume"}) = {} /\ Where(stack, {"push"}) = {}
        /\ Where(stack, {"finish"}) = {} /\ Where(stack, {"unpipe"}) = {}
    BY <1>2 DEF Hand
  <1>7. Len(<<>>) = 0 /\ DOMAIN <<>> = {}
    OBVIOUS
  <1>8. Cardinality({}) = 0
    BY FS_EmptySet
  <1>9. Owed
    <2>1. PICK c : c = Cardinality(Where(stack, {"owing"}))
      OBVIOUS
    <2>2. c = 0 /\ Len(pending) = 0
      BY <1>4, <1>6, <1>7, <1>8, <2>1
    <2> QED
      BY <1>4, <2>1, <2>2 DEF Owed
  <1>10. Weighed
    BY <1>3, <1>7, TotalEmpty DEF Weighed
  <1>11. Placed
    BY <1>3, <1>4, <1>6, <1>7, <1>8 DEF Placed, Chunks, Ids, ToSet
  <1>12. Offered
    <2>1. IdsOf(<<>>) = <<>>
      BY <1>7 DEF IdsOf
    <2>2. <<>> \o IdsOf(<<>>) = <<>>
      BY <2>1
    <2> QED
      BY <1>5, <2>2 DEF Offered
  <1>13. Asking
    BY <1>4, <1>6, <1>7 DEF Asking
  <1>14. Deep /\ Late
    BY <1>6 DEF Deep, Late
  <1>15. Still
    BY <1>3, <1>6 DEF Still, Flows
  <1>16. Told /\ Piped
    BY <1>3, <1>4 DEF Told, Piped
  <1>17. Finishing
    BY <1>4, <1>5, <1>6, <1>7 DEF Finishing
  <1>18. Settling
    <2>1. ASSUME NEW i \in 1 .. Len(stack) PROVE ~Shrinks(stack[i])
      <3>1. i = 1 \/ i = 2
        <4>1. Len(stack) = 2
          BY NothingStarted
        <4> QED
          BY <2>1, <4>1
      <3> QED
        BY <3>1, NothingStarted
    <2>2. ASSUME NEW d \in Dsts
          PROVE  writable[d].length = Total(writable[d].queue) + Total(Shares(pending, d)) + Shrinking(d)
      <3>1. Shrinking(d) = 0
        BY NothingStarted DEF Shrinking
      <3>2. Total(writable[d].queue) = 0
        BY <1>5, <1>7, TotalEmpty
      <3>3. Total(Shares(pending, d)) = 0
        BY <1>4, SharesNone
      <3> QED
        BY <1>5, <3>1, <3>2, <3>3
    <2> QED
      BY <1>5, <2>1, <2>2 DEF Settling
  <1> QED
    BY <1>1, <1>9, <1>10, <1>11, <1>12, <1>13, <1>14, <1>15, <1>16, <1>17, <1>18 DEF IInv

LEMMA Stutters ==
  ASSUME IInv, UNCHANGED vars
  PROVE  IInv'
  <1>1. UNCHANGED <<readable, writable, pending, ending, held, stack, uses, made, accepted, got, given,
                    offered, arrived, unfed>>
    BY DEF vars, program, reads, writes
  <1>2. Typed'
    <2>1. Chunk' = Chunk
      BY <1>1 DEF Chunk
    <2>2. Reading' = Reading /\ Writing' = Writing
      BY <1>1, <2>1 DEF Reading, Writing
    <2>3. Frame' = Frame
      BY <1>1, <2>1 DEF Frame
    <2>4. Stacked' /\ Noted'
      BY <1>1, <2>3, Zenon DEF IInv, Typed, Stacked, Noted
    <2> QED
      BY <1>1, <2>2, <2>4, Zenon DEF IInv, Typed
  <1>3. Owed' /\ Weighed' /\ Placed' /\ Offered' /\ Asking'
    BY <1>1, Zenon DEF IInv, Owed, Weighed, Placed, Offered, Asking, Open
  <1>4. Deep' /\ Late' /\ Still' /\ Told'
    BY <1>1, Zenon DEF IInv, Deep, Late, Still, Told, Pulls, MayFlow, Flows
  <1>5. Piped' /\ Finishing'
    <2>1. ASSUME NEW d PROVE StillToWrite(d)' = StillToWrite(d)
      BY <1>1, Zenon DEF StillToWrite
    <2>2. Piped'
      BY <1>1, <2>1, Zenon DEF IInv, Piped
    <2>3. Finishing'
      BY <1>1, Zenon DEF IInv, Finishing, Done
    <2> QED
      BY <2>2, <2>3
  <1>6. Settling'
    BY <1>1, Zenon DEF IInv, Settling, SinksAnswer, Shrinking, Top
  <1> QED
    BY <1>2, <1>3, <1>4, <1>5, <1>6 DEF IInv

LEMMA IInvStep ==
  ASSUME IInv, [Next]_vars
  PROVE  IInv'
  <1>1. Typed /\ Owed /\ Weighed /\ Placed /\ Offered /\ Asking /\ Deep /\ Late /\ Still /\ Told
        /\ Piped /\ Finishing /\ Settling
    BY DEF IInv
  <1>2. CASE Next
    <2>1. Typed'
      BY <1>1, <1>2, Touches
    <2>2. Owed' /\ Weighed' /\ Placed' /\ Offered'
      BY <1>1, <1>2, OwedStep, WeighedStep, PlacedStep, OfferedStep
    <2>3. Asking' /\ Deep' /\ Late' /\ Still' /\ Told'
      BY <1>1, <1>2, AskingStep, DeepStep, LateStep, StillStep, ToldStep
    <2>4. Piped' /\ Finishing' /\ Settling'
      BY <1>1, <1>2, PipedStep, FinishingStep, SettlingStep
    <2> QED
      BY <2>1, <2>2, <2>3, <2>4 DEF IInv
  <1>3. CASE UNCHANGED vars
    BY <1>3, Stutters
  <1> QED
    BY <1>2, <1>3

\* Each part holds in every state a program can bring the streams to.
THEOREM Inductive == Spec => []IInv
  <1>1. Init => IInv
    BY InitIInv
  <1>2. IInv /\ [Next]_vars => IInv'
    BY IInvStep
  <1> QED
    BY <1>1, <1>2, PTL DEF Spec

\* The stack is made of frames with what they need, the buffer weighs what it
\* holds, and a completion that is still to come has the entry it will pop.
THEOREM StreamTypes == Spec => []TypeOK
  <1>1. ASSUME IInv PROVE TypeOK
    <2>1. Typed /\ Owed /\ Weighed
      BY <1>1 DEF IInv
    <2>2. DOMAIN stack = 1 .. Len(stack) /\ stack \in Seq(Frame)
      BY <2>1 DEF Typed, Stacked
    <2>3. {i \in DOMAIN stack : stack[i].at = "code" /\ stack[i].owes} = Where(stack, {"owing"})
      <3>1. ASSUME NEW i \in 1 .. Len(stack)
            PROVE  (stack[i].at = "code" /\ stack[i].owes) <=> Kind(stack[i]) \in {"owing"}
        <4>1. stack[i] \in Frame
          BY <2>2, <3>1
        <4>2. stack[i].at # "owing"
          BY <4>1, KindOf
        <4> QED
          BY <4>2 DEF Kind
      <3> QED
        BY <2>2, <3>1, Zenon DEF Where
    <2>4. Len(pending) >= held + Cardinality(Where(stack, {"owing"}))
      BY <2>1 DEF Owed
    <2>5. \A i \in DOMAIN stack : stack[i] \in Frame /\ (stack[i].at = "host" <=> i = 1)
      BY <2>1, <2>2 DEF Typed, Stacked
    <2>6. \A d \in Dsts : writable[d].queue \in Seq(Chunk)
      BY <2>1 DEF Typed, Writing
    <2>7. readable.buf \in Seq(Chunk) /\ readable.waiter \in 0 .. Len(given)
          /\ readable.flowing \in {"none", "on", "off"}
      BY <2>1 DEF Typed, Reading
    <2>8. readable.length = Total(readable.buf)
      BY <2>1 DEF Weighed
    <2> QED
      BY <2>3, <2>4, <2>5, <2>6, <2>7, <2>8, Zenon DEF TypeOK
  <1> QED
    BY <1>1, Inductive, PTL

LEMMA AtHandIs ==
  ASSUME Typed
  PROVE  AtHand = Where(stack, Hand)
  <1>1. DOMAIN stack = 1 .. Len(stack) /\ stack \in Seq(Frame)
    BY DEF Typed, Stacked
  <1>2. ASSUME NEW i \in 1 .. Len(stack)
        PROVE  (stack[i].at = "push" \/ (stack[i].at = "deliver" /\ stack[i].stage = "data"))
                 <=> Kind(stack[i]) \in Hand
    <2>1. stack[i] \in Frame
      BY <1>1, <1>2
    <2>2. stack[i].at # "data"
      BY <2>1, KindOf
    <2> QED
      BY <2>2 DEF Kind, Hand
  <1> QED
    BY <1>1, <1>2, Zenon DEF AtHand, Where

\* Nothing that was pushed or written is lost, doubled or out of its queue's order,
\* however many Writables there are, whatever they hold and whatever the program's
\* listeners call in the middle of what the streams do.
THEOREM StreamsLoseNothing == Spec => []NothingLost
  <1>1. ASSUME IInv PROVE NothingLost
    <2>1. Typed /\ Placed /\ Offered
      BY <1>1 DEF IInv
    <2>2. AtHand = Where(stack, Hand)
      BY <2>1, AtHandIs
    <2> QED
      BY <2>1, <2>2, Zenon DEF NothingLost, Placed, Offered, Chunks, IdsOf
  <1> QED
    BY <1>1, Inductive, PTL

\* Until the end is told, each destination that was piped to from the start is
\* written everything the listeners are given, or is about to be.
THEOREM EveryPipeGetsAll == Spec => []PipesGetAll
  <1>1. ASSUME IInv PROVE PipesGetAll
    BY <1>1, Zenon DEF IInv, Piped, PipesGetAll
  <1> QED
    BY <1>1, Inductive, PTL

\* The end is told after every chunk has been handed over but the empty ones that
\* are left in the buffer, whatever the sizes of the others, and a Writable finishes
\* after everything it was given.
THEOREM TheEndIsLast == Spec => []EndsAreLast
  <1>1. ASSUME IInv PROVE EndsAreLast
    <2>1. Typed /\ Placed /\ Offered /\ Told /\ Finishing /\ Settling
      BY <1>1 DEF IInv
    <2>2. ASSUME ~(Pulls /\ MayFlow), readable.readableEnded, NEW id \in accepted \ ToSet(got)
          PROVE  \E c \in Withheld : c.id = id /\ c.size = 0
      <3>1. AtHand = Where(stack, Hand)
        BY <2>1, AtHandIs
      <3>2. CASE id \in Ids(readable.buf)
        <4>1. DOMAIN readable.buf = 1 .. Len(readable.buf)
          BY <2>1 DEF Typed, Reading
        <4>2. PICK i \in 1 .. Len(readable.buf) : readable.buf[i].id = id
          BY <3>2, <4>1 DEF Ids
        <4>3. readable.buf[i].size = 0
          BY <2>1, <2>2, <4>2 DEF Told
        <4>4. readable.buf[i] \in Withheld
          BY <4>1, <4>2 DEF Withheld, ToSet
        <4> QED
          BY <4>2, <4>3, <4>4
      <3>3. CASE id \in Chunks(stack, Hand)
        <4>1. PICK i \in Where(stack, Hand) : stack[i].chunk.id = id
          BY <3>3 DEF Chunks
        <4>2. i \in Where(stack, {"data"})
          <5>1. i \notin Where(stack, {"push"})
            BY <2>1, <2>2 DEF Told
          <5> QED
            BY <4>1, <5>1 DEF Where, Hand
        <4>3. stack[i].chunk.size = 0
          BY <2>1, <2>2, <4>2 DEF Told
        <4>4. stack[i].chunk \in Withheld
          BY <3>1, <4>1 DEF Withheld
        <4> QED
          BY <4>1, <4>3, <4>4
      <3> QED
        BY <2>1, <2>2, <3>2, <3>3 DEF Placed
    <2>3. ASSUME NEW d \in Dsts, writable[d].finished
          PROVE  offered[d] = arrived[d] /\ (SinksAnswer => writable[d].length = 0)
      <3>1. writable[d].ended /\ writable[d].queue = <<>>
        BY <2>1, <2>3 DEF Finishing, Done
      <3>2. IdsOf(<<>>) = <<>>
        BY DEF IdsOf
      <3>3. arrived[d] \in Seq(Nat)
        BY <2>1 DEF Typed, Noted
      <3>4. offered[d] = arrived[d] \o <<>>
        BY <2>1, <3>1, <3>2 DEF Offered
      <3>5. offered[d] = arrived[d]
        BY <3>3, <3>4, ConcatEmptySeq
      <3>6. SinksAnswer => writable[d].length = 0
        BY <2>1, <3>1 DEF Settling
      <3> QED
        BY <3>5, <3>6
    <2> QED
      BY <2>2, <2>3, Zenon DEF EndsAreLast
  <1> QED
    BY <1>1, Inductive, PTL

\* A read that waits is the one the stream remembers.
THEOREM NobodyIsOrphaned == Spec => []NoReadOrphaned
  <1>1. ASSUME IInv PROVE NoReadOrphaned
    BY <1>1, Zenon DEF IInv, Asking, NoReadOrphaned
  <1> QED
    BY <1>1, Inductive, PTL
=============================================================================
