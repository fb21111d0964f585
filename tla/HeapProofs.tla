----------------------------- MODULE HeapProofs -----------------------------
(***************************************************************************)
(* Proofs about modules Region and Heap.  First, the region stays sound    *)
(* through every operation of the allocator; then the collector keeps      *)
(* whatever the program can reach: what is doomed is what a set closed     *)
(* under the edges leaves out, and a sweep that is halfway done has        *)
(* released only what was doomed and its blocks.                           *)
(***************************************************************************)
EXTENDS HeapProperties, Iteration

-----------------------------------------------------------------------------
(***************************************************************************)
(* The region.  It is sound when its headers, its flags of covered cells   *)
(* and its two structures of free cells agree; each operation of the       *)
(* allocator is shown to keep that, and to change the objects only as it   *)
(* says.                                                                   *)
(***************************************************************************)

RegionType ==
    [next : 0 .. MaxCells, limit : 1 .. MaxCells, reserved : 1 .. MaxCells,
     word : [Cells -> Word .. MaxCells], inside : [Cells -> BOOLEAN],
     free : Seq(Cells), runs : Seq([start : Cells, len : 1 .. MaxCells]),
     field : [Cells -> Cells \cup {Nil}], stale : SUBSET Cells]

FreeCells(r) == {c \in 0 .. r.next - 1 : IsFreeCell(r, c)}

\* The bounds are in order.
Bounded(r) == r.next <= r.limit /\ r.limit <= r.reserved

\* A cell never handed out is as it was made.
Untouched(r) ==
    \A c \in Cells : c >= r.next =>
        r.word[c] = Zero /\ ~r.inside[c] /\ r.field[c] = Nil /\ c \notin r.stale

\* A header tells the cells its object covers, and these are flagged.
Headed(r) ==
    \A o \in Objects(r) : /\ r.word[o] >= 1 /\ o + r.word[o] <= r.next
                          /\ \A d \in o + 1 .. o + r.word[o] - 1 : r.inside[d]

\* A flagged cell is covered by an object.
Covered(r) ==
    \A d \in Cells : r.inside[d] => \E o \in Objects(r) : d \in o + 1 .. o + r.word[o] - 1

Layout(r) == Bounded(r) /\ Untouched(r) /\ Headed(r) /\ Covered(r)

\* The list and the runs name each free cell once between them, and no other.
SpanOf(run) == Span(run.start, run.len)
OnceListed(free) == \A i, j \in 1 .. Len(free) : i # j => free[i] # free[j]
RunsApart(runs) == \A i, j \in 1 .. Len(runs) : i # j => SpanOf(runs[i]) \cap SpanOf(runs[j]) = {}
InList(free, c) == \E i \in 1 .. Len(free) : free[i] = c
InRun(runs, c) == \E j \in 1 .. Len(runs) : c \in SpanOf(runs[j])
Lists(free, runs, F) ==
    /\ OnceListed(free) /\ RunsApart(runs)
    /\ \A c : ~(InList(free, c) /\ InRun(runs, c))
    /\ \A c : c \in F <=> InList(free, c) \/ InRun(runs, c)

Sound(r) == Layout(r) /\ Lists(r.free, r.runs, FreeCells(r))

-----------------------------------------------------------------------------
(***************************************************************************)
(* Numbers and sets.                                                       *)
(***************************************************************************)
\* The larger of two numbers.
LEMMA MaxOfTwo ==
  ASSUME NEW a \in Int, NEW b \in Int
  PROVE  Max({a, b}) = IF a >= b THEN a ELSE b
  <1> DEFINE m == IF a >= b THEN a ELSE b
             Is(x) == x \in {a, b} /\ \A y \in {a, b} : x >= y
  <1>1. Is(m)
    BY SMT
  <1>2. Max({a, b}) = CHOOSE x : Is(x)
    BY Zenon DEF Max
  <1>3. Is(Max({a, b}))
    BY <1>1, <1>2, Zenon
  <1> QED
    BY <1>3, SMT

\* The smaller of two numbers.
LEMMA MinOfTwo ==
  ASSUME NEW a \in Int, NEW b \in Int
  PROVE  Min({a, b}) = IF a <= b THEN a ELSE b
  <1> DEFINE m == IF a <= b THEN a ELSE b
             Is(x) == x \in {a, b} /\ \A y \in {a, b} : x <= y
  <1>1. Is(m)
    BY SMT
  <1>2. Min({a, b}) = CHOOSE x : Is(x)
    BY Zenon DEF Min
  <1>3. Is(Min({a, b}))
    BY <1>1, <1>2, Zenon
  <1> QED
    BY <1>3, SMT

\* A set of naturals that is not empty has a least element.
LEMMA MinOf ==
  ASSUME NEW S \in SUBSET Nat, S # {}
  PROVE  Min(S) \in S /\ \A y \in S : Min(S) <= y
  <1> DEFINE Is(x) == x \in S /\ \A y \in S : x <= y
  <1>1. \E x : Is(x)
    BY LeastExists, Zenon
  <1>2. Min(S) = CHOOSE z : Is(z)
    BY Zenon DEF Min
  <1> QED
    BY <1>1, <1>2, Zenon

\* Ascending puts the members of a finite set in order.
LEMMA InOrder ==
  ASSUME NEW S \in SUBSET Nat, IsFiniteSet(S)
  PROVE  Enumerates(Ascending(S), S) /\ Len(Ascending(S)) = Cardinality(S)
  <1> DEFINE below == [c \in S |-> {d \in S : d < c}]
             a == [i \in 1 .. Cardinality(S) |-> CHOOSE c \in S : Cardinality(below[c]) = i - 1]
  <1>1. \A c \in S : \A d : d \in below[c] <=> d \in S /\ d < c
    BY Zenon
  <1>2. Ascending(S) = a
    BY Zenon DEF Ascending
  <1> HIDE DEF below, a
  <1>3. \A c \in S : below[c] \subseteq S \ {c}
    <2>1. TAKE c \in S
    <2>2. \A d \in below[c] : d \in S /\ d # c
      BY <1>1, SMT
    <2> QED
      BY <2>2, Zenon
  <1>4. \A c, e \in S : c < e => c \in below[e] /\ below[c] \subseteq below[e]
    <2>1. SUFFICES ASSUME NEW c \in S, NEW e \in S, c < e
                   PROVE  c \in below[e] /\ below[c] \subseteq below[e]
      OBVIOUS
    <2>2. ASSUME NEW d \in below[c] PROVE d \in below[e]
      <3>1. d \in S /\ d < c
        BY <1>1, <2>2, Zenon
      <3>2. c \in Nat /\ d \in Nat /\ e \in Nat
        BY <3>1
      <3>3. d < e
        BY <2>1, <3>1, <3>2, SMT
      <3> QED
        BY <1>1, <3>1, <3>3, Zenon
    <2> QED
      BY <1>1, <2>1, <2>2, Zenon
  <1>5. \A c, e \in S : c # e => c < e \/ e < c
    BY SMT
  <1>6. Ordering(below, S)
    BY <1>3, <1>4, <1>5, Zenon DEF Ordering
  <1>7. \A b : b = a => Enumerates(b, S) /\ Len(b) = Cardinality(S)
    BY <1>6, Listing, ZenonT(60) DEF a
  <1> QED
    BY <1>2, <1>7, Zenon

-----------------------------------------------------------------------------
(***************************************************************************)
(* Objects and the cells they cover.                                       *)
(***************************************************************************)
\* The parts of a region, each with its type.
LEMMA Parts ==
  ASSUME NEW r \in RegionType
  PROVE  /\ MaxCells \in Nat /\ MaxCells >= 1 /\ Cells = 0 .. MaxCells - 1
         /\ r.next \in 0 .. MaxCells /\ r.limit \in 1 .. MaxCells /\ r.reserved \in 1 .. MaxCells
         /\ \A c \in Cells : /\ c \in Int
                             /\ r.word[c] \in Int /\ r.word[c] <= MaxCells
                             /\ r.inside[c] \in BOOLEAN
                             /\ r.field[c] \in Cells \cup {Nil}
         /\ \A c \in 0 .. r.next - 1 : c \in Cells
         /\ r.free \in Seq(Cells) /\ r.runs \in Seq([start : Cells, len : 1 .. MaxCells])
         /\ r.stale \subseteq Cells
  BY RegionAssumption, SMTT(60) DEF RegionType, Cells, Word

\* An object is a cell, and its body is what its header says.
LEMMA BodyOf ==
  ASSUME NEW r \in RegionType, Headed(r), NEW o \in Objects(r)
  PROVE  /\ o \in Cells /\ o \in Int /\ o < r.next /\ ~r.inside[o] /\ r.word[o] # FreeMarker
         /\ r.word[o] \in Int /\ r.word[o] >= 1 /\ o + r.word[o] <= r.next
         /\ Body(r, o) = o .. o + r.word[o] - 1
         /\ Body(r, o) \subseteq Cells /\ o \in Body(r, o)
         /\ \A d \in Body(r, o) : d \in Int /\ d < r.next /\ (d # o => r.inside[d])
  <1>1. /\ o \in 0 .. r.next - 1 /\ ~r.inside[o] /\ r.word[o] # FreeMarker
        /\ r.word[o] >= 1 /\ o + r.word[o] <= r.next
        /\ \A d \in o + 1 .. o + r.word[o] - 1 : r.inside[d]
    BY DEF Objects, Headed
  <1>2. /\ MaxCells \in Nat /\ Cells = 0 .. MaxCells - 1 /\ r.next \in 0 .. MaxCells
        /\ o \in Cells /\ r.word[o] \in Int
    BY <1>1, Parts
  <1>3. Max({1, r.word[o]}) = r.word[o]
    <2>1. Max({1, r.word[o]}) = IF 1 >= r.word[o] THEN 1 ELSE r.word[o]
      BY <1>2, MaxOfTwo
    <2> QED
      BY <1>1, <1>2, <2>1
  <1>4. Body(r, o) = o .. o + r.word[o] - 1
    BY <1>3 DEF Body, Span
  <1>5. /\ o \in Int /\ o < r.next /\ o .. o + r.word[o] - 1 \subseteq 0 .. MaxCells - 1
        /\ o \in o .. o + r.word[o] - 1
        /\ \A d \in o .. o + r.word[o] - 1 : d \in Int /\ d < r.next
        /\ \A d \in o .. o + r.word[o] - 1 : d # o => d \in o + 1 .. o + r.word[o] - 1
    BY <1>1, <1>2, SMTT(60)
  <1> QED
    BY <1>1, <1>2, <1>4, <1>5

\* Two objects share no cell.
LEMMA BodiesApart ==
  ASSUME NEW r \in RegionType, Headed(r), NEW o \in Objects(r), NEW p \in Objects(r),
         NEW d \in Body(r, o), d \in Body(r, p)
  PROVE  o = p
  <1>1. ASSUME NEW a \in Objects(r), NEW b \in Objects(r), d \in Body(r, a), d \in Body(r, b), a < b
        PROVE  FALSE
    <2>1. a \in Int /\ r.word[a] \in Int /\ Body(r, a) = a .. a + r.word[a] - 1
          /\ \A e \in Body(r, a) : e # a => r.inside[e]
      BY BodyOf
    <2>2. b \in Int /\ r.word[b] \in Int /\ Body(r, b) = b .. b + r.word[b] - 1 /\ ~r.inside[b]
      BY BodyOf
    <2>3. b \in a .. a + r.word[a] - 1 /\ b # a
      BY <1>1, <2>1, <2>2, SMT
    <2> QED
      BY <2>1, <2>2, <2>3, Zenon
  <1>2. o \in Int /\ p \in Int
    BY BodyOf
  <1>3. o < p \/ p < o \/ o = p
    BY <1>2
  <1> QED
    BY <1>1, <1>3

\* An object's cells are not free ones.
LEMMA BodyNotFree ==
  ASSUME NEW r \in RegionType, Headed(r), NEW o \in Objects(r), NEW d \in Body(r, o)
  PROVE  d \notin FreeCells(r)
  <1>1. ~r.inside[o] /\ r.word[o] # FreeMarker /\ (d # o => r.inside[d])
    BY BodyOf
  <1> QED
    BY <1>1 DEF FreeCells, IsFreeCell

-----------------------------------------------------------------------------
(***************************************************************************)
(* Cells taken for an object of k cells at c: free ones, or the next of    *)
(* those never handed out.                                                 *)
(***************************************************************************)
Room(r, q, c, k) ==
  \/ q.next = r.next /\ Span(c, k) \subseteq FreeCells(r)
  \/ c = r.next /\ q.next = r.next + k /\ q.next <= r.limit

Taken(r, q, c, k) ==
  /\ c \in Cells /\ k \in Nat /\ k >= 1 /\ Room(r, q, c, k)
  /\ q.limit = r.limit /\ q.reserved = r.reserved
  /\ \A d \in Cells : q.word[d] = IF d = c THEN k ELSE r.word[d]
  /\ \A d \in Cells : q.inside[d] <=> r.inside[d] \/ d \in c + 1 .. c + k - 1
  /\ \A d \in Cells : d \notin Span(c, k) =>
       q.field[d] = r.field[d] /\ (d \in q.stale <=> d \in r.stale)
  /\ \A d \in Span(c, k) : q.field[d] = Nil \/ d \in q.stale

\* Where those cells are, and what they were.
LEMMA RoomIs ==
  ASSUME NEW r \in RegionType, NEW q \in RegionType, NEW c, NEW k, Layout(r), Taken(r, q, c, k)
  PROVE  /\ k \in Nat /\ k >= 1 /\ c \in Int /\ c \in Cells /\ c + k <= q.next /\ r.next <= q.next
         /\ Span(c, k) = c .. c + k - 1 /\ Span(c, k) \subseteq Cells
         /\ \A d \in Span(c, k) : ~r.inside[d] /\ d \notin Objects(r) /\ d < q.next
         /\ \A d \in Cells : r.next <= d /\ d < q.next => d \in Span(c, k)
  <1>1. /\ MaxCells \in Nat /\ MaxCells >= 1 /\ Cells = 0 .. MaxCells - 1
        /\ r.next \in 0 .. MaxCells /\ q.next \in 0 .. MaxCells
    BY Parts
  <1>2. c \in Cells /\ k \in Nat /\ k >= 1 /\ Room(r, q, c, k) /\ Span(c, k) = c .. c + k - 1
    BY DEF Taken, Span
  <1>3. CASE q.next = r.next /\ Span(c, k) \subseteq FreeCells(r)
    <2>1. \A d \in Span(c, k) : d \in 0 .. r.next - 1 /\ ~r.inside[d] /\ r.word[d] = FreeMarker
      BY <1>3 DEF FreeCells, IsFreeCell
    <2>2. c \in Span(c, k) /\ c + k - 1 \in Span(c, k) /\ c \in Int /\ c + k - 1 \in Int
      BY <1>1, <1>2
    <2>3. c + k <= q.next
      <3>1. c + k - 1 \in 0 .. r.next - 1 /\ c \in Int /\ k \in Int
        BY <1>2, <2>1, <2>2
      <3>2. q.next = r.next /\ r.next \in Int
        BY <1>1, <1>3
      <3> QED
        BY ONLY <3>1, <3>2, SMT
    <2>4. Span(c, k) \subseteq Cells
      BY <1>1, <1>2, <2>1
    <2>5. \A d \in Span(c, k) : ~r.inside[d] /\ d \notin Objects(r) /\ d < q.next
      BY <1>1, <1>3, <2>1 DEF Objects
    <2> QED
      BY <1>1, <1>2, <1>3, <2>2, <2>3, <2>4, <2>5
  <1>4. CASE c = r.next /\ q.next = r.next + k /\ q.next <= r.limit
    <2>1. c .. c + k - 1 \subseteq Cells /\ c \in Cells
      BY <1>1, <1>2, <1>4
    <2>2. \A d \in c .. c + k - 1 : ~r.inside[d]
      BY <1>1, <1>2, <1>4, <2>1 DEF Layout, Untouched
    <2> QED
      BY <1>1, <1>2, <1>4, <2>1, <2>2 DEF Objects
  <1> QED
    BY <1>2, <1>3, <1>4 DEF Room

\* The first of them is an object, the others are its body, and nothing else
\* changes.
LEMMA Takes ==
  ASSUME NEW r \in RegionType, NEW q \in RegionType, NEW c, NEW k, Layout(r), Taken(r, q, c, k)
  PROVE  /\ Layout(q)
         /\ c \notin Objects(r) /\ Objects(q) = Objects(r) \cup {c}
         /\ FreeCells(q) = FreeCells(r) \ Span(c, k)
         /\ Body(q, c) = Span(c, k)
         /\ \A o \in Objects(r) : q.word[o] = r.word[o] /\ Body(q, o) = Body(r, o)
  <1>1. /\ k \in Nat /\ k >= 1 /\ c \in Int /\ c \in Cells /\ c + k <= q.next /\ r.next <= q.next
        /\ Span(c, k) = c .. c + k - 1 /\ Span(c, k) \subseteq Cells
        /\ \A d \in Span(c, k) : ~r.inside[d] /\ d \notin Objects(r) /\ d < q.next
        /\ \A d \in Cells : r.next <= d /\ d < q.next => d \in Span(c, k)
    BY RoomIs
  <1>2. /\ q.limit = r.limit /\ q.reserved = r.reserved
        /\ \A d \in Cells : q.word[d] = IF d = c THEN k ELSE r.word[d]
        /\ \A d \in Cells : q.inside[d] <=> r.inside[d] \/ d \in c + 1 .. c + k - 1
        /\ \A d \in Cells : d \notin Span(c, k) =>
             q.field[d] = r.field[d] /\ (d \in q.stale <=> d \in r.stale)
    BY DEF Taken
  <1>3. /\ MaxCells \in Nat /\ Cells = 0 .. MaxCells - 1
        /\ r.next \in 0 .. MaxCells /\ q.next \in 0 .. MaxCells
        /\ \A d \in Cells : d \in Int /\ r.word[d] \in Int
    BY Parts
  <1>4. \A d \in Cells : d \in Span(c, k) /\ d # c <=> d \in c + 1 .. c + k - 1
    BY <1>1, <1>3
  <1>5. c \in Span(c, k) /\ c \notin Objects(r)
    BY <1>1
  <1>6. ASSUME NEW d \in Cells PROVE d \in Objects(q) <=> d \in Objects(r) \/ d = c
    <2>1. CASE d = c
      <3>1. ~q.inside[d] /\ q.word[d] # FreeMarker /\ d \in 0 .. q.next - 1
        BY <1>1, <1>2, <1>3, <1>5, <2>1 DEF FreeMarker
      <3> QED
        BY <2>1, <3>1 DEF Objects
    <2>2. CASE d \in Span(c, k) /\ d # c
      <3>1. q.inside[d] /\ d \notin Objects(r)
        BY <1>1, <1>2, <1>4, <2>2
      <3> QED
        BY <2>2, <3>1 DEF Objects
    <2>3. CASE d \notin Span(c, k)
      <3>1. d # c /\ d \notin c + 1 .. c + k - 1 /\ q.word[d] = r.word[d] /\ q.inside[d] = r.inside[d]
        BY <1>2, <1>4, <1>5, <2>3, Parts
      <3>2. d \in 0 .. q.next - 1 <=> d \in 0 .. r.next - 1
        BY <1>1, <1>3, <2>3, SMTT(60)
      <3> QED
        BY <3>1, <3>2 DEF Objects
    <2> QED
      BY <2>1, <2>2, <2>3
  <1>7. Objects(q) = Objects(r) \cup {c}
    <2>1. Objects(q) \subseteq Cells /\ Objects(r) \subseteq Cells
      BY Parts DEF Objects
    <2> QED
      BY <1>1, <1>6, <2>1
  <1>8. FreeCells(q) = FreeCells(r) \ Span(c, k)
    <2>1. FreeCells(q) \subseteq Cells /\ FreeCells(r) \subseteq Cells
      BY Parts DEF FreeCells
    <2>2. ASSUME NEW d \in Cells PROVE d \in FreeCells(q) <=> d \in FreeCells(r) /\ d \notin Span(c, k)
      <3>1. CASE d = c
        <4>1. q.word[d] # FreeMarker
          BY <1>1, <1>2, <3>1 DEF FreeMarker
        <4> QED
          BY <1>5, <3>1, <4>1 DEF FreeCells, IsFreeCell
      <3>2. CASE d \in Span(c, k) /\ d # c
        <4>1. q.inside[d]
          BY <1>2, <1>4, <3>2
        <4> QED
          BY <3>2, <4>1 DEF FreeCells, IsFreeCell
      <3>3. CASE d \notin Span(c, k)
        <4>1. q.word[d] = r.word[d] /\ q.inside[d] = r.inside[d]
          BY <1>2, <1>4, <1>5, <3>3, Parts
        <4>2. d \in 0 .. q.next - 1 <=> d \in 0 .. r.next - 1
          BY <1>1, <1>3, <3>3, SMTT(60)
        <4> QED
          BY <3>3, <4>1, <4>2 DEF FreeCells, IsFreeCell
      <3> QED
        BY <3>1, <3>2, <3>3
    <2> QED
      BY <2>1, <2>2
  <1>9. \A o \in Objects(r) : o \in Cells /\ o # c /\ q.word[o] = r.word[o] /\ Body(q, o) = Body(r, o)
    <2>1. \A o \in Objects(r) : o \in Cells /\ o # c
      BY <1>5, BodyOf DEF Layout
    <2>2. \A o \in Objects(r) : q.word[o] = r.word[o]
      BY <1>2, <2>1
    <2> QED
      BY <2>1, <2>2 DEF Body
  <1>10. Bounded(q)
    <2>1. r.next <= r.limit /\ r.limit <= r.reserved
      BY DEF Layout, Bounded
    <2>2. q.next = r.next \/ q.next <= r.limit
      BY DEF Taken, Room
    <2> QED
      BY <1>2, <2>1, <2>2 DEF Bounded
  <1>11. Untouched(q)
    <2>1. SUFFICES ASSUME NEW d \in Cells, d >= q.next
                   PROVE  q.word[d] = Zero /\ ~q.inside[d] /\ q.field[d] = Nil /\ d \notin q.stale
      BY DEF Untouched
    <2>2. d \notin Span(c, k) /\ d >= r.next
      BY <1>1, <1>3, <2>1
    <2>3. r.word[d] = Zero /\ ~r.inside[d] /\ r.field[d] = Nil /\ d \notin r.stale
      BY <2>2 DEF Layout, Untouched
    <2>4. d # c /\ d \notin c + 1 .. c + k - 1
      BY <1>4, <1>5, <2>2
    <2> QED
      BY <1>2, <2>2, <2>3, <2>4
  <1>12. Headed(q)
    <2>1. SUFFICES ASSUME NEW o \in Objects(q)
                   PROVE  /\ q.word[o] >= 1 /\ o + q.word[o] <= q.next
                          /\ \A d \in o + 1 .. o + q.word[o] - 1 : q.inside[d]
      BY DEF Headed
    <2>2. CASE o = c
      <3>1. q.word[o] = k /\ \A d \in c + 1 .. c + k - 1 : d \in Span(c, k)
        BY <1>1, <1>2, <2>2
      <3> QED
        BY <1>1, <1>2, <2>2, <3>1
    <2>3. CASE o \in Objects(r)
      <3>1. /\ r.word[o] >= 1 /\ o + r.word[o] <= r.next /\ r.word[o] \in Int /\ o \in Cells /\ o \in Int
            /\ \A d \in o + 1 .. o + r.word[o] - 1 : r.inside[d]
        BY <2>3, BodyOf DEF Layout, Headed
      <3>2. \A d \in o + 1 .. o + r.word[o] - 1 : d \in Cells
        BY <1>3, <3>1, SMTT(60)
      <3>3. \A d \in o + 1 .. o + r.word[o] - 1 : q.inside[d]
        BY <1>2, <3>1, <3>2
      <3>4. q.word[o] = r.word[o]
        BY <1>9, <2>3
      <3>5. r.next \in Int /\ q.next \in Int /\ r.next <= q.next
        BY <1>1, <1>3
      <3> QED
        BY <3>1, <3>3, <3>4, <3>5, SMT
    <2> QED
      BY <1>7, <2>1, <2>2, <2>3
  <1>13. Covered(q)
    <2>1. SUFFICES ASSUME NEW d \in Cells, q.inside[d]
                   PROVE  \E o \in Objects(q) : d \in o + 1 .. o + q.word[o] - 1
      BY DEF Covered
    <2>2. CASE r.inside[d]
      <3>1. PICK o \in Objects(r) : d \in o + 1 .. o + r.word[o] - 1
        BY <2>2 DEF Layout, Covered
      <3> QED
        BY <1>7, <1>9, <3>1
    <2>3. CASE d \in c + 1 .. c + k - 1
      <3>1. q.word[c] = k /\ c \in Objects(q)
        BY <1>1, <1>2, <1>7
      <3> QED
        BY <2>3, <3>1
    <2> QED
      BY <1>2, <2>1, <2>2, <2>3
  <1>14. Body(q, c) = Span(c, k)
    <2>1. Body(q, c) = c .. c + q.word[c] - 1
      BY <1>7, <1>12, BodyOf
    <2> QED
      BY <1>1, <1>2, <2>1
  <1> QED
    BY <1>5, <1>7, <1>8, <1>9, <1>10, <1>11, <1>12, <1>13, <1>14 DEF Layout

-----------------------------------------------------------------------------
(***************************************************************************)
(* An object's cells given back.                                           *)
(***************************************************************************)
Freed(r, q, c) ==
  /\ c \in Objects(r)
  /\ q.next = r.next /\ q.limit = r.limit /\ q.reserved = r.reserved
  /\ \A d \in Cells : q.word[d] = IF d \in Body(r, c) THEN FreeMarker ELSE r.word[d]
  /\ \A d \in Cells : q.inside[d] <=> r.inside[d] /\ d \notin Body(r, c)
  /\ \A d \in Cells : q.field[d] = r.field[d]
  /\ \A d \in Cells : d \in q.stale <=> d \in r.stale /\ d \notin Body(r, c)

\* They are free, it is no object, and nothing else changes.
LEMMA Frees ==
  ASSUME NEW r \in RegionType, NEW q \in RegionType, NEW c, Layout(r), Freed(r, q, c)
  PROVE  /\ Layout(q)
         /\ Objects(q) = Objects(r) \ {c}
         /\ FreeCells(q) = FreeCells(r) \cup Body(r, c)
         /\ \A d \in Body(r, c) : d \notin FreeCells(r)
         /\ \A o \in Objects(q) : q.word[o] = r.word[o] /\ Body(q, o) = Body(r, o)
  <1>1. /\ c \in Objects(r)
        /\ q.next = r.next /\ q.limit = r.limit /\ q.reserved = r.reserved
        /\ \A d \in Cells : q.word[d] = IF d \in Body(r, c) THEN FreeMarker ELSE r.word[d]
        /\ \A d \in Cells : q.inside[d] <=> r.inside[d] /\ d \notin Body(r, c)
        /\ \A d \in Cells : q.field[d] = r.field[d]
        /\ \A d \in Cells : d \in q.stale <=> d \in r.stale /\ d \notin Body(r, c)
    BY DEF Freed
  <1>2. /\ c \in Cells /\ c \in Int /\ c \in Body(r, c) /\ Body(r, c) \subseteq Cells
        /\ \A d \in Body(r, c) : d \in Int /\ d < r.next /\ (d # c => r.inside[d])
    BY <1>1, BodyOf DEF Layout
  <1>3. /\ MaxCells \in Nat /\ Cells = 0 .. MaxCells - 1 /\ r.next \in 0 .. MaxCells
        /\ \A d \in Cells : d \in Int /\ r.inside[d] \in BOOLEAN /\ q.inside[d] \in BOOLEAN
        /\ \A d \in 0 .. r.next - 1 : d \in Cells
    BY Parts
  <1>4. \A o \in Objects(r) : o \in Body(r, c) => o = c
    <2>1. \A o \in Objects(r) : o \in Body(r, o)
      BY BodyOf DEF Layout
    <2> QED
      BY <1>1, <2>1, BodiesApart DEF Layout
  <1>5. Objects(q) = Objects(r) \ {c}
    <2>1. ASSUME NEW d \in 0 .. r.next - 1 PROVE d \in Objects(q) <=> d \in Objects(r) /\ d # c
      <3>1. CASE d \in Body(r, c)
        BY <1>1, <1>2, <1>3, <1>4, <3>1 DEF Objects
      <3>2. CASE d \notin Body(r, c)
        <4>1. q.word[d] = r.word[d] /\ (q.inside[d] <=> r.inside[d]) /\ d # c
          BY <1>1, <1>2, <1>3, <3>2
        <4> QED
          BY <1>1, <4>1 DEF Objects
      <3> QED
        BY <3>1, <3>2
    <2>2. Objects(q) \subseteq 0 .. r.next - 1 /\ Objects(r) \subseteq 0 .. r.next - 1
      BY <1>1 DEF Objects
    <2> QED
      BY <2>1, <2>2
  <1>6. FreeCells(q) = FreeCells(r) \cup Body(r, c)
    <2>1. ASSUME NEW d \in 0 .. r.next - 1 PROVE d \in FreeCells(q) <=> d \in FreeCells(r) \/ d \in Body(r, c)
      <3>1. CASE d \in Body(r, c)
        <4>1. q.word[d] = FreeMarker /\ ~q.inside[d]
          BY <1>1, <1>3, <3>1
        <4> QED
          BY <1>1, <3>1, <4>1 DEF FreeCells, IsFreeCell
      <3>2. CASE d \notin Body(r, c)
        <4>1. q.word[d] = r.word[d] /\ (q.inside[d] <=> r.inside[d])
          BY <1>1, <1>3, <3>2
        <4> QED
          BY <1>1, <3>2, <4>1 DEF FreeCells, IsFreeCell
      <3> QED
        BY <3>1, <3>2
    <2>2. /\ FreeCells(q) \subseteq 0 .. r.next - 1 /\ FreeCells(r) \subseteq 0 .. r.next - 1
          /\ Body(r, c) \subseteq 0 .. r.next - 1
      BY <1>1, <1>2, <1>3 DEF FreeCells
    <2> QED
      BY <2>1, <2>2
  <1>7. \A d \in Body(r, c) : d \notin FreeCells(r)
    BY <1>1, BodyNotFree DEF Layout
  <1>8. \A o \in Objects(q) : o \in Objects(r) /\ o \notin Body(r, c) /\ q.word[o] = r.word[o] /\ Body(q, o) = Body(r, o)
    <2>1. \A o \in Objects(q) : o \in Objects(r) /\ o \notin Body(r, c) /\ o \in Cells
      BY <1>4, <1>5, BodyOf DEF Layout
    <2>2. \A o \in Objects(q) : q.word[o] = r.word[o]
      BY <1>1, <2>1
    <2> QED
      BY <2>1, <2>2 DEF Body
  <1>9. Bounded(q)
    BY <1>1 DEF Layout, Bounded
  <1>10. Untouched(q)
    <2>1. SUFFICES ASSUME NEW d \in Cells, d >= q.next
                   PROVE  q.word[d] = Zero /\ ~q.inside[d] /\ q.field[d] = Nil /\ d \notin q.stale
      BY DEF Untouched
    <2>2. d \notin Body(r, c)
      BY <1>1, <1>2, <1>3, <2>1
    <2> QED
      BY <1>1, <2>1, <2>2 DEF Layout, Untouched
  <1>11. Headed(q)
    <2>1. SUFFICES ASSUME NEW o \in Objects(q)
                   PROVE  /\ q.word[o] >= 1 /\ o + q.word[o] <= q.next
                          /\ \A d \in o + 1 .. o + q.word[o] - 1 : q.inside[d]
      BY DEF Headed
    <2>2. o \in Objects(r) /\ o # c /\ q.word[o] = r.word[o]
      BY <1>5, <1>8
    <2>3. /\ r.word[o] >= 1 /\ o + r.word[o] <= r.next /\ r.word[o] \in Int /\ o \in Int /\ o \in Cells
          /\ \A d \in o + 1 .. o + r.word[o] - 1 : r.inside[d]
          /\ Body(r, o) = o .. o + r.word[o] - 1
      BY <2>2, BodyOf DEF Layout, Headed
    <2>4. \A d \in o + 1 .. o + r.word[o] - 1 : d \in Cells /\ d \in Body(r, o)
      BY <1>3, <2>3, SMTT(60)
    <2>5. \A d \in o + 1 .. o + r.word[o] - 1 : d \notin Body(r, c)
      BY <1>1, <2>2, <2>4, BodiesApart DEF Layout
    <2> QED
      BY <1>1, <2>2, <2>3, <2>4, <2>5
  <1>12. Covered(q)
    <2>1. SUFFICES ASSUME NEW d \in Cells, q.inside[d]
                   PROVE  \E o \in Objects(q) : d \in o + 1 .. o + q.word[o] - 1
      BY DEF Covered
    <2>2. r.inside[d] /\ d \notin Body(r, c)
      BY <1>1, <2>1
    <2>3. PICK o \in Objects(r) : d \in o + 1 .. o + r.word[o] - 1
      BY <2>2 DEF Layout, Covered
    <2>4. o # c
      <3>1. Body(r, c) = c .. c + r.word[c] - 1 /\ r.word[c] \in Int
        BY <1>1, BodyOf DEF Layout
      <3> QED
        BY <1>2, <2>2, <2>3, <3>1
    <2> QED
      BY <1>5, <1>8, <2>3, <2>4
  <1> QED
    BY <1>5, <1>6, <1>7, <1>8, <1>9, <1>10, <1>11, <1>12 DEF Layout

-----------------------------------------------------------------------------
(***************************************************************************)
(* The list and the runs, as they lose and gain cells.                     *)
(***************************************************************************)
RunType == [start : Cells, len : 1 .. MaxCells]

\* A run's cells.
LEMMA RunParts ==
  ASSUME NEW run \in RunType
  PROVE  /\ run.start \in Cells /\ run.start \in Int /\ run.start >= 0 /\ run.len \in Nat /\ run.len >= 1
         /\ SpanOf(run) = run.start .. run.start + run.len - 1
         /\ run.start \in SpanOf(run)
  BY RegionAssumption DEF RunType, SpanOf, Span, Cells

\* The head of the list leaves it.
LEMMA ListPops ==
  ASSUME NEW free \in Seq(Cells), NEW runs \in Seq(RunType), NEW F, Lists(free, runs, F), free # <<>>
  PROVE  /\ Head(free) \in F /\ Head(free) \in Cells
         /\ Tail(free) \in Seq(Cells) /\ Lists(Tail(free), runs, F \ {Head(free)})
  <1> DEFINE t == Tail(free)
             h == Head(free)
  <1>1. /\ Len(free) \in Nat /\ Len(free) >= 1 /\ h = free[1] /\ h \in Cells
        /\ t \in Seq(Cells) /\ Len(t) = Len(free) - 1
        /\ \A i \in 1 .. Len(t) : t[i] = free[i + 1]
    OBVIOUS
  <1> HIDE DEF t, h
  <1>2. \A i \in 1 .. Len(t) : i + 1 \in 1 .. Len(free) /\ i + 1 # 1
    BY <1>1
  <1>3. \A i, j \in 1 .. Len(t) : i # j => i + 1 # j + 1
    BY <1>1
  <1>4. \A i \in 1 .. Len(free) : i = 1 \/ (i - 1 \in 1 .. Len(t) /\ (i - 1) + 1 = i)
    BY <1>1
  <1>5. 1 \in 1 .. Len(free)
    BY <1>1
  <1>6. OnceListed(t)
    BY <1>1, <1>2, <1>3, Zenon DEF Lists, OnceListed
  <1>7. \A c : InList(free, c) <=> c = h \/ InList(t, c)
    <2>1. \A i \in 1 .. Len(free) : free[i] = h \/ (i - 1 \in 1 .. Len(t) /\ t[i - 1] = free[i])
      BY <1>1, <1>4
    <2>2. \A c : InList(free, c) => c = h \/ InList(t, c)
      BY <2>1, Zenon DEF InList
    <2>3. InList(free, h)
      BY <1>1, <1>5 DEF InList
    <2>4. \A c : InList(t, c) => InList(free, c)
      BY <1>1, <1>2 DEF InList
    <2> QED
      BY <2>2, <2>3, <2>4
  <1>8. ~InList(t, h)
    <2>1. \A i \in 1 .. Len(t) : free[i + 1] # free[1]
      BY <1>2, <1>5 DEF Lists, OnceListed
    <2> QED
      BY <1>1, <2>1 DEF InList
  <1>9. Lists(t, runs, F \ {h})
    BY <1>6, <1>7, <1>8 DEF Lists
  <1>10. h \in F
    BY <1>7 DEF Lists
  <1> QED
    BY <1>1, <1>9, <1>10 DEF t, h

\* A cell that is not free goes to the head of the list.
LEMMA ListPushes ==
  ASSUME NEW free \in Seq(Cells), NEW runs \in Seq(RunType), NEW F, Lists(free, runs, F),
         NEW c \in Cells, c \notin F
  PROVE  <<c>> \o free \in Seq(Cells) /\ Lists(<<c>> \o free, runs, F \cup {c})
  <1> DEFINE p == <<c>> \o free
  <1>1. /\ p \in Seq(Cells) /\ Len(p) = Len(free) + 1 /\ Len(free) \in Nat /\ p[1] = c
        /\ \A i \in 1 .. Len(free) : p[i + 1] = free[i]
    OBVIOUS
  <1> HIDE DEF p
  <1>2. \A i \in 1 .. Len(free) : i + 1 \in 1 .. Len(p)
    BY <1>1
  <1>3. \A i \in 1 .. Len(p) : i = 1 \/ (i - 1 \in 1 .. Len(free) /\ (i - 1) + 1 = i)
    BY <1>1
  <1>4. 1 \in 1 .. Len(p)
    BY <1>1
  <1>5. \A i \in 1 .. Len(p) : i = 1 \/ (i - 1 \in 1 .. Len(free) /\ p[i] = free[i - 1])
    BY <1>1, <1>3, Zenon
  <1>6. \A d : InList(p, d) <=> d = c \/ InList(free, d)
    <2>1. \A d : InList(p, d) => d = c \/ InList(free, d)
      BY <1>1, <1>5 DEF InList
    <2>2. InList(p, c)
      BY <1>1, <1>4 DEF InList
    <2>3. \A d : InList(free, d) => InList(p, d)
      BY <1>1, <1>2 DEF InList
    <2> QED
      BY <2>1, <2>2, <2>3
  <1>7. ~InList(free, c) /\ ~InRun(runs, c)
    BY DEF Lists
  <1>8. OnceListed(p)
    <2>1. SUFFICES ASSUME NEW i \in 1 .. Len(p), NEW j \in 1 .. Len(p), i # j PROVE p[i] # p[j]
      BY DEF OnceListed
    <2>2. i - 1 # j - 1
      BY <1>1, <2>1
    <2>3. \A m \in 1 .. Len(free) : free[m] # c
      BY <1>7 DEF InList
    <2>4. CASE i = 1
      BY <1>1, <1>5, <2>1, <2>3, <2>4
    <2>5. CASE j = 1
      BY <1>1, <1>5, <2>1, <2>3, <2>5
    <2>6. CASE i # 1 /\ j # 1
      BY <1>5, <2>2, <2>6 DEF Lists, OnceListed
    <2> QED
      BY <2>4, <2>5, <2>6
  <1>9. Lists(p, runs, F \cup {c})
    BY <1>6, <1>7, <1>8 DEF Lists
  <1> QED
    BY <1>1, <1>9 DEF p

\* Cells none of which is free become a run.
LEMMA RunPushes ==
  ASSUME NEW free \in Seq(Cells), NEW runs \in Seq(RunType), NEW F, Lists(free, runs, F),
         NEW run \in RunType, SpanOf(run) \cap F = {}
  PROVE  /\ Append(runs, run) \in Seq(RunType)
         /\ Lists(free, Append(runs, run), F \cup SpanOf(run))
  <1> DEFINE p == Append(runs, run)
             n == Len(runs)
  <1>1. /\ p \in Seq(RunType) /\ Len(p) = n + 1 /\ n \in Nat /\ p[n + 1] = run
        /\ \A i \in 1 .. n : p[i] = runs[i]
    OBVIOUS
  <1> HIDE DEF p
  <1>2. /\ \A i \in 1 .. n : i \in 1 .. Len(p)
        /\ \A i \in 1 .. Len(p) : i = n + 1 \/ i \in 1 .. n
        /\ n + 1 \in 1 .. Len(p)
    BY <1>1
  <1> HIDE DEF n
  <1>3. \A c : InRun(p, c) <=> InRun(runs, c) \/ c \in SpanOf(run)
    BY <1>1, <1>2, Zenon DEF InRun, n
  <1>4. \A i \in 1 .. n : SpanOf(runs[i]) \subseteq F
    BY Zenon DEF Lists, InRun, n
  <1>5. RunsApart(p)
    <2>1. SUFFICES ASSUME NEW i \in 1 .. Len(p), NEW j \in 1 .. Len(p), i # j
                   PROVE  SpanOf(p[i]) \cap SpanOf(p[j]) = {}
      BY DEF RunsApart
    <2>2. CASE i \in 1 .. n /\ j \in 1 .. n
      BY <1>1, <2>1, <2>2 DEF Lists, RunsApart, n
    <2>3. CASE i = n + 1 /\ j \in 1 .. n
      <3>1. SpanOf(p[i]) = SpanOf(run) /\ SpanOf(p[j]) \subseteq F
        BY <1>1, <1>4, <2>3
      <3> QED
        BY <3>1
    <2>4. CASE i \in 1 .. n /\ j = n + 1
      <3>1. SpanOf(p[j]) = SpanOf(run) /\ SpanOf(p[i]) \subseteq F
        BY <1>1, <1>4, <2>4
      <3> QED
        BY <3>1
    <2> QED
      BY <1>2, <2>1, <2>2, <2>3, <2>4
  <1>6. \A c : ~(InList(free, c) /\ c \in SpanOf(run))
    BY DEF Lists
  <1>7. Lists(free, p, F \cup SpanOf(run))
    BY <1>3, <1>5, <1>6 DEF Lists
  <1> QED
    BY <1>1, <1>7 DEF p

\* One run leaves the others.
LEMMA RunLeaves ==
  ASSUME NEW runs \in Seq(RunType), RunsApart(runs), NEW a \in 1 .. Len(runs)
  PROVE  /\ SwapRemove(runs, a) \in Seq(RunType) /\ RunsApart(SwapRemove(runs, a))
         /\ \A c : InRun(runs, c) <=> InRun(SwapRemove(runs, a), c) \/ c \in SpanOf(runs[a])
         /\ \A c : ~(InRun(SwapRemove(runs, a), c) /\ c \in SpanOf(runs[a]))
  <1> DEFINE n == Len(runs)
             w == SwapRemove(runs, a)
             from(j) == IF j = a THEN n ELSE j
  <1>1. n \in Nat /\ n >= 1 /\ w = [j \in 1 .. n - 1 |-> runs[from(j)]]
    BY DEF SwapRemove
  <1>2. \A j \in 1 .. n - 1 : from(j) \in 1 .. n /\ from(j) # a
    BY <1>1
  <1>3. \A i, j \in 1 .. n - 1 : i # j => from(i) # from(j)
    BY <1>1
  <1>4. \A i \in 1 .. n : i # a => \E j \in 1 .. n - 1 : from(j) = i
    <2>1. SUFFICES ASSUME NEW i \in 1 .. n, i # a PROVE \E j \in 1 .. n - 1 : from(j) = i
      OBVIOUS
    <2>2. CASE i = n
      <3>1. a \in 1 .. n - 1 /\ from(a) = i
        BY <1>1, <2>1, <2>2
      <3> QED
        BY <3>1, Zenon
    <2>3. CASE i # n
      <3>1. i \in 1 .. n - 1 /\ from(i) = i
        BY <1>1, <2>1, <2>3
      <3> QED
        BY <3>1, Zenon
    <2> QED
      BY <2>2, <2>3
  <1> HIDE DEF from
  <1>5. \A j \in 1 .. n - 1 : runs[from(j)] \in RunType
    BY <1>2
  <1>6. w \in [1 .. n - 1 -> RunType] /\ \A j \in 1 .. n - 1 : w[j] = runs[from(j)]
    BY <1>1, <1>5, Zenon
  <1> HIDE DEF w
  <1>7. w \in Seq(RunType) /\ Len(w) = n - 1
    <2>1. n - 1 \in Nat
      BY <1>1
    <2> QED
      BY <1>6, <2>1
  <1>8. RunsApart(w)
    BY <1>2, <1>3, <1>6, <1>7, ZenonT(60) DEF RunsApart
  <1>9. \A c : InRun(runs, c) <=> InRun(w, c) \/ c \in SpanOf(runs[a])
    <2>1. \A c : InRun(w, c) => InRun(runs, c)
      BY <1>2, <1>6, <1>7, Zenon DEF InRun
    <2>2. \A c : InRun(runs, c) => InRun(w, c) \/ c \in SpanOf(runs[a])
      BY <1>4, <1>6, <1>7, Zenon DEF InRun
    <2>3. \A c : c \in SpanOf(runs[a]) => InRun(runs, c)
      BY Zenon DEF InRun
    <2> QED
      BY <2>1, <2>2, <2>3, Zenon
  <1>10. \A c : ~(InRun(w, c) /\ c \in SpanOf(runs[a]))
    <2>1. SUFFICES ASSUME NEW c, InRun(w, c), c \in SpanOf(runs[a]) PROVE FALSE
      OBVIOUS
    <2>2. PICK j \in 1 .. n - 1 : c \in SpanOf(runs[from(j)])
      BY <1>6, <1>7, <2>1, Zenon DEF InRun
    <2>3. SpanOf(runs[from(j)]) \cap SpanOf(runs[a]) = {}
      BY <1>2, Zenon DEF RunsApart
    <2> QED
      BY <2>1, <2>2, <2>3
  <1> QED
    BY <1>7, <1>8, <1>9, <1>10 DEF w

\* The first cells of a run are taken, and the rest of it stays a run; or no
\* run is long enough.
LEMMA RunTaken ==
  ASSUME NEW r \in RegionType, NEW k \in Nat, k >= 1,
         NEW F \in SUBSET Cells, Lists(r.free, r.runs, F)
  PROVE  \/ TakeRun(r, k) = Took(r, Nil) /\ \A j \in 1 .. Len(r.runs) : r.runs[j].len < k
         \/ \E at \in Cells : \E X \in Seq(RunType) :
              /\ TakeRun(r, k) = Took([r EXCEPT !.runs = X], at)
              /\ Span(at, k) \subseteq F
              /\ Lists(r.free, X, F \ Span(at, k))
  <1> DEFINE fits == {i \in 1 .. Len(r.runs) : r.runs[i].len >= k}
             a == Min(fits)
             run == r.runs[a]
             rest == [start |-> run.start + k, len |-> run.len - k]
             others == SwapRemove(r.runs, a)
             X == IF run.len > k THEN Append(others, rest) ELSE others
  <1>1. r.runs \in Seq(RunType) /\ r.free \in Seq(Cells) /\ Cells = 0 .. MaxCells - 1 /\ MaxCells \in Nat
    BY Parts DEF RunType
  <1>2. TakeRun(r, k) = IF fits = {} THEN Took(r, Nil) ELSE Took([r EXCEPT !.runs = X], run.start)
    BY DEF TakeRun
  <1> HIDE DEF X, run, a
  <1>3. CASE fits = {}
    <2>1. \A j \in 1 .. Len(r.runs) : r.runs[j].len \in Nat
      BY <1>1, RunParts
    <2>2. \A j \in 1 .. Len(r.runs) : r.runs[j].len < k
      BY <1>3, <2>1
    <2> QED
      BY <1>2, <1>3, <2>2
  <1>4. CASE fits # {}
    <2>1. fits \in SUBSET Nat
      OBVIOUS
    <2>2. a \in fits
      BY <1>4, <2>1, MinOf, Zenon DEF a
    <2> HIDE DEF fits
    <2>3. a \in 1 .. Len(r.runs) /\ run.len >= k /\ run \in RunType
      BY <1>1, <2>2 DEF fits, run
    <2>4. /\ run.start \in Cells /\ run.start \in Int /\ run.len \in Nat
          /\ SpanOf(run) = run.start .. run.start + run.len - 1
      BY <2>3, RunParts
    <2>5. SpanOf(run) \subseteq F
      BY <2>3 DEF Lists, InRun, run
    <2>6. /\ others \in Seq(RunType) /\ RunsApart(others)
          /\ \A c : InRun(r.runs, c) <=> InRun(others, c) \/ c \in SpanOf(run)
          /\ \A c : ~(InRun(others, c) /\ c \in SpanOf(run))
      BY <1>1, <2>3, RunLeaves DEF Lists, run
    <2>7. Span(run.start, k) \subseteq SpanOf(run) /\ Span(run.start, k) = run.start .. run.start + k - 1
      BY <2>3, <2>4 DEF Span
    <2> HIDE DEF others
    <2>8. Lists(r.free, others, F \ SpanOf(run))
      BY <2>6 DEF Lists
    <2>9. CASE run.len > k
      <3>1. run.start + k \in SpanOf(run) /\ run.start + k \in Cells /\ run.len - k \in 1 .. MaxCells
        <4>1. run.start + k \in SpanOf(run)
          BY <2>4, <2>9
        <4>2. run.len \in 1 .. MaxCells
          BY <2>3 DEF RunType
        <4>3. run.start + k \in Cells
          BY <2>5, <4>1
        <4>4. run.len - k \in 1 .. MaxCells
          BY <1>1, <2>9, <4>2
        <4> QED
          BY <4>1, <4>3, <4>4
      <3>2. rest \in RunType
        BY <3>1 DEF RunType
      <3>3. SpanOf(rest) = SpanOf(run) \ Span(run.start, k)
        <4>1. SpanOf(rest) = run.start + k .. (run.start + k) + (run.len - k) - 1
          BY DEF SpanOf, Span
        <4>2. (run.start + k) + (run.len - k) - 1 = run.start + run.len - 1
          BY <2>4
        <4>3. SpanOf(rest) = run.start + k .. run.start + run.len - 1
          BY <4>1, <4>2
        <4>4. \A c \in Int : c \in run.start + k .. run.start + run.len - 1 <=>
                 c \in run.start .. run.start + run.len - 1 /\ c \notin run.start .. run.start + k - 1
          BY <2>4, <2>9
        <4>5. SpanOf(rest) \subseteq Int /\ SpanOf(run) \subseteq Int
          BY <2>4, <4>3
        <4> QED
          BY <2>4, <2>7, <4>3, <4>4, <4>5
      <3>4. SpanOf(rest) \cap (F \ SpanOf(run)) = {}
        BY <3>3
      <3>5. /\ Append(others, rest) \in Seq(RunType)
            /\ Lists(r.free, Append(others, rest), (F \ SpanOf(run)) \cup SpanOf(rest))
        <4> HIDE DEF rest
        <4> QED
          BY <1>1, <2>6, <2>8, <3>2, <3>4, RunPushes
      <3>6. (F \ SpanOf(run)) \cup SpanOf(rest) = F \ Span(run.start, k)
        BY <2>5, <2>7, <3>3
      <3>7. X = Append(others, rest)
        BY <2>9 DEF X
      <3> QED
        BY <1>2, <1>4, <2>4, <2>5, <2>7, <3>5, <3>6, <3>7
    <2>10. CASE ~(run.len > k)
      <3>1. run.len = k
        BY <2>3, <2>4, <2>10
      <3>2. Span(run.start, k) = SpanOf(run) /\ X = others
        BY <2>10, <3>1 DEF X, SpanOf
      <3> QED
        BY <1>2, <1>4, <2>4, <2>5, <2>6, <2>8, <3>2
    <2> QED
      BY <2>9, <2>10
  <1> QED
    BY <1>3, <1>4

-----------------------------------------------------------------------------
(***************************************************************************)
(* Stretches of free cells.                                                *)
(***************************************************************************)
\* A stretch ends where the cells handed out end, or at a cell in use.
LEMMA EndIs ==
  ASSUME NEW r \in RegionType, NEW c \in FreeCells(r)
  PROVE  /\ c \in Int /\ EndOf(r, c) \in Int /\ c < EndOf(r, c) /\ EndOf(r, c) <= r.next
         /\ \A d \in c .. EndOf(r, c) - 1 : d \in FreeCells(r)
         /\ EndOf(r, c) \notin FreeCells(r)
  <1> DEFINE E == {e \in c + 1 .. r.next : e = r.next \/ ~IsFreeCell(r, e)}
             m == Min(E)
  <1>1. r.next \in Nat /\ c \in 0 .. r.next - 1 /\ IsFreeCell(r, c)
    BY Parts DEF FreeCells
  <1>2. E \in SUBSET Nat /\ r.next \in E
    BY <1>1
  <1> HIDE DEF m
  <1>3. m \in E /\ \A y \in E : m <= y
    <2> HIDE DEF E
    <2> QED
      BY <1>2, MinOf, Zenon DEF m
  <1>4. EndOf(r, c) = m
    BY DEF EndOf, m
  <1>5. m \in c + 1 .. r.next /\ (m = r.next \/ ~IsFreeCell(r, m))
    BY <1>3
  <1>6. \A d \in c .. m - 1 : d \in FreeCells(r)
    <2>1. SUFFICES ASSUME NEW d \in c .. m - 1 PROVE d \in FreeCells(r)
      OBVIOUS
    <2>2. CASE d = c
      BY <2>2
    <2>3. CASE d # c
      <3>1. d \in c + 1 .. r.next /\ d # r.next /\ ~(m <= d) /\ d \in 0 .. r.next - 1
        BY <1>1, <1>5, <2>1, <2>3
      <3>2. IsFreeCell(r, d)
        BY <1>3, <3>1
      <3> QED
        BY <3>1, <3>2 DEF FreeCells
    <2> QED
      BY <2>2, <2>3
  <1>7. m \notin FreeCells(r)
    BY <1>1, <1>5 DEF FreeCells
  <1> QED
    BY <1>1, <1>4, <1>5, <1>6, <1>7

\* A start is a free cell whose neighbour below is not one.
LEMMA StartIs ==
  ASSUME NEW r \in RegionType, NEW s
  PROVE  s \in Starts(r) <=> s \in FreeCells(r) /\ s - 1 \notin FreeCells(r)
  <1>1. r.next \in Nat
    BY Parts
  <1> QED
    BY <1>1 DEF Starts, FreeCells

\* Every free cell is in a stretch.
LEMMA InStretch ==
  ASSUME NEW r \in RegionType, NEW c \in FreeCells(r)
  PROVE  \E s \in Starts(r) : s <= c /\ c < EndOf(r, s)
  <1> DEFINE A == {a \in 0 .. c : \A d \in a .. c : d \in FreeCells(r)}
             s == Min(A)
  <1>1. r.next \in Nat /\ c \in 0 .. r.next - 1 /\ c \in Int
    BY Parts DEF FreeCells
  <1>2. A \in SUBSET Nat /\ c \in A
    <2>1. \A d \in c .. c : d = c
      BY <1>1
    <2> QED
      BY <1>1, <2>1
  <1> HIDE DEF s
  <1>3. s \in A /\ \A y \in A : s <= y
    <2> HIDE DEF A
    <2> QED
      BY <1>2, MinOf, Zenon DEF s
  <1>4. s \in 0 .. c /\ \A d \in s .. c : d \in FreeCells(r)
    BY <1>3
  <1>5. s \in FreeCells(r)
    BY <1>1, <1>4
  <1>6. s - 1 \notin FreeCells(r)
    <2>1. SUFFICES ASSUME s - 1 \in FreeCells(r) PROVE FALSE
      OBVIOUS
    <2>2. s - 1 \in 0 .. c
      BY <1>1, <1>4, <2>1 DEF FreeCells
    <2>3. \A d \in s - 1 .. c : d = s - 1 \/ d \in s .. c
      BY <1>1, <1>4
    <2>4. s - 1 \in A
      BY <1>4, <2>1, <2>2, <2>3
    <2>5. s <= s - 1
      BY <1>3, <2>4
    <2> QED
      BY <1>1, <1>4, <2>5
  <1>7. s \in Starts(r)
    BY <1>5, <1>6, StartIs
  <1>8. EndOf(r, s) \in Int /\ s < EndOf(r, s) /\ EndOf(r, s) \notin FreeCells(r)
    BY <1>5, EndIs
  <1>9. ~(EndOf(r, s) <= c)
    <2>1. SUFFICES ASSUME EndOf(r, s) <= c PROVE FALSE
      OBVIOUS
    <2>2. EndOf(r, s) \in s .. c
      BY <1>1, <1>4, <1>8, <2>1
    <2> QED
      BY <1>4, <1>8, <2>2
  <1> QED
    BY <1>1, <1>4, <1>7, <1>8, <1>9

\* Two stretches do not meet.
LEMMA StretchesApart ==
  ASSUME NEW r \in RegionType, NEW s \in Starts(r), NEW t \in Starts(r),
         NEW c \in s .. EndOf(r, s) - 1, c \in t .. EndOf(r, t) - 1
  PROVE  s = t
  <1>1. ASSUME NEW a \in Starts(r), NEW b \in Starts(r), a < b, c \in a .. EndOf(r, a) - 1, c \in b .. EndOf(r, b) - 1
        PROVE  FALSE
    <2>1. /\ a \in Int /\ EndOf(r, a) \in Int
          /\ \A d \in a .. EndOf(r, a) - 1 : d \in FreeCells(r)
      BY StartIs, EndIs
    <2>2. b \in Int /\ b - 1 \notin FreeCells(r)
      BY StartIs, EndIs
    <2>3. b - 1 \in a .. EndOf(r, a) - 1
      BY <1>1, <2>1, <2>2
    <2> QED
      BY <2>1, <2>2, <2>3
  <1>2. s \in Int /\ t \in Int
    BY StartIs, EndIs
  <1>3. s < t \/ t < s \/ s = t
    BY <1>2
  <1> QED
    BY <1>1, <1>3

\* The list and the runs rebuilt name the free cells, and a run is as long as
\* any stretch of free cells.
Rebuilt(r, X, Y) ==
  /\ X \in Seq(RunType) /\ Y \in Seq(Cells)
  /\ Coalesce(r) = [r EXCEPT !.runs = X, !.free = Y]
  /\ Lists(Y, X, FreeCells(r))
  /\ \A c, k \in Nat : k >= 2 /\ Span(c, k) \subseteq FreeCells(r) =>
       \E j \in 1 .. Len(X) : X[j].len >= k

\* Coalesce rebuilds them so.
LEMMA Coalesces ==
  ASSUME NEW r \in RegionType
  PROVE  \E X, Y : Rebuilt(r, X, Y)
  <1> DEFINE F == FreeCells(r)
             S1 == {c \in Starts(r) : EndOf(r, c) = c + 1}
             S2 == {c \in Starts(r) : EndOf(r, c) > c + 1}
             single == Ascending(S1)
             wide == Ascending(S2)
             X == [i \in 1 .. Len(wide) |-> [start |-> wide[i], len |-> EndOf(r, wide[i]) - wide[i]]]
             Y == Reverse(single)
  <1>1. r.next \in Nat /\ r.next <= MaxCells /\ MaxCells \in Nat /\ Cells = 0 .. MaxCells - 1
    BY Parts
  <1>2. Starts(r) \subseteq 0 .. r.next - 1 /\ Starts(r) \subseteq Cells /\ F \subseteq Cells
    BY <1>1 DEF Starts, FreeCells
  <1>3. IsFiniteSet(S1) /\ IsFiniteSet(S2) /\ S1 \in SUBSET Nat /\ S2 \in SUBSET Nat
    <2>1. S1 \in SUBSET (0 .. r.next - 1) /\ S2 \in SUBSET (0 .. r.next - 1) /\ 0 .. r.next - 1 \subseteq Nat
      BY <1>1, <1>2
    <2>2. IsFiniteSet(0 .. r.next - 1)
      BY <1>1, FS_Interval
    <2> HIDE DEF S1, S2
    <2> QED
      BY <2>1, <2>2, FS_Subset
  <1>4. Coalesce(r) = [r EXCEPT !.runs = X, !.free = Y]
    BY DEF Coalesce
  <1> HIDE DEF S1, S2
  <1>5. Enumerates(single, S1) /\ Enumerates(wide, S2)
    BY <1>3, InOrder
  <1> HIDE DEF single, wide
  <1>6. \A c \in Starts(r) : /\ c \in Int /\ EndOf(r, c) \in Int /\ c < EndOf(r, c) /\ EndOf(r, c) <= r.next
                             /\ \A d \in c .. EndOf(r, c) - 1 : d \in F
                             /\ EndOf(r, c) \notin F
    BY StartIs, EndIs
  <1>7. \A i \in 1 .. Len(wide) : /\ wide[i] \in Starts(r) /\ EndOf(r, wide[i]) > wide[i] + 1
                                  /\ X[i] = [start |-> wide[i], len |-> EndOf(r, wide[i]) - wide[i]]
    BY <1>5 DEF Enumerates, S2
  <1> HIDE DEF X
  <1>8. ASSUME NEW i \in 1 .. Len(wide)
        PROVE  X[i] \in RunType /\ SpanOf(X[i]) = wide[i] .. EndOf(r, wide[i]) - 1
    <2>1. /\ wide[i] \in Cells /\ wide[i] \in Int /\ EndOf(r, wide[i]) \in Int
          /\ wide[i] < EndOf(r, wide[i]) /\ EndOf(r, wide[i]) <= r.next /\ wide[i] >= 0
      <3>1. wide[i] \in Starts(r)
        BY <1>7
      <3>2. wide[i] \in Cells /\ wide[i] \in 0 .. r.next - 1
        BY <1>2, <3>1
      <3>3. /\ wide[i] \in Int /\ EndOf(r, wide[i]) \in Int
            /\ wide[i] < EndOf(r, wide[i]) /\ EndOf(r, wide[i]) <= r.next
        BY <1>6, <3>1, Zenon
      <3> QED
        BY <1>1, <3>2, <3>3
    <2>2. EndOf(r, wide[i]) - wide[i] \in 1 .. MaxCells
      BY <1>1, <2>1
    <2>3. X[i] = [start |-> wide[i], len |-> EndOf(r, wide[i]) - wide[i]]
      BY <1>7
    <2>4. SpanOf(X[i]) = wide[i] .. wide[i] + (EndOf(r, wide[i]) - wide[i]) - 1
      BY <2>3 DEF SpanOf, Span
    <2>5. wide[i] + (EndOf(r, wide[i]) - wide[i]) - 1 = EndOf(r, wide[i]) - 1
      BY <2>1
    <2> QED
      BY <2>1, <2>2, <2>3, <2>4, <2>5 DEF RunType
  <1>9. X \in Seq(RunType) /\ Len(X) = Len(wide)
    <2>1. Len(wide) \in Nat
      BY <1>5 DEF Enumerates
    <2>2. X = [i \in 1 .. Len(wide) |-> X[i]]
      BY DEF X
    <2>3. X \in [1 .. Len(wide) -> RunType]
      BY <1>8, <2>2, Zenon
    <2> QED
      BY <2>1, <2>3
  <1>10. \A c : InRun(X, c) <=> \E s \in S2 : c \in s .. EndOf(r, s) - 1
    <2>1. \A i \in 1 .. Len(wide) : wide[i] \in S2
      BY <1>5 DEF Enumerates
    <2>2. \A s \in S2 : \E i \in 1 .. Len(wide) : wide[i] = s
      BY <1>5 DEF Enumerates
    <2> QED
      BY <1>8, <1>9, <2>1, <2>2, Zenon DEF InRun
  <1>11. RunsApart(X)
    <2>1. SUFFICES ASSUME NEW i \in 1 .. Len(X), NEW j \in 1 .. Len(X), i # j,
                          NEW c, c \in SpanOf(X[i]), c \in SpanOf(X[j])
                   PROVE  FALSE
      BY DEF RunsApart
    <2>2. wide[i] # wide[j]
      BY <1>5, <1>9, <2>1 DEF Enumerates
    <2>3. wide[i] \in Starts(r) /\ wide[j] \in Starts(r)
      BY <1>7, <1>9
    <2>4. c \in wide[i] .. EndOf(r, wide[i]) - 1 /\ c \in wide[j] .. EndOf(r, wide[j]) - 1
      BY <1>8, <1>9, <2>1
    <2> QED
      BY <2>2, <2>3, <2>4, StretchesApart, Zenon
  <1>12. /\ Y \in Seq(Cells) /\ Len(Y) = Len(single) /\ Len(single) \in Nat
         /\ \A i \in 1 .. Len(Y) : Y[i] = single[(Len(single) - i) + 1]
    <2>1. single \in Seq(S1) /\ S1 \subseteq Cells
      BY <1>2, <1>5 DEF Enumerates, S1
    <2> QED
      BY <2>1 DEF Reverse
  <1> HIDE DEF Y
  <1>13. \A i \in 1 .. Len(single) : (Len(single) - i) + 1 \in 1 .. Len(single)
    BY <1>12
  <1>14. \A c : InList(Y, c) <=> c \in S1
    <2>1. \A i \in 1 .. Len(single) : single[i] \in S1
      BY <1>5 DEF Enumerates
    <2>2. \A c : InList(Y, c) => c \in S1
      BY <1>12, <1>13, <2>1 DEF InList
    <2>3. ASSUME NEW c \in S1 PROVE InList(Y, c)
      <3>1. PICK i \in 1 .. Len(single) : single[i] = c
        BY <1>5 DEF Enumerates
      <3>2. (Len(single) - i) + 1 \in 1 .. Len(Y) /\ (Len(single) - ((Len(single) - i) + 1)) + 1 = i
        BY <1>12
      <3> QED
        BY <1>12, <3>1, <3>2 DEF InList
    <2> QED
      BY <2>2, <2>3
  <1>15. OnceListed(Y)
    <2>1. SUFFICES ASSUME NEW i \in 1 .. Len(Y), NEW j \in 1 .. Len(Y), i # j PROVE Y[i] # Y[j]
      BY DEF OnceListed
    <2>2. (Len(single) - i) + 1 # (Len(single) - j) + 1
      BY <1>12, <2>1
    <2>3. (Len(single) - i) + 1 \in 1 .. Len(single) /\ (Len(single) - j) + 1 \in 1 .. Len(single)
      BY <1>12, <1>13
    <2>4. single[(Len(single) - i) + 1] # single[(Len(single) - j) + 1]
      BY <1>5, <2>2, <2>3, Zenon DEF Enumerates
    <2> QED
      BY <1>12, <2>4
  <1>16. \A s \in S1 : s \in Starts(r) /\ s \in s .. EndOf(r, s) - 1 /\ \A c \in s .. EndOf(r, s) - 1 : c = s
    BY <1>6 DEF S1
  <1>17. \A c : ~(InList(Y, c) /\ InRun(X, c))
    <2>1. SUFFICES ASSUME NEW c \in S1, NEW s \in S2, c \in s .. EndOf(r, s) - 1 PROVE FALSE
      BY <1>10, <1>14
    <2>2. s = c
      BY <1>16, <2>1, StretchesApart DEF S2
    <2> QED
      BY <1>6, <2>2 DEF S1, S2
  <1>18. \A c : c \in F <=> InList(Y, c) \/ InRun(X, c)
    <2>1. ASSUME NEW c \in F PROVE InList(Y, c) \/ InRun(X, c)
      <3>1. PICK s \in Starts(r) : s <= c /\ c < EndOf(r, s)
        BY InStretch
      <3>2. c \in Int /\ s \in Int /\ EndOf(r, s) \in Int /\ s < EndOf(r, s)
        BY <1>6, EndIs
      <3>3. c \in s .. EndOf(r, s) - 1
        BY <3>1, <3>2
      <3>4. s \in S1 \/ s \in S2
        BY <3>2 DEF S1, S2
      <3>5. s \in S1 => c = s
        BY <1>16, <3>3
      <3> QED
        BY <1>10, <1>14, <3>3, <3>4, <3>5
    <2>2. ASSUME NEW c, InList(Y, c) PROVE c \in F
      BY <1>6, <1>14, <1>16, <2>2
    <2>3. ASSUME NEW c, InRun(X, c) PROVE c \in F
      BY <1>6, <1>10, <2>3 DEF S2
    <2> QED
      BY <2>1, <2>2, <2>3
  <1>19. ASSUME NEW c \in Nat, NEW k \in Nat, k >= 2, Span(c, k) \subseteq F
         PROVE  \E j \in 1 .. Len(X) : X[j].len >= k
    <2>1. c \in Span(c, k) /\ Span(c, k) = c .. c + k - 1
      BY <1>19 DEF Span
    <2>2. PICK s \in Starts(r) : s <= c /\ c < EndOf(r, s)
      BY <1>19, <2>1, InStretch
    <2>3. s \in Int /\ EndOf(r, s) \in Int /\ EndOf(r, s) \notin F
      BY <1>6
    <2>4. EndOf(r, s) \notin c .. c + k - 1
      BY <1>19, <2>1, <2>3
    <2>5. EndOf(r, s) - s >= k /\ EndOf(r, s) > s + 1
      BY <1>19, <2>2, <2>3, <2>4
    <2>6. s \in S2
      BY <2>5 DEF S2
    <2>7. PICK j \in 1 .. Len(wide) : wide[j] = s
      BY <1>5, <2>6 DEF Enumerates
    <2>8. X[j].len = EndOf(r, s) - s
      <3>1. X[j] = [start |-> wide[j], len |-> EndOf(r, wide[j]) - wide[j]]
        BY <1>7, Zenon
      <3> QED
        BY <2>7, <3>1
    <2> QED
      BY <1>9, <2>5, <2>7, <2>8
  <1>20. Rebuilt(r, X, Y)
    BY <1>4, <1>9, <1>11, <1>12, <1>15, <1>17, <1>18, <1>19 DEF Rebuilt, Lists
  <1> QED
    BY <1>20

-----------------------------------------------------------------------------
(***************************************************************************)
(* What an allocation answers: the region with the cells taken, or Nil and *)
(* the same cells when there is no room.                                   *)
(***************************************************************************)
NoRoom(r, k) ==
  /\ k > r.limit - r.next
  /\ \A c \in Nat : ~(Span(c, k) \subseteq FreeCells(r))

\* Only the list and the runs may differ.
SameCells(r, q) ==
  /\ q.next = r.next /\ q.limit = r.limit /\ q.reserved = r.reserved /\ q.word = r.word
  /\ q.inside = r.inside /\ q.field = r.field /\ q.stale = r.stale

Outcome(r, took, k) ==
  /\ took.region \in RegionType /\ Sound(took.region)
  /\ \/ took.at = Nil /\ SameCells(r, took.region) /\ NoRoom(r, k)
     \/ took.at \in Cells /\ Taken(r, took.region, took.at, k)

\* The free cells are cells handed out.
LEMMA FreeIsCells ==
  ASSUME NEW r \in RegionType
  PROVE  FreeCells(r) \in SUBSET Cells /\ \A c \in FreeCells(r) : c \in 0 .. r.next - 1
  BY Parts DEF FreeCells

\* With the same cells, the same objects.
LEMMA Same ==
  ASSUME NEW r \in RegionType, NEW q \in RegionType, SameCells(r, q)
  PROVE  /\ Layout(r) <=> Layout(q)
         /\ Objects(q) = Objects(r) /\ FreeCells(q) = FreeCells(r)
         /\ \A o : Body(q, o) = Body(r, o)
  <1>1. Objects(q) = Objects(r) /\ FreeCells(q) = FreeCells(r) /\ \A o : Body(q, o) = Body(r, o)
    BY DEF SameCells, Objects, FreeCells, IsFreeCell, Body
  <1> QED
    BY <1>1 DEF SameCells, Layout, Bounded, Untouched, Headed, Covered

\* A cell with a header of one cell and a zeroed payload.
Plained(r, q, c) ==
  /\ q \in RegionType
  /\ q.next = r.next /\ q.limit = r.limit /\ q.reserved = r.reserved
  /\ q.inside = r.inside /\ q.free = r.free /\ q.runs = r.runs
  /\ \A d \in Cells : q.word[d] = IF d = c THEN 1 ELSE r.word[d]
  /\ \A d \in Cells : q.field[d] = IF d = c THEN Nil ELSE r.field[d]
  /\ q.stale = r.stale \ {c}

\* Plain is that.
LEMMA PlainIs ==
  ASSUME NEW r \in RegionType, NEW c \in Cells
  PROVE  Plained(r, Plain(r, c), c)
  <1> DEFINE w == [r.word EXCEPT ![c] = 1]
             f == [r.field EXCEPT ![c] = Nil]
             s == r.stale \ {c}
             q == [r EXCEPT !.word = w, !.field = f, !.stale = s]
  <1>1. MaxCells \in Nat /\ MaxCells >= 1
    BY Parts
  <1>2. Plain(r, c) = q
    BY DEF Plain, RegionType
  <1>3. r.word \in [Cells -> Word .. MaxCells] /\ r.field \in [Cells -> Cells \cup {Nil}] /\ r.stale \in SUBSET Cells
    BY DEF RegionType
  <1>4. 1 \in Word .. MaxCells
    BY <1>1 DEF Word
  <1>5. w \in [Cells -> Word .. MaxCells] /\ \A d \in Cells : w[d] = IF d = c THEN 1 ELSE r.word[d]
    BY <1>3, <1>4, Zenon
  <1>6. f \in [Cells -> Cells \cup {Nil}] /\ \A d \in Cells : f[d] = IF d = c THEN Nil ELSE r.field[d]
    BY <1>3
  <1>7. s \in SUBSET Cells
    BY <1>3
  <1> HIDE DEF w, f, s
  <1>8. /\ q \in RegionType /\ q.word = w /\ q.field = f /\ q.stale = s
        /\ q.next = r.next /\ q.limit = r.limit /\ q.reserved = r.reserved
        /\ q.inside = r.inside /\ q.free = r.free /\ q.runs = r.runs
    BY <1>5, <1>6, <1>7 DEF RegionType
  <1> HIDE DEF q
  <1> QED
    BY <1>2, <1>5, <1>6, <1>8 DEF Plained, s

\* A single free cell taken from the list or from a run, whichever is left.
LEMMA PlainTaken ==
  ASSUME NEW r \in RegionType, Layout(r), NEW c \in FreeCells(r), NEW Y \in Seq(Cells), NEW X \in Seq(RunType),
         Lists(Y, X, FreeCells(r) \ {c})
  PROVE  LET q == Plain([r EXCEPT !.free = Y, !.runs = X], c)
         IN  q \in RegionType /\ Sound(q) /\ Taken(r, q, c, 1)
  <1> DEFINE s == [r EXCEPT !.free = Y, !.runs = X]
             q == Plain(s, c)
  <1>1. s \in RegionType /\ SameCells(r, s) /\ s.free = Y /\ s.runs = X
    BY DEF RegionType, SameCells, RunType
  <1>2. c \in Cells /\ c \in Int
    BY FreeIsCells, Parts
  <1> HIDE DEF s
  <1>2a. Plained(s, q, c)
    BY <1>1, <1>2, PlainIs
  <1>3. /\ q \in RegionType
        /\ q.next = s.next /\ q.limit = s.limit /\ q.reserved = s.reserved
        /\ q.inside = s.inside /\ q.free = s.free /\ q.runs = s.runs
        /\ \A d \in Cells : q.word[d] = IF d = c THEN 1 ELSE s.word[d]
        /\ \A d \in Cells : q.field[d] = IF d = c THEN Nil ELSE s.field[d]
        /\ q.stale = s.stale \ {c}
    BY <1>2a DEF Plained
  <1> HIDE DEF q
  <1>4. Span(c, 1) = {c} /\ c + 1 .. c + 1 - 1 = {}
    BY <1>2 DEF Span
  <1>5. Taken(r, q, c, 1)
    <2>1. q.next = r.next /\ Span(c, 1) \subseteq FreeCells(r)
      BY <1>1, <1>3, <1>4 DEF SameCells
    <2>2. /\ q.limit = r.limit /\ q.reserved = r.reserved
          /\ \A d \in Cells : q.word[d] = IF d = c THEN 1 ELSE r.word[d]
          /\ \A d \in Cells : q.inside[d] <=> r.inside[d] \/ d \in c + 1 .. c + 1 - 1
      BY <1>1, <1>3, <1>4 DEF SameCells
    <2>3. \A d \in Cells : d \notin Span(c, 1) => q.field[d] = r.field[d] /\ (d \in q.stale <=> d \in r.stale)
      BY <1>1, <1>3, <1>4 DEF SameCells
    <2>4. \A d \in Span(c, 1) : q.field[d] = Nil \/ d \in q.stale
      BY <1>2, <1>3, <1>4
    <2> QED
      BY <1>2, <2>1, <2>2, <2>3, <2>4 DEF Taken, Room
  <1>6. Layout(q) /\ FreeCells(q) = FreeCells(r) \ Span(c, 1)
    BY <1>3, <1>5, Takes
  <1>7. Sound(q)
    BY <1>1, <1>3, <1>4, <1>6 DEF Sound
  <1> QED
    BY <1>3, <1>5, <1>7 DEF q, s

\* A cell is taken, or there is none to take.
LEMMA AllocIs ==
  ASSUME NEW r \in RegionType, Sound(r)
  PROVE  Outcome(r, Alloc(r), 1)
  <1>1. Layout(r) /\ Lists(r.free, r.runs, FreeCells(r)) /\ FreeCells(r) \in SUBSET Cells
    BY FreeIsCells DEF Sound
  <1>2. /\ r.free \in Seq(Cells) /\ r.runs \in Seq(RunType) /\ r.next \in 0 .. MaxCells /\ r.limit \in 1 .. MaxCells
        /\ r.reserved \in 1 .. MaxCells
        /\ MaxCells \in Nat /\ Cells = 0 .. MaxCells - 1
    BY Parts DEF RunType
  <1>3. \A q, c : Took(q, c).region = q /\ Took(q, c).at = c
    BY DEF Took
  <1>4. CASE r.free # <<>>
    <2> DEFINE h == Head(r.free)
               q == Plain([r EXCEPT !.free = Tail(@)], h)
    <2>1. Alloc(r) = Took(q, h)
      BY <1>4 DEF Alloc
    <2>2. h \in FreeCells(r) /\ h \in Cells /\ Tail(r.free) \in Seq(Cells)
          /\ Lists(Tail(r.free), r.runs, FreeCells(r) \ {h})
      BY <1>1, <1>2, <1>4, ListPops
    <2>3. [r EXCEPT !.free = Tail(@)] = [r EXCEPT !.free = Tail(r.free), !.runs = r.runs]
      BY DEF RegionType
    <2>4. q \in RegionType /\ Sound(q) /\ Taken(r, q, h, 1)
      BY <1>1, <1>2, <2>2, <2>3, PlainTaken
    <2> QED
      BY <1>3, <2>1, <2>2, <2>4 DEF Outcome
  <1>5. CASE r.free = <<>> /\ r.next < r.limit
    <2> DEFINE c == r.next
               q == [r EXCEPT !.next = @ + 1, !.word[r.next] = 1]
    <2>1. Alloc(r) = Took(q, c)
      BY <1>5 DEF Alloc
    <2>2. c \in Cells /\ c \in Int
      BY <1>2, <1>5
    <2>3. /\ q \in RegionType /\ q.next = c + 1 /\ q.limit = r.limit /\ q.reserved = r.reserved
          /\ \A d \in Cells : q.word[d] = IF d = c THEN 1 ELSE r.word[d]
          /\ q.inside = r.inside /\ q.field = r.field /\ q.stale = r.stale
          /\ q.free = r.free /\ q.runs = r.runs
      <3> DEFINE w == [r.word EXCEPT ![c] = 1]
      <3>1. q = [r EXCEPT !.next = c + 1, !.word = w]
        BY DEF RegionType
      <3>2. r.word \in [Cells -> Word .. MaxCells] /\ 1 \in Word .. MaxCells
        <4>1. r.word \in [Cells -> Word .. MaxCells]
          BY DEF RegionType
        <4>2. 1 \in Word .. MaxCells
          BY RegionAssumption DEF Word
        <4> QED
          BY <4>1, <4>2
      <3>3. w \in [Cells -> Word .. MaxCells] /\ \A d \in Cells : w[d] = IF d = c THEN 1 ELSE r.word[d]
        BY <3>2, Zenon
      <3>4. c + 1 \in 0 .. MaxCells
        BY <1>2, <1>5
      <3> HIDE DEF w, q
      <3> QED
        BY <3>1, <3>3, <3>4 DEF RegionType
    <2> HIDE DEF q
    <2>4. Span(c, 1) = {c} /\ c + 1 .. c + 1 - 1 = {}
      BY <2>2 DEF Span
    <2>5. r.field[c] = Nil
      BY <1>1, <1>2, <2>2 DEF Layout, Untouched
    <2>6. Taken(r, q, c, 1)
      <3>1. q.next = r.next + 1 /\ q.next <= r.limit
        BY <1>2, <1>5, <2>3
      <3>2. \A d \in Span(c, 1) : q.field[d] = Nil
        BY <2>3, <2>4, <2>5
      <3> QED
        BY <2>2, <2>3, <2>4, <3>1, <3>2 DEF Taken, Room
    <2>7. Layout(q) /\ FreeCells(q) = FreeCells(r) \ Span(c, 1)
      BY <1>1, <2>3, <2>6, Takes
    <2>8. c \notin FreeCells(r)
      BY <1>2 DEF FreeCells
    <2>9. Sound(q)
      BY <1>1, <2>3, <2>4, <2>7, <2>8 DEF Sound
    <2> QED
      BY <1>3, <2>1, <2>2, <2>3, <2>6, <2>9 DEF Outcome
  <1>6. CASE r.free = <<>> /\ ~(r.next < r.limit)
    <2> DEFINE took == TakeRun(r, 1)
    <2>1. Alloc(r) = IF took.at = Nil THEN took ELSE Took(Plain(took.region, took.at), took.at)
      BY <1>6 DEF Alloc
    <2>2. CASE took = Took(r, Nil) /\ \A j \in 1 .. Len(r.runs) : r.runs[j].len < 1
      <3>1. Len(r.runs) = 0 /\ Len(r.free) = 0
        <4>1. \A j \in 1 .. Len(r.runs) : r.runs[j].len \in Nat /\ r.runs[j].len >= 1
          BY <1>2, RunParts
        <4> QED
          BY <1>2, <1>6, <2>2, <4>1
      <3>2. FreeCells(r) = {}
        BY <1>1, <3>1 DEF Lists, InList, InRun
      <3>3. NoRoom(r, 1)
        <4>1. \A c \in Nat : c \in Span(c, 1)
          BY DEF Span
        <4>2. 1 > r.limit - r.next
          BY <1>2, <1>6
        <4> QED
          BY <3>2, <4>1, <4>2 DEF NoRoom
      <3>4. Alloc(r) = Took(r, Nil)
        BY <1>3, <2>1, <2>2
      <3> QED
        BY <1>3, <3>3, <3>4 DEF Outcome, SameCells
    <2>3. CASE \E at \in Cells : \E X \in Seq(RunType) :
              /\ took = Took([r EXCEPT !.runs = X], at)
              /\ Span(at, 1) \subseteq FreeCells(r)
              /\ Lists(r.free, X, FreeCells(r) \ Span(at, 1))
      <3>1. PICK at \in Cells : \E X \in Seq(RunType) :
              /\ took = Took([r EXCEPT !.runs = X], at)
              /\ Span(at, 1) \subseteq FreeCells(r)
              /\ Lists(r.free, X, FreeCells(r) \ Span(at, 1))
        BY <2>3
      <3>2. PICK X \in Seq(RunType) :
              /\ took = Took([r EXCEPT !.runs = X], at)
              /\ Span(at, 1) \subseteq FreeCells(r)
              /\ Lists(r.free, X, FreeCells(r) \ Span(at, 1))
        BY <3>1
      <3>3. at \in Int /\ at # Nil /\ Span(at, 1) = {at}
        BY <1>2 DEF Nil, Span
      <3>4. [r EXCEPT !.runs = X] = [r EXCEPT !.free = r.free, !.runs = X]
        BY DEF RegionType
      <3> DEFINE q == Plain([r EXCEPT !.runs = X], at)
      <3>5. q \in RegionType /\ Sound(q) /\ Taken(r, q, at, 1)
        BY <1>1, <1>2, <3>2, <3>3, <3>4, PlainTaken
      <3>6. Alloc(r) = Took(q, at)
        BY <1>3, <2>1, <3>2, <3>3
      <3> QED
        BY <1>3, <3>5, <3>6 DEF Outcome
    <2>4. 1 \in Nat /\ 1 >= 1
      OBVIOUS
    <2> HIDE DEF took
    <2> QED
      BY <1>1, <2>2, <2>3, <2>4, RunTaken, Zenon DEF took
  <1> QED
    BY <1>4, <1>5, <1>6

\* Cells put under one header, and what their fields hold called stale.
Occupied(s, q, c, k) ==
  /\ q \in RegionType
  /\ q.next = s.next /\ q.limit = s.limit /\ q.reserved = s.reserved
  /\ q.free = s.free /\ q.runs = s.runs /\ q.field = s.field
  /\ \A d \in Cells : q.word[d] = IF d = c THEN k ELSE s.word[d]
  /\ \A d \in Cells : q.inside[d] <=> s.inside[d] \/ d \in c + 1 .. c + k - 1
  /\ \A d \in Cells : d \notin Span(c, k) => (d \in q.stale <=> d \in s.stale)
  /\ \A d \in Span(c, k) : q.field[d] = Nil \/ d \in q.stale

\* Occupy is that.
LEMMA OccupyIs ==
  ASSUME NEW s \in RegionType, NEW c \in Cells, NEW k \in 1 .. MaxCells, Span(c, k) \subseteq Cells
  PROVE  Occupied(s, Occupy(s, c, k), c, k)
  <1> DEFINE w == [s.word EXCEPT ![c] = k]
             i == [d \in Cells |-> s.inside[d] \/ d \in c + 1 .. c + k - 1]
             left == {d \in Span(c, k) : s.field[d] # Nil}
             l == s.stale \cup left
             q == [s EXCEPT !.word = w, !.inside = i, !.stale = l]
  <1>1. Occupy(s, c, k) = q
    BY DEF Occupy, RegionType
  <1>2. /\ s.word \in [Cells -> Word .. MaxCells] /\ s.stale \in SUBSET Cells
        /\ s.inside \in [Cells -> BOOLEAN]
    BY DEF RegionType
  <1>3. k \in Word .. MaxCells
    BY RegionAssumption DEF Word
  <1>4. w \in [Cells -> Word .. MaxCells] /\ \A d \in Cells : w[d] = IF d = c THEN k ELSE s.word[d]
    BY <1>2, <1>3, Zenon
  <1>5. i \in [Cells -> BOOLEAN] /\ \A d \in Cells : i[d] <=> s.inside[d] \/ d \in c + 1 .. c + k - 1
    OBVIOUS
  <1>6. /\ l \in SUBSET Cells
        /\ \A d \in Cells : d \notin Span(c, k) => (d \in l <=> d \in s.stale)
        /\ \A d \in Span(c, k) : s.field[d] = Nil \/ d \in l
    BY <1>2
  <1> HIDE DEF w, i, l
  <1>7. /\ q \in RegionType /\ q.word = w /\ q.inside = i /\ q.stale = l
        /\ q.next = s.next /\ q.limit = s.limit /\ q.reserved = s.reserved
        /\ q.field = s.field /\ q.free = s.free /\ q.runs = s.runs
    BY <1>4, <1>5, <1>6 DEF RegionType
  <1> HIDE DEF q
  <1> QED
    BY <1>1, <1>4, <1>5, <1>6, <1>7 DEF Occupied

\* A stretch of free cells out of which nothing is taken twice.
LEMMA RunOccupied ==
  ASSUME NEW r \in RegionType, Layout(r), NEW s \in RegionType, SameCells(r, s),
         NEW c \in Cells, NEW k \in Nat, k >= 1, Span(c, k) \subseteq FreeCells(r),
         Lists(s.free, s.runs, FreeCells(r) \ Span(c, k))
  PROVE  Outcome(r, Took(Occupy(s, c, k), c), k)
  <1> DEFINE q == Occupy(s, c, k)
  <1>1. r.next \in 0 .. MaxCells /\ MaxCells \in Nat /\ c \in Int /\ c >= 0 /\ Cells = 0 .. MaxCells - 1
    BY Parts
  <1>2. c + k - 1 \in FreeCells(r) /\ Span(c, k) \subseteq Cells
    <2>1. c + k - 1 \in Span(c, k)
      BY <1>1 DEF Span
    <2> QED
      BY <2>1, FreeIsCells
  <1>3. k \in 1 .. MaxCells
    <2>1. c + k - 1 \in 0 .. r.next - 1
      BY <1>2, FreeIsCells
    <2> QED
      BY <1>1, <2>1
  <1>4. Occupied(s, q, c, k)
    BY <1>2, <1>3, OccupyIs
  <1> HIDE DEF q
  <1>5. /\ q \in RegionType
        /\ q.next = s.next /\ q.limit = s.limit /\ q.reserved = s.reserved
        /\ q.free = s.free /\ q.runs = s.runs /\ q.field = s.field
        /\ \A d \in Cells : q.word[d] = IF d = c THEN k ELSE s.word[d]
        /\ \A d \in Cells : q.inside[d] <=> s.inside[d] \/ d \in c + 1 .. c + k - 1
        /\ \A d \in Cells : d \notin Span(c, k) => (d \in q.stale <=> d \in s.stale)
        /\ \A d \in Span(c, k) : q.field[d] = Nil \/ d \in q.stale
    BY <1>4 DEF Occupied
  <1>6. Taken(r, q, c, k)
    BY <1>5 DEF Taken, Room, SameCells
  <1>7. Layout(q) /\ FreeCells(q) = FreeCells(r) \ Span(c, k)
    BY <1>5, <1>6, Takes
  <1>8. Sound(q)
    BY <1>5, <1>7 DEF Sound
  <1> QED
    BY <1>5, <1>6, <1>8 DEF Outcome, Took, q

\* So many cells in a row are taken, or there is no such stretch.
LEMMA AllocSpanningIs ==
  ASSUME NEW r \in RegionType, Sound(r), NEW k \in Nat, k >= 1
  PROVE  Outcome(r, AllocSpanning(r, k), k)
  <1> DEFINE F == FreeCells(r)
  <1>1. Layout(r) /\ Lists(r.free, r.runs, F) /\ F \in SUBSET Cells
    BY FreeIsCells DEF Sound
  <1>2. /\ r.free \in Seq(Cells) /\ r.runs \in Seq(RunType) /\ r.next \in 0 .. MaxCells /\ r.limit \in 1 .. MaxCells
        /\ r.reserved \in 1 .. MaxCells
        /\ MaxCells \in Nat /\ Cells = 0 .. MaxCells - 1
    BY Parts DEF RunType
  <1>3. \A q, c : Took(q, c).region = q /\ Took(q, c).at = c
    BY DEF Took
  <1> DEFINE again == Coalesce(r)
             first == TakeRun(r, k)
             second == TakeRun(again, k)
             took == IF first.at # Nil THEN first ELSE second
  <1>4. AllocSpanning(r, k) =
          IF k <= r.limit - r.next THEN Took(Occupy([r EXCEPT !.next = @ + k], r.next, k), r.next)
          ELSE IF k = 1 THEN Alloc(r)
          ELSE IF took.at = Nil THEN took
          ELSE Took(Occupy(took.region, took.at, k), took.at)
    BY DEF AllocSpanning
  <1> HIDE DEF F, took, first, second, again
  <1>5. CASE k <= r.limit - r.next
    <2> DEFINE c == r.next
               s == [r EXCEPT !.next = @ + k]
               q == Occupy(s, c, k)
    <2>1. k \in 1 .. MaxCells /\ c \in Cells /\ c \in Int /\ c + k \in 0 .. MaxCells /\ c + k <= r.limit
      BY <1>2, <1>5
    <2>2. Span(c, k) = c .. c + k - 1 /\ Span(c, k) \subseteq Cells
      BY <1>2, <2>1 DEF Span
    <2>3. /\ s \in RegionType /\ s.next = c + k /\ s.limit = r.limit /\ s.reserved = r.reserved
          /\ s.word = r.word /\ s.inside = r.inside /\ s.field = r.field /\ s.stale = r.stale
          /\ s.free = r.free /\ s.runs = r.runs
      BY <2>1 DEF RegionType
    <2> HIDE DEF s
    <2>4. Occupied(s, q, c, k)
      BY <2>1, <2>2, <2>3, OccupyIs
    <2> HIDE DEF q
    <2>5. /\ q \in RegionType
          /\ q.next = s.next /\ q.limit = s.limit /\ q.reserved = s.reserved
          /\ q.free = s.free /\ q.runs = s.runs /\ q.field = s.field
          /\ \A d \in Cells : q.word[d] = IF d = c THEN k ELSE s.word[d]
          /\ \A d \in Cells : q.inside[d] <=> s.inside[d] \/ d \in c + 1 .. c + k - 1
          /\ \A d \in Cells : d \notin Span(c, k) => (d \in q.stale <=> d \in s.stale)
          /\ \A d \in Span(c, k) : q.field[d] = Nil \/ d \in q.stale
      BY <2>4 DEF Occupied
    <2>6. Taken(r, q, c, k)
      BY <2>1, <2>3, <2>5 DEF Taken, Room
    <2>7. Layout(q) /\ FreeCells(q) = F \ Span(c, k)
      BY <1>1, <2>5, <2>6, Takes DEF F
    <2>8. F \ Span(c, k) = F
      <3>1. \A d \in F : d \in 0 .. c - 1
        BY FreeIsCells DEF F
      <3> QED
        BY <2>1, <2>2, <3>1
    <2>9. Sound(q)
      BY <1>1, <2>3, <2>5, <2>7, <2>8 DEF Sound, F
    <2>10. AllocSpanning(r, k) = Took(q, c)
      BY <1>4, <1>5 DEF q, s
    <2> QED
      BY <1>3, <2>1, <2>5, <2>6, <2>9, <2>10 DEF Outcome
  <1>6. CASE ~(k <= r.limit - r.next) /\ k = 1
    <2>1. AllocSpanning(r, k) = Alloc(r)
      BY <1>4, <1>6
    <2> QED
      BY <1>6, <2>1, AllocIs
  <1>7. CASE ~(k <= r.limit - r.next) /\ k # 1
    <2>1. AllocSpanning(r, k) = IF took.at = Nil THEN took ELSE Took(Occupy(took.region, took.at, k), took.at)
      BY <1>4, <1>7
    <2>2. Nil \notin Cells
      BY <1>2 DEF Nil
    \* a run of some region over the same cells
    <2>3. ASSUME NEW s \in RegionType, SameCells(r, s), Lists(s.free, s.runs, F),
                 NEW at \in Cells, NEW Z \in Seq(RunType),
                 took = Took([s EXCEPT !.runs = Z], at), Span(at, k) \subseteq F,
                 Lists(s.free, Z, F \ Span(at, k))
          PROVE  Outcome(r, AllocSpanning(r, k), k)
      <3> DEFINE t == [s EXCEPT !.runs = Z]
      <3>1. t \in RegionType /\ SameCells(r, t) /\ t.free = s.free /\ t.runs = Z
        BY <2>3 DEF RegionType, RunType, SameCells
      <3> HIDE DEF t
      <3>2. Outcome(r, Took(Occupy(t, at, k), at), k)
        BY <1>1, <2>3, <3>1, RunOccupied DEF F
      <3>3. took.at = at /\ took.region = t
        BY <1>3, <2>3 DEF t
      <3>4. AllocSpanning(r, k) = Took(Occupy(t, at, k), at)
        BY <2>1, <2>2, <3>3
      <3> QED
        BY <3>2, <3>4
    <2>4. \/ first = Took(r, Nil)
          \/ \E at \in Cells : \E X \in Seq(RunType) :
              /\ first = Took([r EXCEPT !.runs = X], at)
              /\ Span(at, k) \subseteq F
              /\ Lists(r.free, X, F \ Span(at, k))
      BY <1>1, RunTaken, Zenon DEF first
    <2>5. CASE first = Took(r, Nil)
      <3>1. PICK X, Y : Rebuilt(r, X, Y)
        BY Coalesces
      <3>2. /\ X \in Seq(RunType) /\ Y \in Seq(Cells) /\ again = [r EXCEPT !.runs = X, !.free = Y]
            /\ Lists(Y, X, F)
            /\ \A c \in Nat : Span(c, k) \subseteq F => \E j \in 1 .. Len(X) : X[j].len >= k
        <4>1. k >= 2
          BY <1>7
        <4> QED
          BY <3>1, <4>1 DEF Rebuilt, again, F
      <3>3. again \in RegionType /\ SameCells(r, again) /\ again.free = Y /\ again.runs = X
        BY <3>2 DEF RegionType, RunType, SameCells
      <3>4. took = second
        BY <1>3, <2>5 DEF took
      <3>5. Lists(again.free, again.runs, F)
        BY <3>2, <3>3
      <3>6. \/ second = Took(again, Nil) /\ \A j \in 1 .. Len(again.runs) : again.runs[j].len < k
            \/ \E at \in Cells : \E Z \in Seq(RunType) :
                 /\ second = Took([again EXCEPT !.runs = Z], at)
                 /\ Span(at, k) \subseteq F
                 /\ Lists(again.free, Z, F \ Span(at, k))
        BY <1>1, <3>3, <3>5, RunTaken, Zenon DEF second
      <3>7. CASE second = Took(again, Nil) /\ \A j \in 1 .. Len(again.runs) : again.runs[j].len < k
        <4>1. AllocSpanning(r, k) = Took(again, Nil)
          BY <1>3, <2>1, <3>4, <3>7
        <4>2. \A j \in 1 .. Len(X) : X[j].len \in Nat
          BY <3>2, RunParts
        <4>3. \A c \in Nat : ~(Span(c, k) \subseteq F)
          BY <3>2, <3>3, <3>7, <4>2
        <4>4. NoRoom(r, k)
          BY <1>2, <1>7, <4>3 DEF NoRoom, F
        <4>5. Sound(again)
          BY <1>1, <3>3, <3>5, Same DEF Sound, F
        <4> QED
          BY <1>3, <3>3, <4>1, <4>4, <4>5 DEF Outcome
      <3>8. CASE \E at \in Cells : \E Z \in Seq(RunType) :
                 /\ second = Took([again EXCEPT !.runs = Z], at)
                 /\ Span(at, k) \subseteq F
                 /\ Lists(again.free, Z, F \ Span(at, k))
        BY <2>3, <3>3, <3>4, <3>5, <3>8, Zenon
      <3> QED
        BY <3>6, <3>7, <3>8
    <2>6. CASE \E at \in Cells : \E X \in Seq(RunType) :
              /\ first = Took([r EXCEPT !.runs = X], at)
              /\ Span(at, k) \subseteq F
              /\ Lists(r.free, X, F \ Span(at, k))
      <3>1. took = first
        BY <1>3, <2>2, <2>6 DEF took
      <3>2. SameCells(r, r)
        BY DEF SameCells
      <3> QED
        BY <1>1, <2>3, <2>6, <3>1, <3>2, Zenon
    <2> QED
      BY <2>4, <2>5, <2>6
  <1> QED
    BY <1>5, <1>6, <1>7

-----------------------------------------------------------------------------
(***************************************************************************)
(* Giving back, writing, growing.                                          *)
(***************************************************************************)

\* The region after an object is given back.
FreedWell(r, q, c) == q \in RegionType /\ Sound(q) /\ Freed(r, q, c)

\* An object given back is no object, and its cells are free.
LEMMA FreeIs ==
  ASSUME NEW r \in RegionType, Sound(r), NEW c \in Objects(r)
  PROVE  FreedWell(r, Free(r, c), c)
  <1> DEFINE body == Body(r, c)
             w == [d \in Cells |-> IF d \in body THEN FreeMarker ELSE r.word[d]]
             i == [d \in Cells |-> r.inside[d] /\ d \notin body]
             l == r.stale \ body
             marked == [r EXCEPT !.word = w, !.inside = i, !.stale = l]
             run == [start |-> c, len |-> r.word[c]]
             Q(f, x) == [r EXCEPT !.word = w, !.inside = i, !.stale = l, !.free = f, !.runs = x]
  <1>1. Layout(r) /\ Headed(r) /\ Lists(r.free, r.runs, FreeCells(r))
    BY DEF Sound, Layout
  <1>2. /\ c \in Cells /\ c \in Int /\ c < r.next /\ r.word[c] \in Int /\ r.word[c] >= 1 /\ c + r.word[c] <= r.next
        /\ body = c .. c + r.word[c] - 1 /\ body \subseteq Cells
    BY <1>1, BodyOf
  <1>3. MaxCells \in Nat /\ Cells = 0 .. MaxCells - 1 /\ r.next \in 0 .. MaxCells
    BY Parts
  <1>4. /\ r.word \in [Cells -> Word .. MaxCells] /\ r.stale \in SUBSET Cells
        /\ r.inside \in [Cells -> BOOLEAN] /\ r.free \in Seq(Cells) /\ r.runs \in Seq(RunType)
    BY DEF RegionType, RunType
  <1>5. FreeMarker \in Word .. MaxCells /\ FreeMarker = -1
    BY <1>3 DEF Word, FreeMarker
  <1>6. w \in [Cells -> Word .. MaxCells] /\ \A d \in Cells : w[d] = IF d \in body THEN FreeMarker ELSE r.word[d]
    BY <1>4, <1>5, Zenon
  <1>7. i \in [Cells -> BOOLEAN] /\ \A d \in Cells : i[d] <=> r.inside[d] /\ d \notin body
    OBVIOUS
  <1>8. l \in SUBSET Cells /\ \A d \in Cells : d \in l <=> d \in r.stale /\ d \notin body
    BY <1>4
  <1>9. Free(r, c) = IF r.word[c] > 1 THEN [marked EXCEPT !.runs = Append(r.runs, run)]
                                      ELSE [marked EXCEPT !.free = <<c>> \o r.free]
    <2>1. ~(c >= r.next \/ r.word[c] = FreeMarker)
      BY <1>2, <1>3, <1>5
    <2> QED
      BY <2>1 DEF Free, RegionType
  <1> HIDE DEF w, i, l
  <1>10. ASSUME NEW f \in Seq(Cells), NEW x \in Seq(RunType), Lists(f, x, FreeCells(r) \cup body)
         PROVE  FreedWell(r, Q(f, x), c)
    <2> DEFINE q == Q(f, x)
    <2>1. /\ q \in RegionType /\ q.word = w /\ q.inside = i /\ q.stale = l
          /\ q.next = r.next /\ q.limit = r.limit /\ q.reserved = r.reserved
          /\ q.field = r.field /\ q.free = f /\ q.runs = x
      BY <1>6, <1>7, <1>8, <1>10 DEF RegionType, RunType
    <2> HIDE DEF Q
    <2>2. Freed(r, q, c)
      BY <1>6, <1>7, <1>8, <2>1 DEF Freed
    <2>3. Layout(q) /\ FreeCells(q) = FreeCells(r) \cup body
      BY <1>1, <2>1, <2>2, Frees
    <2> QED
      BY <1>10, <2>1, <2>2, <2>3 DEF FreedWell, Sound
  <1>11. \A d \in body : d \notin FreeCells(r)
    BY <1>1, BodyNotFree
  <1>12. CASE r.word[c] > 1
    <2>1. r.word[c] \in 1 .. MaxCells
      BY <1>2, <1>3
    <2>2. run \in RunType /\ SpanOf(run) = body
      BY <1>2, <2>1 DEF RunType, SpanOf, Span
    <2>3. Append(r.runs, run) \in Seq(RunType) /\ Lists(r.free, Append(r.runs, run), FreeCells(r) \cup body)
      <3>1. SpanOf(run) \cap FreeCells(r) = {}
        BY <1>11, <2>2
      <3> HIDE DEF run, body
      <3> QED
        BY <1>1, <1>4, <2>2, <3>1, RunPushes
    <2>4. Free(r, c) = Q(r.free, Append(r.runs, run))
      <3> HIDE DEF run
      <3> QED
        BY <1>9, <1>12 DEF RegionType
    <2> HIDE DEF Q
    <2> QED
      BY <1>4, <1>10, <2>3, <2>4
  <1>13. CASE ~(r.word[c] > 1)
    <2>1. body = {c}
      BY <1>2, <1>13
    <2>2. <<c>> \o r.free \in Seq(Cells) /\ Lists(<<c>> \o r.free, r.runs, FreeCells(r) \cup body)
      <3>1. c \notin FreeCells(r)
        BY <1>11, <2>1
      <3> HIDE DEF body
      <3> QED
        BY <1>1, <1>2, <1>4, <2>1, <3>1, ListPushes
    <2>3. Free(r, c) = Q(<<c>> \o r.free, r.runs)
      BY <1>9, <1>13 DEF RegionType
    <2> HIDE DEF Q
    <2> QED
      BY <1>4, <1>10, <2>2, <2>3
  <1> QED
    BY <1>12, <1>13

\* A free cell given back again changes nothing.
LEMMA FreeAgain ==
  ASSUME NEW r, NEW c, IsFreeCell(r, c)
  PROVE  Free(r, c) = r
  BY DEF Free, IsFreeCell

\* Only fields, and words no header is read from, written anew.
Rewritten(r, q) ==
  /\ q \in RegionType
  /\ q.next = r.next /\ q.limit = r.limit /\ q.reserved = r.reserved
  /\ q.inside = r.inside /\ q.free = r.free /\ q.runs = r.runs
  /\ \A d \in Cells : r.inside[d] \/ q.word[d] = r.word[d]
  /\ \A d \in Cells : d >= r.next => q.field[d] = r.field[d] /\ (d \in q.stale <=> d \in r.stale)

\* The objects and the free cells stay.
SameObjects(r, q) ==
  /\ Sound(q) /\ Objects(q) = Objects(r) /\ FreeCells(q) = FreeCells(r)
  /\ \A o \in Objects(r) : q.word[o] = r.word[o] /\ Body(q, o) = Body(r, o)

\* Writing them moves no object and frees no cell.
LEMMA Rewrites ==
  ASSUME NEW r \in RegionType, NEW q, Sound(r), Rewritten(r, q)
  PROVE  SameObjects(r, q)
  <1>1. /\ q \in RegionType
        /\ q.next = r.next /\ q.limit = r.limit /\ q.reserved = r.reserved
        /\ q.inside = r.inside /\ q.free = r.free /\ q.runs = r.runs
        /\ \A d \in Cells : r.inside[d] \/ q.word[d] = r.word[d]
        /\ \A d \in Cells : d >= r.next => q.field[d] = r.field[d] /\ (d \in q.stale <=> d \in r.stale)
    BY DEF Rewritten
  <1>2. /\ MaxCells \in Nat /\ Cells = 0 .. MaxCells - 1 /\ r.next \in 0 .. MaxCells
        /\ \A d \in 0 .. r.next - 1 : d \in Cells
    BY Parts
  <1>3. Objects(q) = Objects(r)
    BY <1>1, <1>2 DEF Objects
  <1>4. FreeCells(q) = FreeCells(r)
    BY <1>1, <1>2 DEF FreeCells, IsFreeCell
  <1>5. \A o \in Objects(r) : q.word[o] = r.word[o] /\ o \in Cells
    BY <1>1, <1>2 DEF Objects
  <1>6. \A o \in Objects(r) : Body(q, o) = Body(r, o)
    BY <1>5 DEF Body
  <1>7. Layout(r) /\ Bounded(r) /\ Untouched(r) /\ Headed(r) /\ Covered(r)
    BY DEF Sound, Layout
  <1>8. Bounded(q)
    BY <1>1, <1>7 DEF Bounded
  <1>9. Untouched(q)
    <2>1. ASSUME NEW c \in Cells, c >= q.next
          PROVE  q.word[c] = Zero /\ ~q.inside[c] /\ q.field[c] = Nil /\ c \notin q.stale
      <3>1. r.word[c] = Zero /\ ~r.inside[c] /\ r.field[c] = Nil /\ c \notin r.stale
        BY <1>1, <1>7, <2>1 DEF Untouched
      <3> QED
        BY <1>1, <2>1, <3>1
    <2> QED
      BY <2>1 DEF Untouched
  <1>10. Headed(q)
    BY <1>1, <1>3, <1>5, <1>7 DEF Headed
  <1>11. Covered(q)
    BY <1>1, <1>3, <1>5, <1>7 DEF Covered
  <1>12. Sound(q)
    BY <1>1, <1>4, <1>8, <1>9, <1>10, <1>11 DEF Sound, Layout
  <1> QED
    BY <1>3, <1>4, <1>5, <1>6, <1>12 DEF SameObjects

\* A field of an object written.
Wrote(r, q, c, v) ==
  /\ Rewritten(r, q)
  /\ \A d \in Cells : q.field[d] = IF d = c THEN v ELSE r.field[d]
  /\ q.stale = r.stale \ {c}

\* Write is such a write, of a cell of an object.
LEMMA WriteIs ==
  ASSUME NEW r \in RegionType, Sound(r), NEW o \in Objects(r), NEW c \in Body(r, o), NEW v \in Cells \cup {Nil}
  PROVE  Wrote(r, Write(r, c, v), c, v)
  <1> DEFINE w == [r.word EXCEPT ![c] = IF r.inside[c] THEN Word ELSE r.word[c]]
             f == [r.field EXCEPT ![c] = v]
             l == r.stale \ {c}
             q == [r EXCEPT !.field = f, !.stale = l, !.word = w]
  <1>1. /\ MaxCells \in Nat /\ Cells = 0 .. MaxCells - 1 /\ r.next \in 0 .. MaxCells
    BY Parts
  <1>2. c \in Cells /\ c \in Int /\ c < r.next
    BY BodyOf DEF Sound, Layout
  <1>3. /\ r.word \in [Cells -> Word .. MaxCells] /\ r.stale \in SUBSET Cells
        /\ r.field \in [Cells -> Cells \cup {Nil}]
    BY DEF RegionType
  <1>4. Write(r, c, v) = q
    BY <1>2, <1>3 DEF Write, RegionType
  <1>5. Word \in Word .. MaxCells /\ r.word[c] \in Word .. MaxCells
    BY <1>1, <1>2, <1>3 DEF Word
  <1>6. w \in [Cells -> Word .. MaxCells] /\ \A d \in Cells : r.inside[d] \/ w[d] = r.word[d]
    <2>1. (IF r.inside[c] THEN Word ELSE r.word[c]) \in Word .. MaxCells
      BY <1>5
    <2> QED
      BY <1>2, <1>3, <2>1, Zenon
  <1>7. f \in [Cells -> Cells \cup {Nil}] /\ \A d \in Cells : f[d] = IF d = c THEN v ELSE r.field[d]
    BY <1>2, <1>3
  <1>8. l \in SUBSET Cells /\ \A d \in Cells : d # c => (d \in l <=> d \in r.stale)
    BY <1>3
  <1> HIDE DEF w, f, l
  <1>9. /\ q \in RegionType /\ q.word = w /\ q.field = f /\ q.stale = l
        /\ q.next = r.next /\ q.limit = r.limit /\ q.reserved = r.reserved
        /\ q.inside = r.inside /\ q.free = r.free /\ q.runs = r.runs
    BY <1>6, <1>7, <1>8 DEF RegionType
  <1> HIDE DEF q
  <1>10. \A d \in Cells : d >= r.next => d # c
    BY <1>1, <1>2
  <1>11. Rewritten(r, q)
    BY <1>6, <1>7, <1>8, <1>9, <1>10 DEF Rewritten
  <1> QED
    BY <1>4, <1>7, <1>9, <1>11 DEF Wrote, l

\* The bound raised: no cell changes.
Grew(r, q) ==
  /\ q \in RegionType /\ Sound(q)
  /\ q.next = r.next /\ q.reserved = r.reserved /\ q.word = r.word /\ q.inside = r.inside
  /\ q.free = r.free /\ q.runs = r.runs /\ q.field = r.field /\ q.stale = r.stale
  /\ Objects(q) = Objects(r) /\ FreeCells(q) = FreeCells(r) /\ \A o : Body(q, o) = Body(r, o)

\* Grow raises the bound, up to the reservation.
LEMMA GrowIs ==
  ASSUME NEW r \in RegionType, Sound(r)
  PROVE  Grew(r, Grow(r))
  <1> DEFINE m == Min({2 * r.limit, r.reserved})
  <1>1. r.limit \in Int /\ r.reserved \in Int /\ r.limit \in 1 .. MaxCells /\ r.reserved \in 1 .. MaxCells /\ MaxCells \in Nat
    BY RegionAssumption DEF RegionType
  <1>2. m = IF 2 * r.limit <= r.reserved THEN 2 * r.limit ELSE r.reserved
    <2>1. 2 * r.limit \in Int
      BY <1>1
    <2> QED
      BY <1>1, <2>1, MinOfTwo
  <1>3. m \in 1 .. MaxCells /\ m <= r.reserved
    BY <1>1, <1>2
  <1>4. r.next <= r.limit /\ r.limit <= r.reserved
    BY DEF Sound, Layout, Bounded
  <1>5. \/ Grow(r) = r
        \/ Grow(r) = [r EXCEPT !.limit = m] /\ r.limit < r.reserved
    BY DEF Grow, CanGrow, RegionType
  <1>6. CASE Grow(r) = r
    BY <1>6 DEF Grew
  <1>7. CASE Grow(r) = [r EXCEPT !.limit = m] /\ r.limit < r.reserved
    <2> DEFINE q == [r EXCEPT !.limit = m]
    <2>1. r.limit <= m
      BY <1>1, <1>2, <1>7
    <2> HIDE DEF m
    <2>2. /\ q \in RegionType /\ q.limit = m
          /\ q.next = r.next /\ q.reserved = r.reserved /\ q.word = r.word /\ q.inside = r.inside
          /\ q.free = r.free /\ q.runs = r.runs /\ q.field = r.field /\ q.stale = r.stale
      BY <1>3 DEF RegionType
    <2> HIDE DEF q
    <2>3. Objects(q) = Objects(r) /\ FreeCells(q) = FreeCells(r) /\ \A o : Body(q, o) = Body(r, o)
      BY <2>2 DEF Objects, FreeCells, IsFreeCell, Body
    <2>4. Bounded(q)
      BY <1>1, <1>3, <1>4, <2>1, <2>2 DEF Bounded, RegionType
    <2>5. Sound(q)
      BY <2>2, <2>3, <2>4 DEF Sound, Layout, Untouched, Headed, Covered
    <2>6. Grow(r) = q
      BY <1>7 DEF q
    <2> QED
      BY <2>2, <2>3, <2>5, <2>6 DEF Grew
  <1> QED
    BY <1>5, <1>6, <1>7

\* A region no cell of which was handed out.
LEMMA FreshIs ==
  ASSUME NEW reserved \in 1 .. MaxCells, NEW initial \in 1 .. reserved
  PROVE  LET r == Fresh(initial, reserved)
         IN  r \in RegionType /\ Sound(r) /\ Objects(r) = {}
  <1> DEFINE r == Fresh(initial, reserved)
  <1>1. MaxCells \in Nat /\ reserved \in Int /\ initial \in Int /\ initial \in 1 .. MaxCells
    BY RegionAssumption
  <1>2. /\ r.next = 0 /\ r.limit = initial /\ r.reserved = reserved
        /\ r.word = [c \in Cells |-> Zero] /\ r.inside = [c \in Cells |-> FALSE]
        /\ r.free = <<>> /\ r.runs = <<>> /\ r.field = [c \in Cells |-> Nil] /\ r.stale = {}
    BY DEF Fresh
  <1>3. r \in RegionType
    <2>1. 0 \in 0 .. MaxCells /\ Zero \in Word .. MaxCells
      BY <1>1 DEF Zero, Word
    <2>2. [c \in Cells |-> Zero] \in [Cells -> Word .. MaxCells]
      BY <2>1, Zenon
    <2>3. <<>> \in Seq(Cells) /\ <<>> \in Seq([start : Cells, len : 1 .. MaxCells])
      OBVIOUS
    <2> QED
      BY <1>1, <2>1, <2>2, <2>3 DEF Fresh, RegionType
  <1> HIDE DEF r
  <1>4. Objects(r) = {} /\ FreeCells(r) = {}
    BY <1>2 DEF Objects, FreeCells
  <1>5. Layout(r)
    BY <1>1, <1>2, <1>4 DEF Layout, Bounded, Untouched, Headed, Covered
  <1>6. Lists(<<>>, <<>>, {})
    BY DEF Lists, OnceListed, RunsApart, InList, InRun
  <1> QED
    BY <1>2, <1>3, <1>4, <1>5, <1>6 DEF Sound, r

-----------------------------------------------------------------------------
(***************************************************************************)
(* Where a cell is.                                                        *)
(***************************************************************************)

\* How often a list, some runs and the objects name a cell.
TimesListed(r, c) == Cardinality({i \in 1 .. Len(r.free) : r.free[i] = c})
TimesInRuns(r, c) == Cardinality({i \in 1 .. Len(r.runs) : c \in Span(r.runs[i].start, r.runs[i].len)})
TimesOwned(r, c) == Cardinality({o \in Objects(r) : c \in Body(r, o)})

\* A set all of whose members are one has a member or none.
LEMMA OneOrNone ==
  ASSUME NEW S, \A x, y \in S : x = y
  PROVE  Cardinality(S) = IF S = {} THEN 0 ELSE 1
  <1>1. CASE S = {}
    BY <1>1, FS_EmptySet
  <1>2. CASE S # {}
    <2>1. PICK x \in S : TRUE
      BY <1>2
    <2>2. S = {x}
      BY <2>1
    <2> QED
      BY <1>2, <2>2, FS_Singleton, Zenon
  <1> QED
    BY <1>1, <1>2

\* A cell handed out has one place: the list, one run or one object.  A cell
\* never handed out has none.
LEMMA OnePlace ==
  ASSUME NEW r \in RegionType, Sound(r), NEW c \in Cells
  PROVE  TimesListed(r, c) + TimesInRuns(r, c) + TimesOwned(r, c) = IF c < r.next THEN 1 ELSE 0
  <1> DEFINE A == {i \in 1 .. Len(r.free) : r.free[i] = c}
             B == {i \in 1 .. Len(r.runs) : c \in Span(r.runs[i].start, r.runs[i].len)}
             O == {o \in Objects(r) : c \in Body(r, o)}
  <1>1. Layout(r) /\ Headed(r) /\ Covered(r) /\ Untouched(r) /\ Lists(r.free, r.runs, FreeCells(r))
    BY DEF Sound, Layout
  <1>2. MaxCells \in Nat /\ Cells = 0 .. MaxCells - 1 /\ r.next \in 0 .. MaxCells
    BY Parts
  <1>2a. c \in Int /\ c >= 0
    BY <1>2
  <1>3. A # {} <=> InList(r.free, c)
    BY DEF InList
  <1>4. B # {} <=> InRun(r.runs, c)
    BY DEF InRun, SpanOf
  <1>5. Cardinality(A) = IF A = {} THEN 0 ELSE 1
    <2>1. \A x, y \in A : x = y
      BY <1>1 DEF Lists, OnceListed
    <2> HIDE DEF A
    <2> QED
      BY <2>1, OneOrNone
  <1>6. Cardinality(B) = IF B = {} THEN 0 ELSE 1
    <2>1. \A x, y \in B : x = y
      <3> SUFFICES ASSUME NEW x \in B, NEW y \in B, x # y PROVE FALSE
        OBVIOUS
      <3>1. c \in SpanOf(r.runs[x]) /\ c \in SpanOf(r.runs[y])
        BY DEF SpanOf
      <3>2. SpanOf(r.runs[x]) \cap SpanOf(r.runs[y]) = {}
        BY <1>1 DEF Lists, RunsApart
      <3> QED
        BY <3>1, <3>2
    <2> HIDE DEF B
    <2> QED
      BY <2>1, OneOrNone
  <1>7. Cardinality(O) = IF O = {} THEN 0 ELSE 1
    <2>1. \A x, y \in O : x = y
      BY <1>1, BodiesApart
    <2> HIDE DEF O
    <2> QED
      BY <2>1, OneOrNone
  <1>8. c \in FreeCells(r) <=> A # {} \/ B # {}
    BY <1>1, <1>3, <1>4 DEF Lists
  <1>9. ~(A # {} /\ B # {})
    BY <1>1, <1>3, <1>4 DEF Lists
  <1>10. O # {} => c \notin FreeCells(r) /\ c < r.next
    <2> SUFFICES ASSUME NEW o \in O PROVE c \notin FreeCells(r) /\ c < r.next
      OBVIOUS
    <2> QED
      BY <1>1, BodyOf, BodyNotFree
  <1>11. c \in FreeCells(r) => c < r.next
    BY <1>2 DEF FreeCells
  <1>12. c < r.next /\ c \notin FreeCells(r) => O # {}
    <2> SUFFICES ASSUME c < r.next, c \notin FreeCells(r) PROVE \E o \in Objects(r) : c \in Body(r, o)
      OBVIOUS
    <2>1. CASE r.inside[c]
      <3>1. PICK o \in Objects(r) : c \in o + 1 .. o + r.word[o] - 1
        BY <1>1, <2>1 DEF Covered
      <3>2. Body(r, o) = o .. o + r.word[o] - 1 /\ o \in Int /\ r.word[o] \in Int
        BY <1>1, BodyOf
      <3>3. c \in Body(r, o)
        BY <3>1, <3>2
      <3> QED
        BY <3>3
    <2>2. CASE ~r.inside[c]
      <3>1. c \in 0 .. r.next - 1
        BY <1>2, <1>2a
      <3>2. r.word[c] # FreeMarker
        BY <2>2, <3>1 DEF FreeCells, IsFreeCell
      <3>3. c \in Objects(r)
        BY <2>2, <3>1, <3>2 DEF Objects
      <3> QED
        BY <1>1, <3>3, BodyOf
    <2> QED
      BY <2>1, <2>2
  <1>13. TimesListed(r, c) = Cardinality(A) /\ TimesInRuns(r, c) = Cardinality(B) /\ TimesOwned(r, c) = Cardinality(O)
    BY DEF TimesListed, TimesInRuns, TimesOwned
  <1> HIDE DEF A, B, O
  <1> QED
    BY <1>5, <1>6, <1>7, <1>8, <1>9, <1>10, <1>11, <1>12, <1>13

\* A cell is flagged when an object covers it past its first cell.
LEMMA FlaggedIsCovered ==
  ASSUME NEW r \in RegionType, Sound(r), NEW c \in Cells
  PROVE  r.inside[c] <=> \E o \in Objects(r) : c \in Body(r, o) \ {o}
  <1>1. Headed(r) /\ Covered(r)
    BY DEF Sound, Layout
  <1>2. r.inside[c] => \E o \in Objects(r) : c \in Body(r, o) \ {o}
    <2> SUFFICES ASSUME r.inside[c] PROVE \E o \in Objects(r) : c \in Body(r, o) \ {o}
      OBVIOUS
    <2>1. PICK o \in Objects(r) : c \in o + 1 .. o + r.word[o] - 1
      BY <1>1 DEF Covered
    <2>2. Body(r, o) = o .. o + r.word[o] - 1 /\ o \in Int /\ r.word[o] \in Int
      BY <1>1, BodyOf
    <2> QED
      BY <2>1, <2>2
  <1>3. (\E o \in Objects(r) : c \in Body(r, o) \ {o}) => r.inside[c]
    BY <1>1, BodyOf
  <1> QED
    BY <1>2, <1>3

-----------------------------------------------------------------------------

(***************************************************************************)
(* The walk from the roots.                                                *)
(***************************************************************************)
SpreadStep(edges, S) == S \cup UNION {edges[c] : c \in S}
ClosedUnder(edges, S) == \A c \in S : edges[c] \subseteq S

\* Spread is the function its definition describes: it starts at the roots and
\* widens each turn, and stays in any set closed under the edges.
LEMMA SpreadDef ==
  ASSUME NEW edges, NEW U, ClosedUnder(edges, U), NEW roots \in SUBSET U
  PROVE  /\ Spread(roots, edges) \in [0 .. MaxCells -> SUBSET U]
         /\ Spread(roots, edges)[0] = roots
         /\ \A n \in 1 .. MaxCells :
              Spread(roots, edges)[n] = SpreadStep(edges, Spread(roots, edges)[n - 1])
  <1> DEFINE K == MaxCells
             S == SUBSET U
             F == [x \in (1 .. K) \X S |-> SpreadStep(edges, x[2])]
             Is(g) == g = [n \in 0 .. K |-> IF n = 0 THEN roots ELSE SpreadStep(edges, g[n - 1])]
  <1>1. K \in Nat /\ roots \in S
    BY RegionAssumption
  <1>3. ASSUME NEW a \in S PROVE SpreadStep(edges, a) \in S
    BY DEF SpreadStep, ClosedUnder
  <1> HIDE DEF S
  <1>4. F \in [(1 .. K) \X S -> S]
    <2>1. \A x \in (1 .. K) \X S : SpreadStep(edges, x[2]) \in S
      BY <1>3, SMT
    <2> QED
      BY <2>1, Zenon
  <1> HIDE DEF F, K
  <1>5. PICK g : Iterating(g, K, S, roots, F)
    BY <1>1, <1>4, Iterates, Zenon
  <1>6. g \in [0 .. K -> S] /\ g[0] = roots /\ \A n \in 1 .. K : g[n] = F[<<n, g[n - 1]>>]
    BY <1>5, Zenon DEF Iterating
  <1>7. \A n \in 0 .. K : n # 0 => n \in 1 .. K /\ n - 1 \in 0 .. K
    BY <1>1, SMT
  <1>8. \A n \in 1 .. K, a \in S : F[<<n, a>>] = SpreadStep(edges, a)
    BY Zenon DEF F
  <1>9. Is(g)
    <2>1. \A n \in 0 .. K : g[n] = IF n = 0 THEN roots ELSE SpreadStep(edges, g[n - 1])
      BY <1>6, <1>7, <1>8, Zenon
    <2>2. g = [n \in 0 .. K |-> g[n]]
      BY <1>6, Zenon
    <2> QED
      BY <2>1, <2>2, Zenon
  <1>10. Is(Spread(roots, edges))
    <2>1. Spread(roots, edges) = CHOOSE f : Is(f)
      BY Zenon DEF Spread, SpreadStep, K
    <2> QED
      BY <1>9, <2>1, Zenon
  <1> DEFINE h == Spread(roots, edges)
  <1>11. h = [n \in 0 .. K |-> IF n = 0 THEN roots ELSE SpreadStep(edges, h[n - 1])]
    BY <1>10
  <1> HIDE DEF h, Is
  <1>12. \A n \in 0 .. K : h[n] = IF n = 0 THEN roots ELSE SpreadStep(edges, h[n - 1])
    BY <1>11, Zenon
  <1>13. 0 \in 0 .. K /\ \A n \in 1 .. K : n \in 0 .. K /\ n # 0
    BY <1>1, SMT
  <1>14. h[0] = roots /\ \A n \in 1 .. K : h[n] = SpreadStep(edges, h[n - 1])
    BY <1>12, <1>13, Zenon
  <1>15. \A n \in 0 .. K : h[n] \in S
    <2> DEFINE T == {n \in 0 .. K : h[n] \in S}
    <2>1. 0 \in T
      BY <1>1, <1>13, <1>14
    <2>2. \A n \in 0 .. K - 1 : n \in T => n + 1 \in T
      BY <1>1, <1>3, <1>14, SMT
    <2> HIDE DEF T
    <2>3. \A n \in 0 .. K : n \in T
      BY <1>1, <2>1, <2>2, SetInduction
    <2> QED
      BY <2>3 DEF T
  <1>16. h \in [0 .. K -> S]
    BY <1>11, <1>15, Zenon
  <1> QED
    BY <1>14, <1>16 DEF h, S, K

\* A walk of as many turns as there are cells reaches a set closed under the
\* edges, for each turn before that finds a cell more.
LEMMA SpreadCloses ==
  ASSUME NEW edges \in [Cells -> SUBSET Cells], NEW roots \in SUBSET Cells
  PROVE  LET m == Spread(roots, edges)[MaxCells]
         IN  m \in SUBSET Cells /\ roots \subseteq m /\ ClosedUnder(edges, m)
  <1> DEFINE K == MaxCells
             h == Spread(roots, edges)
             T == {n \in 0 .. K : roots \subseteq h[n] /\ (ClosedUnder(edges, h[n]) \/ Cardinality(h[n]) >= n)}
  <1>1. /\ h \in [0 .. K -> SUBSET Cells] /\ h[0] = roots
        /\ \A n \in 1 .. K : h[n] = SpreadStep(edges, h[n - 1])
    <2>1. ClosedUnder(edges, Cells)
      BY DEF ClosedUnder
    <2> QED
      BY <2>1, SpreadDef
  <1>2. K \in Nat /\ IsFiniteSet(Cells) /\ Cardinality(Cells) = K
    <2>1. K \in Nat /\ K >= 1 /\ Cells = 0 .. K - 1 /\ 0 \in Int /\ K - 1 \in Int
      BY RegionAssumption DEF Cells
    <2>2. IsFiniteSet(0 .. K - 1) /\ Cardinality(0 .. K - 1) = IF 0 > K - 1 THEN 0 ELSE (K - 1) - 0 + 1
      BY <2>1, FS_Interval, Zenon
    <2> QED
      BY <2>1, <2>2
  <1> HIDE DEF h
  <1>3. ASSUME NEW S \in SUBSET Cells PROVE IsFiniteSet(S) /\ Cardinality(S) \in Nat /\ Cardinality(S) <= K
    BY <1>2, FS_Subset, FS_CardinalityType
  <1>4. 0 \in T
    BY <1>1, <1>2, <1>3
  <1>5. \A n \in 0 .. K - 1 : n \in T => n + 1 \in T
    <2>1. SUFFICES ASSUME NEW n \in 0 .. K - 1, n \in T PROVE n + 1 \in T
      OBVIOUS
    <2>2. n + 1 \in 1 .. K /\ n + 1 \in 0 .. K /\ (n + 1) - 1 = n /\ n \in 0 .. K /\ n \in Nat
      BY <1>2
    <2>3. h[n + 1] = SpreadStep(edges, h[n])
      BY <1>1, <2>2, Zenon
    <2>4. h[n] \subseteq h[n + 1] /\ roots \subseteq h[n + 1] /\ h[n] \in SUBSET Cells /\ h[n + 1] \in SUBSET Cells
      BY <1>1, <2>1, <2>2, <2>3 DEF SpreadStep
    <2>5. CASE ClosedUnder(edges, h[n])
      <3>1. h[n + 1] = h[n]
        BY <2>3, <2>4, <2>5 DEF SpreadStep, ClosedUnder
      <3> QED
        BY <2>2, <2>4, <2>5, <3>1
    <2>6. CASE ~ClosedUnder(edges, h[n])
      <3>1. h[n + 1] # h[n]
        BY <2>3, <2>6 DEF SpreadStep, ClosedUnder
      <3>2. Cardinality(h[n]) >= n
        BY <2>1, <2>6
      <3>3. Cardinality(h[n]) # Cardinality(h[n + 1]) /\ Cardinality(h[n]) <= Cardinality(h[n + 1])
        <4>1. IsFiniteSet(h[n + 1]) /\ h[n] \in SUBSET h[n + 1]
          BY <1>3, <2>4
        <4> QED
          BY <3>1, <4>1, FS_Subset, Zenon
      <3>4. Cardinality(h[n]) \in Nat /\ Cardinality(h[n + 1]) \in Nat
        BY <1>3, <2>4
      <3>5. Cardinality(h[n + 1]) >= n + 1
        BY <2>2, <3>2, <3>3, <3>4
      <3> QED
        BY <2>2, <2>4, <3>5
    <2> QED
      BY <2>5, <2>6
  <1>6. K \in T
    <2> HIDE DEF T
    <2>1. \A n \in 0 .. K : n \in T
      BY <1>2, <1>4, <1>5, SetInduction
    <2> QED
      BY <1>2, <2>1
  <1>7. h[K] \in SUBSET Cells /\ roots \subseteq h[K]
    BY <1>1, <1>6
  <1>8. ClosedUnder(edges, h[K])
    <2>1. CASE Cardinality(h[K]) >= K
      <3>1. Cardinality(h[K]) = Cardinality(Cells)
        BY <1>2, <1>3, <1>7, <2>1
      <3>2. h[K] = Cells
        BY <1>2, <1>7, <3>1, FS_Subset, Zenon
      <3> QED
        BY <3>2 DEF ClosedUnder
    <2> QED
      BY <1>6, <2>1
  <1> QED
    BY <1>7, <1>8 DEF h

\* It stays in every closed set around the roots.
LEMMA SpreadWithin ==
  ASSUME NEW edges, NEW U, ClosedUnder(edges, U), NEW roots \in SUBSET U
  PROVE  Spread(roots, edges)[MaxCells] \subseteq U
  <1>1. Spread(roots, edges) \in [0 .. MaxCells -> SUBSET U]
    BY SpreadDef
  <1>2. MaxCells \in 0 .. MaxCells
    BY RegionAssumption
  <1> QED
    BY <1>1, <1>2, Zenon

-----------------------------------------------------------------------------
(***************************************************************************)
(* What holds between a region r and what is kept beside it: the kinds k,  *)
(* the blocks b, the stack s and the objects B that are doomed.            *)
(***************************************************************************)
PlainKinds == {"object", "promise", "generator"}
BlockKind(owner) == IF owner = "generator" THEN "frame" ELSE "block"

\* An object has a kind and nothing else has one.
KindsAgree(r, k) == \A c \in Cells : c \in Objects(r) <=> k[c] # "none"

\* What the program may name: an object of its own that is not doomed.
Keepable(r, k, B, c) == c \in Objects(r) /\ c \notin B /\ k[c] \in PlainKinds

\* What this sweep releases: the doomed, and the blocks they own.
Dying(b, B, o) == o \in B \/ \E p \in B : b[p] = o

\* An entry's owner and block are in use, and the block outlives its owner's
\* release only as a free cell the owner is still to be released with.
Entries(r, k, b, B) ==
  \A o \in Cells : b[o] # Nil =>
    /\ o \in Objects(r) /\ k[o] \in {"object", "generator"}
    /\ \/ b[o] \in Objects(r) /\ k[b[o]] = BlockKind(k[o]) /\ (o \in B \/ b[o] \notin B)
       \/ b[o] \in FreeCells(r) /\ o \in B
OneOwner(b) == \A o, p \in Cells : b[o] # Nil /\ b[o] = b[p] => o = p

\* An overflow has an owner, and every word of it was written.
BlocksHeld(r, k, b, B) ==
  \A x \in Objects(r) : k[x] = "block" =>
    /\ x \in B \/ \E o \in Cells : b[o] = x
    /\ Body(r, x) \cap r.stale = {}

\* The stack, and what lives on, name only what may be named.
RootsKept(r, k, s, B) == \A c \in s : Keepable(r, k, B, c)
FieldsKept(r, k, b, B) ==
  \A o \in Objects(r) : ~Dying(b, B, o) =>
    \A d \in Body(r, o) : d \in r.stale \/ r.field[d] = Nil \/ Keepable(r, k, B, r.field[d])

BesideTypes(k, b, s) ==
  k \in [Cells -> Kinds \cup {"none"}] /\ b \in [Cells -> Cells \cup {Nil}] /\ s \in SUBSET Cells
Kept(r, k, b, s, B) ==
  /\ r \in RegionType /\ Sound(r) /\ BesideTypes(k, b, s)
  /\ KindsAgree(r, k) /\ Entries(r, k, b, B) /\ OneOwner(b) /\ BlocksHeld(r, k, b, B)
  /\ RootsKept(r, k, s, B) /\ FieldsKept(r, k, b, B)

-----------------------------------------------------------------------------
(***************************************************************************)
(* A region that changed in nothing the tables see.                        *)
(***************************************************************************)
Alike(r, q) ==
  /\ q \in RegionType /\ Sound(q)
  /\ Objects(q) = Objects(r) /\ FreeCells(q) = FreeCells(r)
  /\ q.field = r.field /\ q.stale = r.stale /\ \A o : Body(q, o) = Body(r, o)

\* All of it stays.
LEMMA AlikeKept ==
  ASSUME NEW r, NEW q, NEW k, NEW b, NEW s, NEW B, Kept(r, k, b, s, B), Alike(r, q)
  PROVE  Kept(q, k, b, s, B)
  <1>1. KindsAgree(q, k) /\ RootsKept(q, k, s, B) /\ Entries(q, k, b, B)
    BY DEF Kept, Alike, KindsAgree, RootsKept, Keepable, Entries
  <1>2. BlocksHeld(q, k, b, B)
    BY DEF Kept, Alike, BlocksHeld
  <1>3. FieldsKept(q, k, b, B)
    BY DEF Kept, Alike, FieldsKept, Keepable
  <1> QED
    BY <1>1, <1>2, <1>3 DEF Kept, Alike

\* The structures rebuilt are such a change.
LEMMA CellsAlike ==
  ASSUME NEW r \in RegionType, NEW q \in RegionType, Sound(q), SameCells(r, q)
  PROVE  Alike(r, q)
  BY Same DEF Alike, SameCells

\* So is a bound raised.
LEMMA GrowAlike ==
  ASSUME NEW r \in RegionType, Sound(r)
  PROVE  Alike(r, Grow(r))
  BY GrowIs DEF Alike, Grew

\* One such change after another is one.
LEMMA AlikeTwice ==
  ASSUME NEW r, NEW q, NEW t, Alike(r, q), Alike(q, t)
  PROVE  Alike(r, t)
  BY DEF Alike

-----------------------------------------------------------------------------
(***************************************************************************)
(* A mark decides who is doomed.                                           *)
(***************************************************************************)
\* Whatever a set closed under the edges leaves out may be doomed: nothing it
\* keeps names it.
LEMMA DoomKept ==
  ASSUME NEW r, NEW k, NEW b, NEW s, Kept(r, k, b, s, {}),
         NEW m, s \subseteq m,
         \A o \in m \cap Objects(r) : \A d \in Body(r, o) : r.field[d] = Nil \/ r.field[d] \in m,
         \A o \in m \cap Objects(r) : b[o] = Nil \/ b[o] \in m
  PROVE  Kept(r, k, b, s, Objects(r) \ m)
  <1> DEFINE B == Objects(r) \ m
  <1>1. Entries(r, k, b, B)
    BY DEF Kept, Entries
  <1>2. BlocksHeld(r, k, b, B)
    BY DEF Kept, BlocksHeld
  <1>3. RootsKept(r, k, s, B)
    BY DEF Kept, RootsKept, Keepable
  <1>4. FieldsKept(r, k, b, B)
    <2> SUFFICES ASSUME NEW o \in Objects(r), ~Dying(b, B, o), NEW d \in Body(r, o)
                 PROVE  d \in r.stale \/ r.field[d] = Nil \/ Keepable(r, k, B, r.field[d])
      BY DEF FieldsKept
    <2>1. o \in m
      BY DEF Dying
    <2>2. ~Dying(b, {}, o)
      BY DEF Dying
    <2>3. d \in r.stale \/ r.field[d] = Nil \/ Keepable(r, k, {}, r.field[d])
      BY <2>2 DEF Kept, FieldsKept
    <2>4. r.field[d] = Nil \/ r.field[d] \in m
      BY <2>1
    <2> QED
      BY <2>3, <2>4 DEF Keepable
  <1> QED
    BY <1>1, <1>2, <1>3, <1>4 DEF Kept
-----------------------------------------------------------------------------
(***************************************************************************)
(* Objects given back.                                                     *)
(***************************************************************************)
\* The objects of G are free cells, and the others are as they were.
Shrunk(r, q, G) ==
  /\ q \in RegionType /\ Sound(q)
  /\ Objects(q) = Objects(r) \ G
  /\ FreeCells(r) \subseteq FreeCells(q) /\ G \cap Objects(r) \subseteq FreeCells(q)
  /\ q.field = r.field
  /\ \A o \in Objects(q) : Body(q, o) = Body(r, o) /\ \A d \in Body(q, o) : d \in q.stale <=> d \in r.stale

\* Giving back an object, or a cell that is free already.
LEMMA FreeShrinks ==
  ASSUME NEW r \in RegionType, Sound(r), NEW c \in Objects(r) \cup FreeCells(r)
  PROVE  Shrunk(r, Free(r, c), {c})
  <1>1. Layout(r) /\ Headed(r)
    BY DEF Sound, Layout
  <1>2. CASE c \in Objects(r)
    <2>1. PICK q : q = Free(r, c)
      OBVIOUS
    <2>2. q \in RegionType /\ Sound(q) /\ Freed(r, q, c)
      BY <1>2, <2>1, FreeIs DEF FreedWell
    <2>3. /\ Objects(q) = Objects(r) \ {c}
          /\ FreeCells(q) = FreeCells(r) \cup Body(r, c)
          /\ \A o \in Objects(q) : Body(q, o) = Body(r, o)
      BY <1>1, <2>2, Frees
    <2>4. c \in Body(r, c)
      BY <1>1, <1>2, BodyOf
    <2>5. /\ \A d \in Cells : q.field[d] = r.field[d]
          /\ \A d \in Cells : d \in q.stale <=> d \in r.stale /\ d \notin Body(r, c)
      BY <2>2 DEF Freed
    <2>6. q.field = r.field
      <3>1. q.field \in [Cells -> Cells \cup {Nil}] /\ r.field \in [Cells -> Cells \cup {Nil}]
        BY <2>2 DEF RegionType
      <3> QED
        BY <2>5, <3>1
    <2>7. ASSUME NEW o \in Objects(q), NEW d \in Body(q, o) PROVE d \in q.stale <=> d \in r.stale
      <3>1. o \in Objects(r) /\ o # c /\ d \in Body(r, o)
        BY <2>3
      <3>2. d \in Cells
        BY <1>1, <3>1, BodyOf
      <3>3. d \notin Body(r, c)
        BY <1>1, <1>2, <3>1, BodiesApart
      <3> QED
        BY <2>5, <3>2, <3>3
    <2> QED
      BY <2>1, <2>2, <2>3, <2>4, <2>6, <2>7 DEF Shrunk
  <1>3. CASE c \notin Objects(r)
    <2>1. c \in FreeCells(r) /\ Free(r, c) = r
      BY <1>3, FreeAgain DEF FreeCells
    <2> QED
      BY <1>3, <2>1 DEF Shrunk
  <1> QED
    BY <1>2, <1>3

\* One after the other.
LEMMA ShrunkTwice ==
  ASSUME NEW r, NEW q, NEW t, NEW G, NEW H, Shrunk(r, q, G), Shrunk(q, t, H)
  PROVE  Shrunk(r, t, G \cup H)
  <1>1. Objects(t) = Objects(r) \ (G \cup H)
    BY DEF Shrunk
  <1>2. (G \cup H) \cap Objects(r) \subseteq FreeCells(t)
    BY DEF Shrunk
  <1>3. ASSUME NEW o \in Objects(t)
        PROVE  Body(t, o) = Body(r, o) /\ \A d \in Body(t, o) : d \in t.stale <=> d \in r.stale
    <2>1. o \in Objects(q)
      BY DEF Shrunk
    <2> QED
      BY <2>1 DEF Shrunk
  <1> QED
    BY <1>1, <1>2, <1>3 DEF Shrunk

\* An object and its block, as a sweep releases them.
Going(b, c) == {c} \cup IF b[c] = Nil THEN {} ELSE {b[c]}

\* That is what Release gives back, whether or not there is a block.
LEMMA BuriedShrinks ==
  ASSUME NEW r, NEW k, NEW b, NEW s, NEW B, Kept(r, k, b, s, B),
         NEW c \in Cells, c \in Objects(r) \cup FreeCells(r)
  PROVE  Shrunk(r, Free(IF b[c] = Nil THEN r ELSE Free(r, b[c]), c), Going(b, c))
  <1>1. r \in RegionType /\ Sound(r) /\ Entries(r, k, b, B) /\ BesideTypes(k, b, s)
    BY DEF Kept
  <1>2. CASE b[c] = Nil
    BY <1>1, <1>2, FreeShrinks DEF Going
  <1>3. CASE b[c] # Nil
    <2>1. PICK q : q = Free(r, b[c])
      OBVIOUS
    <2>2. b[c] \in Objects(r) \cup FreeCells(r)
      BY <1>1, <1>3 DEF Entries
    <2>3. Shrunk(r, q, {b[c]})
      BY <1>1, <2>1, <2>2, FreeShrinks
    <2>4. q \in RegionType /\ Sound(q) /\ c \in Objects(q) \cup FreeCells(q)
      BY <2>3 DEF Shrunk
    <2>5. Shrunk(q, Free(q, c), {c})
      BY <2>4, FreeShrinks
    <2>6. Shrunk(r, Free(q, c), {b[c]} \cup {c})
      BY <2>3, <2>5, ShrunkTwice
    <2>7. {b[c]} \cup {c} = Going(b, c)
      BY <1>3 DEF Going
    <2> QED
      BY <1>3, <2>1, <2>6, <2>7
  <1> QED
    BY <1>2, <1>3

\* The kinds after a region changed: an object that went has none.
KindsOf(q, k) == [d \in Cells |-> IF d \in Objects(q) THEN k[d] ELSE "none"]

\* A free cell is no object.
LEMMA FreeNotObject ==
  ASSUME NEW r, NEW c \in FreeCells(r)
  PROVE  c \notin Objects(r)
  BY DEF FreeCells, Objects, IsFreeCell

\* What may be named is not released.
LEMMA GoingNotNamed ==
  ASSUME NEW r, NEW k, NEW b, NEW s, NEW B, Kept(r, k, b, s, B), NEW c \in B, B \subseteq Cells,
         NEW x, x \in Objects(r), k[x] \in PlainKinds, x # c
  PROVE  x \notin Going(b, c)
  <1>1. CASE b[c] = Nil
    BY <1>1 DEF Going
  <1>2. CASE b[c] # Nil
    <2>1. b[c] \in Objects(r) => k[b[c]] = BlockKind(k[c])
      BY <1>2, FreeNotObject DEF Kept, Entries
    <2>2. BlockKind(k[c]) \notin PlainKinds
      BY DEF BlockKind, PlainKinds
    <2> QED
      BY <1>2, <2>1, <2>2 DEF Going
  <1> QED
    BY <1>1, <1>2

\* One of the doomed released, with its block.
LEMMA ReleaseKept ==
  ASSUME NEW r, NEW k, NEW b, NEW s, NEW B, Kept(r, k, b, s, B), NEW c \in B, B \subseteq Cells,
         NEW q, Shrunk(r, q, Going(b, c))
  PROVE  Kept(q, KindsOf(q, k), [b EXCEPT ![c] = Nil], s, B \ {c})
  <1> DEFINE k2 == KindsOf(q, k)
             b2 == [b EXCEPT ![c] = Nil]
             B2 == B \ {c}
             G == Going(b, c)
  <1>1. /\ q \in RegionType /\ Sound(q) /\ Objects(q) = Objects(r) \ G
        /\ FreeCells(r) \subseteq FreeCells(q) /\ G \cap Objects(r) \subseteq FreeCells(q)
        /\ q.field = r.field
        /\ \A o \in Objects(q) : Body(q, o) = Body(r, o) /\ \A d \in Body(q, o) : d \in q.stale <=> d \in r.stale
    BY DEF Shrunk
  <1>2. /\ BesideTypes(k, b, s) /\ KindsAgree(r, k) /\ Entries(r, k, b, B) /\ OneOwner(b)
        /\ BlocksHeld(r, k, b, B) /\ RootsKept(r, k, s, B) /\ FieldsKept(r, k, b, B)
    BY DEF Kept
  <1>3. \A o \in Cells : b2[o] = IF o = c THEN Nil ELSE b[o]
    BY <1>2 DEF BesideTypes
  <1>4. b2 \in [Cells -> Cells \cup {Nil}]
    BY <1>2 DEF BesideTypes
  <1>5. \A d \in Cells : k2[d] = IF d \in Objects(q) THEN k[d] ELSE "none"
    BY DEF KindsOf
  <1>6. k2 \in [Cells -> Kinds \cup {"none"}]
    BY <1>2 DEF KindsOf, BesideTypes
  <1>7. c \in G /\ \A x \in G : x = c \/ (b[c] # Nil /\ x = b[c])
    BY DEF Going
  <1>7a. b[c] # Nil => b[c] \in G
    BY DEF Going
  <1>8. Objects(q) \subseteq Cells /\ Objects(r) \subseteq Cells
    BY <1>1, Parts DEF Kept, Objects
  <1> HIDE DEF k2, b2, G
  <1>9. KindsAgree(q, k2)
    BY <1>1, <1>2, <1>5, <1>8 DEF KindsAgree
  <1>10. OneOwner(b2)
    BY <1>2, <1>3 DEF OneOwner
  <1>11. Entries(q, k2, b2, B2)
    <2> SUFFICES ASSUME NEW o \in Cells, b2[o] # Nil
                 PROVE  /\ o \in Objects(q) /\ k2[o] \in {"object", "generator"}
                        /\ \/ b2[o] \in Objects(q) /\ k2[b2[o]] = BlockKind(k2[o]) /\ (o \in B2 \/ b2[o] \notin B2)
                           \/ b2[o] \in FreeCells(q) /\ o \in B2
      BY DEF Entries
    <2>1. o # c /\ b[o] = b2[o] /\ b[o] # Nil /\ b[o] \in Cells
      BY <1>2, <1>3 DEF BesideTypes
    <2>2. o \in Objects(r) /\ k[o] \in {"object", "generator"}
      BY <1>2, <2>1 DEF Entries
    <2>3. o \in Objects(q) /\ k2[o] = k[o]
      <3>1. b[c] # Nil => b[c] # o
        <4> SUFFICES ASSUME b[c] # Nil, b[c] = o PROVE FALSE
          OBVIOUS
        <4>1. k[b[c]] = BlockKind(k[c])
          BY <1>2, <2>2, FreeNotObject DEF Entries
        <4> QED
          BY <2>2, <4>1 DEF BlockKind
      <3> QED
        BY <1>1, <1>5, <1>7, <2>1, <2>2, <3>1
    <2>4. CASE b[o] \in Objects(r) /\ k[b[o]] = BlockKind(k[o]) /\ (o \in B \/ b[o] \notin B)
      <3>1. b[c] # Nil => b[c] # b[o]
        BY <1>2, <2>1 DEF OneOwner
      <3>2. CASE b[o] = c
        BY <1>1, <1>7, <2>1, <2>2, <2>3, <2>4, <3>2
      <3>3. CASE b[o] # c
        <4>1. b[o] \in Objects(q)
          BY <1>1, <1>7, <2>4, <3>1, <3>3
        <4> QED
          BY <1>5, <2>1, <2>2, <2>3, <2>4, <4>1
      <3> QED
        BY <3>2, <3>3
    <2>5. CASE b[o] \in FreeCells(r) /\ o \in B
      BY <1>1, <2>1, <2>2, <2>3, <2>5
    <2> QED
      BY <1>2, <2>1, <2>4, <2>5 DEF Entries
  <1>12. BlocksHeld(q, k2, b2, B2)
    <2> SUFFICES ASSUME NEW x \in Objects(q), k2[x] = "block"
                 PROVE  (x \in B2 \/ \E o \in Cells : b2[o] = x) /\ Body(q, x) \cap q.stale = {}
      BY DEF BlocksHeld
    <2>1. x \in Objects(r) /\ k[x] = "block" /\ x # c /\ x \in Cells
      BY <1>1, <1>5, <1>7, <1>8
    <2>2. x \in B \/ \E o \in Cells : b[o] = x
      BY <1>2, <2>1 DEF BlocksHeld
    <2>3. Body(r, x) \cap r.stale = {}
      BY <1>2, <2>1 DEF BlocksHeld
    <2>4. Body(q, x) \cap q.stale = {}
      BY <1>1, <2>3
    <2>5. \A o \in Cells : b[o] = x => b2[o] = x
      <3>1. x # Nil
        BY <2>1, Parts DEF Nil, Cells
      <3>2. b[c] # x
        BY <1>1, <1>7a, <3>1
      <3> QED
        BY <1>3, <3>2
    <2> QED
      BY <2>1, <2>2, <2>4, <2>5
  <1>13. ASSUME NEW x, Keepable(r, k, B, x) PROVE Keepable(q, k2, B2, x)
    <2>1. x \in Objects(r) /\ x \notin B /\ k[x] \in PlainKinds /\ x # c
      BY <1>13 DEF Keepable
    <2>2. x \notin G
      BY <2>1, GoingNotNamed DEF G
    <2> QED
      BY <1>1, <1>5, <1>8, <2>1, <2>2 DEF Keepable
  <1>14. RootsKept(q, k2, s, B2)
    BY <1>2, <1>13 DEF RootsKept
  <1>15. FieldsKept(q, k2, b2, B2)
    <2> SUFFICES ASSUME NEW o \in Objects(q), ~Dying(b2, B2, o), NEW d \in Body(q, o)
                 PROVE  d \in q.stale \/ q.field[d] = Nil \/ Keepable(q, k2, B2, q.field[d])
      BY DEF FieldsKept
    <2>1. o \in Objects(r) /\ o # c /\ (b[c] # Nil => o # b[c]) /\ o \in Cells
      BY <1>1, <1>7, <1>7a, <1>8
    <2>2. ~Dying(b, B, o)
      <3>1. o \notin B
        BY <2>1 DEF Dying
      <3>2. ASSUME NEW p \in B, b[p] = o PROVE FALSE
        <4>1. o # Nil
          BY <2>1, Parts DEF Nil, Cells
        <4>2. p # c
          BY <2>1, <3>2, <4>1
        <4>3. b2[p] = o /\ p \in B2
          BY <1>3, <3>2, <4>2
        <4> QED
          BY <4>3 DEF Dying
      <3> QED
        BY <3>1, <3>2 DEF Dying
    <2>3. d \in r.stale \/ r.field[d] = Nil \/ Keepable(r, k, B, r.field[d])
      BY <1>1, <1>2, <2>1, <2>2 DEF FieldsKept
    <2> QED
      BY <1>1, <1>13, <2>3
  <1> QED
    BY <1>1, <1>2, <1>4, <1>6, <1>9, <1>10, <1>11, <1>12, <1>14, <1>15 DEF Kept, BesideTypes, k2, b2
-----------------------------------------------------------------------------
(***************************************************************************)
(* An object more.                                                         *)
(***************************************************************************)
Gained(r, q, c) ==
  /\ q \in RegionType /\ Sound(q)
  /\ c \in Cells /\ c \notin Objects(r) /\ Objects(q) = Objects(r) \cup {c}
  /\ \A o \in Objects(r) : /\ Body(q, o) = Body(r, o)
                           /\ \A d \in Body(q, o) : q.field[d] = r.field[d] /\ (d \in q.stale <=> d \in r.stale)

\* Its fields, if they count at all, name what may be named.
FieldsGood(r, q, k, c) ==
  \A d \in Body(q, c) : d \in q.stale \/ q.field[d] = Nil \/ Keepable(r, k, {}, q.field[d])

\* What an allocation takes: a cell zeroed, or cells whose words are stale.
LEMMA TakenGains ==
  ASSUME NEW r \in RegionType, Sound(r), NEW q \in RegionType, Sound(q), NEW c, NEW n, Taken(r, q, c, n)
  PROVE  /\ Gained(r, q, c) /\ Body(q, c) = Span(c, n)
         /\ \A d \in Body(q, c) : d \in q.stale \/ q.field[d] = Nil
  <1>1. Layout(r) /\ Layout(q) /\ Headed(q)
    BY DEF Sound, Layout
  <1>2. /\ c \notin Objects(r) /\ Objects(q) = Objects(r) \cup {c}
        /\ Body(q, c) = Span(c, n)
        /\ \A o \in Objects(r) : Body(q, o) = Body(r, o)
    BY <1>1, Takes
  <1>3. /\ c \in Cells
        /\ \A d \in Cells : d \notin Span(c, n) => q.field[d] = r.field[d] /\ (d \in q.stale <=> d \in r.stale)
        /\ \A d \in Span(c, n) : q.field[d] = Nil \/ d \in q.stale
    BY DEF Taken
  <1>4. ASSUME NEW o \in Objects(r), NEW d \in Body(q, o)
        PROVE  q.field[d] = r.field[d] /\ (d \in q.stale <=> d \in r.stale)
    <2>1. o \in Objects(q) /\ c \in Objects(q) /\ o # c
      BY <1>2
    <2>2. d \in Cells
      BY <1>1, <2>1, BodyOf
    <2>3. d \notin Body(q, c)
      BY <1>1, <2>1, BodiesApart
    <2> QED
      BY <1>2, <1>3, <2>2, <2>3
  <1> QED
    BY <1>2, <1>3, <1>4 DEF Gained

\* Its own fields written.
LEMMA GainedRewrites ==
  ASSUME NEW r, NEW q, NEW c, NEW t, Gained(r, q, c), Rewritten(q, t),
         \A d \in Cells : d \notin Body(q, c) => t.field[d] = q.field[d] /\ (d \in t.stale <=> d \in q.stale)
  PROVE  Gained(r, t, c) /\ Body(t, c) = Body(q, c)
  <1>1. /\ q \in RegionType /\ Sound(q) /\ Headed(q)
        /\ c \in Cells /\ c \notin Objects(r) /\ Objects(q) = Objects(r) \cup {c}
        /\ \A o \in Objects(r) : /\ Body(q, o) = Body(r, o)
                                 /\ \A d \in Body(q, o) : q.field[d] = r.field[d] /\ (d \in q.stale <=> d \in r.stale)
    BY DEF Gained, Sound, Layout
  <1>2. SameObjects(q, t) /\ t \in RegionType
    BY <1>1, Rewrites DEF Rewritten
  <1>3. Sound(t) /\ Objects(t) = Objects(q) /\ \A o \in Objects(q) : Body(t, o) = Body(q, o)
    BY <1>2 DEF SameObjects
  <1>4. ASSUME NEW o \in Objects(r), NEW d \in Body(t, o)
        PROVE  t.field[d] = r.field[d] /\ (d \in t.stale <=> d \in r.stale)
    <2>1. o \in Objects(q) /\ c \in Objects(q) /\ o # c /\ d \in Body(q, o)
      BY <1>1, <1>3
    <2>2. d \in Cells
      BY <1>1, <2>1, BodyOf
    <2>3. d \notin Body(q, c)
      BY <1>1, <2>1, BodiesApart
    <2> QED
      BY <1>1, <2>1, <2>2, <2>3
  <1> QED
    BY <1>1, <1>2, <1>3, <1>4 DEF Gained

\* The kinds with one more, and the rest as their objects are.
KindsWith(q, k, c, new) == [d \in Cells |-> IF d = c THEN new ELSE IF d \in Objects(q) THEN k[d] ELSE "none"]

\* What holds whatever the new object is: it had no entry, nothing named it,
\* and what was kept is kept.
Stays(r, q, k, k2) == \A x : Keepable(r, k, {}, x) => Keepable(q, k2, {}, x)
Grown(r, q, k, b, s, c, k2) ==
  /\ BesideTypes(k2, b, s) /\ KindsAgree(q, k2)
  /\ b[c] = Nil /\ \A o \in Cells : b[o] # c
  /\ \A d \in Objects(r) : k2[d] = k[d] /\ d # c
  /\ Stays(r, q, k, k2)
  /\ \A b2 : FieldsKept(q, k2, b2, {})

\* All of that follows from the cells taken being no object's.
LEMMA GainsGrow ==
  ASSUME NEW r, NEW k, NEW b, NEW s, Kept(r, k, b, s, {}), NEW q, NEW c, Gained(r, q, c),
         FieldsGood(r, q, k, c), NEW new \in Kinds
  PROVE  Grown(r, q, k, b, s, c, KindsWith(q, k, c, new))
  <1> DEFINE k2 == KindsWith(q, k, c, new)
  <1>1. /\ q \in RegionType /\ Sound(q) /\ c \in Cells /\ c \notin Objects(r) /\ Objects(q) = Objects(r) \cup {c}
        /\ \A o \in Objects(r) : /\ Body(q, o) = Body(r, o)
                                 /\ \A d \in Body(q, o) : q.field[d] = r.field[d] /\ (d \in q.stale <=> d \in r.stale)
    BY DEF Gained
  <1>2. /\ r \in RegionType /\ BesideTypes(k, b, s) /\ KindsAgree(r, k) /\ Entries(r, k, b, {})
        /\ FieldsKept(r, k, b, {})
    BY DEF Kept
  <1>3. Objects(r) \subseteq Cells
    BY <1>2, Parts DEF Objects
  <1>4. \A d \in Cells : k2[d] = IF d = c THEN new ELSE IF d \in Objects(q) THEN k[d] ELSE "none"
    BY DEF KindsWith
  <1>5. k2 \in [Cells -> Kinds \cup {"none"}]
    BY <1>2 DEF KindsWith, BesideTypes
  <1> HIDE DEF k2
  <1>6. new # "none"
    BY DEF Kinds
  <1>7. KindsAgree(q, k2)
    BY <1>1, <1>2, <1>3, <1>4, <1>6 DEF KindsAgree
  <1>8. b[c] = Nil
    BY <1>1, <1>2 DEF Entries
  <1>9. ASSUME NEW o \in Cells PROVE b[o] # c
    <2>1. c # Nil
      BY <1>1, Parts, <1>2 DEF Nil, Cells
    <2> QED
      BY <1>1, <1>2, <2>1 DEF Entries
  <1>10. \A d \in Objects(r) : k2[d] = k[d] /\ d # c
    BY <1>1, <1>3, <1>4
  <1>11. \A x : Keepable(r, k, {}, x) => Keepable(q, k2, {}, x)
    BY <1>1, <1>10 DEF Keepable
  <1>12. ASSUME NEW b2 PROVE FieldsKept(q, k2, b2, {})
    <2> SUFFICES ASSUME NEW o \in Objects(q), NEW d \in Body(q, o)
                 PROVE  d \in q.stale \/ q.field[d] = Nil \/ Keepable(q, k2, {}, q.field[d])
      BY DEF FieldsKept
    <2>1. CASE o = c
      BY <1>11, <2>1 DEF FieldsGood
    <2>2. CASE o # c
      <3>1. o \in Objects(r) /\ ~Dying(b, {}, o) /\ d \in Body(r, o)
        BY <1>1, <2>2 DEF Dying
      <3>2. d \in r.stale \/ r.field[d] = Nil \/ Keepable(r, k, {}, r.field[d])
        BY <1>2, <3>1 DEF FieldsKept
      <3> QED
        BY <1>1, <1>11, <3>1, <3>2
    <2> QED
      BY <2>1, <2>2
  <1> QED
    BY <1>2, <1>5, <1>7, <1>8, <1>9, <1>10, <1>11, <1>12 DEF Grown, Stays, k2, BesideTypes

\* An object, or a promise, that the stack names.
LEMMA ObjectKept ==
  ASSUME NEW r, NEW k, NEW b, NEW s, Kept(r, k, b, s, {}), NEW q, NEW c, Gained(r, q, c),
         FieldsGood(r, q, k, c), NEW new \in {"object", "promise"}
  PROVE  Kept(q, KindsWith(q, k, c, new), b, s \cup {c}, {}) /\ Stays(r, q, k, KindsWith(q, k, c, new))
  <1> DEFINE k2 == KindsWith(q, k, c, new)
  <1>1. Grown(r, q, k, b, s, c, k2) /\ k2[c] = new
    <2>1. new \in Kinds
      BY DEF Kinds
    <2>2. Grown(r, q, k, b, s, c, k2)
      BY <2>1, GainsGrow
    <2>3. c \in Cells
      BY DEF Gained
    <2>4. k2[c] = new
      BY <2>3 DEF KindsWith
    <2> QED
      BY <2>2, <2>4
  <1> HIDE DEF k2
  <1>2. /\ q \in RegionType /\ Sound(q) /\ c \in Cells /\ Objects(q) = Objects(r) \cup {c}
        /\ \A o \in Objects(r) : Body(q, o) = Body(r, o) /\ \A d \in Body(q, o) : d \in q.stale <=> d \in r.stale
    BY DEF Gained
  <1>3. Entries(q, k2, b, {})
    BY <1>1, <1>2 DEF Grown, Kept, Entries
  <1>4. BlocksHeld(q, k2, b, {})
    <2> SUFFICES ASSUME NEW x \in Objects(q), k2[x] = "block"
                 PROVE  (\E o \in Cells : b[o] = x) /\ Body(q, x) \cap q.stale = {}
      BY DEF BlocksHeld
    <2>1. x \in Objects(r) /\ k[x] = "block"
      BY <1>1, <1>2 DEF Grown
    <2> QED
      BY <1>2, <2>1 DEF Kept, BlocksHeld
  <1>5. RootsKept(q, k2, s \cup {c}, {})
    BY <1>1, <1>2 DEF Grown, Stays, Kept, RootsKept, Keepable, PlainKinds
  <1> QED
    BY <1>1, <1>2, <1>3, <1>4, <1>5 DEF Kept, Grown, BesideTypes, k2

\* A frame nothing owns yet.
LEMMA FrameKept ==
  ASSUME NEW r, NEW k, NEW b, NEW s, Kept(r, k, b, s, {}), NEW q, NEW c, Gained(r, q, c),
         FieldsGood(r, q, k, c)
  PROVE  /\ Kept(q, KindsWith(q, k, c, "frame"), b, s, {}) /\ \A o \in Cells : b[o] # c
         /\ Stays(r, q, k, KindsWith(q, k, c, "frame"))
  <1> DEFINE k2 == KindsWith(q, k, c, "frame")
  <1>1. Grown(r, q, k, b, s, c, k2) /\ k2[c] = "frame"
    <2>1. "frame" \in Kinds
      BY DEF Kinds
    <2>2. Grown(r, q, k, b, s, c, k2)
      BY <2>1, GainsGrow
    <2>3. c \in Cells
      BY DEF Gained
    <2>4. k2[c] = "frame"
      BY <2>3 DEF KindsWith
    <2> QED
      BY <2>2, <2>4
  <1> HIDE DEF k2
  <1>2. /\ q \in RegionType /\ Sound(q) /\ c \in Cells /\ Objects(q) = Objects(r) \cup {c}
        /\ \A o \in Objects(r) : Body(q, o) = Body(r, o) /\ \A d \in Body(q, o) : d \in q.stale <=> d \in r.stale
    BY DEF Gained
  <1>3. Entries(q, k2, b, {})
    BY <1>1, <1>2 DEF Grown, Kept, Entries
  <1>4. BlocksHeld(q, k2, b, {})
    <2> SUFFICES ASSUME NEW x \in Objects(q), k2[x] = "block"
                 PROVE  (\E o \in Cells : b[o] = x) /\ Body(q, x) \cap q.stale = {}
      BY DEF BlocksHeld
    <2>1. x \in Objects(r) /\ k[x] = "block"
      BY <1>1, <1>2 DEF Grown
    <2> QED
      BY <1>2, <2>1 DEF Kept, BlocksHeld
  <1>5. RootsKept(q, k2, s, {})
    BY <1>1 DEF Grown, Stays, Kept, RootsKept
  <1> QED
    BY <1>1, <1>2, <1>3, <1>4, <1>5 DEF Kept, Grown, k2

\* A generator that takes over its frame.
LEMMA GeneratorKept ==
  ASSUME NEW r, NEW k, NEW b, NEW s, Kept(r, k, b, s, {}), NEW q, NEW c, Gained(r, q, c),
         FieldsGood(r, q, k, c), NEW f \in Objects(r), k[f] = "frame", \A o \in Cells : b[o] # f
  PROVE  /\ Kept(q, KindsWith(q, k, c, "generator"), [b EXCEPT ![c] = f], s \cup {c}, {})
         /\ Stays(r, q, k, KindsWith(q, k, c, "generator"))
  <1> DEFINE k2 == KindsWith(q, k, c, "generator")
             b2 == [b EXCEPT ![c] = f]
  <1>1. Grown(r, q, k, b, s, c, k2) /\ k2[c] = "generator"
    <2>1. "generator" \in Kinds
      BY DEF Kinds
    <2>2. Grown(r, q, k, b, s, c, k2)
      BY <2>1, GainsGrow
    <2>3. c \in Cells
      BY DEF Gained
    <2>4. k2[c] = "generator"
      BY <2>3 DEF KindsWith
    <2> QED
      BY <2>2, <2>4
  <1>2. /\ q \in RegionType /\ Sound(q) /\ c \in Cells /\ Objects(q) = Objects(r) \cup {c}
        /\ \A o \in Objects(r) : Body(q, o) = Body(r, o) /\ \A d \in Body(q, o) : d \in q.stale <=> d \in r.stale
    BY DEF Gained
  <1>3. f \in Cells
    BY Parts DEF Kept, Objects
  <1>4. b2 \in [Cells -> Cells \cup {Nil}] /\ \A o \in Cells : b2[o] = IF o = c THEN f ELSE b[o]
    BY <1>3 DEF Kept, BesideTypes
  <1> HIDE DEF k2, b2
  <1>5. Entries(q, k2, b2, {})
    <2> SUFFICES ASSUME NEW o \in Cells, b2[o] # Nil
                 PROVE  /\ o \in Objects(q) /\ k2[o] \in {"object", "generator"}
                        /\ b2[o] \in Objects(q) /\ k2[b2[o]] = BlockKind(k2[o])
      BY DEF Entries
    <2>1. CASE o = c
      BY <1>1, <1>2, <1>4, <2>1 DEF Grown, BlockKind
    <2>2. CASE o # c
      BY <1>1, <1>2, <1>4, <2>2 DEF Grown, Kept, Entries
    <2> QED
      BY <2>1, <2>2
  <1>6. OneOwner(b2)
    BY <1>4 DEF Kept, OneOwner
  <1>7. BlocksHeld(q, k2, b2, {})
    <2> SUFFICES ASSUME NEW x \in Objects(q), k2[x] = "block"
                 PROVE  (\E o \in Cells : b2[o] = x) /\ Body(q, x) \cap q.stale = {}
      BY DEF BlocksHeld
    <2>1. x \in Objects(r) /\ k[x] = "block"
      BY <1>1, <1>2 DEF Grown
    <2>2. PICK o \in Cells : b[o] = x
      BY <2>1 DEF Kept, BlocksHeld
    <2>3. x # Nil
      BY <2>1, Parts DEF Kept, Objects, Nil
    <2>4. b2[o] = x
      BY <1>1, <1>4, <2>2, <2>3 DEF Grown
    <2> QED
      BY <1>2, <2>1, <2>4 DEF Kept, BlocksHeld
  <1>8. RootsKept(q, k2, s \cup {c}, {})
    BY <1>1, <1>2 DEF Grown, Stays, Kept, RootsKept, Keepable, PlainKinds
  <1> QED
    BY <1>1, <1>2, <1>4, <1>5, <1>6, <1>7, <1>8 DEF Kept, Grown, BesideTypes, k2, b2
\* An overflow in the place of the one its owner had, which is given back.
OldBlock(b, o) == IF b[o] = Nil THEN {} ELSE {b[o]}

\* The entry follows the overflow, and no other names the old one.
LEMMA BlockKept ==
  ASSUME NEW r, NEW k, NEW b, NEW s, Kept(r, k, b, s, {}), NEW q, NEW c, Gained(r, q, c),
         FieldsGood(r, q, k, c), Body(q, c) \cap q.stale = {},
         NEW o \in s, k[o] = "object", NEW t, Shrunk(q, t, OldBlock(b, o))
  PROVE  /\ Kept(t, KindsWith(t, k, c, "block"), [b EXCEPT ![o] = c], s, {})
         /\ Stays(r, t, k, KindsWith(t, k, c, "block"))
  <1> DEFINE k1 == KindsWith(q, k, c, "block")
             k2 == KindsWith(t, k, c, "block")
             b2 == [b EXCEPT ![o] = c]
             G == OldBlock(b, o)
  <1>1. Grown(r, q, k, b, s, c, k1)
    <2>1. "block" \in Kinds
      BY DEF Kinds
    <2> QED
      BY <2>1, GainsGrow
  <1>2. /\ r \in RegionType /\ BesideTypes(k, b, s) /\ KindsAgree(r, k) /\ Entries(r, k, b, {}) /\ OneOwner(b)
        /\ BlocksHeld(r, k, b, {}) /\ RootsKept(r, k, s, {}) /\ FieldsKept(r, k, b, {})
    BY DEF Kept
  <1>3. /\ q \in RegionType /\ c \in Cells /\ c \notin Objects(r) /\ Objects(q) = Objects(r) \cup {c}
        /\ \A p \in Objects(r) : Body(q, p) = Body(r, p) /\ \A d \in Body(q, p) : d \in q.stale <=> d \in r.stale
    BY DEF Gained
  <1>4. /\ t \in RegionType /\ Sound(t) /\ Objects(t) = Objects(q) \ G
        /\ t.field = q.field
        /\ \A p \in Objects(t) : Body(t, p) = Body(q, p) /\ \A d \in Body(t, p) : d \in t.stale <=> d \in q.stale
    BY DEF Shrunk
  <1>5. o \in Objects(r) /\ o \in Cells /\ Objects(r) \subseteq Cells
    BY <1>2, Parts DEF RootsKept, Keepable, Objects
  <1>6. /\ \A x \in G : x = b[o] /\ x # Nil /\ x \in Objects(r) /\ k[x] = "block"
        /\ b[o] # Nil => b[o] \in G
    BY <1>2, <1>5 DEF OldBlock, Entries, BlockKind
  <1>7. \A d \in Cells : /\ k2[d] = IF d = c THEN "block" ELSE IF d \in Objects(t) THEN k[d] ELSE "none"
                         /\ k1[d] = IF d = c THEN "block" ELSE IF d \in Objects(q) THEN k[d] ELSE "none"
    BY DEF KindsWith
  <1>8. k2 \in [Cells -> Kinds \cup {"none"}]
    BY <1>2 DEF KindsWith, BesideTypes, Kinds
  <1>9. b2 \in [Cells -> Cells \cup {Nil}] /\ \A p \in Cells : b2[p] = IF p = o THEN c ELSE b[p]
    BY <1>2, <1>3, <1>5 DEF BesideTypes
  <1> HIDE DEF k1, k2, b2, G
  <1>10. c # Nil /\ \A x \in Cells : x # Nil
    BY <1>2, <1>3, Parts DEF Nil
  <1>11. c \in Objects(t) /\ c \notin G
    BY <1>3, <1>4, <1>6
  <1>12. KindsAgree(t, k2)
    BY <1>2, <1>3, <1>4, <1>5, <1>7, <1>11 DEF KindsAgree
  <1>13. ASSUME NEW x, Keepable(r, k, {}, x) PROVE Keepable(t, k2, {}, x)
    <2>1. x \in Objects(r) /\ k[x] \in PlainKinds /\ x # c /\ x \in Cells
      BY <1>3, <1>5, <1>13 DEF Keepable
    <2>2. x \notin G
      BY <1>6, <2>1 DEF PlainKinds
    <2> QED
      BY <1>3, <1>4, <1>7, <2>1, <2>2 DEF Keepable
  <1>14. RootsKept(t, k2, s, {})
    BY <1>2, <1>13 DEF RootsKept
  <1>15. ASSUME NEW p \in Cells, b[p] # Nil, p # o
         PROVE  /\ p \in Objects(t) /\ k2[p] = k[p] /\ k[p] \in {"object", "generator"}
                /\ b[p] \in Objects(t) /\ k2[b[p]] = BlockKind(k2[p])
    <2>1. p \in Objects(r) /\ k[p] \in {"object", "generator"} /\ b[p] \in Objects(r) /\ k[b[p]] = BlockKind(k[p])
      BY <1>2, <1>15 DEF Entries
    <2>2. p \notin G
      BY <1>6, <2>1
    <2>3. b[p] \notin G
      BY <1>2, <1>5, <1>6, <1>15 DEF OneOwner
    <2>4. p \in Objects(t) /\ b[p] \in Objects(t)
      BY <1>3, <1>4, <2>1, <2>2, <2>3
    <2>5. p # c /\ b[p] # c /\ b[p] \in Cells
      BY <1>3, <1>5, <2>1
    <2> QED
      BY <1>7, <2>1, <2>4, <2>5
  <1>16. o \in Objects(t) /\ k2[o] = "object"
    <2>1. o \notin G
      BY <1>6
    <2> QED
      BY <1>3, <1>4, <1>5, <1>7, <2>1
  <1>17. k2[c] = "block"
    BY <1>3, <1>7
  <1>18. Entries(t, k2, b2, {})
    <2> SUFFICES ASSUME NEW p \in Cells, b2[p] # Nil
                 PROVE  /\ p \in Objects(t) /\ k2[p] \in {"object", "generator"}
                        /\ b2[p] \in Objects(t) /\ k2[b2[p]] = BlockKind(k2[p])
      BY DEF Entries
    <2>1. CASE p = o
      BY <1>9, <1>11, <1>16, <1>17, <2>1 DEF BlockKind
    <2>2. CASE p # o
      BY <1>9, <1>15, <2>2
    <2> QED
      BY <2>1, <2>2
  <1>19. OneOwner(b2)
    BY <1>1, <1>2, <1>9 DEF OneOwner, Grown
  <1>20. BlocksHeld(t, k2, b2, {})
    <2> SUFFICES ASSUME NEW x \in Objects(t), k2[x] = "block"
                 PROVE  (\E p \in Cells : b2[p] = x) /\ Body(t, x) \cap t.stale = {}
      BY DEF BlocksHeld
    <2>1. CASE x = c
      <3>1. Body(t, x) = Body(q, c) /\ Body(q, c) \cap t.stale = {}
        BY <1>4, <2>1
      <3> QED
        BY <1>5, <1>9, <2>1, <3>1
    <2>2. CASE x # c
      <3>1. x \in Objects(r) /\ x \notin G /\ k[x] = "block"
        BY <1>3, <1>4, <1>5, <1>7, <2>2
      <3>2. PICK p \in Cells : b[p] = x
        BY <1>2, <3>1 DEF BlocksHeld
      <3>3. p # o
        BY <1>5, <1>6, <1>10, <3>1, <3>2
      <3>4. Body(r, x) \cap r.stale = {}
        BY <1>2, <3>1 DEF BlocksHeld
      <3> QED
        BY <1>3, <1>4, <1>9, <3>1, <3>2, <3>3, <3>4
    <2> QED
      BY <2>1, <2>2
  <1>21. FieldsKept(t, k2, b2, {})
    <2> SUFFICES ASSUME NEW p \in Objects(t), NEW d \in Body(t, p)
                 PROVE  d \in t.stale \/ t.field[d] = Nil \/ Keepable(t, k2, {}, t.field[d])
      BY DEF FieldsKept
    <2>1. CASE p = c
      BY <1>4, <1>13, <2>1 DEF FieldsGood
    <2>2. CASE p # c
      <3>1. p \in Objects(r) /\ ~Dying(b, {}, p) /\ d \in Body(q, p) /\ d \in Body(r, p)
        BY <1>3, <1>4, <2>2 DEF Dying
      <3>2. d \in r.stale \/ r.field[d] = Nil \/ Keepable(r, k, {}, r.field[d])
        BY <1>2, <3>1 DEF FieldsKept
      <3>3. q.field[d] = r.field[d]
        BY <3>1 DEF Gained
      <3> QED
        BY <1>3, <1>4, <1>13, <3>1, <3>2, <3>3
    <2> QED
      BY <2>1, <2>2
  <1> QED
    BY <1>2, <1>4, <1>8, <1>9, <1>12, <1>14, <1>18, <1>19, <1>20, <1>21, <1>13 DEF Kept, BesideTypes, Stays, k2, b2

-----------------------------------------------------------------------------
(***************************************************************************)
(* A field written.                                                        *)
(***************************************************************************)
\* Store: a field of an object the program names, or of that object's block,
\* now names what the program names.
LEMMA StoreKept ==
  ASSUME NEW r, NEW k, NEW b, NEW s, Kept(r, k, b, s, {}), NEW o \in Objects(r), NEW c \in Body(r, o),
         NEW v, v = Nil \/ Keepable(r, k, {}, v)
  PROVE  Kept(Write(r, c, v), k, b, s, {}) /\ Objects(Write(r, c, v)) = Objects(r)
  <1>1. PICK q : q = Write(r, c, v)
    OBVIOUS
  <1>2. r \in RegionType /\ Sound(r)
    BY DEF Kept
  <1>3. v \in Cells \cup {Nil}
    BY <1>2, Parts DEF Keepable, Objects
  <1>4. Wrote(r, q, c, v)
    BY <1>1, <1>2, <1>3, WriteIs
  <1>5. /\ q \in RegionType /\ SameObjects(r, q)
        /\ \A d \in Cells : q.field[d] = IF d = c THEN v ELSE r.field[d]
        /\ q.stale = r.stale \ {c}
    BY <1>2, <1>4, Rewrites DEF Wrote, Rewritten
  <1>6. Sound(q) /\ Objects(q) = Objects(r) /\ FreeCells(q) = FreeCells(r) /\ \A p \in Objects(r) : Body(q, p) = Body(r, p)
    BY <1>5 DEF SameObjects
  <1>7. \A x : Keepable(q, k, {}, x) <=> Keepable(r, k, {}, x)
    BY <1>6 DEF Keepable
  <1>8. BlocksHeld(q, k, b, {}) /\ Entries(q, k, b, {}) /\ KindsAgree(q, k) /\ RootsKept(q, k, s, {})
    BY <1>5, <1>6, <1>7 DEF Kept, BlocksHeld, Entries, KindsAgree, RootsKept
  <1>9. FieldsKept(q, k, b, {})
    <2> SUFFICES ASSUME NEW p \in Objects(q), NEW d \in Body(q, p)
                 PROVE  d \in q.stale \/ q.field[d] = Nil \/ Keepable(q, k, {}, q.field[d])
      BY DEF FieldsKept
    <2>1. p \in Objects(r) /\ d \in Body(r, p) /\ ~Dying(b, {}, p)
      BY <1>6 DEF Dying
    <2>2. d \in Cells
      BY <1>2, <2>1, BodyOf DEF Sound, Layout
    <2>3. d \in r.stale \/ r.field[d] = Nil \/ Keepable(r, k, {}, r.field[d])
      BY <2>1 DEF Kept, FieldsKept
    <2> QED
      BY <1>5, <1>7, <2>2, <2>3
  <1> QED
    BY <1>1, <1>5, <1>6, <1>8, <1>9 DEF Kept
-----------------------------------------------------------------------------
(***************************************************************************)
(* The invariant.                                                          *)
(***************************************************************************)
OtherTypes ==
  /\ watch \in [Watches -> [state : {"idle", "watching", "cleared"}, cell : Cells \cup {Nil}]]
  /\ death \in [Deaths -> [state : {"idle", "waiting", "dying", "told"}, cell : Cells \cup {Nil}]]
  /\ ofCell \subseteq Cells
  /\ pc \in {"run", "ask", "sweep", "retry", "exhausted"}
  /\ marks \subseteq Cells /\ doomed \in Seq(Cells) /\ freed \in 0 .. MaxCells

\* A frame between its allocation and its generator's: rooted by the request.
FrameWaits(r, k, b, B, o) ==
  o \in Objects(r) /\ k[o] = "frame" /\ o \notin B /\ \A p \in Cells : b[p] # o

\* What is asked for, and that the objects it is for are kept until then.
Fits(rq, r, k, b, s, B) ==
  \/ rq = NoRequest
  \/ rq = Asking("object", 1, Nil, Nil)
  \/ rq = Asking("promise", 1, Nil, Nil)
  \/ \E n \in WideCells : rq = Asking("wide", n, Nil, Nil)
  \/ \E n \in FrameCells : \E v \in s \cup {Nil} : rq = Asking("frame", n, Nil, v)
  \/ \E n \in BlockCells : \E o \in s : \E v \in s : rq = Asking("block", n, o, v) /\ k[o] = "object"
  \/ \E o \in Objects(r) : rq = Asking("generator", 1, o, Nil) /\ FrameWaits(r, k, b, B, o)

\* A request is under way outside the program's own steps, and a sweep is the
\* only time something is doomed.  What is doomed is in use, or went with the
\* owner it was the block of.
Phase ==
  /\ pc = "run" => request = NoRequest
  /\ pc \in {"ask", "retry", "exhausted"} => request # NoRequest
  /\ pc # "sweep" => doomed = <<>>
  /\ OnceListed(doomed)
  /\ Buried \subseteq Objects(heap) \cup FreeCells(heap)

\* Watches and registrations name objects of the program in use.
Living(r, k, c) == c \in Objects(r) /\ k[c] \in PlainKinds
Answers(r, k, w, d) ==
  /\ \A x \in Watches : w[x].state = "watching" => Living(r, k, w[x].cell)
  /\ \A x \in Deaths : d[x].state = "waiting" => Living(r, k, d[x].cell)

Spent == pc = "exhausted" => heap.limit = heap.reserved /\ NoRoom(heap, request.size)

IInv ==
  /\ Kept(heap, kind, beside, stack, Buried)
  /\ OtherTypes /\ Fits(request, heap, kind, beside, stack, Buried)
  /\ Phase /\ Answers(heap, kind, watch, death) /\ Spent

\* What each kind of request says.
Fitting(rq, r, k, b, s, B) ==
  /\ rq.what \in {"none", "object", "promise", "wide", "frame", "block", "generator"}
  /\ rq.what = "none" <=> rq = NoRequest
  /\ rq # NoRequest => rq.size \in Nat /\ rq.size >= 1
  /\ rq.what \in OneCell => rq.size = 1
  /\ rq.what = "frame" => rq.value \in s \cup {Nil}
  /\ rq.what = "block" => rq.owner \in s /\ rq.value \in s /\ k[rq.owner] = "object"
  /\ rq.what = "generator" => FrameWaits(r, k, b, B, rq.owner)

\* A request that fits says so.
LEMMA FitsWhat ==
  ASSUME NEW rq, NEW r, NEW k, NEW b, NEW s, NEW B, Fits(rq, r, k, b, s, B)
  PROVE  Fitting(rq, r, k, b, s, B)
  <1>1. CASE rq = NoRequest
    BY <1>1 DEF Fitting, NoRequest, OneCell
  <1>2. CASE rq = Asking("object", 1, Nil, Nil)
    BY <1>2 DEF Fitting, NoRequest, OneCell, Asking
  <1>3. CASE rq = Asking("promise", 1, Nil, Nil)
    BY <1>3 DEF Fitting, NoRequest, OneCell, Asking
  <1>4. CASE \E n \in WideCells : rq = Asking("wide", n, Nil, Nil)
    BY <1>4, WidthAssumption DEF Fitting, NoRequest, OneCell, Asking
  <1>5. CASE \E n \in FrameCells : \E v \in s \cup {Nil} : rq = Asking("frame", n, Nil, v)
    BY <1>5, WidthAssumption DEF Fitting, NoRequest, OneCell, Asking
  <1>6. CASE \E n \in BlockCells : \E o \in s : \E v \in s : rq = Asking("block", n, o, v) /\ k[o] = "object"
    BY <1>6, WidthAssumption DEF Fitting, NoRequest, OneCell, Asking
  <1>7. CASE \E o \in Objects(r) : rq = Asking("generator", 1, o, Nil) /\ FrameWaits(r, k, b, B, o)
    BY <1>7 DEF Fitting, NoRequest, OneCell, Asking
  <1> QED
    BY <1>1, <1>2, <1>3, <1>4, <1>5, <1>6, <1>7 DEF Fits

\* In a region that is alike, what was asked for still fits.
LEMMA AlikeFits ==
  ASSUME NEW rq, NEW r, NEW q, NEW k, NEW b, NEW s, NEW B, Fits(rq, r, k, b, s, B), Alike(r, q)
  PROVE  Fits(rq, q, k, b, s, B)
  <1>1. Objects(q) = Objects(r)
    BY DEF Alike
  <1> QED
    BY <1>1 DEF Fits, FrameWaits

\* And what answered still answers.
LEMMA AlikeAnswers ==
  ASSUME NEW r, NEW q, NEW k, NEW w, NEW d, Answers(r, k, w, d), Alike(r, q)
  PROVE  Answers(q, k, w, d)
  BY DEF Answers, Living, Alike

\* Where nothing is doomed.
LEMMA NoneBuried ==
  ASSUME IInv, pc # "sweep"
  PROVE  Buried = {} /\ doomed = <<>>
  BY DEF IInv, Phase, Buried

-----------------------------------------------------------------------------
(***************************************************************************)
(* A collection begins.                                                    *)
(***************************************************************************)
\* What is marked is closed: it has the roots, and with an object what its
\* fields and its entry name.
LEMMA MarkedIs ==
  ASSUME Kept(heap, kind, beside, stack, {}), NEW roots \in SUBSET Cells
  PROVE  /\ Marked(roots) \in SUBSET Cells /\ roots \subseteq Marked(roots)
         /\ \A o \in Marked(roots) \cap Objects(heap) :
              /\ \A d \in Body(heap, o) : heap.field[d] = Nil \/ heap.field[d] \in Marked(roots)
              /\ beside[o] = Nil \/ beside[o] \in Marked(roots)
  <1> DEFINE edges == [c \in Cells |-> Edges(c)]
             m == Marked(roots)
  <1>1. heap \in RegionType /\ Headed(heap) /\ BesideTypes(kind, beside, stack)
    BY DEF Kept, Sound, Layout
  <1>2. ASSUME NEW c \in Cells PROVE Edges(c) \in SUBSET Cells
    <2>1. CASE c \notin Objects(heap)
      BY <2>1 DEF Edges
    <2>2. CASE c \in Objects(heap)
      <3>1. Body(heap, c) \subseteq Cells
        BY <1>1, <2>2, BodyOf
      <3>2. \A d \in Body(heap, c) : heap.field[d] \in Cells \cup {Nil}
        BY <1>1, <3>1, Parts
      <3>3. beside[c] \in Cells \cup {Nil}
        BY <1>1 DEF BesideTypes
      <3> QED
        BY <2>2, <3>2, <3>3 DEF Edges
    <2> QED
      BY <2>1, <2>2
  <1>3. edges \in [Cells -> SUBSET Cells]
    BY <1>2
  <1>4. m = Spread(roots, edges)[MaxCells]
    BY DEF Marked
  <1> HIDE DEF edges, m
  <1>5. m \in SUBSET Cells /\ roots \subseteq m /\ ClosedUnder(edges, m)
    BY <1>3, <1>4, SpreadCloses
  <1>6. ASSUME NEW o \in m \cap Objects(heap)
        PROVE  /\ \A d \in Body(heap, o) : heap.field[d] = Nil \/ heap.field[d] \in m
               /\ beside[o] = Nil \/ beside[o] \in m
    <2>1. Edges(o) \subseteq m
      BY <1>5 DEF ClosedUnder, edges
    <2> QED
      BY <2>1 DEF Edges
  <1> QED
    BY <1>5, <1>6 DEF m

\* The list of the doomed names each of them once.
LEMMA DoomedAre ==
  ASSUME NEW S \in SUBSET Cells
  PROVE  /\ Ascending(S) \in Seq(Cells) /\ OnceListed(Ascending(S))
         /\ {Ascending(S)[i] : i \in 1 .. Len(Ascending(S))} = S
         /\ Len(Ascending(S)) \in 0 .. MaxCells
  <1>1. IsFiniteSet(Cells) /\ Cardinality(Cells) = MaxCells /\ MaxCells \in Nat
    <2>1. MaxCells \in Nat /\ MaxCells >= 1 /\ Cells = 0 .. MaxCells - 1 /\ 0 \in Int /\ MaxCells - 1 \in Int
      BY RegionAssumption DEF Cells
    <2>2. IsFiniteSet(0 .. MaxCells - 1) /\ Cardinality(0 .. MaxCells - 1) = IF 0 > MaxCells - 1 THEN 0 ELSE (MaxCells - 1) - 0 + 1
      BY <2>1, FS_Interval, Zenon
    <2> QED
      BY <2>1, <2>2
  <1>2. IsFiniteSet(S) /\ Cardinality(S) <= MaxCells
    BY <1>1, FS_Subset, Zenon
  <1>3. S \in SUBSET Nat
    BY <1>1 DEF Cells
  <1>4. Cardinality(S) \in Nat
    BY <1>2, FS_CardinalityType
  <1>5. Enumerates(Ascending(S), S) /\ Len(Ascending(S)) = Cardinality(S)
    BY <1>2, <1>3, InOrder
  <1> QED
    BY <1>1, <1>2, <1>4, <1>5 DEF Enumerates, OnceListed
\* A collection keeps the invariant.
LEMMA CollectKeeps ==
  ASSUME IInv, pc \in {"run", "ask"}, NEW junk \in SUBSET Cells, Collect(junk),
         Alike(heap, heap'), UNCHANGED <<kind, stack, tables, request>>
  PROVE  IInv'
  <1> DEFINE m == Marked(Rooted \cup junk)
             B == Objects(heap) \ m
  <1>1. Buried = {} /\ Kept(heap, kind, beside, stack, {}) /\ Fits(request, heap, kind, beside, stack, {})
    BY NoneBuried DEF IInv
  <1>2. Fitting(request, heap, kind, beside, stack, {})
    BY <1>1, FitsWhat
  <1>3. Objects(heap) \subseteq Cells /\ stack \subseteq Cells
    BY <1>1, Parts DEF Kept, BesideTypes, Objects
  <1>4. Rooted \cup junk \in SUBSET Cells
    BY <1>2, <1>3 DEF Rooted, Fitting, FrameWaits
  <1>5. /\ m \in SUBSET Cells /\ Rooted \cup junk \subseteq m
        /\ \A o \in m \cap Objects(heap) :
             /\ \A d \in Body(heap, o) : heap.field[d] = Nil \/ heap.field[d] \in m
             /\ beside[o] = Nil \/ beside[o] \in m
    BY <1>1, <1>4, MarkedIs
  <1>6. marks' = m /\ doomed' = Ascending(B) /\ freed' = Len(Ascending(B)) /\ pc' = "sweep"
    BY DEF Collect
  <1>7. kind' = kind /\ stack' = stack /\ beside' = beside /\ watch' = watch /\ death' = death
        /\ ofCell' = ofCell /\ request' = request
    BY DEF tables
  <1> HIDE DEF m, B
  <1>8. B \in SUBSET Cells /\ B = Objects(heap) \ m
    BY <1>3 DEF B
  <1>9. /\ Ascending(B) \in Seq(Cells) /\ OnceListed(Ascending(B))
        /\ {Ascending(B)[i] : i \in 1 .. Len(Ascending(B))} = B
        /\ Len(Ascending(B)) \in 0 .. MaxCells
    BY <1>8, DoomedAre
  <1>10. Buried' = B
    BY <1>6, <1>9 DEF Buried
  <1>11. Kept(heap, kind, beside, stack, B)
    <2>1. stack \subseteq m
      BY <1>5 DEF Rooted
    <2> QED
      BY <1>1, <1>5, <1>8, <2>1, DoomKept
  <1>12. Kept(heap', kind', beside', stack', Buried')
    BY <1>7, <1>10, <1>11, AlikeKept
  <1>13. Fits(request', heap', kind', beside', stack', Buried')
    <2>1. ASSUME NEW o, request = Asking("generator", 1, o, Nil) PROVE o \notin B
      <3>1. request.what = "generator" /\ request.owner = o
        BY <2>1 DEF Asking
      <3>2. o \in m
        BY <1>5, <3>1 DEF Rooted
      <3> QED
        BY <1>8, <3>2
    <2>2. Fits(request, heap, kind, beside, stack, B)
      BY <1>1, <2>1 DEF Fits, FrameWaits
    <2> QED
      BY <1>7, <1>10, <2>2, AlikeFits
  <1>14. OtherTypes'
    BY <1>5, <1>6, <1>7, <1>9 DEF IInv, OtherTypes
  <1>15. Phase'
    <2>1. B \subseteq Objects(heap')
      BY <1>8 DEF Alike
    <2> QED
      BY <1>6, <1>9, <1>10, <2>1 DEF Phase
  <1>16. Answers(heap', kind', watch', death')
    BY <1>7, AlikeAnswers DEF IInv
  <1>17. Spent'
    BY <1>6 DEF Spent
  <1> QED
    BY <1>12, <1>13, <1>14, <1>15, <1>16, <1>17 DEF IInv

-----------------------------------------------------------------------------
(***************************************************************************)
(* A sweep.                                                                *)
(***************************************************************************)
Names(s) == {s[i] : i \in 1 .. Len(s)}

\* The head of a list that names each member once is not in the rest.
LEMMA TailNames ==
  ASSUME NEW s \in Seq(Cells), OnceListed(s), s # <<>>
  PROVE  /\ Head(s) \in Names(s) /\ Head(s) \in Cells
         /\ Tail(s) \in Seq(Cells) /\ OnceListed(Tail(s)) /\ Names(Tail(s)) = Names(s) \ {Head(s)}
  <1>1. /\ Len(s) \in Nat /\ Len(s) >= 1 /\ Head(s) = s[1] /\ Tail(s) \in Seq(Cells)
        /\ Len(Tail(s)) = Len(s) - 1 /\ \A i \in 1 .. Len(Tail(s)) : Tail(s)[i] = s[i + 1]
    OBVIOUS
  <1>2. Head(s) \in Names(s) /\ Head(s) \in Cells
    BY <1>1 DEF Names
  <1>3. OnceListed(Tail(s))
    BY <1>1 DEF OnceListed
  <1>4. ASSUME NEW x PROVE x \in Names(Tail(s)) <=> x \in Names(s) /\ x # Head(s)
    <2>1. ASSUME NEW i \in 1 .. Len(Tail(s)), x = Tail(s)[i] PROVE x \in Names(s) /\ x # Head(s)
      <3>1. i + 1 \in 1 .. Len(s) /\ i + 1 # 1 /\ 1 \in 1 .. Len(s) /\ x = s[i + 1]
        BY <1>1, <2>1
      <3> QED
        BY <1>1, <3>1 DEF Names, OnceListed
    <2>2. ASSUME NEW i \in 1 .. Len(s), x = s[i], x # Head(s) PROVE x \in Names(Tail(s))
      <3>1. i - 1 \in 1 .. Len(Tail(s)) /\ (i - 1) + 1 = i
        BY <1>1, <2>2
      <3>2. Tail(s)[i - 1] = s[i]
        BY <1>1, <3>1
      <3> QED
        BY <2>2, <3>1, <3>2 DEF Names
    <2> QED
      BY <2>1, <2>2 DEF Names
  <1> QED
    BY <1>1, <1>2, <1>3, <1>4

\* What a release does to the region, to the kinds and to the entries.
Released(c) ==
  /\ c \in Buried /\ c \in Cells /\ Buried' = Buried \ {c}
  /\ Shrunk(heap, heap', Going(beside, c))
  /\ kind' = KindsOf(heap', kind) /\ beside' = [beside EXCEPT ![c] = Nil]
  /\ doomed' \in Seq(Cells) /\ OnceListed(doomed')
  /\ ClearWatches(c) /\ QueueDeaths(c) /\ pc = "sweep"
  /\ UNCHANGED <<stack, ofCell, pc, request, marks, freed>>

\* Release is that, of the head of the list.
LEMMA ReleaseIs ==
  ASSUME IInv, Release
  PROVE  \E c : Released(c)
  <1> DEFINE c == Head(doomed)
  <1>1. /\ Kept(heap, kind, beside, stack, Buried) /\ doomed \in Seq(Cells) /\ OnceListed(doomed)
        /\ Buried \subseteq Objects(heap) \cup FreeCells(heap)
    BY DEF IInv, OtherTypes, Phase
  <1>2. /\ pc = "sweep" /\ doomed # <<>> /\ doomed' = Tail(doomed)
        /\ ClearWatches(c) /\ QueueDeaths(c)
        /\ beside' = [beside EXCEPT ![c] = Nil]
        /\ heap' = Free(Bury(c), c)
        /\ kind' = KindsOf(heap', kind)
        /\ UNCHANGED <<stack, ofCell, pc, request, marks, freed>>
    BY DEF Release, KindsOf
  <1>3. /\ c \in Names(doomed) /\ c \in Cells
        /\ doomed' \in Seq(Cells) /\ OnceListed(doomed') /\ Names(doomed') = Names(doomed) \ {c}
    BY <1>1, <1>2, TailNames
  <1> HIDE DEF c
  <1>4. c \in Buried /\ Buried' = Buried \ {c}
    BY <1>3 DEF Buried, Names
  <1>5. Shrunk(heap, heap', Going(beside, c))
    <2>1. Bury(c) = IF beside[c] = Nil THEN heap ELSE Free(heap, beside[c])
      BY DEF Bury
    <2>2. c \in Objects(heap) \cup FreeCells(heap)
      BY <1>1, <1>4
    <2>3. Shrunk(heap, Free(IF beside[c] = Nil THEN heap ELSE Free(heap, beside[c]), c), Going(beside, c))
      BY <1>1, <1>3, <2>2, BuriedShrinks
    <2> QED
      BY <1>2, <2>1, <2>3
  <1> QED
    BY <1>2, <1>3, <1>4, <1>5 DEF Released

\* A living object is released only as the one the step is about.
LEMMA LivingStays ==
  ASSUME NEW r, NEW k, NEW b, NEW s, NEW B, Kept(r, k, b, s, B), NEW c \in B, B \subseteq Cells,
         NEW q, Shrunk(r, q, Going(b, c)), NEW x, Living(r, k, x)
  PROVE  x \in Objects(q) <=> x # c
  <1>1. x \in Objects(r) /\ k[x] \in PlainKinds
    BY DEF Living
  <1>2. x # c => x \notin Going(b, c)
    BY <1>1, GoingNotNamed
  <1>3. c \in Going(b, c)
    BY DEF Going
  <1> QED
    BY <1>1, <1>2, <1>3 DEF Shrunk

\* A release keeps the invariant.
LEMMA ReleaseKeeps ==
  ASSUME IInv, Release
  PROVE  IInv'
  <1>1. PICK c : Released(c)
    BY ReleaseIs
  <1> DEFINE G == Going(beside, c)
             k2 == KindsOf(heap', kind)
  <1>2. /\ c \in Buried /\ c \in Cells /\ Buried' = Buried \ {c}
        /\ Shrunk(heap, heap', G) /\ kind' = k2 /\ beside' = [beside EXCEPT ![c] = Nil]
        /\ doomed' \in Seq(Cells) /\ OnceListed(doomed') /\ ClearWatches(c) /\ QueueDeaths(c)
        /\ stack' = stack /\ ofCell' = ofCell /\ pc' = pc /\ request' = request /\ marks' = marks /\ freed' = freed
        /\ pc = "sweep"
    BY <1>1 DEF Released
  <1>3. /\ Kept(heap, kind, beside, stack, Buried) /\ OtherTypes /\ Fits(request, heap, kind, beside, stack, Buried)
        /\ Phase /\ Answers(heap, kind, watch, death)
    BY DEF IInv
  <1>4. Buried \subseteq Cells /\ Objects(heap) \subseteq Cells
    <2>1. heap \in RegionType
      BY <1>3 DEF Kept
    <2> QED
      BY <1>3, <2>1, Parts, FreeIsCells DEF Phase, Objects
  <1>5. Kept(heap', kind', beside', stack', Buried')
    BY <1>2, <1>3, <1>4, ReleaseKept
  <1>6. /\ Objects(heap') = Objects(heap) \ G
        /\ FreeCells(heap) \subseteq FreeCells(heap') /\ G \cap Objects(heap) \subseteq FreeCells(heap')
    BY <1>2 DEF Shrunk
  <1>7. \A d \in Cells : k2[d] = IF d \in Objects(heap') THEN kind[d] ELSE "none"
    BY DEF KindsOf
  <1>8. \A o \in Cells : beside'[o] = IF o = c THEN Nil ELSE beside[o]
    BY <1>2, <1>3 DEF Kept, BesideTypes
  <1>9. \A x : x \in G <=> x = c \/ (beside[c] # Nil /\ x = beside[c])
    BY DEF Going
  <1> HIDE DEF G, k2
  <1>10. ASSUME NEW x, Living(heap, kind, x) PROVE x \in Objects(heap') <=> x # c
    BY <1>2, <1>3, <1>4, <1>10, LivingStays DEF G
  <1>11. ASSUME NEW x, Living(heap, kind, x), x # c PROVE Living(heap', kind', x)
    <2>1. x \in Objects(heap') /\ x \in Cells /\ kind[x] \in PlainKinds
      BY <1>4, <1>10, <1>11 DEF Living
    <2> QED
      BY <1>2, <1>7, <2>1 DEF Living
  <1>12. Fits(request', heap', kind', beside', stack', Buried')
    <2>1. ASSUME NEW o \in stack PROVE kind'[o] = kind[o]
      <3>1. o \in Objects(heap')
        BY <1>2, <1>5 DEF Kept, RootsKept, Keepable
      <3> QED
        BY <1>2, <1>4, <1>6, <1>7, <3>1
    <2>2. ASSUME NEW o, FrameWaits(heap, kind, beside, Buried, o)
          PROVE  o \in Objects(heap') /\ FrameWaits(heap', kind', beside', Buried', o)
      <3>1. o \in Objects(heap) /\ o \in Cells /\ kind[o] = "frame" /\ o \notin Buried /\ \A p \in Cells : beside[p] # o
        BY <1>4, <2>2 DEF FrameWaits
      <3>2. o \notin G
        BY <1>2, <1>9, <3>1
      <3>3. o \in Objects(heap') /\ kind'[o] = "frame" /\ o \notin Buried'
        BY <1>2, <1>6, <1>7, <3>1, <3>2
      <3>4. o # Nil
        BY <3>1, Parts, <1>3 DEF Nil, Kept
      <3>5. \A p \in Cells : beside'[p] # o
        BY <1>8, <3>1, <3>4
      <3> QED
        BY <3>3, <3>5 DEF FrameWaits
    <2>3. \A o \in stack : kind'[o] = kind[o]
      BY <2>1
    <2>4. \A o : FrameWaits(heap, kind, beside, Buried, o) => o \in Objects(heap') /\ FrameWaits(heap', kind', beside', Buried', o)
      BY <2>2
    <2>5. request' = request /\ stack' = stack
      BY <1>2
    <2> QED
      BY <1>3, <2>3, <2>4, <2>5 DEF Fits
  <1>13. Phase'
    <2>1. Buried' \subseteq Objects(heap') \cup FreeCells(heap')
      BY <1>2, <1>3, <1>6 DEF Phase
    <2> QED
      BY <1>2, <2>1 DEF Phase
  <1>14. Answers(heap', kind', watch', death')
    <2>1. ASSUME NEW x \in Watches, watch'[x].state = "watching" PROVE Living(heap', kind', watch'[x].cell)
      <3>1. watch'[x] = IF watch[x] = At("watching", c) THEN At("cleared", c) ELSE watch[x]
        BY <1>2 DEF ClearWatches
      <3>2. watch[x] # At("watching", c) /\ watch'[x] = watch[x]
        BY <2>1, <3>1 DEF At
      <3>3. watch[x] \in [state : {"idle", "watching", "cleared"}, cell : Cells \cup {Nil}]
        BY <1>3 DEF OtherTypes
      <3>4. watch[x].cell # c
        BY <2>1, <3>2, <3>3 DEF At
      <3>5. Living(heap, kind, watch[x].cell)
        BY <1>3, <2>1, <3>2 DEF Answers
      <3> QED
        BY <1>11, <3>2, <3>4, <3>5
    <2>2. ASSUME NEW x \in Deaths, death'[x].state = "waiting" PROVE Living(heap', kind', death'[x].cell)
      <3>1. death'[x] = IF death[x] = At("waiting", c) THEN At("dying", Nil) ELSE death[x]
        BY <1>2 DEF QueueDeaths
      <3>2. death[x] # At("waiting", c) /\ death'[x] = death[x]
        BY <2>2, <3>1 DEF At
      <3>3. death[x] \in [state : {"idle", "waiting", "dying", "told"}, cell : Cells \cup {Nil}]
        BY <1>3 DEF OtherTypes
      <3>4. death[x].cell # c
        BY <2>2, <3>2, <3>3 DEF At
      <3>5. Living(heap, kind, death[x].cell)
        BY <1>3, <2>2, <3>2 DEF Answers
      <3> QED
        BY <1>11, <3>2, <3>4, <3>5
    <2> QED
      BY <2>1, <2>2 DEF Answers
  <1>15. OtherTypes'
    <2>1. watch' \in [Watches -> [state : {"idle", "watching", "cleared"}, cell : Cells \cup {Nil}]]
      BY <1>2, <1>3 DEF OtherTypes, ClearWatches, At
    <2>2. death' \in [Deaths -> [state : {"idle", "waiting", "dying", "told"}, cell : Cells \cup {Nil}]]
      BY <1>2, <1>3 DEF OtherTypes, QueueDeaths, At
    <2> QED
      BY <1>2, <1>3, <2>1, <2>2 DEF OtherTypes
  <1>16. Spent'
    BY <1>2 DEF Spent
  <1> QED
    BY <1>5, <1>12, <1>13, <1>14, <1>15, <1>16 DEF IInv
-----------------------------------------------------------------------------
(***************************************************************************)
(* A request answered.                                                     *)
(***************************************************************************)
\* What the region answers a request.
LEMMA AttemptIs ==
  ASSUME IInv, pc \in {"ask", "retry"}
  PROVE  Outcome(heap, Attempt, request.size) /\ request.size \in Nat /\ request.size >= 1
  <1>1. heap \in RegionType /\ Sound(heap) /\ request # NoRequest
    BY DEF IInv, Kept, Phase
  <1>2. Fitting(request, heap, kind, beside, stack, Buried)
    BY FitsWhat DEF IInv
  <1>3. request.size \in Nat /\ request.size >= 1
    BY <1>1, <1>2 DEF Fitting
  <1>4. CASE request.what \in OneCell
    <2>1. request.size = 1 /\ Attempt = Alloc(heap)
      BY <1>2, <1>4 DEF Fitting, Attempt
    <2> QED
      BY <1>1, <1>3, <2>1, AllocIs
  <1>5. CASE request.what \notin OneCell
    <2>1. Attempt = AllocSpanning(heap, request.size)
      BY <1>5 DEF Attempt
    <2> QED
      BY <1>1, <1>3, <2>1, AllocSpanningIs
  <1> QED
    BY <1>4, <1>5

\* The frame, its first field written.
LEMMA FrameWritten ==
  ASSUME Kept(heap, kind, beside, stack, {}), NEW r, NEW c, Gained(heap, r, c),
         \A d \in Body(r, c) : d \in r.stale \/ r.field[d] = Nil,
         NEW v \in stack \cup {Nil}
  PROVE  Gained(heap, Write(r, c, v), c) /\ FieldsGood(heap, Write(r, c, v), kind, c)
  <1>1. PICK t : t = Write(r, c, v)
    OBVIOUS
  <1>2. r \in RegionType /\ Sound(r) /\ Headed(r) /\ c \in Objects(r)
    BY DEF Gained, Sound, Layout
  <1>3. c \in Body(r, c) /\ Body(r, c) \subseteq Cells
    BY <1>2, BodyOf
  <1>4. v = Nil \/ Keepable(heap, kind, {}, v)
    BY DEF Kept, RootsKept
  <1>5. v \in Cells \cup {Nil}
    BY DEF Kept, BesideTypes
  <1>6. Wrote(r, t, c, v)
    BY <1>1, <1>2, <1>3, <1>5, WriteIs
  <1>7. /\ Rewritten(r, t)
        /\ \A d \in Cells : t.field[d] = IF d = c THEN v ELSE r.field[d]
        /\ t.stale = r.stale \ {c}
    BY <1>6 DEF Wrote
  <1>8. \A d \in Cells : d \notin Body(r, c) => t.field[d] = r.field[d] /\ (d \in t.stale <=> d \in r.stale)
    BY <1>3, <1>7
  <1>9. Gained(heap, t, c) /\ Body(t, c) = Body(r, c)
    BY <1>7, <1>8, GainedRewrites
  <1>10. FieldsGood(heap, t, kind, c)
    BY <1>3, <1>4, <1>7, <1>9 DEF FieldsGood
  <1> QED
    BY <1>1, <1>9, <1>10

\* The overflow with every word of it written, before the old one goes.
Filling(r, c, t, o) ==
  /\ Gained(heap, t, c) /\ FieldsGood(heap, t, kind, c) /\ Body(t, c) \cap t.stale = {}
  /\ Spilled(r, c) = IF beside[o] = Nil THEN t ELSE Free(t, beside[o])

\* Spilled writes it so: what the old one held was written too, and may be named.
LEMMA BlockFilled ==
  ASSUME Kept(heap, kind, beside, stack, {}), NEW r, NEW c, Gained(heap, r, c),
         request.owner \in stack, request.value \in stack, kind[request.owner] = "object",
         request.size \in Nat, request.size >= 1, Body(r, c) = Span(c, request.size)
  PROVE  \E t : Filling(r, c, t, request.owner)
  <1> DEFINE o == request.owner
             v == request.value
             old == beside[o]
             body == Body(r, c)
             last == c + request.size - 1
             kept(d) == IF old # Nil /\ old + (d - c) \in Body(r, old) THEN r.field[old + (d - c)] ELSE Nil
             f == [d \in Cells |-> IF d = last THEN v ELSE IF d \in body THEN kept(d) ELSE r.field[d]]
             w == [d \in Cells |-> IF d \in body \ {c} THEN Word ELSE r.word[d]]
             l == r.stale \ body
             t == [r EXCEPT !.field = f, !.word = w, !.stale = l]
  <1>1. /\ r \in RegionType /\ Sound(r) /\ Headed(r) /\ c \in Objects(r) /\ c \notin Objects(heap)
        /\ Objects(r) = Objects(heap) \cup {c}
        /\ \A p \in Objects(heap) : /\ Body(r, p) = Body(heap, p)
                                    /\ \A d \in Body(r, p) : r.field[d] = heap.field[d] /\ (d \in r.stale <=> d \in heap.stale)
    BY DEF Gained, Sound, Layout
  <1>2. /\ c \in body /\ body \subseteq Cells /\ c \in Int
        /\ \A d \in body : d \in Int /\ d < r.next /\ (d # c => r.inside[d])
    BY <1>1, BodyOf
  <1>3. /\ r.word \in [Cells -> Word .. MaxCells] /\ r.stale \in SUBSET Cells
        /\ r.field \in [Cells -> Cells \cup {Nil}] /\ r.inside \in [Cells -> BOOLEAN]
    BY <1>1 DEF RegionType
  <1>4. /\ BesideTypes(kind, beside, stack) /\ Entries(heap, kind, beside, {}) /\ BlocksHeld(heap, kind, beside, {})
        /\ RootsKept(heap, kind, stack, {}) /\ FieldsKept(heap, kind, beside, {})
    BY DEF Kept
  <1>5. o \in Cells /\ v \in Cells /\ Keepable(heap, kind, {}, v) /\ Keepable(heap, kind, {}, o)
    BY <1>4 DEF BesideTypes, RootsKept
  <1>6. last \in body
    BY <1>2 DEF Span
  <1>7. ASSUME NEW d \in body PROVE kept(d) = Nil \/ kept(d) \in Cells
    <2>1. CASE old # Nil /\ old + (d - c) \in Body(r, old)
      <3>1. old \in Objects(heap)
        BY <1>4, <1>5, <2>1 DEF Entries
      <3>2. old + (d - c) \in Cells
        BY <1>1, <2>1, <3>1, BodyOf
      <3>3. r.field[old + (d - c)] \in Cells \cup {Nil}
        BY <1>3, <3>2
      <3> QED
        BY <2>1, <3>3
    <2>2. CASE ~(old # Nil /\ old + (d - c) \in Body(r, old))
      BY <2>2
    <2> QED
      BY <2>1, <2>2
  <1>8. f \in [Cells -> Cells \cup {Nil}]
    <2> HIDE DEF kept
    <2> QED
      BY <1>3, <1>5, <1>7
  <1>9. w \in [Cells -> Word .. MaxCells] /\ \A d \in Cells : w[d] = IF d \in body \ {c} THEN Word ELSE r.word[d]
    <2>1. Word \in Word .. MaxCells
      BY RegionAssumption DEF Word
    <2> QED
      BY <1>3, <2>1, Zenon
  <1>10. l \in SUBSET Cells /\ \A d \in Cells : d \in l <=> d \in r.stale /\ d \notin body
    BY <1>3
  <1>11. \A d \in Cells : f[d] = IF d = last THEN v ELSE IF d \in body THEN kept(d) ELSE r.field[d]
    OBVIOUS
  <1>12. Spilled(r, c) = IF old = Nil THEN t ELSE Free(t, old)
    BY <1>3 DEF Spilled, RegionType
  <1> HIDE DEF f, w, l
  <1>13. /\ t \in RegionType /\ t.word = w /\ t.field = f /\ t.stale = l
         /\ t.next = r.next /\ t.limit = r.limit /\ t.reserved = r.reserved
         /\ t.inside = r.inside /\ t.free = r.free /\ t.runs = r.runs
    BY <1>1, <1>8, <1>9, <1>10 DEF RegionType
  <1> HIDE DEF t
  <1>14. Rewritten(r, t)
    <2>1. \A d \in Cells : r.inside[d] \/ t.word[d] = r.word[d]
      BY <1>2, <1>9, <1>13
    <2>2. \A d \in body : ~(d >= r.next)
      <3>1. r.next \in Int
        BY <1>1, Parts
      <3> QED
        BY <1>2, <3>1
    <2>3. \A d \in Cells : d >= r.next => t.field[d] = r.field[d] /\ (d \in t.stale <=> d \in r.stale)
      <3> HIDE DEF kept, body, last
      <3> QED
        BY <1>6, <1>10, <1>11, <1>13, <2>2
    <2> QED
      BY <1>13, <2>1, <2>3 DEF Rewritten
  <1>15. Gained(heap, t, c) /\ Body(t, c) = body
    <2>1. \A d \in Cells : d \notin body => t.field[d] = r.field[d] /\ (d \in t.stale <=> d \in r.stale)
      <3> HIDE DEF kept, body, last
      <3> QED
        BY <1>6, <1>10, <1>11, <1>13
    <2> QED
      BY <1>14, <2>1, GainedRewrites
  <1>16. Body(t, c) \cap t.stale = {}
    BY <1>10, <1>13, <1>15
  <1>17. FieldsGood(heap, t, kind, c)
    <2> SUFFICES ASSUME NEW d \in body PROVE t.field[d] = Nil \/ Keepable(heap, kind, {}, t.field[d])
      BY <1>15 DEF FieldsGood
    <2>0. d \in Cells /\ t.field[d] = IF d = last THEN v ELSE kept(d)
      BY <1>2, <1>11, <1>13
    <2>1. CASE d = last
      BY <1>5, <2>0, <2>1
    <2>2. CASE d # last /\ ~(old # Nil /\ old + (d - c) \in Body(r, old))
      BY <2>0, <2>2
    <2>3. CASE d # last /\ old # Nil /\ old + (d - c) \in Body(r, old)
      <3>1. PICK e : e = old + (d - c)
        OBVIOUS
      <3>2. old \in Objects(heap) /\ kind[old] = "block"
        BY <1>4, <1>5, <2>3 DEF Entries, BlockKind
      <3>3. e \in Body(heap, old) /\ r.field[e] = heap.field[e] /\ e \notin heap.stale
        BY <1>1, <1>4, <2>3, <3>1, <3>2 DEF BlocksHeld
      <3>4. heap.field[e] = Nil \/ Keepable(heap, kind, {}, heap.field[e])
        BY <1>4, <3>2, <3>3 DEF FieldsKept, Dying
      <3>5. t.field[d] = r.field[e]
        BY <2>0, <2>3, <3>1
      <3> QED
        BY <3>3, <3>4, <3>5
    <2> QED
      BY <2>1, <2>2, <2>3
  <1> QED
    BY <1>12, <1>15, <1>16, <1>17 DEF Filling
\* The part of the state the request's object touches, after the answer.
Served(c) ==
  /\ Kept(heap', kind', beside', stack', {}) /\ Stays(heap, heap', kind, kind')
  /\ request.what = "frame" => c \in Objects(heap') /\ kind'[c] = "frame" /\ \A o \in Cells : beside'[o] # c

\* Each kind of request, answered with the cells taken.
LEMMA ObjectServed ==
  ASSUME Kept(heap, kind, beside, stack, {}), NEW c, Gained(heap, heap', c), FieldsGood(heap, heap', kind, c),
         request.what \in {"object", "promise", "wide"}, kind' = KindsWith(heap', kind, c, Named),
         beside' = beside, stack' = stack \cup {c}
  PROVE  Served(c)
  <1>1. Named \in {"object", "promise"}
    BY DEF Named
  <1>2. Kept(heap', KindsWith(heap', kind, c, Named), beside, stack \cup {c}, {}) /\ Stays(heap, heap', kind, KindsWith(heap', kind, c, Named))
    BY <1>1, ObjectKept
  <1> QED
    BY <1>2 DEF Served

\* A generator, its frame entered beside it.
LEMMA GeneratorServed ==
  ASSUME Kept(heap, kind, beside, stack, {}), NEW c, Gained(heap, heap', c), FieldsGood(heap, heap', kind, c),
         request.what = "generator", FrameWaits(heap, kind, beside, {}, request.owner),
         kind' = KindsWith(heap', kind, c, "generator"),
         beside' = [beside EXCEPT ![c] = request.owner], stack' = stack \cup {c}
  PROVE  Served(c)
  <1>1. PICK f : f = request.owner
    OBVIOUS
  <1>2. f \in Objects(heap) /\ kind[f] = "frame" /\ \A o \in Cells : beside[o] # f
    BY <1>1 DEF FrameWaits
  <1>3. /\ Kept(heap', KindsWith(heap', kind, c, "generator"), [beside EXCEPT ![c] = f], stack \cup {c}, {})
        /\ Stays(heap, heap', kind, KindsWith(heap', kind, c, "generator"))
    BY <1>2, GeneratorKept
  <1> QED
    BY <1>1, <1>3 DEF Served

\* A frame, for which nothing is entered yet.
LEMMA FrameServed ==
  ASSUME Kept(heap, kind, beside, stack, {}), NEW c, Gained(heap, heap', c), FieldsGood(heap, heap', kind, c),
         kind' = KindsWith(heap', kind, c, "frame"), beside' = beside, stack' = stack
  PROVE  Served(c)
  <1>1. /\ Kept(heap', KindsWith(heap', kind, c, "frame"), beside, stack, {}) /\ \A o \in Cells : beside[o] # c
        /\ Stays(heap, heap', kind, KindsWith(heap', kind, c, "frame"))
    BY FrameKept
  <1>2. c \in Objects(heap') /\ c \in Cells
    BY DEF Gained
  <1>3. kind'[c] = "frame"
    BY <1>2 DEF KindsWith
  <1> QED
    BY <1>1, <1>2, <1>3 DEF Served

\* An overflow, and the old one given back.
LEMMA BlockServed ==
  ASSUME Kept(heap, kind, beside, stack, {}), NEW c, NEW t, NEW o \in stack, kind[o] = "object",
         Gained(heap, t, c), FieldsGood(heap, t, kind, c), Body(t, c) \cap t.stale = {},
         heap' = IF beside[o] = Nil THEN t ELSE Free(t, beside[o]), request.what = "block",
         kind' = KindsWith(heap', kind, c, "block"), beside' = [beside EXCEPT ![o] = c], stack' = stack
  PROVE  Served(c)
  <1>1. t \in RegionType /\ Sound(t) /\ Objects(t) = Objects(heap) \cup {c}
    BY DEF Gained
  <1>2. o \in Cells /\ Entries(heap, kind, beside, {})
    BY DEF Kept, BesideTypes
  <1>3. Shrunk(t, heap', OldBlock(beside, o))
    <2>1. CASE beside[o] = Nil
      <3>1. heap' = t /\ OldBlock(beside, o) = {}
        BY <2>1 DEF OldBlock
      <3> QED
        BY <1>1, <3>1 DEF Shrunk
    <2>2. CASE beside[o] # Nil
      <3>1. beside[o] \in Objects(t)
        BY <1>1, <1>2, <2>2 DEF Entries
      <3>2. heap' = Free(t, beside[o]) /\ OldBlock(beside, o) = {beside[o]}
        BY <2>2 DEF OldBlock
      <3> QED
        BY <1>1, <3>1, <3>2, FreeShrinks
    <2> QED
      BY <2>1, <2>2
  <1>4. PICK h : h = heap'
    OBVIOUS
  <1>5. /\ Kept(h, KindsWith(h, kind, c, "block"), [beside EXCEPT ![o] = c], stack, {})
        /\ Stays(heap, h, kind, KindsWith(h, kind, c, "block"))
    BY <1>3, <1>4, BlockKept
  <1> QED
    BY <1>4, <1>5 DEF Served

\* FirstAsk and Retry.
Answering ==
  /\ pc \in {"ask", "retry"} /\ Resting
  /\ \E took \in {Attempt} :
        took.at # Nil /\ \E h \in {Filled(took.region, took.at)} : Answered(h, took.at)
  /\ UNCHANGED <<watch, death, uses>>

\* An answer keeps the invariant.
LEMMA AnswerKeeps ==
  ASSUME IInv, Answering
  PROVE  IInv'
  <1>1. /\ pc \in {"ask", "retry"} /\ marks' = {} /\ doomed' = <<>> /\ freed' = 0
        /\ watch' = watch /\ death' = death
    BY DEF Answering, Resting
  <1> DEFINE r == Attempt.region
             c == Attempt.at
             n == request.size
  <1>2. c # Nil /\ Answered(Filled(r, c), c)
    BY DEF Answering
  <1>3. Buried = {} /\ Kept(heap, kind, beside, stack, {}) /\ Fits(request, heap, kind, beside, stack, {})
    BY <1>1, NoneBuried DEF IInv
  <1>4. Fitting(request, heap, kind, beside, stack, {}) /\ request # NoRequest
    BY <1>1, <1>3, FitsWhat DEF IInv, Phase
  <1>5. Outcome(heap, Attempt, n) /\ n \in Nat /\ n >= 1
    BY <1>1, AttemptIs
  <1>6. heap \in RegionType /\ Sound(heap)
    BY <1>3 DEF Kept
  <1>7. r \in RegionType /\ Sound(r) /\ Taken(heap, r, c, n)
    BY <1>2, <1>5 DEF Outcome
  <1> HIDE DEF r, c
  <1>8. /\ Gained(heap, r, c) /\ Body(r, c) = Span(c, n)
        /\ \A d \in Body(r, c) : d \in r.stale \/ r.field[d] = Nil
    BY <1>6, <1>7, TakenGains
  <1>9. /\ heap' = Filled(r, c) /\ kind' = KindsWith(heap', kind, c, Named)
        /\ beside' = CASE request.what = "block" -> [beside EXCEPT ![request.owner] = c]
                       [] request.what = "generator" -> [beside EXCEPT ![c] = request.owner]
                       [] OTHER -> beside
        /\ stack' = IF request.what \in {"block", "frame"} THEN stack ELSE stack \cup {c}
        /\ ofCell' = IF request.what = "promise" THEN ofCell \cup {c} ELSE ofCell
        /\ IF request.what = "frame"
           THEN pc' = "ask" /\ request' = Asking("generator", 1, c, Nil)
           ELSE pc' = "run" /\ request' = NoRequest
    BY <1>2 DEF Answered, KindsWith
  <1>9a. (pc' = "run" /\ request' = NoRequest) \/ (pc' = "ask" /\ request' = Asking("generator", 1, c, Nil))
    <2>1. \/ request.what = "frame" /\ pc' = "ask" /\ request' = Asking("generator", 1, c, Nil)
          \/ request.what # "frame" /\ pc' = "run" /\ request' = NoRequest
      BY <1>2, Zenon DEF Answered
    <2> QED
      BY <2>1
  <1>10. Served(c)
    <2>0. request.what \in {"object", "promise", "wide", "frame", "block", "generator"}
      BY <1>4 DEF Fitting
    <2>1. CASE request.what \in {"object", "promise", "wide"}
      <3>1. heap' = r /\ beside' = beside /\ stack' = stack \cup {c}
        BY <1>9, <2>1 DEF Filled
      <3>2. FieldsGood(heap, heap', kind, c) /\ Gained(heap, heap', c)
        BY <1>8, <3>1 DEF FieldsGood
      <3> QED
        BY <1>3, <1>9, <2>1, <3>1, <3>2, ObjectServed
    <2>2. CASE request.what = "generator"
      <3>1. heap' = r /\ beside' = [beside EXCEPT ![c] = request.owner] /\ stack' = stack \cup {c} /\ Named = "generator"
        BY <1>9, <2>2 DEF Filled, Named
      <3>2. FieldsGood(heap, heap', kind, c) /\ Gained(heap, heap', c)
        BY <1>8, <3>1 DEF FieldsGood
      <3>3. FrameWaits(heap, kind, beside, {}, request.owner)
        BY <1>4, <2>2 DEF Fitting
      <3> QED
        BY <1>3, <1>9, <2>2, <3>1, <3>2, <3>3, GeneratorServed
    <2>3. CASE request.what = "frame"
      <3>1. heap' = Write(r, c, request.value) /\ beside' = beside /\ stack' = stack /\ Named = "frame"
        BY <1>9, <2>3 DEF Filled, Named
      <3>2. request.value \in stack \cup {Nil}
        BY <1>4, <2>3 DEF Fitting
      <3>3. Gained(heap, Write(r, c, request.value), c) /\ FieldsGood(heap, Write(r, c, request.value), kind, c)
        BY <1>3, <1>8, <3>2, FrameWritten
      <3>4. FieldsGood(heap, heap', kind, c) /\ Gained(heap, heap', c)
        BY <3>1, <3>3
      <3> QED
        BY <1>3, <1>9, <3>1, <3>4, FrameServed
    <2>4. CASE request.what = "block"
      <3>1. heap' = Spilled(r, c) /\ beside' = [beside EXCEPT ![request.owner] = c] /\ stack' = stack /\ Named = "block"
        BY <1>9, <2>4 DEF Filled, Named
      <3>2. request.owner \in stack /\ request.value \in stack /\ kind[request.owner] = "object"
        BY <1>4, <2>4 DEF Fitting
      <3>3. PICK t : Filling(r, c, t, request.owner)
        BY <1>3, <1>5, <1>8, <3>2, BlockFilled
      <3>4. PICK o : o = request.owner
        OBVIOUS
      <3>5. /\ Gained(heap, t, c) /\ FieldsGood(heap, t, kind, c) /\ Body(t, c) \cap t.stale = {}
            /\ heap' = IF beside[o] = Nil THEN t ELSE Free(t, beside[o])
        BY <3>1, <3>3, <3>4 DEF Filling
      <3>6. o \in stack /\ kind[o] = "object" /\ beside' = [beside EXCEPT ![o] = c]
            /\ kind' = KindsWith(heap', kind, c, "block")
        BY <1>9, <3>1, <3>2, <3>4
      <3> QED
        BY <1>3, <2>4, <3>1, <3>5, <3>6, BlockServed
    <2> QED
      BY <2>0, <2>1, <2>2, <2>3, <2>4
  <1>11. /\ Kept(heap', kind', beside', stack', {}) /\ Stays(heap, heap', kind, kind')
         /\ request.what = "frame" => c \in Objects(heap') /\ kind'[c] = "frame" /\ \A o \in Cells : beside'[o] # c
    BY <1>10 DEF Served
  <1>12. Buried' = {}
    BY <1>1 DEF Buried
  <1>13. c \in Cells
    BY <1>8 DEF Gained
  <1>14. OtherTypes'
    <2>1. ofCell' \subseteq Cells /\ pc' \in {"run", "ask", "sweep", "retry", "exhausted"}
      BY <1>9, <1>13 DEF IInv, OtherTypes
    <2>2. {} \subseteq Cells /\ <<>> \in Seq(Cells) /\ 0 \in 0 .. MaxCells
      BY RegionAssumption
    <2> QED
      BY <1>1, <2>1, <2>2 DEF IInv, OtherTypes
  <1>15. Fits(request', heap', kind', beside', stack', Buried')
    BY <1>9, <1>11, <1>12 DEF Fits, FrameWaits
  <1>16. Phase'
    <2>1. OnceListed(<<>>)
      BY DEF OnceListed
    <2>2. (pc' = "run" /\ request' = NoRequest) \/ (pc' = "ask" /\ request' # NoRequest)
      <3>1. Asking("generator", 1, c, Nil) # NoRequest
        BY DEF Asking, NoRequest
      <3>2. (pc' = "run" /\ request' = NoRequest) \/ (pc' = "ask" /\ request' = Asking("generator", 1, c, Nil))
        BY <1>9a
      <3> QED
        BY <3>1, <3>2
    <2> QED
      BY <1>1, <1>12, <2>1, <2>2 DEF Phase
  <1>17. Answers(heap', kind', watch', death')
    <2>1. \A x : Living(heap, kind, x) => Living(heap', kind', x)
      BY <1>11 DEF Living, Stays, Keepable
    <2> QED
      BY <1>1, <2>1 DEF IInv, Answers
  <1>18. Spent'
    BY <1>9 DEF Spent
  <1> QED
    BY <1>11, <1>12, <1>14, <1>15, <1>16, <1>17, <1>18 DEF IInv
-----------------------------------------------------------------------------
(***************************************************************************)
(* The other steps.                                                        *)
(***************************************************************************)
\* A region that did not change is alike.
LEMMA AlikeItself ==
  ASSUME IInv
  PROVE  Alike(heap, heap)
  BY DEF IInv, Kept, Alike

\* A step that changes no table and dooms nothing.
LEMMA QuietKeeps ==
  ASSUME IInv, doomed = <<>>, Alike(heap, heap'), UNCHANGED <<kind, stack, tables>>,
         doomed' = <<>>, marks' \subseteq Cells, freed' \in 0 .. MaxCells,
         pc' \in {"run", "ask", "retry", "exhausted"},
         Fits(request', heap, kind, beside, stack, {}), pc' = "run" <=> request' = NoRequest, Spent'
  PROVE  IInv'
  <1>1. /\ kind' = kind /\ stack' = stack /\ beside' = beside /\ watch' = watch /\ death' = death /\ ofCell' = ofCell
    BY DEF tables
  <1>2. Buried = {} /\ Buried' = {}
    BY DEF Buried
  <1>3. Kept(heap', kind', beside', stack', Buried')
    BY <1>1, <1>2, AlikeKept DEF IInv
  <1>4. Fits(request', heap', kind', beside', stack', Buried')
    BY <1>1, <1>2, AlikeFits
  <1>5. Phase'
    <2>1. OnceListed(<<>>)
      BY DEF OnceListed
    <2> QED
      BY <1>2, <2>1 DEF Phase
  <1>6. Answers(heap', kind', watch', death')
    BY <1>1, AlikeAnswers DEF IInv
  <1>7. OtherTypes'
    BY <1>1 DEF IInv, OtherTypes
  <1> QED
    BY <1>3, <1>4, <1>5, <1>6, <1>7 DEF IInv

\* An operation that asks for cells.
LEMMA AskKeeps ==
  ASSUME IInv, NEW rq, Ask(rq), rq # NoRequest, Fits(rq, heap, kind, beside, stack, {})
  PROVE  IInv'
  <1>1. /\ pc = "run" /\ pc' = "ask" /\ request' = rq /\ heap' = heap
        /\ UNCHANGED <<kind, stack, tables>> /\ marks' = marks /\ doomed' = doomed /\ freed' = freed
    BY DEF Ask, Running, cycle
  <1>2. doomed = <<>> /\ marks \subseteq Cells /\ freed \in 0 .. MaxCells
    BY <1>1 DEF IInv, Phase, OtherTypes
  <1>3. Alike(heap, heap')
    BY <1>1, AlikeItself
  <1>4. Spent'
    BY <1>1 DEF Spent
  <1> QED
    BY <1>1, <1>2, <1>3, <1>4, QuietKeeps

\* What each operation asks for fits.
LEMMA AsksKeep ==
  ASSUME IInv, NewObject \/ NewPromise \/ NewWide \/ NewGenerator \/ SpillSet
  PROVE  IInv'
  <1>1. CASE NewObject
    <2>1. Asking("object", 1, Nil, Nil) # NoRequest
      BY DEF Asking, NoRequest
    <2>2. Fits(Asking("object", 1, Nil, Nil), heap, kind, beside, stack, {})
      BY DEF Fits
    <2> QED
      BY <1>1, <2>1, <2>2, AskKeeps DEF NewObject
  <1>2. CASE NewPromise
    <2>1. Asking("promise", 1, Nil, Nil) # NoRequest
      BY DEF Asking, NoRequest
    <2>2. Fits(Asking("promise", 1, Nil, Nil), heap, kind, beside, stack, {})
      BY DEF Fits
    <2> QED
      BY <1>2, <2>1, <2>2, AskKeeps DEF NewPromise
  <1>3. CASE NewWide
    <2>1. PICK n \in WideCells : Ask(Asking("wide", n, Nil, Nil))
      BY <1>3 DEF NewWide
    <2>2. Asking("wide", n, Nil, Nil) # NoRequest
      BY DEF Asking, NoRequest
    <2>3. Fits(Asking("wide", n, Nil, Nil), heap, kind, beside, stack, {})
      BY DEF Fits
    <2> QED
      BY <2>1, <2>2, <2>3, AskKeeps
  <1>4. CASE NewGenerator
    <2>1. PICK n \in FrameCells, v \in stack \cup {Nil} : Ask(Asking("frame", n, Nil, v))
      BY <1>4 DEF NewGenerator
    <2>2. Asking("frame", n, Nil, v) # NoRequest
      BY DEF Asking, NoRequest
    <2>3. Fits(Asking("frame", n, Nil, v), heap, kind, beside, stack, {})
      BY DEF Fits
    <2> QED
      BY <2>1, <2>2, <2>3, AskKeeps
  <1>5. CASE SpillSet
    <2> DEFINE held(o) == IF beside[o] = Nil THEN 0 ELSE heap.word[beside[o]]
               wanted(o) == {n \in BlockCells : n > held(o)}
    <2>1. PICK o \in stack, v \in stack :
             kind[o] = "object" /\ wanted(o) # {} /\ Ask(Asking("block", Min(wanted(o)), o, v))
      BY <1>5 DEF SpillSet
    <2>2. wanted(o) \in SUBSET BlockCells /\ wanted(o) \in SUBSET Nat
      BY WidthAssumption
    <2>3. Min(wanted(o)) \in BlockCells
      <3> HIDE DEF wanted
      <3> QED
        BY <2>1, <2>2, MinOf
    <2> HIDE DEF wanted
    <2>4. PICK n \in BlockCells : n = Min(wanted(o))
      BY <2>3
    <2>5. Asking("block", n, o, v) # NoRequest
      BY DEF Asking, NoRequest
    <2>6. Fits(Asking("block", n, o, v), heap, kind, beside, stack, {})
      BY <2>1 DEF Fits
    <2> QED
      BY <2>1, <2>4, <2>5, <2>6, AskKeeps
  <1> QED
    BY <1>1, <1>2, <1>3, <1>4, <1>5

\* What the stack names changes.
LEMMA StackKeeps ==
  ASSUME IInv, pc = "run", \A x \in stack' : Keepable(heap, kind, {}, x),
         UNCHANGED <<heap, kind, tables, pc, request, cycle>>
  PROVE  IInv'
  <1>1. /\ heap' = heap /\ kind' = kind /\ beside' = beside /\ watch' = watch /\ death' = death /\ ofCell' = ofCell
        /\ pc' = pc /\ request' = request /\ marks' = marks /\ doomed' = doomed /\ freed' = freed
    BY DEF tables, cycle
  <1>2. Buried = {} /\ Buried' = {} /\ request = NoRequest
    BY <1>1, NoneBuried DEF IInv, Phase, Buried
  <1>3. stack' \in SUBSET Cells
    BY <1>2, Parts DEF IInv, Kept, Keepable, Objects
  <1>4. Kept(heap', kind', beside', stack', Buried')
    BY <1>1, <1>2, <1>3 DEF IInv, Kept, RootsKept, BesideTypes
  <1>5. Fits(request', heap', kind', beside', stack', Buried')
    BY <1>1, <1>2 DEF Fits
  <1>6. OtherTypes' /\ Phase' /\ Spent' /\ Answers(heap', kind', watch', death')
    BY <1>1, <1>2 DEF IInv, OtherTypes, Phase, Spent
  <1> QED
    BY <1>4, <1>5, <1>6 DEF IInv

\* What a watch or a registration says changes.
LEMMA TablesKeep ==
  ASSUME IInv, pc = "run", Answers(heap, kind, watch', death'),
         watch' \in [Watches -> [state : {"idle", "watching", "cleared"}, cell : Cells \cup {Nil}]],
         death' \in [Deaths -> [state : {"idle", "waiting", "dying", "told"}, cell : Cells \cup {Nil}]],
         UNCHANGED <<heap, kind, stack, beside, ofCell, pc, request, cycle>>
  PROVE  IInv'
  <1>1. /\ heap' = heap /\ kind' = kind /\ beside' = beside /\ stack' = stack /\ ofCell' = ofCell
        /\ pc' = pc /\ request' = request /\ marks' = marks /\ doomed' = doomed /\ freed' = freed
    BY DEF cycle
  <1>2. Buried' = Buried
    BY <1>1 DEF Buried
  <1>3. OtherTypes' /\ Phase' /\ Spent'
    BY <1>1, <1>2 DEF IInv, OtherTypes, Phase, Spent
  <1> QED
    BY <1>1, <1>2, <1>3 DEF IInv

\* A name on the stack is of an object that may be named, and so is what is
\* found in a field of it or of its block.
LEMMA NamesKeepable ==
  ASSUME IInv, pc = "run", NEW o \in stack
  PROVE  /\ Keepable(heap, kind, {}, o)
         /\ \A c \in Fields(o) : /\ \E p \in Objects(heap) : c \in Body(heap, p)
                                 /\ c \in heap.stale \/ heap.field[c] = Nil \/ Keepable(heap, kind, {}, heap.field[c])
  <1>1. Kept(heap, kind, beside, stack, {})
    BY NoneBuried DEF IInv
  <1>2. /\ BesideTypes(kind, beside, stack) /\ Entries(heap, kind, beside, {})
        /\ RootsKept(heap, kind, stack, {}) /\ FieldsKept(heap, kind, beside, {})
    BY <1>1 DEF Kept
  <1>3. Keepable(heap, kind, {}, o) /\ o \in Objects(heap) /\ o \in Cells
    BY <1>2 DEF RootsKept, Keepable, BesideTypes
  <1>4. ASSUME NEW c \in Fields(o) PROVE \E p \in Objects(heap) : c \in Body(heap, p)
    BY <1>2, <1>3 DEF Fields, Entries
  <1> QED
    BY <1>2, <1>3, <1>4 DEF FieldsKept, Dying

\* A load, a drop and a peek keep the invariant.
LEMMA StackOpsKeep ==
  ASSUME IInv, Load \/ Drop \/ Peek
  PROVE  IInv'
  <1>1. pc = "run" /\ UNCHANGED <<heap, kind, tables, pc, request, cycle>>
    BY DEF Load, Drop, Peek, Running
  <1>2. \A x \in stack : Keepable(heap, kind, {}, x)
    BY <1>1, NamesKeepable
  <1>3. CASE Load
    <2>1. PICK o \in stack : \E c \in Fields(o) \ heap.stale :
             heap.field[c] # Nil /\ stack' = stack \cup {heap.field[c]}
      BY <1>3 DEF Load
    <2>2. \A x \in stack' : Keepable(heap, kind, {}, x)
      BY <1>1, <1>2, <2>1, NamesKeepable
    <2> QED
      BY <1>1, <2>2, StackKeeps
  <1>4. CASE Drop
    <2>1. \A x \in stack' : Keepable(heap, kind, {}, x)
      BY <1>2, <1>4 DEF Drop
    <2> QED
      BY <1>1, <2>1, StackKeeps
  <1>5. CASE Peek
    <2>1. PICK w \in Watches : watch[w].state = "watching" /\ stack' = stack \cup {watch[w].cell}
      BY <1>5 DEF Peek
    <2>2. Keepable(heap, kind, {}, watch[w].cell)
      BY <2>1 DEF IInv, Answers, Living, Keepable
    <2>3. \A x \in stack' : Keepable(heap, kind, {}, x)
      BY <1>2, <2>1, <2>2
    <2> QED
      BY <1>1, <2>3, StackKeeps
  <1> QED
    BY <1>3, <1>4, <1>5

\* A store keeps the invariant.
LEMMA StoreKeeps ==
  ASSUME IInv, Store
  PROVE  IInv'
  <1>1. /\ pc = "run" /\ kind' = kind /\ beside' = beside /\ stack' = stack /\ ofCell' = ofCell
        /\ watch' = watch /\ death' = death
        /\ pc' = pc /\ request' = request /\ marks' = marks /\ doomed' = doomed /\ freed' = freed
    BY DEF Store, Running, cycle, tables
  <1>2. Buried = {} /\ Buried' = {} /\ request = NoRequest /\ doomed = <<>>
    BY <1>1, NoneBuried DEF IInv, Phase, Buried
  <1>3. PICK o \in stack, v \in stack \cup {Nil} : \E c \in Fields(o) : heap' = Write(heap, c, v)
    BY DEF Store
  <1>4. PICK c \in Fields(o) : heap' = Write(heap, c, v)
    BY <1>3
  <1>5. PICK p \in Objects(heap) : c \in Body(heap, p)
    BY <1>1, NamesKeepable
  <1>6. v = Nil \/ Keepable(heap, kind, {}, v)
    BY <1>1, NamesKeepable
  <1>7. Kept(heap', kind, beside, stack, {}) /\ Objects(heap') = Objects(heap)
    <2>1. Kept(heap, kind, beside, stack, {})
      BY <1>2 DEF IInv
    <2> QED
      BY <1>4, <1>5, <1>6, <2>1, StoreKept
  <1>8. Fits(request', heap', kind', beside', stack', Buried')
    BY <1>1, <1>2 DEF Fits
  <1>9. OtherTypes' /\ Phase' /\ Spent' /\ Answers(heap', kind', watch', death')
    BY <1>1, <1>2, <1>7 DEF IInv, OtherTypes, Phase, Spent, Answers, Living
  <1> QED
    BY <1>1, <1>2, <1>7, <1>8, <1>9 DEF IInv

\* So do a watch, a registration and what undoes them.
LEMMA TableOpsKeep ==
  ASSUME IInv, Watch \/ Forget \/ OnDeath \/ Cancel \/ Drain
  PROVE  IInv'
  <1>1. pc = "run" /\ UNCHANGED <<heap, kind, stack, beside, ofCell, pc, request, cycle>>
    BY DEF Watch, Forget, OnDeath, Cancel, Drain, Running
  <1>2. /\ Answers(heap, kind, watch, death)
        /\ watch \in [Watches -> [state : {"idle", "watching", "cleared"}, cell : Cells \cup {Nil}]]
        /\ death \in [Deaths -> [state : {"idle", "waiting", "dying", "told"}, cell : Cells \cup {Nil}]]
        /\ stack \subseteq Cells
    BY DEF IInv, OtherTypes, Kept, BesideTypes
  <1>3. \A x \in stack : Living(heap, kind, x)
    BY <1>1, NamesKeepable DEF Living, Keepable
  <1>4. CASE Watch
    <2>1. PICK w \in Watches, o \in stack : watch' = [watch EXCEPT ![w] = At("watching", o)] /\ death' = death
      BY <1>4 DEF Watch
    <2>2. watch' \in [Watches -> [state : {"idle", "watching", "cleared"}, cell : Cells \cup {Nil}]]
      BY <1>2, <2>1 DEF At
    <2>3. Answers(heap, kind, watch', death')
      BY <1>2, <1>3, <2>1 DEF Answers, At
    <2> QED
      BY <1>1, <1>2, <2>1, <2>2, <2>3, TablesKeep
  <1>5. CASE Forget
    <2>1. PICK w \in Watches : watch' = [watch EXCEPT ![w] = Idle] /\ death' = death
      BY <1>5 DEF Forget
    <2>2. watch' \in [Watches -> [state : {"idle", "watching", "cleared"}, cell : Cells \cup {Nil}]]
      BY <1>2, <2>1 DEF Idle
    <2>3. Answers(heap, kind, watch', death')
      BY <1>2, <2>1 DEF Answers, Idle
    <2> QED
      BY <1>1, <1>2, <2>1, <2>2, <2>3, TablesKeep
  <1>6. CASE OnDeath
    <2>1. PICK d \in Deaths, o \in stack : death' = [death EXCEPT ![d] = At("waiting", o)] /\ watch' = watch
      BY <1>6 DEF OnDeath
    <2>2. death' \in [Deaths -> [state : {"idle", "waiting", "dying", "told"}, cell : Cells \cup {Nil}]]
      BY <1>2, <2>1 DEF At
    <2>3. Answers(heap, kind, watch', death')
      BY <1>2, <1>3, <2>1 DEF Answers, At
    <2> QED
      BY <1>1, <1>2, <2>1, <2>2, <2>3, TablesKeep
  <1>7. CASE Cancel
    <2>1. PICK d \in Deaths : death' = [death EXCEPT ![d] = Idle] /\ watch' = watch
      BY <1>7 DEF Cancel
    <2>2. death' \in [Deaths -> [state : {"idle", "waiting", "dying", "told"}, cell : Cells \cup {Nil}]]
      BY <1>2, <2>1 DEF Idle
    <2>3. Answers(heap, kind, watch', death')
      BY <1>2, <2>1 DEF Answers, Idle
    <2> QED
      BY <1>1, <1>2, <2>1, <2>2, <2>3, TablesKeep
  <1>8. CASE Drain
    <2>1. watch' = watch /\ death' = [d \in Deaths |-> IF death[d].state = "dying" THEN At("told", Nil) ELSE death[d]]
      BY <1>8 DEF Drain
    <2>2. death' \in [Deaths -> [state : {"idle", "waiting", "dying", "told"}, cell : Cells \cup {Nil}]]
      BY <1>2, <2>1 DEF At
    <2>3. Answers(heap, kind, watch', death')
      BY <1>2, <2>1 DEF Answers, At
    <2> QED
      BY <1>1, <1>2, <2>1, <2>2, <2>3, TablesKeep
  <1> QED
    BY <1>4, <1>5, <1>6, <1>7, <1>8
\* The steps of a collection, and of a request that finds no room.
LEMMA CollectionsKeep ==
  ASSUME IInv, CollectNow \/ AskCollects
  PROVE  IInv'
  <1>1. CASE CollectNow
    <2>1. /\ pc = "run" /\ Collect({}) /\ heap' = heap /\ UNCHANGED <<kind, stack, tables, request>>
      BY <1>1 DEF CollectNow, Running
    <2>2. Alike(heap, heap')
      BY <2>1, AlikeItself
    <2>3. {} \in SUBSET Cells
      OBVIOUS
    <2> QED
      BY <2>1, <2>2, <2>3, CollectKeeps
  <1>2. CASE AskCollects
    <2>1. /\ pc = "ask" /\ Attempt.at = Nil /\ heap' = Attempt.region
          /\ UNCHANGED <<kind, stack, tables, request>>
      BY <1>2 DEF AskCollects
    <2>2. PICK junk \in {{}} \cup {{c} : c \in Scanned} : Collect(junk)
      BY <1>2 DEF AskCollects
    <2>3. heap \in RegionType /\ Sound(heap)
      BY DEF IInv, Kept
    <2>4. Scanned \subseteq Cells
      <3>1. heap.limit \in 1 .. MaxCells /\ Cells = 0 .. MaxCells - 1 /\ MaxCells \in Nat
        BY <2>3, Parts
      <3> QED
        BY <3>1 DEF Scanned
    <2>5. junk \in SUBSET Cells
      BY <2>4
    <2>6. Alike(heap, heap')
      <3>1. Outcome(heap, Attempt, request.size)
        BY <2>1, AttemptIs
      <3>2. heap' \in RegionType /\ Sound(heap') /\ SameCells(heap, heap')
        BY <2>1, <3>1 DEF Outcome, Nil, Cells
      <3> QED
        BY <2>3, <3>2, CellsAlike
    <2> QED
      BY <2>1, <2>2, <2>5, <2>6, CollectKeeps
  <1> QED
    BY <1>1, <1>2

\* So does the end of a sweep, the bound raised or not.
LEMMA SweepEndsKeeps ==
  ASSUME IInv, SweepEnds
  PROVE  IInv'
  <1>1. /\ doomed = <<>> /\ doomed' = doomed /\ marks' = marks /\ freed' = freed /\ request' = request
        /\ UNCHANGED <<kind, stack, tables>>
        /\ pc' = IF request = NoRequest THEN "run" ELSE "retry"
        /\ heap' = IF BarelyHelped THEN Grow(heap) ELSE heap
    BY DEF SweepEnds
  <1>2. Alike(heap, heap')
    <2>1. heap \in RegionType /\ Sound(heap)
      BY DEF IInv, Kept
    <2>2. Alike(heap, Grow(heap)) /\ Alike(heap, heap)
      BY <2>1, GrowAlike, AlikeItself
    <2> QED
      BY <1>1, <2>2
  <1>3. Buried = {}
    BY <1>1 DEF Buried
  <1>4. marks \subseteq Cells /\ freed \in 0 .. MaxCells /\ Fits(request, heap, kind, beside, stack, {})
    BY <1>3 DEF IInv, OtherTypes
  <1>5. Spent'
    BY <1>1 DEF Spent
  <1> QED
    BY <1>1, <1>2, <1>4, <1>5, QuietKeeps

\* So does a second attempt that finds no room, whatever comes of it.
LEMMA NoRoomKeeps ==
  ASSUME IInv, RetryGrows \/ Refuses \/ Exhausts
  PROVE  IInv'
  <1>1. pc = "retry" /\ Attempt.at = Nil /\ UNCHANGED <<kind, stack, tables>>
    BY DEF RetryGrows, Refuses, Exhausts
  <1>2. heap \in RegionType /\ Sound(heap)
    BY DEF IInv, Kept
  <1>3. Outcome(heap, Attempt, request.size)
    BY <1>1, AttemptIs
  <1>4. /\ Attempt.region \in RegionType /\ Sound(Attempt.region) /\ SameCells(heap, Attempt.region)
        /\ NoRoom(heap, request.size)
    BY <1>1, <1>3 DEF Outcome, Nil, Cells
  <1>5. Alike(heap, Attempt.region)
    BY <1>2, <1>4, CellsAlike
  <1>6. doomed = <<>> /\ request # NoRequest /\ Buried = {} /\ marks \subseteq Cells /\ freed \in 0 .. MaxCells
        /\ Fits(request, heap, kind, beside, stack, {})
    BY <1>1, NoneBuried DEF IInv, Phase, OtherTypes
  <1>7. CASE RetryGrows
    <2>1. heap' = Grow(Attempt.region) /\ pc' = pc /\ request' = request /\ marks' = marks /\ doomed' = doomed /\ freed' = freed
      BY <1>7 DEF RetryGrows, cycle
    <2>2. Alike(heap, heap')
      BY <1>4, <1>5, <2>1, GrowAlike, AlikeTwice
    <2>3. Spent'
      BY <1>1, <2>1 DEF Spent
    <2> QED
      BY <1>1, <1>6, <2>1, <2>2, <2>3, QuietKeeps
  <1>8. CASE Refuses
    <2>1. heap' = heap /\ pc' = "run" /\ request' = NoRequest /\ marks' = {} /\ doomed' = <<>> /\ freed' = 0
      BY <1>8 DEF Refuses, Resting
    <2>2. Alike(heap, heap')
      BY <2>1, AlikeItself
    <2>3. Spent' /\ 0 \in 0 .. MaxCells
      BY <2>1, RegionAssumption DEF Spent
    <2>4. Fits(request', heap, kind, beside, stack, {})
      BY <2>1 DEF Fits
    <2> QED
      BY <1>1, <1>6, <2>1, <2>2, <2>3, <2>4, QuietKeeps
  <1>9. CASE Exhausts
    <2>1. /\ heap' = Attempt.region /\ pc' = "exhausted" /\ request' = request
          /\ marks' = marks /\ doomed' = doomed /\ freed' = freed /\ ~CanGrow(heap)
      BY <1>9 DEF Exhausts, cycle
    <2>2. Alike(heap, heap')
      BY <1>5, <2>1
    <2>3. Spent'
      <3>1. heap.limit = heap.reserved
        BY <1>2, <2>1 DEF CanGrow, Sound, Layout, Bounded, RegionType
      <3>2. heap'.limit = heap'.reserved
        BY <1>4, <2>1, <3>1 DEF SameCells
      <3>3. NoRoom(heap', request.size)
        <4>1. FreeCells(heap') = FreeCells(heap) /\ heap'.limit = heap.limit /\ heap'.next = heap.next
          BY <1>4, <2>1, <2>2 DEF SameCells, Alike
        <4> QED
          BY <1>4, <4>1 DEF NoRoom
      <3> QED
        BY <2>1, <3>2, <3>3 DEF Spent
    <2> QED
      BY <1>1, <1>6, <2>1, <2>2, <2>3, QuietKeeps
  <1> QED
    BY <1>7, <1>8, <1>9

-----------------------------------------------------------------------------
(***************************************************************************)
(* The theorems.                                                           *)
(***************************************************************************)
\* The invariant holds at the start.
LEMMA HeapInit ==
  ASSUME Init
  PROVE  IInv
  <1>1. PICK w \in Worlds : heap = Fresh(w.initial, w.reserved)
    BY DEF Init
  <1>2. /\ kind = [c \in Cells |-> "none"] /\ stack = {} /\ beside = [c \in Cells |-> Nil]
        /\ watch = [x \in Watches |-> Idle] /\ death = [d \in Deaths |-> Idle] /\ ofCell = {}
        /\ pc = "run" /\ request = NoRequest /\ marks = {} /\ doomed = <<>> /\ freed = 0
    BY DEF Init
  <1>3. heap \in RegionType /\ Sound(heap) /\ Objects(heap) = {}
    BY <1>1, FreshIs, WorldAssumption
  <1>4. Buried = {}
    BY <1>2 DEF Buried
  <1>5. Kept(heap, kind, beside, stack, {})
    <2>1. BesideTypes(kind, beside, stack)
      BY <1>2 DEF BesideTypes
    <2>2. \A c \in Cells : kind[c] = "none" /\ beside[c] = Nil
      BY <1>2
    <2>3. KindsAgree(heap, kind) /\ Entries(heap, kind, beside, {}) /\ OneOwner(beside)
      BY <1>3, <2>2 DEF KindsAgree, Entries, OneOwner
    <2>4. BlocksHeld(heap, kind, beside, {}) /\ RootsKept(heap, kind, stack, {}) /\ FieldsKept(heap, kind, beside, {})
      BY <1>2, <1>3 DEF BlocksHeld, RootsKept, FieldsKept
    <2> QED
      BY <1>3, <2>1, <2>3, <2>4 DEF Kept
  <1>6. OtherTypes
    BY <1>2, RegionAssumption DEF OtherTypes, Idle
  <1>7. Fits(request, heap, kind, beside, stack, Buried)
    BY <1>2 DEF Fits
  <1>8. Phase
    BY <1>2, <1>4 DEF Phase, OnceListed
  <1>9. Answers(heap, kind, watch, death) /\ Spent
    BY <1>2 DEF Answers, Idle, Spent
  <1> QED
    BY <1>4, <1>5, <1>6, <1>7, <1>8, <1>9 DEF IInv

\* Every step keeps the invariant.
LEMMA HeapNext ==
  ASSUME IInv, [Next]_vars
  PROVE  IInv'
  <1>1. CASE NewObject \/ NewPromise \/ NewWide \/ NewGenerator \/ SpillSet
    BY <1>1, AsksKeep
  <1>2. CASE Store
    BY <1>2, StoreKeeps
  <1>3. CASE Load \/ Drop \/ Peek
    BY <1>3, StackOpsKeep
  <1>4. CASE Watch \/ Forget \/ OnDeath \/ Cancel \/ Drain
    BY <1>4, TableOpsKeep
  <1>5. CASE CollectNow \/ AskCollects
    BY <1>5, CollectionsKeep
  <1>6. CASE Release
    BY <1>6, ReleaseKeeps
  <1>7. CASE SweepEnds
    BY <1>7, SweepEndsKeeps
  <1>8. CASE FirstAsk \/ Retry
    <2>1. Answering
      BY <1>8 DEF FirstAsk, Retry, Answering
    <2> QED
      BY <2>1, AnswerKeeps
  <1>9. CASE RetryGrows \/ Refuses \/ Exhausts
    BY <1>9, NoRoomKeeps
  <1>10. CASE UNCHANGED vars
    BY <1>10 DEF vars, tables, cycle, IInv, OtherTypes, Phase, Spent, Buried
  <1> QED
    BY <1>1, <1>2, <1>3, <1>4, <1>5, <1>6, <1>7, <1>8, <1>9, <1>10 DEF Next

\* The invariant holds at every step.
LEMMA HeapInvariant == Spec => []IInv
  <1>1. Init => IInv
    BY HeapInit
  <1>2. IInv /\ [Next]_vars => IInv'
    BY HeapNext
  <1> QED
    BY <1>1, <1>2, PTL DEF Spec

\* Every variable holds what the program can put in it, for every size of the
\* region and every program.
THEOREM HeapTypes == Spec => []TypeOK
  <1>1. IInv => TypeOK
    <2> SUFFICES ASSUME IInv PROVE TypeOK
      OBVIOUS
    <2>1. heap \in RegionType /\ Bounded(heap) /\ BesideTypes(kind, beside, stack) /\ OtherTypes
      BY DEF IInv, Kept, Sound, Layout
    <2>2. MaxCells \in Nat /\ MaxCells >= 1
      BY RegionAssumption
    <2>3. {Zero, FreeMarker, Word} \cup 1 .. MaxCells = Word .. MaxCells
      BY <2>2 DEF Zero, FreeMarker, Word
    <2>4. /\ heap.word \in [Cells -> {Zero, FreeMarker, Word} \cup 1 .. MaxCells]
          /\ heap.inside \in [Cells -> BOOLEAN] /\ heap.free \in Seq(Cells)
          /\ heap.runs \in Seq([start : Cells, len : 1 .. MaxCells])
          /\ heap.field \in [Cells -> Cells \cup {Nil}] /\ heap.stale \subseteq Cells
      BY <2>1, <2>3 DEF RegionType
    <2>5. heap.next \in 0 .. heap.limit /\ heap.limit \in 1 .. heap.reserved /\ heap.reserved \in 1 .. MaxCells
      BY <2>1, <2>2 DEF RegionType, Bounded
    <2> QED
      BY <2>1, <2>4, <2>5 DEF TypeOK, BesideTypes, OtherTypes
  <1> QED
    BY <1>1, HeapInvariant, PTL

\* Every cell handed out is in one place at every step: no double free, no run
\* over an object and no cell lost, whatever is split, coalesced or rebuilt.
THEOREM OneRole == Spec => []OneRolePerCell
  <1>1. IInv => OneRolePerCell
    <2> SUFFICES ASSUME IInv PROVE OneRolePerCell
      OBVIOUS
    <2>1. heap \in RegionType /\ Sound(heap)
      BY DEF IInv, Kept
    <2>2. /\ MaxCells \in Nat /\ Cells = 0 .. MaxCells - 1 /\ heap.next \in 0 .. MaxCells
      BY <2>1, Parts
    <2>3. \A c \in Cells : Listed(c) + InRuns(c) + Owned(c) = IF c < heap.next THEN 1 ELSE 0
      <3> SUFFICES ASSUME NEW c \in Cells PROVE Listed(c) + InRuns(c) + Owned(c) = IF c < heap.next THEN 1 ELSE 0
        OBVIOUS
      <3>1. Listed(c) = TimesListed(heap, c) /\ InRuns(c) = TimesInRuns(heap, c) /\ Owned(c) = TimesOwned(heap, c)
        BY DEF Listed, InRuns, Owned, TimesListed, TimesInRuns, TimesOwned
      <3> QED
        BY <2>1, <3>1, OnePlace
    <2>4. \A c \in Cells : heap.inside[c] <=> \E o \in Objects(heap) : c \in Body(heap, o) \ {o}
      BY <2>1, FlaggedIsCovered
    <2>5. (\A c \in 0 .. heap.next - 1 : c \in Cells /\ c < heap.next)
          /\ \A c \in heap.next .. MaxCells - 1 : c \in Cells /\ ~(c < heap.next)
      BY <2>2
    <2> QED
      BY <2>3, <2>4, <2>5 DEF OneRolePerCell
  <1> QED
    BY <1>1, HeapInvariant, PTL

\* Nothing the program can reach was released, at any step of any sweep.
THEOREM ReachableKept == Spec => []NothingReachableIsFreed
  <1>1. IInv => NothingReachableIsFreed
    <2> SUFFICES ASSUME IInv PROVE Reach \subseteq Objects(heap)
      BY DEF NothingReachableIsFreed
    <2> DEFINE S == {c \in Objects(heap) : ~Dying(beside, Buried, c)}
               edges == [c \in Cells |-> ReadBy(c)]
    <2>1. /\ heap \in RegionType /\ Sound(heap) /\ BesideTypes(kind, beside, stack)
          /\ Entries(heap, kind, beside, Buried) /\ OneOwner(beside)
          /\ RootsKept(heap, kind, stack, Buried) /\ FieldsKept(heap, kind, beside, Buried)
          /\ Fits(request, heap, kind, beside, stack, Buried)
          /\ Buried \subseteq Objects(heap) \cup FreeCells(heap)
      BY DEF IInv, Kept, Phase
    <2>2. Objects(heap) \subseteq Cells /\ Buried \subseteq Cells /\ \A c \in Cells : c # Nil
      BY <2>1, Parts, FreeIsCells DEF Objects, Nil
    <2>3. ASSUME NEW x, Keepable(heap, kind, Buried, x) PROVE x \in S
      <3>1. \A p \in Buried : beside[p] # x
        BY <2>1, <2>2, <2>3, FreeNotObject DEF Keepable, Entries, BlockKind, PlainKinds
      <3> QED
        BY <2>3, <3>1 DEF Keepable, Dying
    <2>4. Rooted \subseteq S
      <3>1. stack \subseteq S
        BY <2>1, <2>3 DEF RootsKept
      <3>2. request.what = "generator" => request.owner \in S
        BY <2>1, <2>2, FitsWhat DEF Fitting, FrameWaits, Dying
      <3> QED
        BY <3>1, <3>2 DEF Rooted
    <2>5. ASSUME NEW o \in S PROVE ReadBy(o) \subseteq S
      <3>1. \A d \in Body(heap, o) \ heap.stale : heap.field[d] = Nil \/ heap.field[d] \in S
        BY <2>1, <2>3 DEF FieldsKept
      <3>2. beside[o] = Nil \/ beside[o] \in S
        <4> SUFFICES ASSUME beside[o] # Nil PROVE beside[o] \in S
          OBVIOUS
        <4>1. o \notin Buried /\ o \in Cells
          BY <2>2 DEF Dying
        <4>2. beside[o] \in Objects(heap) /\ beside[o] \notin Buried
          BY <2>1, <4>1 DEF Entries
        <4>3. \A p \in Buried : beside[p] # beside[o]
          BY <2>1, <2>2, <4>1 DEF OneOwner
        <4> QED
          BY <4>2, <4>3 DEF Dying
      <3> HIDE DEF S
      <3> QED
        BY <3>1, <3>2 DEF ReadBy
    <2>8. ClosedUnder(edges, S)
      BY <2>2, <2>5 DEF ClosedUnder
    <2>9. S \subseteq Objects(heap) /\ Rooted \in SUBSET S
      BY <2>4
    <2>10. Reach = Spread(Rooted, edges)[MaxCells]
      BY DEF Reach
    <2> HIDE DEF S, edges
    <2> QED
      BY <2>8, <2>9, <2>10, SpreadWithin, Zenon
  <1> QED
    BY <1>1, HeapInvariant, PTL

\* A block in use belongs to one object in use: none is freed twice, kept past
\* its owner or left for the next object of that cell.
THEOREM BlocksOwned == Spec => []BlocksBelong
  <1>1. IInv => BlocksBelong
    <2> SUFFICES ASSUME IInv PROVE BlocksBelong
      OBVIOUS
    <2>1. /\ Entries(heap, kind, beside, Buried) /\ OneOwner(beside) /\ BlocksHeld(heap, kind, beside, Buried)
      BY DEF IInv, Kept
    <2>2. \A o \in Cells : beside[o] # Nil /\ o \notin Buried =>
             /\ o \in Objects(heap) /\ beside[o] \in Objects(heap)
             /\ kind[beside[o]] = IF kind[o] = "generator" THEN "frame" ELSE "block"
      BY <2>1 DEF Entries, BlockKind
    <2>3. \A b \in Objects(heap) \ Buried : kind[b] = "block" => \E o \in Cells : beside[o] = b
      BY <2>1 DEF BlocksHeld
    <2> QED
      BY <2>1, <2>2, <2>3 DEF BlocksBelong, OneOwner
  <1> QED
    BY <1>1, HeapInvariant, PTL

\* A watch that still answers names an object in use.
THEOREM WatchesTold == Spec => []WatchesSeeDeath
  <1>1. IInv => WatchesSeeDeath
    BY DEF IInv, Answers, Living, WatchesSeeDeath
  <1> QED
    BY <1>1, HeapInvariant, PTL

\* The program is ended only when nothing could have been given to it: the
\* whole reservation is handed out and no stretch of free cells is long enough.
THEOREM NoRoomLeft == Spec => []ExhaustedMeansNoRoom
  <1>1. IInv => ExhaustedMeansNoRoom
    <2> SUFFICES ASSUME IInv, pc = "exhausted"
                 PROVE  /\ heap.limit = heap.reserved /\ heap.reserved - heap.next < request.size
                        /\ \A c \in Cells : c + request.size <= heap.next =>
                              \E d \in Span(c, request.size) : ~IsFreeCell(heap, d)
      BY DEF ExhaustedMeansNoRoom
    <2>1. heap \in RegionType /\ heap.limit = heap.reserved /\ NoRoom(heap, request.size)
      BY DEF IInv, Kept, Spent
    <2>2. request.size \in Nat /\ request.size >= 1
      BY FitsWhat DEF IInv, Phase, Fitting
    <2>3. heap.next \in Int /\ heap.limit \in Int /\ MaxCells \in Nat /\ Cells = 0 .. MaxCells - 1
      BY <2>1, Parts
    <2>4. heap.reserved - heap.next < request.size
      BY <2>1, <2>2, <2>3 DEF NoRoom
    <2>5. ASSUME NEW c \in Cells, c + request.size <= heap.next
          PROVE  \E d \in Span(c, request.size) : ~IsFreeCell(heap, d)
      <3>1. PICK d \in Span(c, request.size) : d \notin FreeCells(heap)
        BY <2>1, <2>3 DEF NoRoom
      <3>2. d \in 0 .. heap.next - 1
        BY <2>2, <2>3, <2>5 DEF Span
      <3> QED
        BY <3>1, <3>2 DEF FreeCells
    <2> QED
      BY <2>1, <2>4, <2>5
  <1> QED
    BY <1>1, HeapInvariant, PTL

\* A finalizer is queued by the release of its object and by nothing else, and
\* no registration on an object released is passed over.
THEOREM DeathsTold == Spec => DeathsAreTold
  <1> DEFINE Told == \A d \in Deaths : death[d].state = "waiting" =>
                       (death'[d].state = "dying" <=> death[d].cell \notin Objects(heap)')
  <1>1. IInv /\ IInv' /\ [Next]_vars => [Told]_vars
    <2> SUFFICES ASSUME IInv, IInv', Next, NEW d \in Deaths, death[d].state = "waiting"
                 PROVE  death'[d].state = "dying" <=> death[d].cell \notin Objects(heap')
      OBVIOUS
    <2>1. Living(heap, kind, death[d].cell)
      BY DEF IInv, Answers
    <2>2. ASSUME death'[d] = death[d]
          PROVE  death'[d].state = "dying" <=> death[d].cell \notin Objects(heap')
      BY <2>2 DEF IInv, Answers, Living
    <2>3. CASE Release
      <3>1. PICK c : Released(c)
        BY <2>3, ReleaseIs
      <3>2. /\ Kept(heap, kind, beside, stack, Buried) /\ c \in Buried /\ Shrunk(heap, heap', Going(beside, c))
            /\ QueueDeaths(c) /\ OtherTypes
        BY <3>1 DEF Released, IInv
      <3>3. Buried \subseteq Cells
        BY Parts, FreeIsCells DEF IInv, Phase, Kept, Objects
      <3>4. death[d].cell \in Objects(heap') <=> death[d].cell # c
        BY <2>1, <3>2, <3>3, LivingStays
      <3>5. death'[d] = IF death[d] = At("waiting", c) THEN At("dying", Nil) ELSE death[d]
        BY <3>2 DEF QueueDeaths
      <3>6. death[d] = At("waiting", c) <=> death[d].cell = c
        BY <3>2 DEF OtherTypes, At
      <3> QED
        BY <3>4, <3>5, <3>6 DEF At
    <2>4. CASE OnDeath \/ Drain
      <3>1. death \in [Deaths -> [state : {"idle", "waiting", "dying", "told"}, cell : Cells \cup {Nil}]]
        BY DEF IInv, OtherTypes
      <3>2. death'[d] = death[d]
        <4>1. CASE OnDeath
          <5>1. PICK e \in Deaths, o \in stack : death[e] = Idle /\ death' = [death EXCEPT ![e] = At("waiting", o)]
            BY <4>1 DEF OnDeath
          <5>2. e # d
            BY <5>1 DEF Idle
          <5> QED
            BY <3>1, <5>1, <5>2
        <4>2. CASE Drain
          BY <4>2 DEF Drain
        <4> QED
          BY <2>4, <4>1, <4>2
      <3> QED
        BY <2>2, <3>2
    <2>5. CASE Cancel
      <3>1. PICK e \in Deaths : death' = [death EXCEPT ![e] = Idle]
        BY <2>5 DEF Cancel
      <3>2. death \in [Deaths -> [state : {"idle", "waiting", "dying", "told"}, cell : Cells \cup {Nil}]]
        BY DEF IInv, OtherTypes
      <3>3. death'[d].state # "dying"
        BY <3>1, <3>2 DEF Idle
      <3>4. heap' = heap
        BY <2>5 DEF Cancel
      <3> QED
        BY <2>1, <3>3, <3>4 DEF Living
    <2>6. CASE ~(Release \/ OnDeath \/ Drain \/ Cancel)
      <3>1. death' = death
        BY <2>6 DEF Next, NewObject, NewPromise, NewWide, NewGenerator, SpillSet, Ask, Store, Load, Drop,
                    Watch, Peek, Forget, CollectNow, SweepEnds, FirstAsk, AskCollects, Retry, RetryGrows,
                    Refuses, Exhausts, tables
      <3> QED
        BY <2>2, <3>1
    <2> QED
      BY <2>3, <2>4, <2>5, <2>6
  <1> QED
    BY <1>1, HeapInvariant, PTL DEF Spec, DeathsAreTold

=============================================================================
