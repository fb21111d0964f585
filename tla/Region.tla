------------------------------- MODULE Region -------------------------------
(***************************************************************************)
(* The region a program's objects live in (rts-core heap::region): cells   *)
(* of one size in one allocation that never moves.  A region is a record   *)
(*                                                                         *)
(*   next    the first cell never handed out          (Cursor::next)       *)
(*   limit   how many cells it may hand out now       (Cursor::limit)      *)
(*   reserved  the bound growth may raise that to     (Region::reserved)   *)
(*   word    the first word of each cell: the header of the object that    *)
(*           starts there, the marker of a free cell, or a value of the    *)
(*           wide object that covers it                                    *)
(*   inside  the cells a wide object covers past its first                 *)
(*   free    the free list, its head first                                 *)
(*   runs    the stretches of free cells kept for wide objects             *)
(*   field   the reference the rest of each cell carries, or Nil (zeroed)  *)
(*   stale   the cells whose field an earlier occupant wrote (no variable  *)
(*           of the program: it tells a left-over word from a written one) *)
(*                                                                         *)
(* A header is the number of cells its object covers: the type beside the  *)
(* width is kept by the module that composes this one.  The list threads   *)
(* through the cells' second words, which nothing writes while a cell is   *)
(* free, so the sequence of its cells stands for it.                       *)
(***************************************************************************)
EXTENDS Integers, Sequences, SequencesExt, FiniteSetsExt

CONSTANT MaxCells   \* no region reserves more

ASSUME RegionAssumption == MaxCells \in Nat \ {0}

Cells == 0 .. MaxCells - 1
Nil == -1           \* no cell: an allocation refused, a zeroed field
Zero == 0           \* the first word of a cell never written
FreeMarker == -1    \* FREE_MARKER
Word == -2          \* a value where a header would be

Fresh(initial, reserved) ==
         [next   |-> 0,
          limit  |-> initial,
          reserved |-> reserved,
          word   |-> [c \in Cells |-> Zero],
          inside |-> [c \in Cells |-> FALSE],
          free   |-> <<>>,
          runs   |-> <<>>,
          field  |-> [c \in Cells |-> Nil],
          stale  |-> {}]

\* The cells of an object of k cells that starts at c, and what each_live
\* visits: a cell in use that no wide object covers.
Span(c, k) == c .. c + k - 1
Objects(r) == {c \in 0 .. r.next - 1 : ~r.inside[c] /\ r.word[c] # FreeMarker}
Body(r, c) == Span(c, Max({1, r.word[c]}))
IsFreeCell(r, c) == r.word[c] = FreeMarker /\ ~r.inside[c]

-----------------------------------------------------------------------------
(***************************************************************************)
(* Taking cells.  Each operation answers the region and the first cell     *)
(* taken, Nil when it refused.                                             *)
(***************************************************************************)
Took(r, c) == [region |-> r, at |-> c]

\* swap_remove: the last element takes the place of the one removed.
SwapRemove(s, i) ==
    [j \in 1 .. Len(s) - 1 |-> IF j = i THEN s[Len(s)] ELSE s[j]]

\* First fit, the rest of the run kept as a run.
TakeRun(r, k) ==
    LET fits == {i \in 1 .. Len(r.runs) : r.runs[i].len >= k}
        at == Min(fits)
        run == r.runs[at]
        rest == [start |-> run.start + k, len |-> run.len - k]
        others == SwapRemove(r.runs, at)
    IN  IF fits = {} THEN Took(r, Nil)
        ELSE Took([r EXCEPT !.runs = IF run.len > k THEN Append(others, rest)
                                     ELSE others], run.start)

\* A header over one cell whose payload is zeroed.
Plain(r, c) == [r EXCEPT !.word[c] = 1, !.field[c] = Nil, !.stale = @ \ {c}]

\* The list first, then fresh space, then the first cell of a run.
Alloc(r) ==
    IF r.free # <<>> THEN
        Took(Plain([r EXCEPT !.free = Tail(@)], Head(r.free)), Head(r.free))
    ELSE IF r.next < r.limit THEN
        Took([r EXCEPT !.next = @ + 1, !.word[r.next] = 1], r.next)
    ELSE LET took == TakeRun(r, 1)
         IN  IF took.at = Nil THEN took
             ELSE Took(Plain(took.region, took.at), took.at)

\* Where a stretch of free cells starts, and the first cell past it.
Starts(r) == {c \in 0 .. r.next - 1 : IsFreeCell(r, c) /\ (c > 0 => ~IsFreeCell(r, c - 1))}
EndOf(r, c) == Min({e \in c + 1 .. r.next : e = r.next \/ ~IsFreeCell(r, e)})

\* Cells in address order: the i-th is the one with i - 1 below it.
Ascending(S) ==
    LET below == [c \in S |-> {d \in S : d < c}]
    IN  [i \in 1 .. Cardinality(S) |-> CHOOSE c \in S : Cardinality(below[c]) = i - 1]

\* Both structures rebuilt from the headers: a stretch of two or more is a
\* run, a single cell goes on the list, the last one at its head.
Coalesce(r) ==
    LET single == Ascending({c \in Starts(r) : EndOf(r, c) = c + 1})
        wide == Ascending({c \in Starts(r) : EndOf(r, c) > c + 1})
    IN  [r EXCEPT !.runs = [i \in 1 .. Len(wide) |->
                               [start |-> wide[i], len |-> EndOf(r, wide[i]) - wide[i]]],
                  !.free = Reverse(single)]

\* The header over the first cell, the others flagged; no payload is touched.
Occupy(r, c, k) ==
    LET left == {d \in Span(c, k) : r.field[d] # Nil}
    IN  [r EXCEPT !.word[c] = k,
                  !.inside = [d \in Cells |-> @[d] \/ d \in c + 1 .. c + k - 1],
                  !.stale = @ \cup left]

\* (mutant) The dead narrow neighbours are never made into a run.
AllocSpanningNeverCoalesces(r, k) ==
    LET took == TakeRun(r, k)
    IN  IF k <= r.limit - r.next THEN
            Took(Occupy([r EXCEPT !.next = @ + k], r.next, k), r.next)
        ELSE IF k = 1 THEN Alloc(r)
        ELSE IF took.at = Nil THEN took
        ELSE Took(Occupy(took.region, took.at, k), took.at)

AllocSpanning(r, k) ==
    LET again == Coalesce(r)
        first == TakeRun(r, k)
        second == TakeRun(again, k)
        took == IF first.at # Nil THEN first ELSE second
    IN  IF k <= r.limit - r.next THEN
            Took(Occupy([r EXCEPT !.next = @ + k], r.next, k), r.next)
        ELSE IF k = 1 THEN Alloc(r)
        ELSE IF took.at = Nil THEN took
        ELSE Took(Occupy(took.region, took.at, k), took.at)

-----------------------------------------------------------------------------
\* (mutant) A wide object's first cell comes back alone.
FreeFirstCell(r, c) ==
    IF c >= r.next \/ r.word[c] = FreeMarker THEN r
    ELSE [r EXCEPT !.word[c] = FreeMarker, !.inside[c] = FALSE, !.free = <<c>> \o @]

\* Giving an object back: refused for a cell never allocated and for one that
\* is free.  A wide object's cells come back as one run, a narrow one's on the
\* list.
Free(r, c) ==
    LET body == Body(r, c)
        marked == [r EXCEPT !.word = [d \in Cells |-> IF d \in body THEN FreeMarker ELSE @[d]],
                            !.inside = [d \in Cells |-> @[d] /\ d \notin body],
                            !.stale = @ \ body]
    IN  IF c >= r.next \/ r.word[c] = FreeMarker THEN r
        ELSE IF r.word[c] > 1 THEN
            [marked EXCEPT !.runs = Append(@, [start |-> c, len |-> r.word[c]])]
        ELSE [marked EXCEPT !.free = <<c>> \o @]

\* (mutant) The bound raised past the reservation.
GrowPastReserved(r) == [r EXCEPT !.limit = 2 * @]

\* The bound doubled, up to what was reserved.
CanGrow(r) == r.limit < r.reserved
Grow(r) == IF CanGrow(r) THEN [r EXCEPT !.limit = Min({2 * @, r.reserved})] ELSE r

\* A field written by the object that owns it: the word past the header of the
\* cell and, in a covered cell, the word where a header would be.
Write(r, c, v) ==
    [r EXCEPT !.field[c] = v, !.stale = @ \ {c},
              !.word[c] = IF r.inside[c] THEN Word ELSE @]
=============================================================================
