--------------------------- MODULE HeapProperties ---------------------------
(***************************************************************************)
(* What the heap promises the program and the tables beside it.            *)
(***************************************************************************)
EXTENDS Heap

\* Every variable holds what the program can put in it.
TypeOK ==
    /\ heap.next \in 0 .. heap.limit /\ heap.limit \in 1 .. heap.reserved
    /\ heap.reserved \in 1 .. MaxCells
    /\ heap.word \in [Cells -> {Zero, FreeMarker, Word} \cup 1 .. MaxCells]
    /\ heap.inside \in [Cells -> BOOLEAN]
    /\ heap.free \in Seq(Cells)
    /\ heap.runs \in Seq([start : Cells, len : 1 .. MaxCells])
    /\ heap.field \in [Cells -> Cells \cup {Nil}]
    /\ heap.stale \subseteq Cells
    /\ kind \in [Cells -> Kinds \cup {"none"}]
    /\ stack \subseteq Cells
    /\ beside \in [Cells -> Cells \cup {Nil}]
    /\ watch \in [Watches -> [state : {"idle", "watching", "cleared"}, cell : Cells \cup {Nil}]]
    /\ death \in [Deaths -> [state : {"idle", "waiting", "dying", "told"}, cell : Cells \cup {Nil}]]
    /\ ofCell \subseteq Cells
    /\ pc \in {"run", "ask", "sweep", "retry", "exhausted"}
    /\ marks \subseteq Cells /\ doomed \in Seq(Cells) /\ freed \in 0 .. MaxCells

-----------------------------------------------------------------------------
\* How many times the free list, the runs and the objects in use name a cell.
Listed(c) == Cardinality({i \in 1 .. Len(heap.free) : heap.free[i] = c})
InRuns(c) == Cardinality({i \in 1 .. Len(heap.runs) :
                 c \in Span(heap.runs[i].start, heap.runs[i].len)})
Owned(c) == Cardinality({o \in Objects(heap) : c \in Body(heap, o)})

\* Every cell handed out is in exactly one place: under one object, once on
\* the free list or in one run.  A double free, a run that overlaps an object
\* or a cell lost by a split or a coalesce shows here (Region::alloc, free,
\* take_free_run, coalesce_free_space).
OneRolePerCell ==
    /\ \A c \in 0 .. heap.next - 1 : Listed(c) + InRuns(c) + Owned(c) = 1
    /\ \A c \in Cells : heap.inside[c] <=>
           \E o \in Objects(heap) : c \in Body(heap, o) \ {o}
    /\ \A c \in heap.next .. MaxCells - 1 : Listed(c) + InRuns(c) + Owned(c) = 0

\* What the program can reach by the fields it wrote.
ReadBy(o) == ({heap.field[d] : d \in Body(heap, o) \ heap.stale} \cup {beside[o]}) \ {Nil}
Reach == Spread(Rooted, [c \in Cells |-> ReadBy(c)])[MaxCells]

\* Whatever the program can reach is an object, at every step of a sweep too:
\* nothing it names was released, and no block of it (trace::mark,
\* side_tables::edges, the rooted frame of generator_new).
NothingReachableIsFreed == Reach \subseteq Objects(heap)

\* A block belongs to one object in use, and an object's block is in use: no
\* growth frees a block twice or keeps the old one, and no burial leaves an
\* entry a later object of that cell would inherit (spill_set, bury).
Buried == {doomed[i] : i \in 1 .. Len(doomed)}
BlocksBelong ==
    /\ \A o \in Cells : beside[o] # Nil /\ o \notin Buried =>
           /\ o \in Objects(heap) /\ beside[o] \in Objects(heap)
           /\ kind[beside[o]] = IF kind[o] = "generator" THEN "frame" ELSE "block"
    /\ \A o, p \in Cells : beside[o] # Nil /\ beside[o] = beside[p] => o = p
    /\ \A b \in Objects(heap) \ Buried :
           kind[b] = "block" => \E o \in Cells : beside[o] = b

\* A watch that still answers names an object in use, so a peek never reaches
\* the next occupant of the cell (weak::clear_freed).
WatchesSeeDeath ==
    \A w \in Watches : watch[w].state = "watching" => watch[w].cell \in Objects(heap)

\* A finalizer is queued by the release of its object and by nothing else, and
\* every registration on an object released is queued (finalize::queue_freed).
DeathsAreTold ==
    [][\A d \in Deaths : death[d].state = "waiting" =>
           (death'[d].state = "dying" <=> death[d].cell \notin Objects(heap)')]_vars

\* The program is ended only with the whole reservation in use as a place for
\* what it asked: no fresh space and no stretch of free cells is long enough
\* (alloc_after_collecting, alloc_spanning_or_die, heap_exhausted).
ExhaustedMeansNoRoom ==
    pc = "exhausted" =>
        /\ heap.limit = heap.reserved /\ heap.reserved - heap.next < request.size
        /\ ~\E c \in Cells : /\ c + request.size <= heap.next
                             /\ \A d \in Span(c, request.size) : IsFreeCell(heap, d)

\* A cell the promise machine calls a promise holds one, whenever it holds an
\* object at all (Machine::of_cell, and the burial of every table keyed by
\* cell in side_tables::release).
PromisesArePromises == \A c \in ofCell \cap Objects(heap) : kind[c] = "promise"

=============================================================================
