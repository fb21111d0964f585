-------------------------------- MODULE Heap --------------------------------
(***************************************************************************)
(* A program, its region and its collector (rts-core entry::alloc,         *)
(* collect_cycle, trace, side_tables, weak, finalize).  An allocation that *)
(* finds no room marks what the roots reach, releases every other object   *)
(* in address order together with what is kept beside it, raises the       *)
(* region's bound when that did not help, and asks again.                  *)
(*                                                                         *)
(* The state:                                                              *)
(*   heap     the region                                (Context::region)  *)
(*   kind     the type in the header of each object                        *)
(*   stack    the objects the program's roots name     (roots, registers)  *)
(*   beside   the region block an object owns: the overflow of its         *)
(*            properties (spill_of), a generator's frame (generators)      *)
(*   watch    what each watch answers                     (Context::weak)  *)
(*   death    what became of each death registration      (deaths, dying)  *)
(*   ofCell   the cells the promise machine calls promises                 *)
(*            (Machine::of_cell)                                           *)
(*   pc       run, ask (an allocation is under way), sweep, retry or       *)
(*            exhausted (the program was ended)                            *)
(*   request  the allocation under way                                     *)
(*   marks, doomed, freed   the collection under way                       *)
(*   uses     what this program does (chosen once)                         *)
(***************************************************************************)
EXTENDS Region

CONSTANTS Worlds,        \* the programs: what one does, and the region it is given
          WideCells,     \* the widths object_new_wide asks for, in cells
          BlockCells,    \* the widths of an overflow, from the first on
          FrameCells,    \* the widths of a generator's frame
          MaxHeld,       \* how many objects the stack names when one is asked for
          Watches, Deaths

\* An object of several cells has a width of its own, and a program is given
\* a region that has a cell and never more than was reserved.
ASSUME WidthAssumption ==
    WideCells \cup BlockCells \cup FrameCells \subseteq Nat \ {0}
ASSUME WorldAssumption ==
    \A w \in Worlds : w.reserved \in 1 .. MaxCells /\ w.initial \in 1 .. w.reserved

VARIABLES heap, kind, stack, beside, watch, death, ofCell,
          pc, request, marks, doomed, freed, uses

tables == <<beside, watch, death, ofCell>>
cycle == <<marks, doomed, freed>>
vars == <<heap, kind, stack, tables, pc, request, cycle, uses>>

Kinds == {"object", "promise", "generator", "block", "frame"}
NoRequest == [what |-> "none", size |-> 0, owner |-> Nil, value |-> Nil]
Asking(what, size, owner, value) ==
    [what |-> what, size |-> size, owner |-> owner, value |-> value]

Idle == [state |-> "idle", cell |-> Nil]
At(state, c) == [state |-> state, cell |-> c]

Init ==
    /\ kind = [c \in Cells |-> "none"]
    /\ stack = {}
    /\ beside = [c \in Cells |-> Nil]
    /\ watch = [w \in Watches |-> Idle]
    /\ death = [d \in Deaths |-> Idle]
    /\ ofCell = {}
    /\ pc = "run" /\ request = NoRequest
    /\ marks = {} /\ doomed = <<>> /\ freed = 0
    /\ \E w \in Worlds : uses = w.uses /\ heap = Fresh(w.initial, w.reserved)

-----------------------------------------------------------------------------
(***************************************************************************)
(* The program.  An operation that allocates only asks; Ask and Retry      *)
(* answer it.                                                              *)
(***************************************************************************)
Running == pc = "run"
Ask(r) ==
    /\ Running /\ Cardinality(stack) < MaxHeld
    /\ pc' = "ask" /\ request' = r
    /\ UNCHANGED <<heap, kind, stack, tables, cycle, uses>>

NewObject == Ask(Asking("object", 1, Nil, Nil))
NewPromise == "promise" \in uses /\ Ask(Asking("promise", 1, Nil, Nil))
NewWide == "wide" \in uses /\ \E k \in WideCells : Ask(Asking("wide", k, Nil, Nil))
NewGenerator ==
    /\ "generator" \in uses
    /\ \E k \in FrameCells, v \in stack \cup {Nil} : Ask(Asking("frame", k, Nil, v))

\* A property past what the object holds: a first block, or a bigger one.
SpillSet ==
    /\ "spill" \in uses
    /\ \E o \in stack, v \in stack :
        LET held == IF beside[o] = Nil THEN 0 ELSE heap.word[beside[o]]
            wanted == {k \in BlockCells : k > held}
        IN  /\ kind[o] = "object" /\ wanted # {}
            /\ Ask(Asking("block", Min(wanted), o, v))

\* The cells whose fields are an object's, its block's included.
Fields(o) == Body(heap, o) \cup IF beside[o] = Nil THEN {} ELSE Body(heap, beside[o])

Store ==
    /\ Running /\ "links" \in uses
    /\ \E o \in stack, v \in stack \cup {Nil} : \E c \in Fields(o) :
        heap' = Write(heap, c, v)
    /\ UNCHANGED <<kind, stack, tables, pc, request, cycle, uses>>

Load ==
    /\ Running /\ "links" \in uses
    /\ \E o \in stack : \E c \in Fields(o) \ heap.stale :
        heap.field[c] # Nil /\ stack' = stack \cup {heap.field[c]}
    /\ UNCHANGED <<heap, kind, tables, pc, request, cycle, uses>>

Drop ==
    /\ Running
    /\ \E o \in stack : stack' = stack \ {o}
    /\ UNCHANGED <<heap, kind, tables, pc, request, cycle, uses>>

Watch ==
    /\ Running
    /\ \E w \in Watches, o \in stack :
        "watch" \in uses /\ watch[w] = Idle /\ watch' = [watch EXCEPT ![w] = At("watching", o)]
    /\ UNCHANGED <<heap, kind, stack, beside, death, ofCell, pc, request, cycle, uses>>

Peek ==
    /\ Running
    /\ \E w \in Watches :
        watch[w].state = "watching" /\ stack' = stack \cup {watch[w].cell}
    /\ UNCHANGED <<heap, kind, tables, pc, request, cycle, uses>>

Forget ==
    /\ Running
    /\ \E w \in Watches : watch[w] # Idle /\ watch' = [watch EXCEPT ![w] = Idle]
    /\ UNCHANGED <<heap, kind, stack, beside, death, ofCell, pc, request, cycle, uses>>

OnDeath ==
    /\ Running
    /\ \E d \in Deaths, o \in stack :
        "watch" \in uses /\ death[d] = Idle /\ death' = [death EXCEPT ![d] = At("waiting", o)]
    /\ UNCHANGED <<heap, kind, stack, beside, watch, ofCell, pc, request, cycle, uses>>

Cancel ==
    /\ Running
    /\ \E d \in Deaths : death[d].state = "waiting" /\ death' = [death EXCEPT ![d] = Idle]
    /\ UNCHANGED <<heap, kind, stack, beside, watch, ofCell, pc, request, cycle, uses>>

\* The queue taken whole and every callback in it called.
Drain ==
    /\ Running
    /\ \E d \in Deaths : death[d].state = "dying"
    /\ death' = [d \in Deaths |-> IF death[d].state = "dying" THEN At("told", Nil) ELSE death[d]]
    /\ UNCHANGED <<heap, kind, stack, beside, watch, ofCell, pc, request, cycle, uses>>

-----------------------------------------------------------------------------
(***************************************************************************)
(* The collection.  What a cell names lives in it and beside it; the       *)
(* frame of a generator under construction is rooted by hand, and a stale  *)
(* word on the stack may name any cell.                                    *)
(***************************************************************************)
\* (mutant) The block an object owns is not marked with it.
EdgesInCell(c) ==
    IF c \notin Objects(heap) THEN {}
    ELSE {heap.field[d] : d \in Body(heap, c)} \ {Nil}

Edges(c) ==
    IF c \notin Objects(heap) THEN {}
    ELSE ({heap.field[d] : d \in Body(heap, c)} \cup {beside[c]}) \ {Nil}

Rooted == stack \cup IF request.what = "generator" THEN {request.owner} ELSE {}

\* What is named from some cells, step by step along the edges between cells.
Spread(roots, edges) ==
    LET reach[n \in 0 .. MaxCells] ==
            IF n = 0 THEN roots
            ELSE reach[n - 1] \cup UNION {edges[c] : c \in reach[n - 1]}
    IN  reach
Marked(roots) == Spread(roots, [c \in Cells |-> Edges(c)])[MaxCells]

\* The whole set of the doomed is decided before any is released.
Collect(junk) ==
    \E m \in {Marked(Rooted \cup junk)} :
        \E dead \in {Ascending(Objects(heap) \ m)} :
            /\ marks' = m /\ doomed' = dead /\ freed' = Len(dead)
            /\ pc' = "sweep"

\* collect_now: a collection nothing asked for room in.
CollectNow ==
    /\ Running /\ "collect" \in uses
    /\ Collect({})
    /\ UNCHANGED <<heap, kind, stack, tables, request, uses>>

\* (mutants) A watch and a registration the release of their object misses.
ClearNoWatch(c) == watch' = watch
QueueNoDeath(c) == death' = death

ClearWatches(c) ==
    watch' = [w \in Watches |->
                 IF watch[w] = At("watching", c) THEN At("cleared", c) ELSE watch[w]]
QueueDeaths(c) ==
    death' = [d \in Deaths |->
                 IF death[d] = At("waiting", c) THEN At("dying", Nil) ELSE death[d]]

\* The block an object owned goes with it.
Bury(c) == IF beside[c] = Nil THEN heap ELSE Free(heap, beside[c])

Release ==
    /\ pc = "sweep" /\ doomed # <<>>
    /\ \E c \in {Head(doomed)} : \E rest \in {Free(Bury(c), c)} :
           /\ ClearWatches(c)
           /\ beside' = [beside EXCEPT ![c] = Nil]
           /\ QueueDeaths(c)
           /\ heap' = rest
           /\ kind' = [d \in Cells |-> IF d \in Objects(rest) THEN kind[d] ELSE "none"]
    /\ doomed' = Tail(doomed)
    /\ UNCHANGED <<stack, ofCell, pc, request, marks, freed, uses>>

\* A cycle that reclaimed less than half the region raises its bound, for an
\* object that fits a cell.
OneCell == {"object", "promise", "generator"}
BarelyHelped == request.what \in OneCell /\ freed * 2 < heap.limit

SweepEnds ==
    /\ pc = "sweep" /\ doomed = <<>>
    /\ pc' = IF request = NoRequest THEN "run" ELSE "retry"
    /\ heap' = IF BarelyHelped THEN Grow(heap) ELSE heap
    /\ UNCHANGED <<kind, stack, tables, request, marks, doomed, freed, uses>>

-----------------------------------------------------------------------------
(***************************************************************************)
(* Answering a request.                                                    *)
(***************************************************************************)
Attempt == IF request.what \in OneCell THEN Alloc(heap) ELSE AllocSpanning(heap, request.size)

\* (mutant) The block that was outgrown is left to the sweep.
SpilledKeepsOld(r, c) ==
    [r EXCEPT !.field[c + request.size - 1] = request.value,
              !.word = [d \in Cells |-> IF d \in Body(r, c) \ {c} THEN Word ELSE @[d]],
              !.stale = @ \ Body(r, c)]

\* The new overflow: every word written, what the old one held copied, the
\* value that did not fit put last, the old one freed.
Spilled(r, c) ==
    LET old == beside[request.owner]
        body == Body(r, c)
        last == c + request.size - 1
        kept(d) == IF old # Nil /\ old + (d - c) \in Body(r, old)
                   THEN r.field[old + (d - c)] ELSE Nil
        full == [r EXCEPT !.field = [d \in Cells |-> IF d = last THEN request.value
                                                     ELSE IF d \in body THEN kept(d) ELSE @[d]],
                          !.word = [d \in Cells |-> IF d \in body \ {c} THEN Word ELSE @[d]],
                          !.stale = @ \ body]
    IN  IF old = Nil THEN full ELSE Free(full, old)

Filled(r, c) ==
    CASE request.what = "block" -> Spilled(r, c)
      [] request.what = "frame" -> Write(r, c, request.value)
      [] OTHER -> r
Named == IF request.what = "wide" THEN "object" ELSE request.what

Answered(h, c) ==
    /\ heap' = h
    /\ kind' = [d \in Cells |-> IF d = c THEN Named
                                    ELSE IF d \in Objects(h) THEN kind[d] ELSE "none"]
    /\ beside' = CASE request.what = "block" -> [beside EXCEPT ![request.owner] = c]
                       [] request.what = "generator" -> [beside EXCEPT ![c] = request.owner]
                       [] OTHER -> beside
    /\ stack' = IF request.what \in {"block", "frame"} THEN stack ELSE stack \cup {c}
    /\ ofCell' = IF request.what = "promise" THEN ofCell \cup {c} ELSE ofCell
    /\ IF request.what = "frame"
       THEN pc' = "ask" /\ request' = Asking("generator", 1, c, Nil)
       ELSE pc' = "run" /\ request' = NoRequest

\* What a stale word of the stack decodes to: any cell of the region.
Scanned == IF "scan" \in uses THEN 0 .. heap.limit - 1 ELSE {}

Resting == marks' = {} /\ doomed' = <<>> /\ freed' = 0

FirstAsk ==
    /\ pc = "ask"
    /\ \E took \in {Attempt} :
        took.at # Nil /\ \E h \in {Filled(took.region, took.at)} : Answered(h, took.at)
    /\ Resting
    /\ UNCHANGED <<watch, death, uses>>

AskCollects ==
    /\ pc = "ask"
    /\ \E took \in {Attempt} : took.at = Nil /\ heap' = took.region
    /\ \E junk \in {{}} \cup {{c} : c \in Scanned} : Collect(junk)
    /\ UNCHANGED <<kind, stack, tables, request, uses>>

Retry ==
    /\ pc = "retry"
    /\ \E took \in {Attempt} :
        took.at # Nil /\ \E h \in {Filled(took.region, took.at)} : Answered(h, took.at)
    /\ Resting
    /\ UNCHANGED <<watch, death, uses>>

RetryGrows ==
    /\ pc = "retry" /\ CanGrow(heap)
    /\ \E took \in {Attempt} : took.at = Nil /\ heap' = Grow(took.region)
    /\ UNCHANGED <<kind, stack, tables, pc, request, cycle, uses>>

\* The allocations made through native::plain answer undefined instead, and
\* the program goes on: a frame already taken is left to the next sweep.
Soft == {"promise", "generator"}

Refuses ==
    /\ pc = "retry" /\ ~CanGrow(heap) /\ request.what \in Soft
    /\ Attempt.at = Nil
    /\ pc' = "run" /\ request' = NoRequest
    /\ Resting
    /\ UNCHANGED <<heap, kind, stack, tables, uses>>

Exhausts ==
    /\ pc = "retry" /\ ~CanGrow(heap) /\ request.what \notin Soft
    /\ \E took \in {Attempt} : took.at = Nil /\ heap' = took.region
    /\ pc' = "exhausted"
    /\ UNCHANGED <<kind, stack, tables, request, cycle, uses>>

-----------------------------------------------------------------------------
Next ==
    \/ NewObject \/ NewPromise \/ NewWide \/ NewGenerator \/ SpillSet
    \/ Store \/ Load \/ Drop
    \/ Watch \/ Peek \/ Forget \/ OnDeath \/ Cancel \/ Drain
    \/ CollectNow \/ Release \/ SweepEnds
    \/ FirstAsk \/ AskCollects \/ Retry \/ RetryGrows \/ Refuses \/ Exhausts

Spec == Init /\ [][Next]_vars
=============================================================================
