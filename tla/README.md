# A verification project for rts

rts compiles TypeScript ahead of time and runs it on a runtime of its own. This
directory holds TLA+ modules that model the parts of that runtime where order,
re-entry and reuse make correctness hard, the TLC configurations that check them on
small instances, and proofs of the central facts that TLAPS checks for every
instance. Paths below are under `src/crates/`.

Run a model with `tlc -workers 2 -config heap.cfg MCHeap`, a proof with
`tlapm PromisesProofs.tla`. `PROJECT.json` lists every run, the lines each
definition models, the mutations that break each property, the hazards, the
findings and the theorems.

## 1. The system

A program is compiled by `rts-codegen` through `rts-mir` and `rts-cranelift` to
machine code, which calls the runtime in `rts-core`; `rts-host` (or, ahead of time,
`rts-runtime-boot`) starts it and turns its event loop. Everything the program
touches at run time lives in one `Context` per region, on one thread; other threads
(workers, N-API addons, sockets) only reach it through channels that loop sources
poll.

| component | state | operations | what is hard | what makes it correct |
|---|---|---|---|---|
| promises (`rts-core/src/entry/promise`) | table of promises, reactions, settler pairs, groups, microtask queue | class statics and methods, settlers, combinators, async start and resume, drain | user code runs inside the drain and inside most operations, and comes back in | no lost or repeated reaction, order, one decision, exact report, groups answer, nothing orphaned |
| settlements (`rts-core/src/schedule`) | settled values, unnoticed rejections, awaited list | record, noticed, take_unhandled, awaiting, awaited | a handler may come late | reported exactly once, exactly when unhandled |
| machine scheduler (`rts-cranelift/src/sched`) | promise cells with waiters, per-region queues, cancel flags | create, settle, adopt, park, accept, cancel, schedule, next | adoption graphs, several regions, hand-over | waiters woken once, in order, in a region they belong to; no cycles |
| region allocator (`rts-core/src/heap/region`) | bump bound, free list, free runs, headers, interior marks | alloc, alloc_spanning, free, coalesce, grow | wide objects and cells share one space | each cell has one role |
| collector (`rts-core/src/entry/{alloc,collect_cycle,trace,finalize,weak,side_tables}`) | marks, the doomed, tables beside the cells | allocate (collect, grow, retry), mark, sweep, bury, watch, register, drain | state held across an allocation; reuse of cells named elsewhere | nothing reachable freed, tables agree with cells |
| generators (`rts-core/src/entry/generator`) | frame cell and resumption state | new, next, return, throw, delegate | re-entry; a frame nobody names yet | frame lives while its generator does |
| event loop (`rts-core/src/entry/loops.rs`, `rts-host/src/run.rs`, `promise/machine.rs`) | list of sources, the stack of drains, passes and awaits | declare, pump, two passes, wait, blocking await | a source enables another already asked; the loop turned from inside itself | nothing outstanding is abandoned, the loop ends |
| timers (`rts-node/src/timers`) | table by id | set, clear, refresh, ref, pump, abort | callbacks change the table the pump has taken from | one call per arming, reactions run between two calls |
| N-API concurrency (`rts-napi/src/{threadsafe,async_work}.rs`) | counts, channels, atomics | call, acquire, release, deliver, complete | real threads | items delivered, completions told, the program stays open while it must |
| streams (`rts-node/src/stream`) | buffers, pipes, the parked read, the end that is due | push, read, pause, resume, pipe, write, end, cork, next | every method calls the program in the middle | no chunk lost or skipped, ends last, no read orphaned |
| inline caches and shapes (`rts-core/src/entry/cache.rs`, `rts-cranelift/src/{shape,lower}`) | layout and place by site, chain epoch, types | resolve, recognise, grow, retype | a remembered fact against later mutation | a hit answers and does what the slow path would |
| workers, events (`rts-node`) | registries, listener lists | post, terminate, emit | two contexts, two threads | no message lost |

The remaining crates (compiler, document tree, drawing, audio, physics, linker,
command line, the rest of the Node library) are data transformations or platform
I/O: `PROJECT.json` lists each with its reason for being left out.

Interactions that matter: a `settle` in the promise layer calls the machine
scheduler, whose queue is the microtask queue; the host drains it after the entry
point, between loop passes and once more at the end, and so do the timers after each
callback and a blocking await inside any of them; every promise is a heap cell, and the
promise layer finds it by cell number; finalizers queued by a sweep run in the next
drain; streams deliver their end and parked reads from a loop source; every object
operation may change a type some site of compiled code compares.

## 2. Plan

Done, in this order: promises (`PromiseMachine`, `Promises`, the abstract
`PromiseContract`, proofs), the machine scheduler (`Sched`), the heap (`Region`,
`Heap`), the event loop with timers and N-API (`Timers`, `Loop`), streams (`Streams`),
inline caches (`Caches`).

What would come next:

1. **Proofs**: the recursive walk of `Caches` (`Chain`), on which `ReadsAgree` and
   `StoresAgree` rest, and its types.
2. **Workers** (`rts-node/src/worker_threads`): two loops and the channels between them,
   with the process-wide queues other modules share (`crypto/kdf/deferred.rs:76`).
3. **Generators**: resumption, delegation and completion over frames; **events**: the
   listener table under emission; the `awaited` list of two awaits on one promise.

## 3. Modules and the code

### PromiseMachine, Promises

`PromiseMachine` is the context's `Machine` as one record: `state`, `waiters`
(PromiseTable), `value`, `unnoticed` (Settlements), `reactions` and `taken` (the
`Vec<Option<Reaction>>`), `queue` (the scheduler's queue), `pairs`, `groups`. Each verb
(`Settle`, `Resolve`, `React`, `CallSettler`, `Advance`, `Combine`, ...) is an operator
from machine to machine that follows the Rust function of that name.

`Promises` gives it a program. The program is enumerated, not fixed: whenever its code
is on top of `stack` it may call any operation it uses with any value it can name,
return or throw. `stack` holds the pieces of user code that are running - the turn, a
handler, an executor, a foreign `then` or its getter, an async body - with what is
owed when each ends; the code in `drain.rs` and `class.rs` after such a call is the
action that ends the frame. `RunXxx` are the arms of `prepare`/`perform`. `Report` ends
a drain. `named` and `held` are the promises and settler pairs the program still
holds; they limit what it can do to what a program could.

Values are `plain`, `promise`, `thenable` (its `then` runs user code with a pair) and
`getter` (reading its `then` runs user code). What a value contains otherwise, error
texts, and the function objects are abstracted.

### Sched

The scheduler of the machine layer used on its own, by several regions: `state`,
`waiters`, `owner` are `PromiseTable`; `ready`, `tasks`, `cancelled` are each region's
`Queues`; `parcels` are the values of `Delivery::Elsewhere` between the `settle` that
returned them and the `accept` of their owner. `TableSettle` is the loop of
`PromiseTable::settle` with its stack, so adopters settle in the order the code gives.
Any region may park on any promise, settled or not; `late` is history, the frames parked
on a settled one with the region that parked them. `Uses` says whether promises of
different regions adopt one another (they do in the run) and whether a promise with
waiters may adopt a settled one (it may not: section 6).

### Region, Heap

`Region` is the allocator over one record: `next`, `limit` (capacity), `reserved`,
`word` (the header's width word, zero, `FreeMarker` or an ordinary word), `inside`
(spanned_interior), `free` (the list, first cell first - its link words abstracted),
`runs`, `field` (one reference per cell) and `stale` (cells of an object nobody wrote
since an earlier occupant). `Alloc`, `AllocSpanning`, `TakeRun`, `Coalesce`, `Free` and
`Grow` follow the functions of those names; compiled code pops the free list and bumps
`next` as the first branches of `Alloc` do.

`Heap` is the program over it. An operation that allocates only files a `request`;
`FirstAsk`, `AskCollects`, `Release` (one doomed cell at a time, with the burial of
what lies beside it), `SweepEnds`, `RetryGrows`, `Retry`, `Refuses` and `Exhausts` are
the steps of `alloc_after_collecting` and `alloc_spanning_or_die`. Between them the
operation is in the middle: a generator has its frame and no object, an overflow is
about to replace the old block. `stack` are the objects the roots name. With `scan` a
stale word may pin any one cell, as the conservative stack scan does.

A program is given a region that has a cell and never more than was reserved
(`WorldAssumption`), and every width is at least one cell (`WidthAssumption`).

Abstractions: `beside` stands for `spill_of` and `generators` (kinds with an overflow
and with a frame are disjoint here); each cell holds one reference; texts, array
stores, proxies and the other side tables hold no region memory of their own and are
left out; generators never finish.

### Timers, Loop

`Timers` is the table of `rts-node/src/timers`: what is registered, what is due and in
which order, what a pump takes and keeps, and what the source answers. `Loop` is the
JavaScript thread as a stack of what runs: the host's loop, a drain, a pass over the
sources, the timers' pump, a batch of deferred callbacks, a blocking await, and pieces
of the program, which may use any operation of its `uses` while `fuel` lasts. Each
early return, each look at a table and each call out is an action of its own, so
callbacks, drains, pumps and passes nest as they do on the real stack. Four sources are
modelled: timers (with the promise timers), the deferred callbacks of `process.nextTick`
and of the key derivations (one queue, asked before or after the timers), thread-safe
functions and asynchronous work. The threads of an addon take their own steps between
any two of those: the look at `closing` and the send of a call are two of them.
Time is a step that lowers what is left of every timer, taken only where the code reads
the clock. Promises are reduced to what the loop needs: settled or not, and how many
reactions wait and are queued (`Promises` has the rest). `credit`, `late`, `escaped` and
`why` are history for the properties: `late` is what was started when the source it
needs is not asked again, which for a thread-safe function begins when the host's first
pass has asked for items, since an item counts only where both passes look
(`AskedOnce`). A program always has the source of its timers, and the one of deferred
callbacks when it defers any (`WorldAssumption`): `rts-node` declares them as it is set up.

### Streams

One Readable, the Writables it may be piped to, the stack of the functions that run
(`push`, `drain_all`, `deliver_data`, `unpipe`, `pump`, `finish_end_now`, `next`, `write`,
`drain_queue`, `finalize_write`, `end`, `maybe_finish`, `finish`) and of the listeners and
hooks they call, in each of which the program may call any method again. What a function
keeps in a local across such a call is a field of its frame. `pending` is the stack of
write completions that stands for bound callbacks, `ending` the membership in ENDING.
A chunk is an identity and a size, and the size may be zero, as `size_of` answers for an
empty string.

### Caches

`m` is every object (its type, link, accessors, read-only keys, integrity level, whether
it is a flagged link of a chain) and what the sites remember. A type is the shape, the
link it was minted under, and a stamp for the types `retype` gives to one cell; equality
of these is equality of type numbers. `ResolveRead`, `ResolveCall` and `ResolveStore` are
the three resolvers; `Valid`, `Recognised`, `Answer` and `StoreHit` are the code
`lower/body.rs` emits for a site; the other actions are what the program does to its
objects elsewhere. A site is asked of any object at any time; `ReadsAgree` compares what
it would answer with the runtime's own walk (`Resolve`) and `StoresAgree` what it would do
with the runtime's own store (`SetProperty`): the slow path is the specification.

The programs of the passing run are orderly in three respects, because the code needs
them to be:

1. an object that has been given an accessor or a read-only property is not grown,
   shrunk or relinked afterwards (`Plain`);
2. a store site that may grow its receiver never meets a prototype (`Stores`);
3. `Object.create` and a `null` prototype are not used where a site reads (`Programs`).

Section 6 says what each restriction hides. Sites that store do meet objects that were
closed, sealed or frozen, objects of `Object.create` and without a prototype, and
prototypes that are given a setter or a read-only property after the site was filled
(`late` is history, the keys for which that happened). What the code then does wrong the
properties name one by one (`Excepted` of `StoresAgree`, `Unproven` of `TypesProve`), and
everything else about such objects is still checked.

## 4. Runs

| run | what is explored | what it shows |
|---|---|---|
| `promises` | reactions on reactions and resolution with promises over two turns; combinators; async bodies; executors, `try`, thenables and getters | types, placement, report, agreement, single decision, nothing orphaned, groups answer, the contract, progress (326 thousand states) |
| `promises_executor` | an executor throws after leaking its settlers | violation, finding 1 |
| `sched` | parking early and late, settling, adopting within and across regions, cancelling, in two regions | every frame is woken once, in order, in a region it belongs to, before tasks; chains end and settle through (581 thousand states) |
| `heap` | seven programs on tiny regions, up to exhaustion | one role per cell, nothing reachable freed, blocks, watches and registrations agree with the cells, the program ends only without room (331 thousand states) |
| `heap_identity` | a promise dies and its cell is reused | violation, finding 2 |
| `loop` | eleven kinds of program: callbacks that set, clear and refresh timers, intervals, sleeps and aborts, nested awaits, throws, deferred callbacks on either side of the timers, two threads on a thread-safe function, asynchronous work, finalizers | one call per arming, nothing outstanding abandoned, items and completions delivered, a checkpoint between timers, the loop ends (260 thousand states) |
| `loop_stall` | an await inside a timer's callback | violation, finding 3 |
| `loop_uncaught` | a throw with a reaction queued | violation, finding 4 |
| `streams` | ten kinds of program: paused and flowing reads, iteration, pipes made and dropped in mid-delivery, sinks that call back at once or later, corking, `_final`; any chunk may be empty | each chunk in one place, pipes get all, ends come last, no read is orphaned, the end comes (924 thousand states) |
| `streams_pipe` | a chunk as large as the destination's high-water mark | violation, finding 5 |
| `caches` | fourteen kinds of program that grow, shrink, relink, close, seal, freeze and redefine what sites remember | sites answer and do what the runtime would, and a type proves its link, with the exceptions the properties name (736 thousand states) |
| `caches_links` | `Object.create` under a warm absence | violation, finding 6 |

**Bounds.** Promises: three promises, three reactions, two pairs, two nested pieces of
code, one or two turns. Three promises are a chain with a middle; three reactions are
two on one promise and one that it feeds; two pieces of code are user code inside user
code. `Programs` splits the operations into groups that interact, because all of them at
once only multiplies states; the same holds of the other models' `Worlds`, where `fuel`
bounds the calls a program makes. Sched: three promises in one region or one in each of
two, two frames, one task, two adoptions, one cancellation: a chain of three, two waiters
whose order can differ, one task that could run early; the two promises of two regions adopt
one another and are parked on, late, from either. Heap: two to six cells with growth
from the initial to the reserved bound, wide objects of two cells, overflows of two then
three cells, frames of one or two, two objects on the stack, one watch and one
registration: each world is large enough to fragment, to collect, to grow and to be
exhausted. Loop: two timers, delays of at most two, two threads that send or hand over
once each, two to five operations: one timer can disturb another, one thread can release while
the other sends. Streams: two Writables, chunks of size zero or two against a high-water
mark of two (a chunk can fill a Writable alone, or be one the length does not show), three
to six calls.
Caches: three prototypes (two links and `Object.prototype`), two objects below them, two
types of one cell's own, three to five changes, and a depth limit of three where the
code has sixteen, so that all three ways a callee read may be vouched for (one link, two,
the epoch) occur.

**Deadlock** is not checked: programs end (a promise program with nothing to run, a
scheduler whose clients ask for nothing more, a heap that ended the program, a loop that
is over, a stream nobody writes to, a program without fuel).

**Fairness.** `Promises`: weak fairness of the drain, of user code ending, and of the
end of a turn, because one thread executes them and user code is assumed to end.
`Sched`: weak fairness of `RunNext` and `Accept`, as a region runs until idle and takes
what is handed to it. What clients ask is never forced. `Loop`: weak fairness of the
JavaScript thread (it runs, and `fuel` makes the program's code end), of time, and of the
addon's threads, which the loop waits for by design. `Streams`: weak fairness of the
functions that run, and strong fairness of the source being asked, because every pass of
the host's loop asks every source, so a program that keeps calling from elsewhere does
not keep the pass from coming. `Heap` and `Caches` state none: their properties are
safety.

**What is not shown by construction.** Every property of a passing run has a mutant in
`PROJECT.json`: a plausible slip in one definition (written beside it in the module)
under which TLC finds the property violated in that run.

## 5. Proofs

Every theorem holds for all values of the constants that satisfy the named assumptions
of the model's own modules; the few that assume more say so in their statement. `Iteration` holds the lemmas the
other proof modules share: induction over an interval (`SetInduction`), that a recursive
function given turn by turn exists and is what its definition says (`Iterates`), and the
ranks of the elements of a finite set of integers.

### Promises (`PromisesProofs`, `FateProofs`)

`PromisesProofs` proves first that each verb keeps a sound machine sound and forgets
nothing, then puts the actions together from them, from the two assumptions of `Promises`
(what `Programs` contains; that the bounds are naturals); its last part takes up the verbs
again, for the second invariant below.

* `Inductive`: `Spec => []IInv`.
* `TypeCorrect`, `NothingIsLost`, `UnhandledExactly`: `TypeOK`, `NothingLost`,
  `UnhandledIsExact` always hold.
* `ContractKept`: `Spec => KeepsContract`, the refinement of `PromiseContract` under
  the mapping (`outcome`, `source`, `ran`).

Neither the types nor the report are inductive by themselves. A drain step reads the
settlement of the reaction's source, which exists only because a reaction enters the
queue after its source settled; attaching to a promise takes it off the report, and
the report stays exact only because a waiter is always a recorded reaction. Both facts
are the placement of reactions, so the inductive invariant is types, placement and
report together (`Sound`), plus the types of the stack and of what the program holds.
`Grows` adds what a verb never takes back; it is what the refinement step needs. The
proof of a step goes over the actions; each is a composition of verbs, and each verb
has one lemma.

What becomes of every promise needs a second invariant, `Fated`, on top of the first:

* `FatedAlways`: `Spec => [](IInv /\ Fated)`.
* `NobodyForgotten`, `DecidedByOne`, `AdoptersAgree`, `CombinatorsAnswer`:
  `NothingOrphaned`, `DecidedOnceAsPromised`, `ResolvedWithAgrees`, `GroupsAnswer` always
  hold.

`PromiseFates` defines it, without a theorem, so that TLC can check it too (it did, over
all the states of `promises`). Its parts are about what could go wrong with one promise:
whatever is pending has something `Live` that will settle it - a waiting reaction, running
code, an unspent pair that is still within reach, a group still counting (`Answered`); a
promise has at most one such claim, and none once it has settled (`Sole`, where the program
overrides nothing); the result of a group is nobody else's to settle, and the group's slots
and count are what its members have told it (`Owned`, `GroupsOK`, where no getter runs);
what was resolved with a promise has its outcome or a reaction that will hand it over
(`Adopted`); and the shapes of values, reactions and frames these rest on, such as that
settlers handed to a reaction are held by no other (`Shape`).

Between two verbs of one action none of this holds: a promise just made has nothing that
answers for it, a reaction taken out to run is in no table, a combinator has members to
attach. So `Fate` is stated with what the action has in hand, `PromisesProofs` follows it
verb by verb, and `FateProofs` closes each action with empty hands. `GroupsAnswer` leaves out
programs that offer an object whose `then` is a getter: TLC refuted it there, because the
result of a race is resolved again with what a member answered, reads `then` once more, and
is rejected if that second read throws. The code does what the language prescribes.

### Scheduler (`SchedProofs`)

* `SchedTypes`, `SchedChains`, `SchedKeepsOrder`: `TypeOK`, `ChainsEnd`,
  `InParkingOrder` always hold.
* `SchedForgetsNone`: `NoneForgotten`, when no promise with waiters adopts a settled
  one; `SchedTasksLast`: `TasksObserveSettled`, likewise. Section 6 shows that the
  assumption cannot be dropped from the first; the run is an instance of it.
* `SchedOwners`: `RunsWhereOwned` always holds. What a frame belongs to is the owner of the
  promise it waited on or of one that promise adopted (`Follows`), or the region that
  parked it late: what `mod.rs:154` and `mod.rs:187-193` do, and nothing more.

Three loops are functions the model defines by recursion: the walk of `would_cycle`,
the sorting of a list of waiters, the stack of `settle`. Each is shown to be what its
definition says and then followed turn by turn, on its index. The walk is shown to reach
every promise that would settle along because it widens by one promise a turn until it
is closed; the loop of `settle` because its stack holds, at every turn, exactly the
adopters of what has settled that have not. The invariant comes in layers, each proved
from those before: `TypeInv`; `ChainInv` (adoption is acyclic, an adopter waits
exactly while what it adopted is pending, only adopters wait, and what was parked late
was parked on a settled promise); `PlaceInv` (where a frame is: at most one place, after
its promise settled, in a region it belongs to - the loop of `settle` wakes only frames of
promises that follow the one it started with); `OrderInv` (the order within the
waiters, a parcel, a queue and the history, for frames no parcel could separate).

### Heap (`HeapProofs`)

* `HeapTypes`, `OneRole`, `ReachableKept`, `BlocksOwned`, `WatchesTold`, `NoRoomLeft`:
  `TypeOK`, `OneRolePerCell`, `NothingReachableIsFreed`, `BlocksBelong`,
  `WatchesSeeDeath`, `ExhaustedMeansNoRoom` always hold.
* `DeathsTold`: `Spec => DeathsAreTold`, the action property about registrations.

Its first part shows that each operation of the allocator keeps a region `Sound` and
changes the objects only as it says. Sound is the layout (a header tells the cells its
object covers, those are flagged, a flagged cell is covered, and a cell never handed out
is as it was made) and that the list and the runs name each free cell once. `Coalesce`
is followed through its sort and its scan by their indices; that nothing is lost in it is
the statement that what it has still to read, the run it is building and what it has
written name each free cell once.

Reachability alone is not inductive, because a sweep stops between any two releases. The
invariant is about the objects that are not *dying*, that is, neither doomed
nor the block of a doomed one: these have their roots, blocks, kinds and references among
themselves (`Kept`). A reference in a cell nobody wrote since an earlier occupant is
exempt in `Kept`, because nothing else is true of one: the program reads no such cell, and
marking that follows one keeps garbage and dooms nothing it should not. The rest of `IInv` is what is asked for while an allocation is
under way (`Fits`: an overflow's owner and a frame without a generator are kept until the
retry), the phases of a collection, and that watches and registrations name objects in
use. Marking is shown to reach a set closed under the edges in as many turns as there are
cells, since each turn before that finds another; the theorem about reachability compares
that closed set with the reach of the stack.

### Event loop (`LoopProofs`)

* `LoopTypes`, `OneCallPerArming`, `NoneAbandoned`, `EveryItemDelivered`,
  `EveryWorkTold`: `TypeOK`, `OncePerArming`, `NothingAbandoned`, `NoItemLost`,
  `WorkIsTold` always hold.
* `CheckpointHolds`: `Spec => CheckpointBetweenTimers`.

`IInv` has a part for each table and three for the stack. `Stacked` says which frame may
run above which. `Balanced` counts: what is credited to a timer is one if it is in the
table, plus what each pump on the stack has taken and not called; so a pump started
inside another's callback, or a `clear` from there, cannot cause a second call. `Told`
is what a pass that may be the last has learnt: a source already past in the host's
second pass, with nothing answered so far, has nothing outstanding but what is `late`.
It is what needs both passes. A thread may send its last item and release its function
after the source was asked for items and before it is asked whether threads remain, so
one pass can find neither; the first pass seeing no threads is what makes the second
one's look at the items final (`ThreadsTold`, then `ItemsTold`). `NoFurther` and `Quiet`
say of a step that it tells the host of no more, which disposes of most actions at once.
The checkpoint needs one invariant more (`Calmed`): when finalizers do not run code, a
pump about to fire is above a drained queue, whatever ran in between.

### Streams (`StreamsLemmas`, `StreamsProofs`)

* `StreamTypes`, `StreamsLoseNothing`, `EveryPipeGetsAll`, `TheEndIsLast`,
  `NobodyIsOrphaned`: `TypeOK`, `NothingLost`, `PipesGetAll`, `EndsAreLast`,
  `NoReadOrphaned` always hold, for any number of Writables, any sizes of chunks, zero
  included (`SizesAssumption`, the one assumption, says that they are naturals), any program
  and any depth of its stack.

What runs on the stack may be interrupted by any method at any call out, so the invariant
says of each kind of frame what holds wherever it is on the stack, not only on top.
`StreamsLemmas` says of every action which kinds of frame it makes and removes and what it
does to the chunks; `StreamsProofs` keeps the parts of `IInv` with that:

* `Owed`: each completion still to come has an entry of `pending` to pop. Without it
  the type of the stack is not inductive: a completion takes the last entry unseen.
* `Placed`, `Weighed`, `Offered`: every accepted chunk is in the buffer, with a push, with
  a delivery or with a consumer, and their numbers add up to the number accepted, so none
  is in two. `NothingLost` is this and the queues' order.
* `Asking`: of the calls of `next` one at most is unanswered, the one on the stack has not
  been parked, and the one parked is the reader's `waiter`.
* `Told`: once the end is told nothing is on its way, and nothing is left in the buffer, or
  with a delivery taken from it since, but empty chunks. It is inductive only
  with where the end can come from: where nobody iterates the host alone pumps, so nothing
  is below the pump but the host (`Deep`); where nothing flows no delivery runs and a push is
  never interrupted (`Still`); destinations are ended behind the mark (`Late`).
* `Piped`: a destination that was piped to from the start is still among the pipes, or in
  what each `unpipe` under way has yet to look at or keeps, until the end is told. An
  `unpipe` writes back a list it read before it called listeners, so the pipes alone do
  not say it.
* `Finishing`: what has finished, is about to, or has its final completion outstanding was
  ended and its queue is empty. `Settling` adds the length: what is queued, plus what is
  with the sink, plus what the completion on top is about to take off.

### What stays with TLC

* Liveness under fairness: `EveryReactionRuns`, `WokenRuns`, `Ends`, `EndComes`;
  ENABLED.
* `DecidedOnce` of `Promises` holds of some programs only (finding 1); what is proved is
  `DecidedOnceAsPromised`, which leaves those that break it out.
* Every property of `Caches`: `ReadsAgree` and `StoresAgree` compare walks of whole
  prototype chains, what `Chain` computes for every graph of links, and `TypesProve` is
  about the same walk's first step under every change of a layout.
* Induction over data, where a definition is recursive over something other than an
  index. No module here declares a RECURSIVE operator.

## 6. Findings

Each is shown by a run that TLC must find violated.

1. `entry/promise/class.rs:77`: an executor that throws rejects its promise without
   spending the pair; a leaked `resolve` then still resolves a decided promise
   (`promises_executor`).
2. `entry/promise/state/mod.rs:59`: `of_cell` is not purged when a cell dies, and no
   promise cell is rooted, so the next occupant is taken for the promise
   (`heap_identity`).
3. `entry/promise/machine.rs:242`: an await reached from a timer's callback reports a
   stall while the pump that made the call holds due timers it has taken and not called
   (`loop_stall`).
4. `entry/promise/drain.rs:71`: the drain before the host looks for a throw gives the
   program's own throw to the first reaction that finishes, and the loop goes on
   (`loop_uncaught`).
5. `stream/readable.rs:309`: a pipe pauses its source when a write answers false, and
   nothing resumes it (`streams_pipe`).
6. `object_global/describe.rs:197`: `Object.create` links its object and leaves its type
   the one of `{}`; a remembered absence then answers for objects of other prototypes
   (`caches_links`).

Also refuted by TLC, with an instance kept for it but no run of its own:

* `Thenables` of `MCPromises` against `DecidedOnce` (three pairs): a foreign `then` that
  resolves with a second thenable and throws has its promise rejected over the job already
  queued (`drain.rs:177`).
* `Uses <- LateAdopts` of `MCSched` against `NoneForgotten`: adopting a settled promise
  discards the continuations it woke (`sched/promise.rs:160`). The language layer does not
  call `adopt`.
* `Unrefs` of `MCLoop` against `AwakeInTime`: beside a later timer that holds the program
  open an unrefed one is not answered as `Blocked`, so the host sleeps past it
  (`timers/mod.rs:544`).
* `EndsAreLast` of `Streams` without its conditions. With `push`, `next` and a stream that
  flows (or is piped, or piped and corked) the end is told while a `push` under the draining
  of the backlog still has its chunk (`flowing.rs`, `pump` reads the buffer and not the
  stack); with `next`, `end`, `cork` or completions that come later, a Writable finishes
  while an outer write has not completed. The property says where it holds.
* `Echoes` of `MCStreams` against `DataInOrder`: a push made by a listener while a backlog
  drains is delivered before the chunk whose own push drains it.

Where a property names an exception, the code does otherwise than its comments say, and TLC
refutes the property without it:

* Sched, `RunsWhereOwned` and `Belongs`. `settle` asks only who owns the promise it was
  given, so frames of adopters in other regions are delivered to that owner (`mod.rs:154`),
  and `park` queues a frame whose promise has settled in the region that parks it, whoever
  owns the promise (`mod.rs:187-193`). The comment on `settle` says of waiters elsewhere that
  "enqueuing them would run them on the wrong thread" (`mod.rs:144-147`).
* Streams, `EndsAreLast` and `Withheld`. `size_of` is 0 for an empty string
  (`readable.rs:151-159`) and `push` buffers it all the same, while `read`, `push(null)`, the
  pump and `end_is_due` decide by the length alone (`readable.rs:195, 221, 258`,
  `flowing.rs:169`). So `push('a'); push(''); push(null); read()` tells the end with `''`
  still in the buffer. A later `resume` hands it to the `data` listeners, but the pipes were
  dropped with the end (`PipesEnded`, `readable.rs:351`), so `PipesGetAll` speaks of the time
  until then.
* Caches, `StoresAgree` and `Excepted`, all three of a growth the site repeats by comparing
  the type before and writing the type after (`body.rs:1126-1145, 1200`).
  `preventExtensions` and `seal` do not retype (`integrity.rs:552-559`), so a warm site still
  adds its property. An accessor or read-only property defined on a prototype after the site
  was filled retypes the prototype only (`accessor.rs:244-263`), and the site writes past it.
  And a type that does not prove its link (next) is given to objects whose own store would
  have got another.
* Caches, `TypesProve` and `Unproven`. An object of `Object.create` starts at the layout of
  `{}` (`describe.rs:194-198`). A site warm on a `{}` gives it the type that object got,
  minted under no link; a site warm on it gives plain objects a type linked to its
  prototype. What began that way stays unproven as it grows or loses keys. And
  `setPrototypeOf(o, null)` leaves or gives a type minted under no link, although
  `chain.rs:125` says the number changes.

What the restrictions on the programs of `caches` hide, each found by lifting it:

* (1) The accessor table is not part of the type. After an accessor is defined on a cell
  (`accessor.rs:244` retypes it) a growth or deletion gives it a type other objects have,
  so a site warm on those answers past the accessor (`ReadsAgree`).
* (2) The machine repeats a remembered growth by writing the header (`body.rs:1202`),
  not through `retype_cell`: the epoch does not move, and an absence remembered through
  that prototype stays (`ReadsAgree`).
* (3) Where types do not prove their links, a site that reads answers for objects of another
  prototype (`ReadsAgree`): finding 6.

Met while reading, and modelled without a property that fails or not modelled:

* Heap: a wide object that takes a freed run keeps its old words, although
  `region/span.rs:52-53` says they are zero - marking then follows stale references, which
  only retains garbage; the message of `heap_exhausted` says every cell is in use, which
  a wide request can meet with cells free but scattered. Sched: adopters settle last
  attached first, although `sched/promise.rs:88` says "in the order they attached".
* Loop: the host works its wait out while the sources run, so a reaction queued by the
  last of them waits for the next deadline (`run.rs:517`); a thread-safe function created
  while the host's first pass runs is not asked in a second one; a work whose thread cannot
  be spawned leaves its count raised (`async_work.rs:253`); the derived keys' queue is
  shared by all threads of the process.
* Streams: `write` overwrites `writableNeedDrain`, so a small write in the callback of a
  large one loses the `drain` that was owed; `finalize_write` uses a `remaining` read before
  the callback; the callbacks of writes are a queue and their completions a stack, so a
  deferred completion may answer another write; `end` inside `_write` finishes before that
  write completes; of two `next()` outstanding the first is never answered; `unpipe` writes
  back a list of pipes read before the listeners it called.
* Caches: `construct_instance_layout` (`functions.rs:1662`) is not cleared by a collection,
  so a prototype in a reused cell is given the type of the dead one.

## 7. Not modelled

* Subclass constructors of promises (`capability.rs`), the forwarding handler they use,
  and the list of awaited promises (its hazard says what is missing).
* In the loop: the asynchronous iterator of `setInterval`, `scheduler`, N-API references
  and scopes, sources of sockets, workers and files, which wait on the operating system.
* In streams: errors, `_construct` and `_destroy`, `Writable.destroy`, Duplex and
  Transform, `pipeline`, `finished`, the iterator helpers, encodings.
* In the heap: arrays, texts, proxies and the remaining side tables; the write barrier;
  addresses and header bits other than the width.
* In the caches: keyed sites, slots past the cell, arrays, strings, callables, proxies and
  the global object, private names, descriptors that are not configurable, and cells reused
  by the collector.
* Workers, events and generator resumption: section 2.
* The compiler, the intermediate representation and its lowering, the document tree,
  drawing, audio, physics, the linker and the rest of the Node library: some 350 thousand
  lines of sequential data transformation, numeric kernels and platform I/O, where a
  model would restate the code and a checker has no interleaving, failure or long history
  to explore. They are why the modelled share of all lines stays small, while of the files
  the modules translate more than a third of the code is mapped. `PROJECT.json` gives the
  reason for each component.
