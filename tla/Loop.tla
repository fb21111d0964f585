-------------------------------- MODULE Loop --------------------------------
(***************************************************************************)
(* The event loop of one program: the host's loop (rts-host run), the      *)
(* passes over the sources (rts-core entry::loops), the blocking await     *)
(* that turns the same loop from inside a call (promise::machine), and     *)
(* four sources: timers and promise timers, the callbacks that wait one    *)
(* pass (process.nextTick, crypto's key derivations), thread-safe          *)
(* functions and asynchronous work of N-API, with their threads.           *)
(*                                                                         *)
(* stack is the JavaScript thread's stack, innermost last:                 *)
(*   host    the loop of run_region                                        *)
(*   drain   drain_microtasks: the reactions, then the finalizers          *)
(*   pass    one_pass, with the sources still to ask                       *)
(*   pump    the timers' pump, with what it took and has not called        *)
(*   batch   the callbacks a source took whole and has not called          *)
(*   await   promise_await                                                 *)
(*   code    a piece of the program: the entry point, a callback a source  *)
(*           calls, a reaction.  It may use any operation in `uses'.       *)
(* The other variables:                                                    *)
(*   timers, nextId   TIMERS and NEXT_ID                                   *)
(*   handles          what the Timeout and Immediate objects keep          *)
(*   promise, reacts, micro   what each promise settled with, how many     *)
(*            reactions wait on it, how many are queued.  Promise 0 is one *)
(*            the program settles, the others are the timers' own          *)
(*   aborted, thrown  the AbortSignal; whether a throw is in flight        *)
(*   sources, batch   the context's loop_sources; the queued callbacks     *)
(*   dying    the finalizers a sweep has queued                            *)
(*   fns, hold, items, checked   thread-safe functions; which one each     *)
(*            thread holds, what it will still send, and whether it is     *)
(*            between the look at `closing' and the send                   *)
(*   work     OUTSTANDING, the threads that execute, the channel back      *)
(*   fuel, uses       what this program does (chosen once)                 *)
(* and, only to state properties:                                          *)
(*   credit   for each timer, how often it was armed and not yet called    *)
(*   late     what was started when the loop asked no source again         *)
(*   escaped  a throw left a piece of the program nothing encloses         *)
(*   why      how the program ended                                        *)
(***************************************************************************)
EXTENDS Timers

CONSTANTS Worlds,           \* the programs: what one does, its sources, its fuel
          Fns, Workers,     \* thread-safe functions and the threads that call them
          MaxItems,         \* how often one thread sends or hands over
          NoFn

\* Every context declares the timers' source, and whoever can defer a callback
\* has declared the source that calls it (timers::surface, process, crypto::kdf).
ASSUME WorldAssumption ==
    \A w \in Worlds : /\ w.sources \in Seq({"timers", "batch", "threadsafe", "work"})
                      /\ w.fuel \in Nat
                      /\ "timers" \in Range(w.sources)
                      /\ "tick" \in w.uses => "batch" \in Range(w.sources)
ASSUME ThreadAssumption == IsFiniteSet(Workers) /\ NoFn \notin Fns /\ MaxItems \in Nat

VARIABLES timers, nextId, handles, promise, reacts, micro, aborted, thrown,
          sources, batch, dying, fns, hold, items, checked, work, stack, fuel, uses,
          credit, late, escaped, why

clock == <<timers, nextId, handles, credit>>
promises == <<promise, reacts, micro>>
native == <<sources, batch, dying>>
threads == <<fns, hold, items, checked>>
ghosts == <<late, escaped, why>>
vars == <<clock, promises, aborted, thrown, native, threads, work, stack,
          fuel, uses, ghosts>>

Promises == 0 .. MaxTimers
Top == stack[Len(stack)]
With(frame) == [stack EXCEPT ![Len(stack)] = frame]
Call(frame, callee) == Append(With(frame), callee)
Return == Front(stack)
ReturnTo(frame) == [Return EXCEPT ![Len(stack) - 1] = frame]
Caller == stack[Len(stack) - 1]

NoTimer == [left |-> 0, signal |-> FALSE, wanted |-> FALSE]
Code(from) == [at |-> "code", from |-> from, asked |-> FALSE, owes |-> NoTimer]
Drain == [at |-> "drain", stage |-> "reactions", left |-> 0]
Pass(n) == [at |-> "pass", n |-> n, left |-> sources, stage |-> "next",
            wait |-> Nothing, blocked |-> FALSE]
Pump == [at |-> "pump", stage |-> "reject", due |-> <<>>, ran |-> FALSE]
Batch == [at |-> "batch", left |-> batch]
Await(p) == [at |-> "await", on |-> p, stage |-> "poll", wait |-> Nothing]
Host == [at |-> "host", stage |-> "turn", wait |-> Nothing]

NewFn == [made |-> FALSE, threads |-> 0, referenced |-> TRUE, closing |-> FALSE,
          queued |-> 0, plain |-> TRUE]
NothingLate == [timers |-> {}, fns |-> {}, work |-> FALSE, batch |-> FALSE]

Init ==
    /\ timers = Empty /\ nextId = 1 /\ credit = [i \in Ids |-> 0]
    /\ handles = Empty
    /\ promise = [p \in Promises |-> "pending"]
    /\ reacts = [p \in Promises |-> 0] /\ micro = 0
    /\ aborted = FALSE /\ thrown = FALSE
    /\ batch = 0 /\ dying = 0
    /\ fns = [f \in Fns |-> NewFn] /\ hold = [w \in Workers |-> NoFn]
    /\ items = [w \in Workers |-> MaxItems] /\ checked = [w \in Workers |-> FALSE]
    /\ work = [outstanding |-> 0, running |-> 0, done |-> 0]
    /\ stack = <<Host, Drain, Code("entry")>>
    /\ late = NothingLate /\ escaped = FALSE /\ why = "runs"
    /\ \E w \in Worlds : uses = w.uses /\ sources = w.sources /\ fuel = w.fuel

\* The host asks no source again unless something it was answered makes it.
Deaf == \/ stack[1].stage = "over"
        \/ /\ stack[1].stage = "asked" /\ Len(stack) > 1
           /\ stack[2].at = "pass" /\ stack[2].n = 2
Late(what, S) == IF Deaf THEN [late EXCEPT ![what] = @ \cup S] ELSE late

OnlyTheStack ==
    UNCHANGED <<clock, promises, aborted, thrown, native, threads, work, fuel, uses, ghosts>>

\* promise_settle: the first settlement counts and queues what waited.
Settle(p, how) ==
    IF promise[p] = "pending"
    THEN /\ promise' = [promise EXCEPT ![p] = how]
         /\ micro' = micro + reacts[p] /\ reacts' = [reacts EXCEPT ![p] = 0]
    ELSE UNCHANGED promises

-----------------------------------------------------------------------------
(***************************************************************************)
(* What the program does while a piece of it runs.  Compiled code looks    *)
(* for a throw in flight after each call, so a piece that starts while one *)
(* is makes a single call and then unwinds or catches it.                  *)
(***************************************************************************)
Running == Top.at = "code" /\ ~Top.owes.wanted
Does(op) ==
    /\ Running /\ ~Top.asked /\ op \in uses
    /\ fuel > 0 /\ fuel' = fuel - 1 /\ UNCHANGED uses
Continues == stack' = With([Top EXCEPT !.asked = thrown])

NewTimer(left, period, immediate) ==
    [settles |-> FALSE, left |-> left, period |-> period, immediate |-> immediate,
     refed |-> TRUE, signal |-> FALSE]
NewHandle(delay, periodic, immediate) ==
    [delay |-> delay, periodic |-> periodic, immediate |-> immediate,
     refed |-> TRUE, dead |-> FALSE]

\* One more call of id is owed, unless this replaces an arming still pending.
Armed(id) == [credit EXCEPT ![id] = IF id \in DOMAIN timers THEN @ ELSE @ + 1]
Disarmed(id) == [credit EXCEPT ![id] = IF id \in DOMAIN timers THEN @ - 1 ELSE @]

Register(timer) ==
    /\ nextId <= MaxTimers /\ nextId' = nextId + 1
    /\ timers' = Put(timers, nextId, timer)
    /\ credit' = Armed(nextId)
    /\ late' = Late("timers", {nextId})

Schedule(left, period, immediate) ==
    /\ Register(NewTimer(left, period, immediate))
    /\ handles' = Put(handles, nextId, NewHandle(left, period > 0, immediate))
    /\ Continues
    /\ UNCHANGED <<promises, aborted, thrown, native, threads, work, escaped, why>>

SetTimeout == Does("timeout") /\ \E d \in 1 .. MaxDelay : Schedule(d, 0, FALSE)
SetInterval == Does("interval") /\ \E d \in 1 .. MaxDelay : Schedule(d, d, FALSE)
SetImmediate == Does("immediate") /\ Schedule(0, 0, TRUE)

\* clearTimeout of a handle, close and Symbol.dispose; of a number (byHandle
\* FALSE) only the table changes.
Clear ==
    /\ Does("clear")
    /\ \E id \in DOMAIN handles, byHandle \in BOOLEAN :
        /\ handles' = IF byHandle THEN [handles EXCEPT ![id].dead = TRUE] ELSE handles
        /\ timers' = Forget(timers, {id}) /\ credit' = Disarmed(id)
    /\ Continues
    /\ UNCHANGED <<nextId, promises, aborted, thrown, native, threads, work, ghosts>>

Ref ==
    /\ Does("ref")
    /\ \E id \in DOMAIN handles, refed \in BOOLEAN :
        /\ handles' = [handles EXCEPT ![id].refed = refed]
        /\ timers' = SetRefed(timers, id, refed)
        /\ late' = Late("timers", {id})
    /\ Continues
    /\ UNCHANGED <<nextId, credit, promises, aborted, thrown, native, threads,
                   work, escaped, why>>

\* refresh: the original delay again, under the same id, also after the call.
Refresh ==
    /\ Does("refresh")
    /\ \E id \in DOMAIN handles : LET h == handles[id] IN
        /\ ~h.dead /\ ~h.immediate
        /\ timers' = Put(timers, id,
               [NewTimer(h.delay, IF h.periodic THEN h.delay ELSE 0, FALSE)
                   EXCEPT !.refed = h.refed])
        /\ credit' = Armed(id) /\ late' = Late("timers", {id})
    /\ Continues
    /\ UNCHANGED <<nextId, handles, promises, aborted, thrown, native, threads,
                   work, escaped, why>>

\* timers/promises: the pump runs first, inside the call; then the timer.
PromiseTimer ==
    /\ Does("sleep") /\ nextId <= MaxTimers
    /\ \E d \in Delays, signal \in BOOLEAN :
        /\ signal => "abort" \in uses
        /\ stack' = Call([Top EXCEPT !.owes = [left |-> d, signal |-> signal, wanted |-> TRUE]],
                         Pump)
    /\ UNCHANGED <<clock, promises, aborted, thrown, native, threads, work, ghosts>>
PromiseTimerMade ==
    /\ Top.at = "code" /\ Top.owes.wanted
    /\ IF nextId <= MaxTimers
       THEN Register([NewTimer(Top.owes.left, 0, FALSE)
                         EXCEPT !.settles = TRUE, !.signal = Top.owes.signal])
       ELSE UNCHANGED <<timers, nextId, credit, late>>
    /\ stack' = With([Top EXCEPT !.owes = NoTimer, !.asked = thrown])
    /\ UNCHANGED <<handles, promises, aborted, thrown, native, threads, work,
                   fuel, uses, escaped, why>>

Abort ==
    /\ Does("abort") /\ ~aborted /\ aborted' = TRUE
    /\ Continues
    /\ UNCHANGED <<clock, promises, thrown, native, threads, work, ghosts>>

\* A reaction on promise 0 or on a timer's promise.
Known == {0} \cup {i \in 1 .. nextId - 1 : i \notin DOMAIN handles}
Then ==
    /\ Does("then")
    /\ \E p \in Known :
        IF promise[p] = "pending"
        THEN reacts' = [reacts EXCEPT ![p] = @ + 1] /\ UNCHANGED micro
        ELSE micro' = micro + 1 /\ UNCHANGED reacts
    /\ Continues
    /\ UNCHANGED <<clock, promise, aborted, thrown, native, threads, work, ghosts>>
Resolve ==
    /\ Does("resolve") /\ Settle(0, "fulfilled")
    /\ Continues
    /\ UNCHANGED <<clock, aborted, thrown, native, threads, work, ghosts>>

\* A module's top level or an async generator's body reaches promise_await.
Awaits ==
    /\ Does("await")
    /\ \E p \in Known : stack' = Call(Top, Await(p))
    /\ UNCHANGED <<clock, promises, aborted, thrown, native, threads, work, ghosts>>

Throw ==
    /\ Does("throw") /\ thrown' = TRUE /\ stack' = With([Top EXCEPT !.asked = TRUE])
    /\ UNCHANGED <<clock, promises, aborted, native, threads, work, ghosts>>
Catch ==
    /\ Running /\ thrown /\ Top.asked /\ "catch" \in uses
    /\ thrown' = FALSE /\ stack' = With([Top EXCEPT !.asked = FALSE])
    /\ UNCHANGED <<clock, promises, aborted, native, threads, work, fuel, uses, ghosts>>

\* process.nextTick, and a key derivation that queued its callback.
QueueCallback ==
    /\ Does("tick") /\ batch' = batch + 1
    /\ late' = IF Deaf THEN [late EXCEPT !.batch = TRUE] ELSE late
    /\ Continues
    /\ UNCHANGED <<clock, promises, aborted, thrown, sources, dying, threads, work, escaped, why>>

Declared(name) ==
    IF \E i \in DOMAIN sources : sources[i] = name THEN sources ELSE Append(sources, name)

\* Made when the first pass of the host has asked for items, or never will, a
\* function is asked by the second only.
AskedOnce ==
    /\ stack[1].stage = "asked" /\ stack[2].at = "pass"
    /\ "threadsafe" \notin Range(stack[2].left)
CreateFn ==
    /\ Does("function")
    /\ \E f \in Fns, W \in SUBSET {w \in Workers : hold[w] = NoFn} :
        /\ ~fns[f].made /\ W # {}
        /\ fns' = [fns EXCEPT ![f] = [NewFn EXCEPT !.made = TRUE, !.threads = Cardinality(W)]]
        /\ hold' = [w \in Workers |-> IF w \in W THEN f ELSE hold[w]]
        /\ late' = IF Deaf \/ AskedOnce THEN [late EXCEPT !.fns = @ \cup {f}] ELSE late
    /\ sources' = Declared("threadsafe")
    /\ Continues
    /\ UNCHANGED <<clock, promises, aborted, thrown, batch, dying, items, checked, work, escaped, why>>
RefFn ==
    /\ Does("refFn")
    /\ \E f \in Fns, referenced \in BOOLEAN :
        /\ fns[f].made
        /\ fns' = [fns EXCEPT ![f].referenced = referenced, ![f].plain = FALSE]
    /\ Continues
    /\ UNCHANGED <<clock, promises, aborted, thrown, native, hold, items, checked,
                   work, ghosts>>

\* A sweep frees what a FinalizationRegistry or an addon watches.
Dies ==
    /\ Does("dies") /\ dying' = dying + 1
    /\ Continues
    /\ UNCHANGED <<clock, promises, aborted, thrown, sources, batch, threads, work, ghosts>>

\* napi_queue_async_work.
QueueWork ==
    /\ Does("work")
    /\ work' = [work EXCEPT !.outstanding = @ + 1, !.running = @ + 1]
    /\ sources' = Declared("work")
    /\ late' = IF Deaf THEN [late EXCEPT !.work = TRUE] ELSE late
    /\ Continues
    /\ UNCHANGED <<clock, promises, aborted, thrown, batch, dying, threads, escaped, why>>

\* A piece of the program ends.  A reaction's throw rejects what it derived
\* (drain::perform takes it); any other stays in flight.
CodeEnds ==
    /\ Running
    /\ stack' = Return
    /\ thrown' = (thrown /\ Top.from # "reaction")
    /\ escaped' = \/ escaped
                  \/ /\ thrown /\ Top.from # "reaction"
                     /\ \A i \in 1 .. Len(stack) - 1 : stack[i].at # "code"
    /\ UNCHANGED <<clock, promises, aborted, native, threads, work, fuel, uses, late, why>>

-----------------------------------------------------------------------------
(***************************************************************************)
(* The microtask queue, and the finalizers behind it.                      *)
(***************************************************************************)
RunReaction ==
    /\ Top.at = "drain" /\ Top.stage = "reactions" /\ micro > 0
    /\ micro' = micro - 1 /\ stack' = Call(Top, Code("reaction"))
    /\ UNCHANGED <<clock, promise, reacts, aborted, thrown, native, threads, work,
                   fuel, uses, ghosts>>
\* finalize::drain takes what was queued and calls it, and does not look again.
TakeFinalizers ==
    /\ Top.at = "drain" /\ Top.stage = "reactions" /\ micro = 0
    /\ stack' = With([Top EXCEPT !.stage = "finalizers", !.left = dying]) /\ dying' = 0
    /\ UNCHANGED <<clock, promises, aborted, thrown, sources, batch, threads, work,
                   fuel, uses, ghosts>>
RunFinalizer ==
    /\ Top.at = "drain" /\ Top.left > 0
    /\ stack' = Call([Top EXCEPT !.left = @ - 1], Code("finalizer"))
    /\ OnlyTheStack
DrainEnds ==
    /\ Top.at = "drain" /\ Top.stage = "finalizers" /\ Top.left = 0
    /\ stack' = Return
    /\ OnlyTheStack

(***************************************************************************)
(* The timers' pump: reject what was aborted and drain; take what is due;  *)
(* call it, with a drain after each.                                       *)
(***************************************************************************)
Aborted == IF aborted THEN Watching(timers) ELSE {}
RejectAborted ==
    /\ Top.at = "pump" /\ Top.stage = "reject" /\ Aborted # {}
    /\ timers' = Forget(timers, Aborted)
    /\ credit' = [i \in Ids |-> IF i \in Aborted THEN credit[i] - 1 ELSE credit[i]]
    /\ promise' = [p \in Promises |-> IF p \in Aborted THEN "rejected" ELSE promise[p]]
    /\ micro' = micro + Cardinality(UNION {{p} \X (1 .. reacts[p]) : p \in Aborted})
    /\ reacts' = [p \in Promises |-> IF p \in Aborted THEN 0 ELSE reacts[p]]
    /\ stack' = Call([Top EXCEPT !.stage = "take"], Drain)
    /\ UNCHANGED <<nextId, handles, aborted, thrown, native, threads, work,
                   fuel, uses, ghosts>>

TakeDue ==
    /\ Top.at = "pump"
    /\ \/ Top.stage = "take"
       \/ Top.stage = "reject" /\ Aborted = {}
    /\ LET order == InFiringOrder(timers)
           fire(i) == [id |-> order[i], settles |-> timers[order[i]].settles,
                       again |-> timers[order[i]].period > 0]
       IN  stack' = With([Top EXCEPT !.stage = "fire", !.due = [i \in DOMAIN order |-> fire(i)]])
    /\ timers' = Take(timers)
    /\ UNCHANGED <<nextId, handles, credit, promises, aborted, thrown, native, threads,
                   work, fuel, uses, ghosts>>

FireNext ==
    /\ Top.at = "pump" /\ Top.stage = "fire" /\ Top.due # <<>>
    /\ LET timer == Head(Top.due)
           rest == [Top EXCEPT !.due = Tail(@), !.ran = TRUE]
       IN  /\ IF timer.settles
              THEN Settle(timer.id, "fulfilled") /\ stack' = Call(rest, Drain)
              ELSE /\ stack' = Call([rest EXCEPT !.stage = "checkpoint"], Code("timer"))
                   /\ UNCHANGED promises
           /\ credit' = [credit EXCEPT ![timer.id] = IF timer.again THEN @ ELSE @ - 1]
    /\ UNCHANGED <<timers, nextId, handles, aborted, thrown, native, threads, work,
                   fuel, uses, ghosts>>
\* A slip: the queue is emptied once for the pump, not after each callback.
CheckpointAtEnd ==
    /\ Top.at = "pump" /\ Top.stage = "checkpoint"
    /\ stack' = IF Top.due = <<>> THEN Call([Top EXCEPT !.stage = "fire"], Drain)
                ELSE With([Top EXCEPT !.stage = "fire"])
    /\ OnlyTheStack
Checkpoint ==
    /\ Top.at = "pump" /\ Top.stage = "checkpoint"
    /\ stack' = Call([Top EXCEPT !.stage = "fire"], Drain)
    /\ OnlyTheStack
PumpEnds ==
    /\ Top.at = "pump" /\ Top.stage = "fire" /\ Top.due = <<>>
    /\ stack' = Return
    /\ OnlyTheStack

(***************************************************************************)
(* A pass over the sources, in the order they were declared.               *)
(***************************************************************************)
Asked(name) == Top.at = "pass" /\ Top.stage = "asked" /\ Head(Top.left) = name
Shorter(a, b) == IF a < b THEN a ELSE b
Answered(answer) ==
    With([Top EXCEPT !.stage = "next", !.left = Tail(@),
                     !.wait = Shorter(@, answer.wait),
                     !.blocked = @ \/ answer.blocked])

AskSource ==
    /\ Top.at = "pass" /\ Top.stage = "next" /\ Top.left # <<>>
    /\ LET asked == [Top EXCEPT !.stage = "asked"] IN
       stack' = CASE Head(Top.left) = "timers" -> Call(asked, Pump)
                  [] Head(Top.left) = "batch" -> Call(asked, Batch)
                  [] OTHER -> With(asked)
    /\ batch' = IF Head(Top.left) = "batch" THEN 0 ELSE batch
    /\ UNCHANGED <<clock, promises, aborted, thrown, sources, dying, threads, work,
                   fuel, uses, ghosts>>

TimersAnswer ==
    /\ Asked("timers") /\ stack' = Answered(Outstanding(timers))
    /\ OnlyTheStack

\* nextTick's and the key derivations' source: what it took is called in turn.
BatchCalls ==
    /\ Top.at = "batch"
    /\ stack' = IF Top.left > 0 THEN Call([Top EXCEPT !.left = @ - 1], Code("source")) ELSE Return
    /\ OnlyTheStack
BatchAnswers ==
    /\ Asked("batch") /\ stack' = Answered(IF batch > 0 THEN In(0) ELSE Idle)
    /\ OnlyTheStack

\* A slip: a function that is closing delivers nothing more.
FilledOpen == {f \in Fns : fns[f].queued > 0 /\ ~fns[f].closing}
\* threadsafe::deliver: one item at a time, then the look at who may send.
Filled == {f \in Fns : fns[f].queued > 0}
DeliverItem ==
    /\ Asked("threadsafe") /\ Filled # {}
    /\ \E f \in Filled : fns' = [fns EXCEPT ![f].queued = @ - 1]
    /\ stack' = Call(Top, Code("source"))
    /\ UNCHANGED <<clock, promises, aborted, thrown, native, hold, items, checked, work,
                   fuel, uses, ghosts>>
NothingToDeliver ==
    /\ Asked("threadsafe") /\ Filled = {}
    /\ stack' = With([Top EXCEPT !.stage = "drained"])
    /\ OnlyTheStack
\* A slip: a function holds the program open after its last thread has left.
MaySendForever(f) == fns[f].made /\ fns[f].referenced
MaySend(f) == fns[f].made /\ fns[f].referenced /\ fns[f].threads > 0 /\ ~fns[f].closing
FunctionsAnswer ==
    /\ Top.at = "pass" /\ Top.stage = "drained"
    /\ stack' = Answered(IF \E f \in Fns : MaySend(f) THEN In(1) ELSE Idle)
    /\ OnlyTheStack

\* A slip: what was delivered is still counted as outstanding.
CompletesUncounted ==
    /\ Asked("work") /\ work.done > 0
    /\ work' = [work EXCEPT !.done = @ - 1]
    /\ stack' = Call(Top, Code("source"))
    /\ UNCHANGED <<clock, promises, aborted, thrown, native, threads,
                   fuel, uses, ghosts>>
\* async_work::deliver: the count drops before complete is called.
Completes ==
    /\ Asked("work") /\ work.done > 0
    /\ work' = [work EXCEPT !.done = @ - 1, !.outstanding = @ - 1]
    /\ stack' = Call(Top, Code("source"))
    /\ UNCHANGED <<clock, promises, aborted, thrown, native, threads,
                   fuel, uses, ghosts>>
\* A slip: an empty channel is taken for nothing outstanding.
WorkAnswersReady ==
    /\ Asked("work") /\ work.done = 0
    /\ stack' = Answered(Idle)
    /\ OnlyTheStack
WorkAnswers ==
    /\ Asked("work") /\ work.done = 0
    /\ stack' = Answered(IF work.outstanding > 0 THEN In(1) ELSE Idle)
    /\ OnlyTheStack

\* wait_for, and the second pass when the first found nothing.
Wait(pass) == IF pass.blocked /\ pass.wait # Nothing THEN Shorter(pass.wait, 1) ELSE pass.wait
Passed == Top.at = "pass" /\ Top.stage = "next" /\ Top.left = <<>>
\* A slip: the first pass is believed.
PassesOnce(pass) == FALSE
PassesAgain(pass) == pass.n = 1 /\ Wait(pass) = Nothing
SecondPass ==
    /\ Passed /\ PassesAgain(Top)
    /\ stack' = With(Pass(2))
    /\ OnlyTheStack
PassEnds ==
    /\ Passed /\ ~PassesAgain(Top)
    /\ stack' = ReturnTo([Caller EXCEPT !.stage = "answered", !.wait = Wait(Top)])
    /\ OnlyTheStack

(***************************************************************************)
(* The host's loop.                                                        *)
(***************************************************************************)
HostTurn == Top.at = "host" /\ Top.stage = "turn"
HostBreaks ==
    /\ HostTurn /\ thrown
    /\ stack' = Call([Top EXCEPT !.stage = "over"], Drain) /\ why' = "thrown"
    /\ UNCHANGED <<clock, promises, aborted, thrown, native, threads, work,
                   fuel, uses, late, escaped>>
HostAsks ==
    /\ HostTurn /\ ~thrown
    /\ stack' = Call([Top EXCEPT !.stage = "asked"], Pass(1))
    /\ OnlyTheStack
HostSleeps ==
    /\ Top.at = "host" /\ Top.stage = "answered" /\ Top.wait # Nothing
    /\ timers' = Elapse(timers, Top.wait)
    /\ stack' = Call(Host, Drain) /\ late' = NothingLate
    /\ UNCHANGED <<nextId, handles, credit, promises, aborted, thrown, native,
                   threads, work, fuel, uses, escaped, why>>
HostFinishes ==
    /\ Top.at = "host" /\ Top.stage = "answered" /\ Top.wait = Nothing
    /\ stack' = Call([Top EXCEPT !.stage = "over"], Drain) /\ why' = "idle"
    /\ UNCHANGED <<clock, promises, aborted, thrown, native, threads, work,
                   fuel, uses, late, escaped>>

(***************************************************************************)
(* promise_await.                                                          *)
(***************************************************************************)
Awaiting == Top.at = "await"
Settled == promise[Top.on] # "pending"
AwaitEnds ==
    /\ Awaiting /\ Settled /\ Top.stage # "answered"
    /\ thrown' = (thrown \/ promise[Top.on] = "rejected")
    /\ stack' = ReturnTo([Caller EXCEPT !.asked = thrown'])
    /\ UNCHANGED <<clock, promises, aborted, native, threads, work, fuel, uses, ghosts>>
AwaitDrains ==
    /\ Awaiting /\ Top.stage = "poll" /\ ~Settled
    /\ stack' = Call([Top EXCEPT !.stage = "drained"], Drain)
    /\ OnlyTheStack
AwaitAsks ==
    /\ Awaiting /\ Top.stage = "drained" /\ ~Settled
    /\ stack' = Call([Top EXCEPT !.stage = "asked"], Pass(1))
    /\ OnlyTheStack
AwaitSleeps ==
    /\ Awaiting /\ Top.stage = "answered" /\ Top.wait # Nothing
    /\ timers' = Elapse(timers, Top.wait)
    /\ stack' = With(Await(Top.on))
    /\ UNCHANGED <<nextId, handles, credit, promises, aborted, thrown, native,
                   threads, work, fuel, uses, ghosts>>
AwaitLooksAgain ==
    /\ Awaiting /\ Top.stage = "answered" /\ Top.wait = Nothing
    /\ stack' = Call([Top EXCEPT !.stage = "last"], Drain)
    /\ OnlyTheStack
Stall ==
    /\ Awaiting /\ Top.stage = "last" /\ ~Settled
    /\ thrown' = TRUE /\ stack' = ReturnTo([Caller EXCEPT !.asked = TRUE])
    /\ UNCHANGED <<clock, promises, aborted, native, threads, work, fuel, uses, ghosts>>

-----------------------------------------------------------------------------
(***************************************************************************)
(* What goes on beside the JavaScript thread: time, an addon's threads.    *)
(* Time is read where a timer is set, where the pump takes what is due and *)
(* where the timers answer, so it passes before those only.                *)
(***************************************************************************)
ReadsTime == Running \/ Top.at = "pump" \/ Asked("timers")
TimePasses ==
    /\ ReadsTime /\ \E i \in DOMAIN timers : timers[i].left > 0
    /\ timers' = Elapse(timers, 1)
    /\ UNCHANGED <<nextId, handles, credit, promises, aborted, thrown, native, threads,
                   work, stack, fuel, uses, ghosts>>

BesideThreads ==
    UNCHANGED <<clock, promises, aborted, thrown, native, stack, fuel, uses, ghosts>>

\* napi_call_threadsafe_function: the look at closing, then the send.
CallFn(w) ==
    /\ hold[w] # NoFn /\ ~checked[w] /\ items[w] > 0
    /\ ~fns[hold[w]].closing
    /\ checked' = [checked EXCEPT ![w] = TRUE]
    /\ UNCHANGED <<fns, hold, items, work>> /\ BesideThreads
Send(w) ==
    /\ checked[w]
    /\ fns' = [fns EXCEPT ![hold[w]].queued = @ + 1]
    /\ items' = [items EXCEPT ![w] = @ - 1] /\ checked' = [checked EXCEPT ![w] = FALSE]
    /\ UNCHANGED <<hold, work>> /\ BesideThreads
\* napi_acquire_threadsafe_function, by a thread that hands it to another.
Acquire(w, other) ==
    /\ hold[w] # NoFn /\ ~checked[w] /\ hold[other] = NoFn /\ items[w] > 0
    /\ ~fns[hold[w]].closing
    /\ fns' = [fns EXCEPT ![hold[w]].threads = @ + 1]
    /\ hold' = [hold EXCEPT ![other] = hold[w]]
    /\ items' = [items EXCEPT ![w] = @ - 1]
    /\ UNCHANGED <<checked, work>> /\ BesideThreads
Release(w, abort) ==
    /\ hold[w] # NoFn /\ ~checked[w]
    /\ fns' = [fns EXCEPT ![hold[w]].threads = @ - 1,
                          ![hold[w]].closing = @ \/ abort \/ fns[hold[w]].threads <= 1,
                          ![hold[w]].plain = @ /\ ~abort]
    /\ hold' = [hold EXCEPT ![w] = NoFn]
    /\ UNCHANGED <<items, checked, work>> /\ BesideThreads
WorkFinishes ==
    /\ work.running > 0
    /\ work' = [work EXCEPT !.running = @ - 1, !.done = @ + 1]
    /\ UNCHANGED threads /\ BesideThreads

ThreadSteps ==
    \/ \E w \in Workers : \/ CallFn(w) \/ Send(w)
                          \/ \E abort \in BOOLEAN : (abort => "abortFn" \in uses) /\ Release(w, abort)
                          \/ \E other \in Workers : Acquire(w, other)
    \/ WorkFinishes

ProgramSteps ==
    \/ SetTimeout \/ SetInterval \/ SetImmediate \/ Clear \/ Ref \/ Refresh
    \/ PromiseTimer \/ PromiseTimerMade \/ Abort \/ Then \/ Resolve \/ Awaits
    \/ Throw \/ Catch \/ QueueCallback \/ Dies \/ CreateFn \/ RefFn \/ QueueWork \/ CodeEnds
RuntimeSteps ==
    \/ RunReaction \/ TakeFinalizers \/ RunFinalizer \/ DrainEnds
    \/ RejectAborted \/ TakeDue \/ FireNext \/ Checkpoint \/ PumpEnds
    \/ AskSource \/ TimersAnswer \/ BatchCalls \/ BatchAnswers
    \/ DeliverItem \/ NothingToDeliver \/ FunctionsAnswer \/ Completes \/ WorkAnswers
    \/ SecondPass \/ PassEnds
    \/ HostBreaks \/ HostAsks \/ HostSleeps \/ HostFinishes
    \/ AwaitEnds \/ AwaitDrains \/ AwaitAsks \/ AwaitSleeps \/ AwaitLooksAgain \/ Stall

Next == ProgramSteps \/ RuntimeSteps \/ ThreadSteps \/ TimePasses

\* The JavaScript thread runs, time passes, and an addon's threads end.
Spec ==
    /\ Init /\ [][Next]_vars
    /\ WF_vars(ProgramSteps \/ RuntimeSteps) /\ WF_vars(TimePasses) /\ WF_vars(ThreadSteps)
=============================================================================
