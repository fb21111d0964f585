------------------------------- MODULE Promises -------------------------------
(***************************************************************************)
(* The promises of one program: what the program may do while its code     *)
(* runs, and the drain that runs the queued reactions between two pieces   *)
(* of its code (rts-core/src/entry/promise: class.rs, drain.rs, react.rs,  *)
(* async_fn.rs, settler.rs).                                               *)
(*                                                                         *)
(* The program is not modelled, it is enumerated: whenever its code is on  *)
(* top of the stack it may call any operation it uses with any value it    *)
(* can name, or return, or throw.  Code is entered by the host (a turn),   *)
(* by the drain (a reaction whose handler is a function of the program)    *)
(* and by an operation that calls back at once (an executor, an async      *)
(* body, Promise.try).                                                     *)
(***************************************************************************)
EXTENDS PromiseMachine

CONSTANTS
  Programs,       \* the programs considered: which operations each uses,
                  \*   and which tags of values it passes around
  MaxPromises,    \* bounds: promises, reactions and pairs ever created,
  MaxReactions,
  MaxPairs,
  MaxDepth,       \*   nested pieces of code,
  MaxTurns        \*   and times the host enters the program

OpNames == {"new", "withResolvers", "settle", "then", "finally", "resolve",
            "reject", "combine", "emptyRace", "async", "try", "again"}

ASSUME ProgramAssumption ==
  Programs \subseteq [ops : SUBSET OpNames,
                      offered : SUBSET {"plain", "promise", "thenable", "getter"}]
ASSUME BoundAssumption ==
  /\ MaxPromises \in Nat /\ MaxReactions \in Nat /\ MaxPairs \in Nat
  /\ MaxDepth \in Nat \ {0} /\ MaxTurns \in Nat \ {0}

VARIABLES
  program,    \* the program being run, which never changes
  machine,    \* the promise machine's tables
  stack,      \* the pieces of program code being executed, innermost last
  draining,   \* the host is inside drain_microtasks
  named,      \* the promises the program holds a reference to
  held,       \* the pairs whose settlers it holds
  reported,   \* the rejections printed as unhandled
  turns       \* times the host has entered the program

vars == <<program, machine, stack, draining, named, held, reported, turns>>

(* A piece of program code, and what is owed when it ends.                 *)
Frame == [kind : {"turn", "handler", "finally", "executor", "then", "getter",
                  "body", "try"},
          target : Nat, pair : Nat, how : Settled, value : Value]

NewFrame(kind, target, pair, how, value) ==
  [kind |-> kind, target |-> target, pair |-> pair, how |-> how, value |-> value]
CodeFor(kind, target) == NewFrame(kind, target, 0, "fulfilled", Undefined)

Top  == stack[Len(stack)]
Rest == SubSeq(stack, 1, Len(stack) - 1)
Call(f) == Append(stack, f)

Init == /\ program \in Programs
        /\ machine = NoMachine
        /\ stack = <<>>
        /\ draining = FALSE
        /\ named = {}
        /\ held = {}
        /\ reported = {}
        /\ turns = 0

(***************************************************************************)
(* The bound on the tables.  Every queued thenable job keeps one promise,  *)
(* one pair and one reaction in reserve, what it creates when it adopts a  *)
(* promise, and every Promise.try on the stack (`owed') keeps the promise  *)
(* it will answer, so that the bound stops neither.                        *)
(***************************************************************************)
Jobs(m) == Cardinality({r \in Waiting(m) : m.reactions[r].kind = "thenable"})
Fits(m, owed) == /\ Len(m.state) + Jobs(m) + owed <= MaxPromises
                 /\ Len(m.reactions) + Jobs(m) <= MaxReactions
                 /\ Len(m.pairs) + Jobs(m) <= MaxPairs

Owed        == Cardinality({i \in 1 .. Len(stack) : stack[i].kind = "try"})
Becomes(m)  == Fits(m, Owed) /\ machine' = m

Values == {v \in {Plain(2), ThenableObj, GetterObj} \cup {PromiseVal(p) : p \in named} :
             v.tag \in program.offered}
Handler == {NotCallable, UserFn}

-----------------------------------------------------------------------------
(* The host enters the program: its top level, or the callback of a source *)
(* of the event loop (a program without "again" has none).                 *)
StartTurn ==
  /\ stack = <<>> /\ ~draining /\ turns < MaxTurns
  /\ turns = 0 \/ "again" \in program.ops
  /\ stack' = Call(CodeFor("turn", 0))
  /\ turns' = turns + 1
  /\ UNCHANGED <<program, machine, draining, named, held, reported>>

(* Code of the program is running and calls an operation of the kind.      *)
Calls(op) == stack # <<>> /\ op \in program.ops

(* The operation answers a promise: the program may name it from now on.   *)
Answers(p) == named' = named \cup {p}

(* new Promise(executor): the executor runs before the constructor         *)
(* returns, holding the pair's settlers.                                   *)
New ==
  /\ Calls("new") /\ Len(stack) < MaxDepth
  /\ LET m == Create(machine) IN
       /\ Becomes(OpenPair(m, Newest(m)))
       /\ stack' = Call(NewFrame("executor", Newest(m), NewestPair(m) + 1, "fulfilled", Undefined))
       /\ Answers(Newest(m))
       /\ held' = held \cup {NewestPair(m) + 1}
  /\ UNCHANGED <<program, draining, reported, turns>>

WithResolvers ==
  /\ Calls("withResolvers")
  /\ LET m == Create(machine) IN
       /\ Becomes(OpenPair(m, Newest(m)))
       /\ Answers(Newest(m))
       /\ held' = held \cup {NewestPair(m) + 1}
  /\ UNCHANGED <<program, stack, draining, reported, turns>>

(* A settler is called, any number of times, by any code that holds it.    *)
SettlerCalled(k, v) ==
  /\ Calls("settle")
  /\ \E f \in {ResolveFn(k), RejectFn(k)} : Becomes(CallSettler(machine, f, v))
  /\ UNCHANGED <<program, stack, draining, named, held, reported, turns>>

(* class.rs, attached: then, catch and finally.                            *)
Then(p, f, r) ==
  /\ Calls("then")
  /\ LET m == Create(machine) IN
       /\ Becomes(React(m, JsReaction(p, Newest(m), f, r)))
       /\ Answers(Newest(m))
  /\ UNCHANGED <<program, stack, draining, held, reported, turns>>

Finally(p, f) ==
  /\ Calls("finally")
  /\ LET m == Create(machine) IN
       /\ Becomes(React(m, FinallyReaction(p, Newest(m), f)))
       /\ Answers(Newest(m))
  /\ UNCHANGED <<program, stack, draining, held, reported, turns>>

(* Promise.resolve and Promise.reject (mod.rs, resolved_by, rejected_by):  *)
(* a promise is answered as it is, anything else through a fresh one.      *)
ResolvedBy(v) == IF v.tag = "promise" THEN machine
                 ELSE Resolve(Create(machine), Newest(machine) + 1, v)
RejectedBy(v) == Reject(Create(machine), Newest(machine) + 1, v)

StaticResolve(v) ==
  /\ Calls("resolve") /\ v.tag # "promise"
  /\ Becomes(ResolvedBy(v))
  /\ Answers(Newest(machine) + 1)
  /\ UNCHANGED <<program, stack, draining, held, reported, turns>>

StaticReject(v) ==
  /\ Calls("reject")
  /\ Becomes(RejectedBy(v))
  /\ Answers(Newest(machine) + 1)
  /\ UNCHANGED <<program, stack, draining, held, reported, turns>>

(* Promise.all, allSettled, race and any over at most two elements.  The   *)
(* race with no entrants is an operation of its own: a program that never  *)
(* asks for one can expect every promise to be somebody's business.        *)
Elements(kind) == {<<v>> : v \in Values} \cup {<<v, w>> : v, w \in Values}
                  \cup (IF kind = "race" THEN {} ELSE {<<>>})

CombineAny(kind) ==
  /\ Calls("combine")
  /\ \E elements \in Elements(kind) : Becomes(Combine(machine, kind, elements))
  /\ Answers(Newest(machine) + 1)
  /\ UNCHANGED <<program, stack, draining, held, reported, turns>>

EmptyRace ==
  /\ Calls("emptyRace")
  /\ Becomes(Combine(machine, "race", <<>>))
  /\ Answers(Newest(machine) + 1)
  /\ UNCHANGED <<program, stack, draining, held, reported, turns>>

(* async_start: the result promise, then the body at once.                 *)
AsyncCall ==
  /\ Calls("async") /\ Len(stack) < MaxDepth
  /\ Becomes(Create(machine))
  /\ Answers(Newest(machine) + 1)
  /\ stack' = Call(CodeFor("body", Newest(machine) + 1))
  /\ UNCHANGED <<program, draining, held, reported, turns>>

(* Promise.try calls its callback before any promise exists.               *)
Try ==
  /\ Calls("try") /\ Len(stack) < MaxDepth /\ Fits(machine, Owed + 1)
  /\ stack' = Call(CodeFor("try", 0))
  /\ UNCHANGED <<program, machine, draining, named, held, reported, turns>>

-----------------------------------------------------------------------------
(***************************************************************************)
(* How a piece of code ends: drain.rs perform and class.rs build after the *)
(* call came back, async_fn.rs drive after the body stepped.               *)
(***************************************************************************)
Running(kind) == stack # <<>> /\ Top.kind = kind
EndsWith(m)   == Becomes(m) /\ stack' = Rest

(* The end of a turn leaves what it queued for the next drain.             *)
EndTurn ==
  /\ Running("turn")
  /\ stack' = Rest
  /\ UNCHANGED <<program, machine, draining, named, held, reported, turns>>

HandlerReturns(v) ==
  /\ Running("handler")
  /\ EndsWith(Resolve(machine, Top.target, v))
  /\ UNCHANGED <<program, draining, named, held, reported, turns>>

(* A `finally' callback that answers something to wait for delays the      *)
(* settlement it passes on.                                                *)
FinallyReturns(v) ==
  /\ Running("finally")
  /\ EndsWith(IF v.tag = "plain"
              THEN SettleThrough(machine, Top.target, Top.how, Top.value)
              ELSE React(Waitable(machine, v),
                         RestoreReaction(WaitedOn(machine, v), Top.target,
                                         Top.how, Top.value)))
  /\ UNCHANGED <<program, draining, named, held, reported, turns>>

(* An async body runs to its end, or to an await that parks it.            *)
BodyReturns(v) ==
  /\ Running("body")
  /\ EndsWith(Resolve(machine, Top.target, v))
  /\ UNCHANGED <<program, draining, named, held, reported, turns>>

BodyAwaits(v) ==
  /\ Running("body")
  /\ EndsWith(React(Waitable(machine, v),
                    FrameReaction(WaitedOn(machine, v), Top.target)))
  /\ UNCHANGED <<program, draining, named, held, reported, turns>>

(* What throws rejects the promise its code answers for.                   *)
CodeThrows(v) ==
  /\ stack # <<>> /\ Top.kind \in {"handler", "finally", "body", "getter"}
  /\ EndsWith(Reject(machine, Top.target, v))
  /\ UNCHANGED <<program, draining, named, held, reported, turns>>

(* An executor's own answer is dropped; its throw rejects unless the pair  *)
(* was used.                                                               *)
ExecutorReturns ==
  /\ Running("executor")
  /\ EndsWith(machine)
  /\ UNCHANGED <<program, draining, named, held, reported, turns>>

ExecutorThrows(v) ==
  /\ Running("executor")
  /\ EndsWith(IF machine.pairs[Top.pair].spent THEN machine
              ELSE Reject(machine, Top.target, v))
  /\ UNCHANGED <<program, draining, named, held, reported, turns>>

(* The `then' of a thenable: its answer is dropped, and its throw rejects  *)
(* the promise WITHOUT asking whether the pair it was given was used.      *)
ThenReturns ==
  /\ Running("then")
  /\ EndsWith(machine)
  /\ UNCHANGED <<program, draining, named, held, reported, turns>>

ThenThrows(v) ==
  /\ Running("then")
  /\ EndsWith(Reject(machine, Top.target, v))
  /\ UNCHANGED <<program, draining, named, held, reported, turns>>

(* A getter answers what it reads as `then': something callable, which is  *)
(* called on the spot, or not, and the object is the fulfilment.           *)
GetterReturns(callable) ==
  /\ Running("getter")
  /\ IF callable
     THEN /\ stack' = Append(Rest, [Top EXCEPT !.kind = "then"])
          /\ held' = held \cup {Top.pair}
          /\ UNCHANGED machine
     ELSE /\ EndsWith(Settle(machine, Top.target, "fulfilled", Top.value))
          /\ UNCHANGED held
  /\ UNCHANGED <<program, draining, named, reported, turns>>

TryReturns(v) ==
  /\ Running("try")
  /\ Fits(ResolvedBy(v), Owed - 1) /\ machine' = ResolvedBy(v) /\ stack' = Rest
  /\ named' = IF v.tag = "promise" THEN named ELSE named \cup {Newest(machine) + 1}
  /\ UNCHANGED <<program, draining, held, reported, turns>>

TryThrows(v) ==
  /\ Running("try")
  /\ Fits(RejectedBy(v), Owed - 1) /\ machine' = RejectedBy(v) /\ stack' = Rest
  /\ Answers(Newest(machine) + 1)
  /\ UNCHANGED <<program, draining, held, reported, turns>>

-----------------------------------------------------------------------------
(***************************************************************************)
(* drain_microtasks: take the reaction at the head of the queue, prepare   *)
(* it, perform it.  A step that calls the program pushes a frame; the      *)
(* drain goes on when the stack is empty again.                            *)
(*                                                                         *)
(* The host drains between two of its turns, but not between every two: a  *)
(* source may deliver several callbacks in a row, and the finalizers a     *)
(* drain ends with run before the next one.  A drain with nothing to do    *)
(* does nothing.                                                           *)
(***************************************************************************)
StartDrain ==
  /\ stack = <<>> /\ ~draining
  /\ machine.queue # <<>> \/ machine.unnoticed # {}
  /\ draining' = TRUE
  /\ UNCHANGED <<program, machine, stack, named, held, reported, turns>>

Next1    == machine.reactions[Head(machine.queue)]
Drains(kind) == /\ draining /\ stack = <<>> /\ machine.queue # <<>>
                /\ Next1.kind = kind
SourceHow   == machine.state[Next1.source]
SourceValue == machine.value[Next1.source]
Chosen      == IF SourceHow = "fulfilled" THEN Next1.ful ELSE Next1.rej

(* then/catch whose slot holds no function: the settlement passes through. *)
RunPass ==
  /\ Drains("js") /\ Chosen.kind = "none"
  /\ Becomes(SettleThrough(Take(machine), Next1.target, SourceHow, SourceValue))
  /\ UNCHANGED <<program, stack, draining, named, held, reported, turns>>

RunHandler ==
  /\ Drains("js") /\ Chosen.kind = "user"
  /\ Becomes(Take(machine))
  /\ stack' = Call(CodeFor("handler", Next1.target))
  /\ UNCHANGED <<program, draining, named, held, reported, turns>>

(* A settler as the handler, which an adopting job attached: it answers    *)
(* undefined, and the derived promise fulfils with that.                   *)
RunSettler ==
  /\ Drains("js") /\ Chosen.kind \in {"resolve", "reject"}
  /\ Becomes(Resolve(CallSettler(Take(machine), Chosen, SourceValue),
                     Next1.target, Undefined))
  /\ UNCHANGED <<program, stack, draining, named, held, reported, turns>>

RunFinally ==
  /\ Drains("finally")
  /\ IF Next1.ful.kind = "none"
     THEN /\ Becomes(SettleThrough(Take(machine), Next1.target, SourceHow, SourceValue))
          /\ UNCHANGED stack
     ELSE /\ Becomes(Take(machine))
          /\ stack' = Call(NewFrame("finally", Next1.target, 0, SourceHow, SourceValue))
  /\ UNCHANGED <<program, draining, named, held, reported, turns>>

(* What `finally' waited for settled: its rejection replaces the           *)
(* settlement carried across, its fulfilment does not.                     *)
RunRestore ==
  /\ Drains("restore")
  /\ Becomes(IF SourceHow = "rejected"
             THEN Reject(Take(machine), Next1.target, SourceValue)
             ELSE SettleThrough(Take(machine), Next1.target, Next1.how, Next1.value))
  /\ UNCHANGED <<program, stack, draining, named, held, reported, turns>>

(* NewPromiseResolveThenableJob, by what the value is.                     *)
RunAdoptPromise ==
  /\ Drains("thenable") /\ Next1.value.tag = "promise"
  /\ Becomes(AdoptPromise(Take(machine), Next1.target, Next1.value.id))
  /\ UNCHANGED <<program, stack, draining, named, held, reported, turns>>

RunAdoptObject ==
  /\ Drains("thenable") /\ Next1.value.tag # "promise"
  /\ Becomes(OpenPair(Take(machine), Next1.target))
  /\ LET k == NewestPair(machine) + 1
         kind == IF Next1.value.tag = "getter" THEN "getter" ELSE "then"
     IN  /\ stack' = Call(NewFrame(kind, Next1.target, k, "fulfilled", Next1.value))
         /\ held' = IF kind = "then" THEN held \cup {k} ELSE held
  /\ UNCHANGED <<program, draining, named, reported, turns>>

(* A parked async body resumes, with the value or with the throw.          *)
RunFrame ==
  /\ Drains("frame")
  /\ Becomes(Take(machine))
  /\ stack' = Call(NewFrame("body", Next1.target, 0, SourceHow, SourceValue))
  /\ UNCHANGED <<program, draining, named, held, reported, turns>>

RunMember ==
  /\ Drains("member")
  /\ Becomes(Advance(Take(machine), Next1.group, Next1.slot, SourceHow, SourceValue))
  /\ UNCHANGED <<program, stack, draining, named, held, reported, turns>>

(* A slip: the drain gives up after some reactions instead of running to   *)
(* empty.                                                                  *)
ReportEarly ==
  /\ draining /\ stack = <<>>
  /\ reported' = reported \cup machine.unnoticed
  /\ machine' = [machine EXCEPT !.unnoticed = {}]
  /\ draining' = FALSE
  /\ UNCHANGED <<program, stack, named, held, turns>>

(* The queue is empty: report, and the turn is over.                       *)
Report ==
  /\ draining /\ stack = <<>> /\ machine.queue = <<>>
  /\ reported' = reported \cup machine.unnoticed
  /\ machine' = [machine EXCEPT !.unnoticed = {}]
  /\ draining' = FALSE
  /\ UNCHANGED <<program, stack, named, held, turns>>

-----------------------------------------------------------------------------
Operation ==
  \/ New \/ WithResolvers \/ AsyncCall \/ Try \/ EmptyRace
  \/ \E k \in held, v \in Values : SettlerCalled(k, v)
  \/ \E p \in named, f, r \in Handler : Then(p, f, r)
  \/ \E p \in named, f \in Handler : Finally(p, f)
  \/ \E v \in Values : StaticResolve(v) \/ StaticReject(v)
  \/ \E kind \in {"all", "allSettled", "race", "any"} : CombineAny(kind)

Return ==
  \/ EndTurn \/ ExecutorReturns \/ ThenReturns
  \/ \E callable \in BOOLEAN : GetterReturns(callable)
  \/ \E v \in Values \cup {Undefined} :
       \/ HandlerReturns(v) \/ FinallyReturns(v) \/ BodyReturns(v) \/ BodyAwaits(v)
       \/ TryReturns(v)

Throw == \E v \in Values :
  CodeThrows(v) \/ ExecutorThrows(v) \/ ThenThrows(v) \/ TryThrows(v)

Drain ==
  \/ StartDrain \/ RunPass \/ RunHandler \/ RunSettler \/ RunFinally \/ RunRestore
  \/ RunAdoptPromise \/ RunAdoptObject \/ RunFrame \/ RunMember \/ Report

Next == StartTurn \/ Operation \/ Return \/ Throw \/ Drain

Spec == Init /\ [][Next]_vars

(***************************************************************************)
(* The host's loop drains after everything it has delivered, the drain is  *)
(* itself a loop that runs until the queue is empty, and the code it calls *)
(* is assumed to come back.  Whether the host enters the program again,    *)
(* and what the program does, is not forced.                               *)
(***************************************************************************)
Fairness == WF_vars(Drain) /\ WF_vars(Return)
FairSpec == Spec /\ Fairness
=============================================================================
