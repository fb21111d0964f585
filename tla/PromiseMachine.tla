---------------------------- MODULE PromiseMachine ----------------------------
(***************************************************************************)
(* The tables of the promise machine and the verbs over them that run no   *)
(* user code: rts-core/src/entry/promise/state (Machine, settle, resolve,  *)
(* reject, react, pairs), group.rs, and what they call of the machine      *)
(* layer's PromiseTable and Queues (rts-cranelift/src/sched) and of        *)
(* Settlements (rts-core/src/schedule).                                    *)
(*                                                                         *)
(* A machine is a record and a verb maps a machine to the machine it       *)
(* leaves, so that an operation of the program, which is several verbs in  *)
(* a row under one borrow, is their composition in ONE action of module    *)
(* Promises.                                                               *)
(*                                                                         *)
(* A promise, a reaction, a pair and a group are named by the position     *)
(* they were created at, as in the code's vectors (from 1 here, from 0     *)
(* there).  Promise 0 stands for Rust's None.                              *)
(***************************************************************************)
EXTENDS Integers, Sequences, FiniteSets

(***************************************************************************)
(* Values.  A payload is "plain"; what the code tells apart is whether a   *)
(* value is a promise of this machine, an object whose `then` is callable, *)
(* or an object whose `then` is behind a getter (thenable.rs, then_of).    *)
(***************************************************************************)
Plain(n)       == [tag |-> "plain", id |-> n]
Undefined      == Plain(0)
Made           == Plain(1)    \* an array or an error the runtime assembles
PromiseVal(p)  == [tag |-> "promise", id |-> p]
ThenableObj    == [tag |-> "thenable", id |-> 0]
GetterObj      == [tag |-> "getter", id |-> 0]
Value          == [tag : {"plain", "promise", "thenable", "getter"}, id : Nat]

Settled        == {"fulfilled", "rejected"}
State          == {"pending"} \cup Settled

(* What a handler slot holds: nothing callable, a function of the program, *)
(* or one of the two settlers of a pair.                                   *)
Callable       == [kind : {"none", "user", "resolve", "reject"}, pair : Nat]
NotCallable    == [kind |-> "none", pair |-> 0]
UserFn         == [kind |-> "user", pair |-> 0]
ResolveFn(k)   == [kind |-> "resolve", pair |-> k]
RejectFn(k)    == [kind |-> "reject", pair |-> k]

(***************************************************************************)
(* react.rs, Reaction and Handler.  `source' is the promise waited on      *)
(* (0 for a thenable job, which waits on nothing), `target' the promise    *)
(* the reaction answers for.                                               *)
(***************************************************************************)
Reaction == [kind : {"js", "finally", "member", "thenable", "frame", "restore"},
             source : Nat, target : Nat, ful : Callable, rej : Callable,
             how : Settled, value : Value, group : Nat, slot : Nat]

Blank(kind, source, target) ==
  [kind |-> kind, source |-> source, target |-> target,
   ful |-> NotCallable, rej |-> NotCallable,
   how |-> "fulfilled", value |-> Undefined, group |-> 0, slot |-> 0]

JsReaction(s, d, f, r)    == [Blank("js", s, d) EXCEPT !.ful = f, !.rej = r]
FinallyReaction(s, d, f)  == [Blank("finally", s, d) EXCEPT !.ful = f]
MemberReaction(s, d, g, i)== [Blank("member", s, d) EXCEPT !.group = g, !.slot = i]
ThenableJob(v, p)         == [Blank("thenable", 0, p) EXCEPT !.value = v]
FrameReaction(s, result)  == Blank("frame", s, result)
RestoreReaction(s, d, how, v) ==
  [Blank("restore", s, d) EXCEPT !.how = how, !.value = v]

Pair  == [promise : Nat, spent : BOOLEAN]
Group == [kind : {"all", "allSettled", "race", "any"}, result : Nat,
          values : Seq(Value), remaining : Nat]

Machine == [state     : Seq(State),       \* PromiseTable: state and waiters,
            waiters   : Seq(Seq(Nat)),    \*   by promise
            value     : Seq(Value),       \* Settlements: what each settled with
            unnoticed : SUBSET Nat,       \*   and the rejections to report
            reactions : Seq(Reaction),    \* every reaction ever recorded,
            taken     : SUBSET Nat,       \*   and those taken out to run
            queue     : Seq(Nat),         \* Queues: what is runnable, in order
            pairs     : Seq(Pair),
            groups    : Seq(Group)]

NoMachine == [state |-> <<>>, waiters |-> <<>>, value |-> <<>>, unnoticed |-> {},
              reactions |-> <<>>, taken |-> {}, queue |-> <<>>,
              pairs |-> <<>>, groups |-> <<>>]

Promise(m)    == 1 .. Len(m.state)
ReactionId(m) == 1 .. Len(m.reactions)
Waiting(m)    == ReactionId(m) \ m.taken       \* reactions that have not run

(* Machine::create over PromiseTable::create: the new promise is the last. *)
Create(m) == [m EXCEPT !.state = Append(@, "pending"),
                       !.waiters = Append(@, <<>>),
                       !.value = Append(@, Undefined)]
Newest(m) == Len(m.state)

(* Slips of settle that the runs must notice: only the first waiter woken, *)
(* and the waiters woken last first.                                       *)
SettleWakes(m, p, how, v, woken) ==
  IF m.state[p] # "pending" THEN m
  ELSE [m EXCEPT !.state = [@ EXCEPT ![p] = how],
                 !.value = [@ EXCEPT ![p] = v],
                 !.waiters = [@ EXCEPT ![p] = <<>>],
                 !.queue = @ \o woken]
SettleWakesOne(m, p, how, v) ==
  SettleWakes(m, p, how, v,
              SubSeq(m.waiters[p], 1, IF m.waiters[p] = <<>> THEN 0 ELSE 1))
SettleWakesLastFirst(m, p, how, v) ==
  LET n == Len(m.waiters[p])
  IN  SettleWakes(m, p, how, v, [i \in 1 .. n |-> m.waiters[p][n + 1 - i]])

(***************************************************************************)
(* state::settle: Scheduler::settle takes the waiters and wakes them in    *)
(* the order they attached; Settlements::record keeps the value, and a     *)
(* rejection nobody waited for becomes a candidate for the report.         *)
(* A promise that is not pending is left alone by both.                    *)
(***************************************************************************)
Settle(m, p, how, v) ==
  IF m.state[p] # "pending"
  THEN m
  ELSE [m EXCEPT !.state = [@ EXCEPT ![p] = how],
                 !.value = [@ EXCEPT ![p] = v],
                 !.waiters = [@ EXCEPT ![p] = <<>>],
                 !.queue = @ \o m.waiters[p],
                 !.unnoticed = IF how = "rejected" /\ m.waiters[p] = <<>>
                               THEN @ \cup {p} ELSE @]

Reject(m, p, v) == Settle(m, p, "rejected", v)

(* Machine::record followed by Queues::wake, for a job that waits on       *)
(* nothing.                                                                *)
Enqueue(m, r) == [m EXCEPT !.reactions = Append(@, r),
                           !.queue = Append(@, Len(m.reactions) + 1)]

(***************************************************************************)
(* state::resolve: the promise itself, a thenable, an ordinary value.  It  *)
(* does not ask whether the promise is still pending.                      *)
(***************************************************************************)
Resolve(m, p, v) ==
  IF v.tag = "plain" THEN Settle(m, p, "fulfilled", v)
  ELSE IF v = PromiseVal(p) THEN Reject(m, p, Made)
  ELSE Enqueue(m, ThenableJob(v, p))

(* drain.rs, settle_through.                                               *)
SettleThrough(m, p, how, v) ==
  IF how = "fulfilled" THEN Resolve(m, p, v) ELSE Reject(m, p, v)

(* Slips of react: woken at once though the source is pending, and a late  *)
(* handler that does not take the rejection back.                          *)
ReactAtOnce(m, r) ==
  [m EXCEPT !.reactions = Append(@, r),
            !.queue = Append(@, Len(m.reactions) + 1),
            !.unnoticed = @ \ {r.source}]
ReactUnnoticed(m, r) ==
  LET w == Len(m.reactions) + 1
  IN  [m EXCEPT !.reactions = Append(@, r),
                !.waiters = IF m.state[r.source] = "pending"
                            THEN [@ EXCEPT ![r.source] = Append(@, w)] ELSE @,
                !.queue = IF m.state[r.source] = "pending" THEN @ ELSE Append(@, w)]

(***************************************************************************)
(* state::react: record, PromiseTable::attach, wake at once if the source  *)
(* had settled, and Settlements::noticed.                                  *)
(***************************************************************************)
React(m, r) ==
  LET s == r.source
      w == Len(m.reactions) + 1
  IN  [m EXCEPT !.reactions = Append(@, r),
                !.waiters = IF m.state[s] = "pending"
                            THEN [@ EXCEPT ![s] = Append(m.waiters[s], w)] ELSE @,
                !.queue = IF m.state[s] = "pending" THEN @ ELSE Append(@, w),
                !.unnoticed = @ \ {s}]

(* Queues::next and Machine::taken: the reaction at the head of the queue  *)
(* leaves both the queue and the table.                                    *)
Take(m) == [m EXCEPT !.queue = Tail(@), !.taken = @ \cup {Head(m.queue)}]

(* Machine::open_pair: a fresh alreadyResolved cell for a promise.         *)
OpenPair(m, p) == [m EXCEPT !.pairs = Append(@, [promise |-> p, spent |-> FALSE])]
NewestPair(m)  == Len(m.pairs)

(* A slip: the alreadyResolved cell set but not read.                      *)
CallSettlerAgain(m, f, v) ==
  LET claimed == [m EXCEPT !.pairs = [@ EXCEPT ![f.pair].spent = TRUE]]
      p       == m.pairs[f.pair].promise
  IN  IF f.kind = "resolve" THEN Resolve(claimed, p, v) ELSE Reject(claimed, p, v)

(***************************************************************************)
(* A settler called: Machine::claim_pair, then resolve or reject.  A pair  *)
(* already spent does nothing.                                             *)
(***************************************************************************)
CallSettler(m, f, v) ==
  LET claimed == [m EXCEPT !.pairs = [@ EXCEPT ![f.pair].spent = TRUE]]
      p       == m.pairs[f.pair].promise
  IN  IF m.pairs[f.pair].spent THEN m
      ELSE IF f.kind = "resolve" THEN Resolve(claimed, p, v)
      ELSE Reject(claimed, p, v)

(***************************************************************************)
(* thenable::waited_on for a value that is not plain: a promise is waited  *)
(* on as it is, a thenable through a fresh promise resolved with it.       *)
(* async_fn.rs's waited_on extends it to any value.                        *)
(***************************************************************************)
Waitable(m, v)   == IF v.tag = "promise" THEN m
                    ELSE Resolve(Create(m), Newest(m) + 1, v)
WaitedOn(m, v)   == IF v.tag = "promise" THEN v.id ELSE Newest(m) + 1

(* A slip: the job hands `resolve' over for both outcomes.                 *)
AdoptAsFulfilled(m, p, q) ==
  LET opened == Create(OpenPair(m, p))
      k      == NewestPair(opened)
  IN  React(opened, JsReaction(q, Newest(opened), ResolveFn(k), ResolveFn(k)))

(***************************************************************************)
(* PerformPromiseThen reached from NewPromiseResolveThenableJob: the job   *)
(* opens a pair and calls the native `then` of promise q with its two      *)
(* settlers (drain.rs Step::Adopt over class.rs attached).                 *)
(***************************************************************************)
AdoptPromise(m, p, q) ==
  LET opened == Create(OpenPair(m, p))
      k      == NewestPair(opened)
  IN  React(opened, JsReaction(q, Newest(opened), ResolveFn(k), RejectFn(k)))

(* A slip: the count of a group one too high, as if the loop held a place. *)
OpenGroupHeld(m, kind, result, n) ==
  [m EXCEPT !.groups = Append(@, [kind |-> kind, result |-> result,
                                  values |-> [i \in 1 .. n |-> Undefined],
                                  remaining |-> n + 1])]

(***************************************************************************)
(* A combinator.  Group::new over as many slots as elements; every element *)
(* observed (a promise is its own, anything else gets a fresh promise) and *)
(* reacted to, in order.                                                   *)
(***************************************************************************)
OpenGroup(m, kind, result, n) ==
  [m EXCEPT !.groups = Append(@, [kind |-> kind, result |-> result,
                                  values |-> [i \in 1 .. n |-> Undefined],
                                  remaining |-> n])]

Join(m, v, i) ==
  LET g == Len(m.groups)
  IN  React(Waitable(m, v),
            MemberReaction(WaitedOn(m, v), m.groups[g].result, g, i))

(* combinators.rs, settle_empty: a race with no entrants stays pending.    *)
SettleEmpty(m, kind, p) ==
  CASE kind \in {"all", "allSettled"} -> Settle(m, p, "fulfilled", Made)
    [] kind = "any"                   -> Reject(m, p, Made)
    [] kind = "race"                  -> m

(* The loop over the elements, unrolled: `elements' has at most two.      *)
JoinAll(m, elements) ==
  IF Len(elements) = 1 THEN Join(m, elements[1], 1)
  ELSE Join(Join(m, elements[1], 1), elements[2], 2)

Combine(m, kind, elements) ==
  LET made   == Create(m)
      result == Newest(made)
  IN  IF elements = <<>> THEN SettleEmpty(made, kind, result)
      ELSE JoinAll(OpenGroup(made, kind, result, Len(elements)), elements)

(***************************************************************************)
(* group.rs, advance, together with the step the drain then performs       *)
(* (Finish, Collect, Aggregate).  `Decides' is a member that settles the   *)
(* result alone; any other fills its slot, and the last one to fill        *)
(* settles the result with what was collected.                             *)
(***************************************************************************)
Decides(kind, how) == \/ kind = "race"
                      \/ kind = "all" /\ how = "rejected"
                      \/ kind = "any" /\ how = "fulfilled"

(* A slip of fill: values kept in the order they came, not by slot.        *)
FillByArrival(m, g, i, v) ==
  LET at == Len(m.groups[g].values) - m.groups[g].remaining + 1
  IN  [m EXCEPT !.groups[g].values[at] = v,
                !.groups[g].remaining = @ - 1]

Fill(m, g, i, v) ==
  [m EXCEPT !.groups[g].values[i] = v,
            !.groups[g].remaining = IF @ = 0 THEN 0 ELSE @ - 1]

Advance(m, g, i, how, v) ==
  LET group  == m.groups[g]
      filled == Fill(m, g, i, v)
  IN  IF Decides(group.kind, how) THEN SettleThrough(m, group.result, how, v)
      ELSE IF filled.groups[g].remaining # 0 THEN filled
      ELSE IF group.kind = "any" THEN Reject(filled, group.result, Made)
      ELSE Settle(filled, group.result, "fulfilled", Made)
=============================================================================
