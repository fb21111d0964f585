--------------------------------- MODULE Sched ---------------------------------
(***************************************************************************)
(* The machine layer's scheduler used on its own, as its tests and other   *)
(* clients of the layer use it (rts-cranelift/src/sched): one table of     *)
(* promises shared by several regions, a scheduler with its queues in each *)
(* region, adoption of one promise by another, and the hand-over of woken  *)
(* waiters from the region that settled a promise to the one that owns it. *)
(*                                                                         *)
(* A promise and a continuation are named by the position they were made   *)
(* at.  What a client does (settle, park, adopt, cancel, schedule) comes   *)
(* in any order; a hand-over takes as long as it takes.                    *)
(***************************************************************************)
EXTENDS Integers, Sequences, FiniteSets, SequencesExt

CONSTANTS
  Region,            \* the SchedulerIds
  Uses,              \* what the client asks for beyond the plain uses:
                     \*   "settled" lets a promise somebody waits on adopt
                     \*   one already settled,
                     \*   "foreign" adopts a promise of another region
  Worlds,            \* who owns the promises, in the order they are made
  MaxConts, MaxTasks, MaxAdoptions, MaxCancels     \* bounds for TLC

ASSUME UsesAssumption   == Uses \subseteq {"settled", "foreign"}
ASSUME WorldsAssumption == Worlds \subseteq Seq(Region)

VARIABLES
  state,      \* PromiseCell.state, by promise
  waiters,    \* PromiseCell.waiters
  owner,      \* PromiseCell.owner
  ready,      \* Queues.continuations, by region
  tasks,      \* Queues.tasks
  cancelled,  \* Queues.cancelled
  parcels,    \* every Delivery::Elsewhere, and whether its owner accepted it
  conts,      \* the promise each continuation was parked on
  adopted,    \* the adoptions that parked, as <<adopter, adopted>>
  late,       \* history: each frame parked on a promise already settled,
              \* with the region that parked it
  ran         \* what each region ran, in order

table == <<state, waiters>>
vars  == <<state, waiters, owner, ready, tasks, cancelled, parcels, conts, adopted, late, ran>>

(* The regions that take part: a bound, with Worlds, on who does what.      *)
Active == {s \in Region : \E w \in Worlds : IsPrefix(owner, w) /\ \E i \in DOMAIN w : w[i] = s}

Settlement == {"fulfilled", "rejected"}
Promise    == 1 .. Len(state)
Cont       == 1 .. Len(conts)

(* A waiter is a parked frame or a promise that adopted this one.          *)
Waiter         == [kind : {"cont", "promise"}, id : Nat]
Frame(c)       == [kind |-> "cont", id |-> c]
Adopter(p)     == [kind |-> "promise", id |-> p]

(* A list of waiters taken one by one: the frames woken, the adopters       *)
(* still to settle.                                                         *)
Sorted(ws) ==
  LET sorted[i \in 0 .. Len(ws)] ==
        IF i = 0 THEN [cont |-> <<>>, promise |-> <<>>]
        ELSE IF ws[i].kind = "cont"
             THEN [sorted[i - 1] EXCEPT !.cont = Append(@, ws[i].id)]
             ELSE [sorted[i - 1] EXCEPT !.promise = Append(@, ws[i].id)]
  IN  sorted
FramesOf(ws)   == Sorted(ws)[Len(ws)].cont
AdoptersOf(ws) == Sorted(ws)[Len(ws)].promise

Ran == [kind : {"cont", "task"}, id : Nat]

Init ==
  /\ state = <<>> /\ waiters = <<>> /\ owner = <<>>
  /\ ready = [s \in Region |-> <<>>]
  /\ tasks = [s \in Region |-> <<>>]
  /\ cancelled = [s \in Region |-> {}]
  /\ parcels = <<>> /\ conts = <<>> /\ adopted = {} /\ late = {}
  /\ ran = [s \in Region |-> <<>>]

----------------------------------------------------------------------------
(* Slips of the loop: a promise's waiters woken whatever they are.         *)
PopAnyWaiter(a, how) ==
  IF a.stack = <<>> THEN a
  ELSE LET p == Last(a.stack)
       IN  IF a.state[p] # "pending" THEN [a EXCEPT !.stack = Front(@)]
           ELSE [state   |-> [a.state EXCEPT ![p] = how],
                 waiters |-> [a.waiters EXCEPT ![p] = <<>>],
                 woken   |-> a.woken \o [i \in DOMAIN a.waiters[p] |-> a.waiters[p][i].id],
                 stack   |-> Front(a.stack) \o AdoptersOf(a.waiters[p])]
PopReversed(a, how) ==
  IF a.stack = <<>> THEN a
  ELSE LET p == Last(a.stack)
       IN  IF a.state[p] # "pending" THEN [a EXCEPT !.stack = Front(@)]
           ELSE [state   |-> [a.state EXCEPT ![p] = how],
                 waiters |-> [a.waiters EXCEPT ![p] = <<>>],
                 woken   |-> a.woken \o Reverse(FramesOf(a.waiters[p])),
                 stack   |-> Front(a.stack) \o AdoptersOf(a.waiters[p])]

(***************************************************************************)
(* PromiseTable::settle.  One turn of its loop: the promise on top of the  *)
(* stack settles unless it had, its frames are woken and its adopters      *)
(* pushed.  The loop ends when the stack is empty, after at most one turn  *)
(* for the promise it started with and one for each adopter in the table.  *)
(***************************************************************************)
Pop(a, how) ==
  IF a.stack = <<>> THEN a
  ELSE LET p == Last(a.stack)
       IN  IF a.state[p] # "pending" THEN [a EXCEPT !.stack = Front(@)]
           ELSE [state   |-> [a.state EXCEPT ![p] = how],
                 waiters |-> [a.waiters EXCEPT ![p] = <<>>],
                 woken   |-> a.woken \o FramesOf(a.waiters[p]),
                 stack   |-> Front(a.stack) \o AdoptersOf(a.waiters[p])]

Adoptions(ws) ==
  UNION {{p} \X {i \in 1 .. Len(ws[p]) : ws[p][i].kind = "promise"} : p \in 1 .. Len(ws)}
Turns         == 1 + Cardinality(Adoptions(waiters))

Settling(p, how) ==
  LET after[n \in 0 .. Turns] ==
        IF n = 0
        THEN [state |-> state, waiters |-> waiters, woken |-> <<>>, stack |-> <<p>>]
        ELSE Pop(after[n - 1], how)
  IN  after
TableSettle(p, how) == Settling(p, how)[Turns]

(***************************************************************************)
(* PromiseTable::would_cycle: whether `other' is among what `id' would     *)
(* eventually settle, itself included.                                     *)
(***************************************************************************)
Waits(q, p) == \E i \in 1 .. Len(waiters[p]) : waiters[p][i] = Adopter(q)

(* Only a promise adopting itself noticed.                                 *)
WouldCycleSelf(id, other) == id = other

(* What has been seen after n turns of the walk over the waiters.          *)
Seen(id) ==
  LET seen[n \in 0 .. Len(state)] ==
        IF n = 0 THEN {id}
        ELSE seen[n - 1] \cup {q \in Promise : \E p \in seen[n - 1] : Waits(q, p)}
  IN  seen
WouldSettle(id) == Seen(id)[Len(state)]

WouldCycle(id, other) == other \in WouldSettle(id)

----------------------------------------------------------------------------
(* PromiseTable::create.                                                   *)
Create(s) ==
  /\ \E world \in Worlds : IsPrefix(Append(owner, s), world)
  /\ state' = Append(state, "pending")
  /\ waiters' = Append(waiters, <<>>)
  /\ owner' = Append(owner, s)
  /\ UNCHANGED <<ready, tasks, cancelled, parcels, conts, adopted, late, ran>>

(* Enqueued where the settling happened, whoever owns the promise.         *)
DeliverHere(s, p, woken) ==
  /\ ready' = [ready EXCEPT ![s] = @ \o woken]
  /\ UNCHANGED parcels

(* A hand-over forgotten: Nobody returned for a promise of another region. *)
DeliverOwn(s, p, woken) ==
  /\ ready' = [ready EXCEPT ![s] = IF owner[p] = s THEN @ \o woken ELSE @]
  /\ UNCHANGED parcels

(***************************************************************************)
(* Scheduler::settle.  What was woken goes in this region's queue if the   *)
(* promise settled is its own, and is returned for the owner otherwise.    *)
(* A second settlement is dropped, which is no step at all.                *)
(***************************************************************************)
Deliver(s, p, woken) ==
  IF owner[p] = s \/ woken = <<>>
  THEN /\ ready' = [ready EXCEPT ![s] = @ \o woken]
       /\ UNCHANGED parcels
  ELSE /\ parcels' = Append(parcels, [to |-> owner[p], conts |-> woken, accepted |-> FALSE])
       /\ UNCHANGED ready

Settle(s, p, how) ==
  LET settled == TableSettle(p, how)
  IN  /\ state[p] = "pending"
      /\ state' = settled.state
      /\ waiters' = settled.waiters
      /\ Deliver(s, p, settled.woken)
      /\ UNCHANGED <<owner, tasks, cancelled, conts, adopted, late, ran>>

(* Scheduler::accept, of what another region's settle returned.            *)
Accept(i) ==
  /\ ~parcels[i].accepted
  /\ parcels' = [parcels EXCEPT ![i].accepted = TRUE]
  /\ ready' = [ready EXCEPT ![parcels[i].to] = @ \o parcels[i].conts]
  /\ UNCHANGED <<state, waiters, owner, tasks, cancelled, conts, adopted, late, ran>>

(***************************************************************************)
(* Scheduler::park over PromiseTable::attach: a frame waits on a pending   *)
(* promise, whoever owns it, and goes in the queue of the region that      *)
(* parked it when the promise had settled, whoever owns it.                *)
(***************************************************************************)
Park(s, p) ==
  LET c == Len(conts) + 1
  IN  /\ c <= MaxConts
      /\ conts' = Append(conts, p)
      /\ IF state[p] = "pending"
         THEN /\ waiters' = [waiters EXCEPT ![p] = Append(@, Frame(c))]
              /\ UNCHANGED <<ready, late>>
         ELSE /\ ready' = [ready EXCEPT ![s] = Append(@, c)]
              /\ late' = late \cup {<<c, s>>}
              /\ UNCHANGED waiters
      /\ UNCHANGED <<state, owner, tasks, cancelled, parcels, adopted, ran>>

(***************************************************************************)
(* PromiseTable::adopt.  Refused for a cycle; parked as a waiter of a      *)
(* pending promise; settled on the spot as a settled one was - and what    *)
(* that settling woke is dropped with its SettleOutcome.                   *)
(***************************************************************************)
MayAdopt(p, q) == /\ state[q] # "pending" /\ waiters[p] # <<>> => "settled" \in Uses
                  /\ owner[p] # owner[q] => "foreign" \in Uses

AdoptPending(p, q) ==
  /\ state[q] = "pending" /\ ~WouldCycle(p, q) /\ MayAdopt(p, q)
  /\ Cardinality(adopted) < MaxAdoptions /\ <<p, q>> \notin adopted
  /\ waiters' = [waiters EXCEPT ![q] = Append(@, Adopter(p))]
  /\ adopted' = adopted \cup {<<p, q>>}
  /\ UNCHANGED <<state, owner, ready, tasks, cancelled, parcels, conts, late, ran>>

AdoptSettled(p, q) ==
  /\ state[p] = "pending" /\ state[q] # "pending" /\ ~WouldCycle(p, q) /\ MayAdopt(p, q)
  /\ state' = TableSettle(p, state[q]).state
  /\ waiters' = TableSettle(p, state[q]).waiters
  /\ UNCHANGED <<owner, ready, tasks, cancelled, parcels, conts, adopted, late, ran>>

(* Queues::schedule and Queues::cancel.                                    *)
Cancels  == UNION {{s} \X cancelled[s] : s \in Region}
TaskRuns == {s \in Region : \E i \in 1 .. Len(ran[s]) : ran[s][i].kind = "task"}

ScheduleTask(s) ==
  /\ owner # <<>> /\ TaskRuns = {} /\ \A t \in Region : Len(tasks[t]) < MaxTasks
  /\ tasks' = [tasks EXCEPT ![s] = Append(@, 1)]
  /\ UNCHANGED <<state, waiters, owner, ready, cancelled, parcels, conts, adopted, late, ran>>

Cancel(s, c) ==
  /\ Cardinality(Cancels \cup {<<s, c>>}) <= MaxCancels
  /\ cancelled' = [cancelled EXCEPT ![s] = @ \cup {c}]
  /\ UNCHANGED <<state, waiters, owner, ready, tasks, parcels, conts, adopted, late, ran>>

(* Slips of next: a task as soon as there is one, and a cancelled frame at *)
(* the head taken for the end of the queue.                                *)
AllCancelled(s) == \A i \in 1 .. Len(ready[s]) : ready[s][i] \in cancelled[s]
RunTask(s) ==
  /\ tasks[s] # <<>>
  /\ tasks' = [tasks EXCEPT ![s] = Tail(@)]
  /\ ran' = [ran EXCEPT ![s] = Append(@, [kind |-> "task", id |-> Head(tasks[s])])]
NextTaskFirst(s) ==
  /\ RunTask(s)
  /\ UNCHANGED ready
  /\ UNCHANGED <<state, waiters, owner, cancelled, parcels, conts, adopted, late>>
NextStopsAtCancelled(s) ==
  /\ ready[s] # <<>> /\ Head(ready[s]) \notin cancelled[s]
  /\ ready' = [ready EXCEPT ![s] = Tail(@)]
  /\ ran' = [ran EXCEPT ![s] = Append(@, [kind |-> "cont", id |-> Head(ready[s])])]
  /\ UNCHANGED <<state, waiters, owner, tasks, cancelled, parcels, conts, adopted, late>>

(***************************************************************************)
(* Queues::next: the first continuation that was not cancelled, those      *)
(* before it dropped; else, the queue dropped whole, the first task.       *)
(***************************************************************************)
RunNext(s) ==
  /\ \/ \E i \in 1 .. Len(ready[s]) :
          /\ ready[s][i] \notin cancelled[s]
          /\ \A j \in 1 .. (i - 1) : ready[s][j] \in cancelled[s]
          /\ ready' = [ready EXCEPT ![s] = SubSeq(@, i + 1, Len(@))]
          /\ ran' = [ran EXCEPT ![s] = Append(@, [kind |-> "cont", id |-> ready[s][i]])]
          /\ UNCHANGED tasks
     \/ /\ AllCancelled(s)
        /\ ready' = [ready EXCEPT ![s] = <<>>]
        /\ RunTask(s)
  /\ UNCHANGED <<state, waiters, owner, cancelled, parcels, conts, adopted, late>>

Next ==
  \/ \E s \in Region : Create(s) \/ RunNext(s)
  \/ \E s \in Active : ScheduleTask(s) \/ \E c \in Cont : Cancel(s, c)
  \/ \E s \in Active, p \in Promise : Park(s, p) \/ \E how \in Settlement : Settle(s, p, how)
  \/ \E p, q \in Promise : AdoptPending(p, q) \/ AdoptSettled(p, q)
  \/ \E i \in 1 .. Len(parcels) : Accept(i)

Spec == Init /\ [][Next]_vars

(***************************************************************************)
(* A region keeps taking what is next, as run_until_idle does, and accepts *)
(* what is handed to it.  What clients ask for is not forced.              *)
(***************************************************************************)
Fairness == /\ \A s \in Region : WF_vars(RunNext(s))
            /\ WF_vars(\E i \in 1 .. Len(parcels) : Accept(i))
FairSpec == Spec /\ Fairness
=============================================================================
