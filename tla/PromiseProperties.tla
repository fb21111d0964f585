--------------------------- MODULE PromiseProperties ---------------------------
(***************************************************************************)
(* What makes the promises of module Promises correct.                     *)
(***************************************************************************)
EXTENDS Promises

(***************************************************************************)
(* Types.  Every entry of every table names entries that exist: a promise, *)
(* a pair, a group and its slot.                                           *)
(***************************************************************************)
ValueIn(m, v) == v \in Value /\ (v.tag = "promise" => v.id \in Promise(m))

CallableIn(m, f) == /\ f.pair \in 0 .. Len(m.pairs)
                    /\ f.kind \in {"resolve", "reject"} => f.pair # 0

ReactionIn(m, x) ==
  /\ x.source \in Promise(m) \/ (x.source = 0 /\ x.kind = "thenable")
  /\ x.target \in Promise(m)
  /\ CallableIn(m, x.ful) /\ CallableIn(m, x.rej)
  /\ ValueIn(m, x.value)
  /\ x.kind = "member" => /\ x.group \in 1 .. Len(m.groups)
                          /\ x.slot \in 1 .. Len(m.groups[x.group].values)

MachineOK(m) ==
  /\ m \in Machine
  /\ Len(m.waiters) = Len(m.state) /\ Len(m.value) = Len(m.state)
  /\ m.unnoticed \subseteq Promise(m)
  /\ m.taken \subseteq ReactionId(m)
  /\ \A p \in Promise(m) : ValueIn(m, m.value[p])
  /\ \A r \in ReactionId(m) : ReactionIn(m, m.reactions[r])
  /\ \A k \in 1 .. Len(m.pairs) : m.pairs[k].promise \in Promise(m)
  /\ \A g \in 1 .. Len(m.groups) : m.groups[g].result \in Promise(m)

FrameIn(m, f) ==
  /\ f.kind \in {"turn", "try"} \/ f.target \in Promise(m)
  /\ f.kind \in {"executor", "getter", "then"} => f.pair \in 1 .. Len(m.pairs)
  /\ ValueIn(m, f.value)

TypeOK ==
  /\ program \in Programs
  /\ MachineOK(machine)
  /\ stack \in Seq(Frame)
  /\ \A i \in 1 .. Len(stack) : FrameIn(machine, stack[i])
  /\ draining \in BOOLEAN
  /\ named \subseteq Promise(machine)
  /\ held \subseteq 1 .. Len(machine.pairs)
  /\ reported \subseteq Promise(machine)
  /\ turns \in 0 .. MaxTurns

(***************************************************************************)
(* No lost wakeup and no double run: a reaction that has not run is in     *)
(* exactly one place, once - among the waiters of its source while that is *)
(* pending, in the queue from the moment it settled - and nothing else is  *)
(* in either.  So `prepare' always finds a settlement and never drops a    *)
(* reaction for want of one.  And reactions on one promise keep the order  *)
(* they were attached in, whether they were attached before it settled or  *)
(* after.  (state::react, state::settle, Machine::taken, react.rs prepare.)*)
(***************************************************************************)
Source(m, r) == m.reactions[r].source
Parked(m, r) == Source(m, r) # 0 /\ m.state[Source(m, r)] = "pending"

WaitersPlaced(m) ==
  \A p \in Promise(m) : \A i \in 1 .. Len(m.waiters[p]) :
    /\ m.waiters[p][i] \in Waiting(m) /\ Source(m, m.waiters[p][i]) = p
    /\ m.state[p] = "pending"
    /\ \A j \in 1 .. (i - 1) : m.waiters[p][j] < m.waiters[p][i]

QueuePlaced(m) ==
  \A i \in 1 .. Len(m.queue) :
    /\ m.queue[i] \in Waiting(m) /\ ~Parked(m, m.queue[i])
    /\ \A j \in 1 .. (i - 1) :
         /\ m.queue[j] # m.queue[i]
         /\ Source(m, m.queue[j]) = Source(m, m.queue[i]) /\ Source(m, m.queue[i]) # 0
            => m.queue[j] < m.queue[i]

NoneMissing(m) ==
  \A r \in Waiting(m) :
    IF Parked(m, r)
    THEN \E i \in 1 .. Len(m.waiters[Source(m, r)]) : m.waiters[Source(m, r)][i] = r
    ELSE \E i \in 1 .. Len(m.queue) : m.queue[i] = r

RunInOrder(m) ==
  \A r \in m.taken :
    /\ ~Parked(m, r)
    /\ \A e \in 1 .. (r - 1) :
         Source(m, e) = Source(m, r) /\ Source(m, r) # 0 => e \in m.taken

Placed(m) == WaitersPlaced(m) /\ QueuePlaced(m) /\ NoneMissing(m) /\ RunInOrder(m)

NothingLost == Placed(machine)

(***************************************************************************)
(* A rejection is up for the report exactly while nothing has ever been    *)
(* attached to it and it has not been reported (schedule/mod.rs, record,   *)
(* noticed, take_unhandled): none is reported twice, none is forgotten,    *)
(* and a handler attached late, before the turn ends, takes it back.       *)
(***************************************************************************)
Watched(m, p) == \E r \in ReactionId(m) : Source(m, r) = p

UnhandledExact(m, printed) ==
  \A p \in Promise(m) :
    /\ p \in m.unnoticed => ~Watched(m, p) /\ p \notin printed
    /\ m.state[p] = "rejected" => Watched(m, p) \/ p \in m.unnoticed \/ p \in printed
    /\ p \in m.unnoticed \cup printed => m.state[p] = "rejected"

UnhandledIsExact == UnhandledExact(machine, reported)

(***************************************************************************)
(* Nothing is orphaned: whatever is pending, something left in the program *)
(* or in the machine can still settle it - a reaction that answers for it  *)
(* and has not run, an unspent pair somebody holds, or a piece of code     *)
(* running for it.  (A race with no entrants is pending for good by        *)
(* design: a program that asks for one is not considered.)                 *)
(***************************************************************************)
Usable(m, k) ==
  \/ k \in held
  \/ \E r \in Waiting(m) : k \in {m.reactions[r].ful.pair, m.reactions[r].rej.pair}
  \/ \E i \in 1 .. Len(stack) : stack[i].pair = k

Answerable(m, p) ==
  \/ \E r \in Waiting(m) : m.reactions[r].target = p
  \/ \E i \in 1 .. Len(stack) : stack[i].target = p
  \/ \E k \in 1 .. Len(m.pairs) :
       m.pairs[k].promise = p /\ ~m.pairs[k].spent /\ Usable(m, k)

NothingOrphaned == "emptyRace" \notin program.ops =>
  \A p \in Promise(machine) : machine.state[p] = "pending" => Answerable(machine, p)

(***************************************************************************)
(* Between two turns, a promise that was resolved with another native      *)
(* promise has settled, once that one has, and as that one did             *)
(* (drain.rs, Step::Adopt), in a program that cannot decide one twice      *)
(* (below).                                                                *)
(***************************************************************************)
Idle == stack = <<>> /\ ~draining /\ machine.queue = <<>>

SameOutcome(m, p, q) == m.state[p] = m.state[q] /\ m.value[p] = m.value[q]

AdoptionJobs(m) == {r \in ReactionId(m) : /\ m.reactions[r].kind = "thenable"
                                          /\ m.reactions[r].value.tag = "promise"}

AdoptedAgree(m) ==
  \A r \in AdoptionJobs(m) :
    LET adopted == m.reactions[r].value.id IN
      m.state[adopted] # "pending" => SameOutcome(m, m.reactions[r].target, adopted)

(* What settles a promise beside its pair: an executor or a foreign `then' *)
(* that throws after it has handed the settlers on.                        *)
Overrides == "new" \in program.ops \/ program.offered \cap {"thenable", "getter"} # {}

ResolvedWithAgrees == Idle /\ ~Overrides => AdoptedAgree(machine)

(***************************************************************************)
(* "A promise resolves once" (class.rs:68): the job that makes a promise   *)
(* adopt a thenable is queued by what decides the promise's fate, so while *)
(* it waits in the queue nothing else has settled that promise.            *)
(***************************************************************************)
JobsDecide(m) ==
  \A r \in Waiting(m) :
    m.reactions[r].kind = "thenable" => m.state[m.reactions[r].target] = "pending"

DecidedOnce == JobsDecide(machine)

(* The same of every program that has no such code to throw.               *)
DecidedOnceAsPromised == Overrides \/ DecidedOnce

(***************************************************************************)
(* A combinator answers for its members (group.rs): `all' and `allSettled' *)
(* fulfil only when every member has, with each value in its own slot;     *)
(* `any' rejects only when every member has; what settles early settles as *)
(* a member did; and between two turns no group whose members have all     *)
(* settled is left without an answer.  (What a getter answered is asked    *)
(* again where a member hands it on, and may then throw or never settle    *)
(* the result: a program that offers one is not considered.)               *)
(***************************************************************************)
Members(m, g) == {r \in ReactionId(m) : /\ m.reactions[r].kind = "member"
                                        /\ m.reactions[r].group = g}

AllAnswered(m, g, hows) ==
  \A r \in Members(m, g) :
    /\ m.state[Source(m, r)] \in hows
    /\ m.groups[g].values[m.reactions[r].slot] = m.value[Source(m, r)]

GroupAnswers(m, g, quiet) ==
  LET kind   == m.groups[g].kind
      result == m.groups[g].result
      how    == m.state[result]
  IN  /\ kind = "all" /\ how = "fulfilled" => AllAnswered(m, g, {"fulfilled"})
      /\ kind = "any" /\ how = "rejected" => AllAnswered(m, g, {"rejected"})
      /\ kind = "allSettled" /\ how # "pending" => AllAnswered(m, g, Settled)
      /\ how # "pending" /\ Decides(kind, how)
         => \E r \in Members(m, g) : SameOutcome(m, result, Source(m, r))
      /\ quiet /\ (\A r \in Members(m, g) : m.state[Source(m, r)] # "pending")
         => how # "pending"

GroupsAnswer == "getter" \notin program.offered =>
  \A g \in 1 .. Len(machine.groups) : GroupAnswers(machine, g, Idle)

(***************************************************************************)
(* The machine keeps the contract of module PromiseContract.               *)
(***************************************************************************)
Outcome(m) == [p \in Promise(m) |->
                 IF m.state[p] = "pending" THEN <<>> ELSE <<m.state[p], m.value[p]>>]
Sources(m) == [r \in ReactionId(m) |-> Source(m, r)]

Contract == INSTANCE PromiseContract WITH
  outcome <- Outcome(machine), source <- Sources(machine), ran <- machine.taken

KeepsContract == Contract!Spec

(***************************************************************************)
(* A reaction whose source has settled runs, however much is queued before *)
(* it (drain_microtasks runs to empty).                                    *)
(***************************************************************************)
Runnable(m, r) == r \in ReactionId(m) /\ ~Parked(m, r)

EveryReactionRuns ==
  \A r \in 1 .. MaxReactions : Runnable(machine, r) ~> (r \in machine.taken)
=============================================================================
