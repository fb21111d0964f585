----------------------------- MODULE PromiseFates -----------------------------
(***************************************************************************)
(* What becomes of every promise: the inductive invariant behind the       *)
(* properties NothingOrphaned, DecidedOnceAsPromised, ResolvedWithAgrees   *)
(* and GroupsAnswer (proved in module FateProofs).                         *)
(*                                                                         *)
(* It is stated of a machine `m', the stack of code `s' running on it and  *)
(* the pairs `h' whose settlers the program `u' holds, and of what an      *)
(* action has in hand between two of its verbs: a reaction taken out to    *)
(* run (`x', 0 for none), members a combinator has still to attach to the  *)
(* newest group (`c' of them), promises nothing answers for any more       *)
(* (`X'), and promises whose fate is the action's alone to decide (`Y').   *)
(***************************************************************************)
EXTENDS PromiseProperties

(* The reactions that have not run to their end, and those that have.      *)
Due(m, x)    == {r \in ReactionId(m) : r \notin m.taken \/ r = x}
Told(m, x)   == m.taken \ {x}
PairOf(m, r) == m.reactions[r].ful.pair
MemberOf(m, r, g) == m.reactions[r].kind = "member" /\ m.reactions[r].group = g
DueTo(m, x, g)    == {r \in Due(m, x) : MemberOf(m, r, g)}
Reached(m, h, x, k) == k \in h \/ \E r \in Due(m, x) : PairOf(m, r) = k

(* What answers for a promise: a reaction, a piece of code, a pair.        *)
Answering == {"handler", "finally", "body", "getter"}
ReactionFor(m, r, p) == m.reactions[r].kind # "member" /\ m.reactions[r].target = p
FrameFor(f, p)       == f.kind \in Answering /\ f.target = p
PairFor(m, k, p)     == m.pairs[k].promise = p /\ ~m.pairs[k].spent

(* A group that is still counting its members down.                        *)
Joining(m, c, g) == IF g = Len(m.groups) THEN c ELSE 0
Counting(m, x, c, g) ==
  /\ m.groups[g].remaining = Cardinality(DueTo(m, x, g)) + Joining(m, c, g)
  /\ m.groups[g].remaining >= 1
Grouped(m, p) == \E g \in 1 .. Len(m.groups) : m.groups[g].result = p

(* What can still settle a promise.                                        *)
Live(m, s, h, x, c, p) ==
  \/ \E r \in Waiting(m) : ReactionFor(m, r, p)
  \/ \E i \in 1 .. Len(s) : FrameFor(s[i], p)
  \/ \E k \in 1 .. Len(m.pairs) : PairFor(m, k, p) /\ Reached(m, h, x, k)
  \/ \E g \in 1 .. Len(m.groups) : m.groups[g].result = p /\ Counting(m, x, c, g)

(* A race with no entrants answers a promise nobody will ever settle.      *)
Expected(u, m, p) == "emptyRace" \notin u.ops \/ Grouped(m, p)

Answered(u, m, s, h, x, c, X) ==
  \A p \in Promise(m) :
    m.state[p] = "pending" /\ p \notin X /\ Expected(u, m, p) => Live(m, s, h, x, c, p)

(* In a program that overrides nothing a promise has one claim on it at    *)
(* most, and none once it has settled.                                     *)
Claims(m, s, p) ==
  {<<"reaction", r>> : r \in {r \in Waiting(m) : ReactionFor(m, r, p)}}
  \cup {<<"frame", i>> : i \in {i \in 1 .. Len(s) : FrameFor(s[i], p)}}
  \cup {<<"pair", k>> : k \in {k \in 1 .. Len(m.pairs) : PairFor(m, k, p)}}
Sole(m, s, Y) ==
  \A p \in Promise(m) :
    /\ \A a, b \in Claims(m, s, p) : a = b
    /\ \A a \in Claims(m, s, p) : m.state[p] = "pending" /\ p \notin Y
    /\ p \in Y => m.state[p] = "pending"

(* The result of a group is the group's to settle.                         *)
Untargeted(m, s, p) ==
  /\ \A r \in Waiting(m) : ~ReactionFor(m, r, p)
  /\ \A k \in 1 .. Len(m.pairs) : ~PairFor(m, k, p)
  /\ \A i \in 1 .. Len(s) : s[i].kind \notin {"turn", "try"} => s[i].target # p
Owned(m, s) ==
  \A g \in 1 .. Len(m.groups) :
    /\ Untargeted(m, s, m.groups[g].result)
    /\ \A f \in 1 .. Len(m.groups) : m.groups[g].result = m.groups[f].result => g = f

(* What a group has made of the members that have reported.                *)
Decided(m, g, r) == Decides(m.groups[g].kind, m.state[Source(m, r)])
ToldTo(m, x, g) == {r \in Told(m, x) : MemberOf(m, r, g)}
GroupOK(m, x, g) ==
  LET p == m.groups[g].result IN
  /\ m.state[p] = "pending" => \A r \in ToldTo(m, x, g) : ~Decided(m, g, r)
  /\ m.state[p] # "pending" =>
       \/ \E r \in ToldTo(m, x, g) : Decided(m, g, r) /\ SameOutcome(m, p, Source(m, r))
       \/ /\ DueTo(m, x, g) = {} /\ ~Decides(m.groups[g].kind, m.state[p])
          /\ \A r \in ToldTo(m, x, g) : ~Decided(m, g, r)
  /\ \A r \in ToldTo(m, x, g) :
       Decided(m, g, r) \/ m.groups[g].values[m.reactions[r].slot] = m.value[Source(m, r)]
GroupsOK(m, x) == \A g \in 1 .. Len(m.groups) : GroupOK(m, x, g)

(* What is true of every value, reaction and frame from the moment it is   *)
(* made.                                                                   *)
Getting(u)    == "getter" \in u.offered
Overriding(u) == "new" \in u.ops \/ "thenable" \in u.offered \/ Getting(u)
Tags(u)       == u.offered \cup {"plain"}
Passed(u, how, v) == v.tag \in Tags(u) /\ (how = "fulfilled" /\ ~Getting(u) => v.tag = "plain")
Unpaired(f)   == f.kind \in {"none", "user"} /\ f.pair = 0
Paired(m, y)  ==
  \/ Unpaired(y.ful) /\ Unpaired(y.rej)
  \/ /\ y.kind = "js" /\ y.ful.pair \in 1 .. Len(m.pairs)
     /\ y.ful = ResolveFn(y.ful.pair) /\ y.rej = RejectFn(y.ful.pair)
JobShape(y)   == y.kind = "thenable" => y.source = 0 /\ y.value.tag # "plain"
ReactionShape(u, m, y) ==
  /\ y.value.tag \in Tags(u)
  /\ JobShape(y)
  /\ Paired(m, y)
  /\ y.kind = "member" => y.target = m.groups[y.group].result
FrameShape(u, f) ==
  /\ f.value.tag \in Tags(u)
  /\ f.kind = "executor" => "new" \in u.ops
  /\ f.kind = "getter" => Getting(u)
  /\ f.kind = "then" => "thenable" \in u.offered \/ Getting(u)
ValuesPass(u, m) == \A p \in Promise(m) :
  m.value[p].tag \in Tags(u) /\ (m.state[p] = "fulfilled" /\ ~Getting(u) => m.value[p].tag = "plain")
ReactionsShaped(u, m) == \A r \in ReactionId(m) : ReactionShape(u, m, m.reactions[r])
FramesShaped(u, s) == \A i \in 1 .. Len(s) : FrameShape(u, s[i])

(* A reaction that holds the settlers of a pair is the only one that does. *)
Handed(m, h, x) == \A r \in Due(m, x) : PairOf(m, r) # 0 =>
  PairOf(m, r) \notin h /\ \A q \in Due(m, x) : PairOf(m, q) = PairOf(m, r) => q = r

(* While a getter runs nobody has seen the settlers it will be given.      *)
Getters(m, s, h, x) == \A i \in 1 .. Len(s) : s[i].kind = "getter" =>
  /\ i = 1 /\ PairFor(m, s[i].pair, s[i].target) /\ ~Reached(m, h, x, s[i].pair)
Ungot(s, k) == \A i \in 1 .. Len(s) : s[i].kind = "getter" => s[i].pair # k
Fresh(m, s, h, x, k, p) ==
  /\ k \in 1 .. Len(m.pairs) /\ PairFor(m, k, p) /\ ~Reached(m, h, x, k) /\ Ungot(s, k)

(* A pair spent, and two members that would fill one slot.                 *)
Spend(m, k) == [m EXCEPT !.pairs = [@ EXCEPT ![k].spent = TRUE]]
SameSlot(m, r, q) ==
  /\ m.reactions[r].kind = "member" /\ m.reactions[q].kind = "member"
  /\ m.reactions[r].group = m.reactions[q].group /\ m.reactions[r].slot = m.reactions[q].slot
SlotsApart(m) == \A r, q \in ReactionId(m) : SameSlot(m, r, q) => r = q

(* What an action may have in hand.                                        *)
InHand(m, x, c) == (x = 0 \/ x \in m.taken) /\ c \in Nat

(* The whole.                                                              *)
Shape(u, m, s, h, x) ==
  /\ ValuesPass(u, m) /\ ReactionsShaped(u, m) /\ FramesShaped(u, s)
  /\ Handed(m, h, x) /\ Getters(m, s, h, x) /\ SlotsApart(m)

Fate(u, m, s, h, x, c, X, Y) ==
  /\ InHand(m, x, c)
  /\ Shape(u, m, s, h, x)
  /\ Answered(u, m, s, h, x, c, X)
  /\ Overriding(u) \/ Sole(m, s, Y)
  /\ Getting(u) \/ (Owned(m, s) /\ GroupsOK(m, x))

(* A promise that was resolved with another has its outcome, or a reaction *)
(* that waits to hand it over.                                             *)
AdoptedBy(m, r, k) ==
  LET p == m.reactions[r].target
      q == m.reactions[r].value.id
  IN  /\ m.pairs[k].promise = p
      /\ IF m.pairs[k].spent THEN m.state[q] # "pending" /\ SameOutcome(m, p, q)
         ELSE \E j \in Waiting(m) : PairOf(m, j) = k /\ Source(m, j) = q
Adopted(m) == \A r \in AdoptionJobs(m) :
  r \in m.taken => \E k \in 1 .. Len(m.pairs) : AdoptedBy(m, r, k)

(* The invariant: nothing is in hand between two actions.                  *)
Fated == /\ Fate(program, machine, stack, held, 0, 0, {}, {})
         /\ Overriding(program) \/ Adopted(machine)
=============================================================================
