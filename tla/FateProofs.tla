------------------------------ MODULE FateProofs ------------------------------
(***************************************************************************)
(* That Fated (module PromiseFates) is an invariant of every program, put  *)
(* together from the verbs (module PromisesProofs), and what it says: nothing  *)
(* is orphaned, a promise is decided once, one that adopted another agrees *)
(* with it, and combinators answer for their members.                      *)
(***************************************************************************)
EXTENDS PromisesProofs

-----------------------------------------------------------------------------
(***************************************************************************)
(* A combinator, element by element.                                       *)
(***************************************************************************)

(* What a fresh promise to wait on leaves alone.                           *)
Around(m, n) ==
  /\ n.groups = m.groups /\ n.pairs = m.pairs
  /\ \A q \in Promise(m) : n.state[q] = m.state[q]
  /\ \A r \in ReactionId(n) :
       \/ r \in ReactionId(m) /\ n.reactions[r] = m.reactions[r]
       \/ n.reactions[r].kind = "thenable"

(* Making something to wait on touches neither pair nor group.             *)
LEMMA WaitableAround ==
  ASSUME NEW m, NEW printed, Sound(m, printed), NEW v, ValueIn(m, v),
         NEW n, n = Waitable(m, v)
  PROVE  Around(m, n)
  <1>1. CASE v.tag = "promise"
    BY <1>1 DEF Waitable, Around
  <1>2. CASE v.tag # "promise"
    <2>1. PICK o : o = Create(m)
      OBVIOUS
    <2>2. PICK p : p = Newest(m) + 1
      OBVIOUS
    <2>3. n = Resolve(o, p, v)
      BY <1>2, <2>1, <2>2 DEF Waitable
    <2>4. MachineOK(m) /\ MachineOK(o) /\ p \in Promise(o)
      BY <2>1, <2>2, CreateEvolves DEF Evolves, Sound
    <2>5. /\ o.groups = m.groups /\ o.pairs = m.pairs /\ o.reactions = m.reactions
          /\ o.state = Append(m.state, "pending")
      BY <2>1, <2>4, CreateFields
    <2>6. p \notin Promise(m) /\ \A q \in Promise(m) : q \in Promise(o) /\ o.state[q] = m.state[q]
      <3>1. m.state \in Seq(State) /\ Len(m.state) \in Nat /\ "pending" \in State
        BY <2>4, FieldTypes DEF State
      <3>2. p = Len(m.state) + 1
        BY <2>2 DEF Newest
      <3> QED
        BY <3>1, <3>2, <2>5, AppendProperties DEF Promise
    <2>7. CASE v.tag = "plain" \/ v = PromiseVal(p)
      <3>1. PICK how \in Settled, w \in Value : n = Settle(o, p, how, w)
        <4>1. v \in Value /\ Made \in Value
          BY UndefinedValue DEF ValueIn
        <4> QED
          BY <2>3, <2>7, <4>1 DEF Resolve, Reject, Settled
      <3>2. CASE o.state[p] # "pending"
        <4>1. n = o
          BY <3>1, <3>2 DEF Settle
        <4> QED
          BY <4>1, <2>5, <2>6 DEF Around, ReactionId
      <3>3. CASE o.state[p] = "pending"
        <4>1. SettlesAs(o, n, p, how, w)
          BY <2>4, <3>1, <3>3, SettleFields
        <4> QED
          BY <4>1, <2>5, <2>6 DEF SettlesAs, Around, ReactionId
      <3> QED
        BY <3>2, <3>3
    <2>8. CASE ~(v.tag = "plain" \/ v = PromiseVal(p))
      <3>1. PICK y : y = ThenableJob(v, p)
        OBVIOUS
      <3>2. Undefined \in Value /\ v \in Value /\ p \in Nat
        BY UndefinedValue, <2>4, FieldTypes DEF ValueIn, Promise
      <3>3. y \in Reaction /\ y.source = 0 /\ y.kind = "thenable"
        BY <2>4, <3>1, <3>2, NotCallableIn DEF ThenableJob, Blank, Reaction, Settled
      <3>4. AttachesAs(o, n, y)
        BY <2>3, <2>4, <2>8, <3>1, <3>3, EnqueueFields DEF Resolve
      <3>5. InHand(o, 0, 0)
        BY DEF InHand
      <3>6. PICK w : w = Len(o.reactions) + 1
        OBVIOUS
      <3>7. Attached(o, n, y, w, 0)
        BY <2>4, <3>3, <3>4, <3>5, <3>6, AttachAdds
      <3>8. ReactionId(o) = ReactionId(m)
        BY <2>5 DEF ReactionId
      <3>9. \A r \in ReactionId(n) :
              \/ r \in ReactionId(m) /\ n.reactions[r] = m.reactions[r]
              \/ n.reactions[r].kind = "thenable"
        BY <3>7, <3>8, <3>3, <2>5 DEF Attached
      <3>10. n.groups = m.groups /\ n.pairs = m.pairs /\ n.state = o.state
        BY <3>4, <2>5 DEF AttachesAs
      <3> QED
        BY <3>9, <3>10, <2>6 DEF Around
    <2> QED
      BY <2>7, <2>8
  <1> QED
    BY <1>1, <1>2

(* The newest group has its members up to slot `i', and `c' still to come. *)
Below(m, G, i) == \A r \in ReactionId(m) : MemberOf(m, r, G) => m.reactions[r].slot < i

(* A group being built: it expects c more members, from slot i on.         *)
Joinable(u, m, printed, s, h, c, i, G, p) ==
  /\ Placedly(m, printed, s, h) /\ Fate(u, m, s, h, 0, c, {}, {})
  /\ G = Len(m.groups) /\ G \in 1 .. Len(m.groups)
  /\ m.groups[G].result = p /\ m.state[p] = "pending"
  /\ Below(m, G, i)

(* One member less to come, and the next slot.                             *)
Stepped(c, d, i, j) == c \in Nat /\ c >= 1 /\ i \in Nat /\ d = c - 1 /\ j = i + 1

(* An element of the combinator's argument.                                *)
Entrant(u, m, v, i, G) ==
  ValueIn(m, v) /\ v.tag \in Tags(u) /\ i \in 1 .. Len(m.groups[G].values)

(* One element joins the group.                                            *)
LEMMA VJoin ==
  ASSUME NEW u, NEW m, NEW printed, NEW s, NEW h, NEW c, NEW d, NEW i, NEW j,
         Stepped(c, d, i, j), NEW G, NEW p, Joinable(u, m, printed, s, h, c, i, G, p),
         NEW v, Entrant(u, m, v, i, G), NEW n, n = Join(m, v, i)
  PROVE  /\ Joinable(u, n, printed, s, h, d, j, G, p)
         /\ Evolves(m, n, printed) /\ n.pairs = m.pairs
  <1>s. d = c - 1 /\ j = i + 1
    BY DEF Stepped
  <1>n. c \in Nat /\ c >= 1 /\ i \in Nat
    BY DEF Stepped
  <1>v. ValueIn(m, v) /\ v.tag \in Tags(u) /\ i \in 1 .. Len(m.groups[G].values)
    BY DEF Entrant
  <1>a. /\ Placedly(m, printed, s, h) /\ Fate(u, m, s, h, 0, c, {}, {})
        /\ Sound(m, printed) /\ MachineOK(m)
        /\ G = Len(m.groups) /\ G \in 1 .. Len(m.groups)
        /\ m.groups[G].result = p /\ m.state[p] = "pending" /\ Below(m, G, i)
    BY DEF Joinable, Placedly, Sound
  <1>p. p \in Promise(m)
    BY <1>a, Named
  <1>1. PICK o : o = Waitable(m, v)
    OBVIOUS
  <1>2. PICK q : q = WaitedOn(m, v)
    OBVIOUS
  <1>3. At(m, u, m, printed, s, h, 0, c, {}, {})
    BY <1>a, KeptRefl DEF At
  <1>4. At(m, u, o, printed, s, h, 0, c, {}, {})
    BY <1>v, <1>1, <1>3, VWaitable
  <1>5. /\ Sound(o, printed) /\ MachineOK(o) /\ Placedly(o, printed, s, h)
        /\ Fate(u, o, s, h, 0, c, {}, {}) /\ Kept(m, o)
    BY <1>4, AtFacts
  <1>6. Around(m, o)
    BY <1>v, <1>a, <1>1, WaitableAround
  <1>7. Evolves(m, o, printed) /\ q \in Promise(o)
    BY <1>v, <1>a, <1>1, <1>2, WaitableEvolves
  <1>8. p \in Promise(o) /\ o.state[p] = "pending" /\ o.groups = m.groups
    BY <1>6, <1>7, <1>a, <1>p, EvolvesKeeps DEF Around
  <1>9. q \in Nat /\ p \in Nat /\ G \in Nat
    BY <1>5, <1>7, <1>8, <1>a, FieldTypes DEF Promise
  <1>10. PICK y : y = MemberReaction(q, p, G, i)
    OBVIOUS
  <1>11. /\ y \in Reaction /\ y.source = q /\ y.target = p
         /\ y.kind = "member" /\ y.ful = NotCallable /\ y.rej = NotCallable
         /\ y.value = Undefined /\ y.group = G /\ y.slot = i
    <2>1. Undefined \in Value /\ NotCallable \in Callable /\ "fulfilled" \in Settled
      BY UndefinedValue DEF NotCallable, Callable, Settled
    <2> QED
      BY <2>1, <1>9, <1>10, <1>n DEF MemberReaction, Blank, Reaction, Settled
  <1>12. ReactionIn(o, y)
    BY <1>5, <1>7, <1>8, <1>11, <1>a, <1>v, NotCallableIn, PlainIn DEF ReactionIn
  <1>13. n = React(o, y)
    BY <1>1, <1>2, <1>10, <1>a DEF Join
  <1>14. AttachesAs(o, n, y)
    BY <1>5, <1>7, <1>11, <1>13, ReactFields
  <1>15. Below(o, G, i)
    BY <1>6, <1>a DEF Below, Around, MemberOf
  <1>16. Fate(u, n, s, h, 0, c - 1, {}, {})
    <2>1. ReactionShape(u, o, y)
      BY <1>8, <1>11, <1>a, PlainPassed DEF ReactionShape, JobShape, Paired
    <2>2. y.group = Len(o.groups) /\ Len(o.groups) # 0 /\ o.state[o.groups[Len(o.groups)].result] = "pending"
      BY <1>8, <1>9, <1>11, <1>a
    <2>3. ASSUME NEW r \in ReactionId(o),
                 o.reactions[r].kind = "member" /\ o.reactions[r].group = Len(o.groups)
          PROVE  o.reactions[r].slot # y.slot
      <3>1. MemberOf(o, r, G)
        BY <2>3, <1>8, <1>a DEF MemberOf
      <3>2. o.reactions[r].slot < i
        BY <3>1, <1>15 DEF Below
      <3>3. o.reactions[r] \in Reaction
        BY <1>5, SourceIn
      <3>4. o.reactions[r].slot \in Nat
        BY <3>3 DEF Reaction
      <3> QED
        BY <3>2, <3>4, <1>11
    <2>4. y.kind = "member"
      BY <1>11
    <2> QED
      BY <2>1, <2>2, <2>3, <2>4, <1>5, <1>11, <1>14, <1>n, FateJoins
  <1>17. /\ Evolves(o, n, printed) /\ n.pairs = o.pairs /\ n.groups = o.groups /\ n.state = o.state
    BY <1>5, <1>11, <1>12, <1>14, AttachSound DEF Evolves
  <1>18. Evolves(m, n, printed)
    BY <1>7, <1>17, <1>a, EvolvesTrans
  <1>19. Placedly(n, printed, s, h)
    BY <1>4, <1>17, Onward DEF At
  <1>20. Below(n, G, i + 1)
    <2>1. PICK w : w = Len(o.reactions) + 1
      OBVIOUS
    <2>2. InHand(o, 0, c)
      BY <1>n DEF InHand
    <2>3. Attached(o, n, y, w, 0)
      BY <1>5, <1>11, <1>14, <2>1, <2>2, AttachAdds
    <2>4. ASSUME NEW r \in ReactionId(n), MemberOf(n, r, G) PROVE n.reactions[r].slot < i + 1
      <3>1. CASE r = w
        BY <3>1, <2>3, <1>11, <1>n DEF Attached
      <3>2. CASE r \in ReactionId(o)
        <4>1. n.reactions[r] = o.reactions[r]
          BY <3>2, <2>3 DEF Attached
        <4>2. o.reactions[r].slot < i
          BY <3>2, <4>1, <2>4, <1>15 DEF Below, MemberOf
        <4>3. o.reactions[r] \in Reaction
          BY <3>2, <1>5, SourceIn
        <4>4. o.reactions[r].slot \in Nat
          BY <4>3 DEF Reaction
        <4> QED
          BY <4>1, <4>2, <4>4, <1>n
      <3> QED
        BY <3>1, <3>2, <2>3 DEF Attached
    <2> QED
      BY <2>4 DEF Below
  <1>21. n.pairs = m.pairs /\ n.groups = m.groups /\ n.state[p] = "pending"
    BY <1>6, <1>8, <1>17 DEF Around
  <1> QED
    BY <1>16, <1>18, <1>19, <1>20, <1>21, <1>a, <1>s DEF Joinable

(* Every element joins.                                                    *)
EntrantsIn(u, m, vs, size) == \A i \in 1 .. size : ValueIn(m, vs[i]) /\ vs[i].tag \in Tags(u)

(* The group is complete.                                                  *)
AllJoined(u, m, n, s, h) == Fate(u, n, s, h, 0, 0, {}, {}) /\ n.pairs = m.pairs

(* The loop over the elements.                                             *)
LEMMA VJoinAll ==
  ASSUME NEW u, NEW m, NEW printed, NEW s, NEW h, NEW G, NEW p,
         NEW vs, NEW size \in {1, 2}, size = Len(vs), EntrantsIn(u, m, vs, size),
         NEW one, one = 1, Joinable(u, m, printed, s, h, size, one, G, p),
         Len(m.groups[G].values) = size,
         NEW n, n = JoinAll(m, vs)
  PROVE  AllJoined(u, m, n, s, h)
  <1>1. PICK o : o = Join(m, vs[1], 1)
    OBVIOUS
  <1>e. \A i \in 1 .. size : ValueIn(m, vs[i]) /\ vs[i].tag \in Tags(u)
    BY DEF EntrantsIn
  <1>2. /\ 1 \in 1 .. size /\ size \in Nat /\ size >= 1
        /\ ValueIn(m, vs[1]) /\ vs[1].tag \in Tags(u) /\ 1 \in 1 .. Len(m.groups[G].values)
    BY <1>e
  <1>3. PICK v : v = vs[1]
    OBVIOUS
  <1>d. PICK d : d = size - 1
    OBVIOUS
  <1>4. /\ Joinable(u, o, printed, s, h, d, 2, G, p)
        /\ Evolves(m, o, printed) /\ o.pairs = m.pairs
    <2>n. PICK two : one = 1 /\ two = 2
      OBVIOUS
    <2>1. /\ o = Join(m, v, one) /\ Joinable(u, m, printed, s, h, size, one, G, p)
      BY <1>1, <1>3, <2>n
    <2>2. Stepped(size, d, one, two)
      BY <1>2, <1>d, <2>n DEF Stepped
    <2>3. Entrant(u, m, v, one, G)
      BY <1>2, <1>3, <2>n DEF Entrant
    <2>4. /\ Joinable(u, o, printed, s, h, d, two, G, p)
          /\ Evolves(m, o, printed) /\ o.pairs = m.pairs
      BY ONLY <2>1, <2>2, <2>3, VJoin
    <2> QED
      BY <2>4, <2>n
  <1>5. CASE size = 1
    <2>1. n = o /\ d = 0
      BY <1>1, <1>5, <1>d DEF JoinAll
    <2> QED
      BY <2>1, <1>4 DEF Joinable, AllJoined
  <1>6. CASE size = 2
    <2>1. PICK w : w = vs[2]
      OBVIOUS
    <2>2. n = Join(o, w, 2)
      BY <1>1, <1>6, <2>1 DEF JoinAll
    <2>3. d = 1 /\ 2 \in 1 .. size
      BY <1>6, <1>d
    <2>4. ValueIn(m, w) /\ w.tag \in Tags(u)
      BY <2>1, <2>3, <1>e
    <2>5. Sound(m, printed)
      BY DEF Joinable, Placedly
    <2>6. ValueIn(o, w)
      BY <2>4, <2>5, <1>4, EvolvesKeeps
    <2>7. Len(o.groups[G].values) = size
      BY <1>4 DEF Evolves, Grows, Joinable
    <2>8. 2 \in 1 .. Len(o.groups[G].values)
      BY <2>7, <2>3
    <2>9. Joinable(u, o, printed, s, h, 1, 2, G, p)
      BY <1>4, <2>3
    <2>10. /\ Joinable(u, n, printed, s, h, 0, 3, G, p) /\ n.pairs = o.pairs
      <3>n. PICK zero, two, three : zero = 0 /\ one = 1 /\ two = 2 /\ three = 3
        OBVIOUS
      <3>1. Stepped(one, zero, two, three)
        BY <3>n DEF Stepped
      <3>2. Entrant(u, o, w, two, G)
        BY <2>4, <2>6, <2>8, <3>n DEF Entrant
      <3>3. n = Join(o, w, two) /\ Joinable(u, o, printed, s, h, one, two, G, p)
        BY <2>2, <2>9, <3>n
      <3>4. Joinable(u, n, printed, s, h, zero, three, G, p) /\ n.pairs = o.pairs
        BY ONLY <3>1, <3>2, <3>3, VJoin
      <3> QED
        BY <3>4, <3>n
    <2> QED
      BY <2>10, <1>4 DEF Joinable, AllJoined
  <1> QED
    BY <1>5, <1>6

(* A combinator called.                                                    *)
LEMMA VCombine ==
  ASSUME NEW u, NEW m, NEW printed, NEW s, NEW h, Placedly(m, printed, s, h),
         Fate(u, m, s, h, 0, 0, {}, {}),
         NEW kind \in {"all", "allSettled", "race", "any"},
         NEW vs, vs = <<>> \/ Len(vs) \in {1, 2},
         \A i \in 1 .. Len(vs) : ValueIn(m, vs[i]) /\ vs[i].tag \in Tags(u),
         vs = <<>> /\ kind = "race" => "emptyRace" \in u.ops,
         NEW n, n = Combine(m, kind, vs)
  PROVE  Fate(u, n, s, h, 0, 0, {}, {}) /\ n.pairs = m.pairs
  <1>a. Sound(m, printed) /\ MachineOK(m)
    BY DEF Placedly, Sound
  <1>1. PICK o : o = Create(m)
    OBVIOUS
  <1>2. PICK p : p = Newest(m) + 1
    OBVIOUS
  <1>z. PICK z, E : z = 0 /\ E = {}
    OBVIOUS
  <1>3. At(m, u, m, printed, s, h, z, z, E, E)
    BY <1>a, <1>z, KeptRefl DEF At
  <1>4. /\ At(m, u, o, printed, s, h, 0, 0, {p}, {p})
        /\ p \in Promise(o) /\ p \notin Promise(m) /\ Newest(o) = p
        /\ o.state[p] = "pending" /\ ~Grouped(m, p)
        /\ o.pairs = m.pairs /\ o.groups = m.groups /\ o.reactions = m.reactions
        /\ o.taken = m.taken
    <2>1. /\ At(m, u, o, printed, s, h, z, z, E \cup {p}, E \cup {p})
          /\ p \in Promise(o) /\ p \notin Promise(m) /\ Newest(o) = p
          /\ o.state[p] = "pending" /\ ~Grouped(m, p)
          /\ o.pairs = m.pairs /\ o.groups = m.groups /\ o.reactions = m.reactions
          /\ o.taken = m.taken
      BY <1>1, <1>2, <1>3, VCreate
    <2>2. E \cup {p} = {p}
      BY <1>z
    <2> QED
      BY <2>1, <2>2, <1>z
  <1>5. /\ Sound(o, printed) /\ MachineOK(o) /\ Placedly(o, printed, s, h)
        /\ Fate(u, o, s, h, 0, 0, {p}, {p}) /\ At(m, u, o, printed, s, h, 0, 0, {p}, {p})
    BY <1>4, AtFacts
  <1>e. {p} \ {p} = {}
    OBVIOUS
  <1>6. CASE vs = <<>>
    <2>1. n = SettleEmpty(o, kind, p)
      BY <1>6, <1>1, <1>4 DEF Combine
    <2>2. Free(u, m, p, {p})
      BY <1>4 DEF Free
    <2>3. ValueIn(o, Made) /\ Passed(u, "fulfilled", Made) /\ Passed(u, "rejected", Made)
      BY PlainIn, PlainPassed
    <2>4. CASE kind \in {"all", "allSettled", "any"}
      <3>1. PICK how \in Settled : n = Settle(o, p, how, Made)
        BY <2>1, <2>4 DEF SettleEmpty, Reject, Settled
      <3>2. Passed(u, how, Made)
        BY <2>3 DEF Settled
      <3>3. At(m, u, n, printed, s, h, 0, 0, {p} \ {p}, {p} \ {p})
        BY <1>4, <1>5, <2>2, <2>3, <3>1, <3>2, VSettle
      <3>4. n.pairs = o.pairs
        BY <3>1, <1>5 DEF Settle, MachineOK, Machine
      <3> QED
        BY <3>3, <3>4, <1>4, <1>e DEF At
    <2>5. CASE kind = "race"
      <3>1. n = o
        BY <2>1, <2>5 DEF SettleEmpty
      <3>2. ~Grouped(o, p)
        BY <1>4 DEF Grouped
      <3>3. ~Expected(u, o, p)
        BY <3>2, <2>5, <1>6 DEF Expected
      <3>4. \A q \in {p} : q \in {} \/ Given(u, o, s, h, 0, 0, q)
        BY <3>3 DEF Given
      <3>5. Fate(u, o, s, h, 0, 0, {}, {})
        BY <3>4, <1>5, FateEases
      <3> QED
        BY <3>1, <3>5, <1>4
    <2> QED
      BY <2>4, <2>5
  <1>7. CASE vs # <<>>
    <2>s. PICK size \in {1, 2} : size = Len(vs)
      BY <1>7
    <2>1. PICK b : b = OpenGroup(o, kind, p, size)
      OBVIOUS
    <2>2. n = JoinAll(b, vs)
      BY <1>7, <1>1, <1>4, <2>s, <2>1 DEF Combine
    <2>3. PICK G \in Nat : GroupAdded(o, b, kind, p, size, G)
      <3>1. size \in Nat
        BY <2>s
      <3> QED
        BY <3>1, <2>1, <1>4, <1>5, GroupOpens
    <2>4. Untargeted(o, s, p)
      <3>1. \A r \in Waiting(o) : ~ReactionFor(o, r, p)
        BY <1>a, <1>4, Named DEF Waiting, ReactionId, ReactionFor
      <3>2. \A k \in 1 .. Len(o.pairs) : ~PairFor(o, k, p)
        BY <1>a, <1>4, Named DEF PairFor
      <3>3. \A i \in 1 .. Len(s) : s[i].kind \notin {"turn", "try"} => s[i].target # p
        BY <1>4 DEF Placedly, StackIn, FrameIn
      <3> QED
        BY <3>1, <3>2, <3>3 DEF Untargeted
    <2>5. ~Grouped(o, p)
      BY <1>4 DEF Grouped
    <2>6. size \in Nat /\ size >= 1
      BY <2>s
    <2>7. Fate(u, b, s, h, 0, size, {p} \ {p}, {p})
      BY <1>4, <1>5, <2>1, <2>4, <2>5, <2>6, FateGroupOpened
    <2>8. \A q \in {p} \ {p} : q \in {} \/ Given(u, b, s, h, 0, size, q)
      OBVIOUS
    <2>9. Overriding(u) \/ \A q \in Promise(b) : q \in {} => q \in {p}
      OBVIOUS
    <2>10. Fate(u, b, s, h, 0, size, {}, {})
      BY <2>7, <2>8, <2>9, FateEases
    <2>11. /\ Evolves(o, b, printed) /\ Len(b.groups) = Len(o.groups) + 1
           /\ Len(b.groups[Len(o.groups) + 1].values) = size
      BY <1>4, <1>5, <2>1, <2>6, OpenGroupSound
    <2>12. /\ G = Len(b.groups) /\ G \in 1 .. Len(b.groups) /\ b.groups[G].result = p
           /\ b.state = o.state /\ b.pairs = o.pairs /\ b.reactions = o.reactions
           /\ G \notin 1 .. Len(o.groups)
      BY <2>3 DEF GroupAdded
    <2>13. Len(b.groups[G].values) = size
      BY <2>11, <2>12
    <2>14. Placedly(b, printed, s, h)
      <3>1. Keeps(o, b)
        BY <1>5, <2>11, EvolvesKeeps DEF Keeps
      <3>2. StackIn(b, s)
        BY <3>1, <1>5, StackKeeps DEF Placedly
      <3> QED
        BY <3>1, <3>2, <1>5, <2>11 DEF Placedly, Keeps, Evolves
    <2>15. Below(b, G, 1)
      <3>1. \A r \in ReactionId(o) : o.reactions[r].kind = "member" => o.reactions[r].group \in 1 .. Len(o.groups)
        BY <1>5, Named
      <3> QED
        BY <3>1, <2>12 DEF Below, MemberOf, ReactionId
    <2>16. Joinable(u, b, printed, s, h, size, 1, G, p)
      BY <2>10, <2>12, <2>14, <2>15, <1>4 DEF Joinable
    <2>17. \A i \in 1 .. size : ValueIn(b, vs[i]) /\ vs[i].tag \in Tags(u)
      <3>1. \A i \in 1 .. size : ValueIn(m, vs[i]) /\ vs[i].tag \in Tags(u)
        BY <2>s
      <3>2. Evolves(m, o, printed)
        BY <1>a, <1>1, CreateEvolves
      <3>3. \A v : ValueIn(m, v) => ValueIn(b, v)
        BY <3>2, <1>a, <1>5, <2>11, EvolvesKeeps
      <3> QED
        BY <3>1, <3>3
    <2>18. Fate(u, n, s, h, 0, 0, {}, {}) /\ n.pairs = b.pairs
      <3>1. EntrantsIn(u, b, vs, size)
        BY <2>17 DEF EntrantsIn
      <3>n. PICK one : one = 1
        OBVIOUS
      <3>2. Joinable(u, b, printed, s, h, size, one, G, p)
        BY <2>16, <3>n
      <3>3. AllJoined(u, b, n, s, h)
        BY <2>2, <2>s, <2>13, <3>1, <3>2, <3>n, VJoinAll
      <3> QED
        BY <3>3 DEF AllJoined
    <2> QED
      BY <2>18, <2>12, <1>4
  <1> QED
    BY <1>6, <1>7

-----------------------------------------------------------------------------
(***************************************************************************)
(* Actions: from rest to rest.                                             *)
(***************************************************************************)

(* Between two actions the machine has nothing in its hand.                *)
Rested(u, m, printed, s, h) == Placedly(m, printed, s, h) /\ Fate(u, m, s, h, 0, 0, {}, {})

(* The pairs that were there stay as they were.                            *)
PairsKept(m, n) == \A k \in 1 .. Len(m.pairs) : n.pairs[k] = m.pairs[k]

(* An action ends: nothing is in hand, and what was there only grew.       *)
Moved(u, m, n, printed, t, l) ==
  Rested(u, n, printed, t, l) /\ Grows(m, n) /\ PairsKept(m, n)

(* An action begins with empty hands, `Bare', and ends so.                 *)
Bare(m, z, E) == z = 0 /\ E = {} /\ E \subseteq Promise(m)

(* At rest nothing is in hand.                                             *)
LEMMA RestAt ==
  ASSUME NEW u, NEW m, NEW printed, NEW s, NEW h, Rested(u, m, printed, s, h)
  PROVE  /\ \E z, E : Bare(m, z, E) /\ At(m, u, m, printed, s, h, z, z, E, E)
         /\ Sound(m, printed) /\ MachineOK(m) /\ Placedly(m, printed, s, h)
         /\ \A p : Free(u, m, p, {}) <=> Overriding(u) /\ (Getting(u) \/ ~Grouped(m, p))
  <1>1. Sound(m, printed) /\ MachineOK(m) /\ Placedly(m, printed, s, h)
    BY DEF Rested, Placedly, Sound
  <1>2. Kept(m, m)
    BY <1>1, KeptRefl
  <1>3. At(m, u, m, printed, s, h, 0, 0, {}, {})
    BY <1>1, <1>2 DEF At, Rested
  <1>4. Bare(m, 0, {})
    BY DEF Bare
  <1> QED
    BY <1>1, <1>3, <1>4 DEF Free

(* And with nothing in hand the program is at rest.                        *)
LEMMA AtRest ==
  ASSUME NEW b, NEW u, NEW n, NEW printed, NEW s, NEW h, NEW z, z = 0, NEW X, X = {}, NEW Y,
         At(b, u, n, printed, s, h, z, z, X, Y)
  PROVE  Moved(u, b, n, printed, s, h)
  <1>1. /\ Placedly(n, printed, s, h) /\ Kept(b, n) /\ Fate(u, n, s, h, 0, 0, {}, Y)
    BY DEF At
  <1>2. Fate(u, n, s, h, 0, 0, {}, {})
    <2>1. \A p \in {} : p \in {} \/ Given(u, n, s, h, 0, 0, p)
      OBVIOUS
    <2>2. Overriding(u) \/ \A p \in Promise(n) : p \in {} => p \in Y
      OBVIOUS
    <2> QED
      BY <1>1, <2>1, <2>2, FateEases
  <1> QED
    BY <1>1, <1>2 DEF Moved, Rested, Kept, PairsKept

(* A machine without a new pair, or with one more.                         *)
LEMMA PairOpenedKeeps ==
  ASSUME NEW m, MachineOK(m), NEW p \in Promise(m), NEW n, n = OpenPair(m, p)
  PROVE  PairsKept(m, n) /\ n.groups = m.groups
  <1>1. m.pairs \in Seq(Pair) /\ m \in Machine /\ p \in Nat
    BY FieldTypes DEF MachineOK, Promise
  <1>2. [promise |-> p, spent |-> FALSE] \in Pair
    BY <1>1 DEF Pair
  <1>3. n.pairs = Append(m.pairs, [promise |-> p, spent |-> FALSE]) /\ n.groups = m.groups
    BY <1>1 DEF OpenPair, Machine
  <1> QED
    BY <1>1, <1>2, <1>3, AppendProperties DEF PairsKept

(* The tables stay well formed.                                            *)
LEMMA MovedOn ==
  ASSUME NEW u, NEW m, NEW printed, NEW s, NEW h, NEW l, Moved(u, m, m, printed, s, h)
  PROVE  MachineOK(m)
  BY DEF Moved, Rested, Placedly, Sound

(* Code is called that answers for nothing yet.                            *)
LEMMA FateCalls ==
  ASSUME NEW u, NEW m, NEW printed, NEW s, NEW h, Rested(u, m, printed, s, h),
         NEW kind \in {"turn", "try"}, NEW f, f = CodeFor(kind, 0), NEW t, t = Append(s, f)
  PROVE  Moved(u, m, m, printed, t, h)
  <1>1. Placedly(m, printed, s, h) /\ MachineOK(m)
    BY DEF Rested, Placedly, Sound
  <1>2. f \in Frame /\ FrameIn(m, f) /\ f.kind = kind /\ f.value = Undefined
    BY PlainIn, UndefinedValue DEF CodeFor, NewFrame, Frame, FrameIn, Settled
  <1>3. FrameShape(u, f)
    BY <1>2, PlainPassed DEF FrameShape
  <1>4. Fate(u, m, t, h, 0, 0, {} \ {}, {} \ {})
    <2>1. PICK T : T = {}
      OBVIOUS
    <2>2. PICK z, E : z = 0 /\ E = {}
      OBVIOUS
    <2>3. Fate(u, m, s, h, z, z, E, E)
      BY <2>2 DEF Rested
    <2>4. T = IF f.kind \in Answering THEN {f.target} ELSE {}
      BY <2>1, <1>2 DEF Answering
    <2>5. f.kind \in {"turn", "try"} /\ f.kind # "getter" /\ T \subseteq E
      BY <1>2, <2>1
    <2>6. Fate(u, m, t, h, z, z, E \ T, E \ T)
      BY <2>3, <2>4, <2>5, <1>1, <1>2, <1>3, FatePush
    <2> QED
      BY <2>6, <2>1, <2>2
  <1>5. StackIn(m, t)
    BY <1>1, <1>2, StackCall DEF Placedly
  <1>6. {} \ {} = {}
    OBVIOUS
  <1>7. Placedly(m, printed, t, h)
    BY <1>1, <1>5 DEF Placedly
  <1> QED
    BY <1>1, <1>4, <1>6, <1>7, GrowsRefl DEF Moved, Rested, PairsKept

(* An executor is called with a pair of its own; withResolvers hands the   *)
(* pair out.                                                               *)
LEMMA FateOpens ==
  ASSUME NEW u, NEW m, NEW printed, NEW s, NEW h, Rested(u, m, printed, s, h),
         NEW c, c = Create(m), NEW p, p = Newest(c), NEW n, n = OpenPair(c, p),
         NEW k, k = NewestPair(c) + 1, NEW l, l = h \cup {k}
  PROVE  /\ Moved(u, m, n, printed, s, l) /\ ~Grouped(n, p) /\ p \in Promise(n)
         /\ k \in 1 .. Len(n.pairs)
  <1>a. Sound(m, printed) /\ MachineOK(m) /\ Placedly(m, printed, s, h)
    BY RestAt
  <1>1. PICK z, E : Bare(m, z, E) /\ At(m, u, m, printed, s, h, z, z, E, E)
    BY RestAt
  <1>2. PICK q : q = Newest(m) + 1
    OBVIOUS
  <1>3. /\ At(m, u, c, printed, s, h, z, z, E \cup {q}, E \cup {q})
        /\ q \in Promise(c) /\ Newest(c) = q /\ ~Grouped(m, q)
        /\ c.pairs = m.pairs /\ c.groups = m.groups
    BY <1>1, <1>2, VCreate
  <1>4. PICK W : W = E \cup {q}
    OBVIOUS
  <1>5. At(m, u, c, printed, s, h, z, z, W, W) /\ W = {p} /\ p \in Promise(c)
    BY <1>3, <1>4, <1>1 DEF Bare
  <1>6. /\ Sound(c, printed) /\ MachineOK(c) /\ Placedly(c, printed, s, h)
        /\ Fate(u, c, s, h, z, z, W, W)
    BY <1>5, AtFacts
  <1>7. ~Grouped(c, p)
    BY <1>3 DEF Grouped
  <1>8. k = Len(c.pairs) + 1
    BY DEF NewestPair
  <1>9. Fate(u, n, s, h, z, z, W, W \ {p}) /\ Fresh(n, s, h, z, k, p)
    BY <1>5, <1>6, <1>7, <1>8, FatePairOpened
  <1>10. Fate(u, n, s, l, z, z, {}, W \ {p})
    <2>1. /\ k \in 1 .. Len(n.pairs) /\ Ungot(s, k) /\ PairFor(n, k, p)
          /\ \A r \in Due(n, z) : PairOf(n, r) # k
      BY <1>9 DEF Fresh, Reached
    <2>2. PICK X : X = {}
      OBVIOUS
    <2>3. \A q0 \in W : q0 \in X \/ PairFor(n, k, q0)
      BY <2>1, <1>5
    <2>4. Fate(u, n, s, l, z, z, X, W \ {p})
      BY <1>9, <2>1, <2>3, FateHold
    <2> QED
      BY <2>2, <2>4
  <1>11. Fate(u, n, s, l, 0, 0, {}, {})
    BY <1>10, <1>5, <1>1 DEF Bare
  <1>12. Evolves(m, n, printed) /\ p \in Promise(n) /\ k \in 1 .. Len(n.pairs)
    BY <1>a, OpenedEvolves
  <1>13. n.groups = c.groups /\ PairsKept(c, n)
    BY <1>5, <1>6, PairOpenedKeeps
  <1>14. PairsKept(m, n)
    BY <1>13, <1>3 DEF PairsKept
  <1>15. Placedly(n, printed, s, l)
    <2>1. Keeps(m, n)
      BY <1>a, <1>12, EvolvesKeeps DEF Keeps
    <2>2. StackIn(n, s)
      BY <2>1, <1>a, StackKeeps DEF Placedly
    <2> QED
      BY <2>1, <2>2, <1>12, <1>a DEF Placedly, Keeps, Evolves
  <1>16. ~Grouped(n, p)
    BY <1>7, <1>13 DEF Grouped
  <1> QED
    BY <1>11, <1>12, <1>14, <1>15, <1>16 DEF Moved, Rested, Evolves

(* new Promise(executor).                                                  *)
LEMMA FateNew ==
  ASSUME NEW u, NEW m, NEW printed, NEW s, NEW h, Rested(u, m, printed, s, h),
         "new" \in u.ops,
         NEW c, c = Create(m), NEW p, p = Newest(c), NEW n, n = OpenPair(c, p),
         NEW k, k = NewestPair(c) + 1, NEW l, l = h \cup {k},
         NEW f, f = NewFrame("executor", p, k, "fulfilled", Undefined),
         NEW t, t = Append(s, f)
  PROVE  Moved(u, m, n, printed, t, l)
  <1>1. /\ Moved(u, m, n, printed, s, l) /\ ~Grouped(n, p) /\ p \in Promise(n)
        /\ k \in 1 .. Len(n.pairs)
    BY FateOpens
  <1>2. Placedly(n, printed, s, l) /\ MachineOK(n) /\ Fate(u, n, s, l, 0, 0, {}, {})
    BY <1>1 DEF Moved, Rested, Placedly, Sound
  <1>3. /\ f \in Frame /\ FrameIn(n, f) /\ f.kind = "executor" /\ f.value = Undefined
        /\ f.target = p
    <2>1. p \in Nat /\ k \in Nat
      BY <1>1, <1>2, FieldTypes DEF Promise
    <2>2. f \in Frame /\ f.kind = "executor" /\ f.value = Undefined /\ f.target = p /\ f.pair = k
      BY <2>1, UndefinedValue DEF NewFrame, Frame, Settled
    <2> QED
      BY <2>2, <1>1, PlainIn DEF FrameIn
  <1>4. FrameShape(u, f)
    BY <1>3, PlainPassed DEF FrameShape
  <1>5. PICK z, E, T : z = 0 /\ E = {} /\ T = {}
    OBVIOUS
  <1>6. Fate(u, n, t, l, z, z, E \ T, E \ T)
    <2>1. Fate(u, n, s, l, z, z, E, E)
      BY <1>2, <1>5
    <2>2. T = IF f.kind \in Answering THEN {f.target} ELSE {}
      BY <1>3, <1>5 DEF Answering
    <2>3. f.kind # "getter" /\ T \subseteq E /\ ~Grouped(n, f.target)
      BY <1>1, <1>3, <1>5
    <2>4. Placedly(n, printed, s, l) /\ f \in Frame /\ t = Append(s, f)
      BY <1>2, <1>3
    <2> QED
      BY ONLY <2>1, <2>2, <2>3, <2>4, <1>4, FatePush
  <1>7. Fate(u, n, t, l, 0, 0, {}, {})
    BY <1>5, <1>6
  <1>8. Placedly(n, printed, t, l)
    BY <1>2, <1>3, StackCall DEF Placedly
  <1> QED
    BY <1>1, <1>7, <1>8 DEF Moved, Rested

(* An async function: the promise, then its body.                          *)
LEMMA FateAsync ==
  ASSUME NEW u, NEW m, NEW printed, NEW s, NEW h, Rested(u, m, printed, s, h),
         NEW n, n = Create(m), NEW p, p = Newest(m) + 1,
         NEW f, f = CodeFor("body", p), NEW t, t = Append(s, f)
  PROVE  Moved(u, m, n, printed, t, h)
  <1>1. PICK z, E : Bare(m, z, E) /\ At(m, u, m, printed, s, h, z, z, E, E)
    BY RestAt
  <1>2. /\ At(m, u, n, printed, s, h, z, z, E \cup {p}, E \cup {p})
        /\ p \in Promise(n) /\ ~Grouped(m, p) /\ n.groups = m.groups /\ n.pairs = m.pairs
    BY <1>1, VCreate
  <1>3. PICK W : W = E \cup {p}
    OBVIOUS
  <1>4. At(m, u, n, printed, s, h, z, z, W, W) /\ W = {p}
    BY <1>1, <1>2, <1>3 DEF Bare
  <1>5. /\ Sound(n, printed) /\ MachineOK(n) /\ Placedly(n, printed, s, h)
        /\ Fate(u, n, s, h, z, z, W, W) /\ Kept(m, n)
    BY <1>4, AtFacts
  <1>6. f \in Frame /\ FrameIn(n, f) /\ f.kind = "body" /\ f.value = Undefined /\ f.target = p
    <2>1. p \in Nat
      BY <1>2, <1>5, FieldTypes DEF Promise
    <2>2. f \in Frame /\ f.kind = "body" /\ f.value = Undefined /\ f.target = p
      BY <2>1, UndefinedValue DEF CodeFor, NewFrame, Frame, Settled
    <2> QED
      BY <2>2, <1>2, PlainIn DEF FrameIn
  <1>7. FrameShape(u, f)
    BY <1>6, PlainPassed DEF FrameShape
  <1>8. Fate(u, n, t, h, z, z, W \ W, W \ W)
    <2>1. W = IF f.kind \in Answering THEN {f.target} ELSE {}
      BY <1>4, <1>6 DEF Answering
    <2>2. f.kind # "getter" /\ W \subseteq W /\ ~Grouped(n, f.target)
      BY <1>2, <1>6 DEF Grouped
    <2> QED
      BY <2>1, <2>2, <1>5, <1>6, <1>7, FatePush
  <1>9. W \ W = {} /\ z = 0
    BY <1>1 DEF Bare
  <1>10. Placedly(n, printed, t, h)
    BY <1>5, <1>6, StackCall DEF Placedly
  <1> QED
    BY <1>5, <1>8, <1>9, <1>10 DEF Moved, Rested, Kept, PairsKept

(* then, catch, finally; Promise.resolve and Promise.reject.               *)
LEMMA FateThen ==
  ASSUME NEW u, NEW m, NEW printed, NEW s, NEW h, Rested(u, m, printed, s, h),
         NEW q \in Promise(m), NEW f \in Handler, NEW r \in Handler, NEW o, o = Create(m),
         NEW n, \/ n = React(o, JsReaction(q, Newest(o), f, r))
                \/ n = React(o, FinallyReaction(q, Newest(o), f))
  PROVE  Moved(u, m, n, printed, s, h)
  <1>1. PICK z, E : Bare(m, z, E) /\ At(m, u, m, printed, s, h, z, z, E, E)
    BY RestAt
  <1>2. E \subseteq Promise(m) /\ z = 0 /\ E = {}
    BY <1>1 DEF Bare
  <1>3. At(m, u, n, printed, s, h, z, z, E, E)
    BY <1>1, <1>2, VThen
  <1> QED
    BY <1>2, <1>3, AtRest

(* Promise.resolve and Promise.reject of a value that is not a promise.    *)
LEMMA FateMade ==
  ASSUME NEW u, NEW m, NEW printed, NEW s, NEW h, Rested(u, m, printed, s, h),
         NEW v, ValueIn(m, v), v.tag \in Tags(u), NEW p, p = Newest(m) + 1,
         NEW n, n = Resolve(Create(m), p, v) \/ n = Reject(Create(m), p, v)
  PROVE  Moved(u, m, n, printed, s, h)
  <1>1. PICK z, E : Bare(m, z, E) /\ At(m, u, m, printed, s, h, z, z, E, E)
    BY RestAt
  <1>2. E \subseteq Promise(m) /\ z = 0 /\ E = {}
    BY <1>1 DEF Bare
  <1>3. At(m, u, n, printed, s, h, z, z, E, E)
    BY <1>1, <1>2, VMade
  <1> QED
    BY <1>2, <1>3, AtRest

(* Promise.all, allSettled, race and any.                                  *)
LEMMA FateCombine ==
  ASSUME NEW u, NEW m, NEW printed, NEW s, NEW h, Rested(u, m, printed, s, h),
         NEW kind \in {"all", "allSettled", "race", "any"},
         NEW vs, vs = <<>> \/ Len(vs) \in {1, 2},
         \A i \in 1 .. Len(vs) : ValueIn(m, vs[i]) /\ vs[i].tag \in Tags(u),
         vs = <<>> /\ kind = "race" => "emptyRace" \in u.ops,
         NEW n, n = Combine(m, kind, vs)
  PROVE  Moved(u, m, n, printed, s, h)
  <1>1. Sound(m, printed) /\ Placedly(m, printed, s, h) /\ Fate(u, m, s, h, 0, 0, {}, {})
    BY DEF Rested, Placedly
  <1>2. Fate(u, n, s, h, 0, 0, {}, {}) /\ n.pairs = m.pairs
    BY <1>1, VCombine
  <1>3. Evolves(m, n, printed)
    <2>1. \A i \in 1 .. Len(vs) : ValueIn(m, vs[i])
      OBVIOUS
    <2> QED
      BY <1>1, <2>1, CombineEvolves
  <1>4. Placedly(n, printed, s, h)
    <2>1. Keeps(m, n)
      BY <1>1, <1>3, EvolvesKeeps DEF Keeps
    <2>2. StackIn(n, s)
      BY <2>1, <1>1, StackKeeps DEF Placedly
    <2> QED
      BY <2>1, <2>2, <1>3, <1>1 DEF Placedly, Keeps, Evolves
  <1> QED
    BY <1>2, <1>3, <1>4 DEF Moved, Rested, Evolves, PairsKept

-----------------------------------------------------------------------------
(***************************************************************************)
(* A settler called, and code ended.                                       *)
(***************************************************************************)

(* What happens to a pair that is claimed: no reaction waits to use it.    *)
Untouched(m, n) == \A k \in 1 .. Len(m.pairs) :
  \/ n.pairs[k] = m.pairs[k]
  \/ ~m.pairs[k].spent /\ \A j \in Waiting(m) : PairOf(m, j) # k

(* An adoption stays honoured while its pair stays as it was.              *)
LEMMA AdoptedStays ==
  ASSUME NEW m, MachineOK(m), NEW n, Grows(m, n),
         NEW r \in AdoptionJobs(m), NEW k \in 1 .. Len(m.pairs), AdoptedBy(m, r, k),
         n.pairs[k] = m.pairs[k]
  PROVE  AdoptedBy(n, r, k)
  <1>1. /\ n.taken = m.taken /\ ReactionId(m) \subseteq ReactionId(n)
        /\ \A j \in ReactionId(m) : n.reactions[j] = m.reactions[j]
    BY FieldTypes DEF Grows, MachineOK, ReactionId
  <1>3. r \in ReactionId(m) /\ n.reactions[r] = m.reactions[r]
    BY <1>1 DEF AdoptionJobs
  <1>6. PICK p : p = m.reactions[r].target
    OBVIOUS
  <1>7. PICK q : q = m.reactions[r].value.id
    OBVIOUS
  <1>8. p \in Promise(m) /\ q \in Promise(m)
    BY <1>3, <1>6, <1>7, SourceIn DEF ReactionIn, ValueIn, AdoptionJobs
  <1>9. /\ m.pairs[k].promise = p
        /\ IF m.pairs[k].spent THEN m.state[q] # "pending" /\ SameOutcome(m, p, q)
           ELSE \E j \in Waiting(m) : PairOf(m, j) = k /\ Source(m, j) = q
    BY <1>6, <1>7 DEF AdoptedBy
  <1>12. CASE m.pairs[k].spent
    <2>1. m.state[q] # "pending" /\ m.state[p] = m.state[q] /\ m.value[p] = m.value[q]
      BY <1>9, <1>12 DEF SameOutcome
    <2>2. n.state[q] = m.state[q] /\ n.value[q] = m.value[q]
      BY <2>1, <1>8 DEF Grows
    <2>3. n.state[p] = m.state[p] /\ n.value[p] = m.value[p]
      BY <2>1, <1>8 DEF Grows
    <2>4. n.state[q] # "pending" /\ SameOutcome(n, p, q)
      BY <2>1, <2>2, <2>3 DEF SameOutcome
    <2> QED
      BY <2>4, <1>3, <1>6, <1>7, <1>9, <1>12 DEF AdoptedBy
  <1>13. CASE ~m.pairs[k].spent
    <2>1. PICK j \in Waiting(m) : PairOf(m, j) = k /\ Source(m, j) = q
      BY <1>9, <1>13
    <2>2. j \in Waiting(n) /\ n.reactions[j] = m.reactions[j]
      BY <2>1, <1>1 DEF Waiting
    <2>3. PairOf(n, j) = k /\ Source(n, j) = q
      BY <2>1, <2>2 DEF PairOf, Source
    <2> QED
      BY <2>2, <2>3, <1>3, <1>6, <1>7, <1>9, <1>13 DEF AdoptedBy
  <1> QED
    BY <1>12, <1>13

(* And all of them do when only pairs nothing adopts with are spent.       *)
LEMMA AdoptedKept ==
  ASSUME NEW m, MachineOK(m), Adopted(m), NEW n, Grows(m, n), MachineOK(n), Untouched(m, n)
  PROVE  Adopted(n)
  <1>1. /\ n.taken = m.taken /\ m.taken \subseteq ReactionId(m)
        /\ 1 .. Len(m.pairs) \subseteq 1 .. Len(n.pairs)
        /\ \A r \in ReactionId(m) : n.reactions[r] = m.reactions[r]
    BY FieldTypes DEF Grows, MachineOK
  <1>2. SUFFICES ASSUME NEW r \in AdoptionJobs(n), r \in n.taken
                 PROVE  \E k \in 1 .. Len(n.pairs) : AdoptedBy(n, r, k)
    BY DEF Adopted
  <1>3. r \in ReactionId(m) /\ r \in m.taken /\ n.reactions[r] = m.reactions[r]
    BY <1>1, <1>2
  <1>4. r \in AdoptionJobs(m)
    BY <1>2, <1>3 DEF AdoptionJobs
  <1>5. PICK k \in 1 .. Len(m.pairs) : AdoptedBy(m, r, k)
    BY <1>3, <1>4 DEF Adopted
  <1>6. n.pairs[k] = m.pairs[k]
    BY <1>5 DEF Untouched, AdoptedBy
  <1>7. AdoptedBy(n, r, k)
    BY <1>4, <1>5, <1>6, AdoptedStays
  <1> QED
    BY <1>1, <1>7

(* A settler the program holds is called.                                  *)
LEMMA FateSettler ==
  ASSUME NEW u, NEW m, NEW printed, NEW s, NEW h, Rested(u, m, printed, s, h),
         NEW k \in h, NEW f, f.pair = k, NEW v, ValueIn(m, v), v.tag \in Tags(u),
         NEW n, n = CallSettler(m, f, v)
  PROVE  Rested(u, n, printed, s, h) /\ Grows(m, n) /\ Untouched(m, n)
  <1>a. Sound(m, printed) /\ MachineOK(m) /\ Placedly(m, printed, s, h)
    BY RestAt
  <1>b. Fate(u, m, s, h, 0, 0, {}, {})
    BY DEF Rested
  <1>k. k \in 1 .. Len(m.pairs)
    BY <1>a DEF Placedly
  <1>1. CASE m.pairs[k].spent
    <2>1. n = m
      BY <1>1 DEF CallSettler
    <2> QED
      BY <2>1, <1>a, GrowsRefl DEF Untouched
  <1>2. CASE ~m.pairs[k].spent
    <2>1. Ungot(s, k)
      BY <1>b DEF Fate, Shape, Getters, Reached, Ungot
    <2>2. \A j \in Waiting(m) : PairOf(m, j) # k
      <3>1. Handed(m, h, 0)
        BY <1>b DEF Fate, Shape
      <3>2. k # 0
        BY <1>k, <1>a, FieldTypes
      <3>3. \A j \in Waiting(m) : j \in Due(m, 0)
        BY DEF Waiting, Due
      <3> QED
        BY <3>1, <3>2, <3>3 DEF Handed
    <2>3. PICK z, E : z = 0 /\ E = {}
      OBVIOUS
    <2>4. Fate(u, m, s, h, z, z, E, E)
      BY <1>b, <2>3
    <2>5. PICK o : o = Spend(m, k)
      OBVIOUS
    <2>6. At(o, u, n, printed, s, h, z, z, E, E)
      BY <2>1, <2>4, <2>5, <1>a, <1>k, <1>2, VCallSettler
    <2>7. Moved(u, o, n, printed, s, h)
      BY <2>3, <2>6, AtRest
    <2>8. Evolves(m, n, printed)
      BY <1>a, <1>k, CallSettlerEvolves
    <2>9. \A i \in 1 .. Len(m.pairs) : i # k => o.pairs[i] = m.pairs[i]
      <3>1. m.pairs \in Seq(Pair) /\ m \in Machine
        BY <1>a, FieldTypes DEF MachineOK
      <3> QED
        BY <3>1, <2>5 DEF Spend, Machine
    <2>10. Len(o.pairs) = Len(m.pairs)
      BY <2>5, <1>a, <1>k, ClaimSound DEF Spend
    <2>11. Untouched(m, n)
      BY <2>2, <2>7, <2>9, <2>10, <1>2 DEF Moved, PairsKept, Untouched
    <2> QED
      BY <2>7, <2>8, <2>11 DEF Moved, Evolves
  <1> QED
    BY <1>1, <1>2

(* A piece of code ends that answers for nothing.                          *)
LEMMA PoppedQuiet ==
  ASSUME NEW u, NEW m, NEW printed, NEW s, NEW h, Rested(u, m, printed, s, h), s # <<>>,
         NEW f, f = s[Len(s)], f.kind \notin Answering,
         NEW t, t = SubSeq(s, 1, Len(s) - 1)
  PROVE  Moved(u, m, m, printed, t, h)
  <1>a. Sound(m, printed) /\ MachineOK(m) /\ Placedly(m, printed, s, h)
    BY RestAt
  <1>1. PICK z, E : z = 0 /\ E = {}
    OBVIOUS
  <1>2. Fate(u, m, s, h, z, z, E, E)
    BY <1>1 DEF Rested
  <1>3. E = IF f.kind \in Answering THEN {f.target} ELSE {}
    BY <1>1
  <1>4. Fate(u, m, t, h, z, z, E \cup E, E \cup E) /\ StackIn(m, t)
    BY <1>a, <1>2, <1>3, FatePop
  <1>5. E \cup E = {}
    BY <1>1
  <1>6. Fate(u, m, t, h, 0, 0, {}, {})
    BY <1>1, <1>4, <1>5
  <1>7. Placedly(m, printed, t, h)
    BY <1>4, <1>a DEF Placedly
  <1> QED
    BY <1>6, <1>7, <1>a, GrowsRefl DEF Moved, Rested, PairsKept

(* A piece of code ends, and what it answered for is the caller's.         *)
Owing(u, m, printed, t, h, z, W, p) ==
  /\ At(m, u, m, printed, t, h, z, z, W, W) /\ z = 0 /\ W = {p}
  /\ p \in Promise(m) /\ W \subseteq Promise(m) /\ Free(u, m, p, W)

(* Code that answers for a promise leaves it to whoever ended it.          *)
LEMMA PoppedOwing ==
  ASSUME NEW u, NEW m, NEW printed, NEW s, NEW h, Rested(u, m, printed, s, h), s # <<>>,
         NEW f, f = s[Len(s)], f.kind \in Answering, NEW p, p = f.target,
         NEW t, t = SubSeq(s, 1, Len(s) - 1)
  PROVE  \E z, W : Owing(u, m, printed, t, h, z, W, p)
  <1>a. Sound(m, printed) /\ MachineOK(m) /\ Placedly(m, printed, s, h)
    BY RestAt
  <1>b. Fate(u, m, s, h, 0, 0, {}, {})
    BY DEF Rested
  <1>1. PICK z, E, W : z = 0 /\ E = {} /\ W = {p}
    OBVIOUS
  <1>2. Fate(u, m, s, h, z, z, E, E)
    BY <1>1, <1>b
  <1>3. W = IF f.kind \in Answering THEN {f.target} ELSE {}
    BY <1>1
  <1>4. Fate(u, m, t, h, z, z, E \cup W, E \cup W) /\ StackIn(m, t)
    BY <1>a, <1>2, <1>3, FatePop
  <1>5. E \cup W = W
    BY <1>1
  <1>6. Placedly(m, printed, t, h) /\ Kept(m, m)
    BY <1>4, <1>a, KeptRefl DEF Placedly
  <1>7. At(m, u, m, printed, t, h, z, z, W, W)
    BY <1>4, <1>5, <1>6 DEF At
  <1>8. p \in Promise(m)
    BY <1>a, StackRest DEF Placedly, FrameIn, Answering
  <1>9. Getting(u) \/ ~Grouped(m, p)
    <2>1. CASE Owned(m, s)
      <3>1. Len(s) \in 1 .. Len(s)
        <4>1. s \in Seq(Frame)
          BY <1>a DEF Placedly, StackIn
        <4>2. Len(s) \in Nat /\ Len(s) # 0
          BY <4>1, EmptySeq, LenProperties
        <4> QED
          BY <4>2
      <3>2. \A g \in 1 .. Len(m.groups) : m.groups[g].result # p
        BY <3>1, <2>1 DEF Owned, Untargeted, Answering
      <3> QED
        BY <3>2 DEF Grouped
    <2> QED
      BY <2>1, <1>b DEF Fate
  <1>10. Owing(u, m, printed, t, h, z, W, p)
    BY <1>1, <1>7, <1>8, <1>9 DEF Owing, Free
  <1> QED
    BY <1>10

(* What the innermost code is.                                             *)
LEMMA TopShape ==
  ASSUME NEW u, NEW m, NEW printed, NEW s, NEW h, Rested(u, m, printed, s, h), s # <<>>,
         NEW f, f = s[Len(s)]
  PROVE  /\ f \in Frame /\ FrameIn(m, f) /\ FrameShape(u, f)
         /\ f.how \in Settled /\ ValueIn(m, f.value) /\ f.value.tag \in Tags(u)
         /\ Len(s) \in 1 .. Len(s)
  <1>a. Placedly(m, printed, s, h)
    BY RestAt
  <1>1. f \in Frame /\ FrameIn(m, f)
    BY <1>a, StackRest DEF Placedly
  <1>2. Len(s) \in 1 .. Len(s)
    <2>1. s \in Seq(Frame)
      BY <1>a DEF Placedly, StackIn
    <2>2. Len(s) \in Nat /\ Len(s) # 0
      BY <2>1, EmptySeq, LenProperties
    <2> QED
      BY <2>2
  <1>3. FramesShaped(u, s)
    BY DEF Rested, Fate, Shape
  <1>4. FrameShape(u, f)
    BY <1>2, <1>3 DEF FramesShaped
  <1>5. f.how \in Settled
    BY <1>1 DEF Frame
  <1> QED
    BY <1>1, <1>2, <1>4, <1>5 DEF FrameIn, FrameShape

(* The promise owed is settled, or handed to a reaction.                   *)
LEMMA OwingPaid ==
  ASSUME NEW u, NEW m, NEW printed, NEW t, NEW h, NEW z, NEW W, NEW p,
         Owing(u, m, printed, t, h, z, W, p),
         NEW n, At(m, u, n, printed, t, h, z, z, W \ {p}, W \ {p})
  PROVE  Moved(u, m, n, printed, t, h)
  <1>1. PICK E : E = W \ {p}
    OBVIOUS
  <1>2. z = 0 /\ E = {}
    BY <1>1 DEF Owing
  <1>3. At(m, u, n, printed, t, h, z, z, E, E)
    BY <1>1
  <1> QED
    BY <1>2, <1>3, AtRest

(* A piece of code ends that answers for a promise.                        *)
Pays(m, n, p, v, how, w) ==
  \/ n = Resolve(m, p, v) \/ n = Reject(m, p, v) \/ n = SettleThrough(m, p, how, w)
  \/ n = React(Waitable(m, v), RestoreReaction(WaitedOn(m, v), p, how, w))
  \/ n = React(Waitable(m, v), FrameReaction(WaitedOn(m, v), p))

(* Code that answers for a promise ends and answers.                       *)
LEMMA AnswererEnds ==
  ASSUME NEW u, NEW m, NEW printed, NEW s, NEW h, Rested(u, m, printed, s, h), s # <<>>,
         NEW f, f = s[Len(s)], f.kind \in Answering, NEW p, p = f.target,
         NEW t, t = SubSeq(s, 1, Len(s) - 1),
         NEW v, ValueIn(m, v), v.tag \in Tags(u),
         NEW n, Pays(m, n, p, v, f.how, f.value)
  PROVE  Moved(u, m, n, printed, t, h)
  <1>1. PICK z, W : Owing(u, m, printed, t, h, z, W, p)
    BY PoppedOwing
  <1>2. /\ At(m, u, m, printed, t, h, z, z, W, W) /\ p \in Promise(m)
        /\ W \subseteq Promise(m) /\ Free(u, m, p, W)
    BY <1>1 DEF Owing
  <1>3. PICK how, w : how = f.how /\ w = f.value
    OBVIOUS
  <1>4. how \in Settled /\ ValueIn(m, w) /\ w.tag \in Tags(u)
    BY <1>3, TopShape
  <1>5. At(m, u, n, printed, t, h, z, z, W \ {p}, W \ {p})
    <2>1. CASE n = Resolve(m, p, v)
      BY <2>1, <1>2, VResolve
    <2>2. CASE n = Reject(m, p, v)
      BY <2>2, <1>2, VReject
    <2>3. CASE n = SettleThrough(m, p, how, w)
      BY <2>3, <1>2, <1>4, VSettleThrough
    <2>4. CASE \/ n = React(Waitable(m, v), RestoreReaction(WaitedOn(m, v), p, how, w))
               \/ n = React(Waitable(m, v), FrameReaction(WaitedOn(m, v), p))
      <3>1. PICK o : o = Waitable(m, v)
        OBVIOUS
      <3>2. \/ n = React(o, RestoreReaction(WaitedOn(m, v), p, how, w))
            \/ n = React(o, FrameReaction(WaitedOn(m, v), p))
        BY <3>1, <2>4
      <3> QED
        BY <3>1, <3>2, <1>2, <1>4, VAwait
    <2>5. Pays(m, n, p, v, how, w)
      BY <1>3
    <2> QED
      BY <2>1, <2>2, <2>3, <2>4, <2>5 DEF Pays
  <1> QED
    BY <1>1, <1>5, OwingPaid

(* An executor or a foreign `then' throws.                                 *)
LEMMA CalledThrows ==
  ASSUME NEW u, NEW m, NEW printed, NEW s, NEW h, Rested(u, m, printed, s, h), s # <<>>,
         NEW f, f = s[Len(s)], f.kind \in {"executor", "then"}, NEW p, p = f.target,
         NEW t, t = SubSeq(s, 1, Len(s) - 1),
         NEW v, ValueIn(m, v), v.tag \in Tags(u), NEW n, n = Reject(m, p, v)
  PROVE  Moved(u, m, n, printed, t, h)
  <1>a. f \in Frame /\ FrameIn(m, f) /\ FrameShape(u, f) /\ Len(s) \in 1 .. Len(s)
    BY TopShape
  <1>1. Moved(u, m, m, printed, t, h)
    <2>1. f.kind \notin Answering
      BY DEF Answering
    <2> QED
      BY <2>1, PoppedQuiet
  <1>2. Rested(u, m, printed, t, h)
    BY <1>1 DEF Moved
  <1>3. PICK z, E : Bare(m, z, E) /\ At(m, u, m, printed, t, h, z, z, E, E)
    BY <1>2, RestAt
  <1>4. p \in Promise(m)
    BY <1>a DEF FrameIn
  <1>5. Overriding(u)
    BY <1>a DEF FrameShape, Overriding
  <1>6. Getting(u) \/ ~Grouped(m, p)
    <2>1. CASE Owned(m, s)
      <3>1. \A g \in 1 .. Len(m.groups) : m.groups[g].result # p
        BY <1>a, <2>1 DEF Owned, Untargeted
      <3> QED
        BY <3>1 DEF Grouped
    <2>2. Fate(u, m, s, h, 0, 0, {}, {})
      BY DEF Rested
    <2> QED
      BY <2>1, <2>2 DEF Fate
  <1>7. Free(u, m, p, E)
    BY <1>5, <1>6 DEF Free
  <1>8. At(m, u, n, printed, t, h, z, z, E \ {p}, E \ {p})
    BY <1>3, <1>4, <1>7, VReject
  <1>9. PICK X : X = E \ {p}
    OBVIOUS
  <1>10. z = 0 /\ X = {} /\ At(m, u, n, printed, t, h, z, z, X, X)
    BY <1>3, <1>8, <1>9 DEF Bare
  <1> QED
    BY <1>10, AtRest

(* A getter answers something callable, and that is called.                *)
LEMMA GetterCalls ==
  ASSUME NEW u, NEW m, NEW printed, NEW s, NEW h, Rested(u, m, printed, s, h), s # <<>>,
         NEW f, f = s[Len(s)], f.kind = "getter",
         NEW t, t = SubSeq(s, 1, Len(s) - 1),
         NEW g, g = [f EXCEPT !.kind = "then"], NEW w, w = Append(t, g),
         NEW l, l = h \cup {f.pair}
  PROVE  Moved(u, m, m, printed, w, l)
  <1>a. Sound(m, printed) /\ MachineOK(m) /\ Placedly(m, printed, s, h)
    BY RestAt
  <1>b. f \in Frame /\ FrameIn(m, f) /\ FrameShape(u, f) /\ Len(s) \in 1 .. Len(s)
    BY TopShape
  <1>1. PICK z, E, W, k, p : z = 0 /\ E = {} /\ W = {p} /\ k = f.pair /\ p = f.target
    <2>1. \E z, E, k, p : z = 0 /\ E = {} /\ k = f.pair /\ p = f.target
      OBVIOUS
    <2> QED
      BY <2>1
  <1>2. Fate(u, m, s, h, z, z, E, E)
    BY <1>1 DEF Rested
  <1>3. W = IF f.kind \in Answering THEN {f.target} ELSE {}
    BY <1>1 DEF Answering
  <1>4. /\ Fate(u, m, t, h, z, z, E \cup W, E \cup W) /\ StackIn(m, t)
        /\ f.kind = "getter" => \A i \in 1 .. Len(t) : t[i].kind # "getter"
    <2>1. Fate(u, m, t, h, z, z, E \cup W, E \cup W) /\ StackIn(m, t)
      BY <1>a, <1>2, <1>3, FatePop
    <2>2. ASSUME NEW i \in 1 .. Len(t)
          PROVE  t[i].kind # "getter"
      <3>1. Getters(m, s, h, z) /\ s \in Seq(Frame)
        BY <1>2, <1>a DEF Fate, Shape, Placedly, StackIn
      <3>2. PICK e \in Nat : e = Len(s)
        BY <3>1
      <3>3. e = 1
        BY <3>1, <3>2, <1>b DEF Getters
      <3>4. t = SubSeq(s, 1, 0)
        BY <3>2, <3>3
      <3> QED
        BY <3>1, <3>4
    <2> QED
      BY <2>1, <2>2
  <1>5. E \cup W = W
    BY <1>1
  <1>6. Fate(u, m, t, h, z, z, W, W)
    BY <1>4, <1>5
  <1>7. PairFor(m, k, p) /\ ~Reached(m, h, z, k)
    BY <1>1, <1>2, <1>b DEF Fate, Shape, Getters
  <1>8. /\ k \in 1 .. Len(m.pairs) /\ Ungot(t, k)
        /\ \A r \in Due(m, z) : PairOf(m, r) # k
    BY <1>1, <1>4, <1>7, <1>b DEF Ungot, Reached, FrameIn
  <1>9. Fate(u, m, t, l, z, z, E, W)
    <2>1. \A q \in W : q \in E \/ PairFor(m, k, q)
      BY <1>1, <1>7
    <2>2. Fate(u, m, t, h \cup {k}, z, z, E, W)
      BY <2>1, <1>6, <1>8, FateHold
    <2> QED
      BY <2>2, <1>1
  <1>10. Getting(u) /\ Overriding(u)
    BY <1>b DEF FrameShape, Overriding
  <1>11. g \in Frame /\ g.kind = "then" /\ FrameIn(m, g) /\ FrameShape(u, g)
    <2>1. /\ g \in Frame /\ g.kind = "then" /\ g.target = f.target /\ g.value = f.value
          /\ g.pair = f.pair
      BY <1>b DEF Frame
    <2>2. FrameIn(m, g)
      BY <2>1, <1>b DEF FrameIn
    <2>3. FrameShape(u, g)
      BY <2>1, <1>b, <1>10 DEF FrameShape
    <2> QED
      BY <2>1, <2>2, <2>3
  <1>12. Placedly(m, printed, t, l)
    BY <1>a, <1>4, <1>8, <1>1 DEF Placedly
  <1>13. Fate(u, m, w, l, z, z, E \ E, W \ E)
    <2>1. E = IF g.kind \in Answering THEN {g.target} ELSE {}
      BY <1>1, <1>11 DEF Answering
    <2>2. g.kind # "getter" /\ E \subseteq W
      BY <1>1, <1>11
    <2>3. g \in Frame /\ FrameShape(u, g)
      BY <1>11
    <2> QED
      BY ONLY <2>1, <2>2, <2>3, <1>9, <1>10, <1>12, FatePush, w = Append(t, g)
  <1>14. Fate(u, m, w, l, z, z, E, E)
    <2>1. \A q \in E \ E : q \in E \/ Given(u, m, w, l, z, z, q)
      OBVIOUS
    <2> QED
      BY <2>1, <1>10, <1>13, FateEases
  <1>15. Fate(u, m, w, l, 0, 0, {}, {})
    BY <1>14, <1>1
  <1>16. Placedly(m, printed, w, l)
    BY <1>12, <1>11, StackCall DEF Placedly
  <1> QED
    BY <1>15, <1>16, <1>a, GrowsRefl DEF Moved, Rested, PairsKept

(* A getter answers nothing callable: the object is the fulfilment.        *)
LEMMA GetterFulfils ==
  ASSUME NEW u, NEW m, NEW printed, NEW s, NEW h, Rested(u, m, printed, s, h), s # <<>>,
         NEW f, f = s[Len(s)], f.kind = "getter", NEW p, p = f.target,
         NEW t, t = SubSeq(s, 1, Len(s) - 1),
         NEW n, n = Settle(m, p, "fulfilled", f.value)
  PROVE  Moved(u, m, n, printed, t, h)
  <1>b. FrameShape(u, f) /\ ValueIn(m, f.value) /\ f.value.tag \in Tags(u)
    BY TopShape
  <1>1. PICK z, W : Owing(u, m, printed, t, h, z, W, p)
    <2>1. f.kind \in Answering
      BY DEF Answering
    <2> QED
      BY <2>1, PoppedOwing
  <1>2. At(m, u, m, printed, t, h, z, z, W, W) /\ p \in Promise(m) /\ Free(u, m, p, W)
    BY <1>1 DEF Owing
  <1>3. PICK how, w : how = "fulfilled" /\ w = f.value
    OBVIOUS
  <1>4. how \in Settled /\ ValueIn(m, w) /\ Passed(u, how, w) /\ n = Settle(m, p, how, w)
    BY <1>3, <1>b DEF Settled, Passed, FrameShape
  <1>5. At(m, u, n, printed, t, h, z, z, W \ {p}, W \ {p})
    BY <1>2, <1>4, VSettle
  <1> QED
    BY <1>1, <1>5, OwingPaid

-----------------------------------------------------------------------------
(***************************************************************************)
(* The drain: a reaction taken out.                                        *)
(***************************************************************************)

(* The drain takes a reaction out; what it answers for is the drain's to   *)
(* settle.                                                                 *)
TakenOut(u, m, n, printed, s, h, r, x) ==
  /\ Placedly(n, printed, s, h) /\ TakesAs(m, n) /\ r = Head(m.queue)
  /\ r \in n.taken /\ r \in ReactionId(n) /\ n.reactions[r] = x
  /\ x \in Reaction /\ ReactionIn(n, x) /\ ReactionShape(u, n, x)
(* A settlement to hand on.                                                *)
Answers4(u, n, how, v) ==
  how \in Settled /\ ValueIn(n, v) /\ v.tag \in Tags(u) /\ Passed(u, how, v)

(* The reaction at the head of the queue, taken out.                       *)
LEMMA Takes ==
  ASSUME NEW u, NEW m, NEW printed, NEW s, NEW h, Rested(u, m, printed, s, h),
         m.queue # <<>>, NEW n, n = Take(m), NEW r, r = Head(m.queue),
         NEW x, x = m.reactions[r]
  PROVE  /\ TakenOut(u, m, n, printed, s, h, r, x)
         /\ x.kind # "thenable" => Answers4(u, n, m.state[x.source], m.value[x.source])
  <1>a. Sound(m, printed) /\ MachineOK(m) /\ Placedly(m, printed, s, h)
    BY RestAt
  <1>b. Shape(u, m, s, h, 0)
    BY DEF Rested, Fate
  <1>1. PICK E : E = {}
    OBVIOUS
  <1>2. StateOK(m, printed, s, E, h)
    BY <1>1, <1>a DEF StateOK, Placedly
  <1>3. /\ StateOK(n, printed, s, E, h) /\ x \in Reaction /\ ReactionIn(n, x)
        /\ x.kind # "thenable" => m.state[x.source] \in Settled /\ ValueIn(n, m.value[x.source])
    BY <1>2, StateTakes
  <1>4. TakesAs(m, n)
    BY <1>a, TakeSound
  <1>5. /\ r \in ReactionId(m) /\ ReactionId(n) = ReactionId(m) /\ n.reactions[r] = x
        /\ r \in n.taken /\ n.pairs = m.pairs /\ n.groups = m.groups
    BY <1>4 DEF TakesAs, Waiting, ReactionId
  <1>6. ReactionShape(u, n, x)
    <2>1. ReactionShape(u, m, x)
      BY <1>b, <1>5 DEF Shape, ReactionsShaped
    <2> QED
      BY <2>1, <1>5 DEF ReactionShape, Paired
  <1>7. Placedly(n, printed, s, h)
    BY <1>3 DEF StateOK, Placedly
  <1>8. x.kind # "thenable" => Answers4(u, n, m.state[x.source], m.value[x.source])
    <2> SUFFICES ASSUME x.kind # "thenable"
                 PROVE  Answers4(u, n, m.state[x.source], m.value[x.source])
      OBVIOUS
    <2>1. x.source \in Promise(m)
      BY <1>5, <1>a, SourceIn DEF ReactionIn, Source
    <2> QED
      BY <2>1, <1>3, <1>b DEF Shape, ValuesPass, Answers4, Passed
  <1> QED
    BY <1>3, <1>4, <1>5, <1>6, <1>7, <1>8 DEF TakenOut

(* The taker answers for the target of what it took.                       *)
Owes(u, n, printed, s, h, r, z, W, p) ==
  /\ Placedly(n, printed, s, h) /\ Fate(u, n, s, h, r, z, W, W) /\ z = 0 /\ W = {p}
  /\ p \in Promise(n) /\ W \subseteq Promise(n) /\ (Getting(u) \/ ~Grouped(n, p))

(* Whatever it took, unless it was a member of a group.                    *)
LEMMA TakenOwes ==
  ASSUME NEW u, NEW m, NEW printed, NEW s, NEW h, Rested(u, m, printed, s, h),
         NEW n, NEW r, NEW x, TakenOut(u, m, n, printed, s, h, r, x),
         x.kind # "member", NEW p, p = x.target
  PROVE  \E z, W : Owes(u, n, printed, s, h, r, z, W, p)
  <1>a. Sound(m, printed) /\ MachineOK(m) /\ Placedly(m, printed, s, h)
    BY RestAt
  <1>b. Fate(u, m, s, h, 0, 0, {}, {})
    BY DEF Rested
  <1>1. PICK z, E, W : z = 0 /\ E = {} /\ W = {p}
    OBVIOUS
  <1>2. Fate(u, m, s, h, 0, z, E, E)
    BY <1>1, <1>b
  <1>3. /\ TakesAs(m, n) /\ r = Head(m.queue) /\ m.reactions[r] = x
        /\ r \in Waiting(m) /\ Placedly(n, printed, s, h) /\ n.groups = m.groups
    BY DEF TakenOut, TakesAs
  <1>4. W = IF m.reactions[r].kind = "member" THEN {} ELSE {m.reactions[r].target}
    BY <1>1, <1>3
  <1>5. Fate(u, n, s, h, r, z, E \cup W, E \cup W)
    BY <1>a, <1>2, <1>3, <1>4, FateTake
  <1>6. E \cup W = W
    BY <1>1
  <1>7. p \in Promise(n)
    BY DEF TakenOut, ReactionIn
  <1>8. Getting(u) \/ ~Grouped(n, p)
    <2>1. CASE Owned(m, s)
      <3>1. ReactionFor(m, r, p)
        BY <1>3 DEF ReactionFor
      <3>2. \A g \in 1 .. Len(m.groups) : m.groups[g].result # p
        BY <3>1, <1>3, <2>1 DEF Owned, Untargeted
      <3> QED
        BY <3>2, <1>3 DEF Grouped
    <2> QED
      BY <2>1, <1>b DEF Fate
  <1>9. Owes(u, n, printed, s, h, r, z, W, p)
    BY <1>1, <1>3, <1>5, <1>6, <1>7, <1>8 DEF Owes
  <1> QED
    BY <1>9

(* A reaction that holds no settlers is done with once it was taken.       *)
LEMMA TakenOwing ==
  ASSUME NEW u, NEW m, NEW printed, NEW s, NEW h, Rested(u, m, printed, s, h),
         NEW n, NEW r, NEW x, TakenOut(u, m, n, printed, s, h, r, x),
         x.kind # "member", x.ful.pair = 0, NEW p, p = x.target
  PROVE  \E z, W : Owing(u, n, printed, s, h, z, W, p)
  <1>a. /\ Placedly(n, printed, s, h) /\ MachineOK(n) /\ n.reactions[r] = x
        /\ PairOf(n, r) = 0
    BY DEF TakenOut, Placedly, Sound, PairOf
  <1>1. PICK z, W : Owes(u, n, printed, s, h, r, z, W, p)
    BY TakenOwes
  <1>2. Fate(u, n, s, h, 0, z, W, W)
    <2>1. Fate(u, n, s, h, r, z, W, W) /\ n.reactions[r].kind # "member"
      BY <1>1, <1>a DEF Owes
    <2> QED
      BY <2>1, <1>a, FateDrop
  <1>3. z = 0 /\ W = {p} /\ p \in Promise(n) /\ W \subseteq Promise(n) /\ (Getting(u) \/ ~Grouped(n, p))
    BY <1>1 DEF Owes
  <1>4. At(n, u, n, printed, s, h, z, z, W, W)
    <2>1. Fate(u, n, s, h, z, z, W, W)
      BY <1>2, <1>3
    <2> QED
      BY <2>1, <1>a, KeptRefl DEF At
  <1>5. Owing(u, n, printed, s, h, z, W, p)
    BY <1>3, <1>4 DEF Owing, Free
  <1> QED
    BY <1>5

(* What is owed is settled by the drain itself.                            *)
LEMMA OwingSettles ==
  ASSUME NEW u, NEW m, NEW printed, NEW s, NEW h, NEW z, NEW W, NEW p,
         Owing(u, m, printed, s, h, z, W, p),
         NEW how, NEW v, ValueIn(m, v), v.tag \in Tags(u),
         NEW n, n = SettleThrough(m, p, how, v) \/ n = Reject(m, p, v)
  PROVE  Moved(u, m, n, printed, s, h)
  <1>1. At(m, u, m, printed, s, h, z, z, W, W) /\ p \in Promise(m) /\ Free(u, m, p, W)
    BY DEF Owing
  <1>2. At(m, u, n, printed, s, h, z, z, W \ {p}, W \ {p})
    <2>1. CASE n = SettleThrough(m, p, how, v)
      BY <2>1, <1>1, VSettleThrough
    <2>2. CASE n = Reject(m, p, v)
      BY <2>2, <1>1, VReject
    <2> QED
      BY <2>1, <2>2
  <1> QED
    BY <1>2, OwingPaid

(* What is owed is left to code of the program.                            *)
LEMMA OwingCalls ==
  ASSUME NEW u, NEW m, NEW printed, NEW s, NEW h, NEW z, NEW W, NEW p,
         Owing(u, m, printed, s, h, z, W, p),
         NEW f \in Frame, FrameIn(m, f), f.value.tag \in Tags(u),
         f.kind \in {"handler", "finally", "body"}, f.target = p,
         NEW t, t = Append(s, f)
  PROVE  Moved(u, m, m, printed, t, h)
  <1>1. At(m, u, m, printed, s, h, z, z, W, W) /\ p \in Promise(m) /\ Free(u, m, p, W)
        /\ z = 0 /\ W = {p}
    BY DEF Owing
  <1>2. /\ Sound(m, printed) /\ MachineOK(m) /\ Placedly(m, printed, s, h)
        /\ Fate(u, m, s, h, z, z, W, W)
    BY <1>1, AtFacts
  <1>3. FrameShape(u, f)
    BY DEF FrameShape
  <1>4. Fate(u, m, t, h, z, z, W \ W, W \ W)
    <2>1. W = IF f.kind \in Answering THEN {f.target} ELSE {}
      BY <1>1 DEF Answering
    <2>2. f.kind # "getter" /\ W \subseteq W /\ (Getting(u) \/ ~Grouped(m, f.target))
      BY <1>1 DEF Free
    <2> QED
      BY <2>1, <2>2, <1>2, <1>3, FatePush
  <1>5. W \ W = {}
    OBVIOUS
  <1>6. Fate(u, m, t, h, 0, 0, {}, {})
    BY <1>1, <1>4, <1>5
  <1>7. Placedly(m, printed, t, h)
    BY <1>2, StackCall DEF Placedly
  <1> QED
    BY <1>6, <1>7, <1>2, GrowsRefl DEF Moved, Rested, PairsKept

(* The drain runs a settler.                                               *)
LEMMA FateRunsSettler ==
  ASSUME NEW u, NEW m, NEW printed, NEW s, NEW h, Rested(u, m, printed, s, h),
         NEW n, NEW r, NEW x, TakenOut(u, m, n, printed, s, h, r, x),
         x.kind = "js", NEW p, p = x.target,
         NEW k, k = x.ful.pair, k \in 1 .. Len(n.pairs), NEW f, f.pair = k,
         NEW v, ValueIn(n, v), v.tag \in Tags(u),
         NEW c, c = CallSettler(n, f, v), NEW o, o = Resolve(c, p, Undefined)
  PROVE  IF n.pairs[k].spent THEN Moved(u, n, o, printed, s, h)
         ELSE Moved(u, Spend(n, k), o, printed, s, h)
  <1>a. /\ Placedly(n, printed, s, h) /\ Sound(n, printed) /\ MachineOK(n)
        /\ n.reactions[r] = x /\ PairOf(n, r) = k /\ r \in n.taken /\ r \in ReactionId(n)
    BY DEF TakenOut, Placedly, Sound, PairOf
  <1>1. PICK z, W : Owes(u, n, printed, s, h, r, z, W, p)
    <2>1. x.kind # "member"
      OBVIOUS
    <2> QED
      BY <2>1, TakenOwes
  <1>2. /\ Fate(u, n, s, h, r, z, W, W) /\ z = 0 /\ W = {p} /\ p \in Promise(n)
        /\ (Getting(u) \/ ~Grouped(n, p)) /\ p \in W
    BY <1>1 DEF Owes
  <1>3. CASE n.pairs[k].spent
    <2>1. c = n
      BY <1>3 DEF CallSettler
    <2>2. Fate(u, n, s, h, 0, z, W, W)
      <3>1. n.reactions[r].kind # "member" /\ n.pairs[PairOf(n, r)].spent
        BY <1>a, <1>3
      <3> QED
        BY <3>1, <1>a, <1>2, FateDrop
    <2>3. At(n, u, n, printed, s, h, z, z, W, W)
      <3>1. Fate(u, n, s, h, z, z, W, W)
        BY <2>2, <1>2
      <3> QED
        BY <3>1, <1>a, KeptRefl DEF At
    <2>4. Free(u, n, p, W)
      BY <1>2 DEF Free
    <2>5. At(n, u, o, printed, s, h, z, z, W \ {p}, W \ {p})
      <3>1. ValueIn(n, Undefined) /\ Undefined.tag \in Tags(u)
        BY PlainIn, PlainPassed
      <3>2. o = Resolve(n, p, Undefined)
        BY <2>1
      <3> QED
        BY <3>1, <3>2, <2>3, <2>4, <1>2, VResolve
    <2>6. PICK E : E = W \ {p}
      OBVIOUS
    <2>7. z = 0 /\ E = {} /\ At(n, u, o, printed, s, h, z, z, E, E)
      BY <2>5, <2>6, <1>2
    <2>8. Moved(u, n, o, printed, s, h)
      BY <2>7, AtRest
    <2> QED
      BY <2>8, <1>3
  <1>4. CASE ~n.pairs[k].spent
    <2>1. PICK b : b = Spend(n, k)
      OBVIOUS
    <2>2. Ungot(s, k)
      <3>1. Reached(n, h, r, k)
        BY <1>a DEF Reached, Due
      <3> QED
        BY <3>1, <1>2 DEF Fate, Shape, Getters, Ungot
    <2>3. At(b, u, c, printed, s, h, r, z, W, W)
      BY <2>1, <2>2, <1>a, <1>2, <1>4, VCallSettler
    <2>4. /\ Kept(b, c) /\ MachineOK(c) /\ Sound(c, printed) /\ Placedly(c, printed, s, h)
          /\ Fate(u, c, s, h, r, z, W, W)
      BY <2>3, AtFacts
    <2>5. /\ b.reactions = n.reactions /\ b.groups = n.groups /\ b.state = n.state
          /\ Len(b.pairs) = Len(n.pairs) /\ b.pairs[k].spent
      <3>1. n.pairs \in Seq(Pair) /\ n \in Machine
        BY <1>a, FieldTypes DEF MachineOK
      <3>2. n.pairs[k] \in Pair
        BY <3>1, ElementOfSeq
      <3>3. b = [n EXCEPT !.pairs = [n.pairs EXCEPT ![k].spent = TRUE]]
        BY <2>1 DEF Spend
      <3> QED
        BY <3>1, <3>2, <3>3 DEF Machine, Pair
    <2>6. c.reactions[r] = x /\ c.pairs[k].spent
      BY <2>4, <2>5, <1>a DEF Kept, Grows, ReactionId
    <2>7. Fate(u, c, s, h, 0, z, W, W)
      <3>1. c.reactions[r].kind # "member" /\ PairOf(c, r) = k
        BY <2>6 DEF PairOf
      <3>2. c.pairs[PairOf(c, r)].spent
        BY <3>1, <2>6
      <3> QED
        BY <3>1, <3>2, <2>4, FateDrop
    <2>8. At(b, u, c, printed, s, h, z, z, W, W)
      <3>1. Fate(u, c, s, h, z, z, W, W)
        BY <2>7, <1>2
      <3> QED
        BY <3>1, <2>4 DEF At
    <2>9. Free(u, b, p, W) /\ p \in Promise(c)
      <3>1. Len(n.state) <= Len(c.state) /\ Len(n.state) \in Nat /\ Len(c.state) \in Nat
        BY <2>4, <2>5, <1>a, FieldTypes DEF Kept, Grows
      <3>2. p \in Promise(c)
        BY <3>1, <1>2 DEF Promise
      <3> QED
        BY <3>2, <2>5, <1>2 DEF Free, Grouped
    <2>10. At(b, u, o, printed, s, h, z, z, W \ {p}, W \ {p})
      <3>1. ValueIn(c, Undefined) /\ Undefined.tag \in Tags(u)
        BY PlainIn, PlainPassed
      <3> QED
        BY <3>1, <2>8, <2>9, VResolve
    <2>11. PICK E : E = W \ {p}
      OBVIOUS
    <2>12. z = 0 /\ E = {} /\ At(b, u, o, printed, s, h, z, z, E, E)
      BY <2>10, <2>11, <1>2
    <2>13. Moved(u, b, o, printed, s, h)
      BY <2>12, AtRest
    <2> QED
      BY <2>13, <2>1, <1>4
  <1> QED
    BY <1>3, <1>4

(* The drain runs the job that adopts a promise.                           *)
LEMMA FateAdopts ==
  ASSUME NEW u, NEW m, NEW printed, NEW s, NEW h, NEW z, NEW W, NEW p,
         Owing(u, m, printed, s, h, z, W, p), NEW q \in Promise(m),
         NEW n, n = AdoptPromise(m, p, q)
  PROVE  Moved(u, m, n, printed, s, h) /\ Handing(n, p, q)
  <1>1. /\ At(m, u, m, printed, s, h, z, z, W, W) /\ p \in Promise(m) /\ Free(u, m, p, W)
        /\ W \subseteq Promise(m)
    BY DEF Owing
  <1>2. At(m, u, n, printed, s, h, z, z, W \ {p}, W \ {p})
    BY <1>1, VAdopt
  <1>3. Moved(u, m, n, printed, s, h)
    BY <1>2, OwingPaid
  <1>4. Handing(n, p, q)
    BY <1>1, VAdopt
  <1> QED
    BY <1>3, <1>4

(* The drain runs the job that adopts an object: its `then' is called with *)
(* settlers of its own, or read first.                                     *)
LEMMA FateReads ==
  ASSUME NEW u, NEW m, NEW printed, NEW s, NEW h, NEW z, NEW W, NEW p,
         Owing(u, m, printed, s, h, z, W, p), s = <<>>,
         NEW k, k = Len(m.pairs) + 1, NEW v, ValueIn(m, v), v.tag \in Tags(u), v.tag = "getter",
         NEW f, f = NewFrame("getter", p, k, "fulfilled", v), NEW t, t = Append(s, f),
         NEW n, n = OpenPair(m, p)
  PROVE  Moved(u, m, n, printed, t, h)
  <1>1. /\ At(m, u, m, printed, s, h, z, z, W, W) /\ p \in Promise(m) /\ Free(u, m, p, W)
        /\ z = 0 /\ W = {p} /\ p \in W
    BY DEF Owing
  <1>2. /\ Sound(m, printed) /\ MachineOK(m) /\ Placedly(m, printed, s, h)
        /\ Fate(u, m, s, h, z, z, W, W)
    BY <1>1, AtFacts
  <1>3. Fate(u, n, s, h, z, z, W, W \ {p}) /\ Fresh(n, s, h, z, k, p)
    BY <1>1, <1>2, FatePairOpened DEF Free
  <1>4. Evolves(m, n, printed) /\ PairsKept(m, n) /\ n.groups = m.groups
    BY <1>1, <1>2, OpenPairSound, PairOpenedKeeps
  <1>5. /\ MachineOK(n) /\ p \in Promise(n) /\ ValueIn(n, v) /\ Keeps(m, n)
    BY <1>1, <1>2, <1>4, EvolvesKeeps DEF Evolves, Sound, Keeps
  <1>6. Placedly(n, printed, s, h)
    <2>1. StackIn(n, s)
      BY <1>5, <1>2, StackKeeps DEF Placedly
    <2> QED
      BY <2>1, <1>2, <1>4, <1>5 DEF Placedly, Keeps, Evolves
  <1>7. /\ k \in 1 .. Len(n.pairs) /\ PairFor(n, k, p) /\ ~Reached(n, h, z, k)
    BY <1>3 DEF Fresh
  <1>8. Getting(u) /\ Overriding(u)
    BY DEF Tags, Getting, Overriding
  <1>9. /\ f \in Frame /\ FrameIn(n, f) /\ f.kind = "getter" /\ f.value = v
        /\ f.target = p /\ f.pair = k
    <2>1. p \in Nat /\ k \in Nat /\ v \in Value
      BY <1>5, <1>7, FieldTypes DEF Promise, ValueIn
    <2>2. f \in Frame /\ f.kind = "getter" /\ f.value = v /\ f.target = p /\ f.pair = k
      BY <2>1 DEF NewFrame, Frame, Settled
    <2> QED
      BY <2>2, <1>5, <1>7 DEF FrameIn
  <1>10. FrameShape(u, f)
    BY <1>8, <1>9 DEF FrameShape
  <1>11. PICK Y : Y = W \ {p}
    OBVIOUS
  <1>12. Fate(u, n, t, h, z, z, W \ W, Y \ W)
    <2>1. W = IF f.kind \in Answering THEN {f.target} ELSE {}
      BY <1>1, <1>9 DEF Answering
    <2>2. PairFor(n, f.pair, f.target) /\ ~Reached(n, h, z, f.pair)
      BY <1>7, <1>9
    <2>3. Fate(u, n, s, h, z, z, W, Y)
      BY <1>3, <1>11
    <2> QED
      BY <2>1, <2>2, <2>3, <1>6, <1>8, <1>9, <1>10, FatePush
  <1>13. W \ W = {} /\ Y \ W = {}
    BY <1>11
  <1>14. Fate(u, n, t, h, 0, 0, {}, {})
    BY <1>1, <1>12, <1>13
  <1>15. Placedly(n, printed, t, h)
    BY <1>6, <1>9, StackCall DEF Placedly
  <1> QED
    BY <1>4, <1>14, <1>15 DEF Moved, Rested, Evolves

(* The drain calls the `then' of a thenable.                               *)
LEMMA FateCallsThen ==
  ASSUME NEW u, NEW m, NEW printed, NEW s, NEW h, NEW z, NEW W, NEW p,
         Owing(u, m, printed, s, h, z, W, p),
         NEW k, k = Len(m.pairs) + 1, NEW v, ValueIn(m, v), v.tag \in Tags(u),
         v.tag = "thenable",
         NEW f, f = NewFrame("then", p, k, "fulfilled", v), NEW t, t = Append(s, f),
         NEW n, n = OpenPair(m, p), NEW l, l = h \cup {k}
  PROVE  Moved(u, m, n, printed, t, l)
  <1>1. /\ At(m, u, m, printed, s, h, z, z, W, W) /\ p \in Promise(m) /\ Free(u, m, p, W)
        /\ z = 0 /\ W = {p} /\ p \in W
    BY DEF Owing
  <1>2. /\ Sound(m, printed) /\ MachineOK(m) /\ Placedly(m, printed, s, h)
        /\ Fate(u, m, s, h, z, z, W, W)
    BY <1>1, AtFacts
  <1>3. Fate(u, n, s, h, z, z, W, W \ {p}) /\ Fresh(n, s, h, z, k, p)
    BY <1>1, <1>2, FatePairOpened DEF Free
  <1>4. Evolves(m, n, printed) /\ PairsKept(m, n) /\ n.groups = m.groups
    BY <1>1, <1>2, OpenPairSound, PairOpenedKeeps
  <1>5. /\ MachineOK(n) /\ p \in Promise(n) /\ ValueIn(n, v) /\ Keeps(m, n)
    BY <1>1, <1>2, <1>4, EvolvesKeeps DEF Evolves, Sound, Keeps
  <1>7. /\ k \in 1 .. Len(n.pairs) /\ PairFor(n, k, p) /\ Ungot(s, k)
        /\ \A r \in Due(n, z) : PairOf(n, r) # k
    BY <1>3 DEF Fresh, Reached
  <1>6. Placedly(n, printed, s, l)
    <2>1. StackIn(n, s)
      BY <1>5, <1>2, StackKeeps DEF Placedly
    <2> QED
      BY <2>1, <1>2, <1>4, <1>5, <1>7 DEF Placedly, Keeps, Evolves
  <1>8. Overriding(u)
    BY DEF Tags, Overriding
  <1>9. /\ f \in Frame /\ FrameIn(n, f) /\ f.kind = "then" /\ f.value = v
        /\ f.target = p /\ f.pair = k
    <2>1. p \in Nat /\ k \in Nat /\ v \in Value
      BY <1>5, <1>7, FieldTypes DEF Promise, ValueIn
    <2>2. f \in Frame /\ f.kind = "then" /\ f.value = v /\ f.target = p /\ f.pair = k
      BY <2>1 DEF NewFrame, Frame, Settled
    <2> QED
      BY <2>2, <1>5, <1>7 DEF FrameIn
  <1>10. FrameShape(u, f)
    <2>1. "thenable" \in u.offered
      BY DEF Tags
    <2> QED
      BY <2>1, <1>9 DEF FrameShape
  <1>11. PICK Y, E : Y = W \ {p} /\ E = {}
    <2>1. \E Y, E : Y = W \ {p} /\ E = {}
      OBVIOUS
    <2> QED
      BY <2>1
  <1>12. Fate(u, n, s, l, z, z, E, Y)
    <2>1. \A q \in W : q \in E \/ PairFor(n, k, q)
      BY <1>1, <1>7
    <2>2. Fate(u, n, s, h, z, z, W, Y)
      BY <1>3, <1>11
    <2>3. Fate(u, n, s, h \cup {k}, z, z, E, Y)
      BY <2>1, <2>2, <1>7, FateHold
    <2> QED
      BY <2>3
  <1>13. Fate(u, n, t, l, z, z, E \ E, Y \ E)
    <2>1. E = IF f.kind \in Answering THEN {f.target} ELSE {}
      BY <1>11, <1>9 DEF Answering
    <2>2. f.kind # "getter" /\ E \subseteq Y /\ (Getting(u) \/ ~Grouped(n, f.target))
      BY <1>1, <1>4, <1>9, <1>11 DEF Free, Grouped
    <2> QED
      BY <2>1, <2>2, <1>6, <1>8, <1>9, <1>10, <1>12, FatePush
  <1>14. E \ E = {} /\ Y \ E = {}
    BY <1>1, <1>11
  <1>15. Fate(u, n, t, l, 0, 0, {}, {})
    BY <1>1, <1>13, <1>14
  <1>16. Placedly(n, printed, t, l)
    BY <1>6, <1>9, StackCall DEF Placedly
  <1> QED
    BY <1>4, <1>15, <1>16 DEF Moved, Rested, Evolves

(* The drain lets a member report to its group.                            *)
LEMMA FateReports ==
  ASSUME NEW u, NEW m, NEW printed, NEW s, NEW h, Rested(u, m, printed, s, h),
         NEW n, NEW r, NEW x, TakenOut(u, m, n, printed, s, h, r, x),
         x.kind = "member", NEW q, q = x.source,
         NEW o, o = Advance(n, x.group, x.slot, n.state[q], n.value[q])
  PROVE  Moved(u, n, o, printed, s, h)
  <1>a. Sound(m, printed) /\ MachineOK(m) /\ Placedly(m, printed, s, h)
    BY RestAt
  <1>b. Fate(u, m, s, h, 0, 0, {}, {})
    BY DEF Rested
  <1>c. /\ Placedly(n, printed, s, h) /\ Sound(n, printed) /\ MachineOK(n)
        /\ TakesAs(m, n) /\ r = Head(m.queue) /\ r \in n.taken /\ n.reactions[r] = x
        /\ m.reactions[r] = x /\ ReactionIn(n, x) /\ r \in ReactionId(n)
    BY DEF TakenOut, Placedly, Sound, TakesAs
  <1>1. PICK z, E : z = 0 /\ E = {}
    OBVIOUS
  <1>2. Fate(u, m, s, h, 0, z, E, E)
    BY <1>1, <1>b
  <1>3. E = IF m.reactions[r].kind = "member" THEN {} ELSE {m.reactions[r].target}
    BY <1>1, <1>c
  <1>4. Fate(u, n, s, h, r, z, E \cup E, E \cup E)
    BY <1>a, <1>2, <1>3, <1>c, FateTake
  <1>5. Fate(u, n, s, h, r, 0, {}, {})
    <2>1. E \cup E = {}
      BY <1>1
    <2> QED
      BY <2>1, <1>1, <1>4
  <1>6. PICK g, i : g = x.group /\ i = x.slot
    OBVIOUS
  <1>7. Turn(u, n, printed, s, h, r, g)
    BY <1>5, <1>6, <1>c DEF Turn, MemberOf, ReactionIn
  <1>8. Source(n, r) = q /\ n.reactions[r].slot = i
    BY <1>6, <1>c DEF Source
  <1>9. Fate(u, o, s, h, 0, 0, {}, {}) /\ o.pairs = n.pairs
    BY <1>6, <1>7, <1>8, VAdvance
  <1>10. Evolves(n, o, printed)
    <2>1. g \in 1 .. Len(n.groups) /\ i \in 1 .. Len(n.groups[g].values) /\ q \in Promise(n)
      BY <1>6, <1>c DEF ReactionIn
    <2>2. ValueIn(n, n.value[q])
      BY <2>1, <1>c DEF MachineOK
    <2> QED
      BY <2>1, <2>2, <1>6, <1>c, AdvanceEvolves
  <1>11. Placedly(o, printed, s, h)
    <2>1. Keeps(n, o)
      BY <1>c, <1>10, EvolvesKeeps DEF Keeps
    <2>2. StackIn(o, s)
      BY <2>1, <1>c, StackKeeps DEF Placedly
    <2> QED
      BY <2>1, <2>2, <1>10, <1>c DEF Placedly, Keeps, Evolves
  <1> QED
    BY <1>9, <1>10, <1>11 DEF Moved, Rested, PairsKept, Evolves

-----------------------------------------------------------------------------
(***************************************************************************)
(* Adoption across a step of the drain.                                    *)
(***************************************************************************)

(* Every adopted promise but the one whose job the drain has in hand.      *)
AdoptedBut(m, e) == \A r \in AdoptionJobs(m) :
  r \in m.taken /\ r # e => \E k \in 1 .. Len(m.pairs) : AdoptedBy(m, r, k)

(* A reaction is taken out: what others wait to hand over is still there.  *)
LEMMA AdoptedTaken ==
  ASSUME NEW m, MachineOK(m), NEW n, TakesAs(m, n), NEW r, r = Head(m.queue),
         NEW j \in AdoptionJobs(m), NEW k \in 1 .. Len(m.pairs), AdoptedBy(m, j, k),
         PairOf(m, r) # k \/ m.pairs[k].spent
  PROVE  AdoptedBy(n, j, k)
  <1>1. /\ n.state = m.state /\ n.value = m.value /\ n.pairs = m.pairs
        /\ n.reactions = m.reactions /\ n.taken = m.taken \cup {r}
    BY DEF TakesAs
  <1>2. CASE m.pairs[k].spent
    BY <1>1, <1>2 DEF AdoptedBy, SameOutcome
  <1>3. CASE ~m.pairs[k].spent
    <2>1. PICK w \in Waiting(m) : PairOf(m, w) = k /\ Source(m, w) = m.reactions[j].value.id
      BY <1>3 DEF AdoptedBy
    <2>2. w # r
      BY <2>1, <1>3
    <2>3. w \in Waiting(n) /\ PairOf(n, w) = k /\ Source(n, w) = n.reactions[j].value.id
      BY <2>1, <2>2, <1>1 DEF Waiting, ReactionId, PairOf, Source
    <2> QED
      BY <2>3, <1>1, <1>3 DEF AdoptedBy
  <1> QED
    BY <1>2, <1>3

(* Taking out one that carries no settler.                                 *)
LEMMA AdoptedButTaken ==
  ASSUME NEW m, MachineOK(m), Adopted(m), NEW n, TakesAs(m, n), NEW r, r = Head(m.queue),
         PairOf(m, r) = 0
  PROVE  AdoptedBut(n, r)
  <1>1. /\ n.pairs = m.pairs /\ n.reactions = m.reactions /\ n.taken = m.taken \cup {r}
    BY DEF TakesAs
  <1>2. SUFFICES ASSUME NEW j \in AdoptionJobs(n), j \in n.taken, j # r
                 PROVE  \E k \in 1 .. Len(n.pairs) : AdoptedBy(n, j, k)
    BY DEF AdoptedBut
  <1>3. j \in AdoptionJobs(m) /\ j \in m.taken
    BY <1>1, <1>2 DEF AdoptionJobs, ReactionId
  <1>4. PICK k \in 1 .. Len(m.pairs) : AdoptedBy(m, j, k)
    BY <1>3 DEF Adopted
  <1>5. PairOf(m, r) # k
    BY <1>4, FieldTypes
  <1>6. AdoptedBy(n, j, k)
    BY <1>3, <1>4, <1>5, AdoptedTaken
  <1> QED
    BY <1>1, <1>4, <1>6

(* A step of the drain that runs a reaction without settlers.              *)
LEMMA DrainAdopted ==
  ASSUME NEW m, MachineOK(m), Adopted(m), NEW n, TakesAs(m, n), NEW r, r = Head(m.queue),
         PairOf(m, r) = 0, MachineOK(n), NEW o, MachineOK(o), Grows(n, o), PairsKept(n, o),
         \/ r \notin AdoptionJobs(m)
         \/ Handing(o, m.reactions[r].target, m.reactions[r].value.id)
  PROVE  Adopted(o)
  <1>1. AdoptedBut(n, r)
    BY AdoptedButTaken
  <1>2. /\ o.taken = n.taken /\ n.taken \subseteq ReactionId(n)
        /\ 1 .. Len(n.pairs) \subseteq 1 .. Len(o.pairs)
        /\ \A j \in ReactionId(n) : o.reactions[j] = n.reactions[j]
    BY FieldTypes DEF Grows, MachineOK
  <1>3. n.reactions = m.reactions /\ ReactionId(n) = ReactionId(m)
    BY DEF TakesAs, ReactionId
  <1>4. SUFFICES ASSUME NEW j \in AdoptionJobs(o), j \in o.taken
                 PROVE  \E k \in 1 .. Len(o.pairs) : AdoptedBy(o, j, k)
    BY DEF Adopted
  <1>5. j \in ReactionId(n) /\ j \in n.taken /\ o.reactions[j] = n.reactions[j]
    BY <1>2, <1>4
  <1>6. j \in AdoptionJobs(n) /\ j \in AdoptionJobs(m)
    BY <1>3, <1>4, <1>5 DEF AdoptionJobs
  <1>7. CASE j # r
    <2>1. PICK k \in 1 .. Len(n.pairs) : AdoptedBy(n, j, k)
      BY <1>1, <1>5, <1>6, <1>7 DEF AdoptedBut
    <2>2. o.pairs[k] = n.pairs[k]
      BY <2>1 DEF PairsKept
    <2>3. AdoptedBy(o, j, k)
      BY <2>1, <2>2, <1>6, AdoptedStays
    <2> QED
      BY <2>1, <2>3, <1>2
  <1>8. CASE j = r
    <2>1. Handing(o, m.reactions[r].target, m.reactions[r].value.id)
      BY <1>6, <1>8
    <2>2. o.reactions[j] = m.reactions[r]
      BY <1>3, <1>5, <1>8
    <2>3. Handing(o, o.reactions[j].target, o.reactions[j].value.id)
      BY <2>1, <2>2
    <2> QED
      BY <2>3 DEF Handing, AdoptedBy
  <1> QED
    BY <1>7, <1>8

(* A settler the drain runs gives the promise of its pair the outcome of   *)
(* the one it waited on.                                                   *)
Hands(n, k, a, how, v, f) ==
  /\ k \in 1 .. Len(n.pairs) /\ ~n.pairs[k].spent /\ a = n.pairs[k].promise
  /\ n.state[a] = "pending" /\ how \in Settled /\ v \in Value
  /\ how = "fulfilled" => v.tag = "plain"
  /\ f = IF how = "fulfilled" THEN ResolveFn(k) ELSE RejectFn(k)

(* A settler hands on the settlement it was given.                         *)
LEMMA SettlerHands ==
  ASSUME NEW n, MachineOK(n), NEW k, NEW a, NEW how, NEW v, NEW f, Hands(n, k, a, how, v, f),
         NEW c, c = CallSettler(n, f, v)
  PROVE  a \in Promise(n) /\ c.state[a] = how /\ c.value[a] = v
  <1>0. /\ k \in 1 .. Len(n.pairs) /\ ~n.pairs[k].spent /\ a = n.pairs[k].promise
        /\ n.state[a] = "pending" /\ how \in Settled /\ v \in Value
        /\ how = "fulfilled" => v.tag = "plain"
        /\ f = IF how = "fulfilled" THEN ResolveFn(k) ELSE RejectFn(k)
    BY DEF Hands
  <1>1. PICK b : b = Spend(n, k)
    OBVIOUS
  <1>2. a \in Promise(n)
    BY <1>0 DEF MachineOK
  <1>3. f.pair = k /\ (how = "fulfilled" => f.kind = "resolve") /\ (how = "rejected" => f.kind = "reject")
    BY <1>0 DEF ResolveFn, RejectFn
  <1>4. c = IF f.kind = "resolve" THEN Resolve(b, a, v) ELSE Reject(b, a, v)
    BY <1>0, <1>1, <1>3 DEF CallSettler, Spend
  <1>5. c = Settle(b, a, how, v)
    <2>1. CASE how = "fulfilled"
      BY <2>1, <1>0, <1>3, <1>4 DEF Resolve
    <2>2. CASE how = "rejected"
      BY <2>2, <1>3, <1>4 DEF Reject
    <2> QED
      BY <2>1, <2>2, <1>0 DEF Settled
  <1>6. b.state = n.state /\ b.value = n.value /\ b.waiters = n.waiters /\ b \in Machine
    <2>1. n.pairs \in Seq(Pair) /\ n \in Machine
      BY FieldTypes DEF MachineOK
    <2>2. n.pairs[k] \in Pair
      BY <2>1, <1>0, ElementOfSeq
    <2>3. b = [n EXCEPT !.pairs = [n.pairs EXCEPT ![k].spent = TRUE]]
      BY <1>1 DEF Spend
    <2>4. [n.pairs EXCEPT ![k].spent = TRUE] \in Seq(Pair)
      <3>1. [n.pairs[k] EXCEPT !.spent = TRUE] \in Pair
        BY <2>2 DEF Pair
      <3>2. [n.pairs EXCEPT ![k].spent = TRUE] = [n.pairs EXCEPT ![k] = [n.pairs[k] EXCEPT !.spent = TRUE]]
        BY <2>1
      <3> QED
        BY <2>1, <3>1, <3>2, <1>0, ExceptSeq
    <2> QED
      BY <2>1, <2>3, <2>4 DEF Machine
  <1>7. c.state = [b.state EXCEPT ![a] = how] /\ c.value = [b.value EXCEPT ![a] = v]
    BY <1>0, <1>5, <1>6 DEF Settle, Machine
  <1>8. a \in DOMAIN b.state /\ a \in DOMAIN b.value
    <2>1. n.state \in Seq(State) /\ n.value \in Seq(Value) /\ Len(n.value) = Len(n.state)
      BY FieldTypes
    <2> QED
      BY <2>1, <1>2, <1>6 DEF Promise
  <1> QED
    BY <1>2, <1>7, <1>8

(* A program that overrides nothing: a promise whose pair is unspent is    *)
(* pending, and a fulfilment is a plain value.                             *)
LEMMA Unspent ==
  ASSUME NEW u, NEW m, NEW printed, NEW s, NEW h, Rested(u, m, printed, s, h),
         ~Overriding(u), NEW k \in 1 .. Len(m.pairs), ~m.pairs[k].spent
  PROVE  /\ m.state[m.pairs[k].promise] = "pending"
         /\ \A q \in Promise(m) : m.state[q] = "fulfilled" => m.value[q].tag = "plain"
         /\ \A r, w \in Waiting(m) : PairOf(m, r) = k /\ PairOf(m, w) = k => r = w
  <1>a. MachineOK(m) /\ Fate(u, m, s, h, 0, 0, {}, {})
    BY RestAt DEF Rested
  <1>1. PICK Y : Y = {}
    OBVIOUS
  <1>2. Sole(m, s, Y) /\ ValuesPass(u, m) /\ Handed(m, h, 0) /\ ~Getting(u)
    BY <1>a, <1>1 DEF Fate, Shape, Overriding
  <1>3. PICK p : p = m.pairs[k].promise
    OBVIOUS
  <1>4. p \in Promise(m) /\ PairFor(m, k, p)
    BY <1>a, <1>3 DEF MachineOK, PairFor
  <1>5. <<"pair", k>> \in Claims(m, s, p)
    BY <1>4 DEF Claims
  <1>6. m.state[p] = "pending"
    BY <1>2, <1>4, <1>5 DEF Sole
  <1>7. \A q \in Promise(m) : m.state[q] = "fulfilled" => m.value[q].tag = "plain"
    BY <1>2 DEF ValuesPass
  <1>8. ASSUME NEW r \in Waiting(m), NEW w \in Waiting(m), PairOf(m, r) = k, PairOf(m, w) = k
        PROVE  r = w
    <2>1. r \in Due(m, 0) /\ w \in Due(m, 0)
      BY <1>8 DEF Waiting, Due
    <2>2. k # 0
      BY <1>a, FieldTypes
    <2> QED
      BY <2>1, <2>2, <1>2, <1>8 DEF Handed
  <1> QED
    BY <1>3, <1>6, <1>7, <1>8

(* What growing keeps.                                                     *)
LEMMA GrowsFacts ==
  ASSUME NEW m, MachineOK(m), NEW n, MachineOK(n), Grows(m, n)
  PROVE  /\ n.taken = m.taken /\ m.taken \subseteq ReactionId(m)
         /\ 1 .. Len(m.pairs) \subseteq 1 .. Len(n.pairs)
         /\ \A j \in ReactionId(m) : n.reactions[j] = m.reactions[j]
  BY FieldTypes DEF Grows, MachineOK

(* One pair spent.                                                         *)
SpendsAs(m, b, k) ==
  /\ \A i \in 1 .. Len(m.pairs) : i # k => b.pairs[i] = m.pairs[i]
  /\ b.pairs[k].spent /\ b.pairs[k].promise = m.pairs[k].promise
  /\ Len(b.pairs) = Len(m.pairs)

(* Spending a pair spends that one alone.                                  *)
LEMMA SpendFields ==
  ASSUME NEW m, MachineOK(m), NEW k \in 1 .. Len(m.pairs), NEW b, b = Spend(m, k)
  PROVE  SpendsAs(m, b, k)
  <1>1. m.pairs \in Seq(Pair) /\ m \in Machine
    BY FieldTypes DEF MachineOK
  <1>2. m.pairs[k] \in Pair
    BY <1>1, ElementOfSeq
  <1>3. b = [m EXCEPT !.pairs = [m.pairs EXCEPT ![k].spent = TRUE]]
    BY DEF Spend
  <1> QED
    BY <1>1, <1>2, <1>3 DEF Machine, Pair, SpendsAs

(* A settler that ran has handed its outcome on.                           *)
LEMMA SettlerAdopted ==
  ASSUME NEW u, NEW m, NEW printed, NEW s, NEW h, Rested(u, m, printed, s, h),
         ~Overriding(u), Adopted(m),
         NEW n, NEW r, NEW x, TakenOut(u, m, n, printed, s, h, r, x),
         x.kind = "js", NEW p, p = x.target,
         NEW k, k = x.ful.pair, k \in 1 .. Len(n.pairs),
         x.ful = ResolveFn(k), x.rej = RejectFn(k),
         NEW how, how = m.state[x.source], NEW v, v = m.value[x.source],
         Answers4(u, n, how, v),
         NEW f, f = IF how = "fulfilled" THEN x.ful ELSE x.rej,
         NEW c, c = CallSettler(n, f, v), NEW o, o = Resolve(c, p, Undefined)
  PROVE  Adopted(o)
  <1>a. /\ MachineOK(m) /\ Sound(n, printed) /\ MachineOK(n) /\ TakesAs(m, n)
        /\ r = Head(m.queue) /\ r \in Waiting(m) /\ m.reactions[r] = x
        /\ n.state = m.state /\ n.value = m.value /\ n.pairs = m.pairs
        /\ n.reactions = m.reactions /\ n.taken = m.taken \cup {r}
    BY RestAt DEF TakenOut, Placedly, Sound, TakesAs
  <1>b. f.pair = k /\ PairOf(m, r) = k /\ PairOf(n, r) = k
    BY <1>a DEF ResolveFn, RejectFn, PairOf
  <1>1. how \in Settled /\ ValueIn(n, v) /\ x.source \in Promise(m) /\ v.tag \in Tags(u)
    <2>1. x.source \in Promise(m)
      BY <1>a, SourceIn DEF ReactionIn, Source, Waiting
    <2> QED
      BY <2>1 DEF Answers4
  <1>2. Evolves(n, c, printed) /\ Sound(c, printed)
    BY <1>a, <1>b, <1>1, CallSettlerEvolves DEF Evolves
  <1>3. p \in Promise(n) /\ p \in Promise(c)
    BY <1>a, <1>2, EvolvesKeeps DEF TakenOut, ReactionIn
  <1>4. Evolves(c, o, printed)
    BY <1>2, <1>3, PlainIn, ResolveEvolves
  <1>5. Grows(n, o) /\ MachineOK(o) /\ MachineOK(c) /\ Grows(c, o)
    BY <1>a, <1>2, <1>4, EvolvesTrans DEF Evolves, Sound
  <1>6. IF n.pairs[k].spent THEN Moved(u, n, o, printed, s, h)
        ELSE Moved(u, Spend(n, k), o, printed, s, h)
    BY <1>b, <1>1, FateRunsSettler
  <1>7. \A i \in 1 .. Len(n.pairs) : i # k \/ n.pairs[k].spent => o.pairs[i] = n.pairs[i]
    <2>1. CASE n.pairs[k].spent
      BY <2>1, <1>6 DEF Moved, PairsKept
    <2>2. CASE ~n.pairs[k].spent
      <3>2. PICK b : b = Spend(n, k)
        OBVIOUS
      <3>3. /\ \A i \in 1 .. Len(n.pairs) : i # k => b.pairs[i] = n.pairs[i]
            /\ Len(b.pairs) = Len(n.pairs)
        <4>1. SpendsAs(n, b, k)
          BY <3>2, <1>a, SpendFields
        <4> QED
          BY <4>1 DEF SpendsAs
      <3>4. Moved(u, b, o, printed, s, h)
        BY <2>2, <3>2, <1>6
      <3> QED
        BY <3>3, <3>4, <2>2 DEF Moved, PairsKept
    <2> QED
      BY <2>1, <2>2
  <1>8. ~n.pairs[k].spent => o.pairs[k].spent /\ o.pairs[k].promise = n.pairs[k].promise
    <2> SUFFICES ASSUME ~n.pairs[k].spent
                 PROVE  o.pairs[k].spent /\ o.pairs[k].promise = n.pairs[k].promise
      OBVIOUS
    <2>3. PICK b : b = Spend(n, k)
      OBVIOUS
    <2>5. /\ b.pairs[k].spent /\ b.pairs[k].promise = n.pairs[k].promise
          /\ Len(b.pairs) = Len(n.pairs)
      <3>1. SpendsAs(n, b, k)
        BY <2>3, <1>a, SpendFields
      <3> QED
        BY <3>1 DEF SpendsAs
    <2>6. Moved(u, b, o, printed, s, h)
      BY <2>3, <1>6
    <2> QED
      BY <2>5, <2>6 DEF Moved, PairsKept
  <1>9. /\ o.taken = n.taken /\ n.taken \subseteq ReactionId(n)
        /\ 1 .. Len(n.pairs) \subseteq 1 .. Len(o.pairs)
        /\ \A j \in ReactionId(n) : o.reactions[j] = n.reactions[j]
    BY <1>a, <1>5, GrowsFacts
  <1>10. SUFFICES ASSUME NEW j \in AdoptionJobs(o), j \in o.taken
                  PROVE  \E i \in 1 .. Len(o.pairs) : AdoptedBy(o, j, i)
    BY DEF Adopted
  <1>11. j \in ReactionId(n) /\ o.reactions[j] = n.reactions[j] /\ ReactionId(n) = ReactionId(m)
    BY <1>9, <1>10, <1>a DEF ReactionId
  <1>12. j \in AdoptionJobs(m) /\ j \in AdoptionJobs(n) /\ j \in m.taken
    <2>1. j \in AdoptionJobs(m) /\ j \in AdoptionJobs(n)
      BY <1>10, <1>11, <1>a DEF AdoptionJobs
    <2>2. j # r
      BY <2>1, <1>a DEF AdoptionJobs
    <2> QED
      BY <2>1, <2>2, <1>9, <1>10, <1>a
  <1>13. PICK i \in 1 .. Len(m.pairs) : AdoptedBy(m, j, i)
    BY <1>12 DEF Adopted
  <1>14. CASE i # k \/ n.pairs[k].spent
    <2>1. AdoptedBy(n, j, i)
      <3>1. PairOf(m, r) # i \/ m.pairs[i].spent
        BY <1>14, <1>a, <1>b
      <3> QED
        BY <3>1, <1>a, <1>12, <1>13, AdoptedTaken
    <2>2. o.pairs[i] = n.pairs[i] /\ i \in 1 .. Len(n.pairs)
      BY <1>7, <1>13, <1>14, <1>a
    <2>3. AdoptedBy(o, j, i)
      BY <2>1, <2>2, <1>a, <1>5, <1>12, AdoptedStays
    <2> QED
      BY <2>2, <2>3, <1>9
  <1>15. CASE i = k /\ ~n.pairs[k].spent
    <2>1. PICK a : a = n.pairs[k].promise
      OBVIOUS
    <2>2. PICK q : q = m.reactions[j].value.id
      OBVIOUS
    <2>3. /\ m.pairs[k].promise = m.reactions[j].target
          /\ \E w \in Waiting(m) : PairOf(m, w) = k /\ Source(m, w) = q
      BY <1>13, <1>15, <1>a, <2>2 DEF AdoptedBy
    <2>4. PICK w \in Waiting(m) : PairOf(m, w) = k /\ Source(m, w) = q
      BY <2>3
    <2>5. /\ m.state[m.pairs[k].promise] = "pending"
          /\ \A y \in Promise(m) : m.state[y] = "fulfilled" => m.value[y].tag = "plain"
          /\ \A y, z \in Waiting(m) : PairOf(m, y) = k /\ PairOf(m, z) = k => y = z
      <3>1. k \in 1 .. Len(m.pairs) /\ ~m.pairs[k].spent
        BY <1>15, <1>a
      <3> QED
        BY <3>1, Unspent
    <2>6. w = r /\ q = x.source
      <3>1. w = r
        BY <2>4, <2>5, <1>a, <1>b
      <3> QED
        BY <3>1, <2>4, <1>a DEF Source
    <2>7. a \in Promise(n) /\ c.state[a] = how /\ c.value[a] = v
      <3>1. n.state[a] = "pending" /\ ~n.pairs[k].spent
        BY <2>1, <2>5, <1>15, <1>a
      <3>2. v \in Value /\ (how = "fulfilled" => v.tag = "plain")
        BY <2>5, <1>1 DEF ValueIn
      <3>3. f = IF how = "fulfilled" THEN ResolveFn(k) ELSE RejectFn(k)
        OBVIOUS
      <3>4. Hands(n, k, a, how, v, f)
        BY <3>1, <3>2, <3>3, <2>1, <1>1 DEF Hands
      <3> QED
        BY <3>4, <1>a, SettlerHands
    <2>8. o.state[a] = how /\ o.value[a] = v
      <3>1. a \in Promise(c)
        BY <2>7, <1>a, <1>2, EvolvesKeeps
      <3>2. how # "pending"
        BY <1>1 DEF Settled
      <3> QED
        BY <3>1, <3>2, <2>7, <1>5 DEF Grows
    <2>9. o.state[q] = how /\ o.value[q] = v /\ how # "pending"
      <3>1. n.state[q] = how /\ n.value[q] = v /\ q \in Promise(n)
        BY <2>6, <1>1, <1>a DEF Promise
      <3>2. how # "pending"
        BY <1>1 DEF Settled
      <3> QED
        BY <3>1, <3>2, <1>5 DEF Grows
    <2>10. o.state[q] # "pending" /\ SameOutcome(o, a, q)
      BY <2>8, <2>9 DEF SameOutcome
    <2>11. o.reactions[j].target = a /\ o.reactions[j].value.id = q
      BY <2>1, <2>2, <2>3, <1>11, <1>a
    <2>12. o.pairs[k].spent /\ o.pairs[k].promise = a
      BY <2>1, <1>8, <1>15
    <2>13. AdoptedBy(o, j, k)
      BY <2>10, <2>11, <2>12 DEF AdoptedBy
    <2>14. k \in 1 .. Len(o.pairs)
      BY <1>9
    <2> QED
      BY <2>13, <2>14
  <1> QED
    BY <1>14, <1>15

-----------------------------------------------------------------------------
(***************************************************************************)
(* Every operation of the program keeps the invariant.                     *)
(***************************************************************************)

(* The invariant at rest, of any machine, stack and settlers held.         *)
FatesAt(u, m, printed, s, h) ==
  Rested(u, m, printed, s, h) /\ (Overriding(u) \/ Adopted(m))

(* An action that ends at rest keeps it.                                   *)
LEMMA MovedFates ==
  ASSUME NEW u, NEW m, NEW printed, NEW s, NEW h, FatesAt(u, m, printed, s, h),
         NEW n, NEW t, NEW l, Moved(u, m, n, printed, t, l)
  PROVE  FatesAt(u, n, printed, t, l)
  <1>1. Rested(u, n, printed, t, l) /\ Grows(m, n) /\ PairsKept(m, n)
    BY DEF Moved
  <1>2. MachineOK(m) /\ MachineOK(n)
    BY <1>1, RestAt DEF FatesAt
  <1>3. Adopted(m) => Adopted(n)
    BY <1>1, <1>2, AdoptedKept DEF PairsKept, Untouched
  <1> QED
    BY <1>1, <1>3 DEF FatesAt

(* The invariant as a property of the tables, the stack and the settlers.  *)
LEMMA FatedNow ==
  ASSUME IInv, Fated
  PROVE  FatesAt(program, machine, reported, stack, held)
  BY DEF IInv, StateOK, Fated, FatesAt, Rested, Placedly

(* And is the invariant of the next state.                                 *)
LEMMA FatedNext ==
  ASSUME program' = program, NEW n, n = machine', NEW t, t = stack', NEW l, l = held',
         NEW printed, FatesAt(program, n, printed, t, l)
  PROVE  Fated'
  BY DEF Fated, FatesAt, Rested

(* A step that is such an action.                                          *)
LEMMA FatedMoves ==
  ASSUME IInv, Fated, program' = program,
         NEW n, n = machine', NEW t, t = stack', NEW l, l = held',
         Moved(program, machine, n, reported, t, l)
  PROVE  Fated'
  <1>1. FatesAt(program, n, reported, t, l)
    BY FatedNow, MovedFates
  <1> QED
    BY <1>1, FatedNext

(* What the program passes around.                                         *)
LEMMA ValuesTagged ==
  ASSUME NEW v \in Values \cup {Undefined}
  PROVE  v.tag \in Tags(program)
  BY DEF Values, Tags, Undefined, Plain

(* Every operation of the program.                                         *)
LEMMA FatedOperations ==
  ASSUME IInv, Fated, Operation \/ StartTurn
  PROVE  Fated'
  <1>s. /\ Rested(program, machine, reported, stack, held) /\ MachineOK(machine)
        /\ named \subseteq Promise(machine)
    BY FatedNow DEF FatesAt, IInv, StateOK, Sound
  <1>v. \A v \in Values : ValueIn(machine, v) /\ v.tag \in Tags(program)
    BY ValuesIn, ValuesTagged
  <1>c. PICK c : c = Create(machine)
    OBVIOUS
  <1>p. PICK p : p = Newest(machine) + 1
    OBVIOUS
  <1>n. PICK n, t, l : n = machine' /\ t = stack' /\ l = held'
    OBVIOUS
  <1>1. CASE New \/ WithResolvers
    <2>1. PICK q, k, f : /\ q = Newest(c) /\ k = NewestPair(c) + 1
                         /\ f = NewFrame("executor", q, k, "fulfilled", Undefined)
      <3>1. \E q, k : q = Newest(c) /\ k = NewestPair(c) + 1
        OBVIOUS
      <3> QED
        BY <3>1
    <2>2. CASE New
      <3>1. /\ n = OpenPair(c, q) /\ t = Append(stack, f) /\ l = held \cup {k}
            /\ program' = program /\ "new" \in program.ops
        BY <2>1, <2>2, <1>c, <1>n DEF New, Becomes, Call, Calls
      <3>2. Moved(program, machine, n, reported, t, l)
        BY <3>1, <2>1, <1>c, <1>s, FateNew
      <3> QED
        BY <3>1, <3>2, <1>n, FatedMoves
    <2>3. CASE WithResolvers
      <3>1. /\ n = OpenPair(c, q) /\ t = stack /\ l = held \cup {k} /\ program' = program
        BY <2>1, <2>3, <1>c, <1>n DEF WithResolvers, Becomes
      <3>2. Moved(program, machine, n, reported, stack, l)
        BY <3>1, <2>1, <1>c, <1>s, FateOpens
      <3> QED
        BY <3>1, <3>2, <1>n, FatedMoves
    <2> QED
      BY <1>1, <2>2, <2>3
  <1>2. CASE AsyncCall
    <2>1. PICK f : f = CodeFor("body", p)
      OBVIOUS
    <2>2. n = c /\ t = Append(stack, f) /\ l = held /\ program' = program
      BY <2>1, <1>2, <1>c, <1>p, <1>n DEF AsyncCall, Becomes, Call
    <2>3. Moved(program, machine, n, reported, t, held)
      BY <2>1, <2>2, <1>c, <1>p, <1>s, FateAsync
    <2> QED
      BY <2>2, <2>3, <1>n, FatedMoves
  <1>3. CASE Try \/ StartTurn
    <2>1. PICK kind \in {"turn", "try"} :
            t = Append(stack, CodeFor(kind, 0)) /\ n = machine /\ l = held /\ program' = program
      BY <1>3, <1>n DEF Try, StartTurn, Call
    <2>2. Moved(program, machine, machine, reported, t, held)
      BY <2>1, <1>s, FateCalls
    <2> QED
      BY <2>1, <2>2, <1>n, FatedMoves
  <1>4. CASE EmptyRace
    <2>1. PICK kind, vs : kind = "race" /\ vs = <<>>
      OBVIOUS
    <2>2. /\ n = Combine(machine, kind, vs) /\ t = stack /\ l = held /\ program' = program
          /\ "emptyRace" \in program.ops
      BY <2>1, <1>4, <1>n DEF EmptyRace, Becomes, Calls
    <2>3. /\ kind \in {"all", "allSettled", "race", "any"} /\ (vs = <<>> \/ Len(vs) \in {1, 2})
          /\ \A i \in 1 .. Len(vs) : ValueIn(machine, vs[i]) /\ vs[i].tag \in Tags(program)
      BY <2>1, EmptySeq
    <2>4. Moved(program, machine, n, reported, stack, held)
      BY <2>2, <2>3, <1>s, FateCombine
    <2> QED
      BY <2>2, <2>4, <1>n, FatedMoves
  <1>5. CASE \E k \in held, v \in Values : SettlerCalled(k, v)
    <2>1. PICK k \in held, v \in Values : SettlerCalled(k, v)
      BY <1>5
    <2>2. PICK f \in {ResolveFn(k), RejectFn(k)} : n = CallSettler(machine, f, v)
      BY <2>1, <1>n DEF SettlerCalled, Becomes
    <2>3. f.pair = k /\ t = stack /\ l = held /\ program' = program
      BY <2>1, <2>2, <1>n DEF SettlerCalled, ResolveFn, RejectFn
    <2>4. Rested(program, n, reported, stack, held) /\ Grows(machine, n) /\ Untouched(machine, n)
      BY <2>1, <2>2, <2>3, <1>s, <1>v, FateSettler
    <2>5. Adopted(machine) => Adopted(n)
      BY <2>4, <1>s, RestAt, AdoptedKept
    <2>6. FatesAt(program, n, reported, stack, held)
      BY <2>4, <2>5, FatedNow DEF FatesAt
    <2> QED
      BY <2>3, <2>6, <1>n, FatedNext
  <1>6. CASE \E q \in named, f, r \in Handler : Then(q, f, r)
    <2>1. PICK q \in named, f \in Handler, r \in Handler : Then(q, f, r)
      BY <1>6
    <2>2. /\ n = React(c, JsReaction(q, Newest(c), f, r)) /\ q \in Promise(machine)
          /\ t = stack /\ l = held /\ program' = program
      BY <2>1, <1>c, <1>n, <1>s DEF Then, Becomes
    <2>3. Moved(program, machine, n, reported, stack, held)
      BY <2>1, <2>2, <1>c, <1>s, FateThen
    <2> QED
      BY <2>2, <2>3, <1>n, FatedMoves
  <1>7. CASE \E q \in named, f \in Handler : Finally(q, f)
    <2>1. PICK q \in named, f \in Handler : Finally(q, f)
      BY <1>7
    <2>2. /\ n = React(c, FinallyReaction(q, Newest(c), f)) /\ q \in Promise(machine)
          /\ t = stack /\ l = held /\ program' = program
      BY <2>1, <1>c, <1>n, <1>s DEF Finally, Becomes
    <2>3. Moved(program, machine, n, reported, stack, held)
      BY <2>1, <2>2, <1>c, <1>s, FateThen
    <2> QED
      BY <2>2, <2>3, <1>n, FatedMoves
  <1>8. CASE \E v \in Values : StaticResolve(v) \/ StaticReject(v)
    <2>1. PICK v \in Values : StaticResolve(v) \/ StaticReject(v)
      BY <1>8
    <2>2. /\ n = Resolve(Create(machine), p, v) \/ n = Reject(Create(machine), p, v)
          /\ t = stack /\ l = held /\ program' = program
      BY <2>1, <1>p, <1>n
         DEF StaticResolve, StaticReject, ResolvedBy, RejectedBy, Becomes
    <2>3. Moved(program, machine, n, reported, stack, held)
      BY <2>2, <1>p, <1>s, <1>v, FateMade
    <2> QED
      BY <2>2, <2>3, <1>n, FatedMoves
  <1>9. CASE \E kind \in {"all", "allSettled", "race", "any"} : CombineAny(kind)
    <2>1. PICK kind \in {"all", "allSettled", "race", "any"} : CombineAny(kind)
      BY <1>9
    <2>2. PICK vs \in Elements(kind) : n = Combine(machine, kind, vs)
      BY <2>1, <1>n DEF CombineAny, Becomes
    <2>3. t = stack /\ l = held /\ program' = program
      BY <2>1, <1>n DEF CombineAny
    <2>4. /\ vs = <<>> \/ Len(vs) \in {1, 2}
          /\ \A i \in 1 .. Len(vs) : ValueIn(machine, vs[i]) /\ vs[i].tag \in Tags(program)
      BY <2>2, <1>v DEF Elements
    <2>5. vs = <<>> /\ kind = "race" => "emptyRace" \in program.ops
      BY <2>2 DEF Elements
    <2>6. Moved(program, machine, n, reported, stack, held)
      BY <2>2, <2>4, <2>5, <1>s, FateCombine
    <2> QED
      BY <2>3, <2>6, <1>n, FatedMoves
  <1> QED
    BY <1>1, <1>2, <1>3, <1>4, <1>5, <1>6, <1>7, <1>8, <1>9 DEF Operation

(* Every way a piece of code ends.                                         *)
LEMMA FatedEnds ==
  ASSUME IInv, Fated, Return \/ Throw
  PROVE  Fated'
  <1>s. Rested(program, machine, reported, stack, held) /\ MachineOK(machine)
    BY FatedNow DEF FatesAt, IInv, StateOK, Sound
  <1>v. \A v \in Values \cup {Undefined} : ValueIn(machine, v) /\ v.tag \in Tags(program)
    BY ValuesIn, ValuesTagged
  <1>n. PICK n, t, l : n = machine' /\ t = stack' /\ l = held'
    OBVIOUS
  <1>f. PICK f : f = stack[Len(stack)]
    OBVIOUS
  <1>p. PICK p : p = f.target
    OBVIOUS
  <1>t. PICK rest : rest = SubSeq(stack, 1, Len(stack) - 1)
    OBVIOUS
  <1>d. Top = f /\ Rest = rest
    BY <1>f, <1>t DEF Top, Rest
  <1>1. CASE EndTurn \/ ExecutorReturns \/ ThenReturns
    <2>1. /\ stack # <<>> /\ f.kind \notin Answering /\ n = machine /\ t = rest
          /\ l = held /\ program' = program
      BY <1>1, <1>n, <1>d
         DEF EndTurn, ExecutorReturns, ThenReturns, Running, EndsWith, Becomes, Answering
    <2>2. Moved(program, machine, machine, reported, rest, held)
      BY <2>1, <1>s, <1>f, <1>t, PoppedQuiet
    <2> QED
      BY <2>1, <2>2, <1>n, FatedMoves
  <1>2. CASE \E callable \in BOOLEAN : GetterReturns(callable)
    <2>1. PICK callable \in BOOLEAN : GetterReturns(callable)
      BY <1>2
    <2>2. stack # <<>> /\ f.kind = "getter" /\ program' = program
      BY <2>1, <1>d DEF GetterReturns, Running
    <2>3. CASE callable
      <3>1. PICK g : g = [f EXCEPT !.kind = "then"]
        OBVIOUS
      <3>2. n = machine /\ t = Append(rest, g) /\ l = held \cup {f.pair}
        BY <2>1, <2>3, <3>1, <1>n, <1>d DEF GetterReturns
      <3>3. Moved(program, machine, machine, reported, t, l)
        BY <2>2, <3>1, <3>2, <1>s, <1>f, <1>t, GetterCalls
      <3> QED
        BY <2>2, <3>2, <3>3, <1>n, FatedMoves
    <2>4. CASE ~callable
      <3>1. n = Settle(machine, p, "fulfilled", f.value) /\ t = rest /\ l = held
        BY <2>1, <2>4, <1>n, <1>d, <1>p DEF GetterReturns, EndsWith, Becomes
      <3>2. Moved(program, machine, n, reported, rest, held)
        BY <2>2, <3>1, <1>s, <1>f, <1>p, <1>t, GetterFulfils
      <3> QED
        BY <2>2, <3>1, <3>2, <1>n, FatedMoves
    <2> QED
      BY <2>3, <2>4
  <1>3. ASSUME NEW v \in Values \cup {Undefined},
               \/ HandlerReturns(v) \/ FinallyReturns(v) \/ BodyReturns(v) \/ BodyAwaits(v)
               \/ (v \in Values /\ CodeThrows(v))
        PROVE  Fated'
    <2>1. /\ stack # <<>> /\ f.kind \in Answering /\ t = rest /\ l = held /\ program' = program
      BY <1>3, <1>n, <1>d
         DEF HandlerReturns, FinallyReturns, BodyReturns, BodyAwaits, CodeThrows, Running,
             EndsWith, Answering
    <2>2. Pays(machine, n, p, v, f.how, f.value)
      BY <1>3, <1>n, <1>d, <1>p
         DEF HandlerReturns, FinallyReturns, BodyReturns, BodyAwaits, CodeThrows, EndsWith,
             Becomes, Pays
    <2>3. ValueIn(machine, v) /\ v.tag \in Tags(program)
      BY <1>v
    <2>4. Moved(program, machine, n, reported, rest, held)
      BY <2>1, <2>2, <2>3, <1>s, <1>f, <1>p, <1>t, AnswererEnds
    <2> QED
      BY <2>1, <2>4, <1>n, FatedMoves
  <1>4. ASSUME NEW v \in Values, ExecutorThrows(v) \/ ThenThrows(v)
        PROVE  Fated'
    <2>1. /\ stack # <<>> /\ f.kind \in {"executor", "then"} /\ t = rest /\ l = held
          /\ program' = program
      BY <1>4, <1>n, <1>d DEF ExecutorThrows, ThenThrows, Running, EndsWith
    <2>2. n = machine \/ n = Reject(machine, p, v)
      BY <1>4, <1>n, <1>d, <1>p DEF ExecutorThrows, ThenThrows, EndsWith, Becomes
    <2>3. CASE n = machine
      <3>1. f.kind \notin Answering
        BY <2>1 DEF Answering
      <3>2. Moved(program, machine, machine, reported, rest, held)
        BY <3>1, <2>1, <1>s, <1>f, <1>t, PoppedQuiet
      <3> QED
        BY <2>1, <2>3, <3>2, <1>n, FatedMoves
    <2>4. CASE n = Reject(machine, p, v)
      <3>1. ValueIn(machine, v) /\ v.tag \in Tags(program)
        BY <1>v
      <3>2. Moved(program, machine, n, reported, rest, held)
        BY <3>1, <2>1, <2>4, <1>s, <1>f, <1>p, <1>t, CalledThrows
      <3> QED
        BY <2>1, <3>2, <1>n, FatedMoves
    <2> QED
      BY <2>2, <2>3, <2>4
  <1>5. ASSUME NEW v \in Values \cup {Undefined}, TryReturns(v) \/ (v \in Values /\ TryThrows(v))
        PROVE  Fated'
    <2>p. PICK q : q = Newest(machine) + 1
      OBVIOUS
    <2>1. /\ stack # <<>> /\ f.kind \notin Answering /\ t = rest /\ l = held
          /\ program' = program
      BY <1>5, <1>n, <1>d DEF TryReturns, TryThrows, Running, Answering
    <2>2. \/ n = machine
          \/ n = Resolve(Create(machine), q, v) \/ n = Reject(Create(machine), q, v)
      BY <1>5, <1>n, <2>p DEF TryReturns, TryThrows, ResolvedBy, RejectedBy
    <2>3. Moved(program, machine, machine, reported, rest, held)
      BY <2>1, <1>s, <1>f, <1>t, PoppedQuiet
    <2>4. CASE n = machine
      BY <2>1, <2>3, <2>4, <1>n, FatedMoves
    <2>5. CASE n = Resolve(Create(machine), q, v) \/ n = Reject(Create(machine), q, v)
      <3>1. ValueIn(machine, v) /\ v.tag \in Tags(program)
        BY <1>v
      <3>2. Rested(program, machine, reported, rest, held)
        BY <2>3 DEF Moved
      <3>3. Moved(program, machine, n, reported, rest, held)
        BY <3>1, <3>2, <2>5, <2>p, FateMade
      <3> QED
        BY <2>1, <3>3, <1>n, FatedMoves
    <2> QED
      BY <2>2, <2>4, <2>5
  <1> QED
    BY <1>1, <1>2, <1>3, <1>4, <1>5 DEF Return, Throw

(* A step of the drain that carries no settler.                            *)
Carries(m, o, r, x) ==
  /\ x = m.reactions[r] /\ x.ful.pair = 0
  /\ r \notin AdoptionJobs(m) \/ Handing(o, x.target, x.value.id)

(* A step of the drain that carries no settler keeps the invariant.        *)
LEMMA DrainedFates ==
  ASSUME NEW u, NEW m, NEW printed, NEW s, NEW h, FatesAt(u, m, printed, s, h),
         NEW n, NEW r, NEW x, TakenOut(u, m, n, printed, s, h, r, x),
         NEW o, NEW t, NEW l, Moved(u, n, o, printed, t, l), Carries(m, o, r, x)
  PROVE  FatesAt(u, o, printed, t, l)
  <1>1. Rested(u, o, printed, t, l) /\ Grows(n, o) /\ PairsKept(n, o)
    BY DEF Moved
  <1>2. MachineOK(m) /\ MachineOK(o)
    BY <1>1, RestAt DEF FatesAt
  <1>3. TakesAs(m, n) /\ r = Head(m.queue) /\ MachineOK(n) /\ PairOf(m, r) = 0
    BY DEF TakenOut, Placedly, Sound, Carries, PairOf
  <1>4. \/ r \notin AdoptionJobs(m)
        \/ Handing(o, m.reactions[r].target, m.reactions[r].value.id)
    BY DEF Carries
  <1>5. Adopted(m) => Adopted(o)
    <2> SUFFICES ASSUME Adopted(m) PROVE Adopted(o)
      OBVIOUS
    <2> QED
      BY <1>1, <1>2, <1>3, <1>4, DrainAdopted
  <1> QED
    BY <1>1, <1>5 DEF FatesAt

(* Which reactions carry a settler.                                        *)
LEMMA CarriesNone ==
  ASSUME NEW u, NEW m, NEW n, NEW printed, NEW s, NEW h, NEW r, NEW x,
         TakenOut(u, m, n, printed, s, h, r, x)
  PROVE  /\ x.kind # "js" \/ x.ful.kind \in {"none", "user"}
              \/ x.rej.kind \in {"none", "user"} => x.ful.pair = 0
         /\ x.kind = "js" /\ (x.ful.kind \in {"resolve", "reject"}
              \/ x.rej.kind \in {"resolve", "reject"}) =>
              /\ x.ful.pair \in 1 .. Len(n.pairs)
              /\ x.ful = ResolveFn(x.ful.pair) /\ x.rej = RejectFn(x.ful.pair)
  BY DEF TakenOut, ReactionShape, Paired, Unpaired, ResolveFn, RejectFn

(* A step of the drain that runs a settler keeps it.                       *)
LEMMA SettlerFates ==
  ASSUME NEW u, NEW m, NEW printed, NEW s, NEW h, FatesAt(u, m, printed, s, h),
         NEW n, NEW r, NEW x, TakenOut(u, m, n, printed, s, h, r, x),
         x.kind = "js", NEW p, p = x.target,
         NEW k, k = x.ful.pair, k \in 1 .. Len(n.pairs),
         x.ful = ResolveFn(k), x.rej = RejectFn(k),
         NEW how, how = m.state[x.source], NEW v, v = m.value[x.source],
         Answers4(u, n, how, v),
         NEW f, f = IF how = "fulfilled" THEN x.ful ELSE x.rej,
         NEW c, c = CallSettler(n, f, v), NEW o, o = Resolve(c, p, Undefined)
  PROVE  FatesAt(u, o, printed, s, h)
  <1>1. Rested(u, m, printed, s, h) /\ (Overriding(u) \/ Adopted(m))
    BY DEF FatesAt
  <1>2. ValueIn(n, v) /\ v.tag \in Tags(u)
    BY DEF Answers4
  <1>3. f.pair = k
    BY DEF ResolveFn, RejectFn
  <1>4. IF n.pairs[k].spent THEN Moved(u, n, o, printed, s, h)
        ELSE Moved(u, Spend(n, k), o, printed, s, h)
    BY <1>1, <1>2, <1>3, FateRunsSettler
  <1>5. Rested(u, o, printed, s, h)
    BY <1>4 DEF Moved
  <1>6. ASSUME ~Overriding(u)
        PROVE  Adopted(o)
    <2>1. Adopted(m)
      BY <1>1, <1>6
    <2> QED
      BY <1>1, <1>6, <2>1, SettlerAdopted
  <1> QED
    BY <1>5, <1>6 DEF FatesAt

(* Every step of the drain that takes a reaction.                          *)
LEMMA FatedRuns ==
  ASSUME IInv, Fated, machine.queue # <<>>, stack = <<>>,
         RunPass \/ RunHandler \/ RunSettler \/ RunFinally \/ RunRestore
           \/ RunAdoptPromise \/ RunAdoptObject \/ RunFrame \/ RunMember
  PROVE  Fated'
  <1>u. PICK u : u = program
    OBVIOUS
  <1>s. PICK s : s = stack
    OBVIOUS
  <1>m. PICK m : m = Take(machine)
    OBVIOUS
  <1>r. PICK r : r = Head(machine.queue)
    OBVIOUS
  <1>x. PICK x : x = machine.reactions[r]
    OBVIOUS
  <1>w. PICK how : how = machine.state[x.source]
    OBVIOUS
  <1>v. PICK v : v = machine.value[x.source]
    OBVIOUS
  <1>p. PICK p : p = x.target
    OBVIOUS
  <1>n. PICK n, t, l : n = machine' /\ t = stack' /\ l = held'
    OBVIOUS
  <1>a. Next1 = x /\ SourceHow = how /\ SourceValue = v
    BY <1>r, <1>x, <1>w, <1>v DEF Next1, SourceHow, SourceValue
  <1>b. FatesAt(u, machine, reported, s, held) /\ Rested(u, machine, reported, s, held)
    BY <1>u, <1>s, FatedNow DEF FatesAt
  <1>c. /\ TakenOut(u, machine, m, reported, s, held, r, x)
        /\ x.kind # "thenable" => Answers4(u, m, how, v)
    BY <1>b, <1>m, <1>r, <1>x, <1>w, <1>v, Takes
  <1>d. x \in Reaction /\ ReactionIn(m, x) /\ ReactionShape(u, m, x) /\ MachineOK(m)
    BY <1>c DEF TakenOut, Placedly, Sound
  <1>e. /\ p \in Promise(m) /\ x.how \in Settled /\ ValueIn(m, x.value)
        /\ x.value.tag \in Tags(u)
    BY <1>d, <1>p DEF Reaction, ReactionIn, ReactionShape
  <1>f. 0 \in 0 .. Len(m.pairs) /\ "fulfilled" \in Settled
    <2>1. Len(m.pairs) \in Nat
      BY <1>d, FieldTypes
    <2> QED
      BY <2>1 DEF Settled
  <1>g. x.kind # "thenable" => how \in Settled /\ ValueIn(m, v) /\ v.tag \in Tags(u)
    BY <1>c DEF Answers4
  <1>i. x.kind \notin {"js", "thenable"} => x.ful.pair = 0 /\ r \notin AdoptionJobs(machine)
    BY <1>c, <1>x, CarriesNone DEF AdoptionJobs
  <1>o. ASSUME x.kind # "member", x.ful.pair = 0
        PROVE  \E z, W : Owing(u, m, reported, s, held, z, W, p)
    BY <1>o, <1>b, <1>c, <1>p, TakenOwing
  <1>j. ASSUME Moved(u, m, n, reported, t, l), Carries(machine, n, r, x), program' = program
        PROVE  Fated'
    <2>1. FatesAt(u, n, reported, t, l)
      BY <1>j, <1>b, <1>c, DrainedFates
    <2> QED
      BY <2>1, <1>j, <1>n, <1>u, FatedNext
  <1>k. ASSUME x.kind # "thenable", x.ful.pair = 0
        PROVE  Carries(machine, n, r, x)
    BY <1>k, <1>x DEF Carries, AdoptionJobs
  <1>1. CASE RunPass
    <2>1. /\ n = SettleThrough(m, p, how, v) /\ x.kind = "js"
          /\ t = s /\ l = held /\ program' = program /\ Chosen.kind = "none"
      BY <1>1, <1>a, <1>m, <1>n, <1>p, <1>s DEF RunPass, Drains, Becomes
    <2>2. x.ful.kind = "none" \/ x.rej.kind = "none"
      BY <2>1, <1>a DEF Chosen
    <2>3. x.ful.pair = 0
      BY <2>2, <1>c, CarriesNone
    <2>4. PICK z, W : Owing(u, m, reported, s, held, z, W, p)
      BY <2>1, <2>3, <1>o
    <2>5. Moved(u, m, n, reported, s, held)
      BY <2>1, <2>4, <1>g, OwingSettles
    <2> QED
      BY <2>1, <2>3, <2>5, <1>j, <1>k
  <1>2. CASE RunHandler
    <2>1. PICK f : f = CodeFor("handler", p)
      OBVIOUS
    <2>2. /\ n = m /\ x.kind = "js" /\ t = Append(s, f) /\ l = held
          /\ program' = program /\ Chosen.kind = "user"
      BY <1>2, <2>1, <1>a, <1>m, <1>n, <1>p, <1>s DEF RunHandler, Drains, Becomes, Call
    <2>3. x.ful.kind = "user" \/ x.rej.kind = "user"
      BY <2>2, <1>a DEF Chosen
    <2>4. x.ful.pair = 0
      BY <2>3, <1>c, CarriesNone
    <2>5. PICK z, W : Owing(u, m, reported, s, held, z, W, p)
      BY <2>2, <2>4, <1>o
    <2>6. f \in Frame /\ FrameIn(m, f)
      BY <2>1, <1>d, <1>e, <1>f, PlainIn, CodeFrames
    <2>7. f.kind \in {"handler", "finally", "body"} /\ f.target = p /\ f.value.tag \in Tags(u)
      BY <2>1 DEF CodeFor, NewFrame, Tags, Undefined, Plain
    <2>8. Moved(u, m, m, reported, t, held)
      BY <2>2, <2>5, <2>6, <2>7, OwingCalls
    <2> QED
      BY <2>2, <2>4, <2>8, <1>j, <1>k
  <1>3. CASE RunSettler
    <2>1. PICK f : f = Chosen
      OBVIOUS
    <2>2. PICK c : c = CallSettler(m, f, v)
      OBVIOUS
    <2>3. /\ n = Resolve(c, p, Undefined) /\ x.kind = "js"
          /\ f.kind \in {"resolve", "reject"}
          /\ t = s /\ l = held /\ program' = program
      BY <1>3, <1>a, <1>m, <1>n, <1>p, <1>s, <2>1, <2>2 DEF RunSettler, Drains, Becomes
    <2>4. f = IF how = "fulfilled" THEN x.ful ELSE x.rej
      BY <2>1, <1>a DEF Chosen
    <2>5. x.ful.kind \in {"resolve", "reject"} \/ x.rej.kind \in {"resolve", "reject"}
      BY <2>3, <2>4
    <2>6. PICK k : k = x.ful.pair
      OBVIOUS
    <2>7. k \in 1 .. Len(m.pairs) /\ x.ful = ResolveFn(k) /\ x.rej = RejectFn(k)
      BY <2>3, <2>5, <2>6, <1>c, CarriesNone
    <2>8. Answers4(u, m, how, v)
      BY <2>3, <1>c
    <2>9. FatesAt(u, n, reported, s, held)
      <3>1. /\ FatesAt(u, machine, reported, s, held) /\ x.kind = "js"
            /\ TakenOut(u, machine, m, reported, s, held, r, x)
        BY <2>3, <1>b, <1>c
      <3>2. k \in 1 .. Len(m.pairs) /\ x.ful = ResolveFn(k) /\ x.rej = RejectFn(k)
        BY <2>7
      <3>3. n = Resolve(c, p, Undefined)
        BY <2>3
      <3> QED
        BY ONLY <3>1, <3>2, <3>3, <2>2, <2>4, <2>6, <2>8, <1>p, <1>w, <1>v, SettlerFates
    <2> QED
      BY <2>3, <2>9, <1>n, <1>u, FatedNext
  <1>4. CASE RunFinally
    <2>0. x.kind = "finally" /\ program' = program /\ l = held
      BY <1>4, <1>a, <1>n DEF RunFinally, Drains
    <2>c. x.ful.pair = 0 /\ Carries(machine, n, r, x)
      BY <2>0, <1>i, <1>k
    <2>w. PICK z, W : Owing(u, m, reported, s, held, z, W, p)
      BY <2>0, <2>c, <1>o
    <2>1. CASE x.ful.kind = "none"
      <3>1. n = SettleThrough(m, p, how, v) /\ t = s
        BY <1>4, <2>1, <1>a, <1>m, <1>n, <1>p, <1>s DEF RunFinally, Becomes
      <3>2. Moved(u, m, n, reported, s, held)
        BY <3>1, <2>0, <2>w, <1>g, OwingSettles
      <3> QED
        BY <3>1, <3>2, <2>0, <2>c, <1>j
    <2>2. CASE x.ful.kind # "none"
      <3>1. PICK f : f = NewFrame("finally", p, 0, how, v)
        OBVIOUS
      <3>2. n = m /\ t = Append(s, f)
        BY <1>4, <2>2, <3>1, <1>a, <1>m, <1>n, <1>p, <1>s DEF RunFinally, Becomes, Call
      <3>3. f \in Frame /\ FrameIn(m, f)
        BY <3>1, <2>0, <1>d, <1>e, <1>f, <1>g, CodeFrames
      <3>4. /\ f.kind \in {"handler", "finally", "body"} /\ f.target = p
            /\ f.value.tag \in Tags(u)
        BY <3>1, <2>0, <1>g DEF NewFrame
      <3>5. Moved(u, m, m, reported, t, held)
        BY <3>2, <3>3, <3>4, <2>w, OwingCalls
      <3> QED
        BY <3>2, <3>5, <2>0, <2>c, <1>j
    <2> QED
      BY <2>1, <2>2
  <1>5. CASE RunRestore
    <2>1. /\ x.kind = "restore" /\ t = s /\ l = held /\ program' = program
          /\ n = IF how = "rejected" THEN Reject(m, p, v)
                 ELSE SettleThrough(m, p, x.how, x.value)
      BY <1>5, <1>a, <1>m, <1>n, <1>p, <1>s DEF RunRestore, Drains, Becomes
    <2>2. x.ful.pair = 0 /\ Carries(machine, n, r, x)
      BY <2>1, <1>i, <1>k
    <2>3. PICK z, W : Owing(u, m, reported, s, held, z, W, p)
      BY <2>1, <2>2, <1>o
    <2>4. CASE n = Reject(m, p, v)
      <3>1. Moved(u, m, n, reported, s, held)
        BY <2>1, <2>3, <2>4, <1>g, OwingSettles
      <3> QED
        BY <3>1, <2>1, <2>2, <1>j
    <2>5. CASE n = SettleThrough(m, p, x.how, x.value)
      <3>1. PICK a, b : a = x.how /\ b = x.value
        OBVIOUS
      <3>2. ValueIn(m, b) /\ b.tag \in Tags(u) /\ n = SettleThrough(m, p, a, b)
        BY <3>1, <2>5, <1>e
      <3>3. Moved(u, m, n, reported, s, held)
        BY <3>2, <2>3, OwingSettles
      <3> QED
        BY <3>3, <2>1, <2>2, <1>j
    <2> QED
      BY <2>1, <2>4, <2>5
  <1>6. CASE RunAdoptPromise
    <2>1. PICK q : q = x.value.id
      OBVIOUS
    <2>2. /\ n = AdoptPromise(m, p, q) /\ x.value.tag = "promise" /\ x.kind = "thenable"
          /\ t = s /\ l = held /\ program' = program
      BY <1>6, <2>1, <1>a, <1>m, <1>n, <1>p, <1>s DEF RunAdoptPromise, Drains, Becomes
    <2>3. q \in Promise(m) /\ x.ful.pair = 0
      BY <2>1, <2>2, <1>c, <1>e, CarriesNone DEF ValueIn
    <2>4. PICK z, W : Owing(u, m, reported, s, held, z, W, p)
      BY <2>2, <2>3, <1>o
    <2>5. Moved(u, m, n, reported, s, held) /\ Handing(n, p, q)
      BY <2>2, <2>3, <2>4, FateAdopts
    <2>6. Carries(machine, n, r, x)
      BY <2>1, <2>3, <2>5, <1>x, <1>p DEF Carries
    <2> QED
      BY <2>2, <2>5, <2>6, <1>j
  <1>7. CASE RunAdoptObject
    <2>1. PICK k, b : k = Len(m.pairs) + 1 /\ b = x.value
      OBVIOUS
    <2>0. NewestPair(machine) = Len(m.pairs)
      BY <1>m DEF NewestPair, Take
    <2>2. /\ n = OpenPair(m, p) /\ b.tag # "promise" /\ x.kind = "thenable"
          /\ program' = program
          /\ b.tag = "getter" =>
               /\ t = Append(s, NewFrame("getter", p, k, "fulfilled", b)) /\ l = held
          /\ b.tag # "getter" =>
               /\ t = Append(s, NewFrame("then", p, k, "fulfilled", b)) /\ l = held \cup {k}
      BY <1>7, <2>0, <2>1, <1>a, <1>m, <1>n, <1>p, <1>s DEF RunAdoptObject, Drains, Becomes, Call
    <2>3. x.ful.pair = 0 /\ b.tag \in {"thenable", "getter"} /\ ValueIn(m, b) /\ b.tag \in Tags(u)
      <3>1. x.ful.pair = 0
        BY <2>2, <1>c, CarriesNone
      <3>2. b.tag # "plain"
        BY <2>1, <2>2, <1>d DEF ReactionShape, JobShape
      <3>3. b \in Value
        BY <2>1, <1>e DEF ValueIn
      <3>4. b.tag \in {"thenable", "getter"}
        BY <3>2, <3>3, <2>2 DEF Value
      <3> QED
        BY <3>1, <3>4, <2>1, <1>e
    <2>4. PICK z, W : Owing(u, m, reported, s, held, z, W, p)
      BY <2>2, <2>3, <1>o
    <2>5. Carries(machine, n, r, x)
      BY <2>1, <2>2, <2>3, <1>x DEF Carries, AdoptionJobs
    <2>6. CASE b.tag = "getter"
      <3>1. PICK f : f = NewFrame("getter", p, k, "fulfilled", b)
        OBVIOUS
      <3>2. t = Append(s, f) /\ l = held
        BY <3>1, <2>2, <2>6
      <3>3. Moved(u, m, n, reported, t, held)
        BY <3>1, <3>2, <2>1, <2>2, <2>3, <2>4, <2>6, <1>s, FateReads
      <3> QED
        BY <3>2, <3>3, <2>2, <2>5, <1>j
    <2>7. CASE b.tag = "thenable"
      <3>1. PICK f : f = NewFrame("then", p, k, "fulfilled", b)
        OBVIOUS
      <3>2. t = Append(s, f) /\ l = held \cup {k}
        BY <3>1, <2>2, <2>7
      <3>3. Moved(u, m, n, reported, t, l)
        BY <3>1, <3>2, <2>1, <2>2, <2>3, <2>4, <2>7, FateCallsThen
      <3> QED
        BY <3>3, <2>2, <2>5, <1>j
    <2> QED
      BY <2>3, <2>6, <2>7
  <1>8. CASE RunFrame
    <2>1. PICK f : f = NewFrame("body", p, 0, how, v)
      OBVIOUS
    <2>2. /\ n = m /\ x.kind = "frame" /\ t = Append(s, f) /\ l = held /\ program' = program
      BY <1>8, <2>1, <1>a, <1>m, <1>n, <1>p, <1>s DEF RunFrame, Drains, Becomes, Call
    <2>3. x.ful.pair = 0 /\ Carries(machine, n, r, x)
      BY <2>2, <1>i, <1>k
    <2>4. PICK z, W : Owing(u, m, reported, s, held, z, W, p)
      BY <2>2, <2>3, <1>o
    <2>5. f \in Frame /\ FrameIn(m, f)
      BY <2>1, <2>2, <1>d, <1>e, <1>f, <1>g, CodeFrames
    <2>6. f.kind \in {"handler", "finally", "body"} /\ f.target = p /\ f.value.tag \in Tags(u)
      BY <2>1, <2>2, <1>g DEF NewFrame
    <2>7. Moved(u, m, m, reported, t, held)
      BY <2>2, <2>4, <2>5, <2>6, OwingCalls
    <2> QED
      BY <2>2, <2>3, <2>7, <1>j
  <1>9. CASE RunMember
    <2>1. /\ n = Advance(m, x.group, x.slot, how, v) /\ x.kind = "member"
          /\ t = s /\ l = held /\ program' = program
      BY <1>9, <1>a, <1>m, <1>n, <1>s DEF RunMember, Drains, Becomes
    <2>2. PICK q : q = x.source
      OBVIOUS
    <2>3. how = m.state[q] /\ v = m.value[q]
      BY <2>2, <1>w, <1>v, <1>m DEF Take
    <2>4. n = Advance(m, x.group, x.slot, m.state[q], m.value[q])
      BY <2>1, <2>3
    <2>5. Moved(u, m, n, reported, s, held)
      BY <2>1, <2>2, <2>4, <1>b, <1>c, FateReports
    <2>6. Carries(machine, n, r, x)
      BY <2>1, <1>i, <1>k
    <2> QED
      BY <2>1, <2>5, <2>6, <1>j
  <1> QED
    BY <1>1, <1>2, <1>3, <1>4, <1>5, <1>6, <1>7, <1>8, <1>9

-----------------------------------------------------------------------------
(***************************************************************************)
(* Every step does.                                                        *)
(***************************************************************************)

(* The tables the invariant reads.                                         *)
SameTables(m, n) ==
  /\ SameReactions(m, n) /\ n.pairs = m.pairs /\ n.groups = m.groups
  /\ n.state = m.state /\ n.value = m.value

(* The report changes none of the tables.                                  *)
LEMMA FateSame ==
  ASSUME NEW u, NEW m, NEW n, SameTables(m, n), NEW s, NEW h, NEW x, NEW c, NEW X, NEW Y,
         Fate(u, m, s, h, x, c, X, Y)
  PROVE  Fate(u, n, s, h, x, c, X, Y)
  <1>1. SameReactions(m, n) /\ n.pairs = m.pairs /\ n.groups = m.groups
    BY DEF SameTables
  <1>2. n.state = m.state /\ n.value = m.value /\ Promise(n) = Promise(m)
    BY DEF SameTables, Promise
  <1>r. n.reactions = m.reactions /\ n.taken = m.taken
    BY <1>1 DEF SameReactions
  <1>3. InHand(n, x, c)
    BY <1>r DEF Fate, InHand
  <1>4. Shape(u, n, s, h, x)
    <2>1. ValuesPass(u, n)
      BY <1>2 DEF Fate, Shape, ValuesPass
    <2>2. ReactionsShaped(u, n)
      BY <1>1, GroupsSame DEF Fate, Shape
    <2>3. Handed(n, h, x) /\ SlotsApart(n)
      BY <1>1, ReactionsSame DEF Fate, Shape
    <2>4. Getters(n, s, h, x)
      BY <1>1, PairsSame DEF Fate, Shape
    <2> QED
      BY <2>1, <2>2, <2>3, <2>4 DEF Fate, Shape
  <1>5. Answered(u, n, s, h, x, c, X)
    <2>1. /\ \A p : Expected(u, n, p) <=> Expected(u, m, p)
          /\ \A p : Live(n, s, h, x, c, p) <=> Live(m, s, h, x, c, p)
      BY <1>1, GroupsSame
    <2> QED
      BY <2>1, <1>2 DEF Fate, Answered
  <1>6. Overriding(u) \/ Sole(n, s, Y)
    <2>1. \A p : Claims(n, s, p) = Claims(m, s, p)
      BY <1>1, PairsSame
    <2> QED
      BY <2>1, <1>2 DEF Fate, Sole
  <1>7. Getting(u) \/ (Owned(n, s) /\ GroupsOK(n, x))
    <2>1. Owned(m, s) => Owned(n, s)
      BY <1>1, GroupsSame
    <2>2. \A g : DueTo(n, x, g) = DueTo(m, x, g) /\ ToldTo(n, x, g) = ToldTo(m, x, g)
      BY <1>1, ReactionsSame
    <2>3. \A g : GroupOK(m, x, g) => GroupOK(n, x, g)
      <3> SUFFICES ASSUME NEW g, GroupOK(m, x, g) PROVE GroupOK(n, x, g)
        OBVIOUS
      <3>1. /\ DueTo(n, x, g) = DueTo(m, x, g) /\ ToldTo(n, x, g) = ToldTo(m, x, g)
            /\ n.groups[g] = m.groups[g]
        BY <2>2, <1>1
      <3> QED
        BY <3>1, <1>2, <1>r, GroupStays
    <2> QED
      BY <2>1, <2>3, <1>1 DEF Fate, GroupsOK
  <1> QED
    BY <1>3, <1>4, <1>5, <1>6, <1>7 DEF Fate

(* Nor the adoptions.                                                      *)
LEMMA AdoptedSame ==
  ASSUME NEW m, NEW n, SameTables(m, n), Adopted(m)
  PROVE  Adopted(n)
  <1>1. /\ n.reactions = m.reactions /\ n.taken = m.taken /\ n.pairs = m.pairs
        /\ n.state = m.state /\ n.value = m.value
    BY DEF SameTables, SameReactions
  <1>2. AdoptionJobs(n) = AdoptionJobs(m) /\ Waiting(n) = Waiting(m)
    BY <1>1 DEF AdoptionJobs, Waiting, ReactionId
  <1>3. \A r, k : AdoptedBy(m, r, k) => AdoptedBy(n, r, k)
    BY <1>1, <1>2 DEF AdoptedBy, PairOf, Source, SameOutcome
  <1> QED
    BY <1>1, <1>2, <1>3 DEF Adopted

(* Every step keeps the invariant.                                         *)
LEMMA FatedStep ==
  ASSUME IInv, Fated, [Next]_vars
  PROVE  Fated'
  <1>1. CASE StartTurn \/ Operation
    BY <1>1, FatedOperations
  <1>2. CASE Return \/ Throw
    BY <1>2, FatedEnds
  <1>3. CASE StartDrain \/ Report \/ UNCHANGED vars
    <2>1. /\ program' = program /\ stack' = stack /\ held' = held
          /\ machine' = machine \/ machine' = [machine EXCEPT !.unnoticed = {}]
      BY <1>3 DEF StartDrain, Report, vars
    <2>2. PICK n : n = machine'
      OBVIOUS
    <2>3. SameTables(machine, n)
      <3>1. machine \in Machine
        BY DEF IInv, StateOK, Sound, MachineOK
      <3>2. CASE machine' = machine
        BY <3>2, <2>2 DEF SameTables, SameReactions
      <3>3. CASE machine' = [machine EXCEPT !.unnoticed = {}]
        BY <3>1, <3>3, <2>2 DEF SameTables, SameReactions, Machine
      <3> QED
        BY <2>1, <3>2, <3>3
    <2>4. PICK z, E : z = 0 /\ E = {}
      OBVIOUS
    <2>5. Fate(program, machine, stack, held, z, z, E, E)
      BY <2>4 DEF Fated
    <2>6. Fate(program, n, stack, held, z, z, E, E)
      BY <2>3, <2>5, FateSame
    <2>7. Adopted(machine) => Adopted(n)
      BY <2>3, AdoptedSame
    <2> QED
      BY <2>1, <2>2, <2>4, <2>6, <2>7 DEF Fated
  <1>4. CASE \/ RunPass \/ RunHandler \/ RunSettler \/ RunFinally \/ RunRestore
             \/ RunAdoptPromise \/ RunAdoptObject \/ RunFrame \/ RunMember
    <2>1. machine.queue # <<>> /\ stack = <<>>
      BY <1>4 DEF RunPass, RunHandler, RunSettler, RunFinally, RunRestore,
                  RunAdoptPromise, RunAdoptObject, RunFrame, RunMember, Drains
    <2> QED
      BY <1>4, <2>1, FatedRuns
  <1> QED
    BY <1>1, <1>2, <1>3, <1>4 DEF Next, Drain

(* It holds with nothing in any table.                                     *)
LEMMA FatedStart ==
  ASSUME Init
  PROVE  Fated
  <1>1. PICK m : m = machine
    OBVIOUS
  <1>2. /\ m.state = <<>> /\ m.value = <<>> /\ m.reactions = <<>> /\ m.taken = {}
        /\ m.pairs = <<>> /\ m.groups = <<>> /\ stack = <<>>
    BY <1>1 DEF Init, NoMachine
  <1>3. Len(<<>>) = 0 /\ 1 .. 0 = {}
    BY EmptySeq
  <1>4. /\ Promise(m) = {} /\ ReactionId(m) = {} /\ Waiting(m) = {}
        /\ 1 .. Len(m.pairs) = {} /\ 1 .. Len(m.groups) = {} /\ 1 .. Len(stack) = {}
    BY <1>2, <1>3 DEF Promise, ReactionId, Waiting
  <1>5. Due(m, 0) = {} /\ AdoptionJobs(m) = {}
    BY <1>4 DEF Due, AdoptionJobs
  <1>6. InHand(m, 0, 0)
    BY DEF InHand
  <1>7. Shape(program, m, stack, held, 0)
    BY <1>4, <1>5 DEF Shape, ValuesPass, ReactionsShaped, FramesShaped, Handed, Getters, SlotsApart
  <1>8. Answered(program, m, stack, held, 0, 0, {}) /\ Sole(m, stack, {})
    BY <1>4 DEF Answered, Sole
  <1>9. Owned(m, stack) /\ GroupsOK(m, 0) /\ Adopted(m)
    BY <1>4, <1>5 DEF Owned, GroupsOK, Adopted
  <1> QED
    BY <1>1, <1>6, <1>7, <1>8, <1>9 DEF Fated, Fate

(***************************************************************************)
(* The invariant holds of every program, whatever it calls, in any order   *)
(* and however deep, with the invariant of PromisesProofs.                 *)
(***************************************************************************)
THEOREM FatedAlways == Spec => [](IInv /\ Fated)
  <1>1. Init => IInv /\ Fated
    BY Start, FatedStart
  <1>2. (IInv /\ Fated) /\ [Next]_vars => (IInv /\ Fated)'
    BY EveryStep, FatedStep
  <1> QED
    BY <1>1, <1>2, PTL DEF Spec

-----------------------------------------------------------------------------
(***************************************************************************)
(* What the invariant says.                                                *)
(***************************************************************************)

(* Two ways to say that a program can settle a promise beside its pair.    *)
LEMMA OverridesSame == Overriding(program) <=> Overrides
  BY DEF Overriding, Getting, Overrides

(* What the invariant says of the state the program is in.                 *)
LEMMA FatedFacts ==
  ASSUME IInv, Fated, NEW m, m = machine
  PROVE  /\ MachineOK(m) /\ Placed(m)
         /\ Answered(program, m, stack, held, 0, 0, {})
         /\ ReactionsShaped(program, m)
         /\ Overriding(program) \/ (Sole(m, stack, {}) /\ Adopted(m))
         /\ Getting(program) \/ (Owned(m, stack) /\ GroupsOK(m, 0))
  BY DEF IInv, StateOK, Sound, Fated, Fate, Shape

(* Nothing is out of the tables but what has run.                          *)
LEMMA DueWaiting ==
  ASSUME NEW m, MachineOK(m)
  PROVE  /\ \A r \in Due(m, 0) : r \in Waiting(m)
         /\ \A r \in ReactionId(m) : r \in Due(m, 0) \/ r \in Told(m, 0)
         /\ \A g : DueTo(m, 0, g) \subseteq Waiting(m)
         /\ \A r \in m.taken : r \in ReactionId(m)
         /\ Told(m, 0) \subseteq m.taken /\ 0 \notin ReactionId(m)
  <1>1. m.taken \subseteq ReactionId(m)
    BY DEF MachineOK
  <1>2. 0 \notin ReactionId(m)
    BY FieldTypes DEF ReactionId
  <1>3. \A r \in Due(m, 0) : r \in Waiting(m)
    BY <1>2 DEF Due, Waiting
  <1>4. \A r \in ReactionId(m) : r \in Due(m, 0) \/ r \in Told(m, 0)
    BY <1>2 DEF Due, Told
  <1>5. \A g : DueTo(m, 0, g) \subseteq Waiting(m)
    BY <1>3 DEF DueTo
  <1> QED
    BY <1>1, <1>2, <1>3, <1>4, <1>5 DEF Told

(* With nothing queued, what waits is parked.                              *)
LEMMA QuietParked ==
  ASSUME NEW m, Placed(m), m.queue = <<>>, NEW r \in Waiting(m)
  PROVE  Parked(m, r)
  <1>1. ~ \E i \in 1 .. Len(m.queue) : m.queue[i] = r
    <2>1. Len(<<>>) = 0 /\ 1 .. 0 = {}
      BY EmptySeq
    <2> QED
      BY <2>1
  <1> QED
    BY <1>1 DEF Placed, NoneMissing

(* A group that counts somebody has a member still to be heard.            *)
LEMMA CountsSomebody ==
  ASSUME NEW m, NEW g, Counting(m, 0, 0, g)
  PROVE  \E r : r \in DueTo(m, 0, g)
  <1>1. Joining(m, 0, g) = 0
    BY DEF Joining
  <1>2. Cardinality({}) = 0
    BY FS_EmptySet
  <1>3. ASSUME DueTo(m, 0, g) = {} PROVE FALSE
    <2>1. m.groups[g].remaining = 0
      BY <1>1, <1>2, <1>3 DEF Counting
    <2>2. m.groups[g].remaining >= 1
      BY DEF Counting
    <2> QED
      BY <2>1, <2>2
  <1> QED
    BY <1>3

(* What is live can be answered.                                           *)
LEMMA LiveAnswerable ==
  ASSUME NEW u, NEW m, MachineOK(m), ReactionsShaped(u, m), NEW p,
         Live(m, stack, held, 0, 0, p)
  PROVE  Answerable(m, p)
  <1>1. CASE \E r \in Waiting(m) : ReactionFor(m, r, p)
    BY <1>1 DEF ReactionFor, Answerable
  <1>2. CASE \E i \in 1 .. Len(stack) : FrameFor(stack[i], p)
    BY <1>2 DEF FrameFor, Answerable
  <1>3. CASE \E k \in 1 .. Len(m.pairs) : PairFor(m, k, p) /\ Reached(m, held, 0, k)
    <2>1. PICK k \in 1 .. Len(m.pairs) : PairFor(m, k, p) /\ Reached(m, held, 0, k)
      BY <1>3
    <2>2. Usable(m, k)
      <3>1. k \in held \/ \E r \in Due(m, 0) : PairOf(m, r) = k
        BY <2>1 DEF Reached
      <3> QED
        BY <3>1, DueWaiting DEF PairOf, Usable
    <2> QED
      BY <2>1, <2>2 DEF PairFor, Answerable
  <1>4. CASE \E g \in 1 .. Len(m.groups) : m.groups[g].result = p /\ Counting(m, 0, 0, g)
    <2>1. PICK g \in 1 .. Len(m.groups) : m.groups[g].result = p /\ Counting(m, 0, 0, g)
      BY <1>4
    <2>2. PICK r : r \in DueTo(m, 0, g)
      BY <2>1, CountsSomebody
    <2>3. r \in Waiting(m) /\ r \in ReactionId(m) /\ MemberOf(m, r, g)
      BY <2>2, DueWaiting DEF DueTo, Waiting
    <2>4. m.reactions[r].target = p
      BY <2>1, <2>3 DEF MemberOf, ReactionsShaped, ReactionShape
    <2> QED
      BY <2>3, <2>4 DEF Answerable
  <1> QED
    BY <1>1, <1>2, <1>3, <1>4 DEF Live

(* Whatever is pending can still be settled.                               *)
LEMMA Orphans ==
  ASSUME IInv, Fated
  PROVE  NothingOrphaned
  <1>1. PICK m : m = machine
    OBVIOUS
  <1> SUFFICES ASSUME "emptyRace" \notin program.ops,
                      NEW p \in Promise(m), m.state[p] = "pending"
               PROVE  Answerable(m, p)
    BY <1>1 DEF NothingOrphaned
  <1>2. /\ MachineOK(m) /\ ReactionsShaped(program, m)
        /\ Answered(program, m, stack, held, 0, 0, {})
    BY <1>1, FatedFacts
  <1>3. Live(m, stack, held, 0, 0, p)
    BY <1>2 DEF Answered, Expected
  <1> QED
    BY <1>2, <1>3, LiveAnswerable

(* A queued job is the only thing that can settle its promise.             *)
LEMMA DecidesOnce ==
  ASSUME IInv, Fated
  PROVE  DecidedOnceAsPromised
  <1>1. PICK m : m = machine
    OBVIOUS
  <1> SUFFICES ASSUME ~Overrides, NEW r \in Waiting(m), m.reactions[r].kind = "thenable"
               PROVE  m.state[m.reactions[r].target] = "pending"
    BY <1>1 DEF DecidedOnceAsPromised, DecidedOnce, JobsDecide
  <1>2. PICK p : p = m.reactions[r].target
    OBVIOUS
  <1>3. MachineOK(m) /\ Sole(m, stack, {})
    BY <1>1, FatedFacts, OverridesSame
  <1>4. r \in ReactionId(m) /\ p \in Promise(m)
    BY <1>2, <1>3, Named DEF Waiting
  <1>5. <<"reaction", r>> \in Claims(m, stack, p)
    BY <1>2 DEF Claims, ReactionFor
  <1> QED
    BY <1>2, <1>3, <1>4, <1>5 DEF Sole

(* With nothing queued, what adopted a settled promise has its outcome.    *)
LEMMA AdoptedOutcome ==
  ASSUME NEW m, MachineOK(m), Placed(m), m.queue = <<>>, NEW u, ReactionsShaped(u, m),
         Adopted(m), NEW r \in AdoptionJobs(m),
         NEW q, q = m.reactions[r].value.id, m.state[q] # "pending"
  PROVE  SameOutcome(m, m.reactions[r].target, q)
  <1>1. r \in ReactionId(m) /\ m.reactions[r].kind = "thenable"
    BY DEF AdoptionJobs
  <1>2. Source(m, r) = 0
    BY <1>1 DEF ReactionsShaped, ReactionShape, JobShape, Source
  <1>3. r \in m.taken
    <2>1. ~Parked(m, r)
      BY <1>2 DEF Parked
    <2> QED
      BY <1>1, <2>1, QuietParked DEF Waiting
  <1>4. PICK k \in 1 .. Len(m.pairs) : AdoptedBy(m, r, k)
    BY <1>3 DEF Adopted
  <1>5. CASE m.pairs[k].spent
    BY <1>4, <1>5 DEF AdoptedBy
  <1>6. CASE ~m.pairs[k].spent
    <2>1. PICK j \in Waiting(m) : Source(m, j) = q
      BY <1>4, <1>6 DEF AdoptedBy
    <2>2. Parked(m, j)
      BY QuietParked
    <2> QED
      BY <2>1, <2>2 DEF Parked
  <1> QED
    BY <1>5, <1>6

(* Between two turns they agree.                                           *)
LEMMA Agrees ==
  ASSUME IInv, Fated
  PROVE  ResolvedWithAgrees
  <1>1. PICK m : m = machine
    OBVIOUS
  <1> SUFFICES ASSUME Idle, ~Overrides, NEW r \in AdoptionJobs(m),
                      m.state[m.reactions[r].value.id] # "pending"
               PROVE  SameOutcome(m, m.reactions[r].target, m.reactions[r].value.id)
    BY <1>1 DEF ResolvedWithAgrees, AdoptedAgree
  <1>2. MachineOK(m) /\ Placed(m) /\ ReactionsShaped(program, m) /\ Adopted(m)
    BY <1>1, FatedFacts, OverridesSame
  <1>3. m.queue = <<>>
    BY <1>1 DEF Idle
  <1> QED
    BY <1>2, <1>3, AdoptedOutcome

(* What a group that has settled says of the members that were heard.      *)
LEMMA HeardAnswers ==
  ASSUME NEW m, MachineOK(m), Placed(m), NEW g \in 1 .. Len(m.groups), GroupOK(m, 0, g),
         NEW kind, kind = m.groups[g].kind, NEW how, how = m.state[m.groups[g].result],
         how # "pending", ~Decides(kind, how), kind # "race",
         NEW hows, hows = {w \in Settled : ~Decides(kind, w)},
         \A w \in Settled : Decides(kind, w) => w # how
  PROVE  AllAnswered(m, g, hows)
  <1>1. PICK p : p = m.groups[g].result
    OBVIOUS
  <1>2. ~ \E r \in ToldTo(m, 0, g) : Decided(m, g, r) /\ SameOutcome(m, p, Source(m, r))
    BY <1>1 DEF Decided, SameOutcome
  <1>3. DueTo(m, 0, g) = {} /\ \A r \in ToldTo(m, 0, g) : ~Decided(m, g, r)
    BY <1>1, <1>2 DEF GroupOK
  <1> SUFFICES ASSUME NEW r \in Members(m, g)
               PROVE  /\ m.state[Source(m, r)] \in hows
                      /\ m.groups[g].values[m.reactions[r].slot] = m.value[Source(m, r)]
    BY DEF AllAnswered
  <1>4. r \in ReactionId(m) /\ MemberOf(m, r, g)
    BY DEF Members, MemberOf
  <1>5. r \in Told(m, 0)
    BY <1>3, <1>4, DueWaiting DEF DueTo
  <1>6. r \in ToldTo(m, 0, g) /\ r \in m.taken
    BY <1>4, <1>5, DueWaiting DEF ToldTo
  <1>7. Source(m, r) \in Promise(m) /\ Source(m, r) # 0
    <2>1. Source(m, r) \in Promise(m)
      BY <1>4, Named DEF MemberOf
    <2> QED
      BY <2>1, FieldTypes DEF Promise
  <1>8. m.state[Source(m, r)] # "pending"
    BY <1>6, <1>7 DEF Placed, RunInOrder, Parked
  <1>9. m.state[Source(m, r)] \in Settled
    BY <1>7, <1>8 DEF MachineOK, Machine, State, Promise
  <1>10. ~Decided(m, g, r)
    BY <1>3, <1>6
  <1>11. m.groups[g].values[m.reactions[r].slot] = m.value[Source(m, r)]
    BY <1>6, <1>10 DEF GroupOK
  <1> QED
    BY <1>9, <1>10, <1>11 DEF Decided

(* A group whose members have all settled has answered by the time the     *)
(* queue is empty.                                                         *)
LEMMA QuietAnswers ==
  ASSUME NEW u, NEW m, MachineOK(m), Placed(m), m.queue = <<>>, stack = <<>>,
         Answered(u, m, stack, held, 0, 0, {}), Owned(m, stack),
         NEW g \in 1 .. Len(m.groups),
         \A r \in Members(m, g) : m.state[Source(m, r)] # "pending"
  PROVE  m.state[m.groups[g].result] # "pending"
  <1>1. PICK p : p = m.groups[g].result
    OBVIOUS
  <1> SUFFICES ASSUME m.state[p] = "pending" PROVE FALSE
    BY <1>1
  <1>2. p \in Promise(m) /\ Expected(u, m, p)
    BY <1>1, Named DEF Expected, Grouped
  <1>3. Live(m, stack, held, 0, 0, p)
    BY <1>2 DEF Answered
  <1>4. Untargeted(m, stack, p)
    BY <1>1 DEF Owned
  <1>5. ~ \E i \in 1 .. Len(stack) : FrameFor(stack[i], p)
    BY <1>4 DEF Untargeted, FrameFor, Answering
  <1>6. PICK f \in 1 .. Len(m.groups) : m.groups[f].result = p /\ Counting(m, 0, 0, f)
    BY <1>3, <1>4, <1>5 DEF Live, Untargeted
  <1>7. f = g
    BY <1>1, <1>6 DEF Owned
  <1>8. PICK r : r \in DueTo(m, 0, g)
    BY <1>6, <1>7, CountsSomebody
  <1>9. r \in Waiting(m) /\ r \in Members(m, g)
    BY <1>8, DueWaiting DEF DueTo, MemberOf, Members, Waiting
  <1>10. Parked(m, r)
    BY <1>9, QuietParked
  <1> QED
    BY <1>9, <1>10 DEF Parked

(* A combinator answers for its members.                                   *)
LEMMA Groups ==
  ASSUME IInv, Fated
  PROVE  GroupsAnswer
  <1>1. PICK m : m = machine
    OBVIOUS
  <1> SUFFICES ASSUME "getter" \notin program.offered, NEW g \in 1 .. Len(m.groups)
               PROVE  GroupAnswers(m, g, Idle)
    BY <1>1 DEF GroupsAnswer
  <1>2. /\ MachineOK(m) /\ Placed(m) /\ Answered(program, m, stack, held, 0, 0, {})
        /\ Owned(m, stack) /\ GroupsOK(m, 0)
    BY <1>1, FatedFacts DEF Getting
  <1>3. GroupOK(m, 0, g)
    BY <1>2 DEF GroupsOK
  <1>4. PICK kind : kind = m.groups[g].kind
    OBVIOUS
  <1>5. PICK how : how = m.state[m.groups[g].result]
    OBVIOUS
  <1>6. \A hows : /\ hows = {w \in Settled : ~Decides(kind, w)}
                  /\ how # "pending" /\ ~Decides(kind, how) /\ kind # "race"
                  => AllAnswered(m, g, hows)
    <2> SUFFICES ASSUME NEW hows, hows = {w \in Settled : ~Decides(kind, w)},
                        how # "pending", ~Decides(kind, how), kind # "race"
                 PROVE  AllAnswered(m, g, hows)
      OBVIOUS
    <2>1. \A w \in Settled : Decides(kind, w) => w # how
      OBVIOUS
    <2> QED
      BY <2>1, <1>2, <1>3, <1>4, <1>5, HeardAnswers
  <1>7. kind = "all" /\ how = "fulfilled" => AllAnswered(m, g, {"fulfilled"})
    <2>1. kind = "all" => {"fulfilled"} = {w \in Settled : ~Decides(kind, w)}
      BY DEF Decides, Settled
    <2>2. kind = "all" /\ how = "fulfilled" => ~Decides(kind, how)
      BY DEF Decides
    <2> QED
      BY <2>1, <2>2, <1>6
  <1>8. kind = "any" /\ how = "rejected" => AllAnswered(m, g, {"rejected"})
    <2>1. kind = "any" => {"rejected"} = {w \in Settled : ~Decides(kind, w)}
      BY DEF Decides, Settled
    <2>2. kind = "any" /\ how = "rejected" => ~Decides(kind, how)
      BY DEF Decides
    <2> QED
      BY <2>1, <2>2, <1>6
  <1>9. kind = "allSettled" /\ how # "pending" => AllAnswered(m, g, Settled)
    <2>1. kind = "allSettled" => Settled = {w \in Settled : ~Decides(kind, w)}
      BY DEF Decides, Settled
    <2>2. kind = "allSettled" => ~Decides(kind, how)
      BY DEF Decides
    <2> QED
      BY <2>1, <2>2, <1>6
  <1>10. how # "pending" /\ Decides(kind, how)
           => \E r \in Members(m, g) : SameOutcome(m, m.groups[g].result, Source(m, r))
    <2>1. ASSUME how # "pending", Decides(kind, how)
          PROVE  \E r \in ToldTo(m, 0, g) : SameOutcome(m, m.groups[g].result, Source(m, r))
      BY <2>1, <1>3, <1>4, <1>5 DEF GroupOK
    <2>2. ToldTo(m, 0, g) \subseteq Members(m, g)
      BY <1>2, DueWaiting DEF ToldTo, Members, MemberOf
    <2> QED
      BY <2>1, <2>2
  <1>11. Idle /\ (\A r \in Members(m, g) : m.state[Source(m, r)] # "pending")
           => how # "pending"
    BY <1>1, <1>2, <1>5, QuietAnswers DEF Idle
  <1> QED
    BY <1>4, <1>5, <1>7, <1>8, <1>9, <1>10, <1>11 DEF GroupAnswers

(* Nothing is orphaned: whatever is pending has a reaction, an unspent     *)
(* pair somebody can reach, a group still counting or a running piece of   *)
(* code that can settle it (state::settle, drain.rs, group.rs).            *)
THEOREM NobodyForgotten == Spec => []NothingOrphaned
  <1>1. IInv /\ Fated => NothingOrphaned
    BY Orphans
  <1> QED
    BY <1>1, FatedAlways, PTL

(* A promise is decided once, in every program without code that throws    *)
(* past its settlers: while a thenable job waits nothing else has settled  *)
(* its promise (class.rs, "a promise resolves once").                      *)
THEOREM DecidedByOne == Spec => []DecidedOnceAsPromised
  <1>1. IInv /\ Fated => DecidedOnceAsPromised
    BY DecidesOnce
  <1> QED
    BY <1>1, FatedAlways, PTL

(* Between two turns a promise resolved with another native promise has    *)
(* its outcome, once that one has settled (drain.rs, Step::Adopt).         *)
THEOREM AdoptersAgree == Spec => []ResolvedWithAgrees
  <1>1. IInv /\ Fated => ResolvedWithAgrees
    BY Agrees
  <1> QED
    BY <1>1, FatedAlways, PTL

(* Combinators answer for their members: never early, each value in its    *)
(* slot, and never left unanswered between two turns (group.rs).           *)
THEOREM CombinatorsAnswer == Spec => []GroupsAnswer
  <1>1. IInv /\ Fated => GroupsAnswer
    BY Groups
  <1> QED
    BY <1>1, FatedAlways, PTL

=============================================================================
