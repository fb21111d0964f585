---------------------------- MODULE PromisesProofs ----------------------------
(***************************************************************************)
(* The theorems about module Promises.  The first half shows that every    *)
(* verb of the promise machine (module PromiseMachine) keeps a sound       *)
(* machine sound and forgets nothing; in the second every action of the    *)
(* program and of the drain is put together from those verbs.              *)
(***************************************************************************)
EXTENDS PromiseFates, SequenceTheorems, FiniteSetTheorems, TLAPS

(***************************************************************************)
(* What the proofs carry from one verb to the next: the types of the       *)
(* tables, the placement of the reactions, and the exactness of the        *)
(* report. `printed' are the rejections reported so far.                   *)
(***************************************************************************)
Sound(m, printed) == /\ MachineOK(m)
                     /\ Placed(m)
                     /\ printed \subseteq Promise(m)
                     /\ UnhandledExact(m, printed)

(***************************************************************************)
(* What no verb ever takes back: nothing recorded is forgotten, a settled  *)
(* promise stays settled as it is, and no reaction is taken out of the     *)
(* table (only the drain does that).                                       *)
(***************************************************************************)
Grows(m, n) ==
  /\ Len(m.state) <= Len(n.state)
  /\ \A p \in Promise(m) : m.state[p] # "pending" => /\ n.state[p] = m.state[p]
                                                     /\ n.value[p] = m.value[p]
  /\ Len(m.reactions) <= Len(n.reactions)
  /\ \A r \in ReactionId(m) : n.reactions[r] = m.reactions[r]
  /\ Len(m.pairs) <= Len(n.pairs)
  /\ Len(m.groups) <= Len(n.groups)
  /\ \A g \in 1 .. Len(m.groups) : Len(n.groups[g].values) = Len(m.groups[g].values)
  /\ n.taken = m.taken

(* The types of the fields of a machine, and of their lengths.             *)
LEMMA FieldTypes ==
  ASSUME NEW m, MachineOK(m)
  PROVE  /\ m.state \in Seq(State)
         /\ m.waiters \in Seq(Seq(Nat))
         /\ m.value \in Seq(Value)
         /\ m.unnoticed \in SUBSET Nat
         /\ m.reactions \in Seq(Reaction)
         /\ m.taken \in SUBSET Nat
         /\ m.queue \in Seq(Nat)
         /\ m.pairs \in Seq(Pair)
         /\ m.groups \in Seq(Group)
         /\ Len(m.state) \in Nat /\ Len(m.reactions) \in Nat
         /\ Len(m.pairs) \in Nat /\ Len(m.groups) \in Nat /\ Len(m.queue) \in Nat
         /\ Len(m.waiters) = Len(m.state) /\ Len(m.value) = Len(m.state)
  <1>1. m \in Machine
    BY DEF MachineOK
  <1>2. /\ m.state \in Seq(State)
        /\ m.waiters \in Seq(Seq(Nat))
        /\ m.value \in Seq(Value)
        /\ m.unnoticed \in SUBSET Nat
        /\ m.reactions \in Seq(Reaction)
        /\ m.taken \in SUBSET Nat
        /\ m.queue \in Seq(Nat)
        /\ m.pairs \in Seq(Pair)
        /\ m.groups \in Seq(Group)
    BY <1>1 DEF Machine
  <1> QED
    BY <1>2, LenProperties DEF MachineOK

(* The values the runtime makes up are values.                             *)
LEMMA UndefinedValue == Undefined \in Value /\ Made \in Value
  BY DEF Undefined, Made, Plain, Value

(* Create adds one pending promise and touches nothing else.               *)
LEMMA CreateFields ==
  ASSUME NEW m, MachineOK(m), NEW n, n = Create(m)
  PROVE  /\ n \in Machine
         /\ n.state = Append(m.state, "pending")
         /\ n.waiters = Append(m.waiters, <<>>)
         /\ n.value = Append(m.value, Undefined)
         /\ n.unnoticed = m.unnoticed /\ n.reactions = m.reactions
         /\ n.taken = m.taken /\ n.queue = m.queue
         /\ n.pairs = m.pairs /\ n.groups = m.groups
  <1>1. /\ Append(m.state, "pending") \in Seq(State)
        /\ Append(m.waiters, <<>>) \in Seq(Seq(Nat))
        /\ Append(m.value, Undefined) \in Seq(Value)
    BY FieldTypes, UndefinedValue, AppendProperties, EmptySeq DEF State
  <1> QED
    BY <1>1 DEF MachineOK, Create, Machine

(* A recorded reaction names a promise that exists as its source, or none. *)
LEMMA SourceIn ==
  ASSUME NEW m, MachineOK(m), NEW r \in ReactionId(m)
  PROVE  /\ m.reactions[r] \in Reaction /\ ReactionIn(m, m.reactions[r])
         /\ Source(m, r) \in Promise(m) \/ Source(m, r) = 0
         /\ Source(m, r) \in Nat
  BY FieldTypes, ElementOfSeq DEF MachineOK, ReactionIn, Source, ReactionId, Promise

(* A value keeps naming a promise that exists as promises are created.     *)
LEMMA ValueGrows ==
  ASSUME NEW m, NEW n, NEW v, ValueIn(m, v), Len(m.state) <= Len(n.state),
         Len(m.state) \in Nat, Len(n.state) \in Nat
  PROVE  ValueIn(n, v)
  BY DEF ValueIn, Promise

(* What a reaction names keeps existing as the machine grows.              *)
LEMMA ReactionGrows ==
  ASSUME NEW m, NEW n, MachineOK(m), n \in Machine, Grows(m, n),
         NEW x \in Reaction, ReactionIn(m, x)
  PROVE  ReactionIn(n, x)
  <1>1. /\ Len(m.state) \in Nat /\ Len(m.pairs) \in Nat /\ Len(m.groups) \in Nat
        /\ Len(n.state) \in Nat /\ Len(n.pairs) \in Nat /\ Len(n.groups) \in Nat
    BY FieldTypes, LenProperties DEF Machine
  <1>2. ValueIn(n, x.value)
    BY <1>1, ValueGrows DEF ReactionIn, Grows
  <1>3. CallableIn(n, x.ful) /\ CallableIn(n, x.rej)
    BY <1>1 DEF ReactionIn, CallableIn, Grows
  <1>4. x.kind = "member" => /\ x.group \in 1 .. Len(n.groups)
                             /\ x.slot \in 1 .. Len(n.groups[x.group].values)
    BY <1>1, SMTT(60) DEF ReactionIn, Grows
  <1> QED
    BY <1>1, <1>2, <1>3, <1>4 DEF ReactionIn, Grows, Promise

(***************************************************************************)
(* Creating a promise keeps a sound machine sound: the new promise has no  *)
(* reaction, and no reaction waits on it (Machine::create).                *)
(***************************************************************************)
LEMMA CreateSound ==
  ASSUME NEW m, NEW printed, Sound(m, printed), NEW n, n = Create(m)
  PROVE  /\ Sound(n, printed) /\ Grows(m, n)
         /\ Len(n.state) = Len(m.state) + 1 /\ n.state[Len(n.state)] = "pending"
  <1>a. MachineOK(m) /\ Placed(m) /\ printed \subseteq Promise(m) /\ UnhandledExact(m, printed)
    BY DEF Sound
  <1>f. /\ n.state = Append(m.state, "pending")
        /\ n.waiters = Append(m.waiters, <<>>)
        /\ n.value = Append(m.value, Undefined)
        /\ n.unnoticed = m.unnoticed /\ n.reactions = m.reactions
        /\ n.taken = m.taken /\ n.queue = m.queue
        /\ n.pairs = m.pairs /\ n.groups = m.groups
        /\ n \in Machine
    BY <1>a, CreateFields
  <1>t. /\ m.state \in Seq(State) /\ m.waiters \in Seq(Seq(Nat)) /\ m.value \in Seq(Value)
        /\ Len(m.state) \in Nat /\ Len(m.reactions) \in Nat
        /\ Len(m.pairs) \in Nat /\ Len(m.groups) \in Nat
        /\ Len(m.waiters) = Len(m.state) /\ Len(m.value) = Len(m.state)
    BY <1>a, FieldTypes
  <1>s. /\ Len(n.state) = Len(m.state) + 1
        /\ Len(n.waiters) = Len(n.state) /\ Len(n.value) = Len(n.state)
        /\ \A p \in Promise(m) : /\ n.state[p] = m.state[p] /\ n.waiters[p] = m.waiters[p]
                                 /\ n.value[p] = m.value[p]
        /\ n.state[Len(m.state) + 1] = "pending"
        /\ n.waiters[Len(m.state) + 1] = <<>> /\ Len(<<>>) = 0
        /\ n.value[Len(m.state) + 1] = Undefined
        /\ Len(n.state) \in Nat /\ Len(m.state) <= Len(n.state)
    <2>1. "pending" \in State /\ <<>> \in Seq(Nat) /\ Len(<<>>) = 0
      BY EmptySeq DEF State
    <2>2. /\ Len(n.state) = Len(m.state) + 1 /\ n.state[Len(m.state) + 1] = "pending"
          /\ \A p \in Promise(m) : n.state[p] = m.state[p]
      BY <1>f, <1>t, <2>1, AppendProperties DEF Promise
    <2>3. /\ Len(n.waiters) = Len(m.state) + 1 /\ n.waiters[Len(m.state) + 1] = <<>>
          /\ \A p \in Promise(m) : n.waiters[p] = m.waiters[p]
      BY <1>f, <1>t, <2>1, AppendProperties DEF Promise
    <2>4. /\ Len(n.value) = Len(m.state) + 1 /\ n.value[Len(m.state) + 1] = Undefined
          /\ \A p \in Promise(m) : n.value[p] = m.value[p]
      BY <1>f, <1>t, UndefinedValue, AppendProperties DEF Promise
    <2> QED
      BY <2>1, <2>2, <2>3, <2>4, <1>t
  <1>p. Promise(n) = Promise(m) \cup {Len(m.state) + 1} /\ ReactionId(n) = ReactionId(m)
    BY <1>f, <1>s, <1>t DEF Promise, ReactionId
  <1>g. Grows(m, n)
    <2>1. /\ Len(m.reactions) <= Len(n.reactions) /\ Len(m.pairs) <= Len(n.pairs)
          /\ Len(m.groups) <= Len(n.groups)
      BY <1>f, <1>t
    <2> QED
      BY <2>1, <1>f, <1>s DEF Grows
  <1>1. MachineOK(n)
    <2>2. \A p \in Promise(n) : ValueIn(n, n.value[p])
      <3>1. ValueIn(n, Undefined)
        BY UndefinedValue DEF ValueIn, Undefined, Plain
      <3>2. \A p \in Promise(m) : ValueIn(n, n.value[p])
        <4>1. \A p \in Promise(m) : ValueIn(m, n.value[p])
          BY <1>a, <1>s DEF MachineOK
        <4> QED
          BY <4>1, <1>s, <1>t, ValueGrows
      <3> QED
        BY <3>1, <3>2, <1>p, <1>s
    <2>3. \A r \in ReactionId(n) : ReactionIn(n, n.reactions[r])
      BY <1>a, <1>f, <1>g, <1>p, SourceIn, ReactionGrows
    <2> QED
      BY <1>a, <1>f, <1>s, <1>p, <2>2, <2>3 DEF MachineOK, ReactionId
  <1>w. /\ Waiting(n) = Waiting(m)
        /\ \A r \in ReactionId(m) : Source(n, r) = Source(m, r) /\ (Parked(n, r) <=> Parked(m, r))
        /\ \A p \in Promise(m) : Watched(n, p) <=> Watched(m, p)
    <2>1. Waiting(n) = Waiting(m) /\ \A r \in ReactionId(m) : Source(n, r) = Source(m, r)
      BY <1>f DEF Waiting, ReactionId, Source
    <2>2. \A r \in ReactionId(m) : Source(m, r) \in Promise(m) \/ Source(m, r) = 0
      BY <1>a, SourceIn
    <2>3. \A r \in ReactionId(m) : Parked(n, r) <=> Parked(m, r)
      BY <2>1, <2>2, <1>s DEF Parked
    <2>4. \A p \in Promise(m) : Watched(n, p) <=> Watched(m, p)
      BY <2>1, <1>p DEF Watched
    <2> QED
      BY <2>1, <2>3, <2>4
  <1>2. Placed(n)
    <2>1. WaitersPlaced(n)
      <3> SUFFICES ASSUME NEW p \in Promise(n), NEW i \in 1 .. Len(n.waiters[p])
                   PROVE  /\ n.waiters[p][i] \in Waiting(n) /\ Source(n, n.waiters[p][i]) = p
                          /\ n.state[p] = "pending"
                          /\ \A j \in 1 .. (i - 1) : n.waiters[p][j] < n.waiters[p][i]
        BY DEF WaitersPlaced
      <3>1. p \in Promise(m) /\ i \in 1 .. Len(m.waiters[p]) /\ n.waiters[p] = m.waiters[p]
        BY <1>p, <1>s
      <3>2. /\ m.waiters[p][i] \in Waiting(m) /\ Source(m, m.waiters[p][i]) = p
            /\ m.state[p] = "pending"
            /\ \A j \in 1 .. (i - 1) : m.waiters[p][j] < m.waiters[p][i]
        BY <3>1, <1>a DEF Placed, WaitersPlaced
      <3> QED
        BY <3>1, <3>2, <1>s, <1>w DEF Waiting
    <2>2. QueuePlaced(n)
      BY <1>a, <1>f, <1>p, <1>w DEF Placed, QueuePlaced, Waiting
    <2>3. NoneMissing(n)
      <3> SUFFICES ASSUME NEW r \in Waiting(m)
                   PROVE  IF Parked(n, r)
                          THEN \E i \in 1 .. Len(n.waiters[Source(n, r)]) :
                                 n.waiters[Source(n, r)][i] = r
                          ELSE \E i \in 1 .. Len(n.queue) : n.queue[i] = r
        BY <1>w DEF NoneMissing
      <3>1. r \in ReactionId(m)
        BY DEF Waiting
      <3>2. Parked(m, r) => n.waiters[Source(n, r)] = m.waiters[Source(m, r)]
        BY <3>1, <1>a, <1>s, <1>w, SourceIn DEF Parked
      <3> QED
        BY <3>1, <3>2, <1>a, <1>f, <1>w DEF Placed, NoneMissing
    <2>4. RunInOrder(n)
      <3> SUFFICES ASSUME NEW r \in m.taken
                   PROVE  /\ ~Parked(n, r)
                          /\ \A e \in 1 .. (r - 1) :
                               Source(n, e) = Source(n, r) /\ Source(n, r) # 0 => e \in m.taken
        BY <1>f DEF RunInOrder
      <3>1. r \in ReactionId(m) /\ \A e \in 1 .. (r - 1) : e \in ReactionId(m)
        BY <1>a, <1>t DEF MachineOK, ReactionId
      <3> QED
        BY <3>1, <1>a, <1>w DEF Placed, RunInOrder
    <2> QED
      BY <2>1, <2>2, <2>3, <2>4 DEF Placed
  <1>3. UnhandledExact(n, printed)
    BY <1>a, <1>f, <1>s, <1>p, <1>w, <1>t DEF UnhandledExact, MachineOK, Promise
  <1> QED
    BY <1>a, <1>1, <1>2, <1>3, <1>g, <1>s, <1>p DEF Sound

(* Leaving the machine alone forgets nothing.                              *)
LEMMA GrowsRefl ==
  ASSUME NEW m, MachineOK(m)
  PROVE  Grows(m, m)
  BY FieldTypes DEF Grows

(* Two steps that forget nothing forget nothing together.                  *)
LEMMA GrowsTrans ==
  ASSUME NEW m, NEW n, NEW o, m \in Machine, n \in Machine, o \in Machine,
         Grows(m, n), Grows(n, o)
  PROVE  Grows(m, o)
  <1>1. /\ Len(m.state) \in Nat /\ Len(m.reactions) \in Nat
        /\ Len(m.pairs) \in Nat /\ Len(m.groups) \in Nat
        /\ Len(n.state) \in Nat /\ Len(n.reactions) \in Nat
        /\ Len(n.pairs) \in Nat /\ Len(n.groups) \in Nat
        /\ Len(o.state) \in Nat /\ Len(o.reactions) \in Nat
        /\ Len(o.pairs) \in Nat /\ Len(o.groups) \in Nat
    BY LenProperties DEF Machine
  <1>2. /\ Len(m.state) <= Len(o.state) /\ Len(m.reactions) <= Len(o.reactions)
        /\ Len(m.pairs) <= Len(o.pairs) /\ Len(m.groups) <= Len(o.groups)
    <2>1. /\ Len(m.state) <= Len(n.state) /\ Len(m.reactions) <= Len(n.reactions)
          /\ Len(m.pairs) <= Len(n.pairs) /\ Len(m.groups) <= Len(n.groups)
          /\ Len(n.state) <= Len(o.state) /\ Len(n.reactions) <= Len(o.reactions)
          /\ Len(n.pairs) <= Len(o.pairs) /\ Len(n.groups) <= Len(o.groups)
      BY DEF Grows
    <2>2. Len(m.state) <= Len(o.state)
      BY <1>1, <2>1, SMTT(60)
    <2>3. Len(m.reactions) <= Len(o.reactions)
      BY <1>1, <2>1
    <2>4. Len(m.pairs) <= Len(o.pairs)
      BY <1>1, <2>1
    <2>5. Len(m.groups) <= Len(o.groups)
      BY <1>1, <2>1
    <2> QED
      BY <2>2, <2>3, <2>4, <2>5
  <1>3. \A p \in Promise(m) : m.state[p] # "pending" => /\ o.state[p] = m.state[p]
                                                        /\ o.value[p] = m.value[p]
    <2>1. \A p \in Promise(m) : p \in Promise(n)
      BY <1>1 DEF Grows, Promise
    <2> QED
      BY <2>1 DEF Grows
  <1>4. \A r \in ReactionId(m) : o.reactions[r] = m.reactions[r]
    BY <1>1 DEF Grows, ReactionId
  <1>5. \A g \in 1 .. Len(m.groups) : Len(o.groups[g].values) = Len(m.groups[g].values)
    <2>1. \A g \in 1 .. Len(m.groups) : g \in 1 .. Len(n.groups)
      BY <1>1 DEF Grows
    <2> QED
      BY <2>1 DEF Grows
  <1> QED
    BY <1>2, <1>3, <1>4, <1>5 DEF Grows

(* What settling a pending promise does to each field.                     *)
SettlesAs(m, n, p, how, v) ==
  /\ n \in Machine
  /\ Len(n.state) = Len(m.state) /\ Len(n.value) = Len(m.value)
  /\ Len(n.waiters) = Len(m.waiters)
  /\ \A q \in Promise(m) : /\ n.state[q] = IF q = p THEN how ELSE m.state[q]
                           /\ n.value[q] = IF q = p THEN v ELSE m.value[q]
                           /\ n.waiters[q] = IF q = p THEN <<>> ELSE m.waiters[q]
  /\ n.queue = m.queue \o m.waiters[p]
  /\ n.unnoticed = IF how = "rejected" /\ m.waiters[p] = <<>>
                   THEN m.unnoticed \cup {p} ELSE m.unnoticed
  /\ n.reactions = m.reactions /\ n.taken = m.taken
  /\ n.pairs = m.pairs /\ n.groups = m.groups

(* Settle on a pending promise does just that.                             *)
LEMMA SettleFields ==
  ASSUME NEW m, MachineOK(m), NEW p \in Promise(m), m.state[p] = "pending",
         NEW how \in Settled, NEW v \in Value, NEW n, n = Settle(m, p, how, v)
  PROVE  SettlesAs(m, n, p, how, v)
  <1>1. /\ p \in 1 .. Len(m.state) /\ p \in 1 .. Len(m.waiters) /\ p \in 1 .. Len(m.value)
        /\ p \in Nat /\ how \in State
    BY FieldTypes DEF Promise, State
  <1>2. <<>> \in Seq(Nat) /\ m.waiters[p] \in Seq(Nat)
    BY <1>1, FieldTypes, EmptySeq, ElementOfSeq
  <1>f. /\ n.state = [m.state EXCEPT ![p] = how]
        /\ n.value = [m.value EXCEPT ![p] = v]
        /\ n.waiters = [m.waiters EXCEPT ![p] = <<>>]
        /\ n.queue = m.queue \o m.waiters[p]
        /\ n.unnoticed = IF how = "rejected" /\ m.waiters[p] = <<>>
                         THEN m.unnoticed \cup {p} ELSE m.unnoticed
        /\ n.reactions = m.reactions /\ n.taken = m.taken
        /\ n.pairs = m.pairs /\ n.groups = m.groups
    BY DEF MachineOK, Machine, Settle
  <1>s. /\ n.state \in Seq(State) /\ Len(n.state) = Len(m.state)
        /\ \A q \in Promise(m) : n.state[q] = IF q = p THEN how ELSE m.state[q]
    BY <1>1, <1>f, FieldTypes, ExceptSeq DEF Promise
  <1>v. /\ n.value \in Seq(Value) /\ Len(n.value) = Len(m.value)
        /\ \A q \in Promise(m) : n.value[q] = IF q = p THEN v ELSE m.value[q]
    BY <1>1, <1>f, FieldTypes, ExceptSeq, SMTT(60) DEF Promise
  <1>w. /\ n.waiters \in Seq(Seq(Nat)) /\ Len(n.waiters) = Len(m.waiters)
        /\ \A q \in Promise(m) : n.waiters[q] = IF q = p THEN <<>> ELSE m.waiters[q]
    BY <1>1, <1>2, <1>f, FieldTypes, ExceptSeq, SMTT(60) DEF Promise
  <1>3. n \in Machine
    <2>1. n.queue \in Seq(Nat) /\ n.unnoticed \in SUBSET Nat
      BY <1>1, <1>2, <1>f, FieldTypes, ConcatProperties
    <2> QED
      BY <2>1, <1>s, <1>v, <1>w DEF MachineOK, Settle, Machine
  <1> QED
    BY <1>3, <1>f, <1>s, <1>v, <1>w DEF SettlesAs

(***************************************************************************)
(* Settling keeps a sound machine sound: every waiter goes to the queue    *)
(* once and in order, behind what was there, and the promise is up for the *)
(* report exactly if it had no waiter (state::settle).                     *)
(***************************************************************************)
LEMMA SettleSound ==
  ASSUME NEW m, NEW printed, Sound(m, printed), NEW p \in Promise(m),
         NEW how \in Settled, NEW v \in Value, ValueIn(m, v),
         NEW n, n = Settle(m, p, how, v)
  PROVE  /\ Sound(n, printed) /\ Grows(m, n)
         /\ Len(n.state) = Len(m.state) /\ n.reactions = m.reactions
         /\ n.pairs = m.pairs /\ n.groups = m.groups
  <1>a. MachineOK(m) /\ Placed(m) /\ printed \subseteq Promise(m) /\ UnhandledExact(m, printed)
    BY DEF Sound
  <1>1. CASE m.state[p] # "pending"
    <2>1. n = m
      BY <1>1 DEF Settle
    <2> QED
      BY <2>1, <1>a, GrowsRefl
  <1>2. CASE m.state[p] = "pending"
    <2>c. PICK ws : ws = m.waiters[p]
      OBVIOUS
    <2>b. SettlesAs(m, n, p, how, v)
      BY <1>2, <1>a, SettleFields
    <2>f. /\ n \in Machine
          /\ n.queue = m.queue \o ws
          /\ n.unnoticed = IF how = "rejected" /\ ws = <<>>
                           THEN m.unnoticed \cup {p} ELSE m.unnoticed
          /\ n.reactions = m.reactions /\ n.taken = m.taken
          /\ n.pairs = m.pairs /\ n.groups = m.groups
      BY <2>b, <2>c DEF SettlesAs
    <2>u. /\ Len(n.state) = Len(m.state) /\ Len(n.value) = Len(m.value)
          /\ Len(n.waiters) = Len(m.waiters)
          /\ \A q \in Promise(m) : /\ n.state[q] = IF q = p THEN how ELSE m.state[q]
                                   /\ n.value[q] = IF q = p THEN v ELSE m.value[q]
                                   /\ n.waiters[q] = IF q = p THEN <<>> ELSE m.waiters[q]
      BY <2>b DEF SettlesAs
    <2>t. /\ m.state \in Seq(State) /\ m.waiters \in Seq(Seq(Nat)) /\ m.value \in Seq(Value)
          /\ m.queue \in Seq(Nat)
          /\ Len(m.state) \in Nat /\ Len(m.reactions) \in Nat /\ Len(m.queue) \in Nat
          /\ Len(m.pairs) \in Nat /\ Len(m.groups) \in Nat
          /\ Len(m.waiters) = Len(m.state) /\ Len(m.value) = Len(m.state)
      BY <1>a, FieldTypes
    <2>p. p \in 1 .. Len(m.state) /\ p # 0 /\ how \in State /\ how # "pending"
      BY <2>t DEF Promise, State, Settled
    <2>s. /\ Len(n.state) = Len(m.state)
          /\ \A q \in Promise(m) : n.state[q] = IF q = p THEN how ELSE m.state[q]
      BY <2>u
    <2>v. /\ Len(n.value) = Len(m.state)
          /\ \A q \in Promise(m) : n.value[q] = IF q = p THEN v ELSE m.value[q]
      BY <2>u, <2>t
    <2>w. /\ Len(n.waiters) = Len(m.state) /\ Len(<<>>) = 0
          /\ \A q \in Promise(m) : n.waiters[q] = IF q = p THEN <<>> ELSE m.waiters[q]
          /\ ws \in Seq(Nat) /\ Len(ws) \in Nat
      <3>1. ws \in Seq(Nat)
        BY <2>c, <2>t, <2>p, ElementOfSeq
      <3>2. Len(<<>>) = 0 /\ Len(ws) \in Nat
        BY <3>1, EmptySeq, LenProperties
      <3> QED
        BY <3>1, <3>2, <2>u, <2>t
    <2>l. /\ Len(n.queue) = Len(m.queue) + Len(ws)
          /\ Len(m.queue) \in Nat /\ Len(ws) \in Nat
      BY <2>f, <2>t, <2>w, ConcatProperties
    <2>q. /\ \A i \in 1 .. Len(m.queue) : n.queue[i] = m.queue[i]
          /\ \A i \in 1 .. Len(ws) : n.queue[Len(m.queue) + i] = ws[i]
      <3>1. \A i \in 1 .. Len(m.queue) + Len(ws) :
              n.queue[i] = IF i <= Len(m.queue) THEN m.queue[i]
                           ELSE ws[i - Len(m.queue)]
        BY <2>f, <2>t, <2>w, ConcatProperties
      <3>2. \A i \in 1 .. Len(ws) :
              /\ Len(m.queue) + i \in 1 .. Len(m.queue) + Len(ws)
              /\ ~(Len(m.queue) + i <= Len(m.queue))
              /\ (Len(m.queue) + i) - Len(m.queue) = i
        BY <2>l
      <3>3. \A i \in 1 .. Len(m.queue) : i \in 1 .. Len(m.queue) + Len(ws)
        BY <2>l
      <3> QED
        BY <3>1, <3>2, <3>3
    <2>i. /\ Promise(n) = Promise(m) /\ ReactionId(n) = ReactionId(m) /\ Waiting(n) = Waiting(m)
          /\ \A r \in ReactionId(m) : Source(n, r) = Source(m, r)
      BY <2>f, <2>s DEF Promise, ReactionId, Waiting, Source
    <2>k. \A r \in ReactionId(m) : Parked(n, r) <=> Parked(m, r) /\ Source(m, r) # p
      BY <2>i, <2>s, <2>p, <1>2, <1>a, SourceIn DEF Parked
    <2>g. Grows(m, n)
      <3>1. \A q \in Promise(m) : m.state[q] # "pending" => /\ n.state[q] = m.state[q]
                                                            /\ n.value[q] = m.value[q]
        BY <1>2, <2>s, <2>v
      <3>2. /\ Len(m.reactions) <= Len(n.reactions) /\ Len(m.pairs) <= Len(n.pairs)
            /\ Len(m.groups) <= Len(n.groups) /\ Len(m.state) <= Len(n.state)
        BY <2>f, <2>t, <2>s
      <3> QED
        BY <3>1, <3>2, <2>f DEF Grows
    <2>1. MachineOK(n)
      <3>1. \A q \in Promise(n) : ValueIn(n, n.value[q])
        <4>1. \A q \in Promise(m) : ValueIn(m, n.value[q])
          BY <1>a, <2>v DEF MachineOK
        <4> QED
          BY <4>1, <2>i DEF ValueIn
      <3>2. \A r \in ReactionId(n) : ReactionIn(n, n.reactions[r])
        BY <1>a, <2>f, <2>g, <2>i, SourceIn, ReactionGrows
      <3>3. n.unnoticed \subseteq Promise(m)
        BY <1>a, <2>f DEF MachineOK
      <3> QED
        BY <1>a, <2>f, <2>s, <2>v, <2>w, <2>i, <3>1, <3>2, <3>3 DEF MachineOK
    <2>2. WaitersPlaced(n)
      <3> SUFFICES ASSUME NEW q \in Promise(m), NEW i \in 1 .. Len(n.waiters[q])
                   PROVE  /\ n.waiters[q][i] \in Waiting(n) /\ Source(n, n.waiters[q][i]) = q
                          /\ n.state[q] = "pending"
                          /\ \A j \in 1 .. (i - 1) : n.waiters[q][j] < n.waiters[q][i]
        BY <2>i DEF WaitersPlaced
      <3>1. q # p
        BY <2>w
      <3>2. n.waiters[q] = m.waiters[q] /\ n.state[q] = m.state[q]
        BY <3>1, <2>w, <2>s
      <3>3. /\ m.waiters[q][i] \in Waiting(m) /\ Source(m, m.waiters[q][i]) = q
            /\ m.state[q] = "pending"
            /\ \A j \in 1 .. (i - 1) : m.waiters[q][j] < m.waiters[q][i]
        BY <3>2, <1>a DEF Placed, WaitersPlaced
      <3> QED
        BY <3>2, <3>3, <2>i DEF Waiting
    <2>m. \A i \in 1 .. Len(ws) :
            /\ ws[i] \in Waiting(m) /\ Source(m, ws[i]) = p
            /\ \A j \in 1 .. (i - 1) : ws[j] < ws[i]
      BY <1>a, <2>c DEF Placed, WaitersPlaced
    <2>o. \A i \in 1 .. Len(m.queue) :
            /\ m.queue[i] \in Waiting(m) /\ ~Parked(m, m.queue[i])
            /\ Source(m, m.queue[i]) # p
      BY <1>a, <1>2, <2>p DEF Placed, QueuePlaced, Parked
    <2>3. QueuePlaced(n)
      <3> SUFFICES ASSUME NEW i \in 1 .. Len(n.queue)
                   PROVE  /\ n.queue[i] \in Waiting(n) /\ ~Parked(n, n.queue[i])
                          /\ \A j \in 1 .. (i - 1) :
                               /\ n.queue[j] # n.queue[i]
                               /\ Source(n, n.queue[j]) = Source(n, n.queue[i])
                                  /\ Source(n, n.queue[i]) # 0 => n.queue[j] < n.queue[i]
        BY DEF QueuePlaced
      <3>1. CASE i \in 1 .. Len(m.queue)
        <4>1. n.queue[i] = m.queue[i] /\ \A j \in 1 .. (i - 1) : n.queue[j] = m.queue[j]
          BY <3>1, <2>q, <2>t, SMTT(60)
        <4>2. m.queue[i] \in Waiting(m) /\ ~Parked(m, m.queue[i])
          BY <3>1, <2>o
        <4>3. \A j \in 1 .. (i - 1) : m.queue[j] \in Waiting(m)
          BY <3>1, <2>o, <2>t
        <4>4. \A j \in 1 .. (i - 1) :
                /\ m.queue[j] # m.queue[i]
                /\ Source(m, m.queue[j]) = Source(m, m.queue[i])
                   /\ Source(m, m.queue[i]) # 0 => m.queue[j] < m.queue[i]
          BY <3>1, <1>a DEF Placed, QueuePlaced
        <4> QED
          BY <4>1, <4>2, <4>3, <4>4, <2>i, <2>k DEF Waiting
      <3>2. CASE i \notin 1 .. Len(m.queue)
        <4> DEFINE k == i - Len(m.queue)
        <4>1. k \in 1 .. Len(ws) /\ i = Len(m.queue) + k
          BY <3>2, <2>l
        <4>2. n.queue[i] = ws[k]
          BY <4>1, <2>q
        <4>3. n.queue[i] \in Waiting(m) /\ Source(m, n.queue[i]) = p
          BY <4>1, <4>2, <2>m
        <4>4. ASSUME NEW j \in 1 .. (i - 1)
              PROVE  /\ n.queue[j] # n.queue[i]
                     /\ n.queue[j] \in Waiting(m)
                     /\ Source(m, n.queue[j]) = p => n.queue[j] < n.queue[i]
          <5>1. CASE j \in 1 .. Len(m.queue)
            BY <5>1, <4>3, <2>o, <2>q
          <5>2. CASE j \notin 1 .. Len(m.queue)
            <6> DEFINE l == j - Len(m.queue)
            <6>1. l \in 1 .. (k - 1) /\ l \in 1 .. Len(ws) /\ j = Len(m.queue) + l
              BY <5>2, <4>1, <2>t, <2>w, SMTT(60)
            <6>2. n.queue[j] = ws[l]
              BY <6>1, <2>q
            <6>3. n.queue[j] < n.queue[i] /\ n.queue[j] \in Waiting(m)
              BY <6>1, <6>2, <4>1, <4>2, <2>m
            <6>4. n.queue[j] \in Nat /\ n.queue[i] \in Nat
              BY <6>3, <4>3, <2>t DEF Waiting, ReactionId
            <6> QED
              BY <6>3, <6>4
          <5> QED
            BY <5>1, <5>2
        <4> QED
          BY <4>3, <4>4, <2>i, <2>k DEF Waiting
      <3> QED
        BY <3>1, <3>2
    <2>4. NoneMissing(n)
      <3> SUFFICES ASSUME NEW r \in Waiting(m)
                   PROVE  IF Parked(n, r)
                          THEN \E i \in 1 .. Len(n.waiters[Source(n, r)]) :
                                 n.waiters[Source(n, r)][i] = r
                          ELSE \E i \in 1 .. Len(n.queue) : n.queue[i] = r
        BY <2>i DEF NoneMissing
      <3>1. r \in ReactionId(m) /\ Source(n, r) = Source(m, r)
        BY <2>i DEF Waiting
      <3>2. CASE Parked(n, r)
        <4>1. Parked(m, r) /\ Source(m, r) # p /\ Source(m, r) \in Promise(m)
          BY <3>1, <3>2, <2>k, <1>a, SourceIn DEF Parked
        <4> QED
          BY <4>1, <3>1, <3>2, <2>w, <1>a DEF Placed, NoneMissing
      <3>3. CASE ~Parked(n, r) /\ Parked(m, r)
        <4>1. Source(m, r) = p
          BY <3>1, <3>3, <2>k
        <4>2. PICK i \in 1 .. Len(ws) : ws[i] = r
          BY <4>1, <3>3, <1>a, <2>c DEF Placed, NoneMissing
        <4>3. Len(m.queue) + i \in 1 .. Len(n.queue) /\ n.queue[Len(m.queue) + i] = r
          BY <4>2, <2>l, <2>q
        <4> QED
          BY <4>3, <3>3
      <3>4. CASE ~Parked(n, r) /\ ~Parked(m, r)
        <4>1. PICK i \in 1 .. Len(m.queue) : m.queue[i] = r
          BY <3>4, <1>a DEF Placed, NoneMissing
        <4>2. i \in 1 .. Len(n.queue) /\ n.queue[i] = r
          BY <4>1, <2>l, <2>q
        <4> QED
          BY <4>2, <3>4
      <3> QED
        BY <3>2, <3>3, <3>4
    <2>5. RunInOrder(n)
      <3> SUFFICES ASSUME NEW r \in m.taken
                   PROVE  /\ ~Parked(n, r)
                          /\ \A e \in 1 .. (r - 1) :
                               Source(n, e) = Source(n, r) /\ Source(n, r) # 0 => e \in m.taken
        BY <2>f DEF RunInOrder
      <3>1. r \in ReactionId(m) /\ \A e \in 1 .. (r - 1) : e \in ReactionId(m)
        BY <1>a, <2>t DEF MachineOK, ReactionId
      <3> QED
        BY <3>1, <1>a, <2>i, <2>k DEF Placed, RunInOrder
    <2>6. UnhandledExact(n, printed)
      <3>1. \A q \in Promise(m) : Watched(n, q) <=> Watched(m, q)
        BY <2>i DEF Watched
      <3>2. ws = <<>> => ~Watched(m, p)
        <4> SUFFICES ASSUME NEW r \in ReactionId(m), Source(m, r) = p
                     PROVE  ws # <<>>
          BY DEF Watched
        <4>1. Parked(m, r)
          BY <1>2, <2>p DEF Parked
        <4>2. r \in Waiting(m)
          BY <4>1, <1>a DEF Placed, RunInOrder, Waiting
        <4>3. \E i \in 1 .. Len(ws) : ws[i] = r
          BY <4>1, <4>2, <1>a, <2>c DEF Placed, NoneMissing
        <4> QED
          BY <4>3, <2>w
      <3>3. ws # <<>> => Watched(m, p)
        <4> SUFFICES ASSUME ws # <<>> PROVE Watched(m, p)
          OBVIOUS
        <4>1. 1 \in 1 .. Len(ws)
          BY <2>w, EmptySeq
        <4> QED
          BY <4>1, <2>m DEF Watched, Waiting
      <3>4. p \notin m.unnoticed /\ p \notin printed
        BY <1>a, <1>2 DEF UnhandledExact
      <3> QED
        BY <3>1, <3>2, <3>3, <3>4, <2>f, <2>s, <2>i, <1>a DEF UnhandledExact, Settled
    <2> QED
      BY <2>1, <2>2, <2>3, <2>4, <2>5, <2>6, <2>f, <2>g, <2>s, <2>i, <1>a DEF Sound, Placed
  <1> QED
    BY <1>1, <1>2

(***************************************************************************)
(* Whether a reaction has to wait, and what attaching it does to each      *)
(* field.                                                                  *)
(***************************************************************************)
Parks(m, x) == x.source # 0 /\ m.state[x.source] = "pending"

AttachesAs(m, n, x) ==
  /\ n \in Machine
  /\ n.state = m.state /\ n.value = m.value /\ n.taken = m.taken
  /\ n.pairs = m.pairs /\ n.groups = m.groups
  /\ n.reactions = Append(m.reactions, x)
  /\ n.unnoticed = m.unnoticed \ {x.source}
  /\ Parks(m, x) =>
       /\ n.queue = m.queue
       /\ Len(n.waiters) = Len(m.waiters)
       /\ \A q \in Promise(m) :
            n.waiters[q] = IF q = x.source
                           THEN Append(m.waiters[q], Len(m.reactions) + 1)
                           ELSE m.waiters[q]
  /\ ~Parks(m, x) =>
       /\ n.queue = Append(m.queue, Len(m.reactions) + 1)
       /\ n.waiters = m.waiters

(* React attaches a reaction to a promise.                                 *)
LEMMA ReactFields ==
  ASSUME NEW m, MachineOK(m), NEW x \in Reaction, x.source \in Promise(m),
         NEW n, n = React(m, x)
  PROVE  AttachesAs(m, n, x)
  <1> DEFINE w == Len(m.reactions) + 1
  <1>t. m.reactions \in Seq(Reaction) /\ w \in Nat /\ Len(m.reactions) \in Nat
    BY FieldTypes
  <1>s. x.source \in 1 .. Len(m.waiters) /\ x.source \in Nat /\ x.source # 0
    BY FieldTypes DEF Promise
  <1>f. /\ n.state = m.state /\ n.value = m.value /\ n.taken = m.taken
        /\ n.pairs = m.pairs /\ n.groups = m.groups
        /\ n.reactions = Append(m.reactions, x)
        /\ n.unnoticed = m.unnoticed \ {x.source}
        /\ n.waiters = IF m.state[x.source] = "pending"
                       THEN [m.waiters EXCEPT ![x.source] = Append(m.waiters[x.source], w)]
                       ELSE m.waiters
        /\ n.queue = IF m.state[x.source] = "pending" THEN m.queue ELSE Append(m.queue, w)
    <2>1. /\ n.state = m.state /\ n.value = m.value /\ n.taken = m.taken
          /\ n.pairs = m.pairs /\ n.groups = m.groups
          /\ n.reactions = Append(m.reactions, x)
          /\ n.unnoticed = m.unnoticed \ {x.source}
      BY DEF MachineOK, Machine, React
    <2>2. n.waiters = IF m.state[x.source] = "pending"
                      THEN [m.waiters EXCEPT ![x.source] = Append(m.waiters[x.source], w)]
                      ELSE m.waiters
      BY DEF MachineOK, Machine, React
    <2>3. n.queue = IF m.state[x.source] = "pending" THEN m.queue ELSE Append(m.queue, w)
      BY DEF MachineOK, Machine, React
    <2> QED
      BY <2>1, <2>2, <2>3
  <1>1. /\ Append(m.waiters[x.source], w) \in Seq(Nat)
        /\ n.reactions \in Seq(Reaction) /\ Append(m.queue, w) \in Seq(Nat)
    <2>1. m.waiters[x.source] \in Seq(Nat)
      BY <1>s, FieldTypes, ElementOfSeq
    <2>2. Append(m.waiters[x.source], w) \in Seq(Nat)
      BY <2>1, <1>t, AppendProperties
    <2>3. n.reactions \in Seq(Reaction) /\ Append(m.queue, w) \in Seq(Nat)
      BY <1>f, <1>t, FieldTypes, AppendProperties
    <2> QED
      BY <2>2, <2>3
  <1>2. /\ [m.waiters EXCEPT ![x.source] = Append(m.waiters[x.source], w)] \in Seq(Seq(Nat))
        /\ Len([m.waiters EXCEPT ![x.source] = Append(m.waiters[x.source], w)]) = Len(m.waiters)
        /\ \A q \in 1 .. Len(m.waiters) :
             [m.waiters EXCEPT ![x.source] = Append(m.waiters[x.source], w)][q]
             = IF q = x.source THEN Append(m.waiters[q], w) ELSE m.waiters[q]
    BY <1>1, <1>s, FieldTypes, ExceptSeq
  <1>3. n \in Machine
    <2>1. n.waiters \in Seq(Seq(Nat)) /\ n.queue \in Seq(Nat) /\ n.unnoticed \in SUBSET Nat
      BY <1>1, <1>2, <1>f, FieldTypes
    <2>2. n.reactions \in Seq(Reaction)
      BY <1>1
    <2> QED
      BY <2>1, <2>2 DEF MachineOK, React, Machine
  <1>4. Len(m.waiters) = Len(m.state)
    BY FieldTypes
  <1> QED
    BY <1>2, <1>3, <1>4, <1>f, <1>s DEF AttachesAs, Parks, Promise

(* Enqueue attaches a job that waits on nothing.                           *)
LEMMA EnqueueFields ==
  ASSUME NEW m, MachineOK(m), NEW x \in Reaction, x.source = 0,
         NEW n, n = Enqueue(m, x)
  PROVE  AttachesAs(m, n, x)
  <1> DEFINE w == Len(m.reactions) + 1
  <1>t. w \in Nat
    BY FieldTypes
  <1>1. Append(m.reactions, x) \in Seq(Reaction) /\ Append(m.queue, w) \in Seq(Nat)
    BY <1>t, FieldTypes, AppendProperties
  <1>2. 0 \notin m.unnoticed
    BY FieldTypes DEF MachineOK, Promise
  <1>3. n \in Machine
    BY <1>1 DEF MachineOK, Enqueue, Machine
  <1>4. /\ n.state = m.state /\ n.value = m.value /\ n.taken = m.taken
        /\ n.pairs = m.pairs /\ n.groups = m.groups
        /\ n.reactions = Append(m.reactions, x)
        /\ n.unnoticed = m.unnoticed
        /\ n.waiters = m.waiters
        /\ n.queue = Append(m.queue, w)
    BY DEF MachineOK, Machine, Enqueue
  <1> QED
    BY <1>2, <1>3, <1>4 DEF AttachesAs, Parks

(***************************************************************************)
(* Attaching keeps a sound machine sound: the newest reaction is behind    *)
(* every other one on its source, wherever it goes, and its source is no   *)
(* longer up for the report (state::react).                                *)
(***************************************************************************)
LEMMA AttachSound ==
  ASSUME NEW m, NEW printed, Sound(m, printed),
         NEW x \in Reaction, ReactionIn(m, x),
         NEW n, AttachesAs(m, n, x)
  PROVE  /\ Sound(n, printed) /\ Grows(m, n) /\ n.state = m.state /\ n.value = m.value
         /\ n.pairs = m.pairs /\ n.groups = m.groups
  <1>a. MachineOK(m) /\ Placed(m) /\ printed \subseteq Promise(m) /\ UnhandledExact(m, printed)
    BY DEF Sound
  <1>c. PICK w : w = Len(m.reactions) + 1
    OBVIOUS
  <1>d. PICK s : s = x.source
    OBVIOUS
  <1>f. /\ n \in Machine
        /\ n.state = m.state /\ n.value = m.value /\ n.taken = m.taken
        /\ n.pairs = m.pairs /\ n.groups = m.groups
        /\ n.reactions = Append(m.reactions, x)
        /\ n.unnoticed = m.unnoticed \ {s}
    BY <1>d DEF AttachesAs
  <1>t. /\ m.waiters \in Seq(Seq(Nat)) /\ m.queue \in Seq(Nat) /\ m.reactions \in Seq(Reaction)
        /\ Len(m.state) \in Nat /\ Len(m.reactions) \in Nat /\ Len(m.queue) \in Nat
        /\ Len(m.pairs) \in Nat /\ Len(m.groups) \in Nat
        /\ Len(m.waiters) = Len(m.state) /\ Len(m.value) = Len(m.state)
        /\ w \in Nat
    BY <1>a, <1>c, FieldTypes
  <1>s. s \in Promise(m) \/ s = 0
    BY <1>d DEF ReactionIn
  <1>r. /\ Len(n.reactions) = w /\ n.reactions[w] = x
        /\ \A r \in ReactionId(m) : n.reactions[r] = m.reactions[r]
    BY <1>c, <1>f, <1>t, AppendProperties DEF ReactionId
  <1>i. /\ Promise(n) = Promise(m) /\ ReactionId(n) = ReactionId(m) \cup {w}
        /\ w \notin ReactionId(m) /\ \A r \in ReactionId(m) : r < w
        /\ Waiting(n) = Waiting(m) \cup {w} /\ w \notin m.taken
    <2>1. Promise(n) = Promise(m)
      BY <1>f DEF Promise
    <2>2. ReactionId(n) = ReactionId(m) \cup {w}
      BY <1>r, <1>c, <1>t DEF ReactionId
    <2>3. w \notin ReactionId(m) /\ \A r \in ReactionId(m) : r < w
      BY <1>c, <1>t DEF ReactionId
    <2>4. w \notin m.taken
      BY <2>3, <1>a DEF MachineOK
    <2> QED
      BY <2>1, <2>2, <2>3, <2>4, <1>f DEF Waiting
  <1>o. /\ \A r \in ReactionId(m) : Source(n, r) = Source(m, r)
        /\ \A r \in ReactionId(m) : Parked(n, r) <=> Parked(m, r)
        /\ Source(n, w) = s
        /\ Parked(n, w) <=> Parks(m, x)
        /\ Parks(m, x) => s \in Promise(m) /\ m.state[s] = "pending"
    <2>1. /\ \A r \in ReactionId(m) : Source(n, r) = Source(m, r)
          /\ Source(n, w) = s
      BY <1>r, <1>d DEF Source
    <2> QED
      BY <2>1, <1>d, <1>f, <1>s DEF Parked, Parks
  <1>q. /\ Parks(m, x) => n.queue = m.queue
        /\ ~Parks(m, x) => /\ Len(n.queue) = Len(m.queue) + 1 /\ n.queue[Len(m.queue) + 1] = w
                           /\ \A i \in 1 .. Len(m.queue) : n.queue[i] = m.queue[i]
    <2>1. /\ Parks(m, x) => n.queue = m.queue
          /\ ~Parks(m, x) => n.queue = Append(m.queue, w)
      BY <1>c DEF AttachesAs
    <2> QED
      BY <2>1, <1>t, AppendProperties
  <1>w. /\ Len(n.waiters) = Len(m.waiters)
        /\ \A q \in Promise(m) : ~(Parks(m, x) /\ q = s) => n.waiters[q] = m.waiters[q]
        /\ Parks(m, x) => n.waiters[s] = Append(m.waiters[s], w)
    BY <1>c, <1>d, <1>o DEF AttachesAs
  <1>g. Grows(m, n)
    <2>1. /\ Len(m.reactions) <= Len(n.reactions) /\ Len(m.pairs) <= Len(n.pairs)
          /\ Len(m.groups) <= Len(n.groups) /\ Len(m.state) <= Len(n.state)
      BY <1>f, <1>t, <1>r, <1>c
    <2> QED
      BY <2>1, <1>f, <1>r DEF Grows
  <1>1. MachineOK(n)
    <2>1. \A r \in ReactionId(n) : ReactionIn(n, n.reactions[r])
      <3>1. \A r \in ReactionId(m) : ReactionIn(n, n.reactions[r])
        BY <1>a, <1>f, <1>g, <1>r, SourceIn, ReactionGrows
      <3>2. ReactionIn(n, n.reactions[w])
        BY <1>a, <1>f, <1>g, <1>r, ReactionGrows
      <3> QED
        BY <3>1, <3>2, <1>i
    <2>2. \A q \in Promise(n) : ValueIn(n, n.value[q])
      BY <1>a, <1>f, <1>i DEF MachineOK, ValueIn
    <2>3. n.taken \subseteq ReactionId(n) /\ n.unnoticed \subseteq Promise(n)
      BY <1>a, <1>f, <1>i DEF MachineOK
    <2> QED
      BY <1>a, <1>f, <1>w, <1>i, <1>t, <2>1, <2>2, <2>3 DEF MachineOK
  <1>2. WaitersPlaced(n)
    <2> SUFFICES ASSUME NEW q \in Promise(m), NEW i \in 1 .. Len(n.waiters[q])
                 PROVE  /\ n.waiters[q][i] \in Waiting(n) /\ Source(n, n.waiters[q][i]) = q
                        /\ n.state[q] = "pending"
                        /\ \A j \in 1 .. (i - 1) : n.waiters[q][j] < n.waiters[q][i]
      BY <1>i DEF WaitersPlaced
    <2>c. PICK ws : ws = m.waiters[q]
      OBVIOUS
    <2>1. /\ ws \in Seq(Nat) /\ Len(ws) \in Nat
          /\ \A k \in 1 .. Len(ws) : /\ ws[k] \in Waiting(m) /\ Source(m, ws[k]) = q
                                     /\ m.state[q] = "pending"
                                     /\ \A j \in 1 .. (k - 1) : ws[j] < ws[k]
      <3>1. ws \in Seq(Nat)
        BY <2>c, <1>t, ElementOfSeq DEF Promise
      <3> QED
        BY <3>1, <2>c, <1>a, LenProperties DEF Placed, WaitersPlaced
    <2>2. CASE ~(Parks(m, x) /\ q = s)
      <3>1. n.waiters[q] = ws
        BY <2>2, <2>c, <1>w
      <3> QED
        BY <3>1, <2>1, <1>f, <1>i, <1>o DEF Waiting
    <2>3. CASE Parks(m, x) /\ q = s
      <3>c. PICK vs : vs = n.waiters[q]
        OBVIOUS
      <3>1. /\ Len(vs) = Len(ws) + 1 /\ vs[Len(ws) + 1] = w
            /\ \A k \in 1 .. Len(ws) : vs[k] = ws[k]
        <4>1. vs = Append(ws, w)
          BY <2>3, <2>c, <3>c, <1>w
        <4> QED
          BY <4>1, <2>1, <1>t, AppendProperties
      <3>2. i \in 1 .. Len(vs)
        BY <3>c
      <3>3. CASE i \in 1 .. Len(ws)
        <4>1. vs[i] = ws[i] /\ \A j \in 1 .. (i - 1) : vs[j] = ws[j]
          BY <3>1, <3>3, <2>1
        <4> QED
          BY <4>1, <3>3, <3>c, <2>1, <1>f, <1>i, <1>o DEF Waiting
      <3>4. CASE i \notin 1 .. Len(ws)
        <4>1. i = Len(ws) + 1
          BY <3>1, <3>2, <3>4, <2>1
        <4>2. \A j \in 1 .. (i - 1) : vs[j] = ws[j] /\ ws[j] \in Waiting(m)
          BY <4>1, <3>1, <2>1
        <4> QED
          BY <4>1, <4>2, <3>1, <3>c, <2>3, <1>f, <1>i, <1>o DEF Waiting
      <3> QED
        BY <3>3, <3>4
    <2> QED
      BY <2>2, <2>3
  <1>3. QueuePlaced(n)
    <2>1. \A i \in 1 .. Len(m.queue) :
            /\ m.queue[i] \in Waiting(m) /\ ~Parked(m, m.queue[i])
            /\ \A j \in 1 .. (i - 1) :
                 /\ m.queue[j] # m.queue[i]
                 /\ Source(m, m.queue[j]) = Source(m, m.queue[i])
                    /\ Source(m, m.queue[i]) # 0 => m.queue[j] < m.queue[i]
      BY <1>a DEF Placed, QueuePlaced
    <2> SUFFICES ASSUME NEW i \in 1 .. Len(n.queue)
                 PROVE  /\ n.queue[i] \in Waiting(n) /\ ~Parked(n, n.queue[i])
                        /\ \A j \in 1 .. (i - 1) :
                             /\ n.queue[j] # n.queue[i]
                             /\ Source(n, n.queue[j]) = Source(n, n.queue[i])
                                /\ Source(n, n.queue[i]) # 0 => n.queue[j] < n.queue[i]
      BY DEF QueuePlaced
    <2>2. CASE i \in 1 .. Len(m.queue)
      <3>0. \A k \in 1 .. Len(m.queue) : n.queue[k] = m.queue[k]
        BY <1>q
      <3>1. n.queue[i] = m.queue[i] /\ \A j \in 1 .. (i - 1) : n.queue[j] = m.queue[j]
        BY <2>2, <3>0, <1>t
      <3>2. \A j \in 1 .. (i - 1) : m.queue[j] \in Waiting(m)
        BY <2>1, <2>2, <1>t
      <3> QED
        BY <3>1, <3>2, <2>1, <2>2, <1>i, <1>o DEF Waiting
    <2>3. CASE i \notin 1 .. Len(m.queue)
      <3>1. i = Len(m.queue) + 1 /\ ~Parks(m, x)
        <4>1. ~Parks(m, x)
          BY <2>3, <1>q
        <4>2. Len(n.queue) = Len(m.queue) + 1
          BY <4>1, <1>q
        <4> QED
          BY <4>1, <4>2, <2>3, <1>t
      <3>2. \A j \in 1 .. (i - 1) : n.queue[j] = m.queue[j] /\ m.queue[j] \in Waiting(m)
        BY <3>1, <2>1, <1>q, <1>t
      <3> QED
        BY <3>1, <3>2, <1>q, <1>i, <1>o DEF Waiting
    <2> QED
      BY <2>2, <2>3
  <1>4. NoneMissing(n)
    <2> SUFFICES ASSUME NEW r \in Waiting(n)
                 PROVE  IF Parked(n, r)
                        THEN \E i \in 1 .. Len(n.waiters[Source(n, r)]) :
                               n.waiters[Source(n, r)][i] = r
                        ELSE \E i \in 1 .. Len(n.queue) : n.queue[i] = r
      BY DEF NoneMissing
    <2>1. CASE r = w
      <3>1. CASE Parks(m, x)
        <4>c. PICK ws : ws = m.waiters[s]
          OBVIOUS
        <4>1. ws \in Seq(Nat)
          BY <3>1, <4>c, <1>o, <1>t, ElementOfSeq DEF Promise
        <4>2. n.waiters[s] = Append(ws, w)
          BY <3>1, <4>c, <1>w
        <4>3. \E i \in 1 .. Len(Append(ws, w)) : Append(ws, w)[i] = w
          <5>1. /\ Len(Append(ws, w)) = Len(ws) + 1 /\ Append(ws, w)[Len(ws) + 1] = w
                /\ Len(ws) \in Nat
            BY <4>1, <1>t, AppendProperties, LenProperties
          <5>2. Len(ws) + 1 \in 1 .. Len(Append(ws, w))
            BY <5>1
          <5> QED
            BY <5>1, <5>2
        <4> QED
          BY <4>2, <4>3, <3>1, <2>1, <1>o
      <3>2. CASE ~Parks(m, x)
        <4>1. Len(m.queue) + 1 \in 1 .. Len(n.queue)
          BY <3>2, <1>q, <1>t
        <4> QED
          BY <4>1, <3>2, <2>1, <1>o, <1>q
      <3> QED
        BY <3>1, <3>2
    <2>2. CASE r # w
      <3>1. r \in Waiting(m) /\ r \in ReactionId(m)
        BY <2>2, <1>i DEF Waiting
      <3>2. CASE Parked(n, r)
        <4>c. PICK q : q = Source(m, r)
          OBVIOUS
        <4>d. PICK ws : ws = m.waiters[q]
          OBVIOUS
        <4>1. Parked(m, r) /\ q \in Promise(m) /\ Source(n, r) = q
          BY <3>1, <3>2, <4>c, <1>o, <1>a, SourceIn DEF Parked
        <4>2. PICK i \in 1 .. Len(ws) : ws[i] = r
          BY <3>1, <4>1, <4>c, <4>d, <1>a DEF Placed, NoneMissing
        <4>3. CASE ~(Parks(m, x) /\ q = s)
          BY <3>2, <4>1, <4>2, <4>3, <4>d, <1>w
        <4>4. CASE Parks(m, x) /\ q = s
          <5>1. ws \in Seq(Nat) /\ n.waiters[q] = Append(ws, w)
            BY <4>1, <4>4, <4>d, <1>t, <1>w, ElementOfSeq DEF Promise
          <5>2. /\ Len(Append(ws, w)) = Len(ws) + 1 /\ Append(ws, w)[i] = ws[i]
                /\ Len(ws) \in Nat
            BY <5>1, <1>t, AppendProperties, LenProperties
          <5>3. i \in 1 .. Len(Append(ws, w))
            BY <5>2
          <5> QED
            BY <3>2, <4>1, <4>2, <5>1, <5>2, <5>3
        <4> QED
          BY <4>3, <4>4
      <3>3. CASE ~Parked(n, r)
        <4>1. PICK i \in 1 .. Len(m.queue) : m.queue[i] = r
          BY <3>1, <3>3, <1>o, <1>a DEF Placed, NoneMissing
        <4>2. i \in 1 .. Len(n.queue) /\ n.queue[i] = r
          BY <4>1, <1>q, <1>t, SMTT(60)
        <4> QED
          BY <4>2, <3>3
      <3> QED
        BY <3>2, <3>3
    <2> QED
      BY <2>1, <2>2
  <1>5. RunInOrder(n)
    <2> SUFFICES ASSUME NEW r \in m.taken
                 PROVE  /\ ~Parked(n, r)
                        /\ \A e \in 1 .. (r - 1) :
                             Source(n, e) = Source(n, r) /\ Source(n, r) # 0 => e \in m.taken
      BY <1>f DEF RunInOrder
    <2>1. r \in ReactionId(m) /\ \A e \in 1 .. (r - 1) : e \in ReactionId(m)
      BY <1>a, <1>t DEF MachineOK, ReactionId
    <2> QED
      BY <2>1, <1>a, <1>o DEF Placed, RunInOrder
  <1>6. UnhandledExact(n, printed)
    <2>1. \A q \in Promise(m) : Watched(n, q) <=> Watched(m, q) \/ q = s
      BY <1>i, <1>o DEF Watched
    <2> QED
      BY <2>1, <1>a, <1>f, <1>i DEF UnhandledExact
  <1> QED
    BY <1>1, <1>2, <1>3, <1>4, <1>5, <1>6, <1>f, <1>g, <1>i, <1>a DEF Sound, Placed

(***************************************************************************)
(* Taking the head of the queue: the reaction taken had not run, its       *)
(* source has settled, and every earlier reaction on that source has run.  *)
(***************************************************************************)
TakesAs(m, n) ==
  /\ n.state = m.state /\ n.value = m.value /\ n.waiters = m.waiters
  /\ n.unnoticed = m.unnoticed /\ n.reactions = m.reactions
  /\ n.pairs = m.pairs /\ n.groups = m.groups
  /\ n.taken = m.taken \cup {Head(m.queue)}
  /\ Head(m.queue) \in Waiting(m) /\ ~Parked(m, Head(m.queue))
  /\ \A e \in 1 .. (Head(m.queue) - 1) :
       Source(m, e) = Source(m, Head(m.queue)) /\ Source(m, Head(m.queue)) # 0 => e \in m.taken

LEMMA TakeSound ==
  ASSUME NEW m, NEW printed, Sound(m, printed), m.queue # <<>>, NEW n, n = Take(m)
  PROVE  Sound(n, printed) /\ TakesAs(m, n)
  <1>a. MachineOK(m) /\ Placed(m) /\ printed \subseteq Promise(m) /\ UnhandledExact(m, printed)
    BY DEF Sound
  <1>c. PICK h : h = Head(m.queue)
    OBVIOUS
  <1>f. /\ n.state = m.state /\ n.value = m.value /\ n.waiters = m.waiters
        /\ n.unnoticed = m.unnoticed /\ n.reactions = m.reactions
        /\ n.pairs = m.pairs /\ n.groups = m.groups
        /\ n.taken = m.taken \cup {h}
        /\ n.queue = Tail(m.queue)
    BY <1>a, <1>c DEF Take, MachineOK, Machine
  <1>t. /\ m.queue \in Seq(Nat) /\ Len(m.queue) \in Nat /\ Len(m.reactions) \in Nat
        /\ m.queue # <<>>
    BY <1>a, FieldTypes
  <1>q. /\ n.queue \in Seq(Nat) /\ Len(n.queue) = Len(m.queue) - 1
        /\ \A i \in 1 .. Len(n.queue) : n.queue[i] = m.queue[i + 1]
        /\ m.queue[1] = h /\ 1 \in 1 .. Len(m.queue)
    <2>1. /\ n.queue \in Seq(Nat) /\ Len(n.queue) = Len(m.queue) - 1
          /\ \A i \in 1 .. Len(n.queue) : n.queue[i] = m.queue[i + 1]
      BY <1>t, <1>f, HeadTailProperties
    <2>2. m.queue[1] = h
      BY <1>t, <1>c
    <2>3. 1 \in 1 .. Len(m.queue)
      BY <1>t, EmptySeq
    <2> QED
      BY <2>1, <2>2, <2>3
  <1>p. \A i \in 1 .. Len(m.queue) :
          /\ m.queue[i] \in Waiting(m) /\ ~Parked(m, m.queue[i])
          /\ \A j \in 1 .. (i - 1) :
               /\ m.queue[j] # m.queue[i]
               /\ Source(m, m.queue[j]) = Source(m, m.queue[i])
                  /\ Source(m, m.queue[i]) # 0 => m.queue[j] < m.queue[i]
    BY <1>a DEF Placed, QueuePlaced
  <1>h. /\ h \in Waiting(m) /\ ~Parked(m, h) /\ h \in ReactionId(m) /\ h \notin m.taken
    BY <1>p, <1>q DEF Waiting
  <1>s. /\ Promise(n) = Promise(m) /\ ReactionId(n) = ReactionId(m)
        /\ Waiting(n) = Waiting(m) \ {h}
        /\ \A r : Source(n, r) = Source(m, r) /\ (Parked(n, r) <=> Parked(m, r))
    BY <1>f DEF Promise, ReactionId, Waiting, Source, Parked
  <1>i. \A i \in 1 .. Len(n.queue) :
          /\ i + 1 \in 1 .. Len(m.queue)
          /\ \A j \in 1 .. (i - 1) : j + 1 \in 1 .. ((i + 1) - 1) /\ j \in 1 .. Len(n.queue)
          /\ 1 \in 1 .. ((i + 1) - 1)
    <2>1. Len(n.queue) \in Nat /\ Len(m.queue) = Len(n.queue) + 1
      BY <1>q, <1>t
    <2>2. PICK k : k = Len(n.queue)
      OBVIOUS
    <2>3. \A i \in 1 .. k :
            /\ i + 1 \in 1 .. (k + 1)
            /\ \A j \in 1 .. (i - 1) : j + 1 \in 1 .. ((i + 1) - 1) /\ j \in 1 .. k
            /\ 1 \in 1 .. ((i + 1) - 1)
      BY <2>1, <2>2
    <2> QED
      BY <2>1, <2>2, <2>3
  <1>e. \A e \in 1 .. (h - 1) : Source(m, e) = Source(m, h) /\ Source(m, h) # 0 => e \in m.taken
    <2> SUFFICES ASSUME NEW e \in 1 .. (h - 1), Source(m, e) = Source(m, h),
                        Source(m, h) # 0, e \notin m.taken
                 PROVE  FALSE
      OBVIOUS
    <2>1. e \in Waiting(m) /\ e < h /\ h \in Nat
      BY <1>h, <1>t DEF Waiting, ReactionId
    <2>2. ~Parked(m, e)
      BY <1>h DEF Parked
    <2>3. PICK i \in 1 .. Len(m.queue) : m.queue[i] = e
      BY <2>1, <2>2, <1>a DEF Placed, NoneMissing
    <2>4. i # 1 /\ e \in Nat
      BY <2>1, <2>3, <1>q
    <2>5. 1 \in 1 .. (i - 1)
      BY <2>4
    <2>6. h < e
      BY <2>3, <2>5, <1>p, <1>q
    <2> QED
      BY <2>1, <2>4, <2>6
  <1>1. MachineOK(n)
    <2>1. n \in Machine
      <3>1. n.taken \in SUBSET Nat
        BY <1>a, <1>f, <1>h, FieldTypes DEF ReactionId
      <3> QED
        BY <3>1, <1>a, <1>q DEF Take, MachineOK, Machine
    <2>2. n.taken \subseteq ReactionId(n)
      BY <1>a, <1>f, <1>s, <1>h DEF MachineOK
    <2>3. \A v : ValueIn(m, v) => ValueIn(n, v)
      BY <1>s DEF ValueIn
    <2>4. \A x : ReactionIn(m, x) => ReactionIn(n, x)
      BY <1>s, <1>f, <2>3 DEF ReactionIn, CallableIn
    <2> QED
      BY <2>1, <2>2, <2>3, <2>4, <1>a, <1>f, <1>s DEF MachineOK
  <1>2. WaitersPlaced(n)
    <2>1. \A r \in Waiting(m) : Parked(m, r) => r \in Waiting(n)
      BY <1>s, <1>h
    <2>2. \A p \in Promise(m) : p # 0
      BY DEF Promise
    <2> QED
      BY <2>1, <2>2, <1>a, <1>f, <1>s DEF Placed, WaitersPlaced, Parked
  <1>3. QueuePlaced(n)
    <2> SUFFICES ASSUME NEW i \in 1 .. Len(n.queue)
                 PROVE  /\ n.queue[i] \in Waiting(n) /\ ~Parked(n, n.queue[i])
                        /\ \A j \in 1 .. (i - 1) :
                             /\ n.queue[j] # n.queue[i]
                             /\ Source(n, n.queue[j]) = Source(n, n.queue[i])
                                /\ Source(n, n.queue[i]) # 0 => n.queue[j] < n.queue[i]
      BY DEF QueuePlaced
    <2>1. n.queue[i] = m.queue[i + 1] /\ n.queue[i] \in Waiting(m) /\ n.queue[i] # h
      BY <1>q, <1>i, <1>p
    <2>2. \A j \in 1 .. (i - 1) : n.queue[j] = m.queue[j + 1]
      BY <1>q, <1>i
    <2> QED
      BY <2>1, <2>2, <1>i, <1>p, <1>s
  <1>4. NoneMissing(n)
    <2> SUFFICES ASSUME NEW r \in Waiting(m), r # h
                 PROVE  IF Parked(m, r)
                        THEN \E i \in 1 .. Len(m.waiters[Source(m, r)]) :
                               m.waiters[Source(m, r)][i] = r
                        ELSE \E i \in 1 .. Len(n.queue) : n.queue[i] = r
      BY <1>s, <1>f DEF NoneMissing
    <2>1. CASE Parked(m, r)
      BY <2>1, <1>a DEF Placed, NoneMissing
    <2>2. CASE ~Parked(m, r)
      <3>1. PICK i \in 1 .. Len(m.queue) : m.queue[i] = r
        BY <2>2, <1>a DEF Placed, NoneMissing
      <3>2. i # 1
        BY <3>1, <1>q
      <3>3. i - 1 \in 1 .. Len(n.queue) /\ (i - 1) + 1 = i
        BY <3>2, <1>q, <1>t
      <3>4. n.queue[i - 1] = r
        BY <3>1, <3>3, <1>q
      <3> QED
        BY <3>3, <3>4, <2>2
    <2> QED
      BY <2>1, <2>2
  <1>5. RunInOrder(n)
    BY <1>a, <1>e, <1>f, <1>h, <1>s DEF Placed, RunInOrder
  <1>6. UnhandledExact(n, printed)
    BY <1>a, <1>f, <1>s DEF UnhandledExact, Watched
  <1> QED
    BY <1>1, <1>2, <1>3, <1>4, <1>5, <1>6, <1>a, <1>c, <1>e, <1>f, <1>h, <1>s DEF Sound, Placed, TakesAs

(***************************************************************************)
(* A change to the pairs or the groups alone disturbs nothing else.        *)
(***************************************************************************)
Beside(m, n) ==
  /\ n \in Machine
  /\ n.state = m.state /\ n.value = m.value /\ n.waiters = m.waiters
  /\ n.unnoticed = m.unnoticed /\ n.reactions = m.reactions
  /\ n.taken = m.taken /\ n.queue = m.queue
  /\ Len(m.pairs) <= Len(n.pairs) /\ Len(m.groups) <= Len(n.groups)
  /\ \A g \in 1 .. Len(m.groups) : Len(n.groups[g].values) = Len(m.groups[g].values)
  /\ \A k \in 1 .. Len(n.pairs) : n.pairs[k].promise \in Promise(m)
  /\ \A g \in 1 .. Len(n.groups) : n.groups[g].result \in Promise(m)

Evolves(m, n, printed) == Sound(n, printed) /\ Grows(m, n)

(* Such a change keeps a sound machine sound.                              *)
LEMMA BesideSound ==
  ASSUME NEW m, NEW printed, Sound(m, printed), NEW n, Beside(m, n)
  PROVE  Evolves(m, n, printed)
  <1>a. MachineOK(m) /\ Placed(m) /\ printed \subseteq Promise(m) /\ UnhandledExact(m, printed)
    BY DEF Sound
  <1>t. Len(m.state) \in Nat /\ Len(m.reactions) \in Nat
    BY <1>a, FieldTypes
  <1>g. Grows(m, n)
    BY <1>t DEF Beside, Grows
  <1>s. /\ Promise(n) = Promise(m) /\ ReactionId(n) = ReactionId(m) /\ Waiting(n) = Waiting(m)
        /\ \A r : Source(n, r) = Source(m, r) /\ (Parked(n, r) <=> Parked(m, r))
    BY DEF Beside, Promise, ReactionId, Waiting, Source, Parked
  <1>1. MachineOK(n)
    <2>1. \A r \in ReactionId(n) : ReactionIn(n, n.reactions[r])
      <3>1. n \in Machine /\ n.reactions = m.reactions
        BY DEF Beside
      <3> QED
        BY <3>1, <1>a, <1>g, <1>s, SourceIn, ReactionGrows
    <2>2. \A p \in Promise(n) : ValueIn(n, n.value[p])
      BY <1>a, <1>s DEF MachineOK, ValueIn, Beside
    <2> QED
      BY <2>1, <2>2, <1>a, <1>s DEF MachineOK, Beside
  <1>2. Placed(n)
    <2>1. WaitersPlaced(n)
      BY <1>a, <1>s DEF Beside, Placed, WaitersPlaced
    <2>2. QueuePlaced(n)
      BY <1>a, <1>s DEF Beside, Placed, QueuePlaced
    <2>3. NoneMissing(n)
      BY <1>a, <1>s DEF Beside, Placed, NoneMissing
    <2>4. RunInOrder(n)
      BY <1>a, <1>s DEF Beside, Placed, RunInOrder
    <2> QED
      BY <2>1, <2>2, <2>3, <2>4 DEF Placed
  <1>3. UnhandledExact(n, printed)
    BY <1>a, <1>s DEF Beside, UnhandledExact, Watched
  <1> QED
    BY <1>a, <1>1, <1>2, <1>3, <1>g, <1>s DEF Evolves, Sound

(* Opening a pair for a promise adds one pair, unspent, for that promise.  *)
LEMMA OpenPairSound ==
  ASSUME NEW m, NEW printed, Sound(m, printed), NEW p \in Promise(m), NEW n, n = OpenPair(m, p)
  PROVE  /\ Evolves(m, n, printed)
         /\ Len(n.state) = Len(m.state) /\ Len(n.pairs) = Len(m.pairs) + 1
         /\ n.reactions = m.reactions /\ n.state = m.state
  <1>a. MachineOK(m)
    BY DEF Sound
  <1>t. /\ m.pairs \in Seq(Pair) /\ Len(m.pairs) \in Nat /\ Len(m.groups) \in Nat
        /\ Len(m.state) \in Nat
    BY <1>a, FieldTypes
  <1>1. PICK x : x = [promise |-> p, spent |-> FALSE]
    OBVIOUS
  <1>2. x \in Pair /\ x.promise = p
    BY <1>1, <1>t DEF Pair, Promise
  <1>f. /\ n.state = m.state /\ n.value = m.value /\ n.waiters = m.waiters
        /\ n.unnoticed = m.unnoticed /\ n.reactions = m.reactions
        /\ n.taken = m.taken /\ n.queue = m.queue
        /\ n.pairs = Append(m.pairs, x) /\ n.groups = m.groups
    BY <1>a, <1>1 DEF OpenPair, MachineOK, Machine
  <1>3. /\ n.pairs \in Seq(Pair) /\ Len(n.pairs) = Len(m.pairs) + 1
        /\ \A k \in 1 .. Len(m.pairs) : n.pairs[k] = m.pairs[k]
        /\ n.pairs[Len(m.pairs) + 1] = x
    BY <1>2, <1>f, <1>t, AppendProperties
  <1>4. n \in Machine
    BY <1>3, <1>a DEF OpenPair, MachineOK, Machine
  <1>5. \A k \in 1 .. Len(n.pairs) : n.pairs[k].promise \in Promise(m)
    <2>1. \A k \in 1 .. Len(n.pairs) : k \in 1 .. Len(m.pairs) \/ k = Len(m.pairs) + 1
      BY <1>3, <1>t
    <2> QED
      BY <2>1, <1>2, <1>3, <1>a DEF MachineOK
  <1>6. Beside(m, n)
    BY <1>3, <1>4, <1>5, <1>a, <1>f, <1>t DEF Beside, MachineOK
  <1> QED
    BY <1>3, <1>6, <1>f, BesideSound

(* Claiming a pair marks it and nothing else.                              *)
LEMMA ClaimSound ==
  ASSUME NEW m, NEW printed, Sound(m, printed), NEW k \in 1 .. Len(m.pairs),
         NEW n, n = [m EXCEPT !.pairs = [@ EXCEPT ![k].spent = TRUE]]
  PROVE  /\ Evolves(m, n, printed) /\ n.state = m.state /\ m.pairs[k].promise \in Promise(m)
         /\ Len(n.pairs) = Len(m.pairs)
  <1>a. MachineOK(m)
    BY DEF Sound
  <1>t. /\ m.pairs \in Seq(Pair) /\ Len(m.pairs) \in Nat /\ Len(m.groups) \in Nat
        /\ m.pairs[k] \in Pair
    BY <1>a, FieldTypes, ElementOfSeq
  <1>1. PICK x : x = [m.pairs[k] EXCEPT !.spent = TRUE]
    OBVIOUS
  <1>2. x \in Pair /\ x.promise = m.pairs[k].promise
    BY <1>1, <1>t DEF Pair
  <1>f. /\ n.state = m.state /\ n.value = m.value /\ n.waiters = m.waiters
        /\ n.unnoticed = m.unnoticed /\ n.reactions = m.reactions
        /\ n.taken = m.taken /\ n.queue = m.queue
        /\ n.pairs = [m.pairs EXCEPT ![k] = x] /\ n.groups = m.groups
    BY <1>a, <1>1 DEF MachineOK, Machine
  <1>3. /\ n.pairs \in Seq(Pair) /\ Len(n.pairs) = Len(m.pairs)
        /\ \A j \in 1 .. Len(m.pairs) : n.pairs[j] = IF j = k THEN x ELSE m.pairs[j]
    <2>1. PICK ps : ps = [m.pairs EXCEPT ![k] = x]
      OBVIOUS
    <2>2. /\ ps \in Seq(Pair) /\ Len(ps) = Len(m.pairs)
          /\ \A j \in 1 .. Len(m.pairs) : ps[j] = IF j = k THEN x ELSE m.pairs[j]
      BY <2>1, <1>2, <1>t, ExceptSeq
    <2> QED
      BY <2>1, <2>2, <1>f
  <1>4. n \in Machine
    BY <1>3, <1>a DEF MachineOK, Machine
  <1>5. \A j \in 1 .. Len(n.pairs) : n.pairs[j].promise \in Promise(m)
    BY <1>2, <1>3, <1>a DEF MachineOK
  <1>6. Beside(m, n)
    BY <1>3, <1>4, <1>5, <1>a, <1>f, <1>t DEF Beside, MachineOK
  <1> QED
    BY <1>3, <1>6, <1>f, <1>a, BesideSound DEF MachineOK

(* A group opened over `size' slots for a promise.                         *)
LEMMA OpenGroupSound ==
  ASSUME NEW m, NEW printed, Sound(m, printed), NEW p \in Promise(m), NEW size \in Nat,
         NEW kind \in {"all", "allSettled", "race", "any"},
         NEW n, n = OpenGroup(m, kind, p, size)
  PROVE  /\ Evolves(m, n, printed)
         /\ Len(n.groups) = Len(m.groups) + 1
         /\ Len(n.groups[Len(m.groups) + 1].values) = size
         /\ n.state = m.state
  <1>a. MachineOK(m)
    BY DEF Sound
  <1>t. /\ m.groups \in Seq(Group) /\ Len(m.groups) \in Nat /\ Len(m.pairs) \in Nat
        /\ Len(m.state) \in Nat
    BY <1>a, FieldTypes
  <1>0. PICK vs : vs = [i \in 1 .. size |-> Undefined]
    OBVIOUS
  <1>v. vs \in Seq(Value) /\ Len(vs) = size
    BY <1>0, UndefinedValue, IsASeq
  <1>1. PICK x : x = [kind |-> kind, result |-> p, values |-> vs, remaining |-> size]
    OBVIOUS
  <1>2. x \in Group /\ x.result = p /\ x.values = vs
    BY <1>1, <1>v, <1>t DEF Group, Promise
  <1>f. /\ n.state = m.state /\ n.value = m.value /\ n.waiters = m.waiters
        /\ n.unnoticed = m.unnoticed /\ n.reactions = m.reactions
        /\ n.taken = m.taken /\ n.queue = m.queue
        /\ n.pairs = m.pairs /\ n.groups = Append(m.groups, x)
    BY <1>a, <1>0, <1>1 DEF OpenGroup, MachineOK, Machine
  <1>3. /\ n.groups \in Seq(Group) /\ Len(n.groups) = Len(m.groups) + 1
        /\ \A k \in 1 .. Len(m.groups) : n.groups[k] = m.groups[k]
        /\ n.groups[Len(m.groups) + 1] = x
    BY <1>2, <1>f, <1>t, AppendProperties
  <1>4. n \in Machine
    BY <1>3, <1>a DEF OpenGroup, MachineOK, Machine
  <1>5. \A k \in 1 .. Len(n.groups) : n.groups[k].result \in Promise(m)
    <2>1. \A k \in 1 .. Len(n.groups) : k \in 1 .. Len(m.groups) \/ k = Len(m.groups) + 1
      BY <1>3, <1>t
    <2> QED
      BY <2>1, <1>2, <1>3, <1>a DEF MachineOK
  <1>6. Beside(m, n)
    BY <1>3, <1>4, <1>5, <1>a, <1>f, <1>t DEF Beside, MachineOK
  <1> QED
    BY <1>2, <1>3, <1>6, <1>f, <1>v, BesideSound

(* A slot filled: the group keeps its size and what it answers for.        *)
LEMMA FillSound ==
  ASSUME NEW m, NEW printed, Sound(m, printed), NEW g \in 1 .. Len(m.groups),
         NEW i \in 1 .. Len(m.groups[g].values), NEW v \in Value,
         NEW n, n = Fill(m, g, i, v)
  PROVE  Evolves(m, n, printed) /\ n.state = m.state
  <1>a. MachineOK(m)
    BY DEF Sound
  <1>t. /\ m.groups \in Seq(Group) /\ Len(m.groups) \in Nat /\ Len(m.pairs) \in Nat
    BY <1>a, FieldTypes
  <1>0. PICK x : x = m.groups[g]
    OBVIOUS
  <1>1. x \in Group /\ x.values \in Seq(Value) /\ x.remaining \in Nat
    <2>1. x \in Group
      BY <1>0, <1>t, ElementOfSeq
    <2> QED
      BY <2>1 DEF Group
  <1>v. /\ [x.values EXCEPT ![i] = v] \in Seq(Value)
        /\ Len([x.values EXCEPT ![i] = v]) = Len(x.values)
    BY <1>0, <1>1, ExceptSeq
  <1>2. PICK left \in Nat : left = IF x.remaining = 0 THEN 0 ELSE x.remaining - 1
    BY <1>1
  <1>3. PICK y : y = [x EXCEPT !.values = [x.values EXCEPT ![i] = v], !.remaining = left]
    OBVIOUS
  <1>4. y \in Group /\ Len(y.values) = Len(x.values) /\ y.result = x.result
    BY <1>1, <1>2, <1>3, <1>v DEF Group
  <1>f. /\ n.state = m.state /\ n.value = m.value /\ n.waiters = m.waiters
        /\ n.unnoticed = m.unnoticed /\ n.reactions = m.reactions
        /\ n.taken = m.taken /\ n.queue = m.queue
        /\ n.pairs = m.pairs /\ n.groups = [m.groups EXCEPT ![g] = y]
        /\ n = [m EXCEPT !.groups = [m.groups EXCEPT ![g] = y]]
    <2>1. n = [m EXCEPT !.groups = [m.groups EXCEPT ![g] = y]]
      BY <1>0, <1>2, <1>3 DEF Fill
    <2> QED
      BY <2>1, <1>a DEF MachineOK, Machine
  <1>5. /\ n.groups \in Seq(Group) /\ Len(n.groups) = Len(m.groups)
        /\ \A j \in 1 .. Len(m.groups) : n.groups[j] = IF j = g THEN y ELSE m.groups[j]
    BY <1>4, <1>f, <1>t, ExceptSeq
  <1>6. n \in Machine
    BY <1>5, <1>f, <1>a DEF MachineOK, Machine
  <1>7. \A j \in 1 .. Len(n.groups) : n.groups[j].result \in Promise(m)
    BY <1>0, <1>4, <1>5, <1>a DEF MachineOK
  <1>8. Beside(m, n)
    BY <1>0, <1>4, <1>5, <1>6, <1>7, <1>a, <1>f, <1>t DEF Beside, MachineOK
  <1> QED
    BY <1>8, <1>f, BesideSound

-----------------------------------------------------------------------------
(***************************************************************************)
(* The verbs one calls from the next, each sound on its own.  What a verb  *)
(* leaves the same size is what its callers compute names from.            *)
(***************************************************************************)
Steady(m, n) == /\ Len(n.state) = Len(m.state) /\ Len(n.pairs) = Len(m.pairs)
                /\ Len(n.groups) = Len(m.groups)

(* A machine that evolves twice evolves.                                   *)
LEMMA EvolvesTrans ==
  ASSUME NEW m, NEW n, NEW o, NEW printed, Sound(m, printed),
         Evolves(m, n, printed), Evolves(n, o, printed)
  PROVE  Evolves(m, o, printed)
  BY GrowsTrans DEF Evolves, Sound, MachineOK

(* What named something in a machine names it in what the machine became.  *)
LEMMA EvolvesKeeps ==
  ASSUME NEW m, NEW n, NEW printed, Sound(m, printed), Evolves(m, n, printed)
  PROVE  /\ Promise(m) \subseteq Promise(n)
         /\ 1 .. Len(m.pairs) \subseteq 1 .. Len(n.pairs)
         /\ 1 .. Len(m.groups) \subseteq 1 .. Len(n.groups)
         /\ \A v : ValueIn(m, v) => ValueIn(n, v)
         /\ \A f : CallableIn(m, f) => CallableIn(n, f)
  <1>1. /\ Len(m.state) \in Nat /\ Len(m.pairs) \in Nat /\ Len(m.groups) \in Nat
        /\ Len(n.state) \in Nat /\ Len(n.pairs) \in Nat /\ Len(n.groups) \in Nat
        /\ Len(m.state) <= Len(n.state) /\ Len(m.pairs) <= Len(n.pairs)
        /\ Len(m.groups) <= Len(n.groups)
    BY FieldTypes DEF Evolves, Sound, Grows
  <1>2. /\ Promise(m) \subseteq Promise(n)
        /\ 1 .. Len(m.pairs) \subseteq 1 .. Len(n.pairs)
        /\ 1 .. Len(m.groups) \subseteq 1 .. Len(n.groups)
    BY <1>1 DEF Promise
  <1>3. \A v : ValueIn(m, v) => ValueIn(n, v)
    BY <1>2 DEF ValueIn
  <1>4. \A f : CallableIn(m, f) => CallableIn(n, f)
    BY <1>1 DEF CallableIn
  <1> QED
    BY <1>2, <1>3, <1>4

(* A value of no machine in particular is a value of every machine.        *)
LEMMA PlainIn ==
  ASSUME NEW m
  PROVE  ValueIn(m, Undefined) /\ ValueIn(m, Made)
  BY DEF ValueIn, Value, Undefined, Made, Plain

(* Nothing callable is callable in every machine.                          *)
LEMMA NotCallableIn ==
  ASSUME NEW m, MachineOK(m)
  PROVE  /\ NotCallable \in Callable /\ UserFn \in Callable
         /\ CallableIn(m, NotCallable) /\ CallableIn(m, UserFn)
  BY FieldTypes DEF CallableIn, Callable, NotCallable, UserFn

(* The machine evolves by a reaction attached to a promise.                *)
LEMMA ReactSound ==
  ASSUME NEW m, NEW printed, Sound(m, printed),
         NEW x \in Reaction, ReactionIn(m, x), x.source \in Promise(m),
         NEW n, n = React(m, x)
  PROVE  Evolves(m, n, printed) /\ Steady(m, n) /\ n.state = m.state
  <1>1. AttachesAs(m, n, x)
    BY ReactFields DEF Sound
  <1>2. /\ Sound(n, printed) /\ Grows(m, n) /\ n.state = m.state
        /\ n.pairs = m.pairs /\ n.groups = m.groups
    BY <1>1, AttachSound
  <1> QED
    BY <1>2 DEF Evolves, Steady

(* And by a job that waits on nothing.                                     *)
LEMMA EnqueueSound ==
  ASSUME NEW m, NEW printed, Sound(m, printed),
         NEW x \in Reaction, ReactionIn(m, x), x.source = 0,
         NEW n, n = Enqueue(m, x)
  PROVE  Evolves(m, n, printed) /\ Steady(m, n)
  <1>1. AttachesAs(m, n, x)
    BY EnqueueFields DEF Sound
  <1>2. /\ Sound(n, printed) /\ Grows(m, n) /\ n.state = m.state
        /\ n.pairs = m.pairs /\ n.groups = m.groups
    BY <1>1, AttachSound
  <1> QED
    BY <1>2 DEF Evolves, Steady

(* A promise settled, or left alone when it had settled.                   *)
LEMMA SettleEvolves ==
  ASSUME NEW m, NEW printed, Sound(m, printed), NEW p \in Promise(m),
         NEW how \in Settled, NEW v, ValueIn(m, v)
  PROVE  Evolves(m, Settle(m, p, how, v), printed) /\ Steady(m, Settle(m, p, how, v))
  <1>1. v \in Value
    BY DEF ValueIn
  <1>2. PICK n : n = Settle(m, p, how, v)
    OBVIOUS
  <1>3. /\ Sound(n, printed) /\ Grows(m, n)
        /\ Len(n.state) = Len(m.state) /\ n.pairs = m.pairs /\ n.groups = m.groups
    BY <1>1, <1>2, SettleSound
  <1> QED
    BY <1>2, <1>3 DEF Evolves, Steady

(* A promise rejected.                                                     *)
LEMMA RejectEvolves ==
  ASSUME NEW m, NEW printed, Sound(m, printed), NEW p \in Promise(m), NEW v, ValueIn(m, v)
  PROVE  Evolves(m, Reject(m, p, v), printed) /\ Steady(m, Reject(m, p, v))
  BY SettleEvolves DEF Reject, Settled

(* A promise resolved: settled, rejected, or answered for by a job.        *)
LEMMA ResolveEvolves ==
  ASSUME NEW m, NEW printed, Sound(m, printed), NEW p \in Promise(m), NEW v, ValueIn(m, v)
  PROVE  Evolves(m, Resolve(m, p, v), printed) /\ Steady(m, Resolve(m, p, v))
  <1>1. CASE v.tag = "plain"
    BY <1>1, SettleEvolves DEF Resolve, Settled
  <1>2. CASE v.tag # "plain" /\ v = PromiseVal(p)
    BY <1>2, RejectEvolves, PlainIn DEF Resolve
  <1>3. CASE v.tag # "plain" /\ v # PromiseVal(p)
    <2>1. MachineOK(m)
      BY DEF Sound
    <2>2. PICK x : x = ThenableJob(v, p)
      OBVIOUS
    <2>3. Undefined \in Value /\ v \in Value /\ p \in Nat
      BY UndefinedValue, <2>1, FieldTypes DEF ValueIn, Promise
    <2>4. /\ x \in Reaction /\ x.source = 0 /\ x.kind = "thenable" /\ x.target = p
          /\ x.value = v /\ x.ful = NotCallable /\ x.rej = NotCallable
      BY <2>1, <2>2, <2>3, NotCallableIn DEF ThenableJob, Blank, Reaction, Settled
    <2>5. ReactionIn(m, x)
      BY <2>1, <2>4, NotCallableIn DEF ReactionIn
    <2> QED
      BY <1>3, <2>2, <2>4, <2>5, EnqueueSound DEF Resolve
  <1> QED
    BY <1>1, <1>2, <1>3

(* A settlement passed through to another promise.                         *)
LEMMA SettleThroughEvolves ==
  ASSUME NEW m, NEW printed, Sound(m, printed), NEW p \in Promise(m),
         NEW how, NEW v, ValueIn(m, v)
  PROVE  /\ Evolves(m, SettleThrough(m, p, how, v), printed)
         /\ Steady(m, SettleThrough(m, p, how, v))
  BY ResolveEvolves, RejectEvolves DEF SettleThrough

(* A settler called, on a pair spent or not.                               *)
LEMMA CallSettlerEvolves ==
  ASSUME NEW m, NEW printed, Sound(m, printed), NEW f, f.pair \in 1 .. Len(m.pairs),
         NEW v, ValueIn(m, v)
  PROVE  /\ Evolves(m, CallSettler(m, f, v), printed)
         /\ Len(CallSettler(m, f, v).state) = Len(m.state)
  <1>1. CASE m.pairs[f.pair].spent
    <2>1. CallSettler(m, f, v) = m
      BY <1>1 DEF CallSettler
    <2> QED
      BY <2>1, GrowsRefl DEF Evolves, Sound
  <1>2. CASE ~m.pairs[f.pair].spent
    <2>1. PICK n : n = [m EXCEPT !.pairs = [@ EXCEPT ![f.pair].spent = TRUE]]
      OBVIOUS
    <2>2. PICK p : p = m.pairs[f.pair].promise
      OBVIOUS
    <2>3. Evolves(m, n, printed) /\ n.state = m.state /\ p \in Promise(m)
      BY <2>1, <2>2, ClaimSound
    <2>4. Sound(n, printed) /\ p \in Promise(n) /\ ValueIn(n, v)
      BY <2>3, EvolvesKeeps DEF Evolves
    <2>5. CallSettler(m, f, v) = IF f.kind = "resolve" THEN Resolve(n, p, v)
                                 ELSE Reject(n, p, v)
      BY <1>2, <2>1, <2>2 DEF CallSettler
    <2>6. PICK o : o = CallSettler(m, f, v)
      OBVIOUS
    <2>7. Evolves(n, o, printed) /\ Steady(n, o)
      BY <2>4, <2>5, <2>6, ResolveEvolves, RejectEvolves
    <2>8. Evolves(m, o, printed)
      BY <2>3, <2>7, EvolvesTrans
    <2> QED
      BY <2>3, <2>6, <2>7, <2>8 DEF Steady
  <1> QED
    BY <1>1, <1>2

(* A promise made: it is the newest, and everything else is as it was.     *)
LEMMA CreateEvolves ==
  ASSUME NEW m, NEW printed, Sound(m, printed)
  PROVE  /\ Evolves(m, Create(m), printed)
         /\ Len(Create(m).state) = Len(m.state) + 1
         /\ Len(Create(m).pairs) = Len(m.pairs) /\ Len(Create(m).groups) = Len(m.groups)
         /\ Newest(m) + 1 \in Promise(Create(m)) /\ Newest(Create(m)) = Newest(m) + 1
         /\ Newest(m) \in Nat
  <1>0. PICK n : n = Create(m)
    OBVIOUS
  <1>1. /\ Sound(n, printed) /\ Grows(m, n) /\ Len(n.state) = Len(m.state) + 1
    BY <1>0, CreateSound
  <1>2. n.pairs = m.pairs /\ n.groups = m.groups
    BY <1>0, CreateFields DEF Sound
  <1>3. Len(m.state) \in Nat
    BY FieldTypes DEF Sound
  <1>4. Newest(m) + 1 \in Promise(n) /\ Newest(n) = Newest(m) + 1 /\ Newest(m) \in Nat
    BY <1>1, <1>3 DEF Newest, Promise
  <1> QED
    BY <1>0, <1>1, <1>2, <1>4 DEF Evolves

(* A promise made and resolved at once (Promise.resolve of a value).       *)
LEMMA MadeEvolves ==
  ASSUME NEW m, NEW printed, Sound(m, printed), NEW v, ValueIn(m, v)
  PROVE  /\ Evolves(m, Resolve(Create(m), Newest(m) + 1, v), printed)
         /\ Evolves(m, Reject(Create(m), Newest(m) + 1, v), printed)
         /\ Newest(m) + 1 \in Promise(Resolve(Create(m), Newest(m) + 1, v))
         /\ Newest(m) + 1 \in Promise(Reject(Create(m), Newest(m) + 1, v))
         /\ Newest(m) \in Nat
         /\ Len(Resolve(Create(m), Newest(m) + 1, v).groups) = Len(m.groups)
  <1>0. PICK c : c = Create(m)
    OBVIOUS
  <1>1. PICK p : p = Newest(m) + 1
    OBVIOUS
  <1>2. /\ Evolves(m, c, printed) /\ p \in Promise(c) /\ Newest(m) \in Nat
        /\ Len(c.groups) = Len(m.groups)
    BY <1>0, <1>1, CreateEvolves
  <1>3. Sound(c, printed) /\ ValueIn(c, v)
    BY <1>2, EvolvesKeeps DEF Evolves
  <1>4. PICK n : n = Resolve(c, p, v)
    OBVIOUS
  <1>5. PICK o : o = Reject(c, p, v)
    OBVIOUS
  <1>6. Evolves(c, n, printed) /\ Steady(c, n) /\ Evolves(c, o, printed)
    BY <1>2, <1>3, <1>4, <1>5, ResolveEvolves, RejectEvolves
  <1>7. Evolves(m, n, printed) /\ Evolves(m, o, printed)
    BY <1>2, <1>6, EvolvesTrans
  <1>8. p \in Promise(n) /\ p \in Promise(o)
    BY <1>2, <1>3, <1>6, EvolvesKeeps
  <1> QED
    BY <1>0, <1>1, <1>2, <1>4, <1>5, <1>6, <1>7, <1>8 DEF Steady

(* What stands for a value to wait on is a promise of the machine.         *)
LEMMA WaitableEvolves ==
  ASSUME NEW m, NEW printed, Sound(m, printed), NEW v, ValueIn(m, v)
  PROVE  /\ Evolves(m, Waitable(m, v), printed)
         /\ WaitedOn(m, v) \in Promise(Waitable(m, v))
         /\ Len(Waitable(m, v).groups) = Len(m.groups)
  <1>1. CASE v.tag = "promise"
    <2>1. Waitable(m, v) = m /\ WaitedOn(m, v) = v.id
      BY <1>1 DEF Waitable, WaitedOn
    <2>2. v.id \in Promise(m)
      BY <1>1 DEF ValueIn
    <2> QED
      BY <2>1, <2>2, GrowsRefl DEF Evolves, Sound
  <1>2. CASE v.tag # "promise"
    BY <1>2, MadeEvolves DEF Waitable, WaitedOn
  <1> QED
    BY <1>1, <1>2

(* The reactions as they are recorded: what each of their fields holds.    *)
LEMMA HandlerFields ==
  ASSUME NEW s \in Nat, NEW d \in Nat, NEW f \in Callable, NEW r \in Callable,
         NEW x, x = JsReaction(s, d, f, r), NEW y, y = FinallyReaction(s, d, f)
  PROVE  /\ x \in Reaction /\ x.source = s /\ x.target = d
         /\ x.kind = "js" /\ x.ful = f /\ x.rej = r /\ x.value = Undefined
         /\ y \in Reaction /\ y.source = s /\ y.target = d
         /\ y.kind = "finally" /\ y.ful = f /\ y.rej = NotCallable /\ y.value = Undefined
  <1>1. Undefined \in Value /\ NotCallable \in Callable /\ "fulfilled" \in Settled
    BY UndefinedValue DEF NotCallable, Callable, Settled
  <1>2. /\ x \in Reaction /\ x.source = s /\ x.target = d
        /\ x.kind = "js" /\ x.ful = f /\ x.rej = r /\ x.value = Undefined
    BY <1>1 DEF JsReaction, Blank, Reaction
  <1>3. /\ y \in Reaction /\ y.source = s /\ y.target = d
        /\ y.kind = "finally" /\ y.ful = f /\ y.rej = NotCallable /\ y.value = Undefined
    BY <1>1 DEF FinallyReaction, Blank, Reaction
  <1> QED
    BY <1>2, <1>3

(* A member names its group and its slot.                                  *)
LEMMA MemberFields ==
  ASSUME NEW s \in Nat, NEW d \in Nat, NEW g \in Nat, NEW i \in Nat,
         NEW x, x = MemberReaction(s, d, g, i)
  PROVE  /\ x \in Reaction /\ x.source = s /\ x.target = d
         /\ x.kind = "member" /\ x.ful = NotCallable /\ x.rej = NotCallable
         /\ x.value = Undefined /\ x.group = g /\ x.slot = i
  <1>1. Undefined \in Value /\ NotCallable \in Callable /\ "fulfilled" \in Settled
    BY UndefinedValue DEF NotCallable, Callable, Settled
  <1> QED
    BY <1>1 DEF MemberReaction, Blank, Reaction

(* What resumes after a wait carries a settlement across, or nothing.      *)
LEMMA WaitFields ==
  ASSUME NEW s \in Nat, NEW d \in Nat, NEW how \in Settled, NEW v \in Value,
         NEW x, x = RestoreReaction(s, d, how, v), NEW y, y = FrameReaction(s, d)
  PROVE  /\ x \in Reaction /\ x.source = s /\ x.target = d
         /\ x.kind = "restore" /\ x.ful = NotCallable /\ x.rej = NotCallable /\ x.value = v
         /\ y \in Reaction /\ y.source = s /\ y.target = d
         /\ y.kind = "frame" /\ y.ful = NotCallable /\ y.rej = NotCallable
         /\ y.value = Undefined
  <1>1. Undefined \in Value /\ NotCallable \in Callable /\ "fulfilled" \in Settled
    BY UndefinedValue DEF NotCallable, Callable, Settled
  <1>2. /\ x \in Reaction /\ x.source = s /\ x.target = d
        /\ x.kind = "restore" /\ x.ful = NotCallable /\ x.rej = NotCallable /\ x.value = v
    BY <1>1 DEF RestoreReaction, Blank, Reaction
  <1>3. /\ y \in Reaction /\ y.source = s /\ y.target = d
        /\ y.kind = "frame" /\ y.ful = NotCallable /\ y.rej = NotCallable
        /\ y.value = Undefined
    BY <1>1 DEF FrameReaction, Blank, Reaction
  <1> QED
    BY <1>2, <1>3

(* Two handlers attached to a promise, through a promise made for them.    *)
LEMMA ThenEvolves ==
  ASSUME NEW m, NEW printed, Sound(m, printed), NEW q \in Promise(m),
         NEW d \in Promise(m), NEW f \in Callable, NEW r \in Callable,
         CallableIn(m, f), CallableIn(m, r)
  PROVE  /\ Evolves(m, React(m, JsReaction(q, d, f, r)), printed)
         /\ Evolves(m, React(m, FinallyReaction(q, d, f)), printed)
         /\ Steady(m, React(m, JsReaction(q, d, f, r)))
         /\ Steady(m, React(m, FinallyReaction(q, d, f)))
  <1>1. q \in Nat /\ d \in Nat /\ MachineOK(m)
    BY FieldTypes DEF Promise, Sound
  <1>2. PICK x : x = JsReaction(q, d, f, r)
    OBVIOUS
  <1>3. PICK y : y = FinallyReaction(q, d, f)
    OBVIOUS
  <1>4. /\ x \in Reaction /\ x.source = q /\ x.target = d
        /\ x.kind = "js" /\ x.ful = f /\ x.rej = r /\ x.value = Undefined
        /\ y \in Reaction /\ y.source = q /\ y.target = d
        /\ y.kind = "finally" /\ y.ful = f /\ y.rej = NotCallable /\ y.value = Undefined
    BY <1>1, <1>2, <1>3, HandlerFields
  <1>5. ReactionIn(m, x) /\ ReactionIn(m, y)
    BY <1>1, <1>4, NotCallableIn, PlainIn DEF ReactionIn
  <1> QED
    BY <1>2, <1>3, <1>4, <1>5, ReactSound

(* The job that adopts a native promise.                                   *)
LEMMA AdoptEvolves ==
  ASSUME NEW m, NEW printed, Sound(m, printed), NEW p \in Promise(m), NEW q \in Promise(m)
  PROVE  Evolves(m, AdoptPromise(m, p, q), printed)
  <1>1. PICK o : o = OpenPair(m, p)
    OBVIOUS
  <1>2. /\ Evolves(m, o, printed) /\ Len(o.state) = Len(m.state)
        /\ Len(o.pairs) = Len(m.pairs) + 1
    BY <1>1, OpenPairSound
  <1>3. PICK c : c = Create(o)
    OBVIOUS
  <1>4. /\ Evolves(o, c, printed) /\ Newest(c) \in Promise(c) /\ Len(c.pairs) = Len(o.pairs)
    BY <1>2, <1>3, CreateEvolves DEF Evolves
  <1>5. Evolves(m, c, printed) /\ Sound(c, printed) /\ q \in Promise(c)
    BY <1>2, <1>4, EvolvesTrans, EvolvesKeeps DEF Evolves
  <1>6. PICK k : k = NewestPair(c)
    OBVIOUS
  <1>7. k \in Nat /\ k # 0 /\ k \in 0 .. Len(c.pairs)
    <2>1. Len(m.pairs) \in Nat /\ k = Len(m.pairs) + 1 /\ Len(c.pairs) = k
      BY <1>2, <1>4, <1>6, FieldTypes DEF NewestPair, Sound
    <2> QED
      BY <2>1
  <1>8. /\ ResolveFn(k) \in Callable /\ RejectFn(k) \in Callable
        /\ CallableIn(c, ResolveFn(k)) /\ CallableIn(c, RejectFn(k))
    BY <1>7 DEF ResolveFn, RejectFn, Callable, CallableIn
  <1>9. Evolves(c, React(c, JsReaction(q, Newest(c), ResolveFn(k), RejectFn(k))), printed)
    BY <1>4, <1>5, <1>8, ThenEvolves
  <1>10. AdoptPromise(m, p, q) = React(c, JsReaction(q, Newest(c), ResolveFn(k), RejectFn(k)))
    BY <1>1, <1>3, <1>6 DEF AdoptPromise
  <1> QED
    BY <1>5, <1>9, <1>10, EvolvesTrans

(* A reaction that answers a value across a wait, attached to what is      *)
(* waited on.                                                              *)
LEMMA AwaitEvolves ==
  ASSUME NEW m, NEW printed, Sound(m, printed), NEW d \in Promise(m),
         NEW v, ValueIn(m, v), NEW how \in Settled, NEW w, ValueIn(m, w)
  PROVE  /\ Evolves(m, React(Waitable(m, v), RestoreReaction(WaitedOn(m, v), d, how, w)), printed)
         /\ Evolves(m, React(Waitable(m, v), FrameReaction(WaitedOn(m, v), d)), printed)
  <1>1. PICK c : c = Waitable(m, v)
    OBVIOUS
  <1>2. PICK s : s = WaitedOn(m, v)
    OBVIOUS
  <1>3. Evolves(m, c, printed) /\ s \in Promise(c)
    BY <1>1, <1>2, WaitableEvolves
  <1>4. Sound(c, printed) /\ MachineOK(c) /\ d \in Promise(c) /\ ValueIn(c, w)
    BY <1>3, EvolvesKeeps DEF Evolves, Sound
  <1>5. s \in Nat /\ d \in Nat /\ w \in Value
    BY <1>3, <1>4, FieldTypes DEF Promise, ValueIn
  <1>6. PICK x : x = RestoreReaction(s, d, how, w)
    OBVIOUS
  <1>7. PICK y : y = FrameReaction(s, d)
    OBVIOUS
  <1>8. /\ x \in Reaction /\ x.source = s /\ x.target = d
        /\ x.kind = "restore" /\ x.ful = NotCallable /\ x.rej = NotCallable /\ x.value = w
        /\ y \in Reaction /\ y.source = s /\ y.target = d
        /\ y.kind = "frame" /\ y.ful = NotCallable /\ y.rej = NotCallable
        /\ y.value = Undefined
    BY <1>5, <1>6, <1>7, WaitFields
  <1>9. ReactionIn(c, x) /\ ReactionIn(c, y)
    BY <1>3, <1>4, <1>8, NotCallableIn, PlainIn DEF ReactionIn
  <1>10. Evolves(c, React(c, x), printed) /\ Evolves(c, React(c, y), printed)
    BY <1>3, <1>4, <1>8, <1>9, ReactSound
  <1> QED
    BY <1>1, <1>2, <1>3, <1>6, <1>7, <1>10, EvolvesTrans

(* One element joins the newest group, at a slot the group has.            *)
LEMMA JoinEvolves ==
  ASSUME NEW m, NEW printed, Sound(m, printed), NEW v, ValueIn(m, v),
         Len(m.groups) # 0, NEW i \in Nat, i \in 1 .. Len(m.groups[Len(m.groups)].values)
  PROVE  /\ Evolves(m, Join(m, v, i), printed)
         /\ Len(Join(m, v, i).groups) = Len(m.groups)
  <1>1. PICK g : g = Len(m.groups)
    OBVIOUS
  <1>2. g \in Nat /\ g \in 1 .. Len(m.groups)
    BY <1>1, FieldTypes DEF Sound
  <1>3. PICK d : d = m.groups[g].result
    OBVIOUS
  <1>4. d \in Promise(m)
    BY <1>2, <1>3 DEF Sound, MachineOK
  <1>5. PICK c : c = Waitable(m, v)
    OBVIOUS
  <1>6. PICK s : s = WaitedOn(m, v)
    OBVIOUS
  <1>7. Evolves(m, c, printed) /\ s \in Promise(c) /\ Len(c.groups) = Len(m.groups)
    BY <1>5, <1>6, WaitableEvolves
  <1>8. Sound(c, printed) /\ MachineOK(c) /\ d \in Promise(c)
    BY <1>4, <1>7, EvolvesKeeps DEF Evolves, Sound
  <1>9. Len(c.groups[g].values) = Len(m.groups[g].values) /\ g \in 1 .. Len(c.groups)
    BY <1>2, <1>7 DEF Evolves, Grows
  <1>10. s \in Nat /\ d \in Nat /\ i \in Nat
    BY <1>7, <1>8, FieldTypes DEF Promise
  <1>11. PICK x : x = MemberReaction(s, d, g, i)
    OBVIOUS
  <1>12. /\ x \in Reaction /\ x.source = s /\ x.target = d
         /\ x.kind = "member" /\ x.ful = NotCallable /\ x.rej = NotCallable
         /\ x.value = Undefined /\ x.group = g /\ x.slot = i
    <2>1. g \in Nat
      BY <1>2
    <2>2. s \in Nat /\ d \in Nat /\ i \in Nat
      BY <1>10
    <2> QED
      BY ONLY <2>1, <2>2, <1>11, MemberFields
  <1>13. ReactionIn(c, x)
    BY <1>1, <1>7, <1>8, <1>9, <1>12, NotCallableIn, PlainIn DEF ReactionIn
  <1>14. Evolves(c, React(c, x), printed) /\ Steady(c, React(c, x))
    BY <1>7, <1>8, <1>12, <1>13, ReactSound
  <1>15. Join(m, v, i) = React(c, x)
    BY <1>1, <1>3, <1>5, <1>6, <1>11 DEF Join
  <1> QED
    BY <1>7, <1>14, <1>15, EvolvesTrans DEF Steady

(* Every element of a combinator joins its group.                          *)
LEMMA JoinAllEvolves ==
  ASSUME NEW m, NEW printed, Sound(m, printed), Len(m.groups) # 0,
         NEW vs, Len(vs) \in {1, 2}, \A i \in 1 .. Len(vs) : ValueIn(m, vs[i]),
         Len(m.groups[Len(m.groups)].values) = Len(vs)
  PROVE  Evolves(m, JoinAll(m, vs), printed)
  <1>g. Len(m.groups) \in Nat
    BY FieldTypes DEF Sound
  <1>1. PICK n : n = Join(m, vs[1], 1)
    OBVIOUS
  <1>2. 1 \in 1 .. Len(m.groups[Len(m.groups)].values) /\ ValueIn(m, vs[1])
    <2>1. PICK k : k = Len(vs)
      OBVIOUS
    <2>2. k \in {1, 2} /\ Len(m.groups[Len(m.groups)].values) = k
      BY <2>1
    <2>3. 1 \in 1 .. k
      BY <2>2
    <2> QED
      BY <2>1, <2>2, <2>3
  <1>3. Evolves(m, n, printed) /\ Len(n.groups) = Len(m.groups)
    BY <1>1, <1>2, JoinEvolves
  <1>4. CASE Len(vs) = 1
    BY <1>1, <1>3, <1>4 DEF JoinAll
  <1>5. CASE Len(vs) = 2
    <2>1. Sound(n, printed) /\ ValueIn(n, vs[2])
      BY <1>3, <1>5, EvolvesKeeps DEF Evolves
    <2>2. Len(n.groups[Len(n.groups)].values) = 2
      BY <1>3, <1>5, <1>g, SMTT(60) DEF Evolves, Grows
    <2>3. Evolves(n, Join(n, vs[2], 2), printed)
      BY <1>3, <2>1, <2>2, JoinEvolves, SMTT(60)
    <2> QED
      BY <1>1, <1>3, <1>5, <2>3, EvolvesTrans DEF JoinAll
  <1> QED
    BY <1>4, <1>5

(* A combinator called, over none, one or two elements.                    *)
LEMMA CombineEvolves ==
  ASSUME NEW m, NEW printed, Sound(m, printed),
         NEW kind \in {"all", "allSettled", "race", "any"},
         NEW vs, vs = <<>> \/ Len(vs) \in {1, 2}, \A i \in 1 .. Len(vs) : ValueIn(m, vs[i])
  PROVE  /\ Evolves(m, Combine(m, kind, vs), printed)
         /\ Newest(m) + 1 \in Promise(Combine(m, kind, vs))
  <1>1. PICK c : c = Create(m)
    OBVIOUS
  <1>2. PICK p : p = Newest(c)
    OBVIOUS
  <1>3. /\ Evolves(m, c, printed) /\ p \in Promise(c) /\ p = Newest(m) + 1
        /\ Sound(c, printed) /\ Len(c.groups) \in Nat
    BY <1>1, <1>2, CreateEvolves, FieldTypes DEF Evolves, Sound
  <1>o. PICK o : o = Combine(m, kind, vs)
    OBVIOUS
  <1>4. Evolves(c, o, printed)
    <2>1. CASE vs = <<>>
      <3>1. o = SettleEmpty(c, kind, p)
        BY <2>1, <1>1, <1>2, <1>o DEF Combine
      <3>2. CASE kind \in {"all", "allSettled"}
        BY <3>1, <3>2, <1>3, SettleEvolves, PlainIn DEF SettleEmpty, Settled
      <3>3. CASE kind = "any"
        BY <3>1, <3>3, <1>3, RejectEvolves, PlainIn DEF SettleEmpty
      <3>4. CASE kind = "race"
        <4>1. o = c
          BY <3>1, <3>4 DEF SettleEmpty
        <4> QED
          BY <4>1, <1>3, GrowsRefl DEF Evolves, Sound
      <3> QED
        BY <3>2, <3>3, <3>4
    <2>2. CASE vs # <<>>
      <3>1. PICK g : g = OpenGroup(c, kind, p, Len(vs))
        OBVIOUS
      <3>2. Len(vs) \in {1, 2} /\ Len(vs) \in Nat
        BY <2>2
      <3>3. /\ Evolves(c, g, printed) /\ Len(g.groups) = Len(c.groups) + 1
            /\ Len(g.groups[Len(g.groups)].values) = Len(vs)
        BY <3>1, <3>2, <1>3, OpenGroupSound, SMTT(60)
      <3>4. /\ Sound(g, printed) /\ Len(g.groups) # 0
            /\ \A i \in 1 .. Len(vs) : ValueIn(g, vs[i])
        BY <3>3, <1>3, EvolvesKeeps DEF Evolves
      <3>5. o = JoinAll(g, vs)
        BY <2>2, <3>1, <1>1, <1>2, <1>o DEF Combine
      <3>6. Evolves(g, o, printed)
        BY <3>2, <3>3, <3>4, <3>5, JoinAllEvolves
      <3> QED
        BY <3>3, <3>6, <1>3, EvolvesTrans
    <2> QED
      BY <2>1, <2>2
  <1> QED
    BY <1>3, <1>4, <1>o, EvolvesTrans, EvolvesKeeps

(* A member of a group settled: its slot is filled, the group may settle.  *)
LEMMA AdvanceEvolves ==
  ASSUME NEW m, NEW printed, Sound(m, printed), NEW g \in 1 .. Len(m.groups),
         NEW i \in 1 .. Len(m.groups[g].values), NEW how, NEW v, ValueIn(m, v)
  PROVE  Evolves(m, Advance(m, g, i, how, v), printed)
  <1>1. PICK p : p = m.groups[g].result
    OBVIOUS
  <1>2. PICK n : n = Fill(m, g, i, v)
    OBVIOUS
  <1>3. p \in Promise(m) /\ v \in Value
    BY <1>1 DEF Sound, MachineOK, ValueIn
  <1>4. Evolves(m, n, printed)
    BY <1>2, <1>3, FillSound
  <1>5. Sound(n, printed) /\ p \in Promise(n)
    BY <1>3, <1>4, EvolvesKeeps DEF Evolves
  <1>6. Evolves(m, SettleThrough(m, p, how, v), printed)
    BY <1>3, SettleThroughEvolves
  <1>7. /\ Evolves(n, Reject(n, p, Made), printed)
        /\ Evolves(n, Settle(n, p, "fulfilled", Made), printed)
    BY <1>5, SettleEvolves, RejectEvolves, PlainIn DEF Settled
  <1>8. /\ Evolves(m, Reject(n, p, Made), printed)
        /\ Evolves(m, Settle(n, p, "fulfilled", Made), printed)
    BY <1>4, <1>7, EvolvesTrans
  <1> QED
    BY <1>1, <1>2, <1>4, <1>6, <1>8 DEF Advance

-----------------------------------------------------------------------------
(***************************************************************************)
(* The inductive invariant.  The types alone are not inductive: the drain  *)
(* has a settlement to hand on only because a reaction enters the queue    *)
(* once its source has settled, and the report is exact only because a     *)
(* promise without waiters has no reaction that waits.  Both are the       *)
(* placement of the reactions, which `Sound' carries.                      *)
(***************************************************************************)
StackIn(m, s) == s \in Seq(Frame) /\ \A i \in 1 .. Len(s) : FrameIn(m, s[i])

StateOK(m, printed, s, known, settlers) ==
  /\ Sound(m, printed)
  /\ StackIn(m, s)
  /\ known \subseteq Promise(m)
  /\ settlers \subseteq 1 .. Len(m.pairs)

IInv == /\ StateOK(machine, reported, stack, named, held)
        /\ program \in Programs
        /\ draining \in BOOLEAN
        /\ turns \in 0 .. MaxTurns

(* What a step may do to the machine: it evolves, at most one reaction     *)
(* having been taken out of the queue first.                               *)
Moves(m, n) == Grows(m, n) \/ (m.queue # <<>> /\ Grows(Take(m), n))

Keeps(m, n) == /\ Promise(m) \subseteq Promise(n)
               /\ 1 .. Len(m.pairs) \subseteq 1 .. Len(n.pairs)
               /\ \A v : ValueIn(m, v) => ValueIn(n, v)

-----------------------------------------------------------------------------
(* The stack of running code: what is on it names things that stay.        *)
LEMMA StackKeeps ==
  ASSUME NEW m, NEW n, Keeps(m, n), NEW s, StackIn(m, s)
  PROVE  StackIn(n, s)
  BY DEF Keeps, StackIn, FrameIn

(* Code is called.                                                         *)
LEMMA StackCall ==
  ASSUME NEW m, NEW s, StackIn(m, s), NEW f \in Frame, FrameIn(m, f)
  PROVE  StackIn(m, Append(s, f))
  <1>1. s \in Seq(Frame) /\ \A i \in 1 .. Len(s) : FrameIn(m, s[i])
    BY DEF StackIn
  <1>2. PICK t : t = Append(s, f)
    OBVIOUS
  <1>3. /\ t \in Seq(Frame) /\ Len(t) = Len(s) + 1 /\ Len(s) \in Nat
        /\ \A i \in 1 .. Len(s) : t[i] = s[i]
        /\ t[Len(s) + 1] = f
    BY <1>1, <1>2, AppendProperties, LenProperties
  <1>4. \A i \in 1 .. Len(t) : i \in 1 .. Len(s) \/ i = Len(s) + 1
    BY <1>3
  <1> QED
    BY <1>1, <1>2, <1>3, <1>4 DEF StackIn

(* The innermost code ends.                                                *)
LEMMA StackRest ==
  ASSUME NEW m, NEW s, StackIn(m, s), s # <<>>
  PROVE  /\ StackIn(m, SubSeq(s, 1, Len(s) - 1))
         /\ s[Len(s)] \in Frame /\ FrameIn(m, s[Len(s)])
  <1>1. s \in Seq(Frame) /\ \A i \in 1 .. Len(s) : FrameIn(m, s[i])
    BY DEF StackIn
  <1>2. Len(s) \in Nat /\ Len(s) # 0
    BY <1>1, EmptySeq, LenProperties
  <1>3. Len(s) \in 1 .. Len(s)
    BY <1>2
  <1>4. s[Len(s)] \in Frame
    BY <1>1, <1>3, ElementOfSeq
  <1>5. PICK k \in Nat : k = Len(s) - 1
    BY <1>2
  <1>6. \A i \in 1 .. k : i \in 1 .. Len(s) /\ s[i] \in Frame
    BY <1>1, <1>2, <1>5, ElementOfSeq
  <1>7. PICK t : t = SubSeq(s, 1, k)
    OBVIOUS
  <1>8. /\ t \in Seq(Frame) /\ Len(t) = k
        /\ \A i \in 1 .. k : t[i] = s[i]
    <2>1. /\ t \in Seq(Frame) /\ Len(t) = IF 1 <= k THEN k - 1 + 1 ELSE 0
          /\ \A i \in 1 .. k - 1 + 1 : t[i] = s[1 + i - 1]
      BY <1>5, <1>6, <1>7, SubSeqProperties
    <2>2. k - 1 + 1 = k /\ (~(1 <= k) => k = 0) /\ \A i \in 1 .. k : 1 + i - 1 = i
      BY <1>5
    <2> QED
      BY <2>1, <2>2
  <1>9. StackIn(m, t)
    BY <1>1, <1>6, <1>8 DEF StackIn
  <1> QED
    BY <1>1, <1>3, <1>4, <1>5, <1>7, <1>9

(* Where the machine evolves, every part of the state stays in its type.   *)
LEMMA StateKeeps ==
  ASSUME NEW m, NEW printed, NEW s, NEW known, NEW settlers,
         StateOK(m, printed, s, known, settlers), NEW n, Evolves(m, n, printed)
  PROVE  StateOK(n, printed, s, known, settlers) /\ Keeps(m, n)
  <1>1. Keeps(m, n)
    BY EvolvesKeeps DEF StateOK, Keeps
  <1> QED
    BY <1>1, StackKeeps DEF StateOK, Keeps, Evolves

(* The drain takes a reaction: it has a settled source, unless it is a job *)
(* that waits on nothing.                                                  *)
LEMMA StateTakes ==
  ASSUME NEW m, NEW printed, NEW s, NEW known, NEW settlers,
         StateOK(m, printed, s, known, settlers), m.queue # <<>>,
         NEW x, x = m.reactions[Head(m.queue)]
  PROVE  /\ StateOK(Take(m), printed, s, known, settlers)
         /\ Keeps(m, Take(m))
         /\ Len(Take(m).pairs) = Len(m.pairs)
         /\ x \in Reaction /\ ReactionIn(Take(m), x)
         /\ x.kind # "thenable" => /\ m.state[x.source] \in Settled
                                   /\ ValueIn(Take(m), m.value[x.source])
  <1>1. PICK n : n = Take(m)
    OBVIOUS
  <1>2. Sound(m, printed) /\ MachineOK(m)
    BY DEF StateOK, Sound
  <1>3. Sound(n, printed) /\ TakesAs(m, n)
    BY <1>1, <1>2, TakeSound
  <1>4. /\ n.state = m.state /\ n.value = m.value /\ n.pairs = m.pairs
        /\ n.groups = m.groups /\ n.reactions = m.reactions
        /\ Head(m.queue) \in ReactionId(m) /\ ~Parked(m, Head(m.queue))
    BY <1>3 DEF TakesAs, Waiting
  <1>5. Keeps(m, n)
    BY <1>4 DEF Keeps, Promise, ValueIn
  <1>6. x \in Reaction /\ ReactionIn(m, x)
    BY <1>2, <1>4, SourceIn
  <1>7. ReactionIn(n, x)
    BY <1>4, <1>6 DEF ReactionIn, CallableIn, ValueIn, Promise
  <1>8. x.kind # "thenable" => m.state[x.source] \in Settled /\ ValueIn(n, m.value[x.source])
    <2> SUFFICES ASSUME x.kind # "thenable"
                 PROVE  m.state[x.source] \in Settled /\ ValueIn(n, m.value[x.source])
      OBVIOUS
    <2>0. x.source \in 1 .. Len(m.state)
      BY <1>6, Zenon DEF ReactionIn, Promise
    <2>1. x.source \in Promise(m) /\ x.source # 0
      BY <2>0, SMT DEF Promise
    <2>2. m.state[x.source] \in State
      BY <2>1, <1>2, FieldTypes, ElementOfSeq DEF Promise
    <2>3. m.state[x.source] # "pending"
      BY <2>1, <1>4 DEF Parked, Source
    <2>4. ValueIn(m, m.value[x.source])
      BY <2>1, <1>2 DEF MachineOK
    <2> QED
      BY <2>2, <2>3, <2>4, <1>5 DEF State, Keeps
  <1>9. StateOK(n, printed, s, known, settlers)
    BY <1>3, <1>4, <1>5, StackKeeps DEF StateOK, Keeps
  <1> QED
    BY <1>1, <1>4, <1>5, <1>6, <1>7, <1>8, <1>9

(***************************************************************************)
(* The frame of every action: the machine evolves, perhaps from where the  *)
(* drain took a reaction, and the rest names what the machine holds.       *)
(***************************************************************************)
Rest3 == /\ StackIn(machine', stack')
         /\ named' \subseteq Promise(machine')
         /\ held' \subseteq 1 .. Len(machine'.pairs)
         /\ reported' = reported /\ program' = program
         /\ draining' \in BOOLEAN /\ turns' \in 0 .. MaxTurns

(* An operation, or the end of a piece of code.                            *)
LEMMA Steps ==
  ASSUME IInv, Evolves(machine, machine', reported), Rest3
  PROVE  IInv' /\ Moves(machine, machine')
  BY DEF IInv, StateOK, Evolves, Rest3, Moves

(* A step of the drain that takes a reaction.                              *)
LEMMA DrainSteps ==
  ASSUME IInv, machine.queue # <<>>, Evolves(Take(machine), machine', reported), Rest3
  PROVE  IInv' /\ Moves(machine, machine')
  BY DEF IInv, StateOK, Evolves, Rest3, Moves

(* What the program passes around names promises that exist.               *)
LEMMA ValuesIn ==
  ASSUME IInv, NEW v \in Values \cup {Undefined}
  PROVE  ValueIn(machine, v)
  <1>1. MachineOK(machine) /\ named \subseteq Promise(machine)
    BY DEF IInv, StateOK, Sound
  <1>2. \A p \in Promise(machine) : p \in Nat
    BY <1>1, FieldTypes DEF Promise
  <1> QED
    BY <1>1, <1>2, PlainIn DEF Values, ValueIn, Value, Plain, PromiseVal, ThenableObj, GetterObj

(* A frame for code that answers for a promise, or for none.               *)
LEMMA CodeFrames ==
  ASSUME NEW m, MachineOK(m), NEW p \in Promise(m), NEW k \in 0 .. Len(m.pairs),
         NEW how \in Settled, NEW v, ValueIn(m, v)
  PROVE  /\ \A kind \in {"turn", "try"} :
              CodeFor(kind, 0) \in Frame /\ FrameIn(m, CodeFor(kind, 0))
         /\ \A kind \in {"handler", "finally", "body"} :
              /\ CodeFor(kind, p) \in Frame /\ FrameIn(m, CodeFor(kind, p))
              /\ NewFrame(kind, p, 0, how, v) \in Frame
              /\ FrameIn(m, NewFrame(kind, p, 0, how, v))
         /\ \A kind \in {"executor", "getter", "then"} :
              k # 0 => /\ NewFrame(kind, p, k, how, v) \in Frame
                       /\ FrameIn(m, NewFrame(kind, p, k, how, v))
  <1>1. p \in Nat /\ k \in Nat /\ v \in Value /\ Len(m.pairs) \in Nat
    BY FieldTypes DEF Promise, ValueIn
  <1>2. k # 0 => k \in 1 .. Len(m.pairs)
    BY <1>1
  <1>3. \A kind \in {"turn", "try"} :
          CodeFor(kind, 0) \in Frame /\ FrameIn(m, CodeFor(kind, 0))
    BY PlainIn, UndefinedValue DEF CodeFor, NewFrame, Frame, FrameIn, Settled
  <1>4. \A kind \in {"handler", "finally", "body"} :
          /\ NewFrame(kind, p, 0, how, v) \in Frame
          /\ FrameIn(m, NewFrame(kind, p, 0, how, v))
    BY <1>1 DEF NewFrame, Frame, FrameIn
  <1>5. \A kind \in {"handler", "finally", "body"} :
          CodeFor(kind, p) \in Frame /\ FrameIn(m, CodeFor(kind, p))
    BY <1>1, PlainIn, UndefinedValue DEF CodeFor, NewFrame, Frame, FrameIn, Settled
  <1>6. \A kind \in {"executor", "getter", "then"} :
          k # 0 => /\ NewFrame(kind, p, k, how, v) \in Frame
                   /\ FrameIn(m, NewFrame(kind, p, k, how, v))
    BY <1>1, <1>2 DEF NewFrame, Frame, FrameIn
  <1> QED
    BY <1>3, <1>4, <1>5, <1>6

(* A promise made with a pair of its own (new Promise, withResolvers).     *)
LEMMA OpenedEvolves ==
  ASSUME NEW m, NEW printed, Sound(m, printed), NEW c, c = Create(m),
         NEW n, n = OpenPair(c, Newest(c))
  PROVE  /\ Evolves(m, n, printed)
         /\ Newest(c) \in Promise(n)
         /\ NewestPair(c) + 1 \in 1 .. Len(n.pairs) /\ NewestPair(c) + 1 # 0
  <1>1. /\ Evolves(m, c, printed) /\ Newest(c) \in Promise(c) /\ Sound(c, printed)
    BY CreateEvolves DEF Evolves
  <1>2. /\ Evolves(c, n, printed) /\ Len(n.pairs) = Len(c.pairs) + 1
    BY <1>1, OpenPairSound
  <1>3. Len(c.pairs) \in Nat
    BY <1>1, FieldTypes DEF Sound
  <1> QED
    BY <1>1, <1>2, <1>3, EvolvesTrans, EvolvesKeeps DEF NewestPair

(* new Promise and Promise.withResolvers.                                  *)
LEMMA OpeningSteps ==
  ASSUME IInv, New \/ WithResolvers
  PROVE  IInv' /\ Moves(machine, machine')
  <1>1. PICK c : c = Create(machine)
    OBVIOUS
  <1>2. PICK n : n = OpenPair(c, Newest(c))
    OBVIOUS
  <1>3. PICK k : k = NewestPair(c) + 1
    OBVIOUS
  <1>4. PICK p : p = Newest(c)
    OBVIOUS
  <1>5. /\ Evolves(machine, n, reported) /\ p \in Promise(n)
        /\ k \in 1 .. Len(n.pairs) /\ k # 0
    BY <1>1, <1>2, <1>3, <1>4, OpenedEvolves DEF IInv, StateOK
  <1>6. StateOK(n, reported, stack, named, held)
    BY <1>5, StateKeeps DEF IInv
  <1>7. CASE New
    <2>1. /\ machine' = n
          /\ stack' = Append(stack, NewFrame("executor", p, k, "fulfilled", Undefined))
          /\ named' = named \cup {p} /\ held' = held \cup {k}
          /\ reported' = reported /\ program' = program /\ draining' = draining /\ turns' = turns
      BY <1>7, <1>1, <1>2, <1>3, <1>4 DEF New, Becomes, Answers, Call
    <2>2. LET f == NewFrame("executor", p, k, "fulfilled", Undefined)
          IN  f \in Frame /\ FrameIn(n, f)
      BY <1>5, <1>6, CodeFrames, PlainIn DEF StateOK, Sound, Settled
    <2>3. StackIn(n, stack')
      BY <2>1, <2>2, <1>6, StackCall DEF StateOK
    <2>4. Rest3
      BY <2>1, <2>3, <1>5, <1>6 DEF Rest3, IInv, StateOK
    <2> QED
      BY <2>1, <2>4, <1>5, Steps
  <1>8. CASE WithResolvers
    <2>1. /\ machine' = n /\ stack' = stack
          /\ named' = named \cup {p} /\ held' = held \cup {k}
          /\ reported' = reported /\ program' = program /\ draining' = draining /\ turns' = turns
      BY <1>8, <1>1, <1>2, <1>3, <1>4 DEF WithResolvers, Becomes, Answers
    <2>2. Rest3
      BY <2>1, <1>5, <1>6 DEF Rest3, IInv, StateOK
    <2> QED
      BY <2>1, <2>2, <1>5, Steps
  <1> QED
    BY <1>7, <1>8

(* An operation that leaves the stack alone and answers at most a promise. *)
LEMMA AnsweringSteps ==
  ASSUME IInv, NEW p, Evolves(machine, machine', reported),
         named' = named \/ (named' = named \cup {p} /\ p \in Promise(machine')),
         UNCHANGED <<program, stack, draining, held, reported, turns>>
  PROVE  IInv' /\ Moves(machine, machine')
  <1>1. StateOK(machine', reported, stack, named, held)
    BY StateKeeps DEF IInv
  <1>2. Rest3
    BY <1>1 DEF Rest3, IInv, StateOK
  <1> QED
    BY <1>2, Steps

(* Every operation of the program.                                         *)
LEMMA OperationSteps ==
  ASSUME IInv, Operation
  PROVE  IInv' /\ Moves(machine, machine')
  <1>s. Sound(machine, reported) /\ MachineOK(machine)
    BY DEF IInv, StateOK, Sound
  <1>v. \A v \in Values : ValueIn(machine, v)
    BY ValuesIn
  <1>n. named \subseteq Promise(machine) /\ held \subseteq 1 .. Len(machine.pairs)
    BY DEF IInv, StateOK
  <1>c. PICK c : c = Create(machine)
    OBVIOUS
  <1>p. PICK p : p = Newest(machine) + 1
    OBVIOUS
  <1>q. /\ Evolves(machine, c, reported) /\ Sound(c, reported)
        /\ p \in Promise(c) /\ Newest(c) = p /\ MachineOK(c)
    BY <1>s, <1>c, <1>p, CreateEvolves DEF Evolves, Sound
  <1>h. \A f \in Handler : f \in Callable /\ CallableIn(c, f)
    BY <1>q, NotCallableIn DEF Handler
  <1>1. CASE New \/ WithResolvers
    BY <1>1, OpeningSteps
  <1>2. CASE AsyncCall
    <2>1. /\ machine' = c /\ stack' = Append(stack, CodeFor("body", p))
          /\ named' = named \cup {p} /\ held' = held
          /\ reported' = reported /\ program' = program /\ draining' = draining /\ turns' = turns
      BY <1>2, <1>c, <1>p DEF AsyncCall, Becomes, Answers, Call
    <2>2. StateOK(c, reported, stack, named, held)
      BY <1>q, StateKeeps DEF IInv
    <2>3. CodeFor("body", p) \in Frame /\ FrameIn(c, CodeFor("body", p))
      <3>1. 0 \in 0 .. Len(c.pairs) /\ "fulfilled" \in Settled
        BY <1>q, FieldTypes DEF Settled
      <3> QED
        BY <3>1, <1>q, CodeFrames, PlainIn
    <2>4. StackIn(c, stack')
      BY <2>1, <2>2, <2>3, StackCall DEF StateOK
    <2>5. Rest3
      BY <2>1, <2>2, <2>4, <1>q DEF Rest3, IInv, StateOK
    <2> QED
      BY <2>1, <2>5, <1>q, Steps
  <1>3. CASE Try
    <2>1. /\ machine' = machine /\ stack' = Append(stack, CodeFor("try", 0))
          /\ named' = named /\ held' = held
          /\ reported' = reported /\ program' = program /\ draining' = draining /\ turns' = turns
      BY <1>3 DEF Try, Call
    <2>2. CodeFor("try", 0) \in Frame /\ FrameIn(machine, CodeFor("try", 0))
      BY PlainIn, UndefinedValue DEF CodeFor, NewFrame, Frame, FrameIn, Settled
    <2>3. StackIn(machine, stack')
      BY <2>1, <2>2, StackCall DEF IInv, StateOK
    <2>4. Rest3
      BY <2>1, <2>3 DEF Rest3, IInv, StateOK
    <2>5. Evolves(machine, machine', reported)
      BY <2>1, <1>s, GrowsRefl DEF Evolves
    <2> QED
      BY <2>4, <2>5, Steps
  <1>4. CASE EmptyRace
    <2>1. /\ Evolves(machine, Combine(machine, "race", <<>>), reported)
          /\ p \in Promise(Combine(machine, "race", <<>>))
      BY <1>s, <1>p, EmptySeq, CombineEvolves
    <2> QED
      BY <1>4, <2>1, <1>p, AnsweringSteps DEF EmptyRace, Becomes, Answers
  <1>5. CASE \E k \in held, v \in Values : SettlerCalled(k, v)
    <2>1. PICK k \in held, v \in Values : SettlerCalled(k, v)
      BY <1>5
    <2>2. PICK f \in {ResolveFn(k), RejectFn(k)} : machine' = CallSettler(machine, f, v)
      BY <2>1 DEF SettlerCalled, Becomes
    <2>3. f.pair \in 1 .. Len(machine.pairs)
      BY <2>2, <1>n DEF ResolveFn, RejectFn
    <2>4. Evolves(machine, machine', reported)
      BY <2>2, <2>3, <1>s, <1>v, CallSettlerEvolves
    <2> QED
      BY <2>1, <2>4, AnsweringSteps DEF SettlerCalled
  <1>6. CASE \E q \in named, f, r \in Handler : Then(q, f, r)
    <2>1. PICK q \in named, f \in Handler, r \in Handler : Then(q, f, r)
      BY <1>6
    <2>2. q \in Promise(c)
      BY <1>n, <1>s, <1>q, EvolvesKeeps
    <2>3. machine' = React(c, JsReaction(q, p, f, r)) /\ named' = named \cup {p}
      BY <2>1, <1>c, <1>q DEF Then, Becomes, Answers
    <2>4. Evolves(c, machine', reported)
      BY <2>2, <2>3, <1>q, <1>h, ThenEvolves
    <2>5. Evolves(machine, machine', reported) /\ p \in Promise(machine')
      BY <2>4, <1>s, <1>q, EvolvesTrans, EvolvesKeeps
    <2> QED
      BY <2>1, <2>3, <2>5, AnsweringSteps DEF Then
  <1>7. CASE \E q \in named, f \in Handler : Finally(q, f)
    <2>1. PICK q \in named, f \in Handler : Finally(q, f)
      BY <1>7
    <2>2. q \in Promise(c)
      BY <1>n, <1>s, <1>q, EvolvesKeeps
    <2>3. machine' = React(c, FinallyReaction(q, p, f)) /\ named' = named \cup {p}
      BY <2>1, <1>c, <1>q DEF Finally, Becomes, Answers
    <2>4. Evolves(c, machine', reported)
      BY <2>2, <2>3, <1>q, <1>h, ThenEvolves
    <2>5. Evolves(machine, machine', reported) /\ p \in Promise(machine')
      BY <2>4, <1>s, <1>q, EvolvesTrans, EvolvesKeeps
    <2> QED
      BY <2>1, <2>3, <2>5, AnsweringSteps DEF Finally
  <1>8. CASE \E v \in Values : StaticResolve(v) \/ StaticReject(v)
    <2>1. PICK v \in Values : StaticResolve(v) \/ StaticReject(v)
      BY <1>8
    <2>2. /\ machine' \in {Resolve(c, p, v), Reject(c, p, v)} /\ named' = named \cup {p}
          /\ UNCHANGED <<program, stack, draining, held, reported, turns>>
      BY <2>1, <1>c, <1>p
         DEF StaticResolve, StaticReject, ResolvedBy, RejectedBy, Becomes, Answers
    <2>3. Evolves(machine, machine', reported) /\ p \in Promise(machine')
      BY <2>2, <1>s, <1>v, <1>c, <1>p, MadeEvolves
    <2> QED
      BY <2>2, <2>3, AnsweringSteps
  <1>9. CASE \E kind \in {"all", "allSettled", "race", "any"} : CombineAny(kind)
    <2>1. PICK kind \in {"all", "allSettled", "race", "any"} : CombineAny(kind)
      BY <1>9
    <2>2. PICK vs \in Elements(kind) : machine' = Combine(machine, kind, vs)
      BY <2>1 DEF CombineAny, Becomes
    <2>3. /\ vs = <<>> \/ Len(vs) \in {1, 2}
          /\ \A i \in 1 .. Len(vs) : ValueIn(machine, vs[i])
      BY <2>2, <1>v DEF Elements
    <2>4. Evolves(machine, machine', reported) /\ p \in Promise(machine')
      BY <2>2, <2>3, <1>s, <1>p, CombineEvolves
    <2> QED
      BY <2>1, <2>4, <1>p, AnsweringSteps DEF CombineAny, Answers
  <1> QED
    BY <1>1, <1>2, <1>3, <1>4, <1>5, <1>6, <1>7, <1>8, <1>9 DEF Operation

(* A piece of code ends.                                                   *)
LEMMA EndingSteps ==
  ASSUME IInv, stack # <<>>, NEW p, Evolves(machine, machine', reported), stack' = Rest,
         named' = named \/ (named' = named \cup {p} /\ p \in Promise(machine')),
         UNCHANGED <<program, draining, held, reported, turns>>
  PROVE  IInv' /\ Moves(machine, machine')
  <1>1. StateOK(machine', reported, stack, named, held)
    BY StateKeeps DEF IInv
  <1>2. StackIn(machine', stack')
    BY <1>1, StackRest DEF StateOK, Rest
  <1>3. Rest3
    BY <1>1, <1>2 DEF Rest3, IInv, StateOK
  <1> QED
    BY <1>3, Steps

(* What the innermost code answers for, and what it carries.               *)
LEMMA TopFacts ==
  ASSUME IInv, stack # <<>>
  PROVE  /\ Top \in Frame /\ Top.how \in Settled /\ ValueIn(machine, Top.value)
         /\ Top.kind \notin {"turn", "try"} => Top.target \in Promise(machine)
         /\ Top.kind \in {"executor", "getter", "then"} => Top.pair \in 1 .. Len(machine.pairs)
  <1>1. Top \in Frame /\ FrameIn(machine, Top)
    BY StackRest DEF IInv, StateOK, Top
  <1> QED
    BY <1>1 DEF Frame, FrameIn

(* Every way a piece of code ends.                                         *)
LEMMA EndSteps ==
  ASSUME IInv, Return \/ Throw
  PROVE  IInv' /\ Moves(machine, machine')
  <1>s. Sound(machine, reported) /\ MachineOK(machine)
    BY DEF IInv, StateOK, Sound
  <1>v. \A v \in Values \cup {Undefined} : ValueIn(machine, v)
    BY ValuesIn
  <1>r. Evolves(machine, machine, reported)
    BY <1>s, GrowsRefl DEF Evolves
  <1>1. CASE EndTurn
    BY <1>1, <1>r, EndingSteps DEF EndTurn, Running
  <1>2. CASE ExecutorReturns \/ ThenReturns
    BY <1>2, <1>r, EndingSteps DEF ExecutorReturns, ThenReturns, Running, EndsWith, Becomes
  <1>3. CASE \E callable \in BOOLEAN : GetterReturns(callable)
    <2>1. PICK callable \in BOOLEAN : GetterReturns(callable)
      BY <1>3
    <2>2. stack # <<>> /\ Top.kind = "getter"
      BY <2>1 DEF GetterReturns, Running
    <2>3. /\ Top \in Frame /\ ValueIn(machine, Top.value)
          /\ Top.target \in Promise(machine) /\ Top.pair \in 1 .. Len(machine.pairs)
      BY <2>2, TopFacts
    <2>4. CASE callable
      <3>1. PICK f : f = [Top EXCEPT !.kind = "then"]
        OBVIOUS
      <3>2. /\ machine' = machine /\ stack' = Append(Rest, f)
            /\ held' = held \cup {Top.pair} /\ named' = named
            /\ UNCHANGED <<program, draining, reported, turns>>
        BY <2>1, <2>4, <3>1 DEF GetterReturns
      <3>3. f \in Frame /\ FrameIn(machine, f)
        <4>1. /\ f \in Frame /\ f.kind = "then" /\ f.target = Top.target
              /\ f.pair = Top.pair /\ f.value = Top.value
          BY <2>3, <3>1 DEF Frame
        <4> QED
          BY <4>1, <2>3 DEF FrameIn
      <3>4. StackIn(machine, Rest)
        BY <2>2, StackRest DEF IInv, StateOK, Rest
      <3>5. StackIn(machine, stack')
        BY <3>2, <3>3, <3>4, StackCall
      <3>6. Rest3
        BY <2>3, <3>2, <3>5 DEF Rest3, IInv, StateOK
      <3> QED
        BY <3>2, <3>6, <1>r, Steps
    <2>5. CASE ~callable
      <3>1. /\ machine' = Settle(machine, Top.target, "fulfilled", Top.value)
            /\ stack' = Rest /\ UNCHANGED <<program, draining, named, held, reported, turns>>
        BY <2>1, <2>5 DEF GetterReturns, EndsWith, Becomes
      <3>2. Evolves(machine, machine', reported)
        BY <2>3, <3>1, <1>s, SettleEvolves DEF Settled
      <3> QED
        BY <2>2, <3>1, <3>2, EndingSteps
    <2> QED
      BY <2>4, <2>5
  <1>4. ASSUME NEW v \in Values \cup {Undefined}, HandlerReturns(v) \/ BodyReturns(v)
        PROVE  IInv' /\ Moves(machine, machine')
    <2>1. /\ stack # <<>> /\ Top.kind \in {"handler", "body"}
          /\ machine' = Resolve(machine, Top.target, v) /\ stack' = Rest
          /\ UNCHANGED <<program, draining, named, held, reported, turns>>
      BY <1>4 DEF HandlerReturns, BodyReturns, Running, EndsWith, Becomes
    <2>2. Evolves(machine, machine', reported)
      BY <2>1, <1>s, <1>v, TopFacts, ResolveEvolves
    <2> QED
      BY <2>1, <2>2, EndingSteps
  <1>5. ASSUME NEW v \in Values \cup {Undefined}, FinallyReturns(v) \/ BodyAwaits(v)
        PROVE  IInv' /\ Moves(machine, machine')
    <2>1. /\ stack # <<>> /\ Top.kind \in {"finally", "body"}
          /\ \/ machine' = SettleThrough(machine, Top.target, Top.how, Top.value)
             \/ machine' = React(Waitable(machine, v),
                                 RestoreReaction(WaitedOn(machine, v), Top.target,
                                                 Top.how, Top.value))
             \/ machine' = React(Waitable(machine, v),
                                 FrameReaction(WaitedOn(machine, v), Top.target))
          /\ stack' = Rest
          /\ UNCHANGED <<program, draining, named, held, reported, turns>>
      BY <1>5 DEF FinallyReturns, BodyAwaits, Running, EndsWith, Becomes
    <2>2. Evolves(machine, machine', reported)
      BY <2>1, <1>s, <1>v, TopFacts, SettleThroughEvolves, AwaitEvolves
    <2> QED
      BY <2>1, <2>2, EndingSteps
  <1>6. ASSUME NEW v \in Values \cup {Undefined}, TryReturns(v) \/ TryThrows(v)
        PROVE  IInv' /\ Moves(machine, machine')
    <2>1. PICK p : p = Newest(machine) + 1
      OBVIOUS
    <2>2. /\ stack # <<>> /\ stack' = Rest
          /\ UNCHANGED <<program, draining, held, reported, turns>>
          /\ \/ machine' = machine /\ named' = named
             \/ /\ machine' \in {Resolve(Create(machine), p, v), Reject(Create(machine), p, v)}
                /\ named' = named \cup {p}
      BY <1>6, <2>1
         DEF TryReturns, TryThrows, Running, ResolvedBy, RejectedBy, Answers
    <2>3. /\ Evolves(machine, machine', reported)
          /\ named' = named \/ (named' = named \cup {p} /\ p \in Promise(machine'))
      BY <2>1, <2>2, <1>s, <1>v, <1>r, MadeEvolves
    <2> QED
      BY <2>2, <2>3, EndingSteps
  <1>7. ASSUME NEW v \in Values, CodeThrows(v) \/ ExecutorThrows(v) \/ ThenThrows(v)
        PROVE  IInv' /\ Moves(machine, machine')
    <2>1. /\ stack # <<>> /\ Top.kind \notin {"turn", "try"} /\ stack' = Rest
          /\ UNCHANGED <<program, draining, named, held, reported, turns>>
          /\ machine' = machine \/ machine' = Reject(machine, Top.target, v)
      BY <1>7 DEF CodeThrows, ExecutorThrows, ThenThrows, Running, EndsWith, Becomes
    <2>2. Evolves(machine, machine', reported)
      BY <2>1, <1>s, <1>v, <1>r, TopFacts, RejectEvolves
    <2> QED
      BY <2>1, <2>2, EndingSteps
  <1> QED
    BY <1>1, <1>2, <1>3, <1>4, <1>5, <1>6, <1>7 DEF Return, Throw

(* A step of the drain that calls nothing back.                            *)
LEMMA QuietDrainSteps ==
  ASSUME IInv, machine.queue # <<>>, Evolves(Take(machine), machine', reported),
         UNCHANGED <<program, stack, draining, named, held, reported, turns>>
  PROVE  IInv' /\ Moves(machine, machine')
  <1>1. StateOK(Take(machine), reported, stack, named, held)
    BY StateTakes DEF IInv
  <1>2. StateOK(machine', reported, stack, named, held)
    BY <1>1, StateKeeps
  <1>3. Rest3
    BY <1>2 DEF Rest3, IInv, StateOK
  <1> QED
    BY <1>3, DrainSteps

(* A step of the drain that calls the program.                             *)
LEMMA CallingDrainSteps ==
  ASSUME IInv, machine.queue # <<>>, Evolves(Take(machine), machine', reported),
         NEW f \in Frame, FrameIn(machine', f), stack' = Append(stack, f),
         held' \subseteq held \cup 1 .. Len(machine'.pairs),
         UNCHANGED <<program, draining, named, reported, turns>>
  PROVE  IInv' /\ Moves(machine, machine')
  <1>1. StateOK(Take(machine), reported, stack, named, held)
    BY StateTakes DEF IInv
  <1>2. StateOK(machine', reported, stack, named, held)
    BY <1>1, StateKeeps
  <1>3. StackIn(machine', stack')
    BY <1>2, StackCall DEF StateOK
  <1>4. Rest3
    BY <1>2, <1>3 DEF Rest3, IInv, StateOK
  <1> QED
    BY <1>4, DrainSteps

(* Every step of the drain that takes a reaction.                          *)
LEMMA RunSteps ==
  ASSUME IInv, machine.queue # <<>>,
         RunPass \/ RunHandler \/ RunSettler \/ RunFinally \/ RunRestore
           \/ RunAdoptPromise \/ RunAdoptObject \/ RunFrame \/ RunMember
  PROVE  IInv' /\ Moves(machine, machine')
  <1>m. PICK m : m = Take(machine)
    OBVIOUS
  <1>x. PICK x : x = machine.reactions[Head(machine.queue)]
    OBVIOUS
  <1>w. PICK how : how = machine.state[x.source]
    OBVIOUS
  <1>v. PICK v : v = machine.value[x.source]
    OBVIOUS
  <1>n. Next1 = x /\ SourceHow = how /\ SourceValue = v
    BY <1>x, <1>w, <1>v DEF Next1, SourceHow, SourceValue
  <1>s. /\ StateOK(m, reported, stack, named, held) /\ Keeps(machine, m)
        /\ Len(m.pairs) = Len(machine.pairs)
        /\ x \in Reaction /\ ReactionIn(m, x)
        /\ x.kind # "thenable" => how \in Settled /\ ValueIn(m, v)
    BY <1>m, <1>x, <1>w, <1>v, StateTakes DEF IInv
  <1>t. /\ Sound(m, reported) /\ MachineOK(m) /\ Len(m.pairs) \in Nat
        /\ Evolves(m, m, reported)
    BY <1>s, FieldTypes, GrowsRefl DEF StateOK, Sound, Evolves
  <1>r. /\ x.target \in Promise(m) /\ x.how \in Settled /\ ValueIn(m, x.value)
        /\ CallableIn(m, x.ful) /\ CallableIn(m, x.rej)
    BY <1>s DEF Reaction, ReactionIn
  <1>f. 0 \in 0 .. Len(m.pairs) /\ "fulfilled" \in Settled
    BY <1>t DEF Settled
  <1>1. CASE RunPass
    <2>1. /\ machine' = SettleThrough(m, x.target, how, v) /\ x.kind = "js"
          /\ UNCHANGED <<program, stack, draining, named, held, reported, turns>>
      BY <1>1, <1>n, <1>m DEF RunPass, Drains, Becomes
    <2> QED
      BY <2>1, <1>m, <1>s, <1>t, <1>r, SettleThroughEvolves, QuietDrainSteps
  <1>2. CASE RunHandler
    <2>1. /\ machine' = m /\ stack' = Append(stack, CodeFor("handler", x.target))
          /\ UNCHANGED <<program, draining, named, held, reported, turns>>
      BY <1>2, <1>n, <1>m DEF RunHandler, Becomes, Call
    <2>2. LET f == CodeFor("handler", x.target) IN f \in Frame /\ FrameIn(m, f)
      BY <1>t, <1>r, <1>f, PlainIn, CodeFrames
    <2> QED
      BY <2>1, <2>2, <1>m, <1>t, CallingDrainSteps
  <1>3. CASE RunSettler
    <2>1. PICK f : f = Chosen
      OBVIOUS
    <2>2. PICK n : n = CallSettler(m, f, v)
      OBVIOUS
    <2>3. /\ machine' = Resolve(n, x.target, Undefined) /\ x.kind = "js"
          /\ f.kind \in {"resolve", "reject"} /\ f \in {x.ful, x.rej}
          /\ UNCHANGED <<program, stack, draining, named, held, reported, turns>>
      BY <1>3, <1>n, <1>m, <2>1, <2>2 DEF RunSettler, Drains, Becomes, Chosen
    <2>4. f.pair \in 1 .. Len(m.pairs)
      BY <2>3, <1>r, <1>t DEF CallableIn
    <2>5. Evolves(m, n, reported)
      BY <2>2, <2>3, <2>4, <1>s, <1>t, CallSettlerEvolves
    <2>6. Sound(n, reported) /\ x.target \in Promise(n)
      BY <2>5, <1>t, <1>r, EvolvesKeeps DEF Evolves
    <2>7. Evolves(n, machine', reported)
      BY <2>3, <2>6, PlainIn, ResolveEvolves
    <2>8. Evolves(m, machine', reported)
      BY <2>5, <2>7, <1>t, EvolvesTrans
    <2> QED
      BY <2>3, <2>8, <1>m, QuietDrainSteps
  <1>4. CASE RunFinally
    <2>0. x.kind = "finally"
      BY <1>4, <1>n DEF RunFinally, Drains
    <2>1. CASE x.ful.kind = "none"
      <3>1. /\ machine' = SettleThrough(m, x.target, how, v)
            /\ UNCHANGED <<program, stack, draining, named, held, reported, turns>>
        BY <1>4, <2>1, <1>n, <1>m DEF RunFinally, Becomes
      <3> QED
        BY <3>1, <2>0, <1>m, <1>s, <1>t, <1>r, SettleThroughEvolves, QuietDrainSteps
    <2>2. CASE x.ful.kind # "none"
      <3>1. /\ machine' = m
            /\ stack' = Append(stack, NewFrame("finally", x.target, 0, how, v))
            /\ UNCHANGED <<program, draining, named, held, reported, turns>>
        BY <1>4, <2>2, <1>n, <1>m DEF RunFinally, Becomes, Call
      <3>2. LET f == NewFrame("finally", x.target, 0, how, v) IN f \in Frame /\ FrameIn(m, f)
        BY <2>0, <1>s, <1>t, <1>r, <1>f, CodeFrames
      <3> QED
        BY <3>1, <3>2, <1>m, <1>t, CallingDrainSteps
    <2> QED
      BY <2>1, <2>2
  <1>5. CASE RunRestore
    <2>1. /\ machine' \in {Reject(m, x.target, v), SettleThrough(m, x.target, x.how, x.value)}
          /\ x.kind = "restore"
          /\ UNCHANGED <<program, stack, draining, named, held, reported, turns>>
      BY <1>5, <1>n, <1>m DEF RunRestore, Drains, Becomes
    <2>2. Evolves(m, machine', reported)
      BY <2>1, <1>s, <1>t, <1>r, RejectEvolves, SettleThroughEvolves
    <2> QED
      BY <2>1, <2>2, <1>m, QuietDrainSteps
  <1>6. CASE RunAdoptPromise
    <2>1. /\ machine' = AdoptPromise(m, x.target, x.value.id) /\ x.value.tag = "promise"
          /\ UNCHANGED <<program, stack, draining, named, held, reported, turns>>
      BY <1>6, <1>n, <1>m DEF RunAdoptPromise, Becomes
    <2>2. x.value.id \in Promise(m)
      BY <2>1, <1>r DEF ValueIn
    <2> QED
      BY <2>1, <2>2, <1>m, <1>t, <1>r, AdoptEvolves, QuietDrainSteps
  <1>7. CASE RunAdoptObject
    <2>1. PICK k : k = Len(machine.pairs) + 1
      OBVIOUS
    <2>2. PICK f : f = NewFrame(IF x.value.tag = "getter" THEN "getter" ELSE "then",
                                x.target, k, "fulfilled", x.value)
      OBVIOUS
    <2>3. /\ machine' = OpenPair(m, x.target) /\ stack' = Append(stack, f)
          /\ held' = held \/ held' = held \cup {k}
          /\ UNCHANGED <<program, draining, named, reported, turns>>
      BY <1>7, <1>n, <1>m, <2>1, <2>2 DEF RunAdoptObject, Becomes, Call, NewestPair
    <2>4. /\ Evolves(m, machine', reported) /\ Len(machine'.pairs) = k
          /\ k \in 0 .. Len(machine'.pairs) /\ k # 0 /\ k \in 1 .. Len(machine'.pairs)
      <3>1. Evolves(m, machine', reported) /\ Len(machine'.pairs) = Len(m.pairs) + 1
        BY <2>3, <1>t, <1>r, OpenPairSound
      <3>2. k \in Nat /\ k # 0 /\ Len(machine'.pairs) = k
        BY <3>1, <2>1, <1>s, <1>t
      <3> QED
        BY <3>1, <3>2
    <2>5. f \in Frame /\ FrameIn(machine', f)
      <3>1. /\ MachineOK(machine') /\ x.target \in Promise(machine') /\ ValueIn(machine', x.value)
        BY <2>4, <1>t, <1>r, EvolvesKeeps DEF Evolves, Sound
      <3> QED
        BY <3>1, <2>2, <2>4, <1>f, CodeFrames
    <2> QED
      BY <2>3, <2>4, <2>5, <1>m, CallingDrainSteps
  <1>8. CASE RunFrame
    <2>1. /\ machine' = m /\ x.kind = "frame"
          /\ stack' = Append(stack, NewFrame("body", x.target, 0, how, v))
          /\ UNCHANGED <<program, draining, named, held, reported, turns>>
      BY <1>8, <1>n, <1>m DEF RunFrame, Drains, Becomes, Call
    <2>2. LET f == NewFrame("body", x.target, 0, how, v) IN f \in Frame /\ FrameIn(m, f)
      BY <2>1, <1>s, <1>t, <1>r, <1>f, CodeFrames
    <2> QED
      BY <2>1, <2>2, <1>m, <1>t, CallingDrainSteps
  <1>9. CASE RunMember
    <2>1. /\ machine' = Advance(m, x.group, x.slot, how, v) /\ x.kind = "member"
          /\ UNCHANGED <<program, stack, draining, named, held, reported, turns>>
      BY <1>9, <1>n, <1>m DEF RunMember, Drains, Becomes
    <2>2. x.group \in 1 .. Len(m.groups) /\ x.slot \in 1 .. Len(m.groups[x.group].values)
      BY <2>1, <1>s DEF ReactionIn
    <2> QED
      BY <2>1, <2>2, <1>m, <1>s, <1>t, AdvanceEvolves, QuietDrainSteps
  <1> QED
    BY <1>1, <1>2, <1>3, <1>4, <1>5, <1>6, <1>7, <1>8, <1>9

(* The report moves every candidate to what was printed.                   *)
LEMMA ReportSteps ==
  ASSUME IInv, Report
  PROVE  IInv' /\ Moves(machine, machine')
  <1>1. PICK m : m = machine
    OBVIOUS
  <1>2. PICK n : n = machine'
    OBVIOUS
  <1>s. /\ Sound(m, reported) /\ MachineOK(m) /\ Placed(m)
        /\ reported \subseteq Promise(m) /\ UnhandledExact(m, reported)
    BY <1>1 DEF IInv, StateOK, Sound
  <1>f. /\ n.state = m.state /\ n.value = m.value /\ n.waiters = m.waiters
        /\ n.unnoticed = {} /\ n.reactions = m.reactions
        /\ n.taken = m.taken /\ n.queue = m.queue
        /\ n.pairs = m.pairs /\ n.groups = m.groups
        /\ n \in Machine
    BY <1>1, <1>2, <1>s DEF Report, MachineOK, Machine
  <1>3. /\ reported' = reported \cup m.unnoticed /\ draining' = FALSE
        /\ UNCHANGED <<program, stack, named, held, turns>>
    BY <1>1 DEF Report
  <1>p. /\ Promise(n) = Promise(m) /\ ReactionId(n) = ReactionId(m) /\ Waiting(n) = Waiting(m)
        /\ \A r : Source(n, r) = Source(m, r) /\ (Parked(n, r) <=> Parked(m, r))
        /\ \A v : ValueIn(m, v) => ValueIn(n, v)
    BY <1>f DEF Promise, ReactionId, Waiting, Source, Parked, ValueIn
  <1>4. Grows(m, n)
    <2>1. /\ Len(m.state) <= Len(n.state) /\ Len(m.reactions) <= Len(n.reactions)
          /\ Len(m.pairs) <= Len(n.pairs) /\ Len(m.groups) <= Len(n.groups)
      BY <1>f, <1>s, FieldTypes
    <2> QED
      BY <2>1, <1>f DEF Grows
  <1>5. MachineOK(n)
    <2>1. \A x : ReactionIn(m, x) => ReactionIn(n, x)
      BY <1>f, <1>p DEF ReactionIn, CallableIn
    <2> QED
      BY <2>1, <1>f, <1>p, <1>s DEF MachineOK
  <1>6. Placed(n)
    <2>1. WaitersPlaced(n)
      BY <1>f, <1>p, <1>s DEF Placed, WaitersPlaced
    <2>2. QueuePlaced(n)
      BY <1>f, <1>p, <1>s DEF Placed, QueuePlaced
    <2>3. NoneMissing(n)
      BY <1>f, <1>p, <1>s DEF Placed, NoneMissing
    <2>4. RunInOrder(n)
      BY <1>f, <1>p, <1>s DEF Placed, RunInOrder
    <2> QED
      BY <2>1, <2>2, <2>3, <2>4 DEF Placed
  <1>7. reported' \subseteq Promise(n) /\ UnhandledExact(n, reported')
    BY <1>3, <1>f, <1>p, <1>s DEF UnhandledExact, Watched, MachineOK
  <1>8. Keeps(m, n)
    BY <1>f, <1>p DEF Keeps
  <1>9. StateOK(n, reported', stack', named', held')
    <2>1. StackIn(n, stack)
      BY <1>1, <1>8, StackKeeps DEF IInv, StateOK
    <2> QED
      BY <2>1, <1>1, <1>3, <1>5, <1>6, <1>7, <1>8 DEF StateOK, Sound, IInv, Keeps
  <1> QED
    BY <1>1, <1>2, <1>3, <1>4, <1>9 DEF IInv, Moves

(* Every step keeps the invariant and moves the machine as promised.       *)
LEMMA EveryStep ==
  ASSUME IInv, [Next]_vars
  PROVE  IInv' /\ Moves(machine, machine')
  <1>s. Sound(machine, reported) /\ MachineOK(machine)
    BY DEF IInv, StateOK, Sound
  <1>r. machine' = machine => Evolves(machine, machine', reported)
    BY <1>s, GrowsRefl DEF Evolves
  <1>1. CASE StartTurn
    <2>1. /\ machine' = machine /\ stack' = Append(stack, CodeFor("turn", 0))
          /\ named' = named /\ held' = held
          /\ reported' = reported /\ program' = program /\ draining' = draining
          /\ turns < MaxTurns /\ turns' = turns + 1
      BY <1>1 DEF StartTurn, Call
    <2>2. CodeFor("turn", 0) \in Frame /\ FrameIn(machine, CodeFor("turn", 0))
      BY PlainIn, UndefinedValue DEF CodeFor, NewFrame, Frame, FrameIn, Settled
    <2>3. StackIn(machine, stack')
      BY <2>1, <2>2, StackCall DEF IInv, StateOK
    <2>4. turns' \in 0 .. MaxTurns
      BY <2>1, BoundAssumption DEF IInv
    <2>5. Rest3
      BY <2>1, <2>3, <2>4 DEF Rest3, IInv, StateOK
    <2> QED
      BY <2>1, <2>5, <1>r, Steps
  <1>2. CASE Operation
    BY <1>2, OperationSteps
  <1>3. CASE Return \/ Throw
    BY <1>3, EndSteps
  <1>4. CASE Drain
    <2>1. CASE StartDrain \/ UNCHANGED vars
      <3>1. Rest3 /\ machine' = machine
        BY <2>1 DEF StartDrain, vars, Rest3, IInv, StateOK
      <3> QED
        BY <3>1, <1>r, Steps
    <2>2. CASE Report
      BY <2>2, ReportSteps
    <2>3. CASE \/ RunPass \/ RunHandler \/ RunSettler \/ RunFinally \/ RunRestore
               \/ RunAdoptPromise \/ RunAdoptObject \/ RunFrame \/ RunMember
      <3>1. machine.queue # <<>>
        BY <2>3 DEF RunPass, RunHandler, RunSettler, RunFinally, RunRestore,
                    RunAdoptPromise, RunAdoptObject, RunFrame, RunMember, Drains
      <3> QED
        BY <2>3, <3>1, RunSteps
    <2> QED
      BY <1>4, <2>1, <2>2, <2>3 DEF Drain
  <1>5. CASE UNCHANGED vars
    <2>1. Rest3 /\ machine' = machine
      BY <1>5 DEF vars, Rest3, IInv, StateOK
    <2> QED
      BY <2>1, <1>r, Steps
  <1> QED
    BY <1>1, <1>2, <1>3, <1>4, <1>5 DEF Next

(* The program starts with nothing in any table.                           *)
LEMMA Start ==
  ASSUME Init
  PROVE  IInv
  <1>1. /\ machine = NoMachine /\ stack = <<>> /\ named = {} /\ held = {} /\ reported = {}
        /\ program \in Programs /\ draining = FALSE /\ turns = 0
    BY DEF Init
  <1>2. PICK m : m = NoMachine
    OBVIOUS
  <1>3. /\ m.state = <<>> /\ m.waiters = <<>> /\ m.value = <<>> /\ m.unnoticed = {}
        /\ m.reactions = <<>> /\ m.taken = {} /\ m.queue = <<>>
        /\ m.pairs = <<>> /\ m.groups = <<>> /\ m \in Machine
    <2>1. \A S : <<>> \in Seq(S)
      BY EmptySeq
    <2> QED
      BY <1>2, <2>1 DEF NoMachine, Machine
  <1>4. Len(<<>>) = 0
    BY EmptySeq
  <1>5. 1 .. 0 = {}
    OBVIOUS
  <1>6. Promise(m) = {} /\ ReactionId(m) = {} /\ Waiting(m) = {}
    BY <1>3, <1>4, <1>5 DEF Promise, ReactionId, Waiting
  <1>7. MachineOK(m)
    BY <1>3, <1>4, <1>5, <1>6 DEF MachineOK
  <1>8. Placed(m)
    BY <1>3, <1>4, <1>5, <1>6 DEF Placed, WaitersPlaced, QueuePlaced, NoneMissing, RunInOrder
  <1>9. UnhandledExact(m, {})
    BY <1>6 DEF UnhandledExact
  <1>10. StackIn(m, <<>>)
    BY <1>4, <1>5, EmptySeq DEF StackIn
  <1>11. 0 \in 0 .. MaxTurns
    BY BoundAssumption
  <1> QED
    BY <1>1, <1>2, <1>7, <1>8, <1>9, <1>10, <1>11 DEF IInv, StateOK, Sound

(***************************************************************************)
(* The invariant holds of every program, however many promises it makes,   *)
(* reactions it attaches and turns it takes.                               *)
(***************************************************************************)
THEOREM Inductive == Spec => []IInv
  <1>1. Init => IInv
    BY Start
  <1>2. IInv /\ [Next]_vars => IInv'
    BY EveryStep
  <1> QED
    BY <1>1, <1>2, PTL DEF Spec

(* Every table names entries that exist, whatever the program calls, at    *)
(* any depth and in any order.                                             *)
THEOREM TypeCorrect == Spec => []TypeOK
  <1>1. IInv => TypeOK
    BY DEF IInv, StateOK, Sound, StackIn, TypeOK
  <1> QED
    BY <1>1, Inductive, PTL

(* No reaction is lost, none is queued or run twice, and those on one      *)
(* promise run in the order they were attached (state::react and settle).  *)
THEOREM NothingIsLost == Spec => []NothingLost
  <1>1. IInv => NothingLost
    BY DEF IInv, StateOK, Sound, NothingLost
  <1> QED
    BY <1>1, Inductive, PTL

(* The report of unhandled rejections is exact: neither a handled one nor  *)
(* the same one twice, and none left out (schedule/mod.rs).                *)
THEOREM UnhandledExactly == Spec => []UnhandledIsExact
  <1>1. IInv => UnhandledIsExact
    BY DEF IInv, StateOK, Sound, UnhandledIsExact
  <1> QED
    BY <1>1, Inductive, PTL

-----------------------------------------------------------------------------
(* What a promise has settled with, as the contract sees it.               *)
LEMMA OutcomeOf ==
  ASSUME NEW m, MachineOK(m)
  PROVE  /\ Len(Outcome(m)) = Len(m.state) /\ Len(Sources(m)) = Len(m.reactions)
         /\ \A p \in Promise(m) : /\ Outcome(m)[p] = <<>> <=> m.state[p] = "pending"
                                  /\ m.state[p] # "pending"
                                     => Outcome(m)[p] = <<m.state[p], m.value[p]>>
         /\ \A r \in ReactionId(m) : Sources(m)[r] = Source(m, r)
  <1>t. Len(m.state) \in Nat /\ Len(m.reactions) \in Nat
    BY FieldTypes
  <1>1. Len(Outcome(m)) = Len(m.state)
    BY <1>t DEF Outcome, Promise
  <1>2. Len(Sources(m)) = Len(m.reactions)
    BY <1>t DEF Sources, ReactionId
  <1>3. \A p \in Promise(m) :
          Outcome(m)[p] = IF m.state[p] = "pending" THEN <<>> ELSE <<m.state[p], m.value[p]>>
    BY DEF Outcome
  <1>4. \A a, b : <<a, b>> # <<>>
    OBVIOUS
  <1>5. \A r \in ReactionId(m) : Sources(m)[r] = Source(m, r)
    BY DEF Sources
  <1> QED
    BY <1>1, <1>2, <1>3, <1>4, <1>5

(* A machine that grows only extends what the contract sees.               *)
LEMMA Extends ==
  ASSUME NEW m, NEW n, MachineOK(m), MachineOK(n), Grows(m, n)
  PROVE  /\ Len(Outcome(n)) >= Len(Outcome(m))
         /\ \A p \in 1 .. Len(Outcome(m)) :
              Outcome(m)[p] # <<>> => Outcome(n)[p] = Outcome(m)[p]
         /\ Len(Sources(n)) >= Len(Sources(m))
         /\ \A r \in 1 .. Len(Sources(m)) : Sources(n)[r] = Sources(m)[r]
  <1>t. /\ Len(m.state) \in Nat /\ Len(m.reactions) \in Nat
        /\ Len(n.state) \in Nat /\ Len(n.reactions) \in Nat
        /\ Len(m.state) <= Len(n.state) /\ Len(m.reactions) <= Len(n.reactions)
    BY FieldTypes DEF Grows
  <1>1. \A p \in Promise(m) : p \in Promise(n)
    BY <1>t DEF Promise
  <1>2. \A r \in ReactionId(m) : r \in ReactionId(n)
    BY <1>t DEF ReactionId
  <1>3. /\ Len(Outcome(n)) >= Len(Outcome(m)) /\ Len(Sources(n)) >= Len(Sources(m))
        /\ 1 .. Len(Outcome(m)) = Promise(m) /\ 1 .. Len(Sources(m)) = ReactionId(m)
    BY <1>t, OutcomeOf DEF Promise, ReactionId
  <1>4. \A p \in Promise(m) : Outcome(m)[p] # <<>> => Outcome(n)[p] = Outcome(m)[p]
    <2> SUFFICES ASSUME NEW p \in Promise(m), Outcome(m)[p] # <<>>
                 PROVE  Outcome(n)[p] = Outcome(m)[p]
      OBVIOUS
    <2>1. m.state[p] # "pending" /\ Outcome(m)[p] = <<m.state[p], m.value[p]>>
      BY OutcomeOf
    <2>2. n.state[p] = m.state[p] /\ n.value[p] = m.value[p] /\ p \in Promise(n)
      BY <2>1, <1>1 DEF Grows
    <2>3. Outcome(n)[p] = <<n.state[p], n.value[p]>>
      BY <2>1, <2>2, OutcomeOf
    <2> QED
      BY <2>1, <2>2, <2>3
  <1>5. \A r \in ReactionId(m) : Sources(n)[r] = Sources(m)[r]
    BY <1>2, OutcomeOf DEF Grows, Source
  <1> QED
    BY <1>3, <1>4, <1>5

(***************************************************************************)
(* The tables, the queue and the stack implement the contract: settled     *)
(* once, reacted to at most once, after the source and in order.           *)
(***************************************************************************)
THEOREM ContractKept == Spec => KeepsContract
  <1>1. Init => Contract!Init
    <2> SUFFICES ASSUME Init PROVE Contract!Init
      OBVIOUS
    <2>1. machine.state = <<>> /\ machine.reactions = <<>> /\ machine.taken = {}
      BY DEF Init, NoMachine
    <2>2. Promise(machine) = {} /\ ReactionId(machine) = {}
      BY <2>1, EmptySeq DEF Promise, ReactionId
    <2>3. Outcome(machine) = <<>> /\ Sources(machine) = <<>>
      BY <2>2 DEF Outcome, Sources
    <2> QED
      BY <2>1, <2>3 DEF Contract!Init
  <1>2. IInv /\ IInv' /\ Moves(machine, machine') => [Contract!Next]_(Contract!vars)
    <2> SUFFICES ASSUME IInv, IInv', Moves(machine, machine')
                 PROVE  Contract!Next
      OBVIOUS
    <2>m. PICK m : m = machine
      OBVIOUS
    <2>n. PICK n : n = machine'
      OBVIOUS
    <2>s. Sound(m, reported) /\ MachineOK(m) /\ MachineOK(n)
      BY <2>m, <2>n DEF IInv, StateOK, Sound
    <2>1. CASE Grows(m, n)
      <3>0. /\ Len(Outcome(n)) >= Len(Outcome(m))
            /\ \A p \in 1 .. Len(Outcome(m)) :
                 Outcome(m)[p] # <<>> => Outcome(n)[p] = Outcome(m)[p]
            /\ Len(Sources(n)) >= Len(Sources(m))
            /\ \A r \in 1 .. Len(Sources(m)) : Sources(n)[r] = Sources(m)[r]
        BY <2>1, <2>s, Extends
      <3>1. Contract!Extend
        <4>1. Outcome(machine)' = Outcome(n) /\ Sources(machine)' = Sources(n)
          BY <2>n DEF Outcome, Promise, Sources, ReactionId, Source
        <4>2. Outcome(machine) = Outcome(m) /\ Sources(machine) = Sources(m)
          BY <2>m
        <4> QED
          BY <3>0, <4>1, <4>2 DEF Contract!Extend, Contract!NotYet
      <3>2. machine.taken' = machine.taken
        BY <2>1, <2>m, <2>n DEF Grows
      <3> QED
        BY <3>1, <3>2 DEF Contract!Next
    <2>2. CASE m.queue # <<>> /\ Grows(Take(m), n)
      <3>h. PICK h : h = Head(m.queue)
        OBVIOUS
      <3>k. PICK k : k = Take(m)
        OBVIOUS
      <3>1. TakesAs(m, k) /\ MachineOK(k)
        BY <2>2, <2>s, <3>k, TakeSound DEF Sound
      <3>2. Outcome(k) = Outcome(m) /\ Sources(k) = Sources(m)
        BY <3>1 DEF TakesAs, Outcome, Sources, Promise, ReactionId, Source
      <3>0. /\ Len(Outcome(n)) >= Len(Outcome(m))
            /\ \A p \in 1 .. Len(Outcome(m)) :
                 Outcome(m)[p] # <<>> => Outcome(n)[p] = Outcome(m)[p]
            /\ Len(Sources(n)) >= Len(Sources(m))
            /\ \A r \in 1 .. Len(Sources(m)) : Sources(n)[r] = Sources(m)[r]
        <4>1. Grows(k, n)
          BY <2>2, <3>k
        <4> QED
          BY <4>1, <2>s, <3>1, <3>2, Extends
      <3>3. Contract!Extend
        <4>1. Outcome(machine)' = Outcome(n) /\ Sources(machine)' = Sources(n)
          BY <2>n DEF Outcome, Promise, Sources, ReactionId, Source
        <4>2. Outcome(machine) = Outcome(m) /\ Sources(machine) = Sources(m)
          BY <2>m
        <4> QED
          BY <3>0, <4>1, <4>2 DEF Contract!Extend, Contract!NotYet
      <3>4. machine.taken' = machine.taken \cup {h}
        BY <2>2, <2>m, <2>n, <3>h, <3>k, <3>1 DEF Grows, TakesAs
      <3>5. /\ h \in 1 .. Len(Sources(m)) /\ h \notin m.taken
            /\ Sources(m)[h] # 0 => Outcome(m)[Sources(m)[h]] # <<>>
            /\ \A e \in 1 .. (h - 1) :
                 Sources(m)[e] = Sources(m)[h] /\ Sources(m)[h] # 0 => e \in m.taken
        <4>1. /\ h \in ReactionId(m) /\ h \notin m.taken /\ ~Parked(m, h)
              /\ \A e \in 1 .. (h - 1) :
                   Source(m, e) = Source(m, h) /\ Source(m, h) # 0 => e \in m.taken
          BY <3>1, <3>h DEF TakesAs, Waiting
        <4>2. \A e \in 1 .. (h - 1) : e \in ReactionId(m)
          BY <4>1, <2>s, FieldTypes DEF ReactionId
        <4>3. /\ \A r \in ReactionId(m) : Sources(m)[r] = Source(m, r)
              /\ Len(Sources(m)) = Len(m.reactions)
              /\ \A p \in Promise(m) : Outcome(m)[p] = <<>> <=> m.state[p] = "pending"
          BY <2>s, OutcomeOf
        <4>4. Source(m, h) # 0 => Source(m, h) \in Promise(m)
          BY <4>1, <2>s, SourceIn
        <4> QED
          BY <4>1, <4>2, <4>3, <4>4 DEF Parked, ReactionId
      <3>6. Contract!Run(h)
        BY <3>4, <3>5, <2>m DEF Contract!Run, Contract!Ready, Contract!NotYet
      <3> QED
        BY <3>3, <3>5, <3>6, <2>m DEF Contract!Next
    <2> QED
      BY <2>1, <2>2, <2>m, <2>n DEF Moves
  <1>3. IInv /\ [Next]_vars => Moves(machine, machine')
    BY EveryStep
  <1> QED
    BY <1>1, <1>2, <1>3, Inductive, PTL DEF Spec, KeepsContract, Contract!Spec

-----------------------------------------------------------------------------
(***************************************************************************)
(* What becomes of a promise: the verbs once more, now with the invariant  *)
(* of PromiseFates.                                                        *)
(*                                                                         *)
(* An action is several verbs in a row, and between two of them the        *)
(* invariant does not hold: a promise made has nothing that answers for it *)
(* yet, a reaction taken out is in no table.  So the verbs are followed    *)
(* with what is in hand (Fate's x, c, X and Y), one lemma for each, and an *)
(* action ends when nothing is in hand any more (module FateProofs).       *)
(* Lemmas called Fate... are about the tables; those called V... say the   *)
(* same of a point inside an action (At), with all that is known there.    *)
(***************************************************************************)
-----------------------------------------------------------------------------
(***************************************************************************)
(* Creating a promise, and settling one.                                   *)
(***************************************************************************)

(* What a machine, the code running on it and its settlers are together.   *)
Placedly(m, printed, s, h) ==
  Sound(m, printed) /\ StackIn(m, s) /\ h \subseteq 1 .. Len(m.pairs)

(* What the tables hold names what exists.                                 *)
LEMMA Named ==
  ASSUME NEW m, MachineOK(m)
  PROVE  /\ \A r \in ReactionId(m) :
              /\ m.reactions[r].target \in Promise(m)
              /\ m.reactions[r].kind = "member" =>
                   /\ m.reactions[r].group \in 1 .. Len(m.groups)
                   /\ Source(m, r) \in Promise(m)
              /\ PairOf(m, r) \in 0 .. Len(m.pairs)
         /\ \A k \in 1 .. Len(m.pairs) : m.pairs[k].promise \in Promise(m)
         /\ \A g \in 1 .. Len(m.groups) : m.groups[g].result \in Promise(m)
         /\ m.taken \subseteq ReactionId(m) /\ Waiting(m) \subseteq ReactionId(m)
  <1>1. \A r \in ReactionId(m) : ReactionIn(m, m.reactions[r])
    BY DEF MachineOK
  <1>2. \A r \in ReactionId(m) :
          /\ m.reactions[r].target \in Promise(m)
          /\ m.reactions[r].kind = "member" =>
               /\ m.reactions[r].group \in 1 .. Len(m.groups)
               /\ Source(m, r) \in Promise(m)
          /\ PairOf(m, r) \in 0 .. Len(m.pairs)
    <2>1. TAKE r \in ReactionId(m)
    <2>2. ReactionIn(m, m.reactions[r])
      BY <1>1
    <2> QED
      BY <2>2, Zenon DEF ReactionIn, CallableIn, Source, PairOf
  <1>3. /\ \A k \in 1 .. Len(m.pairs) : m.pairs[k].promise \in Promise(m)
        /\ \A g \in 1 .. Len(m.groups) : m.groups[g].result \in Promise(m)
        /\ m.taken \subseteq ReactionId(m)
    BY DEF MachineOK
  <1>4. Waiting(m) \subseteq ReactionId(m)
    BY DEF Waiting
  <1> QED
    BY <1>2, <1>3, <1>4

(* What only the reactions and those taken out tell.                       *)
SameReactions(m, n) == n.reactions = m.reactions /\ n.taken = m.taken
(* What is said of the reactions depends on the reactions alone.           *)
LEMMA ReactionsSame ==
  ASSUME NEW m, NEW n, SameReactions(m, n)
  PROVE  /\ ReactionId(n) = ReactionId(m) /\ Waiting(n) = Waiting(m)
         /\ \A r : PairOf(n, r) = PairOf(m, r) /\ Source(n, r) = Source(m, r)
         /\ \A x : Due(n, x) = Due(m, x) /\ Told(n, x) = Told(m, x)
         /\ \A x, g : DueTo(n, x, g) = DueTo(m, x, g) /\ ToldTo(n, x, g) = ToldTo(m, x, g)
         /\ \A h, x, k : Reached(n, h, x, k) <=> Reached(m, h, x, k)
         /\ \A r, p : ReactionFor(n, r, p) <=> ReactionFor(m, r, p)
         /\ \A h, x : Handed(n, h, x) <=> Handed(m, h, x)
         /\ SlotsApart(n) <=> SlotsApart(m)
  <1>1. /\ ReactionId(n) = ReactionId(m) /\ Waiting(n) = Waiting(m)
        /\ \A r : PairOf(n, r) = PairOf(m, r) /\ Source(n, r) = Source(m, r)
    BY Zenon DEF SameReactions, ReactionId, Waiting, PairOf, Source
  <1>2. \A x : Due(n, x) = Due(m, x) /\ Told(n, x) = Told(m, x)
    BY <1>1, Zenon DEF SameReactions, Due, Told
  <1>3. \A x, g : DueTo(n, x, g) = DueTo(m, x, g) /\ ToldTo(n, x, g) = ToldTo(m, x, g)
    <2>1. TAKE x, g
    <2>2. Due(n, x) = Due(m, x) /\ Told(n, x) = Told(m, x)
      BY <1>2
    <2>3. n.reactions = m.reactions
      BY DEF SameReactions
    <2>4. \A r : MemberOf(n, r, g) <=> MemberOf(m, r, g)
      BY <2>3, Zenon DEF MemberOf
    <2> QED
      BY <2>2, <2>4, Zenon DEF DueTo, ToldTo
  <1>4. \A h, x, k : Reached(n, h, x, k) <=> Reached(m, h, x, k)
    BY <1>1, <1>2, Zenon DEF Reached
  <1>5. \A r, p : ReactionFor(n, r, p) <=> ReactionFor(m, r, p)
    BY Zenon DEF SameReactions, ReactionFor
  <1>6. \A h, x : Handed(n, h, x) <=> Handed(m, h, x)
    BY <1>1, <1>2, Zenon DEF Handed
  <1>7. SlotsApart(n) <=> SlotsApart(m)
    BY <1>1, Zenon DEF SameReactions, SlotsApart, SameSlot
  <1> QED
    BY <1>1, <1>2, <1>3, <1>4, <1>5, <1>6, <1>7

(* And the pairs.                                                          *)
LEMMA PairsSame ==
  ASSUME NEW m, NEW n, SameReactions(m, n), n.pairs = m.pairs
  PROVE  /\ \A k, p : PairFor(n, k, p) <=> PairFor(m, k, p)
         /\ \A s, h, x : Getters(n, s, h, x) <=> Getters(m, s, h, x)
         /\ \A y : Paired(n, y) <=> Paired(m, y)
         /\ \A s, p : Claims(n, s, p) = Claims(m, s, p)
         /\ \A s, p : Untargeted(n, s, p) <=> Untargeted(m, s, p)
  <1>1. \A k, p : PairFor(n, k, p) <=> PairFor(m, k, p)
    BY Zenon DEF PairFor
  <1>2. \A s, h, x : Getters(n, s, h, x) <=> Getters(m, s, h, x)
    BY <1>1, ReactionsSame, Zenon DEF Getters
  <1>3. \A y : Paired(n, y) <=> Paired(m, y)
    BY Zenon DEF Paired
  <1>4. \A s, p : Claims(n, s, p) = Claims(m, s, p)
    BY Zenon DEF Claims, SameReactions, Waiting, ReactionId, ReactionFor, PairFor
  <1>5. \A s, p : Untargeted(n, s, p) <=> Untargeted(m, s, p)
    BY <1>1, ReactionsSame, Zenon DEF Untargeted
  <1> QED
    BY <1>1, <1>2, <1>3, <1>4, <1>5

(* And the groups.                                                         *)
LEMMA GroupsSame ==
  ASSUME NEW m, NEW n, SameReactions(m, n), n.pairs = m.pairs, n.groups = m.groups
  PROVE  /\ \A x, c, g : Counting(n, x, c, g) <=> Counting(m, x, c, g)
         /\ \A s, h, x, c, p : Live(n, s, h, x, c, p) <=> Live(m, s, h, x, c, p)
         /\ \A u, p : Expected(u, n, p) <=> Expected(u, m, p)
         /\ \A u : ReactionsShaped(u, n) <=> ReactionsShaped(u, m)
         /\ \A s : Owned(n, s) <=> Owned(m, s)
  <1>1. \A x, c, g : Counting(n, x, c, g) <=> Counting(m, x, c, g)
    <2>1. TAKE x, c, g
    <2>2. DueTo(n, x, g) = DueTo(m, x, g)
      BY ReactionsSame
    <2>3. Joining(n, c, g) = Joining(m, c, g)
      BY Zenon DEF Joining
    <2> QED
      BY <2>2, <2>3, Zenon DEF Counting
  <1>2. \A s, h, x, c, p : Live(n, s, h, x, c, p) <=> Live(m, s, h, x, c, p)
    <2>1. TAKE s, h, x, c, p
    <2>2. Waiting(n) = Waiting(m) /\ \A r : ReactionFor(n, r, p) <=> ReactionFor(m, r, p)
      BY ReactionsSame
    <2>3. \A k : /\ PairFor(n, k, p) <=> PairFor(m, k, p)
                 /\ Reached(n, h, x, k) <=> Reached(m, h, x, k)
      BY ReactionsSame, PairsSame
    <2> QED
      BY <1>1, <2>2, <2>3, Zenon DEF Live
  <1>3. \A u, p : Expected(u, n, p) <=> Expected(u, m, p)
    BY Zenon DEF Expected, Grouped
  <1>4. \A u : ReactionsShaped(u, n) <=> ReactionsShaped(u, m)
    BY PairsSame, Zenon DEF ReactionsShaped, ReactionShape, SameReactions, ReactionId
  <1>5. \A s : Owned(n, s) <=> Owned(m, s)
    <2>1. TAKE s
    <2>2. \A p : Untargeted(n, s, p) <=> Untargeted(m, s, p)
      BY PairsSame
    <2> QED
      BY <2>2, Zenon DEF Owned
  <1> QED
    BY <1>1, <1>2, <1>3, <1>4, <1>5

(* A group whose members have the outcomes they had stays as answered.     *)
LEMMA GroupStays ==
  ASSUME NEW m, NEW n, NEW x, NEW z, NEW g, GroupOK(m, x, g),
         DueTo(n, z, g) = DueTo(m, x, g), ToldTo(n, z, g) = ToldTo(m, x, g),
         n.groups[g] = m.groups[g],
         LET p == m.groups[g].result IN n.state[p] = m.state[p] /\ n.value[p] = m.value[p],
         \A r \in ToldTo(m, x, g) :
           /\ n.reactions[r] = m.reactions[r]
           /\ n.state[Source(m, r)] = m.state[Source(m, r)]
           /\ n.value[Source(m, r)] = m.value[Source(m, r)]
  PROVE  GroupOK(n, z, g)
  <1>1. \A r \in ToldTo(m, x, g) : Source(n, r) = Source(m, r)
    BY Zenon DEF Source
  <1>2. \A r \in ToldTo(m, x, g) : Decided(n, g, r) <=> Decided(m, g, r)
    BY <1>1, Zenon DEF Decided
  <1>3. PICK p : p = m.groups[g].result
    OBVIOUS
  <1>4. n.groups[g].result = p /\ n.state[p] = m.state[p] /\ n.value[p] = m.value[p]
    BY <1>3
  <1>5. m.state[p] = "pending" => \A r \in ToldTo(m, x, g) : ~Decided(m, g, r)
    BY <1>3, Zenon DEF GroupOK
  <1>6. m.state[p] # "pending" =>
          \/ \E r \in ToldTo(m, x, g) : Decided(m, g, r) /\ SameOutcome(m, p, Source(m, r))
          \/ /\ DueTo(m, x, g) = {} /\ ~Decides(m.groups[g].kind, m.state[p])
             /\ \A r \in ToldTo(m, x, g) : ~Decided(m, g, r)
    BY <1>3, Zenon DEF GroupOK
  <1>7. \A r \in ToldTo(m, x, g) :
          Decided(m, g, r) \/ m.groups[g].values[m.reactions[r].slot] = m.value[Source(m, r)]
    BY Zenon DEF GroupOK
  <1>8. n.state[p] = "pending" => \A r \in ToldTo(n, z, g) : ~Decided(n, g, r)
    BY <1>2, <1>4, <1>5, Zenon
  <1>9. n.state[p] # "pending" =>
          \/ \E r \in ToldTo(n, z, g) : Decided(n, g, r) /\ SameOutcome(n, p, Source(n, r))
          \/ /\ DueTo(n, z, g) = {} /\ ~Decides(n.groups[g].kind, n.state[p])
             /\ \A r \in ToldTo(n, z, g) : ~Decided(n, g, r)
    <2>1. \A r \in ToldTo(m, x, g) : SameOutcome(m, p, Source(m, r)) => SameOutcome(n, p, Source(n, r))
      BY <1>1, <1>4, Zenon DEF SameOutcome
    <2> QED
      BY <2>1, <1>2, <1>4, <1>6, Zenon
  <1>10. \A r \in ToldTo(n, z, g) :
           Decided(n, g, r) \/ n.groups[g].values[n.reactions[r].slot] = n.value[Source(n, r)]
    <2>1. TAKE r \in ToldTo(n, z, g)
    <2>2. r \in ToldTo(m, x, g) /\ n.reactions[r] = m.reactions[r]
      OBVIOUS
    <2>3. n.value[Source(n, r)] = m.value[Source(m, r)]
      BY <1>1, <2>2
    <2>4. n.groups[g].values[n.reactions[r].slot] = m.groups[g].values[m.reactions[r].slot]
      BY <2>2
    <2> QED
      BY <1>2, <1>7, <2>2, <2>3, <2>4, Zenon
  <1> QED
    BY <1>4, <1>8, <1>9, <1>10, Zenon DEF GroupOK

(* A reaction that has run ran because its source had settled.             *)
LEMMA ToldSettled ==
  ASSUME NEW m, NEW printed, Sound(m, printed), NEW x, NEW g, NEW r \in ToldTo(m, x, g)
  PROVE  /\ r \in ReactionId(m) /\ r \in m.taken
         /\ Source(m, r) \in Promise(m) /\ m.state[Source(m, r)] # "pending"
  <1>1. r \in m.taken /\ m.reactions[r].kind = "member"
    BY DEF ToldTo, Told, MemberOf
  <1>2. MachineOK(m) /\ ~Parked(m, r)
    BY <1>1 DEF Sound, Placed, RunInOrder
  <1>3. r \in ReactionId(m) /\ Source(m, r) \in Promise(m)
    BY <1>1, <1>2, Named
  <1>4. Source(m, r) # 0
    BY <1>3 DEF Promise
  <1> QED
    BY <1>1, <1>2, <1>3, <1>4 DEF Parked

-----------------------------------------------------------------------------
(* A promise made: its fate is in the hand of what made it.                *)
LEMMA FateCreate ==
  ASSUME NEW u, NEW m, NEW printed, NEW s, NEW h, Placedly(m, printed, s, h),
         NEW x, NEW c, NEW X, NEW Y, Fate(u, m, s, h, x, c, X, Y),
         NEW n, n = Create(m), NEW p, p = Newest(m) + 1
  PROVE  Fate(u, n, s, h, x, c, X \cup {p}, Y \cup {p})
  <1>a. MachineOK(m) /\ Sound(m, printed) /\ StackIn(m, s)
    BY DEF Placedly, Sound
  <1>f. /\ n.state = Append(m.state, "pending") /\ n.value = Append(m.value, Undefined)
        /\ n.reactions = m.reactions /\ n.taken = m.taken
        /\ n.pairs = m.pairs /\ n.groups = m.groups
    BY <1>a, CreateFields
  <1>r. SameReactions(m, n)
    BY <1>f DEF SameReactions
  <1>s. /\ p \notin Promise(m) /\ Promise(n) = Promise(m) \cup {p}
        /\ n.state[p] = "pending" /\ n.value[p] = Undefined
        /\ \A q \in Promise(m) : n.state[q] = m.state[q] /\ n.value[q] = m.value[q]
    <2>1. /\ m.state \in Seq(State) /\ m.value \in Seq(Value)
          /\ Len(m.state) \in Nat /\ Len(m.value) = Len(m.state)
      BY <1>a, FieldTypes
    <2>2. /\ Len(n.state) = Len(m.state) + 1 /\ n.state[Len(m.state) + 1] = "pending"
          /\ \A q \in 1 .. Len(m.state) : n.state[q] = m.state[q]
      BY <2>1, <1>f, AppendProperties DEF State
    <2>3. /\ n.value[Len(m.state) + 1] = Undefined
          /\ \A q \in 1 .. Len(m.state) : n.value[q] = m.value[q]
      BY <2>1, <1>f, AppendProperties, UndefinedValue
    <2>4. 1 .. Len(m.state) + 1 = 1 .. Len(m.state) \cup {Len(m.state) + 1}
      BY <2>1
    <2>5. Len(m.state) + 1 \notin 1 .. Len(m.state)
      BY <2>1
    <2> QED
      BY <2>2, <2>3, <2>4, <2>5 DEF Promise, Newest
  <1>1. InHand(n, x, c)
    BY <1>f DEF Fate, InHand
  <1>2. Shape(u, n, s, h, x)
    <2>1. ValuesPass(u, n)
      BY <1>s DEF Fate, Shape, ValuesPass, Undefined, Plain, Tags
    <2>2. ReactionsShaped(u, n) /\ Handed(n, h, x) /\ Getters(n, s, h, x) /\ SlotsApart(n)
      BY <1>f, <1>r, ReactionsSame, PairsSame, GroupsSame DEF Fate, Shape
    <2> QED
      BY <2>1, <2>2 DEF Fate, Shape
  <1>3. Answered(u, n, s, h, x, c, X \cup {p})
    <2>1. \A q : Live(n, s, h, x, c, q) <=> Live(m, s, h, x, c, q)
      BY <1>f, <1>r, GroupsSame
    <2>2. \A q : Expected(u, n, q) <=> Expected(u, m, q)
      BY <1>f, <1>r, GroupsSame
    <2> QED
      BY <2>1, <2>2, <1>s, Zenon DEF Fate, Answered
  <1>4. ASSUME ~Overriding(u) PROVE Sole(n, s, Y \cup {p})
    <2>1. \A q : Claims(n, s, q) = Claims(m, s, q)
      BY <1>f, <1>r, PairsSame
    <2>2. Claims(m, s, p) = {}
      <3>1. \A r \in Waiting(m) : ~ReactionFor(m, r, p)
        BY <1>a, <1>s, Named DEF ReactionFor
      <3>2. \A i \in 1 .. Len(s) : ~FrameFor(s[i], p)
        BY <1>a, <1>s DEF FrameFor, StackIn, FrameIn, Answering
      <3>3. \A k \in 1 .. Len(m.pairs) : ~PairFor(m, k, p)
        BY <1>a, <1>s, Named DEF PairFor
      <3> QED
        BY <3>1, <3>2, <3>3 DEF Claims
    <2>3. Sole(m, s, Y)
      BY <1>4 DEF Fate
    <2> QED
      BY <2>1, <2>2, <2>3, <1>s DEF Sole
  <1>5. ASSUME ~Getting(u) PROVE Owned(n, s) /\ GroupsOK(n, x)
    <2>1. Owned(n, s)
      BY <1>5, <1>f, <1>r, GroupsSame DEF Fate
    <2>2. ASSUME NEW g \in 1 .. Len(n.groups) PROVE GroupOK(n, x, g)
      <3>1. GroupOK(m, x, g) /\ m.groups[g].result \in Promise(m)
        BY <1>5, <1>a, <1>f, <2>2, Named DEF Fate, GroupsOK
      <3>2. DueTo(n, x, g) = DueTo(m, x, g) /\ ToldTo(n, x, g) = ToldTo(m, x, g)
        BY <1>r, ReactionsSame
      <3>3. \A r \in ToldTo(m, x, g) : Source(m, r) \in Promise(m)
        BY <1>a, ToldSettled
      <3>4. \A r \in ToldTo(m, x, g) :
              /\ n.reactions[r] = m.reactions[r]
              /\ n.state[Source(m, r)] = m.state[Source(m, r)]
              /\ n.value[Source(m, r)] = m.value[Source(m, r)]
        BY <3>3, <1>s, <1>f
      <3> QED
        BY <3>1, <3>2, <3>4, <1>s, <1>f, GroupStays
    <2> QED
      BY <2>1, <2>2 DEF GroupsOK
  <1> QED
    BY <1>1, <1>2, <1>3, <1>4, <1>5 DEF Fate

(* A pending promise settled by what holds its fate: nothing answers for   *)
(* it any more, and nothing need.                                          *)
LEMMA FateSettles ==
  ASSUME NEW u, NEW m, NEW printed, NEW s, NEW h, Placedly(m, printed, s, h),
         NEW x, NEW c, NEW X, NEW Y, Fate(u, m, s, h, x, c, X, Y),
         NEW p \in Promise(m), m.state[p] = "pending", NEW how \in Settled, NEW v,
         Passed(u, how, v),
         Overriding(u) \/ p \in Y, Getting(u) \/ ~Grouped(m, p),
         NEW n, SettlesAs(m, n, p, how, v)
  PROVE  Fate(u, n, s, h, x, c, X \ {p}, Y \ {p})
  <1>a. MachineOK(m) /\ Sound(m, printed) /\ StackIn(m, s)
    BY DEF Placedly, Sound
  <1>f. /\ n.reactions = m.reactions /\ n.taken = m.taken
        /\ n.pairs = m.pairs /\ n.groups = m.groups
    BY DEF SettlesAs
  <1>r. SameReactions(m, n)
    BY <1>f DEF SameReactions
  <1>s. /\ Promise(n) = Promise(m)
        /\ n.state[p] = how /\ n.value[p] = v /\ how # "pending"
        /\ \A q \in Promise(m) : q # p => n.state[q] = m.state[q] /\ n.value[q] = m.value[q]
    BY DEF SettlesAs, Promise, Settled
  <1>1. InHand(n, x, c)
    BY <1>f DEF Fate, InHand
  <1>2. Shape(u, n, s, h, x)
    <2>1. ValuesPass(u, n)
      BY <1>s DEF Fate, Shape, ValuesPass, Passed
    <2>2. ReactionsShaped(u, n) /\ Handed(n, h, x) /\ Getters(n, s, h, x) /\ SlotsApart(n)
      BY <1>f, <1>r, ReactionsSame, PairsSame, GroupsSame DEF Fate, Shape
    <2> QED
      BY <2>1, <2>2 DEF Fate, Shape
  <1>3. Answered(u, n, s, h, x, c, X \ {p})
    <2>1. \A q : Live(n, s, h, x, c, q) <=> Live(m, s, h, x, c, q)
      BY <1>f, <1>r, GroupsSame
    <2>2. \A q : Expected(u, n, q) <=> Expected(u, m, q)
      BY <1>f, <1>r, GroupsSame
    <2> QED
      BY <2>1, <2>2, <1>s, Zenon DEF Fate, Answered
  <1>4. ASSUME ~Overriding(u) PROVE Sole(n, s, Y \ {p})
    <2>1. \A q : Claims(n, s, q) = Claims(m, s, q)
      BY <1>f, <1>r, PairsSame
    <2>2. Sole(m, s, Y)
      BY <1>4 DEF Fate
    <2>3. Claims(m, s, p) = {}
      BY <1>4, <2>2 DEF Sole
    <2> QED
      BY <2>1, <2>2, <2>3, <1>s DEF Sole
  <1>5. ASSUME ~Getting(u) PROVE Owned(n, s) /\ GroupsOK(n, x)
    <2>1. Owned(n, s)
      BY <1>5, <1>f, <1>r, GroupsSame DEF Fate
    <2>2. ASSUME NEW g \in 1 .. Len(n.groups) PROVE GroupOK(n, x, g)
      <3>1. GroupOK(m, x, g) /\ m.groups[g].result \in Promise(m) /\ m.groups[g].result # p
        BY <1>5, <1>a, <1>f, <2>2, Named DEF Fate, GroupsOK, Grouped
      <3>2. DueTo(n, x, g) = DueTo(m, x, g) /\ ToldTo(n, x, g) = ToldTo(m, x, g)
        BY <1>r, ReactionsSame
      <3>3. \A r \in ToldTo(m, x, g) : Source(m, r) \in Promise(m) /\ Source(m, r) # p
        BY <1>a, ToldSettled
      <3>4. \A r \in ToldTo(m, x, g) :
              /\ n.reactions[r] = m.reactions[r]
              /\ n.state[Source(m, r)] = m.state[Source(m, r)]
              /\ n.value[Source(m, r)] = m.value[Source(m, r)]
        BY <3>3, <1>s, <1>f
      <3> QED
        BY <3>1, <3>2, <3>4, <1>s, <1>f, GroupStays
    <2> QED
      BY <2>1, <2>2 DEF GroupsOK
  <1> QED
    BY <1>1, <1>2, <1>3, <1>4, <1>5 DEF Fate

-----------------------------------------------------------------------------
(***************************************************************************)
(* Attaching a reaction.                                                   *)
(***************************************************************************)

(* What attaching a reaction adds to what the tables tell.                 *)
Attached(m, n, y, w, x) ==
  /\ w \notin ReactionId(m) /\ w # 0
  /\ ReactionId(n) = ReactionId(m) \cup {w} /\ Waiting(n) = Waiting(m) \cup {w}
  /\ Due(n, x) = Due(m, x) \cup {w} /\ Told(n, x) = Told(m, x) /\ w \notin Told(m, x)
  /\ n.reactions[w] = y
  /\ \A r \in ReactionId(m) : n.reactions[r] = m.reactions[r]
  /\ n.taken = m.taken /\ w \notin m.taken /\ m.taken \subseteq ReactionId(m)

(* Attaching a reaction adds it to what is due and to nothing else.        *)
LEMMA AttachAdds ==
  ASSUME NEW m, MachineOK(m), NEW y \in Reaction, NEW n, AttachesAs(m, n, y),
         NEW x, NEW c, InHand(m, x, c), NEW w, w = Len(m.reactions) + 1
  PROVE  Attached(m, n, y, w, x)
  <1>1. m.reactions \in Seq(Reaction) /\ Len(m.reactions) \in Nat /\ m.taken \subseteq ReactionId(m)
    BY FieldTypes DEF MachineOK
  <1>2. n.reactions = Append(m.reactions, y) /\ n.taken = m.taken
    BY DEF AttachesAs
  <1>3. /\ Len(n.reactions) = Len(m.reactions) + 1 /\ n.reactions[w] = y
        /\ \A r \in 1 .. Len(m.reactions) : n.reactions[r] = m.reactions[r]
    BY <1>1, <1>2, AppendProperties
  <1>4. /\ 1 .. Len(m.reactions) + 1 = 1 .. Len(m.reactions) \cup {w}
        /\ w \notin 1 .. Len(m.reactions) /\ w # 0
    BY <1>1
  <1>5. ReactionId(n) = ReactionId(m) \cup {w} /\ w \notin ReactionId(m)
    BY <1>3, <1>4 DEF ReactionId
  <1>6. x # w /\ w \notin m.taken
    BY <1>1, <1>4, <1>5 DEF InHand
  <1> QED
    BY <1>1, <1>2, <1>3, <1>4, <1>5, <1>6 DEF Attached, Waiting, Due, Told, ReactionId

(* So whatever answered for a promise still does.                          *)
LEMMA AttachKeepsLive ==
  ASSUME NEW m, NEW n, NEW y, NEW w, NEW x, Attached(m, n, y, w, x),
         n.pairs = m.pairs, n.groups = m.groups, NEW s, NEW h, NEW c, NEW d,
         \A g \in 1 .. Len(m.groups) : Counting(m, x, c, g) => Counting(n, x, d, g),
         NEW p, Live(m, s, h, x, c, p)
  PROVE  Live(n, s, h, x, d, p)
  <1>1. \A r \in Waiting(m) : r \in Waiting(n) /\ (ReactionFor(m, r, p) => ReactionFor(n, r, p))
    BY Zenon DEF Attached, ReactionFor, Waiting
  <1>2. \A k : Reached(m, h, x, k) => Reached(n, h, x, k)
    <2>1. \A r \in Due(m, x) : r \in Due(n, x) /\ PairOf(n, r) = PairOf(m, r)
      BY Zenon DEF Attached, Due, PairOf
    <2> QED
      BY <2>1, Zenon DEF Reached
  <1>3. \A k : PairFor(m, k, p) <=> PairFor(n, k, p)
    BY Zenon DEF PairFor
  <1>4. CASE \E r \in Waiting(m) : ReactionFor(m, r, p)
    BY <1>1, <1>4, Zenon DEF Live
  <1>5. CASE \E i \in 1 .. Len(s) : FrameFor(s[i], p)
    BY <1>5, Zenon DEF Live
  <1>6. CASE \E k \in 1 .. Len(m.pairs) : PairFor(m, k, p) /\ Reached(m, h, x, k)
    BY <1>2, <1>3, <1>6, Zenon DEF Live
  <1>7. CASE \E g \in 1 .. Len(m.groups) : m.groups[g].result = p /\ Counting(m, x, c, g)
    BY <1>7, Zenon DEF Live
  <1> QED
    BY <1>4, <1>5, <1>6, <1>7, Zenon DEF Live

(* A group's members are who they were where what was attached is none of  *)
(* them.                                                                   *)
LEMMA AttachBeside ==
  ASSUME NEW m, NEW n, NEW y, NEW w, NEW x, Attached(m, n, y, w, x),
         NEW g, ~(y.kind = "member" /\ y.group = g)
  PROVE  DueTo(n, x, g) = DueTo(m, x, g) /\ ToldTo(n, x, g) = ToldTo(m, x, g)
  <1>1. \A r \in Due(m, x) : MemberOf(n, r, g) <=> MemberOf(m, r, g)
    BY DEF Attached, MemberOf, Due
  <1>2. ~MemberOf(n, w, g)
    BY DEF Attached, MemberOf
  <1>3. DueTo(n, x, g) = DueTo(m, x, g)
    BY <1>1, <1>2 DEF DueTo, Attached
  <1>4. \A r \in Told(m, x) : MemberOf(n, r, g) <=> MemberOf(m, r, g)
    BY DEF Attached, MemberOf, Told
  <1>5. ToldTo(n, x, g) = ToldTo(m, x, g)
    BY <1>4 DEF ToldTo, Attached
  <1> QED
    BY <1>3, <1>5


(* A group the attached reaction is no member of keeps what it has made of *)
(* its members.                                                            *)
LEMMA AttachKeepsGroup ==
  ASSUME NEW m, NEW printed, Sound(m, printed), NEW n, NEW y, NEW w, NEW x, Attached(m, n, y, w, x),
         n.state = m.state, n.value = m.value, n.groups = m.groups,
         NEW g, ~(y.kind = "member" /\ y.group = g), GroupOK(m, x, g)
  PROVE  GroupOK(n, x, g)
  <1>1. DueTo(n, x, g) = DueTo(m, x, g) /\ ToldTo(n, x, g) = ToldTo(m, x, g)
    BY AttachBeside
  <1>2. \A r \in ToldTo(m, x, g) : n.reactions[r] = m.reactions[r]
    BY ToldSettled DEF Attached
  <1> QED
    BY <1>1, <1>2, GroupStays

(* What every attached reaction leaves in shape.                           *)
LEMMA AttachShapes ==
  ASSUME NEW u, NEW m, NEW n, NEW y, NEW w, NEW x, Attached(m, n, y, w, x),
         NEW s, NEW h, Shape(u, m, s, h, x),
         n.state = m.state, n.value = m.value, n.pairs = m.pairs, n.groups = m.groups,
         ReactionShape(u, m, y),
         y.ful.pair # 0 => ~Reached(m, h, x, y.ful.pair),
         \A i \in 1 .. Len(s) : s[i].kind = "getter" => s[i].pair # y.ful.pair,
         \A r \in ReactionId(m) : m.reactions[r].kind = "member" /\ y.kind = "member" =>
           ~(m.reactions[r].group = y.group /\ m.reactions[r].slot = y.slot)
  PROVE  Shape(u, n, s, h, x)
  <1>1. ValuesPass(u, n) /\ FramesShaped(u, s)
    BY DEF Shape, ValuesPass, Promise
  <1>2. ReactionsShaped(u, n)
    <2>1. \A z : ReactionShape(u, m, z) => ReactionShape(u, n, z)
      BY Zenon DEF ReactionShape, Paired
    <2> QED
      BY <2>1 DEF Shape, ReactionsShaped, Attached
  <1>3. PairOf(n, w) = y.ful.pair /\ \A r \in Due(m, x) : PairOf(n, r) = PairOf(m, r)
    BY DEF Attached, PairOf, Due
  <1>4. Handed(n, h, x)
    <2>1. \A r \in Due(m, x) : PairOf(m, r) # 0 => PairOf(m, r) # y.ful.pair
      BY Zenon DEF Reached
    <2>2. y.ful.pair # 0 => y.ful.pair \notin h
      BY Zenon DEF Reached
    <2>3. Due(n, x) = Due(m, x) \cup {w}
      BY DEF Attached
    <2>4. Handed(m, h, x)
      BY DEF Shape
    <2> QED
      BY <1>3, <2>1, <2>2, <2>3, <2>4 DEF Handed
  <1>5. Getters(n, s, h, x)
    <2>1. \A k : Reached(n, h, x, k) => Reached(m, h, x, k) \/ k = y.ful.pair
      BY <1>3 DEF Reached, Attached
    <2>2. \A k, p : PairFor(n, k, p) <=> PairFor(m, k, p)
      BY Zenon DEF PairFor
    <2> QED
      BY <2>1, <2>2, Zenon DEF Shape, Getters
  <1>6. SlotsApart(n)
    <2>1. \A r, q \in ReactionId(m) : SameSlot(n, r, q) => SameSlot(m, r, q)
      BY DEF SameSlot, Attached
    <2>2. \A r \in ReactionId(m) : ~SameSlot(n, r, w) /\ ~SameSlot(n, w, r)
      BY DEF SameSlot, Attached
    <2> QED
      BY <2>1, <2>2 DEF Shape, SlotsApart, Attached
  <1> QED
    BY <1>1, <1>2, <1>4, <1>5, <1>6 DEF Shape

(* A reaction attached answers from then on for its promise.               *)
LEMMA FateAttach ==
  ASSUME NEW u, NEW m, NEW printed, NEW s, NEW h, Placedly(m, printed, s, h),
         NEW x, NEW c, NEW X, NEW Y, Fate(u, m, s, h, x, c, X, Y),
         NEW y \in Reaction, ReactionShape(u, m, y), y.kind # "member",
         y.ful.pair # 0 => ~Reached(m, h, x, y.ful.pair),
         \A i \in 1 .. Len(s) : s[i].kind = "getter" => s[i].pair # y.ful.pair,
         Overriding(u) \/ y.target \in Y, Getting(u) \/ ~Grouped(m, y.target),
         NEW n, AttachesAs(m, n, y)
  PROVE  Fate(u, n, s, h, x, c, X \ {y.target}, Y \ {y.target})
  <1>a. MachineOK(m) /\ Sound(m, printed) /\ StackIn(m, s)
    BY DEF Placedly, Sound
  <1>f. /\ n.state = m.state /\ n.value = m.value
        /\ n.pairs = m.pairs /\ n.groups = m.groups
    BY DEF AttachesAs
  <1>w. PICK w : w = Len(m.reactions) + 1
    OBVIOUS
  <1>t. Attached(m, n, y, w, x)
    BY <1>a, <1>w, AttachAdds DEF Fate
  <1>p. Promise(n) = Promise(m)
    BY <1>f DEF Promise
  <1>1. InHand(n, x, c)
    BY <1>t DEF Fate, InHand, Attached
  <1>2. Shape(u, n, s, h, x)
    BY <1>f, <1>t, AttachShapes DEF Fate
  <1>3. Answered(u, n, s, h, x, c, X \ {y.target})
    <2>1. \A g \in 1 .. Len(m.groups) : Counting(m, x, c, g) => Counting(n, x, c, g)
      <3>1. TAKE g \in 1 .. Len(m.groups)
      <3>2. DueTo(n, x, g) = DueTo(m, x, g)
        BY <1>t, AttachBeside
      <3> QED
        BY <3>2, <1>f, Zenon DEF Counting, Joining
    <2>2. \A q : Live(m, s, h, x, c, q) => Live(n, s, h, x, c, q)
      BY <1>f, <1>t, <2>1, AttachKeepsLive
    <2>3. Live(n, s, h, x, c, y.target)
      <3>1. w \in Waiting(n) /\ ReactionFor(n, w, y.target)
        BY <1>t DEF Attached, ReactionFor
      <3> QED
        BY <3>1, Zenon DEF Live
    <2>4. \A q : Expected(u, n, q) <=> Expected(u, m, q)
      BY <1>f, Zenon DEF Expected, Grouped
    <2> QED
      BY <2>2, <2>3, <2>4, <1>f, <1>p, Zenon DEF Fate, Answered
  <1>4. ASSUME ~Overriding(u) PROVE Sole(n, s, Y \ {y.target})
    <2>1. Sole(m, s, Y) /\ y.target \in Y
      BY <1>4 DEF Fate
    <2>2. \A k, q : PairFor(n, k, q) <=> PairFor(m, k, q)
      BY <1>f, Zenon DEF PairFor
    <2>3. \A q : q # y.target => Claims(n, s, q) = Claims(m, s, q)
      <3>1. SUFFICES ASSUME NEW q, q # y.target
                     PROVE  {r \in Waiting(n) : ReactionFor(n, r, q)} = {r \in Waiting(m) : ReactionFor(m, r, q)}
        BY <2>2, <1>f, Zenon DEF Claims
      <3>2. ~ReactionFor(n, w, q)
        BY <1>t, <3>1 DEF ReactionFor, Attached
      <3>3. \A r \in Waiting(m) : ReactionFor(n, r, q) <=> ReactionFor(m, r, q)
        BY <1>t DEF ReactionFor, Attached, Waiting
      <3> QED
        BY <3>2, <3>3, <1>t DEF Attached
    <2>4. y.target \in Promise(m) => Claims(m, s, y.target) = {}
      BY <2>1 DEF Sole
    <2>5. y.target \in Promise(m) => Claims(n, s, y.target) \subseteq {<<"reaction", w>>}
      <3>1. SUFFICES ASSUME y.target \in Promise(m) PROVE Claims(n, s, y.target) \subseteq {<<"reaction", w>>}
        OBVIOUS
      <3>2. \A r \in Waiting(m) : ~ReactionFor(m, r, y.target)
        BY <2>4, <3>1, Zenon DEF Claims
      <3>3. \A i \in 1 .. Len(s) : ~FrameFor(s[i], y.target)
        BY <2>4, <3>1, Zenon DEF Claims
      <3>4. \A k \in 1 .. Len(m.pairs) : ~PairFor(m, k, y.target)
        BY <2>4, <3>1, Zenon DEF Claims
      <3>5. \A r \in Waiting(n) : ReactionFor(n, r, y.target) => r = w
        BY <3>2, <1>t DEF ReactionFor, Attached, Waiting
      <3> QED
        BY <3>3, <3>4, <3>5, <2>2, <1>f, Zenon DEF Claims
    <2> QED
      BY <2>1, <2>3, <2>5, <1>f, <1>p DEF Sole
  <1>5. ASSUME ~Getting(u) PROVE Owned(n, s) /\ GroupsOK(n, x)
    <2>1. Owned(n, s)
      <3>1. ASSUME NEW g \in 1 .. Len(n.groups) PROVE Untargeted(n, s, n.groups[g].result)
        <4>1. PICK p : p = m.groups[g].result
          OBVIOUS
        <4>2. Untargeted(m, s, p) /\ p # y.target
          BY <1>5, <1>f, <3>1, <4>1 DEF Fate, Owned, Grouped
        <4>3. ~ReactionFor(n, w, p) /\ \A r \in Waiting(m) : ReactionFor(n, r, p) <=> ReactionFor(m, r, p)
          BY <1>t, <4>2 DEF ReactionFor, Attached, Waiting
        <4>4. \A k : PairFor(n, k, p) <=> PairFor(m, k, p)
          BY <1>f, Zenon DEF PairFor
        <4>5. Untargeted(n, s, p)
          BY <4>2, <4>3, <4>4, <1>t, <1>f DEF Untargeted, Attached
        <4> QED
          BY <4>1, <4>5, <1>f
      <3> QED
        BY <3>1, <1>5, <1>f DEF Fate, Owned
    <2>2. ASSUME NEW g \in 1 .. Len(n.groups) PROVE GroupOK(n, x, g)
      BY <1>5, <1>a, <1>f, <1>t, AttachKeepsGroup DEF Fate, GroupsOK
    <2> QED
      BY <2>1, <2>2 DEF GroupsOK
  <1> QED
    BY <1>1, <1>2, <1>3, <1>4, <1>5 DEF Fate

-----------------------------------------------------------------------------
(***************************************************************************)
(* What keeps a promise alive and its claim sole; taking a reaction out.   *)
(***************************************************************************)

(* What answered for a promise goes on answering for it.                   *)
LEMMA LiveStays ==
  ASSUME NEW m, NEW n, NEW s, NEW t, NEW h, NEW l, NEW x, NEW z, NEW c, NEW d, NEW p,
         Live(m, s, h, x, c, p),
         \A r \in Waiting(m) : ReactionFor(m, r, p) =>
           \E q \in Waiting(n) : ReactionFor(n, q, p),
         \A i \in 1 .. Len(s) : FrameFor(s[i], p) => \E j \in 1 .. Len(t) : FrameFor(t[j], p),
         \A k \in 1 .. Len(m.pairs) : PairFor(m, k, p) /\ Reached(m, h, x, k) =>
           k \in 1 .. Len(n.pairs) /\ PairFor(n, k, p) /\ Reached(n, l, z, k),
         \A g \in 1 .. Len(m.groups) : m.groups[g].result = p /\ Counting(m, x, c, g) =>
           g \in 1 .. Len(n.groups) /\ n.groups[g].result = p /\ Counting(n, z, d, g)
  PROVE  Live(n, t, l, z, d, p)
  <1>1. CASE \E r \in Waiting(m) : ReactionFor(m, r, p)
    BY <1>1, Zenon DEF Live
  <1>2. CASE \E i \in 1 .. Len(s) : FrameFor(s[i], p)
    BY <1>2, Zenon DEF Live
  <1>3. CASE \E k \in 1 .. Len(m.pairs) : PairFor(m, k, p) /\ Reached(m, h, x, k)
    BY <1>3, Zenon DEF Live
  <1>4. CASE \E g \in 1 .. Len(m.groups) : m.groups[g].result = p /\ Counting(m, x, c, g)
    BY <1>4, Zenon DEF Live
  <1> QED
    BY <1>1, <1>2, <1>3, <1>4, Zenon DEF Live

(* The claims on a promise, one kind at a time.                            *)
ClaimsKept(m, n, s, t, p) ==
  /\ \A r \in Waiting(n) : ReactionFor(n, r, p) => r \in Waiting(m) /\ ReactionFor(m, r, p)
  /\ \A i \in 1 .. Len(t) : FrameFor(t[i], p) => i \in 1 .. Len(s) /\ FrameFor(s[i], p)
  /\ \A k \in 1 .. Len(n.pairs) : PairFor(n, k, p) => k \in 1 .. Len(m.pairs) /\ PairFor(m, k, p)

(* Claims that were all there before.                                      *)
LEMMA ClaimsWithin ==
  ASSUME NEW m, NEW n, NEW s, NEW t, NEW p, ClaimsKept(m, n, s, t, p)
  PROVE  Claims(n, t, p) \subseteq Claims(m, s, p)
  <1>1. {r \in Waiting(n) : ReactionFor(n, r, p)} \subseteq {r \in Waiting(m) : ReactionFor(m, r, p)}
    BY DEF ClaimsKept
  <1>2. {i \in 1 .. Len(t) : FrameFor(t[i], p)} \subseteq {i \in 1 .. Len(s) : FrameFor(s[i], p)}
    BY DEF ClaimsKept
  <1>3. {k \in 1 .. Len(n.pairs) : PairFor(n, k, p)} \subseteq {k \in 1 .. Len(m.pairs) : PairFor(m, k, p)}
    BY DEF ClaimsKept
  <1> QED
    BY <1>1, <1>2, <1>3, Zenon DEF Claims

(* The one claim on a promise given up: its fate is in hand.               *)
LEMMA SoleGivesUp ==
  ASSUME NEW m, NEW n, NEW s, NEW t, NEW Y, Sole(m, s, Y), n.state = m.state,
         \A p : Claims(n, t, p) \subseteq Claims(m, s, p),
         NEW a, NEW w, w \in Claims(m, s, a), w \notin Claims(n, t, a)
  PROVE  Sole(n, t, Y \cup {a})
  <1>1. Promise(n) = Promise(m)
    BY DEF Promise
  <1> QED
    BY <1>1 DEF Sole

(* A claim laid on a promise whose fate was in hand.                       *)
LEMMA SoleTakesUp ==
  ASSUME NEW m, NEW n, NEW s, NEW t, NEW Y, Sole(m, s, Y), n.state = m.state,
         NEW a \in Y, \A p : p # a => Claims(n, t, p) \subseteq Claims(m, s, p),
         NEW w, Claims(n, t, a) \subseteq Claims(m, s, a) \cup {w}
  PROVE  Sole(n, t, Y \ {a})
  <1>1. Promise(n) = Promise(m)
    BY DEF Promise
  <1> QED
    BY <1>1 DEF Sole

(* A sole claim stays one when claims only go away.                        *)
LEMMA SoleWithin ==
  ASSUME NEW m, NEW n, NEW s, NEW t, NEW Y, Sole(m, s, Y), n.state = m.state,
         \A p : Claims(n, t, p) \subseteq Claims(m, s, p),
         NEW Z, \A p \in Promise(m) : p \in Z => p \in Y
  PROVE  Sole(n, t, Z)
  <1>1. Promise(n) = Promise(m)
    BY DEF Promise
  <1> QED
    BY <1>1 DEF Sole

(* What is in hand is given back: a promise that is settled, or answered   *)
(* for, or not expected to be; and a fate the caller leaves alone.         *)
Given(u, m, s, h, x, c, p) ==
  p \in Promise(m) => m.state[p] # "pending" \/ ~Expected(u, m, p) \/ Live(m, s, h, x, c, p)

(* The caller may always promise less.                                     *)
LEMMA FateEases ==
  ASSUME NEW u, NEW m, NEW s, NEW h, NEW x, NEW c, NEW X, NEW Y, Fate(u, m, s, h, x, c, X, Y),
         NEW W, \A p \in X : p \in W \/ Given(u, m, s, h, x, c, p),
         NEW Z, Overriding(u) \/ \A p \in Promise(m) : p \in Z => p \in Y
  PROVE  Fate(u, m, s, h, x, c, W, Z)
  <1>1. Answered(u, m, s, h, x, c, W)
    BY Zenon DEF Fate, Answered, Given
  <1>2. ASSUME ~Overriding(u) PROVE Sole(m, s, Z)
    BY <1>2, SoleWithin DEF Fate
  <1> QED
    BY <1>1, <1>2 DEF Fate

(* A reaction taken out to run answers for nothing any more.               *)
LEMMA FateTake ==
  ASSUME NEW u, NEW m, NEW printed, NEW s, NEW h, Placedly(m, printed, s, h),
         NEW c, NEW X, NEW Y, Fate(u, m, s, h, 0, c, X, Y),
         NEW n, TakesAs(m, n), NEW r, r = Head(m.queue),
         NEW T, T = IF m.reactions[r].kind = "member" THEN {} ELSE {m.reactions[r].target}
  PROVE  Fate(u, n, s, h, r, c, X \cup T, Y \cup T)
  <1>a. MachineOK(m) /\ Sound(m, printed) /\ StackIn(m, s)
    BY DEF Placedly, Sound
  <1>f. /\ n.state = m.state /\ n.value = m.value /\ n.reactions = m.reactions
        /\ n.pairs = m.pairs /\ n.groups = m.groups /\ n.taken = m.taken \cup {r}
        /\ r \in Waiting(m) /\ r \in ReactionId(m) /\ r \notin m.taken
    BY DEF TakesAs, Waiting
  <1>p. Promise(n) = Promise(m) /\ ReactionId(n) = ReactionId(m)
    BY <1>f DEF Promise, ReactionId
  <1>d. Due(n, r) = Due(m, 0) /\ Told(n, r) = Told(m, 0)
    <2>1. 0 \notin ReactionId(m) /\ m.taken \subseteq ReactionId(m)
      BY <1>a, FieldTypes DEF ReactionId, MachineOK
    <2> QED
      BY <2>1, <1>f, <1>p DEF Due, Told
  <1>g. \A g : DueTo(n, r, g) = DueTo(m, 0, g) /\ ToldTo(n, r, g) = ToldTo(m, 0, g)
    BY <1>d, <1>f, Zenon DEF DueTo, ToldTo, MemberOf
  <1>w. Waiting(n) = Waiting(m) \ {r}
    BY <1>f, <1>p DEF Waiting
  <1>k. /\ \A k : Reached(n, h, r, k) <=> Reached(m, h, 0, k)
        /\ \A k, p : PairFor(n, k, p) <=> PairFor(m, k, p)
        /\ \A q, p : ReactionFor(n, q, p) <=> ReactionFor(m, q, p)
        /\ \A q : PairOf(n, q) = PairOf(m, q) /\ Source(n, q) = Source(m, q)
    BY <1>d, <1>f, Zenon DEF Reached, PairOf, PairFor, ReactionFor, Source
  <1>t. \A p : ReactionFor(m, r, p) <=> p \in T
    BY DEF ReactionFor
  <1>1. InHand(n, r, c)
    BY <1>f DEF Fate, InHand
  <1>2. Shape(u, n, s, h, r)
    <2>1. ValuesPass(u, n) /\ FramesShaped(u, s)
      BY <1>f, <1>p DEF Fate, Shape, ValuesPass
    <2>2. ReactionsShaped(u, n)
      BY <1>f, <1>p DEF Fate, Shape, ReactionsShaped, ReactionShape, Paired
    <2>3. Handed(n, h, r)
      BY <1>k, <1>d, Zenon DEF Fate, Shape, Handed
    <2>4. Getters(n, s, h, r)
      BY <1>k, Zenon DEF Fate, Shape, Getters
    <2>5. SlotsApart(n)
      BY <1>f, <1>p DEF Fate, Shape, SlotsApart, SameSlot
    <2> QED
      BY <2>1, <2>2, <2>3, <2>4, <2>5 DEF Shape
  <1>3. Answered(u, n, s, h, r, c, X \cup T)
    <2>1. \A g : Counting(m, 0, c, g) => Counting(n, r, c, g)
      <3>1. TAKE g
      <3>2. DueTo(n, r, g) = DueTo(m, 0, g)
        BY <1>g
      <3> QED
        BY <3>2, <1>f, Zenon DEF Counting, Joining
    <2>2. ASSUME NEW p \in Promise(n), n.state[p] = "pending", p \notin X \cup T, Expected(u, n, p)
          PROVE  Live(n, s, h, r, c, p)
      <3>1. Live(m, s, h, 0, c, p) /\ ~ReactionFor(m, r, p)
        BY <2>2, <1>f, <1>p, <1>t, Zenon DEF Fate, Answered, Expected, Grouped
      <3>2. \A q \in Waiting(m) : ReactionFor(m, q, p) =>
              \E o \in Waiting(n) : ReactionFor(n, o, p)
        BY <3>1, <1>w, <1>k
      <3> QED
        BY <3>1, <3>2, <2>1, <1>k, <1>f, LiveStays
    <2> QED
      BY <2>2 DEF Answered
  <1>4. ASSUME ~Overriding(u) PROVE Sole(n, s, Y \cup T)
    <2>1. Sole(m, s, Y)
      BY <1>4 DEF Fate
    <2>2. \A p : Claims(n, s, p) \subseteq Claims(m, s, p)
      <3>1. TAKE p
      <3>2. ClaimsKept(m, n, s, s, p)
        BY <1>w, <1>k, <1>f DEF ClaimsKept
      <3> QED
        BY <3>2, ClaimsWithin
    <2>3. CASE m.reactions[r].kind = "member"
      BY <2>1, <2>2, <2>3, <1>f, SoleWithin
    <2>4. CASE m.reactions[r].kind # "member"
      <3>1. PICK a : a = m.reactions[r].target
        OBVIOUS
      <3>2. ReactionFor(m, r, a)
        BY <3>1, <2>4 DEF ReactionFor
      <3>3. <<"reaction", r>> \in Claims(m, s, a)
        BY <3>2, <1>f DEF Claims
      <3>4. <<"reaction", r>> \notin Claims(n, s, a)
        BY <1>w DEF Claims
      <3>5. Sole(n, s, Y \cup {a})
        BY <3>3, <3>4, <2>1, <2>2, <1>f, SoleGivesUp
      <3> QED
        BY <3>1, <3>5, <2>4
    <2> QED
      BY <2>3, <2>4
  <1>5. ASSUME ~Getting(u) PROVE Owned(n, s) /\ GroupsOK(n, r)
    <2>1. Owned(m, s) /\ GroupsOK(m, 0)
      BY <1>5 DEF Fate
    <2>2. \A p : Untargeted(m, s, p) => Untargeted(n, s, p)
      BY <1>k, <1>w, <1>f DEF Untargeted
    <2>3. Owned(n, s)
      BY <2>1, <2>2, <1>f DEF Owned
    <2>4. ASSUME NEW g \in 1 .. Len(n.groups) PROVE GroupOK(n, r, g)
      <3>1. GroupOK(m, 0, g)
        BY <2>1, <1>f DEF GroupsOK
      <3>2. \A q : Decided(n, g, q) <=> Decided(m, g, q)
        BY <1>k, <1>f, Zenon DEF Decided
      <3> QED
        BY <3>1, <3>2, <1>g, <1>k, <1>f, Zenon DEF GroupOK, SameOutcome
    <2> QED
      BY <2>3, <2>4 DEF GroupsOK
  <1> QED
    BY <1>1, <1>2, <1>3, <1>4, <1>5 DEF Fate

-----------------------------------------------------------------------------
(***************************************************************************)
(* A reaction put away; a pair opened, held and spent.                     *)
(***************************************************************************)

(* A reaction done with, that is no group's: it held no settlers, or they  *)
(* have been used.                                                         *)
LEMMA FateDrop ==
  ASSUME NEW u, NEW m, MachineOK(m), NEW s, NEW h, NEW r, NEW c, NEW X, NEW Y,
         Fate(u, m, s, h, r, c, X, Y), m.reactions[r].kind # "member",
         PairOf(m, r) = 0 \/ m.pairs[PairOf(m, r)].spent
  PROVE  Fate(u, m, s, h, 0, c, X, Y)
  <1>z. 0 \notin ReactionId(m) /\ 0 \notin m.taken
    BY DEF MachineOK, ReactionId
  <1>d. Due(m, 0) \subseteq Due(m, r) /\ \A q \in Due(m, r) : q = r \/ q \in Due(m, 0)
    BY <1>z DEF Due
  <1>g. \A g : DueTo(m, 0, g) = DueTo(m, r, g) /\ ToldTo(m, 0, g) = ToldTo(m, r, g)
    <2>1. TAKE g
    <2>2. ~MemberOf(m, r, g)
      BY DEF MemberOf
    <2>3. DueTo(m, 0, g) = DueTo(m, r, g)
      BY <2>2, <1>d DEF DueTo
    <2>4. ToldTo(m, 0, g) = ToldTo(m, r, g)
      BY <2>2, <1>z DEF ToldTo, Told
    <2> QED
      BY <2>3, <2>4
  <1>k. \A k, p : PairFor(m, k, p) /\ Reached(m, h, r, k) /\ k # 0 => Reached(m, h, 0, k)
    <2>1. SUFFICES ASSUME NEW k, NEW p, PairFor(m, k, p), Reached(m, h, r, k), k # 0
                   PROVE  Reached(m, h, 0, k)
      OBVIOUS
    <2>2. ASSUME NEW q \in Due(m, r), PairOf(m, q) = k PROVE q \in Due(m, 0)
      BY <2>1, <2>2, <1>d DEF PairFor
    <2> QED
      BY <2>1, <2>2, Zenon DEF Reached
  <1>1. InHand(m, 0, c)
    BY DEF Fate, InHand
  <1>2. Shape(u, m, s, h, 0)
    <2>1. Handed(m, h, 0)
      BY <1>d DEF Fate, Shape, Handed
    <2>2. Getters(m, s, h, 0)
      <3>1. \A k : Reached(m, h, 0, k) => Reached(m, h, r, k)
        BY <1>d DEF Reached
      <3> QED
        BY <3>1, Zenon DEF Fate, Shape, Getters
    <2> QED
      BY <2>1, <2>2 DEF Fate, Shape
  <1>3. Answered(u, m, s, h, 0, c, X)
    <2>1. SUFFICES ASSUME NEW p, Live(m, s, h, r, c, p) PROVE Live(m, s, h, 0, c, p)
      BY Zenon DEF Fate, Answered
    <2>2. \A g : Counting(m, r, c, g) => Counting(m, 0, c, g)
      <3>1. TAKE g
      <3>2. DueTo(m, 0, g) = DueTo(m, r, g)
        BY <1>g
      <3> QED
        BY <3>2, Zenon DEF Counting
    <2>3. \A k \in 1 .. Len(m.pairs) : k # 0
      OBVIOUS
    <2> QED
      BY <2>1, <2>2, <2>3, <1>k, LiveStays
  <1>5. ASSUME ~Getting(u) PROVE Owned(m, s) /\ GroupsOK(m, 0)
    <2>1. ASSUME NEW g \in 1 .. Len(m.groups) PROVE GroupOK(m, 0, g)
      <3>1. GroupOK(m, r, g)
        BY <1>5 DEF Fate, GroupsOK
      <3>2. DueTo(m, 0, g) = DueTo(m, r, g) /\ ToldTo(m, 0, g) = ToldTo(m, r, g)
        BY <1>g
      <3> QED
        BY <3>1, <3>2, Zenon DEF GroupOK
    <2> QED
      BY <1>5, <2>1 DEF Fate, GroupsOK
  <1> QED
    BY <1>1, <1>2, <1>3, <1>5 DEF Fate

(* A pair opened on a promise: it will answer for it once handed on.       *)
LEMMA FatePairOpened ==
  ASSUME NEW u, NEW m, NEW printed, NEW s, NEW h, Placedly(m, printed, s, h),
         NEW x, NEW c, NEW X, NEW Y, Fate(u, m, s, h, x, c, X, Y),
         NEW p \in Promise(m), Overriding(u) \/ p \in Y, Getting(u) \/ ~Grouped(m, p),
         NEW n, n = OpenPair(m, p), NEW k, k = Len(m.pairs) + 1
  PROVE  /\ Fate(u, n, s, h, x, c, X, Y \ {p})
         /\ Fresh(n, s, h, x, k, p)
  <1>a. MachineOK(m) /\ Sound(m, printed) /\ StackIn(m, s) /\ h \subseteq 1 .. Len(m.pairs)
    BY DEF Placedly, Sound
  <1>b. m.pairs \in Seq(Pair) /\ Len(m.pairs) \in Nat /\ m \in Machine /\ p \in Nat
    BY <1>a, FieldTypes DEF MachineOK, Promise
  <1>e. PICK e : e = [promise |-> p, spent |-> FALSE]
    OBVIOUS
  <1>i. e \in Pair /\ e.promise = p /\ ~e.spent
    BY <1>b, <1>e DEF Pair
  <1>f. /\ n.state = m.state /\ n.value = m.value /\ n.reactions = m.reactions
        /\ n.groups = m.groups /\ n.taken = m.taken /\ n.pairs = Append(m.pairs, e)
    BY <1>b, <1>e DEF OpenPair, Machine
  <1>l. /\ Len(n.pairs) = Len(m.pairs) + 1
        /\ \A j \in 1 .. Len(m.pairs) : n.pairs[j] = m.pairs[j]
        /\ n.pairs[k] = e
    BY <1>i, <1>b, <1>f, AppendProperties
  <1>j. /\ 1 .. Len(n.pairs) = 1 .. Len(m.pairs) \cup {k} /\ k \in 1 .. Len(n.pairs)
        /\ k \notin 1 .. Len(m.pairs) /\ k # 0
    BY <1>l, <1>b
  <1>r. SameReactions(m, n)
    BY <1>f DEF SameReactions
  <1>p. Promise(n) = Promise(m)
    BY <1>f DEF Promise
  <1>h. /\ \A j \in 1 .. Len(m.pairs) : \A q : PairFor(n, j, q) <=> PairFor(m, j, q)
        /\ PairFor(n, k, p) /\ \A q : PairFor(n, k, q) => q = p
    BY <1>l, <1>i DEF PairFor
  <1>u. ~Reached(n, h, x, k)
    <2>1. \A r \in Due(m, x) : PairOf(m, r) # k
      BY <1>a, <1>b, <1>j, Named DEF Due
    <2>2. k \notin h
      BY <1>a, <1>j
    <2> QED
      <3>1. ~Reached(m, h, x, k)
        BY <2>1, <2>2, Zenon DEF Reached
      <3> QED
        BY <3>1, <1>r, ReactionsSame
  <1>g. \A i \in 1 .. Len(s) : s[i].kind = "getter" => s[i].pair \in 1 .. Len(m.pairs)
    BY <1>a DEF StackIn, FrameIn
  <1>1. InHand(n, x, c)
    BY <1>f DEF Fate, InHand
  <1>2. Shape(u, n, s, h, x)
    <2>1. ValuesPass(u, n) /\ FramesShaped(u, s)
      BY <1>f, <1>p DEF Fate, Shape, ValuesPass
    <2>2. ReactionsShaped(u, n)
      <3>1. \A y : ReactionShape(u, m, y) => ReactionShape(u, n, y)
        <4>1. \A y : Paired(m, y) => Paired(n, y)
          BY <1>j DEF Paired
        <4> QED
          BY <4>1, <1>f, Zenon DEF ReactionShape
      <3> QED
        BY <3>1, <1>f, Zenon DEF Fate, Shape, ReactionsShaped, ReactionId
    <2>3. Handed(n, h, x) /\ SlotsApart(n)
      BY <1>r, ReactionsSame DEF Fate, Shape
    <2>4. Getters(n, s, h, x)
      BY <1>g, <1>h, <1>r, ReactionsSame, Zenon DEF Fate, Shape, Getters
    <2> QED
      BY <2>1, <2>2, <2>3, <2>4 DEF Shape
  <1>3. Answered(u, n, s, h, x, c, X)
    <2>1. \A g : Counting(m, x, c, g) => Counting(n, x, c, g)
      <3>1. TAKE g
      <3>2. DueTo(n, x, g) = DueTo(m, x, g)
        BY <1>r, ReactionsSame
      <3> QED
        BY <3>2, <1>f, Zenon DEF Counting, Joining
    <2>2. ASSUME NEW q, Live(m, s, h, x, c, q) PROVE Live(n, s, h, x, c, q)
      <3>1. \A r \in Waiting(m) : ReactionFor(m, r, q) => \E o \in Waiting(n) : ReactionFor(n, o, q)
        BY <1>r, ReactionsSame
      <3>2. \A j \in 1 .. Len(m.pairs) : PairFor(m, j, q) /\ Reached(m, h, x, j) =>
              j \in 1 .. Len(n.pairs) /\ PairFor(n, j, q) /\ Reached(n, h, x, j)
        BY <1>h, <1>j, <1>r, ReactionsSame
      <3> QED
        BY <2>1, <2>2, <3>1, <3>2, <1>f, LiveStays
    <2>3. \A q : Expected(u, n, q) <=> Expected(u, m, q)
      BY <1>f, Zenon DEF Expected, Grouped
    <2> QED
      BY <2>2, <2>3, <1>f, <1>p, Zenon DEF Fate, Answered
  <1>4. ASSUME ~Overriding(u) PROVE Sole(n, s, Y \ {p})
    <2>1. \A q : /\ \A r \in Waiting(n) : ReactionFor(n, r, q) => r \in Waiting(m) /\ ReactionFor(m, r, q)
      BY <1>r, ReactionsSame
    <2>2. \A q : q # p => Claims(n, s, q) \subseteq Claims(m, s, q)
      <3>1. SUFFICES ASSUME NEW q, q # p PROVE ClaimsKept(m, n, s, s, q)
        BY ClaimsWithin
      <3> QED
        BY <2>1, <3>1, <1>h, <1>j DEF ClaimsKept
    <2>3. Claims(n, s, p) \subseteq Claims(m, s, p) \cup {<<"pair", k>>}
      <3>1. {r \in Waiting(n) : ReactionFor(n, r, p)} \subseteq {r \in Waiting(m) : ReactionFor(m, r, p)}
        BY <2>1
      <3>2. {j \in 1 .. Len(n.pairs) : PairFor(n, j, p)} \subseteq {j \in 1 .. Len(m.pairs) : PairFor(m, j, p)} \cup {k}
        BY <1>h, <1>j
      <3> QED
        BY <3>1, <3>2, Zenon DEF Claims
    <2> QED
      BY <2>2, <2>3, <1>4, <1>f, SoleTakesUp DEF Fate
  <1>5. ASSUME ~Getting(u) PROVE Owned(n, s) /\ GroupsOK(n, x)
    <2>1. Owned(m, s) /\ GroupsOK(m, x) /\ ~Grouped(m, p)
      BY <1>5 DEF Fate
    <2>2. \A q : q # p /\ Untargeted(m, s, q) => Untargeted(n, s, q)
      BY <1>h, <1>j, <1>r, ReactionsSame DEF Untargeted
    <2>3. Owned(n, s)
      BY <2>1, <2>2, <1>f DEF Owned, Grouped
    <2>4. ASSUME NEW g \in 1 .. Len(n.groups) PROVE GroupOK(n, x, g)
      <3>1. GroupOK(m, x, g)
        BY <2>1, <1>f DEF GroupsOK
      <3>2. DueTo(n, x, g) = DueTo(m, x, g) /\ ToldTo(n, x, g) = ToldTo(m, x, g)
        BY <1>r, ReactionsSame
      <3> QED
        BY <3>1, <3>2, <1>f, GroupStays
    <2> QED
      BY <2>3, <2>4 DEF GroupsOK
  <1> QED
    BY <1>1, <1>2, <1>3, <1>4, <1>5, <1>h, <1>j, <1>u, <1>g DEF Fate, Fresh, Ungot

(* The settlers of a pair handed to the program.                           *)
LEMMA FateHold ==
  ASSUME NEW u, NEW m, NEW s, NEW h, NEW x, NEW c, NEW X, NEW Y, Fate(u, m, s, h, x, c, X, Y),
         NEW k \in 1 .. Len(m.pairs), \A r \in Due(m, x) : PairOf(m, r) # k,
         Ungot(s, k),
         NEW W, \A p \in X : p \in W \/ PairFor(m, k, p)
  PROVE  Fate(u, m, s, h \cup {k}, x, c, W, Y)
  <1>1. Shape(u, m, s, h \cup {k}, x)
    <2>1. Handed(m, h \cup {k}, x)
      BY Zenon DEF Fate, Shape, Handed
    <2>2. Getters(m, s, h \cup {k}, x)
      BY Zenon DEF Fate, Shape, Getters, Reached, Ungot
    <2> QED
      BY <2>1, <2>2 DEF Fate, Shape
  <1>2. Answered(u, m, s, h \cup {k}, x, c, W)
    <2>1. \A j : Reached(m, h, x, j) => Reached(m, h \cup {k}, x, j)
      BY Zenon DEF Reached
    <2>2. Reached(m, h \cup {k}, x, k)
      BY Zenon DEF Reached
    <2>3. \A p : PairFor(m, k, p) => Live(m, s, h \cup {k}, x, c, p)
      BY <2>2, Zenon DEF Live
    <2>4. \A p : Live(m, s, h, x, c, p) => Live(m, s, h \cup {k}, x, c, p)
      BY <2>1, LiveStays
    <2> QED
      BY <2>3, <2>4, Zenon DEF Fate, Answered
  <1> QED
    BY <1>1, <1>2 DEF Fate

(* A pair used: what it answered for is in hand.                           *)
LEMMA FatePairSpent ==
  ASSUME NEW u, NEW m, NEW printed, NEW s, NEW h, Placedly(m, printed, s, h),
         NEW x, NEW c, NEW X, NEW Y, Fate(u, m, s, h, x, c, X, Y),
         NEW k \in 1 .. Len(m.pairs), NEW p, PairFor(m, k, p),
         Ungot(s, k),
         NEW n, n = Spend(m, k)
  PROVE  Fate(u, n, s, h, x, c, X \cup {p}, Y \cup {p})
  <1>a. MachineOK(m) /\ Sound(m, printed) /\ StackIn(m, s) /\ h \subseteq 1 .. Len(m.pairs)
    BY DEF Placedly, Sound
  <1>b. m.pairs \in Seq(Pair) /\ Len(m.pairs) \in Nat /\ m \in Machine
    BY <1>a, FieldTypes DEF MachineOK
  <1>f. /\ n.state = m.state /\ n.value = m.value /\ n.reactions = m.reactions
        /\ n.groups = m.groups /\ n.taken = m.taken
        /\ n.pairs = [m.pairs EXCEPT ![k].spent = TRUE]
    BY <1>b DEF Machine, Spend
  <1>l. /\ Len(n.pairs) = Len(m.pairs)
        /\ \A j \in 1 .. Len(m.pairs) : j # k => n.pairs[j] = m.pairs[j]
        /\ n.pairs[k].spent
    BY <1>b, <1>f, ElementOfSeq DEF Pair
  <1>r. SameReactions(m, n)
    BY <1>f DEF SameReactions
  <1>p. Promise(n) = Promise(m)
    BY <1>f DEF Promise
  <1>h. /\ \A j \in 1 .. Len(m.pairs) : j # k => \A q : PairFor(n, j, q) <=> PairFor(m, j, q)
        /\ \A q : ~PairFor(n, k, q) /\ (PairFor(m, k, q) => q = p)
    BY <1>l DEF PairFor
  <1>1. InHand(n, x, c)
    BY <1>f DEF Fate, InHand
  <1>2. Shape(u, n, s, h, x)
    <2>1. ValuesPass(u, n) /\ FramesShaped(u, s)
      BY <1>f, <1>p DEF Fate, Shape, ValuesPass
    <2>2. ReactionsShaped(u, n)
      <3>1. \A y : ReactionShape(u, m, y) => ReactionShape(u, n, y)
        <4>1. \A y : Paired(m, y) => Paired(n, y)
          BY <1>l DEF Paired
        <4> QED
          BY <4>1, <1>f, Zenon DEF ReactionShape
      <3> QED
        BY <3>1, <1>f, Zenon DEF Fate, Shape, ReactionsShaped, ReactionId
    <2>3. Handed(n, h, x) /\ SlotsApart(n)
      BY <1>r, ReactionsSame DEF Fate, Shape
    <2>4. Getters(n, s, h, x)
      <3>1. \A i \in 1 .. Len(s) : s[i].kind = "getter" => s[i].pair \in 1 .. Len(m.pairs)
        BY <1>a DEF StackIn, FrameIn
      <3> QED
        <4>1. \A j \in 1 .. Len(m.pairs) : \A q : j # k => (PairFor(n, j, q) <=> PairFor(m, j, q))
          BY <1>h
        <4>2. \A j : Reached(n, h, x, j) <=> Reached(m, h, x, j)
          BY <1>r, ReactionsSame
        <4>3. Getters(m, s, h, x)
          BY DEF Fate, Shape
        <4> QED
          BY <3>1, <4>1, <4>2, <4>3 DEF Getters, Ungot
    <2> QED
      BY <2>1, <2>2, <2>3, <2>4 DEF Shape
  <1>3. Answered(u, n, s, h, x, c, X \cup {p})
    <2>1. \A g : Counting(m, x, c, g) => Counting(n, x, c, g)
      <3>1. TAKE g
      <3>2. DueTo(n, x, g) = DueTo(m, x, g)
        BY <1>r, ReactionsSame
      <3> QED
        BY <3>2, <1>f, Zenon DEF Counting, Joining
    <2>2. ASSUME NEW q, q # p, Live(m, s, h, x, c, q) PROVE Live(n, s, h, x, c, q)
      <3>1. \A r \in Waiting(m) : ReactionFor(m, r, q) => \E o \in Waiting(n) : ReactionFor(n, o, q)
        BY <1>r, ReactionsSame
      <3>2. \A j \in 1 .. Len(m.pairs) : PairFor(m, j, q) /\ Reached(m, h, x, j) =>
              j \in 1 .. Len(n.pairs) /\ PairFor(n, j, q) /\ Reached(n, h, x, j)
        BY <2>2, <1>h, <1>l, <1>r, ReactionsSame
      <3> QED
        <4>1. \A g \in 1 .. Len(m.groups) : m.groups[g].result = q /\ Counting(m, x, c, g) =>
                g \in 1 .. Len(n.groups) /\ n.groups[g].result = q /\ Counting(n, x, c, g)
          BY <2>1, <1>f, Zenon
        <4>2. \A i \in 1 .. Len(s) : FrameFor(s[i], q) => \E j \in 1 .. Len(s) : FrameFor(s[j], q)
          OBVIOUS
        <4> QED
          BY <2>2, <3>1, <3>2, <4>1, <4>2, LiveStays
    <2>3. \A q : Expected(u, n, q) <=> Expected(u, m, q)
      BY <1>f, Zenon DEF Expected, Grouped
    <2> QED
      BY <2>2, <2>3, <1>f, <1>p, Zenon DEF Fate, Answered
  <1>4. ASSUME ~Overriding(u) PROVE Sole(n, s, Y \cup {p})
    <2>1. \A q : Claims(n, s, q) \subseteq Claims(m, s, q)
      <3>1. SUFFICES ASSUME NEW q PROVE ClaimsKept(m, n, s, s, q)
        BY ClaimsWithin
      <3>2. \A r \in Waiting(n) : ReactionFor(n, r, q) => r \in Waiting(m) /\ ReactionFor(m, r, q)
        BY <1>r, ReactionsSame
      <3> QED
        BY <3>2, <1>h, <1>l DEF ClaimsKept
    <2>2. <<"pair", k>> \in Claims(m, s, p)
      BY DEF Claims
    <2>3. <<"pair", k>> \notin Claims(n, s, p)
      BY <1>h DEF Claims
    <2> QED
      BY <2>1, <2>2, <2>3, <1>4, <1>f, SoleGivesUp DEF Fate
  <1>5. ASSUME ~Getting(u) PROVE Owned(n, s) /\ GroupsOK(n, x)
    <2>1. Owned(m, s) /\ GroupsOK(m, x)
      BY <1>5 DEF Fate
    <2>2. \A q : Untargeted(m, s, q) => Untargeted(n, s, q)
      <3>1. \A j \in 1 .. Len(n.pairs) : \A q : PairFor(n, j, q) => PairFor(m, j, q) /\ j \in 1 .. Len(m.pairs)
        BY <1>h, <1>l
      <3>2. Waiting(n) = Waiting(m) /\ \A r, q : ReactionFor(n, r, q) <=> ReactionFor(m, r, q)
        BY <1>r, ReactionsSame
      <3> QED
        BY <3>1, <3>2, Zenon DEF Untargeted
    <2>3. Owned(n, s)
      BY <2>1, <2>2, <1>f DEF Owned
    <2>4. ASSUME NEW g \in 1 .. Len(n.groups) PROVE GroupOK(n, x, g)
      <3>1. GroupOK(m, x, g)
        BY <2>1, <1>f DEF GroupsOK
      <3>2. DueTo(n, x, g) = DueTo(m, x, g) /\ ToldTo(n, x, g) = ToldTo(m, x, g)
        BY <1>r, ReactionsSame
      <3> QED
        BY <3>1, <3>2, <1>f, GroupStays
    <2> QED
      BY <2>3, <2>4 DEF GroupsOK
  <1> QED
    BY <1>1, <1>2, <1>3, <1>4, <1>5 DEF Fate

-----------------------------------------------------------------------------
(***************************************************************************)
(* Code called and code ended.                                             *)
(***************************************************************************)

(* Code called: it answers for its target, and a getter is called by the   *)
(* drain alone.                                                            *)
LEMMA FatePush ==
  ASSUME NEW u, NEW m, NEW printed, NEW s, NEW h, Placedly(m, printed, s, h),
         NEW x, NEW c, NEW X, NEW Y, Fate(u, m, s, h, x, c, X, Y),
         NEW f \in Frame, FrameShape(u, f),
         f.kind = "getter" => /\ s = <<>> /\ PairFor(m, f.pair, f.target)
                              /\ ~Reached(m, h, x, f.pair),
         NEW T, T = IF f.kind \in Answering THEN {f.target} ELSE {},
         Overriding(u) \/ T \subseteq Y,
         Getting(u) \/ f.kind \in {"turn", "try"} \/ ~Grouped(m, f.target),
         NEW t, t = Append(s, f)
  PROVE  Fate(u, m, t, h, x, c, X \ T, Y \ T)
  <1>a. MachineOK(m) /\ Sound(m, printed) /\ StackIn(m, s)
    BY DEF Placedly, Sound
  <1>l. /\ Len(t) = Len(s) + 1 /\ Len(s) \in Nat
        /\ \A i \in 1 .. Len(s) : t[i] = s[i]
        /\ t[Len(s) + 1] = f
    BY <1>a, AppendProperties DEF StackIn
  <1>w. PICK w \in Nat : w = Len(s) + 1
    BY <1>l
  <1>j. /\ 1 .. Len(t) = 1 .. Len(s) \cup {w} /\ w \in 1 .. Len(t) /\ t[w] = f
        /\ \A i \in 1 .. Len(s) : t[i] = s[i]
    BY <1>l, <1>w
  <1>k. \A p : FrameFor(f, p) <=> p \in T
    BY DEF FrameFor
  <1>2. Shape(u, m, t, h, x)
    <2>1. FramesShaped(u, t)
      BY <1>j DEF Fate, Shape, FramesShaped
    <2>2. Getters(m, t, h, x)
      <3>1. CASE f.kind = "getter"
        <4>1. Len(s) = 0
          BY <3>1, EmptySeq
        <4>2. \A i \in 1 .. Len(t) : i = 1 /\ t[i] = f
          BY <4>1, <1>l
        <4> QED
          BY <3>1, <4>2 DEF Getters
      <3>2. CASE f.kind # "getter"
        BY <3>2, <1>j DEF Fate, Shape, Getters
      <3> QED
        BY <3>1, <3>2
    <2> QED
      BY <2>1, <2>2 DEF Fate, Shape
  <1>3. Answered(u, m, t, h, x, c, X \ T)
    <2>1. ASSUME NEW p, Live(m, s, h, x, c, p) PROVE Live(m, t, h, x, c, p)
      <3>1. \A i \in 1 .. Len(s) : FrameFor(s[i], p) => \E j \in 1 .. Len(t) : FrameFor(t[j], p)
        BY <1>j
      <3> QED
        BY <2>1, <3>1, LiveStays
    <2>2. ASSUME NEW p \in T PROVE Live(m, t, h, x, c, p)
      <3>1. FrameFor(t[w], p)
        BY <2>2, <1>j, <1>k
      <3> QED
        BY <3>1, <1>j, Zenon DEF Live
    <2> QED
      BY <2>1, <2>2, Zenon DEF Fate, Answered
  <1>4. ASSUME ~Overriding(u) PROVE Sole(m, t, Y \ T)
    <2>0. Sole(m, s, Y) /\ T \subseteq Y
      BY <1>4 DEF Fate
    <2>1. \A q : q \notin T => Claims(m, t, q) \subseteq Claims(m, s, q)
      <3>1. SUFFICES ASSUME NEW q, q \notin T PROVE ClaimsKept(m, m, s, t, q)
        BY ClaimsWithin
      <3> QED
        BY <3>1, <1>j, <1>k DEF ClaimsKept
    <2>2. CASE T = {}
      BY <2>0, <2>1, <2>2, SoleWithin
    <2>3. CASE T = {f.target}
      <3>1. PICK a : a = f.target
        OBVIOUS
      <3>2. Claims(m, t, a) \subseteq Claims(m, s, a) \cup {<<"frame", w>>}
        <4>1. {i \in 1 .. Len(t) : FrameFor(t[i], a)} \subseteq {i \in 1 .. Len(s) : FrameFor(s[i], a)} \cup {w}
          BY <1>j
        <4> QED
          BY <4>1, Zenon DEF Claims
      <3>3. a \in Y
        BY <2>0, <2>3, <3>1
      <3>4. Sole(m, t, Y \ {a})
        BY <2>0, <2>1, <2>3, <3>1, <3>2, <3>3, SoleTakesUp
      <3> QED
        BY <2>3, <3>1, <3>4
    <2> QED
      BY <2>2, <2>3
  <1>5. ASSUME ~Getting(u) PROVE Owned(m, t)
    <2>1. Owned(m, s)
      BY <1>5 DEF Fate
    <2>2. ASSUME NEW g \in 1 .. Len(m.groups) PROVE Untargeted(m, t, m.groups[g].result)
      <3>1. f.kind \in {"turn", "try"} \/ f.target # m.groups[g].result
        BY <1>5, <2>2 DEF Grouped
      <3>2. Untargeted(m, s, m.groups[g].result)
        BY <2>1, <2>2 DEF Owned
      <3> QED
        BY <3>1, <3>2, <1>j DEF Untargeted
    <2> QED
      BY <2>1, <2>2 DEF Owned
  <1> QED
    BY <1>2, <1>3, <1>4, <1>5 DEF Fate

(* The innermost code ends: what it answered for is in hand.               *)
LEMMA FatePop ==
  ASSUME NEW u, NEW m, NEW printed, NEW s, NEW h, Placedly(m, printed, s, h), s # <<>>,
         NEW x, NEW c, NEW X, NEW Y, Fate(u, m, s, h, x, c, X, Y),
         NEW f, f = s[Len(s)],
         NEW T, T = IF f.kind \in Answering THEN {f.target} ELSE {},
         NEW t, t = SubSeq(s, 1, Len(s) - 1)
  PROVE  /\ Fate(u, m, t, h, x, c, X \cup T, Y \cup T)
         /\ StackIn(m, t)
         /\ f.kind = "getter" => \A i \in 1 .. Len(t) : t[i].kind # "getter"
  <1>a. MachineOK(m) /\ Sound(m, printed) /\ StackIn(m, s)
    BY DEF Placedly, Sound
  <1>s. StackIn(m, t)
    BY <1>a, StackRest
  <1>b. Len(s) \in Nat /\ Len(s) # 0 /\ s \in Seq(Frame)
    BY <1>a, EmptySeq, LenProperties DEF StackIn
  <1>w. PICK w \in Nat : w = Len(s)
    BY <1>b
  <1>l. Len(t) = w - 1 /\ \A i \in 1 .. w - 1 : t[i] = s[i]
    <2>1. \A i \in 1 .. w - 1 : s[i] \in Frame
      BY <1>b, <1>w, ElementOfSeq
    <2>2. PICK k \in Nat : k = w - 1
      BY <1>b, <1>w
    <2>3. /\ Len(t) = IF 1 <= k THEN k - 1 + 1 ELSE 0
          /\ \A i \in 1 .. k - 1 + 1 : t[i] = s[1 + i - 1]
      BY <2>1, <2>2, <1>w, SubSeqProperties
    <2>4. k - 1 + 1 = k /\ (~(1 <= k) => k = 0) /\ \A i \in 1 .. k : 1 + i - 1 = i
      BY <2>2
    <2> QED
      BY <2>2, <2>3, <2>4
  <1>j. /\ 1 .. Len(s) = 1 .. Len(t) \cup {w} /\ w \notin 1 .. Len(t) /\ s[w] = f
        /\ \A i \in 1 .. Len(t) : t[i] = s[i]
    BY <1>b, <1>w, <1>l
  <1>k. \A p : FrameFor(f, p) <=> p \in T
    BY DEF FrameFor
  <1>2. Shape(u, m, t, h, x)
    <2>1. FramesShaped(u, t)
      BY <1>j DEF Fate, Shape, FramesShaped
    <2>2. Getters(m, t, h, x)
      BY <1>j DEF Fate, Shape, Getters
    <2> QED
      BY <2>1, <2>2 DEF Fate, Shape
  <1>3. Answered(u, m, t, h, x, c, X \cup T)
    <2>1. ASSUME NEW p, p \notin T, Live(m, s, h, x, c, p) PROVE Live(m, t, h, x, c, p)
      <3>1. \A i \in 1 .. Len(s) : FrameFor(s[i], p) => \E j \in 1 .. Len(t) : FrameFor(t[j], p)
        BY <2>1, <1>j, <1>k
      <3> QED
        <4>1. Live(m, s, h, x, c, p)
          BY <2>1
        <4> QED
          BY <4>1, <3>1, Zenon DEF Live
    <2> QED
      BY <2>1, Zenon DEF Fate, Answered
  <1>4. ASSUME ~Overriding(u) PROVE Sole(m, t, Y \cup T)
    <2>0. Sole(m, s, Y)
      BY <1>4 DEF Fate
    <2>1. \A q : Claims(m, t, q) \subseteq Claims(m, s, q)
      <3>1. SUFFICES ASSUME NEW q PROVE ClaimsKept(m, m, s, t, q)
        BY ClaimsWithin
      <3> QED
        BY <1>j DEF ClaimsKept
    <2>2. CASE T = {}
      <3>1. \A p \in Promise(m) : p \in Y \cup T => p \in Y
        BY <2>2
      <3> QED
        BY <2>0, <2>1, <3>1, SoleWithin
    <2>3. CASE T = {f.target}
      <3>1. PICK a : a = f.target
        OBVIOUS
      <3>2. FrameFor(s[w], a)
        BY <2>3, <3>1, <1>j, <1>k
      <3>3. <<"frame", w>> \in Claims(m, s, a)
        BY <3>2, <1>j DEF Claims
      <3>4. <<"frame", w>> \notin Claims(m, t, a)
        BY <1>j DEF Claims
      <3>5. Sole(m, t, Y \cup {a})
        BY <2>0, <2>1, <3>3, <3>4, SoleGivesUp
      <3> QED
        BY <2>3, <3>1, <3>5
    <2> QED
      BY <2>2, <2>3
  <1>5. ASSUME ~Getting(u) PROVE Owned(m, t)
    <2>1. Owned(m, s)
      BY <1>5 DEF Fate
    <2>2. ASSUME NEW g \in 1 .. Len(m.groups) PROVE Untargeted(m, t, m.groups[g].result)
      <3>2. Untargeted(m, s, m.groups[g].result)
        BY <2>1, <2>2 DEF Owned
      <3> QED
        BY <3>2, <1>j DEF Untargeted
    <2> QED
      BY <2>1, <2>2 DEF Owned
  <1>6. f.kind = "getter" => \A i \in 1 .. Len(t) : t[i].kind # "getter"
    <2>1. SUFFICES ASSUME f.kind = "getter", NEW i \in 1 .. Len(t), t[i].kind = "getter" PROVE FALSE
      OBVIOUS
    <2>2. s[i].kind = "getter" /\ s[w].kind = "getter" /\ i \in 1 .. Len(s) /\ w \in 1 .. Len(s) /\ i # w
      BY <2>1, <1>j
    <2> QED
      BY <2>2 DEF Fate, Shape, Getters
  <1> QED
    BY <1>2, <1>3, <1>4, <1>5, <1>6, <1>s DEF Fate

-----------------------------------------------------------------------------
(***************************************************************************)
(* A group opened.                                                         *)
(***************************************************************************)

(* What a group opened adds to what the tables tell.                       *)
GroupAdded(m, n, kind, p, size, G) ==
  /\ n.state = m.state /\ n.value = m.value /\ n.reactions = m.reactions
  /\ n.pairs = m.pairs /\ n.taken = m.taken
  /\ G = Len(n.groups) /\ 1 .. G = 1 .. Len(m.groups) \cup {G}
  /\ G \notin 1 .. Len(m.groups)
  /\ n.groups[G].result = p /\ n.groups[G].kind = kind /\ n.groups[G].remaining = size
  /\ \A g \in 1 .. Len(m.groups) : n.groups[g] = m.groups[g]

(* A group opened is the newest, and the others stay.                      *)
LEMMA GroupOpens ==
  ASSUME NEW m, MachineOK(m), NEW kind \in {"all", "allSettled", "race", "any"},
         NEW p \in Promise(m), NEW size \in Nat, NEW n, n = OpenGroup(m, kind, p, size)
  PROVE  \E G \in Nat : GroupAdded(m, n, kind, p, size, G)
  <1>t. /\ m.groups \in Seq(Group) /\ Len(m.groups) \in Nat /\ m \in Machine /\ p \in Nat
    BY FieldTypes DEF MachineOK, Promise
  <1>1. PICK x : x = [kind |-> kind, result |-> p,
                      values |-> [i \in 1 .. size |-> Undefined], remaining |-> size]
    OBVIOUS
  <1>2. x \in Group
    <2>1. [i \in 1 .. size |-> Undefined] \in Seq(Value)
      BY UndefinedValue
    <2> QED
      BY <1>1, <1>t, <2>1 DEF Group
  <1>f. /\ n.state = m.state /\ n.value = m.value /\ n.reactions = m.reactions
        /\ n.pairs = m.pairs /\ n.taken = m.taken /\ n.groups = Append(m.groups, x)
    BY <1>t, <1>1 DEF OpenGroup, Machine
  <1>3. /\ Len(n.groups) = Len(m.groups) + 1
        /\ \A g \in 1 .. Len(m.groups) : n.groups[g] = m.groups[g]
        /\ n.groups[Len(m.groups) + 1] = x
    BY <1>2, <1>f, <1>t, AppendProperties
  <1>4. PICK G \in Nat : G = Len(m.groups) + 1
    BY <1>t
  <1>5. /\ G = Len(n.groups) /\ 1 .. G = 1 .. Len(m.groups) \cup {G}
        /\ G \notin 1 .. Len(m.groups)
    BY <1>3, <1>4, <1>t
  <1>6. n.groups[G].result = p /\ n.groups[G].kind = kind /\ n.groups[G].remaining = size
    BY <1>1, <1>3, <1>4
  <1> QED
    BY <1>f, <1>3, <1>5, <1>6 DEF GroupAdded

(* A group opened on a fresh promise: it answers for it, its members still *)
(* in hand.                                                                *)
LEMMA FateGroupOpened ==
  ASSUME NEW u, NEW m, NEW printed, NEW s, NEW h, Placedly(m, printed, s, h),
         NEW x, NEW X, NEW Y, Fate(u, m, s, h, x, 0, X, Y),
         NEW p \in Promise(m), m.state[p] = "pending", Untargeted(m, s, p), ~Grouped(m, p),
         NEW kind \in {"all", "allSettled", "race", "any"}, NEW size \in Nat, size >= 1,
         NEW n, n = OpenGroup(m, kind, p, size)
  PROVE  Fate(u, n, s, h, x, size, X \ {p}, Y)
  <1>a. MachineOK(m) /\ Sound(m, printed) /\ StackIn(m, s) /\ h \subseteq 1 .. Len(m.pairs)
    BY DEF Placedly, Sound
  <1>o. PICK G \in Nat : GroupAdded(m, n, kind, p, size, G)
    BY <1>a, GroupOpens
  <1>f. /\ n.state = m.state /\ n.value = m.value /\ n.reactions = m.reactions
        /\ n.pairs = m.pairs /\ n.taken = m.taken
    BY <1>o DEF GroupAdded
  <1>j. /\ G = Len(n.groups) /\ 1 .. G = 1 .. Len(m.groups) \cup {G}
        /\ G \notin 1 .. Len(m.groups)
        /\ n.groups[G].result = p /\ n.groups[G].kind = kind /\ n.groups[G].remaining = size
        /\ \A g \in 1 .. Len(m.groups) : n.groups[g] = m.groups[g]
    BY <1>o DEF GroupAdded
  <1>r. SameReactions(m, n)
    BY <1>f DEF SameReactions
  <1>p. Promise(n) = Promise(m)
    BY <1>f DEF Promise
  <1>e. \A r \in ReactionId(m) : ~MemberOf(m, r, G)
    BY <1>a, <1>j, Named DEF MemberOf
  <1>d. DueTo(n, x, G) = {} /\ ToldTo(n, x, G) = {}
    <2>1. Told(m, x) \subseteq ReactionId(m) /\ Due(m, x) \subseteq ReactionId(m)
      BY <1>a DEF Told, Due, MachineOK
    <2>2. DueTo(m, x, G) = {} /\ ToldTo(m, x, G) = {}
      BY <1>e, <2>1 DEF DueTo, ToldTo
    <2> QED
      BY <2>2, <1>r, ReactionsSame
  <1>1. InHand(n, x, size)
    BY <1>f DEF Fate, InHand
  <1>2. Shape(u, n, s, h, x)
    <2>1. ValuesPass(u, n) /\ FramesShaped(u, s)
      BY <1>f, <1>p DEF Fate, Shape, ValuesPass
    <2>2. ReactionsShaped(u, n)
      <3>1. SUFFICES ASSUME NEW r \in ReactionId(m) PROVE ReactionShape(u, n, m.reactions[r])
        BY <1>f DEF ReactionsShaped, ReactionId
      <3>2. ReactionShape(u, m, m.reactions[r])
        BY DEF Fate, Shape, ReactionsShaped
      <3>3. m.reactions[r].kind = "member" => m.reactions[r].group \in 1 .. Len(m.groups)
        BY <1>a, Named
      <3>4. Paired(n, m.reactions[r]) <=> Paired(m, m.reactions[r])
        BY <1>f, <1>r, PairsSame
      <3> QED
        BY <3>2, <3>3, <3>4, <1>j DEF ReactionShape
    <2>3. Handed(n, h, x) /\ SlotsApart(n) /\ Getters(n, s, h, x)
      BY <1>f, <1>r, ReactionsSame, PairsSame DEF Fate, Shape
    <2> QED
      BY <2>1, <2>2, <2>3 DEF Shape
  <1>3. Answered(u, n, s, h, x, size, X \ {p})
    <2>1. \A g \in 1 .. Len(m.groups) : Counting(m, x, 0, g) => Counting(n, x, size, g)
      <3>1. TAKE g \in 1 .. Len(m.groups)
      <3>2. DueTo(n, x, g) = DueTo(m, x, g)
        BY <1>r, ReactionsSame
      <3>3. Joining(m, 0, g) = 0
        BY DEF Joining
      <3>4. Joining(n, size, g) = 0
        BY <1>j DEF Joining
      <3> QED
        BY <3>2, <3>3, <3>4, <1>j, Zenon DEF Counting
    <2>2. Counting(n, x, size, G)
      <3>1. Joining(n, size, G) = size
        BY <1>j, Zenon DEF Joining
      <3>2. Cardinality(DueTo(n, x, G)) = 0
        BY <1>d, FS_EmptySet
      <3>3. n.groups[G].remaining = 0 + size /\ n.groups[G].remaining >= 1
        BY <1>j
      <3> QED
        BY <3>1, <3>2, <3>3, Zenon DEF Counting
    <2>3. Live(n, s, h, x, size, p)
      <3>1. G \in 1 .. Len(n.groups)
        BY <1>j
      <3> QED
        BY <2>2, <3>1, <1>j, Zenon DEF Live
    <2>4. ASSUME NEW q, Live(m, s, h, x, 0, q) PROVE Live(n, s, h, x, size, q)
      <3>1. \A g \in 1 .. Len(m.groups) : m.groups[g].result = q /\ Counting(m, x, 0, g) =>
              g \in 1 .. Len(n.groups) /\ n.groups[g].result = q /\ Counting(n, x, size, g)
        BY <2>1, <1>j
      <3>2. \A k \in 1 .. Len(m.pairs) : PairFor(m, k, q) /\ Reached(m, h, x, k) =>
              k \in 1 .. Len(n.pairs) /\ PairFor(n, k, q) /\ Reached(n, h, x, k)
        BY <1>f, <1>r, ReactionsSame, PairsSame
      <3>3. \A r \in Waiting(m) : ReactionFor(m, r, q) => \E o \in Waiting(n) : ReactionFor(n, o, q)
        BY <1>r, ReactionsSame
      <3>4. \A i \in 1 .. Len(s) : FrameFor(s[i], q) => \E j \in 1 .. Len(s) : FrameFor(s[j], q)
        OBVIOUS
      <3> QED
        BY <2>4, <3>1, <3>2, <3>3, <3>4, LiveStays
    <2>5. \A q : q # p => (Expected(u, n, q) <=> Expected(u, m, q))
      BY <1>j DEF Expected, Grouped
    <2> QED
      BY <2>3, <2>4, <2>5, <1>f, <1>p, Zenon DEF Fate, Answered
  <1>4. ASSUME ~Overriding(u) PROVE Sole(n, s, Y)
    <2>1. \A q : Claims(n, s, q) = Claims(m, s, q)
      BY <1>f, <1>r, PairsSame
    <2> QED
      BY <2>1, <1>4, <1>f, SoleWithin DEF Fate
  <1>5. ASSUME ~Getting(u) PROVE Owned(n, s) /\ GroupsOK(n, x)
    <2>1. Owned(m, s) /\ GroupsOK(m, x)
      BY <1>5 DEF Fate
    <2>2. \A q : Untargeted(m, s, q) => Untargeted(n, s, q)
      BY <1>f, <1>r, PairsSame
    <2>3. Owned(n, s)
      <3>1. \A g \in 1 .. Len(n.groups) : Untargeted(n, s, n.groups[g].result)
        BY <2>1, <2>2, <1>j DEF Owned
      <3>2. \A g \in 1 .. Len(m.groups) : m.groups[g].result # p
        BY DEF Grouped
      <3>3. \A g, o \in 1 .. Len(n.groups) : n.groups[g].result = n.groups[o].result => g = o
        <4>1. TAKE g \in 1 .. Len(n.groups)
        <4>2. TAKE o \in 1 .. Len(n.groups)
        <4>3. (g \in 1 .. Len(m.groups) \/ g = G) /\ (o \in 1 .. Len(m.groups) \/ o = G)
          BY <1>j
        <4>4. CASE g \in 1 .. Len(m.groups) /\ o \in 1 .. Len(m.groups)
          BY <4>4, <2>1, <1>j DEF Owned
        <4>5. CASE g = G /\ o \in 1 .. Len(m.groups)
          BY <4>5, <3>2, <1>j
        <4>6. CASE g \in 1 .. Len(m.groups) /\ o = G
          BY <4>6, <3>2, <1>j
        <4> QED
          BY <4>3, <4>4, <4>5, <4>6
      <3> QED
        BY <3>1, <3>3 DEF Owned
    <2>4. ASSUME NEW g \in 1 .. Len(n.groups) PROVE GroupOK(n, x, g)
      <3>1. CASE g \in 1 .. Len(m.groups)
        <4>1. GroupOK(m, x, g)
          BY <2>1, <3>1 DEF GroupsOK
        <4>2. DueTo(n, x, g) = DueTo(m, x, g) /\ ToldTo(n, x, g) = ToldTo(m, x, g)
          BY <1>r, ReactionsSame
        <4>3. n.groups[g] = m.groups[g]
          BY <3>1, <1>j
        <4> QED
          BY <4>1, <4>2, <4>3, <1>f, GroupStays
      <3>2. CASE g = G
        BY <3>2, <1>d, <1>f, <1>j DEF GroupOK
      <3> QED
        BY <2>4, <3>1, <3>2, <1>j
    <2> QED
      BY <2>3, <2>4 DEF GroupsOK
  <1> QED
    BY <1>1, <1>2, <1>3, <1>4, <1>5 DEF Fate

-----------------------------------------------------------------------------
(***************************************************************************)
(* A member joins the newest group.                                        *)
(***************************************************************************)

(* The members of a group that have not reported can be counted.           *)
LEMMA DueFinite ==
  ASSUME NEW m, MachineOK(m), NEW x, NEW g
  PROVE  IsFiniteSet(DueTo(m, x, g)) /\ Cardinality(DueTo(m, x, g)) \in Nat
  <1>1. Len(m.reactions) \in Nat
    BY FieldTypes
  <1>2. IsFiniteSet(1 .. Len(m.reactions))
    BY <1>1, FS_Interval
  <1>3. DueTo(m, x, g) \subseteq 1 .. Len(m.reactions)
    BY DEF DueTo, Due, ReactionId
  <1>4. IsFiniteSet(DueTo(m, x, g))
    BY <1>2, <1>3, FS_Subset
  <1> QED
    BY <1>4, FS_CardinalityType

(* A member attached to the newest group counts in place of one still to   *)
(* come.                                                                   *)
LEMMA FateJoins ==
  ASSUME NEW u, NEW m, NEW printed, NEW s, NEW h, Placedly(m, printed, s, h),
         NEW x, NEW c, NEW X, NEW Y, Fate(u, m, s, h, x, c, X, Y), c >= 1,
         NEW y \in Reaction, y.kind = "member", ReactionShape(u, m, y),
         y.group = Len(m.groups), Len(m.groups) # 0,
         m.state[m.groups[Len(m.groups)].result] = "pending",
         \A r \in ReactionId(m) :
           m.reactions[r].kind = "member" /\ m.reactions[r].group = Len(m.groups)
             => m.reactions[r].slot # y.slot,
         NEW n, AttachesAs(m, n, y)
  PROVE  Fate(u, n, s, h, x, c - 1, X, Y)
  <1>a. MachineOK(m) /\ Sound(m, printed) /\ StackIn(m, s)
    BY DEF Placedly, Sound
  <1>G. PICK G \in Nat : G = Len(m.groups)
    BY <1>a, FieldTypes
  <1>g. G \in 1 .. Len(m.groups) /\ y.group = G /\ m.state[m.groups[G].result] = "pending"
    BY <1>G
  <1>f. /\ n.state = m.state /\ n.value = m.value
        /\ n.pairs = m.pairs /\ n.groups = m.groups
    BY DEF AttachesAs
  <1>w. PICK w : w = Len(m.reactions) + 1
    OBVIOUS
  <1>t. Attached(m, n, y, w, x)
    BY <1>a, <1>w, AttachAdds DEF Fate
  <1>p. Promise(n) = Promise(m)
    BY <1>f DEF Promise
  <1>c. c \in Nat /\ c - 1 \in Nat
    BY DEF Fate, InHand
  <1>u. y.ful.pair = 0
    BY DEF ReactionShape, Paired, Unpaired
  <1>b. \A g : g # G => DueTo(n, x, g) = DueTo(m, x, g) /\ ToldTo(n, x, g) = ToldTo(m, x, g)
    BY <1>t, <1>g, AttachBeside
  <1>d. DueTo(n, x, G) = DueTo(m, x, G) \cup {w} /\ w \notin DueTo(m, x, G)
    <2>1. \A r \in Due(m, x) : MemberOf(n, r, G) <=> MemberOf(m, r, G)
      BY <1>t DEF Attached, MemberOf, Due
    <2>2. MemberOf(n, w, G)
      BY <1>t, <1>g DEF Attached, MemberOf
    <2>3. w \notin Due(m, x)
      BY <1>t DEF Attached, Due
    <2> QED
      BY <2>1, <2>2, <2>3, <1>t DEF DueTo, Attached
  <1>e. ToldTo(n, x, G) = ToldTo(m, x, G)
    <2>1. \A r \in Told(m, x) : MemberOf(n, r, G) <=> MemberOf(m, r, G)
      BY <1>t DEF Attached, MemberOf, Told
    <2> QED
      BY <2>1, <1>t DEF ToldTo, Attached
  <1>1. InHand(n, x, c - 1)
    BY <1>t, <1>c DEF Fate, InHand, Attached
  <1>2. Shape(u, n, s, h, x)
    <2>1. \A i \in 1 .. Len(s) : s[i].kind = "getter" => s[i].pair # y.ful.pair
      BY <1>a, <1>u DEF StackIn, FrameIn
    <2>2. \A r \in ReactionId(m) : m.reactions[r].kind = "member" /\ y.kind = "member" =>
            ~(m.reactions[r].group = y.group /\ m.reactions[r].slot = y.slot)
      BY <1>G
    <2> QED
      BY <2>1, <2>2, <1>u, <1>f, <1>t, AttachShapes DEF Fate
  <1>3. Answered(u, n, s, h, x, c - 1, X)
    <2>1. \A g \in 1 .. Len(m.groups) : Counting(m, x, c, g) => Counting(n, x, c - 1, g)
      <3>1. ASSUME NEW g \in 1 .. Len(m.groups), Counting(m, x, c, g), g # G
            PROVE  Counting(n, x, c - 1, g)
        <4>1. DueTo(n, x, g) = DueTo(m, x, g)
          BY <3>1, <1>b
        <4>2. Joining(n, c - 1, g) = Joining(m, c, g)
          BY <3>1, <1>G, <1>f, Zenon DEF Joining
        <4> QED
          BY <3>1, <4>1, <4>2, <1>f, Zenon DEF Counting
      <3>2. ASSUME Counting(m, x, c, G) PROVE Counting(n, x, c - 1, G)
        <4>1. Joining(n, c - 1, G) = c - 1 /\ Joining(m, c, G) = c
          BY <1>G, <1>f, Zenon DEF Joining
        <4>2. PICK k \in Nat : k = Cardinality(DueTo(m, x, G))
          BY <1>a, DueFinite
        <4>3. Cardinality(DueTo(n, x, G)) = k + 1
          BY <4>2, <1>a, <1>d, DueFinite, FS_AddElement, Zenon
        <4>4. m.groups[G].remaining = k + c /\ m.groups[G].remaining >= 1
          BY <3>2, <4>1, <4>2 DEF Counting
        <4>5. m.groups[G].remaining = k + 1 + (c - 1)
          BY <4>4, <1>c
        <4> QED
          BY <4>1, <4>3, <4>4, <4>5, <1>f, Zenon DEF Counting
      <3> QED
        BY <3>1, <3>2
    <2>2. \A q : Live(m, s, h, x, c, q) => Live(n, s, h, x, c - 1, q)
      BY <1>f, <1>t, <2>1, AttachKeepsLive
    <2>3. \A q : Expected(u, n, q) <=> Expected(u, m, q)
      BY <1>f, Zenon DEF Expected, Grouped
    <2> QED
      BY <2>2, <2>3, <1>f, <1>p, Zenon DEF Fate, Answered
  <1>h. \A q : /\ {r \in Waiting(n) : ReactionFor(n, r, q)} = {r \in Waiting(m) : ReactionFor(m, r, q)}
    <2>1. TAKE q
    <2>2. ~ReactionFor(n, w, q)
      BY <1>t DEF ReactionFor, Attached
    <2>3. \A r \in Waiting(m) : ReactionFor(n, r, q) <=> ReactionFor(m, r, q)
      BY <1>t DEF ReactionFor, Attached, Waiting
    <2> QED
      BY <2>2, <2>3, <1>t DEF Attached
  <1>i. \A k, q : PairFor(n, k, q) <=> PairFor(m, k, q)
    BY <1>f, Zenon DEF PairFor
  <1>4. ASSUME ~Overriding(u) PROVE Sole(n, s, Y)
    <2>1. \A q : Claims(n, s, q) = Claims(m, s, q)
      BY <1>h, <1>i, <1>f, Zenon DEF Claims
    <2> QED
      BY <2>1, <1>4, <1>f, SoleWithin DEF Fate
  <1>5. ASSUME ~Getting(u) PROVE Owned(n, s) /\ GroupsOK(n, x)
    <2>1. Owned(n, s)
      <3>1. \A q : Untargeted(m, s, q) => Untargeted(n, s, q)
        BY <1>h, <1>i, <1>f DEF Untargeted
      <3> QED
        BY <3>1, <1>5, <1>f DEF Fate, Owned
    <2>2. ASSUME NEW g \in 1 .. Len(n.groups) PROVE GroupOK(n, x, g)
      <3>1. GroupOK(m, x, g)
        BY <1>5, <1>f DEF Fate, GroupsOK
      <3>2. CASE g # G
        BY <3>1, <3>2, <1>a, <1>f, <1>t, <1>g, AttachKeepsGroup
      <3>3. CASE g = G
        <4>1. \A r \in ToldTo(m, x, G) : n.reactions[r] = m.reactions[r]
          BY <1>a, <1>t, ToldSettled DEF Attached
        <4>2. \A r \in ToldTo(m, x, G) : Source(n, r) = Source(m, r) /\ (Decided(n, G, r) <=> Decided(m, G, r))
          BY <4>1, <1>f, Zenon DEF Decided, Source
        <4>3. \A r \in ToldTo(m, x, G) : ~Decided(m, G, r)
          BY <3>1, <3>3, <1>g DEF GroupOK
        <4>4. \A r \in ToldTo(m, x, G) : m.groups[G].values[m.reactions[r].slot] = m.value[Source(m, r)]
          BY <3>1, <3>3, <4>3, Zenon DEF GroupOK
        <4>5. n.state[n.groups[G].result] = "pending"
          BY <1>g, <1>f
        <4>6. \A r \in ToldTo(n, x, G) : ~Decided(n, G, r)
          BY <4>2, <4>3, <1>e
        <4>7. \A r \in ToldTo(n, x, G) : n.groups[G].values[n.reactions[r].slot] = n.value[Source(n, r)]
          BY <4>1, <4>2, <4>4, <1>e, <1>f
        <4> QED
          BY <3>3, <4>5, <4>6, <4>7, Zenon DEF GroupOK
      <3> QED
        BY <3>2, <3>3
    <2> QED
      BY <2>1, <2>2 DEF GroupsOK
  <1> QED
    BY <1>1, <1>2, <1>3, <1>4, <1>5 DEF Fate

-----------------------------------------------------------------------------
(***************************************************************************)
(* A member of a group reports.                                            *)
(***************************************************************************)

(* What the report of a member may change: the result of its group, which  *)
(* it may settle, and the slots and the count of that group.               *)
Reported(m, n, g) ==
  LET p == m.groups[g].result IN
  /\ n.reactions = m.reactions /\ n.taken = m.taken /\ n.pairs = m.pairs
  /\ Len(n.state) = Len(m.state)
  /\ \A q \in Promise(m) : q # p \/ m.state[p] # "pending" =>
       n.state[q] = m.state[q] /\ n.value[q] = m.value[q]
  /\ Len(n.groups) = Len(m.groups)
  /\ \A f \in 1 .. Len(m.groups) : f # g => n.groups[f] = m.groups[f]
  /\ n.groups[g].result = p /\ n.groups[g].kind = m.groups[g].kind

(* Who is still due and who has reported once the member in hand has.      *)
LEMMA MemberReports ==
  ASSUME NEW m, MachineOK(m), NEW n, NEW g, Reported(m, n, g),
         NEW r \in m.taken, MemberOf(m, r, g)
  PROVE  /\ r \in ReactionId(m) /\ r \in Due(m, r)
         /\ Due(n, 0) = Due(m, r) \ {r}
         /\ \A f : f # g => DueTo(n, 0, f) = DueTo(m, r, f) /\ ToldTo(n, 0, f) = ToldTo(m, r, f)
         /\ DueTo(n, 0, g) = DueTo(m, r, g) \ {r} /\ r \in DueTo(m, r, g)
         /\ ToldTo(n, 0, g) = ToldTo(m, r, g) \cup {r} /\ r \notin ToldTo(m, r, g)
  <1>f. n.reactions = m.reactions /\ n.taken = m.taken
    BY DEF Reported
  <1>z. 0 \notin ReactionId(m) /\ 0 \notin m.taken /\ r \in ReactionId(m)
    BY DEF MachineOK, ReactionId
  <1>1. r \in Due(m, r) /\ Due(n, 0) = Due(m, r) \ {r}
    BY <1>f, <1>z DEF Due, ReactionId
  <1>2. Told(n, 0) = Told(m, r) \cup {r} /\ r \notin Told(m, r)
    BY <1>f, <1>z DEF Told
  <1>3. \A q, f : MemberOf(n, q, f) <=> MemberOf(m, q, f)
    BY <1>f, Zenon DEF MemberOf
  <1>4. \A f : f # g => ~MemberOf(m, r, f)
    BY DEF MemberOf
  <1>5. ASSUME NEW f, f # g
        PROVE  DueTo(n, 0, f) = DueTo(m, r, f) /\ ToldTo(n, 0, f) = ToldTo(m, r, f)
    BY <1>1, <1>2, <1>3, <1>4, <1>5 DEF DueTo, ToldTo
  <1>6. DueTo(n, 0, g) = DueTo(m, r, g) \ {r} /\ r \in DueTo(m, r, g)
    BY <1>1, <1>3 DEF DueTo
  <1>7. ToldTo(n, 0, g) = ToldTo(m, r, g) \cup {r} /\ r \notin ToldTo(m, r, g)
    BY <1>2, <1>3 DEF ToldTo
  <1> QED
    BY <1>1, <1>5, <1>6, <1>7, <1>z

(* A member reports, and its group is left as it should be.                *)
LEMMA FateMember ==
  ASSUME NEW u, NEW m, NEW printed, NEW s, NEW h, Placedly(m, printed, s, h),
         NEW r, NEW X, NEW Y, Fate(u, m, s, h, r, 0, X, Y),
         r \in m.taken, NEW g \in 1 .. Len(m.groups), MemberOf(m, r, g),
         NEW p, p = m.groups[g].result,
         NEW n, Reported(m, n, g), ValuesPass(u, n),
         NEW W, p \in W \/ n.state[p] # "pending" \/ (Counting(m, r, 0, g) => Counting(n, 0, 0, g)),
         Getting(u) \/ GroupOK(n, 0, g)
  PROVE  Fate(u, n, s, h, 0, 0, X \cup W, Y \ {p})
  <1>a. MachineOK(m) /\ Sound(m, printed) /\ StackIn(m, s)
    BY DEF Placedly, Sound
  <1>f. /\ n.reactions = m.reactions /\ n.taken = m.taken /\ n.pairs = m.pairs
        /\ Len(n.state) = Len(m.state) /\ Len(n.groups) = Len(m.groups)
        /\ \A f \in 1 .. Len(m.groups) : f # g => n.groups[f] = m.groups[f]
        /\ n.groups[g].result = p /\ n.groups[g].kind = m.groups[g].kind
        /\ p \in Promise(m)
    BY <1>a, Named DEF Reported
  <1>s. /\ \A q \in Promise(m) : q # p => n.state[q] = m.state[q] /\ n.value[q] = m.value[q]
        /\ m.state[p] # "pending" => n.state[p] = m.state[p] /\ n.value[p] = m.value[p]
    BY <1>f DEF Reported
  <1>r. SameReactions(m, n)
    BY <1>f DEF SameReactions
  <1>p. Promise(n) = Promise(m)
    BY <1>f DEF Promise
  <1>d. /\ r \in ReactionId(m) /\ r \in Due(m, r)
        /\ Due(n, 0) = Due(m, r) \ {r}
        /\ \A f : f # g => DueTo(n, 0, f) = DueTo(m, r, f) /\ ToldTo(n, 0, f) = ToldTo(m, r, f)
    BY <1>a, MemberReports
  <1>o. \A f \in 1 .. Len(m.groups) : n.groups[f].result = m.groups[f].result
    BY <1>f
  <1>u. PairOf(m, r) = 0
    <2>1. ReactionShape(u, m, m.reactions[r]) /\ m.reactions[r].kind = "member"
      BY <1>d DEF Fate, Shape, ReactionsShaped, MemberOf
    <2> QED
      BY <2>1 DEF ReactionShape, Paired, Unpaired, PairOf
  <1>k. /\ \A q : PairOf(n, q) = PairOf(m, q)
        /\ \A k, q : PairFor(n, k, q) <=> PairFor(m, k, q)
        /\ \A q, o : ReactionFor(n, q, o) <=> ReactionFor(m, q, o)
        /\ Waiting(n) = Waiting(m)
    BY <1>f, <1>r, ReactionsSame, PairsSame
  <1>h. /\ \A k : Reached(n, h, 0, k) => Reached(m, h, r, k)
        /\ \A k : k # 0 /\ Reached(m, h, r, k) => Reached(n, h, 0, k)
    BY <1>d, <1>k, <1>u DEF Reached
  <1>1. InHand(n, 0, 0)
    BY DEF InHand
  <1>2. Shape(u, n, s, h, 0)
    <2>1. ReactionsShaped(u, n)
      <3>1. SUFFICES ASSUME NEW q \in ReactionId(m) PROVE ReactionShape(u, n, m.reactions[q])
        BY <1>f DEF ReactionsShaped, ReactionId
      <3>2. ReactionShape(u, m, m.reactions[q])
        BY DEF Fate, Shape, ReactionsShaped
      <3>3. m.reactions[q].kind = "member" => m.reactions[q].group \in 1 .. Len(m.groups)
        BY <1>a, Named
      <3>4. Paired(n, m.reactions[q]) <=> Paired(m, m.reactions[q])
        BY <1>f, <1>r, PairsSame
      <3> QED
        BY <3>2, <3>3, <3>4, <1>o DEF ReactionShape
    <2>2. Handed(n, h, 0)
      BY <1>d, <1>k DEF Fate, Shape, Handed
    <2>3. Getters(n, s, h, 0)
      BY <1>h, <1>k, Zenon DEF Fate, Shape, Getters
    <2>4. SlotsApart(n) /\ FramesShaped(u, s)
      BY <1>r, ReactionsSame DEF Fate, Shape
    <2> QED
      BY <2>1, <2>2, <2>3, <2>4 DEF Shape
  <1>3. Answered(u, n, s, h, 0, 0, X \cup W)
    <2>1. \A f \in 1 .. Len(m.groups) : f # g /\ Counting(m, r, 0, f) => Counting(n, 0, 0, f)
      <3>1. SUFFICES ASSUME NEW f \in 1 .. Len(m.groups), f # g, Counting(m, r, 0, f)
                     PROVE  Counting(n, 0, 0, f)
        OBVIOUS
      <3>2. DueTo(n, 0, f) = DueTo(m, r, f) /\ n.groups[f] = m.groups[f]
        BY <3>1, <1>d, <1>f
      <3>3. Joining(n, 0, f) = 0 /\ Joining(m, 0, f) = 0
        BY DEF Joining
      <3> QED
        BY <3>1, <3>2, <3>3, Zenon DEF Counting
    <2>2. ASSUME NEW q, Live(m, s, h, r, 0, q), q # p \/ (Counting(m, r, 0, g) => Counting(n, 0, 0, g))
          PROVE  Live(n, s, h, 0, 0, q)
      <3>1. ASSUME NEW f \in 1 .. Len(m.groups), m.groups[f].result = q, Counting(m, r, 0, f)
            PROVE  f \in 1 .. Len(n.groups) /\ n.groups[f].result = q /\ Counting(n, 0, 0, f)
        BY <2>1, <2>2, <3>1, <1>f, <1>o
      <3>2. \A k \in 1 .. Len(m.pairs) : PairFor(m, k, q) /\ Reached(m, h, r, k) =>
              k \in 1 .. Len(n.pairs) /\ PairFor(n, k, q) /\ Reached(n, h, 0, k)
        BY <1>f, <1>k, <1>h
      <3>3. \A o \in Waiting(m) : ReactionFor(m, o, q) => \E e \in Waiting(n) : ReactionFor(n, e, q)
        BY <1>k
      <3>4. \A i \in 1 .. Len(s) : FrameFor(s[i], q) => \E j \in 1 .. Len(s) : FrameFor(s[j], q)
        OBVIOUS
      <3>5. Live(m, s, h, r, 0, q)
        BY <2>2
      <3> QED
        BY <3>1, <3>2, <3>3, <3>4, <3>5, LiveStays
    <2>3. \A q : Expected(u, n, q) <=> Expected(u, m, q)
      BY <1>o, <1>f DEF Expected, Grouped
    <2>4. ASSUME NEW q \in Promise(n), n.state[q] = "pending", q \notin X \cup W, Expected(u, n, q)
          PROVE  Live(n, s, h, 0, 0, q)
      <3>1. m.state[q] = "pending"
        BY <2>4, <1>s, <1>p
      <3>2. Live(m, s, h, r, 0, q)
        BY <2>3, <2>4, <3>1, <1>p DEF Fate, Answered
      <3> QED
        BY <2>2, <2>4, <3>2
    <2> QED
      BY <2>4 DEF Answered
  <1>6. ASSUME ~Getting(u) PROVE Owned(m, s) /\ GroupsOK(m, r) /\ GroupOK(n, 0, g)
    BY <1>6 DEF Fate
  <1>4. ASSUME ~Overriding(u) PROVE Sole(n, s, Y \ {p})
    <2>1. \A q : Claims(n, s, q) = Claims(m, s, q)
      BY <1>f, <1>r, PairsSame
    <2>2. Untargeted(m, s, p)
      BY <1>4, <1>6 DEF Overriding, Owned
    <2>3. Claims(m, s, p) = {}
      <3>1. \A i \in 1 .. Len(s) : ~FrameFor(s[i], p)
        BY <2>2 DEF Untargeted, FrameFor, Answering
      <3> QED
        BY <2>2, <3>1, Zenon DEF Claims, Untargeted
    <2>4. Sole(m, s, Y)
      BY <1>4 DEF Fate
    <2> QED
      BY <2>1, <2>3, <2>4, <1>s, <1>p DEF Sole
  <1>5. ASSUME ~Getting(u) PROVE Owned(n, s) /\ GroupsOK(n, 0)
    <2>1. Owned(m, s) /\ GroupsOK(m, r) /\ GroupOK(n, 0, g)
      BY <1>5, <1>6
    <2>2. \A q : Untargeted(m, s, q) => Untargeted(n, s, q)
      BY <1>f, <1>r, PairsSame
    <2>3. Owned(n, s)
      BY <2>1, <2>2, <1>o, <1>f DEF Owned
    <2>4. ASSUME NEW f \in 1 .. Len(n.groups), f # g PROVE GroupOK(n, 0, f)
      <3>1. GroupOK(m, r, f) /\ m.groups[f].result # p /\ m.groups[f].result \in Promise(m)
        BY <2>1, <2>4, <1>f, <1>a, Named DEF GroupsOK, Owned
      <3>2. DueTo(n, 0, f) = DueTo(m, r, f) /\ ToldTo(n, 0, f) = ToldTo(m, r, f)
        BY <2>4, <1>d
      <3>3. \A q \in ToldTo(m, r, f) : Source(m, q) \in Promise(m) /\ m.state[Source(m, q)] # "pending"
        BY <1>a, ToldSettled
      <3>4. \A q \in ToldTo(m, r, f) :
              /\ n.state[Source(m, q)] = m.state[Source(m, q)]
              /\ n.value[Source(m, q)] = m.value[Source(m, q)]
        BY <3>3, <1>s
      <3>5. PICK o : o = m.groups[f].result
        OBVIOUS
      <3>6. n.groups[f] = m.groups[f] /\ n.state[o] = m.state[o] /\ n.value[o] = m.value[o]
        BY <2>4, <3>1, <3>5, <1>f, <1>s
      <3>7. \A q : n.reactions[q] = m.reactions[q]
        BY <1>f
      <3> QED
        BY <3>1, <3>2, <3>4, <3>5, <3>6, <3>7, GroupStays
    <2> QED
      BY <2>1, <2>3, <2>4 DEF GroupsOK
  <1> QED
    BY <1>1, <1>2, <1>3, <1>4, <1>5 DEF Fate

-----------------------------------------------------------------------------
(***************************************************************************)
(* Points of an action: the invariant with something in hand, and the      *)
(* verbs over it.                                                          *)
(***************************************************************************)

(* What a machine became from `b' by verbs that open no group and claim no *)
(* pair.                                                                   *)
Kept(b, m) ==
  /\ MachineOK(b) /\ Grows(b, m) /\ m.groups = b.groups
  /\ \A k \in 1 .. Len(b.pairs) : m.pairs[k] = b.pairs[k]

(* Where an action stands between two verbs.                               *)
At(b, u, m, printed, s, h, x, c, X, Y) ==
  Placedly(m, printed, s, h) /\ Kept(b, m) /\ Fate(u, m, s, h, x, c, X, Y)

(* A promise whose fate the action may decide.                             *)
Free(u, b, p, Y) == (Overriding(u) \/ p \in Y) /\ (Getting(u) \/ ~Grouped(b, p))

(* Nothing done keeps everything.                                          *)
LEMMA KeptRefl ==
  ASSUME NEW m, MachineOK(m)
  PROVE  Kept(m, m)
  BY GrowsRefl DEF Kept

(* Two verbs in a row keep what each keeps.                                *)
LEMMA Onward ==
  ASSUME NEW b, NEW m, NEW printed, NEW s, NEW h, Placedly(m, printed, s, h), Kept(b, m),
         NEW n, Evolves(m, n, printed), n.groups = m.groups,
         \A k \in 1 .. Len(m.pairs) : n.pairs[k] = m.pairs[k]
  PROVE  Placedly(n, printed, s, h) /\ Kept(b, n)
  <1>1. Sound(m, printed) /\ Sound(n, printed) /\ Grows(m, n) /\ Grows(b, m)
    BY DEF Placedly, Evolves, Kept
  <1>2. b \in Machine /\ m \in Machine /\ n \in Machine
    BY <1>1 DEF Sound, MachineOK, Kept
  <1>3. Grows(b, n)
    BY <1>1, <1>2, GrowsTrans
  <1>4. Keeps(m, n)
    BY <1>1, EvolvesKeeps DEF Keeps
  <1>5. StackIn(n, s)
    BY <1>4, StackKeeps DEF Placedly
  <1>6. h \subseteq 1 .. Len(n.pairs)
    BY <1>4 DEF Placedly, Keeps
  <1>7. \A k \in 1 .. Len(b.pairs) : k \in 1 .. Len(m.pairs)
    <2>1. Len(b.pairs) \in Nat /\ Len(m.pairs) \in Nat /\ Len(b.pairs) <= Len(m.pairs)
      BY <1>1, FieldTypes DEF Kept, Sound, Grows
    <2> QED
      BY <2>1
  <1> QED
    BY <1>1, <1>3, <1>5, <1>6, <1>7 DEF Placedly, Kept

(* What holds at every point of an action.                                 *)
LEMMA AtFacts ==
  ASSUME NEW b, NEW u, NEW m, NEW printed, NEW s, NEW h, NEW x, NEW c, NEW X, NEW Y,
         At(b, u, m, printed, s, h, x, c, X, Y)
  PROVE  /\ Sound(m, printed) /\ MachineOK(m) /\ Placedly(m, printed, s, h)
         /\ Fate(u, m, s, h, x, c, X, Y) /\ Kept(b, m)
         /\ \A p : Grouped(m, p) <=> Grouped(b, p)
         /\ \A p : Grouped(b, p) => p \in Promise(m)
         /\ \A i \in 1 .. Len(s) : s[i].kind = "getter" => s[i].pair # 0
  <1>1. Placedly(m, printed, s, h) /\ Kept(b, m) /\ Fate(u, m, s, h, x, c, X, Y)
    BY DEF At
  <1>2. Sound(m, printed) /\ MachineOK(m)
    BY <1>1 DEF Placedly, Sound
  <1>3. \A p : Grouped(m, p) <=> Grouped(b, p)
    BY <1>1 DEF Kept, Grouped
  <1>4. \A p : Grouped(m, p) => p \in Promise(m)
    BY <1>2, Named DEF Grouped
  <1>5. \A i \in 1 .. Len(s) : s[i].kind = "getter" => s[i].pair # 0
    <2>1. \A i \in 1 .. Len(s) : s[i].kind = "getter" => s[i].pair \in 1 .. Len(m.pairs)
      BY <1>1 DEF Placedly, StackIn, FrameIn
    <2>2. Len(m.pairs) \in Nat
      BY <1>2, FieldTypes
    <2> QED
      BY <2>1, <2>2
  <1> QED
    BY <1>1, <1>2, <1>3, <1>4, <1>5

(* A promise decided.                                                      *)
LEMMA VSettle ==
  ASSUME NEW b, NEW u, NEW m, NEW printed, NEW s, NEW h, NEW x, NEW c, NEW X, NEW Y,
         At(b, u, m, printed, s, h, x, c, X, Y),
         NEW p \in Promise(m), NEW how \in Settled, NEW v, ValueIn(m, v), Passed(u, how, v),
         Free(u, b, p, Y), NEW n, n = Settle(m, p, how, v)
  PROVE  At(b, u, n, printed, s, h, x, c, X \ {p}, Y \ {p})
  <1>a. /\ Sound(m, printed) /\ MachineOK(m) /\ Placedly(m, printed, s, h)
        /\ Fate(u, m, s, h, x, c, X, Y) /\ Kept(b, m)
        /\ \A q : Grouped(m, q) <=> Grouped(b, q)
    BY AtFacts
  <1>1. CASE m.state[p] # "pending"
    <2>1. n = m
      BY <1>1 DEF Settle
    <2>2. \A q \in X : q \in X \ {p} \/ Given(u, m, s, h, x, c, q)
      BY <1>1 DEF Given
    <2>3. Fate(u, m, s, h, x, c, X \ {p}, Y \ {p})
      BY <1>a, <2>2, FateEases
    <2> QED
      BY <2>1, <2>3, <1>a DEF At
  <1>2. CASE m.state[p] = "pending"
    <2>1. v \in Value
      BY DEF ValueIn
    <2>2. SettlesAs(m, n, p, how, v)
      BY <1>2, <1>a, <2>1, SettleFields
    <2>3. Getting(u) \/ ~Grouped(m, p)
      BY <1>a DEF Free
    <2>4. Overriding(u) \/ p \in Y
      BY DEF Free
    <2>5. Fate(u, n, s, h, x, c, X \ {p}, Y \ {p})
      BY <1>a, <1>2, <2>2, <2>3, <2>4, FateSettles
    <2>6. Evolves(m, n, printed)
      BY <1>a, SettleEvolves
    <2>7. n.pairs = m.pairs /\ n.groups = m.groups
      BY <2>2 DEF SettlesAs
    <2>8. Placedly(n, printed, s, h) /\ Kept(b, n)
      BY <2>6, <2>7, <1>a, Onward
    <2> QED
      BY <2>5, <2>8 DEF At
  <1> QED
    BY <1>1, <1>2

(* Ordinary values may settle anything.                                    *)
LEMMA PlainPassed ==
  ASSUME NEW u, NEW how
  PROVE  /\ Passed(u, how, Made) /\ Passed(u, how, Undefined)
         /\ Made.tag = "plain" /\ Undefined.tag = "plain" /\ Undefined.tag \in Tags(u)
         /\ NotCallable.pair = 0 /\ Unpaired(NotCallable) /\ Unpaired(UserFn) /\ UserFn.pair = 0
  BY DEF Passed, Made, Undefined, Plain, Tags, Unpaired, NotCallable, UserFn

(* A promise rejected.                                                     *)
LEMMA VReject ==
  ASSUME NEW b, NEW u, NEW m, NEW printed, NEW s, NEW h, NEW x, NEW c, NEW X, NEW Y,
         At(b, u, m, printed, s, h, x, c, X, Y),
         NEW p \in Promise(m), NEW v, ValueIn(m, v), v.tag \in Tags(u),
         Free(u, b, p, Y), NEW n, n = Reject(m, p, v)
  PROVE  At(b, u, n, printed, s, h, x, c, X \ {p}, Y \ {p})
  <1>1. Passed(u, "rejected", v) /\ "rejected" \in Settled
    BY DEF Passed, Settled
  <1>2. n = Settle(m, p, "rejected", v)
    BY DEF Reject
  <1> QED
    BY <1>1, <1>2, VSettle

(* A reaction attached to what it waits on, or queued at once.             *)
LEMMA VAttach ==
  ASSUME NEW b, NEW u, NEW m, NEW printed, NEW s, NEW h, NEW x, NEW c, NEW X, NEW Y,
         At(b, u, m, printed, s, h, x, c, X, Y),
         NEW y \in Reaction, ReactionIn(m, y), y.kind # "member", y.value.tag \in Tags(u),
         JobShape(y),
         Unpaired(y.ful), Unpaired(y.rej),
         NEW p, p = y.target, Free(u, b, p, Y), NEW n, AttachesAs(m, n, y)
  PROVE  /\ At(b, u, n, printed, s, h, x, c, X \ {p}, Y \ {p})
         /\ n.state = m.state /\ n.pairs = m.pairs
  <1>a. /\ Sound(m, printed) /\ MachineOK(m) /\ Placedly(m, printed, s, h)
        /\ Fate(u, m, s, h, x, c, X, Y) /\ Kept(b, m)
        /\ \A q : Grouped(m, q) <=> Grouped(b, q)
        /\ \A i \in 1 .. Len(s) : s[i].kind = "getter" => s[i].pair # 0
    BY AtFacts
  <1>1. y.ful.pair = 0
    BY DEF Unpaired
  <1>2. ReactionShape(u, m, y)
    BY DEF ReactionShape, Paired
  <1>3. Getting(u) \/ ~Grouped(m, p)
    BY <1>a DEF Free
  <1>4. Overriding(u) \/ p \in Y
    BY DEF Free
  <1>5. y.ful.pair # 0 => ~Reached(m, h, x, y.ful.pair)
    BY <1>1
  <1>6. \A i \in 1 .. Len(s) : s[i].kind = "getter" => s[i].pair # y.ful.pair
    BY <1>1, <1>a
  <1>7. Fate(u, n, s, h, x, c, X \ {p}, Y \ {p})
    BY <1>a, <1>2, <1>3, <1>4, <1>5, <1>6, FateAttach
  <1>8. Evolves(m, n, printed) /\ n.state = m.state /\ n.pairs = m.pairs /\ n.groups = m.groups
    BY <1>a, AttachSound DEF Evolves
  <1>9. Placedly(n, printed, s, h) /\ Kept(b, n)
    BY <1>8, <1>a, Onward
  <1> QED
    BY <1>7, <1>8, <1>9 DEF At

(* A promise resolved with a value.                                        *)
LEMMA VResolve ==
  ASSUME NEW b, NEW u, NEW m, NEW printed, NEW s, NEW h, NEW x, NEW c, NEW X, NEW Y,
         At(b, u, m, printed, s, h, x, c, X, Y),
         NEW p \in Promise(m), NEW v, ValueIn(m, v), v.tag \in Tags(u),
         Free(u, b, p, Y), NEW n, n = Resolve(m, p, v)
  PROVE  At(b, u, n, printed, s, h, x, c, X \ {p}, Y \ {p})
  <1>a. Sound(m, printed) /\ MachineOK(m)
    BY AtFacts
  <1>1. CASE v.tag = "plain"
    <2>1. n = Settle(m, p, "fulfilled", v)
      BY <1>1 DEF Resolve
    <2>2. Passed(u, "fulfilled", v) /\ "fulfilled" \in Settled
      BY <1>1 DEF Passed, Settled
    <2> QED
      BY <2>1, <2>2, VSettle
  <1>2. CASE v.tag # "plain" /\ v = PromiseVal(p)
    <2>1. n = Reject(m, p, Made)
      BY <1>2 DEF Resolve
    <2>2. ValueIn(m, Made) /\ Made.tag \in Tags(u)
      BY PlainIn, PlainPassed DEF Passed
    <2> QED
      BY <2>1, <2>2, VReject
  <1>3. CASE v.tag # "plain" /\ v # PromiseVal(p)
    <2>1. PICK y : y = ThenableJob(v, p)
      OBVIOUS
    <2>2. n = Enqueue(m, y)
      BY <1>3, <2>1 DEF Resolve
    <2>3. Undefined \in Value /\ v \in Value /\ p \in Nat
      BY UndefinedValue, <1>a, FieldTypes DEF ValueIn, Promise
    <2>4. /\ y \in Reaction /\ y.source = 0 /\ y.kind = "thenable" /\ y.target = p
          /\ y.value = v /\ y.ful = NotCallable /\ y.rej = NotCallable
      BY <1>a, <2>1, <2>3, NotCallableIn DEF ThenableJob, Blank, Reaction, Settled
    <2>5. ReactionIn(m, y)
      BY <1>a, <2>4, NotCallableIn DEF ReactionIn
    <2>6. AttachesAs(m, n, y)
      BY <1>a, <2>2, <2>4, EnqueueFields
    <2>7. Unpaired(y.ful) /\ Unpaired(y.rej)
      BY <2>4, PlainPassed
    <2>8. y.kind # "member"
      BY <2>4
    <2>9. JobShape(y)
      BY <2>4, <1>3 DEF JobShape
    <2>10. y.value.tag \in Tags(u) /\ p = y.target
      BY <2>4
    <2> QED
      BY <2>4, <2>5, <2>6, <2>7, <2>8, <2>9, <2>10, VAttach
  <1> QED
    BY <1>1, <1>2, <1>3

(* A settlement passed through.                                            *)
LEMMA VSettleThrough ==
  ASSUME NEW b, NEW u, NEW m, NEW printed, NEW s, NEW h, NEW x, NEW c, NEW X, NEW Y,
         At(b, u, m, printed, s, h, x, c, X, Y),
         NEW p \in Promise(m), NEW v, ValueIn(m, v), v.tag \in Tags(u),
         Free(u, b, p, Y), NEW how, NEW n, n = SettleThrough(m, p, how, v)
  PROVE  At(b, u, n, printed, s, h, x, c, X \ {p}, Y \ {p})
  <1>1. CASE how = "fulfilled"
    <2>1. n = Resolve(m, p, v)
      BY <1>1 DEF SettleThrough
    <2> QED
      BY <2>1, VResolve
  <1>2. CASE how # "fulfilled"
    <2>1. n = Reject(m, p, v)
      BY <1>2 DEF SettleThrough
    <2> QED
      BY <2>1, VReject
  <1> QED
    BY <1>1, <1>2

(* A promise made.                                                         *)
LEMMA VCreate ==
  ASSUME NEW b, NEW u, NEW m, NEW printed, NEW s, NEW h, NEW x, NEW c, NEW X, NEW Y,
         At(b, u, m, printed, s, h, x, c, X, Y),
         NEW n, n = Create(m), NEW p, p = Newest(m) + 1
  PROVE  /\ At(b, u, n, printed, s, h, x, c, X \cup {p}, Y \cup {p})
         /\ p \in Promise(n) /\ p \notin Promise(m) /\ Newest(n) = p
         /\ n.state[p] = "pending" /\ ~Grouped(b, p)
         /\ n.pairs = m.pairs /\ n.groups = m.groups /\ n.reactions = m.reactions
         /\ n.taken = m.taken
  <1>a. /\ Sound(m, printed) /\ MachineOK(m) /\ Placedly(m, printed, s, h)
        /\ Fate(u, m, s, h, x, c, X, Y) /\ Kept(b, m)
        /\ \A q : Grouped(b, q) => q \in Promise(m)
    BY AtFacts
  <1>1. Fate(u, n, s, h, x, c, X \cup {p}, Y \cup {p})
    BY <1>a, FateCreate
  <1>2. /\ n.state = Append(m.state, "pending") /\ n.pairs = m.pairs /\ n.groups = m.groups
        /\ n.reactions = m.reactions /\ n.taken = m.taken
    BY <1>a, CreateFields
  <1>3. Evolves(m, n, printed)
    BY <1>a, CreateEvolves
  <1>4. Placedly(n, printed, s, h) /\ Kept(b, n)
    BY <1>a, <1>2, <1>3, Onward
  <1>5. p \in Promise(n) /\ Newest(n) = p
    BY <1>a, CreateEvolves
  <1>6. p \notin Promise(m) /\ n.state[p] = "pending"
    <2>1. /\ m.state \in Seq(State) /\ Len(m.state) \in Nat /\ "pending" \in State
      BY <1>a, FieldTypes DEF State
    <2>2. p = Len(m.state) + 1
      BY DEF Newest
    <2> QED
      BY <2>1, <2>2, <1>2, AppendProperties DEF Promise
  <1>7. ~Grouped(b, p)
    BY <1>6, <1>a
  <1> QED
    BY <1>1, <1>2, <1>4, <1>5, <1>6, <1>7 DEF At

(* The caller may promise less at any point.                               *)
LEMMA VEases ==
  ASSUME NEW b, NEW u, NEW m, NEW printed, NEW s, NEW h, NEW x, NEW c, NEW X, NEW Y,
         At(b, u, m, printed, s, h, x, c, X, Y),
         NEW W, \A p \in X : p \in W \/ Given(u, m, s, h, x, c, p),
         NEW Z, Overriding(u) \/ \A p \in Promise(m) : p \in Z => p \in Y
  PROVE  At(b, u, m, printed, s, h, x, c, W, Z)
  BY FateEases DEF At

(* The same, by sets.                                                      *)
LEMMA AtWithin ==
  ASSUME NEW b, NEW u, NEW m, NEW printed, NEW s, NEW h, NEW x, NEW c, NEW X, NEW Y,
         At(b, u, m, printed, s, h, x, c, X, Y),
         NEW W, X \subseteq W, NEW Z, \A p \in Promise(m) : p \in Z => p \in Y
  PROVE  At(b, u, m, printed, s, h, x, c, W, Z)
  BY VEases

(* A promise made and resolved, or rejected, at once.                      *)
LEMMA VMade ==
  ASSUME NEW b, NEW u, NEW m, NEW printed, NEW s, NEW h, NEW x, NEW c, NEW X, NEW Y,
         At(b, u, m, printed, s, h, x, c, X, Y), Y \subseteq Promise(m),
         NEW v, ValueIn(m, v), v.tag \in Tags(u), NEW p, p = Newest(m) + 1,
         NEW n, n = Resolve(Create(m), p, v) \/ n = Reject(Create(m), p, v)
  PROVE  At(b, u, n, printed, s, h, x, c, X, Y)
  <1>1. PICK o : o = Create(m)
    OBVIOUS
  <1>2. /\ At(b, u, o, printed, s, h, x, c, X \cup {p}, Y \cup {p})
        /\ p \in Promise(o) /\ p \notin Promise(m) /\ ~Grouped(b, p)
    BY <1>1, VCreate
  <1>3. Free(u, b, p, Y \cup {p})
    BY <1>2 DEF Free
  <1>4. ValueIn(o, v)
    <2>1. Sound(m, printed)
      BY AtFacts
    <2>2. Evolves(m, o, printed)
      BY <2>1, <1>1, CreateEvolves
    <2> QED
      BY <2>1, <2>2, EvolvesKeeps
  <1>5. n = Resolve(o, p, v) \/ n = Reject(o, p, v)
    BY <1>1
  <1>6. At(b, u, n, printed, s, h, x, c, (X \cup {p}) \ {p}, (Y \cup {p}) \ {p})
    <2>1. CASE n = Resolve(o, p, v)
      BY <2>1, <1>2, <1>3, <1>4, VResolve
    <2>2. CASE n = Reject(o, p, v)
      BY <2>2, <1>2, <1>3, <1>4, VReject
    <2> QED
      BY <1>5, <2>1, <2>2
  <1>7. (X \cup {p}) \ {p} \subseteq X
    OBVIOUS
  <1>8. \A q : q \in Y => q \in (Y \cup {p}) \ {p}
    BY <1>2
  <1> QED
    BY <1>6, <1>7, <1>8, AtWithin

(* A value made into something to wait for.                                *)
LEMMA VWaitable ==
  ASSUME NEW b, NEW u, NEW m, NEW printed, NEW s, NEW h, NEW x, NEW c, NEW X, NEW Y,
         At(b, u, m, printed, s, h, x, c, X, Y), Y \subseteq Promise(m),
         NEW v, ValueIn(m, v), v.tag \in Tags(u), NEW n, n = Waitable(m, v)
  PROVE  At(b, u, n, printed, s, h, x, c, X, Y)
  <1>1. CASE v.tag = "promise"
    BY <1>1 DEF Waitable
  <1>2. CASE v.tag # "promise"
    <2>1. n = Resolve(Create(m), Newest(m) + 1, v)
      BY <1>2 DEF Waitable
    <2> QED
      BY <2>1, VMade
  <1> QED
    BY <1>1, <1>2

(* A reaction attached to a promise.                                       *)
LEMMA VReact ==
  ASSUME NEW b, NEW u, NEW m, NEW printed, NEW s, NEW h, NEW x, NEW c, NEW X, NEW Y,
         At(b, u, m, printed, s, h, x, c, X, Y),
         NEW y \in Reaction, ReactionIn(m, y), y.source \in Promise(m),
         y.kind \notin {"member", "thenable"}, y.value.tag \in Tags(u),
         Unpaired(y.ful), Unpaired(y.rej),
         NEW p, p = y.target, Free(u, b, p, Y), NEW n, n = React(m, y)
  PROVE  At(b, u, n, printed, s, h, x, c, X \ {p}, Y \ {p})
  <1>1. MachineOK(m)
    BY AtFacts
  <1>2. AttachesAs(m, n, y)
    BY <1>1, ReactFields
  <1>3. JobShape(y) /\ y.kind # "member"
    BY DEF JobShape
  <1> QED
    BY <1>2, <1>3, VAttach

(* then, catch and finally.                                                *)
LEMMA VThen ==
  ASSUME NEW b, NEW u, NEW m, NEW printed, NEW s, NEW h, NEW x, NEW c, NEW X, NEW Y,
         At(b, u, m, printed, s, h, x, c, X, Y), Y \subseteq Promise(m),
         NEW q \in Promise(m), NEW f \in Handler, NEW r \in Handler, NEW o, o = Create(m),
         NEW n, \/ n = React(o, JsReaction(q, Newest(o), f, r))
                \/ n = React(o, FinallyReaction(q, Newest(o), f))
  PROVE  At(b, u, n, printed, s, h, x, c, X, Y)
  <1>1. PICK p : p = Newest(m) + 1
    OBVIOUS
  <1>2. /\ At(b, u, o, printed, s, h, x, c, X \cup {p}, Y \cup {p})
        /\ p \in Promise(o) /\ p \notin Promise(m) /\ ~Grouped(b, p) /\ Newest(o) = p
    BY <1>1, VCreate
  <1>3. Free(u, b, p, Y \cup {p})
    BY <1>2 DEF Free
  <1>4. MachineOK(m) /\ Sound(m, printed) /\ MachineOK(o)
    BY <1>2, AtFacts
  <1>5. q \in Promise(o)
    BY <1>4, CreateEvolves, EvolvesKeeps
  <1>6. q \in Nat /\ p \in Nat
    BY <1>2, <1>5, <1>4, FieldTypes DEF Promise
  <1>7. /\ f \in Callable /\ r \in Callable /\ CallableIn(o, f) /\ CallableIn(o, r)
        /\ CallableIn(o, NotCallable) /\ Unpaired(f) /\ Unpaired(r) /\ Unpaired(NotCallable)
    BY <1>4, NotCallableIn, PlainPassed DEF Handler
  <1>8. PICK y : (y = JsReaction(q, p, f, r) \/ y = FinallyReaction(q, p, f)) /\ n = React(o, y)
    BY <1>2
  <1>9. /\ y \in Reaction /\ y.source = q /\ y.target = p /\ y.kind \in {"js", "finally"}
        /\ y.ful = f /\ y.rej \in {r, NotCallable} /\ y.value = Undefined
    BY <1>6, <1>7, <1>8, HandlerFields
  <1>10. ReactionIn(o, y)
    BY <1>2, <1>5, <1>7, <1>9, PlainIn DEF ReactionIn
  <1>11. /\ y.source \in Promise(o) /\ y.kind \notin {"member", "thenable"}
         /\ y.value.tag \in Tags(u) /\ Unpaired(y.ful) /\ Unpaired(y.rej) /\ p = y.target
    BY <1>5, <1>7, <1>9, PlainPassed
  <1>12. At(b, u, n, printed, s, h, x, c, (X \cup {p}) \ {p}, (Y \cup {p}) \ {p})
    BY <1>2, <1>3, <1>8, <1>9, <1>10, <1>11, VReact
  <1>13. (X \cup {p}) \ {p} \subseteq X
    OBVIOUS
  <1>14. \A z : z \in Y => z \in (Y \cup {p}) \ {p}
    BY <1>2
  <1> QED
    BY <1>12, <1>13, <1>14, AtWithin

(* An answer that waits for a value: `finally' and `await'.                *)
LEMMA VAwait ==
  ASSUME NEW b, NEW u, NEW m, NEW printed, NEW s, NEW h, NEW x, NEW c, NEW X, NEW Y,
         At(b, u, m, printed, s, h, x, c, X, Y), Y \subseteq Promise(m),
         NEW v, ValueIn(m, v), v.tag \in Tags(u), NEW how \in Settled,
         NEW w, ValueIn(m, w), w.tag \in Tags(u),
         NEW d \in Promise(m), Free(u, b, d, Y), NEW o, o = Waitable(m, v),
         NEW n, \/ n = React(o, RestoreReaction(WaitedOn(m, v), d, how, w))
                \/ n = React(o, FrameReaction(WaitedOn(m, v), d))
  PROVE  At(b, u, n, printed, s, h, x, c, X \ {d}, Y \ {d})
  <1>1. PICK q : q = WaitedOn(m, v)
    OBVIOUS
  <1>2. At(b, u, o, printed, s, h, x, c, X, Y)
    BY VWaitable
  <1>3. Sound(m, printed) /\ MachineOK(o)
    BY <1>2, AtFacts
  <1>4. Evolves(m, o, printed) /\ q \in Promise(o)
    BY <1>1, <1>3, WaitableEvolves
  <1>5. d \in Promise(o) /\ ValueIn(o, w)
    BY <1>3, <1>4, EvolvesKeeps
  <1>6. q \in Nat /\ d \in Nat /\ w \in Value
    BY <1>3, <1>4, <1>5, FieldTypes DEF Promise, ValueIn
  <1>7. PICK y : (y = RestoreReaction(q, d, how, w) \/ y = FrameReaction(q, d)) /\ n = React(o, y)
    BY <1>1
  <1>8. /\ y \in Reaction /\ y.source = q /\ y.target = d /\ y.kind \in {"restore", "frame"}
        /\ y.ful = NotCallable /\ y.rej = NotCallable /\ y.value \in {w, Undefined}
    BY <1>6, <1>7, WaitFields
  <1>9. ReactionIn(o, y)
    BY <1>3, <1>4, <1>5, <1>8, NotCallableIn, PlainIn DEF ReactionIn
  <1>10. /\ y.source \in Promise(o) /\ y.kind \notin {"member", "thenable"}
         /\ y.value.tag \in Tags(u) /\ Unpaired(y.ful) /\ Unpaired(y.rej) /\ d = y.target
    BY <1>4, <1>8, PlainPassed
  <1> QED
    BY <1>2, <1>7, <1>8, <1>9, <1>10, VReact

(* A settler called.  What it leaves of the machine it came from is the    *)
(* machine with the pair spent.                                            *)

(* An unspent pair is the only claim on its promise.                       *)
LEMMA PairAlone ==
  ASSUME NEW u, NEW m, NEW s, NEW h, NEW x, NEW c, NEW X, NEW Y, MachineOK(m),
         Fate(u, m, s, h, x, c, X, Y), NEW k \in 1 .. Len(m.pairs), NEW p, PairFor(m, k, p)
  PROVE  Overriding(u) \/ p \notin Y
  <1>1. p \in Promise(m)
    BY Named DEF PairFor
  <1>2. <<"pair", k>> \in Claims(m, s, p)
    BY DEF Claims
  <1>3. Overriding(u) \/ Sole(m, s, Y)
    BY DEF Fate
  <1> QED
    BY <1>1, <1>2, <1>3, Zenon DEF Sole

(* A pair claimed: its promise is the claimant's to answer for.            *)
LEMMA VSpend ==
  ASSUME NEW u, NEW m, NEW printed, NEW s, NEW h, NEW x, NEW c, NEW X, NEW Y,
         Placedly(m, printed, s, h), Fate(u, m, s, h, x, c, X, Y),
         NEW k \in 1 .. Len(m.pairs), NEW p, PairFor(m, k, p),
         Ungot(s, k),
         NEW n, n = Spend(m, k)
  PROVE  /\ At(n, u, n, printed, s, h, x, c, X \cup {p}, Y \cup {p})
         /\ Free(u, n, p, Y \cup {p}) /\ p \in Promise(n)
  <1>1. Sound(m, printed) /\ MachineOK(m)
    BY DEF Placedly, Sound
  <1>2. n = [m EXCEPT !.pairs = [@ EXCEPT ![k].spent = TRUE]]
    BY DEF Spend
  <1>3. Fate(u, n, s, h, x, c, X \cup {p}, Y \cup {p})
    BY FatePairSpent
  <1>4. Evolves(m, n, printed) /\ n.groups = m.groups /\ n.state = m.state
    <2>1. Evolves(m, n, printed) /\ n.state = m.state
      BY <1>1, <1>2, ClaimSound
    <2> QED
      BY <1>1, <1>2, <2>1 DEF MachineOK, Machine
  <1>5. Placedly(n, printed, s, h)
    <2>1. Keeps(m, n)
      BY <1>1, <1>4, EvolvesKeeps DEF Keeps
    <2>2. StackIn(n, s)
      BY <2>1, StackKeeps DEF Placedly
    <2> QED
      BY <1>4, <2>1, <2>2 DEF Placedly, Keeps, Evolves
  <1>6. Kept(n, n)
    BY <1>5, KeptRefl DEF Placedly, Sound
  <1>7. p \in Promise(n)
    BY <1>1, <1>4, Named DEF PairFor, Promise
  <1>8. Getting(u) \/ ~Grouped(n, p)
    <2>1. Getting(u) \/ Owned(m, s)
      BY DEF Fate
    <2>2. Owned(m, s) => ~Grouped(m, p)
      BY Zenon DEF Owned, Untargeted, Grouped
    <2> QED
      BY <2>1, <2>2, <1>4 DEF Grouped
  <1> QED
    BY <1>3, <1>5, <1>6, <1>7, <1>8 DEF At, Free

(* A settler called whose pair is unspent.                                 *)
LEMMA VCallSettler ==
  ASSUME NEW u, NEW m, NEW printed, NEW s, NEW h, NEW x, NEW c, NEW X, NEW Y,
         Placedly(m, printed, s, h), Fate(u, m, s, h, x, c, X, Y),
         NEW f, NEW k, k = f.pair, k \in 1 .. Len(m.pairs), ~m.pairs[k].spent,
         NEW v, ValueIn(m, v), v.tag \in Tags(u),
         Ungot(s, k),
         NEW n, n = CallSettler(m, f, v)
  PROVE  At(Spend(m, k), u, n, printed, s, h, x, c, X, Y)
  <1>1. PICK o : o = Spend(m, k)
    OBVIOUS
  <1>2. PICK p : p = m.pairs[k].promise
    OBVIOUS
  <1>3. PairFor(m, k, p)
    BY <1>2 DEF PairFor
  <1>4. /\ At(o, u, o, printed, s, h, x, c, X \cup {p}, Y \cup {p})
        /\ Free(u, o, p, Y \cup {p}) /\ p \in Promise(o)
    <2>1. /\ Placedly(m, printed, s, h) /\ Fate(u, m, s, h, x, c, X, Y)
          /\ k \in 1 .. Len(m.pairs)
          /\ Ungot(s, k)
      OBVIOUS
    <2> QED
      BY ONLY <1>1, <1>3, <2>1, VSpend
  <1>5. n = IF f.kind = "resolve" THEN Resolve(o, p, v) ELSE Reject(o, p, v)
    BY <1>1, <1>2 DEF CallSettler, Spend
  <1>6. ValueIn(o, v)
    <2>1. Sound(m, printed)
      BY DEF Placedly
    <2>2. Evolves(m, o, printed)
      BY <2>1, <1>1, ClaimSound DEF Spend
    <2> QED
      BY <2>1, <2>2, EvolvesKeeps
  <1>7. At(o, u, n, printed, s, h, x, c, (X \cup {p}) \ {p}, (Y \cup {p}) \ {p})
    <2>1. CASE f.kind = "resolve"
      <3>1. n = Resolve(o, p, v)
        BY <2>1, <1>5
      <3> QED
        BY <3>1, <1>4, <1>6, VResolve
    <2>2. CASE f.kind # "resolve"
      <3>1. n = Reject(o, p, v)
        BY <2>2, <1>5
      <3> QED
        BY <3>1, <1>4, <1>6, VReject
    <2> QED
      BY <2>1, <2>2
  <1>8. \A q \in (X \cup {p}) \ {p} : q \in X \/ Given(u, n, s, h, x, c, q)
    OBVIOUS
  <1>9. Overriding(u) \/ \A q \in Promise(n) : q \in Y => q \in (Y \cup {p}) \ {p}
    BY <1>3, PairAlone DEF Placedly, Sound
  <1>10. At(o, u, n, printed, s, h, x, c, X, Y)
    BY <1>7, <1>8, <1>9, VEases
  <1> QED
    BY <1>1, <1>10

(* A reaction waits to hand the outcome of q over to p.                    *)
Handing(n, p, q) == \E k \in 1 .. Len(n.pairs) :
  /\ n.pairs[k].promise = p /\ ~n.pairs[k].spent
  /\ \E j \in Waiting(n) : PairOf(n, j) = k /\ Source(n, j) = q

(* A promise adopts another: a pair, whose settlers wait for it.           *)
LEMMA VAdopt ==
  ASSUME NEW b, NEW u, NEW m, NEW printed, NEW s, NEW h, NEW x, NEW c, NEW X, NEW Y,
         At(b, u, m, printed, s, h, x, c, X, Y), Y \subseteq Promise(m),
         NEW p \in Promise(m), NEW q \in Promise(m), Free(u, b, p, Y),
         NEW n, n = AdoptPromise(m, p, q)
  PROVE  /\ At(b, u, n, printed, s, h, x, c, X \ {p}, Y \ {p})
         /\ Handing(n, p, q)
  <1>a. /\ Sound(m, printed) /\ MachineOK(m) /\ Placedly(m, printed, s, h)
        /\ Fate(u, m, s, h, x, c, X, Y) /\ Kept(b, m)
        /\ \A z : Grouped(m, z) <=> Grouped(b, z)
    BY AtFacts
  <1>1. PICK a : a = OpenPair(m, p)
    OBVIOUS
  <1>2. PICK k : k = Len(m.pairs) + 1
    OBVIOUS
  <1>3. /\ Fate(u, a, s, h, x, c, X, Y \ {p})
        /\ Fresh(a, s, h, x, k, p)
    <2>1. Overriding(u) \/ p \in Y
      BY DEF Free
    <2>2. Getting(u) \/ ~Grouped(m, p)
      BY <1>a DEF Free
    <2>3. p \in Promise(m) /\ Placedly(m, printed, s, h) /\ Fate(u, m, s, h, x, c, X, Y)
      BY <1>a
    <2> QED
      BY ONLY <1>1, <1>2, <2>1, <2>2, <2>3, FatePairOpened
  <1>4. /\ Evolves(m, a, printed) /\ a.state = m.state /\ a.reactions = m.reactions
        /\ Len(a.pairs) = Len(m.pairs) + 1
    BY <1>a, <1>1, OpenPairSound
  <1>5. a.groups = m.groups /\ \A i \in 1 .. Len(m.pairs) : a.pairs[i] = m.pairs[i]
    <2>1. a.groups = m.groups /\ a.pairs = Append(m.pairs, [promise |-> p, spent |-> FALSE])
      BY <1>a, <1>1 DEF OpenPair, MachineOK, Machine
    <2>2. p \in Nat /\ m.pairs \in Seq(Pair)
      BY <1>a, FieldTypes DEF Promise
    <2>3. [promise |-> p, spent |-> FALSE] \in Pair
      BY <2>2 DEF Pair
    <2> QED
      BY <2>1, <2>2, <2>3, AppendProperties
  <1>6. At(b, u, a, printed, s, h, x, c, X, Y \ {p})
    BY <1>a, <1>3, <1>4, <1>5, Onward DEF At
  <1>7. PICK o : o = Create(a)
    OBVIOUS
  <1>8. PICK d : d = Newest(a) + 1
    OBVIOUS
  <1>9. /\ At(b, u, o, printed, s, h, x, c, X \cup {d}, (Y \ {p}) \cup {d})
        /\ d \in Promise(o) /\ d \notin Promise(a) /\ Newest(o) = d /\ ~Grouped(b, d)
        /\ o.pairs = a.pairs /\ o.groups = a.groups /\ o.reactions = a.reactions
        /\ o.taken = a.taken
    BY <1>6, <1>7, <1>8, VCreate
  <1>10. /\ Sound(o, printed) /\ MachineOK(o) /\ Placedly(o, printed, s, h) /\ Kept(b, o)
         /\ Fate(u, o, s, h, x, c, X \cup {d}, (Y \ {p}) \cup {d})
         /\ \A z : Grouped(o, z) <=> Grouped(b, z)
    BY <1>9, AtFacts
  <1>11. PairFor(o, k, p) /\ ~Reached(o, h, x, k) /\ k \in 1 .. Len(o.pairs)
    <2>1. Due(o, x) = Due(a, x) /\ \A r : PairOf(o, r) = PairOf(a, r)
      BY <1>9 DEF Due, ReactionId, PairOf
    <2> QED
      BY <2>1, <1>3, <1>9 DEF PairFor, Reached, Fresh
  <1>12. q \in Promise(o) /\ q \in Nat /\ d \in Nat /\ k \in Nat /\ k # 0 /\ k \in 0 .. Len(o.pairs)
    <2>1. q \in Promise(a)
      BY <1>4 DEF Promise
    <2>2. MachineOK(a) /\ Sound(a, printed)
      BY <1>6, AtFacts
    <2>3. q \in Promise(o)
      BY <2>1, <2>2, <1>7, CreateEvolves, EvolvesKeeps
    <2>4. Len(o.state) \in Nat /\ Len(o.pairs) \in Nat
      BY <1>10, FieldTypes
    <2> QED
      BY <2>3, <2>4, <1>9, <1>11 DEF Promise
  <1>13. PICK y : y = JsReaction(q, d, ResolveFn(k), RejectFn(k))
    OBVIOUS
  <1>14. /\ ResolveFn(k) \in Callable /\ RejectFn(k) \in Callable
         /\ CallableIn(o, ResolveFn(k)) /\ CallableIn(o, RejectFn(k)) /\ ResolveFn(k).pair = k
    BY <1>12 DEF ResolveFn, RejectFn, Callable, CallableIn
  <1>15. /\ y \in Reaction /\ y.source = q /\ y.target = d /\ y.kind = "js"
         /\ y.ful = ResolveFn(k) /\ y.rej = RejectFn(k) /\ y.value = Undefined
    BY <1>12, <1>13, <1>14, HandlerFields
  <1>16. n = React(o, y)
    <2>1. o.pairs = a.pairs /\ Len(a.pairs) = k
      BY <1>2, <1>4, <1>9
    <2>2. NewestPair(o) = k
      BY <2>1 DEF NewestPair
    <2> QED
      BY <2>2, <1>1, <1>7, <1>9, <1>13 DEF AdoptPromise
  <1>17. AttachesAs(o, n, y)
    BY <1>10, <1>12, <1>15, <1>16, ReactFields
  <1>18. ReactionIn(o, y)
    BY <1>9, <1>12, <1>14, <1>15, PlainIn DEF ReactionIn
  <1>19. Fate(u, n, s, h, x, c, (X \cup {d}) \ {d}, ((Y \ {p}) \cup {d}) \ {d})
    <2>1. ReactionShape(u, o, y)
      BY <1>11, <1>14, <1>15, PlainPassed DEF ReactionShape, JobShape, Paired
    <2>2. y.kind # "member" /\ y.ful.pair = k /\ y.target = d
      BY <1>14, <1>15
    <2>3. Overriding(u) \/ y.target \in (Y \ {p}) \cup {d}
      BY <2>2
    <2>4. Getting(u) \/ ~Grouped(o, y.target)
      BY <2>2, <1>9, <1>10
    <2>5. y.ful.pair # 0 => ~Reached(o, h, x, y.ful.pair)
      BY <2>2, <1>11
    <2>6. \A i \in 1 .. Len(s) : s[i].kind = "getter" => s[i].pair # y.ful.pair
      BY <2>2, <1>3 DEF Fresh, Ungot
    <2>7. Fate(u, n, s, h, x, c, (X \cup {d}) \ {y.target}, ((Y \ {p}) \cup {d}) \ {y.target})
      BY <1>10, <1>15, <1>17, <2>1, <2>2, <2>3, <2>4, <2>5, <2>6, FateAttach
    <2> QED
      BY <2>2, <2>7
  <1>20. Evolves(o, n, printed) /\ n.pairs = o.pairs /\ n.groups = o.groups
    BY <1>10, <1>15, <1>17, <1>18, AttachSound DEF Evolves
  <1>21. At(b, u, n, printed, s, h, x, c, (X \cup {d}) \ {d}, ((Y \ {p}) \cup {d}) \ {d})
    BY <1>10, <1>19, <1>20, Onward DEF At
  <1>22. PICK w : w = Len(o.reactions) + 1
    OBVIOUS
  <1>23. w \in Waiting(n) /\ w \in Due(n, x) /\ PairOf(n, w) = k /\ Source(n, w) = q
    <2>1. InHand(o, x, c)
      BY <1>10 DEF Fate
    <2>2. Attached(o, n, y, w, x)
      BY <1>10, <1>15, <1>17, <1>22, <2>1, AttachAdds
    <2> QED
      BY <2>2, <1>14, <1>15 DEF Attached, PairOf, Source
  <1>24. PairFor(n, k, p) /\ k \in 1 .. Len(n.pairs)
    BY <1>11, <1>20 DEF PairFor
  <1>25. Live(n, s, h, x, c, p)
    BY <1>23, <1>24 DEF Live, Reached
  <1>26. \A z \in (X \cup {d}) \ {d} : z \in X \ {p} \/ Given(u, n, s, h, x, c, z)
    BY <1>25 DEF Given
  <1>27. \A z : z \in Y \ {p} => z \in ((Y \ {p}) \cup {d}) \ {d}
    <2>1. d \notin Promise(m)
      BY <1>4, <1>9 DEF Promise
    <2> QED
      BY <2>1
  <1>28. At(b, u, n, printed, s, h, x, c, X \ {p}, Y \ {p})
    BY <1>21, <1>26, <1>27, VEases
  <1>29. Handing(n, p, q)
    BY <1>23, <1>24 DEF PairFor, Handing
  <1> QED
    BY <1>28, <1>29

-----------------------------------------------------------------------------
(***************************************************************************)
(* A member that fills its slot, and one that decides.                     *)
(***************************************************************************)

(* The drain has member `r' of group `g' in hand, and nothing else.        *)
Turn(u, m, printed, s, h, r, g) ==
  /\ Placedly(m, printed, s, h) /\ Fate(u, m, s, h, r, 0, {}, {})
  /\ r \in m.taken /\ g \in 1 .. Len(m.groups) /\ MemberOf(m, r, g)

(* What is known when a member of a group reports.                         *)
LEMMA TurnFacts ==
  ASSUME NEW u, NEW m, NEW printed, NEW s, NEW h, NEW r, NEW g,
         Turn(u, m, printed, s, h, r, g), NEW q, q = Source(m, r)
  PROVE  /\ Sound(m, printed) /\ MachineOK(m)
         /\ r \in ReactionId(m) /\ q \in Promise(m) /\ m.state[q] \in Settled
         /\ ValueIn(m, m.value[q]) /\ Passed(u, m.state[q], m.value[q])
         /\ m.reactions[r].slot \in 1 .. Len(m.groups[g].values)
         /\ m.groups[g].result \in Promise(m)
  <1>1. Sound(m, printed) /\ MachineOK(m)
    BY DEF Turn, Placedly, Sound
  <1>2. r \in ReactionId(m) /\ m.reactions[r].kind = "member" /\ m.reactions[r].group = g
    BY <1>1, Named DEF Turn, MemberOf
  <1>3. q \in Promise(m) /\ m.groups[g].result \in Promise(m)
    BY <1>1, <1>2, Named DEF Turn
  <1>4. ~Parked(m, r)
    BY <1>1 DEF Turn, Sound, Placed, RunInOrder
  <1>5. m.state[q] # "pending"
    <2>1. q # 0
      BY <1>3 DEF Promise
    <2> QED
      BY <2>1, <1>4 DEF Parked
  <1>6. m.state[q] \in Settled
    <2>1. m.state[q] \in State
      BY <1>1, <1>3, FieldTypes, ElementOfSeq DEF Promise
    <2> QED
      BY <2>1, <1>5 DEF State
  <1>7. ValueIn(m, m.value[q])
    BY <1>1, <1>3 DEF MachineOK
  <1>8. Passed(u, m.state[q], m.value[q])
    BY <1>3 DEF Turn, Fate, Shape, ValuesPass, Passed
  <1>9. m.reactions[r].slot \in 1 .. Len(m.groups[g].values)
    BY <1>1, <1>2 DEF MachineOK, ReactionIn
  <1> QED
    BY <1>1, <1>2, <1>3, <1>6, <1>7, <1>8, <1>9

(* A slot filled.                                                          *)
FillsAs(m, n, g, i, v) ==
  /\ n.state = m.state /\ n.value = m.value /\ n.reactions = m.reactions
  /\ n.taken = m.taken /\ n.pairs = m.pairs /\ Len(n.groups) = Len(m.groups)
  /\ \A f \in 1 .. Len(m.groups) : f # g => n.groups[f] = m.groups[f]
  /\ n.groups[g].result = m.groups[g].result /\ n.groups[g].kind = m.groups[g].kind
  /\ \A j \in 1 .. Len(m.groups[g].values) :
       n.groups[g].values[j] = IF j = i THEN v ELSE m.groups[g].values[j]
  /\ m.groups[g].remaining \in Nat
  /\ n.groups[g].remaining =
       IF m.groups[g].remaining = 0 THEN 0 ELSE m.groups[g].remaining - 1

(* What fill (group.rs) changes.                                           *)
LEMMA FillFields ==
  ASSUME NEW m, MachineOK(m), NEW g \in 1 .. Len(m.groups),
         NEW i \in 1 .. Len(m.groups[g].values), NEW v \in Value,
         NEW n, n = Fill(m, g, i, v)
  PROVE  FillsAs(m, n, g, i, v)
  <1>t. m.groups \in Seq(Group) /\ Len(m.groups) \in Nat
    BY FieldTypes
  <1>0. PICK x : x = m.groups[g]
    OBVIOUS
  <1>1. x \in Group /\ x.values \in Seq(Value) /\ x.remaining \in Nat
    <2>1. x \in Group
      BY <1>0, <1>t, ElementOfSeq
    <2> QED
      BY <2>1 DEF Group
  <1>v. /\ [x.values EXCEPT ![i] = v] \in Seq(Value)
        /\ \A j \in 1 .. Len(x.values) : [x.values EXCEPT ![i] = v][j] = IF j = i THEN v ELSE x.values[j]
    BY <1>0, <1>1, ExceptSeq
  <1>2. PICK left \in Nat : left = IF x.remaining = 0 THEN 0 ELSE x.remaining - 1
    BY <1>1
  <1>3. PICK y : y = [x EXCEPT !.values = [x.values EXCEPT ![i] = v], !.remaining = left]
    OBVIOUS
  <1>4. /\ y \in Group /\ y.result = x.result /\ y.kind = x.kind /\ y.remaining = left
        /\ y.values = [x.values EXCEPT ![i] = v]
    BY <1>1, <1>2, <1>3, <1>v DEF Group
  <1>f. /\ n.state = m.state /\ n.value = m.value /\ n.reactions = m.reactions
        /\ n.taken = m.taken /\ n.pairs = m.pairs /\ n.groups = [m.groups EXCEPT ![g] = y]
    <2>1. n = [m EXCEPT !.groups = [m.groups EXCEPT ![g] = y]]
      BY <1>0, <1>2, <1>3 DEF Fill
    <2> QED
      BY <2>1 DEF MachineOK, Machine
  <1>5. /\ Len(n.groups) = Len(m.groups)
        /\ \A j \in 1 .. Len(m.groups) : n.groups[j] = IF j = g THEN y ELSE m.groups[j]
    BY <1>4, <1>f, <1>t, ExceptSeq
  <1>6. n.groups[g] = y
    BY <1>5
  <1> QED
    BY <1>0, <1>1, <1>2, <1>4, <1>5, <1>6, <1>f, <1>v DEF FillsAs

(* Filling a slot is a report of that group alone.                         *)
LEMMA FillReports ==
  ASSUME NEW m, NEW n, NEW g, NEW i, NEW v, FillsAs(m, n, g, i, v), NEW u
  PROVE  Reported(m, n, g) /\ (ValuesPass(u, m) => ValuesPass(u, n))
  BY DEF FillsAs, Reported, ValuesPass, Promise

(* What a member that does not decide leaves of its group.                 *)
Gathered(m, n, r, g) ==
  /\ \A q \in ToldTo(m, r, g) \cup {r} :
       Decided(m, g, q) \/ n.groups[g].values[m.reactions[q].slot] = m.value[Source(m, q)]

(* After it every member heard has its value in its slot.                  *)
LEMMA FillGathers ==
  ASSUME NEW u, NEW m, NEW printed, NEW s, NEW h, NEW r, NEW g,
         Turn(u, m, printed, s, h, r, g), ~Getting(u), NEW i, i = m.reactions[r].slot,
         NEW v, v = m.value[Source(m, r)],
         NEW n, FillsAs(m, n, g, i, v)
  PROVE  Gathered(m, n, r, g)
  <1>a. /\ Sound(m, printed) /\ MachineOK(m) /\ r \in ReactionId(m)
        /\ i \in 1 .. Len(m.groups[g].values)
    BY TurnFacts
  <1>1. n.groups[g].values[m.reactions[r].slot] = m.value[Source(m, r)]
    BY <1>a DEF FillsAs
  <1>2. ASSUME NEW q \in ToldTo(m, r, g)
        PROVE  Decided(m, g, q) \/ n.groups[g].values[m.reactions[q].slot] = m.value[Source(m, q)]
    <2>1. GroupOK(m, r, g)
      BY DEF Turn, Fate, GroupsOK
    <2>2. q \in ReactionId(m) /\ q # r /\ MemberOf(m, q, g)
      BY <1>a, ToldSettled DEF ToldTo, Told
    <2>3. ~SameSlot(m, q, r)
      BY <1>a, <2>2 DEF Turn, Fate, Shape, SlotsApart
    <2>4. m.reactions[q].slot # i
      BY <2>2, <2>3 DEF SameSlot, MemberOf, Turn
    <2>5. m.reactions[q].slot \in 1 .. Len(m.groups[g].values)
      BY <1>a, <2>2 DEF MachineOK, ReactionIn, MemberOf
    <2>6. n.groups[g].values[m.reactions[q].slot] = m.groups[g].values[m.reactions[q].slot]
      BY <2>4, <2>5 DEF FillsAs
    <2> QED
      BY <2>1, <2>6 DEF GroupOK
  <1> QED
    BY <1>1, <1>2 DEF Gathered

(* The group after a member that does not decide, its result as it was.    *)
LEMMA FillKeepsGroup ==
  ASSUME NEW u, NEW m, NEW printed, NEW s, NEW h, NEW r, NEW g,
         Turn(u, m, printed, s, h, r, g), ~Getting(u), ~Decided(m, g, r),
         NEW i, i = m.reactions[r].slot, NEW v, v = m.value[Source(m, r)],
         NEW n, FillsAs(m, n, g, i, v)
  PROVE  GroupOK(n, 0, g)
  <1>a. MachineOK(m) /\ Reported(m, n, g) /\ r \in m.taken /\ MemberOf(m, r, g)
    BY TurnFacts, FillReports DEF Turn
  <1>d. /\ ToldTo(n, 0, g) = ToldTo(m, r, g) \cup {r} /\ r \in DueTo(m, r, g)
    BY <1>a, MemberReports
  <1>1. GroupOK(m, r, g)
    BY DEF Turn, Fate, GroupsOK
  <1>2. Gathered(m, n, r, g)
    BY FillGathers
  <1>3. PICK p : p = m.groups[g].result
    OBVIOUS
  <1>4. /\ n.groups[g].result = p /\ n.state = m.state /\ n.value = m.value
        /\ n.groups[g].kind = m.groups[g].kind /\ n.reactions = m.reactions
    BY <1>3 DEF FillsAs
  <1>5. \A q : /\ Decided(n, g, q) <=> Decided(m, g, q)
               /\ Source(n, q) = Source(m, q)
    BY <1>4 DEF Decided, Source
  <1>6. m.state[p] = "pending" => \A q \in ToldTo(n, 0, g) : ~Decided(n, g, q)
    BY <1>1, <1>3, <1>5, <1>d DEF GroupOK
  <1>7. m.state[p] # "pending" =>
          \E q \in ToldTo(n, 0, g) : Decided(n, g, q) /\ SameOutcome(n, p, Source(n, q))
    <2> SUFFICES ASSUME m.state[p] # "pending"
                 PROVE  \E q \in ToldTo(n, 0, g) : Decided(n, g, q) /\ SameOutcome(n, p, Source(n, q))
      OBVIOUS
    <2>1. \E q \in ToldTo(m, r, g) : Decided(m, g, q) /\ SameOutcome(m, p, Source(m, q))
      BY <1>1, <1>3, <1>d DEF GroupOK
    <2> QED
      BY <2>1, <1>4, <1>5, <1>d DEF SameOutcome
  <1>8. \A q \in ToldTo(n, 0, g) :
          Decided(n, g, q) \/ n.groups[g].values[n.reactions[q].slot] = n.value[Source(n, q)]
    BY <1>2, <1>4, <1>5, <1>d DEF Gathered
  <1> QED
    BY <1>4, <1>6, <1>7, <1>8 DEF GroupOK

(* A member that is not the last to report.                                *)
LEMMA FateFill ==
  ASSUME NEW u, NEW m, NEW printed, NEW s, NEW h, NEW r, NEW g,
         Turn(u, m, printed, s, h, r, g), ~Decided(m, g, r),
         NEW i, i = m.reactions[r].slot, NEW v, v = m.value[Source(m, r)],
         NEW n, FillsAs(m, n, g, i, v),
         NEW p, p = m.groups[g].result, n.groups[g].remaining # 0 \/ m.state[p] # "pending"
  PROVE  Fate(u, n, s, h, 0, 0, {}, {})
  <1>a. /\ MachineOK(m) /\ Reported(m, n, g) /\ r \in m.taken /\ MemberOf(m, r, g)
        /\ Placedly(m, printed, s, h) /\ Fate(u, m, s, h, r, 0, {}, {})
        /\ g \in 1 .. Len(m.groups)
    BY TurnFacts, FillReports DEF Turn
  <1>1. ValuesPass(u, n)
    BY <1>a, FillReports DEF Fate, Shape
  <1>2. \/ p \in {} \/ n.state[p] # "pending"
        \/ (Counting(m, r, 0, g) => Counting(n, 0, 0, g))
    <2>1. CASE m.state[p] # "pending"
      BY <2>1 DEF FillsAs
    <2>2. CASE n.groups[g].remaining # 0
      <3> SUFFICES ASSUME Counting(m, r, 0, g) PROVE Counting(n, 0, 0, g)
        OBVIOUS
      <3>1. DueTo(n, 0, g) = DueTo(m, r, g) \ {r} /\ r \in DueTo(m, r, g)
        BY <1>a, MemberReports
      <3>2. IsFiniteSet(DueTo(m, r, g)) /\ Cardinality(DueTo(m, r, g)) \in Nat
        BY <1>a, DueFinite
      <3>3. Cardinality(DueTo(n, 0, g)) = Cardinality(DueTo(m, r, g)) - 1
        BY <3>1, <3>2, FS_RemoveElement
      <3>4. \A o : Joining(o, 0, g) = 0
        BY DEF Joining
      <3>5. PICK a \in Nat : a = m.groups[g].remaining
        BY DEF FillsAs
      <3>6. a = Cardinality(DueTo(m, r, g)) + 0 /\ a >= 1
        BY <3>4, <3>5 DEF Counting
      <3>7. n.groups[g].remaining = a - 1
        BY <3>5, <3>6 DEF FillsAs
      <3>8. n.groups[g].remaining >= 1
        BY <2>2, <3>6, <3>7
      <3>9. n.groups[g].remaining = Cardinality(DueTo(n, 0, g)) + 0
        BY <3>2, <3>3, <3>6, <3>7
      <3> QED
        BY <3>4, <3>8, <3>9 DEF Counting
    <2> QED
      BY <2>1, <2>2
  <1>3. Getting(u) \/ GroupOK(n, 0, g)
    BY FillKeepsGroup
  <1>4. Fate(u, n, s, h, 0, 0, {} \cup {}, {} \ {p})
    BY <1>1, <1>2, <1>3, <1>a, FateMember
  <1> QED
    BY <1>4

(* A member that decides, in a program without getters.                    *)
LEMMA FateDecides ==
  ASSUME NEW u, NEW m, NEW printed, NEW s, NEW h, NEW r, NEW g,
         Turn(u, m, printed, s, h, r, g), ~Getting(u), Decided(m, g, r),
         NEW p, p = m.groups[g].result, NEW q, q = Source(m, r),
         NEW n, n = Settle(m, p, m.state[q], m.value[q])
  PROVE  Fate(u, n, s, h, 0, 0, {}, {})
  <1>a. /\ MachineOK(m) /\ r \in m.taken /\ MemberOf(m, r, g) /\ Sound(m, printed)
        /\ Placedly(m, printed, s, h) /\ Fate(u, m, s, h, r, 0, {}, {})
        /\ g \in 1 .. Len(m.groups) /\ p \in Promise(m) /\ q \in Promise(m)
        /\ m.state[q] \in Settled /\ Passed(u, m.state[q], m.value[q]) /\ m.value[q] \in Value
    BY TurnFacts DEF Turn, ValueIn
  <1>g. GroupOK(m, r, g) /\ ValuesPass(u, m)
    BY DEF Turn, Fate, GroupsOK, Shape
  <1>q. m.state[q] # "pending"
    BY <1>a DEF Settled
  <1>1. /\ Reported(m, n, g) /\ ValuesPass(u, n) /\ n.state[p] # "pending"
        /\ n.groups = m.groups /\ n.reactions = m.reactions
        /\ \A o \in Promise(m) : m.state[o] # "pending" =>
             n.state[o] = m.state[o] /\ n.value[o] = m.value[o]
        /\ m.state[p] = "pending" => n.state[p] = m.state[q] /\ n.value[p] = m.value[q]
    <2>1. CASE m.state[p] # "pending"
      <3>1. n = m
        BY <2>1 DEF Settle
      <3> QED
        BY <2>1, <3>1, <1>g DEF Reported
    <2>2. CASE m.state[p] = "pending"
      <3>1. SettlesAs(m, n, p, m.state[q], m.value[q])
        BY <2>2, <1>a, SettleFields
      <3>2. /\ Len(n.state) = Len(m.state) /\ n.groups = m.groups /\ n.reactions = m.reactions
            /\ n.taken = m.taken /\ n.pairs = m.pairs
            /\ \A o \in Promise(m) : /\ n.state[o] = IF o = p THEN m.state[q] ELSE m.state[o]
                                     /\ n.value[o] = IF o = p THEN m.value[q] ELSE m.value[o]
        BY <3>1 DEF SettlesAs
      <3>3. Reported(m, n, g)
        <4>1. PICK w : w = m.groups[g].result
          OBVIOUS
        <4>2. \A o \in Promise(m) : o # w \/ m.state[w] # "pending" =>
                n.state[o] = m.state[o] /\ n.value[o] = m.value[o]
          BY <2>2, <3>2, <4>1
        <4> QED
          BY <3>2, <4>1, <4>2, Zenon DEF Reported
      <3>4. ValuesPass(u, n)
        BY <3>2, <1>g, <1>a DEF ValuesPass, Passed, Promise
      <3> QED
        BY <2>2, <3>2, <3>3, <3>4, <1>a, <1>q
    <2> QED
      BY <2>1, <2>2
  <1>d. /\ ToldTo(n, 0, g) = ToldTo(m, r, g) \cup {r} /\ r \in DueTo(m, r, g)
    BY <1>a, <1>1, MemberReports
  <1>s. \A o : Source(n, o) = Source(m, o)
    BY <1>1 DEF Source
  <1>t. \A o \in ToldTo(m, r, g) \cup {r} :
          /\ Source(m, o) \in Promise(m) /\ m.state[Source(m, o)] # "pending"
          /\ n.state[Source(m, o)] = m.state[Source(m, o)]
          /\ n.value[Source(m, o)] = m.value[Source(m, o)]
    <2>1. \A o \in ToldTo(m, r, g) \cup {r} :
            Source(m, o) \in Promise(m) /\ m.state[Source(m, o)] # "pending"
      BY <1>a, <1>q, ToldSettled
    <2> QED
      BY <2>1, <1>1
  <1>e. \A o \in ToldTo(m, r, g) \cup {r} : Decided(n, g, o) <=> Decided(m, g, o)
    BY <1>t, <1>s, <1>1 DEF Decided
  <1>2. \E o \in ToldTo(n, 0, g) : Decided(n, g, o) /\ SameOutcome(n, p, Source(n, o))
    <2>1. CASE m.state[p] = "pending"
      <3>1. Decided(n, g, r) /\ r \in ToldTo(n, 0, g)
        BY <1>d, <1>e
      <3>2. SameOutcome(n, p, Source(n, r))
        <4>1. n.state[q] = m.state[q] /\ n.value[q] = m.value[q] /\ Source(n, r) = q
          BY <1>s, <1>t
        <4>2. n.state[p] = m.state[q] /\ n.value[p] = m.value[q]
          BY <2>1, <1>1
        <4> QED
          BY <4>1, <4>2, Zenon DEF SameOutcome
      <3> QED
        BY <3>1, <3>2
    <2>2. CASE m.state[p] # "pending"
      <3>1. PICK o \in ToldTo(m, r, g) : Decided(m, g, o) /\ SameOutcome(m, p, Source(m, o))
        BY <2>2, <1>g, <1>d DEF GroupOK
      <3>2. Decided(n, g, o) /\ o \in ToldTo(n, 0, g)
        BY <3>1, <1>d, <1>e
      <3>3. SameOutcome(n, p, Source(n, o))
        <4>1. PICK w : w = Source(m, o)
          OBVIOUS
        <4>2. n.state[w] = m.state[w] /\ n.value[w] = m.value[w] /\ Source(n, o) = w
          BY <4>1, <1>s, <1>t
        <4>3. n.state[p] = m.state[p] /\ n.value[p] = m.value[p]
          BY <2>2, <1>1, <1>a
        <4>4. m.state[p] = m.state[w] /\ m.value[p] = m.value[w]
          BY <3>1, <4>1 DEF SameOutcome
        <4> QED
          BY <4>2, <4>3, <4>4, Zenon DEF SameOutcome
      <3> QED
        BY <3>2, <3>3
    <2> QED
      BY <2>1, <2>2
  <1>3. \A o \in ToldTo(n, 0, g) :
          Decided(n, g, o) \/ n.groups[g].values[n.reactions[o].slot] = n.value[Source(n, o)]
    <2> SUFFICES ASSUME NEW o \in ToldTo(m, r, g)
                 PROVE Decided(n, g, o) \/ n.groups[g].values[n.reactions[o].slot] = n.value[Source(n, o)]
      BY <1>d, <1>e
    <2>1. Decided(m, g, o) \/ m.groups[g].values[m.reactions[o].slot] = m.value[Source(m, o)]
      BY <1>g DEF GroupOK
    <2> QED
      <3>1. Decided(n, g, o) <=> Decided(m, g, o)
        BY <1>e
      <3>2. n.groups[g].values[n.reactions[o].slot] = m.groups[g].values[m.reactions[o].slot]
        BY <1>1
      <3>3. n.value[Source(n, o)] = m.value[Source(m, o)]
        <4>1. Source(n, o) = Source(m, o)
          BY <1>s
        <4> QED
          BY <4>1, <1>t
      <3> QED
        BY <2>1, <3>1, <3>2, <3>3
  <1>4. GroupOK(n, 0, g)
    BY <1>1, <1>2, <1>3 DEF GroupOK
  <1>5. Fate(u, n, s, h, 0, 0, {} \cup {}, {} \ {p})
    BY <1>1, <1>4, <1>a, FateMember
  <1> QED
    BY <1>5

(* The last member of a group reports: the group is what the result, which *)
(* is pending, is waiting for.                                             *)
LEMMA LastCounts ==
  ASSUME NEW u, NEW m, NEW printed, NEW s, NEW h, NEW r, NEW g,
         Turn(u, m, printed, s, h, r, g), ~Getting(u),
         NEW p, p = m.groups[g].result, m.state[p] = "pending"
  PROVE  Counting(m, r, 0, g)
  <1>a. /\ MachineOK(m) /\ Fate(u, m, s, h, r, 0, {}, {}) /\ g \in 1 .. Len(m.groups)
        /\ p \in Promise(m)
    BY TurnFacts DEF Turn
  <1>1. Live(m, s, h, r, 0, p)
    <2>1. Expected(u, m, p)
      BY <1>a DEF Expected, Grouped
    <2> QED
      BY <2>1, <1>a DEF Fate, Answered
  <1>2. Untargeted(m, s, p) /\ \A f \in 1 .. Len(m.groups) : m.groups[f].result = p => f = g
    BY <1>a DEF Fate, Owned
  <1>3. PICK f \in 1 .. Len(m.groups) : m.groups[f].result = p /\ Counting(m, r, 0, f)
    <2>1. \A i \in 1 .. Len(s) : ~FrameFor(s[i], p)
      BY <1>2 DEF Untargeted, FrameFor, Answering
    <2> QED
      BY <1>1, <1>2, <2>1, Zenon DEF Live, Untargeted
  <1> QED
    BY <1>2, <1>3

(* The last member fills its slot and settles the result.                  *)
LEMMA FateFillLast ==
  ASSUME NEW u, NEW m, NEW printed, NEW s, NEW h, NEW r, NEW g,
         Turn(u, m, printed, s, h, r, g), ~Getting(u), ~Decided(m, g, r),
         NEW i, i = m.reactions[r].slot, NEW v, v = m.value[Source(m, r)],
         NEW o, FillsAs(m, o, g, i, v), o.groups[g].remaining = 0,
         NEW p, p = m.groups[g].result, m.state[p] = "pending",
         NEW how \in Settled, ~Decides(m.groups[g].kind, how),
         NEW n, SettlesAs(o, n, p, how, Made)
  PROVE  Fate(u, n, s, h, 0, 0, {}, {})
  <1>a. /\ MachineOK(m) /\ r \in m.taken /\ MemberOf(m, r, g) /\ Sound(m, printed)
        /\ Placedly(m, printed, s, h) /\ Fate(u, m, s, h, r, 0, {}, {})
        /\ g \in 1 .. Len(m.groups) /\ p \in Promise(m)
        /\ Source(m, r) \in Promise(m) /\ m.state[Source(m, r)] # "pending"
    BY TurnFacts DEF Turn, Settled
  <1>g. GroupOK(m, r, g) /\ ValuesPass(u, m)
    BY DEF Turn, Fate, GroupsOK, Shape
  <1>o. /\ o.state = m.state /\ o.value = m.value /\ o.reactions = m.reactions
        /\ o.taken = m.taken /\ o.pairs = m.pairs /\ Len(o.groups) = Len(m.groups)
        /\ \A f \in 1 .. Len(m.groups) : f # g => o.groups[f] = m.groups[f]
        /\ o.groups[g].result = p /\ o.groups[g].kind = m.groups[g].kind
    BY DEF FillsAs
  <1>n. /\ Len(n.state) = Len(m.state) /\ n.groups = o.groups /\ n.reactions = m.reactions
        /\ n.taken = m.taken /\ n.pairs = m.pairs
        /\ \A q \in Promise(m) : /\ n.state[q] = IF q = p THEN how ELSE m.state[q]
                                 /\ n.value[q] = IF q = p THEN Made ELSE m.value[q]
    BY <1>o DEF SettlesAs, Promise
  <1>h. n.state[p] = how /\ how # "pending"
    BY <1>n, <1>a DEF Settled
  <1>1. Reported(m, n, g)
    <2>1. \A q \in Promise(m) : q # p \/ m.state[p] # "pending" =>
            n.state[q] = m.state[q] /\ n.value[q] = m.value[q]
      BY <1>n
    <2>2. /\ Len(n.groups) = Len(m.groups)
          /\ \A f \in 1 .. Len(m.groups) : f # g => n.groups[f] = m.groups[f]
          /\ n.groups[g].result = p /\ n.groups[g].kind = m.groups[g].kind
      BY <1>n, <1>o
    <2> QED
      BY <2>1, <2>2, <1>n, Zenon DEF Reported
  <1>2. ValuesPass(u, n)
    BY <1>n, <1>g, PlainPassed DEF ValuesPass, Passed, Promise
  <1>d. /\ ToldTo(n, 0, g) = ToldTo(m, r, g) \cup {r}
        /\ DueTo(n, 0, g) = DueTo(m, r, g) \ {r} /\ r \in DueTo(m, r, g)
    BY <1>a, <1>1, MemberReports
  <1>3. DueTo(n, 0, g) = {}
    <2>1. Counting(m, r, 0, g)
      BY LastCounts
    <2>2. IsFiniteSet(DueTo(m, r, g)) /\ Cardinality(DueTo(m, r, g)) \in Nat
      BY <1>a, DueFinite
    <2>3. PICK D : D = DueTo(n, 0, g)
      OBVIOUS
    <2>4. IsFiniteSet(D) /\ Cardinality(D) = Cardinality(DueTo(m, r, g)) - 1
      BY <2>2, <2>3, <1>d, FS_RemoveElement
    <2>5. PICK a \in Nat : a = m.groups[g].remaining
      BY DEF FillsAs
    <2>6. Joining(m, 0, g) = 0
      BY DEF Joining
    <2>7. a = Cardinality(DueTo(m, r, g)) + 0 /\ a >= 1
      BY <2>1, <2>5, <2>6 DEF Counting
    <2>8. a - 1 = 0
      BY <2>5, <2>7 DEF FillsAs
    <2>9. Cardinality(D) = 0
      BY <2>2, <2>4, <2>7, <2>8
    <2> QED
      BY <2>3, <2>4, <2>9, FS_EmptySet
  <1>s. \A q : Source(n, q) = Source(m, q)
    BY <1>n DEF Source
  <1>t. \A q \in ToldTo(m, r, g) \cup {r} :
          /\ n.state[Source(m, q)] = m.state[Source(m, q)]
          /\ n.value[Source(m, q)] = m.value[Source(m, q)]
    <2>1. \A q \in ToldTo(m, r, g) \cup {r} :
            Source(m, q) \in Promise(m) /\ m.state[Source(m, q)] # "pending"
      BY <1>a, ToldSettled
    <2> QED
      BY <2>1, <1>n
  <1>e. \A q \in ToldTo(m, r, g) \cup {r} : Decided(n, g, q) <=> Decided(m, g, q)
    BY <1>t, <1>s, <1>n, <1>o DEF Decided
  <1>4. \A q \in ToldTo(n, 0, g) : ~Decided(n, g, q)
    <2>1. \A q \in ToldTo(m, r, g) : ~Decided(m, g, q)
      BY <1>g DEF GroupOK
    <2> QED
      BY <2>1, <1>d, <1>e
  <1>5. \A q \in ToldTo(n, 0, g) :
          Decided(n, g, q) \/ n.groups[g].values[n.reactions[q].slot] = n.value[Source(n, q)]
    <2>1. Gathered(m, o, r, g)
      BY FillGathers
    <2> SUFFICES ASSUME NEW q \in ToldTo(m, r, g) \cup {r}
                 PROVE  Decided(n, g, q) \/ n.groups[g].values[n.reactions[q].slot] = n.value[Source(n, q)]
      BY <1>d
    <2>2. Decided(m, g, q) \/ o.groups[g].values[m.reactions[q].slot] = m.value[Source(m, q)]
      BY <2>1 DEF Gathered
    <2>3. n.groups[g].values[n.reactions[q].slot] = o.groups[g].values[m.reactions[q].slot]
      BY <1>n
    <2>4. n.value[Source(n, q)] = m.value[Source(m, q)]
      <3>1. Source(n, q) = Source(m, q)
        BY <1>s
      <3> QED
        BY <3>1, <1>t
    <2> QED
      BY <2>2, <2>3, <2>4, <1>e
  <1>6. GroupOK(n, 0, g)
    <2>1. n.groups[g].result = p /\ ~Decides(n.groups[g].kind, n.state[p])
      BY <1>n, <1>o, <1>h
    <2> QED
      BY <2>1, <1>h, <1>3, <1>4, <1>5 DEF GroupOK
  <1>7. Fate(u, n, s, h, 0, 0, {} \cup {}, {} \ {p})
    BY <1>1, <1>2, <1>6, <1>h, <1>a, FateMember
  <1> QED
    BY <1>7

(* A group that lets its result go, in a program with getters.             *)
LEMMA FateLetsGo ==
  ASSUME NEW u, NEW m, NEW printed, NEW s, NEW h, NEW r, NEW g,
         Turn(u, m, printed, s, h, r, g), Getting(u),
         NEW p, p = m.groups[g].result, NEW n, Reported(m, n, g), ValuesPass(u, n)
  PROVE  Fate(u, n, s, h, 0, 0, {p}, {})
  <1>1. Fate(u, n, s, h, 0, 0, {} \cup {p}, {} \ {p})
    <2>1. p \in {p}
      OBVIOUS
    <2>2. /\ Placedly(m, printed, s, h) /\ Fate(u, m, s, h, r, 0, {}, {})
          /\ r \in m.taken /\ g \in 1 .. Len(m.groups) /\ MemberOf(m, r, g)
      BY DEF Turn
    <2> QED
      BY <2>1, <2>2, FateMember
  <1>2. {} \cup {p} = {p} /\ {} \ {p} = {}
    OBVIOUS
  <1> QED
    BY <1>1, <1>2

(* A member of a group reports.                                            *)
LEMMA VAdvance ==
  ASSUME NEW u, NEW m, NEW printed, NEW s, NEW h, NEW r, NEW g,
         Turn(u, m, printed, s, h, r, g),
         NEW i, i = m.reactions[r].slot, NEW q, q = Source(m, r),
         NEW n, n = Advance(m, g, i, m.state[q], m.value[q])
  PROVE  Fate(u, n, s, h, 0, 0, {}, {}) /\ n.pairs = m.pairs
  <1>a. /\ Sound(m, printed) /\ MachineOK(m) /\ r \in ReactionId(m) /\ q \in Promise(m)
        /\ ValueIn(m, m.value[q]) /\ m.state[q] \in Settled
        /\ Passed(u, m.state[q], m.value[q])
        /\ i \in 1 .. Len(m.groups[g].values) /\ m.groups[g].result \in Promise(m)
        /\ Placedly(m, printed, s, h) /\ Fate(u, m, s, h, r, 0, {}, {}) /\ g \in 1 .. Len(m.groups)
    BY TurnFacts DEF Turn
  <1>p. PICK p : p = m.groups[g].result
    OBVIOUS
  <1>v. PICK v : v = m.value[q]
    OBVIOUS
  <1>h. PICK how : how = m.state[q]
    OBVIOUS
  <1>o. PICK o : o = Fill(m, g, i, v)
    OBVIOUS
  <1>f. FillsAs(m, o, g, i, v)
    BY <1>a, <1>o, <1>v, FillFields DEF ValueIn
  <1>i. p \in Promise(m) /\ v \in Value /\ Made \in Value /\ v.tag \in Tags(u)
    BY <1>a, <1>p, <1>v, UndefinedValue DEF ValueIn, Passed
  <1>e. {p} \ {p} = {} /\ {} \ {p} = {}
    OBVIOUS
  <1>1. CASE Decided(m, g, r)
    <2>1. n = SettleThrough(m, p, how, v)
      BY <1>1, <1>p, <1>v, <1>h DEF Advance, Decided
    <2>2. CASE Getting(u)
      <3>1. Reported(m, m, g) /\ ValuesPass(u, m)
        BY <1>a DEF Reported, Fate, Shape
      <3>2. Fate(u, m, s, h, 0, 0, {p}, {})
        BY <2>2, <3>1, <1>p, FateLetsGo
      <3>3. At(m, u, m, printed, s, h, 0, 0, {p}, {})
        BY <3>2, <1>a, KeptRefl DEF At
      <3>4. Free(u, m, p, {})
        BY <2>2 DEF Free, Overriding
      <3>5. ValueIn(m, v)
        BY <1>a, <1>v
      <3>6. At(m, u, n, printed, s, h, 0, 0, {p} \ {p}, {} \ {p})
        BY <2>1, <3>3, <3>4, <3>5, <1>i, VSettleThrough
      <3>7. n.pairs = m.pairs
        BY <2>1, <1>a, <1>i DEF SettleThrough, Resolve, Reject, Settle, Enqueue, MachineOK, Machine
      <3> QED
        BY <3>6, <3>7, <1>e DEF At
    <2>3. CASE ~Getting(u)
      <3>1. n = Settle(m, p, how, v)
        <4>1. how = "fulfilled" => v.tag = "plain"
          BY <2>3, <1>a, <1>h, <1>v DEF Passed
        <4>2. how # "fulfilled" => how = "rejected"
          BY <1>a, <1>h DEF Settled
        <4> QED
          BY <2>1, <4>1, <4>2 DEF SettleThrough, Resolve, Reject
      <3>2. Fate(u, n, s, h, 0, 0, {}, {})
        BY <1>1, <2>3, <3>1, <1>p, <1>v, <1>h, FateDecides
      <3>3. n.pairs = m.pairs
        BY <3>1, <1>a DEF Settle, MachineOK, Machine
      <3> QED
        BY <3>2, <3>3
    <2> QED
      BY <2>2, <2>3
  <1>2. CASE ~Decided(m, g, r) /\ o.groups[g].remaining # 0
    <2>1. n = o
      BY <1>2, <1>o, <1>v DEF Advance, Decided
    <2>2. Fate(u, o, s, h, 0, 0, {}, {})
      BY <1>2, <1>f, <1>p, <1>v, FateFill
    <2> QED
      BY <2>1, <2>2, <1>f DEF FillsAs
  <1>3. CASE ~Decided(m, g, r) /\ o.groups[g].remaining = 0
    <2>h. PICK last : last = IF m.groups[g].kind = "any" THEN "rejected" ELSE "fulfilled"
      OBVIOUS
    <2>1. n = Settle(o, p, last, Made)
      BY <1>3, <1>o, <1>v, <1>p, <2>h DEF Advance, Decided, Reject
    <2>2. last \in Settled /\ ~Decides(m.groups[g].kind, last)
      BY <1>3, <2>h DEF Decided, Decides, Settled
    <2>3. o.state = m.state /\ o.pairs = m.pairs
      BY <1>f DEF FillsAs
    <2>4. Evolves(m, o, printed)
      BY <1>a, <1>i, <1>o, FillSound
    <2>5. Sound(o, printed) /\ MachineOK(o) /\ p \in Promise(o)
      BY <2>3, <2>4, <1>i DEF Evolves, Sound, Promise
    <2>6. n.pairs = o.pairs
      BY <2>1, <2>5 DEF Settle, MachineOK, Machine
    <2>7. CASE m.state[p] # "pending"
      <3>1. n = o
        BY <2>1, <2>3, <2>7 DEF Settle
      <3>2. Fate(u, o, s, h, 0, 0, {}, {})
        BY <1>3, <2>7, <1>f, <1>p, <1>v, FateFill
      <3> QED
        BY <3>1, <3>2, <2>3
    <2>8. CASE m.state[p] = "pending" /\ ~Getting(u)
      <3>1. SettlesAs(o, n, p, last, Made)
        BY <2>1, <2>2, <2>3, <2>5, <2>8, <1>i, SettleFields
      <3>2. Fate(u, n, s, h, 0, 0, {}, {})
        BY <1>3, <2>2, <2>8, <3>1, <1>f, <1>p, <1>v, FateFillLast
      <3> QED
        BY <3>2, <2>3, <2>6
    <2>9. CASE Getting(u)
      <3>1. Reported(m, o, g) /\ ValuesPass(u, o)
        BY <1>a, <1>f, FillReports DEF Fate, Shape
      <3>2. Fate(u, o, s, h, 0, 0, {p}, {})
        BY <2>9, <3>1, <1>p, FateLetsGo
      <3>3. Placedly(o, printed, s, h)
        <4>1. Keeps(m, o)
          BY <2>4, <1>a, EvolvesKeeps DEF Keeps
        <4>2. StackIn(o, s)
          BY <4>1, <1>a, StackKeeps DEF Placedly
        <4> QED
          BY <4>1, <4>2, <2>5, <1>a DEF Placedly, Keeps
      <3>4. At(o, u, o, printed, s, h, 0, 0, {p}, {})
        BY <3>2, <3>3, <2>5, KeptRefl DEF At
      <3>5. Free(u, o, p, {}) /\ ValueIn(o, Made) /\ Passed(u, last, Made)
        BY <2>9, PlainIn, PlainPassed DEF Free, Overriding
      <3>6. At(o, u, n, printed, s, h, 0, 0, {p} \ {p}, {} \ {p})
        BY <2>1, <2>2, <2>5, <3>4, <3>5, VSettle
      <3> QED
        BY <3>6, <2>3, <2>6, <1>e DEF At
    <2> QED
      BY <2>7, <2>8, <2>9
  <1> QED
    BY <1>1, <1>2, <1>3

=============================================================================
