------------------------------ MODULE LoopProofs ------------------------------
(***************************************************************************)
(* Proofs of what module LoopProperties states of the event loop, for any  *)
(* number of timers, delays, thread-safe functions, threads and programs.  *)
(*                                                                         *)
(* The invariant has a part for each table and three for the stack: which  *)
(* frame may run above which, how many calls of each timer its pumps still *)
(* owe, and what a pass that is about to end the program has been told.    *)
(***************************************************************************)
EXTENDS LoopProperties, Iteration

-----------------------------------------------------------------------------
(***************************************************************************)
(* The parts of the invariant.                                             *)
(***************************************************************************)
Names == {"timers", "batch", "threadsafe", "work"}
Called == [id : Ids, settles : BOOLEAN, again : BOOLEAN]

HostFrame == [at : {"host"}, stage : {"turn", "asked", "answered", "over"}, wait : 0 .. Nothing]
DrainFrame == [at : {"drain"}, stage : {"reactions", "finalizers"}, left : Nat]
CodeFrame ==
    [at : {"code"}, from : {"entry", "timer", "source", "reaction", "finalizer"}, asked : BOOLEAN,
     owes : [left : Delays, signal : BOOLEAN, wanted : BOOLEAN]]
PassFrame ==
    [at : {"pass"}, n : {1, 2}, left : Seq(Names), stage : {"next", "asked", "drained"},
     wait : 0 .. Nothing, blocked : BOOLEAN]
PumpFrame ==
    [at : {"pump"}, stage : {"reject", "take", "fire", "checkpoint"}, ran : BOOLEAN,
     due : Seq(Called)]
BatchFrame == [at : {"batch"}, left : Nat]
AwaitFrame ==
    [at : {"await"}, on : Promises, wait : 0 .. Nothing,
     stage : {"poll", "drained", "asked", "answered", "last"}]

\* A pass that asks has somebody to ask; a pump that has not taken owes nothing.
Sane(f) ==
    /\ f.at = "pass" /\ f.stage # "next" => f.left # <<>>
    /\ f.at = "pass" /\ f.stage = "drained" => Head(f.left) = "threadsafe"
    /\ f.at = "pump" /\ f.stage \in {"reject", "take"} => f.due = <<>> /\ ~f.ran

\* Which frame runs above which.
Runs(a, b) ==
    \/ a.at = "host" /\ b.at = "drain" /\ a.stage \in {"turn", "over"}
    \/ a.at = "host" /\ b.at = "pass" /\ a.stage = "asked"
    \/ a.at \in {"drain", "batch"} /\ b.at = "code"
    \/ a.at = "code" /\ b.at = "pump" /\ a.owes.wanted
    \/ a.at = "code" /\ b.at = "await" /\ ~a.owes.wanted
    \/ a.at = "pass" /\ b.at \in {"pump", "batch", "code"} /\ a.stage = "asked"
    \/ a.at = "pump" /\ b.at = "drain" /\ a.stage \in {"take", "fire"}
    \/ a.at = "pump" /\ b.at = "code" /\ a.stage = "checkpoint"
    \/ a.at = "await" /\ b.at = "drain"
    \/ a.at = "await" /\ b.at = "pass" /\ a.stage = "asked"

Stacked(s) ==
    /\ s \in Seq(Frame) /\ Len(s) >= 1
    /\ \A i \in 1 .. Len(s) : Sane(s[i]) /\ (s[i].at = "host" <=> i = 1)
    /\ \A i \in 1 .. Len(s) - 1 : Runs(s[i], s[i + 1])
    /\ Len(s) = 1 => s[1].stage # "asked"

\* What the pumps of a stack still owe, and what they and the table are owed.
Dues(s, n) == IF n \in 1 .. Len(s) /\ s[n].at = "pump" THEN s[n].due ELSE <<>>
SameDues(s, t) == \A n \in Nat : Dues(s, n) = Dues(t, n)
OwedAt(s, i) == {p \in Nat \X Nat : /\ p[2] \in 1 .. Len(Dues(s, p[1]))
                                    /\ Dues(s, p[1])[p[2]].id = i
                                    /\ ~Dues(s, p[1])[p[2]].again}
Balanced(table, c, s) ==
    /\ c \in [Ids -> Nat]
    /\ \A i \in Ids : c[i] = (IF i \in DOMAIN table THEN 1 ELSE 0) + Cardinality(OwedAt(s, i))

Handle ==
    [delay : Delays, periodic : BOOLEAN, immediate : BOOLEAN, refed : BOOLEAN, dead : BOOLEAN]
Table(t) == DOMAIN t \subseteq Ids /\ t \in [DOMAIN t -> Timer]
Clocked(t, n, h) ==
    /\ Table(t) /\ n \in 1 .. MaxTimers + 1
    /\ DOMAIN h \subseteq Ids /\ h \in [DOMAIN h -> Handle]

Promised(p, r, n) ==
    /\ p \in [Promises -> {"pending", "fulfilled", "rejected"}]
    /\ r \in [Promises -> Nat] /\ n \in Nat

FnType == [made : BOOLEAN, threads : Nat, referenced : BOOLEAN, closing : BOOLEAN,
           queued : Nat, plain : BOOLEAN]
Threaded(F, h, c) ==
    /\ F \in [Fns -> FnType] /\ h \in [Workers -> Fns \cup {NoFn}] /\ c \in [Workers -> BOOLEAN]
    /\ \A w \in Workers : c[w] => h[w] # NoFn
    /\ \A w \in Workers : h[w] # NoFn => F[h[w]].made
    /\ \A f \in Fns : /\ F[f].threads = Cardinality({w \in Workers : h[w] = f})
                      /\ ~F[f].made => F[f].queued = 0
                      /\ F[f].plain => F[f].referenced
                      /\ F[f].plain /\ F[f].closing => F[f].threads = 0

Worked(k) ==
    k \in [outstanding : Nat, running : Nat, done : Nat] /\ k.outstanding = k.running + k.done

\* Whoever can answer is asked.
Made(F) == \E f \in Fns : F[f].made
Sourced(s, u, b, F, k) ==
    /\ s \in Seq(Names) /\ "timers" \in Range(s) /\ ("tick" \in u => "batch" \in Range(s))
    /\ b > 0 => "batch" \in Range(s)
    /\ Made(F) => "threadsafe" \in Range(s)
    /\ k.outstanding > 0 => "work" \in Range(s)

\* The pass n of the host goes on, and nothing has answered yet.
Asking(s, n) ==
    /\ Len(s) > 1 /\ s[1].stage = "asked"
    /\ s[2].at = "pass" /\ s[2].n = n /\ s[2].wait = Nothing
\* The program ends, or is about to, because nothing was outstanding.
Finished(s, y) ==
    \/ Len(s) = 1 /\ s[1].stage = "answered" /\ s[1].wait = Nothing
    \/ s[1].stage = "over" /\ y = "idle"
\* A source has answered for the last time.
Past(s, y, name) ==
    \/ Asking(s, 2) /\ name \notin Range(s[2].left)
    \/ Finished(s, y)
\* No item will be delivered any more; the threads of functions were looked at.
Emptied(s, y) == Past(s, y, "threadsafe") \/ (Asking(s, 2) /\ s[2].stage = "drained")
LookedAt(s, y) ==
    \/ Asking(s, 1) /\ "threadsafe" \notin Range(s[2].left)
    \/ Asking(s, 2)
    \/ Finished(s, y)

Prompt(F, L) == {f \in Fns : F[f].plain /\ f \notin L.fns}
TimersTold(s, y, t, L) == Past(s, y, "timers") => Refed(t) \subseteq L.timers
BatchTold(s, y, b, L) == Past(s, y, "batch") => b = 0 \/ L.batch
WorkTold(s, y, k, L) == Past(s, y, "work") => k.outstanding = 0 \/ L.work
ThreadsTold(s, y, F, L) == LookedAt(s, y) => \A f \in Prompt(F, L) : F[f].threads = 0
ItemsTold(s, y, F, L) == Emptied(s, y) => \A f \in Prompt(F, L) : F[f].queued = 0
Told(s, y, t, b, k, F, L) ==
    /\ TimersTold(s, y, t, L) /\ BatchTold(s, y, b, L) /\ WorkTold(s, y, k, L)
    /\ ThreadsTold(s, y, F, L) /\ ItemsTold(s, y, F, L)

Noted(L) == L \in [timers : SUBSET Ids, fns : SUBSET Fns, work : BOOLEAN, batch : BOOLEAN]
Flagged(a, t, b, d) == a \in BOOLEAN /\ t \in BOOLEAN /\ b \in Nat /\ d \in Nat

IInv ==
    /\ Stacked(stack) /\ Clocked(timers, nextId, handles) /\ Balanced(timers, credit, stack)
    /\ Promised(promise, reacts, micro) /\ Flagged(aborted, thrown, batch, dying)
    /\ Threaded(fns, hold, checked) /\ Worked(work)
    /\ Sourced(sources, uses, batch, fns, work)
    /\ Noted(late) /\ Told(stack, why, timers, batch, work, fns, late)

-----------------------------------------------------------------------------
(***************************************************************************)
(* Frames.                                                                 *)
(***************************************************************************)
\* Each kind of frame by its name.
LEMMA FrameIs ==
  Frame = HostFrame \cup DrainFrame \cup CodeFrame \cup PassFrame \cup PumpFrame
          \cup BatchFrame \cup AwaitFrame
  BY Zenon DEF Frame, HostFrame, DrainFrame, CodeFrame, PassFrame, PumpFrame, BatchFrame,
         AwaitFrame, Names, Called

\* What a frame's name says of it.
LEMMA KindOf ==
  ASSUME NEW f \in Frame
  PROVE  /\ f.at \in {"host", "drain", "code", "pass", "pump", "batch", "await"}
         /\ f.at = "host" => f \in HostFrame
         /\ f.at = "drain" => f \in DrainFrame
         /\ f.at = "code" => f \in CodeFrame
         /\ f.at = "pass" => f \in PassFrame
         /\ f.at = "pump" => f \in PumpFrame
         /\ f.at = "batch" => f \in BatchFrame
         /\ f.at = "await" => f \in AwaitFrame
  <1>1. /\ \A g \in HostFrame : g.at = "host"
        /\ \A g \in DrainFrame : g.at = "drain"
        /\ \A g \in CodeFrame : g.at = "code"
        /\ \A g \in PassFrame : g.at = "pass"
        /\ \A g \in PumpFrame : g.at = "pump"
        /\ \A g \in BatchFrame : g.at = "batch"
        /\ \A g \in AwaitFrame : g.at = "await"
    BY DEF HostFrame, DrainFrame, CodeFrame, PassFrame, PumpFrame, BatchFrame, AwaitFrame
  <1>2. \/ f \in HostFrame \/ f \in DrainFrame \/ f \in CodeFrame \/ f \in PassFrame
        \/ f \in PumpFrame \/ f \in BatchFrame \/ f \in AwaitFrame
    BY FrameIs
  <1> QED
    BY <1>1, <1>2

\* Only the name of the frame above matters.
LEMMA RunsByName ==
  ASSUME NEW a, NEW b, NEW c, Runs(a, b), c.at = b.at
  PROVE  Runs(a, c)
  BY DEF Runs

-----------------------------------------------------------------------------
(***************************************************************************)
(* What becomes of the stack: its last frame is replaced, called from or   *)
(* returned from.                                                          *)
(***************************************************************************)
Replaced(s, t, f) ==
    /\ t \in Seq(Frame) /\ Len(t) = Len(s) /\ t[Len(s)] = f
    /\ \A i \in 1 .. Len(s) - 1 : t[i] = s[i]
Pushed(s, t, f, g) ==
    /\ t \in Seq(Frame) /\ Len(t) = Len(s) + 1 /\ t[Len(s)] = f /\ t[Len(s) + 1] = g
    /\ \A i \in 1 .. Len(s) - 1 : t[i] = s[i]
Popped(s, t, f) ==
    /\ t \in Seq(Frame) /\ Len(t) = Len(s) - 1 /\ t[Len(s) - 1] = f
    /\ \A i \in 1 .. Len(s) - 2 : t[i] = s[i]

\* What With, Call, Return and ReturnTo make of a stack.
LEMMA WithIs ==
  ASSUME NEW s \in Seq(Frame), Len(s) >= 1, NEW f \in Frame
  PROVE  Replaced(s, [s EXCEPT ![Len(s)] = f], f)
  BY DEF Replaced

\* A call replaces the last frame and adds one.
LEMMA CallIs ==
  ASSUME NEW s \in Seq(Frame), Len(s) >= 1, NEW f \in Frame, NEW g \in Frame
  PROVE  Pushed(s, Append([s EXCEPT ![Len(s)] = f], g), f, g)
  <1> DEFINE t == [s EXCEPT ![Len(s)] = f]
  <1>1. Replaced(s, t, f)
    BY WithIs
  <1> HIDE DEF t
  <1> QED
    BY <1>1 DEF Replaced, Pushed

\* A return drops the last frame.
LEMMA ReturnIs ==
  ASSUME NEW s \in Seq(Frame), Len(s) >= 2
  PROVE  Popped(s, Front(s), s[Len(s) - 1])
  BY DEF Popped, Front

\* A return may change the frame it returns to.
LEMMA ReturnToIs ==
  ASSUME NEW s \in Seq(Frame), Len(s) >= 2, NEW f \in Frame
  PROVE  Popped(s, [Front(s) EXCEPT ![Len(s) - 1] = f], f)
  <1>1. Popped(s, Front(s), s[Len(s) - 1])
    BY ReturnIs
  <1> QED
    BY <1>1 DEF Popped

\* What a frame becomes by a step that keeps its name.
LEMMA StackReplaced ==
  ASSUME NEW s, Stacked(s), NEW f \in Frame, NEW t, Replaced(s, t, f),
         f.at = s[Len(s)].at, Sane(f), Len(s) = 1 => f.stage # "asked"
  PROVE  Stacked(t)
  <1>1. \A i \in 1 .. Len(t) : Sane(t[i]) /\ (t[i].at = "host" <=> i = 1)
    BY DEF Stacked, Replaced
  <1>2. ASSUME NEW i \in 1 .. Len(t) - 1 PROVE Runs(t[i], t[i + 1])
    <2>1. Runs(s[i], s[i + 1]) /\ t[i] = s[i]
      BY DEF Stacked, Replaced
    <2>2. t[i + 1] = s[i + 1] \/ (i + 1 = Len(s) /\ t[i + 1] = f)
      BY DEF Stacked, Replaced
    <2> QED
      BY <2>1, <2>2, RunsByName
  <1> QED
    BY <1>1, <1>2 DEF Stacked, Replaced

\* A frame that calls another keeps its name, and the callee may run above it.
LEMMA StackPushed ==
  ASSUME NEW s, Stacked(s), NEW f \in Frame, NEW g \in Frame, NEW t, Pushed(s, t, f, g),
         f.at = s[Len(s)].at, Sane(f), Sane(g), Runs(f, g)
  PROVE  Stacked(t)
  <1>0. Len(s) \in Nat /\ g.at # "host"
    BY DEF Stacked, Runs
  <1>1. \A i \in 1 .. Len(t) : Sane(t[i]) /\ (t[i].at = "host" <=> i = 1)
    <2>1. SUFFICES ASSUME NEW i \in 1 .. Len(t) PROVE Sane(t[i]) /\ (t[i].at = "host" <=> i = 1)
      OBVIOUS
    <2>2. \/ i \in 1 .. Len(s) - 1 /\ t[i] = s[i]
          \/ i = Len(s) /\ t[i] = f
          \/ i = Len(s) + 1 /\ t[i] = g
      BY <1>0 DEF Stacked, Pushed
    <2> QED
      BY <1>0, <2>2 DEF Stacked
  <1>2. ASSUME NEW i \in 1 .. Len(t) - 1 PROVE Runs(t[i], t[i + 1])
    <2>1. CASE i = Len(s)
      BY <2>1 DEF Pushed
    <2>2. CASE i < Len(s)
      <3>1. Runs(s[i], s[i + 1]) /\ t[i] = s[i]
        BY <2>2, <1>0 DEF Stacked, Pushed
      <3>2. t[i + 1] = s[i + 1] \/ (i + 1 = Len(s) /\ t[i + 1] = f)
        BY <2>2, <1>0 DEF Stacked, Pushed
      <3> QED
        BY <3>1, <3>2, RunsByName
    <2> QED
      BY <1>0, <2>1, <2>2 DEF Pushed
  <1> QED
    BY <1>0, <1>1, <1>2 DEF Stacked, Pushed

\* A frame that is returned to keeps its name; the host no longer asks.
LEMMA StackPopped ==
  ASSUME NEW s, Stacked(s), Len(s) >= 2, NEW f \in Frame, NEW t, Popped(s, t, f),
         f.at = s[Len(s) - 1].at, Sane(f), Len(s) = 2 => f.stage # "asked"
  PROVE  Stacked(t)
  <1>0. Len(s) \in Nat
    BY DEF Stacked
  <1>1. \A i \in 1 .. Len(t) : Sane(t[i]) /\ (t[i].at = "host" <=> i = 1)
    <2>1. SUFFICES ASSUME NEW i \in 1 .. Len(t) PROVE Sane(t[i]) /\ (t[i].at = "host" <=> i = 1)
      OBVIOUS
    <2>2. \/ i \in 1 .. Len(s) - 2 /\ t[i] = s[i]
          \/ i = Len(s) - 1 /\ t[i] = f
      BY <1>0 DEF Stacked, Popped
    <2> QED
      BY <1>0, <2>2 DEF Stacked
  <1>2. ASSUME NEW i \in 1 .. Len(t) - 1 PROVE Runs(t[i], t[i + 1])
    <2>1. Runs(s[i], s[i + 1]) /\ t[i] = s[i]
      BY <1>0 DEF Stacked, Popped
    <2>2. t[i + 1] = s[i + 1] \/ (i + 1 = Len(s) - 1 /\ t[i + 1] = f)
      BY <1>0 DEF Stacked, Popped
    <2> QED
      BY <2>1, <2>2, RunsByName
  <1> QED
    BY <1>0, <1>1, <1>2 DEF Stacked, Popped

-----------------------------------------------------------------------------
(***************************************************************************)
(* What the pumps owe, and what a step leaves of it.                       *)
(***************************************************************************)
DueOf(f) == IF f.at = "pump" THEN f.due ELSE <<>>

\* What the pumps owe is read frame by frame.
LEMMA DuesAre ==
  ASSUME NEW s, Stacked(s), NEW n \in 1 .. Len(s)
  PROVE  Dues(s, n) = DueOf(s[n])
  BY DEF Dues, DueOf

\* A frame that owes the same after a step leaves everything owed the same.
LEMMA DuesReplaced ==
  ASSUME NEW s, Stacked(s), NEW f \in Frame, NEW t, Replaced(s, t, f), DueOf(f) = DueOf(s[Len(s)])
  PROVE  SameDues(s, t)
  BY DEF Stacked, Replaced, SameDues, Dues, DueOf

\* So does a call of a frame that owes nothing.
LEMMA DuesPushed ==
  ASSUME NEW s, Stacked(s), NEW f \in Frame, NEW g \in Frame, NEW t, Pushed(s, t, f, g),
         DueOf(f) = DueOf(s[Len(s)]), DueOf(g) = <<>>
  PROVE  SameDues(s, t)
  BY DEF Stacked, Pushed, SameDues, Dues, DueOf

\* So does the return of a frame that owed nothing.
LEMMA DuesPopped ==
  ASSUME NEW s, Stacked(s), Len(s) >= 2, NEW f \in Frame, NEW t, Popped(s, t, f),
         DueOf(f) = DueOf(s[Len(s) - 1]), DueOf(s[Len(s)]) = <<>>
  PROVE  SameDues(s, t)
  <1>1. SUFFICES ASSUME NEW n \in Nat PROVE Dues(s, n) = Dues(t, n)
    BY DEF SameDues
  <1>2. Len(s) \in Nat /\ Len(t) = Len(s) - 1
    BY DEF Stacked, Popped
  <1>3. CASE n = Len(s)
    BY <1>2, <1>3 DEF Dues, DueOf
  <1>4. CASE n = Len(s) - 1
    BY <1>2, <1>4 DEF Popped, Dues, DueOf
  <1>5. CASE n # Len(s) /\ n # Len(s) - 1
    <2>1. n \in 1 .. Len(s) => t[n] = s[n]
      BY <1>2, <1>5 DEF Popped
    <2> QED
      BY <1>2, <1>5, <2>1 DEF Dues
  <1> QED
    BY <1>3, <1>4, <1>5

\* What is owed is the same when the pumps are.
LEMMA OwedSame ==
  ASSUME NEW s, NEW t, SameDues(s, t), NEW i
  PROVE  OwedAt(s, i) = OwedAt(t, i)
  BY DEF SameDues, OwedAt

\* So what the table and the pumps owe stays in balance.
LEMMA BalanceSame ==
  ASSUME NEW table, NEW c, NEW s, NEW t, NEW other, Balanced(table, c, s), SameDues(s, t),
         DOMAIN other = DOMAIN table
  PROVE  Balanced(other, c, t)
  BY OwedSame, Zenon DEF Balanced

-----------------------------------------------------------------------------
(***************************************************************************)
(* What a pass that may end the program was told.                          *)
(***************************************************************************)
\* Nothing the host goes by has changed: neither its frame nor its pass.
Quiet(s, t) ==
    /\ Len(s) > 1 /\ Len(t) > 1 /\ t[1] = s[1]
    /\ t[2].at = s[2].at
    /\ s[2].at = "pass" =>
           /\ t[2].n = s[2].n /\ t[2].wait = s[2].wait /\ t[2].left = s[2].left
           /\ t[2].stage = "drained" <=> s[2].stage = "drained"

\* Then the same sources have been told for the last time.
LEMMA QuietKeeps ==
  ASSUME NEW s, NEW t, NEW y, Quiet(s, t)
  PROVE  /\ \A name : Past(t, y, name) <=> Past(s, y, name)
         /\ Emptied(t, y) <=> Emptied(s, y)
         /\ LookedAt(t, y) <=> LookedAt(s, y)
  <1>1. \A n : Asking(t, n) <=> Asking(s, n)
    BY Zenon DEF Quiet, Asking
  <1>2. Asking(s, 1) \/ Asking(s, 2) => s[2].at = "pass"
    BY DEF Asking
  <1>3. Finished(t, y) <=> Finished(s, y)
    <2>1. Len(s) # 1 /\ Len(t) # 1
      BY DEF Quiet
    <2> QED
      BY <2>1, Zenon DEF Quiet, Finished
  <1>4. \A name : Past(t, y, name) <=> Past(s, y, name)
    BY <1>1, <1>2, <1>3, Zenon DEF Past, Quiet
  <1>5. Emptied(t, y) <=> Emptied(s, y)
    BY <1>1, <1>2, <1>4, Zenon DEF Emptied, Quiet
  <1>6. LookedAt(t, y) <=> LookedAt(s, y)
    BY <1>1, <1>2, <1>3, Zenon DEF LookedAt, Quiet
  <1> QED
    BY <1>4, <1>5, <1>6

\* A frame of the same name that, if it is a pass, has come no further.
Alike(f, g) ==
    /\ f.at = g.at
    /\ g.at = "pass" => /\ f.n = g.n /\ f.wait = g.wait /\ f.left = g.left
                        /\ f.stage = "drained" <=> g.stage = "drained"

\* A step of a frame above the host is quiet unless its pass goes on.
LEMMA QuietReplaced ==
  ASSUME NEW s, Stacked(s), Len(s) >= 2, NEW f, NEW t, Replaced(s, t, f), Alike(f, s[Len(s)])
  PROVE  Quiet(s, t)
  BY DEF Stacked, Replaced, Quiet, Alike

\* So is a call,
LEMMA QuietPushed ==
  ASSUME NEW s, Stacked(s), Len(s) >= 2, NEW f, NEW g, NEW t, Pushed(s, t, f, g),
         Alike(f, s[Len(s)])
  PROVE  Quiet(s, t)
  BY DEF Stacked, Pushed, Quiet, Alike

\* and a return to a frame above the host.
LEMMA QuietPopped ==
  ASSUME NEW s, Stacked(s), Len(s) >= 3, NEW f, NEW t, Popped(s, t, f), Alike(f, s[Len(s) - 1])
  PROVE  Quiet(s, t)
  BY DEF Stacked, Popped, Quiet, Alike

\* A step tells of no source that had not been told of, but those not declared.
NoFurther(s, y, t, z, src) ==
    /\ \A name : Past(t, z, name) => Past(s, y, name) \/ name \notin Range(src)
    /\ Emptied(t, z) => Emptied(s, y) \/ "threadsafe" \notin Range(src)
    /\ LookedAt(t, z) => LookedAt(s, y) \/ "threadsafe" \notin Range(src)

\* What the host goes by is the same, so no more has been told.
LEMMA QuietIsNoFurther ==
  ASSUME NEW s, NEW t, NEW y, Quiet(s, t), NEW src
  PROVE  NoFurther(s, y, t, y, src)
  BY QuietKeeps, Zenon DEF NoFurther

\* Of a source that is not declared there is nothing to tell.
LEMMA Undeclared ==
  ASSUME NEW src, NEW u, NEW b, NEW F, NEW k, NEW h, NEW c,
         b \in Nat, Worked(k), Sourced(src, u, b, F, k), Threaded(F, h, c)
  PROVE  /\ "timers" \in Range(src)
         /\ "batch" \notin Range(src) => b = 0
         /\ "work" \notin Range(src) => k.outstanding = 0
         /\ "threadsafe" \notin Range(src) => \A f \in Fns : F[f].threads = 0 /\ F[f].queued = 0
  <1>1. ASSUME "threadsafe" \notin Range(src), NEW f \in Fns PROVE F[f].threads = 0 /\ F[f].queued = 0
    <2>1. ~F[f].made
      BY <1>1 DEF Sourced, Made
    <2>2. {w \in Workers : h[w] = f} = {}
      BY <2>1, ThreadAssumption DEF Threaded
    <2> QED
      BY <2>1, <2>2, FS_EmptySet DEF Threaded
  <1> QED
    BY <1>1 DEF Sourced, Worked

\* So what was told is still true when the tables only lose what they hold, or
\* what they gain is noted.
LEMMA ToldStill ==
  ASSUME NEW s, NEW y, NEW t, NEW z, NEW src, NEW u, NEW h, NEW c,
         NEW T, NEW b, NEW k, NEW F, NEW L, NEW T2, NEW b2, NEW k2, NEW F2, NEW L2,
         NoFurther(s, y, t, z, src), Told(s, y, T, b, k, F, L),
         b2 \in Nat, Worked(k2), Sourced(src, u, b2, F2, k2), Threaded(F2, h, c),
         Past(s, y, "timers") /\ Refed(T) \subseteq L.timers => Refed(T2) \subseteq L2.timers,
         Past(s, y, "batch") /\ (b = 0 \/ L.batch) => b2 = 0 \/ L2.batch,
         Past(s, y, "work") /\ (k.outstanding = 0 \/ L.work) => k2.outstanding = 0 \/ L2.work,
         LookedAt(s, y) /\ (\A f \in Prompt(F, L) : F[f].threads = 0)
             => \A f \in Prompt(F2, L2) : F2[f].threads = 0,
         Emptied(s, y) /\ (\A f \in Prompt(F, L) : F[f].threads = 0 /\ F[f].queued = 0)
             => \A f \in Prompt(F2, L2) : F2[f].queued = 0
  PROVE  Told(t, z, T2, b2, k2, F2, L2)
  <1>0. /\ "timers" \in Range(src)
        /\ "batch" \notin Range(src) => b2 = 0
        /\ "work" \notin Range(src) => k2.outstanding = 0
        /\ "threadsafe" \notin Range(src) => \A f \in Fns : F2[f].threads = 0 /\ F2[f].queued = 0
    BY Undeclared, Zenon
  <1>1. Emptied(s, y) => LookedAt(s, y)
    BY Zenon DEF Emptied, LookedAt, Past
  <1>2. \A f \in Prompt(F2, L2) : f \in Fns
    BY DEF Prompt
  <1>3. TimersTold(t, z, T2, L2) /\ BatchTold(t, z, b2, L2) /\ WorkTold(t, z, k2, L2)
    BY <1>0, Zenon DEF Told, TimersTold, BatchTold, WorkTold, NoFurther
  <1>4. ThreadsTold(t, z, F2, L2)
    BY <1>0, <1>2, Zenon DEF Told, ThreadsTold, NoFurther
  <1>5. ItemsTold(t, z, F2, L2)
    BY <1>0, <1>1, <1>2, Zenon DEF Told, ThreadsTold, ItemsTold, NoFurther
  <1> QED
    BY <1>3, <1>4, <1>5, Zenon DEF Told

\* While a call runs above the host, what was told is told for good, and what is
\* started is late.
LEMMA PastIsDeaf ==
  ASSUME stack \in Seq(Frame), Len(stack) > 1, NEW name, Past(stack, why, name)
  PROVE  Deaf
  <1>1. ASSUME Len(stack) = 1 PROVE FALSE
    BY <1>1
  <1> QED
    BY <1>1, Zenon DEF Past, Asking, Finished, Deaf

-----------------------------------------------------------------------------
(***************************************************************************)
(* The program's steps: a piece of it runs, three frames up or more.       *)
(***************************************************************************)
LEMMA TopIs ==
  ASSUME Stacked(stack)
  PROVE  /\ Len(stack) \in Nat /\ Len(stack) >= 1 /\ stack \in Seq(Frame)
         /\ Top \in Frame /\ Sane(Top) /\ Top = stack[Len(stack)]
         /\ Top.at = "host" => Len(stack) = 1 /\ Top.stage # "asked"
         /\ Top.at # "host" => Len(stack) >= 2
         /\ Len(stack) >= 2 => /\ Caller \in Frame /\ Sane(Caller) /\ Caller = stack[Len(stack) - 1]
                               /\ Runs(Caller, Top)
                               /\ Caller.at = "host" => Len(stack) = 2
                               /\ Caller.at # "host" => Len(stack) >= 3
  <1>1. Len(stack) \in Nat /\ Len(stack) >= 1 /\ stack \in Seq(Frame)
    BY DEF Stacked
  <1>2. PICK n \in Nat : n = Len(stack)
    BY <1>1
  <1>3. /\ n >= 1 /\ \A i \in 1 .. n : stack[i] \in Frame /\ Sane(stack[i])
        /\ \A i \in 1 .. n : stack[i].at = "host" <=> i = 1
        /\ \A i \in 1 .. n - 1 : Runs(stack[i], stack[i + 1])
        /\ n = 1 => stack[1].stage # "asked"
        /\ Top = stack[n] /\ Caller = stack[n - 1]
    BY <1>1, <1>2 DEF Stacked, Top, Caller
  <1>4. Top \in Frame /\ Sane(Top) /\ Top = stack[n]
    BY <1>3
  <1>5. (Top.at = "host" => n = 1 /\ Top.stage # "asked") /\ (Top.at # "host" => n >= 2)
    BY <1>3
  <1>6. ASSUME n >= 2
        PROVE  /\ Caller \in Frame /\ Sane(Caller) /\ Caller = stack[n - 1] /\ Runs(Caller, Top)
               /\ Caller.at = "host" => n = 2
               /\ Caller.at # "host" => n >= 3
    <2>1. n - 1 \in 1 .. n /\ n - 1 \in 1 .. n - 1 /\ (n - 1) + 1 = n
      BY <1>6
    <2> QED
      BY <1>3, <2>1
  <1> QED
    BY <1>1, <1>2, <1>4, <1>5, <1>6, Zenon

\* Only a drain and a pass are called by the host.
LEMMA Above ==
  ASSUME Stacked(stack), Top.at \notin {"host", "drain", "pass"}
  PROVE  Len(stack) >= 3
  <1>1. Len(stack) >= 2
    BY TopIs
  <1>2. Caller.at # "host"
    BY <1>1, TopIs DEF Runs
  <1> QED
    BY <1>1, <1>2, TopIs

\* The last frame becomes another of its name.
LEMMA Onwards ==
  ASSUME Stacked(stack), NEW f \in Frame, stack' = With(f), f.at = Top.at, Sane(f), Top.at # "host"
  PROVE  /\ Stacked(stack') /\ Replaced(stack, stack', f)
         /\ DueOf(f) = DueOf(Top) => SameDues(stack, stack')
         /\ Alike(f, Top) => Quiet(stack, stack')
  <1>1. Replaced(stack, stack', f)
    BY TopIs, WithIs DEF With
  <1>2. Stacked(stack')
    BY <1>1, TopIs, StackReplaced
  <1>3. Len(stack) >= 2 /\ Top = stack[Len(stack)]
    BY TopIs
  <1> QED
    BY <1>1, <1>2, <1>3, DuesReplaced, QuietReplaced

\* The last frame calls another.
LEMMA Calling ==
  ASSUME Stacked(stack), NEW f \in Frame, NEW g \in Frame, stack' = Call(f, g), f.at = Top.at,
         Sane(f), Sane(g), Runs(f, g), DueOf(g) = <<>>
  PROVE  /\ Stacked(stack') /\ Pushed(stack, stack', f, g)
         /\ DueOf(f) = DueOf(Top) => SameDues(stack, stack')
         /\ Alike(f, Top) /\ Top.at # "host" => Quiet(stack, stack')
  <1>1. Pushed(stack, stack', f, g)
    BY TopIs, CallIs DEF With, Call
  <1>2. Stacked(stack')
    BY <1>1, TopIs, StackPushed
  <1>3. /\ Top = stack[Len(stack)]
        /\ Top.at # "host" => Len(stack) >= 2
    BY TopIs
  <1> QED
    BY <1>1, <1>2, <1>3, DuesPushed, QuietPushed

\* The last frame returns, and its caller becomes another of its name.
LEMMA Returning ==
  ASSUME Stacked(stack), NEW f \in Frame, Popped(stack, stack', f), Top.at # "host",
         f.at = Caller.at, Sane(f), Caller.at = "host" => f.stage # "asked", DueOf(Top) = <<>>
  PROVE  /\ Stacked(stack')
         /\ DueOf(f) = DueOf(Caller) => SameDues(stack, stack')
         /\ Alike(f, Caller) /\ Caller.at # "host" => Quiet(stack, stack')
  <1>1. Len(stack) >= 2
    BY TopIs
  <1>2. Stacked(stack')
    BY <1>1, TopIs, StackPopped
  <1>3. /\ Top = stack[Len(stack)] /\ Caller = stack[Len(stack) - 1]
        /\ Caller.at # "host" => Len(stack) >= 3
    BY <1>1, TopIs
  <1> QED
    BY <1>1, <1>2, <1>3, DuesPopped, QuietPopped

\* Return as it is used by the actions.
LEMMA Returns ==
  ASSUME Stacked(stack), stack' = Return, Top.at # "host"
  PROVE  Popped(stack, stack', Caller) /\ Alike(Caller, Caller)
  BY TopIs, ReturnIs DEF Return, Alike

\* ReturnTo as it is used by the actions.
LEMMA ReturnsTo ==
  ASSUME Stacked(stack), NEW f \in Frame, stack' = ReturnTo(f), Top.at # "host"
  PROVE  Popped(stack, stack', f)
  BY TopIs, ReturnToIs DEF Return, ReturnTo

\* A piece of the program goes on after a call of its own.
LEMMA CodeOnwards ==
  ASSUME IInv, Top.at = "code", NEW owes \in [left : Delays, signal : BOOLEAN, wanted : BOOLEAN],
         NEW asked \in BOOLEAN, stack' = With([Top EXCEPT !.owes = owes, !.asked = asked])
  PROVE  /\ Stacked(stack') /\ SameDues(stack, stack') /\ Quiet(stack, stack')
         /\ Len(stack) >= 3
  <1> DEFINE f == [Top EXCEPT !.owes = owes, !.asked = asked]
  <1>1. Stacked(stack) /\ Top \in CodeFrame
    BY TopIs, KindOf DEF IInv
  <1>2. f \in CodeFrame /\ f.at = "code"
    BY <1>1 DEF CodeFrame
  <1> HIDE DEF f
  <1>3. f \in Frame /\ Sane(f) /\ DueOf(f) = DueOf(Top) /\ Alike(f, Top)
    BY <1>2, FrameIs DEF Sane, DueOf, Alike
  <1>4. Len(stack) >= 3
    BY <1>1, Above
  <1> QED
    BY <1>1, <1>2, <1>3, <1>4, Onwards DEF f
\* In particular after an operation that only looks for a throw.
LEMMA CodeContinues ==
  ASSUME IInv, Running, Continues
  PROVE  /\ Stacked(stack') /\ SameDues(stack, stack') /\ Quiet(stack, stack')
         /\ Len(stack) >= 3
  <1>1. Top \in CodeFrame /\ thrown \in BOOLEAN
    BY TopIs, KindOf DEF IInv, Running, Flagged
  <1>2. Top.owes \in [left : Delays, signal : BOOLEAN, wanted : BOOLEAN]
    BY <1>1 DEF CodeFrame
  <1>3. [Top EXCEPT !.owes = Top.owes, !.asked = thrown] = [Top EXCEPT !.asked = thrown]
    BY <1>1 DEF CodeFrame
  <1> QED
    BY <1>1, <1>2, <1>3, CodeOnwards, Zenon DEF Continues, Running

-----------------------------------------------------------------------------
(***************************************************************************)
(* The table of timers.                                                    *)
(***************************************************************************)
\* The bounds, and the sentinel that is no wait.
LEMMA Bounds ==
  /\ MaxTimers \in Nat /\ MaxDelay \in Nat /\ MaxDelay >= 1
  /\ Nothing \in Nat /\ Nothing = MaxDelay + 1
  /\ \A d \in Delays : d \in Nat /\ d <= MaxDelay
  /\ Ids \subseteq Promises /\ 0 \in Promises /\ Ids \subseteq Nat
  BY TimerBounds DEF Nothing, Delays, Ids, Promises

\* What Put, Forget, SetRefed, Elapse and Take make of the table of timers.
LEMMA PutIs ==
  ASSUME NEW T, Table(T), NEW id \in Ids, NEW x \in Timer
  PROVE  /\ Table(Put(T, id, x)) /\ DOMAIN Put(T, id, x) = DOMAIN T \cup {id}
         /\ Refed(Put(T, id, x)) \subseteq Refed(T) \cup {id}
  <1>1. DOMAIN Put(T, id, x) = DOMAIN T \cup {id}
    BY DEF Put
  <1>2. \A i \in DOMAIN T \cup {id} : Put(T, id, x)[i] = IF i = id THEN x ELSE T[i]
    BY DEF Put
  <1>3. Table(Put(T, id, x))
    BY <1>1, <1>2 DEF Table, Put
  <1> QED
    BY <1>1, <1>2, <1>3 DEF Refed

\* Forgetting leaves the other timers as they were.
LEMMA ForgetIs ==
  ASSUME NEW T, Table(T), NEW S
  PROVE  /\ Table(Forget(T, S)) /\ DOMAIN Forget(T, S) = DOMAIN T \ S
         /\ Refed(Forget(T, S)) \subseteq Refed(T)
  BY DEF Forget, Table, Refed

\* ref and unref touch at most the timer they name.
LEMMA RefIs ==
  ASSUME NEW T, Table(T), NEW id \in Ids, NEW refed \in BOOLEAN
  PROVE  /\ Table(SetRefed(T, id, refed)) /\ DOMAIN SetRefed(T, id, refed) = DOMAIN T
         /\ Refed(SetRefed(T, id, refed)) \subseteq Refed(T) \cup {id}
  <1> DEFINE R == SetRefed(T, id, refed)
  <1>1. CASE id \notin DOMAIN T
    BY <1>1 DEF SetRefed
  <1>2. CASE id \in DOMAIN T
    <2>1. R = [T EXCEPT ![id].refed = refed]
      BY <1>2 DEF SetRefed
    <2>2. T[id] \in Timer
      BY <1>2 DEF Table
    <2>3. [T[id] EXCEPT !.refed = refed] \in Timer
      BY <2>2 DEF Timer
    <2>4. DOMAIN R = DOMAIN T /\ \A i \in DOMAIN T : R[i] = IF i = id THEN [T[id] EXCEPT !.refed = refed] ELSE T[i]
      BY <2>1
    <2>5. Table(R)
      BY <2>1, <2>3 DEF Table
    <2> QED
      BY <2>4, <2>5 DEF Refed
  <1> QED
    BY <1>1, <1>2

\* Time removes no timer and makes none hold the program open.
LEMMA ElapseIs ==
  ASSUME NEW T, Table(T), NEW d \in Nat
  PROVE  /\ Table(Elapse(T, d)) /\ DOMAIN Elapse(T, d) = DOMAIN T
         /\ Refed(Elapse(T, d)) = Refed(T)
  <1> DEFINE later(i) == [T[i] EXCEPT !.left = IF T[i].left > d THEN T[i].left - d ELSE 0]
  <1>1. ASSUME NEW i \in DOMAIN T PROVE later(i) \in Timer /\ later(i).refed = T[i].refed
    <2>1. T[i] \in Timer
      BY DEF Table
    <2>2. T[i].left \in Delays
      BY <2>1 DEF Timer
    <2>3. (IF T[i].left > d THEN T[i].left - d ELSE 0) \in Delays
      BY <2>2, Bounds DEF Delays
    <2> QED
      BY <2>1, <2>3 DEF Timer
  <1>2. Elapse(T, d) = [i \in DOMAIN T |-> later(i)]
    BY DEF Elapse
  <1> HIDE DEF later
  <1>3. DOMAIN Elapse(T, d) = DOMAIN T /\ \A i \in DOMAIN T : Elapse(T, d)[i] = later(i)
    BY <1>2
  <1>4. Table(Elapse(T, d))
    BY <1>1, <1>2, <1>3 DEF Table
  <1> QED
    BY <1>1, <1>3, <1>4 DEF Refed

\* Taking what is due adds no timer and makes none hold the program open.
LEMMA TakeIs ==
  ASSUME NEW T, Table(T)
  PROVE  /\ Table(Take(T)) /\ DOMAIN Take(T) = Kept(T) /\ Kept(T) \subseteq DOMAIN T
         /\ Refed(Take(T)) \subseteq Refed(T)
  <1> DEFINE again(i) == IF T[i].left > 0 THEN T[i] ELSE [T[i] EXCEPT !.left = T[i].period]
  <1>1. ASSUME NEW i \in DOMAIN T PROVE again(i) \in Timer /\ again(i).refed = T[i].refed
    <2>1. T[i] \in Timer
      BY DEF Table
    <2>2. [T[i] EXCEPT !.left = T[i].period] \in Timer
      BY <2>1 DEF Timer
    <2> QED
      BY <2>1, <2>2 DEF Timer
  <1>2. Take(T) = [i \in Kept(T) |-> again(i)]
    BY DEF Take
  <1>3. Kept(T) \subseteq DOMAIN T
    BY DEF Kept
  <1> HIDE DEF again
  <1>4. DOMAIN Take(T) = Kept(T) /\ \A i \in Kept(T) : Take(T)[i] = again(i)
    BY <1>2
  <1>5. Table(Take(T))
    BY <1>1, <1>2, <1>3, <1>4 DEF Table
  <1> QED
    BY <1>1, <1>3, <1>4, <1>5 DEF Refed

\* What the timers answer is a wait, and none only when none holds the program open.
LEMMA AnswerIs ==
  ASSUME NEW T, Table(T)
  PROVE  /\ Outstanding(T).wait \in 0 .. Nothing /\ Outstanding(T).blocked \in BOOLEAN
         /\ Outstanding(T).wait = Nothing => Refed(T) = {}
  <1>1. CASE Refed(T) = {}
    BY <1>1, Bounds DEF Outstanding, Blocked, Idle
  <1>2. CASE Refed(T) # {}
    <2> DEFINE S == {T[i].left : i \in Refed(T)}
    <2>1. \A i \in Refed(T) : T[i].left \in Delays
      BY DEF Table, Refed, Timer
    <2>2. S \in SUBSET Nat /\ S # {} /\ S \subseteq Delays
      BY <1>2, <2>1, Bounds
    <2> HIDE DEF S
    <2>3. \E x \in S : \A y \in S : x <= y
      BY <2>2, LeastExists
    <2>4. Least(S) \in S
      BY <2>3, Zenon DEF Least
    <2>5. Outstanding(T) = In(Least(S))
      BY <1>2 DEF Outstanding, S
    <2>6. /\ Least(S) \in Delays
          /\ Outstanding(T).wait = Least(S) /\ Outstanding(T).blocked = FALSE
      <3>1. Least(S) \in Delays
        BY <2>2, <2>4
      <3>2. PICK l : l = Least(S)
        OBVIOUS
      <3>3. In(l).wait = l /\ In(l).blocked = FALSE
        BY DEF In
      <3> QED
        BY <2>5, <3>1, <3>2, <3>3, Zenon
    <2>7. PICK l \in Delays : l = Least(S)
      BY <2>6
    <2>8. l \in 0 .. Nothing /\ l # Nothing
      BY Bounds DEF Delays
    <2> QED
      BY <2>6, <2>7, <2>8
  <1> QED
    BY <1>1, <1>2

-----------------------------------------------------------------------------
(***************************************************************************)
(* Each arming is called for once.                                         *)
(***************************************************************************)
LEMMA DuesType ==
  ASSUME NEW s, Stacked(s), NEW n \in Nat
  PROVE  Dues(s, n) \in Seq(Called)
  <1>1. CASE n \in 1 .. Len(s) /\ s[n].at = "pump"
    <2>1. s[n] \in Frame
      BY <1>1 DEF Stacked
    <2>2. s[n] \in PumpFrame
      BY <1>1, <2>1, KindOf
    <2> QED
      BY <1>1, <2>2 DEF PumpFrame, Dues
  <1>2. CASE ~(n \in 1 .. Len(s) /\ s[n].at = "pump")
    BY <1>2 DEF Dues
  <1> QED
    BY <1>1, <1>2

\* What is owed is finite, so it can be counted.
LEMMA OwedFinite ==
  ASSUME NEW s, Stacked(s), NEW i
  PROVE  IsFiniteSet(OwedAt(s, i)) /\ Cardinality(OwedAt(s, i)) \in Nat
  <1> DEFINE S == 1 .. Len(s)
             g == [n \in S |-> {n} \X (1 .. Len(Dues(s, n)))]
  <1>1. Len(s) \in Nat
    BY DEF Stacked
  <1>2. IsFiniteSet(S)
    BY <1>1, FS_Interval
  <1>3. ASSUME NEW n \in S PROVE IsFiniteSet(g[n])
    <2>1. Len(Dues(s, n)) \in Nat
      BY <1>1, DuesType
    <2>2. IsFiniteSet(1 .. Len(Dues(s, n)))
      BY <2>1, FS_Interval
    <2>3. IsFiniteSet({n})
      BY FS_Singleton
    <2>4. IsFiniteSet({n} \X (1 .. Len(Dues(s, n))))
      BY <2>2, <2>3, FS_Product
    <2> QED
      BY <2>4
  <1>4. IsFiniteSet(UNION {g[n] : n \in S})
    <2> HIDE DEF g, S
    <2> QED
      BY <1>2, <1>3, FiniteUnion, Zenon
  <1>5. OwedAt(s, i) \subseteq UNION {g[n] : n \in S}
    <2>1. SUFFICES ASSUME NEW p \in OwedAt(s, i) PROVE p \in UNION {g[n] : n \in S}
      OBVIOUS
    <2>2. p \in Nat \X Nat /\ p[2] \in 1 .. Len(Dues(s, p[1]))
      BY DEF OwedAt
    <2>3. PICK n \in Nat, k \in Nat : p = <<n, k>>
      BY <2>2
    <2>4. k \in 1 .. Len(Dues(s, n))
      BY <2>2, <2>3
    <2>5. n \in S
      BY <2>4 DEF Dues
    <2>6. p \in g[n]
      BY <2>3, <2>4, <2>5
    <2> QED
      BY <2>5, <2>6
  <1> HIDE DEF g, S
  <1>6. IsFiniteSet(OwedAt(s, i))
    BY <1>4, <1>5, FS_Subset, Zenon
  <1> QED
    BY <1>6, FS_CardinalityType

\* A timer armed is owed one call more, unless it replaces an arming.
LEMMA BalanceArmed ==
  ASSUME NEW T, NEW c, NEW s, NEW t, Stacked(s), Balanced(T, c, s), SameDues(s, t),
         NEW id \in Ids, NEW x
  PROVE  Balanced(Put(T, id, x), [c EXCEPT ![id] = IF id \in DOMAIN T THEN @ ELSE @ + 1], t)
  <1> DEFINE e == [c EXCEPT ![id] = IF id \in DOMAIN T THEN @ ELSE @ + 1]
  <1>1. c \in [Ids -> Nat] /\ e \in [Ids -> Nat]
    BY DEF Balanced
  <1>2. DOMAIN Put(T, id, x) = DOMAIN T \cup {id}
    BY DEF Put
  <1>3. ASSUME NEW i \in Ids
        PROVE e[i] = (IF i \in DOMAIN Put(T, id, x) THEN 1 ELSE 0) + Cardinality(OwedAt(t, i))
    <2>1. OwedAt(s, i) = OwedAt(t, i) /\ Cardinality(OwedAt(s, i)) \in Nat
      BY OwedSame, OwedFinite
    <2>2. c[i] = (IF i \in DOMAIN T THEN 1 ELSE 0) + Cardinality(OwedAt(t, i))
      BY <2>1 DEF Balanced
    <2>3. e[i] = IF i = id /\ i \notin DOMAIN T THEN c[i] + 1 ELSE c[i]
      BY <1>1
    <2> QED
      BY <1>2, <2>1, <2>2, <2>3
  <1> QED
    BY <1>1, <1>3 DEF Balanced

\* A timer forgotten is owed one call less.
LEMMA BalanceForgotten ==
  ASSUME NEW T, NEW c, NEW s, NEW t, Stacked(s), Balanced(T, c, s), SameDues(s, t),
         NEW S, NEW e, e = [i \in Ids |-> IF i \in S /\ i \in DOMAIN T THEN c[i] - 1 ELSE c[i]]
  PROVE  Balanced(Forget(T, S), e, t)
  <1>1. c \in [Ids -> Nat]
    BY DEF Balanced
  <1>2. DOMAIN Forget(T, S) = DOMAIN T \ S
    BY DEF Forget
  <1>3. ASSUME NEW i \in Ids
        PROVE /\ e[i] = (IF i \in DOMAIN Forget(T, S) THEN 1 ELSE 0) + Cardinality(OwedAt(t, i))
              /\ e[i] \in Nat
    <2>1. OwedAt(s, i) = OwedAt(t, i) /\ Cardinality(OwedAt(s, i)) \in Nat
      BY OwedSame, OwedFinite
    <2>2. c[i] = (IF i \in DOMAIN T THEN 1 ELSE 0) + Cardinality(OwedAt(t, i))
      BY <2>1 DEF Balanced
    <2>3. e[i] = IF i \in S /\ i \in DOMAIN T THEN c[i] - 1 ELSE c[i]
      OBVIOUS
    <2> QED
      BY <1>2, <2>1, <2>2, <2>3
  <1>4. e \in [Ids -> Nat]
    BY <1>3
  <1> QED
    BY <1>3, <1>4 DEF Balanced

\* The calls one pump owes a timer, and what the other pumps owe it.
Calls(due, i) == {k \in 1 .. Len(due) : due[k].id = i /\ ~due[k].again}
OwedElsewhere(s, n, i) == {p \in OwedAt(s, i) : p[1] # n}

\* What is owed is what one pump owes and what the others owe.
LEMMA OwedSplit ==
  ASSUME NEW s, Stacked(s), NEW n \in Nat, NEW i
  PROVE  /\ Cardinality(OwedElsewhere(s, n, i)) \in Nat
         /\ IsFiniteSet(Calls(Dues(s, n), i)) /\ Cardinality(Calls(Dues(s, n), i)) \in Nat
         /\ Cardinality(OwedAt(s, i))
            = Cardinality(OwedElsewhere(s, n, i)) + Cardinality(Calls(Dues(s, n), i))
  <1> DEFINE C == Calls(Dues(s, n), i)
             A == OwedElsewhere(s, n, i)
             B == {n} \X C
             g == [k \in C |-> <<n, k>>]
  <1>1. Len(Dues(s, n)) \in Nat
    BY DuesType
  <1>2. IsFiniteSet(C)
    <2>1. IsFiniteSet(1 .. Len(Dues(s, n))) /\ C \subseteq 1 .. Len(Dues(s, n))
      BY <1>1, FS_Interval DEF Calls
    <2> QED
      BY <2>1, FS_Subset, Zenon
  <1>3. IsFiniteSet(A)
    <2>1. A \subseteq OwedAt(s, i) /\ IsFiniteSet(OwedAt(s, i))
      BY OwedFinite DEF OwedElsewhere
    <2> QED
      BY <2>1, FS_Subset, Zenon
  <1>4. ExistsBijection(C, B)
    <2>1. g \in [C -> B] /\ (\A k, l \in C : g[k] = g[l] => k = l) /\ \A b \in B : \E k \in C : g[k] = b
      OBVIOUS
    <2>2. g \in Bijection(C, B)
      BY <2>1 DEF Bijection, Injection, Surjection, IsInjective
    <2> QED
      BY <2>2, Zenon DEF ExistsBijection
  <1>5. IsFiniteSet(B) /\ Cardinality(B) = Cardinality(C)
    BY <1>2, <1>4, FS_Bijection, Zenon
  <1>6. OwedAt(s, i) = A \cup B /\ A \cap B = {}
    <2>1. C \subseteq Nat
      BY <1>1 DEF Calls
    <2>2. ASSUME NEW p \in OwedAt(s, i), p[1] = n PROVE p \in B
      <3>1. PICK m \in Nat, k \in Nat : p = <<m, k>>
        BY DEF OwedAt
      <3>2. m = n /\ k \in C
        BY <2>2, <3>1 DEF OwedAt, Calls
      <3> QED
        BY <3>1, <3>2
    <2>3. ASSUME NEW p \in B PROVE p \in OwedAt(s, i) /\ p[1] = n
      <3>1. PICK k \in C : p = <<n, k>>
        OBVIOUS
      <3> QED
        BY <2>1, <3>1 DEF OwedAt, Calls
    <2> HIDE DEF B
    <2> QED
      BY <2>2, <2>3 DEF OwedElsewhere
  <1> HIDE DEF A, B, C
  <1>7. Cardinality(A \cup B) = Cardinality(A) + Cardinality(B)
    <2>1. Cardinality(A \cap B) = 0
      BY <1>6, FS_EmptySet
    <2>2. Cardinality(A) \in Nat /\ Cardinality(B) \in Nat
      BY <1>3, <1>5, FS_CardinalityType
    <2>3. Cardinality(A \cup B) = Cardinality(A) + Cardinality(B) - Cardinality(A \cap B)
      BY <1>3, <1>5, FS_Union, Zenon
    <2> QED
      BY <2>1, <2>2, <2>3
  <1>8. Cardinality(A) \in Nat /\ Cardinality(C) \in Nat
    BY <1>2, <1>3, FS_CardinalityType
  <1> QED
    BY <1>2, <1>5, <1>6, <1>7, <1>8, Zenon DEF A, C

\* The other pumps owe what they owed when only this one changed.
LEMMA ElsewhereSame ==
  ASSUME NEW s, NEW t, NEW n, \A m \in Nat : m # n => Dues(t, m) = Dues(s, m), NEW i
  PROVE  OwedElsewhere(t, n, i) = OwedElsewhere(s, n, i)
  BY DEF OwedElsewhere, OwedAt

\* What is due is called in order, each once.
LEMMA OrderIs ==
  ASSUME NEW T, Table(T)
  PROVE  Enumerates(InFiringOrder(T), Due(T))
  <1> DEFINE below == [i \in Due(T) |-> Before(T, i)]
             a == InFiringOrder(T)
  <1>1. Due(T) \subseteq Ids /\ Due(T) \subseteq Nat
    BY Bounds DEF Table, Due
  <1>2. IsFiniteSet(Due(T))
    <2>1. IsFiniteSet(Ids)
      BY TimerBounds, FS_Interval DEF Ids
    <2> QED
      BY <1>1, <2>1, FS_Subset, Zenon
  <1>3. \A i \in Due(T) : T[i].immediate \in BOOLEAN
    BY DEF Due, Table, Timer
  <1>4. Ordering(below, Due(T))
    <2>1. \A c \in Due(T) : below[c] = {j \in Due(T) : Earlier(T, j, c)}
      BY DEF Before
    <2>2. \A c, e \in Due(T) : c # e => Earlier(T, c, e) \/ Earlier(T, e, c)
      BY <1>1, <1>3 DEF Earlier
    <2>3. \A c, d, e \in Due(T) : Earlier(T, c, d) /\ Earlier(T, d, e) => Earlier(T, c, e)
      BY <1>1, <1>3 DEF Earlier
    <2>4. \A c \in Due(T) : ~Earlier(T, c, c)
      BY <1>1, <1>3 DEF Earlier
    <2> HIDE DEF below
    <2> QED
      BY <2>1, <2>2, <2>3, <2>4 DEF Ordering
  <1>5. a = [i \in 1 .. Cardinality(Due(T)) |->
                CHOOSE c \in Due(T) : Cardinality(below[c]) = i - 1]
    <2>1. \A i : (CHOOSE c \in Due(T) : Cardinality(Before(T, c)) = i - 1)
                 = (CHOOSE c \in Due(T) : Cardinality(below[c]) = i - 1)
      OBVIOUS
    <2> HIDE DEF below
    <2> QED
      BY <2>1 DEF InFiringOrder
  <1> HIDE DEF below, a
  <1> QED
    BY <1>2, <1>4, <1>5, Listing, ZenonT(60) DEF a

\* What the pump takes: each due timer, in order, and whether it comes again.
TakenFrom(T) ==
  [k \in DOMAIN InFiringOrder(T) |->
      [id |-> InFiringOrder(T)[k], settles |-> T[InFiringOrder(T)[k]].settles,
       again |-> T[InFiringOrder(T)[k]].period > 0]]

\* What the pump takes is a list of calls, one for each due timer that comes no more.
LEMMA TakenIs ==
  ASSUME NEW T, Table(T)
  PROVE  /\ TakenFrom(T) \in Seq(Called)
         /\ \A i \in Ids : Cardinality(Calls(TakenFrom(T), i))
                           = IF i \in Due(T) /\ T[i].period = 0 THEN 1 ELSE 0
  <1>1. PICK o : o = InFiringOrder(T)
    OBVIOUS
  <1>2. Enumerates(o, Due(T))
    BY <1>1, OrderIs, Zenon
  <1>3. PICK n \in Nat : n = Len(o)
    BY <1>2 DEF Enumerates
  <1>4. /\ DOMAIN o = 1 .. n /\ \A k \in 1 .. n : o[k] \in Due(T)
        /\ \A k, l \in 1 .. n : k # l => o[k] # o[l]
        /\ \A i \in Due(T) : \E k \in 1 .. n : o[k] = i
    BY <1>2, <1>3 DEF Enumerates
  <1>5. \A i \in Due(T) : i \in Ids /\ T[i].settles \in BOOLEAN /\ T[i].period \in Nat
    BY Bounds DEF Due, Table, Timer
  <1> DEFINE call(k) == [id |-> o[k], settles |-> T[o[k]].settles, again |-> T[o[k]].period > 0]
             due == TakenFrom(T)
  <1>6. due = [k \in 1 .. n |-> call(k)]
    BY <1>1, <1>4, Zenon DEF TakenFrom
  <1>7. \A k \in 1 .. n : call(k) \in Called
    BY <1>4, <1>5 DEF Called
  <1>8. \A k \in 1 .. n : call(k).id = o[k] /\ (call(k).again <=> T[o[k]].period > 0)
    OBVIOUS
  <1> HIDE DEF call
  <1>9. due \in Seq(Called) /\ Len(due) = n /\ \A k \in 1 .. n : due[k] = call(k)
    BY <1>6, <1>7
  <1> HIDE DEF due
  <1>10. ASSUME NEW i \in Ids
         PROVE  Cardinality(Calls(due, i)) = IF i \in Due(T) /\ T[i].period = 0 THEN 1 ELSE 0
    <2>1. \A k : k \in Calls(due, i) <=> k \in 1 .. n /\ o[k] = i /\ ~(T[i].period > 0)
      BY <1>8, <1>9 DEF Calls
    <2>2. CASE i \in Due(T) /\ T[i].period = 0
      <3>1. PICK k \in 1 .. n : o[k] = i
        BY <1>4, <2>2
      <3>2. Calls(due, i) = {k}
        BY <1>4, <2>1, <2>2, <3>1
      <3> QED
        BY <2>2, <3>2, FS_Singleton
    <2>3. CASE ~(i \in Due(T) /\ T[i].period = 0)
      <3>1. Calls(due, i) = {}
        BY <1>4, <1>5, <2>1, <2>3
      <3> QED
        BY <2>3, <3>1, FS_EmptySet
    <2> QED
      BY <2>2, <2>3
  <1> QED
    BY <1>9, <1>10 DEF due

\* What a pump takes from the table it owes.
LEMMA BalanceTaken ==
  ASSUME NEW T, Table(T), NEW c, NEW s, Stacked(s), Balanced(T, c, s), NEW f \in Frame, NEW t,
         Replaced(s, t, f), s[Len(s)].at = "pump", s[Len(s)].due = <<>>,
         f.at = "pump", f.due = TakenFrom(T), Stacked(t)
  PROVE  Balanced(Take(T), c, t)
  <1>1. PICK n \in Nat : n = Len(s)
    BY DEF Stacked
  <1>2. n >= 1 /\ Dues(s, n) = <<>> /\ Dues(t, n) = TakenFrom(T)
    BY <1>1 DEF Stacked, Replaced, Dues
  <1>3. \A m \in Nat : m # n => Dues(t, m) = Dues(s, m)
    BY <1>1 DEF Stacked, Replaced, Dues
  <1>4. ASSUME NEW i \in Ids
        PROVE  c[i] = (IF i \in DOMAIN Take(T) THEN 1 ELSE 0) + Cardinality(OwedAt(t, i))
    <2>1. Calls(<<>>, i) = {} /\ Cardinality(Calls(<<>>, i)) = 0
      BY FS_EmptySet DEF Calls
    <2>2. PICK e \in Nat : e = Cardinality(OwedElsewhere(s, n, i))
      BY OwedSplit
    <2>3. Cardinality(OwedAt(s, i)) = e
      <3>1. Cardinality(OwedAt(s, i)) = e + Cardinality(Calls(<<>>, i))
        <4>1. Cardinality(OwedAt(s, i))
              = Cardinality(OwedElsewhere(s, n, i)) + Cardinality(Calls(Dues(s, n), i))
          BY OwedSplit
        <4> QED
          BY <1>2, <2>2, <4>1, Zenon
      <3> QED
        BY <2>1, <3>1
    <2>4. Cardinality(OwedAt(t, i)) = e + Cardinality(Calls(TakenFrom(T), i))
      <3>1. Cardinality(OwedAt(t, i))
            = Cardinality(OwedElsewhere(t, n, i)) + Cardinality(Calls(Dues(t, n), i))
        BY OwedSplit
      <3>2. OwedElsewhere(t, n, i) = OwedElsewhere(s, n, i)
        BY <1>3, ElsewhereSame
      <3> QED
        BY <1>2, <2>2, <3>1, <3>2, Zenon
    <2>5. Cardinality(Calls(TakenFrom(T), i)) = IF i \in Due(T) /\ T[i].period = 0 THEN 1 ELSE 0
      BY TakenIs
    <2>6. i \in DOMAIN T => T[i].left \in Nat /\ T[i].period \in Nat
      BY Bounds DEF Table, Timer
    <2>7. i \in DOMAIN Take(T) <=> i \in DOMAIN T /\ ~(i \in Due(T) /\ T[i].period = 0)
      <3>1. DOMAIN Take(T) = Kept(T)
        BY TakeIs
      <3> QED
        BY <2>6, <3>1 DEF Kept, Due
    <2>8. c[i] = (IF i \in DOMAIN T THEN 1 ELSE 0) + e
      BY <2>3 DEF Balanced
    <2>9. i \in Due(T) => i \in DOMAIN T
      BY DEF Due
    <2> QED
      BY <2>4, <2>5, <2>7, <2>8, <2>9
  <1> QED
    BY <1>4 DEF Balanced

\* The first call made, the rest are owed.
LEMMA CallsAfter ==
  ASSUME NEW due \in Seq(Called), due # <<>>, NEW i
  PROVE  /\ Cardinality(Calls(Tail(due), i)) \in Nat
         /\ Cardinality(Calls(due, i))
            = Cardinality(Calls(Tail(due), i))
              + (IF Head(due).id = i /\ ~Head(due).again THEN 1 ELSE 0)
  <1>1. PICK n \in Nat : n = Len(due)
    OBVIOUS
  <1>2. n >= 1 /\ Len(Tail(due)) = n - 1 /\ Head(due) = due[1]
        /\ \A k \in 1 .. n - 1 : Tail(due)[k] = due[k + 1]
    BY <1>1
  <1> DEFINE A == Calls(Tail(due), i)
             B == Calls(due, i)
             g == [k \in A |-> k + 1]
  <1>3. \A k : k \in A <=> k \in 1 .. n - 1 /\ due[k + 1].id = i /\ ~due[k + 1].again
    BY <1>2 DEF Calls
  <1>4. \A k : k \in B <=> k \in 1 .. n /\ due[k].id = i /\ ~due[k].again
    BY <1>1 DEF Calls
  <1>5. A \subseteq Nat /\ B \subseteq 1 .. n
    BY <1>3, <1>4
  <1> HIDE DEF A, B
  <1>6. ExistsBijection(A, B \ {1})
    <2>1. g \in [A -> B \ {1}]
      BY <1>1, <1>3, <1>4
    <2>2. \A k, l \in A : g[k] = g[l] => k = l
      BY <1>5
    <2>3. ASSUME NEW b \in B \ {1} PROVE \E k \in A : g[k] = b
      <3>1. b - 1 \in A /\ g[b - 1] = b
        <4>1. b \in 2 .. n /\ b - 1 \in 1 .. n - 1 /\ (b - 1) + 1 = b
          BY <1>1, <1>4
        <4> QED
          BY <1>3, <1>4, <4>1
      <3> QED
        BY <3>1
    <2>4. g \in Bijection(A, B \ {1})
      BY <2>1, <2>2, <2>3 DEF Bijection, Injection, Surjection, IsInjective
    <2> QED
      BY <2>4, Zenon DEF ExistsBijection
  <1>7. IsFiniteSet(B)
    <2>1. IsFiniteSet(1 .. n)
      BY FS_Interval
    <2> QED
      BY <1>5, <2>1, FS_Subset, Zenon
  <1>8. IsFiniteSet(B \ {1}) /\ Cardinality(B \ {1}) = IF 1 \in B THEN Cardinality(B) - 1 ELSE Cardinality(B)
    BY <1>7, FS_RemoveElement
  <1>9. Cardinality(A) = Cardinality(B \ {1})
    <2>1. IsFiniteSet(A)
      <3>1. A \subseteq 1 .. n
        BY <1>1, <1>3
      <3>2. IsFiniteSet(1 .. n)
        BY FS_Interval
      <3> QED
        BY <3>1, <3>2, FS_Subset, Zenon
    <2> QED
      BY <1>6, <2>1, FS_Bijection, Zenon
  <1>10. Cardinality(B) \in Nat /\ Cardinality(B \ {1}) \in Nat
    BY <1>7, <1>8, FS_CardinalityType
  <1>11. 1 \in B <=> Head(due).id = i /\ ~Head(due).again
    BY <1>1, <1>2, <1>4
  <1> QED
    BY <1>8, <1>9, <1>10, <1>11 DEF A, B

\* A call made is owed no more.
LEMMA BalanceFired ==
  ASSUME NEW T, NEW c, NEW s, Stacked(s), Balanced(T, c, s), NEW t, Stacked(t), NEW f,
         s[Len(s)].at = "pump", s[Len(s)].due # <<>>, f.at = "pump",
         f.due = Tail(s[Len(s)].due), NEW g, DueOf(g) = <<>>, Pushed(s, t, f, g)
  PROVE  Balanced(T, [c EXCEPT ![Head(s[Len(s)].due).id] =
                                   IF Head(s[Len(s)].due).again THEN @ ELSE @ - 1], t)
  <1>1. PICK n \in Nat : n = Len(s)
    BY DEF Stacked
  <1>2. PICK due : due = s[n].due
    OBVIOUS
  <1>3. PICK d : d = Head(due)
    OBVIOUS
  <1>4. n >= 1 /\ Dues(s, n) = due /\ Dues(t, n) = Tail(due) /\ due # <<>>
    BY <1>1, <1>2 DEF Stacked, Pushed, Dues
  <1>5. due \in Seq(Called) /\ d \in Called
    <2>1. due \in Seq(Called)
      BY <1>4, DuesType
    <2> QED
      BY <1>3, <1>4, <2>1
  <1>6. \A m \in Nat : m # n => Dues(t, m) = Dues(s, m)
    BY <1>1 DEF Stacked, Pushed, Dues, DueOf
  <1> DEFINE e == [c EXCEPT ![d.id] = IF d.again THEN @ ELSE @ - 1]
  <1>7. c \in [Ids -> Nat] /\ \A i \in Ids : e[i] = IF i = d.id /\ ~d.again THEN c[i] - 1 ELSE c[i]
    BY DEF Balanced
  <1>8. ASSUME NEW i \in Ids
        PROVE  /\ e[i] = (IF i \in DOMAIN T THEN 1 ELSE 0) + Cardinality(OwedAt(t, i))
               /\ e[i] \in Nat
    <2>1. PICK x \in Nat : x = Cardinality(OwedElsewhere(s, n, i))
      BY OwedSplit
    <2>2. Cardinality(OwedAt(s, i)) = x + Cardinality(Calls(due, i))
      <3>1. Cardinality(OwedAt(s, i))
            = Cardinality(OwedElsewhere(s, n, i)) + Cardinality(Calls(Dues(s, n), i))
        BY OwedSplit
      <3> QED
        BY <1>4, <2>1, <3>1, Zenon
    <2>3. Cardinality(OwedAt(t, i)) = x + Cardinality(Calls(Tail(due), i))
      <3>1. Cardinality(OwedAt(t, i))
            = Cardinality(OwedElsewhere(t, n, i)) + Cardinality(Calls(Dues(t, n), i))
        BY OwedSplit
      <3>2. OwedElsewhere(t, n, i) = OwedElsewhere(s, n, i)
        BY <1>6, ElsewhereSame
      <3> QED
        BY <1>4, <2>1, <3>1, <3>2, Zenon
    <2>4. /\ Cardinality(Calls(Tail(due), i)) \in Nat
          /\ Cardinality(Calls(due, i))
             = Cardinality(Calls(Tail(due), i)) + (IF d.id = i /\ ~d.again THEN 1 ELSE 0)
      BY <1>3, <1>4, <1>5, CallsAfter, Zenon
    <2>5. c[i] = (IF i \in DOMAIN T THEN 1 ELSE 0) + Cardinality(OwedAt(s, i))
      BY DEF Balanced
    <2> QED
      BY <1>7, <2>1, <2>2, <2>3, <2>4, <2>5
  <1>9. e \in [Ids -> Nat]
    BY <1>7, <1>8
  <1>10. Balanced(T, e, t)
    BY <1>8, <1>9 DEF Balanced
  <1> QED
    BY <1>1, <1>2, <1>3, <1>10, Zenon

-----------------------------------------------------------------------------
(***************************************************************************)
(* Steps that touch the clock, the promises and the stack, and leave what  *)
(* the other sources hold alone.                                           *)
(***************************************************************************)
\* A step after which no more has been told, and no item, work or callback is
\* new, keeps the invariant when it keeps the parts it touches.
LEMMA StepOfClock ==
  ASSUME IInv, Stacked(stack'), NoFurther(stack, why, stack', why', sources),
         Clocked(timers', nextId', handles'), Balanced(timers', credit', stack'),
         Promised(promise', reacts', micro'), aborted' \in BOOLEAN, thrown' \in BOOLEAN,
         dying' \in Nat, UNCHANGED <<sources, batch, fns, hold, checked, work, uses>>,
         Noted(late'), late'.batch = late.batch, late'.work = late.work, late'.fns = late.fns,
         Past(stack, why, "timers") /\ Refed(timers) \subseteq late.timers
             => Refed(timers') \subseteq late'.timers
  PROVE  IInv'
  <1>1. Flagged(aborted', thrown', batch', dying')
    BY DEF IInv, Flagged
  <1>2. Threaded(fns', hold', checked') /\ Worked(work') /\ Sourced(sources', uses', batch', fns', work')
    BY DEF IInv
  <1>3. Prompt(fns, late') = Prompt(fns, late)
    BY DEF Prompt
  <1>4. Told(stack', why', timers', batch', work', fns', late')
    <2>1. /\ Told(stack, why, timers, batch, work, fns, late) /\ batch' \in Nat
          /\ Worked(work') /\ Sourced(sources, uses, batch', fns', work')
          /\ Threaded(fns', hold, checked)
      BY <1>1, <1>2 DEF IInv, Flagged
    <2>2. /\ batch' = batch /\ work' = work /\ fns' = fns
      OBVIOUS
    <2>3. \A f \in Prompt(fns', late') : f \in Prompt(fns, late) /\ fns'[f] = fns[f]
      BY <1>3, <2>2
    <2>4. /\ Past(stack, why, "batch") /\ (batch = 0 \/ late.batch) => batch' = 0 \/ late'.batch
          /\ Past(stack, why, "work") /\ (work.outstanding = 0 \/ late.work)
             => work'.outstanding = 0 \/ late'.work
      BY <2>2
    <2> QED
      BY <2>1, <2>3, <2>4, ToldStill, ZenonT(60)
  <1> QED
    BY <1>1, <1>2, <1>4 DEF IInv

\* What is started while nobody will be asked again is late.
LEMMA LateTimers ==
  ASSUME IInv, Len(stack) > 1, NEW S \in SUBSET Ids, late' = Late("timers", S),
         Refed(timers') \subseteq Refed(timers) \cup S
  PROVE  /\ Noted(late') /\ late'.batch = late.batch /\ late'.work = late.work
         /\ late'.fns = late.fns
         /\ Past(stack, why, "timers") /\ Refed(timers) \subseteq late.timers
            => Refed(timers') \subseteq late'.timers
  <1>1. Noted(late) /\ stack \in Seq(Frame)
    BY DEF IInv, Stacked
  <1>2. CASE Deaf
    <2>1. late' = [late EXCEPT !.timers = late.timers \cup S]
      BY <1>2 DEF Late
    <2> QED
      BY <1>1, <2>1 DEF Noted
  <1>3. CASE ~Deaf
    <2>1. late' = late
      BY <1>3 DEF Late
    <2>2. ~Past(stack, why, "timers")
      BY <1>1, <1>3, PastIsDeaf
    <2> QED
      BY <1>1, <2>1, <2>2
  <1> QED
    BY <1>2, <1>3

\* A step under which the host goes by the same things, that may start timers.
LEMMA QuietStep ==
  ASSUME IInv, Stacked(stack'), Quiet(stack, stack'), why' = why,
         Clocked(timers', nextId', handles'), Balanced(timers', credit', stack'),
         Promised(promise', reacts', micro'), aborted' \in BOOLEAN, thrown' \in BOOLEAN,
         dying' \in Nat, UNCHANGED <<sources, batch, fns, hold, checked, work, uses>>,
         NEW S \in SUBSET Ids, Refed(timers') \subseteq Refed(timers) \cup S,
         late' = Late("timers", S) \/ (S = {} /\ late' = late)
  PROVE  IInv'
  <1>1. NoFurther(stack, why, stack', why', sources)
    BY QuietIsNoFurther
  <1>2. Len(stack) > 1
    BY DEF Quiet
  <1>3. /\ Noted(late') /\ late'.batch = late.batch /\ late'.work = late.work
        /\ late'.fns = late.fns
        /\ Past(stack, why, "timers") /\ Refed(timers) \subseteq late.timers
           => Refed(timers') \subseteq late'.timers
    <2>1. CASE late' = Late("timers", S)
      BY <1>2, <2>1, LateTimers
    <2>2. CASE S = {} /\ late' = late
      BY <2>2 DEF IInv
    <2> QED
      BY <2>1, <2>2
  <1> QED
    BY <1>1, <1>3, StepOfClock

\* A step that leaves the clock alone too.
LEMMA QuietlyOn ==
  ASSUME IInv, Stacked(stack'), SameDues(stack, stack'), Quiet(stack, stack'),
         Promised(promise', reacts', micro'), aborted' \in BOOLEAN, thrown' \in BOOLEAN,
         dying' \in Nat,
         UNCHANGED <<clock, sources, batch, fns, hold, checked, work, uses, late, why>>
  PROVE  IInv'
  <1>1. Clocked(timers', nextId', handles') /\ Balanced(timers', credit', stack')
    <2>1. Balanced(timers, credit, stack')
      BY BalanceSame DEF IInv
    <2> QED
      BY <2>1 DEF IInv, clock
  <1>2. Refed(timers') \subseteq Refed(timers) \cup {}
    BY DEF clock
  <1>3. /\ {} \in SUBSET Ids /\ {} = {} /\ late' = late /\ why' = why
        /\ UNCHANGED <<sources, batch, fns, hold, checked, work, uses>>
    OBVIOUS
  <1> QED
    BY <1>1, <1>2, <1>3, QuietStep, Zenon

\* A call's record of what a promise timer will be.
Owes == [left : Delays, signal : BOOLEAN, wanted : BOOLEAN]

\* The timer armed last is in the table, and one call more is owed unless it
\* replaces an arming.
LEMMA Arming ==
  ASSUME IInv, NEW id \in Ids, NEW x \in Timer, timers' = Put(timers, id, x),
         credit' = Armed(id), SameDues(stack, stack')
  PROVE  /\ Table(timers') /\ Balanced(timers', credit', stack')
         /\ Refed(timers') \subseteq Refed(timers) \cup {id}
  <1>1. Table(timers) /\ Stacked(stack) /\ Balanced(timers, credit, stack)
    BY DEF IInv, Clocked
  <1>2. Balanced(Put(timers, id, x),
                 [credit EXCEPT ![id] = IF id \in DOMAIN timers THEN @ ELSE @ + 1], stack')
    BY <1>1, BalanceArmed
  <1>3. Table(Put(timers, id, x)) /\ Refed(Put(timers, id, x)) \subseteq Refed(timers) \cup {id}
    BY <1>1, PutIs
  <1> QED
    BY <1>2, <1>3, Zenon DEF Armed

\* setTimeout, setInterval and setImmediate.
LEMMA ScheduleKeeps ==
  ASSUME IInv, Running, UNCHANGED uses, NEW left \in Delays, NEW period \in Delays,
         NEW immediate \in BOOLEAN, Schedule(left, period, immediate)
  PROVE  IInv'
  <1>1. /\ Stacked(stack') /\ SameDues(stack, stack') /\ Quiet(stack, stack')
    BY CodeContinues DEF Schedule
  <1>2. nextId \in Ids /\ nextId' = nextId + 1 /\ nextId' \in 1 .. MaxTimers + 1
    BY Bounds DEF IInv, Clocked, Schedule, Register, Ids
  <1>3. NewTimer(left, period, immediate) \in Timer
    BY DEF NewTimer, Timer
  <1>4. /\ Table(timers') /\ Balanced(timers', credit', stack')
        /\ Refed(timers') \subseteq Refed(timers) \cup {nextId}
    BY <1>1, <1>2, <1>3, Arming, Zenon DEF Schedule, Register
  <1>5. DOMAIN handles' \subseteq Ids /\ handles' \in [DOMAIN handles' -> Handle]
    <2>1. NewHandle(left, period > 0, immediate) \in Handle
      <3>1. (period > 0) \in BOOLEAN
        BY Bounds
      <3> QED
        BY <3>1 DEF NewHandle, Handle
    <2>2. DOMAIN handles \subseteq Ids /\ handles \in [DOMAIN handles -> Handle]
      BY DEF IInv, Clocked
    <2>3. handles' = Put(handles, nextId, NewHandle(left, period > 0, immediate))
      BY DEF Schedule
    <2> HIDE DEF Schedule
    <2> QED
      BY <1>2, <2>1, <2>2, <2>3 DEF Put
  <1>6. Clocked(timers', nextId', handles')
    BY <1>2, <1>4, <1>5 DEF Clocked
  <1>7. /\ Promised(promise', reacts', micro') /\ aborted' \in BOOLEAN /\ thrown' \in BOOLEAN
        /\ dying' \in Nat
    BY DEF IInv, Schedule, Flagged, promises, native
  <1>8. /\ UNCHANGED <<sources, batch, fns, hold, checked, work, uses>> /\ why' = why
        /\ late' = Late("timers", {nextId}) /\ {nextId} \in SUBSET Ids
    BY <1>2 DEF Schedule, Register, native, threads
  <1> QED
    BY <1>1, <1>4, <1>6, <1>7, <1>8, QuietStep, Zenon

\* clearTimeout and the rest.
LEMMA ClearKeeps ==
  ASSUME IInv, Clear
  PROVE  IInv'
  <1>1. Running /\ Continues /\ UNCHANGED uses
    BY DEF Clear, Does
  <1>2. /\ Stacked(stack') /\ SameDues(stack, stack') /\ Quiet(stack, stack')
    BY <1>1, CodeContinues
  <1>3. PICK id \in DOMAIN handles, byHandle \in BOOLEAN :
            /\ handles' = IF byHandle THEN [handles EXCEPT ![id].dead = TRUE] ELSE handles
            /\ timers' = Forget(timers, {id}) /\ credit' = Disarmed(id)
    BY DEF Clear
  <1>4. Clocked(timers, nextId, handles) /\ Stacked(stack) /\ Balanced(timers, credit, stack)
    BY DEF IInv
  <1>5. Table(timers') /\ Refed(timers') \subseteq Refed(timers) \cup {}
    BY <1>3, <1>4, ForgetIs DEF Clocked
  <1>6. DOMAIN handles' \subseteq Ids /\ handles' \in [DOMAIN handles' -> Handle]
    <2>1. handles[id] \in Handle
      BY <1>3, <1>4 DEF Clocked
    <2>2. [handles[id] EXCEPT !.dead = TRUE] \in Handle
      BY <2>1 DEF Handle
    <2>3. handles' = handles \/ handles' = [handles EXCEPT ![id] = [handles[id] EXCEPT !.dead = TRUE]]
      BY <1>3
    <2> QED
      BY <1>4, <2>2, <2>3 DEF Clocked
  <1>7. Balanced(timers', credit', stack')
    <2> DEFINE e == [i \in Ids |-> IF i \in {id} /\ i \in DOMAIN timers THEN credit[i] - 1 ELSE credit[i]]
    <2>1. Balanced(Forget(timers, {id}), e, stack')
      BY <1>2, <1>4, BalanceForgotten
    <2>2. credit \in [Ids -> Nat] /\ id \in Ids
      BY <1>3, <1>4 DEF Balanced, Clocked
    <2>3. credit' = e
      BY <1>3, <2>2 DEF Disarmed
    <2> QED
      BY <1>3, <2>1, <2>3, Zenon
  <1>8. Clocked(timers', nextId', handles')
    BY <1>4, <1>5, <1>6 DEF Clocked, Clear
  <1>9. /\ Promised(promise', reacts', micro') /\ aborted' \in BOOLEAN /\ thrown' \in BOOLEAN
        /\ dying' \in Nat
    BY DEF IInv, Clear, Flagged, promises, native
  <1>10. /\ UNCHANGED <<sources, batch, fns, hold, checked, work, uses>> /\ why' = why
         /\ late' = late /\ {} \in SUBSET Ids
    BY <1>1 DEF Clear, native, threads, ghosts
  <1> QED
    BY <1>2, <1>5, <1>7, <1>8, <1>9, <1>10, QuietStep, Zenon

\* ref and unref.
LEMMA RefKeeps ==
  ASSUME IInv, Ref
  PROVE  IInv'
  <1>1. Running /\ Continues /\ UNCHANGED uses
    BY DEF Ref, Does
  <1>2. /\ Stacked(stack') /\ SameDues(stack, stack') /\ Quiet(stack, stack')
    BY <1>1, CodeContinues
  <1>3. PICK id \in DOMAIN handles, refed \in BOOLEAN :
            /\ handles' = [handles EXCEPT ![id].refed = refed]
            /\ timers' = SetRefed(timers, id, refed)
            /\ late' = Late("timers", {id})
    BY DEF Ref
  <1>4. Clocked(timers, nextId, handles) /\ Stacked(stack) /\ Balanced(timers, credit, stack)
    BY DEF IInv
  <1>5. id \in Ids /\ {id} \in SUBSET Ids
    BY <1>4 DEF Clocked
  <1>6. /\ Table(timers') /\ Refed(timers') \subseteq Refed(timers) \cup {id}
        /\ DOMAIN timers' = DOMAIN timers
    BY <1>3, <1>4, <1>5, RefIs DEF Clocked
  <1>7. DOMAIN handles' \subseteq Ids /\ handles' \in [DOMAIN handles' -> Handle]
    <2>1. handles[id] \in Handle
      BY <1>4 DEF Clocked
    <2>2. [handles[id] EXCEPT !.refed = refed] \in Handle
      BY <2>1 DEF Handle
    <2> QED
      BY <1>3, <1>4, <2>2 DEF Clocked
  <1>8. Balanced(timers', credit', stack')
    <2>1. credit' = credit
      BY DEF Ref
    <2> QED
      BY <1>2, <1>4, <1>6, <2>1, BalanceSame, Zenon
  <1>9. Clocked(timers', nextId', handles')
    BY <1>4, <1>6, <1>7 DEF Clocked, Ref
  <1>10. /\ Promised(promise', reacts', micro') /\ aborted' \in BOOLEAN /\ thrown' \in BOOLEAN
         /\ dying' \in Nat
    BY DEF IInv, Ref, Flagged, promises, native
  <1>11. UNCHANGED <<sources, batch, fns, hold, checked, work, uses>> /\ why' = why
    BY <1>1 DEF Ref, native, threads, ghosts
  <1> QED
    BY <1>2, <1>3, <1>5, <1>6, <1>8, <1>9, <1>10, <1>11, QuietStep, Zenon

\* refresh.
LEMMA RefreshKeeps ==
  ASSUME IInv, Refresh
  PROVE  IInv'
  <1>1. Running /\ Continues /\ UNCHANGED uses
    BY DEF Refresh, Does
  <1>2. /\ Stacked(stack') /\ SameDues(stack, stack') /\ Quiet(stack, stack')
    BY <1>1, CodeContinues
  <1> DEFINE again(h) == [NewTimer(h.delay, IF h.periodic THEN h.delay ELSE 0, FALSE)
                              EXCEPT !.refed = h.refed]
  <1>3. PICK id \in DOMAIN handles :
            /\ timers' = Put(timers, id, again(handles[id]))
            /\ credit' = Armed(id) /\ late' = Late("timers", {id})
    BY DEF Refresh
  <1>4. Clocked(timers, nextId, handles)
    BY DEF IInv
  <1>5. id \in Ids /\ {id} \in SUBSET Ids /\ handles[id] \in Handle
    BY <1>4 DEF Clocked
  <1>6. again(handles[id]) \in Timer
    <2>1. (IF handles[id].periodic THEN handles[id].delay ELSE 0) \in Delays
      BY <1>5, Bounds DEF Handle, Delays
    <2> QED
      BY <1>5, <2>1 DEF Handle, NewTimer, Timer
  <1> HIDE DEF again
  <1>7. /\ Table(timers') /\ Balanced(timers', credit', stack')
        /\ Refed(timers') \subseteq Refed(timers) \cup {id}
    BY <1>2, <1>3, <1>5, <1>6, Arming, Zenon
  <1>8. Clocked(timers', nextId', handles')
    BY <1>4, <1>7 DEF Clocked, Refresh
  <1>9. /\ Promised(promise', reacts', micro') /\ aborted' \in BOOLEAN /\ thrown' \in BOOLEAN
        /\ dying' \in Nat
    BY DEF IInv, Refresh, Flagged, promises, native
  <1>10. UNCHANGED <<sources, batch, fns, hold, checked, work, uses>> /\ why' = why
    BY <1>1 DEF Refresh, native, threads, ghosts
  <1> QED
    BY <1>2, <1>3, <1>5, <1>7, <1>8, <1>9, <1>10, QuietStep, Zenon

\* The frames calls begin with are frames.
LEMMA NewFrames ==
  ASSUME IInv
  PROVE  /\ \A from \in {"entry", "timer", "source", "reaction", "finalizer"} :
                Code(from) \in Frame /\ Code(from).at = "code" /\ Sane(Code(from))
         /\ Drain \in Frame /\ Drain.at = "drain" /\ Sane(Drain)
         /\ Pump \in Frame /\ Pump.at = "pump" /\ Sane(Pump) /\ Pump.due = <<>>
         /\ Batch \in Frame /\ Batch.at = "batch" /\ Sane(Batch)
         /\ \A p \in Promises : Await(p) \in Frame /\ Await(p).at = "await" /\ Sane(Await(p))
         /\ \A n \in {1, 2} : /\ Pass(n) \in Frame /\ Pass(n).at = "pass" /\ Sane(Pass(n))
                              /\ Pass(n).left = sources
         /\ Host \in Frame /\ Host.at = "host" /\ Sane(Host)
  <1>1. \A from \in {"entry", "timer", "source", "reaction", "finalizer"} :
            Code(from) \in CodeFrame /\ Code(from).at = "code"
    BY Bounds DEF Code, CodeFrame, NoTimer, Delays
  <1>2. Drain \in DrainFrame /\ Drain.at = "drain"
    BY DEF Drain, DrainFrame
  <1>3. Pump \in PumpFrame /\ Pump.at = "pump" /\ Pump.due = <<>> /\ Pump.ran = FALSE
    BY DEF Pump, PumpFrame
  <1>4. Batch \in BatchFrame /\ Batch.at = "batch"
    BY DEF Batch, BatchFrame, IInv, Flagged
  <1>5. \A p \in Promises : Await(p) \in AwaitFrame /\ Await(p).at = "await"
    BY Bounds DEF Await, AwaitFrame
  <1>6. \A n \in {1, 2} : /\ Pass(n) \in PassFrame /\ Pass(n).at = "pass" /\ Pass(n).left = sources
                          /\ Pass(n).stage = "next"
    BY Bounds DEF Pass, PassFrame, IInv, Sourced
  <1>7. Host \in HostFrame /\ Host.at = "host"
    BY Bounds DEF Host, HostFrame
  <1> QED
    BY <1>1, <1>2, <1>3, <1>4, <1>5, <1>6, <1>7, FrameIs DEF Sane

\* What a call of a new frame and a return keep, seen from above the host.
LEMMA CallKeeps ==
  ASSUME IInv, NEW f \in Frame, NEW g \in Frame, stack' = Call(f, g), f.at = Top.at,
         Sane(f), Sane(g), Runs(f, g), DueOf(g) = <<>>, DueOf(f) = DueOf(Top),
         Alike(f, Top), Top.at # "host"
  PROVE  Stacked(stack') /\ SameDues(stack, stack') /\ Quiet(stack, stack')
  BY Calling DEF IInv

\* A settled promise, its reactions queued.
LEMMA SettleKeeps ==
  ASSUME IInv, NEW p \in Promises, NEW how \in {"fulfilled", "rejected"}, Settle(p, how)
  PROVE  Promised(promise', reacts', micro')
  <1>1. Promised(promise, reacts, micro)
    BY DEF IInv
  <1>2. CASE promise[p] = "pending"
    BY <1>1, <1>2 DEF Promised, Settle
  <1>3. CASE promise[p] # "pending"
    BY <1>1, <1>3 DEF Settle, promises
  <1> QED
    BY <1>2, <1>3

\* The timers' promises of timers/promises: the pump runs inside the call.
LEMMA PromiseTimerKeeps ==
  ASSUME IInv, PromiseTimer
  PROVE  IInv'
  <1>1. Stacked(stack) /\ Top.at = "code" /\ Top \in CodeFrame
    BY TopIs, KindOf DEF IInv, PromiseTimer, Does, Running
  <1>2. PICK d \in Delays, signal \in BOOLEAN :
            stack' = Call([Top EXCEPT !.owes = [left |-> d, signal |-> signal, wanted |-> TRUE]], Pump)
    BY DEF PromiseTimer
  <1> DEFINE f == [Top EXCEPT !.owes = [left |-> d, signal |-> signal, wanted |-> TRUE]]
  <1>3. f \in CodeFrame /\ f.at = "code" /\ f.owes.wanted
    BY <1>1 DEF CodeFrame
  <1> HIDE DEF f
  <1>4. f \in Frame /\ Sane(f) /\ DueOf(f) = DueOf(Top) /\ Alike(f, Top) /\ Runs(f, Pump)
        /\ DueOf(Pump) = <<>>
    BY <1>1, <1>3, FrameIs, NewFrames DEF Sane, DueOf, Alike, Runs
  <1>5. Stacked(stack') /\ SameDues(stack, stack') /\ Quiet(stack, stack')
    BY <1>1, <1>2, <1>3, <1>4, NewFrames, CallKeeps DEF f
  <1>6. /\ Promised(promise', reacts', micro') /\ aborted' \in BOOLEAN /\ thrown' \in BOOLEAN
        /\ dying' \in Nat
        /\ UNCHANGED <<clock, sources, batch, fns, hold, checked, work, uses, late, why>>
    BY DEF IInv, PromiseTimer, Does, Flagged, promises, native, threads, ghosts
  <1> QED
    BY <1>5, <1>6, QuietlyOn, Zenon

\* The pump inside the call has ended: the timer is registered.
LEMMA PromiseTimerMadeKeeps ==
  ASSUME IInv, PromiseTimerMade
  PROVE  IInv'
  <1>1. Stacked(stack) /\ Top.at = "code" /\ Top \in CodeFrame
    BY TopIs, KindOf DEF IInv, PromiseTimerMade
  <1>2. Top.owes \in Owes /\ NoTimer \in Owes /\ thrown \in BOOLEAN
    BY <1>1, Bounds DEF CodeFrame, Owes, NoTimer, Delays, IInv, Flagged
  <1>3. /\ Stacked(stack') /\ SameDues(stack, stack') /\ Quiet(stack, stack')
    BY <1>1, <1>2, CodeOnwards DEF PromiseTimerMade, Owes
  <1>4. /\ Promised(promise', reacts', micro') /\ aborted' \in BOOLEAN /\ thrown' \in BOOLEAN
        /\ dying' \in Nat
    BY DEF IInv, PromiseTimerMade, Flagged, promises, native
  <1>5. UNCHANGED <<sources, batch, fns, hold, checked, work, uses>> /\ why' = why
    BY DEF PromiseTimerMade, native, threads
  <1>6. CASE nextId <= MaxTimers
    <2> DEFINE x == [NewTimer(Top.owes.left, 0, FALSE)
                         EXCEPT !.settles = TRUE, !.signal = Top.owes.signal]
    <2>1. Register(x)
      BY <1>6 DEF PromiseTimerMade
    <2>2. x \in Timer
      <3>1. Top.owes.left \in Delays /\ Top.owes.signal \in BOOLEAN
        BY <1>2 DEF Owes
      <3>2. 0 \in Delays
        BY Bounds DEF Delays
      <3>3. \A l \in Delays, signal \in BOOLEAN :
                [NewTimer(l, 0, FALSE) EXCEPT !.settles = TRUE, !.signal = signal] \in Timer
        BY <3>2 DEF NewTimer, Timer
      <3> QED
        BY <3>1, <3>3
    <2> HIDE DEF x
    <2>3. nextId \in Ids /\ nextId' = nextId + 1 /\ nextId' \in 1 .. MaxTimers + 1
          /\ {nextId} \in SUBSET Ids
      BY <1>6, <2>1, Bounds DEF IInv, Clocked, Register, Ids
    <2>4. /\ Table(timers') /\ Balanced(timers', credit', stack')
          /\ Refed(timers') \subseteq Refed(timers) \cup {nextId}
      BY <1>3, <2>1, <2>2, <2>3, Arming, Zenon DEF Register
    <2>5. Clocked(timers', nextId', handles')
      BY <2>3, <2>4 DEF IInv, Clocked, PromiseTimerMade
    <2>6. late' = Late("timers", {nextId})
      BY <2>1 DEF Register
    <2> QED
      BY <1>3, <1>4, <1>5, <2>3, <2>4, <2>5, <2>6, QuietStep, Zenon
  <1>7. CASE ~(nextId <= MaxTimers)
    <2>1. UNCHANGED <<clock, sources, batch, fns, hold, checked, work, uses, late, why>>
      BY <1>5, <1>7 DEF PromiseTimerMade, clock
    <2> QED
      BY <1>3, <1>4, <2>1, QuietlyOn, Zenon
  <1> QED
    BY <1>6, <1>7

\* The operations that leave the timers alone.
LEMMA Uneventful ==
  ASSUME IInv, Running, Continues,
         Promised(promise', reacts', micro'), aborted' \in BOOLEAN, thrown' \in BOOLEAN,
         dying' \in Nat,
         UNCHANGED <<clock, sources, batch, fns, hold, checked, work, uses, late, why>>
  PROVE  IInv'
  BY CodeContinues, QuietlyOn, Zenon

\* The promises a program knows are promises.
LEMMA KnownIs ==
  ASSUME IInv
  PROVE  Known \subseteq Promises
  BY Bounds DEF IInv, Clocked, Known, Promises

\* An AbortSignal fires; the pump will see it.
LEMMA AbortKeeps ==
  ASSUME IInv, Abort
  PROVE  IInv'
  <1>1. /\ Running /\ Continues
        /\ Promised(promise', reacts', micro') /\ aborted' \in BOOLEAN /\ thrown' \in BOOLEAN
        /\ dying' \in Nat
        /\ UNCHANGED <<clock, sources, batch, fns, hold, checked, work, uses, late, why>>
    BY DEF IInv, Abort, Does, Flagged, promises, native, threads, ghosts
  <1> QED
    BY <1>1, Uneventful, Zenon

\* A reaction waits on a promise, or is queued.
LEMMA ThenKeeps ==
  ASSUME IInv, Then
  PROVE  IInv'
  <1>1. Promised(promise', reacts', micro')
    <2>1. PICK p \in Known :
              IF promise[p] = "pending"
              THEN reacts' = [reacts EXCEPT ![p] = @ + 1] /\ UNCHANGED micro
              ELSE micro' = micro + 1 /\ UNCHANGED reacts
      BY DEF Then
    <2>2. p \in Promises /\ Promised(promise, reacts, micro) /\ promise' = promise
      BY KnownIs DEF IInv, Then
    <2> QED
      BY <2>1, <2>2 DEF Promised
  <1>2. /\ Running /\ Continues /\ aborted' \in BOOLEAN /\ thrown' \in BOOLEAN /\ dying' \in Nat
        /\ UNCHANGED <<clock, sources, batch, fns, hold, checked, work, uses, late, why>>
    BY DEF IInv, Then, Does, Flagged, native, threads, ghosts
  <1> QED
    BY <1>1, <1>2, Uneventful, Zenon

\* The program settles the promise it holds.
LEMMA ResolveKeeps ==
  ASSUME IInv, Resolve
  PROVE  IInv'
  <1>1. Promised(promise', reacts', micro')
    BY SettleKeeps, Bounds DEF Resolve
  <1>2. /\ Running /\ Continues /\ aborted' \in BOOLEAN /\ thrown' \in BOOLEAN /\ dying' \in Nat
        /\ UNCHANGED <<clock, sources, batch, fns, hold, checked, work, uses, late, why>>
    BY DEF IInv, Resolve, Does, Flagged, native, threads, ghosts
  <1> QED
    BY <1>1, <1>2, Uneventful, Zenon

\* A piece of the program awaits a promise it knows.
LEMMA AwaitsKeeps ==
  ASSUME IInv, Awaits
  PROVE  IInv'
  <1>1. Stacked(stack) /\ Top.at = "code" /\ ~Top.owes.wanted /\ Top \in Frame /\ Sane(Top)
    BY TopIs DEF IInv, Awaits, Does, Running
  <1>2. PICK p \in Promises : stack' = Call(Top, Await(p))
    BY KnownIs DEF Awaits
  <1>3. Runs(Top, Await(p)) /\ DueOf(Await(p)) = <<>> /\ Alike(Top, Top)
    BY <1>1, NewFrames DEF Runs, DueOf, Alike
  <1>4. Stacked(stack') /\ SameDues(stack, stack') /\ Quiet(stack, stack')
    BY <1>1, <1>2, <1>3, NewFrames, CallKeeps
  <1>5. /\ Promised(promise', reacts', micro') /\ aborted' \in BOOLEAN /\ thrown' \in BOOLEAN
        /\ dying' \in Nat
        /\ UNCHANGED <<clock, sources, batch, fns, hold, checked, work, uses, late, why>>
    BY DEF IInv, Awaits, Does, Flagged, promises, native, threads, ghosts
  <1> QED
    BY <1>4, <1>5, QuietlyOn, Zenon

\* A throw begins, and is caught.
LEMMA ThrowKeeps ==
  ASSUME IInv, Throw \/ Catch
  PROVE  IInv'
  <1>1. Stacked(stack) /\ Top.at = "code" /\ Top \in CodeFrame
    BY TopIs, KindOf DEF IInv, Throw, Catch, Does, Running
  <1>2. Top.owes \in Owes /\ \A asked : [Top EXCEPT !.owes = Top.owes, !.asked = asked] = [Top EXCEPT !.asked = asked]
    BY <1>1 DEF CodeFrame, Owes
  <1>3. PICK asked \in BOOLEAN : stack' = With([Top EXCEPT !.asked = asked])
    BY DEF Throw, Catch
  <1>4. stack' = With([Top EXCEPT !.owes = Top.owes, !.asked = asked])
    BY <1>2, <1>3, Zenon
  <1>5. Stacked(stack') /\ SameDues(stack, stack') /\ Quiet(stack, stack')
    BY <1>1, <1>2, <1>4, CodeOnwards DEF Owes
  <1>6. /\ Promised(promise', reacts', micro') /\ aborted' \in BOOLEAN /\ thrown' \in BOOLEAN
        /\ dying' \in Nat
        /\ UNCHANGED <<clock, sources, batch, fns, hold, checked, work, uses, late, why>>
    BY DEF IInv, Throw, Catch, Does, Flagged, promises, native, threads, ghosts
  <1> QED
    BY <1>5, <1>6, QuietlyOn, Zenon

\* A sweep queues a finalizer.
LEMMA DiesKeeps ==
  ASSUME IInv, Dies
  PROVE  IInv'
  <1>1. /\ Running /\ Continues
        /\ Promised(promise', reacts', micro') /\ aborted' \in BOOLEAN /\ thrown' \in BOOLEAN
        /\ dying' \in Nat
        /\ UNCHANGED <<clock, sources, batch, fns, hold, checked, work, uses, late, why>>
    BY DEF IInv, Dies, Does, Flagged, promises, native, threads, ghosts
  <1> QED
    BY <1>1, Uneventful, Zenon

\* A frame above another's callee returns and owes nothing.
LEMMA ReturnKeeps ==
  ASSUME IInv, stack' = Return, Top.at # "host", Caller.at # "host", DueOf(Top) = <<>>
  PROVE  Stacked(stack') /\ SameDues(stack, stack') /\ Quiet(stack, stack')
  <1>1. Stacked(stack)
    BY DEF IInv
  <1>2. Popped(stack, stack', Caller) /\ Alike(Caller, Caller)
    BY <1>1, Returns
  <1>3. Caller \in Frame /\ Sane(Caller)
    BY <1>1, TopIs
  <1> QED
    BY <1>1, <1>2, <1>3, Returning

\* A piece of the program ends and gives back to whoever called it.
LEMMA CodeEndsKeeps ==
  ASSUME IInv, CodeEnds
  PROVE  IInv'
  <1>1. Stacked(stack) /\ Top.at = "code"
    BY DEF IInv, CodeEnds, Running
  <1>2. Caller.at # "host" /\ DueOf(Top) = <<>>
    BY <1>1, TopIs DEF Runs, DueOf
  <1>3. Stacked(stack') /\ SameDues(stack, stack') /\ Quiet(stack, stack')
    BY <1>1, <1>2, ReturnKeeps DEF CodeEnds
  <1>4. /\ Promised(promise', reacts', micro') /\ aborted' \in BOOLEAN /\ thrown' \in BOOLEAN
        /\ dying' \in Nat
        /\ UNCHANGED <<clock, sources, batch, fns, hold, checked, work, uses, late, why>>
    BY DEF IInv, CodeEnds, Flagged, promises, native, threads
  <1> QED
    BY <1>3, <1>4, QuietlyOn, Zenon

-----------------------------------------------------------------------------
(***************************************************************************)
(* Steps that touch the callbacks, the thread-safe functions or the work.  *)
(***************************************************************************)
\* Such a step keeps the invariant when what it starts is noted.
LEMMA StepOfNative ==
  ASSUME IInv, Stacked(stack'), SameDues(stack, stack'),
         NoFurther(stack, why, stack', why', sources'),
         UNCHANGED <<clock, promises, aborted, thrown, dying>>, batch' \in Nat,
         Threaded(fns', hold', checked'), Worked(work'),
         Sourced(sources', uses', batch', fns', work'),
         Noted(late'), late'.timers = late.timers,
         Past(stack, why, "batch") /\ (batch = 0 \/ late.batch) => batch' = 0 \/ late'.batch,
         Past(stack, why, "work") /\ (work.outstanding = 0 \/ late.work)
             => work'.outstanding = 0 \/ late'.work,
         LookedAt(stack, why) /\ (\A f \in Prompt(fns, late) : fns[f].threads = 0)
             => \A f \in Prompt(fns', late') : fns'[f].threads = 0,
         Emptied(stack, why) /\ (\A f \in Prompt(fns, late) : fns[f].threads = 0 /\ fns[f].queued = 0)
             => \A f \in Prompt(fns', late') : fns'[f].queued = 0
  PROVE  IInv'
  <1>1. Clocked(timers', nextId', handles') /\ Balanced(timers', credit', stack')
    <2>1. Balanced(timers, credit, stack')
      BY BalanceSame DEF IInv
    <2> QED
      BY <2>1 DEF IInv, clock
  <1>2. Promised(promise', reacts', micro') /\ Flagged(aborted', thrown', batch', dying')
    BY DEF IInv, Flagged, promises
  <1>3. Past(stack, why, "timers") /\ Refed(timers) \subseteq late.timers
        => Refed(timers') \subseteq late'.timers
    BY DEF clock
  <1>4. Told(stack, why, timers, batch, work, fns, late)
    BY DEF IInv
  <1>5. Told(stack', why', timers', batch', work', fns', late')
    BY <1>3, <1>4, ToldStill, Zenon
  <1> QED
    BY <1>1, <1>2, <1>5 DEF IInv

\* A source declared is in the list once it is.
LEMMA DeclaredIs ==
  ASSUME NEW name \in Names, sources \in Seq(Names)
  PROVE  /\ Declared(name) \in Seq(Names)
         /\ Range(sources) \subseteq Range(Declared(name)) /\ name \in Range(Declared(name))
  <1>1. CASE \E i \in DOMAIN sources : sources[i] = name
    BY <1>1 DEF Declared, Range
  <1>2. CASE ~\E i \in DOMAIN sources : sources[i] = name
    <2>1. Declared(name) = Append(sources, name)
      BY <1>2 DEF Declared
    <2> DEFINE t == Append(sources, name)
    <2>2. t \in Seq(Names) /\ Len(t) = Len(sources) + 1 /\ t[Len(sources) + 1] = name
          /\ (\A i \in 1 .. Len(sources) : t[i] = sources[i]) /\ Len(sources) \in Nat
      OBVIOUS
    <2> HIDE DEF t
    <2>3. DOMAIN t = 1 .. Len(sources) + 1 /\ DOMAIN sources = 1 .. Len(sources)
      BY <2>2
    <2>4. Range(sources) \subseteq Range(t) /\ name \in Range(t)
      BY <2>2, <2>3 DEF Range
    <2> QED
      BY <2>1, <2>2, <2>4 DEF t
  <1> QED
    BY <1>1, <1>2

\* process.nextTick and crypto's key derivations.
LEMMA QueueCallbackKeeps ==
  ASSUME IInv, QueueCallback
  PROVE  IInv'
  <1>1. Running /\ Continues /\ "tick" \in uses /\ UNCHANGED uses
    BY DEF QueueCallback, Does
  <1>2. /\ Stacked(stack') /\ SameDues(stack, stack') /\ Quiet(stack, stack')
    BY <1>1, CodeContinues
  <1>3. /\ batch' = batch + 1 /\ late' = IF Deaf THEN [late EXCEPT !.batch = TRUE] ELSE late
        /\ UNCHANGED <<clock, promises, aborted, thrown, dying, sources, fns, hold, checked, work, why>>
    BY DEF QueueCallback, threads
  <1>4. batch \in Nat /\ batch' \in Nat
    BY <1>3 DEF IInv, Flagged
  <1>5. Sourced(sources', uses', batch', fns', work')
    BY <1>1, <1>3 DEF IInv, Sourced
  <1>6. Threaded(fns', hold', checked') /\ Worked(work')
    BY <1>3 DEF IInv
  <1>7. /\ Noted(late') /\ late'.timers = late.timers /\ late'.work = late.work
        /\ late'.fns = late.fns
        /\ Past(stack, why, "batch") => late'.batch
    <2>1. Noted(late) /\ stack \in Seq(Frame) /\ Len(stack) > 1
      BY <1>2 DEF IInv, Stacked, Quiet
    <2>2. Past(stack, why, "batch") => Deaf
      BY <2>1, PastIsDeaf
    <2> QED
      BY <1>3, <2>1, <2>2 DEF Noted
  <1>8. Prompt(fns', late') = Prompt(fns, late) /\ fns' = fns /\ work' = work
    BY <1>3, <1>7 DEF Prompt
  <1>9. NoFurther(stack, why, stack', why', sources')
    BY <1>2, <1>3, QuietIsNoFurther, Zenon
  <1>10. /\ Past(stack, why, "batch") /\ (batch = 0 \/ late.batch) => batch' = 0 \/ late'.batch
         /\ Past(stack, why, "work") /\ (work.outstanding = 0 \/ late.work)
            => work'.outstanding = 0 \/ late'.work
    BY <1>7, <1>8, Zenon
  <1>11. \A f \in Prompt(fns', late') : f \in Prompt(fns, late) /\ fns'[f] = fns[f]
    BY <1>8
  <1>12. UNCHANGED <<clock, promises, aborted, thrown, dying>>
    BY <1>3
  <1> QED
    BY <1>2, <1>4, <1>5, <1>6, <1>7, <1>9, <1>10, <1>11, <1>12, StepOfNative, Zenon

\* napi_queue_async_work.
LEMMA QueueWorkKeeps ==
  ASSUME IInv, QueueWork
  PROVE  IInv'
  <1>1. Running /\ Continues /\ UNCHANGED uses
    BY DEF QueueWork, Does
  <1>2. /\ Stacked(stack') /\ SameDues(stack, stack') /\ Quiet(stack, stack')
    BY <1>1, CodeContinues
  <1>3. /\ work' = [work EXCEPT !.outstanding = @ + 1, !.running = @ + 1]
        /\ sources' = Declared("work")
        /\ late' = IF Deaf THEN [late EXCEPT !.work = TRUE] ELSE late
        /\ UNCHANGED <<clock, promises, aborted, thrown, dying, batch, fns, hold, checked, why>>
    BY DEF QueueWork, threads
  <1>4. Worked(work')
    <2>1. Worked(work)
      BY DEF IInv
    <2>2. PICK o \in Nat, r \in Nat, d \in Nat :
              work = [outstanding |-> o, running |-> r, done |-> d] /\ o = r + d
      BY <2>1 DEF Worked
    <2>3. work' = [outstanding |-> o + 1, running |-> r + 1, done |-> d]
      BY <1>3, <2>2
    <2> QED
      BY <2>2, <2>3 DEF Worked
  <1>5. Sourced(sources', uses', batch', fns', work')
    <2>1. Sourced(sources, uses, batch, fns, work)
      BY DEF IInv
    <2>2. /\ sources' \in Seq(Names) /\ Range(sources) \subseteq Range(sources')
          /\ "work" \in Range(sources')
      BY <1>3, <2>1, DeclaredIs DEF Sourced, Names
    <2>3. uses' = uses /\ batch' = batch /\ fns' = fns
      BY <1>1, <1>3
    <2> QED
      BY <2>1, <2>2, <2>3 DEF Sourced
  <1>6. Threaded(fns', hold', checked') /\ batch' \in Nat
    BY <1>3 DEF IInv, Flagged
  <1>7. /\ Noted(late') /\ late'.timers = late.timers /\ late'.batch = late.batch
        /\ late'.fns = late.fns
        /\ Past(stack, why, "work") => late'.work
    <2>1. Noted(late) /\ stack \in Seq(Frame) /\ Len(stack) > 1
      BY <1>2 DEF IInv, Stacked, Quiet
    <2>2. Past(stack, why, "work") => Deaf
      BY <2>1, PastIsDeaf
    <2> QED
      BY <1>3, <2>1, <2>2 DEF Noted
  <1>8. Prompt(fns', late') = Prompt(fns, late) /\ fns' = fns /\ batch' = batch
    BY <1>3, <1>7 DEF Prompt
  <1>9. NoFurther(stack, why, stack', why', sources')
    BY <1>2, <1>3, QuietIsNoFurther, Zenon
  <1>10. /\ Past(stack, why, "batch") /\ (batch = 0 \/ late.batch) => batch' = 0 \/ late'.batch
         /\ Past(stack, why, "work") /\ (work.outstanding = 0 \/ late.work)
            => work'.outstanding = 0 \/ late'.work
    BY <1>7, <1>8, Zenon
  <1>11. \A f \in Prompt(fns', late') : f \in Prompt(fns, late) /\ fns'[f] = fns[f]
    BY <1>8
  <1>12. UNCHANGED <<clock, promises, aborted, thrown, dying>>
    BY <1>3
  <1> QED
    BY <1>2, <1>4, <1>5, <1>6, <1>7, <1>9, <1>10, <1>11, <1>12, StepOfNative, Zenon

\* A step that changes functions only, and what it tells is as before.
LEMMA StepOfFns ==
  ASSUME IInv, Stacked(stack'), SameDues(stack, stack'),
         NoFurther(stack, why, stack', why', sources'),
         UNCHANGED <<clock, promises, aborted, thrown, dying, batch, sources, work, uses, late>>,
         Threaded(fns', hold', checked'), Made(fns') => Made(fns),
         LookedAt(stack, why) /\ (\A f \in Prompt(fns, late) : fns[f].threads = 0)
             => \A f \in Prompt(fns', late) : fns'[f].threads = 0,
         Emptied(stack, why) /\ (\A f \in Prompt(fns, late) : fns[f].threads = 0 /\ fns[f].queued = 0)
             => \A f \in Prompt(fns', late) : fns'[f].queued = 0
  PROVE  IInv'
  <1>1. Sourced(sources', uses', batch', fns', work')
    <2>1. /\ Sourced(sources, uses, batch, fns, work) /\ sources' = sources /\ uses' = uses
          /\ batch' = batch /\ work' = work
      BY DEF IInv
    <2> QED
      BY <2>1 DEF Sourced
  <1>2. batch' \in Nat /\ Worked(work') /\ Noted(late') /\ late' = late /\ batch' = batch /\ work' = work
    BY DEF IInv, Flagged
  <1>3. UNCHANGED <<clock, promises, aborted, thrown, dying>>
    OBVIOUS
  <1> QED
    BY <1>1, <1>2, <1>3, StepOfNative, Zenon

\* napi_ref_threadsafe_function and unref.
LEMMA RefFnKeeps ==
  ASSUME IInv, RefFn
  PROVE  IInv'
  <1>1. Running /\ Continues /\ UNCHANGED uses
    BY DEF RefFn, Does
  <1>2. /\ Stacked(stack') /\ SameDues(stack, stack') /\ Quiet(stack, stack')
    BY <1>1, CodeContinues
  <1>3. PICK g \in Fns, referenced \in BOOLEAN :
            /\ fns[g].made
            /\ fns' = [fns EXCEPT ![g] = [fns[g] EXCEPT !.referenced = referenced, !.plain = FALSE]]
    BY ZenonT(60) DEF RefFn
  <1>4. /\ UNCHANGED <<clock, promises, aborted, thrown, dying, batch, sources, work, uses, late>>
        /\ hold' = hold /\ checked' = checked /\ why' = why
    BY <1>1 DEF RefFn, native, threads, ghosts
  <1>5. Threaded(fns, hold, checked)
    BY DEF IInv
  <1>6. fns[g] \in FnType /\ [fns[g] EXCEPT !.referenced = referenced, !.plain = FALSE] \in FnType
    BY <1>5 DEF Threaded, FnType
  <1>7. /\ fns' \in [Fns -> FnType]
        /\ fns'[g] = [fns[g] EXCEPT !.referenced = referenced, !.plain = FALSE]
        /\ \A f \in Fns : f # g => fns'[f] = fns[f]
    BY <1>3, <1>5, <1>6 DEF Threaded
  <1>8. /\ \A f \in Fns : /\ fns'[f].threads = fns[f].threads /\ fns'[f].queued = fns[f].queued
                          /\ fns'[f].made = fns[f].made /\ fns'[f].closing = fns[f].closing
                          /\ fns'[f].plain => fns[f].plain /\ f # g
    BY <1>6, <1>7 DEF FnType
  <1>9. Threaded(fns', hold', checked')
    <2>1. \A w \in Workers : hold[w] # NoFn => hold[w] \in Fns
      BY <1>5 DEF Threaded
    <2>2. \A w \in Workers : hold[w] # NoFn => fns'[hold[w]].made
      BY <1>5, <1>8, <2>1 DEF Threaded
    <2>3. \A f \in Fns : /\ fns'[f].threads = Cardinality({w \in Workers : hold[w] = f})
                         /\ ~fns'[f].made => fns'[f].queued = 0
                         /\ fns'[f].plain => fns'[f].referenced
                         /\ fns'[f].plain /\ fns'[f].closing => fns'[f].threads = 0
      <3> SUFFICES ASSUME NEW f \in Fns
                   PROVE  /\ fns'[f].threads = Cardinality({w \in Workers : hold[w] = f})
                          /\ ~fns'[f].made => fns'[f].queued = 0
                          /\ fns'[f].plain => fns'[f].referenced
                          /\ fns'[f].plain /\ fns'[f].closing => fns'[f].threads = 0
        OBVIOUS
      <3>1. f # g => fns'[f] = fns[f]
        BY <1>7
      <3> QED
        BY <1>5, <1>8, <3>1, ZenonT(60) DEF Threaded
    <2>4. Threaded(fns', hold, checked)
      BY <1>5, <1>7, <2>2, <2>3 DEF Threaded
    <2> QED
      BY <1>4, <2>4
  <1>10. Made(fns') => Made(fns)
    BY <1>8 DEF Made
  <1>11. \A f \in Prompt(fns', late) : /\ f \in Prompt(fns, late) /\ fns'[f].threads = fns[f].threads
                                       /\ fns'[f].queued = fns[f].queued
    BY <1>8 DEF Prompt
  <1>12. NoFurther(stack, why, stack', why', sources')
    BY <1>2, <1>4, QuietIsNoFurther, Zenon
  <1> QED
    BY <1>2, <1>4, <1>9, <1>10, <1>11, <1>12, StepOfFns, Zenon

\* napi_create_threadsafe_function: its first threads held none.
LEMMA CreateFnKeeps ==
  ASSUME IInv, CreateFn
  PROVE  IInv'
  <1>1. Running /\ Continues /\ UNCHANGED uses
    BY DEF CreateFn, Does
  <1>2. /\ Stacked(stack') /\ SameDues(stack, stack') /\ Quiet(stack, stack')
    BY <1>1, CodeContinues
  <1>3. PICK g \in Fns, W \in SUBSET {w \in Workers : hold[w] = NoFn} :
            /\ ~fns[g].made /\ W # {}
            /\ fns' = [fns EXCEPT ![g] = [NewFn EXCEPT !.made = TRUE, !.threads = Cardinality(W)]]
            /\ hold' = [w \in Workers |-> IF w \in W THEN g ELSE hold[w]]
            /\ late' = IF Deaf \/ AskedOnce THEN [late EXCEPT !.fns = @ \cup {g}] ELSE late
    BY DEF CreateFn
  <1>4. /\ UNCHANGED <<clock, promises, aborted, thrown, dying>> /\ batch' = batch
        /\ checked' = checked /\ work' = work /\ why' = why /\ sources' = Declared("threadsafe")
    BY DEF CreateFn
  <1>5. Threaded(fns, hold, checked) /\ Sourced(sources, uses, batch, fns, work)
        /\ Noted(late) /\ Worked(work) /\ batch \in Nat
    BY DEF IInv, Flagged
  <1> DEFINE x == [NewFn EXCEPT !.made = TRUE, !.threads = Cardinality(W)]
  <1>6. /\ x \in FnType /\ x.made = TRUE /\ x.threads = Cardinality(W) /\ x.referenced = TRUE
        /\ x.closing = FALSE /\ x.queued = 0
    <2>1. IsFiniteSet(W)
      BY ThreadAssumption, FS_Subset
    <2>2. PICK n \in Nat : n = Cardinality(W)
      BY <2>1, FS_CardinalityType
    <2>3. x = [NewFn EXCEPT !.made = TRUE, !.threads = n]
      BY <2>2, Zenon
    <2> HIDE DEF x
    <2> QED
      BY <2>2, <2>3 DEF NewFn, FnType
  <1>7. /\ fns' \in [Fns -> FnType] /\ fns'[g] = x /\ \A f \in Fns : f # g => fns'[f] = fns[f]
    <2>1. fns' = [fns EXCEPT ![g] = x]
      BY <1>3
    <2> HIDE DEF x
    <2> QED
      BY <1>5, <1>6, <2>1 DEF Threaded
  <1> HIDE DEF x
  <1>8. /\ hold' \in [Workers -> Fns \cup {NoFn}]
        /\ \A w \in Workers : hold'[w] = IF w \in W THEN g ELSE hold[w]
    BY <1>3, <1>5 DEF Threaded
  <1>9. \A w \in Workers : hold[w] # g
    BY <1>3, <1>5, ThreadAssumption DEF Threaded
  <1>10. {w \in Workers : hold'[w] = g} = W
    BY <1>8, <1>9
  <1>11. ASSUME NEW f \in Fns, f # g
         PROVE  {w \in Workers : hold'[w] = f} = {w \in Workers : hold[w] = f}
    <2>1. f # NoFn
      BY ThreadAssumption
    <2> QED
      BY <1>8, <1>11, <2>1
  <1>12. Threaded(fns', hold', checked')
    <2>1. \A w \in Workers : hold'[w] # NoFn => fns'[hold'[w]].made
      <3>1. SUFFICES ASSUME NEW w \in Workers, hold'[w] # NoFn PROVE fns'[hold'[w]].made
        OBVIOUS
      <3>2. CASE w \in W
        BY <1>6, <1>7, <1>8, <3>2
      <3>3. CASE w \notin W
        <4>1. hold'[w] = hold[w] /\ hold[w] \in Fns /\ hold[w] # g /\ fns[hold[w]].made
          BY <1>5, <1>8, <1>9, <3>1, <3>3 DEF Threaded
        <4> QED
          BY <1>7, <4>1
      <3> QED
        BY <3>2, <3>3
    <2>2. ASSUME NEW f \in Fns
          PROVE  /\ fns'[f].threads = Cardinality({w \in Workers : hold'[w] = f})
                 /\ ~fns'[f].made => fns'[f].queued = 0
                 /\ fns'[f].plain => fns'[f].referenced
                 /\ fns'[f].plain /\ fns'[f].closing => fns'[f].threads = 0
      <3>1. CASE f = g
        BY <1>6, <1>7, <1>10, <3>1
      <3>2. CASE f # g
        <4>1. /\ fns[f].threads = Cardinality({w \in Workers : hold[w] = f})
              /\ ~fns[f].made => fns[f].queued = 0
              /\ fns[f].plain => fns[f].referenced
              /\ fns[f].plain /\ fns[f].closing => fns[f].threads = 0
          BY <1>5 DEF Threaded
        <4>2. fns'[f] = fns[f]
          BY <1>7, <3>2
        <4>3. {w \in Workers : hold'[w] = f} = {w \in Workers : hold[w] = f}
          BY <1>11, <3>2
        <4> QED
          BY <4>1, <4>2, <4>3, Zenon
      <3> QED
        BY <3>1, <3>2
    <2>3. /\ checked' \in [Workers -> BOOLEAN]
          /\ \A w \in Workers : checked'[w] => hold'[w] # NoFn
      <3>1. g # NoFn
        BY ThreadAssumption
      <3> QED
        BY <1>4, <1>5, <1>8, <3>1 DEF Threaded
    <2> QED
      BY <1>7, <1>8, <2>1, <2>2, <2>3 DEF Threaded
  <1>13. Sourced(sources', uses', batch', fns', work')
    <2>1. /\ sources' \in Seq(Names) /\ Range(sources) \subseteq Range(sources')
          /\ "threadsafe" \in Range(sources')
      BY <1>4, <1>5, DeclaredIs DEF Sourced, Names
    <2> QED
      BY <1>1, <1>4, <1>5, <2>1 DEF Sourced
  <1>14. /\ Noted(late') /\ late'.timers = late.timers /\ late'.work = late.work
         /\ late'.batch = late.batch /\ late.fns \subseteq late'.fns
         /\ Deaf \/ AskedOnce => g \in late'.fns
    <2>1. CASE Deaf \/ AskedOnce
      BY <1>3, <1>5, <2>1 DEF Noted
    <2>2. CASE ~(Deaf \/ AskedOnce)
      BY <1>3, <1>5, <2>2
    <2> QED
      BY <2>1, <2>2
  <1>15. LookedAt(stack, why) => g \in late'.fns
    <2>1. stack \in Seq(Frame) /\ Len(stack) > 1
      BY <1>2 DEF IInv, Stacked, Quiet
    <2>2. ASSUME Len(stack) = 1 PROVE FALSE
      BY <2>1, <2>2
    <2>3. LookedAt(stack, why) => Deaf \/ AskedOnce
      BY <2>1, <2>2, Zenon DEF LookedAt, Asking, Finished, Deaf, AskedOnce
    <2> QED
      BY <1>14, <2>3
  <1>16. Emptied(stack, why) => LookedAt(stack, why)
    BY Zenon DEF Emptied, LookedAt, Past
  <1>17. LookedAt(stack, why) => \A f \in Prompt(fns', late') : f \in Prompt(fns, late) /\ fns'[f] = fns[f]
    BY <1>7, <1>14, <1>15 DEF Prompt
  <1>18. NoFurther(stack, why, stack', why', sources')
    BY <1>2, <1>4, QuietIsNoFurther, Zenon
  <1>19. Worked(work') /\ batch' \in Nat
    BY <1>4, <1>5
  <1>20. /\ Past(stack, why, "batch") /\ (batch = 0 \/ late.batch) => batch' = 0 \/ late'.batch
         /\ Past(stack, why, "work") /\ (work.outstanding = 0 \/ late.work)
            => work'.outstanding = 0 \/ late'.work
         /\ LookedAt(stack, why) /\ (\A f \in Prompt(fns, late) : fns[f].threads = 0)
            => \A f \in Prompt(fns', late') : fns'[f].threads = 0
         /\ Emptied(stack, why) /\ (\A f \in Prompt(fns, late) : fns[f].threads = 0 /\ fns[f].queued = 0)
            => \A f \in Prompt(fns', late') : fns'[f].queued = 0
    BY <1>4, <1>14, <1>16, <1>17, Zenon
  <1> QED
    BY <1>2, <1>4, <1>12, <1>13, <1>14, <1>18, <1>19, <1>20, StepOfNative, Zenon

\* A stack that does not change.
LEMMA StackStays ==
  ASSUME IInv, stack' = stack, why' = why
  PROVE  Stacked(stack') /\ SameDues(stack, stack') /\ NoFurther(stack, why, stack', why', sources')
  BY Zenon DEF IInv, SameDues, NoFurther

\* What one thread-safe function becomes while the others stay as they are.
LEMMA OneFn ==
  ASSUME IInv, NEW g \in Fns, NEW x \in FnType, fns' = [fns EXCEPT ![g] = x],
         NEW h \in [Workers -> Fns \cup {NoFn}], NEW c \in [Workers -> BOOLEAN],
         \A w \in Workers : c[w] => h[w] # NoFn,
         \A w \in Workers : h[w] # NoFn /\ h[w] # g => h[w] = hold[w],
         \A w \in Workers : hold[w] # g /\ hold[w] # NoFn => h[w] = hold[w],
         (\E w \in Workers : h[w] = g) => x.made,
         x.threads = Cardinality({w \in Workers : h[w] = g}),
         ~x.made => x.queued = 0, x.plain => x.referenced, x.plain /\ x.closing => x.threads = 0
  PROVE  Threaded(fns', h, c)
  <1>1. Threaded(fns, hold, checked)
    BY DEF IInv
  <1>2. fns' \in [Fns -> FnType] /\ fns'[g] = x /\ \A f \in Fns : f # g => fns'[f] = fns[f]
    BY <1>1 DEF Threaded
  <1>3. ASSUME NEW f \in Fns
        PROVE  /\ fns'[f].threads = Cardinality({w \in Workers : h[w] = f})
               /\ ~fns'[f].made => fns'[f].queued = 0
               /\ fns'[f].plain => fns'[f].referenced
               /\ fns'[f].plain /\ fns'[f].closing => fns'[f].threads = 0
    <2>1. CASE f = g
      BY <1>2, <2>1
    <2>2. CASE f # g
      <3>1. /\ fns[f].threads = Cardinality({w \in Workers : hold[w] = f})
            /\ ~fns[f].made => fns[f].queued = 0
            /\ fns[f].plain => fns[f].referenced
            /\ fns[f].plain /\ fns[f].closing => fns[f].threads = 0
        BY <1>1 DEF Threaded
      <3>2. fns'[f] = fns[f]
        BY <1>2, <2>2
      <3>3. f # NoFn
        BY ThreadAssumption
      <3>4. {w \in Workers : h[w] = f} = {w \in Workers : hold[w] = f}
        BY <2>2, <3>3
      <3> QED
        BY <3>1, <3>2, <3>4, Zenon
    <2> QED
      BY <2>1, <2>2
  <1>4. \A w \in Workers : h[w] # NoFn => fns'[h[w]].made
    <2>1. SUFFICES ASSUME NEW w \in Workers, h[w] # NoFn PROVE fns'[h[w]].made
      OBVIOUS
    <2>2. CASE h[w] = g
      BY <1>2, <2>2
    <2>3. CASE h[w] # g
      <3>1. h[w] = hold[w] /\ hold[w] # NoFn /\ hold[w] \in Fns /\ hold[w] # g
        BY <1>1, <2>1, <2>3 DEF Threaded
      <3>2. fns[hold[w]].made
        BY <1>1, <3>1 DEF Threaded
      <3> QED
        BY <1>2, <3>1, <3>2
    <2> QED
      BY <2>2, <2>3
  <1> QED
    BY <1>2, <1>3, <1>4 DEF Threaded

\* A function some thread holds is made, and counts its threads.
LEMMA HeldIs ==
  ASSUME IInv, NEW w \in Workers, hold[w] # NoFn
  PROVE  /\ hold[w] \in Fns /\ fns[hold[w]] \in FnType /\ fns[hold[w]].made
         /\ fns[hold[w]].threads \in Nat /\ fns[hold[w]].threads >= 1
         /\ fns[hold[w]].threads = Cardinality({v \in Workers : hold[v] = hold[w]})
         /\ IsFiniteSet({v \in Workers : hold[v] = hold[w]})
         /\ fns[hold[w]].plain => fns[hold[w]].referenced /\ ~fns[hold[w]].closing
  <1> DEFINE g == hold[w]
             S == {v \in Workers : hold[v] = g}
  <1>1. g \in Fns /\ fns[g] \in FnType /\ fns[g].made
    BY DEF IInv, Threaded
  <1>2. fns[g].threads = Cardinality(S)
    BY <1>1 DEF IInv, Threaded
  <1>3. IsFiniteSet(S) /\ S # {}
    BY ThreadAssumption, FS_Subset
  <1> HIDE DEF S
  <1>4. Cardinality(S) \in Nat /\ Cardinality(S) # 0
    BY <1>3, FS_CardinalityType, FS_EmptySet, Zenon
  <1>5. fns[g].threads \in Nat /\ fns[g].threads >= 1
    BY <1>2, <1>4
  <1>6. /\ fns[g].plain => fns[g].referenced
        /\ fns[g].plain /\ fns[g].closing => fns[g].threads = 0
    BY <1>1 DEF IInv, Threaded
  <1>7. fns[g].plain => fns[g].referenced /\ ~fns[g].closing
    BY <1>5, <1>6
  <1> QED
    BY <1>1, <1>2, <1>3, <1>5, <1>7, Zenon DEF S

\* The look at closing.
LEMMA CallFnKeeps ==
  ASSUME IInv, NEW w \in Workers, CallFn(w)
  PROVE  IInv'
  <1>1. /\ stack' = stack /\ why' = why /\ fns' = fns /\ hold' = hold
        /\ UNCHANGED <<clock, promises, aborted, thrown, dying, batch, sources, work, uses, late>>
    BY DEF CallFn, BesideThreads, native, ghosts
  <1>2. Threaded(fns, hold, checked) /\ hold[w] # NoFn /\ checked' = [checked EXCEPT ![w] = TRUE]
    BY DEF IInv, CallFn
  <1>3. Threaded(fns', hold', checked')
    BY <1>1, <1>2 DEF Threaded
  <1>4. \A f \in Prompt(fns', late) : f \in Prompt(fns, late) /\ fns'[f] = fns[f]
    BY <1>1
  <1>5. Made(fns') => Made(fns)
    BY <1>1
  <1> QED
    BY <1>1, <1>3, <1>4, <1>5, StackStays, StepOfFns, Zenon

\* The send.
LEMMA SendKeeps ==
  ASSUME IInv, NEW w \in Workers, Send(w)
  PROVE  IInv'
  <1>1. /\ stack' = stack /\ why' = why /\ hold' = hold
        /\ UNCHANGED <<clock, promises, aborted, thrown, dying, batch, sources, work, uses, late>>
    BY DEF Send, BesideThreads, native, ghosts
  <1>2. Threaded(fns, hold, checked) /\ checked[w] /\ checked' = [checked EXCEPT ![w] = FALSE]
    BY DEF IInv, Send
  <1>3. hold[w] # NoFn
    BY <1>2 DEF Threaded
  <1>4. PICK g \in Fns : g = hold[w]
    BY <1>3, HeldIs
  <1>5. /\ fns[g] \in FnType /\ fns[g].made /\ fns[g].threads \in Nat /\ fns[g].threads >= 1
        /\ fns[g].threads = Cardinality({v \in Workers : hold[v] = g})
        /\ fns[g].plain => fns[g].referenced /\ ~fns[g].closing
    BY <1>3, <1>4, HeldIs
  <1>6. PICK x : x = [fns[g] EXCEPT !.queued = @ + 1]
    OBVIOUS
  <1>7. /\ x \in FnType /\ x.made = fns[g].made /\ x.threads = fns[g].threads
        /\ x.plain = fns[g].plain /\ x.closing = fns[g].closing /\ x.referenced = fns[g].referenced
    <2>1. fns[g].queued \in Nat
      BY <1>5 DEF FnType
    <2>2. PICK m \in Nat : m = fns[g].queued + 1
      BY <2>1
    <2>3. x = [fns[g] EXCEPT !.queued = m]
      BY <1>6, <2>2, Zenon
    <2> QED
      BY <1>5, <2>2, <2>3 DEF FnType
  <1>8. fns' = [fns EXCEPT ![g] = x]
    BY <1>4, <1>6 DEF Send
  <1>9. Threaded(fns', hold, checked')
    <2>1. /\ hold \in [Workers -> Fns \cup {NoFn}] /\ checked' \in [Workers -> BOOLEAN]
          /\ \A v \in Workers : checked'[v] => hold[v] # NoFn
      BY <1>2 DEF Threaded
    <2>2. (\E v \in Workers : hold[v] = g) => x.made
      BY <1>5, <1>7, Zenon
    <2>3. x.threads = Cardinality({v \in Workers : hold[v] = g})
      BY <1>5, <1>7, Zenon
    <2>4. /\ ~x.made => x.queued = 0
          /\ x.plain => x.referenced
          /\ x.plain /\ x.closing => x.threads = 0
      BY <1>5, <1>7, Zenon
    <2> QED
      BY <1>7, <1>8, <2>1, <2>2, <2>3, <2>4, OneFn
  <1>10. fns \in [Fns -> FnType] /\ \A f \in Fns : f # g => fns'[f] = fns[f]
    BY <1>2, <1>8 DEF Threaded
  <1>11. fns'[g] = x
    BY <1>8, <1>10
  <1>12. Made(fns') => Made(fns)
    BY <1>5 DEF Made
  <1>13. \A f \in Prompt(fns', late) : /\ f \in Prompt(fns, late) /\ fns'[f].threads = fns[f].threads
                                       /\ f # g => fns'[f] = fns[f]
    BY <1>7, <1>10, <1>11 DEF Prompt
  <1>14. \A f \in Prompt(fns', late) : fns[f].threads = 0 => f # g
    BY <1>5
  <1> QED
    BY <1>1, <1>9, <1>12, <1>13, <1>14, StackStays, StepOfFns, Zenon

\* A thread hands the function to another.
LEMMA AcquireKeeps ==
  ASSUME IInv, NEW w \in Workers, NEW other \in Workers, Acquire(w, other)
  PROVE  IInv'
  <1>1. /\ stack' = stack /\ why' = why /\ checked' = checked
        /\ UNCHANGED <<clock, promises, aborted, thrown, dying, batch, sources, work, uses, late>>
    BY DEF Acquire, BesideThreads, native, ghosts
  <1>2. /\ Threaded(fns, hold, checked) /\ hold[w] # NoFn /\ hold[other] = NoFn
    BY DEF IInv, Acquire
  <1>4. PICK g \in Fns : g = hold[w]
    BY <1>2, HeldIs
  <1> DEFINE S == {v \in Workers : hold[v] = g}
  <1>5. /\ fns[g] \in FnType /\ fns[g].made /\ fns[g].threads \in Nat /\ fns[g].threads >= 1
        /\ fns[g].threads = Cardinality(S) /\ IsFiniteSet(S)
        /\ fns[g].plain => fns[g].referenced /\ ~fns[g].closing
    BY <1>2, <1>4, HeldIs
  <1>6. PICK x : x = [fns[g] EXCEPT !.threads = @ + 1]
    OBVIOUS
  <1>7. /\ x \in FnType /\ x.made = fns[g].made /\ x.threads = fns[g].threads + 1
        /\ x.plain = fns[g].plain /\ x.closing = fns[g].closing /\ x.referenced = fns[g].referenced
        /\ x.queued = fns[g].queued
    <2>1. fns[g].threads \in Nat
      BY <1>5 DEF FnType
    <2>2. PICK m \in Nat : m = fns[g].threads + 1
      BY <2>1
    <2>3. x = [fns[g] EXCEPT !.threads = m]
      BY <1>6, <2>2, Zenon
    <2> QED
      BY <1>5, <2>2, <2>3 DEF FnType
  <1>8. fns' = [fns EXCEPT ![g] = x] /\ hold' = [hold EXCEPT ![other] = g]
    BY <1>4, <1>6 DEF Acquire
  <1>9. /\ hold \in [Workers -> Fns \cup {NoFn}]
        /\ \A v \in Workers : hold'[v] = IF v = other THEN g ELSE hold[v]
        /\ hold' \in [Workers -> Fns \cup {NoFn}]
    BY <1>2, <1>8 DEF Threaded
  <1>10. g # NoFn
    BY ThreadAssumption
  <1>11. Cardinality({v \in Workers : hold'[v] = g}) = fns[g].threads + 1
    <2>1. {v \in Workers : hold'[v] = g} = S \cup {other} /\ other \notin S
      BY <1>2, <1>9, <1>10
    <2> HIDE DEF S
    <2>2. Cardinality(S \cup {other}) = Cardinality(S) + 1
      BY <1>5, <2>1, FS_AddElement
    <2> QED
      BY <1>5, <2>1, <2>2
  <1> HIDE DEF S
  <1>12. Threaded(fns', hold', checked')
    <2>1. /\ checked' \in [Workers -> BOOLEAN]
          /\ \A v \in Workers : checked'[v] => hold'[v] # NoFn
      BY <1>1, <1>2, <1>9, <1>10 DEF Threaded
    <2>2. (\E v \in Workers : hold'[v] = g) => x.made
      BY <1>5, <1>7, Zenon
    <2>3. x.threads = Cardinality({v \in Workers : hold'[v] = g})
      BY <1>7, <1>11, Zenon
    <2>4. /\ ~x.made => x.queued = 0
          /\ x.plain => x.referenced
          /\ x.plain /\ x.closing => x.threads = 0
      BY <1>5, <1>7, Zenon
    <2>5. /\ \A v \in Workers : hold'[v] # NoFn /\ hold'[v] # g => hold'[v] = hold[v]
          /\ \A v \in Workers : hold[v] # g /\ hold[v] # NoFn => hold'[v] = hold[v]
      BY <1>2, <1>9
    <2>7. PICK h, c : h = hold' /\ c = checked'
      OBVIOUS
    <2>8. /\ x \in FnType /\ fns' = [fns EXCEPT ![g] = x] /\ h \in [Workers -> Fns \cup {NoFn}]
          /\ c \in [Workers -> BOOLEAN]
          /\ \A v \in Workers : c[v] => h[v] # NoFn
          /\ \A v \in Workers : h[v] # NoFn /\ h[v] # g => h[v] = hold[v]
          /\ \A v \in Workers : hold[v] # g /\ hold[v] # NoFn => h[v] = hold[v]
          /\ (\E v \in Workers : h[v] = g) => x.made
          /\ x.threads = Cardinality({v \in Workers : h[v] = g})
          /\ ~x.made => x.queued = 0
          /\ x.plain => x.referenced
          /\ x.plain /\ x.closing => x.threads = 0
      BY <1>7, <1>8, <1>9, <2>1, <2>2, <2>3, <2>4, <2>5, <2>7, Zenon
    <2>9. Threaded(fns', h, c)
      BY <2>8, OneFn, Zenon
    <2> QED
      BY <2>7, <2>9, Zenon
  <1>13. fns \in [Fns -> FnType] /\ \A f \in Fns : f # g => fns'[f] = fns[f]
    BY <1>2, <1>8 DEF Threaded
  <1>14. fns'[g] = x
    BY <1>8, <1>13
  <1>15. Made(fns') => Made(fns)
    BY <1>5 DEF Made
  <1>16. \A f \in Prompt(fns', late) : /\ f \in Prompt(fns, late) /\ fns'[f].queued = fns[f].queued
                                       /\ f # g => fns'[f] = fns[f]
    BY <1>7, <1>13, <1>14 DEF Prompt
  <1>17. \A f \in Prompt(fns', late) : fns[f].threads = 0 => f # g
    BY <1>5
  <1> QED
    BY <1>1, <1>12, <1>15, <1>16, <1>17, StackStays, StepOfFns, Zenon

\* A thread leaves the function, the last one or an abort closes it.
LEMMA ReleaseKeeps ==
  ASSUME IInv, NEW w \in Workers, NEW abort \in BOOLEAN, Release(w, abort)
  PROVE  IInv'
  <1>1. /\ stack' = stack /\ why' = why /\ checked' = checked
        /\ UNCHANGED <<clock, promises, aborted, thrown, dying, batch, sources, work, uses, late>>
    BY DEF Release, BesideThreads, native, ghosts
  <1>2. /\ Threaded(fns, hold, checked) /\ hold[w] # NoFn /\ ~checked[w]
    BY DEF IInv, Release
  <1>4. PICK g \in Fns : g = hold[w]
    BY <1>2, HeldIs
  <1> DEFINE S == {v \in Workers : hold[v] = g}
  <1>5. /\ fns[g] \in FnType /\ fns[g].made /\ fns[g].threads \in Nat /\ fns[g].threads >= 1
        /\ fns[g].threads = Cardinality(S) /\ IsFiniteSet(S)
        /\ fns[g].plain => fns[g].referenced /\ ~fns[g].closing
    BY <1>2, <1>4, HeldIs
  <1>6. PICK x : x = [fns[g] EXCEPT !.threads = @ - 1,
                                    !.closing = @ \/ abort \/ fns[g].threads <= 1,
                                    !.plain = @ /\ ~abort]
    OBVIOUS
  <1>7. /\ x \in FnType /\ x.made = fns[g].made /\ x.threads = fns[g].threads - 1
        /\ x.referenced = fns[g].referenced /\ x.queued = fns[g].queued
        /\ x.plain <=> fns[g].plain /\ ~abort
        /\ x.closing <=> fns[g].closing \/ abort \/ fns[g].threads <= 1
    <2>1. PICK n \in Nat : n = fns[g].threads
      BY <1>5
    <2>2. n >= 1 /\ n - 1 \in Nat
      BY <1>5, <2>1
    <2>3. PICK m : m = n - 1
      OBVIOUS
    <2>4. PICK closing \in BOOLEAN : closing <=> fns[g].closing \/ abort \/ n <= 1
      OBVIOUS
    <2>5. PICK plain \in BOOLEAN : plain <=> fns[g].plain /\ ~abort
      OBVIOUS
    <2>6. fns[g].plain \in BOOLEAN /\ fns[g].closing \in BOOLEAN
      BY <1>5 DEF FnType
    <2>7. closing = (fns[g].closing \/ abort \/ fns[g].threads <= 1) /\ plain = (fns[g].plain /\ ~abort)
      BY <2>1, <2>4, <2>5, <2>6
    <2>8. x = [fns[g] EXCEPT !.threads = m, !.closing = closing, !.plain = plain]
      BY <1>6, <2>1, <2>3, <2>7, Zenon
    <2>9. /\ x \in FnType /\ x.made = fns[g].made /\ x.threads = m /\ x.plain = plain
          /\ x.closing = closing /\ x.referenced = fns[g].referenced /\ x.queued = fns[g].queued
      BY <1>5, <2>2, <2>3, <2>8 DEF FnType
    <2> QED
      BY <2>1, <2>3, <2>4, <2>5, <2>9
  <1>8. fns' = [fns EXCEPT ![g] = x] /\ hold' = [hold EXCEPT ![w] = NoFn]
    <2>1. fns \in [Fns -> FnType]
      BY <1>2 DEF Threaded
    <2>2. fns' = [fns EXCEPT ![g].threads = @ - 1,
                             ![g].closing = @ \/ abort \/ fns[g].threads <= 1,
                             ![g].plain = @ /\ ~abort]
      BY <1>4, Zenon DEF Release
    <2>3. hold' = [hold EXCEPT ![w] = NoFn]
      BY DEF Release
    <2> QED
      BY <1>5, <1>6, <2>1, <2>2, <2>3
  <1>9. /\ hold \in [Workers -> Fns \cup {NoFn}]
        /\ \A v \in Workers : hold'[v] = IF v = w THEN NoFn ELSE hold[v]
        /\ hold' \in [Workers -> Fns \cup {NoFn}]
    BY <1>2, <1>8 DEF Threaded
  <1>10. g # NoFn
    BY ThreadAssumption
  <1>11. Cardinality({v \in Workers : hold'[v] = g}) = fns[g].threads - 1
    <2>1. {v \in Workers : hold'[v] = g} = S \ {w} /\ w \in S
      BY <1>4, <1>9, <1>10
    <2> HIDE DEF S
    <2>2. Cardinality(S \ {w}) = Cardinality(S) - 1
      BY <1>5, <2>1, FS_RemoveElement
    <2> QED
      BY <1>5, <2>1, <2>2
  <1> HIDE DEF S
  <1>12. Threaded(fns', hold', checked')
    <2>1. /\ checked' \in [Workers -> BOOLEAN]
          /\ \A v \in Workers : checked'[v] => hold'[v] # NoFn
      BY <1>1, <1>2, <1>9 DEF Threaded
    <2>2. (\E v \in Workers : hold'[v] = g) => x.made
      BY <1>5, <1>7, Zenon
    <2>3. x.threads = Cardinality({v \in Workers : hold'[v] = g})
      BY <1>7, <1>11, Zenon
    <2>4. /\ ~x.made => x.queued = 0
          /\ x.plain => x.referenced
      BY <1>5, <1>7, Zenon
    <2>5. x.plain /\ x.closing => x.threads = 0
      BY <1>5, <1>7
    <2>6. /\ \A v \in Workers : hold'[v] # NoFn /\ hold'[v] # g => hold'[v] = hold[v]
          /\ \A v \in Workers : hold[v] # g /\ hold[v] # NoFn => hold'[v] = hold[v]
      BY <1>4, <1>9
    <2>7. PICK h, c : h = hold' /\ c = checked'
      OBVIOUS
    <2>8. /\ x \in FnType /\ fns' = [fns EXCEPT ![g] = x] /\ h \in [Workers -> Fns \cup {NoFn}]
          /\ c \in [Workers -> BOOLEAN]
          /\ \A v \in Workers : c[v] => h[v] # NoFn
          /\ \A v \in Workers : h[v] # NoFn /\ h[v] # g => h[v] = hold[v]
          /\ \A v \in Workers : hold[v] # g /\ hold[v] # NoFn => h[v] = hold[v]
          /\ (\E v \in Workers : h[v] = g) => x.made
          /\ x.threads = Cardinality({v \in Workers : h[v] = g})
          /\ ~x.made => x.queued = 0
          /\ x.plain => x.referenced
          /\ x.plain /\ x.closing => x.threads = 0
      BY <1>7, <1>8, <1>9, <2>1, <2>2, <2>3, <2>4, <2>5, <2>6, <2>7, Zenon
    <2>9. Threaded(fns', h, c)
      BY <2>8, OneFn, Zenon
    <2> QED
      BY <2>7, <2>9, Zenon
  <1>13. fns \in [Fns -> FnType] /\ \A f \in Fns : f # g => fns'[f] = fns[f]
    BY <1>2, <1>8 DEF Threaded
  <1>14. fns'[g] = x
    BY <1>8, <1>13
  <1>15. Made(fns') => Made(fns)
    BY <1>5 DEF Made
  <1>16. \A f \in Prompt(fns', late) : /\ f \in Prompt(fns, late) /\ fns'[f].queued = fns[f].queued
                                       /\ f # g => fns'[f] = fns[f]
    BY <1>7, <1>13, <1>14 DEF Prompt
  <1>17. \A f \in Prompt(fns', late) : fns[f].threads = 0 => f # g
    BY <1>5
  <1> QED
    BY <1>1, <1>12, <1>15, <1>16, <1>17, StackStays, StepOfFns, Zenon

\* A thread's work completes.
LEMMA WorkFinishesKeeps ==
  ASSUME IInv, WorkFinishes
  PROVE  IInv'
  <1>1. /\ stack' = stack /\ why' = why /\ UNCHANGED <<clock, promises, aborted, thrown, dying>>
        /\ batch' = batch /\ sources' = sources /\ uses' = uses /\ late' = late
        /\ fns' = fns /\ hold' = hold /\ checked' = checked
    BY DEF WorkFinishes, BesideThreads, native, ghosts, threads
  <1>2. Worked(work') /\ work'.outstanding = work.outstanding
    <2>1. Worked(work) /\ work.running > 0
      BY DEF IInv, WorkFinishes
    <2>2. PICK o \in Nat, r \in Nat, d \in Nat :
              work = [outstanding |-> o, running |-> r, done |-> d] /\ o = r + d
      BY <2>1 DEF Worked
    <2>3. work' = [outstanding |-> o, running |-> r - 1, done |-> d + 1] /\ r > 0
      BY <2>1, <2>2 DEF WorkFinishes
    <2> QED
      BY <2>2, <2>3 DEF Worked
  <1>3. Sourced(sources', uses', batch', fns', work')
    <2>1. Sourced(sources, uses, batch, fns, work)
      BY DEF IInv
    <2> QED
      BY <1>1, <1>2, <2>1 DEF Sourced
  <1>4. Threaded(fns', hold', checked') /\ Noted(late') /\ batch' \in Nat
    BY <1>1 DEF IInv, Flagged
  <1> QED
    BY <1>1, <1>2, <1>3, <1>4, StackStays, StepOfNative, Zenon

-----------------------------------------------------------------------------
(***************************************************************************)
(* Drains and pumps.                                                       *)
(***************************************************************************)
\* A drain calls a reaction or a finalizer.
LEMMA DrainCallsKeeps ==
  ASSUME IInv, RunReaction \/ RunFinalizer
  PROVE  IInv'
  <1>1. Stacked(stack) /\ Top.at = "drain" /\ Top \in DrainFrame
    BY TopIs, KindOf DEF IInv, RunReaction, RunFinalizer
  <1>2. PICK f \in DrainFrame, from \in {"reaction", "finalizer"} : stack' = Call(f, Code(from))
    <2>1. CASE RunReaction
      BY <1>1, <2>1 DEF RunReaction
    <2>2. CASE RunFinalizer
      <3>1. [Top EXCEPT !.left = @ - 1] \in DrainFrame
        <4>1. PICK n \in Nat : n = Top.left - 1
          BY <1>1, <2>2 DEF RunFinalizer, DrainFrame
        <4>2. [Top EXCEPT !.left = n] \in DrainFrame
          BY <1>1 DEF DrainFrame
        <4> QED
          BY <4>1, <4>2
      <3> QED
        BY <2>2, <3>1 DEF RunFinalizer
    <2> QED
      BY <2>1, <2>2
  <1>3. f.at = "drain" /\ f \in Frame
    BY FrameIs DEF DrainFrame
  <1>4. Code(from) \in Frame /\ Code(from).at = "code" /\ Sane(Code(from))
    BY NewFrames
  <1>5. Sane(f) /\ DueOf(f) = DueOf(Top) /\ Alike(f, Top) /\ Runs(f, Code(from))
        /\ DueOf(Code(from)) = <<>>
    BY <1>1, <1>3, <1>4 DEF Sane, DueOf, Alike, Runs
  <1>6. Stacked(stack') /\ SameDues(stack, stack') /\ Quiet(stack, stack')
    BY <1>1, <1>2, <1>3, <1>4, <1>5, CallKeeps
  <1>7. Promised(promise', reacts', micro')
    BY DEF IInv, RunReaction, RunFinalizer, OnlyTheStack, promises, Promised
  <1>8. /\ aborted' \in BOOLEAN /\ thrown' \in BOOLEAN /\ dying' \in Nat
        /\ UNCHANGED <<clock, sources, batch, fns, hold, checked, work, uses, late, why>>
    BY DEF IInv, RunReaction, RunFinalizer, OnlyTheStack, Flagged, native, threads, ghosts
  <1> QED
    BY <1>6, <1>7, <1>8, QuietlyOn, Zenon

\* The finalizers are taken, whoever called the drain.
LEMMA TakeFinalizersKeeps ==
  ASSUME IInv, TakeFinalizers
  PROVE  IInv'
  <1>1. Stacked(stack) /\ Top.at = "drain" /\ Top \in DrainFrame /\ dying \in Nat
    BY TopIs, KindOf DEF IInv, TakeFinalizers, Flagged
  <1> DEFINE f == [Top EXCEPT !.stage = "finalizers", !.left = dying]
  <1>2. f \in DrainFrame /\ f.at = "drain"
    BY <1>1 DEF DrainFrame
  <1>3. stack' = With(f)
    BY DEF TakeFinalizers
  <1> HIDE DEF f
  <1>4. f \in Frame /\ Sane(f) /\ DueOf(f) = DueOf(Top) /\ Alike(f, Top)
    BY <1>1, <1>2, FrameIs DEF Sane, DueOf, Alike
  <1>5. Stacked(stack') /\ SameDues(stack, stack') /\ Quiet(stack, stack')
    BY <1>1, <1>2, <1>3, <1>4, Onwards
  <1>6. /\ Promised(promise', reacts', micro') /\ aborted' \in BOOLEAN /\ thrown' \in BOOLEAN
        /\ dying' \in Nat
        /\ UNCHANGED <<clock, sources, batch, fns, hold, checked, work, uses, late, why>>
    BY DEF IInv, TakeFinalizers, Flagged, promises, native, threads, ghosts
  <1> QED
    BY <1>5, <1>6, QuietlyOn, Zenon

\* A drain ends: the host begins a turn or is over, others go on.
LEMMA DrainEndsKeeps ==
  ASSUME IInv, DrainEnds
  PROVE  IInv'
  <1>1. Stacked(stack) /\ Top.at = "drain" /\ stack' = Return /\ Len(stack) >= 2
    BY TopIs DEF IInv, DrainEnds
  <1>2. Caller \in Frame /\ Sane(Caller) /\ Runs(Caller, Top) /\ DueOf(Top) = <<>>
    BY <1>1, TopIs DEF DueOf
  <1>3. Popped(stack, stack', Caller) /\ Alike(Caller, Caller)
    BY <1>1, Returns
  <1>4. Caller.at = "host" => Caller.stage # "asked"
    BY <1>1, <1>2 DEF Runs
  <1>5. Stacked(stack') /\ SameDues(stack, stack')
    BY <1>1, <1>2, <1>3, <1>4, Returning
  <1>6. NoFurther(stack, why, stack', why', sources)
    <2>0. why' = why
      BY DEF DrainEnds, OnlyTheStack, ghosts
    <2>1. CASE Caller.at # "host"
      <3>1. Quiet(stack, stack')
        BY <1>1, <1>2, <1>3, <2>1, Returning
      <3> QED
        BY <2>0, <3>1, QuietIsNoFurther, Zenon
    <2>2. CASE Caller.at = "host"
      <3>1. PICK n : n = Len(stack')
        OBVIOUS
      <3>2. n = 1 /\ stack'[1] = stack[1] /\ stack[1] = Caller
        BY <1>1, <1>3, <2>2, <3>1, TopIs DEF Popped
      <3>3. stack'[1].stage \in {"turn", "over"}
        BY <1>1, <1>2, <2>2, <3>2 DEF Runs
      <3>4. ~Asking(stack', 1) /\ ~Asking(stack', 2)
        BY <3>1, <3>2 DEF Asking
      <3>5. Finished(stack', why) => Finished(stack, why)
        BY <3>2, <3>3 DEF Finished
      <3> QED
        BY <2>0, <3>4, <3>5, Zenon DEF NoFurther, Past, Emptied, LookedAt
    <2> QED
      BY <2>1, <2>2
  <1>7. Clocked(timers', nextId', handles') /\ Balanced(timers', credit', stack')
    <2>1. Balanced(timers, credit, stack')
      BY <1>5, BalanceSame DEF IInv
    <2> QED
      BY <2>1 DEF IInv, DrainEnds, OnlyTheStack, clock
  <1>8. /\ Promised(promise', reacts', micro') /\ aborted' \in BOOLEAN /\ thrown' \in BOOLEAN
        /\ dying' \in Nat /\ Noted(late') /\ late' = late /\ timers' = timers
        /\ UNCHANGED <<sources, batch, fns, hold, checked, work, uses>>
    BY DEF IInv, DrainEnds, OnlyTheStack, Flagged, promises, native, threads, ghosts, clock
  <1> QED
    BY <1>5, <1>6, <1>7, <1>8, StepOfClock, Zenon

\* What an aborted signal rejects is owed no more.
LEMMA RejectAbortedKeeps ==
  ASSUME IInv, RejectAborted
  PROVE  IInv'
  <1>1. /\ Stacked(stack) /\ Top.at = "pump" /\ Top \in PumpFrame /\ Top.stage = "reject"
        /\ Sane(Top) /\ Clocked(timers, nextId, handles) /\ Balanced(timers, credit, stack)
    BY TopIs, KindOf DEF IInv, RejectAborted
  <1> DEFINE f == [Top EXCEPT !.stage = "take"]
  <1>2. f \in PumpFrame /\ f.at = "pump" /\ f.due = Top.due /\ f.stage = "take" /\ f.ran = Top.ran
    BY <1>1 DEF PumpFrame
  <1>3. stack' = Call(f, Drain)
    BY DEF RejectAborted
  <1> HIDE DEF f
  <1>4. f \in Frame /\ Sane(f) /\ DueOf(f) = DueOf(Top) /\ Alike(f, Top) /\ Runs(f, Drain)
        /\ Drain \in Frame /\ Sane(Drain) /\ DueOf(Drain) = <<>>
    BY <1>1, <1>2, FrameIs, NewFrames DEF Sane, DueOf, Alike, Runs
  <1>5. Stacked(stack') /\ SameDues(stack, stack') /\ Quiet(stack, stack')
    BY <1>1, <1>2, <1>3, <1>4, CallKeeps
  <1>6. Aborted \subseteq DOMAIN timers /\ Aborted \subseteq Ids /\ IsFiniteSet(Aborted)
    <2>1. Aborted \subseteq DOMAIN timers
      BY DEF Aborted, Watching
    <2>2. Aborted \subseteq Ids
      BY <1>1, <2>1 DEF Clocked, Table
    <2>3. IsFiniteSet(Ids)
      BY TimerBounds, FS_Interval DEF Ids
    <2> QED
      BY <2>1, <2>2, <2>3, FS_Subset, Zenon
  <1>7. Table(timers') /\ Refed(timers') \subseteq Refed(timers) \cup {}
    BY <1>1, ForgetIs DEF Clocked, RejectAborted
  <1>8. Balanced(timers', credit', stack')
    <2> DEFINE e == [i \in Ids |-> IF i \in Aborted /\ i \in DOMAIN timers THEN credit[i] - 1 ELSE credit[i]]
    <2>1. Balanced(Forget(timers, Aborted), e, stack')
      BY <1>1, <1>5, BalanceForgotten
    <2>2. credit' = e
      BY <1>6 DEF RejectAborted
    <2>3. timers' = Forget(timers, Aborted)
      BY DEF RejectAborted
    <2> HIDE DEF e
    <2> QED
      BY <2>1, <2>2, <2>3
  <1>9. Promised(promise', reacts', micro')
    <2>1. Promised(promise, reacts, micro)
      BY DEF IInv
    <2>2. /\ promise' \in [Promises -> {"pending", "fulfilled", "rejected"}]
          /\ reacts' \in [Promises -> Nat]
      BY <2>1 DEF RejectAborted, Promised
    <2> DEFINE g == [p \in Aborted |-> {p} \X (1 .. reacts[p])]
    <2>3. \A p \in Aborted : IsFiniteSet(g[p])
      <3>1. SUFFICES ASSUME NEW p \in Aborted PROVE IsFiniteSet({p} \X (1 .. reacts[p]))
        OBVIOUS
      <3>2. reacts[p] \in Nat
        BY <1>6, <2>1, Bounds DEF Promised
      <3>3. IsFiniteSet(1 .. reacts[p])
        BY <3>2, FS_Interval
      <3>4. IsFiniteSet({p})
        BY FS_Singleton
      <3> QED
        BY <3>3, <3>4, FS_Product
    <2>4. UNION {g[p] : p \in Aborted} = UNION {{p} \X (1 .. reacts[p]) : p \in Aborted}
      <3>1. {g[p] : p \in Aborted} = {{p} \X (1 .. reacts[p]) : p \in Aborted}
        OBVIOUS
      <3> QED
        BY <3>1, Zenon
    <2> HIDE DEF g
    <2>5. IsFiniteSet(UNION {g[p] : p \in Aborted})
      BY <1>6, <2>3, FiniteUnion, Zenon
    <2>6. Cardinality(UNION {{p} \X (1 .. reacts[p]) : p \in Aborted}) \in Nat
      BY <2>4, <2>5, FS_CardinalityType
    <2>7. micro' \in Nat
      BY <2>1, <2>6 DEF RejectAborted, Promised
    <2> QED
      BY <2>2, <2>7 DEF Promised
  <1>10. Clocked(timers', nextId', handles')
    BY <1>1, <1>7 DEF Clocked, RejectAborted
  <1>11. /\ aborted' \in BOOLEAN /\ thrown' \in BOOLEAN /\ dying' \in Nat
         /\ UNCHANGED <<sources, batch, fns, hold, checked, work, uses>>
         /\ late' = late /\ why' = why /\ {} \in SUBSET Ids
    BY DEF IInv, RejectAborted, Flagged, native, threads, ghosts
  <1> QED
    BY <1>5, <1>7, <1>8, <1>9, <1>10, <1>11, QuietStep, Zenon

\* What the pump takes from the table it owes from then on.
LEMMA TakeDueKeeps ==
  ASSUME IInv, TakeDue
  PROVE  IInv'
  <1>1. /\ Stacked(stack) /\ Top.at = "pump" /\ Top \in PumpFrame /\ Sane(Top)
        /\ Top = stack[Len(stack)] /\ Len(stack) >= 3
        /\ Clocked(timers, nextId, handles) /\ Balanced(timers, credit, stack)
    BY TopIs, KindOf, Above DEF IInv, TakeDue
  <1>2. Top.stage \in {"take", "reject"} /\ Top.due = <<>>
    BY <1>1 DEF TakeDue, Sane
  <1> DEFINE f == [Top EXCEPT !.stage = "fire", !.due = TakenFrom(timers)]
  <1>3. stack' = With(f)
    BY DEF TakeDue, TakenFrom
  <1>4. TakenFrom(timers) \in Seq(Called)
    BY <1>1, TakenIs DEF Clocked
  <1>5. f \in PumpFrame /\ f.at = "pump" /\ f.due = TakenFrom(timers) /\ f.stage = "fire"
    BY <1>1, <1>4 DEF PumpFrame
  <1> HIDE DEF f
  <1>6. f \in Frame /\ Sane(f) /\ Alike(f, Top)
    BY <1>1, <1>5, FrameIs DEF Sane, Alike
  <1>7. Stacked(stack') /\ Replaced(stack, stack', f) /\ Quiet(stack, stack')
    BY <1>1, <1>3, <1>5, <1>6, Onwards
  <1>8. Balanced(Take(timers), credit, stack')
    BY <1>1, <1>2, <1>5, <1>6, <1>7, BalanceTaken DEF Clocked
  <1>9. timers' = Take(timers) /\ Table(timers') /\ Refed(timers') \subseteq Refed(timers) \cup {}
    BY <1>1, TakeIs DEF TakeDue, Clocked
  <1>10. Clocked(timers', nextId', handles') /\ Balanced(timers', credit', stack')
    BY <1>1, <1>8, <1>9 DEF Clocked, TakeDue
  <1>11. /\ Promised(promise', reacts', micro') /\ aborted' \in BOOLEAN /\ thrown' \in BOOLEAN
         /\ dying' \in Nat /\ UNCHANGED <<sources, batch, fns, hold, checked, work, uses>>
         /\ late' = late /\ why' = why /\ {} \in SUBSET Ids
    BY DEF IInv, TakeDue, Flagged, promises, native, threads, ghosts
  <1> QED
    BY <1>7, <1>9, <1>10, <1>11, QuietStep, Zenon

\* A call made is owed no more.
LEMMA FireNextKeeps ==
  ASSUME IInv, FireNext
  PROVE  IInv'
  <1>1. /\ Stacked(stack) /\ Top.at = "pump" /\ Top \in PumpFrame /\ Sane(Top)
        /\ Top = stack[Len(stack)] /\ Len(stack) >= 3 /\ Top.stage = "fire" /\ Top.due # <<>>
        /\ Clocked(timers, nextId, handles) /\ Balanced(timers, credit, stack)
    BY TopIs, KindOf, Above DEF IInv, FireNext
  <1>2. PICK due : due = Top.due
    OBVIOUS
  <1>3. due \in Seq(Called) /\ due # <<>> /\ Tail(due) \in Seq(Called) /\ Head(due) \in Called
    <2>1. due \in Seq(Called) /\ due # <<>>
      BY <1>1, <1>2 DEF PumpFrame
    <2> QED
      BY <2>1
  <1>4. PICK f \in PumpFrame, g \in {Drain, Code("timer")} :
            /\ stack' = Call(f, g) /\ f.due = Tail(due)
            /\ g = Drain => f.stage = "fire"
            /\ g = Code("timer") => f.stage = "checkpoint"
    <2> DEFINE rest == [Top EXCEPT !.due = Tail(@), !.ran = TRUE]
               last == [rest EXCEPT !.stage = "checkpoint"]
    <2>1. rest = [Top EXCEPT !.due = Tail(due), !.ran = TRUE]
      BY <1>2
    <2>2. rest \in PumpFrame /\ rest.due = Tail(due) /\ rest.stage = "fire"
      BY <1>1, <1>3, <2>1 DEF PumpFrame
    <2> HIDE DEF rest
    <2>3. last \in PumpFrame /\ last.due = Tail(due) /\ last.stage = "checkpoint"
      BY <2>2 DEF PumpFrame
    <2>4. Drain.at = "drain" /\ Code("timer").at = "code"
      BY NewFrames
    <2>5. Drain # Code("timer")
      BY <2>4
    <2>6. stack' = Call(rest, Drain) \/ stack' = Call(last, Code("timer"))
      BY DEF FireNext, rest
    <2> QED
      BY <2>2, <2>3, <2>5, <2>6
  <1>5. g \in Frame /\ Sane(g) /\ DueOf(g) = <<>> /\ g.at \in {"drain", "code"}
        /\ (g.at = "drain" => g = Drain) /\ (g.at = "code" => g = Code("timer"))
    BY NewFrames DEF DueOf
  <1>6. f \in Frame /\ f.at = "pump" /\ Sane(f) /\ Alike(f, Top) /\ Runs(f, g)
    <2>1. f \in Frame /\ f.at = "pump"
      BY FrameIs DEF PumpFrame
    <2>2. f.stage \in {"fire", "checkpoint"}
      BY <1>4
    <2>3. Runs(f, g)
      BY <1>4, <1>5, <2>1 DEF Runs
    <2> QED
      BY <1>1, <2>1, <2>2, <2>3 DEF Sane, Alike
  <1>7. Stacked(stack') /\ Pushed(stack, stack', f, g) /\ Quiet(stack, stack')
    BY <1>1, <1>4, <1>5, <1>6, Calling
  <1>8. Balanced(timers, [credit EXCEPT ![Head(due).id] = IF Head(due).again THEN @ ELSE @ - 1], stack')
    BY <1>1, <1>2, <1>4, <1>5, <1>6, <1>7, BalanceFired, Zenon
  <1>9. Balanced(timers', credit', stack')
    <2>1. credit' = [credit EXCEPT ![Head(due).id] = IF Head(due).again THEN @ ELSE @ - 1]
          /\ timers' = timers
      BY <1>2, Zenon DEF FireNext
    <2> QED
      BY <1>8, <2>1, Zenon
  <1>10. Clocked(timers', nextId', handles') /\ Refed(timers') \subseteq Refed(timers) \cup {}
    BY <1>1 DEF FireNext
  <1>11. Promised(promise', reacts', micro')
    <2>1. CASE Head(due).settles
      <3>1. Settle(Head(due).id, "fulfilled")
        BY <1>2, <2>1 DEF FireNext
      <3>2. Head(due).id \in Promises
        BY <1>3, Bounds DEF Called
      <3> QED
        BY <3>1, <3>2, SettleKeeps
    <2>2. CASE ~Head(due).settles
      BY <1>2, <2>2 DEF FireNext, promises, IInv
    <2> QED
      BY <2>1, <2>2
  <1>12. /\ aborted' \in BOOLEAN /\ thrown' \in BOOLEAN
         /\ dying' \in Nat /\ UNCHANGED <<sources, batch, fns, hold, checked, work, uses>>
         /\ late' = late /\ why' = why /\ {} \in SUBSET Ids
    BY DEF IInv, FireNext, Flagged, native, threads, ghosts
  <1> QED
    BY <1>7, <1>9, <1>10, <1>11, <1>12, QuietStep, Zenon

\* The drain behind a callback.
LEMMA CheckpointKeeps ==
  ASSUME IInv, Checkpoint
  PROVE  IInv'
  <1>1. Stacked(stack) /\ Top.at = "pump" /\ Top \in PumpFrame /\ Top.stage = "checkpoint" /\ Sane(Top)
    BY TopIs, KindOf DEF IInv, Checkpoint
  <1> DEFINE f == [Top EXCEPT !.stage = "fire"]
  <1>2. f \in PumpFrame /\ f.at = "pump" /\ f.due = Top.due /\ f.stage = "fire" /\ f.ran = Top.ran
    BY <1>1 DEF PumpFrame
  <1>3. stack' = Call(f, Drain)
    BY DEF Checkpoint
  <1> HIDE DEF f
  <1>4. f \in Frame /\ Sane(f) /\ DueOf(f) = DueOf(Top) /\ Alike(f, Top) /\ Runs(f, Drain)
        /\ Drain \in Frame /\ Sane(Drain) /\ DueOf(Drain) = <<>>
    BY <1>1, <1>2, FrameIs, NewFrames DEF Sane, DueOf, Alike, Runs
  <1>5. Stacked(stack') /\ SameDues(stack, stack') /\ Quiet(stack, stack')
    BY <1>1, <1>2, <1>3, <1>4, CallKeeps
  <1>6. /\ Promised(promise', reacts', micro') /\ aborted' \in BOOLEAN /\ thrown' \in BOOLEAN
        /\ dying' \in Nat
        /\ UNCHANGED <<clock, sources, batch, fns, hold, checked, work, uses, late, why>>
    BY DEF IInv, Checkpoint, OnlyTheStack, Flagged, promises, native, threads, ghosts
  <1> QED
    BY <1>5, <1>6, QuietlyOn, Zenon

\* The pump has called everything it took.
LEMMA PumpEndsKeeps ==
  ASSUME IInv, PumpEnds
  PROVE  IInv'
  <1>1. Stacked(stack) /\ Top.at = "pump" /\ DueOf(Top) = <<>>
    BY DEF IInv, PumpEnds, DueOf
  <1>2. Caller.at # "host"
    BY <1>1, TopIs DEF Runs
  <1>3. Stacked(stack') /\ SameDues(stack, stack') /\ Quiet(stack, stack')
    BY <1>1, <1>2, ReturnKeeps DEF PumpEnds
  <1>4. /\ Promised(promise', reacts', micro') /\ aborted' \in BOOLEAN /\ thrown' \in BOOLEAN
        /\ dying' \in Nat
        /\ UNCHANGED <<clock, sources, batch, fns, hold, checked, work, uses, late, why>>
    BY DEF IInv, PumpEnds, OnlyTheStack, Flagged, promises, native, threads, ghosts
  <1> QED
    BY <1>3, <1>4, QuietlyOn, Zenon

-----------------------------------------------------------------------------
(***************************************************************************)
(* A pass over the sources.                                                *)
(***************************************************************************)
\* A pass is called by the host that asks or by an await, and has its kind.
LEMMA PassIs ==
  ASSUME IInv, Top.at = "pass"
  PROVE  /\ Stacked(stack) /\ Top \in PassFrame /\ Sane(Top) /\ Top = stack[Len(stack)]
         /\ Len(stack) \in Nat /\ Len(stack) >= 2 /\ Caller = stack[Len(stack) - 1]
         /\ Caller \in Frame /\ Sane(Caller) /\ Caller.at \in {"host", "await"}
         /\ Caller.stage = "asked" /\ (Caller.at = "host" <=> Len(stack) = 2)
         /\ DueOf(Top) = <<>>
  <1>1. /\ Stacked(stack) /\ Top \in PassFrame /\ Sane(Top) /\ Top = stack[Len(stack)]
        /\ Len(stack) \in Nat /\ Len(stack) >= 2 /\ Caller = stack[Len(stack) - 1]
        /\ Caller \in Frame /\ Sane(Caller) /\ Runs(Caller, Top)
        /\ Caller.at = "host" => Len(stack) = 2
        /\ Caller.at # "host" => Len(stack) >= 3
    BY TopIs, KindOf DEF IInv
  <1>2. Caller.at \in {"host", "await"} /\ Caller.stage = "asked"
    BY <1>1 DEF Runs
  <1> QED
    BY <1>1, <1>2 DEF DueOf

\* The host goes by its own pass, not by those of the awaits above it.
LEMMA QuietAbove ==
  ASSUME Stacked(stack), Len(stack) >= 3, NEW f, Replaced(stack, stack', f)
  PROVE  Quiet(stack, stack')
  BY DEF Stacked, Replaced, Quiet

\* A pass asks the next source.
LEMMA AskSourceKeeps ==
  ASSUME IInv, AskSource
  PROVE  IInv'
  <1>1. /\ Stacked(stack) /\ Top \in PassFrame /\ Top.at = "pass" /\ Top.stage = "next"
        /\ Top.left # <<>> /\ DueOf(Top) = <<>>
    BY PassIs DEF AskSource
  <1> DEFINE f == [Top EXCEPT !.stage = "asked"]
  <1>2. /\ f \in PassFrame /\ f.at = "pass" /\ f.stage = "asked" /\ f.left = Top.left
        /\ f.n = Top.n /\ f.wait = Top.wait
    BY <1>1 DEF PassFrame
  <1>3. stack' = Call(f, Pump) \/ stack' = Call(f, Batch) \/ stack' = With(f)
    BY DEF AskSource
  <1> HIDE DEF f
  <1>4. f \in Frame /\ Sane(f) /\ DueOf(f) = DueOf(Top) /\ Alike(f, Top)
    BY <1>1, <1>2, FrameIs DEF Sane, DueOf, Alike
  <1>5. \A g \in {Pump, Batch} : g \in Frame /\ Sane(g) /\ Runs(f, g) /\ DueOf(g) = <<>>
    BY <1>2, NewFrames DEF Runs, DueOf
  <1>6. Stacked(stack') /\ SameDues(stack, stack') /\ Quiet(stack, stack')
    <2>1. CASE stack' = With(f)
      BY <1>1, <1>2, <1>4, <2>1, Onwards
    <2>2. CASE stack' = Call(f, Pump) \/ stack' = Call(f, Batch)
      <3>1. PICK g \in {Pump, Batch} : stack' = Call(f, g)
        BY <2>2
      <3> QED
        BY <1>1, <1>2, <1>4, <1>5, <3>1, CallKeeps
    <2> QED
      BY <1>3, <2>1, <2>2
  <1>7. /\ UNCHANGED <<clock, promises, aborted, thrown, dying>> /\ sources' = sources
        /\ fns' = fns /\ hold' = hold /\ checked' = checked /\ work' = work /\ uses' = uses
        /\ late' = late /\ why' = why /\ batch' \in {0, batch}
    BY DEF AskSource, threads, ghosts
  <1>8. batch \in Nat /\ Threaded(fns', hold', checked') /\ Worked(work') /\ Noted(late')
    BY <1>7 DEF IInv, Flagged
  <1>9. Sourced(sources', uses', batch', fns', work')
    <2>1. Sourced(sources, uses, batch, fns, work)
      BY DEF IInv
    <2>2. batch' > 0 => batch > 0
      BY <1>7
    <2> QED
      BY <1>7, <2>1, <2>2 DEF Sourced
  <1>10. batch' \in Nat /\ (batch = 0 => batch' = 0)
    BY <1>7, <1>8
  <1>11. NoFurther(stack, why, stack', why', sources')
    BY <1>6, <1>7, QuietIsNoFurther, Zenon
  <1> QED
    BY <1>6, <1>7, <1>8, <1>9, <1>10, <1>11, StepOfNative, Zenon

\* What a source took is called in turn.
LEMMA BatchCallsKeeps ==
  ASSUME IInv, BatchCalls
  PROVE  IInv'
  <1>1. Stacked(stack) /\ Top.at = "batch" /\ Top \in BatchFrame /\ DueOf(Top) = <<>>
    BY TopIs, KindOf DEF IInv, BatchCalls, DueOf
  <1>2. Stacked(stack') /\ SameDues(stack, stack') /\ Quiet(stack, stack')
    <2>1. CASE Top.left > 0
      <3>1. PICK n \in Nat : n = Top.left - 1
        BY <1>1, <2>1 DEF BatchFrame
      <3> DEFINE f == [Top EXCEPT !.left = n]
      <3>2. f \in BatchFrame /\ f.at = "batch"
        BY <1>1 DEF BatchFrame
      <3>3. stack' = Call(f, Code("source"))
        BY <2>1, <3>1 DEF BatchCalls
      <3> HIDE DEF f
      <3>4. f \in Frame /\ Sane(f) /\ DueOf(f) = DueOf(Top) /\ Alike(f, Top) /\ Runs(f, Code("source"))
            /\ Code("source") \in Frame /\ Sane(Code("source")) /\ DueOf(Code("source")) = <<>>
        BY <1>1, <3>2, FrameIs, NewFrames DEF Sane, DueOf, Alike, Runs
      <3> QED
        BY <1>1, <3>2, <3>3, <3>4, CallKeeps
    <2>2. CASE ~(Top.left > 0)
      <3>1. Caller.at # "host"
        BY <1>1, TopIs DEF Runs
      <3> QED
        BY <1>1, <2>2, <3>1, ReturnKeeps DEF BatchCalls
    <2> QED
      BY <2>1, <2>2
  <1>3. /\ Promised(promise', reacts', micro') /\ aborted' \in BOOLEAN /\ thrown' \in BOOLEAN
        /\ dying' \in Nat
        /\ UNCHANGED <<clock, sources, batch, fns, hold, checked, work, uses, late, why>>
    BY DEF IInv, BatchCalls, OnlyTheStack, Flagged, promises, native, threads, ghosts
  <1> QED
    BY <1>2, <1>3, QuietlyOn, Zenon

\* A source that asks calls a piece of the program.
LEMMA SourceCalls ==
  ASSUME IInv, Top.at = "pass", Top.stage = "asked", stack' = Call(Top, Code("source"))
  PROVE  Stacked(stack') /\ SameDues(stack, stack') /\ Quiet(stack, stack')
  <1>1. Stacked(stack) /\ Top \in Frame /\ Sane(Top)
    BY TopIs DEF IInv
  <1>2. Alike(Top, Top) /\ Runs(Top, Code("source"))
        /\ Code("source") \in Frame /\ Sane(Code("source")) /\ DueOf(Code("source")) = <<>>
    BY NewFrames DEF DueOf, Alike, Runs
  <1> QED
    BY <1>1, <1>2, CallKeeps

\* One item of a thread-safe function.
LEMMA DeliverItemKeeps ==
  ASSUME IInv, DeliverItem
  PROVE  IInv'
  <1>1. Stacked(stack') /\ SameDues(stack, stack') /\ Quiet(stack, stack')
    BY SourceCalls DEF DeliverItem, Asked
  <1>2. PICK g \in Fns : fns[g].queued > 0 /\ fns' = [fns EXCEPT ![g].queued = @ - 1]
    BY DEF DeliverItem, Filled
  <1>3. /\ UNCHANGED <<clock, promises, aborted, thrown, dying, batch, sources, work, uses, late>>
        /\ hold' = hold /\ checked' = checked /\ why' = why
    BY DEF DeliverItem, native, ghosts
  <1>4. Threaded(fns, hold, checked)
    BY DEF IInv
  <1>5. fns[g] \in FnType /\ fns[g].queued \in Nat
    BY <1>4 DEF Threaded, FnType
  <1>6. PICK m \in Nat : m = fns[g].queued - 1
    BY <1>2, <1>5
  <1>7. PICK x : x = [fns[g] EXCEPT !.queued = m]
    OBVIOUS
  <1>8. /\ x \in FnType /\ x.made = fns[g].made /\ x.threads = fns[g].threads /\ x.queued = m
        /\ x.plain = fns[g].plain /\ x.closing = fns[g].closing /\ x.referenced = fns[g].referenced
    BY <1>5, <1>7 DEF FnType
  <1>9. fns' = [fns EXCEPT ![g] = x]
    BY <1>2, <1>6, <1>7, Zenon
  <1>10. /\ fns[g].made
         /\ fns[g].threads = Cardinality({v \in Workers : hold[v] = g})
         /\ fns[g].plain => fns[g].referenced
         /\ fns[g].plain /\ fns[g].closing => fns[g].threads = 0
    <2>1. /\ fns[g].threads = Cardinality({v \in Workers : hold[v] = g})
          /\ ~fns[g].made => fns[g].queued = 0
          /\ fns[g].plain => fns[g].referenced
          /\ fns[g].plain /\ fns[g].closing => fns[g].threads = 0
      BY <1>2, <1>4, Zenon DEF Threaded
    <2>2. fns[g].queued # 0
      BY <1>2, <1>5
    <2> QED
      BY <2>1, <2>2, Zenon
  <1>11. Threaded(fns', hold, checked)
    <2>1. /\ hold \in [Workers -> Fns \cup {NoFn}] /\ checked \in [Workers -> BOOLEAN]
          /\ \A v \in Workers : checked[v] => hold[v] # NoFn
      BY <1>4 DEF Threaded
    <2>2. /\ (\E v \in Workers : hold[v] = g) => x.made
          /\ x.threads = Cardinality({v \in Workers : hold[v] = g})
          /\ ~x.made => x.queued = 0
          /\ x.plain => x.referenced
          /\ x.plain /\ x.closing => x.threads = 0
      BY <1>8, <1>10, Zenon
    <2> QED
      BY <1>8, <1>9, <2>1, <2>2, OneFn
  <1>12. fns \in [Fns -> FnType] /\ fns'[g] = x /\ \A f \in Fns : f # g => fns'[f] = fns[f]
    BY <1>4, <1>9 DEF Threaded
  <1>13. Made(fns') => Made(fns)
    BY <1>10 DEF Made
  <1>14. \A f \in Prompt(fns', late) : /\ f \in Prompt(fns, late) /\ fns'[f].threads = fns[f].threads
                                       /\ f # g => fns'[f] = fns[f]
    BY <1>8, <1>12 DEF Prompt
  <1>15. \A f \in Prompt(fns', late) : fns[f].queued = 0 => f # g
    BY <1>2, <1>5
  <1>16. NoFurther(stack, why, stack', why', sources') /\ Threaded(fns', hold', checked')
    BY <1>1, <1>3, <1>11, QuietIsNoFurther, Zenon
  <1> QED
    BY <1>1, <1>3, <1>13, <1>14, <1>15, <1>16, StepOfFns, Zenon

\* Work that completed is told of.
LEMMA CompletesKeeps ==
  ASSUME IInv, Completes
  PROVE  IInv'
  <1>1. Stacked(stack') /\ SameDues(stack, stack') /\ Quiet(stack, stack')
    BY SourceCalls DEF Completes, Asked
  <1>2. /\ UNCHANGED <<clock, promises, aborted, thrown, dying>>
        /\ batch' = batch /\ sources' = sources /\ uses' = uses /\ late' = late /\ why' = why
        /\ fns' = fns /\ hold' = hold /\ checked' = checked
    BY DEF Completes, native, ghosts, threads
  <1>3. /\ Worked(work') /\ work.outstanding > 0
        /\ work'.outstanding > 0 => work.outstanding > 0
        /\ work.outstanding # 0
    <2>1. Worked(work) /\ work.done > 0
      BY DEF IInv, Completes
    <2>2. PICK o \in Nat, r \in Nat, d \in Nat :
              work = [outstanding |-> o, running |-> r, done |-> d] /\ o = r + d
      BY <2>1 DEF Worked
    <2>3. work' = [outstanding |-> o - 1, running |-> r, done |-> d - 1] /\ d > 0
      BY <2>1, <2>2 DEF Completes
    <2>4. o - 1 \in Nat /\ d - 1 \in Nat /\ o - 1 = r + (d - 1) /\ o > 0
      BY <2>2, <2>3
    <2> QED
      BY <2>2, <2>3, <2>4 DEF Worked
  <1>4. Sourced(sources', uses', batch', fns', work')
    <2>1. Sourced(sources, uses, batch, fns, work)
      BY DEF IInv
    <2> QED
      BY <1>2, <1>3, <2>1 DEF Sourced
  <1>5. Threaded(fns', hold', checked') /\ Noted(late') /\ batch' \in Nat
    BY <1>2 DEF IInv, Flagged
  <1>6. NoFurther(stack, why, stack', why', sources')
    BY <1>1, <1>2, QuietIsNoFurther, Zenon
  <1>7. /\ Past(stack, why, "work") /\ (work.outstanding = 0 \/ late.work)
           => work'.outstanding = 0 \/ late'.work
    BY <1>2, <1>3, Zenon
  <1> QED
    BY <1>1, <1>2, <1>3, <1>4, <1>5, <1>6, <1>7, StepOfNative, Zenon

\* When the host's own pass becomes another, what each source was asked follows.
LEMMA HostPassIs ==
  ASSUME IInv, Top.at = "pass", Len(stack) = 2, NEW f, Replaced(stack, stack', f)
  PROVE  /\ stack[1].stage = "asked" /\ stack[2] = Top
         /\ \A n : Asking(stack, n) <=> Top.n = n /\ Top.wait = Nothing
         /\ \A n : Asking(stack', n) <=> f.at = "pass" /\ f.n = n /\ f.wait = Nothing
         /\ stack'[2] = f /\ \A y : ~Finished(stack', y)
  <1>1. /\ stack[1].stage = "asked" /\ stack[2] = Top /\ stack'[1] = stack[1] /\ stack'[2] = f
    BY PassIs DEF Replaced
  <1>2. Len(stack') > 1 /\ Len(stack) > 1
    BY DEF Replaced
  <1>3. ASSUME Len(stack') = 1 PROVE FALSE
    BY <1>2, <1>3
  <1>4. \A y : ~Finished(stack', y)
    BY <1>1, <1>3 DEF Finished
  <1> QED
    BY <1>1, <1>2, <1>4, Zenon DEF Asking

\* A step of the stack alone that keeps what was told.
LEMMA OnlyTheStackKeeps ==
  ASSUME IInv, OnlyTheStack, Stacked(stack'), SameDues(stack, stack'),
         Told(stack', why, timers, batch, work, fns, late)
  PROVE  IInv'
  <1>1. Balanced(timers, credit, stack')
    BY BalanceSame DEF IInv
  <1> QED
    BY <1>1 DEF IInv, OnlyTheStack, clock, promises, native, threads, ghosts

\* It does when the host is told no more.
LEMMA StackGoesOn ==
  ASSUME IInv, OnlyTheStack, Stacked(stack'), SameDues(stack, stack'),
         NoFurther(stack, why, stack', why, sources)
  PROVE  IInv'
  <1>1. /\ Told(stack, why, timers, batch, work, fns, late) /\ batch \in Nat /\ Worked(work)
        /\ Sourced(sources, uses, batch, fns, work) /\ Threaded(fns, hold, checked)
    BY DEF IInv, Flagged
  <1>2. Told(stack', why, timers, batch, work, fns, late)
    BY <1>1, ToldStill, Zenon
  <1> QED
    BY <1>2, OnlyTheStackKeeps

\* What is left to ask after an answer.
LEMMA LeftIs ==
  ASSUME NEW left \in Seq(Names), left # <<>>
  PROVE  Tail(left) \in Seq(Names) /\ \A name \in Range(left) : name = Head(left) \/ name \in Range(Tail(left))
  <1>1. PICK n \in Nat : n = Len(left) /\ n >= 1
    OBVIOUS
  <1>2. /\ Tail(left) \in Seq(Names) /\ Len(Tail(left)) = n - 1 /\ Head(left) = left[1]
        /\ \A i \in 1 .. n - 1 : Tail(left)[i] = left[i + 1]
    BY <1>1
  <1>3. ASSUME NEW i \in 1 .. n PROVE left[i] = Head(left) \/ left[i] \in Range(Tail(left))
    <2>1. CASE i = 1
      BY <1>2, <2>1
    <2>2. CASE i # 1
      <3>1. i - 1 \in 1 .. n - 1 /\ (i - 1) + 1 = i
        BY <1>1, <2>2
      <3>2. Tail(left)[i - 1] = left[i] /\ i - 1 \in DOMAIN Tail(left)
        BY <1>1, <1>2, <3>1
      <3> QED
        BY <3>2 DEF Range
    <2> QED
      BY <2>1, <2>2
  <1> QED
    BY <1>1, <1>2, <1>3 DEF Range

\* A source answers: with no wait only when it holds nothing.
LEMMA Answering ==
  ASSUME IInv, OnlyTheStack, Top.at = "pass", Top.stage # "next", NEW answer,
         answer.wait \in 0 .. Nothing, answer.blocked \in BOOLEAN, stack' = Answered(answer),
         answer.wait = Nothing /\ Head(Top.left) = "timers" => Refed(timers) = {},
         answer.wait = Nothing /\ Head(Top.left) = "batch" => batch = 0,
         answer.wait = Nothing /\ Head(Top.left) = "work" => work.outstanding = 0,
         Head(Top.left) = "threadsafe" => Top.stage = "drained",
         answer.wait = Nothing /\ Head(Top.left) = "threadsafe"
             => \A f \in Fns : fns[f].plain => fns[f].threads = 0
  PROVE  IInv'
  <1>1. /\ Stacked(stack) /\ Top \in PassFrame /\ Sane(Top) /\ Top = stack[Len(stack)]
        /\ Len(stack) \in Nat /\ Len(stack) >= 2 /\ DueOf(Top) = <<>>
    BY PassIs
  <1>2. PICK w : w = Shorter(Top.wait, answer.wait)
    OBVIOUS
  <1>3. PICK b \in BOOLEAN : b = (Top.blocked \/ answer.blocked)
    OBVIOUS
  <1>4. w \in 0 .. Nothing /\ (w = Nothing => Top.wait = Nothing /\ answer.wait = Nothing)
    <2>1. Top.wait \in 0 .. Nothing
      BY <1>1 DEF PassFrame
    <2> QED
      BY <1>2, <2>1, Bounds DEF Shorter
  <1>5. Top.left \in Seq(Names) /\ Top.left # <<>>
    BY <1>1 DEF PassFrame, Sane
  <1>6. /\ Tail(Top.left) \in Seq(Names)
        /\ \A name \in Range(Top.left) : name = Head(Top.left) \/ name \in Range(Tail(Top.left))
    BY <1>5, LeftIs
  <1> DEFINE f == [Top EXCEPT !.stage = "next", !.left = Tail(Top.left), !.wait = w, !.blocked = b]
  <1>7. /\ f \in PassFrame /\ f.at = "pass" /\ f.stage = "next" /\ f.left = Tail(Top.left)
        /\ f.n = Top.n /\ f.wait = w
    BY <1>1, <1>4, <1>6 DEF PassFrame
  <1>8. stack' = With(f)
    BY <1>2, <1>3, Zenon DEF Answered
  <1> HIDE DEF f
  <1>9. f \in Frame /\ Sane(f) /\ DueOf(f) = DueOf(Top)
    BY <1>1, <1>7, FrameIs DEF Sane, DueOf
  <1>10. Stacked(stack') /\ Replaced(stack, stack', f) /\ SameDues(stack, stack')
    BY <1>1, <1>7, <1>8, <1>9, Onwards
  <1>11. CASE Len(stack) >= 3
    BY <1>1, <1>10, <1>11, QuietAbove, QuietIsNoFurther, StackGoesOn
  <1>12. CASE ~(Len(stack) >= 3)
    <2>1. Len(stack) = 2
      <3>1. PICK n \in Nat : n = Len(stack)
        BY <1>1
      <3>2. n = 2
        BY <1>1, <1>12, <3>1
      <3> QED
        BY <3>1, <3>2, Zenon
    <2>2. /\ stack[2] = Top /\ stack'[2] = f
          /\ \A n : Asking(stack, n) <=> Top.n = n /\ Top.wait = Nothing
          /\ \A n : Asking(stack', n) <=> f.at = "pass" /\ f.n = n /\ f.wait = Nothing
          /\ \A y : ~Finished(stack', y)
      BY <1>10, <2>1, HostPassIs
    <2>3. \A n : Asking(stack', n) => Asking(stack, n) /\ answer.wait = Nothing
      BY <1>4, <1>7, <2>2
    <2>4. \A name : Past(stack', why, name)
              => /\ Asking(stack, 2) /\ answer.wait = Nothing
                 /\ Past(stack, why, name) \/ name = Head(Top.left)
      BY <1>6, <1>7, <2>2, <2>3 DEF Past
    <2>5. LookedAt(stack', why) => \/ LookedAt(stack, why)
                                   \/ Head(Top.left) = "threadsafe" /\ answer.wait = Nothing
      BY <1>6, <1>7, <2>2, <2>3 DEF LookedAt
    <2>6. Emptied(stack', why) => Emptied(stack, why)
      BY <1>7, <2>2, <2>4, Zenon DEF Emptied
    <2>7. Told(stack, why, timers, batch, work, fns, late)
      BY DEF IInv
    <2>8. /\ TimersTold(stack', why, timers, late) /\ BatchTold(stack', why, batch, late)
          /\ WorkTold(stack', why, work, late)
      BY <2>4, <2>7 DEF Told, TimersTold, BatchTold, WorkTold
    <2>9. ThreadsTold(stack', why, fns, late)
      BY <2>5, <2>7 DEF Told, ThreadsTold, Prompt
    <2>10. ItemsTold(stack', why, fns, late)
      BY <2>6, <2>7, Zenon DEF Told, ItemsTold
    <2>11. Told(stack', why, timers, batch, work, fns, late)
      BY <2>8, <2>9, <2>10 DEF Told
    <2> QED
      BY <1>10, <2>11, OnlyTheStackKeeps
  <1> QED
    BY <1>11, <1>12

\* What the sources can answer.
LEMMA AnswersAre ==
  /\ Idle.wait = Nothing /\ Idle.wait \in 0 .. Nothing /\ Idle.blocked \in BOOLEAN
  /\ In(0).wait \in 0 .. Nothing /\ In(0).wait # Nothing /\ In(0).blocked \in BOOLEAN
  /\ In(1).wait \in 0 .. Nothing /\ In(1).wait # Nothing /\ In(1).blocked \in BOOLEAN
  BY Bounds DEF Idle, In

\* The timers answer by the table as it is when they are asked.
LEMMA TimersAnswerKeeps ==
  ASSUME IInv, TimersAnswer
  PROVE  IInv'
  <1>1. /\ OnlyTheStack /\ Top.at = "pass" /\ Top.stage # "next" /\ Head(Top.left) = "timers"
        /\ stack' = Answered(Outstanding(timers))
    BY DEF TimersAnswer, Asked
  <1>2. Table(timers)
    BY DEF IInv, Clocked
  <1>3. /\ Outstanding(timers).wait \in 0 .. Nothing /\ Outstanding(timers).blocked \in BOOLEAN
        /\ Outstanding(timers).wait = Nothing => Refed(timers) = {}
    BY <1>2, AnswerIs
  <1> QED
    BY <1>1, <1>3, Answering

\* The deferred callbacks answer that one more waits, or that none does.
LEMMA BatchAnswersKeeps ==
  ASSUME IInv, BatchAnswers
  PROVE  IInv'
  <1>1. /\ OnlyTheStack /\ Top.at = "pass" /\ Top.stage # "next" /\ Head(Top.left) = "batch"
        /\ stack' = Answered(IF batch > 0 THEN In(0) ELSE Idle) /\ batch \in Nat
    BY DEF BatchAnswers, Asked, IInv, Flagged
  <1>2. PICK answer : answer = IF batch > 0 THEN In(0) ELSE Idle
    OBVIOUS
  <1>3. /\ answer.wait \in 0 .. Nothing /\ answer.blocked \in BOOLEAN
        /\ answer.wait = Nothing => batch = 0
    BY <1>1, <1>2, AnswersAre
  <1> QED
    BY <1>1, <1>2, <1>3, Answering

\* The asynchronous work answers by the count of what is outstanding.
LEMMA WorkAnswersKeeps ==
  ASSUME IInv, WorkAnswers
  PROVE  IInv'
  <1>1. /\ OnlyTheStack /\ Top.at = "pass" /\ Top.stage # "next" /\ Head(Top.left) = "work"
        /\ stack' = Answered(IF work.outstanding > 0 THEN In(1) ELSE Idle)
        /\ work.outstanding \in Nat
    BY DEF WorkAnswers, Asked, IInv, Worked
  <1>2. PICK answer : answer = IF work.outstanding > 0 THEN In(1) ELSE Idle
    OBVIOUS
  <1>3. /\ answer.wait \in 0 .. Nothing /\ answer.blocked \in BOOLEAN
        /\ answer.wait = Nothing => work.outstanding = 0
    BY <1>1, <1>2, AnswersAre
  <1> QED
    BY <1>1, <1>2, <1>3, Answering

\* A function that may still be sent through holds the program open.
LEMMA FunctionsAnswerKeeps ==
  ASSUME IInv, FunctionsAnswer
  PROVE  IInv'
  <1>1. /\ OnlyTheStack /\ Top.at = "pass" /\ Top.stage = "drained" /\ Sane(Top)
        /\ stack' = Answered(IF \E f \in Fns : MaySend(f) THEN In(1) ELSE Idle)
    BY PassIs DEF FunctionsAnswer
  <1>2. Head(Top.left) = "threadsafe"
    BY <1>1 DEF Sane
  <1>3. PICK answer : answer = IF \E f \in Fns : MaySend(f) THEN In(1) ELSE Idle
    OBVIOUS
  <1>4. /\ answer.wait \in 0 .. Nothing /\ answer.blocked \in BOOLEAN
        /\ answer.wait = Nothing => \A f \in Fns : ~MaySend(f)
    BY <1>3, AnswersAre
  <1>5. ASSUME NEW f \in Fns, ~MaySend(f), fns[f].plain PROVE fns[f].threads = 0
    <2>1. /\ fns[f].threads = Cardinality({w \in Workers : hold[w] = f}) /\ fns[f].threads \in Nat
          /\ fns[f].plain => fns[f].referenced
          /\ fns[f].plain /\ fns[f].closing => fns[f].threads = 0
          /\ \A w \in Workers : hold[w] # NoFn => fns[hold[w]].made
      BY DEF IInv, Threaded, FnType
    <2>2. CASE fns[f].made
      BY <1>5, <2>1, <2>2 DEF MaySend
    <2>3. CASE ~fns[f].made
      <3>1. {w \in Workers : hold[w] = f} = {}
        BY <2>1, <2>3, ThreadAssumption
      <3> QED
        BY <2>1, <3>1, FS_EmptySet
    <2> QED
      BY <2>2, <2>3
  <1> QED
    BY <1>1, <1>2, <1>3, <1>4, <1>5, Answering

\* The functions are empty.
LEMMA NothingToDeliverKeeps ==
  ASSUME IInv, NothingToDeliver
  PROVE  IInv'
  <1>1. /\ Stacked(stack) /\ Top \in PassFrame /\ Sane(Top) /\ Top.at = "pass" /\ Top.stage = "asked"
        /\ Head(Top.left) = "threadsafe" /\ Filled = {} /\ OnlyTheStack
        /\ Len(stack) \in Nat /\ Len(stack) >= 2 /\ Top.left # <<>> /\ DueOf(Top) = <<>>
    BY PassIs DEF NothingToDeliver, Asked, Sane
  <1> DEFINE f == [Top EXCEPT !.stage = "drained"]
  <1>2. /\ f \in PassFrame /\ f.at = "pass" /\ f.stage = "drained" /\ f.left = Top.left
        /\ f.n = Top.n /\ f.wait = Top.wait
    BY <1>1 DEF PassFrame
  <1>3. stack' = With(f)
    BY DEF NothingToDeliver
  <1> HIDE DEF f
  <1>4. f \in Frame /\ Sane(f) /\ DueOf(f) = DueOf(Top)
    BY <1>1, <1>2, FrameIs DEF Sane, DueOf
  <1>5. Stacked(stack') /\ Replaced(stack, stack', f) /\ SameDues(stack, stack')
    BY <1>1, <1>2, <1>3, <1>4, Onwards
  <1>6. PICK n \in Nat : n = Len(stack)
    BY <1>1
  <1>7. CASE n >= 3
    BY <1>1, <1>5, <1>6, <1>7, QuietAbove, QuietIsNoFurther, StackGoesOn
  <1>8. CASE n = 2
    <2>1. Len(stack) = 2
      BY <1>6, <1>8, Zenon
    <2>2. /\ stack[2] = Top /\ stack'[2] = f
          /\ \A m : Asking(stack, m) <=> Top.n = m /\ Top.wait = Nothing
          /\ \A m : Asking(stack', m) <=> f.at = "pass" /\ f.n = m /\ f.wait = Nothing
          /\ \A y : ~Finished(stack', y)
      BY <1>1, <1>5, <2>1, HostPassIs
    <2>3. /\ \A name : Past(stack', why, name) => Past(stack, why, name)
          /\ LookedAt(stack', why) => LookedAt(stack, why)
      BY <1>2, <2>2 DEF Past, LookedAt
    <2>4. Told(stack, why, timers, batch, work, fns, late)
      BY DEF IInv
    <2>5. \A f1 \in Fns : fns[f1].queued = 0
      <3>1. \A f1 \in Fns : fns[f1].queued \in Nat
        BY DEF IInv, Threaded, FnType
      <3> QED
        BY <1>1, <3>1 DEF Filled
    <2>6. Told(stack', why, timers, batch, work, fns, late)
      BY <2>3, <2>4, <2>5 DEF Told, TimersTold, BatchTold, WorkTold, ThreadsTold, ItemsTold, Prompt
    <2> QED
      BY <1>1, <1>5, <2>6, OnlyTheStackKeeps
  <1> QED
    BY <1>1, <1>6, <1>7, <1>8

\* A wait that is none: nothing was answered.
LEMMA WaitIs ==
  ASSUME NEW pass \in PassFrame
  PROVE  Wait(pass) \in 0 .. Nothing /\ (Wait(pass) = Nothing => pass.wait = Nothing)
  <1>1. pass.wait \in 0 .. Nothing /\ pass.blocked \in BOOLEAN
    BY DEF PassFrame
  <1> QED
    BY <1>1, Bounds DEF Wait, Shorter

\* Whom an empty list names.
LEMMA NobodyLeft == Range(<<>>) = {}
  BY DEF Range

\* The first pass was told of nothing, and every source is asked again.
LEMMA SecondPassKeeps ==
  ASSUME IInv, SecondPass
  PROVE  IInv'
  <1>1. /\ Stacked(stack) /\ Top \in PassFrame /\ Sane(Top) /\ Top.at = "pass" /\ Top.left = <<>>
        /\ Top.n = 1 /\ Top.wait = Nothing /\ OnlyTheStack
        /\ Len(stack) \in Nat /\ Len(stack) >= 2 /\ DueOf(Top) = <<>>
    BY PassIs, WaitIs DEF SecondPass, Passed, PassesAgain
  <1> DEFINE f == Pass(2)
  <1>2. /\ f \in Frame /\ f.at = "pass" /\ f.stage = "next" /\ f.left = sources
        /\ f.n = 2 /\ f.wait = Nothing /\ Sane(f)
    BY NewFrames DEF Pass
  <1>3. stack' = With(f)
    BY DEF SecondPass
  <1> HIDE DEF f
  <1>4. DueOf(f) = DueOf(Top)
    BY <1>1, <1>2 DEF DueOf
  <1>5. Stacked(stack') /\ Replaced(stack, stack', f) /\ SameDues(stack, stack')
    BY <1>1, <1>2, <1>3, <1>4, Onwards
  <1>6. PICK n \in Nat : n = Len(stack)
    BY <1>1
  <1>7. CASE n >= 3
    BY <1>1, <1>5, <1>6, <1>7, QuietAbove, QuietIsNoFurther, StackGoesOn
  <1>8. CASE n = 2
    <2>1. Len(stack) = 2
      BY <1>6, <1>8, Zenon
    <2>2. /\ stack[2] = Top /\ stack'[2] = f
          /\ \A m : Asking(stack, m) <=> Top.n = m /\ Top.wait = Nothing
          /\ \A m : Asking(stack', m) <=> f.at = "pass" /\ f.n = m /\ f.wait = Nothing
          /\ \A y : ~Finished(stack', y)
      BY <1>1, <1>5, <2>1, HostPassIs
    <2>3. LookedAt(stack, why)
      <3>1. Asking(stack, 1) /\ "threadsafe" \notin Range(stack[2].left)
        BY <1>1, <2>2, NobodyLeft
      <3> QED
        BY <3>1 DEF LookedAt
    <2>4. /\ \A name : Past(stack', why, name) => name \notin Range(sources)
          /\ Emptied(stack', why) => "threadsafe" \notin Range(sources)
      BY <1>2, <2>2 DEF Past, Emptied
    <2>5. NoFurther(stack, why, stack', why, sources)
      BY <2>3, <2>4, Zenon DEF NoFurther
    <2> QED
      BY <1>1, <1>5, <2>5, StackGoesOn
  <1> QED
    BY <1>1, <1>6, <1>7, <1>8

\* The pass tells its caller when to wake.
LEMMA PassEndsKeeps ==
  ASSUME IInv, PassEnds
  PROVE  IInv'
  <1>1. /\ Stacked(stack) /\ Top \in PassFrame /\ Sane(Top) /\ Top.at = "pass" /\ Top.left = <<>>
        /\ Top.n \in {1, 2} /\ OnlyTheStack /\ Top = stack[Len(stack)]
        /\ Len(stack) \in Nat /\ Len(stack) >= 2 /\ DueOf(Top) = <<>>
        /\ Caller \in Frame /\ Sane(Caller) /\ Caller.at \in {"host", "await"}
        /\ Caller.stage = "asked" /\ (Caller.at = "host" <=> Len(stack) = 2)
        /\ Caller = stack[Len(stack) - 1] /\ Top.stage = "next"
    BY PassIs DEF PassEnds, Passed, PassFrame
  <1>2. ~(Top.n = 1 /\ Wait(Top) = Nothing)
    BY DEF PassEnds, PassesAgain
  <1>3. PICK w : w = Wait(Top)
    OBVIOUS
  <1>4. w \in 0 .. Nothing /\ (w = Nothing => Top.wait = Nothing /\ Top.n = 2)
    BY <1>1, <1>2, <1>3, WaitIs
  <1> DEFINE f == [Caller EXCEPT !.stage = "answered", !.wait = w]
  <1>5. f \in Frame /\ f.at = Caller.at /\ f.stage = "answered" /\ f.wait = w
    <2>1. CASE Caller.at = "host"
      <3>1. Caller \in HostFrame
        BY <1>1, <2>1, KindOf
      <3>2. f \in HostFrame /\ f.at = Caller.at /\ f.stage = "answered" /\ f.wait = w
        BY <1>4, <3>1 DEF HostFrame
      <3> QED
        BY <3>2, FrameIs
    <2>2. CASE Caller.at = "await"
      <3>1. Caller \in AwaitFrame
        BY <1>1, <2>2, KindOf
      <3>2. f \in AwaitFrame /\ f.at = Caller.at /\ f.stage = "answered" /\ f.wait = w
        BY <1>4, <3>1 DEF AwaitFrame
      <3> QED
        BY <3>2, FrameIs
    <2> QED
      BY <1>1, <2>1, <2>2
  <1>6. stack' = ReturnTo(f)
    BY <1>3, Zenon DEF PassEnds
  <1> HIDE DEF f
  <1>7. Popped(stack, stack', f)
    BY <1>1, <1>5, <1>6, ReturnsTo
  <1>8. Sane(f) /\ DueOf(f) = DueOf(Caller) /\ (Caller.at = "await" => Alike(f, Caller))
    BY <1>1, <1>5 DEF Sane, DueOf, Alike
  <1>9. Stacked(stack') /\ SameDues(stack, stack')
    BY <1>1, <1>5, <1>7, <1>8, Returning
  <1>10. CASE Caller.at = "await"
    <2>1. Quiet(stack, stack')
      BY <1>1, <1>5, <1>7, <1>8, <1>10, Returning
    <2> QED
      BY <1>1, <1>9, <2>1, QuietIsNoFurther, StackGoesOn
  <1>11. CASE Caller.at = "host"
    <2>1. Len(stack) = 2
      BY <1>1, <1>11
    <2>2. stack[2] = Top /\ stack[1] = Caller /\ stack'[1] = f /\ Len(stack') = 1
      BY <1>1, <1>7, <2>1 DEF Popped
    <2>3. ~Asking(stack', 1) /\ ~Asking(stack', 2)
      BY <2>2 DEF Asking
    <2>4. Finished(stack', why) => w = Nothing
      BY <1>5, <2>2 DEF Finished
    <2>5. w = Nothing => Asking(stack, 2) /\ Range(stack[2].left) = {}
      <3>1. Len(stack) > 1
        BY <1>1
      <3>2. w = Nothing => Asking(stack, 2)
        BY <1>1, <1>4, <1>11, <2>2, <3>1, Zenon DEF Asking
      <3>3. Range(stack[2].left) = {}
        BY <1>1, <2>2, NobodyLeft, Zenon
      <3> QED
        BY <3>2, <3>3
    <2>6. /\ w = Nothing => \A name : Past(stack, why, name)
          /\ w = Nothing => Emptied(stack, why) /\ LookedAt(stack, why)
      BY <2>5 DEF Past, Emptied, LookedAt
    <2>7. NoFurther(stack, why, stack', why, sources)
      BY <2>3, <2>4, <2>6, Zenon DEF NoFurther, Past, Emptied, LookedAt
    <2> QED
      BY <1>1, <1>9, <2>7, StackGoesOn
  <1> QED
    BY <1>1, <1>10, <1>11

-----------------------------------------------------------------------------
(***************************************************************************)
(* The host's loop, an await and the clock.                                *)
(***************************************************************************)
\* The host runs alone.
LEMMA HostIs ==
  ASSUME IInv, Top.at = "host"
  PROVE  /\ Stacked(stack) /\ Top \in HostFrame /\ Sane(Top) /\ Top = stack[1] /\ Len(stack) = 1
         /\ stack \in Seq(Frame) /\ DueOf(Top) = <<>> /\ Top.stage # "asked"
  <1>1. /\ Stacked(stack) /\ Top \in HostFrame /\ Sane(Top) /\ Top = stack[Len(stack)]
        /\ Len(stack) = 1 /\ stack \in Seq(Frame) /\ Top.stage # "asked"
    BY TopIs, KindOf DEF IInv
  <1> QED
    BY <1>1 DEF DueOf

\* The host calls a drain or a pass.
LEMMA HostCalls ==
  ASSUME IInv, Top.at = "host", NEW f \in HostFrame, NEW g \in Frame, Sane(g), Runs(f, g),
         g.at \in {"drain", "pass"}, stack' = Call(f, g)
  PROVE  /\ Stacked(stack') /\ SameDues(stack, stack')
         /\ stack'[1] = f /\ stack'[2] = g /\ Len(stack') > 1
         /\ \A y : Finished(stack', y) <=> f.stage = "over" /\ y = "idle"
         /\ \A n : Asking(stack', n)
                   <=> f.stage = "asked" /\ g.at = "pass" /\ g.n = n /\ g.wait = Nothing
  <1>1. /\ Stacked(stack) /\ Top = stack[1] /\ Len(stack) = 1 /\ DueOf(Top) = <<>>
    BY HostIs
  <1>2. f \in Frame /\ f.at = "host" /\ Sane(f) /\ DueOf(f) = DueOf(Top) /\ DueOf(g) = <<>>
    BY <1>1, FrameIs DEF HostFrame, Sane, DueOf
  <1>3. Stacked(stack') /\ Pushed(stack, stack', f, g) /\ SameDues(stack, stack')
    BY <1>1, <1>2, Calling
  <1>4. stack'[1] = f /\ stack'[2] = g /\ Len(stack') > 1
    BY <1>1, <1>3 DEF Pushed
  <1>5. ASSUME Len(stack') = 1 PROVE FALSE
    BY <1>4, <1>5
  <1>6. \A y : Finished(stack', y) <=> f.stage = "over" /\ y = "idle"
    BY <1>4, <1>5, Zenon DEF Finished
  <1>7. \A n : Asking(stack', n)
               <=> f.stage = "asked" /\ g.at = "pass" /\ g.n = n /\ g.wait = Nothing
    BY <1>4, Zenon DEF Asking
  <1> QED
    BY <1>3, <1>4, <1>6, <1>7

\* A throw, or nothing outstanding, ends the loop: one drain is left.
LEMMA HostStopsKeeps ==
  ASSUME IInv, HostBreaks \/ HostFinishes
  PROVE  IInv'
  <1>1. /\ Top.at = "host" /\ Top \in HostFrame /\ Top = stack[1] /\ Len(stack) = 1
        /\ stack' = Call([Top EXCEPT !.stage = "over"], Drain)
    BY HostIs DEF HostBreaks, HostFinishes, HostTurn
  <1> DEFINE f == [Top EXCEPT !.stage = "over"]
  <1>2. f \in HostFrame /\ f.stage = "over" /\ f.at = "host"
    BY <1>1 DEF HostFrame
  <1>3. stack' = Call(f, Drain)
    BY <1>1
  <1> HIDE DEF f
  <1>4. Drain \in Frame /\ Sane(Drain) /\ Drain.at = "drain" /\ Runs(f, Drain)
    BY <1>2, NewFrames DEF Runs
  <1>5. /\ Stacked(stack') /\ SameDues(stack, stack')
        /\ \A y : Finished(stack', y) <=> f.stage = "over" /\ y = "idle"
        /\ \A n : ~Asking(stack', n)
    BY <1>1, <1>2, <1>3, <1>4, HostCalls
  <1>6. why' = "idle" => Finished(stack, why)
    BY <1>1 DEF HostBreaks, HostFinishes, Finished
  <1>7. NoFurther(stack, why, stack', why', sources)
    BY <1>5, <1>6, Zenon DEF NoFurther, Past, Emptied, LookedAt
  <1>8. Clocked(timers', nextId', handles') /\ Balanced(timers', credit', stack')
    <2>1. Balanced(timers, credit, stack')
      BY <1>5, BalanceSame DEF IInv
    <2> QED
      BY <2>1 DEF IInv, HostBreaks, HostFinishes, clock
  <1>9. /\ Promised(promise', reacts', micro') /\ aborted' \in BOOLEAN /\ thrown' \in BOOLEAN
        /\ dying' \in Nat /\ Noted(late') /\ late' = late /\ timers' = timers
        /\ UNCHANGED <<sources, batch, fns, hold, checked, work, uses>>
    BY DEF IInv, HostBreaks, HostFinishes, Flagged, promises, native, threads, ghosts, clock
  <1> QED
    BY <1>5, <1>7, <1>8, <1>9, StepOfClock, Zenon

\* A pass begins.
LEMMA HostAsksKeeps ==
  ASSUME IInv, HostAsks
  PROVE  IInv'
  <1>1. /\ Top.at = "host" /\ Top \in HostFrame /\ OnlyTheStack
        /\ stack' = Call([Top EXCEPT !.stage = "asked"], Pass(1))
    BY HostIs DEF HostAsks, HostTurn
  <1> DEFINE f == [Top EXCEPT !.stage = "asked"]
  <1>2. f \in HostFrame /\ f.stage = "asked" /\ f.at = "host"
    BY <1>1 DEF HostFrame
  <1>3. stack' = Call(f, Pass(1))
    BY <1>1
  <1> HIDE DEF f
  <1>4. /\ Pass(1) \in Frame /\ Sane(Pass(1)) /\ Pass(1).at = "pass" /\ Pass(1).left = sources
        /\ Runs(f, Pass(1)) /\ Pass(1).n = 1
    BY <1>2, NewFrames DEF Runs, Pass
  <1>5. /\ Stacked(stack') /\ SameDues(stack, stack') /\ stack'[2] = Pass(1)
        /\ \A y : ~Finished(stack', y)
        /\ ~Asking(stack', 2)
    BY <1>1, <1>2, <1>3, <1>4, HostCalls
  <1>6. NoFurther(stack, why, stack', why, sources)
    BY <1>4, <1>5, Zenon DEF NoFurther, Past, Emptied, LookedAt
  <1> QED
    BY <1>1, <1>5, <1>6, StackGoesOn

\* The host sleeps, and nobody has been told anything.
LEMMA HostSleepsKeeps ==
  ASSUME IInv, HostSleeps
  PROVE  IInv'
  <1>1. /\ Top.at = "host" /\ Top \in HostFrame /\ stack' = Call(Host, Drain)
        /\ Table(timers) /\ Top.wait \in Nat
    BY HostIs, Bounds DEF HostSleeps, HostFrame, IInv, Clocked
  <1>2. Host \in HostFrame /\ Host.stage = "turn"
    BY Bounds DEF Host, HostFrame
  <1>3. Drain \in Frame /\ Sane(Drain) /\ Drain.at = "drain" /\ Runs(Host, Drain)
    BY <1>2, NewFrames DEF Runs
  <1>4. /\ Stacked(stack') /\ SameDues(stack, stack')
        /\ \A y : ~Finished(stack', y)
        /\ \A n : ~Asking(stack', n)
    BY <1>1, <1>2, <1>3, HostCalls
  <1>5. /\ timers' = Elapse(timers, Top.wait) /\ Table(timers') /\ DOMAIN timers' = DOMAIN timers
        /\ Refed(timers') = Refed(timers)
    BY <1>1, ElapseIs DEF HostSleeps
  <1>6. Clocked(timers', nextId', handles') /\ Balanced(timers', credit', stack')
    <2>1. credit' = credit /\ nextId' = nextId /\ handles' = handles
      BY DEF HostSleeps
    <2>2. Balanced(timers', credit, stack')
      BY <1>4, <1>5, BalanceSame, Zenon DEF IInv
    <2> QED
      BY <1>5, <2>1, <2>2 DEF IInv, Clocked
  <1>7. Noted(late')
    BY DEF HostSleeps, NothingLate, Noted
  <1>8. Told(stack', why', timers', batch', work', fns', late')
    BY <1>4, Zenon DEF Told, TimersTold, BatchTold, WorkTold, ThreadsTold, ItemsTold, Past, Emptied,
           LookedAt
  <1>9. /\ Promised(promise', reacts', micro') /\ Flagged(aborted', thrown', batch', dying')
        /\ Threaded(fns', hold', checked') /\ Worked(work')
        /\ Sourced(sources', uses', batch', fns', work')
    BY DEF IInv, HostSleeps, promises, native, threads
  <1> QED
    BY <1>4, <1>6, <1>7, <1>8, <1>9 DEF IInv

\* An await is called by a piece of the program.
LEMMA AwaitIs ==
  ASSUME IInv, Awaiting
  PROVE  /\ Stacked(stack) /\ Top \in AwaitFrame /\ Top \in Frame /\ Top.at = "await"
         /\ DueOf(Top) = <<>> /\ Caller \in CodeFrame /\ Caller.at = "code"
  <1>1. /\ Stacked(stack) /\ Top \in AwaitFrame /\ Top \in Frame /\ Top.at = "await"
        /\ Caller \in Frame /\ Runs(Caller, Top)
    BY TopIs, KindOf DEF IInv, Awaiting
  <1>2. Caller.at = "code"
    BY <1>1 DEF Runs
  <1> QED
    BY <1>1, <1>2, KindOf DEF DueOf

\* It returns, or gives up, and its caller asks whether a throw is in flight.
LEMMA AwaitReturnsKeeps ==
  ASSUME IInv, AwaitEnds \/ Stall
  PROVE  IInv'
  <1>1. /\ Stacked(stack) /\ Top.at = "await" /\ DueOf(Top) = <<>>
        /\ Caller \in CodeFrame /\ Caller.at = "code"
    BY AwaitIs DEF AwaitEnds, Stall
  <1>2. PICK asked \in BOOLEAN : stack' = ReturnTo([Caller EXCEPT !.asked = asked]) /\ thrown' = asked
    <2>1. thrown \in BOOLEAN
      BY DEF IInv, Flagged
    <2>2. CASE AwaitEnds
      <3>1. thrown' = (thrown \/ promise[Top.on] = "rejected")
        BY <2>2 DEF AwaitEnds
      <3>2. thrown' \in BOOLEAN
        BY <2>1, <3>1
      <3> QED
        BY <2>2, <3>2 DEF AwaitEnds
    <2>3. CASE Stall
      <3>1. TRUE \in BOOLEAN /\ stack' = ReturnTo([Caller EXCEPT !.asked = TRUE]) /\ thrown' = TRUE
        BY <2>3 DEF Stall
      <3> QED
        BY <3>1, Zenon
    <2> QED
      BY <2>2, <2>3
  <1> DEFINE f == [Caller EXCEPT !.asked = asked]
  <1>3. f \in CodeFrame /\ f.at = "code"
    BY <1>1 DEF CodeFrame
  <1>4. stack' = ReturnTo(f)
    BY <1>2
  <1> HIDE DEF f
  <1>5. f \in Frame /\ Sane(f) /\ DueOf(f) = DueOf(Caller) /\ Alike(f, Caller)
    BY <1>1, <1>3, FrameIs DEF Sane, DueOf, Alike
  <1>6. Popped(stack, stack', f)
    BY <1>1, <1>4, <1>5, ReturnsTo
  <1>7. Stacked(stack') /\ SameDues(stack, stack') /\ Quiet(stack, stack')
    BY <1>1, <1>3, <1>5, <1>6, Returning
  <1>8. /\ Promised(promise', reacts', micro') /\ aborted' \in BOOLEAN /\ thrown' \in BOOLEAN
        /\ dying' \in Nat
        /\ UNCHANGED <<clock, sources, batch, fns, hold, checked, work, uses, late, why>>
    BY <1>2 DEF IInv, AwaitEnds, Stall, Flagged, promises, native, threads, ghosts
  <1> QED
    BY <1>7, <1>8, QuietlyOn, Zenon

\* It turns the loop: a drain, a pass, a last drain.
LEMMA AwaitCallsKeeps ==
  ASSUME IInv, AwaitDrains \/ AwaitAsks \/ AwaitLooksAgain
  PROVE  IInv'
  <1>1. /\ Stacked(stack) /\ Top \in AwaitFrame /\ Top \in Frame /\ Top.at = "await"
        /\ DueOf(Top) = <<>>
    BY AwaitIs DEF AwaitDrains, AwaitAsks, AwaitLooksAgain
  <1>2. PICK stage \in {"drained", "asked", "last"}, g \in {Drain, Pass(1)} :
            /\ stack' = Call([Top EXCEPT !.stage = stage], g)
            /\ g = Pass(1) => stage = "asked"
    <2>1. Pass(1) # Drain
      BY NewFrames
    <2>2. CASE AwaitDrains
      BY <2>1, <2>2, Zenon DEF AwaitDrains
    <2>3. CASE AwaitAsks
      BY <2>3, Zenon DEF AwaitAsks
    <2>4. CASE AwaitLooksAgain
      BY <2>1, <2>4, Zenon DEF AwaitLooksAgain
    <2> QED
      BY <2>2, <2>3, <2>4
  <1> DEFINE f == [Top EXCEPT !.stage = stage]
  <1>3. f \in AwaitFrame /\ f.at = "await" /\ f.stage = stage
    BY <1>1 DEF AwaitFrame
  <1>4. stack' = Call(f, g)
    BY <1>2
  <1> HIDE DEF f
  <1>5. f \in Frame /\ Sane(f) /\ DueOf(f) = DueOf(Top) /\ Alike(f, Top)
    BY <1>1, <1>3, FrameIs DEF Sane, DueOf, Alike
  <1>6. g \in Frame /\ Sane(g) /\ g.at \in {"drain", "pass"} /\ DueOf(g) = <<>>
    BY <1>2, NewFrames DEF DueOf
  <1>7. Runs(f, g)
    BY <1>2, <1>3, NewFrames DEF Runs
  <1>8. Stacked(stack') /\ SameDues(stack, stack') /\ Quiet(stack, stack')
    BY <1>1, <1>3, <1>4, <1>5, <1>6, <1>7, CallKeeps
  <1>9. OnlyTheStack
    BY DEF AwaitDrains, AwaitAsks, AwaitLooksAgain
  <1>10. NoFurther(stack, why, stack', why, sources)
    BY <1>8, QuietIsNoFurther
  <1> QED
    BY <1>8, <1>9, <1>10, StackGoesOn

\* It sleeps, and polls again.
LEMMA AwaitSleepsKeeps ==
  ASSUME IInv, AwaitSleeps
  PROVE  IInv'
  <1>1. /\ Stacked(stack) /\ Top \in AwaitFrame /\ Top.at = "await" /\ DueOf(Top) = <<>>
        /\ Table(timers) /\ stack' = With(Await(Top.on))
    BY AwaitIs DEF AwaitSleeps, IInv, Clocked
  <1>2. Top.on \in Promises /\ Top.wait \in Nat
    BY <1>1, Bounds DEF AwaitFrame
  <1>3. PICK f \in Frame : f = Await(Top.on)
    BY <1>2, NewFrames
  <1>4. f.at = "await" /\ Sane(f) /\ DueOf(f) = <<>> /\ Alike(f, Top)
    BY <1>1, <1>2, <1>3, NewFrames DEF DueOf, Alike
  <1>5. Stacked(stack') /\ SameDues(stack, stack') /\ Quiet(stack, stack')
    BY <1>1, <1>3, <1>4, Onwards
  <1>6. /\ timers' = Elapse(timers, Top.wait) /\ Table(timers') /\ DOMAIN timers' = DOMAIN timers
        /\ Refed(timers') = Refed(timers)
    BY <1>1, <1>2, ElapseIs DEF AwaitSleeps
  <1>7. Clocked(timers', nextId', handles') /\ Balanced(timers', credit', stack')
    <2>1. credit' = credit /\ nextId' = nextId /\ handles' = handles
      BY DEF AwaitSleeps
    <2>2. Balanced(timers', credit, stack')
      BY <1>5, <1>6, BalanceSame, Zenon DEF IInv
    <2> QED
      BY <1>6, <2>1, <2>2 DEF IInv, Clocked
  <1>8. {} \in SUBSET Ids /\ {} = {} /\ Refed(timers') \subseteq Refed(timers) \cup {}
    BY <1>6
  <1>9. /\ Promised(promise', reacts', micro') /\ aborted' \in BOOLEAN /\ thrown' \in BOOLEAN
        /\ dying' \in Nat /\ late' = late /\ why' = why
        /\ UNCHANGED <<sources, batch, fns, hold, checked, work, uses>>
    BY DEF IInv, AwaitSleeps, Flagged, promises, native, threads, ghosts
  <1> QED
    BY <1>5, <1>7, <1>8, <1>9, QuietStep, Zenon

\* Time passes, and nobody has been told anything.
LEMMA TimePassesKeeps ==
  ASSUME IInv, TimePasses
  PROVE  IInv'
  <1>1. stack' = stack /\ why' = why /\ late' = late /\ sources' = sources
    BY DEF TimePasses, ghosts, native
  <1>2. Stacked(stack') /\ SameDues(stack, stack') /\ NoFurther(stack, why, stack', why', sources)
    BY <1>1, StackStays
  <1>3. Table(timers) /\ Clocked(timers, nextId, handles)
    BY DEF IInv, Clocked
  <1>4. /\ timers' = Elapse(timers, 1) /\ Table(timers') /\ DOMAIN timers' = DOMAIN timers
        /\ Refed(timers') = Refed(timers)
    BY <1>3, ElapseIs DEF TimePasses
  <1>5. Clocked(timers', nextId', handles') /\ Balanced(timers', credit', stack')
    <2>1. credit' = credit /\ nextId' = nextId /\ handles' = handles
      BY DEF TimePasses
    <2>2. Balanced(timers', credit, stack')
      BY <1>2, <1>4, BalanceSame, Zenon DEF IInv
    <2> QED
      BY <1>3, <1>4, <2>1, <2>2 DEF Clocked
  <1>6. /\ Promised(promise', reacts', micro') /\ aborted' \in BOOLEAN /\ thrown' \in BOOLEAN
        /\ dying' \in Nat /\ Noted(late')
        /\ UNCHANGED <<sources, batch, fns, hold, checked, work, uses>>
    BY <1>1 DEF IInv, TimePasses, Flagged, promises, native, threads
  <1> QED
    BY <1>1, <1>2, <1>4, <1>5, <1>6, StepOfClock, Zenon

-----------------------------------------------------------------------------
(***************************************************************************)
(* The invariant holds.                                                    *)
(***************************************************************************)
\* The program begins with one drain above the host, and nothing else.
LEMMA InitHolds ==
  Init => IInv
  <1> SUFFICES ASSUME Init PROVE IInv
    OBVIOUS
  <1> DEFINE s == <<Host, Drain, Code("entry")>>
  <1>1. /\ Host \in HostFrame /\ Host.at = "host" /\ Host.stage = "turn"
        /\ Drain \in DrainFrame /\ Drain.at = "drain"
        /\ Code("entry") \in CodeFrame /\ Code("entry").at = "code"
    BY Bounds DEF Host, HostFrame, Drain, DrainFrame, Code, CodeFrame, NoTimer, Delays
  <1>2. PICK f \in Frame, g \in Frame, h \in Frame :
            /\ f = Host /\ g = Drain /\ h = Code("entry")
            /\ f.at = "host" /\ f.stage = "turn" /\ g.at = "drain" /\ h.at = "code"
    BY <1>1, FrameIs
  <1>3. Stacked(<<f, g, h>>)
    <2>1. Sane(f) /\ Sane(g) /\ Sane(h) /\ Runs(f, g) /\ Runs(g, h)
      BY <1>2 DEF Sane, Runs
    <2> QED
      BY <1>2, <2>1 DEF Stacked
  <1>4. /\ \A n : Dues(<<f, g, h>>, n) = <<>>
        /\ \A n : ~Asking(<<f, g, h>>, n)
        /\ \A y : ~Finished(<<f, g, h>>, y)
    BY <1>2 DEF Dues, Asking, Finished
  <1>5. stack = <<f, g, h>>
    BY <1>2 DEF Init
  <1>6. Clocked(timers, nextId, handles)
    BY Bounds DEF Init, Clocked, Table, Empty
  <1>7. Balanced(timers, credit, stack)
    <2>1. \A i : OwedAt(stack, i) = {}
      BY <1>4, <1>5 DEF OwedAt
    <2>2. Cardinality({}) = 0
      BY FS_EmptySet
    <2>3. DOMAIN timers = {} /\ credit = [i \in Ids |-> 0]
      BY DEF Init, Empty
    <2>4. ASSUME NEW i \in Ids
          PROVE  credit[i] = (IF i \in DOMAIN timers THEN 1 ELSE 0) + Cardinality(OwedAt(stack, i))
      <3>1. Cardinality(OwedAt(stack, i)) = 0
        BY <2>1, <2>2, Zenon
      <3>2. credit[i] = 0 /\ i \notin DOMAIN timers
        BY <2>3
      <3> QED
        BY <3>1, <3>2
    <2>5. credit \in [Ids -> Nat]
      BY <2>3
    <2> QED
      BY <2>4, <2>5 DEF Balanced
  <1>8. Promised(promise, reacts, micro) /\ Flagged(aborted, thrown, batch, dying) /\ Worked(work)
    <2>1. Promised(promise, reacts, micro)
      BY DEF Init, Promised
    <2>2. Flagged(aborted, thrown, batch, dying)
      BY DEF Init, Flagged
    <2>3. work = [outstanding |-> 0, running |-> 0, done |-> 0]
      BY DEF Init
    <2> QED
      BY <2>1, <2>2, <2>3 DEF Worked
  <1>9. Threaded(fns, hold, checked)
    <2>1. /\ fns = [k \in Fns |-> NewFn] /\ hold = [w \in Workers |-> NoFn]
          /\ checked = [w \in Workers |-> FALSE]
      BY DEF Init
    <2>2. ASSUME NEW k \in Fns PROVE Cardinality({w \in Workers : hold[w] = k}) = 0
      <3>1. {w \in Workers : hold[w] = k} = {}
        BY <2>1, ThreadAssumption
      <3> QED
        BY <3>1, FS_EmptySet
    <2> QED
      BY <2>1, <2>2 DEF Threaded, NewFn, FnType
  <1>10. Sourced(sources, uses, batch, fns, work)
    <2>1. PICK w \in Worlds : uses = w.uses /\ sources = w.sources
      BY DEF Init
    <2>2. batch = 0 /\ work.outstanding = 0 /\ ~Made(fns)
      BY DEF Init, Made, NewFn
    <2> QED
      BY <2>1, <2>2, WorldAssumption DEF Sourced, Names
  <1>11. Noted(late)
    BY DEF Init, NothingLate, Noted
  <1>12. Told(stack, why, timers, batch, work, fns, late)
    BY <1>4, <1>5, Zenon DEF Told, TimersTold, BatchTold, WorkTold, ThreadsTold, ItemsTold, Past,
           Emptied, LookedAt
  <1> QED
    BY <1>3, <1>5, <1>6, <1>7, <1>8, <1>9, <1>10, <1>11, <1>12 DEF IInv

\* Each operation of the program keeps it.
LEMMA ProgramKeeps ==
  ASSUME IInv, ProgramSteps
  PROVE  IInv'
  <1>1. CASE SetTimeout \/ SetInterval \/ SetImmediate
    <2>1. \E left \in Delays, period \in Delays, immediate \in BOOLEAN :
              Schedule(left, period, immediate)
      <3>1. 0 \in Delays /\ \A d \in 1 .. MaxDelay : d \in Delays
        BY Bounds DEF Delays
      <3>2. TRUE \in BOOLEAN /\ FALSE \in BOOLEAN
        OBVIOUS
      <3> QED
        BY <1>1, <3>1, <3>2, Zenon DEF SetTimeout, SetInterval, SetImmediate
    <2>2. Running /\ uses' = uses
      BY <1>1 DEF SetTimeout, SetInterval, SetImmediate, Does
    <2> QED
      BY <2>1, <2>2, ScheduleKeeps
  <1>2. CASE Clear \/ Ref \/ Refresh \/ PromiseTimer \/ PromiseTimerMade
    BY <1>2, ClearKeeps, RefKeeps, RefreshKeeps, PromiseTimerKeeps, PromiseTimerMadeKeeps
  <1>3. CASE Abort \/ Then \/ Resolve \/ Awaits \/ Throw \/ Catch \/ Dies \/ CodeEnds
    BY <1>3, AbortKeeps, ThenKeeps, ResolveKeeps, AwaitsKeeps, ThrowKeeps, DiesKeeps, CodeEndsKeeps
  <1>4. CASE QueueCallback \/ CreateFn \/ RefFn \/ QueueWork
    BY <1>4, QueueCallbackKeeps, CreateFnKeeps, RefFnKeeps, QueueWorkKeeps
  <1> QED
    BY <1>1, <1>2, <1>3, <1>4, Zenon DEF ProgramSteps

\* So does each step of the loop.
LEMMA RuntimeKeeps ==
  ASSUME IInv, RuntimeSteps
  PROVE  IInv'
  <1>1. CASE RunReaction \/ TakeFinalizers \/ RunFinalizer \/ DrainEnds
    BY <1>1, DrainCallsKeeps, TakeFinalizersKeeps, DrainEndsKeeps
  <1>2. CASE RejectAborted \/ TakeDue \/ FireNext \/ Checkpoint \/ PumpEnds
    BY <1>2, RejectAbortedKeeps, TakeDueKeeps, FireNextKeeps, CheckpointKeeps, PumpEndsKeeps
  <1>3. CASE AskSource \/ TimersAnswer \/ BatchCalls \/ BatchAnswers
    BY <1>3, AskSourceKeeps, TimersAnswerKeeps, BatchCallsKeeps, BatchAnswersKeeps
  <1>4. CASE DeliverItem \/ NothingToDeliver \/ FunctionsAnswer \/ Completes \/ WorkAnswers
    BY <1>4, DeliverItemKeeps, NothingToDeliverKeeps, FunctionsAnswerKeeps, CompletesKeeps,
       WorkAnswersKeeps
  <1>5. CASE SecondPass \/ PassEnds
    BY <1>5, SecondPassKeeps, PassEndsKeeps
  <1>6. CASE HostBreaks \/ HostAsks \/ HostSleeps \/ HostFinishes
    BY <1>6, HostStopsKeeps, HostAsksKeeps, HostSleepsKeeps
  <1>7. CASE AwaitEnds \/ AwaitDrains \/ AwaitAsks \/ AwaitSleeps \/ AwaitLooksAgain \/ Stall
    BY <1>7, AwaitReturnsKeeps, AwaitCallsKeeps, AwaitSleepsKeeps
  <1> QED
    BY <1>1, <1>2, <1>3, <1>4, <1>5, <1>6, <1>7, Zenon DEF RuntimeSteps

\* And of the threads.
LEMMA ThreadsKeep ==
  ASSUME IInv, ThreadSteps
  PROVE  IInv'
  <1>1. CASE WorkFinishes
    BY <1>1, WorkFinishesKeeps
  <1>2. ASSUME NEW w \in Workers, CallFn(w) \/ Send(w) PROVE IInv'
    BY <1>2, CallFnKeeps, SendKeeps
  <1>3. ASSUME NEW w \in Workers, NEW abort \in BOOLEAN, Release(w, abort) PROVE IInv'
    BY <1>3, ReleaseKeeps
  <1>4. ASSUME NEW w \in Workers, NEW other \in Workers, Acquire(w, other) PROVE IInv'
    BY <1>4, AcquireKeeps
  <1> QED
    BY <1>1, <1>2, <1>3, <1>4, Zenon DEF ThreadSteps

\* Every step keeps the invariant.
LEMMA StepKeeps ==
  IInv /\ [Next]_vars => IInv'
  <1>1. SUFFICES ASSUME IInv, [Next]_vars PROVE IInv'
    OBVIOUS
  <1>2. CASE UNCHANGED vars
    BY <1>1, <1>2 DEF vars, clock, promises, native, threads, ghosts, IInv
  <1>3. CASE Next
    BY <1>1, <1>3, ProgramKeeps, RuntimeKeeps, ThreadsKeep, TimePassesKeeps DEF Next
  <1> QED
    BY <1>1, <1>2, <1>3

\* So it always holds.
LEMMA Invariant ==
  Spec => []IInv
  <1>1. Init => IInv
    BY InitHolds
  <1>2. IInv /\ [Next]_vars => IInv'
    BY StepKeeps
  <1> QED
    BY <1>1, <1>2, PTL DEF Spec

-----------------------------------------------------------------------------
(***************************************************************************)
(* What follows from it.                                                   *)
(***************************************************************************)
\* Every frame, table and counter of the loop keeps its type, the host is the
\* first frame and no other, each function counts the threads that hold it, and
\* work outstanding is work that runs or waits to be told of.
THEOREM LoopTypes ==
  Spec => []TypeOK
  <1>1. IInv => TypeOK
    <2> SUFFICES ASSUME IInv PROVE TypeOK
      OBVIOUS
    <2>1. /\ DOMAIN timers \subseteq Ids /\ \A i \in DOMAIN timers : timers[i] \in Timer
          /\ nextId \in 1 .. MaxTimers + 1
      BY DEF IInv, Clocked, Table
    <2>2. /\ promise \in [Promises -> {"pending", "fulfilled", "rejected"}]
          /\ reacts \in [Promises -> Nat] /\ micro \in Nat
          /\ aborted \in BOOLEAN /\ thrown \in BOOLEAN /\ batch \in Nat
          /\ work.outstanding = work.running + work.done /\ dying \in Nat
      BY DEF IInv, Promised, Flagged, Worked
    <2>3. \A f \in Fns : fns[f].threads = Cardinality({w \in Workers : hold[w] = f})
      BY Zenon DEF IInv, Threaded
    <2>4. /\ stack # <<>> /\ stack[1].at = "host"
          /\ \A i \in DOMAIN stack : stack[i] \in Frame /\ (stack[i].at = "host" => i = 1)
      BY DEF IInv, Stacked
    <2> QED
      BY <2>1, <2>2, <2>3, <2>4, Zenon DEF TypeOK
  <1> QED
    BY <1>1, Invariant, PTL

\* For any number of timers and any program, an arming is in the table or with
\* one pump that took it, whatever the callbacks between do with the timer, and
\* it is called for once.
THEOREM OneCallPerArming ==
  Spec => []OncePerArming
  <1>1. IInv => OncePerArming
    <2> SUFFICES ASSUME IInv PROVE OncePerArming
      OBVIOUS
    <2>1. ASSUME NEW i \in Ids PROVE Owed(i) = OwedAt(stack, i)
      <3>1. stack \in Seq(Frame) /\ DOMAIN stack = 1 .. Len(stack) /\ Len(stack) \in Nat
        BY DEF IInv, Stacked
      <3>2. \A n \in Pumps : stack[n].due \in Seq(Called) /\ DOMAIN stack[n].due = 1 .. Len(stack[n].due)
        <4>1. ASSUME NEW n \in Pumps PROVE stack[n].due \in Seq(Called)
          <5>1. stack[n] \in PumpFrame
            BY <3>1, KindOf DEF Pumps
          <5> QED
            BY <5>1 DEF PumpFrame
        <4> QED
          BY <4>1
      <3>3. \A n : n \in Pumps <=> n \in Nat /\ n \in 1 .. Len(stack) /\ stack[n].at = "pump"
        BY <3>1 DEF Pumps
      <3>4. \A n : /\ n \in Pumps => Dues(stack, n) = stack[n].due
                   /\ n \in Nat /\ n \notin Pumps => Dues(stack, n) = <<>>
        BY <3>3, Zenon DEF Dues
      <3>5. ASSUME NEW p \in Owed(i) PROVE p \in OwedAt(stack, i)
        <4>1. PICK n \in Pumps : p \in {n} \X {k \in DOMAIN stack[n].due : /\ stack[n].due[k].id = i
                                                                          /\ ~stack[n].due[k].again}
          BY <3>5, Zenon DEF Owed
        <4>2. /\ p = <<n, p[2]>> /\ p[1] = n /\ p[2] \in DOMAIN stack[n].due
              /\ stack[n].due[p[2]].id = i /\ ~stack[n].due[p[2]].again
          BY <4>1
        <4>3. Dues(stack, p[1]) = stack[n].due /\ p[2] \in 1 .. Len(stack[n].due) /\ n \in Nat
          BY <3>2, <3>3, <3>4, <4>2
        <4>4. p[2] \in Nat /\ p \in Nat \X Nat
          BY <4>2, <4>3
        <4> QED
          BY <4>2, <4>3, <4>4, Zenon DEF OwedAt
      <3>6. ASSUME NEW p \in OwedAt(stack, i) PROVE p \in Owed(i)
        <4>1. /\ p \in Nat \X Nat /\ p[2] \in 1 .. Len(Dues(stack, p[1]))
              /\ Dues(stack, p[1])[p[2]].id = i /\ ~Dues(stack, p[1])[p[2]].again
          BY DEF OwedAt
        <4>2. PICK n \in Nat, k \in Nat : p = <<n, k>> /\ n = p[1] /\ k = p[2]
          BY <4>1
        <4>3. n \in Pumps
          <5>1. ASSUME n \notin Pumps PROVE FALSE
            <6>1. k \in 1 .. Len(<<>>)
              BY <3>4, <4>1, <4>2, <5>1, Zenon
            <6> QED
              BY <6>1
          <5> QED
            BY <5>1
        <4>4. Dues(stack, n) = stack[n].due /\ DOMAIN stack[n].due = 1 .. Len(stack[n].due)
          BY <3>2, <3>4, <4>3
        <4>5. k \in {j \in DOMAIN stack[n].due : stack[n].due[j].id = i /\ ~stack[n].due[j].again}
          BY <4>1, <4>2, <4>4
        <4>6. p \in {n} \X {j \in DOMAIN stack[n].due : stack[n].due[j].id = i /\ ~stack[n].due[j].again}
          BY <4>2, <4>5
        <4> QED
          BY <4>3, <4>6, Zenon DEF Owed
      <3> QED
        BY <3>5, <3>6
    <2> QED
      BY <2>1, Zenon DEF OncePerArming, IInv, Balanced
  <1> QED
    BY <1>1, Invariant, PTL

\* A program that ended for want of work had told every source so.
LEMMA IdledIs ==
  ASSUME IInv, Idled
  PROVE  /\ \A name : Past(stack, why, name)
         /\ Emptied(stack, why) /\ LookedAt(stack, why)
  BY Zenon DEF Idled, Over, Past, Emptied, LookedAt, Finished

\* Whatever order the sources were declared in, and whatever they start when they
\* are asked, a program that ends leaves no timer that holds it open and no
\* callback behind, but what its last pass started.
THEOREM NoneAbandoned ==
  Spec => []NothingAbandoned
  <1>1. IInv => NothingAbandoned
    <2> SUFFICES ASSUME IInv, Idled
                 PROVE  Refed(timers) \subseteq late.timers /\ (batch > 0 => late.batch)
      BY Zenon DEF NothingAbandoned
    <2>1. Refed(timers) \subseteq late.timers /\ (batch = 0 \/ late.batch)
      BY IdledIs, Zenon DEF IInv, Told, TimersTold, BatchTold
    <2> QED
      BY <2>1
  <1> QED
    BY <1>1, Invariant, PTL

\* For any number of functions and threads: a thread that sends and then releases
\* between two looks of the loop loses nothing, since the loop asks once more
\* after it has seen that no thread is left.
THEOREM EveryItemDelivered ==
  Spec => []NoItemLost
  <1>1. IInv => NoItemLost
    BY IdledIs, Zenon DEF NoItemLost, IInv, Told, ItemsTold, Prompt
  <1> QED
    BY <1>1, Invariant, PTL

\* So with work that finishes beside the loop.
THEOREM EveryWorkTold ==
  Spec => []WorkIsTold
  <1>1. IInv => WorkIsTold
    BY IdledIs, Zenon DEF WorkIsTold, IInv, Told, WorkTold
  <1> QED
    BY <1>1, Invariant, PTL

-----------------------------------------------------------------------------
(***************************************************************************)
(* Between two callbacks of a pump the reactions have all run.  A drain    *)
(* that is past its reactions calls nothing when nothing dies, so it       *)
(* leaves the queue as empty as it found it.                               *)
(***************************************************************************)
Rested(f) == f.at = "drain" => f.left = 0
Clean(f, m) ==
    /\ f.at = "drain" /\ f.stage = "finalizers" => m = 0
    /\ f.at = "pump" /\ f.stage = "fire" /\ f.ran => m = 0
Calm(s, m, d) ==
    /\ d = 0 /\ \A i \in 1 .. Len(s) : Rested(s[i])
    /\ \A i \in 1 .. Len(s) - 1 : s[i].at = "drain" => s[i].stage = "reactions"
    /\ Clean(s[Len(s)], m)
Calmed == "dies" \notin uses => Calm(stack, micro, dying)

\* Neither a drain nor a pump: nothing is asked of it.
Plain(f) == f.at \notin {"drain", "pump"}
\* So it may be replaced, called from and returned to freely.
LEMMA PlainIsClean ==
  ASSUME NEW f, Plain(f), NEW m
  PROVE  Rested(f) /\ Clean(f, m) /\ f.at # "drain"
  BY DEF Plain, Rested, Clean

\* A frame whose stage changes keeps its name.
LEMMA StageOf ==
  ASSUME NEW f \in Frame, NEW x
  PROVE  [f EXCEPT !.stage = x].at = f.at
  <1>1. "at" \in DOMAIN f
    <2>1. /\ \A g \in HostFrame : "at" \in DOMAIN g
          /\ \A g \in DrainFrame : "at" \in DOMAIN g
          /\ \A g \in CodeFrame : "at" \in DOMAIN g
          /\ \A g \in PassFrame : "at" \in DOMAIN g
          /\ \A g \in PumpFrame : "at" \in DOMAIN g
          /\ \A g \in BatchFrame : "at" \in DOMAIN g
          /\ \A g \in AwaitFrame : "at" \in DOMAIN g
      BY DEF HostFrame, DrainFrame, CodeFrame, PassFrame, PumpFrame, BatchFrame, AwaitFrame
    <2> QED
      BY <2>1, KindOf
  <1> QED
    BY <1>1

\* What a step of the last frame, a call and a return leave.
LEMMA CalmWith ==
  ASSUME IInv, NEW f, stack' = With(f), NEW m, NEW d, NEW n, NEW e, Calm(stack, m, d),
         Rested(f), Clean(f, n), e = 0
  PROVE  Calm(stack', n, e)
  <1>1. PICK S : S = Frame \cup {f}
    OBVIOUS
  <1>2. stack \in Seq(S) /\ Len(stack) \in Nat /\ Len(stack) >= 1 /\ f \in S
    BY <1>1 DEF IInv, Stacked
  <1>3. PICK t : t = [stack EXCEPT ![Len(stack)] = f]
    OBVIOUS
  <1>4. /\ Len(t) = Len(stack) /\ t[Len(stack)] = f
        /\ \A i \in 1 .. Len(stack) - 1 : t[i] = stack[i]
    BY <1>2, <1>3
  <1>5. Calm(t, n, e)
    BY <1>2, <1>4 DEF Calm
  <1> QED
    BY <1>3, <1>5, Zenon DEF With

\* A call is made by a drain that still runs reactions, or by no drain.
LEMMA CalmCall ==
  ASSUME IInv, NEW f, NEW g, stack' = Call(f, g), NEW m, NEW d, NEW n, NEW e,
         Calm(stack, m, d), Rested(f), f.at = "drain" => f.stage = "reactions",
         Rested(g), Clean(g, n), e = 0
  PROVE  Calm(stack', n, e)
  <1>1. PICK S : S = Frame \cup {f, g}
    OBVIOUS
  <1>2. stack \in Seq(S) /\ Len(stack) \in Nat /\ Len(stack) >= 1 /\ f \in S /\ g \in S
    BY <1>1 DEF IInv, Stacked
  <1>3. PICK t : t = [stack EXCEPT ![Len(stack)] = f]
    OBVIOUS
  <1>4. /\ t \in Seq(S) /\ Len(t) = Len(stack) /\ t[Len(stack)] = f
        /\ \A i \in 1 .. Len(stack) - 1 : t[i] = stack[i]
    BY <1>2, <1>3
  <1>5. PICK u : u = Append(t, g)
    OBVIOUS
  <1>6. /\ Len(u) = Len(stack) + 1 /\ u[Len(stack)] = f /\ u[Len(stack) + 1] = g
        /\ \A i \in 1 .. Len(stack) - 1 : u[i] = stack[i]
    BY <1>2, <1>4, <1>5
  <1>7. Calm(u, n, e)
    BY <1>2, <1>6 DEF Calm
  <1> QED
    BY <1>3, <1>5, <1>7, Zenon DEF With, Call

\* The frame below becomes f.
LEMMA CalmPopped ==
  ASSUME NEW s, Stacked(s), Len(s) >= 2, NEW t, NEW f, Popped(s, t, f), NEW m, NEW d, NEW n,
         NEW e, Calm(s, m, d), Rested(f), Clean(f, n), e = 0
  PROVE  Calm(t, n, e)
  <1>1. Len(s) \in Nat
    BY DEF Stacked
  <1> QED
    BY <1>1 DEF Popped, Calm

\* A return leaves what the frame below is owed to its callee.
LEMMA CalmReturn ==
  ASSUME IInv, stack' = Return, Top.at # "host", NEW m, NEW d, NEW n, NEW e, Calm(stack, m, d),
         Clean(Caller, n), e = 0
  PROVE  Calm(stack', n, e)
  <1>1. Stacked(stack) /\ Len(stack) >= 2 /\ Caller = stack[Len(stack) - 1] /\ Len(stack) \in Nat
    BY TopIs DEF IInv
  <1>2. Popped(stack, stack', Caller)
    BY <1>1, Returns
  <1>3. Rested(Caller)
    BY <1>1 DEF Calm
  <1> QED
    BY <1>1, <1>2, <1>3, CalmPopped

\* The operations of the program that go on.
LEMMA CalmContinues ==
  ASSUME IInv, Running, Continues, NEW m, NEW d, NEW n, NEW e, Calm(stack, m, d), e = 0
  PROVE  Calm(stack', n, e)
  <1>1. Top \in CodeFrame
    BY TopIs, KindOf DEF IInv, Running
  <1>2. [Top EXCEPT !.asked = thrown].at = "code"
    BY <1>1 DEF CodeFrame
  <1>3. PICK f : f = [Top EXCEPT !.asked = thrown]
    OBVIOUS
  <1>4. Plain(f)
    BY <1>2, <1>3 DEF Plain
  <1> QED
    BY <1>3, <1>4, PlainIsClean, CalmWith DEF Continues

\* No step of a program that watches nothing die leaves a drain with finalizers,
\* or a pump between two callbacks with reactions.
LEMMA ProgramIsCalm ==
  ASSUME IInv, ProgramSteps, "dies" \notin uses, Calm(stack, micro, dying)
  PROVE  Calm(stack', micro', dying')
  <1>0. dying = 0
    BY DEF Calm
  <1>1. CASE SetTimeout \/ SetInterval \/ SetImmediate \/ Clear \/ Ref \/ Refresh
    <2>1. Running /\ Continues /\ dying' = dying
      BY <1>1 DEF SetTimeout, SetInterval, SetImmediate, Schedule, Clear, Ref, Refresh, Does, native
    <2> QED
      BY <1>0, <2>1, CalmContinues
  <1>2. CASE Abort \/ Then \/ Resolve \/ QueueCallback \/ CreateFn \/ RefFn \/ QueueWork
    <2>1. Running /\ Continues /\ dying' = dying
      BY <1>2 DEF Abort, Then, Resolve, QueueCallback, CreateFn, RefFn, QueueWork, Does, native
    <2> QED
      BY <1>0, <2>1, CalmContinues
  <1>3. CASE Dies
    BY <1>3 DEF Dies, Does
  <1>4. CASE PromiseTimer
    <2>1. dying' = dying /\ Top \in CodeFrame
      BY <1>4, TopIs, KindOf DEF IInv, PromiseTimer, Does, Running, native
    <2>2. PICK x : stack' = Call([Top EXCEPT !.owes = x], Pump)
      BY <1>4 DEF PromiseTimer
    <2>3. [Top EXCEPT !.owes = x].at = "code"
      BY <2>1 DEF CodeFrame
    <2>4. PICK f : f = [Top EXCEPT !.owes = x]
      OBVIOUS
    <2>5. Plain(f) /\ Rested(Pump) /\ Clean(Pump, micro')
      BY <2>3, <2>4 DEF Plain, Pump, Rested, Clean
    <2> QED
      BY <1>0, <2>1, <2>2, <2>4, <2>5, PlainIsClean, CalmCall
  <1>5. CASE PromiseTimerMade \/ Throw \/ Catch
    <2>1. dying' = dying /\ Top \in CodeFrame
      BY <1>5, TopIs, KindOf DEF IInv, PromiseTimerMade, Throw, Catch, Does, Running, native
    <2>2. PICK f : stack' = With(f) /\ f.at = "code"
      <3>1. /\ [Top EXCEPT !.owes = NoTimer, !.asked = thrown].at = "code"
            /\ [Top EXCEPT !.asked = TRUE].at = "code"
            /\ [Top EXCEPT !.asked = FALSE].at = "code"
        BY <2>1 DEF CodeFrame
      <3> QED
        BY <1>5, <3>1, Zenon DEF PromiseTimerMade, Throw, Catch
    <2>3. Plain(f)
      BY <2>2 DEF Plain
    <2> QED
      BY <1>0, <2>1, <2>2, <2>3, PlainIsClean, CalmWith
  <1>6. CASE Awaits
    <2>1. dying' = dying /\ Top.at = "code"
      BY <1>6 DEF Awaits, Does, Running, native
    <2>2. PICK p : stack' = Call(Top, Await(p))
      BY <1>6 DEF Awaits
    <2>3. Plain(Top) /\ Plain(Await(p))
      BY <2>1 DEF Plain, Await
    <2> QED
      BY <1>0, <2>1, <2>2, <2>3, PlainIsClean, CalmCall
  <1>7. CASE CodeEnds
    <2>1. /\ dying' = dying /\ Top.at = "code" /\ stack' = Return
          /\ Runs(Caller, Top) /\ Caller = stack[Len(stack) - 1]
          /\ Len(stack) - 1 \in 1 .. Len(stack) - 1
      BY <1>7, TopIs DEF IInv, CodeEnds, Running, native
    <2>2. Clean(Caller, micro')
      <3>1. Caller.at = "drain" => Caller.stage = "reactions"
        BY <2>1 DEF Calm
      <3>2. Caller.at = "pump" => Caller.stage = "checkpoint"
        BY <2>1 DEF Runs
      <3> QED
        BY <3>1, <3>2 DEF Clean
    <2> QED
      BY <1>0, <2>1, <2>2, CalmReturn
  <1> QED
    BY <1>1, <1>2, <1>3, <1>4, <1>5, <1>6, <1>7, Zenon DEF ProgramSteps

\* A drain leaves its reactions when the queue is empty, and then calls nothing.
LEMMA DrainIsCalm ==
  ASSUME IInv, RunReaction \/ TakeFinalizers \/ RunFinalizer \/ DrainEnds,
         Calm(stack, micro, dying)
  PROVE  Calm(stack', micro', dying')
  <1>0. dying = 0
    BY DEF Calm
  <1>1. /\ Stacked(stack) /\ Top \in DrainFrame /\ Top.at = "drain" /\ Rested(Top) /\ Top.left = 0
    <2>1. /\ Stacked(stack) /\ Top \in DrainFrame /\ Top.at = "drain" /\ Top = stack[Len(stack)]
          /\ Len(stack) \in 1 .. Len(stack)
      BY TopIs, KindOf DEF IInv, RunReaction, TakeFinalizers, RunFinalizer, DrainEnds
    <2>2. Rested(Top)
      BY <2>1 DEF Calm
    <2> QED
      BY <2>1, <2>2 DEF Rested
  <1>2. CASE RunReaction
    <2>1. /\ stack' = Call(Top, Code("reaction")) /\ dying' = 0 /\ Top.stage = "reactions"
      BY <1>0, <1>2 DEF RunReaction, native
    <2>2. Plain(Code("reaction"))
      BY DEF Plain, Code
    <2> QED
      BY <1>1, <2>1, <2>2, PlainIsClean, CalmCall
  <1>3. CASE TakeFinalizers
    <2>1. PICK f : /\ f = [Top EXCEPT !.stage = "finalizers", !.left = dying]
      OBVIOUS
    <2>2. stack' = With(f) /\ dying' = 0 /\ micro' = 0
      BY <1>3, <2>1 DEF TakeFinalizers, promises
    <2>3. f.at = "drain" /\ f.left = 0
      BY <1>0, <1>1, <2>1 DEF DrainFrame
    <2>4. Rested(f) /\ Clean(f, micro')
      BY <2>2, <2>3 DEF Rested, Clean
    <2> QED
      BY <2>2, <2>4, CalmWith
  <1>4. CASE RunFinalizer
    BY <1>1, <1>4 DEF RunFinalizer
  <1>5. CASE DrainEnds
    <2>1. /\ stack' = Return /\ dying' = 0 /\ Top.stage = "finalizers" /\ micro' = micro
      BY <1>0, <1>5 DEF DrainEnds, OnlyTheStack, promises, native
    <2>2. micro = 0
      BY <1>1, <2>1, TopIs DEF Calm, Clean
    <2>3. Clean(Caller, micro')
      BY <2>1, <2>2 DEF Clean
    <2> QED
      BY <1>1, <2>1, <2>3, CalmReturn
  <1> QED
    BY <1>2, <1>3, <1>4, <1>5

\* A pump goes on to its next timer through a drain.
LEMMA PumpIsCalm ==
  ASSUME IInv, RejectAborted \/ TakeDue \/ FireNext \/ Checkpoint \/ PumpEnds,
         Calm(stack, micro, dying)
  PROVE  Calm(stack', micro', dying')
  <1>0. dying' = 0
    BY DEF Calm, RejectAborted, TakeDue, FireNext, Checkpoint, PumpEnds, OnlyTheStack, native
  <1>1. Stacked(stack) /\ Top \in PumpFrame /\ Top \in Frame /\ Top.at = "pump" /\ Sane(Top)
    BY TopIs, KindOf DEF IInv, RejectAborted, TakeDue, FireNext, Checkpoint, PumpEnds
  <1>2. Rested(Drain) /\ Clean(Drain, micro') /\ Plain(Code("timer"))
    BY DEF Drain, Rested, Clean, Plain, Code
  <1>3. \A f, g : /\ f.at = "pump" /\ Rested(g) /\ Clean(g, micro') /\ stack' = Call(f, g)
                  => Calm(stack', micro', dying')
    <2>1. SUFFICES ASSUME NEW f, NEW g, f.at = "pump", Rested(g), Clean(g, micro'), stack' = Call(f, g)
                   PROVE  Calm(stack', micro', dying')
      OBVIOUS
    <2>2. Rested(f) /\ f.at # "drain"
      BY <2>1 DEF Rested
    <2> QED
      BY <1>0, <2>1, <2>2, CalmCall
  <1>4. CASE RejectAborted
    BY <1>1, <1>2, <1>3, <1>4, StageOf DEF RejectAborted
  <1>5. CASE TakeDue
    <2>1. PICK due : stack' = With([Top EXCEPT !.stage = "fire", !.due = due])
      BY <1>5, Zenon DEF TakeDue
    <2>2. PICK f : f = [Top EXCEPT !.stage = "fire", !.due = due]
      OBVIOUS
    <2>3. ~Top.ran
      BY <1>1, <1>5 DEF TakeDue, Sane
    <2>4. f.at = "pump" /\ ~f.ran
      BY <1>1, <2>2, <2>3 DEF PumpFrame
    <2>5. Rested(f) /\ Clean(f, micro')
      BY <2>4 DEF Rested, Clean
    <2> QED
      BY <1>0, <2>1, <2>2, <2>5, CalmWith
  <1>6. CASE FireNext
    <2>1. PICK f, g : /\ stack' = Call(f, g) /\ f.at = "pump" /\ (g = Drain \/ g = Code("timer"))
      <3>1. /\ [Top EXCEPT !.due = Tail(Top.due), !.ran = TRUE].at = "pump"
            /\ [[Top EXCEPT !.due = Tail(Top.due), !.ran = TRUE] EXCEPT !.stage = "checkpoint"].at = "pump"
        BY <1>1 DEF PumpFrame
      <3> QED
        BY <1>6, <3>1 DEF FireNext
    <2> QED
      BY <1>2, <1>3, <2>1, PlainIsClean
  <1>7. CASE Checkpoint
    BY <1>1, <1>2, <1>3, <1>7, StageOf DEF Checkpoint
  <1>8. CASE PumpEnds
    <2>1. stack' = Return /\ Runs(Caller, Top)
      BY <1>1, <1>8, TopIs DEF PumpEnds
    <2>2. Plain(Caller)
      BY <1>1, <2>1 DEF Runs, Plain
    <2> QED
      BY <1>0, <1>1, <2>1, <2>2, PlainIsClean, CalmReturn
  <1> QED
    BY <1>4, <1>5, <1>6, <1>7, <1>8

\* A pass neither drains nor fires.
LEMMA PassIsCalm ==
  ASSUME IInv, Calm(stack, micro, dying),
         \/ AskSource \/ TimersAnswer \/ BatchCalls \/ BatchAnswers \/ DeliverItem
         \/ NothingToDeliver \/ FunctionsAnswer \/ Completes \/ WorkAnswers
         \/ SecondPass \/ PassEnds
  PROVE  Calm(stack', micro', dying')
  <1>1. dying' = 0
    BY DEF Calm, AskSource, TimersAnswer, BatchCalls, BatchAnswers, DeliverItem, NothingToDeliver,
           FunctionsAnswer, Completes, WorkAnswers, SecondPass, PassEnds, OnlyTheStack, native
  <1>2. Stacked(stack) /\ Top \in Frame /\ Top.at \in {"pass", "batch"}
    BY TopIs DEF IInv, AskSource, TimersAnswer, BatchCalls, BatchAnswers, DeliverItem,
           NothingToDeliver, FunctionsAnswer, Completes, WorkAnswers, SecondPass, PassEnds,
           Asked, Passed
  <1>3. \A f : Plain(f) /\ stack' = With(f) => Calm(stack', micro', dying')
    BY <1>1, PlainIsClean, CalmWith
  <1>4. \A f, g : Plain(f) /\ Rested(g) /\ Clean(g, micro') /\ stack' = Call(f, g)
                  => Calm(stack', micro', dying')
    BY <1>1, PlainIsClean, CalmCall
  <1>5. Plain(Top) /\ Plain(Code("source")) /\ Plain(Batch) /\ Rested(Pump) /\ Clean(Pump, micro')
    BY <1>2 DEF Plain, Code, Batch, Pump, Rested, Clean
  <1>6. CASE AskSource
    <2>1. PICK f : f = [Top EXCEPT !.stage = "asked"]
      OBVIOUS
    <2>2. Plain(f)
      BY <1>2, <2>1, StageOf DEF Plain
    <2>3. stack' \in {Call(f, Pump), Call(f, Batch), With(f)}
      BY <1>6, <2>1 DEF AskSource
    <2> QED
      BY <1>3, <1>4, <1>5, <2>2, <2>3, PlainIsClean
  <1>7. CASE TimersAnswer \/ BatchAnswers \/ FunctionsAnswer \/ WorkAnswers
    <2>1. PICK a : stack' = Answered(a)
      BY <1>7, Zenon DEF TimersAnswer, BatchAnswers, FunctionsAnswer, WorkAnswers
    <2>2. Top \in PassFrame
      BY <1>2, <1>7, KindOf DEF TimersAnswer, BatchAnswers, FunctionsAnswer, WorkAnswers, Asked
    <2>3. PICK f : stack' = With(f) /\ f.at = "pass"
      <3>1. [Top EXCEPT !.stage = "next", !.left = Tail(@), !.wait = Shorter(@, a.wait),
                        !.blocked = @ \/ a.blocked].at = "pass"
        BY <2>2 DEF PassFrame
      <3> QED
        BY <2>1, <3>1, Zenon DEF Answered
    <2> QED
      BY <1>3, <2>3 DEF Plain
  <1>8. CASE BatchCalls
    <2>1. CASE Top.left > 0
      <3>1. PICK f : f = [Top EXCEPT !.left = @ - 1]
        OBVIOUS
      <3>2. f.at = "batch"
        BY <1>2, <1>8, <3>1, KindOf DEF BatchCalls, BatchFrame
      <3> QED
        BY <1>4, <1>5, <1>8, <2>1, <3>1, <3>2, PlainIsClean DEF BatchCalls, Plain
    <2>2. CASE ~(Top.left > 0)
      <3>1. stack' = Return /\ Runs(Caller, Top) /\ Top.at = "batch"
        BY <1>2, <1>8, <2>2, TopIs DEF BatchCalls
      <3>2. Plain(Caller)
        BY <3>1 DEF Runs, Plain
      <3> QED
        BY <1>1, <3>1, <3>2, PlainIsClean, CalmReturn
    <2> QED
      BY <2>1, <2>2
  <1>9. CASE DeliverItem \/ Completes
    BY <1>4, <1>5, <1>9, PlainIsClean DEF DeliverItem, Completes
  <1>10. CASE NothingToDeliver
    <2>1. PICK f : f = [Top EXCEPT !.stage = "drained"]
      OBVIOUS
    <2>2. Plain(f)
      BY <1>2, <2>1, StageOf DEF Plain
    <2> QED
      BY <1>3, <1>10, <2>1, <2>2 DEF NothingToDeliver
  <1>11. CASE SecondPass
    BY <1>3, <1>11 DEF SecondPass, Plain, Pass
  <1>12. CASE PassEnds
    <2>1. /\ Stacked(stack) /\ Caller \in Frame /\ Caller.at \in {"host", "await"}
          /\ Len(stack) >= 2 /\ Caller = stack[Len(stack) - 1]
      BY <1>12, PassIs DEF PassEnds, Passed
    <2>2. PICK f : f = [Caller EXCEPT !.stage = "answered", !.wait = Wait(Top)]
      OBVIOUS
    <2>3. f \in Frame /\ f.at \in {"host", "await"}
      <3>1. Wait(Top) \in 0 .. Nothing
        BY <1>2, <1>12, KindOf, WaitIs DEF PassEnds, Passed
      <3>2. CASE Caller.at = "host"
        <4>1. Caller \in HostFrame
          BY <2>1, <3>2, KindOf
        <4>2. f \in HostFrame /\ f.at = "host"
          BY <2>2, <3>1, <4>1 DEF HostFrame
        <4> QED
          BY <4>2, FrameIs
      <3>3. CASE Caller.at = "await"
        <4>1. Caller \in AwaitFrame
          BY <2>1, <3>3, KindOf
        <4>2. f \in AwaitFrame /\ f.at = "await"
          BY <2>2, <3>1, <4>1 DEF AwaitFrame
        <4> QED
          BY <4>2, FrameIs
      <3> QED
        BY <2>1, <3>2, <3>3
    <2>4. Plain(f)
      BY <2>3 DEF Plain
    <2>5. Popped(stack, stack', f)
      BY <1>2, <1>12, <2>1, <2>2, <2>3, ReturnsTo DEF PassEnds
    <2> QED
      BY <1>1, <2>1, <2>4, <2>5, PlainIsClean, CalmPopped
  <1> QED
    BY <1>6, <1>7, <1>8, <1>9, <1>10, <1>11, <1>12

\* Nor do the host and an await, which call drains.
LEMMA LoopIsCalm ==
  ASSUME IInv, Calm(stack, micro, dying),
         \/ HostBreaks \/ HostAsks \/ HostSleeps \/ HostFinishes
         \/ AwaitEnds \/ AwaitDrains \/ AwaitAsks \/ AwaitSleeps \/ AwaitLooksAgain \/ Stall
  PROVE  Calm(stack', micro', dying')
  <1>1. dying' = 0
    BY DEF Calm, HostBreaks, HostAsks, HostSleeps, HostFinishes, AwaitEnds, AwaitDrains, AwaitAsks,
           AwaitSleeps, AwaitLooksAgain, Stall, OnlyTheStack, native
  <1>2. Stacked(stack) /\ Top \in Frame /\ Top.at \in {"host", "await"}
    BY TopIs DEF IInv, HostBreaks, HostAsks, HostSleeps, HostFinishes, HostTurn, AwaitEnds,
           AwaitDrains, AwaitAsks, AwaitSleeps, AwaitLooksAgain, Stall, Awaiting
  <1>3. Rested(Drain) /\ Clean(Drain, micro') /\ Plain(Pass(1)) /\ Plain(Host) /\ \A p : Plain(Await(p))
    BY DEF Drain, Rested, Clean, Plain, Pass, Host, Await
  <1>4. CASE AwaitEnds \/ Stall
    <2>1. /\ Top.at = "await" /\ Caller \in CodeFrame /\ Caller.at = "code" /\ Len(stack) >= 2
          /\ Caller = stack[Len(stack) - 1]
      BY <1>2, <1>4, AwaitIs, TopIs DEF AwaitEnds, Stall
    <2>2. PICK asked \in BOOLEAN : stack' = ReturnTo([Caller EXCEPT !.asked = asked])
      <3>1. thrown \in BOOLEAN
        BY DEF IInv, Flagged
      <3>2. CASE AwaitEnds
        <4>1. thrown' = (thrown \/ promise[Top.on] = "rejected")
          BY <3>2 DEF AwaitEnds
        <4>2. thrown' \in BOOLEAN
          BY <3>1, <4>1
        <4> QED
          BY <3>2, <4>2 DEF AwaitEnds
      <3>3. CASE Stall
        <4>1. TRUE \in BOOLEAN /\ stack' = ReturnTo([Caller EXCEPT !.asked = TRUE])
          BY <3>3 DEF Stall
        <4> QED
          BY <4>1, Zenon
      <3> QED
        BY <1>4, <3>2, <3>3
    <2>3. [Caller EXCEPT !.asked = asked] \in CodeFrame /\ [Caller EXCEPT !.asked = asked].at = "code"
      BY <2>1 DEF CodeFrame
    <2>4. PICK f \in Frame : f = [Caller EXCEPT !.asked = asked] /\ f.at = "code"
      BY <2>3, FrameIs
    <2>5. Plain(f)
      BY <2>4 DEF Plain
    <2>6. Popped(stack, stack', f)
      BY <1>2, <2>1, <2>2, <2>4, ReturnsTo
    <2> QED
      BY <1>1, <1>2, <2>1, <2>5, <2>6, PlainIsClean, CalmPopped
  <1>5. CASE AwaitSleeps
    BY <1>1, <1>3, <1>5, PlainIsClean, CalmWith DEF AwaitSleeps
  <1>6. CASE HostSleeps
    <2>1. stack' = Call(Host, Drain)
      BY <1>6 DEF HostSleeps
    <2> QED
      BY <1>1, <1>3, <2>1, PlainIsClean, CalmCall
  <1>7. CASE HostBreaks \/ HostAsks \/ HostFinishes \/ AwaitDrains \/ AwaitAsks \/ AwaitLooksAgain
    <2>1. PICK stage, g : /\ stack' = Call([Top EXCEPT !.stage = stage], g)
                          /\ g = Drain \/ g = Pass(1)
      BY <1>7, Zenon DEF HostBreaks, HostAsks, HostFinishes, AwaitDrains, AwaitAsks, AwaitLooksAgain
    <2>2. PICK f : f = [Top EXCEPT !.stage = stage]
      OBVIOUS
    <2>3. Plain(f)
      BY <1>2, <2>2, StageOf DEF Plain
    <2>4. Rested(g) /\ Clean(g, micro')
      BY <1>3, <2>1, PlainIsClean
    <2> QED
      BY <1>1, <2>1, <2>2, <2>3, <2>4, PlainIsClean, CalmCall
  <1> QED
    BY <1>4, <1>5, <1>6, <1>7

\* Every step leaves drains and pumps so.
LEMMA StepIsCalm ==
  IInv /\ Calmed /\ [Next]_vars => Calmed'
  <1>1. SUFFICES ASSUME IInv, Calmed, [Next]_vars, "dies" \notin uses' PROVE Calm(stack', micro', dying')
    BY DEF Calmed
  <1>2. CASE UNCHANGED vars
    BY <1>1, <1>2 DEF vars, promises, native, Calmed
  <1>3. ASSUME Next PROVE uses' = uses
    <2>1. CASE ProgramSteps
      BY <2>1 DEF ProgramSteps, SetTimeout, SetInterval, SetImmediate, Clear, Ref, Refresh,
             PromiseTimer, PromiseTimerMade, Abort, Then, Resolve, Awaits, Throw, Catch,
             QueueCallback, Dies, CreateFn, RefFn, QueueWork, CodeEnds, Does
    <2>2. CASE RuntimeSteps
      BY <2>2 DEF RuntimeSteps, RunReaction, TakeFinalizers, RunFinalizer, DrainEnds,
             RejectAborted, TakeDue, FireNext, Checkpoint, PumpEnds,
             AskSource, TimersAnswer, BatchCalls, BatchAnswers,
             DeliverItem, NothingToDeliver, FunctionsAnswer, Completes, WorkAnswers,
             SecondPass, PassEnds, HostBreaks, HostAsks, HostSleeps, HostFinishes,
             AwaitEnds, AwaitDrains, AwaitAsks, AwaitSleeps, AwaitLooksAgain, Stall, OnlyTheStack
    <2>3. CASE ThreadSteps \/ TimePasses
      BY <2>3 DEF ThreadSteps, TimePasses, CallFn, Send, Acquire, Release, WorkFinishes, BesideThreads
    <2> QED
      BY <1>3, <2>1, <2>2, <2>3 DEF Next
  <1>4. CASE Next
    <2>1. "dies" \notin uses /\ Calm(stack, micro, dying)
      BY <1>1, <1>3, <1>4 DEF Calmed
    <2>2. CASE ThreadSteps \/ TimePasses
      <3>1. stack' = stack /\ micro' = micro /\ dying' = dying
        BY <2>2 DEF ThreadSteps, TimePasses, CallFn, Send, Acquire, Release, WorkFinishes,
               BesideThreads, promises, native
      <3> QED
        BY <2>1, <3>1
    <2>3. CASE ProgramSteps
      BY <1>1, <2>1, <2>3, ProgramIsCalm
    <2>4. CASE RuntimeSteps
      BY <1>1, <2>1, <2>4, DrainIsCalm, PumpIsCalm, PassIsCalm, LoopIsCalm, Zenon DEF RuntimeSteps
    <2> QED
      BY <1>4, <2>2, <2>3, <2>4 DEF Next
  <1> QED
    BY <1>1, <1>2, <1>4

\* Whatever pumps and drains the callbacks and the reactions run themselves, a
\* pump that calls its next timer finds the queue of reactions empty.
THEOREM CheckpointHolds ==
  Spec => CheckpointBetweenTimers
  <1>1. Init => IInv /\ Calmed
    <2> SUFFICES ASSUME Init PROVE IInv /\ Calmed
      OBVIOUS
    <2>1. PICK f, g, h : f = Host /\ g = Drain /\ h = Code("entry")
      OBVIOUS
    <2>2. Plain(f) /\ Plain(h) /\ g.at = "drain" /\ g.stage = "reactions" /\ g.left = 0
      BY <2>1 DEF Plain, Host, Code, Drain
    <2>3. stack = <<f, g, h>> /\ dying = 0
      BY <2>1 DEF Init
    <2>4. Calm(<<f, g, h>>, micro, 0)
      BY <2>2 DEF Calm, Plain, Rested, Clean
    <2> QED
      BY <2>3, <2>4, InitHolds DEF Calmed
  <1>2. IInv /\ Calmed /\ [Next]_vars => IInv' /\ Calmed'
    BY StepKeeps, StepIsCalm
  <1>3. IInv /\ Calmed => (FireNext /\ Top.ran /\ "dies" \notin uses => micro = 0)
    BY TopIs DEF IInv, Calmed, Calm, Clean, FireNext
  <1> QED
    BY <1>1, <1>2, <1>3, PTL DEF Spec, CheckpointBetweenTimers
=============================================================================
