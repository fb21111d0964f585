---------------------------- MODULE StreamsLemmas ----------------------------
(***************************************************************************)
(* What each step of node:stream does, for any number of Writables, any    *)
(* sizes of chunks and any program: to the types, to the stack, to the     *)
(* completions that are owed and to the chunks that are on their way.      *)
(*                                                                         *)
(* The invariant is about the stack first: what a listener, a hook or a    *)
(* sink may call is whatever it likes, so a method that is interrupted has *)
(* to find its way back from any state that calls lead to.                 *)
(***************************************************************************)
EXTENDS StreamsProperties, Iteration, SequenceTheorems, FiniteSetTheorems

-----------------------------------------------------------------------------
(***************************************************************************)
(* The parts of the invariant.                                             *)
(***************************************************************************)
PipeTo == [dst : Dsts, ends : BOOLEAN]
Entry  == [dst : Dsts, size : Nat, final : BOOLEAN]
Events == {"entry", "turn", "data", "readable", "end", "close", "pause", "resume", "pipe",
           "unpipe", "read", "write", "written", "final", "drain", "finish"}

Reading == [flowing : {"none", "on", "off"}, buf : Seq(Chunk), length : Nat, ended : BOOLEAN,
            readableEnded : BOOLEAN, consumed : BOOLEAN, pipes : Seq(PipeTo),
            waiter : 0 .. Len(given), destroyed : BOOLEAN]
Writing == [queue : Seq(Chunk), length : Nat, corked : Nat, ended : BOOLEAN, finished : BOOLEAN,
            needDrain : BOOLEAN, callbacks : Nat, finalCalled : BOOLEAN]
Stacked == /\ stack \in Seq(Frame) /\ Len(stack) >= 1
           /\ \A i \in 1 .. Len(stack) : stack[i].at = "host" <=> i = 1
Noted == /\ made \in Nat /\ accepted \subseteq 1 .. made /\ got \in Seq(1 .. made)
         /\ given \in Seq({"asked", "pending", "chunk", "done"})
         /\ offered \in [Dsts -> Seq(Nat)] /\ arrived \in [Dsts -> Seq(Nat)] /\ unfed \subseteq Dsts
Typed == /\ readable \in Reading /\ writable \in [Dsts -> Writing] /\ Stacked /\ Noted
         /\ pending \in Seq(Entry) /\ ending \in BOOLEAN /\ held \in Nat

\* What a frame is to the rest: a piece of code that owes a completion, a chunk that
\* nobody has been handed, or what its name says.
Kind(f) == IF f.at = "code" /\ f.owes THEN "owing"
           ELSE IF f.at = "deliver" /\ f.stage = "data" THEN "data" ELSE f.at
Where(s, K) == {i \in 1 .. Len(s) : Kind(s[i]) \in K}

\* A completion has its entry, and without "defer" nothing else has one.
Owed == LET owing == Cardinality(Where(stack, {"owing"})) IN
        /\ Len(pending) >= held + owing
        /\ "defer" \notin uses => held = 0 /\ Len(pending) = owing

Weighed == readable.length = Total(readable.buf)

Hand == {"push", "data"}
Chunks(s, K) == {s[i].chunk.id : i \in Where(s, K)}
IdsOf(queue) == [i \in DOMAIN queue |-> queue[i].id]
Placed ==
    /\ accepted = ToSet(got) \cup Ids(readable.buf) \cup Chunks(stack, Hand)
    /\ Cardinality(accepted) = Len(got) + Len(readable.buf) + Cardinality(Where(stack, Hand))
Offered == \A d \in Dsts : offered[d] = arrived[d] \o IdsOf(writable[d].queue)

\* Of the calls of next() one is outstanding, and the one that runs is it.
Open(i) == given[i] \in {"asked", "pending"}
Asking ==
    "race" \notin uses =>
        /\ \A i \in DOMAIN given : given[i] = "pending" <=> readable.waiter = i
        /\ \A i, j \in DOMAIN given : Open(i) /\ Open(j) => i = j
        /\ \A i \in Where(stack, {"next"}) : given[stack[i].call] = "asked"
        /\ \A i, j \in Where(stack, {"next"}) : i = j

\* Where nobody iterates only the host pumps.
Deep ==
    ~Pulls =>
        /\ Where(stack, {"next"}) = {}
        /\ \A i \in Where(stack, {"pump"}) : i = 2
        /\ \A i \in Where(stack, {"ended"}) : i = 3 /\ stack[2].at = "pump"
        /\ "end" \notin uses => \A i \in Where(stack, {"end"}) : i = 4 /\ stack[3].at = "ended"

\* The event and the pipes follow the mark.
Late == Where(stack, {"ended"}) # {} => readable.readableEnded

\* Where nothing flows a push is placed at once.
Still == ~MayFlow =>
    /\ ~Flows /\ Where(stack, {"data", "deliver", "resume"}) = {}
    /\ \A i \in Where(stack, {"push"}) : i = Len(stack)
\* Once the end is told only empty chunks are left to be handed over.
Told == ~(Pulls /\ MayFlow) /\ readable.readableEnded =>
    /\ readable.ended /\ Where(stack, {"push"}) = {}
    /\ \A i \in 1 .. Len(readable.buf) : readable.buf[i].size = 0
    /\ \A i \in Where(stack, {"data"}) : stack[i].chunk.size = 0

Targets(pipes) == {pipes[i].dst : i \in DOMAIN pipes}
Piped ==
    uses \cap {"read", "next"} = {} =>
        /\ readable.waiter = 0
        /\ ~readable.readableEnded => \A d \in Dsts \ unfed :
            /\ ToSet(got) \subseteq ToSet(offered[d]) \cup StillToWrite(d)
            /\ d \in Targets(readable.pipes)
            /\ \A i \in Where(stack, {"unpipe"}) :
                 d \notin stack[i].which /\ d \in Targets(stack[i].left) \cup Targets(stack[i].kept)

Done(d) == writable[d].ended /\ writable[d].queue = <<>>
Finishing ==
    /\ \A i \in Where(stack, {"finish"}) : Done(stack[i].dst)
    /\ \A i \in DOMAIN pending : pending[i].final => Done(pending[i].dst) /\ pending[i].size = 0
    /\ \A d \in Dsts : writable[d].finished => Done(d)

\* What is on its way to a sink and back.
Shares(p, d) == [i \in DOMAIN p |-> [size |-> IF p[i].dst = d THEN p[i].size ELSE 0]]
Shrinks(f) == f.at = "finalize" /\ f.stage = "shrink"
Shrinking(d) == IF Shrinks(Top) /\ Top.dst = d THEN Top.size ELSE 0
Settling ==
    SinksAnswer =>
        /\ \A i \in 1 .. Len(stack) : Shrinks(stack[i]) => i = Len(stack)
        /\ \A d \in Dsts :
            /\ writable[d].corked = 0
            /\ writable[d].queue # <<>> => \E i \in Where(stack, {"drainQueue"}) : stack[i].dst = d
            /\ writable[d].length = Total(writable[d].queue) + Total(Shares(pending, d)) + Shrinking(d)
            /\ writable[d].ended => writable[d].queue = <<>> /\ writable[d].length = 0

IInv == /\ Typed /\ Owed /\ Weighed /\ Placed /\ Offered /\ Asking /\ Deep /\ Late /\ Still /\ Told
        /\ Piped /\ Finishing /\ Settling

-----------------------------------------------------------------------------
(***************************************************************************)
(* Sums over sequences.                                                    *)
(***************************************************************************)
Sums(g, s) == /\ g \in [0 .. Len(s) -> Nat] /\ g[0] = 0
              /\ \A n \in 1 .. Len(s) : g[n] = g[n - 1] + s[n].size

\* The sum up to a place is the only function of the kind Total defines.
LEMMA TotalIs ==
  ASSUME NEW s, Len(s) \in Nat, \A n \in 1 .. Len(s) : s[n].size \in Nat
  PROVE  \E g : Sums(g, s) /\ Total(s) = g[Len(s)]
  <1> DEFINE K == Len(s)
             F == [a \in (1 .. K) \X Nat |-> a[2] + s[a[1]].size]
             Is(g) == g = [n \in 0 .. K |-> IF n = 0 THEN 0 ELSE g[n - 1] + s[n].size]
  <1>1. F \in [(1 .. K) \X Nat -> Nat] /\ K \in Nat /\ 0 \in Nat
    OBVIOUS
  <1> HIDE DEF K
  <1>2. PICK g : Iterating(g, K, Nat, 0, F)
    <2> HIDE DEF F
    <2>1. PICK z \in Nat : z = 0
      OBVIOUS
    <2>2. \E g : Iterating(g, K, Nat, z, F)
      BY <1>1, Iterates, Zenon
    <2> QED
      BY <2>1, <2>2
  <1>3. g \in [0 .. K -> Nat] /\ g[0] = 0 /\ \A n \in 1 .. K : g[n] = F[<<n, g[n - 1]>>]
    BY <1>2, Zenon DEF Iterating
  <1>4. \A n \in 0 .. K : n # 0 => n \in 1 .. K /\ n - 1 \in 0 .. K
    BY <1>1, SMT
  <1>5. \A n \in 1 .. K, a \in Nat : F[<<n, a>>] = a + s[n].size
    BY SMT DEF F
  <1>6. \A n \in 1 .. K : g[n] = g[n - 1] + s[n].size
    <2> HIDE DEF F
    <2>1. \A n \in 1 .. K : n \in 0 .. K /\ n - 1 \in 0 .. K
      BY <1>1, SMT
    <2> QED
      BY <1>3, <1>5, <2>1, Zenon
  <1>7. Is(g)
    <2>1. \A n \in 0 .. K : g[n] = IF n = 0 THEN 0 ELSE g[n - 1] + s[n].size
      BY <1>3, <1>4, <1>6, Zenon
    <2>2. g = [n \in 0 .. K |-> g[n]]
      BY <1>3, Zenon
    <2> QED
      BY <2>1, <2>2, Zenon
  <1>8. PICK h : h = (CHOOSE x : Is(x))
    OBVIOUS
  <1>9. Is(h)
    <2> HIDE DEF Is
    <2> QED
      BY <1>7, <1>8, Zenon
  <1>10. h[0] = 0 /\ \A n \in 1 .. K : h[n] = h[n - 1] + s[n].size
    <2>1. 0 \in 0 .. K /\ \A n \in 1 .. K : n \in 0 .. K /\ n # 0
      BY <1>1, SMT
    <2> QED
      BY <1>9, <2>1, Zenon
  <1>11. \A n \in 0 .. K : n \in {k \in 0 .. K : h[k] = g[k]}
    <2> DEFINE T == {k \in 0 .. K : h[k] = g[k]}
    <2>1. 0 \in T
      BY <1>1, <1>3, <1>10, SMT
    <2>2. ASSUME NEW n \in 0 .. K - 1, n \in T PROVE n + 1 \in T
      <3>1. n + 1 \in 1 .. K /\ (n + 1) - 1 = n
        BY <1>1, SMT
      <3>2. h[n + 1] = h[n] + s[n + 1].size /\ g[n + 1] = g[n] + s[n + 1].size
        BY <1>6, <1>10, <3>1
      <3> QED
        BY <2>2, <3>1, <3>2
    <2> HIDE DEF T
    <2>3. \A n \in 0 .. K : n \in T
      BY <1>1, <2>1, <2>2, SetInduction
    <2> QED
      BY <2>3 DEF T
  <1>12. Total(s) = h[K]
    BY <1>8, Zenon DEF Total, K
  <1>13. K \in 0 .. K
    BY <1>1, SMT
  <1> QED
    BY <1>3, <1>6, <1>11, <1>12, <1>13, Zenon DEF Sums, K

\* Two sums whose turns differ by a constant differ by it at the end.
LEMMA SumsApart ==
  ASSUME NEW K \in Nat, NEW c \in Nat, NEW g \in [0 .. K -> Nat], NEW h \in [0 .. K -> Nat],
         h[0] = g[0] + c, NEW w \in [1 .. K -> Nat],
         \A n \in 1 .. K : g[n] = g[n - 1] + w[n] /\ h[n] = h[n - 1] + w[n]
  PROVE  h[K] = g[K] + c
  <1> DEFINE T == {k \in 0 .. K : h[k] = g[k] + c}
  <1>1. 0 \in T
    OBVIOUS
  <1>2. ASSUME NEW n \in 0 .. K - 1, n \in T PROVE n + 1 \in T
    <2>1. n + 1 \in 1 .. K /\ (n + 1) - 1 = n /\ n \in 0 .. K
      OBVIOUS
    <2>2. h[n + 1] = h[n] + w[n + 1] /\ g[n + 1] = g[n] + w[n + 1]
      BY <2>1
    <2>3. h[n] \in Nat /\ g[n] \in Nat /\ w[n + 1] \in Nat /\ h[n] = g[n] + c
      BY <1>2, <2>1
    <2> QED
      BY <2>1, <2>2, <2>3
  <1> HIDE DEF T
  <1>3. \A n \in 0 .. K : n \in T
    BY <1>1, <1>2, SetInduction
  <1> QED
    BY <1>3 DEF T

\* What a sum is of an empty sequence, and of one with something more at its end,
LEMMA TotalAppend ==
  ASSUME NEW s, NEW t, Len(s) \in Nat, Len(t) = Len(s) + 1,
         \A n \in 1 .. Len(t) : t[n].size \in Nat,
         \A n \in 1 .. Len(s) : s[n].size = t[n].size
  PROVE  Total(s) \in Nat /\ Total(t) = Total(s) + t[Len(t)].size
  <1>1. PICK K \in Nat : K = Len(s)
    OBVIOUS
  <1>a. \A n \in 1 .. K : s[n].size \in Nat
    <2>1. \A n \in 1 .. K : n \in 1 .. Len(t) /\ n + 1 \in 1 .. Len(t)
      BY <1>1
    <2> QED
      BY <1>1, <2>1
  <1>2. PICK g : Sums(g, s) /\ Total(s) = g[K]
    BY <1>1, <1>a, TotalIs
  <1>3. PICK h : Sums(h, t) /\ Total(t) = h[K + 1]
    BY <1>1, TotalIs
  <1> DEFINE w == [n \in 1 .. K |-> t[n].size]
             f == [n \in 0 .. K |-> h[n]]
  <1>4. /\ g \in [0 .. K -> Nat] /\ g[0] = 0
        /\ \A n \in 1 .. K : g[n] = g[n - 1] + s[n].size
    BY <1>1, <1>2 DEF Sums
  <1>5. /\ h \in [0 .. K + 1 -> Nat] /\ h[0] = 0
        /\ \A n \in 1 .. K + 1 : h[n] = h[n - 1] + t[n].size
    BY <1>1, <1>3 DEF Sums
  <1>6. w \in [1 .. K -> Nat] /\ f \in [0 .. K -> Nat] /\ f[0] = g[0]
    BY <1>1, <1>4, <1>5
  <1>7. \A n \in 1 .. K : g[n] = g[n - 1] + w[n] /\ f[n] = f[n - 1] + w[n]
    BY <1>1, <1>4, <1>5
  <1>8. f[K] = h[K] /\ h[K + 1] = h[K] + t[K + 1].size
    BY <1>5
  <1> HIDE DEF w, f
  <1>9. f[K] = g[K]
    <2>1. PICK z \in Nat : z = 0
      OBVIOUS
    <2>2. g[0] \in Nat /\ f[0] = g[0] + z
      BY <1>4, <1>6, <2>1
    <2>3. f[K] = g[K] + z
      BY <1>4, <1>6, <1>7, <2>2, SumsApart
    <2> QED
      BY <1>4, <2>1, <2>3
  <1> QED
    BY <1>1, <1>2, <1>3, <1>4, <1>8, <1>9

LEMMA TotalEmpty ==
  ASSUME NEW s, Len(s) = 0
  PROVE  Total(s) = 0
  <1>1. PICK g : Sums(g, s) /\ Total(s) = g[Len(s)]
    BY TotalIs
  <1> QED
    BY <1>1 DEF Sums

\* at its head,
LEMMA TotalHead ==
  ASSUME NEW s, NEW t, Len(s) \in Nat, Len(t) = Len(s) + 1,
         \A n \in 1 .. Len(t) : t[n].size \in Nat,
         \A n \in 1 .. Len(s) : s[n].size = t[n + 1].size
  PROVE  Total(s) \in Nat /\ Total(t) = t[1].size + Total(s)
  <1>1. PICK K \in Nat : K = Len(s)
    OBVIOUS
  <1>a. \A n \in 1 .. K : s[n].size \in Nat
    <2>1. \A n \in 1 .. K : n \in 1 .. Len(t) /\ n + 1 \in 1 .. Len(t)
      BY <1>1
    <2> QED
      BY <1>1, <2>1
  <1>2. PICK g : Sums(g, s) /\ Total(s) = g[K]
    BY <1>1, <1>a, TotalIs
  <1>3. PICK h : Sums(h, t) /\ Total(t) = h[K + 1]
    BY <1>1, TotalIs
  <1>0. PICK c \in Nat : c = t[1].size
    BY <1>1
  <1> DEFINE w == [n \in 1 .. K |-> s[n].size]
             f == [n \in 0 .. K |-> h[n + 1]]
  <1>4. /\ g \in [0 .. K -> Nat] /\ g[0] = 0
        /\ \A n \in 1 .. K : g[n] = g[n - 1] + s[n].size
    BY <1>1, <1>2 DEF Sums
  <1>5. /\ h \in [0 .. K + 1 -> Nat] /\ h[0] = 0
        /\ \A n \in 1 .. K + 1 : h[n] = h[n - 1] + t[n].size
    BY <1>1, <1>3 DEF Sums
  <1>6. w \in [1 .. K -> Nat] /\ f \in [0 .. K -> Nat]
    <2>1. \A n \in 0 .. K : n + 1 \in 0 .. K + 1
      OBVIOUS
    <2> QED
      BY <1>1, <1>a, <1>5, <2>1
  <1>7. h[1] = c
    BY <1>0, <1>5
  <1>8. f[0] = g[0] + c
    BY <1>4, <1>7
  <1>9. \A n \in 1 .. K : g[n] = g[n - 1] + w[n]
    BY <1>4
  <1>10. ASSUME NEW n \in 1 .. K PROVE f[n] = f[n - 1] + w[n]
    <2>1. n + 1 \in 1 .. K + 1 /\ (n + 1) - 1 = n /\ n \in 0 .. K /\ n - 1 \in 0 .. K /\ (n - 1) + 1 = n
      OBVIOUS
    <2>2. h[n + 1] = h[n] + t[n + 1].size
      BY <1>5, <2>1
    <2>3. f[n] = h[n + 1] /\ f[n - 1] = h[n] /\ w[n] = s[n].size /\ s[n].size = t[n + 1].size
      BY <1>1, <2>1
    <2> QED
      BY <2>2, <2>3
  <1>11. f[K] = h[K + 1]
    OBVIOUS
  <1> HIDE DEF w, f
  <1>12. f[K] = g[K] + c
    BY <1>4, <1>6, <1>8, <1>9, <1>10, SumsApart
  <1> QED
    BY <1>0, <1>1, <1>2, <1>3, <1>4, <1>11, <1>12

-----------------------------------------------------------------------------
(***************************************************************************)
(* Frames, and what becomes of the stack.                                  *)
(***************************************************************************)
PlainFrame == [at : {"host", "drainAll", "resume"}]
CodeFrame == [at : {"code"}, owes : BOOLEAN, from : Events]
PushFrame == [at : {"push"}, chunk : Chunk]
DeliverFrame == [at : {"deliver"}, stage : {"data", "pipes", "write"}, chunk : Chunk,
                 left : Seq(Dsts), ok : BOOLEAN]
UnpipeFrame == [at : {"unpipe"}, which : SUBSET Dsts, left : Seq(PipeTo), kept : Seq(PipeTo)]
PumpFrame == [at : {"pump"}, stage : {"end", "wait", "prodded"}]
EndedFrame == [at : {"ended"}, stage : {"event", "pipes"}, left : Seq(PipeTo)]
NextFrame == [at : {"next"}, stage : {"pumped", "prodded"}, call : 1 .. Len(given)]
WriteFrame == [at : {"write"}, dst : Dsts, chunk : Chunk, cb : BOOLEAN]
DrainFrame == [at : {"drainQueue"}, dst : Dsts, ok : BOOLEAN]
FinalizeFrame == [at : {"finalize"}, stage : {"shrink", "drain"}, dst : Dsts, size : Nat,
                  remaining : Nat]
DstFrame == [at : {"end", "maybeFinish", "finish"}, dst : Dsts]

LEMMA FrameIs ==
  Frame = PlainFrame \cup CodeFrame \cup PushFrame \cup DeliverFrame \cup UnpipeFrame
          \cup PumpFrame \cup EndedFrame \cup NextFrame \cup WriteFrame \cup DrainFrame
          \cup FinalizeFrame \cup DstFrame
  BY Zenon DEF Frame, PlainFrame, CodeFrame, PushFrame, DeliverFrame, UnpipeFrame, PumpFrame,
         EndedFrame, NextFrame, WriteFrame, DrainFrame, FinalizeFrame, DstFrame, PipeTo, Events

\* What a frame's name says of it.
LEMMA KindOf ==
  ASSUME NEW f \in Frame
  PROVE  /\ f.at \in {"host", "drainAll", "resume", "code", "push", "deliver", "unpipe", "pump",
                      "ended", "next", "write", "drainQueue", "finalize", "end", "maybeFinish",
                      "finish"}
         /\ f.at \in {"host", "drainAll", "resume"} => f \in PlainFrame
         /\ f.at = "code" => f \in CodeFrame
         /\ f.at = "push" => f \in PushFrame
         /\ f.at = "deliver" => f \in DeliverFrame
         /\ f.at = "unpipe" => f \in UnpipeFrame
         /\ f.at = "pump" => f \in PumpFrame
         /\ f.at = "ended" => f \in EndedFrame
         /\ f.at = "next" => f \in NextFrame
         /\ f.at = "write" => f \in WriteFrame
         /\ f.at = "drainQueue" => f \in DrainFrame
         /\ f.at = "finalize" => f \in FinalizeFrame
         /\ f.at \in {"end", "maybeFinish", "finish"} => f \in DstFrame
  <1>1. /\ \A g \in PlainFrame : g.at \in {"host", "drainAll", "resume"}
        /\ \A g \in CodeFrame : g.at = "code"
        /\ \A g \in PushFrame : g.at = "push"
        /\ \A g \in DeliverFrame : g.at = "deliver"
        /\ \A g \in UnpipeFrame : g.at = "unpipe"
        /\ \A g \in PumpFrame : g.at = "pump"
        /\ \A g \in EndedFrame : g.at = "ended"
        /\ \A g \in NextFrame : g.at = "next"
        /\ \A g \in WriteFrame : g.at = "write"
        /\ \A g \in DrainFrame : g.at = "drainQueue"
        /\ \A g \in FinalizeFrame : g.at = "finalize"
        /\ \A g \in DstFrame : g.at \in {"end", "maybeFinish", "finish"}
    BY Zenon DEF PlainFrame, CodeFrame, PushFrame, DeliverFrame, UnpipeFrame, PumpFrame, EndedFrame,
           NextFrame, WriteFrame, DrainFrame, FinalizeFrame, DstFrame
  <1>2. \/ f \in PlainFrame \/ f \in CodeFrame \/ f \in PushFrame \/ f \in DeliverFrame
        \/ f \in UnpipeFrame \/ f \in PumpFrame \/ f \in EndedFrame \/ f \in NextFrame
        \/ f \in WriteFrame \/ f \in DrainFrame \/ f \in FinalizeFrame \/ f \in DstFrame
    BY FrameIs, Zenon
  <1> QED
    BY <1>1, <1>2, SMT

\* t is the first n frames of s, and then more.
Grew(s, t, n, more) ==
  /\ n \in 0 .. Len(s) /\ Len(more) \in Nat /\ Len(t) = n + Len(more)
  /\ \A i \in 1 .. n : t[i] = s[i]
  /\ \A j \in 1 .. Len(more) : t[n + j] = more[j]

\* A sequence put after another.
LEMMA Joined ==
  ASSUME NEW S, NEW s \in Seq(S), NEW more \in Seq(S)
  PROVE  s \o more \in Seq(S) /\ Grew(s, s \o more, Len(s), more)
  <1>1. PICK t : t = s \o more
    OBVIOUS
  <1>2. /\ t \in Seq(S) /\ Len(t) = Len(s) + Len(more)
        /\ \A i \in 1 .. Len(s) + Len(more) :
             t[i] = IF i <= Len(s) THEN s[i] ELSE more[i - Len(s)]
    BY <1>1, ConcatProperties, Zenon
  <1>3. Len(s) \in Nat /\ Len(more) \in Nat
    OBVIOUS
  <1>4. ASSUME NEW j \in 1 .. Len(more) PROVE t[Len(s) + j] = more[j]
    <2>1. Len(s) + j \in 1 .. Len(s) + Len(more) /\ ~(Len(s) + j <= Len(s)) /\ (Len(s) + j) - Len(s) = j
      BY <1>3
    <2>2. t[Len(s) + j] = more[(Len(s) + j) - Len(s)]
      BY <1>2, <2>1, Zenon
    <2> QED
      BY <2>1, <2>2
  <1> QED
    BY <1>1, <1>2, <1>3, <1>4 DEF Grew

LEMMA Forms ==
  ASSUME NEW S, NEW s \in Seq(S), Len(s) >= 1, NEW f \in S, NEW more \in Seq(S)
  PROVE  /\ Grew(s, s, Len(s), <<>>)
         /\ s \o more \in Seq(S) /\ Grew(s, s \o more, Len(s), more)
         /\ Append(s, f) \in Seq(S) /\ Grew(s, Append(s, f), Len(s), <<f>>)
         /\ Front(s) \in Seq(S) /\ Grew(s, Front(s), Len(s) - 1, <<>>)
         /\ Front(s) \o more \in Seq(S) /\ Grew(s, Front(s) \o more, Len(s) - 1, more)
         /\ Append(Front(s), f) \in Seq(S) /\ Grew(s, Append(Front(s), f), Len(s) - 1, <<f>>)
         /\ Append(Front(s), f) \o more \in Seq(S)
         /\ Grew(s, Append(Front(s), f) \o more, Len(s) - 1, <<f>> \o more)
  <1>3. PICK n \in Nat : n = Len(s) /\ n >= 1
    OBVIOUS
  <1>2. PICK b \in Seq(S) : b = Front(s) /\ Len(b) = n - 1 /\ \A i \in 1 .. n - 1 : b[i] = s[i]
    <2>1. \A i \in 1 .. n - 1 : s[i] \in S
      BY <1>3, ElementOfSeq
    <2>2. PICK a \in Int, k \in Int : a = 1 /\ k = n - 1
      BY <1>3
    <2>3. /\ SubSeq(s, a, k) \in Seq(S)
          /\ Len(SubSeq(s, a, k)) = IF a <= k THEN k - a + 1 ELSE 0
          /\ \A i \in 1 .. k - a + 1 : SubSeq(s, a, k)[i] = s[a + i - 1]
      <3>1. \A i \in a .. k : s[i] \in S
        BY <2>1, <2>2
      <3>2. a \in Int /\ k \in Int
        BY <2>2
      <3> QED
        BY ONLY <3>1, <3>2, SubSeqProperties
    <2>4. Front(s) = SubSeq(s, a, k)
      BY <1>3, <2>2 DEF Front
    <2>5. \A i \in 1 .. n - 1 : i \in 1 .. k - a + 1 /\ a + i - 1 = i
      BY <1>3, <2>2
    <2>6. \A i \in 1 .. n - 1 : SubSeq(s, a, k)[i] = s[i]
      BY <2>3, <2>5
    <2>7. Len(SubSeq(s, a, k)) = n - 1
      BY <1>3, <2>2, <2>3
    <2> QED
      BY <2>3, <2>4, <2>6, <2>7
  <1>5. Append(b, f) \in Seq(S) /\ Grew(s, Append(b, f), n - 1, <<f>>)
    BY <1>2, <1>3 DEF Grew
  <1>6. b \o more \in Seq(S) /\ Grew(s, b \o more, n - 1, more)
    <2>1. b \o more \in Seq(S) /\ Grew(b, b \o more, Len(b), more)
      BY Joined
    <2> QED
      BY <1>2, <1>3, <2>1 DEF Grew
  <1>7. PICK c \in Seq(S) : c = Append(b, f)
    BY <1>5
  <1>8. Len(c) = n /\ c[n] = f /\ \A i \in 1 .. n - 1 : c[i] = s[i]
    BY <1>2, <1>3, <1>7
  <1>9. c \o more \in Seq(S) /\ Grew(s, c \o more, n - 1, <<f>> \o more)
    <2>0. <<f>> \in Seq(S)
      OBVIOUS
    <2> DEFINE o == <<f>>
    <2>a. o \in Seq(S) /\ Len(o) = 1 /\ o[1] = f
      BY <2>0
    <2> HIDE DEF o
    <2>1. PICK m \in Seq(S) : m = o \o more /\ Grew(o, m, Len(o), more)
      BY <2>a, Joined
    <2>2. Len(m) = Len(more) + 1 /\ m[1] = f /\ \A j \in 1 .. Len(more) : m[1 + j] = more[j]
      BY <2>a, <2>1 DEF Grew
    <2>3. PICK t \in Seq(S) : t = c \o more /\ Grew(c, t, Len(c), more)
      BY Joined
    <2>4. Len(t) = n + Len(more) /\ \A i \in 1 .. n : t[i] = c[i]
      BY <1>8, <2>3 DEF Grew
    <2>5. \A j \in 1 .. Len(more) : t[n + j] = more[j]
      BY <1>8, <2>3 DEF Grew
    <2>6. \A j \in 1 .. Len(m) : t[(n - 1) + j] = m[j]
      <3>1. SUFFICES ASSUME NEW j \in 1 .. Len(m) PROVE t[(n - 1) + j] = m[j]
        OBVIOUS
      <3>0. Len(more) \in Nat
        OBVIOUS
      <3>2. CASE j = 1
        <4>1. (n - 1) + j = n /\ n \in 1 .. n
          BY <1>3, <3>2
        <4>2. t[n] = c[n]
          BY <2>4, <4>1
        <4> QED
          BY <1>8, <2>2, <3>2, <4>1, <4>2
      <3>3. CASE j # 1
        <4>1. PICK k \in 1 .. Len(more) : k = j - 1
          BY <2>2, <3>0, <3>3
        <4>2. (n - 1) + j = n + k /\ 1 + k = j
          BY <1>3, <4>1
        <4>3. m[1 + k] = more[k] /\ t[n + k] = more[k]
          BY <2>2, <2>5
        <4> QED
          BY <4>2, <4>3
      <3> QED
        BY <3>2, <3>3
    <2>7. \A i \in 1 .. n - 1 : t[i] = s[i]
      <3>1. \A i \in 1 .. n - 1 : i \in 1 .. n
        BY <1>3
      <3> QED
        BY <1>8, <2>4, <3>1, Zenon
    <2>8. Grew(s, t, n - 1, m)
      BY <1>3, <2>2, <2>4, <2>6, <2>7 DEF Grew
    <2> QED
      BY <2>1, <2>3, <2>8 DEF o
  <1>11. Append(s, f) \in Seq(S) /\ Grew(s, Append(s, f), Len(s), <<f>>)
    BY DEF Grew
  <1>12. Grew(s, s, Len(s), <<>>) /\ Grew(s, b, n - 1, <<>>)
    BY <1>2, <1>3 DEF Grew
  <1>13. s \o more \in Seq(S) /\ Grew(s, s \o more, Len(s), more)
    BY Joined
  <1> QED
    BY <1>2, <1>3, <1>5, <1>6, <1>7, <1>9, <1>11, <1>12, <1>13

LEMMA TopIs ==
  ASSUME Typed
  PROVE  /\ Len(stack) \in Nat /\ Len(stack) >= 1 /\ stack \in Seq(Frame)
         /\ Top \in Frame /\ Top = stack[Len(stack)]
         /\ Top.at = "host" => Len(stack) = 1
         /\ Top.at # "host" => Len(stack) >= 2
         /\ Len(stack) >= 2 => /\ Caller \in Frame /\ Caller = stack[Len(stack) - 1]
                               /\ Caller.at # "host" => Len(stack) >= 3
  <1>1. Len(stack) \in Nat /\ Len(stack) >= 1 /\ stack \in Seq(Frame)
    BY DEF Typed, Stacked
  <1>2. PICK n \in Nat : n = Len(stack)
    BY <1>1
  <1>3. \A i \in 1 .. n : stack[i] \in Frame /\ (stack[i].at = "host" <=> i = 1)
    BY <1>1, <1>2 DEF Typed, Stacked
  <1>4. n \in 1 .. n /\ (n >= 2 => n - 1 \in 1 .. n)
    BY <1>1, <1>2
  <1> QED
    BY <1>1, <1>2, <1>3, <1>4 DEF Top, Caller

\* What an action may make: chunks and calls of next.
Richer == made' \in Nat /\ made' >= made /\ Len(given') \in Nat /\ Len(given') >= Len(given)

LEMMA Enriched ==
  ASSUME Typed, Richer
  PROVE  /\ Frame \subseteq Frame' /\ Chunk \subseteq Chunk'
         /\ Seq(Frame) \subseteq Seq(Frame') /\ Seq(Chunk) \subseteq Seq(Chunk')
  <1>1. made \in Nat /\ Len(given) \in Nat
    BY DEF Typed, Noted
  <1>2. 1 .. made \subseteq 1 .. made' /\ 1 .. Len(given) \subseteq 1 .. Len(given')
    BY <1>1 DEF Richer
  <1>3. Chunk \subseteq Chunk'
    BY <1>2, Zenon DEF Chunk
  <1>4. /\ PushFrame \subseteq PushFrame' /\ DeliverFrame \subseteq DeliverFrame'
        /\ WriteFrame \subseteq WriteFrame' /\ NextFrame \subseteq NextFrame'
    BY <1>2, <1>3, Zenon DEF PushFrame, DeliverFrame, WriteFrame, NextFrame
  <1>5. /\ PlainFrame' = PlainFrame /\ CodeFrame' = CodeFrame /\ UnpipeFrame' = UnpipeFrame
        /\ PumpFrame' = PumpFrame /\ EndedFrame' = EndedFrame /\ DrainFrame' = DrainFrame
        /\ FinalizeFrame' = FinalizeFrame /\ DstFrame' = DstFrame
    BY Zenon DEF PlainFrame, CodeFrame, UnpipeFrame, PumpFrame, EndedFrame, DrainFrame,
                 FinalizeFrame, DstFrame, PipeTo, Events
  <1>6. Frame' = PlainFrame' \cup CodeFrame' \cup PushFrame' \cup DeliverFrame' \cup UnpipeFrame'
          \cup PumpFrame' \cup EndedFrame' \cup NextFrame' \cup WriteFrame' \cup DrainFrame'
          \cup FinalizeFrame' \cup DstFrame'
    BY Zenon DEF Frame, PlainFrame, CodeFrame, PushFrame, DeliverFrame, UnpipeFrame, PumpFrame,
         EndedFrame, NextFrame, WriteFrame, DrainFrame, FinalizeFrame, DstFrame, PipeTo, Events
  <1>7. Frame \subseteq Frame'
    BY <1>4, <1>5, <1>6, FrameIs, Zenon
  <1> HIDE DEF Richer
  <1> QED
    BY <1>3, <1>7

\* What is pushed on the stack, by every form of it the actions have.
Guests(more) == \A j \in 1 .. Len(more) : more[j].at # "host"
Moved(n, more) == Stacked' /\ Grew(stack, stack', n, more) /\ n >= 1

LEMMA StackStep ==
  ASSUME Typed, Richer, NEW n \in Nat, n >= 1, NEW more, Guests(more),
         stack' \in Seq(Frame'), Grew(stack, stack', n, more)
  PROVE  Moved(n, more)
  <1>1. Len(stack) \in Nat /\ \A i \in 1 .. Len(stack) : stack[i].at = "host" <=> i = 1
    BY DEF Typed, Stacked
  <1>2. ASSUME NEW i \in 1 .. Len(stack') PROVE stack'[i].at = "host" <=> i = 1
    <2>1. CASE i <= n
      <3>1. i \in 1 .. n /\ i \in 1 .. Len(stack)
        BY <1>1, <2>1 DEF Grew
      <3> QED
        BY <1>1, <3>1 DEF Grew
    <2>2. CASE i > n
      <3>1. PICK j \in 1 .. Len(more) : i = n + j
        <4>1. i - n \in 1 .. Len(more) /\ i = n + (i - n)
          BY <2>2 DEF Grew
        <4> QED
          BY <4>1
      <3>2. stack'[i] = more[j]
        BY <3>1 DEF Grew
      <3> QED
        BY <2>2, <3>1, <3>2 DEF Guests
    <2> QED
      BY <2>1, <2>2
  <1>3. Len(stack') >= 1
    BY <1>1 DEF Grew
  <1> QED
    BY <1>2, <1>3 DEF Moved, Stacked

LEMMA StackForms ==
  ASSUME Typed, Richer, NEW f \in Frame', f.at # "host", NEW more \in Seq(Frame'), Guests(more)
  PROVE  /\ stack' = stack => Moved(Len(stack), <<>>)
         /\ stack' = Append(stack, f) => Moved(Len(stack), <<f>>)
         /\ stack' = stack \o more => Moved(Len(stack), more)
         /\ Top.at # "host" =>
              /\ stack' = Return => Moved(Len(stack) - 1, <<>>)
              /\ stack' = Return \o more => Moved(Len(stack) - 1, more)
              /\ stack' = With(f) => Moved(Len(stack) - 1, <<f>>)
              /\ stack' = With(f) \o more => Moved(Len(stack) - 1, <<f>> \o more)
  <1>1. PICK S : S = Frame'
    OBVIOUS
  <1>2. stack \in Seq(S) /\ f \in S /\ more \in Seq(S) /\ Len(stack) \in Nat /\ Len(stack) >= 1
    BY <1>1, Enriched, TopIs
  <1>3. /\ Grew(stack, stack, Len(stack), <<>>)
        /\ stack \o more \in Seq(S) /\ Grew(stack, stack \o more, Len(stack), more)
        /\ Append(stack, f) \in Seq(S) /\ Grew(stack, Append(stack, f), Len(stack), <<f>>)
        /\ Front(stack) \in Seq(S) /\ Grew(stack, Front(stack), Len(stack) - 1, <<>>)
        /\ Front(stack) \o more \in Seq(S) /\ Grew(stack, Front(stack) \o more, Len(stack) - 1, more)
        /\ Append(Front(stack), f) \in Seq(S)
        /\ Grew(stack, Append(Front(stack), f), Len(stack) - 1, <<f>>)
        /\ Append(Front(stack), f) \o more \in Seq(S)
        /\ Grew(stack, Append(Front(stack), f) \o more, Len(stack) - 1, <<f>> \o more)
    BY <1>2, Forms, Zenon
  <1>4. Guests(<<>>) /\ Guests(<<f>>) /\ Guests(<<f>> \o more)
    <2>1. Guests(<<>>) /\ Guests(<<f>>)
      BY DEF Guests
    <2>2. <<f>> \in Seq(S)
      BY <1>2
    <2>3. PICK o \in Seq(S) : o = <<f>> /\ Len(o) = 1 /\ o[1] = f
      BY <1>2, <2>2
    <2>4. PICK m : m = o \o more
      OBVIOUS
    <2>5. Grew(o, m, Len(o), more)
      BY <1>2, <2>4, Joined, Zenon
    <2>6. Len(m) = 1 + Len(more) /\ Len(more) \in Nat /\ m[1] = f /\ \A j \in 1 .. Len(more) : m[1 + j] = more[j]
      BY <2>3, <2>5 DEF Grew
    <2>7. ASSUME NEW j \in 1 .. Len(m) PROVE m[j].at # "host"
      <3>1. j = 1 \/ \E k \in 1 .. Len(more) : j = 1 + k
        <4>1. j = 1 \/ (j - 1 \in 1 .. Len(more) /\ j = 1 + (j - 1))
          BY <2>6
        <4> QED
          BY <4>1
      <3> QED
        BY <2>6, <3>1 DEF Guests
    <2> QED
      BY <2>1, <2>3, <2>4, <2>7 DEF Guests
  <1>5. PICK n \in Nat : n = Len(stack)
    BY <1>2
  <1>6. Top.at # "host" => n - 1 \in Nat /\ n - 1 >= 1
    BY <1>5, TopIs
  <1>7. ASSUME NEW k \in Nat, k >= 1, NEW o, Guests(o), stack' \in Seq(S), Grew(stack, stack', k, o)
        PROVE  Moved(k, o)
    BY <1>1, <1>7, StackStep
  <1>8. stack' = stack => Moved(n, <<>>)
    BY <1>2, <1>3, <1>4, <1>5, <1>7
  <1>9. stack' = Append(stack, f) => Moved(n, <<f>>)
    BY <1>2, <1>3, <1>4, <1>5, <1>7
  <1>10. stack' = stack \o more => Moved(n, more)
    BY <1>2, <1>3, <1>5, <1>7
  <1>11. ASSUME Top.at # "host"
         PROVE  /\ stack' = Return => Moved(n - 1, <<>>)
                /\ stack' = Return \o more => Moved(n - 1, more)
                /\ stack' = With(f) => Moved(n - 1, <<f>>)
                /\ stack' = With(f) \o more => Moved(n - 1, <<f>> \o more)
    <2>1. PICK k \in Nat : k = n - 1 /\ k >= 1
      BY <1>6, <1>11
    <2>2. stack' = Return => Moved(k, <<>>)
      BY <1>3, <1>4, <1>5, <1>7, <2>1 DEF Return
    <2>3. stack' = Return \o more => Moved(k, more)
      BY <1>3, <1>5, <1>7, <2>1 DEF Return
    <2>4. stack' = With(f) => Moved(k, <<f>>)
      BY <1>3, <1>4, <1>5, <1>7, <2>1 DEF With
    <2>5. stack' = With(f) \o more => Moved(k, <<f>> \o more)
      BY <1>3, <1>4, <1>5, <1>7, <2>1 DEF With
    <2> QED
      BY <2>1, <2>2, <2>3, <2>4, <2>5
  <1> QED
    BY <1>5, <1>8, <1>9, <1>10, <1>11

\* The frames of some kinds are the same, at the same places.
Same(s, t, K) == Where(t, K) = Where(s, K) /\ \A i \in Where(s, K) : t[i] = s[i]
\* A step leaves all frames alone but those of the kinds A.
Spares(A) == \A K : K \cap A = {} => Same(stack, stack', K)
Sorts(more) == {Kind(more[j]) : j \in 1 .. Len(more)}

LEMMA WhereGrew ==
  ASSUME NEW s, NEW t, NEW n, NEW more, Len(s) \in Nat, Grew(s, t, n, more), NEW K
  PROVE  Where(t, K) = {i \in Where(s, K) : i <= n} \cup {n + j : j \in Where(more, K)}
  <1>1. n \in Nat /\ n <= Len(s) /\ Len(more) \in Nat /\ Len(t) = n + Len(more)
    BY DEF Grew
  <1>2. ASSUME NEW i \in 1 .. n
        PROVE  i \in Where(t, K) <=> i \in Where(s, K)
    <2>1. i \in 1 .. Len(t) /\ i \in 1 .. Len(s) /\ t[i] = s[i]
      BY <1>1 DEF Grew
    <2> QED
      BY <2>1, Zenon DEF Where
  <1>3. ASSUME NEW j \in 1 .. Len(more)
        PROVE  n + j \in Where(t, K) <=> j \in Where(more, K)
    <2>1. n + j \in 1 .. Len(t) /\ t[n + j] = more[j]
      BY <1>1 DEF Grew
    <2> QED
      BY <2>1, Zenon DEF Where
  <1>4. ASSUME NEW i \in Where(t, K)
        PROVE  i \in {k \in Where(s, K) : k <= n} \cup {n + j : j \in Where(more, K)}
    <2>1. i \in 1 .. Len(t)
      BY DEF Where
    <2>2. CASE i <= n
      BY <1>1, <1>2, <2>1, <2>2
    <2>3. CASE i > n
      <3>1. i - n \in 1 .. Len(more) /\ n + (i - n) = i
        BY <1>1, <2>1, <2>3
      <3> QED
        BY <1>3, <3>1
    <2> QED
      BY <1>1, <2>1, <2>2, <2>3
  <1>5. ASSUME NEW i \in Where(s, K), i <= n PROVE i \in Where(t, K)
    <2>1. i \in 1 .. n
      BY <1>1, <1>5 DEF Where
    <2> QED
      BY <1>2, <2>1
  <1>6. ASSUME NEW j \in Where(more, K) PROVE n + j \in Where(t, K)
    <2>1. j \in 1 .. Len(more)
      BY DEF Where
    <2> QED
      BY <1>3, <2>1
  <1> QED
    BY <1>4, <1>5, <1>6

LEMMA SparesBy ==
  ASSUME Typed, NEW n, NEW more, Grew(stack, stack', n, more), NEW A, Sorts(more) \subseteq A,
         \A i \in n + 1 .. Len(stack) : Kind(stack[i]) \in A
  PROVE  Spares(A)
  <1>1. SUFFICES ASSUME NEW K, K \cap A = {} PROVE Same(stack, stack', K)
    BY DEF Spares
  <1>2. Len(stack) \in Nat
    BY TopIs
  <1>3. n \in Nat /\ n <= Len(stack)
    BY <1>2 DEF Grew
  <1>4. Where(stack', K) = {i \in Where(stack, K) : i <= n} \cup {n + j : j \in Where(more, K)}
    BY <1>2, WhereGrew
  <1>5. Where(more, K) = {}
    BY <1>1, Zenon DEF Where, Sorts
  <1>6. ASSUME NEW i \in Where(stack, K) PROVE i \in 1 .. n
    <2>1. i \in 1 .. Len(stack) /\ Kind(stack[i]) \notin A
      BY <1>1, Zenon DEF Where
    <2> QED
      BY <1>2, <1>3, <2>1
  <1>7. \A i \in Where(stack, K) : stack'[i] = stack[i]
    BY <1>6 DEF Grew
  <1>8. \A i \in Where(stack, K) : i <= n
    BY <1>3, <1>6
  <1> QED
    BY <1>4, <1>5, <1>7, <1>8 DEF Same

\* The kinds of short sequences.
LEMMA SortsOf ==
  ASSUME NEW S, NEW f \in S, NEW more \in Seq(S)
  PROVE  /\ Sorts(<<>>) = {} /\ Sorts(<<f>>) = {Kind(f)}
         /\ Sorts(<<f>> \o more) \subseteq {Kind(f)} \cup Sorts(more)
  <1>1. Sorts(<<>>) = {} /\ Sorts(<<f>>) = {Kind(f)}
    BY DEF Sorts
  <1>2. <<f>> \in Seq(S)
    OBVIOUS
  <1>3. PICK o \in Seq(S) : o = <<f>> /\ Len(o) = 1 /\ o[1] = f
    BY <1>2
  <1>4. PICK m : m = o \o more
    OBVIOUS
  <1>5. Grew(o, m, Len(o), more)
    BY <1>4, Joined, Zenon
  <1>6. Len(m) = 1 + Len(more) /\ Len(more) \in Nat /\ m[1] = f /\ \A j \in 1 .. Len(more) : m[1 + j] = more[j]
    BY <1>3, <1>5 DEF Grew
  <1>7. ASSUME NEW j \in 1 .. Len(m) PROVE Kind(m[j]) \in {Kind(f)} \cup Sorts(more)
    <2>1. CASE j = 1
      BY <1>6, <2>1
    <2>2. CASE j # 1
      <3>1. j - 1 \in 1 .. Len(more) /\ j = 1 + (j - 1)
        BY <1>6, <2>2
      <3>2. m[j] = more[j - 1]
        BY <1>6, <3>1
      <3> QED
        BY <3>1, <3>2, Zenon DEF Sorts
    <2> QED
      BY <2>1, <2>2
  <1> QED
    BY <1>1, <1>3, <1>4, <1>7, Zenon DEF Sorts

\* What is pushed, and which kinds of frames that leaves alone.
Turned(n, more, A) == Moved(n, more) /\ Spares(A)

LEMMA Turns ==
  ASSUME Typed, Richer, NEW f \in Frame', f.at # "host", NEW more \in Seq(Frame'), Guests(more)
  PROVE  /\ stack' = stack => Turned(Len(stack), <<>>, {})
         /\ stack' = Append(stack, f) => Turned(Len(stack), <<f>>, {Kind(f)})
         /\ stack' = stack \o more => Turned(Len(stack), more, Sorts(more))
         /\ Top.at # "host" =>
              /\ stack' = Return => Turned(Len(stack) - 1, <<>>, {Kind(Top)})
              /\ stack' = Return \o more =>
                   Turned(Len(stack) - 1, more, {Kind(Top)} \cup Sorts(more))
              /\ stack' = With(f) => Turned(Len(stack) - 1, <<f>>, {Kind(Top), Kind(f)})
              /\ stack' = With(f) \o more =>
                   Turned(Len(stack) - 1, <<f>> \o more, {Kind(Top), Kind(f)} \cup Sorts(more))
  <1>1. PICK S : S = Frame'
    OBVIOUS
  <1>2. f \in S /\ more \in Seq(S)
    BY <1>1
  <1>3. /\ Sorts(<<>>) = {} /\ Sorts(<<f>>) = {Kind(f)}
        /\ Sorts(<<f>> \o more) \subseteq {Kind(f)} \cup Sorts(more)
    BY <1>2, SortsOf, Zenon
  <1>4. PICK n \in Nat : n = Len(stack) /\ n >= 1 /\ Top = stack[n]
    BY TopIs
  <1>5. \A i \in n + 1 .. n : FALSE
    BY <1>4
  <1>6. \A i \in (n - 1) + 1 .. n : i = n
    BY <1>4
  <1>7. ASSUME NEW o, Moved(n, o), NEW A, Sorts(o) \subseteq A PROVE Turned(n, o, A)
    <2>1. Grew(stack, stack', n, o)
      BY <1>7 DEF Moved
    <2>2. \A i \in n + 1 .. Len(stack) : Kind(stack[i]) \in A
      BY <1>4, <1>5
    <2>3. Spares(A)
      BY <1>7, <2>1, <2>2, SparesBy
    <2> QED
      BY <1>7, <2>3 DEF Turned
  <1>8. ASSUME NEW o, Moved(n - 1, o), NEW A, Sorts(o) \subseteq A, Kind(Top) \in A
        PROVE  Turned(n - 1, o, A)
    <2>1. Grew(stack, stack', n - 1, o)
      BY <1>8 DEF Moved
    <2>2. \A i \in (n - 1) + 1 .. Len(stack) : Kind(stack[i]) \in A
      BY <1>4, <1>6, <1>8
    <2>3. Spares(A)
      BY <1>8, <2>1, <2>2, SparesBy
    <2> QED
      BY <1>8, <2>3 DEF Turned
  <1>9. /\ stack' = stack => Moved(n, <<>>)
        /\ stack' = Append(stack, f) => Moved(n, <<f>>)
        /\ stack' = stack \o more => Moved(n, more)
        /\ Top.at # "host" =>
             /\ stack' = Return => Moved(n - 1, <<>>)
             /\ stack' = Return \o more => Moved(n - 1, more)
             /\ stack' = With(f) => Moved(n - 1, <<f>>)
             /\ stack' = With(f) \o more => Moved(n - 1, <<f>> \o more)
    BY <1>4, StackForms
  <1>10. /\ stack' = stack => Turned(n, <<>>, {})
         /\ stack' = Append(stack, f) => Turned(n, <<f>>, {Kind(f)})
         /\ stack' = stack \o more => Turned(n, more, Sorts(more))
    BY <1>3, <1>7, <1>9, Zenon
  <1>11. ASSUME Top.at # "host"
         PROVE  /\ stack' = Return => Turned(n - 1, <<>>, {Kind(Top)})
                /\ stack' = Return \o more => Turned(n - 1, more, {Kind(Top)} \cup Sorts(more))
                /\ stack' = With(f) => Turned(n - 1, <<f>>, {Kind(Top), Kind(f)})
                /\ stack' = With(f) \o more =>
                     Turned(n - 1, <<f>> \o more, {Kind(Top), Kind(f)} \cup Sorts(more))
    <2>1. Sorts(<<>>) \subseteq {Kind(Top)} /\ Kind(Top) \in {Kind(Top)}
      BY <1>3
    <2>2. Sorts(more) \subseteq {Kind(Top)} \cup Sorts(more) /\ Kind(Top) \in {Kind(Top)} \cup Sorts(more)
      OBVIOUS
    <2>3. Sorts(<<f>>) \subseteq {Kind(Top), Kind(f)} /\ Kind(Top) \in {Kind(Top), Kind(f)}
      BY <1>3
    <2>4. /\ Sorts(<<f>> \o more) \subseteq {Kind(Top), Kind(f)} \cup Sorts(more)
          /\ Kind(Top) \in {Kind(Top), Kind(f)} \cup Sorts(more)
      BY <1>3
    <2> QED
      BY <1>8, <1>9, <1>11, <2>1, <2>2, <2>3, <2>4, Zenon
  <1> QED
    BY <1>4, <1>10, <1>11

\* A step that spares more.
LEMMA SparesMore ==
  ASSUME NEW A, NEW B, Spares(A), A \subseteq B
  PROVE  Spares(B)
  BY Zenon DEF Spares

\* What the calls of listeners and hooks are.
LEMMA CallsAre ==
  ASSUME NEW e \in Events \ {"write", "final"}
  PROVE  /\ Calls(e) \in Seq(Frame') /\ Guests(Calls(e)) /\ Sorts(Calls(e)) \subseteq {"code"}
         /\ Code(e) \in Frame' /\ Kind(Code(e)) = "code" /\ Code(e).at = "code"
         /\ Calls(e) = <<>> \/ Calls(e) = <<Code(e)>>
  <1>1. Code(e) = [at |-> "code", from |-> e, owes |-> FALSE]
    <2>1. (e \in {"write", "final"}) = FALSE
      OBVIOUS
    <2> QED
      BY <2>1, Zenon DEF Code
  <1>2. Code(e) \in CodeFrame'
    BY <1>1 DEF CodeFrame, Events
  <1>3. Code(e) \in Frame'
    BY <1>2, Zenon DEF Frame, CodeFrame, Events
  <1>4. Kind(Code(e)) = "code" /\ Code(e).at = "code"
    BY <1>1 DEF Kind
  <1>5. PICK f \in Frame' : f = Code(e)
    BY <1>3
  <1>6. Calls(e) = <<>> \/ Calls(e) = <<f>>
    BY <1>5 DEF Calls
  <1>7. <<>> \in Seq(Frame') /\ <<f>> \in Seq(Frame') /\ Guests(<<>>) /\ Guests(<<f>>)
    BY <1>4, <1>5 DEF Guests
  <1>8. Sorts(<<>>) = {} /\ Sorts(<<f>>) = {Kind(f)}
    BY DEF Sorts
  <1> QED
    BY <1>3, <1>4, <1>5, <1>6, <1>7, <1>8

-----------------------------------------------------------------------------
(***************************************************************************)
(* Every action keeps the types, and what it does to the stack.            *)
(***************************************************************************)
LEMMA Widened ==
  ASSUME Typed, Richer
  PROVE  /\ readable \in Reading' /\ writable \in [Dsts -> Writing']
         /\ accepted \subseteq 1 .. made' /\ got \in Seq(1 .. made')
         /\ \A c \in Chunk : c \in Chunk'
  <1>1. Chunk \subseteq Chunk' /\ Seq(Chunk) \subseteq Seq(Chunk')
    BY Enriched
  <1>2. made \in Nat /\ Len(given) \in Nat /\ accepted \subseteq 1 .. made /\ got \in Seq(1 .. made)
    BY DEF Typed, Noted
  <1>3. 1 .. made \subseteq 1 .. made' /\ 0 .. Len(given) \subseteq 0 .. Len(given')
    BY <1>2 DEF Richer
  <1>4. Reading \subseteq Reading' /\ Writing \subseteq Writing'
    BY <1>1, <1>3, Zenon DEF Reading, Writing, PipeTo
  <1>5. got \in Seq(1 .. made')
    <2>1. PICK S, T : S = 1 .. made /\ T = 1 .. made'
      OBVIOUS
    <2>2. S \subseteq T /\ got \in Seq(S)
      BY <1>2, <1>3, <2>1
    <2>3. got \in Seq(T)
      BY <2>2
    <2> QED
      BY <2>1, <2>3
  <1>6. readable \in Reading /\ writable \in [Dsts -> Writing]
    BY DEF Typed
  <1>7. writable \in [Dsts -> Writing']
    BY <1>4, <1>6
  <1> QED
    BY <1>1, <1>2, <1>3, <1>4, <1>5, <1>6, <1>7

LEMMA ReaderTypes ==
  ASSUME Typed, Richer, Stacked', UNCHANGED <<writable, pending, held, offered, arrived>>,
         readable' \in Reading', ending' \in BOOLEAN, accepted' \subseteq 1 .. made',
         got' \in Seq(1 .. made'), given' \in Seq({"asked", "pending", "chunk", "done"}),
         unfed' \subseteq Dsts
  PROVE  Typed'
  <1>1. writable' \in [Dsts -> Writing']
    BY Widened
  <1> QED
    BY <1>1 DEF Typed, Noted, Richer, Entry

LEMMA WriterTypes ==
  ASSUME Typed, Richer, Stacked', UNCHANGED <<readable, ending, accepted, got, given>>,
         writable' \in [Dsts -> Writing'], pending' \in Seq(Entry), held' \in Nat,
         offered' \in [Dsts -> Seq(Nat)], arrived' \in [Dsts -> Seq(Nat)], unfed' \subseteq Dsts
  PROVE  Typed'
  <1>1. /\ readable' \in Reading' /\ accepted' \subseteq 1 .. made' /\ got' \in Seq(1 .. made')
    BY Widened
  <1> QED
    BY <1>1 DEF Typed, Noted, Richer, Entry

\* Nothing is made.
LEMMA AsRich ==
  ASSUME Typed, UNCHANGED <<made, given>>
  PROVE  Richer /\ Frame' = Frame /\ Chunk' = Chunk
  <1>1. Richer
    BY DEF Richer, Typed, Noted
  <1>2. Chunk' = Chunk
    BY Zenon DEF Chunk
  <1>3. Frame' = Frame
    BY <1>2, Zenon DEF Frame, Chunk
  <1> QED
    BY <1>1, <1>2, <1>3

\* The frames that actions push, and their kinds.
LEMMA PlainFrames ==
  /\ DrainAll \in Frame' /\ DrainAll.at = "drainAll" /\ Kind(DrainAll) = "drainAll"
  /\ Resume \in Frame' /\ Resume.at = "resume" /\ Kind(Resume) = "resume"
  /\ Pump \in Frame' /\ Pump.at = "pump" /\ Kind(Pump) = "pump"
  /\ \A d \in Dsts : /\ End(d) \in Frame' /\ End(d).at = "end" /\ Kind(End(d)) = "end"
                     /\ MaybeFinish(d) \in Frame' /\ MaybeFinish(d).at = "maybeFinish"
                     /\ Kind(MaybeFinish(d)) = "maybeFinish"
  /\ \A d \in Dsts, ok \in BOOLEAN :
       /\ DrainQueue(d, ok) \in Frame' /\ DrainQueue(d, ok).at = "drainQueue"
       /\ Kind(DrainQueue(d, ok)) = "drainQueue"
  /\ \A d \in Dsts : LET f == [at |-> "finish", dst |-> d] IN
       f \in Frame' /\ f.at = "finish" /\ Kind(f) = "finish"
  /\ \A e \in {"entry", "turn"} : Code(e) \in Frame' /\ Code(e).at = "code" /\ Kind(Code(e)) = "code"
  /\ \A e \in {"write", "final"} : Code(e) \in Frame' /\ Code(e).at = "code" /\ Kind(Code(e)) = "owing"
  <1>1. DrainAll \in PlainFrame' /\ Resume \in PlainFrame' /\ Pump \in PumpFrame'
    BY DEF DrainAll, Resume, Pump, PlainFrame, PumpFrame
  <1>2. ASSUME NEW d \in Dsts
        PROVE  End(d) \in DstFrame' /\ MaybeFinish(d) \in DstFrame' /\ [at |-> "finish", dst |-> d] \in DstFrame'
    BY DEF End, MaybeFinish, DstFrame
  <1>3. ASSUME NEW d \in Dsts, NEW ok \in BOOLEAN PROVE DrainQueue(d, ok) \in DrainFrame'
    BY DEF DrainQueue, DrainFrame
  <1>4. ASSUME NEW e \in {"entry", "turn"} PROVE Code(e) = [at |-> "code", from |-> e, owes |-> FALSE]
    <2>1. (e \in {"write", "final"}) = FALSE
      OBVIOUS
    <2> QED
      BY <2>1, Zenon DEF Code
  <1>5. ASSUME NEW e \in {"write", "final"} PROVE Code(e) = [at |-> "code", from |-> e, owes |-> TRUE]
    <2>1. (e \in {"write", "final"}) = TRUE
      OBVIOUS
    <2> QED
      BY <2>1, Zenon DEF Code
  <1>6. ASSUME NEW e \in {"entry", "turn"} PROVE Code(e) \in CodeFrame' /\ Code(e).at = "code" /\ Kind(Code(e)) = "code"
    <2>0. Code(e) = [at |-> "code", from |-> e, owes |-> FALSE]
      BY <1>4, Zenon
    <2>1. Code(e) \in CodeFrame'
      BY <2>0 DEF CodeFrame, Events
    <2>2. Code(e).at = "code" /\ Code(e).owes = FALSE
      BY <1>4
    <2>3. Kind(Code(e)) = "code"
      BY <2>2, Zenon DEF Kind
    <2> QED
      BY <2>1, <2>2, <2>3
  <1>7. ASSUME NEW e \in {"write", "final"} PROVE Code(e) \in CodeFrame' /\ Code(e).at = "code" /\ Kind(Code(e)) = "owing"
    <2>0. Code(e) = [at |-> "code", from |-> e, owes |-> TRUE]
      BY <1>5, Zenon
    <2>1. Code(e) \in CodeFrame'
      BY <2>0 DEF CodeFrame, Events
    <2>2. Code(e).at = "code" /\ Code(e).owes = TRUE
      BY <1>5
    <2>3. Kind(Code(e)) = "owing"
      BY <2>2, Zenon DEF Kind
    <2> QED
      BY <2>1, <2>2, <2>3
  <1>8. PlainFrame' \cup PumpFrame' \cup DstFrame' \cup DrainFrame' \cup CodeFrame' \subseteq Frame'
    BY Zenon DEF Frame, PlainFrame, PumpFrame, DstFrame, DrainFrame, CodeFrame, Events
  <1>9. /\ DrainAll.at = "drainAll" /\ Kind(DrainAll) = "drainAll"
        /\ Resume.at = "resume" /\ Kind(Resume) = "resume"
        /\ Pump.at = "pump" /\ Kind(Pump) = "pump"
    BY DEF DrainAll, Resume, Pump, Kind
  <1>10. ASSUME NEW d \in Dsts
         PROVE  /\ End(d).at = "end" /\ Kind(End(d)) = "end"
                /\ MaybeFinish(d).at = "maybeFinish" /\ Kind(MaybeFinish(d)) = "maybeFinish"
                /\ Kind([at |-> "finish", dst |-> d]) = "finish"
    BY DEF End, MaybeFinish, Kind
  <1>11. ASSUME NEW d \in Dsts, NEW ok \in BOOLEAN
         PROVE DrainQueue(d, ok).at = "drainQueue" /\ Kind(DrainQueue(d, ok)) = "drainQueue"
    BY DEF DrainQueue, Kind
  <1>12. DrainAll \in Frame' /\ Resume \in Frame' /\ Pump \in Frame'
    BY <1>1, <1>8, Zenon
  <1>13. \A d \in Dsts : /\ End(d) \in Frame' /\ MaybeFinish(d) \in Frame'
                         /\ [at |-> "finish", dst |-> d] \in Frame'
    BY <1>2, <1>8, Zenon
  <1>14. \A d \in Dsts, ok \in BOOLEAN : DrainQueue(d, ok) \in Frame'
    BY <1>3, <1>8, Zenon
  <1>15. \A e \in {"entry", "turn"} : Code(e) \in Frame' /\ Code(e).at = "code" /\ Kind(Code(e)) = "code"
    BY <1>6, <1>8, Zenon
  <1>16. \A e \in {"write", "final"} : Code(e) \in Frame' /\ Code(e).at = "code" /\ Kind(Code(e)) = "owing"
    BY <1>7, <1>8, Zenon
  <1>17. \A d \in Dsts : LET f == [at |-> "finish", dst |-> d] IN
           f \in Frame' /\ f.at = "finish" /\ Kind(f) = "finish"
    BY <1>10, <1>13
  <1>18. \A d \in Dsts : /\ End(d) \in Frame' /\ End(d).at = "end" /\ Kind(End(d)) = "end"
                         /\ MaybeFinish(d) \in Frame' /\ MaybeFinish(d).at = "maybeFinish"
                         /\ Kind(MaybeFinish(d)) = "maybeFinish"
    BY <1>10, <1>13, Zenon
  <1>19. \A d \in Dsts, ok \in BOOLEAN :
           /\ DrainQueue(d, ok) \in Frame' /\ DrainQueue(d, ok).at = "drainQueue"
           /\ Kind(DrainQueue(d, ok)) = "drainQueue"
    BY <1>11, <1>14, Zenon
  <1> HIDE DEF DrainAll, Resume, Pump
  <1> QED
    BY <1>9, <1>12, <1>15, <1>16, <1>17, <1>18, <1>19

\* What the top of the stack is.
LEMMA TopKind ==
  ASSUME Typed
  PROVE  /\ Top.at \notin {"code", "deliver"} => Kind(Top) = Top.at
         /\ Top.at = "code" => Top.owes \in BOOLEAN /\ Kind(Top) = IF Top.owes THEN "owing" ELSE "code"
         /\ Top.at = "deliver" => Kind(Top) = IF Top.stage = "data" THEN "data" ELSE "deliver"
  <1>1. Top.at = "code" => Top.owes \in BOOLEAN
    BY TopIs, KindOf DEF CodeFrame
  <1> QED
    BY <1>1 DEF Kind

\* The forms one at a time.
LEMMA Stays ==
  ASSUME Typed, Richer, stack' = stack
  PROVE  Turned(Len(stack), <<>>, {})
  <1>1. <<>> \in Seq(Frame') /\ Guests(<<>>)
    BY DEF Guests
  <1> QED
    BY <1>1, PlainFrames, Turns

LEMMA Pushes ==
  ASSUME Typed, Richer, NEW f \in Frame', f.at # "host", stack' = Append(stack, f)
  PROVE  Turned(Len(stack), <<f>>, {Kind(f)})
  <1>1. <<>> \in Seq(Frame') /\ Guests(<<>>)
    BY DEF Guests
  <1> QED
    BY <1>1, Turns

LEMMA Adds ==
  ASSUME Typed, Richer, NEW more \in Seq(Frame'), Guests(more), stack' = stack \o more
  PROVE  Turned(Len(stack), more, Sorts(more))
  BY PlainFrames, Turns

LEMMA Returns ==
  ASSUME Typed, Richer, Top.at # "host", stack' = Return
  PROVE  Turned(Len(stack) - 1, <<>>, {Kind(Top)})
  <1>1. <<>> \in Seq(Frame') /\ Guests(<<>>)
    BY DEF Guests
  <1> QED
    BY <1>1, PlainFrames, Turns

LEMMA ReturnsTo ==
  ASSUME Typed, Richer, Top.at # "host", NEW more \in Seq(Frame'), Guests(more),
         stack' = Return \o more
  PROVE  Turned(Len(stack) - 1, more, {Kind(Top)} \cup Sorts(more))
  BY PlainFrames, Turns

LEMMA Turns1 ==
  ASSUME Typed, Richer, Top.at # "host", NEW f \in Frame', f.at # "host", stack' = With(f)
  PROVE  Turned(Len(stack) - 1, <<f>>, {Kind(Top), Kind(f)})
  <1>1. <<>> \in Seq(Frame') /\ Guests(<<>>)
    BY DEF Guests
  <1> QED
    BY <1>1, Turns

LEMMA TurnsAnd ==
  ASSUME Typed, Richer, Top.at # "host", NEW f \in Frame', f.at # "host",
         NEW more \in Seq(Frame'), Guests(more), stack' = With(f) \o more
  PROVE  Turned(Len(stack) - 1, <<f>> \o more, {Kind(Top), Kind(f)} \cup Sorts(more))
  BY Turns

\* Two frames pushed at once, and a frame with its calls.
LEMMA Two ==
  ASSUME NEW S, NEW f \in S, NEW g \in S, f.at # "host", g.at # "host"
  PROVE  <<f, g>> \in Seq(S) /\ Guests(<<f, g>>) /\ Sorts(<<f, g>>) = {Kind(f), Kind(g)}
  <1>1. <<f, g>> \in Seq(S) /\ Len(<<f, g>>) = 2 /\ <<f, g>>[1] = f /\ <<f, g>>[2] = g
    OBVIOUS
  <1>2. 1 .. 2 = {1, 2}
    OBVIOUS
  <1> QED
    BY <1>1, <1>2 DEF Guests, Sorts

LEMMA FrameAndMore ==
  ASSUME NEW S, NEW f \in S, f.at # "host", NEW more \in Seq(S), Guests(more)
  PROVE  /\ <<f>> \o more \in Seq(S) /\ Guests(<<f>> \o more)
         /\ Sorts(<<f>> \o more) \subseteq {Kind(f)} \cup Sorts(more)
         /\ Len(<<f>> \o more) = 1 + Len(more) /\ (<<f>> \o more)[1] = f
         /\ \A j \in 1 .. Len(more) : (<<f>> \o more)[1 + j] = more[j]
  <1>1. <<f>> \in Seq(S)
    OBVIOUS
  <1>2. PICK o \in Seq(S) : o = <<f>> /\ Len(o) = 1 /\ o[1] = f
    BY <1>1
  <1>3. PICK m \in Seq(S) : m = o \o more /\ Grew(o, m, Len(o), more)
    BY Joined
  <1>4. Len(m) = 1 + Len(more) /\ Len(more) \in Nat /\ m[1] = f /\ \A j \in 1 .. Len(more) : m[1 + j] = more[j]
    BY <1>2, <1>3 DEF Grew
  <1>5. ASSUME NEW j \in 1 .. Len(m) PROVE m[j].at # "host"
    <2>1. j = 1 \/ (j - 1 \in 1 .. Len(more) /\ j = 1 + (j - 1))
      BY <1>4
    <2> QED
      BY <1>4, <2>1 DEF Guests
  <1>6. Sorts(<<f>> \o more) \subseteq {Kind(f)} \cup Sorts(more)
    BY SortsOf, Zenon
  <1> QED
    BY <1>2, <1>3, <1>4, <1>5, <1>6 DEF Guests

\* Taking the first chunk out of the buffer.
LEMMA ShiftedTyped ==
  ASSUME NEW r, r \in Reading', r.buf # <<>>
  PROVE  /\ Shifted(r) \in Reading'
         /\ Head(r.buf) \in Chunk' /\ Head(r.buf).id \in 1 .. made' /\ Head(r.buf).size \in Nat
  <1>1. r.buf \in Seq(Chunk') /\ r.length \in Nat
    BY DEF Reading
  <1>2. Head(r.buf) \in Chunk' /\ Tail(r.buf) \in Seq(Chunk')
    BY <1>1
  <1>3. Head(r.buf).id \in 1 .. made' /\ Head(r.buf).size \in Nat
    BY <1>2, SizesAssumption DEF Chunk
  <1>4. PICK n \in Nat : n = IF r.length > Head(r.buf).size THEN r.length - Head(r.buf).size ELSE 0
    BY <1>1, <1>3
  <1>5. Shifted(r) = [r EXCEPT !.buf = Tail(r.buf), !.length = n]
    BY <1>4, Zenon DEF Shifted
  <1>6. PICK b \in Seq(Chunk') : b = Tail(r.buf)
    BY <1>2
  <1>7. [r EXCEPT !.buf = b, !.length = n] \in Reading'
    BY <1>4, <1>6 DEF Reading
  <1> QED
    BY <1>2, <1>3, <1>5, <1>6, <1>7

-----------------------------------------------------------------------------
\* The program's calls.
LEMMA ReadTyped ==
  ASSUME Typed, Read
  PROVE  Typed' /\ Turned(Len(stack), <<>>, {})
  <1>1. Richer
    BY AsRich DEF Read
  <1>2. Turned(Len(stack), <<>>, {})
    BY <1>1, Stays DEF Read
  <1>3. /\ readable \in Reading' /\ got \in Seq(1 .. made') /\ accepted \subseteq 1 .. made'
    BY <1>1, Widened
  <1>4. readable' \in Reading' /\ got' \in Seq(1 .. made')
    <2>1. CASE readable.buf = <<>>
      BY <1>3, <2>1 DEF Read, Reading
    <2>2. CASE readable.buf # <<>>
      <3>1. PICK r \in Reading' : r = [readable EXCEPT !.consumed = TRUE]
        BY <1>3 DEF Reading
      <3>2. r.buf = readable.buf
        BY <1>3, <3>1 DEF Reading
      <3>3. Shifted(r) \in Reading' /\ Head(r.buf).id \in 1 .. made'
        BY <2>2, <3>1, <3>2, ShiftedTyped
      <3>4. readable' = Shifted(r) /\ got' = Append(got, Head(readable.buf).id)
        BY <2>2, <3>1 DEF Read
      <3> QED
        BY <1>3, <3>2, <3>3, <3>4
    <2> QED
      BY <2>1, <2>2
  <1>5. ending' \in BOOLEAN
    BY DEF Read, ScheduleEnd, Typed
  <1> QED
    BY <1>1, <1>2, <1>3, <1>4, <1>5, ReaderTypes DEF Read, OnlyReadable, reads, writes, Turned, Moved, Typed, Noted

\* The answers of next().
Answers4 == {"asked", "pending", "chunk", "done"}

LEMMA AnswerTyped ==
  ASSUME Typed, NEW what \in Answers4, NEW i \in 1 .. Len(given), given' = [given EXCEPT ![i] = what]
  PROVE  Len(given') = Len(given) /\ given' \in Seq(Answers4)
  <1>1. given \in Seq(Answers4) /\ Len(given) \in Nat
    BY DEF Typed, Noted, Answers4
  <1> QED
    BY <1>1

\* A parked next() is answered.
LEMMA WaiterAnswered ==
  ASSUME Typed, NEW r, NEW what \in {"chunk", "done"}, Answer(r, what), readable.waiter # 0
  PROVE  /\ Len(given') = Len(given) /\ given' \in Seq(Answers4)
         /\ Len(given) \in Nat /\ readable.waiter \in 1 .. Len(given)
         /\ readable' = [r EXCEPT !.waiter = 0]
  <1>1. readable.waiter \in 0 .. Len(given) /\ Len(given) \in Nat
    BY DEF Typed, Reading, Noted
  <1>2. readable.waiter \in 1 .. Len(given) /\ what \in Answers4
    BY <1>1 DEF Answers4
  <1> QED
    BY <1>1, <1>2, AnswerTyped DEF Answer

LEMMA Regroup ==
  ASSUME Typed, Richer, NEW f \in Frame', NEW more \in Seq(Frame')
  PROVE  stack \o <<f>> \o more = stack \o (<<f>> \o more)
  <1>1. <<f>> \in Seq(Frame') /\ stack \in Seq(Frame')
    BY TopIs, Enriched
  <1>2. PICK S, o : S = Frame' /\ o = <<f>> /\ o \in Seq(S)
    BY <1>1
  <1>3. stack \in Seq(S) /\ more \in Seq(S)
    BY <1>1, <1>2
  <1>4. (stack \o o) \o more = stack \o (o \o more)
    BY <1>2, <1>3, ConcatAssociative
  <1> QED
    BY <1>2, <1>4, Zenon

LEMMA PushTyped ==
  ASSUME Typed, Push
  PROVE  /\ Typed'
         /\ \E size \in Sizes : LET c == NewChunk(size)
                                    f == [at |-> "push", chunk |-> c] IN
              /\ f \in Frame' /\ Kind(f) = "push" /\ c.id = made + 1
              /\ \/ Turned(Len(stack), <<>>, {}) /\ UNCHANGED stack
                 \/ Turned(Len(stack), <<f>> \o <<>>, {"push"}) /\ ~(Flows /\ readable.length > 0)
                 \/ Turned(Len(stack), <<f>> \o <<DrainAll>>, {"push", "drainAll"}) /\ Flows
  <1>1. /\ readable \in Reading /\ made \in Nat /\ given \in Seq({"asked", "pending", "chunk", "done"})
        /\ Len(given) \in Nat
    BY DEF Typed, Noted
  <1>2. readable.waiter \in 0 .. Len(given)
    BY <1>1 DEF Reading
  <1>3. PICK size \in Sizes : LET c == NewChunk(size) IN
        IF readable.ended THEN UNCHANGED <<readable, stack, accepted, got, given>>
        ELSE /\ accepted' = accepted \cup {c.id}
             /\ IF readable.waiter # 0
                THEN Answer(readable, "chunk") /\ got' = Append(got, c.id) /\ UNCHANGED stack
                ELSE /\ stack' = stack \o <<[at |-> "push", chunk |-> c]>> \o
                                 (IF Flows /\ readable.length > 0 THEN <<DrainAll>> ELSE <<>>)
                     /\ UNCHANGED <<readable, got, given>>
    BY Zenon DEF Push
  <1>4. made' = made + 1 /\ UNCHANGED <<writable, pending, held, offered, arrived, unfed, ending>>
    BY DEF Push, OnlyReadable, writes
  <1>5. PICK c : c = NewChunk(size)
    OBVIOUS
  <1>6. c.id = made + 1 /\ c.id \in 1 .. made' /\ c \in Chunk'
    BY <1>1, <1>4, <1>5 DEF NewChunk, Chunk
  <1>7. Len(given') = Len(given) /\ given' \in Seq({"asked", "pending", "chunk", "done"})
    <2>1. UNCHANGED given \/ (readable.waiter # 0 /\ Answer(readable, "chunk"))
      BY <1>3, Zenon
    <2>2. CASE UNCHANGED given
      BY <1>1, <2>2
    <2>3. CASE readable.waiter # 0 /\ Answer(readable, "chunk")
      BY <2>3, WaiterAnswered DEF Answers4
    <2> QED
      BY <2>1, <2>2, <2>3
  <1>8. Richer
    BY <1>1, <1>4, <1>7 DEF Richer
  <1>9. readable \in Reading' /\ got \in Seq(1 .. made') /\ accepted \subseteq 1 .. made'
    BY <1>8, Widened
  <1>10. readable' \in Reading' /\ got' \in Seq(1 .. made') /\ accepted' \subseteq 1 .. made'
    <2>1. [readable EXCEPT !.waiter = 0] \in Reading'
      BY <1>1, <1>7, <1>9, SMTT(60) DEF Reading
    <2>2. readable' \in Reading'
      BY <1>3, <1>9, <2>1 DEF Answer
    <2>3. got' = got \/ got' = Append(got, c.id)
      BY <1>3, <1>5
    <2>4. accepted' = accepted \/ accepted' = accepted \cup {c.id}
      BY <1>3, <1>5
    <2>5. got' \in Seq(1 .. made')
      <3>1. PICK S, x : S = 1 .. made' /\ x \in S /\ x = c.id
        BY <1>6
      <3>2. got \in Seq(S) /\ (got' = got \/ got' = Append(got, x))
        BY <1>9, <2>3, <3>1
      <3>3. got' \in Seq(S)
        <4>1. PICK g : g \in Seq(S) /\ g = got
          BY <3>2
        <4>2. Append(g, x) \in Seq(S)
          BY <3>1, <4>1
        <4> QED
          BY <3>2, <4>1, <4>2, Zenon
      <3> QED
        BY <3>1, <3>3
    <2>6. accepted' \subseteq 1 .. made'
      BY <1>6, <1>9, <2>4, Zenon
    <2> QED
      BY <2>2, <2>5, <2>6
  <1> DEFINE f == [at |-> "push", chunk |-> c]
  <1>11. f \in Frame' /\ f.at = "push" /\ Kind(f) = "push"
    <2>1. f \in PushFrame'
      BY <1>6 DEF PushFrame
    <2>2. PushFrame' \subseteq Frame'
      BY Zenon DEF PushFrame, Frame
    <2>3. f.at = "push"
      OBVIOUS
    <2> QED
      BY <2>1, <2>2, <2>3, Zenon DEF Kind
  <1> HIDE DEF f
  <1>12. \/ UNCHANGED stack
         \/ stack' = stack \o <<f>> \o <<>> /\ ~(Flows /\ readable.length > 0)
         \/ stack' = stack \o <<f>> \o <<DrainAll>> /\ Flows
    BY <1>3, <1>5, Zenon DEF f
  <1>13. \/ Turned(Len(stack), <<>>, {}) /\ UNCHANGED stack
         \/ Turned(Len(stack), <<f>> \o <<>>, {"push"}) /\ ~(Flows /\ readable.length > 0)
         \/ Turned(Len(stack), <<f>> \o <<DrainAll>>, {"push", "drainAll"}) /\ Flows
    <2>1. CASE UNCHANGED stack
      BY <1>8, <2>1, Stays
    <2>2. ASSUME NEW more \in Seq(Frame'), Guests(more), NEW A, Sorts(more) \subseteq A,
                 stack' = stack \o <<f>> \o more
          PROVE  Turned(Len(stack), <<f>> \o more, {"push"} \cup A)
      <3>1. stack \o <<f>> \o more = stack \o (<<f>> \o more)
        BY <1>8, <1>11, <2>2, Regroup
      <3>2. /\ <<f>> \o more \in Seq(Frame') /\ Guests(<<f>> \o more)
            /\ Sorts(<<f>> \o more) \subseteq {Kind(f)} \cup Sorts(more)
        BY <1>11, <2>2, FrameAndMore
      <3>3. Turned(Len(stack), <<f>> \o more, Sorts(<<f>> \o more))
        BY <1>8, <2>2, <3>1, <3>2, Adds
      <3> QED
        BY <1>11, <2>2, <3>2, <3>3, SparesMore DEF Turned
    <2>3. CASE stack' = stack \o <<f>> \o <<>> /\ ~(Flows /\ readable.length > 0)
      <3>1. <<>> \in Seq(Frame') /\ Guests(<<>>) /\ Sorts(<<>>) \subseteq {}
        BY DEF Guests, Sorts
      <3>2. Turned(Len(stack), <<f>> \o <<>>, {"push"} \cup {})
        BY <2>2, <2>3, <3>1
      <3> QED
        BY <2>3, <3>2
    <2>4. CASE stack' = stack \o <<f>> \o <<DrainAll>> /\ Flows
      <3>0. DrainAll \in Frame' /\ DrainAll.at # "host" /\ Kind(DrainAll) = "drainAll"
        BY PlainFrames
      <3>1. <<DrainAll>> \in Seq(Frame') /\ Guests(<<DrainAll>>) /\ Sorts(<<DrainAll>>) \subseteq {"drainAll"}
        BY <3>0 DEF Guests, Sorts
      <3>2. Turned(Len(stack), <<f>> \o <<DrainAll>>, {"push"} \cup {"drainAll"})
        BY <2>2, <2>4, <3>1
      <3>3. {"push"} \cup {"drainAll"} = {"push", "drainAll"}
        OBVIOUS
      <3> QED
        BY <2>4, <3>2, <3>3
    <2> QED
      BY <1>12, <2>1, <2>3, <2>4
  <1>14. Stacked'
    BY <1>13 DEF Turned, Moved
  <1>15. Typed'
    BY <1>4, <1>7, <1>8, <1>10, <1>14, ReaderTypes DEF Typed, Noted
  <1> QED
    BY <1>5, <1>6, <1>11, <1>13, <1>15 DEF f

\* A step that makes nothing and is answered by nothing keeps the types when what it
\* assigns has them.
LEMMA ReaderKeeps ==
  ASSUME Typed, UNCHANGED <<writable, pending, held, offered, arrived, made, accepted, got, given>>,
         Stacked', readable' \in Reading, ending' \in BOOLEAN, unfed' \subseteq Dsts
  PROVE  Typed'
  <1>1. Richer /\ Chunk' = Chunk
    BY AsRich
  <1>2. Reading' = Reading
    BY <1>1, Zenon DEF Reading, PipeTo
  <1> QED
    BY <1>1, <1>2, ReaderTypes DEF Typed, Noted

LEMMA WriterKeeps ==
  ASSUME Typed, UNCHANGED <<readable, ending, made, accepted, got, given>>,
         Stacked', writable' \in [Dsts -> Writing], pending' \in Seq(Entry), held' \in Nat,
         offered' \in [Dsts -> Seq(Nat)], arrived' \in [Dsts -> Seq(Nat)], unfed' \subseteq Dsts
  PROVE  Typed'
  <1>1. Richer /\ Chunk' = Chunk
    BY AsRich
  <1>2. Writing' = Writing
    BY <1>1, Zenon DEF Writing
  <1> QED
    BY <1>1, <1>2, WriterTypes DEF Typed, Noted

\* The calls of a listener and no more.
LEMMA CallsOnly ==
  ASSUME Typed, Richer, NEW e \in Events \ {"write", "final"},
         stack' = stack \/ stack' = stack \o Calls(e)
  PROVE  Stacked' /\ Spares({"code"})
  <1>1. CASE stack' = stack
    <2>1. Turned(Len(stack), <<>>, {})
      BY <1>1, Stays
    <2> QED
      BY <2>1, SparesMore DEF Turned, Moved
  <1>2. CASE stack' = stack \o Calls(e)
    <2>1. Calls(e) \in Seq(Frame') /\ Guests(Calls(e)) /\ Sorts(Calls(e)) \subseteq {"code"}
      BY CallsAre
    <2>2. Turned(Len(stack), Calls(e), Sorts(Calls(e)))
      BY <1>2, <2>1, Adds
    <2> QED
      BY <2>1, <2>2, SparesMore DEF Turned, Moved
  <1> QED
    BY <1>1, <1>2

\* A parked next() is told of the end.
LEMMA EndWaiterTyped ==
  ASSUME Typed, NEW r \in Reading, r.waiter = readable.waiter, EndWaiter(r), made' = made
  PROVE  /\ Richer /\ readable' \in Reading' /\ given' \in Seq(Answers4)
         /\ Len(given') = Len(given)
  <1>1. given \in Seq(Answers4) /\ Len(given) \in Nat /\ made \in Nat
    BY DEF Typed, Noted, Answers4
  <1>2. Len(given') = Len(given) /\ given' \in Seq(Answers4)
    <2>1. CASE readable.waiter # 0
      BY <2>1, WaiterAnswered DEF EndWaiter
    <2>2. CASE readable.waiter = 0
      BY <1>1, <2>2 DEF EndWaiter
    <2> QED
      BY <2>1, <2>2
  <1>3. Richer
    BY <1>1, <1>2 DEF Richer
  <1>4. Chunk' = Chunk
    BY Zenon DEF Chunk
  <1>5. Reading' = Reading
    BY <1>2, <1>4, Zenon DEF Reading, PipeTo
  <1>6. [r EXCEPT !.waiter = 0] \in Reading
    BY <1>1 DEF Reading
  <1>7. readable' \in Reading
    BY <1>6 DEF EndWaiter, Answer
  <1> QED
    BY <1>2, <1>3, <1>5, <1>7

LEMMA PushNullTyped ==
  ASSUME Typed, PushNull
  PROVE  Typed' /\ Spares({})
  <1>1. PICK r : r = [readable EXCEPT !.ended = TRUE]
    OBVIOUS
  <1>2. r \in Reading /\ r.waiter = readable.waiter
    BY <1>1 DEF Typed, Reading
  <1>3. EndWaiter(r) /\ made' = made /\ stack' = stack
    BY <1>1 DEF PushNull
  <1>4. Richer /\ readable' \in Reading' /\ given' \in Seq(Answers4)
    BY <1>2, <1>3, EndWaiterTyped
  <1>5. Stacked' /\ Spares({})
    BY <1>3, <1>4, Stays DEF Turned, Moved
  <1>6. got' \in Seq(1 .. made') /\ accepted' \subseteq 1 .. made'
    BY <1>4, Widened DEF PushNull
  <1>7. ending' \in BOOLEAN
    BY DEF PushNull, ScheduleEnd, Typed
  <1> QED
    BY <1>4, <1>5, <1>6, <1>7, ReaderTypes DEF PushNull, OnlyReadable, writes, Answers4, Typed, Noted

LEMMA ReturnTyped ==
  ASSUME Typed, IteratorReturn
  PROVE  Typed' /\ Spares({"code"})
  <1>1. PICK r : r = [readable EXCEPT !.destroyed = TRUE]
    OBVIOUS
  <1>2. r \in Reading /\ r.waiter = readable.waiter
    BY <1>1 DEF Typed, Reading
  <1>3. EndWaiter(r) /\ made' = made /\ (stack' = stack \/ stack' = stack \o Calls("close"))
    BY <1>1 DEF IteratorReturn
  <1>4. Richer /\ readable' \in Reading' /\ given' \in Seq(Answers4)
    BY <1>2, <1>3, EndWaiterTyped
  <1>5. "close" \in Events \ {"write", "final"}
    BY DEF Events
  <1>6. Stacked' /\ Spares({"code"})
    BY <1>3, <1>4, <1>5, CallsOnly
  <1>7. got' \in Seq(1 .. made') /\ accepted' \subseteq 1 .. made'
    BY <1>4, Widened DEF IteratorReturn
  <1> QED
    BY <1>4, <1>6, <1>7, ReaderTypes DEF IteratorReturn, OnlyReadable, writes, Answers4, Typed, Noted

LEMMA PauseTyped ==
  ASSUME Typed, Pause
  PROVE  Typed' /\ Spares({"code"})
  <1>1. Richer
    BY AsRich DEF Pause, reads
  <1>2. "pause" \in Events \ {"write", "final"}
    BY DEF Events
  <1>3. stack' = stack \/ stack' = stack \o Calls("pause")
    <2>1. stack \o <<>> = stack
      BY ConcatEmptySeq, TopIs
    <2> QED
      BY <2>1 DEF Pause, PauseCalls
  <1>4. Stacked' /\ Spares({"code"})
    BY <1>1, <1>2, <1>3, CallsOnly
  <1>5. readable' \in Reading
    BY DEF Pause, Paused, Typed, Reading
  <1> QED
    BY <1>4, <1>5, ReaderKeeps DEF Pause, OnlyReadable, writes, reads, Typed, Noted

LEMMA DestroyTyped ==
  ASSUME Typed, Destroy
  PROVE  Typed' /\ Spares({"code"})
  <1>1. Richer
    BY AsRich DEF Destroy, reads
  <1>2. "close" \in Events \ {"write", "final"}
    BY DEF Events
  <1>3. stack' = stack \/ stack' = stack \o Calls("close")
    BY DEF Destroy
  <1>4. Stacked' /\ Spares({"code"})
    BY <1>1, <1>2, <1>3, CallsOnly
  <1>5. readable' \in Reading
    BY DEF Destroy, Typed, Reading
  <1> QED
    BY <1>4, <1>5, ReaderKeeps DEF Destroy, OnlyReadable, writes, reads, Typed, Noted

LEMMA HostCallsTyped ==
  ASSUME Typed, HostCalls
  PROVE  Typed' /\ Spares({"code"})
  <1>1. Richer /\ Frame' = Frame
    BY AsRich DEF HostCalls, reads
  <1>2. Code("turn") \in Frame' /\ Code("turn").at = "code" /\ Kind(Code("turn")) = "code"
    BY PlainFrames
  <1>3. Stacked' /\ Spares({"code"})
    BY <1>1, <1>2, Pushes DEF HostCalls, Turned, Moved
  <1> QED
    BY <1>3, ReaderKeeps DEF HostCalls, OnlyReadable, writes, reads, Typed, Noted

LEMMA HostPumpsTyped ==
  ASSUME Typed, HostPumps
  PROVE  Typed' /\ Turned(1, <<Pump>>, {"pump"})
  <1>1. Richer /\ Frame' = Frame
    BY AsRich DEF HostPumps, reads
  <1>2. Pump \in Frame' /\ Pump.at = "pump" /\ Kind(Pump) = "pump"
    BY PlainFrames
  <1>3. Len(stack) = 1
    BY TopIs DEF HostPumps
  <1>4. Turned(1, <<Pump>>, {"pump"})
    BY <1>1, <1>2, <1>3, Pushes DEF HostPumps
  <1> QED
    BY <1>4, ReaderKeeps DEF HostPumps, OnlyReadable, writes, reads, Typed, Noted, Turned, Moved

LEMMA ResumesTyped ==
  ASSUME Typed, Resumes
  PROVE  Typed' /\ Turned(Len(stack), <<Resume>>, {"resume"})
  <1>1. Richer /\ Frame' = Frame
    BY AsRich DEF Resumes, reads
  <1>2. Resume \in Frame' /\ Resume.at = "resume" /\ Kind(Resume) = "resume"
    BY PlainFrames
  <1>4. Turned(Len(stack), <<Resume>>, {"resume"})
    BY <1>1, <1>2, Pushes DEF Resumes
  <1> QED
    BY <1>4, ReaderKeeps DEF Resumes, OnlyReadable, writes, reads, Typed, Noted, Turned, Moved

LEMMA PipeTyped ==
  ASSUME Typed, Pipe
  PROVE  /\ Typed' /\ Spares({"resume", "code"})
         /\ \E d \in Dsts, ends \in BOOLEAN :
              /\ readable' = [readable EXCEPT !.pipes = Append(@, [dst |-> d, ends |-> ends])]
              /\ unfed' = IF got = <<>> /\ \A i \in DOMAIN stack : stack[i].at # "unpipe"
                          THEN unfed \ {d} ELSE unfed
  <1>1. Richer /\ Frame' = Frame
    BY AsRich DEF Pipe, reads
  <1>2. Resume \in Frame' /\ Resume.at = "resume" /\ Kind(Resume) = "resume"
    BY PlainFrames
  <1>3. "pipe" \in Events \ {"write", "final"}
    BY DEF Events
  <1>4. PICK more : more = Calls("pipe")
    OBVIOUS
  <1>5. more \in Seq(Frame') /\ Guests(more) /\ Sorts(more) \subseteq {"code"}
    BY <1>3, <1>4, CallsAre
  <1>6. /\ <<Resume>> \o more \in Seq(Frame') /\ Guests(<<Resume>> \o more)
        /\ Sorts(<<Resume>> \o more) \subseteq {Kind(Resume)} \cup Sorts(more)
    BY <1>2, <1>5, FrameAndMore
  <1>7. stack' = stack \o (<<Resume>> \o more)
    <2>1. stack' = stack \o <<Resume>> \o more
      BY <1>4 DEF Pipe
    <2>2. stack \o <<Resume>> \o more = stack \o (<<Resume>> \o more)
      BY <1>1, <1>2, <1>5, Regroup
    <2> QED
      BY <2>1, <2>2
  <1>8. Turned(Len(stack), <<Resume>> \o more, Sorts(<<Resume>> \o more))
    BY <1>1, <1>6, <1>7, Adds
  <1>9. Stacked' /\ Spares({"resume", "code"})
    BY <1>2, <1>5, <1>6, <1>8, SparesMore DEF Turned, Moved
  <1>10. PICK d \in Dsts, ends \in BOOLEAN :
           /\ readable' = [readable EXCEPT !.pipes = Append(@, [dst |-> d, ends |-> ends])]
           /\ unfed' = IF got = <<>> /\ \A i \in DOMAIN stack : stack[i].at # "unpipe"
                       THEN unfed \ {d} ELSE unfed
    BY Zenon DEF Pipe, Mine
  <1>11. readable' \in Reading /\ unfed' \subseteq Dsts
    <2>1. readable \in Reading /\ unfed \subseteq Dsts
      BY DEF Typed, Noted
    <2>2. PICK p \in PipeTo : p = [dst |-> d, ends |-> ends]
      BY DEF PipeTo
    <2>0. readable.pipes \in Seq(PipeTo)
      BY <2>1 DEF Reading
    <2>a. PICK S : S = PipeTo
      OBVIOUS
    <2>b. Append(readable.pipes, p) \in Seq(S)
      BY <2>0, <2>2, <2>a
    <2>3. PICK q : q = Append(readable.pipes, p) /\ q \in Seq(PipeTo)
      BY <2>a, <2>b
    <2>4. readable' = [readable EXCEPT !.pipes = q]
      BY <1>10, <2>2, <2>3
    <2> QED
      BY <1>10, <2>1, <2>3, <2>4 DEF Reading
  <1> QED
    BY <1>9, <1>10, <1>11, ReaderKeeps DEF Pipe, reads, Typed

LEMMA UnpipeTyped ==
  ASSUME Typed, Unpipe
  PROVE  /\ Typed' /\ UNCHANGED readable
         /\ \E D \in SUBSET Dsts :
              /\ unfed' = unfed \cup D
              /\ Turned(Len(stack), <<[at |-> "unpipe", which |-> D, left |-> readable.pipes,
                                       kept |-> <<>>]>>, {"unpipe"})
  <1>1. Richer /\ Frame' = Frame
    BY AsRich DEF Unpipe, reads
  <1>2. PICK D \in SUBSET Dsts :
          /\ stack' = Append(stack, [at |-> "unpipe", which |-> D, left |-> readable.pipes,
                                     kept |-> <<>>])
          /\ unfed' = unfed \cup D
    <2>1. {{d} : d \in Mine} \cup {Dsts} \subseteq SUBSET Dsts
      BY DEF Mine
    <2> QED
      BY <2>1, Zenon DEF Unpipe
  <1>3. PICK f : f = [at |-> "unpipe", which |-> D, left |-> readable.pipes, kept |-> <<>>]
    OBVIOUS
  <1>4. f \in UnpipeFrame
    <2>1. readable.pipes \in Seq(PipeTo) /\ <<>> \in Seq(PipeTo)
      BY DEF Typed, Reading
    <2> QED
      BY <1>3, <2>1 DEF UnpipeFrame
  <1>5. f \in Frame' /\ f.at = "unpipe" /\ Kind(f) = "unpipe"
    BY <1>1, <1>3, <1>4, FrameIs DEF Kind
  <1>6. Turned(Len(stack), <<f>>, {"unpipe"})
    BY <1>1, <1>2, <1>3, <1>5, Pushes
  <1>7. unfed' \subseteq Dsts
    BY <1>2 DEF Typed, Noted
  <1> QED
    BY <1>2, <1>3, <1>6, <1>7, ReaderKeeps DEF Unpipe, reads, Typed, Turned, Moved

LEMMA NextTyped ==
  ASSUME Typed, Next_
  PROVE  /\ Typed' /\ Len(given) \in Nat
         /\ \/ readable.waiter # 0 /\ Spares({})
            \/ /\ readable.waiter = 0
               /\ Turned(Len(stack), <<[at |-> "next", stage |-> "pumped",
                                        call |-> Len(given) + 1], Pump>>, {"next", "pump"})
  <1>1. given \in Seq(Answers4) /\ Len(given) \in Nat /\ made \in Nat /\ readable \in Reading
    BY DEF Typed, Noted, Answers4
  <1>2. /\ made' = made
        /\ \/ /\ readable.waiter # 0 /\ readable' = [readable EXCEPT !.waiter = 0]
              /\ given' = Append(given, "done") /\ UNCHANGED stack
           \/ /\ readable.waiter = 0 /\ readable' = [readable EXCEPT !.consumed = TRUE]
              /\ given' = Append(given, "asked")
              /\ stack' = stack \o <<[at |-> "next", stage |-> "pumped",
                                      call |-> Len(given) + 1], Pump>>
    BY DEF Next_
  <1>3. given' \in Seq(Answers4) /\ Len(given') = Len(given) + 1
    <2>0. "done" \in Answers4 /\ "asked" \in Answers4
      BY DEF Answers4
    <2>1. PICK S, a : S = Answers4 /\ a \in S /\ given' = Append(given, a)
      BY <1>2, <2>0, Zenon
    <2>2. Append(given, a) \in Seq(S) /\ Len(Append(given, a)) = Len(given) + 1
      BY <1>1, <2>1
    <2> QED
      BY <2>1, <2>2
  <1>4. Richer
    BY <1>1, <1>2, <1>3 DEF Richer
  <1>5. readable \in Reading' /\ got' \in Seq(1 .. made') /\ accepted' \subseteq 1 .. made'
    BY <1>4, Widened DEF Next_
  <1>6. readable' \in Reading'
    <2>1. PICK n : n = 0 /\ n \in 0 .. Len(given')
      BY <1>1, <1>3
    <2>2. [readable EXCEPT !.waiter = n] \in Reading' /\ [readable EXCEPT !.consumed = TRUE] \in Reading'
      BY <1>5, <2>1 DEF Reading
    <2> QED
      BY <1>2, <2>1, <2>2
  <1>7. /\ Stacked'
        /\ \/ readable.waiter # 0 /\ Spares({})
           \/ /\ readable.waiter = 0
              /\ Turned(Len(stack), <<[at |-> "next", stage |-> "pumped",
                                       call |-> Len(given) + 1], Pump>>, {"next", "pump"})
    <2>1. CASE readable.waiter # 0
      BY <1>2, <1>4, <2>1, Stays DEF Turned, Moved
    <2>2. CASE readable.waiter = 0
      <3>1. PICK f : f = [at |-> "next", stage |-> "pumped", call |-> Len(given) + 1]
        OBVIOUS
      <3>2. f \in NextFrame'
        BY <1>1, <1>3, <3>1 DEF NextFrame
      <3>3. f \in Frame'
        BY <3>2, Zenon DEF Frame, NextFrame
      <3>4. f.at = "next" /\ Kind(f) = "next"
        BY <3>1 DEF Kind
      <3>5. PICK g : g = Pump
        OBVIOUS
      <3>6. g \in Frame' /\ g.at = "pump" /\ Kind(g) = "pump"
        BY <3>5, PlainFrames
      <3>7. <<f, g>> \in Seq(Frame') /\ Guests(<<f, g>>) /\ Sorts(<<f, g>>) = {Kind(f), Kind(g)}
        BY <3>3, <3>4, <3>6, Two
      <3>a. PICK more : more = <<f, g>>
        OBVIOUS
      <3>b. more \in Seq(Frame') /\ Guests(more) /\ Sorts(more) = {"next", "pump"}
        BY <3>4, <3>6, <3>7, <3>a
      <3>c. stack' = stack \o more
        BY <1>2, <2>2, <3>1, <3>5, <3>a
      <3>8. Turned(Len(stack), <<f, g>>, {"next", "pump"})
        BY <1>4, <3>a, <3>b, <3>c, Adds
      <3> QED
        BY <2>2, <3>1, <3>5, <3>8 DEF Turned, Moved
    <2> QED
      BY <2>1, <2>2
  <1> QED
    BY <1>1, <1>3, <1>4, <1>5, <1>6, <1>7, ReaderTypes
       DEF Next_, OnlyReadable, writes, Answers4, Typed, Noted

\* A chunk that the program makes to write it.
LEMMA MadeTyped ==
  ASSUME Typed, made' = made + 1, given' = given, NEW d \in Dsts, NEW size \in Sizes, NEW cb \in BOOLEAN
  PROVE  LET f == Write(d, NewChunk(size), cb) IN
         /\ Richer /\ f \in Frame' /\ f.at = "write" /\ Kind(f) = "write" /\ f.dst = d
  <1>1. made \in Nat /\ Len(given) \in Nat
    BY DEF Typed, Noted
  <1>2. PICK f : f = Write(d, NewChunk(size), cb)
    OBVIOUS
  <1>3. NewChunk(size) \in Chunk'
    BY <1>1 DEF NewChunk, Chunk
  <1>4. f \in WriteFrame' /\ f.at = "write" /\ f.dst = d
    BY <1>2, <1>3 DEF WriteFrame, Write
  <1>5. f \in Frame'
    BY <1>4, Zenon DEF Frame, WriteFrame
  <1>6. Kind(f) = "write"
    BY <1>4 DEF Kind
  <1> QED
    BY <1>1, <1>2, <1>4, <1>5, <1>6 DEF Richer

LEMMA WritesTyped ==
  ASSUME Typed, Writes
  PROVE  /\ Typed'
         /\ \E f \in Frame' : f.at = "write" /\ Turned(Len(stack), <<f>>, {"write"})
  <1>1. made' = made + 1 /\ given' = given
    BY DEF Writes
  <1>2. PICK d \in Dsts, size \in Sizes, cb \in BOOLEAN :
          stack' = Append(stack, Write(d, NewChunk(size), cb))
    BY Zenon DEF Writes, Mine
  <1>3. PICK f : f = Write(d, NewChunk(size), cb)
    OBVIOUS
  <1>4. Richer /\ f \in Frame' /\ f.at = "write" /\ Kind(f) = "write"
    BY <1>1, <1>3, MadeTyped
  <1>5. Turned(Len(stack), <<f>>, {"write"})
    BY <1>2, <1>3, <1>4, Pushes
  <1>6. Stacked'
    BY <1>5 DEF Turned, Moved
  <1>7. readable' \in Reading' /\ got' \in Seq(1 .. made') /\ accepted' \subseteq 1 .. made'
    BY <1>4, Widened DEF Writes
  <1> QED
    BY <1>4, <1>5, <1>6, <1>7, ReaderTypes DEF Writes, writes, Typed, Noted

LEMMA EndsTyped ==
  ASSUME Typed, Ends
  PROVE  /\ Typed' /\ Spares({"end", "write"})
         /\ "end" \in uses /\ \E more : Moved(Len(stack), more)
  <1>1. PICK d \in Dsts, size \in Sizes, some \in BOOLEAN :
          /\ stack' = stack \o <<End(d)>> \o
                      (IF some THEN <<Write(d, NewChunk(size), FALSE)>> ELSE <<>>)
          /\ made' = IF some THEN made + 1 ELSE made
    BY Zenon DEF Ends, Mine
  <1>2. given' = given /\ made \in Nat /\ Len(given) \in Nat
    BY DEF Ends, Typed, Noted
  <1>3. Richer
    BY <1>1, <1>2 DEF Richer
  <1>4. PICK more : more = IF some THEN <<Write(d, NewChunk(size), FALSE)>> ELSE <<>>
    OBVIOUS
  <1>5. more \in Seq(Frame') /\ Guests(more) /\ Sorts(more) \subseteq {"write"}
    <2>1. CASE some
      <3>1. PICK f : f = Write(d, NewChunk(size), FALSE)
        OBVIOUS
      <3>2. f \in Frame' /\ f.at = "write" /\ Kind(f) = "write"
        BY <1>1, <1>2, <2>1, <3>1, MadeTyped
      <3>3. more = <<f>>
        BY <1>4, <2>1, <3>1
      <3> QED
        BY <3>2, <3>3 DEF Guests, Sorts
    <2>2. CASE ~some
      <3>1. more = <<>>
        BY <1>4, <2>2
      <3> QED
        BY <3>1 DEF Guests, Sorts
    <2> QED
      BY <2>1, <2>2
  <1>6. PICK g : g = End(d)
    OBVIOUS
  <1>7. g \in Frame' /\ g.at = "end" /\ Kind(g) = "end"
    BY <1>6, PlainFrames
  <1>8. /\ <<g>> \o more \in Seq(Frame') /\ Guests(<<g>> \o more)
        /\ Sorts(<<g>> \o more) \subseteq {Kind(g)} \cup Sorts(more)
    BY <1>5, <1>7, FrameAndMore
  <1>9. stack' = stack \o (<<g>> \o more)
    <2>1. stack' = stack \o <<g>> \o more
      BY <1>1, <1>4, <1>6
    <2>2. stack \o <<g>> \o more = stack \o (<<g>> \o more)
      BY <1>3, <1>5, <1>7, Regroup
    <2> QED
      BY <2>1, <2>2
  <1>10. Turned(Len(stack), <<g>> \o more, Sorts(<<g>> \o more))
    BY <1>3, <1>8, <1>9, Adds
  <1>11. Stacked' /\ Spares({"end", "write"})
    BY <1>5, <1>7, <1>8, <1>10, SparesMore DEF Turned, Moved
  <1>12. readable' \in Reading' /\ got' \in Seq(1 .. made') /\ accepted' \subseteq 1 .. made'
    BY <1>3, Widened DEF Ends
  <1> QED
    BY <1>3, <1>10, <1>11, <1>12, ReaderTypes DEF Ends, Does, writes, Typed, Noted, Turned

LEMMA CorkTyped ==
  ASSUME Typed, Cork
  PROVE  Typed' /\ Spares({}) /\ "cork" \in uses
  <1>1. Richer
    BY AsRich DEF Cork, reads
  <1>2. Stacked' /\ Spares({})
    BY <1>1, Stays DEF Cork, Turned, Moved
  <1>3. writable' \in [Dsts -> Writing]
    <2>1. PICK d \in Dsts : writable' = [writable EXCEPT ![d].corked = @ + 1]
      BY Zenon DEF Cork, Mine
    <2>2. PICK n : n \in Nat /\ n = writable[d].corked + 1
      BY DEF Typed, Writing
    <2>3. writable' = [writable EXCEPT ![d].corked = n]
      BY <2>1, <2>2
    <2> QED
      BY <2>2, <2>3 DEF Typed, Writing
  <1> QED
    BY <1>2, <1>3, WriterKeeps DEF Cork, Does, reads, writes, Typed, Noted

LEMMA UncorkTyped ==
  ASSUME Typed, Uncork
  PROVE  Typed' /\ Spares({"drainQueue"}) /\ "cork" \in uses
  <1>1. Richer
    BY AsRich DEF Uncork, reads
  <1>2. PICK d \in Dsts :
          /\ writable' = [writable EXCEPT ![d].corked = IF writable[d].corked > 0 THEN writable[d].corked - 1 ELSE 0]
          /\ stack' = Append(stack, DrainQueue(d, TRUE)) \/ stack' = stack
    BY DEF Uncork, Mine
  <1>3. PICK f : f = DrainQueue(d, TRUE)
    OBVIOUS
  <1>4. f \in Frame' /\ f.at = "drainQueue" /\ Kind(f) = "drainQueue"
    BY <1>3, PlainFrames
  <1>5. Stacked' /\ Spares({"drainQueue"})
    <2>1. CASE stack' = Append(stack, f)
      BY <1>1, <1>4, <2>1, Pushes DEF Turned, Moved
    <2>2. CASE stack' = stack
      BY <1>1, <2>2, Stays, SparesMore DEF Turned, Moved
    <2> QED
      BY <1>2, <1>3, <2>1, <2>2
  <1>6. writable' \in [Dsts -> Writing]
    <2>1. writable[d].corked \in Nat
      BY DEF Typed, Writing
    <2>2. PICK n : n \in Nat /\ n = IF writable[d].corked > 0 THEN writable[d].corked - 1 ELSE 0
      BY <2>1
    <2> QED
      BY <1>2, <2>2 DEF Typed, Writing
  <1> QED
    BY <1>5, <1>6, WriterKeeps DEF Uncork, Does, reads, writes, Typed, Noted

-----------------------------------------------------------------------------
\* A sink's callback, now or later.
LEMMA DoneTyped ==
  ASSUME Typed, Top.at = "code", pending # <<>>, WriteDone, held' \in Nat,
         UNCHANGED <<writable, writes>>, OnlyWritable
  PROVE  /\ Typed' /\ pending = Append(pending', Last(pending)) /\ pending' \in Seq(Entry)
         /\ Last(pending) \in Entry /\ Len(pending) \in Nat /\ Len(pending') = Len(pending) - 1
         /\ \A i \in 1 .. Len(pending') : pending'[i] = pending[i]
         /\ Len(pending) >= 1 /\ Last(pending) = pending[Len(pending)]
         /\ \E more : LET e == Last(pending) IN
              /\ Turned(Len(stack) - 1, more, {Kind(Top), "code", "finish", "finalize"})
              /\ Len(more) = 2 /\ Kind(more[1]) = "code" /\ more[1].at = "code"
              /\ IF e.final THEN more[2] = [at |-> "finish", dst |-> e.dst]
                 ELSE more[2] = [at |-> "finalize", stage |-> "shrink", dst |-> e.dst,
                                 size |-> e.size, remaining |-> 0]
  <1>1. Richer /\ Frame' = Frame
    BY AsRich DEF OnlyWritable, reads
  <1>2. pending \in Seq(Entry) /\ Len(pending) \in Nat /\ Len(pending) >= 1
    BY DEF Typed
  <1>3. PICK q \in Seq(Entry), e \in Entry :
          /\ q = Front(pending) /\ e = Last(pending) /\ pending = Append(q, e)
          /\ Len(q) = Len(pending) - 1 /\ e = pending[Len(pending)]
          /\ \A i \in 1 .. Len(q) : q[i] = pending[i]
    <2>1. PICK S : S = Entry
      OBVIOUS
    <2>0. PICK n \in Nat : n = Len(pending) /\ n >= 1
      BY <1>2
    <2>b. PICK b : b = Front(pending) /\ b \in Seq(S) /\ Grew(pending, b, n - 1, <<>>)
      <3>1. PICK x : x = pending[n] /\ x \in S
        BY <1>2, <2>1, <2>0
      <3>2. <<>> \in Seq(S) /\ pending \in Seq(S)
        BY <1>2, <2>1
      <3> QED
        BY <2>0, <3>1, <3>2, Forms, Zenon
    <2>2. Len(b) = n - 1 /\ \A i \in 1 .. n - 1 : b[i] = pending[i]
      BY <2>b, <2>0 DEF Grew
    <2>3. Last(pending) = pending[n] /\ Last(pending) \in S
      BY <1>2, <2>1, <2>0 DEF Last
    <2>4. pending = Append(b, pending[n])
      <3>0. PICK x \in S : x = pending[n]
        BY <2>3
      <3>a. PICK c : c = Append(b, x)
        OBVIOUS
      <3>b. c \in Seq(S) /\ Len(c) = n /\ c[n] = x /\ \A i \in 1 .. n - 1 : c[i] = b[i]
        BY <2>0, <2>b, <2>2, <3>a
      <3>1. c = Append(b, pending[n]) /\ c \in Seq(S) /\ Len(c) = n /\ c[n] = pending[n] /\ \A i \in 1 .. n - 1 : c[i] = b[i]
        BY <3>0, <3>a, <3>b
      <3>2. \A i \in 1 .. n : c[i] = pending[i]
        BY <2>0, <2>2, <3>1
      <3> QED
        BY <1>2, <2>1, <2>0, <3>1, <3>2, SeqEqual
    <2>8. Front(pending) \in Seq(Entry) /\ Last(pending) \in Entry
      BY <2>1, <2>b, <2>3
    <2>9. /\ pending = Append(Front(pending), Last(pending)) /\ Last(pending) = pending[Len(pending)]
          /\ Len(Front(pending)) = Len(pending) - 1
      BY <2>0, <2>b, <2>2, <2>3, <2>4
    <2>10. \A i \in 1 .. Len(Front(pending)) : Front(pending)[i] = pending[i]
      BY <2>b, <2>2
    <2> QED
      BY <2>8, <2>9, <2>10
  <1>4. pending' = q
    BY <1>3 DEF WriteDone
  <1>5. PICK f : f = IF e.final THEN [at |-> "finish", dst |-> e.dst]
                     ELSE [at |-> "finalize", stage |-> "shrink", dst |-> e.dst,
                           size |-> e.size, remaining |-> 0]
    OBVIOUS
  <1>6. f \in Frame' /\ f.at # "host" /\ Kind(f) \in {"finish", "finalize"}
    <2>1. e.dst \in Dsts /\ e.size \in Nat /\ e.final \in BOOLEAN
      BY <1>3 DEF Entry
    <2>2. CASE e.final
      <3>1. f = [at |-> "finish", dst |-> e.dst]
        BY <1>5, <2>2
      <3> QED
        BY <2>1, <3>1, PlainFrames
    <2>3. CASE ~e.final
      <3>1. f = [at |-> "finalize", stage |-> "shrink", dst |-> e.dst, size |-> e.size, remaining |-> 0]
        BY <1>5, <2>3
      <3>2. f \in FinalizeFrame /\ f.at = "finalize"
        BY <2>1, <3>1 DEF FinalizeFrame
      <3>3. f \in Frame'
        BY <1>1, <3>2, FrameIs
      <3>4. Kind(f) = "finalize"
        BY <3>2 DEF Kind
      <3> QED
        BY <3>2, <3>3, <3>4
    <2> QED
      BY <2>1, <2>2, <2>3
  <1>7. PICK g : g = [Top EXCEPT !.owes = FALSE]
    OBVIOUS
  <1>8. g \in Frame' /\ g.at = "code" /\ Kind(g) = "code"
    <2>1. Top \in CodeFrame
      BY TopIs, KindOf
    <2>2. g \in CodeFrame /\ g.at = "code" /\ g.owes = FALSE
      BY <1>7, <2>1 DEF CodeFrame
    <2>3. g \in Frame'
      BY <1>1, <2>2, FrameIs
    <2>4. Kind(g) = "code"
      BY <2>2, Zenon DEF Kind
    <2> QED
      BY <2>2, <2>3, <2>4
  <1>9. stack' = With(g) \o <<f>>
    <2>1. stack' = Append(With(g), f)
      BY <1>3, <1>5, <1>7 DEF WriteDone
    <2>2. PICK S : S = Frame'
      OBVIOUS
    <2>3. PICK s : s = With(g) /\ s \in Seq(S)
      <3>1. stack \in Seq(S) /\ g \in S /\ <<>> \in Seq(S) /\ Len(stack) >= 1
        BY <1>1, <1>8, <2>2, TopIs
      <3> QED
        BY <3>1, Forms DEF With
    <2>4. Append(s, f) = s \o <<f>>
      BY <1>6, <2>2, <2>3, AppendIsConcat
    <2> QED
      BY <2>1, <2>3, <2>4
  <1>10. PICK o : o = <<f>> /\ o \in Seq(Frame') /\ Guests(o) /\ Sorts(o) = {Kind(f)} /\ Len(o) = 1 /\ o[1] = f
    <2>1. <<f>> \in Seq(Frame') /\ Guests(<<f>>) /\ Sorts(<<f>>) = {Kind(f)}
      BY <1>6 DEF Guests, Sorts
    <2>2. Len(<<f>>) = 1 /\ <<f>>[1] = f
      OBVIOUS
    <2> QED
      BY <2>1, <2>2, Zenon
  <1>11. PICK more : /\ more = <<g>> \o o /\ Len(more) = 2 /\ more[1] = g /\ more[2] = f
                     /\ Turned(Len(stack) - 1, more, {Kind(Top), Kind(g)} \cup Sorts(o))
    <2>1. Turned(Len(stack) - 1, <<g>> \o o, {Kind(Top), Kind(g)} \cup Sorts(o))
      BY <1>1, <1>8, <1>9, <1>10, TurnsAnd
    <2>2. /\ Len(<<g>> \o o) = 1 + Len(o) /\ (<<g>> \o o)[1] = g
          /\ \A j \in 1 .. Len(o) : (<<g>> \o o)[1 + j] = o[j]
      BY <1>8, <1>10, FrameAndMore
    <2>3. PICK m : m = <<g>> \o o
      OBVIOUS
    <2>4. Len(m) = 2 /\ m[1] = g /\ m[2] = f
      <3>1. \A j \in 1 .. 1 : m[1 + j] = o[j]
        BY <1>10, <2>2, <2>3
      <3> QED
        BY <1>10, <2>2, <2>3, <3>1
    <2> QED
      BY <2>1, <2>3, <2>4
  <1>12. Turned(Len(stack) - 1, more, {Kind(Top), "code", "finish", "finalize"})
    BY <1>6, <1>8, <1>10, <1>11, SparesMore DEF Turned
  <1>13. Stacked'
    BY <1>12 DEF Turned, Moved
  <1>14. Typed'
    BY <1>4, <1>13, WriterKeeps DEF OnlyWritable, reads, writes, Typed, Noted
  <1> QED
    BY <1>2, <1>3, <1>4, <1>5, <1>8, <1>11, <1>12, <1>14

LEMMA CodeEndsTyped ==
  ASSUME Typed, CodeEnds
  PROVE  Typed' /\ Turned(Len(stack) - 1, <<>>, {Kind(Top)})
  <1>1. Richer /\ Frame' = Frame
    BY AsRich DEF CodeEnds, OnlyWritable, reads
  <1>2. Turned(Len(stack) - 1, <<>>, {Kind(Top)})
    BY <1>1, Returns DEF CodeEnds
  <1>3. held' \in Nat
    BY DEF CodeEnds, Typed
  <1> QED
    BY <1>2, <1>3, WriterKeeps DEF CodeEnds, OnlyWritable, reads, writes, Typed, Noted, Turned, Moved

-----------------------------------------------------------------------------
(***************************************************************************)
(* The three things a method does to the stack: it goes on as f, and may   *)
(* call the program; it calls another, f; it returns, and may call.        *)
(***************************************************************************)
Follows(more, k) == Len(more) \in Nat /\ Len(more) >= k /\ \A j \in 1 .. Len(more) : j > k => Kind(more[j]) = "code"
Became(f) == \E more : /\ Turned(Len(stack) - 1, more, {Kind(Top), Kind(f), "code"})
                       /\ Follows(more, 1) /\ more[1] = f
Topped(f) == \E more : /\ Turned(Len(stack), more, {Kind(f), "code"})
                       /\ Follows(more, 1) /\ more[1] = f
Left == \E more : Turned(Len(stack) - 1, more, {Kind(Top), "code"}) /\ Follows(more, 0)

LEMMA CallsFollow ==
  ASSUME NEW e \in Events \ {"write", "final"}, NEW f
  PROVE  /\ Follows(Calls(e), 0) /\ Follows(<<>>, 0) /\ Follows(<<f>>, 1)
         /\ <<>> \in Seq(Frame') /\ Guests(<<>>) /\ Sorts(<<>>) = {}
  <1>1. Calls(e) = <<>> \/ Calls(e) = <<Code(e)>>
    BY CallsAre
  <1>2. Kind(Code(e)) = "code"
    BY CallsAre
  <1>3. PICK c : c = Code(e)
    OBVIOUS
  <1>4. Follows(<<>>, 0) /\ Follows(<<f>>, 1)
    BY DEF Follows
  <1>5. Follows(<<c>>, 0)
    BY <1>2, <1>3 DEF Follows
  <1>6. <<>> \in Seq(Frame') /\ Guests(<<>>) /\ Sorts(<<>>) = {}
    BY DEF Guests, Sorts
  <1> QED
    BY <1>1, <1>3, <1>4, <1>5, <1>6

LEMMA Becomes ==
  ASSUME Typed, Richer, Top.at # "host", NEW f \in Frame', f.at # "host",
         NEW e \in Events \ {"write", "final"},
         stack' = With(f) \o Calls(e) \/ stack' = With(f)
  PROVE  Became(f) /\ Stacked'
  <1>1. CASE stack' = With(f)
    <2>1. Turned(Len(stack) - 1, <<f>>, {Kind(Top), Kind(f)})
      BY <1>1, Turns1
    <2>2. Turned(Len(stack) - 1, <<f>>, {Kind(Top), Kind(f), "code"})
      BY <2>1, SparesMore DEF Turned
    <2>3. PICK o : o = <<f>> /\ Follows(o, 1) /\ o[1] = f
      <3>1. Follows(<<f>>, 1)
        BY CallsFollow, Zenon
      <3>2. <<f>>[1] = f
        OBVIOUS
      <3> QED
        BY <3>1, <3>2, Zenon
    <2> QED
      BY <2>2, <2>3 DEF Became, Turned, Moved
  <1>2. CASE stack' = With(f) \o Calls(e)
    <2>1. PICK c : c = Calls(e)
      OBVIOUS
    <2>2. c \in Seq(Frame') /\ Guests(c) /\ Sorts(c) \subseteq {"code"} /\ Follows(c, 0)
      BY <2>1, CallsAre, CallsFollow
    <2>3. Turned(Len(stack) - 1, <<f>> \o c, {Kind(Top), Kind(f)} \cup Sorts(c))
      BY <1>2, <2>1, <2>2, TurnsAnd
    <2>4. PICK o : o = <<f>> \o c
      OBVIOUS
    <2>5. Turned(Len(stack) - 1, o, {Kind(Top), Kind(f), "code"})
      BY <2>2, <2>3, <2>4, SparesMore DEF Turned
    <2>6. Len(o) = 1 + Len(c) /\ o[1] = f /\ \A j \in 1 .. Len(c) : o[1 + j] = c[j]
      BY <2>2, <2>4, FrameAndMore
    <2>7. Follows(o, 1)
      <3>1. ASSUME NEW j \in 1 .. Len(o), j > 1 PROVE Kind(o[j]) = "code"
        <4>1. j - 1 \in 1 .. Len(c) /\ j = 1 + (j - 1)
          BY <2>2, <2>6, <3>1 DEF Follows
        <4>2. o[j] = c[j - 1]
          BY <2>6, <4>1
        <4>3. j - 1 > 0
          BY <3>1
        <4> QED
          BY <2>2, <4>1, <4>2, <4>3 DEF Follows
      <3> QED
        BY <2>2, <2>6, <3>1 DEF Follows
    <2> QED
      BY <2>5, <2>6, <2>7 DEF Became, Turned, Moved
  <1> QED
    BY <1>1, <1>2

LEMMA Tops ==
  ASSUME Typed, Richer, NEW f \in Frame', f.at # "host", stack' = Append(stack, f)
  PROVE  Topped(f) /\ Stacked'
  <1>1. Turned(Len(stack), <<f>>, {Kind(f)})
    BY Pushes
  <1>2. Turned(Len(stack), <<f>>, {Kind(f), "code"})
    BY <1>1, SparesMore DEF Turned
  <1>3. "data" \in Events \ {"write", "final"}
    BY DEF Events
  <1>4. PICK o : o = <<f>> /\ Follows(o, 1) /\ o[1] = f
    <2>1. Follows(<<f>>, 1)
      BY <1>3, CallsFollow, Zenon
    <2>2. <<f>>[1] = f
      OBVIOUS
    <2> QED
      BY <2>1, <2>2, Zenon
  <1> QED
    BY <1>2, <1>4 DEF Topped, Turned, Moved

LEMMA Leaves ==
  ASSUME Typed, Richer, Top.at # "host", NEW e \in Events \ {"write", "final"},
         stack' = Return \/ stack' = Return \o Calls(e)
  PROVE  Left /\ Stacked'
  <1>1. CASE stack' = Return
    <2>1. Turned(Len(stack) - 1, <<>>, {Kind(Top)})
      BY <1>1, Returns
    <2>2. Turned(Len(stack) - 1, <<>>, {Kind(Top), "code"})
      BY <2>1, SparesMore DEF Turned
    <2>3. PICK o : o = <<>> /\ Follows(o, 0)
      BY CallsFollow
    <2> QED
      BY <2>2, <2>3 DEF Left, Turned, Moved
  <1>2. CASE stack' = Return \o Calls(e)
    <2>1. PICK c : c = Calls(e)
      OBVIOUS
    <2>2. c \in Seq(Frame') /\ Guests(c) /\ Sorts(c) \subseteq {"code"} /\ Follows(c, 0)
      BY <2>1, CallsAre, CallsFollow
    <2>3. Turned(Len(stack) - 1, c, {Kind(Top)} \cup Sorts(c))
      BY <1>2, <2>1, <2>2, ReturnsTo
    <2>4. Turned(Len(stack) - 1, c, {Kind(Top), "code"})
      BY <2>2, <2>3, SparesMore DEF Turned
    <2> QED
      BY <2>2, <2>4 DEF Left, Turned, Moved
  <1> QED
    BY <1>1, <1>2

\* Where the frames of some kinds are, after each.
LEMMA Becoming ==
  ASSUME Typed, NEW f, Became(f), NEW K, "code" \notin K
  PROVE  /\ Where(stack', K) = (Where(stack, K) \ {Len(stack)})
                               \cup (IF Kind(f) \in K THEN {Len(stack)} ELSE {})
         /\ stack'[Len(stack)] = f /\ \A i \in 1 .. Len(stack) - 1 : stack'[i] = stack[i]
         /\ Spares({Kind(Top), Kind(f), "code"}) /\ Len(stack') >= Len(stack)
  <1>1. PICK more : /\ Turned(Len(stack) - 1, more, {Kind(Top), Kind(f), "code"})
                    /\ Follows(more, 1) /\ more[1] = f
    BY DEF Became
  <1>2. PICK n \in Nat : n = Len(stack) /\ n >= 1
    BY TopIs
  <1>3. Grew(stack, stack', n - 1, more)
    BY <1>1, <1>2 DEF Turned, Moved
  <1>4. Where(stack', K) = {i \in Where(stack, K) : i <= n - 1} \cup {(n - 1) + j : j \in Where(more, K)}
    BY <1>2, <1>3, WhereGrew
  <1>5. {i \in Where(stack, K) : i <= n - 1} = Where(stack, K) \ {n}
    BY <1>2 DEF Where
  <1>6. Where(more, K) = IF Kind(f) \in K THEN {1} ELSE {}
    <2>1. ASSUME NEW j \in 1 .. Len(more), j # 1 PROVE Kind(more[j]) \notin K
      BY <1>1, <2>1 DEF Follows
    <2>2. 1 \in 1 .. Len(more)
      BY <1>1 DEF Follows
    <2> QED
      BY <1>1, <2>1, <2>2 DEF Where
  <1>7. {(n - 1) + j : j \in Where(more, K)} = IF Kind(f) \in K THEN {n} ELSE {}
    <2>1. (n - 1) + 1 = n
      BY <1>2
    <2> QED
      BY <1>6, <2>1
  <1>8. Len(more) >= 1 /\ Len(more) \in Nat /\ 1 \in 1 .. Len(more)
    BY <1>1 DEF Follows
  <1>9. stack'[n] = f /\ Len(stack') >= n
    BY <1>1, <1>2, <1>3, <1>8 DEF Grew
  <1>10. \A i \in 1 .. n - 1 : stack'[i] = stack[i]
    BY <1>3 DEF Grew
  <1>11. Spares({Kind(Top), Kind(f), "code"})
    BY <1>1 DEF Turned
  <1> QED
    BY <1>2, <1>4, <1>5, <1>7, <1>9, <1>10, <1>11

LEMMA Topping ==
  ASSUME Typed, NEW f, Topped(f), NEW K, "code" \notin K
  PROVE  /\ Where(stack', K) = Where(stack, K)
                               \cup (IF Kind(f) \in K THEN {Len(stack) + 1} ELSE {})
         /\ stack'[Len(stack) + 1] = f /\ \A i \in 1 .. Len(stack) : stack'[i] = stack[i]
         /\ Spares({Kind(f), "code"}) /\ Len(stack') >= Len(stack) + 1
  <1>1. PICK more : /\ Turned(Len(stack), more, {Kind(f), "code"})
                    /\ Follows(more, 1) /\ more[1] = f
    BY DEF Topped
  <1>2. PICK n \in Nat : n = Len(stack) /\ n >= 1
    BY TopIs
  <1>3. Grew(stack, stack', n, more)
    BY <1>1, <1>2 DEF Turned, Moved
  <1>4. Where(stack', K) = {i \in Where(stack, K) : i <= n} \cup {n + j : j \in Where(more, K)}
    BY <1>2, <1>3, WhereGrew
  <1>5. {i \in Where(stack, K) : i <= n} = Where(stack, K)
    BY <1>2 DEF Where
  <1>6. Where(more, K) = IF Kind(f) \in K THEN {1} ELSE {}
    <2>1. ASSUME NEW j \in 1 .. Len(more), j # 1 PROVE Kind(more[j]) \notin K
      BY <1>1, <2>1 DEF Follows
    <2>2. 1 \in 1 .. Len(more)
      BY <1>1 DEF Follows
    <2> QED
      BY <1>1, <2>1, <2>2 DEF Where
  <1>7. {n + j : j \in Where(more, K)} = IF Kind(f) \in K THEN {n + 1} ELSE {}
    BY <1>6
  <1>8. Len(more) >= 1 /\ Len(more) \in Nat /\ 1 \in 1 .. Len(more)
    BY <1>1 DEF Follows
  <1>9. stack'[n + 1] = f /\ Len(stack') >= n + 1
    BY <1>1, <1>2, <1>3, <1>8 DEF Grew
  <1>10. \A i \in 1 .. n : stack'[i] = stack[i]
    BY <1>3 DEF Grew
  <1>11. Spares({Kind(f), "code"})
    BY <1>1 DEF Turned
  <1> QED
    BY <1>2, <1>4, <1>5, <1>7, <1>9, <1>10, <1>11

LEMMA Leaving ==
  ASSUME Typed, Left, NEW K, "code" \notin K
  PROVE  /\ Where(stack', K) = Where(stack, K) \ {Len(stack)}
         /\ \A i \in 1 .. Len(stack) - 1 : stack'[i] = stack[i]
         /\ Spares({Kind(Top), "code"})
  <1>1. PICK more : Turned(Len(stack) - 1, more, {Kind(Top), "code"}) /\ Follows(more, 0)
    BY DEF Left
  <1>2. PICK n \in Nat : n = Len(stack) /\ n >= 1
    BY TopIs
  <1>3. Grew(stack, stack', n - 1, more)
    BY <1>1, <1>2 DEF Turned, Moved
  <1>4. Where(stack', K) = {i \in Where(stack, K) : i <= n - 1} \cup {(n - 1) + j : j \in Where(more, K)}
    BY <1>2, <1>3, WhereGrew
  <1>5. {i \in Where(stack, K) : i <= n - 1} = Where(stack, K) \ {n}
    BY <1>2 DEF Where
  <1>6. Where(more, K) = {}
    <2>1. ASSUME NEW j \in 1 .. Len(more) PROVE Kind(more[j]) \notin K
      BY <1>1, <2>1 DEF Follows
    <2> QED
      BY <2>1 DEF Where
  <1>10. \A i \in 1 .. n - 1 : stack'[i] = stack[i]
    BY <1>3 DEF Grew
  <1>11. Spares({Kind(Top), "code"})
    BY <1>1 DEF Turned
  <1> QED
    BY <1>2, <1>4, <1>5, <1>6, <1>10, <1>11

-----------------------------------------------------------------------------
\* A reader's step that makes and answers nothing.
LEMMA ReaderRich ==
  ASSUME Typed, UNCHANGED <<made, given>>
  PROVE  /\ Richer /\ Frame' = Frame /\ Chunk' = Chunk /\ Reading' = Reading
         /\ readable \in Reading /\ ending \in BOOLEAN /\ got \in Seq(1 .. made) /\ unfed \subseteq Dsts
  <1>1. Richer /\ Frame' = Frame /\ Chunk' = Chunk
    BY AsRich
  <1>2. Reading' = Reading
    BY <1>1, Zenon DEF Reading, PipeTo
  <1> QED
    BY <1>1, <1>2 DEF Typed, Noted

LEMMA PlacePushedTyped ==
  ASSUME Typed, PlacePushed
  PROVE  /\ Typed' /\ Top \in PushFrame
         /\ \/ /\ Flows /\ UNCHANGED readable /\ Became(Deliver(Top.chunk))
               /\ Kind(Deliver(Top.chunk)) = "data" /\ Deliver(Top.chunk).chunk = Top.chunk
            \/ readable' = Buffered(Top.chunk) /\ Left
  <1>1. /\ Richer /\ Frame' = Frame /\ Chunk' = Chunk /\ Reading' = Reading
        /\ readable \in Reading /\ ending \in BOOLEAN
    BY ReaderRich DEF PlacePushed, reads
  <1>2. Top \in PushFrame /\ Top.chunk \in Chunk /\ Top.at # "host"
    BY TopIs, KindOf DEF PlacePushed, PushFrame
  <1>3. "readable" \in Events \ {"write", "final"}
    BY DEF Events
  <1>4. CASE Flows /\ readable.length = 0
    <2>1. PICK f : f = Deliver(Top.chunk)
      OBVIOUS
    <2>2. f \in DeliverFrame /\ f.at = "deliver" /\ f.stage = "data" /\ f.chunk = Top.chunk
      BY <1>2, <2>1 DEF Deliver, DeliverFrame
    <2>3. f \in Frame' /\ Kind(f) = "data"
      BY <1>1, <2>2, FrameIs DEF Kind
    <2>4. stack' = With(f) /\ UNCHANGED readable
      BY <1>4, <2>1 DEF PlacePushed
    <2>5. Became(f) /\ Stacked'
      BY <1>1, <1>2, <1>3, <2>2, <2>3, <2>4, Becomes
    <2>6. Typed'
      BY <1>1, <2>4, <2>5, ReaderKeeps DEF PlacePushed, OnlyReadable, writes, reads, Typed, Noted
    <2> QED
      BY <1>2, <1>4, <2>1, <2>2, <2>3, <2>4, <2>5, <2>6
  <1>5. CASE ~(Flows /\ readable.length = 0)
    <2>1. readable' = Buffered(Top.chunk)
      BY <1>5 DEF PlacePushed
    <2>2. stack' = Return \/ stack' = Return \o Calls("readable")
      <3>1. <<>> \in Seq(Frame) /\ Return \in Seq(Frame)
        <4>1. PICK s : s = stack /\ s \in Seq(Frame) /\ Len(s) >= 1 /\ Top \in Frame
          BY TopIs
        <4>2. Front(s) \in Seq(Frame)
          BY <4>1, Forms
        <4> QED
          BY <4>1, <4>2 DEF Return
      <3>2. Return \o <<>> = Return
        BY <3>1, ConcatEmptySeq
      <3> QED
        BY <1>5, <3>2 DEF PlacePushed
    <2>3. Left /\ Stacked'
      BY <1>1, <1>2, <1>3, <2>2, Leaves
    <2>4. readable' \in Reading
      <3>1. PICK b : b = Append(readable.buf, Top.chunk) /\ b \in Seq(Chunk)
        <4>1. readable.buf \in Seq(Chunk)
          BY <1>1 DEF Reading
        <4>2. PICK S, q, c : S = Chunk /\ q = readable.buf /\ c = Top.chunk /\ q \in Seq(S) /\ c \in S
          BY <1>2, <4>1
        <4>3. Append(q, c) \in Seq(S)
          BY <4>2
        <4> QED
          BY <4>2, <4>3
      <3>2. PICK n \in Nat : n = readable.length + Top.chunk.size
        <4>1. readable.length \in Nat
          BY <1>1 DEF Reading
        <4>2. Top.chunk.size \in Nat
          BY <1>2, SizesAssumption DEF Chunk
        <4> QED
          BY <4>1, <4>2
      <3>3. readable' = [readable EXCEPT !.buf = b, !.length = n]
        BY <2>1, <3>1, <3>2 DEF Buffered
      <3> QED
        BY <1>1, <3>1, <3>2, <3>3 DEF Reading
    <2>5. Typed'
      BY <1>1, <2>3, <2>4, ReaderKeeps DEF PlacePushed, OnlyReadable, writes, reads, Typed, Noted
    <2> QED
      BY <1>2, <2>1, <2>3, <2>5
  <1> QED
    BY <1>4, <1>5

LEMMA ResumeStartsTyped ==
  ASSUME Typed, ResumeStarts
  PROVE  Typed' /\ Became(DrainAll) /\ Kind(DrainAll) = "drainAll" /\ Kind(Top) = "resume"
  <1>1. /\ Richer /\ Frame' = Frame /\ Chunk' = Chunk /\ Reading' = Reading
        /\ readable \in Reading /\ ending \in BOOLEAN
    BY ReaderRich DEF ResumeStarts, reads
  <1>2. DrainAll \in Frame' /\ DrainAll.at = "drainAll" /\ Kind(DrainAll) = "drainAll"
    BY PlainFrames
  <1>3. "resume" \in Events \ {"write", "final"} /\ Top.at = "resume" /\ Kind(Top) = "resume"
    BY TopKind DEF Events, ResumeStarts
  <1>4. stack' = With(DrainAll) \/ stack' = With(DrainAll) \o Calls("resume")
    <2>1. PICK S, d : S = Frame /\ d = DrainAll /\ d \in S
      BY <1>1, <1>2
    <2>2. stack \in Seq(S) /\ <<>> \in Seq(S) /\ Len(stack) >= 1
      BY <2>1, TopIs
    <2>3. PICK w : w = With(d) /\ w \in Seq(S)
      BY <2>1, <2>2, Forms DEF With
    <2>4. w \o <<>> = w
      BY <2>3, ConcatEmptySeq
    <2> QED
      BY <2>1, <2>3, <2>4 DEF ResumeStarts
  <1>5. Became(DrainAll) /\ Stacked'
    BY <1>1, <1>2, <1>3, <1>4, Becomes
  <1>6. readable' \in Reading
    BY <1>1 DEF ResumeStarts, Reading
  <1> QED
    BY <1>1, <1>2, <1>3, <1>5, <1>6, ReaderKeeps DEF ResumeStarts, OnlyReadable, writes, reads, Typed, Noted

LEMMA DrainOneTyped ==
  ASSUME Typed, DrainOne
  PROVE  /\ Typed' /\ readable.buf # <<>> /\ readable' = Shifted(readable)
         /\ Topped(Deliver(Head(readable.buf))) /\ Kind(Deliver(Head(readable.buf))) = "data"
         /\ Deliver(Head(readable.buf)).chunk = Head(readable.buf)
  <1>1. /\ Richer /\ Frame' = Frame /\ Chunk' = Chunk /\ Reading' = Reading
        /\ readable \in Reading /\ ending \in BOOLEAN
    BY ReaderRich DEF DrainOne, reads
  <1>2. Shifted(readable) \in Reading' /\ Head(readable.buf) \in Chunk'
    BY <1>1, ShiftedTyped DEF DrainOne
  <1>3. PICK c : c = Head(readable.buf)
    OBVIOUS
  <1>4. PICK f : f = Deliver(c)
    OBVIOUS
  <1>5. f \in DeliverFrame /\ f.at = "deliver" /\ f.stage = "data" /\ f.chunk = c
    BY <1>1, <1>2, <1>3, <1>4 DEF Deliver, DeliverFrame
  <1>6. f \in Frame' /\ Kind(f) = "data"
    BY <1>1, <1>5, FrameIs DEF Kind
  <1>7. Topped(f) /\ Stacked'
    BY <1>1, <1>3, <1>4, <1>5, <1>6, Tops DEF DrainOne
  <1> QED
    BY <1>1, <1>2, <1>3, <1>4, <1>5, <1>6, <1>7, ReaderKeeps DEF DrainOne, OnlyReadable, writes, reads, Typed, Noted

LEMMA DrainedTyped ==
  ASSUME Typed, Drained
  PROVE  Typed' /\ Left /\ Kind(Top) = "drainAll"
  <1>1. /\ Richer /\ Frame' = Frame /\ Chunk' = Chunk /\ Reading' = Reading
        /\ readable \in Reading /\ ending \in BOOLEAN
    BY ReaderRich DEF Drained, reads
  <1>3. "resume" \in Events \ {"write", "final"} /\ Top.at = "drainAll" /\ Kind(Top) = "drainAll"
    BY TopKind DEF Events, Drained
  <1>5. Left /\ Stacked'
    BY <1>1, <1>3, Leaves DEF Drained
  <1>6. ending' \in BOOLEAN
    BY <1>1 DEF Drained, ScheduleEnd
  <1> QED
    BY <1>1, <1>3, <1>5, <1>6, ReaderKeeps DEF Drained, OnlyReadable, writes, reads, Typed, Noted

\* The stages of a delivery.
LEMMA DeliverTop ==
  ASSUME Typed, Top.at = "deliver"
  PROVE  /\ Top \in DeliverFrame /\ Top.chunk \in Chunk /\ Top.left \in Seq(Dsts) /\ Top.ok \in BOOLEAN
         /\ Top.stage \in {"data", "pipes", "write"}
         /\ Kind(Top) = IF Top.stage = "data" THEN "data" ELSE "deliver"
         /\ \A f \in DeliverFrame : f \in Frame /\ f.at = "deliver"
              /\ Kind(f) = IF f.stage = "data" THEN "data" ELSE "deliver"
  <1>1. Top \in DeliverFrame
    BY TopIs, KindOf
  <1>2. ASSUME NEW f \in DeliverFrame
        PROVE  f \in Frame /\ f.at = "deliver" /\ Kind(f) = IF f.stage = "data" THEN "data" ELSE "deliver"
    <2>1. f.at = "deliver"
      BY DEF DeliverFrame
    <2> QED
      BY <2>1, FrameIs DEF Kind
  <1> QED
    BY <1>1, <1>2 DEF DeliverFrame

LEMMA DeliverDataTyped ==
  ASSUME Typed, DeliverData
  PROVE  /\ Typed' /\ Kind(Top) = "data" /\ Top \in DeliverFrame
         /\ Became([Top EXCEPT !.stage = "pipes"])
         /\ Kind([Top EXCEPT !.stage = "pipes"]) = "deliver"
         /\ [Top EXCEPT !.stage = "pipes"] \in DeliverFrame
  <1>1. /\ Richer /\ Frame' = Frame /\ Chunk' = Chunk /\ Reading' = Reading
        /\ readable \in Reading /\ ending \in BOOLEAN /\ got \in Seq(1 .. made)
    BY ReaderRich DEF DeliverData
  <1>2. Top.at = "deliver" /\ Top.stage = "data"
    BY DEF DeliverData, Delivering
  <1>3. /\ Top \in DeliverFrame /\ Top.chunk \in Chunk /\ Kind(Top) = "data"
        /\ \A f \in DeliverFrame : f \in Frame /\ f.at = "deliver"
              /\ Kind(f) = IF f.stage = "data" THEN "data" ELSE "deliver"
    BY <1>2, DeliverTop
  <1>4. PICK f : f = [Top EXCEPT !.stage = "pipes"]
    OBVIOUS
  <1>5. f \in DeliverFrame /\ f.stage = "pipes"
    BY <1>3, <1>4 DEF DeliverFrame
  <1>6. f \in Frame' /\ f.at = "deliver" /\ Kind(f) = "deliver"
    BY <1>1, <1>3, <1>5
  <1>7. "data" \in Events \ {"write", "final"}
    BY DEF Events
  <1>8. stack' = With(f) \o Calls("data")
    BY <1>4 DEF DeliverData
  <1>9. Became(f) /\ Stacked'
    BY <1>1, <1>2, <1>6, <1>7, <1>8, Becomes
  <1>10. got' \in Seq(1 .. made')
    <2>1. Top.chunk.id \in 1 .. made
      BY <1>3 DEF Chunk
    <2>2. PICK S, x : S = 1 .. made /\ x = Top.chunk.id /\ x \in S
      BY <2>1
    <2>3. PICK g : g = got /\ g \in Seq(S)
      BY <1>1, <2>2
    <2>4. Append(g, x) \in Seq(S)
      BY <2>2, <2>3
    <2> QED
      BY <2>2, <2>3, <2>4, Zenon DEF DeliverData
  <1>11. Typed'
    BY <1>1, <1>9, <1>10, ReaderTypes DEF DeliverData, OnlyReadable, writes, Typed, Noted
  <1> QED
    BY <1>3, <1>4, <1>5, <1>6, <1>9, <1>11

LEMMA LooksUpTyped ==
  ASSUME Typed, DeliverLooksUpPipes
  PROVE  /\ Typed' /\ Kind(Top) = "deliver" /\ Top \in DeliverFrame
         /\ \E f \in DeliverFrame :
              /\ Became(f) /\ Kind(f) = "deliver" /\ f.chunk = Top.chunk /\ f.stage = "write"
              /\ f.left = [i \in DOMAIN readable.pipes |-> readable.pipes[i].dst]
              /\ ToSet(f.left) = Targets(readable.pipes)
  <1>1. /\ Richer /\ Frame' = Frame /\ Chunk' = Chunk /\ Reading' = Reading
        /\ readable \in Reading /\ ending \in BOOLEAN
    BY ReaderRich DEF DeliverLooksUpPipes, reads
  <1>2. Top.at = "deliver" /\ Top.stage = "pipes"
    BY DEF DeliverLooksUpPipes, Delivering
  <1>3. /\ Top \in DeliverFrame /\ Top.chunk \in Chunk /\ Kind(Top) = "deliver"
        /\ \A f \in DeliverFrame : f \in Frame /\ f.at = "deliver"
              /\ Kind(f) = IF f.stage = "data" THEN "data" ELSE "deliver"
    BY <1>2, DeliverTop
  <1>4. PICK l : l = [i \in DOMAIN readable.pipes |-> readable.pipes[i].dst]
    OBVIOUS
  <1>5. l \in Seq(Dsts) /\ ToSet(l) = Targets(readable.pipes)
    <2>1. PICK p : p = readable.pipes /\ p \in Seq(PipeTo)
      BY <1>1 DEF Reading
    <2>a. PICK S : S = PipeTo
      OBVIOUS
    <2>b. \A i \in 1 .. Len(p) : p[i] \in S
      BY <2>1, <2>a
    <2>2. \A i \in 1 .. Len(p) : p[i].dst \in Dsts
      BY <2>a, <2>b DEF PipeTo
    <2>3. DOMAIN p = 1 .. Len(p) /\ Len(p) \in Nat
      BY <2>1
    <2>4. l = [i \in 1 .. Len(p) |-> p[i].dst]
      BY <1>4, <2>1, <2>3
    <2>5. l \in Seq(Dsts) /\ DOMAIN l = 1 .. Len(p)
      BY <2>2, <2>3, <2>4
    <2>6. \A i \in 1 .. Len(p) : l[i] = p[i].dst
      BY <2>4
    <2> QED
      BY <2>1, <2>3, <2>5, <2>6, Zenon DEF Targets, ToSet
  <1>6. PICK f : f = [Top EXCEPT !.stage = "write", !.left = l]
    OBVIOUS
  <1>7. f \in DeliverFrame /\ f.stage = "write" /\ f.left = l /\ f.chunk = Top.chunk
    BY <1>3, <1>5, <1>6 DEF DeliverFrame
  <1>8. f \in Frame' /\ f.at = "deliver" /\ Kind(f) = "deliver"
    BY <1>1, <1>3, <1>7
  <1>9. "data" \in Events \ {"write", "final"}
    BY DEF Events
  <1>10. stack' = With(f)
    BY <1>4, <1>6 DEF DeliverLooksUpPipes
  <1>11. Became(f) /\ Stacked'
    BY <1>1, <1>2, <1>8, <1>9, <1>10, Becomes
  <1> QED
    BY <1>1, <1>3, <1>4, <1>5, <1>7, <1>8, <1>11, ReaderKeeps
       DEF DeliverLooksUpPipes, OnlyReadable, writes, reads, Typed, Noted

LEMMA PausesTyped ==
  ASSUME Typed, DeliverPauses
  PROVE  /\ Typed' /\ Kind(Top) = "deliver" /\ Top \in DeliverFrame
         /\ \E f \in DeliverFrame :
              /\ Became(f) /\ Kind(f) = "deliver" /\ f.chunk = Top.chunk /\ f.stage = "write"
              /\ f.left = Top.left /\ Top.stage = "write"
  <1>1. /\ Richer /\ Frame' = Frame /\ Chunk' = Chunk /\ Reading' = Reading
        /\ readable \in Reading /\ ending \in BOOLEAN
    BY ReaderRich DEF DeliverPauses, reads
  <1>2. Top.at = "deliver" /\ Top.stage = "write"
    BY DEF DeliverPauses, Delivering
  <1>3. /\ Top \in DeliverFrame /\ Top.chunk \in Chunk /\ Kind(Top) = "deliver"
        /\ \A f \in DeliverFrame : f \in Frame /\ f.at = "deliver"
              /\ Kind(f) = IF f.stage = "data" THEN "data" ELSE "deliver"
    BY <1>2, DeliverTop
  <1>6. PICK f : f = [Top EXCEPT !.ok = TRUE]
    OBVIOUS
  <1>7. f \in DeliverFrame /\ f.stage = "write" /\ f.left = Top.left /\ f.chunk = Top.chunk
    BY <1>2, <1>3, <1>6 DEF DeliverFrame
  <1>8. f \in Frame' /\ f.at = "deliver" /\ Kind(f) = "deliver"
    BY <1>1, <1>3, <1>7
  <1>9. "pause" \in Events \ {"write", "final"}
    BY DEF Events
  <1>10. stack' = With(f) \o Calls("pause") \/ stack' = With(f)
    <2>1. PICK S : S = Frame /\ f \in S
      BY <1>1, <1>8
    <2>2. stack \in Seq(S) /\ <<>> \in Seq(S) /\ Len(stack) >= 1
      BY <2>1, TopIs
    <2>3. PICK w : w = With(f) /\ w \in Seq(S)
      BY <2>1, <2>2, Forms DEF With
    <2>4. w \o <<>> = w
      BY <2>3, ConcatEmptySeq
    <2> QED
      BY <1>6, <2>3, <2>4 DEF DeliverPauses, PauseCalls
  <1>11. Became(f) /\ Stacked'
    BY <1>1, <1>2, <1>8, <1>9, <1>10, Becomes
  <1>12. readable' \in Reading
    BY <1>1 DEF DeliverPauses, Paused, Reading
  <1> QED
    BY <1>1, <1>2, <1>3, <1>7, <1>8, <1>11, <1>12, ReaderKeeps
       DEF DeliverPauses, OnlyReadable, writes, reads, Typed, Noted

LEMMA DeliveredTyped ==
  ASSUME Typed, Delivered
  PROVE  Typed' /\ Left /\ Kind(Top) = "deliver" /\ Top.stage = "write" /\ Top.left = <<>>
  <1>1. /\ Richer /\ Frame' = Frame /\ Chunk' = Chunk /\ Reading' = Reading
        /\ readable \in Reading /\ ending \in BOOLEAN
    BY ReaderRich DEF Delivered, reads
  <1>3. "resume" \in Events \ {"write", "final"}
    BY DEF Events
  <1>4. Top.at = "deliver" /\ Top.stage = "write" /\ Kind(Top) = "deliver" /\ Top.left = <<>>
    BY TopKind DEF Delivered, Delivering
  <1>5. Left /\ Stacked'
    BY <1>1, <1>3, <1>4, Leaves DEF Delivered
  <1> QED
    BY <1>1, <1>4, <1>5, ReaderKeeps DEF Delivered, OnlyReadable, writes, reads, Typed, Noted

-----------------------------------------------------------------------------
\* A method that calls another goes on as g when f returns.
Called(g, f) == \E more : /\ Turned(Len(stack) - 1, more, {Kind(Top), Kind(g), Kind(f), "code"})
                          /\ Follows(more, 2) /\ more[1] = g /\ more[2] = f

LEMMA CallsAnother ==
  ASSUME Typed, Richer, Top.at # "host", NEW g \in Frame', g.at # "host", NEW f \in Frame', f.at # "host",
         NEW e \in Events \ {"write", "final"},
         \/ stack' = Append(With(g), f) \/ stack' = With(g) \o <<f>>
         \/ stack' = With(g) \o <<f>> \o Calls(e)
  PROVE  Called(g, f) /\ Stacked'
  <1>1. PICK c : c \in {<<>>, Calls(e)} /\ stack' = With(g) \o (<<f>> \o c)
    <2>1. PICK S : S = Frame' /\ g \in S /\ f \in S /\ stack \in Seq(S) /\ <<>> \in Seq(S) /\ Len(stack) >= 1
      BY TopIs, Enriched
    <2>2. PICK w : w = With(g) /\ w \in Seq(S)
      BY <2>1, Forms DEF With
    <2>a. <<f>> \in Seq(S)
      BY <2>1
    <2>3. PICK o : o = <<f>> /\ o \in Seq(S)
      BY <2>a, Zenon
    <2>4. Append(w, f) = w \o o
      BY <2>1, <2>2, <2>3, AppendIsConcat
    <2>5. o \o <<>> = o
      BY <2>3, ConcatEmptySeq
    <2>6. PICK c : c = Calls(e) /\ c \in Seq(S)
      BY <2>1, CallsAre
    <2>7. (w \o o) \o c = w \o (o \o c)
      BY <2>2, <2>3, <2>6, ConcatAssociative
    <2>8. CASE stack' = Append(With(g), f) \/ stack' = With(g) \o <<f>>
      <3>1. stack' = w \o (o \o <<>>)
        BY <2>2, <2>3, <2>4, <2>5, <2>8
      <3> QED
        BY <2>2, <2>3, <3>1, Zenon
    <2>9. CASE stack' = With(g) \o <<f>> \o Calls(e)
      BY <2>2, <2>3, <2>6, <2>7, <2>9, Zenon
    <2> QED
      BY <2>8, <2>9
  <1>2. c \in Seq(Frame') /\ Guests(c) /\ Sorts(c) \subseteq {"code"} /\ Follows(c, 0)
    BY <1>1, CallsAre, CallsFollow
  <1>3. PICK o : o = <<f>> \o c
    OBVIOUS
  <1>4. /\ o \in Seq(Frame') /\ Guests(o) /\ Sorts(o) \subseteq {Kind(f)} \cup Sorts(c)
        /\ Len(o) = 1 + Len(c) /\ o[1] = f /\ \A j \in 1 .. Len(c) : o[1 + j] = c[j]
    BY <1>2, <1>3, FrameAndMore
  <1>5. Turned(Len(stack) - 1, <<g>> \o o, {Kind(Top), Kind(g)} \cup Sorts(o))
    BY <1>1, <1>3, <1>4, TurnsAnd
  <1>6. PICK m : m = <<g>> \o o
    OBVIOUS
  <1>7. Len(m) = 1 + Len(o) /\ m[1] = g /\ \A j \in 1 .. Len(o) : m[1 + j] = o[j]
    BY <1>4, <1>6, FrameAndMore
  <1>8. Turned(Len(stack) - 1, m, {Kind(Top), Kind(g), Kind(f), "code"})
    BY <1>2, <1>4, <1>5, <1>6, SparesMore DEF Turned
  <1>9. Len(c) \in Nat /\ Len(m) = 2 + Len(c) /\ m[2] = f
    <2>1. Len(c) \in Nat
      BY <1>2
    <2>2. 1 \in 1 .. Len(o)
      BY <1>4, <2>1
    <2>3. m[1 + 1] = o[1]
      BY <1>7, <2>2, Zenon
    <2> QED
      BY <1>4, <1>7, <2>1, <2>3
  <1>10. ASSUME NEW j \in 1 .. Len(m), j > 2 PROVE Kind(m[j]) = "code"
    <2>1. j - 2 \in 1 .. Len(c) /\ j - 1 \in 1 .. Len(o) /\ j = 1 + (j - 1) /\ j - 1 = 1 + (j - 2)
      BY <1>4, <1>9, <1>10, SMTT(60)
    <2>2. m[j] = o[j - 1] /\ o[j - 1] = c[j - 2]
      BY <1>4, <1>7, <2>1
    <2>3. j - 2 > 0
      BY <1>10
    <2> QED
      BY <1>2, <2>1, <2>2, <2>3 DEF Follows
  <1>11. Follows(m, 2)
    BY <1>9, <1>10 DEF Follows
  <1> QED
    BY <1>7, <1>8, <1>9, <1>11 DEF Called, Turned, Moved

LEMMA Calling ==
  ASSUME Typed, NEW g, NEW f, Called(g, f), NEW K, "code" \notin K
  PROVE  /\ Where(stack', K) = (Where(stack, K) \ {Len(stack)})
                               \cup (IF Kind(g) \in K THEN {Len(stack)} ELSE {})
                               \cup (IF Kind(f) \in K THEN {Len(stack) + 1} ELSE {})
         /\ stack'[Len(stack)] = g /\ stack'[Len(stack) + 1] = f
         /\ \A i \in 1 .. Len(stack) - 1 : stack'[i] = stack[i]
         /\ Spares({Kind(Top), Kind(g), Kind(f), "code"}) /\ Len(stack') >= Len(stack) + 1
  <1>1. PICK more : /\ Turned(Len(stack) - 1, more, {Kind(Top), Kind(g), Kind(f), "code"})
                    /\ Follows(more, 2) /\ more[1] = g /\ more[2] = f
    BY DEF Called
  <1>2. PICK n \in Nat : n = Len(stack) /\ n >= 1
    BY TopIs
  <1>3. Grew(stack, stack', n - 1, more)
    BY <1>1, <1>2 DEF Turned, Moved
  <1>4. Where(stack', K) = {i \in Where(stack, K) : i <= n - 1} \cup {(n - 1) + j : j \in Where(more, K)}
    BY <1>2, <1>3, WhereGrew
  <1>5. {i \in Where(stack, K) : i <= n - 1} = Where(stack, K) \ {n}
    BY <1>2 DEF Where
  <1>8. Len(more) >= 2 /\ Len(more) \in Nat /\ 1 \in 1 .. Len(more) /\ 2 \in 1 .. Len(more)
    BY <1>1 DEF Follows
  <1>6. Where(more, K) = (IF Kind(g) \in K THEN {1} ELSE {}) \cup (IF Kind(f) \in K THEN {2} ELSE {})
    <2>1. ASSUME NEW j \in 1 .. Len(more), j # 1, j # 2 PROVE Kind(more[j]) \notin K
      BY <1>1, <2>1 DEF Follows
    <2> QED
      BY <1>1, <1>8, <2>1 DEF Where
  <1>7. {(n - 1) + j : j \in Where(more, K)} = (IF Kind(g) \in K THEN {n} ELSE {}) \cup (IF Kind(f) \in K THEN {n + 1} ELSE {})
    <2>1. (n - 1) + 1 = n /\ (n - 1) + 2 = n + 1
      BY <1>2
    <2> QED
      BY <1>6, <2>1
  <1>9. stack'[n] = g /\ stack'[n + 1] = f /\ Len(stack') >= n + 1
    <2>1. (n - 1) + 1 = n /\ (n - 1) + 2 = n + 1
      BY <1>2
    <2> QED
      BY <1>1, <1>2, <1>3, <1>8, <2>1 DEF Grew
  <1>10. \A i \in 1 .. n - 1 : stack'[i] = stack[i]
    BY <1>3 DEF Grew
  <1>11. Spares({Kind(Top), Kind(g), Kind(f), "code"})
    BY <1>1 DEF Turned
  <1> QED
    BY <1>2, <1>4, <1>5, <1>7, <1>9, <1>10, <1>11

LEMMA DeliverWritesTyped ==
  ASSUME Typed, DeliverWrites
  PROVE  /\ Typed' /\ Kind(Top) = "deliver" /\ Top \in DeliverFrame /\ Top.stage = "write" /\ Top.left # <<>>
         /\ \E g \in DeliverFrame, f \in WriteFrame :
              /\ Called(g, f) /\ Kind(g) = "deliver" /\ Kind(f) = "write"
              /\ g.stage = "write" /\ g.left = Tail(Top.left) /\ g.chunk = Top.chunk
              /\ f.dst = Head(Top.left) /\ f.chunk = Top.chunk
  <1>1. /\ Richer /\ Frame' = Frame /\ Chunk' = Chunk /\ Reading' = Reading
        /\ readable \in Reading /\ ending \in BOOLEAN
    BY ReaderRich DEF DeliverWrites, reads
  <1>2. Top.at = "deliver" /\ Top.stage = "write" /\ Top.left # <<>>
    BY DEF DeliverWrites, Delivering
  <1>3. /\ Top \in DeliverFrame /\ Top.chunk \in Chunk /\ Kind(Top) = "deliver" /\ Top.left \in Seq(Dsts)
        /\ \A f \in DeliverFrame : f \in Frame /\ f.at = "deliver"
              /\ Kind(f) = IF f.stage = "data" THEN "data" ELSE "deliver"
    BY <1>2, DeliverTop
  <1>4. PICK h, l : h = Head(Top.left) /\ h \in Dsts /\ l = Tail(Top.left) /\ l \in Seq(Dsts)
    <2>1. PICK q : q = Top.left /\ q \in Seq(Dsts) /\ q # <<>>
      BY <1>2, <1>3
    <2>2. Head(q) \in Dsts /\ Tail(q) \in Seq(Dsts)
      BY <2>1
    <2> QED
      BY <2>1, <2>2
  <1>6. PICK g : g = [Top EXCEPT !.left = l]
    OBVIOUS
  <1>7. g \in DeliverFrame /\ g.stage = "write" /\ g.left = l /\ g.chunk = Top.chunk
    BY <1>2, <1>3, <1>4, <1>6 DEF DeliverFrame
  <1>8. g \in Frame' /\ g.at = "deliver" /\ Kind(g) = "deliver"
    BY <1>1, <1>3, <1>7
  <1>9. PICK f : f = Write(h, Top.chunk, FALSE)
    OBVIOUS
  <1>10. f \in WriteFrame /\ f.at = "write" /\ f.dst = h /\ f.chunk = Top.chunk
    BY <1>3, <1>4, <1>9 DEF Write, WriteFrame
  <1>11. f \in Frame' /\ Kind(f) = "write"
    BY <1>1, <1>10, FrameIs DEF Kind
  <1>12. "pause" \in Events \ {"write", "final"}
    BY DEF Events
  <1>13. stack' = Append(With(g), f)
    BY <1>4, <1>6, <1>9 DEF DeliverWrites
  <1>14. Called(g, f) /\ Stacked'
    BY <1>1, <1>2, <1>8, <1>10, <1>11, <1>12, <1>13, CallsAnother
  <1>15. Typed'
    BY <1>1, <1>14, ReaderKeeps DEF DeliverWrites, OnlyReadable, writes, reads, Typed, Noted
  <1> QED
    BY <1>2, <1>3, <1>4, <1>7, <1>8, <1>10, <1>11, <1>14, <1>15

LEMMA UnpipeTop ==
  ASSUME Typed, Top.at = "unpipe"
  PROVE  /\ Top \in UnpipeFrame /\ Top.which \subseteq Dsts /\ Top.left \in Seq(PipeTo)
         /\ Top.kept \in Seq(PipeTo) /\ Kind(Top) = "unpipe"
         /\ \A f \in UnpipeFrame : f \in Frame /\ f.at = "unpipe" /\ Kind(f) = "unpipe"
  <1>1. Top \in UnpipeFrame
    BY TopIs, KindOf
  <1>2. ASSUME NEW f \in UnpipeFrame PROVE f \in Frame /\ f.at = "unpipe" /\ Kind(f) = "unpipe"
    BY FrameIs DEF Kind, UnpipeFrame
  <1>3. /\ Top.which \subseteq Dsts /\ Top.left \in Seq(PipeTo) /\ Top.kept \in Seq(PipeTo)
    BY <1>1 DEF UnpipeFrame
  <1> QED
    BY <1>1, <1>2, <1>3

LEMMA UnpipeLooksTyped ==
  ASSUME Typed, UnpipeLooks
  PROVE  /\ Typed' /\ Kind(Top) = "unpipe" /\ Top \in UnpipeFrame /\ Top.left # <<>>
         /\ \E f \in UnpipeFrame :
              /\ Became(f) /\ Kind(f) = "unpipe" /\ f.which = Top.which /\ f.left = Tail(Top.left)
              /\ \/ f.kept = Top.kept /\ Head(Top.left).dst \in Top.which
                 \/ f.kept = Append(Top.kept, Head(Top.left))
  <1>1. /\ Richer /\ Frame' = Frame /\ Chunk' = Chunk /\ Reading' = Reading
        /\ readable \in Reading /\ ending \in BOOLEAN
    BY ReaderRich DEF UnpipeLooks, reads
  <1>2. Top.at = "unpipe" /\ Top.left # <<>>
    BY DEF UnpipeLooks
  <1>3. /\ Top \in UnpipeFrame /\ Top.left \in Seq(PipeTo) /\ Top.kept \in Seq(PipeTo) /\ Kind(Top) = "unpipe"
        /\ \A f \in UnpipeFrame : f \in Frame /\ f.at = "unpipe" /\ Kind(f) = "unpipe"
    BY <1>2, UnpipeTop
  <1>4. PICK h, l : h = Head(Top.left) /\ h \in PipeTo /\ l = Tail(Top.left) /\ l \in Seq(PipeTo)
    <2>1. PICK S, q : S = PipeTo /\ q = Top.left /\ q \in Seq(S) /\ q # <<>>
      BY <1>2, <1>3
    <2>2. Head(q) \in S /\ Tail(q) \in Seq(S)
      BY <2>1
    <2> QED
      BY <2>1, <2>2
  <1>5. PICK k : k = Append(Top.kept, h) /\ k \in Seq(PipeTo)
    <2>1. PICK S, q : S = PipeTo /\ q = Top.kept /\ q \in Seq(S) /\ h \in S
      BY <1>3, <1>4
    <2>2. Append(q, h) \in Seq(S)
      BY <2>1
    <2> QED
      BY <2>1, <2>2
  <1>6. PICK n : n = [Top EXCEPT !.left = l]
    OBVIOUS
  <1>7. n \in UnpipeFrame /\ n.which = Top.which /\ n.left = l /\ n.kept = Top.kept
    BY <1>3, <1>4, <1>6 DEF UnpipeFrame
  <1>8. PICK m : m = [n EXCEPT !.kept = k]
    OBVIOUS
  <1>9. m \in UnpipeFrame /\ m.which = Top.which /\ m.left = l /\ m.kept = k
    BY <1>5, <1>7, <1>8 DEF UnpipeFrame
  <1>10. "unpipe" \in Events \ {"write", "final"}
    BY DEF Events
  <1>11. \/ stack' = With(n) \o Calls("unpipe") /\ h.dst \in Top.which
         \/ stack' = With(m)
    BY <1>4, <1>5, <1>6, <1>7, <1>8 DEF UnpipeLooks
  <1>12. CASE stack' = With(n) \o Calls("unpipe") /\ h.dst \in Top.which
    <2>1. n \in Frame' /\ n.at = "unpipe" /\ Kind(n) = "unpipe"
      BY <1>1, <1>3, <1>7
    <2>2. Became(n) /\ Stacked'
      BY <1>1, <1>2, <1>10, <1>12, <2>1, Becomes
    <2>3. Typed'
      BY <1>1, <2>2, ReaderKeeps DEF UnpipeLooks, OnlyReadable, writes, reads, Typed, Noted
    <2> QED
      BY <1>2, <1>3, <1>4, <1>7, <1>12, <2>1, <2>2, <2>3
  <1>13. CASE stack' = With(m)
    <2>1. m \in Frame' /\ m.at = "unpipe" /\ Kind(m) = "unpipe"
      BY <1>1, <1>3, <1>9
    <2>2. Became(m) /\ Stacked'
      BY <1>1, <1>2, <1>10, <1>13, <2>1, Becomes
    <2>3. Typed'
      BY <1>1, <2>2, ReaderKeeps DEF UnpipeLooks, OnlyReadable, writes, reads, Typed, Noted
    <2> QED
      BY <1>2, <1>3, <1>4, <1>5, <1>9, <1>13, <2>1, <2>2, <2>3
  <1> QED
    BY <1>11, <1>12, <1>13

LEMMA UnpipedTyped ==
  ASSUME Typed, Unpiped
  PROVE  Typed' /\ Left /\ Kind(Top) = "unpipe" /\ Top.kept \in Seq(PipeTo)
  <1>1. /\ Richer /\ Frame' = Frame /\ Chunk' = Chunk /\ Reading' = Reading
        /\ readable \in Reading /\ ending \in BOOLEAN /\ unfed \subseteq Dsts
    BY ReaderRich DEF Unpiped, reads
  <1>2. Top.at = "unpipe"
    BY DEF Unpiped
  <1>3. Kind(Top) = "unpipe" /\ Top.kept \in Seq(PipeTo)
    BY <1>2, UnpipeTop
  <1>4. "resume" \in Events \ {"write", "final"}
    BY DEF Events
  <1>5. Left /\ Stacked'
    BY <1>1, <1>2, <1>4, Leaves DEF Unpiped
  <1>6. readable' \in Reading
    BY <1>1, <1>3 DEF Unpiped, Reading
  <1>7. unfed' \subseteq Dsts
    BY <1>1 DEF Unpiped
  <1> QED
    BY <1>1, <1>3, <1>5, <1>6, <1>7, ReaderKeeps DEF Unpiped, reads, Typed

LEMMA EndedTop ==
  ASSUME Typed, Top.at = "ended"
  PROVE  /\ Top \in EndedFrame /\ Top.left \in Seq(PipeTo) /\ Kind(Top) = "ended"
         /\ \A f \in EndedFrame : f \in Frame /\ f.at = "ended" /\ Kind(f) = "ended"
  <1>1. Top \in EndedFrame
    BY TopIs, KindOf
  <1>2. ASSUME NEW f \in EndedFrame PROVE f \in Frame /\ f.at = "ended" /\ Kind(f) = "ended"
    BY FrameIs DEF Kind, EndedFrame
  <1>3. Top.left \in Seq(PipeTo)
    BY <1>1 DEF EndedFrame
  <1> QED
    BY <1>1, <1>2, <1>3

LEMMA EndLooksUpTyped ==
  ASSUME Typed, EndLooksUpPipes
  PROVE  /\ Typed' /\ Kind(Top) = "ended"
         /\ \E f : Became(f) /\ Kind(f) = "ended"
  <1>1. /\ Richer /\ Frame' = Frame /\ Chunk' = Chunk /\ Reading' = Reading
        /\ readable \in Reading /\ ending \in BOOLEAN
    BY ReaderRich DEF EndLooksUpPipes, reads
  <1>2. Top.at = "ended"
    BY DEF EndLooksUpPipes
  <1>3. /\ Top \in EndedFrame /\ Kind(Top) = "ended"
        /\ \A f \in EndedFrame : f \in Frame /\ f.at = "ended" /\ Kind(f) = "ended"
    BY <1>2, EndedTop
  <1>4. PICK p : p = readable.pipes /\ p \in Seq(PipeTo)
    BY <1>1 DEF Reading
  <1>5. PICK f : f = [Top EXCEPT !.stage = "pipes", !.left = p]
    OBVIOUS
  <1>6. f \in EndedFrame
    BY <1>3, <1>4, <1>5 DEF EndedFrame
  <1>7. f \in Frame' /\ f.at = "ended" /\ Kind(f) = "ended"
    BY <1>1, <1>3, <1>6
  <1>8. "pause" \in Events \ {"write", "final"}
    BY DEF Events
  <1>9. stack' = With(f)
    BY <1>4, <1>5 DEF EndLooksUpPipes
  <1>10. Became(f) /\ Stacked'
    BY <1>1, <1>2, <1>7, <1>8, <1>9, Becomes
  <1> QED
    BY <1>1, <1>3, <1>7, <1>10, ReaderKeeps
       DEF EndLooksUpPipes, OnlyReadable, writes, reads, Typed, Noted

LEMMA EndsPipeTyped ==
  ASSUME Typed, EndsPipe
  PROVE  /\ Typed' /\ Kind(Top) = "ended"
         /\ \E g : /\ Kind(g) = "ended"
                   /\ Became(g) \/ \E d \in Dsts : Called(g, End(d)) /\ Kind(End(d)) = "end"
  <1>1. /\ Richer /\ Frame' = Frame /\ Chunk' = Chunk /\ Reading' = Reading
        /\ readable \in Reading /\ ending \in BOOLEAN
    BY ReaderRich DEF EndsPipe, reads
  <1>2. Top.at = "ended" /\ Top.left # <<>>
    BY DEF EndsPipe
  <1>3. /\ Top \in EndedFrame /\ Kind(Top) = "ended" /\ Top.left \in Seq(PipeTo)
        /\ \A f \in EndedFrame : f \in Frame /\ f.at = "ended" /\ Kind(f) = "ended"
    BY <1>2, EndedTop
  <1>4. PICK h, l : h = Head(Top.left) /\ h \in PipeTo /\ l = Tail(Top.left) /\ l \in Seq(PipeTo)
    <2>1. PICK S, q : S = PipeTo /\ q = Top.left /\ q \in Seq(S) /\ q # <<>>
      BY <1>2, <1>3
    <2>2. Head(q) \in S /\ Tail(q) \in Seq(S)
      BY <2>1
    <2> QED
      BY <2>1, <2>2
  <1>5. PICK g : g = [Top EXCEPT !.left = l]
    OBVIOUS
  <1>6. g \in EndedFrame
    BY <1>3, <1>4, <1>5 DEF EndedFrame
  <1>7. g \in Frame' /\ g.at = "ended" /\ Kind(g) = "ended"
    BY <1>1, <1>3, <1>6
  <1>8. "pause" \in Events \ {"write", "final"}
    BY DEF Events
  <1>9. h.dst \in Dsts /\ stack' = With(g) \o (IF h.ends THEN <<End(h.dst)>> ELSE <<>>)
    BY <1>4, <1>5 DEF EndsPipe, PipeTo
  <1>10. CASE h.ends
    <2>1. PICK f : f = End(h.dst)
      OBVIOUS
    <2>2. f \in Frame' /\ f.at = "end" /\ Kind(f) = "end"
      BY <1>9, <2>1, PlainFrames
    <2>3. stack' = With(g) \o <<f>>
      BY <1>9, <1>10, <2>1
    <2>4. Called(g, f) /\ Stacked'
      BY <1>1, <1>2, <1>7, <1>8, <2>2, <2>3, CallsAnother
    <2>5. Typed'
      BY <1>1, <2>4, ReaderKeeps DEF EndsPipe, OnlyReadable, writes, reads, Typed, Noted
    <2> QED
      BY <1>3, <1>7, <1>9, <2>1, <2>2, <2>4, <2>5
  <1>11. CASE ~h.ends
    <2>1. PICK S : S = Frame /\ g \in S
      BY <1>1, <1>7
    <2>2. stack \in Seq(S) /\ <<>> \in Seq(S) /\ Len(stack) >= 1
      BY <2>1, TopIs
    <2>3. PICK w : w = With(g) /\ w \in Seq(S)
      BY <2>1, <2>2, Forms DEF With
    <2>4. w \o <<>> = w
      BY <2>3, ConcatEmptySeq
    <2>5. stack' = With(g)
      BY <1>9, <1>11, <2>3, <2>4
    <2>6. Became(g) /\ Stacked'
      BY <1>1, <1>2, <1>7, <1>8, <2>5, Becomes
    <2>7. Typed'
      BY <1>1, <2>6, ReaderKeeps DEF EndsPipe, OnlyReadable, writes, reads, Typed, Noted
    <2> QED
      BY <1>3, <1>7, <2>6, <2>7
  <1> QED
    BY <1>10, <1>11

LEMMA PipesEndedTyped ==
  ASSUME Typed, PipesEnded
  PROVE  Typed' /\ Left /\ Kind(Top) = "ended"
  <1>1. /\ Richer /\ Frame' = Frame /\ Chunk' = Chunk /\ Reading' = Reading
        /\ readable \in Reading /\ ending \in BOOLEAN
    BY ReaderRich DEF PipesEnded, reads
  <1>2. Top.at = "ended" /\ Kind(Top) = "ended"
    BY TopKind DEF PipesEnded
  <1>4. "resume" \in Events \ {"write", "final"}
    BY DEF Events
  <1>5. Left /\ Stacked'
    BY <1>1, <1>2, <1>4, Leaves DEF PipesEnded
  <1>6. readable' \in Reading
    <2>0. <<>> \in Seq(PipeTo)
      OBVIOUS
    <2>1. PICK p : p = <<>> /\ p \in Seq(PipeTo)
      BY <2>0, Zenon
    <2> QED
      BY <1>1, <2>1 DEF PipesEnded, Reading
  <1> QED
    BY <1>1, <1>2, <1>5, <1>6, ReaderKeeps DEF PipesEnded, OnlyReadable, writes, reads, Typed, Noted

LEMMA PumpTop ==
  ASSUME Typed, Top.at = "pump"
  PROVE  /\ Top \in PumpFrame /\ Kind(Top) = "pump"
         /\ \A s \in {"end", "wait", "prodded"} :
              LET f == [Top EXCEPT !.stage = s] IN f \in Frame' /\ f.at = "pump" /\ Kind(f) = "pump"
  <1>1. Top \in PumpFrame
    BY TopIs, KindOf
  <1>2. ASSUME NEW s \in {"end", "wait", "prodded"}
        PROVE  LET f == [Top EXCEPT !.stage = s] IN f \in Frame' /\ f.at = "pump" /\ Kind(f) = "pump"
    <2>1. PICK f : f = [Top EXCEPT !.stage = s]
      OBVIOUS
    <2>2. f \in PumpFrame /\ f.at = "pump"
      BY <1>1, <2>1 DEF PumpFrame
    <2>3. f \in Frame'
      BY <2>2, Zenon DEF Frame, PumpFrame
    <2>4. Kind(f) = "pump"
      BY <2>2 DEF Kind
    <2> QED
      BY <2>1, <2>2, <2>3, <2>4
  <1> QED
    BY <1>1, <1>2, TopKind

LEMMA PumpEndTyped ==
  ASSUME Typed, PumpEnd
  PROVE  /\ Typed' /\ Kind(Top) = "pump"
         /\ \E g : /\ Kind(g) = "pump"
                   /\ \/ Became(g) /\ UNCHANGED readable
                      \/ /\ EndIsDue /\ readable' = [readable EXCEPT !.readableEnded = TRUE]
                         /\ \E f : Called(g, f) /\ Kind(f) = "ended"
  <1>1. /\ Richer /\ Frame' = Frame /\ Chunk' = Chunk /\ Reading' = Reading
        /\ readable \in Reading /\ ending \in BOOLEAN
    BY ReaderRich DEF PumpEnd, reads
  <1>2. Top.at = "pump" /\ ending' = FALSE
    BY DEF PumpEnd
  <1>3. PICK g : g = [Top EXCEPT !.stage = "wait"]
    OBVIOUS
  <1>4. g \in Frame' /\ g.at = "pump" /\ Kind(g) = "pump" /\ Kind(Top) = "pump"
    BY <1>2, <1>3, PumpTop
  <1>5. "end" \in Events \ {"write", "final"}
    BY DEF Events
  <1>6. \/ /\ EndIsDue /\ readable' = [readable EXCEPT !.readableEnded = TRUE]
           /\ stack' = With(g) \o <<[at |-> "ended", stage |-> "event", left |-> <<>>]>> \o Calls("end")
        \/ stack' = With(g) /\ UNCHANGED readable
    BY <1>3 DEF PumpEnd
  <1>7. CASE stack' = With(g) /\ UNCHANGED readable
    <2>1. Became(g) /\ Stacked'
      BY <1>1, <1>2, <1>4, <1>5, <1>7, Becomes
    <2>2. Typed'
      BY <1>1, <1>2, <1>7, <2>1, ReaderKeeps DEF PumpEnd, OnlyReadable, writes, reads, Typed, Noted
    <2> QED
      BY <1>4, <1>7, <2>1, <2>2
  <1>8. CASE /\ EndIsDue /\ readable' = [readable EXCEPT !.readableEnded = TRUE]
             /\ stack' = With(g) \o <<[at |-> "ended", stage |-> "event", left |-> <<>>]>> \o Calls("end")
    <2>1. PICK f : f = [at |-> "ended", stage |-> "event", left |-> <<>>]
      OBVIOUS
    <2>2. f \in EndedFrame /\ f.at = "ended"
      BY <2>1 DEF EndedFrame
    <2>3. f \in Frame' /\ Kind(f) = "ended"
      BY <1>1, <2>2, FrameIs DEF Kind
    <2>4. stack' = With(g) \o <<f>> \o Calls("end")
      BY <1>8, <2>1
    <2>5. Called(g, f) /\ Stacked'
      BY <1>1, <1>2, <1>4, <1>5, <2>2, <2>3, <2>4, CallsAnother
    <2>6. readable' \in Reading
      BY <1>1, <1>8 DEF Reading
    <2>7. Typed'
      BY <1>1, <1>2, <2>5, <2>6, ReaderKeeps DEF PumpEnd, OnlyReadable, writes, reads, Typed, Noted
    <2> QED
      BY <1>4, <1>8, <2>3, <2>5, <2>7
  <1> QED
    BY <1>6, <1>7, <1>8

\* A chunk that is taken out of the buffer goes to the hands of whoever asked.
LEMMA HandedTyped ==
  ASSUME Typed, made' = made, Len(given') = Len(given), NEW r, r \in Reading, r.buf # <<>>,
         got' = Append(got, Head(r.buf).id)
  PROVE  got' \in Seq(1 .. made') /\ Shifted(r) \in Reading'
  <1>1. Reading' = Reading
    BY Zenon DEF Reading, Chunk, PipeTo
  <1>2. Shifted(r) \in Reading' /\ Head(r.buf).id \in 1 .. made'
    BY <1>1, ShiftedTyped
  <1>3. got \in Seq(1 .. made')
    BY DEF Typed, Noted
  <1>4. PICK S, x, g : S = 1 .. made' /\ x = Head(r.buf).id /\ g = got /\ x \in S /\ g \in Seq(S)
    BY <1>2, <1>3
  <1>5. Append(g, x) \in Seq(S)
    BY <1>4
  <1> QED
    BY <1>2, <1>4, <1>5, Zenon

LEMMA ServeTyped ==
  ASSUME Typed, Top.at = "pump", NEW retry \in BOOLEAN, Serve(retry),
         UNCHANGED <<made, accepted, program>>, OnlyReadable
  PROVE  /\ Typed' /\ Kind(Top) = "pump" /\ Len(given') = Len(given)
         /\ Left \/ \E g : Became(g) /\ Kind(g) = "pump"
  <1>1. /\ readable \in Reading /\ ending \in BOOLEAN /\ given \in Seq(Answers4) /\ Len(given) \in Nat
        /\ made \in Nat /\ got \in Seq(1 .. made)
    BY DEF Typed, Noted, Answers4
  <1>2. PICK g : g = [Top EXCEPT !.stage = "prodded"]
    OBVIOUS
  <1>3. g \in Frame' /\ g.at = "pump" /\ Kind(g) = "pump" /\ Kind(Top) = "pump"
    BY <1>2, PumpTop
  <1>4. "read" \in Events \ {"write", "final"}
    BY DEF Events
  <1>5. \/ UNCHANGED given
        \/ readable.waiter # 0 /\ Answer(readable, "done")
        \/ readable.waiter # 0 /\ Answer(Shifted(readable), "chunk")
    BY Zenon DEF Serve
  <1>6. Len(given') = Len(given) /\ given' \in Seq(Answers4)
    <2>1. CASE UNCHANGED given
      BY <1>1, <2>1
    <2>2. CASE readable.waiter # 0 /\ Answer(readable, "done")
      BY <2>2, WaiterAnswered
    <2>3. CASE readable.waiter # 0 /\ Answer(Shifted(readable), "chunk")
      BY <2>3, WaiterAnswered
    <2> QED
      BY <1>5, <2>1, <2>2, <2>3
  <1>7. Richer
    BY <1>1, <1>6 DEF Richer
  <1>8. Reading' = Reading
    BY <1>6, Zenon DEF Reading, Chunk, PipeTo
  <1>9. ASSUME NEW r \in Reading PROVE [r EXCEPT !.waiter = 0] \in Reading
    <2>1. PICK n : n = 0 /\ n \in 0 .. Len(given)
      BY <1>1
    <2>2. [r EXCEPT !.waiter = n] \in Reading
      BY <2>1 DEF Reading
    <2> QED
      BY <2>1, <2>2
  <1>10. got' \in Seq(1 .. made') /\ readable' \in Reading' /\ ending' \in BOOLEAN
    <2>1. CASE UNCHANGED <<readable, ending, got>>
      BY <1>1, <1>8, <2>1
    <2>2. CASE Answer(readable, "done") /\ UNCHANGED got /\ (UNCHANGED ending \/ ScheduleEnd(TRUE))
      BY <1>1, <1>8, <1>9, <2>2 DEF Answer, ScheduleEnd
    <2>3. CASE /\ readable.buf # <<>> /\ Answer(Shifted(readable), "chunk")
               /\ got' = Append(got, Head(readable.buf).id) /\ UNCHANGED ending
      <3>1. got' \in Seq(1 .. made') /\ Shifted(readable) \in Reading
        BY <1>1, <1>6, <1>8, <2>3, HandedTyped
      <3> QED
        BY <1>1, <1>8, <1>9, <2>3, <3>1 DEF Answer
    <2>4. \/ UNCHANGED <<readable, ending, got>>
          \/ Answer(readable, "done") /\ UNCHANGED got /\ (UNCHANGED ending \/ ScheduleEnd(TRUE))
          \/ /\ readable.buf # <<>> /\ Answer(Shifted(readable), "chunk")
             /\ got' = Append(got, Head(readable.buf).id) /\ UNCHANGED ending
      BY DEF Serve
    <2> QED
      BY <2>1, <2>2, <2>3, <2>4
  <1>11. stack' = Return \/ stack' = With(g) \o Calls("read")
    BY <1>2 DEF Serve
  <1>12. Stacked' /\ (Left \/ \E h : Became(h) /\ Kind(h) = "pump")
    <2>1. CASE stack' = Return
      BY <1>4, <1>7, <2>1, Leaves
    <2>2. CASE stack' = With(g) \o Calls("read")
      BY <1>3, <1>4, <1>7, <2>2, Becomes
    <2> QED
      BY <1>11, <2>1, <2>2
  <1>13. Typed'
    BY <1>1, <1>6, <1>7, <1>10, <1>12, ReaderTypes DEF OnlyReadable, writes, Answers4, Typed, Noted
  <1> QED
    BY <1>3, <1>6, <1>12, <1>13

LEMMA NextTop ==
  ASSUME Typed, Top.at = "next"
  PROVE  Top \in NextFrame /\ Kind(Top) = "next" /\ Top.call \in 1 .. Len(given)
  <1>1. Top \in NextFrame
    BY TopIs, KindOf
  <1> QED
    BY <1>1, TopKind DEF NextFrame

LEMMA NextStepTyped ==
  ASSUME Typed, Top.at = "next", UNCHANGED <<made, accepted>>, OnlyReadable,
         Len(given') = Len(given), given' \in Seq(Answers4), ending' \in BOOLEAN,
         \/ stack' = Return
         \/ \E m \in {<<>>, Calls("read")} : stack' = With([Top EXCEPT !.stage = "prodded"]) \o m,
         got' \in Seq(1 .. made'), readable' \in Reading
  PROVE  /\ Typed'
         /\ stack' = Return => Left
         /\ stack' # Return => \E g : Became(g) /\ Kind(g) = "next" /\ g.call = Top.call
  <1>1. Len(given) \in Nat /\ made \in Nat
    BY DEF Typed, Noted
  <1>2. Richer
    BY <1>1 DEF Richer
  <1>3. PICK g : g = [Top EXCEPT !.stage = "prodded"]
    OBVIOUS
  <1>4. Top \in NextFrame
    BY NextTop
  <1>5. g \in NextFrame /\ g.at = "next" /\ g.call = Top.call
    BY <1>3, <1>4 DEF NextFrame
  <1>6. g \in NextFrame'
    BY <1>5, Zenon DEF NextFrame
  <1>7. g \in Frame'
    BY <1>6, Zenon DEF Frame, NextFrame
  <1>8. Kind(g) = "next"
    BY <1>5 DEF Kind
  <1>9. "read" \in Events \ {"write", "final"}
    BY DEF Events
  <1>10. stack' = Return \/ stack' = With(g) \o Calls("read") \/ stack' = With(g)
    <2>1. PICK S : S = Frame' /\ g \in S /\ stack \in Seq(S) /\ <<>> \in Seq(S) /\ Len(stack) >= 1
      BY <1>2, <1>7, TopIs, Enriched
    <2>3. PICK w : w = With(g) /\ w \in Seq(S)
      BY <2>1, Forms DEF With
    <2>4. w \o <<>> = w
      BY <2>3, ConcatEmptySeq
    <2> QED
      BY <1>3, <2>3, <2>4
  <1>11. /\ Stacked'
         /\ stack' = Return => Left
         /\ stack' # Return => \E h : Became(h) /\ Kind(h) = "next" /\ h.call = Top.call
    <2>1. CASE stack' = Return
      BY <1>2, <1>9, <2>1, Leaves
    <2>2. CASE stack' # Return /\ (stack' = With(g) \o Calls("read") \/ stack' = With(g))
      <3>1. Became(g) /\ Stacked'
        BY <1>2, <1>5, <1>7, <1>9, <2>2, Becomes
      <3> QED
        BY <1>5, <1>8, <2>2, <3>1
    <2> QED
      BY <1>10, <2>1, <2>2
  <1>12. Reading' = Reading
    BY Zenon DEF Reading, Chunk, PipeTo
  <1> QED
    BY <1>1, <1>2, <1>11, <1>12, ReaderTypes DEF OnlyReadable, writes, Answers4, Typed, Noted

LEMMA NextLooksTyped ==
  ASSUME Typed, NextLooks
  PROVE  /\ Typed' /\ Len(given') = Len(given) /\ Top.at = "next"
         /\ \/ Left /\ \E what \in {"chunk", "done"} : given' = [given EXCEPT ![Top.call] = what]
            \/ UNCHANGED given /\ (Left \/ \E g : Became(g) /\ Kind(g) = "next" /\ g.call = Top.call)
  <1>1. /\ readable \in Reading /\ ending \in BOOLEAN /\ given \in Seq(Answers4) /\ Len(given) \in Nat
        /\ made \in Nat /\ got \in Seq(1 .. made)
    BY DEF Typed, Noted, Answers4
  <1>2. Top.at = "next" /\ made' = made /\ accepted' = accepted /\ OnlyReadable
    BY DEF NextLooks
  <1>3. Top.call \in 1 .. Len(given)
    BY <1>2, NextTop
  <1>4. \/ /\ readable.buf # <<>> /\ Hands(readable)
        \/ /\ given' = [given EXCEPT ![Top.call] = "done"] /\ stack' = Return
           /\ UNCHANGED <<readable, ending, got>>
        \/ /\ \E m \in {<<>>, Calls("read")} : stack' = With([Top EXCEPT !.stage = "prodded"]) \o m
           /\ UNCHANGED <<readable, ending, got, given>>
    BY DEF NextLooks
  <1>5. Len(given') = Len(given) /\ given' \in Seq(Answers4)
    <2>1. UNCHANGED given \/ \E what \in Answers4 : given' = [given EXCEPT ![Top.call] = what]
      BY <1>4 DEF Hands, Answers4
    <2> QED
      BY <1>1, <1>3, <2>1, AnswerTyped
  <1>6. got' \in Seq(1 .. made') /\ readable' \in Reading /\ ending' \in BOOLEAN
    <2>1. CASE readable.buf # <<>> /\ Hands(readable)
      <3>1. Reading' = Reading
        BY <1>2, <1>5, Zenon DEF Reading, Chunk, PipeTo
      <3> QED
        BY <1>1, <1>2, <1>5, <2>1, <3>1, HandedTyped DEF Hands
    <2>2. CASE UNCHANGED <<readable, ending, got>>
      BY <1>1, <1>2, <2>2
    <2> QED
      BY <1>4, <2>1, <2>2
  <1>7. \/ stack' = Return
        \/ \E m \in {<<>>, Calls("read")} : stack' = With([Top EXCEPT !.stage = "prodded"]) \o m
    BY <1>4 DEF Hands
  <1>8. /\ Typed'
        /\ stack' = Return => Left
        /\ stack' # Return => \E g : Became(g) /\ Kind(g) = "next" /\ g.call = Top.call
    BY <1>2, <1>5, <1>6, <1>7, NextStepTyped
  <1>9. \/ stack' = Return /\ given' = [given EXCEPT ![Top.call] = "chunk"]
        \/ stack' = Return /\ given' = [given EXCEPT ![Top.call] = "done"]
        \/ UNCHANGED given
    BY <1>4 DEF Hands
  <1> QED
    BY <1>2, <1>5, <1>8, <1>9

LEMMA NextAnswersTyped ==
  ASSUME Typed, NextAnswers
  PROVE  /\ Typed' /\ Left /\ Len(given') = Len(given) /\ Top.at = "next"
  <1>1. /\ readable \in Reading /\ ending \in BOOLEAN /\ given \in Seq(Answers4) /\ Len(given) \in Nat
        /\ made \in Nat /\ got \in Seq(1 .. made)
    BY DEF Typed, Noted, Answers4
  <1>2. Top.at = "next" /\ made' = made /\ accepted' = accepted /\ OnlyReadable
    BY DEF NextAnswers
  <1>3. Top.call \in 1 .. Len(given)
    BY <1>2, NextTop
  <1>4. /\ stack' = Return
        /\ \/ readable.buf # <<>> /\ Hands(readable)
           \/ /\ given' = [given EXCEPT ![Top.call] = "done"] /\ UNCHANGED <<readable, got>>
              /\ ScheduleEnd(readable.ended)
           \/ /\ given' = [given EXCEPT ![Top.call] = "pending"] /\ UNCHANGED got
              /\ readable' = [readable EXCEPT !.waiter = Top.call]
              /\ ScheduleEnd(readable.ended)
    <2>1. CASE readable.buf # <<>>
      BY <2>1 DEF NextAnswers, Hands
    <2>2. CASE readable.buf = <<>> /\ readable.ended
      <3>1. [readable EXCEPT !.waiter = readable.waiter] = readable
        BY <1>1 DEF Reading
      <3> QED
        BY <2>2, <3>1 DEF NextAnswers
    <2>3. CASE readable.buf = <<>> /\ ~readable.ended
      BY <2>3 DEF NextAnswers
    <2> QED
      BY <2>1, <2>2, <2>3
  <1>5. Len(given') = Len(given) /\ given' \in Seq(Answers4)
    <2>1. \E what \in Answers4 : given' = [given EXCEPT ![Top.call] = what]
      BY <1>4 DEF Hands, Answers4
    <2> QED
      BY <1>1, <1>3, <2>1, AnswerTyped
  <1>6. got' \in Seq(1 .. made') /\ readable' \in Reading /\ ending' \in BOOLEAN
    <2>1. CASE readable.buf # <<>> /\ Hands(readable)
      <3>1. Reading' = Reading
        BY <1>2, <1>5, Zenon DEF Reading, Chunk, PipeTo
      <3> QED
        BY <1>1, <1>2, <1>5, <2>1, <3>1, HandedTyped DEF Hands
    <2>2. CASE UNCHANGED <<readable, got>> /\ ScheduleEnd(readable.ended)
      BY <1>1, <1>2, <2>2 DEF ScheduleEnd
    <2>3. CASE readable' = [readable EXCEPT !.waiter = Top.call] /\ UNCHANGED got /\ ScheduleEnd(readable.ended)
      <3>1. PICK n : n = Top.call /\ n \in 0 .. Len(given)
        BY <1>1, <1>3
      <3>2. [readable EXCEPT !.waiter = n] \in Reading
        BY <1>1, <3>1 DEF Reading
      <3> QED
        BY <1>1, <1>2, <2>3, <3>1, <3>2 DEF ScheduleEnd
    <2> QED
      BY <1>4, <2>1, <2>2, <2>3
  <1>8. Typed' /\ Left
    BY <1>2, <1>4, <1>5, <1>6, NextStepTyped
  <1> QED
    BY <1>2, <1>5, <1>8

-----------------------------------------------------------------------------
\* What a write answers is the next thing deliver_data looks at, and changes nothing else.
Alike(f, g) == g = f \/ (/\ f \in DeliverFrame /\ g \in DeliverFrame /\ g.chunk = f.chunk
                         /\ g.stage = f.stage /\ g.left = f.left)
Answered == /\ \A K : "code" \notin K => Where(stack', K) = Where(stack, K) \ {Len(stack)}
            /\ \A i \in 1 .. Len(stack) - 1 : Alike(stack[i], stack'[i])
            /\ Spares({Kind(Top), "code", "deliver", "data"})

LEMMA LeftAnswered ==
  ASSUME Typed, Left
  PROVE  Answered
  <1>1. \A K : "code" \notin K =>
          /\ Where(stack', K) = Where(stack, K) \ {Len(stack)}
          /\ \A i \in 1 .. Len(stack) - 1 : stack'[i] = stack[i]
          /\ Spares({Kind(Top), "code"})
    BY Leaving
  <1>a. "code" \notin {"push"}
    OBVIOUS
  <1>2. PICK K : K = {"push"} /\ "code" \notin K
    BY <1>a, Zenon
  <1>3. /\ \A i \in 1 .. Len(stack) - 1 : stack'[i] = stack[i]
        /\ Spares({Kind(Top), "code"})
    BY <1>1, <1>2, Zenon
  <1>4. Spares({Kind(Top), "code", "deliver", "data"})
    BY <1>3, SparesMore
  <1> QED
    BY <1>1, <1>3, <1>4 DEF Answered, Alike

LEMMA AnswersTyped ==
  ASSUME Typed, Richer, Frame' = Frame, Top.at \in {"write", "drainQueue"}, NEW ok \in BOOLEAN,
         stack' = Answers(ok)
  PROVE  Stacked' /\ Answered
  <1>1. PICK n \in Nat : n = Len(stack) /\ n >= 2 /\ Top = stack[n] /\ Caller = stack[n - 1] /\ Caller \in Frame
                         /\ stack \in Seq(Frame) /\ Top \in Frame /\ (Caller.at # "host" => n >= 3)
    BY TopIs
  <1>2. "resume" \in Events \ {"write", "final"}
    BY DEF Events
  <1>3. CASE Caller.at # "deliver"
    <2>1. stack' = Return
      BY <1>3 DEF Answers
    <2>2. Left /\ Stacked'
      BY <1>2, <2>1, Leaves
    <2> QED
      BY <2>2, LeftAnswered
  <1>4. CASE Caller.at = "deliver"
    <2>1. n >= 3
      BY <1>1, <1>4
    <2>2. Caller \in DeliverFrame
      BY <1>1, <1>4, KindOf
    <2>3. PICK f : f = [Caller EXCEPT !.ok = ok]
      OBVIOUS
    <2>4. /\ f \in DeliverFrame /\ f.at = "deliver" /\ f.chunk = Caller.chunk /\ f.stage = Caller.stage
          /\ f.left = Caller.left
      BY <2>2, <2>3 DEF DeliverFrame
    <2>5. f \in Frame
      BY <2>4, FrameIs
    <2>6. Kind(f) = Kind(Caller) /\ Kind(f) \in {"deliver", "data"}
      BY <1>4, <2>4 DEF Kind
    <2>7. PICK b : b = Front(stack) /\ b \in Seq(Frame) /\ Grew(stack, b, n - 1, <<>>)
      <3>1. <<>> \in Seq(Frame)
        OBVIOUS
      <3>2. Len(stack) >= 1 /\ Len(stack) - 1 = n - 1
        BY <1>1
      <3>3. Front(stack) \in Seq(Frame) /\ Grew(stack, Front(stack), Len(stack) - 1, <<>>)
        BY <1>1, <3>1, <3>2, Forms, Zenon
      <3> QED
        BY <3>2, <3>3
    <2>8. Len(b) = n - 1 /\ \A i \in 1 .. n - 1 : b[i] = stack[i]
      BY <1>1, <2>7 DEF Grew
    <2>9. PICK c : c = Append(Front(b), f) /\ c \in Seq(Frame) /\ Grew(b, c, Len(b) - 1, <<f>>)
      <3>1. <<>> \in Seq(Frame) /\ Len(b) >= 1
        BY <2>1, <2>8
      <3> QED
        BY <2>5, <2>7, <3>1, Forms
    <2>10. Len(c) = n - 1 /\ c[n - 1] = f /\ \A i \in 1 .. n - 2 : c[i] = stack[i]
      <3>0. PICK o : o = <<f>> /\ Len(o) = 1 /\ o[1] = f
        <4>1. Len(<<f>>) = 1 /\ <<f>>[1] = f
          OBVIOUS
        <4> QED
          BY <4>1, Zenon
      <3>1. Grew(b, c, n - 2, o)
        <4>1. Len(b) - 1 = n - 2
          BY <2>1, <2>8
        <4> QED
          BY <2>9, <3>0, <4>1
      <3>2. Len(c) = (n - 2) + 1 /\ (\A i \in 1 .. n - 2 : c[i] = b[i]) /\ c[(n - 2) + 1] = o[1]
        <4>1. 1 \in 1 .. Len(o)
          BY <3>0
        <4> QED
          BY <3>0, <3>1, <4>1 DEF Grew
      <3>3. (n - 2) + 1 = n - 1 /\ \A i \in 1 .. n - 2 : i \in 1 .. n - 1
        BY <2>1
      <3>4. \A i \in 1 .. n - 2 : c[i] = stack[i]
        BY <2>8, <3>2, <3>3
      <3> QED
        BY <3>0, <3>2, <3>3, <3>4
    <2>11. stack' = c
      BY <1>4, <2>3, <2>7, <2>9 DEF Answers, Return
    <2>12. ASSUME NEW i \in 1 .. n - 1 PROVE stack'[i] = IF i = n - 1 THEN f ELSE stack[i]
      <3>1. i = n - 1 \/ i \in 1 .. n - 2
        BY <2>1
      <3>2. i \in 1 .. n - 2 => i # n - 1
        BY <2>1
      <3> QED
        BY <2>10, <2>11, <3>1, <3>2
    <2>13. \A i \in 1 .. n - 1 : /\ Alike(stack[i], stack'[i]) /\ Kind(stack'[i]) = Kind(stack[i])
                                 /\ Kind(stack[i]) \notin {"deliver", "data"} => stack'[i] = stack[i]
      BY <1>1, <2>2, <2>4, <2>6, <2>12 DEF Alike
    <2>14. ASSUME NEW K PROVE Where(stack', K) = Where(stack, K) \ {n}
      <3>1. Len(stack') = n - 1
        BY <2>10, <2>11
      <3>2. Where(stack', K) = {i \in 1 .. n - 1 : Kind(stack'[i]) \in K}
        BY <3>1 DEF Where
      <3>3. Where(stack, K) \ {n} = {i \in 1 .. n - 1 : Kind(stack[i]) \in K}
        BY <1>1 DEF Where
      <3> QED
        BY <2>13, <3>2, <3>3
    <2>15. Spares({Kind(Top), "code", "deliver", "data"})
      <3>1. SUFFICES ASSUME NEW K, K \cap {Kind(Top), "code", "deliver", "data"} = {} PROVE Same(stack, stack', K)
        BY DEF Spares
      <3>2. n \notin Where(stack, K)
        BY <1>1, <3>1 DEF Where
      <3>3. Where(stack', K) = Where(stack, K)
        BY <2>14, <3>2
      <3>4. ASSUME NEW i \in Where(stack, K) PROVE stack'[i] = stack[i]
        <4>1. i \in 1 .. n /\ Kind(stack[i]) \in K /\ i # n
          BY <1>1, <3>2 DEF Where
        <4>2. i \in 1 .. n - 1 /\ Kind(stack[i]) \notin {"deliver", "data"}
          BY <1>1, <3>1, <4>1
        <4> QED
          BY <2>13, <4>2
      <3> QED
        BY <3>3, <3>4 DEF Same
    <2>16. Stacked'
      <3>1. \A i \in 1 .. n - 1 : stack'[i].at = "host" <=> i = 1
        <4>1. \A i \in 1 .. n : stack[i].at = "host" <=> i = 1
          BY <1>1 DEF Typed, Stacked
        <4>2. \A i \in 1 .. n - 1 : i \in 1 .. n
          BY <1>1
        <4>3. n - 1 # 1
          BY <2>1
        <4> QED
          BY <2>4, <2>12, <4>1, <4>2, <4>3
      <3>2. Len(stack') = n - 1 /\ n - 1 >= 1
        BY <2>1, <2>10, <2>11
      <3> QED
        BY <2>9, <2>11, <3>1, <3>2 DEF Stacked
    <2> QED
      BY <1>1, <2>13, <2>14, <2>15, <2>16 DEF Answered
  <1> QED
    BY <1>3, <1>4

\* A writer's step that makes nothing.
LEMMA WriterRich ==
  ASSUME Typed, OnlyWritable
  PROVE  /\ Richer /\ Frame' = Frame /\ Chunk' = Chunk /\ writable \in [Dsts -> Writing]
         /\ UNCHANGED <<readable, ending, made, accepted, got, given, uses>>
  <1>1. UNCHANGED <<readable, ending, made, accepted, got, given, uses>>
    BY DEF OnlyWritable, reads, program
  <1> QED
    BY <1>1, AsRich DEF Typed

LEMMA ChunkIs ==
  ASSUME Typed, NEW c \in Chunk
  PROVE  c.size \in Nat /\ c.id \in Nat /\ c.id \in 1 .. made
  <1>1. made \in Nat
    BY DEF Typed, Noted
  <1>2. c.id \in 1 .. made /\ c.size \in Sizes
    BY DEF Chunk
  <1>3. c.size \in Nat
    BY <1>2, SizesAssumption
  <1> QED
    BY <1>1, <1>2, <1>3

LEMMA WriteTop ==
  ASSUME Typed, Top.at = "write"
  PROVE  Top \in WriteFrame /\ Top.dst \in Dsts /\ Top.chunk \in Chunk /\ Top.cb \in BOOLEAN /\ Kind(Top) = "write"
         /\ Top.chunk.size \in Nat /\ Top.chunk.id \in Nat
  <1>1. Top \in WriteFrame
    BY TopIs, KindOf
  <1>2. Top.dst \in Dsts /\ Top.chunk \in Chunk /\ Top.cb \in BOOLEAN
    BY <1>1 DEF WriteFrame
  <1> QED
    BY <1>1, <1>2, TopKind, ChunkIs

LEMMA WriteStartsTyped ==
  ASSUME Typed, WriteStarts
  PROVE  /\ Typed' /\ Top \in WriteFrame /\ Kind(Top) = "write" /\ Top.dst \in Dsts
         /\ \/ writable[Top.dst].ended /\ Answered /\ unfed' = unfed \cup {Top.dst} /\ UNCHANGED <<writable, offered>>
            \/ /\ ~writable[Top.dst].ended /\ UNCHANGED unfed
               /\ offered' = [offered EXCEPT ![Top.dst] = Append(@, Top.chunk.id)]
               /\ \E b \in BOOLEAN, k \in Nat :
                    writable' = [writable EXCEPT ![Top.dst].queue = Append(@, Top.chunk),
                       ![Top.dst].length = @ + Top.chunk.size, ![Top.dst].needDrain = b,
                       ![Top.dst].callbacks = k]
               /\ \/ Answered /\ writable[Top.dst].corked # 0
                  \/ \E f : Became(f) /\ Kind(f) = "drainQueue" /\ f.dst = Top.dst
  <1>1. /\ Richer /\ Frame' = Frame /\ Chunk' = Chunk /\ writable \in [Dsts -> Writing]
        /\ UNCHANGED <<readable, ending, made, accepted, got, given>>
    BY WriterRich DEF WriteStarts
  <1>2. Top.at = "write"
    BY DEF WriteStarts
  <1>3. PICK d, c : d = Top.dst /\ c = Top.chunk /\ d \in Dsts /\ c \in Chunk /\ Kind(Top) = "write" /\ Top.cb \in BOOLEAN
                    /\ c.size \in Nat /\ c.id \in Nat /\ Top \in WriteFrame
    BY <1>2, WriteTop
  <1>4. PICK ok : ok = (writable[d].length + c.size < HighWater) /\ ok \in BOOLEAN
    <2>0. writable[d].length \in Nat
      BY <1>1, <1>3 DEF Writing
    <2>a. PICK n \in Int : n = writable[d].length + c.size
      BY <1>3, <2>0
    <2>b. PICK m \in Int : m = HighWater
      BY SizesAssumption
    <2>c. (n < m) \in BOOLEAN
      BY SMT
    <2>1. (writable[d].length + c.size < HighWater) \in BOOLEAN
      BY <2>a, <2>b, <2>c, Zenon
    <2> QED
      BY <2>1, Zenon
  <1>5. "resume" \in Events \ {"write", "final"}
    BY DEF Events
  <1>6. CASE writable[d].ended
    <2>1. stack' = Answers(FALSE) /\ unfed' = unfed \cup {d} /\ UNCHANGED <<writable, offered>>
      BY <1>3, <1>6 DEF WriteStarts
    <2>2. Stacked' /\ Answered
      BY <1>1, <1>2, <2>1, AnswersTyped
    <2>3. Typed'
      BY <1>1, <1>3, <2>1, <2>2, WriterKeeps DEF WriteStarts, Typed, Noted
    <2> QED
      BY <1>3, <1>6, <2>1, <2>2, <2>3
  <1>7. CASE ~writable[d].ended
    <2>1. PICK k : k = (IF Top.cb THEN writable[d].callbacks + 1 ELSE writable[d].callbacks) /\ k \in Nat
      <3>1. writable[d].callbacks \in Nat
        BY <1>1, <1>3 DEF Writing
      <3> QED
        BY <3>1
    <2>2. PICK b \in BOOLEAN : b = ~ok
      OBVIOUS
    <2>3. /\ writable' = [writable EXCEPT ![d].queue = Append(@, c), ![d].length = @ + c.size,
                             ![d].needDrain = b, ![d].callbacks = k]
          /\ offered' = [offered EXCEPT ![d] = Append(@, c.id)] /\ UNCHANGED unfed
      BY <1>3, <1>4, <1>7, <2>1, <2>2 DEF WriteStarts
    <2>4. \/ stack' = With(DrainQueue(d, ok)) \/ (stack' = Answers(ok) /\ writable[d].corked # 0)
      BY <1>3, <1>4, <1>7 DEF WriteStarts
    <2>5. Stacked' /\ ((Answered /\ writable[d].corked # 0) \/ \E f : Became(f) /\ Kind(f) = "drainQueue" /\ f.dst = d)
      <3>1. CASE stack' = Answers(ok) /\ writable[d].corked # 0
        BY <1>1, <1>2, <1>4, <3>1, AnswersTyped
      <3>2. CASE stack' = With(DrainQueue(d, ok))
        <4>1. PICK f : f = DrainQueue(d, ok)
          OBVIOUS
        <4>2. f \in Frame' /\ f.at = "drainQueue" /\ Kind(f) = "drainQueue"
          <5>1. d \in Dsts /\ ok \in BOOLEAN
            BY <1>3, <1>4
          <5>2. /\ DrainQueue(d, ok) \in Frame' /\ DrainQueue(d, ok).at = "drainQueue"
                /\ Kind(DrainQueue(d, ok)) = "drainQueue"
            BY ONLY <5>1, PlainFrames, Zenon
          <5> QED
            BY ONLY <4>1, <5>2, Zenon
        <4>3. f.dst = d
          BY <4>1 DEF DrainQueue
        <4>4. Became(f) /\ Stacked'
          BY <1>1, <1>2, <1>5, <3>2, <4>1, <4>2, Becomes
        <4> QED
          BY <4>2, <4>3, <4>4
      <3> QED
        BY <2>4, <3>1, <3>2
    <2>6. writable' \in [Dsts -> Writing]
      <3>1. PICK q : q = Append(writable[d].queue, c) /\ q \in Seq(Chunk)
        <4>1. writable[d].queue \in Seq(Chunk)
          BY <1>1, <1>3 DEF Writing
        <4>2. PICK S, x : S = Chunk /\ x = writable[d].queue /\ x \in Seq(S) /\ c \in S
          BY <1>3, <4>1
        <4>3. Append(x, c) \in Seq(S)
          BY <4>2
        <4> QED
          BY <4>2, <4>3
      <3>2. PICK l : l = writable[d].length + c.size /\ l \in Nat
        <4>1. writable[d].length \in Nat
          BY <1>1, <1>3 DEF Writing
        <4> QED
          BY <1>3, <4>1
      <3>3. PICK w : w = [writable[d] EXCEPT !.queue = q, !.length = l, !.needDrain = b, !.callbacks = k]
        OBVIOUS
      <3>a. PICK u : u = writable[d] /\ u \in Writing
        BY <1>1, <1>3
      <3>b. w = [u EXCEPT !.queue = q, !.length = l, !.needDrain = b, !.callbacks = k]
        BY <3>3, <3>a
      <3>4. w \in Writing
        BY <2>1, <3>1, <3>2, <3>a, <3>b DEF Writing
      <3>5. writable' = [writable EXCEPT ![d] = w]
        BY <2>3, <3>1, <3>2, <3>3, Zenon
      <3> QED
        BY <1>1, <3>4, <3>5
    <2>7. offered' \in [Dsts -> Seq(Nat)]
      <3>1. offered \in [Dsts -> Seq(Nat)]
        BY DEF Typed, Noted
      <3>2. Append(offered[d], c.id) \in Seq(Nat)
        BY <1>3, <3>1
      <3> QED
        BY <2>3, <3>1, <3>2
    <2>8. Typed'
      BY <1>1, <1>3, <2>3, <2>5, <2>6, <2>7, WriterKeeps DEF WriteStarts, Typed, Noted
    <2> QED
      BY <1>3, <1>7, <2>1, <2>3, <2>5, <2>8
  <1> QED
    BY <1>6, <1>7

LEMMA DispatchTyped ==
  ASSUME Typed, Dispatch
  PROVE  /\ Typed' /\ Kind(Top) = "drainQueue" /\ Top.dst \in Dsts /\ writable[Top.dst].queue # <<>>
         /\ Topped(Code("write")) /\ Kind(Code("write")) = "owing"
         /\ LET d == Top.dst
                c == Head(writable[d].queue) IN
            /\ c \in Chunk /\ c.size \in Nat
            /\ pending' = Append(pending, [dst |-> d, size |-> c.size, final |-> FALSE])
            /\ [dst |-> d, size |-> c.size, final |-> FALSE] \in Entry
  <1>1. /\ Richer /\ Frame' = Frame /\ Chunk' = Chunk /\ writable \in [Dsts -> Writing]
        /\ UNCHANGED <<readable, ending, made, accepted, got, given>>
    BY WriterRich DEF Dispatch
  <1>2. Top.at = "drainQueue" /\ Kind(Top) = "drainQueue" /\ Top \in DrainFrame /\ Top.dst \in Dsts
    <2>1. Top.at = "drainQueue"
      BY DEF Dispatch
    <2>2. Top \in DrainFrame
      BY <2>1, TopIs, KindOf
    <2> QED
      BY <2>1, <2>2, TopKind DEF DrainFrame
  <1>3. PICK d \in Dsts : d = Top.dst
    BY <1>2
  <1>4. writable[d].queue \in Seq(Chunk) /\ writable[d].queue # <<>>
    BY <1>1, <1>3 DEF Writing, Dispatch, Drains
  <1>5. PICK c, q : c = Head(writable[d].queue) /\ q = Tail(writable[d].queue) /\ c \in Chunk /\ q \in Seq(Chunk)
    <2>1. PICK S, x : S = Chunk /\ x = writable[d].queue /\ x \in Seq(S) /\ x # <<>>
      BY <1>4
    <2>2. Head(x) \in S /\ Tail(x) \in Seq(S)
      BY <2>1
    <2> QED
      BY <2>1, <2>2
  <1>6. c.size \in Nat /\ c.id \in Nat
    BY <1>5, ChunkIs
  <1>7. /\ writable' = [writable EXCEPT ![d].queue = q]
        /\ arrived' = [arrived EXCEPT ![d] = Append(@, c.id)]
        /\ pending' = Append(pending, [dst |-> d, size |-> c.size, final |-> FALSE])
        /\ stack' = Append(stack, Code("write"))
    BY <1>3, <1>5 DEF Dispatch
  <1>8. PICK e : e = [dst |-> d, size |-> c.size, final |-> FALSE] /\ e \in Entry
    <2>1. PICK n \in Nat, b \in BOOLEAN : n = c.size /\ b = FALSE
      BY <1>6
    <2>2. [dst |-> d, size |-> n, final |-> b] \in Entry
      BY DEF Entry
    <2> QED
      BY <2>1, <2>2, Zenon
  <1>9. pending' \in Seq(Entry)
    <2>1. PICK S, p : S = Entry /\ p = pending /\ p \in Seq(S) /\ e \in S
      BY <1>8 DEF Typed
    <2>2. Append(p, e) \in Seq(S)
      BY <2>1
    <2> QED
      BY <1>7, <1>8, <2>1, <2>2
  <1>10. writable' \in [Dsts -> Writing]
    <2>1. [writable[d] EXCEPT !.queue = q] \in Writing
      BY <1>1, <1>5 DEF Writing
    <2> QED
      BY <1>1, <1>7, <2>1
  <1>11. arrived' \in [Dsts -> Seq(Nat)]
    <2>1. arrived \in [Dsts -> Seq(Nat)]
      BY DEF Typed, Noted
    <2>2. Append(arrived[d], c.id) \in Seq(Nat)
      BY <1>6, <2>1
    <2> QED
      BY <1>7, <2>1, <2>2
  <1>12. Code("write") \in Frame' /\ Code("write").at = "code" /\ Kind(Code("write")) = "owing"
    BY PlainFrames
  <1>13. Topped(Code("write")) /\ Stacked'
    BY <1>1, <1>7, <1>12, Tops
  <1>14. Typed'
    BY <1>1, <1>9, <1>10, <1>11, <1>13, WriterKeeps DEF Dispatch, Typed, Noted
  <1> QED
    BY <1>2, <1>3, <1>4, <1>5, <1>6, <1>7, <1>8, <1>12, <1>13, <1>14

LEMMA QueueDrainedTyped ==
  ASSUME Typed, QueueDrained
  PROVE  /\ Typed' /\ Kind(Top) = "drainQueue" /\ Top.dst \in Dsts /\ Answered
  <1>1. /\ Richer /\ Frame' = Frame /\ Chunk' = Chunk /\ writable \in [Dsts -> Writing]
        /\ UNCHANGED <<readable, ending, made, accepted, got, given>>
    BY WriterRich DEF QueueDrained
  <1>2. Top.at = "drainQueue" /\ Kind(Top) = "drainQueue" /\ Top \in DrainFrame /\ Top.dst \in Dsts /\ Top.ok \in BOOLEAN
    <2>1. Top.at = "drainQueue"
      BY DEF QueueDrained
    <2>2. Top \in DrainFrame
      BY <2>1, TopIs, KindOf
    <2> QED
      BY <2>1, <2>2, TopKind DEF DrainFrame
  <1>3. Stacked' /\ Answered
    BY <1>1, <1>2, AnswersTyped DEF QueueDrained
  <1> QED
    BY <1>1, <1>2, <1>3, WriterKeeps DEF QueueDrained, writes, Typed, Noted

\* Frames of one stage after another.
LEMMA FinalizeTop ==
  ASSUME Typed, Top.at = "finalize"
  PROVE  /\ Top \in FinalizeFrame /\ Top.dst \in Dsts /\ Top.size \in Nat /\ Top.remaining \in Nat
         /\ Kind(Top) = "finalize"
  <1>1. Top \in FinalizeFrame
    BY TopIs, KindOf
  <1> QED
    BY <1>1, TopKind DEF FinalizeFrame

LEMMA ShrinksTyped ==
  ASSUME Typed, FinalizeShrinks
  PROVE  /\ Typed' /\ Kind(Top) = "finalize" /\ Top.dst \in Dsts /\ Top.size \in Nat /\ Shrinks(Top)
         /\ \E f : Became(f) /\ Kind(f) = "finalize" /\ f.stage = "drain"
         /\ \E k \in Nat : LET w == writable[Top.dst] IN
              writable' = [writable EXCEPT ![Top.dst].length = IF w.length > Top.size THEN w.length - Top.size ELSE 0,
                                           ![Top.dst].callbacks = k]
  <1>1. /\ Richer /\ Frame' = Frame /\ Chunk' = Chunk /\ writable \in [Dsts -> Writing]
        /\ UNCHANGED <<readable, ending, made, accepted, got, given>>
    BY WriterRich DEF FinalizeShrinks
  <1>2. Top.at = "finalize" /\ Top.stage = "shrink"
    BY DEF FinalizeShrinks
  <1>3. Top \in FinalizeFrame /\ Kind(Top) = "finalize"
    BY <1>2, FinalizeTop
  <1>4. PICK d \in Dsts, s \in Nat : d = Top.dst /\ s = Top.size
    BY <1>2, FinalizeTop
  <1>5. PICK w \in Writing : w = writable[d]
    BY <1>1
  <1>6. w.length \in Nat /\ w.callbacks \in Nat
    BY <1>5 DEF Writing
  <1>7. PICK r \in Nat : r = IF w.length > s THEN w.length - s ELSE 0
    BY <1>6
  <1>8. PICK k \in Nat : k = IF w.callbacks > 0 THEN w.callbacks - 1 ELSE 0
    BY <1>6
  <1>9. PICK f : f = [Top EXCEPT !.stage = "drain", !.remaining = r]
    OBVIOUS
  <1>10. f \in FinalizeFrame /\ f.at = "finalize" /\ f.stage = "drain"
    BY <1>3, <1>9 DEF FinalizeFrame
  <1>11. f \in Frame' /\ Kind(f) = "finalize"
    BY <1>1, <1>10, FrameIs DEF Kind
  <1>12. /\ writable' = [writable EXCEPT ![d].length = r, ![d].callbacks = IF @ > 0 THEN @ - 1 ELSE 0]
         /\ stack' = With(f) \o (IF w.callbacks > 0 THEN Calls("written") ELSE <<>>)
    BY <1>4, <1>5, <1>7, <1>9 DEF FinalizeShrinks
  <1>13. writable' = [writable EXCEPT ![d].length = r, ![d].callbacks = k]
    <2>1. writable' = [writable EXCEPT ![d] = [w EXCEPT !.length = r, !.callbacks = k]]
      BY <1>1, <1>5, <1>8, <1>12 DEF Writing
    <2> QED
      BY <1>5, <2>1
  <1>14. "written" \in Events \ {"write", "final"}
    BY DEF Events
  <1>15. stack' = With(f) \o Calls("written") \/ stack' = With(f)
    <2>1. PICK S : S = Frame /\ f \in S
      BY <1>1, <1>11
    <2>2. stack \in Seq(S) /\ <<>> \in Seq(S) /\ Len(stack) >= 1
      BY <2>1, TopIs
    <2>3. PICK x : x = With(f) /\ x \in Seq(S)
      BY <2>1, <2>2, Forms DEF With
    <2>4. x \o <<>> = x
      BY <2>3, ConcatEmptySeq
    <2> QED
      BY <1>12, <2>3, <2>4
  <1>16. Became(f) /\ Stacked'
    BY <1>1, <1>2, <1>10, <1>11, <1>14, <1>15, Becomes
  <1>17. writable' \in [Dsts -> Writing]
    <2>1. [w EXCEPT !.length = r, !.callbacks = k] \in Writing
      BY <1>5 DEF Writing
    <2>2. writable' = [writable EXCEPT ![d] = [w EXCEPT !.length = r, !.callbacks = k]]
      BY <1>5, <1>13
    <2> QED
      BY <1>1, <2>1, <2>2
  <1>18. Typed'
    BY <1>1, <1>16, <1>17, WriterKeeps DEF FinalizeShrinks, writes, Typed, Noted
  <1> QED
    BY <1>2, <1>3, <1>4, <1>5, <1>7, <1>10, <1>11, <1>13, <1>16, <1>18 DEF Shrinks

LEMMA DrainsTyped ==
  ASSUME Typed, FinalizeDrains
  PROVE  /\ Typed' /\ Kind(Top) = "finalize" /\ Top.dst \in Dsts /\ ~Shrinks(Top)
         /\ \E f : Became(f) /\ Kind(f) = "maybeFinish"
         /\ \E b \in BOOLEAN : writable' = [writable EXCEPT ![Top.dst].needDrain = b]
  <1>1. /\ Richer /\ Frame' = Frame /\ Chunk' = Chunk /\ writable \in [Dsts -> Writing]
        /\ UNCHANGED <<readable, ending, made, accepted, got, given>>
    BY WriterRich DEF FinalizeDrains
  <1>2. Top.at = "finalize" /\ Top.stage = "drain"
    BY DEF FinalizeDrains
  <1>3. Kind(Top) = "finalize"
    BY <1>2, FinalizeTop
  <1>4. PICK d \in Dsts : d = Top.dst
    BY <1>2, FinalizeTop
  <1>5. PICK w \in Writing : w = writable[d]
    BY <1>1
  <1>6. PICK cleared : cleared = (writable[d].needDrain /\ Top.remaining < HighWater)
    OBVIOUS
  <1>7. PICK b : b \in BOOLEAN /\ b = (w.needDrain /\ ~cleared)
    OBVIOUS
  <1>8. writable' = [writable EXCEPT ![d].needDrain = b]
    BY <1>4, <1>5, <1>6, <1>7, Zenon DEF FinalizeDrains
  <1>9. PICK f : f = MaybeFinish(d)
    OBVIOUS
  <1>10. f \in Frame' /\ f.at = "maybeFinish" /\ Kind(f) = "maybeFinish"
    BY <1>4, <1>9, PlainFrames
  <1>11. "drain" \in Events \ {"write", "final"}
    BY DEF Events
  <1>12. stack' = With(f) \o Calls("drain") \/ stack' = With(f)
    <2>1. PICK S : S = Frame /\ f \in S
      BY <1>1, <1>10
    <2>2. stack \in Seq(S) /\ <<>> \in Seq(S) /\ Len(stack) >= 1
      BY <2>1, TopIs
    <2>3. PICK x : x = With(f) /\ x \in Seq(S)
      BY <2>1, <2>2, Forms DEF With
    <2>4. x \o <<>> = x
      BY <2>3, ConcatEmptySeq
    <2>5. stack' = With(f) \o (IF cleared THEN Calls("drain") ELSE <<>>)
      BY <1>4, <1>6, <1>9, Zenon DEF FinalizeDrains
    <2> QED
      BY <2>3, <2>4, <2>5
  <1>13. Became(f) /\ Stacked'
    BY <1>1, <1>2, <1>10, <1>11, <1>12, Becomes
  <1>14. writable' \in [Dsts -> Writing]
    <2>1. [w EXCEPT !.needDrain = b] \in Writing
      BY <1>5, <1>7 DEF Writing
    <2>2. writable' = [writable EXCEPT ![d] = [w EXCEPT !.needDrain = b]]
      BY <1>5, <1>8
    <2> QED
      BY <1>1, <2>1, <2>2
  <1>15. Typed'
    BY <1>1, <1>13, <1>14, WriterKeeps DEF FinalizeDrains, writes, Typed, Noted
  <1> QED
    BY <1>2, <1>3, <1>4, <1>7, <1>8, <1>10, <1>13, <1>15 DEF Shrinks

LEMMA DstTop ==
  ASSUME Typed, Top.at \in {"end", "maybeFinish", "finish"}
  PROVE  Top.dst \in Dsts /\ Kind(Top) = Top.at
  <1>1. Top \in DstFrame
    BY TopIs, KindOf
  <1> QED
    BY <1>1, TopKind DEF DstFrame

LEMMA EndSetsTyped ==
  ASSUME Typed, EndSets
  PROVE  /\ Typed' /\ Kind(Top) = "end" /\ Top.dst \in Dsts
         /\ \E f : Became(f) /\ Kind(f) = "maybeFinish"
         /\ writable' = [writable EXCEPT ![Top.dst].ended = TRUE]
  <1>1. /\ Richer /\ Frame' = Frame /\ Chunk' = Chunk /\ writable \in [Dsts -> Writing]
        /\ UNCHANGED <<readable, ending, made, accepted, got, given>>
    BY WriterRich DEF EndSets
  <1>2. Top.at = "end"
    BY DEF EndSets
  <1>3. Kind(Top) = "end" /\ Top.dst \in Dsts
    BY <1>2, DstTop
  <1>4. PICK d \in Dsts : d = Top.dst
    BY <1>3
  <1>9. PICK f : f = MaybeFinish(d)
    OBVIOUS
  <1>10. f \in Frame' /\ f.at = "maybeFinish" /\ Kind(f) = "maybeFinish"
    BY <1>9, PlainFrames
  <1>11. "drain" \in Events \ {"write", "final"}
    BY DEF Events
  <1>12. stack' = With(f) /\ writable' = [writable EXCEPT ![d].ended = TRUE]
    BY <1>4, <1>9 DEF EndSets
  <1>13. Became(f) /\ Stacked'
    BY <1>1, <1>2, <1>10, <1>11, <1>12, Becomes
  <1>14. writable' \in [Dsts -> Writing]
    BY <1>1, <1>12 DEF Writing
  <1>15. Typed'
    BY <1>1, <1>13, <1>14, WriterKeeps DEF EndSets, writes, Typed, Noted
  <1> QED
    BY <1>3, <1>4, <1>10, <1>12, <1>13, <1>15

LEMMA MaybeFinishesTyped ==
  ASSUME Typed, MaybeFinishes
  PROVE  /\ Typed' /\ Kind(Top) = "maybeFinish" /\ Top.dst \in Dsts
         /\ \/ UNCHANGED <<writable, pending>> /\ Left
            \/ /\ FinishMayBe(Top.dst) /\ writable' = [writable EXCEPT ![Top.dst].finalCalled = TRUE]
               /\ pending' = Append(pending, [dst |-> Top.dst, size |-> 0, final |-> TRUE])
               /\ [dst |-> Top.dst, size |-> 0, final |-> TRUE] \in Entry
               /\ Became(Code("final")) /\ Kind(Code("final")) = "owing"
            \/ /\ FinishMayBe(Top.dst) /\ UNCHANGED <<writable, pending>>
               /\ \E f : Became(f) /\ Kind(f) = "finish" /\ f.dst = Top.dst
  <1>1. /\ Richer /\ Frame' = Frame /\ Chunk' = Chunk /\ writable \in [Dsts -> Writing]
        /\ UNCHANGED <<readable, ending, made, accepted, got, given>>
    BY WriterRich DEF MaybeFinishes
  <1>2. Top.at = "maybeFinish"
    BY DEF MaybeFinishes
  <1>3. Kind(Top) = "maybeFinish" /\ Top.dst \in Dsts
    BY <1>2, DstTop
  <1>4. PICK d \in Dsts : d = Top.dst
    BY <1>3
  <1>5. "drain" \in Events \ {"write", "final"}
    BY DEF Events
  <1>6. \/ stack' = Return /\ UNCHANGED <<writable, pending>>
        \/ /\ FinishMayBe(d) /\ writable' = [writable EXCEPT ![d].finalCalled = TRUE]
           /\ pending' = Append(pending, [dst |-> d, size |-> 0, final |-> TRUE])
           /\ stack' = With(Code("final"))
        \/ FinishMayBe(d) /\ stack' = With([at |-> "finish", dst |-> d]) /\ UNCHANGED <<writable, pending>>
    BY <1>4, Zenon DEF MaybeFinishes
  <1>7. CASE stack' = Return /\ UNCHANGED <<writable, pending>>
    <2>1. Left /\ Stacked'
      BY <1>1, <1>2, <1>5, <1>7, Leaves
    <2>2. Typed'
      BY <1>1, <1>7, <2>1, WriterKeeps DEF MaybeFinishes, writes, Typed, Noted
    <2> QED
      BY <1>3, <1>7, <2>1, <2>2
  <1>8. CASE /\ FinishMayBe(d) /\ writable' = [writable EXCEPT ![d].finalCalled = TRUE]
             /\ pending' = Append(pending, [dst |-> d, size |-> 0, final |-> TRUE])
             /\ stack' = With(Code("final"))
    <2>1. Code("final") \in Frame' /\ Code("final").at = "code" /\ Kind(Code("final")) = "owing"
      BY PlainFrames
    <2>2. Became(Code("final")) /\ Stacked'
      BY <1>1, <1>2, <1>5, <1>8, <2>1, Becomes
    <2>3. PICK e : e = [dst |-> d, size |-> 0, final |-> TRUE] /\ e \in Entry
      <3>1. PICK n \in Nat, b \in BOOLEAN : n = 0 /\ b = TRUE
        OBVIOUS
      <3>2. [dst |-> d, size |-> n, final |-> b] \in Entry
        BY DEF Entry
      <3> QED
        BY <3>1, <3>2, Zenon
    <2>4. pending' \in Seq(Entry)
      <3>1. PICK S, p : S = Entry /\ p = pending /\ p \in Seq(S) /\ e \in S
        BY <2>3 DEF Typed
      <3>2. Append(p, e) \in Seq(S)
        BY <3>1
      <3> QED
        BY <1>8, <2>3, <3>1, <3>2
    <2>5. writable' \in [Dsts -> Writing]
      BY <1>1, <1>8 DEF Writing
    <2>6. Typed'
      BY <1>1, <2>2, <2>4, <2>5, WriterKeeps DEF MaybeFinishes, writes, Typed, Noted
    <2> QED
      BY <1>3, <1>4, <1>8, <2>1, <2>2, <2>3, <2>6
  <1>9. CASE FinishMayBe(d) /\ stack' = With([at |-> "finish", dst |-> d]) /\ UNCHANGED <<writable, pending>>
    <2>1. PICK f : f = [at |-> "finish", dst |-> d]
      OBVIOUS
    <2>2. f \in Frame' /\ f.at = "finish" /\ Kind(f) = "finish" /\ f.dst = d
      BY <2>1, PlainFrames
    <2>3. Became(f) /\ Stacked'
      BY <1>1, <1>2, <1>5, <1>9, <2>1, <2>2, Becomes
    <2>4. Typed'
      BY <1>1, <1>9, <2>3, WriterKeeps DEF MaybeFinishes, writes, Typed, Noted
    <2> QED
      BY <1>3, <1>4, <1>9, <2>2, <2>3, <2>4
  <1> QED
    BY <1>6, <1>7, <1>8, <1>9

LEMMA FinishTyped ==
  ASSUME Typed, Finish
  PROVE  /\ Typed' /\ Kind(Top) = "finish" /\ Top.dst \in Dsts /\ Left
         /\ writable' = [writable EXCEPT ![Top.dst].finished = TRUE]
  <1>1. /\ Richer /\ Frame' = Frame /\ Chunk' = Chunk /\ writable \in [Dsts -> Writing]
        /\ UNCHANGED <<readable, ending, made, accepted, got, given>>
    BY WriterRich DEF Finish
  <1>2. Top.at = "finish"
    BY DEF Finish
  <1>3. Kind(Top) = "finish" /\ Top.dst \in Dsts
    BY <1>2, DstTop
  <1>4. "finish" \in Events \ {"write", "final"}
    BY DEF Events
  <1>5. stack' = Return \/ stack' = Return \o Calls("finish")
    <2>1. <<>> \in Seq(Frame) /\ Return \in Seq(Frame)
      <3>1. PICK s : s = stack /\ s \in Seq(Frame) /\ Len(s) >= 1 /\ Top \in Frame
        BY TopIs
      <3>2. Front(s) \in Seq(Frame)
        BY <3>1, Forms
      <3> QED
        BY <3>1, <3>2 DEF Return
    <2>2. Return \o <<>> = Return
      BY <2>1, ConcatEmptySeq
    <2> QED
      BY <2>2 DEF Finish
  <1>6. Left /\ Stacked'
    BY <1>1, <1>2, <1>4, <1>5, Leaves
  <1>7. writable' = [writable EXCEPT ![Top.dst].finished = TRUE]
    BY DEF Finish
  <1>8. writable' \in [Dsts -> Writing]
    BY <1>1, <1>3, <1>7 DEF Writing
  <1>9. Typed'
    BY <1>1, <1>6, <1>8, WriterKeeps DEF Finish, writes, Typed, Noted
  <1> QED
    BY <1>3, <1>6, <1>7, <1>9

-----------------------------------------------------------------------------
(***************************************************************************)
(* Which frames each action leaves alone.                                  *)
(***************************************************************************)
Idles == PushNull \/ Read \/ Pause \/ Destroy \/ IteratorReturn \/ HostCalls \/ Cork
Starts == Resumes \/ Pipe \/ ResumeStarts \/ Drained
Pipes == DeliverLooksUpPipes \/ DeliverPauses \/ Delivered \/ DeliverWrites
Unpipes == Unpipe \/ UnpipeLooks \/ Unpiped
Serves == HostPumps \/ PumpServes \/ PumpServesProdded
EndsPipes == EndLooksUpPipes \/ EndsPipe \/ PipesEnded
Nexts == Next_ \/ NextLooks \/ NextAnswers
Queues == WriteStarts \/ QueueDrained \/ Uncork
Finalizes == FinalizeShrinks \/ FinalizeDrains
Completing == Completes \/ CompletesLater

LEMMA NextIs ==
  Next <=> \/ Idles \/ Starts \/ Push \/ PlacePushed \/ DrainOne \/ DeliverData \/ Pipes \/ Unpipes
           \/ Serves \/ PumpEnd \/ EndsPipes \/ Nexts \/ Writes \/ Ends \/ Queues \/ Dispatch
           \/ Finalizes \/ EndSets \/ MaybeFinishes \/ Finish \/ Completing \/ CodeEnds
  BY Zenon DEF Next, ProgramSteps, StreamSteps, Idles, Starts, Pipes, Unpipes, Serves, EndsPipes,
       Nexts, Queues, Finalizes, Completing

LEMMA Spared ==
  ASSUME Typed
  PROVE  /\ \A f : Became(f) => Spares({Kind(Top), Kind(f), "code"})
         /\ \A f : Topped(f) => Spares({Kind(f), "code"})
         /\ Left => Spares({Kind(Top), "code"})
         /\ \A g, f : Called(g, f) => Spares({Kind(Top), Kind(g), Kind(f), "code"})
         /\ \A n, more, A : Turned(n, more, A) => Spares(A)
         /\ Answered => Spares({Kind(Top), "code", "deliver", "data"})
  BY Zenon DEF Became, Topped, Left, Called, Turned, Answered

LEMMA Finite ==
  ASSUME NEW s, Len(s) \in Nat, NEW K
  PROVE  IsFiniteSet(Where(s, K)) /\ Cardinality(Where(s, K)) \in Nat
  <1>1. PICK n \in Nat : n = Len(s)
    OBVIOUS
  <1>2. IsFiniteSet(1 .. n)
    BY FS_Interval
  <1>3. Where(s, K) \subseteq 1 .. n
    BY <1>1 DEF Where
  <1>4. IsFiniteSet(Where(s, K))
    BY <1>2, <1>3, FS_Subset
  <1> QED
    BY <1>4, FS_CardinalityType

\* A completion has an entry to pop.
LEMMA EntryToPop ==
  ASSUME Typed, Owed, Completing
  PROVE  Top.at = "code" /\ pending # <<>> /\ WriteDone /\ held' \in Nat /\ UNCHANGED <<writable, writes>> /\ OnlyWritable
         /\ UNCHANGED uses
  <1>1. pending \in Seq(Entry) /\ held \in Nat /\ Len(pending) \in Nat
    BY DEF Typed
  <1>2. /\ Top.at = "code" /\ WriteDone /\ UNCHANGED <<writable, writes>> /\ OnlyWritable
        /\ \/ Top.owes /\ held' = held
           \/ ~Top.owes /\ held > 0 /\ held' = held - 1
    BY DEF Completing, Completes, CompletesLater
  <1>3. PICK n \in Nat : n = Len(stack) /\ n >= 1 /\ Top = stack[n]
    BY TopIs
  <1>4. PICK c \in Nat : c = Cardinality(Where(stack, {"owing"})) /\ Len(pending) >= held + c
    BY <1>3, Finite DEF Owed
  <1>5. CASE Top.owes /\ held' = held
    <2>1. Kind(Top) = "owing"
      BY <1>2, <1>5, TopKind
    <2>2. n \in Where(stack, {"owing"})
      BY <1>3, <2>1 DEF Where
    <2>3. c # 0
      BY <1>3, <1>4, <2>2, Finite, FS_EmptySet
    <2>4. pending # <<>>
      BY <1>1, <1>4, <2>3
    <2> QED
      BY <1>1, <1>2, <1>5, <2>4 DEF OnlyWritable, program
  <1>6. CASE ~Top.owes /\ held > 0 /\ held' = held - 1
    <2>1. pending # <<>>
      BY <1>1, <1>4, <1>6
    <2> QED
      BY <1>1, <1>2, <1>6, <2>1 DEF OnlyWritable, program
  <1> QED
    BY <1>2, <1>5, <1>6

Touched(A) ==
  \/ Idles /\ A = {"code"}
  \/ Starts /\ A = {"resume", "drainAll", "code"}
  \/ Push /\ A = {"push", "drainAll"}
  \/ PlacePushed /\ A = {"push", "data", "code"}
  \/ DrainOne /\ A = {"data", "code"}
  \/ DeliverData /\ A = {"data", "deliver", "code"}
  \/ Pipes /\ A = {"deliver", "write", "code"}
  \/ Unpipes /\ A = {"unpipe", "code"}
  \/ Serves /\ A = {"pump", "code"}
  \/ PumpEnd /\ A = {"pump", "ended", "code"}
  \/ EndsPipes /\ A = {"ended", "end", "code"}
  \/ Nexts /\ A = {"next", "pump", "code"}
  \/ Writes /\ A = {"write"}
  \/ Ends /\ A = {"end", "write"}
  \/ Queues /\ A = {"write", "drainQueue", "code", "deliver", "data"}
  \/ Dispatch /\ A = {"owing", "code"}
  \/ Finalizes /\ A = {"finalize", "maybeFinish", "code"}
  \/ EndSets /\ A = {"end", "maybeFinish", "code"}
  \/ MaybeFinishes /\ A = {"maybeFinish", "owing", "finish", "code"}
  \/ Finish /\ A = {"finish", "code"}
  \/ Completing /\ A = {"owing", "code", "finish", "finalize"}
  \/ CodeEnds /\ A = {"owing", "code"}

LEMMA Touches ==
  ASSUME Typed, Owed, Next
  PROVE  Typed' /\ \E A : Spares(A) /\ Touched(A)
  <1>0. /\ \A f : Became(f) => Spares({Kind(Top), Kind(f), "code"})
        /\ \A f : Topped(f) => Spares({Kind(f), "code"})
        /\ Left => Spares({Kind(Top), "code"})
        /\ \A g, f : Called(g, f) => Spares({Kind(Top), Kind(g), Kind(f), "code"})
        /\ \A n, more, A : Turned(n, more, A) => Spares(A)
        /\ Answered => Spares({Kind(Top), "code", "deliver", "data"})
    BY Spared
  <1>1. CASE Idles
    <2>1. Typed' /\ Spares({"code"})
      <3>1. CASE PushNull
        BY <3>1, PushNullTyped, SparesMore
      <3>2. CASE Read
        BY <1>0, <3>2, ReadTyped, SparesMore
      <3>3. CASE Pause
        BY <3>3, PauseTyped
      <3>4. CASE Destroy
        BY <3>4, DestroyTyped
      <3>5. CASE IteratorReturn
        BY <3>5, ReturnTyped
      <3>6. CASE HostCalls
        BY <3>6, HostCallsTyped
      <3>7. CASE Cork
        BY <3>7, CorkTyped, SparesMore
      <3> QED
        BY <1>1, <3>1, <3>2, <3>3, <3>4, <3>5, <3>6, <3>7, Zenon DEF Idles
    <2> QED
      BY <1>1, <2>1, Zenon DEF Touched
  <1>2. CASE Starts
    <2>1. Typed' /\ Spares({"resume", "drainAll", "code"})
      <3>1. CASE Resumes
        <4>1. Spares({"resume"})
          BY <1>0, <3>1, ResumesTyped
        <4> QED
          BY <3>1, <4>1, ResumesTyped, SparesMore
      <3>2. CASE Pipe
        BY <3>2, PipeTyped, SparesMore
      <3>3. CASE ResumeStarts
        BY <1>0, <3>3, ResumeStartsTyped, SparesMore
      <3>4. CASE Drained
        BY <1>0, <3>4, DrainedTyped, SparesMore
      <3> QED
        BY <1>2, <3>1, <3>2, <3>3, <3>4, Zenon DEF Starts
    <2> QED
      BY <1>2, <2>1, Zenon DEF Touched
  <1>3. CASE Push
    <2>1. Typed' /\ Spares({"push", "drainAll"})
      BY <1>0, <1>3, PushTyped, SparesMore
    <2> QED
      BY <1>3, <2>1, Zenon DEF Touched
  <1>4. CASE PlacePushed
    <2>1. Typed' /\ Spares({"push", "data", "code"})
      <3>1. Kind(Top) = "push"
        BY <1>4, TopKind DEF PlacePushed
      <3> QED
        BY <1>0, <1>4, <3>1, PlacePushedTyped, SparesMore
    <2> QED
      BY <1>4, <2>1, Zenon DEF Touched
  <1>5. CASE DrainOne
    <2>1. Typed' /\ Spares({"data", "code"})
      BY <1>0, <1>5, DrainOneTyped, SparesMore
    <2> QED
      BY <1>5, <2>1, Zenon DEF Touched
  <1>6. CASE DeliverData
    <2>1. Typed' /\ Spares({"data", "deliver", "code"})
      BY <1>0, <1>6, DeliverDataTyped, SparesMore
    <2> QED
      BY <1>6, <2>1, Zenon DEF Touched
  <1>7. CASE Pipes
    <2>1. Typed' /\ Spares({"deliver", "write", "code"})
      <3>1. CASE DeliverLooksUpPipes
        <4>1. Typed' /\ Kind(Top) = "deliver" /\ \E f : Became(f) /\ Kind(f) = "deliver"
          BY <3>1, LooksUpTyped
        <4> QED
          BY <1>0, <4>1, SparesMore
      <3>2. CASE DeliverPauses
        BY <1>0, <3>2, PausesTyped, SparesMore
      <3>3. CASE Delivered
        BY <1>0, <3>3, DeliveredTyped, SparesMore
      <3>4. CASE DeliverWrites
        BY <1>0, <3>4, DeliverWritesTyped, SparesMore
      <3> QED
        BY <1>7, <3>1, <3>2, <3>3, <3>4, Zenon DEF Pipes
    <2> QED
      BY <1>7, <2>1, Zenon DEF Touched
  <1>8. CASE Unpipes
    <2>1. Typed' /\ Spares({"unpipe", "code"})
      <3>1. CASE Unpipe
        <4>1. Spares({"unpipe"})
          BY <1>0, <3>1, UnpipeTyped
        <4> QED
          BY <3>1, <4>1, UnpipeTyped, SparesMore
      <3>2. CASE UnpipeLooks
        BY <1>0, <3>2, UnpipeLooksTyped, SparesMore
      <3>3. CASE Unpiped
        BY <1>0, <3>3, UnpipedTyped, SparesMore
      <3> QED
        BY <1>8, <3>1, <3>2, <3>3, Zenon DEF Unpipes
    <2> QED
      BY <1>8, <2>1, Zenon DEF Touched
  <1>9. CASE Serves
    <2>1. Typed' /\ Spares({"pump", "code"})
      <3>1. CASE HostPumps
        <4>1. Spares({"pump"})
          BY <1>0, <3>1, HostPumpsTyped
        <4> QED
          BY <3>1, <4>1, HostPumpsTyped, SparesMore
      <3>2. CASE PumpServes \/ PumpServesProdded
        <4>1. PICK retry \in BOOLEAN : Serve(retry) /\ Top.at = "pump" /\ UNCHANGED <<made, accepted, program>> /\ OnlyReadable
          BY <3>2, Zenon DEF PumpServes, PumpServesProdded
        <4>2. Typed' /\ Kind(Top) = "pump" /\ (Left \/ \E g : Became(g) /\ Kind(g) = "pump")
          BY <4>1, ServeTyped
        <4> QED
          BY <1>0, <4>2, SparesMore
      <3> QED
        BY <1>9, <3>1, <3>2, Zenon DEF Serves
    <2> QED
      BY <1>9, <2>1, Zenon DEF Touched
  <1>10. CASE PumpEnd
    <2>1. Typed' /\ Spares({"pump", "ended", "code"})
      BY <1>0, <1>10, PumpEndTyped, SparesMore
    <2> QED
      BY <1>10, <2>1, Zenon DEF Touched
  <1>11. CASE EndsPipes
    <2>1. Typed' /\ Spares({"ended", "end", "code"})
      <3>1. CASE EndLooksUpPipes
        BY <1>0, <3>1, EndLooksUpTyped, SparesMore
      <3>2. CASE EndsPipe
        BY <1>0, <3>2, EndsPipeTyped, SparesMore
      <3>3. CASE PipesEnded
        BY <1>0, <3>3, PipesEndedTyped, SparesMore
      <3> QED
        BY <1>11, <3>1, <3>2, <3>3, Zenon DEF EndsPipes
    <2> QED
      BY <1>11, <2>1, Zenon DEF Touched
  <1>12. CASE Nexts
    <2>1. Typed' /\ Spares({"next", "pump", "code"})
      <3>1. CASE Next_
        <4>1. Typed' /\ (Spares({}) \/ Spares({"next", "pump"}))
          BY <1>0, <3>1, NextTyped
        <4> QED
          BY <4>1, SparesMore
      <3>2. CASE NextLooks
        <4>1. Kind(Top) = "next"
          BY <3>2, NextTop DEF NextLooks
        <4> QED
          BY <1>0, <3>2, <4>1, NextLooksTyped, SparesMore
      <3>3. CASE NextAnswers
        <4>1. Kind(Top) = "next"
          BY <3>3, NextTop DEF NextAnswers
        <4> QED
          BY <1>0, <3>3, <4>1, NextAnswersTyped, SparesMore
      <3> QED
        BY <1>12, <3>1, <3>2, <3>3, Zenon DEF Nexts
    <2> QED
      BY <1>12, <2>1, Zenon DEF Touched
  <1>13. CASE Writes
    <2>1. Typed' /\ Spares({"write"})
      BY <1>0, <1>13, WritesTyped
    <2> QED
      BY <1>13, <2>1, Zenon DEF Touched
  <1>14. CASE Ends
    BY <1>14, EndsTyped, Zenon DEF Touched
  <1>15. CASE Queues
    <2>1. Typed' /\ Spares({"write", "drainQueue", "code", "deliver", "data"})
      <3>1. CASE WriteStarts
        <4>1. /\ Typed' /\ Kind(Top) = "write"
              /\ Answered \/ \E f : Became(f) /\ Kind(f) = "drainQueue"
          BY <3>1, WriteStartsTyped
        <4>2. CASE Answered
          <5>1. Spares({Kind(Top), "code", "deliver", "data"})
            BY <1>0, <4>2
          <5> QED
            BY <4>1, <5>1, SparesMore
        <4>3. CASE \E f : Became(f) /\ Kind(f) = "drainQueue"
          <5>1. PICK f : Became(f) /\ Kind(f) = "drainQueue"
            BY <4>3
          <5>2. Spares({Kind(Top), Kind(f), "code"})
            BY <1>0, <5>1, Zenon
          <5> QED
            BY <4>1, <5>1, <5>2, SparesMore
        <4> QED
          BY <4>1, <4>2, <4>3
      <3>2. CASE QueueDrained
        BY <1>0, <3>2, QueueDrainedTyped, SparesMore
      <3>3. CASE Uncork
        BY <3>3, UncorkTyped, SparesMore
      <3> QED
        BY <1>15, <3>1, <3>2, <3>3, Zenon DEF Queues
    <2> QED
      BY <1>15, <2>1, Zenon DEF Touched
  <1>16. CASE Dispatch
    <2>1. Typed' /\ Spares({"owing", "code"})
      BY <1>0, <1>16, DispatchTyped
    <2> QED
      BY <1>16, <2>1, Zenon DEF Touched
  <1>17. CASE Finalizes
    <2>1. Typed' /\ Spares({"finalize", "maybeFinish", "code"})
      <3>1. CASE FinalizeShrinks
        BY <1>0, <3>1, ShrinksTyped, SparesMore
      <3>2. CASE FinalizeDrains
        BY <1>0, <3>2, DrainsTyped, SparesMore
      <3> QED
        BY <1>17, <3>1, <3>2, Zenon DEF Finalizes
    <2> QED
      BY <1>17, <2>1, Zenon DEF Touched
  <1>18. CASE EndSets
    <2>1. Typed' /\ Spares({"end", "maybeFinish", "code"})
      BY <1>0, <1>18, EndSetsTyped, SparesMore
    <2> QED
      BY <1>18, <2>1, Zenon DEF Touched
  <1>19. CASE MaybeFinishes
    <2>1. Typed' /\ Spares({"maybeFinish", "owing", "finish", "code"})
      <3>1. /\ Typed' /\ Kind(Top) = "maybeFinish"
            /\ Left \/ \E f : Became(f) /\ Kind(f) \in {"owing", "finish"}
        BY <1>19, MaybeFinishesTyped
      <3> QED
        <4>1. CASE Left
          BY <1>0, <3>1, <4>1, SparesMore
        <4>2. CASE \E f : Became(f) /\ Kind(f) \in {"owing", "finish"}
          <5>1. PICK f : Became(f) /\ Kind(f) \in {"owing", "finish"}
            BY <4>2
          <5>2. Spares({Kind(Top), Kind(f), "code"})
            BY <1>0, <5>1, Zenon
          <5> QED
            BY <3>1, <5>1, <5>2, SparesMore
        <4> QED
          BY <3>1, <4>1, <4>2
    <2> QED
      BY <1>19, <2>1, Zenon DEF Touched
  <1>20. CASE Finish
    <2>1. Typed' /\ Spares({"finish", "code"})
      BY <1>0, <1>20, FinishTyped
    <2> QED
      BY <1>20, <2>1, Zenon DEF Touched
  <1>21. CASE Completing
    <2>0. Top.at = "code" /\ pending # <<>> /\ WriteDone /\ held' \in Nat /\ UNCHANGED <<writable, writes>> /\ OnlyWritable
      BY <1>21, EntryToPop
    <2>1. Typed' /\ Spares({Kind(Top), "code", "finish", "finalize"})
      BY <1>0, <2>0, DoneTyped
    <2>2. Kind(Top) \in {"owing", "code"}
      BY <2>0, TopKind
    <2>3. Spares({"owing", "code", "finish", "finalize"})
      BY <2>1, <2>2, SparesMore
    <2> QED
      BY <1>21, <2>1, <2>3, Zenon DEF Touched
  <1>22. CASE CodeEnds
    <2>1. Typed' /\ Spares({Kind(Top)})
      BY <1>0, <1>22, CodeEndsTyped
    <2>2. Kind(Top) \in {"owing", "code"}
      BY <1>22, TopKind DEF CodeEnds
    <2>3. Spares({"owing", "code"})
      BY <2>1, <2>2, SparesMore
    <2> QED
      BY <1>22, <2>1, <2>3, Zenon DEF Touched
  <1> QED
    BY NextIs, <1>1, <1>2, <1>3, <1>4, <1>5, <1>6, <1>7, <1>8, <1>9, <1>10, <1>11, <1>12, <1>13,
       <1>14, <1>15, <1>16, <1>17, <1>18, <1>19, <1>20, <1>21, <1>22, Zenon

-----------------------------------------------------------------------------
(***************************************************************************)
(* What each action leaves as it was.                                      *)
(***************************************************************************)
LEMMA KindsTouched ==
  ASSUME NEW A, Touched(A)
  PROVE  /\ "owing" \in A => Dispatch \/ MaybeFinishes \/ Completing \/ CodeEnds
         /\ "push" \in A => Push \/ PlacePushed
         /\ "data" \in A => PlacePushed \/ DrainOne \/ DeliverData \/ Queues
         /\ "deliver" \in A => DeliverData \/ Pipes \/ Queues
         /\ "resume" \in A => Starts
         /\ "drainAll" \in A => Starts \/ Push
         /\ "write" \in A => Pipes \/ Writes \/ Ends \/ Queues
         /\ "unpipe" \in A => Unpipes
         /\ "pump" \in A => Serves \/ PumpEnd \/ Nexts
         /\ "ended" \in A => PumpEnd \/ EndsPipes
         /\ "end" \in A => EndsPipes \/ Ends \/ EndSets
         /\ "next" \in A => Nexts
         /\ "drainQueue" \in A => Queues
         /\ "finalize" \in A => Finalizes \/ Completing
         /\ "finish" \in A => MaybeFinishes \/ Finish \/ Completing
  <1>1. "owing" \in A => Dispatch \/ MaybeFinishes \/ Completing \/ CodeEnds
    BY DEF Touched
  <1>2. "push" \in A => Push \/ PlacePushed
    BY DEF Touched
  <1>3. "data" \in A => PlacePushed \/ DrainOne \/ DeliverData \/ Queues
    BY DEF Touched
  <1>4. "deliver" \in A => DeliverData \/ Pipes \/ Queues
    BY DEF Touched
  <1>5. "resume" \in A => Starts
    BY DEF Touched
  <1>6. "drainAll" \in A => Starts \/ Push
    BY DEF Touched
  <1>7. "write" \in A => Pipes \/ Writes \/ Ends \/ Queues
    BY DEF Touched
  <1>8. "unpipe" \in A => Unpipes
    BY DEF Touched
  <1>9. "pump" \in A => Serves \/ PumpEnd \/ Nexts
    BY DEF Touched
  <1>10. "ended" \in A => PumpEnd \/ EndsPipes
    BY DEF Touched
  <1>11. "end" \in A => EndsPipes \/ Ends \/ EndSets
    BY DEF Touched
  <1>12. "next" \in A => Nexts
    BY DEF Touched
  <1>13. "drainQueue" \in A => Queues
    BY DEF Touched
  <1>14. "finalize" \in A => Finalizes \/ Completing
    BY DEF Touched
  <1>15. "finish" \in A => MaybeFinishes \/ Finish \/ Completing
    BY DEF Touched
  <1> QED
    BY <1>1, <1>2, <1>3, <1>4, <1>5, <1>6, <1>7, <1>8, <1>9, <1>10, <1>11, <1>12, <1>13, <1>14, <1>15, Zenon

LEMMA Undisturbed ==
  ASSUME Typed, Owed, Next
  PROVE  /\ Dispatch \/ MaybeFinishes \/ Completing \/ CodeEnds \/ Same(stack, stack', {"owing"})
         /\ Push \/ PlacePushed \/ DrainOne \/ DeliverData \/ Queues \/ Same(stack, stack', Hand)
         /\ Push \/ PlacePushed \/ Same(stack, stack', {"push"})
         /\ PlacePushed \/ DrainOne \/ DeliverData \/ Queues \/ Pipes \/ Same(stack, stack', {"data", "deliver"})
         /\ Starts \/ Same(stack, stack', {"resume"})
         /\ PlacePushed \/ DrainOne \/ DeliverData \/ Pipes \/ Writes \/ Ends \/ Queues
              \/ Same(stack, stack', {"data", "deliver", "write"})
         /\ Unpipes \/ Same(stack, stack', {"unpipe"})
         /\ Serves \/ PumpEnd \/ Nexts \/ EndsPipes \/ Ends \/ EndSets
              \/ Same(stack, stack', {"pump", "ended", "end"})
         /\ Nexts \/ Same(stack, stack', {"next"})
         /\ Queues \/ Same(stack, stack', {"drainQueue"})
         /\ Finalizes \/ Completing \/ Same(stack, stack', {"finalize"})
         /\ MaybeFinishes \/ Finish \/ Completing \/ Same(stack, stack', {"finish"})
  <1>1. PICK A : Spares(A) /\ Touched(A)
    BY Touches
  <1>2. \A K : K \cap A = {} => Same(stack, stack', K)
    BY <1>1 DEF Spares
  <1> HIDE DEF Hand
  <1>3. Dispatch \/ MaybeFinishes \/ Completing \/ CodeEnds \/ Same(stack, stack', {"owing"})
    BY <1>1, <1>2, KindsTouched
  <1>4. Push \/ PlacePushed \/ DrainOne \/ DeliverData \/ Queues \/ Same(stack, stack', Hand)
    BY <1>1, <1>2, KindsTouched DEF Hand
  <1>5. Push \/ PlacePushed \/ Same(stack, stack', {"push"})
    BY <1>1, <1>2, KindsTouched
  <1>6. PlacePushed \/ DrainOne \/ DeliverData \/ Queues \/ Pipes \/ Same(stack, stack', {"data", "deliver"})
    BY <1>1, <1>2, KindsTouched
  <1>7. Starts \/ Same(stack, stack', {"resume"})
    BY <1>1, <1>2, KindsTouched
  <1>8. PlacePushed \/ DrainOne \/ DeliverData \/ Pipes \/ Writes \/ Ends \/ Queues
              \/ Same(stack, stack', {"data", "deliver", "write"})
    BY <1>1, <1>2, KindsTouched
  <1>9. Unpipes \/ Same(stack, stack', {"unpipe"})
    BY <1>1, <1>2, KindsTouched
  <1>10. Serves \/ PumpEnd \/ Nexts \/ EndsPipes \/ Ends \/ EndSets
              \/ Same(stack, stack', {"pump", "ended", "end"})
    BY <1>1, <1>2, KindsTouched
  <1>11. Nexts \/ Same(stack, stack', {"next"})
    BY <1>1, <1>2, KindsTouched
  <1>12. Queues \/ Same(stack, stack', {"drainQueue"})
    BY <1>1, <1>2, KindsTouched
  <1>13. Finalizes \/ Completing \/ Same(stack, stack', {"finalize"})
    BY <1>1, <1>2, KindsTouched
  <1>14. MaybeFinishes \/ Finish \/ Completing \/ Same(stack, stack', {"finish"})
    BY <1>1, <1>2, KindsTouched
  <1> QED
    BY <1>3, <1>4, <1>5, <1>6, <1>7, <1>8, <1>9, <1>10, <1>11, <1>12, <1>13, <1>14, Zenon

\* The actions of the reader, of the writer and of the code that runs.
Reads == \/ Push \/ PushNull \/ Read \/ Resumes \/ Pause \/ Pipe \/ Unpipe \/ Destroy \/ Next_
         \/ IteratorReturn \/ PlacePushed \/ ResumeStarts \/ DrainOne \/ Drained \/ DeliverData
         \/ DeliverLooksUpPipes \/ DeliverWrites \/ DeliverPauses \/ Delivered \/ UnpipeLooks
         \/ Unpiped \/ EndLooksUpPipes \/ EndsPipe \/ PipesEnded \/ PumpEnd \/ PumpServes
         \/ PumpServesProdded \/ NextLooks \/ NextAnswers \/ HostPumps \/ HostCalls

LEMMA ReadsKeep ==
  ASSUME Reads
  PROVE  UNCHANGED <<writable, pending, held, offered, arrived, uses>>
  <1>1. OnlyReadable => UNCHANGED <<writable, pending, held, offered, arrived>>
    BY DEF OnlyReadable, writes
  <1>2. UNCHANGED program => UNCHANGED uses
    BY DEF program
  <1>3. \A op : Does(op) => UNCHANGED uses
    BY DEF Does
  <1>4. CASE Push \/ PushNull \/ Read \/ Resumes \/ Pause \/ Destroy \/ Next_ \/ IteratorReturn
    BY <1>1, <1>3, <1>4, Zenon DEF Push, PushNull, Read, Resumes, Pause, Destroy, Next_, IteratorReturn
  <1>5. CASE Pipe \/ Unpipe
    BY <1>3, <1>5 DEF Pipe, Unpipe
  <1>6. CASE PlacePushed \/ ResumeStarts \/ DrainOne \/ Drained \/ DeliverData
    BY <1>1, <1>2, <1>6, Zenon DEF PlacePushed, ResumeStarts, DrainOne, Drained, DeliverData
  <1>7. CASE DeliverLooksUpPipes \/ DeliverWrites \/ DeliverPauses \/ Delivered \/ UnpipeLooks
    BY <1>1, <1>2, <1>7, Zenon DEF DeliverLooksUpPipes, DeliverWrites, DeliverPauses, Delivered, UnpipeLooks
  <1>8. CASE Unpiped
    BY <1>2, <1>8 DEF Unpiped
  <1>9. CASE EndLooksUpPipes \/ EndsPipe \/ PipesEnded \/ PumpEnd \/ PumpServes \/ PumpServesProdded
    BY <1>1, <1>2, <1>9, Zenon DEF EndLooksUpPipes, EndsPipe, PipesEnded, PumpEnd, PumpServes, PumpServesProdded
  <1>10. CASE NextLooks \/ NextAnswers \/ HostPumps \/ HostCalls
    BY <1>1, <1>2, <1>10, Zenon DEF NextLooks, NextAnswers, HostPumps, HostCalls
  <1> QED
    BY <1>4, <1>5, <1>6, <1>7, <1>8, <1>9, <1>10 DEF Reads

Wrote == \/ WriteStarts \/ Dispatch \/ QueueDrained \/ FinalizeShrinks \/ FinalizeDrains
         \/ EndSets \/ MaybeFinishes \/ Finish \/ Completing \/ CodeEnds
Asks == Writes \/ Ends \/ Cork \/ Uncork

LEMMA WroteKeeps ==
  ASSUME Wrote
  PROVE  UNCHANGED <<readable, ending, made, accepted, got, given, uses>>
  <1>1. OnlyWritable => UNCHANGED <<readable, ending, made, accepted, got, given, uses>>
    BY DEF OnlyWritable, reads, program
  <1> QED
    BY <1>1, Zenon DEF Wrote, WriteStarts, Dispatch, QueueDrained, FinalizeShrinks, FinalizeDrains,
       EndSets, MaybeFinishes, Finish, Completing, Completes, CompletesLater, CodeEnds

LEMMA AsksKeep ==
  ASSUME Asks
  PROVE  UNCHANGED <<readable, pending, ending, held, accepted, got, given, offered, arrived, unfed, uses>>
  <1>1. CASE Writes
    BY <1>1 DEF Writes, Does, writes
  <1>2. CASE Ends
    BY <1>2 DEF Ends, Does, writes
  <1>3. CASE Cork
    BY <1>3 DEF Cork, Does, writes, reads
  <1>4. CASE Uncork
    BY <1>4 DEF Uncork, Does, writes, reads
  <1> QED
    BY <1>1, <1>2, <1>3, <1>4 DEF Asks

LEMMA NextParts ==
  Next => Reads \/ Wrote \/ Asks
  BY Zenon DEF Next, ProgramSteps, StreamSteps, Reads, Wrote, Asks, Completing

LEMMA UsesKept ==
  ASSUME Next
  PROVE  uses' = uses
  BY NextParts, ReadsKeep, WroteKeeps, AsksKeep, Zenon

-----------------------------------------------------------------------------
(***************************************************************************)
(* Completions and their entries.                                          *)
(***************************************************************************)
LEMMA SinkKept ==
  ASSUME Next, ~(Dispatch \/ MaybeFinishes \/ Completing \/ CodeEnds)
  PROVE  UNCHANGED <<pending, held>>
  <1>1. CASE Reads \/ Asks
    BY <1>1, ReadsKeep, AsksKeep
  <1>2. CASE Wrote
    BY <1>2 DEF Wrote, WriteStarts, QueueDrained, FinalizeShrinks, FinalizeDrains, EndSets, Finish
  <1> QED
    BY <1>1, <1>2, NextParts

\* How many frames of some kinds there are, after each move.
LEMMA Counted ==
  ASSUME Typed, NEW K, NEW X, X = Where(stack, K)
  PROVE  /\ IsFiniteSet(X) /\ Cardinality(X) \in Nat
         /\ Cardinality(X \cup {Len(stack) + 1}) = Cardinality(X) + 1
         /\ IF Kind(Top) \in K
            THEN /\ Cardinality(X \ {Len(stack)}) = Cardinality(X) - 1
                 /\ (X \ {Len(stack)}) \cup {Len(stack)} = X
            ELSE /\ X \ {Len(stack)} = X
                 /\ Cardinality((X \ {Len(stack)}) \cup {Len(stack)}) = Cardinality(X) + 1
                 /\ Cardinality(X \cup {Len(stack)}) = Cardinality(X) + 1
  <1>1. PICK n \in Nat : n = Len(stack) /\ n >= 1 /\ Top = stack[n]
    BY TopIs
  <1>2. IsFiniteSet(X) /\ Cardinality(X) \in Nat
    BY <1>1, Finite
  <1>3. \A i \in X : i \in 1 .. n
    BY <1>1 DEF Where
  <1>4. n + 1 \notin X
    BY <1>1, <1>3
  <1>5. Cardinality(X \cup {n + 1}) = Cardinality(X) + 1
    BY <1>2, <1>4, FS_AddElement
  <1>6. n \in X <=> Kind(Top) \in K
    BY <1>1 DEF Where
  <1>7. n \in X => Cardinality(X \ {n}) = Cardinality(X) - 1
    BY <1>2, FS_RemoveElement
  <1>8. n \notin X => Cardinality(X \cup {n}) = Cardinality(X) + 1
    BY <1>2, FS_AddElement
  <1>9. n \notin X => X \ {n} = X
    OBVIOUS
  <1>10. n \in X => (X \ {n}) \cup {n} = X
    OBVIOUS
  <1> QED
    BY <1>1, <1>2, <1>5, <1>6, <1>7, <1>8, <1>9, <1>10, Zenon

LEMMA CompletingWhere ==
  ASSUME Typed, Owed, Completing, NEW K, K \cap {"code", "finish", "finalize"} = {}
  PROVE  Where(stack', K) = Where(stack, K) \ {Len(stack)}
  <1>0. Top.at = "code" /\ pending # <<>> /\ WriteDone /\ held' \in Nat /\ UNCHANGED <<writable, writes>> /\ OnlyWritable
    BY EntryToPop
  <1>1. PICK more : /\ Turned(Len(stack) - 1, more, {Kind(Top), "code", "finish", "finalize"})
                    /\ Len(more) = 2 /\ Kind(more[1]) = "code"
                    /\ Kind(more[2]) \in {"finish", "finalize"}
    <2>1. PICK e : e = Last(pending)
      OBVIOUS
    <2>2. PICK more : /\ Turned(Len(stack) - 1, more, {Kind(Top), "code", "finish", "finalize"})
                      /\ Len(more) = 2 /\ Kind(more[1]) = "code"
                      /\ IF e.final THEN more[2] = [at |-> "finish", dst |-> e.dst]
                         ELSE more[2] = [at |-> "finalize", stage |-> "shrink", dst |-> e.dst,
                                         size |-> e.size, remaining |-> 0]
      BY <1>0, <2>1, DoneTyped, Zenon
    <2>3. Kind(more[2]) \in {"finish", "finalize"}
      BY <2>2 DEF Kind
    <2> QED
      BY <2>2, <2>3
  <1>2. PICK n \in Nat : n = Len(stack) /\ n >= 1
    BY TopIs
  <1>3. Grew(stack, stack', n - 1, more)
    BY <1>1, <1>2 DEF Turned, Moved
  <1>4. Where(stack', K) = {i \in Where(stack, K) : i <= n - 1} \cup {(n - 1) + j : j \in Where(more, K)}
    BY <1>2, <1>3, WhereGrew
  <1>5. {i \in Where(stack, K) : i <= n - 1} = Where(stack, K) \ {n}
    BY <1>2 DEF Where
  <1>6. Where(more, K) = {}
    <2>1. ASSUME NEW j \in 1 .. Len(more) PROVE Kind(more[j]) \notin K
      <3>1. j = 1 \/ j = 2
        BY <1>1
      <3> QED
        BY <1>1, <3>1
    <2> QED
      BY <2>1 DEF Where
  <1> QED
    BY <1>2, <1>4, <1>5, <1>6

LEMMA OwedStep ==
  ASSUME Typed, Owed, Next
  PROVE  Owed'
  <1> DEFINE K == {"owing"}
             X == Where(stack, K)
             Y == Where(stack', K)
  <1>0. uses' = uses
    BY UsesKept
  <1>1. PICK n \in Nat : n = Len(stack) /\ n >= 1 /\ Top = stack[n]
    BY TopIs
  <1>2. pending \in Seq(Entry) /\ held \in Nat /\ Len(pending) \in Nat
    BY DEF Typed
  <1>3. Cardinality(X) \in Nat /\ IsFiniteSet(X)
    BY <1>1, Finite
  <1>4. Len(pending) >= held + Cardinality(X) /\ ("defer" \notin uses => held = 0 /\ Len(pending) = Cardinality(X))
    BY DEF Owed
  <1>5. SUFFICES /\ Len(pending') >= held' + Cardinality(Y)
                 /\ "defer" \notin uses => held' = 0 /\ Len(pending') = Cardinality(Y)
    BY <1>0, Zenon DEF Owed
  <1>6. "code" \notin K
    OBVIOUS
  <1>7. /\ Cardinality(X \cup {n + 1}) = Cardinality(X) + 1
        /\ Kind(Top) = "owing" => Cardinality(X \ {n}) = Cardinality(X) - 1
        /\ Kind(Top) # "owing" => /\ X \ {n} = X
                                  /\ Cardinality((X \ {n}) \cup {n}) = Cardinality(X) + 1
    <2>1. PICK J : J = K
      OBVIOUS
    <2>2. X = Where(stack, J) /\ (Kind(Top) \in J <=> Kind(Top) = "owing")
      BY <2>1
    <2>3. PICK Z : Z = X /\ Z = Where(stack, J)
      BY <2>2
    <2> QED
      BY <1>1, <2>2, <2>3, Counted
  <1> HIDE DEF X, Y, K
  <1>8. CASE Dispatch
    <2>1. Y = X \cup {n + 1}
      <3>1. Topped(Code("write")) /\ Kind(Code("write")) = "owing"
        BY <1>8, DispatchTyped
      <3>2. PICK f : f = Code("write")
        OBVIOUS
      <3>3. Y = X \cup (IF Kind(f) \in K THEN {Len(stack) + 1} ELSE {})
        BY <1>6, <3>1, <3>2, Topping, Zenon DEF X, Y
      <3> QED
        BY <1>1, <3>1, <3>2, <3>3 DEF K
    <2>2. PICK e \in Entry : pending' = Append(pending, e)
      BY <1>8, DispatchTyped
    <2>3. Len(pending') = Len(pending) + 1
      BY <1>2, <2>2
    <2>4. held' = held
      BY <1>8 DEF Dispatch
    <2> QED
      BY <1>2, <1>3, <1>4, <1>7, <2>1, <2>3, <2>4
  <1>9. CASE MaybeFinishes
    <2>1. Kind(Top) = "maybeFinish"
      BY <1>9, MaybeFinishesTyped
    <2>2. X \ {n} = X /\ Cardinality((X \ {n}) \cup {n}) = Cardinality(X) + 1
      BY <1>7, <2>1
    <2>3. held' = held
      BY <1>9 DEF MaybeFinishes
    <2>4. \/ UNCHANGED pending /\ Left
          \/ \E e \in Entry : pending' = Append(pending, e) /\ \E f : Became(f) /\ Kind(f) = "owing"
          \/ UNCHANGED pending /\ \E f : Became(f) /\ Kind(f) = "finish"
      BY <1>9, MaybeFinishesTyped
    <2>5. CASE UNCHANGED pending /\ Left
      <3>1. Y = X \ {n}
        BY <1>1, <1>6, <2>5, Leaving, Zenon DEF X, Y
      <3> QED
        BY <1>4, <2>2, <2>3, <2>5, <3>1
    <2>6. CASE \E e \in Entry : pending' = Append(pending, e) /\ \E f : Became(f) /\ Kind(f) = "owing"
      <3>1. PICK e \in Entry : pending' = Append(pending, e)
        BY <2>6
      <3>2. PICK f : Became(f) /\ Kind(f) = "owing"
        BY <2>6
      <3>3. Y = (X \ {n}) \cup (IF Kind(f) \in K THEN {n} ELSE {})
        BY <1>1, <1>6, <3>2, Becoming, Zenon DEF X, Y
      <3>4. Y = (X \ {n}) \cup {n}
        BY <3>2, <3>3 DEF K
      <3>5. Len(pending') = Len(pending) + 1
        BY <1>2, <3>1
      <3> QED
        BY <1>2, <1>3, <1>4, <2>2, <2>3, <3>4, <3>5
    <2>7. CASE UNCHANGED pending /\ \E f : Became(f) /\ Kind(f) = "finish"
      <3>2. PICK f : Became(f) /\ Kind(f) = "finish"
        BY <2>7
      <3>3. Y = (X \ {n}) \cup (IF Kind(f) \in K THEN {n} ELSE {})
        BY <1>1, <1>6, <3>2, Becoming, Zenon DEF X, Y
      <3>4. Y = X
        BY <2>2, <3>2, <3>3 DEF K
      <3> QED
        BY <1>4, <2>3, <2>7, <3>4
    <2> QED
      BY <2>4, <2>5, <2>6, <2>7
  <1>10. CASE Completing
    <2>1. Y = X \ {n}
      BY <1>1, <1>10, CompletingWhere DEF X, Y, K
    <2>2. Len(pending') = Len(pending) - 1
      BY <1>10, EntryToPop, DoneTyped
    <2>3. \/ Top.owes /\ held' = held
          \/ ~Top.owes /\ held > 0 /\ held' = held - 1
      BY <1>10 DEF Completing, Completes, CompletesLater
    <2>4. Top.owes \in BOOLEAN /\ Kind(Top) = IF Top.owes THEN "owing" ELSE "code"
      BY <1>10, EntryToPop, TopKind
    <2>5. PICK x, y, p, q, h : /\ x = Cardinality(X) /\ y = Cardinality(Y) /\ p = Len(pending)
                               /\ q = Len(pending') /\ h = held
      OBVIOUS
    <2>6. CASE Top.owes
      <3>1. y = x - 1
        BY <1>7, <2>1, <2>4, <2>5, <2>6
      <3>2. held' = h
        BY <2>3, <2>5, <2>6
      <3> QED
        BY <1>2, <1>3, <1>4, <2>2, <2>5, <3>1, <3>2
    <2>7. CASE ~Top.owes
      <3>1. y = x
        BY <1>7, <2>1, <2>4, <2>5, <2>7
      <3>2. held' = h - 1 /\ h > 0
        BY <2>3, <2>5, <2>7
      <3> QED
        BY <1>2, <1>3, <1>4, <2>2, <2>5, <3>1, <3>2
    <2> QED
      BY <2>6, <2>7
  <1>11. CASE CodeEnds
    <2>1. Y = X \ {n}
      <3>1. Turned(n - 1, <<>>, {Kind(Top)})
        BY <1>1, <1>11, CodeEndsTyped
      <3>2. PICK o : o = <<>>
        OBVIOUS
      <3>3. Grew(stack, stack', n - 1, o)
        BY <3>1, <3>2 DEF Turned, Moved
      <3>4. Where(stack', K) = {i \in Where(stack, K) : i <= n - 1} \cup {(n - 1) + j : j \in Where(o, K)}
        BY <1>1, <3>3, WhereGrew
      <3>5. {i \in Where(stack, K) : i <= n - 1} = Where(stack, K) \ {n}
        BY <1>1 DEF Where
      <3>6. Where(o, K) = {}
        BY <3>2 DEF Where
      <3> QED
        BY <3>4, <3>5, <3>6 DEF X, Y
    <2>2. pending' = pending
      BY <1>11 DEF CodeEnds
    <2>3. \/ Top.owes /\ held' = held + 1 /\ "defer" \in uses
          \/ ~Top.owes /\ held' = held
      BY <1>11 DEF CodeEnds
    <2>4. Top.owes \in BOOLEAN /\ Kind(Top) = IF Top.owes THEN "owing" ELSE "code"
      BY <1>11, TopKind DEF CodeEnds
    <2>5. PICK x, y, h : x = Cardinality(X) /\ y = Cardinality(Y) /\ h = held
      OBVIOUS
    <2>6. CASE Top.owes
      <3>1. y = x - 1
        BY <1>7, <2>1, <2>4, <2>5, <2>6
      <3>2. held' = h + 1 /\ "defer" \in uses
        BY <2>3, <2>5, <2>6
      <3> QED
        BY <1>2, <1>3, <1>4, <2>2, <2>5, <3>1, <3>2
    <2>7. CASE ~Top.owes
      <3>1. y = x
        BY <1>7, <2>1, <2>4, <2>5, <2>7
      <3>2. held' = h
        BY <2>3, <2>5, <2>7
      <3> QED
        BY <1>2, <1>3, <1>4, <2>2, <2>5, <3>1, <3>2
    <2> QED
      BY <2>6, <2>7
  <1>12. CASE ~(Dispatch \/ MaybeFinishes \/ Completing \/ CodeEnds)
    <2>1. Same(stack, stack', K)
      BY <1>12, Undisturbed DEF K
    <2>2. Y = X
      BY <2>1 DEF Same, X, Y
    <2>3. pending' = pending /\ held' = held
      BY <1>12, SinkKept
    <2> QED
      BY <1>4, <2>2, <2>3
  <1> QED
    BY <1>8, <1>9, <1>10, <1>11, <1>12

-----------------------------------------------------------------------------
(***************************************************************************)
(* Where the chunks are.                                                   *)
(***************************************************************************)
InHand(s) == Cardinality(Where(s, Hand))
HandSame == InHand(stack') = InHand(stack) /\ Chunks(stack', Hand) = Chunks(stack, Hand)
HandMore(id) == InHand(stack') = InHand(stack) + 1 /\ Chunks(stack', Hand) = Chunks(stack, Hand) \cup {id}
HandLess(id) == InHand(stack') = InHand(stack) - 1 /\ Chunks(stack, Hand) = Chunks(stack', Hand) \cup {id}

LEMMA HandKept ==
  ASSUME Same(stack, stack', Hand)
  PROVE  HandSame
  BY DEF Same, HandSame, InHand, Chunks

LEMMA HandSpared ==
  ASSUME NEW A, Spares(A), "push" \notin A, "data" \notin A
  PROVE  HandSame
  <1>1. Same(stack, stack', Hand)
    BY DEF Spares, Hand
  <1> QED
    BY <1>1, HandKept

\* A frame at the top comes, goes, or stays with its chunk.
LEMMA HandTop ==
  ASSUME Typed, NEW Z, Z = Where(stack', Hand), NEW n, n = Len(stack),
         \A i \in Where(stack, Hand) \ {n} : stack'[i].chunk = stack[i].chunk
  PROVE  /\ Kind(Top) \in Hand /\ Z = Where(stack, Hand) \ {n} => HandLess(Top.chunk.id)
         /\ Kind(Top) \notin Hand /\ Z = Where(stack, Hand) \ {n} => HandSame
         /\ (/\ Kind(Top) \in Hand /\ Z = (Where(stack, Hand) \ {n}) \cup {n}
             /\ stack'[n].chunk = Top.chunk) => HandSame
  <1>1. PICK X : X = Where(stack, Hand)
    OBVIOUS
  <1>2. n \in Nat /\ n >= 1 /\ Top = stack[n]
    BY TopIs
  <1>3. n \in X <=> Kind(Top) \in Hand
    BY <1>1, <1>2 DEF Where
  <1>4. Chunks(stack, Hand) = {stack[i].chunk.id : i \in X} /\ Chunks(stack', Hand) = {stack'[i].chunk.id : i \in Z}
    BY <1>1 DEF Chunks
  <1>5. /\ Kind(Top) \in Hand => Cardinality(X \ {n}) = Cardinality(X) - 1 /\ (X \ {n}) \cup {n} = X
        /\ Kind(Top) \notin Hand => X \ {n} = X
    BY <1>1, Counted, Zenon
  <1>6. CASE Kind(Top) \in Hand /\ Z = X \ {n}
    <2>1. Chunks(stack, Hand) = Chunks(stack', Hand) \cup {Top.chunk.id}
      BY <1>1, <1>2, <1>3, <1>4, <1>6
    <2>2. InHand(stack') = InHand(stack) - 1
      BY <1>1, <1>5, <1>6 DEF InHand
    <2>3. HandLess(Top.chunk.id)
      BY <2>1, <2>2 DEF HandLess
    <2> QED
      BY <1>1, <1>3, <1>6, <2>3, <1>2
  <1>7. CASE Kind(Top) \notin Hand /\ Z = X \ {n}
    <2>1. Z = X
      BY <1>5, <1>7
    <2>2. Chunks(stack, Hand) = Chunks(stack', Hand)
      BY <1>1, <1>3, <1>4, <1>7, <2>1
    <2> QED
      BY <1>1, <1>7, <2>1, <2>2 DEF HandSame, InHand
  <1>8. CASE Kind(Top) \in Hand /\ Z = (X \ {n}) \cup {n} /\ stack'[n].chunk = Top.chunk
    <2>1. Z = X
      BY <1>5, <1>8
    <2>2. \A i \in X : stack'[i].chunk = stack[i].chunk
      BY <1>1, <1>2, <1>8
    <2>3. Chunks(stack, Hand) = Chunks(stack', Hand)
      BY <1>4, <2>1, <2>2
    <2>4. HandSame
      BY <1>1, <2>1, <2>3 DEF HandSame, InHand
    <2> QED
      BY <1>1, <1>2, <1>3, <1>8, <2>4
  <1> QED
    BY <1>1, <1>6, <1>7, <1>8

LEMMA HandAdds ==
  ASSUME Typed, NEW f, Where(stack', Hand) = Where(stack, Hand) \cup {Len(stack) + 1},
         stack'[Len(stack) + 1] = f, \A i \in 1 .. Len(stack) : stack'[i] = stack[i]
  PROVE  HandMore(f.chunk.id)
  <1>1. PICK n \in Nat : n = Len(stack)
    BY TopIs
  <1>2. PICK X : X = Where(stack, Hand)
    OBVIOUS
  <1>3. \A i \in X : i \in 1 .. n
    BY <1>1, <1>2 DEF Where
  <1>4. Cardinality(X \cup {n + 1}) = Cardinality(X) + 1
    BY <1>1, <1>2, Counted, Zenon
  <1>5. \A i \in X : stack'[i] = stack[i]
    BY <1>1, <1>3
  <1>6. Chunks(stack', Hand) = Chunks(stack, Hand) \cup {f.chunk.id}
    BY <1>1, <1>2, <1>5 DEF Chunks
  <1> QED
    BY <1>1, <1>2, <1>4, <1>6 DEF HandMore, InHand

LEMMA HandMoves ==
  ASSUME Typed, "code" \notin Hand
  PROVE  /\ Answered /\ Kind(Top) \notin Hand => HandSame
         /\ Left /\ Kind(Top) \in Hand => HandLess(Top.chunk.id)
         /\ \A f : Became(f) /\ Kind(Top) \in Hand /\ Kind(f) \notin Hand => HandLess(Top.chunk.id)
         /\ \A f : Became(f) /\ Kind(Top) \in Hand /\ Kind(f) \in Hand /\ f.chunk = Top.chunk => HandSame
         /\ \A f : Topped(f) /\ Kind(f) \in Hand => HandMore(f.chunk.id)
  <1>1. PICK n \in Nat : n = Len(stack) /\ n >= 1
    BY TopIs
  <1>2. PICK X : X = Where(stack, Hand)
    OBVIOUS
  <1>3. \A i \in X \ {n} : i \in 1 .. n - 1
    BY <1>1, <1>2 DEF Where
  <1>4. ASSUME Answered, Kind(Top) \notin Hand PROVE HandSame
    <2>1. Where(stack', Hand) = X \ {n} /\ \A i \in 1 .. n - 1 : Alike(stack[i], stack'[i])
      BY <1>1, <1>2, <1>4 DEF Answered
    <2>2. \A i \in X \ {n} : stack'[i].chunk = stack[i].chunk
      BY <1>3, <2>1 DEF Alike
    <2> QED
      BY <1>1, <1>2, <1>4, <2>1, <2>2, HandTop
  <1>5. ASSUME Left, Kind(Top) \in Hand PROVE HandLess(Top.chunk.id)
    <2>1. Where(stack', Hand) = X \ {n} /\ \A i \in 1 .. n - 1 : stack'[i] = stack[i]
      BY <1>1, <1>2, <1>5, Leaving
    <2>2. \A i \in X \ {n} : stack'[i].chunk = stack[i].chunk
      BY <1>3, <2>1
    <2> QED
      BY <1>1, <1>2, <1>5, <2>1, <2>2, HandTop
  <1>6. ASSUME NEW f, Became(f), Kind(Top) \in Hand, Kind(f) \notin Hand PROVE HandLess(Top.chunk.id)
    <2>1. Where(stack', Hand) = X \ {n} /\ \A i \in 1 .. n - 1 : stack'[i] = stack[i]
      BY <1>1, <1>2, <1>6, Becoming
    <2>2. \A i \in X \ {n} : stack'[i].chunk = stack[i].chunk
      BY <1>3, <2>1
    <2> QED
      BY <1>1, <1>2, <1>6, <2>1, <2>2, HandTop
  <1>7. ASSUME NEW f, Became(f), Kind(Top) \in Hand, Kind(f) \in Hand, f.chunk = Top.chunk PROVE HandSame
    <2>1. /\ Where(stack', Hand) = (X \ {n}) \cup {n} /\ \A i \in 1 .. n - 1 : stack'[i] = stack[i]
          /\ stack'[n] = f
      BY <1>1, <1>2, <1>7, Becoming
    <2>2. \A i \in X \ {n} : stack'[i].chunk = stack[i].chunk
      BY <1>3, <2>1
    <2> QED
      BY <1>1, <1>2, <1>7, <2>1, <2>2, HandTop
  <1>8. ASSUME NEW f, Topped(f), Kind(f) \in Hand PROVE HandMore(f.chunk.id)
    <2>1. /\ Where(stack', Hand) = X \cup {n + 1} /\ \A i \in 1 .. n : stack'[i] = stack[i]
          /\ stack'[n + 1] = f
      BY <1>1, <1>2, <1>8, Topping
    <2> QED
      BY <1>1, <1>2, <2>1, HandAdds, Zenon
  <1> QED
    BY <1>4, <1>5, <1>6, <1>7, <1>8, Zenon

Bufs(q, r) == q.buf = r.buf /\ q.length = r.length
BufSame == Bufs(readable', readable)
BufGrown(c) == readable'.buf = Append(readable.buf, c) /\ readable'.length = readable.length + c.size
BufTaken ==
  LET c == Head(readable.buf) IN
  /\ readable.buf # <<>> /\ readable'.buf = Tail(readable.buf)
  /\ readable'.length = IF readable.length > c.size THEN readable.length - c.size ELSE 0
Quiet == BufSame /\ UNCHANGED <<got, accepted>>
\* A consumer is handed the chunk at the head.
Take == BufTaken /\ got' = Append(got, Head(readable.buf).id) /\ UNCHANGED accepted

LEMMA ReadableFields ==
  ASSUME NEW r, r \in Reading
  PROVE  /\ \A x : Bufs([r EXCEPT !.ended = x], r)
         /\ \A x : Bufs([r EXCEPT !.readableEnded = x], r)
         /\ \A x : Bufs([r EXCEPT !.consumed = x], r)
         /\ \A x : Bufs([r EXCEPT !.flowing = x], r)
         /\ \A x : Bufs([r EXCEPT !.pipes = x], r)
         /\ \A x : Bufs([r EXCEPT !.waiter = x], r)
         /\ \A x : Bufs([r EXCEPT !.destroyed = x], r)
         /\ Bufs(r, r)
         /\ \A x, y : Bufs([r EXCEPT !.consumed = x, !.flowing = y], r)
  BY DEF Reading, Bufs

LEMMA QuietReads ==
  ASSUME Typed,
         \/ PushNull \/ Resumes \/ Pause \/ Pipe \/ Unpipe \/ Destroy \/ Next_
         \/ IteratorReturn \/ ResumeStarts \/ Drained
         \/ DeliverLooksUpPipes \/ DeliverWrites \/ DeliverPauses \/ Delivered \/ UnpipeLooks
         \/ Unpiped \/ EndLooksUpPipes \/ EndsPipe \/ PipesEnded \/ PumpEnd \/ HostPumps \/ HostCalls
  PROVE  Quiet
  <1>0. readable \in Reading
    BY DEF Typed
  <1>1. UNCHANGED reads => UNCHANGED <<got, accepted>>
    BY DEF reads
  <1>2. UNCHANGED readable => BufSame
    BY DEF BufSame, Bufs
  <1>3. readable' = Paused => BufSame
    BY <1>0, ReadableFields, Zenon DEF Paused, BufSame
  <1>4. CASE PushNull \/ IteratorReturn
    <2>1. PICK r \in Reading : EndWaiter(r) /\ r.buf = readable.buf /\ r.length = readable.length
      <3>1. [readable EXCEPT !.ended = TRUE] \in Reading /\ [readable EXCEPT !.destroyed = TRUE] \in Reading
        BY <1>0 DEF Reading
      <3>2. /\ [readable EXCEPT !.ended = TRUE].buf = readable.buf /\ [readable EXCEPT !.ended = TRUE].length = readable.length
            /\ [readable EXCEPT !.destroyed = TRUE].buf = readable.buf /\ [readable EXCEPT !.destroyed = TRUE].length = readable.length
        BY <1>0 DEF Reading
      <3> QED
        BY <1>4, <3>1, <3>2, Zenon DEF PushNull, IteratorReturn
    <2>2. readable' = r \/ readable' = [r EXCEPT !.waiter = 0]
      BY <2>1 DEF EndWaiter, Answer
    <2>3. BufSame
      <3>1. Bufs(readable', r)
        BY <2>1, <2>2, ReadableFields, Zenon
      <3> QED
        BY <2>1, <3>1 DEF Bufs, BufSame
    <2>4. UNCHANGED <<got, accepted>>
      BY <1>4 DEF PushNull, IteratorReturn
    <2> QED
      BY <2>3, <2>4 DEF Quiet
  <1>5. CASE Resumes \/ Unpipe \/ Drained \/ DeliverLooksUpPipes \/ DeliverWrites \/ Delivered \/ UnpipeLooks
    BY <1>1, <1>2, <1>5, Zenon DEF Quiet, Resumes, Unpipe, Drained, DeliverLooksUpPipes, DeliverWrites,
       Delivered, UnpipeLooks
  <1>6. CASE EndLooksUpPipes \/ EndsPipe \/ HostPumps \/ HostCalls
    BY <1>1, <1>2, <1>6, Zenon DEF Quiet, EndLooksUpPipes, EndsPipe, HostPumps, HostCalls
  <1>7. CASE Pause \/ DeliverPauses
    BY <1>1, <1>3, <1>7, Zenon DEF Quiet, Pause, DeliverPauses
  <1>8. CASE Pipe
    <2>1. BufSame
      BY <1>0, <1>8, PipeTyped, ReadableFields, Zenon DEF BufSame
    <2> QED
      BY <1>1, <1>8, <2>1 DEF Pipe, Quiet
  <1>9. CASE Destroy
    <2>1. BufSame
      BY <1>0, <1>9, ReadableFields, Zenon DEF Destroy, BufSame
    <2> QED
      BY <1>1, <1>9, <2>1 DEF Destroy, Quiet
  <1>10. CASE Next_
    <2>1. \/ readable' = [readable EXCEPT !.waiter = 0]
          \/ readable' = [readable EXCEPT !.consumed = TRUE]
      BY <1>10 DEF Next_
    <2>2. BufSame
      BY <1>0, <2>1, ReadableFields, Zenon DEF BufSame
    <2> QED
      BY <1>10, <2>2 DEF Next_, Quiet
  <1>11. CASE ResumeStarts
    <2>1. BufSame
      BY <1>0, <1>11, ReadableFields, Zenon DEF ResumeStarts, BufSame
    <2> QED
      BY <1>1, <1>11, <2>1 DEF ResumeStarts, Quiet
  <1>12. CASE Unpiped \/ PipesEnded
    <2>1. PICK p : readable' = [readable EXCEPT !.pipes = p]
      BY <1>12, Zenon DEF Unpiped, PipesEnded
    <2>2. BufSame
      BY <1>0, <2>1, ReadableFields, Zenon DEF BufSame
    <2> QED
      BY <1>1, <1>12, <2>2, Zenon DEF Unpiped, PipesEnded, Quiet
  <1>13. CASE PumpEnd
    <2>1. readable' = readable \/ readable' = [readable EXCEPT !.readableEnded = TRUE]
      BY <1>13 DEF PumpEnd
    <2>2. BufSame
      BY <1>0, <2>1, ReadableFields, Zenon DEF BufSame
    <2> QED
      BY <1>1, <1>13, <2>2, Zenon DEF PumpEnd, Quiet
  <1> QED
    BY <1>4, <1>5, <1>6, <1>7, <1>8, <1>9, <1>10, <1>11, <1>12, <1>13

\* What a shift does, whatever else is set on the way.
LEMMA TakenBy ==
  ASSUME Typed, NEW r, r \in Reading, r.buf = readable.buf, r.length = readable.length,
         readable.buf # <<>>,
         readable' = Shifted(r) \/ \E x : readable' = [Shifted(r) EXCEPT !.waiter = x]
  PROVE  BufTaken
  <1>1. PICK q : q = Shifted(r)
    OBVIOUS
  <1>2. q.buf = Tail(r.buf) /\ q.length = IF r.length > Head(r.buf).size THEN r.length - Head(r.buf).size ELSE 0
    BY <1>1 DEF Shifted, Reading
  <1>3. DOMAIN q = DOMAIN r
    BY <1>1 DEF Shifted
  <1>4. \A x : LET p == [q EXCEPT !.waiter = x] IN p.buf = q.buf /\ p.length = q.length
    BY <1>3 DEF Reading
  <1>5. readable'.buf = q.buf /\ readable'.length = q.length
    BY <1>1, <1>4
  <1> QED
    BY <1>2, <1>5 DEF BufTaken

LEMMA ServeTakes ==
  ASSUME Typed, NEW retry \in BOOLEAN, Serve(retry), UNCHANGED accepted
  PROVE  (Quiet \/ Take)
  <1>0. readable \in Reading
    BY DEF Typed
  <1>1. CASE UNCHANGED <<readable, got>>
    BY <1>1 DEF Quiet, BufSame, Bufs
  <1>2. CASE Answer(readable, "done") /\ UNCHANGED got
    <2>1. readable' = [readable EXCEPT !.waiter = 0]
      BY <1>2 DEF Answer
    <2> QED
      BY <1>0, <1>2, <2>1, ReadableFields, Zenon DEF Quiet, BufSame
  <1>3. CASE readable.buf # <<>> /\ Answer(Shifted(readable), "chunk") /\ got' = Append(got, Head(readable.buf).id)
    <2>1. \E x : readable' = [Shifted(readable) EXCEPT !.waiter = x]
      BY <1>3 DEF Answer
    <2>2. BufTaken
      BY <1>0, <1>3, <2>1, TakenBy
    <2> QED
      BY <1>3, <2>2 DEF Take
  <1> QED
    BY <1>1, <1>2, <1>3 DEF Serve

LEMMA NextTakes ==
  ASSUME Typed, NextLooks \/ NextAnswers
  PROVE  Quiet \/ Take
  <1>0. readable \in Reading
    BY DEF Typed
  <1>1. UNCHANGED accepted
    BY DEF NextLooks, NextAnswers
  <1>2. CASE UNCHANGED <<readable, got>>
    BY <1>1, <1>2 DEF Quiet, BufSame, Bufs
  <1>3. CASE readable.buf # <<>> /\ Hands(readable)
    <2>1. BufTaken
      BY <1>0, <1>3, TakenBy DEF Hands
    <2> QED
      BY <1>1, <1>3, <2>1 DEF Take, Hands
  <1>4. CASE got' = got /\ \E x : readable' = [readable EXCEPT !.waiter = x]
    BY <1>0, <1>1, <1>4, ReadableFields, Zenon DEF Quiet, BufSame
  <1> QED
    BY <1>2, <1>3, <1>4, Zenon DEF NextLooks, NextAnswers

LEMMA ReadTakes ==
  ASSUME Typed, Read
  PROVE  Quiet \/ Take
  <1>0. readable \in Reading
    BY DEF Typed
  <1>1. UNCHANGED accepted
    BY DEF Read
  <1>2. PICK r : r = [readable EXCEPT !.consumed = TRUE] /\ r \in Reading /\ r.buf = readable.buf /\ r.length = readable.length
    <2>1. [readable EXCEPT !.consumed = TRUE] \in Reading
      BY <1>0 DEF Reading
    <2>2. Bufs([readable EXCEPT !.consumed = TRUE], readable)
      BY <1>0, ReadableFields, Zenon
    <2> QED
      BY <2>1, <2>2 DEF Bufs
  <1>3. CASE readable' = r /\ got' = got
    BY <1>1, <1>2, <1>3 DEF Quiet, BufSame, Bufs
  <1>4. CASE readable.buf # <<>> /\ readable' = Shifted(r) /\ got' = Append(got, Head(readable.buf).id)
    BY <1>1, <1>2, <1>4, TakenBy DEF Take
  <1> QED
    BY <1>2, <1>3, <1>4 DEF Read

\* Everything a step can do to the chunks that push took.
Accepts == accepted' = accepted \cup {made + 1} /\ made' = made + 1
ChunkFlow ==
  \/ Quiet /\ HandSame
  \/ Take /\ HandSame
  \/ BufSame /\ Accepts /\ got' = Append(got, made + 1) /\ HandSame
  \/ BufSame /\ Accepts /\ UNCHANGED got /\ HandMore(made + 1)
  \/ \E c \in Chunk : PlacePushed /\ BufGrown(c) /\ UNCHANGED <<got, accepted>> /\ HandLess(c.id)
  \/ BufTaken /\ UNCHANGED <<got, accepted>> /\ HandMore(Head(readable.buf).id)
  \/ \E c \in Chunk : BufSame /\ UNCHANGED accepted /\ got' = Append(got, c.id) /\ HandLess(c.id)

LEMMA PushFlows ==
  ASSUME Typed, Push
  PROVE  ChunkFlow
  <1>0. readable \in Reading /\ "code" \notin Hand /\ "push" \in Hand
    BY DEF Typed, Hand
  <1>1. PICK c, f : /\ c.id = made + 1 /\ f = [at |-> "push", chunk |-> c] /\ Kind(f) = "push"
                    /\ f \in Frame'
                    /\ \/ Spares({}) /\ UNCHANGED stack
                       \/ \E m \in {<<>>, <<DrainAll>>} : Turned(Len(stack), <<f>> \o m, {"push", "drainAll"})
    <2>1. PICK size \in Sizes : LET c == NewChunk(size)
                                    f == [at |-> "push", chunk |-> c] IN
              /\ f \in Frame' /\ Kind(f) = "push" /\ c.id = made + 1
              /\ \/ Turned(Len(stack), <<>>, {}) /\ UNCHANGED stack
                 \/ Turned(Len(stack), <<f>> \o <<>>, {"push"}) /\ ~(Flows /\ readable.length > 0)
                 \/ Turned(Len(stack), <<f>> \o <<DrainAll>>, {"push", "drainAll"}) /\ Flows
      BY PushTyped
    <2>2. PICK c, f : c = NewChunk(size) /\ f = [at |-> "push", chunk |-> c]
      OBVIOUS
    <2>3. /\ f \in Frame' /\ Kind(f) = "push" /\ c.id = made + 1
          /\ \/ Turned(Len(stack), <<>>, {}) /\ UNCHANGED stack
             \/ Turned(Len(stack), <<f>> \o <<>>, {"push"})
             \/ Turned(Len(stack), <<f>> \o <<DrainAll>>, {"push", "drainAll"})
      BY <2>1, <2>2, Zenon
    <2>4. ASSUME NEW m, Turned(Len(stack), m, {"push"}) PROVE Turned(Len(stack), m, {"push", "drainAll"})
      BY <2>4, SparesMore DEF Turned
    <2>5. Turned(Len(stack), <<f>> \o <<>>, {"push"}) => Turned(Len(stack), <<f>> \o <<>>, {"push", "drainAll"})
      BY <2>4
    <2>6. Turned(Len(stack), <<>>, {}) => Spares({})
      BY DEF Turned
    <2> QED
      BY <2>2, <2>3, <2>5, <2>6, Zenon
  <1>2. /\ made' = made + 1
        /\ \/ UNCHANGED <<readable, stack, accepted, got>>
           \/ /\ accepted' = accepted \cup {made + 1}
              /\ \/ /\ readable' = [readable EXCEPT !.waiter = 0]
                    /\ got' = Append(got, made + 1) /\ UNCHANGED stack
                 \/ /\ UNCHANGED <<readable, got>>
                    /\ \E m \in {<<>>, <<DrainAll>>} : \E g : stack' = stack \o <<g>> \o m
    <2>1. PICK size \in Sizes : LET e == NewChunk(size) IN
        IF readable.ended THEN UNCHANGED <<readable, stack, accepted, got, given>>
        ELSE /\ accepted' = accepted \cup {e.id}
             /\ IF readable.waiter # 0
                THEN Answer(readable, "chunk") /\ got' = Append(got, e.id) /\ UNCHANGED stack
                ELSE /\ stack' = stack \o <<[at |-> "push", chunk |-> e]>> \o
                                 (IF Flows /\ readable.length > 0 THEN <<DrainAll>> ELSE <<>>)
                     /\ UNCHANGED <<readable, got, given>>
      BY DEF Push
    <2>2. made' = made + 1
      BY DEF Push
    <2>3. PICK e : e = NewChunk(size) /\ e.id = made + 1
      <3>1. NewChunk(size).id = made + 1
        BY DEF NewChunk
      <3> QED
        BY <3>1, Zenon
    <2>4. CASE readable.ended
      BY <2>1, <2>2, <2>4
    <2>5. CASE ~readable.ended /\ readable.waiter # 0
      BY <2>1, <2>2, <2>3, <2>5, Zenon DEF Answer
    <2>6. CASE ~readable.ended /\ readable.waiter = 0
      <3>1. PICK g : g = [at |-> "push", chunk |-> e]
        OBVIOUS
      <3>2. PICK m : m = IF Flows /\ readable.length > 0 THEN <<DrainAll>> ELSE <<>>
        OBVIOUS
      <3>3. m \in {<<>>, <<DrainAll>>}
        BY <3>2
      <3>4. stack' = stack \o <<g>> \o m /\ UNCHANGED <<readable, got>> /\ accepted' = accepted \cup {made + 1}
        BY <2>1, <2>3, <2>6, <3>1, <3>2, Zenon
      <3> QED
        BY <2>2, <3>3, <3>4, Zenon
    <2> QED
      BY <2>4, <2>5, <2>6
  <1>3. UNCHANGED stack => HandSame
    BY DEF HandSame, InHand, Chunks
  <1>4. UNCHANGED readable => BufSame
    BY DEF BufSame, Bufs
  <1>5. CASE UNCHANGED <<readable, stack, accepted, got>>
    BY <1>3, <1>4, <1>5 DEF ChunkFlow, Quiet
  <1>6. CASE /\ accepted' = accepted \cup {made + 1} /\ readable' = [readable EXCEPT !.waiter = 0]
             /\ got' = Append(got, made + 1) /\ UNCHANGED stack
    <2>1. BufSame
      BY <1>0, <1>6, ReadableFields, Zenon DEF BufSame
    <2> QED
      BY <1>2, <1>3, <1>6, <2>1 DEF ChunkFlow, Accepts
  <1>7. CASE /\ accepted' = accepted \cup {made + 1} /\ UNCHANGED <<readable, got>>
             /\ \E m \in {<<>>, <<DrainAll>>} : \E g : stack' = stack \o <<g>> \o m
    <2>1. UNCHANGED stack => FALSE
      <3>1. PICK m \in {<<>>, <<DrainAll>>} : \E g : stack' = stack \o <<g>> \o m
        BY <1>7
      <3>2. PICK g : stack' = stack \o <<g>> \o m
        BY <3>1
      <3>3. stack \in Seq(Frame) /\ Len(stack) \in Nat
        BY TopIs
      <3>4. PICK h : h = DrainAll
        OBVIOUS
      <3>5. m = <<>> \/ m = <<h>>
        BY <3>1, <3>4
      <3>6. Len(stack') > Len(stack)
        <4>1. PICK S : S = Frame \cup {g, h}
          OBVIOUS
        <4>2. stack \in Seq(S) /\ <<g>> \in Seq(S) /\ m \in Seq(S)
          <5>1. \A q \in Seq(Frame) : q \in Seq(S)
            BY <4>1
          <5>2. <<g>> \in Seq(S) /\ <<h>> \in Seq(S) /\ <<>> \in Seq(S)
            BY <4>1
          <5> QED
            BY <3>3, <3>5, <5>1, <5>2
        <4>3. stack \o <<g>> \in Seq(S) /\ Len(stack \o <<g>>) = Len(stack) + 1
          BY <4>2, <3>3
        <4>4. Len(stack \o <<g>> \o m) >= Len(stack) + 1
          <5>1. PICK t \in Seq(S) : t = stack \o <<g>>
            BY <4>3
          <5>2. Len(t \o m) = Len(t) + Len(m) /\ Len(m) \in Nat
            BY <4>2, <5>1
          <5> QED
            BY <3>3, <4>3, <5>1, <5>2
        <4> QED
          BY <3>2, <3>3, <4>4
      <3> QED
        BY <3>3, <3>6
    <2>2. PICK m \in {<<>>, <<DrainAll>>} : Turned(Len(stack), <<f>> \o m, {"push", "drainAll"})
      BY <1>1, <2>1
    <2>3. PICK n \in Nat : n = Len(stack)
      BY TopIs
    <2>4. PICK more : more = <<f>> \o m
      OBVIOUS
    <2>5. Grew(stack, stack', n, more)
      BY <2>2, <2>3, <2>4 DEF Turned, Moved
    <2>6. more[1] = f /\ Len(more) \in Nat /\ Len(more) >= 1 /\ \A j \in 1 .. Len(more) : j > 1 => Kind(more[j]) = "drainAll"
      <3>1. PICK h : h = DrainAll /\ Kind(h) = "drainAll"
        BY PlainFrames
      <3>2. m = <<>> \/ m = <<h>>
        BY <2>2, <3>1
      <3>3. PICK q, S : q = <<f>> /\ S = {f, h} /\ q \in Seq(S) /\ m \in Seq(S) /\ Len(q) = 1 /\ q[1] = f
        <4>1. <<f>> \in Seq({f, h}) /\ <<h>> \in Seq({f, h}) /\ <<>> \in Seq({f, h})
          OBVIOUS
        <4>2. Len(<<f>>) = 1 /\ <<f>>[1] = f
          OBVIOUS
        <4> QED
          BY <3>2, <4>1, <4>2
      <3>4. Grew(q, q \o m, Len(q), m)
        BY <3>3, Joined, Zenon
      <3>5. Len(more) = 1 + Len(m) /\ more[1] = f /\ \A j \in 1 .. Len(m) : more[1 + j] = m[j]
        BY <2>4, <3>3, <3>4 DEF Grew
      <3>6. Len(m) \in Nat /\ Len(m) <= 1 /\ (Len(m) = 1 => m[1] = h)
        <4>1. <<h>>[1] = h /\ Len(<<h>>) = 1 /\ Len(<<>>) = 0
          OBVIOUS
        <4>2. CASE m = <<h>>
          BY <4>1, <4>2
        <4>3. CASE m = <<>>
          BY <4>1, <4>3
        <4> QED
          BY <3>2, <4>2, <4>3
      <3>7. ASSUME NEW j \in 1 .. Len(more), j > 1 PROVE more[j] = h
        BY <3>5, <3>6, <3>7
      <3> QED
        BY <3>1, <3>5, <3>6, <3>7
    <2>7. Where(stack', Hand) = {i \in Where(stack, Hand) : i <= n} \cup {n + j : j \in Where(more, Hand)}
      BY <2>3, <2>5, WhereGrew
    <2>8. {i \in Where(stack, Hand) : i <= n} = Where(stack, Hand)
      BY <2>3 DEF Where
    <2>9. Where(more, Hand) = {1}
      BY <1>1, <2>6 DEF Where, Hand
    <2>10. {n + j : j \in Where(more, Hand)} = {n + 1}
      BY <2>9
    <2>11. stack'[n + 1] = f /\ \A i \in 1 .. n : stack'[i] = stack[i]
      BY <2>5, <2>6 DEF Grew
    <2>12. HandMore(f.chunk.id)
      BY <2>3, <2>7, <2>8, <2>10, <2>11, HandAdds, Zenon
    <2>13. f.chunk.id = made + 1
      BY <1>1
    <2> QED
      BY <1>2, <1>4, <1>7, <2>12, <2>13 DEF ChunkFlow, Accepts
  <1> QED
    BY <1>2, <1>5, <1>6, <1>7

LEMMA ChunksFlow ==
  ASSUME Typed, Owed, Next
  PROVE  ChunkFlow
  <1>0. readable \in Reading /\ "code" \notin Hand /\ "push" \in Hand /\ "data" \in Hand
    BY DEF Typed, Hand
  <1>1. CASE Push
    BY <1>1, PushFlows
  <1>2. CASE PlacePushed
    <2>1. Top \in PushFrame /\ Kind(Top) = "push" /\ Top.chunk \in Chunk
      <3>1. Top \in PushFrame
        BY <1>2, PlacePushedTyped
      <3> QED
        BY <3>1 DEF PushFrame, Kind
    <2>2. UNCHANGED <<got, accepted>>
      BY <1>2 DEF PlacePushed, reads
    <2>3. CASE /\ UNCHANGED readable /\ Became(Deliver(Top.chunk))
               /\ Kind(Deliver(Top.chunk)) = "data" /\ Deliver(Top.chunk).chunk = Top.chunk
      <3>1. HandSame
        BY <1>0, <2>1, <2>3, HandMoves, Zenon
      <3> QED
        BY <2>2, <2>3, <3>1 DEF ChunkFlow, Quiet, BufSame, Bufs
    <2>4. CASE readable' = Buffered(Top.chunk) /\ Left
      <3>1. HandLess(Top.chunk.id)
        BY <1>0, <2>1, <2>4, HandMoves, Zenon
      <3>2. BufGrown(Top.chunk)
        BY <1>0, <2>4 DEF BufGrown, Buffered, Reading
      <3> QED
        BY <1>2, <2>1, <2>2, <3>1, <3>2 DEF ChunkFlow
    <2> QED
      BY <1>2, <2>3, <2>4, PlacePushedTyped
  <1>3. CASE DrainOne
    <2>1. PICK f : /\ Topped(f) /\ Kind(f) = "data" /\ f.chunk = Head(readable.buf)
      BY <1>3, DrainOneTyped, Zenon
    <2>2. HandMore(f.chunk.id)
      BY <1>0, <2>1, HandMoves, Zenon
    <2>3. BufTaken
      BY <1>0, <1>3, DrainOneTyped, TakenBy
    <2>4. UNCHANGED <<got, accepted>>
      BY <1>3 DEF DrainOne, reads
    <2> QED
      BY <2>1, <2>2, <2>3, <2>4 DEF ChunkFlow
  <1>4. CASE DeliverData
    <2>1. PICK f : Became(f) /\ Kind(f) = "deliver" /\ Kind(Top) = "data" /\ Top \in DeliverFrame
      BY <1>4, DeliverDataTyped, Zenon
    <2>2. "deliver" \notin Hand
      BY DEF Hand
    <2>3. HandLess(Top.chunk.id)
      BY <1>0, <2>1, <2>2, HandMoves, Zenon
    <2>4. got' = Append(got, Top.chunk.id) /\ UNCHANGED accepted /\ BufSame
      BY <1>4 DEF DeliverData, BufSame, Bufs
    <2>5. Top.chunk \in Chunk
      BY <2>1 DEF DeliverFrame
    <2> QED
      BY <2>3, <2>4, <2>5 DEF ChunkFlow
  <1>5. CASE ~(Push \/ PlacePushed \/ DrainOne \/ DeliverData)
    <2>1. HandSame
      <3>1. CASE ~Queues
        BY <1>5, <3>1, Undisturbed, HandKept
      <3>2. CASE WriteStarts
        <4>1. Kind(Top) = "write" /\ (Answered \/ \E f : Became(f) /\ Kind(f) = "drainQueue")
          BY <3>2, WriteStartsTyped
        <4>2. CASE Answered
          <5>1. Kind(Top) \notin Hand
            BY <4>1 DEF Hand
          <5> QED
            BY <1>0, <4>2, <5>1, HandMoves, Zenon
        <4>3. CASE \E f : Became(f) /\ Kind(f) = "drainQueue"
          <5>1. PICK f : Became(f) /\ Kind(f) = "drainQueue"
            BY <4>3
          <5>2. Spares({Kind(Top), Kind(f), "code"})
            BY <5>1, Spared, Zenon
          <5> QED
            BY <4>1, <5>1, <5>2, HandSpared
        <4> QED
          BY <4>1, <4>2, <4>3
      <3>3. CASE QueueDrained
        <4>1. Answered /\ Kind(Top) \notin Hand
          BY <3>3, QueueDrainedTyped DEF Hand
        <4> QED
          BY <1>0, <4>1, HandMoves, Zenon
      <3>4. CASE Uncork
        BY <3>4, UncorkTyped, HandSpared
      <3> QED
        BY <3>1, <3>2, <3>3, <3>4 DEF Queues
    <2>2. Quiet \/ Take
      <3>1. CASE Wrote \/ Asks
        <4>1. UNCHANGED <<readable, got, accepted>>
          BY <3>1, WroteKeeps, AsksKeep
        <4> QED
          BY <4>1 DEF Quiet, BufSame, Bufs
      <3>2. CASE Read
        BY <3>2, ReadTakes
      <3>3. CASE PumpServes \/ PumpServesProdded
        <4>1. PICK retry \in BOOLEAN : Serve(retry) /\ UNCHANGED accepted
          BY <3>3, Zenon DEF PumpServes, PumpServesProdded
        <4> QED
          BY <4>1, ServeTakes
      <3>4. CASE NextLooks \/ NextAnswers
        BY <3>4, NextTakes
      <3>5. CASE Reads /\ ~(Read \/ PumpServes \/ PumpServesProdded \/ NextLooks \/ NextAnswers)
        BY <1>5, <3>5, QuietReads, Zenon DEF Reads
      <3> QED
        BY <3>1, <3>2, <3>3, <3>4, <3>5, NextParts
    <2> QED
      BY <2>1, <2>2, Zenon DEF ChunkFlow
  <1> QED
    BY <1>1, <1>2, <1>3, <1>4, <1>5
=============================================================================
