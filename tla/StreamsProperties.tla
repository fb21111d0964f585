-------------------------- MODULE StreamsProperties --------------------------
EXTENDS Streams

Chunk == [id : 1 .. made, size : Sizes]
Frame ==
    [at : {"host", "drainAll", "resume"}]
    \cup [at : {"code"}, owes : BOOLEAN,
          from : {"entry", "turn", "data", "readable", "end", "close", "pause", "resume",
                  "pipe", "unpipe", "read", "write", "written", "final", "drain", "finish"}]
    \cup [at : {"push"}, chunk : Chunk]
    \cup [at : {"deliver"}, stage : {"data", "pipes", "write"}, chunk : Chunk,
          left : Seq(Dsts), ok : BOOLEAN]
    \cup [at : {"unpipe"}, which : SUBSET Dsts, left : Seq([dst : Dsts, ends : BOOLEAN]),
          kept : Seq([dst : Dsts, ends : BOOLEAN])]
    \cup [at : {"pump"}, stage : {"end", "wait", "prodded"}]
    \cup [at : {"ended"}, stage : {"event", "pipes"}, left : Seq([dst : Dsts, ends : BOOLEAN])]
    \cup [at : {"next"}, stage : {"pumped", "prodded"}, call : 1 .. Len(given)]
    \cup [at : {"write"}, dst : Dsts, chunk : Chunk, cb : BOOLEAN]
    \cup [at : {"drainQueue"}, dst : Dsts, ok : BOOLEAN]
    \cup [at : {"finalize"}, stage : {"shrink", "drain"}, dst : Dsts, size : Nat, remaining : Nat]
    \cup [at : {"end", "maybeFinish", "finish"}, dst : Dsts]

Total(chunks) ==
    LET first[n \in 0 .. Len(chunks)] == IF n = 0 THEN 0 ELSE first[n - 1] + chunks[n].size
    IN first[Len(chunks)]

TypeOK ==
    /\ readable.buf \in Seq(Chunk) /\ readable.length = Total(readable.buf)
    /\ readable.waiter \in 0 .. Len(given) /\ readable.flowing \in {"none", "on", "off"}
    /\ \A d \in Dsts : writable[d].queue \in Seq(Chunk)
    /\ \A i \in DOMAIN stack : stack[i] \in Frame /\ (stack[i].at = "host" <=> i = 1)
    \* A completion has the entry it will pop.
    /\ Len(pending) >= held + Cardinality({i \in DOMAIN stack :
                                             stack[i].at = "code" /\ stack[i].owes})

Ids(chunks) == {chunks[i].id : i \in DOMAIN chunks}
AtHand == {i \in DOMAIN stack : stack[i].at = "push"
              \/ (stack[i].at = "deliver" /\ stack[i].stage = "data")}

\* Every chunk push took is in one place, once: the buffer, a push or a delivery
\* that still runs, or the hands of a consumer, however the listeners that run in
\* between push, read, pause or iterate; and what write took is handed to _write
\* once, in the order it was written (readable::push, writable::drain_queue).
NothingLost ==
    /\ accepted = ToSet(got) \cup Ids(readable.buf) \cup {stack[i].chunk.id : i \in AtHand}
    /\ Cardinality(accepted) = Len(got) + Len(readable.buf) + Cardinality(AtHand)
    /\ \A d \in Dsts : LET queue == writable[d].queue IN
        offered[d] = arrived[d] \o [i \in DOMAIN queue |-> queue[i].id]

\* A Writable that was piped to from the start is written every chunk the stream
\* gives its listeners, except those whose delivery still runs: no listener or
\* other pipe of the same chunk, and no pause in between, skips it
\* (readable::deliver_data).  That is until the end is told: it takes the pipes
\* away (PipesEnded, readable.rs:351), so an empty chunk that was left in the buffer
\* goes, if a later resume drains it, to the listeners alone.
StillToWrite(d) ==
    {stack[i].chunk.id : i \in {j \in DOMAIN stack :
        \/ stack[j].at = "deliver" /\ (stack[j].stage # "write" \/ d \in ToSet(stack[j].left))
        \/ stack[j].at = "write" /\ stack[j].dst = d}}
PipesGetAll ==
    uses \cap {"read", "next"} = {} /\ ~readable.readableEnded =>
        \A d \in Dsts \ unfed : ToSet(got) \subseteq ToSet(offered[d]) \cup StillToWrite(d)

\* Once the end is told, every chunk that was pushed has been handed over, except
\* empty ones that were left in the buffer, and the destinations of the pipes end
\* after it, with all of it (flowing::pump), unless the program both iterates and
\* lets the stream flow: a next() in a listener tells the end while the push that
\* drains the backlog still has its chunk.  Empty chunks are left because size_of
\* gives "" no size (readable.rs:151-159) and push(null), read, push and end_is_due
\* look at the length alone (readable.rs:195, 221, 258, flowing.rs:169).
\* And a Writable has finished only when each chunk it took has been handed to
\* its sink and, if the sink calls back before it returns and nothing it calls may
\* end or empty the stream, completed (writable::maybe_finish).
Pulls == "next" \in uses
MayFlow == uses \cap {"resume", "pipe"} # {}
SinksAnswer == {"defer", "end", "next", "cork"} \cap uses = {}

Withheld == ToSet(readable.buf) \cup {stack[i].chunk : i \in AtHand}

EndsAreLast ==
    /\ ~(Pulls /\ MayFlow) /\ readable.readableEnded =>
           \A id \in accepted \ ToSet(got) : \E c \in Withheld : c.id = id /\ c.size = 0
    /\ \A d \in Dsts : writable[d].finished =>
           /\ offered[d] = arrived[d]
           /\ SinksAnswer => writable[d].length = 0

\* A program that waits for each next() before it asks again is never left
\* waiting for one the stream has forgotten: the answer is still to come, and to
\* that call (flowing::next, flowing::pump, readable::push).
NoReadOrphaned ==
    "race" \notin uses =>
        \A i \in DOMAIN given : given[i] = "pending" <=> readable.waiter = i

\* A stream that has ended and was resumed or read from, with nothing left in its
\* buffer or on the way there, tells its end, whatever its listeners did when the
\* last chunk was pushed or taken (flowing::schedule_end, flowing::pump).
EndComes ==
    (readable.ended /\ readable.length = 0 /\ AtHand = {} /\ readable.consumed
        /\ "next" \notin uses)
        ~> (readable.readableEnded \/ readable.destroyed)

\* What waits in the buffer of a stream that is piped and that nobody pauses,
\* unpipes or destroys goes on to the destination.
PipedArrives ==
    (uses \cap {"pause", "unpipe", "destroy"} = {} /\ readable.pipes # <<>> /\ readable.buf # <<>>)
        ~> readable.buf = <<>>

\* Consumers get chunks in the order they were pushed.  This one fails, and no run
\* checks it: a push that a listener makes while a backlog drains is delivered
\* before the chunk whose own push drains it.
DataInOrder == \A i, j \in DOMAIN got : i < j => got[i] < got[j]
=============================================================================
