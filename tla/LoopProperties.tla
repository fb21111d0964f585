--------------------------- MODULE LoopProperties ---------------------------
EXTENDS Loop

Frame ==
    [at : {"host"}, stage : {"turn", "asked", "answered", "over"}, wait : 0 .. Nothing]
    \cup [at : {"drain"}, stage : {"reactions", "finalizers"}, left : Nat]
    \cup [at : {"code"}, from : {"entry", "timer", "source", "reaction", "finalizer"}, asked : BOOLEAN,
          owes : [left : Delays, signal : BOOLEAN, wanted : BOOLEAN]]
    \cup [at : {"pass"}, n : {1, 2}, left : Seq({"timers", "batch", "threadsafe", "work"}),
          stage : {"next", "asked", "drained"}, wait : 0 .. Nothing, blocked : BOOLEAN]
    \cup [at : {"pump"}, stage : {"reject", "take", "fire", "checkpoint"},
          ran : BOOLEAN,
          due : Seq([id : Ids, settles : BOOLEAN, again : BOOLEAN])]
    \cup [at : {"batch"}, left : Nat]
    \cup [at : {"await"}, on : Promises, wait : 0 .. Nothing,
          stage : {"poll", "drained", "asked", "answered", "last"}]

TypeOK ==
    /\ DOMAIN timers \subseteq Ids /\ \A i \in DOMAIN timers : timers[i] \in Timer
    /\ nextId \in 1 .. MaxTimers + 1
    /\ promise \in [Promises -> {"pending", "fulfilled", "rejected"}]
    /\ reacts \in [Promises -> Nat] /\ micro \in Nat
    /\ aborted \in BOOLEAN /\ thrown \in BOOLEAN /\ batch \in Nat
    /\ \A f \in Fns : fns[f].threads = Cardinality({w \in Workers : hold[w] = f})
    /\ work.outstanding = work.running + work.done /\ dying \in Nat
    /\ stack # <<>> /\ stack[1].at = "host"
    /\ \A i \in DOMAIN stack : stack[i] \in Frame /\ (stack[i].at = "host" => i = 1)

Pumps == {n \in DOMAIN stack : stack[n].at = "pump"}
Owed(i) == UNION {{n} \X {k \in DOMAIN stack[n].due : /\ stack[n].due[k].id = i
                                                     /\ ~stack[n].due[k].again} : n \in Pumps}

\* Each arming of a timer is called for once: it is in the table or a pump has
\* taken it, never both and never neither, whatever the callbacks that run in
\* between do with it, pumps of their own included (timers::pump removes what it
\* takes before it calls any of it).
OncePerArming ==
    \A i \in Ids :
        credit[i] = (IF i \in DOMAIN timers THEN 1 ELSE 0) + Cardinality(Owed(i))

\* Between two callbacks of one pump every reaction has run, although the
\* callbacks and the reactions may pump and drain themselves (timers::pump calls
\* drain_microtasks after each).  What a finalizer queues at the end of that
\* drain waits for the next one.
CheckpointBetweenTimers == [][FireNext /\ Top.ran /\ "dies" \notin uses => micro = 0]_vars

Over == stack[1].stage = "over"
Idled == Over /\ why = "idle"

\* A program that ends because nothing is outstanding leaves no timer that holds
\* it open and no deferred callback, except what its last turn started
\* (loops::pump_sources asks every source a second time before it says so).
NothingAbandoned ==
    Idled => /\ Refed(timers) \subseteq late.timers
             /\ batch > 0 => late.batch

\* What a thread sent through a thread-safe function that nobody unrefed or
\* aborted is delivered before the program ends, although the thread may release
\* the function just after the loop emptied its channel.
NoItemLost ==
    Idled => \A f \in Fns : fns[f].plain /\ f \notin late.fns => fns[f].queued = 0

\* Work an addon queued has completed and been told of before the program ends.
WorkIsTold == Idled /\ ~late.work => work.outstanding = 0

\* A program that sets no interval ends, whatever its sources and threads do.
Ends == "interval" \notin uses => <>(Over /\ Len(stack) = 1)

\* An await gives up only when nothing is left that could settle what it waits
\* for: no timer that holds the program open, none taken and not called, no
\* reaction queued.
StallIsReal ==
    [][Stall => /\ Refed(timers) = {} /\ micro = 0
                /\ \A n \in Pumps : stack[n].due = <<>>]_vars

\* The loop asks no source after the program let a throw escape.
UncaughtEnds == [][HostAsks => ~escaped]_vars

\* While the program is open no timer waits much longer than its delay, those
\* that do not hold it open included: the host sleeps past no deadline.  This one fails (MCLoop's
\* Unrefs), and no run checks it.
AwakeInTime ==
    [][HostSleeps => \A i \in DOMAIN timers :
           Top.wait <= (IF timers[i].left > 1 THEN timers[i].left ELSE 1)]_vars
=============================================================================
