------------------------------- MODULE MCLoop -------------------------------
(* Programs for the event loop: what one may use, the sources its modules  *)
(* have declared, and how many operations it may make.                     *)
EXTENDS LoopProperties

Program(u, s, n) == [uses |-> u, sources |-> s, fuel |-> n]
TimersOnly == <<"timers">>

Callbacks == Program({"timeout", "immediate", "clear", "refresh", "then"}, TimersOnly, 4)
Intervals == Program({"timeout", "interval", "ref", "then"}, TimersOnly, 3)
Waits == Program({"sleep", "timeout", "then", "resolve", "await"}, TimersOnly, 4)
Aborts == Program({"sleep", "then", "await", "abort"}, TimersOnly, 4)
Deferred(order) == Program({"timeout", "tick", "then", "resolve"}, order, 4)
Throws == Program({"timeout", "throw", "catch", "then", "resolve", "await"}, TimersOnly, 4)
FromThreads == Program({"function", "refFn", "abortFn", "timeout"}, TimersOnly, 3)
FromWork == Program({"function", "work"}, <<"timers", "threadsafe", "work">>, 2)
Works == Program({"timeout", "work", "then", "resolve", "tick"}, <<"timers", "batch">>, 3)
Deaths == Program({"timeout", "dies", "then", "resolve"}, TimersOnly, 4)

Programs == {Callbacks, Intervals, Waits, Aborts, Throws,
             Deferred(<<"timers", "batch">>), Deferred(<<"batch", "timers">>),
             FromThreads, FromWork, Works, Deaths}

\* For the runs that show one disagreement each.
Stalls == {Program({"timeout", "await", "resolve"}, TimersOnly, 5)}
Uncaught == {Program({"then", "resolve", "throw"}, TimersOnly, 3)}
Unrefs == {Program({"timeout", "ref"}, TimersOnly, 3)}
=============================================================================
