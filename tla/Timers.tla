------------------------------- MODULE Timers -------------------------------
(***************************************************************************)
(* The table of pending timers of one thread (rts-node timers), as         *)
(* operators from table to table.  A deadline is kept as the time left     *)
(* until it, so that a table is finite whatever the clock shows: 0 is due. *)
(* One millisecond is 1.                                                   *)
(***************************************************************************)
EXTENDS Naturals, FiniteSets, SequencesExt

CONSTANTS MaxTimers,   \* how many ids a program draws from NEXT_ID
          MaxDelay     \* the longest delay it asks for

ASSUME TimerBounds == MaxTimers \in Nat /\ MaxDelay \in Nat \ {0}

Ids == 1 .. MaxTimers
Delays == 0 .. MaxDelay

\* settles tells the promise form from the callback form; a period of 0 is
\* none; signal says that an AbortSignal was given with it.
Timer == [settles : BOOLEAN, left : Delays, period : Delays,
          immediate : BOOLEAN, refed : BOOLEAN, signal : BOOLEAN]

Empty == [id \in {} |-> {}]
Put(table, id, timer) ==
    [i \in DOMAIN table \cup {id} |-> IF i = id THEN timer ELSE table[i]]
Forget(table, ids) == [i \in DOMAIN table \ ids |-> table[i]]
SetRefed(table, id, refed) ==
    IF id \in DOMAIN table THEN [table EXCEPT ![id].refed = refed] ELSE table

\* The clock moves by d.
Elapse(table, d) ==
    [i \in DOMAIN table |->
        [table[i] EXCEPT !.left = IF table[i].left > d THEN table[i].left - d ELSE 0]]

Due(table) == {i \in DOMAIN table : table[i].left = 0}

\* Every immediate before any timer, and by registration within each.
Earlier(table, i, j) ==
    \/ table[i].immediate /\ ~table[j].immediate
    \/ table[i].immediate = table[j].immediate /\ i < j
Before(table, i) == {j \in Due(table) : Earlier(table, j, i)}
InFiringOrder(table) ==
    [n \in 1 .. Cardinality(Due(table)) |->
        CHOOSE i \in Due(table) : Cardinality(Before(table, i)) = n - 1]

\* A slip: what is due stays in the table until it has been called.
TakeNothing(table) == table

\* What pump leaves of the table once it has taken what is due: an interval
\* starts again, the rest is gone before any of it is called.
Kept(table) == {i \in DOMAIN table : table[i].left > 0 \/ table[i].period > 0}
Take(table) ==
    [i \in Kept(table) |->
        IF table[i].left > 0 THEN table[i] ELSE [table[i] EXCEPT !.left = table[i].period]]

\* The promise-shaped timers an aborted signal rejects.
Watching(table) == {i \in DOMAIN table : table[i].settles /\ table[i].signal}

Least(S) == CHOOSE x \in S : \A y \in S : x <= y

\* What a source answers, and what the timers answer.
Nothing == MaxDelay + 1
Idle == [open |-> FALSE, wait |-> Nothing, blocked |-> FALSE]
Blocked == [open |-> FALSE, wait |-> Nothing, blocked |-> TRUE]
In(wait) == [open |-> TRUE, wait |-> wait, blocked |-> FALSE]

Refed(table) == {i \in DOMAIN table : table[i].refed}
Outstanding(table) ==
    IF Refed(table) # {} THEN In(Least({table[i].left : i \in Refed(table)}))
    ELSE IF DOMAIN table # {} THEN Blocked
    ELSE Idle
=============================================================================
