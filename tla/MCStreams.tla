------------------------------ MODULE MCStreams ------------------------------
(* Programs for node:stream: what one calls, which events and hooks it has *)
(* code for, and how many calls it may make.                               *)
EXTENDS StreamsProperties

Program(u, l, n) == [uses |-> u, listens |-> l, fuel |-> n]

One == {CHOOSE d \in Dsts : TRUE}

Reads == Program({"push", "null", "read", "resume", "pause"}, {"readable", "end", "pause"}, 5)
Listens == Program({"push", "null", "resume", "pause", "destroy"}, {"data", "resume", "end"}, 5)
Iterates == Program({"push", "null", "next", "return"}, {"read", "end", "close"}, 6)
Races == Program({"push", "null", "next", "race"}, {"read"}, 6)
Pipes == Program({"push", "null", "pipe", "unpipe", "resume"} \cup One, {"unpipe", "finish"}, 4)
PipesTwo == Program({"push", "pipe", "unpipe", "null"} \cup Dsts, {}, 4)
PipesAndListens == Program({"push", "null", "pipe", "pause"} \cup One, {"data", "pipe"}, 4)
Sinks == Program({"write", "end", "cork"} \cup One, {"written", "drain", "final"}, 4)
LateSinks == Program({"write", "end", "defer"} \cup One, {"finish"}, 4)
LatePipes == Program({"defer", "push", "pipe"} \cup One, {}, 4)

Programs == {Reads, Listens, Iterates, Races, Pipes, PipesTwo, PipesAndListens, Sinks,
             LateSinks, LatePipes}

\* For the runs that show one disagreement each.
Feeds == {Program({"push", "pipe"} \cup One, {}, 3)}
Echoes == {Program({"push", "resume"}, {"data"}, 6)}
=============================================================================
