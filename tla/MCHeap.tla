------------------------------- MODULE MCHeap -------------------------------
\* The heap with a handful of cells.
EXTENDS HeapProperties

\* A program of one run: what it does, and the region it is given.
Of(u, i, r) == [uses |-> u, initial |-> i, reserved |-> r]

Programs == {
    Of({"links"}, 2, 4),
    Of({"links", "wide"}, 2, 3),
    Of({"promise", "wide"}, 2, 3),
    Of({"spill", "scan"}, 3, 6),
    Of({"generator", "scan"}, 2, 4),
    Of({"wide", "collect", "watch"}, 2, 3),
    Of({"wide", "scan"}, 3, 6)}
Promises == {Of({"promise", "collect"}, 2, 3)}
=============================================================================
