------------------------------ MODULE MCPromises ------------------------------
(***************************************************************************)
(* Instances of PromiseProperties for TLC.  Each set of programs is the    *)
(* one a run enumerates; the bounds are in the .cfg.                       *)
(***************************************************************************)
EXTENDS PromiseProperties

(* Chains: reactions on reactions, and promises resolved with promises.    *)
Chains == {[ops |-> {"withResolvers", "settle", "then", "finally", "resolve", "again"},
            offered |-> {"plain", "promise"}]}

(* What calls back at once, the combinators, and foreign thenables.        *)
Calling == {[ops |-> {"withResolvers", "settle", "combine"},
            offered |-> {"plain", "promise"}],
           [ops |-> {"withResolvers", "settle", "async"},
            offered |-> {"plain", "promise"}],
           [ops |-> {"new", "settle", "async", "try"},
            offered |-> {"plain", "thenable", "getter"}],
           [ops |-> {"try", "finally", "resolve", "reject", "combine", "emptyRace"},
            offered |-> {"plain", "thenable"}]}

Both == Chains \cup Calling

(* An executor, and the settlers it leaks.                                 *)
Executors == {[ops |-> {"new", "settle", "resolve"}, offered |-> {"plain", "promise"}]}

(* A foreign `then', and the settlers it is handed (README, section 6).    *)
Thenables == {[ops |-> {"withResolvers", "settle"}, offered |-> {"plain", "promise", "thenable"}]}
=============================================================================
