---------------------------- MODULE PromiseContract ----------------------------
(***************************************************************************)
(* What a promise machine promises whoever uses it, with no tables, queue  *)
(* or stack (the module comments of rts-cranelift/src/sched/promise.rs and *)
(* rts-core/src/entry/promise/react.rs):                                   *)
(*   - a promise settles at most once and keeps what it settled with;      *)
(*   - a reaction waits on one promise, chosen when it is attached, or on  *)
(*     none, and runs at most once, after that promise settled;            *)
(*   - reactions on one promise run in the order they were attached;       *)
(*   - reactions run one at a time.                                        *)
(* One step may do several of these, but runs at most one reaction.        *)
(***************************************************************************)
EXTENDS Integers, Sequences

VARIABLES
  outcome,    \* what each promise settled with, NotYet while pending
  source,     \* what each reaction waits on, 0 for nothing
  ran         \* the reactions that have run

vars == <<outcome, source, ran>>

NotYet == <<>>

Init == outcome = <<>> /\ source = <<>> /\ ran = {}

(* Promises are created and settled, reactions are attached; none is       *)
(* forgotten, and what has settled stays as it is.                         *)
Extend ==
  /\ Len(outcome') >= Len(outcome)
  /\ \A p \in 1 .. Len(outcome) : outcome[p] # NotYet => outcome'[p] = outcome[p]
  /\ Len(source') >= Len(source)
  /\ \A r \in 1 .. Len(source) : source'[r] = source[r]

Ready(r) ==
  /\ r \in 1 .. Len(source) /\ r \notin ran
  /\ source[r] # 0 => outcome[source[r]] # NotYet
  /\ \A e \in 1 .. (r - 1) : source[e] = source[r] /\ source[r] # 0 => e \in ran

Run(r) == Ready(r) /\ ran' = ran \cup {r}

Next == Extend /\ (UNCHANGED ran \/ \E r \in 1 .. Len(source) : Run(r))

Spec == Init /\ [][Next]_vars
=============================================================================
