---------------------------- MODULE SchedProperties ----------------------------
(***************************************************************************)
(* What makes the scheduler of module Sched correct.                       *)
(***************************************************************************)
EXTENDS Sched

(* Types: every identifier in every table names what it should.            *)
WaiterIn(w) == /\ w \in Waiter
               /\ w.kind = "cont" => w.id \in Cont
               /\ w.kind = "promise" => w.id \in Promise

TypeOK ==
  /\ state \in Seq({"pending"} \cup Settlement)
  /\ owner \in Seq(Region) /\ Len(owner) = Len(state)
  /\ waiters \in Seq(Seq(Waiter)) /\ Len(waiters) = Len(state)
  /\ \A p \in Promise : \A i \in 1 .. Len(waiters[p]) : WaiterIn(waiters[p][i])
  /\ conts \in Seq(Promise)
  /\ ready \in [Region -> Seq(Cont)]
  /\ tasks \in [Region -> Seq(Nat)]
  /\ cancelled \in [Region -> SUBSET Cont]
  /\ parcels \in Seq([to : Region, conts : Seq(Cont), accepted : BOOLEAN])
  /\ adopted \subseteq Promise \X Promise
  /\ late \subseteq Cont \X Region
  /\ ran \in [Region -> Seq(Ran)]

(***************************************************************************)
(* Nothing is forgotten (promise.rs:170, "waking everything that waited on *)
(* it"): a frame parked on a promise that has settled is in a queue, on    *)
(* its way to one, has run, or was cancelled; and one on a pending promise *)
(* is among its waiters, once, and nowhere else.                           *)
(***************************************************************************)
AmongWaiters(c) ==
  {<<"wait", p, 0>> : p \in {q \in Promise : \E i \in 1 .. Len(waiters[q]) : waiters[q][i] = Frame(c)}}
InQueues(c) ==
  UNION {{<<"ready", s, i>> : i \in {j \in 1 .. Len(ready[s]) : ready[s][j] = c}} : s \in Region}
RanAt(s, c) == {i \in 1 .. Len(ran[s]) : ran[s][i] = [kind |-> "cont", id |-> c]}
AmongRan(c) == UNION {{<<"ran", s, i>> : i \in RanAt(s, c)} : s \in Region}
InParcels(c) ==
  UNION {{<<"sent", k, i>> : i \in {j \in 1 .. Len(parcels[k].conts) :
                                    parcels[k].conts[j] = c /\ ~parcels[k].accepted}} :
         k \in 1 .. Len(parcels)}
Places(c) == AmongWaiters(c) \cup InQueues(c) \cup AmongRan(c) \cup InParcels(c)

Dropped(c) == Places(c) = {} /\ \E s \in Region : c \in cancelled[s]

NoneForgotten ==
  \A c \in Cont :
    IF state[conts[c]] = "pending"
    THEN Places(c) = {<<"wait", conts[c], 0>>}
    ELSE \/ \E place \in Places(c) : Places(c) = {place} /\ place[1] # "wait"
         \/ Dropped(c)

(***************************************************************************)
(* Adoption chains end (promise.rs:72, "nothing could ever settle it"): no *)
(* pending promise waits, through adoptions, on itself; and what adopted a *)
(* settled promise has settled (promise.rs:172-174).                       *)
(***************************************************************************)
ChainsEnd ==
  /\ \A p, q \in Promise : Waits(q, p) => p \notin WouldSettle(q)
  /\ \A pair \in adopted : state[pair[2]] # "pending" => state[pair[1]] # "pending"

(***************************************************************************)
(* Which regions may run a frame.  "Which scheduler runs this promise's    *)
(* waiters" is its owner's (promise.rs:131), with two exceptions the code  *)
(* makes.  A frame whose promise adopted others is woken with the one of   *)
(* them that settles, and settle asks only who owns that one (mod.rs:154). *)
(* A frame parked late is queued where it was parked (mod.rs:187-193).     *)
(***************************************************************************)
Follows(p) ==
  {q \in Promise : \A T \in SUBSET Promise :
     p \in T /\ (\A pair \in adopted : pair[1] \in T => pair[2] \in T) => q \in T}

Late(c) == \E s \in Region : <<c, s>> \in late

Belongs(c, s) == \/ <<c, s>> \in late
                 \/ ~Late(c) /\ \E q \in Follows(conts[c]) : owner[q] = s

(***************************************************************************)
(* A waiter runs in a region it belongs to, and in no other: the owner of  *)
(* the promise it waited on, or of one that promise had adopted, directly  *)
(* or not; or the region that parked it, if it parked it late.  So however *)
(* it was woken, by its own region's settling, by a parcel or by a chain   *)
(* of adoptions that crosses regions.                                      *)
(***************************************************************************)
RunsWhereOwned ==
  \A s \in Region : \A i \in 1 .. Len(ran[s]) :
    ran[s][i].kind = "cont" => Belongs(ran[s][i].id, s)

(***************************************************************************)
(* Frames parked on one promise run in the order they were parked, whether *)
(* before or after it settled (mod.rs:178), except those that another      *)
(* region's settling sent by parcel, which may be overtaken on the way.    *)
(***************************************************************************)
Sent(c) == \E k \in 1 .. Len(parcels) : \E i \in 1 .. Len(parcels[k].conts) :
             parcels[k].conts[i] = c

InParkingOrder ==
  \A s \in Region : \A c, d \in Cont :
    c < d /\ conts[c] = conts[d] /\ (Sent(c) => Sent(d))
      => \A i \in RanAt(s, c), j \in RanAt(s, d) : i < j

(***************************************************************************)
(* "A chain of settled promises resolves completely before anything else   *)
(* is allowed to observe the world" (queue.rs:14): when a task runs in a   *)
(* region, every frame that belongs to it alone, of every promise settled  *)
(* so far, has run or been cancelled, unless a parcel carries it.          *)
(***************************************************************************)
RanTask(s) == Len(ran'[s]) > Len(ran[s]) /\ ran'[s][Len(ran'[s])].kind = "task"

TasksObserveSettled ==
  [][\A s \in Region : RanTask(s) =>
       \A c \in Cont : /\ state[conts[c]] # "pending" /\ ~Sent(c)
                       /\ \A t \in Region : Belongs(c, t) => t = s
                       => RanAt(s, c) # {} \/ c \in cancelled[s]]_vars

(* A cancelled frame still queued never runs, and keeps nothing from       *)
(* running: whatever is woken runs unless it is itself cancelled.          *)
WokenRuns ==
  \A s \in Region : \A c \in 1 .. MaxConts :
    (\E i \in 1 .. Len(ready[s]) : ready[s][i] = c)
      ~> (c \in cancelled[s] \/ RanAt(s, c) # {})
=============================================================================
