-------------------------------- MODULE Caches --------------------------------
(***************************************************************************)
(* The inline caches of compiled code: what a read, a callee read and a    *)
(* store of one property remember of the objects they met, and what the    *)
(* runtime does to an object so that a site which remembers it asks again  *)
(* (rts-core/src/entry/cache.rs, context.rs, objects.rs, integrity.rs,     *)
(* accessor.rs, chain.rs; the sites are lowered by rts-cranelift           *)
(* lower/body.rs).                                                         *)
(*                                                                         *)
(* A type number stands for what it was declared for: a shape, the link it *)
(* was minted under and, for a type given to one cell alone, a stamp.      *)
(* `typed_as' and the shape tree answer an equal number for an equal       *)
(* request, which equality of these records says.  Every slot is within    *)
(* its cell, and no cell is an array, a string, a callable or a proxy.     *)
(* Values are left out: what a site answers is the place it loads from.    *)
(***************************************************************************)
EXTENDS Integers, SequencesExt

CONSTANTS
  Keys,        \* property names
  Worlds,      \* the programs considered
  MaxProtos,   \* the prototype objects, made before anything else
  MaxCells,    \* bounds: objects, and
  MaxStamps,   \*   types given to one cell alone
  DeepLimit    \* how many links a callee read walks

Root   == 1                  \* Object.prototype
NoCell == 0
Null   == -1                 \* the prototype `null'
Cells  == 1 .. MaxCells
Protos == 1 .. MaxProtos
OpNames == {"instance", "create", "bare", "relink", "put", "delete", "accessor",
            "readonly", "close", "seal", "freeze"}

ASSUME CacheAssumption ==
  /\ MaxProtos \in Nat \ {0} /\ MaxCells \in Nat /\ MaxProtos <= MaxCells
  /\ MaxStamps \in Nat /\ DeepLimit \in Nat \ {0}
  /\ Worlds \subseteq [ops : SUBSET OpNames, reads : SUBSET Keys,
                       calls : SUBSET Keys, stores : SUBSET Keys, fuel : Nat]

VARIABLES
  world,   \* what the program does, and which sites its code has
  fuel,    \* how many more times it makes or changes an object
  m,       \* the objects, and what the sites remember
  late     \* history: keys whose write a prototype has begun to intercept or
           \* refuse since the site that stores them was filled

vars == <<world, fuel, m, late>>

NoType  == [shape |-> <<>>, link |-> NoCell, stamp |-> -1]
\* Word three of a callee read's cell once the walk has been given up.
Refused == [shape |-> <<>>, link |-> NoCell, stamp |-> -2]
EmptyLayout == [shape |-> <<>>, link |-> NoCell, stamp |-> 0]

(* One entry of a site.  Slot 0 is a remembered absence; `cell' is the     *)
(* holder (NoCell: the receiver) and `held' the type it carried, `between' *)
(* the cell between, if the entry names it.  `epoch' says whether the      *)
(* entry trusts the chain epoch, and whether that is still the one it      *)
(* recorded.                                                               *)
Entry(ty, slot) ==
  [type |-> ty, slot |-> slot, cell |-> NoCell, held |-> NoType,
   between |-> NoCell, middle |-> NoType, epoch |-> "none"]
Cold == Entry(NoType, 0)

Init ==
  /\ world \in Worlds
  /\ fuel = world.fuel
  /\ late = {}
  /\ m = [used     |-> MaxProtos,
          type     |-> [c \in Cells |->
                          CASE c = Root -> [EmptyLayout EXCEPT !.shape = <<"builtin">>]
                            [] c \in Protos \ {Root} -> EmptyLayout
                            [] OTHER -> NoType],
          proto    |-> [c \in Cells |-> NoCell],
          paired   |-> [c \in Cells |-> {}],      \* keys held as accessors
          row      |-> {},                        \* cells with an accessor table
          readonly |-> [c \in Cells |-> {}],
          level    |-> [c \in Cells |-> 0],       \* closed, sealed, frozen: 1, 2, 3
          flagged  |-> {},                        \* chain_links
          stamps   |-> 0,
          reads    |-> [k \in world.reads |-> [first |-> Cold, second |-> Cold]],
          calls    |-> [k \in world.calls |-> [first |-> Cold, second |-> Cold]],
          stores   |-> [k \in world.stores |-> [type |-> NoType, slot |-> 0, after |-> NoType]]]

Used(n) == 1 .. n.used

-----------------------------------------------------------------------------
(* What an object holds and what it inherits.                              *)

SlotOf(shape, k) == CHOOSE i \in 1 .. Len(shape) : shape[i] = k
Has(n, c, k)  == Contains(n.type[c].shape, k)
Owns(n, c, k) == k \in n.paired[c] \/ Has(n, c, k)

InheritedFrom(n, c) ==
  CASE n.proto[c] = Null   -> NoCell
    [] n.proto[c] = NoCell -> IF c = Root THEN NoCell ELSE Root
    [] OTHER               -> n.proto[c]

\* As far as the type can say: the link recorded, or the one it was minted under.
InheritsLink(n, c) == IF n.proto[c] # NoCell THEN n.proto[c] ELSE n.type[c].link

Chain(n, c) ==
  LET above[d \in Cells] ==
        <<d>> \o (IF InheritedFrom(n, d) = NoCell THEN <<>> ELSE above[InheritedFrom(n, d)])
  IN above[c]

(* The first cell of a chain with a property of the key, and how far it is.*)
Distance(n, c, k) == SelectInSeq(Chain(n, c), LAMBDA d : Owns(n, d, k))

\* The walk a read makes: <<cell, slot>>, slot 0 for a getter, NoCell for absent.
Resolve(n, c, k) ==
  LET above == Chain(n, c)
      at    == SelectInSeq(above, LAMBDA e : Owns(n, e, k))
      d     == above[at]
  IN CASE at = 0 -> <<NoCell, 0>>
       [] at # 0 /\ k \in n.paired[d] -> <<d, 0>>
       [] OTHER -> <<d, SlotOf(n.type[d].shape, k)>>

AccessorFor(n, c, k) == LET r == Resolve(n, c, k) IN r[1] # NoCell /\ r[2] = 0

RefusesGrowth(n, c) == n.level[c] > 0
RefusesKeyWrite(n, c, k) == n.level[c] = 3 \/ k \in n.readonly[c]
RefusesKeyRemoval(n, c) == n.level[c] >= 2

InheritedReadonly(n, c, k) ==
  LET at == SelectInSeq(Chain(n, c), LAMBDA d : Has(n, d, k))
  IN at # 0 /\ RefusesKeyWrite(n, Chain(n, c)[at], k)

-----------------------------------------------------------------------------
(* Types.                                                                  *)

TypedAs(shape, link) == [shape |-> shape, link |-> IF link = Null THEN NoCell ELSE link,
                         stamp |-> 0]

(* Every change of a cell's type: the entries that trust the chain epoch   *)
(* are withdrawn when a site has walked through the cell.                  *)
Withdrawn(e) == IF e.epoch = "live" THEN [e EXCEPT !.epoch = "past"] ELSE e
BothWithdrawn(site) == [k \in DOMAIN site |-> [first  |-> Withdrawn(site[k].first),
                                               second |-> Withdrawn(site[k].second)]]
ChainChanged(n) == [n EXCEPT !.reads = BothWithdrawn(n.reads), !.calls = BothWithdrawn(n.calls)]
\* A mutant: the epoch stays as it was.
RetypeCellSilently(n, c, ty) == [n EXCEPT !.type[c] = ty]
RetypeCell(n, c, ty) ==
  [IF c \in n.flagged THEN ChainChanged(n) ELSE n EXCEPT !.type[c] = ty]

\* integrity::retype: the same shape under a number of the cell's own.
Retype(n, c) ==
  RetypeCell([n EXCEPT !.stamps = n.stamps + 1], c,
             [shape |-> n.type[c].shape, link |-> NoCell, stamp |-> n.stamps + 1])

\* A mutant: a grown or shrunk object loses the link its type proves.
ReshapeUnlinked(n, c, shape) == RetypeCell(n, c, TypedAs(shape, NoCell))
Reshape(n, c, shape) == RetypeCell(n, c, TypedAs(shape, InheritsLink(n, c)))

(* objects::put: the write that runs no setter.                            *)
Put(n, c, k) ==
  IF RefusesKeyWrite(n, c, k) \/ Has(n, c, k) \/ RefusesGrowth(n, c) THEN n
  ELSE Reshape(n, c, Append(n.type[c].shape, k))

\* resolve_store answers Direct: nothing runs in place of the write, or refuses it.
StoreLands(n, c, k) ==
  /\ ~AccessorFor(n, c, k)
  /\ ~RefusesKeyWrite(n, c, k)
  /\ Has(n, c, k) \/ ( /\ ~RefusesGrowth(n, c)
                       /\ InheritedFrom(n, c) # NoCell =>
                            ~InheritedReadonly(n, InheritedFrom(n, c), k) )

SetProperty(n, c, k) == IF StoreLands(n, c, k) THEN Put(n, c, k) ELSE n

RemoveAccessor(n, c, k) == Retype([n EXCEPT !.paired[c] = @ \ {k}], c)
ClearAttributes(n, c, k) == [n EXCEPT !.readonly[c] = @ \ {k}]

RemoveOwn(n, c, k) ==
  CASE ~Owns(n, c, k) \/ RefusesKeyRemoval(n, c) -> n
    [] Owns(n, c, k) /\ ~RefusesKeyRemoval(n, c) /\ k \in n.paired[c] ->
         RemoveAccessor(ClearAttributes(n, c, k), c, k)
    [] OTHER -> Reshape(ClearAttributes(n, c, k), c, Remove(n.type[c].shape, k))

\* A descriptor that asks for a configurable property.
Permitted(n, c, k) == IF Owns(n, c, k) THEN ~RefusesKeyRemoval(n, c) ELSE ~RefusesGrowth(n, c)

SetAccessor(n, c, k) ==
  Retype([n EXCEPT !.paired[c] = @ \cup {k}, !.row = @ \cup {c}], c)
SetReadOnly(n, c, k) == Retype([n EXCEPT !.readonly[c] = @ \cup {k}], c)

\* A mutant: the key stays in the layout.
DefineAccessorBeside(n, c, k) == SetAccessor(ClearAttributes(n, c, k), c, k)

DefineAccessor(n, c, k) ==
  LET cleared == ClearAttributes(n, c, k)
  IN SetAccessor(IF Has(n, c, k) THEN RemoveOwn(cleared, c, k) ELSE cleared, c, k)

DefineReadOnly(n, c, k) ==
  LET cleared == ClearAttributes(n, c, k)
      data    == IF k \in n.paired[c] THEN RemoveOwn(cleared, c, k) ELSE cleared
  IN SetReadOnly(Put(data, c, k), c, k)

-----------------------------------------------------------------------------
(* What a site answers without asking.                                     *)

Valid(n, e) ==
  /\ e.cell # NoCell => n.type[e.cell] = e.held
  /\ e.between # NoCell => n.type[e.between] = e.middle
  /\ e.epoch # "past"

Recognised(pair, ty) == IF pair.first.type = ty THEN pair.first ELSE pair.second
Hits(n, pair, c) == LET e == Recognised(pair, n.type[c])
                    IN e.type = n.type[c] /\ Valid(n, e)
Answer(n, pair, c) ==
  LET e == Recognised(pair, n.type[c])
  IN CASE e.slot = 0                     -> <<NoCell, 0>>
       [] e.slot # 0 /\ e.cell = NoCell  -> <<c, e.slot>>
       [] OTHER                          -> <<e.cell, e.slot>>

(* What it remembers when it asks.  The entry displaced moves to the       *)
(* second place, unless it says nothing or is about the same layout.       *)
Demoted(pair, ty) ==
  IF pair.first.type \in {ty, NoType} \/ pair.first.held = Refused THEN pair.second
  ELSE pair.first
Remember(pair, e) == [first |-> e, second |-> Demoted(pair, e.type)]

(* cache_resolve: the receiver's own slot, or an absence every link vouches*)
(* for.  An absence remembered that is no longer one is cleared.           *)
ResolveRead(n, c, k) ==
  LET ty   == n.type[c]
      pair == n.reads[k]
  IN CASE Has(n, c, k) ->
            [n EXCEPT !.reads[k] = Remember(pair, Entry(ty, SlotOf(ty.shape, k)))]
       [] ~Has(n, c, k) /\ Resolve(n, c, k)[1] = NoCell ->
            [n EXCEPT !.flagged = @ \cup ToSet(Tail(Chain(n, c))),
                      !.reads[k].second = [Entry(ty, 0) EXCEPT !.epoch = "live"]]
       [] OTHER ->
            [n EXCEPT !.reads[k].second =
               IF pair.second.type = ty /\ pair.second.slot = 0 THEN Cold ELSE @]

(* cache_resolve_indirect: the receiver's own slot, or one step of the     *)
(* chain its type proves, or further: two links are compared cell by cell, *)
(* more are left to the epoch.                                             *)
Refuse(n, k) == [n EXCEPT !.calls[k].first.held = Refused]

Walkable(n, c, k) ==
  LET link == InheritsLink(n, c)
      r    == Resolve(n, link, k)
  IN /\ c \notin n.row
     /\ link \in Cells
     /\ r[1] # NoCell /\ r[2] # 0
     /\ Distance(n, link, k) <= DeepLimit

ResolveChain(n, c, k) ==
  LET link   == InheritsLink(n, c)
      walked == Distance(n, link, k)
      above  == Chain(n, link)
      r      == Resolve(n, link, k)
      place  == [Entry(n.type[c], r[2]) EXCEPT !.cell = r[1], !.held = n.type[r[1]]]
  IN CASE walked = 1 -> [n EXCEPT !.calls[k] = Remember(@, place)]
       [] walked = 2 ->
            [n EXCEPT !.calls[k] = Remember(@, [place EXCEPT !.between = above[1],
                                                             !.middle = n.type[above[1]]])]
       [] OTHER ->
            [n EXCEPT !.flagged = @ \cup ToSet(SubSeq(above, 1, walked)),
                      !.calls[k] = Remember(@, [place EXCEPT !.epoch = "live"])]

ResolveCall(n, c, k) ==
  CASE Has(n, c, k) ->
         [n EXCEPT !.calls[k] = Remember(@, Entry(n.type[c], SlotOf(n.type[c].shape, k)))]
    [] ~Has(n, c, k) /\ n.calls[k].first.held = Refused -> n
    [] OTHER -> IF Walkable(n, c, k) THEN ResolveChain(n, c, k) ELSE Refuse(n, k)

(* cache_resolve_store, and the miss path it leaves the rest to: a slot of *)
(* the receiver, or the growth the store makes, remembered as the type     *)
(* before it and the type after.                                           *)
\* A mutant: only the receiver is asked for a setter.
MayGrowHere(n, c, k) ==
  /\ ~Has(n, c, k)
  /\ ~RefusesGrowth(n, c)
  /\ k \notin n.paired[c]
  /\ ~InheritedReadonly(n, c, k)

MayGrow(n, c, k) ==
  /\ ~Has(n, c, k)
  /\ ~RefusesGrowth(n, c)
  /\ ~AccessorFor(n, c, k)
  /\ ~InheritedReadonly(n, c, k)

RememberStore(n, k, ty, slot, after) ==
  [n EXCEPT !.stores[k] = [type |-> ty, slot |-> slot, after |-> after]]

ResolveStore(n, c, k) ==
  LET ty    == n.type[c]
      grown == Reshape(n, c, Append(ty.shape, k))
  IN CASE ~RefusesKeyWrite(n, c, k) /\ MayGrow(n, c, k) ->
            RememberStore(grown, k, ty, Len(ty.shape) + 1, grown.type[c])
       [] ~RefusesKeyWrite(n, c, k) /\ Has(n, c, k) ->
            RememberStore(n, k, ty, SlotOf(ty.shape, k), NoType)
       [] OTHER -> SetProperty(n, c, k)

StoreHits(n, k, c) == n.stores[k].type = n.type[c]

\* The machine writes the header itself.
StoreHit(n, k, c) ==
  IF n.stores[k].after = NoType THEN n ELSE [n EXCEPT !.type[c] = n.stores[k].after]

-----------------------------------------------------------------------------
(* The program.  It is orderly in two respects, each of which the README   *)
(* says something about: an object that has been given an accessor or a    *)
(* read-only property is not grown, shrunk or relinked afterwards; and a   *)
(* store site that may grow its receiver never meets a prototype.          *)

Does(op) == op \in world.ops
Plain(c) == c \in Used(m) /\ m.paired[c] = {} /\ m.readonly[c] = {}

\* What a write of the key below this prototype meets.
Intercepts(n, p, k) == AccessorFor(n, p, k) \/ InheritedReadonly(n, p, k)

Became(n)  == /\ fuel > 0 /\ n.stamps <= MaxStamps /\ n # m
              /\ m' = n /\ fuel' = fuel - 1
              /\ UNCHANGED world
Becomes(n) ==
  /\ Became(n)
  /\ late' = late \cup {k \in world.stores :
                         \E p \in Protos : Intercepts(n, p, k) /\ ~Intercepts(m, p, k)}
Asks(n)    == m' = n /\ UNCHANGED <<world, fuel, late>>

Allocate(ty, proto) ==
  /\ m.used < MaxCells
  /\ Becomes([m EXCEPT !.used = @ + 1, !.type[m.used + 1] = ty, !.proto[m.used + 1] = proto])

\* {}
NewObject == Allocate(EmptyLayout, NoCell)

\* new C(), and the literal with a __proto__.
NewInstance == Does("instance") /\ \E p \in Protos : Allocate(TypedAs(<<>>, p), p)

\* Object.create(p): the link is recorded and the type left as it is.
CreateObject ==
  /\ Does("create")
  /\ \E p \in Protos \cup {Null} : (p = Null => Does("bare")) /\ Allocate(EmptyLayout, p)

ApplyPrototype(c, p) ==
  /\ Does("relink") /\ c # Root /\ Plain(c)
  /\ m.proto[c] # p /\ m.level[c] = 0
  /\ IF p = Null THEN Does("bare") ELSE c \notin ToSet(Chain(m, p))
  /\ Becomes(RetypeCell([m EXCEPT !.proto[c] = p], c, TypedAs(m.type[c].shape, p)))

\* A write or a definition no site of the code makes.
PutElsewhere(c, k) ==
  /\ Does("put") /\ Plain(c) /\ Becomes(SetProperty(m, c, k))

Delete(c, k) ==
  /\ Does("delete") /\ c \in Used(m)
  /\ k \in m.paired[c] \/ Plain(c)
  /\ Becomes(RemoveOwn(m, c, k))

Accessor(c, k) ==
  /\ Does("accessor") /\ c \in Used(m) /\ Permitted(m, c, k)
  /\ Becomes(DefineAccessor(m, c, k))

ReadOnly(c, k) ==
  /\ Does("readonly") /\ c \in Used(m) /\ Permitted(m, c, k)
  /\ Becomes(DefineReadOnly(m, c, k))

Restricted(c, level) ==
  /\ c \in Used(m)
  /\ LET reached == IF level > m.level[c] THEN level ELSE m.level[c]
         n == [m EXCEPT !.level[c] = reached]
     IN Becomes(IF reached = 3 THEN Retype(n, c) ELSE n)

ReadMiss(c, k) ==
  /\ k \in world.reads /\ c \in Used(m) /\ ~Hits(m, m.reads[k], c)
  /\ Asks(ResolveRead(m, c, k))

CallMiss(c, k) ==
  /\ k \in world.calls /\ c \in Used(m) /\ ~Hits(m, m.calls[k], c)
  /\ Asks(ResolveCall(m, c, k))

Stores(c, k) == /\ k \in world.stores /\ c \in Used(m) \ Protos
                /\ Has(m, c, k) \/ Plain(c)

StoreMiss(c, k) ==
  /\ Stores(c, k) /\ ~StoreHits(m, k, c) /\ Became(ResolveStore(m, c, k))
  /\ late' = IF m'.stores = m.stores THEN late ELSE late \ {k}

StoreWrites(c, k) ==
  /\ Stores(c, k) /\ StoreHits(m, k, c) /\ Becomes(StoreHit(m, k, c))

Step(c) ==
  \/ \E p \in Protos \cup {Null} : ApplyPrototype(c, p)
  \/ \E k \in Keys : \/ PutElsewhere(c, k) \/ Delete(c, k)
                      \/ Accessor(c, k) \/ ReadOnly(c, k)
                      \/ ReadMiss(c, k) \/ CallMiss(c, k)
                      \/ StoreMiss(c, k) \/ StoreWrites(c, k)
  \/ Does("close") /\ Restricted(c, 1)
  \/ Does("seal") /\ Restricted(c, 2)
  \/ Does("freeze") /\ Restricted(c, 3)

Next == NewObject \/ NewInstance \/ CreateObject \/ \E c \in Cells : Step(c)

Spec == Init /\ [][Next]_vars
=============================================================================
