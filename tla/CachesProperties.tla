--------------------------- MODULE CachesProperties ---------------------------
(* What the inline caches promise (rts-core/src/entry/cache.rs).           *)
EXTENDS Caches

\* The tables are well formed; a key is a slot of the layout or an accessor, never
\* both (accessor.rs keeps accessors out of the layout, descriptor.rs write).
TypeOK ==
  /\ world \in Worlds
  /\ m.used \in Cells /\ m.stamps \in 0 .. MaxStamps /\ m.flagged \subseteq Used(m)
  /\ m.row \subseteq Used(m)
  /\ \A c \in Used(m) : /\ m.type[c].link \in Protos \cup {NoCell}
                         /\ m.proto[c] \in Protos \cup {NoCell, Null}
                         /\ IsInjective(m.type[c].shape)
                         /\ m.level[c] \in 0 .. 3
                         /\ m.paired[c] \cap ToSet(m.type[c].shape) = {}

\* A site that recognises an object answers the place the runtime's own walk
\* finds, whichever object of the program it is handed: what a layout change,
\* a relink or a definition anywhere on the chain made stale is never used
\* (cache.rs: lookups of lower_cached_get and lower_cached_get_indirect).
Agree(site) ==
  \A k \in DOMAIN site, c \in Used(m) :
    Hits(m, site[k], c) => Answer(m, site[k], c) = Resolve(m, c, k)
ReadsAgree == Agree(m.reads) /\ Agree(m.calls)

\* A type that may say nothing of what its object inherits.  Object.create leaves
\* its object at the layout of {} (describe.rs:194-198); where a site stores, the
\* growth it remembers of one of the two is written to the other (body.rs:1200), so
\* what began with that store, or lost its first key after it, says as little.  And
\* the layout of an object without a prototype is minted under no link, as that of
\* a plain object is (chain.rs:123-128).
BeganWithStore(ty) ==
  IF "delete" \in world.ops THEN world.stores # {}
  ELSE ty.shape # <<>> /\ ty.shape[1] \in world.stores
Unproven(ty) ==
  /\ ty.stamp = 0
  /\ \/ "create" \in world.ops /\ (ty = EmptyLayout \/ BeganWithStore(ty))
     \/ "bare" \in world.ops /\ ty.link = NoCell

\* Two objects of one type inherit from one cell, so that recognising a type
\* proves the link (context.rs typed_as, which cache_resolve_indirect relies on),
\* unless the type is one of those above.
TypesProve ==
  \A c, d \in Used(m) :
    m.type[c] = m.type[d] /\ ~Unproven(m.type[c]) => InheritedFrom(m, c) = InheritedFrom(m, d)

\* A store site that recognises an object does what the runtime's store would:
\* nothing intercepts or refuses the write, it lands in the same slot, and the
\* object takes the same type (cache.rs: cache_resolve_store).  Three kinds of growth
\* are excepted, where the site asks only for the type before and writes the type
\* after (body.rs:1126-1145, 1200) and the code does something else: the type does
\* not prove the link; the object was closed or sealed, which leaves its type alone
\* (integrity.rs:552-559); a prototype has been given a setter or a read-only
\* property for the key since the site was filled, which retypes the prototype and
\* not the object (accessor.rs:244-263).
Excepted(k, c) ==
  /\ m.stores[k].after # NoType
  /\ Unproven(m.type[c]) \/ m.level[c] \in {1, 2} \/ k \in late
StoresAgree ==
  \A k \in world.stores, c \in Used(m) :
    StoreHits(m, k, c) /\ ~Excepted(k, c) =>
      LET after == StoreHit(m, k, c) IN
        /\ StoreLands(m, c, k)
        /\ after.type = SetProperty(m, c, k).type
        /\ Resolve(after, c, k) = <<c, m.stores[k].slot>>
=============================================================================
