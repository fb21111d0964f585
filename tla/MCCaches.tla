------------------------------ MODULE MCCaches ------------------------------
(* Programs for the inline caches: what one does to its objects, and which *)
(* of its properties its code reads, calls and stores.                     *)
EXTENDS CachesProperties

Program(o, r, c, s, n) == [ops |-> o, reads |-> r, calls |-> c, stores |-> s, fuel |-> n]
Edits == {"instance", "relink", "put", "delete"}

Reads == Program(Edits, {"x"}, {}, {}, 4)
Calls == Program(Edits, {}, {"x"}, {}, 4)
Growths == Program(Edits, {}, {}, {"x"}, 5)
ReadsDefined == Program({"instance", "put", "accessor"}, {"x"}, {}, {}, 4)
CallsDefined == Program({"instance", "relink", "put", "accessor"}, {}, {"x"}, {}, 4)
StoresDefined ==
    Program({"instance", "relink", "put", "accessor", "readonly", "freeze"}, {}, {}, {"x"}, 4)
StoresShadowed == Program({"instance", "put", "delete", "accessor"}, {}, {}, {"x"}, 5)
StoresClosed == Program({"instance", "put", "close", "seal"}, {}, {}, {"x"}, 5)
StoresCreated == Program({"create", "relink", "put"}, {}, {}, {"x"}, 5)
StoresDeleted == Program({"create", "put", "delete"}, {}, {}, {"x"}, 5)
StoresBare == Program({"create", "bare", "relink", "put", "accessor"}, {}, {}, {"x"}, 4)
Levels == Program({"instance", "put", "delete", "close", "seal", "freeze"}, {"x"}, {}, {}, 3)
Mixed == Program({"instance", "relink"}, {"x"}, {}, {"x"}, 4)
Created == Program({"create", "relink", "put", "delete"}, {}, {}, {}, 4)

Programs == {Reads, Calls, Growths, ReadsDefined, CallsDefined, StoresDefined, StoresShadowed,
             StoresClosed, StoresCreated, StoresDeleted, StoresBare, Levels, Mixed, Created}

\* For the run that shows one disagreement.
Creates == {Program({"create", "bare", "put"}, {"x"}, {}, {}, 3)}
=============================================================================
