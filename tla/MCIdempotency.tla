---------------------------- MODULE MCIdempotency ----------------------------
(***************************************************************************)
(* Two keys shared by every operation: retries, retries after a failure,   *)
(* keys reused for another payload or another operation, requests without  *)
(* a key in between, and an ID function that may panic.                    *)
(***************************************************************************)
EXTENDS MCService

MCRegister == {Register(docs, "a", "ann", "k1"), Register(docs, "b", "bob", "k2")}

MCCreate == {Create(docs, d1, "a", <<>>, "ann", "k1"),
             Create(docs, NoID, "a", <<>>, "ann", "k2"),
             Create(docs, d1, "b", <<>>, "bob", NoKey)}

MCUpdate == {Update(docs, d1, 1, "b", Nil, "ann", "k1"),
             Update(docs, d1, 1, "b", Nil, "bob", "k1"),
             Update(docs, d1, 1, "a", Nil, "bob", NoKey)}

MCBatch == {Batch(docs, <<Item(d1, 1, "b", Nil)>>, "bob", "k2"),
            Batch(docs, <<Item(d1, 1, "b", Nil), Item(dx, 1, "b", Nil)>>, "ann", "k1")}

MCAcquire == {Lease("AcquireLock", docs, d1, "h1", 1, "ann", "k1"),
              Lease("AcquireLock", docs, d1, "h2", 1, "bob", NoKey)}

MCRenew == {Lease("RenewLock", docs, d1, "h1", 1, "ann", "k2")}

MCRelease == {Release(docs, d1, "h1", "ann", "k2"),
              Release(docs, d1, "h2", "bob", NoKey)}
=============================================================================
