----------------------------- MODULE MCAuditTail -----------------------------
(***************************************************************************)
(* A client that tails the log, with several filters and limits, while     *)
(* documents are updated in batches and leases are granted and reaped.     *)
(***************************************************************************)
EXTENDS MCService, AuditTail

MCRegister == {Register(docs, "a", "ann", NoKey)}

MCCreate == {Create(docs, d1, "a", <<>>, "ann", NoKey),
             Create(docs, dx, "a", <<>>, "bob", NoKey)}

MCBatch == {Batch(docs, <<Item(d1, 1, "b", Nil), Item(dx, 1, "b", Nil)>>, "ann", NoKey)}

MCAcquire == {Lease("AcquireLock", docs, d1, "h1", 0, "bob", NoKey)}

All == [collection |-> NoID, document |-> NoID, actor |-> "", type |-> AnyType,
        minSequence |-> 0, limit |-> 0]

MCFilters ==
  {All, [All EXCEPT !.limit = 2], [All EXCEPT !.actor = "bob"],
   [All EXCEPT !.document = d1, !.limit = 1]}

NoRequests == {}

MCTailNext == TailNext /\ Len(audit') <= MaxEvents /\ clock' <= MaxClock

MCTailSpec == TailInit /\ [][MCTailNext]_tailVars
=============================================================================
