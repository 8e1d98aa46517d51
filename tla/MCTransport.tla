----------------------------- MODULE MCTransport -----------------------------
(***************************************************************************)
(* Requests of every kind, well formed or not, sent to the transport in    *)
(* any order.  A word holds -8..7, so that ttls of 3 and of 6 seconds of   *)
(* 3 ticks wrap to a negative and to a positive duration.                  *)
(***************************************************************************)
EXTENDS MCService, Transport

Http(route, c, d, body, key) ==
  [route |-> route, collection |-> c, document |-> d, body |-> body,
   actor |-> "bob", key |-> key, holder |-> "h2"]

HttpLock(route, d, holder, s, key) ==
  Http(route, docs, d, [holder |-> holder, seconds |-> s, actor |-> "", key |-> key], NoKey)

HttpBatch(items) ==
  Http("BatchUpdateDocuments", docs, NoID, Batch(NoID, items, "", NoKey), NoKey)

Ask(route) ==
  [route |-> route, collection |-> docs, document |-> d1, tags |-> <<>>,
   filter |-> [collection |-> NoID, document |-> d1, actor |-> "",
               type |-> AnyType, minSequence |-> 0, limit |-> 1]]

MCHttpRequests ==
  {Http("RegisterCollection", NoID, NoID, Register(docs, "a", "ann", "k1"), NoKey),
   Http("CreateDocument", docs, NoID, Create(NoID, d1, "a", <<>>, "", "k1"), NoKey),
   Http("CreateDocument", docs, NoID, Undecodable, NoKey),
   Http("UpdateDocument", docs, d1, Update(NoID, NoID, 1, "b", Nil, "", NoKey), NoKey),
   HttpBatch(<<Item(d1, 1, "b", Nil)>>),
   HttpLock("AcquireLock", d1, "h1", 3, "k1"),
   HttpLock("AcquireLock", d1, "h2", 6, NoKey),
   HttpLock("RenewLock", d1, "h1", 0, NoKey),
   HttpLock("ReleaseLock", d1, "", 0, NoKey),
   Ask("ReapExpiredLocks")}
    \cup {Ask(route) : route \in ReadRoute}
    \cup {[Ask("ListAuditEvents") EXCEPT !.filter.minSequence = -1],
          [Ask("ListDocuments") EXCEPT !.filter.limit = -1]}

Calls(op) == {call(h) : h \in {r \in MCHttpRequests : r.route = op /\ r.body # Undecodable}}
MCRegister == Calls("RegisterCollection")
MCCreate == Calls("CreateDocument")
MCUpdate == Calls("UpdateDocument")
MCBatch == Calls("BatchUpdateDocuments")
MCAcquire == Calls("AcquireLock")
MCRenew == Calls("RenewLock")
MCRelease == Calls("ReleaseLock")

MCTransportNext == TransportNext /\ Len(audit') <= MaxEvents /\ clock' <= MaxClock

MCTransportSpec == TransportInit /\ [][MCTransportNext]_<<vars, answer>>
=============================================================================
