------------------------------- MODULE MCLocks -------------------------------
(***************************************************************************)
(* Leases: two holders compete for a document, with a ttl to be used as    *)
(* given, to be replaced by the default and to be capped; and leases of    *)
(* two documents, one with a "/" in its identifier, that end together or   *)
(* apart and are reaped together.  A tick is half a second, so leases also *)
(* start and end between two seconds.                                      *)
(***************************************************************************)
EXTENDS MCService

MCRegister == {Register(docs, "a", "ann", NoKey)}

MCCreate == {Create(docs, d1, "a", <<>>, "ann", NoKey),
             Create(docs, dx, "a", <<>>, "ann", NoKey)}

MCAcquire == {Lease("AcquireLock", docs, d1, "h1", 2, "ann", NoKey),
              Lease("AcquireLock", docs, d1, "h2", 0, "bob", NoKey),
              Lease("AcquireLock", docs, dx, "h1", 1, "ann", NoKey)}

MCRenew == {Lease("RenewLock", docs, d1, "h1", 10, "ann", NoKey),
            Lease("RenewLock", docs, d1, "h2", 2, "bob", NoKey)}

MCRelease == {Release(docs, d1, "h1", "ann", NoKey),
              Release(docs, d1, "h2", "bob", NoKey),
              Release(docs, d1, NoHolder, "bob", NoKey)}

NoRequests == {}

(* Once there are two documents, leases are only granted and reaped.       *)
MCLocksNext ==
  /\ MCNext
  /\ Cardinality(DOMAIN documents') = 2 =>
       \A i \in newEvents : audit'[i].type \notin {"lock.renewed", "lock.released"}

MCLocksSpec == Init /\ [][MCLocksNext]_vars
=============================================================================
