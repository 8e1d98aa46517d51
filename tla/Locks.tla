-------------------------------- MODULE Locks --------------------------------
(***************************************************************************)
(* Edit locks (service/locks.go, domain/lock.go): acquire, renew, release, *)
(* read and reap.  A lock is a lease on a document: it stays in the table  *)
(* when it expires, until an operation on its document or the reaper       *)
(* deletes it.                                                             *)
(***************************************************************************)
EXTENDS Documents

CONSTANTS
  Second,            \* the ticks in a second
  DefaultLockTTL,    \* in ticks
  MaxLockTTL,
  AcquireRequests,   \* the calls clients may make, one set per operation
  RenewRequests,
  ReleaseRequests

ASSUME TTLAssumption ==
  /\ Second \in Nat \ {0}
  /\ DefaultLockTTL \in Nat \ {0}
  /\ MaxLockTTL \in Nat
  /\ DefaultLockTTL <= MaxLockTTL

OptHolder == {NoHolder} \cup Holder

LeaseRequest(ops) ==
  [op : ops, collection : ID, document : ID, holder : OptHolder, ttl : Int,
   actor : Actor, key : OptKey]

ReleaseRequest ==
  [op : {"ReleaseLock"}, collection : ID, document : ID, holder : OptHolder,
   actor : Actor, key : OptKey]

ASSUME LockRequestAssumption ==
  /\ AcquireRequests \subseteq LeaseRequest({"AcquireLock"})
  /\ RenewRequests \subseteq LeaseRequest({"RenewLock"})
  /\ ReleaseRequests \subseteq ReleaseRequest
-----------------------------------------------------------------------------
(* Helpers.                                                                *)

(* The log tells durations in whole seconds, int(ttl.Seconds()), and times *)
(* in RFC3339: both drop the fraction.                                     *)
seconds(ticks) == ticks \div Second

(* Seeded fault: only an absent ttl is replaced by the default.            *)
DefaultWhenAbsent(ttl) ==
  IF ttl = 0 THEN DefaultLockTTL ELSE IF ttl > MaxLockTTL THEN MaxLockTTL ELSE ttl

NormalizeTTL(ttl) ==
  IF ttl <= 0 THEN DefaultLockTTL
  ELSE IF ttl > MaxLockTTL THEN MaxLockTTL
  ELSE ttl

(* The boundary belongs to expiry: a lock is valid while now < expiresAt.  *)
IsExpired(lock, now) == now >= lock.expiresAt

present(key) == key \in DOMAIN locks

(* Seeded fault: an entry keeps others out for as long as it is there.     *)
presentIsActive(key) == present(key)

active(key) == present(key) /\ ~ IsExpired(locks[key], clock)

(* What is left of the table when an operation has looked at the entry of  *)
(* key and deleted it if it had expired.  No event is logged.              *)
withoutStale(key) ==
  IF present(key) /\ ~ active(key) THEN Delete(locks, {key}) ELSE locks

lockEvent(type, req, details) ==
  Event(type, req.actor, req.collection, req.document, req.key, details)

lockConflict(req, key) ==
  /\ locks[key].holder # req.holder
  /\ Refuse(req, "lock_conflict")

(* No lock, or an expired one that the operation deletes.                  *)
notHeld(req, key) ==
  /\ locks' = withoutStale(key)
  /\ Return(req, Fail("lock_not_held"))
  /\ UNCHANGED <<collections, documents, history, audit, auditSeq, clock>>

(* Seeded fault: the ttl is added to the old end.                          *)
renewFromOldEnd(req, key) ==
  LET ttl == NormalizeTTL(req.ttl)
      lock == [locks[key] EXCEPT !.expiresAt = @ + ttl, !.renewCount = @ + 1]
  IN  /\ locks' = Put(locks, key, lock)
      /\ appendAudit(<<lockEvent("lock.renewed", req,
                                 [ttl |-> seconds(ttl),
                                  renewCount |-> lock.renewCount])>>)
      /\ Return(req, Ok(lock))
      /\ UNCHANGED <<collections, documents, history, clock>>

renew(req, key) ==
  LET ttl == NormalizeTTL(req.ttl)
      lock == [locks[key] EXCEPT !.expiresAt = clock + ttl,
                                 !.renewCount = @ + 1]
  IN  /\ locks' = Put(locks, key, lock)
      /\ appendAudit(<<lockEvent("lock.renewed", req,
                                 [ttl |-> seconds(ttl),
                                  renewCount |-> lock.renewCount])>>)
      /\ Return(req, Ok(lock))
      /\ UNCHANGED <<collections, documents, history, clock>>

grant(req, key) ==
  LET ttl == NormalizeTTL(req.ttl)
      lock == [document |-> req.document, holder |-> req.holder,
               acquiredAt |-> clock, expiresAt |-> clock + ttl, renewCount |-> 0]
  IN  /\ locks' = Put(locks, key, lock)
      /\ appendAudit(<<lockEvent("lock.acquired", req,
                                 [ttl |-> seconds(ttl), holder |-> req.holder])>>)
      /\ Return(req, Ok(lock))
      /\ UNCHANGED <<collections, documents, history, clock>>

release(req, key) ==
  /\ locks' = Delete(locks, {key})
  /\ appendAudit(<<lockEvent("lock.released", req,
                             [holder |-> locks[key].holder,
                              renewCount |-> locks[key].renewCount])>>)
  /\ Return(req, Ok(Nil))
  /\ UNCHANGED <<collections, documents, history, clock>>
-----------------------------------------------------------------------------
(* Operations.                                                             *)

AcquireLock(req) ==
  LET malformed == req.holder = NoHolder
      missing == lookupError(req.collection, req.document)
      key == documentKey(req.collection, req.document)
  IN  \/ TurnAway(malformed)
      \/ ~ malformed /\ Replay(req)
      \/ /\ ~ malformed
         /\ FirstUse(req)
         /\ \/ missing # "none" /\ Refuse(req, missing)
            \/ /\ missing = "none"
               /\ \/ active(key) /\ lockConflict(req, key)
                  \/ /\ active(key)
                     /\ locks[key].holder = req.holder
                     /\ renew(req, key)
                  \/ ~ active(key) /\ grant(req, key)

RenewLock(req) ==
  LET malformed == req.holder = NoHolder
      missing == lookupError(req.collection, req.document)
      key == documentKey(req.collection, req.document)
  IN  \/ TurnAway(malformed)
      \/ ~ malformed /\ Replay(req)
      \/ /\ ~ malformed
         /\ FirstUse(req)
         /\ \/ missing # "none" /\ Refuse(req, missing)
            \/ /\ missing = "none"
               /\ \/ ~ active(key) /\ notHeld(req, key)
                  \/ active(key) /\ lockConflict(req, key)
                  \/ /\ active(key)
                     /\ locks[key].holder = req.holder
                     /\ renew(req, key)

(* Seeded fault: whoever asks may release the lock.                        *)
AnyoneReleases(req, key) == TRUE

mayRelease(req, key) == locks[key].holder = req.holder

ReleaseLock(req) ==
  LET malformed == req.holder = NoHolder
      missing == lookupError(req.collection, req.document)
      key == documentKey(req.collection, req.document)
  IN  \/ TurnAway(malformed)
      \/ ~ malformed /\ Replay(req)
      \/ /\ ~ malformed
         /\ FirstUse(req)
         /\ \/ missing # "none" /\ Refuse(req, missing)
            \/ /\ missing = "none"
               /\ \/ ~ active(key) /\ notHeld(req, key)
                  \/ active(key) /\ lockConflict(req, key)
                  \/ active(key) /\ mayRelease(req, key) /\ release(req, key)

(* The read that does not delete what it finds expired.                    *)
GetLock(collectionID, documentID) ==
  LET key == documentKey(collectionID, documentID)
  IN  IF ~ present(key) THEN Fail("lock_not_held")
      ELSE IF ~ active(key) THEN Fail("lock_expired")
      ELSE Ok(locks[key])

(* Seeded fault: what is about to expire is reaped too.                    *)
expiring == {k \in DOMAIN locks : IsExpired(locks[k], clock + 1)}

expired == {k \in DOMAIN locks : IsExpired(locks[k], clock)}

reapedEvent(key) ==
  Event("lock.reaped", NoActor, collectionIDFromKey(key), locks[key].document,
        NoKey, [holder |-> locks[key].holder,
                expiredAt |-> seconds(locks[key].expiresAt)])

(* The expired locks are visited in the arbitrary order of a Go map.       *)
reapAll ==
  \E order \in Bijection(1 .. Cardinality(expired), expired) :
    /\ appendAudit([i \in DOMAIN order |-> reapedEvent(order[i])])
    /\ reply' = Ok([reaped |-> [i \in DOMAIN order |-> locks[order[i]].document]])
    /\ locks' = Delete(locks, expired)
    /\ UNCHANGED <<collections, documents, history, idem, clock>>

ReapExpiredLocks == TurnAway(FALSE) \/ reapAll
=============================================================================
