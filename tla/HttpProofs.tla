----------------------------- MODULE HttpProofs ------------------------------
(***************************************************************************)
(* The HTTP interface and its clients, for every set of requests and every *)
(* value of the constants: the handlers do what the service does, every    *)
(* lease given is usable, the status tells the effect; and what a client   *)
(* is told over a network that loses, delays and reorders is true.         *)
(***************************************************************************)
EXTENDS Clients, LogProofs
-----------------------------------------------------------------------------
(* Every lease given over HTTP is usable, for any width of a word, any     *)
(* number of seconds asked for, and any default and maximum.               *)

(* What a step may do to a lease.                                          *)
NewLease(k) == k \in DOMAIN locks => locks'[k] # locks[k]

LeaseUsable(k) ==
  /\ "expiresAt" \in DOMAIN locks'[k]
  /\ locks'[k].expiresAt \in clock + 1 .. clock + MaxLockTTL

UsableStep == \A k \in DOMAIN locks' : NewLease(k) => LeaseUsable(k)

ClockOK == clock \in Nat

(* All that needs to be known of the table.                                *)
LeasesOK == \A k \in DOMAIN locks : "expiresAt" \in DOMAIN locks[k]
-----------------------------------------------------------------------------
(* A product that overflows is a number like any other.                    *)
LEMMA WrappedIsNumber == \A n \in Int : wrapped(n) \in Int
  BY HttpAssumption DEF wrapped

LEMMA TTLIsNumber == \A s \in Int : ttl(s) \in Int
  BY WrappedIsNumber, TTLAssumption DEF ttl

(* Whatever it is, the service makes a usable ttl of it.                   *)
LEMMA NormalizedIsUsable == \A n \in Int : NormalizeTTL(n) \in 1 .. MaxLockTTL
  BY TTLAssumption DEF NormalizeTTL
-----------------------------------------------------------------------------
LEMMA DeletesOnly ==
  ASSUME NEW ks, locks' = Delete(locks, ks) PROVE UsableStep
  BY DEF Delete, Restrict, UsableStep, NewLease

LEMMA KeepsLocks == locks' = locks => UsableStep
  BY DEF UsableStep, NewLease

LEMMA PutsUsable ==
  ASSUME NEW k, NEW lock, locks' = Put(locks, k, lock),
         "expiresAt" \in DOMAIN lock,
         lock.expiresAt \in clock + 1 .. clock + MaxLockTTL
  PROVE  UsableStep
  BY DEF Put, UsableStep, NewLease, LeaseUsable

LEMMA GrantUsable ==
  ASSUME ClockOK, NEW req, NEW k, req.ttl \in Int, grant(req, k)
  PROVE  UsableStep /\ clock' = clock
<1> DEFINE lock == [document |-> req.document, holder |-> req.holder,
                    acquiredAt |-> clock,
                    expiresAt |-> clock + NormalizeTTL(req.ttl), renewCount |-> 0]
<1>1. /\ "expiresAt" \in DOMAIN lock
      /\ lock.expiresAt \in clock + 1 .. clock + MaxLockTTL
  BY NormalizedIsUsable, TTLAssumption DEF ClockOK
<1>2. locks' = Put(locks, k, lock) /\ clock' = clock
  BY DEF grant
<1> HIDE DEF lock
<1> QED  BY <1>1, <1>2, PutsUsable

LEMMA RenewUsable ==
  ASSUME ClockOK, LeasesOK, NEW req, NEW k \in DOMAIN locks, req.ttl \in Int,
         renew(req, k)
  PROVE  UsableStep /\ clock' = clock
<1> DEFINE lock == [locks[k] EXCEPT !.expiresAt = clock + NormalizeTTL(req.ttl),
                                      !.renewCount = @ + 1]
<1>1. /\ "expiresAt" \in DOMAIN lock
      /\ lock.expiresAt \in clock + 1 .. clock + MaxLockTTL
  BY NormalizedIsUsable, TTLAssumption DEF ClockOK, LeasesOK
<1>2. locks' = Put(locks, k, lock) /\ clock' = clock
  BY DEF renew
<1> HIDE DEF lock
<1> QED  BY <1>1, <1>2, PutsUsable

LEMMA RefusalUsable ==
  ASSUME NEW req, NEW k, NEW err,
         Refuse(req, err) \/ Replay(req) \/ notHeld(req, k) \/ release(req, k)
           \/ TurnAway(TRUE) \/ TurnAway(FALSE)
  PROVE  UsableStep /\ clock' = clock
<1>1. CASE Refuse(req, err) \/ Replay(req) \/ TurnAway(TRUE) \/ TurnAway(FALSE)
  BY <1>1, KeepsLocks DEF Refuse, Replay, TurnAway, stored
<1>2. CASE notHeld(req, k)
  BY <1>2, KeepsLocks, DeletesOnly DEF notHeld, withoutStale
<1>3. CASE release(req, k)
  BY <1>3, DeletesOnly DEF release
<1> QED  BY <1>1, <1>2, <1>3

LEMMA TurnAwayUsable ==
  ASSUME NEW malformed, TurnAway(malformed) PROVE UsableStep /\ clock' = clock
  BY KeepsLocks DEF TurnAway, stored

LEMMA AcquireUsable ==
  ASSUME ClockOK, LeasesOK, NEW req, req.ttl \in Int, AcquireLock(req)
  PROVE  UsableStep /\ clock' = clock
<1> DEFINE k == documentKey(req.collection, req.document)
           missing == lookupError(req.collection, req.document)
<1>1. CASE TurnAway(req.holder = NoHolder)
  BY <1>1, TurnAwayUsable
<1>2. CASE Replay(req) \/ Refuse(req, missing) \/ lockConflict(req, k)
  BY <1>2, RefusalUsable DEF lockConflict
<1>3. CASE active(k) /\ renew(req, k)
  BY <1>3, RenewUsable DEF active, present
<1>4. CASE grant(req, k)
  BY <1>4, GrantUsable
<1> QED  BY <1>1, <1>2, <1>3, <1>4 DEF AcquireLock

LEMMA RenewLockUsable ==
  ASSUME ClockOK, LeasesOK, NEW req, req.ttl \in Int, RenewLock(req)
  PROVE  UsableStep /\ clock' = clock
<1> DEFINE k == documentKey(req.collection, req.document)
           missing == lookupError(req.collection, req.document)
<1>1. CASE TurnAway(req.holder = NoHolder)
  BY <1>1, TurnAwayUsable
<1>2. CASE Replay(req) \/ Refuse(req, missing) \/ lockConflict(req, k)
             \/ notHeld(req, k)
  BY <1>2, RefusalUsable DEF lockConflict
<1>3. CASE active(k) /\ renew(req, k)
  BY <1>3, RenewUsable DEF active, present
<1> QED  BY <1>1, <1>2, <1>3 DEF RenewLock

LEMMA ReleaseUsable ==
  ASSUME NEW req, ReleaseLock(req)
  PROVE  UsableStep /\ clock' = clock
<1> DEFINE k == documentKey(req.collection, req.document)
           missing == lookupError(req.collection, req.document)
<1>1. CASE TurnAway(req.holder = NoHolder)
  BY <1>1, TurnAwayUsable
<1>2. CASE Replay(req) \/ Refuse(req, missing) \/ lockConflict(req, k)
             \/ notHeld(req, k) \/ release(req, k)
  BY <1>2, RefusalUsable DEF lockConflict
<1> QED  BY <1>1, <1>2 DEF ReleaseLock

LEMMA ReapUsable ==
  ASSUME ReapExpiredLocks PROVE UsableStep /\ clock' = clock
  BY TurnAwayUsable, DeletesOnly DEF ReapExpiredLocks, reapAll

(* The other operations leave the locks alone.                             *)
LEMMA DocumentsKeepLocks ==
  ASSUME NEW req,
         \/ RegisterCollection(req)
         \/ CreateDocument(req)
         \/ UpdateDocument(req)
         \/ BatchUpdateDocuments(req)
  PROVE  locks' = locks /\ clock' = clock
<1>1. \A malformed : TurnAway(malformed) => locks' = locks /\ clock' = clock
  BY DEF TurnAway, stored
<1>2. /\ \A err : Refuse(req, err) => locks' = locks /\ clock' = clock
      /\ Replay(req) => locks' = locks /\ clock' = clock
      /\ Panic(req) => locks' = locks /\ clock' = clock
  BY DEF Refuse, Replay, Panic, stored
<1>3. CASE RegisterCollection(req)
  BY <1>1, <1>2, <1>3 DEF RegisterCollection, registerNew, returnExisting, stored
<1>4. CASE CreateDocument(req)
  BY <1>1, <1>2, <1>4 DEF CreateDocument, insert
<1>5. CASE UpdateDocument(req)
  BY <1>1, <1>2, <1>5 DEF UpdateDocument, update
<1>6. CASE BatchUpdateDocuments(req)
  BY <1>1, <1>2, <1>6 DEF BatchUpdateDocuments, rejectBatch, applyBatch
<1> QED  BY <1>3, <1>4, <1>5, <1>6
-----------------------------------------------------------------------------
LEMMA CallHasNumber ==
  ASSUME NEW h \in HttpRequests, h.route \in {"AcquireLock", "RenewLock"},
         h.body # Undecodable
  PROVE  call(h).ttl \in Int
<1>1. h.body.seconds \in Int
  BY HttpAssumption
<1>2. call(h).ttl = ttl(h.body.seconds)
  BY DEF call, lockCall, LockRoute
<1> QED  BY <1>1, <1>2, TTLIsNumber

LEMMA ServeUsable ==
  ASSUME ClockOK, LeasesOK, NEW h \in HttpRequests, Serve(h)
  PROVE  UsableStep /\ clock' = clock
<1>1. \A err : Refused(h, err) => UsableStep /\ clock' = clock
  BY KeepsLocks DEF Refused, vars, stored
<1>2. CASE Write(h)
  <2>1. CASE AcquireLock(call(h)) /\ h.route = "AcquireLock" /\ h.body # Undecodable
    BY <2>1, AcquireUsable, CallHasNumber
  <2>2. CASE RenewLock(call(h)) /\ h.route = "RenewLock" /\ h.body # Undecodable
    BY <2>2, RenewLockUsable, CallHasNumber
  <2> QED
    BY <1>1, <1>2, <2>1, <2>2, ReleaseUsable, DocumentsKeepLocks, KeepsLocks DEF Write
<1>3. CASE Reap(h)
  BY <1>3, ReapUsable DEF Reap
<1>4. CASE Read(h)
  BY <1>1, <1>4, KeepsLocks DEF Read, vars, stored
<1> QED  BY <1>2, <1>3, <1>4 DEF Serve

LEMMA StepUsable ==
  ASSUME ClockOK, LeasesOK, [TransportNext]_<<vars, answer>>
  PROVE  UsableStep /\ ClockOK' /\ LeasesOK'
<1>1. UsableStep /\ ClockOK'
  <2>1. CASE Tick
    BY <2>1, KeepsLocks DEF Tick, ClockOK, stored
  <2>2. CASE \E h \in HttpRequests : Serve(h)
    BY <2>2, ServeUsable DEF ClockOK
  <2>3. CASE UNCHANGED <<vars, answer>>
    BY <2>3, KeepsLocks DEF vars, stored, ClockOK
  <2> QED  BY <2>1, <2>2, <2>3 DEF TransportNext
<1>2. LeasesOK'
  BY <1>1 DEF UsableStep, NewLease, LeaseUsable, LeasesOK
<1> QED  BY <1>1, <1>2

(* Whatever number of seconds a client asks for, overflow included, the    *)
(* lease it is given has not ended and ends within the maximum             *)
(* (domain/lock.go:47-57, httpapi/locks.go:19-25).                         *)
THEOREM GivenLeasesAreUsable == TransportSpec => LeasesAreUsable
<1> DEFINE Inv == ClockOK /\ LeasesOK
           Usable == \A k \in DOMAIN locks' :
                       (k \in DOMAIN locks => locks'[k] # locks[k]) =>
                         locks'[k].expiresAt \in clock + 1 .. clock + MaxLockTTL
<1>1. TransportInit => Inv
  BY DEF TransportInit, Init, ClockOK, LeasesOK
<1>2. Inv /\ [TransportNext]_<<vars, answer>> => Inv'
  BY StepUsable
<1>3. Inv /\ [TransportNext]_<<vars, answer>> => [Usable]_<<vars, answer>>
  BY StepUsable DEF UsableStep, NewLease, LeaseUsable
<1> HIDE DEF Inv
<1> QED  BY <1>1, <1>2, <1>3, PTL DEF TransportSpec, LeasesAreUsable
-----------------------------------------------------------------------------
(* What clients do over HTTP the service does.                             *)

LEMMA ServeIsCall ==
  ASSUME NEW h \in HttpRequests, Serve(h)
  PROVE  [Next]_vars
<1>1. CASE Write(h) /\ h.body = Undecodable
  BY <1>1 DEF Write, Refused
<1>2. CASE Write(h) /\ h.body # Undecodable
  BY <1>2, CallsAssumption DEF Write, Next
<1>3. CASE Reap(h)
  BY <1>3 DEF Reap, Next
<1>4. CASE Read(h)
  BY <1>4 DEF Read, Refused
<1> QED  BY <1>1, <1>2, <1>3, <1>4 DEF Serve

LEMMA TransportStep == [TransportNext]_<<vars, answer>> => [Next]_vars
<1>1. TransportNext => [Next]_vars
  BY ServeIsCall DEF TransportNext, Next
<1> QED  BY <1>1

(* The handlers add nothing to the service and take nothing from it: an    *)
(* undecodable body and a refused query are as if never sent, and every    *)
(* other request is one call (httpapi/documents.go, collections.go,        *)
(* locks.go, audit.go).  So each theorem about the service is one about    *)
(* what its HTTP clients can bring about.                                  *)
THEOREM HttpIsService == TransportSpec => Spec
<1>1. TransportInit => Init
  BY DEF TransportInit
<1> QED  BY <1>1, TransportStep, PTL DEF TransportSpec, Spec

LEMMA HttpTypeCorrect == TransportSpec => []TypeOK
  BY HttpIsService, TypeCorrect, PTL
-----------------------------------------------------------------------------
(* The status of an answer tells whether the call had an effect.           *)

Succeeded == reply'.err = "none"

LEMMA StatusIsOutcome ==
  ASSUME NEW route, NEW outcome, outcome.err \in ErrorKind
  PROVE  LET status == respond(route, outcome).status
         IN  /\ status # 500
             /\ status \in 200 .. 299 <=> outcome.err = "none"
<1>1. CASE outcome.err = "panic"
  BY <1>1 DEF respond, NoAnswer
<1>2. CASE outcome.err = "none"
  <2>1. respond(route, outcome).status = success(route)
    BY <1>2 DEF respond
  <2>2. success(route) \in {200, 201, 204}
    BY DEF success
  <2> QED  BY <1>2, <2>1, <2>2
<1>3. CASE outcome.err \notin {"panic", "none"}
  <2>1. respond(route, outcome).status = mapError(outcome.err).status
    BY <1>3 DEF respond
  <2>2. mapError(outcome.err).status \in {503, 400, 404, 409, 410}
    BY <1>3 DEF mapError, ErrorKind
  <2> QED  BY <1>3, <2>1, <2>2
<1> QED  BY <1>1, <1>2, <1>3

(* What every call without a key that fails has in common.                 *)
LEMMA NothingDone ==
  ASSUME NEW req, req.key = NoKey, NEW err, err # "none", NEW malformed,
         Refuse(req, err) \/ Panic(req) \/ TurnAway(malformed)
  PROVE  ~ Succeeded /\ documents' = documents /\ locks' = locks /\ clock' = clock
  BY DEF Refuse, Panic, TurnAway, Return, Fail, stored, Succeeded

LEMMA NoReplay == ASSUME NEW req, req.key = NoKey PROVE ~ Replay(req)
  BY DEF Replay, Known

LEMMA UpdatesChange ==
  ASSUME TypeOK, NEW actor, NEW patches, applyUpdates(actor, patches),
         NEW k \in DOMAIN documents, k \in DOMAIN patches
  PROVE  documents' # documents
<1>1. documents'[k] = updated(documents[k], patches[k])
  BY DEF applyUpdates
<1>2. documents[k] \in Document
  BY DEF TypeOK, IsMap
<1>3. documents[k].version \in Nat /\ "version" \in DOMAIN documents[k]
  BY <1>2 DEF Document, Version
<1>4. updated(documents[k], patches[k]).version = documents[k].version + 1
  BY <1>2, <1>3 DEF updated, Document
<1> QED  BY <1>1, <1>3, <1>4

LEMMA CreateStatus ==
  ASSUME TypeOK, NEW req, req.key = NoKey, CreateDocument(req)
  PROVE  Succeeded <=> documents' # documents
<1> USE NothingDone, NoReplay
<1>1. ASSUME NEW id, ~ documentExists(documentKey(req.collection, id)), insert(req, id)
      PROVE  Succeeded /\ documents' # documents
  <2>1. documentKey(req.collection, id) \in DOMAIN documents'
    BY <1>1 DEF insert, Put
  <2> QED  BY <1>1, <2>1 DEF insert, documentExists, Return, Ok, Succeeded
<1> QED  BY <1>1 DEF CreateDocument

LEMMA UpdateStatus ==
  ASSUME TypeOK, NEW req, req.key = NoKey, UpdateDocument(req)
  PROVE  Succeeded <=> documents' # documents
<1> USE NothingDone, NoReplay
<1>1. ASSUME lookupError(req.collection, req.document) = "none", update(req)
      PROVE  Succeeded /\ documents' # documents
  <2> DEFINE k == documentKey(req.collection, req.document)
  <2>1. k \in DOMAIN documents
    BY <1>1 DEF lookupError, documentExists
  <2>2. applyUpdates(req.actor, [x \in {k} |-> req]) /\ Succeeded
    BY <1>1 DEF update, Return, Ok, Succeeded
  <2> HIDE DEF k
  <2> QED  BY <2>1, <2>2, UpdatesChange
<1> QED  BY <1>1 DEF UpdateDocument

LEMMA BatchStatus ==
  ASSUME TypeOK, NEW req, req.key = NoKey, req.items \in Seq(BatchItem),
         BatchUpdateDocuments(req)
  PROVE  Succeeded <=> documents' # documents
<1> USE NothingDone, NoReplay
<1>1. ASSUME rejectBatch(req)
      PROVE  ~ Succeeded /\ documents' = documents
  BY <1>1 DEF rejectBatch, Return, Succeeded
<1>2. ASSUME req.items # <<>>, failing(req) = {}, applyBatch(req)
      PROVE  Succeeded /\ documents' # documents
  <2> DEFINE n == Len(req.items)
             k == itemKey(req, 1)
             patches == [x \in {itemKey(req, i) : i \in 1 .. n} |->
                           req.items[CHOOSE i \in 1 .. n : itemKey(req, i) = x]]
  <2>1. 1 \in DOMAIN req.items /\ 1 \in 1 .. n
    BY <1>2, EmptySeq
  <2>2. itemFailure(req, 1) = "none"
    BY <1>2, <2>1 DEF failing
  <2>3. k \in DOMAIN documents
    BY <2>2 DEF itemFailure, documentExists
  <2>4. k \in DOMAIN patches
    BY <2>1
  <2>5. applyUpdates(req.actor, patches) /\ Succeeded
    BY <1>2 DEF applyBatch, Return, Ok, Succeeded
  <2> HIDE DEF k, patches
  <2> QED  BY <2>3, <2>4, <2>5, UpdatesChange
<1>3. TurnAway(req.items = <<>>) => ~ Succeeded /\ documents' = documents
  BY DEF TurnAway, Fail, stored, Succeeded
<1>4. Refuse(req, "collection_not_found") => ~ Succeeded /\ documents' = documents
  OBVIOUS
<1> QED  BY <1>1, <1>2, <1>3, <1>4 DEF BatchUpdateDocuments

(* The leases in force, with what they say.                                *)
terms == [k \in leased |-> locks[k]]

LEMMA LeasesKept ==
  ASSUME locks' = locks, clock' = clock
  PROVE  terms' = terms
<1>1. leased' = leased
  BY DEF leased, active, present
<1> QED  BY <1>1 DEF terms

(* An entry that has expired is no lease, so nothing is lost with it.      *)
LEMMA StaleIsNoLease ==
  ASSUME NEW req, NEW k, notHeld(req, k), ~ active(k)
  PROVE  terms' = terms
<1>1. /\ \A x \in leased : x \in DOMAIN locks' /\ locks'[x] = locks[x]
      /\ \A x \in DOMAIN locks' : x \in DOMAIN locks /\ locks'[x] = locks[x]
      /\ clock' = clock
  BY DEF notHeld, withoutStale, Delete, Restrict, leased, active
<1>2. leased' = leased
  BY <1>1 DEF leased, active, present
<1> QED  BY <1>1, <1>2 DEF terms

LEMMA GrantChanges ==
  ASSUME TypeOK, NEW req, req.ttl \in Int, NEW k, ~ active(k), grant(req, k)
  PROVE  terms' # terms
<1>1. locks'[k].expiresAt = clock + NormalizeTTL(req.ttl) /\ k \in DOMAIN locks'
  BY DEF grant, Put
<1>2. clock' = clock /\ clock \in Nat
  BY DEF grant, TypeOK
<1>3. NormalizeTTL(req.ttl) \in Nat \ {0}
  BY NormalizedIsUsable, TTLAssumption
<1>4. k \in leased'
  BY <1>1, <1>2, <1>3 DEF leased, active, present, IsExpired
<1>5. k \notin leased
  BY DEF leased
<1> QED  BY <1>4, <1>5 DEF terms

LEMMA RenewChanges ==
  ASSUME TypeOK, NEW req, NEW k, active(k), renew(req, k)
  PROVE  terms' # terms
<1>1. k \in leased /\ locks[k] \in Lock
  BY DEF active, present, leased, TypeOK, IsMap
<1>2. locks'[k].renewCount = locks[k].renewCount + 1
  BY <1>1 DEF renew, Put, Lock
<1>3. locks'[k] # locks[k]
  BY <1>1, <1>2 DEF Lock
<1>4. CASE k \in leased'
  BY <1>1, <1>3, <1>4 DEF terms
<1>5. CASE k \notin leased'
  BY <1>1, <1>5 DEF terms
<1> QED  BY <1>4, <1>5

LEMMA ReleaseChanges ==
  ASSUME NEW req, NEW k, active(k), release(req, k)
  PROVE  terms' # terms
<1>1. k \in leased
  BY DEF active, present, leased
<1>2. k \notin leased'
  BY DEF release, Delete, Restrict, leased
<1> QED  BY <1>1, <1>2 DEF terms

LEMMA LockStatus ==
  ASSUME TypeOK, NEW req, req.key = NoKey,
         \/ AcquireLock(req) /\ req.ttl \in Int
         \/ RenewLock(req)
         \/ ReleaseLock(req)
  PROVE  Succeeded <=> terms' # terms
<1> DEFINE k == documentKey(req.collection, req.document)
           missing == lookupError(req.collection, req.document)
<1>1. ~ Replay(req)
  BY NoReplay
<1>2. ASSUME TurnAway(req.holder = NoHolder)
      PROVE  ~ Succeeded /\ terms' = terms
  BY <1>2, LeasesKept DEF TurnAway, Fail, stored, Succeeded
<1>3. ASSUME \/ missing # "none" /\ Refuse(req, missing)
             \/ lockConflict(req, k)
             \/ ~ active(k) /\ notHeld(req, k)
      PROVE  ~ Succeeded /\ terms' = terms
  <2> HIDE DEF k, missing
  <2>1. \A err : err # "none" /\ Refuse(req, err) => ~ Succeeded /\ terms' = terms
    BY NothingDone, LeasesKept
  <2>2. CASE ~ active(k) /\ notHeld(req, k)
    BY <2>2, StaleIsNoLease DEF notHeld, Return, Fail, Succeeded
  <2> QED  BY <1>3, <2>1, <2>2 DEF lockConflict
<1>4. ASSUME \/ active(k) /\ renew(req, k)
             \/ req.ttl \in Int /\ ~ active(k) /\ grant(req, k)
             \/ active(k) /\ release(req, k)
      PROVE  Succeeded /\ terms' # terms
  <2>1. Succeeded
    BY <1>4 DEF renew, grant, release, Return, Ok, Succeeded
  <2> HIDE DEF k
  <2> QED  BY <1>4, <2>1, RenewChanges, GrantChanges, ReleaseChanges
<1> HIDE DEF k, missing
<1>5. CASE AcquireLock(req) /\ req.ttl \in Int
  BY <1>1, <1>2, <1>3, <1>4, <1>5 DEF AcquireLock, k, missing
<1>6. CASE RenewLock(req)
  BY <1>1, <1>2, <1>3, <1>4, <1>6 DEF RenewLock, k, missing
<1>7. CASE ReleaseLock(req)
  BY <1>1, <1>2, <1>3, <1>4, <1>7 DEF ReleaseLock, k, missing
<1> QED  BY <1>5, <1>6, <1>7

LEMMA AlwaysAnswered ==
  ASSUME TypeOK, NEW h \in HttpRequests, Serve(h), TypeOK'
  PROVE  answer'.status # 500
<1>1. \A outcome : outcome.err \in ErrorKind => respond(h.route, outcome).status # 500
  BY StatusIsOutcome
<1>2. \A err \in {"invalid_input", "canceled"} : Refused(h, err) => answer'.status # 500
  <2> TAKE err \in {"invalid_input", "canceled"}
  <2>1. Fail(err).err \in ErrorKind
    BY DEF Fail, ErrorKind
  <2> QED  BY <1>1, <2>1 DEF Refused
<1>3. CASE Write(h) \/ Reap(h)
  <2>1. reply'.err \in ErrorKind
    BY DEF TypeOK, Outcome
  <2>2. CASE answer' = respond(h.route, reply')
    BY <1>1, <2>1, <2>2
  <2> QED  BY <1>2, <1>3, <2>2 DEF Write, Reap
<1>4. CASE Read(h)
  <2>1. ASSUME h.route \in ReadRoute
        PROVE  result(h).err \in ErrorKind
    <3>1. \A c, d : lookupError(c, d) \in ErrorKind
      BY DEF lookupError, ErrorKind
    <3>2. \A value : Ok(value).err = "none" /\ listed(Ok(value)).err = "none"
      BY DEF Ok, listed
    <3>3. \A err : err # "none" => Fail(err).err = err /\ listed(Fail(err)).err = err
      BY DEF Fail, listed
    <3> QED
      BY <2>1, <3>1, <3>2, <3>3
      DEF ReadRoute, result, GetCollection, GetDocument, ListDocuments,
          GetDocumentHistory, ErrorKind
  <2>2. CASE h.route \in ReadRoute /\ answer' = respond(h.route, result(h))
    BY <1>1, <2>1, <2>2
  <2> QED  BY <1>2, <1>4, <2>2 DEF Read
<1> QED  BY <1>3, <1>4 DEF Serve

(* What a request composes is a call of its route's type.                  *)
LEMMA CallTyped ==
  ASSUME NEW h \in HttpRequests, h.body # Undecodable
  PROVE  /\ h.route = "BatchUpdateDocuments" => call(h).items \in Seq(BatchItem)
         /\ h.route = "AcquireLock" => call(h).ttl \in Int
<1>1. h.route = "BatchUpdateDocuments" => call(h) \in BatchRequest
  BY CallsAssumption, DocumentRequestAssumption
<1>2. h.route = "AcquireLock" => call(h) \in LeaseRequest({"AcquireLock"})
  BY CallsAssumption, LockRequestAssumption
<1> QED  BY <1>1, <1>2 DEF BatchRequest, LeaseRequest

LEMMA WriteStatus ==
  ASSUME TypeOK, TypeOK', NEW h \in HttpRequests, h.body # Undecodable, Write(h),
         call(h).key = NoKey
  PROVE  LET done == answer'.status \in 200 .. 299
         IN  /\ h.route \in DocumentRoute \ {"RegisterCollection"} =>
                  (done <=> documents' # documents)
             /\ h.route \in LockRoute => (done <=> terms' # terms)
<1>1. answer'.status \in 200 .. 299 <=> Succeeded
  <2>1. reply'.err \in ErrorKind /\ answer' = respond(h.route, reply')
    BY DEF TypeOK, Outcome, Write
  <2> QED  BY <2>1, StatusIsOutcome DEF Succeeded
<1>2. h.route \in DocumentRoute \ {"RegisterCollection"} =>
        (Succeeded <=> documents' # documents)
  <2>1. CASE h.route = "CreateDocument"
    BY <2>1, CreateStatus DEF Write
  <2>2. CASE h.route = "UpdateDocument"
    BY <2>2, UpdateStatus DEF Write
  <2>3. CASE h.route = "BatchUpdateDocuments"
    BY <2>3, BatchStatus, CallTyped DEF Write
  <2> QED  BY <2>1, <2>2, <2>3 DEF DocumentRoute
<1>3. h.route \in LockRoute => (Succeeded <=> terms' # terms)
  <2>1. CASE h.route = "AcquireLock"
    BY <2>1, LockStatus, CallTyped DEF Write
  <2>2. CASE h.route = "RenewLock"
    BY <2>2, LockStatus DEF Write
  <2>3. CASE h.route = "ReleaseLock"
    BY <2>3, LockStatus DEF Write
  <2> QED  BY <2>1, <2>2, <2>3 DEF LockRoute
<1> QED  BY <1>1, <1>2, <1>3

LEMMA NoInternalError ==
  ASSUME TypeOK, TypeOK', answer.status # 500, [TransportNext]_<<vars, answer>>
  PROVE  answer'.status # 500
<1>1. CASE \E h \in HttpRequests : Serve(h)
  BY <1>1, AlwaysAnswered
<1>2. CASE UNCHANGED answer
  BY <1>2
<1> QED  BY <1>1, <1>2 DEF TransportNext

LEMMA StatusStepHolds ==
  ASSUME TypeOK, TypeOK', answer.status # 500, [TransportNext]_<<vars, answer>>
  PROVE  StatusStep
  BY NoInternalError, WriteStatus DEF StatusStep, terms

(* For every set of clients' requests the status alone tells whether the   *)
(* call had an effect, and no request is ever an internal error            *)
(* (httpapi/documents.go:62-89, encode.go:54-119).                         *)
THEOREM StatusTellsTheEffect == TransportSpec => StatusTellsEffect
<1> DEFINE Answered == answer.status # 500
<1>1. TransportInit => Answered
  BY DEF TransportInit, NoAnswer
<1>2. TypeOK /\ TypeOK' /\ Answered /\ [TransportNext]_<<vars, answer>> => Answered'
  BY NoInternalError
<1>3. TypeOK /\ TypeOK' /\ Answered /\ [TransportNext]_<<vars, answer>> =>
        [StatusStep]_<<vars, answer>>
  BY StatusStepHolds
<1> HIDE DEF Answered
<1> QED
  BY <1>1, <1>2, <1>3, HttpTypeCorrect, PTL DEF TransportSpec, StatusTellsEffect
-----------------------------------------------------------------------------
(* Retries.  What a request with a key is answered is decided, once and    *)
(* for all, by the request itself or by what is recorded under its key.    *)

Malformed(h) ==
  \/ h.route = "RegisterCollection" /\ TrimSpace[call(h).name] = Empty
  \/ h.route = "CreateDocument" /\ TrimSpace[call(h).title] = Empty
  \/ h.route = "UpdateDocument" /\ call(h).expected < 1
  \/ h.route = "BatchUpdateDocuments" /\ call(h).items = <<>>
  \/ h.route \in LockRoute /\ call(h).holder = NoHolder

Used(h) == call(h).key \in DOMAIN idem

Decided(h) == Malformed(h) \/ Used(h)

verdict(h) ==
  respond(h.route,
          IF Malformed(h) THEN Fail("invalid_input")
          ELSE IF idem[call(h).key].fingerprint = fingerprint(call(h))
               THEN idem[call(h).key].outcome
          ELSE Fail("idempotency_conflict"))

LEMMA KeyedFacts ==
  ASSUME NEW h, keyGiven(h) # NoKey
  PROVE  /\ h.route \in LockRoute \cup DocumentRoute
         /\ h.body # Undecodable
         /\ keyGiven(h) = call(h).key
  BY DEF keyGiven

(* The ways a call ends: before the lock, by a replay, or by recording     *)
(* what it returns.                                                        *)
Concludes(req) ==
  \/ Panic(req)
  \/ \E outcome : Return(req, outcome)

LEMMA WriteEnds ==
  ASSUME NEW h, h.body # Undecodable, Write(h)
  PROVE  /\ \/ TurnAway(Malformed(h))
            \/ ~ Malformed(h) /\ Replay(call(h))
            \/ ~ Malformed(h) /\ FirstUse(call(h)) /\ Concludes(call(h))
         /\ answer' = respond(h.route, reply')
<1>1. PICK req : req = call(h)
  OBVIOUS
<1> DEFINE Ends(malformed) ==
             \/ TurnAway(malformed)
             \/ ~ malformed /\ Replay(req)
             \/ ~ malformed /\ FirstUse(req) /\ Concludes(req)
<1>2. \A err : Refuse(req, err) => Concludes(req)
  BY DEF Refuse, Concludes
<1>3. h.route = "RegisterCollection" /\ RegisterCollection(req) =>
        Ends(TrimSpace[req.name] = Empty)
  BY DEF RegisterCollection, returnExisting, registerNew, Concludes
<1>4. h.route = "CreateDocument" /\ CreateDocument(req) =>
        Ends(TrimSpace[req.title] = Empty)
  BY <1>2 DEF CreateDocument, insert, Concludes
<1>5. h.route = "UpdateDocument" /\ UpdateDocument(req) => Ends(req.expected < 1)
  BY <1>2 DEF UpdateDocument, update, Concludes
<1>6. h.route = "BatchUpdateDocuments" /\ BatchUpdateDocuments(req) =>
        Ends(req.items = <<>>)
  BY <1>2 DEF BatchUpdateDocuments, rejectBatch, applyBatch, Concludes
<1>7. \/ h.route = "AcquireLock" /\ AcquireLock(req)
      \/ h.route = "RenewLock" /\ RenewLock(req)
      \/ h.route = "ReleaseLock" /\ ReleaseLock(req)
      => Ends(req.holder = NoHolder)
  BY <1>2
  DEF AcquireLock, RenewLock, ReleaseLock, lockConflict, notHeld, renew, grant,
      release, Concludes
<1>8. \A b \in BOOLEAN : (Malformed(h) <=> b) /\ Ends(b) => Ends(Malformed(h))
  BY DEF TurnAway
<1> HIDE DEF Ends
<1>9. Ends(Malformed(h))
  <2>1. CASE h.route = "RegisterCollection"
    BY <1>1, <1>3, <1>8, <2>1 DEF Write, Malformed, LockRoute
  <2>2. CASE h.route = "CreateDocument"
    BY <1>1, <1>4, <1>8, <2>2 DEF Write, Malformed, LockRoute
  <2>3. CASE h.route = "UpdateDocument"
    <3>1. Malformed(h) <=> req.expected < 1
      BY <1>1, <2>3 DEF Malformed, LockRoute
    <3>2. Ends(req.expected < 1)
      BY <1>1, <1>5, <2>3 DEF Write
    <3>3. (req.expected < 1) = TRUE \/ (req.expected < 1) = FALSE
      OBVIOUS
    <3> QED  BY <1>8, <3>1, <3>2, <3>3
  <2>4. CASE h.route = "BatchUpdateDocuments"
    BY <1>1, <1>6, <1>8, <2>4 DEF Write, Malformed, LockRoute
  <2>5. CASE h.route \in LockRoute
    BY <1>1, <1>7, <1>8, <2>5 DEF Write, Malformed, LockRoute
  <2> QED  BY <2>1, <2>2, <2>3, <2>4, <2>5 DEF Write, LockRoute
<1> QED  BY <1>1, <1>9 DEF Write, Ends

(* Whoever is answered is answered the verdict.                            *)
LEMMA AnswerIsVerdict ==
  ASSUME NEW h, keyGiven(h) # NoKey, Serve(h),
         answer' # NoAnswer, answer'.status # 503
  PROVE  Decided(h)' /\ answer' = verdict(h)'
<1>1. h.route \in LockRoute \cup DocumentRoute /\ h.body # Undecodable
  BY KeyedFacts
<1>2. Write(h)
  BY <1>1 DEF Serve, Reap, Read, ReadRoute, LockRoute, DocumentRoute
<1>3. answer' = respond(h.route, reply')
  BY <1>1, <1>2, WriteEnds
<1>4. reply' # Fail("canceled")
  BY <1>3 DEF respond, mapError, Fail
<1>5. reply' # Fail("panic")
  BY <1>3 DEF respond, Fail
<1>6. call(h).key # NoKey
  BY KeyedFacts
<1>7. CASE TurnAway(Malformed(h))
  <2>1. Malformed(h) /\ reply' = Fail("invalid_input")
    BY <1>4, <1>7 DEF TurnAway
  <2> QED  BY <1>3, <2>1 DEF Decided, verdict, Malformed
<1>8. CASE ~ Malformed(h) /\ Replay(call(h))
  <2>1. Malformed(h)' = Malformed(h)
    BY DEF Malformed
  <2>2. Used(h)' /\ idem' = idem
    BY <1>8 DEF Replay, Known, Used
  <2> QED  BY <1>3, <1>8, <2>1, <2>2 DEF Replay, Replays, Known, Decided, verdict
<1>9. CASE ~ Malformed(h) /\ FirstUse(call(h)) /\ Concludes(call(h))
  <2>1. ~ Malformed(h)'
    BY <1>9 DEF Malformed
  <2>2. PICK outcome : Return(call(h), outcome)
    BY <1>5, <1>9 DEF Concludes, Panic
  <2>3. /\ Used(h)'
        /\ idem'[call(h).key].fingerprint = fingerprint(call(h))
        /\ idem'[call(h).key].outcome = reply'
    BY <1>6, <2>2 DEF Return, Record, Put, Used
  <2> QED  BY <1>3, <2>1, <2>3 DEF Decided, verdict
<1> QED  BY <1>1, <1>2, <1>7, <1>8, <1>9, WriteEnds

(* Nothing that happens later changes it.                                  *)
LEMMA VerdictStays ==
  ASSUME NEW h, Decided(h), KeepsAnswers
  PROVE  Decided(h)' /\ verdict(h)' = verdict(h)
  BY DEF Decided, verdict, Used, Malformed, KeepsAnswers
-----------------------------------------------------------------------------
(* Where the clients are.                                                  *)

ClientsTyped ==
  /\ at \in [Client -> Nat \ {0}]
  /\ waiting \in [Client -> Nat]
  /\ inbox = [c \in Client |-> inbox[c]]
  /\ \E S : told \in [Client -> Seq(S)]

(* A client has been told of every request before the one it is at, unless *)
(* it has none to send.                                                    *)
InTurn(c) ==
  /\ Len(told[c]) < at[c]
  /\ Len(told[c]) = at[c] - 1 \/ finished(c)

IsCopy(m) ==
  /\ m.client \in Client
  /\ m.step \in DOMAIN script[m.client]
  /\ m.number # 0
  /\ m.step <= at[m.client]
  /\ Len(told[m.client]) = at[m.client] - 1
  /\ keyGiven(script[m.client][m.step]) # NoKey => sent(m.client, m.step)

(* An answer to a request with a key is one that has been given.           *)
Given(c, i, a) ==
  keyGiven(script[c][i]) # NoKey => [client |-> c, step |-> i, answer |-> a] \in given

Awaited(c) ==
  inbox[c] # NoAnswer =>
    /\ waiting[c] # 0
    /\ at[c] \in DOMAIN script[c]
    /\ Len(told[c]) = at[c] - 1
    /\ Given(c, at[c], inbox[c])

Told(c) ==
  \A i \in DOMAIN told[c] : i \in DOMAIN script[c] /\ Given(c, i, told[c][i])

Flow ==
  /\ ClientsTyped
  /\ \A m \in flight : IsCopy(m)
  /\ \A c \in Client : InTurn(c) /\ Awaited(c) /\ Told(c)

LEMMA ScriptFacts ==
  ASSUME NEW c \in Client
  PROVE  /\ Len(script[c]) \in Nat
         /\ DOMAIN script[c] = 1 .. Len(script[c])
         /\ \A i \in DOMAIN script[c] : script[c][i] \in HttpRequests
  BY ScriptAssumption

LEMMA ToldFacts ==
  ASSUME ClientsTyped, NEW c \in Client
  PROVE  /\ Len(told[c]) \in Nat
         /\ DOMAIN told[c] = 1 .. Len(told[c])
         /\ at[c] \in Nat \ {0}
         /\ waiting[c] \in Nat
  BY DEF ClientsTyped

LEMMA SendFlows ==
  ASSUME Flow, NEW c \in Client, Send(c)
  PROVE  Flow'
<1>1. PICK n \in 1 .. MaxCopies :
        /\ waiting' = [waiting EXCEPT ![c] = n]
        /\ flight' = flight \cup {[client |-> c, step |-> at[c], number |-> n]}
  BY DEF Send, unused
<1>2. ~ finished(c) /\ UNCHANGED <<at, told, given>>
      /\ inbox' = [inbox EXCEPT ![c] = NoAnswer]
  BY DEF Send
<1>3. n \in Nat /\ n # 0
  BY <1>1
<1>4. ClientsTyped'
  BY <1>1, <1>2, <1>3 DEF Flow, ClientsTyped
<1>5. at[c] \in DOMAIN script[c] /\ Len(told[c]) = at[c] - 1
  BY <1>2, ScriptFacts, ToldFacts DEF Flow, InTurn, finished
<1>6. \A d \in Client : \A j : sent(d, j) => sent(d, j)'
  BY <1>1, <1>2, <1>3 DEF Flow, ClientsTyped, sent
<1>7. \A m \in flight : IsCopy(m)'
  BY <1>2, <1>6 DEF Flow, IsCopy
<1>8. ASSUME NEW m, m = [client |-> c, step |-> at[c], number |-> n]
      PROVE  IsCopy(m)'
  <2>1. m.client = c /\ m.step = at[c] /\ m.number = n
    BY <1>8
  <2>2. sent(c, m.step)'
    BY <1>1, <1>2, <1>3, <2>1 DEF Flow, ClientsTyped, sent
  <2> QED  BY <1>2, <1>3, <1>5, <2>1, <2>2, ToldFacts DEF IsCopy, Flow
<1>9. \A d \in Client : InTurn(d)' /\ Told(d)'
  BY <1>2 DEF Flow, InTurn, finished, Told, Given
<1>10. ASSUME NEW d \in Client PROVE Awaited(d)'
  <2>1. CASE d = c
    BY <1>2, <2>1 DEF Flow, ClientsTyped, Awaited
  <2>2. CASE d # c
    BY <1>1, <1>2, <2>2 DEF Flow, ClientsTyped, Awaited, Given
  <2> QED  BY <2>1, <2>2
<1>11. ASSUME NEW m \in flight' PROVE IsCopy(m)'
  <2>1. CASE m \in flight
    BY <1>7, <2>1 DEF IsCopy
  <2> QED  BY <1>1, <1>8, <2>1
<1> QED  BY <1>4, <1>9, <1>10, <1>11 DEF Flow

(* What a client is told comes after what it has been told before.         *)
LEMMA DeliverTells ==
  ASSUME Flow, NEW c \in Client, Deliver(c), ~ asksAgain(c)
  PROVE  /\ \E S : told' \in [Client -> Seq(S)]
         /\ \A d \in Client \ {c} : told'[d] = told[d] /\ at'[d] = at[d]
         /\ at' \in [Client -> Nat \ {0}] /\ at'[c] = at[c] + 1
         /\ Len(told'[c]) = at[c] /\ DOMAIN told'[c] = DOMAIN told[c] \cup {at[c]}
         /\ \A i \in DOMAIN told[c] : i # at[c] /\ told'[c][i] = told[c][i]
         /\ told'[c][at[c]] = inbox[c]
<1>1. /\ at' = [at EXCEPT ![c] = @ + 1]
      /\ told' = [told EXCEPT ![c] = Append(@, inbox[c])]
      /\ inbox[c] # NoAnswer
  BY DEF Deliver
<1>2. PICK S : told \in [Client -> Seq(S)]
  BY DEF Flow, ClientsTyped
<1>3. /\ told \in [Client -> Seq(S \cup {inbox[c]})]
      /\ inbox[c] \in S \cup {inbox[c]}
  BY <1>2
<1>4. /\ Append(told[c], inbox[c]) \in Seq(S \cup {inbox[c]})
      /\ Len(Append(told[c], inbox[c])) = Len(told[c]) + 1
      /\ \A i \in 1 .. Len(told[c]) : Append(told[c], inbox[c])[i] = told[c][i]
      /\ Append(told[c], inbox[c])[Len(told[c]) + 1] = inbox[c]
  BY <1>3, AppendProperties
<1>5. /\ told' \in [Client -> Seq(S \cup {inbox[c]})]
      /\ told'[c] = Append(told[c], inbox[c])
      /\ \A d \in Client \ {c} : told'[d] = told[d]
  BY <1>1, <1>3, <1>4
<1>6. /\ at[c] \in Nat \ {0} /\ Len(told[c]) = at[c] - 1
      /\ Len(told[c]) \in Nat /\ DOMAIN told[c] = 1 .. Len(told[c])
  BY <1>1, ToldFacts DEF Flow, Awaited
<1>7. /\ at'[c] = at[c] + 1 /\ \A d \in Client \ {c} : at'[d] = at[d]
      /\ at' \in [Client -> Nat \ {0}]
  BY <1>1, <1>6 DEF Flow, ClientsTyped
<1>8. Len(told[c]) + 1 = at[c]
  BY <1>6
<1>9. DOMAIN told'[c] = 1 .. at[c]
  BY <1>4, <1>5, <1>8
<1>10. 1 .. at[c] = (1 .. Len(told[c])) \cup {at[c]}
       /\ \A i \in 1 .. Len(told[c]) : i # at[c]
  BY <1>6
<1> QED  BY <1>4, <1>5, <1>6, <1>7, <1>8, <1>9, <1>10

LEMMA DeliverFlows ==
  ASSUME Flow, NEW c \in Client, Deliver(c)
  PROVE  Flow'
<1>1. /\ waiting' = [waiting EXCEPT ![c] = 0]
      /\ inbox' = [inbox EXCEPT ![c] = NoAnswer]
      /\ UNCHANGED <<flight, given>>
      /\ inbox[c] # NoAnswer
  BY DEF Deliver
<1>2. /\ at[c] \in DOMAIN script[c] /\ Len(told[c]) = at[c] - 1
      /\ Given(c, at[c], inbox[c]) /\ at[c] \in Nat \ {0}
  BY <1>1, ToldFacts DEF Flow, Awaited
<1>3. ASSUME NEW d \in Client PROVE Awaited(d)' <=> (d = c \/ Awaited(d)')
  BY <1>1 DEF Flow, ClientsTyped, Awaited
<1>4. CASE asksAgain(c)
  <2>1. UNCHANGED <<at, told>>
    BY <1>4 DEF Deliver
  <2>2. keyGiven(script[c][at[c]]) = NoKey
    BY <1>4 DEF asksAgain
  <2>3. ClientsTyped'
    BY <1>1, <2>1 DEF Flow, ClientsTyped
  <2>4. ASSUME NEW m \in flight PROVE IsCopy(m)'
    <3>1. CASE m.client = c /\ m.step = at[c]
      BY <1>2, <2>1, <2>2, <3>1 DEF Flow, IsCopy
    <3>2. CASE m.client # c
      BY <1>1, <2>1, <3>2 DEF Flow, ClientsTyped, IsCopy, sent
    <3>3. CASE m.client = c /\ m.step # at[c]
      BY <1>1, <2>1, <3>3 DEF Flow, ClientsTyped, IsCopy, sent
    <3> QED  BY <3>1, <3>2, <3>3
  <2>5. ASSUME NEW d \in Client PROVE InTurn(d)' /\ Told(d)' /\ Awaited(d)'
    BY <1>1, <1>3, <2>1
    DEF Flow, ClientsTyped, InTurn, finished, Told, Given, Awaited
  <2> QED  BY <1>1, <2>3, <2>4, <2>5 DEF Flow
<1>5. CASE ~ asksAgain(c)
  <2>1. \A d \in Client \ {c} : told'[d] = told[d] /\ at'[d] = at[d]
    BY <1>5, DeliverTells
  <2>2. at' \in [Client -> Nat \ {0}] /\ at'[c] = at[c] + 1 /\ Len(told'[c]) = at'[c] - 1
    BY <1>2, <1>5, DeliverTells
  <2>3. ClientsTyped'
    BY <1>1, <1>5, <2>2, DeliverTells DEF Flow, ClientsTyped
  <2>4. ASSUME NEW m \in flight PROVE IsCopy(m)'
    <3>1. CASE m.client = c
      <4>1. m.step \in Nat /\ m.step <= at[c]
        BY <3>1, ScriptFacts DEF Flow, IsCopy
      <4> QED  BY <1>2, <2>2, <3>1, <4>1 DEF Flow, IsCopy, sent
    <3>2. CASE m.client # c
      BY <1>1, <2>1, <3>2 DEF Flow, ClientsTyped, IsCopy, sent
    <3> QED  BY <3>1, <3>2
  <2>5. ASSUME NEW d \in Client \ {c} PROVE InTurn(d)' /\ Told(d)' /\ Awaited(d)'
    BY <1>1, <2>1
    DEF Flow, ClientsTyped, InTurn, finished, Told, Given, Awaited
  <2>6. InTurn(c)' /\ Awaited(c)'
    BY <1>1, <1>2, <2>2 DEF Flow, ClientsTyped, InTurn, Awaited
  <2>7. ASSUME NEW i \in DOMAIN told'[c]
        PROVE  /\ i \in DOMAIN script[c]
               /\ keyGiven(script[c][i]) # NoKey =>
                    [client |-> c, step |-> i, answer |-> told'[c][i]] \in given'
    <3>1. CASE i \in DOMAIN told[c]
      <4>1. told'[c][i] = told[c][i]
        BY <1>5, <3>1, DeliverTells
      <4> QED  BY <1>1, <3>1, <4>1 DEF Flow, Told, Given
    <3>2. CASE i = at[c]
      <4>1. told'[c][i] = inbox[c]
        BY <1>5, <3>2, DeliverTells
      <4> QED  BY <1>1, <1>2, <3>2, <4>1 DEF Given
    <3> QED  BY <1>5, <3>1, <3>2, DeliverTells
  <2> QED  BY <1>1, <2>3, <2>4, <2>5, <2>6, <2>7 DEF Flow, Told, Given
<1> QED  BY <1>4, <1>5

LEMMA HandleFlows ==
  ASSUME Flow, NEW m \in flight, Handle(m)
  PROVE  Flow'
<1>1. /\ flight' = flight \ {m}
      /\ UNCHANGED <<at, waiting, told>>
      /\ given \subseteq given'
  BY DEF Handle
<1>2. PICK c \in Client : c = m.client
  BY DEF Flow, IsCopy
<1>3. inbox' = inbox \/ inbox' = [inbox EXCEPT ![c] = answer']
  BY <1>2 DEF Handle
<1>4. ClientsTyped'
  BY <1>1, <1>3 DEF Flow, ClientsTyped
<1>5. \A x \in flight : IsCopy(x)'
  BY <1>1 DEF Flow, IsCopy, sent
<1>6. \A d \in Client : InTurn(d)' /\ Told(d)'
  BY <1>1 DEF Flow, InTurn, finished, Told, Given
<1>7. ASSUME NEW d \in Client, inbox'[d] = inbox[d] PROVE Awaited(d)'
  BY <1>1, <1>7 DEF Flow, Awaited, Given
<1>8. CASE inbox' # inbox
  <2>1. m = awaited(c) /\ answer'.status # 503 /\ inbox' = [inbox EXCEPT ![c] = answer']
    BY <1>2, <1>8 DEF Handle
  <2>2. m.step = at[c] /\ m.number = waiting[c]
    BY <2>1 DEF awaited
  <2>3. inbox'[c] = answer' /\ \A d \in Client \ {c} : inbox'[d] = inbox[d]
    BY <2>1 DEF Flow, ClientsTyped
  <2>4. IsCopy(m)
    BY DEF Flow
  <2>5. answer' # NoAnswer /\ keyGiven(script[c][at[c]]) # NoKey =>
          [client |-> c, step |-> at[c], answer |-> answer'] \in given'
    BY <1>2, <2>1, <2>2 DEF Handle
  <2>6. waiting[c] # 0
    BY <2>2, <2>4 DEF IsCopy
  <2>7. at'[c] \in DOMAIN script[c] /\ Len(told'[c]) = at'[c] - 1
    BY <1>1, <1>2, <2>2, <2>4 DEF IsCopy
  <2>8. Awaited(c)'
    BY <1>1, <2>3, <2>5, <2>6, <2>7 DEF Awaited, Given
  <2> QED  BY <1>1, <1>4, <1>5, <1>6, <1>7, <2>3, <2>8 DEF Flow
<1> QED  BY <1>1, <1>4, <1>5, <1>6, <1>7, <1>8 DEF Flow

LEMMA StepFlows ==
  ASSUME Flow, [ClientsNext]_clientVars
  PROVE  Flow'
<1>1. CASE UNCHANGED <<at, waiting, inbox, told, given>> /\ flight' \subseteq flight
  BY <1>1
  DEF Flow, ClientsTyped, IsCopy, InTurn, Awaited, Told, Given, finished, sent
<1>2. CASE \E m \in flight : Lose(m)
  BY <1>1, <1>2 DEF Lose
<1> QED
  BY <1>1, <1>2, SendFlows, DeliverFlows, HandleFlows
  DEF ClientsNext, Elapse, clientVars

(* To the service, what clients do over the network is calls.              *)
LEMMA HandleIsServe ==
  ASSUME Flow, NEW m \in flight, Handle(m)
  PROVE  /\ m.client \in Client
         /\ m.step \in DOMAIN script[m.client]
         /\ script[m.client][m.step] \in HttpRequests
         /\ Serve(script[m.client][m.step])
<1>1. IsCopy(m)
  BY DEF Flow
<1> QED  BY <1>1, ScriptFacts DEF IsCopy, Handle

LEMMA StepIsCall ==
  ASSUME Flow, [ClientsNext]_clientVars
  PROVE  [Next]_vars
<1>1. CASE \E m \in flight : Handle(m)
  BY <1>1, HandleIsServe, ServeIsCall
<1>2. CASE Elapse
  BY <1>2 DEF Elapse, Next
<1>3. CASE UNCHANGED vars
  BY <1>3
<1> QED
  BY <1>1, <1>2, <1>3 DEF ClientsNext, Send, Deliver, Lose, clientVars

LEMMA InitFlows == ClientsInit => Flow
<1> SUFFICES ASSUME ClientsInit PROVE Flow
  OBVIOUS
<1>1. PICK busy \in SUBSET Client :
        at = [c \in Client |-> IF c \in busy THEN 1 ELSE Len(script[c]) + 1]
  BY DEF ClientsInit
<1>2. \A c \in Client : at[c] \in Nat \ {0} /\ (at[c] = 1 \/ at[c] = Len(script[c]) + 1)
  BY <1>1, ScriptFacts
<1>3. \A c \in Client : told[c] = <<>> /\ Len(told[c]) = 0 /\ DOMAIN told[c] = {}
  BY DEF ClientsInit
<1>4. ClientsTyped
  <2>1. told \in [Client -> Seq({})]
    BY DEF ClientsInit
  <2> QED  BY <1>1, <1>2, <2>1 DEF ClientsInit, ClientsTyped
<1>5. \A c \in Client : InTurn(c)
  BY <1>2, <1>3, ScriptFacts DEF InTurn, finished
<1> QED  BY <1>3, <1>4, <1>5 DEF ClientsInit, Flow, Awaited, Told

LEMMA AlwaysFlow == ClientsSpec => []Flow
  BY InitFlows, StepFlows, PTL DEF ClientsSpec

(* A lossy network, retries and crashes are nothing the service has not    *)
(* seen: its theorems hold behind them.                                    *)
LEMMA ClientsAreCallers == ClientsSpec => Spec
<1>1. TransportInit => Init
  BY DEF TransportInit
<1> QED  BY <1>1, AlwaysFlow, StepIsCall, PTL DEF ClientsSpec, Spec
-----------------------------------------------------------------------------
(* Every answer that was given is the verdict, and so all copies of a      *)
(* request are answered alike.                                             *)

GivenTrue ==
  \A g \in given :
    LET h == script[g.client][g.step]
    IN  /\ g.client \in Client /\ g.step \in DOMAIN script[g.client]
        /\ keyGiven(h) # NoKey
        /\ Decided(h)
        /\ g.answer = verdict(h)

LEMMA NewGiven ==
  ASSUME Flow, NEW m \in flight, Handle(m), NEW g \in given' \ given
  PROVE  LET h == script[g.client][g.step]
         IN  /\ g.client \in Client /\ g.step \in DOMAIN script[g.client]
             /\ keyGiven(h) # NoKey
             /\ Decided(h)'
             /\ g.answer = verdict(h)'
<1>1. PICK h : h = script[m.client][m.step]
  OBVIOUS
<1>2. /\ g = [client |-> m.client, step |-> m.step, answer |-> answer']
      /\ keyGiven(h) # NoKey /\ answer' # NoAnswer /\ answer'.status # 503
  BY <1>1 DEF Handle
<1>3. g.client = m.client /\ g.step = m.step /\ g.answer = answer'
  BY <1>2
<1>4. Decided(h)' /\ answer' = verdict(h)'
  BY <1>1, <1>2, HandleIsServe, AnswerIsVerdict
<1> QED  BY <1>1, <1>2, <1>3, <1>4, HandleIsServe

LEMMA StepGives ==
  ASSUME Flow, GivenTrue, [ClientsNext]_clientVars
  PROVE  GivenTrue'
<1>1. KeepsAnswers
  BY StepIsCall, StepKeepsAnswers
<1>2. ASSUME NEW g \in given' PROVE
        LET h == script[g.client][g.step]
        IN  /\ g.client \in Client /\ g.step \in DOMAIN script[g.client]
            /\ keyGiven(h) # NoKey
            /\ Decided(h)'
            /\ g.answer = verdict(h)'
  <2>1. CASE g \in given
    BY <1>1, <2>1, VerdictStays DEF GivenTrue
  <2>2. CASE g \notin given
    <3>1. \E m \in flight : Handle(m)
      BY <2>2 DEF ClientsNext, clientVars, Send, Deliver, Lose, Elapse
    <3> QED  BY <2>2, <3>1, NewGiven
  <2> QED  BY <2>1, <2>2
<1> QED  BY <1>2 DEF GivenTrue

LEMMA AlwaysTrue == ClientsSpec => []GivenTrue
<1>1. ClientsInit => GivenTrue
  BY DEF ClientsInit, GivenTrue
<1> QED  BY <1>1, StepGives, AlwaysFlow, PTL DEF ClientsSpec

(* However often a write with a key is sent, whenever its copies are       *)
(* handled, and whatever is handled in between, whoever is answered is     *)
(* answered the same (idempotency.go:11-90).                               *)
THEOREM CopiesAreAnsweredAlike == ClientsSpec => []RetriesAgree
<1>1. GivenTrue => RetriesAgree
  BY DEF GivenTrue, RetriesAgree
<1> QED  BY <1>1, AlwaysTrue, PTL
-----------------------------------------------------------------------------
(* What becomes of a request under a key of its own.                       *)

(* Some call of the step uses the key of a request for the first time; if  *)
(* the key is the request's own, the call is the request.                  *)
LEMMA FirstServed ==
  ASSUME Flow, [ClientsNext]_clientVars, NEW c \in Client,
         NEW i \in DOMAIN script[c], ownKey(c, i),
         ~ Used(script[c][i]), Used(script[c][i])'
  PROVE  LET h == script[c][i]
         IN  /\ Write(h) /\ ~ Malformed(h)
             /\ FirstUse(call(h)) /\ Concludes(call(h))
             /\ \E m \in flight : Handle(m) /\ m.client = c /\ m.step = i
<1>1. PICK h : h = script[c][i]
  OBVIOUS
<1>2. keyGiven(h) # NoKey /\ h.body # Undecodable /\ keyGiven(h) = call(h).key
  BY <1>1, KeyedFacts DEF ownKey
<1>3. idem' # idem
  BY DEF Used
<1>4. PICK m \in flight : Handle(m)
  BY <1>3 DEF ClientsNext, clientVars, vars, Send, Deliver, Lose, Elapse, Tick
<1>5. PICK g : g = script[m.client][m.step]
  OBVIOUS
<1>6. Serve(g) /\ m.client \in Client /\ m.step \in DOMAIN script[m.client]
  BY <1>4, <1>5, HandleIsServe
<1>7. Write(g) /\ g.body # Undecodable
  BY <1>3, <1>6 DEF Serve, Write, Reap, Read, Refused, ReapExpiredLocks, TurnAway,
                    reapAll, vars
<1>8. ~ Malformed(g) /\ FirstUse(call(g)) /\ Concludes(call(g))
  BY <1>3, <1>7, WriteEnds DEF TurnAway, Replay
<1>9. call(g).key = call(h).key
  BY <1>1, <1>8 DEF Concludes, Panic, Return, Record, Put, Used
<1>10. keyGiven(g) = keyGiven(h)
  BY <1>2, <1>6, <1>7, <1>9
  DEF keyGiven, Write, LockRoute, DocumentRoute
<1>11. m.client = c /\ m.step = i
  BY <1>1, <1>5, <1>6, <1>10 DEF ownKey
<1> QED  BY <1>1, <1>4, <1>5, <1>7, <1>8, <1>11

(* A malformed request never uses its key.                                 *)
MalformedUnused ==
  \A c \in Client : \A i \in DOMAIN script[c] :
    ownKey(c, i) /\ Malformed(script[c][i]) => ~ Used(script[c][i])

LEMMA StepUnused ==
  ASSUME Flow, MalformedUnused, [ClientsNext]_clientVars
  PROVE  MalformedUnused'
<1> SUFFICES ASSUME NEW c \in Client, NEW i \in DOMAIN script[c],
                    ownKey(c, i), Malformed(script[c][i])
             PROVE  ~ Used(script[c][i])'
  BY DEF MalformedUnused, ownKey, Malformed
<1>1. ~ Used(script[c][i])
  BY DEF MalformedUnused
<1> QED  BY <1>1, FirstServed

(* Once a key is used no event is logged under it.                         *)
LEMMA EventsStay ==
  ASSUME TypeOK, TypeOK', [Next]_vars, NEW k \in DOMAIN idem
  PROVE  /\ EventsOf(k)' = EventsOf(k)
         /\ \A i \in EventsOf(k) : i \in DOMAIN audit /\ audit'[i] = audit[i]
<1>1. k # NoKey
  BY IdentityAssumption DEF TypeOK
<1>2. CASE audit' = audit
  BY <1>2 DEF EventsOf
<1>3. CASE Logs
  <2>1. PICK S : \E events \in Seq(S) :
           /\ LogFacts(events)
           /\ Len(audit) \in Nat /\ Len(events) \in Nat
           /\ Len(audit') = Len(audit) + Len(events)
           /\ DOMAIN audit = 1 .. Len(audit) /\ DOMAIN audit' = 1 .. Len(audit')
           /\ \A i \in 1 .. Len(audit) : audit'[i] = audit[i]
           /\ \A i \in 1 .. Len(events) : audit'[Len(audit) + i].key = events[i].key
    BY <1>3, LogsAppend
  <2>2. PICK events \in Seq(S) :
           /\ LogFacts(events)
           /\ Len(audit) \in Nat /\ Len(events) \in Nat
           /\ Len(audit') = Len(audit) + Len(events)
           /\ DOMAIN audit = 1 .. Len(audit) /\ DOMAIN audit' = 1 .. Len(audit')
           /\ \A i \in 1 .. Len(audit) : audit'[i] = audit[i]
           /\ \A i \in 1 .. Len(events) : audit'[Len(audit) + i].key = events[i].key
    BY <2>1
  <2>3. \A i \in 1 .. Len(events) : events[i].key # k
    BY <1>1, <2>2 DEF LogFacts
  <2>4. ASSUME NEW i \in DOMAIN audit', audit'[i].key = k
        PROVE  i \in DOMAIN audit
    <3>1. i \in 1 .. Len(audit)
            \/ (i - Len(audit) \in 1 .. Len(events) /\ i = Len(audit) + (i - Len(audit)))
      BY <2>2, <2>4
    <3> QED  BY <2>2, <2>3, <2>4, <3>1
  <2> QED  BY <2>2, <2>4 DEF EventsOf
<1> QED  BY <1>2, <1>3, StepLogs
-----------------------------------------------------------------------------
(* Updates.                                                                *)

(* An update that has used its key has failed and left no event, or is the *)
(* version it was answered, by its actor, and logged once.                 *)
UpdateSettled(h) ==
  LET used == call(h).key
      outcome == idem[used].outcome
      k == documentKey(h.collection, h.document)
  IN  /\ idem[used].fingerprint = fingerprint(call(h))
      /\ \/ outcome.err # "none" /\ EventsOf(used) = {}
         \/ /\ outcome.err = "none"
            /\ k \in DOMAIN history /\ outcome.value.version \in DOMAIN history[k]
            /\ history[k][outcome.value.version].actor = call(h).actor
            /\ \E j : /\ EventsOf(used) = {j}
                      /\ audit[j].details.to = outcome.value.version

UpdatesSettled ==
  \A c \in Client : \A i \in DOMAIN script[c] :
    LET h == script[c][i]
    IN  h.route = "UpdateDocument" /\ ownKey(c, i) /\ Used(h) => UpdateSettled(h)

LEMMA UpdateCall ==
  ASSUME NEW h \in HttpRequests, h.route = "UpdateDocument", h.body # Undecodable
  PROVE  /\ call(h) \in UpdateRequests
         /\ call(h).collection = h.collection /\ call(h).document = h.document
<1>1. call(h) \in UpdateRequests
  BY CallsAssumption
<1>2. call(h) \in UpdateRequest
  BY <1>1, DocumentRequestAssumption
<1>3. {"collection", "document"} \subseteq DOMAIN call(h)
  BY <1>2 DEF UpdateRequest
<1>4. call(h) = documentCall(h)
  BY DEF call, LockRoute
<1> QED  BY <1>1, <1>3, <1>4 DEF documentCall

LEMMA SettledStays ==
  ASSUME TypeOK, TypeOK', HistoryIsComplete, [Next]_vars,
         NEW h, Used(h), UpdateSettled(h)
  PROVE  UpdateSettled(h)'
<1>1. PICK used : used = call(h).key
  OBVIOUS
<1>2. used \in DOMAIN idem /\ idem'[used] = idem[used]
  BY <1>1, StepKeepsAnswers DEF KeepsAnswers, Used
<1>3. /\ EventsOf(used)' = EventsOf(used)
      /\ \A i \in EventsOf(used) : audit'[i] = audit[i]
  BY <1>2, EventsStay
<1>4. PICK k : k = documentKey(h.collection, h.document)
  OBVIOUS
<1>5. PICK v : v = idem[used].outcome.value.version
  OBVIOUS
<1>6. ASSUME k \in DOMAIN history, v \in DOMAIN history[k]
      PROVE  /\ k \in DOMAIN history' /\ v \in DOMAIN history'[k]
             /\ history'[k][v] = history[k][v]
  <2>1. k \in DOMAIN history' /\ Extends(history[k], history'[k])
    BY <1>6, StepExtendsHistory
  <2>2. history[k] \in Seq(Revision) /\ history'[k] \in Seq(Revision)
    BY <1>6, <2>1 DEF TypeOK, IsMap
  <2> QED  BY <1>6, <2>1, <2>2 DEF Extends
<1> QED  BY <1>1, <1>2, <1>3, <1>4, <1>5, <1>6 DEF UpdateSettled

(* An update that is refused is recorded as a failure, and logs nothing.   *)
LEMMA RefusalSettles ==
  ASSUME TypeOK, LoggedOnce, NEW h, call(h).key # NoKey, ~ Used(h),
         NEW err, err # "none", Refuse(call(h), err)
  PROVE  UpdateSettled(h)'
<1>1. PICK req : req = call(h)
  OBVIOUS
<1>2. PICK outcome : outcome = Fail(err)
  OBVIOUS
<1>3. outcome.err # "none"
  BY <1>2 DEF Fail
<1>4. audit' = audit /\ Record(req, outcome)
  BY <1>1, <1>2 DEF Refuse, Return, stored
<1>5. /\ idem'[req.key].fingerprint = fingerprint(req)
      /\ idem'[req.key].outcome = outcome
  BY <1>1, <1>4 DEF Record, Put
<1>6. EventsOf(req.key)' = {}
  BY <1>1, <1>4 DEF EventsOf, LoggedOnce, Used
<1> QED  BY <1>1, <1>3, <1>5, <1>6 DEF UpdateSettled

(* One that is applied is recorded as the version it appends and logs.     *)
LEMMA UpdateSettles ==
  ASSUME TypeOK, TypeOK', HistoryIsComplete, LoggedOnce,
         NEW h \in HttpRequests, h.route = "UpdateDocument", h.body # Undecodable,
         call(h).key # NoKey, ~ Used(h),
         lookupError(call(h).collection, call(h).document) = "none",
         versionMatches(documents[documentKey(call(h).collection, call(h).document)],
                        call(h).expected),
         update(call(h))
  PROVE  UpdateSettled(h)'
<1>1. PICK req : req = call(h)
  OBVIOUS
<1>2. PICK k : k = documentKey(req.collection, req.document)
  OBVIOUS
<1>3. /\ req \in UpdateRequests
      /\ k = documentKey(h.collection, h.document)
  BY <1>1, <1>2, UpdateCall
<1>4. req.actor \in Actor /\ IsPatch(req)
  BY <1>3, DocumentRequestAssumption DEF UpdateRequest, IsPatch
<1>5. k \in DOMAIN documents /\ k \in DOMAIN history
  BY <1>1, <1>2, LookupFinds DEF HistoryIsComplete
<1>6. PICK patches : patches = [x \in {k} |-> req]
  OBVIOUS
<1>7. DOMAIN patches = {k} /\ patches[k] = req
  BY <1>6
<1>8. applyUpdates(req.actor, patches)
  BY <1>1, <1>2, <1>6 DEF update
<1>9. PICK rev : rev = revision(documents'[k], req.actor, req.reason)
  OBVIOUS
<1>10. /\ documents'[k] = updated(documents[k], req)
       /\ DOMAIN history' = DOMAIN history
       /\ history'[k] = Append(history[k], rev)
  BY <1>4, <1>5, <1>7, <1>8, <1>9, ApplyUpdatesType
<1>11. PICK event : event = updatedEvent(req, req, req.key, FALSE)
  OBVIOUS
<1>12. PICK n : n = Len(audit) + 1
  OBVIOUS
<1>13. Appends(1) /\ SameEvent(audit'[n], event)
  BY <1>1, <1>11, <1>12, OneLogged DEF update
<1>14. Accepts(req, req, k)
  BY <1>1, <1>2, <1>4, <1>5, <1>10 DEF Accepts
<1>15. rev \in Revision /\ history[k] \in Seq(Revision)
  BY <1>9, <1>11, <1>13, <1>14, UpdateTold
<1>16. PICK v : v = documents'[k].version
  OBVIOUS
<1>17. v = Len(history[k]) + 1
  <2>1. documents[k] \in Document /\ clock \in Nat
    BY <1>5 DEF TypeOK, IsMap
  <2>2. v = documents[k].version + 1
    BY <1>4, <1>10, <1>16, <2>1, UpdatedType
  <2> QED  BY <1>5, <2>2 DEF HistoryIsComplete
<1>18. v \in DOMAIN history'[k] /\ history'[k][v] = rev
  BY <1>10, <1>15, <1>17
<1>19. rev.actor = req.actor
  BY <1>9 DEF revision
<1>20. audit'[n].key = req.key /\ audit'[n].details.to = v
  BY <1>2, <1>11, <1>13, <1>16 DEF SameEvent, updatedEvent, Event
<1>21. EventsOf(req.key)' = {n}
  <2>1. DOMAIN audit' = DOMAIN audit \cup {n}
    BY <1>12, <1>13 DEF Appends
  <2>2. \A i \in DOMAIN audit : audit'[i].key # req.key
    BY <1>1, <1>13 DEF Appends, LoggedOnce, Used
  <2> QED  BY <1>20, <2>1, <2>2 DEF EventsOf
<1>22. PICK outcome : outcome = Ok(documents'[k])
  OBVIOUS
<1>23. outcome.err = "none" /\ outcome.value.version = v
  BY <1>16, <1>22 DEF Ok
<1>24. /\ idem'[req.key].fingerprint = fingerprint(req)
       /\ idem'[req.key].outcome = outcome
  BY <1>1, <1>2, <1>22 DEF update, Return, Record, Put
<1> QED
  BY <1>1, <1>3, <1>5, <1>10, <1>18, <1>19, <1>20, <1>21, <1>23, <1>24
  DEF UpdateSettled

LEMMA StepSettles ==
  ASSUME Flow, TypeOK, TypeOK', HistoryIsComplete, LoggedOnce, UpdatesSettled,
         [ClientsNext]_clientVars
  PROVE  UpdatesSettled'
<1> SUFFICES ASSUME NEW c \in Client, NEW i \in DOMAIN script[c],
                    script[c][i].route = "UpdateDocument", ownKey(c, i),
                    Used(script[c][i])'
             PROVE  UpdateSettled(script[c][i])'
  BY DEF UpdatesSettled, ownKey
<1>1. PICK h : h = script[c][i]
  OBVIOUS
<1>2. CASE Used(h)
  BY <1>1, <1>2, StepIsCall, SettledStays DEF UpdatesSettled
<1>3. CASE ~ Used(h)
  <2>1. Write(h) /\ ~ Malformed(h) /\ FirstUse(call(h)) /\ idem' # idem
    BY <1>1, <1>3, FirstServed DEF Used
  <2>2. h \in HttpRequests /\ h.body # Undecodable /\ call(h).key # NoKey
    BY <1>1, ScriptFacts, KeyedFacts DEF ownKey
  <2>3. UpdateDocument(call(h))
    BY <1>1, <2>1, <2>2 DEF Write
  <2>4. PICK req : req = call(h)
    OBVIOUS
  <2>5. ~ Replay(req) /\ \A malformed : ~ TurnAway(malformed)
    BY <2>1 DEF Replay, TurnAway
  <2>6. \/ \E err : err # "none" /\ Refuse(req, err)
        \/ /\ lookupError(req.collection, req.document) = "none"
           /\ versionMatches(documents[documentKey(req.collection, req.document)],
                             req.expected)
           /\ update(req)
    BY <2>3, <2>4, <2>5 DEF UpdateDocument
  <2> QED  BY <1>1, <1>3, <2>2, <2>4, <2>6, RefusalSettles, UpdateSettles
<1> QED  BY <1>1, <1>2, <1>3

LEMMA AlwaysUnused == ClientsSpec => []MalformedUnused
<1>1. TransportInit => MalformedUnused
  BY DEF TransportInit, Init, MalformedUnused, Used
<1> QED  BY <1>1, StepUnused, AlwaysFlow, PTL DEF ClientsSpec

LEMMA AlwaysSettled == ClientsSpec => []UpdatesSettled
<1>1. TransportInit => UpdatesSettled
  BY DEF TransportInit, Init, UpdatesSettled, Used
<1> QED
  BY <1>1, StepSettles, AlwaysFlow, ClientsAreCallers, TypeCorrect, HistoryComplete,
     AlwaysLoggedOnce, PTL
  DEF ClientsSpec

(* What a client was told of its update is what has become of it.          *)
LEMMA ToldTruth ==
  ASSUME Flow, GivenTrue, LoggedOnce, MalformedUnused, UpdatesSettled
  PROVE  UpdatesAreAsTold
<1> SUFFICES ASSUME NEW c \in Client, NEW i \in DOMAIN told[c],
                    script[c][i].route = "UpdateDocument", ownKey(c, i)
             PROVE  LET h == script[c][i]
                        doc == told[c][i].value
                        k == documentKey(h.collection, h.document)
                    IN  IF told[c][i].status = 200
                        THEN /\ Cardinality(eventsFor(h)) = 1
                             /\ history[k][doc.version].actor = call(h).actor
                             /\ \A j \in eventsFor(h) :
                                  audit[j].details.to = doc.version
                        ELSE eventsFor(h) = {}
  BY DEF UpdatesAreAsTold
<1>1. PICK h : h = script[c][i]
  OBVIOUS
<1>2. PICK a : a = told[c][i]
  OBVIOUS
<1>3. i \in DOMAIN script[c] /\ keyGiven(h) # NoKey /\ keyGiven(h) = call(h).key
  BY <1>1, KeyedFacts DEF Flow, Told, ownKey
<1>4. Decided(h) /\ a = verdict(h)
  BY <1>1, <1>2, <1>3 DEF Flow, Told, Given, GivenTrue
<1>5. eventsFor(h) = EventsOf(call(h).key)
  BY <1>3 DEF eventsFor, EventsOf
<1>6. CASE Malformed(h)
  <2>1. ~ Used(h)
    BY <1>1, <1>3, <1>6 DEF MalformedUnused
  <2>2. eventsFor(h) = {}
    BY <1>3, <2>1 DEF eventsFor, LoggedOnce, Used
  <2>3. a.status # 200
    BY <1>4, <1>6 DEF verdict, respond, Fail, mapError
  <2> QED  BY <1>1, <1>2, <2>2, <2>3
<1>7. CASE ~ Malformed(h)
  <2>1. Used(h) /\ UpdateSettled(h)
    BY <1>1, <1>3, <1>4, <1>7 DEF Decided, UpdatesSettled
  <2>2. PICK outcome : outcome = idem[call(h).key].outcome
    OBVIOUS
  <2>3. a = respond(h.route, outcome)
    BY <1>4, <1>7, <2>1, <2>2 DEF verdict, UpdateSettled
  <2>4. CASE outcome.err # "none"
    <3>1. eventsFor(h) = {}
      BY <1>5, <2>1, <2>2, <2>4 DEF UpdateSettled
    <3>2. a.status # 200
      BY <1>1, <2>3, <2>4 DEF respond, mapError, NoAnswer
    <3> QED  BY <1>1, <1>2, <3>1, <3>2
  <2>5. CASE outcome.err = "none"
    <3>1. PICK k : k = documentKey(h.collection, h.document)
      OBVIOUS
    <3>2. PICK j : /\ eventsFor(h) = {j}
                   /\ audit[j].details.to = outcome.value.version
      BY <1>5, <2>1, <2>2, <2>5 DEF UpdateSettled
    <3>3. history[k][outcome.value.version].actor = call(h).actor
      BY <2>1, <2>2, <2>5, <3>1 DEF UpdateSettled
    <3>4. a.status = 200 /\ a.value = outcome.value
      BY <1>1, <2>3, <2>5 DEF respond, success
    <3>5. Cardinality({j}) = 1
      BY FS_Singleton
    <3> QED  BY <1>1, <1>2, <3>1, <3>2, <3>3, <3>4, <3>5
  <2> QED  BY <2>4, <2>5
<1> QED  BY <1>6, <1>7

(* An update that was answered 200 is in the history, once, as the version *)
(* in the answer; one that was refused never takes effect, not even by a   *)
(* copy that arrives later (documents.go:207-270, idempotency.go:11-90).   *)
THEOREM UpdatesAreTold == ClientsSpec => []UpdatesAreAsTold
  BY ToldTruth, AlwaysFlow, AlwaysTrue, AlwaysUnused, AlwaysSettled,
     ClientsAreCallers, AlwaysLoggedOnce, PTL
-----------------------------------------------------------------------------
(* What a request does to the leases in force.                             *)

leaseKey(h) == documentKey(h.collection, h.document)

Stays(k) == k \in DOMAIN locks' /\ locks'[k] = locks[k]

(* It leaves them all alone.                                               *)
Spares == \A k \in DOMAIN locks : active(k) => Stays(k)

(* It takes or prolongs one, unless another has it, and says so.           *)
Lends(h) ==
  LET k == leaseKey(h)
  IN  /\ active(k) => locks[k].holder = call(h).holder
      /\ \A x \in DOMAIN locks \ {k} : Stays(x)
      /\ k \in DOMAIN locks'
      /\ locks'[k].holder = call(h).holder
      /\ locks'[k].expiresAt = clock + term(h)
      /\ Return(call(h), Ok(locks'[k]))

(* It gives up one of its own.                                             *)
Yields(h) ==
  LET k == leaseKey(h)
  IN  /\ locks[k].holder = call(h).holder
      /\ \A x \in DOMAIN locks \ {k} : Stays(x)

(* It fails, leaves them alone and says so.                                *)
Declined(h) ==
  Spares /\ \E outcome : outcome.err # "none" /\ Return(call(h), outcome)

LEMMA LockCall ==
  ASSUME NEW h \in HttpRequests, h.route \in LockRoute
  PROVE  documentKey(call(h).collection, call(h).document) = leaseKey(h)
  BY DEF call, lockCall, leaseKey

LEMMA RefusalSpares ==
  ASSUME NEW h, NEW err, err # "none", Refuse(call(h), err)
  PROVE  Declined(h) /\ clock' = clock
<1>1. Fail(err).err # "none"
  BY DEF Fail
<1> QED  BY <1>1 DEF Refuse, stored, Spares, Stays, active, present, Declined

LEMMA NotHeldSpares ==
  ASSUME NEW h, NEW k, ~ active(k), notHeld(call(h), k)
  PROVE  Declined(h) /\ clock' = clock
<1>1. Fail("lock_not_held").err # "none"
  BY DEF Fail
<1>2. Spares /\ clock' = clock
  BY DEF notHeld, withoutStale, Delete, Restrict, Spares, Stays, active, present
<1> QED  BY <1>1, <1>2 DEF notHeld, Declined

LEMMA RenewLends ==
  ASSUME TypeOK, NEW h, NEW k, k = leaseKey(h), active(k),
         locks[k].holder = call(h).holder, renew(call(h), k)
  PROVE  Lends(h) /\ clock' = clock
<1>1. PICK req : req = call(h)
  OBVIOUS
<1>2. k \in DOMAIN locks /\ locks[k] \in Lock
  BY DEF active, present, TypeOK, IsMap
<1>3. PICK lock : lock = [locks[k] EXCEPT !.expiresAt = clock + NormalizeTTL(req.ttl),
                                          !.renewCount = @ + 1]
  OBVIOUS
<1>4. locks' = Put(locks, k, lock) /\ Return(req, Ok(lock)) /\ clock' = clock
  BY <1>1, <1>3 DEF renew
<1>5. lock.holder = req.holder /\ lock.expiresAt = clock + term(h)
  BY <1>1, <1>2, <1>3 DEF Lock, term
<1> QED  BY <1>1, <1>4, <1>5 DEF Lends, Stays, Put

LEMMA GrantLends ==
  ASSUME NEW h, NEW k, k = leaseKey(h), ~ active(k), grant(call(h), k)
  PROVE  Lends(h) /\ clock' = clock
<1>1. PICK req : req = call(h)
  OBVIOUS
<1>2. PICK lock : lock = [document |-> req.document, holder |-> req.holder,
                          acquiredAt |-> clock,
                          expiresAt |-> clock + NormalizeTTL(req.ttl),
                          renewCount |-> 0]
  OBVIOUS
<1>3. locks' = Put(locks, k, lock) /\ Return(req, Ok(lock)) /\ clock' = clock
  BY <1>1, <1>2 DEF grant
<1>4. lock.holder = req.holder /\ lock.expiresAt = clock + term(h)
  BY <1>1, <1>2 DEF term
<1> QED  BY <1>1, <1>3, <1>4 DEF Lends, Stays, Put

LEMMA ReleaseYields ==
  ASSUME NEW h, NEW k, k = leaseKey(h), locks[k].holder = call(h).holder,
         release(call(h), k)
  PROVE  Yields(h) /\ clock' = clock
  BY DEF release, Delete, Restrict, Yields, Stays

(* The ways a call on a lock ends.                                         *)
LEMMA LockEnds ==
  ASSUME TypeOK, NEW h \in HttpRequests, h.route \in LockRoute,
         h.body # Undecodable, Write(h)
  PROVE  /\ clock' = clock
         /\ \/ Spares /\ idem' = idem /\ (reply'.err # "none" \/ Known(call(h)))
            \/ /\ ~ Malformed(h) /\ FirstUse(call(h))
               /\ \/ Declined(h)
                  \/ h.route # "ReleaseLock" /\ Lends(h)
                  \/ h.route = "ReleaseLock" /\ Yields(h)
<1>1. PICK req : req = call(h)
  OBVIOUS
<1>2. PICK k : k = leaseKey(h)
  OBVIOUS
<1>3. documentKey(req.collection, req.document) = k
  BY <1>1, <1>2, LockCall
<1>4. Malformed(h) <=> req.holder = NoHolder
  BY <1>1 DEF Malformed, LockRoute
<1>5. UNCHANGED <<locks, clock>> => Spares /\ clock' = clock
  BY DEF Spares, Stays
<1>6. TurnAway(req.holder = NoHolder) \/ Replay(req) =>
        /\ Spares /\ clock' = clock /\ idem' = idem
        /\ reply'.err # "none" \/ Known(req)
  BY <1>5 DEF TurnAway, Replay, Fail, stored
<1>7. /\ \A err : err # "none" /\ Refuse(req, err) => Declined(h) /\ clock' = clock
      /\ lockConflict(req, k) => Declined(h) /\ clock' = clock
      /\ ~ active(k) /\ notHeld(req, k) => Declined(h) /\ clock' = clock
  BY <1>1, RefusalSpares, NotHeldSpares DEF lockConflict
<1>8. /\ active(k) /\ locks[k].holder = req.holder /\ renew(req, k) =>
           Lends(h) /\ clock' = clock
      /\ ~ active(k) /\ grant(req, k) => Lends(h) /\ clock' = clock
      /\ locks[k].holder = req.holder /\ release(req, k) => Yields(h) /\ clock' = clock
  BY <1>1, <1>2, RenewLends, GrantLends, ReleaseYields
<1>9. CASE h.route = "AcquireLock"
  <2>1. AcquireLock(req)
    BY <1>1, <1>9 DEF Write
  <2>2. \/ TurnAway(req.holder = NoHolder) \/ Replay(req)
        \/ /\ req.holder # NoHolder /\ FirstUse(req)
           /\ Declined(h) \/ Lends(h)
           /\ clock' = clock
    BY <1>3, <1>7, <1>8, <2>1 DEF AcquireLock
  <2> QED  BY <1>1, <1>4, <1>6, <1>9, <2>2
<1>10. CASE h.route = "RenewLock"
  <2>1. RenewLock(req)
    BY <1>1, <1>10 DEF Write
  <2>2. \/ TurnAway(req.holder = NoHolder) \/ Replay(req)
        \/ /\ req.holder # NoHolder /\ FirstUse(req)
           /\ Declined(h) \/ Lends(h)
           /\ clock' = clock
    BY <1>3, <1>7, <1>8, <2>1 DEF RenewLock
  <2> QED  BY <1>1, <1>4, <1>6, <1>10, <2>2
<1>11. CASE h.route = "ReleaseLock"
  <2>1. ReleaseLock(req)
    BY <1>1, <1>11 DEF Write
  <2>2. \/ TurnAway(req.holder = NoHolder) \/ Replay(req)
        \/ /\ req.holder # NoHolder /\ FirstUse(req)
           /\ Declined(h) \/ Yields(h)
           /\ clock' = clock
    BY <1>3, <1>7, <1>8, <2>1 DEF ReleaseLock, mayRelease
  <2> QED  BY <1>1, <1>4, <1>6, <1>11, <2>2
<1> QED  BY <1>9, <1>10, <1>11 DEF LockRoute

(* Only the first use of a well-formed call on a lock touches a lease.     *)
LEMMA ServeEnds ==
  ASSUME TypeOK, NEW h \in HttpRequests, Serve(h)
  PROVE  /\ clock' = clock
         /\ \/ Spares
            \/ /\ h.route \in LockRoute /\ h.body # Undecodable
               /\ ~ Malformed(h) /\ FirstUse(call(h))
               /\ \/ h.route # "ReleaseLock" /\ Lends(h)
                  \/ h.route = "ReleaseLock" /\ Yields(h)
<1>1. UNCHANGED <<locks, clock>> => Spares /\ clock' = clock
  BY DEF Spares, Stays
<1>2. \A err : Refused(h, err) => Spares /\ clock' = clock
  BY <1>1 DEF Refused, vars, stored
<1>3. CASE h.route \in LockRoute /\ h.body # Undecodable /\ Write(h)
  BY <1>3, LockEnds DEF Declined
<1>4. CASE h.route \in DocumentRoute /\ Write(h)
  BY <1>1, <1>2, <1>4, DocumentsKeepLocks DEF Write, DocumentRoute
<1>5. CASE Reap(h)
  <2>1. reapAll => Spares /\ clock' = clock
    BY DEF reapAll, expired, Delete, Restrict, Spares, Stays, active, present
  <2> QED  BY <1>1, <1>5, <2>1 DEF Reap, ReapExpiredLocks, TurnAway, stored
<1>6. CASE Read(h)
  BY <1>1, <1>2, <1>6 DEF Read, vars, stored
<1> QED  BY <1>2, <1>3, <1>4, <1>5, <1>6 DEF Serve, Write
-----------------------------------------------------------------------------
(* What careful clients believe.  A client has been promised a lease until *)
(* e when a success has been recorded under its key or, without a key, has *)
(* been told it or is on its way to it.  What is inductive is that every   *)
(* promise is kept for as long as it is lasting: also one that the client  *)
(* has not heard of yet.                                                   *)

lendings(c) == {i \in leaseCalls(c) : script[c][i].route # "ReleaseLock"}

Holds(h, e) ==
  LET k == leaseKey(h)
  IN  k \in DOMAIN locks /\ locks[k].holder = call(h).holder /\ locks[k].expiresAt >= e

Kept(c, i, e) ==
  LET h == script[c][i]
  IN  /\ e \in Nat /\ e <= clock + term(h)
      /\ e > clock /\ lasting(c, i) => Holds(h, e)

RecordsKept(c) ==
  \A i \in lendings(c) :
    LET h == script[c][i]
        outcome == idem[call(h).key].outcome
    IN  keyGiven(h) # NoKey /\ Used(h) =>
          /\ i <= at[c]
          /\ outcome.err = "none" => Kept(c, i, outcome.value.expiresAt)

AnswersKept(c) ==
  \A i \in lendings(c) :
    keyGiven(script[c][i]) = NoKey =>
      /\ i \in DOMAIN told[c] /\ told[c][i].status = 200 =>
           Kept(c, i, told[c][i].value.expiresAt)
      /\ i = at[c] /\ inbox[c].status = 200 => Kept(c, i, inbox[c].value.expiresAt)

(* A request that cannot be read is no success.                            *)
BadBodiesFail(c) ==
  \A i \in DOMAIN script[c] :
    script[c][i].route \in LockRoute /\ script[c][i].body = Undecodable =>
      /\ i \in DOMAIN told[c] => told[c][i].status # 200
      /\ i = at[c] => inbox[c].status # 200

PromisesKept ==
  \A c \in Client :
    BadBodiesFail(c) /\ (careful(c) => RecordsKept(c) /\ AnswersKept(c))

LEMMA CallFacts ==
  ASSUME NEW c \in Client, NEW i \in leaseCalls(c)
  PROVE  /\ i \in DOMAIN script[c] /\ script[c][i] \in HttpRequests
         /\ script[c][i].route \in LockRoute /\ script[c][i].body # Undecodable
         /\ keyGiven(script[c][i]) = call(script[c][i]).key
  BY ScriptFacts DEF leaseCalls, keyGiven

LEMMA TermIsNumber ==
  ASSUME NEW c \in Client, NEW i \in lendings(c)
  PROVE  term(script[c][i]) \in Nat
<1>1. PICK h : h = script[c][i]
  OBVIOUS
<1>2. h \in HttpRequests /\ h.route \in {"AcquireLock", "RenewLock"}
      /\ h.body # Undecodable
  BY <1>1, CallFacts DEF lendings, LockRoute
<1>3. call(h).ttl \in Int
  BY <1>2, CallHasNumber
<1> QED  BY <1>1, <1>3, TTLType DEF term

(* A promise lasts no longer than the client leaves it alone.              *)
LEMMA LastingShrinks ==
  ASSUME NEW c, NEW i,
         \A j \in leaseCalls(c) :
           keyGiven(script[c][j]) # NoKey /\ sent(c, j) => sent(c, j)'
  PROVE  lasting(c, i)' => lasting(c, i)
  BY DEF lasting, leaseCalls, keyGiven, term

(* What a client does that is not handled, and the passing of time.        *)
LEMMA QuietKeeps ==
  ASSUME TypeOK, NEW c \in Client, NEW i \in lendings(c), NEW e, Kept(c, i, e),
         locks' = locks, clock' \in Nat, clock <= clock',
         lasting(c, i)' => lasting(c, i)
  PROVE  Kept(c, i, e)'
<1>1. clock \in Nat /\ term(script[c][i]) \in Nat
  BY TermIsNumber DEF TypeOK
<1>2. term(script[c][i])' = term(script[c][i])
  BY DEF term
<1>3. Holds(script[c][i], e) => Holds(script[c][i], e)'
  BY DEF Holds, leaseKey
<1>4. e \in Nat /\ e <= clock + term(script[c][i])
  BY DEF Kept
<1>5. e <= clock' + term(script[c][i])
  BY <1>1, <1>4
<1>6. e > clock' => e > clock
  BY <1>1, <1>4
<1> QED  BY <1>2, <1>3, <1>4, <1>5, <1>6 DEF Kept

(* What is handled keeps a promise that has been made.                     *)
LEMMA HandleKeeps ==
  ASSUME Flow, TypeOK, TypeOK', GivenTrue, NEW m \in flight, Handle(m),
         NEW c \in Client, careful(c), NEW i \in lendings(c), i <= at[c],
         keyGiven(script[c][i]) # NoKey => Used(script[c][i]),
         NEW e, Kept(c, i, e)
  PROVE  Kept(c, i, e)'
<1>1. PICK h : h = script[c][i]
  OBVIOUS
<1>2. PICK g : g = script[m.client][m.step]
  OBVIOUS
<1>3. /\ m.client \in Client /\ m.step \in DOMAIN script[m.client]
      /\ g \in HttpRequests /\ Serve(g) /\ IsCopy(m)
  BY <1>2, HandleIsServe DEF Flow
<1>4. clock' = clock /\ clock \in Nat /\ term(h) \in Nat
  BY <1>1, <1>3, ServeEnds, TermIsNumber DEF TypeOK
<1>5. lasting(c, i)' = lasting(c, i)
  BY DEF Handle, lasting, leaseCalls, keyGiven, term, sent
<1>6. e \in Nat /\ e <= clock + term(h)
  BY <1>1 DEF Kept
<1>7. ASSUME e > clock, lasting(c, i)
      PROVE  Holds(h, e)'
  <2>1. PICK k : k = leaseKey(h)
    OBVIOUS
  <2>2. /\ k \in DOMAIN locks /\ locks[k].holder = call(h).holder
        /\ locks[k].expiresAt >= e
    BY <1>1, <1>7, <2>1 DEF Kept, Holds
  <2>3. locks[k].expiresAt \in Nat
    BY <2>2 DEF TypeOK, IsMap, Lock
  <2>4. active(k)
    BY <1>4, <1>6, <1>7, <2>2, <2>3 DEF active, present, IsExpired
  <2>5. CASE Stays(k)
    BY <2>1, <2>2, <2>5 DEF Stays, Holds, leaseKey
  <2>6. CASE ~ Stays(k)
    <3>1. /\ g.route \in LockRoute /\ g.body # Undecodable
          /\ ~ Malformed(g) /\ FirstUse(call(g))
          /\ \/ g.route # "ReleaseLock" /\ Lends(g)
             \/ g.route = "ReleaseLock" /\ Yields(g)
      BY <1>3, <2>2, <2>4, <2>6, ServeEnds DEF Spares
    <3>2. leaseKey(g) = k
      BY <2>2, <2>6, <3>1 DEF Lends, Yields
    <3>3. call(g).holder = call(h).holder
      BY <2>2, <2>4, <3>1, <3>2 DEF Lends, Yields
    <3>4. m.step \in leaseCalls(m.client)
      BY <1>2, <1>3, <3>1 DEF leaseCalls
    <3>5. i \in leaseCalls(c) /\ i \in DOMAIN script[c]
      BY CallFacts DEF lendings
    <3>6. m.client = c
      BY <1>1, <1>2, <1>3, <3>3, <3>4, <3>5 DEF careful
    <3>7. keyGiven(g) = NoKey \/ (m.step > i /\ sent(c, m.step))
      <4> SUFFICES ASSUME keyGiven(g) # NoKey
                   PROVE  m.step > i /\ sent(c, m.step)
        OBVIOUS
      <4>1. ~ Used(g) /\ sent(c, m.step)
        BY <1>2, <1>3, <3>1, <3>6, KeyedFacts DEF FirstUse, Known, Used, IsCopy
      <4>2. m.step # i
        BY <1>1, <1>2, <3>6, <4>1
      <4>3. ~ (m.step < i)
        <5> SUFFICES ASSUME m.step < i PROVE FALSE
          OBVIOUS
        <5>1. /\ m.step \in Nat \ {0} /\ i \in Nat
              /\ at[c] \in Nat /\ Len(told[c]) = at[c] - 1
              /\ DOMAIN told[c] = 1 .. Len(told[c])
          BY <1>3, <3>5, <3>6, ScriptFacts, ToldFacts DEF Flow, IsCopy
        <5>2. m.step \in DOMAIN told[c]
          BY <5>1
        <5>3. Decided(g)
          BY <1>2, <3>6, <5>2 DEF Flow, Told, Given, GivenTrue
        <5> QED  BY <3>1, <4>1, <5>3 DEF Decided
      <4>4. m.step \in Nat /\ i \in Nat
        BY <1>3, <3>5, <3>6, ScriptFacts
      <4> QED  BY <4>1, <4>2, <4>3, <4>4
    <3>8. g.route # "ReleaseLock" /\ term(g) >= term(h)
      BY <1>1, <1>2, <1>7, <3>4, <3>6, <3>7 DEF lasting
    <3>9. /\ k \in DOMAIN locks' /\ locks'[k].holder = call(h).holder
          /\ locks'[k].expiresAt = clock + term(g)
      BY <3>1, <3>2, <3>3, <3>8 DEF Lends
    <3>10. term(g) \in Nat
      BY <1>2, <3>4, <3>6, <3>8, TermIsNumber DEF lendings
    <3>11. locks'[k].expiresAt >= e
      BY <1>4, <1>6, <3>8, <3>9, <3>10
    <3> QED  BY <2>1, <3>9, <3>11 DEF Holds, leaseKey
  <2> QED  BY <2>5, <2>6
<1>8. term(h)' = term(h)
  BY DEF term
<1> QED  BY <1>1, <1>4, <1>5, <1>6, <1>7, <1>8 DEF Kept

(* What is lent is a promise kept.                                         *)
LEMMA LentIsKept ==
  ASSUME TypeOK, NEW c \in Client, NEW i \in lendings(c), Lends(script[c][i]),
         clock' = clock, NEW e, e = locks'[leaseKey(script[c][i])].expiresAt
  PROVE  Kept(c, i, e)'
<1>1. PICK h : h = script[c][i]
  OBVIOUS
<1>2. clock \in Nat /\ term(h) \in Nat
  BY <1>1, TermIsNumber DEF TypeOK
<1>3. e = clock + term(h) /\ e \in Nat
  BY <1>1, <1>2 DEF Lends
<1>4. Holds(h, e)'
  BY <1>1, <1>2, <1>3 DEF Lends, Holds, leaseKey
<1>5. term(h)' = term(h)
  BY DEF term
<1>6. e <= clock' + term(h)
  BY <1>2, <1>3
<1> QED  BY <1>1, <1>3, <1>4, <1>5, <1>6 DEF Kept

(* A request that asks for a lease, handled: it has failed, or it was used *)
(* before, or it has its lease.                                            *)
LEMMA LendingServed ==
  ASSUME TypeOK, NEW c \in Client, NEW i \in lendings(c), Write(script[c][i])
  PROVE  LET h == script[c][i]
         IN  /\ answer' = respond(h.route, reply')
             /\ \/ idem' = idem /\ (reply'.err # "none" \/ Known(call(h)))
                \/ \E outcome : outcome.err # "none" /\ Return(call(h), outcome)
                \/ \E e : /\ Kept(c, i, e)'
                          /\ \E lock : lock.expiresAt = e /\ Return(call(h), Ok(lock))
<1>1. PICK h : h = script[c][i]
  OBVIOUS
<1>2. h \in HttpRequests /\ h.route \in LockRoute /\ h.body # Undecodable
      /\ h.route # "ReleaseLock" /\ Write(h)
  BY <1>1, CallFacts DEF lendings
<1>3. /\ clock' = clock
      /\ \/ idem' = idem /\ (reply'.err # "none" \/ Known(call(h)))
         \/ Declined(h)
         \/ Lends(h)
  BY <1>2, LockEnds
<1>4. PICK e : e = locks'[leaseKey(h)].expiresAt
  OBVIOUS
<1>5. Lends(h) => Kept(c, i, e)'
  BY <1>1, <1>3, <1>4, LentIsKept
<1>6. answer' = respond(h.route, reply')
  BY <1>2, WriteEnds
<1>7. PICK lock : lock = locks'[leaseKey(h)]
  OBVIOUS
<1> QED  BY <1>1, <1>3, <1>4, <1>5, <1>6, <1>7 DEF Declined, Lends

LEMMA RecordsStayKept ==
  ASSUME Flow, TypeOK, TypeOK', GivenTrue, NEW m \in flight, Handle(m),
         NEW c \in Client, careful(c), RecordsKept(c)
  PROVE  RecordsKept(c)'
<1>1. at' = at
  BY DEF Handle
<1>2. [ClientsNext]_clientVars /\ KeepsAnswers
  BY StepIsCall, StepKeepsAnswers DEF ClientsNext
<1>3. ASSUME NEW i \in lendings(c), NEW h, h = script[c][i], NEW used, used = call(h).key,
             keyGiven(h) # NoKey, Used(h)',
             NEW outcome, outcome = idem'[used].outcome
      PROVE  /\ i <= at[c]
             /\ outcome.err = "none" => Kept(c, i, outcome.value.expiresAt)'
  <2>1. CASE Used(h)
    <3>1. outcome = idem[used].outcome /\ i <= at[c]
      BY <1>2, <1>3, <2>1 DEF KeepsAnswers, Used, RecordsKept
    <3>2. PICK e : e = outcome.value.expiresAt
      OBVIOUS
    <3>3. outcome.err = "none" => Kept(c, i, e)
      BY <1>3, <2>1, <3>1, <3>2 DEF RecordsKept
    <3>4. outcome.err = "none" => Kept(c, i, e)'
      BY <1>3, <2>1, <3>1, <3>3, HandleKeeps
    <3> QED  BY <3>1, <3>2, <3>4
  <2>2. CASE ~ Used(h)
    <3>1. i \in DOMAIN script[c] /\ ownKey(c, i)
      BY <1>3, CallFacts DEF lendings, careful
    <3>2. /\ Write(h)
          /\ \E x \in flight : Handle(x) /\ x.client = c /\ x.step = i
      BY <1>2, <1>3, <2>2, <3>1, FirstServed
    <3>3. i <= at[c]
      BY <3>2 DEF Flow, IsCopy
    <3>4. used # NoKey
      BY <1>3, KeyedFacts
    <3>5. \A end : Return(call(h), end) => outcome = end
      BY <1>3, <3>4 DEF Return, Record, Put
    <3>6. idem' # idem
      BY <2>2, <1>3 DEF Used
    <3>7. CASE \E end : end.err # "none" /\ Return(call(h), end)
      BY <3>3, <3>5, <3>7
    <3>8. CASE \E e : /\ Kept(c, i, e)'
                      /\ \E lock : lock.expiresAt = e /\ Return(call(h), Ok(lock))
      <4>1. PICK e, lock : /\ Kept(c, i, e)' /\ lock.expiresAt = e
                           /\ Return(call(h), Ok(lock))
        BY <3>8
      <4>2. outcome.value = lock
        BY <3>5, <4>1 DEF Ok
      <4> QED  BY <3>3, <4>1, <4>2
    <3> QED  BY <1>3, <3>2, <3>6, <3>7, <3>8, LendingServed
  <2> QED  BY <2>1, <2>2
<1> QED  BY <1>1, <1>3 DEF RecordsKept, lendings, leaseCalls, keyGiven

LEMMA AnswersStayKept ==
  ASSUME Flow, TypeOK, TypeOK', GivenTrue, NEW m \in flight, Handle(m),
         NEW c \in Client, careful(c), AnswersKept(c)
  PROVE  AnswersKept(c)'
<1>1. at' = at /\ told' = told
  BY DEF Handle
<1>2. ASSUME NEW i \in lendings(c), NEW h, h = script[c][i], keyGiven(h) = NoKey,
             i \in DOMAIN told[c], told[c][i].status = 200,
             NEW e, e = told[c][i].value.expiresAt
      PROVE  Kept(c, i, e)'
  <2>1. Kept(c, i, e)
    BY <1>2 DEF AnswersKept
  <2>2. i \in Nat /\ i <= Len(told[c]) /\ Len(told[c]) \in Nat
        /\ at[c] \in Nat /\ Len(told[c]) < at[c]
    BY <1>2, ToldFacts DEF Flow, InTurn
  <2>3. i <= at[c]
    BY <2>2
  <2> QED  BY <1>2, <2>1, <2>3, HandleKeeps
<1>3. ASSUME NEW i \in lendings(c), NEW h, h = script[c][i], keyGiven(h) = NoKey,
             i = at[c], NEW a, a = inbox'[c], a.status = 200,
             NEW e, e = a.value.expiresAt
      PROVE  Kept(c, i, e)'
  <2>1. CASE inbox'[c] = inbox[c]
    <3>1. Kept(c, i, e)
      BY <1>3, <2>1 DEF AnswersKept
    <3>2. i <= at[c]
      BY <1>3, ToldFacts DEF Flow
    <3> QED  BY <1>3, <3>1, <3>2, HandleKeeps
  <2>2. CASE inbox'[c] # inbox[c]
    <3>1. m = awaited(m.client) /\ inbox' = [inbox EXCEPT ![m.client] = answer']
      BY <2>2 DEF Handle
    <3>2. m.client = c /\ a = answer'
      BY <1>3, <2>2, <3>1, HandleIsServe DEF Flow, ClientsTyped
    <3>3. m.step = i
      BY <1>3, <3>1, <3>2 DEF awaited
    <3>4. h.route \in LockRoute /\ h.body # Undecodable
      BY <1>3, CallFacts DEF lendings
    <3>5. Write(h)
      BY <1>3, <3>2, <3>3, <3>4, HandleIsServe
      DEF Serve, Reap, Read, ReadRoute, LockRoute
    <3>6. ~ Known(call(h))
      BY <1>3, <3>4 DEF keyGiven, Known
    <3>7. answer' = respond(h.route, reply')
      BY <1>3, <3>5, LendingServed
    <3>8. reply'.err = "none" /\ a.value = reply'.value
      BY <1>3, <3>2, <3>7 DEF respond, mapError, NoAnswer
    <3>9. PICK x, lock : /\ Kept(c, i, x)' /\ lock.expiresAt = x
                         /\ Return(call(h), Ok(lock))
      BY <1>3, <3>5, <3>6, <3>8, LendingServed DEF Return
    <3>10. reply'.value = lock
      BY <3>9 DEF Return, Ok
    <3> QED  BY <1>3, <3>8, <3>9, <3>10
  <2> QED  BY <2>1, <2>2
<1> QED  BY <1>1, <1>2, <1>3 DEF AnswersKept, lendings, leaseCalls, keyGiven

LEMMA BadBodiesStayFailed ==
  ASSUME Flow, NEW m \in flight, Handle(m), NEW c \in Client, BadBodiesFail(c)
  PROVE  BadBodiesFail(c)'
<1>1. at' = at /\ told' = told
  BY DEF Handle
<1>2. ASSUME NEW i \in DOMAIN script[c], NEW h, h = script[c][i],
             h.route \in LockRoute, h.body = Undecodable, i = at[c]
      PROVE  inbox'[c].status # 200
  <2>1. CASE inbox'[c] = inbox[c]
    BY <1>2, <2>1 DEF BadBodiesFail
  <2>2. CASE inbox'[c] # inbox[c]
    <3>1. m = awaited(m.client) /\ inbox' = [inbox EXCEPT ![m.client] = answer']
      BY <2>2 DEF Handle
    <3>2. m.client = c /\ inbox'[c] = answer'
      BY <2>2, <3>1, HandleIsServe DEF Flow, ClientsTyped
    <3>3. m.step = i
      BY <1>2, <3>1, <3>2 DEF awaited
    <3>4. Refused(h, "invalid_input")
      BY <1>2, <3>2, <3>3, HandleIsServe
      DEF Serve, Write, Reap, Read, ReadRoute, LockRoute
    <3> QED  BY <3>2, <3>4 DEF Refused, respond, Fail, mapError
  <2> QED  BY <2>1, <2>2
<1> QED  BY <1>1, <1>2 DEF BadBodiesFail

LEMMA HandleKeepsPromises ==
  ASSUME Flow, TypeOK, TypeOK', GivenTrue, PromisesKept, NEW m \in flight, Handle(m)
  PROVE  PromisesKept'
<1>1. \A c \in Client : BadBodiesFail(c)'
  BY BadBodiesStayFailed DEF PromisesKept
<1>2. \A c \in Client : careful(c) => RecordsKept(c)' /\ AnswersKept(c)'
  BY RecordsStayKept, AnswersStayKept DEF PromisesKept
<1> QED
  BY <1>1, <1>2
  DEF PromisesKept, careful, ownKey, leaseCalls, keyGiven

(* What is not handled: sending, losing and delivering, and the time.      *)
LEMMA OtherStep ==
  ASSUME Flow, TypeOK, [ClientsNext]_clientVars, ~ \E m \in flight : Handle(m)
  PROVE  /\ locks' = locks /\ idem' = idem
         /\ clock' \in Nat /\ clock <= clock'
         /\ \A c \in Client : at[c] <= at'[c] /\ at[c] \in Nat /\ at'[c] \in Nat
         /\ \A c \in Client : \A j \in leaseCalls(c) :
              keyGiven(script[c][j]) # NoKey /\ sent(c, j) => sent(c, j)'
<1>1. locks' = locks /\ idem' = idem /\ clock' \in {clock, clock + 1} /\ clock \in Nat
  BY DEF ClientsNext, clientVars, vars, stored, Send, Deliver, Lose, Elapse, Tick, TypeOK
<1>2. \A c \in Client : at[c] \in Nat
  BY DEF Flow, ClientsTyped
<1>3. CASE at' = at /\ waiting' = waiting
  BY <1>1, <1>2, <1>3 DEF sent
<1>4. ASSUME NEW d \in Client, Send(d)
      PROVE  /\ at' = at
             /\ \A c \in Client : waiting[c] # 0 => waiting'[c] # 0
  <2>1. PICK n \in 1 .. MaxCopies : waiting' = [waiting EXCEPT ![d] = n]
    BY <1>4 DEF Send, unused
  <2>2. n # 0 /\ at' = at
    BY <1>4 DEF Send
  <2> QED  BY <2>1, <2>2 DEF Flow, ClientsTyped
<1>5. CASE \E d \in Client : Send(d)
  BY <1>1, <1>2, <1>4, <1>5 DEF sent
<1>6. ASSUME NEW d \in Client, Deliver(d), NEW c \in Client
      PROVE  /\ at[c] <= at'[c] /\ at'[c] \in Nat
             /\ \A j \in leaseCalls(c) :
                  keyGiven(script[c][j]) # NoKey /\ sent(c, j) => sent(c, j)'
  <2>1. waiting' = [waiting EXCEPT ![d] = 0] /\ at[c] \in Nat
    BY <1>2, <1>6 DEF Deliver
  <2>2. CASE c # d
    <3>1. waiting'[c] = waiting[c] /\ at'[c] = at[c]
      BY <1>6, <2>1, <2>2 DEF Flow, ClientsTyped, Deliver
    <3> QED  BY <2>1, <3>1 DEF sent
  <2>3. CASE c = d /\ asksAgain(d)
    <3>1. at' = at
      BY <1>6, <2>3 DEF Deliver
    <3>2. keyGiven(script[c][at[c]]) = NoKey
      BY <2>3 DEF asksAgain
    <3> QED  BY <2>1, <3>1, <3>2 DEF sent
  <2>4. CASE c = d /\ ~ asksAgain(d)
    <3>1. at'[c] = at[c] + 1
      BY <1>6, <2>4, DeliverTells
    <3>2. ASSUME NEW j \in leaseCalls(c), sent(c, j) PROVE sent(c, j)'
      <4>1. j \in Nat
        BY CallFacts, ScriptFacts
      <4> QED  BY <2>1, <3>1, <3>2, <4>1 DEF sent
    <3> QED  BY <2>1, <3>1, <3>2
  <2> QED  BY <2>2, <2>3, <2>4
<1>7. CASE \E d \in Client : Deliver(d)
  BY <1>1, <1>2, <1>6, <1>7
<1>8. CASE \/ \E m \in flight : Lose(m)
           \/ Elapse
           \/ UNCHANGED clientVars
  BY <1>3, <1>8 DEF Lose, Elapse, clientVars
<1> QED  BY <1>5, <1>7, <1>8 DEF ClientsNext

(* What has been told or is on its way has been told or was on its way.    *)
LEMMA OtherAnswers ==
  ASSUME Flow, [ClientsNext]_clientVars, ~ \E m \in flight : Handle(m),
         NEW c \in Client
  PROVE  /\ \A i \in DOMAIN told'[c] :
              \/ i \in DOMAIN told[c] /\ told'[c][i] = told[c][i]
              \/ i = at[c] /\ told'[c][i] = inbox[c]
         /\ \/ inbox'[c].status = 0
            \/ inbox'[c] = inbox[c] /\ at'[c] = at[c]
<1>1. NoAnswer.status = 0
  BY DEF NoAnswer
<1>2. ASSUME NEW d \in Client, Send(d) \/ Deliver(d)
      PROVE  \/ inbox'[c].status = 0
             \/ inbox'[c] = inbox[c] /\ at'[c] = at[c]
  <2>1. inbox' = [inbox EXCEPT ![d] = NoAnswer]
    BY <1>2 DEF Send, Deliver
  <2>2. CASE c = d
    BY <1>1, <2>1, <2>2 DEF Flow, ClientsTyped
  <2>3. CASE c # d
    BY <1>2, <2>1, <2>3 DEF Flow, ClientsTyped, Send, Deliver
  <2> QED  BY <2>2, <2>3
<1>3. CASE \E d \in Client : Send(d)
  BY <1>2, <1>3 DEF Send
<1>4. CASE \E d \in Client : Deliver(d)
  <2>1. PICK d \in Client : Deliver(d)
    BY <1>4
  <2>2. CASE asksAgain(d)
    BY <1>2, <2>1, <2>2 DEF Deliver
  <2>3. CASE ~ asksAgain(d) /\ c = d
    BY <1>2, <2>1, <2>3, DeliverTells
  <2>4. CASE ~ asksAgain(d) /\ c # d
    BY <1>2, <2>1, <2>4, DeliverTells
  <2> QED  BY <2>2, <2>3, <2>4
<1>5. CASE UNCHANGED <<inbox, told, at>>
  BY <1>5
<1> QED  BY <1>3, <1>4, <1>5 DEF ClientsNext, Lose, Elapse, clientVars

LEMMA OtherStepsKeepPromises ==
  ASSUME Flow, TypeOK, PromisesKept, [ClientsNext]_clientVars,
         ~ \E m \in flight : Handle(m)
  PROVE  PromisesKept'
<1>1. ASSUME NEW c \in Client, NEW i \in lendings(c), NEW e, Kept(c, i, e)
      PROVE  Kept(c, i, e)'
  BY <1>1, OtherStep, LastingShrinks, QuietKeeps
<1>2. ASSUME NEW c \in Client, careful(c) PROVE RecordsKept(c)'
  <2>1. ASSUME NEW i \in lendings(c), NEW h, h = script[c][i],
               keyGiven(h) # NoKey, Used(h),
               NEW outcome, outcome = idem[call(h).key].outcome
        PROVE  /\ i <= at'[c]
               /\ outcome.err = "none" => Kept(c, i, outcome.value.expiresAt)'
    <3>1. i <= at[c] /\ i \in Nat
      BY <1>2, <2>1, CallFacts, ScriptFacts DEF PromisesKept, RecordsKept, lendings
    <3>2. i <= at'[c]
      BY <3>1, OtherStep
    <3>3. PICK e : e = outcome.value.expiresAt
      OBVIOUS
    <3>4. outcome.err = "none" => Kept(c, i, e)'
      BY <1>1, <1>2, <2>1, <3>3 DEF PromisesKept, RecordsKept
    <3> QED  BY <3>2, <3>3, <3>4
  <2>2. idem' = idem
    BY OtherStep
  <2> QED  BY <2>1, <2>2 DEF RecordsKept, Used, lendings, leaseCalls, keyGiven
<1>3. ASSUME NEW c \in Client, careful(c) PROVE AnswersKept(c)'
  <2>1. AnswersKept(c)
    BY <1>3 DEF PromisesKept
  <2>2. ASSUME NEW i \in lendings(c), NEW h, h = script[c][i], keyGiven(h) = NoKey,
               NEW a, a.status = 200, NEW e, e = a.value.expiresAt,
               \/ i \in DOMAIN told'[c] /\ a = told'[c][i]
               \/ i = at'[c] /\ a = inbox'[c]
        PROVE  Kept(c, i, e)'
    <3>1. \/ i \in DOMAIN told[c] /\ a = told[c][i]
          \/ i = at[c] /\ a = inbox[c]
      BY <2>2, OtherAnswers
    <3> QED  BY <1>1, <2>1, <2>2, <3>1 DEF AnswersKept
  <2> QED  BY <2>2 DEF AnswersKept, lendings, leaseCalls, keyGiven
<1>4. ASSUME NEW c \in Client PROVE BadBodiesFail(c)'
  <2>1. BadBodiesFail(c)
    BY DEF PromisesKept
  <2> QED  BY <2>1, OtherAnswers DEF BadBodiesFail
<1> QED
  BY <1>2, <1>3, <1>4
  DEF PromisesKept, careful, ownKey, leaseCalls, keyGiven

LEMMA AlwaysKept == ClientsSpec => []PromisesKept
<1>1. TransportInit /\ ClientsInit => PromisesKept
  BY DEF TransportInit, Init, ClientsInit, PromisesKept, RecordsKept, AnswersKept,
         BadBodiesFail, Used, NoAnswer
<1>2. /\ Flow /\ TypeOK /\ TypeOK' /\ GivenTrue /\ PromisesKept
      /\ [ClientsNext]_clientVars
      => PromisesKept'
  BY HandleKeepsPromises, OtherStepsKeepPromises
<1> QED
  BY <1>1, <1>2, AlwaysFlow, AlwaysTrue, ClientsAreCallers, TypeCorrect, PTL
  DEF ClientsSpec

LEMMA KeptIsBelieved ==
  ASSUME Flow, TypeOK, GivenTrue, PromisesKept
  PROVE  BeliefsAreTrue
<1> SUFFICES ASSUME NEW c \in Client, NEW i \in believed(c), careful(c)
             PROVE  LET h == script[c][i]
                        k == documentKey(h.collection, h.document)
                    IN  /\ k \in leased
                        /\ locks[k].holder = call(h).holder
                        /\ locks[k].expiresAt >= told[c][i].value.expiresAt
  BY DEF BeliefsAreTrue
<1>1. PICK h : h = script[c][i]
  OBVIOUS
<1>2. PICK a : a = told[c][i]
  OBVIOUS
<1>3. PICK e : e = a.value.expiresAt
  OBVIOUS
<1>4. /\ i \in DOMAIN told[c] /\ h.route \in {"AcquireLock", "RenewLock"}
      /\ a.status = 200 /\ e > clock /\ lasting(c, i)
  BY <1>1, <1>2, <1>3 DEF believed
<1>5. i \in DOMAIN script[c] /\ Given(c, i, a)
  BY <1>2, <1>4 DEF Flow, Told
<1>6. h.body # Undecodable
  BY <1>1, <1>2, <1>4, <1>5 DEF PromisesKept, BadBodiesFail, LockRoute
<1>7. i \in lendings(c)
  BY <1>1, <1>4, <1>5, <1>6 DEF lendings, leaseCalls, LockRoute
<1>8. Kept(c, i, e)
  <2>1. CASE keyGiven(h) = NoKey
    BY <1>1, <1>2, <1>3, <1>4, <1>7, <2>1 DEF PromisesKept, AnswersKept
  <2>2. CASE keyGiven(h) # NoKey
    <3>1. Decided(h) /\ a = verdict(h)
      BY <1>1, <1>5, <2>2 DEF Given, GivenTrue
    <3>2. PICK outcome : outcome = idem[call(h).key].outcome
      OBVIOUS
    <3>3. ~ Malformed(h) /\ a = respond(h.route, outcome)
      <4>1. \A err \in {"invalid_input", "idempotency_conflict"} :
              respond(h.route, Fail(err)).status # 200
        BY DEF respond, mapError, Fail
      <4>2. \/ a = respond(h.route, Fail("invalid_input"))
            \/ a = respond(h.route, Fail("idempotency_conflict"))
            \/ ~ Malformed(h) /\ a = respond(h.route, outcome)
        BY <3>1, <3>2 DEF verdict
      <4> QED  BY <1>4, <4>1, <4>2
    <3>4. outcome.err = "none" /\ a.value = outcome.value
      BY <1>4, <3>3 DEF respond, mapError, NoAnswer
    <3> QED
      BY <1>1, <1>3, <1>7, <2>2, <3>1, <3>2, <3>3, <3>4
      DEF Decided, PromisesKept, RecordsKept
  <2> QED  BY <2>1, <2>2
<1>9. PICK k : k = leaseKey(h)
  OBVIOUS
<1>10. /\ k \in DOMAIN locks /\ locks[k].holder = call(h).holder
       /\ locks[k].expiresAt >= e /\ e \in Nat
  BY <1>1, <1>4, <1>8, <1>9 DEF Kept, Holds
<1>11. k \in leased
  <2>1. locks[k].expiresAt \in Nat /\ clock \in Nat
    BY <1>10 DEF TypeOK, IsMap, Lock
  <2> QED  BY <1>4, <1>10, <2>1 DEF leased, active, present, IsExpired
<1> QED  BY <1>1, <1>2, <1>3, <1>9, <1>10, <1>11 DEF leaseKey

(* A careful client that believes it holds a lease does, whatever is lost, *)
(* late or repeated (locks.go:48-275, idempotency.go:11-90).               *)
THEOREM BeliefsHold == ClientsSpec => []BeliefsAreTrue
  BY KeptIsBelieved, AlwaysFlow, AlwaysTrue, AlwaysKept, ClientsAreCallers,
     TypeCorrect, PTL
=============================================================================
