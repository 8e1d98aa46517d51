------------------------------ MODULE LogProofs ------------------------------
(***************************************************************************)
(* What the audit log says is true, for every value of the constants: it   *)
(* tells the revision histories, the leases and the answers that were      *)
(* recorded, and a batch is all or nothing.                                *)
(***************************************************************************)
EXTENDS ServiceProofs, WellFoundedInduction

-----------------------------------------------------------------------------
(* What a step does: one definition for each effect an operation may have, *)
(* under the conditions it has been checked for.                           *)

(* Nothing happens but that time passes or a call is answered.             *)
Silent == UNCHANGED <<stored, idem>> /\ clock' \in {clock, clock + 1}

(* The key is used up, and at most an expired lock is deleted.             *)
Declines ==
  \E req \in RegisterRequests \cup CreateRequests \cup UpdateRequests \cup
             BatchRequests \cup AcquireRequests \cup RenewRequests \cup
             ReleaseRequests :
  \E outcome :
    /\ FirstUse(req)
    /\ Record(req, outcome)
    /\ \/ outcome = Ok(Nil)
       \/ outcome.err \notin {"none", "batch_conflict"}
       \/ /\ req \in RegisterRequests
          /\ \E id \in DOMAIN collections : outcome = Ok(collections[id])
    /\ UNCHANGED <<collections, documents, history, audit, auditSeq, clock>>
    /\ locks' = locks \/ Sweeps

Registers ==
  \E req \in RegisterRequests, id \in ID :
    /\ FirstUse(req)
    /\ id \in NewIDs(req.id)
    /\ ~ collectionExists(id)
    /\ registerNew(req, id)

Creates ==
  \E req \in CreateRequests, id \in ID :
    /\ FirstUse(req)
    /\ collectionExists(req.collection)
    /\ ~ documentExists(documentKey(req.collection, id))
    /\ insert(req, id)

Updates ==
  \E req \in UpdateRequests :
    /\ FirstUse(req)
    /\ ~ req.expected < 1
    /\ lookupError(req.collection, req.document) = "none"
    /\ versionMatches(documents[key(req)], req.expected)
    /\ update(req)

Rejects == \E req \in BatchRequests : FirstUse(req) /\ rejectBatch(req)

Batches ==
  \E req \in BatchRequests :
    /\ FirstUse(req)
    /\ collectionExists(req.collection)
    /\ failing(req) = {}
    /\ applyBatch(req)

Acquires ==
  \E req \in AcquireRequests :
    /\ FirstUse(req)
    /\ req.holder # NoHolder
    /\ lookupError(req.collection, req.document) = "none"
    /\ ~ active(key(req))
    /\ grant(req, key(req))

Prolongs ==
  \E req \in AcquireRequests \cup RenewRequests :
    /\ FirstUse(req)
    /\ lookupError(req.collection, req.document) = "none"
    /\ active(key(req))
    /\ locks[key(req)].holder = req.holder
    /\ renew(req, key(req))

GivesUp ==
  \E req \in ReleaseRequests :
    /\ FirstUse(req)
    /\ lookupError(req.collection, req.document) = "none"
    /\ active(key(req))
    /\ locks[key(req)].holder = req.holder
    /\ release(req, key(req))

LEMMA SilentSteps ==
  ASSUME clock \in Nat, NEW req, NEW malformed, TurnAway(malformed) \/ Replay(req)
  PROVE  Silent
BY DEF TurnAway, Replay, Silent

LEMMA PanicDeclines ==
  ASSUME NEW req \in RegisterRequests \cup CreateRequests, FirstUse(req), Panic(req)
  PROVE  Declines
BY DEF Panic, Declines, stored

LEMMA RefusalDeclines ==
  ASSUME NEW req \in RegisterRequests \cup CreateRequests \cup UpdateRequests \cup
                     BatchRequests \cup AcquireRequests \cup RenewRequests \cup
                     ReleaseRequests,
         FirstUse(req),
         NEW err, err \notin {"none", "batch_conflict"},
         Refuse(req, err)
  PROVE  Declines
<1>1. Record(req, Fail(err)) /\ Fail(err).err \notin {"none", "batch_conflict"}
  BY DEF Refuse, Return, Fail
<1> QED
  BY <1>1 DEF Refuse, Declines, stored

LEMMA ReturnExistingDeclines ==
  ASSUME NEW req \in RegisterRequests, FirstUse(req), NEW id, collectionExists(id),
         returnExisting(req, id)
  PROVE  Declines
BY DEF returnExisting, collectionExists, Return, Declines, stored

LEMMA ConflictDeclines ==
  ASSUME NEW req \in AcquireRequests \cup RenewRequests \cup ReleaseRequests,
         FirstUse(req), NEW k, lockConflict(req, k)
  PROVE  Declines
BY RefusalDeclines DEF lockConflict

LEMMA NotHeldDeclines ==
  ASSUME NEW req \in RenewRequests \cup ReleaseRequests,
         FirstUse(req), NEW k, notHeld(req, k)
  PROVE  Declines
<1>1. /\ Record(req, Fail("lock_not_held"))
      /\ Fail("lock_not_held").err \notin {"none", "batch_conflict"}
  BY DEF notHeld, Return, Fail
<1>2. Sweeps \/ locks' = locks
  BY NotHeldSweeps
<1> QED
  BY <1>1, <1>2 DEF notHeld, Declines

LEMMA LookupErrorDeclines ==
  ASSUME NEW req \in UpdateRequests \cup AcquireRequests \cup RenewRequests \cup
                     ReleaseRequests,
         FirstUse(req), NEW c, NEW d, lookupError(c, d) # "none",
         Refuse(req, lookupError(c, d))
  PROVE  Declines
<1>1. lookupError(c, d) # "batch_conflict"
  BY DEF lookupError
<1> QED
  BY <1>1, RefusalDeclines

LEMMA StepCases ==
  ASSUME TypeOK, [Next]_vars
  PROVE  \/ Silent \/ Declines \/ Registers \/ Creates \/ Updates \/ Rejects
         \/ Batches \/ Acquires \/ Prolongs \/ GivesUp \/ reapAll
<1>0. clock \in Nat
  BY DEF TypeOK
<1>1. CASE Tick \/ UNCHANGED vars
  BY <1>1 DEF Tick, vars, Silent
<1>2. CASE \E req \in RegisterRequests : RegisterCollection(req)
  <2> PICK req \in RegisterRequests : RegisterCollection(req)
    BY <1>2
  <2>1. req.id \in OptID
    BY RegisterAssumption DEF RegisterRequest
  <2>2. ASSUME FirstUse(req), NEW id \in NewIDs(req.id), ~ collectionExists(id),
               registerNew(req, id)
        PROVE  Registers
    BY <2>1, <2>2, NewIDsType DEF Registers
  <2> QED
    BY <1>0, <2>2, SilentSteps, PanicDeclines, ReturnExistingDeclines
    DEF RegisterCollection
<1>3. CASE \E req \in CreateRequests : CreateDocument(req)
  <2> PICK req \in CreateRequests : CreateDocument(req)
    BY <1>3
  <2>1. req.id \in OptID
    BY DocumentRequestAssumption DEF CreateRequest
  <2>2. ASSUME FirstUse(req), collectionExists(req.collection),
               NEW id \in NewIDs(req.id),
               ~ documentExists(documentKey(req.collection, id)), insert(req, id)
        PROVE  Creates
    BY <2>1, <2>2, NewIDsType DEF Creates
  <2>3. CASE FirstUse(req) /\ (\/ Refuse(req, "collection_not_found")
                               \/ Refuse(req, "invalid_input"))
    BY <2>3, RefusalDeclines
  <2> QED
    BY <1>0, <2>2, <2>3, SilentSteps, PanicDeclines DEF CreateDocument
<1>4. CASE \E req \in UpdateRequests : UpdateDocument(req)
  <2> PICK req \in UpdateRequests : UpdateDocument(req)
    BY <1>4
  <2>1. CASE FirstUse(req) /\ Refuse(req, "version_conflict")
    BY <2>1, RefusalDeclines
  <2> QED
    BY <1>0, <2>1, SilentSteps, LookupErrorDeclines DEF UpdateDocument, Updates, key
<1>5. CASE \E req \in BatchRequests : BatchUpdateDocuments(req)
  <2> PICK req \in BatchRequests : BatchUpdateDocuments(req)
    BY <1>5
  <2>1. CASE FirstUse(req) /\ Refuse(req, "collection_not_found")
    BY <2>1, RefusalDeclines
  <2> QED
    BY <1>0, <2>1, SilentSteps DEF BatchUpdateDocuments, Rejects, Batches
<1>6. CASE \E req \in AcquireRequests : AcquireLock(req)
  BY <1>0, <1>6, SilentSteps, LookupErrorDeclines, ConflictDeclines
  DEF AcquireLock, Acquires, Prolongs, key
<1>7. CASE \E req \in RenewRequests : RenewLock(req)
  BY <1>0, <1>7, SilentSteps, LookupErrorDeclines, ConflictDeclines, NotHeldDeclines
  DEF RenewLock, Prolongs, key
<1>8. CASE \E req \in ReleaseRequests : ReleaseLock(req)
  BY <1>0, <1>8, SilentSteps, LookupErrorDeclines, ConflictDeclines, NotHeldDeclines
  DEF ReleaseLock, GivesUp, mayRelease, key
<1>9. CASE ReapExpiredLocks
  BY <1>0, <1>9, SilentSteps DEF ReapExpiredLocks
<1> QED
  BY <1>1, <1>2, <1>3, <1>4, <1>5, <1>6, <1>7, <1>8, <1>9 DEF Next
-----------------------------------------------------------------------------
(* What a step logs: m events after the ones that are there.               *)

Appends(m) ==
  /\ Len(audit) \in Nat /\ m \in Nat
  /\ DOMAIN audit = 1 .. Len(audit)
  /\ DOMAIN audit' = 1 .. Len(audit) + m
  /\ \A i \in DOMAIN audit : audit'[i] = audit[i]

(* The same event, whatever its number.                                    *)
SameEvent(e, f) ==
  /\ e.type = f.type /\ e.at = f.at /\ e.actor = f.actor
  /\ e.collection = f.collection /\ e.document = f.document
  /\ e.key = f.key /\ e.details = f.details

LEMMA NumberedIsSame ==
  ASSUME NEW e, NEW n, [e EXCEPT !.sequence = n] \in AuditEvent
  PROVE  SameEvent([e EXCEPT !.sequence = n], e)
BY DEF AuditEvent, SameEvent

LEMMA EventsLogged ==
  ASSUME TypeOK, TypeOK', NEW S, NEW events \in Seq(S), appendAudit(events)
  PROVE  /\ Appends(Len(events))
         /\ \A i \in 1 .. Len(events) : SameEvent(audit'[Len(audit) + i], events[i])
<1>1. audit \in Seq(AuditEvent) /\ audit' \in Seq(AuditEvent)
  BY DEF TypeOK
<1>2. /\ Len(audit') = Len(audit) + Len(events)
      /\ Len(audit) \in Nat /\ Len(events) \in Nat
      /\ \A i \in 1 .. Len(audit) : audit'[i] = audit[i]
      /\ \A i \in 1 .. Len(events) :
           audit'[Len(audit) + i] = [events[i] EXCEPT !.sequence = auditSeq + i]
  BY AppendFacts DEF TypeOK
<1>3. DOMAIN audit = 1 .. Len(audit) /\ DOMAIN audit' = 1 .. Len(audit')
  BY <1>1
<1>4. ASSUME NEW i \in 1 .. Len(events)
      PROVE  SameEvent(audit'[Len(audit) + i], events[i])
  <2>1. Len(audit) + i \in 1 .. Len(audit')
    BY <1>2
  <2>2. audit'[Len(audit) + i] \in AuditEvent
    BY <1>1, <2>1, ElementOfSeq
  <2>3. audit'[Len(audit) + i] = [events[i] EXCEPT !.sequence = auditSeq + i]
    BY <1>2
  <2>4. SameEvent([events[i] EXCEPT !.sequence = auditSeq + i], events[i])
    BY <2>2, <2>3, NumberedIsSame
  <2> QED
    BY <2>3, <2>4
<1> QED
  BY <1>2, <1>3, <1>4 DEF Appends

LEMMA OneLogged ==
  ASSUME TypeOK, TypeOK', NEW event, appendAudit(<<event>>)
  PROVE  Appends(1) /\ SameEvent(audit'[Len(audit) + 1], event)
<1> DEFINE events == <<event>>
<1>1. events \in Seq({event}) /\ Len(events) = 1 /\ events[1] = event
  OBVIOUS
<1>2. appendAudit(events)
  OBVIOUS
<1> HIDE DEF events
<1>3. /\ Appends(Len(events))
      /\ \A i \in 1 .. Len(events) : SameEvent(audit'[Len(audit) + i], events[i])
  BY <1>1, <1>2, EventsLogged
<1>4. 1 \in 1 .. Len(events)
  BY <1>1
<1> QED
  BY <1>1, <1>3, <1>4

LEMMA BatchLogged ==
  ASSUME TypeOK, TypeOK', NEW req \in BatchRequests, applyBatch(req)
  PROVE  LET n == Len(req.items)
         IN  /\ n \in Nat
             /\ Appends(n + 1)
             /\ \A i \in 1 .. n :
                  SameEvent(audit'[Len(audit) + i],
                            updatedEvent(req, req.items[i], NoKey, TRUE))
             /\ SameEvent(audit'[Len(audit) + (n + 1)],
                          Event("document.batch_applied", req.actor, req.collection,
                                NoID, req.key, [items |-> n]))
<1> DEFINE n == Len(req.items)
           items == [i \in 1 .. n |-> updatedEvent(req, req.items[i], NoKey, TRUE)]
           applied == Event("document.batch_applied", req.actor, req.collection,
                            NoID, req.key, [items |-> n])
           S == {items[i] : i \in 1 .. n} \cup {applied}
<1>1. n \in Nat
  BY DocumentRequestAssumption DEF BatchRequest
<1>2. items \in [1 .. n -> S] /\ applied \in S
  OBVIOUS
<1>3. appendAudit(Append(items, applied))
  BY DEF applyBatch
<1>4. \A i \in 1 .. n : items[i] = updatedEvent(req, req.items[i], NoKey, TRUE)
  OBVIOUS
<1> HIDE DEF n, items, applied, S
<1>5. items \in Seq(S) /\ Len(items) = n
  BY <1>1, <1>2, FunctionIsSequence
<1> DEFINE events == Append(items, applied)
<1>6. /\ events \in Seq(S) /\ Len(events) = n + 1
      /\ \A i \in 1 .. n : events[i] = items[i]
      /\ events[n + 1] = applied
  BY <1>2, <1>5, AppendProperties
<1>7. appendAudit(events)
  BY <1>3
<1> HIDE DEF events
<1>8. /\ Appends(n + 1)
      /\ \A i \in 1 .. n + 1 : SameEvent(audit'[Len(audit) + i], events[i])
  BY <1>6, <1>7, EventsLogged
<1>9. n + 1 \in 1 .. n + 1 /\ \A i \in 1 .. n : i \in 1 .. n + 1
  BY <1>1
<1> QED
  BY <1>1, <1>4, <1>6, <1>8, <1>9 DEF n, applied

(* Every expired lock is logged once, in some order.                       *)
LogsReaped(m, order) ==
  /\ Appends(m)
  /\ \A i \in 1 .. m : order[i] \in expired
  /\ \A i \in 1 .. m : SameEvent(audit'[Len(audit) + i], reapedEvent(order[i]))
  /\ \A k \in expired : \E i \in 1 .. m : order[i] = k
  /\ \A i, j \in 1 .. m : order[i] = order[j] => i = j

LEMMA ReapLogged ==
  ASSUME TypeOK, TypeOK', reapAll
  PROVE  \E m, order : LogsReaped(m, order)
<1> DEFINE m == Cardinality(expired)
<1>1. m \in Nat
  <2>1. expired \subseteq DOMAIN locks
    BY DEF expired
  <2> QED
    BY <2>1, FS_Subset, FS_CardinalityType DEF TypeOK
<1>2. PICK order \in Bijection(1 .. m, expired) :
        appendAudit([i \in DOMAIN order |-> reapedEvent(order[i])])
  BY DEF reapAll
<1>3. /\ DOMAIN order = 1 .. m
      /\ \A i \in 1 .. m : order[i] \in expired
      /\ \A k \in expired : \E i \in 1 .. m : order[i] = k
      /\ \A i, j \in 1 .. m : order[i] = order[j] => i = j
  BY <1>2 DEF Bijection, Injection, Surjection, IsInjective
<1> DEFINE events == [i \in 1 .. m |-> reapedEvent(order[i])]
           S == {events[i] : i \in 1 .. m}
<1>4. events \in [1 .. m -> S] /\ \A i \in 1 .. m : events[i] = reapedEvent(order[i])
  OBVIOUS
<1>5. appendAudit(events)
  BY <1>2, <1>3
<1> HIDE DEF m, events, S
<1>6. events \in Seq(S) /\ Len(events) = m
  BY <1>1, <1>4, FunctionIsSequence
<1>7. Appends(m) /\ \A i \in 1 .. m : SameEvent(audit'[Len(audit) + i], events[i])
  BY <1>5, <1>6, EventsLogged
<1>8. \A i \in 1 .. m : SameEvent(audit'[Len(audit) + i], reapedEvent(order[i]))
  BY <1>4, <1>7
<1>9. LogsReaped(m, order)
  BY <1>3, <1>7, <1>8 DEF LogsReaped
<1> QED
  BY <1>9

(* A set of numbers that is not empty has a least one.                     *)
LEMMA LeastNumber ==
  ASSUME NEW S \in SUBSET Nat, S # {}
  PROVE  \E n \in S : \A m \in S : n <= m
<1> DEFINE R == OpToRel(<, Nat)
<1>1. IsWellFoundedOn(R, Nat)
  BY NatLessThanWellFounded
<1>2. PICK n \in S : \A m \in S : ~ (<<m, n>> \in R)
  <2> HIDE DEF R
  <2> QED
    BY <1>1, WFMin
<1>3. \A m \in S : ~ m < n
  BY <1>2 DEF OpToRel
<1>4. \A m \in S : n <= m
  BY <1>3
<1> QED
  BY <1>4

(* A set of indices that is not empty has a last one.                      *)
LEMMA LastIsLast ==
  ASSUME NEW n \in Nat, NEW S, S \subseteq 1 .. n, S # {}
  PROVE  last(S) \in S /\ \A j \in S : j <= last(S)
<1> DEFINE T == {n - i : i \in S}
<1>1. T \in SUBSET Nat /\ T # {}
  <2>1. \A j \in S : n - j \in Nat
    OBVIOUS
  <2> QED
    BY <2>1
<1>2. PICK x \in T : \A y \in T : x <= y
  <2> HIDE DEF T
  <2> QED
    BY <1>1, LeastNumber
<1>3. PICK i \in S : x = n - i
  OBVIOUS
<1>4. \A j \in S : j <= i
  BY <1>2, <1>3
<1> QED
  BY <1>4 DEF last
-----------------------------------------------------------------------------
(* A batch is all or nothing.                                              *)

LEMMA NewEventsAre ==
  ASSUME NEW m, Appends(m)
  PROVE  /\ newEvents = Len(audit) + 1 .. Len(audit) + m
         /\ Cardinality(newEvents) = m
<1>1. newEvents = Len(audit) + 1 .. Len(audit) + m
  BY DEF Appends, newEvents
<1>2. Cardinality(Len(audit) + 1 .. Len(audit) + m) = m
  BY FS_Interval DEF Appends
<1> QED
  BY <1>1, <1>2

LEMMA FewChanged ==
  ASSUME NEW k, changed \subseteq {k}
  PROVE  ~ Cardinality(changed) > 1
<1>1. changed = {} \/ changed = {k}
  OBVIOUS
<1>2. Cardinality({}) = 0 /\ Cardinality({k}) = 1
  BY FS_EmptySet, FS_Singleton
<1>3. Cardinality(changed) \in {0, 1}
  BY <1>1, <1>2
<1> QED
  BY <1>3

LEMMA OneNewEvent ==
  ASSUME Appends(1)
  PROVE  newEvents = {Len(audit) + 1}
<1>1. newEvents = Len(audit) + 1 .. Len(audit) + 1
  BY NewEventsAre
<1> QED
  BY <1>1 DEF Appends

LEMMA OtherEventIsNoBatch ==
  ASSUME TypeOK, TypeOK', NEW event, appendAudit(<<event>>),
         event.type \notin BatchEventType, NEW k, changed \subseteq {k}
  PROVE  BatchStep
<1>1. Appends(1) /\ SameEvent(audit'[Len(audit) + 1], event)
  BY OneLogged
<1>2. \A i \in newEvents : i = Len(audit) + 1
  BY <1>1, OneNewEvent
<1>3. \A i \in newEvents : audit'[i].type \notin BatchEventType
  BY <1>1, <1>2 DEF SameEvent
<1> QED
  BY <1>3, FewChanged DEF BatchStep, BatchEventType

LEMMA NothingLoggedIsNoBatch ==
  ASSUME TypeOK, UNCHANGED <<audit, documents>>
  PROVE  BatchStep
<1>1. newEvents = {}
  BY DEF newEvents, TypeOK
<1>2. changed = {}
  BY DEF changed
<1> QED
  BY <1>1, <1>2, FewChanged DEF BatchStep

LEMMA ReapIsNoBatch ==
  ASSUME TypeOK, TypeOK', reapAll
  PROVE  BatchStep
<1>1. PICK m, order : LogsReaped(m, order)
  BY ReapLogged
<1>2. ASSUME NEW i \in newEvents
      PROVE  audit'[i].type = "lock.reaped"
  <2>1. i - Len(audit) \in 1 .. m /\ i = Len(audit) + (i - Len(audit))
    BY <1>1, NewEventsAre DEF LogsReaped, Appends
  <2>2. SameEvent(audit'[i], reapedEvent(order[i - Len(audit)]))
    BY <1>1, <2>1 DEF LogsReaped
  <2> QED
    BY <2>2 DEF SameEvent, reapedEvent, Event
<1>3. changed = {}
  BY DEF changed, reapAll
<1> QED
  BY <1>2, <1>3, FewChanged DEF BatchStep

LEMMA RejectIsAtomic ==
  ASSUME TypeOK, TypeOK', NEW req \in BatchRequests, rejectBatch(req)
  PROVE  BatchStep
<1> DEFINE event == Event("document.batch_rejected", req.actor, req.collection, NoID,
                          req.key, [items |-> Len(req.items),
                                    failures |-> Cardinality(failing(req))])
<1>1. appendAudit(<<event>>) /\ UNCHANGED <<documents, history>>
  BY DEF rejectBatch
<1>2. event.type = "document.batch_rejected"
  BY DEF Event
<1> HIDE DEF event
<1>3. Appends(1) /\ SameEvent(audit'[Len(audit) + 1], event)
  BY <1>1, OneLogged
<1>4. \A i \in newEvents : audit'[i].type = "document.batch_rejected"
  BY <1>2, <1>3, OneNewEvent DEF SameEvent
<1>5. changed = {}
  BY <1>1 DEF changed
<1> QED
  BY <1>1, <1>4, <1>5, FewChanged DEF BatchStep

LEMMA KeyDeterminesDocument ==
  ASSUME NEW c \in ID, NEW d \in ID, NEW e \in ID,
         documentKey(c, d) = documentKey(c, e)
  PROVE  d = e
BY ConcatSimplifications DEF documentKey, ID

(* The items of a batch that passes name different documents.              *)
LEMMA ItemsDiffer ==
  ASSUME NEW req \in BatchRequests, failing(req) = {},
         NEW i \in 1 .. Len(req.items), NEW j \in 1 .. Len(req.items),
         itemKey(req, i) = itemKey(req, j)
  PROVE  i = j
<1>1. req.collection \in ID /\ req.items \in Seq(BatchItem)
  BY DocumentRequestAssumption DEF BatchRequest
<1>2. Len(req.items) \in Nat /\ DOMAIN req.items = 1 .. Len(req.items)
  BY <1>1
<1>3. req.items[i] \in BatchItem /\ req.items[j] \in BatchItem
  BY <1>1, <1>2
<1>4. req.items[i].document \in ID /\ req.items[j].document \in ID
  BY <1>3 DEF BatchItem
<1>5. req.items[i].document = req.items[j].document
  BY <1>1, <1>4, KeyDeterminesDocument DEF itemKey
<1>6. \A h \in 1 .. Len(req.items) : itemFailure(req, h) = "none"
  BY <1>2 DEF failing
<1>7. \A h \in 1 .. Len(req.items) : ~ duplicate(req, h) /\ ~ req.items[h].expected < 1
  BY <1>6 DEF itemFailure
<1>8. req.items[i].expected \in Int /\ req.items[j].expected \in Int
  BY <1>3 DEF BatchItem
<1>9. ~ i \in 1 .. j - 1 /\ ~ j \in 1 .. i - 1
  BY <1>5, <1>7, <1>8 DEF duplicate
<1> QED
  BY <1>2, <1>9

(* What an applied batch does to the documents.                            *)
LEMMA BatchChanges ==
  ASSUME TypeOK, NEW req \in BatchRequests, failing(req) = {}, applyBatch(req)
  PROVE  /\ changed = {itemKey(req, i) : i \in 1 .. Len(req.items)}
         /\ \A k \in changed : documents'[k].version = documents[k].version + 1
<1> DEFINE n == Len(req.items)
<1>1. PICK patches :
        /\ DOMAIN patches = {itemKey(req, i) : i \in 1 .. n}
        /\ DOMAIN patches \subseteq DOMAIN documents
        /\ \A k \in DOMAIN patches : IsPatch(patches[k])
        /\ applyUpdates(req.actor, patches)
  BY BatchPatches
<1>2. req.actor \in Actor
  BY DocumentRequestAssumption DEF BatchRequest
<1>3. /\ \A k \in DOMAIN patches :
           documents'[k] = updated(documents[k], patches[k])
      /\ \A k \in DOMAIN documents \ DOMAIN patches : documents'[k] = documents[k]
  BY <1>1, <1>2, ApplyUpdatesType
<1>4. ASSUME NEW k \in DOMAIN patches
      PROVE  /\ documents'[k].version = documents[k].version + 1
             /\ documents'[k] # documents[k]
  <2>1. documents[k] \in Document /\ IsPatch(patches[k]) /\ clock \in Nat
    BY <1>1 DEF TypeOK, IsMap
  <2>2. documents'[k].version = documents[k].version + 1
    BY <1>3, <2>1, UpdatedType
  <2>3. documents[k].version \in Nat
    BY <2>1 DEF Document, Version
  <2> QED
    BY <2>2, <2>3
<1>5. changed = DOMAIN patches
  BY <1>1, <1>3, <1>4 DEF changed
<1> QED
  BY <1>1, <1>4, <1>5

LEMMA BatchIsApplied ==
  ASSUME TypeOK, TypeOK', NEW req \in BatchRequests, failing(req) = {}, applyBatch(req)
  PROVE  BatchStep
<1> DEFINE n == Len(req.items)
           old == Len(audit)
           entry(i) == updatedEvent(req, req.items[i], NoKey, TRUE)
<1>1. /\ n \in Nat /\ Appends(n + 1)
      /\ \A i \in 1 .. n : SameEvent(audit'[old + i], entry(i))
      /\ SameEvent(audit'[old + (n + 1)],
                   Event("document.batch_applied", req.actor, req.collection,
                         NoID, req.key, [items |-> n]))
  BY BatchLogged
<1>2. /\ changed = {itemKey(req, i) : i \in 1 .. n}
      /\ \A k \in changed : documents'[k].version = documents[k].version + 1
  BY BatchChanges
<1>3. /\ audit'[old + (n + 1)].type = "document.batch_applied"
      /\ audit'[old + (n + 1)].details.items = n
  BY <1>1 DEF SameEvent, Event
<1>4. \A i \in 1 .. n :
        /\ audit'[old + i].type = "document.updated"
        /\ documentKey(audit'[old + i].collection, audit'[old + i].document)
              = itemKey(req, i)
        /\ audit'[old + i].details.to = documents'[itemKey(req, i)].version
  <2> TAKE i \in 1 .. n
  <2>1. SameEvent(audit'[old + i], entry(i))
    BY <1>1
  <2> HIDE DEF old
  <2> QED
    BY <2>1 DEF SameEvent, updatedEvent, Event, itemKey
<1>5. newEvents = old + 1 .. old + (n + 1) /\ Cardinality(newEvents) = n + 1
  BY <1>1, NewEventsAre
<1>6. old \in Nat
  BY <1>1 DEF Appends
<1>7. \A i \in newEvents :
        i = old + (n + 1) \/ (i - old \in 1 .. n /\ i = old + (i - old))
  BY <1>1, <1>5, <1>6
<1>8. Cardinality(changed) = n
  <2> DEFINE f == [i \in 1 .. n |-> itemKey(req, i)]
  <2>1. f \in Bijection(1 .. n, changed)
    BY <1>2, ItemsDiffer DEF Bijection, Injection, Surjection, IsInjective
  <2>2. IsFiniteSet(1 .. n) /\ Cardinality(1 .. n) = n
    <3> HIDE DEF n
    <3>1. 1 \in Int /\ n \in Int /\ (1 > n => n = 0) /\ n - 1 + 1 = n
      BY <1>1
    <3> QED
      BY <3>1, FS_Interval
  <2> QED
    BY <2>1, <2>2, FS_Bijection DEF ExistsBijection
<1>9. ASSUME NEW i \in newEvents, audit'[i].type = "document.batch_applied"
      PROVE  i = old + (n + 1)
  BY <1>4, <1>7, <1>9
<1>10. ASSUME NEW k \in changed
       PROVE  \E j \in newEvents :
                /\ j < old + (n + 1)
                /\ audit'[j].type = "document.updated"
                /\ documentKey(audit'[j].collection, audit'[j].document) = k
                /\ audit'[j].details.to = documents'[k].version
  <2>1. PICK i \in 1 .. n : itemKey(req, i) = k
    BY <1>2
  <2>2. old + i \in newEvents /\ old + i < old + (n + 1)
    BY <1>1, <1>5, <1>6
  <2> QED
    BY <1>4, <2>1, <2>2
<1>11. \A i \in newEvents : audit'[i].type # "document.batch_rejected"
  BY <1>3, <1>4, <1>7
<1>12. old + (n + 1) \in newEvents
  BY <1>1, <1>5, <1>6
<1> HIDE DEF n, old
<1>13. ASSUME NEW i \in newEvents, audit'[i].type = "document.batch_applied"
       PROVE  /\ Cardinality(changed) = audit'[i].details.items
              /\ Cardinality(newEvents) = audit'[i].details.items + 1
              /\ \A k \in changed :
                   /\ documents'[k].version = documents[k].version + 1
                   /\ \E j \in newEvents :
                        /\ j < i
                        /\ audit'[j].type = "document.updated"
                        /\ documentKey(audit'[j].collection, audit'[j].document) = k
                        /\ audit'[j].details.to = documents'[k].version
  <2>1. i = old + (n + 1)
    BY <1>9, <1>13
  <2>2. audit'[i].details.items = n
    BY <1>3, <2>1
  <2> QED
    BY <1>2, <1>5, <1>8, <1>10, <2>1, <2>2
<1> QED
  BY <1>3, <1>11, <1>12, <1>13 DEF BatchStep

LEMMA StepIsAtomic ==
  ASSUME TypeOK, TypeOK', [Next]_vars
  PROVE  BatchStep
<1>1. CASE Silent \/ Declines
  BY <1>1, NothingLoggedIsNoBatch DEF Silent, Declines, stored
<1>2. CASE Registers
  <2> PICK req \in RegisterRequests, id \in ID : registerNew(req, id)
    BY <1>2 DEF Registers
  <2> DEFINE event == Event("collection.created", req.actor, id, NoID, req.key,
                            [name |-> req.name, description |-> req.description])
  <2>1. appendAudit(<<event>>) /\ documents' = documents
    BY DEF registerNew
  <2>2. event.type \notin BatchEventType
    BY DEF Event, BatchEventType
  <2>3. changed \subseteq {id}
    BY <2>1 DEF changed
  <2> HIDE DEF event
  <2> QED
    BY <2>1, <2>2, <2>3, OtherEventIsNoBatch
<1>3. CASE Creates
  <2> PICK req \in CreateRequests, id \in ID :
        ~ documentExists(documentKey(req.collection, id)) /\ insert(req, id)
    BY <1>3 DEF Creates
  <2> DEFINE event == Event("document.created", req.actor, req.collection, id,
                            req.key, [version |-> 1])
  <2>1. appendAudit(<<event>>)
    BY DEF insert
  <2>2. event.type \notin BatchEventType
    BY DEF Event, BatchEventType
  <2>3. changed \subseteq {id}
    BY DEF insert, Put, changed, documentExists
  <2> HIDE DEF event
  <2> QED
    BY <2>1, <2>2, <2>3, OtherEventIsNoBatch
<1>4. CASE Updates
  <2> PICK req \in UpdateRequests : update(req)
    BY <1>4 DEF Updates
  <2> DEFINE event == updatedEvent(req, req, req.key, FALSE)
  <2>1. appendAudit(<<event>>)
    BY DEF update
  <2>2. event.type \notin BatchEventType
    BY DEF updatedEvent, Event, BatchEventType
  <2>3. changed \subseteq {key(req)}
    BY DEF update, applyUpdates, changed, key
  <2> HIDE DEF event
  <2> QED
    BY <2>1, <2>2, <2>3, OtherEventIsNoBatch
<1>5. CASE Rejects
  BY <1>5, RejectIsAtomic DEF Rejects
<1>6. CASE Batches
  BY <1>6, BatchIsApplied DEF Batches
<1>7. ASSUME NEW req, NEW type \in LockEventType, NEW details,
             appendAudit(<<lockEvent(type, req, details)>>), documents' = documents
      PROVE  BatchStep
  <2>1. lockEvent(type, req, details).type \notin BatchEventType
    BY DEF lockEvent, Event, LockEventType, BatchEventType
  <2>2. changed \subseteq {req}
    BY <1>7 DEF changed
  <2> QED
    BY <1>7, <2>1, <2>2, OtherEventIsNoBatch
<1>8. CASE Acquires
  BY <1>7, <1>8 DEF Acquires, grant, LockEventType
<1>9. CASE Prolongs
  BY <1>7, <1>9 DEF Prolongs, renew, LockEventType
<1>10. CASE GivesUp
  BY <1>7, <1>10 DEF GivesUp, release, LockEventType
<1>11. CASE reapAll
  BY <1>11, ReapIsNoBatch
<1> QED
  BY <1>1, <1>2, <1>3, <1>4, <1>5, <1>6, <1>8, <1>9, <1>10, <1>11, StepCases

(* A batch of n items moves exactly n documents by one version each and    *)
(* logs n updates before it is logged itself, or changes nothing; and no   *)
(* other step changes more than one document.                              *)
THEOREM BatchAtomic == Spec => BatchIsAtomic
<1>1. TypeOK /\ TypeOK' /\ [Next]_vars => [BatchStep]_vars
  BY StepIsAtomic
<1> QED
  BY <1>1, TypeCorrect, PTL DEF Spec, BatchIsAtomic
-----------------------------------------------------------------------------
(* The log tells the revision histories.  What it tells of one document is *)
(* kept by a step that logs nothing of it and leaves its history alone,    *)
(* and by one that logs one more event and appends the revision it tells.  *)

IsDocumentEvent(e, k) == e.type \in DocumentEventType /\ keyOf(e) = k

TellsAt(k) ==
  /\ {versionTold(audit[i]) : i \in DocumentEvents(k)} = DOMAIN history[k]
  /\ \A i, j \in DocumentEvents(k) :
       i < j => versionTold(audit[i]) < versionTold(audit[j])
  /\ \A i \in DocumentEvents(k) :
       LET e == audit[i]
           r == history[k][versionTold(e)]
       IN  /\ r.actor = e.actor
           /\ r.modifiedAt = e.at
           /\ e.type = "document.created" <=> versionTold(e) = 1
           /\ e.type = "document.updated" =>
                e.details.from = e.details.to - 1 /\ e.details.reason = r.reason

(* The event e tells the revision rev, number v of its document.           *)
Tells(e, rev, v) ==
  /\ versionTold(e) = v
  /\ rev.actor = e.actor /\ rev.modifiedAt = e.at
  /\ e.type = "document.created" <=> v = 1
  /\ e.type = "document.updated" =>
       e.details.from = e.details.to - 1 /\ e.details.reason = rev.reason

LEMMA DocumentEventsKept ==
  ASSUME NEW m, Appends(m), NEW k,
         \A i \in 1 .. m : ~ IsDocumentEvent(audit'[Len(audit) + i], k)
  PROVE  DocumentEvents(k)' = DocumentEvents(k)
<1>1. \A i \in DOMAIN audit' :
        i \in DOMAIN audit
          \/ (i - Len(audit) \in 1 .. m /\ i = Len(audit) + (i - Len(audit)))
  BY DEF Appends
<1>2. DOMAIN audit \subseteq DOMAIN audit' /\ \A i \in DOMAIN audit : audit'[i] = audit[i]
  BY DEF Appends
<1>3. \A i \in DOMAIN audit' : IsDocumentEvent(audit'[i], k) => i \in DOMAIN audit
  BY <1>1
<1> QED
  BY <1>2, <1>3 DEF DocumentEvents, IsDocumentEvent, keyOf

LEMMA DocumentEventAdded ==
  ASSUME NEW m, Appends(m), NEW k, NEW j \in 1 .. m,
         \A i \in 1 .. m : IsDocumentEvent(audit'[Len(audit) + i], k) <=> i = j
  PROVE  DocumentEvents(k)' = DocumentEvents(k) \cup {Len(audit) + j}
<1>1. \A i \in DOMAIN audit' :
        i \in DOMAIN audit
          \/ (i - Len(audit) \in 1 .. m /\ i = Len(audit) + (i - Len(audit)))
  BY DEF Appends
<1>2. DOMAIN audit \subseteq DOMAIN audit' /\ \A i \in DOMAIN audit : audit'[i] = audit[i]
  BY DEF Appends
<1>3. Len(audit) + j \in DOMAIN audit' /\ IsDocumentEvent(audit'[Len(audit) + j], k)
  BY DEF Appends
<1>4. \A i \in DOMAIN audit' :
        IsDocumentEvent(audit'[i], k) => i \in DOMAIN audit \/ i = Len(audit) + j
  BY <1>1
<1> QED
  BY <1>2, <1>3, <1>4 DEF DocumentEvents, IsDocumentEvent, keyOf

LEMMA KeepsTelling ==
  ASSUME NEW m, Appends(m), NEW k, TellsAt(k),
         DocumentEvents(k)' = DocumentEvents(k), history'[k] = history[k]
  PROVE  TellsAt(k)'
<1>1. \A i \in DocumentEvents(k) : audit'[i] = audit[i]
  BY DEF Appends, DocumentEvents
<1> QED
  BY <1>1 DEF TellsAt, versionTold

LEMMA TellsFirst ==
  ASSUME NEW k, NEW n \in Nat, DocumentEvents(k)' = {n}, NEW rev, history'[k] = <<rev>>,
         Tells(audit'[n], rev, 1)
  PROVE  TellsAt(k)'
<1>1. DOMAIN history'[k] = {1} /\ history'[k][1] = rev
  OBVIOUS
<1>2. \A i \in DocumentEvents(k)' : i = n
  OBVIOUS
<1>3. versionTold(audit'[n]) = 1
  BY DEF Tells
<1>4. {versionTold(audit'[i]) : i \in DocumentEvents(k)'} = {1}
  BY <1>2, <1>3
<1>5. \A i, j \in DocumentEvents(k)' : ~ i < j
  BY <1>2
<1> QED
  BY <1>1, <1>2, <1>3, <1>4, <1>5 DEF TellsAt, Tells, versionTold

LEMMA TellsNext ==
  ASSUME NEW m, Appends(m), NEW k, TellsAt(k), history[k] \in Seq(Revision),
         NEW n \in DOMAIN audit' \ DOMAIN audit,
         DocumentEvents(k)' = DocumentEvents(k) \cup {n},
         NEW rev \in Revision, history'[k] = Append(history[k], rev),
         Tells(audit'[n], rev, Len(history[k]) + 1)
  PROVE  TellsAt(k)'
<1> DEFINE v == Len(history[k]) + 1
<1>1. \A i \in DocumentEvents(k) : audit'[i] = audit[i] /\ i < n /\ i \in Nat
  BY DEF Appends, DocumentEvents
<1>2. /\ Len(history[k]) \in Nat /\ DOMAIN history[k] = 1 .. Len(history[k])
      /\ DOMAIN history'[k] = DOMAIN history[k] \cup {v}
      /\ history'[k][v] = rev
      /\ \A w \in DOMAIN history[k] : history'[k][w] = history[k][w] /\ w < v
  BY AppendProperties
<1>3. \A i \in DocumentEvents(k) :
        /\ versionTold(audit'[i]) = versionTold(audit[i])
        /\ versionTold(audit[i]) \in DOMAIN history[k]
  BY <1>1 DEF TellsAt
<1>4. versionTold(audit'[n]) = v
  BY DEF Tells
<1> HIDE DEF v
<1>5. {versionTold(audit'[i]) : i \in DocumentEvents(k)'} = DOMAIN history'[k]
  <2>1. {versionTold(audit'[i]) : i \in DocumentEvents(k)}
          = {versionTold(audit[i]) : i \in DocumentEvents(k)}
    BY <1>3
  <2>2. {versionTold(audit'[i]) : i \in DocumentEvents(k) \cup {n}}
          = {versionTold(audit'[i]) : i \in DocumentEvents(k)} \cup {v}
    BY <1>4
  <2> QED
    BY <1>2, <2>1, <2>2 DEF TellsAt
<1>6. ASSUME NEW i \in DocumentEvents(k)', NEW j \in DocumentEvents(k)', i < j
      PROVE  versionTold(audit'[i]) < versionTold(audit'[j])
  <2>1. n \in Nat
    BY DEF Appends
  <2>2. i \in DocumentEvents(k)
    BY <1>1, <1>6, <2>1
  <2> QED
    BY <1>2, <1>3, <1>4, <1>6, <2>2 DEF TellsAt
<1>7. ASSUME NEW i \in DocumentEvents(k)'
      PROVE  LET e == audit'[i]
                 r == history'[k][versionTold(e)]
             IN  /\ r.actor = e.actor
                 /\ r.modifiedAt = e.at
                 /\ e.type = "document.created" <=> versionTold(e) = 1
                 /\ e.type = "document.updated" =>
                      e.details.from = e.details.to - 1 /\ e.details.reason = r.reason
  <2>1. CASE i \in DocumentEvents(k)
    <3>1. PICK e, w, r : e = audit[i] /\ w = versionTold(e) /\ r = history[k][w]
      OBVIOUS
    <3>2. /\ r.actor = e.actor
          /\ r.modifiedAt = e.at
          /\ e.type = "document.created" <=> w = 1
          /\ e.type = "document.updated" =>
               e.details.from = e.details.to - 1 /\ e.details.reason = r.reason
      BY <2>1, <3>1 DEF TellsAt
    <3>3. audit'[i] = e
      BY <1>1, <2>1, <3>1
    <3>4. versionTold(audit'[i]) = w /\ w \in DOMAIN history[k]
      BY <1>3, <2>1, <3>1
    <3>5. history'[k][w] = r
      BY <1>2, <3>1, <3>4
    <3> QED
      BY <3>2, <3>3, <3>4, <3>5
  <2>2. CASE i = n
    BY <1>2, <1>4, <2>2 DEF Tells, v
  <2> QED
    BY <2>1, <2>2
<1> QED
  BY <1>5, <1>6, <1>7 DEF TellsAt, versionTold

(* Every document event is of a document that has a history.               *)
HistoryKnown ==
  \A i \in DOMAIN audit :
    audit[i].type \in DocumentEventType => keyOf(audit[i]) \in DOMAIN history

LEMMA TellsParts ==
  AuditTellsHistory <=> HistoryKnown /\ \A k \in DOMAIN history : TellsAt(k)
BY DEF AuditTellsHistory, HistoryKnown, TellsAt

LEMMA TellsPartsNext ==
  ASSUME HistoryKnown', \A k \in DOMAIN history' : TellsAt(k)'
  PROVE  AuditTellsHistory'
BY DEF AuditTellsHistory, HistoryKnown, TellsAt

LEMMA OtherEventsTell ==
  ASSUME AuditTellsHistory, NEW m, Appends(m), UNCHANGED history,
         \A i \in 1 .. m : audit'[Len(audit) + i].type \notin DocumentEventType
  PROVE  AuditTellsHistory'
<1>1. ASSUME NEW k \in DOMAIN history
      PROVE  TellsAt(k)'
  BY DocumentEventsKept, KeepsTelling, TellsParts DEF IsDocumentEvent
<1>2. \A i \in DOMAIN audit' :
        i \in DOMAIN audit
          \/ (i - Len(audit) \in 1 .. m /\ i = Len(audit) + (i - Len(audit)))
  BY DEF Appends
<1>3. HistoryKnown'
  BY <1>2, TellsParts DEF HistoryKnown, Appends, keyOf
<1>4. DOMAIN history' = DOMAIN history
  OBVIOUS
<1> QED
  BY <1>1, <1>3, <1>4, TellsPartsNext

LEMMA OtherEventTells ==
  ASSUME TypeOK, TypeOK', AuditTellsHistory, NEW event, appendAudit(<<event>>),
         event.type \notin DocumentEventType, UNCHANGED history
  PROVE  AuditTellsHistory'
<1>1. Appends(1) /\ SameEvent(audit'[Len(audit) + 1], event)
  BY OneLogged
<1>2. \A i \in 1 .. 1 : audit'[Len(audit) + i].type \notin DocumentEventType
  BY <1>1 DEF SameEvent
<1> QED
  BY <1>1, <1>2, OtherEventsTell

LEMMA NoEventTells ==
  ASSUME AuditTellsHistory, UNCHANGED <<audit, history>>
  PROVE  AuditTellsHistory'
<1>1. HistoryKnown'
  BY TellsParts DEF HistoryKnown, keyOf
<1>2. ASSUME NEW k \in DOMAIN history
      PROVE  TellsAt(k)'
  <2>1. DocumentEvents(k)' = DocumentEvents(k)
    BY DEF DocumentEvents, keyOf
  <2>2. TellsAt(k)
    BY TellsParts
  <2> QED
    BY <2>1, <2>2 DEF TellsAt, versionTold
<1> QED
  BY <1>1, <1>2, TellsPartsNext

LEMMA ReapTells ==
  ASSUME TypeOK, TypeOK', AuditTellsHistory, reapAll
  PROVE  AuditTellsHistory'
<1>1. PICK m, order : LogsReaped(m, order)
  BY ReapLogged
<1>2. \A i \in 1 .. m : audit'[Len(audit) + i].type = "lock.reaped"
  BY <1>1 DEF LogsReaped, SameEvent, reapedEvent, Event
<1>3. Appends(m) /\ UNCHANGED history
  BY <1>1 DEF LogsReaped, reapAll
<1> QED
  BY <1>2, <1>3, OtherEventsTell DEF DocumentEventType

LEMMA CreationTells ==
  ASSUME TypeOK, TypeOK', HistoryIsComplete, AuditTellsHistory, Creates
  PROVE  AuditTellsHistory'
<1> PICK req \in CreateRequests, id \in ID :
      ~ documentExists(documentKey(req.collection, id)) /\ insert(req, id)
  BY DEF Creates
<1> DEFINE k == documentKey(req.collection, id)
           n == Len(audit) + 1
           doc == [id |-> id, collection |-> req.collection, title |-> req.title,
                   content |-> req.content, tags |-> normalizeTags(req.tags),
                   version |-> 1, createdAt |-> clock, updatedAt |-> clock]
           rev == revision(doc, req.actor, Empty)
           event == Event("document.created", req.actor, req.collection, id,
                          req.key, [version |-> 1])
<1>1. k \notin DOMAIN history
  BY DEF documentExists, HistoryIsComplete
<1>2. history' = Put(history, k, Append(<<>>, rev)) /\ appendAudit(<<event>>)
  BY <1>1 DEF insert
<1>3. Tells(event, rev, 1) /\ IsDocumentEvent(event, k) /\ keyOf(event) = k
  BY DEF Tells, versionTold, revision, Event, IsDocumentEvent, DocumentEventType, keyOf
<1> HIDE DEF k, doc, rev, event
<1>4. Appends(1) /\ SameEvent(audit'[n], event)
  BY <1>2, OneLogged
<1>5. Tells(audit'[n], rev, 1) /\ IsDocumentEvent(audit'[n], k) /\ keyOf(audit'[n]) = k
  BY <1>3, <1>4 DEF Tells, versionTold, IsDocumentEvent, keyOf, SameEvent
<1>6. /\ DOMAIN history' = DOMAIN history \cup {k}
      /\ history'[k] = <<rev>>
      /\ \A x \in DOMAIN history : history'[x] = history[x]
  BY <1>1, <1>2 DEF Put
<1>7. DocumentEvents(k) = {}
  BY <1>1, TellsParts DEF HistoryKnown, DocumentEvents
<1>8. DocumentEvents(k)' = {n}
  <2>1. \A i \in 1 .. 1 : IsDocumentEvent(audit'[Len(audit) + i], k) <=> i = 1
    BY <1>5
  <2>2. DocumentEvents(k)' = DocumentEvents(k) \cup {Len(audit) + 1}
    BY <1>4, <2>1, DocumentEventAdded
  <2> QED
    BY <1>7, <2>2
<1>9. TellsAt(k)'
  BY <1>4, <1>5, <1>6, <1>8, TellsFirst DEF Appends
<1>10. ASSUME NEW x \in DOMAIN history
       PROVE  TellsAt(x)'
  <2>1. \A i \in 1 .. 1 : ~ IsDocumentEvent(audit'[Len(audit) + i], x)
    BY <1>1, <1>5 DEF IsDocumentEvent
  <2>2. DocumentEvents(x)' = DocumentEvents(x)
    BY <1>4, <2>1, DocumentEventsKept
  <2> QED
    BY <1>4, <1>6, <2>2, KeepsTelling, TellsParts
<1>11. HistoryKnown'
  BY <1>4, <1>5, <1>6, TellsParts DEF HistoryKnown, Appends, keyOf
<1>12. \A x \in DOMAIN history' : TellsAt(x)'
  BY <1>6, <1>9, <1>10
<1> QED
  BY <1>11, <1>12, TellsPartsNext

(* The update item of the call req is accepted for the document k.         *)
Accepts(req, item, k) ==
  /\ k = documentKey(req.collection, item.document)
  /\ k \in DOMAIN documents
  /\ IsPatch(item) /\ req.actor \in Actor
  /\ versionMatches(documents[k], item.expected)
  /\ documents'[k] = updated(documents[k], item)

(* The event of one accepted update and the revision it appends.           *)
LEMMA UpdateTold ==
  ASSUME TypeOK, HistoryIsComplete, NEW req, NEW item, NEW k, Accepts(req, item, k),
         NEW x, NEW b, NEW e, SameEvent(e, updatedEvent(req, item, x, b))
  PROVE  /\ Tells(e, revision(documents'[k], req.actor, item.reason), Len(history[k]) + 1)
         /\ revision(documents'[k], req.actor, item.reason) \in Revision
         /\ history[k] \in Seq(Revision)
         /\ keyOf(e) = k /\ e.type \in DocumentEventType
<1>1. /\ documents[k] \in Document /\ clock \in Nat
      /\ k \in DOMAIN history /\ history[k] \in Seq(Revision)
      /\ Len(history[k]) = documents[k].version
  BY DEF TypeOK, IsMap, HistoryIsComplete, Accepts
<1>2. documents[k].version \in Nat \ {0}
  BY <1>1 DEF Document, Version
<1>3. /\ documents'[k] \in Document
      /\ documents'[k].version = documents[k].version + 1
  BY <1>1, UpdatedType DEF Accepts
<1>4. /\ e.type = "document.updated" /\ e.at = clock /\ e.actor = req.actor
      /\ e.collection = req.collection /\ e.document = item.document
      /\ e.details = [from |-> item.expected, to |-> documents'[k].version,
                      reason |-> item.reason, batch |-> b]
  BY DEF SameEvent, updatedEvent, Event, Accepts
<1>5. /\ e.details.from = documents[k].version
      /\ e.details.to = documents[k].version + 1
      /\ e.details.reason = item.reason
  BY <1>3, <1>4 DEF versionMatches, Accepts
<1>6. /\ revision(documents'[k], req.actor, item.reason) \in Revision
      /\ revision(documents'[k], req.actor, item.reason).actor = req.actor
      /\ revision(documents'[k], req.actor, item.reason).reason = item.reason
      /\ revision(documents'[k], req.actor, item.reason).modifiedAt = clock
  BY <1>1, <1>3, RevisionType DEF IsPatch, revision, Accepts
<1>7. Tells(e, revision(documents'[k], req.actor, item.reason), Len(history[k]) + 1)
  BY <1>1, <1>2, <1>4, <1>5, <1>6 DEF Tells, versionTold
<1> QED
  BY <1>1, <1>4, <1>6, <1>7 DEF keyOf, DocumentEventType, Accepts

LEMMA UpdateTells ==
  ASSUME TypeOK, TypeOK', HistoryIsComplete, AuditTellsHistory, Updates
  PROVE  AuditTellsHistory'
<1> PICK req \in UpdateRequests :
      /\ lookupError(req.collection, req.document) = "none"
      /\ versionMatches(documents[key(req)], req.expected)
      /\ update(req)
  BY DEF Updates
<1> DEFINE k == key(req)
           n == Len(audit) + 1
           rev == revision(documents'[k], req.actor, req.reason)
           patches == [x \in {k} |-> req]
<1>1. req.actor \in Actor /\ IsPatch(req)
  BY DocumentRequestAssumption DEF UpdateRequest, IsPatch
<1>2. k = documentKey(req.collection, req.document) /\ k \in DOMAIN documents
  BY LookupFinds DEF key
<1>3. DOMAIN patches = {k} /\ patches[k] = req
  OBVIOUS
<1>4. applyUpdates(req.actor, patches)
  BY DEF update, key
<1>5. appendAudit(<<updatedEvent(req, req, req.key, FALSE)>>)
  BY DEF update
<1> HIDE DEF patches, k
<1>6. /\ documents'[k] = updated(documents[k], req)
      /\ DOMAIN history' = DOMAIN history
      /\ \A x \in DOMAIN history \ {k} : history'[x] = history[x]
      /\ k \in DOMAIN history => history'[k] = Append(history[k], rev)
  BY <1>1, <1>2, <1>3, <1>4, ApplyUpdatesType
<1>7. k \in DOMAIN history
  BY <1>2 DEF HistoryIsComplete
<1>8. Appends(1) /\ SameEvent(audit'[n], updatedEvent(req, req, req.key, FALSE))
  BY <1>5, OneLogged
<1> HIDE DEF n
<1>9. Accepts(req, req, k)
  BY <1>1, <1>2, <1>6 DEF Accepts, k
<1>10. /\ Tells(audit'[n], rev, Len(history[k]) + 1)
       /\ rev \in Revision /\ history[k] \in Seq(Revision)
       /\ keyOf(audit'[n]) = k /\ audit'[n].type \in DocumentEventType
  <2>1. /\ Tells(audit'[n], revision(documents'[k], req.actor, req.reason),
                 Len(history[k]) + 1)
        /\ revision(documents'[k], req.actor, req.reason) \in Revision
        /\ history[k] \in Seq(Revision)
        /\ keyOf(audit'[n]) = k /\ audit'[n].type \in DocumentEventType
    <3> HIDE DEF rev
    <3> QED
      BY <1>8, <1>9, UpdateTold
  <2> QED
    BY <2>1 DEF rev
<1> HIDE DEF rev
<1>11. \A x : \A i \in 1 .. 1 :
         IsDocumentEvent(audit'[Len(audit) + i], x) <=> (x = k /\ i = 1)
  BY <1>10 DEF IsDocumentEvent, n
<1>12. TellsAt(k)'
  <2>1. DocumentEvents(k)' = DocumentEvents(k) \cup {n}
    BY <1>8, <1>11, DocumentEventAdded DEF n
  <2>2. n \in DOMAIN audit' \ DOMAIN audit
    BY <1>8 DEF Appends, n
  <2> QED
    BY <1>6, <1>7, <1>8, <1>10, <2>1, <2>2, TellsNext, TellsParts
<1>13. ASSUME NEW x \in DOMAIN history \ {k}
       PROVE  TellsAt(x)'
  <2>1. DocumentEvents(x)' = DocumentEvents(x)
    BY <1>8, <1>11, DocumentEventsKept
  <2> QED
    BY <1>6, <1>8, <2>1, KeepsTelling, TellsParts
<1>14. HistoryKnown'
  BY <1>6, <1>7, <1>8, <1>10, TellsParts DEF HistoryKnown, Appends, keyOf, n
<1> QED
  BY <1>6, <1>12, <1>13, <1>14, TellsPartsNext

LEMMA BatchTells ==
  ASSUME TypeOK, TypeOK', HistoryIsComplete, AuditTellsHistory, Batches
  PROVE  AuditTellsHistory'
<1> PICK req \in BatchRequests : failing(req) = {} /\ applyBatch(req)
  BY DEF Batches
<1> DEFINE n == Len(req.items)
           old == Len(audit)
<1>1. /\ req.actor \in Actor /\ req.items \in Seq(BatchItem)
      /\ DOMAIN req.items = 1 .. n
  BY DocumentRequestAssumption DEF BatchRequest
<1>2. /\ n \in Nat /\ Appends(n + 1)
      /\ \A i \in 1 .. n : SameEvent(audit'[old + i],
                                     updatedEvent(req, req.items[i], NoKey, TRUE))
      /\ SameEvent(audit'[old + (n + 1)],
                   Event("document.batch_applied", req.actor, req.collection,
                         NoID, req.key, [items |-> n]))
  BY BatchLogged
<1>3. PICK patches :
        /\ DOMAIN patches = {itemKey(req, i) : i \in 1 .. n}
        /\ DOMAIN patches \subseteq DOMAIN documents
        /\ \A k \in DOMAIN patches :
             \E i \in 1 .. n : itemKey(req, i) = k /\ patches[k] = req.items[i]
        /\ \A k \in DOMAIN patches : IsPatch(patches[k])
        /\ applyUpdates(req.actor, patches)
  BY BatchPatches
<1>4. /\ DOMAIN history' = DOMAIN history
      /\ \A k \in DOMAIN patches : documents'[k] = updated(documents[k], patches[k])
      /\ \A k \in DOMAIN patches \cap DOMAIN history :
           history'[k] = Append(history[k],
                           revision(documents'[k], req.actor, patches[k].reason))
      /\ \A k \in DOMAIN history \ DOMAIN patches : history'[k] = history[k]
  BY <1>1, <1>3, ApplyUpdatesType
<1>5. DOMAIN history = DOMAIN documents
  BY DEF HistoryIsComplete
<1>6. \A i \in 1 .. n : /\ itemKey(req, i) \in DOMAIN documents
                       /\ versionMatches(documents[itemKey(req, i)], req.items[i].expected)
  <2>1. \A i \in 1 .. n : itemFailure(req, i) = "none"
    BY <1>1 DEF failing
  <2> QED
    BY <2>1 DEF itemFailure, documentExists
<1>7. ASSUME NEW i \in 1 .. n
      PROVE  LET k == itemKey(req, i)
                 rev == revision(documents'[k], req.actor, req.items[i].reason)
             IN  /\ k \in DOMAIN patches /\ patches[k] = req.items[i]
                 /\ Tells(audit'[old + i], rev, Len(history[k]) + 1)
                 /\ rev \in Revision /\ history[k] \in Seq(Revision)
                 /\ keyOf(audit'[old + i]) = k
                 /\ audit'[old + i].type \in DocumentEventType
  <2> DEFINE k == itemKey(req, i)
             item == req.items[i]
  <2>1. k \in DOMAIN patches
    BY <1>3
  <2>2. PICK j \in 1 .. n : itemKey(req, j) = k /\ patches[k] = req.items[j]
    BY <1>3, <2>1
  <2>3. patches[k] = item
    BY <2>2, ItemsDiffer
  <2>4. k = documentKey(req.collection, item.document)
    BY DEF itemKey
  <2>5. SameEvent(audit'[old + i], updatedEvent(req, item, NoKey, TRUE))
    BY <1>2
  <2>6. /\ k \in DOMAIN documents /\ IsPatch(item)
        /\ versionMatches(documents[k], item.expected)
        /\ documents'[k] = updated(documents[k], item)
    BY <1>3, <1>4, <1>6, <2>1, <2>3
  <2> HIDE DEF k, item, old
  <2>7. /\ Tells(audit'[old + i], revision(documents'[k], req.actor, item.reason),
                 Len(history[k]) + 1)
        /\ revision(documents'[k], req.actor, item.reason) \in Revision
        /\ history[k] \in Seq(Revision)
        /\ keyOf(audit'[old + i]) = k
        /\ audit'[old + i].type \in DocumentEventType
    <3>1. Accepts(req, item, k)
      BY <1>1, <2>4, <2>6 DEF Accepts
    <3> QED
      BY <2>5, <3>1, UpdateTold
  <2> QED
    BY <2>1, <2>3, <2>7 DEF k, item
<1>8. audit'[old + (n + 1)].type \notin DocumentEventType
  BY <1>2 DEF SameEvent, Event, DocumentEventType
<1> HIDE DEF n, old
<1>9. \A i \in 1 .. n + 1 : i \in 1 .. n \/ i = n + 1
  BY <1>2
<1>10. ASSUME NEW i \in 1 .. n
       PROVE  TellsAt(itemKey(req, i))'
  <2> DEFINE k == itemKey(req, i)
             rev == revision(documents'[k], req.actor, req.items[i].reason)
  <2>1. i \in 1 .. n + 1 /\ ~ (n + 1 \in 1 .. n)
    BY <1>2
  <2>2. ASSUME NEW j \in 1 .. n + 1
        PROVE  IsDocumentEvent(audit'[old + j], k) <=> j = i
    <3>1. CASE j \in 1 .. n
      BY <1>7, <3>1, ItemsDiffer DEF IsDocumentEvent, n
    <3>2. CASE j = n + 1
      BY <1>8, <2>1, <3>2 DEF IsDocumentEvent
    <3> QED
      BY <1>9, <3>1, <3>2
  <2>3. DocumentEvents(k)' = DocumentEvents(k) \cup {old + i}
    BY <1>2, <2>1, <2>2, DocumentEventAdded DEF old
  <2>4. old + i \in DOMAIN audit' \ DOMAIN audit
    <3>1. /\ old \in Nat /\ DOMAIN audit = 1 .. old
          /\ DOMAIN audit' = 1 .. old + (n + 1)
      BY <1>2 DEF Appends, old
    <3>2. n \in Nat
      BY <1>2
    <3> HIDE DEF old, n
    <3>3. i \in Nat /\ i >= 1 /\ i <= n + 1
      BY <3>2
    <3> QED  BY <3>1, <3>2, <3>3
  <2>5. k \in DOMAIN history /\ history'[k] = Append(history[k], rev)
    BY <1>3, <1>4, <1>5, <1>7
  <2>6. TellsAt(k)
    BY <2>5, TellsParts
  <2>7. /\ Tells(audit'[old + i], rev, Len(history[k]) + 1)
        /\ rev \in Revision /\ history[k] \in Seq(Revision)
    BY <1>7
  <2> HIDE DEF k, rev
  <2>8. TellsAt(k)'
    BY <1>2, <2>3, <2>4, <2>5, <2>6, <2>7, TellsNext
  <2> QED
    BY <2>8 DEF k
<1>11. ASSUME NEW k \in DOMAIN history \ DOMAIN patches
       PROVE  TellsAt(k)'
  <2>1. \A j \in 1 .. n + 1 : ~ IsDocumentEvent(audit'[old + j], k)
    BY <1>7, <1>8, <1>9 DEF IsDocumentEvent
  <2>2. DocumentEvents(k)' = DocumentEvents(k)
    BY <1>2, <2>1, DocumentEventsKept DEF old
  <2>3. TellsAt(k) /\ history'[k] = history[k]
    BY <1>4, TellsParts
  <2> QED
    BY <1>2, <2>2, <2>3, KeepsTelling
<1>12. HistoryKnown'
  <2>1. ASSUME NEW h \in DOMAIN audit', audit'[h].type \in DocumentEventType
        PROVE  keyOf(audit'[h]) \in DOMAIN history'
    <3>1. \/ h \in DOMAIN audit
          \/ h - old \in 1 .. n + 1 /\ h = old + (h - old)
      BY <1>2 DEF Appends, old
    <3>2. CASE h \in DOMAIN audit
      BY <1>2, <1>4, <2>1, <3>2, TellsParts DEF HistoryKnown, Appends
    <3>3. CASE h - old \in 1 .. n /\ h = old + (h - old)
      BY <1>3, <1>4, <1>5, <1>7, <3>3
    <3> QED
      BY <1>8, <1>9, <2>1, <3>1, <3>2, <3>3
  <2> QED
    BY <2>1 DEF HistoryKnown, keyOf
<1>13. \A k \in DOMAIN history' : TellsAt(k)'
  BY <1>3, <1>4, <1>10, <1>11
<1> QED
  BY <1>12, <1>13, TellsPartsNext

LEMMA StepTells ==
  ASSUME TypeOK, TypeOK', HistoryIsComplete, AuditTellsHistory, [Next]_vars
  PROVE  AuditTellsHistory'
<1>1. CASE Silent \/ Declines
  BY <1>1, NoEventTells DEF Silent, Declines, stored
<1>2. CASE Registers
  <2> PICK req \in RegisterRequests, id \in ID : registerNew(req, id)
    BY <1>2 DEF Registers
  <2> DEFINE event == Event("collection.created", req.actor, id, NoID, req.key,
                            [name |-> req.name, description |-> req.description])
  <2>1. appendAudit(<<event>>) /\ UNCHANGED history
    BY DEF registerNew
  <2>2. event.type \notin DocumentEventType
    BY DEF Event, DocumentEventType
  <2> HIDE DEF event
  <2> QED
    BY <2>1, <2>2, OtherEventTells
<1>3. CASE Rejects
  <2> PICK req \in BatchRequests : rejectBatch(req)
    BY <1>3 DEF Rejects
  <2> DEFINE event == Event("document.batch_rejected", req.actor, req.collection, NoID,
                            req.key, [items |-> Len(req.items),
                                      failures |-> Cardinality(failing(req))])
  <2>1. appendAudit(<<event>>) /\ UNCHANGED history
    BY DEF rejectBatch
  <2>2. event.type \notin DocumentEventType
    BY DEF Event, DocumentEventType
  <2> HIDE DEF event
  <2> QED
    BY <2>1, <2>2, OtherEventTells
<1>4. ASSUME NEW req, NEW type \in LockEventType, NEW details,
             appendAudit(<<lockEvent(type, req, details)>>), UNCHANGED history
      PROVE  AuditTellsHistory'
  <2>1. lockEvent(type, req, details).type \notin DocumentEventType
    BY DEF lockEvent, Event, LockEventType, DocumentEventType
  <2> QED
    BY <1>4, <2>1, OtherEventTells
<1>5. CASE Acquires
  BY <1>4, <1>5 DEF Acquires, grant, LockEventType
<1>6. CASE Prolongs
  BY <1>4, <1>6 DEF Prolongs, renew, LockEventType
<1>7. CASE GivesUp
  BY <1>4, <1>7 DEF GivesUp, release, LockEventType
<1> QED
  BY <1>1, <1>2, <1>3, <1>5, <1>6, <1>7, StepCases, CreationTells, UpdateTells,
     BatchTells, ReapTells

(* The document events of a document are, in order, its revisions 1, 2,    *)
(* 3..., each with its actor, its time and, of an update, its reason.      *)
THEOREM LogTellsHistory == Spec => []AuditTellsHistory
<1>1. Init => AuditTellsHistory
  BY DEF Init, AuditTellsHistory
<1>2. TypeOK /\ TypeOK' /\ HistoryIsComplete /\ AuditTellsHistory /\ [Next]_vars
        => AuditTellsHistory'
  BY StepTells
<1> QED
  BY <1>1, <1>2, TypeCorrect, HistoryComplete, PTL DEF Spec
-----------------------------------------------------------------------------
(* The recorded answers are true.  What an answer says stays true, because *)
(* the past is never rewritten and no later event carries its key; what a  *)
(* new one says is true when it is recorded.                               *)

TrueAnswer(used) ==
  \E op, outcome, types :
    /\ op = idem[used].fingerprint[1] /\ outcome = idem[used].outcome
    /\ types = effectsOf(used)
    /\ isTrue(op, outcome, types)

LEMMA TrueAnswers ==
  ASSUME \A used \in DOMAIN idem' : TrueAnswer(used)'
  PROVE  RecordedAnswersAreTrue'
<1> SUFFICES ASSUME NEW used \in DOMAIN idem', NEW a, a = answered(used)'
             PROVE  isTrue(a.op, a.outcome, a.types)'
  BY DEF RecordedAnswersAreTrue
<1>1. PICK op, outcome, types :
        /\ op = (idem[used].fingerprint[1])' /\ outcome = (idem[used].outcome)'
        /\ types = effectsOf(used)'
        /\ isTrue(op, outcome, types)'
  BY DEF TrueAnswer
<1>2. a = [op |-> op, outcome |-> outcome, types |-> types]
  BY <1>1 DEF answered
<1>3. a.op = op /\ a.outcome = outcome /\ a.types = types
  BY <1>2
<1> QED
  BY <1>1, <1>3

LEMMA RegisteredStays ==
  ASSUME PastIsImmutable, NEW col, isRegistered(col)
  PROVE  isRegistered(col)'
BY DEF PastIsImmutable, isRegistered

LEMMA RevisionStays ==
  ASSUME TypeOK, TypeOK', PastIsImmutable, NEW doc, isRevision(doc)
  PROVE  isRevision(doc)'
<1> DEFINE k == documentKey(doc.collection, doc.id)
<1>1. /\ k \in DOMAIN history /\ k \in DOMAIN history'
      /\ Extends(history[k], history'[k])
      /\ doc.version \in DOMAIN history[k]
      /\ SnapshotOf(history[k][doc.version]) = Snapshot(doc)
  BY DEF PastIsImmutable, isRevision
<1>2. history[k] \in Seq(Revision) /\ history'[k] \in Seq(Revision)
  BY <1>1 DEF TypeOK, IsMap
<1> HIDE DEF k
<1>3. doc.version \in DOMAIN history'[k] /\ history'[k][doc.version] = history[k][doc.version]
  BY <1>1, <1>2 DEF Extends
<1> QED
  BY <1>1, <1>3 DEF isRevision, k

LEMMA TruthStays ==
  ASSUME TypeOK, TypeOK', PastIsImmutable, NEW op, NEW outcome, NEW types,
         isTrue(op, outcome, types)
  PROVE  isTrue(op, outcome, types)'
BY RegisteredStays, RevisionStays DEF isTrue

LEMMA EffectsStay ==
  ASSUME NEW m, Appends(m), NEW used,
         \A i \in 1 .. m : audit'[Len(audit) + i].key # used
  PROVE  effectsOf(used)' = effectsOf(used)
<1>1. \A i \in DOMAIN audit' :
        i \in DOMAIN audit
          \/ (i - Len(audit) \in 1 .. m /\ i = Len(audit) + (i - Len(audit)))
  BY DEF Appends
<1>2. DOMAIN audit \subseteq DOMAIN audit' /\ \A i \in DOMAIN audit : audit'[i] = audit[i]
  BY DEF Appends
<1>3. \A i \in DOMAIN audit' : audit'[i].key = used => i \in DOMAIN audit
  BY <1>1
<1>4. EventsOf(used)' = EventsOf(used) /\ EventsOf(used) \subseteq DOMAIN audit
  BY <1>2, <1>3 DEF EventsOf
<1> QED
  BY <1>2, <1>4 DEF effectsOf

(* The effects of a call that uses its key for the first time.             *)
NewEffects(used, m) ==
  {audit'[Len(audit) + i].type : i \in {j \in 1 .. m : audit'[Len(audit) + j].key = used}}

LEMMA EffectsOfFirstUse ==
  ASSUME LoggedOnce, NEW m, Appends(m), NEW used, used # NoKey, used \notin DOMAIN idem
  PROVE  effectsOf(used)' = NewEffects(used, m)
<1>1. \A i \in DOMAIN audit' :
        i \in DOMAIN audit
          \/ (i - Len(audit) \in 1 .. m /\ i = Len(audit) + (i - Len(audit)))
  BY DEF Appends
<1>2. \A i \in DOMAIN audit : audit'[i].key # used
  BY DEF Appends, LoggedOnce
<1>3. \A i \in 1 .. m : Len(audit) + i \in DOMAIN audit'
  BY DEF Appends
<1>4. ASSUME NEW i \in EventsOf(used)'
      PROVE  audit'[i].type \in NewEffects(used, m)
  BY <1>1, <1>2 DEF EventsOf, NewEffects
<1>5. ASSUME NEW t \in NewEffects(used, m)
      PROVE  t \in effectsOf(used)'
  BY <1>3 DEF NewEffects, effectsOf, EventsOf
<1> QED
  BY <1>4, <1>5 DEF effectsOf

LEMMA AnswerStays ==
  ASSUME TypeOK, TypeOK', PastIsImmutable, RecordedAnswersAreTrue, KeepsAnswers,
         NEW m, Appends(m), NEW used \in DOMAIN idem,
         \A i \in 1 .. m : audit'[Len(audit) + i].key # used
  PROVE  TrueAnswer(used)'
<1>1. PICK op, outcome, types :
        op = idem[used].fingerprint[1] /\ outcome = idem[used].outcome /\ types = effectsOf(used)
  OBVIOUS
<1>2. isTrue(op, outcome, types)
  <2>1. PICK a : a = answered(used)
    OBVIOUS
  <2>2. isTrue(a.op, a.outcome, a.types)
    BY <2>1 DEF RecordedAnswersAreTrue
  <2>3. a.op = op /\ a.outcome = outcome /\ a.types = types
    BY <1>1, <2>1 DEF answered
  <2> QED
    BY <2>2, <2>3
<1>3. idem'[used] = idem[used] /\ effectsOf(used)' = effectsOf(used)
  BY EffectsStay DEF KeepsAnswers
<1>4. isTrue(op, outcome, types)'
  BY <1>2, TruthStays
<1> QED
  BY <1>1, <1>3, <1>4 DEF TrueAnswer

LEMMA AnswersGoOn ==
  ASSUME TypeOK, TypeOK', PastIsImmutable, RecordedAnswersAreTrue, LoggedOnce,
         NEW req, FirstUse(req), NEW outcome, Record(req, outcome),
         NEW m, Appends(m),
         \A i \in 1 .. m : audit'[Len(audit) + i].key \in {NoKey, req.key},
         NEW op, op = fingerprint(req)[1], NEW types,
         req.key # NoKey => types = NewEffects(req.key, m) /\ isTrue(op, outcome, types)'
  PROVE  RecordedAnswersAreTrue'
<1>1. /\ KeepsAnswers
      /\ req.key # NoKey => req.key \notin DOMAIN idem
  BY FirstUseRecords
<1>2. NoKey \notin DOMAIN idem
  BY IdentityAssumption DEF TypeOK
<1>3. ASSUME NEW used \in DOMAIN idem
      PROVE  TrueAnswer(used)'
  <2>1. \A i \in 1 .. m : audit'[Len(audit) + i].key # used
    BY <1>1, <1>2
  <2> QED
    BY <1>1, <2>1, AnswerStays
<1>4. ASSUME req.key # NoKey
      PROVE  TrueAnswer(req.key)'
  <2>1. idem'[req.key] = [fingerprint |-> fingerprint(req), outcome |-> outcome]
    BY <1>4 DEF Record, Put
  <2>2. effectsOf(req.key)' = types
    BY <1>1, <1>4, EffectsOfFirstUse
  <2> QED
    BY <1>4, <2>1, <2>2 DEF TrueAnswer
<1>5. \A used \in DOMAIN idem' : used \in DOMAIN idem \/ (req.key # NoKey /\ used = req.key)
  BY DEF Record, Put
<1>6. \A used \in DOMAIN idem' : TrueAnswer(used)'
  BY <1>3, <1>4, <1>5
<1> QED
  BY <1>6, TrueAnswers

(* The operation a fingerprint is of.                                      *)
LEMMA FingerprintOp ==
  /\ \A req \in RegisterRequests : fingerprint(req)[1] = "RegisterCollection"
  /\ \A req \in CreateRequests : fingerprint(req)[1] = "CreateDocument"
  /\ \A req \in UpdateRequests : fingerprint(req)[1] = "UpdateDocument"
  /\ \A req \in BatchRequests : fingerprint(req)[1] = "BatchUpdateDocuments"
  /\ \A req \in AcquireRequests : fingerprint(req)[1] = "AcquireLock"
  /\ \A req \in RenewRequests : fingerprint(req)[1] = "RenewLock"
  /\ \A req \in ReleaseRequests : fingerprint(req)[1] = "ReleaseLock"
<1>1. /\ \A req \in RegisterRequests : req.op = "RegisterCollection"
      /\ \A req \in CreateRequests : req.op = "CreateDocument"
      /\ \A req \in UpdateRequests : req.op = "UpdateDocument"
      /\ \A req \in BatchRequests : req.op = "BatchUpdateDocuments"
      /\ \A req \in AcquireRequests : req.op = "AcquireLock"
      /\ \A req \in RenewRequests : req.op = "RenewLock"
      /\ \A req \in ReleaseRequests : req.op = "ReleaseLock"
  BY RegisterAssumption, DocumentRequestAssumption, LockRequestAssumption
  DEF RegisterRequest, CreateRequest, UpdateRequest, BatchRequest, LeaseRequest,
      ReleaseRequest
<1> QED
  BY <1>1 DEF fingerprint

LEMMA OkFacts ==
  ASSUME NEW v
  PROVE  /\ Ok(v).err = "none" /\ Ok(v).value = v
         /\ v # Nil => Ok(v) # Ok(Nil)
<1>1. \A x : Ok(x).err = "none" /\ Ok(x).value = x
  BY DEF Ok
<1> QED
  BY <1>1

(* A call that logs nothing, and one that logs one event under its key.    *)
LEMMA NoEventAnswers ==
  ASSUME TypeOK, TypeOK', PastIsImmutable, RecordedAnswersAreTrue, LoggedOnce,
         NEW req, FirstUse(req), NEW outcome, Record(req, outcome), audit' = audit,
         NEW op, op = fingerprint(req)[1], isTrue(op, outcome, {})'
  PROVE  RecordedAnswersAreTrue'
<1>1. Appends(0)
  BY DEF TypeOK, Appends
<1>2. NewEffects(req.key, 0) = {}
  BY DEF NewEffects
<1>3. \A i \in 1 .. 0 : audit'[Len(audit) + i].key \in {NoKey, req.key}
  OBVIOUS
<1> QED
  BY <1>1, <1>2, <1>3, AnswersGoOn

LEMMA OneEventAnswers ==
  ASSUME TypeOK, TypeOK', PastIsImmutable, RecordedAnswersAreTrue, LoggedOnce,
         NEW req, FirstUse(req), NEW outcome, Record(req, outcome),
         NEW event, appendAudit(<<event>>), event.key = req.key,
         NEW type, type = event.type,
         NEW op, op = fingerprint(req)[1], isTrue(op, outcome, {type})'
  PROVE  RecordedAnswersAreTrue'
<1>1. Appends(1) /\ SameEvent(audit'[Len(audit) + 1], event)
  BY OneLogged
<1>2. \A i \in 1 .. 1 : i = 1
  OBVIOUS
<1>3. audit'[Len(audit) + 1].key = req.key /\ audit'[Len(audit) + 1].type = type
  BY <1>1 DEF SameEvent
<1>4. \A i \in 1 .. 1 : audit'[Len(audit) + i].key \in {NoKey, req.key}
  BY <1>2, <1>3
<1>5. NewEffects(req.key, 1) = {type}
  BY <1>2, <1>3 DEF NewEffects
<1> QED
  BY <1>1, <1>4, <1>5, AnswersGoOn

LEMMA KeylessAnswers ==
  ASSUME TypeOK, TypeOK', PastIsImmutable, RecordedAnswersAreTrue, idem' = idem,
         NEW m, Appends(m), \A i \in 1 .. m : audit'[Len(audit) + i].key = NoKey
  PROVE  RecordedAnswersAreTrue'
<1>1. NoKey \notin DOMAIN idem
  BY IdentityAssumption DEF TypeOK
<1>2. KeepsAnswers
  BY DEF KeepsAnswers
<1>3. \A used \in DOMAIN idem' : TrueAnswer(used)'
  <2> TAKE used \in DOMAIN idem'
  <2>1. used \in DOMAIN idem /\ \A i \in 1 .. m : audit'[Len(audit) + i].key # used
    BY <1>1
  <2> QED
    BY <1>2, <2>1, AnswerStays
<1> QED
  BY <1>3, TrueAnswers

(* What a success returns is a revision, or a collection, that is there.   *)
LEMMA CurrentIsRevision ==
  ASSUME TypeOK', HistoryIsComplete', DocumentsFiled',
         NEW k, k \in DOMAIN documents', NEW doc, doc = documents'[k]
  PROVE  isRevision(doc)' /\ doc # Nil /\ doc \in Document
<1>1. doc \in Document
  BY DEF TypeOK, IsMap
<1>2. k = documentKey(doc.collection, doc.id)
  BY DEF DocumentsFiled, documentKey
<1>3. /\ k \in DOMAIN history' /\ history'[k] \in Seq(Revision)
      /\ Len(history'[k]) = doc.version
  BY DEF HistoryIsComplete, TypeOK, IsMap
<1>4. doc.version \in DOMAIN history'[k]
  <2>1. doc.version \in Nat \ {0}
    BY <1>1 DEF Document, Version
  <2> QED
    BY <1>3, <2>1
<1>5. SnapshotOf(history'[k][doc.version]) = Snapshot(doc)
  BY <1>3 DEF HistoryIsComplete, SnapshotOf, Snapshot
<1>6. isRevision(doc)'
  BY <1>2, <1>3, <1>4, <1>5 DEF isRevision
<1> QED
  BY <1>1, <1>6, NilAssumption

CollectionsNamed == \A id \in DOMAIN collections : collections[id].id = id

LEMMA OnlyRegisters ==
  ASSUME TypeOK, [Next]_vars
  PROVE  UNCHANGED collections \/ Registers
<1>1. CASE Silent \/ Declines
  BY <1>1 DEF Silent, Declines, stored
<1>2. CASE Creates \/ Updates \/ Rejects \/ Batches
  BY <1>2 DEF Creates, Updates, Rejects, Batches, insert, update, rejectBatch, applyBatch
<1>3. CASE Acquires \/ Prolongs \/ GivesUp \/ reapAll
  <2>1. ASSUME NEW req, NEW k, grant(req, k) \/ renew(req, k) \/ release(req, k)
        PROVE  UNCHANGED collections
    BY <2>1 DEF grant, renew, release
  <2>2. reapAll => UNCHANGED collections
    BY DEF reapAll
  <2> QED
    BY <1>3, <2>1, <2>2 DEF Acquires, Prolongs, GivesUp
<1> QED
  BY <1>1, <1>2, <1>3, StepCases

LEMMA StepNames ==
  ASSUME TypeOK, CollectionsNamed, [Next]_vars
  PROVE  CollectionsNamed'
<1>1. CASE UNCHANGED collections
  BY <1>1 DEF CollectionsNamed
<1>2. CASE Registers
  <2>1. PICK req, id : registerNew(req, id)
    BY <1>2 DEF Registers
  <2> DEFINE col == [id |-> id, name |-> req.name, description |-> req.description,
                     createdAt |-> clock]
  <2>2. collections' = Put(collections, id, col) /\ col.id = id
    BY <2>1 DEF registerNew
  <2> HIDE DEF col
  <2> QED
    BY <2>2 DEF CollectionsNamed, Put
<1> QED
  BY <1>1, <1>2, OnlyRegisters

LEMMA AlwaysNamed == Spec => []CollectionsNamed
<1>1. Init => CollectionsNamed
  BY DEF Init, CollectionsNamed
<1> QED
  BY <1>1, StepNames, TypeCorrect, PTL DEF Spec

(* One lemma for each kind of step.                                        *)
LEMMA DeclineAnswers ==
  ASSUME TypeOK, TypeOK', PastIsImmutable, RecordedAnswersAreTrue, LoggedOnce,
         CollectionsNamed, Declines
  PROVE  RecordedAnswersAreTrue'
<1>1. PICK req, outcome :
        /\ FirstUse(req)
        /\ Record(req, outcome)
        /\ \/ outcome = Ok(Nil)
           \/ outcome.err \notin {"none", "batch_conflict"}
           \/ /\ req \in RegisterRequests
              /\ \E id \in DOMAIN collections : outcome = Ok(collections[id])
        /\ UNCHANGED <<collections, audit>>
  BY DEF Declines
<1>2. PICK op : op = fingerprint(req)[1]
  OBVIOUS
<1>3. isTrue(op, outcome, {})'
  <2>1. CASE outcome = Ok(Nil)
    <3>1. outcome.err = "none"
      BY <2>1, OkFacts
    <3> QED
      BY <2>1, <3>1 DEF isTrue, Ok
  <2>2. CASE outcome.err \notin {"none", "batch_conflict"}
    <3>1. outcome # Ok(Nil)
      BY <2>2, OkFacts
    <3> QED
      BY <2>2, <3>1 DEF isTrue
  <2>3. CASE /\ req \in RegisterRequests
             /\ \E id \in DOMAIN collections : outcome = Ok(collections[id])
    <3>1. PICK id \in DOMAIN collections : outcome = Ok(collections[id])
      BY <2>3
    <3>2. PICK col : col = collections[id]
      OBVIOUS
    <3>3. isRegistered(col)'
      BY <1>1, <3>2 DEF isRegistered, CollectionsNamed
    <3>4. outcome.err = "none" /\ outcome.value = col
      BY <3>1, <3>2, OkFacts
    <3>5. op = "RegisterCollection"
      BY <1>2, <2>3, FingerprintOp
    <3> QED
      BY <3>3, <3>4, <3>5 DEF isTrue
  <2> QED
    BY <1>1, <2>1, <2>2, <2>3
<1> QED
  BY <1>1, <1>2, <1>3, NoEventAnswers

LEMMA RegisterAnswers ==
  ASSUME TypeOK, TypeOK', PastIsImmutable, RecordedAnswersAreTrue, LoggedOnce,
         Registers
  PROVE  RecordedAnswersAreTrue'
<1>1. PICK req, id : req \in RegisterRequests /\ FirstUse(req) /\ registerNew(req, id)
  BY DEF Registers
<1>2. PICK col : col = [id |-> id, name |-> req.name, description |-> req.description,
                        createdAt |-> clock]
  OBVIOUS
<1>3. PICK event : event = Event("collection.created", req.actor, id, NoID, req.key,
                                 [name |-> req.name, description |-> req.description])
  OBVIOUS
<1>4. /\ collections' = Put(collections, id, col) /\ appendAudit(<<event>>)
      /\ Record(req, Ok(col))
  BY <1>1, <1>2, <1>3 DEF registerNew, Return
<1>5. event.key = req.key /\ event.type = "collection.created"
  BY <1>3 DEF Event
<1>6. isRegistered(col)'
  <2>1. col.id = id
    BY <1>2
  <2> QED
    BY <1>4, <2>1 DEF Put, isRegistered
<1>7. PICK op : op = fingerprint(req)[1]
  OBVIOUS
<1>8. isTrue(op, Ok(col), {"collection.created"})'
  <2>1. op = "RegisterCollection"
    BY <1>1, <1>7, FingerprintOp
  <2>2. PICK outcome : outcome = Ok(col)
    OBVIOUS
  <2>3. outcome.err = "none" /\ outcome.value = col
    BY <2>2, OkFacts
  <2>4. outcome # Ok(Nil)
    <3>1. col \in Collection
      BY <1>4 DEF Put, TypeOK, IsMap
    <3> QED
      BY <2>2, <3>1, OkFacts, NilAssumption
  <2>5. isTrue(op, outcome, {"collection.created"})'
    BY <1>6, <2>1, <2>3, <2>4 DEF isTrue, Ok
  <2> QED
    BY <2>2, <2>5
<1> QED
  BY <1>1, <1>4, <1>5, <1>7, <1>8, OneEventAnswers

LEMMA CreateAnswers ==
  ASSUME TypeOK, TypeOK', PastIsImmutable, RecordedAnswersAreTrue, LoggedOnce,
         HistoryIsComplete', DocumentsFiled', Creates
  PROVE  RecordedAnswersAreTrue'
<1>1. PICK req, id : req \in CreateRequests /\ FirstUse(req) /\ insert(req, id)
  BY DEF Creates
<1>2. PICK doc : doc = [id |-> id, collection |-> req.collection, title |-> req.title,
                        content |-> req.content, tags |-> normalizeTags(req.tags),
                        version |-> 1, createdAt |-> clock, updatedAt |-> clock]
  OBVIOUS
<1>3. PICK event : event = Event("document.created", req.actor, req.collection, id,
                                 req.key, [version |-> 1])
  OBVIOUS
<1>4. PICK k : k = documentKey(req.collection, id)
  OBVIOUS
<1>5. /\ documents' = Put(documents, k, doc) /\ appendAudit(<<event>>)
      /\ Record(req, Ok(doc))
  BY <1>1, <1>2, <1>3, <1>4 DEF insert, Return
<1>6. event.key = req.key /\ event.type = "document.created"
  BY <1>3 DEF Event
<1>7. k \in DOMAIN documents' /\ documents'[k] = doc
  BY <1>5 DEF Put
<1>8. isRevision(doc)' /\ doc # Nil
  BY <1>7, CurrentIsRevision
<1>9. PICK op : op = fingerprint(req)[1]
  OBVIOUS
<1>10. isTrue(op, Ok(doc), {"document.created"})'
  <2>1. op = "CreateDocument"
    BY <1>1, <1>9, FingerprintOp
  <2>2. PICK outcome : outcome = Ok(doc)
    OBVIOUS
  <2>3. outcome.err = "none" /\ outcome.value = doc /\ outcome # Ok(Nil)
    BY <1>8, <2>2, OkFacts
  <2>4. isTrue(op, outcome, {"document.created"})'
    BY <1>8, <2>1, <2>3 DEF isTrue, Ok
  <2> QED
    BY <2>2, <2>4
<1> QED
  BY <1>1, <1>5, <1>6, <1>9, <1>10, OneEventAnswers

LEMMA UpdateAnswers ==
  ASSUME TypeOK, TypeOK', PastIsImmutable, RecordedAnswersAreTrue, LoggedOnce,
         HistoryIsComplete', DocumentsFiled', Updates
  PROVE  RecordedAnswersAreTrue'
<1>1. PICK req \in UpdateRequests :
        /\ FirstUse(req)
        /\ lookupError(req.collection, req.document) = "none"
        /\ update(req)
  BY DEF Updates
<1>2. PICK k : k = documentKey(req.collection, req.document)
  OBVIOUS
<1>3. PICK doc : doc = documents'[k]
  OBVIOUS
<1>4. PICK event : event = updatedEvent(req, req, req.key, FALSE)
  OBVIOUS
<1>5. appendAudit(<<event>>) /\ Record(req, Ok(doc))
  BY <1>1, <1>2, <1>3, <1>4 DEF update, Return
<1>6. event.key = req.key /\ event.type = "document.updated"
  BY <1>4 DEF updatedEvent, Event
<1>7. k \in DOMAIN documents'
  <2>1. k \in DOMAIN documents
    BY <1>1, <1>2, LookupFinds
  <2> QED
    BY <1>1, <2>1 DEF update, applyUpdates
<1>8. isRevision(doc)' /\ doc # Nil
  BY <1>3, <1>7, CurrentIsRevision
<1>9. PICK op : op = fingerprint(req)[1]
  OBVIOUS
<1>10. isTrue(op, Ok(doc), {"document.updated"})'
  <2>1. op = "UpdateDocument"
    BY <1>1, <1>9, FingerprintOp
  <2>2. PICK outcome : outcome = Ok(doc)
    OBVIOUS
  <2>3. outcome.err = "none" /\ outcome.value = doc /\ outcome # Ok(Nil)
    BY <1>8, <2>2, OkFacts
  <2>4. isTrue(op, outcome, {"document.updated"})'
    BY <1>8, <2>1, <2>3 DEF isTrue, Ok
  <2> QED
    BY <2>2, <2>4
<1> QED
  BY <1>1, <1>5, <1>6, <1>9, <1>10, OneEventAnswers

LEMMA RejectAnswers ==
  ASSUME TypeOK, TypeOK', PastIsImmutable, RecordedAnswersAreTrue, LoggedOnce,
         Rejects
  PROVE  RecordedAnswersAreTrue'
<1>1. PICK req \in BatchRequests : FirstUse(req) /\ rejectBatch(req)
  BY DEF Rejects
<1>2. PICK event : event = Event("document.batch_rejected", req.actor, req.collection,
                                 NoID, req.key,
                                 [items |-> Len(req.items),
                                  failures |-> Cardinality(failing(req))])
  OBVIOUS
<1>3. event.key = req.key /\ event.type = "document.batch_rejected"
  BY <1>2 DEF Event
<1>4. PICK outcome : outcome.err = "batch_conflict" /\ Record(req, outcome)
  BY <1>1 DEF rejectBatch, Return
<1>5. appendAudit(<<event>>)
  BY <1>1, <1>2 DEF rejectBatch
<1>6. PICK op : op = fingerprint(req)[1]
  OBVIOUS
<1>7. outcome # Ok(Nil)
  BY <1>4, OkFacts
<1>8. isTrue(op, outcome, {"document.batch_rejected"})'
  BY <1>4, <1>7 DEF isTrue
<1> QED
  BY <1>1, <1>3, <1>4, <1>5, <1>6, <1>8, OneEventAnswers

(* The items of an applied batch are logged without its key, which only    *)
(* its last event carries.                                                 *)
LEMMA BatchKeys ==
  ASSUME TypeOK, TypeOK', NEW req \in BatchRequests, applyBatch(req), req.key # NoKey,
         NEW n, n = Len(req.items)
  PROVE  /\ Appends(n + 1)
         /\ \A i \in 1 .. n + 1 : audit'[Len(audit) + i].key \in {NoKey, req.key}
         /\ NewEffects(req.key, n + 1) = {"document.batch_applied"}
<1>1. /\ n \in Nat
      /\ Appends(n + 1)
      /\ \A i \in 1 .. n : SameEvent(audit'[Len(audit) + i],
                                     updatedEvent(req, req.items[i], NoKey, TRUE))
      /\ SameEvent(audit'[Len(audit) + (n + 1)],
                   Event("document.batch_applied", req.actor, req.collection,
                         NoID, req.key, [items |-> n]))
  BY BatchLogged
<1>2. \A i \in 1 .. n : audit'[Len(audit) + i].key = NoKey
  <2> TAKE i \in 1 .. n
  <2>1. updatedEvent(req, req.items[i], NoKey, TRUE).key = NoKey
    BY EventFields DEF updatedEvent
  <2> QED
    BY <1>1, <2>1 DEF SameEvent
<1>3. /\ audit'[Len(audit) + (n + 1)].key = req.key
      /\ audit'[Len(audit) + (n + 1)].type = "document.batch_applied"
  BY <1>1 DEF SameEvent, Event
<1>4. \A i \in 1 .. n + 1 : i \in 1 .. n \/ i = n + 1
  BY <1>1
<1>5. n + 1 \in 1 .. n + 1
  BY <1>1
<1>6. {j \in 1 .. n + 1 : audit'[Len(audit) + j].key = req.key} = {n + 1}
  BY <1>2, <1>3, <1>4, <1>5
<1>7. NewEffects(req.key, n + 1) = {"document.batch_applied"}
  BY <1>3, <1>6 DEF NewEffects
<1>8. \A i \in 1 .. n + 1 : audit'[Len(audit) + i].key \in {NoKey, req.key}
  BY <1>2, <1>3, <1>4
<1> QED
  BY <1>1, <1>7, <1>8

LEMMA BatchIsTrue ==
  ASSUME TypeOK, TypeOK', HistoryIsComplete', DocumentsFiled',
         NEW req \in BatchRequests, failing(req) = {}, applyBatch(req),
         NEW result,
         result = [applied |-> TRUE,
                   results |-> [i \in 1 .. Len(req.items) |-> documents'[itemKey(req, i)]]]
  PROVE  isTrue("BatchUpdateDocuments", Ok(result), {"document.batch_applied"})'
<1>1. PICK n : n = Len(req.items) /\ n \in Nat
  BY DocumentRequestAssumption DEF BatchRequest
<1>2. PICK patches : /\ DOMAIN patches = {itemKey(req, i) : i \in 1 .. n}
                     /\ DOMAIN patches \subseteq DOMAIN documents
                     /\ applyUpdates(req.actor, patches)
  BY <1>1, BatchPatches
<1>3. DOMAIN documents' = DOMAIN documents
  BY <1>2 DEF applyUpdates
<1>4. PICK results : results = [i \in 1 .. n |-> documents'[itemKey(req, i)]]
  OBVIOUS
<1>5. ASSUME NEW i \in 1 .. n
      PROVE  isRevision(results[i])' /\ results[i] \in Document
  <2>1. PICK k : k = itemKey(req, i)
    OBVIOUS
  <2>2. k \in DOMAIN documents' /\ results[i] = documents'[k]
    BY <1>2, <1>3, <1>4, <2>1
  <2>3. PICK doc : doc = results[i]
    OBVIOUS
  <2>4. isRevision(doc)' /\ doc \in Document
    BY <2>2, <2>3, CurrentIsRevision
  <2> QED
    BY <2>3, <2>4
<1>6. DOMAIN results = 1 .. n /\ results \in [1 .. n -> Document]
  BY <1>4, <1>5
<1>7. results \in Seq(Document)
  BY <1>1, <1>6, FunctionIsSequence
<1>8. result = [applied |-> TRUE, results |-> results]
  BY <1>1, <1>4
<1>9. result # Nil
  <2>1. result \in BatchResult
    BY <1>7, <1>8 DEF BatchResult
  <2> QED
    BY <2>1, NilAssumption
<1>10. PICK outcome : outcome = Ok(result)
  OBVIOUS
<1>11. /\ outcome.err = "none" /\ outcome.value = result /\ outcome # Ok(Nil)
       /\ outcome.value.results = results
  <2>1. result.results = results
    BY <1>8
  <2>2. outcome.err = "none" /\ outcome.value = result /\ outcome # Ok(Nil)
    BY <1>9, <1>10, OkFacts
  <2> QED
    BY <2>1, <2>2
<1>12. \A i \in DOMAIN outcome.value.results : isRevision(outcome.value.results[i])'
  BY <1>5, <1>6, <1>11
<1>13. isTrue("BatchUpdateDocuments", outcome, {"document.batch_applied"})'
  BY <1>11, <1>12 DEF isTrue, Ok
<1> QED
  BY <1>10, <1>13

LEMMA BatchAnswers ==
  ASSUME TypeOK, TypeOK', PastIsImmutable, RecordedAnswersAreTrue, LoggedOnce,
         HistoryIsComplete', DocumentsFiled', Batches
  PROVE  RecordedAnswersAreTrue'
<1>1. PICK req \in BatchRequests : FirstUse(req) /\ failing(req) = {} /\ applyBatch(req)
  BY DEF Batches
<1>2. PICK n, result :
        /\ n = Len(req.items)
        /\ result = [applied |-> TRUE,
                     results |-> [i \in 1 .. n |-> documents'[itemKey(req, i)]]]
  OBVIOUS
<1>3. Record(req, Ok(result))
  BY <1>1, <1>2 DEF applyBatch, Return
<1>4. isTrue("BatchUpdateDocuments", Ok(result), {"document.batch_applied"})'
  BY <1>1, <1>2, BatchIsTrue
<1>5. fingerprint(req)[1] = "BatchUpdateDocuments"
  BY <1>1, FingerprintOp
<1>6. CASE req.key # NoKey
  BY <1>1, <1>2, <1>3, <1>4, <1>5, <1>6, BatchKeys, AnswersGoOn
<1>7. CASE req.key = NoKey
  <2>1. /\ n \in Nat
        /\ Appends(n + 1)
        /\ \A i \in 1 .. n : SameEvent(audit'[Len(audit) + i],
                                       updatedEvent(req, req.items[i], NoKey, TRUE))
        /\ SameEvent(audit'[Len(audit) + (n + 1)],
                     Event("document.batch_applied", req.actor, req.collection,
                           NoID, req.key, [items |-> n]))
    BY <1>1, <1>2, BatchLogged
  <2>2. \A i \in 1 .. n : updatedEvent(req, req.items[i], NoKey, TRUE).key = NoKey
    BY EventFields DEF updatedEvent
  <2>3. audit'[Len(audit) + (n + 1)].key = NoKey
    BY <1>7, <2>1 DEF SameEvent, Event
  <2>4. \A i \in 1 .. n + 1 : i \in 1 .. n \/ i = n + 1
    BY <2>1
  <2>5. \A i \in 1 .. n + 1 : audit'[Len(audit) + i].key = NoKey
    BY <2>1, <2>2, <2>3, <2>4 DEF SameEvent
  <2>6. idem' = idem
    BY <1>3, <1>7 DEF Record
  <2> QED
    BY <2>1, <2>5, <2>6, KeylessAnswers
<1> QED
  BY <1>6, <1>7

LEMMA LockAnswers ==
  ASSUME TypeOK, TypeOK', PastIsImmutable, RecordedAnswersAreTrue, LoggedOnce,
         Acquires \/ Prolongs
  PROVE  RecordedAnswersAreTrue'
<1>1. PICK req, k :
        /\ FirstUse(req)
        /\ \/ req \in AcquireRequests /\ grant(req, k)
           \/ req \in AcquireRequests \cup RenewRequests /\ renew(req, k)
  BY DEF Acquires, Prolongs
<1>2. PICK lock, type, details :
        /\ \/ type = "lock.acquired" /\ req \in AcquireRequests
           \/ type = "lock.renewed" /\ req \in AcquireRequests \cup RenewRequests
        /\ locks' = Put(locks, k, lock)
        /\ appendAudit(<<lockEvent(type, req, details)>>)
        /\ Return(req, Ok(lock))
  BY <1>1 DEF grant, renew
<1>3. lock # Nil
  <2>1. k \in DOMAIN locks' /\ locks'[k] = lock
    BY <1>2 DEF Put
  <2> QED
    BY <2>1, NilAssumption DEF TypeOK, IsMap
<1>4. PICK event : event = lockEvent(type, req, details)
  OBVIOUS
<1>5. event.key = req.key /\ event.type = type
  BY <1>4 DEF lockEvent, Event
<1>6. PICK op : op = fingerprint(req)[1]
  OBVIOUS
<1>7. \/ op = "AcquireLock" /\ type \in {"lock.acquired", "lock.renewed"}
      \/ op = "RenewLock" /\ type = "lock.renewed"
  BY <1>2, <1>6, FingerprintOp
<1>8. PICK outcome : outcome = Ok(lock)
  OBVIOUS
<1>9. outcome.err = "none" /\ outcome # Ok(Nil)
  BY <1>3, <1>8, OkFacts
<1>10. isTrue(op, outcome, {type})'
  BY <1>7, <1>9 DEF isTrue
<1> QED
  BY <1>1, <1>2, <1>4, <1>5, <1>6, <1>8, <1>10, OneEventAnswers DEF Return

LEMMA ReleaseAnswers ==
  ASSUME TypeOK, TypeOK', PastIsImmutable, RecordedAnswersAreTrue, LoggedOnce,
         GivesUp
  PROVE  RecordedAnswersAreTrue'
<1>1. PICK req, k : FirstUse(req) /\ release(req, k)
  BY DEF GivesUp
<1>2. PICK details : appendAudit(<<lockEvent("lock.released", req, details)>>)
  BY <1>1 DEF release
<1>3. PICK event : event = lockEvent("lock.released", req, details)
  OBVIOUS
<1>4. event.key = req.key /\ event.type = "lock.released"
  BY <1>3 DEF lockEvent, Event
<1>5. PICK outcome : outcome = Ok(Nil)
  OBVIOUS
<1>6. Record(req, outcome) /\ outcome.err = "none"
  BY <1>1, <1>5, OkFacts DEF release, Return
<1>7. PICK op : op = fingerprint(req)[1]
  OBVIOUS
<1>8. isTrue(op, outcome, {"lock.released"})'
  BY <1>5, <1>6 DEF isTrue, Ok
<1> QED
  BY <1>1, <1>2, <1>3, <1>4, <1>6, <1>7, <1>8, OneEventAnswers

LEMMA ReapAnswers ==
  ASSUME TypeOK, TypeOK', PastIsImmutable, RecordedAnswersAreTrue, reapAll
  PROVE  RecordedAnswersAreTrue'
<1>1. PICK m, order : LogsReaped(m, order)
  BY ReapLogged
<1>2. \A i \in 1 .. m : audit'[Len(audit) + i].key = NoKey
  <2> TAKE i \in 1 .. m
  <2>1. reapedEvent(order[i]).key = NoKey
    BY EventFields DEF reapedEvent
  <2> QED
    BY <1>1, <2>1 DEF LogsReaped, SameEvent
<1>3. Appends(m) /\ idem' = idem
  BY <1>1 DEF LogsReaped, reapAll
<1> QED
  BY <1>2, <1>3, KeylessAnswers

LEMMA SilentAnswers ==
  ASSUME TypeOK, TypeOK', PastIsImmutable, RecordedAnswersAreTrue, Silent
  PROVE  RecordedAnswersAreTrue'
<1>1. idem' = idem /\ audit' = audit
  BY DEF Silent, stored
<1>2. Appends(0)
  BY <1>1 DEF TypeOK, Appends
<1>3. \A i \in 1 .. 0 : audit'[Len(audit) + i].key = NoKey
  OBVIOUS
<1> QED
  BY <1>1, <1>2, <1>3, KeylessAnswers

(* A recorded answer is the truth about the call it was recorded for.      *)
THEOREM AnswersAreTrue == Spec => []RecordedAnswersAreTrue
<1>1. Init => RecordedAnswersAreTrue
  BY DEF Init, RecordedAnswersAreTrue
<1>2. TypeOK /\ TypeOK' /\ HistoryIsComplete /\ HistoryIsComplete' /\ DocumentsFiled'
        /\ CollectionsNamed /\ LoggedOnce /\ RecordedAnswersAreTrue /\ [Next]_vars
        => RecordedAnswersAreTrue'
  <2> SUFFICES ASSUME TypeOK, TypeOK', HistoryIsComplete, HistoryIsComplete',
                      DocumentsFiled', CollectionsNamed, LoggedOnce,
                      RecordedAnswersAreTrue, [Next]_vars
               PROVE  RecordedAnswersAreTrue'
    OBVIOUS
  <2>1. PastIsImmutable
    BY StepExtendsAudit, StepExtendsHistory, StepKeepsCollections DEF PastIsImmutable
  <2> QED
    BY <2>1, StepCases, SilentAnswers, DeclineAnswers, RegisterAnswers, CreateAnswers,
       UpdateAnswers, RejectAnswers, BatchAnswers, LockAnswers, ReleaseAnswers,
       ReapAnswers
<1> QED
  BY <1>1, <1>2, TypeCorrect, HistoryComplete, AlwaysFiled, AlwaysNamed,
     AlwaysLoggedOnce, PTL DEF Spec
=============================================================================
