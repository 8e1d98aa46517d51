--------------------------- MODULE ServiceProofs ----------------------------
(***************************************************************************)
(* The state of the service, for every value of the constants.             *)
(*                                                                         *)
(* The records of the past: the revision histories are complete, the log   *)
(* is ordered, the past is never rewritten, an answer is final and a key   *)
(* takes effect at most once.                                              *)
(*                                                                         *)
(* The edit locks: nobody loses a lease to another client, the locks       *)
(* implement the abstract lease table, and a call that is answered with an *)
(* error changes no document, no history, no collection and no lease in    *)
(* force.                                                                  *)
(***************************************************************************)
EXTENDS TypeProofs

(* The two ways a step touches documents and histories: a creation under a *)
(* key that is free, and an update of documents that exist.                *)
Inserts ==
  \E req \in CreateRequests : \E id \in NewIDs(req.id) :
    /\ collectionExists(req.collection)
    /\ documentKey(req.collection, id) \notin DOMAIN documents
    /\ insert(req, id)

Applies ==
  \E actor \in Actor : \E patches :
    /\ DOMAIN patches \subseteq DOMAIN documents
    /\ \A k \in DOMAIN patches : IsPatch(patches[k])
    /\ applyUpdates(actor, patches)
    /\ UNCHANGED collections

LEMMA ReturnsLeaveStored ==
  ASSUME NEW req, NEW malformed, NEW err,
         TurnAway(malformed) \/ Replay(req) \/ Refuse(req, err) \/ Panic(req)
  PROVE  UNCHANGED stored
BY DEF TurnAway, Replay, Refuse, Panic

LEMMA UpdateApplies ==
  ASSUME TypeOK, NEW req \in UpdateRequests,
         lookupError(req.collection, req.document) = "none", update(req)
  PROVE  Applies
<1> DEFINE key == documentKey(req.collection, req.document)
           patches == [k \in {key} |-> req]
<1>1. req.actor \in Actor /\ IsPatch(req)
  BY DocumentRequestAssumption DEF UpdateRequest, IsPatch
<1>2. key \in DOMAIN documents
  BY LookupFinds
<1>3. /\ DOMAIN patches \subseteq DOMAIN documents
      /\ \A k \in DOMAIN patches : IsPatch(patches[k])
      /\ applyUpdates(req.actor, patches)
      /\ UNCHANGED collections
  BY <1>1, <1>2 DEF update
<1> HIDE DEF patches
<1> QED
  BY <1>1, <1>3 DEF Applies

LEMMA BatchApplies ==
  ASSUME TypeOK, NEW req \in BatchRequests, failing(req) = {}, applyBatch(req)
  PROVE  Applies
<1>1. req.actor \in Actor
  BY DocumentRequestAssumption DEF BatchRequest
<1>2. UNCHANGED collections
  BY DEF applyBatch
<1> QED
  BY <1>1, <1>2, BatchPatches DEF Applies

LEMMA DocumentSteps ==
  ASSUME TypeOK, [Next]_vars
  PROVE  UNCHANGED <<documents, history>> \/ Inserts \/ Applies
<1>1. CASE Tick \/ UNCHANGED vars
  BY <1>1 DEF Tick, vars, stored
<1>2. CASE \E req \in RegisterRequests : RegisterCollection(req)
  <2> PICK req \in RegisterRequests : RegisterCollection(req)
    BY <1>2
  <2>1. CASE UNCHANGED stored
    BY <2>1 DEF stored
  <2>2. CASE \E id \in NewIDs(req.id) : returnExisting(req, id) \/ registerNew(req, id)
    BY <2>2 DEF returnExisting, registerNew, stored
  <2> QED
    BY <2>1, <2>2, ReturnsLeaveStored DEF RegisterCollection
<1>3. CASE \E req \in CreateRequests : CreateDocument(req)
  <2> PICK req \in CreateRequests : CreateDocument(req)
    BY <1>3
  <2>1. CASE UNCHANGED stored
    BY <2>1 DEF stored
  <2>2. CASE \E id \in NewIDs(req.id) :
               /\ collectionExists(req.collection)
               /\ ~ documentExists(documentKey(req.collection, id))
               /\ insert(req, id)
    BY <2>2 DEF Inserts, documentExists
  <2> QED
    BY <2>1, <2>2, ReturnsLeaveStored DEF CreateDocument
<1>4. CASE \E req \in UpdateRequests : UpdateDocument(req)
  <2> PICK req \in UpdateRequests : UpdateDocument(req)
    BY <1>4
  <2>1. CASE UNCHANGED stored
    BY <2>1 DEF stored
  <2>2. CASE lookupError(req.collection, req.document) = "none" /\ update(req)
    BY <2>2, UpdateApplies
  <2> QED
    BY <2>1, <2>2, ReturnsLeaveStored DEF UpdateDocument
<1>5. CASE \E req \in BatchRequests : BatchUpdateDocuments(req)
  <2> PICK req \in BatchRequests : BatchUpdateDocuments(req)
    BY <1>5
  <2>1. CASE UNCHANGED stored
    BY <2>1 DEF stored
  <2>2. CASE rejectBatch(req)
    BY <2>2 DEF rejectBatch
  <2>3. CASE failing(req) = {} /\ applyBatch(req)
    BY <2>3, BatchApplies
  <2> QED
    BY <2>1, <2>2, <2>3, ReturnsLeaveStored DEF BatchUpdateDocuments
<1>6. CASE \/ \E req \in AcquireRequests : AcquireLock(req)
           \/ \E req \in RenewRequests : RenewLock(req)
           \/ \E req \in ReleaseRequests : ReleaseLock(req)
  <2>1. CASE UNCHANGED stored
    BY <2>1 DEF stored
  <2>2. ASSUME NEW req, NEW key,
               \/ lockConflict(req, key) \/ notHeld(req, key) \/ renew(req, key)
               \/ grant(req, key) \/ release(req, key)
        PROVE  UNCHANGED <<documents, history>>
    BY <2>2 DEF lockConflict, notHeld, renew, grant, release, Refuse, stored
  <2> QED
    BY <1>6, <2>1, <2>2, ReturnsLeaveStored DEF AcquireLock, RenewLock, ReleaseLock
<1>7. CASE ReapExpiredLocks
  BY <1>7 DEF ReapExpiredLocks, reapAll, TurnAway, stored
<1> QED
  BY <1>1, <1>2, <1>3, <1>4, <1>5, <1>6, <1>7 DEF Next
-----------------------------------------------------------------------------
(* Completeness is inductive on its own, given the types.                  *)

CompleteAt(k) ==
  /\ Len(history[k]) = documents[k].version
  /\ \A v \in 1 .. Len(history[k]) : history[k][v].version = v
  /\ SnapshotOf(history[k][Len(history[k])]) = Snapshot(documents[k])

LEMMA RevisionSnapshot ==
  ASSUME NEW doc, doc.updatedAt = clock, NEW actor, NEW reason
  PROVE  /\ SnapshotOf(revision(doc, actor, reason)) = Snapshot(doc)
         /\ revision(doc, actor, reason).version = doc.version
BY DEF SnapshotOf, Snapshot, revision

LEMMA InsertsKeepHistory ==
  ASSUME TypeOK, HistoryIsComplete, Inserts
  PROVE  HistoryIsComplete'
<1> PICK req \in CreateRequests : \E id \in NewIDs(req.id) :
       /\ documentKey(req.collection, id) \notin DOMAIN documents
       /\ insert(req, id)
  BY DEF Inserts
<1> PICK id \in NewIDs(req.id) :
       /\ documentKey(req.collection, id) \notin DOMAIN documents
       /\ insert(req, id)
  OBVIOUS
<1> DEFINE key == documentKey(req.collection, id)
           doc == [id |-> id, collection |-> req.collection, title |-> req.title,
                   content |-> req.content, tags |-> normalizeTags(req.tags),
                   version |-> 1, createdAt |-> clock, updatedAt |-> clock]
           rev == revision(doc, req.actor, Empty)
<1>1. key \notin DOMAIN history
  BY DEF HistoryIsComplete
<1>2. /\ documents' = Put(documents, key, doc)
      /\ history' = Put(history, key, Append(<<>>, rev))
  BY <1>1 DEF insert
<1>3. /\ SnapshotOf(rev) = Snapshot(doc)
      /\ rev.version = 1
  BY DEF SnapshotOf, Snapshot, revision
<1>4. doc.version = 1
  OBVIOUS
<1> HIDE DEF doc, rev, key
<1>5. /\ DOMAIN documents' = DOMAIN documents \cup {key}
      /\ DOMAIN history' = DOMAIN history \cup {key}
      /\ documents'[key] = doc
      /\ history'[key] = Append(<<>>, rev)
      /\ \A k \in DOMAIN documents :
           documents'[k] = documents[k] /\ history'[k] = history[k]
  BY <1>1, <1>2 DEF Put, HistoryIsComplete, key
<1>6. Len(Append(<<>>, rev)) = 1 /\ Append(<<>>, rev)[1] = rev
  OBVIOUS
<1>7. CompleteAt(key)'
  BY <1>3, <1>4, <1>5, <1>6 DEF CompleteAt, Snapshot, SnapshotOf
<1>8. \A k \in DOMAIN documents : CompleteAt(k)'
  BY <1>5 DEF HistoryIsComplete, CompleteAt, Snapshot, SnapshotOf
<1> QED
  BY <1>5, <1>7, <1>8 DEF HistoryIsComplete, CompleteAt

LEMMA AppliesKeepHistory ==
  ASSUME TypeOK, HistoryIsComplete, Applies
  PROVE  HistoryIsComplete'
<1> PICK actor, patches :
       /\ actor \in Actor
       /\ DOMAIN patches \subseteq DOMAIN documents
       /\ \A k \in DOMAIN patches : IsPatch(patches[k])
       /\ applyUpdates(actor, patches)
  BY DEF Applies
<1>1. /\ DOMAIN documents' = DOMAIN documents
      /\ DOMAIN history' = DOMAIN history
      /\ \A k \in DOMAIN patches :
           documents'[k] = updated(documents[k], patches[k])
      /\ \A k \in DOMAIN documents \ DOMAIN patches : documents'[k] = documents[k]
      /\ \A k \in DOMAIN patches \cap DOMAIN history :
           history'[k] = Append(history[k],
                           revision(documents'[k], actor, patches[k].reason))
      /\ \A k \in DOMAIN history \ DOMAIN patches : history'[k] = history[k]
  BY ApplyUpdatesType
<1>2. ASSUME NEW k \in DOMAIN patches
      PROVE  CompleteAt(k)'
  <2> DEFINE rev == revision(documents'[k], actor, patches[k].reason)
  <2>1. /\ k \in DOMAIN documents /\ k \in DOMAIN history
        /\ documents[k] \in Document /\ history[k] \in Seq(Revision)
        /\ CompleteAt(k)
    BY DEF TypeOK, IsMap, HistoryIsComplete, CompleteAt
  <2>2. /\ documents'[k].version = documents[k].version + 1
        /\ documents'[k].updatedAt = clock
        /\ documents'[k] \in Document
    BY <1>1, <2>1, UpdatedType DEF TypeOK
  <2>3. SnapshotOf(rev) = Snapshot(documents'[k]) /\ rev.version = documents'[k].version
    BY <2>2, RevisionSnapshot
  <2>4. rev \in Revision
    BY <2>2, RevisionType DEF TypeOK, IsPatch
  <2> HIDE DEF rev
  <2>5. history'[k] = Append(history[k], rev)
    BY <1>1, <2>1 DEF rev
  <2>6. /\ Len(history'[k]) = Len(history[k]) + 1
        /\ history'[k][Len(history[k]) + 1] = rev
        /\ \A v \in 1 .. Len(history[k]) : history'[k][v] = history[k][v]
        /\ Len(history[k]) \in Nat
    BY <2>1, <2>4, <2>5, AppendProperties
  <2>7. Len(history'[k]) = documents'[k].version
    BY <2>1, <2>2, <2>6 DEF CompleteAt
  <2>8. \A v \in 1 .. Len(history'[k]) : history'[k][v].version = v
    <3>1. rev.version = Len(history[k]) + 1
      BY <2>2, <2>3, <2>6, <2>7
    <3>2. \A v \in 1 .. Len(history[k]) : history[k][v].version = v
      BY <2>1 DEF CompleteAt
    <3>3. \A v \in 1 .. Len(history'[k]) :
            v \in 1 .. Len(history[k]) \/ v = Len(history[k]) + 1
      BY <2>6
    <3> QED
      BY <2>6, <3>1, <3>2, <3>3
  <2> QED
    BY <2>3, <2>6, <2>7, <2>8 DEF CompleteAt, Snapshot, SnapshotOf
<1>3. ASSUME NEW k \in DOMAIN documents \ DOMAIN patches
      PROVE  CompleteAt(k)'
  BY <1>1 DEF HistoryIsComplete, CompleteAt, Snapshot, SnapshotOf
<1> QED
  BY <1>1, <1>2, <1>3 DEF HistoryIsComplete, CompleteAt

(* Every document has one revision for each of its versions, numbered      *)
(* without a gap, and the last one is its current state.                   *)
THEOREM HistoryComplete == Spec => []HistoryIsComplete
<1>1. Init => HistoryIsComplete
  BY DEF Init, HistoryIsComplete
<1>2. TypeOK /\ HistoryIsComplete /\ [Next]_vars => HistoryIsComplete'
  <2> SUFFICES ASSUME TypeOK, HistoryIsComplete, [Next]_vars
               PROVE  HistoryIsComplete'
    OBVIOUS
  <2>1. CASE UNCHANGED <<documents, history>>
    BY <2>1 DEF HistoryIsComplete, Snapshot, SnapshotOf
  <2> QED
    BY <2>1, DocumentSteps, InsertsKeepHistory, AppliesKeepHistory
<1> QED
  BY <1>1, <1>2, TypeCorrect, PTL DEF Spec
-----------------------------------------------------------------------------
(* Listing.  A document is filed under the key of its collection and its   *)
(* identifier, in a collection that is there.                              *)

LEMMA StepKeepsCollections ==
  ASSUME [Next]_vars
  PROVE  \A id \in DOMAIN collections :
           id \in DOMAIN collections' /\ collections'[id] = collections[id]
<1>1. CASE UNCHANGED collections
  BY <1>1
<1>2. ASSUME NEW req, NEW id, ~ collectionExists(id), registerNew(req, id)
      PROVE  \A x \in DOMAIN collections :
               x \in DOMAIN collections' /\ collections'[x] = collections[x]
  BY <1>2 DEF registerNew, Put, collectionExists
<1>3. ASSUME NEW req, NEW malformed, NEW err,
             TurnAway(malformed) \/ Replay(req) \/ Refuse(req, err) \/ Panic(req)
      PROVE  UNCHANGED collections
  BY <1>3, ReturnsLeaveStored DEF stored
<1>4. CASE Tick \/ UNCHANGED vars
  BY <1>1, <1>4 DEF Tick, vars, stored
<1>5. CASE \E req \in RegisterRequests : RegisterCollection(req)
  BY <1>1, <1>2, <1>3, <1>5 DEF RegisterCollection, returnExisting, stored
<1>6. CASE \E req \in CreateRequests : CreateDocument(req)
  BY <1>1, <1>3, <1>6 DEF CreateDocument, insert
<1>7. CASE \E req \in UpdateRequests : UpdateDocument(req)
  BY <1>1, <1>3, <1>7 DEF UpdateDocument, update
<1>8. CASE \E req \in BatchRequests : BatchUpdateDocuments(req)
  BY <1>1, <1>3, <1>8 DEF BatchUpdateDocuments, rejectBatch, applyBatch
<1>9. CASE \/ \E req \in AcquireRequests : AcquireLock(req)
           \/ \E req \in RenewRequests : RenewLock(req)
           \/ \E req \in ReleaseRequests : ReleaseLock(req)
  <2>1. ASSUME NEW req, NEW key,
               \/ lockConflict(req, key) \/ notHeld(req, key) \/ renew(req, key)
               \/ grant(req, key) \/ release(req, key)
        PROVE  UNCHANGED collections
    BY <2>1, <1>3 DEF lockConflict, notHeld, renew, grant, release
  <2> QED
    BY <1>1, <1>3, <1>9, <2>1 DEF AcquireLock, RenewLock, ReleaseLock
<1>10. CASE ReapExpiredLocks
  BY <1>1, <1>3, <1>10 DEF ReapExpiredLocks, reapAll
<1> QED
  BY <1>4, <1>5, <1>6, <1>7, <1>8, <1>9, <1>10 DEF Next

DocumentsFiled ==
  \A k \in DOMAIN documents :
    /\ documents[k].collection \in DOMAIN collections
    /\ k = documentKey(documents[k].collection, documents[k].id)

LEMMA StepFiles ==
  ASSUME TypeOK, DocumentsFiled, [Next]_vars
  PROVE  DocumentsFiled'
<1>1. \A id \in DOMAIN collections : id \in DOMAIN collections'
  BY StepKeepsCollections
<1>2. CASE UNCHANGED documents
  BY <1>1, <1>2 DEF DocumentsFiled, documentKey
<1>3. CASE Inserts
  <2> PICK req, id : /\ collectionExists(req.collection)
                     /\ documentKey(req.collection, id) \notin DOMAIN documents
                     /\ insert(req, id)
    BY <1>3 DEF Inserts
  <2> DEFINE key == documentKey(req.collection, id)
             doc == [id |-> id, collection |-> req.collection, title |-> req.title,
                     content |-> req.content, tags |-> normalizeTags(req.tags),
                     version |-> 1, createdAt |-> clock, updatedAt |-> clock]
  <2>1. documents' = Put(documents, key, doc)
    BY DEF insert
  <2>2. doc.id = id /\ doc.collection = req.collection
    OBVIOUS
  <2> HIDE DEF doc
  <2>3. /\ DOMAIN documents' = DOMAIN documents \cup {key}
        /\ documents'[key] = doc
        /\ \A k \in DOMAIN documents : documents'[k] = documents[k]
    BY <2>1 DEF Put
  <2> QED
    BY <1>1, <2>2, <2>3 DEF DocumentsFiled, collectionExists, documentKey
<1>4. CASE Applies
  <2> PICK actor, patches :
         /\ actor \in Actor
         /\ DOMAIN patches \subseteq DOMAIN documents
         /\ \A k \in DOMAIN patches : IsPatch(patches[k])
         /\ applyUpdates(actor, patches)
    BY <1>4 DEF Applies
  <2>1. /\ DOMAIN documents' = DOMAIN documents
        /\ \A k \in DOMAIN patches :
             documents'[k] = updated(documents[k], patches[k])
        /\ \A k \in DOMAIN documents \ DOMAIN patches : documents'[k] = documents[k]
    BY ApplyUpdatesType
  <2>2. \A k \in DOMAIN documents : /\ documents'[k].id = documents[k].id
                                    /\ documents'[k].collection = documents[k].collection
    BY <2>1, UpdatedType DEF TypeOK, IsMap
  <2> QED
    BY <1>1, <2>1, <2>2 DEF DocumentsFiled, documentKey
<1> QED
  BY <1>2, <1>3, <1>4, DocumentSteps

(* A collection that is there has one segment, so the key of one of its    *)
(* documents begins with it.                                               *)
LEMMA KeyOfCollection ==
  ASSUME CollectionsAreSlashFree, TypeOK, NEW c \in DOMAIN collections, NEW d \in ID
  PROVE  collectionIDFromKey(documentKey(c, d)) = c
<1>1. c \in Seq(Segment) /\ d \in Seq(Segment) /\ Len(c) = 1
  BY DEF TypeOK, IsMap, ID, CollectionsAreSlashFree, SlashFree
<1>2. (c \o d)[1] = c[1]
  BY <1>1, ConcatProperties
<1>3. c = <<c[1]>>
  <2> DEFINE one == <<c[1]>>
  <2>1. c[1] \in Segment
    <3>1. 1 \in 1 .. Len(c)
      BY <1>1
    <3> QED
      BY <1>1, <3>1, ElementOfSeq
  <2>2. one \in Seq(Segment) /\ Len(one) = 1 /\ one[1] = c[1]
    BY <2>1
  <2> HIDE DEF one
  <2>3. c = one
    BY <1>1, <2>2, SeqEqual
  <2> QED
    BY <2>3 DEF one
<1> QED
  BY <1>2, <1>3 DEF collectionIDFromKey, documentKey

(* The prefix of a key tells the collection of its document.               *)
LEMMA PrefixIsCollection ==
  ASSUME CollectionsAreSlashFree, TypeOK, DocumentsFiled,
         NEW c \in DOMAIN collections, NEW k \in DOMAIN documents
  PROVE  HasCollectionPrefix(k, c) <=> documents[k].collection = c
<1> DEFINE d == documents[k].id
           e == documents[k].collection
<1>1. /\ e \in DOMAIN collections /\ d \in ID /\ k = documentKey(e, d)
  BY DEF DocumentsFiled, TypeOK, IsMap, Document
<1> HIDE DEF d, e
<1>2. /\ c \in Seq(Segment) /\ Len(c) = 1 /\ e \in Seq(Segment) /\ Len(e) = 1
      /\ d \in Seq(Segment) /\ d # <<>>
  BY <1>1 DEF TypeOK, IsMap, ID, CollectionsAreSlashFree, SlashFree
<1>3. k = e \o d /\ Len(d) \in Nat \ {0}
  BY <1>1, <1>2, EmptySeq DEF documentKey
<1>4. Len(k) = 1 + Len(d) /\ k[1] = e[1]
  <2>1. /\ Len(e \o d) = Len(e) + Len(d)
        /\ \A i \in 1 .. Len(e) + Len(d) :
             (e \o d)[i] = IF i <= Len(e) THEN e[i] ELSE d[i - Len(e)]
    BY <1>2, ConcatProperties
  <2>2. 1 \in 1 .. Len(e) + Len(d) /\ 1 <= Len(e)
    BY <1>2, <1>3
  <2> QED
    BY <1>2, <1>3, <2>1, <2>2
<1>5. HasCollectionPrefix(k, c) <=> k[1] = c[1]
  BY <1>2, <1>3, <1>4 DEF HasCollectionPrefix
<1>6. e[1] = c[1] => e = c
  <2>1. ASSUME e[1] = c[1]
        PROVE  \A i \in 1 .. Len(e) : e[i] = c[i]
    BY <1>2, <2>1
  <2> QED
    BY <1>2, <2>1, SeqEqual
<1> QED
  BY <1>4, <1>5, <1>6 DEF e

LEMMA ListingExact ==
  ASSUME CollectionsAreSlashFree, TypeOK, DocumentsFiled
  PROVE  ListingIsExact
<1> SUFFICES ASSUME NEW c \in DOMAIN collections
             PROVE  LET mine == {d \in Range(documents) : d.collection = c}
                    IN  /\ ListDocuments(c, <<>>) = Ok(mine)
                        /\ \A d \in mine : GetDocument(c, d.id) = Ok(d)
                        /\ \A t \in Tag :
                             ListDocuments(c, <<t>>) = Ok({d \in mine : t \in d.tags})
  BY DEF ListingIsExact
<1> DEFINE mine == {d \in Range(documents) : d.collection = c}
           Listed(want) == {documents[k] : k \in {x \in DOMAIN documents :
                              HasCollectionPrefix(x, c) /\ want \subseteq documents[x].tags}}
<1>1. ASSUME NEW tags
      PROVE  ListDocuments(c, tags) = Ok(Listed(normalizeTags(tags)))
  BY DEF ListDocuments, hasAllTags, collectionExists
<1>2. ASSUME NEW want
      PROVE  Listed(want) = {d \in mine : want \subseteq d.tags}
  <2>1. Range(documents) = {documents[k] : k \in DOMAIN documents}
    BY DEF Range
  <2> QED
    BY <2>1, PrefixIsCollection
<1>3. normalizeTags(<<>>) = {}
  BY DEF normalizeTags
<1>4. ASSUME NEW t \in Tag
      PROVE  normalizeTags(<<t>>) = {t}
  BY DEF normalizeTags, Tag
<1>5. ASSUME NEW d \in mine
      PROVE  GetDocument(c, d.id) = Ok(d)
  <2>1. PICK k \in DOMAIN documents : d = documents[k]
    BY DEF Range
  <2>2. documentKey(c, d.id) = k
    BY <2>1 DEF DocumentsFiled
  <2> QED
    BY <2>1, <2>2 DEF GetDocument, lookupError, collectionExists, documentExists
<1> HIDE DEF mine, Listed
<1>6. ListDocuments(c, <<>>) = Ok(mine)
  <2>1. ListDocuments(c, <<>>) = Ok(Listed({}))
    BY <1>1, <1>3
  <2>2. Listed({}) = mine
    BY <1>2
  <2> QED
    BY <2>1, <2>2
<1>7. ASSUME NEW t \in Tag
      PROVE  ListDocuments(c, <<t>>) = Ok({d \in mine : t \in d.tags})
  <2>1. ListDocuments(c, <<t>>) = Ok(Listed({t}))
    BY <1>1, <1>4
  <2>2. Listed({t}) = {d \in mine : t \in d.tags}
    BY <1>2
  <2> QED
    BY <2>1, <2>2
<1> QED
  BY <1>5, <1>6, <1>7 DEF mine

LEMMA AlwaysFiled == Spec => []DocumentsFiled
<1>1. Init => DocumentsFiled
  BY DEF Init, DocumentsFiled
<1>2. TypeOK /\ DocumentsFiled /\ [Next]_vars => DocumentsFiled'
  BY StepFiles
<1> QED
  BY <1>1, <1>2, TypeCorrect, PTL DEF Spec

(* As long as no collection has a "/" in its identifier, listing a         *)
(* collection returns its documents, all of them and no other, and each    *)
(* of them can be read under its own identifier.                           *)
THEOREM ListingsAreExact == Spec => [](CollectionsAreSlashFree => ListingIsExact)
<1>1. TypeOK /\ DocumentsFiled /\ CollectionsAreSlashFree => ListingIsExact
  BY ListingExact
<1> QED
  BY <1>1, AlwaysFiled, TypeCorrect, PTL
-----------------------------------------------------------------------------
(* Answers are final.                                                      *)

KeepsAnswers ==
  \A key \in DOMAIN idem : key \in DOMAIN idem' /\ idem'[key] = idem[key]

LEMMA FirstUseRecords ==
  ASSUME NEW req, FirstUse(req), NEW outcome, Record(req, outcome)
  PROVE  /\ KeepsAnswers
         /\ req.key # NoKey => req.key \notin DOMAIN idem
         /\ req.key # NoKey => req.key \in DOMAIN idem'
BY DEF FirstUse, Known, Record, KeepsAnswers, Put

LEMMA FirstUseReturns ==
  ASSUME NEW req, FirstUse(req), NEW outcome, NEW err,
         Return(req, outcome) \/ Refuse(req, err) \/ Panic(req)
  PROVE  /\ KeepsAnswers
         /\ req.key # NoKey => req.key \notin DOMAIN idem
         /\ req.key # NoKey => req.key \in DOMAIN idem'
BY FirstUseRecords DEF Return, Refuse, Panic

LEMMA NoUseKeeps ==
  ASSUME NEW req, NEW malformed, TurnAway(malformed) \/ Replay(req)
  PROVE  KeepsAnswers
BY DEF TurnAway, Replay, KeepsAnswers

LEMMA StepKeepsAnswers ==
  ASSUME [Next]_vars
  PROVE  KeepsAnswers
<1>1. CASE Tick \/ UNCHANGED vars
  BY <1>1 DEF Tick, vars, KeepsAnswers
<1>2. CASE \E req \in RegisterRequests : RegisterCollection(req)
  BY <1>2, NoUseKeeps, FirstUseReturns
  DEF RegisterCollection, returnExisting, registerNew
<1>3. CASE \E req \in CreateRequests : CreateDocument(req)
  BY <1>3, NoUseKeeps, FirstUseReturns DEF CreateDocument, insert
<1>4. CASE \E req \in UpdateRequests : UpdateDocument(req)
  BY <1>4, NoUseKeeps, FirstUseReturns DEF UpdateDocument, update
<1>5. CASE \E req \in BatchRequests : BatchUpdateDocuments(req)
  BY <1>5, NoUseKeeps, FirstUseReturns
  DEF BatchUpdateDocuments, rejectBatch, applyBatch
<1>6. CASE \E req \in AcquireRequests : AcquireLock(req)
  BY <1>6, NoUseKeeps, FirstUseReturns DEF AcquireLock, lockConflict, renew, grant
<1>7. CASE \E req \in RenewRequests : RenewLock(req)
  BY <1>7, NoUseKeeps, FirstUseReturns DEF RenewLock, lockConflict, notHeld, renew
<1>8. CASE \E req \in ReleaseRequests : ReleaseLock(req)
  BY <1>8, NoUseKeeps, FirstUseReturns DEF ReleaseLock, lockConflict, notHeld, release
<1>9. CASE ReapExpiredLocks
  BY <1>9, NoUseKeeps DEF ReapExpiredLocks, reapAll, KeepsAnswers
<1> QED
  BY <1>1, <1>2, <1>3, <1>4, <1>5, <1>6, <1>7, <1>8, <1>9 DEF Next

(* The first outcome recorded for an idempotency key is never replaced.    *)
THEOREM AnswersFinal == Spec => AnswersAreFinal
<1>1. [Next]_vars => [KeepsAnswers]_vars
  BY StepKeepsAnswers
<1> QED
  BY <1>1, PTL DEF Spec, AnswersAreFinal, KeepsAnswers
-----------------------------------------------------------------------------
(* What a step appends to the log: events of the time it is taken at, at   *)
(* most one of which carries a key, and then a key not used before.        *)

LogFacts(events) ==
  /\ \A i \in 1 .. Len(events) : events[i].at = clock
  /\ \A i, j \in 1 .. Len(events) :
       events[i].key # NoKey /\ events[j].key # NoKey => i = j
  /\ \A i \in 1 .. Len(events) :
       events[i].key # NoKey => /\ events[i].key \notin DOMAIN idem
                                /\ events[i].key \in DOMAIN idem'

Logs ==
  /\ clock' = clock
  /\ \E S : \E events \in Seq(S) : appendAudit(events) /\ LogFacts(events)

LEMMA AppendFacts ==
  ASSUME audit \in Seq(AuditEvent), auditSeq \in Nat,
         NEW S, NEW events \in Seq(S), appendAudit(events)
  PROVE  /\ auditSeq' = auditSeq + Len(events)
         /\ Len(audit') = Len(audit) + Len(events)
         /\ Len(audit) \in Nat /\ Len(events) \in Nat
         /\ \A i \in 1 .. Len(audit) : audit'[i] = audit[i]
         /\ \A i \in 1 .. Len(events) :
              audit'[Len(audit) + i] = [events[i] EXCEPT !.sequence = auditSeq + i]
<1> DEFINE new == [i \in 1 .. Len(events) |->
                     [events[i] EXCEPT !.sequence = auditSeq + i]]
           T == AuditEvent \cup {new[i] : i \in 1 .. Len(events)}
<1>1. Len(events) \in Nat /\ Len(audit) \in Nat
  OBVIOUS
<1>2. new \in [1 .. Len(events) -> T]
  OBVIOUS
<1>3. audit' = audit \o new /\ auditSeq' = auditSeq + Len(events)
  BY DEF appendAudit
<1>4. \A i \in 1 .. Len(events) :
        new[i] = [events[i] EXCEPT !.sequence = auditSeq + i]
  OBVIOUS
<1>5. audit \in Seq(T)
  BY SeqMonotonic
<1> HIDE DEF new, T
<1>6. new \in Seq(T) /\ Len(new) = Len(events)
  BY <1>1, <1>2, FunctionIsSequence
<1>7. /\ Len(audit \o new) = Len(audit) + Len(new)
      /\ \A i \in 1 .. Len(audit) + Len(new) :
           (audit \o new)[i] = IF i <= Len(audit) THEN audit[i] ELSE new[i - Len(audit)]
  BY <1>5, <1>6, ConcatProperties
<1>8. \A i \in 1 .. Len(events) : audit'[Len(audit) + i] = new[i]
  <2> TAKE i \in 1 .. Len(events)
  <2>1. /\ Len(audit) + i \in 1 .. Len(audit) + Len(new)
        /\ ~ Len(audit) + i <= Len(audit)
        /\ Len(audit) + i - Len(audit) = i
    BY <1>1, <1>6
  <2> QED
    BY <2>1, <1>3, <1>7
<1>9. \A i \in 1 .. Len(audit) : audit'[i] = audit[i]
  BY <1>1, <1>3, <1>6, <1>7
<1> QED
  BY <1>1, <1>3, <1>4, <1>6, <1>7, <1>8, <1>9

LEMMA OneEventLogs ==
  ASSUME NEW event, event.at = clock, clock' = clock, appendAudit(<<event>>),
         event.key # NoKey => /\ event.key \notin DOMAIN idem
                              /\ event.key \in DOMAIN idem'
  PROVE  Logs
<1>1. <<event>> \in Seq({event}) /\ Len(<<event>>) = 1 /\ <<event>>[1] = event
  OBVIOUS
<1> DEFINE events == <<event>>
<1> HIDE DEF events
<1>2. events \in Seq({event}) /\ Len(events) = 1 /\ events[1] = event
  BY <1>1 DEF events
<1>3. \A i \in 1 .. Len(events) : i = 1
  BY <1>2
<1>4. LogFacts(events)
  BY <1>2, <1>3 DEF LogFacts
<1> QED
  BY <1>2, <1>4 DEF Logs, events

LEMMA EventFields ==
  ASSUME NEW type, NEW actor, NEW c, NEW d, NEW key, NEW details
  PROVE  /\ Event(type, actor, c, d, key, details).at = clock
         /\ Event(type, actor, c, d, key, details).key = key
BY DEF Event

LEMMA BatchLogs ==
  ASSUME NEW req \in BatchRequests, FirstUse(req), applyBatch(req)
  PROVE  Logs
<1> DEFINE n == Len(req.items)
           items == [i \in 1 .. n |-> updatedEvent(req, req.items[i], NoKey, TRUE)]
           applied == Event("document.batch_applied", req.actor, req.collection,
                            NoID, req.key, [items |-> n])
           S == {items[i] : i \in 1 .. n} \cup {applied}
<1>1. n \in Nat
  BY DocumentRequestAssumption DEF BatchRequest
<1>2. items \in [1 .. n -> S] /\ applied \in S
  OBVIOUS
<1>3. \A i \in 1 .. n : items[i].at = clock /\ items[i].key = NoKey
  BY EventFields DEF updatedEvent
<1>4. applied.at = clock /\ applied.key = req.key
  BY EventFields
<1>5. appendAudit(Append(items, applied)) /\ clock' = clock
  BY DEF applyBatch
<1>6. req.key # NoKey => req.key \notin DOMAIN idem /\ req.key \in DOMAIN idem'
  BY FirstUseReturns DEF applyBatch
<1> HIDE DEF n, items, applied, S
<1>7. items \in Seq(S) /\ Len(items) = n
  BY <1>1, <1>2, FunctionIsSequence
<1> DEFINE events == Append(items, applied)
<1>8. /\ events \in Seq(S) /\ Len(events) = n + 1
      /\ \A i \in 1 .. n : events[i] = items[i]
      /\ events[n + 1] = applied
  BY <1>2, <1>7, AppendProperties
<1> HIDE DEF events
<1>9. \A i \in 1 .. Len(events) : i \in 1 .. n \/ i = n + 1
  BY <1>1, <1>8
<1>10. LogFacts(events)
  BY <1>3, <1>4, <1>6, <1>8, <1>9 DEF LogFacts
<1> QED
  BY <1>5, <1>8, <1>10 DEF Logs, events

LEMMA ReapLogs ==
  ASSUME TypeOK, reapAll
  PROVE  Logs
<1> DEFINE n == Cardinality(expired)
<1>1. n \in Nat
  <2>1. expired \subseteq DOMAIN locks
    BY DEF expired
  <2> QED
    BY <2>1, FS_Subset, FS_CardinalityType DEF TypeOK
<1>2. PICK order \in Bijection(1 .. n, expired) :
        /\ appendAudit([i \in DOMAIN order |-> reapedEvent(order[i])])
        /\ clock' = clock
  BY DEF reapAll
<1>3. DOMAIN order = 1 .. n
  BY <1>2 DEF Bijection, Injection
<1> DEFINE events == [i \in 1 .. n |-> reapedEvent(order[i])]
           S == {events[i] : i \in 1 .. n}
<1>4. events \in [1 .. n -> S]
  OBVIOUS
<1>5. \A i \in 1 .. n : events[i].at = clock /\ events[i].key = NoKey
  BY EventFields DEF reapedEvent
<1>6. appendAudit(events)
  BY <1>2, <1>3
<1> HIDE DEF n, events, S
<1>7. events \in Seq(S) /\ Len(events) = n
  BY <1>1, <1>4, FunctionIsSequence
<1>8. LogFacts(events)
  BY <1>5, <1>7 DEF LogFacts
<1> QED
  BY <1>2, <1>6, <1>7, <1>8 DEF Logs

LEMMA LockOperationLogs ==
  ASSUME NEW req, FirstUse(req), NEW key,
         \/ lockConflict(req, key) \/ notHeld(req, key) \/ renew(req, key)
         \/ grant(req, key) \/ release(req, key)
  PROVE  UNCHANGED <<audit, auditSeq, clock>> \/ Logs
<1>1. CASE lockConflict(req, key) \/ notHeld(req, key)
  BY <1>1 DEF lockConflict, Refuse, notHeld, stored
<1>2. ASSUME NEW type, NEW details, appendAudit(<<lockEvent(type, req, details)>>),
             clock' = clock, NEW outcome, Return(req, outcome)
      PROVE  Logs
  <2>1. /\ lockEvent(type, req, details).at = clock
        /\ lockEvent(type, req, details).key = req.key
    BY EventFields DEF lockEvent
  <2> QED
    BY <1>2, <2>1, FirstUseReturns, OneEventLogs
<1>3. CASE renew(req, key) \/ grant(req, key) \/ release(req, key)
  BY <1>2, <1>3 DEF renew, grant, release
<1> QED
  BY <1>1, <1>3

LEMMA StepLogs ==
  ASSUME TypeOK, [Next]_vars
  PROVE  Logs \/ (UNCHANGED <<audit, auditSeq>> /\ clock' \in {clock, clock + 1})
<1> DEFINE Silent == UNCHANGED <<audit, auditSeq, clock>>
<1>1. CASE Tick \/ UNCHANGED vars
  BY <1>1 DEF Tick, vars, stored
<1>2. ASSUME NEW req, NEW malformed, NEW err,
             TurnAway(malformed) \/ Replay(req) \/ Refuse(req, err) \/ Panic(req)
      PROVE  Silent
  BY <1>2 DEF TurnAway, Replay, Refuse, Panic, stored
<1>3. ASSUME NEW req, FirstUse(req), NEW event, event.at = clock,
             event.key = req.key, appendAudit(<<event>>), clock' = clock,
             NEW outcome, Return(req, outcome)
      PROVE  Logs
  BY <1>3, FirstUseReturns, OneEventLogs
<1>4. CASE \E req \in RegisterRequests : RegisterCollection(req)
  <2> PICK req \in RegisterRequests : RegisterCollection(req)
    BY <1>4
  <2>1. CASE \E id \in NewIDs(req.id) : returnExisting(req, id)
    BY <2>1 DEF returnExisting, stored
  <2>2. ASSUME NEW id, FirstUse(req), registerNew(req, id)
        PROVE  Logs
    BY <1>3, <2>2, EventFields DEF registerNew
  <2> QED
    BY <1>2, <2>1, <2>2 DEF RegisterCollection
<1>5. CASE \E req \in CreateRequests : CreateDocument(req)
  <2> PICK req \in CreateRequests : CreateDocument(req)
    BY <1>5
  <2>1. ASSUME NEW id, FirstUse(req), insert(req, id)
        PROVE  Logs
    BY <1>3, <2>1, EventFields DEF insert
  <2> QED
    BY <1>2, <2>1 DEF CreateDocument
<1>6. CASE \E req \in UpdateRequests : UpdateDocument(req)
  <2> PICK req \in UpdateRequests : UpdateDocument(req)
    BY <1>6
  <2>1. ASSUME FirstUse(req), update(req)
        PROVE  Logs
    <3>1. /\ updatedEvent(req, req, req.key, FALSE).at = clock
          /\ updatedEvent(req, req, req.key, FALSE).key = req.key
      BY EventFields DEF updatedEvent
    <3> QED
      BY <1>3, <2>1, <3>1 DEF update
  <2> QED
    BY <1>2, <2>1 DEF UpdateDocument
<1>7. CASE \E req \in BatchRequests : BatchUpdateDocuments(req)
  <2> PICK req \in BatchRequests : BatchUpdateDocuments(req)
    BY <1>7
  <2>1. ASSUME FirstUse(req), rejectBatch(req)
        PROVE  Logs
    BY <1>3, <2>1, EventFields DEF rejectBatch
  <2> QED
    BY <1>2, <2>1, BatchLogs DEF BatchUpdateDocuments
<1>8. CASE \/ \E req \in AcquireRequests : AcquireLock(req)
           \/ \E req \in RenewRequests : RenewLock(req)
           \/ \E req \in ReleaseRequests : ReleaseLock(req)
  BY <1>2, <1>8, LockOperationLogs DEF AcquireLock, RenewLock, ReleaseLock
<1>9. CASE ReapExpiredLocks
  BY <1>2, <1>9, ReapLogs DEF ReapExpiredLocks
<1> QED
  BY <1>1, <1>4, <1>5, <1>6, <1>7, <1>8, <1>9 DEF Next
-----------------------------------------------------------------------------
(* The log is ordered.                                                     *)

LEMMA Numbered ==
  ASSUME NEW e, NEW n, [e EXCEPT !.sequence = n] \in AuditEvent
  PROVE  /\ [e EXCEPT !.sequence = n].sequence = n
         /\ [e EXCEPT !.sequence = n].at = e.at
         /\ [e EXCEPT !.sequence = n].key = e.key
BY DEF AuditEvent

LEMMA LogsAppend ==
  ASSUME TypeOK, TypeOK', Logs
  PROVE  \E S : \E events \in Seq(S) :
           /\ LogFacts(events)
           /\ Len(audit) \in Nat /\ Len(events) \in Nat
           /\ auditSeq' = auditSeq + Len(events)
           /\ Len(audit') = Len(audit) + Len(events)
           /\ DOMAIN audit = 1 .. Len(audit) /\ DOMAIN audit' = 1 .. Len(audit')
           /\ \A i \in 1 .. Len(audit) : audit'[i] = audit[i]
           /\ \A i \in 1 .. Len(events) :
                /\ audit'[Len(audit) + i].sequence = auditSeq + i
                /\ audit'[Len(audit) + i].at = clock
                /\ audit'[Len(audit) + i].key = events[i].key
<1>1. PICK S, events : /\ events \in Seq(S)
                       /\ appendAudit(events)
                       /\ LogFacts(events)
  BY DEF Logs
<1>2. /\ auditSeq' = auditSeq + Len(events)
      /\ Len(audit') = Len(audit) + Len(events)
      /\ Len(audit) \in Nat /\ Len(events) \in Nat
      /\ \A i \in 1 .. Len(audit) : audit'[i] = audit[i]
      /\ \A i \in 1 .. Len(events) :
           audit'[Len(audit) + i] = [events[i] EXCEPT !.sequence = auditSeq + i]
  BY <1>1, AppendFacts DEF TypeOK
<1>3. audit \in Seq(AuditEvent) /\ audit' \in Seq(AuditEvent)
  BY DEF TypeOK
<1>4. DOMAIN audit = 1 .. Len(audit) /\ DOMAIN audit' = 1 .. Len(audit')
  BY <1>3
<1>5. ASSUME NEW i \in 1 .. Len(events)
      PROVE  /\ audit'[Len(audit) + i].sequence = auditSeq + i
             /\ audit'[Len(audit) + i].at = clock
             /\ audit'[Len(audit) + i].key = events[i].key
  <2>1. Len(audit) + i \in 1 .. Len(audit')
    BY <1>2
  <2>2. audit'[Len(audit) + i] \in AuditEvent
    BY <1>3, <2>1, ElementOfSeq
  <2>3. audit'[Len(audit) + i] = [events[i] EXCEPT !.sequence = auditSeq + i]
    BY <1>2
  <2>4. events[i].at = clock
    BY <1>1 DEF LogFacts
  <2> QED
    BY <2>2, <2>3, <2>4, Numbered
<1> QED
  BY <1>1, <1>2, <1>4, <1>5

LEMMA LogsKeepOrder ==
  ASSUME TypeOK, TypeOK', AuditIsOrdered, Logs
  PROVE  AuditIsOrdered'
<1> DEFINE old == Len(audit)
<1>1. PICK S, events :
        /\ LogFacts(events)
        /\ old \in Nat /\ Len(events) \in Nat
        /\ auditSeq' = auditSeq + Len(events)
        /\ Len(audit') = old + Len(events)
        /\ DOMAIN audit = 1 .. old /\ DOMAIN audit' = 1 .. Len(audit')
        /\ \A i \in 1 .. old : audit'[i] = audit[i]
        /\ \A i \in 1 .. Len(events) :
             /\ audit'[old + i].sequence = auditSeq + i
             /\ audit'[old + i].at = clock
             /\ audit'[old + i].key = events[i].key
  BY LogsAppend
<1>2. clock' = clock /\ clock \in Nat /\ auditSeq = old
  BY DEF Logs, TypeOK, AuditIsOrdered
<1> DEFINE n == Len(events)
<1>3. \A i \in 1 .. old + n : i \in 1 .. old \/ (i - old \in 1 .. n /\ i = old + (i - old))
  BY <1>1
<1>4. \A i \in 1 .. old : /\ audit'[i].sequence = i
                          /\ audit'[i].at <= clock
                          /\ \A j \in 1 .. i : audit'[j].at <= audit'[i].at
  <2> TAKE i \in 1 .. old
  <2>1. \A j \in 1 .. i : j \in 1 .. old
    BY <1>1
  <2> QED
    BY <1>1, <2>1 DEF AuditIsOrdered
<1>5. \A i \in 1 .. old + n : i \notin 1 .. old =>
        audit'[i].sequence = i /\ audit'[i].at = clock
  <2> SUFFICES ASSUME NEW i \in 1 .. old + n, i \notin 1 .. old
               PROVE  audit'[i].sequence = i /\ audit'[i].at = clock
    OBVIOUS
  <2>1. PICK j \in 1 .. n : i = old + j
    BY <1>3
  <2>2. audit'[i].sequence = auditSeq + j /\ audit'[i].at = clock
    BY <1>1, <2>1
  <2> QED
    BY <1>2, <2>1, <2>2
<1>6. \A i \in 1 .. old + n : audit'[i].at <= clock
  BY <1>2, <1>4, <1>5
<1>7. \A i \in 1 .. old + n : \A j \in 1 .. i : audit'[j].at <= audit'[i].at
  <2> TAKE i \in 1 .. old + n
  <2>1. CASE i \in 1 .. old
    BY <1>4, <2>1
  <2>2. CASE i \notin 1 .. old
    <3>1. \A j \in 1 .. i : j \in 1 .. old + n
      BY <1>1
    <3> QED
      BY <1>5, <1>6, <2>2, <3>1
  <2> QED
    BY <2>1, <2>2
<1>8. \A i \in 1 .. old + n : audit'[i].sequence = i
  BY <1>4, <1>5
<1> QED
  BY <1>1, <1>2, <1>6, <1>7, <1>8 DEF AuditIsOrdered

(* The audit log is numbered 1, 2, 3... in the order of time.              *)
THEOREM AuditOrdered == Spec => []AuditIsOrdered
<1>1. Init => AuditIsOrdered
  BY DEF Init, AuditIsOrdered
<1>2. TypeOK /\ TypeOK' /\ AuditIsOrdered /\ [Next]_vars => AuditIsOrdered'
  <2> SUFFICES ASSUME TypeOK, TypeOK', AuditIsOrdered, [Next]_vars
               PROVE  AuditIsOrdered'
    OBVIOUS
  <2>1. CASE UNCHANGED <<audit, auditSeq>> /\ clock' \in {clock, clock + 1}
    <3>1. clock \in Nat /\ clock <= clock'
      BY <2>1 DEF TypeOK
    <3>2. \A i \in DOMAIN audit : audit[i] \in AuditEvent
      BY DEF TypeOK
    <3>3. \A i \in DOMAIN audit : audit[i].at \in Nat /\ audit[i].at <= clock
      BY <3>2 DEF AuditEvent, AuditIsOrdered
    <3>4. \A i \in DOMAIN audit : audit[i].at <= clock'
      BY <2>1, <3>1, <3>3
    <3> QED
      BY <2>1, <3>4 DEF AuditIsOrdered
  <2> QED
    BY <2>1, StepLogs, LogsKeepOrder
<1> QED
  BY <1>1, <1>2, TypeCorrect, PTL DEF Spec
-----------------------------------------------------------------------------
(* The past is never rewritten.                                            *)

LEMMA StepExtendsAudit ==
  ASSUME TypeOK, TypeOK', [Next]_vars
  PROVE  Extends(audit, audit')
<1>1. CASE Logs
  <2>1. /\ Len(audit) \in Nat /\ Len(audit) <= Len(audit')
        /\ \A i \in 1 .. Len(audit) : audit'[i] = audit[i]
    BY <1>1, LogsAppend
  <2> QED
    BY <2>1 DEF Extends
<1>2. CASE audit' = audit
  <2>1. Len(audit) \in Nat
    BY DEF TypeOK
  <2> QED
    BY <1>2, <2>1 DEF Extends
<1> QED
  BY <1>1, <1>2, StepLogs

LEMMA StepExtendsHistory ==
  ASSUME TypeOK, HistoryIsComplete, [Next]_vars
  PROVE  \A k \in DOMAIN history :
           k \in DOMAIN history' /\ Extends(history[k], history'[k])
<1>1. \A k \in DOMAIN history : history[k] \in Seq(Revision) /\ Extends(history[k], history[k])
  BY DEF TypeOK, IsMap, Extends
<1>2. CASE UNCHANGED <<documents, history>>
  BY <1>1, <1>2
<1>3. CASE Inserts
  <2>1. PICK key, rev : key \notin DOMAIN documents /\ history' = Put(history, key, rev)
    BY <1>3 DEF Inserts, insert
  <2> QED
    BY <1>1, <2>1 DEF Put, HistoryIsComplete
<1>4. CASE Applies
  <2>1. PICK actor, patches :
          /\ actor \in Actor
          /\ DOMAIN patches \subseteq DOMAIN documents
          /\ \A k \in DOMAIN patches : IsPatch(patches[k])
          /\ applyUpdates(actor, patches)
    BY <1>4 DEF Applies
  <2>2. /\ DOMAIN history' = DOMAIN history
        /\ IsMap(documents', ID, Document) /\ DOMAIN documents' = DOMAIN documents
        /\ \A k \in DOMAIN patches \cap DOMAIN history :
             history'[k] = Append(history[k],
                             revision(documents'[k], actor, patches[k].reason))
        /\ \A k \in DOMAIN history \ DOMAIN patches : history'[k] = history[k]
    BY <2>1, ApplyUpdatesType
  <2>3. ASSUME NEW k \in DOMAIN history \cap DOMAIN patches
        PROVE  Extends(history[k], history'[k])
    <3> DEFINE rev == revision(documents'[k], actor, patches[k].reason)
    <3>1. rev \in Revision
      BY <2>1, <2>2, RevisionType DEF TypeOK, IsPatch, IsMap
    <3>2. history'[k] = Append(history[k], rev)
      BY <2>2
    <3> HIDE DEF rev
    <3> QED
      BY <1>1, <3>1, <3>2, AppendProperties DEF Extends
  <2> QED
    BY <1>1, <2>2, <2>3
<1> QED
  BY <1>2, <1>3, <1>4, DocumentSteps

(* Revisions, audit events and collections are never changed or removed.   *)
THEOREM PastPreserved == Spec => PastIsNeverRewritten
<1>1. TypeOK /\ TypeOK' /\ HistoryIsComplete /\ [Next]_vars => [PastIsImmutable]_vars
  BY StepExtendsAudit, StepExtendsHistory, StepKeepsCollections DEF PastIsImmutable
<1> QED
  BY <1>1, TypeCorrect, HistoryComplete, PTL DEF Spec, PastIsNeverRewritten
-----------------------------------------------------------------------------
(* A key takes effect at most once.  What is inductive is that a key of    *)
(* the log has been recorded: then LogFacts keeps a step from logging it   *)
(* again.                                                                  *)

LoggedOnce ==
  /\ \A i \in DOMAIN audit : audit[i].key # NoKey => audit[i].key \in DOMAIN idem
  /\ \A i, j \in DOMAIN audit :
       audit[i].key # NoKey /\ audit[i].key = audit[j].key => i = j

LEMMA LogsLogOnce ==
  ASSUME TypeOK, TypeOK', LoggedOnce, KeepsAnswers, Logs
  PROVE  LoggedOnce'
<1> DEFINE old == Len(audit)
<1>1. PICK S, events :
        /\ LogFacts(events)
        /\ old \in Nat /\ Len(events) \in Nat
        /\ auditSeq' = auditSeq + Len(events)
        /\ Len(audit') = old + Len(events)
        /\ DOMAIN audit = 1 .. old /\ DOMAIN audit' = 1 .. Len(audit')
        /\ \A i \in 1 .. old : audit'[i] = audit[i]
        /\ \A i \in 1 .. Len(events) :
             /\ audit'[old + i].sequence = auditSeq + i
             /\ audit'[old + i].at = clock
             /\ audit'[old + i].key = events[i].key
  BY LogsAppend
<1> DEFINE n == Len(events)
<1>2. \A i \in 1 .. old + n : i \in 1 .. old \/ (i - old \in 1 .. n /\ i = old + (i - old))
  BY <1>1
<1>3. \A i \in 1 .. old : audit'[i].key # NoKey => audit'[i].key \in DOMAIN idem
  BY <1>1 DEF LoggedOnce
<1>4. \A i \in 1 .. n : audit'[old + i].key # NoKey =>
        /\ audit'[old + i].key \notin DOMAIN idem
        /\ audit'[old + i].key \in DOMAIN idem'
  BY <1>1 DEF LogFacts
<1>5. \A i \in 1 .. old + n : audit'[i].key # NoKey => audit'[i].key \in DOMAIN idem'
  <2> SUFFICES ASSUME NEW i \in 1 .. old + n, audit'[i].key # NoKey
               PROVE  audit'[i].key \in DOMAIN idem'
    OBVIOUS
  <2>1. CASE i \in 1 .. old
    BY <1>3, <2>1 DEF KeepsAnswers
  <2>2. ASSUME NEW j \in 1 .. n, i = old + j
        PROVE  audit'[i].key \in DOMAIN idem'
    BY <1>4, <2>2
  <2> QED
    BY <1>2, <2>1, <2>2
<1>6. ASSUME NEW i \in 1 .. old + n, NEW j \in 1 .. old + n,
             audit'[i].key # NoKey, audit'[i].key = audit'[j].key
      PROVE  i = j
  <2>1. CASE i \in 1 .. old /\ j \in 1 .. old
    BY <1>1, <1>6, <2>1 DEF LoggedOnce
  <2>2. CASE i \notin 1 .. old /\ j \notin 1 .. old
    <3>1. /\ i - old \in 1 .. n /\ i = old + (i - old)
          /\ j - old \in 1 .. n /\ j = old + (j - old)
      BY <1>2, <2>2
    <3>2. events[i - old].key # NoKey /\ events[j - old].key # NoKey
      BY <1>1, <1>6, <3>1
    <3>3. i - old = j - old
      BY <1>1, <3>1, <3>2 DEF LogFacts
    <3> QED
      BY <3>1, <3>3
  <2>3. \A a \in 1 .. old, b \in 1 .. old + n :
          (b \notin 1 .. old /\ audit'[a].key = audit'[b].key) => audit'[a].key = NoKey
    <3> SUFFICES ASSUME NEW a \in 1 .. old, NEW b \in 1 .. old + n, b \notin 1 .. old,
                        audit'[a].key = audit'[b].key, audit'[a].key # NoKey
                 PROVE  FALSE
      OBVIOUS
    <3>1. PICK c \in 1 .. n : b = old + c
      BY <1>2
    <3> QED
      BY <1>3, <1>4, <3>1
  <2>4. CASE ~ (i \in 1 .. old <=> j \in 1 .. old)
    BY <1>6, <2>3, <2>4
  <2> QED
    BY <2>1, <2>2, <2>4
<1> QED
  BY <1>1, <1>5, <1>6 DEF LoggedOnce

LEMMA AlwaysLoggedOnce == Spec => []LoggedOnce
<1>1. Init => LoggedOnce
  BY DEF Init, LoggedOnce
<1>2. TypeOK /\ TypeOK' /\ LoggedOnce /\ [Next]_vars => LoggedOnce'
  <2> SUFFICES ASSUME TypeOK, TypeOK', LoggedOnce, [Next]_vars
               PROVE  LoggedOnce'
    OBVIOUS
  <2>1. KeepsAnswers
    BY StepKeepsAnswers
  <2>2. CASE UNCHANGED audit
    BY <2>1, <2>2 DEF LoggedOnce, KeepsAnswers
  <2> QED
    BY <2>1, <2>2, StepLogs, LogsLogOnce
<1> QED
  BY <1>1, <1>2, TypeCorrect, PTL DEF Spec

(* However often an idempotency key is sent, at most one audit event       *)
(* carries it, and none before the key is recorded.                        *)
THEOREM OneEffect == Spec => []OneEffectPerKey
<1>1. LoggedOnce => OneEffectPerKey
  <2> SUFFICES ASSUME LoggedOnce, NEW key \in IdemKey
               PROVE  /\ Cardinality(EventsOf(key)) <= 1
                      /\ EventsOf(key) # {} => key \in DOMAIN idem
    BY DEF OneEffectPerKey
  <2>1. key # NoKey
    BY IdentityAssumption
  <2>2. \A i, j \in EventsOf(key) : i = j
    BY <2>1 DEF LoggedOnce, EventsOf
  <2>3. EventsOf(key) = {} \/ \E i : EventsOf(key) = {i}
    BY <2>2
  <2>4. Cardinality(EventsOf(key)) <= 1
    BY <2>3, FS_EmptySet, FS_Singleton
  <2> QED
    BY <2>1, <2>4 DEF LoggedOnce, EventsOf
<1> QED
  BY <1>1, AlwaysLoggedOnce, PTL
-----------------------------------------------------------------------------
(* What a step does to the lock table and the clock.                       *)

key(req) == documentKey(req.collection, req.document)

(* An entry changes to a lease of at most the longest ttl, from now on.    *)
Sets(k, holder) ==
  /\ \E lock \in Lock : /\ locks' = Put(locks, k, lock)
                        /\ lock.holder = holder
                        /\ clock < lock.expiresAt
                        /\ lock.expiresAt <= clock + MaxLockTTL
  /\ clock' = clock

(* Expired locks leave the table: reclaimed by a call, or reaped.          *)
Sweeps ==
  /\ \E S : /\ \A k \in S \cap DOMAIN locks : IsExpired(locks[k], clock)
            /\ locks' = Delete(locks, S)
  /\ clock' = clock

Grants ==
  \E req \in AcquireRequests :
    /\ req.holder \in Holder
    /\ ~ active(key(req))
    /\ Sets(key(req), req.holder)

Renews ==
  \E req \in AcquireRequests \cup RenewRequests :
    /\ active(key(req))
    /\ locks[key(req)].holder = req.holder
    /\ AcquireLock(req) \/ RenewLock(req)
    /\ Sets(key(req), req.holder)

Releases ==
  \E req \in ReleaseRequests :
    /\ active(key(req))
    /\ locks[key(req)].holder = req.holder
    /\ ReleaseLock(req)
    /\ locks' = Delete(locks, {key(req)})
    /\ clock' = clock

LEMMA TermFacts ==
  ASSUME clock \in Nat, NEW ttl \in Int
  PROVE  /\ clock + NormalizeTTL(ttl) \in Nat
         /\ clock < clock + NormalizeTTL(ttl)
         /\ clock + NormalizeTTL(ttl) <= clock + MaxLockTTL
<1>1. /\ NormalizeTTL(ttl) \in Nat /\ NormalizeTTL(ttl) # 0
      /\ NormalizeTTL(ttl) <= MaxLockTTL
  BY TTLType
<1>2. MaxLockTTL \in Nat
  BY TTLAssumption
<1> QED
  BY <1>1, <1>2

LEMMA RenewSets ==
  ASSUME TypeOK, NEW req, req.ttl \in Int, NEW k, active(k),
         locks[k].holder = req.holder, renew(req, k)
  PROVE  Sets(k, req.holder)
<1> DEFINE end == clock + NormalizeTTL(req.ttl)
           lock == [locks[k] EXCEPT !.expiresAt = end, !.renewCount = @ + 1]
<1>1. end \in Nat /\ clock < end /\ end <= clock + MaxLockTTL
  BY TermFacts DEF TypeOK
<1>2. locks' = Put(locks, k, lock) /\ clock' = clock
  BY DEF renew
<1>3. locks[k] \in Lock
  BY DEF TypeOK, IsMap, active, present
<1> HIDE DEF end
<1>4. locks[k].renewCount + 1 \in Nat
  BY <1>3 DEF Lock
<1>5. lock \in Lock /\ lock.holder = req.holder /\ lock.expiresAt = end
  BY <1>1, <1>3, <1>4 DEF Lock
<1> HIDE DEF lock
<1> QED
  BY <1>1, <1>2, <1>5 DEF Sets

LEMMA GrantSets ==
  ASSUME TypeOK, NEW req, req.document \in ID, req.holder \in Holder,
         req.ttl \in Int, NEW k, grant(req, k)
  PROVE  Sets(k, req.holder)
<1> DEFINE end == clock + NormalizeTTL(req.ttl)
           lock == [document |-> req.document, holder |-> req.holder,
                    acquiredAt |-> clock, expiresAt |-> end, renewCount |-> 0]
<1>1. end \in Nat /\ clock < end /\ end <= clock + MaxLockTTL
  BY TermFacts DEF TypeOK
<1>2. locks' = Put(locks, k, lock) /\ clock' = clock
  BY DEF grant
<1> HIDE DEF end
<1>3. lock \in Lock /\ lock.holder = req.holder /\ lock.expiresAt = end
  BY <1>1 DEF Lock, TypeOK
<1> HIDE DEF lock
<1> QED
  BY <1>1, <1>2, <1>3 DEF Sets

LEMMA NotHeldSweeps ==
  ASSUME NEW req, NEW k, notHeld(req, k)
  PROVE  Sweeps \/ UNCHANGED <<locks, clock>>
<1>1. CASE present(k) /\ ~ active(k)
  <2>1. \A x \in {k} \cap DOMAIN locks : IsExpired(locks[x], clock)
    BY <1>1 DEF active
  <2>2. locks' = Delete(locks, {k}) /\ clock' = clock
    BY <1>1 DEF notHeld, withoutStale
  <2> QED
    BY <2>1, <2>2 DEF Sweeps
<1>2. CASE ~ (present(k) /\ ~ active(k))
  BY <1>2 DEF notHeld, withoutStale
<1> QED
  BY <1>1, <1>2

LEMMA LockSteps ==
  ASSUME TypeOK, [Next]_vars
  PROVE  \/ locks' = locks /\ clock' \in {clock, clock + 1}
         \/ Sweeps \/ Grants \/ Renews \/ Releases
<1> DEFINE Quiet == UNCHANGED <<locks, clock>>
<1>1. CASE Tick \/ UNCHANGED vars
  BY <1>1 DEF Tick, vars, stored
<1>2. ASSUME NEW req, NEW malformed, NEW err,
             TurnAway(malformed) \/ Replay(req) \/ Refuse(req, err) \/ Panic(req)
      PROVE  Quiet
  BY <1>2 DEF TurnAway, Replay, Refuse, Panic, stored
<1>3. CASE \E req \in RegisterRequests : RegisterCollection(req)
  BY <1>2, <1>3 DEF RegisterCollection, registerNew, returnExisting, stored
<1>4. CASE \E req \in CreateRequests : CreateDocument(req)
  BY <1>2, <1>4 DEF CreateDocument, insert
<1>5. CASE \E req \in UpdateRequests : UpdateDocument(req)
  BY <1>2, <1>5 DEF UpdateDocument, update
<1>6. CASE \E req \in BatchRequests : BatchUpdateDocuments(req)
  BY <1>2, <1>6 DEF BatchUpdateDocuments, rejectBatch, applyBatch
<1>7. CASE \E req \in AcquireRequests : AcquireLock(req)
  <2> PICK req \in AcquireRequests : AcquireLock(req)
    BY <1>7
  <2>1. req.ttl \in Int /\ req.document \in ID /\ req.holder \in OptHolder
    BY LockRequestAssumption DEF LeaseRequest
  <2>2. CASE lockConflict(req, key(req))
    BY <1>2, <2>2 DEF lockConflict
  <2>3. CASE active(key(req)) /\ locks[key(req)].holder = req.holder /\ renew(req, key(req))
    BY <2>1, <2>3, RenewSets DEF Renews
  <2>4. CASE req.holder # NoHolder /\ ~ active(key(req)) /\ grant(req, key(req))
    BY <2>1, <2>4, GrantSets DEF Grants, OptHolder
  <2> QED
    BY <1>2, <2>2, <2>3, <2>4 DEF AcquireLock, key
<1>8. CASE \E req \in RenewRequests : RenewLock(req)
  <2> PICK req \in RenewRequests : RenewLock(req)
    BY <1>8
  <2>1. req.ttl \in Int
    BY LockRequestAssumption DEF LeaseRequest
  <2>2. CASE lockConflict(req, key(req))
    BY <1>2, <2>2 DEF lockConflict
  <2>3. CASE active(key(req)) /\ locks[key(req)].holder = req.holder /\ renew(req, key(req))
    BY <2>1, <2>3, RenewSets DEF Renews
  <2>4. CASE notHeld(req, key(req))
    BY <2>4, NotHeldSweeps
  <2> QED
    BY <1>2, <2>2, <2>3, <2>4 DEF RenewLock, key
<1>9. CASE \E req \in ReleaseRequests : ReleaseLock(req)
  <2> PICK req \in ReleaseRequests : ReleaseLock(req)
    BY <1>9
  <2>1. CASE lockConflict(req, key(req))
    BY <1>2, <2>1 DEF lockConflict
  <2>2. CASE active(key(req)) /\ mayRelease(req, key(req)) /\ release(req, key(req))
    BY <2>2 DEF mayRelease, release, Releases
  <2>3. CASE notHeld(req, key(req))
    BY <2>3, NotHeldSweeps
  <2> QED
    BY <1>2, <2>1, <2>2, <2>3 DEF ReleaseLock, key
<1>10. CASE ReapExpiredLocks
  <2>1. CASE reapAll
    <3>1. \A k \in expired \cap DOMAIN locks : IsExpired(locks[k], clock)
      BY DEF expired
    <3>2. locks' = Delete(locks, expired) /\ clock' = clock
      BY <2>1 DEF reapAll
    <3> QED
      BY <3>1, <3>2 DEF Sweeps
  <2> QED
    BY <1>2, <1>10, <2>1 DEF ReapExpiredLocks
<1> QED
  BY <1>1, <1>3, <1>4, <1>5, <1>6, <1>7, <1>8, <1>9, <1>10 DEF Next
-----------------------------------------------------------------------------
(* Nobody loses a lease to another client.                                 *)

LEMMA DeleteFacts ==
  ASSUME NEW S, NEW k \in DOMAIN locks, k \notin S
  PROVE  k \in DOMAIN Delete(locks, S) /\ Delete(locks, S)[k] = locks[k]
BY DEF Delete, Restrict

LEMMA StepStealsNothing ==
  ASSUME TypeOK, [Next]_vars
  PROVE  LeaseStep
<1> SUFFICES ASSUME NEW k \in leases
             PROVE  \/ k \in DOMAIN locks' /\ locks'[k] = locks[k]
                    \/ \E req \in AcquireRequests \cup RenewRequests :
                         /\ key(req) = k
                         /\ req.holder = locks[k].holder
                         /\ AcquireLock(req) \/ RenewLock(req)
                         /\ locks'[k].holder = req.holder
                    \/ \E req \in ReleaseRequests :
                         /\ key(req) = k
                         /\ req.holder = locks[k].holder
                         /\ ReleaseLock(req)
  BY DEF LeaseStep, key
<1>1. k \in DOMAIN locks /\ ~ IsExpired(locks[k], clock) /\ active(k)
  BY DEF leases, active
<1>2. CASE locks' = locks
  BY <1>1, <1>2
<1>3. CASE Sweeps
  <2> PICK S : /\ \A x \in S \cap DOMAIN locks : IsExpired(locks[x], clock)
               /\ locks' = Delete(locks, S)
    BY <1>3 DEF Sweeps
  <2>1. k \notin S
    BY <1>1
  <2> QED
    BY <1>1, <2>1, DeleteFacts
<1>4. ASSUME NEW x, NEW holder, Sets(x, holder)
      PROVE  /\ k # x => k \in DOMAIN locks' /\ locks'[k] = locks[k]
             /\ k = x => locks'[k].holder = holder
  BY <1>1, <1>4 DEF Sets, Put
<1>5. CASE Grants
  BY <1>1, <1>4, <1>5 DEF Grants
<1>6. CASE Renews
  BY <1>4, <1>6 DEF Renews
<1>7. CASE Releases
  <2> PICK req \in ReleaseRequests :
         /\ locks[key(req)].holder = req.holder
         /\ ReleaseLock(req)
         /\ locks' = Delete(locks, {key(req)})
    BY <1>7 DEF Releases
  <2>1. CASE k = key(req)
    BY <2>1
  <2>2. CASE k # key(req)
    BY <1>1, <2>2, DeleteFacts
  <2> QED
    BY <2>1, <2>2
<1> QED
  BY <1>2, <1>3, <1>5, <1>6, <1>7, LockSteps

(* A lease in force leaves the table, or changes, only by a call of its    *)
(* own holder.                                                             *)
THEOREM LeasesAreSafe == Spec => NoLeaseIsStolen
<1>1. TypeOK /\ [Next]_vars => [LeaseStep]_vars
  BY StepStealsNothing
<1> QED
  BY <1>1, TypeCorrect, PTL DEF Spec, NoLeaseIsStolen
-----------------------------------------------------------------------------
(* The locks implement the lease table.  Only documents that can be leased *)
(* are in the lock table; what a step does to the table is a step of the   *)
(* lease table, or none.                                                   *)

Leasable == DOMAIN locks \subseteq leasable

leaseMap ==
  [k \in leases |-> [owner |-> locks[k].holder, end |-> locks[k].expiresAt]]

LEMMA StepLeasable ==
  ASSUME TypeOK, Leasable, [Next]_vars
  PROVE  Leasable'
<1>1. CASE locks' = locks
  BY <1>1 DEF Leasable
<1>2. CASE Sweeps \/ Releases
  <2> PICK S : locks' = Delete(locks, S)
    BY <1>2 DEF Sweeps, Releases
  <2>1. DOMAIN locks' \subseteq DOMAIN locks
    BY DEF Delete, Restrict
  <2> QED
    BY <2>1 DEF Leasable
<1>3. CASE Grants
  BY <1>3 DEF Grants, Sets, Put, Leasable, leasable, key
<1>4. CASE Renews
  BY <1>4 DEF Renews, Sets, Put, Leasable, active, present
<1> QED
  BY <1>1, <1>2, <1>3, <1>4, LockSteps

(* What each kind of step does to the leases in force.                     *)

LEMMA SetsLease ==
  ASSUME TypeOK, NEW k, NEW holder, Sets(k, holder)
  PROVE  \E end \in clock .. clock + MaxLockTTL :
           Leases!Term(end) /\ Leases!Set(k, holder, end)
<1> PICK lock \in Lock : /\ locks' = Put(locks, k, lock)
                         /\ lock.holder = holder
                         /\ clock < lock.expiresAt
                         /\ lock.expiresAt <= clock + MaxLockTTL
  BY DEF Sets
<1>1. clock' = clock /\ clock \in Nat /\ MaxLockTTL \in Nat
  BY TTLAssumption DEF Sets, TypeOK
<1>2. lock.expiresAt \in Nat
  BY DEF Lock
<1>3. /\ DOMAIN locks' = DOMAIN locks \cup {k}
      /\ locks'[k] = lock
      /\ \A j \in DOMAIN locks \ {k} : locks'[j] = locks[j]
  BY DEF Put
<1>4. leases' = leases \cup {k}
  BY <1>1, <1>2, <1>3 DEF leases, active, present, IsExpired
<1>5. \A j \in leases \ {k} : locks'[j] = locks[j]
  BY <1>3 DEF leases
<1>6. leaseMap' = [j \in leases \cup {k} |->
                     IF j = k THEN [owner |-> holder, end |-> lock.expiresAt]
                              ELSE leaseMap[j]]
  BY <1>3, <1>4, <1>5 DEF leaseMap
<1>7. lock.expiresAt \in clock .. clock + MaxLockTTL
  BY <1>1, <1>2
<1>8. Leases!Term(lock.expiresAt)
  BY <1>1, <1>2 DEF Leases!Term
<1>9. Leases!Set(k, holder, lock.expiresAt)
  <2>1. DOMAIN leaseMap = leases
    BY DEF leaseMap
  <2>2. leaseMap' = [j \in DOMAIN leaseMap \cup {k} |->
                      IF j = k THEN [owner |-> holder, end |-> lock.expiresAt]
                               ELSE leaseMap[j]]
    BY <1>6, <2>1
  <2> QED
    BY <2>2, Zenon DEF Leases!Set, leaseMap
<1> QED
  BY <1>7, <1>8, <1>9

LEMMA DeleteLeases ==
  ASSUME NEW S, locks' = Delete(locks, S), clock' = clock
  PROVE  leaseMap' = [j \in leases \ S |-> leaseMap[j]]
<1>1. /\ DOMAIN locks' = DOMAIN locks \ S
      /\ \A j \in DOMAIN locks \ S : locks'[j] = locks[j]
  BY DEF Delete, Restrict
<1>2. leases' = leases \ S
  BY <1>1 DEF leases, active, present
<1>3. \A j \in leases \ S : locks'[j] = locks[j]
  BY <1>1 DEF leases
<1> QED
  BY <1>2, <1>3 DEF leaseMap

LEMMA TickEndsLeases ==
  ASSUME TypeOK, locks' = locks, clock' = clock + 1
  PROVE  leaseMap' = [j \in leases \ {i \in leases : locks[i].expiresAt <= clock + 1}
                        |-> leaseMap[j]]
<1>1. \A k \in DOMAIN locks : locks[k].expiresAt \in Nat
  BY DEF TypeOK, IsMap, Lock
<1>2. leases' = leases \ {i \in leases : locks[i].expiresAt <= clock + 1}
  BY <1>1 DEF leases, active, present, IsExpired, TypeOK
<1> QED
  BY <1>2 DEF leaseMap

LEMMA StepIsLeaseStep ==
  ASSUME TypeOK, Leasable, [Next]_vars
  PROVE  [Leases!Next]_<<leaseMap, clock>>
<1>1. leases \subseteq leasable /\ DOMAIN leaseMap = leases
  BY DEF Leasable, leases, leaseMap
<1>2. \A k \in leases : leaseMap[k] = [owner |-> locks[k].holder,
                                       end |-> locks[k].expiresAt]
  BY DEF leaseMap
<1>3. CASE locks' = locks /\ clock' = clock
  BY <1>3 DEF leaseMap, leases, active, present
<1>4. CASE locks' = locks /\ clock' = clock + 1
  <2>1. Leases!Advance
    BY <1>4, <1>2, TickEndsLeases DEF Leases!Advance, Leases!Without, leaseMap
  <2> QED
    BY <2>1 DEF Leases!Next
<1>5. CASE Sweeps
  <2> PICK S : /\ \A x \in S \cap DOMAIN locks : IsExpired(locks[x], clock)
               /\ locks' = Delete(locks, S)
    BY <1>5 DEF Sweeps
  <2>1. leases \ S = leases
    BY DEF leases, active
  <2>2. clock' = clock
    BY <1>5 DEF Sweeps
  <2>3. leaseMap' = leaseMap
    BY <2>1, <2>2, DeleteLeases DEF leaseMap
  <2> QED
    BY <2>2, <2>3
<1>6. CASE Grants
  <2> PICK req \in AcquireRequests : /\ req.holder \in Holder
                                     /\ ~ active(key(req))
                                     /\ Sets(key(req), req.holder)
    BY <1>6 DEF Grants
  <2>1. key(req) \in leasable /\ key(req) \notin leases
    BY DEF leasable, leases, key
  <2>2. clock' = clock
    BY DEF Sets
  <2>3. Leases!Grant(key(req), req.holder)
    BY <2>1, <2>2, SetsLease DEF Leases!Grant
  <2> QED
    BY <2>1, <2>3 DEF Leases!Next
<1>7. CASE Renews
  <2> PICK req \in AcquireRequests \cup RenewRequests :
         /\ active(key(req))
         /\ locks[key(req)].holder = req.holder
         /\ Sets(key(req), req.holder)
    BY <1>7 DEF Renews
  <2>1. key(req) \in leases /\ key(req) \in leasable /\ req.holder \in Holder
    BY <1>1 DEF leases, active, present, TypeOK, IsMap, Lock
  <2>2. clock' = clock
    BY DEF Sets
  <2>3. Leases!Renew(key(req), req.holder)
    BY <2>1, <2>2, SetsLease DEF Leases!Renew
  <2> QED
    BY <2>1, <2>3 DEF Leases!Next
<1>8. CASE Releases
  <2> PICK req \in ReleaseRequests : /\ active(key(req))
                                     /\ locks[key(req)].holder = req.holder
                                     /\ locks' = Delete(locks, {key(req)})
                                     /\ clock' = clock
    BY <1>8 DEF Releases
  <2>1. key(req) \in leases /\ key(req) \in leasable /\ req.holder \in Holder
    BY <1>1 DEF leases, active, present, TypeOK, IsMap, Lock
  <2>2. Leases!GiveUp(key(req), req.holder)
    BY <2>1, DeleteLeases DEF Leases!GiveUp, Leases!Without, leaseMap
  <2> QED
    BY <2>1, <2>2 DEF Leases!Next
<1> QED
  BY <1>3, <1>4, <1>5, <1>6, <1>7, <1>8, LockSteps

(* The edit locks, seen as the leases in force, behave as the lease table. *)
THEOREM LocksAreLeases == Spec => ImplementsLeaseTable
<1>1. Init => Leasable /\ Leases!Init
  <2> SUFFICES ASSUME Init
               PROVE  Leasable /\ Leases!Init
    OBVIOUS
  <2>1. locks = << >> /\ clock \in Nat
    BY DEF Init
  <2>2. DOMAIN locks = {}
    BY <2>1
  <2>3. leaseMap = << >>
    BY <2>2 DEF leaseMap, leases
  <2> QED
    BY <2>1, <2>2, <2>3 DEF Leasable, Leases!Init, leaseMap
<1>2. TypeOK /\ Leasable /\ [Next]_vars => Leasable'
  BY StepLeasable
<1>3. TypeOK /\ Leasable /\ [Next]_vars => [Leases!Next]_<<leaseMap, clock>>
  BY StepIsLeaseStep
<1> QED
  BY <1>1, <1>2, <1>3, TypeCorrect, PTL
     DEF Spec, ImplementsLeaseTable, Leases!Spec, leaseMap
-----------------------------------------------------------------------------
(* A call that is answered with an error does no harm.                     *)

(* What a call that fails may do to the stored state: delete an expired    *)
(* lock it met.                                                            *)
Harmless ==
  /\ UNCHANGED <<collections, documents, history>>
  /\ locks' = locks \/ Sweeps

(* What a method returns on success is not an error.                       *)
LEMMA SuccessIsNoError ==
  ASSUME NEW req, NEW value, Return(req, Ok(value))
  PROVE  reply'.err = "none"
BY DEF Return, Ok

LEMMA QuietIsHarmless ==
  ASSUME NEW req, NEW malformed, NEW err,
         TurnAway(malformed) \/ Replay(req) \/ Refuse(req, err) \/ Panic(req)
  PROVE  Harmless
BY DEF TurnAway, Replay, Refuse, Panic, stored, Harmless

LEMMA ConflictIsHarmless ==
  ASSUME NEW req, NEW k, lockConflict(req, k)
  PROVE  Harmless
BY QuietIsHarmless DEF lockConflict

LEMMA NotHeldIsHarmless ==
  ASSUME NEW req, NEW k, notHeld(req, k)
  PROVE  Harmless
BY NotHeldSweeps DEF notHeld, Harmless

LEMMA LockSuccesses ==
  ASSUME NEW req, NEW k, grant(req, k) \/ renew(req, k) \/ release(req, k)
  PROVE  reply'.err = "none"
BY SuccessIsNoError DEF grant, renew, release

(* Every step of the service either answers without an error or does no    *)
(* harm: one step of the proof for each operation.                         *)
LEMMA ErrorsAreHarmless ==
  ASSUME [Next]_vars, reply'.err # "none"
  PROVE  Harmless
<1>1. CASE Tick \/ UNCHANGED vars
  BY <1>1 DEF Tick, vars, stored, Harmless
<1>2. CASE \E req \in RegisterRequests : RegisterCollection(req)
  <2> PICK req \in RegisterRequests : RegisterCollection(req)
    BY <1>2
  <2>1. ASSUME NEW id, registerNew(req, id) \/ returnExisting(req, id)
        PROVE  FALSE
    BY <2>1, SuccessIsNoError DEF registerNew, returnExisting
  <2> QED
    BY <2>1, QuietIsHarmless DEF RegisterCollection
<1>3. CASE \E req \in CreateRequests : CreateDocument(req)
  <2> PICK req \in CreateRequests : CreateDocument(req)
    BY <1>3
  <2>1. ASSUME NEW id, insert(req, id)
        PROVE  FALSE
    BY <2>1, SuccessIsNoError DEF insert
  <2> QED
    BY <2>1, QuietIsHarmless DEF CreateDocument
<1>4. CASE \E req \in UpdateRequests : UpdateDocument(req)
  <2> PICK req \in UpdateRequests : UpdateDocument(req)
    BY <1>4
  <2>1. ~ update(req)
    BY SuccessIsNoError DEF update
  <2> QED
    BY <2>1, QuietIsHarmless DEF UpdateDocument
<1>5. CASE \E req \in BatchRequests : BatchUpdateDocuments(req)
  <2> PICK req \in BatchRequests : BatchUpdateDocuments(req)
    BY <1>5
  <2>1. ~ applyBatch(req)
    BY SuccessIsNoError DEF applyBatch
  <2>2. rejectBatch(req) => Harmless
    BY DEF rejectBatch, Harmless
  <2> QED
    BY <2>1, <2>2, QuietIsHarmless DEF BatchUpdateDocuments
<1>6. CASE \E req \in AcquireRequests : AcquireLock(req)
  BY <1>6, QuietIsHarmless, ConflictIsHarmless, LockSuccesses DEF AcquireLock
<1>7. CASE \E req \in RenewRequests : RenewLock(req)
  BY <1>7, QuietIsHarmless, ConflictIsHarmless, NotHeldIsHarmless, LockSuccesses
     DEF RenewLock
<1>8. CASE \E req \in ReleaseRequests : ReleaseLock(req)
  BY <1>8, QuietIsHarmless, ConflictIsHarmless, NotHeldIsHarmless, LockSuccesses
     DEF ReleaseLock
<1>9. CASE ReapExpiredLocks
  <2>1. ASSUME reapAll
        PROVE  FALSE
    <3>1. \E value : reply' = Ok(value)
      BY <2>1, Zenon DEF reapAll
    <3> QED
      BY <3>1 DEF Ok
  <2> QED
    BY <1>9, <2>1, QuietIsHarmless DEF ReapExpiredLocks
<1> QED
  BY <1>1, <1>2, <1>3, <1>4, <1>5, <1>6, <1>7, <1>8, <1>9 DEF Next

(* To delete expired locks takes no lease and adds none.                   *)
LEMMA HarmlessKeepsLeases ==
  ASSUME Harmless
  PROVE  /\ \A k \in leases : k \in DOMAIN locks' /\ locks'[k] = locks[k]
         /\ \A k \in DOMAIN locks' : k \in DOMAIN locks
<1>1. CASE locks' = locks
  BY <1>1 DEF leases
<1>2. CASE Sweeps
  <2> PICK S : /\ \A x \in S \cap DOMAIN locks : IsExpired(locks[x], clock)
               /\ locks' = Delete(locks, S)
    BY <1>2 DEF Sweeps
  <2>1. \A k \in leases : k \in DOMAIN locks /\ k \notin S
    BY DEF leases, active
  <2>2. \A k \in leases : k \in DOMAIN locks' /\ locks'[k] = locks[k]
    BY <2>1, DeleteFacts
  <2>3. DOMAIN locks' \subseteq DOMAIN locks
    BY DEF Delete, Restrict
  <2> QED
    BY <2>2, <2>3
<1> QED
  BY <1>1, <1>2 DEF Harmless

(* A caller that gets an error may conclude that no document, history,     *)
(* collection or lease in force changed.                                   *)
THEOREM RefusalsAreHarmless == Spec => RefusalsChangeNothing
<1>1. [Next]_vars => [RefusalStep]_vars
  <2> SUFFICES ASSUME [Next]_vars, reply'.err # "none"
               PROVE  RefusalStep
    BY DEF RefusalStep
  <2>1. Harmless
    BY ErrorsAreHarmless
  <2> QED
    BY <2>1, HarmlessKeepsLeases DEF RefusalStep, Harmless
<1> QED
  BY <1>1, PTL DEF Spec, RefusalsChangeNothing
=============================================================================
