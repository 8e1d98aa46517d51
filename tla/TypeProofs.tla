----------------------------- MODULE TypeProofs ------------------------------
(***************************************************************************)
(* Type correctness of the service, for every value of the constants: the  *)
(* maps, the log, the counters, the recorded outcomes and the replies have *)
(* the types ServiceState declares in every reachable state.               *)
(***************************************************************************)
EXTENDS ServiceProperties, FiniteSetTheorems, SequenceTheorems, TLAPS

LEMMA PutType ==
  ASSUME NEW m, NEW K, NEW V, IsMap(m, K, V), NEW k \in K, NEW v \in V
  PROVE  /\ IsMap(Put(m, k, v), K, V)
         /\ DOMAIN Put(m, k, v) = DOMAIN m \cup {k}
         /\ Put(m, k, v)[k] = v
         /\ \A x \in DOMAIN m : x # k => Put(m, k, v)[x] = m[x]
BY DEF IsMap, Put

LEMMA DeleteType ==
  ASSUME NEW m, NEW K, NEW V, IsMap(m, K, V), NEW S
  PROVE  /\ IsMap(Delete(m, S), K, V)
         /\ DOMAIN Delete(m, S) = DOMAIN m \ S
         /\ \A x \in DOMAIN m \ S : Delete(m, S)[x] = m[x]
BY DEF IsMap, Delete, Restrict

LEMMA FunctionIsSequence ==
  ASSUME NEW S, NEW n \in Nat, NEW f \in [1 .. n -> S]
  PROVE  f \in Seq(S) /\ Len(f) = n
OBVIOUS

LEMMA KeyType ==
  ASSUME NEW c \in ID, NEW d \in ID
  PROVE  documentKey(c, d) \in ID
<1>1. c \in Seq(Segment) /\ d \in Seq(Segment) /\ c # <<>>
  BY DEF ID
<1>2. c \o d \in Seq(Segment) /\ Len(c \o d) = Len(c) + Len(d)
  BY <1>1
<1>3. Len(c) \in Nat /\ Len(c) # 0 /\ Len(d) \in Nat
  BY <1>1
<1> QED
  BY <1>2, <1>3 DEF documentKey, ID

(* The event handlers build, whatever the details.                         *)
LEMMA EventTyped ==
  ASSUME clock \in Nat, NEW type \in EventType, NEW actor \in Actor,
         NEW c \in ID, NEW d \in OptID, NEW key \in OptKey,
         NEW details \in Details
  PROVE  Event(type, actor, c, d, key, details) \in AuditEvent
BY DEF Event, AuditEvent

LEMMA AppendAuditType ==
  ASSUME audit \in Seq(AuditEvent), auditSeq \in Nat,
         NEW events \in Seq(AuditEvent), appendAudit(events)
  PROVE  /\ audit' \in Seq(AuditEvent)
         /\ auditSeq' = auditSeq + Len(events)
         /\ auditSeq' \in Nat
         /\ Len(audit') = Len(audit) + Len(events)
         /\ \A i \in 1 .. Len(audit) : audit'[i] = audit[i]
         /\ \A i \in 1 .. Len(events) :
              audit'[Len(audit) + i] = [events[i] EXCEPT !.sequence = auditSeq + i]
<1> DEFINE new == [i \in 1 .. Len(events) |->
                     [events[i] EXCEPT !.sequence = auditSeq + i]]
<1>1. Len(events) \in Nat /\ Len(audit) \in Nat
  OBVIOUS
<1>2. ASSUME NEW i \in 1 .. Len(events)
      PROVE  [events[i] EXCEPT !.sequence = auditSeq + i] \in AuditEvent
  <2>1. events[i] \in AuditEvent
    OBVIOUS
  <2>2. auditSeq + i \in Nat
    OBVIOUS
  <2> QED
    BY <2>1, <2>2 DEF AuditEvent
<1>3. new \in Seq(AuditEvent) /\ Len(new) = Len(events)
  BY <1>1, <1>2
<1>4. audit' = audit \o new /\ auditSeq' = auditSeq + Len(events)
  BY DEF appendAudit
<1>5. \A i \in 1 .. Len(events) :
        new[i] = [events[i] EXCEPT !.sequence = auditSeq + i]
  OBVIOUS
<1> HIDE DEF new
<1>6. /\ audit \o new \in Seq(AuditEvent)
      /\ Len(audit \o new) = Len(audit) + Len(new)
      /\ \A i \in 1 .. Len(audit) + Len(new) :
           (audit \o new)[i] = IF i <= Len(audit) THEN audit[i] ELSE new[i - Len(audit)]
  BY <1>3, ConcatProperties
<1>7. \A i \in 1 .. Len(events) : audit'[Len(audit) + i] = new[i]
  <2> TAKE i \in 1 .. Len(events)
  <2>1. /\ Len(audit) + i \in 1 .. Len(audit) + Len(new)
        /\ ~ Len(audit) + i <= Len(audit)
        /\ Len(audit) + i - Len(audit) = i
    BY <1>1, <1>3
  <2> QED
    BY <2>1, <1>4, <1>6
<1>8. \A i \in 1 .. Len(audit) : audit'[i] = audit[i]
  BY <1>1, <1>3, <1>4, <1>6
<1> QED
  BY <1>1, <1>3, <1>4, <1>5, <1>6, <1>7, <1>8
LEMMA AppendOneType ==
  ASSUME audit \in Seq(AuditEvent), auditSeq \in Nat,
         NEW event \in AuditEvent, appendAudit(<<event>>)
  PROVE  /\ audit' \in Seq(AuditEvent)
         /\ auditSeq' \in Nat
         /\ auditSeq' = auditSeq + 1
         /\ Len(audit') = Len(audit) + 1
         /\ \A i \in 1 .. Len(audit) : audit'[i] = audit[i]
         /\ audit'[Len(audit) + 1] = [event EXCEPT !.sequence = auditSeq + 1]
<1>1. <<event>> \in Seq(AuditEvent) /\ Len(<<event>>) = 1 /\ <<event>>[1] = event
  OBVIOUS
<1> DEFINE events == <<event>>
<1> HIDE DEF events
<1>2. events \in Seq(AuditEvent) /\ Len(events) = 1 /\ events[1] = event
  BY <1>1 DEF events
<1>3. appendAudit(events)
  BY DEF events
<1>4. /\ audit' \in Seq(AuditEvent)
      /\ auditSeq' = auditSeq + Len(events)
      /\ auditSeq' \in Nat
      /\ Len(audit') = Len(audit) + Len(events)
      /\ \A i \in 1 .. Len(audit) : audit'[i] = audit[i]
      /\ \A i \in 1 .. Len(events) :
           audit'[Len(audit) + i] = [events[i] EXCEPT !.sequence = auditSeq + i]
  BY <1>2, <1>3, AppendAuditType
<1>5. 1 \in 1 .. Len(events)
  BY <1>2
<1>6. audit'[Len(audit) + 1] = [event EXCEPT !.sequence = auditSeq + 1]
  BY <1>2, <1>4, <1>5
<1> QED
  BY <1>2, <1>4, <1>6

-----------------------------------------------------------------------------
(* What the write operations share.                                        *)

StoredOK ==
  /\ IsMap(collections, ID, Collection)
  /\ IsMap(documents, ID, Document)
  /\ IsMap(history, ID, Seq(Revision))
  /\ IsMap(locks, ID, Lock) /\ IsFiniteSet(DOMAIN locks)
  /\ audit \in Seq(AuditEvent)
  /\ auditSeq \in Nat

AnswersOK ==
  /\ DOMAIN idem \subseteq IdemKey
  /\ \A k \in DOMAIN idem : idem[k].outcome \in Outcome
  /\ reply \in Outcome

LEMMA TypeParts == TypeOK <=> StoredOK /\ AnswersOK /\ clock \in Nat
BY DEF TypeOK, StoredOK, AnswersOK

LEMMA StoredUnchanged ==
  ASSUME StoredOK, UNCHANGED stored
  PROVE  StoredOK'
BY DEF StoredOK, stored

LEMMA FailType ==
  ASSUME NEW err \in ErrorKind
  PROVE  Fail(err) \in Outcome
BY DEF Fail, Outcome, Value

LEMMA OkType ==
  ASSUME NEW value \in Value
  PROVE  Ok(value) \in Outcome
BY DEF Ok, Outcome, ErrorKind

LEMMA RecordType ==
  ASSUME AnswersOK, NEW req, req.key \in OptKey, NEW outcome \in Outcome,
         Record(req, outcome), reply' \in Outcome
  PROVE  AnswersOK'
<1>1. CASE req.key = NoKey
  BY <1>1 DEF AnswersOK, Record
<1>2. CASE req.key # NoKey
  <2>1. req.key \in IdemKey
    BY <1>2 DEF OptKey
  <2>2. idem' = Put(idem, req.key, [fingerprint |-> fingerprint(req),
                                    outcome |-> outcome])
    BY <1>2 DEF Record
  <2> QED
    BY <2>1, <2>2 DEF AnswersOK, Put
<1> QED
  BY <1>1, <1>2

LEMMA ReturnType ==
  ASSUME AnswersOK, NEW req, req.key \in OptKey, NEW outcome \in Outcome,
         Return(req, outcome)
  PROVE  AnswersOK'
BY RecordType DEF Return

LEMMA TurnAwayType ==
  ASSUME TypeOK, NEW malformed, TurnAway(malformed)
  PROVE  TypeOK'
<1>1. reply' \in Outcome
  BY FailType DEF TurnAway, ErrorKind
<1>2. StoredOK' /\ UNCHANGED <<idem, clock>>
  BY TypeParts, StoredUnchanged DEF TurnAway
<1> QED
  BY <1>1, <1>2, TypeParts DEF AnswersOK, StoredOK, TypeOK

LEMMA ReplayType ==
  ASSUME TypeOK, NEW req, Replay(req)
  PROVE  TypeOK'
<1>1. reply' \in Outcome
  <2>1. req.key \in DOMAIN idem
    BY DEF Replay, Known
  <2> QED
    BY <2>1, FailType DEF Replay, TypeOK, ErrorKind
<1>2. StoredOK' /\ UNCHANGED <<idem, clock>>
  BY TypeParts, StoredUnchanged DEF Replay
<1> QED
  BY <1>1, <1>2 DEF StoredOK, TypeOK

LEMMA RefuseType ==
  ASSUME TypeOK, NEW req, req.key \in OptKey, NEW err \in ErrorKind,
         Refuse(req, err)
  PROVE  TypeOK'
<1>1. AnswersOK'
  BY TypeParts, FailType, ReturnType DEF Refuse
<1>2. StoredOK' /\ clock' = clock
  BY TypeParts, StoredUnchanged DEF Refuse
<1> QED
  BY <1>1, <1>2 DEF StoredOK, AnswersOK, TypeOK

LEMMA PanicType ==
  ASSUME TypeOK, NEW req, req.key \in OptKey, Panic(req)
  PROVE  TypeOK'
<1>1. reply' \in Outcome
  BY FailType DEF Panic, ErrorKind
<1>2. AnswersOK'
  <2>1. Ok(Nil) \in Outcome
    BY OkType DEF Value
  <2> QED
    BY <1>1, <2>1, TypeParts, RecordType DEF Panic
<1>3. StoredOK' /\ clock' = clock
  BY TypeParts, StoredUnchanged DEF Panic
<1> QED
  BY <1>2, <1>3 DEF StoredOK, AnswersOK, TypeOK
-----------------------------------------------------------------------------
(* One lemma for each operation.                                           *)

LEMMA NewIDsType ==
  ASSUME NEW id \in OptID
  PROVE  NewIDs(id) \subseteq ID
BY IdentityAssumption DEF NewIDs, OptID

LEMMA RegisterCollectionType ==
  ASSUME TypeOK, NEW req \in RegisterRequests, RegisterCollection(req)
  PROVE  TypeOK'
<1> DEFINE malformed == TrimSpace[req.name] = Empty
<1>1. /\ req.key \in OptKey /\ req.id \in OptID /\ req.actor \in Actor
      /\ req.name \in Text /\ req.description \in Text
  BY RegisterAssumption DEF RegisterRequest
<1>2. CASE TurnAway(malformed)
  BY <1>2, TurnAwayType
<1>3. CASE Replay(req)
  BY <1>3, ReplayType
<1>4. CASE Panic(req)
  BY <1>1, <1>4, PanicType
<1>5. ASSUME NEW id \in NewIDs(req.id), collectionExists(id), returnExisting(req, id)
      PROVE  TypeOK'
  <2>1. collections[id] \in Collection
    BY <1>5 DEF TypeOK, IsMap, collectionExists
  <2>2. AnswersOK'
    BY <1>1, <1>5, <2>1, TypeParts, OkType, ReturnType DEF returnExisting, Value
  <2> QED
    BY <1>5, <2>2, TypeParts, StoredUnchanged DEF returnExisting, StoredOK, TypeOK, AnswersOK
<1>6. ASSUME NEW id \in NewIDs(req.id), registerNew(req, id)
      PROVE  TypeOK'
  <2> DEFINE col == [id |-> id, name |-> req.name,
                     description |-> req.description, createdAt |-> clock]
             details == [name |-> req.name, description |-> req.description]
             event == Event("collection.created", req.actor, id, NoID, req.key, details)
  <2>1. id \in ID
    BY <1>1, NewIDsType
  <2>2. col \in Collection
    BY <1>1, <2>1 DEF TypeOK, Collection
  <2>3. IsMap(collections', ID, Collection)
    BY <1>6, <2>1, <2>2, PutType DEF TypeOK, registerNew
  <2>4. AnswersOK'
    BY <1>1, <1>6, <2>2, TypeParts, OkType, ReturnType DEF registerNew, Value
  <2>5. event \in AuditEvent
    <3>1. details \in Details
      BY <1>1 DEF Details
    <3> QED
      BY <1>1, <2>1, <3>1, EventTyped DEF TypeOK, EventType, OptID
  <2>6. audit' \in Seq(AuditEvent) /\ auditSeq' \in Nat
    BY <1>6, <2>5, AppendOneType DEF TypeOK, registerNew
  <2> QED
    BY <1>6, <2>3, <2>4, <2>6 DEF registerNew, TypeOK, AnswersOK
<1> QED
  BY <1>2, <1>3, <1>4, <1>5, <1>6 DEF RegisterCollection
-----------------------------------------------------------------------------
(* Documents.                                                              *)

LEMMA TagsType ==
  ASSUME NEW in \in Seq(Text)
  PROVE  normalizeTags(in) \subseteq Tag
<1>1. \A i \in DOMAIN in : in[i] \in Text
  OBVIOUS
<1> QED
  BY <1>1, TextAssumption DEF normalizeTags, Tag

LEMMA RevisionType ==
  ASSUME clock \in Nat, NEW doc \in Document, NEW actor \in Actor, NEW reason \in Text
  PROVE  revision(doc, actor, reason) \in Revision
BY DEF revision, Document, Revision

IsPatch(p) ==
  p.title \in OptText /\ p.content \in OptText /\ p.tags \in OptTags /\ p.reason \in Text

LEMMA UpdatedType ==
  ASSUME clock \in Nat, NEW doc \in Document, NEW patch, IsPatch(patch)
  PROVE  /\ updated(doc, patch) \in Document
         /\ updated(doc, patch).version = doc.version + 1
         /\ updated(doc, patch).id = doc.id
         /\ updated(doc, patch).collection = doc.collection
         /\ updated(doc, patch).updatedAt = clock
<1>1. /\ Overwrite(doc.title, patch.title) \in Text
      /\ Overwrite(doc.content, patch.content) \in Text
  BY DEF Overwrite, IsPatch, OptText, Document
<1>2. (IF patch.tags = Nil THEN doc.tags ELSE normalizeTags(patch.tags)) \in SUBSET Tag
  BY TagsType DEF IsPatch, OptTags, Document
<1>3. doc.version + 1 \in Version
  BY DEF Document, Version
<1> QED
  BY <1>1, <1>2, <1>3 DEF updated, Document

LEMMA ApplyUpdatesType ==
  ASSUME TypeOK, NEW actor \in Actor, NEW patches,
         DOMAIN patches \subseteq DOMAIN documents,
         \A k \in DOMAIN patches : IsPatch(patches[k]),
         applyUpdates(actor, patches)
  PROVE  /\ IsMap(documents', ID, Document)
         /\ IsMap(history', ID, Seq(Revision))
         /\ DOMAIN documents' = DOMAIN documents
         /\ DOMAIN history' = DOMAIN history
         /\ \A k \in DOMAIN patches :
              documents'[k] = updated(documents[k], patches[k])
         /\ \A k \in DOMAIN documents \ DOMAIN patches : documents'[k] = documents[k]
         /\ \A k \in DOMAIN patches \cap DOMAIN history :
              history'[k] = Append(history[k],
                              revision(documents'[k], actor, patches[k].reason))
         /\ \A k \in DOMAIN history \ DOMAIN patches : history'[k] = history[k]
<1>1. \A k \in DOMAIN patches :
        /\ documents[k] \in Document
        /\ updated(documents[k], patches[k]) \in Document
  BY UpdatedType DEF TypeOK, IsMap
<1>2. /\ documents' = [k \in DOMAIN documents |->
                         IF k \in DOMAIN patches THEN updated(documents[k], patches[k])
                                                 ELSE documents[k]]
      /\ history' = [k \in DOMAIN history |->
                       IF k \in DOMAIN patches
                       THEN Append(history[k],
                                   revision(updated(documents[k], patches[k]), actor,
                                            patches[k].reason))
                       ELSE history[k]]
  BY DEF applyUpdates
<1>3. IsMap(documents', ID, Document)
  BY <1>1, <1>2 DEF TypeOK, IsMap
<1>4. \A k \in DOMAIN patches :
        revision(updated(documents[k], patches[k]), actor, patches[k].reason) \in Revision
  BY <1>1, RevisionType DEF TypeOK, IsPatch
<1>5. ASSUME NEW k \in DOMAIN history
      PROVE  history'[k] \in Seq(Revision)
  <2>1. history[k] \in Seq(Revision)
    BY DEF TypeOK, IsMap
  <2> QED
    BY <1>2, <1>4, <2>1
<1>6. IsMap(history', ID, Seq(Revision))
  BY <1>2, <1>5 DEF TypeOK, IsMap
<1> QED
  BY <1>2, <1>3, <1>6

LEMMA LookupFinds ==
  ASSUME NEW c, NEW d, lookupError(c, d) = "none"
  PROVE  /\ collectionExists(c)
         /\ documentKey(c, d) \in DOMAIN documents
BY DEF lookupError, documentExists

LEMMA LookupErrorType ==
  ASSUME NEW c, NEW d
  PROVE  lookupError(c, d) \in ErrorKind
BY DEF lookupError, ErrorKind

LEMMA UpdatedEventType ==
  ASSUME TypeOK, IsMap(documents', ID, Document), NEW req, NEW item,
         req.actor \in Actor, req.collection \in ID, item.document \in ID,
         documentKey(req.collection, item.document) \in DOMAIN documents',
         item.expected \in Version, item.reason \in Text,
         NEW key \in OptKey, NEW batch \in BOOLEAN
  PROVE  updatedEvent(req, item, key, batch) \in AuditEvent
<1> DEFINE new == documents'[documentKey(req.collection, item.document)]
           details == [from |-> item.expected, to |-> new.version,
                       reason |-> item.reason, batch |-> batch]
<1>1. new.version \in Version
  BY DEF IsMap, Document
<1>2. details \in Details
  BY <1>1 DEF Details
<1> HIDE DEF details
<1>3. Event("document.updated", req.actor, req.collection, item.document, key, details)
        \in AuditEvent
  BY <1>2, EventTyped DEF TypeOK, EventType, DocumentEventType, OptID
<1> QED
  BY <1>3 DEF updatedEvent, details

LEMMA CreateDocumentType ==
  ASSUME TypeOK, NEW req \in CreateRequests, CreateDocument(req)
  PROVE  TypeOK'
<1> DEFINE malformed == TrimSpace[req.title] = Empty
<1>1. /\ req.key \in OptKey /\ req.id \in OptID /\ req.actor \in Actor
      /\ req.collection \in ID
      /\ req.title \in Text /\ req.content \in Text /\ req.tags \in Seq(Text)
  BY DocumentRequestAssumption DEF CreateRequest
<1>2. CASE TurnAway(malformed)
  BY <1>2, TurnAwayType
<1>3. CASE Replay(req)
  BY <1>3, ReplayType
<1>4. CASE Panic(req)
  BY <1>1, <1>4, PanicType
<1>5. CASE Refuse(req, "collection_not_found") \/ Refuse(req, "invalid_input")
  BY <1>1, <1>5, RefuseType DEF ErrorKind
<1>6. ASSUME NEW id \in NewIDs(req.id), insert(req, id)
      PROVE  TypeOK'
  <2> DEFINE key == documentKey(req.collection, id)
             doc == [id |-> id, collection |-> req.collection, title |-> req.title,
                     content |-> req.content, tags |-> normalizeTags(req.tags),
                     version |-> 1, createdAt |-> clock, updatedAt |-> clock]
             rev == revision(doc, req.actor, Empty)
             old == IF key \in DOMAIN history THEN history[key] ELSE <<>>
             event == Event("document.created", req.actor, req.collection, id,
                            req.key, [version |-> 1])
  <2>1. id \in ID /\ key \in ID
    BY <1>1, NewIDsType, KeyType
  <2>2. doc \in Document
    BY <1>1, <2>1, TagsType DEF TypeOK, Document, Version
  <2>3. IsMap(documents', ID, Document)
    BY <1>6, <2>1, <2>2, PutType DEF TypeOK, insert
  <2>4. rev \in Revision
    BY <1>1, <2>2, RevisionType, TextAssumption DEF TypeOK
  <2>5. old \in Seq(Revision)
    BY DEF TypeOK, IsMap
  <2>6. IsMap(history', ID, Seq(Revision))
    <3>1. Append(old, rev) \in Seq(Revision)
      BY <2>4, <2>5
    <3>2. history' = Put(history, key, Append(old, rev))
      BY <1>6 DEF insert
    <3> HIDE DEF old, rev, key
    <3> QED
      BY <2>1, <3>1, <3>2, PutType DEF TypeOK
  <2>7. AnswersOK'
    BY <1>1, <1>6, <2>2, TypeParts, OkType, ReturnType DEF insert, Value
  <2>8. event \in AuditEvent
    <3>1. [version |-> 1] \in Details
      BY DEF Details, Version
    <3> QED
      BY <1>1, <2>1, <3>1, EventTyped
      DEF TypeOK, EventType, DocumentEventType, OptID
  <2>9. audit' \in Seq(AuditEvent) /\ auditSeq' \in Nat
    BY <1>6, <2>8, AppendOneType DEF TypeOK, insert
  <2> QED
    BY <1>6, <2>3, <2>6, <2>7, <2>9 DEF insert, TypeOK, AnswersOK
<1> QED
  BY <1>2, <1>3, <1>4, <1>5, <1>6 DEF CreateDocument

LEMMA UpdateDocumentType ==
  ASSUME TypeOK, NEW req \in UpdateRequests, UpdateDocument(req)
  PROVE  TypeOK'
<1> DEFINE key == documentKey(req.collection, req.document)
           missing == lookupError(req.collection, req.document)
<1>1. /\ req.key \in OptKey /\ req.actor \in Actor
      /\ req.collection \in ID /\ req.document \in ID /\ req.expected \in Int
      /\ IsPatch(req) /\ req.reason \in Text
  BY DocumentRequestAssumption DEF UpdateRequest, IsPatch
<1>2. CASE TurnAway(req.expected < 1)
  BY <1>2, TurnAwayType
<1>3. CASE Replay(req)
  BY <1>3, ReplayType
<1>4. CASE Refuse(req, missing) \/ Refuse(req, "version_conflict")
  <2>1. "version_conflict" \in ErrorKind
    BY DEF ErrorKind
  <2> QED
    BY <1>1, <1>4, <2>1, LookupErrorType, RefuseType
<1>5. CASE missing = "none" /\ ~ req.expected < 1 /\ update(req)
  <2>1. key \in DOMAIN documents
    BY <1>5, LookupFinds
  <2> DEFINE patches == [k \in {key} |-> req]
  <2>2. /\ IsMap(documents', ID, Document)
        /\ IsMap(history', ID, Seq(Revision))
        /\ DOMAIN documents' = DOMAIN documents
    <3>1. /\ DOMAIN patches \subseteq DOMAIN documents
          /\ \A k \in DOMAIN patches : IsPatch(patches[k])
          /\ applyUpdates(req.actor, patches)
      BY <1>1, <1>5, <2>1 DEF update
    <3> HIDE DEF patches
    <3> QED
      BY <1>1, <3>1, ApplyUpdatesType
  <2>3. documents'[key] \in Document
    BY <2>1, <2>2 DEF IsMap
  <2>4. AnswersOK'
    BY <1>1, <1>5, <2>3, TypeParts, OkType, ReturnType DEF update, Value
  <2>5. updatedEvent(req, req, req.key, FALSE) \in AuditEvent
    <3>1. req.expected \in Version
      BY <1>1, <1>5 DEF Version
    <3> QED
      BY <1>1, <2>1, <2>2, <3>1, UpdatedEventType
  <2>6. audit' \in Seq(AuditEvent) /\ auditSeq' \in Nat
    <3>1. appendAudit(<<updatedEvent(req, req, req.key, FALSE)>>)
      BY <1>5 DEF update
    <3> QED
      BY <2>5, <3>1, AppendOneType DEF TypeOK
  <2> QED
    BY <1>5, <2>2, <2>4, <2>6 DEF update, TypeOK, AnswersOK
<1> QED
  BY <1>2, <1>3, <1>4, <1>5 DEF UpdateDocument

(* What the patches of an applied batch are, whatever order its items have. *)
LEMMA BatchPatches ==
  ASSUME TypeOK, NEW req \in BatchRequests, failing(req) = {}, applyBatch(req)
  PROVE  \E patches :
           /\ DOMAIN patches = {itemKey(req, i) : i \in 1 .. Len(req.items)}
           /\ DOMAIN patches \subseteq DOMAIN documents
           /\ \A k \in DOMAIN patches :
                \E i \in 1 .. Len(req.items) :
                  itemKey(req, i) = k /\ patches[k] = req.items[i]
           /\ \A k \in DOMAIN patches : IsPatch(patches[k])
           /\ applyUpdates(req.actor, patches)
<1> DEFINE n == Len(req.items)
           chosen(k) == CHOOSE i \in 1 .. n : itemKey(req, i) = k
           patches == [k \in {itemKey(req, i) : i \in 1 .. n} |->
                         req.items[CHOOSE i \in 1 .. n : itemKey(req, i) = k]]
<1>1. req.items \in Seq(BatchItem) /\ DOMAIN req.items = 1 .. n
  BY DocumentRequestAssumption DEF BatchRequest
<1>2. \A i \in 1 .. n : itemFailure(req, i) = "none"
  BY <1>1 DEF failing
<1>3. \A i \in 1 .. n : itemKey(req, i) \in DOMAIN documents
  BY <1>2 DEF itemFailure, documentExists
<1>4. \A k \in DOMAIN patches : chosen(k) \in 1 .. n /\ itemKey(req, chosen(k)) = k
  OBVIOUS
<1>5. \A k \in DOMAIN patches : patches[k] = req.items[chosen(k)]
  OBVIOUS
<1>6. \A i \in 1 .. n : IsPatch(req.items[i])
  <2>1. \A i \in 1 .. n : req.items[i] \in BatchItem
    BY <1>1
  <2> QED
    BY <2>1 DEF BatchItem, IsPatch
<1>7. applyUpdates(req.actor, patches)
  BY DEF applyBatch
<1>8. DOMAIN patches = {itemKey(req, i) : i \in 1 .. n}
  OBVIOUS
<1> HIDE DEF chosen, patches
<1> QED
  BY <1>3, <1>4, <1>5, <1>6, <1>7, <1>8

LEMMA BatchUpdateDocumentsType ==
  ASSUME TypeOK, NEW req \in BatchRequests, BatchUpdateDocuments(req)
  PROVE  TypeOK'
<1> DEFINE n == Len(req.items)
<1>1. /\ req.key \in OptKey /\ req.actor \in Actor /\ req.collection \in ID
      /\ req.items \in Seq(BatchItem) /\ DOMAIN req.items = 1 .. n /\ n \in Nat
  BY DocumentRequestAssumption DEF BatchRequest
<1>2. \A i \in 1 .. n : /\ req.items[i].document \in ID
                        /\ req.items[i].expected \in Int
                        /\ req.items[i].reason \in Text
                        /\ itemKey(req, i) \in ID
  <2>1. \A i \in 1 .. n : req.items[i] \in BatchItem
    BY <1>1
  <2>2. \A i \in 1 .. n : req.items[i].document \in ID
    BY <2>1 DEF BatchItem
  <2> QED
    BY <1>1, <2>1, <2>2, KeyType DEF BatchItem, itemKey
<1>3. CASE TurnAway(req.items = <<>>)
  BY <1>3, TurnAwayType
<1>4. CASE Replay(req)
  BY <1>4, ReplayType
<1>5. CASE Refuse(req, "collection_not_found")
  BY <1>1, <1>5, RefuseType DEF ErrorKind
<1>6. CASE failing(req) # {} /\ rejectBatch(req)
  <2> DEFINE details == [items |-> n, failures |-> Cardinality(failing(req))]
             event == Event("document.batch_rejected", req.actor, req.collection,
                            NoID, req.key, details)
             entries == {[index |-> i, reason |-> itemFailure(req, i)] : i \in failing(req)}
             outcome == [err |-> "batch_conflict",
                         value |-> [applied |-> FALSE, failures |-> entries]]
  <2>1. failing(req) \subseteq 1 .. n /\ Cardinality(failing(req)) \in Nat
    <3>1. failing(req) \subseteq 1 .. n
      BY <1>1 DEF failing
    <3>2. IsFiniteSet(1 .. n)
      BY <1>1, FS_Interval
    <3> QED
      BY <3>1, <3>2, FS_Subset, FS_CardinalityType
  <2>2. \A i \in failing(req) : itemFailure(req, i) \in FailureReason
    BY DEF failing, itemFailure, FailureReason
  <2>3. entries \in SUBSET [index : Nat, reason : FailureReason]
    BY <1>1, <2>1, <2>2
  <2>4. outcome \in Outcome
    <3>1. [applied |-> FALSE, failures |-> entries] \in Value
      BY <2>3 DEF Value, BatchResult
    <3> QED
      BY <3>1 DEF Outcome, ErrorKind
  <2>5. AnswersOK'
    BY <1>1, <1>6, <2>4, TypeParts, ReturnType DEF rejectBatch
  <2>6. event \in AuditEvent
    <3>1. details \in Details
      BY <1>1, <2>1 DEF Details
    <3> QED
      BY <1>1, <3>1, EventTyped DEF TypeOK, EventType, BatchEventType, OptID
  <2>7. audit' \in Seq(AuditEvent) /\ auditSeq' \in Nat
    BY <1>6, <2>6, AppendOneType DEF TypeOK, rejectBatch
  <2> QED
    BY <1>6, <2>5, <2>7 DEF rejectBatch, TypeOK, AnswersOK
<1>7. CASE failing(req) = {} /\ applyBatch(req)
  <2>1. PICK patches : /\ DOMAIN patches \subseteq DOMAIN documents
                       /\ DOMAIN patches = {itemKey(req, i) : i \in 1 .. n}
                       /\ \A k \in DOMAIN patches : IsPatch(patches[k])
                       /\ applyUpdates(req.actor, patches)
    BY <1>7, BatchPatches
  <2>2. /\ IsMap(documents', ID, Document)
        /\ IsMap(history', ID, Seq(Revision))
        /\ DOMAIN documents' = DOMAIN documents
    BY <1>1, <2>1, ApplyUpdatesType
  <2>3. \A i \in 1 .. n : itemKey(req, i) \in DOMAIN documents'
    BY <2>1, <2>2
  <2> DEFINE results == [i \in 1 .. n |-> documents'[itemKey(req, i)]]
             events == [i \in 1 .. n |-> updatedEvent(req, req.items[i], NoKey, TRUE)]
             applied == Event("document.batch_applied", req.actor, req.collection,
                              NoID, req.key, [items |-> n])
  <2>4. results \in Seq(Document)
    BY <1>1, <2>2, <2>3 DEF IsMap
  <2>5. AnswersOK'
    <3>1. [applied |-> TRUE, results |-> results] \in Value
      BY <2>4 DEF Value, BatchResult
    <3>2. Return(req, Ok([applied |-> TRUE, results |-> results]))
      BY <1>7 DEF applyBatch
    <3> HIDE DEF results
    <3> QED
      BY <1>1, <3>1, <3>2, TypeParts, OkType, ReturnType
  <2>6. \A i \in 1 .. n : updatedEvent(req, req.items[i], NoKey, TRUE) \in AuditEvent
    <3> TAKE i \in 1 .. n
    <3>1. req.items[i].expected \in Version
      <4>1. itemFailure(req, i) = "none"
        BY <1>1, <1>7 DEF failing
      <4>2. ~ req.items[i].expected < 1
        BY <4>1 DEF itemFailure
      <4> QED
        BY <1>2, <4>2 DEF Version
    <3>2. documentKey(req.collection, req.items[i].document) \in DOMAIN documents'
      BY <2>3 DEF itemKey
    <3> QED
      BY <1>1, <1>2, <2>2, <3>1, <3>2, UpdatedEventType DEF OptKey
  <2>7. events \in Seq(AuditEvent)
    <3>1. events \in [1 .. n -> AuditEvent]
      BY <2>6
    <3> HIDE DEF events
    <3> QED
      BY <1>1, <3>1, FunctionIsSequence
  <2>8. applied \in AuditEvent
    <3>1. [items |-> n] \in Details
      BY <1>1 DEF Details
    <3> QED
      BY <1>1, <3>1, EventTyped DEF TypeOK, EventType, BatchEventType, OptID
  <2>9. appendAudit(Append(events, applied))
    BY <1>7 DEF applyBatch
  <2>10. audit' \in Seq(AuditEvent) /\ auditSeq' \in Nat
    <3> HIDE DEF events, applied
    <3>1. Append(events, applied) \in Seq(AuditEvent)
      BY <2>7, <2>8
    <3> QED
      BY <2>9, <3>1, AppendAuditType DEF TypeOK
  <2> QED
    BY <1>7, <2>2, <2>5, <2>10 DEF applyBatch, TypeOK, AnswersOK
<1> QED
  BY <1>3, <1>4, <1>5, <1>6, <1>7 DEF BatchUpdateDocuments
-----------------------------------------------------------------------------
(* Locks.                                                                  *)

LEMMA TTLType ==
  ASSUME NEW ttl \in Int
  PROVE  /\ NormalizeTTL(ttl) \in Nat \ {0}
         /\ NormalizeTTL(ttl) <= MaxLockTTL
BY TTLAssumption DEF NormalizeTTL

LEMMA SecondsType ==
  ASSUME NEW ticks \in Nat
  PROVE  seconds(ticks) \in Nat
BY TTLAssumption DEF seconds

LEMMA PutLockType ==
  ASSUME IsMap(locks, ID, Lock), IsFiniteSet(DOMAIN locks),
         NEW k \in ID, NEW lock \in Lock, locks' = Put(locks, k, lock)
  PROVE  IsMap(locks', ID, Lock) /\ IsFiniteSet(DOMAIN locks')
<1>1. IsMap(locks', ID, Lock) /\ DOMAIN locks' = DOMAIN locks \cup {k}
  BY PutType
<1>2. IsFiniteSet(DOMAIN locks \cup {k})
  BY FS_AddElement
<1> QED
  BY <1>1, <1>2

LEMMA DeleteLocksType ==
  ASSUME IsMap(locks, ID, Lock), IsFiniteSet(DOMAIN locks),
         NEW S, locks' = Delete(locks, S)
  PROVE  IsMap(locks', ID, Lock) /\ IsFiniteSet(DOMAIN locks')
<1>1. IsMap(locks', ID, Lock) /\ DOMAIN locks' = DOMAIN locks \ S
  BY DeleteType
<1>2. IsFiniteSet(DOMAIN locks \ S)
  BY FS_Difference
<1> QED
  BY <1>1, <1>2

LEMMA LockEventTyped ==
  ASSUME TypeOK, NEW type \in LockEventType, NEW req, req.actor \in Actor,
         req.collection \in ID, req.document \in ID, req.key \in OptKey,
         NEW details \in Details
  PROVE  lockEvent(type, req, details) \in AuditEvent
BY EventTyped DEF lockEvent, TypeOK, EventType, OptID

(* A request of a lock operation, after its holder has been checked.       *)
IsLockRequest(req) ==
  /\ req.actor \in Actor /\ req.key \in OptKey
  /\ req.collection \in ID /\ req.document \in ID /\ req.holder \in OptHolder

LEMMA RenewType ==
  ASSUME TypeOK, NEW req, IsLockRequest(req), req.ttl \in Int,
         NEW key \in ID, active(key), renew(req, key)
  PROVE  TypeOK'
<1> DEFINE ttl == NormalizeTTL(req.ttl)
           lock == [locks[key] EXCEPT !.expiresAt = clock + ttl, !.renewCount = @ + 1]
           details == [ttl |-> seconds(ttl), renewCount |-> lock.renewCount]
           event == lockEvent("lock.renewed", req, details)
<1>1. ttl \in Nat /\ clock + ttl \in Nat
  <2>1. clock \in Nat /\ ttl \in Nat \ {0}
    BY TTLType DEF TypeOK
  <2> HIDE DEF ttl
  <2> QED
    BY <2>1
<1>2. locks[key] \in Lock
  BY DEF TypeOK, IsMap, active, present
<1>3. lock \in Lock /\ lock.renewCount \in Nat
  <2>1. locks[key].renewCount + 1 \in Nat
    BY <1>2 DEF Lock
  <2> HIDE DEF ttl
  <2> QED
    BY <1>1, <1>2, <2>1 DEF Lock
<1>4. IsMap(locks', ID, Lock) /\ IsFiniteSet(DOMAIN locks')
  BY <1>3, PutLockType DEF TypeOK, renew
<1>5. AnswersOK'
  BY <1>3, TypeParts, OkType, ReturnType DEF renew, Value, IsLockRequest
<1>6. event \in AuditEvent
  <2>1. details \in Details
    BY <1>1, <1>3, SecondsType DEF Details
  <2> QED
    BY <2>1, LockEventTyped DEF LockEventType, IsLockRequest
<1>7. audit' \in Seq(AuditEvent) /\ auditSeq' \in Nat
  BY <1>6, AppendOneType DEF TypeOK, renew
<1> QED
  BY <1>4, <1>5, <1>7 DEF renew, TypeOK, AnswersOK

LEMMA GrantType ==
  ASSUME TypeOK, NEW req, IsLockRequest(req), req.holder # NoHolder,
         req.ttl \in Int, NEW key \in ID, grant(req, key)
  PROVE  TypeOK'
<1> DEFINE ttl == NormalizeTTL(req.ttl)
           lock == [document |-> req.document, holder |-> req.holder,
                    acquiredAt |-> clock, expiresAt |-> clock + ttl, renewCount |-> 0]
           details == [ttl |-> seconds(ttl), holder |-> req.holder]
           event == lockEvent("lock.acquired", req, details)
<1>1. ttl \in Nat /\ clock + ttl \in Nat
  <2>1. clock \in Nat /\ ttl \in Nat \ {0}
    BY TTLType DEF TypeOK
  <2> HIDE DEF ttl
  <2> QED
    BY <2>1
<1>2. req.holder \in Holder
  BY DEF IsLockRequest, OptHolder
<1>3. lock \in Lock
  BY <1>1, <1>2 DEF Lock, IsLockRequest, TypeOK
<1>4. IsMap(locks', ID, Lock) /\ IsFiniteSet(DOMAIN locks')
  BY <1>3, PutLockType DEF TypeOK, grant
<1>5. AnswersOK'
  BY <1>3, TypeParts, OkType, ReturnType DEF grant, Value, IsLockRequest
<1>6. event \in AuditEvent
  <2>1. details \in Details
    BY <1>1, <1>2, SecondsType DEF Details
  <2> QED
    BY <2>1, LockEventTyped DEF LockEventType, IsLockRequest
<1>7. audit' \in Seq(AuditEvent) /\ auditSeq' \in Nat
  BY <1>6, AppendOneType DEF TypeOK, grant
<1> QED
  BY <1>4, <1>5, <1>7 DEF grant, TypeOK, AnswersOK

LEMMA ReleaseType ==
  ASSUME TypeOK, NEW req, IsLockRequest(req), NEW key \in ID,
         active(key), release(req, key)
  PROVE  TypeOK'
<1> DEFINE details == [holder |-> locks[key].holder, renewCount |-> locks[key].renewCount]
           event == lockEvent("lock.released", req, details)
<1>1. locks[key] \in Lock
  BY DEF TypeOK, IsMap, active, present
<1>2. IsMap(locks', ID, Lock) /\ IsFiniteSet(DOMAIN locks')
  BY DeleteLocksType DEF TypeOK, release
<1>3. AnswersOK'
  BY TypeParts, OkType, ReturnType DEF release, Value, IsLockRequest
<1>4. event \in AuditEvent
  <2>1. details \in Details
    BY <1>1 DEF Details, Lock
  <2> QED
    BY <2>1, LockEventTyped DEF LockEventType, IsLockRequest
<1>5. audit' \in Seq(AuditEvent) /\ auditSeq' \in Nat
  BY <1>4, AppendOneType DEF TypeOK, release
<1> QED
  BY <1>2, <1>3, <1>5 DEF release, TypeOK, AnswersOK

LEMMA NotHeldType ==
  ASSUME TypeOK, NEW req, IsLockRequest(req), NEW key, notHeld(req, key)
  PROVE  TypeOK'
<1>1. IsMap(locks', ID, Lock) /\ IsFiniteSet(DOMAIN locks')
  BY DeleteLocksType DEF TypeOK, notHeld, withoutStale
<1>2. AnswersOK'
  BY TypeParts, FailType, ReturnType DEF notHeld, IsLockRequest, ErrorKind
<1> QED
  BY <1>1, <1>2 DEF notHeld, TypeOK, AnswersOK

LEMMA LockRefusalType ==
  ASSUME TypeOK, NEW req, IsLockRequest(req), NEW key,
         \/ Refuse(req, lookupError(req.collection, req.document))
         \/ lockConflict(req, key)
  PROVE  TypeOK'
<1>1. "lock_conflict" \in ErrorKind
  BY DEF ErrorKind
<1> QED
  BY <1>1, LookupErrorType, RefuseType DEF lockConflict, IsLockRequest

LEMMA AcquireLockType ==
  ASSUME TypeOK, NEW req \in AcquireRequests, AcquireLock(req)
  PROVE  TypeOK'
<1> DEFINE key == documentKey(req.collection, req.document)
<1>1. IsLockRequest(req) /\ req.ttl \in Int /\ key \in ID
  BY LockRequestAssumption, KeyType DEF LeaseRequest, IsLockRequest
<1>2. CASE TurnAway(req.holder = NoHolder)
  BY <1>2, TurnAwayType
<1>3. CASE Replay(req)
  BY <1>3, ReplayType
<1>4. CASE \/ Refuse(req, lookupError(req.collection, req.document))
           \/ lockConflict(req, key)
  BY <1>1, <1>4, LockRefusalType
<1>5. CASE active(key) /\ renew(req, key)
  BY <1>1, <1>5, RenewType
<1>6. CASE req.holder # NoHolder /\ grant(req, key)
  BY <1>1, <1>6, GrantType
<1> QED
  BY <1>2, <1>3, <1>4, <1>5, <1>6 DEF AcquireLock

LEMMA RenewLockType ==
  ASSUME TypeOK, NEW req \in RenewRequests, RenewLock(req)
  PROVE  TypeOK'
<1> DEFINE key == documentKey(req.collection, req.document)
<1>1. IsLockRequest(req) /\ req.ttl \in Int /\ key \in ID
  BY LockRequestAssumption, KeyType DEF LeaseRequest, IsLockRequest
<1>2. CASE TurnAway(req.holder = NoHolder)
  BY <1>2, TurnAwayType
<1>3. CASE Replay(req)
  BY <1>3, ReplayType
<1>4. CASE \/ Refuse(req, lookupError(req.collection, req.document))
           \/ lockConflict(req, key)
  BY <1>1, <1>4, LockRefusalType
<1>5. CASE active(key) /\ renew(req, key)
  BY <1>1, <1>5, RenewType
<1>6. CASE notHeld(req, key)
  BY <1>1, <1>6, NotHeldType
<1> QED
  BY <1>2, <1>3, <1>4, <1>5, <1>6 DEF RenewLock

LEMMA ReleaseLockType ==
  ASSUME TypeOK, NEW req \in ReleaseRequests, ReleaseLock(req)
  PROVE  TypeOK'
<1> DEFINE key == documentKey(req.collection, req.document)
<1>1. IsLockRequest(req) /\ key \in ID
  BY LockRequestAssumption, KeyType DEF ReleaseRequest, IsLockRequest
<1>2. CASE TurnAway(req.holder = NoHolder)
  BY <1>2, TurnAwayType
<1>3. CASE Replay(req)
  BY <1>3, ReplayType
<1>4. CASE \/ Refuse(req, lookupError(req.collection, req.document))
           \/ lockConflict(req, key)
  BY <1>1, <1>4, LockRefusalType
<1>5. CASE active(key) /\ release(req, key)
  BY <1>1, <1>5, ReleaseType
<1>6. CASE notHeld(req, key)
  BY <1>1, <1>6, NotHeldType
<1> QED
  BY <1>2, <1>3, <1>4, <1>5, <1>6 DEF ReleaseLock

LEMMA ReapedEventTyped ==
  ASSUME TypeOK, NEW k \in DOMAIN locks
  PROVE  reapedEvent(k) \in AuditEvent
<1>1. locks[k] \in Lock /\ k \in ID
  BY DEF TypeOK, IsMap
<1>2. collectionIDFromKey(k) \in ID
  <2>1. k \in Seq(Segment) /\ Len(k) # 0 /\ Len(k) \in Nat
    BY <1>1 DEF ID
  <2>2. k[1] \in Segment
    BY <2>1
  <2>3. <<k[1]>> \in Seq(Segment) /\ Len(<<k[1]>>) = 1
    BY <2>2
  <2> QED
    BY <2>3 DEF collectionIDFromKey, ID
<1>3. [holder |-> locks[k].holder,
       expiredAt |-> seconds(locks[k].expiresAt)] \in Details
  BY <1>1, SecondsType DEF Details, Lock
<1> QED
  BY <1>1, <1>2, <1>3, EventTyped, IdentityAssumption
  DEF reapedEvent, TypeOK, EventType, LockEventType, OptID, OptKey, Lock

LEMMA ReapExpiredLocksType ==
  ASSUME TypeOK, ReapExpiredLocks
  PROVE  TypeOK'
<1>1. CASE TurnAway(FALSE)
  BY <1>1, TurnAwayType
<1>2. CASE reapAll
  <2> DEFINE n == Cardinality(expired)
  <2>1. n \in Nat /\ expired \subseteq DOMAIN locks
    <3>1. expired \subseteq DOMAIN locks
      BY DEF expired
    <3> QED
      BY <3>1, FS_Subset, FS_CardinalityType DEF TypeOK
  <2>2. PICK order \in Bijection(1 .. n, expired) :
          /\ appendAudit([i \in DOMAIN order |-> reapedEvent(order[i])])
          /\ reply' = Ok([reaped |-> [i \in DOMAIN order |-> locks[order[i]].document]])
          /\ locks' = Delete(locks, expired)
          /\ UNCHANGED <<collections, documents, history, idem, clock>>
    BY <1>2 DEF reapAll
  <2>3. /\ DOMAIN order = 1 .. n
        /\ \A i \in 1 .. n : order[i] \in DOMAIN locks
    BY <2>1, <2>2 DEF Bijection, Injection, Surjection
  <2> DEFINE events == [i \in DOMAIN order |-> reapedEvent(order[i])]
             names == [i \in DOMAIN order |-> locks[order[i]].document]
  <2>4. audit' \in Seq(AuditEvent) /\ auditSeq' \in Nat
    <3>1. events \in [1 .. n -> AuditEvent]
      BY <2>3, ReapedEventTyped
    <3>2. appendAudit(events)
      BY <2>2
    <3> HIDE DEF events
    <3> QED
      BY <2>1, <3>1, <3>2, FunctionIsSequence, AppendAuditType DEF TypeOK
  <2>5. reply' \in Outcome
    <3>1. \A i \in 1 .. n : locks[order[i]].document \in ID
      BY <2>3 DEF TypeOK, IsMap, Lock
    <3>2. names \in [1 .. n -> ID]
      BY <2>3, <3>1
    <3>3. reply' = Ok([reaped |-> names])
      BY <2>2
    <3> HIDE DEF names
    <3>4. names \in Seq(ID)
      BY <2>1, <3>2, FunctionIsSequence
    <3>5. [reaped |-> names] \in Value
      BY <3>4 DEF Value
    <3> QED
      BY <3>3, <3>5, OkType
  <2>6. IsMap(locks', ID, Lock) /\ IsFiniteSet(DOMAIN locks')
    BY <2>2, DeleteLocksType DEF TypeOK
  <2> QED
    BY <2>2, <2>4, <2>5, <2>6 DEF TypeOK
<1> QED
  BY <1>1, <1>2 DEF ReapExpiredLocks
-----------------------------------------------------------------------------
LEMMA InitType == Init => TypeOK
<1> SUFFICES ASSUME Init
             PROVE  TypeOK
  OBVIOUS
<1>1. \A K, V : IsMap(<<>>, K, V)
  BY DEF IsMap
<1>2. Ok(Nil) \in Outcome
  BY OkType DEF Value
<1>3. IsFiniteSet(DOMAIN <<>>)
  <2>1. DOMAIN <<>> = {}
    OBVIOUS
  <2> QED
    BY <2>1, FS_EmptySet
<1> QED
  BY <1>1, <1>2, <1>3 DEF Init, TypeOK

LEMMA StepType == TypeOK /\ [Next]_vars => TypeOK'
<1> SUFFICES ASSUME TypeOK, [Next]_vars
             PROVE  TypeOK'
  OBVIOUS
<1>1. CASE Tick
  <2>1. clock' \in Nat /\ UNCHANGED <<stored, idem, reply>>
    BY <1>1 DEF Tick, TypeOK
  <2> QED
    BY <2>1, StoredUnchanged, TypeParts DEF TypeOK, StoredOK
<1>2. CASE \E req \in RegisterRequests : RegisterCollection(req)
  BY <1>2, RegisterCollectionType
<1>3. CASE \E req \in CreateRequests : CreateDocument(req)
  BY <1>3, CreateDocumentType
<1>4. CASE \E req \in UpdateRequests : UpdateDocument(req)
  BY <1>4, UpdateDocumentType
<1>5. CASE \E req \in BatchRequests : BatchUpdateDocuments(req)
  BY <1>5, BatchUpdateDocumentsType
<1>6. CASE \E req \in AcquireRequests : AcquireLock(req)
  BY <1>6, AcquireLockType
<1>7. CASE \E req \in RenewRequests : RenewLock(req)
  BY <1>7, RenewLockType
<1>8. CASE \E req \in ReleaseRequests : ReleaseLock(req)
  BY <1>8, ReleaseLockType
<1>9. CASE ReapExpiredLocks
  BY <1>9, ReapExpiredLocksType
<1>10. CASE UNCHANGED vars
  <2>1. UNCHANGED <<stored, idem, clock, reply>>
    BY <1>10 DEF vars
  <2> QED
    BY <2>1, StoredUnchanged, TypeParts DEF TypeOK, StoredOK
<1> QED
  BY <1>1, <1>2, <1>3, <1>4, <1>5, <1>6, <1>7, <1>8, <1>9, <1>10 DEF Next

(* Whatever requests arrive, in whatever order, every map of service.go    *)
(* holds well-formed entries under well-formed keys, and every answer is   *)
(* one of the outcomes the handlers can return.                            *)
THEOREM TypeCorrect == Spec => []TypeOK
<1>1. Init => TypeOK
  BY InitType
<1>2. TypeOK /\ [Next]_vars => TypeOK'
  BY StepType
<1> QED
  BY <1>1, <1>2, PTL DEF Spec
=============================================================================
