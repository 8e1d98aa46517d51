----------------------------- MODULE Documents ------------------------------
(***************************************************************************)
(* Versioned documents (service/documents.go): creation, optimistic        *)
(* updates, atomic batches of updates, and the reads.                      *)
(***************************************************************************)
EXTENDS Collections

CONSTANTS
  CreateRequests,    \* the calls clients may make, one set per operation
  UpdateRequests,
  BatchRequests

OptTags == {Nil} \cup Seq(Text)

(* A partial update: Nil leaves a field as it is.                          *)
BatchItem ==
  [document : ID, expected : Int, title : OptText, content : OptText,
   tags : OptTags, reason : Text]

CreateRequest ==
  [op : {"CreateDocument"}, collection : ID, id : OptID, title : Text,
   content : Text, tags : Seq(Text), actor : Actor, key : OptKey]

UpdateRequest ==
  [op : {"UpdateDocument"}, collection : ID, document : ID, expected : Int,
   title : OptText, content : OptText, tags : OptTags, reason : Text,
   actor : Actor, key : OptKey]

BatchRequest ==
  [op : {"BatchUpdateDocuments"}, collection : ID, items : Seq(BatchItem),
   actor : Actor, key : OptKey]

FailureReason ==
  {"invalid_input", "duplicate", "document_not_found", "version_conflict"}

BatchResult ==
  [applied : {TRUE}, results : Seq(Document)]
    \cup [applied : {FALSE},
          failures : SUBSET [index : Nat, reason : FailureReason]]

(* Go's nil is no value of these types.                                    *)
ASSUME NilAssumption ==
  Nil \notin Collection \cup Document \cup BatchResult \cup Lock

ASSUME DocumentRequestAssumption ==
  /\ CreateRequests \subseteq CreateRequest
  /\ UpdateRequests \subseteq UpdateRequest
  /\ BatchRequests \subseteq BatchRequest
-----------------------------------------------------------------------------
(* Helpers.                                                                *)

(* Seeded fault: tags are stored as they were given.                       *)
KeepTags(in) == {in[i] : i \in DOMAIN in}

(* Trimmed, without blanks and duplicates; the stored order is the sorted  *)
(* one, so a set says as much.                                             *)
normalizeTags(in) == {TrimSpace[in[i]] : i \in DOMAIN in} \ {Empty}

hasAllTags(doc, want) == want \subseteq doc.tags

documentExists(key) == key \in DOMAIN documents

lookupError(collectionID, documentID) ==
  IF ~ collectionExists(collectionID) THEN "collection_not_found"
  ELSE IF ~ documentExists(documentKey(collectionID, documentID))
       THEN "document_not_found"
  ELSE "none"

Overwrite(old, new) == IF new = Nil THEN old ELSE new

(* Seeded fault: updatedAt and the fields change, the version does not     *)
(* when the update leaves every field as it was.                           *)
VersionOfRealChanges(doc, patch) ==
  LET title == Overwrite(doc.title, patch.title)
      content == Overwrite(doc.content, patch.content)
  IN  [doc EXCEPT !.title = title, !.content = content,
                  !.version = IF title = doc.title /\ content = doc.content
                              THEN @ ELSE @ + 1,
                  !.updatedAt = clock]

updated(doc, patch) ==
  [doc EXCEPT
     !.title = Overwrite(@, patch.title),
     !.content = Overwrite(@, patch.content),
     !.tags = IF patch.tags = Nil THEN @ ELSE normalizeTags(patch.tags),
     !.version = @ + 1,
     !.updatedAt = clock]

revision(doc, actor, reason) ==
  [version |-> doc.version, title |-> doc.title, content |-> doc.content,
   tags |-> doc.tags, actor |-> actor, reason |-> reason, modifiedAt |-> clock]

(* Seeded fault: the last revision is overwritten instead of followed.     *)
applyOverLastRevision(actor, patches) ==
  LET new == [k \in DOMAIN patches |-> updated(documents[k], patches[k])]
      Over(k) == [history[k] EXCEPT
                    ![Len(history[k])] = revision(new[k], actor, patches[k].reason)]
  IN  /\ documents' = [k \in DOMAIN documents |->
                         IF k \in DOMAIN patches THEN new[k] ELSE documents[k]]
      /\ history' = [k \in DOMAIN history |->
                       IF k \in DOMAIN patches THEN Over(k) ELSE history[k]]

(* applyUpdateUnlocked on every document patches names.                    *)
applyUpdates(actor, patches) ==
  LET new == [k \in DOMAIN patches |-> updated(documents[k], patches[k])]
      Grow(k) == Append(history[k], revision(new[k], actor, patches[k].reason))
  IN  /\ documents' = [k \in DOMAIN documents |->
                         IF k \in DOMAIN patches THEN new[k] ELSE documents[k]]
      /\ history' = [k \in DOMAIN history |->
                       IF k \in DOMAIN patches THEN Grow(k) ELSE history[k]]

updatedEvent(req, item, key, batch) ==
  LET new == documents'[documentKey(req.collection, item.document)]
  IN  Event("document.updated", req.actor, req.collection, item.document, key,
            [from |-> item.expected, to |-> new.version,
             reason |-> item.reason, batch |-> batch])
-----------------------------------------------------------------------------
(* Creation.                                                               *)

insert(req, id) ==
  LET key == documentKey(req.collection, id)
      doc == [id |-> id, collection |-> req.collection, title |-> req.title,
              content |-> req.content, tags |-> normalizeTags(req.tags),
              version |-> 1, createdAt |-> clock, updatedAt |-> clock]
      old == IF key \in DOMAIN history THEN history[key] ELSE <<>>
  IN  /\ documents' = Put(documents, key, doc)
      /\ history' = Put(history, key, Append(old, revision(doc, req.actor, Empty)))
      /\ appendAudit(<<Event("document.created", req.actor, req.collection, id,
                             req.key, [version |-> 1])>>)
      /\ Return(req, Ok(doc))
      /\ UNCHANGED <<collections, locks, clock>>

CreateDocument(req) ==
  LET malformed == TrimSpace[req.title] = Empty
  IN  \/ TurnAway(malformed)
      \/ ~ malformed /\ Replay(req)
      \/ /\ ~ malformed
         /\ FirstUse(req)
         /\ \/ /\ ~ collectionExists(req.collection)
               /\ Refuse(req, "collection_not_found")
            \/ /\ collectionExists(req.collection)
               /\ \/ Panic(req)
                  \/ \E id \in NewIDs(req.id) :
                       LET taken == documentExists(documentKey(req.collection, id))
                       IN  \/ taken /\ Refuse(req, "invalid_input")
                           \/ ~ taken /\ insert(req, id)
-----------------------------------------------------------------------------
(* One optimistic update.                                                  *)

(* Seeded fault: an update is accepted unless it is ahead of the document. *)
NotAhead(doc, expected) == doc.version >= expected

versionMatches(doc, expected) == doc.version = expected

update(req) ==
  LET key == documentKey(req.collection, req.document)
  IN  /\ applyUpdates(req.actor, [k \in {key} |-> req])
      /\ appendAudit(<<updatedEvent(req, req, req.key, FALSE)>>)
      /\ Return(req, Ok(documents'[key]))
      /\ UNCHANGED <<collections, locks, clock>>

UpdateDocument(req) ==
  LET malformed == req.expected < 1
      missing == lookupError(req.collection, req.document)
      current == documents[documentKey(req.collection, req.document)]
  IN  \/ TurnAway(malformed)
      \/ ~ malformed /\ Replay(req)
      \/ /\ ~ malformed
         /\ FirstUse(req)
         /\ \/ missing # "none" /\ Refuse(req, missing)
            \/ /\ missing = "none"
               /\ \/ /\ ~ versionMatches(current, req.expected)
                     /\ Refuse(req, "version_conflict")
                  \/ versionMatches(current, req.expected) /\ update(req)
-----------------------------------------------------------------------------
(* A batch: every item is validated against the state before the batch,    *)
(* and only if all of them pass is any applied.                            *)

itemKey(req, i) == documentKey(req.collection, req.items[i].document)

(* Seeded fault: two items may name the same document.                     *)
NeverDuplicate(req, i) == FALSE

(* An earlier item with a legal expected version names the document.       *)
duplicate(req, i) ==
  \E j \in 1 .. i - 1 : /\ req.items[j].expected >= 1
                        /\ req.items[j].document = req.items[i].document

itemFailure(req, i) ==
  IF req.items[i].expected < 1 THEN "invalid_input"
  ELSE IF duplicate(req, i) THEN "duplicate"
  ELSE IF ~ documentExists(itemKey(req, i)) THEN "document_not_found"
  ELSE IF ~ versionMatches(documents[itemKey(req, i)], req.items[i].expected)
       THEN "version_conflict"
  ELSE "none"

failing(req) == {i \in DOMAIN req.items : itemFailure(req, i) # "none"}

(* Seeded fault: what fails is reported, the rest is applied.              *)
applyPassing(req) ==
  LET passing == DOMAIN req.items \ failing(req)
      patches == [k \in {itemKey(req, i) : i \in passing} |->
                    req.items[CHOOSE i \in passing : itemKey(req, i) = k]]
  IN  /\ applyUpdates(req.actor, patches)
      /\ appendAudit(<<Event("document.batch_rejected", req.actor,
                             req.collection, NoID, req.key,
                             [items |-> Len(req.items),
                              failures |-> Cardinality(failing(req))])>>)
      /\ Return(req, Fail("batch_conflict"))
      /\ UNCHANGED <<collections, locks, clock>>

rejectBatch(req) ==
  /\ appendAudit(<<Event("document.batch_rejected", req.actor, req.collection,
                         NoID, req.key,
                         [items |-> Len(req.items),
                          failures |-> Cardinality(failing(req))])>>)
  /\ Return(req, [err |-> "batch_conflict",
                  value |-> [applied |-> FALSE,
                             failures |-> {[index |-> i, reason |-> itemFailure(req, i)] :
                                             i \in failing(req)}]])
  /\ UNCHANGED <<collections, documents, history, locks, clock>>

applyBatch(req) ==
  LET n == Len(req.items)
      patches == [k \in {itemKey(req, i) : i \in 1 .. n} |->
                    req.items[CHOOSE i \in 1 .. n : itemKey(req, i) = k]]
      events == [i \in 1 .. n |-> updatedEvent(req, req.items[i], NoKey, TRUE)]
      applied == Event("document.batch_applied", req.actor, req.collection,
                       NoID, req.key, [items |-> n])
  IN  /\ applyUpdates(req.actor, patches)
      /\ appendAudit(Append(events, applied))
      /\ Return(req, Ok([applied |-> TRUE,
                         results |-> [i \in 1 .. n |-> documents'[itemKey(req, i)]]]))
      /\ UNCHANGED <<collections, locks, clock>>

BatchUpdateDocuments(req) ==
  LET malformed == req.items = <<>>
  IN  \/ TurnAway(malformed)
      \/ ~ malformed /\ Replay(req)
      \/ /\ ~ malformed
         /\ FirstUse(req)
         /\ \/ /\ ~ collectionExists(req.collection)
               /\ Refuse(req, "collection_not_found")
            \/ /\ collectionExists(req.collection)
               /\ \/ failing(req) # {} /\ rejectBatch(req)
                  \/ failing(req) = {} /\ applyBatch(req)
-----------------------------------------------------------------------------
(* Reads.  They hold the read lock and change nothing, so what they return *)
(* is a function of the state they are called in.                          *)

GetDocument(collectionID, documentID) ==
  LET missing == lookupError(collectionID, documentID)
  IN  IF missing # "none" THEN Fail(missing)
      ELSE Ok(documents[documentKey(collectionID, documentID)])

(* The matching documents before the limit; sorting is not modelled.       *)
ListDocuments(collectionID, tags) ==
  LET want == normalizeTags(tags)
      listed == {k \in DOMAIN documents :
                   /\ HasCollectionPrefix(k, collectionID)
                   /\ hasAllTags(documents[k], want)}
  IN  IF ~ collectionExists(collectionID) THEN Fail("collection_not_found")
      ELSE Ok({documents[k] : k \in listed})

(* The collection itself is not looked up.                                 *)
GetDocumentHistory(collectionID, documentID) ==
  LET key == documentKey(collectionID, documentID)
  IN  IF ~ documentExists(key) THEN Fail("document_not_found") ELSE Ok(history[key])
=============================================================================
