---------------------------- MODULE ServiceState ----------------------------
(***************************************************************************)
(* The state of service.Service and what every write operation shares: the *)
(* early returns before the lock is taken, the idempotency table and the   *)
(* audit log.  A write operation holds s.mu from its first read of the     *)
(* state to its last write, so each one is a single action here; module    *)
(* comments of Documents, Collections and Locks say what each one does.    *)
(*                                                                         *)
(* Time is a natural number of ticks.  A handler reads the clock once,     *)
(* right after it has locked, so "now" is the value of clock in the state  *)
(* in which its action is taken.                                           *)
(***************************************************************************)
EXTENDS Keys, FiniteSets, Functions

CONSTANTS
  Text,           \* titles, contents, tags, names, reasons
  Empty,          \* the empty string
  TrimSpace,      \* strings.TrimSpace, a function on Text
  Actor,          \* who a request is attributed to
  NoActor,        \* the empty actor
  Holder,         \* lock holders; NoHolder is the empty one
  NoHolder,
  IdemKey,        \* idempotency keys
  NoKey,          \* no idempotency key given
  NoID,           \* no identifier given
  GeneratedIDs,   \* what the injected ID function may return
  IDSourceFails,  \* whether the injected ID function may panic
  Nil             \* Go's nil

ASSUME TextAssumption ==
  /\ Empty \in Text
  /\ TrimSpace \in [Text -> Text]
  /\ \A t \in Text : TrimSpace[TrimSpace[t]] = TrimSpace[t]

ASSUME IdentityAssumption ==
  /\ NoActor \in Actor
  /\ NoHolder \notin Holder
  /\ NoKey \notin IdemKey
  /\ NoID \notin ID
  /\ GeneratedIDs \subseteq ID
  /\ IDSourceFails \in BOOLEAN
  /\ Nil \notin Text

VARIABLES
  collections,    \* collection ID -> collection
  documents,      \* document key -> current document
  history,        \* document key -> its revisions, oldest first
  locks,          \* document key -> lock record, expired ones included
  audit,          \* the audit log
  auditSeq,       \* the last sequence number given out
  idem,           \* idempotency key -> recorded fingerprint and outcome
  clock,          \* the injected clock
  reply           \* what the last operation returned to its caller

stored == <<collections, documents, history, locks, audit, auditSeq>>
vars == <<stored, idem, clock, reply>>
-----------------------------------------------------------------------------
(* Types.                                                                  *)

OptID == {NoID} \cup ID
OptKey == {NoKey} \cup IdemKey
OptText == {Nil} \cup Text

(* A stored tag is trimmed and not empty, see normalizeTags.               *)
Tag == {t \in Text : t # Empty /\ TrimSpace[t] = t}

Version == Nat \ {0}

Collection == [id : ID, name : Text, description : Text, createdAt : Nat]

Document ==
  [id : ID, collection : ID, title : Text, content : Text, tags : SUBSET Tag,
   version : Version, createdAt : Nat, updatedAt : Nat]

Revision ==
  [version : Version, title : Text, content : Text, tags : SUBSET Tag,
   actor : Actor, reason : Text, modifiedAt : Nat]

Lock ==
  [document : ID, holder : Holder, acquiredAt : Nat, expiresAt : Nat,
   renewCount : Nat]

DocumentEventType == {"document.created", "document.updated"}
BatchEventType == {"document.batch_applied", "document.batch_rejected"}
LockEventType == {"lock.acquired", "lock.renewed", "lock.released", "lock.reaped"}
EventType ==
  {"collection.created"} \cup DocumentEventType \cup BatchEventType \cup LockEventType

Details ==
  [name : Text, description : Text]
    \cup [version : Version]
    \cup [from : Version, to : Version, reason : Text, batch : BOOLEAN]
    \cup [items : Nat]
    \cup [items : Nat, failures : Nat]
    \cup [ttl : Nat, holder : Holder]
    \cup [ttl : Nat, renewCount : Nat]
    \cup [holder : Holder, renewCount : Nat]
    \cup [holder : Holder, expiredAt : Nat]

AuditEvent ==
  [sequence : Nat, at : Nat, type : EventType, actor : Actor,
   collection : ID, document : OptID, key : OptKey, details : Details]

ErrorKind ==
  {"none", "canceled", "invalid_input", "collection_not_found",
   "document_not_found", "version_conflict", "lock_conflict", "lock_not_held",
   "lock_expired", "idempotency_conflict", "batch_conflict", "panic"}
-----------------------------------------------------------------------------
(* Maps.                                                                   *)

Put(map, k, v) == [x \in DOMAIN map \cup {k} |-> IF x = k THEN v ELSE map[x]]
Delete(map, ks) == Restrict(map, DOMAIN map \ ks)
-----------------------------------------------------------------------------
(* Outcomes: the (value, error) pair a method returns.  A batch conflict   *)
(* is the one case that carries both.                                      *)

Ok(value) == [err |-> "none", value |-> value]
Fail(err) == [err |-> err, value |-> Nil]
-----------------------------------------------------------------------------
(* The audit log.                                                          *)

Event(type, actor, collectionID, documentID, key, details) ==
  [sequence |-> 0, at |-> clock, type |-> type, actor |-> actor,
   collection |-> collectionID, document |-> documentID, key |-> key,
   details |-> details]

(* Seeded fault: the sequence number is taken once for all events.         *)
appendUnderOneNumber(events) ==
  /\ auditSeq' = auditSeq + 1
  /\ audit' = audit \o [i \in 1 .. Len(events) |->
                          [events[i] EXCEPT !.sequence = auditSeq + 1]]

(* Calls of appendAudit, one for each event in order.                      *)
appendAudit(events) ==
  /\ auditSeq' = auditSeq + Len(events)
  /\ audit' = audit \o [i \in 1 .. Len(events) |->
                          [events[i] EXCEPT !.sequence = auditSeq + i]]
-----------------------------------------------------------------------------
(* Idempotency.  The digest is modelled by the parts it is computed from.  *)
(* Neither the actor nor, except in a batch's items, the reason is one.    *)

fingerprint(req) ==
  CASE req.op = "RegisterCollection" ->
         <<req.op, req.id, req.name, req.description>>
    [] req.op = "CreateDocument" ->
         <<req.op, req.collection, req.id, req.title, req.content, req.tags>>
    [] req.op = "UpdateDocument" ->
         <<req.op, req.collection, req.document, req.expected, req.title,
           req.content, req.tags>>
    [] req.op = "BatchUpdateDocuments" -> <<req.op, req.collection, req.items>>
    [] req.op \in {"AcquireLock", "RenewLock"} ->
         <<req.op, req.collection, req.document, req.holder, req.ttl>>
    [] req.op = "ReleaseLock" ->
         <<req.op, req.collection, req.document, req.holder>>

Known(req) == req.key # NoKey /\ req.key \in DOMAIN idem

Replays(req) == Known(req) /\ idem[req.key].fingerprint = fingerprint(req)

(* Seeded fault: a key that recorded a failure may be executed again.      *)
FirstUseOrFailed(req) ==
  Known(req) => idem[req.key].outcome.err # "none"

FirstUse(req) == ~ Known(req)

(* The key has been used: the same payload gets the recorded outcome, any  *)
(* other payload a conflict, and nothing changes.                          *)
Replay(req) ==
  /\ Known(req)
  /\ reply' = IF Replays(req) THEN idem[req.key].outcome
                              ELSE Fail("idempotency_conflict")
  /\ UNCHANGED <<stored, idem, clock>>

(* Seeded fault: the results are evaluated when the closure is deferred.   *)
RecordEagerly(req, outcome) ==
  idem' = IF req.key = NoKey THEN idem
          ELSE Put(idem, req.key, [fingerprint |-> fingerprint(req),
                                   outcome |-> Ok(Nil)])

(* Seeded fault: only successes are recorded.                              *)
RecordSuccess(req, outcome) ==
  idem' = IF req.key = NoKey \/ outcome.err # "none" THEN idem
          ELSE Put(idem, req.key, [fingerprint |-> fingerprint(req),
                                   outcome |-> outcome])

(* The deferred closure: record what the method is about to return.        *)
Record(req, outcome) ==
  idem' = IF req.key = NoKey THEN idem
          ELSE Put(idem, req.key, [fingerprint |-> fingerprint(req),
                                   outcome |-> outcome])

Return(req, outcome) == reply' = outcome /\ Record(req, outcome)

(* A failure found after the lock is taken consumes the key.               *)
Refuse(req, err) ==
  /\ Return(req, Fail(err))
  /\ UNCHANGED <<stored, clock>>

(* The ID function panics: the deferred closure runs with the zero result  *)
(* and a nil error, the deferred unlock runs, and the caller's goroutine   *)
(* unwinds (net/http recovers it, so the service lives on).                *)
Panic(req) ==
  /\ IDSourceFails
  /\ req.id = NoID
  /\ reply' = Fail("panic")
  /\ Record(req, Ok(Nil))
  /\ UNCHANGED <<stored, clock>>

NewIDs(id) == IF id = NoID THEN GeneratedIDs ELSE {id}

(* The returns before the lock: a cancelled context, then a malformed      *)
(* request.  The key is not consumed.                                      *)
TurnAway(malformed) ==
  /\ \/ reply' = Fail("canceled")
     \/ malformed /\ reply' = Fail("invalid_input")
  /\ UNCHANGED <<stored, idem, clock>>
=============================================================================
