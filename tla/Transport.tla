------------------------------ MODULE Transport ------------------------------
(***************************************************************************)
(* The HTTP handlers (internal/httpapi): each decodes a request, composes  *)
(* from its path, headers, query and body one call of the service, and     *)
(* answers with what the call returns.                                     *)
(*                                                                         *)
(* A body is the struct it decodes to, with zero values for what it leaves *)
(* out, or Undecodable.  An answer is its status, its code (Empty for a    *)
(* success) and the value in its body.  A handler that panics is recovered *)
(* by net/http, which closes the connection: the client gets no answer.    *)
(***************************************************************************)
EXTENDS AuditLog

CONSTANTS
  Word,            \* the number of values of an int and of a time.Duration
  Undecodable,     \* a body that decodeJSON refuses
  HttpRequests     \* the requests clients may send

ASSUME HttpAssumption ==
  /\ Word \in Nat \ {0}
  /\ \A h \in HttpRequests :
       (h.route \in {"AcquireLock", "RenewLock"} /\ h.body # Undecodable) =>
         h.body.seconds \in Int

VARIABLE answer    \* what the last request was answered

NoAnswer == [status |-> 0, code |-> Empty, value |-> Nil]
-----------------------------------------------------------------------------
(* Composing the call.                                                     *)

firstNonEmpty(first, second, empty) == IF first # empty THEN first ELSE second

wrapped(n) == LET r == n % Word IN IF r < Word \div 2 THEN r ELSE r - Word

ttl(s) == IF s <= 0 THEN 0 ELSE wrapped(s * Second)

(* Requests on collections and documents: the body is the service's own    *)
(* request struct.  The path overwrites what it names, and the header      *)
(* overwrites the key: one given in the body is accepted and ignored.      *)
documentCall(h) ==
  LET call == [h.body EXCEPT !.actor = firstNonEmpty(@, h.actor, NoActor),
                             !.key = h.key]
  IN  CASE h.route = "RegisterCollection" -> call
        [] h.route = "UpdateDocument" ->
             [call EXCEPT !.collection = h.collection, !.document = h.document]
        [] OTHER -> [call EXCEPT !.collection = h.collection]

(* Requests on locks: a key in the body comes before the header's, and a   *)
(* release may name its holder in the query.                               *)
lockCall(h) ==
  LET actor == firstNonEmpty(h.body.actor, h.actor, NoActor)
      key == firstNonEmpty(h.body.key, h.key, NoKey)
  IN  IF h.route = "ReleaseLock"
      THEN [op |-> h.route, collection |-> h.collection, document |-> h.document,
            holder |-> firstNonEmpty(h.body.holder, h.holder, NoHolder),
            actor |-> actor, key |-> key]
      ELSE [op |-> h.route, collection |-> h.collection, document |-> h.document,
            holder |-> h.body.holder, ttl |-> ttl(h.body.seconds),
            actor |-> actor, key |-> key]

LockRoute == {"AcquireLock", "RenewLock", "ReleaseLock"}

DocumentRoute ==
  {"RegisterCollection", "CreateDocument", "UpdateDocument", "BatchUpdateDocuments"}

call(h) == IF h.route \in LockRoute THEN lockCall(h) ELSE documentCall(h)

(* The handlers are the callers of the service, so what they compose is    *)
(* among the calls it may be made.                                         *)
ASSUME CallsAssumption ==
  \A h \in HttpRequests :
    /\ h.route = "RegisterCollection" /\ h.body # Undecodable =>
         call(h) \in RegisterRequests
    /\ h.route = "CreateDocument" /\ h.body # Undecodable => call(h) \in CreateRequests
    /\ h.route = "UpdateDocument" /\ h.body # Undecodable => call(h) \in UpdateRequests
    /\ h.route = "BatchUpdateDocuments" /\ h.body # Undecodable =>
         call(h) \in BatchRequests
    /\ h.route = "AcquireLock" /\ h.body # Undecodable => call(h) \in AcquireRequests
    /\ h.route = "RenewLock" /\ h.body # Undecodable => call(h) \in RenewRequests
    /\ h.route = "ReleaseLock" /\ h.body # Undecodable => call(h) \in ReleaseRequests
-----------------------------------------------------------------------------
(* Answering.                                                              *)

mapError(err) ==
  CASE err = "canceled" -> [status |-> 503, code |-> "unavailable"]
    [] err = "invalid_input" -> [status |-> 400, code |-> "invalid_input"]
    [] err \in {"collection_not_found", "document_not_found", "lock_not_held"} ->
         [status |-> 404, code |-> "not_found"]
    [] err \in {"version_conflict", "lock_conflict", "idempotency_conflict",
                "batch_conflict"} -> [status |-> 409, code |-> err]
    [] err = "lock_expired" -> [status |-> 410, code |-> err]
    [] OTHER -> [status |-> 500, code |-> "internal_error"]

success(route) ==
  CASE route \in {"RegisterCollection", "CreateDocument"} -> 201
    [] route = "ReleaseLock" -> 204
    [] OTHER -> 200

(* Seeded fault: an answer with a body is taken for a success.             *)
respondByBody(route, outcome) ==
  IF outcome.err = "panic" THEN NoAnswer
  ELSE IF outcome.err = "none" \/ outcome.value # Nil
  THEN [status |-> success(route), code |-> Empty, value |-> outcome.value]
  ELSE [status |-> mapError(outcome.err).status,
        code |-> mapError(outcome.err).code, value |-> Nil]

(* A rejected batch is the one error that carries a value.                 *)
respond(route, outcome) ==
  IF outcome.err = "panic" THEN NoAnswer
  ELSE IF outcome.err = "none"
  THEN [status |-> success(route), code |-> Empty, value |-> outcome.value]
  ELSE [status |-> mapError(outcome.err).status,
        code |-> mapError(outcome.err).code, value |-> outcome.value]
-----------------------------------------------------------------------------
(* The handlers.                                                           *)

Refused(h, err) == answer' = respond(h.route, Fail(err)) /\ UNCHANGED vars

Write(h) ==
  \/ h.body = Undecodable /\ Refused(h, "invalid_input")
  \/ /\ h.body # Undecodable
     /\ \/ h.route = "RegisterCollection" /\ RegisterCollection(call(h))
        \/ h.route = "CreateDocument" /\ CreateDocument(call(h))
        \/ h.route = "UpdateDocument" /\ UpdateDocument(call(h))
        \/ h.route = "BatchUpdateDocuments" /\ BatchUpdateDocuments(call(h))
        \/ h.route = "AcquireLock" /\ AcquireLock(call(h))
        \/ h.route = "RenewLock" /\ RenewLock(call(h))
        \/ h.route = "ReleaseLock" /\ ReleaseLock(call(h))
     /\ answer' = respond(h.route, reply')

Reap(h) ==
  /\ h.route = "ReapExpiredLocks"
  /\ ReapExpiredLocks
  /\ answer' = respond(h.route, reply')

(* Lists are answered under a name in an object.                           *)
listed(outcome) ==
  IF outcome.err = "none" THEN Ok([list |-> outcome.value]) ELSE outcome

(* What a read returns.                                                    *)
result(h) ==
  CASE h.route = "GetCollection" -> GetCollection(h.collection)
    [] h.route = "ListCollections" -> listed(Ok(ListCollections))
    [] h.route = "GetDocument" -> GetDocument(h.collection, h.document)
    [] h.route = "ListDocuments" -> listed(ListDocuments(h.collection, h.tags))
    [] h.route = "GetDocumentHistory" ->
         listed(GetDocumentHistory(h.collection, h.document))
    [] h.route = "ListAuditEvents" -> listed(Ok(ListAuditEvents(h.filter)))

ReadRoute ==
  {"GetCollection", "ListCollections", "GetDocument", "ListDocuments",
   "GetDocumentHistory", "ListAuditEvents"}

(* A minimum or a limit in the query that is no natural number is refused. *)
badQuery(h) ==
  \/ h.route = "ListAuditEvents" /\ h.filter.minSequence < 0
  \/ h.route \in {"ListAuditEvents", "ListDocuments"} /\ h.filter.limit < 0

Read(h) ==
  /\ h.route \in ReadRoute
  /\ \/ badQuery(h) /\ Refused(h, "invalid_input")
     \/ ~ badQuery(h) /\ Refused(h, "canceled")
     \/ /\ ~ badQuery(h)
        /\ answer' = respond(h.route, result(h))
        /\ UNCHANGED vars

Serve(h) ==
  \/ h.route \in LockRoute \cup DocumentRoute /\ Write(h)
  \/ Reap(h)
  \/ Read(h)

TransportInit == Init /\ answer = NoAnswer

TransportNext ==
  \/ Tick /\ UNCHANGED answer
  \/ \E h \in HttpRequests : Serve(h)

TransportSpec == TransportInit /\ [][TransportNext]_<<vars, answer>>
-----------------------------------------------------------------------------
leased == {k \in DOMAIN locks : active(k)}

(* A client that looks at the status alone is not misled: a creation, an   *)
(* update or a batch without a key is answered 200 or 201 exactly when it  *)
(* has changed a document, and a call on a lock 200 or 204 exactly when it *)
(* has changed a lease in force; and nothing is ever an internal error     *)
(* (httpapi/documents.go:62-89, encode.go:54-119).                         *)
StatusStep ==
  /\ answer'.status # 500
  /\ \A h \in HttpRequests :
       (h.route \in LockRoute \cup DocumentRoute /\ h.body # Undecodable /\ Write(h)) =>
         LET done == answer'.status \in 200 .. 299
         IN  call(h).key = NoKey =>
               /\ h.route \in DocumentRoute \ {"RegisterCollection"} =>
                    (done <=> documents' # documents)
               /\ h.route \in LockRoute =>
                    (done <=> [k \in leased |-> locks[k]]
                                # [k \in leased' |-> locks'[k]])

StatusTellsEffect == [][StatusStep]_<<vars, answer>>

(* Whatever number of seconds a client asks for, one whose product with a  *)
(* second overflows included, the lease it is given has not already ended, *)
(* and ends within the maximum (domain/lock.go:43-57,                      *)
(* httpapi/locks.go:19-25).                                                *)
LeasesAreUsable ==
  [][\A k \in DOMAIN locks' :
       (k \in DOMAIN locks => locks'[k] # locks[k]) =>
         locks'[k].expiresAt \in clock + 1 .. clock + MaxLockTTL]_<<vars, answer>>
=============================================================================
