-------------------------- MODULE ServiceProperties --------------------------
(***************************************************************************)
(* What the service promises.  The audit log, the revision histories and   *)
(* the idempotency table are three records of the same past, kept by       *)
(* separate statements of each handler; most properties below say that     *)
(* they agree with each other and with the current state.                  *)
(***************************************************************************)
EXTENDS Service

IsMap(m, K, V) ==
  /\ m = [x \in DOMAIN m |-> m[x]]
  /\ DOMAIN m \subseteq K
  /\ \A k \in DOMAIN m : m[k] \in V

Value ==
  {Nil} \cup Collection \cup Document \cup BatchResult \cup Lock
    \cup [reaped : Seq(ID)]

Outcome == [err : ErrorKind, value : Value]

(* The maps, the log and the counters hold what service.go declares.       *)
TypeOK ==
  /\ IsMap(collections, ID, Collection)
  /\ IsMap(documents, ID, Document)
  /\ IsMap(history, ID, Seq(Revision))
  /\ IsMap(locks, ID, Lock) /\ IsFiniteSet(DOMAIN locks)
  /\ audit \in Seq(AuditEvent)
  /\ auditSeq \in Nat
  /\ DOMAIN idem \subseteq IdemKey
  /\ \A k \in DOMAIN idem : idem[k].outcome \in Outcome
  /\ clock \in Nat
  /\ reply \in Outcome
-----------------------------------------------------------------------------
(* Documents and their histories.                                          *)

Snapshot(doc) ==
  [version |-> doc.version, title |-> doc.title, content |-> doc.content,
   tags |-> doc.tags, modifiedAt |-> doc.updatedAt]

SnapshotOf(rev) ==
  [version |-> rev.version, title |-> rev.title, content |-> rev.content,
   tags |-> rev.tags, modifiedAt |-> rev.modifiedAt]

(* "The revision log is the complete version history of a document"        *)
(* (domain/document.go:43): one revision for each version, numbered from   *)
(* 1 without a gap, and the last one is the document as it is now.         *)
HistoryIsComplete ==
  /\ DOMAIN history = DOMAIN documents
  /\ \A k \in DOMAIN documents :
       /\ Len(history[k]) = documents[k].version
       /\ \A v \in 1 .. Len(history[k]) : history[k][v].version = v
       /\ SnapshotOf(history[k][Len(history[k])]) = Snapshot(documents[k])

Extends(s, t) == Len(s) <= Len(t) /\ \A i \in 1 .. Len(s) : t[i] = s[i]

(* No step rewrites the past: a revision, an audit event and a collection  *)
(* stay what they were, and nothing is ever removed but locks.             *)
PastIsImmutable ==
  /\ \A id \in DOMAIN collections :
       id \in DOMAIN collections' /\ collections'[id] = collections[id]
  /\ \A k \in DOMAIN history :
       k \in DOMAIN history' /\ Extends(history[k], history'[k])
  /\ Extends(audit, audit')

PastIsNeverRewritten == [][PastIsImmutable]_vars

changed == {k \in DOMAIN documents : documents'[k] # documents[k]}
newEvents == {i \in DOMAIN audit' : i > Len(audit)}

(* "There is never a partial apply" (service/documents.go:272-276): a step *)
(* that logs an applied batch of n items moves exactly n documents by one  *)
(* version each and logs one update for each of them before it; a step     *)
(* that logs a rejected batch changes no document; and only a batch        *)
(* changes more than one document.                                         *)
BatchStep ==
  /\ \A i \in newEvents : audit'[i].type = "document.batch_applied" =>
       /\ Cardinality(changed) = audit'[i].details.items
       /\ Cardinality(newEvents) = audit'[i].details.items + 1
       /\ \A k \in changed :
            /\ documents'[k].version = documents[k].version + 1
            /\ \E j \in newEvents :
                 /\ j < i
                 /\ audit'[j].type = "document.updated"
                 /\ documentKey(audit'[j].collection, audit'[j].document) = k
                 /\ audit'[j].details.to = documents'[k].version
  /\ (\E i \in newEvents : audit'[i].type = "document.batch_rejected") =>
       documents' = documents /\ history' = history
  /\ Cardinality(changed) > 1 =>
       \E i \in newEvents : audit'[i].type = "document.batch_applied"

BatchIsAtomic == [][BatchStep]_vars

(* Two documents never share an entry of the maps, and listing a           *)
(* collection returns its documents, all of them and no other              *)
(* (service/documents.go:408-436), although the listing only looks at the  *)
(* prefix of the key.                                                      *)
ListingIsExact ==
  \A c \in DOMAIN collections :
    LET mine == {d \in Range(documents) : d.collection = c}
    IN  /\ ListDocuments(c, <<>>) = Ok(mine)
        /\ \A d \in mine : GetDocument(c, d.id) = Ok(d)
        /\ \A t \in Tag : ListDocuments(c, <<t>>) = Ok({d \in mine : t \in d.tags})
-----------------------------------------------------------------------------
(* The audit log.                                                          *)

keyOf(e) == documentKey(e.collection, e.document)

DocumentEvents(k) ==
  {i \in DOMAIN audit : audit[i].type \in DocumentEventType /\ keyOf(audit[i]) = k}

versionTold(e) ==
  IF e.type = "document.created" THEN e.details.version ELSE e.details.to

(* The log is numbered from 1 without a gap and in the order of time, so   *)
(* a reader may tail it by sequence number (README, "Audit stream").       *)
AuditIsOrdered ==
  /\ auditSeq = Len(audit)
  /\ \A i \in DOMAIN audit :
       /\ audit[i].sequence = i
       /\ audit[i].at <= clock
       /\ \A j \in 1 .. i : audit[j].at <= audit[i].at

(* The log and the histories tell the same story: the document events of a *)
(* document are, in order, its revisions 1, 2, 3..., each attributed to    *)
(* the same actor and time, and each update starts where the one before it *)
(* ended - so of two updates that expect the same version only one is ever *)
(* logged.                                                                 *)
AuditTellsHistory ==
  /\ \A i \in DOMAIN audit :
       audit[i].type \in DocumentEventType => keyOf(audit[i]) \in DOMAIN history
  /\ \A k \in DOMAIN history :
       /\ {versionTold(audit[i]) : i \in DocumentEvents(k)} = DOMAIN history[k]
       /\ \A i, j \in DocumentEvents(k) :
            i < j => versionTold(audit[i]) < versionTold(audit[j])
       /\ \A i \in DocumentEvents(k) :
            LET e == audit[i]
                r == history[k][versionTold(e)]
            IN  /\ r.actor = e.actor
                /\ r.modifiedAt = e.at
                /\ e.type = "document.created" <=> versionTold(e) = 1
                /\ e.type = "document.updated" =>
                     e.details.from = e.details.to - 1 /\ e.details.reason = r.reason
-----------------------------------------------------------------------------
(* Idempotency.                                                            *)

EventsOf(key) == {i \in DOMAIN audit : audit[i].key = key}

effectsOf(key) == {audit[i].type : i \in EventsOf(key)}

(* However often a key is sent, it takes effect once: at most one event of *)
(* the log carries it, and none does before it is recorded.                *)
OneEffectPerKey ==
  \A key \in IdemKey :
    /\ Cardinality(EventsOf(key)) <= 1
    /\ EventsOf(key) # {} => key \in DOMAIN idem

answered(key) ==
  [op |-> idem[key].fingerprint[1], outcome |-> idem[key].outcome, types |-> effectsOf(key)]

isRegistered(col) == col.id \in DOMAIN collections /\ collections[col.id] = col

isRevision(doc) ==
  LET k == documentKey(doc.collection, doc.id)
  IN  /\ k \in DOMAIN history
      /\ doc.version \in DOMAIN history[k]
      /\ SnapshotOf(history[k][doc.version]) = Snapshot(doc)

(* The answer to an operation is the truth about what happened, if the     *)
(* call left events of these types: a success with a document is a         *)
(* revision of it, a failure left no event but a rejected batch's, and a   *)
(* success that logged nothing is a collection that was already there (or  *)
(* the ID function's panic, which records no value).                       *)
isTrue(op, outcome, types) ==
  /\ outcome.err = "batch_conflict" => types = {"document.batch_rejected"}
  /\ outcome.err \notin {"none", "batch_conflict"} => types = {}
  /\ outcome = Ok(Nil) => types \subseteq {"lock.released"}
  /\ outcome.err = "none" /\ outcome # Ok(Nil) =>
       /\ op = "RegisterCollection" =>
            types \subseteq {"collection.created"} /\ isRegistered(outcome.value)
       /\ op = "CreateDocument" =>
            types = {"document.created"} /\ isRevision(outcome.value)
       /\ op = "UpdateDocument" =>
            types = {"document.updated"} /\ isRevision(outcome.value)
       /\ op = "BatchUpdateDocuments" =>
            /\ types = {"document.batch_applied"}
            /\ \A i \in DOMAIN outcome.value.results : isRevision(outcome.value.results[i])
       /\ op = "AcquireLock" => types \in {{"lock.acquired"}, {"lock.renewed"}}
       /\ op = "RenewLock" => types = {"lock.renewed"}
       /\ op # "ReleaseLock"

(* Every recorded answer is the truth about the call it was recorded for.  *)
RecordedAnswersAreTrue ==
  \A a \in {answered(key) : key \in DOMAIN idem} : isTrue(a.op, a.outcome, a.types)

(* The first answer is the only one: no retry, conflict, failure or later  *)
(* success ever changes what a key is answered.                            *)
AnswersAreFinal ==
  [][\A key \in DOMAIN idem : key \in DOMAIN idem' /\ idem'[key] = idem[key]]_vars

leases == {k \in DOMAIN locks : active(k)}

(* A caller that gets an error may conclude that nothing changed: no       *)
(* document, no history, no collection and no lease in force (an expired   *)
(* lock may have been deleted).                                            *)
RefusalStep ==
  reply'.err # "none" =>
    /\ UNCHANGED <<collections, documents, history>>
    /\ \A k \in leases : k \in DOMAIN locks' /\ locks'[k] = locks[k]
    /\ \A k \in DOMAIN locks' : k \in DOMAIN locks

RefusalsChangeNothing == [][RefusalStep]_vars
-----------------------------------------------------------------------------
(* Locks.                                                                  *)

(* Nobody loses a lease to another client: while it is in force it leaves  *)
(* the table, or changes, only by a release or a renewal its own holder    *)
(* asked for.  Time, the reaper, other clients' acquires and failed calls  *)
(* leave it alone.                                                         *)
LeaseStep ==
  \A k \in leases :
    \/ k \in DOMAIN locks' /\ locks'[k] = locks[k]
    \/ \E req \in AcquireRequests \cup RenewRequests :
         /\ documentKey(req.collection, req.document) = k
         /\ req.holder = locks[k].holder
         /\ AcquireLock(req) \/ RenewLock(req)
         /\ locks'[k].holder = req.holder
    \/ \E req \in ReleaseRequests :
         /\ documentKey(req.collection, req.document) = k
         /\ req.holder = locks[k].holder
         /\ ReleaseLock(req)

NoLeaseIsStolen == [][LeaseStep]_vars

(* The README asks that a collection identifier has no "/" in it; no code  *)
(* enforces it.  With such identifiers a key of the maps names one         *)
(* document of one collection.                                             *)
CollectionsAreSlashFree == \A c \in DOMAIN collections : SlashFree(c)

LockEvents(k) ==
  {i \in DOMAIN audit : audit[i].type \in LockEventType /\ keyOf(audit[i]) = k}

AcquireEvents(k) == {i \in LockEvents(k) : audit[i].type = "lock.acquired"}

last(indices) == CHOOSE i \in indices : \A j \in indices : j <= i

grants(e) == e.type \in {"lock.acquired", "lock.renewed"}

(* When the lease of a grant may end.  The log tells its ttl in seconds    *)
(* and drops the fraction, so it tells the end exactly if every ttl asked  *)
(* for comes down to a number of seconds.                                  *)
fraction ==
  IF \A req \in AcquireRequests \cup RenewRequests : NormalizeTTL(req.ttl) % Second = 0
  THEN 0 ELSE Second - 1

ends(e) == LET told == e.at + e.details.ttl * Second IN told .. told + fraction

(* What may follow an event p of the same document: a lease is acquired    *)
(* only when the one before it has been given up, reaped or has run out;   *)
(* it is renewed and released only before it runs out; and it is reaped,   *)
(* under its own end, only after it has.                                   *)
mayFollow(e, p) ==
  /\ e.type = "lock.acquired" /\ grants(p) => \E end \in ends(p) : end <= e.at
  /\ e.type \in {"lock.renewed", "lock.released"} =>
       grants(p) /\ \E end \in ends(p) : e.at < end
  /\ e.type = "lock.reaped" =>
       /\ grants(p)
       /\ \E end \in ends(p) : end <= e.at /\ seconds(end) = e.details.expiredAt

legal(i) ==
  LET before == {j \in LockEvents(keyOf(audit[i])) : j < i}
  IN  IF before = {} THEN audit[i].type = "lock.acquired"
      ELSE mayFollow(audit[i], audit[last(before)])

(* The lock events of each document form a legal history of one lease at a *)
(* time, the first of them an acquire.                                     *)
LeaseLogIsLegal ==
  \A i \in DOMAIN audit : audit[i].type \in LockEventType => legal(i)

leasable == {documentKey(req.collection, req.document) : req \in AcquireRequests}

(* An entry of the lock table is what the last acquire of its document and *)
(* the renewals after it say.                                              *)
explained(k) ==
  LET p == audit[last(LockEvents(k))]
      start == last(AcquireEvents(k))
  IN  /\ LockEvents(k) # {}
      /\ grants(p)
      /\ locks[k].document = p.document
      /\ locks[k].holder = audit[start].details.holder
      /\ locks[k].acquiredAt = audit[start].at
      /\ locks[k].expiresAt \in ends(p)
      /\ locks[k].renewCount = Cardinality({j \in LockEvents(k) : j > start})

(* The lease that the log says was given last may have ended.              *)
over(k) ==
  LET p == audit[last(LockEvents(k))]
  IN  LockEvents(k) = {} \/ ~ grants(p) \/ \E end \in ends(p) : end <= clock

(* The log explains the lock table: all that is in it, and all that is not.*)
LockTableMatchesLog ==
  \A k \in leasable : IF k \in DOMAIN locks THEN explained(k) ELSE over(k)

(* The locks are a lease table: expiry needs no action of the service, and *)
(* what reaping and lazy reclaiming delete is not visible in it.           *)
Leases ==
  INSTANCE LeaseTable WITH
    Item <- leasable, Owner <- Holder, MaxTerm <- MaxLockTTL, now <- clock,
    lease <- [k \in leases |->
                [owner |-> locks[k].holder, end |-> locks[k].expiresAt]]

ImplementsLeaseTable == Leases!Spec
=============================================================================
