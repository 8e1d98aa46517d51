# doclock, specified

TLA+ models of the document versioning and edit-lock service in `src/`, the TLC
runs that check them on small instances, and theorems about them that TLAPS
proves for every instance. Line numbers refer to the files under `src/`.

## 1. The system

`doclock` is one process with all its state in memory. HTTP handlers
(`internal/httpapi`) decode a request, call one method of `service.Service`, and
encode what it returns. A background goroutine calls `ReapExpiredLocks` on a
ticker. `Service` keeps everything behind one `sync.RWMutex`: a write operation
holds the write lock from its first access to the state to its last, a read
holds the read lock.

| component | state | operations | talks to |
|---|---|---|---|
| composite keys (`service.go`, `locks.go`) | none | `documentKey`, prefix test, `collectionIDFromKey` | every map of documents |
| idempotency table (`idempotency.go` and a block in every write) | key -> fingerprint, outcome | look up, replay, conflict, record on return | wraps every write operation |
| collections (`collections.go`) | id -> collection | register, get, list | documents look them up |
| documents (`documents.go`) | key -> document, key -> revisions | create, update, batch update, get, list, history | collections, audit log |
| edit locks (`locks.go`, `domain/lock.go`) | key -> lock | acquire, renew, release, get, reap | documents, clock, audit log |
| audit log (`audit.go`) | events, last sequence number | append, filtered read | written by all of the above |
| clock (`domain/clock.go`) | time | `Now` | read once by each write operation |
| reaper (`service.go:82`) | a ticker | reap | edit locks |
| HTTP transport (`internal/httpapi`) | none | decode, call, map errors, encode | service |
| lifecycle (`cmd/doclock`, `httpapi.Server.Run`) | server, signal context | start, serve, shut down | reaper, transport |

What is hard about it:

* **Three records of one past.** The revision histories, the audit log and the
  idempotency table are written by separate statements of seven handlers, and
  each must agree with the others and with the current state.
* **Optimistic concurrency and batches.** Of several updates that expect the same
  version one wins. A batch is validated as a whole before any of it is applied.
* **Leases and time.** A lock expires without anybody doing anything, stays in
  the table until an operation or the reaper meets it, and may be reaped, renewed,
  reclaimed or released in any order around its last instant.
* **Retries.** A client that got no answer sends the request again with the same
  key, perhaps much later, and must get the first answer and no second effect. Failures are recorded too,
  and a panic still runs the recording closure.
* **Keys joined with a slash.** Documents of all collections share one map; a
  listing is a prefix test, and the reaper cuts a key at its first slash.
* **Sharing.** Values are copied on the way in and out; what is missed is shared.
* **Shutdown.** The signal context ends the reaper and, with a ten second limit,
  the server.

What makes each component correct, and where that is stated:

| component | properties |
|---|---|
| keys | `ListingIsExact` |
| documents | `HistoryIsComplete`, `PastIsNeverRewritten`, `BatchIsAtomic` |
| audit log | `AuditIsOrdered`, `AuditTellsHistory` |
| idempotency | `OneEffectPerKey`, `RecordedAnswersAreTrue`, `AnswersAreFinal`, `RefusalsChangeNothing` |
| edit locks | `ImplementsLeaseTable`, `NoLeaseIsStolen`, `LeaseLogIsLegal`, `LockTableMatchesLog` |
| audit stream, as a client tails it | `TailIsExact`, `NoSilentLoss`, `CatchesUp` |
| the lock around it all | `DecisionsSeeSettledState`, `ReadsAreOfOneMoment`, `EveryCallReturns` |
| HTTP transport | `StatusTellsEffect`, `LeasesAreUsable` |
| transport and clients over a network | `RetriesAgree`, `UpdatesAreAsTold`, `BeliefsAreTrue`, `NobodyWaitsForever` |
| reaper and lifecycle | `ExpiredAreReaped`, `AtMostOneLateSweep`, `ShutdownEnds` |
| isolation | `StoredStaysTrue`, `AnswersStayTrue` |

The hazards, each with its line and the properties that cover it, are listed in
`PROJECT.json`.

## 2. The modules

```
Keys <- ServiceState <- Collections <- Documents <- Locks <- Service
                                                               ^
    LeaseTable (abstract) <--INSTANCE-- ServiceProperties ------+
                                                                |
    ServiceThreads  (RWMutex, goroutines) ----------------------+
    AuditLog -------(the filtered read) ------------------------+
      ^-- AuditTail    (a client that tails it)
      ^-- Transport    (the HTTP handlers)
            ^-- Clients    (lossy network, retries, crashes)
            ^-- Lifecycle  (main, Run, reaper, signal, shutdown)
    Isolation (a heap; on its own)
```

| module | models |
|---|---|
| `Keys` | identifiers and the composite keys of the maps |
| `ServiceState` | the fields of `Service`; the audit log; what all write operations share: the returns before the lock, replay, conflict, recording, the panic of the ID function |
| `Collections` | `RegisterCollection`, `GetCollection`, `ListCollections` |
| `Documents` | `CreateDocument`, `UpdateDocument`, `BatchUpdateDocuments`, `GetDocument`, `ListDocuments`, `GetDocumentHistory` |
| `Locks` | `AcquireLock`, `RenewLock`, `ReleaseLock`, `GetLock`, `ReapExpiredLocks` |
| `Service` | `New`, the passing of time, and all write operations in any order |
| `LeaseTable` | what the edit locks promise, without a table to clean up |
| `ServiceProperties` | the type invariant and the properties of the service |
| `ServiceThreads` | the same handlers as goroutines over memory guarded by the `RWMutex`: the checks before the lock, waiting, deciding, writing table after table, the two deferred calls, reads that copy table after table |
| `AuditLog`, `AuditTail` | `ListAuditEvents` with its filter, and a client that tails the log by `min_sequence` |
| `Transport` | the handlers of `internal/httpapi`: composing the call from path, header, query and body, ttl arithmetic of a fixed width, and the answer |
| `Clients` | clients of the HTTP interface that lose answers, give up, send again, and crash |
| `Lifecycle` | the process: `main`, `Server.Run`, the listener, the reaper's goroutine and ticker, requests, the signal and the shutdown with its deadline |
| `Isolation` | structs and slices on a heap, what is copied on the way in and out, and callers that write to what they hold |
| `MC*` | small instances for TLC |
| `TypeProofs` <- `ServiceProofs` <- `LogProofs` | theorems about the service and their proofs |
| `AuditProofs` (`AuditTail` and `LogProofs`) | theorems about what a reader of the log can rely on |
| `HttpProofs` (`Clients` and `LogProofs`) | theorems about the HTTP interface and its clients |
| `ThreadsProofs`, `LifecycleProofs`, `IsolationProofs` | theorems about the goroutines, the process and the heap |

### How a handler becomes an action

Each write operation is one action with the request as its parameter. Its
disjuncts are the ways out of the handler, in the order of the code:

1. `TurnAway`: the context is cancelled, or the request is malformed. Nothing is
   locked and the key is not consumed.
2. `Replay`: the key is known. The same fingerprint gets the recorded outcome,
   another one `idempotency_conflict`.
3. `Refuse`: a check fails under the lock. The failure is recorded under the key.
4. `Panic`: the ID function panics. The deferred closure records a nil value and
   a nil error, the deferred unlock runs, and `net/http` recovers the goroutine.
5. the effect: the maps, the audit events and, by `Return`, the answer and its
   record.

`reply` is what the last operation returned. Reads change nothing, so they are
operators of the state, used by the properties. One action per handler is the
grain the write lock justifies, and `ServiceThreads` shows that it does.

### Goroutines and the lock

In `ServiceThreads` the variables of `Service` are auxiliary: they change when a
writer decides, and say what `memory` will hold when that writer has unlocked. A
goroutine really reads `memory`. `DecisionsSeeSettledState` says the two agree
whenever a writer decides, so what it computes from `memory` is what the action of
`Service` computes, and every handler is indivisible. `MemoryIsService` says how
the two are related in between: `memory`, with what the one writer at work has yet to
write, is the tables. What a handler refuses without looking at the tables, a
cancelled context or a malformed request (`malformed`), it refuses before it waits
for the lock. The two deferred calls,
recording and unlocking, are steps of their own, in the order in which Go runs
them. `sync.RWMutex` is external: `Lock` keeps out other writers, then new
readers, and waits for the readers that are in; `Unlock` lets in the readers that
wait.

### From HTTP to the service

A request is a record of its route, path values, headers, query and decoded body;
a body that `decodeJSON` refuses is `Undecodable`. `documentCall` and `lockCall`
compose the service's request from it, with the precedences of the code: for
collections and documents the header's key replaces the body's, for locks the
body's key comes first. `ttl` multiplies in a word of `Word` values. `respond`
answers with status, code and value; a panic gives no answer, as `net/http` closes
the connection.

`Clients` adds what is not in the repository: every client sends its script, one
request after the other. A copy that was given up is handled late, in any order,
or never; answers get lost; a client that sends no more has crashed. A client that
is refused a lock asks again only if it named no key: under the same key it would
be told of the same conflict for ever, since failures are recorded too. A request
whose ID function panics gets no answer, like one that was lost. What a client was
told of its update says something if the update has a key that no other request uses
(`ownKey`), and what it was told of its leases if it is `careful`: it calls itself by
a name of its own and gives every call on a lock no key or a key of its own. It
believes in a lease until the end it was told, unless it has since sent something
that gives the lease up or makes it shorter, or has sent such a thing without a key,
which may take effect again (`lasting`).

### The process

`Lifecycle` has one variable for each goroutine. The reaper looks at its context
twice, in its `select` (`Receive`), where with both channels ready either may be
taken, and in `checkCtx` (`Admit`), before it sweeps. The ticker's channel holds
one tick. The interval and the ten seconds of the shutdown have no fixed relation
to leases and requests, so the tick may come and the deadline may pass at any
time. A request whose body never comes stays accepted for ever: only reading the
header has a time limit. `Run` may then return with an error while it is in
flight, which `exit = "fatal"` tells apart from a clean exit. That a clean exit has
answered every request is what `net/http` promises of `Shutdown`; `EndShutdown`
assumes it, and no property restates it.

### Memory

`Isolation` has one document for all. An object is a struct and the slice in it
(tags, or a batch's failures). A cell holds the version that wrote it, or `Spoiled`
once a caller has written to it. Each operation allocates the copies that the code
makes and shares what it shares; `said` remembers what an answer contained. Updates
may expect any version (`ExpectedVersion`, a set of integers): the current one, a
stale one, one that is yet to come, or none that can be, which `UpdateDocument`
refuses before it looks anything up and a batch records as its failure.

### What is abstracted

* An identifier is the sequence of the segments a slash splits it into. Joining
  with a slash concatenates, the prefix test compares segments, and cutting at the
  first slash keeps the first segment. The ambiguities of the string form are kept.
* Texts are members of a small set with a `TrimSpace` function on it. Tags are
  stored sorted and without duplicates by the code, hence as a set.
* The SHA-256 digest is the tuple of what it is computed from, so there are no
  collisions. An empty and an absent tag list of a creation have the same digest.
* A tick is a fraction of a second (`Second` ticks make one). The log tells
  durations and times in whole seconds (`seconds`), as the code does.
* JSON, query syntax, the order and the limit of a listing, and the health check
  are left out of `Transport`; a limit that is no natural number is refused.
* The clock only moves forward. `time.Now` is monotonic within the process;
  `ManualClock.Set` to an earlier time is for tests.
* An error is its kind; its message and detail are left out, except the failures
  of a batch. The sort order and the limit of listings are left out, and so are
  the tags in the details of `document.created`.
* The list a reap returns is wrapped in a record, and the order in which a Go map
  is visited is any order.
* Versions, sequence numbers and renew counts are unbounded integers: at 64 bits
  they do not overflow in the life of a process.

## 3. The runs

The runs of the service use `MCService`, which bounds the length of the audit log
(`MaxEvents`, and with it versions and revisions) and the clock (`MaxClock`). The
only actions the bounds cut off are those beyond them. `documents` and `locks` tell
states apart without the last answer (`MCView`): no step and none of their
properties depends on what was answered before, but the part of `TypeOK` about
`reply`, which is looked at only in the states that TLC keeps; theorem `TypeCorrect`
covers it in all of them. Action properties are checked on every step, whatever the
view. Deadlock is checked in
`documents`, `locks`, `idempotency`, `audit_tail`, `transport` and `threads`; in `threads` that is the point, since a goroutine that waits for ever
blocks everybody. Clients at the end of their scripts, a process that has exited,
and callers that hold all the answers they may, do stop, so `clients`, `lifecycle`
and `isolation` do not check it.

| run | instance | shows |
|---|---|---|
| `documents` | two documents, one with a slash in its identifier, and one of the same identifier as the other in a second collection; three updates that race for two versions, three batches (good; duplicate; one stale and one malformed item), a malformed request of each kind, 7 events, 1 tick | histories, log order and content, immutability of the past, atomic batches; a listing is exactly its collection |
| `locks` | two holders, one document, ttls given, defaulted and capped, half-second ticks; then, without renewals and releases, leases of two documents, one with a slash in its identifier and for half a second, that end together or apart; 7 events, 4 ticks | the locks implement `LeaseTable`; no lease is stolen; log and table agree; reaped leases are logged in order and under their own names |
| `idempotency` | two keys shared by all operations, requests without a key in between, a panicking ID function, 6 events | one effect per key, true and final answers, refusals change nothing |
| `audit_tail` | four filters (none; a limit of 2; an actor; a document with a limit of 1), batches of two, leases that are reaped, 6 events | a client that tails reads everything once and in order, notices what a limit made it miss, and catches up |
| `transport` | every route, undecodable bodies, bad limits, keys in header and body, ttls of 3 and of 6 seconds in words of 16 values, 4 events | the status tells the effect; leases given are usable |
| `clients` | three pairs of clients, one pair at a time: two that want a lock (five requests, two copies on their way each), two that race for two versions, one that waits for the lock of a client that may crash | copies of a request are answered alike; what a client was told of its update, and what it believes of its leases, is true; the one that waits gets the lock |
| `lifecycle` | one document, two requests for its lock, the reaper, the listener, a signal at any moment | expired locks are reaped, the reaper stops, a signal ends the process |
| `threads` | three goroutines, an update sent twice under one key, a malformed one, an acquire, a creation whose ID function may panic, histories read, 4 events | handlers are indivisible, reads are snapshots, every call returns |
| `isolation` | two callers, one key, updates that expect version 0, 1 or 2, 38 cells, 5 answers, one of which is written to; callers are symmetric | stored values and other callers' documents stay as they were |

Why the bounds are enough: two events set up a collection and a document, so seven
events leave room for five lock events on one document, that is an acquisition, a
renewal, an end, an acquisition by the other holder and its end; four ticks let a
default lease run out twice. Three versions are enough for two updates that race
and one that comes late. Two keys are enough for a key to be reused after another
key's effect. In `transport` a word holds -8..7 and a second is 3 ticks, so 3
seconds wrap to a negative duration and 6 seconds to a positive one that is
shorter. In `clients` two copies of a request are enough for one to overtake the
other and for one to arrive after its client has moved on; time stands still
while no lease is left to end, for nothing depends on it then. In `threads` it stands
still altogether, and the run starts after the document has been created;
three goroutines are enough for a writer that works, one that waits and a reader
between them. In `isolation` the cells suffice for three versions and a read, or
for fewer with conflicts, replays and reads between them; one write by a caller shows
a shared cell. Callers are
interchangeable, which no other run's requests are.

Each property of these runs is also checked against a seeded fault, an operator
that stands right before the definition it replaces and is marked `Seeded fault`.
`PROJECT.json` lists which fault must break which property.

### What the documentation says and the code does not do

Three runs state sentences of the documentation as properties, and end with a
behaviour that contradicts them.

| run | the sentence | the behaviour |
|---|---|---|
| `find_reason` | a key reused with a different body is a conflict (`README.md:89`) | a body that differs in the reason only is replayed |
| `find_events` | `Clone` returns a deep copy of the event, "including its details map" (`domain/audit.go:34`) | two callers of `ListAuditEvents` share the tags in the details of a `document.created` event, and the log shares them too |
| `find_errors` | returned values are always deep copies (`service.go:14`), and a replay never shares state with internal storage (`idempotency.go:44`) | the error that a rejected batch returns is the pointer that is recorded (`documents.go:300`) and that a replay returns again (`documents.go:298`), beside a copy of the result |

A version conflict is replayed by reference in the same way (`documents.go:226`).
Other sentences that the definitions contradict, for readers of both:

* "Every mutating operation appends an `AuditEvent`" (`README.md:129`): a renewal,
  a release or an acquire that finds an expired lock deletes it without an event
  (`withoutStale`; `locks.go:88`, `185`, `250`).
* "Expired locks are reported as not held" (`locks.go:275`): they are reported as
  expired until somebody deletes them (`GetLock`). No HTTP route calls `GetLock`,
  so `410 lock_expired` (`encode.go:96`) is never answered.
* "`Renew` extends expiry" (`README.md:113`): a shorter ttl brings the end forward
  (`renew`).
* "`ttl_seconds` ... defaults to the service default when <= 0 or absent"
  (`httpapi/locks.go:10`): a value whose product with a second overflows also gets
  the default, or some other length, where one that is merely large is capped
  (`ttl`, `NormalizeTTL`). `LeasesAreUsable` says that nothing worse happens.
* "a retried request with the same key returns the identical result"
  (`idempotency.go:11`): a call whose ID function panicked is replayed as a success
  without a value (`Panic`).
* "Collection IDs must not contain `/`" (`README.md:180`): nothing refuses them, and
  `docs` then lists the documents of `docs/d1` (`HasCollectionPrefix`).

## 4. Fairness

Safety runs assume none. The liveness properties assume:

* `LifecycleFairness`, for `ExpiredAreReaped` and `ShutdownEnds`: weak fairness of
  the ticker, the reaper's goroutine, main's goroutine, the shutdown's deadline and
  time. Each of these actions stays enabled until it is taken, and the Go
  scheduler and timers delay none for ever. Nothing is assumed of the requests or
  the listener: `ShutdownEnds` holds although a request never ends.
* `ThreadsFairness`, for `EveryCallReturns`: weak fairness of each goroutine, and
  strong fairness of getting ahead of the other writers, because `sync.Mutex`
  hands itself to the longest waiter after a millisecond (starvation mode). Readers
  need no more than weak fairness, since `Unlock` lets in all that wait.
* `Fairness` of `Clients`, for `NobodyWaitsForever`: time passes while a lease has
  yet to end; what is on its way is handled or lost; a client that does not crash
  sends again until it is answered; and what it sends again and again is at last
  handled, and the answers that come again and again at last arrive (strong
  fairness, as for any channel that loses). Nothing is assumed of other clients,
  nor of the reaper.

## 5. What is proved

The theorems hold for every set of requests, texts, identifiers, actors, holders
and keys, every ttl bound, every set of goroutines, every set of callers of the
heap's document and of versions that its updates expect, every set of clients and their scripts, every number of copies on
their way, and every word width that satisfy the named assumptions (`TextAssumption`: trimming is idempotent;
`IdentityAssumption`: the empty key, holder and identifier are none of the others;
`NilAssumption`: Go's nil is not a collection, a document, a batch's result or a lock;
`TTLAssumption`: the default ttl is positive and not above the maximum; that
requests are well typed; `ThreadAssumption`: nobody is called `Nil`; `ExpectedVersionAssumption`: expected
versions are integers;
`HttpAssumption`: a word has values, seconds are integers; `CallsAssumption`: what
the handlers compose is among the calls the service may get, since they are its
callers; `ScriptAssumption`: a script is a sequence of requests). TLC evaluates the
assumptions on every run.

| theorem | module | argument |
|---|---|---|
| `TypeCorrect` | `TypeProofs` | `TypeOK` is inductive, action by action |
| `HistoryComplete` | `ServiceProofs` | inductive together with `TypeOK`; `DocumentSteps` says that a step leaves documents alone, inserts one, or applies updates to some |
| `AuditOrdered` | `ServiceProofs` | `StepLogs` says that a step leaves the log alone or appends events of the present time; with `TypeOK` that makes `AuditIsOrdered` inductive |
| `PastPreserved` | `ServiceProofs` | from the two above, as an action property |
| `AnswersFinal` | `ServiceProofs` | an operation records only under a key it found unused |
| `OneEffect` | `ServiceProofs` | `LoggedOnce` strengthens `OneEffectPerKey`: a key of the log has been recorded, so no step logs it again |
| `LeasesAreSafe` | `ServiceProofs` | `LockSteps` says that a step leaves the lock table alone, deletes expired locks, or grants, renews or releases one for its holder |
| `LocksAreLeases` | `ServiceProofs` | each kind of step of `LockSteps` is a step of `LeaseTable` or a stutter; `Leasable` (only requested documents are in the table) is the invariant the mapping needs |
| `ListingsAreExact` | `ServiceProofs` | for slash-free collections; `DocumentsFiled` (a document is filed under the key of its own collection and identifier, in a collection that is there) is inductive, and the first segment of such a key is the collection |
| `BatchAtomic` | `LogProofs` | an action property; `ItemsDiffer`: the items of a batch that passes name different documents, so what changes and what is logged are counted by the items |
| `LogTellsHistory` | `LogProofs` | inductive with `TypeOK` and `HistoryIsComplete`; `StepCases` sorts every step by its effect, and each effect appends to the document events of a document what it appends to its history |
| `AnswersAreTrue` | `LogProofs` | what is true when it is recorded stays true, by `PastPreserved` and `LoggedOnce`; that it is true when it is recorded needs `HistoryIsComplete`, `DocumentsFiled` and `CollectionsNamed` |
| `LeaseLogLegal` | `AuditProofs` | for slash-free collections; a conjunct of the inductive invariant `LeaseStory`, see below |
| `LogTellsLeases` | `AuditProofs` | another conjunct of `LeaseStory` |
| `TailExact`, `LossIsTold` | `AuditProofs` | the inductive invariant `Tailing`, and what a filtered read returns (`Selection`, `Suffix`), see below |
| `TailCatchesUp` | `AuditProofs` | an action property; the last event of an answer is the last that is wanted, whatever the limit (`AnswerIs`) |
| `RefusalsAreHarmless` | `ServiceProofs` | `ErrorsAreHarmless`: operation by operation, a step that answers with an error deletes at most expired locks; `HarmlessKeepsLeases`: that takes no lease |
| `HandlersAreIndivisible` | `ThreadsProofs` | the inductive invariant `IInv`, see below |
| `ReadsAreSnapshots` | `ThreadsProofs` | a conjunct of `IInv` |
| `ReaperStops` | `LifecycleProofs` | a sweep that has looked at its context before the signal is the only one left: the count is 0 before it is taken and at most 1 after |
| `GivenLeasesAreUsable` | `HttpProofs` | `NormalizeTTL` maps every integer into 1 .. `MaxLockTTL`, whatever the multiplication made of it, and every step sets an end of now plus such a number, or only deletes locks |
| `ThreadsAreService` | `ThreadsProofs` | a refinement: `memory`, seen with what the one writer at work has yet to write (`MemoryIsService`), goes through a behaviour of `Service`. Deciding, or turning a call away, is an action of `Service`, and every other step leaves the tables alone; `IInv` says that `memory` follows, that who decides finds the tables in it and that who reads copies them |
| `HttpIsService` | `HttpProofs` | a refinement: the handlers implement `Service`, since what they compose is a call and what they refuse changes nothing |
| `StatusTellsTheEffect` | `HttpProofs` | operation by operation, what is returned without a key is an error just when nothing has changed; `mapError` and `success` keep the two apart |
| `CopiesAreAnsweredAlike` | `HttpProofs` | the invariant `GivenTrue`, see below |
| `UpdatesAreTold` | `HttpProofs` | the invariants `Flow`, `GivenTrue`, `MalformedUnused` and `UpdatesSettled`, see below |
| `BeliefsHold` | `HttpProofs` | the invariant `PromisesKept`, see below |
| `StoredIsIsolated` | `IsolationProofs` | the inductive invariant `IInv` of the heap, see below |
| `AnswersAreIsolated` | `IsolationProofs` | a conjunct of that invariant |

The history theorem needs no more than typing because a revision is built from the
document it is appended for, in the same step. `OneEffectPerKey` alone would not be
inductive: from a state in which a key is logged but not recorded a retry would
log it again.

`DecisionsSeeSettledState` is not inductive either: it says nothing while somebody
writes. `IInv` adds where the goroutines are (`PlacesOK`), that whoever is past
`Announce` is alone and excludes readers (`Exclusion`), that `memory` lags behind
the tables by exactly what the one writer has yet to write (`Lag`), and that a
reader has copied from tables nobody was writing (`Copies`).

Three theorems are about collections without a slash in their identifiers
(`CollectionsAreSlashFree`), and hold from the start of a behaviour for as long as
no other is registered. The condition is the code's own: with the collections `docs`
and `docs/d1` two documents can share a key of the maps, the listing of the one shows
documents of the other, and a reaped lock is logged under the collection that its key
is cut to, so what the three state can be false then. The README asks for such
identifiers (`README.md:180`) and nothing refuses others. Document identifiers may
have slashes.

`AuditTellsHistory` is inductive next to `HistoryIsComplete`: the length of a history
is the number of the next version, so the event that is appended for it tells the
right one.

`LeaseLogIsLegal` and `LockTableMatchesLog` are proved together, since neither is
inductive: that a renewal may be logged is known from the lock table, and that the
table is what the log says is known from the log. `LeaseStory` joins them. It says of
every document what the last of its lock events is, that the lock in the table ends
when that event says it ends, and that what has left the table has been released or
reaped or was over. A step that logs no lock event of a document leaves its story
alone; `LockSteps` and `StepCases` say what the others do.

The log tells the term of a lease in whole seconds and drops the fraction. `ends` is
the set of the ends it may mean: one, if every term that may be asked for is a number
of seconds, and all within a second otherwise. The theorems cover both.

`RecordedAnswersAreTrue` relates the idempotency table to three other records of the
past. An answer is never changed (`AnswersFinal`), what it refers to is never
rewritten (`PastPreserved`), and no later event carries its key (`LoggedOnce`), so
only the step that records it has to be looked at. A success that returns a document
is a revision because the history is complete in the state after that step.

The filtered read is a loop over the log, and `selected` is its recursion. What it
returns for every log is shown by the least counterexample: a set of numbers has a
least one (`LeastNumber`), so a function satisfies the recursion (`LoopExists`), and
if the selection were wrong after some number of events, it would be right one event
before, and `SelectionGoesOn` says that then it is right. `Selection` says that the
answer holds the events that match, in the order of their numbers; `Suffix`, that to a
client that wants everything it is the end of the log without a gap. `Tailing` says of
the client that it was given only events below `next`, in order, all that it wants
among them if it has no limit, and that together with the numbers it knows to be
missing they make up `1 .. next - 1`, if it filters nothing. It is inductive because
the log is numbered by position (`AuditOrdered`) and only grows (`StepExtendsAudit`).

`ClientsSpec` implements `Service` too (`ClientsAreCallers`): losing, delaying and
repeating requests is nothing the service has not seen, so all the theorems about it
hold behind the network. `ClientsSpec` starts from the empty service, and a script may
begin with the creations; the run starts when a document has been created.

What is said of the clients rests on four invariants. `Flow`: an answer that a client
was told, or that is on its way to it, was given to a copy of the request that it was
sent for, and a copy is of a request that the client is at or has been at. `GivenTrue`:
whatever was answered to a write with a key is its `verdict`, which depends on the
request and the idempotency table alone; once a request is malformed or its key used,
no later step changes the verdict (`AnswersFinal`). So all copies are answered alike,
though an answer may be given long after the effect. `UpdatesSettled`: an update that
has used its own key has been recorded as a failure and logged nothing, or as the
version that the history has at that place, by its actor, with one event; only the
handling of a copy of the request itself can use the key first (`FirstServed`).

`BeliefsAreTrue` is not inductive: a promise may have been made that the client has not
heard of yet, because the answer is on its way, or was lost and will be replayed from
the table. `PromisesKept` says it of every promise: a success recorded under a key, or,
without a key, an answer on its way or told. A promise is kept by what is handled later
because only a call of the lease's own holder touches a lease in force (`ServeEnds`), so
it is a copy of one of the client's own requests; a copy of an earlier request with a
key has been answered and cannot take effect again, a copy of the same request neither,
and one of a later request has been sent, so `lasting` speaks about it.

`StoredStaysTrue` and `AnswersStayTrue` say what the cells contain, not who may write to
them. The invariant of the heap adds the shapes of the objects (`Shapes`) and who shares
no cell with whom (`Apart`): nothing that the service keeps is in a cell that a caller
holds or that is shared between callers, the struct of the document, which an update
overwrites in place, is in no revision and in no recorded outcome, and a document that
one answer holds is in no other. The errors and event details that callers do share are
excepted, as `find_events` and `find_errors` show they must be. Neither says how far the
versions go: the theorems hold for updates that expect any integers, so for a document
that is updated any number of times.

## 6. What is only model-checked

* `NobodyWaitsForever`, `ExpiredAreReaped`, `ShutdownEnds` and `EveryCallReturns`:
  liveness under fairness, for which the prover has no rule.

All other properties of the passing runs are theorems.

## 7. Plan

In this order:

1. Batches of several items in `Isolation`, and their proofs.
2. Clients of the log behind the network of `Clients`, where an answer to a poll may
   be lost, delayed or repeated.

## 8. What is not modelled, and why

JSON and HTTP encoding, query syntax, flag parsing and logging are input and
output. Random identifiers are any identifiers. Sort orders, the limit of a listing
of documents and error texts are layout. `ManualClock` is for tests, and the tests
themselves are read as statements of intent. Nothing is persisted
(`cmd/doclock/main.go:5`), so a restart is a new service and there is no recovery to
model. No bound is enforced on the log, the histories and the idempotency table
(`README.md:178`), so there is no limit to check.
