------------------------------ MODULE MCService ------------------------------
(***************************************************************************)
(* Small instances of the service for TLC.  Every run uses the texts and   *)
(* the bounds of this module; the MC modules that extend it add the        *)
(* requests of the question they ask.                                      *)
(***************************************************************************)
EXTENDS ServiceProperties, TLC

CONSTANTS
  MaxEvents,   \* bound on the audit log, and so on versions and batches
  MaxClock     \* bound on the clock

MCSegment == {"docs", "wiki", "d1", "d2", "x"}
docs == <<"docs">>
wiki == <<"wiki">>
d1 == <<"d1">>
dx == <<"d2", "x">>     \* a document identifier with a "/" in it

(* The empty text, a blank one, two words and one of them padded.          *)
MCText == {"", " ", "a", "b", " a"}
MCTrimSpace ==
  [t \in MCText |-> CASE t = " " -> "" [] t = " a" -> "a" [] OTHER -> t]

MCActor == {"", "ann", "bob"}
MCHolder == {"h1", "h2"}
MCGeneratedIDs == {<<"x">>}

Register(id, name, actor, key) ==
  [op |-> "RegisterCollection", id |-> id, name |-> name, description |-> "",
   actor |-> actor, key |-> key]

Create(c, id, title, tags, actor, key) ==
  [op |-> "CreateDocument", collection |-> c, id |-> id, title |-> title,
   content |-> "", tags |-> tags, actor |-> actor, key |-> key]

Item(d, expected, title, tags) ==
  [document |-> d, expected |-> expected, title |-> title, content |-> Nil,
   tags |-> tags, reason |-> "a"]

Update(c, d, expected, title, tags, actor, key) ==
  [op |-> "UpdateDocument", collection |-> c, document |-> d,
   expected |-> expected, title |-> title, content |-> Nil, tags |-> tags,
   reason |-> "b", actor |-> actor, key |-> key]

Batch(c, items, actor, key) ==
  [op |-> "BatchUpdateDocuments", collection |-> c, items |-> items,
   actor |-> actor, key |-> key]

Lease(op, c, d, holder, ttl, actor, key) ==
  [op |-> op, collection |-> c, document |-> d, holder |-> holder, ttl |-> ttl,
   actor |-> actor, key |-> key]

Release(c, d, holder, actor, key) ==
  [op |-> "ReleaseLock", collection |-> c, document |-> d, holder |-> holder,
   actor |-> actor, key |-> key]

created ==
  [id |-> d1, collection |-> docs, title |-> "a", content |-> "", tags |-> {},
   version |-> 1, createdAt |-> 0, updatedAt |-> 0]

(* The service after a client has registered a collection and created a    *)
(* document in it.                                                         *)
DocumentCreated ==
  /\ clock = 0
  /\ collections = docs :> [id |-> docs, name |-> "a", description |-> "", createdAt |-> 0]
  /\ documents = documentKey(docs, d1) :> created
  /\ history = documentKey(docs, d1) :> <<revision(created, "ann", "")>>
  /\ audit = <<[Event("collection.created", "ann", docs, NoID, NoKey,
                      [name |-> "a", description |-> ""]) EXCEPT !.sequence = 1],
               [Event("document.created", "ann", docs, d1, NoKey,
                      [version |-> 1]) EXCEPT !.sequence = 2]>>
  /\ auditSeq = 2
  /\ locks = <<>>
  /\ idem = <<>>
  /\ reply = Ok(created)

MCNext == Next /\ Len(audit') <= MaxEvents /\ clock' <= MaxClock

MCSpec == Init /\ [][MCNext]_vars

(* Nothing the service does depends on what it answered last, so states    *)
(* that differ in the answer only have the same steps.                     *)
MCView == <<stored, idem, clock>>
=============================================================================
