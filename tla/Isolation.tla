------------------------------ MODULE Isolation ------------------------------
(***************************************************************************)
(* Who shares memory with whom.  The service keeps structs and slices, and *)
(* hands structs and slices to its callers, who may write to what they     *)
(* have been given.  The Clone methods of internal/domain, cloneIDemValue, *)
(* cloneStrings and normalizeTags are there to keep the two apart.         *)
(*                                                                         *)
(* An object is a struct and the slice in it: the tags of a document, of a *)
(* revision or of an event, the failures of a batch.  The heap says what   *)
(* each of the two holds: the version that wrote it, or Spoiled if a       *)
(* caller has written to it since.  One document stands for all; locks and *)
(* collections have no slices and are copied like documents without tags.  *)
(* Requests that only return an error that is not recorded are left out.   *)
(***************************************************************************)
EXTENDS Integers, Sequences, FiniteSets

CONSTANTS
  Caller,
  Key,         \* idempotency keys
  NoKey,
  ExpectedVersion    \* the versions that updates may expect, any int

ASSUME ExpectedVersionAssumption == ExpectedVersion \subseteq Int

VARIABLES
  heap,        \* address -> content
  document,    \* the stored document, or Nothing before it is created
  history,     \* its revisions
  events,      \* the events of the audit log
  idem,        \* key -> request, recorded value and error
  answers      \* what callers hold: who, of which kind, where, what it said

isolationVars == <<heap, document, history, events, idem, answers>>

Spoiled == 0
None == 0                              \* the nil slice
Nothing == [struct |-> None, slice |-> None]

cell(i) == Len(heap) + i

(* Copies: the cells 2i - 1 and 2i of those that this step allocates.      *)

(* Seeded fault: the struct is copied, and with it the reference.          *)
cloneStruct(object, i) == [struct |-> cell(2 * i - 1), slice |-> object.slice]

clone(object, i) ==
  [struct |-> cell(2 * i - 1),
   slice |-> IF object.slice = None THEN None ELSE cell(2 * i)]

(* The details map of an event is copied, the tags in it are not.          *)
cloneEvent(event, i) == [struct |-> cell(2 * i - 1), slice |-> event.slice]

(* Seeded fault: the outcome that is returned is the one that is recorded. *)
sameIDemValue(value, i) == value

cloneIDemValue(value, i) == clone(value, i)

(* What a copy of an object contains.                                      *)
content(object) ==
  <<heap[object.struct], IF object.slice = None THEN Spoiled ELSE heap[object.slice]>>

holds(c, kind, object, contains) ==
  [caller |-> c, kind |-> kind, object |-> object, said |-> contains, touched |-> FALSE]
-----------------------------------------------------------------------------
version == Len(history)

Known(key) == key # NoKey /\ key \in DOMAIN idem

record(key, request, value, error, said) ==
  idem' = IF key = NoKey THEN idem
          ELSE [k \in DOMAIN idem \cup {key} |->
                  IF k = key THEN [request |-> request, value |-> value,
                                   error |-> error, said |-> said]
                  ELSE idem[k]]

(* A creation or an update that takes effect.  The caller's tags are       *)
(* normalised into a slice of the document's own; without tags an update   *)
(* keeps the document's.  The document is written in place.                *)
Store(c, request, key) ==
  LET v == version + 1
      creates == request.op = "CreateDocument"
      given == [struct |-> cell(1), slice |-> cell(2)]
      doc == [struct |-> IF creates THEN cell(3) ELSE document.struct,
              slice |-> IF request.tags THEN cell(4)
                        ELSE IF creates THEN None ELSE document.slice]
      tags == IF request.tags THEN v
              ELSE IF doc.slice = None THEN Spoiled ELSE heap[doc.slice]
      revision == clone(doc, 3)
      event == [struct |-> cell(7),
                slice |-> IF creates /\ request.tags THEN cell(8) ELSE None]
      out == clone(doc, 5)
  IN  /\ heap' = [a \in 1 .. Len(heap) |->
                    IF ~ creates /\ a = document.struct THEN v ELSE heap[a]]
                 \o <<v, v, v, v, v, tags, v, tags, v, tags, v, tags>>
      /\ document' = doc
      /\ history' = Append(history, revision)
      /\ events' = Append(events, event)
      /\ record(key, request, cloneIDemValue(out, 6), Nothing, <<v, tags>>)
      /\ answers' = answers
           \cup {holds(c, "document", out, <<v, tags>>)}
           \cup (IF request.tags THEN {holds(c, "request", given, <<v, v>>)} ELSE {})

(* A version conflict, or a rejected batch, whose result lists its         *)
(* failures and is an answer of its own.  The error is a pointer, and the  *)
(* one that is recorded.                                                   *)
Conflict(c, request, key) ==
  LET error == [struct |-> cell(1), slice |-> cell(2)]
      out == clone(error, 2)
      batch == request.op = "BatchUpdateDocuments"
  IN  /\ heap' = heap \o <<1, 1, 1, 1, 1, 1, 1>>
      /\ events' = IF batch THEN Append(events, [struct |-> cell(7), slice |-> None])
                   ELSE events
      /\ record(key, request, IF batch THEN cloneIDemValue(out, 3) ELSE Nothing,
                error, <<1, 1>>)
      /\ answers' = answers
           \cup {holds(c, "error", error, <<1, 1>>)}
           \cup (IF batch THEN {holds(c, "document", out, <<1, 1>>)} ELSE {})
      /\ UNCHANGED <<document, history>>

Replay(c, key) ==
  LET entry == idem[key]
      out == clone(entry.value, 1)
  IN  /\ heap' = IF entry.value = Nothing THEN heap ELSE heap \o content(entry.value)
      /\ answers' = answers
           \cup (IF entry.value = Nothing THEN {}
                 ELSE {holds(c, "document", out, entry.said)})
           \cup (IF entry.error = Nothing THEN {}
                 ELSE {holds(c, "error", entry.error, entry.said)})
      /\ UNCHANGED <<document, history, events, idem>>

CreateDocument(c, request, key) ==
  \/ Known(key) /\ idem[key].request = request /\ Replay(c, key)
  \/ ~ Known(key) /\ version = 0 /\ Store(c, request, key)

(* UpdateDocument, and BatchUpdateDocuments with one item.  An update that *)
(* expects no version that can be is turned away before it is looked up; a *)
(* batch with such an item is rejected like any other.                     *)
Update(c, request, key) ==
  /\ request.op = "UpdateDocument" => request.expected >= 1
  /\ \/ Known(key) /\ idem[key].request = request /\ Replay(c, key)
     \/ /\ ~ Known(key)
        /\ version > 0
        /\ \/ request.expected = version /\ Store(c, request, key)
           \/ request.expected # version /\ Conflict(c, request, key)

(* GetDocument, and ListDocuments.                                         *)
Get(c) ==
  /\ version > 0
  /\ heap' = heap \o content(document)
  /\ answers' = answers \cup {holds(c, "document", clone(document, 1), content(document))}
  /\ UNCHANGED <<document, history, events, idem>>

(* GetDocumentHistory and ListAuditEvents; a caller keeps one of the       *)
(* elements.                                                               *)
GetRevision(c) ==
  \E i \in DOMAIN history :
    /\ heap' = heap \o content(history[i])
    /\ answers' = answers \cup {holds(c, "document", clone(history[i], 1), content(history[i]))}
    /\ UNCHANGED <<document, history, events, idem>>

GetEvent(c) ==
  \E i \in DOMAIN events :
    /\ heap' = heap \o content(events[i])
    /\ answers' = answers \cup {holds(c, "event", cloneEvent(events[i], 1), content(events[i]))}
    /\ UNCHANGED <<document, history, events, idem>>

(* A caller writes to what it holds.                                       *)
Scribble(c) ==
  \E a \in answers :
    /\ a.caller = c
    /\ ~ a.touched
    /\ heap' = [x \in DOMAIN heap |->
                  IF x \in {a.object.struct, a.object.slice} THEN Spoiled ELSE heap[x]]
    /\ answers' = (answers \ {a}) \cup {[a EXCEPT !.touched = TRUE]}
    /\ UNCHANGED <<document, history, events, idem>>
-----------------------------------------------------------------------------
IsolationInit ==
  /\ heap = <<>>
  /\ document = Nothing
  /\ history = <<>>
  /\ events = <<>>
  /\ idem = <<>>
  /\ answers = {}

Creations == [op : {"CreateDocument"}, tags : BOOLEAN]

Updates ==
  [op : {"UpdateDocument", "BatchUpdateDocuments"}, expected : ExpectedVersion,
   tags : BOOLEAN]

IsolationNext ==
  \E c \in Caller :
    \/ \E key \in Key \cup {NoKey} :
         \/ \E request \in Creations : CreateDocument(c, request, key)
         \/ \E request \in Updates : Update(c, request, key)
    \/ Get(c) \/ GetRevision(c) \/ GetEvent(c)
    \/ Scribble(c)

IsolationSpec == IsolationInit /\ [][IsolationNext]_isolationVars
-----------------------------------------------------------------------------
sound(object, said) ==
  /\ heap[object.struct] = said[1]
  /\ object.slice # None => heap[object.slice] = said[2]

unspoiled(object) == object.slice # None => heap[object.slice] # Spoiled

(* Nothing a caller does to what it has been given, or to the tags it has  *)
(* given itself, changes the document, its history, or what is recorded    *)
(* for replay; and an update, which writes the document in place, does not *)
(* change its past ("Mutable-data isolation", README; service.go:14-15).   *)
StoredStaysTrue ==
  /\ version > 0 => heap[document.struct] = version /\ unspoiled(document)
  /\ \A i \in DOMAIN history : heap[history[i].struct] = i /\ unspoiled(history[i])
  /\ \A k \in DOMAIN idem :
       idem[k].value # Nothing => sound(idem[k].value, idem[k].said)

StaysTrue(kind) ==
  \A a \in answers : (a.kind = kind /\ ~ a.touched) => sound(a.object, a.said)

(* A document or a batch result that a caller holds says what it said when *)
(* it was returned, whatever other callers do to theirs, the replays of    *)
(* the same outcome included, and however often the document is updated.   *)
AnswersStayTrue == StaysTrue("document")

(* "Clone returns a deep copy of the audit event, including its details    *)
(* map" (domain/audit.go:34): an event that one call has returned is not   *)
(* changed by whoever writes to the event that another call has returned.  *)
EventsAreCopies == StaysTrue("event")

(* "Returned values are always deep copies" (service.go:14-15), "so that a *)
(* replay never shares state with internal storage" (idempotency.go:44-45):*)
(* the error of a rejected batch that is replayed is not changed by        *)
(* whoever writes to the one that was returned first, or the other way     *)
(* round.                                                                  *)
ErrorsAreCopies == StaysTrue("error")
=============================================================================
