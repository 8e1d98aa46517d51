--------------------------- MODULE IsolationProofs ---------------------------
(***************************************************************************)
(* That the copies keep the service and its callers apart, for any number  *)
(* of callers, keys, versions, answers and writes by callers.              *)
(***************************************************************************)
EXTENDS Isolation, SequenceTheorems, TLAPS

Object(n) == [struct : 1 .. n, slice : 0 .. n]

Entry(n) ==
  [request : Creations \cup Updates, value : Object(n) \cup {Nothing},
   error : Object(n) \cup {Nothing}, said : Nat \X Nat]

Answer(n) ==
  [caller : Caller, kind : {"document", "request", "event", "error"},
   object : Object(n), said : Nat \X Nat, touched : BOOLEAN]

Shapes ==
  /\ heap \in Seq(Nat)
  /\ version > 0 => document \in Object(Len(heap))
  /\ history \in Seq(Object(Len(heap)))
  /\ events \in Seq(Object(Len(heap)))
  /\ \A k \in DOMAIN idem : idem[k] \in Entry(Len(heap))
  /\ answers \subseteq Answer(Len(heap))

cells(object) == {object.struct, object.slice} \ {None}

apart(x, y) == cells(x) \cap cells(y) = {}

(* What the service never hands out.                                       *)
Past(x) ==
  \/ \E i \in DOMAIN history : x = history[i]
  \/ \E k \in DOMAIN idem : x = idem[k].value /\ x # Nothing

Kept(x) == Past(x) \/ (version > 0 /\ x = document)

(* What it hands out, or parts of it.                                      *)
Shared(x) ==
  \/ \E i \in DOMAIN events : x = events[i]
  \/ \E k \in DOMAIN idem : x = idem[k].error /\ x # Nothing

Lent(x) == \E a \in answers : x = a.object

(* The document is written in place, so nothing else may be in its struct; *)
(* callers write to what they hold, so nothing that is kept may be in it,  *)
(* nor a document that another answer holds.                               *)
Apart ==
  /\ version > 0 => \A x : Past(x) => document.struct \notin cells(x)
  /\ \A x, y : Kept(x) /\ (Shared(y) \/ Lent(y)) => apart(x, y)
  /\ \A a \in answers : a.kind = "document" =>
       /\ \A b \in answers : b # a => apart(a.object, b.object)
       /\ \A y : Shared(y) => apart(a.object, y)

IInv == Shapes /\ Apart /\ StoredStaysTrue /\ AnswersStayTrue
-----------------------------------------------------------------------------
(* The heap only grows.                                                    *)

LEMMA ObjectsStay ==
  ASSUME NEW n \in Nat, NEW m \in Nat, n <= m
  PROVE  /\ Object(n) \subseteq Object(m)
         /\ Entry(n) \subseteq Entry(m)
         /\ Answer(n) \subseteq Answer(m)
<1>1. Object(n) \subseteq Object(m)
  BY DEF Object
<1>2. Entry(n) \subseteq Entry(m)
  BY <1>1 DEF Entry
<1>3. Answer(n) \subseteq Answer(m)
  BY <1>1 DEF Answer
<1> QED  BY <1>1, <1>2, <1>3

LEMMA SequencesStay ==
  ASSUME NEW n \in Nat, NEW m \in Nat, n <= m, NEW s \in Seq(Object(n))
  PROVE  s \in Seq(Object(m))
<1>1. \A i \in 1 .. Len(s) : s[i] \in Object(m)
  BY ObjectsStay
<1> QED  BY <1>1

LEMMA CellsAreOld ==
  ASSUME NEW n \in Nat, NEW x \in Object(n)
  PROVE  cells(x) \subseteq 1 .. n /\ x.struct \in cells(x)
         /\ (x.slice # None => x.slice \in cells(x)) /\ x # Nothing
  BY DEF Object, cells, None, Nothing

(* Appending cells.                                                        *)
LEMMA Extended ==
  ASSUME NEW s \in Seq(Nat), NEW e \in Seq(Nat), NEW t, t = s \o e
  PROVE  /\ t \in Seq(Nat) /\ Len(t) = Len(s) + Len(e)
         /\ \A i \in 1 .. Len(s) : t[i] = s[i]
         /\ \A j \in 1 .. Len(e) : t[Len(s) + j] = e[j]
<1>1. t \in Seq(Nat) /\ Len(t) = Len(s) + Len(e)
  OBVIOUS
<1>2. \A i \in 1 .. Len(s) : t[i] = s[i]
  OBVIOUS
<1>3. ASSUME NEW j \in 1 .. Len(e)
      PROVE  t[Len(s) + j] = e[j]
  <2>1. Len(s) \in Nat /\ Len(e) \in Nat
    OBVIOUS
  <2>2. Len(s) + j \in 1 .. Len(s) + Len(e) /\ Len(s) + j > Len(s) /\ Len(s) + j - Len(s) = j
    BY <2>1
  <2> QED  BY <2>1, <2>2
<1> QED  BY <1>1, <1>2, <1>3

LEMMA TwoMore ==
  ASSUME NEW s \in Seq(Nat), NEW a \in Nat, NEW b \in Nat, NEW t, t = s \o <<a, b>>
  PROVE  /\ t \in Seq(Nat) /\ Len(t) = Len(s) + 2
         /\ \A i \in 1 .. Len(s) : t[i] = s[i]
         /\ t[Len(s) + 1] = a /\ t[Len(s) + 2] = b
  OBVIOUS

LEMMA InitIInv == IsolationInit => IInv
  BY DEF IsolationInit, IInv, Shapes, Apart, Past, Kept, Shared, Lent,
         StoredStaysTrue, AnswersStayTrue, StaysTrue, version
-----------------------------------------------------------------------------
(* Reads and replays: answers are added, and cells for what they copy.     *)

Grows(n) ==
  /\ heap' \in Seq(Nat)
  /\ Len(heap') >= n
  /\ \A i \in 1 .. n : heap'[i] = heap[i]

SoundAfter(object, said) ==
  /\ heap'[object.struct] = said[1]
  /\ object.slice # None => heap'[object.slice] = said[2]

(* A new answer is a copy, or shares cells only with what is shared.       *)
MayBeLent(n, a, new) ==
  IF a.kind = "document"
  THEN /\ cells(a.object) \cap 1 .. n = {}
       /\ SoundAfter(a.object, a.said)
       /\ \A b \in new : b # a => apart(a.object, b.object)
  ELSE cells(a.object) \cap 1 .. n = {}
         \/ \E y : Shared(y) /\ cells(a.object) \cap 1 .. n \subseteq cells(y)

LEMMA LendStep ==
  ASSUME IInv, NEW n, n = Len(heap), Grows(n),
         UNCHANGED <<document, history, events, idem>>,
         NEW new, answers' = answers \cup new,
         new \subseteq Answer(Len(heap')),
         \A a \in new : MayBeLent(n, a, new)
  PROVE  IInv'
<1> USE DEF IInv
<1>1. n \in Nat /\ Len(heap') \in Nat /\ n <= Len(heap') /\ version' = version
  BY DEF Shapes, Grows, version
<1>2. Shapes'
  BY <1>1, ObjectsStay, SequencesStay DEF Shapes, Grows
<1>3. /\ \A x : Past(x)' <=> Past(x)
      /\ \A x : Kept(x)' <=> Kept(x)
      /\ \A x : Shared(x)' <=> Shared(x)
  BY <1>1 DEF Past, Kept, Shared
<1>4. /\ \A x : Kept(x) => x \in Object(n)
      /\ \A x : Shared(x) => x \in Object(n)
      /\ \A a \in answers : a.object \in Object(n)
  BY DEF Shapes, Kept, Past, Shared, Entry, Answer
<1>5. /\ \A x : Kept(x) => cells(x) \subseteq 1 .. n
      /\ \A x : Shared(x) => cells(x) \subseteq 1 .. n
      /\ \A a \in answers : cells(a.object) \subseteq 1 .. n
  BY <1>1, <1>4, CellsAreOld
<1>6. ASSUME NEW x, Kept(x), NEW a \in new
      PROVE  apart(x, a.object)
  <2>1. cells(a.object) \cap 1 .. n = {}
          \/ \E y : Shared(y) /\ cells(a.object) \cap 1 .. n \subseteq cells(y)
    BY DEF MayBeLent
  <2>2. \A y : Shared(y) => apart(x, y)
    BY <1>6 DEF Apart
  <2> QED  BY <1>5, <1>6, <2>1, <2>2 DEF apart
<1>7. ASSUME NEW a \in answers, a.kind = "document", NEW b \in new
      PROVE  apart(a.object, b.object)
  <2>1. cells(b.object) \cap 1 .. n = {}
          \/ \E y : Shared(y) /\ cells(b.object) \cap 1 .. n \subseteq cells(y)
    BY DEF MayBeLent
  <2>2. \A y : Shared(y) => apart(a.object, y)
    BY <1>7 DEF Apart
  <2> QED  BY <1>5, <2>1, <2>2 DEF apart
<1>8. ASSUME NEW a \in new, a.kind = "document"
      PROVE  /\ \A b \in answers : apart(a.object, b.object)
             /\ \A y : Shared(y) => apart(a.object, y)
             /\ \A b \in new : b # a => apart(a.object, b.object)
  BY <1>5, <1>8 DEF MayBeLent, apart
<1>9. Apart'
  <2>1. version' > 0 => \A x : Past(x)' => document'.struct \notin cells(x)
    BY <1>1, <1>3 DEF Apart
  <2>2. \A x, y : Kept(x)' /\ (Shared(y)' \/ Lent(y)') => apart(x, y)
    BY <1>3, <1>6 DEF Apart, Lent
  <2>3. \A a \in answers' : a.kind = "document" =>
          /\ \A b \in answers' : b # a => apart(a.object, b.object)
          /\ \A y : Shared(y)' => apart(a.object, y)
    BY <1>3, <1>7, <1>8 DEF Apart
  <2> QED  BY <2>1, <2>2, <2>3 DEF Apart
<1>10. \A x \in Object(n) : /\ x.struct \in 1 .. n /\ heap'[x.struct] = heap[x.struct]
                            /\ x.slice # None => heap'[x.slice] = heap[x.slice]
  BY DEF Object, Grows, None
<1>11. StoredStaysTrue'
  BY <1>1, <1>4, <1>10 DEF StoredStaysTrue, Kept, Past, sound, unspoiled
<1>12. AnswersStayTrue'
  BY <1>4, <1>10 DEF AnswersStayTrue, StaysTrue, sound, SoundAfter, MayBeLent
<1> QED  BY <1>2, <1>9, <1>11, <1>12

LEMMA ContentTyped ==
  ASSUME heap \in Seq(Nat), NEW x \in Object(Len(heap))
  PROVE  /\ content(x) \in Nat \X Nat
         /\ content(x) = <<content(x)[1], content(x)[2]>>
         /\ content(x)[1] = heap[x.struct]
         /\ x.slice # None => content(x)[2] = heap[x.slice]
  BY DEF content, Object, Spoiled, None

(* A copy of an object that the service keeps, and one of an event.        *)
LEMMA HeapGrows ==
  ASSUME heap \in Seq(Nat), NEW x \in Object(Len(heap)), heap' = heap \o content(x)
  PROVE  /\ Grows(Len(heap)) /\ Len(heap) \in Nat
         /\ Len(heap') = Len(heap) + 2
         /\ heap'[Len(heap) + 1] = heap[x.struct]
         /\ x.slice # None => heap'[Len(heap) + 2] = heap[x.slice]
<1> DEFINE n == Len(heap)
           a == content(x)[1]
           b == content(x)[2]
<1>1. n \in Nat /\ a \in Nat /\ b \in Nat /\ content(x) = <<a, b>>
  BY ContentTyped
<1>2. a = heap[x.struct] /\ (x.slice # None => b = heap[x.slice])
  BY ContentTyped
<1> HIDE DEF a, b
<1>3. /\ heap' \in Seq(Nat) /\ Len(heap') = n + 2
      /\ \A i \in 1 .. n : heap'[i] = heap[i]
      /\ heap'[n + 1] = a /\ heap'[n + 2] = b
  BY <1>1, TwoMore
<1> QED  BY <1>1, <1>2, <1>3 DEF Grows

LEMMA DocumentCopied ==
  ASSUME heap \in Seq(Nat), NEW c \in Caller, NEW x \in Object(Len(heap)),
         NEW said \in Nat \X Nat, sound(x, said), heap' = heap \o content(x),
         NEW out, out = holds(c, "document", clone(x, 1), said)
  PROVE  /\ out \in Answer(Len(heap'))
         /\ out.kind = "document" /\ out.said = said
         /\ cells(out.object) \cap 1 .. Len(heap) = {}
         /\ SoundAfter(out.object, said)
<1>0. Len(heap) \in Nat
  OBVIOUS
<1>1. PICK n : n = Len(heap) /\ n \in Nat
  BY <1>0
<1>2. /\ Len(heap') = n + 2 /\ heap'[n + 1] = heap[x.struct]
      /\ x.slice # None => heap'[n + 2] = heap[x.slice]
  BY <1>1, HeapGrows
<1>3. /\ out.kind = "document" /\ out.said = said
      /\ out.object.struct = n + 1
      /\ out.object.slice = IF x.slice = None THEN None ELSE n + 2
  BY <1>1 DEF holds, clone, cell
<1>4. out \in Answer(n + 2)
  BY <1>1 DEF holds, clone, cell, Answer, Object, None
<1>5. cells(out.object) \cap 1 .. n = {}
  BY <1>1, <1>3 DEF cells
<1>6. SoundAfter(out.object, said)
  BY <1>1, <1>2, <1>3 DEF sound, SoundAfter, None
<1> QED  BY <1>1, <1>2, <1>3, <1>4, <1>5, <1>6

LEMMA EventCopied ==
  ASSUME heap \in Seq(Nat), NEW c \in Caller, NEW x \in Object(Len(heap)),
         NEW said \in Nat \X Nat, Shared(x), heap' = heap \o content(x),
         NEW out, out = holds(c, "event", cloneEvent(x, 1), said)
  PROVE  /\ out \in Answer(Len(heap'))
         /\ MayBeLent(Len(heap), out, {out})
<1>0. Len(heap) \in Nat
  OBVIOUS
<1>1. PICK n : n = Len(heap) /\ n \in Nat
  BY <1>0
<1>2. Len(heap') = n + 2
  BY <1>1, HeapGrows
<1>3. /\ out.kind = "event" /\ out.object.struct = n + 1
      /\ out.object.slice = x.slice
  BY <1>1 DEF holds, cloneEvent, cell
<1>4. out \in Answer(n + 2)
  BY <1>1 DEF holds, cloneEvent, cell, Answer, Object
<1>5. cells(out.object) \cap 1 .. n \subseteq cells(x)
  BY <1>1, <1>3 DEF cells
<1> QED  BY <1>1, <1>2, <1>3, <1>4, <1>5 DEF MayBeLent

LEMMA ReadStep ==
  ASSUME IInv, NEW c \in Caller, Get(c) \/ GetRevision(c) \/ GetEvent(c)
  PROVE  IInv'
<1>1. heap \in Seq(Nat)
  BY DEF IInv, Shapes
<1>2. ASSUME NEW x \in Object(Len(heap)),
             \/ answers' = answers \cup {holds(c, "document", clone(x, 1), content(x))}
             \/ /\ answers' = answers \cup {holds(c, "event", cloneEvent(x, 1), content(x))}
                /\ Shared(x),
             heap' = heap \o content(x), UNCHANGED <<document, history, events, idem>>
      PROVE  IInv'
  <2>1. content(x) \in Nat \X Nat /\ sound(x, content(x))
    BY <1>1, ContentTyped DEF sound
  <2>2. Grows(Len(heap))
    BY <1>1, <1>2, HeapGrows
  <2>5. /\ x \in Object(Len(heap)) /\ heap' = heap \o content(x)
        /\ UNCHANGED <<document, history, events, idem>>
    BY <1>2
  <2>3. CASE answers' = answers \cup {holds(c, "document", clone(x, 1), content(x))}
    <3>1. PICK said, out : /\ said = content(x)
                           /\ out = holds(c, "document", clone(x, 1), said)
      OBVIOUS
    <3>2. said \in Nat \X Nat /\ sound(x, said) /\ answers' = answers \cup {out}
      BY <2>1, <2>3, <3>1
    <3>3. out = holds(c, "document", clone(x, 1), said)
      BY <3>1
    <3>4. /\ out \in Answer(Len(heap'))
          /\ out.kind = "document" /\ out.said = said
          /\ cells(out.object) \cap 1 .. Len(heap) = {}
          /\ SoundAfter(out.object, said)
      BY <1>1, <2>5, <3>2, <3>3, DocumentCopied
    <3>5. MayBeLent(Len(heap), out, {out})
      BY <3>4 DEF MayBeLent
    <3> QED  BY <2>2, <2>5, <3>2, <3>4, <3>5, LendStep
  <2>4. CASE answers' = answers \cup {holds(c, "event", cloneEvent(x, 1), content(x))}
             /\ Shared(x)
    <3>1. PICK out, said : out = holds(c, "event", cloneEvent(x, 1), said)
                             /\ said = content(x)
      OBVIOUS
    <3>2. out \in Answer(Len(heap')) /\ MayBeLent(Len(heap), out, {out})
      BY <1>1, <1>2, <2>1, <2>4, <3>1, EventCopied
    <3> QED  BY <1>2, <2>2, <2>4, <3>1, <3>2, LendStep
  <2> QED  BY <1>2, <2>3, <2>4
<1>3. CASE Get(c)
  <2>1. document \in Object(Len(heap))
    BY <1>3 DEF Get, IInv, Shapes
  <2> QED  BY <1>2, <1>3, <2>1 DEF Get
<1>4. CASE GetRevision(c)
  <2>1. \A i \in DOMAIN history : history[i] \in Object(Len(heap))
    BY DEF IInv, Shapes
  <2> QED  BY <1>2, <1>4, <2>1 DEF GetRevision
<1>5. CASE GetEvent(c)
  <2>1. \A i \in DOMAIN events : events[i] \in Object(Len(heap)) /\ Shared(events[i])
    BY DEF IInv, Shapes, Shared
  <2> QED  BY <1>2, <1>5, <2>1 DEF GetEvent
<1> QED  BY <1>3, <1>4, <1>5

LEMMA ReplayStep ==
  ASSUME IInv, NEW c \in Caller, NEW key \in DOMAIN idem, Replay(c, key)
  PROVE  IInv'
<1>1. PICK n, value, error, said :
        /\ n = Len(heap)
        /\ value = idem[key].value /\ error = idem[key].error /\ said = idem[key].said
  OBVIOUS
<1>2. PICK copy, again : /\ copy = holds(c, "document", clone(value, 1), said)
                         /\ again = holds(c, "error", error, said)
  OBVIOUS
<1> DEFINE copies == IF value = Nothing THEN {} ELSE {copy}
           errors == IF error = Nothing THEN {} ELSE {again}
<1>3. /\ n \in Nat /\ heap \in Seq(Nat)
      /\ value \in Object(n) \cup {Nothing}
      /\ error \in Object(n) \cup {Nothing}
      /\ said \in Nat \X Nat
      /\ value # Nothing => sound(value, said)
      /\ error # Nothing => Shared(error)
  BY <1>1 DEF IInv, Shapes, Entry, StoredStaysTrue, Shared
<1>4. /\ heap' = IF value = Nothing THEN heap ELSE heap \o content(value)
      /\ answers' = answers \cup copies \cup errors
      /\ UNCHANGED <<document, history, events, idem>>
  BY <1>1, <1>2 DEF Replay
<1>5. again.kind = "error" /\ again.object = error /\ copy.kind = "document"
      /\ copy.said = said
  BY <1>2 DEF holds
<1>6. error # Nothing => again \in Answer(n) /\ cells(error) \subseteq 1 .. n
  BY <1>2, <1>3, CellsAreOld DEF holds, Answer
<1>7. ASSUME value # Nothing
      PROVE  /\ Grows(n) /\ Len(heap') = n + 2 /\ copy \in Answer(n + 2)
             /\ cells(copy.object) \cap 1 .. n = {}
             /\ SoundAfter(copy.object, copy.said)
  <2>1. heap' = heap \o content(value) /\ value \in Object(Len(heap))
    BY <1>1, <1>3, <1>4, <1>7
  <2>2. /\ copy \in Answer(Len(heap'))
        /\ cells(copy.object) \cap 1 .. Len(heap) = {}
        /\ SoundAfter(copy.object, said)
    BY <1>2, <1>3, <1>7, <2>1, DocumentCopied
  <2>3. Grows(Len(heap)) /\ Len(heap') = Len(heap) + 2
    BY <1>3, <2>1, HeapGrows
  <2> QED  BY <1>1, <1>5, <2>2, <2>3
<1>8. value = Nothing => Grows(n) /\ Len(heap') = n
  BY <1>1, <1>3, <1>4 DEF Grows
<1>9. Grows(n) /\ copies \cup errors \subseteq Answer(Len(heap'))
  BY <1>3, <1>6, <1>7, <1>8, ObjectsStay
<1>10. \A a \in copies \cup errors : MayBeLent(n, a, copies \cup errors)
  <2>1. error # Nothing => MayBeLent(n, again, copies \cup errors)
    BY <1>3, <1>5 DEF MayBeLent
  <2>2. value # Nothing /\ error # Nothing => apart(copy.object, again.object)
    BY <1>5, <1>6, <1>7 DEF apart
  <2>3. \A b \in copies \cup errors : b # copy => b = again /\ error # Nothing
    OBVIOUS
  <2>4. value # Nothing => MayBeLent(n, copy, copies \cup errors)
    BY <1>5, <1>7, <2>2, <2>3 DEF MayBeLent
  <2> QED  BY <2>1, <2>4
<1> HIDE DEF copies, errors
<1>11. answers' = answers \cup (copies \cup errors)
  BY <1>4
<1> QED  BY <1>1, <1>4, <1>9, <1>10, <1>11, LendStep
-----------------------------------------------------------------------------
(* A caller writes to what it holds: to nothing that is kept, and to no    *)
(* document of another answer.                                             *)

LEMMA ScribbleStep ==
  ASSUME IInv, NEW c \in Caller, Scribble(c)
  PROVE  IInv'
<1>1. PICK a \in answers :
        /\ ~ a.touched
        /\ heap' = [x \in DOMAIN heap |->
                      IF x \in {a.object.struct, a.object.slice} THEN Spoiled ELSE heap[x]]
        /\ answers' = (answers \ {a}) \cup {[a EXCEPT !.touched = TRUE]}
        /\ UNCHANGED <<document, history, events, idem>>
  BY DEF Scribble
<1>2. PICK n, b : n = Len(heap) /\ b = [a EXCEPT !.touched = TRUE]
  OBVIOUS
<1>3. /\ heap \in Seq(Nat) /\ n \in Nat /\ a \in Answer(n)
      /\ version > 0 => document \in Object(n)
  BY <1>2 DEF IInv, Shapes
<1>4. /\ heap' \in Seq(Nat) /\ Len(heap') = n /\ version' = version
      /\ \A i \in 1 .. n : i \in {a.object.struct, a.object.slice} \/ heap'[i] = heap[i]
  <2>1. heap' = [x \in 1 .. n |->
                   IF x \in {a.object.struct, a.object.slice} THEN Spoiled ELSE heap[x]]
    BY <1>1, <1>2, <1>3
  <2>2. \A x \in 1 .. n : heap[x] \in Nat
    BY <1>2, <1>3
  <2>3. heap' \in [1 .. n -> Nat]
    BY <2>1, <2>2 DEF Spoiled
  <2>4. heap' \in Seq(Nat) /\ Len(heap') = n
    BY <1>3, <2>3
  <2>5. \A i \in 1 .. n : i \in {a.object.struct, a.object.slice} \/ heap'[i] = heap[i]
    BY <2>1
  <2> QED  BY <1>1, <2>4, <2>5 DEF version
<1>5. b \in Answer(n) /\ b.object = a.object /\ b.kind = a.kind /\ b.touched
  BY <1>2, <1>3 DEF Answer
<1>6. Shapes'
  BY <1>1, <1>2, <1>4, <1>5 DEF IInv, Shapes, version
<1>7. /\ \A x : Past(x)' <=> Past(x)
      /\ \A x : Kept(x)' <=> Kept(x)
      /\ \A x : Shared(x)' <=> Shared(x)
      /\ \A x : Lent(x)' => Lent(x)
  <2>1. \A x : Past(x)' <=> Past(x)
    BY <1>1 DEF Past
  <2>2. \A x : Kept(x)' <=> Kept(x)
    BY <1>1, <1>4, <2>1 DEF Kept
  <2>3. \A x : Shared(x)' <=> Shared(x)
    BY <1>1 DEF Shared
  <2>4. \A d \in answers' : d \in answers \/ d = b
    BY <1>1, <1>2
  <2>5. \A x : Lent(x)' => Lent(x)
    BY <1>5, <2>4 DEF Lent
  <2> QED  BY <2>1, <2>2, <2>3, <2>5
<1>8. Apart'
  <2>1. version' > 0 => \A x : Past(x)' => document'.struct \notin cells(x)
    BY <1>1, <1>4, <1>7 DEF IInv, Apart
  <2>2. \A x, y : Kept(x)' /\ (Shared(y)' \/ Lent(y)') => apart(x, y)
    BY <1>7 DEF IInv, Apart
  <2>3. \A d \in answers : d.kind = "document" =>
          /\ \A e \in answers : e # d => apart(d.object, e.object)
          /\ \A y : Shared(y) => apart(d.object, y)
    BY DEF IInv, Apart
  <2>4. \A d \in answers' : d.kind = "document" =>
          /\ \A e \in answers' : e # d => apart(d.object, e.object)
          /\ \A y : Shared(y)' => apart(d.object, y)
    BY <1>1, <1>2, <1>5, <1>7, <2>3
  <2> QED  BY <2>1, <2>2, <2>4 DEF Apart
<1>9. ASSUME NEW x \in Object(n), apart(x, a.object)
      PROVE  /\ heap'[x.struct] = heap[x.struct]
             /\ x.slice # None => heap'[x.slice] = heap[x.slice]
  <2>1. /\ x.struct \in 1 .. n /\ x.slice \in 0 .. n
        /\ a.object.struct \in 1 .. n /\ a.object.slice \in 0 .. n
    BY <1>3 DEF Object, Answer
  <2>2. x.struct \notin {a.object.struct, a.object.slice}
    BY <1>9, <2>1 DEF apart, cells, None
  <2>3. x.slice # None => x.slice \notin {a.object.struct, a.object.slice}
    BY <1>9, <2>1 DEF apart, cells, None
  <2>4. x.slice # None => x.slice \in 1 .. n
    BY <1>3, <2>1 DEF None
  <2> QED  BY <1>4, <2>1, <2>2, <2>3, <2>4
<1>10. \A x : Kept(x) => x \in Object(n) /\ apart(x, a.object)
  <2>1. Lent(a.object)
    BY DEF Lent
  <2>2. \A x : Kept(x) => x \in Object(n)
    BY <1>2, <1>3 DEF IInv, Shapes, Kept, Past, Entry
  <2> QED  BY <2>1, <2>2 DEF IInv, Apart
<1>11. StoredStaysTrue'
  <2>1. \A x : Kept(x) => /\ heap'[x.struct] = heap[x.struct]
                          /\ x.slice # None => heap'[x.slice] = heap[x.slice]
    BY <1>9, <1>10
  <2>2. /\ version > 0 => Kept(document)
        /\ \A i \in DOMAIN history : Kept(history[i])
        /\ \A k \in DOMAIN idem : idem[k].value # Nothing => Kept(idem[k].value)
    BY DEF Kept, Past
  <2>3. StoredStaysTrue
    BY DEF IInv
  <2>4. /\ version > 0 => /\ heap'[document.struct] = version
                          /\ document.slice # None => heap'[document.slice] # Spoiled
        /\ \A i \in DOMAIN history : /\ heap'[history[i].struct] = i
                                     /\ history[i].slice # None =>
                                          heap'[history[i].slice] # Spoiled
        /\ \A k \in DOMAIN idem :
             idem[k].value # Nothing => SoundAfter(idem[k].value, idem[k].said)
    BY <2>1, <2>2, <2>3 DEF StoredStaysTrue, sound, unspoiled, SoundAfter
  <2> QED  BY <1>1, <1>4, <2>4 DEF StoredStaysTrue, sound, unspoiled, SoundAfter
<1>12. AnswersStayTrue'
  <2>1. \A d \in answers' : ~ d.touched => d \in answers /\ d # a
    BY <1>1, <1>2, <1>5
  <2>2. \A d \in answers : d # a /\ d.kind = "document" =>
          d.object \in Object(n) /\ apart(d.object, a.object)
    BY <1>2 DEF IInv, Shapes, Answer, Apart
  <2> QED  BY <1>9, <2>1, <2>2 DEF IInv, AnswersStayTrue, StaysTrue, sound
<1> QED  BY <1>6, <1>8, <1>11, <1>12 DEF IInv
-----------------------------------------------------------------------------
(* What a mutation leaves alone, and what it may add.                      *)

(* A recorded outcome is an old one or the one that is recorded now.       *)
LEMMA Recorded ==
  ASSUME NEW key, NEW request, NEW value, NEW error, NEW said,
         record(key, request, value, error, said)
  PROVE  \A k \in DOMAIN idem' :
           \/ k \in DOMAIN idem /\ idem'[k] = idem[k]
           \/ idem'[k] = [request |-> request, value |-> value,
                          error |-> error, said |-> said]
  BY DEF record

(* The cells of what is kept, but the struct of the document, and of what  *)
(* callers hold.                                                           *)
LEMMA OldCellsStay ==
  ASSUME IInv, NEW n, n = Len(heap),
         \A i \in 1 .. n : heap'[i] = heap[i] \/ (version > 0 /\ i = document.struct)
  PROVE  \A x : (Past(x) \/ \E a \in answers : a.kind = "document" /\ x = a.object) =>
           /\ x \in Object(n)
           /\ heap'[x.struct] = heap[x.struct]
           /\ x.slice # None => heap'[x.slice] = heap[x.slice]
<1> SUFFICES ASSUME NEW x,
                    Past(x) \/ \E a \in answers : a.kind = "document" /\ x = a.object
             PROVE  /\ x \in Object(n)
                    /\ heap'[x.struct] = heap[x.struct]
                    /\ x.slice # None => heap'[x.slice] = heap[x.slice]
  OBVIOUS
<1>1. n \in Nat /\ x \in Object(n) /\ (version > 0 => document \in Object(n))
  BY DEF IInv, Shapes, Past, Entry, Answer
<1>2. version > 0 => document.struct \notin cells(x)
  <2>1. CASE Past(x)
    BY <2>1 DEF IInv, Apart
  <2>2. CASE Lent(x) /\ version > 0
    <3>1. apart(document, x)
      BY <2>2 DEF IInv, Apart, Kept
    <3> QED  BY <1>1, <2>2, <3>1, CellsAreOld DEF apart
  <2> QED  BY <2>1, <2>2 DEF Lent
<1>3. /\ x.struct \in cells(x) /\ cells(x) \subseteq 1 .. n
      /\ x.slice # None => x.slice \in cells(x)
  BY <1>1, CellsAreOld
<1> QED  BY <1>1, <1>2, <1>3

(* New objects are in new cells, each in its own, and the document stays   *)
(* in its own or moves to new ones.                                        *)
Adds(pasts, shareds, new) ==
  /\ \A x : Past(x)' => Past(x) \/ x \in pasts
  /\ \A x : Shared(x)' => Shared(x) \/ x \in shareds
  /\ answers' = answers \cup new

DocumentIsFree(n, pasts, shareds, new) ==
  /\ document'.struct \in 1 .. n => version > 0 /\ document'.struct = document.struct
  /\ \A i \in cells(document') \cap 1 .. n : version > 0 /\ i \in cells(document)
  /\ \A x \in pasts : document'.struct \notin cells(x)
  /\ \A y \in shareds : apart(document', y)
  /\ \A a \in new : apart(document', a.object)

InNewCells(n, pasts, shareds, new) ==
  /\ \A x \in pasts : cells(x) \cap 1 .. n = {}
  /\ \A y \in shareds : cells(y) \cap 1 .. n = {}
  /\ \A a \in new : cells(a.object) \cap 1 .. n = {}
  /\ \A x \in pasts : /\ \A y \in shareds : apart(x, y)
                      /\ \A a \in new : apart(x, a.object)
  /\ \A a \in new : a.kind = "document" =>
       /\ \A b \in new : b # a => apart(a.object, b.object)
       /\ \A y \in shareds : apart(a.object, y)

LEMMA StaysApart ==
  ASSUME IInv, NEW n, n = Len(heap), NEW pasts, NEW shareds, NEW new,
         Adds(pasts, shareds, new), InNewCells(n, pasts, shareds, new),
         version' > 0 => DocumentIsFree(n, pasts, shareds, new)
  PROVE  Apart'
<1> USE DEF Adds, InNewCells, DocumentIsFree
<1>1. /\ \A x : Kept(x) => cells(x) \subseteq 1 .. n
      /\ \A x : Shared(x) => cells(x) \subseteq 1 .. n
      /\ \A a \in answers : cells(a.object) \subseteq 1 .. n
  <2>1. /\ n \in Nat
        /\ \A x : Kept(x) => x \in Object(n)
        /\ \A x : Shared(x) => x \in Object(n)
        /\ \A a \in answers : a.object \in Object(n)
    BY DEF IInv, Shapes, Kept, Past, Shared, Entry, Answer
  <2> QED  BY <2>1, CellsAreOld
<1>2. \A x : Past(x) => Kept(x)
  BY DEF Kept
<1>3. version' > 0 => \A x : Past(x)' => document'.struct \notin cells(x)
  <2>1. version > 0 => \A x : Past(x) => document.struct \notin cells(x)
    BY DEF IInv, Apart
  <2> QED  BY <1>1, <1>2, <2>1
<1>4. ASSUME NEW y, Shared(y)' \/ Lent(y)'
      PROVE  /\ \A x : Past(x)' => apart(x, y)
             /\ version' > 0 => apart(document', y)
  <2>1. CASE Shared(y) \/ Lent(y)
    <3>1. \A x : Kept(x) => apart(x, y)
      BY <2>1 DEF IInv, Apart
    <3>2. cells(y) \subseteq 1 .. n
      BY <1>1, <2>1 DEF Lent
    <3>3. version > 0 => apart(document, y)
      BY <3>1 DEF Kept
    <3>4. version' > 0 => apart(document', y)
      BY <3>2, <3>3 DEF apart
    <3>5. \A x \in pasts : apart(x, y)
      BY <3>2 DEF apart
    <3> QED  BY <1>2, <3>1, <3>4, <3>5
  <2>2. CASE y \in shareds \/ \E a \in new : y = a.object
    <3>1. \A x : Past(x) => apart(x, y)
      BY <1>1, <1>2, <2>2 DEF apart
    <3> QED  BY <2>2, <3>1
  <2> QED  BY <1>4, <2>1, <2>2 DEF Lent
<1>5. \A x, y : Kept(x)' /\ (Shared(y)' \/ Lent(y)') => apart(x, y)
  BY <1>4 DEF Kept
<1>6. ASSUME NEW a \in answers, a.kind = "document"
      PROVE  /\ \A b \in answers' : b # a => apart(a.object, b.object)
             /\ \A y : Shared(y)' => apart(a.object, y)
  <2>1. /\ \A b \in answers : b # a => apart(a.object, b.object)
        /\ \A y : Shared(y) => apart(a.object, y)
    BY <1>6 DEF IInv, Apart
  <2>2. /\ \A b \in new : apart(a.object, b.object)
        /\ \A y \in shareds : apart(a.object, y)
    BY <1>1 DEF apart
  <2> QED  BY <2>1, <2>2
<1>7. ASSUME NEW a \in new, a.kind = "document"
      PROVE  /\ \A b \in answers' : b # a => apart(a.object, b.object)
             /\ \A y : Shared(y)' => apart(a.object, y)
  <2>1. /\ \A b \in answers : apart(a.object, b.object)
        /\ \A y : Shared(y) => apart(a.object, y)
    BY <1>1 DEF apart
  <2> QED  BY <1>7, <2>1
<1>8. \A a \in answers' : a.kind = "document" =>
        /\ \A b \in answers' : b # a => apart(a.object, b.object)
        /\ \A y : Shared(y)' => apart(a.object, y)
  BY <1>6, <1>7
<1> QED  BY <1>3, <1>5, <1>8 DEF Apart
(* What is kept stays true when new records do, and so do the answers.     *)
LEMMA StoredStays ==
  ASSUME IInv, NEW n, n = Len(heap),
         \A i \in 1 .. n : heap'[i] = heap[i] \/ (version > 0 /\ i = document.struct),
         NEW entry,
         \A k \in DOMAIN idem' : (k \in DOMAIN idem /\ idem'[k] = idem[k]) \/ idem'[k] = entry,
         entry.value # Nothing => SoundAfter(entry.value, entry.said)
  PROVE  /\ \A i \in DOMAIN history : /\ heap'[history[i].struct] = i
                                      /\ history[i].slice # None =>
                                           heap'[history[i].slice] # Spoiled
         /\ \A k \in DOMAIN idem' :
              idem'[k].value # Nothing => SoundAfter(idem'[k].value, idem'[k].said)
<1>1. \A x : Past(x) => /\ heap'[x.struct] = heap[x.struct]
                        /\ x.slice # None => heap'[x.slice] = heap[x.slice]
  BY OldCellsStay
<1>2. \A i \in DOMAIN history : /\ heap'[history[i].struct] = i
                                /\ history[i].slice # None =>
                                     heap'[history[i].slice] # Spoiled
  <2>1. \A i \in DOMAIN history : Past(history[i])
    BY DEF Past
  <2> QED  BY <1>1, <2>1 DEF IInv, StoredStaysTrue, unspoiled
<1>3. ASSUME NEW k \in DOMAIN idem', idem'[k].value # Nothing
      PROVE  SoundAfter(idem'[k].value, idem'[k].said)
  <2>1. CASE k \in DOMAIN idem /\ idem'[k] = idem[k]
    <3>1. Past(idem[k].value) /\ sound(idem[k].value, idem[k].said)
      BY <1>3, <2>1 DEF Past, IInv, StoredStaysTrue
    <3>2. SoundAfter(idem[k].value, idem[k].said)
      BY <1>1, <3>1 DEF sound, SoundAfter
    <3> QED  BY <2>1, <3>2
  <2> QED  BY <1>3, <2>1
<1> QED  BY <1>2, <1>3

LEMMA AnswersStay ==
  ASSUME IInv, NEW n, n = Len(heap),
         \A i \in 1 .. n : heap'[i] = heap[i] \/ (version > 0 /\ i = document.struct),
         NEW new, answers' = answers \cup new,
         \A a \in new : a.kind = "document" => SoundAfter(a.object, a.said)
  PROVE  AnswersStayTrue'
<1>1. \A a \in answers : a.kind = "document" =>
        /\ heap'[a.object.struct] = heap[a.object.struct]
        /\ a.object.slice # None => heap'[a.object.slice] = heap[a.object.slice]
  BY OldCellsStay
<1> QED  BY <1>1 DEF IInv, AnswersStayTrue, StaysTrue, sound, SoundAfter

LEMMA Holding ==
  ASSUME NEW c \in Caller, NEW kind \in {"document", "request", "event", "error"},
         NEW n \in Nat, NEW object \in Object(n), NEW said \in Nat \X Nat,
         NEW a, a = holds(c, kind, object, said)
  PROVE  a \in Answer(n) /\ a.kind = kind /\ a.object = object /\ a.said = said
  BY DEF holds, Answer

LEMMA Appended ==
  ASSUME NEW S, NEW s \in Seq(S), NEW e \in S, NEW t, t = Append(s, e)
  PROVE  /\ t \in Seq(S) /\ Len(t) = Len(s) + 1
         /\ \A i \in DOMAIN t : \/ i = Len(s) + 1 /\ t[i] = e
                                \/ i \in DOMAIN s /\ t[i] = s[i]
  OBVIOUS
-----------------------------------------------------------------------------
(* An error, its batch result, the recorded copy of that and an event.     *)

LEMMA ConflictHeap ==
  ASSUME heap \in Seq(Nat), NEW n, n = Len(heap)
  PROVE  heap' = heap \o <<1, 1, 1, 1, 1, 1, 1>> =>
           /\ heap' \in Seq(Nat) /\ Len(heap') = n + 7
           /\ \A i \in 1 .. n : heap'[i] = heap[i]
           /\ \A i \in n + 1 .. n + 7 : heap'[i] = 1
<1>1. SUFFICES ASSUME heap' = heap \o <<1, 1, 1, 1, 1, 1, 1>>
               PROVE  /\ heap' \in Seq(Nat) /\ Len(heap') = n + 7
                      /\ \A i \in 1 .. n : heap'[i] = heap[i]
                      /\ \A i \in n + 1 .. n + 7 : heap'[i] = 1
  OBVIOUS
<1>2. PICK s : s = <<1, 1, 1, 1, 1, 1, 1>>
  OBVIOUS
<1>3. s \in Seq(Nat) /\ Len(s) = 7 /\ \A j \in 1 .. 7 : s[j] = 1
  <2>1. s[1] = 1 /\ s[2] = 1 /\ s[3] = 1 /\ s[4] = 1 /\ s[5] = 1 /\ s[6] = 1 /\ s[7] = 1
    BY <1>2
  <2> QED  BY <1>2, <2>1
<1>4. heap' = heap \o s
  BY <1>1, <1>2
<1>5. /\ heap' \in Seq(Nat) /\ Len(heap') = n + 7
      /\ \A i \in 1 .. n : heap'[i] = heap[i]
      /\ \A j \in 1 .. 7 : heap'[n + j] = 1
  <2>1. PICK t : t = heap'
    OBVIOUS
  <2>2. t = heap \o s /\ s \in Seq(Nat)
    BY <1>3, <1>4, <2>1
  <2>3. /\ t \in Seq(Nat) /\ Len(t) = Len(heap) + Len(s)
        /\ \A i \in 1 .. Len(heap) : t[i] = heap[i]
        /\ \A j \in 1 .. Len(s) : t[Len(heap) + j] = s[j]
    BY <2>2, Extended
  <2> QED  BY <1>3, <2>1, <2>3
<1>6. \A i \in n + 1 .. n + 7 : i - n \in 1 .. 7 /\ n + (i - n) = i
  OBVIOUS
<1> QED  BY <1>5, <1>6

LEMMA ConflictStep ==
  ASSUME IInv, NEW c \in Caller, NEW request \in Creations \cup Updates, NEW key,
         Conflict(c, request, key)
  PROVE  IInv'
<1>1. PICK n, said : n = Len(heap) /\ said = <<1, 1>>
  OBVIOUS
<1>2. PICK error, out, value, event :
        /\ error = [struct |-> n + 1, slice |-> n + 2]
        /\ out = [struct |-> n + 3, slice |-> n + 4]
        /\ value = [struct |-> n + 5, slice |-> n + 6]
        /\ event = [struct |-> n + 7, slice |-> None]
  OBVIOUS
<1>3. PICK fails, result : /\ fails = holds(c, "error", error, said)
                           /\ result = holds(c, "document", out, said)
  OBVIOUS
<1>4. PICK batch \in BOOLEAN : batch <=> request.op = "BatchUpdateDocuments"
  OBVIOUS
<1>5. PICK recorded, new : /\ recorded = IF batch THEN value ELSE Nothing
                           /\ new = {fails} \cup (IF batch THEN {result} ELSE {})
  OBVIOUS
<1>6. PICK entry : entry = [request |-> request, value |-> recorded,
                            error |-> error, said |-> said]
  OBVIOUS
<1>7. n \in Nat /\ heap \in Seq(Nat) /\ said \in Nat \X Nat /\ said[1] = 1 /\ said[2] = 1
  BY <1>1 DEF IInv, Shapes
<1>8. /\ [struct |-> cell(1), slice |-> cell(2)] = error
      /\ clone(error, 2) = out /\ cloneIDemValue(out, 3) = value
      /\ [struct |-> cell(7), slice |-> None] = event
  <2>1. /\ cell(1) = n + 1 /\ cell(2) = n + 2 /\ cell(3) = n + 3 /\ cell(4) = n + 4
        /\ cell(5) = n + 5 /\ cell(6) = n + 6 /\ cell(7) = n + 7
    BY <1>1 DEF cell
  <2>2. error.slice # None /\ out.slice # None
    BY <1>2, <1>7 DEF None
  <2> QED  BY <1>2, <2>1, <2>2 DEF clone, cloneIDemValue
<1>9. /\ heap' = heap \o <<1, 1, 1, 1, 1, 1, 1>>
      /\ record(key, request, recorded, error, said)
      /\ document' = document /\ history' = history
  BY <1>1, <1>4, <1>5, <1>8 DEF Conflict
<1>10. answers' = answers \cup new
  BY <1>1, <1>3, <1>4, <1>5, <1>8 DEF Conflict
<1>11. events' = IF batch THEN Append(events, event) ELSE events
  BY <1>4, <1>8 DEF Conflict
<1>12. /\ heap' \in Seq(Nat) /\ Len(heap') = n + 7
       /\ \A i \in 1 .. n : heap'[i] = heap[i]
       /\ \A i \in n + 1 .. n + 7 : heap'[i] = 1
  BY <1>1, <1>7, <1>9, ConflictHeap
<1>13. /\ error \in Object(n + 7) /\ out \in Object(n + 7)
       /\ value \in Object(n + 7) /\ event \in Object(n + 7)
  BY <1>2, <1>7 DEF Object, None
<1>14. /\ cells(error) = {n + 1, n + 2} /\ cells(out) = {n + 3, n + 4}
       /\ cells(value) = {n + 5, n + 6} /\ cells(event) = {n + 7}
  BY <1>2, <1>7 DEF cells, None
<1>15. /\ fails \in Answer(n + 7) /\ fails.object = error /\ fails.kind = "error"
       /\ result \in Answer(n + 7) /\ result.object = out /\ result.said = said
  <2>1. n + 7 \in Nat
    BY <1>7
  <2> QED  BY <1>3, <1>7, <1>13, <2>1, Holding
<1>16. \A k \in DOMAIN idem' : (k \in DOMAIN idem /\ idem'[k] = idem[k]) \/ idem'[k] = entry
  BY <1>6, <1>9, Recorded
<1>17. \A i \in DOMAIN events' :
         events'[i] = event \/ \E j \in DOMAIN events : events'[i] = events[j]
  <2>1. events \in Seq(Object(n))
    BY <1>1 DEF IInv, Shapes
  <2>2. DOMAIN Append(events, event) = 1 .. Len(events) + 1 /\ DOMAIN events = 1 .. Len(events)
        /\ Len(events) \in Nat
    BY <2>1
  <2>3. \A i \in DOMAIN Append(events, event) :
          Append(events, event)[i] = IF i = Len(events) + 1 THEN event ELSE events[i]
    BY <2>1
  <2> QED  BY <1>11, <2>2, <2>3
<1>18. Shapes'
  <2>1. version' = version
    BY <1>9 DEF version
  <2>2. /\ Object(n) \subseteq Object(n + 7) /\ Entry(n) \subseteq Entry(n + 7)
        /\ Answer(n) \subseteq Answer(n + 7)
    BY <1>7, ObjectsStay
  <2>3. history \in Seq(Object(n + 7)) /\ events \in Seq(Object(n + 7))
    BY <1>1, <1>7, SequencesStay DEF IInv, Shapes
  <2>4. events' \in Seq(Object(n + 7))
    BY <1>11, <1>13, <2>3, Appended
  <2>5. entry \in Entry(n + 7)
    BY <1>5, <1>6, <1>7, <1>13 DEF Entry
  <2>6. \A k \in DOMAIN idem' : idem'[k] \in Entry(n + 7)
    BY <1>1, <1>16, <2>2, <2>5 DEF IInv, Shapes
  <2>7. answers' \subseteq Answer(n + 7)
    BY <1>1, <1>5, <1>10, <1>15, <2>2 DEF IInv, Shapes
  <2>8. version > 0 => document \in Object(n + 7)
    BY <1>1, <2>2 DEF IInv, Shapes
  <2> QED  BY <1>9, <1>12, <2>1, <2>3, <2>4, <2>6, <2>7, <2>8 DEF Shapes
<1>19. Apart'
  <2>1. PICK pasts, shareds : pasts = {value} /\ shareds = {error, event}
    OBVIOUS
  <2>2. \A x : Past(x)' => Past(x) \/ x \in pasts
    BY <1>5, <1>6, <1>9, <1>16, <2>1 DEF Past
  <2>3. \A x : Shared(x)' => Shared(x) \/ x \in shareds
    BY <1>6, <1>16, <1>17, <2>1 DEF Shared
  <2>4. /\ \A x \in pasts : cells(x) \cap 1 .. n = {}
        /\ \A y \in shareds : cells(y) \cap 1 .. n = {}
        /\ \A a \in new : cells(a.object) \cap 1 .. n = {}
    <3>1. /\ cells(error) \cap 1 .. n = {} /\ cells(out) \cap 1 .. n = {}
          /\ cells(value) \cap 1 .. n = {} /\ cells(event) \cap 1 .. n = {}
      BY <1>7, <1>14
    <3> QED  BY <1>5, <1>15, <2>1, <3>1
  <2>5. /\ version' = version /\ document' = document
        /\ version > 0 => document.struct \in 1 .. n /\ cells(document) \subseteq 1 .. n
    <3>1. version > 0 => document \in Object(n)
      BY <1>1 DEF IInv, Shapes
    <3> QED  BY <1>7, <1>9, <3>1, CellsAreOld DEF version, Object
  <2>6. Adds(pasts, shareds, new)
    BY <1>10, <2>2, <2>3 DEF Adds
  <2>7. version' > 0 => DocumentIsFree(n, pasts, shareds, new)
    BY <2>4, <2>5 DEF apart, DocumentIsFree
  <2>8. /\ apart(value, error) /\ apart(value, event) /\ apart(value, out)
        /\ apart(out, error) /\ apart(out, event) /\ fails.kind # "document"
    BY <1>7, <1>14, <1>15 DEF apart
  <2>9. \A a \in new : a = fails \/ a = result
    BY <1>5
  <2>10. InNewCells(n, pasts, shareds, new)
    BY <1>15, <2>1, <2>4, <2>8, <2>9 DEF InNewCells
  <2> QED  BY <1>1, <2>6, <2>7, <2>10, StaysApart
<1>20. SoundAfter(value, said) /\ SoundAfter(out, said)
  <2>1. /\ value.struct = n + 5 /\ value.slice = n + 6
        /\ out.struct = n + 3 /\ out.slice = n + 4
    BY <1>2
  <2> QED  BY <1>7, <1>12, <2>1 DEF SoundAfter
<1>21. StoredStaysTrue'
  <2>1. entry.value # Nothing => SoundAfter(entry.value, entry.said)
    BY <1>5, <1>6, <1>20
  <2>2. /\ \A i \in DOMAIN history : /\ heap'[history[i].struct] = i
                                     /\ history[i].slice # None =>
                                          heap'[history[i].slice] # Spoiled
        /\ \A k \in DOMAIN idem' :
             idem'[k].value # Nothing => SoundAfter(idem'[k].value, idem'[k].said)
    BY <1>1, <1>12, <1>16, <2>1, StoredStays
  <2>3. version > 0 => /\ document \in Object(n) /\ heap[document.struct] = version
                       /\ document.slice # None => heap[document.slice] # Spoiled
    BY <1>1 DEF IInv, Shapes, StoredStaysTrue, unspoiled
  <2>4. version > 0 => /\ heap'[document.struct] = version
                       /\ document.slice # None => heap'[document.slice] # Spoiled
    BY <1>7, <1>12, <2>3 DEF Object, None
  <2>5. version' = version
    BY <1>9 DEF version
  <2> QED  BY <1>9, <2>2, <2>4, <2>5 DEF StoredStaysTrue, sound, SoundAfter, unspoiled
<1>22. AnswersStayTrue'
  <2>1. \A a \in new : a.kind = "document" => SoundAfter(a.object, a.said)
    BY <1>5, <1>15, <1>20
  <2> QED  BY <1>1, <1>10, <1>12, <2>1, AnswersStay
<1> QED  BY <1>18, <1>19, <1>21, <1>22 DEF IInv
-----------------------------------------------------------------------------
(* The caller's tags, the document, and the copies of it.                  *)

Writes(v, tags, written) ==
  heap' = [a \in 1 .. Len(heap) |->
             IF a \in written THEN v ELSE heap[a]]
          \o <<v, v, v, v, v, tags, v, tags, v, tags, v, tags>>

LEMMA StoreHeap ==
  ASSUME heap \in Seq(Nat), NEW n, n = Len(heap),
         NEW v \in Nat, NEW tags \in Nat, NEW written, Writes(v, tags, written)
  PROVE  /\ heap' \in Seq(Nat) /\ Len(heap') = n + 12
         /\ \A i \in 1 .. n :
              heap'[i] = IF i \in written THEN v ELSE heap[i]
         /\ heap'[n + 3] = v /\ heap'[n + 4] = v /\ heap'[n + 5] = v /\ heap'[n + 6] = tags
         /\ heap'[n + 9] = v /\ heap'[n + 10] = tags
         /\ heap'[n + 11] = v /\ heap'[n + 12] = tags
<1>1. PICK s : s = [a \in 1 .. Len(heap) |->
                      IF a \in written THEN v ELSE heap[a]]
  OBVIOUS
<1>2. PICK e : e = <<v, v, v, v, v, tags, v, tags, v, tags, v, tags>>
  OBVIOUS
<1>3. PICK t : t = heap'
  OBVIOUS
<1>4. t = s \o e
  BY <1>1, <1>2, <1>3 DEF Writes
<1>5. n \in Nat /\ s \in Seq(Nat) /\ Len(s) = n
  <2>1. n \in Nat /\ \A a \in 1 .. n : heap[a] \in Nat
    OBVIOUS
  <2>2. s \in [1 .. n -> Nat] /\ DOMAIN s = 1 .. n
    BY <1>1, <2>1
  <2>3. s \in Seq(Nat)
    BY <2>1, <2>2
  <2> QED  BY <2>1, <2>2, <2>3
<1>6. \A i \in 1 .. n : s[i] = IF i \in written THEN v ELSE heap[i]
  BY <1>1
<1>7. /\ e \in Seq(Nat) /\ Len(e) = 12
      /\ e[3] = v /\ e[4] = v /\ e[5] = v /\ e[6] = tags
      /\ e[9] = v /\ e[10] = tags /\ e[11] = v /\ e[12] = tags
  BY <1>2
<1>8. /\ t \in Seq(Nat) /\ Len(t) = Len(s) + Len(e)
      /\ \A i \in 1 .. Len(s) : t[i] = s[i]
      /\ \A j \in 1 .. Len(e) : t[Len(s) + j] = e[j]
  <2>1. s \in Seq(Nat) /\ e \in Seq(Nat)
    BY <1>5, <1>7
  <2> QED  BY <1>4, <2>1, Extended
<1>9. /\ \A i \in 1 .. n : t[i] = s[i]
      /\ \A j \in 1 .. 12 : t[n + j] = e[j]
  BY <1>5, <1>7, <1>8
<1>10. /\ t[n + 3] = v /\ t[n + 4] = v /\ t[n + 5] = v /\ t[n + 6] = tags
       /\ t[n + 9] = v /\ t[n + 10] = tags /\ t[n + 11] = v /\ t[n + 12] = tags
  BY <1>7, <1>9
<1> QED  BY <1>3, <1>5, <1>6, <1>7, <1>8, <1>9, <1>10

LEMMA StoreStep ==
  ASSUME IInv, NEW c \in Caller, NEW request \in Creations \cup Updates, NEW key,
         request.op = "CreateDocument" => version = 0,
         request.op # "CreateDocument" => version > 0,
         Store(c, request, key)
  PROVE  IInv'
<1>1. PICK n \in Nat, v \in Nat, creates \in BOOLEAN, tagged \in BOOLEAN :
        /\ n = Len(heap) /\ v = version + 1
        /\ creates <=> request.op = "CreateDocument"
        /\ tagged <=> request.tags
  <2>1. Len(heap) \in Nat /\ version + 1 \in Nat
    BY DEF IInv, Shapes, version
  <2>2. request.tags \in BOOLEAN
    BY DEF Creations, Updates
  <2>3. PICK creates \in BOOLEAN : creates <=> request.op = "CreateDocument"
    OBVIOUS
  <2>4. PICK tagged \in BOOLEAN : tagged <=> request.tags
    BY <2>2
  <2> QED  BY <2>1, <2>3, <2>4
<1>2. PICK given, doc :
        /\ given = [struct |-> n + 1, slice |-> n + 2]
        /\ doc = [struct |-> IF creates THEN n + 3 ELSE document.struct,
                  slice |-> IF tagged THEN n + 4
                            ELSE IF creates THEN None ELSE document.slice]
  OBVIOUS
<1>3. PICK tags : tags = IF tagged THEN v
                         ELSE IF doc.slice = None THEN Spoiled ELSE heap[doc.slice]
  OBVIOUS
<1>4. PICK revision, event, out, value :
        /\ revision = [struct |-> n + 5, slice |-> IF doc.slice = None THEN None ELSE n + 6]
        /\ event = [struct |-> n + 7, slice |-> IF creates /\ tagged THEN n + 8 ELSE None]
        /\ out = [struct |-> n + 9, slice |-> IF doc.slice = None THEN None ELSE n + 10]
        /\ value = [struct |-> n + 11, slice |-> IF doc.slice = None THEN None ELSE n + 12]
  OBVIOUS
<1>5. PICK said, wrote : said = <<v, tags>> /\ wrote = <<v, v>>
  OBVIOUS
<1>6. PICK result, asked : /\ result = holds(c, "document", out, said)
                           /\ asked = holds(c, "request", given, wrote)
  OBVIOUS
<1>7. PICK new, entry : /\ new = {result} \cup (IF tagged THEN {asked} ELSE {})
                        /\ entry = [request |-> request, value |-> value,
                                    error |-> Nothing, said |-> said]
  OBVIOUS
<1>8. /\ n \in Nat /\ heap \in Seq(Nat) /\ version \in Nat /\ v = Len(history) + 1
      /\ version > 0 => /\ document \in Object(n) /\ heap[document.struct] = version
                        /\ document.slice # None => heap[document.slice] # Spoiled
      /\ creates => version = 0
      /\ ~ creates => version > 0
  BY <1>1 DEF IInv, Shapes, StoredStaysTrue, unspoiled, version
<1>9. doc \in Object(n + 12) /\ (doc.slice \in 1 .. n => ~ tagged /\ ~ creates)
  BY <1>2, <1>8 DEF Object, None
<1>10. v \in Nat /\ v # Spoiled /\ tags \in Nat /\ (doc.slice # None => tags # Spoiled)
  <2>1. v \in Nat /\ v # Spoiled
    BY <1>1, <1>8 DEF Spoiled
  <2>2. CASE tagged \/ doc.slice = None
    BY <1>3, <2>1, <2>2 DEF Spoiled
  <2>3. CASE ~ tagged /\ doc.slice # None
    <3>1. ~ creates /\ doc.slice = document.slice
      BY <1>2, <2>3
    <3>2. document.slice \in 1 .. n /\ tags = heap[document.slice] /\ tags # Spoiled
      BY <1>3, <1>8, <2>3, <3>1 DEF Object, None
    <3> QED  BY <1>1, <1>8, <2>1, <3>2
  <2> QED  BY <2>1, <2>2, <2>3
<1>11. said \in Nat \X Nat /\ said[1] = v /\ said[2] = tags /\ wrote \in Nat \X Nat
  BY <1>5, <1>10
<1>12. /\ cell(1) = n + 1 /\ cell(2) = n + 2 /\ cell(3) = n + 3 /\ cell(4) = n + 4
       /\ cell(7) = n + 7 /\ cell(8) = n + 8
       /\ clone(doc, 3) = revision /\ clone(doc, 5) = out /\ cloneIDemValue(out, 6) = value
  <2>1. /\ cell(1) = n + 1 /\ cell(2) = n + 2 /\ cell(3) = n + 3 /\ cell(4) = n + 4
        /\ cell(5) = n + 5 /\ cell(6) = n + 6 /\ cell(7) = n + 7 /\ cell(8) = n + 8
        /\ cell(9) = n + 9 /\ cell(10) = n + 10 /\ cell(11) = n + 11 /\ cell(12) = n + 12
    BY <1>1 DEF cell
  <2>2. out.slice = None <=> doc.slice = None
    BY <1>4, <1>8 DEF None
  <2>3. clone(doc, 3) = revision /\ clone(doc, 5) = out
    BY <1>4, <2>1 DEF clone
  <2>4. cloneIDemValue(out, 6) = value
    BY <1>4, <2>1, <2>2 DEF clone, cloneIDemValue
  <2> QED  BY <2>1, <2>3, <2>4
<1>13. PICK written : /\ written = IF creates THEN {} ELSE {document.struct}
                      /\ Writes(v, tags, written)
  <2>1. PICK written : written = IF creates THEN {} ELSE {document.struct}
    OBVIOUS
  <2>2. \A a : a \in written <=> ~ creates /\ a = document.struct
    BY <2>1
  <2>3. heap' = [a \in 1 .. Len(heap) |->
                   IF ~ creates /\ a = document.struct THEN v ELSE heap[a]]
                \o <<v, v, v, v, v, tags, v, tags, v, tags, v, tags>>
    BY <1>1, <1>2, <1>3, <1>12 DEF Store
  <2>4. [a \in 1 .. Len(heap) |-> IF ~ creates /\ a = document.struct THEN v ELSE heap[a]]
          = [a \in 1 .. Len(heap) |-> IF a \in written THEN v ELSE heap[a]]
    BY <2>2
  <2>5. Writes(v, tags, written)
    BY <2>3, <2>4 DEF Writes
  <2> QED  BY <2>1, <2>5
<1>14. document' = doc /\ history' = Append(history, revision) /\ events' = Append(events, event)
  <2>1. document' = doc
    BY <1>1, <1>2, <1>12 DEF Store
  <2>2. history' = Append(history, revision)
    BY <1>1, <1>2, <1>12 DEF Store
  <2>3. events' = Append(events, event)
    BY <1>1, <1>4, <1>12 DEF Store
  <2> QED  BY <2>1, <2>2, <2>3
<1>15. record(key, request, value, Nothing, said)
  BY <1>1, <1>2, <1>3, <1>5, <1>12 DEF Store
<1>16. answers' = answers \cup new
  <2>1. answers' = answers \cup {holds(c, "document", out, <<v, tags>>)}
           \cup (IF tagged THEN {holds(c, "request", given, <<v, v>>)} ELSE {})
    BY <1>1, <1>2, <1>3, <1>12 DEF Store
  <2>2. result = holds(c, "document", out, <<v, tags>>)
        /\ asked = holds(c, "request", given, <<v, v>>)
    BY <1>5, <1>6
  <2> QED  BY <1>7, <2>1, <2>2
<1>17. /\ heap' \in Seq(Nat) /\ Len(heap') = n + 12
       /\ \A i \in 1 .. n : heap'[i] = IF ~ creates /\ i = document.struct THEN v ELSE heap[i]
       /\ heap'[n + 3] = v /\ heap'[n + 4] = v /\ heap'[n + 5] = v /\ heap'[n + 6] = tags
       /\ heap'[n + 9] = v /\ heap'[n + 10] = tags
       /\ heap'[n + 11] = v /\ heap'[n + 12] = tags
  <2>1. n = Len(heap) /\ heap \in Seq(Nat) /\ v \in Nat /\ tags \in Nat
    BY <1>1, <1>8, <1>10
  <2>2. Writes(v, tags, written)
    BY <1>13
  <2>3. /\ heap' \in Seq(Nat) /\ Len(heap') = n + 12
        /\ \A i \in 1 .. n : heap'[i] = IF i \in written THEN v ELSE heap[i]
        /\ heap'[n + 3] = v /\ heap'[n + 4] = v /\ heap'[n + 5] = v /\ heap'[n + 6] = tags
        /\ heap'[n + 9] = v /\ heap'[n + 10] = tags
        /\ heap'[n + 11] = v /\ heap'[n + 12] = tags
    <3>1. heap' \in Seq(Nat)
      BY <2>1, <2>2, StoreHeap
    <3>2. Len(heap') = n + 12
      BY <2>1, <2>2, StoreHeap
    <3>3. \A i \in 1 .. n : heap'[i] = IF i \in written THEN v ELSE heap[i]
      BY <2>1, <2>2, StoreHeap
    <3>4. heap'[n + 3] = v /\ heap'[n + 4] = v /\ heap'[n + 5] = v
      BY <2>1, <2>2, StoreHeap
    <3>5. heap'[n + 9] = v /\ heap'[n + 11] = v
      BY <2>1, <2>2, StoreHeap
    <3>6. heap'[n + 6] = tags /\ heap'[n + 10] = tags /\ heap'[n + 12] = tags
      BY <2>1, <2>2, StoreHeap
    <3> QED  BY <3>1, <3>2, <3>3, <3>4, <3>5, <3>6
  <2>4. \A i : i \in written <=> ~ creates /\ i = document.struct
    BY <1>13
  <2> QED  BY <2>3, <2>4
<1>18. \A i \in 1 .. n : heap'[i] = heap[i] \/ (version > 0 /\ i = document.struct)
  BY <1>8, <1>17
<1>19. /\ given \in Object(n + 12) /\ revision \in Object(n + 12) /\ event \in Object(n + 12)
       /\ out \in Object(n + 12) /\ value \in Object(n + 12)
  <2>1. given \in Object(n + 12)
    BY <1>2 DEF Object
  <2>2. revision \in Object(n + 12) /\ event \in Object(n + 12)
    BY <1>4 DEF Object, None
  <2>3. out \in Object(n + 12) /\ value \in Object(n + 12)
    BY <1>4 DEF Object, None
  <2> QED  BY <2>1, <2>2, <2>3
<1>20. /\ cells(given) \subseteq {n + 1, n + 2} /\ cells(revision) \subseteq {n + 5, n + 6}
       /\ cells(event) \subseteq {n + 7, n + 8} /\ cells(out) \subseteq {n + 9, n + 10}
       /\ cells(value) \subseteq {n + 11, n + 12}
  BY <1>2, <1>4 DEF cells
<1>21. /\ result \in Answer(n + 12) /\ result.object = out /\ result.said = said
       /\ asked \in Answer(n + 12) /\ asked.object = given /\ asked.kind = "request"
  <2>1. n + 12 \in Nat
    BY <1>8
  <2> QED  BY <1>6, <1>11, <1>19, <2>1, Holding
<1>22. \A k \in DOMAIN idem' : (k \in DOMAIN idem /\ idem'[k] = idem[k]) \/ idem'[k] = entry
  BY <1>7, <1>15, Recorded
<1>23. /\ history' \in Seq(Object(n + 12)) /\ version' = v
       /\ \A i \in DOMAIN history' : \/ i = v /\ history'[i] = revision
                                     \/ i \in DOMAIN history /\ history'[i] = history[i]
  <2>1. history \in Seq(Object(n + 12))
    BY <1>1, <1>8, SequencesStay DEF IInv, Shapes
  <2>2. /\ history' \in Seq(Object(n + 12)) /\ Len(history') = Len(history) + 1
        /\ \A i \in DOMAIN history' : \/ i = Len(history) + 1 /\ history'[i] = revision
                                      \/ i \in DOMAIN history /\ history'[i] = history[i]
    BY <1>14, <1>19, <2>1, Appended
  <2> QED  BY <1>8, <2>2 DEF version
<1>24. /\ events' \in Seq(Object(n + 12))
       /\ \A i \in DOMAIN events' : \/ events'[i] = event
                                    \/ i \in DOMAIN events /\ events'[i] = events[i]
  <2>1. events \in Seq(Object(n + 12))
    BY <1>1, <1>8, SequencesStay DEF IInv, Shapes
  <2> QED  BY <1>14, <1>19, <2>1, Appended
<1>25. Shapes'
  <2>1. /\ Object(n) \subseteq Object(n + 12) /\ Entry(n) \subseteq Entry(n + 12)
        /\ Answer(n) \subseteq Answer(n + 12)
    <3>1. n + 12 \in Nat /\ n <= n + 12
      OBVIOUS
    <3> QED  BY <3>1, ObjectsStay
  <2>2. entry \in Entry(n + 12)
    BY <1>7, <1>11, <1>19 DEF Entry
  <2>3. \A k \in DOMAIN idem' : idem'[k] \in Entry(n + 12)
    BY <1>1, <1>22, <2>1, <2>2 DEF IInv, Shapes
  <2>4. answers' \subseteq Answer(n + 12)
    BY <1>1, <1>7, <1>16, <1>21, <2>1 DEF IInv, Shapes
  <2> QED  BY <1>9, <1>14, <1>17, <1>23, <1>24, <2>3, <2>4 DEF Shapes
<1>26. Apart'
  <2>1. PICK pasts, shareds : pasts = {revision, value} /\ shareds = {event}
    OBVIOUS
  <2>2. \A x : Past(x)' => Past(x) \/ x \in pasts
    BY <1>7, <1>22, <1>23, <2>1 DEF Past
  <2>3. \A x : Shared(x)' => Shared(x) \/ x \in shareds
    BY <1>7, <1>22, <1>24, <2>1 DEF Shared
  <2>4. Adds(pasts, shareds, new)
    BY <1>16, <2>2, <2>3 DEF Adds
  <2>5. \A a \in new : a.object = out \/ (a = asked /\ a.object = given)
    BY <1>7, <1>21
  <2>6. \A a, b \in new : a.kind = "document" /\ b # a => a.object = out /\ b.object = given
    BY <1>7, <1>21
  <2>7. /\ cells(given) \cap 1 .. n = {} /\ cells(revision) \cap 1 .. n = {}
        /\ cells(event) \cap 1 .. n = {} /\ cells(out) \cap 1 .. n = {}
        /\ cells(value) \cap 1 .. n = {}
    BY <1>20
  <2>8. /\ apart(revision, event) /\ apart(revision, out) /\ apart(revision, given)
        /\ apart(value, event) /\ apart(value, out) /\ apart(value, given)
        /\ apart(out, given) /\ apart(out, event)
    BY <1>20 DEF apart
  <2>9. InNewCells(n, pasts, shareds, new)
    <3>1. \A a \in new : a.kind = "document" => a.object = out
      BY <1>21, <2>5
    <3> QED  BY <2>1, <2>5, <2>6, <2>7, <2>8, <3>1 DEF InNewCells
  <2>10. \A i \in cells(doc) : \/ i \in {n + 3, n + 4}
                               \/ i \in 1 .. n /\ version > 0 /\ i \in cells(document)
    BY <1>2, <1>8 DEF cells, Object, None
  <2>11. /\ apart(doc, revision) /\ apart(doc, value) /\ apart(doc, event)
         /\ apart(doc, out) /\ apart(doc, given) /\ doc.struct \in cells(doc)
    <3>1. doc.struct \in cells(doc)
      BY <1>9 DEF cells, Object, None
    <3>2. \A i \in {n + 1, n + 2, n + 5, n + 6, n + 7, n + 8, n + 9, n + 10, n + 11, n + 12} :
            i \notin cells(doc)
      BY <2>10
    <3> QED  BY <1>20, <3>1, <3>2 DEF apart
  <2>12. DocumentIsFree(n, pasts, shareds, new)
    <3>1. doc.struct \in 1 .. n => version > 0 /\ doc.struct = document.struct
      BY <1>2, <1>8
    <3>2. \A i \in cells(doc) \cap 1 .. n : version > 0 /\ i \in cells(document)
      BY <1>8, <2>10
    <3>3. doc.struct \notin cells(revision) /\ doc.struct \notin cells(value)
      BY <2>11 DEF apart
    <3>4. \A a \in new : apart(doc, a.object)
      BY <2>5, <2>11
    <3> QED  BY <1>14, <2>1, <2>11, <3>1, <3>2, <3>3, <3>4 DEF DocumentIsFree
  <2> QED  BY <1>1, <2>4, <2>9, <2>12, StaysApart
<1>27. SoundAfter(value, said) /\ SoundAfter(out, said)
  BY <1>4, <1>11, <1>17 DEF SoundAfter
<1>28. StoredStaysTrue'
  <2>1. entry.value # Nothing => SoundAfter(entry.value, entry.said)
    BY <1>7, <1>27
  <2>2. /\ \A i \in DOMAIN history : /\ heap'[history[i].struct] = i
                                     /\ history[i].slice # None =>
                                          heap'[history[i].slice] # Spoiled
        /\ \A k \in DOMAIN idem' :
             idem'[k].value # Nothing => SoundAfter(idem'[k].value, idem'[k].said)
    BY <1>1, <1>18, <1>22, <2>1, StoredStays
  <2>3. heap'[revision.struct] = v /\ (revision.slice # None => heap'[revision.slice] # Spoiled)
    BY <1>4, <1>10, <1>17
  <2>4. heap'[doc.struct] = v
    BY <1>2, <1>8, <1>17 DEF Object
  <2>5. doc.slice # None => heap'[doc.slice] # Spoiled
    <3>1. CASE tagged
      BY <1>2, <1>10, <1>17, <3>1
    <3>2. CASE ~ tagged /\ ~ creates
      <4>1. doc.slice = document.slice /\ version > 0 /\ document \in Object(n)
        BY <1>2, <1>8, <3>2
      <4>2. doc.slice # None => doc.slice \in 1 .. n /\ heap[doc.slice] # Spoiled
        BY <1>8, <4>1 DEF Object, None
      <4> QED  BY <1>10, <1>17, <4>2
    <3>3. CASE ~ tagged /\ creates
      BY <1>2, <3>3
    <3> QED  BY <3>1, <3>2, <3>3
  <2>6. \A i \in DOMAIN history' : /\ heap'[history'[i].struct] = i
                                   /\ history'[i].slice # None =>
                                        heap'[history'[i].slice] # Spoiled
    BY <1>23, <2>2, <2>3
  <2> QED  BY <1>14, <1>23, <2>2, <2>4, <2>5, <2>6
           DEF StoredStaysTrue, sound, SoundAfter, unspoiled
<1>29. AnswersStayTrue'
  <2>1. \A a \in new : a.kind = "document" => SoundAfter(a.object, a.said)
    BY <1>7, <1>21, <1>27
  <2> QED  BY <1>1, <1>16, <1>18, <2>1, AnswersStay
<1> QED  BY <1>25, <1>26, <1>28, <1>29 DEF IInv
-----------------------------------------------------------------------------
LEMMA CallStep ==
  ASSUME IInv, NEW c \in Caller, NEW key \in Key \cup {NoKey},
         \/ \E request \in Creations : CreateDocument(c, request, key)
         \/ \E request \in Updates : Update(c, request, key)
  PROVE  IInv'
<1>1. version \in Nat
  BY DEF IInv, Shapes, version
<1>2. CASE Known(key) /\ Replay(c, key)
  BY <1>2, ReplayStep DEF Known
<1>3. ASSUME NEW request \in Creations, version = 0, Store(c, request, key)
      PROVE  IInv'
  <2>1. request.op = "CreateDocument" /\ request \in Creations \cup Updates
    BY DEF Creations
  <2> QED  BY <1>3, <2>1, StoreStep
<1>4. ASSUME NEW request \in Updates, version > 0,
             Store(c, request, key) \/ Conflict(c, request, key)
      PROVE  IInv'
  <2>1. request.op # "CreateDocument" /\ request \in Creations \cup Updates
    BY DEF Updates
  <2>2. CASE Store(c, request, key)
    BY <1>4, <2>1, <2>2, StoreStep
  <2>3. CASE Conflict(c, request, key)
    BY <2>1, <2>3, ConflictStep
  <2> QED  BY <1>4, <2>2, <2>3
<1> QED  BY <1>2, <1>3, <1>4 DEF CreateDocument, Update

LEMMA NextIInv == IInv /\ [IsolationNext]_isolationVars => IInv'
<1> SUFFICES ASSUME IInv, [IsolationNext]_isolationVars
             PROVE  IInv'
  OBVIOUS
<1>1. CASE IsolationNext
  <2>1. PICK c \in Caller :
          \/ \E key \in Key \cup {NoKey} :
               \/ \E request \in Creations : CreateDocument(c, request, key)
               \/ \E request \in Updates : Update(c, request, key)
          \/ Get(c) \/ GetRevision(c) \/ GetEvent(c)
          \/ Scribble(c)
    BY <1>1 DEF IsolationNext
  <2>2. CASE \E key \in Key \cup {NoKey} :
               \/ \E request \in Creations : CreateDocument(c, request, key)
               \/ \E request \in Updates : Update(c, request, key)
    BY <2>2, CallStep
  <2>3. CASE Get(c) \/ GetRevision(c) \/ GetEvent(c)
    BY <2>3, ReadStep
  <2>4. CASE Scribble(c)
    BY <2>4, ScribbleStep
  <2> QED  BY <2>1, <2>2, <2>3, <2>4
<1>2. CASE UNCHANGED isolationVars
  <2> USE <1>2 DEF isolationVars
  <2>1. Shapes'
    BY DEF IInv, Shapes, version
  <2>2. Apart'
    BY DEF IInv, Apart, Past, Kept, Shared, Lent, version
  <2>3. StoredStaysTrue' /\ AnswersStayTrue'
    BY DEF IInv, StoredStaysTrue, AnswersStayTrue, StaysTrue, version, sound, unspoiled
  <2> QED  BY <2>1, <2>2, <2>3 DEF IInv
<1> QED  BY <1>1, <1>2

LEMMA IInvHolds == IsolationSpec => []IInv
  BY InitIInv, NextIInv, PTL DEF IsolationSpec

(* Nothing a caller does to what it has been given, or gave, and no later  *)
(* update, changes the stored document, its history or the outcomes that   *)
(* are recorded for replay (service.go:14-15).                             *)
THEOREM StoredIsIsolated == IsolationSpec => []StoredStaysTrue
<1>1. IInv => StoredStaysTrue
  BY DEF IInv
<1> QED  BY <1>1, IInvHolds, PTL

(* A document or a batch result that a caller holds goes on saying what it *)
(* said, whatever the others do to theirs, the replays of the same outcome *)
(* included, and however often the document is updated after it.           *)
THEOREM AnswersAreIsolated == IsolationSpec => []AnswersStayTrue
<1>1. IInv => AnswersStayTrue
  BY DEF IInv
<1> QED  BY <1>1, IInvHolds, PTL
=============================================================================
