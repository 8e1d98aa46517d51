----------------------------- MODULE AuditProofs -----------------------------
(***************************************************************************)
(* What a reader of the audit log can rely on, for every value of the      *)
(* constants.                                                              *)
(*                                                                         *)
(* The log tells the leases: as long as no collection has a "/" in its     *)
(* identifier, the lock events of each document are a legal history of one *)
(* lease at a time, and the lock table is what that history says.          *)
(*                                                                         *)
(* The log can be tailed: a client that asks by min_sequence for what it   *)
(* has not seen yet reads everything once, or knows what it has missed.    *)
(***************************************************************************)
EXTENDS AuditTail, LogProofs

-----------------------------------------------------------------------------
(* The lock events of a document.                                          *)

IsLockEvent(e, k) == e.type \in LockEventType /\ keyOf(e) = k

LEMMA LockEventsRange ==
  ASSUME TypeOK, NEW k
  PROVE  /\ LockEvents(k) \subseteq 1 .. Len(audit)
         /\ LockEvents(k) \subseteq DOMAIN audit
         /\ AcquireEvents(k) \subseteq LockEvents(k)
         /\ Len(audit) \in Nat
BY DEF TypeOK, LockEvents, AcquireEvents

LEMMA LastEvents ==
  ASSUME TypeOK, NEW k
  PROVE  /\ LockEvents(k) # {} => last(LockEvents(k)) \in LockEvents(k)
         /\ AcquireEvents(k) # {} => last(AcquireEvents(k)) \in AcquireEvents(k)
<1>1. /\ LockEvents(k) \subseteq 1 .. Len(audit)
      /\ AcquireEvents(k) \subseteq 1 .. Len(audit)
      /\ Len(audit) \in Nat
  BY LockEventsRange
<1> QED
  BY <1>1, LastIsLast

LEMMA LastAdded ==
  ASSUME NEW S \in SUBSET Nat, NEW n \in Nat, \A j \in S : j < n
  PROVE  last(S \cup {n}) = n
<1> DEFINE T == S \cup {n}
<1>1. n \in T /\ \A j \in T : j <= n
  OBVIOUS
<1>2. last(T) \in T /\ \A j \in T : j <= last(T)
  <2> HIDE DEF T
  <2> QED
    BY <1>1 DEF last
<1>3. T = S \cup {n}
  OBVIOUS
<1> HIDE DEF T
<1>4. n <= last(T) /\ (last(T) \in S => last(T) < n /\ last(T) \in Nat)
  BY <1>1, <1>2
<1>5. last(T) = n
  BY <1>2, <1>3, <1>4
<1> QED
  BY <1>3, <1>5

LEMMA LockEventsKept ==
  ASSUME NEW m, Appends(m), NEW k,
         \A i \in 1 .. m : ~ IsLockEvent(audit'[Len(audit) + i], k)
  PROVE  /\ LockEvents(k)' = LockEvents(k)
         /\ AcquireEvents(k)' = AcquireEvents(k)
<1>1. \A i \in DOMAIN audit' :
        i \in DOMAIN audit
          \/ (i - Len(audit) \in 1 .. m /\ i = Len(audit) + (i - Len(audit)))
  BY DEF Appends
<1>2. DOMAIN audit \subseteq DOMAIN audit' /\ \A i \in DOMAIN audit : audit'[i] = audit[i]
  BY DEF Appends
<1>3. \A i \in DOMAIN audit' : IsLockEvent(audit'[i], k) => i \in DOMAIN audit
  BY <1>1
<1>4. LockEvents(k)' = LockEvents(k)
  BY <1>2, <1>3 DEF LockEvents, IsLockEvent, keyOf
<1>5. \A i \in LockEvents(k) : audit'[i] = audit[i]
  BY <1>2 DEF LockEvents
<1> QED
  BY <1>4, <1>5 DEF AcquireEvents

LEMMA LockEventAdded ==
  ASSUME NEW m, Appends(m), NEW k, NEW j \in 1 .. m,
         \A i \in 1 .. m : IsLockEvent(audit'[Len(audit) + i], k) <=> i = j
  PROVE  LET n == Len(audit) + j
         IN  /\ n \in DOMAIN audit' \ DOMAIN audit /\ n \in Nat
             /\ \A i \in LockEvents(k) : i \in Nat /\ i < n /\ audit'[i] = audit[i]
             /\ LockEvents(k)' = LockEvents(k) \cup {n}
<1> DEFINE n == Len(audit) + j
<1>1. \A i \in DOMAIN audit' :
        i \in DOMAIN audit
          \/ (i - Len(audit) \in 1 .. m /\ i = Len(audit) + (i - Len(audit)))
  BY DEF Appends
<1>2. DOMAIN audit \subseteq DOMAIN audit' /\ \A i \in DOMAIN audit : audit'[i] = audit[i]
  BY DEF Appends
<1>3. /\ n \in DOMAIN audit' \ DOMAIN audit /\ n \in Nat
      /\ \A i \in DOMAIN audit : i \in Nat /\ i < n
  BY DEF Appends
<1>4. IsLockEvent(audit'[n], k)
  OBVIOUS
<1>5. \A i \in DOMAIN audit' : IsLockEvent(audit'[i], k) => i \in DOMAIN audit \/ i = n
  BY <1>1
<1> HIDE DEF n
<1>6. LockEvents(k)' = LockEvents(k) \cup {n}
  BY <1>2, <1>3, <1>4, <1>5 DEF LockEvents, IsLockEvent, keyOf
<1>7. \A i \in LockEvents(k) : i \in Nat /\ i < n /\ audit'[i] = audit[i]
  BY <1>2, <1>3 DEF LockEvents
<1> QED
  BY <1>3, <1>6, <1>7 DEF n

LEMMA AcquireEventAdded ==
  ASSUME NEW k, NEW n, LockEvents(k)' = LockEvents(k) \cup {n},
         \A i \in LockEvents(k) : audit'[i] = audit[i]
  PROVE  AcquireEvents(k)' = IF audit'[n].type = "lock.acquired"
                             THEN AcquireEvents(k) \cup {n} ELSE AcquireEvents(k)
BY DEF AcquireEvents
-----------------------------------------------------------------------------
(* The log is legal.  An event stays legal when others follow; a new one   *)
(* is legal if it may follow the last one of its document.                 *)

Follows(e, k) ==
  IF LockEvents(k) = {} THEN e.type = "lock.acquired"
  ELSE mayFollow(e, audit[last(LockEvents(k))])

LEMMA LegalStays ==
  ASSUME TypeOK, NEW m, Appends(m), NEW i \in DOMAIN audit, legal(i)
  PROVE  legal(i)'
<1> DEFINE k == keyOf(audit[i])
           B == {j \in LockEvents(k) : j < i}
<1>1. /\ audit'[i] = audit[i] /\ i \in Nat
      /\ \A j \in DOMAIN audit' : j < i => j \in DOMAIN audit
      /\ \A j \in DOMAIN audit : j \in DOMAIN audit' /\ audit'[j] = audit[j]
  BY DEF Appends
<1>2. {j \in {h \in DOMAIN audit' : audit'[h].type \in LockEventType
                                      /\ keyOf(audit'[h]) = keyOf(audit'[i])} : j < i} = B
  BY <1>1 DEF LockEvents, keyOf
<1>5. B # {} => audit'[last(B)] = audit[last(B)]
  <2> SUFFICES ASSUME B # {}
               PROVE  audit'[last(B)] = audit[last(B)]
    OBVIOUS
  <2>1. B \subseteq 1 .. Len(audit) /\ B \subseteq DOMAIN audit /\ Len(audit) \in Nat
    BY LockEventsRange
  <2> HIDE DEF B
  <2>2. last(B) \in B
    BY <2>1, LastIsLast
  <2> QED
    BY <1>1, <2>1, <2>2
<1>6. IF B = {} THEN audit[i].type = "lock.acquired" ELSE mayFollow(audit[i], audit[last(B)])
  BY DEF legal
<1> HIDE DEF B, k
<1>7. IF B = {} THEN audit'[i].type = "lock.acquired"
                ELSE mayFollow(audit'[i], audit'[last(B)])
  BY <1>1, <1>5, <1>6
<1> QED
  BY <1>2, <1>7 DEF legal, LockEvents, keyOf

LEMMA NewIsLegal ==
  ASSUME TypeOK, NEW k, NEW n \in Nat,
         \A i \in LockEvents(k) : i \in Nat /\ i < n /\ audit'[i] = audit[i],
         LockEvents(k)' = LockEvents(k) \cup {n},
         keyOf(audit'[n]) = k, Follows(audit'[n], k)
  PROVE  legal(n)'
<1>1. {j \in LockEvents(k)' : j < n} = LockEvents(k)
  OBVIOUS
<1>2. {j \in {h \in DOMAIN audit' : audit'[h].type \in LockEventType
                                      /\ keyOf(audit'[h]) = keyOf(audit'[n])} : j < n}
        = LockEvents(k)
  BY <1>1 DEF LockEvents, keyOf
<1>3. LockEvents(k) # {} => audit'[last(LockEvents(k))] = audit[last(LockEvents(k))]
  BY LastEvents
<1>4. IF LockEvents(k) = {} THEN audit'[n].type = "lock.acquired"
                            ELSE mayFollow(audit'[n], audit'[last(LockEvents(k))])
  BY <1>3 DEF Follows
<1> QED
  BY <1>2, <1>4 DEF legal, LockEvents, keyOf
-----------------------------------------------------------------------------
(* The story of the leases.  What the log and the table say of one         *)
(* document: an entry of the table is explained by the log, it is of a     *)
(* lease that was acquired, and it is filed under the key of its document; *)
(* where there is no entry, the last lease may be over.                    *)

Story(k) ==
  IF k \in DOMAIN locks
  THEN /\ explained(k)
       /\ AcquireEvents(k) # {}
       /\ documentKey(collectionIDFromKey(k), locks[k].document) = k
  ELSE over(k)

GrantsTimed == \A i \in DOMAIN audit : grants(audit[i]) => audit[i].details.ttl \in Nat

LeaseStory ==
  /\ Leasable
  /\ GrantsTimed
  /\ LeaseLogIsLegal
  /\ \A k \in leasable : Story(k)

LEMMA StoryMatches ==
  ASSUME LeaseStory
  PROVE  LockTableMatchesLog
BY DEF LeaseStory, Story, LockTableMatchesLog

(* A number of seconds and a fraction.                                     *)
LEMMA EndsType ==
  ASSUME NEW e, e.at \in Nat, e.details.ttl \in Nat
  PROVE  ends(e) \subseteq Nat
<1> DEFINE told == e.at + e.details.ttl * Second
<1>1. Second \in Nat \ {0}
  BY TTLAssumption
<1>2. e.details.ttl * Second \in Nat
  BY <1>1
<1>3. told \in Nat /\ fraction \in Nat
  BY <1>1, <1>2 DEF fraction
<1> HIDE DEF told
<1>4. told .. told + fraction \subseteq Nat
  BY <1>3
<1> QED
  BY <1>4 DEF ends, told

LEMMA WholeSeconds ==
  ASSUME NEW d \in Nat \ {0}, NEW n \in Nat
  PROVE  /\ n % d \in 0 .. d - 1
         /\ n = ((n \div d) * d) + (n % d)
         /\ n \div d \in Nat /\ (n \div d) * d \in Nat
OBVIOUS

(* The end of a lease is one of those its grant tells.                     *)
LEMMA TermTold ==
  ASSUME TypeOK, NEW req \in AcquireRequests \cup RenewRequests,
         NEW e, e.at = clock, e.details.ttl = seconds(NormalizeTTL(req.ttl))
  PROVE  /\ clock + NormalizeTTL(req.ttl) \in ends(e)
         /\ e.details.ttl \in Nat
<1> DEFINE ttl == NormalizeTTL(req.ttl)
           rest == ttl % Second
           whole == (ttl \div Second) * Second
<1>1. Second \in Nat \ {0} /\ clock \in Nat
  BY TTLAssumption DEF TypeOK
<1>2. ttl \in Nat
  <2>1. req.ttl \in Int
    BY LockRequestAssumption DEF LeaseRequest
  <2> QED
    BY <2>1, TTLType
<1>3. /\ rest \in 0 .. Second - 1 /\ ttl = whole + rest /\ whole \in Nat
      /\ ttl \div Second \in Nat
  <2> HIDE DEF ttl
  <2> QED
    BY <1>1, <1>2, WholeSeconds
<1>4. fraction = Second - 1 \/ (fraction = 0 /\ rest = 0)
  BY DEF fraction
<1>5. e.details.ttl = ttl \div Second
  BY DEF seconds
<1>6. ends(e) = clock + whole .. clock + whole + fraction
  BY <1>5 DEF ends
<1> HIDE DEF ttl, rest, whole
<1>7. clock + ttl \in clock + whole .. clock + whole + fraction
  BY <1>1, <1>2, <1>3, <1>4
<1> QED
  BY <1>3, <1>5, <1>6, <1>7 DEF ttl

(* The times that the log tells.                                           *)
LEMMA GrantEnds ==
  ASSUME TypeOK, GrantsTimed, NEW k, LockEvents(k) # {}, grants(audit[last(LockEvents(k))])
  PROVE  ends(audit[last(LockEvents(k))]) \subseteq Nat
<1> DEFINE p == audit[last(LockEvents(k))]
<1>1. last(LockEvents(k)) \in DOMAIN audit
  BY LastEvents, LockEventsRange
<1>2. p.at \in Nat
  <2>1. audit \in Seq(AuditEvent)
    BY DEF TypeOK
  <2>2. p \in AuditEvent
    BY <1>1, <2>1
  <2> QED
    BY <2>2 DEF AuditEvent
<1>3. p.details.ttl \in Nat
  BY <1>1 DEF GrantsTimed
<1> HIDE DEF p
<1>4. ends(p) \subseteq Nat
  BY <1>2, <1>3, EndsType
<1> QED
  BY <1>4 DEF p

(* A lease that has run out is over, whether its entry is still there or   *)
(* not.                                                                    *)
LEMMA StaleIsOver ==
  ASSUME TypeOK, NEW k, Story(k), ~ active(k)
  PROVE  over(k)
<1>1. CASE k \in DOMAIN locks
  <2>1. locks[k].expiresAt <= clock
    <3>1. locks[k].expiresAt \in Nat
      BY <1>1 DEF TypeOK, IsMap, Lock
    <3> QED
      BY <1>1, <3>1 DEF active, present, IsExpired, TypeOK
  <2> QED
    BY <1>1, <2>1 DEF Story, explained, over
<1> QED
  BY <1>1 DEF Story

(* What a step may do to the entry of a document it logs nothing of.       *)
Quiet(k) ==
  /\ k \in DOMAIN locks' => k \in DOMAIN locks /\ locks'[k] = locks[k]
  /\ k \in DOMAIN locks \ DOMAIN locks' => IsExpired(locks[k], clock)

LEMMA StoryStays ==
  ASSUME TypeOK, TypeOK', GrantsTimed, NEW m, Appends(m), NEW k, Story(k), Quiet(k),
         \A i \in 1 .. m : ~ IsLockEvent(audit'[Len(audit) + i], k),
         clock <= clock'
  PROVE  Story(k)'
<1>1. /\ LockEvents(k)' = LockEvents(k)
      /\ AcquireEvents(k)' = AcquireEvents(k)
  BY LockEventsKept
<1>2. \A i \in DOMAIN audit : audit'[i] = audit[i]
  BY DEF Appends
<1>3. /\ LockEvents(k) # {} => last(LockEvents(k)) \in DOMAIN audit
      /\ AcquireEvents(k) # {} => last(AcquireEvents(k)) \in DOMAIN audit
  BY LastEvents, LockEventsRange
<1>4. /\ LockEvents(k) # {} =>
           audit'[last(LockEvents(k)')] = audit[last(LockEvents(k))]
      /\ AcquireEvents(k) # {} =>
           audit'[last(AcquireEvents(k)')] = audit[last(AcquireEvents(k))]
  BY <1>1, <1>2, <1>3
<1>5. CASE k \in DOMAIN locks'
  <2>1. k \in DOMAIN locks /\ locks'[k] = locks[k]
    BY <1>5 DEF Quiet
  <2>2. explained(k) /\ AcquireEvents(k) # {}
    BY <2>1 DEF Story
  <2>3. explained(k)'
    BY <1>1, <1>4, <2>1, <2>2 DEF explained, grants
  <2> QED
    BY <1>1, <1>5, <2>1, <2>2, <2>3 DEF Story
<1>6. CASE k \notin DOMAIN locks'
  <2>1. over(k)
    <3>1. ~ active(k)
      BY <1>6 DEF Quiet, active, present
    <3> QED
      BY <3>1, StaleIsOver
  <2>2. clock \in Nat /\ clock' \in Nat
    BY DEF TypeOK
  <2>3. CASE LockEvents(k) # {} /\ grants(audit[last(LockEvents(k))])
    <3>1. PICK end \in ends(audit[last(LockEvents(k))]) : end <= clock
      BY <2>1, <2>3 DEF over
    <3>2. end \in Nat
      BY <2>3, GrantEnds
    <3>3. end <= clock'
      BY <2>2, <3>1, <3>2
    <3>4. over(k)'
      BY <1>4, <2>3, <3>3 DEF over
    <3> QED
      BY <1>6, <3>4 DEF Story
  <2>4. CASE LockEvents(k) = {} \/ ~ grants(audit[last(LockEvents(k))])
    BY <1>1, <1>4, <1>6, <2>4 DEF over, grants, Story
  <2> QED
    BY <2>3, <2>4
<1> QED
  BY <1>5, <1>6

(* The story goes on.  A step that logs at most one lock event of each     *)
(* document, one that may follow the last, and keeps the story of that     *)
(* document, keeps the story of all.                                       *)
LEMMA StoryGoesOn ==
  ASSUME TypeOK, TypeOK', LeaseStory, Leasable', NEW m, Appends(m), clock <= clock',
         \A i \in 1 .. m : LET e == audit'[Len(audit) + i]
                           IN  grants(e) => e.details.ttl \in Nat,
         \A k : \A i, j \in 1 .. m :
           IsLockEvent(audit'[Len(audit) + i], k)
             /\ IsLockEvent(audit'[Len(audit) + j], k) => i = j,
         \A k : \A i \in 1 .. m :
           IsLockEvent(audit'[Len(audit) + i], k) =>
             Follows(audit'[Len(audit) + i], k) /\ Story(k)',
         \A k \in leasable :
           (\A i \in 1 .. m : ~ IsLockEvent(audit'[Len(audit) + i], k)) => Quiet(k)
  PROVE  LeaseStory'
<1>1. \A i \in DOMAIN audit' :
        i \in DOMAIN audit
          \/ (i - Len(audit) \in 1 .. m /\ i = Len(audit) + (i - Len(audit)))
  BY DEF Appends
<1>2. \A i \in DOMAIN audit : audit'[i] = audit[i]
  BY DEF Appends
<1>3. GrantsTimed'
  <2>1. \A i \in DOMAIN audit' : grants(audit'[i]) => audit'[i].details.ttl \in Nat
    BY <1>1, <1>2 DEF LeaseStory, GrantsTimed
  <2> QED
    BY <2>1 DEF GrantsTimed, grants
<1>4. ASSUME NEW n \in DOMAIN audit', audit'[n].type \in LockEventType
      PROVE  legal(n)'
  <2>1. CASE n \in DOMAIN audit
    BY <1>2, <1>4, <2>1, LegalStays DEF LeaseStory, LeaseLogIsLegal
  <2>2. CASE n - Len(audit) \in 1 .. m /\ n = Len(audit) + (n - Len(audit))
    <3> DEFINE j == n - Len(audit)
    <3>1. PICK k : k = keyOf(audit'[n])
      OBVIOUS
    <3>2. \A i \in 1 .. m : IsLockEvent(audit'[Len(audit) + i], k) <=> i = j
      BY <1>4, <2>2, <3>1 DEF IsLockEvent
    <3>3. /\ n \in Nat
          /\ \A i \in LockEvents(k) : i \in Nat /\ i < n /\ audit'[i] = audit[i]
          /\ LockEvents(k)' = LockEvents(k) \cup {n}
      <4>1. j \in 1 .. m /\ n = Len(audit) + j
        BY <2>2
      <4> HIDE DEF j
      <4> QED
        BY <3>2, <4>1, LockEventAdded
    <3>4. Follows(audit'[n], k)
      BY <2>2, <3>2
    <3> QED
      BY <3>1, <3>3, <3>4, NewIsLegal
  <2> QED
    BY <1>1, <2>1, <2>2
<1>5. LeaseLogIsLegal'
  BY <1>4 DEF LeaseLogIsLegal
<1>6. ASSUME NEW k \in leasable
      PROVE  Story(k)'
  <2>1. CASE \A i \in 1 .. m : ~ IsLockEvent(audit'[Len(audit) + i], k)
    BY <2>1, StoryStays DEF LeaseStory
  <2> QED
    BY <2>1
<1> QED
  BY <1>3, <1>5, <1>6 DEF LeaseStory
-----------------------------------------------------------------------------
(* The steps that log nothing of a lock.                                   *)

LEMMA NothingAppended ==
  ASSUME TypeOK, audit' = audit
  PROVE  Appends(0)
<1>1. audit \in Seq(AuditEvent)
  BY DEF TypeOK
<1> QED
  BY <1>1 DEF Appends

LEMMA SweepIsQuiet ==
  ASSUME locks' = locks \/ Sweeps, NEW k
  PROVE  Quiet(k)
<1>1. CASE locks' = locks
  BY <1>1 DEF Quiet
<1>2. CASE Sweeps
  <2> PICK S : /\ \A x \in S \cap DOMAIN locks : IsExpired(locks[x], clock)
               /\ locks' = Delete(locks, S)
    BY <1>2 DEF Sweeps
  <2>1. /\ DOMAIN locks' = DOMAIN locks \ S
        /\ \A x \in DOMAIN locks \ S : locks'[x] = locks[x]
    BY DEF Delete, Restrict
  <2> QED
    BY <2>1 DEF Quiet
<1> QED
  BY <1>1, <1>2

LEMMA OtherEventsGoOn ==
  ASSUME TypeOK, TypeOK', LeaseStory, Leasable', NEW m, Appends(m), clock <= clock',
         locks' = locks \/ Sweeps,
         \A i \in 1 .. m : audit'[Len(audit) + i].type \notin LockEventType
  PROVE  LeaseStory'
<1>1. \A i \in 1 .. m : ~ grants(audit'[Len(audit) + i])
  BY DEF grants, LockEventType
<1>2. \A k : \A i \in 1 .. m : ~ IsLockEvent(audit'[Len(audit) + i], k)
  BY DEF IsLockEvent
<1>3. \A k : Quiet(k)
  BY SweepIsQuiet
<1> QED
  BY <1>1, <1>2, <1>3, StoryGoesOn

LEMMA OtherEventGoesOn ==
  ASSUME TypeOK, TypeOK', LeaseStory, Leasable', NEW event, appendAudit(<<event>>),
         event.type \notin LockEventType, UNCHANGED <<locks, clock>>
  PROVE  LeaseStory'
<1>1. Appends(1) /\ SameEvent(audit'[Len(audit) + 1], event)
  BY OneLogged
<1>2. \A i \in 1 .. 1 : audit'[Len(audit) + i].type \notin LockEventType
  BY <1>1 DEF SameEvent
<1>3. clock <= clock'
  BY DEF TypeOK
<1> QED
  BY <1>1, <1>2, <1>3, OtherEventsGoOn

LEMMA BatchGoesOn ==
  ASSUME TypeOK, TypeOK', LeaseStory, Leasable', NEW req \in BatchRequests,
         applyBatch(req)
  PROVE  LeaseStory'
<1> DEFINE n == Len(req.items)
<1>1. /\ n \in Nat /\ Appends(n + 1)
      /\ \A i \in 1 .. n : SameEvent(audit'[Len(audit) + i],
                                     updatedEvent(req, req.items[i], NoKey, TRUE))
      /\ SameEvent(audit'[Len(audit) + (n + 1)],
                   Event("document.batch_applied", req.actor, req.collection,
                         NoID, req.key, [items |-> n]))
  BY BatchLogged
<1>2. \A i \in 1 .. n : audit'[Len(audit) + i].type \notin LockEventType
  BY <1>1 DEF SameEvent, updatedEvent, Event, LockEventType
<1>3. audit'[Len(audit) + (n + 1)].type \notin LockEventType
  BY <1>1 DEF SameEvent, Event, LockEventType
<1>4. \A i \in 1 .. n + 1 : i \in 1 .. n \/ i = n + 1
  BY <1>1
<1>5. \A i \in 1 .. n + 1 : audit'[Len(audit) + i].type \notin LockEventType
  BY <1>2, <1>3, <1>4
<1>6. UNCHANGED <<locks, clock>> /\ clock <= clock'
  BY DEF applyBatch, TypeOK
<1> HIDE DEF n
<1> QED
  BY <1>1, <1>5, <1>6, OtherEventsGoOn

LEMMA QuietStepsGoOn ==
  ASSUME TypeOK, TypeOK', LeaseStory, Leasable',
         Silent \/ Declines \/ Registers \/ Creates \/ Updates \/ Rejects \/ Batches
  PROVE  LeaseStory'
<1>1. CASE Silent \/ Declines
  <2>1. audit' = audit /\ clock' \in {clock, clock + 1} /\ (locks' = locks \/ Sweeps)
    BY <1>1 DEF Silent, Declines, stored
  <2>2. Appends(0) /\ clock <= clock'
    BY <2>1, NothingAppended DEF TypeOK
  <2> QED
    BY <2>1, <2>2, OtherEventsGoOn
<1>2. CASE Registers
  <2> PICK req \in RegisterRequests, id \in ID : registerNew(req, id)
    BY <1>2 DEF Registers
  <2> DEFINE event == Event("collection.created", req.actor, id, NoID, req.key,
                            [name |-> req.name, description |-> req.description])
  <2>1. appendAudit(<<event>>) /\ UNCHANGED <<locks, clock>>
    BY DEF registerNew
  <2>2. event.type \notin LockEventType
    BY DEF Event, LockEventType
  <2> HIDE DEF event
  <2> QED
    BY <2>1, <2>2, OtherEventGoesOn
<1>3. CASE Creates
  <2> PICK req \in CreateRequests, id \in ID : insert(req, id)
    BY <1>3 DEF Creates
  <2> DEFINE event == Event("document.created", req.actor, req.collection, id,
                            req.key, [version |-> 1])
  <2>1. appendAudit(<<event>>) /\ UNCHANGED <<locks, clock>>
    BY DEF insert
  <2>2. event.type \notin LockEventType
    BY DEF Event, LockEventType
  <2> HIDE DEF event
  <2> QED
    BY <2>1, <2>2, OtherEventGoesOn
<1>4. CASE Updates
  <2> PICK req \in UpdateRequests : update(req)
    BY <1>4 DEF Updates
  <2> DEFINE event == updatedEvent(req, req, req.key, FALSE)
  <2>1. appendAudit(<<event>>) /\ UNCHANGED <<locks, clock>>
    BY DEF update
  <2>2. event.type \notin LockEventType
    BY DEF updatedEvent, Event, LockEventType
  <2> HIDE DEF event
  <2> QED
    BY <2>1, <2>2, OtherEventGoesOn
<1>5. CASE Rejects
  <2> PICK req \in BatchRequests : rejectBatch(req)
    BY <1>5 DEF Rejects
  <2> DEFINE event == Event("document.batch_rejected", req.actor, req.collection, NoID,
                            req.key, [items |-> Len(req.items),
                                      failures |-> Cardinality(failing(req))])
  <2>1. appendAudit(<<event>>) /\ UNCHANGED <<locks, clock>>
    BY DEF rejectBatch
  <2>2. event.type \notin LockEventType
    BY DEF Event, LockEventType
  <2> HIDE DEF event
  <2> QED
    BY <2>1, <2>2, OtherEventGoesOn
<1>6. CASE Batches
  BY <1>6, BatchGoesOn DEF Batches
<1> QED
  BY <1>1, <1>2, <1>3, <1>4, <1>5, <1>6
-----------------------------------------------------------------------------
(* The steps that log one event of one lock.  key(req) is the key of its   *)
(* document, and n the index of the event.                                 *)

LEMMA LockEventGoesOn ==
  ASSUME TypeOK, TypeOK', LeaseStory, Leasable', clock' = clock,
         NEW type \in LockEventType, NEW req, NEW details,
         appendAudit(<<lockEvent(type, req, details)>>),
         type \in {"lock.acquired", "lock.renewed"} => details.ttl \in Nat,
         NEW k, k = key(req),
         Follows(lockEvent(type, req, details), k), Story(k)',
         \A x \in leasable \ {k} : Quiet(x)
  PROVE  LeaseStory'
<1> DEFINE e == audit'[Len(audit) + 1]
<1>1. Appends(1) /\ SameEvent(e, lockEvent(type, req, details))
  BY OneLogged
<1>2. /\ e.type = type /\ e.at = clock /\ e.details = details
      /\ e.collection = req.collection /\ e.document = req.document
  BY <1>1 DEF SameEvent, lockEvent, Event
<1>3. keyOf(e) = k
  BY <1>2 DEF keyOf, key
<1>4. Follows(e, k)
  BY <1>2 DEF Follows, mayFollow, grants, lockEvent, Event
<1>5. grants(e) => e.details.ttl \in Nat
  BY <1>2 DEF grants
<1>6. \A x : \A i \in 1 .. 1 : IsLockEvent(audit'[Len(audit) + i], x) <=> x = k
  BY <1>2, <1>3 DEF IsLockEvent
<1>7. clock <= clock'
  BY DEF TypeOK
<1>8. /\ \A i \in 1 .. 1 : LET f == audit'[Len(audit) + i]
                           IN  grants(f) => f.details.ttl \in Nat
      /\ \A x : \A i, j \in 1 .. 1 :
           IsLockEvent(audit'[Len(audit) + i], x)
             /\ IsLockEvent(audit'[Len(audit) + j], x) => i = j
      /\ \A x : \A i \in 1 .. 1 :
           IsLockEvent(audit'[Len(audit) + i], x) =>
             Follows(audit'[Len(audit) + i], x) /\ Story(x)'
      /\ \A x \in leasable :
           (\A i \in 1 .. 1 : ~ IsLockEvent(audit'[Len(audit) + i], x)) => Quiet(x)
  BY <1>4, <1>5, <1>6
<1> QED
  BY <1>1, <1>7, <1>8, StoryGoesOn

(* What one lock event adds to the lock events of its document.            *)
LEMMA LockEventTold ==
  ASSUME TypeOK, TypeOK', NEW type \in LockEventType, NEW req, NEW details,
         appendAudit(<<lockEvent(type, req, details)>>), NEW k, k = key(req)
  PROVE  LET n == Len(audit) + 1
         IN  /\ n \in Nat
             /\ audit'[n].type = type /\ audit'[n].at = clock
             /\ audit'[n].details = details /\ audit'[n].document = req.document
             /\ LockEvents(k)' = LockEvents(k) \cup {n}
             /\ AcquireEvents(k)' = IF type = "lock.acquired"
                                    THEN AcquireEvents(k) \cup {n} ELSE AcquireEvents(k)
             /\ \A i \in LockEvents(k) : i \in Nat /\ i < n /\ audit'[i] = audit[i]
             /\ last(LockEvents(k) \cup {n}) = n
             /\ last(AcquireEvents(k) \cup {n}) = n
<1>1. PICK n : n = Len(audit) + 1
  OBVIOUS
<1>2. Appends(1) /\ SameEvent(audit'[n], lockEvent(type, req, details))
  BY <1>1, OneLogged
<1>3. /\ audit'[n].type = type /\ audit'[n].at = clock /\ audit'[n].details = details
      /\ audit'[n].collection = req.collection /\ audit'[n].document = req.document
  BY <1>2 DEF SameEvent, lockEvent, Event
<1>4. /\ n \in Nat
      /\ \A i \in LockEvents(k) : i \in Nat /\ i < n /\ audit'[i] = audit[i]
      /\ LockEvents(k)' = LockEvents(k) \cup {n}
  <2>1. \A i \in 1 .. 1 : IsLockEvent(audit'[Len(audit) + i], k) <=> i = 1
    BY <1>1, <1>3 DEF IsLockEvent, keyOf, key
  <2>2. LockEvents(k)' = LockEvents(k) \cup {Len(audit) + 1}
    BY <1>2, <2>1, LockEventAdded
  <2>3. \A i \in LockEvents(k) : i \in Nat /\ i < Len(audit) + 1 /\ audit'[i] = audit[i]
    BY <1>2, <2>1, LockEventAdded
  <2> QED
    BY <1>1, <1>2, <2>2, <2>3 DEF Appends
<1>5. AcquireEvents(k) \subseteq LockEvents(k)
  BY LockEventsRange
<1>6. last(LockEvents(k) \cup {n}) = n /\ last(AcquireEvents(k) \cup {n}) = n
  <2>1. LockEvents(k) \in SUBSET Nat /\ \A i \in LockEvents(k) : i < n
    BY <1>4
  <2>2. AcquireEvents(k) \in SUBSET Nat /\ \A i \in AcquireEvents(k) : i < n
    BY <2>1, <1>5
  <2> QED
    BY <1>4, <2>1, <2>2, LastAdded
<1>7. AcquireEvents(k)' = IF type = "lock.acquired"
                         THEN AcquireEvents(k) \cup {n} ELSE AcquireEvents(k)
  BY <1>3, <1>4, AcquireEventAdded
<1> QED
  BY <1>1, <1>3, <1>4, <1>6, <1>7

LEMMA PutLock ==
  ASSUME NEW k, NEW lock, locks' = Put(locks, k, lock)
  PROVE  /\ k \in DOMAIN locks' /\ locks'[k] = lock
         /\ \A x \in leasable \ {k} : Quiet(x)
BY DEF Put, Quiet

LEMMA AcquireGoesOn ==
  ASSUME TypeOK, TypeOK', CollectionsAreSlashFree, LeaseStory, Leasable', Acquires
  PROVE  LeaseStory'
<1> PICK req \in AcquireRequests :
      /\ lookupError(req.collection, req.document) = "none"
      /\ ~ active(key(req))
      /\ grant(req, key(req))
  BY DEF Acquires
<1>1. PICK k : k = key(req)
  OBVIOUS
<1> DEFINE ttl == NormalizeTTL(req.ttl)
           lock == [document |-> req.document, holder |-> req.holder,
                    acquiredAt |-> clock, expiresAt |-> clock + ttl, renewCount |-> 0]
           details == [ttl |-> seconds(ttl), holder |-> req.holder]
           event == lockEvent("lock.acquired", req, details)
<1>2. /\ locks' = Put(locks, k, lock)
      /\ appendAudit(<<event>>)
      /\ clock' = clock
  BY <1>1 DEF grant
<1>3. /\ event.type = "lock.acquired" /\ event.at = clock
      /\ details.ttl = seconds(ttl) /\ details.holder = req.holder
      /\ lock.document = req.document /\ lock.holder = req.holder
      /\ lock.acquiredAt = clock /\ lock.expiresAt = clock + ttl
      /\ lock.renewCount = 0
  BY DEF lockEvent, Event
<1>4. k \in leasable /\ Story(k)
  BY <1>1 DEF leasable, key, LeaseStory
<1>5. documentKey(collectionIDFromKey(k), req.document) = k
  <2>1. req.document \in ID
    BY LockRequestAssumption DEF LeaseRequest
  <2>2. req.collection \in DOMAIN collections
    BY LookupFinds DEF collectionExists
  <2>3. collectionIDFromKey(k) = req.collection
    BY <1>1, <2>1, <2>2, KeyOfCollection DEF key
  <2> QED
    BY <1>1, <2>3 DEF key
<1>6. Follows(event, k)
  <2>1. over(k)
    BY <1>1, <1>4, StaleIsOver
  <2>2. event.type # "lock.reaped" /\ event.type \notin {"lock.renewed", "lock.released"}
    BY <1>3
  <2> HIDE DEF event
  <2> QED
    BY <1>3, <2>1, <2>2 DEF over, Follows, mayFollow
<1> HIDE DEF lock
<1>7. /\ k \in DOMAIN locks' /\ locks'[k] = lock
      /\ \A x \in leasable \ {k} : Quiet(x)
  BY <1>2, PutLock
<1>8. "lock.acquired" \in LockEventType /\ appendAudit(<<lockEvent("lock.acquired", req, details)>>)
  BY <1>2 DEF LockEventType
<1> HIDE DEF details
<1>9. Story(k)' /\ details.ttl \in Nat
  <2>1. PICK n : n = Len(audit) + 1
    OBVIOUS
  <2>2. /\ n \in Nat
        /\ audit'[n].type = "lock.acquired" /\ audit'[n].at = clock
        /\ audit'[n].details = details /\ audit'[n].document = req.document
        /\ LockEvents(k)' = LockEvents(k) \cup {n}
        /\ AcquireEvents(k)' = AcquireEvents(k) \cup {n}
        /\ \A i \in LockEvents(k) : i \in Nat /\ i < n
        /\ last(LockEvents(k) \cup {n}) = n
        /\ last(AcquireEvents(k) \cup {n}) = n
    BY <1>1, <1>8, <2>1, LockEventTold
  <2>3. clock + ttl \in ends(audit'[n]) /\ audit'[n].details.ttl \in Nat
    BY <1>3, <2>2, TermTold
  <2>4. {j \in LockEvents(k) \cup {n} : j > n} = {}
    BY <2>2
  <2>5. Cardinality({j \in LockEvents(k) \cup {n} : j > n}) = 0
    BY <2>4, FS_EmptySet
  <2> HIDE DEF ttl
  <2>6. explained(k)'
    BY <1>3, <1>7, <2>2, <2>3, <2>5 DEF explained, grants
  <2>7. AcquireEvents(k)' # {}
    BY <2>2
  <2>8. documentKey(collectionIDFromKey(k), locks'[k].document) = k
    BY <1>3, <1>5, <1>7
  <2> QED
    BY <1>7, <2>2, <2>3, <2>6, <2>7, <2>8 DEF Story
<1> QED
  BY <1>1, <1>2, <1>6, <1>7, <1>8, <1>9, LockEventGoesOn

LEMMA RenewalGoesOn ==
  ASSUME TypeOK, TypeOK', CollectionsAreSlashFree, LeaseStory, Leasable', Prolongs
  PROVE  LeaseStory'
<1> PICK req \in AcquireRequests \cup RenewRequests :
      /\ lookupError(req.collection, req.document) = "none"
      /\ active(key(req))
      /\ renew(req, key(req))
  BY DEF Prolongs
<1>1. PICK k : k = key(req)
  OBVIOUS
<1> DEFINE ttl == NormalizeTTL(req.ttl)
           old == locks[k]
           lock == [old EXCEPT !.expiresAt = clock + ttl, !.renewCount = @ + 1]
           details == [ttl |-> seconds(ttl), renewCount |-> lock.renewCount]
           event == lockEvent("lock.renewed", req, details)
<1>2. /\ locks' = Put(locks, k, lock)
      /\ appendAudit(<<event>>)
      /\ clock' = clock
  BY <1>1 DEF renew
<1>3. k \in DOMAIN locks /\ old \in Lock /\ clock < old.expiresAt
  BY <1>1 DEF active, present, IsExpired, TypeOK, IsMap, Lock
<1>4. /\ event.type = "lock.renewed" /\ event.at = clock
      /\ details.ttl = seconds(ttl)
      /\ lock.document = old.document /\ lock.holder = old.holder
      /\ lock.acquiredAt = old.acquiredAt /\ lock.expiresAt = clock + ttl
      /\ lock.renewCount = old.renewCount + 1
  BY <1>3 DEF lockEvent, Event, Lock
<1>5. k \in leasable /\ Story(k) /\ explained(k) /\ AcquireEvents(k) # {}
  BY <1>3 DEF Leasable, LeaseStory, Story
<1>6. old.document = req.document /\ documentKey(collectionIDFromKey(k), old.document) = k
  <2>1. req.document \in ID /\ old.document \in ID
    BY <1>3, LockRequestAssumption DEF LeaseRequest, Lock
  <2>2. req.collection \in DOMAIN collections
    BY LookupFinds DEF collectionExists
  <2>3. collectionIDFromKey(k) = req.collection /\ req.collection \in ID
    BY <1>1, <2>1, <2>2, KeyOfCollection DEF key, TypeOK, IsMap
  <2>4. documentKey(collectionIDFromKey(k), old.document) = k
    BY <1>3, <1>5 DEF Story
  <2>5. documentKey(req.collection, old.document) = documentKey(req.collection, req.document)
    BY <1>1, <2>3, <2>4 DEF key
  <2> QED
    BY <2>1, <2>3, <2>4, <2>5, KeyDeterminesDocument
<1>7. Follows(event, k)
  <2>1. /\ LockEvents(k) # {} /\ grants(audit[last(LockEvents(k))])
        /\ old.expiresAt \in ends(audit[last(LockEvents(k))])
    BY <1>5 DEF explained
  <2>2. event.type # "lock.reaped" /\ event.type # "lock.acquired"
    BY <1>4
  <2>3. event.at < old.expiresAt
    BY <1>3, <1>4
  <2> HIDE DEF event, old
  <2> QED
    BY <2>1, <2>2, <2>3 DEF Follows, mayFollow
<1> HIDE DEF lock
<1>8. /\ k \in DOMAIN locks' /\ locks'[k] = lock
      /\ \A x \in leasable \ {k} : Quiet(x)
  BY <1>2, PutLock
<1>9. "lock.renewed" \in LockEventType /\ appendAudit(<<lockEvent("lock.renewed", req, details)>>)
  BY <1>2 DEF LockEventType
<1> HIDE DEF details
<1>10. Story(k)' /\ details.ttl \in Nat
  <2>1. PICK n : n = Len(audit) + 1
    OBVIOUS
  <2>2. /\ n \in Nat
        /\ audit'[n].type = "lock.renewed" /\ audit'[n].at = clock
        /\ audit'[n].details = details /\ audit'[n].document = req.document
        /\ LockEvents(k)' = LockEvents(k) \cup {n}
        /\ AcquireEvents(k)' = AcquireEvents(k)
        /\ \A i \in LockEvents(k) : i \in Nat /\ i < n /\ audit'[i] = audit[i]
        /\ last(LockEvents(k) \cup {n}) = n
    BY <1>1, <1>9, <2>1, LockEventTold
  <2>3. clock + ttl \in ends(audit'[n]) /\ audit'[n].details.ttl \in Nat
    BY <1>4, <2>2, TermTold
  <2>4. PICK start : start = last(AcquireEvents(k))
    OBVIOUS
  <2>5. start \in LockEvents(k) /\ audit'[start] = audit[start]
    BY <1>5, <2>2, <2>4, LastEvents, LockEventsRange
  <2>6. /\ old.holder = audit[start].details.holder
        /\ old.acquiredAt = audit[start].at
        /\ old.renewCount = Cardinality({j \in LockEvents(k) : j > start})
    BY <1>5, <2>4 DEF explained
  <2>7. Cardinality({j \in LockEvents(k) \cup {n} : j > start}) = old.renewCount + 1
    <3> DEFINE S == {j \in LockEvents(k) : j > start}
    <3>1. IsFiniteSet(S)
      <4>1. S \subseteq 1 .. Len(audit) /\ Len(audit) \in Nat
        BY LockEventsRange
      <4>2. IsFiniteSet(1 .. Len(audit))
        BY <4>1, FS_Interval
      <4> QED
        BY <4>1, <4>2, FS_Subset
    <3>2. n \notin S /\ {j \in LockEvents(k) \cup {n} : j > start} = S \cup {n}
      BY <2>2, <2>5
    <3>3. Cardinality(S) = old.renewCount
      BY <2>6
    <3> HIDE DEF S
    <3> QED
      BY <3>1, <3>2, <3>3, FS_AddElement
  <2> HIDE DEF ttl, old
  <2>8. explained(k)'
    BY <1>4, <1>6, <1>8, <2>2, <2>3, <2>4, <2>5, <2>6, <2>7 DEF explained, grants
  <2>9. documentKey(collectionIDFromKey(k), locks'[k].document) = k
    BY <1>4, <1>6, <1>8
  <2> QED
    BY <1>5, <1>8, <2>2, <2>3, <2>8, <2>9 DEF Story
<1> QED
  BY <1>1, <1>2, <1>7, <1>8, <1>9, <1>10, LockEventGoesOn

LEMMA DeleteLocks ==
  ASSUME NEW S, locks' = Delete(locks, S)
  PROVE  /\ \A k \in S : k \notin DOMAIN locks'
         /\ \A k : k \notin S => Quiet(k)
BY DEF Delete, Restrict, Quiet

LEMMA ReleaseGoesOn ==
  ASSUME TypeOK, TypeOK', LeaseStory, Leasable', GivesUp
  PROVE  LeaseStory'
<1> PICK req \in ReleaseRequests : active(key(req)) /\ release(req, key(req))
  BY DEF GivesUp
<1>1. PICK k : k = key(req)
  OBVIOUS
<1> DEFINE old == locks[k]
           details == [holder |-> old.holder, renewCount |-> old.renewCount]
           event == lockEvent("lock.released", req, details)
<1>2. /\ locks' = Delete(locks, {k})
      /\ appendAudit(<<event>>)
      /\ clock' = clock
  BY <1>1 DEF release
<1>3. k \in DOMAIN locks /\ clock < old.expiresAt
  BY <1>1 DEF active, present, IsExpired, TypeOK, IsMap, Lock
<1>4. event.type = "lock.released" /\ event.at = clock
  BY DEF lockEvent, Event
<1>5. k \in leasable /\ explained(k)
  BY <1>3 DEF Leasable, LeaseStory, Story
<1>6. Follows(event, k)
  <2>1. /\ LockEvents(k) # {} /\ grants(audit[last(LockEvents(k))])
        /\ old.expiresAt \in ends(audit[last(LockEvents(k))])
    BY <1>5 DEF explained
  <2>2. event.type # "lock.reaped" /\ event.type # "lock.acquired"
    BY <1>4
  <2>3. event.at < old.expiresAt
    BY <1>3, <1>4
  <2> HIDE DEF event, old
  <2> QED
    BY <2>1, <2>2, <2>3 DEF Follows, mayFollow
<1>7. k \notin DOMAIN locks' /\ \A x \in leasable \ {k} : Quiet(x)
  BY <1>2, DeleteLocks
<1>8. "lock.released" \in LockEventType /\ appendAudit(<<lockEvent("lock.released", req, details)>>)
  BY <1>2 DEF LockEventType
<1> HIDE DEF details
<1>9. Story(k)'
  <2>1. PICK n : n = Len(audit) + 1
    OBVIOUS
  <2>2. /\ audit'[n].type = "lock.released"
        /\ LockEvents(k)' = LockEvents(k) \cup {n}
        /\ last(LockEvents(k) \cup {n}) = n
    BY <1>1, <1>8, <2>1, LockEventTold
  <2>3. over(k)'
    BY <2>2 DEF over, grants
  <2> QED
    BY <1>7, <2>3 DEF Story
<1> QED
  BY <1>1, <1>2, <1>6, <1>7, <1>8, <1>9, LockEventGoesOn

LEMMA ReapGoesOn ==
  ASSUME TypeOK, TypeOK', LeaseStory, Leasable', reapAll
  PROVE  LeaseStory'
<1>1. locks' = Delete(locks, expired) /\ clock' = clock /\ clock <= clock'
  BY DEF reapAll, TypeOK
<1>2. PICK m, order : LogsReaped(m, order)
  BY ReapLogged
<1>3. PICK old : old = Len(audit) /\ old \in Nat
  BY <1>2 DEF LogsReaped, Appends
<1>4. /\ \A k \in expired : k \notin DOMAIN locks'
      /\ \A k : k \notin expired => Quiet(k)
  BY <1>1, DeleteLocks
<1>5. ASSUME NEW k \in expired
      PROVE  /\ k \in DOMAIN locks /\ locks[k].expiresAt <= clock /\ explained(k)
             /\ documentKey(collectionIDFromKey(k), locks[k].document) = k
  <2>1. k \in DOMAIN locks /\ locks[k].expiresAt \in Nat
    BY DEF expired, TypeOK, IsMap, Lock
  <2> QED
    BY <2>1 DEF expired, IsExpired, TypeOK, LeaseStory, Leasable, Story
<1>6. ASSUME NEW i \in 1 .. m
      PROVE  LET e == audit'[old + i]
                 k == order[i]
             IN  /\ k \in expired
                 /\ e.type = "lock.reaped" /\ e.at = clock /\ keyOf(e) = k
                 /\ e.details.expiredAt = seconds(locks[k].expiresAt)
  <2>1. PICK k : k = order[i] /\ k \in expired
    BY <1>2 DEF LogsReaped
  <2>2. SameEvent(audit'[old + i], reapedEvent(k))
    BY <1>2, <1>3, <2>1 DEF LogsReaped
  <2> QED
    BY <1>5, <2>1, <2>2 DEF SameEvent, reapedEvent, Event, keyOf
<1>7. \A x : \A i \in 1 .. m : IsLockEvent(audit'[old + i], x) <=> x = order[i]
  BY <1>6 DEF IsLockEvent, LockEventType
<1>8. ASSUME NEW i \in 1 .. m
      PROVE  Follows(audit'[old + i], order[i])
  <2>1. PICK e, k : e = audit'[old + i] /\ k = order[i]
    OBVIOUS
  <2>2. /\ k \in expired /\ e.type = "lock.reaped" /\ e.at = clock
        /\ e.details.expiredAt = seconds(locks[k].expiresAt)
    BY <1>6, <2>1
  <2>3. /\ LockEvents(k) # {} /\ grants(audit[last(LockEvents(k))])
        /\ locks[k].expiresAt \in ends(audit[last(LockEvents(k))])
        /\ locks[k].expiresAt <= clock
    BY <1>5, <2>2 DEF explained
  <2>4. Follows(e, k)
    BY <2>2, <2>3 DEF Follows, mayFollow
  <2> QED
    BY <2>1, <2>4
<1>9. ASSUME NEW k, NEW i \in 1 .. m, IsLockEvent(audit'[old + i], k)
      PROVE  Story(k)'
  <2>1. k = order[i] /\ k \in expired
    BY <1>6, <1>7, <1>9
  <2>2. PICK n : n = old + i
    OBVIOUS
  <2>3. \A j \in 1 .. m : IsLockEvent(audit'[Len(audit) + j], k) <=> j = i
    BY <1>2, <1>3, <1>7, <2>1 DEF LogsReaped
  <2>4. Appends(m)
    BY <1>2 DEF LogsReaped
  <2>5. /\ LockEvents(k)' = LockEvents(k) \cup {Len(audit) + i}
        /\ \A j \in LockEvents(k) : j \in Nat /\ j < Len(audit) + i
    BY <2>3, <2>4, LockEventAdded
  <2>6. n \in Nat /\ LockEvents(k)' = LockEvents(k) \cup {n}
    BY <1>3, <2>2, <2>4, <2>5 DEF Appends
  <2>7. last(LockEvents(k) \cup {n}) = n
    <3>1. LockEvents(k) \in SUBSET Nat /\ \A j \in LockEvents(k) : j < n
      BY <1>3, <2>2, <2>5
    <3> QED
      BY <2>6, <3>1, LastAdded
  <2>8. audit'[n].type = "lock.reaped"
    BY <1>6, <2>2
  <2>9. over(k)'
    BY <2>6, <2>7, <2>8 DEF over, grants
  <2> QED
    BY <1>4, <2>1, <2>9 DEF Story
<1>10. Appends(m)
  BY <1>2 DEF LogsReaped
<1>11. \A i \in 1 .. m : LET e == audit'[Len(audit) + i]
                         IN  grants(e) => e.details.ttl \in Nat
  BY <1>3, <1>6 DEF grants
<1>12. \A k : \A i, j \in 1 .. m :
         IsLockEvent(audit'[Len(audit) + i], k)
           /\ IsLockEvent(audit'[Len(audit) + j], k) => i = j
  <2>1. \A i, j \in 1 .. m : order[i] = order[j] => i = j
    BY <1>2 DEF LogsReaped
  <2> QED
    BY <1>3, <1>7, <2>1
<1>13. \A k : \A i \in 1 .. m :
         IsLockEvent(audit'[Len(audit) + i], k) =>
           Follows(audit'[Len(audit) + i], k) /\ Story(k)'
  <2> SUFFICES ASSUME NEW k, NEW i \in 1 .. m, IsLockEvent(audit'[Len(audit) + i], k)
               PROVE  Follows(audit'[Len(audit) + i], k) /\ Story(k)'
    OBVIOUS
  <2>1. IsLockEvent(audit'[old + i], k) /\ k = order[i]
    BY <1>3, <1>7
  <2> QED
    BY <1>3, <1>8, <1>9, <2>1
<1>14. \A k \in leasable :
         (\A i \in 1 .. m : ~ IsLockEvent(audit'[Len(audit) + i], k)) => Quiet(k)
  BY <1>2, <1>3, <1>4, <1>7 DEF LogsReaped
<1> QED
  BY <1>1, <1>10, <1>11, <1>12, <1>13, <1>14, StoryGoesOn
-----------------------------------------------------------------------------
(* The story is kept by every step.  No step takes a collection away, so   *)
(* if the collections are slash-free after a step, they were before it.    *)

LEMMA StepGoesOn ==
  ASSUME TypeOK, TypeOK', CollectionsAreSlashFree, LeaseStory, [Next]_vars
  PROVE  LeaseStory'
<1>1. Leasable'
  BY StepLeasable DEF LeaseStory
<1> QED
  BY <1>1, StepCases, QuietStepsGoOn, AcquireGoesOn, RenewalGoesOn, ReleaseGoesOn,
     ReapGoesOn

LEMMA StepStaysSlashFree ==
  ASSUME TypeOK, [Next]_vars, CollectionsAreSlashFree'
  PROVE  CollectionsAreSlashFree
BY StepKeepsCollections DEF CollectionsAreSlashFree

LEMMA InitStory ==
  ASSUME Init
  PROVE  LeaseStory
<1>1. DOMAIN locks = {} /\ DOMAIN audit = {}
  BY DEF Init
<1>2. \A k : LockEvents(k) = {}
  BY <1>1 DEF LockEvents
<1> QED
  BY <1>1, <1>2 DEF LeaseStory, Leasable, GrantsTimed, LeaseLogIsLegal, Story, over

LEMMA StoryKept == Spec => [](CollectionsAreSlashFree => LeaseStory)
<1>1. Init => LeaseStory
  BY InitStory
<1>2. TypeOK /\ TypeOK' /\ CollectionsAreSlashFree /\ LeaseStory /\ [Next]_vars
        => LeaseStory'
  BY StepGoesOn
<1>3. TypeOK /\ [Next]_vars /\ CollectionsAreSlashFree' => CollectionsAreSlashFree
  BY StepStaysSlashFree
<1> QED
  BY <1>1, <1>2, <1>3, TypeCorrect, PTL DEF Spec

(* As long as no collection has a "/" in its identifier, the lock events   *)
(* of each document are a legal history of one lease at a time.            *)
THEOREM LeaseLogLegal == Spec => [](CollectionsAreSlashFree => LeaseLogIsLegal)
<1>1. LeaseStory => LeaseLogIsLegal
  BY DEF LeaseStory
<1> QED
  BY <1>1, StoryKept, PTL

(* As long as no collection has a "/" in its identifier, the lock table is *)
(* what the log says it is.                                                *)
THEOREM LogTellsLeases == Spec => [](CollectionsAreSlashFree => LockTableMatchesLog)
<1>1. LeaseStory => LockTableMatchesLog
  BY StoryMatches
<1> QED
  BY <1>1, StoryKept, PTL
-----------------------------------------------------------------------------
(* The loop of the read is the function that its recursion says.           *)
IsLoop(g, events, f, N) ==
  g = [n \in 0 .. N |->
         IF n = 0 THEN <<>>
         ELSE IF matches(events[n], f) THEN Append(g[n - 1], events[n])
         ELSE g[n - 1]]

LEMMA LoopExists ==
  ASSUME NEW events, NEW f, NEW N \in Nat
  PROVE  \E g : IsLoop(g, events, f, N)
<1> DEFINE Bad == {n \in Nat : ~ \E g : IsLoop(g, events, f, n)}
<1>1. SUFFICES ASSUME Bad # {} PROVE FALSE
  OBVIOUS
<1>2. PICK n \in Bad : \A m \in Bad : n <= m
  <2>1. Bad \in SUBSET Nat
    OBVIOUS
  <2> HIDE DEF Bad
  <2> QED
    BY <1>1, <2>1, LeastNumber
<1>3. n # 0
  <2> DEFINE e == [m \in 0 .. 0 |-> <<>>]
  <2>1. IsLoop(e, events, f, 0)
    BY DEF IsLoop
  <2> QED
    BY <2>1
<1>4. n - 1 \in Nat /\ n - 1 \notin Bad
  BY <1>2, <1>3
<1>5. PICK g : IsLoop(g, events, f, n - 1)
  BY <1>4
<1> DEFINE h == [m \in 0 .. n |->
                   IF m < n THEN g[m]
                   ELSE IF matches(events[n], f) THEN Append(g[n - 1], events[n])
                   ELSE g[n - 1]]
<1>6. ASSUME NEW m \in 0 .. n
      PROVE  h[m] = IF m = 0 THEN <<>>
                    ELSE IF matches(events[m], f) THEN Append(h[m - 1], events[m])
                    ELSE h[m - 1]
  <2>1. CASE m = n
    <3>1. h[n] = IF matches(events[n], f) THEN Append(g[n - 1], events[n]) ELSE g[n - 1]
      BY <1>4
    <3>2. h[n - 1] = g[n - 1]
      BY <1>3, <1>4
    <3> HIDE DEF h
    <3> QED
      BY <1>3, <2>1, <3>1, <3>2
  <2>2. CASE m < n
    <3>1. m \in 0 .. n - 1 /\ (m # 0 => m - 1 \in 0 .. n)
      BY <2>2
    <3>2. h[m] = g[m] /\ (m # 0 => h[m - 1] = g[m - 1])
      BY <2>2, <3>1
    <3>3. g[m] = IF m = 0 THEN <<>>
                 ELSE IF matches(events[m], f) THEN Append(g[m - 1], events[m])
                 ELSE g[m - 1]
      BY <1>5, <3>1 DEF IsLoop
    <3> HIDE DEF h
    <3> QED
      BY <3>2, <3>3
  <2> QED
    BY <2>1, <2>2
<1>7. IsLoop(h, events, f, n)
  <2>1. h = [m \in 0 .. n |-> h[m]]
    OBVIOUS
  <2> HIDE DEF h
  <2> QED
    BY <1>6, <2>1 DEF IsLoop
<1> QED
  BY <1>7

LEMMA SelectedIs ==
  ASSUME NEW events, Len(events) \in Nat, NEW f, NEW n \in 0 .. Len(events)
  PROVE  selected(events, f)[n] =
           IF n = 0 THEN <<>>
           ELSE IF matches(events[n], f)
                THEN Append(selected(events, f)[n - 1], events[n])
           ELSE selected(events, f)[n - 1]
<1>1. \E g : IsLoop(g, events, f, Len(events))
  BY LoopExists
<1>2. selected(events, f) = CHOOSE g : IsLoop(g, events, f, Len(events))
  BY DEF selected, IsLoop
<1>3. IsLoop(selected(events, f), events, f, Len(events))
  BY <1>1, <1>2
<1> QED
  BY <1>3 DEF IsLoop
-----------------------------------------------------------------------------
LEMMA LogIsNumbered ==
  ASSUME TypeOK, AuditIsOrdered
  PROVE  /\ Len(audit) \in Nat /\ DOMAIN audit = 1 .. Len(audit)
         /\ \A m \in 1 .. Len(audit) : audit[m] \in AuditEvent /\ audit[m].sequence = m
         /\ ToSet(audit) = {audit[m] : m \in 1 .. Len(audit)}
BY DEF TypeOK, AuditIsOrdered, ToSet

LEMMA JoinsAscending ==
  ASSUME NEW s \in Seq(AuditEvent), NEW t \in Seq(AuditEvent)
  PROVE  /\ s \o t \in Seq(AuditEvent)
         /\ Len(s \o t) = Len(s) + Len(t)
         /\ ToSet(s \o t) = ToSet(s) \cup ToSet(t)
         /\ Ascending(s) /\ Ascending(t)
              /\ (\A d \in ToSet(s), e \in ToSet(t) : d.sequence < e.sequence)
            => Ascending(s \o t)
<1> DEFINE r == s \o t
<1>1. /\ r \in Seq(AuditEvent) /\ Len(r) = Len(s) + Len(t)
      /\ Len(s) \in Nat /\ Len(t) \in Nat
      /\ DOMAIN r = 1 .. Len(s) + Len(t)
      /\ DOMAIN s = 1 .. Len(s) /\ DOMAIN t = 1 .. Len(t)
      /\ \A i \in 1 .. Len(s) : r[i] = s[i]
      /\ \A i \in 1 .. Len(t) : r[Len(s) + i] = t[i]
  OBVIOUS
<1>2. \A i \in DOMAIN r :
        \/ i \in DOMAIN s /\ r[i] = s[i]
        \/ i > Len(s) /\ i - Len(s) \in DOMAIN t /\ r[i] = t[i - Len(s)]
  <2> HIDE DEF r
  <2> TAKE i \in DOMAIN r
  <2>1. CASE i <= Len(s)
    BY <1>1, <2>1
  <2>2. CASE i > Len(s)
    <3>1. i - Len(s) \in 1 .. Len(t) /\ i = Len(s) + (i - Len(s))
      BY <1>1, <2>2
    <3> QED
      BY <1>1, <2>2, <3>1
  <2> QED
    BY <1>1, <2>1, <2>2
<1>3. ToSet(r) = ToSet(s) \cup ToSet(t)
  <2> HIDE DEF r
  <2>1. ToSet(r) \subseteq ToSet(s) \cup ToSet(t)
    BY <1>2 DEF ToSet
  <2>2. ToSet(s) \subseteq ToSet(r)
    <3>1. \A i \in DOMAIN s : i \in DOMAIN r /\ r[i] = s[i]
      BY <1>1
    <3> QED
      BY <3>1 DEF ToSet
  <2>3. ToSet(t) \subseteq ToSet(r)
    <3>1. \A i \in DOMAIN t : Len(s) + i \in DOMAIN r /\ r[Len(s) + i] = t[i]
      BY <1>1
    <3> QED
      BY <3>1 DEF ToSet
  <2> QED
    BY <2>1, <2>2, <2>3
<1>4. ASSUME Ascending(s), Ascending(t),
             \A d \in ToSet(s), e \in ToSet(t) : d.sequence < e.sequence
      PROVE  Ascending(r)
  <2> HIDE DEF r
  <2> SUFFICES ASSUME NEW i \in DOMAIN r, NEW j \in DOMAIN r, i < j
               PROVE  r[i].sequence < r[j].sequence
    BY DEF Ascending
  <2>0. i \in Int /\ j \in Int
    BY <1>1
  <2>1. CASE i \in DOMAIN s /\ j \in DOMAIN s
    BY <1>1, <1>4, <2>1 DEF Ascending
  <2>2. CASE i \in DOMAIN s /\ j \notin DOMAIN s
    <3>1. r[i] \in ToSet(s) /\ r[j] \in ToSet(t)
      BY <1>1, <1>2, <2>2 DEF ToSet
    <3> QED
      BY <1>4, <3>1
  <2>3. CASE i \notin DOMAIN s
    <3>1. j \notin DOMAIN s
      BY <1>1, <2>0, <2>3
    <3>2. /\ i - Len(s) \in DOMAIN t /\ r[i] = t[i - Len(s)]
          /\ j - Len(s) \in DOMAIN t /\ r[j] = t[j - Len(s)]
      BY <1>2, <2>3, <3>1
    <3>3. i - Len(s) < j - Len(s)
      BY <1>1, <2>0
    <3> QED
      BY <1>4, <3>2, <3>3 DEF Ascending
  <2> QED
    BY <2>1, <2>2, <2>3
<1> QED
  BY <1>1, <1>3, <1>4

LEMMA OneIsAscending ==
  ASSUME NEW s \in Seq(AuditEvent), NEW e \in AuditEvent
  PROVE  /\ Append(s, e) = s \o <<e>>
         /\ <<e>> \in Seq(AuditEvent)
         /\ ToSet(<<e>>) = {e}
         /\ Ascending(<<e>>)
<1>1. Append(s, e) = s \o <<e>>
  OBVIOUS
<1>2. <<e>> \in Seq(AuditEvent) /\ DOMAIN <<e>> = {1} /\ <<e>>[1] = e
  OBVIOUS
<1>3. ToSet(<<e>>) = {e} /\ Ascending(<<e>>)
  <2> DEFINE t == <<e>>
  <2>1. DOMAIN t = {1} /\ t[1] = e
    BY <1>2
  <2> HIDE DEF t
  <2>2. ToSet(t) = {e} /\ Ascending(t)
    BY <2>1 DEF ToSet, Ascending
  <2> QED
    BY <2>2 DEF t
<1> QED
  BY <1>1, <1>2, <1>3
-----------------------------------------------------------------------------
(* What the loop has selected after the first n events.                    *)

Selection(f, n) ==
  LET q == selected(audit, f)[n]
  IN  /\ q \in Seq(AuditEvent)
      /\ ToSet(q) = {audit[m] : m \in {m \in 1 .. n : matches(audit[m], f)}}
      /\ Ascending(q)

LEMMA SelectionGoesOn ==
  ASSUME TypeOK, AuditIsOrdered, NEW f,
         NEW n \in 1 .. Len(audit), Selection(f, n - 1)
  PROVE  Selection(f, n)
<1> DEFINE before == {m \in 1 .. n - 1 : matches(audit[m], f)}
           upto == {m \in 1 .. n : matches(audit[m], f)}
<1>1. /\ Len(audit) \in Nat /\ n \in 0 .. Len(audit) /\ n # 0
      /\ \A m \in 1 .. n : audit[m] \in AuditEvent /\ audit[m].sequence = m
  BY LogIsNumbered
<1>2. PICK q : q = selected(audit, f)[n - 1]
  OBVIOUS
<1>3. q \in Seq(AuditEvent) /\ Ascending(q) /\ ToSet(q) = {audit[m] : m \in before}
  BY <1>2 DEF Selection
<1>4. CASE matches(audit[n], f)
  <2>1. selected(audit, f)[n] = Append(q, audit[n])
    BY <1>1, <1>2, <1>4, SelectedIs
  <2>2. PICK e : e = audit[n]
    OBVIOUS
  <2>3. e \in AuditEvent /\ e.sequence = n
    BY <1>1, <2>2
  <2>4. /\ Append(q, e) = q \o <<e>> /\ <<e>> \in Seq(AuditEvent)
        /\ ToSet(<<e>>) = {e} /\ Ascending(<<e>>)
    BY <1>3, <2>3, OneIsAscending
  <2>5. \A d \in ToSet(q) : d.sequence < e.sequence
    BY <1>1, <1>3, <2>3
  <2>6. /\ q \o <<e>> \in Seq(AuditEvent)
        /\ ToSet(q \o <<e>>) = ToSet(q) \cup {e}
        /\ Ascending(q \o <<e>>)
    <3>1. \A d \in ToSet(q), x \in ToSet(<<e>>) : d.sequence < x.sequence
      BY <2>4, <2>5
    <3> QED
      BY <1>3, <2>4, <3>1, JoinsAscending
  <2>7. upto = before \cup {n}
    BY <1>1, <1>4
  <2>8. {audit[m] : m \in upto} = {audit[m] : m \in before} \cup {e}
    BY <2>2, <2>7
  <2> QED
    BY <1>3, <2>1, <2>2, <2>4, <2>6, <2>8 DEF Selection
<1>5. CASE ~ matches(audit[n], f)
  <2>1. selected(audit, f)[n] = q
    BY <1>1, <1>2, <1>5, SelectedIs
  <2>2. upto = before
    BY <1>1, <1>5
  <2> QED
    BY <1>3, <2>1, <2>2 DEF Selection
<1> QED
  BY <1>4, <1>5

LEMMA SelectionIs ==
  ASSUME TypeOK, AuditIsOrdered, NEW f, NEW N \in 0 .. Len(audit)
  PROVE  Selection(f, N)
<1> DEFINE Bad == {n \in 0 .. Len(audit) : ~ Selection(f, n)}
<1>1. SUFFICES ASSUME Bad # {} PROVE FALSE
  BY LogIsNumbered
<1>2. PICK n \in Bad : \A m \in Bad : n <= m
  <2>1. Bad \in SUBSET Nat
    OBVIOUS
  <2> HIDE DEF Bad
  <2> QED
    BY <1>1, <2>1, LeastNumber
<1>3. CASE n = 0
  <2>1. selected(audit, f)[0] = <<>>
    BY LogIsNumbered, SelectedIs
  <2>2. /\ <<>> \in Seq(AuditEvent) /\ ToSet(<<>>) = {} /\ Ascending(<<>>)
    BY DEF ToSet, Ascending
  <2>3. {audit[m] : m \in {m \in 1 .. 0 : matches(audit[m], f)}} = {}
    OBVIOUS
  <2>4. Selection(f, 0)
    BY <2>1, <2>2, <2>3 DEF Selection
  <2> QED
    BY <1>3, <2>4
<1>4. CASE n # 0
  <2>1. n \in 1 .. Len(audit) /\ n - 1 \in 0 .. Len(audit) /\ n - 1 < n
    BY <1>4, LogIsNumbered
  <2>2. n - 1 \notin Bad
    BY <1>2, <2>1
  <2>3. Selection(f, n - 1)
    BY <2>1, <2>2
  <2> QED
    BY <2>1, <2>3, SelectionGoesOn
<1> QED
  BY <1>3, <1>4

(* A filter that lets everything from the k-th event on through selects    *)
(* the log from there on.                                                  *)
Suffix(f, k, n) ==
  LET q == selected(audit, f)[n]
  IN  /\ Len(q) = IF n < k THEN 0 ELSE n - k + 1
      /\ \A i \in 1 .. Len(q) : q[i] = audit[k + i - 1]

LEMMA SuffixGoesOn ==
  ASSUME TypeOK, AuditIsOrdered, NEW f, NEW k \in Nat \ {0},
         \A m \in 1 .. Len(audit) : matches(audit[m], f) <=> m >= k,
         NEW n \in 1 .. Len(audit), Suffix(f, k, n - 1), Selection(f, n - 1)
  PROVE  Suffix(f, k, n)
<1>1. Len(audit) \in Nat /\ n \in 0 .. Len(audit) /\ n # 0 /\ audit[n] \in AuditEvent
  BY LogIsNumbered
<1>2. PICK q : q = selected(audit, f)[n - 1]
  OBVIOUS
<1>3. /\ q \in Seq(AuditEvent)
      /\ Len(q) = IF n - 1 < k THEN 0 ELSE n - 1 - k + 1
      /\ \A i \in 1 .. Len(q) : q[i] = audit[k + i - 1]
  BY <1>2 DEF Suffix, Selection
<1>4. CASE n >= k
  <2>1. selected(audit, f)[n] = Append(q, audit[n])
    BY <1>1, <1>2, <1>4, SelectedIs
  <2>2. PICK r : r = Append(q, audit[n])
    OBVIOUS
  <2>3. /\ Len(r) = Len(q) + 1 /\ Len(q) \in Nat
        /\ \A i \in 1 .. Len(q) : r[i] = q[i]
        /\ r[Len(q) + 1] = audit[n]
    BY <1>1, <1>3, <2>2
  <2>4. Len(q) = n - k
    BY <1>1, <1>3, <1>4
  <2>5. \A i \in 1 .. Len(r) : r[i] = audit[k + i - 1]
    <3> TAKE i \in 1 .. Len(r)
    <3>1. i \in 1 .. Len(q) \/ i = Len(q) + 1
      BY <2>3
    <3>2. k + (n - k + 1) - 1 = n
      BY <1>1
    <3> QED
      BY <1>3, <2>3, <2>4, <3>1, <3>2
  <2> QED
    BY <1>1, <1>4, <2>1, <2>2, <2>3, <2>4, <2>5 DEF Suffix
<1>5. CASE n < k
  <2>1. selected(audit, f)[n] = q
    <3>1. ~ matches(audit[n], f)
      BY <1>1, <1>5
    <3> QED
      BY <1>1, <1>2, <3>1, SelectedIs
  <2> QED
    BY <1>1, <1>3, <1>5, <2>1 DEF Suffix
<1> QED
  BY <1>1, <1>4, <1>5

LEMMA SuffixIs ==
  ASSUME TypeOK, AuditIsOrdered, NEW f, NEW k \in Nat \ {0},
         \A m \in 1 .. Len(audit) : matches(audit[m], f) <=> m >= k
  PROVE  Suffix(f, k, Len(audit))
<1> DEFINE Bad == {n \in 0 .. Len(audit) : ~ Suffix(f, k, n)}
<1>1. SUFFICES ASSUME Bad # {} PROVE FALSE
  BY LogIsNumbered
<1>2. PICK n \in Bad : \A m \in Bad : n <= m
  <2>1. Bad \in SUBSET Nat
    OBVIOUS
  <2> HIDE DEF Bad
  <2> QED
    BY <1>1, <2>1, LeastNumber
<1>3. CASE n = 0
  <2>1. selected(audit, f)[0] = <<>>
    BY LogIsNumbered, SelectedIs
  <2>2. Suffix(f, k, 0)
    BY <2>1 DEF Suffix
  <2> QED
    BY <1>3, <2>2
<1>4. CASE n # 0
  <2>1. n \in 1 .. Len(audit) /\ n - 1 \in 0 .. Len(audit) /\ n - 1 < n
    BY <1>4, LogIsNumbered
  <2>2. n - 1 \notin Bad
    BY <1>2, <2>1
  <2>3. Suffix(f, k, n - 1)
    BY <2>1, <2>2
  <2> QED
    BY <2>1, <2>3, SelectionIs, SuffixGoesOn
<1> QED
  BY <1>3, <1>4

(* A limit keeps the last of the selected events.                          *)
IsEndOf(r, q) ==
  \E k \in 1 .. Len(q) :
    /\ Len(r) = Len(q) - k + 1
    /\ \A i \in 1 .. Len(r) : r[i] = q[k + i - 1]

LEMMA LimitKeepsTheEnd ==
  ASSUME NEW q \in Seq(AuditEvent), NEW limit \in Int, NEW r,
         r = mostRecent(q, limit), r # <<>>
  PROVE  /\ r \in Seq(AuditEvent) /\ q # <<>>
         /\ limit = 0 => r = q
         /\ IsEndOf(r, q)
<1>1. Len(q) \in Nat /\ (q = <<>> <=> Len(q) = 0)
  OBVIOUS
<1>2. CASE limit > 0 /\ Len(q) > limit
  <2>0. Len(q) - limit + 1 \in 1 .. Len(q)
    BY <1>1, <1>2
  <2>1. PICK k \in 1 .. Len(q) : k = Len(q) - limit + 1
    BY <2>0
  <2>2. r = SubSeq(q, k, Len(q))
    BY <1>2, <2>1 DEF mostRecent
  <2>3. /\ r \in Seq(AuditEvent) /\ Len(r) = Len(q) - k + 1
        /\ \A i \in 1 .. Len(r) : r[i] = q[k + i - 1]
    BY <1>1, <2>2
  <2> QED
    BY <1>1, <1>2, <2>1, <2>3 DEF IsEndOf
<1>3. CASE ~ (limit > 0 /\ Len(q) > limit)
  <2>1. r = q
    BY <1>3 DEF mostRecent
  <2>2. 1 \in 1 .. Len(q) /\ Len(q) = Len(q) - 1 + 1
    BY <1>1, <2>1
  <2>3. \A i \in 1 .. Len(q) : q[i] = q[1 + i - 1]
    BY <1>1
  <2> QED
    BY <2>1, <2>2, <2>3 DEF IsEndOf
<1> QED
  BY <1>2, <1>3
-----------------------------------------------------------------------------
(* What the tailing client knows.                                          *)

(* Of the first n events it was given those in r, and not the others.      *)
Accounted(others, r, n) ==
  /\ others = {m \in 1 .. n : audit[m] \notin ToSet(r)}
  /\ IsFiniteSet(others)
  /\ Len(r) + Cardinality(others) = n

Tailing ==
  /\ filter \in Filters
  /\ next \in Nat \ {0} /\ next <= Len(audit) + 1
  /\ read \in Seq(AuditEvent)
  /\ ToSet(read) \subseteq {audit[m] : m \in 1 .. next - 1}
  /\ Ascending(read)
  /\ filter.limit = 0 => \A m \in 1 .. next - 1 : Wanted(audit[m]) => audit[m] \in ToSet(read)
  /\ \A m \in 1 .. next - 1 : audit[m] \in ToSet(read) => Wanted(audit[m])
  /\ (\A m \in 1 .. Len(audit) : Wanted(audit[m])) => Accounted(missed, read, next - 1)

asked == [filter EXCEPT !.minSequence = next]

LEMMA AskedMatches ==
  ASSUME TypeOK, AuditIsOrdered, Tailing
  PROVE  /\ asked.limit = filter.limit /\ filter.limit \in Int
         /\ \A m \in 1 .. Len(audit) :
              matches(audit[m], asked) <=> Wanted(audit[m]) /\ m >= next
<1>1. filter \in AuditFilter /\ next \in Nat /\ next > 0
  BY FiltersAssumption DEF Tailing
<1>2. /\ asked = [filter EXCEPT !.minSequence = next] /\ asked.limit = filter.limit
      /\ asked.collection = filter.collection /\ asked.document = filter.document
      /\ asked.actor = filter.actor /\ asked.type = filter.type
      /\ asked.minSequence = next
      /\ filter.limit \in Int
  BY <1>1 DEF asked, AuditFilter
<1>3. PICK f : f = [filter EXCEPT !.minSequence = 0]
  OBVIOUS
<1>4. /\ f.collection = filter.collection /\ f.document = filter.document
      /\ f.actor = filter.actor /\ f.type = filter.type
      /\ f.minSequence = 0
  BY <1>1, <1>3 DEF AuditFilter
<1>5. ASSUME NEW m \in 1 .. Len(audit)
      PROVE  matches(audit[m], asked) <=> Wanted(audit[m]) /\ m >= next
  <2>1. audit[m].sequence = m
    BY LogIsNumbered
  <2>2. Wanted(audit[m]) <=> matches(audit[m], f)
    BY <1>3 DEF Wanted
  <2> QED
    BY <1>1, <1>2, <1>4, <2>1, <2>2 DEF matches
<1> QED
  BY <1>2, <1>5

(* An answer: the wanted events from the next one on, up to the last that  *)
(* is wanted; all of them, if there is no limit.                           *)
Answers(a, end) ==
  /\ a \in Seq(AuditEvent) /\ Len(a) \in Nat \ {0}
  /\ Ascending(a)
  /\ end \in next .. Len(audit)
  /\ Last(a) = audit[end]
  /\ \A e \in ToSet(a) : \E m \in next .. end : e = audit[m] /\ Wanted(e)
  /\ \A m \in end + 1 .. Len(audit) : ~ Wanted(audit[m])
  /\ filter.limit = 0 =>
       \A m \in next .. end : Wanted(audit[m]) => audit[m] \in ToSet(a)

LEMMA AnswerIs ==
  ASSUME TypeOK, AuditIsOrdered, Tailing,
         NEW a, a = ListAuditEvents(asked), a # <<>>
  PROVE  \E end : Answers(a, end)
<1>1. PICK q : q = selected(audit, asked)[Len(audit)]
  OBVIOUS
<1>2. /\ Len(audit) \in Nat
      /\ \A m \in 1 .. Len(audit) : audit[m] \in AuditEvent /\ audit[m].sequence = m
      /\ next \in Nat \ {0} /\ next <= Len(audit) + 1
  BY LogIsNumbered DEF Tailing
<1>3. Selection(asked, Len(audit))
  BY <1>2, SelectionIs
<1>4. /\ q \in Seq(AuditEvent) /\ Ascending(q)
      /\ ToSet(q) = {audit[m] : m \in {m \in 1 .. Len(audit) : Wanted(audit[m]) /\ m >= next}}
  <2>1. {m \in 1 .. Len(audit) : matches(audit[m], asked)}
          = {m \in 1 .. Len(audit) : Wanted(audit[m]) /\ m >= next}
    BY AskedMatches
  <2>2. q \in Seq(AuditEvent) /\ Ascending(q)
        /\ ToSet(q) = {audit[m] : m \in {m \in 1 .. Len(audit) : matches(audit[m], asked)}}
    BY <1>1, <1>3 DEF Selection
  <2> QED
    BY <2>1, <2>2
<1>5. a = mostRecent(q, filter.limit) /\ filter.limit \in Int
  BY <1>1, AskedMatches DEF ListAuditEvents
<1>6. a \in Seq(AuditEvent) /\ q # <<>> /\ IsEndOf(a, q) /\ (filter.limit = 0 => a = q)
  BY <1>4, <1>5, LimitKeepsTheEnd
<1>7. PICK k \in 1 .. Len(q) :
        /\ Len(a) = Len(q) - k + 1
        /\ \A i \in 1 .. Len(a) : a[i] = q[k + i - 1]
  BY <1>6 DEF IsEndOf
<1>8. /\ Len(q) \in Nat /\ Len(a) \in Nat \ {0}
      /\ DOMAIN q = 1 .. Len(q) /\ DOMAIN a = 1 .. Len(a)
  BY <1>4, <1>6, <1>7
<1>9. Ascending(a)
  <2> SUFFICES ASSUME NEW i \in 1 .. Len(a), NEW j \in 1 .. Len(a), i < j
               PROVE  a[i].sequence < a[j].sequence
    BY <1>8 DEF Ascending
  <2>1. /\ k + i - 1 \in DOMAIN q /\ k + j - 1 \in DOMAIN q
        /\ k + i - 1 < k + j - 1
    BY <1>7, <1>8
  <2> QED
    BY <1>4, <1>7, <2>1 DEF Ascending
<1>10. ToSet(a) \subseteq ToSet(q)
  <2>1. \A i \in 1 .. Len(a) : k + i - 1 \in DOMAIN q
    BY <1>7, <1>8
  <2> QED
    BY <1>7, <1>8, <2>1 DEF ToSet
<1>11. Last(a) = q[Len(q)] /\ Len(q) \in DOMAIN q
  <2>1. Len(a) \in 1 .. Len(a) /\ k + Len(a) - 1 = Len(q)
    BY <1>7, <1>8
  <2> QED
    BY <1>7, <1>8, <2>1 DEF Last
<1>12. q[Len(q)] \in ToSet(q)
  BY <1>11 DEF ToSet
<1>13. PICK end \in 1 .. Len(audit) : q[Len(q)] = audit[end] /\ Wanted(audit[end]) /\ end >= next
  BY <1>4, <1>12
<1>14. \A e \in ToSet(q) : e.sequence <= end
  <2> TAKE e \in ToSet(q)
  <2>1. PICK i \in DOMAIN q : e = q[i]
    BY DEF ToSet
  <2>2. PICK m \in 1 .. Len(audit) : e = audit[m]
    BY <1>4
  <2>3. e.sequence = m /\ q[Len(q)].sequence = end
    BY <1>2, <1>13, <2>2
  <2>4. i = Len(q) \/ i < Len(q)
    BY <1>8
  <2>5. CASE i = Len(q)
    BY <2>1, <2>3, <2>5, <1>13
  <2>6. CASE i < Len(q)
    BY <1>4, <1>11, <1>13, <2>1, <2>3, <2>6 DEF Ascending
  <2> QED
    BY <2>4, <2>5, <2>6
<1>15. \A e \in ToSet(a) : \E m \in next .. end : e = audit[m] /\ Wanted(e)
  <2> TAKE e \in ToSet(a)
  <2>1. e \in ToSet(q) /\ e.sequence <= end
    BY <1>10, <1>14
  <2>2. PICK m \in 1 .. Len(audit) : e = audit[m] /\ Wanted(audit[m]) /\ m >= next
    BY <1>4, <2>1
  <2>3. m \in next .. end
    BY <1>2, <2>1, <2>2
  <2> QED
    BY <2>2, <2>3
<1>16. \A m \in end + 1 .. Len(audit) : ~ Wanted(audit[m])
  <2> SUFFICES ASSUME NEW m \in end + 1 .. Len(audit), Wanted(audit[m])
               PROVE  FALSE
    OBVIOUS
  <2>1. m \in 1 .. Len(audit) /\ m >= next /\ m > end
    BY <1>2, <1>13
  <2>2. audit[m] \in ToSet(q) /\ audit[m].sequence = m
    BY <1>2, <1>4, <2>1
  <2> QED
    BY <1>14, <2>1, <2>2
<1>17. filter.limit = 0 =>
         \A m \in next .. end : Wanted(audit[m]) => audit[m] \in ToSet(a)
  <2> SUFFICES ASSUME filter.limit = 0, NEW m \in next .. end, Wanted(audit[m])
               PROVE  audit[m] \in ToSet(a)
    OBVIOUS
  <2>1. m \in 1 .. Len(audit) /\ m >= next
    BY <1>2, <1>13
  <2> QED
    BY <1>4, <1>6, <2>1
<1>18. Last(a) = audit[end] /\ end \in next .. Len(audit)
  BY <1>2, <1>11, <1>13
<1> QED
  BY <1>6, <1>8, <1>9, <1>15, <1>16, <1>17, <1>18 DEF Answers

(* To a client that filters nothing, the end of the log.                   *)
LEMMA AnswerIsSuffix ==
  ASSUME TypeOK, AuditIsOrdered, Tailing,
         \A m \in 1 .. Len(audit) : Wanted(audit[m]),
         NEW a, a = ListAuditEvents(asked), a # <<>>
  PROVE  \E first \in next .. Len(audit) :
           /\ Head(a) = audit[first]
           /\ Len(a) = Len(audit) - first + 1
           /\ ToSet(a) = {audit[m] : m \in first .. Len(audit)}
<1>1. PICK q : q = selected(audit, asked)[Len(audit)]
  OBVIOUS
<1>2. /\ Len(audit) \in Nat /\ next \in Nat \ {0} /\ next <= Len(audit) + 1
  BY LogIsNumbered DEF Tailing
<1>3. Selection(asked, Len(audit)) /\ Suffix(asked, next, Len(audit))
  BY <1>2, SelectionIs, SuffixIs, AskedMatches
<1>4. /\ q \in Seq(AuditEvent)
      /\ Len(q) = IF Len(audit) < next THEN 0 ELSE Len(audit) - next + 1
      /\ \A i \in 1 .. Len(q) : q[i] = audit[next + i - 1]
  BY <1>1, <1>3 DEF Selection, Suffix
<1>5. a = mostRecent(q, filter.limit) /\ filter.limit \in Int
  BY <1>1, AskedMatches DEF ListAuditEvents
<1>6. a \in Seq(AuditEvent) /\ q # <<>> /\ IsEndOf(a, q)
  BY <1>4, <1>5, LimitKeepsTheEnd
<1>7. PICK k \in 1 .. Len(q) :
        /\ Len(a) = Len(q) - k + 1
        /\ \A i \in 1 .. Len(a) : a[i] = q[k + i - 1]
  BY <1>6 DEF IsEndOf
<1>8. PICK first \in Nat : first = next + k - 1
  BY <1>2, <1>7
<1>9. first \in next .. Len(audit) /\ Len(a) = Len(audit) - first + 1
  BY <1>2, <1>4, <1>7, <1>8
<1>10. \A i \in 1 .. Len(a) : a[i] = audit[first + i - 1]
  <2> TAKE i \in 1 .. Len(a)
  <2>1. k + i - 1 \in 1 .. Len(q) /\ next + (k + i - 1) - 1 = first + i - 1
    BY <1>2, <1>4, <1>7, <1>8
  <2> QED
    BY <1>4, <1>7, <2>1
<1>11. Head(a) = audit[first]
  <2>1. 1 \in 1 .. Len(a) /\ first + 1 - 1 = first
    BY <1>2, <1>9
  <2>2. Head(a) = a[1]
    BY <1>6
  <2> QED
    BY <1>10, <2>1, <2>2
<1>12. ToSet(a) = {audit[m] : m \in first .. Len(audit)}
  <2>1. DOMAIN a = 1 .. Len(a)
    BY <1>6
  <2>2. \A i \in 1 .. Len(a) : first + i - 1 \in first .. Len(audit)
    BY <1>2, <1>8, <1>9
  <2>3. \A m \in first .. Len(audit) :
          m - first + 1 \in 1 .. Len(a) /\ first + (m - first + 1) - 1 = m
    BY <1>2, <1>8, <1>9
  <2>4. ToSet(a) \subseteq {audit[m] : m \in first .. Len(audit)}
    BY <1>10, <2>1, <2>2 DEF ToSet
  <2>5. \A m \in first .. Len(audit) : audit[m] = a[m - first + 1] /\ m - first + 1 \in DOMAIN a
    BY <1>10, <2>1, <2>3
  <2>6. {audit[m] : m \in first .. Len(audit)} \subseteq ToSet(a)
    BY <2>5 DEF ToSet
  <2> QED
    BY <2>4, <2>6
<1> QED
  BY <1>9, <1>11, <1>12

LEMMA PollReads ==
  ASSUME Tailing, Poll
  PROVE  /\ UNCHANGED <<vars, filter>>
         /\ \E a : /\ a = ListAuditEvents(asked) /\ a # <<>>
                   /\ read' = read \o a
                   /\ next' = Last(a).sequence + 1
                   /\ missed' = missed \cup (next .. Head(a).sequence - 1)
BY DEF Poll, asked

(* What the client has been answered extends what it has read.             *)
LEMMA PollExtends ==
  ASSUME TypeOK, AuditIsOrdered, Tailing,
         NEW a, NEW end, Answers(a, end),
         NEW r, r = read \o a
  PROVE  /\ r \in Seq(AuditEvent) /\ Ascending(r)
         /\ Len(r) = Len(read) + Len(a)
         /\ ToSet(r) = ToSet(read) \cup ToSet(a)
         /\ ToSet(r) \subseteq {audit[m] : m \in 1 .. end}
         /\ filter.limit = 0 => \A m \in 1 .. end : Wanted(audit[m]) => audit[m] \in ToSet(r)
         /\ \A m \in 1 .. end : audit[m] \in ToSet(r) => Wanted(audit[m])
<1>1. /\ Len(audit) \in Nat /\ next \in Nat \ {0} /\ next <= Len(audit) + 1
      /\ \A m \in 1 .. Len(audit) : audit[m] \in AuditEvent /\ audit[m].sequence = m
      /\ end \in next .. Len(audit)
  BY LogIsNumbered DEF Tailing, Answers
<1>2. /\ read \in Seq(AuditEvent) /\ Ascending(read)
      /\ \A d \in ToSet(read) : \E m \in 1 .. next - 1 : d = audit[m]
  BY DEF Tailing
<1>3. /\ a \in Seq(AuditEvent) /\ Ascending(a)
      /\ \A e \in ToSet(a) : \E m \in next .. end : e = audit[m] /\ Wanted(e)
  BY DEF Answers
<1>4. \A d \in ToSet(read), e \in ToSet(a) : d.sequence < e.sequence
  <2> TAKE d \in ToSet(read), e \in ToSet(a)
  <2>1. PICK i \in 1 .. next - 1 : d = audit[i]
    BY <1>2
  <2>2. PICK j \in next .. end : e = audit[j]
    BY <1>3
  <2>3. i \in 1 .. Len(audit) /\ j \in 1 .. Len(audit) /\ i < j
    BY <1>1
  <2> QED
    BY <1>1, <2>1, <2>2, <2>3
<1>5. /\ r \in Seq(AuditEvent) /\ Ascending(r)
      /\ Len(r) = Len(read) + Len(a)
      /\ ToSet(r) = ToSet(read) \cup ToSet(a)
  BY <1>2, <1>3, <1>4, JoinsAscending
<1>6. ToSet(r) \subseteq {audit[m] : m \in 1 .. end}
  <2>1. \A m \in 1 .. next - 1 : m \in 1 .. end
    BY <1>1
  <2>2. \A m \in next .. end : m \in 1 .. end
    BY <1>1
  <2> QED
    BY <1>2, <1>3, <1>5, <2>1, <2>2
<1>7. ASSUME filter.limit = 0, NEW m \in 1 .. end, Wanted(audit[m])
      PROVE  audit[m] \in ToSet(r)
  <2>1. CASE m \in 1 .. next - 1
    <3>1. audit[m] \in ToSet(read)
      BY <1>7, <2>1 DEF Tailing
    <3> QED
      BY <1>5, <3>1
  <2>2. CASE m \in next .. end
    <3>1. audit[m] \in ToSet(a)
      BY <1>7, <2>2 DEF Answers
    <3> QED
      BY <1>5, <3>1
  <2> QED
    BY <1>1, <2>1, <2>2
<1>8. ASSUME NEW m \in 1 .. end, audit[m] \in ToSet(r)
      PROVE  Wanted(audit[m])
  <2>1. CASE audit[m] \in ToSet(read)
    <3>1. PICK i \in 1 .. next - 1 : audit[m] = audit[i]
      BY <1>2, <2>1
    <3>2. i \in 1 .. Len(audit) /\ m \in 1 .. Len(audit)
      BY <1>1
    <3>3. audit[i] \in ToSet(read)
      BY <2>1, <3>1
    <3>4. Wanted(audit[i])
      BY <3>3 DEF Tailing
    <3> QED
      BY <3>1, <3>4
  <2>2. CASE audit[m] \in ToSet(a)
    BY <1>3, <2>2
  <2> QED
    BY <1>5, <1>8, <2>1, <2>2
<1> QED
  BY <1>5, <1>6, <1>7, <1>8

(* A client that filters nothing knows what it was not given.              *)
LEMMA PollCounts ==
  ASSUME TypeOK, AuditIsOrdered, Tailing,
         \A m \in 1 .. Len(audit) : Wanted(audit[m]),
         NEW a, a = ListAuditEvents(asked), a # <<>>,
         NEW end, Answers(a, end),
         NEW r, r = read \o a,
         NEW skipped, skipped = missed \cup (next .. Head(a).sequence - 1)
  PROVE  Accounted(skipped, r, end)
<1>1. /\ Len(audit) \in Nat /\ next \in Nat \ {0} /\ next <= Len(audit) + 1
      /\ \A m \in 1 .. Len(audit) : audit[m] \in AuditEvent /\ audit[m].sequence = m
      /\ end \in next .. Len(audit)
      /\ read \in Seq(AuditEvent) /\ Len(read) \in Nat
  BY LogIsNumbered DEF Tailing, Answers
<1>2. PICK first \in next .. Len(audit) :
        /\ Head(a) = audit[first]
        /\ Len(a) = Len(audit) - first + 1
        /\ ToSet(a) = {audit[m] : m \in first .. Len(audit)}
  BY AnswerIsSuffix
<1>3. end = Len(audit)
  <2>1. \A m \in end + 1 .. Len(audit) : ~ Wanted(audit[m])
    BY DEF Answers
  <2>2. end < Len(audit) => end + 1 \in end + 1 .. Len(audit) /\ end + 1 \in 1 .. Len(audit)
    BY <1>1
  <2> QED
    BY <1>1, <2>1, <2>2
<1>4. /\ missed = {m \in 1 .. next - 1 : audit[m] \notin ToSet(read)}
      /\ IsFiniteSet(missed)
      /\ Len(read) + Cardinality(missed) = next - 1
      /\ \A d \in ToSet(read) : \E m \in 1 .. next - 1 : d = audit[m]
  BY DEF Tailing, Accounted
<1>5. skipped = missed \cup (next .. first - 1)
  BY <1>1, <1>2
<1>6. Len(r) = Len(read) + Len(a) /\ ToSet(r) = ToSet(read) \cup ToSet(a)
  BY PollExtends
<1>7. ASSUME NEW m \in 1 .. end
      PROVE  m \in skipped <=> audit[m] \notin ToSet(r)
  <2>1. audit[m] \in ToSet(a) <=> m \in first .. end
    <3>1. audit[m] \in ToSet(a) => m \in first .. end
      <4>1. SUFFICES ASSUME NEW i \in first .. Len(audit), audit[m] = audit[i]
                     PROVE  m = i
        BY <1>2, <1>3
      <4>2. i \in 1 .. Len(audit) /\ m \in 1 .. Len(audit)
        BY <1>1, <1>2
      <4> QED
        BY <1>1, <4>1, <4>2
    <3> QED
      BY <1>2, <1>3, <3>1
  <2>2. audit[m] \in ToSet(read) => m \in 1 .. next - 1
    <3>1. SUFFICES ASSUME NEW i \in 1 .. next - 1, audit[m] = audit[i]
                   PROVE  m = i
      BY <1>4
    <3>2. i \in 1 .. Len(audit) /\ m \in 1 .. Len(audit)
      BY <1>1
    <3> QED
      BY <1>1, <3>1, <3>2
  <2>3. CASE m \in 1 .. next - 1
    <3>1. m \notin first .. end /\ m \notin next .. first - 1
      BY <1>1, <1>2, <2>3
    <3> QED
      BY <1>4, <1>5, <1>6, <2>1, <2>3, <3>1
  <2>4. CASE m \in next .. first - 1
    <3>1. m \notin first .. end /\ m \notin 1 .. next - 1
      BY <1>1, <1>2, <2>4
    <3> QED
      BY <1>5, <1>6, <2>1, <2>2, <2>4, <3>1
  <2>5. CASE m \in first .. end
    <3>1. m \notin next .. first - 1 /\ m \notin 1 .. next - 1
      BY <1>1, <1>2, <2>5
    <3>2. m \notin missed
      BY <1>4, <3>1
    <3> QED
      BY <1>5, <1>6, <2>1, <2>5, <3>1, <3>2
  <2> QED
    BY <1>1, <1>2, <2>3, <2>4, <2>5
<1>8. skipped \subseteq 1 .. end
  <2>1. missed \subseteq 1 .. next - 1
    BY <1>4
  <2>2. /\ \A m \in 1 .. next - 1 : m \in 1 .. end
        /\ \A m \in next .. first - 1 : m \in 1 .. end
    BY <1>1, <1>3
  <2> QED
    BY <1>5, <2>1, <2>2
<1>9. IsFiniteSet(skipped) /\ Cardinality(skipped) = Cardinality(missed) + (first - next)
  <2>1. PICK gap : gap = next .. first - 1
    OBVIOUS
  <2>2. first - next \in Nat /\ next \in Int /\ first - 1 \in Int
    BY <1>1, <1>2
  <2>3. IsFiniteSet(gap) /\ Cardinality(gap) = first - next
    <3>1. /\ IsFiniteSet(gap)
          /\ Cardinality(gap) = IF next > first - 1 THEN 0 ELSE (first - 1) - next + 1
      BY <2>1, <2>2, FS_Interval
    <3> QED
      BY <1>1, <2>2, <3>1
  <2>4. missed \cap gap = {}
    BY <1>1, <1>4, <2>1
  <2>5. /\ IsFiniteSet(missed \cup gap)
        /\ Cardinality(missed \cup gap)
             = Cardinality(missed) + Cardinality(gap) - Cardinality(missed \cap gap)
    BY <1>4, <2>3, FS_Union
  <2>6. Cardinality(missed \cap gap) = 0
    BY <2>4, FS_EmptySet
  <2>7. Cardinality(missed) \in Nat
    BY <1>4, FS_CardinalityType
  <2>8. skipped = missed \cup gap
    BY <1>5, <2>1
  <2>9. Cardinality(missed \cup gap) = Cardinality(missed) + (first - next)
    BY <2>2, <2>3, <2>5, <2>6, <2>7
  <2> QED
    BY <2>5, <2>8, <2>9
<1>10. Len(r) + Cardinality(skipped) = end
  <2>1. Cardinality(missed) \in Nat
    BY <1>4, FS_CardinalityType
  <2> QED
    BY <1>1, <1>2, <1>3, <1>4, <1>6, <1>9, <2>1
<1> QED
  BY <1>7, <1>8, <1>9, <1>10 DEF Accounted

LEMMA PollKeepsTailing ==
  ASSUME TypeOK, AuditIsOrdered, Tailing, Poll
  PROVE  Tailing'
<1>1. audit' = audit /\ filter' = filter
  BY PollReads DEF vars, stored
<1>2. PICK a : /\ a = ListAuditEvents(asked) /\ a # <<>>
               /\ read' = read \o a
               /\ next' = Last(a).sequence + 1
               /\ missed' = missed \cup (next .. Head(a).sequence - 1)
  BY PollReads
<1>3. PICK end : Answers(a, end)
  BY <1>2, AnswerIs
<1>4. PICK r : r = read \o a
  OBVIOUS
<1>5. PICK skipped : skipped = missed \cup (next .. Head(a).sequence - 1)
  OBVIOUS
<1>6. read' = r /\ missed' = skipped
  BY <1>2, <1>4, <1>5
<1>7. /\ Len(audit) \in Nat /\ next \in Nat \ {0} /\ end \in next .. Len(audit)
      /\ next' = end + 1
  <2>1. end \in next .. Len(audit) /\ Last(a) = audit[end]
    BY <1>3 DEF Answers
  <2>2. next \in Nat \ {0} /\ Len(audit) \in Nat
    BY LogIsNumbered DEF Tailing
  <2>3. audit[end].sequence = end
    BY <2>1, <2>2, LogIsNumbered
  <2> QED
    BY <1>2, <2>1, <2>2, <2>3
<1>8. end + 1 \in Nat \ {0} /\ end + 1 <= Len(audit) + 1 /\ (end + 1) - 1 = end
  BY <1>7
<1>9. /\ r \in Seq(AuditEvent) /\ Ascending(r)
      /\ ToSet(r) \subseteq {audit[m] : m \in 1 .. end}
      /\ filter.limit = 0 => \A m \in 1 .. end : Wanted(audit[m]) => audit[m] \in ToSet(r)
      /\ \A m \in 1 .. end : audit[m] \in ToSet(r) => Wanted(audit[m])
  BY <1>3, <1>4, PollExtends
<1>10. (\A m \in 1 .. Len(audit) : Wanted(audit[m])) => Accounted(skipped, r, end)
  BY <1>2, <1>3, <1>4, <1>5, PollCounts
<1>11. filter \in Filters
  BY DEF Tailing
<1>12. PICK n : n = end + 1
  OBVIOUS
<1>13. next' = n /\ n - 1 = end /\ n \in Nat \ {0} /\ n <= Len(audit) + 1
  BY <1>7, <1>8, <1>12
<1> QED
  BY <1>1, <1>6, <1>9, <1>10, <1>11, <1>13 DEF Tailing, Wanted, Accounted

LEMMA WorkKeepsTailing ==
  ASSUME TypeOK, TypeOK', AuditIsOrdered, AuditIsOrdered', Tailing, [Next]_vars,
         UNCHANGED <<filter, next, read, missed>>
  PROVE  Tailing'
<1>1. /\ Len(audit) \in Nat /\ Len(audit') \in Nat /\ Len(audit) <= Len(audit')
      /\ \A m \in 1 .. Len(audit) : audit'[m] = audit[m]
      /\ next \in Nat \ {0} /\ next <= Len(audit) + 1
  BY StepExtendsAudit, LogIsNumbered DEF Extends, Tailing, TypeOK
<1>2. \A m \in 1 .. next - 1 : m \in 1 .. Len(audit) /\ audit'[m] = audit[m]
  BY <1>1
<1>3. \A m \in 1 .. Len(audit) : m \in 1 .. Len(audit')
  BY <1>1
<1>4. next <= Len(audit') + 1
  BY <1>1
<1>5. {audit'[m] : m \in 1 .. next - 1} = {audit[m] : m \in 1 .. next - 1}
  BY <1>2
<1>6. Accounted(missed, read, next - 1) => Accounted(missed, read, next - 1)'
  BY <1>2 DEF Accounted
<1>7. (\A m \in 1 .. Len(audit') : Wanted(audit'[m]))
        => \A m \in 1 .. Len(audit) : Wanted(audit[m])
  BY <1>1, <1>3
<1> QED
  BY <1>1, <1>2, <1>4, <1>5, <1>6, <1>7 DEF Tailing, Wanted
-----------------------------------------------------------------------------
LEMMA TailStep ==
  ASSUME [TailNext]_tailVars
  PROVE  /\ [Next]_vars
         /\ UNCHANGED <<filter, next, read, missed>> \/ Poll
BY DEF TailNext, Work, Poll, tailVars

LEMMA AlwaysTailing == TailSpec => [](Tailing /\ TypeOK /\ AuditIsOrdered)
<1>1. TailInit => Init /\ Tailing
  <2> SUFFICES ASSUME TailInit PROVE Init /\ Tailing
    OBVIOUS
  <2>1. audit = <<>> /\ read = <<>> /\ missed = {} /\ next = 1 /\ filter \in Filters
    BY DEF TailInit, Init
  <2>2. /\ <<>> \in Seq(AuditEvent) /\ ToSet(<<>>) = {} /\ Ascending(<<>>)
        /\ Len(<<>>) = 0
    BY DEF ToSet, Ascending
  <2>3. 1 .. 1 - 1 = {}
    OBVIOUS
  <2>4. IsFiniteSet({}) /\ Cardinality({}) = 0
    BY FS_EmptySet
  <2>5. Tailing
    BY <2>1, <2>2, <2>3, <2>4 DEF Tailing, Accounted
  <2> QED
    BY <2>5 DEF TailInit
<1>2. [TailNext]_tailVars => [Next]_vars
  BY TailStep
<1>3. TypeOK /\ TypeOK' /\ AuditIsOrdered /\ AuditIsOrdered' /\ Tailing
        /\ [TailNext]_tailVars => Tailing'
  BY TailStep, PollKeepsTailing, WorkKeepsTailing
<1> QED
  BY <1>1, <1>2, <1>3, TypeCorrect, AuditOrdered, PTL DEF TailSpec, Spec

(* A client without a limit has read exactly what it looks for among the   *)
(* events so far, once and in order.                                       *)
THEOREM TailExact == TailSpec => []TailIsExact
<1>1. Tailing /\ TypeOK /\ AuditIsOrdered => TailIsExact
  <2> SUFFICES ASSUME Tailing, TypeOK, AuditIsOrdered, filter.limit = 0
               PROVE  /\ ToSet(read) = {e \in ToSet(audit) : Wanted(e) /\ e.sequence < next}
                      /\ Ascending(read)
    BY DEF TailIsExact
  <2>1. /\ Len(audit) \in Nat /\ next \in Nat \ {0} /\ next <= Len(audit) + 1
        /\ \A m \in 1 .. Len(audit) : audit[m].sequence = m
        /\ ToSet(audit) = {audit[m] : m \in 1 .. Len(audit)}
    BY LogIsNumbered DEF Tailing
  <2>2. \A m \in 1 .. Len(audit) : audit[m].sequence < next <=> m \in 1 .. next - 1
    BY <2>1
  <2>3. \A m \in 1 .. next - 1 : m \in 1 .. Len(audit)
    BY <2>1
  <2>4. /\ ToSet(read) \subseteq {audit[m] : m \in 1 .. next - 1}
        /\ \A m \in 1 .. next - 1 : Wanted(audit[m]) <=> audit[m] \in ToSet(read)
        /\ Ascending(read)
    BY DEF Tailing
  <2>5. ToSet(read) \subseteq {e \in ToSet(audit) : Wanted(e) /\ e.sequence < next}
    BY <2>1, <2>2, <2>3, <2>4
  <2>6. {e \in ToSet(audit) : Wanted(e) /\ e.sequence < next} \subseteq ToSet(read)
    BY <2>1, <2>2, <2>4
  <2> QED
    BY <2>4, <2>5, <2>6
<1> QED
  BY <1>1, AlwaysTailing, PTL

(* A client that filters nothing knows which events it was not given, and  *)
(* how many.                                                               *)
THEOREM LossIsTold == TailSpec => []NoSilentLoss
<1>1. Tailing /\ TypeOK /\ AuditIsOrdered => NoSilentLoss
  <2> SUFFICES ASSUME Tailing, TypeOK, AuditIsOrdered,
                      \A e \in ToSet(audit) : Wanted(e)
               PROVE  /\ {e.sequence : e \in ToSet(audit) \ ToSet(read)} \cap (1 .. next - 1)
                           = missed
                      /\ Len(read) + Cardinality(missed) = next - 1
    BY DEF NoSilentLoss
  <2>1. /\ Len(audit) \in Nat /\ next \in Nat \ {0} /\ next <= Len(audit) + 1
        /\ \A m \in 1 .. Len(audit) : audit[m].sequence = m
        /\ ToSet(audit) = {audit[m] : m \in 1 .. Len(audit)}
    BY LogIsNumbered DEF Tailing
  <2>2. \A m \in 1 .. Len(audit) : Wanted(audit[m])
    BY <2>1
  <2>3. /\ missed = {m \in 1 .. next - 1 : audit[m] \notin ToSet(read)}
        /\ Len(read) + Cardinality(missed) = next - 1
    BY <2>2 DEF Tailing, Accounted
  <2>4. \A m \in 1 .. next - 1 : m \in 1 .. Len(audit)
    BY <2>1
  <2>5. {e.sequence : e \in ToSet(audit) \ ToSet(read)}
          = {m \in 1 .. Len(audit) : audit[m] \notin ToSet(read)}
    BY <2>1
  <2> QED
    BY <2>3, <2>4, <2>5
<1> QED
  BY <1>1, AlwaysTailing, PTL

(* A client that has just been answered has seen the last event that it    *)
(* looks for.                                                              *)
THEOREM TailCatchesUp == TailSpec => CatchesUp
<1>1. Tailing /\ TypeOK /\ AuditIsOrdered /\ Poll
        => \A e \in ToSet(audit) : e.sequence >= next' => ~ Wanted(e)
  <2> SUFFICES ASSUME Tailing, TypeOK, AuditIsOrdered, Poll,
                      NEW e \in ToSet(audit), e.sequence >= next'
               PROVE  ~ Wanted(e)
    OBVIOUS
  <2>1. PICK a : a = ListAuditEvents(asked) /\ a # <<>> /\ next' = Last(a).sequence + 1
    BY PollReads
  <2>2. PICK end : Answers(a, end)
    BY <2>1, AnswerIs
  <2>3. /\ Len(audit) \in Nat /\ next \in Nat \ {0}
        /\ \A m \in 1 .. Len(audit) : audit[m].sequence = m
        /\ ToSet(audit) = {audit[m] : m \in 1 .. Len(audit)}
    BY LogIsNumbered DEF Tailing
  <2>4. /\ end \in next .. Len(audit) /\ Last(a) = audit[end]
        /\ \A m \in end + 1 .. Len(audit) : ~ Wanted(audit[m])
    BY <2>2 DEF Answers
  <2>5. PICK m \in 1 .. Len(audit) : e = audit[m]
    BY <2>3
  <2>6. m \in end + 1 .. Len(audit)
    BY <2>1, <2>3, <2>4, <2>5
  <2> QED
    BY <2>4, <2>5, <2>6
<1> QED
  BY <1>1, AlwaysTailing, PTL DEF TailSpec, CatchesUp
=============================================================================
