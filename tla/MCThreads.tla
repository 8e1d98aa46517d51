----------------------------- MODULE MCThreads -----------------------------
(***************************************************************************)
(* Three goroutines on one document: an update that is sent twice under    *)
(* one key, or malformed, an acquire, a creation whose ID function may     *)
(* panic, and reads.                                                       *)
(***************************************************************************)
EXTENDS MCService, ServiceThreads

MCThread == {"t1", "t2", "t3"}

MCUpdates ==
  {Update(docs, d1, expected, "b", Nil, "ann", "k1") : expected \in {0, 1}}
MCAcquires == {Lease("AcquireLock", docs, d1, "h1", 0, "bob", NoKey)}
MCCreates == {Create(docs, NoID, "a", <<>>, "ann", NoKey)}
NoRequests == {}

busy == {t \in Thread : pc[t] # "idle"}

(* A call may add an event, so another writer is called only if there is   *)
(* room in the log for its event and for those that are under way.  Time   *)
(* stands still: only the end of a lease depends on it.                    *)
MCThreadsNext ==
  \/ \E t \in Thread :
       Call(t) /\ (Len(audit) + Cardinality(busy) < MaxEvents \/ isRead(t)')
  \/ \E t \in Thread : Announce(t) \/ Advance(t)

MCThreadsInit == DocumentCreated /\ ThreadsInit

MCThreadsSpec ==
  MCThreadsInit /\ [][MCThreadsNext]_threadVars /\ ThreadsFairness
=============================================================================
