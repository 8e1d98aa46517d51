---------------------------- MODULE MCLifecycle ----------------------------
(***************************************************************************)
(* The process from its start with one document and two clients that want  *)
(* its lock.                                                               *)
(***************************************************************************)
EXTENDS MCService, Lifecycle

HttpLock(route, holder) ==
  [route |-> route, collection |-> docs, document |-> d1, actor |-> "bob",
   key |-> NoKey, holder |-> "",
   body |-> [holder |-> holder, seconds |-> 1, actor |-> "", key |-> NoKey]]

MCHttpRequests ==
  {HttpLock("AcquireLock", "h1"), HttpLock("AcquireLock", "h2")}

MCAcquire == {call(h) : h \in MCHttpRequests}

NoRequests == {}

MCLifecycleInit ==
  /\ DocumentCreated
  /\ answer = respond("CreateDocument", reply)
  /\ LifecycleInit

MCLifecycleSpec ==
  MCLifecycleInit /\ [][LifecycleNext]_lifecycleVars /\ LifecycleFairness
=============================================================================
