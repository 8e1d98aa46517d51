------------------------------- MODULE Service -------------------------------
(***************************************************************************)
(* The whole service: the operations of Collections, Documents and Locks   *)
(* over one state, in any order, while time passes.  An operation holds    *)
(* s.mu exclusively from its first access to the state to its last, so the *)
(* steps of two operations never interleave and each is one action.        *)
(***************************************************************************)
EXTENDS Locks

Init ==
  /\ collections = <<>>
  /\ documents = <<>>
  /\ history = <<>>
  /\ locks = <<>>
  /\ audit = <<>>
  /\ auditSeq = 0
  /\ idem = <<>>
  /\ clock = 0
  /\ reply = Ok(Nil)

Tick == clock' = clock + 1 /\ UNCHANGED <<stored, idem, reply>>

Next ==
  \/ Tick
  \/ \E req \in RegisterRequests : RegisterCollection(req)
  \/ \E req \in CreateRequests : CreateDocument(req)
  \/ \E req \in UpdateRequests : UpdateDocument(req)
  \/ \E req \in BatchRequests : BatchUpdateDocuments(req)
  \/ \E req \in AcquireRequests : AcquireLock(req)
  \/ \E req \in RenewRequests : RenewLock(req)
  \/ \E req \in ReleaseRequests : ReleaseLock(req)
  \/ ReapExpiredLocks

Spec == Init /\ [][Next]_vars
=============================================================================
