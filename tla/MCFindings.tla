----------------------------- MODULE MCFindings ------------------------------
(***************************************************************************)
(* What the documentation says of retries and the code does not do: the    *)
(* property quotes it, and its run finds a behaviour of the service        *)
(* against it.                                                             *)
(***************************************************************************)
EXTENDS MCService

MCRegister == {Register(docs, "a", "ann", NoKey)}
MCCreate == {Create(docs, d1, "a", <<>>, "ann", NoKey)}
MCUpdate == {Update(docs, d1, 1, "b", Nil, "ann", "k1"),
             [Update(docs, d1, 1, "b", Nil, "ann", "k1") EXCEPT !.reason = "a"]}

NoRequests == {}
-----------------------------------------------------------------------------
(* "Reusing a key with a different body returns 409" (README.md,           *)
(* "Idempotency"): an update that is answered by replay gives the reason   *)
(* the revision was recorded with.                                         *)
DifferentBodyConflicts ==
  \A req \in UpdateRequests :
    (req.key # NoKey /\ Replays(req)) =>
      \A i \in EventsOf(req.key) :
        audit[i].type = "document.updated" => audit[i].details.reason = req.reason
=============================================================================
