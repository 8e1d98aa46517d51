------------------------------ MODULE AuditLog -------------------------------
(***************************************************************************)
(* The filtered read of the audit log (service/audit.go, domain/audit.go). *)
(***************************************************************************)
EXTENDS Service, SequencesExt

CONSTANT AnyType     \* no event type given

(* The zero value of a field matches everything.                           *)
AuditFilter ==
  [collection : OptID, document : OptID, actor : Actor,
   type : EventType \cup {AnyType}, minSequence : Int, limit : Int]

ASSUME AnyTypeAssumption == AnyType \notin EventType
-----------------------------------------------------------------------------
(* Seeded fault: MinSequence is taken for the last one already read.       *)
matchesAfter(e, f) ==
  /\ f.collection # NoID => e.collection = f.collection
  /\ f.document # NoID => e.document = f.document
  /\ f.actor # NoActor => e.actor = f.actor
  /\ f.type # AnyType => e.type = f.type
  /\ f.minSequence > 0 => e.sequence > f.minSequence

matches(e, f) ==
  /\ f.collection # NoID => e.collection = f.collection
  /\ f.document # NoID => e.document = f.document
  /\ f.actor # NoActor => e.actor = f.actor
  /\ f.type # AnyType => e.type = f.type
  /\ f.minSequence > 0 => e.sequence >= f.minSequence

(* Seeded fault: the limit cuts at the other end.                          *)
oldest(events, limit) ==
  IF limit > 0 /\ Len(events) > limit THEN SubSeq(events, 1, limit) ELSE events

mostRecent(events, limit) ==
  IF limit > 0 /\ Len(events) > limit
  THEN SubSeq(events, Len(events) - limit + 1, Len(events))
  ELSE events

(* The loop: what it has selected after the first n events.                *)
selected(events, f) ==
  LET upTo[n \in 0 .. Len(events)] ==
        IF n = 0 THEN <<>>
        ELSE IF matches(events[n], f) THEN Append(upTo[n - 1], events[n])
        ELSE upTo[n - 1]
  IN  upTo

ListAuditEvents(f) == mostRecent(selected(audit, f)[Len(audit)], f.limit)
=============================================================================
