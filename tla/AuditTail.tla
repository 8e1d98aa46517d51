------------------------------ MODULE AuditTail ------------------------------
(***************************************************************************)
(* A client that tails the audit log while the service works.  It is not   *)
(* part of the repository: it asks for what it has not seen yet by         *)
(* min_sequence, as the README suggests, one call at a time.               *)
(***************************************************************************)
EXTENDS AuditLog

CONSTANT Filters     \* what the client may look for, and with which limit

ASSUME FiltersAssumption == Filters \subseteq AuditFilter

VARIABLES
  filter,      \* what the client looks for; minSequence is set on each call
  next,        \* the sequence number it has not read yet
  read,        \* the events it was given, in order
  missed       \* the sequence numbers it has seen to be skipped

tailVars == <<vars, filter, next, read, missed>>
-----------------------------------------------------------------------------
(* One call of the tailing client and its answer.  An empty answer, or one *)
(* that is lost, changes nothing.  A client that filters nothing sees by   *)
(* the first number of an answer what it has missed.                       *)
Poll ==
  LET answer == ListAuditEvents([filter EXCEPT !.minSequence = next])
  IN  /\ answer # <<>>
      /\ read' = read \o answer
      /\ next' = Last(answer).sequence + 1
      /\ missed' = missed \cup (next .. Head(answer).sequence - 1)
      /\ UNCHANGED <<vars, filter>>

TailInit ==
  /\ Init
  /\ filter \in Filters
  /\ next = 1
  /\ read = <<>>
  /\ missed = {}

Work == Next /\ UNCHANGED <<filter, next, read, missed>>

TailNext == Work \/ Poll

TailSpec == TailInit /\ [][TailNext]_tailVars
-----------------------------------------------------------------------------
Wanted(e) == matches(e, [filter EXCEPT !.minSequence = 0])

Ascending(events) ==
  \A i, j \in DOMAIN events : i < j => events[i].sequence < events[j].sequence

(* "min_sequence (for tailing)" (README, "Audit stream"): a client without *)
(* a limit has read what matches its filter among the events so far, all   *)
(* of it, once, unchanged and in order, whatever was logged between its    *)
(* calls, several events at once included.                                 *)
TailIsExact ==
  filter.limit = 0 =>
    /\ ToSet(read) = {e \in ToSet(audit) : Wanted(e) /\ e.sequence < next}
    /\ Ascending(read)

(* A limit keeps the most recent matches, so a client that is more than    *)
(* its limit behind loses events.  It never loses one silently, provided   *)
(* it filters nothing: the gaps in the numbers tell it which events it was *)
(* not given, and how many.                                                *)
NoSilentLoss ==
  (\A e \in ToSet(audit) : Wanted(e)) =>
    /\ {e.sequence : e \in ToSet(audit) \ ToSet(read)} \cap (1 .. next - 1) = missed
    /\ Len(read) + Cardinality(missed) = next - 1

(* "limit (most-recent N)" (README, "Audit stream"): however small its     *)
(* limit, a client that has just been answered has seen the last event     *)
(* that it looks for, so it never falls further behind.                    *)
CatchesUp ==
  [][Poll => \A e \in ToSet(audit) : e.sequence >= next' => ~ Wanted(e)]_tailVars
=============================================================================
