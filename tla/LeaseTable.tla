----------------------------- MODULE LeaseTable ------------------------------
(***************************************************************************)
(* What the edit locks promise: a document has at most one lease, a lease  *)
(* names its holder and the time it ends, it is granted only when there is *)
(* none, only its holder changes or gives it up, and otherwise it ends     *)
(* exactly when time reaches its end.  There is nothing to clean up: a     *)
(* lease that has ended is no longer in the table.                         *)
(***************************************************************************)
EXTENDS Naturals

CONSTANTS
  Item,      \* what can be leased
  Owner,     \* who can hold a lease
  MaxTerm    \* the longest a lease may run from the step that sets its end

VARIABLES
  lease,     \* the leases in force: item -> [owner, end]
  now

Term(end) == end > now /\ end <= now + MaxTerm

Init == lease = << >> /\ now \in Nat

Set(i, o, end) ==
  lease' = [j \in DOMAIN lease \cup {i} |->
              IF j = i THEN [owner |-> o, end |-> end] ELSE lease[j]]

Without(items) == [j \in DOMAIN lease \ items |-> lease[j]]

Grant(i, o) ==
  /\ i \notin DOMAIN lease
  /\ \E end \in now .. now + MaxTerm : Term(end) /\ Set(i, o, end)
  /\ UNCHANGED now

Renew(i, o) ==
  /\ i \in DOMAIN lease
  /\ lease[i].owner = o
  /\ \E end \in now .. now + MaxTerm : Term(end) /\ Set(i, o, end)
  /\ UNCHANGED now

GiveUp(i, o) ==
  /\ i \in DOMAIN lease
  /\ lease[i].owner = o
  /\ lease' = Without({i})
  /\ UNCHANGED now

Advance ==
  /\ now' = now + 1
  /\ lease' = Without({i \in DOMAIN lease : lease[i].end <= now + 1})

Next ==
  \/ \E i \in Item, o \in Owner : Grant(i, o) \/ Renew(i, o) \/ GiveUp(i, o)
  \/ Advance

Spec == Init /\ [][Next]_<<lease, now>>
=============================================================================
