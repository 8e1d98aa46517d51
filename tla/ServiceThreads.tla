--------------------------- MODULE ServiceThreads ---------------------------
(***************************************************************************)
(* The handlers of Service as goroutines that share memory, guarded by the *)
(* one sync.RWMutex of service.go:31.  A call looks at its context and at  *)
(* its request, waits for the lock, decides, writes the tables it changes  *)
(* one after the other, records its outcome in a deferred call, and        *)
(* unlocks in another.                                                     *)
(* A read copies what it needs, table by table, under the read lock.       *)
(*                                                                         *)
(* The variables of Service are auxiliary here: they change in one step,   *)
(* when a writer decides, and hold what memory will hold when that writer  *)
(* has unlocked.  What a goroutine really reads is memory, so the actions  *)
(* of Service are the right ones for what it decides only if the two agree *)
(* whenever one decides: that is what DecisionsSeeSettledState says, and   *)
(* with it every handler is one action, as module Service has it.          *)
(*                                                                         *)
(* sync.RWMutex is external.  Lock first keeps other writers out, and from *)
(* then on new readers, then waits for the readers that are in; Unlock     *)
(* lets in all readers that wait.                                          *)
(***************************************************************************)
EXTENDS Service

CONSTANTS
  Thread,
  ReadOps        \* the reads that are called, a set of operation names

ASSUME ThreadAssumption ==
  /\ Nil \notin Thread
  /\ ReadOps \subseteq {"GetCollection", "ListCollections", "GetDocument",
                        "ListDocuments", "GetDocumentHistory", "GetLock",
                        "ListAuditEvents"}

VARIABLES
  memory,        \* the tables as they are in memory
  pc,            \* where each goroutine is
  request,       \* the call it executes
  plan,          \* what it has decided the tables to be, and its outcome
  todo,          \* the tables it has yet to write, or to copy
  copied,        \* what a reader has copied so far
  announced      \* the writer that keeps others out, or Nil

threadVars == <<vars, memory, pc, request, plan, todo, copied, announced>>

(* The fields of Service, an event and its number being written together.  *)
Tables ==
  [collections |-> collections, documents |-> documents, history |-> history,
   locks |-> locks, audit |-> <<auditSeq, audit>>, idem |-> idem]

(* The order in which every handler reads and writes the fields; the       *)
(* deferred record comes last.                                             *)
Order == <<"collections", "documents", "history", "locks", "audit", "idem">>

first(tables, x) ==
  \E i \in DOMAIN Order :
    /\ x = Order[i]
    /\ x \in tables
    /\ \A j \in DOMAIN Order : j < i => Order[j] \notin tables

reads(op) ==
  CASE op \in {"GetCollection", "ListCollections"} -> {"collections"}
    [] op \in {"GetDocument", "ListDocuments"} -> {"collections", "documents"}
    [] op = "GetDocumentHistory" -> {"documents", "history"}
    [] op = "GetLock" -> {"locks"}
    [] op = "ListAuditEvents" -> {"audit"}

isRead(t) == request[t].op \in ReadOps

Perform(req) ==
  CASE req.op = "RegisterCollection" -> RegisterCollection(req)
    [] req.op = "CreateDocument" -> CreateDocument(req)
    [] req.op = "UpdateDocument" -> UpdateDocument(req)
    [] req.op = "BatchUpdateDocuments" -> BatchUpdateDocuments(req)
    [] req.op = "AcquireLock" -> AcquireLock(req)
    [] req.op = "RenewLock" -> RenewLock(req)
    [] req.op = "ReleaseLock" -> ReleaseLock(req)
    [] req.op = "ReapExpiredLocks" -> ReapExpiredLocks

NoCall == [op |-> "none"]

Calls ==
  RegisterRequests \cup CreateRequests \cup UpdateRequests \cup BatchRequests
    \cup AcquireRequests \cup RenewRequests \cup ReleaseRequests
    \cup {[op |-> "ReapExpiredLocks"]} \cup {[op |-> op] : op \in ReadOps}

goto(t, place) == pc' = [pc EXCEPT ![t] = place]
-----------------------------------------------------------------------------
(* Before the lock.                                                        *)

Call(t) ==
  /\ pc[t] = "idle"
  /\ goto(t, "called")
  /\ \E req \in Calls : request' = [request EXCEPT ![t] = req]
  /\ UNCHANGED <<vars, memory, plan, todo, copied, announced>>

(* What the handlers refuse without looking at the tables.                 *)
malformed(req) ==
  CASE req.op = "RegisterCollection" -> TrimSpace[req.name] = Empty
    [] req.op = "CreateDocument" -> TrimSpace[req.title] = Empty
    [] req.op = "UpdateDocument" -> req.expected < 1
    [] req.op = "BatchUpdateDocuments" -> req.items = <<>>
    [] req.op \in {"AcquireLock", "RenewLock", "ReleaseLock"} -> req.holder = NoHolder
    [] OTHER -> FALSE

(* The context is looked at once, and not while the call waits for the     *)
(* lock or when it has it.                                                 *)
CheckCtx(t) ==
  /\ pc[t] = "called"
  /\ \/ /\ ~ malformed(request[t])
        /\ goto(t, "waiting")
        /\ UNCHANGED <<vars, request>>
     \/ /\ goto(t, "idle")
        /\ TurnAway(malformed(request[t]))
        /\ request' = [request EXCEPT ![t] = NoCall]
  /\ UNCHANGED <<memory, plan, todo, copied, announced>>
-----------------------------------------------------------------------------
(* Writers.                                                                *)

readers == {t \in Thread : pc[t] = "reading"}

Announce(t) ==
  /\ pc[t] = "waiting"
  /\ ~ isRead(t)
  /\ announced = Nil
  /\ announced' = t
  /\ goto(t, "announced")
  /\ UNCHANGED <<vars, memory, request, plan, todo, copied>>

Enter(t) ==
  /\ pc[t] = "announced"
  /\ readers = {}
  /\ goto(t, "locked")
  /\ UNCHANGED <<vars, memory, request, plan, todo, copied, announced>>

(* Everything the handler reads, the clock included, it reads from here on.*)
Decide(t) ==
  /\ pc[t] = "locked"
  /\ Perform(request[t])
  /\ reply'.err # "canceled"
  /\ plan' = [plan EXCEPT ![t] = [tables |-> Tables', err |-> reply'.err]]
  /\ todo' = [todo EXCEPT ![t] = {x \in DOMAIN Tables : Tables'[x] # Tables[x]}]
  /\ goto(t, "writing")
  /\ UNCHANGED <<memory, request, copied, announced>>

Write(t) ==
  /\ pc[t] \in {"writing", "unlocked"}
  /\ ~ isRead(t)
  /\ \E x \in todo[t] :
       /\ first(todo[t], x)
       /\ memory' = [memory EXCEPT ![x] = plan[t].tables[x]]
       /\ todo' = [todo EXCEPT ![t] = @ \ {x}]
  /\ UNCHANGED <<vars, pc, request, plan, copied, announced>>

(* Unlock lets in every reader that waits.                                 *)
letIn(t) ==
  LET waiting == {r \in Thread : pc[r] = "waiting" /\ isRead(r)}
  IN  /\ announced' = Nil
      /\ pc' = [r \in Thread |-> IF r = t THEN "unlocked"
                                 ELSE IF r \in waiting THEN "reading" ELSE pc[r]]
      /\ todo' = [r \in Thread |-> IF r \in waiting THEN reads(request[r].op)
                                   ELSE todo[r]]
      /\ UNCHANGED <<vars, memory, request, plan, copied>>

(* Seeded fault: the two deferred calls are in the other order.            *)
UnlockBeforeRecord(t) ==
  /\ pc[t] = "writing"
  /\ todo[t] \in {{}, {"idem"}}
  /\ letIn(t)

(* Seeded fault: the unlock is not deferred, so a panic passes it by.      *)
UnlockAtTheEnd(t) ==
  /\ pc[t] = "writing"
  /\ todo[t] = {}
  /\ plan[t].err # "panic"
  /\ letIn(t)

(* The deferred unlock is the last thing a handler does on every way out,  *)
(* a panic included.                                                       *)
Unlock(t) ==
  /\ pc[t] = "writing"
  /\ todo[t] = {}
  /\ letIn(t)
-----------------------------------------------------------------------------
(* Readers.                                                                *)

(* Seeded fault: readers do not lock at all.                               *)
RLockAnyway(t) ==
  /\ pc[t] = "waiting"
  /\ isRead(t)
  /\ goto(t, "reading")
  /\ todo' = [todo EXCEPT ![t] = reads(request[t].op)]
  /\ UNCHANGED <<vars, memory, request, plan, copied, announced>>

RLock(t) ==
  /\ pc[t] = "waiting"
  /\ isRead(t)
  /\ announced = Nil
  /\ goto(t, "reading")
  /\ todo' = [todo EXCEPT ![t] = reads(request[t].op)]
  /\ UNCHANGED <<vars, memory, request, plan, copied, announced>>

Copy(t) ==
  /\ pc[t] = "reading"
  /\ \E x \in todo[t] :
       /\ first(todo[t], x)
       /\ copied' = [copied EXCEPT ![t] = Put(@, x, memory[x])]
       /\ todo' = [todo EXCEPT ![t] = @ \ {x}]
  /\ UNCHANGED <<vars, memory, pc, request, plan, announced>>

RUnlock(t) ==
  /\ pc[t] = "reading"
  /\ todo[t] = {}
  /\ goto(t, "unlocked")
  /\ UNCHANGED <<vars, memory, request, plan, todo, copied, announced>>

Finish(t) ==
  /\ pc[t] = "unlocked"
  /\ todo[t] = {}
  /\ goto(t, "idle")
  /\ request' = [request EXCEPT ![t] = NoCall]
  /\ plan' = [plan EXCEPT ![t] = Nil]
  /\ copied' = [copied EXCEPT ![t] = <<>>]
  /\ UNCHANGED <<vars, memory, todo, announced>>
-----------------------------------------------------------------------------
ThreadsInit ==
  /\ memory = Tables
  /\ pc = [t \in Thread |-> "idle"]
  /\ request = [t \in Thread |-> NoCall]
  /\ plan = [t \in Thread |-> Nil]
  /\ todo = [t \in Thread |-> {}]
  /\ copied = [t \in Thread |-> <<>>]
  /\ announced = Nil

TimePasses == Tick /\ UNCHANGED <<memory, pc, request, plan, todo, copied, announced>>

Advance(t) ==
  \/ CheckCtx(t)
  \/ Enter(t) \/ Decide(t) \/ Write(t) \/ Unlock(t)
  \/ RLock(t) \/ Copy(t) \/ RUnlock(t)
  \/ Finish(t)

ThreadsNext ==
  \/ \E t \in Thread : Call(t) \/ Announce(t) \/ Advance(t)
  \/ TimePasses

ThreadsSpec == Init /\ ThreadsInit /\ [][ThreadsNext]_threadVars

(* Every goroutine that can go on goes on, and sync.Mutex, which orders    *)
(* the writers, starves none.                                              *)
ThreadsFairness ==
  \A t \in Thread : WF_threadVars(Advance(t)) /\ SF_threadVars(Announce(t))
-----------------------------------------------------------------------------
(* A handler that decides finds in memory all that the handlers before it  *)
(* have decided, their records for replay included, and nothing of what    *)
(* another one has half done: a handler is indivisible (service.go:4-9).   *)
DecisionsSeeSettledState ==
  \A t \in Thread : pc[t] = "locked" => memory = Tables

(* Memory, with what the writer at work has yet to write to it, is the     *)
(* state of the service.                                                   *)
pending(t) == IF pc[t] = "writing" THEN todo[t] ELSE {}

MemoryIsService ==
  \A x \in DOMAIN Tables :
    Tables[x] = IF \E t \in Thread : x \in pending(t)
                THEN plan[CHOOSE t \in Thread : x \in pending(t)].tables[x]
                ELSE memory[x]

(* What a reader copies is of one moment, although it copies table after   *)
(* table: a history with a document, never one without the other.          *)
ReadsAreOfOneMoment ==
  \A t \in readers : \A x \in DOMAIN copied[t] : copied[t][x] = Tables[x]

(* Every call returns, the ones that panic, those that come after them and *)
(* the readers among many writers included; nobody waits for himself or in *)
(* a circle (service.go:9-12).                                             *)
EveryCallReturns == \A t \in Thread : pc[t] = "called" ~> pc[t] = "idle"
=============================================================================
