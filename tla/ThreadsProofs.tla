---------------------------- MODULE ThreadsProofs ----------------------------
(***************************************************************************)
(* That the lock makes every handler indivisible, for any number of        *)
(* goroutines.  The proof does not look at what the handlers do: whatever  *)
(* one decides, it has the lock when it decides and until it has written   *)
(* what it has decided, its record for replay included.                    *)
(***************************************************************************)
EXTENDS ServiceThreads, TLAPS

TableNames == {"collections", "documents", "history", "locks", "audit", "idem"}

Places ==
  {"idle", "called", "waiting", "announced", "locked", "writing", "reading", "unlocked"}

PlacesOK ==
  /\ pc \in [Thread -> Places]
  /\ request = [t \in Thread |-> request[t]]
  /\ plan = [t \in Thread |-> plan[t]]
  /\ todo \in [Thread -> SUBSET TableNames]
  /\ copied = [t \in Thread |-> copied[t]]
  /\ memory = [x \in TableNames |-> memory[x]]

(* A writer is announced from before it has the lock until it unlocks, and *)
(* has no readers beside it once it has the lock.                          *)
Exclusion ==
  /\ \A t \in Thread : pc[t] \in {"announced", "locked", "writing"} =>
       announced = t /\ ~ isRead(t)
  /\ \A t \in Thread : pc[t] \in {"locked", "writing"} => readers = {}

(* Memory lags behind what has been decided by what the one writer has yet *)
(* to write.                                                               *)
Lag ==
  /\ (\A t \in Thread : pc[t] # "writing") => memory = Tables
  /\ \A t \in Thread : pc[t] = "writing" =>
       /\ plan[t].tables = Tables
       /\ \A x \in TableNames : x \in todo[t] \/ memory[x] = Tables[x]

Copies ==
  /\ \A t \in Thread : pc[t] = "unlocked" => todo[t] = {}
  /\ \A t \in Thread : pc[t] \notin {"reading", "unlocked"} => copied[t] = <<>>

IInv == PlacesOK /\ Exclusion /\ Lag /\ Copies /\ ReadsAreOfOneMoment
-----------------------------------------------------------------------------
LEMMA TablesAreARecord == Tables = [x \in TableNames |-> Tables[x]]
  BY DEF Tables, TableNames

LEMMA TablesUnchanged == UNCHANGED vars => Tables' = Tables
  BY DEF vars, stored, Tables

LEMMA TurnedAwayUnchanged ==
  ASSUME NEW wrong, TurnAway(wrong)
  PROVE  Tables' = Tables
  BY DEF TurnAway, stored, Tables

LEMMA TickUnchanged == Tick => Tables' = Tables
  BY DEF Tick, stored, Tables

LEMMA InitIInv == ThreadsInit => IInv
<1> SUFFICES ASSUME ThreadsInit PROVE IInv
  OBVIOUS
<1> USE DEF ThreadsInit
<1>1. PlacesOK
  BY TablesAreARecord DEF PlacesOK, Places
<1>2. Exclusion /\ Lag /\ Copies
  BY DEF Exclusion, Lag, Copies
<1>3. ReadsAreOfOneMoment
  BY DEF ReadsAreOfOneMoment, readers
<1> QED  BY <1>1, <1>2, <1>3 DEF IInv

(* The steps that neither move a goroutine into the lock nor out of it nor *)
(* touch what it has decided or written.                                   *)
LEMMA OutsideSteps ==
  ASSUME IInv, NEW t \in Thread,
         \/ Call(t)
         \/ CheckCtx(t)
         \/ Announce(t)
         \/ RUnlock(t)
         \/ Finish(t)
  PROVE  IInv'
<1> USE DEF IInv, goto
<1>1. Tables' = Tables
  BY TablesUnchanged, TurnedAwayUnchanged
  DEF Call, CheckCtx, Announce, RUnlock, Finish
<1>2. /\ memory' = memory
      /\ pc' = [pc EXCEPT ![t] = pc'[t]]
      /\ pc[t] \notin {"announced", "locked", "writing"}
      /\ pc'[t] \in Places \ {"locked", "writing", "reading"}
      /\ todo' = todo
  BY DEF Call, CheckCtx, Announce, RUnlock, Finish, PlacesOK, Places
<1>3. PlacesOK'
  <2>1. pc' \in [Thread -> Places]
    BY <1>2 DEF PlacesOK
  <2>2. /\ request' = [u \in Thread |-> request'[u]]
        /\ plan' = [u \in Thread |-> plan'[u]]
        /\ copied' = [u \in Thread |-> copied'[u]]
    BY DEF PlacesOK, Call, CheckCtx, Announce, RUnlock, Finish
  <2> QED
    BY <1>2, <2>1, <2>2 DEF PlacesOK
<1>4. \A u \in Thread : u # t => pc'[u] = pc[u] /\ request'[u] = request[u]
  <2> TAKE u \in Thread
  <2>1. CASE Call(t) \/ CheckCtx(t)
    BY <2>1 DEF PlacesOK, Call, CheckCtx
  <2>2. CASE Announce(t) \/ RUnlock(t) \/ Finish(t)
    BY <2>2 DEF PlacesOK, Announce, RUnlock, Finish
  <2> QED
    BY <2>1, <2>2
<1>5. Exclusion'
  <2>1. readers' \subseteq readers
    BY <1>2, <1>4 DEF readers
  <2>2. ASSUME NEW u \in Thread, pc'[u] \in {"announced", "locked", "writing"}
        PROVE  announced' = u /\ ~ isRead(u)'
    <3>1. CASE u = t
      BY <3>1, <2>2, <1>2 DEF Call, CheckCtx, Announce, RUnlock, Finish, isRead, PlacesOK
    <3>2. CASE u # t
      <4>1. announced = u /\ ~ isRead(u)
        BY <3>2, <2>2, <1>4 DEF Exclusion
      <4>2. announced' = announced
        BY <4>1, ThreadAssumption DEF Call, CheckCtx, Announce, RUnlock, Finish
      <4> QED  BY <4>1, <4>2, <3>2, <1>4 DEF isRead
    <3> QED  BY <3>1, <3>2
  <2>3. ASSUME NEW u \in Thread, pc'[u] \in {"locked", "writing"}
        PROVE  readers' = {}
    BY <2>1, <2>3, <1>2, <1>4 DEF Exclusion
  <2> QED  BY <2>2, <2>3 DEF Exclusion
<1>6. Lag'
  <2>1. \A u \in Thread : pc'[u] = "writing" <=> pc[u] = "writing"
    BY <1>2, <1>4
  <2>2. \A u \in Thread : pc[u] = "writing" => plan'[u] = plan[u]
    BY <1>2, <1>4 DEF PlacesOK, Call, CheckCtx, Announce, RUnlock, Finish
  <2> QED  BY <1>1, <1>2, <2>1, <2>2 DEF Lag
<1>7. Copies'
  <2>1. pc'[t] = "unlocked" => todo[t] = {}
    BY DEF Call, CheckCtx, Announce, RUnlock, Finish, PlacesOK
  <2>2. pc'[t] # "unlocked" => copied'[t] = <<>>
    BY DEF Copies, Call, CheckCtx, Announce, RUnlock, Finish, PlacesOK
  <2>3. \A u \in Thread : u # t => copied'[u] = copied[u]
    BY DEF Call, CheckCtx, Announce, RUnlock, Finish, PlacesOK
  <2> QED  BY <1>2, <1>4, <2>1, <2>2, <2>3 DEF Copies
<1>8. ReadsAreOfOneMoment'
  <2>1. \A u \in readers' : u \in readers /\ copied'[u] = copied[u]
    BY <1>2, <1>4 DEF readers, Call, CheckCtx, Announce, RUnlock, Finish, PlacesOK
  <2> QED  BY <1>1, <2>1 DEF ReadsAreOfOneMoment
<1> QED  BY <1>3, <1>5, <1>6, <1>7, <1>8

LEMMA EnterStep ==
  ASSUME IInv, NEW t \in Thread, Enter(t)
  PROVE  IInv'
<1> USE DEF IInv, Enter, goto
<1>1. Tables' = Tables
  BY TablesUnchanged
<1>2. \A u \in Thread : pc'[u] = IF u = t THEN "locked" ELSE pc[u]
  BY DEF PlacesOK
<1>3. PlacesOK'
  BY DEF PlacesOK, Places
<1>4. readers' = {}
  BY <1>2 DEF readers
<1>5. Exclusion'
  BY <1>2, <1>4 DEF Exclusion, isRead
<1>6. Lag'
  BY <1>1, <1>2 DEF Lag
<1>7. Copies'
  BY <1>2 DEF Copies
<1>8. ReadsAreOfOneMoment'
  BY <1>4 DEF ReadsAreOfOneMoment
<1> QED  BY <1>3, <1>5, <1>6, <1>7, <1>8

LEMMA DecideStep ==
  ASSUME IInv, NEW t \in Thread, Decide(t)
  PROVE  IInv'
<1> USE DEF IInv
<1>1. /\ pc[t] = "locked"
      /\ memory' = memory /\ request' = request /\ copied' = copied
      /\ announced' = announced
      /\ \A u \in Thread : pc'[u] = IF u = t THEN "writing" ELSE pc[u]
      /\ plan'[t].tables = Tables'
      /\ todo'[t] = {x \in DOMAIN Tables : Tables'[x] # Tables[x]}
  BY DEF Decide, goto, PlacesOK
<1>2. DOMAIN Tables = TableNames
  BY TablesAreARecord
<1>3. PlacesOK'
  <2>1. pc' \in [Thread -> Places]
    BY DEF Decide, goto, PlacesOK, Places
  <2>2. plan' = [u \in Thread |-> plan'[u]]
    BY DEF Decide, PlacesOK
  <2>3. todo' \in [Thread -> SUBSET TableNames]
    BY <1>2 DEF Decide, PlacesOK
  <2> QED  BY <2>1, <2>2, <2>3, <1>1 DEF PlacesOK
<1>4. readers' = {}
  BY <1>1 DEF readers, Exclusion
<1>5. Exclusion'
  BY <1>1, <1>4 DEF Exclusion, isRead
<1>6. \A u \in Thread : u # t => pc[u] # "writing"
  BY <1>1 DEF Exclusion
<1>7. memory = Tables
  BY <1>1, <1>6 DEF Lag
<1>8. Lag'
  BY <1>1, <1>2, <1>6, <1>7 DEF Lag
<1>9. Copies'
  <2>1. \A u \in Thread : u # t => todo'[u] = todo[u]
    BY DEF Decide, PlacesOK
  <2> QED  BY <2>1, <1>1 DEF Copies
<1>10. ReadsAreOfOneMoment'
  BY <1>4 DEF ReadsAreOfOneMoment
<1> QED  BY <1>3, <1>5, <1>8, <1>9, <1>10

LEMMA WriteStep ==
  ASSUME IInv, NEW t \in Thread, Write(t)
  PROVE  IInv'
<1> USE DEF IInv
<1>1. PICK x \in todo[t] :
        /\ memory' = [memory EXCEPT ![x] = plan[t].tables[x]]
        /\ todo' = [todo EXCEPT ![t] = @ \ {x}]
  BY DEF Write
<1>2. /\ Tables' = Tables
      /\ pc[t] = "writing"
      /\ pc' = pc /\ request' = request /\ plan' = plan /\ copied' = copied
      /\ announced' = announced
  BY <1>1, TablesUnchanged DEF Write, Copies
<1>3. x \in TableNames
  BY DEF PlacesOK
<1>4. PlacesOK'
  BY <1>1, <1>2, <1>3 DEF PlacesOK
<1>5. readers' = readers
  BY <1>2 DEF readers
<1>6. Exclusion'
  BY <1>2, <1>5 DEF Exclusion, isRead
<1>7. \A u \in Thread : pc[u] = "writing" => u = t
  BY <1>2 DEF Exclusion
<1>8. ASSUME NEW y \in TableNames, y \notin todo'[t]
      PROVE  memory'[y] = Tables[y]
  <2>1. CASE y = x
    BY <2>1, <1>1, <1>2, <1>3 DEF Lag, PlacesOK
  <2>2. CASE y # x
    <3>1. y \notin todo[t] /\ memory'[y] = memory[y]
      BY <2>2, <1>8, <1>1 DEF PlacesOK
    <3> QED  BY <3>1, <1>2 DEF Lag
  <2> QED  BY <2>1, <2>2
<1>9. Lag'
  <2>1. ASSUME NEW u \in Thread, pc'[u] = "writing"
        PROVE  /\ plan'[u].tables = Tables'
               /\ \A y \in TableNames : y \in todo'[u] \/ memory'[y] = Tables'[y]
    BY <2>1, <1>2, <1>7, <1>8 DEF Lag
  <2> QED  BY <2>1, <1>2 DEF Lag
<1>10. Copies'
  <2>1. \A u \in Thread : u # t => todo'[u] = todo[u]
    BY <1>1 DEF PlacesOK
  <2> QED  BY <2>1, <1>2 DEF Copies
<1>11. ReadsAreOfOneMoment'
  BY <1>2, <1>5 DEF ReadsAreOfOneMoment
<1> QED  BY <1>4, <1>6, <1>9, <1>10, <1>11

LEMMA UnlockStep ==
  ASSUME IInv, NEW t \in Thread, Unlock(t)
  PROVE  IInv'
<1> USE DEF IInv
<1> DEFINE waiting == {r \in Thread : pc[r] = "waiting" /\ isRead(r)}
<1>1. /\ pc[t] = "writing" /\ todo[t] = {}
      /\ announced' = Nil
      /\ memory' = memory /\ request' = request /\ plan' = plan /\ copied' = copied
      /\ pc' = [r \in Thread |-> IF r = t THEN "unlocked"
                                 ELSE IF r \in waiting THEN "reading" ELSE pc[r]]
      /\ todo' = [r \in Thread |-> IF r \in waiting THEN reads(request[r].op)
                                   ELSE todo[r]]
      /\ Tables' = Tables
  BY TablesUnchanged DEF Unlock, letIn
<1> HIDE DEF waiting
<1>2. \A u \in Thread : u # t => pc[u] \notin {"announced", "locked", "writing"}
  BY <1>1 DEF Exclusion
<1>3. readers = {}
  BY <1>1 DEF Exclusion
<1>4. \A u \in Thread : pc'[u] \notin {"announced", "locked", "writing"}
  BY <1>1, <1>2
<1>5. memory = Tables
  <2>1. \A x \in TableNames : memory[x] = Tables[x]
    BY <1>1 DEF Lag
  <2> QED  BY <2>1, TablesAreARecord DEF PlacesOK
<1>6. PlacesOK'
  <2>1. pc' \in [Thread -> Places]
    BY <1>1 DEF PlacesOK, Places
  <2>2. \A r \in waiting : reads(request[r].op) \in SUBSET TableNames
    BY ThreadAssumption DEF waiting, isRead, reads, TableNames
  <2>3. todo' \in [Thread -> SUBSET TableNames]
    BY <1>1, <2>2 DEF PlacesOK
  <2> QED  BY <1>1, <2>1, <2>3 DEF PlacesOK
<1>7. Exclusion'
  BY <1>4 DEF Exclusion
<1>8. Lag'
  BY <1>1, <1>4, <1>5 DEF Lag
<1>9. Copies'
  <2>1. ASSUME NEW u \in Thread, pc'[u] = "unlocked"
        PROVE  todo'[u] = {}
    <3>1. u \notin waiting
      BY <2>1, <1>1 DEF waiting
    <3>2. u = t \/ pc[u] = "unlocked"
      BY <3>1, <2>1, <1>1
    <3> QED  BY <3>1, <3>2, <1>1 DEF Copies
  <2>2. ASSUME NEW u \in Thread, pc'[u] \notin {"reading", "unlocked"}
        PROVE  copied'[u] = <<>>
    BY <2>2, <1>1 DEF Copies
  <2> QED  BY <2>1, <2>2 DEF Copies
<1>10. ReadsAreOfOneMoment'
  <2>1. ASSUME NEW u \in readers'
        PROVE  copied'[u] = <<>>
    <3>1. u \in Thread /\ pc'[u] = "reading" /\ u \notin readers
      BY <2>1, <1>3 DEF readers
    <3>2. pc[u] \notin {"reading", "unlocked"}
      BY <3>1, <1>1 DEF readers, waiting
    <3> QED  BY <3>1, <3>2, <1>1 DEF Copies
  <2> QED  BY <2>1 DEF ReadsAreOfOneMoment
<1> QED  BY <1>6, <1>7, <1>8, <1>9, <1>10

LEMMA RLockStep ==
  ASSUME IInv, NEW t \in Thread, RLock(t)
  PROVE  IInv'
<1> USE DEF IInv
<1>1. /\ pc[t] = "waiting" /\ isRead(t) /\ announced = Nil
      /\ \A u \in Thread : pc'[u] = IF u = t THEN "reading" ELSE pc[u]
      /\ \A u \in Thread : todo'[u] = IF u = t THEN reads(request[t].op) ELSE todo[u]
      /\ memory' = memory /\ request' = request /\ plan' = plan /\ copied' = copied
      /\ announced' = announced
      /\ Tables' = Tables
  BY TablesUnchanged DEF RLock, goto, PlacesOK
<1>2. PlacesOK'
  <2>1. pc' \in [Thread -> Places]
    BY DEF RLock, goto, PlacesOK, Places
  <2>2. reads(request[t].op) \in SUBSET TableNames
    BY <1>1, ThreadAssumption DEF isRead, reads, TableNames
  <2>3. todo' \in [Thread -> SUBSET TableNames]
    BY <2>2 DEF RLock, PlacesOK
  <2> QED  BY <1>1, <2>1, <2>3 DEF PlacesOK
<1>3. \A u \in Thread : pc'[u] \notin {"announced", "locked", "writing"}
  BY <1>1, ThreadAssumption DEF Exclusion
<1>4. Exclusion'
  BY <1>3 DEF Exclusion
<1>5. Lag'
  BY <1>1, <1>3 DEF Lag
<1>6. Copies'
  BY <1>1 DEF Copies
<1>7. ReadsAreOfOneMoment'
  <2>1. ASSUME NEW u \in readers', u # t
        PROVE  u \in readers
    BY <2>1, <1>1 DEF readers
  <2>2. copied'[t] = <<>>
    BY <1>1 DEF Copies
  <2> QED  BY <2>1, <2>2, <1>1 DEF ReadsAreOfOneMoment
<1> QED  BY <1>2, <1>4, <1>5, <1>6, <1>7

LEMMA CopyStep ==
  ASSUME IInv, NEW t \in Thread, Copy(t)
  PROVE  IInv'
<1> USE DEF IInv
<1>1. PICK x \in todo[t] :
        /\ copied' = [copied EXCEPT ![t] = Put(@, x, memory[x])]
        /\ todo' = [todo EXCEPT ![t] = @ \ {x}]
  BY DEF Copy
<1>2. /\ pc[t] = "reading"
      /\ pc' = pc /\ memory' = memory /\ request' = request /\ plan' = plan
      /\ announced' = announced
      /\ Tables' = Tables
  BY TablesUnchanged DEF Copy
<1>3. PlacesOK'
  BY <1>1, <1>2 DEF PlacesOK
<1>4. readers' = readers
  BY <1>2 DEF readers
<1>5. Exclusion'
  BY <1>2, <1>4 DEF Exclusion, isRead
<1>6. \A u \in Thread : pc[u] # "writing"
  BY <1>2 DEF Exclusion, readers
<1>7. Lag'
  BY <1>2, <1>6 DEF Lag
<1>8. Copies'
  BY <1>1, <1>2 DEF Copies, PlacesOK
<1>9. ReadsAreOfOneMoment'
  <2>1. memory = Tables
    BY <1>6 DEF Lag
  <2>2. ASSUME NEW u \in readers', NEW y \in DOMAIN copied'[u]
        PROVE  copied'[u][y] = Tables'[y]
    <3>1. CASE u # t
      BY <3>1, <2>2, <1>1, <1>2, <1>4 DEF ReadsAreOfOneMoment, PlacesOK, readers
    <3>2. CASE u = t
      <4>1. copied'[t] = Put(copied[t], x, memory[x]) /\ t \in readers
        BY <1>1, <1>2 DEF PlacesOK, readers
      <4> QED  BY <4>1, <3>2, <2>1, <2>2, <1>2 DEF Put, ReadsAreOfOneMoment
    <3> QED  BY <3>1, <3>2
  <2> QED  BY <2>2 DEF ReadsAreOfOneMoment
<1> QED  BY <1>3, <1>5, <1>7, <1>8, <1>9

LEMMA StutterStep ==
  ASSUME IInv, TimePasses \/ UNCHANGED threadVars
  PROVE  IInv'
<1>1. Tables' = Tables
  BY TablesUnchanged, TickUnchanged DEF TimePasses, threadVars
<1>2. UNCHANGED <<memory, pc, request, plan, todo, copied, announced>>
  BY DEF TimePasses, threadVars
<1> QED
  BY <1>1, <1>2 DEF IInv, PlacesOK, Exclusion, Lag, Copies, ReadsAreOfOneMoment,
                    readers, isRead

LEMMA NextIInv ==
  ASSUME IInv, [ThreadsNext]_threadVars
  PROVE  IInv'
<1>1. ASSUME NEW t \in Thread, Call(t) \/ Announce(t) \/ Advance(t)
      PROVE  IInv'
  BY <1>1, OutsideSteps, EnterStep, DecideStep, WriteStep, UnlockStep, RLockStep,
     CopyStep DEF Advance
<1> QED  BY <1>1, StutterStep DEF ThreadsNext
-----------------------------------------------------------------------------
LEMMA IInvHolds == ThreadsSpec => []IInv
<1>1. Init /\ ThreadsInit => IInv
  BY InitIInv
<1>2. IInv /\ [ThreadsNext]_threadVars => IInv'
  BY NextIInv
<1> QED  BY <1>1, <1>2, PTL DEF ThreadsSpec

(* A handler is indivisible: whoever decides sees all that has been        *)
(* decided before, and no half of anything (service.go:4-9).               *)
THEOREM HandlersAreIndivisible == ThreadsSpec => []DecisionsSeeSettledState
<1>1. IInv => DecisionsSeeSettledState
  <2> SUFFICES ASSUME IInv, NEW t \in Thread, pc[t] = "locked"
               PROVE  memory = Tables
    BY DEF DecisionsSeeSettledState
  <2>1. \A u \in Thread : pc[u] # "writing"
    BY DEF IInv, Exclusion
  <2> QED  BY <2>1 DEF IInv, Lag
<1> QED  BY <1>1, IInvHolds, PTL

(* A read that copies table after table copies one moment.                 *)
THEOREM ReadsAreSnapshots == ThreadsSpec => []ReadsAreOfOneMoment
<1>1. IInv => ReadsAreOfOneMoment
  BY DEF IInv
<1> QED  BY <1>1, IInvHolds, PTL
-----------------------------------------------------------------------------
(* The goroutines together do what Service does.                           *)

RequestsOK == \A t \in Thread : pc[t] # "idle" => request[t] \in Calls

LEMMA RequestsStep ==
  ASSUME IInv, RequestsOK, [ThreadsNext]_threadVars
  PROVE  RequestsOK'
<1>1. ASSUME NEW t \in Thread, Call(t)
      PROVE  RequestsOK'
  BY <1>1 DEF Call, goto, RequestsOK, IInv, PlacesOK
<1>2. ASSUME NEW t \in Thread, Finish(t) \/ CheckCtx(t)
      PROVE  RequestsOK'
  BY <1>2 DEF Finish, CheckCtx, goto, RequestsOK, IInv, PlacesOK
<1>3. ASSUME request' = request,
             \A t \in Thread : pc'[t] # "idle" => pc[t] # "idle"
      PROVE  RequestsOK'
  BY <1>3 DEF RequestsOK
<1>4. ASSUME NEW t \in Thread,
             Announce(t) \/ Enter(t) \/ Decide(t) \/ RLock(t) \/ RUnlock(t)
      PROVE  RequestsOK'
  <2>1. pc[t] # "idle" /\ request' = request
        /\ \A u \in Thread : u # t => pc'[u] = pc[u]
    BY <1>4 DEF Announce, Enter, Decide, RLock, RUnlock, goto, IInv, PlacesOK
  <2> QED  BY <1>3, <2>1
<1>5. ASSUME NEW t \in Thread, Unlock(t)
      PROVE  RequestsOK'
  <2>1. request' = request /\ \A u \in Thread : pc'[u] # "idle" => pc[u] # "idle"
    BY <1>5 DEF Unlock, letIn
  <2> QED  BY <1>3, <2>1
<1>6. ASSUME NEW t \in Thread, Write(t) \/ Copy(t)
      PROVE  RequestsOK'
  BY <1>3, <1>6 DEF Write, Copy
<1>7. CASE TimePasses \/ UNCHANGED threadVars
  BY <1>3, <1>7 DEF TimePasses, threadVars
<1> QED
  BY <1>1, <1>2, <1>4, <1>5, <1>6, <1>7 DEF ThreadsNext, Advance

(* A call is of the set that its operation names.                          *)
LEMMA CallsByName ==
  ASSUME NEW req \in Calls, req.op \notin ReadOps, Perform(req)
  PROVE  Next
<1>1. /\ \A r \in RegisterRequests : r.op = "RegisterCollection"
      /\ \A r \in CreateRequests : r.op = "CreateDocument"
      /\ \A r \in UpdateRequests : r.op = "UpdateDocument"
      /\ \A r \in BatchRequests : r.op = "BatchUpdateDocuments"
  BY RegisterAssumption, DocumentRequestAssumption
  DEF RegisterRequest, CreateRequest, UpdateRequest, BatchRequest
<1>2. /\ \A r \in AcquireRequests : r.op = "AcquireLock"
      /\ \A r \in RenewRequests : r.op = "RenewLock"
      /\ \A r \in ReleaseRequests : r.op = "ReleaseLock"
  BY LockRequestAssumption DEF LeaseRequest, ReleaseRequest
<1>3. \A r \in {[op |-> op] : op \in ReadOps} : r.op \in ReadOps
  OBVIOUS
<1>4. CASE req \in RegisterRequests \cup CreateRequests
                     \cup UpdateRequests \cup BatchRequests
  BY <1>1, <1>4 DEF Perform, Next
<1>5. CASE req \in AcquireRequests \cup RenewRequests \cup ReleaseRequests
  BY <1>2, <1>5 DEF Perform, Next
<1>6. CASE req = [op |-> "ReapExpiredLocks"]
  BY <1>6 DEF Perform, Next
<1> QED  BY <1>3, <1>4, <1>5, <1>6 DEF Calls

(* Turning a call away before the lock is a step of its operation.         *)
LEMMA RefusedByName ==
  ASSUME NEW req \in Calls, TurnAway(malformed(req))
  PROVE  Next
<1>1. ASSUME NEW r \in RegisterRequests, req = r
      PROVE  RegisterCollection(r)
  <2>1. req.op = "RegisterCollection"
    BY <1>1, RegisterAssumption DEF RegisterRequest
  <2> QED  BY <1>1, <2>1 DEF malformed, RegisterCollection
<1>2. ASSUME NEW r \in CreateRequests, req = r
      PROVE  CreateDocument(r)
  <2>1. req.op = "CreateDocument"
    BY <1>2, DocumentRequestAssumption DEF CreateRequest
  <2> QED  BY <1>2, <2>1 DEF malformed, CreateDocument
<1>3. ASSUME NEW r \in UpdateRequests, req = r
      PROVE  UpdateDocument(r)
  <2>1. req.op = "UpdateDocument"
    BY <1>3, DocumentRequestAssumption DEF UpdateRequest
  <2> QED  BY <1>3, <2>1 DEF malformed, UpdateDocument
<1>4. ASSUME NEW r \in BatchRequests, req = r
      PROVE  BatchUpdateDocuments(r)
  <2>1. req.op = "BatchUpdateDocuments"
    BY <1>4, DocumentRequestAssumption DEF BatchRequest
  <2> QED  BY <1>4, <2>1 DEF malformed, BatchUpdateDocuments
<1>5. ASSUME NEW r \in AcquireRequests, req = r
      PROVE  AcquireLock(r)
  <2>1. req.op = "AcquireLock"
    BY <1>5, LockRequestAssumption DEF LeaseRequest
  <2> QED  BY <1>5, <2>1 DEF malformed, AcquireLock
<1>6. ASSUME NEW r \in RenewRequests, req = r
      PROVE  RenewLock(r)
  <2>1. req.op = "RenewLock"
    BY <1>6, LockRequestAssumption DEF LeaseRequest
  <2> QED  BY <1>6, <2>1 DEF malformed, RenewLock
<1>7. ASSUME NEW r \in ReleaseRequests, req = r
      PROVE  ReleaseLock(r)
  <2>1. req.op = "ReleaseLock"
    BY <1>7, LockRequestAssumption DEF ReleaseRequest
  <2> QED  BY <1>7, <2>1 DEF malformed, ReleaseLock
<1>8. ASSUME req \in {[op |-> "ReapExpiredLocks"]} \cup {[op |-> op] : op \in ReadOps}
      PROVE  ReapExpiredLocks
  <2>1. req.op \in {"ReapExpiredLocks", "GetCollection", "ListCollections", "GetDocument",
                    "ListDocuments", "GetDocumentHistory", "GetLock", "ListAuditEvents"}
    BY <1>8, ThreadAssumption
  <2>2. malformed(req) = FALSE
    BY <2>1 DEF malformed
  <2> QED  BY <2>2 DEF ReapExpiredLocks
<1> QED
  BY <1>1, <1>2, <1>3, <1>4, <1>5, <1>6, <1>7, <1>8 DEF Calls, Next

LEMMA ThreadsStep ==
  ASSUME IInv, RequestsOK, [ThreadsNext]_threadVars
  PROVE  [Next]_vars
<1>1. ASSUME NEW t \in Thread, Decide(t)
      PROVE  Next
  <2>1. pc[t] = "locked" /\ Perform(request[t])
    BY <1>1 DEF Decide
  <2>2. request[t] \in Calls /\ request[t].op \notin ReadOps
    BY <2>1 DEF RequestsOK, IInv, Exclusion, isRead
  <2> QED  BY <2>1, <2>2, CallsByName
<1>2. ASSUME NEW t \in Thread, CheckCtx(t)
      PROVE  [Next]_vars
  <2>1. request[t] \in Calls
    BY <1>2 DEF CheckCtx, RequestsOK
  <2> QED  BY <1>2, <2>1, RefusedByName DEF CheckCtx
<1>3. ASSUME NEW t \in Thread,
             \/ Call(t) \/ Announce(t) \/ Enter(t) \/ Write(t) \/ Unlock(t)
             \/ RLock(t) \/ Copy(t) \/ RUnlock(t) \/ Finish(t)
      PROVE  UNCHANGED vars
  BY <1>3 DEF Call, Announce, Enter, Write, Unlock, letIn, RLock, Copy, RUnlock, Finish
<1>4. CASE TimePasses \/ UNCHANGED threadVars
  BY <1>4 DEF TimePasses, Next, threadVars
<1> QED
  BY <1>1, <1>2, <1>3, <1>4 DEF ThreadsNext, Advance

LEMMA MemoryFollows == IInv => MemoryIsService
<1> SUFFICES ASSUME IInv, NEW x \in TableNames
             PROVE  Tables[x] = IF \E t \in Thread : x \in pending(t)
                                THEN plan[CHOOSE t \in Thread : x \in pending(t)].tables[x]
                                ELSE memory[x]
  BY TablesAreARecord DEF MemoryIsService
<1>1. CASE \E t \in Thread : x \in pending(t)
  <2>1. PICK t \in Thread : t = CHOOSE u \in Thread : x \in pending(u)
    BY <1>1
  <2>2. pc[t] = "writing"
    BY <1>1, <2>1 DEF pending
  <2> QED  BY <1>1, <2>1, <2>2 DEF IInv, Lag
<1>2. CASE \A t \in Thread : x \notin pending(t)
  BY <1>2 DEF IInv, Lag, pending
<1> QED  BY <1>1, <1>2

(* Goroutines that share memory implement the service whose operations are *)
(* single actions (service.go:4-12).  The tables go through a behaviour of *)
(* Service, and they are no fiction: memory, with what the writer at work  *)
(* has yet to write, is what they say; who decides finds them in memory as *)
(* they are, and who reads copies them as they are at one moment.          *)
THEOREM ThreadsAreService ==
  ThreadsSpec =>
    Spec /\ [](MemoryIsService /\ DecisionsSeeSettledState /\ ReadsAreOfOneMoment)
<1>1. Init /\ ThreadsInit => RequestsOK
  BY DEF ThreadsInit, RequestsOK
<1>2. IInv /\ RequestsOK /\ [ThreadsNext]_threadVars => RequestsOK'
  BY RequestsStep
<1>3. IInv /\ RequestsOK /\ [ThreadsNext]_threadVars => [Next]_vars
  BY ThreadsStep
<1>4. IInv => MemoryIsService
  BY MemoryFollows
<1> QED
  BY <1>1, <1>2, <1>3, <1>4, IInvHolds, HandlersAreIndivisible, ReadsAreSnapshots, PTL
  DEF ThreadsSpec, Spec
=============================================================================
