------------------------------- MODULE Clients -------------------------------
(***************************************************************************)
(* Clients of the HTTP interface on an unreliable network.  A client sends *)
(* the requests of its script one after the other.  When no answer comes   *)
(* it gives the request up and sends another copy of it; the copies given  *)
(* up are still on their way, and are handled late, in any order, or       *)
(* never, some with a context that has noticed that the client is gone.    *)
(* An answer may be lost.  A client that stops sending has crashed.        *)
(*                                                                         *)
(* The clients are not part of the repository: they do what the README     *)
(* ("Idempotency") expects of a client that retries.                       *)
(***************************************************************************)
EXTENDS Transport

CONSTANTS
  Client,
  script,        \* the requests of each client
  MaxCopies,     \* bound on the copies of a client's requests on their way
  Steady         \* the clients that do not crash

VARIABLES
  at,            \* the index of the request each client is at
  waiting,       \* the number of the copy it waits for, 0 if none
  flight,        \* the copies on their way to the server
  inbox,         \* the answer on its way to the client, or NoAnswer
  told,          \* the answers each client has got, one for each request
  given          \* every answer given to a copy of a write with a key

clientVars == <<vars, answer, at, waiting, flight, inbox, told, given>>

(* What client c sends first, second...: its script is made of requests.   *)
ASSUME ScriptAssumption == script \in [Client -> Seq(HttpRequests)]

(* The key that a request takes effect under; a read has none.             *)
keyGiven(h) ==
  IF h.route \in LockRoute \cup DocumentRoute /\ h.body # Undecodable
  THEN call(h).key ELSE NoKey

finished(c) == at[c] > Len(script[c])

awaited(c) == [client |-> c, step |-> at[c], number |-> waiting[c]]

unused(c) == {n \in 1 .. MaxCopies : \A m \in flight : m.client = c => m.number # n}
-----------------------------------------------------------------------------
(* Sends the request the client is at, for the first time or again; what   *)
(* was on its way to the client is lost with the connection.               *)
Send(c) ==
  /\ ~ finished(c)
  /\ \E n \in unused(c) :
       /\ waiting' = [waiting EXCEPT ![c] = n]
       /\ flight' = flight \cup {[client |-> c, step |-> at[c], number |-> n]}
  /\ inbox' = [inbox EXCEPT ![c] = NoAnswer]
  /\ UNCHANGED <<vars, answer, at, told, given>>

Lose(copy) ==
  /\ flight' = flight \ {copy}
  /\ UNCHANGED <<vars, answer, at, waiting, inbox, told, given>>

(* The server handles a copy.  Only the context of a copy that has been    *)
(* given up is ever cancelled.                                             *)
Handle(copy) ==
  LET c == copy.client
  IN  /\ Serve(script[c][copy.step])
      /\ flight' = flight \ {copy}
      /\ \/ /\ copy = awaited(c)
            /\ answer'.status # 503
            /\ inbox' = [inbox EXCEPT ![c] = answer']
         \/ copy # awaited(c) /\ UNCHANGED inbox
      /\ given' = IF \/ keyGiven(script[c][copy.step]) = NoKey
                     \/ answer' = NoAnswer \/ answer'.status = 503
                  THEN given
                  ELSE given \cup {[client |-> c, step |-> copy.step, answer |-> answer']}
      /\ UNCHANGED <<at, waiting, told>>

(* A client that is refused a lock asks again, if it has not named a key:  *)
(* under the same key it would be told of the same conflict for ever.      *)
asksAgain(c) ==
  LET h == script[c][at[c]]
  IN  h.route = "AcquireLock" /\ keyGiven(h) = NoKey /\ inbox[c].code = "lock_conflict"

Deliver(c) ==
  /\ inbox[c] # NoAnswer
  /\ IF asksAgain(c)
     THEN UNCHANGED <<at, told>>
     ELSE /\ at' = [at EXCEPT ![c] = @ + 1]
          /\ told' = [told EXCEPT ![c] = Append(@, inbox[c])]
  /\ waiting' = [waiting EXCEPT ![c] = 0]
  /\ inbox' = [inbox EXCEPT ![c] = NoAnswer]
  /\ UNCHANGED <<vars, answer, flight, given>>

Elapse == Tick /\ UNCHANGED <<answer, at, waiting, flight, inbox, told, given>>

(* Some of the clients have requests to send.                              *)
ClientsInit ==
  /\ \E busy \in SUBSET Client :
       at = [c \in Client |-> IF c \in busy THEN 1 ELSE Len(script[c]) + 1]
  /\ waiting = [c \in Client |-> 0]
  /\ flight = {}
  /\ inbox = [c \in Client |-> NoAnswer]
  /\ told = [c \in Client |-> <<>>]
  /\ given = {}

ClientsNext ==
  \/ \E c \in Client : Send(c) \/ Deliver(c)
  \/ \E copy \in flight : Handle(copy) \/ Lose(copy)
  \/ Elapse

ClientsSpec == TransportInit /\ ClientsInit /\ [][ClientsNext]_clientVars
-----------------------------------------------------------------------------
(* Time passes as long as a lease has yet to end, nothing stays on its way *)
(* for ever, and a client that does not crash sends again until it is      *)
(* answered: what it sends again and again is at last handled, and what it *)
(* is answered again and again at last arrives.  Nothing is assumed of the *)
(* other clients.                                                          *)

leaseToEnd == \E k \in DOMAIN locks : locks[k].expiresAt > clock

unanswered(c) == awaited(c) \notin flight /\ inbox[c] = NoAnswer

Fairness ==
  /\ WF_clientVars(leaseToEnd /\ Elapse)
  /\ WF_clientVars(\E copy \in flight : Lose(copy) \/ Handle(copy))
  /\ \A c \in Steady :
       /\ WF_clientVars(unanswered(c) /\ Send(c))
       /\ SF_clientVars(awaited(c) \in flight /\ Handle(awaited(c)))
       /\ SF_clientVars(Deliver(c))

(* A client that waits for a lock gets it and comes to the end of its      *)
(* script, although the holder has crashed and nobody reaps: the lease     *)
(* runs out, and the next acquire finds it so.                             *)
NobodyWaitsForever == \A c \in Steady : <>finished(c)
-----------------------------------------------------------------------------
(* "A repeated request with the same key and an identical body replays the *)
(* original result (success or error)" (README, "Idempotency"): all copies *)
(* of a write with a key that are answered are answered alike, whenever    *)
(* they are handled and whatever was handled in between.                   *)
RetriesAgree ==
  \A x, y \in given :
    (x.client = y.client /\ x.step = y.step) => x.answer = y.answer

(* A client's request i has a key that no other request uses.              *)
ownKey(c, i) ==
  /\ keyGiven(script[c][i]) # NoKey
  /\ \A d \in Client : \A j \in DOMAIN script[d] :
       keyGiven(script[d][j]) = keyGiven(script[c][i]) => d = c /\ j = i

eventsFor(h) == {i \in DOMAIN audit : audit[i].key = keyGiven(h)}

(* What a client was told of its update, under a key of its own, is the    *)
(* truth and stays so: one that was answered 200 is in the history, once,  *)
(* as the version in the answer, and one that was refused never takes      *)
(* effect, not even by a copy that arrives later.  So no acknowledged      *)
(* update is lost to another.                                              *)
UpdatesAreAsTold ==
  \A c \in Client : \A i \in DOMAIN told[c] :
    LET h == script[c][i]
        doc == told[c][i].value
        k == documentKey(h.collection, h.document)
    IN  h.route = "UpdateDocument" /\ ownKey(c, i) =>
          IF told[c][i].status = 200
          THEN /\ Cardinality(eventsFor(h)) = 1
               /\ history[k][doc.version].actor = call(h).actor
               /\ \A j \in eventsFor(h) : audit[j].details.to = doc.version
          ELSE eventsFor(h) = {}

leaseCalls(c) ==
  {i \in DOMAIN script[c] :
     script[c][i].route \in LockRoute /\ script[c][i].body # Undecodable}

(* A client that calls itself by a name that no other client uses, and     *)
(* gives what it does with leases, where it gives a key, one of its own.   *)
careful(c) ==
  \A i \in leaseCalls(c) :
    /\ keyGiven(script[c][i]) = NoKey \/ ownKey(c, i)
    /\ \A d \in Client \ {c} : \A j \in leaseCalls(d) :
         call(script[d][j]).holder # call(script[c][i]).holder

term(h) == NormalizeTTL(call(h).ttl)

sent(c, j) == j < at[c] \/ (j = at[c] /\ waiting[c] # 0)

(* Nothing that the client has sent since, and nothing that may take       *)
(* effect again for want of a key, gives a lease up or makes it shorter.   *)
lasting(c, i) ==
  \A j \in leaseCalls(c) :
    keyGiven(script[c][j]) = NoKey \/ (j > i /\ sent(c, j)) =>
      /\ script[c][j].route # "ReleaseLock"
      /\ term(script[c][j]) >= term(script[c][i])

(* The leases the client has been told of and has done nothing to lose, if *)
(* by its own clock they have not ended.                                   *)
believed(c) ==
  {i \in DOMAIN told[c] :
     /\ script[c][i].route \in {"AcquireLock", "RenewLock"}
     /\ told[c][i].status = 200
     /\ told[c][i].value.expiresAt > clock
     /\ lasting(c, i)}

(* A careful client that believes it holds a lease does, for as long as it *)
(* believes it: answers that arrive late, replayed ones included, and      *)
(* copies of requests it has forgotten do not mislead it.  So no two       *)
(* careful clients ever believe that they hold the same document.          *)
BeliefsAreTrue ==
  \A c \in Client : \A i \in believed(c) :
    LET h == script[c][i]
        k == documentKey(h.collection, h.document)
    IN  careful(c) =>
          /\ k \in leased
          /\ locks[k].holder = call(h).holder
          /\ locks[k].expiresAt >= told[c][i].value.expiresAt
=============================================================================
