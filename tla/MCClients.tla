------------------------------ MODULE MCClients ------------------------------
(***************************************************************************)
(* Pairs of clients of a document that has just been created: two that     *)
(* want its lock, two that edit it, and one that waits for the lock of     *)
(* another that may have crashed.                                          *)
(***************************************************************************)
EXTENDS MCService, Clients

Http(route, body, key) ==
  [route |-> route, collection |-> docs, document |-> d1, body |-> body,
   actor |-> "", key |-> key, holder |-> ""]

Edit(expected, actor, key) ==
  Http("UpdateDocument", Update(NoID, NoID, expected, "b", Nil, actor, NoKey), key)

OnLock(route, holder, key) ==
  Http(route, [holder |-> holder, seconds |-> 0, actor |-> "ann", key |-> NoKey], key)

(* Two leases of one client, its release in between; the other client      *)
(* wants the lock too.                                                     *)
LeaseScript ==
  "c1" :> <<OnLock("AcquireLock", "h1", "k11"), OnLock("ReleaseLock", "h1", "k12"),
            OnLock("AcquireLock", "h1", "k13")>>
    @@ "c2" :> <<OnLock("AcquireLock", "h2", "k21"), OnLock("RenewLock", "h2", "k22")>>

(* Both race for two versions of the document, and c4 may be too early: a  *)
(* copy of its first request arrives when its version has come.            *)
EditScript ==
  "c3" :> <<Edit(1, "ann", "k31"), Edit(2, "ann", "k32")>>
    @@ "c4" :> <<Edit(2, "bob", "k41"), Edit(2, "bob", "k42")>>

(* The holder may crash at any time; the other client asks again, without  *)
(* a key, until it gets the lock.                                          *)
WaitScript ==
  "c5" :> <<OnLock("AcquireLock", "h5", "k51")>>
    @@ "c6" :> <<OnLock("AcquireLock", "h6", NoKey), Edit(1, "bob", "k61"),
                 OnLock("ReleaseLock", "h6", "k62")>>

MCScript == LeaseScript @@ EditScript @@ WaitScript

MCClient == DOMAIN MCScript

ClientHolder == {"h1", "h2", "h5", "h6"}

ClientKey == {"k11", "k12", "k13", "k21", "k22", "k31", "k32", "k41", "k42",
              "k51", "k61", "k62"}

MCHttpRequests == UNION {Range(MCScript[c]) : c \in MCClient}

callsOf(route) == {call(h) : h \in {h \in MCHttpRequests : h.route = route}}
MCUpdate == callsOf("UpdateDocument")
MCAcquire == callsOf("AcquireLock")
MCRenew == callsOf("RenewLock")
MCRelease == callsOf("ReleaseLock")

NoRequests == {}

(* One of the three pairs has yet to send its requests.                    *)
MCInit ==
  /\ DocumentCreated
  /\ answer = respond("CreateDocument", reply)
  /\ ClientsInit
  /\ {c \in Client : ~ finished(c)}
       \in {DOMAIN LeaseScript, DOMAIN EditScript, DOMAIN WaitScript}

waits(c) == c \in DOMAIN WaitScript

(* Time stands still when no lease is left to end, for nothing depends on  *)
(* it then.  The clients that wait send again only when their request or   *)
(* the answer was lost, for an acquire that is sent again without a key    *)
(* renews the lease.  So for them the clock needs no bound.                *)
MCClientsNext ==
  \/ \E c \in Client : (waits(c) => unanswered(c)) /\ Send(c)
  \/ \E c \in Client : Deliver(c)
  \/ \E copy \in flight : Handle(copy) \/ Lose(copy)
  \/ /\ leaseToEnd
     /\ clock < MaxClock \/ \A c \in Client : ~ waits(c) => finished(c)
     /\ Elapse

MCClientsSpec == MCInit /\ [][MCClientsNext]_clientVars /\ Fairness
=============================================================================
