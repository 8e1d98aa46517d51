------------------------------ MODULE Lifecycle ------------------------------
(***************************************************************************)
(* The process (cmd/doclock/main.go, Server.Run in httpapi/server.go and   *)
(* StartReaper in service/service.go): the goroutine of main, the one that *)
(* listens, the reaper, and one goroutine for each request, around one     *)
(* service, from start to exit.                                            *)
(*                                                                         *)
(* External: net/http, whose Shutdown closes the listener, waits until no  *)
(* request is in flight, and gives up when its context ends, time.Ticker,  *)
(* whose channel holds one tick and drops the rest, and the signals.  The  *)
(* interval of the reaper and the ten seconds of the shutdown have no      *)
(* fixed relation to the length of a lease or of a request, so a tick may  *)
(* come and the deadline may pass at any time.                             *)
(***************************************************************************)
EXTENDS Transport

CONSTANT Reaping      \* whether the interval is positive (main.go:40)

VARIABLES
  signalled,     \* whether the context of main is done
  main,          \* "serving" in the select of Run, "shutdown" in Shutdown
  listener,      \* "starting", "open", "failed" with an error sent, "closed"
  deadline,      \* of the shutdown: "none", "set", "passed"
  exit,          \* how the process ended: "none" if it runs, "clean", "fatal"
  reaper,        \* "waiting" in its select, "called", "admitted", "off"
  ticked,        \* whether a tick is in the channel
  lateSweeps,    \* how often the reaper swept after the signal
  request        \* what has become of each request

process == <<signalled, main, listener, deadline, exit>>
background == <<reaper, ticked, lateSweeps>>
lifecycleVars == <<vars, answer, process, background, request>>

running == exit = "none"
inFlight == {h \in HttpRequests : request[h] \in {"accepted", "handled"}}
-----------------------------------------------------------------------------
(* The reaper.                                                             *)

TickerFires ==
  /\ running
  /\ reaper # "off"
  /\ ticked' = TRUE
  /\ UNCHANGED <<vars, answer, process, reaper, lateSweeps, request>>

(* With both channels ready the select takes either.                       *)
Receive ==
  /\ running
  /\ reaper = "waiting"
  /\ \/ signalled /\ reaper' = "off" /\ UNCHANGED ticked
     \/ ticked /\ ticked' = FALSE /\ reaper' = "called"
  /\ UNCHANGED <<vars, answer, process, lateSweeps, request>>

(* Seeded fault: the sweep does not look at its context.                   *)
AdmitAlways ==
  /\ running
  /\ reaper = "called"
  /\ reaper' = "admitted"
  /\ UNCHANGED <<vars, answer, process, ticked, lateSweeps, request>>

Admit ==
  /\ running
  /\ reaper = "called"
  /\ reaper' = IF signalled THEN "waiting" ELSE "admitted"
  /\ UNCHANGED <<vars, answer, process, ticked, lateSweeps, request>>

(* Seeded fault: the reaper sweeps once.                                   *)
SweepOnce ==
  /\ running
  /\ reaper = "admitted"
  /\ reapAll
  /\ reaper' = "off"
  /\ lateSweeps' = lateSweeps + IF signalled THEN 1 ELSE 0
  /\ UNCHANGED <<answer, process, ticked, request>>

Sweep ==
  /\ running
  /\ reaper = "admitted"
  /\ reapAll
  /\ reaper' = "waiting"
  /\ lateSweeps' = lateSweeps + IF signalled THEN 1 ELSE 0
  /\ UNCHANGED <<answer, process, ticked, request>>
-----------------------------------------------------------------------------
(* The listener and the requests.                                          *)

(* ListenAndServe after Shutdown returns at once, which is not an error.   *)
Listen ==
  /\ running
  /\ listener = "starting"
  /\ listener' = IF main = "shutdown" THEN "closed" ELSE "open"
  /\ UNCHANGED <<vars, answer, background, request, signalled, main, deadline, exit>>

ListenFails ==
  /\ running
  /\ listener \in {"starting", "open"}
  /\ main = "serving"
  /\ listener' = "failed"
  /\ UNCHANGED <<vars, answer, background, request, signalled, main, deadline, exit>>

Accept(h) ==
  /\ running
  /\ listener = "open"
  /\ request[h] = "unsent"
  /\ request' = [request EXCEPT ![h] = "accepted"]
  /\ UNCHANGED <<vars, answer, process, background>>

(* A request whose body never comes stays accepted: only the reading of    *)
(* the header has a time limit (server.go:81).                             *)
Handle(h) ==
  /\ running
  /\ request[h] = "accepted"
  /\ Serve(h)
  /\ request' = [request EXCEPT ![h] = "handled"]
  /\ UNCHANGED <<process, background>>

Respond(h) ==
  /\ running
  /\ request[h] = "handled"
  /\ request' = [request EXCEPT ![h] = "answered"]
  /\ UNCHANGED <<vars, answer, process, background>>
-----------------------------------------------------------------------------
(* main and Run.                                                           *)

Signal ==
  /\ running
  /\ signalled' = TRUE
  /\ UNCHANGED <<vars, answer, background, request, main, listener, deadline, exit>>

RunFails ==
  /\ running
  /\ main = "serving"
  /\ listener = "failed"
  /\ exit' = "fatal"
  /\ UNCHANGED <<vars, answer, background, request, signalled, main, listener, deadline>>

(* Seeded fault: the shutdown has the context without a deadline.          *)
BeginUnlimited ==
  /\ running
  /\ main = "serving"
  /\ signalled
  /\ main' = "shutdown"
  /\ listener' = IF listener = "open" THEN "closed" ELSE listener
  /\ UNCHANGED <<vars, answer, background, request, signalled, deadline, exit>>

BeginShutdown ==
  /\ running
  /\ main = "serving"
  /\ signalled
  /\ main' = "shutdown"
  /\ listener' = IF listener = "open" THEN "closed" ELSE listener
  /\ deadline' = "set"
  /\ UNCHANGED <<vars, answer, background, request, signalled, exit>>

EndShutdown ==
  /\ running
  /\ main = "shutdown"
  /\ \/ inFlight = {} /\ exit' = "clean"
     \/ deadline = "passed" /\ exit' = "fatal"
  /\ UNCHANGED <<vars, answer, background, request, signalled, main, listener, deadline>>

DeadlinePasses ==
  /\ running
  /\ deadline = "set"
  /\ deadline' = "passed"
  /\ UNCHANGED <<vars, answer, background, request, signalled, main, listener, exit>>

(* Time is of no interest when no lease is left to end.                    *)
Elapse ==
  /\ running
  /\ \E k \in DOMAIN locks : ~ IsExpired(locks[k], clock)
  /\ Tick
  /\ UNCHANGED <<answer, process, background, request>>
-----------------------------------------------------------------------------
LifecycleInit ==
  /\ signalled = FALSE
  /\ main = "serving"
  /\ listener = "starting"
  /\ deadline = "none"
  /\ exit = "none"
  /\ reaper = IF Reaping THEN "waiting" ELSE "off"
  /\ ticked = FALSE
  /\ lateSweeps = 0
  /\ request = [h \in HttpRequests |-> "unsent"]

Reaper == Receive \/ Admit \/ Sweep

Main == RunFails \/ BeginShutdown \/ EndShutdown

LifecycleNext ==
  \/ TickerFires \/ Reaper
  \/ Listen \/ ListenFails
  \/ \E h \in HttpRequests : Accept(h) \/ Handle(h) \/ Respond(h)
  \/ Signal \/ Main \/ DeadlinePasses
  \/ Elapse

LifecycleSpec == TransportInit /\ LifecycleInit /\ [][LifecycleNext]_lifecycleVars

(* Every goroutine that can take a step takes one, and time passes.        *)
(* Nothing is assumed of the requests: a client may stall for ever.        *)
LifecycleFairness ==
  /\ WF_lifecycleVars(TickerFires)
  /\ WF_lifecycleVars(Reaper)
  /\ WF_lifecycleVars(Main)
  /\ WF_lifecycleVars(DeadlinePasses)
  /\ WF_lifecycleVars(Elapse)
-----------------------------------------------------------------------------
(* As long as the process runs and has not been told to stop, the reaper   *)
(* sooner or later removes a lock that has ended and that no client        *)
(* touches, whatever the interval: a tick that is dropped because a sweep  *)
(* is under way is made up for by a later one (service.go:78-98).          *)
ExpiredAreReaped ==
  \A h \in HttpRequests :
    LET key == documentKey(h.collection, h.document)
    IN  key \in expired ~> (key \notin expired \/ signalled \/ ~ running)

(* A signal ends the process, even if a request never ends (server.go:93). *)
ShutdownEnds == signalled ~> ~ running

(* After the signal the reaper sweeps at most once, in the one call that   *)
(* had already looked at its context; from then on nobody reaps while the  *)
(* requests in flight are waited for, but the requests themselves.         *)
AtMostOneLateSweep == lateSweeps <= 1
=============================================================================
