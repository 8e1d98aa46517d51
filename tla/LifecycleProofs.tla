--------------------------- MODULE LifecycleProofs ---------------------------
(***************************************************************************)
(* That the reaper stops, for any set of requests and any number of ticks, *)
(* sweeps and leases.                                                      *)
(***************************************************************************)
EXTENDS Lifecycle, TLAPS

(* A sweep that is under way when the signal comes is the first late one.  *)
IInv ==
  /\ signalled \in BOOLEAN
  /\ lateSweeps \in {0, 1}
  /\ ~ signalled \/ reaper = "admitted" => lateSweeps = 0

LEMMA ReaperStep ==
  ASSUME IInv, TickerFires \/ Reaper
  PROVE  IInv'
<1> USE DEF IInv, process
<1>1. CASE TickerFires
  BY <1>1 DEF TickerFires
<1>2. CASE Receive
  BY <1>2 DEF Receive
<1>3. CASE Admit
  BY <1>3 DEF Admit
<1>4. CASE Sweep
  BY <1>4 DEF Sweep
<1> QED  BY <1>1, <1>2, <1>3, <1>4 DEF Reaper

LEMMA OtherStep ==
  ASSUME IInv,
         \/ Listen \/ ListenFails
         \/ \E h \in HttpRequests : Accept(h) \/ Handle(h) \/ Respond(h)
         \/ Signal \/ Main \/ DeadlinePasses \/ Elapse
  PROVE  IInv'
<1>1. UNCHANGED background /\ (signalled' = signalled \/ signalled' = TRUE)
  BY DEF Listen, ListenFails, Accept, Handle, Respond, Signal, Main, RunFails,
         BeginShutdown, EndShutdown, DeadlinePasses, Elapse, process
<1> QED  BY <1>1 DEF IInv, background

LEMMA IInvHolds == LifecycleSpec => []IInv
<1>1. LifecycleInit => IInv
  BY DEF LifecycleInit, IInv
<1>2. IInv /\ [LifecycleNext]_lifecycleVars => IInv'
  <2> SUFFICES ASSUME IInv, [LifecycleNext]_lifecycleVars PROVE IInv'
    OBVIOUS
  <2>1. CASE LifecycleNext
    BY <2>1, ReaperStep, OtherStep DEF LifecycleNext
  <2>2. CASE UNCHANGED lifecycleVars
    BY <2>2 DEF lifecycleVars, process, background, IInv
  <2> QED  BY <2>1, <2>2
<1> QED  BY <1>1, <1>2, PTL DEF LifecycleSpec

(* After the signal the reaper sweeps at most once (service.go:88-95).     *)
THEOREM ReaperStops == LifecycleSpec => []AtMostOneLateSweep
<1>1. IInv => AtMostOneLateSweep
  BY DEF IInv, AtMostOneLateSweep
<1> QED  BY <1>1, IInvHolds, PTL
=============================================================================
