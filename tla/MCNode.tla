------------------------------ MODULE MCNode ------------------------------
(***************************************************************************)
(* What a node keeps for its boards and their users: reservations          *)
(* (DeviceRegistry, under one goroutine), the peer's jobs and its          *)
(* heartbeat (PeerNode), auto sleep (DeviceSleep), the watcher with the    *)
(* operational mode (DeviceWatch), simulated boards (WokwiSession) and     *)
(* progress streams (FlashProgress).  They share no variable, so one run   *)
(* explores each from its own initial states: "part" says which, and the   *)
(* others rest in theirs, where no fair action is enabled (the watcher:    *)
(* paused).                                                                *)
(***************************************************************************)
EXTENDS PeerNode, DeviceSleep, DeviceWatch, WokwiSession, FlashProgress

CONSTANTS Paths, NoOwner, NoLock, Owners, Threads, Locks

VARIABLES part, devices, locks, status, calls, freed, granted, revoked

R == INSTANCE DeviceRegistry

registryVars == <<devices, locks, status, calls, freed, granted, revoked>>
nodeVars == <<part, registryVars, peerVars, sleepVars, watchVars, wokVars, progVars>>

Init ==
  /\ part \in {"registry", "peer", "sleep", "watch", "wokwi", "progress"}
  /\ R!Init /\ PeerInit /\ SleepInit /\ WokInit /\ ProgInit
  /\ part # "sleep" => power = Managed
  /\ IF part = "watch" THEN WatchInit ELSE WatchStart("operational", TRUE)

Next ==
  /\ UNCHANGED part
  /\ \/ part = "registry" /\ R!Next /\ UNCHANGED <<peerVars, sleepVars, watchVars, wokVars, progVars>>
     \/ part = "peer" /\ PeerNext /\ UNCHANGED <<registryVars, sleepVars, watchVars, wokVars, progVars>>
     \/ part = "sleep" /\ SleepNext /\ UNCHANGED <<registryVars, peerVars, watchVars, wokVars, progVars>>
     \/ part = "watch" /\ WatchNext /\ UNCHANGED <<registryVars, peerVars, sleepVars, wokVars, progVars>>
     \/ part = "wokwi" /\ WokNext /\ UNCHANGED <<registryVars, peerVars, sleepVars, watchVars, progVars>>
     \/ part = "progress" /\ ProgNext /\ UNCHANGED <<registryVars, peerVars, sleepVars, watchVars, wokVars>>

Spec == Init /\ [][Next]_nodeVars

\* The type invariants of the parts.
NodeTypeOK == PeerTypeOK /\ SleepTypeOK /\ WatchTypeOK /\ WokTypeOK /\ ProgTypeOK
-----------------------------------------------------------------------------
(* The liveness properties of the parts, each under the fairness of its own *)
(* part and in the behaviours of that part; in the others nothing of it     *)
(* moves.                                                                   *)

\* DeviceRegistry: a reservation ends even when its owner never comes back.
FairLeaseExpires == part = "registry" /\ R!Fairness => R!LeaseExpires

\* PeerNode: an execution ends, whatever heartbeats and device events do.
FairExecutionEnds == part = "peer" /\ PeerFairness => ExecutionEnds

\* DeviceSleep: a board that nobody uses any more is powered off.
FairIdleBoardSleeps == part = "sleep" /\ SleepFairness => IdleBoardSleeps

\* DeviceWatch: a record without a board vanishes.
FairGhostsVanish == part = "watch" /\ WatchFairness => GhostsVanish

\* DeviceWatch: discovery mode ends.
FairDiscoveryEnds == part = "watch" /\ WatchFairness => DiscoveryEnds

\* WokwiSession: a simulation and the streams of its output end.
FairSimulationEnds == part = "wokwi" /\ WokFairness => SimulationEnds

\* FlashProgress: a running job ends whoever watches it.
FairWatchedJobEnds == part = "progress" /\ ProgFairness => WatchedJobEnds
=============================================================================
