-------------------------- MODULE MCDeviceRegistry --------------------------
(***************************************************************************)
(* What a leader knows of its boards: who holds them (DeviceRegistry) and  *)
(* which is which (DeviceCatalog). They share no variable, so one run      *)
(* explores each from its own initial states: "part" says which.           *)
(* Bounds: see README, "Runs".                                             *)
(***************************************************************************)
EXTENDS DeviceRegistry, DeviceCatalog, TLC

CONSTANT a1

VARIABLE part

registryVars == <<devices, locks, status, calls, freed, granted, revoked>>

MCMappings == {[id |-> NBoards + 1, aliases |-> {a1}, disabled |-> d] : d \in BOOLEAN}

MCInit ==
  /\ part \in {"registry", "catalog"}
  /\ Init
  /\ CatInit /\ (part = "registry" => cfg = [p \in Ports |-> NoCfg])

MCNext ==
  /\ UNCHANGED part
  /\ \/ part = "registry" /\ Next /\ UNCHANGED catVars
     \/ part = "catalog" /\ CatNext /\ UNCHANGED registryVars

MCSpec == MCInit /\ [][MCNext]_<<part, registryVars, catVars>>

\* The type invariants of the parts.
LeaderTypeOK == TypeOK /\ CatTypeOK

Symmetry == Permutations(Owners) \cup Permutations(Threads) \cup Permutations(Locks)

=============================================================================
