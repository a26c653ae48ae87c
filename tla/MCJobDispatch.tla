--------------------------- MODULE MCJobDispatch ---------------------------
(***************************************************************************)
(* Jobs and those who ask for them: the leader's queue and executor        *)
(* (JobDispatch), the flash commands (FlashCommand) and the flash page     *)
(* (WebFlash).  They share no variable, so one run explores each from its  *)
(* own initial states: "part" says which.                                  *)
(***************************************************************************)
EXTENDS JobDispatch, FlashCommand, WebFlash, TLC

VARIABLE part

MCInit ==
  /\ part \in {"queue", "command", "page"}
  /\ Init /\ WebInit
  /\ CmdInit /\ (part # "command" => cmd.kind = "flash")

MCNext ==
  /\ UNCHANGED part
  /\ \/ part = "queue" /\ Next /\ UNCHANGED <<cmdVars, webVars>>
     \/ part = "command" /\ CmdNext /\ UNCHANGED <<vars, webVars>>
     \/ part = "page" /\ WebNext /\ UNCHANGED <<vars, cmdVars>>

MCSpec == MCInit /\ [][MCNext]_<<part, vars, cmdVars, webVars>>

\* The parts that have fair actions; no property waits for a command.
MCFairInit == MCInit /\ part # "command"
MCFairSpec ==
  /\ MCFairInit /\ [][MCNext]_<<part, vars, cmdVars, webVars>>
  /\ Fairness /\ WebFairness

\* The type invariants of the parts.
JobsTypeOK == TypeOK /\ CmdTypeOK /\ WebTypeOK

\* Jobs, clients, workers and images are each interchangeable.
Symmetry ==
  Permutations(Jobs) \cup Permutations(Clients) \cup Permutations(Workers)
    \cup Permutations(PageImages)
=============================================================================
