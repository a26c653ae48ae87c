------------------------------ MODULE PeerNode ------------------------------
(***************************************************************************)
(* A peer of the cluster (internal/cluster/peer.go): its device records,   *)
(* the jobs it executes and its heartbeat to the leader.                   *)
(*                                                                         *)
(* All of it shares p.mu.  Its critical sections are single actions, but   *)
(* for sendHeartbeat: that function holds p.mu for reading over the whole  *)
(* exchange with the leader, and sendHeartbeatHTTP takes the mutex again.  *)
(* A Go RWMutex lets no new reader in while a writer waits, so a second    *)
(* RLock of the same goroutine may wait for ever, and a Lock surely does.  *)
(*                                                                         *)
(* An execution is one run of ExecuteJob, assigned by POST /jobs/assign or *)
(* started by the peer's own POST /flash, which asks nobody.               *)
(***************************************************************************)
CONSTANTS Boards,    \* paths of PeerNode.state.Devices
          PeerJobs,  \* job ids
          Execs,     \* runs of ExecuteJob: goroutines, reused when they ended
          NoJob,     \* a direct flash has no job id
          NoExec     \* a job that is not tracked; a free jobMutex

ASSUME PeerAssumption == NoJob \notin PeerJobs /\ NoExec \notin Execs

VARIABLES
  pdev,       \* PeerNode.state.Devices[b].Status; "absent": no record
  hb,         \* where the heartbeat goroutine is
  event,      \* the watcher event watchDevices has taken, None when it waits
  exec,       \* the executions
  active,     \* PeerNode.activeJobs: job id -> execution
  jm,         \* holder of PeerNode.jobMutex across an AssignJob
  disturbed   \* history: boards unplugged or replugged under an execution

jobState  == <<exec, active, jm>>
peerVars  == <<pdev, hb, event, exec, active, jm, disturbed>>

FreeExec == [pc |-> "free", job |-> NoJob, rep |-> FALSE]
NoPeerEvent == [type |-> "none"]
PeerBoardStatus == {"absent", "available", "busy"}
AtWork == {"flash", "ended", "report", "untrack", "release"}
ExecType ==
  [pc : {"free"}, job : {NoJob}, rep : BOOLEAN]
    \cup [pc : AtWork \cup {"mark"}, job : PeerJobs \cup {NoJob}, board : Boards, rep : BOOLEAN]

PeerTypeOK ==
  /\ pdev \in [Boards -> PeerBoardStatus]
  /\ hb \in {"idle", "check", "register", "selflock"}
  /\ event \in {NoPeerEvent} \cup [type : {"added", "removed"}, board : Boards]
  /\ exec \in [Execs -> ExecType]
  /\ active \in [PeerJobs -> Execs \cup {NoExec}]
  /\ jm \in Execs \cup {NoExec}
  /\ disturbed \subseteq Boards

\* Goroutines that have called p.mu.Lock and wait for it.
PeerWriterWaits ==
  \/ event # NoPeerEvent
  \/ \E e \in Execs : exec[e].rep \/ exec[e].pc \in {"mark", "ended", "release"}

PeerMayWrite == hb = "idle"
PeerMayRead  == ~ PeerWriterWaits

StepExec(e, pc) == exec' = [exec EXCEPT ![e].pc = pc]
EndExec(e) == exec' = [exec EXCEPT ![e] = [FreeExec EXCEPT !.rep = exec[e].rep]]
AssignedTo(b) == {e \in Execs : exec[e].pc \in AtWork /\ exec[e].job # NoJob /\ exec[e].board = b}
-----------------------------------------------------------------------------
(* The heartbeat.                                                           *)

\* sendHeartbeat takes p.mu for reading and keeps it until it returns.
HeartbeatStart ==
  /\ hb = "idle" /\ PeerMayRead
  /\ hb' = "check"
  /\ UNCHANGED <<pdev, event, jobState, disturbed>>

\* sendHeartbeatHTTP reads p.registered: the second RLock of this goroutine,
\* which waits behind a writer that waits for the first.
HeartbeatCheck ==
  /\ hb = "check" /\ PeerMayRead
  /\ hb' = "register"
  /\ UNCHANGED <<pdev, event, jobState, disturbed>>

\* The leader answers 200: the peer takes p.mu.Lock to note that it is
\* registered, holding it for reading.  There is no step after this one:
\* p.registered stays false, and no heartbeat follows a registration.
HeartbeatRegistered ==
  /\ hb = "register"
  /\ hb' = "selflock"
  /\ UNCHANGED <<pdev, event, jobState, disturbed>>

\* The leader is not there, refuses, or its answer does not come within 5 s.
HeartbeatFails ==
  /\ hb = "register"
  /\ hb' = "idle"
  /\ UNCHANGED <<pdev, event, jobState, disturbed>>
-----------------------------------------------------------------------------
(* The peer's own device records.                                           *)

TakeEvent(b, type) ==
  /\ event = NoPeerEvent
  /\ event' = [type |-> type, board |-> b]
  /\ UNCHANGED <<pdev, hb, jobState, disturbed>>

\* handleDeviceEvent: a plugged board is available, whatever it was before.
ApplyEvent ==
  /\ event # NoPeerEvent /\ PeerMayWrite
  /\ pdev' = [pdev EXCEPT ![event.board] = IF event.type = "added" THEN "available" ELSE "absent"]
  /\ disturbed' = IF AssignedTo(event.board) # {} THEN disturbed \cup {event.board} ELSE disturbed
  /\ event' = NoPeerEvent
  /\ UNCHANGED <<hb, jobState>>
-----------------------------------------------------------------------------
(* Jobs.                                                                    *)

\* Mutant: the status of the board is not looked at.
MutantAssignCheck(e, j, b) ==
  /\ exec[e] = FreeExec /\ jm = NoExec
  /\ active[j] = NoExec
  /\ PeerMayRead /\ pdev[b] # "absent"
  /\ jm' = e
  /\ exec' = [exec EXCEPT ![e] = [pc |-> "mark", job |-> j, board |-> b, rep |-> FALSE]]
  /\ UNCHANGED <<pdev, hb, event, active, disturbed>>

\* AssignJob up to its checks.  The job id must not be tracked, the board must
\* be there and available; jobMutex is kept to the end of the call.
AssignCheck(e, j, b) ==
  /\ exec[e] = FreeExec /\ jm = NoExec
  /\ active[j] = NoExec
  /\ PeerMayRead /\ pdev[b] = "available"
  /\ jm' = e
  /\ exec' = [exec EXCEPT ![e] = [pc |-> "mark", job |-> j, board |-> b, rep |-> FALSE]]
  /\ UNCHANGED <<pdev, hb, event, active, disturbed>>

\* Mutant: jobMutex is not unlocked on the path that succeeds.
MutantAssignMark(e) ==
  /\ exec[e].pc = "mark" /\ PeerMayWrite
  /\ active' = [active EXCEPT ![exec[e].job] = e]
  /\ pdev' = [pdev EXCEPT ![exec[e].board] = "busy"]
  /\ StepExec(e, "flash")
  /\ UNCHANGED <<hb, event, jm, disturbed>>

\* AssignJob tracks the job, stamps the record it read (and stores it again,
\* even when the board was unplugged meanwhile) and starts the execution.
AssignMark(e) ==
  /\ exec[e].pc = "mark" /\ PeerMayWrite
  /\ active' = [active EXCEPT ![exec[e].job] = e]
  /\ pdev' = [pdev EXCEPT ![exec[e].board] = "busy"]
  /\ jm' = NoExec
  /\ StepExec(e, "flash")
  /\ UNCHANGED <<hb, event, disturbed>>

\* The peer's own POST /flash: the board has a record, and that is all.
DirectFlash(e, b) ==
  /\ exec[e] = FreeExec
  /\ PeerMayRead /\ pdev[b] # "absent"
  /\ exec' = [exec EXCEPT ![e] = [pc |-> "flash", job |-> NoJob, board |-> b, rep |-> FALSE]]
  /\ UNCHANGED <<pdev, hb, event, active, jm, disturbed>>

\* The goroutine that copies the percentage to the job, under p.mu.
JobProgress(e) ==
  /\ exec[e].pc = "flash" /\ ~ exec[e].rep
  /\ exec' = [exec EXCEPT ![e].rep = TRUE]
  /\ UNCHANGED <<pdev, hb, event, active, jm, disturbed>>

JobProgressDone(e) ==
  /\ exec[e].rep /\ PeerMayWrite
  /\ exec' = [exec EXCEPT ![e].rep = FALSE]
  /\ UNCHANGED <<pdev, hb, event, active, jm, disturbed>>

\* Flash returned, after success, an error or the cancellation of its context.
FlashReturns(e) ==
  /\ exec[e].pc = "flash"
  /\ StepExec(e, "ended")
  /\ UNCHANGED <<pdev, hb, event, active, jm, disturbed>>

\* ExecuteJob notes the outcome; a direct flash is over.
NoteOutcome(e) ==
  /\ exec[e].pc = "ended" /\ PeerMayWrite
  /\ IF exec[e].job = NoJob THEN EndExec(e) ELSE StepExec(e, "report")
  /\ UNCHANGED <<pdev, hb, event, active, jm, disturbed>>

\* reportJobCompletion: the leader refuses (its Job.DeviceNode is empty), or
\* does not answer within 5 s; the peer goes on either way.
ReportOutcome(e) ==
  /\ exec[e].pc = "report"
  /\ StepExec(e, "untrack")
  /\ UNCHANGED <<pdev, hb, event, active, jm, disturbed>>

\* Mutant: the job stays tracked.
MutantUntrack(e) ==
  /\ exec[e].pc = "untrack" /\ jm = NoExec
  /\ StepExec(e, "release")
  /\ UNCHANGED <<pdev, hb, event, active, jm, disturbed>>

\* The deferred clean-up: by job id, whoever holds the entry now ...
Untrack(e) ==
  /\ exec[e].pc = "untrack" /\ jm = NoExec
  /\ active' = [active EXCEPT ![exec[e].job] = NoExec]
  /\ StepExec(e, "release")
  /\ UNCHANGED <<pdev, hb, event, jm, disturbed>>

\* Mutant: the board is not released after a failed job.
MutantReleaseBoard(e) ==
  /\ exec[e].pc = "release" /\ PeerMayWrite
  /\ \/ UNCHANGED pdev
     \/ pdev[exec[e].board] # "absent" /\ pdev' = [pdev EXCEPT ![exec[e].board] = "available"]
  /\ EndExec(e)
  /\ UNCHANGED <<hb, event, active, jm, disturbed>>

\* ... and by path, whoever has stamped the board since.
ReleaseBoard(e) ==
  /\ exec[e].pc = "release" /\ PeerMayWrite
  /\ pdev' = [pdev EXCEPT ![exec[e].board] = IF @ = "absent" THEN @ ELSE "available"]
  /\ EndExec(e)
  /\ UNCHANGED <<hb, event, active, jm, disturbed>>

\* CancelJob cancels the context and forgets the job; the execution ends in
\* its own time.
PeerCancel(j) ==
  /\ jm = NoExec /\ active[j] # NoExec
  /\ active' = [active EXCEPT ![j] = NoExec]
  /\ UNCHANGED <<pdev, hb, event, exec, jm, disturbed>>
-----------------------------------------------------------------------------
PeerInit ==
  /\ pdev = [b \in Boards |-> "absent"]
  /\ hb = "idle"
  /\ event = NoPeerEvent
  /\ exec = [e \in Execs |-> FreeExec]
  /\ active = [j \in PeerJobs |-> NoExec]
  /\ jm = NoExec
  /\ disturbed = {}

HeartbeatStep == HeartbeatStart \/ HeartbeatCheck \/ HeartbeatRegistered \/ HeartbeatFails

ExecStep(e) ==
  \/ AssignMark(e)
  \/ FlashReturns(e)
  \/ NoteOutcome(e)
  \/ ReportOutcome(e)
  \/ ReleaseBoard(e)

PeerNext ==
  \/ HeartbeatStep
  \/ \E b \in Boards, type \in {"added", "removed"} : TakeEvent(b, type)
  \/ ApplyEvent
  \/ \E e \in Execs : ExecStep(e) \/ Untrack(e) \/ JobProgress(e) \/ JobProgressDone(e)
  \/ \E e \in Execs, b \in Boards : DirectFlash(e, b) \/ \E j \in PeerJobs : AssignCheck(e, j, b)
  \/ \E j \in PeerJobs : PeerCancel(j)

PeerSpec == PeerInit /\ [][PeerNext]_peerVars

\* Requests end within 5 s; goroutines run on; a Go mutex does not starve a
\* goroutine that waits for it (jobMutex: strong fairness).
PeerFairness ==
  /\ WF_peerVars(HeartbeatCheck \/ HeartbeatRegistered \/ HeartbeatFails)
  /\ WF_peerVars(ApplyEvent)
  /\ \A e \in Execs : /\ WF_peerVars(ExecStep(e))
                      /\ WF_peerVars(JobProgressDone(e))
                      /\ SF_peerVars(Untrack(e))

PeerFairSpec == PeerSpec /\ PeerFairness
-----------------------------------------------------------------------------
(* Properties.                                                              *)

\* A board that was not unplugged under a job carries one assigned job at a
\* time, though its status is read, stamped and reset in separate critical
\* sections (peer.go AssignJob, executeJobAsync).
OneJobPerBoard ==
  \A b \in Boards \ disturbed : \A e, f \in AssignedTo(b) : e = f

\* Such a board shows busy exactly while it has a job: it is neither lost to
\* the next job nor handed out twice.
BusyIffAssigned ==
  \A b \in Boards \ disturbed : pdev[b] = "busy" <=> AssignedTo(b) # {}

\* A tracked job is one that is executing: what CancelJob finds is never a
\* leftover of an execution that is over.
TrackedIsExecuting ==
  \A j \in PeerJobs : active[j] # NoExec =>
    exec[active[j]].job = j /\ exec[active[j]].pc \in AtWork \ {"release"}

\* The heartbeat goroutine waits for itself, at once or through a writer.
HeartbeatStuck == hb = "selflock" \/ (hb = "check" /\ PeerWriterWaits)

\* An execution that was accepted ends, unless the heartbeat blocks p.mu.
ExecutionEnds ==
  \A e \in Execs : exec[e].pc # "free" ~> (exec[e].pc = "free" \/ HeartbeatStuck)

\* docs/cluster.md:404, heartbeat_interval = "5s": each heartbeat returns, so
\* that the ticker can start the next one.
HeartbeatReturns == hb # "idle" ~> hb = "idle"
=============================================================================
