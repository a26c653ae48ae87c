----------------------------- MODULE NodeProofs -----------------------------
(***************************************************************************)
(* Proofs about a node and its boards: the jobs of a peer and the records  *)
(* that follow its ports, for every set of boards, jobs, executions and    *)
(* ports and every capacity of the watcher's channel; and the types of     *)
(* these, of the boards' sleep and of what ViewerProofs is about together. *)
(***************************************************************************)
EXTENDS MCNode, ViewerProofs

USE PeerAssumption

\* Execution e stands for an assigned job on board b.
Holds(e, b) == exec[e].pc \in AtWork /\ exec[e].job # NoJob /\ exec[e].board = b

\* jobMutex is held exactly by the execution between the checks and the stamp.
MarkHolds == \A e \in Execs : exec[e].pc = "mark" <=> jm = e

\* What is being assigned, or reports and cleans up, is a job.
HasJob ==
  \A e \in Execs : exec[e].pc \in {"mark", "report", "untrack", "release"} => exec[e].job # NoJob

\* A board that was not unplugged under a job: busy while it has its one job,
\* and nobody marks it meanwhile.
Quiet(b) ==
  /\ \A e, f \in Execs : Holds(e, b) /\ Holds(f, b) => e = f
  /\ pdev[b] = "busy" <=> \E e \in Execs : Holds(e, b)
  /\ \A e, f \in Execs : exec[e].pc = "mark" /\ exec[e].board = b => ~ Holds(f, b)

PeerInv ==
  /\ PeerTypeOK
  /\ MarkHolds /\ HasJob /\ TrackedIsExecuting
  /\ \A b \in Boards \ disturbed : Quiet(b)

LEMMA ExecFields ==
  ASSUME PeerTypeOK, NEW e \in Execs
  PROVE  /\ exec[e].rep \in BOOLEAN
         /\ exec[e].pc # "free" =>
              exec[e] \in [pc : AtWork \cup {"mark"}, job : PeerJobs \cup {NoJob},
                           board : Boards, rep : BOOLEAN]
  BY DEF PeerTypeOK, ExecType

\* An execution goes from one step to the next.
LEMMA Stepped ==
  ASSUME PeerTypeOK, NEW e \in Execs, NEW pc \in AtWork, exec[e].pc # "free", StepExec(e, pc)
  PROVE  /\ exec' \in [Execs -> ExecType]
         /\ exec'[e].pc = pc /\ exec'[e].job = exec[e].job /\ exec'[e].board = exec[e].board
         /\ exec'[e].rep = exec[e].rep
         /\ \A x \in Execs : x # e => exec'[x] = exec[x]
<1> DEFINE r == [exec[e] EXCEPT !.pc = pc]
<1>1. r \in ExecType /\ r.pc = pc /\ r.job = exec[e].job /\ r.board = exec[e].board /\ r.rep = exec[e].rep
  BY ExecFields DEF ExecType
<1>2. exec' = [exec EXCEPT ![e] = r]
  BY DEF StepExec
<1> HIDE DEF r
<1>3. QED
  BY <1>1, <1>2 DEF PeerTypeOK

\* An execution is over; its progress copy may still wait.
LEMMA Ended ==
  ASSUME PeerTypeOK, NEW e \in Execs, EndExec(e)
  PROVE  /\ exec' \in [Execs -> ExecType]
         /\ exec'[e].pc = "free" /\ exec'[e].rep = exec[e].rep
         /\ \A x \in Execs : x # e => exec'[x] = exec[x]
<1> DEFINE r == [FreeExec EXCEPT !.rep = exec[e].rep]
<1>1. r \in ExecType /\ r.pc = "free" /\ r.rep = exec[e].rep
  BY ExecFields DEF ExecType, FreeExec
<1>2. exec' = [exec EXCEPT ![e] = r]
  BY DEF EndExec
<1> HIDE DEF r
<1>3. QED
  BY <1>1, <1>2 DEF PeerTypeOK

\* A step of e that neither takes nor gives up a board.
LEMMA Moves ==
  ASSUME PeerInv, NEW e \in Execs, UNCHANGED <<pdev, disturbed>>,
         \A x \in Execs : x # e => exec'[x] = exec[x],
         \A b \in Boards : Holds(e, b)' <=> Holds(e, b),
         exec'[e].pc = "mark" => exec[e].pc = "mark" /\ exec'[e].board = exec[e].board
  PROVE  \A b \in Boards \ disturbed' : Quiet(b)'
<1> SUFFICES ASSUME NEW b \in Boards \ disturbed PROVE Quiet(b)'
  OBVIOUS
<1>1. Quiet(b)
  BY DEF PeerInv
<1>2. \A x \in Execs : Holds(x, b)' <=> Holds(x, b)
  BY DEF Holds
<1>3. \A x \in Execs : exec'[x].pc = "mark" => exec[x].pc = "mark" /\ exec'[x].board = exec[x].board
  OBVIOUS
<1>4. QED
  BY <1>1, <1>2, <1>3 DEF Quiet

LEMMA PeerInitInv == PeerInit => PeerInv
<1> SUFFICES ASSUME PeerInit PROVE PeerInv
  OBVIOUS
<1>1. \A e \in Execs : exec[e].pc = "free"
  BY DEF PeerInit, FreeExec
<1>2. PeerTypeOK
  BY DEF PeerInit, PeerTypeOK, FreeExec, ExecType, PeerBoardStatus, NoPeerEvent
<1>3. MarkHolds /\ HasJob /\ TrackedIsExecuting
  BY <1>1 DEF PeerInit, MarkHolds, HasJob, TrackedIsExecuting
<1>4. \A b \in Boards : Quiet(b)
  BY <1>1 DEF PeerInit, Quiet, Holds, AtWork
<1>5. QED
  BY <1>2, <1>3, <1>4 DEF PeerInv
-----------------------------------------------------------------------------
(* The heartbeat and the watcher leave the jobs alone.                      *)

LEMMA JobsUntouched ==
  ASSUME PeerInv, UNCHANGED <<pdev, exec, active, jm, disturbed>>
  PROVE  MarkHolds' /\ HasJob' /\ TrackedIsExecuting' /\ \A b \in Boards \ disturbed' : Quiet(b)'
<1>1. \A e \in Execs, b \in Boards : Holds(e, b)' <=> Holds(e, b)
  BY DEF Holds
<1>2. MarkHolds' /\ HasJob' /\ TrackedIsExecuting'
  BY DEF PeerInv, MarkHolds, HasJob, TrackedIsExecuting
<1>3. QED
  BY <1>1, <1>2 DEF PeerInv, Quiet

LEMMA HeartbeatInv ==
  ASSUME PeerInv, HeartbeatStep PROVE PeerInv'
<1>1. UNCHANGED <<pdev, event, exec, active, jm, disturbed>>
      /\ hb' \in {"idle", "check", "register", "selflock"}
  BY DEF HeartbeatStep, HeartbeatStart, HeartbeatCheck, HeartbeatRegistered, HeartbeatFails, jobState
<1>2. PeerTypeOK'
  BY <1>1 DEF PeerInv, PeerTypeOK
<1>3. QED
  BY <1>1, <1>2, JobsUntouched DEF PeerInv

LEMMA TakeEventInv ==
  ASSUME PeerInv, NEW b \in Boards, NEW type \in {"added", "removed"}, TakeEvent(b, type)
  PROVE  PeerInv'
<1>1. UNCHANGED <<pdev, hb, exec, active, jm, disturbed>> /\ event' = [type |-> type, board |-> b]
  BY DEF TakeEvent, jobState
<1>2. PeerTypeOK'
  BY <1>1 DEF PeerInv, PeerTypeOK
<1>3. QED
  BY <1>1, <1>2, JobsUntouched DEF PeerInv

\* The board is disturbed from now on if a job is on it, and free of jobs else.
LEMMA ApplyEventInv ==
  ASSUME PeerInv, ApplyEvent PROVE PeerInv'
<1> DEFINE c == event.board
           s == IF event.type = "added" THEN "available" ELSE "absent"
<1>1. /\ c \in Boards /\ s \in PeerBoardStatus \ {"busy"}
      /\ event' = NoPeerEvent /\ pdev' = [pdev EXCEPT ![c] = s]
      /\ UNCHANGED <<hb, exec, active, jm>>
      /\ disturbed' = IF AssignedTo(c) # {} THEN disturbed \cup {c} ELSE disturbed
  BY DEF ApplyEvent, PeerInv, PeerTypeOK, jobState, PeerBoardStatus
<1> HIDE DEF c, s
<1>2. PeerTypeOK'
  BY <1>1 DEF PeerInv, PeerTypeOK, NoPeerEvent
<1>3. MarkHolds' /\ HasJob' /\ TrackedIsExecuting'
  BY <1>1 DEF PeerInv, MarkHolds, HasJob, TrackedIsExecuting
<1>4. ASSUME NEW b \in Boards \ disturbed' PROVE Quiet(b)'
  <2>1. b \notin disturbed /\ Quiet(b)
    BY <1>1, <1>4 DEF PeerInv
  <2>2. \A e \in Execs : Holds(e, b)' <=> Holds(e, b)
    BY <1>1 DEF Holds
  <2>3. CASE b # c
    BY <1>1, <2>1, <2>2, <2>3 DEF Quiet, PeerInv, PeerTypeOK
  <2>4. CASE b = c
    <3>1. \A e \in Execs : ~ Holds(e, b)
      BY <1>1, <1>4, <2>4 DEF AssignedTo, Holds
    <3>2. pdev'[b] # "busy"
      BY <1>1, <2>4 DEF PeerInv, PeerTypeOK
    <3>3. QED
      BY <2>2, <3>1, <3>2 DEF Quiet
  <2>5. QED
    BY <2>3, <2>4
<1>5. QED
  BY <1>2, <1>3, <1>4 DEF PeerInv
-----------------------------------------------------------------------------
(* The jobs.                                                                *)

LEMMA AssignCheckInv ==
  ASSUME PeerInv, NEW e \in Execs, NEW j \in PeerJobs, NEW c \in Boards, AssignCheck(e, j, c)
  PROVE  PeerInv'
<1> DEFINE r == [pc |-> "mark", job |-> j, board |-> c, rep |-> FALSE]
<1>1. /\ exec[e].pc = "free" /\ jm = NoExec /\ pdev[c] = "available"
      /\ jm' = e /\ exec' = [exec EXCEPT ![e] = r]
      /\ UNCHANGED <<pdev, hb, event, active, disturbed>>
  BY DEF AssignCheck, FreeExec
<1>2. r \in ExecType /\ r.pc = "mark" /\ r.job # NoJob /\ r.board = c
  BY DEF ExecType
<1> HIDE DEF r
<1>3. exec'[e] = r /\ \A x \in Execs : x # e => exec'[x] = exec[x]
  BY <1>1 DEF PeerInv, PeerTypeOK
<1>4. PeerTypeOK'
  BY <1>1, <1>2 DEF PeerInv, PeerTypeOK
<1>5. MarkHolds' /\ HasJob'
  BY <1>1, <1>2, <1>3 DEF PeerInv, MarkHolds, HasJob
<1>6. TrackedIsExecuting'
  BY <1>1, <1>3 DEF PeerInv, PeerTypeOK, TrackedIsExecuting, AtWork
<1>7. ASSUME NEW b \in Boards \ disturbed' PROVE Quiet(b)'
  <2>1. Quiet(b)
    BY <1>1, <1>7 DEF PeerInv
  <2>2. \A x \in Execs : Holds(x, b)' <=> Holds(x, b)
    BY <1>1, <1>2, <1>3 DEF Holds, AtWork
  <2>3. b = c => \A x \in Execs : ~ Holds(x, b)
    BY <1>1, <2>1 DEF Quiet
  <2>4. \A x \in Execs : exec'[x].pc = "mark" /\ exec'[x].board = b =>
          b = c \/ (exec[x].pc = "mark" /\ exec[x].board = b)
    BY <1>2, <1>3
  <2>5. QED
    BY <1>1, <2>1, <2>2, <2>3, <2>4 DEF Quiet
<1>8. QED
  BY <1>4, <1>5, <1>6, <1>7 DEF PeerInv

LEMMA AssignMarkInv ==
  ASSUME PeerInv, NEW e \in Execs, AssignMark(e) PROVE PeerInv'
<1>1. /\ exec[e].pc = "mark" /\ StepExec(e, "flash") /\ jm' = NoExec
      /\ active' = [active EXCEPT ![exec[e].job] = e]
      /\ pdev' = [pdev EXCEPT ![exec[e].board] = "busy"]
      /\ UNCHANGED <<hb, event, disturbed>>
  BY DEF AssignMark
<1>2. jm = e /\ exec[e].job \in PeerJobs /\ exec[e].board \in Boards
  BY <1>1, ExecFields DEF PeerInv, MarkHolds, HasJob
<1>3. /\ exec' \in [Execs -> ExecType]
      /\ exec'[e].pc = "flash" /\ exec'[e].job = exec[e].job /\ exec'[e].board = exec[e].board
      /\ \A x \in Execs : x # e => exec'[x] = exec[x]
  BY <1>1, Stepped DEF PeerInv, AtWork
<1>4. PeerTypeOK'
  BY <1>1, <1>2, <1>3 DEF PeerInv, PeerTypeOK, PeerBoardStatus
<1>5. MarkHolds' /\ HasJob'
  BY <1>1, <1>2, <1>3 DEF PeerInv, MarkHolds, HasJob
<1>6. TrackedIsExecuting'
  BY <1>1, <1>2, <1>3 DEF PeerInv, PeerTypeOK, TrackedIsExecuting, AtWork
<1>7. ASSUME NEW b \in Boards \ disturbed' PROVE Quiet(b)'
  <2>1. Quiet(b)
    BY <1>1, <1>7 DEF PeerInv
  <2>2. \A x \in Execs : exec'[x].pc # "mark"
    BY <1>5, <1>1 DEF MarkHolds
  <2>3. \A x \in Execs : x # e => (Holds(x, b)' <=> Holds(x, b))
    BY <1>3 DEF Holds
  <2>4. CASE b = exec[e].board
    <3>1. \A x \in Execs : ~ Holds(x, b)
      BY <1>1, <2>1, <2>4 DEF Quiet
    <3>2. Holds(e, b)'
      BY <1>2, <1>3, <2>4 DEF Holds, AtWork
    <3>3. pdev'[b] = "busy"
      BY <1>1, <2>4 DEF PeerInv, PeerTypeOK
    <3>4. QED
      BY <2>2, <2>3, <3>1, <3>2, <3>3 DEF Quiet
  <2>5. CASE b # exec[e].board
    <3>1. ~ Holds(e, b) /\ ~ Holds(e, b)'
      BY <1>3, <2>5 DEF Holds
    <3>2. pdev'[b] = pdev[b]
      BY <1>1, <2>5 DEF PeerInv, PeerTypeOK
    <3>3. QED
      BY <2>1, <2>2, <2>3, <3>1, <3>2 DEF Quiet
  <2>6. QED
    BY <2>4, <2>5
<1>8. QED
  BY <1>4, <1>5, <1>6, <1>7 DEF PeerInv

LEMMA DirectFlashInv ==
  ASSUME PeerInv, NEW e \in Execs, NEW c \in Boards, DirectFlash(e, c)
  PROVE  PeerInv'
<1> DEFINE r == [pc |-> "flash", job |-> NoJob, board |-> c, rep |-> FALSE]
<1>1. /\ exec[e].pc = "free" /\ exec' = [exec EXCEPT ![e] = r]
      /\ UNCHANGED <<pdev, hb, event, active, jm, disturbed>>
  BY DEF DirectFlash, FreeExec
<1>2. r \in ExecType /\ r.pc = "flash" /\ r.job = NoJob
  BY DEF ExecType, AtWork
<1> HIDE DEF r
<1>3. exec'[e] = r /\ \A x \in Execs : x # e => exec'[x] = exec[x]
  BY <1>1 DEF PeerInv, PeerTypeOK
<1>4. PeerTypeOK'
  BY <1>1, <1>2 DEF PeerInv, PeerTypeOK
<1>5. MarkHolds' /\ HasJob'
  BY <1>1, <1>2, <1>3 DEF PeerInv, MarkHolds, HasJob
<1>6. TrackedIsExecuting'
  BY <1>1, <1>3 DEF PeerInv, PeerTypeOK, TrackedIsExecuting, AtWork
<1>7. \A b \in Boards : Holds(e, b)' <=> Holds(e, b)
  BY <1>1, <1>2, <1>3 DEF Holds, AtWork
<1>8. \A b \in Boards \ disturbed' : Quiet(b)'
  BY <1>1, <1>2, <1>3, <1>7, Moves
<1>9. QED
  BY <1>4, <1>5, <1>6, <1>8 DEF PeerInv

\* The copies of the percentage change no more than their own flag.
LEMMA ProgressInv ==
  ASSUME PeerInv, NEW e \in Execs, JobProgress(e) \/ JobProgressDone(e)
  PROVE  PeerInv'
<1>1. PICK v \in BOOLEAN : exec' = [exec EXCEPT ![e].rep = v]
  BY DEF JobProgress, JobProgressDone
<1>2. UNCHANGED <<pdev, hb, event, active, jm, disturbed>>
  BY DEF JobProgress, JobProgressDone
<1> DEFINE r == [exec[e] EXCEPT !.rep = v]
<1>3. r \in ExecType /\ r.pc = exec[e].pc /\ r.job = exec[e].job
      /\ (exec[e].pc # "free" => r.board = exec[e].board)
  BY DEF PeerInv, PeerTypeOK, ExecType
<1>4. exec' = [exec EXCEPT ![e] = r]
  BY <1>1
<1> HIDE DEF r
<1>5. exec'[e] = r /\ \A x \in Execs : x # e => exec'[x] = exec[x]
  BY <1>4 DEF PeerInv, PeerTypeOK
<1>6. PeerTypeOK'
  BY <1>2, <1>3, <1>4 DEF PeerInv, PeerTypeOK
<1>7. \A x \in Execs : exec'[x].pc = exec[x].pc /\ exec'[x].job = exec[x].job
  BY <1>3, <1>5
<1>8. MarkHolds' /\ HasJob' /\ TrackedIsExecuting'
  BY <1>2, <1>7 DEF PeerInv, PeerTypeOK, MarkHolds, HasJob, TrackedIsExecuting
<1>9. \A b \in Boards : Holds(e, b)' <=> Holds(e, b)
  BY <1>3, <1>5 DEF Holds, AtWork
<1>10. \A b \in Boards \ disturbed' : Quiet(b)'
  BY <1>2, <1>3, <1>5, <1>9, Moves
<1>11. QED
  BY <1>6, <1>8, <1>10 DEF PeerInv

\* The way from one step of an execution to the next, on the same board.
LEMMA WorkInv ==
  ASSUME PeerInv, NEW e \in Execs, NEW pc \in AtWork \ {"release"},
         exec[e].pc \in AtWork, pc = "ended" \/ exec[e].job # NoJob,
         StepExec(e, pc), UNCHANGED <<pdev, hb, event, active, jm, disturbed>>
  PROVE  PeerInv'
<1>1. /\ exec' \in [Execs -> ExecType]
      /\ exec'[e].pc = pc /\ exec'[e].job = exec[e].job /\ exec'[e].board = exec[e].board
      /\ \A x \in Execs : x # e => exec'[x] = exec[x]
  BY Stepped DEF PeerInv, AtWork
<1>2. PeerTypeOK'
  BY <1>1 DEF PeerInv, PeerTypeOK
<1>3. MarkHolds' /\ HasJob'
  BY <1>1 DEF PeerInv, MarkHolds, HasJob, AtWork
<1>4. TrackedIsExecuting'
  BY <1>1 DEF PeerInv, PeerTypeOK, TrackedIsExecuting
<1>5. \A b \in Boards : Holds(e, b)' <=> Holds(e, b)
  BY <1>1 DEF Holds
<1>6. exec'[e].pc # "mark"
  BY <1>1 DEF AtWork
<1>7. \A b \in Boards \ disturbed' : Quiet(b)'
  BY <1>1, <1>5, <1>6, Moves
<1>8. QED
  BY <1>2, <1>3, <1>4, <1>7 DEF PeerInv

LEMMA NoteOutcomeInv ==
  ASSUME PeerInv, NEW e \in Execs, NoteOutcome(e) PROVE PeerInv'
<1>1. exec[e].pc = "ended" /\ UNCHANGED <<pdev, hb, event, active, jm, disturbed>>
  BY DEF NoteOutcome
<1>2. CASE exec[e].job # NoJob
  <2>1. StepExec(e, "report")
    BY <1>2 DEF NoteOutcome
  <2>2. QED
    BY <1>1, <1>2, <2>1, WorkInv DEF AtWork
<1>3. CASE exec[e].job = NoJob
  <2>1. /\ exec' \in [Execs -> ExecType] /\ exec'[e].pc = "free"
        /\ \A x \in Execs : x # e => exec'[x] = exec[x]
    BY <1>3, Ended DEF NoteOutcome, PeerInv
  <2>2. PeerTypeOK'
    BY <1>1, <2>1 DEF PeerInv, PeerTypeOK
  <2>3. MarkHolds' /\ HasJob'
    BY <1>1, <2>1 DEF PeerInv, MarkHolds, HasJob
  <2>4. TrackedIsExecuting'
    BY <1>1, <1>3, <2>1 DEF PeerInv, PeerTypeOK, TrackedIsExecuting
  <2>5. \A b \in Boards : Holds(e, b)' <=> Holds(e, b)
    BY <1>3, <2>1 DEF Holds, AtWork
  <2>6. \A b \in Boards \ disturbed' : Quiet(b)'
    BY <1>1, <2>1, <2>5, Moves
  <2>7. QED
    BY <2>2, <2>3, <2>4, <2>6 DEF PeerInv
<1>4. QED
  BY <1>2, <1>3

\* The entry under the execution's job id goes, so no entry names it any more.
LEMMA UntrackInv ==
  ASSUME PeerInv, NEW e \in Execs, Untrack(e) PROVE PeerInv'
<1>1. /\ exec[e].pc = "untrack" /\ StepExec(e, "release")
      /\ active' = [active EXCEPT ![exec[e].job] = NoExec]
      /\ UNCHANGED <<pdev, hb, event, jm, disturbed>>
  BY DEF Untrack
<1>2. exec[e].job \in PeerJobs
  BY <1>1, ExecFields DEF PeerInv, HasJob
<1>3. /\ exec' \in [Execs -> ExecType]
      /\ exec'[e].pc = "release" /\ exec'[e].job = exec[e].job /\ exec'[e].board = exec[e].board
      /\ \A x \in Execs : x # e => exec'[x] = exec[x]
  BY <1>1, Stepped DEF PeerInv, AtWork
<1>4. PeerTypeOK'
  BY <1>1, <1>2, <1>3 DEF PeerInv, PeerTypeOK
<1>5. MarkHolds' /\ HasJob'
  BY <1>1, <1>2, <1>3 DEF PeerInv, MarkHolds, HasJob
<1>6. \A j \in PeerJobs : active'[j] # NoExec => active'[j] = active[j] /\ active[j] # e
  BY <1>1, <1>2 DEF PeerInv, PeerTypeOK, TrackedIsExecuting
<1>7. TrackedIsExecuting'
  BY <1>3, <1>6 DEF PeerInv, PeerTypeOK, TrackedIsExecuting
<1>8. \A b \in Boards : Holds(e, b)' <=> Holds(e, b)
  BY <1>1, <1>3 DEF Holds, AtWork
<1>9. \A b \in Boards \ disturbed' : Quiet(b)'
  BY <1>1, <1>3, <1>8, Moves
<1>10. QED
  BY <1>4, <1>5, <1>7, <1>9 DEF PeerInv

\* The board of the one job that was on it is available again.
LEMMA ReleaseBoardInv ==
  ASSUME PeerInv, NEW e \in Execs, ReleaseBoard(e) PROVE PeerInv'
<1> DEFINE c == exec[e].board
           s == IF pdev[c] = "absent" THEN "absent" ELSE "available"
<1>1. /\ exec[e].pc = "release" /\ EndExec(e) /\ UNCHANGED <<hb, event, active, jm, disturbed>>
      /\ pdev' = [pdev EXCEPT ![c] = s] /\ s \in PeerBoardStatus \ {"busy"}
  BY DEF ReleaseBoard, PeerBoardStatus
<1>2. Holds(e, c) /\ c \in Boards /\ \A b \in Boards : Holds(e, b) => b = c
  BY <1>1, ExecFields DEF PeerInv, HasJob, Holds, AtWork
<1> HIDE DEF c, s
<1>3. /\ exec' \in [Execs -> ExecType] /\ exec'[e].pc = "free"
      /\ \A x \in Execs : x # e => exec'[x] = exec[x]
  BY <1>1, Ended DEF PeerInv
<1>4. PeerTypeOK'
  BY <1>1, <1>3 DEF PeerInv, PeerTypeOK
<1>5. MarkHolds' /\ HasJob'
  BY <1>1, <1>3 DEF PeerInv, MarkHolds, HasJob
<1>6. TrackedIsExecuting'
  BY <1>1, <1>3 DEF PeerInv, PeerTypeOK, TrackedIsExecuting
<1>7. ASSUME NEW b \in Boards \ disturbed' PROVE Quiet(b)'
  <2>1. Quiet(b)
    BY <1>1, <1>7 DEF PeerInv
  <2>2. ~ Holds(e, b)' /\ \A x \in Execs : x # e => (Holds(x, b)' <=> Holds(x, b))
    BY <1>3 DEF Holds, AtWork
  <2>3. \A x \in Execs : exec'[x].pc = "mark" => exec'[x] = exec[x]
    BY <1>3
  <2>4. CASE b = c
    <3>1. \A x \in Execs : ~ Holds(x, b)'
      BY <1>2, <2>1, <2>2, <2>4 DEF Quiet
    <3>2. pdev'[b] # "busy"
      BY <1>1, <2>4 DEF PeerInv, PeerTypeOK
    <3>3. QED
      BY <3>1, <3>2 DEF Quiet
  <2>5. CASE b # c
    <3>1. pdev'[b] = pdev[b] /\ ~ Holds(e, b)
      BY <1>1, <1>2, <2>5 DEF PeerInv, PeerTypeOK
    <3>2. QED
      BY <2>1, <2>2, <2>3, <3>1 DEF Quiet
  <2>6. QED
    BY <2>4, <2>5
<1>8. QED
  BY <1>4, <1>5, <1>6, <1>7 DEF PeerInv

LEMMA PeerCancelInv ==
  ASSUME PeerInv, NEW j \in PeerJobs, PeerCancel(j) PROVE PeerInv'
<1>1. active' = [active EXCEPT ![j] = NoExec] /\ UNCHANGED <<pdev, hb, event, exec, jm, disturbed>>
  BY DEF PeerCancel
<1>2. PeerTypeOK'
  BY <1>1 DEF PeerInv, PeerTypeOK
<1>3. MarkHolds' /\ HasJob' /\ TrackedIsExecuting'
  BY <1>1 DEF PeerInv, PeerTypeOK, MarkHolds, HasJob, TrackedIsExecuting
<1>4. \A e \in Execs, b \in Boards : Holds(e, b)' <=> Holds(e, b)
  BY <1>1 DEF Holds
<1>5. QED
  BY <1>1, <1>2, <1>3, <1>4 DEF PeerInv, Quiet

LEMMA PeerInvStep == PeerInv /\ [PeerNext]_peerVars => PeerInv'
<1> SUFFICES ASSUME PeerInv, [PeerNext]_peerVars PROVE PeerInv'
  OBVIOUS
<1>1. CASE HeartbeatStep
  BY <1>1, HeartbeatInv
<1>2. CASE \E b \in Boards, type \in {"added", "removed"} : TakeEvent(b, type)
  BY <1>2, TakeEventInv
<1>3. CASE ApplyEvent
  BY <1>3, ApplyEventInv
<1>4. ASSUME NEW e \in Execs, ExecStep(e) \/ Untrack(e) \/ JobProgress(e) \/ JobProgressDone(e)
      PROVE  PeerInv'
  <2>1. CASE AssignMark(e)
    BY <2>1, AssignMarkInv
  <2>2. CASE FlashReturns(e)
    BY <2>2, WorkInv DEF FlashReturns, AtWork
  <2>3. CASE NoteOutcome(e)
    BY <2>3, NoteOutcomeInv
  <2>4. CASE ReportOutcome(e)
    <3>1. exec[e].job # NoJob
      BY <2>4 DEF ReportOutcome, PeerInv, HasJob
    <3>2. QED
      BY <2>4, <3>1, WorkInv DEF ReportOutcome, AtWork
  <2>5. CASE ReleaseBoard(e)
    BY <2>5, ReleaseBoardInv
  <2>6. CASE Untrack(e)
    BY <2>6, UntrackInv
  <2>7. CASE JobProgress(e) \/ JobProgressDone(e)
    BY <2>7, ProgressInv
  <2>8. QED
    BY <1>4, <2>1, <2>2, <2>3, <2>4, <2>5, <2>6, <2>7 DEF ExecStep
<1>5. CASE \E e \in Execs, b \in Boards : DirectFlash(e, b) \/ \E j \in PeerJobs : AssignCheck(e, j, b)
  BY <1>5, DirectFlashInv, AssignCheckInv
<1>6. CASE \E j \in PeerJobs : PeerCancel(j)
  BY <1>6, PeerCancelInv
<1>7. CASE UNCHANGED peerVars
  <2>1. UNCHANGED <<pdev, hb, event, exec, active, jm, disturbed>>
    BY <1>7 DEF peerVars
  <2>2. PeerTypeOK'
    BY <2>1 DEF PeerInv, PeerTypeOK
  <2>3. QED
    BY <2>1, <2>2, JobsUntouched DEF PeerInv
<1>8. QED
  BY <1>1, <1>2, <1>3, <1>4, <1>5, <1>6, <1>7 DEF PeerNext
-----------------------------------------------------------------------------
\* A peer's records, executions and tracked jobs keep their types, from its
\* start on (peer.go).
THEOREM PeerTypes == PeerSpec => []PeerTypeOK
<1>1. PeerInv => PeerTypeOK
  BY DEF PeerInv
<1>2. QED
  BY <1>1, PeerInitInv, PeerInvStep, PTL DEF PeerSpec

\* A board that was not unplugged under a job carries one assigned job at a
\* time (AssignJob, executeJobAsync): jobMutex covers the check and the stamp,
\* and only the job that stamped the board makes it available again.
THEOREM PeerOneJob == PeerSpec => []OneJobPerBoard
<1>1. PeerInv => OneJobPerBoard
  BY DEF PeerInv, Quiet, OneJobPerBoard, AssignedTo, Holds
<1>2. QED
  BY <1>1, PeerInitInv, PeerInvStep, PTL DEF PeerSpec

\* Such a board shows busy exactly while it has a job.
THEOREM PeerBusy == PeerSpec => []BusyIffAssigned
<1>1. ASSUME PeerInv, NEW b \in Boards \ disturbed
      PROVE  pdev[b] = "busy" <=> AssignedTo(b) # {}
  <2>1. pdev[b] = "busy" <=> \E e \in Execs : Holds(e, b)
    BY <1>1 DEF PeerInv, Quiet
  <2>2. AssignedTo(b) # {} <=> \E e \in Execs : Holds(e, b)
    BY DEF AssignedTo, Holds
  <2>3. QED
    BY <2>1, <2>2
<1>2. PeerInv => BusyIffAssigned
  BY <1>1 DEF BusyIffAssigned
<1>3. QED
  BY <1>2, PeerInitInv, PeerInvStep, PTL DEF PeerSpec

\* What CancelJob finds under a job id is an execution of that job that is
\* still to be cleaned up.
THEOREM PeerTracked == PeerSpec => []TrackedIsExecuting
<1>1. PeerInv => TrackedIsExecuting
  BY DEF PeerInv
<1>2. QED
  BY <1>1, PeerInitInv, PeerInvStep, PTL DEF PeerSpec
-----------------------------------------------------------------------------
(* The watcher: DeviceWatch.                                                  *)

USE WatchAssumption

Event == [type : {"added", "removed"}, port : Ports]

\* The last event about p in a list of events is of this type.
LastIn(q, type, p) ==
  \E i \in 1..Len(q) : /\ q[i] = [type |-> type, port |-> p]
                       /\ \A k \in 1..Len(q) : k > i => q[k].port # p
NoneIn(q, p) == \A i \in 1..Len(q) : q[i].port # p

\* Whether p has a record once the events in the list q have been handled.
WillExist(q, r, p)  == LastIn(q, "added", p) \/ (NoneIn(q, p) /\ p \in r)
WillVanish(q, r, p) == LastIn(q, "removed", p) \/ (NoneIn(q, p) /\ p \notin r)

Seen(p) == \E s \in Serials : seenAt[s] = p

\* The records, as the events on their way will leave them, are what was seen.
Settles ==
  \A p \in Ports :
    /\ Seen(p) => p \in lost \cup swapped \/ WillExist(events, rec, p)
    /\ ~ Seen(p) => p \in lost \/ WillVanish(events, rec, p)

\* What a scan has still to report.
ScanSound ==
  scan.pc = "report" =>
    /\ \A s \in scan.add : scan.found[s] \in Ports /\ seenAt[s] = NoPort
    /\ \A s \in scan.del :
         /\ seenAt[s] \in Ports
         /\ \A t \in Serials \ {s} : seenAt[t] = seenAt[s] \/ scan.found[t] = seenAt[s]
                                       => seenAt[s] \in swapped

WatchInv == WatchTypeOK /\ ScanSound /\ Settles
-----------------------------------------------------------------------------
(* Lists of events.                                                         *)

LEMMA AppendLast ==
  ASSUME NEW q \in Seq(Event), NEW e \in Event
  PROVE  /\ Append(q, e) \in Seq(Event) /\ Len(Append(q, e)) = Len(q) + 1
         /\ Append(q, e)[Len(q) + 1] = e
         /\ \A i \in 1..Len(q) : Append(q, e)[i] = q[i]
  OBVIOUS

\* An event decides about its own port and about no other.
LEMMA AppendDecides ==
  ASSUME NEW q \in Seq(Event), NEW type \in {"added", "removed"}, NEW p \in Ports, NEW r
  PROVE  LET n == Append(q, [type |-> type, port |-> p])
         IN  /\ LastIn(n, type, p)
             /\ \A o \in Ports \ {p} : /\ WillExist(q, r, o) => WillExist(n, r, o)
                                       /\ WillVanish(q, r, o) => WillVanish(n, r, o)
<1> DEFINE e == [type |-> type, port |-> p]
           n == Append(q, e)
<1>1. e \in Event /\ e.port = p
  BY DEF Event
<1> HIDE DEF e
<1>2. /\ n \in Seq(Event) /\ Len(n) = Len(q) + 1 /\ n[Len(q) + 1] = e
      /\ \A i \in 1..Len(q) : n[i] = q[i]
  BY <1>1, AppendLast
<1>3. Len(q) \in Nat
  OBVIOUS
<1> HIDE DEF n
<1>4. LastIn(n, type, p)
  <2>1. Len(n) \in 1..Len(n) /\ ~ \E k \in 1..Len(n) : k > Len(n)
    BY <1>2, <1>3
  <2>2. n[Len(n)] = [type |-> type, port |-> p]
    BY <1>2 DEF e
  <2>3. QED
    BY <2>1, <2>2 DEF LastIn
<1>5. ASSUME NEW o \in Ports \ {p} PROVE NoneIn(q, o) => NoneIn(n, o)
  BY <1>1, <1>2, <1>3 DEF NoneIn
<1>6. ASSUME NEW o \in Ports \ {p}, NEW t, LastIn(q, t, o) PROVE LastIn(n, t, o)
  <2>1. PICK i \in 1..Len(q) : /\ q[i] = [type |-> t, port |-> o]
                               /\ \A k \in 1..Len(q) : k > i => q[k].port # o
    BY <1>6 DEF LastIn
  <2>2. i \in 1..Len(n) /\ n[i] = [type |-> t, port |-> o]
    BY <1>2, <1>3, <2>1
  <2>3. \A k \in 1..Len(n) : k > i => n[k].port # o
    BY <1>1, <1>2, <1>3, <2>1
  <2>4. QED
    BY <2>2, <2>3 DEF LastIn
<1>7. QED
  BY <1>4, <1>5, <1>6 DEF WillExist, WillVanish, n, e

LEMMA TailShift ==
  ASSUME NEW q \in Seq(Event), q # <<>>
  PROVE  /\ Head(q) \in Event /\ Head(q) = q[1] /\ Len(q) \in Nat \ {0}
         /\ Tail(q) \in Seq(Event) /\ Len(Tail(q)) = Len(q) - 1
         /\ \A i \in 1..(Len(q) - 1) : Tail(q)[i] = q[i + 1]
  OBVIOUS

\* Handling the first event leaves what will be as it is.
LEMMA TailKeepsWill ==
  ASSUME NEW q \in Seq(Event), q # <<>>, NEW r, NEW n, NEW p \in Ports,
         n = IF Head(q).type = "added" THEN r \cup {Head(q).port} ELSE r \ {Head(q).port}
  PROVE  /\ WillExist(q, r, p) => WillExist(Tail(q), n, p)
         /\ WillVanish(q, r, p) => WillVanish(Tail(q), n, p)
<1> DEFINE t == Tail(q)
<1>1. /\ Head(q) \in Event /\ Head(q) = q[1] /\ Len(q) \in Nat \ {0}
      /\ Len(t) = Len(q) - 1 /\ \A i \in 1..(Len(q) - 1) : t[i] = q[i + 1]
  BY TailShift
<1>2. q[1].type \in {"added", "removed"} /\ q[1] = [type |-> q[1].type, port |-> q[1].port]
  BY <1>1 DEF Event
<1> HIDE DEF t
<1>3. ASSUME NoneIn(q, p) PROVE NoneIn(t, p) /\ q[1].port # p
  BY <1>1, <1>3 DEF NoneIn
<1>4. ASSUME NEW y \in {"added", "removed"}, LastIn(q, y, p)
      PROVE  LastIn(t, y, p) \/ (NoneIn(t, p) /\ q[1].port = p /\ q[1].type = y)
  <2>1. PICK i \in 1..Len(q) : /\ q[i] = [type |-> y, port |-> p]
                               /\ \A k \in 1..Len(q) : k > i => q[k].port # p
    BY <1>4 DEF LastIn
  <2>2. \A k \in 1..Len(t) : k + 1 \in 1..Len(q) /\ t[k] = q[k + 1]
    BY <1>1
  <2>3. CASE i = 1
    <3>1. NoneIn(t, p)
      BY <2>1, <2>2, <2>3 DEF NoneIn
    <3>2. QED
      BY <2>1, <2>3, <3>1
  <2>4. CASE i # 1
    <3>1. i - 1 \in 1..Len(t) /\ t[i - 1] = [type |-> y, port |-> p]
      BY <1>1, <2>1, <2>4
    <3>2. \A k \in 1..Len(t) : k > i - 1 => t[k].port # p
      BY <1>1, <2>1, <2>2
    <3>3. QED
      BY <3>1, <3>2 DEF LastIn
  <2>5. QED
    BY <2>3, <2>4
<1>5. n = IF q[1].type = "added" THEN r \cup {q[1].port} ELSE r \ {q[1].port}
  BY <1>1
<1>6. WillExist(q, r, p) => WillExist(t, n, p)
  BY <1>3, <1>4, <1>5 DEF WillExist
<1>7. WillVanish(q, r, p) => WillVanish(t, n, p)
  BY <1>2, <1>3, <1>4, <1>5 DEF WillVanish
<1>8. QED
  BY <1>6, <1>7 DEF t
-----------------------------------------------------------------------------
LEMMA WatchStartInv ==
  ASSUME NEW m \in {"discovery", "operational"}, NEW p0 \in BOOLEAN, WatchStart(m, p0)
  PROVE  WatchInv
<1>1. events = <<>> /\ Len(events) = 0 /\ events \in Seq(Event)
  BY DEF WatchStart
<1>2. WatchTypeOK
  <2>1. timer \in {"none", "live", "fired"} /\ late \in 0..MaxLate /\ Len(events) <= EventCap
    BY <1>1 DEF WatchStart
  <2>2. at \in [Serials -> Somewhere] /\ seenAt \in [Serials -> Somewhere]
    BY DEF WatchStart, Somewhere
  <2>3. QED
    BY <1>1, <2>1, <2>2 DEF WatchStart, WatchTypeOK, Event
<1>3. ScanSound
  BY DEF WatchStart, ScanSound, NoScan
<1>4. ASSUME NEW p \in Ports PROVE ~ Seen(p) /\ WillVanish(events, rec, p)
  <2>1. ~ Seen(p)
    BY DEF WatchStart, Seen
  <2>2. NoneIn(events, p) /\ p \notin rec
    BY <1>1 DEF WatchStart, NoneIn
  <2>3. QED
    BY <2>1, <2>2 DEF WillVanish
<1>5. QED
  BY <1>2, <1>3, <1>4 DEF WatchInv, Settles

LEMMA WatchInitInv == WatchInit => WatchInv
  BY WatchStartInv DEF WatchInit

\* Steps that the scan and the records do not notice.
LEMMA WatchQuiet ==
  ASSUME WatchInv, UNCHANGED <<seenAt, scan, events, rec, lost, swapped>>
  PROVE  ScanSound' /\ Settles'
<1>1. Settles'
  BY DEF WatchInv, Settles, Seen
<1>2. QED
  BY <1>1 DEF WatchInv, ScanSound

LEMMA BoardsInv ==
  ASSUME WatchInv, NEW s \in Serials, (\E p \in Ports : Plug(s, p)) \/ Unplug(s)
  PROVE  WatchInv'
<1>1. UNCHANGED <<seenAt, scan, events, rec, lost, swapped, mode, paused, timer, late>>
  BY DEF Plug, Unplug, modeVars
<1>a. PICK p \in Somewhere : at' = [at EXCEPT ![s] = p]
  BY DEF Plug, Unplug, Somewhere
<1>2. WatchTypeOK'
  BY <1>1, <1>a DEF WatchInv, WatchTypeOK, Somewhere
<1>3. QED
  BY <1>1, <1>2, WatchQuiet DEF WatchInv

LEMMA ModesInv ==
  ASSUME WatchInv, SetMode \/ TimerExpires \/ TimerCallback \/ LateCallback
  PROVE  WatchInv'
<1>1. UNCHANGED scanVars
  BY DEF SetMode, TimerExpires, TimerCallback, LateCallback, Switch
<1>2. mode' \in {"discovery", "operational"} /\ paused' \in BOOLEAN /\ timer' \in {"none", "live", "fired"}
  BY DEF WatchInv, WatchTypeOK, SetMode, TimerExpires, TimerCallback, LateCallback, Switch
<1>3. late' \in 0..MaxLate
  BY DEF WatchInv, WatchTypeOK, SetMode, TimerExpires, TimerCallback, LateCallback, Switch
<1>4. UNCHANGED <<at, seenAt, scan, events, rec, lost, swapped>>
  BY <1>1 DEF scanVars
<1>5. WatchTypeOK'
  BY <1>2, <1>3, <1>4 DEF WatchInv, WatchTypeOK, Queued
<1>6. QED
  BY <1>4, <1>5, WatchQuiet DEF WatchInv

LEMMA SampleInv ==
  ASSUME WatchInv, NEW unreadable \in SUBSET Serials, Sample(unreadable)
  PROVE  WatchInv'
<1> DEFINE f == [s \in Serials |-> IF s \in unreadable THEN NoPort ELSE at[s]]
<1>1. /\ scan' = [pc |-> "sampled", found |-> f]
      /\ UNCHANGED <<at, seenAt, events, rec, lost, swapped, mode, paused, timer, late>>
  BY DEF Sample, modeVars
<1>2. f \in [Serials -> Somewhere]
  BY DEF WatchInv, WatchTypeOK, Somewhere
<1> HIDE DEF f
<1>3. scan' \in [pc : {"sampled"}, found : [Serials -> Somewhere]] /\ scan'.pc = "sampled"
  BY <1>1, <1>2
<1>4. WatchTypeOK'
  BY <1>1, <1>3 DEF WatchInv, WatchTypeOK
<1>5. ScanSound' /\ Settles'
  BY <1>1, <1>3 DEF WatchInv, ScanSound, Settles, Seen
<1>6. QED
  BY <1>4, <1>5 DEF WatchInv

ReportType == [pc : {"report"}, found : [Serials -> Somewhere], add : SUBSET Serials, del : SUBSET Serials]

LEMMA CompareInv ==
  ASSUME WatchInv, Compare PROVE WatchInv'
<1> DEFINE add == {s \in Serials : scan.found[s] # NoPort /\ seenAt[s] = NoPort}
           del == {s \in Serials : scan.found[s] = NoPort /\ seenAt[s] # NoPort}
           sw == {p \in Ports : \E s \in del, t \in Serials :
                    seenAt[s] = p /\ t # s /\ (seenAt[t] = p \/ scan.found[t] = p)}
<1>1. /\ scan' = [pc |-> "report", found |-> scan.found, add |-> add, del |-> del]
      /\ swapped' = swapped \cup sw
      /\ UNCHANGED <<at, seenAt, events, rec, lost, mode, paused, timer, late>>
  BY DEF Compare, modeVars
<1>2. scan.found \in [Serials -> Somewhere] /\ seenAt \in [Serials -> Somewhere]
  BY DEF WatchInv, WatchTypeOK, Compare, NoScan
<1>3. /\ add \in SUBSET Serials /\ del \in SUBSET Serials /\ sw \in SUBSET Ports
      /\ \A s \in add : scan.found[s] \in Ports /\ seenAt[s] = NoPort
      /\ \A s \in del : seenAt[s] \in Ports
      /\ \A s \in del : \A t \in Serials \ {s} :
           seenAt[t] = seenAt[s] \/ scan.found[t] = seenAt[s] => seenAt[s] \in sw
  BY <1>2 DEF Somewhere
<1> HIDE DEF add, del, sw
<1>4. /\ scan' \in ReportType /\ scan'.pc = "report" /\ scan'.found = scan.found
      /\ scan'.add = add /\ scan'.del = del
  BY <1>1, <1>2, <1>3 DEF ReportType
<1>5. swapped' \subseteq Ports /\ swapped \subseteq swapped' /\ sw \subseteq swapped'
  BY <1>1, <1>3 DEF WatchInv, WatchTypeOK
<1>6. WatchTypeOK'
  BY <1>1, <1>4, <1>5 DEF WatchInv, WatchTypeOK, ReportType
<1>7. ScanSound'
  BY <1>1, <1>3, <1>4, <1>5 DEF ScanSound
<1>8. Settles'
  BY <1>1, <1>5 DEF WatchInv, Settles, Seen
<1>9. QED
  BY <1>6, <1>7, <1>8 DEF WatchInv

LEMMA ScanFields ==
  ASSUME WatchTypeOK, scan.pc = "report"
  PROVE  /\ scan \in ReportType
         /\ scan.found \in [Serials -> Somewhere] /\ scan.add \subseteq Serials /\ scan.del \subseteq Serials
<1>1. scan \in ReportType
  BY DEF WatchTypeOK, NoScan, ReportType
<1>2. QED
  BY <1>1 DEF ReportType

LEMMA SendTyped ==
  ASSUME WatchTypeOK, NEW type \in {"added", "removed"}, NEW p \in Ports, SendEvent(type, p)
  PROVE  /\ events' \in Seq(Event) /\ Len(events') <= EventCap /\ lost' \subseteq Ports
         /\ lost \subseteq lost'
         /\ \/ events' = Append(events, [type |-> type, port |-> p])
            \/ events' = events /\ p \in lost'
<1>1. events \in Seq(Event) /\ Len(events) <= EventCap /\ lost \subseteq Ports
  BY DEF WatchTypeOK, Event
<1>2. CASE Len(events) < EventCap
  <2>1. events' = Append(events, [type |-> type, port |-> p]) /\ lost' = lost
    BY <1>2 DEF SendEvent
  <2>2. [type |-> type, port |-> p] \in Event
    BY DEF Event
  <2>3. QED
    BY <1>1, <1>2, <2>1, <2>2, AppendLast
<1>3. CASE ~ (Len(events) < EventCap)
  BY <1>1, <1>3 DEF SendEvent
<1>4. QED
  BY <1>2, <1>3

\* What an event about port p leaves true of the other ports.
LEMMA OthersSettle ==
  ASSUME WatchInv, NEW type \in {"added", "removed"}, NEW p \in Ports, SendEvent(type, p),
         UNCHANGED <<rec, swapped>>, NEW o \in Ports \ {p}, Seen(o)' <=> Seen(o)
  PROVE  /\ Seen(o)' => o \in lost' \cup swapped' \/ WillExist(events', rec', o)
         /\ ~ Seen(o)' => o \in lost' \/ WillVanish(events', rec', o)
<1>1. /\ lost \subseteq lost'
      /\ \/ events' = Append(events, [type |-> type, port |-> p])
         \/ events' = events
  BY SendTyped DEF WatchInv
<1>2. events \in Seq(Event)
  BY DEF WatchInv, WatchTypeOK, Event
<1>3. /\ WillExist(events, rec, o) => WillExist(events', rec, o)
      /\ WillVanish(events, rec, o) => WillVanish(events', rec, o)
  <2>1. CASE events' = events
    BY <2>1
  <2>2. CASE events' = Append(events, [type |-> type, port |-> p])
    BY <1>2, <2>2, AppendDecides
  <2>3. QED
    BY <1>1, <2>1, <2>2
<1>4. QED
  BY <1>1, <1>3 DEF WatchInv, Settles

LEMMA ReportAddedInv ==
  ASSUME WatchInv, NEW s \in Serials, ReportAdded(s) PROVE WatchInv'
<1> DEFINE d == scan.add \ {s}
<1>0. PICK p \in Ports : p = scan.found[s]
  BY DEF WatchInv, ScanSound, ReportAdded
<1>1. /\ scan.pc = "report" /\ s \in scan.add /\ SendEvent("added", p)
      /\ seenAt' = [seenAt EXCEPT ![s] = p] /\ scan' = [scan EXCEPT !.add = d]
      /\ UNCHANGED <<at, rec, swapped, mode, paused, timer, late>>
  BY <1>0 DEF ReportAdded, modeVars
<1>2. seenAt[s] = NoPort
  BY <1>1 DEF WatchInv, ScanSound
<1>3. /\ scan \in ReportType /\ scan.found \in [Serials -> Somewhere]
      /\ scan.add \subseteq Serials /\ scan.del \subseteq Serials
  BY <1>1, ScanFields DEF WatchInv
<1>4. /\ scan' \in ReportType /\ scan'.pc = "report" /\ scan'.found = scan.found
      /\ scan'.add = d /\ scan'.del = scan.del
  BY <1>1, <1>3 DEF ReportType
<1>5. d \subseteq scan.add /\ s \notin d
  OBVIOUS
<1>6. seenAt'[s] = p /\ \A t \in Serials \ {s} : seenAt'[t] = seenAt[t]
  BY <1>1 DEF WatchInv, WatchTypeOK
<1>7. /\ events' \in Seq(Event) /\ Len(events') <= EventCap /\ lost' \subseteq Ports
      /\ \/ events' = Append(events, [type |-> "added", port |-> p])
         \/ p \in lost'
  BY <1>1, SendTyped DEF WatchInv
<1> HIDE DEF d
<1>8. WatchTypeOK'
  BY <1>1, <1>4, <1>7 DEF WatchInv, WatchTypeOK, Somewhere, ReportType, Event
<1>9. ScanSound'
  <2>1. \A u \in d : scan'.found[u] \in Ports /\ seenAt'[u] = NoPort
    BY <1>1, <1>3, <1>4, <1>5, <1>6 DEF WatchInv, ScanSound
  <2>2. ASSUME NEW u \in scan.del
        PROVE  /\ u # s /\ seenAt'[u] = seenAt[u] /\ seenAt[u] \in Ports
               /\ \A t \in Serials \ {u} : seenAt'[t] = seenAt[u] \/ scan.found[t] = seenAt[u]
                                             => seenAt[u] \in swapped
    <3>1. u \in Serials /\ seenAt[u] \in Ports /\ u # s
      BY <1>1, <1>2, <1>3 DEF WatchInv, ScanSound
    <3>2. \A t \in Serials \ {u} : seenAt'[t] = seenAt[t] \/ seenAt'[t] = scan.found[t]
      BY <1>0, <1>6
    <3>3. QED
      BY <1>1, <1>6, <3>1, <3>2 DEF WatchInv, ScanSound
  <2>3. QED
    BY <1>1, <1>4, <2>1, <2>2 DEF ScanSound
<1>10. Settles'
  <2>1. Seen(p)' /\ \A o \in Ports \ {p} : Seen(o)' <=> Seen(o)
    BY <1>2, <1>6 DEF Seen
  <2>2. events' = Append(events, [type |-> "added", port |-> p]) => LastIn(events', "added", p)
    <3>1. events \in Seq(Event)
      BY DEF WatchInv, WatchTypeOK, Event
    <3>2. QED
      BY <3>1, AppendDecides
  <2>3. p \in lost' \cup swapped' \/ WillExist(events', rec', p)
    BY <1>7, <2>2 DEF WillExist
  <2>4. \A o \in Ports \ {p} : /\ Seen(o)' => o \in lost' \cup swapped' \/ WillExist(events', rec', o)
                               /\ ~ Seen(o)' => o \in lost' \/ WillVanish(events', rec', o)
    BY <1>1, <2>1, OthersSettle
  <2>5. QED
    BY <2>1, <2>3, <2>4 DEF Settles
<1>11. QED
  BY <1>8, <1>9, <1>10 DEF WatchInv

LEMMA ReportRemovedInv ==
  ASSUME WatchInv, NEW s \in Serials, ReportRemoved(s) PROVE WatchInv'
<1> DEFINE d == scan.del \ {s}
<1>0. PICK p \in Ports : p = seenAt[s]
  BY DEF WatchInv, ScanSound, ReportRemoved
<1>1. /\ scan.pc = "report" /\ s \in scan.del /\ SendEvent("removed", p)
      /\ seenAt' = [seenAt EXCEPT ![s] = NoPort] /\ scan' = [scan EXCEPT !.del = d]
      /\ UNCHANGED <<at, rec, swapped, mode, paused, timer, late>>
  BY <1>0 DEF ReportRemoved, modeVars
<1>3. /\ scan \in ReportType /\ scan.found \in [Serials -> Somewhere]
      /\ scan.add \subseteq Serials /\ scan.del \subseteq Serials
  BY <1>1, ScanFields DEF WatchInv
<1>4. /\ scan' \in ReportType /\ scan'.pc = "report" /\ scan'.found = scan.found
      /\ scan'.add = scan.add /\ scan'.del = d
  BY <1>1, <1>3 DEF ReportType
<1>5. d \subseteq scan.del /\ s \notin d
  OBVIOUS
<1>6. seenAt'[s] = NoPort /\ \A t \in Serials \ {s} : seenAt'[t] = seenAt[t]
  BY <1>1 DEF WatchInv, WatchTypeOK
<1>7. /\ events' \in Seq(Event) /\ Len(events') <= EventCap /\ lost' \subseteq Ports
      /\ \/ events' = Append(events, [type |-> "removed", port |-> p])
         \/ p \in lost'
  BY <1>1, SendTyped DEF WatchInv
<1> HIDE DEF d
<1>8. WatchTypeOK'
  BY <1>1, <1>4, <1>7 DEF WatchInv, WatchTypeOK, Somewhere, ReportType, Event
<1>9. ScanSound'
  <2>1. \A u \in scan.add : scan'.found[u] \in Ports /\ seenAt'[u] = NoPort
    BY <1>1, <1>3, <1>4, <1>6 DEF WatchInv, ScanSound
  <2>2. ASSUME NEW u \in d
        PROVE  /\ seenAt'[u] = seenAt[u] /\ seenAt[u] \in Ports
               /\ \A t \in Serials \ {u} : seenAt'[t] = seenAt[u] \/ scan.found[t] = seenAt[u]
                                             => seenAt[u] \in swapped
    <3>1. u \in Serials /\ u \in scan.del /\ seenAt[u] \in Ports /\ u # s
      BY <1>1, <1>3, <1>5 DEF WatchInv, ScanSound
    <3>2. \A t \in Serials \ {u} : seenAt'[t] = seenAt[u] => seenAt'[t] = seenAt[t]
      BY <1>6, <3>1
    <3>3. QED
      BY <1>1, <1>6, <3>1, <3>2 DEF WatchInv, ScanSound
  <2>3. QED
    BY <1>1, <1>4, <2>1, <2>2 DEF ScanSound
<1>10. Settles'
  <2>1. \A o \in Ports \ {p} : Seen(o)' <=> Seen(o)
    BY <1>0, <1>6 DEF Seen
  <2>2. Seen(p)' => p \in swapped'
    BY <1>0, <1>1, <1>6 DEF Seen, WatchInv, ScanSound
  <2>3. events' = Append(events, [type |-> "removed", port |-> p]) => LastIn(events', "removed", p)
    <3>1. events \in Seq(Event)
      BY DEF WatchInv, WatchTypeOK, Event
    <3>2. QED
      BY <3>1, AppendDecides
  <2>4. p \in lost' \/ WillVanish(events', rec', p)
    BY <1>7, <2>3 DEF WillVanish
  <2>5. \A o \in Ports \ {p} : /\ Seen(o)' => o \in lost' \cup swapped' \/ WillExist(events', rec', o)
                               /\ ~ Seen(o)' => o \in lost' \/ WillVanish(events', rec', o)
    BY <1>1, <2>1, OthersSettle
  <2>6. QED
    BY <2>2, <2>4, <2>5 DEF Settles
<1>11. QED
  BY <1>8, <1>9, <1>10 DEF WatchInv

LEMMA ScanEndsInv ==
  ASSUME WatchInv, ScanEnds PROVE WatchInv'
<1>1. scan' = NoScan /\ UNCHANGED <<at, seenAt, events, rec, lost, swapped, mode, paused, timer, late>>
  BY DEF ScanEnds, modeVars
<1>2. WatchTypeOK'
  BY <1>1 DEF WatchInv, WatchTypeOK
<1>3. ScanSound' /\ Settles'
  BY <1>1 DEF WatchInv, ScanSound, NoScan, Settles, Seen
<1>4. QED
  BY <1>2, <1>3 DEF WatchInv

LEMMA HandleEventInv ==
  ASSUME WatchInv, HandleEvent PROVE WatchInv'
<1>1. /\ events # <<>> /\ events' = Tail(events)
      /\ rec' = IF Head(events).type = "added" THEN rec \cup {Head(events).port}
                                               ELSE rec \ {Head(events).port}
      /\ UNCHANGED <<at, seenAt, scan, lost, swapped, mode, paused, timer, late>>
  BY DEF HandleEvent, modeVars
<1>2. events \in Seq(Event) /\ Len(events) <= EventCap
  BY DEF WatchInv, WatchTypeOK, Event
<1>3. Head(events) \in Event /\ events' \in Seq(Event) /\ Len(events') = Len(events) - 1
  BY <1>1, <1>2, TailShift
<1>a. Head(events).port \in Ports /\ Len(events') <= EventCap
  BY <1>2, <1>3 DEF Event
<1>4. WatchTypeOK'
  BY <1>1, <1>3, <1>a DEF WatchInv, WatchTypeOK, Event
<1>5. ScanSound'
  BY <1>1 DEF WatchInv, ScanSound
<1>6. \A p \in Ports : /\ WillExist(events, rec, p) => WillExist(events', rec', p)
                       /\ WillVanish(events, rec, p) => WillVanish(events', rec', p)
  BY <1>1, <1>2, TailKeepsWill
<1>7. Settles'
  BY <1>1, <1>6 DEF WatchInv, Settles, Seen
<1>8. QED
  BY <1>4, <1>5, <1>7 DEF WatchInv

LEMMA WatchInvStep == WatchInv /\ [WatchNext]_watchVars => WatchInv'
<1> SUFFICES ASSUME WatchInv, [WatchNext]_watchVars PROVE WatchInv'
  OBVIOUS
<1>1. CASE \E s \in Serials, p \in Ports : Plug(s, p)
  BY <1>1, BoardsInv
<1>2. CASE \E s \in Serials : Unplug(s)
  BY <1>2, BoardsInv
<1>3. CASE \E s \in Serials : ReportAdded(s) \/ ReportRemoved(s)
  BY <1>3, ReportAddedInv, ReportRemovedInv
<1>4. CASE \E unreadable \in SUBSET Serials : Sample(unreadable)
  BY <1>4, SampleInv
<1>5. CASE Compare \/ ScanEnds \/ HandleEvent
  BY <1>5, CompareInv, ScanEndsInv, HandleEventInv
<1>6. CASE SetMode \/ TimerExpires \/ TimerCallback \/ LateCallback
  BY <1>6, ModesInv
<1>7. CASE UNCHANGED watchVars
  <2>1. UNCHANGED <<at, seenAt, scan, events, rec, lost, swapped, mode, paused, timer, late>>
    BY <1>7 DEF watchVars
  <2>2. WatchTypeOK'
    BY <2>1 DEF WatchInv, WatchTypeOK
  <2>3. QED
    BY <2>1, <2>2, WatchQuiet DEF WatchInv
<1>8. QED
  BY <1>1, <1>2, <1>3, <1>4, <1>5, <1>6, <1>7 DEF WatchNext
-----------------------------------------------------------------------------
\* The watcher, its channel and its timers keep their types (watcher.go,
\* leader.go SetMode), and the channel its capacity.
THEOREM WatchTypes == WatchSpec => []WatchTypeOK
<1>1. WatchInv => WatchTypeOK
  BY DEF WatchInv
<1>2. QED
  BY <1>1, WatchInitInv, WatchInvStep, PTL DEF WatchSpec

\* A record without a board, or a board without a record, has its event on the
\* way or has had it dropped (watcher.go:61), or shared a port within one scan.
THEOREM WatchRecordsFollow == WatchSpec => []RecordsFollow
<1>1. ASSUME WatchInv PROVE RecordBacked
  <2> SUFFICES ASSUME NEW p \in rec, ~ Seen(p), p \notin lost PROVE Queued("removed", p)
    BY DEF RecordBacked, Seen
  <2>1. p \in Ports /\ WillVanish(events, rec, p)
    BY <1>1 DEF WatchInv, WatchTypeOK, Settles
  <2>2. QED
    BY <2>1 DEF WillVanish, LastIn, Queued
<1>2. ASSUME WatchInv PROVE SeenIsRecorded
  <2> SUFFICES ASSUME NEW s \in Serials, seenAt[s] # NoPort,
                      seenAt[s] \notin rec \cup lost \cup swapped
               PROVE  Queued("added", seenAt[s])
    BY DEF SeenIsRecorded
  <2>1. seenAt[s] \in Ports /\ Seen(seenAt[s])
    BY <1>2 DEF WatchInv, WatchTypeOK, Somewhere, Seen
  <2>2. WillExist(events, rec, seenAt[s])
    BY <1>2, <2>1 DEF WatchInv, Settles
  <2>3. QED
    BY <2>2 DEF WillExist, LastIn, Queued
<1>3. WatchInv => RecordsFollow
  BY <1>1, <1>2 DEF RecordsFollow
<1>4. QED
  BY <1>3, WatchInitInv, WatchInvStep, PTL DEF WatchSpec
-----------------------------------------------------------------------------
(* The sleep of boards.                                                     *)

UseType == [pc : UserSteps, kind : {"job", "snap"}, board : Managed, mark : BOOLEAN]
RequestType == [pc : {"on", "onNote", "off", "offNote"}, board : Managed]

\* A job or a snapshot that is at a step has a board.
LEMMA UseTyped ==
  ASSUME SleepTypeOK, NEW u \in Users, NEW pc \in UserSteps, At(u, pc)
  PROVE  user[u] \in UseType /\ On(u) \in Managed
<1>1. user[u] \in {NoUse} \cup UseType
  BY DEF SleepTypeOK, UseType
<1>2. pc # "idle"
  BY DEF UserSteps
<1>3. QED
  BY <1>1, <1>2 DEF At, NoUse, On, UseType

UserTyped == user \in [Users -> {NoUse} \cup UseType]

LEMMA StepTyped ==
  ASSUME SleepTypeOK, NEW u \in Users, user[u] \in UseType, NEW pc \in UserSteps, StepUser(u, pc)
  PROVE  UserTyped'
<1>1. user \in [Users -> {NoUse} \cup UseType]
  BY DEF SleepTypeOK, UseType
<1>2. [user[u] EXCEPT !.pc = pc] \in UseType
  BY DEF UseType
<1>3. user' = [user EXCEPT ![u] = [user[u] EXCEPT !.pc = pc]]
  BY DEF StepUser
<1>4. QED
  BY <1>1, <1>2, <1>3 DEF UserTyped

LEMMA MoveTyped ==
  ASSUME SleepTypeOK, NEW u \in Users, NEW at0 \in UserSteps, At(u, at0),
         \/ Cycled(u) \/ Prepared(u)
         \/ \E pc \in UserSteps : StepUser(u, pc)
  PROVE  UserTyped'
<1>1. user[u] \in UseType
  BY UseTyped
<1>2. PICK pc \in UserSteps : StepUser(u, pc)
  BY DEF Cycled, Prepared, UserSteps
<1>3. QED
  BY <1>1, <1>2, StepTyped

LEMMA UserStepTyped == ASSUME SleepTypeOK, NEW u \in Users, UserStep(u) PROVE SleepTypeOK'
<1>1. PICK at0 \in UserSteps : At(u, at0)
  BY DEF UserStep, CycleCheck, CycleOff, CycleOn, CycleNote, SnapHold, WakeCheck, WakeOn, WakeNote,
         ReserveOrNot, UseEnds, ReleaseAfterOp, UserSteps
<1>2. user[u] \in UseType /\ On(u) \in Managed
  BY <1>1, UseTyped
<1>3. user \in [Users -> {NoUse} \cup UseType]
  BY DEF SleepTypeOK, UseType
<1>4. UserTyped'
  <2>1. CASE CycleCheck(u) \/ CycleOff(u) \/ CycleOn(u) \/ CycleNote(u) \/ SnapHold(u)
             \/ WakeCheck(u) \/ WakeOn(u) \/ WakeNote(u) \/ UseEnds(u)
    <3>1. Cycled(u) \/ Prepared(u) \/ \E pc \in UserSteps : StepUser(u, pc)
      BY <2>1 DEF CycleCheck, CycleOff, CycleOn, CycleNote, SnapHold, WakeCheck, WakeOn, WakeNote, UseEnds,
                  UserSteps
    <3>2. QED
      BY <1>1, <3>1, MoveTyped
  <2>2. CASE ReserveOrNot(u)
    <3>1. CASE StepUser(u, "run")
      BY <1>2, <3>1, StepTyped DEF UserSteps
    <3>2. CASE user' = [user EXCEPT ![u].pc = "run", ![u].mark = TRUE]
      <4>1. [user[u] EXCEPT !.pc = "run", !.mark = TRUE] \in UseType
        BY <1>2 DEF UseType, UserSteps
      <4>2. user' = [user EXCEPT ![u] = [user[u] EXCEPT !.pc = "run", !.mark = TRUE]]
        BY <3>2
      <4>3. QED
        BY <1>3, <4>1, <4>2 DEF UserTyped
    <3>3. QED
      BY <2>2, <3>1, <3>2 DEF ReserveOrNot
  <2>3. CASE ReleaseAfterOp(u)
    <3>1. [user[u] EXCEPT !.pc = "late"] \in UseType
      BY <1>2 DEF UseType, UserSteps
    <3>2. PICK x \in {NoUse} \cup UseType : user' = [user EXCEPT ![u] = x]
      BY <2>3, <3>1 DEF ReleaseAfterOp, Gone
    <3>3. QED
      BY <1>3, <3>2 DEF UserTyped
  <2>4. QED
    BY <2>1, <2>2, <2>3 DEF UserStep
<1>5. UNCHANGED <<sweep, request, seenOn, usbEvent>>
  BY DEF UserStep, CycleCheck, CycleOff, CycleOn, CycleNote, SnapHold, WakeCheck, WakeOn, WakeNote,
         ReserveOrNot, UseEnds, ReleaseAfterOp, usbVars
<1>6. /\ power' \subseteq Managed /\ sleeping' \subseteq Managed /\ busyFlag' \subseteq Managed
      /\ crossed' \subseteq Managed /\ stuck' \subseteq Managed
  <2>1. /\ power' \subseteq power \cup {On(u)} /\ sleeping' \subseteq sleeping
        /\ busyFlag' \subseteq busyFlag \cup {On(u)} /\ crossed' \subseteq crossed /\ stuck' \subseteq stuck
    BY DEF UserStep, CycleCheck, CycleOff, CycleOn, CycleNote, SnapHold, WakeCheck, WakeOn, WakeNote,
           ReserveOrNot, UseEnds, ReleaseAfterOp, managerVars
  <2>2. QED
    BY <1>2, <2>1 DEF SleepTypeOK
<1>7. lastUsed' \in [Managed -> {"never", "recent", "long"}]
  <2>1. UNCHANGED lastUsed \/ lastUsed' = [lastUsed EXCEPT ![On(u)] = "recent"]
    BY DEF UserStep, CycleCheck, CycleOff, CycleOn, CycleNote, SnapHold, WakeCheck, WakeOn, WakeNote,
           ReserveOrNot, UseEnds, ReleaseAfterOp, managerVars
  <2>2. QED
    BY <2>1 DEF SleepTypeOK
<1>8. holder' \in [Managed -> Users \cup {NoUser}]
  <2>1. \/ UNCHANGED holder \/ holder' = [holder EXCEPT ![On(u)] = u]
        \/ holder' = [b \in Managed |-> IF holder[b] = u THEN NoUser ELSE holder[b]]
    BY DEF UserStep, CycleCheck, CycleOff, CycleOn, CycleNote, SnapHold, WakeCheck, WakeOn, WakeNote,
           ReserveOrNot, UseEnds, ReleaseAfterOp
  <2>2. QED
    BY <2>1 DEF SleepTypeOK
<1>9. QED
  BY <1>4, <1>5, <1>6, <1>7, <1>8 DEF SleepTypeOK, UserTyped, UseType

LEMMA UsesTyped ==
  ASSUME SleepTypeOK,
         NEW u \in Users, MarkBusy(u) \/ \E b \in Managed, kind \in {"job", "snap"} : StartUse(u, b, kind)
  PROVE  SleepTypeOK'
<1>1. user \in [Users -> {NoUse} \cup UseType]
  BY DEF SleepTypeOK, UseType
<1>2. CASE MarkBusy(u)
  <2>1. user[u] \in UseType /\ On(u) \in Managed
    BY <1>1, <1>2 DEF MarkBusy, On, UseType
  <2>2. [user[u] EXCEPT !.mark = FALSE] \in UseType
    BY <2>1 DEF UseType
  <2>3. PICK x \in {NoUse} \cup UseType : user' = [user EXCEPT ![u] = x]
    BY <1>2, <2>2 DEF MarkBusy
  <2>4. user' \in [Users -> {NoUse} \cup UseType] /\ busyFlag' \subseteq Managed /\ stuck' \subseteq Managed
    <3>1. /\ busyFlag' = busyFlag \cup {On(u)} /\ busyFlag \subseteq Managed
          /\ stuck' \subseteq stuck \cup {On(u)} /\ stuck \subseteq Managed
      BY <1>2 DEF MarkBusy, SleepTypeOK
    <3>2. user' \in [Users -> {NoUse} \cup UseType]
      BY <1>1, <2>3
    <3>3. QED
      BY <2>1, <3>1, <3>2
  <2>5. UNCHANGED <<power, sleeping, lastUsed, holder, sweep, request, seenOn, usbEvent, crossed>>
    BY <1>2 DEF MarkBusy, usbVars
  <2>6. QED
    BY <2>4, <2>5 DEF SleepTypeOK, UseType
<1>3. CASE \E b \in Managed, kind \in {"job", "snap"} : StartUse(u, b, kind)
  <2>1. PICK x \in UseType : user' = [user EXCEPT ![u] = x]
    BY <1>3 DEF StartUse, UseType, UserSteps
  <2>2. user' \in [Users -> {NoUse} \cup UseType]
    BY <1>1, <2>1
  <2>3. UNCHANGED <<power, sleeping, busyFlag, lastUsed, holder, sweep, request, seenOn, usbEvent, crossed, stuck>>
    BY <1>3 DEF StartUse, managerVars, usbVars
  <2>4. QED
    BY <2>2, <2>3 DEF SleepTypeOK, UseType
<1>4. QED
  BY <1>2, <1>3

LEMMA SweeperTyped ==
  ASSUME SleepTypeOK,
         SweepSelect \/ \E b \in Managed : SweepSkips(b) \/ SweepOff(b) \/ SweepNote(b) \/ TimePasses(b)
  PROVE  SleepTypeOK'
<1>1. UNCHANGED <<busyFlag, user, holder, request, seenOn, usbEvent, stuck>>
  BY DEF SweepSelect, SweepSkips, SweepOff, SweepNote, TimePasses, managerVars, usbVars
<1>2. sweep' \in [left : SUBSET Managed, noting : SUBSET Managed]
  <2>1. sweep \in [left : SUBSET Managed, noting : SUBSET Managed]
    BY DEF SleepTypeOK
  <2>2. CASE SweepSelect
    BY <2>1, <2>2 DEF SweepSelect
  <2>3. CASE \E b \in Managed : SweepSkips(b) \/ SweepOff(b) \/ SweepNote(b) \/ TimePasses(b)
    BY <2>1, <2>3 DEF SweepSkips, SweepOff, SweepNote, TimePasses
  <2>4. QED
    BY <2>2, <2>3
<1>3. power' \subseteq Managed /\ sleeping' \subseteq Managed /\ crossed' \subseteq Managed
  BY DEF SweepSelect, SweepSkips, SweepOff, SweepNote, TimePasses, NoteAsleep, managerVars, SleepTypeOK
<1>4. lastUsed' \in [Managed -> {"never", "recent", "long"}]
  BY DEF SweepSelect, SweepSkips, SweepOff, SweepNote, TimePasses, managerVars, SleepTypeOK
<1>5. QED
  BY <1>1, <1>2, <1>3, <1>4 DEF SleepTypeOK

LEMMA RequestTyped ==
  ASSUME SleepTypeOK,
         \/ \E b \in Managed, to \in {"on", "off"} : RequestPower(b, to)
         \/ RequestEnds \/ RequestOn \/ RequestOff \/ RequestNote
  PROVE  SleepTypeOK'
<1>1. UNCHANGED <<busyFlag, lastUsed, user, holder, sweep, seenOn, usbEvent, stuck>>
  BY DEF RequestPower, RequestEnds, RequestOn, RequestOff, RequestNote, managerVars, usbVars
<1>2. request \in {NoUse} \cup RequestType
  BY DEF SleepTypeOK, RequestType
<1>3. CASE \E b \in Managed, to \in {"on", "off"} : RequestPower(b, to)
  <2>1. request' \in RequestType
    BY <1>3 DEF RequestPower, RequestType
  <2>2. UNCHANGED <<power, sleeping, crossed>>
    BY <1>3 DEF RequestPower, managerVars
  <2>3. QED
    BY <1>1, <2>1, <2>2 DEF SleepTypeOK, RequestType
<1>4. CASE RequestEnds
  BY <1>1, <1>4 DEF RequestEnds, SleepTypeOK, managerVars
<1>5. CASE RequestOn \/ RequestOff
  <2>1. request \in RequestType
    BY <1>2, <1>5 DEF RequestOn, RequestOff, NoUse
  <2>2. request' \in RequestType
    BY <1>5, <2>1 DEF RequestOn, RequestOff, RequestType
  <2>3. power' \subseteq Managed
    BY <1>5, <2>1 DEF RequestOn, RequestOff, RequestType, SleepTypeOK
  <2>4. UNCHANGED <<sleeping, crossed>>
    BY <1>5 DEF RequestOn, RequestOff, managerVars
  <2>5. QED
    BY <1>1, <2>2, <2>3, <2>4 DEF SleepTypeOK, RequestType
<1>6. CASE RequestNote
  <2>1. request \in RequestType
    BY <1>2, <1>6 DEF RequestNote, NoUse
  <2>2. request.board \in Managed
    BY <2>1 DEF RequestType
  <2>3. sleeping' \subseteq Managed /\ crossed' \subseteq Managed
    BY <1>6, <2>2 DEF RequestNote, NoteAsleep, SleepTypeOK
  <2>4. request' = NoUse /\ UNCHANGED power
    BY <1>6 DEF RequestNote
  <2>5. QED
    BY <1>1, <2>3, <2>4 DEF SleepTypeOK
<1>7. QED
  BY <1>3, <1>4, <1>5, <1>6

LEMMA UsbTyped ==
  ASSUME SleepTypeOK, NEW b \in Managed, Scan(b) \/ HandleUsbEvent(b)
  PROVE  SleepTypeOK'
<1>1. UNCHANGED <<power, busyFlag, lastUsed, user, sweep, request, stuck>>
  BY DEF Scan, HandleUsbEvent, managerVars
<1>2. usbEvent' \in [on : SUBSET Managed, off : SUBSET Managed]
  BY DEF Scan, HandleUsbEvent, SleepTypeOK
<1>3. seenOn' \subseteq Managed /\ sleeping' \subseteq Managed /\ crossed' \subseteq Managed
  BY DEF Scan, HandleUsbEvent, managerVars, SleepTypeOK
<1>4. holder' \in [Managed -> Users \cup {NoUser}]
  BY DEF Scan, HandleUsbEvent, SleepTypeOK
<1>5. QED
  BY <1>1, <1>2, <1>3, <1>4 DEF SleepTypeOK

LEMMA SleepInitTyped == SleepInit => SleepTypeOK
  BY DEF SleepInit, SleepTypeOK, NoUse, NoEvent

LEMMA SleepStep == SleepTypeOK /\ [SleepNext]_sleepVars => SleepTypeOK'
<1> SUFFICES ASSUME SleepTypeOK, [SleepNext]_sleepVars PROVE SleepTypeOK'
  OBVIOUS
<1>1. CASE UNCHANGED sleepVars
  BY <1>1 DEF sleepVars, SleepTypeOK
<1>2. CASE SleepNext
  BY <1>2, UserStepTyped, UsesTyped, SweeperTyped, RequestTyped, UsbTyped DEF SleepNext
<1>3. QED
  BY <1>1, <1>2

\* The switches, flags, requests and events of sleeping boards keep their types: what is
\* switched, noted or marked is always a managed board (manager.go, leader_sleep.go).
THEOREM SleepTypes == SleepSpec => []SleepTypeOK
  BY SleepInitTyped, SleepStep, PTL DEF SleepSpec
-----------------------------------------------------------------------------
(* The parts of a node together.                                            *)

NodeInv == PeerInv /\ WatchInv /\ SleepTypeOK /\ WokInv /\ ProgInv

\* What a node keeps for its boards and their users keeps its types, whichever part runs.
THEOREM NodeTypes == Spec => []NodeTypeOK
<1>1. Init => NodeInv
  <2> SUFFICES ASSUME Init PROVE NodeInv
    OBVIOUS
  <2>1. WatchInv
    BY WatchInitInv, WatchStartInv DEF Init
  <2>2. QED
    BY <2>1, PeerInitInv, SleepInitTyped, WokInitInv, ProgInitInv DEF Init, NodeInv
<1>2. NodeInv /\ [Next]_nodeVars => NodeInv'
  <2> SUFFICES ASSUME NodeInv, [Next]_nodeVars PROVE NodeInv'
    OBVIOUS
  <2>1. [PeerNext]_peerVars /\ [SleepNext]_sleepVars /\ [WatchNext]_watchVars /\ [WokNext]_wokVars
        /\ [ProgNext]_progVars
    BY DEF Next, nodeVars
  <2>2. QED
    BY <2>1, PeerInvStep, SleepStep, WatchInvStep, WokStep, ProgStep DEF NodeInv
<1>3. NodeInv => NodeTypeOK
  BY DEF NodeInv, NodeTypeOK, PeerInv, WatchInv, WokInv, ProgInv
<1>4. QED
  BY <1>1, <1>2, <1>3, PTL DEF Spec
=============================================================================
