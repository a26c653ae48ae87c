----------------------------- MODULE JobDispatch -----------------------------
(***************************************************************************)
(* The path of a flash or erase job through the leader: the queue          *)
(* (internal/cluster/queue.go), the dispatcher and the maintenance loop    *)
(* (leader.go), the executor's channels and workers (executor.go), the     *)
(* result collector and job cancellation (leader_jobs.go), together with   *)
(* the other users of the same boards: flash reads, serial monitors and    *)
(* API clients, which reserve a board, use it and release it.              *)
(*                                                                         *)
(* The registry is seen through its owner on record; its lock objects are  *)
(* DeviceRegistry's.  A reservation and its status hook are one step here: *)
(* RecordStored may stamp any status between any two steps, so the window  *)
(* between lock and hook adds no status a job can meet.                    *)
(***************************************************************************)
EXTENDS Sequences, Naturals

CONSTANTS Jobs,      \* job ids
          Clients,   \* the other reservation owners
          Paths,     \* device paths
          Workers,   \* the executor's worker goroutines
          Unwanted,  \* the jobs somebody may cancel
          ChanCap,   \* capacity of the executor's two channels (100 in the code)
          NoOwner,   \* a free lock
          NoLock     \* no registry entry

ASSUME DispatchAssumption ==
  /\ NoOwner \notin Jobs \cup Clients \cup {NoLock}
  /\ NoLock \notin Jobs \cup Clients
  /\ Jobs \cap Clients = {}
  /\ Unwanted \subseteq Jobs
  /\ ChanCap \in Nat \ {0}

VARIABLES
  target,     \* Job.DevicePath, chosen when the job is enqueued
  jobStatus,  \* Job.Status; "new" before the job exists
  jobs,       \* the keys of JobQueue.jobs
  pending,    \* JobQueue.pending
  enqueuer,   \* where EnqueueJob stands for each job
  disp,       \* dispatchJobs: the single dispatcher goroutine
  queued,     \* JobExecutor.jobs, the channel to the workers
  workers,    \* JobExecutor.worker
  results,    \* JobExecutor.results, the channel to the collector
  coll,       \* handleJobResults: the single collector goroutine
  atPeer,     \* jobs a peer has accepted
  cancel,     \* CancelJob, between JobQueue.Cancel and the release
  owner,      \* the owner on record of a path
  status,     \* LeaderNode.state.Devices[p].Status
  claims,     \* <<p, c>>: client c was told it has p and still uses it
  revoked     \* <<p, o>>: p was freed under o, who still uses it or will

jobVars == <<target, jobStatus, jobs, pending, enqueuer, cancel>>
pipeVars == <<disp, queued, workers, results, coll, atPeer>>
boardVars == <<owner, status, claims, revoked>>
vars == <<jobVars, pipeVars, boardVars>>

Owners == Jobs \cup Clients
Idle == [pc |-> "idle"]
Active == {"pending", "assigned", "running"}
Terminal == {"completed", "failed", "cancelled"}
Result == [job : Jobs, ok : BOOLEAN]

TypeOK ==
  /\ target \in [Jobs -> Paths]
  /\ jobStatus \in [Jobs -> Active \cup Terminal \cup {"new"}]
  /\ jobs \subseteq Jobs
  /\ pending \in Seq(Jobs)
  /\ enqueuer \in [Jobs -> {"idle", "queued", "reserved", "refusing", "refused"}]
  /\ disp \in [pc : {"idle", "ready", "panicked"}]
         \cup [pc : {"claimed"}, job : Jobs]
         \cup [pc : {"located", "stamped"}, job : Jobs, local : BOOLEAN]
  /\ queued \in Seq(Jobs) /\ Len(queued) <= ChanCap
  /\ workers \in [Workers -> {Idle} \cup [pc : {"run"}, job : Jobs]
                               \cup [pc : {"done"}, job : Jobs, ok : BOOLEAN]]
  /\ results \in Seq(Result) /\ Len(results) <= ChanCap
  /\ coll \in {Idle} \cup [pc : {"released"}, job : Jobs, ok : BOOLEAN]
  /\ cancel \subseteq Jobs
  /\ atPeer \subseteq Jobs
  /\ owner \in [Paths -> Owners \cup {NoOwner, NoLock}]
  /\ status \in [Paths -> {"absent", "available", "busy"}]
  /\ claims \subseteq Paths \X Clients
  /\ revoked \subseteq Paths \X Owners
-----------------------------------------------------------------------------
(* The boards.                                                              *)

SetDeviceStatus(S, s) ==
  status' = [p \in Paths |-> IF p \in S /\ status[p] # "absent" THEN s ELSE status[p]]

\* DeviceRegistry.Reserve, granted: the lock is available, the hook stamps.
Reserve(p, o) ==
  /\ owner[p] = NoOwner
  /\ owner' = [owner EXCEPT ![p] = o]
  /\ revoked' = revoked \ {<<p, o>>}
  /\ SetDeviceStatus({p}, "busy")

\* Mutant: whoever releases frees the board, whoever has it.
MutantRelease(p, o) ==
  /\ owner' = [owner EXCEPT ![p] = IF @ = NoLock THEN @ ELSE NoOwner]
  /\ SetDeviceStatus({p}, "available")

\* DeviceRegistry.Release: nothing happens unless o is the owner on record.
Release(p, o) ==
  IF owner[p] = o
    THEN /\ owner' = [owner EXCEPT ![p] = NoOwner]
         /\ SetDeviceStatus({p}, "available")
    ELSE UNCHANGED <<owner, status>>

\* The reservations of S, as pairs.
HeldIn(S) == {<<p, owner[p]>> : p \in {q \in S : owner[q] \in Owners}}

\* They end without their owners knowing.
TakeAway(S) ==
  /\ owner' = [p \in Paths |-> IF p \in S /\ owner[p] # NoLock THEN NoOwner ELSE owner[p]]
  /\ revoked' = revoked \cup HeldIn(S)

\* A read, a monitor or an API client takes a board, uses it, gives it back.
ClientReserve(c, p) ==
  /\ Reserve(p, c)
  /\ claims' = claims \cup {<<p, c>>}
  /\ UNCHANGED <<jobVars, pipeVars>>

ClientRelease(c, p) ==
  /\ <<p, c>> \in claims
  /\ Release(p, c)
  /\ claims' = claims \ {<<p, c>>}
  /\ revoked' = revoked \ {<<p, c>>}
  /\ UNCHANGED <<jobVars, pipeVars>>

\* A record appears or is overwritten: a device event, a heartbeat, an API call.
RecordStored(p, s) ==
  /\ status' = [status EXCEPT ![p] = s]
  /\ owner' = [owner EXCEPT ![p] = IF @ = NoLock THEN NoOwner ELSE @]
  /\ UNCHANGED <<jobVars, pipeVars, claims, revoked>>

\* The board is plugged in again while its record exists.
Replugged(p) ==
  /\ status[p] # "absent"
  /\ TakeAway({p})
  /\ status' = [status EXCEPT ![p] = "available"]
  /\ UNCHANGED <<jobVars, pipeVars, claims>>

\* Unplugged, or its node left; the registry keeps the lock.
RecordRemoved(p) ==
  /\ status[p] # "absent"
  /\ status' = [status EXCEPT ![p] = "absent"]
  /\ UNCHANGED <<jobVars, pipeVars, owner, claims, revoked>>

\* cleanupUnidentifiedDevices drops record and lock of a board without identity.
Unregister(p) ==
  /\ status[p] # "absent"
  /\ owner' = [owner EXCEPT ![p] = NoLock]
  /\ revoked' = revoked \cup HeldIn({p})
  /\ status' = [status EXCEPT ![p] = "absent"]
  /\ UNCHANGED <<jobVars, pipeVars, claims>>

\* The leader frees a board under its owner: CleanupStaleReservations after 30
\* minutes, cleanupOrphanedDevices for a busy board without an active job, a
\* DELETE of the reservation without a client id.  Which of them applies when
\* depends on time and on stamps, so any reserved board may be hit.
CleanupStale(p) ==
  /\ owner[p] \in Owners
  /\ TakeAway({p})
  /\ SetDeviceStatus({p}, "available")
  /\ UNCHANGED <<jobVars, pipeVars, claims>>
-----------------------------------------------------------------------------
(* EnqueueJob and CancelJob.                                                *)

\* JobQueue.Complete: on the job the queue knows by that id, whatever its
\* status is.
Complete(j, ok) ==
  jobStatus' = IF j \in jobs
                 THEN [jobStatus EXCEPT ![j] = IF ok THEN "completed" ELSE "failed"]
                 ELSE jobStatus

\* EnqueueFlash / EnqueueErase, after the check that the board has a record:
\* the job is pending before its board is reserved.
Enqueue(j, p) ==
  /\ enqueuer[j] = "idle" /\ status[p] # "absent"
  /\ enqueuer' = [enqueuer EXCEPT ![j] = "queued"]
  /\ target' = [target EXCEPT ![j] = p]
  /\ jobStatus' = [jobStatus EXCEPT ![j] = "pending"]
  /\ jobs' = jobs \cup {j}
  /\ pending' = Append(pending, j)
  /\ UNCHANGED <<cancel, pipeVars, boardVars>>

\* reserveDeviceForJob, the Reserve call.
ReserveForJob(j) ==
  /\ enqueuer[j] = "queued"
  /\ \/ /\ Reserve(target[j], j)
        /\ enqueuer' = [enqueuer EXCEPT ![j] = "reserved"]
     \/ /\ owner[target[j]] # NoOwner
        /\ enqueuer' = [enqueuer EXCEPT ![j] = "refusing"]
        /\ UNCHANGED <<owner, status, revoked>>
  /\ UNCHANGED <<target, jobStatus, jobs, pending, cancel, pipeVars, claims>>

\* The refused job is failed; it stays in the pending list.
FailRefused(j) ==
  /\ enqueuer[j] = "refusing"
  /\ Complete(j, FALSE)
  /\ enqueuer' = [enqueuer EXCEPT ![j] = "refused"]
  /\ UNCHANGED <<target, jobs, pending, cancel, pipeVars, boardVars>>

\* CancelJob up to JobQueue.Cancel, which leaves the pending list alone.  The
\* caller's own check of the status is the one Cancel repeats.
CancelJob(j) ==
  /\ j \in (jobs \cap Unwanted) \ cancel /\ jobStatus[j] \notin Terminal
  /\ cancel' = cancel \cup {j}
  /\ jobStatus' = [jobStatus EXCEPT ![j] = "cancelled"]
  /\ UNCHANGED <<target, jobs, pending, enqueuer, pipeVars, boardVars>>

CancelRelease(j) ==
  /\ j \in cancel
  /\ Release(target[j], j)
  /\ revoked' = IF owner[target[j]] = j THEN revoked \cup {<<target[j], j>>} ELSE revoked
  /\ cancel' = cancel \ {j}
  /\ UNCHANGED <<target, jobStatus, jobs, pending, enqueuer, pipeVars, claims>>
-----------------------------------------------------------------------------
(* The dispatcher.                                                          *)

\* Mutant: the dispatcher wants more than one pending job.
MutantOpenGate ==
  /\ disp.pc = "idle" /\ Len(pending) > 1
  /\ \E p \in Paths : status[p] = "available"
  /\ disp' = [pc |-> "ready"]
  /\ UNCHANGED <<jobVars, queued, workers, results, coll, atPeer, boardVars>>

\* dispatchJobs: something is pending and some board, any board, is available.
OpenGate ==
  /\ disp.pc = "idle" /\ pending # <<>>
  /\ \E p \in Paths : status[p] = "available"
  /\ disp' = [pc |-> "ready"]
  /\ UNCHANGED <<jobVars, queued, workers, results, coll, atPeer, boardVars>>

\* Mutant: the dispatcher looks at the head and leaves it in the list.
MutantDequeue ==
  /\ disp.pc = "ready" /\ pending # <<>>
  /\ LET j == Head(pending)
     IN  /\ jobStatus' = [jobStatus EXCEPT ![j] = "assigned"]
         /\ disp' = [pc |-> "claimed", job |-> j]
  /\ UNCHANGED <<pending, target, jobs, enqueuer, cancel, queued, workers, results, coll,
                 atPeer, boardVars>>

\* JobQueue.Dequeue.  An id the queue has forgotten is a nil pointer.
Dequeue ==
  /\ disp.pc = "ready" /\ pending # <<>>
  /\ pending' = Tail(pending)
  /\ LET j == Head(pending)
     IN  IF j \in jobs
           THEN /\ jobStatus' = [jobStatus EXCEPT ![j] = "assigned"]
                /\ disp' = [pc |-> "claimed", job |-> j]
           ELSE /\ disp' = [pc |-> "panicked"]
                /\ UNCHANGED jobStatus
  /\ UNCHANGED <<target, jobs, enqueuer, cancel, queued, workers, results, coll, atPeer,
                 boardVars>>

\* getDeviceOwner: the record names this node or a peer; a board without a
\* record is taken for a local one.
Locate ==
  /\ disp.pc = "claimed"
  /\ \E local \in BOOLEAN :
       /\ status[target[disp.job]] = "absent" => local
       /\ disp' = [pc |-> "located", job |-> disp.job, local |-> local]
  /\ UNCHANGED <<jobVars, queued, workers, results, coll, atPeer, boardVars>>

\* The "busy" stamp; a board without a record is a nil pointer.
StampBusy ==
  /\ disp.pc = "located"
  /\ LET p == target[disp.job]
     IN  IF status[p] = "absent"
           THEN disp' = [pc |-> "panicked"] /\ UNCHANGED status
           ELSE disp' = [disp EXCEPT !.pc = "stamped"] /\ SetDeviceStatus({p}, "busy")
  /\ UNCHANGED <<jobVars, queued, workers, results, coll, atPeer, owner, claims, revoked>>

\* Mutant: a full channel drops the job instead of blocking the dispatcher.
MutantSubmit ==
  /\ disp.pc = "stamped" /\ disp.local
  /\ queued' = IF Len(queued) < ChanCap THEN Append(queued, disp.job) ELSE queued
  /\ disp' = Idle
  /\ UNCHANGED <<jobVars, workers, results, coll, atPeer, boardVars>>

\* Mutant: the channel has no bound.
MutantSubmitOver ==
  /\ disp.pc = "stamped" /\ disp.local
  /\ queued' = Append(queued, disp.job)
  /\ disp' = Idle
  /\ UNCHANGED <<jobVars, workers, results, coll, atPeer, boardVars>>

\* JobExecutor.Submit blocks while the channel is full.
Submit ==
  /\ disp.pc = "stamped" /\ disp.local
  /\ Len(queued) < ChanCap
  /\ queued' = Append(queued, disp.job)
  /\ disp' = Idle
  /\ UNCHANGED <<jobVars, workers, results, coll, atPeer, boardVars>>

\* dispatchJobToPeer: the peer accepted the job.  Its progress reports are
\* refused (they must come from Job.DeviceNode, which Dequeue("") left empty),
\* so the leader never hears of the end ...
PeerAccepts ==
  /\ disp.pc = "stamped" /\ ~ disp.local
  /\ atPeer' = atPeer \cup {disp.job}
  /\ disp' = Idle
  /\ UNCHANGED <<jobVars, queued, workers, results, coll, boardVars>>

\* ... or it is unknown, unreachable or refuses: ReleaseDevice only stamps the
\* record and leaves the reservation.
PeerFails ==
  /\ disp.pc = "stamped" /\ ~ disp.local
  /\ Complete(disp.job, FALSE)
  /\ SetDeviceStatus({target[disp.job]}, "available")
  /\ disp' = Idle
  /\ UNCHANGED <<target, jobs, pending, enqueuer, cancel, queued, workers, results, coll,
                 atPeer, owner, claims, revoked>>
-----------------------------------------------------------------------------
(* The executor and the collector.                                          *)

\* JobExecutor.worker takes a job, executeJob marks it running.
StartJob(w) ==
  /\ workers[w] = Idle /\ queued # <<>>
  /\ workers' = [workers EXCEPT ![w] = [pc |-> "run", job |-> Head(queued)]]
  /\ jobStatus' = [jobStatus EXCEPT ![Head(queued)] = "running"]
  /\ queued' = Tail(queued)
  /\ UNCHANGED <<target, jobs, pending, enqueuer, cancel, disp, results, coll, atPeer, boardVars>>

\* executeFlash / executeErase returned (the port is closed again, after at
\* most 10 or 15 minutes) and the status is set, whatever it was.
FinishJob(w, ok) ==
  /\ workers[w].pc = "run"
  /\ workers' = [workers EXCEPT ![w] = [pc |-> "done", job |-> workers[w].job, ok |-> ok]]
  /\ jobStatus' = [jobStatus EXCEPT ![workers[w].job] = IF ok THEN "completed" ELSE "failed"]
  /\ UNCHANGED <<target, jobs, pending, enqueuer, cancel, disp, queued, results, coll, atPeer,
                 boardVars>>

\* Mutant: a worker keeps one place of the channel free.
MutantSendResult(w) ==
  /\ workers[w].pc = "done" /\ Len(results) < ChanCap - 1
  /\ results' = Append(results, [job |-> workers[w].job, ok |-> workers[w].ok])
  /\ workers' = [workers EXCEPT ![w] = Idle]
  /\ UNCHANGED <<jobVars, disp, queued, coll, atPeer, boardVars>>

\* The result is handed over; the worker waits while the channel is full.
SendResult(w) ==
  /\ workers[w].pc = "done" /\ Len(results) < ChanCap
  /\ results' = Append(results, [job |-> workers[w].job, ok |-> workers[w].ok])
  /\ workers' = [workers EXCEPT ![w] = Idle]
  /\ UNCHANGED <<jobVars, disp, queued, coll, atPeer, boardVars>>

\* handleJobResults: first the reservation ...
Collect ==
  /\ coll = Idle /\ results # <<>>
  /\ LET r == Head(results)
     IN  /\ Release(target[r.job], r.job)
         /\ revoked' = revoked \ {<<target[r.job], r.job>>}
         /\ coll' = [pc |-> "released", job |-> r.job, ok |-> r.ok]
  /\ results' = Tail(results)
  /\ UNCHANGED <<jobVars, disp, queued, workers, atPeer, claims>>

\* ... then the queue.
CompleteJob ==
  /\ coll.pc = "released"
  /\ Complete(coll.job, coll.ok)
  /\ coll' = Idle
  /\ UNCHANGED <<target, jobs, pending, enqueuer, cancel, disp, queued, workers, results, atPeer,
                 boardVars>>
-----------------------------------------------------------------------------
(* Where a job stands: it is handed from the pending list to the dispatcher,
   the channel, a worker and the results channel, or to a peer.             *)
PendingAt(j) == {<<"pending", i>> : i \in {k \in DOMAIN pending : pending[k] = j}}
DispAt(j) ==
  IF disp.pc \in {"claimed", "located", "stamped"} /\ disp.job = j THEN {<<"dispatcher", 0>>} ELSE {}
QueuedAt(j) == {<<"queued", i>> : i \in {k \in DOMAIN queued : queued[k] = j}}
WorkerAt(j) == {<<"worker", w>> : w \in {x \in Workers : workers[x] # Idle /\ workers[x].job = j}}
ResultAt(j) == {<<"result", i>> : i \in {k \in DOMAIN results : results[k].job = j}}
PeerAt(j) == IF j \in atPeer THEN {<<"peer", 0>>} ELSE {}

Places(j) ==
  PendingAt(j) \cup DispAt(j) \cup QueuedAt(j) \cup WorkerAt(j) \cup ResultAt(j) \cup PeerAt(j)

\* CleanupOld: a finished job is forgotten after 24 hours.  No job stays with
\* the dispatcher or the executor that long, but a pending id may.
CleanupOld(j) ==
  /\ j \in jobs /\ jobStatus[j] \in Terminal
  /\ Places(j) \subseteq PendingAt(j)
  /\ jobs' = jobs \ {j}
  /\ UNCHANGED <<target, jobStatus, pending, enqueuer, cancel, pipeVars, boardVars>>
-----------------------------------------------------------------------------
Init ==
  /\ target \in [Jobs -> Paths]
  /\ \A i, j \in Jobs : target[i] = target[j]   \* no job has a board yet
  /\ jobStatus = [j \in Jobs |-> "new"]
  /\ jobs = {}
  /\ pending = <<>>
  /\ enqueuer = [j \in Jobs |-> "idle"]
  /\ disp = Idle
  /\ queued = <<>>
  /\ workers = [w \in Workers |-> Idle]
  /\ results = <<>>
  /\ coll = Idle
  /\ cancel = {}
  /\ atPeer = {}
  /\ owner = [p \in Paths |-> NoLock]
  /\ status = [p \in Paths |-> "absent"]
  /\ claims = {}
  /\ revoked = {}

Dispatcher ==
  OpenGate \/ Dequeue \/ Locate \/ StampBusy \/ Submit \/ PeerAccepts \/ PeerFails

Worker(w) == StartJob(w) \/ SendResult(w) \/ \E ok \in BOOLEAN : FinishJob(w, ok)

Collector == Collect \/ CompleteJob

Request(j) ==
  \/ \E p \in Paths : Enqueue(j, p)
  \/ ReserveForJob(j)
  \/ FailRefused(j)
  \/ CancelJob(j)
  \/ CancelRelease(j)

Board(p) ==
  \/ \E c \in Clients : ClientReserve(c, p) \/ ClientRelease(c, p)
  \/ \E s \in {"available", "busy"} : RecordStored(p, s)
  \/ Replugged(p)
  \/ RecordRemoved(p)
  \/ Unregister(p)

Maintenance ==
  \/ \E p \in Paths : CleanupStale(p)
  \/ \E j \in Jobs : CleanupOld(j)

\* A panic ends the process and everything in it.
Up == disp.pc # "panicked"

Next ==
  \/ Up /\ Dispatcher
  \/ \E w \in Workers : Up /\ Worker(w)
  \/ Up /\ Collector
  \/ \E j \in Jobs : Up /\ Request(j)
  \/ \E p \in Paths : Up /\ Board(p)
  \/ Up /\ Maintenance

Spec == Init /\ [][Next]_vars

\* The dispatcher ticks every second and each of its steps ends (a call to a
\* peer within 10 minutes); workers and the collector run on, and a flash or
\* an erase ends by its timeout.  Clients, boards and clean-ups owe nothing.
Fairness ==
  /\ WF_vars(Dispatcher)
  /\ \A w \in Workers : WF_vars(Worker(w))
  /\ WF_vars(Collector)

FairSpec == Spec /\ Fairness
-----------------------------------------------------------------------------
(* Properties.                                                              *)

\* A job is in one place at a time, so it is never executed by two workers and
\* its board is not released while a copy of it still runs.
SingleFlight == \A j \in Jobs : \A a, b \in Places(j) : a = b

\* A job that is shown as active is on its way: pending jobs are in the list,
\* running jobs on a worker, assigned jobs with the dispatcher, in a channel
\* or at a peer.  No job is dropped and shown as active for ever.
ActiveJobsTracked ==
  Up =>
    \A j \in Jobs :
      /\ jobStatus[j] = "pending" => PendingAt(j) # {}
      /\ jobStatus[j] = "running" => \E w \in Workers : workers[w] = [pc |-> "run", job |-> j]
      /\ jobStatus[j] = "assigned" => Places(j) # {}

\* A job keeps the reservation it was granted until its result is collected,
\* and a client until it releases, unless the job is cancelled or the leader
\* frees the board under them.
PortBacked ==
  /\ \A j \in Jobs : enqueuer[j] = "reserved" /\ Places(j) # {}
                       => owner[target[j]] = j \/ <<target[j], j>> \in revoked
  /\ \A cl \in claims : owner[cl[1]] = cl[2] \/ cl \in revoked

\* While some board stays available, every pending job is dispatched.
GateOpen == \E p \in Paths : status[p] = "available"
PendingIsDispatched ==
  <>[]GateOpen => \A j \in Jobs : PendingAt(j) # {} ~> (PendingAt(j) = {} \/ ~ Up)

\* What was submitted to the executor is executed and its result collected:
\* the two bounded channels never block each other.
InExecutor(j) == QueuedAt(j) \cup WorkerAt(j) \cup ResultAt(j) # {}
SubmittedIsCollected ==
  \A j \in Jobs : InExecutor(j) ~> (~ InExecutor(j) \/ ~ Up)

\* docs/flashing-implementation.md:152-153, "two clients can never both hold
\* the device": no two users whose reservation was not taken away have the
\* same port open.
Users(p) ==
  {j \in Jobs : target[j] = p /\ \E w \in Workers : workers[w] = [pc |-> "run", job |-> j]}
    \cup {c \in Clients : <<p, c>> \in claims}
ExclusivePort ==
  \A p \in Paths : \A u, v \in {x \in Users(p) : <<p, x>> \notin revoked} : u = v

\* docs/cluster.md:366, "Peer offline: Job marked as failed, device released":
\* when the hand-over to a peer fails, the job has its board no longer.
PeerOfflineReleases ==
  [][disp.pc = "stamped" /\ disp' = Idle /\ jobStatus'[disp.job] = "failed"
       => owner'[target[disp.job]] # disp.job]_vars
=============================================================================
