------------------------- MODULE JobDispatchProofs -------------------------
(***************************************************************************)
(* What JobDispatch guarantees for every set of jobs, clients, boards and  *)
(* workers and every channel capacity.                                     *)
(***************************************************************************)
EXTENDS JobDispatch, TLAPS

USE DispatchAssumption

DispType == [pc : {"idle", "ready", "panicked"}]
              \cup [pc : {"claimed"}, job : Jobs]
              \cup [pc : {"located", "stamped"}, job : Jobs, local : BOOLEAN]

WorkerType == {Idle} \cup [pc : {"run"}, job : Jobs]
                \cup [pc : {"done"}, job : Jobs, ok : BOOLEAN]

\* The variables in three groups, so that a step is only looked at where it acts.
JobsOK ==
  /\ target \in [Jobs -> Paths]
  /\ jobStatus \in [Jobs -> Active \cup Terminal \cup {"new"}]
  /\ jobs \subseteq Jobs
  /\ pending \in Seq(Jobs)
  /\ enqueuer \in [Jobs -> {"idle", "queued", "reserved", "refusing", "refused"}]
  /\ cancel \subseteq Jobs

PipeOK ==
  /\ disp \in DispType
  /\ queued \in Seq(Jobs) /\ Len(queued) <= ChanCap
  /\ workers \in [Workers -> WorkerType]
  /\ results \in Seq(Result) /\ Len(results) <= ChanCap
  /\ coll \in {Idle} \cup [pc : {"released"}, job : Jobs, ok : BOOLEAN]
  /\ atPeer \subseteq Jobs

BoardsOK ==
  /\ owner \in [Paths -> Owners \cup {NoOwner, NoLock}]
  /\ status \in [Paths -> {"absent", "available", "busy"}]
  /\ claims \subseteq Paths \X Clients
  /\ revoked \subseteq Paths \X Owners

LEMMA Groups == TypeOK <=> JobsOK /\ PipeOK /\ BoardsOK
  BY DEF TypeOK, JobsOK, PipeOK, BoardsOK, DispType, WorkerType

LEMMA InitTypeOK == Init => TypeOK
<1> SUFFICES ASSUME Init PROVE TypeOK
  OBVIOUS
<1>1. pending = <<>> /\ queued = <<>> /\ results = <<>> /\ Len(queued) = 0 /\ Len(results) = 0
  BY DEF Init
<1>2. JobsOK /\ BoardsOK
  BY <1>1 DEF Init, JobsOK, BoardsOK
<1>3. PipeOK
  BY <1>1 DEF Init, PipeOK, DispType, WorkerType, Idle
<1>4. QED
  BY <1>2, <1>3, Groups
-----------------------------------------------------------------------------
(* What the helpers of the actions preserve.                                *)

LEMMA StatusTyped ==
  ASSUME BoardsOK, NEW S, NEW s \in {"available", "busy"}, SetDeviceStatus(S, s)
  PROVE  status' \in [Paths -> {"absent", "available", "busy"}]
  BY DEF BoardsOK, SetDeviceStatus

LEMMA ReserveTyped ==
  ASSUME BoardsOK, NEW p \in Paths, NEW o \in Owners, Reserve(p, o), UNCHANGED claims
  PROVE  BoardsOK'
  BY StatusTyped DEF BoardsOK, Reserve

LEMMA ReleaseTyped ==
  ASSUME BoardsOK, NEW p \in Paths, NEW o \in Owners, Release(p, o)
  PROVE  /\ owner' \in [Paths -> Owners \cup {NoOwner, NoLock}]
         /\ status' \in [Paths -> {"absent", "available", "busy"}]
  BY StatusTyped DEF BoardsOK, Release

LEMMA TakeAwayTyped ==
  ASSUME BoardsOK, NEW S \in SUBSET Paths, TakeAway(S)
  PROVE  /\ owner' \in [Paths -> Owners \cup {NoOwner, NoLock}]
         /\ revoked' \subseteq Paths \X Owners
  BY DEF BoardsOK, TakeAway, HeldIn

LEMMA CompleteTyped ==
  ASSUME JobsOK, NEW j \in Jobs, NEW ok \in BOOLEAN, Complete(j, ok),
         UNCHANGED <<target, jobs, pending, cancel>>,
         enqueuer' \in [Jobs -> {"idle", "queued", "reserved", "refusing", "refused"}]
  PROVE  JobsOK'
  BY DEF JobsOK, Complete, Active, Terminal

\* A dispatcher with a job in hand.
LEMMA DispJob ==
  ASSUME PipeOK, disp.pc \in {"claimed", "located", "stamped"}
  PROVE  /\ disp.job \in Jobs
         /\ disp.pc # "claimed" => disp.local \in BOOLEAN
  BY DEF PipeOK, DispType

LEMMA WorkerJob ==
  ASSUME PipeOK, NEW w \in Workers, workers[w].pc \in {"run", "done"}
  PROVE  /\ workers[w].job \in Jobs
         /\ workers[w].pc = "done" => workers[w].ok \in BOOLEAN
<1>1. workers[w] \in WorkerType
  BY DEF PipeOK
<1>2. workers[w] # Idle
  BY DEF Idle
<1>3. QED
  BY <1>1, <1>2 DEF WorkerType
-----------------------------------------------------------------------------
LEMMA TypeStep == TypeOK /\ [Next]_vars => TypeOK'
<1> SUFFICES ASSUME TypeOK, [Next]_vars PROVE TypeOK'
  OBVIOUS
<1>0. JobsOK /\ PipeOK /\ BoardsOK
  BY Groups
<1>a. SUFFICES JobsOK' /\ PipeOK' /\ BoardsOK'
  BY Groups DEF TypeOK, JobsOK, PipeOK, BoardsOK, DispType, WorkerType
<1>b. UNCHANGED jobVars => JobsOK'
  BY <1>0 DEF jobVars, JobsOK
<1>c. UNCHANGED pipeVars => PipeOK'
  BY <1>0 DEF pipeVars, PipeOK
<1>d. UNCHANGED boardVars => BoardsOK'
  BY <1>0 DEF boardVars, BoardsOK
<1>1. ASSUME Up /\ Dispatcher PROVE JobsOK' /\ PipeOK' /\ BoardsOK'
  <2>1. CASE OpenGate
    <3>1. PipeOK'
      BY <1>0, <2>1 DEF OpenGate, PipeOK, DispType
    <3>2. QED
      BY <1>b, <1>d, <2>1, <3>1 DEF OpenGate
  <2>2. CASE Dequeue
    <3>1. Head(pending) \in Jobs /\ Tail(pending) \in Seq(Jobs)
      BY <1>0, <2>2 DEF Dequeue, JobsOK
    <3>2. JobsOK'
      BY <1>0, <2>2, <3>1 DEF Dequeue, JobsOK, Active, Terminal
    <3>3. PipeOK'
      BY <1>0, <2>2, <3>1 DEF Dequeue, PipeOK, DispType
    <3>4. QED
      BY <1>d, <2>2, <3>2, <3>3 DEF Dequeue
  <2>3. CASE Locate
    <3>1. PipeOK'
      BY <1>0, <2>3, DispJob DEF Locate, PipeOK, DispType
    <3>2. QED
      BY <1>b, <1>d, <2>3, <3>1 DEF Locate
  <2>4. CASE StampBusy
    <3>1. disp' = [pc |-> "panicked"] \/ disp' = [disp EXCEPT !.pc = "stamped"]
      BY <2>4 DEF StampBusy
    <3>2. disp \in [pc : {"located", "stamped"}, job : Jobs, local : BOOLEAN]
      BY <1>0, <2>4 DEF StampBusy, PipeOK, DispType
    <3>3. disp' \in DispType
      BY <3>1, <3>2 DEF DispType
    <3>4. PipeOK'
      BY <1>0, <2>4, <3>3 DEF StampBusy, PipeOK
    <3>5. BoardsOK'
      BY <1>0, <2>4, StatusTyped DEF StampBusy, BoardsOK
    <3>6. QED
      BY <1>b, <2>4, <3>4, <3>5 DEF StampBusy
  <2>5. CASE Submit
    <3>1. queued' \in Seq(Jobs) /\ Len(queued') = Len(queued) + 1 /\ Len(queued) < ChanCap
      BY <1>0, <2>5, DispJob DEF Submit, PipeOK
    <3>2. PipeOK'
      BY <1>0, <2>5, <3>1 DEF Submit, PipeOK, DispType, Idle
    <3>3. QED
      BY <1>b, <1>d, <2>5, <3>2 DEF Submit
  <2>6. CASE PeerAccepts
    <3>1. PipeOK'
      BY <1>0, <2>6, DispJob DEF PeerAccepts, PipeOK, DispType, Idle
    <3>2. QED
      BY <1>b, <1>d, <2>6, <3>1 DEF PeerAccepts
  <2>7. CASE PeerFails
    <3>1. PipeOK'
      BY <1>0, <2>7 DEF PeerFails, PipeOK, DispType, Idle
    <3>2. JobsOK'
      BY <1>0, <2>7, DispJob, CompleteTyped DEF PeerFails, JobsOK
    <3>3. BoardsOK'
      BY <1>0, <2>7, StatusTyped DEF PeerFails, BoardsOK
    <3>4. QED
      BY <3>1, <3>2, <3>3
  <2>8. QED
    BY <1>1, <2>1, <2>2, <2>3, <2>4, <2>5, <2>6, <2>7 DEF Dispatcher
<1>2. ASSUME NEW w \in Workers, Worker(w) PROVE JobsOK' /\ PipeOK' /\ BoardsOK'
  <2>1. CASE StartJob(w)
    <3>1. Head(queued) \in Jobs /\ Tail(queued) \in Seq(Jobs) /\ Len(Tail(queued)) < Len(queued)
      BY <1>0, <2>1 DEF StartJob, PipeOK
    <3>2. JobsOK'
      BY <1>0, <2>1, <3>1 DEF StartJob, JobsOK, Active
    <3>3. Len(Tail(queued)) <= ChanCap
      BY <1>0, <3>1 DEF PipeOK
    <3>4. PipeOK'
      BY <1>0, <2>1, <3>1, <3>3 DEF StartJob, PipeOK, WorkerType
    <3>5. QED
      BY <1>d, <2>1, <3>2, <3>4 DEF StartJob
  <2>2. ASSUME NEW ok \in BOOLEAN, FinishJob(w, ok) PROVE JobsOK' /\ PipeOK' /\ BoardsOK'
    <3>1. workers[w].job \in Jobs
      BY <1>0, <2>2, WorkerJob DEF FinishJob
    <3>2. JobsOK'
      BY <1>0, <2>2, <3>1 DEF FinishJob, JobsOK, Terminal
    <3>3. PipeOK'
      BY <1>0, <2>2, <3>1 DEF FinishJob, PipeOK, WorkerType
    <3>4. QED
      BY <1>d, <2>2, <3>2, <3>3 DEF FinishJob
  <2>3. CASE SendResult(w)
    <3>1. [job |-> workers[w].job, ok |-> workers[w].ok] \in Result
      BY <1>0, <2>3, WorkerJob DEF SendResult, Result
    <3>2. results' \in Seq(Result) /\ Len(results') = Len(results) + 1 /\ Len(results) < ChanCap
      BY <1>0, <2>3, <3>1 DEF SendResult, PipeOK
    <3>3. PipeOK'
      BY <1>0, <2>3, <3>2 DEF SendResult, PipeOK, WorkerType
    <3>4. QED
      BY <1>b, <1>d, <2>3, <3>3 DEF SendResult
  <2>4. QED
    BY <1>2, <2>1, <2>2, <2>3 DEF Worker
<1>3. ASSUME Collector PROVE JobsOK' /\ PipeOK' /\ BoardsOK'
  <2>1. CASE Collect
    <3> DEFINE r == Head(results)
    <3>1. r \in Result /\ Tail(results) \in Seq(Result) /\ Len(Tail(results)) < Len(results)
      BY <1>0, <2>1 DEF Collect, PipeOK
    <3>2. r.job \in Jobs /\ r.ok \in BOOLEAN
      BY <3>1 DEF Result
    <3>3. /\ Release(target[r.job], r.job)
          /\ revoked' = revoked \ {<<target[r.job], r.job>>}
          /\ coll' = [pc |-> "released", job |-> r.job, ok |-> r.ok]
          /\ results' = Tail(results)
          /\ UNCHANGED <<jobVars, disp, queued, workers, atPeer, claims>>
      BY <2>1 DEF Collect
    <3> HIDE DEF r
    <3>4. target[r.job] \in Paths /\ r.job \in Owners
      BY <1>0, <3>2 DEF JobsOK, Owners
    <3>5. BoardsOK'
      BY <1>0, <3>3, <3>4, ReleaseTyped DEF BoardsOK
    <3>6. Len(Tail(results)) <= ChanCap
      BY <1>0, <3>1 DEF PipeOK
    <3>7. PipeOK'
      BY <1>0, <3>1, <3>2, <3>3, <3>6 DEF PipeOK
    <3>8. QED
      BY <1>b, <3>3, <3>5, <3>7
  <2>2. CASE CompleteJob
    <3>1. coll.job \in Jobs /\ coll.ok \in BOOLEAN
      BY <1>0, <2>2 DEF CompleteJob, PipeOK, Idle
    <3>2. JobsOK'
      BY <1>0, <2>2, <3>1, CompleteTyped DEF CompleteJob, JobsOK
    <3>3. PipeOK'
      BY <1>0, <2>2 DEF CompleteJob, PipeOK, Idle
    <3>4. QED
      BY <1>d, <2>2, <3>2, <3>3 DEF CompleteJob
  <2>3. QED
    BY <1>3, <2>1, <2>2 DEF Collector
<1>4. ASSUME NEW j \in Jobs, Request(j) PROVE JobsOK' /\ PipeOK' /\ BoardsOK'
  <2>0. target[j] \in Paths /\ j \in Owners
    BY <1>0 DEF JobsOK, Owners
  <2>1. ASSUME NEW p \in Paths, Enqueue(j, p) PROVE JobsOK' /\ PipeOK' /\ BoardsOK'
    <3>1. Append(pending, j) \in Seq(Jobs)
      BY <1>0 DEF JobsOK
    <3>2. JobsOK'
      BY <1>0, <2>1, <3>1 DEF Enqueue, JobsOK, Active
    <3>3. QED
      BY <1>c, <1>d, <2>1, <3>2 DEF Enqueue
  <2>2. CASE ReserveForJob(j)
    <3>1. JobsOK'
      BY <1>0, <2>2 DEF ReserveForJob, JobsOK
    <3>2. CASE Reserve(target[j], j)
      BY <1>0, <1>c, <2>0, <2>2, <3>1, <3>2, ReserveTyped DEF ReserveForJob
    <3>3. CASE UNCHANGED <<owner, status, revoked>>
      BY <1>c, <1>d, <2>2, <3>1, <3>3 DEF ReserveForJob, boardVars
    <3>4. QED
      BY <2>2, <3>2, <3>3 DEF ReserveForJob
  <2>3. CASE FailRefused(j)
    <3>1. JobsOK'
      BY <1>0, <2>3, CompleteTyped DEF FailRefused, JobsOK
    <3>2. QED
      BY <1>c, <1>d, <2>3, <3>1 DEF FailRefused
  <2>4. CASE CancelJob(j)
    <3>1. JobsOK'
      BY <1>0, <2>4 DEF CancelJob, JobsOK, Terminal
    <3>2. QED
      BY <1>c, <1>d, <2>4, <3>1 DEF CancelJob
  <2>5. CASE CancelRelease(j)
    <3>1. JobsOK'
      BY <1>0, <2>5 DEF CancelRelease, JobsOK
    <3>2. revoked' \subseteq Paths \X Owners
      BY <1>0, <2>0, <2>5 DEF CancelRelease, BoardsOK
    <3>3. BoardsOK'
      BY <1>0, <2>0, <2>5, <3>2, ReleaseTyped DEF CancelRelease, BoardsOK
    <3>4. QED
      BY <1>c, <2>5, <3>1, <3>3 DEF CancelRelease
  <2>6. QED
    BY <1>4, <2>1, <2>2, <2>3, <2>4, <2>5 DEF Request
<1>5. ASSUME NEW p \in Paths, Board(p) PROVE JobsOK' /\ PipeOK' /\ BoardsOK'
  <2>1. UNCHANGED <<jobVars, pipeVars>>
    BY <1>5 DEF Board, ClientReserve, ClientRelease, RecordStored, Replugged, RecordRemoved,
       Unregister
  <2>2. ASSUME NEW c \in Clients, ClientReserve(c, p) PROVE BoardsOK'
    <3>1. c \in Owners /\ claims' \subseteq Paths \X Clients
      BY <1>0, <2>2 DEF ClientReserve, BoardsOK, Owners
    <3>2. status' \in [Paths -> {"absent", "available", "busy"}]
      BY <1>0, <2>2, StatusTyped DEF ClientReserve, Reserve
    <3>3. QED
      BY <1>0, <2>2, <3>1, <3>2 DEF ClientReserve, Reserve, BoardsOK
  <2>3. ASSUME NEW c \in Clients, ClientRelease(c, p) PROVE BoardsOK'
    <3>1. c \in Owners
      BY DEF Owners
    <3>2. QED
      BY <1>0, <2>3, <3>1, ReleaseTyped DEF ClientRelease, BoardsOK
  <2>4. ASSUME NEW s \in {"available", "busy"}, RecordStored(p, s) PROVE BoardsOK'
    BY <1>0, <2>4 DEF RecordStored, BoardsOK
  <2>5. ASSUME Replugged(p) PROVE BoardsOK'
    BY <1>0, <2>5, TakeAwayTyped DEF Replugged, BoardsOK
  <2>6. ASSUME RecordRemoved(p) PROVE BoardsOK'
    BY <1>0, <2>6 DEF RecordRemoved, BoardsOK
  <2>7. ASSUME Unregister(p) PROVE BoardsOK'
    BY <1>0, <2>7 DEF Unregister, BoardsOK, HeldIn
  <2>8. BoardsOK'
    BY <1>5, <2>2, <2>3, <2>4, <2>5, <2>6, <2>7 DEF Board
  <2>9. QED
    BY <1>b, <1>c, <2>1, <2>8
<1>6. ASSUME Maintenance PROVE JobsOK' /\ PipeOK' /\ BoardsOK'
  <2>1. ASSUME NEW p \in Paths, CleanupStale(p) PROVE JobsOK' /\ PipeOK' /\ BoardsOK'
    <3>1. BoardsOK'
      BY <1>0, <2>1, TakeAwayTyped, StatusTyped DEF CleanupStale, BoardsOK
    <3>2. QED
      BY <1>b, <1>c, <2>1, <3>1 DEF CleanupStale
  <2>2. ASSUME NEW j \in Jobs, CleanupOld(j) PROVE JobsOK' /\ PipeOK' /\ BoardsOK'
    <3>1. JobsOK'
      BY <1>0, <2>2 DEF CleanupOld, JobsOK
    <3>2. QED
      BY <1>c, <1>d, <2>2, <3>1 DEF CleanupOld
  <2>3. QED
    BY <1>6, <2>1, <2>2 DEF Maintenance
<1>7. CASE UNCHANGED vars
  BY <1>b, <1>c, <1>d, <1>7 DEF vars
<1>8. QED
  BY <1>1, <1>2, <1>3, <1>4, <1>5, <1>6, <1>7 DEF Next

\* The variables keep their types and neither channel exceeds its capacity.
THEOREM QueueTypes == Spec => []TypeOK
  BY InitTypeOK, TypeStep, PTL DEF Spec
-----------------------------------------------------------------------------
(* One place per job.                                                       *)

\* A job that was not enqueued yet is nowhere.
NotYetAnywhere == \A j \in Jobs : enqueuer[j] = "idle" => Places(j) = {}

\* The places of different kinds are different.
LEMMA PlaceKinds ==
  ASSUME NEW j
  PROVE  /\ \A a \in PendingAt(j) : a[1] = "pending"
         /\ \A a \in DispAt(j) : a = <<"dispatcher", 0>>
         /\ \A a \in QueuedAt(j) : a[1] = "queued"
         /\ \A a \in WorkerAt(j) : a[1] = "worker"
         /\ \A a \in ResultAt(j) : a[1] = "result"
         /\ \A a \in PeerAt(j) : a = <<"peer", 0>>
  BY DEF PendingAt, DispAt, QueuedAt, WorkerAt, ResultAt, PeerAt

LEMMA TailElement ==
  ASSUME NEW S, NEW s \in Seq(S), s # <<>>
  PROVE  /\ 1 \in DOMAIN s /\ Head(s) = s[1]
         /\ \A k \in DOMAIN Tail(s) : k \in Nat /\ k > 0 /\ k + 1 \in DOMAIN s /\ Tail(s)[k] = s[k + 1]
  OBVIOUS

LEMMA AppendElement ==
  ASSUME NEW S, NEW s \in Seq(S), NEW e \in S
  PROVE  \A k \in DOMAIN Append(s, e) :
           \/ k \in DOMAIN s /\ Append(s, e)[k] = s[k]
           \/ k = Len(s) + 1 /\ Append(s, e)[k] = e
  OBVIOUS

LEMMA TailPending ==
  ASSUME TypeOK, pending # <<>>, pending' = Tail(pending), NEW j
  PROVE  /\ j = Head(pending) => <<"pending", 1>> \in PendingAt(j)
         /\ \A a \in PendingAt(j)' : \E k \in Nat :
              k > 0 /\ a = <<"pending", k>> /\ <<"pending", k + 1>> \in PendingAt(j)
<1>1. pending \in Seq(Jobs)
  BY DEF TypeOK
<1>2. /\ 1 \in DOMAIN pending /\ Head(pending) = pending[1]
      /\ \A k \in DOMAIN pending' : k \in Nat /\ k > 0 /\ k + 1 \in DOMAIN pending /\ pending'[k] = pending[k + 1]
  BY <1>1, TailElement
<1>3. QED
  BY <1>2 DEF PendingAt

LEMMA TailQueued ==
  ASSUME TypeOK, queued # <<>>, queued' = Tail(queued), NEW j
  PROVE  /\ j = Head(queued) => <<"queued", 1>> \in QueuedAt(j)
         /\ \A a \in QueuedAt(j)' : \E k \in Nat :
              k > 0 /\ a = <<"queued", k>> /\ <<"queued", k + 1>> \in QueuedAt(j)
<1>1. queued \in Seq(Jobs)
  BY DEF TypeOK
<1>2. /\ 1 \in DOMAIN queued /\ Head(queued) = queued[1]
      /\ \A k \in DOMAIN queued' : k \in Nat /\ k > 0 /\ k + 1 \in DOMAIN queued /\ queued'[k] = queued[k + 1]
  BY <1>1, TailElement
<1>3. QED
  BY <1>2 DEF QueuedAt

LEMMA TailResults ==
  ASSUME TypeOK, results # <<>>, results' = Tail(results), NEW j
  PROVE  /\ j = Head(results).job => <<"result", 1>> \in ResultAt(j)
         /\ \A a \in ResultAt(j)' : \E k \in Nat :
              k > 0 /\ a = <<"result", k>> /\ <<"result", k + 1>> \in ResultAt(j)
<1>1. results \in Seq(Result)
  BY DEF TypeOK
<1>2. /\ 1 \in DOMAIN results /\ Head(results) = results[1]
      /\ \A k \in DOMAIN results' : k \in Nat /\ k > 0 /\ k + 1 \in DOMAIN results /\ results'[k] = results[k + 1]
  BY <1>1, TailElement
<1>3. QED
  BY <1>2 DEF ResultAt

LEMMA AppendPending ==
  ASSUME TypeOK, NEW i \in Jobs, pending' = Append(pending, i), NEW j
  PROVE  \A a \in PendingAt(j)' : a \in PendingAt(j) \/ (j = i /\ a = <<"pending", Len(pending) + 1>>)
<1>1. pending \in Seq(Jobs)
  BY DEF TypeOK
<1>2. \A k \in DOMAIN pending' :
        \/ k \in DOMAIN pending /\ pending'[k] = pending[k]
        \/ k = Len(pending) + 1 /\ pending'[k] = i
  BY <1>1, AppendElement
<1>3. QED
  BY <1>2 DEF PendingAt

LEMMA AppendQueued ==
  ASSUME TypeOK, NEW i \in Jobs, queued' = Append(queued, i), NEW j
  PROVE  \A a \in QueuedAt(j)' : a \in QueuedAt(j) \/ (j = i /\ a = <<"queued", Len(queued) + 1>>)
<1>1. queued \in Seq(Jobs)
  BY DEF TypeOK
<1>2. \A k \in DOMAIN queued' :
        \/ k \in DOMAIN queued /\ queued'[k] = queued[k]
        \/ k = Len(queued) + 1 /\ queued'[k] = i
  BY <1>1, AppendElement
<1>3. QED
  BY <1>2 DEF QueuedAt

LEMMA AppendResults ==
  ASSUME TypeOK, NEW r \in Result, results' = Append(results, r), NEW j
  PROVE  \A a \in ResultAt(j)' : a \in ResultAt(j) \/ (j = r.job /\ a = <<"result", Len(results) + 1>>)
<1>1. results \in Seq(Result)
  BY DEF TypeOK
<1>2. \A k \in DOMAIN results' :
        \/ k \in DOMAIN results /\ results'[k] = results[k]
        \/ k = Len(results) + 1 /\ results'[k] = r
  BY <1>1, AppendElement
<1>3. QED
  BY <1>2 DEF ResultAt

\* What is left where it was.
LEMMA FramePlaces ==
  ASSUME NEW j
  PROVE  /\ UNCHANGED pending => PendingAt(j)' = PendingAt(j)
         /\ UNCHANGED disp => DispAt(j)' = DispAt(j)
         /\ UNCHANGED queued => QueuedAt(j)' = QueuedAt(j)
         /\ UNCHANGED workers => WorkerAt(j)' = WorkerAt(j)
         /\ UNCHANGED results => ResultAt(j)' = ResultAt(j)
         /\ UNCHANGED atPeer => PeerAt(j)' = PeerAt(j)
  BY DEF PendingAt, DispAt, QueuedAt, WorkerAt, ResultAt, PeerAt

\* A job with a single place moves: it has a single place again, and it is not
\* conjured up.
Kept(before, after) ==
  /\ \A a, b \in after : a = b
  /\ after # {} => before # {}

PlacesKept(j) == Kept(Places(j), Places(j)')

\* Steps that move no job.
LEMMA StillPlaces ==
  ASSUME SingleFlight, NEW j \in Jobs, Places(j)' \subseteq Places(j)
  PROVE  PlacesKept(j)
  BY DEF SingleFlight, PlacesKept, Kept

\* A job leaves the place gone and turns up at the place new.
Moves(before, after, stay, gone, new) ==
  /\ \A a, b \in before : a = b
  /\ stay \subseteq before
  /\ gone \notin stay
  /\ \A a \in after : a \in stay \/ (a = new /\ gone \in before)

LEMMA Move ==
  ASSUME NEW before, NEW after, NEW stay, NEW gone, NEW new,
         Moves(before, after, stay, gone, new)
  PROVE  Kept(before, after)
  BY DEF Moves, Kept

\* The head of a list leaves it for the place new, the others move up.
MovesUp(before, after, stay, kind, new) ==
  /\ \A a, b \in before : a = b
  /\ stay \subseteq before
  /\ \A a \in stay : a[1] # kind
  /\ \A a \in after :
       \/ a \in stay
       \/ \E k \in Nat : k > 0 /\ a = <<kind, k>> /\ <<kind, k + 1>> \in before
       \/ a = new /\ <<kind, 1>> \in before

LEMMA MoveUp ==
  ASSUME NEW before, NEW after, NEW stay, NEW kind, NEW new,
         MovesUp(before, after, stay, kind, new)
  PROVE  Kept(before, after)
<1> SUFFICES ASSUME NEW a \in after, NEW b \in after
             PROVE  a = b /\ before # {}
  BY DEF Kept
<1>0. /\ \A c, d \in before : c = d
      /\ stay \subseteq before
      /\ \A c \in stay : c[1] # kind
      /\ \A c \in after :
           \/ c \in stay
           \/ \E k \in Nat : k > 0 /\ c = <<kind, k>> /\ <<kind, k + 1>> \in before
           \/ c = new /\ <<kind, 1>> \in before
  BY DEF MovesUp
<1>1. CASE a \in stay
  <2>1. \A c \in before : c = a /\ c[1] # kind
    BY <1>0, <1>1
  <2>2. \A n : <<kind, n>> \notin before
    BY <2>1
  <2>3. b \in stay
    BY <1>0, <2>2
  <2>4. QED
    BY <1>0, <1>1, <2>3
<1>2. ASSUME NEW k \in Nat, k > 0, a = <<kind, k>>, <<kind, k + 1>> \in before
      PROVE  a = b /\ before # {}
  <2>1. b \notin stay
    <3>1. <<kind, k + 1>>[1] = kind
      OBVIOUS
    <3>2. QED
      BY <1>0, <1>2, <3>1
  <2>2. <<kind, 1>> \notin before
    <3>1. <<kind, k + 1>> # <<kind, 1>>
      BY <1>2
    <3>2. QED
      BY <1>0, <1>2, <3>1
  <2>3. PICK m \in Nat : m > 0 /\ b = <<kind, m>> /\ <<kind, m + 1>> \in before
    BY <1>0, <2>1, <2>2
  <2>4. <<kind, k + 1>> = <<kind, m + 1>>
    BY <1>0, <1>2, <2>3
  <2>5. k = m
    BY <2>4
  <2>6. QED
    BY <1>2, <2>3, <2>5
<1>3. CASE a = new /\ <<kind, 1>> \in before
  <2>1. b \notin stay
    <3>1. <<kind, 1>>[1] = kind
      OBVIOUS
    <3>2. QED
      BY <1>0, <1>3, <3>1
  <2>2. ASSUME NEW k \in Nat, k > 0 PROVE <<kind, k + 1>> \notin before
    <3>1. <<kind, k + 1>> # <<kind, 1>>
      BY <2>2
    <3>2. QED
      BY <1>0, <1>3, <3>1
  <2>3. QED
    BY <1>0, <1>3, <2>1, <2>2
<1>4. QED
  BY <1>0, <1>1, <1>2, <1>3

LEMMA DequeuePlaces ==
  ASSUME TypeOK, SingleFlight, Dequeue, NEW j \in Jobs
  PROVE  PlacesKept(j)
<1>1. /\ pending # <<>> /\ pending' = Tail(pending)
      /\ UNCHANGED <<queued, workers, results, atPeer>>
      /\ disp' = [pc |-> "claimed", job |-> Head(pending)] \/ disp' = [pc |-> "panicked"]
  BY DEF Dequeue
<1> DEFINE stay == QueuedAt(j) \cup WorkerAt(j) \cup ResultAt(j) \cup PeerAt(j)
<1>2. \A a \in PendingAt(j)' : \E k \in Nat :
        k > 0 /\ a = <<"pending", k>> /\ <<"pending", k + 1>> \in Places(j)
  BY <1>1, TailPending DEF Places
<1>3. \A a \in DispAt(j)' : a = <<"dispatcher", 0>> /\ <<"pending", 1>> \in Places(j)
  BY <1>1, TailPending DEF DispAt, Places
<1>4. Places(j)' = PendingAt(j)' \cup DispAt(j)' \cup stay
  BY <1>1, FramePlaces DEF Places
<1>5. stay \subseteq Places(j) /\ \A a \in stay : a[1] # "pending"
  BY PlaceKinds DEF Places
<1>6. \A a, b \in Places(j) : a = b
  BY DEF SingleFlight
<1> HIDE DEF stay
<1>7. \A a \in Places(j)' :
        \/ a \in stay
        \/ \E k \in Nat : k > 0 /\ a = <<"pending", k>> /\ <<"pending", k + 1>> \in Places(j)
        \/ a = <<"dispatcher", 0>> /\ <<"pending", 1>> \in Places(j)
  BY <1>2, <1>3, <1>4
<1>8. MovesUp(Places(j), Places(j)', stay, "pending", <<"dispatcher", 0>>)
  BY <1>5, <1>6, <1>7 DEF MovesUp
<1>9. QED
  BY <1>8, MoveUp DEF PlacesKept

LEMMA StartPlaces ==
  ASSUME TypeOK, SingleFlight, NEW w \in Workers, StartJob(w), NEW j \in Jobs
  PROVE  PlacesKept(j)
<1>1. /\ queued # <<>> /\ queued' = Tail(queued)
      /\ UNCHANGED <<pending, disp, results, atPeer>>
      /\ workers' = [workers EXCEPT ![w] = [pc |-> "run", job |-> Head(queued)]]
  BY DEF StartJob, jobVars
<1> DEFINE stay == PendingAt(j) \cup DispAt(j) \cup WorkerAt(j) \cup ResultAt(j) \cup PeerAt(j)
<1>2. \A a \in QueuedAt(j)' : \E k \in Nat :
        k > 0 /\ a = <<"queued", k>> /\ <<"queued", k + 1>> \in Places(j)
  BY <1>1, TailQueued DEF Places
<1>3. \A a \in WorkerAt(j)' : a \in WorkerAt(j) \/ (a = <<"worker", w>> /\ j = Head(queued))
  <2>1. workers \in [Workers -> {Idle} \cup [pc : {"run"}, job : Jobs]
                                  \cup [pc : {"done"}, job : Jobs, ok : BOOLEAN]]
    BY DEF TypeOK
  <2>2. ASSUME NEW x \in Workers, workers'[x] # Idle, workers'[x].job = j
        PROVE  (x = w /\ j = Head(queued)) \/ (workers[x] # Idle /\ workers[x].job = j)
    BY <1>1, <2>1, <2>2
  <2>3. QED
    BY <2>2 DEF WorkerAt
<1>4. j = Head(queued) => <<"queued", 1>> \in Places(j)
  BY <1>1, TailQueued DEF Places
<1>5. Places(j)' = QueuedAt(j)' \cup WorkerAt(j)' \cup PendingAt(j) \cup DispAt(j) \cup ResultAt(j)
                     \cup PeerAt(j)
  BY <1>1, FramePlaces DEF Places
<1>6. stay \subseteq Places(j) /\ \A a \in stay : a[1] # "queued"
  BY PlaceKinds DEF Places
<1>7. \A a, b \in Places(j) : a = b
  BY DEF SingleFlight
<1>8. Places(j)' \subseteq QueuedAt(j)' \cup WorkerAt(j)' \cup stay /\ WorkerAt(j) \subseteq stay
  BY <1>5
<1> HIDE DEF stay
<1>9. \A a \in Places(j)' :
        \/ a \in stay
        \/ \E k \in Nat : k > 0 /\ a = <<"queued", k>> /\ <<"queued", k + 1>> \in Places(j)
        \/ a = <<"worker", w>> /\ <<"queued", 1>> \in Places(j)
  BY <1>2, <1>3, <1>4, <1>8
<1>10. MovesUp(Places(j), Places(j)', stay, "queued", <<"worker", w>>)
  BY <1>6, <1>7, <1>9 DEF MovesUp
<1>11. QED
  BY <1>10, MoveUp DEF PlacesKept

\* The collector takes a result: its job is nowhere any more.
LEMMA CollectPlaces ==
  ASSUME TypeOK, SingleFlight, Collect, NEW j \in Jobs
  PROVE  PlacesKept(j) /\ (j = Head(results).job => Places(j)' = {})
<1>1. /\ results # <<>> /\ results' = Tail(results)
      /\ UNCHANGED <<pending, disp, queued, workers, atPeer>>
  BY DEF Collect, jobVars
<1> DEFINE stay == PendingAt(j) \cup DispAt(j) \cup QueuedAt(j) \cup WorkerAt(j) \cup PeerAt(j)
<1>2. \A a \in ResultAt(j)' : \E k \in Nat :
        k > 0 /\ a = <<"result", k>> /\ <<"result", k + 1>> \in Places(j)
  BY <1>1, TailResults DEF Places
<1>3. j = Head(results).job => <<"result", 1>> \in Places(j)
  BY <1>1, TailResults DEF Places
<1>4. Places(j)' = ResultAt(j)' \cup stay
  BY <1>1, FramePlaces DEF Places
<1>5. stay \subseteq Places(j) /\ \A a \in stay : a[1] # "result"
  BY PlaceKinds DEF Places
<1>6. \A a, b \in Places(j) : a = b
  BY DEF SingleFlight
<1> HIDE DEF stay
<1>7. \A a \in Places(j)' :
        \/ a \in stay
        \/ \E k \in Nat : k > 0 /\ a = <<"result", k>> /\ <<"result", k + 1>> \in Places(j)
        \/ a = <<"peer", 0>> /\ <<"result", 1>> \in Places(j)
  BY <1>2, <1>4
<1>8. MovesUp(Places(j), Places(j)', stay, "result", <<"peer", 0>>)
  BY <1>5, <1>6, <1>7 DEF MovesUp
<1>9. ASSUME j = Head(results).job PROVE Places(j)' = {}
  <2>1. <<"result", 1>> \in Places(j)
    BY <1>3, <1>9
  <2>2. stay = {}
    <3>1. <<"result", 1>>[1] = "result"
      OBVIOUS
    <3>2. QED
      BY <1>5, <1>6, <2>1, <3>1
  <2>3. ASSUME NEW k \in Nat, k > 0 PROVE <<"result", k + 1>> \notin Places(j)
    <3>1. <<"result", k + 1>> # <<"result", 1>>
      BY <2>3
    <3>2. QED
      BY <1>6, <2>1, <3>1
  <2>4. QED
    BY <1>2, <1>4, <2>2, <2>3
<1>10. QED
  BY <1>8, <1>9, MoveUp DEF PlacesKept

LEMMA SubmitPlaces ==
  ASSUME TypeOK, SingleFlight, Submit, NEW j \in Jobs
  PROVE  PlacesKept(j)
<1>1. /\ disp.pc = "stamped" /\ disp' = Idle /\ disp.job \in Jobs
      /\ queued' = Append(queued, disp.job)
      /\ UNCHANGED <<pending, workers, results, atPeer>>
  BY DispJob DEF Submit, jobVars, TypeOK, PipeOK, DispType
<1> DEFINE stay == PendingAt(j) \cup QueuedAt(j) \cup WorkerAt(j) \cup ResultAt(j) \cup PeerAt(j)
<1>2. \A a \in QueuedAt(j)' : a \in QueuedAt(j) \/ (j = disp.job /\ a = <<"queued", Len(queued) + 1>>)
  BY <1>1, AppendQueued
<1>3. DispAt(j)' = {} /\ (j = disp.job => <<"dispatcher", 0>> \in Places(j))
  BY <1>1 DEF DispAt, Idle, Places
<1>4. Places(j)' = QueuedAt(j)' \cup PendingAt(j) \cup WorkerAt(j) \cup ResultAt(j) \cup PeerAt(j)
  BY <1>1, <1>3, FramePlaces DEF Places
<1>5. stay \subseteq Places(j) /\ <<"dispatcher", 0>> \notin stay
  BY PlaceKinds DEF Places
<1>6. \A a, b \in Places(j) : a = b
  BY DEF SingleFlight
<1>7. \A a \in Places(j)' :
        a \in stay \/ (a = <<"queued", Len(queued) + 1>> /\ <<"dispatcher", 0>> \in Places(j))
  BY <1>2, <1>3, <1>4
<1> HIDE DEF stay
<1>8. Moves(Places(j), Places(j)', stay, <<"dispatcher", 0>>, <<"queued", Len(queued) + 1>>)
  BY <1>5, <1>6, <1>7 DEF Moves
<1>9. QED
  BY <1>8, Move DEF PlacesKept

LEMMA PeerPlaces ==
  ASSUME TypeOK, SingleFlight, PeerAccepts, NEW j \in Jobs
  PROVE  PlacesKept(j)
<1>1. /\ disp.pc = "stamped" /\ disp' = Idle /\ atPeer' = atPeer \cup {disp.job}
      /\ UNCHANGED <<pending, queued, workers, results>>
  BY DEF PeerAccepts, jobVars
<1> DEFINE stay == PendingAt(j) \cup QueuedAt(j) \cup WorkerAt(j) \cup ResultAt(j) \cup PeerAt(j)
<1>2. \A a \in PeerAt(j)' : a \in PeerAt(j) \/ (j = disp.job /\ a = <<"peer", 0>>)
  BY <1>1 DEF PeerAt
<1>3. DispAt(j)' = {} /\ (j = disp.job => <<"dispatcher", 0>> \in Places(j))
  BY <1>1 DEF DispAt, Idle, Places
<1>4. Places(j)' = PeerAt(j)' \cup PendingAt(j) \cup QueuedAt(j) \cup WorkerAt(j) \cup ResultAt(j)
  BY <1>1, <1>3, FramePlaces DEF Places
<1>5. stay \subseteq Places(j) /\ <<"dispatcher", 0>> \notin stay
  BY PlaceKinds DEF Places
<1>6. \A a, b \in Places(j) : a = b
  BY DEF SingleFlight
<1>7. \A a \in Places(j)' :
        a \in stay \/ (a = <<"peer", 0>> /\ <<"dispatcher", 0>> \in Places(j))
  BY <1>2, <1>3, <1>4
<1> HIDE DEF stay
<1>8. Moves(Places(j), Places(j)', stay, <<"dispatcher", 0>>, <<"peer", 0>>)
  BY <1>5, <1>6, <1>7 DEF Moves
<1>9. QED
  BY <1>8, Move DEF PlacesKept

LEMMA SendPlaces ==
  ASSUME TypeOK, SingleFlight, NEW w \in Workers, SendResult(w), NEW j \in Jobs
  PROVE  PlacesKept(j)
<1>1. /\ workers[w] # Idle /\ workers[w].job \in Jobs
      /\ [job |-> workers[w].job, ok |-> workers[w].ok] \in Result
      /\ results' = Append(results, [job |-> workers[w].job, ok |-> workers[w].ok])
      /\ workers' = [workers EXCEPT ![w] = Idle]
      /\ UNCHANGED <<pending, disp, queued, atPeer>>
  BY DEF SendResult, TypeOK, Idle, Result, jobVars
<1> DEFINE stay == PendingAt(j) \cup DispAt(j) \cup QueuedAt(j) \cup WorkerAt(j)' \cup ResultAt(j)
                     \cup PeerAt(j)
<1>2. \A a \in ResultAt(j)' :
        a \in ResultAt(j) \/ (j = workers[w].job /\ a = <<"result", Len(results) + 1>>)
  BY <1>1, AppendResults
<1>3. WorkerAt(j)' \subseteq WorkerAt(j) /\ <<"worker", w>> \notin WorkerAt(j)'
  BY <1>1 DEF WorkerAt, TypeOK
<1>4. j = workers[w].job => <<"worker", w>> \in Places(j)
  BY <1>1 DEF WorkerAt, Places
<1>5. Places(j)' = ResultAt(j)' \cup PendingAt(j) \cup DispAt(j) \cup QueuedAt(j) \cup WorkerAt(j)' \cup PeerAt(j)
  BY <1>1, FramePlaces DEF Places
<1>6. stay \subseteq Places(j)
  BY <1>3 DEF Places
<1>7. <<"worker", w>> \notin stay
  BY <1>3, PlaceKinds
<1>8. \A a, b \in Places(j) : a = b
  BY DEF SingleFlight
<1>9. \A a \in Places(j)' :
        a \in stay \/ (a = <<"result", Len(results) + 1>> /\ <<"worker", w>> \in Places(j))
  BY <1>2, <1>4, <1>5
<1> HIDE DEF stay
<1>10. Moves(Places(j), Places(j)', stay, <<"worker", w>>, <<"result", Len(results) + 1>>)
  BY <1>6, <1>7, <1>8, <1>9 DEF Moves
<1>11. QED
  BY <1>10, Move DEF PlacesKept

LEMMA QuietPlaces ==
  ASSUME SingleFlight, UNCHANGED <<pending, queued, results, atPeer>>, NEW j \in Jobs,
         DispAt(j)' \subseteq DispAt(j), WorkerAt(j)' \subseteq WorkerAt(j)
  PROVE  PlacesKept(j)
<1>1. Places(j)' \subseteq Places(j)
  BY FramePlaces DEF Places
<1>2. QED
  BY <1>1, StillPlaces

LEMMA EnqueuePlaces ==
  ASSUME TypeOK, SingleFlight, NotYetAnywhere, NEW i \in Jobs, NEW p \in Paths, Enqueue(i, p),
         NEW j \in Jobs
  PROVE  /\ j # i => PlacesKept(j)
         /\ j = i => \A a, b \in Places(j)' : a = b
<1>1. /\ enqueuer[i] = "idle" /\ pending' = Append(pending, i)
      /\ UNCHANGED <<disp, queued, workers, results, atPeer>>
  BY DEF Enqueue, pipeVars
<1>2. \A a \in PendingAt(j)' : a \in PendingAt(j) \/ (j = i /\ a = <<"pending", Len(pending) + 1>>)
  BY <1>1, AppendPending
<1>3. \A a \in Places(j)' : a \in Places(j) \/ (j = i /\ a = <<"pending", Len(pending) + 1>>)
  BY <1>1, <1>2, FramePlaces DEF Places
<1>4. CASE j # i
  BY <1>3, <1>4, StillPlaces
<1>5. CASE j = i
  <2>1. Places(j) = {}
    BY <1>1, <1>5 DEF NotYetAnywhere
  <2>2. QED
    BY <1>3, <1>5, <2>1
<1>6. QED
  BY <1>4, <1>5

LEMMA DispatcherPlaces ==
  ASSUME TypeOK, SingleFlight, Dispatcher, NEW j \in Jobs
  PROVE  PlacesKept(j)
<1>1. CASE OpenGate
  <2>1. DispAt(j)' = {} /\ UNCHANGED <<pending, queued, workers, results, atPeer>>
    BY <1>1 DEF OpenGate, DispAt, jobVars
  <2>2. QED
    BY <2>1, FramePlaces, QuietPlaces
<1>2. CASE Locate
  <2>1. PICK local \in BOOLEAN : disp' = [pc |-> "located", job |-> disp.job, local |-> local]
    BY <1>2 DEF Locate
  <2>2. disp.pc = "claimed" /\ UNCHANGED <<pending, queued, workers, results, atPeer>>
    BY <1>2 DEF Locate, jobVars
  <2>3. DispAt(j)' = DispAt(j)
    BY <2>1, <2>2 DEF DispAt
  <2>4. QED
    BY <2>2, <2>3, FramePlaces, QuietPlaces
<1>3. CASE StampBusy
  <2>1. /\ disp.pc = "located" /\ UNCHANGED <<pending, queued, workers, results, atPeer>>
        /\ disp' = [pc |-> "panicked"] \/ disp' = [disp EXCEPT !.pc = "stamped"]
    BY <1>3 DEF StampBusy, jobVars
  <2>2. disp \in [pc : {"located", "stamped"}, job : Jobs, local : BOOLEAN]
    BY <2>1 DEF TypeOK
  <2>3. DispAt(j)' \subseteq DispAt(j)
    BY <2>1, <2>2 DEF DispAt
  <2>4. QED
    BY <2>1, <2>3, FramePlaces, QuietPlaces
<1>4. CASE PeerFails
  <2>1. DispAt(j)' = {} /\ UNCHANGED <<pending, queued, workers, results, atPeer>>
    BY <1>4 DEF PeerFails, DispAt, Idle
  <2>2. QED
    BY <2>1, FramePlaces, QuietPlaces
<1>5. QED
  BY <1>1, <1>2, <1>3, <1>4, DequeuePlaces, SubmitPlaces, PeerPlaces DEF Dispatcher

LEMMA WorkerPlaces ==
  ASSUME TypeOK, SingleFlight, NEW w \in Workers, Worker(w), NEW j \in Jobs
  PROVE  PlacesKept(j)
<1>1. ASSUME NEW ok \in BOOLEAN, FinishJob(w, ok) PROVE PlacesKept(j)
  <2>1. /\ workers[w].pc = "run"
        /\ workers' = [workers EXCEPT ![w] = [pc |-> "done", job |-> workers[w].job, ok |-> ok]]
        /\ UNCHANGED <<pending, disp, queued, results, atPeer>>
    BY <1>1 DEF FinishJob
  <2>2. workers \in [Workers -> {Idle} \cup [pc : {"run"}, job : Jobs]
                                  \cup [pc : {"done"}, job : Jobs, ok : BOOLEAN]]
    BY DEF TypeOK
  <2>3. ASSUME NEW x \in Workers, workers'[x] # Idle, workers'[x].job = j
        PROVE  workers[x] # Idle /\ workers[x].job = j
    BY <2>1, <2>2, <2>3 DEF Idle
  <2>4. WorkerAt(j)' \subseteq WorkerAt(j)
    BY <2>3 DEF WorkerAt
  <2>5. QED
    BY <2>1, <2>4, FramePlaces, QuietPlaces
<1>2. QED
  BY <1>1, StartPlaces, SendPlaces DEF Worker

\* Whatever happens, a job keeps its single place, unless it is just enqueued.
LEMMA PlacesStep ==
  ASSUME TypeOK, SingleFlight, NotYetAnywhere, [Next]_vars, NEW j \in Jobs
  PROVE  \/ PlacesKept(j) /\ (enqueuer'[j] = "idle" => enqueuer[j] = "idle")
         \/ enqueuer'[j] = "queued" /\ \A a, b \in Places(j)' : a = b
<1> DEFINE Goal == \/ PlacesKept(j) /\ (enqueuer'[j] = "idle" => enqueuer[j] = "idle")
                   \/ enqueuer'[j] = "queued" /\ \A a, b \in Places(j)' : a = b
<1>a. enqueuer \in [Jobs -> {"idle", "queued", "reserved", "refusing", "refused"}]
  BY DEF TypeOK
<1>b. ASSUME UNCHANGED <<pending, pipeVars>>, enqueuer'[j] = "idle" => enqueuer[j] = "idle"
      PROVE  Goal
  BY <1>b, FramePlaces, QuietPlaces DEF pipeVars
<1>1. CASE Dispatcher
  <2>1. UNCHANGED enqueuer
    BY <1>1 DEF Dispatcher, OpenGate, Dequeue, Locate, StampBusy, Submit, PeerAccepts, PeerFails, jobVars
  <2>2. QED
    BY <1>1, <2>1, DispatcherPlaces
<1>2. ASSUME NEW w \in Workers, Worker(w) PROVE Goal
  <2>1. UNCHANGED enqueuer
    BY <1>2 DEF Worker, StartJob, FinishJob, SendResult, jobVars
  <2>2. QED
    BY <1>2, <2>1, WorkerPlaces
<1>3. CASE Collect
  <2>1. UNCHANGED enqueuer
    BY <1>3 DEF Collect, jobVars
  <2>2. QED
    BY <1>3, <2>1, CollectPlaces
<1>4. CASE CompleteJob
  <2>1. UNCHANGED <<enqueuer, pending, disp, queued, workers, results, atPeer>>
    BY <1>4 DEF CompleteJob
  <2>2. QED
    BY <2>1, FramePlaces, QuietPlaces
<1>5. ASSUME NEW i \in Jobs, NEW p \in Paths, Enqueue(i, p) PROVE Goal
  <2>1. enqueuer' = [enqueuer EXCEPT ![i] = "queued"]
    BY <1>5 DEF Enqueue
  <2>2. QED
    BY <1>5, <1>a, <2>1, EnqueuePlaces
<1>6. ASSUME NEW i \in Jobs, ReserveForJob(i) \/ FailRefused(i) \/ CancelJob(i) \/ CancelRelease(i)
      PROVE  Goal
  <2>1. UNCHANGED <<pending, pipeVars>>
    BY <1>6 DEF ReserveForJob, FailRefused, CancelJob, CancelRelease
  <2>2. \/ UNCHANGED enqueuer
        \/ enqueuer' = [enqueuer EXCEPT ![i] = "reserved"]
        \/ enqueuer' = [enqueuer EXCEPT ![i] = "refusing"]
        \/ enqueuer' = [enqueuer EXCEPT ![i] = "refused"]
    BY <1>6 DEF ReserveForJob, FailRefused, CancelJob, CancelRelease
  <2>3. enqueuer'[j] = "idle" => enqueuer[j] = "idle"
    BY <1>a, <2>2
  <2>4. QED
    BY <1>b, <2>1, <2>3
<1>7. ASSUME NEW p \in Paths, Board(p) PROVE Goal
  <2>1. UNCHANGED <<pending, pipeVars, enqueuer>>
    BY <1>7 DEF Board, ClientReserve, ClientRelease, RecordStored, Replugged, RecordRemoved,
                Unregister, jobVars
  <2>2. QED
    BY <1>b, <2>1
<1>8. CASE Maintenance
  <2>1. UNCHANGED <<pending, pipeVars, enqueuer>>
    BY <1>8 DEF Maintenance, CleanupStale, CleanupOld, jobVars
  <2>2. QED
    BY <1>b, <2>1
<1>9. CASE UNCHANGED vars
  <2>1. UNCHANGED <<pending, pipeVars, enqueuer>>
    BY <1>9 DEF vars, jobVars
  <2>2. QED
    BY <1>b, <2>1
<1>10. ASSUME NEW i \in Jobs, Request(i) PROVE Goal
  BY <1>5, <1>6, <1>10 DEF Request
<1>11. QED
  BY <1>1, <1>2, <1>3, <1>4, <1>7, <1>8, <1>9, <1>10 DEF Next, Collector

\* The inductive invariant: single places, and none before a job is enqueued.
Placed == TypeOK /\ SingleFlight /\ NotYetAnywhere

LEMMA InitPlaced == Init => Placed
<1> SUFFICES ASSUME Init PROVE Placed
  OBVIOUS
<1>1. TypeOK
  BY InitTypeOK
<1>2. /\ DOMAIN pending = {} /\ DOMAIN queued = {} /\ DOMAIN results = {} /\ atPeer = {}
      /\ disp = Idle /\ workers = [w \in Workers |-> Idle]
  BY DEF Init
<1>3. ASSUME NEW j \in Jobs PROVE Places(j) = {}
  BY <1>2 DEF Places, PendingAt, DispAt, QueuedAt, WorkerAt, ResultAt, PeerAt, Idle
<1>4. QED
  BY <1>1, <1>3 DEF Placed, SingleFlight, NotYetAnywhere

LEMMA PlacedStep ==
  ASSUME Placed, [Next]_vars
  PROVE  Placed'
<1>1. TypeOK /\ SingleFlight /\ NotYetAnywhere
  BY DEF Placed
<1>2. TypeOK'
  BY <1>1, TypeStep
<1>3. ASSUME NEW j \in Jobs
      PROVE  (\A a, b \in Places(j)' : a = b) /\ (enqueuer'[j] = "idle" => Places(j)' = {})
  <2>1. CASE PlacesKept(j) /\ (enqueuer'[j] = "idle" => enqueuer[j] = "idle")
    BY <1>1, <2>1 DEF PlacesKept, Kept, NotYetAnywhere
  <2>2. CASE enqueuer'[j] = "queued" /\ \A a, b \in Places(j)' : a = b
    BY <2>2
  <2>3. QED
    BY <1>1, <2>1, <2>2, PlacesStep
<1>4. QED
  BY <1>2, <1>3 DEF Placed, SingleFlight, NotYetAnywhere

LEMMA AlwaysPlaced == Spec => []Placed
  BY InitPlaced, PlacedStep, PTL DEF Spec

\* A job is never in two places at once: no two workers execute it, and what is
\* released with its result is released after its last execution.
THEOREM JobsSingleFlight == Spec => []SingleFlight
<1>1. Placed => SingleFlight
  BY DEF Placed
<1>2. QED
  BY <1>1, AlwaysPlaced, PTL
-----------------------------------------------------------------------------
(* No job is dropped and shown as active.                                   *)

\* A job that has started is assigned no more, and the queue knows the job that
\* the dispatcher has in hand: it can be failed when its peer refuses it.
JobTracked(j) ==
  /\ jobStatus[j] = "pending" => PendingAt(j) # {}
  /\ jobStatus[j] = "running" => \E w \in Workers : workers[w] = [pc |-> "run", job |-> j]
  /\ jobStatus[j] = "assigned" => Places(j) # {}
  /\ WorkerAt(j) \cup ResultAt(j) # {} => jobStatus[j] # "assigned"

Dispatching == disp.pc \in {"claimed", "located", "stamped"}
HandKnown == Dispatching => disp.job \in jobs

Tracked == Up => HandKnown /\ \A j \in Jobs : JobTracked(j)

LEMMA InitTracked == Init => Tracked
<1> SUFFICES ASSUME Init PROVE HandKnown /\ \A j \in Jobs : JobTracked(j)
  BY DEF Tracked
<1>1. /\ DOMAIN results = {} /\ disp = Idle /\ workers = [w \in Workers |-> Idle]
      /\ jobStatus = [j \in Jobs |-> "new"]
  BY DEF Init
<1>2. QED
  BY <1>1 DEF HandKnown, Dispatching, JobTracked, Idle

\* Steps that move no job and make none active.
LEMMA QuietTracked ==
  ASSUME NEW j \in Jobs, JobTracked(j), UNCHANGED <<pending, queued, workers, results, atPeer>>,
         DispAt(j)' = DispAt(j), jobStatus'[j] = jobStatus[j] \/ jobStatus'[j] \in Terminal
  PROVE  JobTracked(j)'
<1>1. Places(j)' = Places(j) /\ PendingAt(j)' = PendingAt(j)
      /\ WorkerAt(j)' = WorkerAt(j) /\ ResultAt(j)' = ResultAt(j)
  BY FramePlaces DEF Places
<1>2. QED
  BY <1>1 DEF JobTracked, Terminal

LEMMA CompleteStatus ==
  ASSUME TypeOK, NEW i \in Jobs, NEW ok \in BOOLEAN, Complete(i, ok)
  PROVE  /\ \A j \in Jobs : jobStatus'[j] = jobStatus[j] \/ jobStatus'[j] \in Terminal
         /\ i \in jobs => jobStatus'[i] \in Terminal
  BY DEF TypeOK, Complete, Terminal

\* What stays in a list that loses its head or gains an element.
LEMMA TailKeeps ==
  ASSUME NEW S, NEW s \in Seq(S), s # <<>>
  PROVE  \A k \in DOMAIN s : s[k] = Head(s) \/ (k - 1 \in DOMAIN Tail(s) /\ Tail(s)[k - 1] = s[k])
  OBVIOUS

LEMMA AppendKeeps ==
  ASSUME NEW S, NEW s \in Seq(S), NEW e \in S
  PROVE  /\ \A k \in DOMAIN s : k \in DOMAIN Append(s, e) /\ Append(s, e)[k] = s[k]
         /\ Len(s) + 1 \in DOMAIN Append(s, e) /\ Append(s, e)[Len(s) + 1] = e
  OBVIOUS

LEMMA EnqueueTracked ==
  ASSUME TypeOK, HandKnown, \A i \in Jobs : JobTracked(i), NotYetAnywhere,
         NEW i \in Jobs, NEW p \in Paths, Enqueue(i, p)
  PROVE  HandKnown' /\ \A j \in Jobs : JobTracked(j)'
<1>1. /\ pending' = Append(pending, i) /\ jobs' = jobs \cup {i}
      /\ jobStatus' = [jobStatus EXCEPT ![i] = "pending"]
      /\ enqueuer[i] = "idle"
      /\ UNCHANGED <<disp, queued, workers, results, atPeer>>
  BY DEF Enqueue, pipeVars
<1>2. HandKnown'
  BY <1>1 DEF HandKnown, Dispatching
<1>3. pending \in Seq(Jobs) /\ jobStatus \in [Jobs -> Active \cup Terminal \cup {"new"}]
  BY DEF TypeOK
<1>4. ASSUME NEW j \in Jobs PROVE JobTracked(j)'
  <2>1. /\ PendingAt(j) \subseteq PendingAt(j)'
        /\ j = i => PendingAt(j)' # {}
    <3>1. /\ \A k \in DOMAIN pending : k \in DOMAIN pending' /\ pending'[k] = pending[k]
          /\ Len(pending) + 1 \in DOMAIN pending' /\ pending'[Len(pending) + 1] = i
      BY <1>1, <1>3, AppendKeeps
    <3>2. QED
      BY <3>1 DEF PendingAt
  <2>2. /\ DispAt(j)' = DispAt(j) /\ QueuedAt(j)' = QueuedAt(j) /\ WorkerAt(j)' = WorkerAt(j)
        /\ ResultAt(j)' = ResultAt(j) /\ PeerAt(j)' = PeerAt(j)
    BY <1>1, FramePlaces
  <2>3. Places(j) \subseteq Places(j)'
    BY <2>1, <2>2 DEF Places
  <2>4. CASE j = i
    BY <1>1, <1>3, <2>1, <2>4 DEF JobTracked
  <2>5. CASE j # i
    <3>1. jobStatus'[j] = jobStatus[j]
      BY <1>1, <1>3, <2>5
    <3>2. QED
      BY <1>1, <2>1, <2>2, <2>3, <3>1 DEF JobTracked
  <2>6. QED
    BY <2>4, <2>5
<1>5. QED
  BY <1>2, <1>4

LEMMA DequeueTracked ==
  ASSUME TypeOK, SingleFlight, HandKnown, \A i \in Jobs : JobTracked(i), Dequeue, Up'
  PROVE  HandKnown' /\ \A j \in Jobs : JobTracked(j)'
<1> DEFINE i == Head(pending)
<1>1. pending \in Seq(Jobs) /\ jobStatus \in [Jobs -> Active \cup Terminal \cup {"new"}]
  BY DEF TypeOK
<1>2. /\ pending # <<>> /\ pending' = Tail(pending) /\ disp.pc = "ready"
      /\ i \in jobs /\ jobStatus' = [jobStatus EXCEPT ![i] = "assigned"]
      /\ disp' = [pc |-> "claimed", job |-> i]
      /\ UNCHANGED <<jobs, queued, workers, results, atPeer>>
  BY DEF Dequeue, Up
<1>3. i \in Jobs /\ <<"pending", 1>> \in PendingAt(i)
  BY <1>1, <1>2, TailPending
<1>4. \A k \in DOMAIN pending : pending[k] = i \/ (k - 1 \in DOMAIN pending' /\ pending'[k - 1] = pending[k])
  BY <1>1, <1>2, TailKeeps
<1> HIDE DEF i
<1>5. HandKnown'
  BY <1>2 DEF HandKnown, Dispatching
<1>6. ASSUME NEW j \in Jobs PROVE JobTracked(j)'
  <2>2. /\ QueuedAt(j)' = QueuedAt(j) /\ WorkerAt(j)' = WorkerAt(j)
        /\ ResultAt(j)' = ResultAt(j) /\ PeerAt(j)' = PeerAt(j)
    BY <1>2, FramePlaces
  <2>4. CASE j = i
    <3>1. DispAt(j)' = {<<"dispatcher", 0>>} /\ jobStatus'[j] = "assigned"
      BY <1>1, <1>2, <2>4 DEF DispAt
    <3>2. <<"pending", 1>> \in Places(j)
      BY <1>3, <2>4 DEF Places
    <3>3. WorkerAt(j) \cup ResultAt(j) = {}
      <4>1. \A a \in Places(j) : a = <<"pending", 1>>
        BY <3>2 DEF SingleFlight
      <4>2. <<"pending", 1>>[1] = "pending"
        OBVIOUS
      <4>3. QED
        BY <4>1, <4>2, PlaceKinds DEF Places
    <3>4. QED
      BY <2>2, <3>1, <3>3 DEF JobTracked, Places
  <2>5. CASE j # i
    <3>1. jobStatus'[j] = jobStatus[j]
      BY <1>1, <1>2, <2>5
    <3>2. PendingAt(j) # {} => PendingAt(j)' # {}
      <4>1. SUFFICES ASSUME NEW a \in PendingAt(j) PROVE PendingAt(j)' # {}
        OBVIOUS
      <4>2. PICK k \in DOMAIN pending : pending[k] = j
        BY DEF PendingAt
      <4>3. k - 1 \in DOMAIN pending' /\ pending'[k - 1] = j
        BY <1>4, <2>5, <4>2
      <4>4. <<"pending", k - 1>> \in PendingAt(j)'
        BY <4>3 DEF PendingAt
      <4>5. QED
        BY <4>4
    <3>3. DispAt(j) = {} /\ DispAt(j)' = {}
      BY <1>2, <2>5 DEF DispAt
    <3>4. Places(j) # {} => Places(j)' # {}
      BY <2>2, <3>2, <3>3 DEF Places
    <3>5. QED
      BY <1>2, <2>2, <3>1, <3>2, <3>4 DEF JobTracked
  <2>6. QED
    BY <2>4, <2>5
<1>7. QED
  BY <1>5, <1>6

LEMMA SubmitTracked ==
  ASSUME TypeOK, \A i \in Jobs : JobTracked(i), Submit
  PROVE  HandKnown' /\ \A j \in Jobs : JobTracked(j)'
<1>1. /\ disp.pc = "stamped" /\ disp' = Idle /\ disp.job \in Jobs
      /\ queued' = Append(queued, disp.job)
      /\ UNCHANGED <<pending, jobStatus, workers, results, atPeer>>
  BY DispJob DEF Submit, jobVars, TypeOK, PipeOK, DispType
<1>2. HandKnown'
  BY <1>1 DEF HandKnown, Dispatching, Idle
<1>3. ASSUME NEW j \in Jobs PROVE JobTracked(j)'
  <2>1. queued \in Seq(Jobs)
    BY DEF TypeOK
  <2>2. QueuedAt(j) \subseteq QueuedAt(j)' /\ (DispAt(j) # {} => QueuedAt(j)' # {})
    <3>1. /\ \A k \in DOMAIN queued : k \in DOMAIN queued' /\ queued'[k] = queued[k]
          /\ Len(queued) + 1 \in DOMAIN queued' /\ queued'[Len(queued) + 1] = disp.job
      BY <1>1, <2>1, AppendKeeps
    <3>2. DispAt(j) # {} => disp.job = j
      BY DEF DispAt
    <3>3. disp.job = j => <<"queued", Len(queued) + 1>> \in QueuedAt(j)'
      BY <3>1 DEF QueuedAt
    <3>4. QueuedAt(j) \subseteq QueuedAt(j)'
      BY <3>1 DEF QueuedAt
    <3>5. QED
      BY <3>2, <3>3, <3>4
  <2>3. /\ PendingAt(j)' = PendingAt(j) /\ WorkerAt(j)' = WorkerAt(j)
        /\ ResultAt(j)' = ResultAt(j) /\ PeerAt(j)' = PeerAt(j)
    BY <1>1, FramePlaces
  <2>4. Places(j) # {} => Places(j)' # {}
    BY <2>2, <2>3 DEF Places
  <2>5. QED
    BY <1>1, <2>3, <2>4 DEF JobTracked
<1>4. QED
  BY <1>2, <1>3

LEMMA PeerTracked ==
  ASSUME TypeOK, HandKnown, \A i \in Jobs : JobTracked(i), PeerAccepts \/ PeerFails
  PROVE  HandKnown' /\ \A j \in Jobs : JobTracked(j)'
<1>1. /\ disp.pc = "stamped" /\ disp' = Idle /\ disp.job \in Jobs
      /\ UNCHANGED <<pending, queued, workers, results>>
  BY DispJob DEF PeerAccepts, PeerFails, jobVars, TypeOK, PipeOK, DispType
<1>2. HandKnown'
  BY <1>1 DEF HandKnown, Dispatching, Idle
<1>3. ASSUME NEW j \in Jobs PROVE JobTracked(j)'
  <2>1. /\ PendingAt(j)' = PendingAt(j) /\ QueuedAt(j)' = QueuedAt(j) /\ WorkerAt(j)' = WorkerAt(j)
        /\ ResultAt(j)' = ResultAt(j)
    BY <1>1, FramePlaces
  <2>2. CASE PeerAccepts
    <3>1. PeerAt(j) \subseteq PeerAt(j)' /\ (DispAt(j) # {} => PeerAt(j)' # {})
      BY <1>1, <2>2 DEF PeerAccepts, DispAt, PeerAt
    <3>2. Places(j) # {} => Places(j)' # {}
      BY <2>1, <3>1 DEF Places
    <3>3. QED
      BY <1>1, <2>1, <2>2, <3>2 DEF PeerAccepts, JobTracked, jobVars
  <2>3. CASE PeerFails
    <3>1. /\ jobStatus'[j] = jobStatus[j] \/ jobStatus'[j] \in Terminal
          /\ j = disp.job => jobStatus'[j] \in Terminal
      BY <1>1, <2>3, CompleteStatus DEF PeerFails, HandKnown, Dispatching
    <3>2. CASE j = disp.job
      BY <3>1, <3>2 DEF JobTracked, Terminal
    <3>3. CASE j # disp.job
      <4>1. DispAt(j)' = {} /\ DispAt(j) = {}
        BY <1>1, <3>3 DEF DispAt, Idle
      <4>2. UNCHANGED atPeer
        BY <2>3 DEF PeerFails
      <4>3. QED
        BY <1>1, <3>1, <4>1, <4>2, QuietTracked
    <3>4. QED
      BY <3>2, <3>3
  <2>4. QED
    BY <2>2, <2>3
<1>4. QED
  BY <1>2, <1>3

LEMMA StartTracked ==
  ASSUME TypeOK, SingleFlight, \A i \in Jobs : JobTracked(i), NEW w \in Workers, StartJob(w)
  PROVE  \A j \in Jobs : JobTracked(j)'
<1> DEFINE i == Head(queued)
<1>1. queued \in Seq(Jobs) /\ jobStatus \in [Jobs -> Active \cup Terminal \cup {"new"}]
      /\ workers \in [Workers -> WorkerType]
  BY DEF TypeOK, WorkerType
<1>2. /\ queued # <<>> /\ queued' = Tail(queued) /\ workers[w] = Idle
      /\ workers' = [workers EXCEPT ![w] = [pc |-> "run", job |-> i]]
      /\ jobStatus' = [jobStatus EXCEPT ![i] = "running"]
      /\ UNCHANGED <<pending, disp, results, atPeer>>
  BY DEF StartJob
<1>3. i \in Jobs
  BY <1>1, <1>2
<1>4. \A k \in DOMAIN queued : queued[k] = i \/ (k - 1 \in DOMAIN queued' /\ queued'[k - 1] = queued[k])
  BY <1>1, <1>2, TailKeeps
<1> HIDE DEF i
<1>5. ASSUME NEW j \in Jobs PROVE JobTracked(j)'
  <2>1. /\ PendingAt(j)' = PendingAt(j) /\ DispAt(j)' = DispAt(j)
        /\ ResultAt(j)' = ResultAt(j) /\ PeerAt(j)' = PeerAt(j)
    BY <1>2, FramePlaces
  <2>2. CASE j = i
    <3>1. workers'[w] = [pc |-> "run", job |-> j] /\ jobStatus'[j] = "running"
      BY <1>1, <1>2, <2>2
    <3>2. QED
      BY <3>1 DEF JobTracked
  <2>3. CASE j # i
    <3>1. jobStatus'[j] = jobStatus[j]
      BY <1>1, <1>2, <2>3
    <3>2. QueuedAt(j) # {} => QueuedAt(j)' # {}
      <4>1. SUFFICES ASSUME NEW a \in QueuedAt(j) PROVE QueuedAt(j)' # {}
        OBVIOUS
      <4>2. PICK k \in DOMAIN queued : queued[k] = j
        BY DEF QueuedAt
      <4>3. k - 1 \in DOMAIN queued' /\ queued'[k - 1] = j
        BY <1>4, <2>3, <4>2
      <4>4. <<"queued", k - 1>> \in QueuedAt(j)'
        BY <4>3 DEF QueuedAt
      <4>5. QED
        BY <4>4
    <3>3. \A x \in Workers : workers[x] # Idle => workers'[x] = workers[x]
      BY <1>1, <1>2
    <3>4. ASSUME NEW x \in Workers, workers'[x] # Idle, workers'[x].job = j
          PROVE  workers[x] # Idle /\ workers[x].job = j
      BY <1>1, <1>2, <2>3, <3>4
    <3>5. WorkerAt(j)' = WorkerAt(j)
      BY <3>3, <3>4 DEF WorkerAt
    <3>6. Places(j) # {} => Places(j)' # {}
      BY <2>1, <3>2, <3>5 DEF Places
    <3>7. \A x \in Workers : workers[x] = [pc |-> "run", job |-> j] => workers'[x] = workers[x]
      BY <3>3 DEF Idle
    <3>8. QED
      BY <2>1, <3>1, <3>5, <3>6, <3>7 DEF JobTracked
  <2>4. QED
    BY <2>2, <2>3
<1>6. QED
  BY <1>5

LEMMA FinishTracked ==
  ASSUME TypeOK, \A i \in Jobs : JobTracked(i), NEW w \in Workers, NEW ok \in BOOLEAN, FinishJob(w, ok)
  PROVE  \A j \in Jobs : JobTracked(j)'
<1> DEFINE i == workers[w].job
<1>1. jobStatus \in [Jobs -> Active \cup Terminal \cup {"new"}] /\ workers \in [Workers -> WorkerType]
  BY DEF TypeOK, WorkerType
<1>2. /\ workers[w].pc = "run" /\ i \in Jobs
      /\ workers' = [workers EXCEPT ![w] = [pc |-> "done", job |-> i, ok |-> ok]]
      /\ jobStatus' = [jobStatus EXCEPT ![i] = IF ok THEN "completed" ELSE "failed"]
      /\ UNCHANGED <<pending, disp, queued, results, atPeer>>
  BY WorkerJob DEF FinishJob, TypeOK, PipeOK, WorkerType, DispType
<1> HIDE DEF i
<1>3. ASSUME NEW j \in Jobs PROVE JobTracked(j)'
  <2>1. CASE j = i
    <3>1. jobStatus'[j] \in Terminal
      BY <1>1, <1>2, <2>1 DEF Terminal
    <3>2. QED
      BY <3>1 DEF JobTracked, Terminal
  <2>2. CASE j # i
    <3>1. jobStatus'[j] = jobStatus[j]
      BY <1>1, <1>2, <2>2
    <3>2. workers[w].job # j
      BY <2>2 DEF i
    <3>3. \A x \in Workers : x # w => workers'[x] = workers[x]
      BY <1>1, <1>2
    <3>4. workers'[w].job = i
      BY <1>1, <1>2
    <3>5. WorkerAt(j)' = WorkerAt(j)
      BY <2>2, <3>2, <3>3, <3>4 DEF WorkerAt
    <3>6. /\ PendingAt(j)' = PendingAt(j) /\ DispAt(j)' = DispAt(j) /\ QueuedAt(j)' = QueuedAt(j)
          /\ ResultAt(j)' = ResultAt(j) /\ PeerAt(j)' = PeerAt(j)
      BY <1>2, FramePlaces
    <3>7. Places(j)' = Places(j)
      BY <3>5, <3>6 DEF Places
    <3>8. \A x \in Workers : workers[x] = [pc |-> "run", job |-> j] => workers'[x] = workers[x]
      BY <3>2, <3>3
    <3>9. QED
      BY <3>1, <3>5, <3>6, <3>7, <3>8 DEF JobTracked
  <2>3. QED
    BY <2>1, <2>2
<1>4. QED
  BY <1>3

LEMMA SendTracked ==
  ASSUME TypeOK, \A i \in Jobs : JobTracked(i), NEW w \in Workers, SendResult(w)
  PROVE  \A j \in Jobs : JobTracked(j)'
<1>1. workers \in [Workers -> WorkerType] /\ results \in Seq(Result)
  BY DEF TypeOK, WorkerType
<1> DEFINE r == [job |-> workers[w].job, ok |-> workers[w].ok]
<1>2. /\ workers[w].pc = "done" /\ r \in Result /\ r.job = workers[w].job
      /\ workers' = [workers EXCEPT ![w] = Idle] /\ results' = Append(results, r)
      /\ UNCHANGED <<jobStatus, pending, disp, queued, atPeer>>
  BY WorkerJob DEF SendResult, jobVars, Result, TypeOK, PipeOK, WorkerType, DispType
<1> HIDE DEF r
<1>3. ASSUME NEW j \in Jobs PROVE JobTracked(j)'
  <2>1. ResultAt(j) \subseteq ResultAt(j)' /\ (r.job = j => ResultAt(j)' # {})
    <3>1. /\ \A k \in DOMAIN results : k \in DOMAIN results' /\ results'[k] = results[k]
          /\ Len(results) + 1 \in DOMAIN results' /\ results'[Len(results) + 1] = r
      BY <1>1, <1>2, AppendKeeps
    <3>2. r.job = j => <<"result", Len(results) + 1>> \in ResultAt(j)'
      BY <3>1 DEF ResultAt
    <3>3. ResultAt(j) \subseteq ResultAt(j)'
      BY <3>1 DEF ResultAt
    <3>4. QED
      BY <3>2, <3>3
  <2>2. \A a \in ResultAt(j)' : a \in ResultAt(j) \/ j = r.job
    BY <1>2, AppendResults
  <2>3. \A x \in Workers : x # w => workers'[x] = workers[x]
    BY <1>1, <1>2
  <2>4. workers'[w] = Idle /\ workers[w] # Idle
    BY <1>1, <1>2 DEF Idle
  <2>5. WorkerAt(j)' \subseteq WorkerAt(j)
    BY <2>3, <2>4 DEF WorkerAt
  <2>6. j = r.job => <<"worker", w>> \in WorkerAt(j)
    BY <1>2, <2>4 DEF WorkerAt
  <2>7. WorkerAt(j) # {} => WorkerAt(j)' # {} \/ ResultAt(j)' # {}
    <3>1. SUFFICES ASSUME NEW x \in Workers, workers[x] # Idle, workers[x].job = j, x # w
                   PROVE  WorkerAt(j)' # {}
      BY <1>2, <2>1 DEF WorkerAt
    <3>2. QED
      BY <2>3, <3>1 DEF WorkerAt
  <2>8. /\ PendingAt(j)' = PendingAt(j) /\ DispAt(j)' = DispAt(j) /\ QueuedAt(j)' = QueuedAt(j)
        /\ PeerAt(j)' = PeerAt(j)
    BY <1>2, FramePlaces
  <2>9. Places(j) # {} => Places(j)' # {}
    BY <2>1, <2>7, <2>8 DEF Places
  <2>10. WorkerAt(j)' \cup ResultAt(j)' # {} => WorkerAt(j) \cup ResultAt(j) # {}
    BY <2>2, <2>5, <2>6
  <2>11. \A x \in Workers : workers[x] = [pc |-> "run", job |-> j] => workers'[x] = workers[x]
    BY <1>2, <2>3
  <2>12. QED
    BY <1>2, <2>8, <2>9, <2>10, <2>11 DEF JobTracked
<1>4. QED
  BY <1>3

LEMMA CollectTracked ==
  ASSUME TypeOK, \A i \in Jobs : JobTracked(i), Collect
  PROVE  \A j \in Jobs : JobTracked(j)'
<1>1. results \in Seq(Result)
  BY DEF TypeOK
<1>2. /\ results # <<>> /\ results' = Tail(results)
      /\ UNCHANGED <<jobStatus, pending, disp, queued, workers, atPeer>>
  BY DEF Collect, jobVars
<1>3. ASSUME NEW j \in Jobs PROVE JobTracked(j)'
  <2>1. \A a \in ResultAt(j)' : ResultAt(j) # {}
    BY <1>2, TailResults
  <2>2. /\ PendingAt(j)' = PendingAt(j) /\ DispAt(j)' = DispAt(j) /\ QueuedAt(j)' = QueuedAt(j)
        /\ WorkerAt(j)' = WorkerAt(j) /\ PeerAt(j)' = PeerAt(j)
    BY <1>2, FramePlaces
  <2>3. jobStatus[j] = "assigned" => ResultAt(j) = {}
    BY DEF JobTracked
  <2>4. jobStatus[j] = "assigned" => Places(j)' # {}
    BY <2>2, <2>3 DEF JobTracked, Places
  <2>5. QED
    BY <1>2, <2>1, <2>2, <2>4 DEF JobTracked
<1>4. QED
  BY <1>3

LEMMA TrackedStep ==
  ASSUME Placed, Tracked, [Next]_vars
  PROVE  Tracked'
<1> SUFFICES ASSUME Up' PROVE HandKnown' /\ \A j \in Jobs : JobTracked(j)'
  BY DEF Tracked
<1> DEFINE Goal == HandKnown' /\ \A j \in Jobs : JobTracked(j)'
<1>0. TypeOK /\ SingleFlight /\ NotYetAnywhere
  BY DEF Placed
<1>a. Up
  BY DEF Next, Up, vars, pipeVars
<1>b. HandKnown /\ \A j \in Jobs : JobTracked(j)
  BY <1>a DEF Tracked
<1>c. ASSUME UNCHANGED <<pending, pipeVars, jobs>>,
             \A j \in Jobs : jobStatus'[j] = jobStatus[j] \/ jobStatus'[j] \in Terminal
      PROVE  Goal
  <2>1. HandKnown'
    BY <1>b, <1>c DEF HandKnown, Dispatching, pipeVars
  <2>2. \A j \in Jobs : JobTracked(j)'
    BY <1>b, <1>c, FramePlaces, QuietTracked DEF pipeVars
  <2>3. QED
    BY <2>1, <2>2
<1>d. UNCHANGED jobVars => UNCHANGED <<pending, jobs, jobStatus>>
  BY DEF jobVars
<1>1. CASE Dispatcher
  <2>1. CASE OpenGate \/ Locate \/ StampBusy
    <3>1. UNCHANGED <<jobs, jobStatus, pending, queued, workers, results, atPeer>>
      BY <2>1 DEF OpenGate, Locate, StampBusy, jobVars
    <3>2. /\ disp'.pc \in {"located", "stamped"} =>
               disp.pc \in {"claimed", "located"} /\ disp'.job = disp.job
          /\ disp'.pc \in {"ready", "located", "stamped"}
          /\ disp'.pc = "ready" => disp.pc = "idle"
      <4>1. CASE OpenGate
        BY <4>1 DEF OpenGate
      <4>2. CASE Locate
        BY <4>2 DEF Locate
      <4>3. CASE StampBusy
        <5>1. disp.pc = "located" /\ disp' = [disp EXCEPT !.pc = "stamped"]
          BY <4>3 DEF StampBusy, Up
        <5>2. disp \in [pc : {"located", "stamped"}, job : Jobs, local : BOOLEAN]
          BY <1>0, <5>1 DEF TypeOK
        <5>3. disp'.pc = "stamped" /\ disp'.job = disp.job
          BY <5>1, <5>2
        <5>4. QED
          BY <5>1, <5>3
      <4>4. QED
        BY <2>1, <4>1, <4>2, <4>3
    <3>3. HandKnown'
      BY <1>b, <3>1, <3>2 DEF HandKnown, Dispatching
    <3>4. \A j \in Jobs : DispAt(j)' = DispAt(j) \/ (disp.pc = "located" /\ DispAt(j)' = DispAt(j))
      <4>1. CASE disp'.pc = "ready"
        BY <3>2, <4>1 DEF DispAt
      <4>2. CASE disp'.pc # "ready"
        BY <3>2, <4>2 DEF DispAt
      <4>3. QED
        BY <4>1, <4>2
    <3>5. QED
      BY <1>b, <3>1, <3>3, <3>4, QuietTracked
  <2>2. QED
    BY <1>0, <1>1, <1>b, <2>1, DequeueTracked, SubmitTracked, PeerTracked DEF Dispatcher
<1>2. ASSUME NEW w \in Workers, Worker(w) PROVE Goal
  <2>1. UNCHANGED <<disp, jobs>>
    BY <1>2 DEF Worker, StartJob, FinishJob, SendResult, jobVars
  <2>2. HandKnown'
    BY <1>b, <2>1 DEF HandKnown, Dispatching
  <2>3. QED
    BY <1>0, <1>2, <1>b, <2>2, StartTracked, FinishTracked, SendTracked DEF Worker
<1>3. CASE Collect
  <2>1. UNCHANGED <<disp, jobs>>
    BY <1>3 DEF Collect, jobVars
  <2>2. HandKnown'
    BY <1>b, <2>1 DEF HandKnown, Dispatching
  <2>3. QED
    BY <1>0, <1>3, <1>b, <2>2, CollectTracked
<1>4. CASE CompleteJob
  <2>1. /\ UNCHANGED <<jobs, pending, disp, queued, workers, results, atPeer>>
        /\ Complete(coll.job, coll.ok) /\ coll.job \in Jobs /\ coll.ok \in BOOLEAN
    BY <1>0, <1>4 DEF CompleteJob, TypeOK, Idle
  <2>2. \A j \in Jobs : jobStatus'[j] = jobStatus[j] \/ jobStatus'[j] \in Terminal
    BY <1>0, <2>1, CompleteStatus
  <2>3. HandKnown'
    BY <1>b, <2>1 DEF HandKnown, Dispatching
  <2>4. QED
    BY <1>b, <2>1, <2>2, <2>3, FramePlaces, QuietTracked
<1>5. ASSUME NEW j \in Jobs, Request(j) PROVE Goal
  <2>1. ASSUME NEW p \in Paths, Enqueue(j, p) PROVE Goal
    BY <1>0, <1>b, <2>1, EnqueueTracked
  <2>2. CASE ReserveForJob(j) \/ CancelRelease(j)
    BY <1>c, <2>2 DEF ReserveForJob, CancelRelease
  <2>3. CASE FailRefused(j)
    <3>1. \A i \in Jobs : jobStatus'[i] = jobStatus[i] \/ jobStatus'[i] \in Terminal
      BY <1>0, <2>3, CompleteStatus DEF FailRefused
    <3>2. QED
      BY <1>c, <2>3, <3>1 DEF FailRefused
  <2>4. CASE CancelJob(j)
    <3>1. \A i \in Jobs : jobStatus'[i] = jobStatus[i] \/ jobStatus'[i] \in Terminal
      BY <1>0, <2>4 DEF CancelJob, TypeOK, Terminal
    <3>2. QED
      BY <1>c, <2>4, <3>1 DEF CancelJob
  <2>5. QED
    BY <1>5, <2>1, <2>2, <2>3, <2>4 DEF Request
<1>6. ASSUME NEW p \in Paths, Board(p) PROVE Goal
  <2>1. UNCHANGED <<jobVars, pipeVars>>
    BY <1>6 DEF Board, ClientReserve, ClientRelease, RecordStored, Replugged, RecordRemoved, Unregister
  <2>2. QED
    BY <1>c, <1>d, <2>1
<1>7. CASE Maintenance
  <2>1. ASSUME NEW p \in Paths, CleanupStale(p) PROVE Goal
    BY <1>c, <1>d, <2>1 DEF CleanupStale
  <2>2. ASSUME NEW i \in Jobs, CleanupOld(i) PROVE Goal
    <3>1. /\ Places(i) \subseteq PendingAt(i) /\ jobs' = jobs \ {i}
          /\ UNCHANGED <<jobStatus, pending, pipeVars>>
      BY <2>2 DEF CleanupOld
    <3>2. \A a \in DispAt(i) : FALSE
      <4>1. <<"dispatcher", 0>>[1] = "dispatcher"
        OBVIOUS
      <4>2. QED
        BY <3>1, <4>1, PlaceKinds DEF Places
    <3>3. Dispatching => disp.job # i
      BY <3>2 DEF DispAt, Dispatching
    <3>4. HandKnown'
      BY <1>b, <3>1, <3>3 DEF HandKnown, Dispatching, pipeVars
    <3>5. QED
      BY <1>b, <3>1, <3>4, FramePlaces, QuietTracked DEF pipeVars
  <2>3. QED
    BY <1>7, <2>1, <2>2 DEF Maintenance
<1>8. CASE UNCHANGED vars
  BY <1>c, <1>d, <1>8 DEF vars
<1>9. QED
  BY <1>1, <1>2, <1>3, <1>4, <1>5, <1>6, <1>7, <1>8 DEF Next, Collector

\* No job is dropped and shown as active for ever: what is pending is in the list,
\* what is running is on a worker, what is assigned is on its way.
THEOREM JobsTracked == Spec => []ActiveJobsTracked
<1>1. Init => Placed /\ Tracked
  BY InitPlaced, InitTracked
<1>2. Placed /\ Tracked /\ [Next]_vars => (Placed /\ Tracked)'
  BY PlacedStep, TrackedStep
<1>3. Placed /\ Tracked => ActiveJobsTracked
  BY DEF Tracked, JobTracked, ActiveJobsTracked
<1>4. QED
  BY <1>1, <1>2, <1>3, PTL DEF Spec
-----------------------------------------------------------------------------
(* Reservations.                                                            *)

\* A reservation goes on, or it is noted as taken away.
Backed(p, o) == owner[p] = o \/ <<p, o>> \in revoked

\* What the steps of others do to a reservation.
LEMMA ReserveBacks ==
  ASSUME BoardsOK, NEW p \in Paths, NEW o \in Owners, Reserve(p, o),
         NEW q \in Paths, NEW x \in Owners, Backed(q, x)
  PROVE  Backed(q, x)'
<1>1. NoOwner \notin Owners
  BY DEF Owners
<1>2. QED
  BY <1>1 DEF BoardsOK, Reserve, Backed

LEMMA ReleaseBacks ==
  ASSUME BoardsOK, NEW p \in Paths, NEW o \in Owners, Release(p, o),
         revoked \ {<<p, o>>} \subseteq revoked',
         NEW q \in Paths, NEW x \in Owners, <<q, x>> # <<p, o>>, Backed(q, x)
  PROVE  Backed(q, x)'
<1>1. owner'[q] = owner[q] \/ (q = p /\ owner[q] = o)
  BY DEF BoardsOK, Release
<1>2. QED
  BY <1>1 DEF Backed

LEMMA TakeAwayBacks ==
  ASSUME BoardsOK, NEW S \in SUBSET Paths, TakeAway(S),
         NEW q \in Paths, NEW x \in Owners, Backed(q, x)
  PROVE  Backed(q, x)'
<1>1. CASE <<q, x>> \in revoked
  BY <1>1 DEF TakeAway, Backed
<1>2. CASE owner[q] = x /\ q \in S
  <2>1. <<q, x>> \in HeldIn(S)
    BY <1>2 DEF HeldIn
  <2>2. QED
    BY <2>1 DEF TakeAway, Backed
<1>3. CASE owner[q] = x /\ q \notin S
  BY <1>3 DEF TakeAway, Backed, BoardsOK
<1>4. QED
  BY <1>1, <1>2, <1>3 DEF Backed

\* The reservations that count: those of jobs on their way and of clients.
Wanted(q, x) ==
  \/ x \in Jobs /\ q = target[x] /\ enqueuer[x] = "reserved" /\ Places(x) # {}
  \/ x \in Clients /\ <<q, x>> \in claims

LEMMA PortBackedWanted ==
  ASSUME TypeOK
  PROVE  PortBacked <=> \A q \in Paths, x \in Owners : Wanted(q, x) => Backed(q, x)
<1>1. target \in [Jobs -> Paths] /\ claims \subseteq Paths \X Clients
  BY DEF TypeOK
<1>2. ASSUME PortBacked, NEW q \in Paths, NEW x \in Owners, Wanted(q, x)
      PROVE  Backed(q, x)
  <2>1. CASE x \in Jobs /\ q = target[x] /\ enqueuer[x] = "reserved" /\ Places(x) # {}
    BY <1>2, <2>1 DEF PortBacked, Backed
  <2>2. CASE x \in Clients /\ <<q, x>> \in claims
    <3>1. owner[<<q, x>>[1]] = <<q, x>>[2] \/ <<q, x>> \in revoked
      BY <1>2, <2>2 DEF PortBacked
    <3>2. QED
      BY <3>1 DEF Backed
  <2>3. QED
    BY <1>2, <2>1, <2>2 DEF Wanted
<1>3. ASSUME \A q \in Paths, x \in Owners : Wanted(q, x) => Backed(q, x)
      PROVE  PortBacked
  <2>1. ASSUME NEW j \in Jobs, enqueuer[j] = "reserved", Places(j) # {}
        PROVE  owner[target[j]] = j \/ <<target[j], j>> \in revoked
    BY <1>1, <1>3, <2>1 DEF Wanted, Backed, Owners
  <2>2. ASSUME NEW cl \in claims
        PROVE  owner[cl[1]] = cl[2] \/ cl \in revoked
    <3>1. PICK p \in Paths, c \in Clients : cl = <<p, c>>
      BY <1>1
    <3>2. QED
      BY <1>3, <2>2, <3>1 DEF Wanted, Backed, Owners
  <2>3. QED
    BY <2>1, <2>2 DEF PortBacked
<1>4. QED
  BY <1>2, <1>3

\* A step that grants nothing and enqueues nothing makes no reservation count.
LEMMA WantedBefore ==
  ASSUME Placed, [Next]_vars, UNCHANGED <<target, enqueuer>>, claims' \subseteq claims,
         NEW q \in Paths, NEW x \in Owners, Wanted(q, x)'
  PROVE  Wanted(q, x)
<1>1. CASE x \in Jobs /\ q = target[x] /\ enqueuer[x] = "reserved" /\ Places(x)' # {}
  <2>1. PlacesKept(x)
    BY <1>1, PlacesStep DEF Placed
  <2>2. QED
    BY <1>1, <2>1 DEF PlacesKept, Kept, Wanted
<1>2. CASE x \in Clients /\ <<q, x>> \in claims
  BY <1>2 DEF Wanted
<1>3. QED
  BY <1>1, <1>2 DEF Wanted

\* A reservation that counts after a step is on record or noted as taken away,
\* if it was so before.
LEMMA BackedStep ==
  ASSUME Placed, [Next]_vars, NEW q \in Paths, NEW x \in Owners,
         Wanted(q, x) => Backed(q, x), Wanted(q, x)'
  PROVE  Backed(q, x)'
<1>a. BoardsOK /\ JobsOK /\ TypeOK
  BY Groups DEF Placed
<1>b. ASSUME UNCHANGED <<target, enqueuer, owner, claims, revoked>> PROVE Backed(q, x)'
  BY <1>b, WantedBefore DEF Backed
<1>c. ASSUME UNCHANGED <<jobVars, pipeVars, claims>>, NEW S \in SUBSET Paths, TakeAway(S)
      PROVE  Backed(q, x)'
  BY <1>a, <1>c, WantedBefore, TakeAwayBacks DEF jobVars
<1>1. CASE Dispatcher
  BY <1>1, <1>b DEF Dispatcher, OpenGate, Dequeue, Locate, StampBusy, Submit, PeerAccepts,
                    PeerFails, jobVars, boardVars
<1>2. ASSUME NEW w \in Workers, Worker(w) PROVE Backed(q, x)'
  BY <1>2, <1>b DEF Worker, StartJob, FinishJob, SendResult, jobVars, boardVars
<1>3. CASE Collect
  <2> DEFINE j == Head(results).job
  <2>1. j \in Jobs
    <3>1. results \in Seq(Result) /\ results # <<>>
      BY <1>a, <1>3 DEF TypeOK, Collect
    <3>2. Head(results) \in Result
      BY <3>1
    <3>3. QED
      BY <3>2 DEF Result
  <2>2. /\ Release(target[j], j) /\ revoked' = revoked \ {<<target[j], j>>}
        /\ UNCHANGED <<target, enqueuer, claims>>
    BY <1>3 DEF Collect, jobVars
  <2>3. Wanted(q, x)
    BY <2>2, WantedBefore
  <2>4. x # j
    <3>1. ASSUME x = j PROVE FALSE
      <4>1. Places(x)' = {}
        BY <1>3, <2>1, <3>1, CollectPlaces DEF Placed
      <4>2. x \notin Clients
        BY <2>1, <3>1
      <4>3. QED
        BY <4>1, <4>2 DEF Wanted
    <3>2. QED
      BY <3>1
  <2>5. target[j] \in Paths /\ j \in Owners
    BY <1>a, <2>1 DEF JobsOK, Owners
  <2> HIDE DEF j
  <2>6. <<q, x>> # <<target[j], j>>
    BY <2>4
  <2>7. QED
    BY <1>a, <2>2, <2>3, <2>5, <2>6, ReleaseBacks
<1>4. CASE CompleteJob
  BY <1>4, <1>b DEF CompleteJob, boardVars
<1>5. ASSUME NEW i \in Jobs, Request(i) PROVE Backed(q, x)'
  <2>1. ASSUME NEW p \in Paths, Enqueue(i, p) PROVE Backed(q, x)'
    <3>1. /\ enqueuer' = [enqueuer EXCEPT ![i] = "queued"] /\ target' = [target EXCEPT ![i] = p]
          /\ UNCHANGED <<owner, claims, revoked>>
      BY <2>1 DEF Enqueue, boardVars
    <3>2. CASE x \in Jobs /\ q = target'[x] /\ enqueuer'[x] = "reserved" /\ Places(x)' # {}
      <4>1. x # i /\ enqueuer[x] = "reserved" /\ q = target[x]
        BY <1>a, <3>1, <3>2 DEF JobsOK
      <4>2. PlacesKept(x)
        BY <1>a, <2>1, <3>2, <4>1, EnqueuePlaces DEF Placed
      <4>3. Wanted(q, x)
        BY <3>2, <4>1, <4>2 DEF PlacesKept, Kept, Wanted
      <4>4. QED
        BY <3>1, <4>3 DEF Backed
    <3>3. CASE x \in Clients /\ <<q, x>> \in claims'
      BY <3>1, <3>3 DEF Wanted, Backed
    <3>4. QED
      BY <3>2, <3>3 DEF Wanted
  <2>2. ASSUME ReserveForJob(i) PROVE Backed(q, x)'
    <3>1. target[i] \in Paths /\ i \in Owners
      BY <1>a DEF JobsOK, Owners
    <3>2. CASE Reserve(target[i], i) /\ enqueuer' = [enqueuer EXCEPT ![i] = "reserved"]
      <4>1. UNCHANGED <<target, claims, pending, pipeVars>>
        BY <2>2 DEF ReserveForJob
      <4>2. CASE x = i
        <5>1. q = target[i]
          <6>1. x \notin Clients
            BY <4>2
          <6>2. QED
            BY <4>1, <4>2, <6>1 DEF Wanted
        <5>2. owner'[q] = x
          BY <1>a, <3>2, <4>2, <5>1 DEF Reserve, BoardsOK
        <5>3. QED
          BY <5>2 DEF Backed
      <4>3. CASE x # i
        <5>1. Places(x)' = Places(x)
          BY <4>1, FramePlaces DEF pipeVars, Places
        <5>2. Wanted(q, x)
          BY <1>a, <3>2, <4>1, <4>3, <5>1 DEF Wanted, JobsOK
        <5>3. QED
          BY <1>a, <3>1, <3>2, <5>2, ReserveBacks
      <4>4. QED
        BY <4>2, <4>3
    <3>3. CASE /\ enqueuer' = [enqueuer EXCEPT ![i] = "refusing"]
               /\ UNCHANGED <<owner, status, revoked>>
      <4>1. UNCHANGED <<target, claims, pending, pipeVars>>
        BY <2>2 DEF ReserveForJob
      <4>2. ASSUME x \in Jobs PROVE Places(x)' = Places(x)
        BY <4>1, FramePlaces DEF pipeVars, Places
      <4>3. Wanted(q, x)
        BY <1>a, <3>3, <4>1, <4>2 DEF Wanted, JobsOK
      <4>4. QED
        BY <3>3, <4>3 DEF Backed
    <3>4. QED
      BY <2>2, <3>2, <3>3 DEF ReserveForJob
  <2>3. ASSUME FailRefused(i) PROVE Backed(q, x)'
    <3>1. /\ enqueuer' = [enqueuer EXCEPT ![i] = "refused"]
          /\ UNCHANGED <<target, pending, pipeVars, owner, claims, revoked>>
      BY <2>3 DEF FailRefused, boardVars
    <3>2. Places(x)' = Places(x)
      BY <3>1, FramePlaces DEF pipeVars, Places
    <3>3. Wanted(q, x)
      BY <1>a, <3>1, <3>2 DEF Wanted, JobsOK
    <3>4. QED
      BY <3>1, <3>3 DEF Backed
  <2>4. ASSUME CancelJob(i) PROVE Backed(q, x)'
    BY <2>4, <1>b DEF CancelJob, boardVars
  <2>5. ASSUME CancelRelease(i) PROVE Backed(q, x)'
    <3>1. /\ Release(target[i], i) /\ UNCHANGED <<target, enqueuer, claims>>
          /\ revoked' = IF owner[target[i]] = i THEN revoked \cup {<<target[i], i>>} ELSE revoked
      BY <2>5 DEF CancelRelease
    <3>2. Wanted(q, x)
      BY <3>1, WantedBefore
    <3>3. target[i] \in Paths /\ i \in Owners
      BY <1>a DEF JobsOK, Owners
    <3>4. CASE <<q, x>> = <<target[i], i>>
      <4>1. q = target[i] /\ x = i
        BY <3>4
      <4>2. QED
        BY <3>1, <3>2, <4>1 DEF Backed, Release
    <3>5. CASE <<q, x>> # <<target[i], i>>
      BY <1>a, <3>1, <3>2, <3>3, <3>5, ReleaseBacks
    <3>6. QED
      BY <3>4, <3>5
  <2>6. QED
    BY <1>5, <2>1, <2>2, <2>3, <2>4, <2>5 DEF Request
<1>6. ASSUME NEW p \in Paths, Board(p) PROVE Backed(q, x)'
  <2>1. ASSUME NEW c \in Clients, ClientReserve(c, p) PROVE Backed(q, x)'
    <3>1. Reserve(p, c) /\ claims' = claims \cup {<<p, c>>} /\ UNCHANGED <<jobVars, pipeVars>>
      BY <2>1 DEF ClientReserve
    <3>2. c \in Owners
      BY DEF Owners
    <3>3. CASE <<q, x>> = <<p, c>>
      <4>1. owner'[q] = x
        BY <1>a, <3>1, <3>3 DEF Reserve, BoardsOK
      <4>2. QED
        BY <4>1 DEF Backed
    <3>4. CASE <<q, x>> # <<p, c>>
      <4>1. Places(x)' = Places(x)
        BY <3>1, FramePlaces DEF jobVars, pipeVars, Places
      <4>2. Wanted(q, x)
        BY <3>1, <3>4, <4>1 DEF Wanted, jobVars
      <4>3. QED
        BY <1>a, <3>1, <3>2, <4>2, ReserveBacks
    <3>5. QED
      BY <3>3, <3>4
  <2>2. ASSUME NEW c \in Clients, ClientRelease(c, p) PROVE Backed(q, x)'
    <3>1. /\ Release(p, c) /\ revoked' = revoked \ {<<p, c>>} /\ claims' = claims \ {<<p, c>>}
          /\ UNCHANGED <<jobVars, pipeVars>>
      BY <2>2 DEF ClientRelease
    <3>2. Wanted(q, x)
      BY <3>1, WantedBefore DEF jobVars
    <3>3. c \in Owners
      BY DEF Owners
    <3>4. <<q, x>> # <<p, c>>
      <4>1. ASSUME <<q, x>> = <<p, c>> PROVE FALSE
        <5>1. x \notin Jobs /\ <<q, x>> \notin claims'
          BY <3>1, <4>1
        <5>2. QED
          BY <5>1 DEF Wanted
      <4>2. QED
        BY <4>1
    <3>5. QED
      BY <1>a, <3>1, <3>2, <3>3, <3>4, ReleaseBacks
  <2>3. ASSUME NEW s, RecordStored(p, s) PROVE Backed(q, x)'
    <3>1. /\ owner' = [owner EXCEPT ![p] = IF @ = NoLock THEN NoOwner ELSE @]
          /\ UNCHANGED <<jobVars, pipeVars, claims, revoked>>
      BY <2>3 DEF RecordStored
    <3>2. Wanted(q, x)
      BY <3>1, WantedBefore DEF jobVars
    <3>3. x # NoLock
      BY DEF Owners
    <3>4. QED
      BY <1>a, <3>1, <3>2, <3>3 DEF Backed, BoardsOK
  <2>4. ASSUME Replugged(p) PROVE Backed(q, x)'
    BY <2>4, <1>c DEF Replugged
  <2>5. ASSUME RecordRemoved(p) PROVE Backed(q, x)'
    BY <2>5, <1>b DEF RecordRemoved, jobVars
  <2>6. ASSUME Unregister(p) PROVE Backed(q, x)'
    <3>1. /\ owner' = [owner EXCEPT ![p] = NoLock] /\ revoked' = revoked \cup HeldIn({p})
          /\ UNCHANGED <<jobVars, pipeVars, claims>>
      BY <2>6 DEF Unregister
    <3>2. Wanted(q, x)
      BY <3>1, WantedBefore DEF jobVars
    <3>3. owner[q] = x /\ q = p => <<q, x>> \in HeldIn({p})
      BY DEF HeldIn
    <3>4. QED
      BY <1>a, <3>1, <3>2, <3>3 DEF Backed, BoardsOK
  <2>7. QED
    BY <1>6, <2>1, <2>2, <2>3, <2>4, <2>5, <2>6 DEF Board
<1>7. CASE Maintenance
  <2>1. ASSUME NEW p \in Paths, CleanupStale(p) PROVE Backed(q, x)'
    BY <2>1, <1>c DEF CleanupStale
  <2>2. ASSUME NEW j \in Jobs, CleanupOld(j) PROVE Backed(q, x)'
    BY <2>2, <1>b DEF CleanupOld, boardVars
  <2>3. QED
    BY <1>7, <2>1, <2>2 DEF Maintenance
<1>8. CASE UNCHANGED vars
  BY <1>8, <1>b DEF vars, jobVars, boardVars
<1>9. QED
  BY <1>1, <1>2, <1>3, <1>4, <1>5, <1>6, <1>7, <1>8 DEF Next, Collector

\* A job on its way keeps the reservation it was granted and a client the one it
\* was told about, unless it is cancelled or the leader takes the board away.
THEOREM JobsPortBacked == Spec => []PortBacked
<1> DEFINE IInv == Placed /\ PortBacked
<1>1. Init => IInv
  <2>1. Init => PortBacked
    BY DEF Init, PortBacked
  <2>2. QED
    BY <2>1, InitPlaced
<1>2. IInv /\ [Next]_vars => IInv'
  <2> SUFFICES ASSUME IInv, [Next]_vars PROVE IInv'
    OBVIOUS
  <2>1. Placed'
    BY PlacedStep
  <2>2. \A q \in Paths, x \in Owners : Wanted(q, x) => Backed(q, x)
    BY PortBackedWanted DEF Placed
  <2>3. \A q \in Paths, x \in Owners : Wanted(q, x)' => Backed(q, x)'
    BY <2>2, BackedStep
  <2>4. PortBacked'
    <3>1. TypeOK'
      BY <2>1 DEF Placed
    <3>2. (TypeOK => (PortBacked <=> \A q \in Paths, x \in Owners : Wanted(q, x) => Backed(q, x)))'
      BY PortBackedWanted, PTL
    <3>3. QED
      BY <2>3, <3>1, <3>2
  <2>5. QED
    BY <2>1, <2>4
<1>3. QED
  BY <1>1, <1>2, PTL DEF Spec
=============================================================================
