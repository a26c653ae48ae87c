---------------------------- MODULE FlashCommand ----------------------------
(***************************************************************************)
(* The commands that flash a board through a cluster: `flash` with one     *)
(* image, `flash` with several and `flash-batch` for one of its boards     *)
(* (cmd/espbrew/flash.go, flash_batch.go), over the HTTP client with its   *)
(* retries (internal/cluster/client.go) and the submit handler             *)
(* (internal/http/flash_api.go).                                           *)
(*                                                                         *)
(* Of the leader only what a client can tell: a job's status, which the    *)
(* worker sets, and the board's reservation, which the collector of        *)
(* results gives back (JobDispatch).                                       *)
(***************************************************************************)
EXTENDS Naturals

CONSTANTS MaxJobs,   \* bound on the jobs submitted
          NImages,   \* images of a project: bootloader, partitions, app, ...
          MaxSends,  \* --retries
          Resends    \* maxRetries of the HTTP client: 3 in the code

ASSUME CommandAssumption == {MaxJobs, NImages, MaxSends} \subseteq Nat \ {0} /\ Resends \in Nat

Kinds == {"flash", "multi", "batch"}
TheJobs == 1..MaxJobs
JobEnded == {"completed", "failed"}
JobTerminal == JobEnded \cup {"cancelled"}
Other == MaxJobs + 1   \* somebody else who has the board: a monitor, another client

VARIABLES
  cmd,    \* the command: its kind and where its retry loop stands
  fjob,   \* the jobs it has submitted, whether or not it was told
  board   \* who has the board reserved: a job, Other, or 0

cmdVars == <<cmd, fjob, board>>

CmdTypeOK ==
  /\ cmd \in [kind : Kinds,
              pc : {"upload", "submit", "refused", "settle", "resubmit", "refusedAgain", "connect",
                    "stream", "poll", "ok", "failed"},
              image : 1..NImages, tries : 1..MaxSends, sends : 0..Resends, job : 0..MaxJobs]
  /\ fjob \in [TheJobs -> [status : {"none", "pending", "running"} \cup JobTerminal,
                           at : {"queue", "worker", "results", "done"}, image : 0..NImages,
                           loose : BOOLEAN]]   \* history: refused the board, or the board was freed under it
  /\ board \in 0..Other

Images == IF cmd.kind = "flash" THEN 1 ELSE NImages
To(pc) == cmd' = [cmd EXCEPT !.pc = pc]

\* The end of an attempt: flash and multi begin again, from the first image.
\* Mutant: the attempts are not counted up to --retries.
MutantNextAttempt ==
  IF cmd.kind = "batch"
    THEN To("failed")
    ELSE cmd' = [cmd EXCEPT !.pc = "upload", !.image = 1, !.tries = @ + 1]

NextAttempt ==
  IF cmd.kind = "batch" \/ cmd.tries = MaxSends
    THEN To("failed")
    ELSE cmd' = [cmd EXCEPT !.pc = "upload", !.image = 1, !.tries = @ + 1]

\* An error before there is a job ends the single flash at once.
Gives == IF cmd.kind = "flash" THEN To("failed") ELSE NextAttempt

ImageDone ==
  IF cmd.image < Images THEN cmd' = [cmd EXCEPT !.pc = "upload", !.image = @ + 1] ELSE To("ok")
-----------------------------------------------------------------------------
Upload ==
  /\ cmd.pc = "upload"
  /\ \/ cmd' = [cmd EXCEPT !.pc = "submit", !.sends = 0]
     \/ Gives
  /\ UNCHANGED <<fjob, board>>

NewJob(status, loose) == [status |-> status, at |-> "queue", image |-> cmd.image, loose |-> loose]
NextId(j) == fjob[j].status = "none" /\ \A i \in 1..j - 1 : fjob[i].status # "none"
Submitting == cmd.pc \in {"submit", "resubmit"}
Refused == cmd.pc \in {"refused", "refusedAgain"}

\* doWithRetry: a request without an answer is sent again, a POST as well.
NoAnswer ==
  IF cmd.sends < Resends
    THEN cmd' = [cmd EXCEPT !.sends = @ + 1,
                            !.pc = IF cmd.pc \in {"submit", "refused"} THEN "submit" ELSE "resubmit"]
    ELSE Gives

\* Mutant: the job is enqueued whoever has the board.
MutantSubmitAccepted ==
  /\ Submitting
  /\ \E j \in TheJobs :
       /\ NextId(j)
       /\ fjob' = [fjob EXCEPT ![j] = NewJob("pending", FALSE)]
       /\ board' = j
       /\ \/ cmd' = [cmd EXCEPT !.pc = IF cmd.kind = "batch" THEN "poll" ELSE "connect", !.job = j]
          \/ NoAnswer

\* handleFlashSubmit enqueues a job, which reserves the board.  The answer may
\* get lost, and the command never learns of the job.
SubmitAccepted ==
  /\ Submitting /\ board = 0
  /\ \E j \in TheJobs :
       /\ NextId(j)
       /\ fjob' = [fjob EXCEPT ![j] = NewJob("pending", FALSE)]
       /\ board' = j
       /\ \/ cmd' = [cmd EXCEPT !.pc = IF cmd.kind = "batch" THEN "poll" ELSE "connect", !.job = j]
          \/ NoAnswer

\* The request is lost.
SubmitLost == Submitting /\ NoAnswer /\ UNCHANGED <<fjob, board>>

\* The job is refused the board and marked failed; it stays in the queue, and is
\* executed like any other (JobDispatch).
SubmitRefused ==
  /\ Submitting /\ board # 0
  /\ \E j \in TheJobs :
       /\ NextId(j)
       /\ fjob' = [fjob EXCEPT ![j] = NewJob("failed", TRUE)]
  /\ cmd' = [cmd EXCEPT !.pc = IF @ = "submit" THEN "refused" ELSE "refusedAgain"]
  /\ UNCHANGED board

\* What isDeviceUnavailable looks for, "device not available": the message of a
\* refusal only when the board has been freed since; else it is "device busy".
SaysUnavailable == board = 0

\* The answer, 409, is final for doWithRetry.  The single flash may wait, once,
\* for the job it submitted before.
RefusalArrives ==
  /\ Refused
  /\ \/ IF cmd.kind = "flash" /\ cmd.pc = "refused" /\ cmd.job # 0 /\ SaysUnavailable
          THEN To("settle") ELSE Gives
     \/ NoAnswer
  /\ UNCHANGED <<fjob, board>>

\* The file, the board or its alias is gone, protected, or the leader in discovery
\* mode: no job.
SubmitRejected == Submitting /\ Gives /\ UNCHANGED <<fjob, board>>

\* waitForJobReleased polls until the job is terminal or three minutes are over.
Settle ==
  /\ cmd.pc = "settle"
  /\ \/ /\ fjob[cmd.job].status \in JobTerminal
        /\ cmd' = [cmd EXCEPT !.pc = "resubmit", !.sends = 0]
     \/ To("failed")
  /\ UNCHANGED <<fjob, board>>

\* ConnectProgress, with its own retries.
ConnectProgress ==
  /\ cmd.pc = "connect"
  /\ To("stream") \/ NextAttempt
  /\ UNCHANGED <<fjob, board>>

\* ProgressClient.Stream returns with a "complete" message, which follows the
\* status (FlashProgress) ...
StreamCompletes ==
  /\ cmd.pc = "stream" /\ fjob[cmd.job].status \in JobEnded
  /\ IF fjob[cmd.job].status = "completed" THEN ImageDone ELSE NextAttempt
  /\ UNCHANGED <<fjob, board>>

\* Mutant: a stream that was closed is taken for a completed one.
MutantStreamBreaks == cmd.pc = "stream" /\ ImageDone /\ UNCHANGED <<fjob, board>>

\* ... or because the connection was lost, or closed without one.
StreamBreaks == cmd.pc = "stream" /\ NextAttempt /\ UNCHANGED <<fjob, board>>

\* waitForJob of flash-batch knows two terminal states; it gives up after its
\* timeout, or when a poll fails.
WaitForJob ==
  /\ cmd.pc = "poll"
  /\ \/ fjob[cmd.job].status = "completed" /\ ImageDone
     \/ NextAttempt
  /\ UNCHANGED <<fjob, board>>
-----------------------------------------------------------------------------
(* The leader.                                                              *)

Becomes(j, status, at, loose) ==
  fjob' = [fjob EXCEPT ![j] = [status |-> status, at |-> at, image |-> fjob[j].image, loose |-> loose]]

JobStarts(j) ==
  /\ fjob[j].at = "queue" /\ fjob[j].status # "none"
  /\ Becomes(j, "running", "worker", fjob[j].loose)
  /\ UNCHANGED <<cmd, board>>

JobEnds(j, status) ==
  /\ fjob[j].at = "worker"
  /\ Becomes(j, status, "results", fjob[j].loose)
  /\ UNCHANGED <<cmd, board>>

Freed(j) == board' = IF board = j THEN 0 ELSE board

\* handleJobResults gives the board back when it gets to the result.
ResultTaken(j) ==
  /\ fjob[j].at = "results"
  /\ Becomes(j, fjob[j].status, "done", fjob[j].loose)
  /\ Freed(j)
  /\ UNCHANGED cmd

\* CancelJob: a status and the reservation; the job stays where it is.
JobCancelled(j) ==
  /\ fjob[j].status \in {"pending", "running"}
  /\ Becomes(j, "cancelled", fjob[j].at, TRUE)
  /\ Freed(j)
  /\ UNCHANGED cmd

\* The maintenance of the leader, or an anonymous DELETE of the reservation.
BoardFreed(j) ==
  /\ board = j /\ board' = 0
  /\ Becomes(j, fjob[j].status, fjob[j].at, TRUE)
  /\ UNCHANGED cmd

OtherTakes == board = 0 /\ board' = Other /\ UNCHANGED <<cmd, fjob>>
OtherGives == board = Other /\ board' = 0 /\ UNCHANGED <<cmd, fjob>>
-----------------------------------------------------------------------------
CmdInit ==
  /\ cmd \in [kind : Kinds, pc : {"upload"}, image : {1}, tries : {1}, sends : {0}, job : {0}]
  /\ fjob = [j \in TheJobs |-> [status |-> "none", at |-> "queue", image |-> 0, loose |-> FALSE]]
  /\ board = 0

CmdNext ==
  \/ Upload \/ SubmitAccepted \/ SubmitLost \/ SubmitRefused \/ RefusalArrives \/ SubmitRejected
  \/ Settle
  \/ ConnectProgress \/ StreamCompletes \/ StreamBreaks \/ WaitForJob
  \/ \E j \in TheJobs : \/ JobStarts(j) \/ ResultTaken(j) \/ JobCancelled(j) \/ BoardFreed(j)
                        \/ \E s \in JobEnded : JobEnds(j, s)
  \/ OtherTakes \/ OtherGives

CmdSpec == CmdInit /\ [][CmdNext]_cmdVars
-----------------------------------------------------------------------------
(* Properties.                                                              *)

\* A command that reports success has flashed every image, whatever was lost,
\* resubmitted, cancelled or closed on the way.
SuccessIsCompletion ==
  cmd.pc = "ok" =>
    \A i \in 1..Images : \E j \in TheJobs : fjob[j].image = i /\ fjob[j].status = "completed"

\* And no job of it that has the board may still write to it: one whose answer was
\* lost keeps the board until it ends.  (A job that was refused the board, or had
\* it taken away, is executed without it, and may.)
NothingStillFlashes ==
  cmd.pc = "ok" => \A j \in TheJobs : fjob[j].status \in {"pending", "running"} => fjob[j].loose
=============================================================================
