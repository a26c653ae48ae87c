------------------------------ MODULE WebFlash ------------------------------
(***************************************************************************)
(* The flash page of the web interface (internal/ui/pages/flash.go) with   *)
(* its calls to the leader (internal/ui/api/flash.go): uploads, the        *)
(* submission of a job, and the poll that follows it.  The page runs one   *)
(* callback at a time; what interleaves are the fetches it has under way,  *)
(* whose answers come in any order, fail, or lose their body: then result  *)
(* .json() is rejected, nobody catches it, and no callback runs at all.    *)
(*                                                                         *)
(* The leader is seen through its list of jobs (JobDispatch has the rest). *)
(* Reloading the page is starting again; demo mode is left out.            *)
(***************************************************************************)
EXTENDS Naturals, FiniteSets, Sequences

CONSTANTS PageImages,   \* what a user may flash: the content of an app binary
          NoImage,      \* no file id, no project
          Binaries,     \* the binaries of a project: "app" and others
          MaxAttempts   \* bound: how often the user presses "Flash Device"

ASSUME WebAssumption ==
  /\ NoImage \notin PageImages
  /\ "app" \in Binaries /\ "file" \notin Binaries /\ IsFiniteSet(Binaries)
  /\ MaxAttempts \in Nat \ {0}

VARIABLES
  page,     \* flashInProgress, currentFileID, appFileID, currentProject.AppData
  uploads,  \* uploads under way; those of attempt 0 are of single files
  arrived,  \* uploadCount in the closure of each attempt
  submits,  \* submissions under way, and what the leader made of them
  poll,     \* pollProgress of the job of each attempt: not under way, waiting for its
            \* timer, asking, or over with "Device flashed successfully!"
  listed,   \* the leader's jobs: what GET /jobs lists
  attempts, \* history: the image each press of the button asked for
  hasty,    \* history: the button was pressed while older uploads were under way
  lost      \* history: the body of some answer was lost

webVars == <<page, uploads, arrived, submits, poll, listed, attempts, hasty, lost>>

AnyImage == PageImages \cup {NoImage}
Attempts == 1..MaxAttempts   \* an attempt also names the job it leads to

WebTypeOK ==
  /\ page \in [busy : BOOLEAN, file : AnyImage, app : AnyImage, project : AnyImage]
  /\ uploads \subseteq [att : {0}, part : {"file"}, image : PageImages]
                 \cup [att : Attempts, part : Binaries, image : PageImages]
  /\ arrived \in [Attempts -> 0..Cardinality(Binaries)]
  /\ submits \subseteq [att : Attempts, image : AnyImage, answer : {"none", "refused", "made"}]
  /\ poll \in [Attempts -> {"off", "timer", "asks", "success"}]
  /\ listed \in [Attempts -> {"none", "active", "completed", "failed", "cancelled"}]
  /\ \E n \in 0..MaxAttempts : attempts \in [1..n -> PageImages]
  /\ {hasty, lost} \subseteq BOOLEAN
-----------------------------------------------------------------------------
(* What the user does.                                                      *)

\* Bound: the user chooses while there are attempts left to flash it.
Chooses == Len(attempts) < MaxAttempts

\* handleFileSelect and uploadFirmware: "Choose File" is disabled during an upload.
\* (Bound: it stays so when the page is left and shown anew meanwhile.)
SelectFile(i) ==
  /\ Chooses /\ \A u \in uploads : u.att # 0
  /\ uploads' = uploads \cup {[att |-> 0, part |-> "file", image |-> i]}
  /\ UNCHANGED <<page, arrived, submits, poll, listed, attempts, hasty, lost>>

\* handleFolderSelect to loadArtifactFiles: the binaries found replace
\* currentProject; NoImage when there is no app among them.
SelectFolder(i) ==
  /\ Chooses
  /\ page' = [page EXCEPT !.project = i]
  /\ UNCHANGED <<uploads, arrived, submits, poll, listed, attempts, hasty, lost>>

\* handleFlashStart with a device selected: a project goes before a file.
\* updateFlashButton follows every change of flashInProgress, so that the
\* button is disabled while it is set.
Press ==
  LET n == Len(attempts) + 1
      image == IF page.project # NoImage THEN page.project ELSE page.file
  IN  /\ n \in Attempts /\ ~page.busy /\ image # NoImage
      /\ page' = [page EXCEPT !.busy = TRUE]
      /\ attempts' = Append(attempts, image)
      /\ hasty' = (hasty \/ \E u \in uploads : u.att # 0)
      /\ IF page.project # NoImage
           THEN /\ uploads' = uploads \cup [att : {n}, part : Binaries, image : {image}]
                /\ UNCHANGED submits
           ELSE /\ submits' = submits \cup {[att |-> n, image |-> image, answer |-> "none"]}
                /\ UNCHANGED uploads
      /\ UNCHANGED <<arrived, poll, listed, lost>>
-----------------------------------------------------------------------------
(* Uploads.                                                                 *)

\* The last upload of an attempt calls startFlashing, which submits appFileID,
\* whoever set it last, or gives up when no device is selected any more.
UploadDone(u) ==
  /\ uploads' = uploads \ {u}
  /\ LET filed == CASE u.part = "file" -> [page EXCEPT !.file = u.image]
                    [] u.part = "app" -> [page EXCEPT !.file = u.image, !.app = u.image]
                    [] OTHER -> page
     IN  IF u.att = 0
           THEN page' = filed /\ UNCHANGED <<arrived, submits>>
           ELSE /\ arrived' = [arrived EXCEPT ![u.att] = @ + 1]
                /\ \/ /\ page' = filed
                      /\ submits' = IF arrived'[u.att] < Cardinality(Binaries) THEN submits
                           ELSE submits \cup {[att |-> u.att, image |-> filed.app, answer |-> "none"]}
                   \/ /\ arrived'[u.att] = Cardinality(Binaries)
                      /\ page' = [filed EXCEPT !.busy = FALSE]
                      /\ UNCHANGED submits
  /\ UNCHANGED <<poll, listed, attempts, hasty, lost>>

\* Mutant: every failed upload ends the flash.
MutantUploadFails(u) ==
  /\ uploads' = uploads \ {u}
  /\ page' = [page EXCEPT !.busy = FALSE]
  /\ UNCHANGED <<arrived, submits, poll, listed, attempts, hasty, lost>>

\* The leader refuses, or the fetch fails.  For a binary of a project
\* flashInProgress is reset, though the other binaries are still on their way;
\* after a single file currentFileID stays the one uploaded before.
UploadFails(u) ==
  /\ uploads' = uploads \ {u}
  /\ page' = IF u.att = 0 THEN page ELSE [page EXCEPT !.busy = FALSE]
  /\ UNCHANGED <<arrived, submits, poll, listed, attempts, hasty, lost>>

UploadLost(u) ==
  /\ uploads' = uploads \ {u} /\ lost' = TRUE
  /\ UNCHANGED <<page, arrived, submits, poll, listed, attempts, hasty>>

UploadSettles(u) == UploadDone(u) \/ UploadFails(u) \/ UploadLost(u)
-----------------------------------------------------------------------------
(* The submission.                                                          *)

\* handleFlashSubmit: EnqueueJobWithOffsetAndErase makes a job or refuses it; a
\* job whose board is reserved stays in the list as failed.
SubmissionServed(s) ==
  /\ s.answer = "none"
  /\ \E job \in {"active", "failed", "none"} :
       /\ listed' = [listed EXCEPT ![s.att] = job]
       /\ submits' = (submits \ {s}) \cup
            {[s EXCEPT !.answer = IF job = "active" THEN "made" ELSE "refused"]}
  /\ UNCHANGED <<page, uploads, arrived, poll, attempts, hasty, lost>>

\* The callback of SubmitFlashJob: startProgressWatch.  currentJobID only hands
\* the id over.
SubmissionAccepted(s) ==
  /\ s.answer = "made"
  /\ submits' = submits \ {s}
  /\ poll' = [poll EXCEPT ![s.att] = "timer"]
  /\ UNCHANGED <<page, uploads, arrived, listed, attempts, hasty, lost>>

\* Mutant: the error is shown and flashInProgress stays set.
MutantSubmissionFails(s) ==
  /\ submits' = submits \ {s}
  /\ UNCHANGED <<page, uploads, arrived, poll, listed, attempts, hasty, lost>>

\* The leader refused, or the connection failed before or after it made the job.
SubmissionFails(s) ==
  /\ submits' = submits \ {s}
  /\ page' = [page EXCEPT !.busy = FALSE]
  /\ UNCHANGED <<uploads, arrived, poll, listed, attempts, hasty, lost>>

SubmissionLost(s) ==
  /\ s.answer # "none"
  /\ submits' = submits \ {s} /\ lost' = TRUE
  /\ UNCHANGED <<page, uploads, arrived, poll, listed, attempts, hasty>>

SubmissionSettles(s) ==
  SubmissionServed(s) \/ SubmissionAccepted(s) \/ SubmissionFails(s) \/ SubmissionLost(s)
-----------------------------------------------------------------------------
(* The poll: pollProgress, fetchProgress and the callback of                *)
(* startProgressWatch.                                                      *)

PollTimer(j) ==
  /\ poll[j] = "timer"
  /\ poll' = [poll EXCEPT ![j] = "asks"]
  /\ UNCHANGED <<page, uploads, arrived, submits, listed, attempts, hasty, lost>>

PollEnds(j, to) ==
  /\ poll' = [poll EXCEPT ![j] = to]
  /\ page' = [page EXCEPT !.busy = FALSE]

InList == {k \in Attempts : listed[k] # "none"}

\* GET /jobs?id=j: handleListJobs does not read the query, it lists every job in
\* the order of a map, and fetchProgress takes the first of them for j.  How old
\* the answer is makes no difference to what is done with it.
PollAnswered(j, first) ==
  /\ poll[j] = "asks" /\ first \in InList
  /\ CASE listed[first] = "completed" -> PollEnds(j, "success")
       [] listed[first] = "failed" -> PollEnds(j, "off")
       [] OTHER -> poll' = [poll EXCEPT ![j] = "timer"] /\ UNCHANGED page
  /\ UNCHANGED <<uploads, arrived, submits, listed, attempts, hasty, lost>>

\* An empty list, a status of 400 or more, or a failed fetch.
PollFails(j) ==
  /\ poll[j] = "asks"
  /\ PollEnds(j, "off")
  /\ UNCHANGED <<uploads, arrived, submits, listed, attempts, hasty, lost>>

PollLost(j) ==
  /\ poll[j] = "asks"
  /\ poll' = [poll EXCEPT ![j] = "off"] /\ lost' = TRUE
  /\ UNCHANGED <<page, uploads, arrived, submits, listed, attempts, hasty>>

PollSettles(j) == PollFails(j) \/ PollLost(j) \/ \E first \in InList : PollAnswered(j, first)
-----------------------------------------------------------------------------
(* The leader's jobs.  Those of other clients are not drawn: for a poll, a   *)
(* job it does not ask for is any other job.                                *)

StatusBecomes(j, s) ==
  /\ listed' = [listed EXCEPT ![j] = s]
  /\ UNCHANGED <<page, uploads, arrived, submits, poll, attempts, hasty, lost>>

\* A worker sets its outcome whatever the status is: also after CancelJob.
ListedJobEnds(j) ==
  listed[j] \in {"active", "cancelled"} /\ \E s \in {"completed", "failed"} : StatusBecomes(j, s)

ListedJobCancelled(j) == listed[j] = "active" /\ StatusBecomes(j, "cancelled")

\* CleanupOld: an hour after the job ended.
ListedJobRemoved(j) ==
  listed[j] \in {"completed", "failed", "cancelled"} /\ StatusBecomes(j, "none")
-----------------------------------------------------------------------------
WebInit ==
  /\ page = [busy |-> FALSE, file |-> NoImage, app |-> NoImage, project |-> NoImage]
  /\ uploads = {} /\ arrived = [a \in Attempts |-> 0] /\ submits = {}
  /\ poll = [j \in Attempts |-> "off"] /\ listed = [j \in Attempts |-> "none"]
  /\ attempts = <<>> /\ hasty = FALSE /\ lost = FALSE

WebNext ==
  \/ \E i \in PageImages : SelectFile(i)
  \/ \E i \in AnyImage : SelectFolder(i)
  \/ Press
  \/ \E u \in uploads : UploadSettles(u)
  \/ \E s \in submits : SubmissionSettles(s)
  \/ \E j \in Attempts : PollTimer(j) \/ PollSettles(j)
  \/ \E j \in Attempts : ListedJobEnds(j) \/ ListedJobCancelled(j) \/ ListedJobRemoved(j)

WebSpec == WebInit /\ [][WebNext]_webVars

\* A fetch settles, a timer fires, and a job of the leader ends unless it was
\* cancelled (JobDispatch).  Go starts an iteration over a map anywhere: a poll
\* that goes on meets its own job in the end.
AttemptRuns(a) ==
  \/ \E u \in uploads : u.att = a /\ UploadSettles(u)
  \/ \E s \in submits : s.att = a /\ SubmissionSettles(s)
  \/ PollTimer(a) \/ PollSettles(a)

WebFairness ==
  \A a \in Attempts : /\ WF_webVars(AttemptRuns(a)) /\ SF_webVars(PollAnswered(a, a))
                     /\ WF_webVars(listed[a] = "active" /\ ListedJobEnds(a))

WebFairSpec == WebSpec /\ WebFairness
-----------------------------------------------------------------------------
(* Properties.                                                              *)

\* While older uploads were awaited before the button was pressed again, the
\* page has one flash under way - its uploads, its submission or its poll - and
\* submits the image that was chosen when the button was pressed, although every
\* error of any of them resets flashInProgress and all share appFileID.
UnderWay(a) ==
  poll[a] \in {"timer", "asks"} \/ (\E s \in submits : s.att = a) \/ \E u \in uploads : u.att = a
OneFlash ==
  ~hasty => /\ \A a, b \in Attempts : UnderWay(a) /\ UnderWay(b) => a = b
            /\ \A s \in submits : s.image = attempts[s.att]

\* The button comes back: a flash ends for the page unless the body of an answer
\* is lost, or the job it polls was cancelled, which the poll does not take for
\* an end, or removed before the list showed it first.
Unheard(j) == poll[j] \in {"timer", "asks"} /\ listed[j] \in {"cancelled", "none"}
FlashPageEnds == page.busy ~> ~page.busy \/ lost \/ \E j \in Attempts : Unheard(j)

\* web-interface.md:22 promises "Web-based firmware flashing with progress
\* tracking": the page reports success of a job that completed.
SuccessIsTrue ==
  [][\A j \in Attempts : poll[j] # "success" /\ poll'[j] = "success" => listed[j] = "completed"]_webVars
=============================================================================
