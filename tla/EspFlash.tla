------------------------------ MODULE EspFlash ------------------------------
(***************************************************************************)
(* One flash or erase call on a chip (internal/flash/flasher.go over       *)
(* internal/espflash): reset and sync, the RAM stub, and the command       *)
(* protocol with its retries of blocks and of whole parts.                 *)
(*                                                                         *)
(* The line loses frames in both directions and delays answers.  An answer *)
(* names the command it answers and nothing else: the answer to a block    *)
(* that was sent again looks like the answer to the next one.  The chip is *)
(* external: where its programs differ, it may do either.                  *)
(***************************************************************************)
EXTENDS Naturals, Sequences

CONSTANTS NParts,         \* parts of the image: bootloader, table, application
          NBlocks,        \* blocks of a part
          BlockAttempts,  \* maxFlashBlockAttempts: 5 in the code
          PartAttempts,   \* maxFlashPartAttempts: 3 in the code
          Deadline,       \* p4CommandDeadline: 8 s in the code
          MaxAnswers      \* bound on the answers on the line

ASSUME FlashAssumption ==
  {NParts, NBlocks, BlockAttempts, PartAttempts, Deadline, MaxAnswers} \subseteq Nat \ {0}

Parts == 1..NParts
Blocks == 1..NBlocks

VARIABLES
  task,      \* the call: its options and how far it is
  stub,      \* conn.stub: the host believes that the stub runs
  baud,      \* of the port, of the chip, and Flasher.currentBaud
  chip,      \* the program on the chip and its download
  content,   \* the blocks of a part that are in flash as they should be
  answers,   \* on the line
  waited,    \* time since the command was sent
  verified,  \* parts whose MD5 the host has compared
  resent     \* history: parts with a block that was sent twice

espVars == <<task, stub, baud, chip, content, answers, waited, verified, resent>>
linkVars == <<baud, chip, content, answers>>
histVars == <<verified, resent>>

Commands == {"attach", "baud", "check", "begin", "data", "end", "md5", "erase"}
Calls == {"images", "image", "erase"}
Outcomes == {"none", "ok", "failed"}
Speeds == {"slow", "fast", "off"}
NoDownload == [run |-> "app", part |-> 0, next |-> 1, whole |-> TRUE]

EspTypeOK ==
  /\ task \in [call : Calls, skip : BOOLEAN, rom : BOOLEAN, reopens : BOOLEAN, outcome : Outcomes,
               pc : Commands \cup {"connect", "reset", "done"}, sent : BOOLEAN, recover : BOOLEAN,
               part : Parts, try : 1..PartAttempts, block : 1..NBlocks + 1, attempt : 1..BlockAttempts \cup {2}]
  /\ stub \in BOOLEAN
  /\ baud \in [port : {"slow", "fast"}, chip : Speeds, noted : {"slow", "fast"}]
  /\ chip \in [run : {"app", "rom", "stub"}, part : 0..NParts, next : 1..NBlocks + 1, whole : BOOLEAN]
  /\ content \in [Parts -> SUBSET Blocks]
  /\ answers \in Seq([to : Commands, good : BOOLEAN]) /\ Len(answers) <= MaxAnswers
  /\ waited \in 0..Deadline
  /\ verified \subseteq Parts /\ resent \subseteq Parts

Pos == <<task.pc, task.sent>>
Goto(pc) == task' = [task EXCEPT !.pc = pc, !.sent = FALSE]
Finish(how) == task' = [task EXCEPT !.pc = "done", !.sent = FALSE, !.outcome = how]
\* The first command for part p, from its first try.
StartPart(p) ==
  task' = [task EXCEPT !.pc = IF task.skip /\ stub THEN "check" ELSE "begin", !.sent = FALSE,
                       !.recover = FALSE, !.part = p, !.try = 1, !.block = 1, !.attempt = 1]
PartDone == IF task.part = NParts \/ task.call = "image" THEN Goto("reset") ELSE StartPart(task.part + 1)
\* The part again, after a failure that reconnect has treated.
RetryPart(isStub) ==
  task' = [task EXCEPT !.pc = IF task.skip /\ isStub THEN "check" ELSE "begin", !.sent = FALSE,
                       !.recover = FALSE, !.block = 1, !.attempt = 1]
-----------------------------------------------------------------------------
(* Connecting.                                                              *)

\* What a reset leaves: the boot loader, which takes the speed of the first
\* sync from the port; a port that was opened anew is slow.
AfterReset(run, reopened) ==
  /\ chip' = [NoDownload EXCEPT !.run = run]
  /\ baud' = LET speed == IF reopened THEN "slow" ELSE baud.port
             IN  [baud EXCEPT !.port = speed, !.chip = speed]
  /\ answers' = <<>>

\* connect finds the chip; finishConnect loads the stub, or fails to and goes on
\* (a greeting may be lost when the stub runs).  conn.stub outlives the reset,
\* unless the port was opened anew.
Connect ==
  /\ task.pc = "connect"
  /\ \E run \in {"rom", "stub"}, loaded, reopened \in BOOLEAN :
       /\ reopened => task.reopens
       /\ task.rom => run = "rom" /\ ~ loaded
       /\ loaded => run = "stub"
       /\ AfterReset(run, reopened)
       /\ stub' = (loaded \/ (stub /\ ~ reopened))
  /\ Goto(IF task.call = "erase" THEN "erase" ELSE "attach")
  /\ UNCHANGED <<content, waited, histVars>>

\* No sync after all attempts.  In a recovery the part is tried nevertheless.
ConnectFails ==
  /\ task.pc = "connect"
  /\ \E run \in {"app", "rom"}, reopened \in BOOLEAN :
       /\ reopened => task.reopens
       /\ AfterReset(run, reopened)
       /\ stub' = (stub /\ ~ reopened)
  /\ IF task.recover THEN RetryPart(stub') ELSE Finish("failed")
  /\ UNCHANGED <<content, waited, histVars>>
-----------------------------------------------------------------------------
(* A command: send, and read until its answer comes or the deadline.        *)

Answer(op, good) ==
  \/ answers' = Append(answers, [to |-> op, good |-> good]) /\ Len(answers) < MaxAnswers
  \/ UNCHANGED answers

\* The loader gets a block it expects, one it has had, or one too far ahead.
ChipTakesBlock ==
  /\ chip.part = task.part
  /\ \/ /\ task.block = chip.next
        /\ chip' = [chip EXCEPT !.next = @ + 1]
        /\ content' = IF chip.whole THEN [content EXCEPT ![task.part] = @ \cup {task.block}] ELSE content
        /\ Answer("data", TRUE)
     \/ /\ task.block # chip.next
        /\ UNCHANGED content
        /\ \/ \E good \in BOOLEAN : Answer("data", good) /\ UNCHANGED chip
           \/ chip' = [chip EXCEPT !.whole = FALSE] /\ Answer("data", TRUE)

\* External: what the chip does with a command it receives.  Blocks of the
\* stub's size are too large for the boot loader.
ChipHandles ==
  CASE task.pc = "begin" ->
         /\ chip' = [chip EXCEPT !.part = task.part, !.next = 1, !.whole = TRUE]
         /\ content' = [content EXCEPT ![task.part] = {}]
         /\ Answer("begin", TRUE) /\ UNCHANGED baud
    [] task.pc = "data" /\ chip.part = task.part /\ (stub => chip.run = "stub") -> ChipTakesBlock /\ UNCHANGED baud
    [] task.pc \in {"md5", "check"} /\ chip.run = "stub" ->
         /\ Answer(task.pc, content[task.part] = Blocks)
         /\ UNCHANGED <<baud, chip, content>>
    [] task.pc = "baud" ->
         /\ baud' = [baud EXCEPT !.chip = IF chip.run = "stub" /\ baud.noted # @ THEN "off" ELSE "fast"]
         /\ Answer("baud", TRUE) /\ UNCHANGED <<chip, content>>
    [] task.pc = "erase" /\ chip.run = "stub" ->
         /\ content' = [p \in Parts |-> {}]
         /\ Answer("erase", TRUE) /\ UNCHANGED <<baud, chip>>
    [] task.pc \in {"attach", "end"} ->
         Answer(task.pc, TRUE) /\ UNCHANGED <<baud, chip, content>>
    [] OTHER -> Answer(task.pc, FALSE) /\ UNCHANGED <<baud, chip, content>>

\* sendCommand.  A frame may be lost, and is when the speeds differ.
SendCommand ==
  /\ task.pc \in Commands /\ ~ task.sent
  /\ task' = [task EXCEPT !.sent = TRUE]
  /\ \/ chip.run # "app" /\ baud.chip = baud.port /\ ChipHandles
     \/ UNCHANGED linkVars
  /\ waited' = 0
  /\ verified' = IF task.pc = "begin" THEN verified \ {task.part} ELSE verified
  /\ resent' = IF task.pc = "data" /\ task.attempt > 1 THEN resent \cup {task.part} ELSE resent
  /\ UNCHANGED stub

\* command: frames that answer something else are skipped.
SkipFrame ==
  /\ task.sent /\ answers # <<>> /\ Head(answers).to # task.pc
  /\ answers' = Tail(answers)
  /\ UNCHANGED <<task, stub, baud, chip, content, waited, histVars>>

Answered(good) ==
  /\ task.sent /\ answers # <<>>
  /\ Head(answers) = [to |-> task.pc, good |-> good]
  /\ answers' = Tail(answers)

TimePassesBy ==
  /\ task.sent /\ waited < Deadline
  /\ waited' = waited + 1
  /\ UNCHANGED <<task, stub, linkVars, histVars>>

\* The read loop's own deadline, whatever the timeout of the command.
DeadlinePasses == task.sent /\ waited = Deadline

\* flushInput drops what has arrived; the rest is still under way.
FlushInput(least) == \E n \in least..Len(answers) : answers' = SubSeq(answers, n + 1, Len(answers))

Fails(op) ==
  /\ task.pc = op
  /\ \/ DeadlinePasses /\ UNCHANGED answers
     \/ Answered(FALSE)

Succeeds(op) == task.pc = op /\ Answered(TRUE)
-----------------------------------------------------------------------------
(* What follows a command.                                                  *)

\* Mutant: the tries of a part are not counted.
MutantFailPart ==
  IF task.try < PartAttempts /\ task.call = "images"
    THEN task' = [task EXCEPT !.pc = "connect", !.sent = FALSE, !.recover = TRUE, !.attempt = 1]
    ELSE Finish("failed")

\* Mutant: one try too many.
MutantLastTry ==
  IF task.try <= PartAttempts /\ task.call = "images"
    THEN task' = [task EXCEPT !.pc = "connect", !.sent = FALSE, !.recover = TRUE, !.try = @ + 1,
                               !.attempt = 1]
    ELSE Finish("failed")

\* FlashImages reconnects and tries the part again; FlashImage does not.
FailPart ==
  IF task.try < PartAttempts /\ task.call = "images"
    THEN task' = [task EXCEPT !.pc = "connect", !.sent = FALSE, !.recover = TRUE, !.try = @ + 1,
                               !.attempt = 1]
    ELSE Finish("failed")

\* attachFlash; in a recovery it is tried twice and given up without harm.
AttachReturns ==
  /\ \/ Succeeds("attach") /\ Goto("baud")
     \/ /\ Fails("attach")
        /\ CASE ~ task.recover -> Finish("failed")
             [] task.recover /\ task.attempt = 1 -> task' = [task EXCEPT !.sent = FALSE, !.attempt = 2]
             [] OTHER -> RetryPart(stub)
  /\ UNCHANGED <<stub, baud, chip, content, waited, histVars>>

\* changeBaud: the port follows the chip; a failure is a warning.
BaudReturns ==
  /\ \/ /\ Succeeds("baud")
        /\ baud' = [baud EXCEPT !.port = "fast", !.noted = "fast"]
     \/ Fails("baud") /\ UNCHANGED baud
  /\ UNCHANGED <<stub, chip, content, waited, histVars>>
  /\ IF task.recover THEN RetryPart(stub) ELSE StartPart(1)

\* SkipUnchanged: an MD5 that could not be read is no reason to skip.  On the wire
\* "check" and "md5" are one command; a late digest of another part, taken for the
\* answer to "check", differs from the image as a lost answer does.
CheckReturns ==
  /\ \/ /\ Succeeds("check")
        /\ verified' = verified \cup {task.part}
        /\ PartDone
     \/ Fails("check") /\ Goto("begin") /\ UNCHANGED verified
  /\ UNCHANGED <<stub, baud, chip, content, waited, resent>>

BeginReturns ==
  /\ \/ Succeeds("begin") /\ Goto("data")
     \/ Fails("begin") /\ FailPart
  /\ UNCHANGED <<stub, baud, chip, content, waited, histVars>>

\* Mutant: a block whose attempts are used up counts as sent.
MutantDataReturns ==
  /\ \/ Succeeds("data")
     \/ task.pc = "data" /\ DeadlinePasses /\ FlushInput(0)
  /\ IF task.block < NBlocks
       THEN task' = [task EXCEPT !.sent = FALSE, !.block = @ + 1, !.attempt = 1]
       ELSE IF stub THEN Goto("end") ELSE PartDone
  /\ UNCHANGED <<stub, baud, chip, content, waited, histVars>>

\* The next block; or the same one again, after flushInput; or no more attempts.
DataReturns ==
  /\ \/ /\ Succeeds("data")
        /\ IF task.block < NBlocks
             THEN task' = [task EXCEPT !.sent = FALSE, !.block = @ + 1, !.attempt = 1]
             ELSE IF stub THEN Goto("end") ELSE PartDone
     \/ /\ task.pc = "data"
        /\ \/ DeadlinePasses /\ FlushInput(0)
           \/ task.sent /\ answers # <<>> /\ Head(answers) = [to |-> "data", good |-> FALSE] /\ FlushInput(1)
        /\ IF task.attempt < BlockAttempts
             THEN task' = [task EXCEPT !.sent = FALSE, !.attempt = @ + 1]
             ELSE FailPart
  /\ UNCHANGED <<stub, baud, chip, content, waited, histVars>>

EndReturns ==
  /\ \/ Succeeds("end") /\ Goto("md5")
     \/ Fails("end") /\ FailPart
  /\ UNCHANGED <<stub, baud, chip, content, waited, histVars>>

\* Mutant: a mismatch is a warning, as a failure of the command is.
MutantMd5Returns ==
  /\ \/ Succeeds("md5") \/ Fails("md5")
  /\ verified' = verified \cup {task.part}
  /\ PartDone
  /\ UNCHANGED <<stub, baud, chip, content, waited, resent>>

\* verifyMD5: a mismatch fails the part, but the failure of the command does not.
\* (Only the stub is asked; another loader refuses the command.)
Md5Returns ==
  /\ \/ Succeeds("md5") /\ verified' = verified \cup {task.part} /\ PartDone
     \/ /\ Fails("md5") /\ UNCHANGED verified
        /\ IF DeadlinePasses \/ chip.run # "stub" THEN PartDone ELSE FailPart
  /\ UNCHANGED <<stub, baud, chip, content, waited, resent>>

\* EraseFlash: refused unless the stub runs.
EraseRefused ==
  /\ Pos = <<"erase", FALSE>> /\ ~ stub
  /\ Finish("failed")
  /\ UNCHANGED <<stub, linkVars, waited, histVars>>

EraseReturns ==
  /\ \/ Succeeds("erase") /\ Finish("ok")
     \/ Fails("erase") /\ Finish("failed")
  /\ UNCHANGED <<stub, baud, chip, content, waited, histVars>>

\* Reset: its commands are not checked, the lines do the rest.
FinalReset ==
  /\ task.pc = "reset"
  /\ AfterReset("app", FALSE)
  /\ Finish("ok")
  /\ UNCHANGED <<stub, content, waited, histVars>>
-----------------------------------------------------------------------------
EspStart(pc, outcome) ==
  /\ \E call \in Calls, skip, rom, reopens \in BOOLEAN :
       task = [call |-> call, skip |-> skip, rom |-> rom, reopens |-> reopens, outcome |-> outcome,
               pc |-> pc, sent |-> FALSE, recover |-> FALSE, part |-> 1, try |-> 1,
               block |-> 1, attempt |-> 1]
  /\ stub = FALSE
  /\ baud = [port |-> "slow", chip |-> "slow", noted |-> "slow"]
  /\ chip = NoDownload
  /\ content \in [Parts -> {{}, Blocks}]
  /\ answers = <<>> /\ waited = 0 /\ verified = {} /\ resent = {}

EspInit == EspStart("connect", "none")

EspNext ==
  \/ Connect \/ ConnectFails \/ SendCommand \/ SkipFrame \/ TimePassesBy
  \/ AttachReturns \/ BaudReturns \/ CheckReturns \/ BeginReturns \/ DataReturns
  \/ EndReturns \/ Md5Returns \/ EraseRefused \/ EraseReturns \/ FinalReset

EspSpec == EspInit /\ [][EspNext]_espVars
EspFairness == WF_espVars(EspNext)
EspFairSpec == EspSpec /\ EspFairness
-----------------------------------------------------------------------------
(* Properties.                                                              *)

\* flasher.go verifyMD5: what the host has verified is in flash, whatever was
\* lost, late or sent twice on the way.
VerifiedIsImage == \A p \in verified : content[p] = Blocks

\* A call that reports success has written every part - but for a part that was
\* not verified and had a block sent twice, whose late answer may have been
\* taken for that of the next block.
SuccessIsImage ==
  task.outcome = "ok" /\ task.call # "erase" =>
    \A p \in IF task.call = "image" THEN {1} ELSE Parts :
      content[p] = Blocks \/ (p \in resent /\ p \notin verified)

\* Retries are bounded: a call ends, with success or without.
FlashEnds == <>(task.outcome # "none")
=============================================================================
