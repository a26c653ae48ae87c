---------------------------- MODULE SnapSession ----------------------------
(***************************************************************************)
(* One snapshot of a board (internal/snap/executor.go, framebuffer.go, the *)
(* handler in internal/http/snap.go): a monitor of the serial output and a *)
(* capture by a camera run side by side for a given time.  When asked to,  *)
(* the monitor looks in the output for a dump of the board's display,      *)
(*    FRAMEBUFFER_BEGIN, FB_BASE64 lines, FRAMEBUFFER_END                  *)
(* and turns it into an image.                                             *)
(*                                                                         *)
(* The port is read by a StreamSession, seen here through its read loop;   *)
(* no reservation is taken for it.                                         *)
(***************************************************************************)
EXTENDS Naturals, Sequences

CONSTANTS DumpLines,  \* FB_BASE64 lines of a dump: they make the size BEGIN announces
          MaxOut,     \* bound on the lines the board prints
          LineCap     \* places of dataCh: 256 in the code

ASSUME SnapAssumption == {DumpLines, MaxOut, LineCap} \subseteq Nat \ {0}

VARIABLES
  snap,    \* Executor.Run: its monitor and its camera goroutine
  frame,   \* FramebufferCollector
  reader,  \* the read loop of the session
  lines,   \* dataCh
  device   \* external: what the board prints; missed (history): the dumps whose BEGIN was dropped

snapVars == <<snap, frame, reader, lines, device>>

\* A line of the output; a line of a dump knows which one and its place in it.
Line == [kind : {"log", "begin", "end"}, dump : 0..MaxOut, n : {0}]
          \cup [kind : {"data"}, dump : 0..MaxOut, n : 1..DumpLines]

SnapTypeOK ==
  /\ snap \in [pc : {"idle", "monitor", "drain", "monitored", "done"}, framebuffer : BOOLEAN,
               ctx : {"running", "stopped", "elapsed"}, error : BOOLEAN,
               camera : {"off", "capturing", "captured", "failed"},
               status : {"none", "success", "partial"}]
  /\ frame.state \in {"idle", "collecting", "complete"} /\ frame.error \in BOOLEAN
  /\ frame.payload \in Seq(Line) /\ frame.image \in Seq(Line)
  /\ reader \in {"off", "reading", "lost", "eof", "over"}
  /\ lines \in Seq(Line) /\ Len(lines) <= LineCap
  /\ device.out \in 0..MaxOut /\ device.dump \in 0..MaxOut /\ device.at \in 0..DumpLines + 1
  /\ device.missed \subseteq 1..MaxOut

NoFrame == [state |-> "idle", error |-> FALSE, payload |-> <<>>, image |-> <<>>]
-----------------------------------------------------------------------------
(* The board and the read loop.                                             *)

\* What the board may print next: a dump goes on in order, but another task may
\* log in between, and a reset starts over.
Printed ==
  {[kind |-> "log", dump |-> 0, n |-> 0]}
    \cup (IF device.at = 0 THEN {[kind |-> "begin", dump |-> device.dump + 1, n |-> 0]}
          ELSE IF device.at <= DumpLines THEN {[kind |-> "data", dump |-> device.dump, n |-> device.at]}
          ELSE {[kind |-> "end", dump |-> device.dump, n |-> 0]})

DeviceAfter(line) ==
  [device EXCEPT !.out = @ + 1,
                 !.dump = IF line.kind = "begin" THEN line.dump ELSE @,
                 !.at = CASE line.kind \in {"begin", "data"} -> @ + 1
                          [] line.kind = "end" -> 0
                          [] line.kind = "log" -> @]

\* A line is read and goes to dataCh, or is dropped when that is full.  What the board
\* prints while nobody reads or waits is of no account, but that a dump may be under
\* way at the start.
Heard == reader = "reading" /\ snap.pc \in {"monitor", "drain"}

Prints ==
  /\ device.out < MaxOut /\ Heard
  /\ \E line \in Printed :
       IF Len(lines) < LineCap
         THEN lines' = Append(lines, line) /\ device' = DeviceAfter(line)
         ELSE /\ device' = [DeviceAfter(line) EXCEPT
                    !.missed = IF line.kind = "begin" THEN @ \cup {line.dump} ELSE @]
              /\ UNCHANGED lines
  /\ UNCHANGED <<snap, frame, reader>>

Resets ==
  /\ device.at # 0 /\ Heard
  /\ device' = [device EXCEPT !.at = 0]
  /\ UNCHANGED <<snap, frame, reader, lines>>

\* Mutant: the read loop looks at its own context only.
MutantReaderStops ==
  /\ reader = "reading" /\ snap.pc = "done"
  /\ reader' = "over"
  /\ UNCHANGED <<snap, frame, lines, device>>

\* The loop ends with the monitor's context, which is its parent, and so does
\* the reading of a port that is gone; dataCh is closed.
ReaderStops ==
  /\ reader = "reading" /\ snap.ctx # "running"
  /\ reader' = "over"
  /\ UNCHANGED <<snap, frame, lines, device>>

\* The board is unplugged: retries, then an error, or end of file.
ReaderFails ==
  /\ reader = "reading"
  /\ reader' \in {"lost", "eof"}
  /\ UNCHANGED <<snap, frame, lines, device>>
-----------------------------------------------------------------------------
(* The collector.                                                           *)

Aborted == [frame EXCEPT !.state = "idle", !.error = TRUE]

\* Mutant: a BEGIN inside a dump is passed over.
MutantFeed(line) ==
  CASE frame.state = "idle" /\ line.kind = "begin" ->
         [frame EXCEPT !.state = "collecting", !.payload = <<>>]
    [] frame.state = "collecting" /\ line.kind = "data" -> [frame EXCEPT !.payload = Append(@, line)]
    [] frame.state = "collecting" /\ line.kind = "end" ->
         IF Len(frame.payload) = DumpLines
           THEN [frame EXCEPT !.state = "complete", !.image = frame.payload]
           ELSE Aborted
    [] frame.state = "collecting" /\ line.kind = "log" -> Aborted
    [] OTHER -> frame

\* FramebufferCollector.feed: BEGIN starts a dump, END finishes it when the size
\* is right, any other line inside aborts it.
Feed(line) ==
  CASE frame.state = "idle" /\ line.kind = "begin" ->
         [frame EXCEPT !.state = "collecting", !.payload = <<>>]
    [] frame.state = "collecting" /\ line.kind = "data" -> [frame EXCEPT !.payload = Append(@, line)]
    [] frame.state = "collecting" /\ line.kind = "end" ->
         IF Len(frame.payload) = DumpLines
           THEN [frame EXCEPT !.state = "complete", !.image = frame.payload]
           ELSE Aborted
    [] frame.state = "collecting" /\ line.kind \in {"log", "begin"} -> Aborted
    [] OTHER -> frame

\* framebufferComplete counts an aborted dump as well.
Settled(f) == f.state = "complete" \/ f.error
-----------------------------------------------------------------------------
(* Executor.Run.                                                            *)

\* Both goroutines start; the port opens, or the monitor has failed.
Run ==
  /\ snap.pc = "idle"
  /\ \E fb \in BOOLEAN, cam \in {"off", "capturing"} :
       \/ /\ snap' = [snap EXCEPT !.pc = "monitor", !.framebuffer = fb, !.camera = cam]
          /\ reader' = "reading"
       \/ /\ snap' = [snap EXCEPT !.pc = "monitored", !.framebuffer = fb, !.camera = cam, !.error = TRUE]
          /\ UNCHANGED reader
  /\ UNCHANGED <<frame, lines, device>>

\* The duration is over, or the client of the request has left.
Elapses ==
  /\ snap.pc = "monitor" /\ snap.ctx = "running"
  /\ snap' = [snap EXCEPT !.ctx = "elapsed"]
  /\ UNCHANGED <<frame, reader, lines, device>>

\* A dump in flight is drained, for graceDuration.
AfterTime(f) == IF f.state = "collecting" THEN "drain" ELSE "monitored"

\* handleData: a line of the log, or one for the collector, which may be all that
\* was waited for.  Only then, between two chunks, the context is looked at.
Monitors ==
  /\ snap.pc = "monitor" /\ lines # <<>>
  /\ lines' = Tail(lines)
  /\ LET f == IF snap.framebuffer THEN Feed(Head(lines)) ELSE frame
         ctx == IF Settled(f) /\ snap.ctx = "running" THEN "stopped" ELSE snap.ctx
     IN  /\ frame' = f
         /\ snap' = [snap EXCEPT !.ctx = ctx, !.pc = IF ctx = "running" THEN @ ELSE AfterTime(f)]
  /\ UNCHANGED <<reader, device>>

\* A loop whose dataCh is closed spins until the context ends.
Leave ==
  /\ snap.pc = "monitor" /\ snap.ctx # "running"
  /\ reader # "reading" /\ lines = <<>>
  /\ snap' = [snap EXCEPT !.pc = AfterTime(frame)]
  /\ UNCHANGED <<frame, reader, lines, device>>

MonitorFails ==
  /\ snap.pc = "monitor" /\ reader = "lost"
  /\ snap' = [snap EXCEPT !.pc = "monitored", !.error = TRUE]
  /\ UNCHANGED <<frame, reader, lines, device>>

\* extendForDump goes on with what is in dataCh.
Drains ==
  /\ snap.pc = "drain" /\ lines # <<>>
  /\ lines' = Tail(lines)
  /\ frame' = Feed(Head(lines))
  /\ snap' = [snap EXCEPT !.pc = IF Settled(Feed(Head(lines))) THEN "monitored" ELSE @]
  /\ UNCHANGED <<reader, device>>

\* The grace is over, or the session reports its error.
DrainEnds ==
  /\ snap.pc = "drain"
  /\ snap' = [snap EXCEPT !.pc = "monitored"]
  /\ UNCHANGED <<frame, reader, lines, device>>

\* captureImage, with its own timeout.
Captures ==
  /\ snap.camera = "capturing"
  /\ \E to \in {"captured", "failed"} : snap' = [snap EXCEPT !.camera = to]
  /\ UNCHANGED <<frame, reader, lines, device>>

\* Both are through: session.Close, and the result.
Assemble ==
  /\ snap.pc = "monitored" /\ snap.camera # "capturing"
  /\ snap' = [snap EXCEPT !.pc = "done",
               !.status = IF snap.error \/ snap.camera = "failed" THEN "partial" ELSE "success"]
  /\ reader' = IF reader = "reading" THEN "over" ELSE reader
  /\ UNCHANGED <<frame, lines, device>>
-----------------------------------------------------------------------------
SnapInit ==
  /\ snap = [pc |-> "idle", framebuffer |-> FALSE, ctx |-> "running", error |-> FALSE,
             camera |-> "off", status |-> "none"]
  /\ frame = NoFrame /\ reader = "off" /\ lines = <<>>
  /\ device \in [out : {0}, dump : {0}, at : 0..DumpLines + 1, missed : {{}}]

Monitor == Elapses \/ Monitors \/ Leave \/ MonitorFails \/ Drains \/ DrainEnds

SnapNext ==
  \/ Run \/ Monitor \/ Captures \/ Assemble
  \/ ReaderStops \/ ReaderFails \/ Prints \/ Resets

SnapSpec == SnapInit /\ [][SnapNext]_snapVars

\* Timers fire and goroutines run on; the board owes nothing.
SnapFairness ==
  /\ WF_snapVars(Elapses) /\ WF_snapVars(Monitors \/ Leave \/ MonitorFails \/ Drains \/ DrainEnds)
  /\ WF_snapVars(Captures) /\ WF_snapVars(Assemble) /\ WF_snapVars(ReaderStops)

SnapFairSpec == SnapSpec /\ SnapFairness
-----------------------------------------------------------------------------
(* Properties.                                                              *)

\* An image is one whole dump, line by line, although the board may be reset inside
\* a dump and begin another, other tasks print into it, and a full channel drops any
\* lines (FramebufferCollector.feed looks at the size only).  One case is excepted, the
\* one in which nothing in the output shows the change: of a later dump the BEGIN itself
\* was dropped, so that its lines are taken for more of the dump under way.
Blended(image) == \E i \in DOMAIN image : image[i].dump \in device.missed

WholeFrame ==
  frame.state = "complete" =>
    \/ \E d \in 1..MaxOut : frame.image = [i \in 1..DumpLines |-> [kind |-> "data", dump |-> d, n |-> i]]
    \/ Blended(frame.image)

\* A snapshot ends, whatever the board prints, and if it prints nothing.
SnapEnds == snap.pc = "monitor" ~> snap.pc = "done"
=============================================================================
