---------------------------- MODULE DeviceWatch ----------------------------
(***************************************************************************)
(* How a board that is plugged in gets a record: the polling watcher       *)
(* (internal/device/watcher.go), the node that handles its events, and the *)
(* operational mode, which pauses it (SetMode and startDiscoveryTimer of   *)
(* leader.go; peer.go has the same two functions).                         *)
(*                                                                         *)
(* The watcher tells boards apart by their serial number and reports what  *)
(* changed since its last scan, once, through a channel that drops what    *)
(* does not fit.  The records are those of plain boards: DeviceSleep has   *)
(* the power-managed ones.                                                 *)
(***************************************************************************)
EXTENDS Naturals, Sequences

CONSTANTS Serials,   \* the boards
          Ports,     \* device paths
          NoPort,    \* not plugged in, not seen
          EventCap,  \* capacity of Watcher.events: 10 in the code
          MaxLate    \* bound on timer callbacks that were overtaken

ASSUME WatchAssumption == NoPort \notin Ports /\ EventCap \in Nat \ {0} /\ MaxLate \in Nat

VARIABLES
  at,         \* the port a board is plugged into
  seenAt,     \* Watcher.seen: the path a board was added with
  scan,       \* the scan under way: what it found and what it has to report
  events,     \* Watcher.events
  rec,        \* the paths with a record in the node's state
  mode,       \* LeaderNode.mode
  paused,     \* Watcher.paused
  timer,      \* modeTimer: "fired" once its callback has passed the ctx check
  late,       \* callbacks past that check whose timer was stopped since
  lost,       \* history: ports with an event that was dropped
  swapped     \* history: ports where a board took another's place in a scan

scanVars == <<at, seenAt, scan, events, rec, lost, swapped>>
modeVars == <<mode, paused, timer, late>>
watchVars == <<at, seenAt, scan, events, rec, lost, swapped, mode, paused, timer, late>>

Somewhere == Ports \cup {NoPort}
NoScan == [pc |-> "idle"]

WatchTypeOK ==
  /\ at \in [Serials -> Somewhere]
  /\ seenAt \in [Serials -> Somewhere]
  /\ scan \in {NoScan} \cup [pc : {"sampled"}, found : [Serials -> Somewhere]]
                \cup [pc : {"report"}, found : [Serials -> Somewhere],
                      add : SUBSET Serials, del : SUBSET Serials]
  /\ events \in Seq([type : {"added", "removed"}, port : Ports]) /\ Len(events) <= EventCap
  /\ rec \subseteq Ports
  /\ mode \in {"discovery", "operational"} /\ paused \in BOOLEAN
  /\ timer \in {"none", "live", "fired"} /\ late \in 0..MaxLate
  /\ lost \subseteq Ports /\ swapped \subseteq Ports

Queued(type, p) == \E i \in 1..Len(events) : events[i] = [type |-> type, port |-> p]

\* Mutant: a full channel is not noticed.
MutantSendEvent(type, p) ==
  /\ events' = Append(events, [type |-> type, port |-> p])
  /\ UNCHANGED lost

\* sendEvent: what does not fit is dropped, and never sent again.
SendEvent(type, p) ==
  IF Len(events) < EventCap
    THEN events' = Append(events, [type |-> type, port |-> p]) /\ UNCHANGED lost
    ELSE lost' = lost \cup {p} /\ UNCHANGED events
-----------------------------------------------------------------------------
(* The boards: external.                                                    *)

Plug(s, p) ==
  /\ at[s] = NoPort /\ \A t \in Serials : at[t] # p
  /\ at' = [at EXCEPT ![s] = p]
  /\ UNCHANGED <<seenAt, scan, events, rec, lost, swapped, modeVars>>

Unplug(s) ==
  /\ at[s] # NoPort
  /\ at' = [at EXCEPT ![s] = NoPort]
  /\ UNCHANGED <<seenAt, scan, events, rec, lost, swapped, modeVars>>
-----------------------------------------------------------------------------
(* The watcher's goroutine.                                                 *)

\* scan: the ports that are there, less those whose details cannot be read.
Sample(unreadable) ==
  /\ scan = NoScan /\ ~ paused
  /\ scan' = [pc |-> "sampled",
              found |-> [s \in Serials |-> IF s \in unreadable THEN NoPort ELSE at[s]]]
  /\ UNCHANGED <<at, seenAt, events, rec, lost, swapped, modeVars>>

\* Under Watcher.mu from here to the end of the scan: what is new and what is
\* gone.  A board seen before is not new, even on another port.
Compare ==
  /\ scan.pc = "sampled"
  /\ LET add == {s \in Serials : scan.found[s] # NoPort /\ seenAt[s] = NoPort}
         del == {s \in Serials : scan.found[s] = NoPort /\ seenAt[s] # NoPort}
     IN  /\ scan' = [pc |-> "report", found |-> scan.found, add |-> add, del |-> del]
         /\ swapped' = swapped \cup {p \in Ports : \E s \in del, t \in Serials :
                                       seenAt[s] = p /\ t # s /\ (seenAt[t] = p \/ scan.found[t] = p)}
  /\ UNCHANGED <<at, seenAt, events, rec, lost, modeVars>>

ReportAdded(s) ==
  /\ scan.pc = "report" /\ s \in scan.add
  /\ seenAt' = [seenAt EXCEPT ![s] = scan.found[s]]
  /\ SendEvent("added", scan.found[s])
  /\ scan' = [scan EXCEPT !.add = @ \ {s}]
  /\ UNCHANGED <<at, rec, swapped, modeVars>>

\* Mutant: the removal is noted and not reported.
MutantForgetRemoved(s) ==
  /\ scan.pc = "report" /\ scan.add = {} /\ s \in scan.del
  /\ seenAt' = [seenAt EXCEPT ![s] = NoPort]
  /\ scan' = [scan EXCEPT !.del = @ \ {s}]
  /\ UNCHANGED <<at, events, rec, lost, swapped, modeVars>>

\* Removals come after all additions, with the path the board was added with.
ReportRemoved(s) ==
  /\ scan.pc = "report" /\ scan.add = {} /\ s \in scan.del
  /\ seenAt' = [seenAt EXCEPT ![s] = NoPort]
  /\ SendEvent("removed", seenAt[s])
  /\ scan' = [scan EXCEPT !.del = @ \ {s}]
  /\ UNCHANGED <<at, rec, swapped, modeVars>>

ScanEnds ==
  /\ scan.pc = "report" /\ scan.add = {} /\ scan.del = {}
  /\ scan' = NoScan
  /\ UNCHANGED <<at, seenAt, events, rec, lost, swapped, modeVars>>

\* Mutant: an absent board keeps its record.
MutantHandleEvent ==
  /\ events # <<>>
  /\ rec' = IF Head(events).type = "added" THEN rec \cup {Head(events).port} ELSE rec
  /\ events' = Tail(events)
  /\ UNCHANGED <<at, seenAt, scan, lost, swapped, modeVars>>

\* watchDevices / handleDeviceEvent: the records are kept by path.
HandleEvent ==
  /\ events # <<>>
  /\ rec' = IF Head(events).type = "added" THEN rec \cup {Head(events).port}
                                           ELSE rec \ {Head(events).port}
  /\ events' = Tail(events)
  /\ UNCHANGED <<at, seenAt, scan, lost, swapped, modeVars>>
-----------------------------------------------------------------------------
(* The operational mode.                                                    *)

\* SetMode to the other mode: the old timer is stopped, which a callback past
\* its check does not notice.  Pause and Resume wait for Watcher.mu.
Switch ==
  /\ scan.pc # "report"
  /\ mode' = IF mode = "discovery" THEN "operational" ELSE "discovery"
  /\ paused' = (mode' = "operational")
  /\ timer' = IF mode' = "discovery" THEN "live" ELSE "none"
  /\ UNCHANGED scanVars

\* Mutant: the timer is armed at start-up only.
MutantSetMode ==
  /\ timer = "fired" => late < MaxLate
  /\ scan.pc # "report"
  /\ mode' = IF mode = "discovery" THEN "operational" ELSE "discovery"
  /\ paused' = (mode' = "operational")
  /\ timer' = "none"
  /\ late' = IF timer = "fired" THEN late + 1 ELSE late
  /\ UNCHANGED scanVars

\* POST /mode.
SetMode ==
  /\ timer = "fired" => late < MaxLate
  /\ Switch
  /\ late' = IF timer = "fired" THEN late + 1 ELSE late

TimerExpires ==
  /\ timer = "live"
  /\ timer' = "fired"
  /\ UNCHANGED <<scanVars, mode, paused, late>>

\* The callback's SetMode(operational), without the lock since its check.
TimerCallback ==
  /\ timer = "fired" /\ Switch
  /\ UNCHANGED late

\* A callback that was overtaken ends the discovery that was started since.
LateCallback ==
  /\ late > 0
  /\ late' = late - 1
  /\ \/ mode = "discovery" /\ timer = "live" /\ Switch
     \/ mode = "operational" /\ UNCHANGED <<scanVars, mode, paused, timer>>
-----------------------------------------------------------------------------
WatchStart(m, p) ==
  /\ at = [s \in Serials |-> NoPort]
  /\ seenAt = [s \in Serials |-> NoPort]
  /\ scan = NoScan
  /\ events = <<>>
  /\ rec = {}
  /\ mode = m /\ paused = p
  /\ timer = IF m = "discovery" THEN "live" ELSE "none"
  /\ late = 0
  /\ lost = {} /\ swapped = {}

\* A node that starts in operational mode does not pause its watcher.
WatchInit == WatchStart("discovery", FALSE) \/ WatchStart("operational", FALSE)

WatchNext ==
  \/ \E s \in Serials, p \in Ports : Plug(s, p)
  \/ \E s \in Serials : Unplug(s) \/ ReportAdded(s) \/ ReportRemoved(s)
  \/ \E unreadable \in SUBSET Serials : Sample(unreadable)
  \/ Compare \/ ScanEnds \/ HandleEvent
  \/ SetMode \/ TimerExpires \/ TimerCallback \/ LateCallback

WatchSpec == WatchInit /\ [][WatchNext]_watchVars

\* The watcher's and the node's goroutines run on, and timers expire.
WatchFairness ==
  /\ WF_watchVars(\E unreadable \in SUBSET Serials : Sample(unreadable))
  /\ WF_watchVars(Compare \/ ScanEnds \/ \E s \in Serials : ReportAdded(s) \/ ReportRemoved(s))
  /\ WF_watchVars(HandleEvent)
  /\ WF_watchVars(TimerExpires)
  /\ SF_watchVars(TimerCallback)

WatchFairSpec == WatchSpec /\ WatchFairness
-----------------------------------------------------------------------------
(* Properties.                                                              *)

\* No ghosts: a record belongs to a board the watcher counts as present, or
\* its removal is on the way, or that removal was dropped (watcher.go:61).
RecordBacked ==
  \A p \in rec : \/ \E s \in Serials : seenAt[s] = p
                 \/ Queued("removed", p)
                 \/ p \in lost

\* No board is missed: one the watcher has seen, and will not report again,
\* has its record or the event that makes it - unless the event was dropped, or
\* another board left the same path in the same scan and took the record along.
SeenIsRecorded ==
  \A s \in Serials : seenAt[s] # NoPort =>
    seenAt[s] \in rec \cup lost \cup swapped \/ Queued("added", seenAt[s])

\* The leader's records are what the watcher has seen, as far as its events came
\* through (watcher.go:61): neither ghosts nor missing boards.
RecordsFollow == RecordBacked /\ SeenIsRecorded

\* The record of a board that left disappears, once the watcher is not paused and
\* unless a board is plugged into the port again: only a board that the watcher saw
\* there and that is in another port, or a dropped event, leaves one behind.
GhostsVanish ==
  \A p \in Ports :
    (p \in rec /\ \A s \in Serials : at[s] # p /\ (seenAt[s] = p => at[s] = NoPort))
      ~> \/ p \notin rec \/ p \in lost \/ paused
         \/ \E s \in Serials : at[s] = p \/ (seenAt[s] = p /\ at[s] # NoPort)

\* Discovery mode, in which nothing can be flashed, ends by itself
\* (leader.go startDiscoveryTimer), however often it is entered and left.
DiscoveryEnds == mode = "discovery" ~> mode = "operational"
=============================================================================
