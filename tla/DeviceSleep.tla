---------------------------- MODULE DeviceSleep ----------------------------
(***************************************************************************)
(* Auto sleep and wake of boards behind a power-switched hub port: the     *)
(* manager (internal/devicesleep/manager.go), the leader's use of it       *)
(* (internal/cluster/leader_sleep.go) and the watcher events that mirror   *)
(* the USB tree into it.                                                   *)
(*                                                                         *)
(* The manager's mutex covers single reads and writes of its flags.  It is *)
(* never held over the switching of a port, so "is it busy", the switch    *)
(* and the note of the new state are steps of their own, and those of the  *)
(* sweeper, of jobs, of snapshots and of power requests interleave.        *)
(***************************************************************************)
CONSTANTS Managed,   \* paths of the power-managed boards
          Users,     \* flash or erase jobs and snapshots, reused when they ended
          NoUser     \* nobody has the board reserved

ASSUME SleepAssumption == NoUser \notin Users

VARIABLES
  power,      \* the hub ports that are on
  sleeping,   \* device.sleeping
  busyFlag,   \* device.busy
  lastUsed,   \* device.lastUsed: zero, within IdleTimeout, longer ago
  user,       \* the jobs and snapshots
  holder,     \* the reservation of a board, as far as jobs see it
  sweep,      \* the sweeper: selected boards it has not slept yet
  request,    \* a manual power request
  seenOn,     \* boards the watcher has last seen in the USB tree
  usbEvent,   \* its event the leader has not handled
  crossed,    \* history: boards noted asleep after they were switched on again
  stuck       \* history: boards flagged busy after their job had been collected

sleepVars == <<power, sleeping, busyFlag, lastUsed, user, holder, sweep, request,
               seenOn, usbEvent, crossed, stuck>>
managerVars == <<sleeping, busyFlag, lastUsed>>
usbVars == <<seenOn, usbEvent>>

UserSteps == {"cycle", "cycleOff", "cycleOn", "cycleNote", "hold", "wake", "wakeOn",
              "wakeNote", "reserve", "run", "release", "late"}
NoUse == [pc |-> "idle"]
NoEvent == [on |-> {}, off |-> {}]

SleepTypeOK ==
  /\ power \subseteq Managed /\ sleeping \subseteq Managed /\ busyFlag \subseteq Managed
  /\ lastUsed \in [Managed -> {"never", "recent", "long"}]
  /\ user \in [Users -> {NoUse} \cup [pc : UserSteps, kind : {"job", "snap"}, board : Managed,
                                      mark : BOOLEAN]]
  /\ holder \in [Managed -> Users \cup {NoUser}]
  /\ sweep \in [left : SUBSET Managed, noting : SUBSET Managed]
  /\ request \in {NoUse} \cup [pc : {"on", "onNote", "off", "offNote"}, board : Managed]
  /\ seenOn \subseteq Managed /\ crossed \subseteq Managed /\ stuck \subseteq Managed
  /\ usbEvent \in [on : SUBSET Managed, off : SUBSET Managed]

On(u) == user[u].board
At(u, pc) == user[u].pc = pc
StepUser(u, pc) == user' = [user EXCEPT ![u].pc = pc]

\* Sleep notes that b is off.  History: somebody has switched it on again
\* meanwhile, and no operation on b is left that will touch it.
NoteAsleep(b) ==
  /\ sleeping' = sleeping \cup {b}
  /\ crossed' = IF b \in power /\ \A u \in Users : user[u] # NoUse => On(u) # b \/ At(u, "late")
                  THEN crossed \cup {b} ELSE crossed
-----------------------------------------------------------------------------
(* A job or a snapshot prepares its board.                                  *)

\* EnqueueFlash/EraseJob after its checks, and the snap handler: both begin
\* with a power cycle.  Nobody is asked whether the board is reserved.
StartUse(u, b, kind) ==
  /\ user[u] = NoUse
  /\ user' = [user EXCEPT ![u] = [pc |-> "cycle", kind |-> kind, board |-> b, mark |-> FALSE]]
  /\ UNCHANGED <<power, managerVars, holder, sweep, request, usbVars, crossed, stuck>>

\* Where PowerCycle leaves for, whether it succeeded or not.
Cycled(u) == StepUser(u, IF user[u].kind = "snap" THEN "hold" ELSE "wake")

\* PowerCycle: a busy board is refused, and so is a hub that is not there.
CycleCheck(u) ==
  /\ At(u, "cycle")
  /\ \/ On(u) \notin busyFlag /\ StepUser(u, "cycleOff")
     \/ Cycled(u)
  /\ UNCHANGED <<power, managerVars, holder, sweep, request, usbVars, crossed, stuck>>

CycleOff(u) ==
  /\ At(u, "cycleOff")
  /\ \/ power' = power \ {On(u)} /\ StepUser(u, "cycleOn")
     \/ UNCHANGED power /\ Cycled(u)
  /\ UNCHANGED <<managerVars, holder, sweep, request, usbVars, crossed, stuck>>

\* When the second switch fails the board stays off and counts as awake.
CycleOn(u) ==
  /\ At(u, "cycleOn")
  /\ \/ power' = power \cup {On(u)} /\ StepUser(u, "cycleNote")
     \/ UNCHANGED power /\ Cycled(u)
  /\ UNCHANGED <<managerVars, holder, sweep, request, usbVars, crossed, stuck>>

CycleNote(u) ==
  /\ At(u, "cycleNote")
  /\ sleeping' = sleeping \ {On(u)}
  /\ crossed' = crossed \ {On(u)}
  /\ Cycled(u)
  /\ UNCHANGED <<power, busyFlag, lastUsed, holder, sweep, request, usbVars, stuck>>

\* WakeDeviceForSnap holds the board busy; it takes no reservation.
SnapHold(u) ==
  /\ At(u, "hold")
  /\ busyFlag' = busyFlag \cup {On(u)}
  /\ StepUser(u, "wake")
  /\ UNCHANGED <<power, sleeping, lastUsed, holder, sweep, request, usbVars, crossed, stuck>>

Prepared(u) == StepUser(u, IF user[u].kind = "snap" THEN "run" ELSE "reserve")

\* wakeDevice: nothing to do for a board that counts as awake.
WakeCheck(u) ==
  /\ At(u, "wake")
  /\ IF On(u) \in sleeping THEN StepUser(u, "wakeOn") ELSE Prepared(u)
  /\ UNCHANGED <<power, managerVars, holder, sweep, request, usbVars, crossed, stuck>>

WakeOn(u) ==
  /\ At(u, "wakeOn")
  /\ \/ power' = power \cup {On(u)} /\ StepUser(u, "wakeNote")
     \/ UNCHANGED power /\ Prepared(u)
  /\ UNCHANGED <<managerVars, holder, sweep, request, usbVars, crossed, stuck>>

\* Wake notes the state, and wakeDevice touches the board.
WakeNote(u) ==
  /\ At(u, "wakeNote")
  /\ sleeping' = sleeping \ {On(u)}
  /\ lastUsed' = [lastUsed EXCEPT ![On(u)] = "recent"]
  /\ crossed' = crossed \ {On(u)}
  /\ Prepared(u)
  /\ UNCHANGED <<power, busyFlag, holder, sweep, request, usbVars, stuck>>
-----------------------------------------------------------------------------
(* The operation itself.                                                    *)

\* The job is on the pending list already: it is executed whether it gets the
\* reservation or not.  With the reservation, SetBusy is still to come.
ReserveOrNot(u) ==
  /\ At(u, "reserve")
  /\ IF holder[On(u)] = NoUser
       THEN /\ holder' = [holder EXCEPT ![On(u)] = u]
            /\ user' = [user EXCEPT ![u].pc = "run", ![u].mark = TRUE]
       ELSE StepUser(u, "run") /\ UNCHANGED holder
  /\ UNCHANGED <<power, managerVars, sweep, request, usbVars, crossed, stuck>>

\* A job that failed at once has been collected before this.
MarkBusy(u) ==
  /\ user[u] # NoUse /\ user[u].mark
  /\ busyFlag' = busyFlag \cup {On(u)}
  /\ user' = [user EXCEPT ![u] = IF At(u, "late") THEN NoUse ELSE [@ EXCEPT !.mark = FALSE]]
  /\ stuck' = IF At(u, "late") THEN stuck \cup {On(u)} ELSE stuck
  /\ UNCHANGED <<power, sleeping, lastUsed, holder, sweep, request, usbVars, crossed>>

\* The collector releases the reservation of a job that ended ...
UseEnds(u) ==
  /\ At(u, "run")
  /\ holder' = [b \in Managed |-> IF holder[b] = u THEN NoUser ELSE holder[b]]
  /\ StepUser(u, "release")
  /\ UNCHANGED <<power, managerVars, sweep, request, usbVars, crossed, stuck>>

Gone(u) == user' = [user EXCEPT ![u] = IF @.mark THEN [@ EXCEPT !.pc = "late"] ELSE NoUse]

\* Mutant: Touch restarts the idle timer only.
MutantReleaseAfterOp(u) ==
  /\ At(u, "release")
  /\ busyFlag' = busyFlag \ {On(u)}
  /\ lastUsed' = [lastUsed EXCEPT ![On(u)] = "recent"]
  /\ crossed' = crossed \ {On(u)} /\ stuck' = stuck \ {On(u)}
  /\ Gone(u)
  /\ UNCHANGED <<power, sleeping, holder, sweep, request, usbVars>>

\* ... and then releaseDeviceAfterOp clears the busy flag, whoever has set it,
\* and touches the board.
ReleaseAfterOp(u) ==
  /\ At(u, "release")
  /\ busyFlag' = busyFlag \ {On(u)}
  /\ lastUsed' = [lastUsed EXCEPT ![On(u)] = "recent"]
  /\ sleeping' = sleeping \ {On(u)}
  /\ crossed' = crossed \ {On(u)} /\ stuck' = stuck \ {On(u)}
  /\ Gone(u)
  /\ UNCHANGED <<power, holder, sweep, request, usbVars>>
-----------------------------------------------------------------------------
(* The sweeper.                                                             *)

TimePasses(b) ==
  /\ lastUsed[b] = "recent"
  /\ lastUsed' = [lastUsed EXCEPT ![b] = "long"]
  /\ UNCHANGED <<power, sleeping, busyFlag, user, holder, sweep, request, usbVars, crossed, stuck>>

Idle(b) == b \notin sleeping \cup busyFlag /\ lastUsed[b] = "long"

\* Sweep selects the idle boards under the mutex ...
SweepSelect ==
  /\ sweep = [left |-> {}, noting |-> {}]
  /\ \E b \in Managed : Idle(b)
  /\ sweep' = [sweep EXCEPT !.left = {b \in Managed : Idle(b)}]
  /\ UNCHANGED <<power, managerVars, user, holder, request, usbVars, crossed, stuck>>

\* ... and sleeps them one after the other without it: Sleep looks at the
\* sleeping flag again and not at the busy one.
SweepSkips(b) ==
  /\ b \in sweep.left /\ sweep.noting = {}
  /\ sweep' = [sweep EXCEPT !.left = @ \ {b}]
  /\ UNCHANGED <<power, managerVars, user, holder, request, usbVars, crossed, stuck>>

SweepOff(b) ==
  /\ b \in sweep.left \ sleeping /\ sweep.noting = {}
  /\ power' = power \ {b}
  /\ sweep' = [left |-> sweep.left \ {b}, noting |-> {b}]
  /\ UNCHANGED <<managerVars, user, holder, request, usbVars, crossed, stuck>>

SweepNote(b) ==
  /\ b \in sweep.noting
  /\ NoteAsleep(b)
  /\ sweep' = [sweep EXCEPT !.noting = {}]
  /\ UNCHANGED <<power, busyFlag, lastUsed, user, holder, request, usbVars, stuck>>
-----------------------------------------------------------------------------
(* POST /devices/{name}/power.                                              *)

\* PowerDevice: refused for a busy board.
RequestPower(b, to) ==
  /\ request = NoUse /\ b \notin busyFlag
  /\ request' = [pc |-> to, board |-> b]
  /\ UNCHANGED <<power, managerVars, user, holder, sweep, usbVars, crossed, stuck>>

\* The board already sleeps, or the hub refuses.
RequestEnds ==
  /\ request.pc \in {"on", "off"}
  /\ request' = NoUse
  /\ UNCHANGED <<power, managerVars, user, holder, sweep, usbVars, crossed, stuck>>

\* Wake always switches the port, whatever the flag says.
RequestOn ==
  /\ request.pc = "on"
  /\ power' = power \cup {request.board}
  /\ request' = [request EXCEPT !.pc = "onNote"]
  /\ UNCHANGED <<managerVars, user, holder, sweep, usbVars, crossed, stuck>>

RequestOff ==
  /\ request.pc = "off" /\ request.board \notin sleeping
  /\ power' = power \ {request.board}
  /\ request' = [request EXCEPT !.pc = "offNote"]
  /\ UNCHANGED <<managerVars, user, holder, sweep, usbVars, crossed, stuck>>

RequestNote ==
  /\ \/ /\ request.pc = "onNote"
        /\ sleeping' = sleeping \ {request.board}
        /\ crossed' = crossed \ {request.board}
     \/ request.pc = "offNote" /\ NoteAsleep(request.board)
  /\ request' = NoUse
  /\ UNCHANGED <<power, busyFlag, lastUsed, user, holder, sweep, usbVars, stuck>>
-----------------------------------------------------------------------------
(* The USB tree.                                                            *)

\* A scan of the watcher: at most one unhandled event per board.
Scan(b) ==
  /\ b \notin usbEvent.on \cup usbEvent.off
  /\ (b \in power) # (b \in seenOn)
  /\ IF b \in power THEN /\ seenOn' = seenOn \cup {b}
                         /\ usbEvent' = [usbEvent EXCEPT !.on = @ \cup {b}]
                    ELSE /\ seenOn' = seenOn \ {b}
                         /\ usbEvent' = [usbEvent EXCEPT !.off = @ \cup {b}]
  /\ UNCHANGED <<power, managerVars, user, holder, sweep, request, crossed, stuck>>

\* handleDeviceEvent: a board in the tree is awake, one that left it sleeps.
\* A re-connected board loses its reservation.
HandleUsbEvent(b) ==
  /\ b \in usbEvent.on \cup usbEvent.off
  /\ sleeping' = IF b \in usbEvent.on THEN sleeping \ {b} ELSE sleeping \cup {b}
  /\ holder' = IF b \in usbEvent.on THEN [holder EXCEPT ![b] = NoUser] ELSE holder
  /\ usbEvent' = [on |-> usbEvent.on \ {b}, off |-> usbEvent.off \ {b}]
  /\ crossed' = IF b \in usbEvent.on THEN crossed \ {b} ELSE crossed
  /\ UNCHANGED <<power, busyFlag, lastUsed, user, sweep, request, seenOn, stuck>>
-----------------------------------------------------------------------------
\* reconcilePowerManagedDevices: a board that is not in the tree sleeps.
SleepInit ==
  /\ power \in SUBSET Managed
  /\ seenOn = power
  /\ sleeping = Managed \ power
  /\ busyFlag = {}
  /\ lastUsed = [b \in Managed |-> "never"]
  /\ user = [u \in Users |-> NoUse]
  /\ holder = [b \in Managed |-> NoUser]
  /\ sweep = [left |-> {}, noting |-> {}]
  /\ request = NoUse
  /\ usbEvent = NoEvent
  /\ crossed = {} /\ stuck = {}

UserStep(u) ==
  \/ CycleCheck(u) \/ CycleOff(u) \/ CycleOn(u) \/ CycleNote(u) \/ SnapHold(u)
  \/ WakeCheck(u) \/ WakeOn(u) \/ WakeNote(u)
  \/ ReserveOrNot(u) \/ UseEnds(u) \/ ReleaseAfterOp(u)

SleepNext ==
  \/ \E u \in Users : UserStep(u) \/ MarkBusy(u)
  \/ \E u \in Users, b \in Managed, kind \in {"job", "snap"} : StartUse(u, b, kind)
  \/ SweepSelect
  \/ \E b \in Managed : SweepSkips(b) \/ SweepOff(b) \/ SweepNote(b) \/ TimePasses(b)
  \/ \E b \in Managed, to \in {"on", "off"} : RequestPower(b, to)
  \/ RequestEnds \/ RequestOn \/ RequestOff \/ RequestNote
  \/ \E b \in Managed : Scan(b) \/ HandleUsbEvent(b)

SleepSpec == SleepInit /\ [][SleepNext]_sleepVars

\* Goroutines run on, the sweeper's ticker ticks and so does the clock; the hub
\* does not refuse the sweeper for ever; the watcher is not paused.
SleepFairness ==
  /\ \A u \in Users : WF_sleepVars(UserStep(u)) /\ WF_sleepVars(MarkBusy(u))
  /\ WF_sleepVars(SweepSelect)
  /\ WF_sleepVars(RequestEnds \/ RequestOn \/ RequestOff \/ RequestNote)
  /\ \A b \in Managed : /\ WF_sleepVars(SweepSkips(b) \/ SweepOff(b) \/ SweepNote(b))
                        /\ SF_sleepVars(SweepOff(b))
                        /\ WF_sleepVars(TimePasses(b))
                        /\ WF_sleepVars(Scan(b))
                        /\ WF_sleepVars(HandleUsbEvent(b))

SleepFairSpec == SleepSpec /\ SleepFairness
-----------------------------------------------------------------------------
(* Properties.                                                              *)

UsedBy(b) == {u \in Users : user[u] # NoUse /\ On(u) = b}

\* manager.go Sweep, docs/power-control.md:248-250: a board that was used is
\* powered off again once nobody uses it, whatever switching of its port and
\* whichever stale events overlapped.  Against the doc, two boards stay on, and
\* are excepted for as long as that lasts: one that is noted asleep after it was
\* switched on again (Sleep switches and notes in two steps, manager.go:274-297),
\* until something notes it awake, and one whose SetBusy came after its job had
\* been collected (leader.go:687), until the next operation on it is released.
IdleBoardSleeps ==
  \A b \in Managed :
    (lastUsed[b] = "long" /\ UsedBy(b) = {})
      ~> (b \notin power \/ UsedBy(b) # {} \/ b \in crossed \cup stuck)

\* docs/power-control.md:247-248, "While an operation runs the board is flagged
\* `busy` and is never powered off": what has set the flag runs under it.
RunningIsBusy ==
  \A u \in Users :
    At(u, "run") /\ ~ user[u].mark /\ (user[u].kind = "snap" \/ holder[On(u)] = u)
      => On(u) \in busyFlag
=============================================================================
