---------------------------- MODULE WokwiSession ----------------------------
(***************************************************************************)
(* The simulations of one Wokwi board: the leader's session manager        *)
(* (internal/backend/wokwi/session.go), the monitor that runs one          *)
(* simulation (api_monitor.go) over a WebSocket to the Wokwi server        *)
(* (api/client.go, api/transport.go), the flash jobs that start it and the *)
(* WebSocket handlers that show its output (internal/http/monitor.go).     *)
(*                                                                         *)
(* The server is external: it may answer, be silent, or hang up.           *)
(***************************************************************************)
EXTENDS Naturals, FiniteSets

CONSTANTS Sims,     \* APIMonitor objects
          WokJobs,  \* flash jobs; each has a firmware of its own
          Viewers,  \* monitor WebSockets
          NoSim,    \* no session in the manager's map; nil
          OutCap    \* places of logCh: 100 in the code

ASSUME WokwiAssumption == NoSim \notin Sims /\ OutCap \in Nat \ {0}

VARIABLES
  sims,      \* the monitors
  entry,     \* SessionManager.sessions for the board
  getters,   \* the jobs' calls of Get
  viewers,   \* the handlers, each with the goroutine that reads its client's messages
  panicked,  \* a goroutine without recover has panicked
  overlap    \* history: two jobs were starting a simulation at the same time

wokVars == <<sims, entry, getters, viewers, panicked, overlap>>

SimType ==
  [stage : {"new", "connect", "upload", "boot", "running", "stopped"}, firmware : WokJobs \cup {NoSim},
   link : {"none", "open", "lost"}, out : 0..OutCap, serial : {"off", "waiting", "sending", "over"}]

ViewerType ==
  [pc : {"idle", "asking", "resetting", "greeting", "streaming", "waiting", "writing", "over"},
   reader : {"off", "reading", "requesting"}, sim : Sims \cup {NoSim}]

WokTypeOK ==
  /\ sims \in [Sims -> SimType]
  /\ entry \in Sims \cup {NoSim}
  /\ getters \in [WokJobs -> [pc : {"idle", "starting", "storing", "ok", "failed"}, sim : Sims \cup {NoSim}]]
  /\ viewers \in [Viewers -> ViewerType]
  /\ panicked \in BOOLEAN /\ overlap \in BOOLEAN

Running(s) == s # NoSim /\ sims[s].stage = "running"
\* Reset and Send hold the monitor's mutex until the server answers; both goroutines
\* of a viewer call them.
Requesting(v) == viewers[v].pc = "resetting" \/ viewers[v].reader = "requesting"
Unlocked(s) == ~ \E v \in Viewers : Requesting(v) /\ viewers[v].sim = s
Starting(j) == getters[j].pc \in {"starting", "storing"}
-----------------------------------------------------------------------------
(* SessionManager.Get.                                                      *)

\* Mutant: a flash always starts a simulation of its own.
MutantHandsOut(s) == FALSE /\ Running(s)

\* A running simulation is handed out as it is, whatever its firmware.
HandsOut(s) == Running(s)

\* The first critical section: the running simulation, or a stale entry is
\* dropped and a new monitor made.
JobGets(j) ==
  /\ getters[j].pc = "idle" /\ Unlocked(entry)
  /\ \/ /\ HandsOut(entry)
        /\ getters' = [getters EXCEPT ![j] = [pc |-> "ok", sim |-> entry]]
        /\ UNCHANGED <<sims, entry, overlap>>
     \/ /\ ~ HandsOut(entry)
        /\ \E s \in Sims : /\ sims[s].stage = "new"
                           /\ sims' = [sims EXCEPT ![s].stage = "connect", ![s].firmware = j]
                           /\ getters' = [getters EXCEPT ![j] = [pc |-> "starting", sim |-> s]]
        /\ entry' = NoSim
        /\ overlap' = (overlap \/ \E k \in WokJobs \ {j} : Starting(k))
  /\ UNCHANGED <<viewers, panicked>>

\* The second one, after Start has returned: the last to store wins.
JobStores(j) ==
  /\ getters[j].pc = "storing"
  /\ entry' = getters[j].sim
  /\ getters' = [getters EXCEPT ![j].pc = "ok"]
  /\ UNCHANGED <<sims, viewers, panicked, overlap>>
-----------------------------------------------------------------------------
(* APIMonitor.Start: a connection and a row of requests.                    *)

Stage(s) == sims[s].stage
StartedBy(j, s) == getters[j].pc = "starting" /\ getters[j].sim = s

\* A request is answered, or the connection is lost under it.  When it is lost
\* Request may pick its closed response channel and take that for an answer; the
\* next request then finds the connection closed.
Connected(j, s) ==
  /\ StartedBy(j, s) /\ Stage(s) = "connect"
  /\ sims' = [sims EXCEPT ![s].stage = "upload", ![s].link = "open"]
  /\ UNCHANGED getters

\* The diagram, the flash sections and the ELF.
Uploaded(j, s) ==
  /\ StartedBy(j, s) /\ Stage(s) = "upload" /\ sims[s].link = "open"
  /\ sims' = [sims EXCEPT ![s].stage = "boot"]
  /\ UNCHANGED getters

\* sim:start.  The serial monitor finds its subscription closed when the link
\* has been lost; the simulation counts as running nevertheless.
Booted(j, s) ==
  /\ StartedBy(j, s) /\ Stage(s) = "boot"
  /\ sims' = [sims EXCEPT ![s].stage = "running",
                          ![s].serial = IF sims[s].link = "open" THEN "waiting" ELSE "over"]
  /\ getters' = [getters EXCEPT ![j].pc = "storing"]

StartFails(j, s) ==
  /\ StartedBy(j, s)
  /\ sims' = [sims EXCEPT ![s].stage = "stopped", ![s].link = "none"]
  /\ getters' = [getters EXCEPT ![j].pc = "failed"]

StartStep(j, s) ==
  /\ Connected(j, s) \/ Uploaded(j, s) \/ Booted(j, s) \/ StartFails(j, s)
  /\ UNCHANGED <<entry, viewers, panicked, overlap>>

\* Transport.readLoop gets an error and closes: subscriptions end.  The monitor
\* is not told.
LinkLost(s) ==
  /\ sims[s].link = "open"
  /\ sims' = [sims EXCEPT ![s].link = "lost", ![s].serial = IF @ = "waiting" THEN "over" ELSE @]
  /\ UNCHANGED <<entry, getters, viewers, panicked, overlap>>
-----------------------------------------------------------------------------
(* A running simulation.                                                    *)

\* serialMonitor has a line of output; it waits for a place in logCh.
SerialData(s) ==
  /\ Running(s) /\ sims[s].serial = "waiting"
  /\ sims' = [sims EXCEPT ![s].serial = "sending"]
  /\ UNCHANGED <<entry, getters, viewers, panicked, overlap>>

SerialSend(s) ==
  /\ Running(s) /\ sims[s].serial = "sending" /\ sims[s].out < OutCap
  /\ sims' = [sims EXCEPT ![s].out = @ + 1,
                          ![s].serial = IF sims[s].link = "open" THEN "waiting" ELSE "over"]
  /\ UNCHANGED <<entry, getters, viewers, panicked, overlap>>

\* Stop has cancelled and closed logCh: a select that is entered now finds both
\* ready, and a send on the closed channel panics.
SerialStops(s) ==
  /\ Stage(s) = "stopped" /\ sims[s].serial \in {"waiting", "sending"}
  /\ sims' = [sims EXCEPT ![s].serial = "over"]
  /\ panicked' \in {FALSE, sims[s].serial = "sending"}
  /\ UNCHANGED <<entry, getters, viewers, overlap>>

\* Mutant: Stop cancels and leaves logCh open.
MutantOutputClosed(s) == FALSE /\ Running(s)

\* Stop has closed logCh.
OutputClosed(s) == Stage(s) = "stopped"

\* timeoutWatcher: Stop, under the monitor's mutex.
TimesOut(s) ==
  /\ Running(s) /\ Unlocked(s)
  /\ sims' = [sims EXCEPT ![s].stage = "stopped", ![s].link = "none"]
  /\ UNCHANGED <<entry, getters, viewers, panicked, overlap>>
-----------------------------------------------------------------------------
(* handleWokwiMonitorWebSocket.                                             *)

\* Get without a firmware: the running simulation, or an error; a stale entry
\* goes either way.  With ?reset=1 the viewer asks for a reset first.
Attach(v) ==
  /\ viewers[v].pc = "idle" /\ Unlocked(entry)
  /\ IF Running(entry)
       THEN /\ \E pc \in {"asking", "greeting"} : viewers' = [viewers EXCEPT ![v].pc = pc, ![v].sim = entry]
            /\ UNCHANGED entry
       ELSE viewers' = [viewers EXCEPT ![v].pc = "over"] /\ entry' = NoSim
  /\ UNCHANGED <<sims, getters, panicked, overlap>>

\* A request goes out and keeps the mutex; on a monitor that has stopped or lost its
\* link, Reset and Send return at once.
GoesOut(s) == Running(s) /\ sims[s].link = "open"

ViewerTo(v, pc, reader) == viewers' = [viewers EXCEPT ![v].pc = pc, ![v].reader = reader]

AsksReset(v) ==
  /\ viewers[v].pc = "asking" /\ Unlocked(viewers[v].sim)
  /\ ViewerTo(v, IF GoesOut(viewers[v].sim) THEN "resetting" ELSE "greeting", "off")

ResetReturns(v) == viewers[v].pc = "resetting" /\ ViewerTo(v, "greeting", "off")

\* reset_complete and monitor_start are written to the client, whether or not it
\* takes them; then both goroutines run.
Greets(v) == viewers[v].pc = "greeting" /\ ViewerTo(v, "streaming", "reading")

\* Output takes the mutex for the channel.
TakesOutput(v) ==
  /\ viewers[v].pc = "streaming" /\ Unlocked(viewers[v].sim)
  /\ ViewerTo(v, "waiting", viewers[v].reader)

\* The channel is closed and the monitor does not run again within 500 ms.
StreamEnds(v) ==
  /\ viewers[v].pc = "waiting" /\ OutputClosed(viewers[v].sim) /\ sims[viewers[v].sim].out = 0
  /\ ViewerTo(v, "over", viewers[v].reader)

\* writeWokwiData: without a deadline, so it returns when the client takes the line
\* or is found to have left.
Writes(v) ==
  /\ viewers[v].pc = "writing"
  /\ \E pc \in {"streaming", "over"} : ViewerTo(v, pc, viewers[v].reader)

\* handleWokwiMessages: a reset or data from the client, carried out even if the
\* stream has ended meanwhile.
ReaderAsks(v) ==
  /\ viewers[v].reader = "reading" /\ GoesOut(viewers[v].sim) /\ Unlocked(viewers[v].sim)
  /\ ViewerTo(v, viewers[v].pc, "requesting")

ReaderReturns(v) ==
  /\ viewers[v].reader = "requesting"
  /\ ViewerTo(v, viewers[v].pc, "reading")

\* "close" or an error ends the reader, and leaves the stream alone.
ReaderEnds(v) ==
  /\ viewers[v].reader = "reading"
  /\ ViewerTo(v, viewers[v].pc, "off")

ViewerStep(v) ==
  /\ \/ AsksReset(v) \/ ResetReturns(v) \/ Greets(v) \/ TakesOutput(v) \/ StreamEnds(v) \/ Writes(v)
     \/ ReaderAsks(v) \/ ReaderReturns(v) \/ ReaderEnds(v)
  /\ UNCHANGED <<sims, entry, getters, panicked, overlap>>

\* A line of output is taken.
Receives(v) ==
  LET s == viewers[v].sim
  IN  /\ viewers[v].pc = "waiting" /\ sims[s].out > 0
      /\ sims' = [sims EXCEPT ![s].out = @ - 1]
      /\ ViewerTo(v, "writing", viewers[v].reader)
      /\ UNCHANGED <<entry, getters, panicked, overlap>>
-----------------------------------------------------------------------------
WokInit ==
  /\ sims = [s \in Sims |-> [stage |-> "new", firmware |-> NoSim, link |-> "none", out |-> 0, serial |-> "off"]]
  /\ entry = NoSim
  /\ getters = [j \in WokJobs |-> [pc |-> "idle", sim |-> NoSim]]
  /\ viewers = [v \in Viewers |-> [pc |-> "idle", reader |-> "off", sim |-> NoSim]]
  /\ panicked = FALSE /\ overlap = FALSE

\* A panic ends the process.
WokNext ==
  /\ ~ panicked
  /\ \/ \E j \in WokJobs : JobGets(j) \/ JobStores(j) \/ \E s \in Sims : StartStep(j, s)
     \/ \E s \in Sims : LinkLost(s) \/ SerialData(s) \/ SerialSend(s) \/ SerialStops(s) \/ TimesOut(s)
     \/ \E v \in Viewers : Attach(v) \/ ViewerStep(v) \/ Receives(v)

WokSpec == WokInit /\ [][WokNext]_wokVars

Requester(v) == ResetReturns(v) \/ ReaderReturns(v)

\* The timer fires, mutexes starve nobody, handlers run on, and a request returns when
\* its link is lost.  The server need not answer and a client need not take what is
\* written to it.
WokFairness ==
  /\ \A s \in Sims : SF_wokVars(~ panicked /\ TimesOut(s))
  /\ \A v \in Viewers :
       /\ SF_wokVars(~ panicked /\ TakesOutput(v) /\ ViewerStep(v))
       /\ WF_wokVars(~ panicked /\ (Receives(v) \/ (StreamEnds(v) /\ ViewerStep(v))))
       /\ WF_wokVars(~ panicked /\ Requesting(v) /\ sims[viewers[v].sim].link = "lost" /\ Requester(v) /\ ViewerStep(v))

WokFairSpec == WokSpec /\ WokFairness
-----------------------------------------------------------------------------
(* Properties.                                                              *)

\* session.go:14-17, "sharing a single Wokwi session instead of starting two":
\* so it is, unless two jobs were starting one at the same time.
OneSimulation == overlap \/ Cardinality({s \in Sims : Running(s)}) <= 1

\* A simulation ends, by its timeout, and so does every stream of its output
\* (APIMonitor.timeoutWatcher, streamWokwiMonitorOutput).  Three things keep them from
\* it, and only these are excepted: a Reset or a Send whose answer never comes, which
\* keeps the mutex that Stop and Output need and has no timeout; for the stream, a write
\* to a client that has stopped reading, which has no deadline; and the panic of a send
\* to the channel that Stop has closed, which ends the process.
Streams(v) == viewers[v].pc \in {"streaming", "waiting", "writing"}

SimulationEnds ==
  /\ \A s \in Sims : []<>Unlocked(s) => (Running(s) ~> ~ Running(s) \/ panicked)
  /\ \A v \in Viewers :
       []<>Unlocked(viewers[v].sim) /\ []<>(viewers[v].pc # "writing") =>
         (Streams(v) ~> viewers[v].pc = "over" \/ panicked)
=============================================================================
