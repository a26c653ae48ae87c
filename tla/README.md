# espbrew-go in TLA+

espbrew-go manages a cluster of ESP32 boards: a *leader* keeps the devices, the
reservations and the job queue, executes flash and erase jobs on its own boards
and hands jobs for other boards to *peers*; clients reserve boards, flash them,
read their flash and monitor their serial ports over HTTP and WebSockets.

What can go wrong here is hard to test: many goroutines share one device map,
one reservation registry and one job queue; each of them lets its mutex go
between two steps of an operation; boards come and go; peers fail; a
clean-up may free a board under its user. The specifications describe these
steps one critical section at a time, TLC checks them on small instances, and
TLAPS proves all safety properties for every size.

## Inventory

| Part | Source | State | Hard behaviour | What makes it correct | Where |
|---|---|---|---|---|---|
| Reservation registry | `internal/cluster/device_lock.go` | path to lock object; state, owner, age of each lock | calls keep a lock pointer after `r.mu` is let go; hooks run later; `ForceRelease` under a live owner; `Unregister` with a held lock | a lease is granted only while free, lost only by release or revocation, and always ends | `DeviceRegistry`, proved |
| HTTP reservation handler | `internal/http/api.go` | none of its own | owner read and release are two steps; stamps a record it read earlier | nobody loses a board to another client's DELETE | `DeviceRegistry` |
| Device records, heartbeats, maintenance | `internal/cluster/leader.go` | `state.Devices`, `state.Nodes` | records replaced while calls hold pointers to them; orphan sweep on a snapshot of the jobs | shown status agrees with reservations (it does not) | `DeviceRegistry`, `JobDispatch`, `DeviceWatch`, partly |
| Job queue and dispatcher | `queue.go`, `leader.go` | `jobs`, `pending`, job status | a job is pending before its board is reserved; refused and cancelled jobs stay pending; records vanish before they are used | a job is in one place, and is not forgotten while shown as active | `JobDispatch`, proved |
| Executor, collector, cancellation | `executor.go`, `leader_jobs.go` | two bounded channels, workers | blocking on full channels; cancel of a running job; status written by three goroutines | what is submitted is executed and collected; a board is released after its last use | `JobDispatch`, proved |
| Flash reads | `http/flash_read.go` | jobs of its own | as above | the port is used under a reservation | as owners in `JobDispatch` |
| Peer node | `cluster/peer.go`, `http/peer_api.go` | records, `activeJobs`, registration | the heartbeat holds `p.mu` while it registers; checks and marks in separate critical sections; a goroutine's late clean-up | one job per board, a tracked job is one that executes, executions end | `PeerNode`, proved |
| Device sleep and power | `devicesleep`, `leader_sleep.go` | `sleeping`, `busy`, `lastUsed` | nothing is locked while a port is switched; one busy bit for all operations | a board nobody uses is powered off, one in use is not (it may be) | `DeviceSleep`, types proved |
| Device watcher, discovery mode | `device/watcher.go`, `leader.go` | last scan, event channel, mode timer | events dropped at a full channel; boards change ports; late timer callbacks | records follow the ports; discovery ends | `DeviceWatch`, proved |
| Application images | `flash/elf.go`, `flash/convert.go`, `flash/espfmt/image.go` | segments that are slices of the ELF file's buffer | merging, padding and splitting in place; placing by the MMU's page | every byte of every section is loaded to its address | `AppImage`, proved |
| ESP flash protocol | `espflash`, `flash` | connection, loader or stub, attempts | lost, late and repeated answers; reconnects in the middle of an image | a success means the image is in flash; the retries end | `EspFlash`, proved |
| Monitor stream | `monitor/stream.go`, `http/monitor.go` | sessions, their reservation, four goroutines each | reconnect against removal and expiry; clients that stall or leave | a session has a reservation exactly while it is served, and ends | `MonitorStream`, proved |
| Snapshots | `snap`, `http/snap.go` | collected lines, frame | dumps interrupted by resets, dropped lines, a reader that has been stopped | an image is one dump, a snapshot ends | `SnapSession`, proved |
| Wokwi sessions | `backend/wokwi` | the running simulation, its two goroutines and two of each viewer | two callers at once, requests without a timeout under the mutex, clients that stall, sends after close | one simulation per board, which ends | `WokwiSession`, proved |
| Progress hub | `http/progress.go` | subscribers, bounded channels | slow, stalled and vanished clients; in-place shift of a shared slice | reports in order, and jobs that end although they are watched | `FlashProgress`, proved |
| Flash commands | `cmd/espbrew/flash*.go`, `cluster/client.go` | attempts, job ids | re-sent POSTs, retries while an old job still runs, streams that break | success means flashed, and nothing is left running | `FlashCommand`, proved |
| Web flash page | `ui/pages/flash.go`, `ui/api/flash.go` | flags and file ids of the page, closures of its callbacks | answers in any order, answers without a body, an abandoned attempt whose uploads go on | one flash at a time, with the chosen image; the button comes back; the outcome shown is the job's (it may not be) | `WebFlash`, proved |
| Device store and its requests | `persistence/device.go`, `leader.go`, `http/api.go`, `device_protect.go`, `device_disable.go` | records with a MAC and an alias index, the devices in memory, `espbrew.toml` | requests save a record they read earlier; records are renamed and share paths and aliases; restarts and re-plugs rebuild the memory from the store | a lookup finds the board that has the name; a mark outlives a re-plug (it does not) | `DeviceCatalog`, proved |
| Hashes, cameras, UI, project files, inventory, other handlers | - | - | - | - | not modelled, see below |

"Proved" in the last column is said of the safety properties; that something ends
or happens at last is only model-checked.

The parts meet in a few places. Every user of a board calls the registry; the
registry calls back into the leader through its hooks (`leader.go:139-142`) to
stamp the shown status; the dispatcher looks at that status, not at the
reservation, to decide whether to dispatch. A worker calls the flasher, whose
progress goes to the hub and from there to the command that waits. Watcher
events reach the records, the reservations and the sleep manager at once.

## Modules

The leader's core:

* `DeviceLease`: the abstract lease of a board. `Grant` only while the board is
  free, `End` for any set of boards. `DeviceRegistry` implements it, where a grant
  is not one step: a lock object is looked up first and used later.
* `DeviceRegistry`: the registry at the grain of its critical sections. A
  *thread* is a goroutine inside one call; `calls[t]` holds what the call has
  read so far, above all the lock object it looked up. Lock objects have an
  identity (`Locks`), so that an object dropped by `Unregister` and still held
  by a call differs from the one registered since. `granted` and `revoked` are
  history: who was told it has a board, and from whom it was taken.
* `JobDispatch`: the life of a job (`Enqueue`, `ReserveForJob`, `OpenGate`,
  `Dequeue`, `Locate`, `StampBusy`, `Submit` or `PeerAccepts`/`PeerFails`,
  `StartJob`, `FinishJob`, `SendResult`, `Collect`, `CompleteJob`), cancellation,
  the other users of the boards, and the events and clean-ups that interfere.
  Each action is a stretch of code between two points where another goroutine
  can act. `disp`, `workers` and `coll` are the program counters of the
  dispatcher, the workers and the collector; `enqueuer` that of the request that
  enqueued a job. A board is seen through the owner on record only: what
  `DeviceRegistry` shows about lock objects is not repeated.

* `DeviceCatalog`: which board is which. `store` is the devices bucket with its
  two indices, `mem` the leader's `state.Devices`, `cfg` and `file` the mapping
  of `espbrew.toml` in memory and on disk, `at` the boards that are plugged in.
  `pend` is a request between reading a record and saving it: marks may be set
  and events handled in between. `shielded` and `hidden` are history: boards
  protected and not unprotected since, and the pairs of a record and an alias in
  its list whose index entry went to, or with, another record.

What a node does with its boards:

* `PeerNode`: `exec[e]` is one run of `ExecuteJob`, from the job's assignment or
  the peer's own POST /flash to the deferred clean-up; `active` is `activeJobs`;
  `hb` is where the heartbeat goroutine is. `p.mu` is a Go `RWMutex`: readers
  wait for a waiting writer, which is what the heartbeat runs into.
  `disturbed` is history: boards unplugged or replugged under an execution.
* `DeviceSleep`: the manager's flags, the ports that are on (`power`), the jobs
  and snapshots that prepare, use and release a board step by step, the sweep,
  manual power requests, and the USB events that set the same flags. `crossed`
  is history: a board noted asleep after another operation had switched it on
  again, for which nothing will switch it off. So is `stuck`: a board flagged busy
  after the job that flags it was collected.
* `DeviceWatch`: boards (`Serials`) that move between ports, a scan in its
  steps, the bounded event channel that drops, the leader's handler, and the
  timer of discovery mode, whose callback may be late. `lost` and `swapped` are
  history: ports of dropped events, and ports where one board replaced another
  within a scan.

What happens on a serial line:

* `AppImage`: from an ELF file to the image. `Prepare` merges and pads the
  sections, then one action per turn of `BuildAppImage`'s loop places a filler or
  a segment. `elf` is the file's buffer, whose bytes are told apart by their
  place: a slice is a `View` of it, which `append` extends in place (`Extend`),
  or a copy. What is loaded is defined in the properties, from the boot loader's
  side (`Loaded`), and shares nothing with the algorithm.
* `EspFlash`: one call of the flasher (an image, several, an erase). `answers` is
  the line from the chip: answers that are lost, late or repeated, told apart by
  the opcode only, as in `conn.command`. `content` is the flash, block by block.
* `MonitorStream`: a session per `Sids`, with its handler, read loop, control
  loop and client; `lease` is the reservation, `taken` history of whom it was
  taken from.
* `SnapSession`: a board that prints dumps and other lines and may reset at any
  line, the reader, the collector (`Feed`) and the executor with its deadlines.
  `device.missed` is history: the dumps whose BEGIN a full `dataCh` has dropped.

What clients see:

* `WokwiSession`: the entry of the session manager, the simulations with their
  transport and goroutines, jobs that call `Get`, and viewers. A viewer is two
  goroutines: the handler (`pc`: the reset asked for in the URL, the greeting, then
  a line of output taken and written, over and over) and the one that reads the
  client's messages (`reader`). `Reset` and `Send` keep the monitor's mutex until
  the server answers (`Requesting`), and a write waits for the client. A send on a
  closed channel is `panicked`, which ends the process.
* `FlashProgress`: worker, streamer, hub and WebSocket handlers, one bounded
  channel between each two.
* `FlashCommand`: the three commands (`flash`, several images, `flash-batch`),
  the jobs their submits created on the leader, and the board's reservation.
* `WebFlash`: the flash page of the dashboard. A browser runs one callback at a
  time; `uploads`, `submits` and `poll` are the fetches it has under way, each
  of which may be answered, fail, or lose its body, and then no callback runs.
  `listed` is what the leader lists of the page's jobs. An *attempt* is one
  press of the button; `attempts` is the history of the images that were chosen
  then, `hasty` says that the button was pressed while older uploads were on
  their way.

`*Proofs` modules hold the theorems: the name says which part or which sum they
are about. Each MC module puts several modules in one
run: `MCDeviceRegistry` the registry and the catalog, `MCJobDispatch` the job
queue, the flash commands and the flash page, `MCNode` the registry, the peer, sleep, the watcher,
Wokwi and progress, `MCSerial` what happens on a serial line. The first two also
add symmetry sets. The modules of one run share no variable, so the run is
a sum, not a product; `part` says which one moves, the others rest in an
initial state, where none of their fair actions is enabled. The liveness
properties of `node` are implications, `Fair...`: in the behaviours of a part, its
fairness implies its property. A property of one
part is checked in every behaviour of that part, and nothing is claimed about
interleavings between parts. Where parts do interact, the interaction is in the
module itself: `MonitorStream` has a flash that competes for its board,
`DeviceSleep` the jobs and the USB events, `FlashProgress` the worker,
`FlashCommand` the leader's view of its jobs.

Correspondence of state: `devices`, `locks` are `DeviceRegistry.devices` and its
`DeviceLock` objects; `status[p]` is `state.Devices[p].Status`, `"absent"` when
there is no record; `jobs` and `pending` are the fields of `JobQueue`; `queued`
and `results` the executor's channels; `busyFlag`, `sleeping`, `lastUsed` the
manager's fields; `seenAt` the watcher's last scan; `rec` the leader's records of
watched ports. `revoked`, `claims` and the variables called history above exist
in the models only.

Abstractions worth knowing:

* Time is what a timeout can do: every timer may fire whenever its other
  conditions hold. `EspFlash` counts `waited` up to `Deadline` because the number
  of answers read before it matters.
* `Locate` chooses whether the board's node is this one; what a peer does after
  it accepted a job is invisible to the leader, because the peer's reports are
  refused (they must come from `Job.DeviceNode`, which `Dequeue("")` leaves
  empty), so `atPeer` only grows. `PeerNode` models the peer's side.
* `CleanupStale` in `JobDispatch` stands for the 30-minute expiry, the orphan
  sweep and an anonymous DELETE, and may hit any reserved board. The sweep's
  snapshot of the jobs is therefore covered, with more behaviours than the code
  has.
* A nil dereference, or a send on a closed channel, is the state `panicked`, in
  which nothing happens any more.
* The chip in `EspFlash` is external: it executes a command it received, once for
  every time it received it, and answers or not. A block is executed by sequence
  number, so what a repeated block does to the image can be told.
* `JobQueue.Timeout` and `DeviceLock.Acquire` have no callers and are left out,
  and so is the shutdown of the executor.

## Runs

| Run | Instance | Shows |
|---|---|---|
| `registry` | registry: 1 board, 2 owners, 2 threads, 2 lock objects | `LeaderTypeOK`, `LeaseBacked`, refinement of `DeviceLease`; catalog: 1 board, 1 port, 1 generated id, 1 alias, 3 requests: `IndexSound` (950 thousand states together) |
| `jobs` | queue: 2 jobs, 1 client, 1 board, 2 workers, channels of 1; command: 2 images, 2 jobs, 2 sends, 1 re-send; page: 2 images, 2 presses, 2 binaries | `JobsTypeOK`, `SingleFlight`, `ActiveJobsTracked`, `PortBacked`, `SuccessIsCompletion`, `NothingStillFlashes`, `OneFlash` (633 thousand states) |
| `jobs_live` | queue: 2 jobs, 1 board, 1 worker, channels of 1, one job cancellable; page: 1 image, 2 presses | `PendingIsDispatched`, `SubmittedIsCollected`, `FlashPageEnds` (170 thousand states) |
| `node` | registry: 1 board, 2 owners, 1 thread; peer: 1 board, 2 jobs, 2 executions; sleep: 1 board, 1 user; watch: 2 boards, 1 port, channel of 2, 1 late callback; Wokwi: 2 simulations, 2 jobs, 1 viewer; progress: 1 job, 2 clients, channels of 1 | `NodeTypeOK`, `OneJobPerBoard`, `BusyIffAssigned`, `TrackedIsExecuting`, `RecordsFollow`, `OneSimulation`, `OrderKept`; under the fairness of each part `LeaseExpires`, `ExecutionEnds`, `IdleBoardSleeps`, `GhostsVanish`, `DiscoveryEnds`, `SimulationEnds`, `WatchedJobEnds` (205 thousand states) |
| `serial` | image: 2 flash and 2 RAM sections of 3 or 8 bytes, pages of 16; flash: 1 part of 2 blocks, 2 attempts for each, 2 answers under way; monitor: 1 session and a flash, 2 reconnects, channels of 1; snap: dumps of 2 lines, 6 lines of output, channel of 1 | `VerifiedIsImage`, `SuccessIsImage`, `LeaseIsSession`, `WholeFrame`, `SegmentsMap`, `SectionsLoad`, `FlashEnds`, `SessionEnds`, `SnapEnds` (427 thousand states) |
| `registry_status` | the registry part alone | violation of `ReservedShowsBusy` |
| `jobs_exclusive` | 1 job, 1 client, 2 boards | violation of `ExclusivePort` |
| `jobs_peer` | 1 job, 1 board | violation of `PeerOfflineReleases` |
| `peer_heartbeat` | 1 board, 1 job, 1 execution, fair | violation of `HeartbeatReturns` |
| `sleep_busy` | 1 board, 2 users | violation of `RunningIsBusy` |
| `catalog_protected` | 1 board, 1 port, 3 requests | violation of `ProtectedIsRefused` |
| `web_success` | 1 image, 2 presses, 1 binary | violation of `SuccessIsTrue` |

Each of the sums also checks one type invariant (`LeaderTypeOK`,
`JobsTypeOK`, `NodeTypeOK`, `SerialTypeOK`), which holds the capacities of the channels and
the bounds of the attempts as well.

The bounds. One board is enough for the registry, whose boards share nothing but
the map: every operation is about one path, and the one loop over paths touches
each lock by itself (the proofs cover any number). Two threads and two owners
give every pairwise interleaving of calls, and each thread starts call after
call, so the longer patterns (a call that keeps an old pointer while the entry is
removed, registered again and granted to somebody else) occur; two lock objects
are needed for that and, with one board, suffice. In `jobs`, channels of one
place make full channels common, and two jobs with two workers give
double execution its chance. Jobs are not enqueued again: a retry is a new job.

In the catalog, one board has two ids, its own "esp-..." and a generated one, so
that a record can be saved under another board's MAC or alias, and three
requests are enough for one to create a record, one to read it, and a third to
change it before the second saves; the theorems need none of these bounds. At
most one request is between its read and its save.

The images have every order of what the algorithm tells apart: sections that
touch, nearly touch, lie within the zeros behind a segment and lie apart, ends that
need padding and ends that do not, starts that are aligned and not, descriptors in
any flash section or none, RAM segments that are longer and shorter than a gap. Some
of these files are not `Linked` (see below) and do lose bytes: without this premise
TLC refutes `SectionsLoad` with these bounds. RAM is above the flash window, though
some chips have flash on both sides of it: the two kinds are merged apart, and what
matters is that they are far from each other. Lengths are scaled: 2 for the
alignment of 4, 4 for the segment's header of 8, 16 for a page, 6 for 0x24.

In the sums, every bound is the least at which its case occurs. Two executions
and two jobs overlap on one board of a peer. Two boards and one port give a swap
within a scan, and a channel of two places one that overflows when a scan
reports a board and the next one its removal. Two blocks let the answer to the
first be taken for the second's; two attempts let a block, a part and a
connection be tried again and given up. Six lines of output are two more than a
dump has: a log line, a reset with a new BEGIN, or drops may come before an END that
the collector sees, and lines of a second dump may make up the size of the first.
`MaxAnswers` and `MaxSends` bound what is
under way, `MaxLate`, `MaxOut`, `MaxTries`, `MaxJobs`, `Resends` and `MaxAttempts` how often the
environment or a retry may act.

The one monitor session of `serial` competes with a flash; that a session gives
back no other session's reservation is in the theorem `MonitorLease`, for any number
of sessions.

Deadlock is not checked: a leader without requests and devices rests, a
panicked one stays so, and a flash, a snapshot or a command that has ended has
ended.

Fairness. Nothing is assumed of clients, boards, servers or peers; in particular
no server answers a `Reset` or a `Send` and no client takes what is written to it
unless it wants to.
`LeaseExpires` assumes that goroutines inside a call go on, that time
passes (`GrowStale`) and that the maintenance ticker fires (`CleanupStale`).
`PendingIsDispatched` and `SubmittedIsCollected` assume that the
dispatcher's ticker fires, that a call to a peer ends (10-minute timeout), that
workers and collector run on and that a flash or an erase ends (10 and 15
minute timeouts). Each of these is a goroutine that only waits for what the
model makes it wait for. `PendingIsDispatched` has a premise, some board stays
available from some time on: it is the dispatcher's gate, and without it jobs may
wait for ever. The other modules assume of their goroutines that they run on
(weak fairness of the action at which each is), that timers fire and that
requests with a timeout end. Strong fairness stands where a goroutine competes
for a mutex or a channel that others let go and take again: a Go mutex hands
itself to a goroutine that has waited for a millisecond, and a channel serves
its senders in the order they came. It also stands for one outcome of the
environment: the hub does not refuse the sweep for ever (`SweepOff`). The flash
page assumes that a fetch settles, that its timer fires and that a job of the
leader ends unless it was cancelled, and strong fairness of an answer whose first
job is the one polled: Go starts each iteration over a map at a random place.

What liveness does not promise is in the properties: an execution on a peer
ends unless the heartbeat has blocked `p.mu`; a watched job ends unless a client
stalls; a cancelled monitor is removed unless its client stalls; a
simulation ends unless a `Reset` or a `Send` that is never answered holds its mutex,
and a stream of its output unless, besides, its own client stalls (the panic of a
send on the closed channel ends everything); an idle board is powered off unless it
was noted asleep after another operation had switched it on (`crossed`), or flagged
busy after its job was collected (`stuck`); the record of a board that left vanishes
unless its event was dropped or the board the watcher saw there is in another port;
the flash button
comes back unless the body of an answer is lost, or the job that is polled was
cancelled or removed from the list.

## What the violations show

* `ReservedShowsBusy`: the hooks are meant to make the reservation the single
  source of truth for the shown status, but a heartbeat, a re-plug and
  `ReleaseDevice` overwrite it.
* `ExclusivePort`: a job is on the pending list before `Reserve` is called for
  it, and stays there when the call refuses. It can be executing on a port
  which a client has been granted.
* `PeerOfflineReleases`: a failed hand-over stamps the board "available" and
  leaves the reservation, so the board refuses everybody until the 30-minute
  clean-up. (The status is what the dispatcher goes by, the reservation what
  everybody else goes by.)
* `HeartbeatReturns`: as soon as the leader accepts its registration, the
  peer's heartbeat goroutine waits for the read lock it holds itself. No further
  heartbeat is sent, and whatever needs `p.mu` for writing waits too. (The same
  happens earlier when a writer comes between its two read locks.)
* `ProtectedIsRefused`: `seedFromRecord` restores "disabled" from the record
  and not "protected", so a protected board that is unplugged and plugged in
  again is flashed like any other until the leader restarts.
* `RunningIsBusy`: the busy flag is one bit; the first of two operations on a
  board that ends clears it under the second.
* `SuccessIsTrue`: the page asks for the status of its job and takes the first
  job of the answer, but the leader lists all jobs in the order of a map. It shows
  success for a job that still flashes or has failed when another one completed.

## Known limits of the code, met while modelling

They are no runs of their own, because no sentence of the repository promises
otherwise, or because the line that shows them is enough.

* A board unplugged while its job waits ends the leader with a nil dereference
  (`leader.go:1828`, `panicked` in `JobDispatch`), and so does the `Dequeue` of a
  job that `CleanupOld` has deleted.
* `AddDevice` writes the mapping that was read at startup with one more entry
  (`AddDevice` in `DeviceCatalog`): the entry added before is lost from
  `espbrew.toml`, the memory keeps the old mapping until a restart, and what is
  stamped on the device in memory is the old mapping's entry for its port.
  The second board of one discovery replaces the first in the same way.
* The zeros that `saveFlashSegment` puts behind a segment that ends within the
  first 36 bytes of a page are appended in place (`image.go:630`, where the comment
  says a copy is extended) and overwrite what follows in the ELF file's buffer: a
  section that comes right behind it in the file is written to the image with up
  to 36 zeros at its start (`Exposed` in `SectionsLoad`).
* The segment of the app descriptor is swapped with the first one
  (`image.go:496`). Where it was not the first, one that lies below a neighbour is
  then written after it, and when it ends in the first bytes of a page its zeros are
  loaded over the start of a neighbour that lies less than 36 bytes behind it. With the
  run's page of 16 and tail of 6: two sections at 17 and 21 of 2 and 8 bytes, the
  descriptor in the second. `Linked` says which files cannot meet this, and
  `SectionsLoad` that they lose nothing else.
* `chipFlashRegion` (`image.go:84`) knows the flash windows of the P4 and one
  default, `flashRanges` (`elf.go:30`) those of every chip: flash sections of an
  ESP32 or ESP32-S2 file are written like RAM segments, without alignment.
* An erase ends at the 8 seconds of `p4CommandDeadline` (`protocol.go:295`),
  although `chipEraseTimeout` gives it 120.
* The index entry of an alias is deleted by whichever record had it: when two records
  list one alias, the former holder's update without it or its deletion takes the
  entry of the present one (`persistence/device.go:101-113`, `276-283`), which is then
  not found by the alias although it lists it (`hidden` in `IndexSound`).
* Two boards stay powered although nobody uses them, against
  `docs/power-control.md:248-250`. `Sleep` switches the port off and notes it in two
  steps (`devicesleep/manager.go:274-297`): an operation that switches it on in between
  leaves a board that is on and noted asleep, which the sweep passes over. And
  `SetBusy` of an enqueued job (`leader.go:687`) may come after the job has been
  collected: the flag stays until the next operation on the board is released.
* `Reset` and `Send` of a Wokwi monitor hold its mutex over a request without a
  timeout (`api_monitor.go:289-314`), so that an answer that never comes keeps the
  simulation's timeout from stopping it; `writeWokwiData` (`http/monitor.go:450`) has no
  deadline, so that a client which stops reading keeps its stream.
* A frame is told by its size alone: when a full channel drops the BEGIN of a second
  dump, its lines are taken for the rest of the first, which a reset had cut
  (`snap/framebuffer.go:132-136`; `Blended` in `WholeFrame`).
* An aborted dump counts as complete for the executor (`snap/executor.go:510`), which
  stops monitoring, although `framebuffer.go:89-90` has later frames in mind.
* While a snapshot waits for the rest of a dump, its reader has been stopped and
  the port is not read (`snap/executor.go:388-397`).
* `isDeviceUnavailable` looks for "device not available" (`flash.go:597`); the
  leader says "device busy: reserved by" (`leader.go:171-173`). The wait for the
  previous job is almost never taken.
* Where it is taken, it ends when the job is terminal, which is before the
  collector has freed the board (`flash.go:611`).
* `Get` hands out the running Wokwi simulation whatever firmware it runs
  (`session.go:82-87`), and two first callers start two.
* A monitor session that was removed or has expired may reopen its port before
  it notices (`stream.go:188`).
* When the upload of a single file fails, the page keeps the id of the file before
  and flashes that one (`UploadFails`); a chosen project is never forgotten, so
  that a file chosen after it is not flashed (`Press`).
* An upload that fails gives the button back while the other uploads of the same
  project go on: a second press before they settle may submit a mixture (`hasty`
  in `WebFlash`).
* A peer flashes a placeholder instead of the job's firmware (`peer.go:324`).

## Proofs

All proofs are checked by TLAPS from the named assumptions of the modules alone
(special values differ from the owners, jobs and clients are different owners,
channels have at least one place, bounds are numbers). Inductive invariants are
written in parts, one per idea; "proved" below always means for every value of
the constants that these assumptions allow.

Every safety invariant that a run checks is a theorem. The type invariants of the
sums (`LeaderTypeOK`, `JobsTypeOK`, `NodeTypeOK`, `SerialTypeOK`) are theorems of
the MC modules' own specifications: `LeaderTypes`, `JobsTypes`, `NodeTypes`,
`SerialTypes`. These are put together from the steps of each part and from the
fact that the other parts rest.

### `DeviceRegistryProofs`: what a leader knows of its boards

Reservations. The inductive invariant is `TypeOK`, `StateMatchesOwner`,
`PointersKept` and `LeaseBacked`. `LeaseBacked` needs `PointersKept`: a call that
releases through a pointer it has kept changes the lock of its own path or of
none, which holds because a new entry gets an object nobody points to. It needs
`StateMatchesOwner` because `Reserve` tests the state of a lock and the theorem
speaks of its owner. Proved: `RegistryTypeOK`, `RegistryStateMatchesOwner`,
`RegistryLeaseBacked`, `RegistryImplementsLease` and `RegistryNoHandover` (each step
changes the owners on record as `Grant` or `End` does, or not at all).

Records. The inductive invariant is `CatTypeOK` and `IndexSound` itself, so the
work is in the operations of the store: `SaveSound`, `DeleteSound` and
`SetMarkSound` say that each keeps the two indices and the records in agreement,
whatever record it is given. `hidden` makes the statement exact: a save takes the
index entries of the aliases it lists, and a save or a deletion deletes those of the
aliases it no longer lists, without asking whose they are; a record that has such an
alias too is not found by it until it is saved again. Proved:
`CatalogTypeCorrect`, `IndicesAgree`.

### `JobDispatchProofs`: the job queue

`QueueTypes`, which includes the channels' capacities; `JobsSingleFlight` with
the inductive invariant `Placed` (types, single places, and no place before a job
is enqueued): a hand-over takes a job from its only place to a new one (`Move`),
and taking the head of a list moves the others up (`MoveUp`); `JobsPortBacked` on
top of it, because the collector may free a board only when the job it belongs to
is nowhere else; `JobsTracked`, with the strengthening `Tracked`: the queue knows
the job the dispatcher has in hand, so that a refusal can mark it failed, and a
job with a worker or with a result is no longer assigned.

### `FlashClientProofs`: who asks for a flash

The flash page. A browser answers fetches in any order and drops none of the
abandoned ones, so `OneFlash` depends on what may still arrive. `WebInv` says:
an upload belongs to the image its attempt was pressed for, and no more of them
are under way than the attempt awaits (`UploadsSound`, a count of a finite set);
nothing happens before its attempt (`NotBefore`). While no press was `hasty`, it
also says that one attempt, the last, is at one stage (`OneStage`), that
after `flashInProgress` is reset nothing is left but uploads of an attempt of
which one has failed (`Settled`), and that the main binary of an attempt under
way has its file id or is awaited (`AppAwaited`). Proved: `PageTypes`,
`PageOneFlash`.

The flash commands. `CmdInv` relates the command to the jobs it started: the
images before the current one are flashed (`ImagesBefore`), the job it waits for
is the current image's and the only one that may still write to the board
(`Awaited`), which holds because such a job has the board's reservation
(`HasBoard`) and where a job is determines its status (`JobsSane`). A re-sent
submit may leave a second job behind; it has no reservation and is `loose`.
Proved: `CmdTypeCorrect`, `SuccessCorrect`, `NothingFlashesAfterSuccess`.

### `NodeProofs`: a node and its boards

The peer. A board is *quiet* (`Quiet`) when at most one execution has it and its
status says so; `PeerInv` says that every board that is not unplugged under a job
is. `MarkHolds` is what makes it inductive: an execution between the check of a
board and its stamp is the one that has `jobMutex`, so no other can have found
the board available. `HasJob` keeps an execution's job id until its clean-up,
which `TrackedIsExecuting` needs. Proved: `PeerTypes`, `PeerOneJob`, `PeerBusy`,
`PeerTracked`.

The watcher. `RecordsFollow` speaks of the present and of events under way, and
is not inductive: which of several queued events about a port counts depends on
their order. `Settles` says it exactly: handling all queued events would leave a
record where a board was seen and none elsewhere, the last event about a port
being the one that decides. `ScanSound` says that what a scan has still to report
fits what was seen when it was computed. Proved: `WatchTypes`,
`WatchRecordsFollow`. Of sleeping boards the types are proved: `SleepTypes`.

### `ViewerProofs`: what a person follows over the network

Simulations. Once two jobs have been starting a simulation at the same time
(`overlap`) two may run. Until then (`OneStarter`) at most one job is between its
look at the entry and its store, nothing is handed out meanwhile, and a
simulation that runs is the one handed out or the one about to be stored. Proved:
`WokwiTypes`, `WokwiOneSimulation`.

Progress. `OrderKept` is about what a client was told; that the completion comes
last is carried along the whole way. It is announced when the worker and its
reports are over (`WorkSound`), and is a job's last message in the broadcast
channel (`LastInQueue`), at the hub, also while the hub goes round the
subscribers (`LastAtHub`), and for each client (`LastForClients`, `InOrder`).
`Sliced` and `Subscribed` say of the hub's two-step
removal from the shared slice whom the loop may still send to. Proved:
`ProgressTypes`, with the capacities of the channels, and `ProgressOrder`.

### `SerialProofs`: the serial port of a board

Monitors. `MonTypeOK` and `LeaseIsSession` together are inductive: a session that
goes on (`GoesOn`) is served before and after, and those that begin or end one
take and give back the reservation in the same critical section. Proved:
`MonitorTypes`, `MonitorLease`.

Snapshots. `After` says which line may follow a line in one dump: a later one of the
same dump, or one of a dump whose BEGIN was dropped. `Ordered` says so of any two
neighbours in `dataCh`, and of the last line that the board is past it; `Collects`
says of the payload that each line may follow the one before and that what comes
next continues it. A payload that ascends in one dump and has as many lines as a
dump is the dump (`AscendsWhole`); one that does not has a line of a dump whose
BEGIN was dropped, the case `WholeFrame` excepts. Proved: `SnapWholeFrame`.

### `EspFlashProofs`: one call of the flasher

Three layers, each an inductive invariant on top of the one before.

1. `LineSound` bounds which late answers can be on the line at each command: the
   answers to "begin" and "end" are taken only when nothing is left behind them,
   so when the MD5 of a part is asked for, every answer to it on the line belongs
   to this part. `EraseApart` keeps an erase and the writes of an image in
   different calls. Proved: `FlashVerified`.
2. `WroteInv` is about parts that are not verified. While none of a part's blocks
   was sent again, the loader is where the host is and nothing late is on the line
   (`InStep`), so the answer to a block is its own and the parts before are
   written (`PartsWritten`). Proved: `FlashSuccess`: a success means every part is
   in flash, but for one that was not verified and had a block sent twice.
3. `Bounded`: tries, attempts, blocks and late answers stay within their bounds.
   Proved: `FlashTypes`.

### `AppImageProofs`: application images

The program shares one buffer between the file and the segments and extends
segments in place, so the question is always what a write into the buffer does to
somebody else's bytes. There are two inductive invariants, the second on top of the
first.

1. `ImgInv`: every segment is a view of the file's buffer that lies in it or a copy
   of its own length (`Fits`), none of the RAM segments is below `RamBase`, the
   segments in the image end before what is written next, the sections are in order
   in memory and in the file (`FileSound`), and `SegmentsMap`. The arithmetic of
   `segmentPadding` is `PaddingMaps`: no padding is wanted exactly where the next
   byte lands at its address modulo the page. Proved: `ImageTypes`, `ImageMaps`.
2. `LoadInv` says where each byte of each section is: `Cells` are the bytes, by
   address and by place in the file. `Clean`: the buffer still has every byte but
   the exposed ones. `Carries`: a segment in a queue has the right byte at each of
   its addresses, unless a later one covers the address. `Tails`: a byte that the
   zeros behind a segment cover is in a later segment. `EndsAtSection` and
   `AlignedLengths`: a view ends where a section ends in the file, which is why
   zeros in place reach exposed places only. `Placed`: each byte is in a segment
   still to write, or the last segment of the image that covers it has it right.
   When both queues are empty, `Placed` is `SectionsLoad`. Proved: `ImageLoads`.

`Prepare` is the hard step of the second, for it merges in place while the buffer it
reads from changes. `IsMerged` describes what a pass of `mergeSegments` leaves: the
list of sections is cut at some borders (`IsCut`), each segment is the span from the
first section between two cuts to the last (`Span`), whose sections lie as far from
each other in the file as in memory (`Rigid`), and every section's bytes are in
their place (`Intact`): in such a span, the zeros of a gap lie between sections and
the second segment's bytes are written where they are already (`JoinedViews`). The
borders that stay are those whose gap is not `Close` (`Parted`). The swap breaks the
order of the queue, and `Tails` with it unless the file is `Linked`.

The loops over lists (`MergeSegments` and the layout of the file) are recursive
functions on numbers. `SetInduction` gives induction over a set of numbers from the
library's `NatLessThanWellFounded`, which takes no operator, and `LoopRuns` the
existence of such a function; `MergeTurns`, `MergeAll` and `AllLaid` follow by it for
lists of any length.

The assumptions on the constants are that a page and the 36 bytes at its start are
multiples of the alignment (64 KB, 0x24 and 4 are) and that a segment's header fits
in a page and below the flash window. `Linked` is a premise on the file: the flash
sections end 36 + 3 bytes below RAM, and either the descriptor is in the first flash
section, so that nothing is swapped, or each two neighbours among the flash sections
become one segment or lie 36 + 3 bytes apart.

### Only model-checked

* Every liveness property: liveness under fairness, and `ENABLED`, are out of the
  prover's reach.
* What is expected to be violated, of course, is no theorem.

## Not modelled

* Shutdown (`Stop` of executor, watcher, mDNS): straight-line code at the end of
  the process. mDNS waits there for a goroutine that ranges over a channel which
  is closed only after the wait (`mdns.go:86`).
* The buckets of the store other than the devices, and flash hashes: one bbolt
  transaction per call, serialised by the database; comparison of stored values.
* Framing, compression, chip tables, boot loaders, partition tables: data for the
  models, and out of reach of what their properties tell apart.
* Cameras, power hubs, mount repair, inventory, project tools: external
  programs and device I/O. `DeviceSleep` has the hub's outcomes.
* The dashboard's other pages and the other commands: formatting and interaction
  over the same HTTP API; they keep nothing that another part reads. Of the flash
  page, reloading is starting again, one choice of a file is under way at a time,
  and demo mode, the list of devices and the layout are left out.
* The handlers of `internal/http` that only read or pass requests on, and the
  leader's probing of boards and descriptive fields of records.

## Where to go on

1. A product of `FlashCommand` and `JobDispatch` instead of the leader's summary
   in `FlashCommand`.
2. The order of the leader's mutexes (`l.mu`, `r.mu`, a lock's own), acyclic by
   reading, as a module with a theorem.
3. The files that are not `Linked`: how many bytes behind a swapped segment they can
   lose at most, as a theorem instead of a premise.
