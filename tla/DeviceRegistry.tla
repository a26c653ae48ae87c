--------------------------- MODULE DeviceRegistry ---------------------------
(***************************************************************************)
(* The leader's reservation registry (internal/cluster/device_lock.go),    *)
(* the API-facing device status it keeps in step through its hooks         *)
(* (leader.go), and the HTTP reserve/release handler (http/api.go).        *)
(*                                                                         *)
(* A thread is a goroutine inside one registry call.  A call reads the     *)
(* registry map under r.mu, lets it go, changes the lock object under that *)
(* object's own mutex, and only then runs the status hook under l.mu: each *)
(* critical section is one action, and other threads run between them.     *)
(* Lock objects are modelled by identity, because a call keeps the pointer *)
(* it looked up while the map entry is deleted or replaced.                *)
(*                                                                         *)
(* Not modelled: DeviceLock.Acquire and the states "busy" and "error" it   *)
(* handles, which no code outside the tests can reach; power-managed       *)
(* boards, whose record stays as "sleeping" when they are unplugged.       *)
(***************************************************************************)
CONSTANTS Paths,     \* keys of DeviceRegistry.devices
          Owners,    \* job ids, read ids, monitor sessions, API client ids
          Threads,   \* goroutines that call the registry
          Locks,     \* DeviceLock objects
          NoOwner,   \* the empty owner string
          NoLock     \* a path with no registry entry; a nil pointer

ASSUME RegistryAssumption == NoOwner \notin Owners /\ NoLock \notin Locks

VARIABLES
  devices,   \* DeviceRegistry.devices: the lock object registered for a path
  locks,     \* the lock objects: state, owner, and whether reservedAt is old
  status,    \* LeaderNode.state.Devices[p].Status; "absent": no such record
  calls,     \* the call each thread is in
  freed,     \* paths CleanupStaleReservations freed, release hook still to run
  granted,   \* <<p, o>>: o was told it has p and has not given it back
  revoked    \* granted pairs whose reservation was taken from o

vars == <<devices, locks, status, calls, freed, granted, revoked>>

OwnerOrNone == Owners \cup {NoOwner}
LockOrNil   == Locks \cup {NoLock}
Stamps      == {"available", "busy"}
Ops         == {"Reserve", "Release", "ApiReserve", "ApiRelease"}
ReserveOps  == {"Reserve", "ApiReserve"}
ApiOps      == {"ApiReserve", "ApiRelease"}
PCs         == {"owner", "find", "act", "hook", "stamp"}
Idle        == [pc |-> "idle"]

\* by is who asks, owner whose reservation is asked for: they differ only in
\* a DELETE without a client id, which releases whoever owns the board.
\* live: the handler's *DeviceInfo is still the record in the leader's map.
CallRecord == [pc : PCs, op : Ops, path : Paths, owner : OwnerOrNone,
               by : OwnerOrNone, dev : LockOrNil, live : BOOLEAN]
CallType ==
  {c \in CallRecord : /\ c.pc = "act" => c.dev \in Locks
                      /\ c.pc \in {"owner", "find"} => c.op = "ApiRelease"
                      /\ c.op \in ReserveOps => c.owner \in Owners}
LockType == [state : {"available", "reserved"}, owner : OwnerOrNone, stale : BOOLEAN]

TypeOK ==
  /\ devices \in [Paths -> LockOrNil]
  /\ locks \in [Locks -> LockType]
  /\ status \in [Paths -> Stamps \cup {"absent"}]
  /\ calls \in [Threads -> CallType \cup {Idle}]
  /\ freed \subseteq Paths
  /\ granted \subseteq Paths \X Owners
  /\ revoked \subseteq granted

\* stale matters only while the lock is reserved: Reserve sets reservedAt anew.
FreeLock == [state |-> "available", owner |-> NoOwner, stale |-> FALSE]
HeldBy(o) == [state |-> "reserved", owner |-> o, stale |-> FALSE]

\* The owner the registry has on record for a path (GetOwner).
OwnerOf(p) == IF devices[p] = NoLock THEN NoOwner ELSE locks[devices[p]].owner

\* o's reservations of the paths in S, as pairs.
HeldIn(S) == {<<p, OwnerOf(p)>> : p \in {q \in S : OwnerOf(q) # NoOwner}}

Done(t) == calls' = [calls EXCEPT ![t] = Idle]
Goto(t, pc) == calls' = [calls EXCEPT ![t].pc = pc]

\* setDeviceStatus: a no-op on a path without a record.
SetDeviceStatus(S, s) ==
  status' = [p \in Paths |-> IF p \in S /\ status[p] # "absent" THEN s ELSE status[p]]
-----------------------------------------------------------------------------
(* Starting a call.                                                         *)

\* The first critical section of Reserve and Release: the map lookup.  An
\* unknown path returns false at once and is left out.
Lookup(t, op, p, o) ==
  /\ calls[t] = Idle
  /\ devices[p] # NoLock
  /\ op = "ApiReserve" => status[p] # "absent"
  /\ calls' = [calls EXCEPT ![t] = [pc |-> "act", op |-> op, path |-> p, owner |-> o,
                                    by |-> o, dev |-> devices[p], live |-> TRUE]]
  /\ UNCHANGED <<devices, locks, status, freed, granted, revoked>>

\* DELETE /devices/{name}/reserve, up to GetOwner's map lookup; me is the
\* client id of the body, NoOwner when there is none.
ApiReleaseLookup(t, p, me) ==
  /\ calls[t] = Idle
  /\ status[p] # "absent"
  /\ calls' = [calls EXCEPT ![t] = [pc |-> "owner", op |-> "ApiRelease", path |-> p,
                                    owner |-> NoOwner, by |-> me, dev |-> devices[p],
                                    live |-> TRUE]]
  /\ UNCHANGED <<devices, locks, status, freed, granted, revoked>>

\* GetOwner's read of the lock, and the 403 for somebody else's client id.
ApiReleaseCheck(t) ==
  LET c == calls[t]
      o == IF c.dev = NoLock THEN NoOwner ELSE locks[c.dev].owner
  IN  /\ c.pc = "owner"
      /\ IF o # NoOwner /\ c.by # NoOwner /\ o # c.by
           THEN Done(t)
           ELSE calls' = [calls EXCEPT ![t].pc = "find", ![t].owner = o, ![t].dev = NoLock]
      /\ UNCHANGED <<devices, locks, status, freed, granted, revoked>>

\* Mutant: the registry's Release forgets the "exists" check of the lookup.
MutantNilDevice(t) ==
  /\ calls[t].pc = "find"
  /\ calls' = [calls EXCEPT ![t].pc = "act", ![t].dev = devices[calls[t].path]]
  /\ UNCHANGED <<devices, locks, status, freed, granted, revoked>>

\* The handler's Release(path, owner): its map lookup.
ApiReleaseFind(t) ==
  LET dev == devices[calls[t].path]
  IN  /\ calls[t].pc = "find"
      /\ calls' = [calls EXCEPT ![t].pc = IF dev = NoLock THEN "stamp" ELSE "act",
                                ![t].dev = dev]
      /\ UNCHANGED <<devices, locks, status, freed, granted, revoked>>
-----------------------------------------------------------------------------
(* The lock object's critical section, then the hook's.                     *)

\* Mutant: Reserve refuses only the owner itself and overwrites anybody else.
MutantReserveOver(t) ==
  LET c == calls[t]
      pair == <<c.path, c.owner>>
  IN  /\ locks[c.dev].owner # c.owner
      /\ locks' = [locks EXCEPT ![c.dev] = HeldBy(c.owner)]
      /\ granted' = granted \cup {pair}
      /\ revoked' = IF devices[c.path] = c.dev THEN revoked \ {pair} ELSE revoked \cup {pair}
      /\ Goto(t, "hook")

\* DeviceLock.Reserve.  A grant on an object that is no longer registered for
\* the path is counted as revoked from the start.
ReserveOutcome(t) ==
  LET c == calls[t]
      pair == <<c.path, c.owner>>
  IN  /\ locks[c.dev].state = "available"
      /\ locks' = [locks EXCEPT ![c.dev] = HeldBy(c.owner)]
      /\ granted' = granted \cup {pair}
      /\ revoked' = IF devices[c.path] = c.dev THEN revoked \ {pair} ELSE revoked \cup {pair}
      /\ Goto(t, "hook")

ReserveRefused(t) ==
  /\ locks[calls[t].dev].state # "available"
  /\ Done(t)
  /\ UNCHANGED <<locks, granted, revoked>>

TryReserve(t) ==
  /\ calls[t].pc = "act" /\ calls[t].op \in ReserveOps
  /\ ReserveOutcome(t) \/ ReserveRefused(t)
  /\ UNCHANGED <<devices, status, freed>>

\* Mutant: Release without the owner comparison.
MutantReleaseAny(t) ==
  LET c == calls[t]
  IN  /\ c.pc = "act" /\ c.op \notin ReserveOps
      /\ granted' = granted \ {<<c.path, c.by>>}
      /\ revoked' = (revoked \cup {<<c.path, c.owner>>}) \cap granted'
      /\ locks' = [locks EXCEPT ![c.dev] = FreeLock]
      /\ Goto(t, "hook")
      /\ UNCHANGED <<devices, status, freed>>

\* DeviceLock.Release.  The caller has given its claim up whatever the answer;
\* an owner released on somebody else's behalf has lost it.
TryRelease(t) ==
  LET c == calls[t]
      match == locks[c.dev].owner = c.owner
  IN  /\ c.pc = "act" /\ c.op \notin ReserveOps
      /\ granted' = granted \ {<<c.path, c.by>>}
      /\ revoked' = (revoked \cup IF match THEN {<<c.path, c.owner>>} ELSE {}) \cap granted'
      /\ IF match
           THEN /\ locks' = [locks EXCEPT ![c.dev] = FreeLock]
                /\ Goto(t, "hook")
           ELSE /\ UNCHANGED locks
                /\ IF c.op = "ApiRelease" THEN Goto(t, "stamp") ELSE Done(t)
      /\ UNCHANGED <<devices, status, freed>>

\* callReserveHook / callReleaseHook.
FireHook(t) ==
  LET c == calls[t]
  IN  /\ c.pc = "hook"
      /\ SetDeviceStatus({c.path}, IF c.op \in ReserveOps THEN "busy" ELSE "available")
      /\ IF c.op \in ApiOps THEN Goto(t, "stamp") ELSE Done(t)
      /\ UNCHANGED <<devices, locks, freed, granted, revoked>>

\* The HTTP handler stamps the record it looked up when it started, whatever
\* the release answered; a record replaced since is not the live one.
StampRecord(t) ==
  LET c == calls[t]
  IN  /\ c.pc = "stamp"
      /\ SetDeviceStatus(IF c.live THEN {c.path} ELSE {},
                         IF c.op \in ReserveOps THEN "busy" ELSE "available")
      /\ Done(t)
      /\ UNCHANGED <<devices, locks, freed, granted, revoked>>
-----------------------------------------------------------------------------
(* The leader's device records: events, heartbeats, maintenance.  Each is   *)
(* one critical section of l.mu.                                            *)

DropPointers(p) ==
  calls' = [t \in Threads |-> IF calls[t] # Idle /\ calls[t].path = p
                                THEN [calls[t] EXCEPT !.live = FALSE] ELSE calls[t]]

Unused(l) ==
  /\ \A p \in Paths : devices[p] # l
  /\ \A t \in Threads : calls[t] # Idle => calls[t].dev # l

\* DeviceRegistry.Register: idempotent; a new entry is a new lock object.
Register(p) ==
  IF devices[p] # NoLock
    THEN UNCHANGED <<devices, locks>>
    ELSE \E l \in Locks : /\ Unused(l)
                          /\ devices' = [devices EXCEPT ![p] = l]
                          /\ locks' = [locks EXCEPT ![l] = FreeLock]

\* Mutant: ForceRelease resets the state and keeps the owner.
MutantHalfRelease(S) ==
  /\ locks' = [l \in Locks |-> IF \E p \in S : devices[p] = l
                 THEN [locks[l] EXCEPT !.state = "available"] ELSE locks[l]]
  /\ revoked' = revoked \cup (HeldIn(S) \cap granted)

\* DeviceLock.ForceRelease on every registered lock of S.
ForceRelease(S) ==
  /\ locks' = [l \in Locks |-> IF \E p \in S : devices[p] = l THEN FreeLock ELSE locks[l]]
  /\ revoked' = revoked \cup (HeldIn(S) \cap granted)

\* A record is created or replaced: a device event for a path with no record,
\* a heartbeat's devices, RegisterDevice.
RecordStored(p, s) ==
  /\ status' = [status EXCEPT ![p] = s]
  /\ Register(p)
  /\ DropPointers(p)
  /\ UNCHANGED <<freed, granted, revoked>>

\* A device event for a path whose record exists resets the lock too.
Replugged(p) ==
  /\ status[p] # "absent"
  /\ status' = [status EXCEPT ![p] = "available"]
  /\ ForceRelease({p})
  /\ DropPointers(p)
  /\ UNCHANGED <<devices, freed, granted>>

\* The record goes and the registry entry stays: DeviceRemoved, a node that
\* left or timed out, a path missing from a heartbeat, an API delete.
RecordRemoved(p) ==
  /\ status[p] # "absent"
  /\ status' = [status EXCEPT ![p] = "absent"]
  /\ DropPointers(p)
  /\ UNCHANGED <<devices, locks, freed, granted, revoked>>

\* cleanupOrphanedDevices, for a busy path without an active queue job (which
\* jobs there are is JobDispatch's concern: here any busy path may qualify).
CleanupOrphaned(p) ==
  /\ status[p] = "busy"
  /\ status' = [status EXCEPT ![p] = "available"]
  /\ ForceRelease({p})
  /\ UNCHANGED <<devices, calls, freed, granted>>

\* cleanupUnidentifiedDevices: the record and the registry entry go.
CleanupUnidentified(p) ==
  /\ status[p] # "absent"
  /\ status' = [status EXCEPT ![p] = "absent"]
  /\ devices' = [devices EXCEPT ![p] = NoLock]
  /\ revoked' = revoked \cup (HeldIn({p}) \cap granted)
  /\ DropPointers(p)
  /\ UNCHANGED <<locks, freed, granted>>

\* Mutant: the cleanup trusts the stamped status instead of the lock.
MutantStaleIfBusy(p) ==
  /\ status[p] = "busy"
  /\ devices[p] # NoLock /\ locks[devices[p]].state = "reserved" /\ locks[devices[p]].stale

\* state is Reserved (or Busy) and reservedAt lies before the cutoff.
StaleReserved(p) ==
  devices[p] # NoLock /\ locks[devices[p]].state = "reserved" /\ locks[devices[p]].stale

\* CleanupStaleReservations under r.mu: every stale reservation is freed.
\* The loop visits the paths one by one, but each visit touches only its own
\* lock, so it is one action; the hooks run after r.mu is let go.
CleanupStale ==
  LET S == {p \in Paths : StaleReserved(p)}
  IN  /\ freed = {} /\ S # {}
      /\ ForceRelease(S)
      /\ freed' = S
      /\ UNCHANGED <<devices, status, calls, granted>>

FireFreed(p) ==
  /\ p \in freed
  /\ SetDeviceStatus({p}, "available")
  /\ freed' = freed \ {p}
  /\ UNCHANGED <<devices, locks, calls, granted, revoked>>

\* Time passes: reservedAt falls before the cutoff.
GrowStale(p) ==
  /\ devices[p] # NoLock /\ locks[devices[p]].state = "reserved"
  /\ ~ locks[devices[p]].stale
  /\ locks' = [locks EXCEPT ![devices[p]].stale = TRUE]
  /\ UNCHANGED <<devices, status, calls, freed, granted, revoked>>
-----------------------------------------------------------------------------
Init ==
  /\ devices = [p \in Paths |-> NoLock]
  /\ locks = [l \in Locks |-> FreeLock]
  /\ status = [p \in Paths |-> "absent"]
  /\ calls = [t \in Threads |-> Idle]
  /\ freed = {}
  /\ granted = {}
  /\ revoked = {}

Step(t) ==
  \/ ApiReleaseCheck(t)
  \/ ApiReleaseFind(t)
  \/ TryReserve(t)
  \/ TryRelease(t)
  \/ FireHook(t)
  \/ StampRecord(t)

Start(t) ==
  \/ \E op \in Ops \ {"ApiRelease"}, p \in Paths, o \in Owners : Lookup(t, op, p, o)
  \/ \E p \in Paths, me \in OwnerOrNone : ApiReleaseLookup(t, p, me)

Records(p) ==
  \/ \E s \in Stamps : RecordStored(p, s)
  \/ Replugged(p)
  \/ RecordRemoved(p)
  \/ CleanupOrphaned(p)
  \/ CleanupUnidentified(p)
  \/ FireFreed(p)
  \/ GrowStale(p)

Next ==
  \/ \E t \in Threads : Start(t) \/ Step(t)
  \/ \E p \in Paths : Records(p)
  \/ CleanupStale

Spec == Init /\ [][Next]_vars

\* The clock runs and the maintenance loop ticks once a minute; a goroutine in
\* a call runs on.  Clients, devices and peers owe nothing.
Fairness ==
  /\ \A t \in Threads : WF_vars(Step(t))
  /\ \A p \in Paths : WF_vars(FireFreed(p)) /\ WF_vars(GrowStale(p))
  /\ WF_vars(CleanupStale)

FairSpec == Spec /\ Fairness
-----------------------------------------------------------------------------
(* Properties.                                                              *)

\* DeviceLock.state and DeviceLock.owner are written together everywhere: a
\* lock is free exactly when it has no owner.  Reserve trusts the one field
\* and Release the other.
StateMatchesOwner ==
  \A l \in Locks : locks[l].state = "available" <=> locks[l].owner = NoOwner

\* Two paths never share a lock object, and a pointer a call still carries is
\* registered for the call's own path or for none.
PointersKept ==
  /\ \A p, q \in Paths : devices[p] = devices[q] /\ devices[p] # NoLock => p = q
  /\ \A t \in Threads, q \in Paths :
       calls[t] # Idle /\ calls[t].dev = devices[q] /\ devices[q] # NoLock
         => q = calls[t].path

\* An owner that was granted a path and has not given it back is the owner on
\* record, unless its reservation was taken away by expiry, maintenance, a
\* re-plug or an anonymous DELETE.  No interleaving of ordinary calls can take it.
LeaseBacked ==
  \A g \in granted : OwnerOf(g[1]) = g[2] \/ g \in revoked

Lease == INSTANCE DeviceLease WITH holder <- [p \in Paths |-> OwnerOf(p)]
LeaseSpec == Lease!Spec
NoHandover == Lease!NoHandover

\* Whoever holds a board loses it in the end, even a client that died: the
\* 30-minute cleanup looks at the lock itself, whatever the status says and
\* whether or not the device still has a record.
LeaseExpires ==
  \A p \in Paths, o \in Owners : OwnerOf(p) = o ~> OwnerOf(p) # o

Settled == freed = {} /\ \A t \in Threads : calls[t] = Idle

\* What the hooks are for (device_lock.go:124-126, leader.go:147-150): once no
\* call and no hook is under way, a reserved board is not shown "available".
ReservedShowsBusy ==
  Settled => \A p \in Paths : OwnerOf(p) # NoOwner => status[p] # "available"
=============================================================================
