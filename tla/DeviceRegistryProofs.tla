------------------------ MODULE DeviceRegistryProofs ------------------------
(***************************************************************************)
(* What a leader knows of its boards: what DeviceRegistry guarantees for   *)
(* every set of paths, owners, threads and lock objects; that the indices  *)
(* and records of DeviceCatalog agree, for any number of boards, ids,      *)
(* ports, aliases and requests; and the types of both together.            *)
(***************************************************************************)
EXTENDS MCDeviceRegistry, TLAPS

(***************************************************************************)
(* Reservations.                                                           *)
(***************************************************************************)
\* The inductive invariant.  LeaseBacked alone is not inductive: a granted
\* lock object must belong to one path only (PointersKept), and a lock that
\* Reserve finds available must have no owner on record (StateMatchesOwner).
IInv == TypeOK /\ StateMatchesOwner /\ PointersKept /\ LeaseBacked

USE RegistryAssumption

LEMMA InitIInv == Init => IInv
  BY DEF Init, IInv, TypeOK, StateMatchesOwner, PointersKept, LeaseBacked, FreeLock,
         LockType, OwnerOrNone, LockOrNil, Stamps, Idle

\* A call in progress is a full record.
LEMMA CallTyped ==
  ASSUME TypeOK, NEW t \in Threads, calls[t] # Idle
  PROVE  calls[t] \in CallType
  BY DEF TypeOK

\* A thread at a program counter other than idle is in a call.
LEMMA InCall ==
  ASSUME TypeOK, NEW t \in Threads, calls[t].pc \in PCs
  PROVE  calls[t] # Idle /\ calls[t] \in CallType
  <1>1. Idle.pc \notin PCs
    BY DEF Idle, PCs
  <1>2. QED
    BY <1>1, CallTyped

\* Every new value of a call keeps the shape of CallType.
LEMMA CallStep ==
  ASSUME TypeOK, NEW t \in Threads, NEW c \in CallType \cup {Idle},
         calls' = [calls EXCEPT ![t] = c]
  PROVE  calls' \in [Threads -> CallType \cup {Idle}]
  BY DEF TypeOK

LEMMA DoneStep ==
  ASSUME TypeOK, NEW t \in Threads, Done(t)
  PROVE  calls' \in [Threads -> CallType \cup {Idle}]
  BY CallStep DEF Done

LEMMA GotoStep ==
  ASSUME TypeOK, NEW t \in Threads, calls[t].pc = "act" \/ calls[t].pc = "hook",
         NEW pc \in {"hook", "stamp"}, Goto(t, pc)
  PROVE  calls' \in [Threads -> CallType \cup {Idle}]
  <1> DEFINE c == [calls[t] EXCEPT !.pc = pc]
  <1>1. calls[t] \in CallType
    BY InCall DEF PCs
  <1>2. c \in CallType
    BY <1>1 DEF CallType, CallRecord, PCs
  <1>3. calls' = [calls EXCEPT ![t] = c]
    BY DEF Goto
  <1>4. QED
    BY <1>2, <1>3, CallStep

LEMMA TypeStep == TypeOK /\ [Next]_vars => TypeOK'
<1> SUFFICES ASSUME TypeOK, [Next]_vars PROVE TypeOK'
  OBVIOUS
<1> USE DEF OwnerOrNone, LockOrNil, Stamps
<1>0. FreeLock \in LockType /\ \A o \in Owners : HeldBy(o) \in LockType
  BY DEF FreeLock, HeldBy, LockType
<1>1. ASSUME NEW t \in Threads, NEW op \in Ops \ {"ApiRelease"}, NEW p \in Paths,
             NEW o \in Owners, Lookup(t, op, p, o)
      PROVE  TypeOK'
  <2> DEFINE c == [pc |-> "act", op |-> op, path |-> p, owner |-> o,
                   by |-> o, dev |-> devices[p], live |-> TRUE]
  <2>1. c \in CallType
    BY <1>1 DEF TypeOK, Lookup, CallType, CallRecord, PCs
  <2>2. calls' = [calls EXCEPT ![t] = c] /\ UNCHANGED <<devices, locks, status, freed, granted, revoked>>
    BY <1>1 DEF Lookup
  <2>3. QED
    BY <2>1, <2>2, CallStep DEF TypeOK
<1>2. ASSUME NEW t \in Threads, NEW p \in Paths, NEW me \in OwnerOrNone,
             ApiReleaseLookup(t, p, me)
      PROVE  TypeOK'
  <2> DEFINE c == [pc |-> "owner", op |-> "ApiRelease", path |-> p, owner |-> NoOwner,
                   by |-> me, dev |-> devices[p], live |-> TRUE]
  <2>1. c \in CallType
    BY <1>2 DEF TypeOK, CallType, CallRecord, PCs, Ops, ReserveOps
  <2>2. calls' = [calls EXCEPT ![t] = c] /\ UNCHANGED <<devices, locks, status, freed, granted, revoked>>
    BY <1>2 DEF ApiReleaseLookup
  <2>3. QED
    BY <2>1, <2>2, CallStep DEF TypeOK
<1>3. ASSUME NEW t \in Threads, ApiReleaseCheck(t)
      PROVE  TypeOK'
  <2> DEFINE o == IF calls[t].dev = NoLock THEN NoOwner ELSE locks[calls[t].dev].owner
             c == [calls[t] EXCEPT !.pc = "find", !.owner = o, !.dev = NoLock]
  <2>1. calls[t] \in CallType /\ calls[t].op = "ApiRelease"
    BY <1>3, InCall DEF ApiReleaseCheck, PCs, CallType
  <2>2. o \in OwnerOrNone
    BY <2>1 DEF TypeOK, CallType, CallRecord, LockType
  <2> HIDE DEF o
  <2>3. c \in CallType
    BY <2>1, <2>2 DEF CallType, CallRecord, PCs, ReserveOps
  <2>4. Done(t) \/ calls' = [calls EXCEPT ![t] = c]
    BY <1>3 DEF ApiReleaseCheck, o
  <2>5. calls' \in [Threads -> CallType \cup {Idle}]
    BY <2>3, <2>4, CallStep, DoneStep
  <2>6. QED
    BY <1>3, <2>5 DEF TypeOK, ApiReleaseCheck
<1>4. ASSUME NEW t \in Threads, ApiReleaseFind(t)
      PROVE  TypeOK'
  <2> DEFINE dev == devices[calls[t].path]
             c == [calls[t] EXCEPT !.pc = IF dev = NoLock THEN "stamp" ELSE "act", !.dev = dev]
  <2>1. calls[t] \in CallType /\ calls[t].op = "ApiRelease" /\ calls[t].path \in Paths
    BY <1>4, InCall DEF ApiReleaseFind, PCs, CallType, CallRecord
  <2>2. dev \in LockOrNil
    BY <2>1 DEF TypeOK
  <2> HIDE DEF dev
  <2>3. c \in CallType
    BY <2>1, <2>2 DEF CallType, CallRecord, PCs, ReserveOps
  <2>4. calls' = [calls EXCEPT ![t] = c]
    BY <1>4 DEF ApiReleaseFind, dev
  <2>5. QED
    BY <1>4, <2>3, <2>4, CallStep DEF TypeOK, ApiReleaseFind
<1>5. ASSUME NEW t \in Threads, TryReserve(t)
      PROVE  TypeOK'
  <2>1. /\ calls[t].dev \in Locks /\ calls[t].path \in Paths /\ calls[t].owner \in Owners
        /\ calls[t].pc = "act"
    BY <1>5, InCall DEF TryReserve, PCs, CallType, CallRecord
  <2>2. UNCHANGED <<devices, status, freed>>
    BY <1>5 DEF TryReserve
  <2>3. CASE ReserveOutcome(t)
    <3>1. calls' \in [Threads -> CallType \cup {Idle}]
      BY <2>1, <2>3, GotoStep DEF ReserveOutcome
    <3>2. QED
      BY <1>0, <2>1, <2>2, <2>3, <3>1 DEF TypeOK, ReserveOutcome
  <2>4. CASE ReserveRefused(t)
    BY <2>2, <2>4, DoneStep DEF TypeOK, ReserveRefused
  <2>5. QED
    BY <1>5, <2>3, <2>4 DEF TryReserve
<1>6. ASSUME NEW t \in Threads, TryRelease(t)
      PROVE  TypeOK'
  <2>1. calls[t].dev \in Locks /\ calls[t].pc = "act"
    BY <1>6, InCall DEF TryRelease, PCs, CallType
  <2>2. Done(t) \/ Goto(t, "hook") \/ Goto(t, "stamp")
    BY <1>6 DEF TryRelease
  <2>3. calls' \in [Threads -> CallType \cup {Idle}]
    BY <2>1, <2>2, DoneStep, GotoStep
  <2>4. locks' \in [Locks -> LockType] /\ UNCHANGED <<devices, status, freed>>
    BY <1>0, <1>6, <2>1 DEF TypeOK, TryRelease
  <2>5. granted' \subseteq granted /\ revoked' \subseteq granted'
    BY <1>6 DEF TryRelease
  <2>6. QED
    BY <2>3, <2>4, <2>5 DEF TypeOK
<1>7. ASSUME NEW t \in Threads, FireHook(t)
      PROVE  TypeOK'
  <2>1. calls' \in [Threads -> CallType \cup {Idle}]
    BY <1>7, DoneStep, GotoStep DEF FireHook
  <2>2. QED
    BY <1>7, <2>1 DEF TypeOK, FireHook, SetDeviceStatus
<1>8. ASSUME NEW t \in Threads, StampRecord(t)
      PROVE  TypeOK'
  <2>1. calls' \in [Threads -> CallType \cup {Idle}]
    BY <1>8, DoneStep DEF StampRecord
  <2>2. QED
    BY <1>8, <2>1 DEF TypeOK, StampRecord, SetDeviceStatus
<1>9. ASSUME NEW p \in Paths, Records(p)
      PROVE  TypeOK'
  <2>1. ASSUME DropPointers(p)
        PROVE  calls' \in [Threads -> CallType \cup {Idle}]
    <3>1. \A c \in CallType : [c EXCEPT !.live = FALSE] \in CallType
      BY DEF CallType, CallRecord
    <3>2. QED
      BY <2>1, <3>1, CallTyped DEF TypeOK, DropPointers
  <2>2. ASSUME Register(p)
        PROVE  devices' \in [Paths -> LockOrNil] /\ locks' \in [Locks -> LockType]
    BY <1>0, <2>2 DEF TypeOK, Register
  <2>3. ASSUME NEW S \in SUBSET Paths, ForceRelease(S)
        PROVE  locks' \in [Locks -> LockType] /\ revoked' \subseteq granted
    BY <1>0, <2>3 DEF TypeOK, ForceRelease
  <2>4. CASE \E s \in Stamps : RecordStored(p, s)
    BY <2>1, <2>2, <2>4 DEF TypeOK, RecordStored
  <2>5. CASE Replugged(p)
    BY <2>1, <2>3, <2>5 DEF TypeOK, Replugged
  <2>6. CASE RecordRemoved(p)
    BY <2>1, <2>6 DEF TypeOK, RecordRemoved
  <2>7. CASE CleanupOrphaned(p)
    BY <2>3, <2>7 DEF TypeOK, CleanupOrphaned
  <2>8. CASE CleanupUnidentified(p)
    BY <2>1, <2>8 DEF TypeOK, CleanupUnidentified
  <2>9. CASE FireFreed(p)
    BY <2>9 DEF TypeOK, FireFreed, SetDeviceStatus
  <2>10. CASE GrowStale(p)
    BY <2>10 DEF TypeOK, GrowStale, LockType
  <2>11. QED
    BY <1>9, <2>4, <2>5, <2>6, <2>7, <2>8, <2>9, <2>10 DEF Records
<1>10. CASE CleanupStale
  BY <1>0, <1>10 DEF TypeOK, CleanupStale, ForceRelease
<1>11. CASE UNCHANGED vars
  BY <1>11 DEF TypeOK, vars
<1>12. QED
  BY <1>1, <1>2, <1>3, <1>4, <1>5, <1>6, <1>7, <1>8, <1>9, <1>10, <1>11
     DEF Next, Start, Step
-----------------------------------------------------------------------------
\* The two fields of a lock object change together.
LEMMA StateStep == TypeOK /\ StateMatchesOwner /\ [Next]_vars => StateMatchesOwner'
<1> SUFFICES ASSUME TypeOK, StateMatchesOwner, [Next]_vars PROVE StateMatchesOwner'
  OBVIOUS
<1>0. /\ FreeLock.state = "available" /\ FreeLock.owner = NoOwner
      /\ \A o \in Owners : HeldBy(o).state = "reserved" /\ HeldBy(o).owner = o /\ o # NoOwner
  BY DEF FreeLock, HeldBy
<1>1. CASE UNCHANGED locks
  BY <1>1 DEF StateMatchesOwner
<1>2. ASSUME NEW t \in Threads, TryReserve(t)
      PROVE  StateMatchesOwner'
  <2>1. calls[t].dev \in Locks /\ calls[t].owner \in Owners
    BY <1>2, InCall DEF TryReserve, PCs, CallType
  <2>2. QED
    BY <1>0, <1>2, <2>1 DEF TypeOK, StateMatchesOwner, TryReserve, ReserveOutcome, ReserveRefused
<1>3. ASSUME NEW t \in Threads, TryRelease(t)
      PROVE  StateMatchesOwner'
  <2>1. calls[t].dev \in Locks
    BY <1>3, InCall DEF TryRelease, PCs, CallType
  <2>2. QED
    BY <1>0, <1>3, <2>1 DEF TypeOK, StateMatchesOwner, TryRelease
<1>4. ASSUME NEW p \in Paths, Register(p)
      PROVE  StateMatchesOwner'
  BY <1>0, <1>4 DEF TypeOK, StateMatchesOwner, Register
<1>5. ASSUME NEW S, ForceRelease(S)
      PROVE  StateMatchesOwner'
  BY <1>0, <1>5 DEF TypeOK, StateMatchesOwner, ForceRelease
<1>6. ASSUME NEW p \in Paths, GrowStale(p)
      PROVE  StateMatchesOwner'
  BY <1>6 DEF TypeOK, StateMatchesOwner, GrowStale, LockType, LockOrNil
<1>7. ASSUME NEW p \in Paths, Records(p)
      PROVE  StateMatchesOwner'
  BY <1>1, <1>4, <1>5, <1>6, <1>7 DEF Records, RecordStored, Replugged, RecordRemoved,
     CleanupOrphaned, CleanupUnidentified, FireFreed
<1>8. ASSUME NEW t \in Threads, Start(t) \/ Step(t)
      PROVE  StateMatchesOwner'
  BY <1>1, <1>2, <1>3, <1>8 DEF Start, Step, Lookup, ApiReleaseLookup, ApiReleaseCheck,
     ApiReleaseFind, FireHook, StampRecord
<1>9. QED
  BY <1>1, <1>5, <1>7, <1>8 DEF Next, vars, CleanupStale
-----------------------------------------------------------------------------
\* What a call's own step may do to its pointer: end the call, keep it, clear
\* it, or take the one registered for its path.
LEMMA PointerStep ==
  ASSUME TypeOK, PointersKept, NEW t \in Threads, Start(t) \/ Step(t)
  PROVE  /\ UNCHANGED devices
         /\ \A u \in Threads \ {t} : calls'[u] = calls[u]
         /\ \/ calls'[t] = Idle
            \/ calls'[t].dev \in {NoLock, devices[calls'[t].path]}
            \/ calls[t] # Idle /\ calls'[t].path = calls[t].path /\ calls'[t].dev = calls[t].dev
<1>1. ASSUME NEW pc \in {"hook", "stamp"}, Goto(t, pc), calls[t].pc \in {"act", "hook"}
      PROVE  /\ \A u \in Threads \ {t} : calls'[u] = calls[u]
             /\ calls[t] # Idle /\ calls'[t].path = calls[t].path /\ calls'[t].dev = calls[t].dev
  <2>1. calls[t] # Idle /\ calls[t] \in CallType
    BY <1>1, InCall DEF PCs
  <2>2. QED
    BY <1>1, <2>1 DEF TypeOK, Goto, CallType, CallRecord
<1>2. ASSUME Done(t)
      PROVE  calls'[t] = Idle /\ \A u \in Threads \ {t} : calls'[u] = calls[u]
  BY <1>2 DEF TypeOK, Done
<1>3. ASSUME NEW op \in Ops \ {"ApiRelease"}, NEW p \in Paths, NEW o \in Owners, Lookup(t, op, p, o)
      PROVE  /\ UNCHANGED devices
             /\ \A u \in Threads \ {t} : calls'[u] = calls[u]
             /\ calls'[t].dev = devices[calls'[t].path]
  BY <1>3 DEF TypeOK, Lookup
<1>4. ASSUME NEW p \in Paths, NEW me \in OwnerOrNone, ApiReleaseLookup(t, p, me)
      PROVE  /\ UNCHANGED devices
             /\ \A u \in Threads \ {t} : calls'[u] = calls[u]
             /\ calls'[t].dev = devices[calls'[t].path]
  BY <1>4 DEF TypeOK, ApiReleaseLookup
<1>5. ASSUME ApiReleaseCheck(t)
      PROVE  /\ UNCHANGED devices
             /\ \A u \in Threads \ {t} : calls'[u] = calls[u]
             /\ calls'[t] = Idle \/ calls'[t].dev = NoLock
  <2>1. calls[t] # Idle /\ calls[t] \in CallType
    BY <1>5, InCall DEF ApiReleaseCheck, PCs
  <2>2. QED
    BY <1>5, <2>1 DEF TypeOK, ApiReleaseCheck, Done, CallType, CallRecord
<1>6. ASSUME ApiReleaseFind(t)
      PROVE  /\ UNCHANGED devices
             /\ \A u \in Threads \ {t} : calls'[u] = calls[u]
             /\ calls'[t].dev = devices[calls'[t].path]
  <2>1. calls[t] # Idle /\ calls[t] \in CallType
    BY <1>6, InCall DEF ApiReleaseFind, PCs
  <2>2. QED
    BY <1>6, <2>1 DEF TypeOK, ApiReleaseFind, CallType, CallRecord
<1>7. CASE TryReserve(t)
  BY <1>1, <1>2, <1>7 DEF TryReserve, ReserveOutcome, ReserveRefused
<1>8. CASE TryRelease(t)
  BY <1>1, <1>2, <1>8 DEF TryRelease
<1>9. CASE FireHook(t)
  BY <1>1, <1>2, <1>9 DEF FireHook
<1>10. CASE StampRecord(t)
  BY <1>2, <1>10 DEF StampRecord
<1>11. QED
  BY <1>3, <1>4, <1>5, <1>6, <1>7, <1>8, <1>9, <1>10 DEF Start, Step

LEMMA PointersStep == TypeOK /\ PointersKept /\ [Next]_vars => PointersKept'
<1> SUFFICES ASSUME TypeOK, PointersKept, [Next]_vars PROVE PointersKept'
  OBVIOUS
<1>1. ASSUME NEW t \in Threads, Start(t) \/ Step(t)
      PROVE  PointersKept'
  <2>1. /\ UNCHANGED devices
        /\ \A u \in Threads \ {t} : calls'[u] = calls[u]
    BY <1>1, PointerStep
  <2>2. \/ calls'[t] = Idle
        \/ calls'[t].dev \in {NoLock, devices[calls'[t].path]}
        \/ calls[t] # Idle /\ calls'[t].path = calls[t].path /\ calls'[t].dev = calls[t].dev
    BY <1>1, PointerStep
  <2>3. calls'[t] = Idle \/ calls'[t].path \in Paths
    BY TypeStep DEF TypeOK, CallType, CallRecord
  <2>4. \A q \in Paths : calls'[t] # Idle /\ calls'[t].dev = devices[q] /\ devices[q] # NoLock
                           => q = calls'[t].path
    BY <2>2, <2>3 DEF PointersKept
  <2>5. QED
    BY <2>1, <2>4 DEF PointersKept
<1>2. ASSUME NEW p \in Paths, DropPointers(p)
      PROVE  \A t \in Threads : \/ calls'[t] = Idle
                                 \/ /\ calls[t] # Idle
                                    /\ calls'[t].path = calls[t].path
                                    /\ calls'[t].dev = calls[t].dev
  BY <1>2, CallTyped DEF DropPointers, CallType, CallRecord
<1>3. ASSUME NEW p \in Paths, RecordStored(p, "available") \/ RecordStored(p, "busy")
      PROVE  PointersKept'
  <2>1. Register(p) /\ DropPointers(p)
    BY <1>3 DEF RecordStored
  <2>2. CASE devices[p] # NoLock
    BY <1>2, <2>1, <2>2 DEF Register, PointersKept
  <2>3. CASE devices[p] = NoLock
    <3>1. PICK l \in Locks : Unused(l) /\ devices' = [devices EXCEPT ![p] = l]
      BY <2>1, <2>3 DEF Register
    <3>2. \A q \in Paths : devices[q] # l
      BY <3>1 DEF Unused
    <3>3. \A t \in Threads : calls'[t] # Idle => calls'[t].dev # l
      BY <1>2, <2>1, <3>1 DEF Unused
    <3>4. QED
      BY <1>2, <2>1, <3>1, <3>2, <3>3 DEF PointersKept, TypeOK
  <2>4. QED
    BY <2>2, <2>3
<1>4. ASSUME NEW p \in Paths, UNCHANGED devices, DropPointers(p) \/ UNCHANGED calls
      PROVE  PointersKept'
  BY <1>2, <1>4 DEF PointersKept
<1>5. ASSUME NEW p \in Paths, CleanupUnidentified(p)
      PROVE  PointersKept'
  <2>1. DropPointers(p) /\ devices' = [devices EXCEPT ![p] = NoLock]
    BY <1>5 DEF CleanupUnidentified
  <2>2. \A q \in Paths : devices'[q] # NoLock => devices'[q] = devices[q]
    BY <2>1 DEF TypeOK
  <2>3. QED
    BY <1>2, <2>1, <2>2 DEF PointersKept
<1>6. ASSUME NEW p \in Paths, Records(p)
      PROVE  PointersKept'
  BY <1>3, <1>4, <1>5, <1>6 DEF Records, Stamps, Replugged, RecordRemoved, CleanupOrphaned, FireFreed,
     GrowStale
<1>7. CASE UNCHANGED devices /\ UNCHANGED calls
  BY <1>7 DEF PointersKept
<1>8. QED
  BY <1>1, <1>6, <1>7 DEF Next, vars, CleanupStale
-----------------------------------------------------------------------------
(* What each kind of step does to the owner on record of a path.            *)

LEMMA NilOrLock == TypeOK => \A p \in Paths : devices[p] # NoLock => devices[p] \in Locks
  BY DEF TypeOK, LockOrNil

LEMMA RegisterOwner ==
  ASSUME TypeOK, NEW p \in Paths, Register(p)
  PROVE  \A q \in Paths : OwnerOf(q)' = OwnerOf(q)
  BY NilOrLock DEF Register, OwnerOf, Unused, FreeLock, TypeOK

LEMMA ForceReleaseOwner ==
  ASSUME TypeOK, PointersKept, NEW S \in SUBSET Paths, ForceRelease(S), UNCHANGED devices
  PROVE  \A q \in Paths : OwnerOf(q)' = IF q \in S THEN NoOwner ELSE OwnerOf(q)
<1> SUFFICES ASSUME NEW q \in Paths
             PROVE  OwnerOf(q)' = IF q \in S THEN NoOwner ELSE OwnerOf(q)
  OBVIOUS
<1>1. CASE devices[q] = NoLock
  BY <1>1 DEF OwnerOf
<1>2. CASE devices[q] # NoLock
  <2>1. devices[q] \in Locks
    BY <1>2, NilOrLock
  <2>2. (\E p \in S : devices[p] = devices[q]) <=> q \in S
    BY <1>2 DEF PointersKept
  <2>3. QED
    BY <1>2, <2>1, <2>2 DEF OwnerOf, ForceRelease, FreeLock
<1>3. QED
  BY <1>1, <1>2

\* DeviceLock.Reserve changes the owner on record of the call's path only, and
\* only if the pointer is the registered one; that path had no owner before.
LEMMA ReserveOwner ==
  ASSUME IInv, NEW t \in Threads, TryReserve(t), ReserveOutcome(t)
  PROVE  /\ calls[t].path \in Paths /\ calls[t].owner \in Owners /\ calls[t].dev \in Locks
         /\ devices[calls[t].path] = calls[t].dev => OwnerOf(calls[t].path) = NoOwner
         /\ \A q \in Paths :
              OwnerOf(q)' = IF q = calls[t].path /\ devices[q] = calls[t].dev
                              THEN calls[t].owner ELSE OwnerOf(q)
<1>1. /\ calls[t] # Idle /\ calls[t].path \in Paths /\ calls[t].owner \in Owners
      /\ calls[t].dev \in Locks
  BY InCall DEF IInv, TryReserve, PCs, CallType, CallRecord
<1>2. UNCHANGED devices
  BY DEF TryReserve
<1>3. \A q \in Paths : devices[q] = calls[t].dev => q = calls[t].path
  BY <1>1 DEF IInv, PointersKept
<1>4. locks[calls[t].dev].owner = NoOwner
  BY <1>1 DEF IInv, StateMatchesOwner, ReserveOutcome
<1>5. \A l \in Locks : locks'[l].owner = IF l = calls[t].dev THEN calls[t].owner ELSE locks[l].owner
  BY <1>1 DEF IInv, TypeOK, ReserveOutcome, HeldBy
<1>6. \A q \in Paths :
        OwnerOf(q)' = IF q = calls[t].path /\ devices[q] = calls[t].dev
                        THEN calls[t].owner ELSE OwnerOf(q)
  BY <1>1, <1>2, <1>3, <1>5, NilOrLock DEF IInv, OwnerOf
<1>7. QED
  BY <1>1, <1>4, <1>6 DEF OwnerOf

\* DeviceLock.Release frees at most the call's path, and only from the owner
\* the call names.
LEMMA ReleaseOwner ==
  ASSUME IInv, NEW t \in Threads, TryRelease(t)
  PROVE  \A q \in Paths :
           \/ OwnerOf(q)' = OwnerOf(q)
           \/ /\ q = calls[t].path
              /\ locks[calls[t].dev].owner = calls[t].owner
              /\ OwnerOf(q) = calls[t].owner
              /\ OwnerOf(q)' = NoOwner
<1>1. /\ calls[t] # Idle /\ calls[t].path \in Paths /\ calls[t].dev \in Locks
  BY InCall DEF IInv, TryRelease, PCs, CallType, CallRecord
<1>2. UNCHANGED devices
  BY DEF TryRelease
<1>3. \A q \in Paths : devices[q] = calls[t].dev => q = calls[t].path
  BY <1>1 DEF IInv, PointersKept
<1>4. CASE UNCHANGED locks
  BY <1>2, <1>4 DEF OwnerOf
<1>5. CASE /\ locks[calls[t].dev].owner = calls[t].owner
           /\ locks' = [locks EXCEPT ![calls[t].dev] = FreeLock]
  <2>1. \A l \in Locks : locks'[l].owner = IF l = calls[t].dev THEN NoOwner ELSE locks[l].owner
    BY <1>1, <1>5 DEF IInv, TypeOK, FreeLock
  <2>2. QED
    BY <1>1, <1>2, <1>3, <1>5, <2>1, NilOrLock DEF IInv, OwnerOf
<1>6. QED
  BY <1>4, <1>5 DEF TryRelease

LEMMA GrowStaleOwner ==
  ASSUME TypeOK, NEW p \in Paths, GrowStale(p)
  PROVE  \A q \in Paths : OwnerOf(q)' = OwnerOf(q)
  BY NilOrLock DEF TypeOK, GrowStale, OwnerOf, LockType

LEMMA UnregisterOwner ==
  ASSUME TypeOK, NEW p \in Paths, CleanupUnidentified(p)
  PROVE  \A q \in Paths : OwnerOf(q)' = IF q = p THEN NoOwner ELSE OwnerOf(q)
  BY DEF TypeOK, CleanupUnidentified, OwnerOf

\* Steps that leave the lock objects and the registry map alone.
LEMMA FrameOwner ==
  ASSUME UNCHANGED <<devices, locks>>
  PROVE  \A q \in Paths : OwnerOf(q)' = OwnerOf(q)
  BY DEF OwnerOf
-----------------------------------------------------------------------------
LEMMA GrantedPair ==
  ASSUME TypeOK, NEW g \in granted
  PROVE  g[1] \in Paths /\ g[2] \in Owners /\ g[2] # NoOwner /\ g = <<g[1], g[2]>>
  BY DEF TypeOK

\* A step that keeps the owners on record and the pairs keeps the leases.
LEMMA SameOwners ==
  ASSUME TypeOK, LeaseBacked, UNCHANGED <<granted, revoked>>,
         \A q \in Paths : OwnerOf(q)' = OwnerOf(q)
  PROVE  LeaseBacked'
  BY GrantedPair DEF LeaseBacked

\* Taking the paths of S away revokes exactly the leases it ends.
LEMMA TakenAway ==
  ASSUME TypeOK, LeaseBacked, UNCHANGED granted, NEW S \in SUBSET Paths,
         revoked' = revoked \cup (HeldIn(S) \cap granted),
         \A q \in Paths : OwnerOf(q)' = IF q \in S THEN NoOwner ELSE OwnerOf(q)
  PROVE  LeaseBacked'
<1> SUFFICES ASSUME NEW g \in granted PROVE OwnerOf(g[1])' = g[2] \/ g \in revoked'
  BY DEF LeaseBacked
<1>1. g[1] \in Paths /\ g[2] # NoOwner /\ g = <<g[1], g[2]>>
  BY GrantedPair
<1>2. CASE g \in revoked
  BY <1>2
<1>3. CASE OwnerOf(g[1]) = g[2] /\ g[1] \notin S
  BY <1>1, <1>3
<1>4. CASE OwnerOf(g[1]) = g[2] /\ g[1] \in S
  <2>1. g \in HeldIn(S)
    BY <1>1, <1>4 DEF HeldIn
  <2>2. QED
    BY <2>1
<1>5. QED
  BY <1>2, <1>3, <1>4 DEF LeaseBacked

LEMMA LeaseStep == IInv /\ [Next]_vars => LeaseBacked'
<1> SUFFICES ASSUME IInv, [Next]_vars PROVE LeaseBacked'
  OBVIOUS
<1> USE DEF IInv
<1>1. CASE UNCHANGED <<devices, locks, granted, revoked>>
  BY <1>1, FrameOwner, SameOwners
<1>2. ASSUME NEW t \in Threads, TryReserve(t)
      PROVE  LeaseBacked'
  <2>1. CASE ReserveRefused(t)
    BY <1>1, <1>2, <2>1 DEF TryReserve, ReserveRefused
  <2>2. CASE ReserveOutcome(t)
    <3> DEFINE pair == <<calls[t].path, calls[t].owner>>
    <3>1. /\ granted' = granted \cup {pair}
          /\ revoked' = IF devices[calls[t].path] = calls[t].dev
                          THEN revoked \ {pair} ELSE revoked \cup {pair}
      BY <2>2 DEF ReserveOutcome
    <3> SUFFICES ASSUME NEW g \in granted \cup {pair}
                 PROVE  OwnerOf(g[1])' = g[2] \/ g \in revoked'
      BY <3>1 DEF LeaseBacked
    <3>2. CASE g = pair
      BY <1>2, <2>2, <3>1, <3>2, ReserveOwner
    <3>3. CASE g # pair
      <4>1. /\ g \in granted /\ g[1] \in Paths /\ g[2] # NoOwner
            /\ OwnerOf(g[1]) = g[2] \/ g \in revoked
        BY <3>3, GrantedPair DEF LeaseBacked
      <4>2. QED
        BY <1>2, <2>2, <3>1, <3>3, <4>1, ReserveOwner
    <3>4. QED
      BY <3>2, <3>3
  <2>3. QED
    BY <1>2, <2>1, <2>2 DEF TryReserve
<1>3. ASSUME NEW t \in Threads, TryRelease(t)
      PROVE  LeaseBacked'
  <2> DEFINE mine == <<calls[t].path, calls[t].by>>
             match == locks[calls[t].dev].owner = calls[t].owner
             named == IF match THEN {<<calls[t].path, calls[t].owner>>} ELSE {}
  <2>1. granted' = granted \ {mine} /\ revoked' = (revoked \cup named) \cap granted'
    BY <1>3 DEF TryRelease
  <2> SUFFICES ASSUME NEW g \in granted \ {mine}
               PROVE  OwnerOf(g[1])' = g[2] \/ g \in revoked'
    BY <2>1 DEF LeaseBacked
  <2>2. g \in granted' /\ g[1] \in Paths /\ g = <<g[1], g[2]>>
    BY <2>1, GrantedPair
  <2>3. CASE g \in revoked
    BY <2>1, <2>2, <2>3
  <2>4. CASE OwnerOf(g[1]) = g[2] /\ OwnerOf(g[1])' = OwnerOf(g[1])
    BY <2>4
  <2>5. CASE OwnerOf(g[1]) = g[2] /\ OwnerOf(g[1])' # OwnerOf(g[1])
    <3>1. g[1] = calls[t].path /\ g[2] = calls[t].owner /\ match
      BY <1>3, <2>2, <2>5, ReleaseOwner
    <3>2. g \in named
      BY <2>2, <3>1
    <3>3. QED
      BY <2>1, <2>2, <3>2
  <2>6. QED
    BY <2>3, <2>4, <2>5 DEF LeaseBacked
<1>4. ASSUME NEW p \in Paths, Records(p)
      PROVE  LeaseBacked'
  <2>1. CASE \E s \in Stamps : RecordStored(p, s)
    BY <2>1, RegisterOwner, SameOwners DEF RecordStored
  <2>2. CASE Replugged(p) \/ CleanupOrphaned(p)
    <3>1. ForceRelease({p}) /\ UNCHANGED <<devices, granted>>
      BY <2>2 DEF Replugged, CleanupOrphaned
    <3>2. \A q \in Paths : OwnerOf(q)' = IF q \in {p} THEN NoOwner ELSE OwnerOf(q)
      BY <3>1, ForceReleaseOwner
    <3>3. QED
      BY <3>1, <3>2, TakenAway DEF ForceRelease
  <2>3. CASE CleanupUnidentified(p)
    <3>1. \A q \in Paths : OwnerOf(q)' = IF q \in {p} THEN NoOwner ELSE OwnerOf(q)
      BY <2>3, UnregisterOwner
    <3>2. QED
      BY <2>3, <3>1, TakenAway DEF CleanupUnidentified
  <2>4. CASE GrowStale(p)
    BY <2>4, GrowStaleOwner, SameOwners DEF GrowStale
  <2>5. CASE RecordRemoved(p) \/ FireFreed(p)
    BY <1>1, <2>5 DEF RecordRemoved, FireFreed
  <2>6. QED
    BY <1>4, <2>1, <2>2, <2>3, <2>4, <2>5 DEF Records
<1>5. CASE CleanupStale
  <2> DEFINE S == {p \in Paths : StaleReserved(p)}
  <2>1. ForceRelease(S) /\ UNCHANGED <<devices, granted>>
    BY <1>5 DEF CleanupStale
  <2> HIDE DEF S
  <2>2. S \in SUBSET Paths
    BY DEF S
  <2>3. \A q \in Paths : OwnerOf(q)' = IF q \in S THEN NoOwner ELSE OwnerOf(q)
    BY <2>1, <2>2, ForceReleaseOwner
  <2>4. QED
    BY <2>1, <2>2, <2>3, TakenAway DEF ForceRelease
<1>6. ASSUME NEW t \in Threads, Start(t) \/ Step(t)
      PROVE  LeaseBacked'
  BY <1>1, <1>2, <1>3, <1>6 DEF Start, Step, Lookup, ApiReleaseLookup, ApiReleaseCheck,
     ApiReleaseFind, FireHook, StampRecord
<1>7. QED
  BY <1>1, <1>4, <1>5, <1>6 DEF Next, vars

LEMMA IInvStep == IInv /\ [Next]_vars => IInv'
  BY TypeStep, StateStep, PointersStep, LeaseStep DEF IInv

LEMMA Inductive == Spec => []IInv
  BY InitIInv, IInvStep, PTL DEF Spec

\* The registry's variables keep their types: in particular no call reaches a
\* lock object through a nil pointer (the "exists" checks of Reserve and
\* Release).
THEOREM RegistryTypeOK == Spec => []TypeOK
  BY Inductive, PTL DEF IInv

\* DeviceLock.state and DeviceLock.owner never disagree.
THEOREM RegistryStateMatchesOwner == Spec => []StateMatchesOwner
  BY Inductive, PTL DEF IInv

\* A granted, unrevoked owner is the owner on record.
THEOREM RegistryLeaseBacked == Spec => []LeaseBacked
  BY Inductive, PTL DEF IInv

-----------------------------------------------------------------------------
(* DeviceRegistry implements DeviceLease.                                   *)

\* Every step leaves the owners on record alone, ends some leases, or grants
\* one lease that nobody held.
LEMMA OwnersStep ==
  ASSUME IInv, [Next]_vars
  PROVE  \/ \A q \in Paths : OwnerOf(q)' = OwnerOf(q)
         \/ \E S \in SUBSET Paths : \A q \in Paths :
              OwnerOf(q)' = IF q \in S THEN NoOwner ELSE OwnerOf(q)
         \/ \E p \in Paths, o \in Owners :
              /\ OwnerOf(p) = NoOwner
              /\ \A q \in Paths : OwnerOf(q)' = IF q = p THEN o ELSE OwnerOf(q)
<1> DEFINE Same == \A q \in Paths : OwnerOf(q)' = OwnerOf(q)
           Ended == \E S \in SUBSET Paths : \A q \in Paths :
                      OwnerOf(q)' = IF q \in S THEN NoOwner ELSE OwnerOf(q)
           Granted == \E p \in Paths, o \in Owners :
                        /\ OwnerOf(p) = NoOwner
                        /\ \A q \in Paths : OwnerOf(q)' = IF q = p THEN o ELSE OwnerOf(q)
<1> SUFFICES Same \/ Ended \/ Granted
  OBVIOUS
<1> HIDE DEF Same, Ended, Granted
<1>1. CASE UNCHANGED <<devices, locks>>
  BY <1>1, FrameOwner DEF Same
<1>2. ASSUME NEW S \in SUBSET Paths, ForceRelease(S), UNCHANGED devices
      PROVE  Ended
  BY <1>2, ForceReleaseOwner DEF Ended, IInv
<1>3. ASSUME NEW t \in Threads, TryReserve(t)
      PROVE  Same \/ Granted
  <2>1. CASE ReserveRefused(t)
    BY <1>1, <1>3, <2>1, FrameOwner DEF TryReserve, ReserveRefused, Same
  <2>2. CASE ReserveOutcome(t)
    BY <1>3, <2>2, ReserveOwner DEF Same, Granted
  <2>3. QED
    BY <1>3, <2>1, <2>2 DEF TryReserve
<1>4. ASSUME NEW t \in Threads, TryRelease(t)
      PROVE  Same \/ Ended
  <2> DEFINE path == calls[t].path
  <2>1. CASE \A q \in Paths : OwnerOf(q)' = OwnerOf(q)
    BY <2>1 DEF Same
  <2>2. CASE \E q \in Paths : OwnerOf(q)' # OwnerOf(q)
    <3>1. \A q \in Paths : OwnerOf(q)' = IF q \in {p \in Paths : p = path} THEN NoOwner ELSE OwnerOf(q)
      BY <1>4, <2>2, ReleaseOwner
    <3>2. QED
      BY <3>1 DEF Ended
  <2>3. QED
    BY <2>1, <2>2
<1>5. ASSUME NEW p \in Paths, Records(p)
      PROVE  Same \/ Ended
  <2>1. CASE \E s \in Stamps : RecordStored(p, s)
    BY <2>1, RegisterOwner DEF RecordStored, Same, IInv
  <2>2. CASE Replugged(p) \/ CleanupOrphaned(p)
    BY <1>2, <2>2 DEF Replugged, CleanupOrphaned
  <2>3. CASE CleanupUnidentified(p)
    <3>1. \A q \in Paths : OwnerOf(q)' = IF q \in {p} THEN NoOwner ELSE OwnerOf(q)
      BY <2>3, UnregisterOwner DEF IInv
    <3>2. QED
      BY <3>1 DEF Ended
  <2>4. CASE GrowStale(p)
    BY <2>4, GrowStaleOwner DEF Same, IInv
  <2>5. CASE RecordRemoved(p) \/ FireFreed(p)
    BY <1>1, <2>5, FrameOwner DEF RecordRemoved, FireFreed, Same
  <2>6. QED
    BY <1>5, <2>1, <2>2, <2>3, <2>4, <2>5 DEF Records
<1>6. CASE CleanupStale
  <2> DEFINE S == {p \in Paths : StaleReserved(p)}
  <2>1. S \in SUBSET Paths /\ ForceRelease(S) /\ UNCHANGED devices
    BY <1>6 DEF CleanupStale
  <2> HIDE DEF S
  <2>2. QED
    BY <1>2, <2>1
<1>7. ASSUME NEW t \in Threads, Start(t) \/ Step(t)
      PROVE  Same \/ Ended \/ Granted
  BY <1>1, <1>3, <1>4, <1>7, FrameOwner DEF Start, Step, Lookup, ApiReleaseLookup,
     ApiReleaseCheck, ApiReleaseFind, FireHook, StampRecord, Same
<1>8. QED
  BY <1>1, <1>5, <1>6, <1>7 DEF Next, vars

LEMMA LeaseNext == IInv /\ [Next]_vars => [Lease!Next]_([p \in Paths |-> OwnerOf(p)])
<1> SUFFICES ASSUME IInv, [Next]_vars
             PROVE  Lease!Next \/ UNCHANGED [p \in Paths |-> OwnerOf(p)]
  OBVIOUS
<1>1. CASE \A q \in Paths : OwnerOf(q)' = OwnerOf(q)
  BY <1>1
<1>2. ASSUME NEW S \in SUBSET Paths,
             \A q \in Paths : OwnerOf(q)' = IF q \in S THEN NoOwner ELSE OwnerOf(q)
      PROVE  Lease!Next
  BY <1>2 DEF Lease!Next, Lease!End
<1>3. ASSUME NEW p \in Paths, NEW o \in Owners, OwnerOf(p) = NoOwner,
             \A q \in Paths : OwnerOf(q)' = IF q = p THEN o ELSE OwnerOf(q)
      PROVE  Lease!Next
  BY <1>3 DEF Lease!Next, Lease!Grant
<1>4. QED
  BY <1>1, <1>2, <1>3, OwnersStep

\* The owners on record behave like the abstract lease: whatever the calls,
\* hooks, device events and cleanups interleave to, a board is granted only
\* while nobody has it, and every other change of owner frees it.
THEOREM RegistryImplementsLease == Spec => LeaseSpec
<1>1. Init => Lease!Init
  BY DEF Init, Lease!Init, OwnerOf
<1>2. QED
  BY <1>1, LeaseNext, Inductive, PTL DEF Spec, LeaseSpec, Lease!Spec

\* A board never goes straight from one owner to another: between two owners
\* it is free, so a new owner was always granted an available lock.
THEOREM RegistryNoHandover == Spec => NoHandover
<1>1. IInv /\ [Next]_vars => \A p \in Paths : ~ Lease!Handover(p)
  BY OwnersStep DEF Lease!Handover
<1>2. QED
  BY <1>1, Inductive, PTL DEF Spec, NoHandover, Lease!NoHandover
-----------------------------------------------------------------------------
(***************************************************************************)
(* Records.                                                                *)
(***************************************************************************)
\* A mapping of espbrew.toml for a port, or none.
Mapped == [Ports -> Mapping \cup {NoCfg}]
Memory == [Ports -> Device \cup {NoDev}]
Pending == [id : Ids, rec : Record, of : {"probe", "update"}, fresh : BOOLEAN]
-----------------------------------------------------------------------------
(* The store.                                                               *)

LEMMA Constants ==
  /\ NBoards \in Nat /\ NNames \in Nat /\ MaxRequests \in Nat
  /\ NoPort \notin Ports /\ Mappings \subseteq Mapping
BY CatalogAssumption DEF CatalogAssumption

\* The ids of boards are ids, and none is not.
LEMMA IdsFacts == Boards \subseteq Ids /\ None \notin Ids /\ None \notin Boards
BY Constants DEF Ids, Boards, None

\* A record has more fields than the absent one.
LEMMA RecordIsStored == ASSUME NEW r \in Record PROVE r # NoRec
<1>1. DOMAIN r = {"mac", "path", "aliases", "marks", "own"}
  BY DEF Record
<1>2. DOMAIN NoRec = {"mac", "path"}
  BY DEF NoRec
<1>3. "own" \in DOMAIN r /\ "own" \notin DOMAIN NoRec
  BY <1>1, <1>2
<1> QED BY <1>3

LEMMA FreshIsRecord == Fresh \in Record
BY DEF Fresh, Record

LEMMA StoredIsRecord ==
  ASSUME NEW st \in Store, NEW i \in Ids, st.rec[i] # NoRec PROVE st.rec[i] \in Record
BY DEF Store

\* What a save leaves, whether it is refused or not.
LEMMA SaveType ==
  ASSUME NEW st \in Store, NEW i \in Ids, NEW r \in Record
  PROVE  SaveDevice(st, i, r) \in Store
<1> DEFINE old  == st.rec[i]
           macs == [m \in Boards |-> IF old # NoRec /\ old.mac = m /\ r.mac # m THEN None ELSE st.macs[m]]
           rec2 == [st.rec EXCEPT ![i] = r]
           macs2 == [m \in Boards |-> IF r.mac = m THEN i ELSE macs[m]]
           als2 == [a \in Aliases |-> IF a \in r.aliases THEN i
                                      ELSE IF old # NoRec /\ a \in old.aliases THEN None
                                      ELSE st.aliases[a]]
<1>1. macs \in [Boards -> Ids \cup {None}]
  BY DEF Store
<1>2. macs2 \in [Boards -> Ids \cup {None}]
  BY <1>1
<1>3. als2 \in [Aliases -> Ids \cup {None}]
  BY DEF Store
<1>4. rec2 \in [Ids -> Record \cup {NoRec}]
  BY DEF Store
<1>5. [rec |-> rec2, macs |-> macs2, aliases |-> als2] \in Store
  <2> HIDE DEF rec2, macs2, als2
  <2> QED BY <1>2, <1>3, <1>4 DEF Store
<1> QED BY <1>5 DEF SaveDevice

LEMMA DeleteType ==
  ASSUME NEW st \in Store, NEW i \in Ids
  PROVE  DeleteRecord(st, i) \in Store
<1> DEFINE rec2 == [st.rec EXCEPT ![i] = NoRec]
           macs2 == [m \in Boards |-> IF st.rec[i].mac = m THEN None ELSE st.macs[m]]
           als2 == [a \in Aliases |-> IF a \in st.rec[i].aliases THEN None ELSE st.aliases[a]]
<1>1. macs2 \in [Boards -> Ids \cup {None}]
  BY DEF Store
<1>2. als2 \in [Aliases -> Ids \cup {None}]
  BY DEF Store
<1>3. rec2 \in [Ids -> Record \cup {NoRec}]
  BY DEF Store
<1>4. [rec |-> rec2, macs |-> macs2, aliases |-> als2] \in Store
  <2> HIDE DEF rec2, macs2, als2
  <2> QED BY <1>1, <1>2, <1>3 DEF Store
<1> QED BY <1>4 DEF DeleteRecord

LEMMA MarkedRecord ==
  ASSUME NEW r \in Record, NEW mark \in Marks, NEW on \in BOOLEAN
  PROVE  /\ Marked(r, mark, on) \in Record
         /\ Marked(r, mark, on).mac = r.mac /\ Marked(r, mark, on).aliases = r.aliases
BY DEF Record, Marked

LEMMA MarkedDevice ==
  ASSUME NEW d \in Device, NEW mark \in Marks, NEW on \in BOOLEAN
  PROVE  Marked(d, mark, on) \in Device
BY DEF Device, Marked

LEMMA SetMarkType ==
  ASSUME NEW st \in Store, NEW i \in Ids, st.rec[i] # NoRec, NEW mark \in Marks, NEW on \in BOOLEAN
  PROVE  SetMark(st, i, mark, on) \in Store
<1>1. Marked(st.rec[i], mark, on) \in Record
  BY StoredIsRecord, MarkedRecord
<1> DEFINE rec2 == [st.rec EXCEPT ![i] = Marked(st.rec[i], mark, on)]
<1>2. rec2 \in [Ids -> Record \cup {NoRec}]
  BY <1>1 DEF Store
<1>3. [rec |-> rec2, macs |-> st.macs, aliases |-> st.aliases] \in Store
  <2> HIDE DEF rec2
  <2> QED BY <1>2 DEF Store
<1> QED BY <1>3 DEF SetMark
-----------------------------------------------------------------------------
(* The indices.                                                             *)

\* IndexSound of a store and the hidden pairs of a record and an alias.
Sound(st, sh) ==
  /\ \A m \in Boards : st.macs[m] # None => st.rec[st.macs[m]] # NoRec /\ st.rec[st.macs[m]].mac = m
  /\ \A a \in Aliases : st.aliases[a] # None =>
       st.rec[st.aliases[a]] # NoRec /\ a \in st.rec[st.aliases[a]].aliases
  /\ \A i \in Ids : st.rec[i] # NoRec =>
       /\ st.rec[i].mac # None => st.macs[st.rec[i].mac] = i
       /\ \A a \in st.rec[i].aliases : <<i, a>> \in sh \/ st.aliases[a] = i

LEMMA SoundIsIndexSound == IndexSound <=> Sound(store, hidden)
BY DEF IndexSound, Sound, Stored

\* A save keeps the indices sound: a record it takes a MAC from cannot exist, and
\* of an alias it takes or drops, the other records that have it are hidden.
LEMMA SaveSound ==
  ASSUME NEW st \in Store, NEW sh, NEW sh2, NEW i \in Ids, NEW r \in Record,
         Sound(st, sh), SaveDevice(st, i, r) # st,
         \A j \in Ids \ {i} : st.rec[j] # NoRec => \A a \in st.rec[j].aliases :
           <<j, a>> \in sh \/ a \in r.aliases \/ (st.rec[i] # NoRec /\ a \in st.rec[i].aliases) => <<j, a>> \in sh2
  PROVE  Sound(SaveDevice(st, i, r), sh2)
<1> DEFINE old  == st.rec[i]
           macs == [m \in Boards |-> IF old # NoRec /\ old.mac = m /\ r.mac # m THEN None ELSE st.macs[m]]
           rec2 == [st.rec EXCEPT ![i] = r]
           macs2 == [m \in Boards |-> IF r.mac = m THEN i ELSE macs[m]]
           als2 == [a \in Aliases |-> IF a \in r.aliases THEN i
                                      ELSE IF old # NoRec /\ a \in old.aliases THEN None
                                      ELSE st.aliases[a]]
<1>1. CASE r.mac # None /\ macs[r.mac] \notin {None, i}
  <2>1. SaveDevice(st, i, r) = st
    BY <1>1 DEF SaveDevice
  <2> QED BY <2>1
<1>2. CASE ~ (r.mac # None /\ macs[r.mac] \notin {None, i})
  <2>1. SaveDevice(st, i, r) = [rec |-> rec2, macs |-> macs2, aliases |-> als2]
    BY <1>2 DEF SaveDevice
  <2>2. r # NoRec /\ r.aliases \subseteq Aliases /\ r.mac \in Boards \cup {None}
    BY RecordIsStored DEF Record
  <2>3. /\ \A j \in Ids : rec2[j] = IF j = i THEN r ELSE st.rec[j]
        /\ \A m \in Boards : st.macs[m] \in Ids \cup {None}
        /\ \A a \in Aliases : st.aliases[a] \in Ids \cup {None}
    BY DEF Store
  <2>4. \A j \in Ids : st.rec[j] # NoRec =>
          st.rec[j].mac \in Boards \cup {None} /\ st.rec[j].aliases \subseteq Aliases
    BY StoredIsRecord DEF Record
  <2>5. \A m \in Boards : macs[m] = IF old # NoRec /\ old.mac = m /\ r.mac # m THEN None ELSE st.macs[m]
    OBVIOUS
  <2>6. \A m \in Boards : macs2[m] = IF r.mac = m THEN i ELSE macs[m]
    OBVIOUS
  <2>7. \A a \in Aliases : als2[a] = IF a \in r.aliases THEN i
                                     ELSE IF old # NoRec /\ a \in old.aliases THEN None
                                     ELSE st.aliases[a]
    OBVIOUS
  <2> HIDE DEF rec2, macs2, als2, macs
  <2>8. \A m \in Boards : macs2[m] # None => rec2[macs2[m]] # NoRec /\ rec2[macs2[m]].mac = m
    <3> SUFFICES ASSUME NEW m \in Boards, macs2[m] # None
                 PROVE  rec2[macs2[m]] # NoRec /\ rec2[macs2[m]].mac = m
      OBVIOUS
    <3>1. CASE r.mac = m
      BY <3>1, <2>2, <2>3, <2>6
    <3>2. CASE r.mac # m
      <4>1. macs2[m] = st.macs[m] /\ st.macs[m] \in Ids /\ st.macs[m] # i
        BY <3>2, <2>3, <2>5, <2>6 DEF Sound
      <4> QED BY <4>1, <2>3 DEF Sound
    <3> QED BY <3>1, <3>2
  <2>9. \A a \in Aliases : als2[a] # None => rec2[als2[a]] # NoRec /\ a \in rec2[als2[a]].aliases
    <3> SUFFICES ASSUME NEW a \in Aliases, als2[a] # None
                 PROVE  rec2[als2[a]] # NoRec /\ a \in rec2[als2[a]].aliases
      OBVIOUS
    <3>1. CASE a \in r.aliases
      BY <3>1, <2>2, <2>3, <2>7
    <3>2. CASE a \notin r.aliases
      <4>1. als2[a] = st.aliases[a] /\ st.aliases[a] \in Ids /\ st.aliases[a] # i
        BY <3>2, <2>3, <2>7 DEF Sound
      <4> QED BY <4>1, <2>3 DEF Sound
    <3> QED BY <3>1, <3>2
  <2>10. \A j \in Ids : rec2[j] # NoRec /\ rec2[j].mac # None => macs2[rec2[j].mac] = j
    <3> SUFFICES ASSUME NEW j \in Ids, rec2[j] # NoRec, rec2[j].mac # None
                 PROVE  macs2[rec2[j].mac] = j
      OBVIOUS
    <3>1. CASE j = i
      BY <3>1, <2>2, <2>3, <2>6
    <3>2. CASE j # i
      <4>1. rec2[j] = st.rec[j] /\ st.rec[j].mac \in Boards /\ st.macs[st.rec[j].mac] = j
        BY <3>2, <2>3, <2>4 DEF Sound
      <4>2. ~ (old # NoRec /\ old.mac = st.rec[j].mac)
        BY <3>2, <4>1 DEF Sound
      <4>3. macs[st.rec[j].mac] = j
        BY <4>1, <4>2, <2>5
      <4>4. r.mac # st.rec[j].mac
        BY <1>2, <3>2, <4>1, <4>3, IdsFacts
      <4> QED BY <4>1, <4>3, <4>4, <2>6
    <3> QED BY <3>1, <3>2
  <2>11. \A j \in Ids : rec2[j] # NoRec => \A a \in rec2[j].aliases : <<j, a>> \in sh2 \/ als2[a] = j
    <3> SUFFICES ASSUME NEW j \in Ids, rec2[j] # NoRec, NEW a \in rec2[j].aliases, <<j, a>> \notin sh2
                 PROVE  als2[a] = j
      OBVIOUS
    <3>1. CASE j = i
      BY <3>1, <2>2, <2>3, <2>7
    <3>2. CASE j # i
      <4>1. rec2[j] = st.rec[j] /\ a \in Aliases /\ j \in Ids \ {i}
        BY <3>2, <2>3, <2>4
      <4>2. <<j, a>> \notin sh /\ a \notin r.aliases /\ ~ (old # NoRec /\ a \in old.aliases)
        BY <4>1
      <4>3. st.aliases[a] = j
        BY <4>1, <4>2 DEF Sound
      <4> QED BY <4>1, <4>2, <4>3, <2>7
    <3> QED BY <3>1, <3>2
  <2> QED BY <2>1, <2>8, <2>9, <2>10, <2>11 DEF Sound
<1> QED BY <1>1, <1>2

LEMMA DeleteSound ==
  ASSUME NEW st \in Store, NEW sh, NEW sh2, NEW i \in Ids, st.rec[i] # NoRec, Sound(st, sh),
         \A j \in Ids \ {i} : st.rec[j] # NoRec => \A a \in st.rec[j].aliases :
           <<j, a>> \in sh \/ a \in st.rec[i].aliases => <<j, a>> \in sh2
  PROVE  Sound(DeleteRecord(st, i), sh2)
<1> DEFINE rec2 == [st.rec EXCEPT ![i] = NoRec]
           macs2 == [m \in Boards |-> IF st.rec[i].mac = m THEN None ELSE st.macs[m]]
           als2 == [a \in Aliases |-> IF a \in st.rec[i].aliases THEN None ELSE st.aliases[a]]
<1>1. DeleteRecord(st, i) = [rec |-> rec2, macs |-> macs2, aliases |-> als2]
  BY DEF DeleteRecord
<1>2. /\ \A j \in Ids : rec2[j] = IF j = i THEN NoRec ELSE st.rec[j]
      /\ \A m \in Boards : st.macs[m] \in Ids \cup {None}
      /\ \A a \in Aliases : st.aliases[a] \in Ids \cup {None}
  BY DEF Store
<1>3. \A j \in Ids : st.rec[j] # NoRec =>
        st.rec[j].mac \in Boards \cup {None} /\ st.rec[j].aliases \subseteq Aliases
  BY StoredIsRecord DEF Record
<1>4. \A m \in Boards : macs2[m] = IF st.rec[i].mac = m THEN None ELSE st.macs[m]
  OBVIOUS
<1>5. \A a \in Aliases : als2[a] = IF a \in st.rec[i].aliases THEN None ELSE st.aliases[a]
  OBVIOUS
<1> HIDE DEF rec2, macs2, als2
<1>6. \A m \in Boards : macs2[m] # None => rec2[macs2[m]] # NoRec /\ rec2[macs2[m]].mac = m
  BY <1>2, <1>4 DEF Sound
<1>7. \A a \in Aliases : als2[a] # None => rec2[als2[a]] # NoRec /\ a \in rec2[als2[a]].aliases
  BY <1>2, <1>5 DEF Sound
<1>8. \A j \in Ids : rec2[j] # NoRec /\ rec2[j].mac # None => macs2[rec2[j].mac] = j
  BY <1>2, <1>3, <1>4 DEF Sound
<1>9. \A j \in Ids : rec2[j] # NoRec => \A a \in rec2[j].aliases : <<j, a>> \in sh2 \/ als2[a] = j
  <2> SUFFICES ASSUME NEW j \in Ids, rec2[j] # NoRec, NEW a \in rec2[j].aliases, <<j, a>> \notin sh2
               PROVE  als2[a] = j
    OBVIOUS
  <2>1. j \in Ids \ {i} /\ rec2[j] = st.rec[j] /\ a \in Aliases
    BY <1>2, <1>3
  <2>2. <<j, a>> \notin sh /\ a \notin st.rec[i].aliases
    BY <2>1
  <2>3. st.aliases[a] = j
    BY <2>1, <2>2 DEF Sound
  <2> QED BY <2>1, <2>2, <2>3, <1>5
<1> QED BY <1>1, <1>6, <1>7, <1>8, <1>9 DEF Sound

LEMMA SetMarkSound ==
  ASSUME NEW st \in Store, NEW sh, NEW i \in Ids, st.rec[i] # NoRec, NEW mark \in Marks,
         NEW on \in BOOLEAN, Sound(st, sh)
  PROVE  Sound(SetMark(st, i, mark, on), sh)
<1> DEFINE r == Marked(st.rec[i], mark, on)
           rec2 == [st.rec EXCEPT ![i] = r]
<1>1. SetMark(st, i, mark, on) = [rec |-> rec2, macs |-> st.macs, aliases |-> st.aliases]
  BY DEF SetMark
<1>2. r # NoRec /\ r.mac = st.rec[i].mac /\ r.aliases = st.rec[i].aliases
  BY StoredIsRecord, MarkedRecord, RecordIsStored
<1>3. /\ \A j \in Ids : rec2[j] = IF j = i THEN r ELSE st.rec[j]
      /\ \A m \in Boards : st.macs[m] \in Ids \cup {None}
      /\ \A a \in Aliases : st.aliases[a] \in Ids \cup {None}
  <2> HIDE DEF r
  <2> QED BY DEF Store
<1>4. \A j \in Ids : /\ rec2[j] # NoRec <=> st.rec[j] # NoRec
                     /\ rec2[j] # NoRec => rec2[j].mac = st.rec[j].mac /\ rec2[j].aliases = st.rec[j].aliases
  <2> HIDE DEF r, rec2
  <2> QED BY <1>2, <1>3
<1> HIDE DEF rec2, r
<1>5. \A m \in Boards : st.macs[m] # None => rec2[st.macs[m]] # NoRec /\ rec2[st.macs[m]].mac = m
  BY <1>3, <1>4 DEF Sound
<1>6. \A a \in Aliases : st.aliases[a] # None =>
        rec2[st.aliases[a]] # NoRec /\ a \in rec2[st.aliases[a]].aliases
  BY <1>3, <1>4 DEF Sound
<1>7. \A j \in Ids : rec2[j] # NoRec =>
        /\ rec2[j].mac # None => st.macs[rec2[j].mac] = j
        /\ \A a \in rec2[j].aliases : <<j, a>> \in sh \/ st.aliases[a] = j
  BY <1>4 DEF Sound
<1> QED BY <1>1, <1>5, <1>6, <1>7 DEF Sound
-----------------------------------------------------------------------------
(* The steps.                                                               *)

StoreOK == store \in Store /\ hidden \subseteq Ids \X Aliases /\ IndexSound

LeaderOK ==
  /\ next \in 0..NNames
  /\ mem \in Memory /\ cfg \in Mapped /\ file \in Mapped
  /\ at \in [Ports -> Boards \cup {None}]
  /\ seen \subseteq Ports /\ loaded \in BOOLEAN
  /\ pend \in {NoRequest} \cup Pending
  /\ shielded \subseteq Boards

LEMMA Parts == CatTypeOK /\ IndexSound <=> StoreOK /\ LeaderOK /\ requests \in 0..MaxRequests
BY DEF CatTypeOK, StoreOK, LeaderOK, Mapped, Memory, Pending

LEMMA StoreRests ==
  ASSUME StoreOK, UNCHANGED <<store, hidden>> PROVE StoreOK'
BY DEF StoreOK, IndexSound, Stored

LEMMA SaveStep ==
  ASSUME StoreOK, NEW i \in Ids, NEW r \in Record, Save(i, r)
  PROVE  StoreOK'
<1>1. store' = SaveDevice(store, i, r)
  BY DEF Save
<1>2. CASE SaveDevice(store, i, r) = store
  BY <1>2, StoreRests DEF Save
<1>3. CASE SaveDevice(store, i, r) # store
  <2>1. hidden' = {e \in hidden \cup Hides(i, r.aliases \cup AliasesOf(i)) : e[1] # i}
    BY <1>3 DEF Save
  <2>2. store' \in Store
    BY <1>1, SaveType DEF StoreOK
  <2>3. hidden' \subseteq Ids \X Aliases
    BY <2>1 DEF Hides, StoreOK
  <2>4. ASSUME NEW j \in Ids \ {i}, store.rec[j] # NoRec, NEW a \in store.rec[j].aliases,
               <<j, a>> \in hidden \/ a \in r.aliases \/ (store.rec[i] # NoRec /\ a \in store.rec[i].aliases)
        PROVE  <<j, a>> \in hidden'
    <3>1. <<j, a>> \in Ids \X Aliases
      BY <2>4, StoredIsRecord DEF StoreOK, Record
    <3>2. <<j, a>>[1] = j /\ <<j, a>>[2] = a
      OBVIOUS
    <3>3. <<j, a>> \in hidden \/ <<j, a>> \in Hides(i, r.aliases \cup AliasesOf(i))
      BY <2>4, <3>1, <3>2 DEF Hides, AliasesOf, Stored
    <3> QED BY <2>1, <3>2, <3>3
  <2>5. Sound(store', hidden')
    BY <1>1, <1>3, <2>4, SaveSound, SoundIsIndexSound DEF StoreOK
  <2>6. IndexSound'
    BY <2>5 DEF IndexSound, Sound, Stored
  <2> QED BY <2>2, <2>3, <2>6 DEF StoreOK
<1> QED BY <1>2, <1>3

LEMMA DeleteStep ==
  ASSUME StoreOK, NEW i \in Ids, store' = IF Stored(i) THEN DeleteRecord(store, i) ELSE store,
         hidden' = {e \in hidden \cup Hides(i, AliasesOf(i)) : e[1] # i}
  PROVE  StoreOK'
<1>1. hidden' \subseteq Ids \X Aliases
  BY DEF Hides, StoreOK
<1>2. ASSUME NEW j \in Ids \ {i}, store.rec[j] # NoRec, NEW a \in store.rec[j].aliases,
             <<j, a>> \in hidden \/ (store.rec[i] # NoRec /\ a \in store.rec[i].aliases)
      PROVE  <<j, a>> \in hidden'
  <2>1. <<j, a>> \in Ids \X Aliases
    BY <1>2, StoredIsRecord DEF StoreOK, Record
  <2>2. <<j, a>>[1] = j /\ <<j, a>>[2] = a
    OBVIOUS
  <2>3. <<j, a>> \in hidden \/ <<j, a>> \in Hides(i, AliasesOf(i))
    BY <1>2, <2>1, <2>2 DEF Hides, AliasesOf, Stored
  <2> QED BY <2>2, <2>3
<1>3. CASE Stored(i)
  <2>1. store' = DeleteRecord(store, i) /\ store' \in Store
    BY <1>3, DeleteType DEF StoreOK
  <2>2. Sound(store', hidden')
    BY <1>2, <1>3, <2>1, DeleteSound, SoundIsIndexSound DEF StoreOK, Stored
  <2>3. IndexSound'
    BY <2>2 DEF IndexSound, Sound, Stored
  <2> QED BY <1>1, <2>1, <2>3 DEF StoreOK
<1>4. CASE ~ Stored(i)
  <2>1. store' = store
    BY <1>4
  <2>2. \A j \in Ids : Stored(j) => \A a \in store.rec[j].aliases : <<j, a>> \in hidden => <<j, a>> \in hidden'
    BY <1>2, <1>4 DEF Stored
  <2> QED BY <1>1, <2>1, <2>2 DEF StoreOK, IndexSound, Stored
<1> QED BY <1>3, <1>4

LEMMA MarkStep ==
  ASSUME StoreOK, NEW i \in Ids, Stored(i), NEW mark \in Marks, NEW on \in BOOLEAN,
         store' = SetMark(store, i, mark, on), UNCHANGED hidden
  PROVE  StoreOK'
<1>1. store' \in Store
  BY SetMarkType DEF StoreOK, Stored
<1>2. Sound(store', hidden)
  BY SetMarkSound, SoundIsIndexSound DEF StoreOK, Stored
<1>3. IndexSound'
  BY <1>2 DEF IndexSound, Sound, Stored
<1> QED BY <1>1, <1>3 DEF StoreOK

LEMMA MarkMemory ==
  ASSUME LeaderOK, NEW i \in Ids, NEW mark \in Marks, NEW on \in BOOLEAN, MarkInMemory(i, mark, on)
  PROVE  mem' \in Memory
<1>1. CASE UNCHANGED mem
  BY <1>1 DEF LeaderOK
<1>2. ASSUME NEW p \in Ports, mem[p] # NoDev, mem' = [mem EXCEPT ![p] = Marked(mem[p], mark, on)]
      PROVE  mem' \in Memory
  <2>1. mem[p] \in Device
    BY <1>2 DEF LeaderOK, Memory
  <2>2. Marked(mem[p], mark, on) \in Device
    BY <2>1, MarkedDevice
  <2> QED BY <1>2, <2>2 DEF LeaderOK, Memory
<1> QED BY <1>1, <1>2 DEF MarkInMemory

LEMMA InitOK == CatInit => CatTypeOK /\ IndexSound
<1> SUFFICES ASSUME CatInit PROVE CatTypeOK /\ IndexSound
  OBVIOUS
<1>1. store \in Store
  BY DEF CatInit, Store
<1>2. IndexSound
  BY DEF CatInit, IndexSound, Stored
<1>3. cfg \in Mapped
  BY Constants DEF CatInit, Mapped
<1>4. next \in 0..NNames /\ requests \in 0..MaxRequests
  BY Constants DEF CatInit
<1> QED BY <1>1, <1>2, <1>3, <1>4 DEF CatInit, CatTypeOK, Mapped

LEMMA PlugStep ==
  ASSUME StoreOK, LeaderOK, NEW p \in Ports, NEW b \in Boards, Plug(b, p) PROVE StoreOK' /\ LeaderOK'
<1>1. StoreOK'
  BY StoreRests DEF Plug
<1>2. at' \in [Ports -> Boards \cup {None}]
  BY DEF Plug, LeaderOK
<1> QED BY <1>1, <1>2 DEF Plug, LeaderOK, leaderVars

LEMMA UnplugStep ==
  ASSUME StoreOK, LeaderOK, NEW p \in Ports, Unplug(p) PROVE StoreOK' /\ LeaderOK'
<1>1. StoreOK'
  BY StoreRests DEF Unplug
<1>2. at' \in [Ports -> Boards \cup {None}] /\ mem' \in Memory
  BY DEF Unplug, LeaderOK, Memory
<1> QED BY <1>1, <1>2 DEF Unplug, LeaderOK

LEMMA SeededIsDevice ==
  ASSUME StoreOK, LeaderOK, NEW p \in Ports, NEW i \in Ids \cup {None}, i \in ByPath(p)
  PROVE  Seeded(p, i) \in Device
<1> DEFINE old == IF mem[p] = NoDev THEN [id |-> None, mac |-> None, marks |-> {}] ELSE mem[p]
<1>1. old \in Device
  BY DEF LeaderOK, Memory, Device
<1>2. i # None => store.rec[i] \in Record
  BY IdsFacts, StoredIsRecord DEF ByPath, AtPath, Stored, StoreOK
<1>3. at[p] \in Boards \cup {None}
  BY DEF LeaderOK
<1>4. CASE i = None
  <2>1. Seeded(p, i) = [id |-> old.id, mac |-> IF old.mac = None THEN at[p] ELSE old.mac, marks |-> old.marks]
    BY <1>4 DEF Seeded
  <2> HIDE DEF old
  <2> QED BY <2>1, <1>1, <1>3 DEF Device
<1>5. CASE i # None
  <2>1. Seeded(p, i) = [id |-> IF old.id = None THEN i ELSE old.id,
                        mac |-> IF old.mac = None THEN store.rec[i].mac ELSE old.mac,
                        marks |-> (old.marks \ {"disabled"}) \cup (store.rec[i].marks \cap {"disabled"})]
    BY <1>5 DEF Seeded
  <2>2. store.rec[i].mac \in Boards \cup {None} /\ store.rec[i].marks \subseteq Marks
    BY <1>2, <1>5 DEF Record
  <2> HIDE DEF old
  <2>3. /\ (IF old.id = None THEN i ELSE old.id) \in Ids \cup {None}
        /\ (IF old.mac = None THEN store.rec[i].mac ELSE old.mac) \in Boards \cup {None}
        /\ (old.marks \ {"disabled"}) \cup (store.rec[i].marks \cap {"disabled"}) \subseteq Marks
    BY <1>1, <2>2 DEF Device
  <2> QED BY <2>1, <2>3 DEF Device
<1> QED BY <1>4, <1>5

LEMMA AddedStep ==
  ASSUME StoreOK, LeaderOK, NEW p \in Ports, NEW i \in Ids \cup {None}, DeviceAdded(p, i)
  PROVE  StoreOK' /\ LeaderOK'
<1> DEFINE r == IF i = None THEN Fresh ELSE store.rec[i]
           c == cfg[p]
<1>1. i \in ByPath(p)
  BY DEF DeviceAdded
<1>2. r \in Record
  BY <1>1, FreshIsRecord, StoredIsRecord DEF ByPath, AtPath, Stored, StoreOK
<1>3. Seeded(p, i) \in Device
  BY <1>1, SeededIsDevice
<1>4. c # NoCfg => c \in Mapping
  BY DEF LeaderOK, Mapped
<1>5. seen' \subseteq Ports /\ UNCHANGED <<next, cfg, file, at, loaded, pend, shielded>>
  BY DEF DeviceAdded, LeaderOK
<1>6. CASE UNCHANGED <<store, mem, hidden>>
  BY <1>5, <1>6, StoreRests DEF LeaderOK
<1>7. CASE /\ c # NoCfg
           /\ mem' = [mem EXCEPT ![p] = [id |-> c.id, mac |-> Seeded(p, i).mac, marks |-> Seeded(p, i).marks]]
           /\ Save(c.id, [r EXCEPT !.path = p, !.own = TRUE, !.aliases = @ \cup c.aliases])
  <2>1. c.id \in Ids /\ c.aliases \subseteq Aliases
    BY <1>4, <1>7 DEF Mapping
  <2>2. [id |-> c.id, mac |-> Seeded(p, i).mac, marks |-> Seeded(p, i).marks] \in Device
    BY <1>3, <2>1 DEF Device
  <2>3. mem' \in Memory
    BY <1>7, <2>2 DEF LeaderOK, Memory
  <2>4. [r EXCEPT !.path = p, !.own = TRUE, !.aliases = @ \cup c.aliases] \in Record
    <3> HIDE DEF r, c
    <3> QED BY <1>2, <2>1 DEF Record
  <2>5. StoreOK'
    BY <1>7, <2>1, <2>4, SaveStep
  <2> QED BY <1>5, <2>3, <2>5 DEF LeaderOK
<1>8. CASE /\ mem' = [mem EXCEPT ![p] = Seeded(p, i)]
           /\ IF i = None THEN UNCHANGED <<store, hidden>>
                          ELSE Save(i, [r EXCEPT !.path = p, !.own = TRUE])
  <2>1. mem' \in Memory
    BY <1>8, <1>3 DEF LeaderOK, Memory
  <2>2. [r EXCEPT !.path = p, !.own = TRUE] \in Record
    <3> HIDE DEF r
    <3> QED BY <1>2 DEF Record
  <2>3. StoreOK'
    BY <1>8, <2>2, SaveStep, StoreRests
  <2> QED BY <1>5, <2>1, <2>3 DEF LeaderOK
<1> QED BY <1>6, <1>7, <1>8 DEF DeviceAdded

LEMMA RestartStep ==
  ASSUME StoreOK, LeaderOK, Restart PROVE StoreOK' /\ LeaderOK'
<1>1. StoreOK'
  BY StoreRests DEF Restart
<1> QED BY <1>1 DEF Restart, LeaderOK, Memory

LEMMA LoadStep ==
  ASSUME StoreOK, LeaderOK, LoadPersistedDevices PROVE StoreOK' /\ LeaderOK'
<1> DEFINE own(p) == {i \in AtPath(p) : store.rec[i].own}
<1>1. StoreOK'
  BY StoreRests DEF LoadPersistedDevices
<1>2. PICK last \in [Ports -> Ids] :
        /\ \A p \in Ports : own(p) # {} => last[p] \in own(p) /\ \A j \in own(p) : j <= last[p]
        /\ mem' = [p \in Ports |->
             IF own(p) = {} THEN mem[p]
             ELSE [id |-> last[p], mac |-> store.rec[last[p]].mac, marks |-> store.rec[last[p]].marks]]
  BY DEF LoadPersistedDevices
<1>3. ASSUME NEW p \in Ports, own(p) # {}
      PROVE  [id |-> last[p], mac |-> store.rec[last[p]].mac, marks |-> store.rec[last[p]].marks] \in Device
  <2>1. last[p] \in Ids /\ store.rec[last[p]] \in Record
    BY <1>2, <1>3, StoredIsRecord DEF AtPath, Stored, StoreOK
  <2> QED BY <2>1 DEF Record, Device
<1>4. mem' \in Memory
  <2> HIDE DEF own
  <2> QED BY <1>2, <1>3 DEF LeaderOK, Memory
<1> QED BY <1>1, <1>4 DEF LoadPersistedDevices, LeaderOK

LEMMA ProbeStep ==
  ASSUME StoreOK, LeaderOK, NEW p \in Ports, ProbeDevice(p) PROVE StoreOK' /\ LeaderOK'
<1> DEFINE b == at[p]
           r == IF Stored(b) THEN store.rec[b] ELSE Fresh
<1>1. StoreOK'
  BY StoreRests DEF ProbeDevice
<1>2. b \in Boards /\ b \in Ids
  BY IdsFacts DEF ProbeDevice, LeaderOK
<1>3. r \in Record
  BY <1>2, FreshIsRecord, StoredIsRecord DEF Stored, StoreOK
<1>4. [r EXCEPT !.mac = b, !.path = p, !.own = TRUE] \in Record
  <2> HIDE DEF r, b
  <2> QED BY <1>2, <1>3 DEF Record
<1>5. [id |-> b, rec |-> [r EXCEPT !.mac = b, !.path = p, !.own = TRUE], of |-> "probe", fresh |-> FALSE] \in Pending
  <2> HIDE DEF r, b
  <2> QED BY <1>2, <1>4 DEF Pending
<1>6. (IF mem[p] = NoDev THEN {} ELSE mem[p].marks) \subseteq Marks
  BY DEF LeaderOK, Memory, Device
<1>7. mem' \in Memory
  BY <1>2, <1>6 DEF ProbeDevice, LeaderOK, Memory, Device
<1> QED BY <1>1, <1>5, <1>7 DEF ProbeDevice, LeaderOK

LEMMA UpdateStep ==
  ASSUME StoreOK, LeaderOK, NEW r \in Record, NEW i \in Ids \cup {None}, NEW aliases \in SUBSET Aliases,
         NEW mac \in Boards \cup {None}, UpdateDevice(r, i, aliases, mac)
  PROVE  StoreOK' /\ LeaderOK'
<1> DEFINE m  == IF mac = None THEN r.mac ELSE mac
           id == IF i # None THEN i ELSE IF m # None THEN m ELSE NBoards + next + 1
<1>1. StoreOK'
  BY StoreRests DEF UpdateDevice
<1>2. m \in Boards \cup {None} /\ id \in Ids
  BY DEF UpdateDevice, Record
<1>3. next' \in 0..NNames
  BY Constants, IdsFacts DEF UpdateDevice, LeaderOK, Ids
<1>4. [r EXCEPT !.aliases = aliases, !.mac = m] \in Record
  <2> HIDE DEF m
  <2> QED BY <1>2 DEF Record
<1>5. pend' \in Pending
  <2>1. pend' = [id |-> id, rec |-> [r EXCEPT !.aliases = aliases, !.mac = m],
                 of |-> "update", fresh |-> i = None]
    BY DEF UpdateDevice
  <2> HIDE DEF m, id
  <2> QED BY <2>1, <1>2, <1>4 DEF Pending
<1> QED BY <1>1, <1>3, <1>5 DEF UpdateDevice, LeaderOK

LEMMA UpdateRecordStep ==
  ASSUME StoreOK, LeaderOK, NEW i \in Ids, NEW aliases \in SUBSET Aliases,
         NEW mac \in Boards \cup {None}, UpdateRecord(i, aliases, mac)
  PROVE  StoreOK' /\ LeaderOK'
<1>1. store.rec[i] \in Record
  BY StoredIsRecord DEF UpdateRecord, Stored, StoreOK
<1> QED BY <1>1, UpdateStep DEF UpdateRecord

LEMMA UpdateByPathStep ==
  ASSUME StoreOK, LeaderOK, NEW p \in Ports, NEW aliases \in SUBSET Aliases,
         NEW mac \in Boards \cup {None}, UpdateByPath(p, aliases, mac)
  PROVE  StoreOK' /\ LeaderOK'
<1>1. mem[p] \in Device
  BY DEF UpdateByPath, LeaderOK, Memory
<1>2. [Fresh EXCEPT !.mac = mem[p].mac, !.path = p] \in Record /\ mem[p].id \in Ids \cup {None}
  BY <1>1 DEF Fresh, Record, Device
<1> QED BY <1>2, UpdateStep DEF UpdateByPath

LEMMA IdentifiedIsDevice ==
  ASSUME NEW d \in Device, NEW i \in Ids, NEW mac \in Boards \cup {None}
  PROVE  Identified(d, i, mac) \in Device
BY DEF Identified, Device

LEMMA SaveRequestStep ==
  ASSUME StoreOK, LeaderOK, SaveRequest PROVE StoreOK' /\ LeaderOK'
<1> DEFINE i == pend.id
           r == pend.rec
           saved == SaveDevice(store, i, r) # store \/ store.rec[i] = r
           stamps == pend.of = "update" /\ saved /\ r.path # NoPort /\ SameDevice(mem[r.path], i, r, pend.fresh)
<1>1. i \in Ids /\ r \in Record
  BY DEF SaveRequest, LeaderOK, Pending
<1>2. [r EXCEPT !.own = TRUE] \in Record
  <2> HIDE DEF r
  <2> QED BY <1>1 DEF Record
<1>3. Save(i, IF stamps THEN [r EXCEPT !.own = TRUE] ELSE r)
  BY DEF SaveRequest
<1>4. mem' = IF stamps THEN [mem EXCEPT ![r.path] = Identified(mem[r.path], i, r.mac)] ELSE mem
  BY DEF SaveRequest
<1>5. StoreOK'
  <2>1. CASE stamps
    <3>1. Save(i, [r EXCEPT !.own = TRUE])
      BY <2>1, <1>3
    <3> QED BY <3>1, <1>1, <1>2, SaveStep
  <2>2. CASE ~ stamps
    <3>1. Save(i, r)
      BY <2>2, <1>3
    <3> QED BY <3>1, <1>1, SaveStep
  <2> QED BY <2>1, <2>2
<1>6. mem' \in Memory
  <2>1. CASE stamps
    <3>1. r.path \in Ports /\ r.mac \in Boards \cup {None}
      BY <2>1, <1>1 DEF Record
    <3>2. mem[r.path] \in Device
      BY <2>1, <3>1 DEF SameDevice, LeaderOK, Memory
    <3>3. Identified(mem[r.path], i, r.mac) \in Device
      BY <1>1, <3>1, <3>2, IdentifiedIsDevice
    <3> QED BY <2>1, <1>4, <3>1, <3>3 DEF LeaderOK, Memory
  <2>2. CASE ~ stamps
    BY <2>2, <1>4 DEF LeaderOK
  <2> QED BY <2>1, <2>2
<1> QED BY <1>5, <1>6 DEF SaveRequest, LeaderOK

LEMMA AddRecordStep ==
  ASSUME StoreOK, LeaderOK, NEW p \in Ports \cup {NoPort}, NEW mac \in Boards \cup {None},
         NEW aliases \in SUBSET Aliases, AddRecord(p, mac, aliases)
  PROVE  StoreOK' /\ LeaderOK'
<1> DEFINE i == IF mac # None THEN mac ELSE NBoards + next + 1
           known == p # NoPort /\ mem[p] # NoDev
           r == [mac |-> mac, path |-> p, aliases |-> aliases, marks |-> {}, own |-> known]
           saved == SaveDevice(store, i, r) # store
<1>1. i \in Ids /\ r \in Record
  BY DEF AddRecord, Record
<1>2. StoreOK'
  <2>1. Save(i, r)
    BY DEF AddRecord
  <2> QED BY <2>1, <1>1, SaveStep
<1>3. next' \in 0..NNames
  BY Constants, IdsFacts DEF AddRecord, LeaderOK, Ids
<1>4. mem' = IF known /\ saved THEN [mem EXCEPT ![p] = Identified(mem[p], i, mac)] ELSE mem
  BY DEF AddRecord
<1>5. mem' \in Memory
  <2>1. CASE known
    <3>1. p \in Ports /\ mem[p] \in Device
      BY <2>1 DEF LeaderOK, Memory
    <3>2. Identified(mem[p], i, mac) \in Device
      BY <1>1, <3>1, IdentifiedIsDevice
    <3> HIDE DEF saved
    <3> QED BY <1>4, <3>1, <3>2 DEF LeaderOK, Memory
  <2>2. CASE ~ known
    BY <2>2, <1>4 DEF LeaderOK
  <2> QED BY <2>1, <2>2
<1> QED BY <1>2, <1>3, <1>5 DEF AddRecord, LeaderOK

LEMMA DeleteDeviceStep ==
  ASSUME StoreOK, LeaderOK, NEW i \in Ids, DeleteDevice(i) PROVE StoreOK' /\ LeaderOK'
<1>1. StoreOK'
  BY DeleteStep DEF DeleteDevice
<1>2. mem' \in Memory
  BY DEF DeleteDevice, LeaderOK, Memory
<1> QED BY <1>1, <1>2 DEF DeleteDevice, LeaderOK

LEMMA ForgetStep ==
  ASSUME StoreOK, LeaderOK, NEW p \in Ports, ForgetDevice(p) PROVE StoreOK' /\ LeaderOK'
<1>1. StoreOK'
  BY StoreRests DEF ForgetDevice
<1>2. mem' \in Memory
  BY DEF ForgetDevice, LeaderOK, Memory
<1> QED BY <1>1, <1>2 DEF ForgetDevice, LeaderOK

LEMMA MarksStep ==
  ASSUME StoreOK, LeaderOK, NEW p \in Ports, NEW i \in Ids, NEW mark \in Marks, Mark(p, i, mark)
  PROVE  StoreOK' /\ LeaderOK'
<1>1. StoreOK'
  BY MarkStep DEF Mark
<1>2. mem' \in Memory
  BY MarkMemory DEF Mark
<1>3. shielded' \subseteq Boards
  BY DEF Mark, LeaderOK
<1> QED BY <1>1, <1>2, <1>3 DEF Mark, LeaderOK

LEMMA UnmarkStep ==
  ASSUME StoreOK, LeaderOK, NEW i \in Ids, NEW mark \in Marks, Unmark(i, mark)
  PROVE  StoreOK' /\ LeaderOK'
<1>1. StoreOK'
  BY MarkStep DEF Unmark
<1>2. mem' \in Memory
  BY MarkMemory DEF Unmark
<1>3. shielded' \subseteq Boards
  BY DEF Unmark, LeaderOK
<1> QED BY <1>1, <1>2, <1>3 DEF Unmark, LeaderOK

LEMMA StampedIsDevice ==
  ASSUME LeaderOK, NEW p \in Ports
  PROVE  Stamped(p) \in Device \cup {NoDev}
<1>1. CASE mem[p] = NoDev \/ cfg[p] = NoCfg
  BY <1>1 DEF Stamped, LeaderOK, Memory
<1>2. CASE mem[p] # NoDev /\ cfg[p] # NoCfg
  <2>1. mem[p] \in Device /\ cfg[p].id \in Ids
    BY <1>2 DEF LeaderOK, Memory, Mapped, Mapping
  <2>2. Stamped(p) = [mem[p] EXCEPT !.id = cfg[p].id]
    BY <1>2 DEF Stamped
  <2> QED BY <2>1, <2>2 DEF Device
<1> QED BY <1>1, <1>2

LEMMA MappingStep ==
  ASSUME StoreOK, LeaderOK, NEW p \in Ports, NEW found \in SUBSET Ports,
         (\E c \in Mappings : AddDevice(p, c)) \/ RemoveDevice(p) \/ DiscoverAndSave(found, p)
  PROVE  StoreOK' /\ LeaderOK'
<1>1. StoreOK'
  BY StoreRests DEF AddDevice, RemoveDevice, DiscoverAndSave
<1>2. UNCHANGED <<next, cfg, seen, loaded, pend, at, shielded>>
  BY DEF AddDevice, RemoveDevice, DiscoverAndSave, leaderVars
<1>3. ASSUME NEW c \in Mapping \cup {NoCfg}, file' = [cfg EXCEPT ![p] = c] PROVE file' \in Mapped
  BY <1>3 DEF LeaderOK, Mapped
<1>4. ASSUME DiscoverAndSave(found, p) PROVE [id |-> at[p], aliases |-> {}, disabled |-> FALSE] \in Mapping
  <2>1. at[p] \in Ids
    BY <1>4, IdsFacts DEF DiscoverAndSave, Answering, LeaderOK
  <2> QED BY <2>1 DEF Mapping
<1>5. file' \in Mapped
  BY <1>3, <1>4, Constants DEF AddDevice, RemoveDevice, DiscoverAndSave
<1>6. mem' \in Memory
  BY StampedIsDevice DEF AddDevice, RemoveDevice, DiscoverAndSave, leaderVars, LeaderOK, Memory
<1> QED BY <1>1, <1>2, <1>5, <1>6 DEF LeaderOK

LEMMA NextOK == CatTypeOK /\ IndexSound /\ [CatNext]_catVars => (CatTypeOK /\ IndexSound)'
<1> SUFFICES ASSUME CatTypeOK, IndexSound, [CatNext]_catVars PROVE (CatTypeOK /\ IndexSound)'
  OBVIOUS
<1>1. StoreOK /\ LeaderOK /\ requests \in 0..MaxRequests
  BY Parts
<1>2. SUFFICES StoreOK' /\ LeaderOK' /\ requests' \in 0..MaxRequests
  BY DEF CatTypeOK, StoreOK, LeaderOK, Mapped, Memory, Pending
<1>3. requests' \in 0..MaxRequests
  BY <1>1, Constants DEF CatNext, catVars
<1>4. CASE World
  BY <1>1, <1>3, <1>4, PlugStep, UnplugStep, AddedStep, RestartStep, LoadStep, SaveRequestStep DEF World
<1>5. CASE Request
  BY <1>1, <1>3, <1>5, ProbeStep, UpdateRecordStep, UpdateByPathStep, AddRecordStep, DeleteDeviceStep,
     ForgetStep, MarksStep, UnmarkStep, MappingStep DEF Request
<1>6. CASE UNCHANGED catVars
  <2>1. StoreOK'
    BY <1>1, <1>6, StoreRests DEF catVars
  <2> QED BY <1>1, <1>3, <1>6, <2>1 DEF catVars, leaderVars, LeaderOK
<1> QED BY <1>4, <1>5, <1>6 DEF CatNext
-----------------------------------------------------------------------------
\* CatSpec => []CatTypeOK, for any number of boards, ids, ports and aliases.
THEOREM CatalogTypeCorrect == CatSpec => []CatTypeOK
<1>1. CatSpec => [](CatTypeOK /\ IndexSound)
  BY InitOK, NextOK, PTL DEF CatSpec
<1> QED BY <1>1, PTL

\* CatSpec => []IndexSound: no order of events, requests and restarts makes a
\* lookup by MAC or alias return a record without it, gives a MAC to two records or
\* loses a record by its MAC; by an alias it is lost only when another record with
\* the alias is saved, drops it or is deleted after it was last saved itself.
THEOREM IndicesAgree == CatSpec => []IndexSound
<1>1. CatSpec => [](CatTypeOK /\ IndexSound)
  BY InitOK, NextOK, PTL DEF CatSpec
<1> QED BY <1>1, PTL
-----------------------------------------------------------------------------
(* The leader's two parts together.                                         *)

\* All that a leader knows of its boards keeps its types, whichever part moves.
THEOREM LeaderTypes == MCSpec => []LeaderTypeOK
<1> DEFINE Inv == TypeOK /\ CatTypeOK /\ IndexSound
<1>1. MCInit => Inv
  BY InitIInv, InitOK DEF MCInit, IInv
<1>2. Inv /\ [MCNext]_<<part, registryVars, catVars>> => Inv'
  <2> SUFFICES ASSUME Inv, [MCNext]_<<part, registryVars, catVars>> PROVE Inv'
    OBVIOUS
  <2>1. [Next]_vars
    BY DEF MCNext, vars, registryVars
  <2>2. [CatNext]_catVars
    BY DEF MCNext
  <2>3. QED
    BY <2>1, <2>2, TypeStep, NextOK
<1>3. Inv => LeaderTypeOK
  BY DEF LeaderTypeOK
<1>4. QED
  BY <1>1, <1>2, <1>3, PTL DEF MCSpec
=============================================================================
