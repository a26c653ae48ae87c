---------------------------- MODULE ViewerProofs ----------------------------
(***************************************************************************)
(* Proofs about what a person follows over the network: the Wokwi session *)
(* of a browser and the progress of a flash job.                           *)
(***************************************************************************)
EXTENDS WokwiSession, FlashProgress, FiniteSetTheorems, SequenceTheorems, TLAPS

\* A viewer has a simulation as long as one of its goroutines runs.
Attached(v) == viewers[v].pc \notin {"idle", "over"} \/ viewers[v].reader # "off"
ViewersSound == \A v \in Viewers : Attached(v) => viewers[v].sim \in Sims

\* Unless two jobs have been starting one at the same time: one job starts a
\* simulation, nothing is handed out meanwhile, and a simulation that runs is the
\* one that is handed out or the one that a job is about to store.
Stored(s) == entry = s \/ \E j \in WokJobs : getters[j].pc = "storing" /\ getters[j].sim = s
OneStarter ==
  /\ \A j, k \in WokJobs : Starting(j) /\ Starting(k) => j = k
  /\ (\E j \in WokJobs : Starting(j)) => entry = NoSim
  /\ \A s \in Sims : Running(s) => Stored(s)

WokInv == WokTypeOK /\ ViewersSound /\ (~ overlap => OneStarter)

LEMMA Names == NoSim \notin Sims /\ OutCap \in Nat /\ OutCap > 0
  BY WokwiAssumption DEF WokwiAssumption

SetSim(s, t) == t \in SimType /\ sims' = [sims EXCEPT ![s] = t]

\* One simulation changes.
LEMMA SimSet ==
  ASSUME WokTypeOK, NEW s \in Sims, NEW t, SetSim(s, t)
  PROVE  /\ sims' \in [Sims -> SimType] /\ sims'[s] = t
         /\ \A r \in Sims : r # s => sims'[r] = sims[r]
  BY DEF WokTypeOK, SetSim

LEMMA WokInitInv == WokInit => WokInv
<1> SUFFICES ASSUME WokInit PROVE WokInv
  OBVIOUS
<1>1. WokTypeOK
  <2>1. [stage |-> "new", firmware |-> NoSim, link |-> "none", out |-> 0, serial |-> "off"] \in SimType
    BY Names DEF SimType
  <2>2. [pc |-> "idle", reader |-> "off", sim |-> NoSim] \in ViewerType
    BY DEF ViewerType
  <2>3. QED
    BY <2>1, <2>2 DEF WokInit, WokTypeOK
<1>2. ViewersSound /\ OneStarter
  BY DEF WokInit, ViewersSound, Attached, OneStarter, Starting, Running
<1>3. QED
  BY <1>1, <1>2 DEF WokInv
-----------------------------------------------------------------------------
(* The jobs.                                                                *)

LEMMA JobGot == ASSUME WokInv, NEW j \in WokJobs, JobGets(j) PROVE WokInv'
<1> USE DEF WokInv
<1>1. getters[j].pc = "idle" /\ UNCHANGED <<viewers, panicked>>
  BY DEF JobGets
<1>2. CASE /\ HandsOut(entry)
           /\ getters' = [getters EXCEPT ![j] = [pc |-> "ok", sim |-> entry]]
           /\ UNCHANGED <<sims, entry, overlap>>
  <2>1. \A k \in WokJobs : /\ Starting(k)' <=> Starting(k)
                           /\ getters[k].pc = "storing" => getters'[k] = getters[k]
    BY <1>1, <1>2 DEF WokTypeOK, Starting
  <2>2. WokTypeOK'
    BY <1>1, <1>2 DEF WokTypeOK
  <2>3. ViewersSound' /\ (~ overlap' => OneStarter')
    BY <1>1, <1>2, <2>1 DEF ViewersSound, Attached, OneStarter, Running, Stored
  <2>4. QED
    BY <2>2, <2>3
<1>3. ASSUME ~ HandsOut(entry), NEW s \in Sims, sims[s].stage = "new",
             sims' = [sims EXCEPT ![s].stage = "connect", ![s].firmware = j],
             getters' = [getters EXCEPT ![j] = [pc |-> "starting", sim |-> s]],
             entry' = NoSim, overlap' = (overlap \/ \E k \in WokJobs \ {j} : Starting(k))
      PROVE  WokInv'
  <2>1. sims' \in [Sims -> SimType] /\ \A r \in Sims : Running(r)' => Running(r)
    <3> DEFINE t == [sims[s] EXCEPT !.stage = "connect", !.firmware = j]
    <3>1. t \in SimType /\ t.stage = "connect"
      <4>1. sims[s] \in SimType
        BY DEF WokTypeOK
      <4>2. QED
        BY <4>1 DEF SimType
    <3>2. SetSim(s, t)
      BY <1>3, <3>1 DEF SetSim, WokTypeOK, SimType
    <3> HIDE DEF t
    <3>3. sims' \in [Sims -> SimType] /\ sims'[s] = t /\ \A r \in Sims : r # s => sims'[r] = sims[r]
      BY <3>2, SimSet
    <3>4. QED
      BY <3>1, <3>3 DEF Running
  <2>2. WokTypeOK'
    BY <1>1, <1>3, <2>1 DEF WokTypeOK
  <2>3. ViewersSound'
    BY <1>1 DEF ViewersSound, Attached
  <2>4. ASSUME ~ overlap' PROVE OneStarter'
    <3>1. ~ overlap /\ \A k \in WokJobs : k # j => ~ Starting(k)
      BY <1>3, <2>4 DEF WokTypeOK
    <3>2. \A k \in WokJobs : k # j => getters'[k] = getters[k]
      BY <1>3 DEF WokTypeOK
    <3>3. \A k \in WokJobs : Starting(k)' => k = j
      BY <3>1, <3>2 DEF Starting
    <3>4. \A k \in WokJobs : ~ Starting(k)
      BY <1>1, <3>1 DEF Starting
    <3>5. \A r \in Sims : ~ Running(r)
      BY <1>3, <3>1, <3>4 DEF OneStarter, Stored, Starting, HandsOut
    <3>6. QED
      BY <1>3, <2>1, <3>3, <3>5 DEF OneStarter
  <2>5. QED
    BY <2>2, <2>3, <2>4
<1>4. QED
  BY <1>1, <1>2, <1>3 DEF JobGets

LEMMA JobStored == ASSUME WokInv, NEW j \in WokJobs, JobStores(j) PROVE WokInv'
<1> USE DEF WokInv
<1>1. /\ getters[j].pc = "storing" /\ entry' = getters[j].sim
      /\ getters' = [getters EXCEPT ![j].pc = "ok"]
      /\ UNCHANGED <<sims, viewers, panicked, overlap>>
  BY DEF JobStores
<1>2. WokTypeOK'
  BY <1>1 DEF WokTypeOK
<1>3. ViewersSound'
  BY <1>1 DEF ViewersSound, Attached
<1>4. ASSUME ~ overlap' PROVE OneStarter'
  <2>1. OneStarter
    BY <1>1, <1>4
  <2>2. \A k \in WokJobs : k # j => ~ Starting(k)
    BY <1>1, <2>1 DEF OneStarter, Starting
  <2>3. \A k \in WokJobs : ~ Starting(k)'
    BY <1>1, <2>2 DEF Starting, WokTypeOK
  <2>4. \A s \in Sims : Running(s) => getters[j].sim = s
    BY <1>1, <2>1, <2>2, Names DEF OneStarter, Stored, Starting
  <2>5. QED
    BY <1>1, <2>3, <2>4 DEF OneStarter, Running, Stored
<1>5. QED
  BY <1>2, <1>3, <1>4

\* A job takes its simulation one stage further, or gives up.
LEMMA Started == ASSUME WokInv, NEW j \in WokJobs, NEW s \in Sims, StartStep(j, s) PROVE WokInv'
<1> USE DEF WokInv
<1>1. /\ getters[j].pc = "starting" /\ getters[j].sim = s /\ UNCHANGED <<entry, viewers, panicked, overlap>>
      /\ sims[s] \in SimType /\ getters[j] \in [pc : {"idle", "starting", "storing", "ok", "failed"}, sim : Sims \cup {NoSim}]
  BY DEF StartStep, StartedBy, Connected, Uploaded, Booted, StartFails, WokTypeOK
<1> DEFINE same == [getters EXCEPT ![j].pc = "starting"]
<1>0. getters = same
  <2>1. getters \in [WokJobs -> [pc : {"idle", "starting", "storing", "ok", "failed"}, sim : Sims \cup {NoSim}]]
    BY DEF WokTypeOK
  <2>2. same \in [WokJobs -> [pc : {"idle", "starting", "storing", "ok", "failed"}, sim : Sims \cup {NoSim}]]
    BY <2>1
  <2>3. \A k \in WokJobs : same[k] = getters[k]
    BY <1>1, <2>1
  <2>4. QED
    BY <2>1, <2>2, <2>3
<1>2. PICK t \in SimType, pc \in {"starting", "storing", "failed"} :
        /\ SetSim(s, t) /\ getters' = [getters EXCEPT ![j].pc = pc]
        /\ t.stage = "running" => sims[s].stage = "running" \/ pc = "storing"
  <2>1. CASE Connected(j, s)
    <3> DEFINE t == [sims[s] EXCEPT !.stage = "upload", !.link = "open"]
    <3>1. t \in SimType /\ t.stage = "upload"
      BY <1>1 DEF SimType
    <3>2. SetSim(s, t)
      BY <1>1, <2>1, <3>1 DEF SetSim, Connected, WokTypeOK, SimType
    <3>3. getters' = same
      BY <1>0, <2>1 DEF Connected
    <3>4. QED
      BY <3>1, <3>2, <3>3
  <2>2. CASE Uploaded(j, s)
    <3> DEFINE t == [sims[s] EXCEPT !.stage = "boot"]
    <3>1. t \in SimType /\ t.stage = "boot"
      BY <1>1 DEF SimType
    <3>2. SetSim(s, t)
      BY <1>1, <2>2, <3>1 DEF SetSim, Uploaded, WokTypeOK, SimType
    <3>3. getters' = same
      BY <1>0, <2>2 DEF Uploaded
    <3>4. QED
      BY <3>1, <3>2, <3>3
  <2>3. CASE Booted(j, s)
    <3> DEFINE t == [sims[s] EXCEPT !.stage = "running",
                                    !.serial = IF sims[s].link = "open" THEN "waiting" ELSE "over"]
    <3>1. t \in SimType
      BY <1>1 DEF SimType
    <3>2. SetSim(s, t) /\ getters' = [getters EXCEPT ![j].pc = "storing"]
      BY <2>3, <3>1 DEF SetSim, Booted, WokTypeOK, SimType
    <3>3. QED
      BY <3>1, <3>2
  <2>4. CASE StartFails(j, s)
    <3> DEFINE t == [sims[s] EXCEPT !.stage = "stopped", !.link = "none"]
    <3>1. t \in SimType /\ t.stage = "stopped"
      BY <1>1 DEF SimType
    <3>2. SetSim(s, t) /\ getters' = [getters EXCEPT ![j].pc = "failed"]
      BY <2>4, <3>1 DEF SetSim, StartFails, WokTypeOK, SimType
    <3>3. QED
      BY <3>1, <3>2
  <2>5. QED
    BY <2>1, <2>2, <2>3, <2>4 DEF StartStep
<1>3. /\ sims' \in [Sims -> SimType] /\ sims'[s] = t
      /\ \A r \in Sims : r # s => sims'[r] = sims[r]
  BY <1>2, SimSet
<1>4. /\ \A k \in WokJobs : k # j => getters'[k] = getters[k]
      /\ getters'[j].pc = pc /\ getters'[j].sim = s
  BY <1>1, <1>2 DEF WokTypeOK
<1>5. WokTypeOK'
  BY <1>1, <1>2, <1>3 DEF WokTypeOK
<1>6. ViewersSound'
  BY <1>1 DEF ViewersSound, Attached
<1>7. ASSUME ~ overlap' PROVE OneStarter'
  <2>1. OneStarter /\ Starting(j)
    BY <1>1, <1>7 DEF Starting
  <2>2. \A k \in WokJobs : Starting(k)' => Starting(k)
    BY <1>4, <2>1 DEF Starting
  <2>3. \A k \in WokJobs : k # j => ~ Starting(k)
    BY <2>1 DEF OneStarter
  <2>4. \A r \in Sims : ~ Running(r)
    BY <1>1, <2>1, <2>3, Names DEF OneStarter, Stored, Starting
  <2>5. \A r \in Sims : Running(r)' => r = s /\ pc = "storing"
    BY <1>2, <1>3, <2>4, Names DEF Running
  <2>6. QED
    BY <1>1, <1>4, <2>1, <2>2, <2>5 DEF OneStarter, Stored
<1>8. QED
  BY <1>5, <1>6, <1>7
-----------------------------------------------------------------------------
(* Simulations and viewers: a simulation that does not run does not start   *)
(* to run.                                                                  *)

LEMMA SimRuns ==
  ASSUME WokInv, NEW s \in Sims, NEW t \in SimType, SetSim(s, t), t.stage = "running" => sims[s].stage = "running",
         UNCHANGED <<entry, getters, overlap>>, panicked' \in BOOLEAN,
         viewers' \in [Viewers -> ViewerType],
         ViewersSound'
  PROVE  WokInv'
<1>1. /\ sims' \in [Sims -> SimType] /\ sims'[s] = t
      /\ \A r \in Sims : r # s => sims'[r] = sims[r]
  BY SimSet DEF WokInv
<1>2. \A r \in Sims : Running(r)' => Running(r)
  BY <1>1 DEF Running
<1>3. WokTypeOK'
  BY <1>1 DEF WokInv, WokTypeOK
<1>4. ~ overlap' => OneStarter'
  BY <1>2 DEF WokInv, OneStarter, Stored, Starting
<1>5. QED
  BY <1>3, <1>4 DEF WokInv

LEMMA SimMoves ==
  ASSUME WokInv, NEW s \in Sims,
         LinkLost(s) \/ SerialData(s) \/ SerialSend(s) \/ SerialStops(s) \/ TimesOut(s)
  PROVE  WokInv'
<1>1. sims[s] \in SimType /\ UNCHANGED <<entry, getters, overlap, viewers>> /\ panicked' \in BOOLEAN
  BY DEF WokInv, WokTypeOK, LinkLost, SerialData, SerialSend, SerialStops, TimesOut
<1>2. PICK t \in SimType : SetSim(s, t) /\ (t.stage = "running" => sims[s].stage = "running")
  <2>1. CASE LinkLost(s)
    <3> DEFINE t == [sims[s] EXCEPT !.link = "lost", !.serial = IF @ = "waiting" THEN "over" ELSE @]
    <3>1. t \in SimType /\ t.stage = sims[s].stage
      BY <1>1 DEF SimType
    <3>2. SetSim(s, t)
      BY <2>1, <3>1 DEF SetSim, LinkLost, WokInv, WokTypeOK, SimType
    <3>3. QED
      BY <3>1, <3>2
  <2>2. CASE SerialData(s)
    <3> DEFINE t == [sims[s] EXCEPT !.serial = "sending"]
    <3>1. t \in SimType /\ t.stage = sims[s].stage
      BY <1>1 DEF SimType
    <3>2. SetSim(s, t)
      BY <2>2, <3>1 DEF SetSim, SerialData, WokInv, WokTypeOK, SimType
    <3>3. QED
      BY <3>1, <3>2
  <2>3. CASE SerialSend(s)
    <3> DEFINE t == [sims[s] EXCEPT !.out = @ + 1,
                                    !.serial = IF sims[s].link = "open" THEN "waiting" ELSE "over"]
    <3>1. sims[s].out + 1 \in 0..OutCap
      BY <1>1, <2>3, Names DEF SerialSend, SimType
    <3>2. t \in SimType /\ t.stage = sims[s].stage
      BY <1>1, <3>1 DEF SimType
    <3>3. SetSim(s, t)
      BY <2>3, <3>2 DEF SetSim, SerialSend, WokInv, WokTypeOK, SimType
    <3>4. QED
      BY <3>2, <3>3
  <2>4. CASE SerialStops(s)
    <3> DEFINE t == [sims[s] EXCEPT !.serial = "over"]
    <3>1. t \in SimType /\ t.stage = sims[s].stage
      BY <1>1 DEF SimType
    <3>2. SetSim(s, t)
      BY <2>4, <3>1 DEF SetSim, SerialStops, WokInv, WokTypeOK, SimType
    <3>3. QED
      BY <3>1, <3>2
  <2>5. CASE TimesOut(s)
    <3> DEFINE t == [sims[s] EXCEPT !.stage = "stopped", !.link = "none"]
    <3>1. t \in SimType /\ t.stage = "stopped"
      BY <1>1 DEF SimType
    <3>2. SetSim(s, t)
      BY <2>5, <3>1 DEF SetSim, TimesOut, WokInv, WokTypeOK, SimType
    <3>3. QED
      BY <3>1, <3>2
  <2>6. QED
    BY <2>1, <2>2, <2>3, <2>4, <2>5
<1>3. ViewersSound' /\ viewers' \in [Viewers -> ViewerType]
  BY <1>1 DEF ViewersSound, Attached, WokInv, WokTypeOK
<1>4. QED
  BY <1>1, <1>2, <1>3, SimRuns

\* A step of one of a viewer's goroutines.
LEMMA ViewerSet ==
  ASSUME WokInv, NEW v \in Viewers, Attached(v),
         NEW pc, NEW reader, [pc |-> pc, reader |-> reader, sim |-> viewers[v].sim] \in ViewerType,
         ViewerTo(v, pc, reader)
  PROVE  viewers' \in [Viewers -> ViewerType] /\ ViewersSound'
<1>1. viewers \in [Viewers -> ViewerType] /\ viewers[v] \in ViewerType /\ viewers[v].sim \in Sims
  BY DEF WokInv, WokTypeOK, ViewersSound
<1>2. PICK r : r = [viewers[v] EXCEPT !.pc = pc, !.reader = reader]
  OBVIOUS
<1>3. r \in ViewerType /\ r.sim \in Sims
  <2>1. r = [pc |-> pc, reader |-> reader, sim |-> viewers[v].sim]
    BY <1>1, <1>2 DEF ViewerType
  <2>2. QED
    BY <1>1, <2>1
<1>4. viewers' = [viewers EXCEPT ![v] = r]
  BY <1>1, <1>2 DEF ViewerTo
<1>5. viewers' \in [Viewers -> ViewerType] /\ viewers'[v].sim \in Sims /\ \A u \in Viewers : u # v => viewers'[u] = viewers[u]
  BY <1>1, <1>3, <1>4
<1>6. QED
  BY <1>5 DEF WokInv, ViewersSound, Attached

LEMMA ViewerAttaches == ASSUME WokInv, NEW v \in Viewers, Attach(v) PROVE WokInv'
<1> USE DEF WokInv
<1>1. viewers \in [Viewers -> ViewerType] /\ viewers[v] \in ViewerType
  BY DEF WokTypeOK
<1>2. entry \in Sims \cup {NoSim} /\ (Running(entry) => entry \in Sims)
  BY DEF WokTypeOK, Running
<1>3. CASE Running(entry)
  <2>1. PICK pc \in {"asking", "greeting"} :
          /\ viewers' = [viewers EXCEPT ![v].pc = pc, ![v].sim = entry]
          /\ UNCHANGED <<sims, entry, getters, panicked, overlap>>
    BY <1>3 DEF Attach
  <2>2. PICK r : r = [viewers[v] EXCEPT !.pc = pc, !.sim = entry]
    OBVIOUS
  <2>3. r \in ViewerType /\ r.sim \in Sims
    BY <1>1, <1>2, <1>3, <2>2 DEF ViewerType
  <2>4. viewers' = [viewers EXCEPT ![v] = r]
    BY <1>1, <2>1, <2>2
  <2>5. WokTypeOK'
    BY <1>1, <2>1, <2>3, <2>4 DEF WokTypeOK
  <2>6. ViewersSound'
    BY <1>1, <2>3, <2>4 DEF ViewersSound, Attached
  <2>7. ~ overlap' => OneStarter'
    BY <2>1 DEF OneStarter, Starting, Running, Stored
  <2>8. QED
    BY <2>5, <2>6, <2>7
<1>4. CASE ~ Running(entry)
  <2>1. /\ viewers' = [viewers EXCEPT ![v].pc = "over"] /\ entry' = NoSim
        /\ UNCHANGED <<sims, getters, panicked, overlap>>
    BY <1>4 DEF Attach
  <2>2. PICK r : r = [viewers[v] EXCEPT !.pc = "over"]
    OBVIOUS
  <2>3. r \in ViewerType /\ r.sim = viewers[v].sim /\ r.reader = viewers[v].reader /\ r.pc = "over"
    BY <1>1, <2>2 DEF ViewerType
  <2>4. viewers' = [viewers EXCEPT ![v] = r]
    BY <1>1, <2>1, <2>2
  <2>5. WokTypeOK'
    BY <1>1, <2>1, <2>3, <2>4 DEF WokTypeOK
  <2>6. ViewersSound'
    BY <1>1, <2>3, <2>4 DEF ViewersSound, Attached
  <2>7. ASSUME ~ overlap' PROVE OneStarter'
    <3>1. OneStarter /\ entry' = NoSim /\ UNCHANGED <<sims, getters>>
      BY <2>1, <2>7
    <3>2. \A s \in Sims : Running(s)' => Running(s) /\ s # entry
      BY <1>4, <3>1 DEF Running
    <3>3. QED
      BY <3>1, <3>2 DEF OneStarter, Starting, Stored
  <2>8. QED
    BY <2>5, <2>6, <2>7
<1>5. QED
  BY <1>3, <1>4

LEMMA ViewerSteps == ASSUME WokInv, NEW v \in Viewers, ViewerStep(v) PROVE WokInv'
<1> USE DEF WokInv
<1>1. viewers[v] \in ViewerType /\ UNCHANGED <<sims, entry, getters, panicked, overlap>>
  BY DEF WokTypeOK, ViewerStep
<1>2. /\ viewers[v].reader \in {"off", "reading", "requesting"} /\ viewers[v].sim \in Sims \cup {NoSim}
      /\ viewers[v].pc \in {"idle", "asking", "resetting", "greeting", "streaming", "waiting", "writing", "over"}
  BY <1>1 DEF ViewerType
<1>3. Attached(v)
  BY DEF Attached, ViewerStep, AsksReset, ResetReturns, Greets, TakesOutput, StreamEnds, Writes,
         ReaderAsks, ReaderReturns, ReaderEnds
<1>4. PICK pc \in {"idle", "asking", "resetting", "greeting", "streaming", "waiting", "writing", "over"},
           reader \in {"off", "reading", "requesting"} : ViewerTo(v, pc, reader)
  <2>1. CASE AsksReset(v) \/ ResetReturns(v) \/ Greets(v) \/ TakesOutput(v) \/ StreamEnds(v) \/ Writes(v)
    BY <1>2, <2>1 DEF AsksReset, ResetReturns, Greets, TakesOutput, StreamEnds, Writes
  <2>2. CASE ReaderAsks(v) \/ ReaderReturns(v) \/ ReaderEnds(v)
    BY <1>2, <2>2 DEF ReaderAsks, ReaderReturns, ReaderEnds
  <2>3. QED
    BY <2>1, <2>2 DEF ViewerStep
<1>5. [pc |-> pc, reader |-> reader, sim |-> viewers[v].sim] \in ViewerType
  BY <1>2 DEF ViewerType
<1>6. viewers' \in [Viewers -> ViewerType] /\ ViewersSound'
  BY <1>3, <1>4, <1>5, ViewerSet
<1>7. WokTypeOK'
  BY <1>1, <1>6 DEF WokTypeOK
<1>8. ~ overlap' => OneStarter'
  BY <1>1 DEF OneStarter, Starting, Running, Stored
<1>9. QED
  BY <1>6, <1>7, <1>8

LEMMA LineReceived == ASSUME WokInv, NEW v \in Viewers, Receives(v) PROVE WokInv'
<1> USE DEF WokInv
<1>1. PICK s : s = viewers[v].sim
  OBVIOUS
<1>2. /\ viewers[v].pc = "waiting" /\ sims[s].out > 0
      /\ sims' = [sims EXCEPT ![s].out = @ - 1] /\ ViewerTo(v, "writing", viewers[v].reader)
      /\ UNCHANGED <<entry, getters, panicked, overlap>>
  BY <1>1 DEF Receives
<1>3. s \in Sims /\ Attached(v) /\ viewers[v] \in ViewerType
  BY <1>1, <1>2 DEF ViewersSound, Attached, WokTypeOK
<1>4. sims[s] \in SimType
  BY <1>3 DEF WokTypeOK
<1>5. PICK t : t = [sims[s] EXCEPT !.out = @ - 1]
  OBVIOUS
<1>6. sims[s].out - 1 \in 0..OutCap
  BY <1>2, <1>4, Names DEF SimType
<1>7. t \in SimType /\ t.stage = sims[s].stage
  BY <1>4, <1>5, <1>6 DEF SimType
<1>8. SetSim(s, t)
  BY <1>2, <1>5, <1>7 DEF SetSim, WokTypeOK
<1>9. [pc |-> "writing", reader |-> viewers[v].reader, sim |-> viewers[v].sim] \in ViewerType
  BY <1>3 DEF ViewerType
<1>10. viewers' \in [Viewers -> ViewerType] /\ ViewersSound'
  BY <1>2, <1>3, <1>9, ViewerSet
<1>11. panicked' \in BOOLEAN
  BY <1>2 DEF WokTypeOK
<1>12. QED
  BY <1>2, <1>3, <1>7, <1>8, <1>10, <1>11, SimRuns
-----------------------------------------------------------------------------
LEMMA WokStep == WokInv /\ [WokNext]_wokVars => WokInv'
<1> SUFFICES ASSUME WokInv, [WokNext]_wokVars PROVE WokInv'
  OBVIOUS
<1>1. CASE \E j \in WokJobs : JobGets(j) \/ JobStores(j) \/ \E s \in Sims : StartStep(j, s)
  BY <1>1, JobGot, JobStored, Started
<1>2. CASE \E s \in Sims : LinkLost(s) \/ SerialData(s) \/ SerialSend(s) \/ SerialStops(s) \/ TimesOut(s)
  BY <1>2, SimMoves
<1>3. CASE \E v \in Viewers : Attach(v) \/ ViewerStep(v) \/ Receives(v)
  BY <1>3, ViewerAttaches, ViewerSteps, LineReceived
<1>4. CASE UNCHANGED wokVars
  BY <1>4 DEF wokVars, WokInv, WokTypeOK, ViewersSound, Attached, OneStarter, Starting, Running, Stored
<1>5. QED
  BY <1>1, <1>2, <1>3, <1>4 DEF WokNext

\* The simulations, jobs and viewers of a Wokwi board keep their types.
THEOREM WokwiTypes == WokSpec => []WokTypeOK
<1>1. WokInv => WokTypeOK
  BY DEF WokInv
<1>2. QED
  BY WokInitInv, WokStep, <1>1, PTL DEF WokSpec

\* Unless two jobs have been starting a simulation at the same time, at most one
\* runs, for any number of jobs, viewers and simulations.
THEOREM WokwiOneSimulation == WokSpec => []OneSimulation
<1>1. WokInv => OneSimulation
  <2> SUFFICES ASSUME WokInv, ~ overlap PROVE Cardinality({s \in Sims : Running(s)}) <= 1
    BY DEF WokInv, WokTypeOK, OneSimulation
  <2>1. OneStarter
    BY DEF WokInv
  <2>2. \A s, t \in Sims : Running(s) /\ Running(t) => s = t
    BY <2>1, Names DEF OneStarter, Stored, Starting
  <2>3. CASE \E s \in Sims : Running(s)
    <3>1. PICK s \in Sims : Running(s)
      BY <2>3
    <3>2. {r \in Sims : Running(r)} = {s}
      BY <2>2, <3>1
    <3>3. QED
      BY <3>2, FS_Singleton
  <2>4. CASE ~ \E s \in Sims : Running(s)
    <3>1. {r \in Sims : Running(r)} = {}
      BY <2>4
    <3>2. QED
      BY <3>1, FS_EmptySet
  <2>5. QED
    BY <2>3, <2>4
<1>2. QED
  BY WokInitInv, WokStep, <1>1, PTL DEF WokSpec
-----------------------------------------------------------------------------
(* The progress of a job: FlashProgress.                                    *)

\* Nobody will report on job j any more.
Over(j) == work[j].at = "ended" /\ work[j].reports = 0 /\ work[j].streamer = "off"

\* A message on job j has not reached the hub.
OnItsWay(j) == \E l \in 1..Len(bcast) : bcast[l].job = j

\* Connection c has been handed the completion of its job.
Told(c) ==
  conn[c].heard = "complete" \/ \E k \in 1..Len(conn[c].send) : conn[c].send[k].type = "complete"

\* A worker has waited for its goroutines, and the streamer for the worker.
WorkSound ==
  \A j \in Tracked : /\ work[j].at = "ended" => work[j].reports = 0
                     /\ work[j].streamer = "announcing" => work[j].at = "ended"

\* A slice of a job holds connections of this job: also the hub's copy, whatever is
\* written to the array behind it.
Sliced ==
  /\ \A j \in Tracked : \A i \in 1..Len(subs[j]) : conn[subs[j][i]].job = j
  /\ \A i \in 1..Len(hub.slice) : hub.msg # NoMsg /\ conn[hub.slice[i]].job = hub.msg.job

\* A connection that is served is in the slice of its job.
Listed(c) == \E i \in 1..Len(subs[conn[c].job]) : subs[conn[c].job][i] = c
Subscribed ==
  \A c \in Watchers : /\ conn[c].at = "unused" => conn[c].job = NoTrack
                      /\ conn[c].at = "served" => conn[c].job \in Tracked /\ Listed(c)

\* The completion of a job is its last message: in the broadcast channel ...
LastInQueue ==
  \A k \in 1..Len(bcast) : bcast[k].type = "complete" =>
    /\ Over(bcast[k].job)
    /\ \A l \in 1..Len(bcast) : l > k => bcast[l].job # bcast[k].job

\* ... in the hub ...
LastAtHub == hub.msg.type = "complete" => Over(hub.msg.job) /\ ~ OnItsWay(hub.msg.job)

\* ... and for each client.
LastFor(c) ==
  /\ conn[c].job \in Tracked /\ Over(conn[c].job) /\ ~ OnItsWay(conn[c].job)
  /\ hub.msg.job = conn[c].job => hub.msg.type = "complete"
LastForClients == \A c \in Watchers : Told(c) => LastFor(c)

InOrder ==
  \A c \in Watchers :
    /\ conn[c].heard = "complete" => \A k \in 1..Len(conn[c].send) : conn[c].send[k].type = "complete"
    /\ \A i, k \in 1..Len(conn[c].send) :
         i < k /\ conn[c].send[i].type = "complete" => conn[c].send[k].type = "complete"

ProgInv ==
  /\ ProgTypeOK /\ WorkSound /\ Sliced /\ Subscribed
  /\ LastInQueue /\ LastAtHub /\ LastForClients /\ InOrder
-----------------------------------------------------------------------------
LEMMA Places ==
  /\ HubCap \in Nat /\ HubCap > 0 /\ SendCap \in Nat /\ SendCap > 0 /\ ReportCap \in Nat /\ ReportCap > 0
  /\ NoTrack \notin Tracked
  BY ProgressAssumption DEF ProgressAssumption

LEMMA Messages ==
  /\ NoMsg \notin Message /\ NoMsg.job = NoTrack /\ NoMsg.type = "progress"
  /\ \A m \in Message : m.job \in Tracked /\ m.type \in {"progress", "complete"}
  BY Places DEF NoMsg, Message

\* What RemoveAt leaves of a sequence.
LEMMA Removed ==
  ASSUME NEW S, NEW s \in Seq(S), NEW i \in 1..Len(s)
  PROVE  /\ RemoveAt(s, i) \in Seq(S) /\ Len(RemoveAt(s, i)) = Len(s) - 1
         /\ \A k \in 1..Len(s) - 1 : RemoveAt(s, i)[k] = IF k < i THEN s[k] ELSE s[k + 1]
<1> DEFINE a == SubSeq(s, 1, i - 1)  b == SubSeq(s, i + 1, Len(s))
<1>1. Len(s) \in Nat /\ \A k \in 1..Len(s) : s[k] \in S
  BY ElementOfSeq, LenProperties
<1>2. a \in Seq(S) /\ Len(a) = i - 1 /\ \A k \in 1..i - 1 : a[k] = s[k]
  <2>1. \A k \in 1..i - 1 : s[k] \in S
    BY <1>1
  <2>2. a \in Seq(S) /\ Len(a) = (IF 1 <= i - 1 THEN (i - 1) - 1 + 1 ELSE 0)
        /\ \A k \in 1..(i - 1) - 1 + 1 : a[k] = s[1 + k - 1]
    BY <1>1, <2>1, SubSeqProperties
  <2>3. \A k \in 1..i - 1 : k \in 1..(i - 1) - 1 + 1 /\ 1 + k - 1 = k
    BY <1>1
  <2>4. QED
    BY <1>1, <2>2, <2>3
<1>3. b \in Seq(S) /\ Len(b) = Len(s) - i /\ \A k \in 1..Len(s) - i : b[k] = s[k + i]
  <2>1. \A k \in i + 1..Len(s) : s[k] \in S
    BY <1>1
  <2>2. b \in Seq(S) /\ Len(b) = (IF i + 1 <= Len(s) THEN Len(s) - (i + 1) + 1 ELSE 0)
        /\ \A k \in 1..Len(s) - (i + 1) + 1 : b[k] = s[i + 1 + k - 1]
    BY <1>1, <2>1, SubSeqProperties
  <2>3. \A k \in 1..Len(s) - i : k \in 1..Len(s) - (i + 1) + 1 /\ i + 1 + k - 1 = k + i
    BY <1>1
  <2>4. QED
    BY <1>1, <2>2, <2>3
<1> HIDE DEF a, b
<1>4. /\ a \o b \in Seq(S) /\ Len(a \o b) = Len(a) + Len(b)
      /\ \A k \in 1..Len(a) + Len(b) : (a \o b)[k] = IF k <= Len(a) THEN a[k] ELSE b[k - Len(a)]
  BY <1>2, <1>3, ConcatProperties
<1>5. RemoveAt(s, i) = a \o b
  BY DEF RemoveAt, a, b
<1>6. ASSUME NEW k \in 1..Len(s) - 1 PROVE (a \o b)[k] = IF k < i THEN s[k] ELSE s[k + 1]
  <2>1. CASE k < i
    BY <1>1, <1>2, <1>3, <1>4, <2>1
  <2>2. CASE ~ (k < i)
    <3>1. (a \o b)[k] = b[k - Len(a)] /\ k - Len(a) = k - i + 1 /\ k - i + 1 \in 1..Len(s) - i
      BY <1>1, <1>2, <1>3, <1>4, <2>2
    <3>2. b[k - i + 1] = s[k - i + 1 + i] /\ k - i + 1 + i = k + 1
      BY <1>1, <1>3, <3>1
    <3>3. QED
      BY <2>2, <3>1, <3>2
  <2>3. QED
    BY <2>1, <2>2
<1>7. QED
  BY <1>1, <1>2, <1>3, <1>4, <1>5, <1>6

LEMMA ProgInitInv == ProgInit => ProgInv
<1> SUFFICES ASSUME ProgInit PROVE ProgInv
  OBVIOUS
<1>1. \A S : <<>> \in Seq(S) /\ Len(<<>>) = 0
  BY EmptySeq
<1>2. ProgTypeOK
  <2>1. NoTurn \in HubType /\ NoTurn.next \in 1..Len(NoTurn.slice) + 1
    BY <1>1 DEF HubType, NoTurn
  <2>2. [at |-> "unused", job |-> NoTrack, client |-> "reads", send |-> <<>>, heard |-> "progress"] \in ConnType
    BY <1>1 DEF ConnType
  <2>3. [at |-> "new", reports |-> 0, streamer |-> "off"] \in WorkType
    BY Places DEF WorkType
  <2>4. QED
    BY <1>1, <2>1, <2>2, <2>3, Places DEF ProgInit, ProgTypeOK
<1>3. WorkSound
  BY DEF ProgInit, WorkSound
<1>4. Sliced /\ Subscribed
  BY <1>1 DEF ProgInit, Sliced, Subscribed, NoTurn
<1>5. LastInQueue /\ LastAtHub
  BY <1>1, Messages DEF ProgInit, LastInQueue, LastAtHub, NoTurn
<1>6. LastForClients /\ InOrder
  BY <1>1 DEF ProgInit, LastForClients, InOrder, Told
<1>7. QED
  BY <1>2, <1>3, <1>4, <1>5, <1>6 DEF ProgInv
-----------------------------------------------------------------------------
(* Worker and streamer.                                                     *)

\* A job moves that was not over; it says at most one thing, and only the last thing
\* when it is over then.
LEMMA JobMoves ==
  ASSUME ProgInv, NEW j \in Tracked, NEW w \in WorkType, work' = [work EXCEPT ![j] = w], ~ Over(j),
         w.at = "ended" => w.reports = 0, w.streamer = "announcing" => w.at = "ended",
         UNCHANGED <<subs, room, hub, conn>>,
         \/ UNCHANGED bcast
         \/ \E type \in {"progress", "complete"} : Broadcast(j, type) /\ (type = "complete" => Over(j)')
  PROVE  ProgInv'
<1> USE DEF ProgInv
<1>1. /\ work' \in [Tracked -> WorkType] /\ work'[j] = w
      /\ \A k \in Tracked : k # j => work'[k] = work[k]
  BY DEF ProgTypeOK
<1>2. \A k \in Tracked : Over(k) => k # j /\ Over(k)'
  BY <1>1 DEF Over
<1>3. WorkSound'
  BY <1>1 DEF WorkSound
<1>4. Sliced' /\ Subscribed' /\ InOrder'
  BY DEF Sliced, Subscribed, Listed, InOrder
<1>5. \A c \in Watchers : Told(c)' <=> Told(c)
  BY DEF Told
<1>6. hub.msg.type = "complete" => hub.msg.job \in Tracked
  BY Messages DEF ProgTypeOK, HubType
<1>7. CASE UNCHANGED bcast
  <2>1. \A k \in 1..Len(bcast) : bcast[k].job \in Tracked
    BY Messages, ElementOfSeq DEF ProgTypeOK
  <2>2. ProgTypeOK'
    BY <1>1, <1>7 DEF ProgTypeOK
  <2>3. LastInQueue'
    BY <1>2, <1>7, <2>1 DEF LastInQueue
  <2>4. LastAtHub'
    BY <1>2, <1>6, <1>7 DEF LastAtHub, OnItsWay
  <2>5. LastForClients'
    BY <1>2, <1>5, <1>7 DEF LastForClients, LastFor, OnItsWay
  <2>6. QED
    BY <1>3, <1>4, <2>2, <2>3, <2>4, <2>5
<1>8. ASSUME NEW type \in {"progress", "complete"}, Broadcast(j, type), type = "complete" => Over(j)'
      PROVE  ProgInv'
  <2> DEFINE m == [job |-> j, type |-> type]  n == Len(bcast)
  <2>1. m \in Message /\ bcast \in Seq(Message) /\ bcast' = Append(bcast, m) /\ n < HubCap
    BY <1>8 DEF Message, Broadcast, ProgTypeOK
  <2>2. m.job = j /\ m.type = type
    OBVIOUS
  <2> HIDE DEF m
  <2>3. /\ bcast' \in Seq(Message) /\ Len(bcast') = n + 1 /\ n \in Nat
        /\ \A k \in 1..n : bcast'[k] = bcast[k]
        /\ bcast'[n + 1] = m
    BY <2>1, AppendProperties, LenProperties
  <2> HIDE DEF n
  <2>4. \A k \in 1..n : bcast[k].job \in Tracked
    BY <2>1, Messages, ElementOfSeq DEF n
  <2>5. \A k \in 1..n + 1 : k \in 1..n \/ k = n + 1
    BY <2>3
  <2>6. ProgTypeOK'
    BY <1>1, <2>1, <2>3, Places DEF ProgTypeOK, n
  <2>7. \A k \in Tracked : k # j => (OnItsWay(k)' <=> OnItsWay(k))
    BY <2>2, <2>3, <2>5 DEF OnItsWay, n
  <2>8. LastInQueue'
    <3> SUFFICES ASSUME NEW k \in 1..n + 1, bcast'[k].type = "complete"
                 PROVE  /\ Over(bcast[k].job)'
                        /\ \A l \in 1..n + 1 : l > k => bcast'[l].job # bcast'[k].job
      BY <2>3 DEF LastInQueue
    <3>1. CASE k = n + 1
      <4>1. bcast'[k].job = j /\ Over(j)'
        BY <1>8, <2>2, <2>3, <3>1
      <4>2. \A l \in 1..n + 1 : ~ (l > k)
        BY <2>3, <3>1
      <4>3. QED
        BY <4>1, <4>2 DEF Over
    <3>2. CASE k \in 1..n
      <4>1. bcast'[k] = bcast[k] /\ Over(bcast[k].job) /\ bcast[k].job \in Tracked
            /\ \A l \in 1..n : l > k => bcast[l].job # bcast[k].job
        BY <2>3, <2>4, <3>2 DEF LastInQueue, n
      <4>2. PICK i \in Tracked : i = bcast[k].job
        BY <4>1
      <4>3. i # j /\ Over(i)'
        BY <1>2, <4>1, <4>2
      <4>4. ASSUME NEW l \in 1..n + 1, l > k PROVE bcast'[l].job # i
        <5>1. CASE l = n + 1
          BY <2>2, <2>3, <4>3, <5>1
        <5>2. CASE l \in 1..n
          BY <2>3, <4>1, <4>2, <4>4, <5>2
        <5>3. QED
          BY <2>5, <5>1, <5>2
      <4>5. bcast'[k].job = i
        BY <4>1, <4>2
      <4>6. Over(bcast[k].job)'
        BY <4>3, <4>5 DEF Over
      <4>7. QED
        BY <4>4, <4>5, <4>6
    <3>3. QED
      BY <2>5, <3>1, <3>2
  <2>9. LastAtHub'
    BY <1>2, <1>6, <2>7 DEF LastAtHub
  <2>10. LastForClients'
    BY <1>2, <1>5, <2>7 DEF LastForClients, LastFor
  <2>11. QED
    BY <1>3, <1>4, <2>6, <2>8, <2>9, <2>10
<1>9. QED
  BY <1>7, <1>8

LEMMA JobRuns ==
  ASSUME ProgInv, NEW j \in Tracked,
         JobEnqueued(j) \/ WorkerRuns(j) \/ FlasherReports(j) \/ ForwardReport(j) \/ StreamerRuns(j)
  PROVE  ProgInv'
<1> USE DEF ProgInv
<1>1. work \in [Tracked -> WorkType] /\ work[j] \in WorkType
  BY DEF ProgTypeOK
<1>2. /\ work[j].at \in {"new", "queued", "running", "draining", "ended"}
      /\ work[j].reports \in 0..ReportCap /\ work[j].streamer \in {"off", "ticking", "announcing"}
  BY <1>1 DEF WorkType
<1>3. /\ work[j].at = "ended" => work[j].reports = 0
      /\ work[j].streamer = "announcing" => work[j].at = "ended"
  BY DEF WorkSound
<1>4. CASE JobEnqueued(j)
  <2> DEFINE w == [work[j] EXCEPT !.at = "queued", !.streamer = "ticking"]
  <2>1. /\ w \in WorkType /\ w.at = "queued" /\ w.streamer = "ticking" /\ ~ Over(j)
        /\ work' = [work EXCEPT ![j] = w] /\ UNCHANGED <<subs, room, bcast, hub, conn>>
    BY <1>1, <1>4 DEF JobEnqueued, WorkType, Over
  <2> HIDE DEF w
  <2>2. QED
    BY <2>1, JobMoves
<1>5. CASE WorkStarts(j)
  <2> DEFINE w == [work[j] EXCEPT !.at = "running"]
  <2>1. /\ w \in WorkType /\ w.at = "running" /\ w.streamer = work[j].streamer /\ ~ Over(j)
        /\ work' = [work EXCEPT ![j] = w] /\ UNCHANGED <<subs, room, bcast, hub, conn>>
        /\ work[j].at = "queued"
    BY <1>1, <1>5 DEF WorkStarts, WorkType, Over
  <2> HIDE DEF w
  <2>2. QED
    BY <1>3, <2>1, JobMoves
<1>6. CASE FlashReturned(j)
  <2> DEFINE w == [work[j] EXCEPT !.at = "draining"]
  <2>1. /\ w \in WorkType /\ w.at = "draining" /\ w.streamer = work[j].streamer /\ ~ Over(j)
        /\ work' = [work EXCEPT ![j] = w] /\ UNCHANGED <<subs, room, bcast, hub, conn>>
        /\ work[j].at = "running"
    BY <1>1, <1>6 DEF FlashReturned, WorkType, Over
  <2> HIDE DEF w
  <2>2. QED
    BY <1>3, <2>1, JobMoves
<1>7. CASE WorkEnds(j)
  <2> DEFINE w == [work[j] EXCEPT !.at = "ended"]
  <2>1. /\ w \in WorkType /\ w.at = "ended" /\ w.reports = 0 /\ ~ Over(j)
        /\ work' = [work EXCEPT ![j] = w] /\ UNCHANGED <<subs, room, bcast, hub, conn>>
    BY <1>1, <1>7 DEF WorkEnds, WorkType, Over
  <2> HIDE DEF w
  <2>2. QED
    BY <2>1, JobMoves
<1>8. CASE FlasherReports(j)
  <2> DEFINE w == [work[j] EXCEPT !.reports = @ + 1]
  <2>1. work[j].at = "running" /\ work[j].reports + 1 \in 0..ReportCap
    BY <1>2, <1>8, Places DEF FlasherReports
  <2>2. /\ w \in WorkType /\ w.at = "running" /\ w.streamer = work[j].streamer /\ ~ Over(j)
        /\ work' = [work EXCEPT ![j] = w] /\ UNCHANGED <<subs, room, bcast, hub, conn>>
    BY <1>1, <1>8, <2>1 DEF FlasherReports, WorkType, Over
  <2> HIDE DEF w
  <2>3. QED
    BY <1>3, <2>1, <2>2, JobMoves
<1>9. CASE ForwardReport(j)
  <2> DEFINE w == [work[j] EXCEPT !.reports = @ - 1]
  <2>1. work[j].reports > 0 /\ work[j].reports - 1 \in 0..ReportCap /\ work[j].at # "ended"
    BY <1>2, <1>3, <1>9, Places DEF ForwardReport
  <2>2. /\ w \in WorkType /\ w.at = work[j].at /\ w.streamer = work[j].streamer /\ ~ Over(j)
        /\ work' = [work EXCEPT ![j] = w] /\ UNCHANGED <<subs, room, hub, conn>>
        /\ Broadcast(j, "progress")
    BY <1>1, <1>9, <2>1 DEF ForwardReport, WorkType, Over
  <2> HIDE DEF w
  <2>3. QED
    BY <1>3, <2>1, <2>2, JobMoves
<1>10. CASE StreamerTicks(j)
  <2> DEFINE w == [work[j] EXCEPT !.streamer = IF work[j].at = "ended" THEN "announcing" ELSE @]
  <2>1. /\ w \in WorkType /\ w.at = work[j].at /\ w.reports = work[j].reports /\ ~ Over(j)
        /\ w.streamer = "announcing" => w.at = "ended"
        /\ UNCHANGED <<subs, room, hub, conn>> /\ Broadcast(j, "progress")
    BY <1>1, <1>10 DEF StreamerTicks, WorkType, Over
  <2>2. work' = [work EXCEPT ![j] = w]
    BY <1>1, <1>10 DEF StreamerTicks, WorkType
  <2> HIDE DEF w
  <2>3. QED
    BY <1>3, <2>1, <2>2, JobMoves
<1>11. CASE StreamerAnnounces(j)
  <2> DEFINE w == [work[j] EXCEPT !.streamer = "off"]
  <2>1. /\ w \in WorkType /\ w.at = "ended" /\ w.reports = 0 /\ w.streamer = "off" /\ ~ Over(j)
        /\ UNCHANGED <<subs, room, hub, conn>> /\ Broadcast(j, "complete")
    BY <1>1, <1>3, <1>11 DEF StreamerAnnounces, WorkType, Over
  <2>2. work' = [work EXCEPT ![j] = w]
    BY <1>1, <1>11 DEF StreamerAnnounces, WorkType
  <2> HIDE DEF w
  <2>3. Over(j)'
    BY <1>1, <2>1, <2>2 DEF Over
  <2>4. QED
    BY <2>1, <2>2, <2>3, JobMoves
<1>12. QED
  BY <1>4, <1>5, <1>6, <1>7, <1>8, <1>9, <1>10, <1>11 DEF WorkerRuns, StreamerRuns
-----------------------------------------------------------------------------
(* The hub.                                                                 *)

LEMMA Taken == ASSUME ProgInv, HubTakes PROVE ProgInv'
<1> USE DEF ProgInv
<1>0. PICK m : m = Head(bcast)
  OBVIOUS
<1>1. /\ hub.msg = NoMsg /\ bcast \in Seq(Message) /\ bcast # <<>> /\ bcast' = Tail(bcast)
      /\ hub' = [msg |-> m, slice |-> subs[m.job], next |-> 1, shared |-> TRUE]
      /\ UNCHANGED <<work, subs, room, conn>>
  BY <1>0 DEF HubTakes, ProgTypeOK
<1>2. /\ bcast' \in Seq(Message) /\ Len(bcast') = Len(bcast) - 1 /\ Len(bcast) \in Nat
      /\ \A i \in 1..Len(bcast') : bcast'[i] = bcast[i + 1]
      /\ Len(bcast) > 0 /\ m = bcast[1]
  BY <1>0, <1>1, HeadTailProperties, EmptySeq, LenProperties
<1>3. m \in Message /\ m.job \in Tracked /\ m.type \in {"progress", "complete"} /\ m # NoMsg
  <2>1. 1 \in 1..Len(bcast)
    BY <1>2
  <2>2. m \in Message
    BY <1>1, <1>2, <2>1, ElementOfSeq
  <2>3. QED
    BY <2>2, Messages
<1>4. \A j : OnItsWay(j)' => OnItsWay(j)
  <2> SUFFICES ASSUME NEW j, NEW l \in 1..Len(bcast'), bcast'[l].job = j PROVE OnItsWay(j)
    BY DEF OnItsWay
  <2>1. l + 1 \in 1..Len(bcast) /\ bcast[l + 1].job = j
    BY <1>2
  <2>2. QED
    BY <2>1 DEF OnItsWay
<1>5. OnItsWay(m.job)
  <2>1. 1 \in 1..Len(bcast)
    BY <1>2
  <2>2. QED
    BY <1>2, <2>1 DEF OnItsWay
<1>6. /\ hub'.msg = m /\ hub'.slice = subs[m.job] /\ hub'.next = 1 /\ hub' \in HubType
      /\ subs[m.job] \in Seq(Watchers) /\ Len(subs[m.job]) \in Nat
  <2>1. subs[m.job] \in Seq(Watchers)
    BY <1>3 DEF ProgTypeOK
  <2>2. Len(subs[m.job]) \in Nat
    BY <2>1, LenProperties
  <2>3. QED
    BY <1>1, <1>3, <2>1, <2>2 DEF HubType
<1>7. ProgTypeOK'
  <2>1. Len(bcast') <= HubCap
    BY <1>2, Places DEF ProgTypeOK
  <2>2. hub'.next \in 1..Len(hub'.slice) + 1
    BY <1>6
  <2>3. QED
    BY <1>1, <1>2, <1>6, <2>1, <2>2 DEF ProgTypeOK
<1>8. WorkSound' /\ Subscribed' /\ InOrder'
  BY <1>1 DEF WorkSound, Subscribed, Listed, InOrder
<1>9. Sliced'
  BY <1>1, <1>3, <1>6 DEF Sliced
<1>10. LastInQueue'
  <2> SUFFICES ASSUME NEW k \in 1..Len(bcast'), bcast'[k].type = "complete"
               PROVE  /\ Over(bcast[k].job)'
                      /\ \A l \in 1..Len(bcast') : l > k => bcast'[l].job # bcast'[k].job
    BY DEF LastInQueue
  <2>1. k + 1 \in 1..Len(bcast) /\ bcast'[k] = bcast[k + 1]
    BY <1>2
  <2>2. Over(bcast[k + 1].job) /\ \A l \in 1..Len(bcast) : l > k + 1 => bcast[l].job # bcast[k + 1].job
    BY <2>1 DEF LastInQueue
  <2>3. ASSUME NEW l \in 1..Len(bcast'), l > k PROVE bcast'[l].job # bcast'[k].job
    <3>1. l + 1 \in 1..Len(bcast) /\ l + 1 > k + 1 /\ bcast'[l] = bcast[l + 1]
      BY <1>2, <2>3
    <3>2. QED
      BY <2>1, <2>2, <3>1
  <2>4. Over(bcast[k].job)'
    BY <1>1, <2>1, <2>2 DEF Over
  <2>5. QED
    BY <2>3, <2>4
<1>11. LastAtHub'
  <2> SUFFICES ASSUME m.type = "complete" PROVE Over(m.job) /\ ~ OnItsWay(m.job)'
    BY <1>1, <1>6 DEF LastAtHub, Over, OnItsWay
  <2>1. /\ Over(m.job)
        /\ \A l \in 1..Len(bcast) : l > 1 => bcast[l].job # m.job
    <3>1. 1 \in 1..Len(bcast)
      BY <1>2
    <3>2. QED
      BY <1>2, <3>1 DEF LastInQueue
  <2>2. \A l \in 1..Len(bcast') : bcast'[l].job # m.job
    <3> TAKE l \in 1..Len(bcast')
    <3>1. l + 1 \in 1..Len(bcast) /\ l + 1 > 1 /\ bcast'[l] = bcast[l + 1]
      BY <1>2
    <3>2. QED
      BY <2>1, <3>1
  <2>3. ~ OnItsWay(m.job)'
    BY <2>2 DEF OnItsWay
  <2>4. QED
    BY <2>1, <2>3
<1>12. LastForClients'
  <2> SUFFICES ASSUME NEW c \in Watchers, Told(c) PROVE LastFor(c)'
    BY <1>1 DEF LastForClients, Told
  <2>1. LastFor(c)
    BY DEF LastForClients
  <2>2. m.job # conn[c].job
    BY <1>5, <2>1 DEF LastFor
  <2>3. QED
    BY <1>1, <1>4, <1>6, <2>1, <2>2 DEF LastFor, Over
<1>13. QED
  BY <1>7, <1>8, <1>9, <1>10, <1>11, <1>12

\* While the connections keep their jobs, a slice stays one of its job.
LEMMA SlicesKept ==
  ASSUME ProgInv, UNCHANGED subs, hub'.slice = hub.slice, hub'.msg = hub.msg,
         \A d \in Watchers : conn'[d].job = conn[d].job /\ conn'[d].at = conn[d].at
  PROVE  Sliced' /\ Subscribed'
<1>1. ASSUME NEW j \in Tracked, NEW i \in 1..Len(subs[j]) PROVE conn'[subs[j][i]].job = j
  <2>1. subs[j][i] \in Watchers
    BY ElementOfSeq DEF ProgInv, ProgTypeOK
  <2>2. QED
    BY <2>1 DEF ProgInv, Sliced
<1>2. ASSUME NEW i \in 1..Len(hub.slice) PROVE hub.msg # NoMsg /\ conn'[hub.slice[i]].job = hub.msg.job
  <2>1. hub.slice[i] \in Watchers
    BY ElementOfSeq DEF ProgInv, ProgTypeOK, HubType
  <2>2. QED
    BY <2>1 DEF ProgInv, Sliced
<1>3. Sliced'
  BY <1>1, <1>2 DEF Sliced
<1>4. Subscribed'
  BY DEF ProgInv, Subscribed, Listed
<1>5. QED
  BY <1>3, <1>4

LEMMA Handed == ASSUME ProgInv, HubHands PROVE ProgInv'
<1> USE DEF ProgInv
<1>1. /\ hub.next \in DOMAIN hub.slice /\ hub' = [hub EXCEPT !.next = @ + 1]
      /\ UNCHANGED <<work, subs, room, bcast>>
      /\ hub \in HubType /\ hub.slice \in Seq(Watchers) /\ conn \in [Watchers -> ConnType]
  BY DEF HubHands, ProgTypeOK, HubType
<1>2. PICK c : c = hub.slice[hub.next]
  OBVIOUS
<1>3. hub.next \in 1..Len(hub.slice) /\ Len(hub.slice) \in Nat /\ c \in Watchers
  BY <1>1, <1>2, LenProperties, ElementOfSeq
<1>4. hub.msg # NoMsg /\ conn[c].job = hub.msg.job /\ hub.msg \in Message
  BY <1>1, <1>2, <1>3 DEF Sliced, HubType
<1>5. hub.msg.job \in Tracked /\ hub.msg.type \in {"progress", "complete"}
  BY <1>4, Messages
<1>6. /\ hub' \in HubType /\ hub'.next \in 1..Len(hub'.slice) + 1
      /\ hub'.slice = hub.slice /\ hub'.msg = hub.msg
  BY <1>1, <1>3 DEF HubType
<1>7. LastInQueue' /\ LastAtHub' /\ WorkSound'
  BY <1>1, <1>6 DEF LastInQueue, LastAtHub, WorkSound, Over, OnItsWay
<1>8. CASE UNCHANGED conn
  <2>1. ProgTypeOK'
    BY <1>1, <1>6, <1>8 DEF ProgTypeOK
  <2>2. Sliced' /\ Subscribed' /\ InOrder'
    BY <1>1, <1>6, <1>8 DEF Sliced, Subscribed, Listed, InOrder
  <2>3. LastForClients'
    BY <1>1, <1>6, <1>8 DEF LastForClients, LastFor, Told, Over, OnItsWay
  <2>4. QED
    BY <1>7, <2>1, <2>2, <2>3
<1>9. CASE Len(conn[c].send) < SendCap /\ conn' = [conn EXCEPT ![c].send = Append(@, hub.msg)]
  <2>1. PICK n : n = Len(conn[c].send)
    OBVIOUS
  <2>2. conn[c].send \in Seq(Message)
    BY <1>1, <1>3 DEF ConnType
  <2>3. /\ Append(conn[c].send, hub.msg) \in Seq(Message) /\ n \in Nat
        /\ Len(Append(conn[c].send, hub.msg)) = n + 1
        /\ \A k \in 1..n : Append(conn[c].send, hub.msg)[k] = conn[c].send[k]
        /\ Append(conn[c].send, hub.msg)[n + 1] = hub.msg
    BY <1>4, <2>1, <2>2, AppendProperties, LenProperties
  <2>4. /\ conn' \in [Watchers -> ConnType]
        /\ conn'[c].send = Append(conn[c].send, hub.msg) /\ conn'[c].heard = conn[c].heard
        /\ \A d \in Watchers : d # c => conn'[d] = conn[d]
        /\ \A d \in Watchers : conn'[d].job = conn[d].job /\ conn'[d].at = conn[d].at
    <3>1. PICK s \in Seq(Message) : s = Append(conn[c].send, hub.msg)
      BY <2>3
    <3>2. PICK w : w = [conn[c] EXCEPT !.send = s]
      OBVIOUS
    <3>3. conn[c] \in ConnType
      BY <1>1, <1>3
    <3>4. /\ w \in ConnType /\ w.send = s /\ w.heard = conn[c].heard
          /\ w.job = conn[c].job /\ w.at = conn[c].at
      BY <3>2, <3>3 DEF ConnType
    <3>5. conn' = [conn EXCEPT ![c] = w]
      BY <1>9, <3>1, <3>2
    <3>6. conn' \in [Watchers -> ConnType] /\ conn'[c] = w /\ \A d \in Watchers : d # c => conn'[d] = conn[d]
      BY <1>1, <1>3, <3>4, <3>5
    <3>7. QED
      BY <3>1, <3>4, <3>6
  <2>5. /\ Len(conn'[c].send) = n + 1 /\ conn'[c].send[n + 1] = hub.msg
        /\ \A k \in 1..n : conn'[c].send[k] = conn[c].send[k]
        /\ \A k \in 1..n + 1 : k \in 1..n \/ k = n + 1
    BY <2>3, <2>4
  <2>6. ProgTypeOK'
    <3>1. \A d \in Watchers : Len(conn'[d].send) <= SendCap
      BY <1>9, <2>1, <2>3, <2>4, <2>5, Places DEF ProgTypeOK
    <3>2. QED
      BY <1>1, <1>6, <2>4, <3>1 DEF ProgTypeOK
  <2>7. Sliced'
    BY <1>1, <1>6, <2>4, SlicesKept
  <2>8. Subscribed'
    BY <1>1, <2>4, SMTT(30) DEF Subscribed, Listed
  <2>9. Told(c)' => Told(c) \/ hub.msg.type = "complete"
    BY <2>1, <2>4, <2>5 DEF Told
  <2>10. LastForClients'
    <3> SUFFICES ASSUME NEW d \in Watchers, Told(d)' PROVE LastFor(d)'
      BY DEF LastForClients
    <3>1. CASE Told(d)
      BY <1>1, <1>6, <2>4, <3>1 DEF LastForClients, LastFor, Over, OnItsWay
    <3>2. CASE ~ Told(d)
      <4>1. d = c
        BY <2>4, <3>2 DEF Told
      <4>2. hub.msg.type = "complete"
        BY <2>9, <3>2, <4>1
      <4>3. Over(hub.msg.job) /\ ~ OnItsWay(hub.msg.job)
        BY <4>2 DEF LastAtHub
      <4>4. QED
        BY <1>1, <1>4, <1>5, <1>6, <2>4, <4>1, <4>2, <4>3 DEF LastFor, Over, OnItsWay
    <3>3. QED
      BY <3>1, <3>2
  <2>11. InOrder'
    <3>1. Told(c) => hub.msg.type = "complete"
      BY <1>3, <1>4 DEF LastForClients, LastFor
    <3>2. conn'[c].heard = "complete" => \A k \in 1..n + 1 : conn'[c].send[k].type = "complete"
      <4> SUFFICES ASSUME conn'[c].heard = "complete", NEW k \in 1..n + 1
                   PROVE  conn'[c].send[k].type = "complete"
        OBVIOUS
      <4>1. conn[c].heard = "complete"
        BY <2>4
      <4>2. CASE k \in 1..n
        BY <1>3, <2>1, <2>5, <4>1, <4>2 DEF InOrder
      <4>3. CASE k = n + 1
        BY <2>5, <3>1, <4>1, <4>3 DEF Told
      <4>4. QED
        BY <2>5, <4>2, <4>3
    <3>3. ASSUME NEW i \in 1..n + 1, NEW k \in 1..n + 1, i < k, conn'[c].send[i].type = "complete"
          PROVE  conn'[c].send[k].type = "complete"
      <4>1. i \in 1..n /\ conn[c].send[i].type = "complete"
        BY <2>3, <2>5, <3>3
      <4>2. CASE k = n + 1
        BY <2>1, <2>5, <3>1, <4>1, <4>2 DEF Told
      <4>3. CASE k \in 1..n
        <5>1. conn[c].send[k].type = "complete"
          BY <1>3, <2>1, <3>3, <4>1, <4>3 DEF InOrder
        <5>2. QED
          BY <2>5, <4>3, <5>1
      <4>4. QED
        BY <2>5, <4>2, <4>3
    <3>4. \A d \in Watchers : d # c => conn'[d] = conn[d]
      BY <2>4
    <3>5. QED
      BY <2>5, <3>2, <3>3, <3>4 DEF InOrder
  <2>12. QED
    BY <1>7, <2>6, <2>7, <2>8, <2>10, <2>11
<1>10. QED
  BY <1>2, <1>8, <1>9 DEF HubHands

LEMMA TurnOver == ASSUME ProgInv, HubDone PROVE ProgInv'
<1> USE DEF ProgInv
<1>1. hub' = NoTurn /\ UNCHANGED <<work, subs, room, bcast, conn>>
  BY DEF HubDone
<1>2. <<>> \in Seq(Watchers) /\ Len(<<>>) = 0
  BY EmptySeq
<1>3. hub' \in HubType /\ hub'.next \in 1..Len(hub'.slice) + 1 /\ hub'.slice = <<>> /\ hub'.msg = NoMsg
  BY <1>1, <1>2 DEF HubType, NoTurn
<1>4. ProgTypeOK'
  BY <1>1, <1>3 DEF ProgTypeOK
<1>5. WorkSound' /\ Subscribed' /\ InOrder' /\ LastInQueue'
  BY <1>1 DEF WorkSound, Subscribed, Listed, InOrder, LastInQueue, Over
<1>6. Sliced' /\ LastAtHub'
  BY <1>1, <1>2, <1>3, Messages DEF Sliced, LastAtHub
<1>7. LastForClients'
  BY <1>1, <1>3, Messages, Places DEF LastForClients, LastFor, Told, Over, OnItsWay
<1>8. QED
  BY <1>4, <1>5, <1>6, <1>7
-----------------------------------------------------------------------------
(* The connections.                                                         *)

\* A client that stalls, reads on or leaves is handed nothing by that.
LEMMA ClientMoves ==
  ASSUME ProgInv, NEW c \in Watchers, NEW to \in {"reads", "stalled", "left"}, ViewerChanges(c, to)
  PROVE  ProgInv'
<1> USE DEF ProgInv
<1>1. conn' = [conn EXCEPT ![c].client = to] /\ UNCHANGED <<work, subs, room, bcast, hub>>
  BY DEF ViewerChanges
<1>2. /\ conn' \in [Watchers -> ConnType]
      /\ \A d \in Watchers : /\ conn'[d].job = conn[d].job /\ conn'[d].at = conn[d].at
                             /\ conn'[d].send = conn[d].send /\ conn'[d].heard = conn[d].heard
  BY <1>1 DEF ProgTypeOK, ConnType
<1>5. ProgTypeOK'
  BY <1>1, <1>2 DEF ProgTypeOK
<1>6. WorkSound' /\ LastInQueue' /\ LastAtHub'
  BY <1>1 DEF WorkSound, LastInQueue, LastAtHub, Over, OnItsWay
<1>7. Sliced' /\ Subscribed'
  BY <1>1, <1>2, SlicesKept
<1>8. InOrder' /\ LastForClients'
  BY <1>1, <1>2 DEF InOrder, LastForClients, LastFor, Told, Over, OnItsWay
<1>9. QED
  BY <1>5, <1>6, <1>7, <1>8

LEMMA Written ==
  ASSUME ProgInv, NEW c \in Watchers, HandlerWrites(c) PROVE ProgInv'
<1> USE DEF ProgInv
<1> DEFINE s == conn[c].send
<1>1. /\ s # <<>> /\ UNCHANGED <<work, subs, room, bcast, hub>>
      /\ conn' = [conn EXCEPT ![c].send = Tail(@),
                    ![c].heard = IF conn[c].client = "reads" THEN Head(conn[c].send).type ELSE @]
  BY DEF HandlerWrites, Served
<1>2. conn \in [Watchers -> ConnType] /\ s \in Seq(Message) /\ Len(s) <= SendCap
      /\ conn[c].heard \in {"progress", "complete"}
  BY DEF ProgTypeOK, ConnType
<1>3. /\ Head(s) = s[1] /\ Tail(s) \in Seq(Message) /\ Len(Tail(s)) = Len(s) - 1
      /\ \A k \in 1..Len(Tail(s)) : Tail(s)[k] = s[k + 1]
      /\ Len(s) \in Nat /\ Len(s) > 0
  BY <1>1, <1>2, HeadTailProperties, EmptySeq, LenProperties
<1>4. s[1] \in Message /\ s[1].type \in {"progress", "complete"}
  BY <1>2, <1>3, Messages, ElementOfSeq
<1>5. /\ conn' \in [Watchers -> ConnType] /\ conn'[c].send = Tail(s)
      /\ conn'[c].heard \in {conn[c].heard, s[1].type}
      /\ \A d \in Watchers : d # c => conn'[d] = conn[d]
      /\ \A d \in Watchers : conn'[d].job = conn[d].job /\ conn'[d].at = conn[d].at
  <2>1. PICK h \in {conn[c].heard, s[1].type} : conn' = [conn EXCEPT ![c].send = Tail(@), ![c].heard = h]
    BY <1>1, <1>2, <1>3
  <2>2. h \in {"progress", "complete"}
    BY <1>2, <1>4
  <2>3. PICK r : r = [conn[c] EXCEPT !.send = Tail(@), !.heard = h]
    OBVIOUS
  <2>4. r \in ConnType /\ r.send = Tail(s) /\ r.heard = h /\ r.job = conn[c].job /\ r.at = conn[c].at
    BY <1>2, <1>3, <2>2, <2>3 DEF ConnType
  <2>5. conn' = [conn EXCEPT ![c] = r]
    BY <1>2, <2>1, <2>3
  <2>6. conn' \in [Watchers -> ConnType] /\ conn'[c] = r /\ \A d \in Watchers : d # c => conn'[d] = conn[d]
    BY <1>2, <2>4, <2>5
  <2> HIDE DEF s
  <2>7. QED
    BY <2>1, <2>4, <2>6
<1>6. /\ conn[c].heard = "complete" => \A k \in 1..Len(s) : s[k].type = "complete"
      /\ \A i, k \in 1..Len(s) : i < k /\ s[i].type = "complete" => s[k].type = "complete"
  BY DEF InOrder
<1>7. \A d \in Watchers : Told(d)' => Told(d)
  <2>1. Told(c) <=> conn[c].heard = "complete" \/ \E k \in 1..Len(s) : s[k].type = "complete"
    BY DEF Told
  <2>2. Told(c)' <=> conn'[c].heard = "complete" \/ \E k \in 1..Len(Tail(s)) : Tail(s)[k].type = "complete"
    BY <1>5 DEF Told
  <2> HIDE DEF s
  <2>3. \A k \in 1..Len(Tail(s)) : k + 1 \in 1..Len(s)
    BY <1>3
  <2>4. 1 \in 1..Len(s)
    BY <1>3
  <2>5. Told(c)' => Told(c)
    BY <1>3, <1>5, <2>1, <2>2, <2>3, <2>4
  <2>6. QED
    BY <1>5, <2>5 DEF Told
<1>8. InOrder'
  <2> DEFINE t == Tail(s)  h == conn'[c].heard
  <2>1. /\ h = "complete" => \A k \in 1..Len(t) : t[k].type = "complete"
        /\ \A i, k \in 1..Len(t) : i < k /\ t[i].type = "complete" => t[k].type = "complete"
    <3> HIDE DEF s
    <3>1. \A k \in 1..Len(t) : t[k] = s[k + 1] /\ k + 1 \in 1..Len(s) /\ 1 < k + 1
      BY <1>3
    <3>2. 1 \in 1..Len(s)
      BY <1>3
    <3>3. ASSUME h = "complete", NEW k \in 1..Len(t) PROVE t[k].type = "complete"
      <4>1. CASE conn[c].heard = "complete"
        BY <1>6, <3>1, <4>1
      <4>2. CASE s[1].type = "complete"
        BY <1>6, <3>1, <3>2, <4>2
      <4>3. QED
        BY <1>5, <3>3, <4>1, <4>2
    <3>4. ASSUME NEW i \in 1..Len(t), NEW k \in 1..Len(t), i < k, t[i].type = "complete"
          PROVE  t[k].type = "complete"
      <4>1. i + 1 < k + 1
        BY <1>3, <3>4
      <4>2. QED
        BY <1>6, <3>1, <3>4, <4>1
    <3>5. QED
      BY <3>3, <3>4
  <2>2. conn'[c].send = t
    BY <1>5
  <2> HIDE DEF t
  <2>3. QED
    BY <1>5, <2>1, <2>2 DEF InOrder
<1>9. ProgTypeOK'
  <2>1. Len(conn'[c].send) <= SendCap
    BY <1>2, <1>3, <1>5, Places
  <2>2. \A d \in Watchers : Len(conn'[d].send) <= SendCap
    BY <1>5, <2>1 DEF ProgTypeOK
  <2>3. QED
    BY <1>1, <1>5, <2>2 DEF ProgTypeOK
<1>10. Sliced' /\ Subscribed'
  BY <1>1, <1>5, SlicesKept
<1>11. WorkSound' /\ LastInQueue' /\ LastAtHub'
  BY <1>1 DEF WorkSound, LastInQueue, LastAtHub, Over, OnItsWay
<1>12. LastForClients'
  BY <1>1, <1>5, <1>7 DEF LastForClients, LastFor, Over, OnItsWay
<1>13. QED
  BY <1>8, <1>9, <1>10, <1>11, <1>12

\* What a write to the array of job j leaves of the hub's turn.
LEMMA ArrayKeeps ==
  ASSUME ProgInv, NEW j \in Tracked, NEW i \in Nat, NEW cells \in Seq(Watchers), ArrayWritten(j, i, cells)
  PROVE  /\ hub' \in HubType /\ hub'.msg = hub.msg /\ hub'.next = hub.next
         /\ Len(hub'.slice) = Len(hub.slice)
         /\ \A k \in 1..Len(hub.slice) : \/ hub'.slice[k] = hub.slice[k]
                                         \/ /\ hub.msg.job = j
                                            /\ \E l \in 1..Len(cells) : hub'.slice[k] = cells[l]
<1>1. hub \in HubType /\ hub.slice \in Seq(Watchers) /\ Len(hub.slice) \in Nat /\ Len(cells) \in Nat
  BY LenProperties DEF ProgInv, ProgTypeOK, HubType
<1>2. CASE hub.msg.job = j /\ hub.shared
  <2> DEFINE t == [k \in DOMAIN hub.slice |->
                     IF k \in i..i + Len(cells) - 1 THEN cells[k - i + 1] ELSE hub.slice[k]]
  <2>1. hub' = [hub EXCEPT !.slice = t]
    BY <1>2 DEF ArrayWritten
  <2>2. DOMAIN hub.slice = 1..Len(hub.slice)
    BY <1>1, LenProperties
  <2>3. ASSUME NEW k \in 1..Len(hub.slice)
        PROVE  /\ t[k] \in Watchers
               /\ t[k] = hub.slice[k] \/ \E l \in 1..Len(cells) : t[k] = cells[l]
    <3>1. CASE k \in i..i + Len(cells) - 1
      <4>1. t[k] = cells[k - i + 1]
        BY <2>2, <3>1
      <4>2. k - i + 1 \in 1..Len(cells)
        BY <1>1, <3>1
      <4>3. cells[k - i + 1] \in Watchers
        BY <4>2, ElementOfSeq
      <4>4. QED
        BY <4>1, <4>2, <4>3
    <3>2. CASE ~ (k \in i..i + Len(cells) - 1)
      <4>1. t[k] = hub.slice[k]
        BY <2>2, <3>2
      <4>2. hub.slice[k] \in Watchers
        BY <1>1, ElementOfSeq
      <4>3. QED
        BY <4>1, <4>2
    <3>3. QED
      BY <3>1, <3>2
  <2>4. t = [k \in 1..Len(hub.slice) |-> t[k]]
    BY <2>2
  <2> HIDE DEF t
  <2>5. PICK n \in Nat : n = Len(hub.slice)
    BY <1>1
  <2>6. t \in [1..n -> Watchers]
    BY <2>3, <2>4, <2>5
  <2>7. t \in Seq(Watchers) /\ Len(t) = n
    BY <2>5, <2>6, SeqDef, LenProperties
  <2>8. hub' \in HubType /\ hub'.msg = hub.msg /\ hub'.next = hub.next /\ hub'.slice = t
    BY <1>1, <2>1, <2>7 DEF HubType
  <2>9. QED
    BY <1>2, <2>3, <2>5, <2>7, <2>8
<1>3. CASE ~ (hub.msg.job = j /\ hub.shared)
  BY <1>1, <1>3 DEF ArrayWritten
<1>4. QED
  BY <1>2, <1>3

\* A new array leaves the hub the old one.
LEMMA NewArrayKeeps ==
  ASSUME ProgInv, hub' \in {hub, [hub EXCEPT !.shared = FALSE]}
  PROVE  hub' \in HubType /\ hub'.msg = hub.msg /\ hub'.next = hub.next /\ hub'.slice = hub.slice
  BY DEF ProgInv, ProgTypeOK, HubType

\* A connection that has no job yet is in no slice.
LEMMA NotListed ==
  ASSUME ProgInv, NEW c \in Watchers, conn[c].job = NoTrack
  PROVE  /\ \A j \in Tracked : \A i \in 1..Len(subs[j]) : subs[j][i] # c
         /\ \A i \in 1..Len(hub.slice) : hub.slice[i] # c
         /\ ~ Told(c)
<1>1. \A j \in Tracked : \A i \in 1..Len(subs[j]) : subs[j][i] # c
  BY Places DEF ProgInv, Sliced
<1>2. ASSUME NEW i \in 1..Len(hub.slice) PROVE hub.slice[i] # c
  <2>1. hub.msg # NoMsg /\ conn[hub.slice[i]].job = hub.msg.job /\ hub.msg \in Message \cup {NoMsg}
    BY DEF ProgInv, Sliced, ProgTypeOK, HubType
  <2>2. hub.msg.job \in Tracked
    BY <2>1, Messages
  <2>3. QED
    BY <2>1, <2>2, Places
<1>3. ~ Told(c)
  BY Places DEF ProgInv, LastForClients, LastFor
<1>4. QED
  BY <1>1, <1>2, <1>3

LEMMA Joined == ASSUME ProgInv, NEW c \in Watchers, NEW j \in Tracked, Joins(c, j) PROVE ProgInv'
<1> USE DEF ProgInv
<1>1. /\ conn' = [conn EXCEPT ![c].at = "served", ![c].job = j] /\ UNCHANGED <<work, bcast>>
      /\ conn[c].at = "unused" /\ Subscribe(c, j)
  BY DEF Joins
<1>2. conn[c].job = NoTrack
  BY <1>1 DEF Subscribed
<1>3. /\ conn' \in [Watchers -> ConnType] /\ conn'[c].at = "served" /\ conn'[c].job = j
      /\ \A d \in Watchers : d # c => conn'[d] = conn[d]
      /\ \A d \in Watchers : conn'[d].send = conn[d].send /\ conn'[d].heard = conn[d].heard
  <2>1. conn \in [Watchers -> ConnType] /\ conn[c] \in ConnType
    BY DEF ProgTypeOK
  <2>2. PICK r : r = [conn[c] EXCEPT !.at = "served", !.job = j]
    OBVIOUS
  <2>3. /\ r \in ConnType /\ r.at = "served" /\ r.job = j
        /\ r.send = conn[c].send /\ r.heard = conn[c].heard
    BY <2>1, <2>2 DEF ConnType
  <2>4. conn' = [conn EXCEPT ![c] = r]
    BY <1>1, <2>1, <2>2
  <2>5. QED
    BY <2>1, <2>3, <2>4
<1>4. PICK n : n = Len(subs[j])
  OBVIOUS
<1>5. /\ subs \in [Tracked -> Seq(Watchers)] /\ room \in [Tracked -> Nat] /\ n \in Nat /\ n <= room[j]
      /\ \A k \in Tracked : Len(subs[k]) <= room[k]
  BY <1>4, LenProperties DEF ProgTypeOK
<1>6. PICK s : s = Append(subs[j], c)
  OBVIOUS
<1>7. /\ s \in Seq(Watchers) /\ Len(s) = n + 1 /\ s[n + 1] = c
      /\ \A k \in 1..n : s[k] = subs[j][k]
      /\ \A k \in 1..n + 1 : k \in 1..n \/ k = n + 1
  BY <1>4, <1>5, <1>6, AppendProperties
<1>8. /\ subs' \in [Tracked -> Seq(Watchers)] /\ subs'[j] = s
      /\ \A k \in Tracked : k # j => subs'[k] = subs[k]
  BY <1>1, <1>5, <1>6, <1>7 DEF Subscribe
<1>9. room' \in [Tracked -> Nat] /\ \A k \in Tracked : Len(subs'[k]) <= room'[k]
  <2>1. CASE n < room[j] /\ room' = room
    <3>1. Len(subs'[j]) <= room'[j]
      BY <1>5, <1>7, <1>8, <2>1
    <3>2. \A k \in Tracked : k # j => Len(subs'[k]) <= room'[k]
      BY <1>5, <1>8, <2>1
    <3>3. QED
      BY <1>5, <2>1, <3>1, <3>2
  <2>2. CASE room' = [room EXCEPT ![j] = IF n = 0 THEN 1 ELSE 2 * n]
    <3>1. PICK r \in Nat : r = (IF n = 0 THEN 1 ELSE 2 * n) /\ n + 1 <= r
      BY <1>5
    <3>2. room' = [room EXCEPT ![j] = r]
      BY <2>2, <3>1
    <3>3. QED
      BY <1>5, <1>7, <1>8, <3>1, <3>2
  <2>3. QED
    BY <1>1, <1>4, <2>1, <2>2 DEF Subscribe
<1>10. /\ hub' \in HubType /\ hub'.msg = hub.msg /\ hub'.next = hub.next
       /\ Len(hub'.slice) = Len(hub.slice)
       /\ \A k \in 1..Len(hub.slice) : \/ hub'.slice[k] = hub.slice[k]
                                       \/ hub.msg.job = j /\ hub'.slice[k] = c
  <2>1. CASE ArrayWritten(j, n + 1, <<c>>)
    <3>1. PICK cells : cells = <<c>>
      OBVIOUS
    <3>2. cells \in Seq(Watchers) /\ \A l \in 1..Len(cells) : cells[l] = c
      BY <3>1
    <3>3. PICK i \in Nat : i = n + 1
      BY <1>5
    <3>4. ArrayWritten(j, i, cells)
      BY <2>1, <3>1, <3>3
    <3>5. QED
      BY <3>2, <3>4, ArrayKeeps
  <2>2. CASE hub' \in {hub, [hub EXCEPT !.shared = FALSE]}
    BY <2>2, NewArrayKeeps
  <2>3. QED
    BY <1>1, <1>4, <2>1, <2>2 DEF Subscribe
<1>11. ProgTypeOK'
  <2>1. \A d \in Watchers : Len(conn'[d].send) <= SendCap
    BY <1>3 DEF ProgTypeOK
  <2>2. hub'.next \in 1..Len(hub'.slice) + 1
    BY <1>10 DEF ProgTypeOK
  <2>3. QED
    BY <1>1, <1>3, <1>8, <1>9, <1>10, <2>1, <2>2 DEF ProgTypeOK
<1>12. Sliced'
  <2>1. ASSUME NEW k \in Tracked, NEW i \in 1..Len(subs'[k]) PROVE conn'[subs'[k][i]].job = k
    <3>1. CASE k = j /\ i = n + 1
      BY <1>3, <1>7, <1>8, <3>1
    <3>2. CASE i \in 1..Len(subs[k]) /\ subs'[k][i] = subs[k][i]
      <4>1. subs[k][i] \in Watchers /\ subs[k][i] # c
        BY <1>2, <1>5, <3>2, NotListed, ElementOfSeq
      <4>2. QED
        BY <1>3, <3>2, <4>1 DEF Sliced
    <3>3. QED
      BY <1>4, <1>7, <1>8, <3>1, <3>2
  <2>2. ASSUME NEW i \in 1..Len(hub'.slice) PROVE hub'.msg # NoMsg /\ conn'[hub'.slice[i]].job = hub'.msg.job
    <3>1. i \in 1..Len(hub.slice) /\ hub.msg # NoMsg /\ conn[hub.slice[i]].job = hub.msg.job
      BY <1>10 DEF Sliced
    <3>2. CASE hub'.slice[i] = hub.slice[i]
      <4>1. hub.slice[i] \in Watchers /\ hub.slice[i] # c
        BY <1>2, <3>1, NotListed, ElementOfSeq DEF ProgTypeOK, HubType
      <4>2. QED
        BY <1>3, <1>10, <3>1, <3>2, <4>1
    <3>3. CASE hub.msg.job = j /\ hub'.slice[i] = c
      BY <1>3, <1>10, <3>1, <3>3
    <3>4. QED
      BY <1>10, <3>1, <3>2, <3>3
  <2>3. QED
    BY <2>1, <2>2 DEF Sliced
<1>13. Subscribed'
  <2> SUFFICES ASSUME NEW d \in Watchers
               PROVE  /\ conn'[d].at = "unused" => conn'[d].job = NoTrack
                      /\ conn'[d].at = "served" => conn'[d].job \in Tracked /\ Listed(d)'
    BY DEF Subscribed
  <2>1. CASE d = c
    <3>1. n + 1 \in 1..Len(subs'[j]) /\ subs'[j][n + 1] = c
      BY <1>5, <1>7, <1>8
    <3>2. Listed(c)'
      BY <1>3, <3>1 DEF Listed
    <3>3. QED
      BY <1>3, <2>1, <3>2
  <2>2. CASE d # c
    <3>1. conn'[d] = conn[d]
      BY <1>3, <2>2
    <3>2. ASSUME conn[d].at = "served" PROVE Listed(d)'
      <4>1. PICK k \in Tracked : k = conn[d].job
        BY <3>2 DEF Subscribed
      <4>2. PICK i \in 1..Len(subs[k]) : subs[k][i] = d
        BY <3>2, <4>1 DEF Subscribed, Listed
      <4>3. i \in 1..Len(subs'[k]) /\ subs'[k][i] = d
        <5>1. CASE k = j
          <6>1. i \in 1..n /\ i \in 1..n + 1 /\ s[i] = d
            BY <1>4, <1>5, <1>7, <4>2, <5>1
          <6>2. QED
            BY <1>7, <1>8, <5>1, <6>1
        <5>2. CASE k # j
          BY <1>8, <4>2, <5>2
        <5>3. QED
          BY <5>1, <5>2
      <4>4. QED
        BY <3>1, <4>1, <4>3 DEF Listed
    <3>3. QED
      BY <3>1, <3>2 DEF Subscribed
  <2>3. QED
    BY <2>1, <2>2
<1>14. WorkSound' /\ LastInQueue' /\ LastAtHub' /\ InOrder'
  BY <1>1, <1>3, <1>10 DEF WorkSound, LastInQueue, LastAtHub, Over, OnItsWay, InOrder
<1>15. LastForClients'
  <2> SUFFICES ASSUME NEW d \in Watchers, Told(d)' PROVE LastFor(d)'
    BY DEF LastForClients
  <2>1. Told(d) /\ d # c
    BY <1>2, <1>3, NotListed DEF Told
  <2>2. QED
    BY <1>1, <1>3, <1>10, <2>1 DEF LastForClients, LastFor, Over, OnItsWay
<1>16. QED
  BY <1>11, <1>12, <1>13, <1>14, <1>15

LEMMA Failed == ASSUME ProgInv, NEW c \in Watchers, HandlerFails(c) PROVE ProgInv'
<1> USE DEF ProgInv
<1>1. PICK j \in Tracked : j = conn[c].job /\ \E k \in 1..Len(subs[j]) : subs[j][k] = c
  BY DEF HandlerFails, Served, Subscribed, Listed
<1>2. PICK n : n = Len(subs[j])
  OBVIOUS
<1>3. /\ subs \in [Tracked -> Seq(Watchers)] /\ room \in [Tracked -> Nat] /\ n \in Nat /\ n <= room[j]
      /\ \A k \in Tracked : Len(subs[k]) <= room[k] /\ DOMAIN subs[k] = 1..Len(subs[k])
  BY <1>2, LenProperties DEF ProgTypeOK
<1>4. PICK i : i = CHOOSE k \in DOMAIN subs[j] : subs[j][k] = c
  OBVIOUS
<1>5. i \in 1..n /\ subs[j][i] = c
  BY <1>1, <1>2, <1>3, <1>4
<1>6. PICK s : s = RemoveAt(subs[j], i)
  OBVIOUS
<1>7. /\ s \in Seq(Watchers) /\ Len(s) = n - 1
      /\ \A k \in 1..n - 1 : s[k] = IF k < i THEN subs[j][k] ELSE subs[j][k + 1]
  BY <1>2, <1>3, <1>5, <1>6, Removed
<1>8. PICK cells : cells = SubSeq(subs[j], i + 1, n)
  OBVIOUS
<1>9. /\ conn' = [conn EXCEPT ![c].at = "gone", ![c].client = "left"]
      /\ subs' = [subs EXCEPT ![j] = s] /\ ArrayWritten(j, i, cells)
      /\ room' = [room EXCEPT ![j] = IF n = 1 THEN 0 ELSE @] /\ UNCHANGED <<work, bcast>>
  BY <1>1, <1>2, <1>4, <1>6, <1>8 DEF HandlerFails, Unsubscribe
<1>10. cells \in Seq(Watchers) /\ \A l \in 1..Len(cells) : \E k \in 1..n : cells[l] = subs[j][k]
  <2>1. \A k \in i + 1..n : subs[j][k] \in Watchers
    BY <1>2, <1>3, <1>5, ElementOfSeq
  <2>2. /\ cells \in Seq(Watchers) /\ Len(cells) = (IF i + 1 <= n THEN n - (i + 1) + 1 ELSE 0)
        /\ \A l \in 1..n - (i + 1) + 1 : cells[l] = subs[j][i + 1 + l - 1]
    BY <1>3, <1>5, <1>8, <2>1, SubSeqProperties
  <2>3. \A l \in 1..Len(cells) : l \in 1..n - (i + 1) + 1 /\ i + 1 + l - 1 \in 1..n
    BY <1>3, <1>5, <2>2
  <2>4. QED
    BY <2>2, <2>3
<1>11. /\ hub' \in HubType /\ hub'.msg = hub.msg /\ hub'.next = hub.next
       /\ Len(hub'.slice) = Len(hub.slice)
       /\ \A k \in 1..Len(hub.slice) : \/ hub'.slice[k] = hub.slice[k]
                                       \/ hub.msg.job = j /\ \E l \in 1..n : hub'.slice[k] = subs[j][l]
  BY <1>3, <1>5, <1>9, <1>10, ArrayKeeps
<1>12. /\ conn' \in [Watchers -> ConnType] /\ conn'[c].at = "gone"
       /\ \A d \in Watchers : d # c => conn'[d] = conn[d]
       /\ \A d \in Watchers : /\ conn'[d].send = conn[d].send /\ conn'[d].heard = conn[d].heard
                              /\ conn'[d].job = conn[d].job
  <2>1. conn \in [Watchers -> ConnType] /\ conn[c] \in ConnType
    BY DEF ProgTypeOK
  <2>2. PICK r : r = [conn[c] EXCEPT !.at = "gone", !.client = "left"]
    OBVIOUS
  <2>3. /\ r \in ConnType /\ r.at = "gone" /\ r.job = conn[c].job
        /\ r.send = conn[c].send /\ r.heard = conn[c].heard
    BY <2>1, <2>2 DEF ConnType
  <2>4. conn' = [conn EXCEPT ![c] = r]
    BY <1>9, <2>1, <2>2
  <2>5. QED
    BY <2>1, <2>3, <2>4
<1>13. /\ subs' \in [Tracked -> Seq(Watchers)] /\ subs'[j] = s
       /\ \A k \in Tracked : k # j => subs'[k] = subs[k]
  BY <1>3, <1>7, <1>9
<1>14. room' \in [Tracked -> Nat] /\ \A k \in Tracked : Len(subs'[k]) <= room'[k]
  <2>1. PICK r \in Nat : r = (IF n = 1 THEN 0 ELSE room[j]) /\ n - 1 <= r
    BY <1>3, <1>5
  <2>2. room' = [room EXCEPT ![j] = r]
    BY <1>9, <2>1
  <2>3. QED
    BY <1>3, <1>7, <1>13, <2>1, <2>2
<1>15. ProgTypeOK'
  <2>1. \A d \in Watchers : Len(conn'[d].send) <= SendCap
    BY <1>12 DEF ProgTypeOK
  <2>2. hub'.next \in 1..Len(hub'.slice) + 1
    BY <1>11 DEF ProgTypeOK
  <2>3. QED
    BY <1>9, <1>11, <1>12, <1>13, <1>14, <2>1, <2>2 DEF ProgTypeOK
<1>16. Sliced'
  <2>1. ASSUME NEW k \in Tracked, NEW l \in 1..Len(subs'[k]) PROVE conn'[subs'[k][l]].job = k
    <3>1. PICK p \in 1..Len(subs[k]) : subs'[k][l] = subs[k][p]
      <4>1. CASE k = j
        <5>1. l \in 1..n - 1 /\ subs'[k][l] = s[l]
          BY <1>7, <1>13, <4>1
        <5>2. l \in 1..n /\ l + 1 \in 1..n
          BY <1>3, <5>1
        <5>3. QED
          BY <1>2, <1>7, <4>1, <5>1, <5>2
      <4>2. CASE k # j
        BY <1>13, <4>2
      <4>3. QED
        BY <4>1, <4>2
    <3>2. subs[k][p] \in Watchers
      BY <1>3, ElementOfSeq
    <3>3. QED
      BY <1>12, <3>1, <3>2 DEF Sliced
  <2>2. ASSUME NEW l \in 1..Len(hub'.slice) PROVE hub'.msg # NoMsg /\ conn'[hub'.slice[l]].job = hub'.msg.job
    <3>1. l \in 1..Len(hub.slice) /\ hub.msg # NoMsg /\ conn[hub.slice[l]].job = hub.msg.job
      BY <1>11 DEF Sliced
    <3>2. CASE hub'.slice[l] = hub.slice[l]
      <4>1. hub.slice[l] \in Watchers
        BY <3>1, ElementOfSeq DEF ProgTypeOK, HubType
      <4>2. QED
        BY <1>11, <1>12, <3>1, <3>2, <4>1
    <3>3. CASE hub.msg.job = j /\ \E p \in 1..n : hub'.slice[l] = subs[j][p]
      <4>1. PICK p \in 1..n : hub'.slice[l] = subs[j][p]
        BY <3>3
      <4>2. subs[j][p] \in Watchers /\ conn[subs[j][p]].job = j
        BY <1>2, <1>3, ElementOfSeq DEF Sliced
      <4>3. QED
        BY <1>11, <1>12, <3>1, <3>3, <4>1, <4>2
    <3>4. QED
      BY <1>11, <3>1, <3>2, <3>3
  <2>3. QED
    BY <2>1, <2>2 DEF Sliced
<1>17. Subscribed'
  <2> SUFFICES ASSUME NEW d \in Watchers, d # c
               PROVE  /\ conn'[d].at = "unused" => conn'[d].job = NoTrack
                      /\ conn'[d].at = "served" => conn'[d].job \in Tracked /\ Listed(d)'
    BY <1>12 DEF Subscribed
  <2>1. conn'[d] = conn[d]
    BY <1>12
  <2>2. ASSUME conn[d].at = "served" PROVE Listed(d)'
    <3>1. PICK k \in Tracked : k = conn[d].job
      BY <2>2 DEF Subscribed
    <3>2. PICK p \in 1..Len(subs[k]) : subs[k][p] = d
      BY <2>2, <3>1 DEF Subscribed, Listed
    <3>3. \E q \in 1..Len(subs'[k]) : subs'[k][q] = d
      <4>1. CASE k # j
        BY <1>13, <3>2, <4>1
      <4>2. CASE k = j /\ p < i
        <5>1. p \in 1..n - 1 /\ s[p] = d
          BY <1>2, <1>3, <1>5, <1>7, <3>2, <4>2
        <5>2. QED
          BY <1>7, <1>13, <4>2, <5>1
      <4>3. CASE k = j /\ p > i
        <5>1. p - 1 \in 1..n - 1 /\ ~ (p - 1 < i) /\ p - 1 + 1 = p
          BY <1>2, <1>3, <1>5, <4>3
        <5>2. s[p - 1] = d
          BY <1>7, <3>2, <4>3, <5>1
        <5>3. QED
          BY <1>7, <1>13, <4>3, <5>1, <5>2
      <4>4. p # i \/ k # j
        BY <1>5, <3>2
      <4>5. p \in Nat /\ i \in Nat
        BY <1>3, <1>5
      <4>6. QED
        BY <4>1, <4>2, <4>3, <4>4, <4>5
    <3>4. QED
      BY <2>1, <3>1, <3>3 DEF Listed
  <2>3. QED
    BY <2>1, <2>2 DEF Subscribed
<1>18. WorkSound' /\ LastInQueue' /\ LastAtHub' /\ InOrder'
  BY <1>9, <1>11, <1>12 DEF WorkSound, LastInQueue, LastAtHub, Over, OnItsWay, InOrder
<1>19. LastForClients'
  BY <1>9, <1>11, <1>12 DEF LastForClients, LastFor, Told, Over, OnItsWay
<1>20. QED
  BY <1>15, <1>16, <1>17, <1>18, <1>19
-----------------------------------------------------------------------------
LEMMA ProgStep == ProgInv /\ [ProgNext]_progVars => ProgInv'
<1> SUFFICES ASSUME ProgInv, [ProgNext]_progVars PROVE ProgInv'
  OBVIOUS
<1>1. CASE HubRuns
  BY <1>1, Taken, Handed, TurnOver DEF HubRuns
<1>2. ASSUME NEW c \in Watchers, HandlerRuns(c) PROVE ProgInv'
  BY <1>2, Written, Failed DEF HandlerRuns
<1>3. ASSUME NEW c \in Watchers, NEW to \in {"reads", "stalled", "left"}, ViewerChanges(c, to) PROVE ProgInv'
  BY <1>3, ClientMoves
<1>4. ASSUME NEW j \in Tracked, \/ JobEnqueued(j) \/ WorkerRuns(j)
                                \/ FlasherReports(j) \/ ForwardReport(j) \/ StreamerRuns(j)
      PROVE  ProgInv'
  BY <1>4, JobRuns
<1>5. ASSUME NEW c \in Watchers, NEW j \in Tracked, Joins(c, j) PROVE ProgInv'
  BY <1>5, Joined
<1>6. CASE UNCHANGED progVars
  <2>1. UNCHANGED <<work, subs, room, bcast, hub, conn>>
    BY <1>6 DEF progVars
  <2>2. ProgTypeOK' /\ WorkSound' /\ Sliced' /\ Subscribed'
    BY <2>1 DEF ProgInv, ProgTypeOK, WorkSound, Sliced, Subscribed, Listed
  <2>3. LastInQueue' /\ LastAtHub' /\ LastForClients' /\ InOrder'
    BY <2>1 DEF ProgInv, LastInQueue, LastAtHub, LastForClients, LastFor, InOrder, Told, Over, OnItsWay
  <2>4. QED
    BY <2>2, <2>3 DEF ProgInv
<1>7. QED
  BY <1>1, <1>2, <1>3, <1>4, <1>5, <1>6 DEF ProgNext

LEMMA ProgInvariant == ProgSpec => []ProgInv
  BY ProgInitInv, ProgStep, PTL DEF ProgSpec

\* What a client heard, followed by what it will hear, is in order.
LEMMA InOrderIsOrder == ProgInv => OrderKept
<1> SUFFICES ASSUME ProgInv, NEW c \in Watchers
             PROVE  LET sent == <<conn[c].heard>> \o [i \in DOMAIN conn[c].send |-> conn[c].send[i].type]
                    IN  \A i, k \in DOMAIN sent : i < k /\ sent[i] = "complete" => sent[k] = "complete"
  BY DEF OrderKept
<1>1. PICK s : s = conn[c].send
  OBVIOUS
<1>2. PICK h : h = conn[c].heard
  OBVIOUS
<1>3. /\ s \in Seq(Message) /\ Len(s) \in Nat /\ DOMAIN s = 1..Len(s) /\ h \in {"progress", "complete"}
      /\ \A i \in 1..Len(s) : s[i].type \in {"progress", "complete"}
  <2>1. s \in Seq(Message) /\ h \in {"progress", "complete"}
    BY <1>1, <1>2 DEF ProgInv, ProgTypeOK, ConnType
  <2>2. QED
    BY <2>1, LenProperties, ElementOfSeq, Messages
<1>4. /\ h = "complete" => \A k \in 1..Len(s) : s[k].type = "complete"
      /\ \A i, k \in 1..Len(s) : i < k /\ s[i].type = "complete" => s[k].type = "complete"
  BY <1>1, <1>2 DEF ProgInv, InOrder
<1> DEFINE a == <<h>>  b == [i \in DOMAIN s |-> s[i].type]  sent == a \o b
<1>5. a \in Seq({"progress", "complete"}) /\ Len(a) = 1 /\ a[1] = h
  BY <1>3
<1>6. b \in Seq({"progress", "complete"}) /\ Len(b) = Len(s) /\ \A i \in 1..Len(s) : b[i] = s[i].type
  <2>1. PICK n \in Nat : n = Len(s)
    BY <1>3
  <2>2. b \in [1..n -> {"progress", "complete"}]
    BY <1>3, <2>1
  <2>3. b \in Seq({"progress", "complete"}) /\ Len(b) = n
    BY <2>1, <2>2, SeqDef, LenProperties
  <2>4. \A i \in 1..Len(s) : b[i] = s[i].type
    BY <1>3
  <2>5. QED
    BY <2>1, <2>3, <2>4
<1> HIDE DEF a, b
<1>7. /\ Len(sent) = 1 + Len(s) /\ sent \in Seq({"progress", "complete"})
      /\ \A k \in 1..1 + Len(s) : sent[k] = IF k <= 1 THEN a[k] ELSE b[k - 1]
  BY <1>3, <1>5, <1>6, ConcatProperties, SMTT(30)
<1>8. DOMAIN sent = 1..1 + Len(s)
  BY <1>7, LenProperties
<1> HIDE DEF sent
<1>9. ASSUME NEW i \in 1..1 + Len(s), NEW k \in 1..1 + Len(s), i < k, sent[i] = "complete"
      PROVE  sent[k] = "complete"
  <2>1. k - 1 \in 1..Len(s) /\ sent[k] = s[k - 1].type
    <3>1. k - 1 \in 1..Len(s) /\ ~ (k <= 1)
      BY <1>3, <1>9
    <3>2. sent[k] = b[k - 1]
      BY <1>7, <3>1
    <3>3. QED
      BY <1>6, <3>1, <3>2
  <2>2. CASE i = 1
    BY <1>3, <1>4, <1>5, <1>7, <1>9, <2>1, <2>2
  <2>3. CASE i > 1
    <3>1. i - 1 \in 1..Len(s) /\ sent[i] = s[i - 1].type /\ i - 1 < k - 1
      BY <1>3, <1>6, <1>7, <1>9, <2>3
    <3>2. QED
      BY <1>4, <1>9, <2>1, <3>1
  <2>4. QED
    BY <1>3, <2>2, <2>3
<1>10. QED
  BY <1>1, <1>2, <1>8, <1>9 DEF sent, a, b

\* Type correctness of the progress hub.
THEOREM ProgressTypes == ProgSpec => []ProgTypeOK
<1>1. ProgInv => ProgTypeOK
  BY DEF ProgInv
<1>2. QED
  BY <1>1, ProgInvariant, PTL

\* No client is sent a progress report after the completion of its job, however many
\* jobs, clients and places of the channels there are (the streamer, the goroutines of
\* executeFlash and the hub's loop over a slice that Subscribe and Unsubscribe write to).
THEOREM ProgressOrder == ProgSpec => []OrderKept
  BY InOrderIsOrder, ProgInvariant, PTL
=============================================================================
