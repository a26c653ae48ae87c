--------------------------- MODULE DeviceCatalog ---------------------------
(***************************************************************************)
(* Which board is which: the device records of the store with their two    *)
(* indices (internal/persistence/device.go), the devices a leader has in   *)
(* memory, the mapping of espbrew.toml, and the handlers that change them  *)
(* (internal/cluster/leader.go; api.go, device_protect.go and              *)
(* device_disable.go of internal/http).                                    *)
(*                                                                         *)
(* A board is named by its MAC, and so is the id "esp-<MAC>" that a probe  *)
(* gives it.  Ids are numbered in the order of their keys in the bucket.   *)
(* Boards have native USB: their serial number is their MAC.  Watcher      *)
(* events are taken as they are raised (DeviceWatch has the channel), and  *)
(* virtual and power-managed boards are left out.                          *)
(***************************************************************************)
EXTENDS Naturals, FiniteSets

CONSTANTS NBoards,  \* boards
          NNames,   \* manual ids that can be generated
          Ports,    \* device paths
          NoPort,   \* no path
          Aliases,  \* aliases of boards
          Mappings, \* entries of espbrew.toml
          MaxRequests \* bound on the requests served

Boards == 1..NBoards
Ids == 1..NBoards + NNames   \* "esp-..." before "manual-..."
None == 0
Marks == {"disabled", "protected"}

Record == [mac : Boards \cup {None}, path : Ports \cup {NoPort}, aliases : SUBSET Aliases,
           marks : SUBSET Marks, own : BOOLEAN]
Device == [id : Ids \cup {None}, mac : Boards \cup {None}, marks : SUBSET Marks]
Mapping == [id : Ids, aliases : SUBSET Aliases, disabled : BOOLEAN]

ASSUME CatalogAssumption ==
  {NBoards, NNames, MaxRequests} \subseteq Nat /\ NoPort \notin Ports /\ Mappings \subseteq Mapping

NoRec == [mac |-> None, path |-> NoPort]
\* The devices bucket, with its MAC and its alias index.
Store == [rec : [Ids -> Record \cup {NoRec}], macs : [Boards -> Ids \cup {None}],
          aliases : [Aliases -> Ids \cup {None}]]
NoDev == [id |-> None]
NoCfg == [aliases |-> {}]

VARIABLES
  store,    \* the devices bucket: records, MAC index, alias index
  next,     \* metaNextManualID
  mem,      \* state.Devices of the leader
  cfg,      \* its espbrew.toml mapping, as read at startup
  file,     \* espbrew.toml
  at,       \* external: the board that is plugged into a port
  seen,     \* ports whose board the watcher has reported
  loaded,   \* Start is over, the API is served
  requests, \* requests served
  pend,     \* a request between reading a record and saving it
  shielded, \* history: boards that were protected, and not unprotected since
  hidden    \* history: records whose entry of an alias another record's save or delete has taken

leaderVars == <<mem, cfg, seen, loaded, pend>>
catVars == <<requests, store, next, leaderVars, file, at, shielded, hidden>>

NoRequest == [id |-> None]

CatTypeOK ==
  /\ store \in Store
  /\ next \in 0..NNames /\ requests \in 0..MaxRequests
  /\ mem \in [Ports -> Device \cup {NoDev}]
  /\ cfg \in [Ports -> Mapping \cup {NoCfg}] /\ file \in [Ports -> Mapping \cup {NoCfg}]
  /\ at \in [Ports -> Boards \cup {None}]
  /\ seen \subseteq Ports /\ loaded \in BOOLEAN
  /\ pend \in {NoRequest} \cup [id : Ids, rec : Record, of : {"probe", "update"}, fresh : BOOLEAN]
  /\ shielded \subseteq Boards /\ hidden \subseteq Ids \X Aliases
-----------------------------------------------------------------------------
(* The store: each operation is one transaction.                            *)

Stored(i) == store.rec[i] # NoRec
Fresh == [mac |-> None, path |-> NoPort, aliases |-> {}, marks |-> {}, own |-> TRUE]

\* Mutant: the index entry of an alias that was dropped stays.
MutantSaveDevice(st, i, r) ==
  LET old  == st.rec[i]
      macs == [m \in Boards |-> IF old # NoRec /\ old.mac = m /\ r.mac # m THEN None ELSE st.macs[m]]
  IN  IF r.mac # None /\ macs[r.mac] \notin {None, i}
        THEN st
        ELSE [rec |-> [st.rec EXCEPT ![i] = r],
              macs |-> [m \in Boards |-> IF r.mac = m THEN i ELSE macs[m]],
              aliases |-> [a \in Aliases |-> IF a \in r.aliases THEN i ELSE st.aliases[a]]]

\* SaveDevice: a MAC belongs to one record, an alias to the last that took it.
\* The index entry of an alias that was dropped goes, whose ever it is.
SaveDevice(st, i, r) ==
  LET old  == st.rec[i]
      macs == [m \in Boards |-> IF old # NoRec /\ old.mac = m /\ r.mac # m THEN None ELSE st.macs[m]]
  IN  IF r.mac # None /\ macs[r.mac] \notin {None, i}
        THEN st
        ELSE [rec |-> [st.rec EXCEPT ![i] = r],
              macs |-> [m \in Boards |-> IF r.mac = m THEN i ELSE macs[m]],
              aliases |-> [a \in Aliases |-> IF a \in r.aliases THEN i
                                             ELSE IF old # NoRec /\ a \in old.aliases THEN None
                                             ELSE st.aliases[a]]]

\* Mutant: the MAC index keeps its entry.
MutantDeleteRecord(st, i) ==
  [rec |-> [st.rec EXCEPT ![i] = NoRec],
   macs |-> st.macs,
   aliases |-> [a \in Aliases |-> IF a \in st.rec[i].aliases THEN None ELSE st.aliases[a]]]

DeleteRecord(st, i) ==
  [rec |-> [st.rec EXCEPT ![i] = NoRec],
   macs |-> [m \in Boards |-> IF st.rec[i].mac = m THEN None ELSE st.macs[m]],
   aliases |-> [a \in Aliases |-> IF a \in st.rec[i].aliases THEN None ELSE st.aliases[a]]]

\* A record, or a device, with a mark set or cleared.
Marked(d, mark, on) == [d EXCEPT !.marks = IF on THEN @ \cup {mark} ELSE @ \ {mark}]

\* SetDeviceDisabled and SetDeviceProtected leave the indices alone.
SetMark(st, i, mark, on) ==
  [rec |-> [st.rec EXCEPT ![i] = Marked(st.rec[i], mark, on)],
   macs |-> st.macs, aliases |-> st.aliases]

\* GetDeviceByPath: of several records with this last path, the first; none is none.
AtPath(p) == {i \in Ids : Stored(i) /\ store.rec[i].path = p}
ByPath(p) == IF AtPath(p) = {} THEN {None} ELSE {i \in AtPath(p) : \A j \in AtPath(p) : i <= j}

AliasesOf(i) == IF Stored(i) THEN store.rec[i].aliases ELSE {}

\* The index entries of these aliases no longer name i but are taken or deleted,
\* although other records have the aliases too.
Hides(i, aliases) ==
  {e \in Ids \X Aliases : e[1] # i /\ e[2] \in AliasesOf(e[1]) /\ e[2] \in aliases}

\* A save hides the aliases that it takes and those that it drops; its own are found.
Save(i, r) ==
  /\ store' = SaveDevice(store, i, r)
  /\ hidden' = IF SaveDevice(store, i, r) = store THEN hidden
               ELSE {e \in hidden \cup Hides(i, r.aliases \cup AliasesOf(i)) : e[1] # i}
-----------------------------------------------------------------------------
(* Boards come and go.                                                      *)

Plug(b, p) ==
  /\ at[p] = None /\ \A q \in Ports : at[q] # b
  /\ at' = [at EXCEPT ![p] = b]
  /\ UNCHANGED <<store, next, leaderVars, file, shielded, hidden>>

\* handleDeviceEvent(DeviceRemoved): the device leaves the memory.
Unplug(p) ==
  /\ at[p] # None /\ p \in seen
  /\ at' = [at EXCEPT ![p] = None]
  /\ seen' = seen \ {p}
  /\ mem' = [mem EXCEPT ![p] = NoDev]
  /\ UNCHANGED <<store, next, cfg, file, loaded, pend, shielded, hidden>>

\* copySoftAttributes from the device in memory, then seedFromRecord: of the
\* marks, only "disabled" is taken from the record.
Seeded(p, i) ==
  LET old == IF mem[p] = NoDev THEN [id |-> None, mac |-> None, marks |-> {}] ELSE mem[p]
      r   == store.rec[i]
  IN  IF i = None
        THEN [id |-> old.id, mac |-> IF old.mac = None THEN at[p] ELSE old.mac, marks |-> old.marks]
        ELSE [id |-> IF old.id = None THEN i ELSE old.id,
              mac |-> IF old.mac = None THEN r.mac ELSE old.mac,
              marks |-> (old.marks \ {"disabled"}) \cup (r.marks \cap {"disabled"})]

\* handleDeviceEvent(DeviceAdded): a record is found by its path; the mapping of
\* espbrew.toml overrides its id, and the record is saved under that one.
DeviceAdded(p, i) ==
  LET r == IF i = None THEN Fresh ELSE store.rec[i]
      c == cfg[p]
  IN  /\ at[p] # None /\ p \notin seen
      /\ i \in ByPath(p)
      /\ seen' = seen \cup {p}
      /\ \/ /\ c # NoCfg /\ c.disabled
            /\ UNCHANGED <<store, mem, hidden>>
         \/ /\ c # NoCfg /\ ~ c.disabled
            /\ mem' = [mem EXCEPT ![p] = [id |-> c.id, mac |-> Seeded(p, i).mac, marks |-> Seeded(p, i).marks]]
            /\ Save(c.id, [r EXCEPT !.path = p, !.own = TRUE, !.aliases = @ \cup c.aliases])
         \/ /\ c = NoCfg
            /\ mem' = [mem EXCEPT ![p] = Seeded(p, i)]
            /\ IF i = None THEN UNCHANGED <<store, hidden>>
                           ELSE Save(i, [r EXCEPT !.path = p, !.own = TRUE])
      /\ UNCHANGED <<next, cfg, file, at, loaded, pend, shielded>>

\* A new process: what is in memory is gone.  The watcher starts before the
\* records are loaded.
Restart ==
  /\ mem' = [p \in Ports |-> NoDev]
  /\ cfg' = file
  /\ seen' = {} /\ loaded' = FALSE /\ pend' = NoRequest
  /\ UNCHANGED <<store, next, file, at, shielded, hidden>>

\* loadPersistedDevices: of several records with one path the last is kept.
LoadPersistedDevices ==
  LET own(p) == {i \in AtPath(p) : store.rec[i].own}
  IN  /\ ~ loaded
      /\ loaded' = TRUE
      /\ \E last \in [Ports -> Ids] :
           /\ \A p \in Ports : own(p) # {} => last[p] \in own(p) /\ \A j \in own(p) : j <= last[p]
           /\ mem' = [p \in Ports |->
                IF own(p) = {} THEN mem[p]
                ELSE [id |-> last[p], mac |-> store.rec[last[p]].mac, marks |-> store.rec[last[p]].marks]]
      /\ UNCHANGED <<store, next, cfg, file, at, seen, pend, shielded, hidden>>
-----------------------------------------------------------------------------
(* Requests.                                                                *)

Serving == loaded /\ pend = NoRequest

\* ProbeDevice: the memory under the leader's lock, then the record, read here
\* and saved by SaveRequest.
ProbeDevice(p) ==
  /\ Serving /\ at[p] # None
  /\ LET b == at[p]
         r == IF Stored(b) THEN store.rec[b] ELSE Fresh
     IN  /\ mem' = [mem EXCEPT ![p] = [id |-> b, mac |-> b,
                                       marks |-> IF mem[p] = NoDev THEN {} ELSE mem[p].marks]]
         /\ pend' = [id |-> b, rec |-> [r EXCEPT !.mac = b, !.path = p, !.own = TRUE],
                     of |-> "probe", fresh |-> FALSE]
  /\ UNCHANGED <<store, next, cfg, file, at, seen, loaded, shielded, hidden>>

\* handleUpdateDevice: the record with the changes of the request.  A board that
\* was addressed by its path gets a new record; a board without an id gets one.
UpdateDevice(r, i, aliases, mac) ==
  LET m     == IF mac = None THEN r.mac ELSE mac
      id    == IF i # None THEN i ELSE IF m # None THEN m ELSE NBoards + next + 1
  IN  /\ Serving
      /\ id \in Ids
      /\ next' = IF i = None /\ m = None THEN next + 1 ELSE next
      /\ pend' = [id |-> id, rec |-> [r EXCEPT !.aliases = aliases, !.mac = m],
                  of |-> "update", fresh |-> i = None]
      /\ UNCHANGED <<store, mem, cfg, file, at, seen, loaded, shielded, hidden>>

UpdateRecord(i, aliases, mac) == Stored(i) /\ UpdateDevice(store.rec[i], i, aliases, mac)

UpdateByPath(p, aliases, mac) ==
  /\ mem[p] # NoDev
  /\ UpdateDevice([Fresh EXCEPT !.mac = mem[p].mac, !.path = p], mem[p].id, aliases, mac)

\* UpdateDeviceInfo for the device at the record's last path, when it looks like
\* the same one - as two do whose MACs are both unknown.
SameDevice(d, i, r, fresh) == d # NoDev /\ (d.id = i \/ d.mac = r.mac \/ (fresh /\ d.id = None))

Identified(d, i, mac) == [id |-> i, mac |-> mac, marks |-> d.marks]

\* Of a probe, an error is only logged.
SaveRequest ==
  LET i == pend.id
      r == pend.rec
      saved == SaveDevice(store, i, r) # store \/ store.rec[i] = r
      stamps == pend.of = "update" /\ saved /\ r.path # NoPort /\ SameDevice(mem[r.path], i, r, pend.fresh)
  IN  /\ pend # NoRequest
      /\ pend' = NoRequest
      /\ Save(i, IF stamps THEN [r EXCEPT !.own = TRUE] ELSE r)
      /\ mem' = IF stamps THEN [mem EXCEPT ![r.path] = Identified(mem[r.path], i, r.mac)] ELSE mem
      /\ UNCHANGED <<next, cfg, file, at, seen, loaded, shielded>>

\* handleAddDevice: a board that cannot be probed.
AddRecord(p, mac, aliases) ==
  LET i == IF mac # None THEN mac ELSE NBoards + next + 1
      known == p # NoPort /\ mem[p] # NoDev
      r == [mac |-> mac, path |-> p, aliases |-> aliases, marks |-> {}, own |-> known]
      saved == SaveDevice(store, i, r) # store
  IN  /\ Serving
      /\ i \in Ids /\ (mac # None => ~ Stored(mac))
      /\ next' = IF mac = None THEN next + 1 ELSE next
      /\ Save(i, r)
      /\ mem' = IF known /\ saved THEN [mem EXCEPT ![p] = Identified(mem[p], i, mac)] ELSE mem
      /\ UNCHANGED <<cfg, file, at, seen, loaded, pend, shielded>>

\* handleDeleteDevice: the record, and one device in memory with its id.
DeleteDevice(i) ==
  LET found == {p \in Ports : mem[p] # NoDev /\ mem[p].id = i}
  IN  /\ Serving
      /\ Stored(i) \/ found # {}
      /\ store' = IF Stored(i) THEN DeleteRecord(store, i) ELSE store
      /\ hidden' = {e \in hidden \cup Hides(i, AliasesOf(i)) : e[1] # i}
      /\ \/ found = {} /\ UNCHANGED mem
         \/ \E p \in found : mem' = [mem EXCEPT ![p] = NoDev]
      /\ UNCHANGED <<next, cfg, file, at, seen, loaded, pend, shielded>>

\* handleForgetDevice.
ForgetDevice(p) ==
  /\ Serving /\ mem[p] # NoDev
  /\ mem' = [mem EXCEPT ![p] = NoDev]
  /\ UNCHANGED <<store, next, cfg, file, at, seen, loaded, pend, shielded, hidden>>

\* UpdateDeviceDisabled, UpdateDeviceProtected: one device with this id, if any.
MarkInMemory(i, mark, on) ==
  LET found == {p \in Ports : mem[p] # NoDev /\ mem[p].id = i}
  IN  \/ found = {} /\ UNCHANGED mem
      \/ \E p \in found :
           mem' = [mem EXCEPT ![p] = Marked(mem[p], mark, on)]

\* handleProtect and handleDisable: the record of the device's id or, if there is
\* none, of its path.  They do not wait for a request that has read it.
Mark(p, i, mark) ==
  /\ loaded /\ mem[p] # NoDev
  /\ Stored(i)
  /\ IF mem[p].id # None /\ Stored(mem[p].id) THEN i = mem[p].id ELSE i \in ByPath(p)
  /\ store' = SetMark(store, i, mark, TRUE)
  /\ MarkInMemory(i, mark, TRUE)
  /\ shielded' = IF mark = "protected" THEN shielded \cup ({at[p]} \ {None}) ELSE shielded
  /\ UNCHANGED <<next, cfg, file, at, seen, loaded, pend, hidden>>

\* handleUnprotect and handleEnable.
Unmark(i, mark) ==
  /\ loaded /\ Stored(i) /\ mark \in store.rec[i].marks
  /\ store' = SetMark(store, i, mark, FALSE)
  /\ MarkInMemory(i, mark, FALSE)
  /\ shielded' = IF mark = "protected"
                   THEN shielded \ ({i, store.rec[i].mac}
                                      \cup {at[p] : p \in {q \in Ports : mem[q] # NoDev /\ mem[q].id = i}})
                   ELSE shielded
  /\ UNCHANGED <<next, cfg, file, at, seen, loaded, pend, hidden>>

\* applyDeviceState: the device in memory takes the id that the mapping of startup
\* has for its port.
Stamped(p) ==
  IF mem[p] = NoDev \/ cfg[p] = NoCfg THEN mem[p] ELSE [mem[p] EXCEPT !.id = cfg[p].id]

\* AddDevice: the mapping that was read at startup, with this entry, is written;
\* the mapping itself does not change, and it is the old entry that is stamped.
AddDevice(p, c) ==
  /\ Serving
  /\ file' = [cfg EXCEPT ![p] = c]
  /\ mem' = [mem EXCEPT ![p] = Stamped(p)]
  /\ UNCHANGED <<store, next, cfg, seen, loaded, pend, at, shielded, hidden>>

\* RemoveDevice.
RemoveDevice(p) ==
  /\ Serving /\ cfg[p] # NoCfg
  /\ file' = [cfg EXCEPT ![p] = NoCfg]
  /\ UNCHANGED <<store, next, leaderVars, at, shielded, hidden>>

\* Discover: of the ports that were asked for, by default those without an id,
\* the ones whose board answered in time.
Answering == {p \in Ports : at[p] # None}

\* DiscoverAndSave calls AddDevice for one after the other: the last one's entry stays.
DiscoverAndSave(found, last) ==
  /\ Serving /\ found \subseteq Answering /\ last \in found
  /\ file' = [cfg EXCEPT ![last] = [id |-> at[last], aliases |-> {}, disabled |-> FALSE]]
  /\ mem' = [p \in Ports |-> IF p \in found THEN Stamped(p) ELSE mem[p]]
  /\ UNCHANGED <<store, next, cfg, seen, loaded, pend, at, shielded, hidden>>
-----------------------------------------------------------------------------
\* A first start, with any one mapping written by hand.
CatInit ==
  /\ store = [rec |-> [i \in Ids |-> NoRec], macs |-> [m \in Boards |-> None],
              aliases |-> [a \in Aliases |-> None]]
  /\ next = 0 /\ requests = 0
  /\ mem = [p \in Ports |-> NoDev]
  /\ \E p \in Ports, c \in Mappings \cup {NoCfg} : cfg = [q \in Ports |-> IF q = p THEN c ELSE NoCfg]
  /\ file = cfg
  /\ at = [p \in Ports |-> None]
  /\ seen = {} /\ loaded = FALSE /\ pend = NoRequest
  /\ shielded = {} /\ hidden = {}

World ==
  \/ \E p \in Ports : Unplug(p) \/ (\E i \in Ids \cup {None} : DeviceAdded(p, i)) \/ \E b \in Boards : Plug(b, p)
  \/ Restart \/ LoadPersistedDevices \/ SaveRequest

Request ==
  \/ \E p \in Ports :
       \/ ProbeDevice(p) \/ ForgetDevice(p) \/ RemoveDevice(p)
       \/ \E found \in SUBSET Ports : DiscoverAndSave(found, p)
       \/ \E i \in Ids, mark \in Marks : Mark(p, i, mark)
       \/ \E c \in Mappings : AddDevice(p, c)
  \/ \E i \in Ids : DeleteDevice(i) \/ \E mark \in Marks : Unmark(i, mark)
  \/ \E p \in Ports \cup {NoPort}, mac \in Boards \cup {None}, aliases \in SUBSET Aliases :
       \/ AddRecord(p, mac, aliases)
       \/ p \in Ports /\ UpdateByPath(p, aliases, mac)
       \/ \E i \in Ids : UpdateRecord(i, aliases, mac)

CatNext ==
  \/ World /\ UNCHANGED requests
  \/ requests < MaxRequests /\ requests' = requests + 1 /\ Request

CatSpec == CatInit /\ [][CatNext]_catVars
-----------------------------------------------------------------------------
(* Properties.                                                              *)

\* A lookup by MAC or alias (GetDeviceByMAC, GetDeviceByAlias) returns a record
\* that has it; no two records have one MAC; a record is found by its MAC; and it is
\* found by each of its aliases, unless since it was last saved (a) another record
\* that has the alias was saved, or (b) another record that had the alias too, also
\* one that this record had taken it from, dropped it or was deleted: SaveDevice and
\* DeleteDevice delete the index entry without asking whose it is, and then no record
\* is found by the alias.
IndexSound ==
  /\ \A m \in Boards : store.macs[m] # None => Stored(store.macs[m]) /\ store.rec[store.macs[m]].mac = m
  /\ \A a \in Aliases : store.aliases[a] # None =>
       Stored(store.aliases[a]) /\ a \in store.rec[store.aliases[a]].aliases
  /\ \A i \in Ids : Stored(i) =>
       /\ store.rec[i].mac # None => store.macs[store.rec[i].mac] = i
       /\ \A a \in store.rec[i].aliases : <<i, a>> \in hidden \/ store.aliases[a] = i

\* cli-commands.md:345 "Protected state survives cluster restarts and device
\* reconnections": a board that was protected is refused to a flash job.
ProtectedIsRefused ==
  \A p \in Ports : mem[p] # NoDev /\ at[p] \in shielded => "protected" \in mem[p].marks
=============================================================================
