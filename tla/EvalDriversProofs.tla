-------------------------- MODULE EvalDriversProofs --------------------------
(***************************************************************************)
(* Theorems of EvalDrivers for any artifacts and any number of episodes    *)
(* and commands.  A command uses its store objects as ArtifactStore says,  *)
(* so that the theorems about the store hold of them; one call at a time   *)
(* is in progress; and what episodes stored stays listed.                  *)
(***************************************************************************)
EXTENDS EvalDrivers, ArtifactStoreProofs

\* Steps of a put before it lists its content.
Putting == {"openblob", "fillblob", "writemeta", "list"}

\* Steps of a rewrite of manifest.json.
Rewriting == {"openmanifest", "fillmanifest"}

\* Types of the driver's variables.
LocalOK ==
    /\ driver \in {"open", "sealed", "suite"}
    /\ envMode \in Modes
    /\ phase \in {"off", "tasks", "next", "episode", "returning", "flushed", "report",
                  "done", "failed"}
    /\ puts \cup held \subseteq Hashes
    /\ due \subseteq [by : {"open", "sealed", "suite"}, mode : Modes, hash : Hashes]
    /\ episodes \in 0..MaxEpisodes
    /\ runs \in 0..MaxRuns

\* Which object is open, and which may be in a call, in each phase.
InPhase ==
    /\ phase \in {"off", "done"} => pc[Inner] = "closed" /\ pc[Outer] = "closed"
    /\ phase \in {"tasks", "next", "flushed", "report"} => pc[Inner] = "closed" /\ pc[Outer] # "closed"
    /\ phase \in {"episode", "returning"} /\ driver = "suite" => pc[Inner] = "closed" /\ pc[Outer] # "closed"
    /\ phase \in {"episode", "returning"} /\ driver # "suite" => pc[Inner] # "closed" /\ pc[Outer] = "idle"
    /\ phase = "failed" => pc[Inner] \in {"closed", "idle"} /\ pc[Outer] \in {"closed", "idle"}
    /\ phase = "tasks" => driver = "sealed" /\ pc[Outer] = "idle"
    /\ phase = "next" /\ driver # "sealed" => pc[Outer] = "idle"

\* The object of a suite is in per_suite mode, and rewrites nothing, until its
\* episodes are over.
Deferring ==
    /\ driver = "suite" /\ phase \in {"next", "episode", "returning"} =>
          mode[Outer] = "per_suite" /\ pc[Outer] \in Putting \cup {"idle"}
    /\ driver = "suite" /\ phase = "returning" => pc[Outer] = "idle"

\* The file lists these hashes, and whatever memory has been loaded does.
FileHas(hashes) == manifest.state # "torn" => hashes \subseteq HashesOf(manifest.entries)
Has(hashes, s) ==
    /\ cache[s].loaded => hashes \subseteq HashesOf(cache[s].entries)
    /\ ~cache[s].loaded => cache[s].entries = {} /\ ~dirty[s]
    /\ pc[s] = "closed" => ~cache[s].loaded
    /\ pc[s] \in Rewriting => cache[s].loaded
AllHave(hashes) == FileHas(hashes) /\ \A s \in Stores : Has(hashes, s)

\* What episodes of suites stored, and those of open evaluations that flush.
OthersDue == {d.hash : d \in Flushed}

\* The memory of an object that is not dirty is the file.
Clean(s) ==
    cache[s].loaded /\ ~dirty[s] /\ pc[s] \notin Rewriting /\ manifest.state # "torn"
        => cache[s].entries = manifest.entries

\* The hashes are in the memory of an object, or about to be.
Noted(hashes, s) ==
    \A h \in hashes : h \in HashesOf(cache[s].entries) \/ (pc[s] \in Putting /\ h = arg[s].hash)

\* They are in the file, or about to be.
Written(hashes, s) ==
    /\ hashes \subseteq HashesOf(cache[s].entries)
    /\ pc[s] \in Rewriting \cup {"idle"}
    /\ pc[s] = "idle" /\ manifest.state # "torn" => hashes \subseteq HashesOf(manifest.entries)

\* What an episode has put, and what earlier episodes of a suite have.
EpisodeKept ==
    /\ phase = "episode" => Noted(puts, EpisodeStore) /\ Clean(EpisodeStore)
    /\ phase = "returning" /\ driver # "suite" /\ mode[Inner] # "per_suite" => Written(puts, Inner)
    /\ phase = "returning" /\ driver = "suite" => puts \subseteq HashesOf(cache[Outer].entries)
    /\ phase \in {"next", "episode", "returning"} /\ driver = "suite" =>
          held \subseteq HashesOf(cache[Outer].entries) /\ Clean(Outer)
    /\ phase \in {"next", "episode", "returning"} /\ driver = "open" => ~cache[Outer].loaded
    /\ phase = "flushed" => driver = "suite" /\ Written(held, Outer)

\* The inductive invariant.
DriversInv == LocalOK /\ InPhase /\ Deferring /\ AllHave(OthersDue) /\ EpisodeKept

-----------------------------------------------------------------------------
\* A step of a command is a step of one of its store objects, or none.
LEMMA DriverSteps == LocalOK /\ [NextDrivers]_<<store, local>> => [Next]_vars
<1> SUFFICES ASSUME LocalOK, NextDrivers PROVE Next \/ UNCHANGED vars
  BY DEF vars, store
<1> USE StoreAssumption
<1>1. ASSUME NEW d \in Drivers, NEW m \in FlushModes, Begin(d, m) PROVE Next
  BY <1>1, ModesAssumption DEF Begin, Next, Call, Modes
<1>2. CASE PutTasks \/ PutReport
  <2>1. PutBytes(Outer, Tasks.hash, Tasks.type) \/ PutBytes(Outer, Report.hash, Report.type)
    BY <1>2 DEF PutTasks, PutReport
  <2>2. \E h \in Hashes, t \in Types : PutBytes(Outer, h, t)
    BY <2>1, EntriesAssumption DEF Entry
  <2> QED
    BY <2>2 DEF Next, Call
<1>3. CASE BeginEpisode
  BY <1>3 DEF LocalOK, BeginEpisode, Next, Call, vars, store
<1>4. ASSUME NEW e \in EpisodeEntries, EpisodePut(e) PROVE Next
  <2>1. \E h \in Hashes, t \in Types : PutBytes(EpisodeStore, h, t)
    BY <1>4, EntriesAssumption DEF EpisodePut, Entry
  <2> QED
    BY <2>1 DEF Next, Call, EpisodeStore
<1>5. CASE FlushEpisode \/ FlushSuite
  <2>1. \E s \in Stores, force \in BOOLEAN : Flush(s, force)
    BY <1>5 DEF FlushEpisode, FlushSuite, EpisodeStore
  <2> QED
    BY <2>1 DEF Flush, FlushReturns, Next, Call, vars, store
<1>6. CASE EndEpisode \/ Finish
  BY <1>6 DEF EndEpisode, Finish, Next, Call, vars, store
<1>7. ASSUME NEW s \in Stores, StoreStep(s) \/ StoreFails(s) \/ Reap(s) PROVE Next
  BY <1>7 DEF StoreStep, StoreFails, Reap, Next, Call
<1> QED
  BY <1>1, <1>2, <1>3, <1>4, <1>5, <1>6, <1>7 DEF NextDrivers

-----------------------------------------------------------------------------
\* What load_manifest returns lists what the file and the memory do.
LEMMA LoadHas ==
    ASSUME NEW hashes, AllHave(hashes), NEW s \in Stores, LoadSucceeds(s)
    PROVE  /\ hashes \subseteq HashesOf(LoadManifest(s))
           /\ HashesOf(cache[s].entries) \subseteq HashesOf(LoadManifest(s))
BY DEF AllHave, FileHas, Has, LoadSucceeds, LoadManifest, HashesOf

\* An entry more lists no less.
LEMMA AddEntryHas ==
    ASSUME NEW entries, NEW e
    PROVE  HashesOf(entries) \cup {e.hash} \subseteq HashesOf(AddEntry(entries, e))
BY DEF AddEntry, HashesOf

\* The memory of the object that steps.
LEMMA StepHas ==
    ASSUME TypeOK, NEW hashes, AllHave(hashes), NEW s \in Stores,
           Call(s) \/ Advance(s) \/ ListRaises(s) \/ WriteFails(s) \/ Crash(s)
    PROVE  FileHas(hashes)' /\ Has(hashes, s)'
<1> USE DEF TypeOK, AllHave, FileHas, Has, Rewriting, Transition, disk, memory, history
<1>1. ASSUME NEW m \in Modes, Open(s, m) PROVE FileHas(hashes)' /\ Has(hashes, s)'
  BY <1>1 DEF Open, NotLoaded, HashesOf
<1>2. CASE Close(s) \/ Crash(s)
  BY <1>2 DEF Close, Crash, Forget, NotLoaded, HashesOf
<1>3. ASSUME NEW force \in BOOLEAN, FlushManifest(s, force) \/ FlushNothing(s, force) \/ Load(s)
      PROVE  FileHas(hashes)' /\ Has(hashes, s)'
  <2>1. /\ LoadSucceeds(s) /\ manifest' = manifest /\ pc'[s] # "closed"
        /\ cache'[s].loaded /\ cache'[s].entries = LoadManifest(s)
    BY <1>3 DEF FlushManifest, FlushNothing, Load, Loaded
  <2> QED
    BY <2>1, LoadHas DEF HashesOf
<1>4. CASE ListDeferred(s) \/ ListNow(s)
  <2>1. /\ LoadSucceeds(s) /\ manifest' = manifest /\ pc'[s] # "closed"
        /\ cache'[s].loaded /\ cache'[s].entries = AddEntry(LoadManifest(s), arg[s])
    BY <1>4 DEF ListDeferred, ListNow, Loaded
  <2>2. HashesOf(LoadManifest(s)) \subseteq HashesOf(cache'[s].entries)
    BY <2>1, AddEntryHas
  <2> QED
    BY <2>1, <2>2, LoadHas DEF HashesOf
<1>5. CASE OpenManifest(s) \/ FillManifest(s)
  BY <1>5 DEF OpenManifest, FillManifest, HashesOf
<1>6. CASE \/ (\E m \in Modes : SetManifestFlushMode(s, m)) \/ ListRaises(s) \/ WriteFails(s)
           \/ (\E h \in Hashes, t \in Types : PutBytes(s, h, t))
           \/ OpenBlob(s) \/ FillBlob(s) \/ WriteMeta(s)
  <2>1. /\ UNCHANGED <<manifest, cache, dirty>>
        /\ pc'[s] \notin Rewriting \cup {"closed"}
    BY <1>6 DEF SetManifestFlushMode, ListRaises, WriteFails, PutBytes, Begins, OpenBlob, FillBlob, WriteMeta
  <2> QED
    BY <2>1 DEF HashesOf
<1> QED
  BY <1>1, <1>2, <1>3, <1>4, <1>5, <1>6 DEF Call, Advance

\* What is listed everywhere stays so, whatever an object does.
LEMMA ListedEverywhere ==
    ASSUME TypeOK, NEW hashes, AllHave(hashes), [Next]_vars
    PROVE  AllHave(hashes)'
<1>1. CASE UNCHANGED vars
  BY <1>1 DEF AllHave, FileHas, Has, HashesOf, vars, disk, memory, history
<1>2. ASSUME NEW s \in Stores, Call(s) \/ Advance(s) \/ ListRaises(s) \/ WriteFails(s) \/ Crash(s)
      PROVE  AllHave(hashes)'
  <2>1. FileHas(hashes)' /\ Has(hashes, s)'
    BY <1>2, StepHas
  <2>2. ASSUME NEW t \in Stores \ {s} PROVE Has(hashes, t)'
    BY <1>2, StepUntouched DEF Untouched, AllHave, Has, HashesOf
  <2> QED
    BY <2>1, <2>2 DEF AllHave
<1> QED
  BY <1>1, <1>2 DEF Next

-----------------------------------------------------------------------------
\* At most one object is in a call.
LEMMA OneCall ==
    ASSUME TypeOK, LocalOK, InPhase
    PROVE  OneCallAtATime
<1>1. pc[Inner] \in {"closed", "idle"} \/ pc[Outer] \in {"closed", "idle"}
  BY DEF LocalOK, InPhase
<1> QED
  BY <1>1, StoreAssumption DEF OneCallAtATime

\* The driver's variables keep their types.
LEMMA LocalStep == ASSUME TypeOK, LocalOK, NextDrivers PROVE LocalOK'
<1> USE DEF LocalOK, Enter, local
<1>1. ASSUME NEW d \in Drivers, NEW m \in FlushModes, Begin(d, m) PROVE LocalOK'
  BY <1>1, DriverAssumption, ModesAssumption, BoundsAssumption DEF Begin
<1>2. CASE PutTasks \/ FlushEpisode \/ FlushSuite \/ Finish
  BY <1>2 DEF PutTasks, FlushEpisode, FlushSuite, Finish
<1>3. CASE BeginEpisode
  BY <1>3, BoundsAssumption DEF BeginEpisode
<1>4. ASSUME NEW e \in EpisodeEntries, EpisodePut(e) PROVE LocalOK'
  BY <1>4, EntriesAssumption DEF EpisodePut, Entry
<1>5. CASE EndEpisode \/ PutReport
  <2>1. Outputs(puts) \cup Outputs(held) \subseteq
            [by : {"open", "sealed", "suite"}, mode : Modes, hash : Hashes]
    BY StoreAssumption DEF Outputs, EpisodeStore, TypeOK
  <2> QED
    BY <1>5, <2>1 DEF EndEpisode, PutReport
<1>6. ASSUME NEW s \in Stores, StoreStep(s) \/ StoreFails(s) \/ Reap(s) PROVE LocalOK'
  BY <1>6 DEF StoreStep, StoreFails, Reap
<1> QED
  BY <1>1, <1>2, <1>3, <1>4, <1>5, <1>6 DEF NextDrivers

\* The commands use their objects as ArtifactStore says: what is proved of the
\* store is so of theirs.
THEOREM DriversUseStore == SpecDrivers => Spec
<1>1. InitDrivers => Init /\ ListedInv /\ LocalOK
  BY InitListed, BoundsAssumption DEF InitDrivers, LocalOK, Modes
<1>2. ListedInv /\ LocalOK /\ [NextDrivers]_<<store, local>> => [Next]_vars /\ LocalOK'
  <2>1. ListedInv => TypeOK
    BY DEF ListedInv
  <2>2. LocalOK /\ UNCHANGED <<store, local>> => LocalOK'
    BY DEF LocalOK, local
  <2> QED
    BY <2>1, <2>2, LocalStep, DriverSteps
<1> QED
  BY <1>1, <1>2, ListedStep, PTL DEF SpecDrivers, Spec

\* What a step of an object does to where the objects are.
LEMMA Moves ==
    ASSUME TypeOK, NEW s \in Stores, Advance(s)
    PROVE  /\ pc[s] \in Putting \cup Rewriting /\ pc'[s] \in Putting \cup Rewriting \cup {"idle"}
           /\ \A t \in Stores \ {s} : pc'[t] = pc[t]
           /\ UNCHANGED <<mode, batch>>
           /\ pc[s] \in Rewriting => pc'[s] \in Rewriting \cup {"idle"}
           /\ Deferred(s) /\ pc[s] \in Putting => pc'[s] \in Putting \cup {"idle"}
BY DEF TypeOK, Advance, OpenBlob, FillBlob, WriteMeta, ListDeferred, ListNow, OpenManifest, FillManifest,
       Transition, Putting, Rewriting, Filling, memory

\* A flush leaves its object idle or about to rewrite the manifest.
LEMMA FlushMoves ==
    ASSUME TypeOK, NEW s \in Stores, NEW force \in BOOLEAN, Flush(s, force)
    PROVE  /\ pc[s] = "idle" /\ pc'[s] \in {"idle", "openmanifest"}
           /\ \A t \in Stores \ {s} : pc'[t] = pc[t]
           /\ UNCHANGED mode
           /\ mode[s] = "per_suite" /\ ~force => UNCHANGED store
BY DEF TypeOK, Flush, FlushManifest, FlushNothing, FlushReturns, FlushWrites, Waiting, Transition,
       store, memory

\* Each phase keeps to its objects.
LEMMA PhaseStep ==
    ASSUME TypeOK, LocalOK, InPhase, Deferring, NextDrivers
    PROVE  InPhase' /\ Deferring'
<1> USE StoreAssumption DEF LocalOK, InPhase, Deferring, Enter, local, Transition, Putting, Rewriting,
        disk, memory, history
<1>1. ASSUME NEW d \in Drivers, NEW m \in FlushModes, Begin(d, m) PROVE InPhase' /\ Deferring'
  <2>1. pc[Inner] = "closed" /\ pc' = [pc EXCEPT ![Outer] = "idle"]
        /\ mode' = [mode EXCEPT ![Outer] = IF d = "suite" THEN "per_suite" ELSE m]
        /\ driver' = d /\ phase' = IF d = "sealed" THEN "tasks" ELSE "next"
    BY <1>1 DEF Begin, Closed, Open
  <2> QED
    BY <2>1 DEF TypeOK
<1>2. CASE PutTasks
  BY <1>2 DEF PutTasks, PutBytes, Begins, TypeOK
<1>3. CASE BeginEpisode
  BY <1>3 DEF BeginEpisode, Waiting, Open, TypeOK, store, EpisodeStore
<1>4. ASSUME NEW e \in EpisodeEntries, EpisodePut(e) PROVE InPhase' /\ Deferring'
  <2>1. /\ UNCHANGED <<mode, driver, phase>> /\ phase = "episode"
        /\ pc[EpisodeStore] = "idle" /\ pc'[EpisodeStore] \in Putting
        /\ \A t \in Stores \ {EpisodeStore} : pc'[t] = pc[t]
    BY <1>4 DEF EpisodePut, PutBytes, Begins, TypeOK, EpisodeStore
  <2> QED
    BY <2>1 DEF EpisodeStore
<1>5. CASE FlushEpisode
  <2>1. /\ UNCHANGED <<mode, driver>> /\ phase = "episode" /\ phase' = "returning"
        /\ pc[EpisodeStore] = "idle" /\ pc'[EpisodeStore] \in {"idle", "openmanifest"}
        /\ \A t \in Stores \ {EpisodeStore} : pc'[t] = pc[t]
        /\ mode[EpisodeStore] = "per_suite" => UNCHANGED store
    BY <1>5, FlushMoves DEF FlushEpisode, EpisodeStore
  <2> QED
    BY <2>1 DEF EpisodeStore, store
<1>6. CASE EndEpisode
  BY <1>6 DEF EndEpisode, Waiting, Close, Forget, TypeOK, store, EpisodeStore
<1>7. CASE FlushSuite
  <2>1. /\ UNCHANGED <<mode, driver>> /\ phase = "next" /\ phase' = "flushed"
        /\ pc'[Outer] \in {"idle", "openmanifest"} /\ pc'[Inner] = pc[Inner]
    BY <1>7, FlushMoves DEF FlushSuite
  <2> QED
    BY <2>1
<1>8. CASE PutReport
  <2>1. /\ phase \in {"next", "flushed"} /\ phase' = "report" /\ UNCHANGED <<mode, driver>>
        /\ pc'[Outer] \in Putting /\ pc'[Inner] = pc[Inner]
    BY <1>8 DEF PutReport, PutBytes, Begins, TypeOK
  <2> QED
    BY <2>1
<1>9. CASE Finish
  BY <1>9 DEF Finish, Close, Forget, TypeOK
<1>10. ASSUME NEW s \in Stores, StoreStep(s) PROVE InPhase' /\ Deferring'
  <2>1. UNCHANGED <<driver, phase>> /\ Advance(s)
    BY <1>10 DEF StoreStep
  <2>2. s = Outer \/ s = Inner
    OBVIOUS
  <2>3. CASE s = Inner
    BY <2>1, <2>3, Moves
  <2>4. CASE s = Outer
    BY <2>1, <2>4, Moves DEF Deferred
  <2> QED
    BY <2>2, <2>3, <2>4
<1>11. ASSUME NEW s \in Stores, StoreFails(s) PROVE InPhase' /\ Deferring'
  <2>1. /\ phase' = "failed" /\ pc[s] \notin {"closed", "idle"} /\ pc'[s] \in {"closed", "idle"}
        /\ \A t \in Stores \ {s} : pc'[t] = pc[t]
    BY <1>11 DEF StoreFails, ListRaises, WriteFails, Crash, Opening, Filling, TypeOK
  <2>2. \A t \in Stores \ {s} : pc[t] \in {"closed", "idle"}
    BY <2>1, OneCall DEF OneCallAtATime
  <2> QED
    BY <2>1, <2>2
<1>12. ASSUME NEW s \in Stores, Reap(s) PROVE InPhase' /\ Deferring'
  BY <1>12 DEF Reap, Close, Forget, TypeOK
<1> QED
  BY <1>1, <1>2, <1>3, <1>4, <1>5, <1>6, <1>7, <1>8, <1>9, <1>10, <1>11, <1>12 DEF NextDrivers

-----------------------------------------------------------------------------
\* What becomes due under an evaluation that flushes or a suite.
LEMMA NewDue ==
    ASSUME NEW old, old = OthersDue, NEW new, NEW s \in Stores,
           driver = "suite" \/ (driver = "open" /\ mode[s] = "per_episode"), s = EpisodeStore,
           due' = due \cup Outputs(new)
    PROVE  OthersDue' = old \cup new
<1> USE DEF OthersDue, Flushed, Outputs
<1>1. ASSUME NEW h \in OthersDue' PROVE h \in old \cup new
  <2>1. PICK d \in due' : d \in Flushed' /\ d.hash = h
    OBVIOUS
  <2> QED
    BY <2>1
<1>2. ASSUME NEW h \in old PROVE h \in OthersDue'
  OBVIOUS
<1>3. ASSUME NEW h \in new PROVE h \in OthersDue'
  <2>1. [by |-> driver, mode |-> mode[s], hash |-> h] \in due'
    OBVIOUS
  <2> QED
    BY <2>1
<1> QED
  BY <1>1, <1>2, <1>3

\* When outputs become due they are listed in the file, and no memory has been
\* loaded that does not list them.
LEMMA DueStep ==
    ASSUME TypeOK, DriversInv, NextDrivers
    PROVE  AllHave(OthersDue)'
<1> USE DEF DriversInv
<1>1. PICK old : old = OthersDue
  OBVIOUS
<1>2. AllHave(old)'
  BY <1>1, ListedEverywhere, DriverSteps
<1>3. ASSUME NEW new, AllHave(new)', OthersDue' = old \cup new PROVE AllHave(OthersDue)'
  <2>1. AllHave(old \cup new)'
    BY <1>2, <1>3 DEF AllHave, FileHas, Has, HashesOf
  <2> QED
    BY <1>3, <2>1 DEF AllHave, FileHas, Has, HashesOf
<1>4. CASE OthersDue' = old
  BY <1>2, <1>4 DEF AllHave, FileHas, Has, HashesOf
<1>5. CASE EndEpisode /\ driver = "open" /\ mode[Inner] = "per_episode"
  <2>1. PICK new : new = puts
    OBVIOUS
  <2>2. OthersDue' = old \cup new
    <3>1. due' = due \cup Outputs(new)
      BY <1>5, <2>1 DEF EndEpisode, Outputs
    <3>2. Inner = EpisodeStore /\ Inner \in Stores
      BY <1>5, StoreAssumption DEF EpisodeStore
    <3> QED
      BY <1>1, <1>5, <3>1, <3>2, NewDue
  <2>3. phase = "returning" /\ pc[Inner] = "idle" /\ Close(Inner)
    BY <1>5 DEF EndEpisode, Enter, Waiting, EpisodeStore
  <2>4. manifest.state # "torn" => new \subseteq HashesOf(manifest.entries)
    BY <1>5, <2>1, <2>3 DEF EpisodeKept, Written
  <2>5. ~cache'[Inner].loaded /\ ~cache'[Outer].loaded
    BY <1>5, <2>3, StoreAssumption DEF EpisodeKept, Close, Forget, NotLoaded, TypeOK
  <2>6. AllHave(new)'
    BY <1>2, <2>3, <2>4, <2>5, StoreAssumption DEF AllHave, FileHas, Has, HashesOf, Close, disk
  <2> QED
    BY <1>3, <2>2, <2>6
<1>6. CASE PutReport /\ driver = "suite"
  <2>1. PICK new : new = held
    OBVIOUS
  <2>2. OthersDue' = old \cup new
    <3>1. due' = due \cup Outputs(new)
      BY <1>6, <2>1 DEF PutReport, Outputs
    <3>2. Outer = EpisodeStore /\ Outer \in Stores
      BY <1>6, StoreAssumption DEF EpisodeStore
    <3> QED
      BY <1>1, <1>6, <3>1, <3>2, NewDue
  <2>3. phase = "flushed" /\ pc[Outer] = "idle" /\ UNCHANGED <<manifest, cache>>
    BY <1>6 DEF PutReport, PutBytes, Begins, Transition, disk, memory, Enter
  <2>4. /\ manifest.state # "torn" => new \subseteq HashesOf(manifest.entries)
        /\ new \subseteq HashesOf(cache[Outer].entries)
    BY <2>1, <2>3 DEF EpisodeKept, Written
  <2>5. pc[Inner] = "closed" /\ ~cache[Inner].loaded
    BY <2>3, StoreAssumption DEF InPhase, AllHave, Has
  <2>6. AllHave(new)'
    BY <1>2, <2>3, <2>4, <2>5, StoreAssumption DEF AllHave, FileHas, Has, HashesOf
  <2> QED
    BY <1>3, <2>2, <2>6
<1>7. CASE /\ ~(EndEpisode /\ driver = "open" /\ mode[Inner] = "per_episode")
           /\ ~(PutReport /\ driver = "suite")
  <2>1. \/ due' = due
        \/ /\ driver = "sealed" \/ (driver = "open" /\ mode[EpisodeStore] # "per_episode")
           /\ due' = due \cup Outputs(puts)
    BY <1>7 DEF EpisodeStore, LocalOK, NextDrivers, Begin, PutTasks, BeginEpisode, EpisodePut,
                FlushEpisode, EndEpisode,
                FlushSuite, PutReport, Finish, StoreStep, StoreFails, Reap, local
  <2>2. OthersDue' = OthersDue
    BY <2>1 DEF OthersDue, Flushed, Outputs
  <2> QED
    BY <1>1, <1>4, <2>2
<1> QED
  BY <1>5, <1>6, <1>7

\* A put, on its way to the listing, keeps what is noted.
LEMMA StepNotes ==
    ASSUME TypeOK, AllHave(OthersDue), NEW s \in Stores, Advance(s), NEW hashes, Noted(hashes, s), Clean(s)
    PROVE  /\ Noted(hashes, s)' /\ Clean(s)'
           /\ HashesOf(cache[s].entries) \subseteq HashesOf(cache'[s].entries)
<1> USE DEF TypeOK, Transition, disk, memory, history, Noted, Clean, Putting, Rewriting, Filling
<1>1. CASE OpenBlob(s) \/ FillBlob(s) \/ WriteMeta(s)
  BY <1>1 DEF OpenBlob, FillBlob, WriteMeta, HashesOf
<1>2. CASE ListDeferred(s) \/ ListNow(s)
  <2>1. /\ LoadSucceeds(s) /\ cache'[s].entries = AddEntry(LoadManifest(s), arg[s]) /\ pc[s] = "list"
        /\ dirty'[s] \/ pc'[s] \in Rewriting
    BY <1>2 DEF ListDeferred, ListNow, Loaded
  <2>2. HashesOf(cache[s].entries) \cup {arg[s].hash} \subseteq HashesOf(cache'[s].entries)
    BY <2>1, LoadHas, AddEntryHas
  <2> QED
    BY <2>1, <2>2 DEF HashesOf
<1>3. CASE OpenManifest(s) \/ FillManifest(s)
  BY <1>3 DEF OpenManifest, FillManifest, HashesOf
<1> QED
  BY <1>1, <1>2, <1>3 DEF Advance

\* A rewrite writes what the object has in memory.
LEMMA StepWrites ==
    ASSUME TypeOK, NEW s \in Stores, Advance(s), NEW hashes, Written(hashes, s)
    PROVE  Written(hashes, s)'
<1>1. CASE OpenManifest(s) \/ FillManifest(s)
  BY <1>1 DEF TypeOK, Transition, disk, memory, history, Written, Rewriting, Filling, OpenManifest,
              FillManifest, HashesOf
<1>2. pc[s] \in Rewriting
  BY Moves DEF Written, Putting, Rewriting
<1> QED
  BY <1>1, <1>2 DEF Advance, OpenBlob, FillBlob, WriteMeta, ListDeferred, ListNow, Transition, Rewriting

\* A flush of an object that is idle, and not in per_suite mode unless forced.
LEMMA FlushKeeps ==
    ASSUME TypeOK, AllHave(OthersDue), NEW s \in Stores, NEW force \in BOOLEAN, Flush(s, force),
           force \/ mode[s] # "per_suite",
           NEW hashes, Noted(hashes, s), Clean(s)
    PROVE  Written(hashes, s)'
<1> USE DEF TypeOK, Transition, disk, memory, history, Putting, Rewriting
<1>1. pc[s] = "idle" /\ hashes \subseteq HashesOf(cache[s].entries)
  BY FlushMoves DEF Noted
<1>2. CASE FlushManifest(s, force)
  <2>1. pc'[s] = "openmanifest" /\ cache'[s].entries = LoadManifest(s) /\ LoadSucceeds(s)
    BY <1>2 DEF FlushManifest, Loaded
  <2> QED
    BY <1>1, <2>1, LoadHas DEF Written, HashesOf
<1>3. CASE FlushNothing(s, force)
  <2>1. /\ pc'[s] = "idle" /\ cache'[s].entries = LoadManifest(s) /\ LoadSucceeds(s)
        /\ manifest' = manifest /\ ~dirty[s]
    BY <1>3 DEF FlushNothing, FlushWrites, Loaded
  <2>2. hashes \subseteq HashesOf(LoadManifest(s))
    BY <1>1, <2>1, LoadHas
  <2>3. manifest.state # "torn" => hashes \subseteq HashesOf(manifest.entries)
    BY <1>1, <2>1 DEF Clean, AllHave, Has, HashesOf
  <2> QED
    BY <2>1, <2>2, <2>3 DEF Written, HashesOf
<1> QED
  BY <1>2, <1>3 DEF Flush, FlushReturns

\* What episodes put is kept.
LEMMA EpisodeStep ==
    ASSUME TypeOK, DriversInv, NextDrivers
    PROVE  EpisodeKept'
<1> USE StoreAssumption DEF DriversInv, Enter, local, EpisodeStore
<1>1. ASSUME NEW d \in Drivers, NEW m \in FlushModes, Begin(d, m) PROVE EpisodeKept'
  <2>1. /\ driver' = d /\ phase' = IF d = "sealed" THEN "tasks" ELSE "next"
        /\ held' = {} /\ ~cache'[Outer].loaded
    BY <1>1 DEF Begin, Open, NotLoaded, TypeOK
  <2> QED
    BY <2>1 DEF EpisodeKept, Clean
<1>2. CASE PutTasks
  BY <1>2 DEF PutTasks, EpisodeKept, InPhase
<1>3. CASE BeginEpisode
  <2>1. /\ phase = "next" /\ phase' = "episode" /\ puts' = {} /\ UNCHANGED <<driver, held, manifest>>
        /\ IF driver = "suite" THEN UNCHANGED <<pc, arg, cache, dirty>>
                               ELSE ~cache'[Inner].loaded /\ cache'[Outer] = cache[Outer]
    BY <1>3 DEF BeginEpisode, Open, NotLoaded, TypeOK, store, disk, memory
  <2> QED
    BY <2>1 DEF EpisodeKept, Clean, Noted, HashesOf
<1>4. ASSUME NEW e \in EpisodeEntries, EpisodePut(e) PROVE EpisodeKept'
  <2>1. /\ phase = "episode" /\ puts' = puts \cup {e.hash} /\ UNCHANGED <<driver, held, phase>>
        /\ pc[EpisodeStore] = "idle" /\ pc'[EpisodeStore] \in Putting
        /\ arg'[EpisodeStore].hash = e.hash /\ UNCHANGED <<manifest, cache, dirty>>
    BY <1>4 DEF EpisodePut, PutBytes, Begins, Transition, TypeOK, disk, memory, Putting
  <2> QED
    BY <2>1 DEF EpisodeKept, Clean, Noted, HashesOf, Putting, Rewriting
<1>5. CASE FlushEpisode
  <2>1. phase = "episode" /\ phase' = "returning" /\ UNCHANGED <<driver, puts, held>>
        /\ Flush(EpisodeStore, FALSE)
    BY <1>5 DEF FlushEpisode
  <2>2. CASE driver = "suite"
    <3>1. UNCHANGED store /\ pc[Outer] = "idle"
      BY <2>1, <2>2, FlushMoves DEF Deferring
    <3> QED
      BY <2>1, <2>2, <3>1 DEF EpisodeKept, Clean, Noted, HashesOf, Putting, store, disk, memory
  <2>4. CASE driver # "suite" /\ mode[Inner] = "per_suite"
    <3>1. UNCHANGED store
      BY <2>1, <2>4, FlushMoves
    <3> QED
      BY <2>1, <2>4, <3>1 DEF EpisodeKept, store, memory
  <2>3. CASE driver # "suite" /\ mode[Inner] # "per_suite"
    <3>1. PICK hashes : hashes = puts
      OBVIOUS
    <3>2. Noted(hashes, Inner) /\ Clean(Inner)
      BY <2>1, <2>3, <3>1 DEF EpisodeKept
    <3>3. Written(hashes, Inner)'
      BY <2>1, <2>3, <3>2, FlushKeeps DEF Deferring
    <3>4. driver = "open" => cache'[Outer] = cache[Outer]
      BY <2>1, <2>3 DEF Flush, FlushManifest, FlushNothing, FlushReturns, store, memory, TypeOK
    <3>5. Written(puts, Inner)'
      BY <2>1, <3>1, <3>3 DEF Written, HashesOf
    <3> QED
      BY <2>1, <2>3, <3>4, <3>5 DEF EpisodeKept
  <2> QED
    BY <2>2, <2>3, <2>4
<1>6. CASE EndEpisode
  <2>1. /\ phase = "returning" /\ phase' = "next" /\ UNCHANGED driver
        /\ IF driver = "suite" THEN UNCHANGED <<manifest, pc, cache, dirty>> /\ held' = held \cup puts
                               ELSE cache'[Outer] = cache[Outer]
    BY <1>6 DEF EndEpisode, Close, Forget, TypeOK, store, disk, memory
  <2> QED
    BY <2>1 DEF EpisodeKept, Clean, HashesOf
<1>7. CASE FlushSuite
  <2>1. /\ phase = "next" /\ phase' = "flushed" /\ driver = "suite" /\ UNCHANGED <<driver, held>>
        /\ Flush(Outer, TRUE)
    BY <1>7 DEF FlushSuite
  <2>2. PICK hashes : hashes = held
    OBVIOUS
  <2>3. Noted(hashes, Outer) /\ Clean(Outer)
    BY <2>1, <2>2 DEF EpisodeKept, Noted
  <2>4. Written(hashes, Outer)'
    BY <2>1, <2>3, FlushKeeps
  <2> QED
    BY <2>1, <2>2, <2>4 DEF EpisodeKept, Written, HashesOf
<1>8. CASE PutReport \/ Finish
  BY <1>8 DEF PutReport, Finish, EpisodeKept
<1>9. ASSUME NEW s \in Stores, StoreFails(s) PROVE EpisodeKept'
  BY <1>9 DEF StoreFails, EpisodeKept
<1>10. ASSUME NEW s \in Stores, Reap(s) PROVE EpisodeKept'
  BY <1>10 DEF Reap, EpisodeKept
<1>11. ASSUME NEW s \in Stores, StoreStep(s) PROVE EpisodeKept'
  <2>1. Advance(s) /\ UNCHANGED <<driver, phase, puts, held>>
    BY <1>11 DEF StoreStep
  <2>2. pc[s] \in Putting \cup Rewriting
    BY <2>1, Moves
  <2>3. ASSUME NEW t \in Stores \ {s} PROVE cache'[t] = cache[t]
    BY <2>1, StepUntouched DEF Untouched
  <2>4. CASE phase = "episode"
    <3>1. s = EpisodeStore
      BY <2>2, <2>4 DEF InPhase, Putting, Rewriting
    <3>2. PICK hashes : hashes = puts
      OBVIOUS
    <3>3. /\ Noted(hashes, s)' /\ Clean(s)'
          /\ HashesOf(cache[s].entries) \subseteq HashesOf(cache'[s].entries)
      BY <2>1, <2>4, <3>1, <3>2, StepNotes DEF EpisodeKept
    <3>4. Noted(puts, s)'
      BY <2>1, <3>2, <3>3 DEF Noted, HashesOf
    <3> QED
      BY <2>1, <2>3, <2>4, <3>1, <3>3, <3>4 DEF EpisodeKept, LocalOK, HashesOf
  <2>5. CASE phase = "returning"
    <3>1. s = Inner /\ driver # "suite"
      BY <2>2, <2>5 DEF InPhase, Deferring, Putting, Rewriting
    <3>2. PICK hashes : hashes = puts
      OBVIOUS
    <3>3. mode[Inner] # "per_suite" => Written(hashes, s)'
      BY <2>1, <2>5, <3>1, <3>2, StepWrites DEF EpisodeKept
    <3>4. mode[Inner] # "per_suite" => Written(puts, s)'
      BY <2>1, <3>2, <3>3 DEF Written, HashesOf
    <3>5. mode' = mode
      BY <2>1, Moves
    <3> QED
      BY <2>1, <2>3, <2>5, <3>1, <3>4, <3>5 DEF EpisodeKept
  <2>6. CASE phase = "flushed"
    <3>1. s = Outer
      BY <2>2, <2>6 DEF InPhase, Putting, Rewriting
    <3>2. PICK hashes : hashes = held
      OBVIOUS
    <3>3. Written(hashes, s)'
      BY <2>1, <2>6, <3>1, <3>2, StepWrites DEF EpisodeKept
    <3> QED
      BY <2>1, <2>6, <3>1, <3>2, <3>3 DEF EpisodeKept, Written, HashesOf
  <2>7. CASE phase = "next"
    <3>1. driver = "sealed"
      BY <2>2, <2>7 DEF InPhase, Putting, Rewriting
    <3> QED
      BY <2>1, <2>7, <3>1 DEF EpisodeKept
  <2>8. CASE phase \notin {"episode", "returning", "flushed", "next"}
    BY <2>1, <2>8 DEF EpisodeKept
  <2> QED
    BY <2>4, <2>5, <2>6, <2>7, <2>8
<1> QED
  BY <1>1, <1>2, <1>3, <1>4, <1>5, <1>6, <1>7, <1>8, <1>9, <1>10, <1>11 DEF NextDrivers

-----------------------------------------------------------------------------
\* The inductive invariant.
LEMMA DriversHold == SpecDrivers => []DriversInv
<1>1. InitDrivers => DriversInv
  <2> SUFFICES ASSUME InitDrivers PROVE DriversInv
    OBVIOUS
  <2>1. LocalOK /\ InPhase /\ Deferring /\ EpisodeKept
    BY BoundsAssumption, StoreAssumption DEF InitDrivers, Init, LocalOK, InPhase, Deferring, EpisodeKept, Modes
  <2>2. AllHave(OthersDue)
    BY DEF InitDrivers, Init, AllHave, FileHas, Has, OthersDue, Flushed, NotLoaded, Rewriting, HashesOf
  <2> QED
    BY <2>1, <2>2 DEF DriversInv
<1>2. TypeOK /\ DriversInv /\ [NextDrivers]_<<store, local>> => DriversInv'
  <2>1. ASSUME TypeOK, DriversInv, NextDrivers PROVE DriversInv'
    BY <2>1, LocalStep, PhaseStep, DueStep, EpisodeStep DEF DriversInv
  <2>2. ASSUME DriversInv, UNCHANGED <<store, local>> PROVE DriversInv'
    BY <2>2 DEF DriversInv, LocalOK, InPhase, Deferring, AllHave, FileHas, Has, OthersDue, Flushed, EpisodeKept,
       Clean, Noted, Written, EpisodeStore, HashesOf, store, local, disk, memory
  <2> QED
    BY <2>1, <2>2
<1>3. SpecDrivers => []TypeOK
  BY DriversUseStore, TypeCorrect, PTL
<1> QED
  BY <1>1, <1>2, <1>3, PTL DEF SpecDrivers

\* Types of the driver's variables, and the store object of an episode is open
\* exactly while the episode runs (DriversOK).
THEOREM DriversCorrect == SpecDrivers => []DriversOK
<1>1. TypeOK /\ DriversInv => DriversOK
  BY DEF DriversInv, LocalOK, InPhase, DriversOK
<1>2. SpecDrivers => []TypeOK
  BY DriversUseStore, TypeCorrect, PTL
<1> QED
  BY <1>1, <1>2, DriversHold, PTL

\* The two objects of a command never wait for each other's writes
\* (OneCallAtATime).
THEOREM OneCallEver == SpecDrivers => []OneCallAtATime
<1>1. TypeOK /\ DriversInv => OneCallAtATime
  BY OneCall DEF DriversInv
<1>2. SpecDrivers => []TypeOK
  BY DriversUseStore, TypeCorrect, PTL
<1> QED
  BY <1>1, <1>2, DriversHold, PTL

\* What the episodes of suites stored, and those of open evaluations whose
\* environment does not defer their flushes, stays listed over any number of
\* commands of any mode, failures and crashes (OthersStayListed).
THEOREM StayListed == SpecDrivers => []OthersStayListed
<1>1. DriversInv => OthersStayListed
  BY DEF DriversInv, AllHave, FileHas, OthersDue, Flushed, OthersStayListed, Listed
<1> QED
  BY <1>1, DriversHold, PTL

\* A suite leaves manifest.json alone until its episodes are over
\* (SuiteDefersWrites).
THEOREM SuiteDefers == SpecDrivers => SuiteDefersWrites
<1>1. TypeOK /\ DriversInv /\ [NextDrivers]_<<store, local>> =>
        [driver = "suite" /\ phase \in {"next", "episode", "returning"} /\ phase' # "flushed"
         => UNCHANGED manifest]_<<store, local>>
  <2> SUFFICES ASSUME TypeOK, DriversInv, NextDrivers, driver = "suite",
                      phase \in {"next", "episode", "returning"}, phase' # "flushed"
               PROVE  manifest' = manifest
    OBVIOUS
  <2>1. ~OpenManifest(Outer) /\ ~FillManifest(Outer) /\ ~OpenManifest(Inner) /\ ~FillManifest(Inner)
    BY DEF DriversInv, Deferring, InPhase, OpenManifest, FillManifest, Transition, Putting
  <2>2. ASSUME NEW s \in Stores, StoreStep(s) \/ StoreFails(s) \/ Reap(s) PROVE manifest' = manifest
    BY <2>1, <2>2, StoreAssumption DEF StoreStep, StoreFails, Reap, Advance, OpenBlob, FillBlob, WriteMeta,
       ListDeferred, ListNow, ListRaises, WriteFails, Crash, Close, disk
  <2> QED
    BY <2>2 DEF NextDrivers, Begin, Open, PutTasks, PutBytes, Begins, BeginEpisode, EpisodePut,
       FlushEpisode, EndEpisode, FlushSuite, PutReport, Finish, Flush, FlushManifest, FlushNothing,
       FlushReturns, Close, Enter, disk, store
<1>2. SpecDrivers => []TypeOK
  BY DriversUseStore, TypeCorrect, PTL
<1> QED
  BY <1>1, <1>2, DriversHold, PTL DEF SpecDrivers, SuiteDefersWrites
=============================================================================
