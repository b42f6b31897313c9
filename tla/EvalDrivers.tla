----------------------------- MODULE EvalDrivers -----------------------------
(***************************************************************************)
(* The three evaluation commands over the artifact store of ArtifactStore. *)
(* Each runs in one process, several one after the other on one directory. *)
(* run_open_eval and run_sealed_eval keep a store object of their own and  *)
(* let controller.run make another for every episode; run_suite hands its  *)
(* object to every episode and writes the manifest once, at the end.       *)
(***************************************************************************)
EXTENDS ArtifactStore

CONSTANTS Drivers,         \* which of "open", "sealed", "suite" are run
          FlushModes,      \* what EIDOLON_STORE_MANIFEST_FLUSH_MODE may be
          Outer,           \* the driver's store object
          Inner,           \* the store object of an episode
          Tasks, Report,   \* what the driver itself puts
          EpisodeEntries,  \* what episodes put
          MaxEpisodes,     \* bound on the episodes of one command
          MaxRuns          \* bound on the commands run

ASSUME DriverAssumption  == Drivers \subseteq {"open", "sealed", "suite"}
ASSUME ModesAssumption   == FlushModes \subseteq Modes
ASSUME StoreAssumption   == Stores = {Outer, Inner} /\ Outer # Inner
ASSUME EntriesAssumption == {Tasks, Report} \cup EpisodeEntries \subseteq Entry
ASSUME BoundsAssumption  == MaxEpisodes \in Nat /\ MaxRuns \in Nat

VARIABLES driver,   \* the command that runs
          envMode,  \* the flush mode that its environment names
          phase,    \* where it is
          puts,     \* hashes put by the current episode
          held,     \* hashes of episodes that returned, the manifest not flushed
          due,      \* history: the hashes stored by episodes whose manifest has
                    \* been flushed, with the command and the mode of the
                    \* object that stored them
          episodes, \* episodes begun by this command
          runs      \* commands begun

store == <<disk, pc, arg, memory, history>>
local == <<driver, envMode, phase, puts, held, due, episodes, runs>>

Closed == \A s \in Stores : pc[s] = "closed"
Waiting(s) == pc[s] = "idle"

\* The object that controller.run uses.
EpisodeStore == IF driver = "suite" THEN Outer ELSE Inner

Outputs(hashes) == {[by |-> driver, mode |-> mode[EpisodeStore], hash |-> h] : h \in hashes}

Enter(from, to) == phase = from /\ phase' = to

-----------------------------------------------------------------------------
InitDrivers ==
    /\ Init
    /\ driver = "open"
    /\ envMode = "per_episode"
    /\ phase = "off"
    /\ puts = {}
    /\ held = {}
    /\ due = {}
    /\ episodes = 0
    /\ runs = 0

\* Fault: the suite leaves its store in the mode of the environment.
BeginPerEpisode(d, m) ==
    /\ phase \in {"off", "done", "failed"}
    /\ Closed
    /\ runs < MaxRuns
    /\ driver' = d
    /\ envMode' = m
    /\ phase' = IF d = "sealed" THEN "tasks" ELSE "next"
    /\ Open(Outer, m)
    /\ held' = {}
    /\ episodes' = 0
    /\ runs' = runs + 1
    /\ UNCHANGED <<puts, due>>

\* A command starts and makes its store in the mode of the environment;
\* run_suite switches it to per_suite.
Begin(d, m) ==
    /\ phase \in {"off", "done", "failed"}
    /\ Closed
    /\ runs < MaxRuns
    /\ driver' = d
    /\ envMode' = m
    /\ phase' = IF d = "sealed" THEN "tasks" ELSE "next"
    /\ Open(Outer, IF d = "suite" THEN "per_suite" ELSE m)
    /\ held' = {}
    /\ episodes' = 0
    /\ runs' = runs + 1
    /\ UNCHANGED <<puts, due>>

\* run_sealed_eval stores its tasks before the first episode.
PutTasks ==
    /\ Enter("tasks", "next")
    /\ PutBytes(Outer, Tasks.hash, Tasks.type)
    /\ UNCHANGED <<driver, envMode, puts, held, due, episodes, runs>>

\* controller.run makes a store, in the mode of the environment, unless it was
\* given one.
BeginEpisode ==
    /\ Enter("next", "episode")
    /\ Waiting(Outer)
    /\ episodes < MaxEpisodes
    /\ episodes' = episodes + 1
    /\ IF EpisodeStore = Inner THEN Open(Inner, envMode) ELSE UNCHANGED store
    /\ puts' = {}
    /\ UNCHANGED <<driver, envMode, held, due, runs>>

\* The episode stores an artifact.
EpisodePut(e) ==
    /\ phase = "episode"
    /\ PutBytes(EpisodeStore, e.hash, e.type)
    /\ puts' = puts \cup {e.hash}
    /\ UNCHANGED <<driver, envMode, phase, held, due, episodes, runs>>

\* flush_manifest() in per_suite mode returns at once.
FlushReturns(s, force) == Waiting(s) /\ mode[s] = "per_suite" /\ ~force /\ UNCHANGED store

Flush(s, force) ==
    FlushManifest(s, force) \/ FlushNothing(s, force) \/ FlushReturns(s, force)

\* Fault: the episode returns without flushing.
ReturnUnflushed ==
    /\ Enter("episode", "returning")
    /\ puts # {}
    /\ Waiting(EpisodeStore)
    /\ UNCHANGED <<store, driver, envMode, puts, held, due, episodes, runs>>

\* After its last put, that of the UCR, the episode flushes.
FlushEpisode ==
    /\ Enter("episode", "returning")
    /\ puts # {}
    /\ Flush(EpisodeStore, FALSE)
    /\ UNCHANGED <<driver, envMode, puts, held, due, episodes, runs>>

\* controller.run returns, and a store it made is dropped.
EndEpisode ==
    /\ Enter("returning", "next")
    /\ Waiting(EpisodeStore)
    /\ IF driver = "suite"
       THEN UNCHANGED store /\ held' = held \cup puts /\ UNCHANGED due
       ELSE Close(Inner) /\ due' = due \cup Outputs(puts) /\ UNCHANGED held
    /\ puts' = {}
    /\ UNCHANGED <<driver, envMode, episodes, runs>>

\* run_suite writes the manifest when all episodes have run.
FlushSuite ==
    /\ Enter("next", "flushed")
    /\ driver = "suite"
    /\ Flush(Outer, TRUE)
    /\ UNCHANGED <<driver, envMode, puts, held, due, episodes, runs>>

\* The command stores its report.
PutReport ==
    /\ \/ driver # "suite" /\ Enter("next", "report") /\ UNCHANGED <<held, due>>
       \/ /\ driver = "suite" /\ Enter("flushed", "report")
          /\ due' = due \cup Outputs(held)
          /\ held' = {}
    /\ PutBytes(Outer, Report.hash, Report.type)
    /\ UNCHANGED <<driver, envMode, puts, episodes, runs>>

\* The command exits.
Finish ==
    /\ Enter("report", "done")
    /\ Close(Outer)
    /\ UNCHANGED <<driver, envMode, puts, held, due, episodes, runs>>

-----------------------------------------------------------------------------
\* The store goes on with a call.
StoreStep(s) ==
    /\ Advance(s)
    /\ UNCHANGED local

\* An exception or a crash ends the command.
StoreFails(s) ==
    /\ ListRaises(s) \/ WriteFails(s) \/ Crash(s)
    /\ phase' = "failed"
    /\ UNCHANGED <<driver, envMode, puts, held, due, episodes, runs>>

\* The objects of a command that ended go with its process.
Reap(s) ==
    /\ phase = "failed"
    /\ Close(s)
    /\ UNCHANGED local

NextDrivers ==
    \/ \E d \in Drivers, m \in FlushModes : Begin(d, m)
    \/ PutTasks \/ BeginEpisode \/ FlushEpisode \/ EndEpisode
    \/ \E e \in EpisodeEntries : EpisodePut(e)
    \/ FlushSuite \/ PutReport \/ Finish
    \/ \E s \in Stores : StoreStep(s) \/ StoreFails(s) \/ Reap(s)

SpecDrivers == InitDrivers /\ [][NextDrivers]_<<store, local>>

-----------------------------------------------------------------------------
\* The driver's variables have their types and the episode's store object is
\* open exactly while an episode that made one runs.
DriversOK ==
    /\ TypeOK
    /\ driver \in {"open", "sealed", "suite"}
    /\ envMode \in Modes
    /\ phase \in {"off", "tasks", "next", "episode", "returning", "flushed", "report",
                  "done", "failed"}
    /\ puts \cup held \subseteq Hashes
    /\ due \subseteq [by : {"open", "sealed", "suite"}, mode : Modes, hash : Hashes]
    /\ episodes \in 0..MaxEpisodes
    /\ runs \in 0..MaxRuns
    /\ phase # "failed" =>
          (pc[Inner] # "closed" <=> driver # "suite" /\ phase \in {"episode", "returning"})

Listed(outputs) ==
    manifest.state # "torn" => \A d \in outputs : d.hash \in HashesOf(manifest.entries)

\* README: all important outputs are listed in artifact_store/manifest.json.
\* Whenever it can be read, it lists what the episodes that returned stored; a
\* file that is not there lists nothing.
OutputsListed == Listed(due)

\* Outputs of a suite, which flushes by force, and of an open evaluation whose
\* environment does not defer its flushes.
Flushed == {d \in due : d.by = "suite" \/ (d.by = "open" /\ d.mode = "per_episode")}

\* What the episodes of suites stored, and those of open evaluations unless the
\* environment says per_suite, in which no flush of an open evaluation writes,
\* stays listed over any number of commands of any mode, sealed evaluations,
\* failures and crashes included.
OthersStayListed == Listed(Flushed)

\* The two objects of a command never wait for each other's writes: when the
\* driver's object puts, the episode's is gone, so that at most one call is in
\* progress on the directory.
OneCallAtATime ==
    \A s, t \in Stores : pc[s] \notin {"closed", "idle"} /\ pc[t] \notin {"closed", "idle"} => s = t

\* A suite leaves manifest.json alone until its episodes are over.
SuiteDefersWrites ==
    [][driver = "suite" /\ phase \in {"next", "episode", "returning"} /\ phase' # "flushed"
       => UNCHANGED manifest]_<<store, local>>
=============================================================================
