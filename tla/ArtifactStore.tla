---------------------------- MODULE ArtifactStore ----------------------------
(***************************************************************************)
(* The content-addressed store: one blob and one metadata file per hash,   *)
(* and manifest.json, which lists them.  Every ArtifactStore object keeps  *)
(* the manifest it loaded first in memory and rewrites the whole file from *)
(* it.  Objects live in one process or in several; nothing locks the       *)
(* directory.  A write opens the file, which empties it, then fills it.    *)
(***************************************************************************)
EXTENDS Naturals, FiniteSets

CONSTANTS Stores,     \* ArtifactStore objects on one directory
          Hashes,     \* content hashes: a content and its hash are one thing
          Types,      \* artifact types
          Batches,    \* whether EIDOLON_MANIFEST_BATCH = "1" may be set
          NoHash, NoType,
          MaxFaults   \* bound on crashes and failed writes

ASSUME NullAssumption   == NoHash \notin Hashes /\ NoType \notin Types
ASSUME BatchAssumption  == Batches \subseteq BOOLEAN
ASSUME FaultsAssumption == MaxFaults \in Nat

Entry == [hash : Hashes, type : Types]
NoEntry == [hash |-> NoHash, type |-> NoType]

VARIABLES blob,      \* <hash>.bin
          meta,      \* <hash>.meta.json
          manifest,  \* manifest.json
          pc,        \* where each store object is
          arg,       \* the entry of the put it runs, NoEntry for a flush
          cache,     \* _manifest_cache
          dirty,     \* _manifest_dirty
          mode,      \* _manifest_flush_mode
          batch,     \* _manifest_batch, of the environment
          owed,      \* history: hashes a put returned for, less those that were
                     \* lost with an object that went away unflushed
          damaged,   \* history: hashes whose blob a fault left half-written
          faults,    \* history: number of faults
          overlap    \* history: two objects have been open at the same time

disk    == <<blob, meta, manifest>>
memory  == <<cache, dirty, mode, batch>>
history == <<owed, damaged, faults, overlap>>
vars    == <<disk, pc, arg, memory, history>>

-----------------------------------------------------------------------------
FileState == {"absent", "torn", "whole"}
Modes     == {"per_episode", "per_suite"}

\* The states in which a file is about to be opened ...
Opening == {"openblob", "openmanifest"}
\* ... and those in which it has been opened and is empty.
Filling == {"fillblob", "fillmanifest"}

NotLoaded       == [loaded |-> FALSE, entries |-> {}]
Loaded(entries) == [loaded |-> TRUE, entries |-> entries]

HashesOf(entries) == {e.hash : e \in entries}

\* Fault: two types of one content make two entries.
AddEntryByValue(entries, e) == entries \cup {e}

\* ArtifactManifest.add_entry: a hash that is listed keeps its first entry.
AddEntry(entries, e) ==
    IF e.hash \in HashesOf(entries) THEN entries ELSE entries \cup {e}

\* Fault: a manifest that does not parse counts as a missing one.
LoadSucceedsAlways(s) == TRUE

\* load_manifest returns unless it must read a file that is not JSON.
LoadSucceeds(s) == cache[s].loaded \/ manifest.state # "torn"

\* Fault: the file is read only by the first put, later ones start afresh.
LoadManifestEmpty(s) == cache[s].entries

\* What load_manifest returns: the cached manifest, else that of the file.
LoadManifest(s) == IF cache[s].loaded THEN cache[s].entries ELSE manifest.entries

\* put_bytes leaves the file alone in batch mode and in per_suite mode.
Deferred(s) == batch \/ mode[s] = "per_suite"

Transition(s, from, to) ==
    /\ pc[s] = from
    /\ pc' = [pc EXCEPT ![s] = to]

-----------------------------------------------------------------------------
Init ==
    /\ blob = [h \in Hashes |-> "absent"]
    /\ meta = [h \in Hashes |-> "absent"]
    /\ manifest = [state |-> "absent", entries |-> {}]
    /\ pc = [s \in Stores |-> "closed"]
    /\ arg = [s \in Stores |-> NoEntry]
    /\ cache = [s \in Stores |-> NotLoaded]
    /\ dirty = [s \in Stores |-> FALSE]
    /\ mode = [s \in Stores |-> "per_episode"]
    /\ batch \in Batches
    /\ owed = {}
    /\ damaged = {}
    /\ faults = 0
    /\ overlap = FALSE

\* ArtifactStore(root), with the flush mode the environment names.
Open(s, m) ==
    /\ Transition(s, "closed", "idle")
    /\ cache' = [cache EXCEPT ![s] = NotLoaded]
    /\ dirty' = [dirty EXCEPT ![s] = FALSE]
    /\ mode' = [mode EXCEPT ![s] = m]
    /\ overlap' = (overlap \/ \E t \in Stores \ {s} : pc[t] # "closed")
    /\ UNCHANGED <<disk, arg, batch, owed, damaged, faults>>

\* Fault: the mode is switched and the object is taken for clean.
SetFlushModeClean(s, m) ==
    /\ pc[s] = "idle"
    /\ mode[s] # m
    /\ mode' = [mode EXCEPT ![s] = m]
    /\ dirty' = [dirty EXCEPT ![s] = FALSE]
    /\ UNCHANGED <<disk, pc, arg, cache, batch, history>>

\* set_manifest_flush_mode: what is dirty stays dirty.
SetManifestFlushMode(s, m) ==
    /\ pc[s] = "idle"
    /\ mode[s] # m
    /\ mode' = [mode EXCEPT ![s] = m]
    /\ UNCHANGED <<disk, pc, arg, cache, dirty, batch, history>>

\* Hashes that only s knows to be listed.
Unwritten(s) == IF dirty[s] THEN HashesOf(cache[s].entries \ manifest.entries) ELSE {}

\* What the object knew is gone.
Forget(s) ==
    /\ owed' = owed \ Unwritten(s)
    /\ cache' = [cache EXCEPT ![s] = NotLoaded]
    /\ dirty' = [dirty EXCEPT ![s] = FALSE]
    /\ mode' = [mode EXCEPT ![s] = "per_episode"]

\* The object is dropped, or its process exits: nothing is flushed.
Close(s) ==
    /\ Transition(s, "idle", "closed")
    /\ Forget(s)
    /\ UNCHANGED <<disk, arg, batch, damaged, faults, overlap>>

-----------------------------------------------------------------------------
Begins(s, h, t, step) ==
    /\ Transition(s, "idle", step)
    /\ arg' = [arg EXCEPT ![s] = [hash |-> h, type |-> t]]
    /\ UNCHANGED <<disk, memory, history>>

\* Fault: metadata is taken for written when the blob is there.
PutBytesOnce(s, h, t) ==
    \/ blob[h] = "absent" /\ Begins(s, h, t, "openblob")
    \/ blob[h] # "absent" /\ Begins(s, h, t, "list")

\* put_bytes of content h under type t: data_path.exists() decides whether
\* the blob is written; one that is there, whole or not, is kept.
PutBytes(s, h, t) ==
    \/ blob[h] = "absent" /\ Begins(s, h, t, "openblob")
    \/ blob[h] # "absent" /\ Begins(s, h, t, "writemeta")

OpenBlob(s) ==
    /\ Transition(s, "openblob", "fillblob")
    /\ blob' = [blob EXCEPT ![arg[s].hash] = "torn"]
    /\ UNCHANGED <<meta, manifest, arg, memory, history>>

\* Fault: the bytes stay in a buffer that nobody flushes.
FillBlobLater(s) ==
    /\ Transition(s, "fillblob", "writemeta")
    /\ UNCHANGED <<disk, arg, memory, history>>

FillBlob(s) ==
    /\ Transition(s, "fillblob", "writemeta")
    /\ blob' = [blob EXCEPT ![arg[s].hash] = "whole"]
    /\ UNCHANGED <<meta, manifest, arg, memory, history>>

\* The metadata is written on every put.  Nothing reads it back meanwhile.
WriteMeta(s) ==
    /\ Transition(s, "writemeta", "list")
    /\ meta' = [meta EXCEPT ![arg[s].hash] = "whole"]
    /\ UNCHANGED <<blob, manifest, arg, memory, history>>

\* The put adds its entry to the manifest in memory and returns ...
ListDeferred(s) ==
    /\ Deferred(s)
    /\ LoadSucceeds(s)
    /\ Transition(s, "list", "idle")
    /\ cache' = [cache EXCEPT ![s] = Loaded(AddEntry(LoadManifest(s), arg[s]))]
    /\ dirty' = [dirty EXCEPT ![s] = TRUE]
    /\ owed' = owed \cup {arg[s].hash}
    /\ arg' = [arg EXCEPT ![s] = NoEntry]
    /\ UNCHANGED <<disk, mode, batch, damaged, faults, overlap>>

\* ... or goes on to write_manifest.
ListNow(s) ==
    /\ ~Deferred(s)
    /\ LoadSucceeds(s)
    /\ Transition(s, "list", "openmanifest")
    /\ cache' = [cache EXCEPT ![s] = Loaded(AddEntry(LoadManifest(s), arg[s]))]
    /\ UNCHANGED <<disk, arg, dirty, mode, batch, history>>

\* load_manifest raises: the put fails after its files are written.
ListRaises(s) ==
    /\ ~LoadSucceeds(s)
    /\ Transition(s, "list", "idle")
    /\ arg' = [arg EXCEPT ![s] = NoEntry]
    /\ UNCHANGED <<disk, memory, history>>

-----------------------------------------------------------------------------
\* flush_manifest writes nothing in per_suite mode unless forced, and
\* otherwise only what is dirty or, when forced, what is not empty.
FlushWrites(s, force) ==
    /\ mode[s] = "per_suite" => force
    /\ dirty[s] \/ (force /\ LoadManifest(s) # {})

\* Fault: a flush goes through the end of put_bytes, which adds an entry.
FlushManifestByPut(s, force) ==
    /\ FlushWrites(s, force)
    /\ LoadSucceeds(s)
    /\ Transition(s, "idle", "list")
    /\ UNCHANGED <<disk, arg, memory, history>>

FlushManifest(s, force) ==
    /\ FlushWrites(s, force)
    /\ LoadSucceeds(s)
    /\ Transition(s, "idle", "openmanifest")
    /\ cache' = [cache EXCEPT ![s] = Loaded(LoadManifest(s))]
    /\ UNCHANGED <<disk, arg, dirty, mode, batch, history>>

\* A flush that has nothing to write still loads the manifest.
FlushNothing(s, force) ==
    /\ pc[s] = "idle"
    /\ mode[s] = "per_suite" => force
    /\ ~FlushWrites(s, force)
    /\ LoadSucceeds(s)
    /\ cache' = [cache EXCEPT ![s] = Loaded(LoadManifest(s))]
    /\ UNCHANGED <<disk, pc, arg, dirty, mode, batch, history>>

\* A reader asks for the manifest.
Load(s) ==
    /\ pc[s] = "idle"
    /\ LoadSucceeds(s)
    /\ cache' = [cache EXCEPT ![s] = Loaded(LoadManifest(s))]
    /\ UNCHANGED <<disk, pc, arg, dirty, mode, batch, history>>

OpenManifest(s) ==
    /\ Transition(s, "openmanifest", "fillmanifest")
    /\ manifest' = [state |-> "torn", entries |-> {}]
    /\ UNCHANGED <<blob, meta, arg, memory, history>>

\* write_manifest ends; so does the put or the flush that called it.
FillManifest(s) ==
    /\ Transition(s, "fillmanifest", "idle")
    /\ manifest' = [state |-> "whole", entries |-> cache[s].entries]
    /\ dirty' = [dirty EXCEPT ![s] = FALSE]
    /\ owed' = owed \cup ({arg[s].hash} \cap Hashes)
    /\ arg' = [arg EXCEPT ![s] = NoEntry]
    /\ UNCHANGED <<blob, meta, cache, mode, batch, damaged, faults, overlap>>

-----------------------------------------------------------------------------
\* What a fault in the middle of a write leaves: the blob and the manifest
\* were emptied when they were opened, the metadata may be.
HalfWritten(s) ==
    /\ faults < MaxFaults
    /\ faults' = faults + 1
    /\ damaged' = IF pc[s] = "fillblob" THEN damaged \cup {arg[s].hash}
                                        ELSE damaged
    /\ \/ UNCHANGED meta
       \/ pc[s] = "writemeta" /\ meta' = [meta EXCEPT ![arg[s].hash] = "torn"]
    /\ arg' = [arg EXCEPT ![s] = NoEntry]

\* A write raises, when it opens the file (too many are open) or fills it (the
\* disk is full): the put or the flush fails, the object stays usable with what
\* it has in memory, an entry that add_entry gave the manifest included.
WriteFails(s) ==
    /\ pc[s] \in Opening \cup Filling \cup {"writemeta"}
    /\ pc' = [pc EXCEPT ![s] = "idle"]
    /\ HalfWritten(s)
    /\ UNCHANGED <<blob, manifest, memory, owed, overlap>>

\* The process dies in the middle of a call.
Crash(s) ==
    /\ pc[s] \notin {"closed", "idle"}
    /\ pc' = [pc EXCEPT ![s] = "closed"]
    /\ HalfWritten(s)
    /\ Forget(s)
    /\ UNCHANGED <<blob, manifest, batch, overlap>>

Call(s) ==
    \/ \E m \in Modes : Open(s, m)
    \/ \E m \in Modes : SetManifestFlushMode(s, m)
    \/ \E h \in Hashes, t \in Types : PutBytes(s, h, t)
    \/ \E force \in BOOLEAN : FlushManifest(s, force) \/ FlushNothing(s, force)
    \/ Load(s) \/ Close(s)

\* The steps of a call that goes well.
Advance(s) ==
    \/ OpenBlob(s) \/ FillBlob(s) \/ WriteMeta(s)
    \/ ListDeferred(s) \/ ListNow(s)
    \/ OpenManifest(s) \/ FillManifest(s)

Next == \E s \in Stores : Call(s) \/ Advance(s) \/ ListRaises(s) \/ WriteFails(s) \/ Crash(s)

Spec == Init /\ [][Next]_vars

-----------------------------------------------------------------------------
\* Types of the variables.
TypeOK ==
    /\ blob \in [Hashes -> FileState]
    /\ meta \in [Hashes -> FileState]
    /\ manifest \in [state : FileState, entries : SUBSET Entry]
    /\ pc \in [Stores -> {"closed", "idle", "writemeta", "list"} \cup Opening \cup Filling]
    /\ arg \in [Stores -> Entry \cup {NoEntry}]
    /\ cache \in [Stores -> [loaded : BOOLEAN, entries : SUBSET Entry]]
    /\ dirty \in [Stores -> BOOLEAN]
    /\ mode \in [Stores -> Modes]
    /\ batch \in BOOLEAN
    /\ owed \subseteq Hashes
    /\ damaged \subseteq Hashes
    /\ faults \in 0..MaxFaults
    /\ overlap \in BOOLEAN

\* A blob is short only while a put fills it or after a fault cut its write
\* off, however many objects and processes put the same content at once.
TornIsExplained ==
    \A h \in Hashes : blob[h] = "torn" =>
        h \in damaged \/ \E s \in Stores : pc[s] = "fillblob" /\ arg[s].hash = h

\* Whatever any manifest lists, in a file or in memory, and whatever a put
\* returned for, has its blob and its metadata on disk: a crash, a failed
\* write or a concurrent put never leaves a listing without its artifact.
ListedHasArtifact ==
    \A h \in owed \cup HashesOf(manifest.entries)
                   \cup UNION {HashesOf(cache[s].entries) : s \in Stores} :
        blob[h] # "absent" /\ meta[h] # "absent"

\* A hash has one entry in every manifest, whichever types it was put under.
OneEntryPerHash ==
    \A entries \in {manifest.entries} \cup {cache[s].entries : s \in Stores} :
        \A e, f \in entries : e.hash = f.hash => e = f

\* As long as the objects are used one after the other, a put that returned is
\* listed in manifest.json or in the memory of the open object, unless a
\* deferring object went away unflushed or the file itself is damaged.
NothingUnlisted ==
    ~overlap =>
        \A h \in owed :
            \/ h \in HashesOf(manifest.entries)
            \/ \E s \in Stores : h \in HashesOf(cache[s].entries)
            \/ manifest.state = "torn"

\* An object that is alone, idle and not dirty holds in memory all that
\* manifest.json lists, and no put that returned is waiting there to be
\* written: what it has more was left by a put that failed.
CacheIsFile ==
    ~overlap =>
        \A s \in Stores :
            pc[s] = "idle" /\ cache[s].loaded /\ ~dirty[s] /\ manifest.state # "torn"
                => /\ manifest.entries \subseteq cache[s].entries
                   /\ HashesOf(cache[s].entries \ manifest.entries) \cap owed = {}

\* A damaged manifest.json is never replaced by one that has forgotten what it
\* listed: only an object that had loaded it before the damage rewrites it.
TornManifestStops ==
    [][(~overlap /\ manifest.state = "torn" /\ \A s \in Stores : ~cache[s].loaded)
       => UNCHANGED <<manifest, owed>>]_vars
=============================================================================
