-------------------------- MODULE ArtifactStoreProofs --------------------------
(***************************************************************************)
(* What holds of the artifact store for any number of store objects,       *)
(* contents, types and faults, however their calls interleave: types, that *)
(* a listing never lacks its artifact, that a short blob has a cause, and  *)
(* that no manifest lists a hash twice.                                    *)
(***************************************************************************)
EXTENDS ArtifactStore, TLAPS

Steps == {"closed", "idle", "writemeta", "list"} \cup Opening \cup Filling

\* A put that is past its blob (its metadata) has it on disk.
PutOf(s) ==
    /\ pc[s] \in {"openblob", "fillblob", "writemeta", "list"} => arg[s] \in Entry
    /\ pc[s] \in {"closed", "idle"} => arg[s] = NoEntry
    /\ pc[s] \in {"fillblob", "writemeta", "list"} => blob[arg[s].hash] # "absent"
    /\ pc[s] = "list" => meta[arg[s].hash] # "absent"
    /\ pc[s] \in {"openmanifest", "fillmanifest"} /\ arg[s] # NoEntry =>
           blob[arg[s].hash] # "absent" /\ meta[arg[s].hash] # "absent"

PutInProgress == \A s \in Stores : PutOf(s)

\* ListedHasArtifact, part by part.
Stored(h) == blob[h] # "absent" /\ meta[h] # "absent"

OwedStored   == \A h \in owed : Stored(h)
FileStored   == \A e \in manifest.entries : Stored(e.hash)
CachesStored == \A s \in Stores : \A e \in cache[s].entries : Stored(e.hash)

ListedInv == TypeOK /\ PutInProgress /\ OwedStored /\ FileStored /\ CachesStored

-----------------------------------------------------------------------------
\* Adding an entry keeps a set of entries a set of entries.
LEMMA AddEntryType ==
    ASSUME NEW entries \in SUBSET Entry, NEW e \in Entry
    PROVE  AddEntry(entries, e) \in SUBSET Entry
BY DEF AddEntry

\* What load_manifest returns is a set of entries.
LEMMA LoadType ==
    ASSUME TypeOK, NEW s \in Stores
    PROVE  LoadManifest(s) \in SUBSET Entry
BY DEF TypeOK, LoadManifest

\* The initial state is well typed and nothing is listed or in progress.
LEMMA InitListed == Init => ListedInv
<1> SUFFICES ASSUME Init PROVE ListedInv
  OBVIOUS
<1>1. TypeOK
  <2>1. faults \in 0..MaxFaults
    BY FaultsAssumption DEF Init
  <2> QED
    BY <2>1, BatchAssumption DEF Init, TypeOK, FileState, NotLoaded, Modes, Entry, NoEntry, Opening, Filling
<1>2. PutInProgress
  BY DEF Init, PutInProgress, PutOf
<1>3. OwedStored /\ FileStored /\ CachesStored
  BY DEF Init, OwedStored, FileStored, CachesStored, NotLoaded
<1> QED
  BY <1>1, <1>2, <1>3 DEF ListedInv

\* What HalfWritten changes keeps its type, and metadata does not disappear.
LEMMA HalfWrittenType ==
    ASSUME TypeOK, PutInProgress, NEW s \in Stores, HalfWritten(s)
    PROVE  /\ faults' \in 0..MaxFaults
           /\ damaged' \subseteq Hashes
           /\ meta' \in [Hashes -> FileState]
           /\ arg' \in [Stores -> Entry \cup {NoEntry}]
           /\ \A h \in Hashes : meta[h] # "absent" => meta'[h] # "absent"
<1>1. faults' \in 0..MaxFaults
  BY FaultsAssumption DEF HalfWritten, TypeOK
<1>2. damaged' \subseteq Hashes
  BY DEF HalfWritten, TypeOK, PutInProgress, PutOf, Entry
<1>3. meta' \in [Hashes -> FileState] /\ \A h \in Hashes : meta[h] # "absent" => meta'[h] # "absent"
  BY DEF HalfWritten, TypeOK, FileState
<1>4. arg' \in [Stores -> Entry \cup {NoEntry}]
  BY DEF HalfWritten, TypeOK
<1> QED
  BY <1>1, <1>2, <1>3, <1>4

\* The set of the values that cache[s] takes.
CacheType == [loaded : BOOLEAN, entries : SUBSET Entry]

\* An object that moves to another step stays well typed.
LEMMA PcType ==
    ASSUME TypeOK, NEW s \in Stores, NEW to \in Steps, pc' = [pc EXCEPT ![s] = to]
    PROVE  pc' \in [Stores -> Steps]
BY DEF TypeOK, Steps, Opening

\* Replacing the manifest in memory keeps the types.
LEMMA CacheChange ==
    ASSUME TypeOK, NEW s \in Stores, NEW c \in CacheType, cache' = [cache EXCEPT ![s] = c]
    PROVE  cache' \in [Stores -> CacheType]
BY DEF TypeOK, CacheType

\* The two kinds of value it is replaced by.
LEMMA CacheValues ==
    /\ NotLoaded \in CacheType
    /\ \A entries \in SUBSET Entry : Loaded(entries) \in CacheType
BY DEF NotLoaded, Loaded, CacheType

\* The objects' calls other than puts keep the types ...
LEMMA CallTypes ==
    ASSUME TypeOK, NEW s \in Stores, NEW m \in Modes, NEW force \in BOOLEAN,
           \/ Open(s, m) \/ SetManifestFlushMode(s, m) \/ Close(s)
           \/ FlushManifest(s, force) \/ FlushNothing(s, force) \/ Load(s)
    PROVE  TypeOK'
<1> USE DEF Transition, disk, memory, history
<1>1. CASE Open(s, m)
  <2>1. overlap' \in BOOLEAN
    BY <1>1, Zenon DEF TypeOK, Open
  <2>2. cache' \in [Stores -> CacheType]
    BY <1>1, CacheChange, CacheValues DEF Open
  <2>3. pc' \in [Stores -> Steps]
    BY <1>1, PcType DEF Open, Steps, Opening
  <2> QED
    BY <1>1, <2>1, <2>2, <2>3 DEF TypeOK, Open, CacheType, Steps, Opening
<1>2. CASE SetManifestFlushMode(s, m)
  BY <1>2 DEF TypeOK, SetManifestFlushMode
<1>3. CASE Close(s)
  <2>1. cache' \in [Stores -> CacheType]
    BY <1>3, CacheChange, CacheValues DEF Close, Forget
  <2>2. pc' \in [Stores -> Steps]
    BY <1>3, PcType DEF Close, Steps, Opening
  <2>3. /\ dirty' \in [Stores -> BOOLEAN]
        /\ mode' \in [Stores -> Modes]
        /\ owed' \subseteq Hashes
    BY <1>3 DEF TypeOK, Close, Forget, Modes
  <2> QED
    BY <1>3, <2>1, <2>2, <2>3 DEF TypeOK, Close, CacheType, Steps, Opening
<1>4. CASE FlushManifest(s, force) \/ FlushNothing(s, force) \/ Load(s)
  <2>1. cache' \in [Stores -> CacheType]
    BY <1>4, CacheChange, CacheValues, LoadType DEF FlushManifest, FlushNothing, Load
  <2>2. pc' \in [Stores -> Steps]
    BY <1>4, PcType DEF FlushManifest, FlushNothing, Load, TypeOK, Steps, Opening
  <2> QED
    BY <1>4, <2>1, <2>2 DEF TypeOK, FlushManifest, FlushNothing, Load, CacheType, Steps, Opening
<1> QED
  BY <1>1, <1>2, <1>3, <1>4

\* ... and so do puts and the writes of the manifest ...
LEMMA AdvanceTypes ==
    ASSUME TypeOK, PutInProgress, NEW s \in Stores,
           \/ \E h \in Hashes, t \in Types : PutBytes(s, h, t)
           \/ Advance(s) \/ ListRaises(s)
    PROVE  TypeOK'
<1> USE DEF Transition, disk, memory, history
<1>1. CASE \E h \in Hashes, t \in Types : PutBytes(s, h, t)
  <2> PICK h \in Hashes, t \in Types : PutBytes(s, h, t)
    BY <1>1
  <2>1. pc' \in [Stores -> Steps]
    BY PcType DEF PutBytes, Begins, Steps, Opening
  <2>2. [hash |-> h, type |-> t] \in Entry
    BY DEF Entry
  <2>3. arg' \in [Stores -> Entry \cup {NoEntry}]
    BY <2>2 DEF TypeOK, PutBytes, Begins
  <2> QED
    BY <2>1, <2>3 DEF TypeOK, PutBytes, Begins, Steps, Opening
<1>2. CASE OpenBlob(s) \/ FillBlob(s) \/ WriteMeta(s)
  <2>1. pc' \in [Stores -> Steps]
    BY <1>2, PcType DEF OpenBlob, FillBlob, WriteMeta, Steps, Opening, Filling
  <2>2. blob' \in [Hashes -> FileState] /\ meta' \in [Hashes -> FileState]
    BY <1>2 DEF TypeOK, OpenBlob, FillBlob, WriteMeta, FileState
  <2> QED
    BY <1>2, <2>1, <2>2 DEF TypeOK, OpenBlob, FillBlob, WriteMeta, Steps, Opening
<1>3. CASE ListDeferred(s) \/ ListNow(s)
  <2>1. pc' \in [Stores -> Steps]
    BY <1>3, PcType DEF ListDeferred, ListNow, Steps, Opening
  <2>2. arg[s] \in Entry
    BY <1>3 DEF PutInProgress, PutOf, ListDeferred, ListNow
  <2>3. cache' \in [Stores -> CacheType]
    BY <1>3, <2>2, CacheChange, CacheValues, AddEntryType, LoadType DEF ListDeferred, ListNow
  <2>4. /\ owed' \subseteq Hashes
        /\ dirty' \in [Stores -> BOOLEAN]
        /\ arg' \in [Stores -> Entry \cup {NoEntry}]
    BY <1>3, <2>2 DEF TypeOK, ListDeferred, ListNow, Entry
  <2> QED
    BY <1>3, <2>1, <2>3, <2>4 DEF TypeOK, ListDeferred, ListNow, CacheType, Steps, Opening
<1>4. CASE ListRaises(s)
  <2>1. pc' \in [Stores -> Steps]
    BY <1>4, PcType DEF ListRaises, Steps, Opening
  <2>2. arg' \in [Stores -> Entry \cup {NoEntry}]
    BY <1>4 DEF TypeOK, ListRaises
  <2> QED
    BY <1>4, <2>1, <2>2 DEF TypeOK, ListRaises, Steps, Opening
<1>5. CASE OpenManifest(s) \/ FillManifest(s)
  <2>1. pc' \in [Stores -> Steps]
    BY <1>5, PcType DEF OpenManifest, FillManifest, Steps, Opening, Filling
  <2>2. manifest' \in [state : FileState, entries : SUBSET Entry]
    BY <1>5 DEF TypeOK, OpenManifest, FillManifest, FileState
  <2>3. /\ owed' \subseteq Hashes
        /\ dirty' \in [Stores -> BOOLEAN]
        /\ arg' \in [Stores -> Entry \cup {NoEntry}]
    BY <1>5 DEF TypeOK, OpenManifest, FillManifest
  <2> QED
    BY <1>5, <2>1, <2>2, <2>3 DEF TypeOK, OpenManifest, FillManifest, Steps, Opening
<1> QED
  BY <1>1, <1>2, <1>3, <1>4, <1>5 DEF Advance

\* ... and faults.
LEMMA FaultTypes ==
    ASSUME TypeOK, PutInProgress, NEW s \in Stores, WriteFails(s) \/ Crash(s)
    PROVE  TypeOK'
<1> USE DEF disk, memory, history
<1>1. pc' \in [Stores -> Steps]
  BY PcType DEF WriteFails, Crash, Steps, Opening
<1>2. HalfWritten(s)
  BY DEF WriteFails, Crash
<1>3. CASE WriteFails(s)
  BY <1>1, <1>2, <1>3, HalfWrittenType DEF TypeOK, WriteFails, Steps, Opening
<1>4. CASE Crash(s)
  <2>1. cache' \in [Stores -> CacheType]
    BY <1>4, CacheChange, CacheValues DEF Crash, Forget
  <2>2. /\ dirty' \in [Stores -> BOOLEAN]
        /\ mode' \in [Stores -> Modes]
        /\ owed' \subseteq Hashes
    BY <1>4 DEF TypeOK, Crash, Forget, Modes
  <2> QED
    BY <1>1, <1>2, <1>4, <2>1, <2>2, HalfWrittenType DEF TypeOK, Crash, CacheType, Steps, Opening
<1> QED
  BY <1>3, <1>4

\* Every step keeps the types.
LEMMA TypeStep == TypeOK /\ PutInProgress /\ [Next]_vars => TypeOK'
<1> SUFFICES ASSUME TypeOK, PutInProgress, [Next]_vars PROVE TypeOK'
  OBVIOUS
<1>1. CASE UNCHANGED vars
  BY <1>1 DEF TypeOK, vars, disk, memory, history
<1>2. CASE Next
  BY <1>2, CallTypes, AdvanceTypes, FaultTypes DEF Next, Call, Modes
<1> QED
  BY <1>1, <1>2

-----------------------------------------------------------------------------
\* Files are never removed.
DiskGrows ==
    \A h \in Hashes :
        /\ blob[h] # "absent" => blob'[h] # "absent"
        /\ meta[h] # "absent" => meta'[h] # "absent"

\* No step removes a blob or metadata.
LEMMA StepGrows == TypeOK /\ PutInProgress /\ [Next]_vars => DiskGrows
<1> SUFFICES ASSUME TypeOK, PutInProgress, [Next]_vars PROVE DiskGrows
  OBVIOUS
<1> USE DEF disk, DiskGrows
<1>1. CASE UNCHANGED <<blob, meta>>
  BY <1>1
<1>2. ASSUME NEW s \in Stores, OpenBlob(s) \/ FillBlob(s) \/ WriteMeta(s) PROVE DiskGrows
  BY <1>2 DEF TypeOK, OpenBlob, FillBlob, WriteMeta
<1>3. ASSUME NEW s \in Stores, WriteFails(s) \/ Crash(s) PROVE DiskGrows
  BY <1>3, HalfWrittenType DEF WriteFails, Crash
<1> QED
  BY <1>1, <1>2, <1>3 DEF vars, Next, Call, Advance, Open, SetManifestFlushMode, PutBytes, Begins,
     FlushManifest, FlushNothing, Load, Close, ListDeferred, ListNow, ListRaises, OpenManifest,
     FillManifest

\* An object that does not move keeps what it had reached.
LEMMA OthersKeep ==
    ASSUME TypeOK, DiskGrows, NEW t \in Stores, PutOf(t), pc'[t] = pc[t], arg'[t] = arg[t]
    PROVE  PutOf(t)'
BY DEF TypeOK, DiskGrows, PutOf, Entry

\* A step of one object leaves the place and the argument of the others alone.
LEMMA OneMoves ==
    ASSUME TypeOK, NEW s \in Stores, NEW t \in Stores \ {s},
           \/ \E m \in Modes : Open(s, m) \/ SetManifestFlushMode(s, m)
           \/ \E h \in Hashes, y \in Types : PutBytes(s, h, y)
           \/ \E force \in BOOLEAN : FlushManifest(s, force) \/ FlushNothing(s, force) \/ Load(s)
           \/ Close(s) \/ Advance(s) \/ ListRaises(s) \/ WriteFails(s) \/ Crash(s)
    PROVE  pc'[t] = pc[t] /\ arg'[t] = arg[t]
BY DEF TypeOK, Transition, Open, SetManifestFlushMode, PutBytes, Begins, FlushManifest, FlushNothing,
   Load, Close, Advance, OpenBlob, FillBlob, WriteMeta, ListDeferred, ListNow, OpenManifest, FillManifest,
   ListRaises, WriteFails, Crash, HalfWritten

\* The object that moves reaches its next step with its files in place.
LEMMA MoverKeeps ==
    ASSUME TypeOK, PutInProgress, DiskGrows, NEW s \in Stores,
           \/ \E m \in Modes : Open(s, m) \/ SetManifestFlushMode(s, m)
           \/ \E h \in Hashes, y \in Types : PutBytes(s, h, y)
           \/ \E force \in BOOLEAN : FlushManifest(s, force) \/ FlushNothing(s, force) \/ Load(s)
           \/ Close(s) \/ Advance(s) \/ ListRaises(s) \/ WriteFails(s) \/ Crash(s)
    PROVE  PutOf(s)'
<1> USE DEF Transition, disk
<1>0. PutOf(s)
  BY DEF PutInProgress
<1>1. ASSUME NEW m \in Modes, Open(s, m) \/ SetManifestFlushMode(s, m) PROVE PutOf(s)'
  BY <1>0, <1>1 DEF TypeOK, PutOf, Open, SetManifestFlushMode
<1>2. ASSUME NEW h \in Hashes, NEW y \in Types, PutBytes(s, h, y) PROVE PutOf(s)'
  BY <1>2 DEF TypeOK, PutOf, PutBytes, Begins, Entry
<1>3. ASSUME NEW force \in BOOLEAN, FlushManifest(s, force) \/ FlushNothing(s, force) \/ Load(s)
      PROVE  PutOf(s)'
  BY <1>0, <1>3 DEF TypeOK, PutOf, FlushManifest, FlushNothing, Load
<1>4. CASE Close(s) \/ ListRaises(s) \/ WriteFails(s) \/ Crash(s)
  BY <1>0, <1>4 DEF TypeOK, PutOf, Close, ListRaises, WriteFails, Crash, HalfWritten
<1>5. CASE OpenBlob(s) \/ FillBlob(s) \/ WriteMeta(s)
  BY <1>0, <1>5 DEF TypeOK, PutOf, OpenBlob, FillBlob, WriteMeta, Entry
<1>6. CASE ListDeferred(s) \/ ListNow(s)
  BY <1>0, <1>6 DEF TypeOK, PutOf, ListDeferred, ListNow
<1>7. CASE OpenManifest(s) \/ FillManifest(s)
  BY <1>0, <1>7 DEF TypeOK, PutOf, OpenManifest, FillManifest
<1> QED
  BY <1>1, <1>2, <1>3, <1>4, <1>5, <1>6, <1>7 DEF Advance

\* Every step keeps what the puts in progress have reached.
LEMMA PutStep == TypeOK /\ PutInProgress /\ [Next]_vars => PutInProgress'
<1> SUFFICES ASSUME TypeOK, PutInProgress, [Next]_vars PROVE PutInProgress'
  OBVIOUS
<1>1. DiskGrows
  BY StepGrows
<1>2. CASE UNCHANGED vars
  BY <1>1, <1>2, OthersKeep DEF PutInProgress, vars
<1>3. ASSUME NEW s \in Stores, Call(s) \/ Advance(s) \/ ListRaises(s) \/ WriteFails(s) \/ Crash(s)
      PROVE  PutInProgress'
  <2>1. PutOf(s)'
    BY <1>1, <1>3, MoverKeeps DEF Call
  <2>2. ASSUME NEW t \in Stores \ {s} PROVE PutOf(t)'
    BY <1>1, <1>3, <2>2, OneMoves, OthersKeep DEF Call, PutInProgress
  <2> QED
    BY <2>1, <2>2 DEF PutInProgress
<1> QED
  BY <1>2, <1>3 DEF Next

-----------------------------------------------------------------------------
\* What manifest.json lists after a step is what it listed, nothing, or what
\* some object had in memory.
LEMMA FileOrigin ==
    ASSUME [Next]_vars
    PROVE  \/ manifest'.entries = manifest.entries
           \/ manifest'.entries = {}
           \/ \E s \in Stores : manifest'.entries = cache[s].entries
<1>1. CASE UNCHANGED manifest
  BY <1>1
<1>2. ASSUME NEW s \in Stores, OpenManifest(s) \/ FillManifest(s)
      PROVE  manifest'.entries = {} \/ manifest'.entries = cache[s].entries
  BY <1>2 DEF OpenManifest, FillManifest
<1> QED
  BY <1>1, <1>2 DEF vars, disk, Next, Call, Advance, Open, SetManifestFlushMode, PutBytes, Begins,
     FlushManifest, FlushNothing, Load, Close, OpenBlob, FillBlob, WriteMeta, ListDeferred, ListNow,
     ListRaises, WriteFails, Crash

\* What an object has in memory after a step is what it had, nothing, what it
\* loads, or what it loads with the entry of its put added.
LEMMA CacheOrigin ==
    ASSUME TypeOK, [Next]_vars, NEW t \in Stores
    PROVE  \/ cache'[t].entries = cache[t].entries
           \/ cache'[t].entries = {}
           \/ cache'[t].entries = LoadManifest(t)
           \/ pc[t] = "list" /\ cache'[t].entries = AddEntry(LoadManifest(t), arg[t])
<1> USE DEF TypeOK
<1>1. CASE UNCHANGED cache
  BY <1>1
<1>2. ASSUME NEW s \in Stores, ListDeferred(s) \/ ListNow(s)
      PROVE  \/ cache'[t].entries = cache[t].entries
             \/ pc[t] = "list" /\ cache'[t].entries = AddEntry(LoadManifest(t), arg[t])
  BY <1>2 DEF ListDeferred, ListNow, Loaded, Transition
<1>3. ASSUME NEW s \in Stores, NEW force \in BOOLEAN,
             FlushManifest(s, force) \/ FlushNothing(s, force) \/ Load(s)
      PROVE  cache'[t].entries = cache[t].entries \/ cache'[t].entries = LoadManifest(t)
  BY <1>3 DEF FlushManifest, FlushNothing, Load, Loaded
<1>4. ASSUME NEW s \in Stores, (\E m \in Modes : Open(s, m)) \/ Close(s) \/ Crash(s)
      PROVE  cache'[t].entries = cache[t].entries \/ cache'[t].entries = {}
  BY <1>4 DEF Open, Close, Crash, Forget, NotLoaded
<1> QED
  BY <1>1, <1>2, <1>3, <1>4 DEF vars, memory, Next, Call, Advance, SetManifestFlushMode, PutBytes,
     Begins, OpenBlob, FillBlob, WriteMeta, ListRaises, OpenManifest, FillManifest, WriteFails

\* A step that makes a put return does so for a put whose files are in place.
LEMMA OwedOrigin ==
    ASSUME TypeOK, PutInProgress, [Next]_vars, NEW h \in owed'
    PROVE  h \in owed \/ (h \in Hashes /\ Stored(h))
<1>1. CASE owed' \subseteq owed
  BY <1>1
<1>2. ASSUME NEW s \in Stores, ListDeferred(s) \/ FillManifest(s)
      PROVE  h \in owed \/ (h \in Hashes /\ Stored(h))
  BY <1>2, NullAssumption DEF TypeOK, PutInProgress, PutOf, ListDeferred, FillManifest, Transition,
     Stored, NoEntry, Entry
<1>3. ASSUME NEW s \in Stores, Close(s) \/ Crash(s) PROVE owed' \subseteq owed
  BY <1>3 DEF Close, Crash, Forget
<1> QED
  BY <1>1, <1>2, <1>3 DEF vars, history, Next, Call, Advance, Open, SetManifestFlushMode, PutBytes,
     Begins, FlushManifest, FlushNothing, Load, OpenBlob, FillBlob, WriteMeta, ListNow, ListRaises,
     OpenManifest, WriteFails

\* What is stored stays stored.
LEMMA StoredStays ==
    ASSUME DiskGrows, NEW h \in Hashes, Stored(h)
    PROVE  Stored(h)'
BY DEF DiskGrows, Stored

\* What an object loads is stored.
LEMMA LoadStored ==
    ASSUME ListedInv, NEW s \in Stores, NEW e \in LoadManifest(s)
    PROVE  Stored(e.hash)
BY DEF ListedInv, FileStored, CachesStored, LoadManifest

\* Every step keeps what is listed, in a file or in memory, stored.
LEMMA ListedStep == ListedInv /\ [Next]_vars => ListedInv'
<1> SUFFICES ASSUME ListedInv, [Next]_vars PROVE ListedInv'
  OBVIOUS
<1> USE DEF ListedInv
<1>1. DiskGrows
  BY StepGrows
<1>2. TypeOK' /\ PutInProgress'
  BY TypeStep, PutStep
<1>3. \A e \in Entry : e.hash \in Hashes
  BY DEF Entry
<1>4. OwedStored'
  BY <1>1, OwedOrigin, StoredStays DEF OwedStored, TypeOK
<1>5. FileStored'
  <2> SUFFICES ASSUME NEW e \in manifest'.entries PROVE Stored(e.hash)'
    BY DEF FileStored
  <2>1. e \in Entry
    BY <1>2 DEF TypeOK
  <2>2. Stored(e.hash)
    BY FileOrigin DEF FileStored, CachesStored
  <2> QED
    BY <1>1, <1>3, <2>1, <2>2, StoredStays
<1>6. CachesStored'
  <2> SUFFICES ASSUME NEW t \in Stores, NEW e \in cache'[t].entries PROVE Stored(e.hash)'
    BY DEF CachesStored
  <2>1. e \in Entry
    BY <1>2 DEF TypeOK
  <2>2. CASE e \in cache[t].entries \/ e \in LoadManifest(t)
    BY <1>1, <1>3, <2>1, <2>2, LoadStored, StoredStays DEF CachesStored
  <2>3. CASE pc[t] = "list" /\ e = arg[t]
    BY <1>1, <1>3, <2>1, <2>3, StoredStays DEF PutInProgress, PutOf, Stored
  <2> QED
    BY <2>2, <2>3, CacheOrigin DEF AddEntry
<1> QED
  BY <1>2, <1>4, <1>5, <1>6

\* The variables always have their types, and everything a manifest lists is
\* stored: the inductive invariant.
THEOREM Inductive == Spec => []ListedInv
BY InitListed, ListedStep, PTL DEF Spec

\* The variables always have their types.
THEOREM TypeCorrect == Spec => []TypeOK
<1>1. ListedInv => TypeOK
  BY DEF ListedInv
<1> QED
  BY <1>1, Inductive, PTL

\* Everything that manifest.json or the memory of a store object lists, and
\* everything a put returned for, has its blob and metadata on disk, whatever
\* objects and processes do at once and wherever they crash.
THEOREM ListingsHaveArtifacts == Spec => []ListedHasArtifact
<1>1. ListedInv => ListedHasArtifact
  <2> SUFFICES ASSUME ListedInv,
                      NEW h \in owed \cup HashesOf(manifest.entries)
                                     \cup UNION {HashesOf(cache[s].entries) : s \in Stores}
               PROVE  Stored(h)
    BY DEF ListedHasArtifact, Stored
  <2> QED
    BY DEF ListedInv, OwedStored, FileStored, CachesStored, HashesOf
<1> QED
  BY <1>1, Inductive, PTL

-----------------------------------------------------------------------------
\* No two entries of one hash.
Single(entries) == \A e, f \in entries : e.hash = f.hash => e = f

SingleInv == Single(manifest.entries) /\ \A s \in Stores : Single(cache[s].entries)

\* add_entry keeps one entry to a hash.
LEMMA AddEntrySingle ==
    ASSUME NEW entries, Single(entries), NEW e
    PROVE  Single(AddEntry(entries, e))
BY DEF Single, AddEntry, HashesOf

\* Every step keeps one entry to a hash.
LEMMA SingleStep == TypeOK /\ SingleInv /\ [Next]_vars => SingleInv'
<1> SUFFICES ASSUME TypeOK, SingleInv, [Next]_vars PROVE SingleInv'
  OBVIOUS
<1>1. Single({})
  BY DEF Single
<1>2. \A s \in Stores : Single(LoadManifest(s))
  BY DEF SingleInv, LoadManifest
<1>3. Single(manifest'.entries)
  BY <1>1, FileOrigin DEF SingleInv
<1>4. ASSUME NEW t \in Stores PROVE Single(cache'[t].entries)
  BY <1>1, <1>2, CacheOrigin, AddEntrySingle DEF SingleInv
<1> QED
  BY <1>3, <1>4 DEF SingleInv, Single

\* No manifest, in a file or in memory, ever has two entries of one hash.
THEOREM OneEntry == Spec => []OneEntryPerHash
<1>1. Init => SingleInv
  BY DEF Init, SingleInv, Single, NotLoaded
<1>2. SingleInv => OneEntryPerHash
  BY DEF SingleInv, Single, OneEntryPerHash
<1> QED
  BY <1>1, <1>2, SingleStep, TypeCorrect, PTL DEF Spec

-----------------------------------------------------------------------------
\* h is being written.
InFlight(h) == \E s \in Stores : pc[s] = "fillblob" /\ arg[s].hash = h

\* A step that leaves the blobs alone ends no write without recording damage.
LEMMA FlightEnds ==
    ASSUME TypeOK, [Next]_vars, NEW h \in Hashes, InFlight(h), UNCHANGED blob
    PROVE  h \in damaged' \/ InFlight(h)' \/ blob[h] # "torn"
<1> PICK t \in Stores : pc[t] = "fillblob" /\ arg[t].hash = h
  BY DEF InFlight
<1>1. CASE pc'[t] = pc[t] /\ arg'[t] = arg[t]
  BY <1>1 DEF InFlight
<1>2. CASE UNCHANGED vars
  BY <1>1, <1>2 DEF vars
<1>3. ASSUME NEW s \in Stores \ {t},
             Call(s) \/ Advance(s) \/ ListRaises(s) \/ WriteFails(s) \/ Crash(s)
      PROVE  pc'[t] = pc[t] /\ arg'[t] = arg[t]
  BY <1>3, OneMoves DEF Call
<1>4. CASE FillBlob(t)
  BY <1>4 DEF FillBlob, TypeOK
<1>5. CASE WriteFails(t) \/ Crash(t)
  BY <1>5 DEF WriteFails, Crash, HalfWritten
<1>6. CASE Call(t) \/ Advance(t) \/ ListRaises(t)
  BY <1>4, <1>6 DEF Call, Advance, Transition, Open, SetManifestFlushMode, PutBytes, Begins, FlushManifest,
     FlushNothing, Load, Close, OpenBlob, WriteMeta, ListDeferred, ListNow, OpenManifest, FillManifest,
     ListRaises
<1> QED
  BY <1>1, <1>2, <1>3, <1>5, <1>6 DEF Next

\* The blob that a step empties is being written; one that it fills is whole.
LEMMA BlobStep ==
    ASSUME TypeOK, PutInProgress, [Next]_vars, NEW h \in Hashes, blob'[h] = "torn",
           ~ UNCHANGED blob
    PROVE  InFlight(h)' \/ (blob[h] = "torn" /\ UNCHANGED damaged
                            /\ \A t \in Stores : pc[t] = "fillblob" /\ arg[t].hash = h =>
                                  pc'[t] = pc[t] /\ arg'[t] = arg[t])
<1> USE DEF TypeOK, Transition
<1>1. ASSUME NEW s \in Stores, OpenBlob(s) PROVE InFlight(h)' \/ blob[h] = "torn"
  BY <1>1 DEF OpenBlob, InFlight, Filling, memory, history
<1>2. ASSUME NEW s \in Stores, OpenBlob(s) \/ FillBlob(s)
      PROVE  /\ UNCHANGED damaged
             /\ \A t \in Stores : t # s => pc'[t] = pc[t] /\ arg'[t] = arg[t]
  BY <1>2 DEF OpenBlob, FillBlob, memory, history
<1>3. ASSUME NEW s \in Stores, FillBlob(s) PROVE blob[h] = "torn" /\ arg[s].hash # h
  BY <1>3 DEF FillBlob, PutInProgress, PutOf, Entry
<1>4. ASSUME NEW s \in Stores, OpenBlob(s) PROVE pc[s] # "fillblob"
  BY <1>4 DEF OpenBlob
<1>5. \E s \in Stores : OpenBlob(s) \/ FillBlob(s)
  BY DEF vars, disk, Next, Call, Advance, Open, SetManifestFlushMode, PutBytes, Begins, FlushManifest,
     FlushNothing, Load, Close, WriteMeta, ListDeferred, ListNow, OpenManifest, FillManifest, ListRaises,
     WriteFails, Crash
<1> QED
  BY <1>1, <1>2, <1>3, <1>4, <1>5

\* Damage that a fault has caused is remembered.
LEMMA DamageStays == ASSUME [Next]_vars PROVE damaged \subseteq damaged'
BY DEF vars, history, Next, Call, Advance, Open, SetManifestFlushMode, PutBytes, Begins, FlushManifest,
   FlushNothing, Load, Close, OpenBlob, FillBlob, WriteMeta, ListDeferred, ListNow, OpenManifest,
   FillManifest, ListRaises, WriteFails, Crash, HalfWritten

\* Every step keeps a short blob explained.
LEMMA TornStep == ListedInv /\ TornIsExplained /\ [Next]_vars => TornIsExplained'
<1> SUFFICES ASSUME ListedInv, TornIsExplained, [Next]_vars,
                    NEW h \in Hashes, blob'[h] = "torn"
             PROVE  h \in damaged' \/ InFlight(h)'
  BY DEF TornIsExplained, InFlight
<1> USE DEF ListedInv
<1>1. blob[h] = "torn" => h \in damaged \/ InFlight(h)
  BY DEF TornIsExplained, InFlight
<1>2. CASE UNCHANGED blob
  BY <1>1, <1>2, FlightEnds, DamageStays
<1>3. CASE ~ UNCHANGED blob
  BY <1>1, <1>3, BlobStep, DamageStays DEF InFlight
<1> QED
  BY <1>2, <1>3

\* A blob is short only while a put fills it or after a fault.
THEOREM TornExplained == Spec => []TornIsExplained
<1>1. Init => TornIsExplained
  BY DEF Init, TornIsExplained
<1> QED
  BY <1>1, TornStep, Inductive, PTL DEF Spec

-----------------------------------------------------------------------------
\* Before the first fault no write has been cut off: only an object that is
\* about to fill it keeps manifest.json empty.
Unharmed ==
    faults = 0 =>
        /\ damaged = {}
        /\ manifest.state = "torn" => \E s \in Stores : pc[s] = "fillmanifest"

\* An object that begins no manifest, and ends none that it has opened, keeps
\* it so.
LEMMA UnharmedStays ==
    ASSUME TypeOK, Unharmed, NEW s \in Stores, NEW to, pc[s] # "fillmanifest",
           pc' = [pc EXCEPT ![s] = to], manifest' = manifest, faults' = faults, damaged' = damaged
    PROVE  Unharmed'
<1> SUFFICES ASSUME faults = 0, manifest.state = "torn" PROVE \E t \in Stores : pc'[t] = "fillmanifest"
  BY DEF Unharmed
<1>1. PICK t \in Stores : pc[t] = "fillmanifest"
  BY DEF Unharmed
<1> QED
  BY <1>1 DEF TypeOK

\* Every step keeps it so.
LEMMA UnharmedStep == TypeOK /\ Unharmed /\ [Next]_vars => Unharmed'
<1> SUFFICES ASSUME TypeOK, Unharmed, [Next]_vars PROVE Unharmed'
  OBVIOUS
<1> USE DEF Transition, disk, memory, history
<1>1. CASE UNCHANGED vars
  BY <1>1 DEF Unharmed, vars
<1>2. ASSUME NEW s \in Stores, Call(s) \/ Advance(s) \/ ListRaises(s) PROVE Unharmed'
  <2>1. CASE pc' = pc
    <3>1. UNCHANGED <<manifest, faults, damaged>>
      BY <1>2, <2>1 DEF TypeOK, Call, Open, SetManifestFlushMode, PutBytes, Begins, FlushManifest,
         FlushNothing, Load, Close, Advance, OpenBlob, FillBlob, WriteMeta, ListDeferred, ListNow,
         OpenManifest, FillManifest, ListRaises
    <3> QED
      BY <2>1, <3>1 DEF Unharmed
  <2>2. CASE OpenManifest(s)
    <3>1. pc'[s] = "fillmanifest" /\ UNCHANGED <<faults, damaged>>
      BY <2>2 DEF TypeOK, OpenManifest
    <3> QED
      BY <3>1 DEF Unharmed
  <2>3. CASE FillManifest(s)
    <3>1. manifest'.state = "whole" /\ UNCHANGED <<faults, damaged>>
      BY <2>3 DEF FillManifest
    <3> QED
      BY <3>1 DEF Unharmed
  <2>4. CASE pc' # pc /\ ~OpenManifest(s) /\ ~FillManifest(s)
    <3>1. /\ pc[s] # "fillmanifest" /\ UNCHANGED <<manifest, faults, damaged>>
          /\ \E to \in Steps : pc' = [pc EXCEPT ![s] = to]
      BY <1>2, <2>4 DEF Steps, Opening, Filling, Call, Open, SetManifestFlushMode, PutBytes, Begins, FlushManifest,
         FlushNothing, Load, Close, Advance, OpenBlob, FillBlob, WriteMeta, ListDeferred, ListNow,
         ListRaises
    <3> QED
      BY <3>1, UnharmedStays
  <2> QED
    BY <2>1, <2>2, <2>3, <2>4
<1>3. ASSUME NEW s \in Stores, WriteFails(s) \/ Crash(s) PROVE Unharmed'
  BY <1>3 DEF Unharmed, TypeOK, WriteFails, Crash, HalfWritten
<1> QED
  BY <1>1, <1>2, <1>3 DEF Next

\* Without a fault no blob and no manifest stays short (put_bytes,
\* write_manifest).
THEOREM WithoutFaults == Spec => []Unharmed
<1>1. Init => Unharmed
  BY DEF Init, Unharmed
<1> QED
  BY <1>1, UnharmedStep, TypeCorrect, PTL DEF Spec

-----------------------------------------------------------------------------
(***************************************************************************)
(* Objects used one after the other.  The open object, once it has loaded  *)
(* the manifest, lists in memory whatever a put returned for; until it is  *)
(* dirty, so does the file, and before the first fault the two are equal.  *)
(***************************************************************************)
Knows(s) ==
    /\ pc[s] = "closed" => ~cache[s].loaded
    /\ ~cache[s].loaded => ~dirty[s] /\ cache[s].entries = {}
    /\ cache[s].loaded => owed \subseteq HashesOf(cache[s].entries)
    /\ pc[s] \in {"openmanifest", "fillmanifest"} =>
          cache[s].loaded /\ {arg[s].hash} \cap Hashes \subseteq HashesOf(cache[s].entries)
    /\ pc[s] = "fillmanifest" => manifest.state = "torn"
    /\ cache[s].loaded /\ ~dirty[s] /\ manifest.state # "torn" =>
          /\ manifest.entries \subseteq cache[s].entries
          /\ faults = 0 /\ pc[s] # "openmanifest" => cache[s].entries = manifest.entries

\* What the file lists while s has nothing to add.
FileKnows(s) == ~dirty[s] /\ manifest.state # "torn" => owed \subseteq HashesOf(manifest.entries)

OneOpen == \A s, t \in Stores : pc[s] # "closed" /\ pc[t] # "closed" => s = t

InTurn == ~overlap =>
    /\ OneOpen
    /\ \A s \in Stores : Knows(s)
    /\ (\A s \in Stores : ~dirty[s]) /\ manifest.state # "torn" =>
          owed \subseteq HashesOf(manifest.entries)

AllClosed(s) == \A t \in Stores \ {s} : pc[t] = "closed"

\* Nobody else changes the memory of an object.
Untouched(s) ==
    \A t \in Stores \ {s} :
        pc'[t] = pc[t] /\ arg'[t] = arg[t] /\ cache'[t] = cache[t] /\ dirty'[t] = dirty[t]

\* It takes a step of the open object to keep the objects in turn.
LEMMA InTurnStep ==
    ASSUME InTurn, NEW s \in Stores, Untouched(s), overlap => overlap',
           ~overlap' /\ ~overlap /\ AllClosed(s) /\ Knows(s) /\ FileKnows(s) =>
               Knows(s)' /\ FileKnows(s)',
           ~overlap' /\ ~overlap => AllClosed(s)
    PROVE  InTurn'
<1> SUFFICES ASSUME ~overlap' PROVE /\ OneOpen' /\ \A t \in Stores : Knows(t)'
                                    /\ (\A t \in Stores : ~dirty'[t]) /\ manifest'.state # "torn" =>
                                          owed' \subseteq HashesOf(manifest'.entries)
  BY DEF InTurn, HashesOf
<1>1. ~overlap /\ AllClosed(s)
  OBVIOUS
<1>2. Knows(s)
  BY <1>1 DEF InTurn
<1>3. ASSUME NEW t \in Stores \ {s} PROVE pc'[t] = "closed" /\ ~dirty[t] /\ Knows(t)'
  <2>1. Knows(t) /\ pc[t] = "closed" /\ pc'[t] = "closed"
    BY <1>1, <1>3 DEF InTurn, AllClosed, Untouched
  <2>2. ~cache'[t].loaded /\ ~dirty'[t] /\ ~dirty[t] /\ cache'[t].entries = {}
    BY <1>3, <2>1 DEF Knows, Untouched
  <2> QED
    BY <2>1, <2>2 DEF Knows
<1>4. FileKnows(s)
  BY <1>1, <1>3 DEF InTurn, FileKnows
<1>5. Knows(s)' /\ FileKnows(s)'
  BY <1>1, <1>2, <1>4
<1> QED
  BY <1>3, <1>5 DEF OneOpen, FileKnows

\* A step leaves the memory of other objects alone.
LEMMA StepUntouched ==
    ASSUME TypeOK, NEW s \in Stores,
           Call(s) \/ Advance(s) \/ ListRaises(s) \/ WriteFails(s) \/ Crash(s)
    PROVE  Untouched(s) /\ (overlap => overlap')
<1>1. ASSUME NEW t \in Stores \ {s} PROVE cache'[t] = cache[t] /\ dirty'[t] = dirty[t]
  BY DEF TypeOK, memory, Call, Open, SetManifestFlushMode, PutBytes, Begins, FlushManifest,
     FlushNothing, Load, Close, Advance, OpenBlob, FillBlob, WriteMeta, ListDeferred, ListNow,
     OpenManifest, FillManifest, ListRaises, WriteFails, Crash, Forget
<1>2. overlap => overlap'
  BY DEF history, Call, Open, SetManifestFlushMode, PutBytes, Begins, FlushManifest, FlushNothing,
     Load, Close, Advance, OpenBlob, FillBlob, WriteMeta, ListDeferred, ListNow, OpenManifest,
     FillManifest, ListRaises, WriteFails, Crash
<1> QED
  BY <1>1, <1>2, OneMoves DEF Untouched, Call

\* The open object is the only one.
LEMMA StepAlone ==
    ASSUME InTurn, NEW s \in Stores, ~overlap, ~overlap',
           Call(s) \/ Advance(s) \/ ListRaises(s) \/ WriteFails(s) \/ Crash(s)
    PROVE  AllClosed(s)
<1>1. ASSUME NEW m \in Modes, Open(s, m) PROVE AllClosed(s)
  BY <1>1 DEF Open, AllClosed
<1>2. CASE pc[s] # "closed"
  BY <1>2 DEF InTurn, OneOpen, AllClosed
<1>3. CASE pc[s] = "closed"
  BY <1>1, <1>3 DEF Transition, Call, SetManifestFlushMode, PutBytes, Begins, FlushManifest,
     FlushNothing, Load, Close, Advance, OpenBlob, FillBlob, WriteMeta, ListDeferred, ListNow,
     OpenManifest, FillManifest, ListRaises, WriteFails, Crash, Opening, Filling
<1> QED
  BY <1>2, <1>3

\* What a lone object loads lists whatever a put returned for.
LEMMA LoadKnows ==
    ASSUME NEW s \in Stores, Knows(s), FileKnows(s), LoadSucceeds(s)
    PROVE  owed \subseteq HashesOf(LoadManifest(s))
BY DEF Knows, FileKnows, LoadSucceeds, LoadManifest

\* An entry that is added is listed, and so is what was.
LEMMA AddEntryLists ==
    ASSUME NEW entries, NEW e
    PROVE  /\ HashesOf(AddEntry(entries, e)) = HashesOf(entries) \cup {e.hash}
           /\ entries \subseteq AddEntry(entries, e)
<1>1. CASE e.hash \in HashesOf(entries)
  BY <1>1 DEF AddEntry
<1>2. CASE e.hash \notin HashesOf(entries)
  BY <1>2 DEF AddEntry, HashesOf
<1> QED
  BY <1>1, <1>2

\* A lone object's calls, and those that touch neither manifest nor memory.
LEMMA CallKnows ==
    ASSUME TypeOK, PutInProgress, NEW s \in Stores, Knows(s), FileKnows(s),
           \/ Call(s) \/ OpenBlob(s) \/ FillBlob(s) \/ WriteMeta(s) \/ ListRaises(s)
    PROVE  Knows(s)' /\ FileKnows(s)'
<1> USE DEF Transition, disk, memory, history
<1>1. ASSUME NEW m \in Modes, Open(s, m) PROVE Knows(s)' /\ FileKnows(s)'
  <2>1. /\ pc'[s] = "idle" /\ cache'[s] = NotLoaded /\ ~dirty'[s] /\ ~dirty[s]
        /\ manifest' = manifest /\ owed' = owed
    BY <1>1 DEF TypeOK, Open, Knows
  <2> QED
    BY <2>1 DEF Knows, FileKnows, NotLoaded
<1>2. CASE \/ \E m \in Modes : SetManifestFlushMode(s, m)
           \/ \E h \in Hashes, t \in Types : PutBytes(s, h, t)
           \/ OpenBlob(s) \/ FillBlob(s) \/ WriteMeta(s) \/ ListRaises(s)
  <2>1. /\ cache' = cache /\ dirty' = dirty /\ manifest' = manifest /\ owed' = owed /\ faults' = faults
        /\ pc[s] \in {"idle", "openblob", "fillblob", "writemeta", "list"}
        /\ pc'[s] \in {"idle", "openblob", "fillblob", "writemeta", "list"}
    BY <1>2 DEF TypeOK, SetManifestFlushMode, PutBytes, Begins, OpenBlob, FillBlob, WriteMeta, ListRaises
  <2> QED
    BY <2>1 DEF Knows, FileKnows
<1>3. CASE Close(s)
  <2>1. /\ pc'[s] = "closed" /\ cache'[s] = NotLoaded /\ ~dirty'[s]
        /\ manifest' = manifest /\ owed' = owed \ Unwritten(s) /\ pc[s] = "idle"
    BY <1>3 DEF TypeOK, Close, Forget
  <2>2. manifest.state # "torn" => owed' \subseteq HashesOf(manifest.entries)
    BY <2>1 DEF Unwritten, Knows, FileKnows, HashesOf
  <2> QED
    BY <2>1, <2>2 DEF Knows, FileKnows, NotLoaded
<1>4. ASSUME NEW force \in BOOLEAN, FlushManifest(s, force) \/ FlushNothing(s, force) \/ Load(s)
      PROVE  Knows(s)' /\ FileKnows(s)'
  <2>1. /\ cache'[s].loaded /\ cache'[s].entries = LoadManifest(s) /\ LoadSucceeds(s)
        /\ dirty' = dirty /\ manifest' = manifest /\ owed' = owed /\ arg' = arg /\ faults' = faults
        /\ pc[s] = "idle" /\ pc'[s] \in {"idle", "openmanifest"}
    BY <1>4 DEF TypeOK, FlushManifest, FlushNothing, Load, Loaded
  <2>2. arg[s] = NoEntry
    BY <2>1 DEF PutInProgress, PutOf
  <2>3. {arg[s].hash} \cap Hashes = {}
    BY <2>2, NullAssumption DEF NoEntry
  <2>4. owed \subseteq HashesOf(LoadManifest(s))
    BY <2>1, LoadKnows
  <2>5. ~dirty[s] /\ manifest.state # "torn" =>
              /\ manifest.entries \subseteq LoadManifest(s)
              /\ faults = 0 => LoadManifest(s) = manifest.entries
    BY <2>1 DEF Knows, LoadManifest
  <2>6. Knows(s)'
    BY <2>1, <2>3, <2>4, <2>5 DEF Knows
  <2>7. FileKnows(s)'
    BY <2>1 DEF FileKnows
  <2> QED
    BY <2>6, <2>7
<1> QED
  BY <1>1, <1>2, <1>3, <1>4 DEF Call

\* A lone object's listings, writes of the manifest, and faults.
LEMMA WriteKnows ==
    ASSUME TypeOK, PutInProgress, NEW s \in Stores, Knows(s), FileKnows(s),
           \/ ListDeferred(s) \/ ListNow(s) \/ OpenManifest(s) \/ FillManifest(s)
           \/ WriteFails(s) \/ Crash(s)
    PROVE  Knows(s)' /\ FileKnows(s)'
<1> USE DEF Transition, disk, memory, history
<1>1. CASE ListDeferred(s) \/ ListNow(s)
  <2>1. /\ cache'[s].loaded /\ cache'[s].entries = AddEntry(LoadManifest(s), arg[s]) /\ LoadSucceeds(s)
        /\ manifest' = manifest
    BY <1>1 DEF TypeOK, ListDeferred, ListNow, Loaded
  <2>2. HashesOf(cache'[s].entries) = HashesOf(LoadManifest(s)) \cup {arg[s].hash}
    BY <2>1, AddEntryLists
  <2>6. ~dirty[s] /\ manifest.state # "torn" => manifest.entries \subseteq cache'[s].entries
    <3>1. LoadManifest(s) \subseteq cache'[s].entries
      BY <2>1, AddEntryLists
    <3>2. ~dirty[s] /\ manifest.state # "torn" => manifest.entries \subseteq LoadManifest(s)
      BY DEF Knows, LoadManifest
    <3> QED
      BY <3>1, <3>2
  <2>3. owed \subseteq HashesOf(LoadManifest(s))
    BY <2>1, LoadKnows
  <2>4. CASE ListDeferred(s)
    <3>1. pc'[s] = "idle" /\ dirty'[s] /\ owed' = owed \cup {arg[s].hash}
      BY <2>4 DEF TypeOK, ListDeferred
    <3> QED
      BY <2>1, <2>2, <2>3, <3>1 DEF Knows, FileKnows
  <2>5. CASE ListNow(s)
    <3>1. pc'[s] = "openmanifest" /\ dirty' = dirty /\ owed' = owed /\ arg' = arg
      BY <2>5 DEF TypeOK, ListNow
    <3>2. Knows(s)'
      BY <2>1, <2>2, <2>3, <2>6, <3>1 DEF Knows
    <3> QED
      BY <2>1, <3>1, <3>2 DEF FileKnows
  <2> QED
    BY <1>1, <2>4, <2>5
<1>2. CASE OpenManifest(s)
  <2>1. /\ pc[s] = "openmanifest" /\ pc'[s] = "fillmanifest" /\ manifest'.state = "torn"
        /\ UNCHANGED <<cache, dirty, owed, arg>>
    BY <1>2 DEF TypeOK, OpenManifest
  <2> QED
    BY <2>1 DEF Knows, FileKnows
<1>3. CASE FillManifest(s)
  <2>1. /\ pc[s] = "fillmanifest" /\ pc'[s] = "idle" /\ manifest'.entries = cache[s].entries
        /\ cache' = cache /\ ~dirty'[s] /\ owed' = owed \cup ({arg[s].hash} \cap Hashes)
    BY <1>3 DEF TypeOK, FillManifest
  <2>2. cache[s].loaded /\ owed' \subseteq HashesOf(cache[s].entries)
    BY <2>1 DEF Knows
  <2> QED
    BY <2>1, <2>2 DEF Knows, FileKnows
<1>4. CASE WriteFails(s)
  <2>1. /\ pc[s] \in Opening \cup Filling \cup {"writemeta"} /\ pc'[s] = "idle"
        /\ UNCHANGED <<manifest, cache, dirty, owed>> /\ faults' # 0
    BY <1>4 DEF TypeOK, WriteFails, HalfWritten
  <2> QED
    BY <2>1 DEF Knows, FileKnows, Opening, Filling
<1>5. CASE Crash(s)
  <2>1. /\ pc'[s] = "closed" /\ cache'[s] = NotLoaded /\ ~dirty'[s]
        /\ manifest' = manifest /\ owed' = owed \ Unwritten(s)
    BY <1>5 DEF TypeOK, Crash, Forget
  <2>2. manifest.state # "torn" => owed' \subseteq HashesOf(manifest.entries)
    BY <2>1 DEF Unwritten, Knows, FileKnows, HashesOf
  <2> QED
    BY <2>1, <2>2 DEF Knows, FileKnows, NotLoaded
<1> QED
  BY <1>1, <1>2, <1>3, <1>4, <1>5

\* Objects used one after the other stay so until two are open at once.
THEOREM TurnByTurn == Spec => []InTurn
<1>1. Init => InTurn
  BY DEF Init, InTurn, OneOpen, Knows, NotLoaded
<1>2. ListedInv /\ InTurn /\ [Next]_vars => InTurn'
  <2> SUFFICES ASSUME ListedInv, InTurn, [Next]_vars PROVE InTurn'
    OBVIOUS
  <2>1. CASE UNCHANGED vars
    BY <2>1 DEF vars, disk, memory, history, InTurn, OneOpen, Knows
  <2>2. ASSUME NEW s \in Stores,
               Call(s) \/ Advance(s) \/ ListRaises(s) \/ WriteFails(s) \/ Crash(s)
        PROVE  InTurn'
    <3>1. Knows(s) /\ FileKnows(s) => Knows(s)' /\ FileKnows(s)'
      BY <2>2, CallKnows, WriteKnows DEF ListedInv, Advance
    <3> QED
      BY <2>2, <3>1, StepUntouched, StepAlone, InTurnStep DEF ListedInv
  <2> QED
    BY <2>1, <2>2 DEF Next
<1> QED
  BY <1>1, <1>2, Inductive, PTL DEF Spec

\* What a put of an object used in turn returned for is listed (put_bytes,
\* flush_manifest).
THEOREM PutsAreListed == Spec => []NothingUnlisted
<1>1. InTurn => NothingUnlisted
  BY DEF InTurn, Knows, NothingUnlisted
<1> QED
  BY <1>1, TurnByTurn, PTL

\* An object used in turn knows all that the file lists while it is idle and
\* clean, and keeps no put that returned from it: whatever such a put stored is
\* in the file, and the file has one entry to a hash.
THEOREM CacheAgrees == Spec => []CacheIsFile
<1>1. InTurn /\ OneEntryPerHash => CacheIsFile
  <2> SUFFICES ASSUME InTurn, OneEntryPerHash, ~overlap, NEW s \in Stores, pc[s] = "idle",
                      cache[s].loaded, ~dirty[s], manifest.state # "torn"
               PROVE  /\ manifest.entries \subseteq cache[s].entries
                      /\ HashesOf(cache[s].entries \ manifest.entries) \cap owed = {}
    BY DEF CacheIsFile
  <2>1. manifest.entries \subseteq cache[s].entries
    BY DEF InTurn, Knows
  <2>2. \A t \in Stores : ~dirty[t]
    BY DEF InTurn, OneOpen, Knows
  <2>3. owed \subseteq HashesOf(manifest.entries)
    BY <2>2 DEF InTurn
  <2>4. ASSUME NEW e \in cache[s].entries \ manifest.entries PROVE e.hash \notin owed
    <3> SUFFICES ASSUME e.hash \in owed PROVE FALSE
      OBVIOUS
    <3>1. PICK f \in manifest.entries : f.hash = e.hash
      BY <2>3 DEF HashesOf
    <3> QED
      BY <2>1, <2>4, <3>1 DEF OneEntryPerHash
  <2> QED
    BY <2>1, <2>4 DEF HashesOf
<1> QED
  BY <1>1, TurnByTurn, OneEntry, PTL

\* A damaged manifest that nobody remembers is never written again
\* (load_manifest raises first).
THEOREM TornStops == Spec => TornManifestStops
<1> DEFINE Forgotten == ~overlap /\ manifest.state = "torn" /\ \A s \in Stores : ~cache[s].loaded
<1>1. ListedInv /\ InTurn /\ [Next]_vars => [Forgotten => UNCHANGED <<manifest, owed>>]_vars
  <2> SUFFICES ASSUME ListedInv, InTurn, Next, Forgotten PROVE UNCHANGED <<manifest, owed>>
    OBVIOUS
  <2> USE DEF disk, history
  <2>1. PICK s \in Stores : Call(s) \/ Advance(s) \/ ListRaises(s) \/ WriteFails(s) \/ Crash(s)
    BY DEF Next
  <2>2. ~dirty[s] /\ pc[s] \notin {"openmanifest", "fillmanifest"} /\ ~LoadSucceeds(s)
    BY DEF InTurn, Knows, LoadSucceeds
  <2>3. Unwritten(s) = {}
    BY <2>2 DEF Unwritten
  <2>4. CASE Close(s) \/ Crash(s)
    BY <2>3, <2>4 DEF Close, Crash, Forget
  <2>5. CASE ~(Close(s) \/ Crash(s))
    BY <2>1, <2>2, <2>5 DEF Transition, Call, Open, SetManifestFlushMode, PutBytes, Begins, FlushManifest,
       FlushNothing, Load, Advance, OpenBlob, FillBlob, WriteMeta, ListDeferred, ListNow,
       OpenManifest, FillManifest, ListRaises, WriteFails
  <2> QED
    BY <2>4, <2>5
<1> QED
  BY <1>1, Inductive, TurnByTurn, PTL DEF Spec, TornManifestStops
=============================================================================
