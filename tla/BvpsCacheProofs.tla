-------------------------- MODULE BvpsCacheProofs --------------------------
(***************************************************************************)
(* Theorems of BvpsCache for any number of processes, workspaces, macros   *)
(* and specifications: each process uses its store as ArtifactStore says,  *)
(* the variables keep their types, and the caches are transparent.  While  *)
(* no processes share the store and nothing fails, they harm no episode,   *)
(* and keep what it found.                                                 *)
(***************************************************************************)
EXTENDS BvpsCache, SequenceTheorems, TLAPS

\* Steps of a put before it lists its content.
Busy == {"openblob", "fillblob", "writemeta", "list"}

\* Only contents that belong to a key are ever listed or put.
StoreKnows ==
    /\ manifest \in [state : Store!FileState, entries : SUBSET Store!Entry]
    /\ cache \in [Procs -> [loaded : BOOLEAN, entries : SUBSET Store!Entry]]
    /\ arg \in [Procs -> Store!Entry \cup {Store!NoEntry}]
    /\ pc \in [Procs -> Busy \cup {"closed", "idle", "openmanifest", "fillmanifest"}]
    /\ \A p \in Procs : pc[p] \in Busy => arg[p] \in Store!Entry

\* The step of a process's store.
StoreStep(p) ==
    \/ \E m \in Store!Modes : Store!Open(p, m)
    \/ \E e \in Entries : Store!PutBytes(p, e, CacheType)
    \/ Store!Load(p) \/ Store!Close(p) \/ Store!Crash(p)
    \/ Store!Advance(p) \/ Store!ListRaises(p) \/ Store!WriteFails(p)

\* The answer of an episode belongs to its key.
AnswerKnown ==
    \A p \in Procs : at[p] \in {"put", "answered"} =>
        \E e \in Entries : e.key = KeyOf(p) /\ answer[p] = e.program

\* The inductive invariant.
Inv == TypeOK /\ StoreKnows /\ DOMAIN answer = Procs /\ AnswerKnown

-----------------------------------------------------------------------------
\* What synthesis finds for loaded macros is an entry.
LEMMA FoundIn ==
    ASSUME TypeOK, NEW p \in Procs, Found(p).program # NoProgram
    PROVE  Found(p) \in Entries /\ Found(p).key = KeyOf(p)
BY DEF TypeOK, Found, Entries, Entry, KeyOf

\* What a process's manifest lists are entries.
LEMMA ListedIn ==
    ASSUME StoreKnows, NEW p \in Procs
    PROVE  Store!HashesOf(Store!LoadManifest(p)) \subseteq Entries
BY DEF StoreKnows, Store!HashesOf, Store!LoadManifest, Store!Entry

\* An empty registry is within the bound.
LEMMA NothingListed == <<>> \in PatchLists
<1>1. 0 \in 0..MaxPatches
  BY LimitAssumption
<1>2. <<>> \in [1..0 -> Patches]
  OBVIOUS
<1> QED
  BY <1>1, <1>2 DEF PatchLists

\* Registering keeps a registry within its bound.
LEMMA RegisterType ==
    ASSUME NEW patches \in PatchLists, NEW x \in Patches, Len(patches) < MaxPatches
    PROVE  Register(patches, x) \in PatchLists
<1>1. PICK n \in 0..MaxPatches : patches \in [1..n -> Patches]
  BY DEF PatchLists
<1>2. n \in Nat
  BY LimitAssumption
<1>3. patches \in Seq(Patches)
  BY <1>1, <1>2, SeqDef
<1>4. Len(patches) = n
  BY <1>1, <1>2, <1>3, LenProperties
<1>5. Append(patches, x) \in [1..(n + 1) -> Patches]
  <2>1. Append(patches, x) \in Seq(Patches) /\ Len(Append(patches, x)) = n + 1
    BY <1>3, <1>4, AppendProperties
  <2> QED
    BY <2>1, LenProperties
<1>6. n + 1 \in 0..MaxPatches
  BY <1>2, <1>4, LimitAssumption
<1> QED
  BY <1>5, <1>6 DEF Register, PatchLists

-----------------------------------------------------------------------------
\* A step of a process is a step of its store, or none.
LEMMA RunsStore ==
    ASSUME TypeOK, NEW p \in Procs, Runs(p)
    PROVE  StoreStep(p) \/ UNCHANGED store
<1>1. ASSUME NEW m \in FlushModes, Start(p, m) PROVE StoreStep(p)
  BY <1>1, ModesAssumption DEF Start, StoreStep, Store!Modes
<1>2. CASE Solve(p)
  BY <1>2, FoundIn DEF Solve, StoreStep
<1>3. CASE Preload(p) \/ HitPersist(p) \/ Miss(p)
  BY <1>3 DEF StoreStep, Preload, HitPersist, Miss
<1>4. CASE PreloadRaises(p) \/ (\E s \in Specs : Begin(p, s)) \/ LoadMacros(p) \/ LoadMacrosRaises(p)
  BY <1>4 DEF PreloadRaises, Begin, LoadMacros, LoadMacrosRaises
<1>5. CASE HitMem(p) \/ LookupRaises(p) \/ SolveRaises(p) \/ Proceed(p)
  BY <1>5 DEF HitMem, LookupRaises, SolveRaises, Proceed
<1>6. CASE Put(p) \/ PutRaises(p) \/ End(p)
  BY <1>6 DEF StoreStep, Put, PutRaises, End
<1> QED
  BY <1>1, <1>2, <1>3, <1>4, <1>5, <1>6 DEF Runs

\* A value of the right type keeps the type of the memory.
LEMMA CacheSet ==
    ASSUME StoreKnows, NEW p \in Procs, NEW v \in [loaded : BOOLEAN, entries : SUBSET Store!Entry]
    PROVE  [cache EXCEPT ![p] = v] \in [Procs -> [loaded : BOOLEAN, entries : SUBSET Store!Entry]]
BY DEF StoreKnows

\* A step of one store keeps the entries known.
LEMMA KnowsStep ==
    ASSUME StoreKnows, NEW p \in Procs, StoreStep(p)
    PROVE  StoreKnows'
<1> USE DEF StoreKnows, Busy, Store!Transition, Store!disk, Store!memory, Store!history
<1>1. Store!LoadManifest(p) \in SUBSET Store!Entry
  BY DEF Store!LoadManifest
<1>a. Store!Loaded(Store!LoadManifest(p)) \in [loaded : BOOLEAN, entries : SUBSET Store!Entry]
  BY <1>1 DEF Store!Loaded
<1>b. Store!NotLoaded \in [loaded : BOOLEAN, entries : SUBSET Store!Entry]
  BY DEF Store!NotLoaded
<1>2. ASSUME NEW m \in Store!Modes, Store!Open(p, m) PROVE StoreKnows'
  BY <1>2, <1>b, CacheSet DEF Store!Open
<1>3. ASSUME NEW e \in Entries, Store!PutBytes(p, e, CacheType) PROVE StoreKnows'
  <2>1. [hash |-> e, type |-> CacheType] \in Store!Entry
    BY DEF Store!Entry
  <2>2. UNCHANGED <<manifest, cache>>
    BY <1>3 DEF Store!PutBytes, Store!Begins
  <2> QED
    BY <1>3, <2>1, <2>2 DEF Store!PutBytes, Store!Begins
<1>4. CASE Store!Load(p)
  BY <1>4, <1>a, CacheSet DEF Store!Load
<1>5. CASE Store!Close(p)
  BY <1>5, <1>b, CacheSet DEF Store!Close, Store!Forget
<1>6. CASE Store!Crash(p) \/ Store!WriteFails(p)
  <2>1. cache' \in [Procs -> [loaded : BOOLEAN, entries : SUBSET Store!Entry]]
    BY <1>6, <1>b, CacheSet DEF Store!Crash, Store!WriteFails, Store!Forget
  <2>2. /\ arg' = [arg EXCEPT ![p] = Store!NoEntry]
        /\ pc' = [pc EXCEPT ![p] = "idle"] \/ pc' = [pc EXCEPT ![p] = "closed"]
        /\ UNCHANGED manifest
    BY <1>6 DEF Store!Crash, Store!WriteFails, Store!HalfWritten
  <2> QED
    BY <2>1, <2>2
<1>7. CASE Store!ListRaises(p)
  BY <1>7 DEF Store!ListRaises
<1>8. CASE Store!OpenBlob(p) \/ Store!FillBlob(p) \/ Store!WriteMeta(p)
  BY <1>8 DEF Store!OpenBlob, Store!FillBlob, Store!WriteMeta
<1>9. CASE Store!ListDeferred(p) \/ Store!ListNow(p)
  <2>1. arg[p] \in Store!Entry
    BY <1>9 DEF Store!ListDeferred, Store!ListNow
  <2>2. Store!AddEntry(Store!LoadManifest(p), arg[p]) \in SUBSET Store!Entry
    BY <1>1, <2>1 DEF Store!AddEntry
  <2>3. Store!Loaded(Store!AddEntry(Store!LoadManifest(p), arg[p]))
            \in [loaded : BOOLEAN, entries : SUBSET Store!Entry]
    BY <2>2 DEF Store!Loaded
  <2>4. cache' \in [Procs -> [loaded : BOOLEAN, entries : SUBSET Store!Entry]]
    BY <1>9, <2>3, CacheSet DEF Store!ListDeferred, Store!ListNow
  <2> QED
    BY <1>9, <2>4 DEF Store!ListDeferred, Store!ListNow
<1>10. CASE Store!OpenManifest(p) \/ Store!FillManifest(p)
  <2>1. manifest' \in [state : Store!FileState, entries : SUBSET Store!Entry]
    BY <1>10 DEF Store!OpenManifest, Store!FillManifest, Store!FileState
  <2> QED
    BY <1>10, <2>1 DEF Store!OpenManifest, Store!FillManifest
<1> QED
  BY <1>2, <1>3, <1>4, <1>5, <1>6, <1>7, <1>8, <1>9, <1>10 DEF StoreStep, Store!Advance
-----------------------------------------------------------------------------
\* The initial states.
LEMMA InitInv == Init => Inv
<1> SUFFICES ASSUME Init PROVE Inv
  OBVIOUS
<1>1. StoreKnows
  BY DEF Init, StoreKnows, Busy, Store!Init, Store!FileState, Store!NotLoaded
<1>2. /\ language \in [Roots -> [state : {"torn", "whole"}, patches : PatchLists]]
      /\ adding \in [Adders -> {"idle", "open", "fill"}]
  BY RegistriesAssumption DEF Init
<1>3. <<>> \in PatchLists
  BY NothingListed
<1>4. copy \in [Adders -> PatchLists]
  BY <1>3 DEF Init
<1>5. Idle \in Specs
  BY SpecsAssumption DEF Idle
<1>6. NoMacros \in Dicts
  BY <1>3, <1>5 DEF Dicts, NoMacros
<1>7. TypeOK
  BY <1>2, <1>4, <1>5, <1>6, LimitAssumption DEF Init, TypeOK
<1> QED
  BY <1>1, <1>7 DEF Init, Inv, AnswerKnown

\* Commands that add patches keep the registries' types.
LEMMA AddsType ==
    ASSUME TypeOK, NEW a \in Adders, Adds(a)
    PROVE  TypeOK'
<1> USE DEF TypeOK, store, episode
<1>1. ASSUME NEW x \in Patches, AddLoad(a, x) PROVE TypeOK'
  <2>1. language[Home(a)].patches \in PatchLists
    BY HomeAssumption
  <2>2. Register(language[Home(a)].patches, x) \in PatchLists
    BY <1>1, <2>1, RegisterType DEF AddLoad
  <2> QED
    BY <1>1, <2>2 DEF AddLoad
<1>2. CASE AddOpen(a)
  <2>1. [state |-> "torn", patches |-> <<>>] \in [state : {"torn", "whole"}, patches : PatchLists]
    BY NothingListed
  <2> QED
    BY <1>2, <2>1 DEF AddOpen
<1>3. CASE AddFill(a)
  <2>1. [state |-> "whole", patches |-> copy[a]] \in [state : {"torn", "whole"}, patches : PatchLists]
    OBVIOUS
  <2> QED
    BY <1>3, <2>1 DEF AddFill
<1>4. CASE AddDies(a)
  BY <1>4 DEF AddDies
<1> QED
  BY <1>1, <1>2, <1>3, <1>4 DEF Adds
\* Episodes keep the types of their variables.
LEMMA RunsType ==
    ASSUME TypeOK, StoreKnows, NEW p \in Procs, Runs(p)
    PROVE  TypeOK'
<1> USE DEF TypeOK, store, registry, episode, Goes
<1>1. ASSUME NEW m \in FlushModes, Start(p, m) PROVE TypeOK'
  BY <1>1 DEF Start
<1>2. CASE Preload(p)
  <2> DEFINE listed == Store!HashesOf(Store!LoadManifest(p))
             preloaded == {First({f \in listed : f.key = e.key}) : e \in listed}
  <2>1. \A e \in listed : First({f \in listed : f.key = e.key}) \in Entries
    <3> SUFFICES ASSUME NEW e \in listed PROVE First({f \in listed : f.key = e.key}) \in Entries
      OBVIOUS
    <3>1. {f \in listed : f.key = e.key} \in SUBSET Entries
      BY ListedIn
    <3> QED
      BY <3>1, FirstAssumption
  <2>2. preloaded \in SUBSET Entries
    BY <2>1
  <2>3. mem' = [mem EXCEPT ![p] = preloaded]
    BY <1>2 DEF Preload
  <2>4. mem' \in [Procs -> SUBSET Entries]
    <3> HIDE DEF preloaded
    <3> QED
      BY <2>2, <2>3
  <2> QED
    BY <1>2, <2>4 DEF Preload
<1>3. CASE PreloadRaises(p) \/ LoadMacrosRaises(p) \/ HitMem(p)
  BY <1>3 DEF PreloadRaises, LoadMacrosRaises, HitMem, Answers
<1>4. ASSUME NEW s \in Specs, Begin(p, s) PROVE TypeOK'
  BY <1>4, LimitAssumption DEF Begin
<1>5. CASE LoadMacros(p)
  <2>1. MacrosFor(language[Home(p)].patches, task[p]) \in Dicts
    BY HomeAssumption DEF Dicts
  <2> QED
    BY <1>5, <2>1 DEF LoadMacros
<1>6. CASE HitPersist(p)
  <2>1. Deciding(p) \in SUBSET Entries
    BY ListedIn DEF Deciding
  <2>2. First(Deciding(p)) \in Entries
    BY <1>6, <2>1, FirstAssumption DEF HitPersist
  <2>3. mem' \in [Procs -> SUBSET Entries]
    BY <1>6, <2>2 DEF HitPersist
  <2> QED
    BY <1>6, <2>3 DEF HitPersist
<1>7. CASE Miss(p) \/ LookupRaises(p) \/ SolveRaises(p) \/ PutRaises(p) \/ Proceed(p)
  BY <1>7 DEF Miss, LookupRaises, SolveRaises, PutRaises, Proceed
<1>8. CASE Solve(p)
  <2>1. Found(p) \in Entries
    BY <1>8, FoundIn DEF Solve
  <2>2. mem' \in [Procs -> SUBSET Entries]
    BY <1>8, <2>1 DEF Solve
  <2> QED
    BY <1>8, <2>2 DEF Solve
<1>9. CASE Put(p)
  BY <1>9 DEF Put
<1>10. CASE End(p)
  <2>1. mem' \in [Procs -> SUBSET Entries]
    BY <1>10 DEF End
  <2> QED
    BY <1>10, <2>1 DEF End
<1> QED
  BY <1>1, <1>2, <1>3, <1>4, <1>5, <1>6, <1>7, <1>8, <1>9, <1>10 DEF Runs

\* An episode goes on with a program that belongs to its key.
LEMMA AnswerStep ==
    ASSUME Inv, NEW p \in Procs, Runs(p)
    PROVE  AnswerKnown' /\ DOMAIN answer' = Procs
<1> USE DEF Inv, AnswerKnown, KeyOf, Answers, Goes, episode
<1>1. CASE HitMem(p)
  <2>1. PICK e \in Remembered(p) : answer' = [answer EXCEPT ![p] = e.program]
    BY <1>1 DEF HitMem
  <2>2. e \in Entries /\ e.key = Key(task[p], macros[p])
    BY DEF Remembered, TypeOK
  <2> QED
    BY <1>1, <2>1, <2>2 DEF HitMem, TypeOK
<1>2. CASE HitPersist(p)
  <2>1. Deciding(p) \in SUBSET Entries
    BY ListedIn DEF Deciding
  <2>2. First(Deciding(p)) \in Entries /\ First(Deciding(p)) \in Deciding(p)
    BY <1>2, <2>1, FirstAssumption DEF HitPersist
  <2>3. First(Deciding(p)).key = Key(task[p], macros[p])
    BY <1>2, <2>2 DEF HitPersist, Deciding
  <2> QED
    BY <1>2, <2>2, <2>3 DEF HitPersist, TypeOK
<1>3. CASE Solve(p)
  BY <1>3, FoundIn DEF Solve, TypeOK
<1>4. CASE Put(p)
  BY <1>4 DEF Put, TypeOK
<1>5. ASSUME NEW s \in Specs, Begin(p, s) PROVE AnswerKnown' /\ DOMAIN answer' = Procs
  BY <1>5 DEF Begin, TypeOK
<1>6. CASE (\E m \in FlushModes : Start(p, m)) \/ Preload(p) \/ PreloadRaises(p) \/ LoadMacros(p)
  BY <1>6 DEF Start, Preload, PreloadRaises, LoadMacros, TypeOK
<1>7. CASE LoadMacrosRaises(p) \/ Miss(p) \/ LookupRaises(p) \/ SolveRaises(p)
  BY <1>7 DEF LoadMacrosRaises, Miss, LookupRaises, SolveRaises, TypeOK
<1>8. CASE PutRaises(p) \/ Proceed(p) \/ End(p)
  BY <1>8 DEF PutRaises, Proceed, End, TypeOK
<1> QED
  BY <1>1, <1>2, <1>3, <1>4, <1>5, <1>6, <1>7, <1>8 DEF Runs

\* Every step keeps the invariant.
LEMMA StepInv == Inv /\ [Next]_vars => Inv'
<1> SUFFICES ASSUME Inv, [Next]_vars PROVE Inv'
  OBVIOUS
<1>1. ASSUME NEW p \in Procs, Runs(p) PROVE Inv'
  <2>1. StoreKnows'
    <3>1. CASE UNCHANGED store
      BY <3>1 DEF Inv, StoreKnows, store
    <3> QED
      BY <1>1, <3>1, RunsStore, KnowsStep DEF Inv
  <2> QED
    BY <1>1, <2>1, RunsType, AnswerStep DEF Inv
<1>2. ASSUME NEW a \in Adders, Adds(a) PROVE Inv'
  <2>1. UNCHANGED <<store, at, episode>>
    BY <1>2 DEF Adds, AddLoad, AddOpen, AddFill, AddDies
  <2>2. TypeOK'
    BY <1>2, AddsType DEF Inv
  <2> QED
    BY <2>1, <2>2 DEF Inv, StoreKnows, AnswerKnown, KeyOf, store, episode
<1>3. CASE UNCHANGED vars
  BY <1>3 DEF Inv, TypeOK, StoreKnows, AnswerKnown, KeyOf, vars, store, registry, episode
<1> QED
  BY <1>1, <1>2, <1>3 DEF Next

\* What the theorems below are drawn from.
THEOREM Inductive == Spec => []Inv
BY InitInv, StepInv, PTL DEF Spec

\* The types of the variables (TypeOK).
THEOREM TypeCorrect == Spec => []TypeOK
<1>1. Inv => TypeOK
  BY DEF Inv
<1> QED
  BY Inductive, <1>1, PTL

\* An entry with the key of a specification and a dictionary holds a program
\* that synthesis finds for them.
LEMMA KeyDetermines ==
    ASSUME NEW s \in Specs, NEW dict \in Dicts, NEW e \in Entries, e.key = Key(s, dict)
    PROVE  e.program \in Synthesized(s, dict) \ {NoProgram}
<1>1. PICK t \in Specs, d \in Dicts : e = Entry(t, d)
  BY DEF Entries
<1>2. t = s /\ ToSet(d) = ToSet(dict)
  BY <1>1 DEF Entry, Key
<1>3. e.program = Synth(s, d) /\ e.program # NoProgram
  BY <1>1, <1>2 DEF Entry, Entries
<1> QED
  BY <1>2, <1>3 DEF Synthesized

\* Whoever filled the caches, an episode goes on with a program that synthesis
\* finds for its own specification and macros (CacheTransparent).
THEOREM Transparent == Spec => []CacheTransparent
<1>1. Inv => CacheTransparent
  <2> SUFFICES ASSUME Inv, NEW p \in Procs, at[p] \in {"put", "answered"}
               PROVE  answer[p] \in Synthesized(task[p], macros[p]) \ {NoProgram}
    BY DEF CacheTransparent
  <2>1. PICK e \in Entries : e.key = KeyOf(p) /\ answer[p] = e.program
    BY DEF Inv, AnswerKnown
  <2> QED
    BY <2>1, KeyDetermines DEF Inv, TypeOK, KeyOf
<1> QED
  BY Inductive, <1>1, PTL

\* Episodes and the commands use the persistent store only as ArtifactStore
\* says (StoreSpec), so that its theorems hold of it.
THEOREM StoreIsUsedWell == Spec => StoreSpec
<1>1. Init => Store!Init
  BY DEF Init
<1>2. Inv /\ [Next]_vars => [Store!Next]_(Store!vars)
  <2> SUFFICES ASSUME Inv, [Next]_vars PROVE Store!Next \/ UNCHANGED store
    BY DEF store, Store!vars, Store!disk, Store!memory, Store!history
  <2>1. ASSUME NEW p \in Procs, StoreStep(p) PROVE Store!Next
    BY <2>1 DEF StoreStep, Store!Next, Store!Call
  <2> QED
    BY <2>1, RunsStore DEF Inv, Next, Adds, AddLoad, AddOpen, AddFill, AddDies, vars
<1> QED
  BY <1>1, <1>2, Inductive, PTL DEF Spec, StoreSpec, Store!Spec

-----------------------------------------------------------------------------
(***************************************************************************)
(* One process at a time, and no fault.  What ArtifactStoreProofs shows of *)
(* a store holds of the one that the processes use.                        *)
(***************************************************************************)
SP == INSTANCE ArtifactStoreProofs WITH Stores <- Procs, Hashes <- Entries, Types <- {CacheType}

StoreFacts == SP!ListedInv /\ SP!ListedHasArtifact /\ SP!TornIsExplained /\ SP!InTurn /\ SP!Unharmed

\* The proofs are about the store of BvpsCache.
LEMMA SameStore == Store!Spec => SP!Spec
<1>1. Store!Init => SP!Init
  BY DEF Store!Init, SP!Init, Store!NotLoaded, SP!NotLoaded, Store!NoEntry, SP!NoEntry
<1>2. [Store!Next]_(Store!vars) => [SP!Next]_(SP!vars)
  BY DEF Store!vars, SP!vars, Store!disk, SP!disk, Store!memory, SP!memory, Store!history, SP!history,
         Store!Next, SP!Next, Store!Call, SP!Call, Store!Advance, SP!Advance, Store!Open, SP!Open,
         Store!SetManifestFlushMode, SP!SetManifestFlushMode, Store!PutBytes, SP!PutBytes,
         Store!Begins, SP!Begins, Store!FlushManifest, SP!FlushManifest, Store!FlushNothing,
         SP!FlushNothing, Store!FlushWrites, SP!FlushWrites, Store!Load, SP!Load, Store!Close, SP!Close,
         Store!OpenBlob, SP!OpenBlob, Store!FillBlob, SP!FillBlob, Store!WriteMeta, SP!WriteMeta,
         Store!ListDeferred, SP!ListDeferred, Store!ListNow, SP!ListNow, Store!OpenManifest,
         SP!OpenManifest, Store!FillManifest, SP!FillManifest, Store!ListRaises, SP!ListRaises,
         Store!WriteFails, SP!WriteFails, Store!Crash, SP!Crash, Store!HalfWritten, SP!HalfWritten,
         Store!Forget, SP!Forget, Store!Unwritten, SP!Unwritten, Store!HashesOf, SP!HashesOf,
         Store!AddEntry, SP!AddEntry, Store!LoadManifest, SP!LoadManifest, Store!LoadSucceeds,
         SP!LoadSucceeds, Store!Deferred, SP!Deferred, Store!Transition, SP!Transition,
         Store!NotLoaded, SP!NotLoaded, Store!Loaded, SP!Loaded, Store!NoEntry, SP!NoEntry,
         Store!Modes, SP!Modes, Store!Opening, SP!Opening, Store!Filling, SP!Filling
<1> QED
  BY <1>1, <1>2, PTL DEF Store!Spec, SP!Spec

\* What is known of the store.
LEMMA StoreHolds == Spec => []StoreFacts
<1>1. Spec => SP!Spec
  BY StoreIsUsedWell, SameStore, PTL DEF StoreSpec
<1>2. SP!ListedInv /\ SP!ListedHasArtifact /\ SP!TornIsExplained /\ SP!InTurn /\ SP!Unharmed => StoreFacts
  BY DEF StoreFacts
<1>3. SP!Spec => []SP!ListedInv
  BY SP!Inductive, StoreAssumption
<1>4. SP!Spec => []SP!ListedHasArtifact
  BY SP!ListingsHaveArtifacts, StoreAssumption
<1>5. SP!Spec => []SP!TornIsExplained
  BY SP!TornExplained, StoreAssumption
<1>6. SP!Spec => []SP!InTurn
  BY SP!TurnByTurn, StoreAssumption
<1>7. SP!Spec => []SP!Unharmed
  BY SP!WithoutFaults, StoreAssumption
<1> QED
  BY <1>1, <1>2, <1>3, <1>4, <1>5, <1>6, <1>7, PTL

\* Before two processes have been open at once, and before any fault.
Calm == ~overlap /\ faults = 0

\* The step of an episode tells whether its process is in a put.
AtFits ==
    /\ pc \in [Procs -> Busy \cup {"closed", "idle", "openmanifest", "fillmanifest"}]
    /\ dirty \in [Procs -> BOOLEAN] /\ mode \in [Procs -> Store!Modes]
    /\ \A p \in Procs :
          /\ at[p] = "down" <=> pc[p] = "closed"
          /\ at[p] = "put" <=> pc[p] \notin {"closed", "idle"}
          /\ ~Store!Deferred(p) => ~dirty[p]

\* A process remembers its answer, and nothing when it is down.
Remembers ==
    \A p \in Procs :
        /\ at[p] = "down" => mem[p] = {}
        /\ at[p] \in {"put", "answered"} => \E e \in mem[p] : e.key = KeyOf(p)

\* What it remembers is listed in the file, or about to be.
Kept(p) ==
    /\ pc[p] = "idle" => mem[p] \subseteq Store!HashesOf(manifest.entries)
    /\ pc[p] \in Busy => mem[p] \subseteq Store!HashesOf(manifest.entries) \cup {arg[p].hash}
    /\ pc[p] \in {"openmanifest", "fillmanifest"} => mem[p] \subseteq Store!HashesOf(cache[p].entries)

CalmInv == Calm => \A p \in Procs : at[p] # "raised" /\ (~Store!Deferred(p) => Kept(p))

EpisodeInv == AtFits /\ Remembers /\ CalmInv

\* What an open process reads in a calm store is whole, and its memory is the
\* file.
LEMMA CalmReads ==
    ASSUME StoreFacts, Calm, NEW p \in Procs, pc[p] \in {"idle", "list"}
    PROVE  /\ manifest.state # "torn" /\ Store!LoadSucceeds(p)
           /\ \A e \in Store!HashesOf(Store!LoadManifest(p)) : blob[e] = "whole"
           /\ ~dirty[p] => Store!LoadManifest(p) = manifest.entries
           /\ \A q \in Procs \ {p} : pc[q] = "closed"
<1> USE DEF StoreFacts, Calm
<1>1. \A q \in Procs \ {p} : pc[q] = "closed"
  BY DEF SP!InTurn, SP!OneOpen
<1>2. manifest.state # "torn" /\ damaged = {}
  BY <1>1 DEF SP!Unharmed
<1>3. ~dirty[p] => Store!LoadManifest(p) = manifest.entries
  BY <1>2 DEF SP!InTurn, SP!Knows, Store!LoadManifest
<1>4. ASSUME NEW e \in Store!HashesOf(Store!LoadManifest(p)) PROVE blob[e] = "whole"
  <2>1. e \in SP!HashesOf(manifest.entries) \cup SP!HashesOf(cache[p].entries)
    BY DEF Store!HashesOf, SP!HashesOf, Store!LoadManifest
  <2>2. blob[e] # "absent"
    BY <2>1 DEF SP!ListedHasArtifact
  <2>3. e \in Entries
    BY <2>1 DEF SP!ListedInv, SP!TypeOK, SP!Entry, SP!HashesOf
  <2>4. blob[e] # "torn"
    BY <1>1, <1>2, <2>3 DEF SP!TornIsExplained
  <2> QED
    BY <2>2, <2>3, <2>4 DEF SP!ListedInv, SP!TypeOK, SP!FileState
<1> QED
  BY <1>1, <1>2, <1>3, <1>4 DEF Store!LoadSucceeds

\* A step never makes a store calm.
LEMMA CalmBefore ==
    ASSUME NEW p \in Procs, StoreStep(p) \/ UNCHANGED store, StoreFacts, Calm'
    PROVE  Calm
<1>1. CASE UNCHANGED store
  BY <1>1 DEF store, Calm
<1>2. CASE StoreStep(p)
  <2>1. overlap => overlap'
    BY <1>2 DEF StoreStep, Store!history, Store!Open, Store!PutBytes, Store!Begins, Store!Load, Store!Close,
       Store!Crash, Store!Advance, Store!OpenBlob, Store!FillBlob, Store!WriteMeta, Store!ListDeferred,
       Store!ListNow, Store!OpenManifest, Store!FillManifest, Store!ListRaises, Store!WriteFails
  <2>2. faults' = faults \/ (faults \in Nat /\ faults' = faults + 1)
    <3>1. faults \in Nat
      BY StoreAssumption DEF StoreFacts, SP!ListedInv, SP!TypeOK
    <3> QED
      BY <1>2, <3>1 DEF StoreStep, Store!history, Store!Open, Store!PutBytes, Store!Begins, Store!Load, Store!Close,
       Store!Crash, Store!HalfWritten, Store!Advance, Store!OpenBlob, Store!FillBlob, Store!WriteMeta,
       Store!ListDeferred, Store!ListNow, Store!OpenManifest, Store!FillManifest, Store!ListRaises,
       Store!WriteFails
  <2> QED
    BY <2>1, <2>2 DEF Calm
<1> QED
  BY <1>1, <1>2

\* Episodes and their stores stay in step.
LEMMA FitsStep ==
    ASSUME Inv, AtFits, NEW p \in Procs, Runs(p)
    PROVE  AtFits'
<1> USE DEF Inv, TypeOK, AtFits, Goes, store, Store!Transition, Store!disk, Store!memory, Store!history,
            Store!Deferred, Busy
<1>1. ASSUME NEW m \in FlushModes, Start(p, m) PROVE AtFits'
  BY <1>1, ModesAssumption DEF Start, Store!Open
<1>2. CASE Solve(p)
  BY <1>2 DEF Solve, Store!PutBytes, Store!Begins
<1>3. CASE Preload(p) \/ HitPersist(p) \/ Miss(p)
  BY <1>3 DEF Preload, HitPersist, Miss, Store!Load
<1>4. CASE \/ PreloadRaises(p) \/ (\E s \in Specs : Begin(p, s)) \/ LoadMacros(p) \/ LoadMacrosRaises(p)
           \/ HitMem(p) \/ LookupRaises(p) \/ SolveRaises(p) \/ Proceed(p)
  BY <1>4 DEF PreloadRaises, Begin, LoadMacros, LoadMacrosRaises, HitMem, LookupRaises, SolveRaises, Proceed
<1>5. CASE Put(p)
  <2>1. CASE Store!OpenBlob(p) \/ Store!FillBlob(p) \/ Store!WriteMeta(p) \/ Store!OpenManifest(p)
    BY <1>5, <2>1 DEF Put, Store!OpenBlob, Store!FillBlob, Store!WriteMeta, Store!OpenManifest
  <2>2. CASE Store!ListDeferred(p)
    <3>1. /\ pc' = [pc EXCEPT ![p] = "idle"] /\ at' = [at EXCEPT ![p] = "answered"]
          /\ dirty' = [dirty EXCEPT ![p] = TRUE] /\ UNCHANGED <<mode, batch>>
      BY <1>5, <2>2 DEF Put, Store!ListDeferred
    <3>2. batch \/ mode[p] = "per_suite"
      BY <2>2 DEF Store!ListDeferred
    <3> QED
      BY <3>1, <3>2
  <2>4. CASE Store!ListNow(p)
    <3>1. /\ pc' = [pc EXCEPT ![p] = "openmanifest"] /\ at' = [at EXCEPT ![p] = "put"]
          /\ UNCHANGED <<dirty, mode, batch>> /\ at[p] = "put"
      BY <1>5, <2>4 DEF Put, Store!ListNow
    <3> QED
      BY <3>1
  <2>3. CASE Store!FillManifest(p)
    BY <1>5, <2>3 DEF Put, Store!FillManifest
  <2> QED
    BY <1>5, <2>1, <2>2, <2>3, <2>4 DEF Put, Store!Advance
<1>6. CASE PutRaises(p)
  BY <1>6 DEF PutRaises, Store!ListRaises, Store!WriteFails
<1>7. CASE End(p)
  <2>1. /\ pc' = [pc EXCEPT ![p] = "closed"] /\ at' = [at EXCEPT ![p] = "down"]
        /\ dirty' = [dirty EXCEPT ![p] = FALSE] /\ mode' = [mode EXCEPT ![p] = "per_episode"]
        /\ UNCHANGED batch
    BY <1>7 DEF End, Store!Close, Store!Crash, Store!Forget
  <2> QED
    BY <2>1 DEF Store!Modes
<1> QED
  BY <1>1, <1>2, <1>3, <1>4, <1>5, <1>6, <1>7 DEF Runs

\* An episode's answer is remembered.
LEMMA RemembersStep ==
    ASSUME Inv, Remembers, NEW p \in Procs, Runs(p)
    PROVE  Remembers'
<1> USE DEF Inv, TypeOK, Remembers, KeyOf, Goes, episode
<1>1. CASE HitMem(p)
  BY <1>1 DEF HitMem, Remembered
<1>2. CASE HitPersist(p)
  <2>1. Deciding(p) \in SUBSET Entries
    BY ListedIn DEF Deciding
  <2>2. First(Deciding(p)) \in Deciding(p) /\ blob[First(Deciding(p))] = "whole"
    BY <1>2, <2>1, FirstAssumption DEF HitPersist
  <2>3. First(Deciding(p)).key = Key(task[p], macros[p])
    BY <2>2 DEF Deciding
  <2> QED
    BY <1>2, <2>3 DEF HitPersist
<1>3. CASE Solve(p)
  BY <1>3, FoundIn DEF Solve
<1>4. CASE Put(p)
  BY <1>4 DEF Put
<1>5. ASSUME NEW s \in Specs, Begin(p, s) PROVE Remembers'
  BY <1>5 DEF Begin
<1>6. CASE (\E m \in FlushModes : Start(p, m)) \/ Preload(p) \/ PreloadRaises(p) \/ LoadMacros(p)
  BY <1>6 DEF Start, Preload, PreloadRaises, LoadMacros
<1>7. CASE LoadMacrosRaises(p) \/ Miss(p) \/ LookupRaises(p) \/ SolveRaises(p)
  BY <1>7 DEF LoadMacrosRaises, Miss, LookupRaises, SolveRaises
<1>8. CASE PutRaises(p) \/ Proceed(p) \/ End(p)
  BY <1>8 DEF PutRaises, Proceed, End
<1> QED
  BY <1>1, <1>2, <1>3, <1>4, <1>5, <1>6, <1>7, <1>8 DEF Runs

\* A step of p in a calm store, by what it does to p.
Stays(p) == at'[p] # "raised" /\ (~Store!Deferred(p)' => Kept(p)')

\* In a calm store the entries of a process that defers nothing are the file's.
LEMMA FileReads ==
    ASSUME StoreFacts, Calm, AtFits, NEW p \in Procs, pc[p] \in {"idle", "list"}, ~Store!Deferred(p)
    PROVE  Store!LoadManifest(p) = manifest.entries
BY CalmReads DEF AtFits

\* Reading the cache raises nothing, and what is taken from it is listed.
LEMMA ReadsCalmly ==
    ASSUME Inv, StoreFacts, Calm, AtFits, CalmInv, NEW p \in Procs,
           \/ Preload(p) \/ PreloadRaises(p) \/ HitPersist(p) \/ Miss(p) \/ LookupRaises(p)
    PROVE  Stays(p)
<1> USE DEF Inv, TypeOK, Goes, Stays, Kept, Busy, Store!disk, Store!memory, Store!history, Store!Deferred
<1>1. pc[p] = "idle" /\ at[p] # "raised" /\ (~Store!Deferred(p) => Kept(p))
  BY DEF AtFits, CalmInv, Preload, PreloadRaises, HitPersist, Miss, LookupRaises
<1>2. Store!HashesOf(Store!LoadManifest(p)) \in SUBSET Entries
  BY ListedIn
<1>3. Deciding(p) \subseteq Store!HashesOf(Store!LoadManifest(p))
  BY DEF Deciding
<1>4. Store!LoadSucceeds(p) /\ \A e \in Store!HashesOf(Store!LoadManifest(p)) : blob[e] = "whole"
  BY <1>1, CalmReads
<1>5. ~Store!Deferred(p) => mem[p] \subseteq Store!HashesOf(manifest.entries)
                            /\ Store!LoadManifest(p) = manifest.entries
  BY <1>1, FileReads
<1>6. CASE Preload(p)
  <2> DEFINE listed == Store!HashesOf(Store!LoadManifest(p))
  <2>1. ASSUME NEW e \in listed PROVE First({f \in listed : f.key = e.key}) \in listed
    <3>1. {f \in listed : f.key = e.key} \in SUBSET Entries /\ e \in {f \in listed : f.key = e.key}
      BY <1>2
    <3> QED
      BY <3>1, FirstAssumption
  <2>2. mem'[p] = {First({f \in listed : f.key = e.key}) : e \in listed}
    BY <1>6 DEF Preload
  <2>3. mem'[p] \subseteq listed
    BY <2>1, <2>2
  <2>4. pc' = pc /\ manifest' = manifest /\ batch' = batch /\ mode' = mode /\ at'[p] = "idle"
    BY <1>6 DEF Preload, Store!Load
  <2> QED
    BY <1>1, <1>5, <2>3, <2>4 DEF Store!HashesOf
<1>7. CASE PreloadRaises(p)
  BY <1>4, <1>7 DEF PreloadRaises
<1>8. CASE HitPersist(p)
  <2>1. First(Deciding(p)) \in Store!HashesOf(Store!LoadManifest(p))
    BY <1>2, <1>3, <1>8, FirstAssumption DEF HitPersist
  <2>2. mem'[p] = mem[p] \cup {First(Deciding(p))}
    BY <1>8 DEF HitPersist
  <2>3. pc' = pc /\ manifest' = manifest /\ batch' = batch /\ mode' = mode /\ at'[p] = "answered"
    BY <1>8 DEF HitPersist, Store!Load
  <2> QED
    BY <1>1, <1>5, <2>1, <2>2, <2>3 DEF Store!HashesOf
<1>9. CASE Miss(p)
  <2>1. mem' = mem /\ pc' = pc /\ manifest' = manifest /\ batch' = batch /\ mode' = mode /\ at'[p] = "solve"
    BY <1>9 DEF Miss, Store!Load
  <2> QED
    BY <1>1, <1>5, <2>1 DEF Store!HashesOf
<1>10. CASE LookupRaises(p)
  BY <1>2, <1>3, <1>4, <1>10, FirstAssumption DEF LookupRaises
<1> QED
  BY <1>6, <1>7, <1>8, <1>9, <1>10

\* A put lists in the file what is remembered, and does not raise.
LEMMA PutsCalmly ==
    ASSUME Inv, StoreFacts, Calm, Calm', AtFits, CalmInv, NEW p \in Procs, Put(p) \/ PutRaises(p)
    PROVE  Stays(p)
<1> USE DEF Inv, TypeOK, Goes, Stays, Kept, Busy, Store!Transition, Store!disk, Store!memory,
            Store!history, Store!Deferred, Store!HashesOf
<1>1. at[p] = "put" /\ (~Store!Deferred(p) => Kept(p)) /\ mem' = mem
  BY DEF CalmInv, Put, PutRaises
<1>2. CASE Store!OpenBlob(p) \/ Store!FillBlob(p) \/ Store!WriteMeta(p) \/ Store!OpenManifest(p)
  <2>1. /\ at'[p] = "put" /\ arg' = arg /\ cache' = cache /\ mode' = mode /\ batch' = batch
        /\ \/ pc[p] \in Busy /\ pc'[p] \in Busy /\ manifest' = manifest
           \/ pc[p] = "openmanifest" /\ pc'[p] = "fillmanifest"
    <3>1. CASE Store!OpenManifest(p)
      BY <1>1, <3>1 DEF Put, PutRaises, AtFits, Store!OpenManifest, Store!ListRaises, Store!WriteFails, Store!Filling
    <3>2. CASE Store!OpenBlob(p) \/ Store!FillBlob(p) \/ Store!WriteMeta(p)
      <4>1. faults' = faults
        BY <3>2 DEF Store!OpenBlob, Store!FillBlob, Store!WriteMeta
      <4>2. pc'[p] # "idle"
        BY <3>2 DEF Store!OpenBlob, Store!FillBlob, Store!WriteMeta, AtFits
      <4>3. Put(p)
        BY <4>1, <4>2 DEF PutRaises, Store!ListRaises, Store!WriteFails, AtFits
      <4> QED
        BY <3>2, <4>2, <4>3 DEF Put, Store!OpenBlob, Store!FillBlob, Store!WriteMeta, AtFits
    <3> QED
      BY <1>2, <3>1, <3>2
  <2> QED
    BY <1>1, <2>1
<1>3. CASE Put(p) /\ Store!ListDeferred(p)
  BY <1>3 DEF Put, Store!ListDeferred
<1>4. CASE Put(p) /\ Store!ListNow(p)
  <2>1. /\ pc[p] = "list" /\ pc'[p] = "openmanifest" /\ at'[p] = "put"
        /\ cache'[p].entries = Store!AddEntry(Store!LoadManifest(p), arg[p])
        /\ ~Store!Deferred(p)
    BY <1>4 DEF Put, Store!ListNow, Store!Loaded, StoreKnows, AtFits
  <2>2. Store!LoadManifest(p) = manifest.entries
    BY <2>1, FileReads
  <2>3. Store!HashesOf(manifest.entries) \cup {arg[p].hash} \subseteq Store!HashesOf(cache'[p].entries)
    BY <2>1, <2>2 DEF Store!AddEntry
  <2> QED
    BY <1>1, <2>1, <2>3
<1>5. CASE Put(p) /\ Store!FillManifest(p)
  <2>1. /\ pc[p] = "fillmanifest" /\ pc'[p] = "idle" /\ at'[p] = "answered"
        /\ manifest'.entries = cache[p].entries /\ mode' = mode /\ batch' = batch
    BY <1>5 DEF Put, Store!FillManifest, AtFits
  <2> QED
    BY <1>1, <2>1
<1>6. CASE PutRaises(p)
  <2>1. CASE Store!ListRaises(p)
    BY <2>1, CalmReads DEF Store!ListRaises
  <2>2. CASE Store!WriteFails(p)
    <3>1. faults' = faults + 1 /\ faults = 0 /\ faults' = 0
      BY <2>2 DEF Store!WriteFails, Store!HalfWritten, Calm
    <3> QED
      BY <3>1
  <2> QED
    BY <1>6, <2>1, <2>2 DEF PutRaises
<1> QED
  BY <1>2, <1>3, <1>4, <1>5, <1>6 DEF Put, Store!Advance

\* The other steps of an episode.
LEMMA OtherwiseCalm ==
    ASSUME Inv, AtFits, Remembers, AtFits', CalmInv, Calm, NEW p \in Procs,
           \/ \E m \in FlushModes : Start(p, m)
           \/ \E s \in Specs : Begin(p, s)
           \/ LoadMacros(p) \/ LoadMacrosRaises(p) \/ HitMem(p) \/ Solve(p) \/ SolveRaises(p)
           \/ Proceed(p) \/ End(p)
    PROVE  Stays(p)
<1> USE DEF Inv, TypeOK, Goes, Stays, Kept, Busy, Store!Transition, Store!disk, Store!memory,
            Store!history, Store!Deferred, Store!HashesOf
<1>1. at[p] # "raised" /\ (~Store!Deferred(p) => Kept(p))
  BY DEF CalmInv
<1>2. ASSUME NEW m \in FlushModes, Start(p, m) PROVE Stays(p)
  <2>1. mem'[p] = {} /\ at'[p] = "idle" /\ pc'[p] = "idle"
    BY <1>2 DEF Start, Store!Open, Remembers, AtFits
  <2> QED
    BY <2>1
<1>3. CASE Solve(p)
  <2>1. /\ pc[p] = "idle" /\ pc'[p] \in Busy /\ at'[p] = "put" /\ arg'[p].hash = Found(p)
        /\ mem'[p] = mem[p] \cup {Found(p)} /\ UNCHANGED <<manifest, mode, batch>>
    BY <1>3 DEF Solve, Store!PutBytes, Store!Begins, StoreKnows, AtFits
  <2> QED
    BY <1>1, <2>1
<1>4. CASE End(p)
  <2>1. at'[p] = "down"
    BY <1>4 DEF End
  <2>2. pc'[p] = "closed"
    BY <2>1 DEF AtFits
  <2> QED
    BY <2>1, <2>2
<1>5. CASE \/ (\E s \in Specs : Begin(p, s)) \/ LoadMacros(p) \/ LoadMacrosRaises(p)
           \/ HitMem(p) \/ SolveRaises(p) \/ Proceed(p)
  <2>1. UNCHANGED <<store, mem>> /\ at'[p] # "raised"
    BY <1>5 DEF Begin, LoadMacros, LoadMacrosRaises, HitMem, SolveRaises, Proceed
  <2> QED
    BY <1>1, <2>1 DEF store
<1> QED
  BY <1>2, <1>3, <1>4, <1>5

\* A step of an episode leaves the other processes' stores as they were.
LEMMA OthersPlace ==
    ASSUME AtFits, NEW p \in Procs, StoreStep(p) \/ UNCHANGED store, NEW q \in Procs \ {p}
    PROVE  pc'[q] = pc[q]
BY DEF AtFits, StoreStep, Busy, store, Store!Open, Store!PutBytes, Store!Begins, Store!Load, Store!Close,
       Store!Crash, Store!Advance, Store!OpenBlob, Store!FillBlob, Store!WriteMeta, Store!ListDeferred,
       Store!ListNow, Store!OpenManifest, Store!FillManifest, Store!ListRaises, Store!WriteFails,
       Store!Transition

\* As long as the store is calm, no process is stopped by its cache, and what
\* it remembers is kept.
LEMMA CalmStep ==
    ASSUME Inv, Inv', StoreFacts, StoreFacts', EpisodeInv, AtFits', Remembers', NEW p \in Procs, Runs(p)
    PROVE  CalmInv'
<1> USE DEF EpisodeInv
<1> SUFFICES ASSUME Calm', NEW q \in Procs
             PROVE  Stays(q)
  BY DEF CalmInv, Stays
<1>1. StoreStep(p) \/ UNCHANGED store
  BY RunsStore DEF Inv
<1>2. Calm
  BY <1>1, CalmBefore
<1>3. CASE q = p
  BY <1>2, <1>3, ReadsCalmly, PutsCalmly, OtherwiseCalm DEF Runs
<1>4. CASE q # p
  <2>1. pc'[q] = pc[q]
    BY <1>1, <1>4, OthersPlace
  <2>2. pc[p] # "closed" \/ pc'[p] # "closed"
    <3>1. ASSUME NEW m \in FlushModes, Start(p, m) PROVE pc'[p] = "idle"
      BY <3>1 DEF Start, Store!Open, Store!Transition, AtFits
    <3>2. (\E m \in FlushModes : Start(p, m)) \/ at[p] # "down"
      BY DEF Runs, Goes, Preload, PreloadRaises, Begin, LoadMacros, LoadMacrosRaises, HitMem, HitPersist,
             Miss, LookupRaises, Solve, SolveRaises, Put, PutRaises, Proceed, End
    <3> QED
      BY <3>1, <3>2 DEF AtFits
  <2>3. pc'[q] = "closed"
    BY <1>2, <1>4, <2>1, <2>2 DEF StoreFacts, Calm, SP!InTurn, SP!OneOpen
  <2>4. at'[q] = "down" /\ mem'[q] = {}
    BY <2>3 DEF AtFits, Remembers
  <2> QED
    BY <2>3, <2>4 DEF Stays, Kept, Busy
<1> QED
  BY <1>3, <1>4

\* The inductive invariant of a calm store.
LEMMA EpisodeStep ==
    ASSUME Inv, Inv', StoreFacts, StoreFacts', EpisodeInv, [Next]_vars
    PROVE  EpisodeInv'
<1>1. ASSUME NEW p \in Procs, Runs(p) PROVE EpisodeInv'
  BY <1>1, FitsStep, RemembersStep, CalmStep DEF EpisodeInv
<1>2. CASE UNCHANGED <<store, at, episode, mem>>
  BY <1>2 DEF EpisodeInv, AtFits, Remembers, CalmInv, Calm, Kept, KeyOf, store, episode,
              Store!Deferred, Store!HashesOf
<1>3. ASSUME NEW a \in Adders, Adds(a) PROVE UNCHANGED <<store, at, episode, mem>>
  BY <1>3 DEF Adds, AddLoad, AddOpen, AddFill, AddDies
<1> QED
  BY <1>1, <1>2, <1>3 DEF Next, vars

\* Before any process is started nothing is in a cache.
LEMMA EpisodeInit == Init => EpisodeInv
BY StoreAssumption DEF Init, EpisodeInv, AtFits, Remembers, CalmInv, Kept, Busy, Store!Init, Store!Modes,
       Store!Deferred, Store!HashesOf

\* Episodes, their answers and the cache stay in step.
LEMMA EpisodesHold == Spec => []EpisodeInv
BY EpisodeInit, EpisodeStep, Inductive, StoreHolds, PTL DEF Spec

\* A process that nobody shares the store with, and that no fault has hit,
\* does not fail for the sake of its cache (CacheHarmless).
THEOREM Harmless == Spec => []CacheHarmless
<1>1. EpisodeInv => CacheHarmless
  BY DEF EpisodeInv, CalmInv, Calm, CacheHarmless
<1> QED
  BY EpisodesHold, <1>1, PTL

\* What an episode went on with is found by the next process, unless the
\* environment has the manifest flushed by somebody else (AnswersPersist).
THEOREM Persist == Spec => []AnswersPersist
<1>1. Inv /\ StoreFacts /\ EpisodeInv => AnswersPersist
  <2> SUFFICES ASSUME Inv, StoreFacts, EpisodeInv, Calm, NEW p \in Procs,
                      at[p] = "answered", ~Store!Deferred(p)
               PROVE  \E e \in Store!HashesOf(manifest.entries) : e.key = KeyOf(p) /\ blob[e] = "whole"
    BY DEF AnswersPersist, Calm
  <2>1. pc[p] = "idle" /\ Kept(p)
    BY DEF EpisodeInv, AtFits, CalmInv
  <2>2. PICK e \in mem[p] : e.key = KeyOf(p)
    BY DEF EpisodeInv, Remembers
  <2>3. e \in Store!HashesOf(manifest.entries)
    BY <2>1, <2>2 DEF Kept
  <2>4. Store!LoadManifest(p) = manifest.entries
    BY <2>1, FileReads DEF EpisodeInv
  <2>5. blob[e] = "whole"
    BY <2>1, <2>3, <2>4, CalmReads
  <2> QED
    BY <2>2, <2>3, <2>5
<1> QED
  BY Inductive, StoreHolds, EpisodesHold, <1>1, PTL
=============================================================================
