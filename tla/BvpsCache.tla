----------------------------- MODULE BvpsCache -----------------------------
(***************************************************************************)
(* What BVPS episodes keep for each other: the macros of the language      *)
(* registry, the cache a process holds in memory, and the persistent cache *)
(* of all processes, an artifact store of its own whose objects are those  *)
(* of ArtifactStore.  A key is a specification, the macros that apply to   *)
(* it as a set, and the attempt, which is always the first.                *)
(***************************************************************************)
EXTENDS Naturals, Sequences, SequencesExt

CONSTANTS Procs,         \* processes that run episodes: a suite, or one command each
          Adders,        \* commands that add a language patch
          Specs,         \* BVPS specifications, records with a name
          Roots,         \* workspaces, each with a language registry of its own
          Home(_),       \* the workspace of a process
          Registries(_), \* what it may have registered before the cache is first used
          Patches,       \* language patches: name (and version), scope, macros
          Synth(_, _),   \* program found for a specification and a macro dictionary
          NoProgram,     \* none is found
          First(_),      \* the one of some entries whose hash is the least
          FlushModes,    \* values of EIDOLON_STORE_MANIFEST_FLUSH_MODE
          Batches, NoHash, NoType, MaxFaults,
          MaxPatches,    \* bound on the registry's records
          MaxEpisodes    \* bound on the number of episodes

\* A registry that is not there is an empty one.
PatchLists == UNION {[1..n -> Patches] : n \in 0..MaxPatches}

ASSUME HomeAssumption == \A p \in Procs \cup Adders : Home(p) \in Roots
ASSUME RegistriesAssumption == \A w \in Roots : Registries(w) \subseteq PatchLists
ASSUME LimitAssumption == MaxPatches \in Nat /\ MaxEpisodes \in Nat
ASSUME SpecsAssumption == Specs # {}

\* MacroTemplates by name in a dictionary, which keeps the order of insertion.
UpdateDict(dict, m) ==
    IF \E i \in DOMAIN dict : dict[i].name = m.name
    THEN [i \in DOMAIN dict |-> IF dict[i].name = m.name THEN m ELSE dict[i]]
    ELSE Append(dict, m)

\* _load_language_macros: a later patch overrides the macros of an earlier one.
MacrosFor(patches, s) ==
    LET scoped == SelectSeq(patches, LAMBDA x : x.scope = s.name)
    IN  FoldLeft(UpdateDict, <<>>, FlattenSeq([i \in DOMAIN scoped |-> scoped[i].macros]))

Dicts == {MacrosFor(patches, s) : patches \in PatchLists, s \in Specs}

\* Fault: the macros are left out of the key.
KeyOfSpec(s, dict) == <<s, {}>>

\* _bvps_cache_key: _bvps_macros_hash sorts the macros by name.
Key(s, dict) == <<s, ToSet(dict)>>

\* The record kept for a key; its other fields follow from these.
Entry(s, dict) == [key |-> Key(s, dict), spec |-> s, program |-> Synth(s, dict)]

Entries == {e \in {Entry(s, dict) : s \in Specs, dict \in Dicts} : e.program # NoProgram}

ASSUME FirstAssumption == \A S \in SUBSET Entries : S # {} => First(S) \in S

CacheType == "bvps_program_cache"

\* What ArtifactStore assumes of a store.
ASSUME StoreAssumption ==
    /\ NoHash \notin Entries /\ NoType # CacheType
    /\ Batches \subseteq BOOLEAN
    /\ MaxFaults \in Nat

VARIABLES blob, meta, manifest, pc, arg, cache, dirty, mode, batch,
          owed, damaged, faults, overlap,   \* the persistent store
          language,   \* language/registry.json of each workspace
          adding,     \* where each "language add" is
          copy,       \* the registry it has in memory
          at,         \* where each process is in its episode
          task,       \* the specification of the episode
          macros,     \* the macros loaded for it
          mem,        \* _bvps_cache
          answer,     \* the program the episode goes on with
          episodes    \* number of episodes begun

store    == <<blob, meta, manifest, pc, arg, cache, dirty, mode, batch,
              owed, damaged, faults, overlap>>
registry == <<language, adding, copy>>
episode  == <<task, macros, answer>>
vars     == <<store, registry, at, episode, mem, episodes>>

Store == INSTANCE ArtifactStore WITH Stores <- Procs, Hashes <- Entries, Types <- {CacheType}

ASSUME ModesAssumption == FlushModes \subseteq Store!Modes

-----------------------------------------------------------------------------
\* What a process has that has run no episode.
Idle     == CHOOSE s \in Specs : TRUE
NoMacros == MacrosFor(<<>>, Idle)

Init ==
    /\ Store!Init
    /\ language \in {f \in [Roots -> [state : {"whole"}, patches : UNION {Registries(w) : w \in Roots}]] :
                        \A w \in Roots : f[w].patches \in Registries(w)}
    /\ adding = [a \in Adders |-> "idle"]
    /\ copy = [a \in Adders |-> <<>>]
    /\ at = [p \in Procs |-> "down"]
    /\ task = [p \in Procs |-> Idle]
    /\ macros = [p \in Procs |-> NoMacros]
    /\ mem = [p \in Procs |-> {}]
    /\ answer = [p \in Procs |-> NoProgram]
    /\ episodes = 0

Goes(p, from, to) ==
    /\ at[p] = from
    /\ at' = [at EXCEPT ![p] = to]

\* LanguageRegistry.register: a name and version that is known keeps its macros.
Register(patches, x) ==
    IF \E i \in DOMAIN patches : patches[i].name = x.name THEN patches ELSE Append(patches, x)

\* language add: load and register ...
AddLoad(a, x) ==
    /\ adding[a] = "idle"
    /\ language[Home(a)].state = "whole"
    /\ Len(language[Home(a)].patches) < MaxPatches
    /\ adding' = [adding EXCEPT ![a] = "open"]
    /\ copy' = [copy EXCEPT ![a] = Register(language[Home(a)].patches, x)]
    /\ UNCHANGED <<store, language, at, episode, mem, episodes>>

\* ... and save, which empties the file first.
AddOpen(a) ==
    /\ adding[a] = "open"
    /\ adding' = [adding EXCEPT ![a] = "fill"]
    /\ language' = [language EXCEPT ![Home(a)] = [state |-> "torn", patches |-> <<>>]]
    /\ UNCHANGED <<store, copy, at, episode, mem, episodes>>

AddFill(a) ==
    /\ adding[a] = "fill"
    /\ adding' = [adding EXCEPT ![a] = "idle"]
    /\ language' = [language EXCEPT ![Home(a)] = [state |-> "whole", patches |-> copy[a]]]
    /\ UNCHANGED <<store, copy, at, episode, mem, episodes>>

\* The command dies between the two.
AddDies(a) ==
    /\ adding[a] = "fill"
    /\ adding' = [adding EXCEPT ![a] = "idle"]
    /\ UNCHANGED <<store, language, copy, at, episode, mem, episodes>>

-----------------------------------------------------------------------------
\* A process starts: its cache is empty, its store object is new.
Start(p, m) ==
    /\ Goes(p, "down", "idle")
    /\ Store!Open(p, m)
    /\ UNCHANGED <<registry, episode, mem, episodes>>

\* preload_persistent_cache: the first entry of a key wins.
Preload(p) ==
    /\ Goes(p, "idle", "idle")
    /\ Store!Load(p) /\ ~cache[p].loaded
    /\ \A e \in Store!HashesOf(Store!LoadManifest(p)) : blob[e] = "whole"
    /\ mem' = [mem EXCEPT ![p] =
                  LET listed == Store!HashesOf(Store!LoadManifest(p))
                  IN  {First({f \in listed : f.key = e.key}) : e \in listed}]
    /\ UNCHANGED <<registry, episode, episodes>>

\* A blob that is not whole, or a manifest that is not, raises out of it.
PreloadRaises(p) ==
    /\ Goes(p, "idle", "raised")
    /\ ~cache[p].loaded
    /\ \/ ~Store!LoadSucceeds(p)
       \/ \E e \in Store!HashesOf(Store!LoadManifest(p)) : blob[e] # "whole"
    /\ UNCHANGED <<store, registry, episode, mem, episodes>>

\* A BVPS episode for s, whose name no skill matches.
Begin(p, s) ==
    /\ episodes < MaxEpisodes
    /\ Goes(p, "idle", "macros")
    /\ task' = [task EXCEPT ![p] = s]
    /\ answer' = [answer EXCEPT ![p] = NoProgram]
    /\ episodes' = episodes + 1
    /\ UNCHANGED <<store, registry, macros, mem>>

LoadMacros(p) ==
    /\ language[Home(p)].state = "whole"
    /\ Goes(p, "macros", "lookup")
    /\ macros' = [macros EXCEPT ![p] = MacrosFor(language[Home(p)].patches, task[p])]
    /\ UNCHANGED <<store, registry, task, answer, mem, episodes>>

LoadMacrosRaises(p) ==
    /\ language[Home(p)].state = "torn"
    /\ Goes(p, "macros", "failed")
    /\ UNCHANGED <<store, registry, episode, mem, episodes>>

KeyOf(p) == Key(task[p], macros[p])

Remembered(p) == {e \in mem[p] : e.key = KeyOf(p)}

\* The entries at which the scan of _load_bvps_persistent_cache may end: those
\* it asks for by created_from that are not whole or have the key.
Deciding(p) ==
    {e \in Store!HashesOf(Store!LoadManifest(p)) :
        e.spec = task[p] /\ (blob[e] # "whole" \/ e.key = KeyOf(p))}

Answers(p, e) == answer' = [answer EXCEPT ![p] = e.program]

HitMem(p) ==
    /\ Goes(p, "lookup", "answered")
    /\ \E e \in Remembered(p) : Answers(p, e)
    /\ UNCHANGED <<store, registry, task, macros, mem, episodes>>

HitPersist(p) ==
    /\ Goes(p, "lookup", "answered")
    /\ Remembered(p) = {}
    /\ Store!Load(p)
    /\ Deciding(p) # {} /\ blob[First(Deciding(p))] = "whole"
    /\ Answers(p, First(Deciding(p)))
    /\ mem' = [mem EXCEPT ![p] = @ \cup {First(Deciding(p))}]
    /\ UNCHANGED <<registry, task, macros, episodes>>

Miss(p) ==
    /\ Goes(p, "lookup", "solve")
    /\ Remembered(p) = {}
    /\ Store!Load(p)
    /\ Deciding(p) = {}
    /\ UNCHANGED <<registry, episode, mem, episodes>>

\* Fault: an entry with other macros ends the scan.
LookupRaisesOther(p) ==
    /\ Goes(p, "lookup", "raised")
    /\ Remembered(p) = {}
    /\ Store!LoadSucceeds(p)
    /\ \E e \in Store!HashesOf(Store!LoadManifest(p)) : e.spec = task[p] /\ e.key # KeyOf(p)
    /\ UNCHANGED <<store, registry, episode, mem, episodes>>

\* read_persistent_payload raises at a blob that is absent or no JSON, and
\* load_manifest at such a manifest: nothing catches either.
LookupRaises(p) ==
    /\ Goes(p, "lookup", "raised")
    /\ Remembered(p) = {}
    /\ \/ ~Store!LoadSucceeds(p)
       \/ Deciding(p) # {} /\ blob[First(Deciding(p))] # "whole"
    /\ UNCHANGED <<store, registry, episode, mem, episodes>>

Found(p) == Entry(task[p], macros[p])

\* Fault: the program is remembered and not stored.
SolveUnstored(p) ==
    /\ Found(p).program # NoProgram
    /\ Goes(p, "solve", "answered")
    /\ Answers(p, Found(p))
    /\ mem' = [mem EXCEPT ![p] = @ \cup {Found(p)}]
    /\ UNCHANGED <<store, registry, task, macros, episodes>>

\* try_fastpath and synthesize find a program; it is put in both caches.
Solve(p) ==
    /\ Found(p).program # NoProgram
    /\ Goes(p, "solve", "put")
    /\ Answers(p, Found(p))
    /\ mem' = [mem EXCEPT ![p] = @ \cup {Found(p)}]
    /\ Store!PutBytes(p, Found(p), CacheType)
    /\ UNCHANGED <<registry, task, macros, episodes>>

\* Fault: that nothing was found is remembered as well.
SolveRaisesKept(p) ==
    /\ Found(p).program = NoProgram
    /\ Goes(p, "solve", "failed")
    /\ mem' = [mem EXCEPT ![p] = @ \cup {Found(p)}]
    /\ UNCHANGED <<store, registry, episode, episodes>>

SolveRaises(p) ==
    /\ Found(p).program = NoProgram
    /\ Goes(p, "solve", "failed")
    /\ UNCHANGED <<store, registry, episode, mem, episodes>>

\* write_persistent_payload, step by step; when it returns the episode goes on.
Put(p) ==
    /\ at[p] = "put"
    /\ Store!Advance(p)
    /\ at' = [at EXCEPT ![p] = IF pc'[p] = "idle" THEN "answered" ELSE "put"]
    /\ UNCHANGED <<registry, episode, mem, episodes>>

PutRaises(p) ==
    /\ Goes(p, "put", "raised")
    /\ Store!ListRaises(p) \/ Store!WriteFails(p)
    /\ UNCHANGED <<registry, episode, mem, episodes>>

\* The process goes on with its next episode ...
Proceed(p) ==
    /\ Goes(p, "answered", "idle")
    /\ UNCHANGED <<store, registry, episode, mem, episodes>>

\* ... or ends, by itself, by an exception or killed.
End(p) ==
    /\ at[p] # "down"
    /\ at' = [at EXCEPT ![p] = "down"]
    /\ Store!Close(p) \/ Store!Crash(p)
    /\ mem' = [mem EXCEPT ![p] = {}]
    /\ UNCHANGED <<registry, episode, episodes>>

Runs(p) ==
    \/ \E m \in FlushModes : Start(p, m)
    \/ Preload(p) \/ PreloadRaises(p)
    \/ \E s \in Specs : Begin(p, s)
    \/ LoadMacros(p) \/ LoadMacrosRaises(p)
    \/ HitMem(p) \/ HitPersist(p) \/ Miss(p) \/ LookupRaises(p)
    \/ Solve(p) \/ SolveRaises(p) \/ Put(p) \/ PutRaises(p)
    \/ Proceed(p) \/ End(p)

Adds(a) == (\E x \in Patches : AddLoad(a, x)) \/ AddOpen(a) \/ AddFill(a) \/ AddDies(a)

Next == (\E p \in Procs : Runs(p)) \/ (\E a \in Adders : Adds(a))

Spec == Init /\ [][Next]_vars

-----------------------------------------------------------------------------
\* Types of the variables that ArtifactStore does not have.
TypeOK ==
    /\ language \in [Roots -> [state : {"torn", "whole"}, patches : PatchLists]]
    /\ adding \in [Adders -> {"idle", "open", "fill"}]
    /\ copy \in [Adders -> PatchLists]
    /\ at \in [Procs -> {"down", "idle", "macros", "lookup", "solve", "put", "answered",
                         "failed", "raised"}]
    /\ task \in [Procs -> Specs]
    /\ macros \in [Procs -> Dicts]
    /\ mem \in [Procs -> SUBSET Entries]
    /\ episodes \in 0..MaxEpisodes

\* The programs that synthesis gives for these macros, in one order or another.
Synthesized(s, dict) ==
    {Synth(s, d) : d \in {c \in Dicts : ToSet(c) = ToSet(dict)}}

\* The caches are transparent: whoever filled them, in which process and with
\* which registry, and whatever was cut short, an episode goes on with a
\* program that synthesis finds for its own specification and macros.
CacheTransparent ==
    \A p \in Procs : at[p] \in {"put", "answered"} =>
        answer[p] \in Synthesized(task[p], macros[p]) \ {NoProgram}

\* A process that nobody shares the store with, and that no fault has hit,
\* does not fail for the sake of its cache ...
CacheHarmless == ~overlap /\ faults = 0 => \A p \in Procs : at[p] # "raised"

\* ... and what an episode went on with is found by the next process, unless
\* the environment has the manifest flushed by somebody else.
AnswersPersist ==
    ~overlap /\ faults = 0 =>
        \A p \in Procs : at[p] = "answered" /\ ~Store!Deferred(p) =>
            \E e \in Store!HashesOf(manifest.entries) :
                e.key = KeyOf(p) /\ blob[e] = "whole"

\* Each process uses its store as ArtifactStore says.
StoreSpec == Store!Spec
=============================================================================
