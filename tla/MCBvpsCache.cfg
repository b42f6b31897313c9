SPECIFICATION Spec
CONSTANTS
    Procs = {"p1", "p2"}
    Adders = {"a1"}
    Specs <- MCSpecs
    Roots = {"w1", "w2"}
    Home <- MCHome
    Registries <- MCRegistries
    Patches <- MCPatches
    Synth <- MCSynth
    NoProgram = NoProgram
    First <- MCFirst
    FlushModes = {"per_episode", "per_suite"}
    Batches = {FALSE}
    NoHash = NoHash
    NoType = NoType
    MaxFaults = 1
    MaxPatches = 2
    MaxEpisodes = 2
INVARIANTS
    TypeOK
    CacheTransparent
    CacheHarmless
    AnswersPersist
