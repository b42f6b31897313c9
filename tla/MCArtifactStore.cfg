SPECIFICATION Spec
CONSTANTS
    Stores = {s1, s2}
    Hashes = {h1, h2}
    Types = {t1, t2}
    Batches = {FALSE}
    NoHash = NoHash
    NoType = NoType
    MaxFaults = 1
SYMMETRY Interchangeable
INVARIANTS
    TypeOK
    TornIsExplained
    ListedHasArtifact
    OneEntryPerHash
    NothingUnlisted
    CacheIsFile
PROPERTIES
    TornManifestStops
