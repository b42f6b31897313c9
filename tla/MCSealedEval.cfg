SPECIFICATION SpecDrivers
CONSTANTS
    outer = outer
    inner = inner
    a1 = a1
    a2 = a2
    tasks = tasks
    report = report
    evidence = evidence
    ucr = ucr
    Stores = {outer, inner}
    Outer = outer
    Inner = inner
    Hashes = {a1, a2, tasks, report}
    Types = {evidence, ucr}
    Batches = {FALSE}
    NoHash = NoHash
    NoType = NoType
    MaxFaults = 0
    Drivers = {"sealed"}
    FlushModes = {"per_episode"}
    Tasks <- MCTasks
    Report <- MCReport
    EpisodeEntries <- MCEpisodeEntries
    MaxEpisodes = 2
    MaxRuns = 1
INVARIANTS
    OutputsListed
CHECK_DEADLOCK FALSE
