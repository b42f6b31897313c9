SPECIFICATION SpecDrivers
CONSTANTS
    outer = outer
    inner = inner
    a1 = a1
    a2 = a2
    tasks = tasks
    report = report
    evidence = evidence
    ucr = ucr
    Stores = {outer, inner}
    Outer = outer
    Inner = inner
    Hashes = {a1, a2, tasks, report}
    Types = {evidence, ucr}
    Batches = {TRUE, FALSE}
    NoHash = NoHash
    NoType = NoType
    MaxFaults = 1
    Drivers = {"open", "sealed", "suite"}
    FlushModes = {"per_episode", "per_suite"}
    Tasks <- MCTasks
    Report <- MCReport
    EpisodeEntries <- MCEpisodeEntries
    MaxEpisodes = 2
    MaxRuns = 3
INVARIANTS
    OthersStayListed
PROPERTIES
    SuiteDefersWrites
\* After the last command nothing more is run.
CHECK_DEADLOCK FALSE
