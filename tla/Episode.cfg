SPECIFICATION FairSpec
CONSTANTS
    Processes = {p1, p2}
    Tasks = {t1, t2}
    BvpsTasks = {t2}
    Unsolvable = {t2}
    Unjudgeable = {t2}
    Verdicts = {{}, {"consequence"}}
    Sinks = {"disk", "off"}
    Repairs = {TRUE, FALSE}
    NoTask = NoTask
    MaxEpisodes = 2
    MaxFaults = 2
INVARIANTS
    EventIsBacked
    ChainFollowsDb
    FailClosed
    
    AllRecordsOrNone
PROPERTIES
    RecordsAreFinal
    EpisodesEnd
\* No episode begins beyond the bound.
CHECK_DEADLOCK FALSE
