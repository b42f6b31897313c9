SPECIFICATION Spec
CONSTANTS
    Processes = {p1}
    Tasks = {t2}
    BvpsTasks = {t2}
    Unsolvable = {}
    Unjudgeable = {}
    Verdicts = {{}, {"consequence"}}
    Sinks = {"disk"}
    Repairs = {TRUE}
    NoTask = NoTask
    MaxEpisodes = 1
    MaxFaults = 0
INVARIANTS
    EveryEpisodeEmits
CHECK_DEADLOCK FALSE
