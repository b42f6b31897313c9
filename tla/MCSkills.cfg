SPECIFICATION Spec
CONSTANTS
    Procs = {p1, p2}
    Specs <- MCSpecs
    Programs = {"mirror", "plain", "diff"}
    Triggered <- MCTriggered
    FirstName <- MCFirstName
    Answer <- MCAnswer
    Accepts <- MCAccepts
    Gates <- MCGates
    Reverify = FALSE
    NoName = NoName
    MaxFaults = 1
    MaxEpisodes = 3
SYMMETRY Interchangeable
INVARIANTS
    AdmittedAsAWhole
    OneCrashSparesBundles
    AdmittedStay
