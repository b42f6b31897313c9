SPECIFICATION Spec
CONSTANTS
    Programs <- MCPrograms
    Run <- MCRun
    NoProgram = NoProgram
    NoExpansion = NoExpansion
    Translates <- MCTranslates
    Specs <- MCSpecs
    Orders <- MCOrders
    IntMin <- MCIntMin
    IntMax = 2
INVARIANT FoundIsJudged
CHECK_DEADLOCK FALSE
