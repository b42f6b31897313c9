SPECIFICATION SolveSpec
CONSTANTS
    IntOpOrder <- MCIntOps
    BoolOpOrder <- MCBoolOps
    CondOpOrder <- MCBoolOps
    IntConstOrder <- MCConsts
    DepthOf <- Depth
    KeyOf <- ExprKey
    Evaluates <- Evaluated
    Expands <- Expansion
    Infers <- InferType
    Programs <- MCPrograms
    Run <- MCRun
    Body <- MCBody
    OrderOf <- MCOrderOf
    StepBudget = 7
    NoProgram <- MCNoProgram
    NoExpansion = 0
    Translates <- MCTranslates
    Specs <- MCSpecs
    Orders <- MCOrders
    IntMin <- MCIntMin
    IntMax = 2
    Jobs <- MCJobs
    Exprs <- MCExprs
    Worth <- MCWorth
    Absent = "absent"
    Blank = "blank"
    NoInput = NoInput
    Proposals <- MCProposals
    Written <- MCWritten
    Behaves <- MCBehaves
    Samples <- MCSamples
    MaxSteps = 2
INVARIANTS
    TypeOK
    FindsFirst
    CounterexamplesNew
    CorrectIsAnswered
    NothingOverlooked
    PassMeansRight
    StubIsAnswered
PROPERTIES
    EpisodeEnds
CHECK_DEADLOCK FALSE
