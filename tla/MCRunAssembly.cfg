SPECIFICATION AssemblySpec
CONSTANTS
    DayLen = 4
    DayStart = 1
    DayEnd = 3
    WorkDays <- MCWorkDays
    None = None
    ada = ada
    bob = bob
    People <- MCPeople
    Items <- MCItems
    Attrs <- MCAttrs
    BaseItems <- MCBaseItems
    Scenarios <- MCAllScenarios
    Programs <- MCPrograms
    Windows <- MCWindows
    ArrivalSets <- MCArrivalSets
    CommentSlot = 1
    MaxEvents = 12
INVARIANTS
    ReportSound
    QueueSound
    JournalSound
    EveryReactionRuns
PROPERTY
    Finishes
CHECK_DEADLOCK FALSE
