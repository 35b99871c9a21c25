\* One claim at a time: each of them is refuted.
SPECIFICATION Spec
CONSTANTS
    DayLen = 4
    DayStart = 1
    DayEnd = 3
    WorkDays <- MCWorkDays
    None = None
    ada = ada
    bob = bob
    People <- MCPeople
    Items <- MCItems
    Attrs <- MCAttrs
    BaseItems <- MCBaseItems
    Scenarios <- ClaimScenarios
    Windows <- ClaimWindows
    ArrivalSets <- MCArrivalSets
    CommentSlot = 1
    MaxEvents = 12
INVARIANT InWindow
\* INVARIANT ChildAfterParent
\* INVARIANT LintCleanRuns
\* INVARIANT ConditionHonoured
\* INVARIANT ProjectionHonest
\* PROPERTY ConditionFromThePresent
CHECK_DEADLOCK FALSE
