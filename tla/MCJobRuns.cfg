SPECIFICATION Spec
CONSTANTS
    None = None
    Artifacts <- MCArtifacts
    Price <- MCPrice
    Estimate = 1
    Ceilings <- MCCeilings
    Layouts <- MCLayouts
    MaxStarts = 2
    MaxKills = 1
    MaxRestarts = 1
INVARIANTS
    SpendsOnce
    LedgerSound
PROPERTIES
    KeepsPromise
    CancelSignals
CHECK_DEADLOCK FALSE
\* The claims at the end of MCJobRuns, checked one at a time and each refuted, with
\* Ceilings <- FreeOfCeilings and Layouts <- OwnOrCopied:
\* INVARIANT LedgerKeepsSpend, ClosingPauses, CancelAwaits, DeleteRemoves, ParentPaysForAll,
\* INVARIANT ParentPaysForAll   (Layouts <- Inherited, MaxKills = 0, MaxRestarts = 0)
\* PROPERTY SelfContained       (Layouts <- Inherited)
\* INVARIANT CacheMandatory     (Layouts <- Nowhere, MaxKills = 0)
\* INVARIANT OnlyIncompleteCalls   (MaxStarts = 3, MaxRestarts = 2)
\* PROPERTY PauseSignals
