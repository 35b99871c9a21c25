SPECIFICATION Spec
CONSTANTS
    None = None
    Keys <- MCKeys
    Price <- MCPrice
    Work <- MCWork
    MaxWorkers = 2
    Ceiling = 2
    MaxRetries = 1
    Caches <- MCCaches
INVARIANTS
    AccountsSound
    EndSound
PROPERTIES
    NothingPaidAgain
    Ends
CHECK_DEADLOCK FALSE
