SPECIFICATION Spec
CONSTANTS
    Jobs = {j1}
    Runs = {r1, r2}
    Total = 1
    Budgets <- MCBudgets
    MaxRequests = 7
    None = None
INVARIANT
    StoresAgree
PROPERTY
    EveryRequestSettles
CHECK_DEADLOCK FALSE
