SPECIFICATION Spec
CONSTANTS
    Generated = {g1, g2}
    Proposals = {p1}
    Text <- MCText
    Commands = {c1, c2}
    Workers = {w1, w2}
    MaxTurns = 1
    MaxCommands = 2
    MaxReview = 1
    None = None
INVARIANTS
    EvalSound
    CancelKeepsAnswers
PROPERTY
    LeavesRunning
CHECK_DEADLOCK FALSE
