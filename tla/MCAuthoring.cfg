SPECIFICATION Spec
CONSTANTS
    None = None
    Books <- MCBooks
INVARIANTS
    SearchesExact
    RunsAsLinted
    SuiteSound
PROPERTIES
    ChecksEnd
CHECK_DEADLOCK FALSE
