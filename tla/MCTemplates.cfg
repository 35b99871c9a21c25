SPECIFICATION Spec
CONSTANTS
    None = None
    Slugs <- MCSlugs
    Builtin <- MCBuiltin
    Archetypes <- MCArchetypes
    Skeleton <- MCSkeleton
    Drafts <- MCDrafts
    v1 = v1
    v2 = v2
    Validators = {v1, v2}
    MaxChanges = 2
SYMMETRY MCSymmetry
INVARIANTS
    VerdictHolds
    CatalogFaithful
    ValidDirectoryRuns
CHECK_DEADLOCK FALSE
