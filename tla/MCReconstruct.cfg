SPECIFICATION Spec
CONSTANTS
    None = None
    Archetypes <- MCArchetypes
    Playbooks = {"build", "sell"}
    DeliverySlug <- MCDeliverySlug
    Sizes <- MCSizes
    Names = {"ann", "bob", "cy"}
    Configs <- MCConfigs
    Titles <- MCTitles
    Fold <- MCFold
    Trim <- MCTrim
    Artifacts <- MCArtifacts
    Readings <- MCReadings
    Alike = {{"ann", "annie"}}
    Slugs <- MCSlugs
    Aliases <- MCAliases
    Client = TRUE
    Thresholds = {0, 1, 2}
INVARIANTS
    PagesKept
    GraphSound
    FairScore
    AnswersAgree
CHECK_DEADLOCK FALSE
