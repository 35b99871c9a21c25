SPECIFICATION Spec
CONSTANTS
    None = None
    Archetypes <- MCArchetypes
    Playbooks = {"build", "sell"}
    DeliverySlug <- MCDeliverySlug
    Sizes <- MCSizes
    Names = {"ann"}
    Configs <- MCConfigs
    Selectors <- MCSelectors
    Capacities = {1, None}
    MaxCalls = 3
    MaxTime = 2
INVARIANTS
    OrgSound
    CallsAccounted
PROPERTIES
    PastElementsKept
    BuildsUnlessClash
CHECK_DEADLOCK FALSE
