\* Every scenario of the two families, at most two attempts per call of the model, three
\* iterations, and one run cut short or repeated.
SPECIFICATION Spec
CONSTANTS
    Graph <- MCGraph
    Days = 90
    MaxRows = 2000000000
    Templates <- MCTemplates
    Authored <- MCAuthored
    Batches <- MCBatches
    Proposals <- MCProposals
    MaxRepairs = 1
    MaxIterations = 3
    MaxRuns = 2
INVARIANTS
    SamplerTrustsLint
    ArtefactsAgree
    LoopConverges
PROPERTIES
    SpecsGrow
CHECK_DEADLOCK FALSE
