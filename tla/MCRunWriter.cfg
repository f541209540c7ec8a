SPECIFICATION Spec
CONSTANTS
    Writers = {w1, w2}
    Tables = {cuts, votes}
    Nested = {votes}
    BatchRows = 2
    DistrictSets <- MCDistrictSets
    Repetitions = {0, 2}
    UniqueCounts <- MCUniqueCounts
    None = None
    MaxOffers = 3
INVARIANTS
    PublishedIsWhole
PROPERTY
    PublishesAtomically
CHECK_DEADLOCK FALSE
