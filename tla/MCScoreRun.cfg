SPECIFICATION RunSpec
CONSTANTS
    Nodes <- MCNodes
    MaxLabel = 2
    Edges <- MCEdges
    RescanWorkMultiplier = 1
    Regions = {"east", "west"}
    NoRegion = "none"
    RegionOf <- MCRegionOf
    Populated <- MCPopulated
    HullReach <- MCHullReach
    Plans <- MCPlans
    Counts = {1, 2}
    Limits <- MCLimits
    Unlimited <- MCUnlimited
    BatchSize = 2
    ResyncInterval = 2
    MaxFrames = 3
    Tables = {cuts, votes}
    Nested = {votes}
    BatchRows = 2
    None = None
INVARIANTS
    WriterRefusesNothing
    PublishedMatchesFile
    MetricsAreExact
PROPERTY
    ScoresPlanByPlan
CHECK_DEADLOCK FALSE
