SPECIFICATION Spec
CONSTANTS
    Nodes <- MCNodes
    MaxLabel = 1
    Edges <- MCEdges
    RescanWorkMultiplier = 1
    Regions = {"east", "west"}
    NoRegion = "none"
    RegionOf <- MCRegionOf
    Plans <- MCPlans
    Repeated = {1}
INVARIANTS
    RegionPartsAreExact
