SPECIFICATION Spec
CONSTANTS
    Calls = {1, 2}
    Metrics = {"area", "cuts"}
    Layouts <- MCLayouts
    Overlapping = FALSE
INVARIANTS
    TablesAreReadable
PROPERTIES
    NamedTablesAreKept
    FailedMergeChangesNothing
CHECK_DEADLOCK FALSE
