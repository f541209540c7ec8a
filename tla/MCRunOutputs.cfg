SPECIFICATION Spec
CONSTANTS
    LargestSeed <- MCSeeds
    LargestBalance = 3
    Documents <- MCDocuments
    Files <- MCFiles
    Earlier <- MCEarlier
    MaxRuns = 2
    MaxEdits = 2
    Fresh <- MCFresh
    Followed <- MCFollowed
    Assignments <- MCAssignments
    Additions <- MCAdditions
    Targets <- MCTargets
INVARIANTS
    OutcomeTellsOutputs
    NamesTellTheRun
    WaitsForWhatIsWritten
    CanonicalStdoutIsQuiet
PROPERTY
    NothingLostToFailure
CHECK_DEADLOCK FALSE
