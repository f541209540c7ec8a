SPECIFICATION Spec
CONSTANTS
  Whole = 2
  NodeCount = 4
  Edges <- MCEdges
  GraphData <- MCGraphData
  FrameData <- MCFrameData
  FrameRows <- MCFrameRows
  FrameCRS = "metres"
  Unusable = Unusable
  NoLabel = NoLabel
  Rows <- MCRows
  Registrations <- MCRegistrations
  OneCallPlans <- MCOneCallPlans
  OneCallArguments <- MCOneCallArguments
  References <- MCReferences
  PeopleColumn = "people"
  MaxEdits = 2
  Streams <- MCStreams
  Runs = {"scores"}
  PathComponent <- MCPathComponent
  Unstreamable = {"half"}
INVARIANTS
  ScoresFollowTheFormulas
  BothSidesAreTreatedAlike
  RelabelingsAreBest
  StreamedRunsAreReadable
PROPERTY
  ColumnsAreSnapshotted
