SPECIFICATION Spec
CONSTANTS
  TablesOf <- MCTablesOf
  FirstMetric = "votes"
  ValueColumns <- MCValueColumns
  RowValues = {1, 2, 3, 4}
  StoredRows <- MCStoredRows
  OtherRows <- MCOtherRows
  Summary <- MCSummary
  BatchSizes = {1, 2, 4}
  ErrorBytes = 800
  FooterBytes = 10
  GroupRows = 2
  MaxReads = 3
  MaxWrites = 1
INVARIANTS
  ReadsAreWhole
PROPERTIES
  RefusalsAreJustified
  OneSetOfFrames
