SPECIFICATION Spec
CONSTANTS
  Columns <- MCColumns
  Rows = 2
  CellKinds <- MCCellKinds
  Primitives <- MCPrimitives
  CommandsOf <- MCCommandsOf
  FillOf <- MCFillOf
  Packages = {"xcolor", "colortbl", "siunitx", "latexcolors"}
  Commands = {"calc", "heat"}
  MacrosOf <- MCMacrosOf
  ColorNames = {"mine"}
  Engines = {"pdflatex"}
  PassOutcomes = {"failed", "hung"}
  Renderers = {"gs"}
  Dialects = {"tabular", "nicetabular"}
  IndexLists <- MCIndexLists
  RuleCommands = {"midrule"}
  Formats <- MCFormats
  HeaderGroups <- MCHeaderGroups
  Formatters <- MCFormatters
  Unfit <- MCUnfit
  Colors = {"yellow", "denim", "clear"}
  PlotKinds = {"seatsvotes", "points", "hull"}
  Elections <- MCElections
  LineLists <- MCLineLists
  Limits <- MCLimits
  Scales <- MCScales
  Precision = 10
  Whole = 1
  Topics <- MCTopics
  MaxCalls = 3
INVARIANTS
  TableStaysRenderable
  DialectsAgree
  DocumentIsLoadable
  SavedFilesAreCurrent
  PicturesAreAccurate
PROPERTIES
  RulesLandWhereAsked
CHECK_DEADLOCK FALSE
