SPECIFICATION Spec
CONSTANTS
  Kinds = {"histogram", "categorical", "geometry"}
  CallerPanels = {"left"}
  OwnPanels = {"main", "panel"}
  AutoTicks = 3
  CategoryTicks = 2
  TickCounts = {0, 3}
  Groups = {{"limits", "ticks"}, {"aspect"}, {"tick_style"}, {"scale"}, {"label"}, {"frame"}, {"legend"}, {"axis_visibility"}}
  MaxSettings = 2
  MaxDirect = 1
  MaxBinds = 2
INVARIANTS
  ExplicitSettingsHold
  NothingIsLeftBehind
PROPERTIES
  NoticedChangesSurvive
CHECK_DEADLOCK FALSE
