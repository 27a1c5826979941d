CONSTANTS
  Handlers = {h1, h2}
  Main = main
  Cli = cli
  Settings = {"password", "completed", "paths", "legacy"}
  Plans <- AllPlans
  CliPlans <- AllCliPlans
  Overlap = {}
  Faults = {"crash", "disk"}
  None = {"none"}
  Missing = {"missing"}
  Empty = {"empty"}
  Torn = {"torn"}
  Browsers = {b}
SPECIFICATION PanelSpec
INVARIANTS
  DiskIsWhole
  ReturnedSurvives
  OwnPasswordEndsOnboarding
PROPERTIES
  ImplementsDurable
