CONSTANTS
  Handlers = {h1, h2}
  Main = main
  Cli = cli
  Settings = {"password", "completed", "paths", "legacy"}
  Plans <- FewPlans
  CliPlans <- FewCliPlans
  Overlap = {"restore", "cli"}
  Faults = {"crash", "disk"}
  None = {"none"}
  Missing = {"missing"}
  Empty = {"empty"}
  Torn = {"torn"}
SPECIFICATION Spec
SYMMETRY HandlerSymmetry
INVARIANTS
  TypeOK
  TornIsReported
CHECK_DEADLOCK FALSE
