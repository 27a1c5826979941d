CONSTANTS
  Callers = {dog, h}
  Subs = {s1}
  Manual = manual
  Links = {"a", "b"}
  Vless = {"a", "b"}
  Lists <- TwoLists
  Ids <- FiveIds
  Strategy = "first"
  AutoApply = TRUE
  Modes = {"single"}
  Ops = {"refreshAll", "add"}
  Faults = {"apply", "feed", "panel"}
SPECIFICATION FairSpec
INVARIANTS
  IdleMeansApplied
PROPERTIES
  RefreshReachesXray
