CONSTANTS
  Callers = {h}
  Subs = {s1}
  Manual = manual
  Links = {"a", "t"}
  Vless = {"a"}
  Lists <- MixedLists
  Ids <- SixIds
  Strategy = "keep"
  AutoApply = TRUE
  Modes = {"multi"}
  Ops = {"refresh", "add", "deleteSub", "deleteNode", "manual", "select", "apply"}
  Faults = {"fetch", "feed"}
SPECIFICATION Spec
INVARIANTS
  TypeOK
  ActiveIsListed
  ApplyUsesSelection
PROPERTIES
  OthersSurvive
