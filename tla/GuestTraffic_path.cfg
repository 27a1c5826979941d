CONSTANTS
  Runners = {p1, p2}
  Sites = {"site"}
  TableOrder <- UdpOnly
  MaxHooks = 2
  Faults = {"cut", "lock", "firmware", "reboot"}
  Blank = "blank"
  Texts <- SomeTexts
  Submitted <- SomeRoutings
  Selections <- SomeSelections
  NoRules = none
SPECIFICATION TrafficSpec
SYMMETRY RunnerSymmetry
INVARIANTS
  TypeOK
  TeardownFrees
  RulesRepair
  NoHalfRedirect
  PrivateStaysLocal
  PreviewIsBuilt
  NoRuleIsLost
