CONSTANTS
  Handlers = {h1}
  Dog = dog
  Configs = {c1, c2, bad}
  Good = {c1, c2}
  None = none
  Torn = torn
  Ops = {"apply", "restart"}
  Jobs = {"guard", "cron", "startup"}
  Faults = {"xray", "link", "edit", "disconnect"}
  FailOpenEnabled = FALSE
  RestoreOnRecovery = TRUE
  RefreshOnOutage = FALSE
  ObservatoryOn = TRUE
  CachedAlive = FALSE
SPECIFICATION FairSpec
INVARIANTS
  InstalledIsTested
  RunningIsInstalled
  RulesMatchXray
PROPERTIES
  GuardClosesHole
