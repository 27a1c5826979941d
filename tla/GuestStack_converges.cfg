CONSTANTS
  Handlers = {h1}
  Dog = dog
  Configs = {c1}
  Good = {c1}
  None = none
  Torn = torn
  Ops = {"apply"}
  Jobs = {"watchdog", "guard", "cron", "startup"}
  Faults = {"xray", "panel", "reboot", "link", "disconnect"}
  FailOpenEnabled = TRUE
  RestoreOnRecovery = TRUE
  RefreshOnOutage = FALSE
  ObservatoryOn = TRUE
  CachedAlive = FALSE
SPECIFICATION FairSpec
PROPERTIES
  GuestsRecover
  GuestsGoDirect
