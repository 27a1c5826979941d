CONSTANTS
  Handlers = {h1}
  Dog = dog
  Configs = {c1, bad}
  Good = {c1}
  None = none
  Torn = torn
  Ops = {"apply"}
  Jobs = {"watchdog", "guard"}
  Faults = {"link", "edit", "sysctl", "disk"}
  FailOpenEnabled = TRUE
  RestoreOnRecovery = TRUE
  RefreshOnOutage = TRUE
  ObservatoryOn = TRUE
  CachedAlive = FALSE
SPECIFICATION Spec
INVARIANTS
  TypeOK
  BlackHoleIsAttended
