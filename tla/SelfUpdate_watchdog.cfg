\* A router with flock, and a panel that goes down.
SPECIFICATION FairSpec
CONSTANTS
  Downloads = {"d1"}
  Passing = {"old", "new"}
  Requests = {"check"}
  Faults = {"power", "panel"}
  Flock = TRUE
  Procd = FALSE
PROPERTY WatchdogStartsPanel
