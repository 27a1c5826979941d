\* One download at a time beside checks, cancels, confirms and an apply, under every fault
\* that interrupts something, on a router with flock.
SPECIFICATION FairSpec
CONSTANTS
  Downloads = {"d1"}
  Passing = {"old", "new"}
  Requests = {"check", "download", "cancel", "apply", "confirm"}
  Faults = {"power", "panel", "net", "disk", "cron"}
  Flock = TRUE
  Procd = FALSE
INVARIANTS VerifiedIsComplete
PROPERTIES PanelStartable PanelComesBack DownloadEnds
