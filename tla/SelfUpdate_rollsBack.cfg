\* A new version that fails its health check; two downloads that may overlap, also during the
\* update, and users who apply and roll back themselves.  Without flock: the lock is a directory.
SPECIFICATION FairSpec
CONSTANTS
  Downloads = {"d1", "d2"}
  Passing = {"old"}
  Requests = {"check", "download", "again", "apply", "rollback", "status"}
  Faults = {"net", "xray"}
  Flock = FALSE
  Procd = FALSE
INVARIANTS TypeOK WayBack
PROPERTIES PanelStartable FailedCheckRollsBack
