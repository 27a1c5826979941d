\* A check while a release is being downloaded.
SPECIFICATION Spec
CONSTANTS
  Downloads = {"d1"}
  Passing = {"old", "new"}
  Requests = {"check", "download"}
  Faults = {"net"}
  Flock = FALSE
  Procd = FALSE
INVARIANT NotOfferedTwice
