CONSTANTS
  MaxVersion = 1
  MaxGo = 2
  MaxInstall = 2
  Faults = {"read", "write", "unlink"}
SPECIFICATION Spec
PROPERTIES CancelWins PartGone DismissalKept NeverStranded
INVARIANT OnlyVerifiedRuns
