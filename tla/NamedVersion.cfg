CONSTANTS
  MaxVersion = 2
  MaxGo = 1
  MaxInstall = 1
  Faults = {}
SPECIFICATION Spec
INVARIANT NamedVersion
