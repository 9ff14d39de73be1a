CONSTANTS
  MaxVersion = 1
  MaxGo = 1
  MaxInstall = 1
  Faults = {}
SPECIFICATION Spec
PROPERTY NeverForgotten
