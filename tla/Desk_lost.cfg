SPECIFICATION Spec
CONSTANTS
  Devices = {d1, d2}
  Calls = {c1}
  MaxSaves = 2
  NoDevice = NoDevice
  RuleFields = {"adjustment"}
SYMMETRY Symmetry
PROPERTY NoBlindOverwrite
CHECK_DEADLOCK FALSE
