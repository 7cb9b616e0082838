SPECIFICATION Spec
CONSTANTS
  Devices = {d1, d2}
  Calls = {c1, c2}
  MaxSaves = 2
  NoDevice = NoDevice
  RuleFields = {"adjustment"}
SYMMETRY Symmetry
INVARIANTS TypeOK VersionNamesContents WaitIsForOne
PROPERTY OnlyWhatWasMeant
CHECK_DEADLOCK FALSE
