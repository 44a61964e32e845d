CONSTANTS
  Profiles = {p1, p2, p3}
  Installed = {p1, p2}
  Default = p1
  Protected = {p1}
  Standard = {p1}
  Switches = {c1, c2}
  Edits = {e1}
  None = None
  MaxFaults = 1
SPECIFICATION Spec
SYMMETRY Symmetry
INVARIANTS
  LockedStaysHidden
  SwitchesSettle
CHECK_DEADLOCK FALSE
