SPECIFICATION HouseholdSpec
CONSTANTS
  Requests = {r1, r2, r3, r4}
  Handlers = {"setup", "recovery", "login", "disable", "profile", "switch", "gate", "maturity", "password"}
  Passwords = {pw}
  MaxUses = 1
  ProfileLimit = 2
  PublicMode = FALSE
  None = None
  Gone = Gone
SYMMETRY Symmetry
INVARIANTS ActiveProfilesExist
PROPERTY LimitHolds
CHECK_DEADLOCK FALSE
