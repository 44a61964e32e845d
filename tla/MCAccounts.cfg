SPECIFICATION HouseholdSpec
CONSTANTS
  Requests = {r1, r2, r3, r4}
  Handlers = {"setup", "recovery", "invite", "inviting", "account", "login", "role", "disable", "profile", "gate"}
  Passwords = {pw}
  MaxUses = 1
  ProfileLimit = 2
  PublicMode = TRUE
  None = None
  Gone = Gone
SYMMETRY Symmetry
INVARIANTS TypeOK OneSetupOwner InviteUsesCounted AnOwnerCanSignIn PublicProfilesAreGuarded
CHECK_DEADLOCK FALSE
