SPECIFICATION ProfilesSpec
CONSTANTS
  user = user
  work = work
  Commands <- OneUser
  Named <- OneProfile
  Unset = Unset
  MaxCommands = 2
INVARIANTS
  ProfilesIsolated
CHECK_DEADLOCK FALSE
