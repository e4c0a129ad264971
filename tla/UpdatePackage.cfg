SPECIFICATION UpdaterSpec
CONSTANTS
  update = update
  Updaters <- OneUpdate
  MaxVersion = 2
INVARIANTS
  ExecutableIsAgis
CHECK_DEADLOCK FALSE
