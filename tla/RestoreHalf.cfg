SPECIFICATION BackupSpec
CONSTANTS
  db = db
  wal = wal
  Files <- ProfileFiles
  Guarded <- GuardedFiles
  NoFile = NoFile
  MaxWrites = 1
  MaxRestores = 1
INVARIANT RestoreIsAtomic
CHECK_DEADLOCK FALSE
