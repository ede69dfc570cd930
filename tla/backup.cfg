SPECIFICATION BackupFairSpec
CONSTANTS
  Keys = {1, 2, 3, 4, 5}
  Workers = {w1}
  NoKey = NoKey
  MaxQueue = 2
  MaxKeep = 2
  Environment = {"disk", "db", "remove", "clock", "kill"}
  MaxEdits = 2
  MaxFaults = 1
  MaxDays = 1
INVARIANTS BackupTypeOK LastGoodKept RetentionHolds
PROPERTIES VerdictMatchesDisk DueBackupHappens
