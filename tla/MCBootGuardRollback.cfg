SPECIFICATION GuardSpec
CONSTANTS
  good = good
  long = long
  quick = quick
  slow = slow
  hung = hung
  Versions = {good, quick}
  Hanging = {}
  CrashUptimes <- MCUptimes
  FirstBuild = good
  NoBackup = NoBackup
  HistoryLines = 12
  MaxUpdates = 1
  MaxManual = 1
PROPERTY RollbackRestoresProgram
CHECK_DEADLOCK FALSE
