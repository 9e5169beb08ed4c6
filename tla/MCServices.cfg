SPECIFICATION ServicesSpec
CONSTANTS
  b1 = b1
  b2 = b2
  Builds = {b1, b2}
  Chunks <- MCChunks
  Names = {n1, n2}
  OldApp = OldApp
  NoFile = NoFile
  None = None
  MaxPushes = 2
  MaxLosses = 1
  BootLimit = 3
  InstallsPerBoot = 1
  MaxInstalls = 2
  MaxResets = 5
  MaxFaults = 1
  good = good
  long = long
  quick = quick
  slow = slow
  hung = hung
  Versions = {good, quick, slow, hung}
  Hanging = {hung}
  CrashUptimes <- MCUptimes
  FirstBuild = good
  NoBackup = NoBackup
  HistoryLines = 24
  MaxUpdates = 2
  MaxManual = 1
  Utterances <- MCUtterances
  MaxInputs = 2
  MaxSessions = 2
INVARIANTS UndisturbedInstallIsPush NeverBricked  
PROPERTIES  BadSystemAbandoned HealthyUpgradeConfirmed CrashLoopEnds MicrophoneGivenBack
CHECK_DEADLOCK FALSE
