CONSTANTS
  BootLimit = 3
  InstallsPerBoot = 2
  MaxInstalls = 2
  MaxResets = 1
  MaxFaults = 1
SPECIFICATION SlotsSpec
PROPERTY RunningImageUntouched
CHECK_DEADLOCK FALSE
