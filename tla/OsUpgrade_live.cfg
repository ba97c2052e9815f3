SPECIFICATION LiveSpec
CONSTANTS
  Kinds = {"refresh", "hop"}
  Buttons = {"reboot"}
  StopClasses = {"network"}
  LateStart = {FALSE, TRUE}
  MaxFaults = 1
  MaxClicks = 1
  MaxBoots = 2
  MaxAttempts = 4
  MaxVerifyAttempts = 2
  MaxUnwindAttempts = 2
  AutoRecoverTries = 0
  AutoRecoverWave = 1
CHECK_DEADLOCK FALSE
PROPERTIES ComesToRest 
