SPECIFICATION Spec
CONSTANTS
  Kinds = {"hop"}
  Buttons = {"reboot", "resume", "takeover"}
  StopClasses = {"network"}
  LateStart = {FALSE}
  MaxFaults = 1
  MaxClicks = 2
  MaxBoots = 2
  MaxAttempts = 3
  MaxVerifyAttempts = 1
  MaxUnwindAttempts = 2
  AutoRecoverTries = 1
  AutoRecoverWave = 1
CHECK_DEADLOCK FALSE
INVARIANTS HopSound
PROPERTIES KeepsWithin HandsOff
