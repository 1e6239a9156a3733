CONSTANTS
  Runs = {r1, r2}
  StepCount = 1
  NoFile = NoFile
  Blank = Blank
  Torn = Torn
  MaxCrashes = 1
  MaxPutFaults = 0
  MaxReadFaults = 0
  MaxEffects = 2
SPECIFICATION Spec
PROPERTY CompletedNotRepeated
