CONSTANTS
  Runs = {r1, r2}
  StepCount = 1
  NoFile = NoFile
  Blank = Blank
  Torn = Torn
  MaxCrashes = 1
  MaxPutFaults = 1
  MaxReadFaults = 1
  MaxEffects = 2
SPECIFICATION Spec
INVARIANT FileTellsOfSteps
