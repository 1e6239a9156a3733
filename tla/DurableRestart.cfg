CONSTANTS
  Runs = {r1}
  StepCount = 3
  NoFile = NoFile
  Blank = Blank
  Torn = Torn
  MaxCrashes = 2
  MaxPutFaults = 2
  MaxReadFaults = 0
  MaxEffects = 6
SPECIFICATION Spec
INVARIANTS AnsweredIsOnFile RepeatsBounded
PROPERTY RemembersSteps
