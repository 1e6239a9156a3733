\* The record when the terminal append of a run has returned.
SPECIFICATION Spec
CONSTANTS
    Runs = {r1}
    StreamKinds <- RunKinds
    Imported = {}
    MaxBatch = 3
    MaxEvents = 4
    MaxCreates = 1
    MaxFaults = 0
    MaxCrashes = 0
INVARIANT ReturnedIsSettled
CHECK_DEADLOCK FALSE
