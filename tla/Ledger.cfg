\* One run's stream beside a failing file operation, a crash, overlapping
\* creations, a deletion and a bundle of the run's name, under fair scheduling.
SPECIFICATION FairSpec
CONSTANTS
    Runs = {r1}
    StreamKinds <- RunKinds
    Imported = {r1}
    MaxBatch = 2
    MaxEvents = 3
    MaxCreates = 2
    MaxFaults = 1
    MaxCrashes = 1
INVARIANTS
    NothingLost
    NumberedInOrder
    CountedIsLogged
PROPERTIES
    BufferDrains
    OrphansSettle
CHECK_DEADLOCK FALSE
