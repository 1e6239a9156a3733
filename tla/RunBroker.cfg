\* A run with an intent, two approvals, a command, moving status and crashes.
SPECIFICATION Spec
CONSTANTS
    Runs = {r1}
    Sessions = {s1}
    Pagelets = {p1}
    IntentIds = {i1}
    ApprovalIds = {a1, a2}
    CommandIds = {c1}
    Statuses = {"running", "completed"}
    None = none
    HistoryLimit = 2
    MaxRunCursor = 1
    MaxTime = 0
    MaxFaults = 1
    MaxCursor = 3
INVARIANTS
    AnsweredIsSaved
    LogCursorsSound
    ReplayEndsInPresent
    HistoriesBounded
    LiveCommandsHaveRun
    ProjectionHistoryCurrent
PROPERTIES
    OutcomesFinal
SYMMETRY IdSymmetry
