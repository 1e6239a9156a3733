\* One run, started by the renderer or by a poll, in a session that is deleted.
SPECIFICATION FairSpec
CONSTANTS
    Runs = {r1}
    Sends = {k1}
    Polls = {p1}
    None = None
    MaxCrashes = 1
    MaxLost = 1
INVARIANTS
    TypeOK
    NeverAhead
    RestsCurrent
PROPERTIES
    CommandAnswered
    IntentBecomesRun
CHECK_DEADLOCK FALSE
