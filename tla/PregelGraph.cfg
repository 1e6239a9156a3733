\* A graph with a join, a loop and a question, paused before one node and after another.
SPECIFICATION Spec
CONSTANTS
    a = a
    b = b
    c = c
    d = d
    e = e
    f = f
    Nodes = {a, b, c, d, e, f}
    Start = start
    Edges <- LoopEdges
    Joins <- LoopJoins
    Choices <- LoopChoices
    Asks <- LoopAsks
    Throwers = {b}
    PauseBefore = {e}
    PauseAfter = {f}
    RecursionLimit = 7
    Nobody = nobody
    Unnamed = unnamed
    NoCheckpoint = NoCheckpoint
    MaxInvokes = 4
INVARIANTS
    RunsWhatIsOwed
    EdgesFollowed
CHECK_DEADLOCK FALSE
