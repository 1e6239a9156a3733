SPECIFICATION FairSpec
CONSTANTS
    Children = {c1, c2, c3}
    Limits = {1, 2}
    DefaultLimit = 2
    MaxDisposals = 1
INVARIANTS
    NobodyWaitsInVain
PROPERTIES
    GrantsWithinLimit
    StoppedStays
    ServedInLine
    ParkedProceeds
    DisposalEnds
