\* Two updates of the bot and a message of another channel.
SPECIFICATION FairSpec
CONSTANTS
    Posts = {m1}
    MaxUpdates = 2
    MaxCursor = 2
    MaxInbox = 2
    MaxIntents = 2
    MaxNews = 2
    MaxForgets = 1
    MaxRestarts = 1
INVARIANTS
    NothingUntold
    OncePerMemory
    ConfirmedWasHandled
PROPERTY
    EveryUpdateAttempted
CHECK_DEADLOCK FALSE
