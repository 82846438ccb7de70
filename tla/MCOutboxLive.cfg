SPECIFICATION FairSpec
CONSTANTS
    Me = Me
    NoOwner = NoOwner
    NoItem = NoItem
    Items = {i1}
    Workers = {w1}
    MaxAttempts = 2
    StoreMayFail = FALSE
PROPERTIES
    QueuedResolves
    ComposerReopens
