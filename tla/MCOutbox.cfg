SPECIFICATION Spec
CONSTANTS
    Me = Me
    NoOwner = NoOwner
    NoItem = NoItem
    Items = {i1}
    Workers = {w1, w2}
    MaxAttempts = 2
    StoreMayFail = TRUE
SYMMETRY Symmetry
INVARIANTS
    NoSilentLoss
    SentIsStored
PROPERTIES
    DeliverySpec
