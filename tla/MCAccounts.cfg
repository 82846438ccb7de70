SPECIFICATION Spec
CONSTANTS
    alice = alice
    root = root
    None = None
    Old = Old
    Keys = {alice, root}
    Admin = root
    Devices = {d1, d2}
    KeyOf <- MCKeyOf
    Versions = 2
    MaxTries = 1
    MaxBans = 2
    MaxStarts = 2
INVARIANTS
    BanRevokes
    SomeoneGetsIn
    AdminsTold
    ServesReady
    NoDeadlock
PROPERTIES
    TokenLivesOn
    TokenLifeSpec
SYMMETRY DeviceSymmetry
CHECK_DEADLOCK FALSE
