SPECIFICATION Spec
CONSTANTS
    None = None
    Keys = {a}
    Logins = {l1, l2}
    Watchers = {w1, w2}
    Attempts = 2
    Buffer = 1
    MaxPolls = 1
SYMMETRY Symmetry
INVARIANTS
    SessionServed
    Agree
    FlagsAnswered
    PinsBounded
