SPECIFICATION Spec
CONSTANTS
    alice = alice
    bob = bob
    carol = carol
    hi = hi
    yo = yo
    k1 = k1
    h1 = h1
    h2 = h2
    Blank = Blank
    None = None
    Users = {alice, bob, carol}
    Texts = {hi, yo}
    Keys = {k1}
    Bannable = {bob}
    Handlers = {h1, h2}
    Requests <- MCRequests
    MaxAttempts = 2
    MaxSeq = 2
SYMMETRY HandlerSymmetry
INVARIANTS
    Gapless
    RepliesSound
    ReplayConsistent
    AlreadyExistsSound
    PushAfterCommit
    NeverStuck
PROPERTIES
    LogSpec
    AttemptsEnd
