SPECIFICATION Spec
CONSTANTS
    None = None
    Users = {u1}
    Tokens = {t1, t2}
    ClientIds = {c1, c2}
    Handlers = {h1, h2}
    Admins = {x1}
    TokenOwner <- MCTokenOwner
    Watchers <- MCWatchers
    Capacity = 1
    Healing = FALSE
    StoreMayFail = FALSE
SYMMETRY Symmetry
INVARIANTS
    ChannelsSound
    BanEndsStreams
    LastOneOutTells
