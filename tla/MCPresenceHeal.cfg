SPECIFICATION FairSpec
CONSTANTS
    None = None
    Users = {u1}
    Tokens = {t1}
    ClientIds = {c1}
    Handlers = {h1}
    Admins = {x1}
    TokenOwner <- MCTokenOwner
    Watchers <- MCWatchers
    Capacity = 1
    Healing = TRUE
    StoreMayFail = TRUE
PROPERTY StalePresenceHeals
