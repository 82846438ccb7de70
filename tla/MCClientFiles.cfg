SPECIFICATION Spec
CONSTANTS
    None = None
    Anonymous = Anonymous
    Processes = {p1, p2}
    Tables <- MCTables
    Indexed <- MCIndexed
    Owners = {a}
    Ids = {i1}
    Identities = {k1}
SYMMETRY Symmetry
INVARIANTS
    RowsKept
    OwnersKept
    OpenSucceeds
    ServedMigrated
    IdentityKept
