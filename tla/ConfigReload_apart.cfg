\* One sidebar of a linked worktree; what is reported and what is not, apart.
SPECIFICATION FairSpec
CONSTANTS
    Global = Global
    d1 = d1
    own = own
    main = main
    None = None
    Place = {own, main}
    Dir = {d1}
    Search <- Linked
    MaxStamp = 3
    Scene <- Apart
INVARIANTS
    TypeOK
    StaleIsTold
PROPERTIES
    EventuallyReloaded
