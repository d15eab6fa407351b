\* A change that is reported and one that is not, together.
SPECIFICATION Spec
CONSTANTS
    Global = Global
    d1 = d1
    own = own
    main = main
    None = None
    Place = {own, main}
    Dir = {d1}
    Search <- Linked
    MaxStamp = 3
    Scene <- Mixed
INVARIANTS
    StaleIsTold
