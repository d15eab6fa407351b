\* Two directories, two worktrees; Small says what may happen to them.
SPECIFICATION FairSpec
CONSTANTS
    p1 = p1
    p2 = p2
    None = None
    Path = {p1, p2}
    Root = {1, 2}
    MaxVersion = 2
    Scene <- Small
INVARIANTS
    TypeOK
    OwnStatus
    NoticedStaysKnown
    ChangesAnnounced
PROPERTIES
    EventuallyCurrent
