\* Creations, removals, a rename and merges into one target run together, and
\* one of them may be killed.
SPECIFICATION FairMergeSpec
CONSTANTS
    c1 = c1
    c2 = c2
    r1 = r1
    r2 = r2
    n1 = n1
    m1 = m1
    m2 = m2
    h1 = h1
    h2 = h2
    b1 = b1
    b2 = b2
    Handle = {h1, h2}
    Branch = {b1, b2}
    Base = {s1}
    None = None
    Creator = {c1, c2}
    Remover = {r1, r2, m1, m2}
    Renamer = {n1}
    Merger = {m1, m2}
    Target = {main, parent}
    Into = {main}
    Dirt = {{}, {"edited", "staged"}}
    Free = Free
    Casts <- Together
INVARIANTS
    TreesKept
    TrashRecorded
    RemovedMeansGone
    MetaKept
    MergeTypeOK
    MergedIntoTarget
    TargetClean
PROPERTIES
    CommandsEnd
CHECK_DEADLOCK FALSE
