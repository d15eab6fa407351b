\* Two merges into different targets, none of which has a worktree.
SPECIFICATION MergeSpec
CONSTANTS
    c1 = c1
    c2 = c2
    r1 = r1
    r2 = r2
    n1 = n1
    m1 = m1
    m2 = m2
    h1 = h1
    h2 = h2
    b1 = b1
    b2 = b2
    Handle = {h1, h2}
    Branch = {b1, b2}
    Base = {s1}
    None = None
    Creator = {}
    Remover = {m1, m2}
    Renamer = {}
    Merger = {m1, m2}
    Target = {main, parent}
    Into = {main, parent}
    Dirt = {{}}
    Free = Free
    Casts <- Merges
INVARIANTS
    MergedIntoTarget
CHECK_DEADLOCK FALSE
