\* Two resurrects at once.
SPECIFICATION Spec
CONSTANTS
    Pane = {p1}
    Dir = {d1}
    Pid = {q1}
    NoPid = NoPid
    Hook = Hook
    Daemons = {}
    Clis = {}
    Resurrectors = {r1, r2}
    Free = Free
    Twins = {}
    MaxBoot = 3
    MaxWrites = 3
    MaxFailures = 0
    MaxLosses = 0
INVARIANTS
    HistoryKept
CHECK_DEADLOCK FALSE
