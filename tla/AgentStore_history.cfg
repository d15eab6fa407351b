\* Hooks and one resurrect across the restart of a server within one second,
\* with records of an older version, whose boot id is a start time only, and
\* with a killed process or a failed file operation.
SPECIFICATION Spec
CONSTANTS
    Pane = {p1, p2}
    Dir = {d1}
    Pid = {q1, q2}
    NoPid = NoPid
    Hook = Hook
    Daemons = {}
    Clis = {}
    Resurrectors = {r1}
    Free = Free
    Twins = {2}
    MaxBoot = 2
    MaxWrites = 2
    MaxFailures = 1
    MaxLosses = 0
SYMMETRY SymmetryPane
INVARIANTS
    TypeOK
    HistoryKept
    HookCompactsEnded
    NeverUndercounts
PROPERTIES
    ConsumesOnlyPlanned
CHECK_DEADLOCK FALSE
