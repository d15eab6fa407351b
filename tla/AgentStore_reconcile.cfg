\* A command and a daemon reconcile and compact while hooks write, the server
\* ends and the power is lost.
SPECIFICATION FairSpec
CONSTANTS
    Pane = {p1}
    Dir = {d1}
    Pid = {q1}
    NoPid = NoPid
    Hook = Hook
    Daemons = {dm}
    Clis = {c1}
    Resurrectors = {}
    Free = Free
    Twins = {}
    MaxBoot = 2
    MaxWrites = 2
    MaxFailures = 0
    MaxLosses = 1
INVARIANTS
    CompactedMeansMoved
PROPERTIES
    FormerNotPruned
    EventuallyCompacted
CHECK_DEADLOCK FALSE
