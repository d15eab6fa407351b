\* One pane that may be dropped or closed, an accept thread that may end, changes
\* of both kinds, a failed query: any two of these.  One snapshot is too large.
SPECIFICATION FairSpec
CONSTANTS
    Client = {c1}
    Blank = Blank
    Eof = Eof
    Unsendable <- TooLarge
    MaxTmuxChanges = 1
    MaxWorkChanges = 1
    MaxFailures = 1
    MaxQueryErrors = 1
    MaxEvents = 2
INVARIANTS
    TypeOK
    RegisteredUpToDate
    NoLostWakeUp
    NoSnapshotLeft
PROPERTIES
    ImplementsFeed
    PromptlyCurrent
    CurrentByPolling
CHECK_DEADLOCK FALSE
