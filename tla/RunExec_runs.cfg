\* One run with every combination of options; the processes may be killed.
SPECIFICATION FairSpec
CONSTANTS
    Code = {ok, err}
    Failure = err
    TimedOut = TimedOut
    None = None
    MaxLines = 2
    BadLines = {0, 1}
INVARIANTS
    TypeOK
    OutputComplete
    CodeTruthful
    NothingLeft
PROPERTIES
    ImplementsPromise
    Returns
CHECK_DEADLOCK FALSE
