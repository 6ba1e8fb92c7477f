SPECIFICATION QuietSpec
CONSTANTS
    App = App
    NoThread = NoThread
    MaxTimeout = 2
    BgThreads = {b1, b2}
    CtThreads = {c1, c2}
SYMMETRY Symmetry
INVARIANTS Exclusive RunningIsReported StoppedMeansStopped OnlyWorkersExit
\* a run whose controls miss their wakeup never ends, and the caller waits for it
CHECK_DEADLOCK FALSE
