SPECIFICATION Spec
CONSTANTS
    App = App
    NoThread = NoThread
    MaxTimeout = 2
    BgThreads = {b1, b2}
    CtThreads = {c1, c2}
SYMMETRY Symmetry
INVARIANT TypeOK
\* the caller's thread can end, and threads can wait for each other for ever
CHECK_DEADLOCK FALSE
