SPECIFICATION PatientFair
CONSTANTS
    App = App
    NoThread = NoThread
    MaxTimeout = 2
    BgThreads = {b1, b2}
    CtThreads = {}
INVARIANT PatientInv
PROPERTIES CallsReturn HaltEndsRun RefinesRun
