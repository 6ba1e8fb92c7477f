SPECIFICATION QuietFair
CONSTANTS
    App = App
    NoThread = NoThread
    MaxTimeout = 2
    BgThreads = {b1}
    CtThreads = {c1}
PROPERTY ControlsReleased
CHECK_DEADLOCK FALSE
