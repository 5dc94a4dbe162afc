\* The code's own numbers, in seconds; three announcements in a row may be lost.
SPECIFICATION FairSpec
CONSTANTS
    Interval = 20
    Timeout = 90
    MaxPause = 1
    MaxDelay = 1
    MaxLost = 3
    Settings <- MCSettings
    MaxSet = 1
    MaxBack = 30
INVARIANTS
    NoFalseSuspicion
    DeadIsDetected
PROPERTIES
    HeardAgain
