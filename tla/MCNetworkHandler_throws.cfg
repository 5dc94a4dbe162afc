\* An adapter that is not ready when its client joins the group ends a daemon that
\* was started with a right command line.
SPECIFICATION TransmissionSpec
CONSTANTS
    Macs <- MCMacs
    Addresses <- MCAddresses
    Rest <- MCRest
    Fetches <- MCFetches
    CommandLines <- MCRightOnly
    MaxTries = 2
    JoinMayThrow = TRUE
    MaxChanges = 1
INVARIANTS
    NotReadyIsTolerated
\* The daemon stops when an exception leaves main.
CHECK_DEADLOCK FALSE
