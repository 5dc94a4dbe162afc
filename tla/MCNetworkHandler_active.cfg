\* An active adapter may stay without a client.
SPECIFICATION TransmissionSpec
CONSTANTS
    Macs <- MCMacs
    Addresses <- MCAddresses
    Rest <- MCRest
    Fetches <- MCFetches
    CommandLines <- MCRightOnly
    MaxTries = 2
    JoinMayThrow = FALSE
    MaxChanges = 3
INVARIANTS
    ClientForEachActiveAdapter
