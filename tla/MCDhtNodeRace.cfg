SPECIFICATION FairSpec
CONSTANTS
    alice = alice  bob = bob
    Handlers = {h1, h2}
    Keys = {alice}
    Nonces = {1, 2}
    Requests <- RaceRequests
    MaxKeys = 2
    StoreTTL = 1
    KeepNonces = 1
    MaxClock = 1
    MaxRequests = 2
    MaxCrashes = 0
    MaxDbErrors = 0
PROPERTY SeqNeverDecreases
CHECK_DEADLOCK FALSE
