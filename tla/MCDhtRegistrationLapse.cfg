SPECIFICATION DhtSpec
CONSTANTS
    alice = alice  bob = bob
    Handlers = {conn}
    Conn = conn
    Owner = alice
    Keys = {alice}
    Nonces = {0, 1, 2}
    Requests = {}
    MaxKeys = 1
    StoreTTL = 2
    KeepNonces = 1
    MaxClock = 6
    MaxRequests = 8
    MaxDelivered = 0
    MaxAttempts = 4
    MaxCrashes = 0
    MaxDbErrors = 0
INVARIANT RegisterStored
CHECK_DEADLOCK FALSE
