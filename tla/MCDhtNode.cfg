SPECIFICATION DhtSpec
CONSTANTS
    alice = alice  bob = bob
    Handlers = {h1, h2}
    Conn = h1
    Owner = alice
    Keys = {alice, bob}
    Nonces = {1, 2, 3, 4}
    Requests <- MCRequests
    MaxKeys = 1
    StoreTTL = 1
    KeepNonces = 1
    MaxClock = 3
    MaxRequests = 6
    MaxDelivered = 4
    MaxAttempts = 3
    MaxCrashes = 1
    MaxDbErrors = 1
INVARIANTS TypeOK StoredOnce SeenLogged RefusedOnlyAfterLapse
PROPERTIES SeqGrows ImplementsRegister
CHECK_DEADLOCK FALSE
