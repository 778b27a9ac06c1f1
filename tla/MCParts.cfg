CONSTANTS
    \* RelayAdmission
    store = store  skewed = skewed  sealed = sealed  forward = forward
    fetch = fetch  ackReq = ackReq  bad = bad  purge = purge
    unsigned = unsigned
    alice = alice  n1 = n1  n2 = n2  n3 = n3
    Handlers = {t1, t2}
    Reqs = {store, skewed, sealed, forward, fetch, ackReq, bad, purge, unsigned}
    Fps = {alice}
    NonceStrings = {n1, n2, n3}
    KindOf <- MCKindOf
    FpOf <- MCFpOf
    NonceOf <- MCNonceOf
    StampOf <- MCStampOf
    Signed <- MCSigned
    Maced <- MCMaced
    Eligible <- MCEligible
    Certified <- MCCertified
    Tolerance = 1
    MaxNonces = 2
    MaxClock = 5
    MaxDeliveries = 4
    MaxCrashes = 1
    \* Federation
    r1 = r1
    r2 = r2
    Relays <- MCRelays
    Nids = {n1}
    Unknown = Unknown
    Configured <- MCConfigured
    AllowRelay <- MCAllowRelay
    SharedSecret = TRUE
    GossipInterval = 2
    RouteTtl = 3
    PeerTimeout = 3
    ChallengeTtl = 1
    MaxHops = 2
    ChannelCap = 1
    MaxFedClock = 4
    MaxInputs = 3
    \* ClientHome
    Procs = {p1, p2}
    People = {ann, bea}
    Absent = Absent
    Torn = Torn
    MaxPid = 3
    MaxHomeKills = 1
    \* PeerManager
    Remotes = {q1, q2}
    NoInfo = NoInfo
    MaxPeers = 1
    MaxPending = 2
    MaxQueued = 4
    \* RateLimits
    Sources = {s1, s2, s3}
    NoBucket = NoBucket
    RatePerWindow = 2
    Window = 2
    MaxBuckets = 2
    LimiterKeep = 3
    MaxRateClock = 4
    \* PinCache
    Pinners = {w1, w2}
    PinNames = {k1}
    Addresses = {a1, a2}
    SeedCerts <- MCSeedCerts
    TrustedDomains <- MCTrustedDomains
    TrustedIssuers = {lets}
    lets = lets
    other = other
    NoPin = NoPin
    TornPins = TornPins
    MaxPinKills = 1
    \* CertCache
    Threads = {h1, h2}
    Prints = {g1, g2, g3}
    NoCert = NoCert
    CacheMax = 2
    MaxInstant = 9
    \* BotLog
    Clients = {b1, b2}
    NoLog = NoLog
    MaxFailures = 2
    Suspect = 1
    LogLines = 2
    MaxRotated = 2
    MaxLines = 8
    \* Handshake
    NonceSpace = 7
    NonceLimit = 4
    Attempts = 3
    HelloBits = 3
    MinBits = 2
    BitsLimit = 4
    Challenges = {c1, c2}
    c1 = c1
    c2 = c2
    NoChallenge = none
    none = none
    NoMessage = NoMessage
    Zeros <- MCZeros
    \* Braid
    Keys <- MCKeys
    ChunkSize = 2
    \* Padding
    ByteValues = 4
    Buckets = {4, 8, 16, 32}
    \* BootstrapIdentity
    GivenId = GivenId
    NoId = NoId
    TornKey = TornKey
    MaxStarts = 5
SPECIFICATION PartsSpec
SYMMETRY HandlerSymmetry
INVARIANTS
    AdmissionTypeOK AdmittedOnce GuardBounded
    FedTypeOK SweptEveryRound OneProofPerChallenge
    HomeTypeOK OverlapOnlyAfterRace IdentityUsable BooksKept
    PeerTablesBounded RateHeld LimitersBounded PinKept SeedPinsTrusted
    LatestLinesKept HonestSidesAgree BraidRebuildsKey MessageSurvivesPadding
PROPERTIES QueueKept EvictsLeastRecent StableIdentity
CHECK_DEADLOCK FALSE
