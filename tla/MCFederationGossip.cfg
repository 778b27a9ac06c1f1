CONSTANTS
    r1 = r1
    r2 = r2
    Relays <- MCRelays
    Nids = {n1}
    Unknown = Unknown
    Configured <- MCConfigured
    AllowRelay <- MCAllowRelay
    SharedSecret = TRUE
    GossipInterval = 2
    RouteTtl = 3
    PeerTimeout = 3
    ChallengeTtl = 1
    MaxHops = 2
    ChannelCap = 1
    MaxFedClock = 4
    MaxInputs = 3
SPECIFICATION FedFairSpec
PROPERTY GossipHeard
CHECK_DEADLOCK FALSE
