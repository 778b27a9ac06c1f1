SPECIFICATION FairSpec
CONSTANTS
    Users = {alice, bob}
    None = None
    MaxMessages = 1
    MaxKills = 0
PROPERTY PurgedAfterRead
CHECK_DEADLOCK FALSE
