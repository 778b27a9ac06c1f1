SPECIFICATION FairSpec
CONSTANTS
    Users = {alice, bob}
    None = None
    MaxMessages = 3
    MaxKills = 1
INVARIANTS TypeOK ReadInOrderOnce MissedOnlyIfUpset
PROPERTY ToldIsRead
CHECK_DEADLOCK FALSE
