SPECIFICATION FairSpec
CONSTANTS
    Cleaner = Cleaner  NoTask = NoTask
    m1 = m1  m2 = m2  m3 = m3  m4 = m4
    alice = alice  bob = bob  dave = dave  carol = carol
    Handlers = {h1}
    Msgs = {m1}
    Recipients = {carol}
    Senders = {alice, bob, dave}
    Seqs = {1, 2}
    RecipientOf <- MCRecipientOf
    SenderOf <- MCSenderOf
    SeqOf <- MCSeqOf
    MaxMailbox = 2
    MaxPerSender = 1
    TTL = 1
    MaxClock = 1
    MaxCrashes = 0
    MaxDbErrors = 0
PROPERTY ExpiredNotServed
CHECK_DEADLOCK FALSE
