CONSTANTS
    Calls = {c1, c2}
    Wsis = {w1, w2}
    IdSpace = 3
    Authenticator = TRUE
    AuthHeader = TRUE
    Fragmented = TRUE
    Reliable = TRUE
    Creds = Creds
    NoCall = NoCall
    NoWsi = NoWsi
    Garbled = Garbled
    c1 = c1 c2 = c2 w1 = w1 w2 = w2
SPECIFICATION FairSpec
INVARIANTS TypeOK NoOrphanedWaiter PromiseUnsatisfied NoLostWakeup AtMostOnce NoStaleShutdown
PROPERTIES QueueDrains ShutdownCompletes
