CONSTANTS
    Calls = {c1, c2}
    Wsis = {w1}
    IdSpace = 4
    Authenticator = TRUE
    AuthHeader = FALSE
    Fragmented = TRUE
    Reliable = FALSE
    Creds = Creds
    NoCall = NoCall
    NoWsi = NoWsi
    Garbled = Garbled
    c1 = c1 c2 = c2 w1 = w1
SPECIFICATION FairSpec
INVARIANTS OwnResponse UniqueIds
PROPERTIES ImplementsRpc PerformReturns
