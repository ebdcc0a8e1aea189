CONSTANTS
    Calls = {c1}
    Wsis = {w1, w2}
    IdSpace = 5
    Authenticator = TRUE
    AuthHeader = FALSE
    Fragmented = FALSE
    Reliable = TRUE
    Creds = Creds
    NoCall = NoCall
    NoWsi = NoWsi
    Garbled = Garbled
    c1 = c1 w1 = w1 w2 = w2
SPECIFICATION Spec
PROPERTY RefusalHarmless
