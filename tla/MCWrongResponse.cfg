CONSTANTS
    Calls = {c1, c2}
    Wsis = {w1, w2}
    IdSpace = 4
    Authenticator = FALSE
    AuthHeader = FALSE
    Fragmented = FALSE
    Reliable = TRUE
    Creds = Creds
    NoCall = NoCall
    NoWsi = NoWsi
    Garbled = Garbled
    c1 = c1 c2 = c2 w1 = w1 w2 = w2
SPECIFICATION Spec
SYMMETRY Symmetry
INVARIANT OwnResponse
