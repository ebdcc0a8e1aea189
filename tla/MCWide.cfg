CONSTANTS
    Ops = {"write"}
    Ids <- MCIds
    Values <- MCValues
    Base <- MCBase
    Errors <- MCErrors
    Extra <- MCExtra
    ServiceHost = "aarch64"
    ProviderHost = "x86_64"
SPECIFICATION Spec
INVARIANT WideArgumentsArrive
