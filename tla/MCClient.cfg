CONSTANTS
    MaxMessages = 4
    MaxFragments = 2
    MaxConnects = 3
    ServiceLines <- MCServiceLines
    ProviderLines <- MCProviderLines
    Tokens = {"", "env"}
    Directories = {".", "x"}
    Number <- MCNumber
    Url <- MCUrl
    Getopt <- MCGetopt
SPECIFICATION Spec
CHECK_DEADLOCK FALSE
INVARIANTS TypeOK RunsAsAsked ConnectsAsAsked
PROPERTIES ImplementsResponder LossEndsProvider InterruptEnds SignalNoticed
