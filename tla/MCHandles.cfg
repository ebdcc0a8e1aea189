CONSTANTS
    Threads = {t1, t2}
    Files = {f1, f2}
    Paths = {Root, p1, p2}
    Objects = {r, o1, o2}
    Fds = {3, 4}
    Ops = {"open", "create", "release", "write"}
    Reliable = FALSE
    LocalChanges = TRUE
    U32 = 16
    U64 = 256
    Devices = {5}
    MaxQueue = 2
    MaxFailures = 2
    MaxSessions = 1
    Root = Root
    NoFile = NoFile
    NoObject = NoObject
    NoThread = NoThread
    NoResp = NoResp
    Empty = Empty
    Dot = Dot
    DotDot = DotDot
    t1 = t1 t2 = t2 f1 = f1 f2 = f2 p1 = p1 p2 = p2 r = r o1 = o1 o2 = o2
SPECIFICATION Spec
SYMMETRY Symmetry
CHECK_DEADLOCK FALSE
INVARIANTS TypeOK HandleMeansFile RequestReachesFile LeakBounded
