CONSTANTS
    Ops = {"unknown", "access", "getattr", "readlink", "symlink", "link", "rename", "chmod", "chown", "truncate", "fsync", "utimens", "open", "mknod", "create", "release", "unlink", "read", "write", "mkdir", "readdir", "rmdir", "statfs", "getcreds"}
    Ids <- MCIds
    Values <- MCValues
    Base <- MCBase
    Errors <- MCErrors
    Extra <- MCExtra
    ServiceHost = "aarch64"
    ProviderHost = "x86_64"
SPECIFICATION Spec
INVARIANTS TypeOK ArgumentsArrive ResultArrives CutHarmless NoOverread OwnAnswer
