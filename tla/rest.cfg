SPECIFICATION Spec
CONSTANTS
    Conns = {c1, c2}
    NoConn = NoConn
    Files = {"f"}
    Dirs = {"d"}
    Handlers = {"writes", "bare", "later", "silent"}
    Parts = 2
    MaxRequests = 3
INVARIANTS TypeOK UploadIntact OwnAnswer NeverLeft ArchiveUsedOnce
PROPERTY OwnFiles
CONSTRAINT Bound
VIEW View
SYMMETRY Symmetry
CHECK_DEADLOCK FALSE
