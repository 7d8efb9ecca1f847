SPECIFICATION FilesSpec
CONSTANTS
    Proc = {p0, p1}
    NoProc = NoProc
    BSIZE = 2
    NDIRECT = 1
    FSSIZE = 23
    NINODES = 5
    IPB = 4
    NLOG = 1
    MAXOPBLOCKS = 6
    UINT = 16
    DIRENT = 1
    Sources <- MCSources
    File <- MCFile
    IpOf <- MCIpOf
    Readable = {"a"}
    Writable = {"a", "b"}
    Removable = {2}
    Lengths = {5}
SYMMETRY Symmetry
INVARIANTS BlocksAccounted InodeSaved NoPanic
PROPERTY FilesAreFlat
