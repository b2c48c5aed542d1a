\* Every form of message, in every way recv can cut it up; positions and
\* capacities count tokens.
CONSTANTS
    Letters = {"GET", "POST", "HEAD", "PUT", "DELETE", "CONNECT", "BREW", "http", "Host", "Server", "Long",
               "Content-Length", "content-length", "Transfer-Encoding", "a", "b", "T"}
    LongNames = {"Long"}
    HostNames = {"h"}
    Val <- MCVal
    Paths = {"/p"}
    Methods <- MCMethods
    MaxHandlers = 6
    InitCap = 4
    Messages <- MCMessages
    BufCap = 3
    HeaderMax = 40
    ChunkMax = 6
    CopyMax = 3
SPECIFICATION Spec
INVARIANTS TypeOK ForwardsPrefix Delivered RightServer
PROPERTY MessageEnds
