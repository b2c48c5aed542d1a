\* Two clients and two server connections share three numbers with the
\* listening socket: they run out, and each is used several times.
CONSTANTS
    Fds = {3, 4, 5}
    c1 = c1  c2 = c2
    v1 = v1  v2 = v2
    Clients = {c1, c2}
    Servers = {v1, v2}
    None = None
SYMMETRY Symmetry
SPECIFICATION Spec
INVARIANTS TypeOK TableMatchesKernel HandlerIsOwners OnlyFailedLeak NoForgottenClient
PROPERTY TakenByStale
\* After the shutdown nothing happens any more.
CHECK_DEADLOCK FALSE
