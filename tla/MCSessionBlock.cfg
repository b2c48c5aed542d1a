CONSTANTS
    Client = client
    None = None
    s1 = s1  s2 = s2
    e1 = e1  e2 = e2
    h1 = h1  h2 = h2
    Servers = {s1, s2}
    Eps = {e1, e2}
    Worlds <- Pipelined
    MaxReq = 3
SPECIFICATION Spec
INVARIANT OneBlockPoint
CHECK_DEADLOCK FALSE
