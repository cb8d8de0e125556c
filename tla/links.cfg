CONSTANTS
    r1 = r1
    r2 = r2
    r3 = r3
    c1 = c1
    c2 = c2
    x1 = x1
    u1 = u1
    ip1 = ip1
    ip2 = ip2
    NoUser = NoUser
    NoIP = NoIP
    Link = {r1, r2, r3}
    Source <- MCSource
    Consumer = {c1, c2}
    Eraser = {x1}
    Account <- MCAccount
    Erased <- MCErased
    MaxPerEmail = 1
    MaxPerIP = 2
    TTL = 1
    Window = 2
    MaxTime = 4
SPECIFICATION LoadSpec
INVARIANTS OneLiveLink SpentOnce EraserSeesAll FullWindowIssuesNothing
PROPERTIES KeepsContract AllEnd
