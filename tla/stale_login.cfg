CONSTANTS
    s1 = s1
    s2 = s2
    s3 = s3
    n1 = n1
    o1 = o1
    r1 = r1
    r2 = r2
    a1 = a1
    a2 = a2
    w0 = w0
    w1 = w1
    b1 = b1
    b2 = b2
    f1 = f1
    f2 = f2
    c1 = c1
    c2 = c2
    v1 = v1
    v2 = v2
    x1 = x1
    x2 = x2
    Session = {s1, s2, s3, n1, o1}
    Named = {n1}
    Owner <- MCOwner
    NoSession = NoSession
    Request = {r1, r2}
    SessionTTL = 3
    IdleTTL = 2
    TouchInterval = 1
    MaxTime = 5
    Load <- OneChange
    Act = {a1, a2}
    Password = {w0, w1}
    NoPassword = NoPassword
    Issuer = FALSE
    AllowProtocolPasswords = FALSE
    Browser = {b1, b2}
    NoBrowser = NoBrowser
    Flow = {f1, f2}
    NoFlow = NoFlow
    Cli = {c1, c2}
    NoCli = NoCli
    Visit = {v1, v2}
    Swap = {x1, x2}
    CodeTTL = 0
    FlowTime = 1
    FlowLoad <- MCFlows
SYMMETRY Symmetric
SPECIFICATION SignInSpec
INVARIANT OldPasswordLeavesNothing
CHECK_DEADLOCK FALSE
