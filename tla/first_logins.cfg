CONSTANTS
    s1 = s1
    s2 = s2
    s3 = s3
    e1 = e1
    e2 = e2
    Subject = {s1, s2, s3}
    Email = {e1, e2}
    NoEmail = NoEmail
    NoProc = NoProc
    MaxUser = 3
    Proc <- Slots
    Workload <- LoginWorkload
SPECIFICATION Spec
INVARIANTS TakenOverIsClean OneSubjectPerAccount NoDeadlock
PROPERTIES VerifiedNeverPurged
