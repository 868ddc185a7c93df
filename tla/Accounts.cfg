SPECIFICATION Spec
CONSTANTS
    reg1 = reg1
    reg2 = reg2
    log1 = log1
    log2 = log2
    sub = sub
    get = get
    l1 = l1
    l2 = l2
    w1 = w1
    w2 = w2
    Requests <- SixRequests
    Logins = {l1, l2}
    Passwords = {w1, w2}
    Nobody = Nobody
    MayAsk <- Script
CHECK_DEADLOCK FALSE
INVARIANTS
    TypeOK
    RegisteredCanLogin
    TasksStayWithOwner
PROPERTY
    DirectorySpec
