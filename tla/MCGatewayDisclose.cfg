SPECIFICATION Spec
CONSTANTS
    a = a
    b = b
    z = z
    Empty = Empty
    None = None
    t1 = t1
    t2 = t2
    t3 = t3
    o1 = o1
    o2 = o2
    k1 = k1
    k2 = k2
    u1 = u1
    u2 = u2
    alpha = alpha
    beta = beta
    c1 = c1
    c2 = c2
    Label <- MCLabel
    Value <- MCValue
    Token <- MCToken
    Org = {o1, o2}
    Cred = {k1, k2}
    Url = {u1, u2}
    Name = {alpha, beta}
    Digest <- MCDigest
    ParamKey <- MCParamKey
    MaxFormBody = 2
    OddLabel <- MCOddLabel
    PathEscape <- MCPathEscape
    UrlParams <- MCUrlParams
    UrlUser <- MCUrlUser
    Store <- MCStore
    Conn = {c1}
    Deployments <- MCDeployments
    Requests <- MCRequests
INVARIANTS
    ToldOnlyIfDisclosed
CHECK_DEADLOCK FALSE
