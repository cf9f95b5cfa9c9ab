SPECIFICATION Spec
CONSTANTS
    a = a
    b = b
    Empty = Empty
    None = None
    t1 = t1
    t2 = t2
    t3 = t3
    padded1 = padded1
    spaced = spaced
    o1 = o1
    k1 = k1
    k2 = k2
    u1 = u1
    u2 = u2
    relative = relative
    n1 = n1
    n2 = n2
    n3 = n3
    paddedName = paddedName
    Label = {"ns", "app"}
    Value = {a, b}
    Token = {t1, t2, t3}
    Org = {o1}
    Cred = {k1, k2}
    Url = {u1, u2}
    Name = {n1, n2, n3}
    Digest <- MCDigest
    Trim <- MCTrim
    Written <- MCWritten
    WrittenName <- MCWrittenName
    BuiltinLoki <- MCBuiltinLoki
    BuiltinEnforcement <- MCBuiltinEnforcement
    BuiltinDefaults <- MCBuiltinDefaults
    Files <- MCFiles
INVARIANTS
    TypeOK
    StartsOnlySound
    FirstFaultNamed
    InnermostWins
    TokensReach
CHECK_DEADLOCK FALSE
