SPECIFICATION Spec
CONSTANTS
    c1 = c1
    m1 = m1
    m2 = m2
    d1 = d1
    sc = sc
    k1 = k1
    k2 = k2
    v1 = v1
    v2 = v2
    Keys = {k1, k2}
    Vals = {v1, v2}
    Scalars = {sc}
    Codes = {c1}
    Messages = {m1, m2}
    Datas = {d1}
    ErrorArgs <- MCErrorArgs
    InternalCode = InternalCode
    InternalMessage = InternalMessage
    Nil = Nil
    MaxCalls = 1
CHECK_DEADLOCK FALSE
INVARIANTS
    WrittenErrorsAnswered
