SPECIFICATION Spec
CONSTANTS
    r1 = r1
    r2 = r2
    k1 = k1
    NoKey = NoKey
    Requests = {r1}
    Keys = {k1}
    KeyOf <- MCKeyOf
    Bodies <- MCNoteBodies
    Outcomes = {"reply", "panic"}
CHECK_DEADLOCK FALSE
INVARIANTS
    PanicContained
