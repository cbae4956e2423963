SPECIFICATION Spec
CONSTANTS
    r1 = r1
    r2 = r2
    k1 = k1
    NoKey = NoKey
    Requests = {r1, r2}
    Keys = {k1}
    KeyOf <- MCKeyOf
    Bodies <- MCBodies
    Outcomes = {"reply", "unencodable", "panic", "hang"}
CHECK_DEADLOCK FALSE
INVARIANTS TypeOK SessionExclusive EntryOwned BatchExact SilenceExplained
PROPERTIES AdmittedAnswered SessionFreed
