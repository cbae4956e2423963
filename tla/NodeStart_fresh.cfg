SPECIFICATION Spec
CONSTANTS
    p1 = p1
    p2 = p2
    h1 = h1
    a = a
    b = b
    c = c
    d = d
    None = None
    Torn = Torn
    Procs = {p1, p2}
    Homes = {h1}
    UUIDs = {a, b, c, d}
    Cwd <- MCCwd
    NodePath <- MCCwd
    Prepared <- MCFresh
    Faults = {"crash", "io"}
    MaxRuns = 2
SYMMETRY MCSymmetry
CHECK_DEADLOCK FALSE
INVARIANTS TypeOK HoldersExclusive
PROPERTIES TornForGood
