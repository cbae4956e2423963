SPECIFICATION Spec
CONSTANTS
    p1 = p1
    p2 = p2
    h1 = h1
    a = a
    b = b
    c = c
    d = d
    None = None
    Torn = Torn
    Procs = {p1, p2}
    Homes = {h1}
    UUIDs = {a}
    Cwd <- MCCwd
    NodePath <- MCCwd
    Prepared <- MCPrepared
    Faults = {"crash", "signal", "touch", "update", "io"}
    MaxRuns = 2
CHECK_DEADLOCK FALSE
INVARIANTS OneServingPerId NoOrphans
PROPERTIES RefusalExplained  TouchStops
