CONSTANTS
    None = None
    c1 = c1
    c2 = c2
    i1 = i1
    i2 = i2
    n1 = n1
    n2 = n2
    Clients = {c1, c2}
    Ids = {i1, i2}
    UserNames = {n1, n2}
SPECIFICATION Spec
SYMMETRY MCSymmetry
INVARIANTS UpdateTold DeleteTold NotFoundExplained
PROPERTIES DeletedForGood
