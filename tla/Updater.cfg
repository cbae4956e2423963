CONSTANTS
    Nil = Nil
    Junk = Junk
    Names <- MCNames
    Versions <- MCVersions
    Size <- MCSize
    Archive <- MCArchive
    MaxEvents = 2
SPECIFICATION Spec
INVARIANTS TypeOK BinExplained OrphanExplained PanicExplained
PROPERTIES NoDowngrade CleanedEnds Converges
CHECK_DEADLOCK FALSE
