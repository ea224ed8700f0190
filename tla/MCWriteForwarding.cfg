CONSTANTS
    n1 = n1
    n2 = n2
    n3 = n3
    put1 = put1
    put2 = put2
    fsck = fsck
    Node = {n1, n2, n3}
    Call = {put1, put2, fsck}
    Home <- MCHome
    Waits = {put1, put2}
    Puts = {put1, put2}
    Repeats = {fsck}
    None = None
    Tries = 2
    Repetitions = 1
    QueueSize = 1
    MaxElections = 2
SPECIFICATION MCSpec
INVARIANTS
    TypeOK
    EventIsVisible
    WaitMissesNothing
PROPERTIES
    KeepsPromise
    CallEnds
CHECK_DEADLOCK FALSE
