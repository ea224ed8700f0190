CONSTANTS
    MaxIndex = 3
    MaxTerm = 2
    MaxSnapshots = 2
    MaxCrash = 2
SPECIFICATION Spec
INVARIANTS
    AckedIsDurable
    NoHole
    SnapshotCoversPurged
    LogStateIsSane
PROPERTY SnapshotNumbersAreFresh
CHECK_DEADLOCK FALSE
