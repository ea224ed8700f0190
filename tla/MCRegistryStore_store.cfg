CONSTANTS
    n1 = n1
    n2 = n2
    repo = repo
    blobDigest = blobDigest
    manifestDigest = manifestDigest
    latest = latest
    Node = {n1, n2}
    Repository = {repo}
    Digest = {blobDigest, manifestDigest}
    Tag = {latest}
    Timestamp = {0}
    NoRow = NoRow
    NoDigest = NoDigest
    NoSnapshot = NoSnapshot
    MaxLog = 10
    MaxCrash = 2
    SnapshotGap = 4
    Transaction <- AllTransactions
SPECIFICATION MCSpec
INVARIANTS
    TablesFollowLog
    SnapshotsFollowLog
    StaleIsDeleted
    PendingComplete
    PendingNotHeld
    NobodyPassesPoison
PROPERTY AppliedGoesForward
CHECK_DEADLOCK FALSE
