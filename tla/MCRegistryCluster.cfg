CONSTANTS
    n1 = n1
    n2 = n2
    repo = repo
    fork = fork
    layer = layer
    image = image
    m1 = m1
    m2 = m2
    latest = latest
    Node = {n1, n2}
    Repository = {repo, fork}
    Digest = {layer, image, m1, m2}
    Tag = {latest}
    Timestamp = {0, 1}
    NoRow = NoRow
    NoDigest = NoDigest
    Found <- MCFound
    Text = {image, m1, m2}
    Images = {m1, m2}
    Worker = {w1, w2}
    NoTask = NoTask
    MaxTasks = 3
SPECIFICATION MCSpec
INVARIANTS
    LocationHasFile
    ClosureAnalysed
    PoisonIsATransfer
    ImportRestores
PROPERTIES
    ReachedIsKept
SYMMETRY Workers
CHECK_DEADLOCK FALSE
