CONSTANTS
    repoA = repoA
    repoB = repoB
    b1 = b1
    b2 = b2
    b3 = b3
    m1 = m1
    m2 = m2
    Server = {s1, s2}
    TagName = {1, 2, 3, 4}
    Listed = repoA
    Other = repoB
    KeyOrder <- MCKeyOrder
    PageSize = {0, 1, 2, 3}
    None = None
    MaxCommit = 4
    Blob = {b1, b2, b3}
    Image = {m1, m2}
    Label = {l1, l2}
    Contents <- MCContents
    Missing = Missing
    MaxChanges = 2
SPECIFICATION Spec
INVARIANTS
    ListingIsComplete
    LastPageIsFull
    OrphansAreUnreachable
    TaggedIsNoOrphan
PROPERTIES
    LinksGoForward
    ListingEnds
CHECK_DEADLOCK FALSE
