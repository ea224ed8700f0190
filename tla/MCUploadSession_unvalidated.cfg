CONSTANTS
    a = a
    b = b
    r1 = r1
    r2 = r2
    u1 = u1
    u2 = u2
    Chunk = {a, b}
    Digest <- MCDigest
    Body <- MCBody
    ContentRange <- MCContentRange
    NoRange = NoRange
    NoFile = NoFile
    NoRow = NoRow
    NoDigest = NoDigest
    NoUpload = NoUpload
    Handler = {r1, r2}
    Upload = {u1, u2}
    MaxRequests = 3
    MaxCrash = 0
SPECIFICATION Spec
SYMMETRY Interchangeable
INVARIANTS
    StoredIsValidated
CHECK_DEADLOCK FALSE
