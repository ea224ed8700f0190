CONSTANTS
    self = self
    peer = peer
    d1 = d1
    d2 = d2
    r1 = r1
    Node = {self, peer}
    Self = self
    Digest = {d1, d2}
    Request = {r1}
    None = None
    MaxChanges = 3
    MaxFailures = 2
    MaxInstalls = 1
    MaxDisconnects = 1
SPECIFICATION MCSpec
INVARIANTS
    NoLostChange
    HeldHasFile
    ServeFindsFile
PROPERTIES
    MirroredUnlessDisturbed
    TimerRetries
CHECK_DEADLOCK FALSE
