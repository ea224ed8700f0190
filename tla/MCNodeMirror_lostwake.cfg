CONSTANTS
    self = self
    peer = peer
    d1 = d1
    d2 = d2
    r1 = r1
    Node = {self, peer}
    Self = self
    Digest = {d1}
    Request = {r1}
    None = None
    MaxChanges = 1
    MaxFailures = 0
    MaxInstalls = 0
    MaxDisconnects = 0
SPECIFICATION Spec
PROPERTY WaitEnds
CHECK_DEADLOCK FALSE
