SPECIFICATION QueuedSpec
CONSTANTS
    Keys = {k1, k2}
    Mine = {k1, k2}
    PeerKeys = {}
    Batches = {}
    Capacity = 1
    MaxOps = 2
    LocalDevice = "cpu"
    MaxPeerPuts = 0
    Self = self
    Peer = peer
    Conns = {self, peer}
INVARIANT NeverLies
CHECK_DEADLOCK FALSE
