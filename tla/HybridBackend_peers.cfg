SPECIFICATION MCSpec
CONSTANTS
    k1 = k1
    k2 = k2
    other = other
    Keys = {k1, k2, other}
    Mine <- MCMine
    PeerKeys = {k1, other}
    Batches <- MCBatches
    Capacity = 1
    MaxOps = 3
    LocalDevice = "cpu"
    MaxPeerPuts = 2
    Self = self
    Peer = peer
    Conns = {self, peer}
INVARIANTS NeverLies WriteThrough RepliesFit NothingForgotten
PROPERTIES EveryCallReturns PutsArrive
