SPECIFICATION RouterSpec
CONSTANTS
    c1 = c1
    c2 = c2
    n1 = n1
    n2 = n2
    NoConn = NoConn
    NoName = NoName
    Conns = {c1, c2}
    Names = {n1, n2}
    Msgs <- Packets
    MaxMsgs <- MCMaxMsgs
    Dests = {n1, n2}
    TTLs = {1, 2}
    PoolSize = 4
    ThreadOf <- MCThreadOf
    MaxPackets = 2
INVARIANTS RouterTypeOK DeliveredToClaimant InOrder ClosedNotRouted SoleClaimantRouted StoppedMeansClosed
SYMMETRY NameSymmetry
