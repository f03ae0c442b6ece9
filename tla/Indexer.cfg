SPECIFICATION IndexerSpec
CONSTANTS
    NClients = 1
    Requests = {r1, r2, r3}
    MaxInFlight = 2
    RecycleAfter = 1
    Spread = 1
    MaxAdmitted = 3
    l1 = l1
    l2 = l2
    l3 = l3
    q1 = q1
    q2 = q2
    x1 = x1
    x2 = x2
    Lanes = {l1, l2, l3}
    Owner <- TheOwner
    History <- TheHistory
    Mints <- TheMints
    OpenMints = {x1}
    Txs = {x1, x2}
    MaxFetches = 5
    MaxUpstream = 5
    MaxItems = 3
    CacheMax = 1
    MaxFaults = 1
INVARIANT CeilingsHold
INVARIANT CompleteOrAbsent
INVARIANT OneFetchPerTx
PROPERTY LostOnlyByRetry
PROPERTY SettlesUnlessLost
 
CHECK_DEADLOCK FALSE
