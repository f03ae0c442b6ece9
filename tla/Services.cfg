SPECIFICATION ServicesSpec
CONSTANTS
    Claims = {c1, c2}
    Addresses = {a1, a2}
    Ips = {i1, i2}
    Loopback = lo
    Cooldown = 1
    MaxClock = 2
    MaxPayments = 2
    MaxCuts = 1
    Chains = {good, bad}
    Expected = good
    NoChain = NoChain
    Samples = {s1}
    Reads = {r1}
    MaxSwaps = 1
    MaxPoints = 1
    MaxGuardRestarts = 1
    Gets = {g1, g2}
    Versions = 2
    MaxDirRestarts = 1
    Ballots = {b1, b2}
    Merchants = {m1}
    Voters = {v1, v2}
    MaxVotes = 3
    MaxVoteFaults = 1
    Clients = {p1, p2, p3}
    Proxy = px
    Junk = junk
    Hops = 2
    Costs = {1, 2}
    Window = 2
    Allowance = 2
    MaxBuckets = 2
    MaxTime = 2
    st1 = st1
    st2 = st2
    st3 = st3
    i1 = i1
    i2 = i2
    Streams = {st1, st2, st3}
    Addr <- TheAddr
    PerIp = 1
    Ticks = {k1, k2}
    MaxHeight = 2
INVARIANT OnePayPerPeriod
INVARIANT WrongPointNeedsSwap
INVARIANT SnapshotWholeAlone
INVARIANT VoteFileCurrent
INVARIANT AllowancePerClient
PROPERTY GuardConverges
PROPERTY BlocksAnnounced
CHECK_DEADLOCK FALSE
