SPECIFICATION WalletSpec
CONSTANTS
    w1 = w1
    w2 = w2
    d1 = d1
    d2 = d2
    ta = ta
    tb = tb
    pa = pa
    pb = pb
    c1 = c1
    c2 = c2
    c3 = c3
    small = small
    big = big
    Wallets = {w1, w2}
    NoWallet = NoWallet
    LastIndex = 2
    Gap = 2
    WatchAhead = 1
    Lookahead = 1
    Floor = 1
    MaxGen = 2
    MaxPays = 1
    MaxSyncFaults = 1
    Tabs = {t1}
    Owners = {w1, w2}
    Locked = Locked
    MaxRecords = 1
    MaxReviews = 2
    MaxSigned = 2
    MaxCalls = 2
    DgbKinds <- TheDgb
    DdKinds <- TheDd
    MaxCoins = 5
    Amounts = {30000, 96000, 12045000}
    ScriptLens = {22, 34}
    Home = "k1"
    Needs = {100, 200, 300}
    Cap = 150
    Coin = 100
    Payee = "payee"
    Tip = 1000
    LockBlocks = 240
    MaxVinResolve = 2
    Ratios = {200, 300}
    DcaBps = {10000, 12500}
    Prices = {50, 77}
    Positions = {pa, pb}
    Away = Away
    DdIds = {c1, c2, c3}
    Need <- TheNeed
    MaxRedeems = 2
    MaxOutside = 1
    g1 = g1
    g2 = g2
    g3 = g3
    g4 = g4
    Givers = {w1, w2}
    Shut = Shut
    GiftCoins = {g1, g2, g3, g4}
    CoinOf <- TheCoinOf
    Large = {g3, g4}
    MaxGifts = 2
    Boundaries = {0, 120, 250, 670, 32760, 65530, 518400, 8388600, 16777210, 99999990, 1000000000}
    Near = 12
    Refused = Refused
    Devices = {d1, d2}
    Treasuries = {ta, tb}
    Held <- TheHeld
    Listed <- TheListed
    Slug <- TheSlug
    MaxSyncs = 3
    MaxRestores = 1
    MaxFailures = 1
    Seeds = {w1, w2}
    Nobody = Nobody
    NoRecord = NoRecord
    CanSkip = TRUE
    MaxSaves = 3
    MaxFlows = 1
    CapTabs = {d1, d2}
    Leftovers = {0, 2000, 999999}
    MaxChoices = 3
    Payers = {w1, w2}
    Balance <- TheBalance
    Settings = {small, big}
    NeedOf <- TheNeeds
    Budgets = {150, 600}
    MostPerBatch = 3
    MaxPlans = 2
    MaxBatches = 1
    None = None
    Cards = {ta}
    NoCard = NoCard
    UnlockAt = 2
    SoonBlocks = 1
    MaxTip = 3
    MaxRenders = 2
    Sellable = {ta, tb}
    Others = {w1}
    NoOne = NoOne
    MaxTransfers = 1
    MaxExports = 2
INVARIANT PaintedOwn
 
INVARIANT OutcomeKept
INVARIANT DraftsOfTheOpen
INVARIANT OneTxPerReview
INVARIANT PlansSound
INVARIANT ReadAsBuilt
INVARIANT BurnCovers
INVARIANT ManifestBacked
INVARIANT GiftOnce
 
INVARIANT SeedsGuarded
INVARIANT BackedUpEarned
INVARIANT CreatedAsReviewed
INVARIANT MoveIsRecorded
PROPERTY CapAcknowledged
 
 
CHECK_DEADLOCK FALSE
