\* Does a locked tab hold no mnemonics? Two tabs.
SPECIFICATION Spec
CONSTANTS
    t1 = t1
    t2 = t2
    w1 = w1
    w2 = w2
    Tabs = {t1, t2}
    Wallets = {w1, w2}
    First = w1
    NoRecord = NoRecord
    Locked = Locked
    MaxRev = 3
    MaxIndex = 1
    MaxSalts = 1
SYMMETRY VaultSymmetry
INVARIANT LockedHoldsNothing
