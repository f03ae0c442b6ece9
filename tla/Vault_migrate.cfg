\* Does the migration of a v1 record always leave a record that opens? Two
\* tabs, both migrating.
SPECIFICATION Spec
CONSTANTS
    t1 = t1
    t2 = t2
    w1 = w1
    w2 = w2
    Tabs = {t1, t2}
    Wallets = {w1, w2}
    First = w1
    NoRecord = NoRecord
    Locked = Locked
    MaxRev = 3
    MaxIndex = 1
    MaxSalts = 2
SYMMETRY VaultSymmetry
INVARIANT LossProof
