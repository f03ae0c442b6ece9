\* Is an item ever funded twice? One tab, two treasuries, one cut.
SPECIFICATION Spec
CONSTANTS
    t1 = t1
    Tabs = {t1}
    N = 2
    MaxCuts = 1
INVARIANT FundedOnce
