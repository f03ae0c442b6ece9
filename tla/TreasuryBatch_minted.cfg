\* Does an item whose mint is on the chain get done? One treasury, one cut.
SPECIFICATION FairSpec
CONSTANTS
    t1 = t1
    Tabs = {t1}
    N = 1
    MaxCuts = 1
PROPERTY MintedFinishes
