\* One tab drives two items through up to two cuts.
SPECIFICATION FairSpec
CONSTANTS
    t1 = t1
    Tabs = {t1}
    N = 2
    MaxCuts = 2
INVARIANTS FundBudget DoneMeansDone
PROPERTIES KeepsPromise 
