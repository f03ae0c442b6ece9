\* Does a batch the user started over stay stopped? One tab, no cut.
SPECIFICATION Spec
CONSTANTS
    t1 = t1
    Tabs = {t1}
    N = 1
    MaxCuts = 0
PROPERTY StartOverSticks
