\* Two tabs drive the same one-item batch; one cut. Safety only, so the tabs
\* may be treated as interchangeable.
SPECIFICATION Spec
CONSTANTS
    t1 = t1
    t2 = t2
    Tabs = {t1, t2}
    N = 1
    MaxCuts = 1
SYMMETRY TabSymmetry
INVARIANTS RecordBacked
