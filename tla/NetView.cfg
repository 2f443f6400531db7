SPECIFICATION Spec
CONSTANTS
    Modules = {m1, m2}
    Topics = {t1}
    MaxEvent = 5
    MaxPage = 2
SYMMETRY Symmetry
CHECK_DEADLOCK FALSE
INVARIANTS TypeOK SameGraph EdgesComplete
