SPECIFICATION Spec
CONSTANTS
    Names = {n1, n2}
    Topics = {t1, t2}
    MaxInstall = 2
    MaxEvent = 3
    MaxRestart = 1
    Burst = 2
    EarlyEvents = TRUE
SYMMETRY Symmetry
CHECK_DEADLOCK FALSE
INVARIANTS TypeOK ChildrenWithinParent PubStartOnce SubscriptionsCovered ListMatchesRuntime AttributedRight
