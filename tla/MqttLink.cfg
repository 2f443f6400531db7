SPECIFICATION FairSpec
CONSTANTS
    Topics = {"t1", "t2"}
    MaxEvent = 3
    MaxBreak = 2
CHECK_DEADLOCK FALSE
INVARIANTS ShownIsSubscribed RuntimeShown
PROPERTY ComesBack
