SPECIFICATION Spec
CONSTANTS
    MaxHttp = 2
    MaxPublish = 1
    MaxEvent = 0
    MaxBreak = 1
CHECK_DEADLOCK FALSE
INVARIANTS TypeOK NoLostWakeup PendingPairCoherent LockInv
