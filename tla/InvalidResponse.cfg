SPECIFICATION Spec
CONSTANTS
    MaxHttp = 1
    MaxPublish = 1
    MaxEvent = 0
    MaxBreak = 0
CHECK_DEADLOCK FALSE
INVARIANTS NeverReturns
