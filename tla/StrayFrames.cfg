SPECIFICATION Spec
CONSTANTS
    Senders = {s1}
    Attempts = 1
    MaxFd = 3
    MaxLink = 2
    MaxDeath = 1
    MaxRestart = 0
    MaxPublish = 1
CHECK_DEADLOCK FALSE
INVARIANTS FramesToWamr
