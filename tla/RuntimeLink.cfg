SPECIFICATION FairSpec
CONSTANTS
    Senders = {s1, s2}
    Attempts = 1
    MaxFd = 6
    MaxLink = 5
    MaxDeath = 2
    MaxRestart = 1
    MaxPublish = 1
CHECK_DEADLOCK FALSE
INVARIANTS TypeOK WritesAccepted FramesToRuntime
PROPERTIES GivesUpLate LinkComesBack
