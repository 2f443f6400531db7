SPECIFICATION Spec
CONSTANTS
    Names = {n1, n2}
    Topics = {t1}
    MaxInstall = 1
    MaxEvent = 1
    MaxRestart = 0
    Burst = 1
    EarlyEvents = FALSE
CHECK_DEADLOCK FALSE
INVARIANTS UninstallNamed
