SPECIFICATION Spec
CONSTANTS
    Posts <- Bodies
    OkChars <- Letters
    MaxName = 2
    DiskMayFail = TRUE
    MaxUploads = 3
    MaxInstalls = 1
CHECK_DEADLOCK FALSE
INVARIANTS TypeOK SavedAsSent OneProgram InstallsTheUpload
