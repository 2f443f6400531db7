SPECIFICATION FairSpec
CONSTANTS
    Types = {1, 2, 5}
    ReplyTypes = {1}
    Payloads <- AnyBytes
    Windows = {1, 2}
    MaxSend = 3
    MaxOther = 1
    MaxBreak = 1
CHECK_DEADLOCK FALSE
INVARIANT GarbledOncePerBreak
PROPERTIES ImplementsMessageLink
