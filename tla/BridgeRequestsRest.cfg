SPECIFICATION FairSpec
CONSTANTS
    MaxHttp = 2
    MaxPublish = 0
    MaxEvent = 2
    MaxBreak = 2
CHECK_DEADLOCK FALSE
INVARIANTS ReplyIsOwn OneAnswer ReturnsWhenTorn ModuleEventsRight AnnouncedBeforeReply NoOrphanSleeper
PROPERTIES EveryRequestAnswered ImplementsRestService
