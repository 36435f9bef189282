SPECIFICATION FairSpec
CONSTANTS
    TokMod = 2
    MaxOwed = 2
    TimerMayFail = TRUE
    OutMayFail = TRUE
    InMayFail = TRUE
    MayUnplug = TRUE
INVARIANTS
    ReplyAnswersRequest
    NoOrphanCompletion
    PostNotLost
    QueueNeverFull
PROPERTIES
    TimesOutOnOwnTimer
    AlternatesRequestReply
    EveryCallReturns
