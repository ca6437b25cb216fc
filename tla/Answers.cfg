SPECIFICATION FairAnswersSpec
CONSTANTS
    None = None
    cfg = cfg
    periodic = periodic
    Requests = {cfg, periodic}
    Periodic = {periodic}
    Calls <- FewCalls
    NumPCM = 2
    NumConnectors = 2
    MaxCalls = 1
    MaxFaulty = 1
    MaxInbox = 1
INVARIANTS
    LastIsHandled
    DeletedOnlyWhenAnswered
    KeptUntilAccepted
    AnswersOnlyExisting
PROPERTIES
    RequestsAreDone
    EveryCallIsAnswered
\* All requests are answered and all calls made: nothing is left to do
CHECK_DEADLOCK FALSE
