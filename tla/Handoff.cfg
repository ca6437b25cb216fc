SPECIFICATION FairSpec
CONSTANTS
    Frames <- MCFrames
    Records <- MCRecords
    Unstarted = {2}
    MaxResends = 1
INVARIANTS
    EveryRecordOnce
    NeverBackwards
    TornAtOnePlace
PROPERTIES
    EveryRecordReported
