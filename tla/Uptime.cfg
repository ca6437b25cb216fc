SPECIFICATION Spec
CONSTANTS
    PerPeriod = 2
    Minute = 2
    Hour = 2
    Day = 2
    MaxSeconds = 5
    MaxRestarts = 1
    MaxFailures = 1
INVARIANTS
    LosesOnePeriod
    TotalsAgree
    AnswersAreClose
    NeverOvercounts
