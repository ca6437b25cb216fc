SPECIFICATION FairSpec
CONSTANTS
    Frame = {1}
    Required = {1}
    Module = {k1}
    Limit = 2
INVARIANTS
    VerdictsAreTrue
PROPERTIES
    PeriodicIsComplete
    SilenceIsNoticed
    ModulesAreNoticed
