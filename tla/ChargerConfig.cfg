SPECIFICATION FairSpec
CONSTANTS
    Str = {"version", "ocpp", "brief", "host", "broker", "date", "long", "cut"}
    ParamOf <- MCParamOf
    LenOf <- MCLenOf
    CommaAt <- MCCommaAt
    FirstBytes = 1
    NextBytes = 2
    ArrSize = 6
    LenWrap = 8
    FlagWrap = 4
    Value = {0, 1}
    Blank = Blank
    AtFirst = {"version", "ocpp", "brief", "host", "broker", "date"}
    Breaks = 1
    Restarts = 1
    Changes = 1
INVARIANTS
    InsideBuffer
PROPERTIES
    NeverPartial
    NeverMisplaced
    Arrives
CHECK_DEADLOCK FALSE
