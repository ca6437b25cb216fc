SPECIFICATION Spec
CONSTANTS
    Param = {"pmuEnable", "chargerPower", "gunBPower",
             "serverConnectorBPower", "pcm", "pmu", "wifi_ssid"}
    Enable = "pmuEnable"
    Limits = {"chargerPower", "gunBPower"}
    Unreported = {"wifi_ssid"}
    Pcm = "pcm"
    Own = "pmu"
    Group <- MCGroup
    Misraised = {"serverConnectorBPower"}
    FirstGroup = "connector1"
    NoGroup = NoGroup
    Value = {0, 1}
    Blank = Blank
    Fault = Fault
    OwnVersion = OwnVersion
    MaxChanges = 2
INVARIANTS
    WillBeReported
PROPERTIES
    TellsFlagged
CHECK_DEADLOCK FALSE
