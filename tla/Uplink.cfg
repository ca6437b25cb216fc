SPECIFICATION UplinkSpec
CONSTANTS
    NumConnectors = 1
    MaxQueueSize = 2
    MaxQueueSizeFault = 1
    c1 = c1
    c2 = c2
    s1 = s1
    f1 = f1
    p1 = p1
    Uuid = {c1, c2, s1, f1}
    Stamp = {0}
    Action <- MCAction
    None = None
    MaxBoots = 3
INVARIANTS
    ConfigurationFirst
    NamedWhenExchanged
PROPERTIES
    Delivers
