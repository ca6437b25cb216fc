SPECIFICATION FairSpec
CONSTANTS
    home = home
    long = long
    None = None
    Cut = Cut
    Cred = {home, long}
    Long = {long}
    MaxChanges = 1
    MaxBoots = 2
INVARIANTS
    StartsInOrder
PROPERTIES
    ComesOnline
    OfflineIsNoticed
