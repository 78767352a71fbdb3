\* One ID, requests for two paths, and other traffic that never ends.
SPECIFICATION FairSpec
CONSTANTS
    Ids = {i1}
    Keys = {k1}
    Addresses = {a1}
    Paths = {"p", "q"}
    Noise = {"Unexpected"}
    MaxSessions = 1
    MaxAccepts = 1
    SessionTTL = 2
CHECK_DEADLOCK FALSE
PROPERTIES
    ExpiredSessionsLeave
    PreparationSettles
    StopsWhenQuiet
