\* The same server while malformed datagrams come faster than the read deadline.
SPECIFICATION FairSpec
CONSTANTS
    Ids = {i1}
    Keys = {k1}
    Addresses = {a1}
    Paths = {"p"}
    Noise = {"Malformed"}
    MaxSessions = 1
    MaxAccepts = 1
    SessionTTL = 2
CHECK_DEADLOCK FALSE
PROPERTIES
    ExpiredSessionsLeave
