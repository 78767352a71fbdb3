\* A preparation that fails before the archive is created.
SPECIFICATION Spec
CONSTANTS
    Ids = {i1}
    Keys = {k1}
    Addresses = {a1}
    Paths = {"p"}
    Noise = {"Malformed"}
    MaxSessions = 1
    MaxAccepts = 1
    SessionTTL = 2
CHECK_DEADLOCK FALSE
INVARIANTS
    TemporaryFilesOwned
