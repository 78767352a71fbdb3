\* Two request IDs compete for one place; either may be accepted twice, so that
\* a goroutine of a session that is gone meets a new session of the same ID.
SPECIFICATION Spec
CONSTANTS
    Ids = {i1, i2}
    Keys = {k1}
    Addresses = {a1, a2}
    Paths = {"p"}
    Noise = {"Malformed"}
    MaxSessions = 1
    MaxAccepts = 2
    SessionTTL = 1
CHECK_DEADLOCK FALSE
INVARIANTS
    Consistent
    TableBounded
    ArchivesOwned
    PublishedIsReadable
    NoDeadSession
    StoppedIsClean
