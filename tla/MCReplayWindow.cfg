\* All orders of delivery of twelve packets through a window of nine.
SPECIFICATION Spec
CONSTANTS
    WordBits = 3
    Words = 3
    MaxSequence = 12
    Sealers = {g1, g2}
SYMMETRY Symmetry
INVARIANTS
    AcceptedOnce
    NonceUsedOnce
    WindowRecordsAccepted
    WindowFollowsSender
    FreshNotLost
