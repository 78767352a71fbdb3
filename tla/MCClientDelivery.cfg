\* A healthy server, three chunks in a window of two, losses that come to an end;
\* packets of every length, archives of every size.
SPECIFICATION DeliverySpec
CONSTANTS
    Chunks = 3
    Window = 2
    InactivityTimeout = 1
    Faults = {"none"}
    MaxField = 1300
    Sizes = 256
    Counts = 16
    ChunkBytes = 6
CHECK_DEADLOCK FALSE
PROPERTIES
    TransferSucceeds
    EncodedIsDecoded
    ArithmeticAgrees
