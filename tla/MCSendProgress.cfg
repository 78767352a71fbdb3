\* All orders and repetitions of requests for the chunks of one archive, while
\* the first report may come at any time.
SPECIFICATION ProgressSpec
CONSTANTS
    WordBits = 2
    Words = 2
    ChunkSize = 3
    Size = 22
    ClientWindow = 4
    PercentageStep = 20
    QuietInterval = 2
INVARIANTS
    RecordMatchesSent
    CountedOnce
    ClientWindowServed
PROPERTIES
    ProgressShown
