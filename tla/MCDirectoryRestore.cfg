CONSTANTS
  Receivers = {r1, r2}
  Entries <- MCEntries
  Directories <- MCDirectories
  None = None
SPECIFICATION RestoreSpec
INVARIANTS
  DestinationWhole
  NotDenied
\* All downloads have ended.
CHECK_DEADLOCK FALSE
