CONSTANTS
  Processes = {p1, p2}
  MaxStarts = 3
  None = None
SPECIFICATION Spec
INVARIANTS
  PublishedIsComplete
PROPERTIES
  IdentityKept
  CallsReturn
\* No start is left, and nobody is running.
CHECK_DEADLOCK FALSE
