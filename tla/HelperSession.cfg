SPECIFICATION FairSpec

CONSTANTS
  Callers = {a, b}
  Children = {b}
  Capacity = 2

INVARIANTS
  RunningCancellable

PROPERTIES
  LostConnectionFailsRequests
  InterruptEndsTool
