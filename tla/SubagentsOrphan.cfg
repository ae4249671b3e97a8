SPECIFICATION Spec

CONSTANTS
  MaxDepth = 2
  Slots = 2
  MaxAgents = 2
  MaxInterrupts = 0

INVARIANT NoSubagentOutlivesTurn
