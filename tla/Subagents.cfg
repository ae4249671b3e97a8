SPECIFICATION FairSpec

CONSTANTS
  MaxDepth = 2
  Slots = 2
  MaxAgents = 3
  MaxInterrupts = 1

INVARIANTS
  SlotsConserved
  TopChildrenEndWithTurn

PROPERTIES
  CancellationEnds
