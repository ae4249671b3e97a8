SPECIFICATION FairSpec

CONSTANTS
  Agents = {top, sub1}
  Top = top
  Messages = {bye}
  SignalMessage = signal
  Interrupt = interrupt
  None = none
  Nobody = nobody
  Capacity = 1
  MaxCommands = 1

PROPERTY WatchingIsEnough
