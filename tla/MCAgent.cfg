SPECIFICATION MCSpec

CONSTANTS
  \* shutdown signal
  Agents = {top, sub1, sub2}
  Top = top
  Messages = {bye}
  SignalMessage = signal
  Interrupt = interrupt
  None = none
  Nobody = nobody
  Capacity = 2
  MaxCommands = 2
  Nested = sub2
  \* conversation
  MaxFailures = 2
  MaxCalls = 2
  MaxMessages = 6

INVARIANTS
  IdleInterruptConsumed
  RequestWellFormed

PROPERTIES
  ShutdownUnwinds
  ShutdownEndsSession
  InterruptEndsTurn
