SPECIFICATION Spec
CONSTANTS
    Clients = {c1, c2}
    Typists = {c1}
    MaxSent = 3
    MaxTurns = 1
    MaxAsked = 1
    MaxDrops = 1
    ScrollMax = 15
INVARIANTS
    FirstAnswerWins
    ScreensInStep
    PromptsInOrder
PROPERTIES
    InterruptEndsQuestion
CHECK_DEADLOCK FALSE
