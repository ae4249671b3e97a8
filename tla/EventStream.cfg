SPECIFICATION StreamSpec

CONSTANTS
  Emitters = {e1, e2}
  Pumps = {conn}
  Listeners = {uploads}
  Conn = conn
  Kinds = {"tui", "app", "pairing"}
  Capacity = 1
  MaxEvents = 3
  MaxConnections = 2

INVARIANTS
  MissedOnlyIfOvertaken
  ClientReachesEnd
  CompleteFromRequest

PROPERTY ImplementsLog
