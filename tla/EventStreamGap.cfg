SPECIFICATION StreamSpec

CONSTANTS
  Emitters = {e1}
  Pumps = {conn}
  Listeners = {}
  Conn = conn
  Kinds = {"tui"}
  Capacity = 2
  MaxEvents = 2
  MaxConnections = 1

INVARIANT TranscriptComplete
