SPECIFICATION Spec

CONSTANTS
    \* pairing
    Procs = {p1, p2}
    MaxCodes = 2
    MaxKeys = 2
    MaxMishaps = 2
    \* proxy
    Conns = {c1, c2}
    Hosts = {"api", "other", "private"}
    Allowed = {"api", "private"}
    Addresses = {"public", "private"}
    Permitted = {"public"}
    MaxRequests = 2
    \* network policy
    MaxName = 4
    Octets = {0, 1, 9, 10, 11, 15, 16, 31, 32, 63, 64, 100, 127, 128, 168, 169, 172, 192, 223, 224, 239, 240, 254, 255}
    Segments = {1, 100, 8193, 64511, 64512, 65023, 65024, 65151, 65152, 65215, 65216, 65279, 65280, 65535}
    \* wire formats
    MaxHistory = 6
    MaxBlocks = 3
    \* tools
    Callers = {a1, a2}
    ReadCap = 2
    OutputCap = 1
    MaxOutput = 2
    MaxToolCalls = 2
    MaxStreaming = 1
    \* unlock report
    MaxChanges = 2
    MaxUnlocks = 2
    \* record and replay
    MaxPrompts = 2
    MaxUploads = 1
    MaxInterrupts = 1
    MaxResponses = 4
    MaxDisorder = 1
    WithSubagent = TRUE
    \* settings
    MaxFlags = 1
    MaxFileKeys = 2

INVARIANTS
    PairedOnceAndForAll
    EgressGuarded
    PolicyByReference
    CallsAnsweredOnWire
    AnswersTrue
    ReportExact
    OrderlySessionsReplay

PROPERTY SensitiveUnread

CHECK_DEADLOCK FALSE
