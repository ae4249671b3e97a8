SPECIFICATION Spec

CONSTANTS
    \* workspace
    Files = {f1, f2}
    Links = {f2}
    Hosts = {"PlainDir", "SparseBundle", "Ext4Fuse"}
    Commands = {k1, k2}
    OneOfCommands = k1
    Harnesses = {h1, h2}
    OneOfHarnesses = h1
    Shells = {s1}
    Overlap = FALSE
    MaxLocks = 2
    MaxFaults = 1
    MaxCrashes = 1
    \* registry lock
    Processes = {p1, p2, p3}
    LockAttempts = 3
    MaxHolderCrashes = 2
    Empty = Empty
    Nobody = Nobody
    \* metering
    Callers = {a1, a2}
    Quota = 3
    MaxModelCalls = 4
    Attempts = 2
    RingCap = 1
    MaxOthers = 1

INVARIANTS
    ContentsSafe
    UnlockedWhole
    AttachedServed
    UpdatesSerialized
    OvershootBounded
    EndsClean

PROPERTIES
    UnlockCompletes
    StaleLockRemoved
    CostsSettle
    SignalEndsShell

CHECK_DEADLOCK FALSE
