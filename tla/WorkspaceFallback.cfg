SPECIFICATION WorkspaceSpec

CONSTANTS
  Files = {f1, f2}
  Links = {f2}
  Hosts = {"Ext4Fuse"}
  Commands = {c1}
  Harnesses = {}
  Shells = {}
  Overlap = FALSE
  MaxLocks = 1
  MaxFaults = 1
  MaxCrashes = 0

INVARIANT ContentsKept

CHECK_DEADLOCK FALSE
