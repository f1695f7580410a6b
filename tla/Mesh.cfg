SPECIFICATION FairSpec
CONSTANTS
  a = a
  b = b
  c = c
  l1 = l1
  l2 = l2
  Nodes = {a, b, c}
  Links = {l1, l2}
  Entries = {1, 2}
  Networks <- MCNetworks
  MaxSessions = 2
  FrameLimited = TRUE
  PushBatch = 2
INVARIANTS NoSyncFaults ActiveIsOpen SettledLinksAgree
PROPERTY EntriesSpread
