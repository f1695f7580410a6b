SPECIFICATION Spec
CONSTANTS
  NumItems = 10
  Delta = 3
  Gamma = 2
  MaxPushed = 4
  IdsPerKey = 2
  Entries <- MCEntries
  Ints <- MCInts
  Payload <- MCPayload
  PushTtl = 0
INVARIANTS Balanced QueriesAgree PushesFit PushesAll
