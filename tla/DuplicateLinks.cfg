SPECIFICATION LinksSpec
CONSTANTS
  Links = {1, 2, 3}
  Initiator <- MCCrossed
  Fingerprint <- MCFingerprint
  MaxCloses = 2
CHECK_DEADLOCK FALSE
INVARIANTS OneSurvives
