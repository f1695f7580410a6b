SPECIFICATION AppSpec
CONSTANTS
  Texts = {t1, t2}
  Blank = blank
  MaxEdits = 3
  MaxSaves = 2
  MaxDeaths = 2
  MaxLosses = 2
INVARIANTS IdentityKept LastWordsKept
PROPERTY SendingEnds
CHECK_DEADLOCK FALSE
