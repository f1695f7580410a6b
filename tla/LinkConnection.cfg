SPECIFICATION FairSpec
CONSTANT MaxQueue = 2
CHECK_DEADLOCK FALSE
INVARIANTS NothingLeft EstablishedIsListed
PROPERTIES FinalFrameFirst StalledDrainEnds OrphansEnd
