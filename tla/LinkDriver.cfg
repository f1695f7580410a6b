SPECIFICATION FairSpec
CONSTANTS Offers = {{1, 2}, {1, 3}, {3}}
RekeyInterval = 2 HandshakeTimeout = 1 MaxLifetime = 2 MaxSends = 1
INVARIANTS NoSpuriousFailure Mutual
PROPERTIES SilentCloses LinksEnd
CHECK_DEADLOCK FALSE
