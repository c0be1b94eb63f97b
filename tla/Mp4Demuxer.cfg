CONSTANTS
    Files <- TheFiles
    Wrap = 65536
    Mtu = 7
SPECIFICATION FairSpec
CHECK_DEADLOCK FALSE
INVARIANTS TracksAsWritten LegalParses
PROPERTIES AllTracks PacketsAsHinted Returns
