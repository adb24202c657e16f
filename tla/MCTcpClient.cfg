CONSTANTS
    TCP_WND = 3
    TCP_SND_BUF = 2
    RECV_BUF_SIZE = 3
    MaxUp = 4
    MaxDown = 4
SPECIFICATION FairSpec
INVARIANTS
    TypeOK
    AssertsHold
    AbrtIffAborted
    WindowFitsBuffer
    NoOrphanPcb
    NeverStranded
PROPERTIES
    ImplementsRelay
    OnlyDrains
    ClientReleased
