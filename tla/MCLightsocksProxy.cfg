CONSTANTS
    Byte <- MCByte
    encrypt_vec <- MCTable
    ReadMax = 2
    MaxUp = 2
    MaxDown = 2
SPECIFICATION Spec
INVARIANTS
    ProxyTypeOK
    EndsTogether
    RelayedSoFar
PROPERTY ProxyImplementsRelay
