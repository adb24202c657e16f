SPECIFICATION Spec
CONSTANTS
    auth_info = {"none", "password"}
    PasswordSize = 5
    RequestSize = 10
    Data = 3
INVARIANTS
    SocksTypeOK
    SocksAsserts
    ClientOrTimer
    HandshakeBytes
PROPERTIES
    KeepsPromise
    Recovers
