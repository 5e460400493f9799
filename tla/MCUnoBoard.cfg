SPECIFICATION FairSpec
CONSTANTS
    CrcSize = 0
    NumOfCups = 2
    LightModule = 1
    PutRequest = 2
    Message <- MCMessage
    RxSize = 50
    BufferSize = 36
    MaxMessages = 3
INVARIANT UnoTypeOK
INVARIANT HeadsAreKept
PROPERTIES
    ImplementsLightService
    QuietMeansServed
CHECK_DEADLOCK FALSE
