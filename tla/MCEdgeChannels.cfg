SPECIFICATION Spec
CONSTANTS
    CrcSize = 4
    NumOfCups = 2
    LedsPerCup = 2
    NumEdgeLeds = 2
    NumOfSensors = 2
    s1 = s1
    s2 = s2
    SystemObject <- MCSystemObject
    MaxNumControllers = 3
    Payload <- MCPayload
INVARIANT ChannelsAreItsOwn
SYMMETRY Alike
CHECK_DEADLOCK FALSE
