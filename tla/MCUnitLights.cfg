CONSTANTS
    NumOfCups = 3
    LedsPerCup = 2
    NumOfShiftReg = 2
    BitsPerShiftReg = 2
    Request = {"manual"}
SPECIFICATION FairSpec
INVARIANTS
    TypeOK
    BufferFollowsReadings
    LightsMatchSample
PROPERTIES
    OthersKeepTheirLight
    LightsFollowCups
