CONSTANTS
    NumOfShiftReg = 2
    BitsPerShiftReg = 3
    NoReading = NoReading
    Readings <- OneAtATime
    NumOfCups = 2
    LedsPerCup = 1
    Request = {"manual"}
SPECIFICATION SensedSpec
INVARIANTS
    TypeOK
    BitsInOrder
    LightsShowOneMoment
PROPERTIES
    ImplementsSnapshot
    ImplementsBoard
