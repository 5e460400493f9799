CONSTANTS
    NumOfCups = 2
    LedsPerCup = 2
    NumOfShiftReg = 1
    BitsPerShiftReg = 3
    Request = {"manual", "invalid"}
SPECIFICATION Spec
PROPERTIES
    RequestsAreServed
