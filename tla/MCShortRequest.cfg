CONSTANTS
    c1 = c1
    c2 = c2
    b1 = b1
    Garbage = Garbage
    Client = {c1}
    Address = {c1, c2}
    Body = {b1}
    Cut = {1, 3}
    Fd = {3, 4, 5, 6, 7}
    NetworkData <- Requests
    UartData <- Answers
    MaxAccepts = 2
    MaxReads = 1
SPECIFICATION Spec
INVARIANTS
    LengthIsChecked
CHECK_DEADLOCK FALSE
