CONSTANTS
    c1 = c1
    c2 = c2
    b1 = b1
    Garbage = Garbage
    Client = {c1, c2}
    Address = {c1, c2}
    Body = {b1}
    Cut = {3}
    Fd = {3, 4, 5, 6, 7}
    NetworkData <- Noise
    UartData <- Notifications
    MaxAccepts = 2
    MaxReads = 1
SPECIFICATION FairSpec
INVARIANTS
    BroadcastExactlyOnce
PROPERTIES
    StopEndsUartThread
    CallbacksReturn
CHECK_DEADLOCK FALSE
