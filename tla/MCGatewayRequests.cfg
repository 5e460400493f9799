CONSTANTS
    c1 = c1
    c2 = c2
    b1 = b1
    Garbage = Garbage
    Client = {c1}
    Address = {c1, c2}
    Body = {b1}
    Cut = {0, 1, 3}
    Fd = {3, 4, 5, 6}
    NetworkData <- Requests
    UartData <- AnswersAndNotifications
    MaxAccepts = 2
    MaxReads = 2
SPECIFICATION Spec
INVARIANTS
    TypeOK
    HeldDescriptors
    ForwardedIntact
    EarlyExitServesNobody
PROPERTIES
    DeafAfterAcceptFailure
    ImplementsRelay
CHECK_DEADLOCK FALSE
