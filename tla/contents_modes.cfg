SPECIFICATION LiveSpec
CONSTANTS
    MaxSession = 2
    DuplicateLogin = TRUE
    TestTimeOut = TRUE
    FreedNodeIntact = TRUE
    MaxLogins = 2
    MaxOthers = 1
    MaxFails = 1
INVARIANTS
    TypeOK
    NoBreak
    OnePlace
    MoveQMatches
    TestedStayQuiet
    GaugesExact
PROPERTY DisconnectHappens
CHECK_DEADLOCK FALSE
