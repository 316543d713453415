SPECIFICATION Spec
CONSTANTS
    MaxSession = 1
    DuplicateLogin = FALSE
    TestTimeOut = TRUE
    FreedNodeIntact = TRUE
    MaxLogins = 1
    MaxOthers = 0
    MaxFails = 0
INVARIANTS
    LoginTimeoutGauge
CHECK_DEADLOCK FALSE
