SPECIFICATION Spec
CONSTANTS
    MaxSession = 2
    DuplicateLogin = TRUE
    TestTimeOut = FALSE
    FreedNodeIntact = TRUE
    MaxLogins = 3
    MaxOthers = 0
    MaxFails = 0
INVARIANTS
    SlotsConserved
    AccountOnce
    ChatFits
PROPERTY ReplacedWaits
CHECK_DEADLOCK FALSE
