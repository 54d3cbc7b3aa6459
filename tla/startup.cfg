SPECIFICATION Spec
CONSTANTS
    Fds = {3, 4, 5, 6, 7, 8, 9, 10, 11}
    MaxAddrs = 3
INVARIANTS
    StartupTypeOK
    ListensExactly
CHECK_DEADLOCK FALSE
