SPECIFICATION Spec
CONSTANTS
    Networks = {"home"}
    MaxScan = 2
    MaxFaults = 0
    MaxConnects = 1
    MaxSend = 1
    Air = 2
INVARIANT SentIsReadable
CHECK_DEADLOCK FALSE
