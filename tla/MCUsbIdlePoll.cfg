SPECIFICATION MCSpec
CONSTANTS
    Ring = 2
    Wrap = 4
    MaxSend = 1
    MaxArrive = 1
    NPorts = 2
    RingSize = 8
    EventRingSize = 4
    AsixWrites = 1
    Reclaims = FALSE
    MaxUsbFaults = 0
    MaxIO = 2
    Follow = TRUE
    Letters = {"a"}
    Others = {"1", "enter"}
    Extended = {"enter"}
    BufSize = 3
    UsbKeys = 2
    MaxStrokes = 0
    Networks = {"home", "other"}
    MaxScan = 2
    MaxAirFaults = 0
    MaxConnects = 0
    MaxData = 2
    Air = 2
INVARIANTS PollDelivers
