SPECIFICATION MCSpec
CONSTANTS
    Ring = 2
    Wrap = 4
    MaxSend = 3
    MaxArrive = 3
    NPorts = 2
    RingSize = 8
    EventRingSize = 4
    AsixWrites = 1
    Reclaims = TRUE
    MaxUsbFaults = 1
    MaxIO = 2
    Follow = FALSE
    Letters = {"a"}
    Others = {"1", "enter"}
    Extended = {"enter"}
    BufSize = 3
    UsbKeys = 2
    MaxStrokes = 4
    Networks = {"home", "other"}
    MaxScan = 2
    MaxAirFaults = 1
    MaxConnects = 2
    MaxData = 2
    Air = 2
INVARIANTS UsbCallsDone  PacketNumbersFresh  QuietSucceeds
  
