SPECIFICATION DeviceFairSpec
CONSTANTS
    Base = 4
    MaxRound = 6
    Waits <- MCWaits
    Delays = {0, 1, 2}
    MaxPoll = 3
    Turn = 40
    MsTurn = 4
    PerMs = 10
    MaxBusy = 2
    Starts = {2}
    PerUs = 2
    MaxLag = 2
    MinLevel = 7
    MsAsked = {0, 2}
    Timeouts = {5}
    MaxOff = 1
    PwmPins = {0}
    TonePins = {1}
    MinLoad = 2
    Duties = {9}
    HalfPeriods = {9}
    Durations = {1}
    Usable = {0, 2}
    Routines = {"count", "once"}
    Once = {"once"}
    Size = 2
    Bytes = 4
    RxSize = 3
    RxBytes = 4
INVARIANTS
    AtomicRead
    NoTickLost
    NeverEarly
    Prompt
    NeverShort
    ClockKeepsTime
    CallsKeepTime
    WavesKeepTime
    EdgesKept
    BytesInOrder
    FlushMeansSent
PROPERTIES
    EveryCallEnds
