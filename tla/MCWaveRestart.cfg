SPECIFICATION WaveFairSpec
CONSTANTS
    Turn = 24
    MsTurn = 4
    PerMs = 6
    MaxBusy = 1
    MaxOff = 1
    Starts = {2}
    PwmPins = {0}
    TonePins = {}
    MinLoad = 2
    Duties = {3}
    HalfPeriods = {4}
    Durations = {1}
PROPERTIES
    Alternates
