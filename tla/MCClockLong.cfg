SPECIFICATION MCFairSpec
CONSTANTS
    Base = 4
    MaxRound = 6
    Waits <- MCLongWaits
    Delays = {0, 1, 2}
    MaxPoll = 3
INVARIANTS
    NeverEarly
