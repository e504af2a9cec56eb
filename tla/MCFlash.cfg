CONSTANTS
    Lengths = {1, 512, 513, 1537}
    Parts = {"stc12", "stc15", "unknown"}
    Capacity = 1536
    MaxPulses = 3
    MaxLost = 1
    MaxCycles = 1
    Tools = {"eeprom", "mega", "usbasp", "stm32", "swd", "daplink"}
    Images = {{0, 1, 2, 3, 4}, {3, 4, 5, 6, 7, 8, 9}, {0, 1, 6}, {5, 13}, {12}}
    Bases = {0, 2}
    Page = 4
    Word = 2
    Space = 16
    CodeEnd = 12
    PartSize = 8
    IspReach = 8
    Slow = {FALSE}
    MaxRuns = 2
SPECIFICATION FairSpec
INVARIANTS
    DoneMeansWritten
    NothingElseWritten
    WritesOnlyErased
    EraseComesLast
    StartedIsComplete
    GoodBoardIsFlashed
PROPERTIES
    Ends
CHECK_DEADLOCK FALSE
