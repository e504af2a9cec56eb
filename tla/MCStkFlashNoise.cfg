SPECIFICATION Spec
CONSTANTS
    Images <- MCImages
    Page = 2
    Size = 5
    Worn = {{}, {1}}
    Rates <- OneRate
    BoardRates = {57600, 115200, 9600}
    Attempts = 5
    MaxNoise = 1
    MaxLost = 0
    Slow = FALSE
    Verify = TRUE
INVARIANTS
    GoodBoardIsFlashed
CHECK_DEADLOCK FALSE
