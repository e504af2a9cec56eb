SPECIFICATION MCSpec
CONSTANTS
    Pins <- MCPins
    Ports <- MCPorts
    PortOf <- MCPortOf
    Misspelt = "?"
    Names <- MCNames
    Boards <- MCBoards
    Lines <- MCLines
    MaxLines = 3
CHECK_DEADLOCK FALSE
INVARIANTS
    ParsesBackAlways
