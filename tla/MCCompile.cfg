SPECIFICATION CompileSpec
CONSTANTS
    Pins <- MCPins
    Ports <- MCPorts
    PortOf <- MCPortOf
    Misspelt = "?"
    Names <- MCNames
    Boards <- MCBoards
    Lines <- MCLines
    MaxLines = 3
    Requests = {"p", "q"}
    Keys = {"core", "servo"}
    Objects = {"main", "tone", "servo"}
    Sources <- MCSources
    Sketches <- MCSketches
    Asked <- MCAsked
    Refusers = {"sdcc", "sdcc -c", "avr-gcc", "arm-gcc", "riscv-gcc", "xtensa-gcc", "shecc", "loader", "entry",
                "cc65", "ca65", "crt0", "ld65", "objcopy", "sdas", "symtab", "objdump", "size"}
CHECK_DEADLOCK FALSE
INVARIANTS
    OneOwner
    ReprintAccepted
    ParsesBack
    ReadsAsMeant
    CacheWhole
    LinksWhole
    RefusalsReported
    ExtrasNeverFail
    ImageWhole
    CleansUp
PROPERTIES
    CacheStays
    Ends
