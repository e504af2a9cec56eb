SPECIFICATION FairSpec
CONSTANTS
    Clients = {"alice", "bob"}
    Window = 2
    MaxPerIp = 2
    MaxFlight = 1
    MaxKeys = 1
    Horizon = 3
    Programs = {"sdcc", "sdld"}
    Library = {"lib", "crt0"}
    Changed = {"lib", "crt0"}
    MaxCrashes = 1
    Bundles = {"avr", "riscv"}
    Parts = {"bin", "lib"}
    Files = {"gcc", "cc1"}
    PartOf <- MCPartOf
    Driver = "gcc"
    Packed = {"cc1"}
    Zipped = {"avr", "riscv", "xtensa"}
    Newer = {"cc1"}
INVARIANTS
    WindowHolds
    SlotsCounted
    UninterruptedComplete
    StampTellsTheBundle
PROPERTIES
    Answered
