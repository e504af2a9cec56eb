SPECIFICATION FairSpec
CONSTANTS
    Programs <- Family
    Vars = {"x", "y", "b", "c"}
    Inputs = {"b", "c"}
    Counters = {1, 2}
    Width = 3
PROPERTIES
    ImplementsContract
    EveryTaskIsServed
