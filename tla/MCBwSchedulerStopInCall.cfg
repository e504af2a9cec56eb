SPECIFICATION FairSpec
CONSTANTS
    Programs <- StopInCallFamily
    Vars = {"x", "y", "b", "c"}
    Inputs = {"b", "c"}
    Counters = {1, 2}
    Width = 3
PROPERTIES
    EveryTaskIsServed
