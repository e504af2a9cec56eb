SPECIFICATION MCBuildsFairSpec
CONSTANTS
    Requests = {"p", "q"}
    Keys = {"core", "servo"}
    Objects = {"main", "tone", "servo"}
    Sources <- MCSources
    Sketches <- MCSketches
    Asked <- MCAsked
    Refusers = {"sdld"}
INVARIANTS
    RefusalsReported
