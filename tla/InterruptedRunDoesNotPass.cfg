SPECIFICATION Spec
CHECK_DEADLOCK FALSE
CONSTANTS
    Targets = {"baseline", "candidate"}
    NScenarios = 1
    NoFile = NoFile
INVARIANTS
    InterruptedRunDoesNotPass
