SPECIFICATION FairSpec
CHECK_DEADLOCK FALSE
CONSTANTS
    Targets = {"baseline", "candidate"}
    NScenarios = 2
    NoFile = NoFile
INVARIANTS
    ExitCodeIsTruthful
    EvidenceIsConsistent
PROPERTIES
    InterruptionReachesEveryScenario
    CommandEnds
