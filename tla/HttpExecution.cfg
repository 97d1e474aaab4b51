\* Both targets of a scenario, with bodies below, at and above the limit.
CONSTANTS Targets = {baseline, candidate}
          Limit = 2
          Bodies = {0, 2, 3}
SPECIFICATION FairSpec
INVARIANTS ObservationIsWhole NothingLeftBehind FailureIsTruthful
PROPERTIES ImplementsContract EveryCallSettles
\* The calls end.
CHECK_DEADLOCK FALSE
